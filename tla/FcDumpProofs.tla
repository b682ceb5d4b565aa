---------------------------- MODULE FcDumpProofs ----------------------------
(***************************************************************************)
(* What fcdump keeps of a file whatever the file, the executable and the   *)
(* command line: the arcs of the call-graph, the edges of -vcg and the     *)
(* cycles.                                                                 *)
(***************************************************************************)
EXTENDS FcDump, FiniteSetTheorems, TLAPS

------------------------------------------------------------------------------
(* Finite sets of numbers in their order *)

Increasing(s) == \A i, j \in DOMAIN s : i < j => s[i] < s[j]

UpTo(S, x) == {y \in S : y <= x}

(* A set of naturals that is not empty has a least element. *)
LEMMA Least ==
  ASSUME NEW S, S \subseteq Nat, S # {}
  PROVE  \E x \in S : \A y \in S : x <= y
<1> DEFINE R == OpToRel(<, Nat)
<1>1. IsWellFoundedOn(R, Nat)
  BY NatLessThanWellFounded
<1>2. \A x, y \in Nat : x < y => <<x, y>> \in R
  BY DEF OpToRel
<1> HIDE DEF R
<1>3. PICK x \in S : \A y \in S : ~(<<y, x>> \in R)
  BY <1>1, WFMin
<1>4. \A y \in S : ~(y < x)
  BY <1>2, <1>3
<1> QED
  BY <1>4

(* How many numbers of a set are not beyond one of them grows with it. *)
LEMMA RankGrows ==
  ASSUME NEW S, S \subseteq Nat, IsFiniteSet(S), NEW x \in S
  PROVE  /\ Cardinality(UpTo(S, x)) \in 1 .. Cardinality(S)
         /\ \A y \in S : x < y => Cardinality(UpTo(S, x)) < Cardinality(UpTo(S, y))
<1>1. \A y \in S : IsFiniteSet(UpTo(S, y)) /\ Cardinality(UpTo(S, y)) \in Nat
                   /\ Cardinality(UpTo(S, y)) <= Cardinality(S)
  <2> TAKE y \in S
  <2>1. UpTo(S, y) \in SUBSET S
    BY DEF UpTo
  <2> QED
    BY <2>1, FS_Subset, FS_CardinalityType
<1>2. Cardinality(UpTo(S, x)) # 0
  <2>1. x \in UpTo(S, x)
    BY DEF UpTo
  <2> QED
    BY <1>1, <2>1, FS_EmptySet
<1>3. Cardinality(S) \in Nat
  BY FS_CardinalityType
<1>4. ASSUME NEW y \in S, x < y
      PROVE  Cardinality(UpTo(S, x)) < Cardinality(UpTo(S, y))
  <2>1. UpTo(S, x) \in SUBSET (UpTo(S, y) \ {y}) /\ y \in UpTo(S, y)
    <3>1. x \in Nat /\ y \in Nat
      OBVIOUS
    <3>2. \A z \in UpTo(S, x) : z \in Nat /\ z <= y /\ z # y
      BY <1>4, <3>1 DEF UpTo
    <3>3. UpTo(S, x) \subseteq UpTo(S, y) \ {y}
      BY <3>2 DEF UpTo
    <3> QED
      BY <3>1, <3>3 DEF UpTo
  <2>2. /\ IsFiniteSet(UpTo(S, y) \ {y})
        /\ Cardinality(UpTo(S, y) \ {y}) = Cardinality(UpTo(S, y)) - 1
    BY <1>1, <2>1, FS_RemoveElement
  <2>3. Cardinality(UpTo(S, x)) <= Cardinality(UpTo(S, y)) - 1
    BY <2>1, <2>2, FS_Subset
  <2> QED
    BY <1>1, <2>3
<1> QED
  BY <1>1, <1>2, <1>3, <1>4

(* A sequence of its numbers in their order has all numbers of a set. *)
LEMMA IncreasingIsOnto ==
  ASSUME NEW S, S \subseteq Nat, IsFiniteSet(S),
         NEW s \in [1 .. Cardinality(S) -> S], Increasing(s)
  PROVE  \A x \in S : \E i \in 1 .. Cardinality(S) : s[i] = x
<1>1. Cardinality(S) \in Nat
  BY FS_CardinalityType
<1>2. \A i, j \in 1 .. Cardinality(S) : i # j => s[i] # s[j]
  <2> TAKE i, j \in 1 .. Cardinality(S)
  <2>1. i < j \/ j < i \/ i = j
    BY <1>1
  <2>2. s[i] \in Nat /\ s[j] \in Nat
    OBVIOUS
  <2> QED
    BY <2>1, <2>2 DEF Increasing
<1>3. s \in Injection(1 .. Cardinality(S), S)
  BY <1>2 DEF Injection, IsInjective
<1>4. Cardinality(1 .. Cardinality(S)) = Cardinality(S)
  BY <1>1, FS_Interval
<1>5. s \in Surjection(1 .. Cardinality(S), S)
  BY <1>3, <1>4, FS_Injection
<1> QED
  BY <1>5 DEF Surjection

(* InOrder is such a sequence. *)
LEMMA Ordered ==
  ASSUME NEW S, S \subseteq Nat, IsFiniteSet(S)
  PROVE  /\ InOrder(S) \in [1 .. Cardinality(S) -> S] /\ Increasing(InOrder(S))
         /\ \A x \in S : \E i \in 1 .. Cardinality(S) : InOrder(S)[i] = x
<1> DEFINE n == Cardinality(S)
           rank == [x \in S |-> Cardinality(UpTo(S, x))]
           s == [i \in 1 .. n |-> CHOOSE x \in S : rank[x] = i]
<1>1. n \in Nat
  BY FS_CardinalityType
<1>2. rank \in [S -> 1 .. n]
  BY RankGrows
<1>3. \A x, y \in S : x < y => rank[x] < rank[y]
  BY RankGrows
<1> HIDE DEF rank, n
<1>4. \A x, y \in S : rank[x] = rank[y] => x = y
  <2> TAKE x, y \in S
  <2>1. x \in Nat /\ y \in Nat /\ rank[x] \in 1 .. n /\ rank[y] \in 1 .. n
    BY <1>2
  <2>2. x < y \/ y < x \/ x = y
    BY <2>1
  <2> QED
    BY <1>1, <1>3, <2>1, <2>2
<1>5. rank \in Injection(S, 1 .. n)
  BY <1>2, <1>4 DEF Injection, IsInjective
<1>6. IsFiniteSet(1 .. n) /\ Cardinality(1 .. n) = Cardinality(S)
  BY <1>1, FS_Interval DEF n
<1>7. \A i \in 1 .. n : \E x \in S : rank[x] = i
  BY <1>5, <1>6, FS_Injection DEF Surjection
<1>8. \A i \in 1 .. n : s[i] \in S /\ rank[s[i]] = i
  BY <1>7
<1>9. s \in [1 .. n -> S]
  BY <1>8
<1> HIDE DEF s
<1>10. ASSUME NEW i \in 1 .. n, NEW j \in 1 .. n, i < j PROVE s[i] < s[j]
  <2>1. s[i] \in Nat /\ s[j] \in Nat /\ rank[s[i]] = i /\ rank[s[j]] = j
    BY <1>8
  <2>2. s[i] < s[j] \/ s[j] < s[i] \/ s[i] = s[j]
    BY <2>1
  <2>3. s[j] < s[i] => j < i
    BY <1>3, <1>8, <2>1
  <2> QED
    BY <1>1, <1>10, <2>1, <2>2, <2>3
<1>11. Increasing(s)
  BY <1>9, <1>10 DEF Increasing
<1>12. InOrder(S) \in [1 .. n -> S] /\ Increasing(InOrder(S))
  BY <1>9, <1>11 DEF InOrder, n, Increasing
<1> QED
  BY <1>12, IncreasingIsOnto DEF n

(* The numbers that are not beyond the i-th one are i. *)
LEMMA RankInOrder ==
  ASSUME NEW S, S \subseteq Nat, IsFiniteSet(S), NEW i \in 1 .. Cardinality(S)
  PROVE  Cardinality(UpTo(S, InOrder(S)[i])) = i
<1> DEFINE n == Cardinality(S)
           s == InOrder(S)
           f == [j \in 1 .. i |-> s[j]]
<1>1. n \in Nat
  BY FS_CardinalityType
<1>2. s \in [1 .. n -> S] /\ Increasing(s) /\ \A x \in S : \E j \in 1 .. n : s[j] = x
  BY Ordered
<1> HIDE DEF n, s
<1>3. i \in 1 .. n
  BY DEF n
<1>4. \A j, k \in 1 .. n : j < k => s[j] < s[k]
  BY <1>2 DEF Increasing
<1>5. \A j \in 1 .. i : s[j] \in UpTo(S, s[i])
  <2> TAKE j \in 1 .. i
  <2>1. j \in 1 .. n /\ (j < i \/ j = i)
    BY <1>1, <1>3
  <2>2. s[j] \in S /\ s[i] \in S /\ s[j] \in Nat /\ s[i] \in Nat
    BY <1>2, <1>3, <2>1
  <2> QED
    BY <1>3, <1>4, <2>1, <2>2 DEF UpTo
<1>6. \A j, k \in 1 .. i : s[j] = s[k] => j = k
  <2> TAKE j, k \in 1 .. i
  <2>1. j \in 1 .. n /\ k \in 1 .. n /\ (j < k \/ k < j \/ j = k)
    BY <1>1, <1>3
  <2>2. s[j] \in Nat /\ s[k] \in Nat
    BY <1>2, <2>1
  <2> QED
    BY <1>4, <2>1, <2>2
<1>7. \A x \in UpTo(S, s[i]) : \E j \in 1 .. i : s[j] = x
  <2> TAKE x \in UpTo(S, s[i])
  <2>1. PICK j \in 1 .. n : s[j] = x
    BY <1>2 DEF UpTo
  <2>2. s[j] \in Nat /\ s[i] \in Nat /\ s[j] <= s[i]
    BY <1>2, <1>3, <2>1 DEF UpTo
  <2>3. ~(i < j)
    BY <1>3, <1>4, <2>1, <2>2
  <2> QED
    BY <1>1, <1>3, <2>1, <2>3
<1>8. f \in Bijection(1 .. i, UpTo(S, s[i]))
  BY <1>5, <1>6, <1>7 DEF Bijection, Injection, Surjection, IsInjective
<1>9. IsFiniteSet(1 .. i) /\ Cardinality(1 .. i) = i
  BY <1>1, <1>3, FS_Interval
<1> QED
  BY <1>8, <1>9, FS_Bijection DEF ExistsBijection, s

(* The first of the numbers is the least and the last the largest. *)
LEMMA EndsInOrder ==
  ASSUME NEW S, S \subseteq Nat, IsFiniteSet(S), S # {}
  PROVE  /\ Cardinality(S) \in Nat \ {0}
         /\ Min(S) = InOrder(S)[1] /\ Max(S) = InOrder(S)[Cardinality(S)]
         /\ Max(S) \in S /\ \A x \in S : x <= Max(S)
<1> DEFINE n == Cardinality(S)
           s == InOrder(S)
<1>1. n \in Nat /\ n # 0
  BY FS_CardinalityType, FS_EmptySet
<1>2. s \in [1 .. n -> S] /\ Increasing(s) /\ \A x \in S : \E j \in 1 .. n : s[j] = x
  BY Ordered
<1> HIDE DEF n, s
<1>3. s[1] \in S /\ s[n] \in S
  BY <1>1, <1>2
<1>4. \A x \in S : s[1] <= x /\ x <= s[n]
  <2> TAKE x \in S
  <2>1. PICK j \in 1 .. n : s[j] = x
    BY <1>2
  <2>2. s[j] \in Nat /\ s[1] \in Nat /\ s[n] \in Nat
    BY <1>2, <1>3
  <2>3. (1 < j \/ 1 = j) /\ (j < n \/ j = n) /\ 1 \in 1 .. n /\ n \in 1 .. n
    BY <1>1
  <2>4. (1 < j => s[1] < s[j]) /\ (j < n => s[j] < s[n])
    BY <1>2, <2>3 DEF Increasing
  <2> QED
    BY <2>1, <2>2, <2>3, <2>4
<1>5. \A x \in S : \A y \in S : x <= y /\ y <= x => x = y
  OBVIOUS
<1>6. Min(S) = s[1]
  <2>1. Min(S) \in S /\ \A y \in S : Min(S) <= y
    BY <1>3, <1>4 DEF Min
  <2> QED
    BY <1>3, <1>4, <1>5, <2>1
<1>7. Max(S) = s[n]
  <2>1. \A x, y \in S : x >= y <=> y <= x
    OBVIOUS
  <2>2. Max(S) \in S /\ \A y \in S : Max(S) >= y
    BY <1>3, <1>4, <2>1 DEF Max
  <2> QED
    BY <1>3, <1>4, <1>5, <2>1, <2>2
<1> QED
  BY <1>1, <1>3, <1>4, <1>6, <1>7 DEF n, s

(* The largest symbol that is not beyond an address, when there is one *)
Below(syms, addr) == IF addr < Min(syms) \/ addr > Max(syms) THEN addr
                     ELSE Max({f \in syms : f <= addr})

(* fc_extract_dynamic_base finds it. *)
LEMMA BaseFound ==
  ASSUME NEW table, DOMAIN table \subseteq Nat, IsFiniteSet(DOMAIN table), DOMAIN table # {},
         NEW addr \in Nat
  PROVE  ExtractBase(table, addr) = Below(DOMAIN table, addr)
<1> DEFINE S == DOMAIN table
           n == Cardinality(S)
           s == InOrder(S)
           at == {i \in 1 .. n - 1 : addr >= s[i] /\ addr < s[i + 1]}
           T == {f \in S : f <= addr}
           t == Max(T)
<1>1. n \in Nat \ {0} /\ Min(S) = s[1] /\ Max(S) = s[n]
  BY EndsInOrder
<1>2. s \in [1 .. n -> S] /\ Increasing(s) /\ \A x \in S : \E j \in 1 .. n : s[j] = x
  BY Ordered
<1>3. S \subseteq Nat /\ IsFiniteSet(S)
  OBVIOUS
<1>4. Len(s) = n
  BY <1>1, <1>2
<1>5. ExtractBase(table, addr) = IF OutOfTable(table, addr) \/ at = {} THEN addr ELSE s[Min(at)]
  BY <1>4 DEF ExtractBase
<1>6. OutOfTable(table, addr) <=> addr < Min(S) \/ addr > Max(S)
  BY DEF OutOfTable
<1>7. CASE OutOfTable(table, addr)
  BY <1>5, <1>6, <1>7 DEF Below
<1>8. CASE ~OutOfTable(table, addr)
  <2> HIDE DEF S, n, s
  <2>1. 1 \in 1 .. n /\ n \in 1 .. n
    BY <1>1
  <2>2. s[1] \in S /\ s[n] \in S /\ s[1] <= addr /\ addr <= s[n]
    <3>1. s[1] \in S /\ s[n] \in S
      BY <1>2, <2>1
    <3>2. s[1] \in Nat /\ s[n] \in Nat
      BY <1>3, <3>1
    <3> QED
      BY <1>1, <1>6, <1>8, <3>1, <3>2
  <2>3. T \subseteq Nat /\ IsFiniteSet(T) /\ T # {}
    <3>1. T \in SUBSET S /\ s[1] \in T
      BY <2>2
    <3> QED
      BY <1>3, <3>1, FS_Subset
  <2>4. t \in T /\ \A x \in T : x <= t
    BY <2>3, EndsInOrder
  <2>5. PICK k \in 1 .. n : s[k] = t
    BY <1>2, <2>4
  <2>6. \A i, j \in 1 .. n : i < j => s[i] < s[j]
    BY <1>2 DEF Increasing
  <2>7. \A i \in 1 .. n : s[i] \in S /\ s[i] \in Nat
    BY <1>2, <1>3
  <2>8. t \in Nat /\ t <= addr
    BY <2>3, <2>4
  <2>9. \A i \in 1 .. n : s[i] <= addr => s[i] <= t
    BY <2>4, <2>7
  <2> HIDE DEF T, t
  <2>10. ASSUME NEW i \in at PROVE i = k
    <3>1. i \in 1 .. n /\ i + 1 \in 1 .. n /\ addr >= s[i] /\ addr < s[i + 1]
      BY <1>1
    <3>2. s[i] \in Nat /\ s[i + 1] \in Nat /\ s[i] <= t /\ t < s[i + 1]
      BY <2>7, <2>8, <2>9, <3>1
    <3>3. ~(k < i)
      BY <2>5, <2>6, <2>8, <3>1, <3>2
    <3>4. ~(i + 1 < k) /\ i + 1 # k
      BY <2>5, <2>6, <2>8, <3>1, <3>2
    <3> QED
      BY <1>1, <3>1, <3>3, <3>4
  <2>11. CASE k < n
    <3>1. k \in 1 .. n - 1 /\ k + 1 \in 1 .. n /\ k < k + 1
      BY <1>1, <2>11
    <3>2. s[k] < s[k + 1] /\ s[k + 1] \in Nat
      BY <2>6, <2>7, <3>1
    <3>3. ~(s[k + 1] <= addr)
      BY <2>5, <2>8, <2>9, <3>1, <3>2
    <3>4. k \in at
      BY <2>5, <2>8, <3>1, <3>2, <3>3
    <3>5. at = {k}
      BY <2>10, <3>4
    <3>6. Min(at) = k
      BY <3>1, <3>5 DEF Min
    <3> QED
      BY <1>5, <1>6, <1>8, <2>5, <3>5, <3>6 DEF Below, T, t, S
  <2>12. CASE k = n
    <3>1. addr = t
      BY <2>2, <2>5, <2>8, <2>12
    <3>2. at = {}
      BY <1>1, <2>10, <2>12
    <3> QED
      BY <1>5, <1>6, <1>8, <3>1, <3>2 DEF Below, T, t, S
  <2> QED
    BY <1>1, <2>11, <2>12
<1> QED
  BY <1>7, <1>8

------------------------------------------------------------------------------
(* The command line: the values of the fold over the sets of words in D,   *)
(* from the last word on                                                   *)
IsReading(iter, argv, D) ==
  iter = [s \in D |-> IF s = {} THEN Defaults
                      ELSE Option(iter[s \ {Max(s)}], argv[Max(s)])]

(* the sets of words that have at most n elements *)
Few(S, n) == {s \in SUBSET S : Cardinality(s) <= n}

(* Sets of words are finite, and have no more elements than there are words. *)
LEMMA WordsFinite ==
  ASSUME NEW m \in Nat
  PROVE  \A s \in SUBSET (1 .. m) :
           /\ IsFiniteSet(s) /\ Cardinality(s) \in Nat /\ Cardinality(s) <= m
           /\ s # {} => Max(s) \in s /\ s \ {Max(s)} \in SUBSET (1 .. m)
                        /\ Cardinality(s \ {Max(s)}) = Cardinality(s) - 1
<1>1. IsFiniteSet(1 .. m) /\ Cardinality(1 .. m) = m
  BY FS_Interval
<1>2. \A s \in SUBSET (1 .. m) : IsFiniteSet(s) /\ Cardinality(s) <= Cardinality(1 .. m)
  BY <1>1, FS_Subset
<1>3. ASSUME NEW s \in SUBSET (1 .. m), s # {}
      PROVE  Max(s) \in s
  <2>1. s \subseteq Nat
    OBVIOUS
  <2> QED
    BY <1>2, <1>3, <2>1, EndsInOrder
<1>4. ASSUME NEW s \in SUBSET (1 .. m)
      PROVE  IsFiniteSet(s) /\ Cardinality(s) \in Nat /\ Cardinality(s) <= m
  BY <1>1, <1>2, FS_CardinalityType
<1>5. ASSUME NEW s \in SUBSET (1 .. m), s # {}
      PROVE  /\ s \ {Max(s)} \in SUBSET (1 .. m)
             /\ Cardinality(s \ {Max(s)}) = Cardinality(s) - 1
  BY <1>3, <1>4, <1>5, FS_RemoveElement
<1> QED
  BY <1>3, <1>4, <1>5

(* One more word may be added to the sets that are read. *)
LEMMA ReadingGrows ==
  ASSUME NEW argv, NEW m \in Nat, NEW n \in Nat,
         \E iter : IsReading(iter, argv, Few(1 .. m, n))
  PROVE  \E iter : IsReading(iter, argv, Few(1 .. m, n + 1))
<1> DEFINE D(k) == Few(1 .. m, k)
<1>1. PICK g : IsReading(g, argv, D(n))
  OBVIOUS
<1> DEFINE h == [s \in D(n + 1) |-> IF s = {} THEN Defaults
                                    ELSE Option(g[s \ {Max(s)}], argv[Max(s)])]
<1>2. \A s \in D(n) : g[s] = IF s = {} THEN Defaults
                             ELSE Option(g[s \ {Max(s)}], argv[Max(s)])
  BY <1>1 DEF IsReading
<1>3. \A s \in D(n) : s \in D(n + 1)
  <2> TAKE s \in D(n)
  <2>1. s \in SUBSET (1 .. m) /\ Cardinality(s) <= n
    BY DEF Few
  <2>2. Cardinality(s) \in Nat
    BY <2>1, WordsFinite
  <2>3. Cardinality(s) <= n + 1
    BY <2>1, <2>2
  <2> QED
    BY <2>1, <2>3 DEF Few
<1>4. ASSUME NEW s \in D(n + 1), s # {} PROVE s \ {Max(s)} \in D(n)
  <2>1. s \in SUBSET (1 .. m) /\ Cardinality(s) <= n + 1
    BY DEF Few
  <2>2. /\ s \ {Max(s)} \in SUBSET (1 .. m) /\ Cardinality(s) \in Nat
        /\ Cardinality(s \ {Max(s)}) = Cardinality(s) - 1
    BY <1>4, <2>1, WordsFinite
  <2>3. Cardinality(s \ {Max(s)}) <= n
    BY <2>1, <2>2
  <2> QED
    BY <2>2, <2>3 DEF Few
<1> HIDE DEF D
<1>5. \A s \in D(n) : h[s] = g[s]
  BY <1>2, <1>3
<1>6. h = [s \in D(n + 1) |-> IF s = {} THEN Defaults
                              ELSE Option(h[s \ {Max(s)}], argv[Max(s)])]
  BY <1>4, <1>5
<1> HIDE DEF h
<1>7. IsReading(h, argv, D(n + 1))
  BY <1>6 DEF IsReading
<1> QED
  BY <1>7 DEF D

(* The recursive function of the fold in ReadOptions exists. *)
LEMMA ReadingExists ==
  ASSUME NEW argv, NEW m \in Nat
  PROVE  \E iter : IsReading(iter, argv, SUBSET (1 .. m))
<1> DEFINE E(k) == \E iter : IsReading(iter, argv, Few(1 .. m, k))
           Bad == {k \in Nat : ~E(k)}
<1>1. \A s \in SUBSET (1 .. m) : IsFiniteSet(s) /\ Cardinality(s) \in Nat /\ Cardinality(s) <= m
  BY WordsFinite
<1>2. E(0)
  <2> DEFINE h == [s \in {{}} |-> Defaults]
  <2>1. Few(1 .. m, 0) = {{}}
    BY <1>1, FS_EmptySet DEF Few
  <2>2. h = [s \in {{}} |-> IF s = {} THEN Defaults
                            ELSE Option(h[s \ {Max(s)}], argv[Max(s)])]
    OBVIOUS
  <2> HIDE DEF h
  <2>3. IsReading(h, argv, {{}})
    BY <2>2 DEF IsReading
  <2> QED
    BY <2>1, <2>3
<1>3. ASSUME NEW n \in Nat, E(n) PROVE E(n + 1)
  BY <1>3, ReadingGrows
<1> HIDE DEF E
<1>4. E(m)
  <2>1. SUFFICES ASSUME ~E(m) PROVE FALSE
    OBVIOUS
  <2>2. PICK k \in Bad : \A j \in Bad : k <= j
    BY <2>1, Least
  <2>3. k # 0 /\ k \in Nat /\ ~E(k)
    BY <1>2, <2>2
  <2>4. k - 1 \in Nat /\ (k - 1) + 1 = k
    BY <2>3
  <2>5. E(k - 1)
    BY <2>2, <2>4
  <2> QED
    BY <1>3, <2>3, <2>4, <2>5
<1>5. Few(1 .. m, m) = SUBSET (1 .. m)
  BY <1>1 DEF Few
<1> QED
  BY <1>4, <1>5 DEF E

(* what is known of the variables of main whatever the words: their names, *)
(* and why fcdump ends                                                     *)
OptsOK(o) ==
  /\ DOMAIN o = {"end", "efile", "pfile", "flags", "sort", "order", "only", "not"}
  /\ o.end \in {"", "told", "fatal"}

LEMMA OptionKeeps ==
  ASSUME NEW o, NEW w, OptsOK(o)
  PROVE  OptsOK(Option(o, w))
BY DEF OptsOK, Option, SortOption, ProgramName

LEMMA OptionsRead ==
  ASSUME NEW argv, argv \in Seq(Range(argv))
  PROVE  OptsOK(ReadOptions(argv))
<1> DEFINE m == Len(argv)
           D == SUBSET (1 .. m)
           chosen == CHOOSE iter : IsReading(iter, argv, D)
<1>1. m \in Nat /\ DOMAIN argv = 1 .. m
  OBVIOUS
<1>2. IsReading(chosen, argv, D)
  BY <1>1, ReadingExists
<1>3. FoldLeft(Option, Defaults, argv) = chosen[1 .. m]
  BY <1>1 DEF FoldLeft, MapThenFoldSet, IsReading
<1> HIDE DEF m, chosen
<1>4. \A s \in D : chosen[s] = IF s = {} THEN Defaults
                               ELSE Option(chosen[s \ {Max(s)}], argv[Max(s)])
  BY <1>2 DEF IsReading
<1> DEFINE Bad == {k \in Nat : \E s \in D : Cardinality(s) = k /\ ~OptsOK(chosen[s])}
<1>5. Bad = {}
  <2>1. SUFFICES ASSUME Bad # {} PROVE FALSE
    OBVIOUS
  <2>2. PICK k \in Bad : \A j \in Bad : k <= j
    BY <2>1, Least
  <2>3. PICK s \in D : Cardinality(s) = k /\ ~OptsOK(chosen[s])
    BY <2>2
  <2>4. CASE s = {}
    <3>1. OptsOK(Defaults)
      BY DEF OptsOK, Defaults
    <3> QED
      BY <1>4, <2>3, <2>4, <3>1
  <2>5. CASE s # {}
    <3>1. s \ {Max(s)} \in D /\ Cardinality(s) \in Nat
          /\ Cardinality(s \ {Max(s)}) = Cardinality(s) - 1
      BY <1>1, <2>5, WordsFinite
    <3>2. Cardinality(s \ {Max(s)}) \in Nat
      BY <1>1, <3>1, WordsFinite
    <3>3. OptsOK(chosen[s \ {Max(s)}])
      <4>1. Cardinality(s \ {Max(s)}) \notin Bad
        <5>1. k = Cardinality(s) /\ ~(k <= k - 1)
          BY <2>3, <3>1
        <5> HIDE DEF Bad
        <5> QED
          BY <2>2, <3>1, <5>1
      <4> QED
        BY <3>1, <3>2, <4>1
    <3>4. OptsOK(chosen[s])
      <4>1. chosen[s] = Option(chosen[s \ {Max(s)}], argv[Max(s)])
        BY <1>4, <2>5
      <4> QED
        BY ONLY <3>3, <4>1, OptionKeeps
    <3> QED
      BY <2>3, <3>4
  <2> QED
    BY <2>4, <2>5
<1>6. OptsOK(chosen[1 .. m])
  <2>1. 1 .. m \in D /\ Cardinality(1 .. m) \in Nat
    BY <1>1, WordsFinite
  <2>2. Cardinality(1 .. m) \notin Bad
    BY <1>5
  <2> QED
    BY <2>1, <2>2
<1> QED
  <2>1. \/ ReadOptions(argv) = chosen[1 .. m]
        \/ ReadOptions(argv) = [chosen[1 .. m] EXCEPT !.end = "fatal"]
    BY <1>3 DEF ReadOptions
  <2> QED
    BY <1>6, <2>1 DEF OptsOK

------------------------------------------------------------------------------
(* The inductive invariant.  A list of arcs, with the numbers left open:   *)
IsArcs(list) ==
  /\ list \in Seq(Range(list))
  /\ \A i \in DOMAIN list : DOMAIN list[i] = {"from", "to", "number"} /\ list[i].to \in Funcs

(* the phases once the graph is created, and all those with solved names *)
AfterArcs == {"link", "select", "vcg", "list", "cycles", "memory", "done"}
AfterNames == {"sort", "arcs"} \cup AfterArcs

(* the arcs of the file, with the functions that the call sites lie in, no *)
(* two of them alike once duplicates are removed                           *)
FileOK == IsArcs(file) /\ \A i \in DOMAIN file : file[i].from \in Sites
ArcsOK ==
  /\ phase = "names" => arcs = file
  /\ phase \in AfterNames => IsArcs(arcs) /\ Pairs(arcs) = Called
  /\ phase \in AfterArcs => \A i, j \in DOMAIN arcs : SamePair(i, j) => i = j

(* the functions, each once, with its index in the file *)
IsFncs(list) ==
  /\ list \in Seq(Range(list))
  /\ \A i \in DOMAIN list :
       /\ DOMAIN list[i] = {"symbol", "name", "ok", "hide", "my_index"}
       /\ list[i].symbol \in Funcs /\ list[i].my_index = IndexInFile(list[i].symbol)
  /\ \A i, j \in DOMAIN list : list[i].symbol = list[j].symbol => i = j
HasAll(list) == \A f \in Funcs : \E i \in DOMAIN list : list[i].symbol = f
FncsOK == IsFncs(fncs) /\ (phase \in {"names"} \cup AfterNames => HasAll(fncs))

(* the links of the graph are those of the arcs *)
GraphOK ==
  /\ nodes \subseteq DOMAIN nexts /\ DOMAIN prevs = DOMAIN nexts
  /\ phase \in {"options", "read", "names", "sort", "arcs", "link"} => nodes = {}
  /\ phase \in AfterArcs => \A n \in nodes : nexts[n] = NextLinks(n) /\ prevs[n] = PrevLinks(n)

Phases == {"options", "read", "names", "told", "fatal", "crashed"} \cup AfterNames

(* with -vcg nothing is listed, so that what is displayed is the graph *)
VcgOK == phase \in {"list", "cycles", "memory"} => ~Flag("show_callgraph")

DumpInv ==
  /\ input \in Inputs /\ OptsOK(opts) /\ phase \in Phases
  /\ FileOK /\ ArcsOK /\ FncsOK /\ GraphOK /\ VcgOK /\ EdgesKept

------------------------------------------------------------------------------
(* What the definitions of the invariant rest on *)

(* Sets of indexes of a list are put in order by InOrder. *)
LEMMA IndexesOrdered ==
  ASSUME NEW list, list \in Seq(Range(list)), NEW S, S \subseteq DOMAIN list
  PROVE  /\ S \subseteq Nat /\ IsFiniteSet(S) /\ Cardinality(S) \in Nat
         /\ InOrder(S) \in [1 .. Cardinality(S) -> S] /\ Increasing(InOrder(S))
         /\ \A x \in S : \E i \in 1 .. Cardinality(S) : InOrder(S)[i] = x
<1>1. Len(list) \in Nat /\ DOMAIN list = 1 .. Len(list)
  OBVIOUS
<1>2. S \in SUBSET (1 .. Len(list)) /\ S \subseteq Nat
  BY <1>1
<1>3. IsFiniteSet(S)
  BY <1>1, <1>2, WordsFinite
<1> QED
  BY <1>2, <1>3, Ordered, FS_CardinalityType

(* The links of a node are its arcs, in both directions. *)
LEMMA LinksAreArcs ==
  ASSUME arcs \in Seq(Range(arcs)), NEW n
  PROVE  /\ \A l : l \in Range(NextLinks(n)) <=>
                     \E i \in DOMAIN arcs : FromNode(i) = n
                       /\ l = [node |-> ToNode(i), number |-> arcs[i].number]
         /\ \A l : l \in Range(PrevLinks(n)) <=>
                     \E i \in DOMAIN arcs : ToNode(i) = n
                       /\ l = [node |-> FromNode(i), number |-> arcs[i].number]
<1> DEFINE From == {i \in DOMAIN arcs : FromNode(i) = n}
           To == {i \in DOMAIN arcs : ToNode(i) = n}
<1>1. /\ InOrder(From) \in [1 .. Cardinality(From) -> From]
      /\ \A x \in From : \E k \in 1 .. Cardinality(From) : InOrder(From)[k] = x
  BY IndexesOrdered
<1>2. /\ InOrder(To) \in [1 .. Cardinality(To) -> To]
      /\ \A x \in To : \E k \in 1 .. Cardinality(To) : InOrder(To)[k] = x
  BY IndexesOrdered
<1>3. NextLinks(n) = [k \in DOMAIN InOrder(From) |->
                        [node |-> ToNode(InOrder(From)[k]), number |-> arcs[InOrder(From)[k]].number]]
  BY DEF NextLinks
<1>4. PrevLinks(n) = [k \in DOMAIN InOrder(To) |->
                        [node |-> FromNode(InOrder(To)[k]), number |-> arcs[InOrder(To)[k]].number]]
  BY DEF PrevLinks
<1>5. \A i : i \in From <=> i \in DOMAIN arcs /\ FromNode(i) = n
  OBVIOUS
<1>6. \A i : i \in To <=> i \in DOMAIN arcs /\ ToNode(i) = n
  OBVIOUS
<1> HIDE DEF From, To
<1>7. ASSUME NEW l
      PROVE  l \in Range(NextLinks(n)) <=>
               \E i \in From : l = [node |-> ToNode(i), number |-> arcs[i].number]
  BY <1>1, <1>3 DEF Range
<1>8. ASSUME NEW l
      PROVE  l \in Range(PrevLinks(n)) <=>
               \E i \in To : l = [node |-> FromNode(i), number |-> arcs[i].number]
  BY <1>2, <1>4 DEF Range
<1> QED
  BY <1>5, <1>6, <1>7, <1>8

(* The arcs that are called depend on the file and the names only. *)
LEMMA SameCalled ==
  ASSUME file' = file, input' = input, Flag("no_names")' <=> Flag("no_names")
  PROVE  Called' = Called /\ \A site : Base(site)' = Base(site)
BY DEF Called, Base, Solved, Flag

LEMMA InitInv ==
  ASSUME Init
  PROVE  DumpInv
<1>1. <<>> \in Seq(Range(<<>>)) /\ DOMAIN <<>> = {}
  BY DEF Range
<1>2. OptsOK(opts)
  BY DEF Init, OptsOK, Defaults
<1>3. FileOK /\ IsFncs(fncs)
  BY <1>1 DEF Init, FileOK, IsArcs, IsFncs
<1>4. ArcsOK /\ FncsOK /\ VcgOK /\ EdgesKept /\ GraphOK
  BY <1>1, <1>3 DEF Init, ArcsOK, FncsOK, VcgOK, EdgesKept, GraphOK, AfterArcs, AfterNames
<1> QED
  BY <1>2, <1>3, <1>4 DEF Init, DumpInv, Phases

------------------------------------------------------------------------------
(* The steps.  Those that leave the data alone:                            *)

(* the phases of the end of fcdump, for which nothing is to be shown *)
Ends == {"told", "fatal", "crashed"}

LEMMA ArcsStay ==
  ASSUME DumpInv, UNCHANGED <<input, file, arcs, nexts, prevs>>, nodes' \subseteq nodes,
         phase' # "names",
         phase' \in AfterNames => phase \in AfterNames /\ (Flag("no_names")' <=> Flag("no_names")),
         phase' \in AfterArcs => phase \in AfterArcs,
         phase' \in {"options", "read", "sort", "arcs", "link"} => nodes' = {}
  PROVE  FileOK' /\ ArcsOK' /\ GraphOK'
<1>1. FileOK' /\ GraphOK'
  <2>1. FileOK'
    BY DEF DumpInv, FileOK, IsArcs
  <2>2. \A n : NextLinks(n)' = NextLinks(n) /\ PrevLinks(n)' = PrevLinks(n)
    BY DEF NextLinks, PrevLinks, FromNode, ToNode
  <2> QED
    BY <2>1, <2>2 DEF DumpInv, GraphOK
<1>2. ArcsOK'
  <2>1. CASE phase' \in AfterNames
    <3>1. Called' = Called /\ Pairs(arcs)' = Pairs(arcs) /\ IsArcs(arcs)' = IsArcs(arcs)
      BY <2>1, SameCalled DEF Pairs, IsArcs
    <3> QED
      BY <2>1, <3>1 DEF DumpInv, ArcsOK, SamePair
  <2>2. CASE phase' \notin AfterNames
    BY <2>2 DEF DumpInv, ArcsOK, AfterNames
  <2> QED
    BY <2>1, <2>2
<1> QED
  BY <1>1, <1>2

LEMMA FncsStay ==
  ASSUME DumpInv, fncs' = fncs,
         phase' \in {"names"} \cup AfterNames => phase \in {"names"} \cup AfterNames
  PROVE  FncsOK'
<1>1. IsFncs(fncs)' /\ (HasAll(fncs)' <=> HasAll(fncs))
  BY DEF DumpInv, FncsOK, IsFncs, HasAll, IndexInFile
<1> QED
  BY <1>1 DEF DumpInv, FncsOK

LEMMA ArgumentsKeeps ==
  ASSUME DumpInv, Arguments
  PROVE  DumpInv'
<1>1. input \in Inputs /\ input' = input /\ OptsOK(opts')
  BY DumpAssumption, OptionsRead DEF DumpInv, Arguments
<1>2. phase = "options" /\ phase' \in {"read", "told", "fatal"}
  BY <1>1 DEF Arguments, OptsOK
<1>3. FileOK' /\ ArcsOK' /\ FncsOK' /\ GraphOK'
  <2>1. nodes = {} /\ UNCHANGED <<file, arcs, fncs, nodes, nexts, prevs>>
    BY <1>2 DEF DumpInv, GraphOK, Arguments, graph
  <2> QED
    BY <1>1, <1>2, <2>1, ArcsStay, FncsStay DEF AfterNames, AfterArcs
<1>4. VcgOK' /\ EdgesKept'
  BY <1>2 DEF VcgOK, EdgesKept
<1> QED
  BY <1>1, <1>2, <1>3, <1>4 DEF DumpInv, Phases, OptsOK

LEMMA EndsKeep ==
  ASSUME DumpInv, UNCHANGED <<input, opts, file, arcs, fncs, graph>>, phase' \in Ends
  PROVE  DumpInv'
<1>1. FileOK' /\ ArcsOK' /\ FncsOK' /\ GraphOK'
  BY ArcsStay, FncsStay DEF Ends, AfterNames, AfterArcs, graph
<1>2. VcgOK' /\ EdgesKept'
  BY DEF Ends, VcgOK, EdgesKept
<1> QED
  BY <1>1, <1>2 DEF DumpInv, Phases, OptsOK, Ends

LEMMA NoNamesKeeps ==
  ASSUME DumpInv, NoNames
  PROVE  DumpInv'
<1>1. CASE phase' = "fatal"
  BY <1>1, EndsKeep DEF NoNames, Ends
<1>2. CASE phase' = "sort"
  <2>1. phase = "names" /\ ~Solved /\ UNCHANGED <<input, opts, file, arcs, fncs, graph>>
    BY DEF NoNames, Solved
  <2>2. FileOK' /\ GraphOK'
    BY <1>2, <2>1 DEF DumpInv, FileOK, IsArcs, GraphOK, AfterArcs, graph
  <2>3. FncsOK'
    BY <2>1, FncsStay
  <2>4. ArcsOK'
    <3>1. arcs = file /\ IsArcs(file)
      BY <2>1 DEF DumpInv, ArcsOK, FileOK
    <3>2. \A a \in Range(file) : Base(a.from) = a.from
      BY <2>1 DEF Base
    <3>3. Pairs(file) = Called
      BY <3>2 DEF Pairs, Called, Range
    <3>4. Called' = Called /\ Pairs(arcs)' = Pairs(file) /\ IsArcs(arcs)'
      BY <2>1, <3>1, SameCalled DEF Pairs, IsArcs, Flag
    <3> QED
      BY <1>2, <3>3, <3>4 DEF ArcsOK, AfterArcs
  <2>5. VcgOK' /\ EdgesKept'
    BY <1>2 DEF VcgOK, EdgesKept
  <2> QED
    BY <1>2, <2>1, <2>2, <2>3, <2>4, <2>5 DEF DumpInv, Phases, AfterNames, OptsOK
<1> QED
  BY <1>1, <1>2 DEF NoNames

LEMMA GraphFailsKeeps ==
  ASSUME DumpInv, GraphFails
  PROVE  DumpInv'
<1>1. /\ phase = "link" /\ UNCHANGED <<input, file, arcs, fncs, graph>>
      /\ phase' = IF Flag("show_callgraph") THEN "vcg" ELSE "list"
      /\ opts' = [opts EXCEPT !.flags = @ \cup {"no_call_graph"}]
  BY DEF GraphFails
<1>2. OptsOK(opts') /\ opts'.flags = opts.flags \cup {"no_call_graph"}
  BY <1>1 DEF DumpInv, OptsOK
<1>3. /\ Flag("no_names")' <=> Flag("no_names")
      /\ Flag("show_callgraph")' <=> Flag("show_callgraph")
  BY <1>2 DEF Flag
<1>4. FileOK' /\ ArcsOK' /\ FncsOK' /\ GraphOK'
  BY <1>1, <1>3, ArcsStay, FncsStay DEF AfterNames, AfterArcs, graph
<1>5. VcgOK' /\ EdgesKept'
  BY <1>1, <1>3 DEF VcgOK, EdgesKept
<1> QED
  BY <1>1, <1>2, <1>4, <1>5 DEF DumpInv, Phases, AfterNames, AfterArcs, OptsOK

LEMMA ListingKeeps ==
  ASSUME DumpInv, ListFunctions \/ ComputeCycles
  PROVE  DumpInv'
<1>1. /\ phase \in {"list", "cycles"} /\ phase' \in {"cycles", "memory"}
      /\ UNCHANGED <<input, opts, file, arcs, fncs, graph>>
  BY DEF ListFunctions, ComputeCycles
<1>2. FileOK' /\ ArcsOK' /\ FncsOK' /\ GraphOK'
  BY <1>1, ArcsStay, FncsStay DEF AfterNames, AfterArcs, Flag, graph
<1>3. VcgOK' /\ EdgesKept'
  BY <1>1 DEF DumpInv, VcgOK, EdgesKept, Flag
<1> QED
  BY <1>1, <1>2, <1>3 DEF DumpInv, Phases, AfterNames, AfterArcs, OptsOK

LEMMA ListMemoryKeeps ==
  ASSUME DumpInv, ListMemory
  PROVE  DumpInv'
<1>1. /\ phase = "memory" /\ phase' = "done" /\ nodes' \subseteq nodes
      /\ UNCHANGED <<input, opts, file, arcs, fncs, nexts, prevs>>
  BY DEF ListMemory, NodesLeft
<1>2. FileOK' /\ ArcsOK' /\ FncsOK' /\ GraphOK'
  BY <1>1, ArcsStay, FncsStay DEF AfterNames, AfterArcs, Flag
<1>3. VcgOK' /\ EdgesKept'
  BY <1>1 DEF DumpInv, VcgOK, EdgesKept, Flag
<1> QED
  BY <1>1, <1>2, <1>3 DEF DumpInv, Phases, AfterNames, AfterArcs, OptsOK

(* qsort leaves the same functions in another order. *)
LEMMA SortFunctionsKeeps ==
  ASSUME DumpInv, SortFunctions
  PROVE  DumpInv'
<1>1. CASE phase' = "crashed"
  <2>1. UNCHANGED <<input, opts, file, arcs, fncs, graph>>
    BY <1>1 DEF SortFunctions
  <2> QED
    BY <1>1, <2>1, EndsKeep DEF Ends
<1>2. CASE phase' # "crashed"
  <2> DEFINE R == Range(fncs)
  <2>1. /\ phase = "sort" /\ phase' = "arcs" /\ fncs' \in SetToSeqs(R)
        /\ UNCHANGED <<input, opts, file, arcs, nodes, nexts, prevs>>
    BY <1>2 DEF SortFunctions, graph
  <2>2. IsFncs(fncs) /\ HasAll(fncs)
    BY <2>1 DEF DumpInv, FncsOK, AfterNames
  <2>3. Len(fncs) \in Nat /\ DOMAIN fncs = 1 .. Len(fncs)
    BY <2>2 DEF IsFncs
  <2>4. IsFiniteSet(R) /\ Cardinality(R) \in Nat
    <3>1. IsFiniteSet(DOMAIN fncs)
      BY <2>3, FS_Interval
    <3>2. fncs \in Surjection(DOMAIN fncs, R)
      BY <2>2 DEF Surjection, Range, IsFncs
    <3> QED
      BY <3>1, <3>2, FS_Surjection, FS_CardinalityType
  <2> DEFINE D == 1 .. Cardinality(R)
  <2>5. fncs' \in [D -> R] /\ \A i, j \in D : i # j => fncs'[i] # fncs'[j]
    BY <2>1 DEF SetToSeqs
  <2>6. \A f \in R : \E i \in D : fncs'[i] = f
    <3>1. fncs' \in Injection(D, R)
      BY <2>5 DEF Injection, IsInjective
    <3>2. Cardinality(D) = Cardinality(R)
      BY <2>4, FS_Interval
    <3>3. fncs' \in Surjection(D, R)
      BY <2>4, <3>1, <3>2, FS_Injection
    <3> QED
      BY <3>3 DEF Surjection
  <2>7. \A f \in R : /\ DOMAIN f = {"symbol", "name", "ok", "hide", "my_index"}
                     /\ f.symbol \in Funcs /\ f.my_index = IndexInFile(f.symbol)
    BY <2>2 DEF IsFncs, Range
  <2>8. \A f, g \in R : f.symbol = g.symbol => f = g
    BY <2>2 DEF IsFncs, Range
  <2>9. \A f \in Funcs : \E g \in R : g.symbol = f
    BY <2>2 DEF HasAll, Range
  <2> HIDE DEF R
  <2>10. Range(fncs') = R /\ fncs' \in Seq(R)
    BY <2>4, <2>5, <2>6 DEF Range
  <2>11. IsFncs(fncs') /\ HasAll(fncs')
    <3>1. DOMAIN fncs' = D
      BY <2>5
    <3> HIDE DEF D
    <3>2. \A i \in D : fncs'[i] \in R
      BY <2>5
    <3> QED
      BY <2>5, <2>6, <2>7, <2>8, <2>9, <2>10, <3>1, <3>2 DEF IsFncs, HasAll
  <2>12. FncsOK'
    <3>1. IsFncs(fncs)' <=> IsFncs(fncs')
      BY DEF IsFncs, IndexInFile
    <3>2. HasAll(fncs)' <=> HasAll(fncs')
      BY DEF HasAll
    <3> QED
      BY <2>11, <3>1, <3>2 DEF FncsOK
  <2>13. FileOK' /\ ArcsOK' /\ GraphOK'
    <3>1. nodes = {}
      BY <2>1 DEF DumpInv, GraphOK
    <3> QED
      BY <2>1, <3>1, ArcsStay DEF AfterNames, AfterArcs, Flag
  <2>14. VcgOK' /\ EdgesKept'
    BY <2>1 DEF VcgOK, EdgesKept
  <2> QED
    BY <2>1, <2>12, <2>13, <2>14 DEF DumpInv, Phases, AfterNames, OptsOK
<1> QED
  BY <1>1, <1>2

(* The flags of functions change, not the functions. *)
LEMMA SelectFunctionsKeeps ==
  ASSUME DumpInv, SelectFunctions
  PROVE  DumpInv'
<1>1. /\ phase = "select" /\ UNCHANGED <<input, opts, file, arcs, nodes, nexts, prevs>>
      /\ \/ phase' = "crashed" /\ fncs' = fncs
         \/ /\ phase' = IF Flag("show_callgraph") THEN "vcg" ELSE "list"
            /\ fncs' = [i \in DOMAIN fncs |-> [fncs[i] EXCEPT !.hide = Hidden(fncs[i].symbol)]]
  BY DEF SelectFunctions, graph
<1>2. CASE phase' = "crashed" /\ fncs' = fncs
  BY <1>1, <1>2, EndsKeep DEF Ends, graph
<1>3. CASE /\ phase' = IF Flag("show_callgraph") THEN "vcg" ELSE "list"
           /\ fncs' = [i \in DOMAIN fncs |-> [fncs[i] EXCEPT !.hide = Hidden(fncs[i].symbol)]]
  <2>1. IsFncs(fncs) /\ HasAll(fncs)
    BY <1>1 DEF DumpInv, FncsOK, AfterNames, AfterArcs
  <2>2. Len(fncs) \in Nat /\ DOMAIN fncs = 1 .. Len(fncs)
    BY <2>1 DEF IsFncs
  <2>3. DOMAIN fncs' = DOMAIN fncs
    BY <1>3
  <2>4. \A i \in DOMAIN fncs :
          /\ DOMAIN fncs'[i] = {"symbol", "name", "ok", "hide", "my_index"}
          /\ fncs'[i].symbol = fncs[i].symbol /\ fncs'[i].my_index = fncs[i].my_index
    BY <1>3, <2>1 DEF IsFncs
  <2>5. fncs' \in Seq(Range(fncs'))
    <3>1. fncs' \in [1 .. Len(fncs) -> Range(fncs')]
      BY <1>3, <2>2 DEF Range
    <3> QED
      BY <2>2, <3>1
  <2>6. IsFncs(fncs') /\ HasAll(fncs')
    BY <2>1, <2>3, <2>4, <2>5 DEF IsFncs, HasAll
  <2>7. FncsOK'
    <3>1. IsFncs(fncs)' <=> IsFncs(fncs')
      BY DEF IsFncs, IndexInFile
    <3>2. HasAll(fncs)' <=> HasAll(fncs')
      BY DEF HasAll
    <3> QED
      BY <2>6, <3>1, <3>2 DEF FncsOK
  <2>8. FileOK' /\ ArcsOK' /\ GraphOK'
    BY <1>1, <1>3, ArcsStay DEF AfterNames, AfterArcs, Flag
  <2>9. VcgOK' /\ EdgesKept'
    BY <1>1, <1>3 DEF VcgOK, EdgesKept, Flag
  <2> QED
    BY <1>1, <1>3, <2>7, <2>8, <2>9 DEF DumpInv, Phases, AfterNames, AfterArcs, OptsOK
<1> QED
  BY <1>1, <1>2, <1>3

(* Once linked, the nodes of the graph are the ends of the arcs.           *)
LEMMA LinkNodesKeeps ==
  ASSUME DumpInv, LinkNodes
  PROVE  DumpInv'
<1>1. /\ phase = "link" /\ phase' = "select" /\ UNCHANGED <<input, opts, file, arcs, fncs>>
      /\ nexts' = [n \in nodes' |-> NextLinks(n)] /\ prevs' = [n \in nodes' |-> PrevLinks(n)]
  BY DEF LinkNodes
<1>2. \A n : NextLinks(n)' = NextLinks(n) /\ PrevLinks(n)' = PrevLinks(n)
  BY <1>1 DEF NextLinks, PrevLinks, FromNode, ToNode
<1>3. GraphOK'
  BY <1>1, <1>2 DEF GraphOK
<1>4. FncsOK'
  BY <1>1, FncsStay DEF AfterNames, AfterArcs
<1>5. FileOK' /\ ArcsOK'
  <2>1. Called' = Called /\ Pairs(arcs)' = Pairs(arcs) /\ IsArcs(arcs)' = IsArcs(arcs)
    BY <1>1, SameCalled DEF Pairs, IsArcs, Flag
  <2> QED
    BY <1>1, <2>1 DEF DumpInv, FileOK, ArcsOK, IsArcs, SamePair, AfterNames, AfterArcs
<1>6. VcgOK' /\ EdgesKept'
  BY <1>1 DEF VcgOK, EdgesKept
<1> QED
  BY <1>1, <1>3, <1>4, <1>5, <1>6 DEF DumpInv, Phases, AfterNames, AfterArcs, OptsOK

(* The edges of -vcg *)
LEMMA EdgesOfGraph ==
  ASSUME DumpInv, DisplayGraph, phase' = "done", NEW i \in DOMAIN fncs
  PROVE  {e[2] : e \in {d \in out'.edges : d[1] = i}}
           = {IndexInFile(a[2]) : a \in {c \in Called : c[1] = fncs[i].symbol}}
<1> DEFINE f == fncs[i].symbol
           ends(k) == {<<k, my_index(link.node)>> : link \in Range(nexts[NodeOf(fncs[k].symbol)])}
<1>1. /\ phase = "vcg" /\ \A g \in Funcs : InGraph(g)
      /\ out' = [edges |-> UNION {ends(k) : k \in DOMAIN fncs}]
  BY DEF DisplayGraph
<1>2. IsFncs(fncs) /\ HasAll(fncs) /\ IsArcs(arcs) /\ Pairs(arcs) = Called
  BY <1>1 DEF DumpInv, FncsOK, ArcsOK, AfterNames, AfterArcs
<1>3. f \in Funcs /\ NodeOf(f) \in nodes
  BY <1>1, <1>2 DEF IsFncs, InGraph
<1>4. nexts[NodeOf(f)] = NextLinks(NodeOf(f))
  BY <1>1, <1>3 DEF DumpInv, GraphOK, AfterArcs
<1>5. \A j \in DOMAIN arcs : /\ ToNode(j) = <<arcs[j].to, 0>>
                             /\ FromNode(j) = NodeOf(f) <=> arcs[j].from = f
  BY <1>2, <1>3 DEF IsArcs, ToNode, FromNode, NodeOf
<1>6. ASSUME NEW g \in Funcs PROVE my_index(<<g, 0>>) = IndexInFile(g)
  <2>1. \E h \in Range(fncs) : h.symbol = g
    BY <1>2 DEF HasAll, Range
  <2>2. \A h \in Range(fncs) : h.my_index = IndexInFile(h.symbol)
    BY <1>2 DEF IsFncs, Range
  <2>3. my_index(<<g, 0>>) = (CHOOSE h \in Range(fncs) : h.symbol = g).my_index
    BY DEF my_index
  <2> QED
    BY <2>1, <2>2, <2>3
<1>7. ASSUME NEW x
      PROVE  x \in {e[2] : e \in {d \in out'.edges : d[1] = i}}
               <=> \E link \in Range(nexts[NodeOf(f)]) : x = my_index(link.node)
  <2>1. \A d : d \in out'.edges <=> \E k \in DOMAIN fncs : d \in ends(k)
    BY <1>1
  <2>2. \A k \in DOMAIN fncs : \A d \in ends(k) : d[1] = k
    OBVIOUS
  <2> DEFINE mine == {d \in out'.edges : d[1] = i}
  <2>3. \A d : d \in mine <=> d \in ends(i)
    <3> HIDE DEF ends
    <3> QED
      BY <2>1, <2>2
  <2> HIDE DEF mine
  <2>4. x \in {e[2] : e \in mine} <=> \E d \in ends(i) : x = d[2]
    <3> HIDE DEF ends
    <3> QED
      BY <2>3
  <2>5. (\E d \in ends(i) : x = d[2])
          <=> \E link \in Range(nexts[NodeOf(f)]) : x = my_index(link.node)
    <3>1. \A d : d \in ends(i) <=>
                   \E link \in Range(nexts[NodeOf(f)]) : d = <<i, my_index(link.node)>>
      OBVIOUS
    <3> HIDE DEF ends, f
    <3>2. ASSUME NEW d \in ends(i), x = d[2]
          PROVE  \E link \in Range(nexts[NodeOf(f)]) : x = my_index(link.node)
      BY <3>1, <3>2
    <3>3. ASSUME NEW link \in Range(nexts[NodeOf(f)]), x = my_index(link.node)
          PROVE  \E d \in ends(i) : x = d[2]
      <4>1. <<i, my_index(link.node)>> \in ends(i)
        BY <3>1
      <4> QED
        BY <3>3, <4>1
    <3> QED
      BY <3>2, <3>3
  <2> QED
    BY <2>4, <2>5 DEF mine
<1>8. ASSUME NEW x
      PROVE  (\E link \in Range(nexts[NodeOf(f)]) : x = my_index(link.node))
               <=> \E j \in DOMAIN arcs : arcs[j].from = f /\ x = IndexInFile(arcs[j].to)
  <2>1. arcs \in Seq(Range(arcs)) /\ \A j \in DOMAIN arcs : arcs[j].to \in Funcs
    BY <1>2 DEF IsArcs
  <2>2. \A l : l \in Range(nexts[NodeOf(f)]) <=>
                 \E j \in DOMAIN arcs : FromNode(j) = NodeOf(f)
                   /\ l = [node |-> ToNode(j), number |-> arcs[j].number]
    BY <1>4, <2>1, LinksAreArcs
  <2>3. (\E link \in Range(nexts[NodeOf(f)]) : x = my_index(link.node))
          <=> \E j \in DOMAIN arcs : FromNode(j) = NodeOf(f) /\ x = my_index(ToNode(j))
    <3>1. ASSUME NEW l \in Range(nexts[NodeOf(f)]), x = my_index(l.node)
          PROVE  \E j \in DOMAIN arcs : FromNode(j) = NodeOf(f) /\ x = my_index(ToNode(j))
      BY <2>2, <3>1
    <3>2. ASSUME NEW j \in DOMAIN arcs, FromNode(j) = NodeOf(f), x = my_index(ToNode(j))
          PROVE  \E l \in Range(nexts[NodeOf(f)]) : x = my_index(l.node)
      <4> DEFINE l == [node |-> ToNode(j), number |-> arcs[j].number]
      <4>1. l \in Range(nexts[NodeOf(f)]) /\ l.node = ToNode(j)
        BY <2>2, <3>2
      <4> QED
        BY <3>2, <4>1
    <3> QED
      BY <3>1, <3>2
  <2>4. \A j \in DOMAIN arcs : my_index(ToNode(j)) = IndexInFile(arcs[j].to)
    BY <1>5, <1>6, <2>1
  <2> QED
    BY <1>5, <2>3, <2>4
<1>9. ASSUME NEW x
      PROVE  x \in {IndexInFile(a[2]) : a \in {c \in Called : c[1] = f}}
               <=> \E j \in DOMAIN arcs : arcs[j].from = f /\ x = IndexInFile(arcs[j].to)
  <2> DEFINE mine == {c \in Called : c[1] = f}
  <2>1. \A c : c \in Called <=> \E j \in DOMAIN arcs : c = <<arcs[j].from, arcs[j].to>>
    BY <1>2 DEF Pairs
  <2>2. \A c : c \in mine <=> \E j \in DOMAIN arcs : arcs[j].from = f
                                 /\ c = <<arcs[j].from, arcs[j].to>>
    BY <2>1
  <2> HIDE DEF mine
  <2>3. x \in {IndexInFile(a[2]) : a \in mine}
          <=> \E j \in DOMAIN arcs : arcs[j].from = f /\ x = IndexInFile(arcs[j].to)
    <3>1. ASSUME NEW a \in mine, x = IndexInFile(a[2])
          PROVE  \E j \in DOMAIN arcs : arcs[j].from = f /\ x = IndexInFile(arcs[j].to)
      BY <2>2, <3>1
    <3>2. ASSUME NEW j \in DOMAIN arcs, arcs[j].from = f, x = IndexInFile(arcs[j].to)
          PROVE  \E a \in mine : x = IndexInFile(a[2])
      <4>1. <<arcs[j].from, arcs[j].to>> \in mine
        BY <2>2, <3>2
      <4> QED
        BY <3>2, <4>1
    <3> QED
      BY <3>1, <3>2
  <2> QED
    BY <2>3 DEF mine
<1> HIDE DEF f
<1>10. {e[2] : e \in {d \in out'.edges : d[1] = i}}
         = {IndexInFile(a[2]) : a \in {c \in Called : c[1] = f}}
  BY <1>7, <1>8, <1>9
<1> QED
  BY <1>10 DEF f

LEMMA DisplayGraphKeeps ==
  ASSUME DumpInv, DisplayGraph
  PROVE  DumpInv'
<1>1. /\ phase = "vcg" /\ phase' \in {"crashed", "done"}
      /\ UNCHANGED <<input, opts, file, arcs, fncs, nodes, nexts, prevs>>
  BY DEF DisplayGraph, graph
<1>2. FileOK' /\ ArcsOK' /\ FncsOK' /\ GraphOK'
  BY <1>1, ArcsStay, FncsStay DEF AfterNames, AfterArcs, Flag
<1>3. EdgesKept'
  <2>1. Called' = Called
    BY <1>1, SameCalled DEF Flag
  <2>2. SUFFICES ASSUME phase' = "done", NEW i \in DOMAIN fncs
                 PROVE  {e[2] : e \in {d \in out'.edges : d[1] = i}}
                          = {IndexInFile(a[2]) : a \in {c \in Called' : c[1] = fncs[i].symbol}}
    BY <1>1 DEF EdgesKept, IndexInFile
  <2> QED
    BY <2>1, <2>2, EdgesOfGraph
<1>4. VcgOK'
  BY <1>1 DEF VcgOK
<1> QED
  BY <1>1, <1>2, <1>3, <1>4 DEF DumpInv, Phases, AfterNames, AfterArcs, OptsOK

(* Of the arcs with the same ends, the last one stays. *)
LEMMA RemoveDuplicatesKeeps ==
  ASSUME DumpInv, RemoveDuplicates
  PROVE  DumpInv'
<1> DEFINE Lasts == {i \in DOMAIN arcs : \A j \in i + 1 .. Len(arcs) : ~SamePair(i, j)}
           left == InOrder(Lasts)
           D == 1 .. Cardinality(Lasts)
<1>1. /\ phase = "arcs" /\ phase' = "link"
      /\ UNCHANGED <<input, opts, file, fncs, nodes, nexts, prevs>>
  BY DEF RemoveDuplicates, graph
<1>2. IsArcs(arcs) /\ Pairs(arcs) = Called
  BY <1>1 DEF DumpInv, ArcsOK, AfterNames
<1>3. Len(arcs) \in Nat /\ DOMAIN arcs = 1 .. Len(arcs)
  BY <1>2 DEF IsArcs
<1>4. /\ Lasts \subseteq Nat /\ Cardinality(Lasts) \in Nat
      /\ left \in [D -> Lasts] /\ Increasing(left)
      /\ \A x \in Lasts : \E i \in D : left[i] = x
  BY <1>2, IndexesOrdered DEF IsArcs
<1>5. /\ DOMAIN arcs' = D
      /\ \A i \in D : /\ DOMAIN arcs'[i] = {"from", "to", "number"}
                      /\ arcs'[i].from = arcs[left[i]].from /\ arcs'[i].to = arcs[left[i]].to
  <2> DEFINE summed(i) == MapThenSumSet(LAMBDA k : arcs[k].number, {k \in 1 .. i : SamePair(k, i)})
  <2>1. arcs' = [i \in DOMAIN left |-> [arcs[left[i]] EXCEPT !.number = summed(i)]]
    BY DEF RemoveDuplicates
  <2> HIDE DEF summed
  <2>2. DOMAIN left = D /\ \A i \in D : left[i] \in DOMAIN arcs
    BY <1>4
  <2> HIDE DEF left, D
  <2> QED
    BY <1>2, <2>1, <2>2 DEF IsArcs
<1>6. \A i \in Lasts : i \in DOMAIN arcs /\ \A j \in i + 1 .. Len(arcs) : ~SamePair(i, j)
  OBVIOUS
<1>7. \A k \in DOMAIN arcs : \E j \in Lasts : SamePair(k, j)
  <2> TAKE k \in DOMAIN arcs
  <2> DEFINE S == {j \in DOMAIN arcs : SamePair(k, j)}
             l == Max(S)
  <2>1. k \in S
    BY DEF SamePair
  <2>2. S \subseteq Nat /\ IsFiniteSet(S)
    BY <1>2, IndexesOrdered DEF IsArcs
  <2>3. l \in S /\ \A j \in S : j <= l
    BY <2>1, <2>2, EndsInOrder
  <2>4. l \in DOMAIN arcs /\ SamePair(k, l)
    BY <2>3
  <2>5. ASSUME NEW j \in l + 1 .. Len(arcs) PROVE ~SamePair(l, j)
    <3>1. j \in DOMAIN arcs /\ ~(j <= l)
      BY <1>3, <2>4
    <3>2. j \notin S
      BY <2>3, <3>1
    <3> QED
      BY <2>4, <3>1, <3>2 DEF SamePair
  <2>6. l \in Lasts
    BY <2>4, <2>5
  <2> QED
    BY <2>4, <2>6
<1> HIDE DEF Lasts, left, D
<1>8. IsArcs(arcs')
  <2>1. arcs' \in Seq(Range(arcs'))
    <3>1. arcs' \in [D -> Range(arcs')]
      <4>1. arcs' = [i \in D |-> arcs'[i]]
        BY <1>4, <1>5 DEF RemoveDuplicates, left, Lasts
      <4> QED
        BY <1>5, <4>1 DEF Range
    <3> QED
      BY <1>4, <3>1 DEF D
  <2> QED
    BY <1>2, <1>4, <1>5, <1>6, <2>1 DEF IsArcs
<1>9. Pairs(arcs') = Pairs(arcs)
  <2>1. ASSUME NEW i \in D
        PROVE  \E k \in DOMAIN arcs : <<arcs'[i].from, arcs'[i].to>> = <<arcs[k].from, arcs[k].to>>
    BY <1>4, <1>5, <1>6
  <2>2. ASSUME NEW k \in DOMAIN arcs
        PROVE  \E i \in D : <<arcs'[i].from, arcs'[i].to>> = <<arcs[k].from, arcs[k].to>>
    <3>1. PICK j \in Lasts : SamePair(k, j)
      BY <1>7
    <3>2. PICK i \in D : left[i] = j
      BY <1>4
    <3> QED
      BY <1>5, <3>1, <3>2 DEF SamePair
  <2> QED
    BY <1>5, <2>1, <2>2 DEF Pairs
<1>10. \A i, j \in D : SamePair(i, j)' => i = j
  <2> TAKE i, j \in D
  <2>1. SUFFICES ASSUME SamePair(i, j)' PROVE i = j
    OBVIOUS
  <2>2. left[i] \in Lasts /\ left[j] \in Lasts /\ left[i] \in Nat /\ left[j] \in Nat
    BY <1>4
  <2>3. SamePair(left[i], left[j]) /\ SamePair(left[j], left[i])
    BY <1>5, <2>1 DEF SamePair
  <2>4. left[i] \in 1 .. Len(arcs) /\ left[j] \in 1 .. Len(arcs)
    BY <1>3, <1>6, <2>2
  <2>5. ~(left[i] < left[j])
    <3>1. left[i] < left[j] => left[j] \in left[i] + 1 .. Len(arcs)
      BY <1>3, <2>4
    <3> QED
      BY <1>6, <2>2, <2>3, <3>1
  <2>6. ~(left[j] < left[i])
    <3>1. left[j] < left[i] => left[i] \in left[j] + 1 .. Len(arcs)
      BY <1>3, <2>4
    <3> QED
      BY <1>6, <2>2, <2>3, <3>1
  <2>7. (i < j => left[i] < left[j]) /\ (j < i => left[j] < left[i])
    BY <1>4 DEF Increasing
  <2>8. i < j \/ j < i \/ i = j
    BY <1>4 DEF D
  <2> QED
    BY <2>5, <2>6, <2>7, <2>8
<1>11. ArcsOK'
  <2>1. Called' = Called /\ Pairs(arcs)' = Pairs(arcs') /\ (IsArcs(arcs)' <=> IsArcs(arcs'))
    BY <1>1, SameCalled DEF Flag, Pairs, IsArcs
  <2> QED
    BY <1>1, <1>2, <1>5, <1>8, <1>9, <1>10, <2>1 DEF ArcsOK
<1>12. FileOK' /\ GraphOK' /\ FncsOK'
  <2>1. nodes = {}
    BY <1>1 DEF DumpInv, GraphOK
  <2>2. FileOK' /\ GraphOK'
    BY <1>1, <2>1 DEF DumpInv, FileOK, IsArcs, GraphOK
  <2> QED
    BY <1>1, <2>2, FncsStay DEF AfterNames, AfterArcs
<1>13. VcgOK' /\ EdgesKept'
  BY <1>1 DEF VcgOK, EdgesKept
<1> QED
  BY <1>1, <1>11, <1>12, <1>13 DEF DumpInv, Phases, AfterNames, AfterArcs, OptsOK

(* The functions of the file get their indexes in its order.               *)
LEMMA ReadFileKeeps ==
  ASSUME DumpInv, ReadFile
  PROVE  DumpInv'
<1>1. /\ phase = "read" /\ phase' = "names" /\ file' \in Files /\ arcs' = file'
      /\ UNCHANGED <<input, nodes, nexts, prevs, out>>
      /\ OptsOK(opts')
  BY DEF ReadFile, graph, DumpInv, OptsOK
<1>2. FileOK' /\ ArcsOK'
  <2>1. PICK n \in 1 .. MaxArcs : \E s \in [1 .. n -> Sites \X Funcs] :
          file' = [i \in DOMAIN s |-> [from |-> s[i][1], to |-> s[i][2], number |-> 2 ^ i]]
    BY <1>1 DEF Files
  <2>2. PICK s \in [1 .. n -> Sites \X Funcs] :
          file' = [i \in DOMAIN s |-> [from |-> s[i][1], to |-> s[i][2], number |-> 2 ^ i]]
    BY <2>1
  <2>3. n \in Nat /\ DOMAIN s = 1 .. n /\ DOMAIN file' = 1 .. n
    BY <2>2, DumpAssumption
  <2>4. file' \in Seq(Range(file'))
    <3>1. file' \in [1 .. n -> Range(file')]
      BY <2>2, <2>3 DEF Range
    <3> QED
      BY <2>3, <3>1
  <2>5. \A i \in 1 .. n : /\ DOMAIN file'[i] = {"from", "to", "number"}
                          /\ file'[i].from \in Sites /\ file'[i].to \in Funcs
    BY <2>2, <2>3
  <2>6. IsArcs(file')
    BY <2>3, <2>4, <2>5 DEF IsArcs
  <2>7. IsArcs(file)' <=> IsArcs(file')
    BY DEF IsArcs
  <2> QED
    BY <1>1, <2>3, <2>5, <2>6, <2>7 DEF FileOK, ArcsOK, AfterNames, AfterArcs
<1>3. FncsOK'
  <2> DEFINE syms == InOrder(Funcs)
             n == Cardinality(Funcs)
  <2>1. /\ n \in Nat /\ syms \in [1 .. n -> Funcs] /\ Increasing(syms)
        /\ \A x \in Funcs : \E i \in 1 .. n : syms[i] = x
        /\ \A i \in 1 .. n : IndexInFile(syms[i]) = i
    <3>1. Funcs \subseteq Nat /\ IsFiniteSet(Funcs)
      BY DumpAssumption
    <3> QED
      BY <3>1, Ordered, RankInOrder, FS_CardinalityType DEF IndexInFile, UpTo
  <2>2. fncs' = [i \in DOMAIN syms |-> [symbol |-> syms[i], name |-> NoName, ok |-> "ndef",
                                        hide |-> FALSE, my_index |-> i]]
    BY DEF ReadFile
  <2> HIDE DEF syms, n
  <2>3. DOMAIN fncs' = 1 .. n
    BY <2>1, <2>2
  <2>4. \A i \in 1 .. n : /\ DOMAIN fncs'[i] = {"symbol", "name", "ok", "hide", "my_index"}
                          /\ fncs'[i].symbol = syms[i] /\ fncs'[i].my_index = i
    BY <2>1, <2>2
  <2>5. \A i, j \in 1 .. n : syms[i] = syms[j] => i = j
    BY <2>1
  <2>6. fncs' \in Seq(Range(fncs'))
    <3>1. fncs' \in [1 .. n -> Range(fncs')]
      BY <2>1, <2>2, <2>3 DEF Range
    <3> QED
      BY <2>1, <3>1
  <2>7. IsFncs(fncs') /\ HasAll(fncs')
    BY <2>1, <2>3, <2>4, <2>5, <2>6 DEF IsFncs, HasAll
  <2>8. (IsFncs(fncs)' <=> IsFncs(fncs')) /\ (HasAll(fncs)' <=> HasAll(fncs'))
    BY DEF IsFncs, IndexInFile, HasAll
  <2> QED
    BY <2>7, <2>8 DEF FncsOK
<1>4. GraphOK'
  BY <1>1 DEF DumpInv, GraphOK, AfterArcs
<1>5. VcgOK' /\ EdgesKept'
  BY <1>1 DEF VcgOK, EdgesKept
<1> QED
  BY <1>1, <1>2, <1>3, <1>4, <1>5 DEF DumpInv, Phases, OptsOK

(* Call sites become functions; functions keep their indexes. *)
LEMMA SolveNamesKeeps ==
  ASSUME DumpInv, SolveNames
  PROVE  DumpInv'
<1>1. /\ phase = "names" /\ phase' \in {"crashed", "sort"} /\ Solved
      /\ UNCHANGED <<input, file, nodes, nexts, prevs, out>>
  BY DEF SolveNames, Solved, graph
<1>2. OptsOK(opts') /\ opts'.flags = opts.flags
  <2>1. PICK only, not : opts' = [opts EXCEPT !.only = only, !.not = not]
    BY DEF SolveNames
  <2> QED
    BY <2>1 DEF DumpInv, OptsOK
<1>3. arcs' = [i \in DOMAIN arcs |-> [arcs[i] EXCEPT !.from = ExtractBase(input.exe.syms, @)]]
  BY DEF SolveNames
<1>4. IsArcs(arcs) /\ arcs = file /\ \A i \in DOMAIN arcs : arcs[i].from \in Nat
  BY <1>1, DumpAssumption DEF DumpInv, ArcsOK, FileOK
<1>5. \A addr \in Nat : ExtractBase(input.exe.syms, addr) = Base(addr)
  <2>1. /\ DOMAIN input.exe.syms \subseteq Nat /\ IsFiniteSet(DOMAIN input.exe.syms)
        /\ DOMAIN input.exe.syms # {}
    BY <1>1, DumpAssumption DEF DumpInv, Solved, HasSymbols
  <2>2. \A addr : Base(addr) = Below(DOMAIN input.exe.syms, addr)
    BY <1>1 DEF Base, Below
  <2> QED
    BY <2>1, <2>2, BaseFound
<1>6. /\ DOMAIN arcs' = DOMAIN arcs
      /\ \A i \in DOMAIN arcs : /\ DOMAIN arcs'[i] = {"from", "to", "number"}
                                /\ arcs'[i].from = Base(arcs[i].from) /\ arcs'[i].to = arcs[i].to
  BY <1>3, <1>4, <1>5 DEF IsArcs
<1>7. IsArcs(arcs')
  <2>1. Len(arcs) \in Nat /\ DOMAIN arcs = 1 .. Len(arcs)
    BY <1>4 DEF IsArcs
  <2>2. arcs' \in [1 .. Len(arcs) -> Range(arcs')]
    BY <1>3, <2>1 DEF Range
  <2>3. arcs' \in Seq(Range(arcs'))
    BY <2>1, <2>2
  <2> QED
    BY <1>4, <1>6, <2>3 DEF IsArcs
<1>8. Pairs(arcs') = Called
  BY <1>4, <1>6 DEF Pairs, Called, Range
<1>9. ArcsOK'
  <2>1. Called' = Called /\ Pairs(arcs)' = Pairs(arcs') /\ (IsArcs(arcs)' <=> IsArcs(arcs'))
    BY <1>1, <1>2, SameCalled DEF Flag, Pairs, IsArcs
  <2> QED
    BY <1>1, <1>7, <1>8, <2>1 DEF ArcsOK, AfterNames, AfterArcs
<1>10. FncsOK'
  <2>1. PICK lost : fncs' = WithLibraries(input.libs, Named(lost))
    BY DEF SolveNames
  <2>2. IsFncs(fncs) /\ HasAll(fncs)
    BY <1>1 DEF DumpInv, FncsOK
  <2> DEFINE named == Named(lost)
             fields == {"symbol", "name", "ok", "hide", "my_index"}
  <2>3. DOMAIN named = DOMAIN fncs
    BY DEF Named
  <2>4. ASSUME NEW i \in DOMAIN fncs
        PROVE  /\ DOMAIN named[i] = fields
               /\ named[i].symbol = fncs[i].symbol /\ named[i].my_index = fncs[i].my_index
    <3>1. \E name, ok : named[i] = [fncs[i] EXCEPT !.name = name, !.ok = ok]
      <4> DEFINE f == fncs[i]
                 syms == input.exe.syms
                 new(name, ok) == [f EXCEPT !.name = name, !.ok = ok]
      <4>1. named[i] = ExtractName(syms, f, lost)
        BY DEF Named
      <4>2. ExtractName(syms, f, lost) =
              CASE OutOfTable(syms, f.symbol) -> new(lost, IF lost = InvalidName THEN "bad" ELSE "ndef")
                [] f.symbol \in DOMAIN syms -> new(f.symbol, IF syms[f.symbol] THEN "ok" ELSE "ndef")
                [] OTHER -> new(InvalidName, "bad")
        BY DEF ExtractName
      <4> HIDE DEF named, f, syms, new
      <4>3. \E name, ok : named[i] = new(name, ok)
        BY <4>1, <4>2
      <4> QED
        BY <4>3 DEF new, f
    <3> HIDE DEF named
    <3> QED
      BY <2>2, <3>1 DEF IsFncs
  <2> HIDE DEF named
  <2>5. fncs' = [i \in DOMAIN named |-> fncs'[i]]
    BY <2>1 DEF WithLibraries, named
  <2>6. ASSUME NEW i \in DOMAIN named
        PROVE  fncs'[i] = [named[i] EXCEPT !.ok = "ok"] \/ fncs'[i] = named[i]
    BY <2>1 DEF WithLibraries, named
  <2>7. /\ DOMAIN fncs' = DOMAIN fncs
        /\ \A i \in DOMAIN fncs :
             /\ DOMAIN fncs'[i] = fields
             /\ fncs'[i].symbol = fncs[i].symbol /\ fncs'[i].my_index = fncs[i].my_index
    BY <2>3, <2>4, <2>5, <2>6
  <2>8. fncs' \in Seq(Range(fncs'))
    <3>1. Len(fncs) \in Nat /\ DOMAIN fncs = 1 .. Len(fncs)
      BY <2>2 DEF IsFncs
    <3>2. fncs' \in [1 .. Len(fncs) -> Range(fncs')]
      BY <2>3, <2>5, <3>1 DEF Range
    <3> QED
      BY <3>1, <3>2
  <2>9. IsFncs(fncs') /\ HasAll(fncs')
    BY <2>2, <2>7, <2>8 DEF IsFncs, HasAll
  <2>10. (IsFncs(fncs)' <=> IsFncs(fncs')) /\ (HasAll(fncs)' <=> HasAll(fncs'))
    BY DEF IsFncs, IndexInFile, HasAll
  <2> QED
    BY <2>9, <2>10 DEF FncsOK
<1>11. FileOK' /\ GraphOK'
  BY <1>1 DEF DumpInv, FileOK, IsArcs, GraphOK, AfterArcs
<1>12. VcgOK' /\ EdgesKept'
  BY <1>1 DEF VcgOK, EdgesKept
<1> QED
  BY <1>1, <1>2, <1>9, <1>10, <1>11, <1>12 DEF DumpInv, Phases, AfterNames, OptsOK

LEMMA StepKeepsInv ==
  ASSUME DumpInv, [Next]_vars
  PROVE  DumpInv'
<1>1. CASE Arguments
  BY <1>1, ArgumentsKeeps
<1>2. CASE ReadFile
  BY <1>2, ReadFileKeeps
<1>3. CASE CannotRead
  BY <1>3, EndsKeep DEF CannotRead, Ends
<1>4. CASE NoNames
  BY <1>4, NoNamesKeeps
<1>5. CASE SolveNames
  BY <1>5, SolveNamesKeeps
<1>6. CASE SortFunctions
  BY <1>6, SortFunctionsKeeps
<1>7. CASE RemoveDuplicates
  BY <1>7, RemoveDuplicatesKeeps
<1>8. CASE LinkNodes
  BY <1>8, LinkNodesKeeps
<1>9. CASE FollowGarbage
  BY <1>9, EndsKeep DEF FollowGarbage, Ends
<1>10. CASE GraphFails
  BY <1>10, GraphFailsKeeps
<1>11. CASE SelectFunctions
  BY <1>11, SelectFunctionsKeeps
<1>12. CASE DisplayGraph
  BY <1>12, DisplayGraphKeeps
<1>13. CASE ListFunctions \/ ComputeCycles
  BY <1>13, ListingKeeps
<1>14. CASE ListMemory
  BY <1>14, ListMemoryKeeps
<1>15. CASE UNCHANGED vars
  <2>1. /\ input' = input /\ opts' = opts /\ phase' = phase /\ file' = file /\ arcs' = arcs
        /\ fncs' = fncs /\ nodes' = nodes /\ nexts' = nexts /\ prevs' = prevs /\ out' = out
    BY <1>15 DEF vars
  <2>2. \A n : NextLinks(n)' = NextLinks(n) /\ PrevLinks(n)' = PrevLinks(n)
    BY <2>1 DEF NextLinks, PrevLinks, FromNode, ToNode
  <2>3. Called' = Called /\ Pairs(arcs)' = Pairs(arcs)
    BY <2>1, SameCalled DEF Flag, Pairs
  <2>4. FileOK' /\ ArcsOK' /\ GraphOK'
    BY <2>1, <2>2, <2>3 DEF DumpInv, FileOK, IsArcs, ArcsOK, SamePair, GraphOK
  <2>5. FncsOK'
    BY <2>1, FncsStay
  <2>6. VcgOK' /\ EdgesKept'
    BY <2>1, <2>3 DEF DumpInv, VcgOK, EdgesKept, Flag, IndexInFile
  <2> QED
    BY <2>1, <2>4, <2>5, <2>6 DEF DumpInv, OptsOK
<1> QED
  BY <1>1, <1>2, <1>3, <1>4, <1>5, <1>6, <1>7, <1>8, <1>9, <1>10, <1>11, <1>12, <1>13, <1>14,
     <1>15 DEF Next

(* The invariant of fcdump holds in every state that it reaches. *)
THEOREM DumpInvariant == Spec => []DumpInv
<1>1. Init => DumpInv
  BY InitInv
<1>2. DumpInv /\ [Next]_vars => DumpInv'
  BY StepKeepsInv
<1> QED
  BY <1>1, <1>2, PTL DEF Spec

(* As many pairs as arcs: no arc is left twice. *)
LEMMA PairsCounted ==
  ASSUME IsArcs(arcs), \A i, j \in DOMAIN arcs : SamePair(i, j) => i = j
  PROVE  Cardinality(Pairs(arcs)) = Len(arcs)
<1> DEFINE n == Len(arcs)
           pair == [i \in 1 .. n |-> <<arcs[i].from, arcs[i].to>>]
<1>1. n \in Nat /\ DOMAIN arcs = 1 .. n
  BY DEF IsArcs
<1>2. \A i, j \in 1 .. n : pair[i] = pair[j] => i = j
  BY <1>1 DEF SamePair
<1>3. pair \in [1 .. n -> Pairs(arcs)] /\ \A p \in Pairs(arcs) : \E i \in 1 .. n : pair[i] = p
  BY <1>1 DEF Pairs
<1> HIDE DEF pair
<1>4. pair \in Bijection(1 .. n, Pairs(arcs))
  BY <1>2, <1>3 DEF Bijection, Injection, Surjection, IsInjective
<1>5. IsFiniteSet(1 .. n) /\ Cardinality(1 .. n) = n
  BY <1>1, FS_Interval
<1> QED
  BY <1>4, <1>5, FS_Bijection DEF ExistsBijection

(* Both directions of the graph tell the same. *)
LEMMA LinksAgree ==
  ASSUME GraphOK, phase \in AfterArcs, arcs \in Seq(Range(arcs)), NEW n \in nodes, NEW m \in nodes
  PROVE  {link.number : link \in {l \in Range(nexts[n]) : l.node = m}}
           = {link.number : link \in {l \in Range(prevs[m]) : l.node = n}}
<1> DEFINE Down == {l \in Range(nexts[n]) : l.node = m}
           Up == {l \in Range(prevs[m]) : l.node = n}
           Between(i) == i \in DOMAIN arcs /\ FromNode(i) = n /\ ToNode(i) = m
           entry(node, i) == [node |-> node, number |-> arcs[i].number]
<1>1. nexts[n] = NextLinks(n) /\ prevs[m] = PrevLinks(m)
  BY DEF GraphOK
<1>2. /\ \A l : l \in Down <=> \E i : Between(i) /\ l = entry(m, i)
      /\ \A l : l \in Up <=> \E i : Between(i) /\ l = entry(n, i)
  BY <1>1, LinksAreArcs
<1>3. \A i, node : entry(node, i).number = arcs[i].number
  OBVIOUS
<1> HIDE DEF Down, Up, Between, entry
<1>4. ASSUME NEW x
      PROVE  (\E l \in Down : x = l.number) <=> \E i : Between(i) /\ x = arcs[i].number
  BY <1>2, <1>3
<1>5. ASSUME NEW x
      PROVE  (\E l \in Up : x = l.number) <=> \E i : Between(i) /\ x = arcs[i].number
  BY <1>2, <1>3
<1>6. {link.number : link \in Down} = {link.number : link \in Up}
  BY <1>4, <1>5
<1> QED
  BY <1>6 DEF Down, Up

(* ArcsKept: call sites become the functions they lie in, no arc of the    *)
(* file is lost and none is left twice, and both directions of the graph   *)
(* are those of the arcs, whatever the file, the executable and the        *)
(* command line (fc_names_solve, fc_graph_create).                         *)
THEOREM ArcsAreKept == Spec => []ArcsKept
<1>1. DumpInv => ArcsKept
  <2> SUFFICES ASSUME DumpInv PROVE ArcsKept
    OBVIOUS
  <2>1. TypeOK
    <3>1. IsInjective(fncs) /\ {f.symbol : f \in Range(fncs)} \subseteq Funcs
      BY DEF DumpInv, FncsOK, IsFncs, IsInjective, Range
    <3> QED
      BY <3>1 DEF DumpInv, TypeOK, Phases, AfterNames, AfterArcs, GraphOK
  <2>2. ASSUME Linked
        PROVE  /\ Pairs(arcs) = Called
               /\ Cardinality(Pairs(arcs)) = Len(arcs)
               /\ \A n, m \in nodes :
                    {link.number : link \in {l \in Range(nexts[n]) : l.node = m}}
                      = {link.number : link \in {l \in Range(prevs[m]) : l.node = n}}
    <3>1. phase \in AfterArcs /\ phase \in AfterNames
      BY <2>2 DEF Linked, AfterArcs, AfterNames
    <3>2. /\ IsArcs(arcs) /\ Pairs(arcs) = Called /\ GraphOK
          /\ \A i, j \in DOMAIN arcs : SamePair(i, j) => i = j
      BY <3>1 DEF DumpInv, ArcsOK
    <3>3. Cardinality(Pairs(arcs)) = Len(arcs)
      BY <3>2, PairsCounted
    <3>4. arcs \in Seq(Range(arcs))
      BY <3>2 DEF IsArcs
    <3> QED
      BY <3>1, <3>2, <3>3, <3>4, LinksAgree
  <2> QED
    BY <2>1, <2>2 DEF ArcsKept
<1> QED
  BY <1>1, DumpInvariant, PTL

(* EdgesKept: the graph of -vcg has an edge for each call between two      *)
(* functions of the program, to the index that the callee has in the file, *)
(* whatever the order that the functions are sorted in.                    *)
THEOREM EdgesAreKept == Spec => []EdgesKept
<1>1. DumpInv => EdgesKept
  BY DEF DumpInv
<1> QED
  BY <1>1, DumpInvariant, PTL

------------------------------------------------------------------------------
(* The search for cycles (fc_get_cycle_)                                   *)

(* what is needed of the graph *)
GraphFine ==
  /\ IsFiniteSet(nodes) /\ NoNode \notin nodes
  /\ \A n \in nodes : nexts[n] \in Seq(Range(nexts[n])) /\ Callees(n) \subseteq nodes

(* One turn of the loop over the links of a node, with the search G below, *)
(* and the whole loop                                                      *)
Turn(G, c, found, link) ==
  IF found.ret > 0 THEN found
  ELSE LET below == G[Call(link.node, found.tags, c.lng + 1)]
       IN  [below EXCEPT !.last = IF below.ret > 0 /\ @ = NoNode THEN c.node ELSE @]
Begun(c) == [ret |-> 0, last |-> NoNode, tags |-> c.tags \cup {c.node}]
Through(G, c) ==
  FoldLeft(LAMBDA found, link : Turn(G, c, found, link), Begun(c), nexts[c.node])

(* the search from a node, and a function that is the search wherever it   *)
(* is defined                                                              *)
Visit(G, init, c) ==
  IF c.node = init /\ c.lng # 0 THEN [ret |-> c.lng, last |-> NoNode, tags |-> c.tags]
  ELSE IF c.node \in c.tags THEN [ret |-> 0, last |-> NoNode, tags |-> c.tags]
  ELSE Through(G, c)
IsSearch(G, init, D) == G = [c \in D |-> Visit(G, init, c)]

LEMMA CycleIsSearch ==
  ASSUME NEW init
  PROVE  GetCycle_(init) = CHOOSE G : IsSearch(G, init, Calls)
BY DEF GetCycle_, IsSearch, Visit, Through, Begun, Turn

(* The values of the loop over the sets of links in D, from the last one on *)
IsGoing(iter, G, c, D) ==
  iter = [s \in D |-> IF s = {} THEN Begun(c)
                      ELSE Turn(G, c, iter[s \ {Max(s)}], nexts[c.node][Max(s)])]

(* One more link may be added to the sets that are gone through. *)
LEMMA GoingGrows ==
  ASSUME NEW G, NEW c, NEW m \in Nat, NEW n \in Nat,
         \E iter : IsGoing(iter, G, c, Few(1 .. m, n))
  PROVE  \E iter : IsGoing(iter, G, c, Few(1 .. m, n + 1))
<1> DEFINE D(k) == Few(1 .. m, k)
<1>1. PICK g : IsGoing(g, G, c, D(n))
  OBVIOUS
<1> DEFINE h == [s \in D(n + 1) |-> IF s = {} THEN Begun(c)
                                    ELSE Turn(G, c, g[s \ {Max(s)}], nexts[c.node][Max(s)])]
<1>2. \A s \in D(n) : g[s] = IF s = {} THEN Begun(c)
                             ELSE Turn(G, c, g[s \ {Max(s)}], nexts[c.node][Max(s)])
  BY <1>1 DEF IsGoing
<1>3. \A s \in D(n) : s \in D(n + 1)
  <2> TAKE s \in D(n)
  <2>1. s \in SUBSET (1 .. m) /\ Cardinality(s) <= n
    BY DEF Few
  <2>2. Cardinality(s) \in Nat
    BY <2>1, WordsFinite
  <2>3. Cardinality(s) <= n + 1
    BY <2>1, <2>2
  <2> QED
    BY <2>1, <2>3 DEF Few
<1>4. ASSUME NEW s \in D(n + 1), s # {} PROVE s \ {Max(s)} \in D(n)
  <2>1. s \in SUBSET (1 .. m) /\ Cardinality(s) <= n + 1
    BY DEF Few
  <2>2. /\ s \ {Max(s)} \in SUBSET (1 .. m) /\ Cardinality(s) \in Nat
        /\ Cardinality(s \ {Max(s)}) = Cardinality(s) - 1
    BY <1>4, <2>1, WordsFinite
  <2>3. Cardinality(s \ {Max(s)}) <= n
    BY <2>1, <2>2
  <2> QED
    BY <2>2, <2>3 DEF Few
<1> HIDE DEF D
<1>5. \A s \in D(n) : h[s] = g[s]
  BY <1>2, <1>3
<1>6. h = [s \in D(n + 1) |-> IF s = {} THEN Begun(c)
                              ELSE Turn(G, c, h[s \ {Max(s)}], nexts[c.node][Max(s)])]
  BY <1>4, <1>5
<1> HIDE DEF h
<1>7. IsGoing(h, G, c, D(n + 1))
  BY <1>6 DEF IsGoing
<1> QED
  BY <1>7 DEF D

(* The recursive function of the loop over the links exists. *)
LEMMA GoingExists ==
  ASSUME NEW G, NEW c, NEW m \in Nat
  PROVE  \E iter : IsGoing(iter, G, c, SUBSET (1 .. m))
<1> DEFINE E(k) == \E iter : IsGoing(iter, G, c, Few(1 .. m, k))
           Bad == {k \in Nat : ~E(k)}
<1>1. \A s \in SUBSET (1 .. m) : IsFiniteSet(s) /\ Cardinality(s) \in Nat /\ Cardinality(s) <= m
  BY WordsFinite
<1>2. E(0)
  <2> DEFINE h == [s \in {{}} |-> Begun(c)]
  <2>1. Few(1 .. m, 0) = {{}}
    BY <1>1, FS_EmptySet DEF Few
  <2>2. h = [s \in {{}} |-> IF s = {} THEN Begun(c)
                            ELSE Turn(G, c, h[s \ {Max(s)}], nexts[c.node][Max(s)])]
    OBVIOUS
  <2> HIDE DEF h
  <2>3. IsGoing(h, G, c, {{}})
    BY <2>2 DEF IsGoing
  <2> QED
    BY <2>1, <2>3
<1>3. ASSUME NEW n \in Nat, E(n) PROVE E(n + 1)
  BY <1>3, GoingGrows
<1> HIDE DEF E
<1>4. E(m)
  <2>1. SUFFICES ASSUME ~E(m) PROVE FALSE
    OBVIOUS
  <2>2. PICK k \in Bad : \A j \in Bad : k <= j
    BY <2>1, Least
  <2>3. k # 0 /\ k \in Nat /\ ~E(k)
    BY <1>2, <2>2
  <2>4. k - 1 \in Nat /\ (k - 1) + 1 = k
    BY <2>3
  <2>5. E(k - 1)
    BY <2>2, <2>4
  <2> QED
    BY <1>3, <2>3, <2>4, <2>5
<1>5. Few(1 .. m, m) = SUBSET (1 .. m)
  BY <1>1 DEF Few
<1> QED
  BY <1>4, <1>5 DEF E

(* The loop goes from link to link. *)
LEMMA ThroughSteps ==
  ASSUME NEW G, NEW c, nexts[c.node] \in Seq(Range(nexts[c.node]))
  PROVE  \E it : /\ it[0] = Begun(c)
                 /\ \A k \in 1 .. Len(nexts[c.node]) :
                      it[k] = Turn(G, c, it[k - 1], nexts[c.node][k])
                 /\ Through(G, c) = it[Len(nexts[c.node])]
<1> DEFINE m == Len(nexts[c.node])
           D == SUBSET (1 .. m)
           chosen == CHOOSE iter : IsGoing(iter, G, c, D)
           it == [k \in 0 .. m |-> chosen[1 .. k]]
<1>1. m \in Nat /\ DOMAIN nexts[c.node] = 1 .. m
  OBVIOUS
<1>2. IsGoing(chosen, G, c, D)
  BY <1>1, GoingExists
<1>3. Through(G, c) = chosen[1 .. m]
  BY <1>1 DEF Through, FoldLeft, MapThenFoldSet, IsGoing
<1> HIDE DEF m, chosen
<1>4. \A s \in D : chosen[s] = IF s = {} THEN Begun(c)
                               ELSE Turn(G, c, chosen[s \ {Max(s)}], nexts[c.node][Max(s)])
  BY <1>2 DEF IsGoing
<1>5. it[0] = Begun(c)
  <2>1. 1 .. 0 = {} /\ {} \in D /\ 0 \in 0 .. m
    BY <1>1
  <2> QED
    BY <1>4, <2>1
<1>6. ASSUME NEW k \in 1 .. m PROVE it[k] = Turn(G, c, it[k - 1], nexts[c.node][k])
  <2>1. 1 .. k \in D /\ k \in 1 .. k /\ k \in 0 .. m /\ k - 1 \in 0 .. m
    BY <1>1
  <2>2. Max(1 .. k) = k
    <3>1. \A y \in 1 .. k : y \in Int /\ k >= y
      BY <1>1
    <3>2. \A x \in 1 .. k : x >= k => x = k
      BY <1>1
    <3> QED
      BY <2>1, <3>1, <3>2 DEF Max
  <2>3. (1 .. k) \ {k} = 1 .. (k - 1)
    BY <1>1
  <2>4. chosen[1 .. k] = Turn(G, c, chosen[1 .. (k - 1)], nexts[c.node][k])
    BY <1>4, <2>1, <2>2, <2>3
  <2> QED
    BY <2>1, <2>4
<1>7. Through(G, c) = it[m]
  BY <1>1, <1>3
<1> HIDE DEF it
<1> QED
  BY <1>5, <1>6, <1>7 DEF m

Found == [ret : Nat, last : nodes \cup {NoNode}, tags : SUBSET nodes]

(* What was tagged in vain: the callees of the nodes tagged since are      *)
(* tagged as well, and init is not one of them.                            *)
Vain(tags, since, init) ==
  \A n \in tags \ since : Callees(n) \subseteq tags /\ init \notin Callees(n)

(* A cycle through init that the call c has found: how long it can be, the *)
(* node that closes it, and that both are reached from c                   *)
Cycle(r, init, c) ==
  /\ r.ret > c.lng /\ r.ret <= c.lng + Cardinality(nodes \ c.tags)
  /\ r.last \in nodes \ c.tags /\ init \in Callees(r.last)
  /\ (r.ret = c.lng + 1) <=> (r.last = c.node)
  /\ \A S \in SUBSET nodes : Callees(c.node) \subseteq S /\ Closed(S) =>
       init \in S /\ (r.last = c.node \/ r.last \in S)

(* what a call of the search comes to, and its loop after k links *)
Outcome(r, init, c) ==
  /\ r \in Found /\ c.tags \subseteq r.tags
  /\ IF c.node = init /\ c.lng # 0 THEN r.ret = c.lng /\ r.last = NoNode
     ELSE IF r.ret = 0 THEN c.node \in r.tags /\ Vain(r.tags, c.tags, init)
     ELSE Cycle(r, init, c)
Partial(r, init, c, k) ==
  /\ r \in Found /\ c.tags \cup {c.node} \subseteq r.tags
  /\ IF r.ret = 0
       THEN /\ \A j \in 1 .. k : nexts[c.node][j].node \in r.tags /\ nexts[c.node][j].node # init
            /\ Vain(r.tags, c.tags \cup {c.node}, init)
       ELSE Cycle(r, init, c)

(* A node that is tagged is one less to look at.                           *)
LEMMA FewerLeft ==
  ASSUME GraphFine, NEW c \in Calls, c.node \notin c.tags,
         NEW tags \in SUBSET nodes, c.tags \cup {c.node} \subseteq tags
  PROVE  /\ Cardinality(nodes \ c.tags) \in Nat /\ Cardinality(nodes \ tags) \in Nat
         /\ Cardinality(nodes \ tags) <= Cardinality(nodes \ c.tags) - 1
<1>1. IsFiniteSet(nodes \ c.tags) /\ IsFiniteSet(nodes \ tags)
  BY FS_Difference DEF GraphFine
<1>2. Cardinality(nodes \ c.tags) \in Nat /\ Cardinality(nodes \ tags) \in Nat
  BY <1>1, FS_CardinalityType
<1>3. c.node \in nodes \ c.tags
  BY DEF Calls
<1>4. /\ IsFiniteSet((nodes \ c.tags) \ {c.node})
      /\ Cardinality((nodes \ c.tags) \ {c.node}) = Cardinality(nodes \ c.tags) - 1
  BY <1>1, <1>3, FS_RemoveElement
<1>5. nodes \ tags \in SUBSET ((nodes \ c.tags) \ {c.node})
  OBVIOUS
<1>6. Cardinality(nodes \ tags) <= Cardinality((nodes \ c.tags) \ {c.node})
  BY <1>4, <1>5, FS_Subset
<1> QED
  BY <1>2, <1>4, <1>6

(* One more link: the search below the link decides.                       *)
LEMMA TurnKeeps ==
  ASSUME GraphFine, NEW init \in nodes, NEW c \in Calls, c.node \notin c.tags,
         NEW k \in 1 .. Len(nexts[c.node]), NEW f, Partial(f, init, c, k - 1),
         NEW G, f.ret = 0 =>
           Outcome(G[Call(nexts[c.node][k].node, f.tags, c.lng + 1)], init,
                   Call(nexts[c.node][k].node, f.tags, c.lng + 1))
  PROVE  Partial(Turn(G, c, f, nexts[c.node][k]), init, c, k)
<1> DEFINE links == nexts[c.node]
           child == Call(links[k].node, f.tags, c.lng + 1)
           b == G[child]
           t == Turn(G, c, f, links[k])
<1>1. /\ links \in Seq(Range(links)) /\ Len(links) \in Nat /\ DOMAIN links = 1 .. Len(links)
      /\ c.node \in nodes /\ c.tags \in SUBSET nodes /\ c.lng \in Nat
  BY DEF GraphFine, Calls
<1>2. links[k].node \in Callees(c.node) /\ links[k].node \in nodes
  BY <1>1 DEF Callees, Range, GraphFine
<1>3. f \in Found /\ c.tags \cup {c.node} \subseteq f.tags /\ f.tags \in SUBSET nodes
  BY DEF Partial, Found
<1>4. /\ Cardinality(nodes \ c.tags) \in Nat /\ Cardinality(nodes \ f.tags) \in Nat
      /\ Cardinality(nodes \ f.tags) <= Cardinality(nodes \ c.tags) - 1
  BY <1>3, FewerLeft
<1>5. child.node = links[k].node /\ child.tags = f.tags /\ child.lng = c.lng + 1
  BY DEF Call
<1> HIDE DEF links, child
<1>6. CASE f.ret > 0
  <2>1. t = f /\ f.ret # 0
    BY <1>6 DEF Turn
  <2> QED
    BY <2>1 DEF Partial, links
<1>7. CASE f.ret = 0
  <2>1. t = [b EXCEPT !.last = IF b.ret > 0 /\ b.last = NoNode THEN c.node ELSE b.last]
    BY <1>7 DEF Turn, child
  <2>2. Outcome(b, init, child)
    BY <1>7 DEF child, links
  <2> HIDE DEF b, t
  <2>3. b \in Found /\ f.tags \subseteq b.tags
    BY <1>5, <2>2 DEF Outcome
  <2>4. t \in Found /\ t.ret = b.ret /\ t.tags = b.tags
        /\ t.last = IF b.ret > 0 /\ b.last = NoNode THEN c.node ELSE b.last
    BY <1>1, <2>1, <2>3 DEF Found
  <2>5. c.tags \cup {c.node} \subseteq t.tags
    BY <1>3, <2>3, <2>4
  <2>6. CASE b.ret = 0
    <3>1. links[k].node # init /\ links[k].node \in b.tags /\ Vain(b.tags, f.tags, init)
      BY <1>1, <1>5, <2>2, <2>6 DEF Outcome
    <3>2. /\ \A j \in 1 .. k - 1 : links[j].node \in f.tags /\ links[j].node # init
          /\ Vain(f.tags, c.tags \cup {c.node}, init)
      BY <1>7 DEF Partial, links
    <3>3. \A j \in 1 .. k : links[j].node \in b.tags /\ links[j].node # init
      <4>1. \A j \in 1 .. k : j \in 1 .. k - 1 \/ j = k
        BY <1>1
      <4> QED
        BY <2>3, <3>1, <3>2, <4>1
    <3>4. Vain(b.tags, c.tags \cup {c.node}, init)
      BY <2>3, <3>1, <3>2 DEF Vain
    <3>5. Partial(t, init, c, k)
      BY <2>4, <2>5, <2>6, <3>3, <3>4 DEF Partial, links
    <3> QED
      BY <3>5 DEF t, links
  <2>7. CASE b.ret # 0 /\ links[k].node = init
    <3>1. b.ret = c.lng + 1 /\ b.last = NoNode
      BY <1>1, <1>5, <2>2, <2>7 DEF Outcome
    <3>2. t.ret = c.lng + 1 /\ t.last = c.node
      BY <1>1, <2>4, <3>1
    <3>3. Cycle(t, init, c)
      BY <1>1, <1>2, <1>4, <2>7, <3>2 DEF Cycle
    <3>4. t.ret # 0
      BY <2>4, <2>7
    <3>5. Partial(t, init, c, k)
      BY <2>4, <2>5, <3>3, <3>4 DEF Partial
    <3> QED
      BY <3>5 DEF t, links
  <2>8. CASE b.ret # 0 /\ links[k].node # init
    <3>1. Cycle(b, init, child)
      BY <1>5, <2>2, <2>8 DEF Outcome
    <3>2. /\ b.ret > c.lng + 1 /\ b.ret <= c.lng + 1 + Cardinality(nodes \ f.tags)
          /\ b.last \in nodes \ f.tags /\ init \in Callees(b.last)
          /\ \A S \in SUBSET nodes : Callees(links[k].node) \subseteq S /\ Closed(S) =>
               init \in S /\ (b.last = links[k].node \/ b.last \in S)
      BY <1>5, <3>1 DEF Cycle
    <3>3. b.last # NoNode /\ t.last = b.last /\ t.ret = b.ret
      BY <2>4, <3>2 DEF GraphFine
    <3>4. t.last \in nodes \ c.tags /\ t.last # c.node /\ b.ret \in Nat
      BY <1>3, <2>3, <3>2, <3>3 DEF Found
    <3>5. /\ t.ret > c.lng /\ t.ret # c.lng + 1
          /\ t.ret <= c.lng + Cardinality(nodes \ c.tags)
      BY <1>1, <1>4, <3>2, <3>3, <3>4
    <3>6. ASSUME NEW S \in SUBSET nodes, Callees(c.node) \subseteq S, Closed(S)
          PROVE  init \in S /\ t.last \in S
      <4>1. links[k].node \in S /\ Callees(links[k].node) \subseteq S
        BY <1>2, <3>6 DEF Closed
      <4> QED
        BY <3>2, <3>3, <3>6, <4>1
    <3>7. Cycle(t, init, c)
      BY <3>2, <3>3, <3>4, <3>5, <3>6 DEF Cycle
    <3>8. t.ret # 0
      BY <2>4, <2>8
    <3>9. Partial(t, init, c, k)
      BY <2>4, <2>5, <3>7, <3>8 DEF Partial
    <3> QED
      BY <3>9 DEF t, links
  <2> QED
    BY <2>6, <2>7, <2>8
<1> QED
  BY <1>3, <1>6, <1>7 DEF Found, t, links


(* the calls with less than d nodes left to tag *)
Near(d) == {c \in Calls : Cardinality(nodes \ c.tags) < d}

(* Once all links are followed, the loop has come to what the call comes   *)
(* to; it only depends on the calls with fewer nodes left.                 *)
LEMMA LoopOutcome ==
  ASSUME GraphFine, NEW init \in nodes, NEW d \in Nat, NEW G, NEW H,
         \A e \in Near(d) : Outcome(G[e], init, e) /\ H[e] = G[e],
         NEW c \in Near(d + 1), c.node \notin c.tags, ~(c.node = init /\ c.lng # 0)
  PROVE  Outcome(Through(G, c), init, c) /\ Through(H, c) = Through(G, c)
<1> DEFINE links == nexts[c.node]
           m == Len(links)
<1>1. /\ links \in Seq(Range(links)) /\ m \in Nat /\ DOMAIN links = 1 .. m
      /\ c \in Calls /\ c.node \in nodes /\ c.tags \in SUBSET nodes /\ c.lng \in Nat
      /\ Cardinality(nodes \ c.tags) < d + 1
  BY DEF GraphFine, Near, Calls
<1>2. \A k \in 1 .. m : links[k].node \in Callees(c.node) /\ links[k].node \in nodes
  BY <1>1 DEF Callees, Range, GraphFine
<1>3. PICK gi : /\ gi[0] = Begun(c) /\ \A k \in 1 .. m : gi[k] = Turn(G, c, gi[k - 1], links[k])
                /\ Through(G, c) = gi[m]
  BY <1>1, ThroughSteps
<1>4. PICK hi : /\ hi[0] = Begun(c) /\ \A k \in 1 .. m : hi[k] = Turn(H, c, hi[k - 1], links[k])
                /\ Through(H, c) = hi[m]
  BY <1>1, ThroughSteps
<1> HIDE DEF m, links
<1> DEFINE E(k) == k <= m => Partial(gi[k], init, c, k) /\ hi[k] = gi[k]
           Bad == {k \in Nat : ~E(k)}
<1>5. E(0)
  <2>1. Begun(c).ret = 0 /\ Begun(c) \in Found /\ Begun(c).tags = c.tags \cup {c.node}
    BY <1>1 DEF Begun, Found
  <2>2. Partial(Begun(c), init, c, 0)
    BY <2>1 DEF Partial, Vain
  <2> QED
    BY <1>3, <1>4, <2>2
<1>6. ASSUME NEW k \in Nat, E(k) PROVE E(k + 1)
  <2> SUFFICES ASSUME k + 1 <= m
               PROVE  Partial(gi[k + 1], init, c, k + 1) /\ hi[k + 1] = gi[k + 1]
    OBVIOUS
  <2>1. k + 1 \in 1 .. m /\ (k + 1) - 1 = k /\ k <= m
    BY <1>1
  <2>2. Partial(gi[k], init, c, k) /\ hi[k] = gi[k]
    BY <1>6, <2>1
  <2> DEFINE child == Call(links[k + 1].node, gi[k].tags, c.lng + 1)
  <2>3. gi[k].tags \in SUBSET nodes /\ c.tags \cup {c.node} \subseteq gi[k].tags
    BY <2>2 DEF Partial, Found
  <2>4. /\ Cardinality(nodes \ c.tags) \in Nat /\ Cardinality(nodes \ gi[k].tags) \in Nat
        /\ Cardinality(nodes \ gi[k].tags) <= Cardinality(nodes \ c.tags) - 1
    BY <1>1, <2>3, FewerLeft
  <2>5. child \in Calls /\ child.tags = gi[k].tags
    BY <1>1, <1>2, <2>1, <2>3 DEF Call, Calls
  <2> HIDE DEF child
  <2>6. child \in Near(d)
    <3>1. Cardinality(nodes \ gi[k].tags) < d
      BY <1>1, <2>4
    <3> QED
      BY <2>5, <3>1 DEF Near
  <2>7. gi[k + 1] = Turn(G, c, gi[k], links[k + 1]) /\ hi[k + 1] = Turn(H, c, gi[k], links[k + 1])
    BY <1>3, <1>4, <2>1, <2>2
  <2>8. Outcome(G[child], init, child) /\ H[child] = G[child]
    BY <2>6
  <2>9. Turn(H, c, gi[k], links[k + 1]) = Turn(G, c, gi[k], links[k + 1])
    BY <2>8 DEF Turn, child
  <2>10. Partial(Turn(G, c, gi[k], links[k + 1]), init, c, k + 1)
    BY <1>1, <2>1, <2>2, <2>8, TurnKeeps DEF m, links, child
  <2> QED
    BY <2>7, <2>9, <2>10
<1>7. E(m)
  <2> HIDE DEF E
  <2>1. SUFFICES ASSUME ~E(m) PROVE FALSE
    OBVIOUS
  <2>2. PICK k \in Bad : \A j \in Bad : k <= j
    BY <1>1, <2>1, Least
  <2>3. k # 0 /\ k \in Nat /\ ~E(k)
    BY <1>5, <2>2
  <2>4. k - 1 \in Nat /\ (k - 1) + 1 = k
    BY <2>3
  <2>5. E(k - 1)
    BY <2>2, <2>4
  <2> QED
    BY <1>6, <2>3, <2>4, <2>5
<1>8. Partial(gi[m], init, c, m) /\ hi[m] = gi[m]
  BY <1>1, <1>7
<1>9. ASSUME gi[m].ret = 0
      PROVE  c.node \in gi[m].tags /\ Vain(gi[m].tags, c.tags, init)
  <2>1. /\ \A j \in 1 .. m : links[j].node \in gi[m].tags /\ links[j].node # init
        /\ Vain(gi[m].tags, c.tags \cup {c.node}, init) /\ c.node \in gi[m].tags
    BY <1>8, <1>9 DEF Partial, links
  <2>2. \A n \in Callees(c.node) : \E j \in 1 .. m : n = links[j].node
    BY <1>1 DEF Callees, Range, links
  <2>3. Callees(c.node) \subseteq gi[m].tags /\ init \notin Callees(c.node)
    BY <2>1, <2>2
  <2> QED
    BY <2>1, <2>3 DEF Vain
<1>10. Outcome(gi[m], init, c)
  BY <1>8, <1>9 DEF Outcome, Partial
<1> QED
  BY <1>3, <1>4, <1>8, <1>10

LEMMA VisitOutcome ==
  ASSUME GraphFine, NEW init \in nodes, NEW d \in Nat, NEW G, NEW H,
         \A e \in Near(d) : Outcome(G[e], init, e) /\ H[e] = G[e],
         NEW c \in Near(d + 1)
  PROVE  Outcome(Visit(G, init, c), init, c) /\ Visit(H, init, c) = Visit(G, init, c)
<1>1. c \in Calls /\ c.node \in nodes /\ c.tags \in SUBSET nodes /\ c.lng \in Nat
  BY DEF Near, Calls
<1>2. CASE c.node = init /\ c.lng # 0
  <2>1. /\ Visit(G, init, c) = [ret |-> c.lng, last |-> NoNode, tags |-> c.tags]
        /\ Visit(H, init, c) = [ret |-> c.lng, last |-> NoNode, tags |-> c.tags]
    BY <1>2 DEF Visit
  <2> QED
    BY <1>1, <1>2, <2>1 DEF Outcome, Found
<1>3. CASE ~(c.node = init /\ c.lng # 0) /\ c.node \in c.tags
  <2>1. /\ Visit(G, init, c) = [ret |-> 0, last |-> NoNode, tags |-> c.tags]
        /\ Visit(H, init, c) = [ret |-> 0, last |-> NoNode, tags |-> c.tags]
    BY <1>3 DEF Visit
  <2> QED
    BY <1>1, <1>3, <2>1 DEF Outcome, Found, Vain
<1>4. CASE ~(c.node = init /\ c.lng # 0) /\ c.node \notin c.tags
  <2>1. Visit(G, init, c) = Through(G, c) /\ Visit(H, init, c) = Through(H, c)
    BY <1>4 DEF Visit
  <2> QED
    BY <1>4, <2>1, LoopOutcome
<1> QED
  BY <1>2, <1>3, <1>4


(* The recursive function of the search exists: it is defined for the      *)
(* calls with the fewest nodes left first.                                 *)
LEMMA SearchExists ==
  ASSUME GraphFine, NEW init \in nodes
  PROVE  \E G : IsSearch(G, init, Calls)
<1> DEFINE E(d) == \E G : /\ IsSearch(G, init, Near(d))
                          /\ \A e \in Near(d) : Outcome(G[e], init, e)
           Bad == {d \in Nat : ~E(d)}
<1>1. \A c \in Calls : /\ Cardinality(nodes \ c.tags) \in Nat
                       /\ Cardinality(nodes \ c.tags) <= Cardinality(nodes)
  <2> TAKE c \in Calls
  <2>1. IsFiniteSet(nodes \ c.tags) /\ nodes \ c.tags \in SUBSET nodes
    BY FS_Difference DEF GraphFine
  <2> QED
    BY <2>1, FS_CardinalityType, FS_Subset DEF GraphFine
<1>2. E(0)
  <2>1. Near(0) = {}
    BY <1>1 DEF Near
  <2> DEFINE h == [c \in {} |-> 0]
  <2>2. h = [c \in {} |-> Visit(h, init, c)]
    OBVIOUS
  <2> HIDE DEF h
  <2>3. IsSearch(h, init, {})
    BY <2>2 DEF IsSearch
  <2> QED
    BY <2>1, <2>3
<1>3. ASSUME NEW d \in Nat, E(d) PROVE E(d + 1)
  <2>1. PICK G : IsSearch(G, init, Near(d)) /\ \A e \in Near(d) : Outcome(G[e], init, e)
    BY <1>3
  <2> DEFINE H == [c \in Near(d + 1) |-> Visit(G, init, c)]
  <2>2. \A e \in Near(d) : e \in Near(d + 1)
    BY <1>1 DEF Near
  <2>3. \A e \in Near(d) : G[e] = Visit(G, init, e)
    BY <2>1 DEF IsSearch
  <2>4. \A e \in Near(d) : H[e] = G[e]
    BY <2>2, <2>3
  <2>5. \A c \in Near(d + 1) : H[c] = Visit(G, init, c)
    OBVIOUS
  <2>6. H = [c \in Near(d + 1) |-> Visit(G, init, c)]
    OBVIOUS
  <2> HIDE DEF H
  <2>7. \A c \in Near(d + 1) : /\ Outcome(Visit(G, init, c), init, c)
                               /\ Visit(H, init, c) = Visit(G, init, c)
    BY <2>1, <2>4, VisitOutcome
  <2>8. H = [c \in Near(d + 1) |-> Visit(H, init, c)]
    BY <2>6, <2>7
  <2>9. IsSearch(H, init, Near(d + 1))
    BY <2>8 DEF IsSearch
  <2> QED
    BY <2>5, <2>7, <2>9
<1> DEFINE all == Cardinality(nodes) + 1
<1>4. all \in Nat /\ Cardinality(nodes) \in Nat
  BY FS_CardinalityType DEF GraphFine
<1>5. Near(all) = Calls
  <2>1. \A c \in Calls : Cardinality(nodes \ c.tags) < all
    BY <1>1, <1>4
  <2> QED
    BY <2>1 DEF Near
<1> HIDE DEF E, all
<1>6. E(all)
  <2>1. SUFFICES ASSUME ~E(all) PROVE FALSE
    OBVIOUS
  <2>2. PICK k \in Bad : \A j \in Bad : k <= j
    BY <1>4, <2>1, Least
  <2>3. k # 0 /\ k \in Nat /\ ~E(k)
    BY <1>2, <2>2
  <2>4. k - 1 \in Nat /\ (k - 1) + 1 = k
    BY <2>3
  <2>5. E(k - 1)
    BY <2>2, <2>4
  <2> QED
    BY <1>3, <2>3, <2>4, <2>5
<1> QED
  BY <1>5, <1>6 DEF E

(* What each call of the search comes to *)
LEMMA SearchOutcome ==
  ASSUME GraphFine, NEW init \in nodes, NEW c \in Calls
  PROVE  Outcome(GetCycle_(init)[c], init, c)
<1> DEFINE G == GetCycle_(init)
           E(d) == \A e \in Near(d) : Outcome(G[e], init, e)
           Bad == {d \in Nat : ~E(d)}
<1>1. IsSearch(G, init, Calls)
  BY SearchExists, CycleIsSearch
<1>2. \A e \in Calls : G[e] = Visit(G, init, e)
  BY <1>1 DEF IsSearch
<1> HIDE DEF G
<1>3. \A e \in Calls : Cardinality(nodes \ e.tags) \in Nat
  BY FS_Difference, FS_CardinalityType DEF GraphFine
<1>4. E(0)
  BY <1>3 DEF Near
<1>5. ASSUME NEW d \in Nat, E(d) PROVE E(d + 1)
  <2> TAKE e \in Near(d + 1)
  <2>1. e \in Calls
    BY DEF Near
  <2>2. Outcome(Visit(G, init, e), init, e)
    BY <1>5, VisitOutcome
  <2> QED
    BY <1>2, <2>1, <2>2
<1> DEFINE left == Cardinality(nodes \ c.tags) + 1
<1>6. left \in Nat /\ c \in Near(left)
  BY <1>3 DEF Near
<1> HIDE DEF E, left
<1>7. E(left)
  <2>1. SUFFICES ASSUME ~E(left) PROVE FALSE
    OBVIOUS
  <2>2. PICK k \in Bad : \A j \in Bad : k <= j
    BY <1>6, <2>1, Least
  <2>3. k # 0 /\ k \in Nat /\ ~E(k)
    BY <1>4, <2>2
  <2>4. k - 1 \in Nat /\ (k - 1) + 1 = k
    BY <2>3
  <2>5. E(k - 1)
    BY <2>2, <2>4
  <2> QED
    BY <1>5, <2>3, <2>4, <2>5
<1> QED
  BY <1>6, <1>7 DEF E, G

(* The cycle that is displayed for a node *)
CycleFine(n, found) ==
  /\ (found.ret > 0) <=> Reaches(n, n)
  /\ found.ret > 0 =>
       /\ n \in Callees(found.last)
       /\ found.ret <= Cardinality(nodes)
       /\ (found.ret = 1) <=> (found.last = n)
       /\ n # found.last => Reaches(n, found.last)

LEMMA CycleFound ==
  ASSUME GraphFine, NEW n \in nodes
  PROVE  CycleFine(n, GetCycle(n))
<1> DEFINE c == Call(n, {}, 0)
           r == GetCycle(n)
<1>1. c \in Calls /\ c.node = n /\ c.tags = {} /\ c.lng = 0
  BY DEF Call, Calls
<1>2. Outcome(r, n, c)
  BY <1>1, SearchOutcome DEF GetCycle
<1> HIDE DEF r, c
<1>3. r \in Found /\ r.ret \in Nat /\ r.tags \in SUBSET nodes
  BY <1>2 DEF Outcome, Found
<1>4. CASE r.ret = 0
  <2>1. n \in r.tags /\ Vain(r.tags, {}, n)
    BY <1>1, <1>2, <1>4 DEF Outcome
  <2> DEFINE S == r.tags \ {n}
  <2>2. \A m \in r.tags : Callees(m) \subseteq S
    BY <2>1 DEF Vain
  <2>3. S \in SUBSET nodes /\ Callees(n) \subseteq S /\ Closed(S) /\ n \notin S
    BY <1>3, <2>1, <2>2 DEF Closed
  <2>4. ~Reaches(n, n)
    BY <2>3 DEF Reaches
  <2> QED
    BY <1>4, <2>4 DEF r, CycleFine
<1>5. CASE r.ret # 0
  <2>1. Cycle(r, n, c)
    BY <1>1, <1>2, <1>5 DEF Outcome
  <2>2. /\ r.ret > 0 /\ r.ret <= Cardinality(nodes \ {}) /\ n \in Callees(r.last)
        /\ (r.ret = 1) <=> (r.last = n)
        /\ \A S \in SUBSET nodes : Callees(n) \subseteq S /\ Closed(S) =>
             n \in S /\ (r.last = n \/ r.last \in S)
    <3>1. Cardinality(nodes \ {}) \in Nat
      BY FS_Difference, FS_CardinalityType DEF GraphFine
    <3> QED
      BY <1>1, <2>1, <3>1 DEF Cycle
  <2>3. nodes \ {} = nodes
    OBVIOUS
  <2>4. Reaches(n, n) /\ (n # r.last => Reaches(n, r.last))
    BY <2>2 DEF Reaches
  <2> QED
    BY <2>2, <2>3, <2>4 DEF r, CycleFine
<1> QED
  BY <1>4, <1>5


------------------------------------------------------------------------------
(* What the search needs of the graph: its nodes are the ends of the arcs, *)
(* or there are none, as when there was no memory for a faked function.    *)
ArcEnds == {FromNode(i) : i \in DOMAIN arcs} \cup {ToNode(i) : i \in DOMAIN arcs}
Graphed == {"select", "vcg", "list", "cycles", "memory"}
NodesOK == phase \in Graphed => nodes \in {{}, ArcEnds}
CyclesInv ==
  /\ NodesOK /\ CyclesExact
  /\ phase = "cycles" => "cycles" \in DOMAIN out

LEMMA GraphIsFine ==
  ASSUME DumpInv, NodesOK, phase = "cycles"
  PROVE  GraphFine
<1>1. /\ arcs \in Seq(Range(arcs)) /\ Len(arcs) \in Nat /\ DOMAIN arcs = 1 .. Len(arcs)
      /\ \A i \in DOMAIN arcs : arcs[i].to \in Funcs
  BY DEF DumpInv, ArcsOK, AfterNames, AfterArcs, IsArcs
<1>2. nodes \in {{}, ArcEnds} /\ \A n \in nodes : nexts[n] = NextLinks(n)
  BY DEF NodesOK, Graphed, DumpInv, GraphOK, AfterArcs
<1>3. IsFiniteSet(nodes)
  <2> DEFINE From == {FromNode(i) : i \in DOMAIN arcs}
             To == {ToNode(i) : i \in DOMAIN arcs}
  <2>1. IsFiniteSet(DOMAIN arcs)
    BY <1>1, FS_Interval
  <2>2. /\ [i \in DOMAIN arcs |-> FromNode(i)] \in Surjection(DOMAIN arcs, From)
        /\ [i \in DOMAIN arcs |-> ToNode(i)] \in Surjection(DOMAIN arcs, To)
    BY DEF Surjection
  <2>3. ArcEnds = From \cup To
    BY DEF ArcEnds
  <2> HIDE DEF From, To
  <2>4. IsFiniteSet(From) /\ IsFiniteSet(To)
    BY <2>1, <2>2, FS_Surjection
  <2>5. IsFiniteSet(ArcEnds)
    BY <2>3, <2>4, FS_Union
  <2> QED
    BY <1>2, <2>5, FS_EmptySet
<1>4. NoNode \notin nodes
  <2>1. 0 \notin Funcs
    BY DumpAssumption
  <2>2. \A i \in DOMAIN arcs : FromNode(i) # NoNode /\ ToNode(i) # NoNode
    BY <1>1, <2>1 DEF FromNode, ToNode, NoNode
  <2> QED
    BY <1>2, <2>2 DEF ArcEnds
<1>5. ASSUME NEW n \in nodes PROVE nexts[n] \in Seq(Range(nexts[n]))
  <2> DEFINE From == {i \in DOMAIN arcs : FromNode(i) = n}
  <2>1. Cardinality(From) \in Nat /\ InOrder(From) \in [1 .. Cardinality(From) -> From]
    BY <1>1, IndexesOrdered
  <2>2. NextLinks(n) = [k \in DOMAIN InOrder(From) |->
                          [node |-> ToNode(InOrder(From)[k]), number |-> arcs[InOrder(From)[k]].number]]
    BY DEF NextLinks
  <2>3. DOMAIN InOrder(From) = 1 .. Cardinality(From)
    BY <2>1
  <2> HIDE DEF From
  <2>4. NextLinks(n) \in [1 .. Cardinality(From) -> Range(NextLinks(n))]
    BY <2>2, <2>3 DEF Range
  <2> QED
    BY <1>2, <2>1, <2>4
<1>6. ASSUME NEW n \in nodes PROVE Callees(n) \subseteq nodes
  <2>1. nodes = ArcEnds /\ nexts[n] = NextLinks(n)
    BY <1>2, <1>6
  <2>2. \A l \in Range(NextLinks(n)) : \E i \in DOMAIN arcs : l.node = ToNode(i)
    BY <1>1, LinksAreArcs
  <2> QED
    BY <2>1, <2>2 DEF Callees, ArcEnds
<1> QED
  BY <1>3, <1>4, <1>5, <1>6 DEF GraphFine

(* The cycles that are computed are those of the graph.                    *)
LEMMA ComputeCyclesExact ==
  ASSUME DumpInv, CyclesInv, ComputeCycles
  PROVE  CyclesExact'
<1>1. /\ phase = "cycles" /\ nodes' = nodes /\ nexts' = nexts /\ opts' = opts
      /\ ~Flag("no_cycles") => out' = [out EXCEPT !.cycles = [n \in nodes |-> GetCycle(n)]]
  BY DEF ComputeCycles, graph
<1>2. GraphFine
  BY <1>1, GraphIsFine DEF CyclesInv
<1>3. SUFFICES ASSUME ~Flag("no_cycles")
               PROVE  /\ DOMAIN out'.cycles = nodes
                      /\ \A n \in nodes : CycleFine(n, out'.cycles[n])
  <2>1. \A n, found : CycleFine(n, found)' <=> CycleFine(n, found)
    BY <1>1 DEF CycleFine, Reaches, Closed, Callees
  <2>2. Flag("no_cycles")' <=> Flag("no_cycles")
    BY <1>1 DEF Flag
  <2> QED
    BY <1>1, <1>3, <2>1, <2>2 DEF CyclesExact, CycleFine
<1>4. out'.cycles = [n \in nodes |-> GetCycle(n)]
  BY <1>1, <1>3 DEF CyclesInv
<1>5. \A n \in nodes : CycleFine(n, GetCycle(n))
  BY <1>2, CycleFound
<1> QED
  BY <1>4, <1>5

LEMMA StepKeepsCycles ==
  ASSUME DumpInv, CyclesInv, [Next]_vars
  PROVE  CyclesInv'
<1>1. ASSUME phase' \notin Graphed PROVE CyclesInv'
  BY <1>1 DEF Graphed, CyclesInv, NodesOK, CyclesExact
<1>2. CASE Arguments
  <2>1. OptsOK(opts')
    BY <1>2, DumpAssumption, OptionsRead DEF DumpInv, Arguments
  <2> QED
    BY <1>1, <1>2, <2>1 DEF Arguments, OptsOK, Graphed
<1>3. CASE \/ ReadFile \/ CannotRead \/ NoNames \/ SolveNames \/ SortFunctions
           \/ RemoveDuplicates \/ FollowGarbage \/ DisplayGraph \/ ListMemory
  BY <1>1, <1>3 DEF ReadFile, CannotRead, NoNames, SolveNames, SortFunctions, RemoveDuplicates,
       FollowGarbage, DisplayGraph, ListMemory, Graphed
<1>4. CASE LinkNodes
  <2>1. phase' = "select" /\ nodes' = ArcEnds
    BY <1>4 DEF LinkNodes, ArcEnds
  <2>2. ArcEnds' = ArcEnds
    BY <1>4 DEF LinkNodes, ArcEnds, FromNode, ToNode
  <2> QED
    BY <2>1, <2>2 DEF CyclesInv, NodesOK, CyclesExact
<1>5. CASE GraphFails
  <2>1. phase' \in {"vcg", "list"} /\ nodes' = {}
    BY <1>5 DEF GraphFails, graph, DumpInv, GraphOK
  <2> QED
    BY <2>1 DEF CyclesInv, NodesOK, CyclesExact
<1>6. CASE SelectFunctions \/ ListFunctions \/ ComputeCycles
  <2>1. phase \in Graphed /\ nodes' = nodes /\ arcs' = arcs
    BY <1>6 DEF SelectFunctions, ListFunctions, ComputeCycles, graph, Graphed
  <2>2. NodesOK'
    BY <2>1 DEF CyclesInv, NodesOK, ArcEnds, FromNode, ToNode
  <2>3. CyclesExact'
    BY <1>6, ComputeCyclesExact DEF SelectFunctions, ListFunctions, CyclesExact
  <2>4. phase' = "cycles" => "cycles" \in DOMAIN out'
    BY <1>6 DEF SelectFunctions, ListFunctions, ComputeCycles
  <2> QED
    BY <2>2, <2>3, <2>4 DEF CyclesInv
<1>7. CASE UNCHANGED vars
  <2>1. NodesOK'
    BY <1>7 DEF vars, graph, CyclesInv, NodesOK, ArcEnds, FromNode, ToNode
  <2>2. CyclesExact'
    BY <1>7 DEF vars, graph, CyclesInv, CyclesExact, Reaches, Closed, Callees, Flag
  <2> QED
    BY <1>7, <2>1, <2>2 DEF vars, CyclesInv
<1> QED
  BY <1>2, <1>3, <1>4, <1>5, <1>6, <1>7 DEF Next

(* The search of fc_get_cycle_ finds a cycle through a node whenever there *)
(* is one, and only then, whatever the arcs of the file: the tags that it  *)
(* leaves on the nodes it gave up never hide one.                          *)
THEOREM CyclesAreExact == Spec => []CyclesExact
<1>1. Init => CyclesInv
  BY DEF Init, CyclesInv, NodesOK, CyclesExact, Graphed
<1>2. DumpInv /\ CyclesInv /\ [Next]_vars => CyclesInv'
  BY StepKeepsCycles
<1>3. CyclesInv => CyclesExact
  BY DEF CyclesInv
<1> QED
  BY <1>1, <1>2, <1>3, DumpInvariant, PTL DEF Spec
=============================================================================
