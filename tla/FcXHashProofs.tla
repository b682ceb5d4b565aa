--------------------------- MODULE FcXHashProofs ---------------------------
(***************************************************************************)
(* The hash-table of fc_xhash.c is a map, loses no node and moves none,    *)
(* for any keys and values, any sizes of the table, any first block of     *)
(* nodes and any number of blocks added to it.                             *)
(***************************************************************************)
EXTENDS FcXHash, SequenceTheorems, FiniteSetTheorems, WellFoundedInduction, TLAPS

(* a chain, or the free list, has the node n *)
Holds(s, n) == \E i \in 1 .. Len(s) : s[i] = n

(* no node twice *)
Once(s) == \A i, j \in 1 .. Len(s) : s[i] = s[j] => i = j

(* no node twice in a table *)
Apart(chains) ==
  /\ \A b \in 1 .. Len(chains) : Once(chains[b])
  /\ \A b, c \in 1 .. Len(chains) : \A n : Holds(chains[b], n) /\ Holds(chains[c], n) => b = c

------------------------------------------------------------------------------
(* Numbers *)

(* A set of numbers that is not empty has a least one. *)
LEMMA Least ==
  ASSUME NEW S, S \subseteq Nat, S # {}
  PROVE  \E x \in S : \A y \in S : x <= y
<1> DEFINE R == OpToRel(<, Nat)
<1>1. IsWellFoundedOn(R, Nat)
  BY NatLessThanWellFounded
<1>2. \A x, y \in Nat : x < y => <<x, y>> \in R
  BY DEF OpToRel
<1> HIDE DEF R
<1>3. PICK x \in S : \A y \in S : ~(<<y, x>> \in R)
  BY <1>1, WFMin
<1>4. \A y \in S : ~(y < x)
  BY <1>2, <1>3
<1>5. \A y \in S : x <= y
  BY <1>4
<1> QED
  BY <1>5

(* The bucket of a key is one of the table. *)
LEMMA IndexFacts ==
  ASSUME NEW k \in Nat, NEW size \in Nat \ {0}
  PROVE  Index(k, size) \in 1 .. size
<1>1. k % size \in 0 .. size - 1
  OBVIOUS
<1> QED
  BY <1>1 DEF Index

(* A table has a size of the list before and after it is increased. *)
LEMMA SizeFacts ==
  ASSUME NEW size
  PROVE  NextSize(size) \in Nat \ {0} /\ \E i \in 1 .. Len(Primes) : NextSize(size) = Primes[i]
<1> DEFINE larger == {i \in 1 .. Len(Primes) : Primes[i] > size}
           i == IF larger = {} THEN Len(Primes) ELSE Min(larger)
<1>1. Primes \in Seq(Nat \ {0}) /\ Len(Primes) \in Nat /\ Len(Primes) > 0
  BY XHashAssumption
<1>2. i \in 1 .. Len(Primes)
  <2>1. CASE larger = {}
    BY <1>1, <2>1
  <2>2. CASE larger # {}
    <3>1. larger \subseteq Nat
      BY <1>1
    <3>2. \E x \in larger : \A y \in larger : x <= y
      BY <2>2, <3>1, Least
    <3>3. Min(larger) \in larger
      <4> HIDE DEF larger
      <4> QED
        BY <3>2 DEF Min
    <3> QED
      BY <2>2, <3>3
  <2> QED
    BY <2>1, <2>2
<1>3. NextSize(size) = Primes[i]
  BY DEF NextSize
<1> HIDE DEF i
<1> QED
  BY <1>1, <1>2, <1>3

------------------------------------------------------------------------------
(* Sequences of nodes *)

(* two sequences, one after the other *)
LEMMA ConcatFacts ==
  ASSUME NEW S, NEW s \in Seq(S), NEW t \in Seq(S)
  PROVE  /\ s \o t \in Seq(S)
         /\ \A n : Holds(s \o t, n) <=> Holds(s, n) \/ Holds(t, n)
         /\ Once(s) /\ Once(t) /\ (\A n : ~(Holds(s, n) /\ Holds(t, n))) => Once(s \o t)
<1> DEFINE r == s \o t
<1>1. /\ r \in Seq(S) /\ Len(r) = Len(s) + Len(t) /\ Len(s) \in Nat /\ Len(t) \in Nat
      /\ \A i \in 1 .. Len(s) : r[i] = s[i]
      /\ \A i \in 1 .. Len(t) : r[Len(s) + i] = t[i]
  BY ConcatProperties
<1>2. \A i \in 1 .. Len(r) : (i \in 1 .. Len(s) /\ r[i] = s[i])
                              \/ (i > Len(s) /\ i - Len(s) \in 1 .. Len(t) /\ r[i] = t[i - Len(s)])
  <2> SUFFICES ASSUME NEW i \in 1 .. Len(r), i > Len(s)
               PROVE  i - Len(s) \in 1 .. Len(t) /\ r[i] = t[i - Len(s)]
    BY <1>1
  <2>1. i - Len(s) \in 1 .. Len(t) /\ Len(s) + (i - Len(s)) = i
    BY <1>1
  <2> QED
    BY <1>1, <2>1
<1>3. \A i \in 1 .. Len(s) : i \in 1 .. Len(r)
  BY <1>1
<1>4. \A i \in 1 .. Len(t) : Len(s) + i \in 1 .. Len(r)
  BY <1>1
<1> HIDE DEF r
<1>5. \A n : Holds(r, n) <=> Holds(s, n) \/ Holds(t, n)
  BY <1>1, <1>2, <1>3, <1>4 DEF Holds
<1>6. ASSUME Once(s), Once(t), \A n : ~(Holds(s, n) /\ Holds(t, n)),
             NEW i \in 1 .. Len(r), NEW j \in 1 .. Len(r), r[i] = r[j]
      PROVE  i = j
  <2>1. CASE i \in 1 .. Len(s) /\ j \in 1 .. Len(s)
    <3>1. s[i] = s[j]
      BY <2>1, <1>1, <1>2, <1>6
    <3> QED
      BY <2>1, <3>1, <1>6 DEF Once
  <2>2. CASE i > Len(s) /\ j > Len(s)
    <3>1. i - Len(s) \in 1 .. Len(t) /\ j - Len(s) \in 1 .. Len(t)
          /\ t[i - Len(s)] = t[j - Len(s)]
      BY <2>2, <1>1, <1>2, <1>6
    <3>2. i - Len(s) = j - Len(s)
      BY <3>1, <1>6 DEF Once
    <3> QED
      BY <3>2, <1>1
  <2>3. CASE i \in 1 .. Len(s) /\ j > Len(s)
    <3>1. j - Len(s) \in 1 .. Len(t) /\ t[j - Len(s)] = s[i]
      BY <2>3, <1>1, <1>2, <1>6
    <3> QED
      BY <2>3, <3>1, <1>6 DEF Holds
  <2>4. CASE i > Len(s) /\ j \in 1 .. Len(s)
    <3>1. i - Len(s) \in 1 .. Len(t) /\ t[i - Len(s)] = s[j]
      BY <2>4, <1>1, <1>2, <1>6
    <3> QED
      BY <2>4, <3>1, <1>6 DEF Holds
  <2> QED
    BY <2>1, <2>2, <2>3, <2>4, <1>2
<1>7. Once(s) /\ Once(t) /\ (\A n : ~(Holds(s, n) /\ Holds(t, n))) => Once(r)
  BY <1>6 DEF Once
<1> QED
  BY <1>1, <1>5, <1>7 DEF r

(* a node put at the end *)
LEMMA AppendFacts ==
  ASSUME NEW S, NEW s \in Seq(S), NEW x \in S
  PROVE  /\ Append(s, x) \in Seq(S)
         /\ \A n : Holds(Append(s, x), n) <=> Holds(s, n) \/ n = x
         /\ Once(s) /\ ~Holds(s, x) => Once(Append(s, x))
<1> DEFINE r == Append(s, x)
<1>1. /\ r \in Seq(S) /\ Len(r) = Len(s) + 1 /\ Len(s) \in Nat /\ r[Len(s) + 1] = x
      /\ \A i \in 1 .. Len(s) : r[i] = s[i]
  BY AppendProperties
<1>2. \A i \in 1 .. Len(r) : (i \in 1 .. Len(s) /\ r[i] = s[i]) \/ (i = Len(s) + 1 /\ r[i] = x)
  BY <1>1
<1>3. (\A i \in 1 .. Len(s) : i \in 1 .. Len(r)) /\ Len(s) + 1 \in 1 .. Len(r)
  BY <1>1
<1> HIDE DEF r
<1>4. \A n : Holds(r, n) <=> Holds(s, n) \/ n = x
  BY <1>1, <1>2, <1>3 DEF Holds
<1>5. Once(s) /\ ~Holds(s, x) => Once(r)
  BY <1>2 DEF Once, Holds
<1> QED
  BY <1>1, <1>4, <1>5 DEF r

(* the node at place p taken out *)
LEMMA RemoveFacts ==
  ASSUME NEW S, NEW s \in Seq(S), NEW p \in 1 .. Len(s), Once(s)
  PROVE  /\ RemoveAt(s, p) \in Seq(S)
         /\ \A n : Holds(RemoveAt(s, p), n) <=> Holds(s, n) /\ n # s[p]
         /\ Once(RemoveAt(s, p))
<1> DEFINE a == SubSeq(s, 1, p - 1)
           z == SubSeq(s, p + 1, Len(s))
<1>0. Len(s) \in Nat /\ p \in Nat
  OBVIOUS
<1>1. /\ a \in Seq(S) /\ Len(a) = p - 1 /\ \A i \in 1 .. p - 1 : a[i] = s[i]
  <2>1. \A i \in 1 .. p - 1 : s[i] \in S
    BY <1>0
  <2>2. p - 1 \in Int /\ p - 1 <= Len(s)
    BY <1>0
  <2>3. /\ a \in Seq(S) /\ Len(a) = IF 1 <= p - 1 THEN p - 1 - 1 + 1 ELSE 0
        /\ \A i \in 1 .. p - 1 - 1 + 1 : a[i] = s[1 + i - 1]
    BY <2>1, <2>2, <1>0, SubSeqProperties
  <2> HIDE DEF a
  <2>4. Len(a) = p - 1
    BY <2>3, <1>0
  <2>5. \A i \in 1 .. p - 1 : i \in 1 .. p - 1 - 1 + 1 /\ 1 + i - 1 = i
    BY <1>0
  <2> QED
    BY <2>3, <2>4, <2>5
<1>2. /\ z \in Seq(S) /\ Len(z) = Len(s) - p /\ \A i \in 1 .. Len(s) - p : z[i] = s[p + i]
  <2>1. \A i \in p + 1 .. Len(s) : s[i] \in S
    BY <1>0
  <2>2. p + 1 \in Int /\ p + 1 <= Len(s) + 1
    BY <1>0
  <2>3. /\ z \in Seq(S) /\ Len(z) = IF p + 1 <= Len(s) THEN Len(s) - (p + 1) + 1 ELSE 0
        /\ \A i \in 1 .. Len(s) - (p + 1) + 1 : z[i] = s[p + 1 + i - 1]
    BY <2>1, <2>2, <1>0, SubSeqProperties
  <2> HIDE DEF z
  <2>4. Len(z) = Len(s) - p
    BY <2>3, <1>0
  <2>5. \A i \in 1 .. Len(s) - p : i \in 1 .. Len(s) - (p + 1) + 1 /\ p + 1 + i - 1 = p + i
    BY <1>0
  <2> QED
    BY <2>3, <2>4, <2>5
<1>3. RemoveAt(s, p) = a \o z
  BY DEF RemoveAt
<1> HIDE DEF a, z
<1>4. \A i \in 1 .. Len(a) : i \in 1 .. Len(s) /\ i # p
  BY <1>0, <1>1
<1>5. \A i \in 1 .. Len(z) : p + i \in 1 .. Len(s) /\ p + i > p /\ p + i # p /\ i \in Int
  BY <1>0, <1>2
<1>6. \A n : Holds(a, n) \/ Holds(z, n) <=> Holds(s, n) /\ n # s[p]
  <2>1. \A n : Holds(a, n) => Holds(s, n) /\ n # s[p]
    BY <1>1, <1>4 DEF Holds, Once
  <2>2. \A n : Holds(z, n) => Holds(s, n) /\ n # s[p]
    BY <1>2, <1>5 DEF Holds, Once
  <2>3. ASSUME NEW i \in 1 .. Len(s), i # p PROVE Holds(a, s[i]) \/ Holds(z, s[i])
    <3>1. CASE i < p
      BY <3>1, <1>0, <1>1 DEF Holds
    <3>2. CASE i > p
      <4>1. i - p \in 1 .. Len(z) /\ p + (i - p) = i /\ i - p \in 1 .. Len(s) - p
        BY <3>2, <1>0, <1>2
      <4> QED
        BY <4>1, <1>2 DEF Holds
    <3> QED
      BY <2>3, <3>1, <3>2, <1>0
  <2> QED
    BY <2>1, <2>2, <2>3 DEF Holds
<1>7. Once(a)
  BY <1>1, <1>4 DEF Once
<1>8. Once(z)
  <2> SUFFICES ASSUME NEW i \in 1 .. Len(z), NEW j \in 1 .. Len(z), z[i] = z[j] PROVE i = j
    BY DEF Once
  <2>1. s[p + i] = s[p + j]
    BY <1>2
  <2>2. p + i = p + j
    BY <2>1, <1>5 DEF Once
  <2> QED
    BY <2>2, <1>0, <1>5
<1>9. \A n : ~(Holds(a, n) /\ Holds(z, n))
  <2> SUFFICES ASSUME NEW i \in 1 .. Len(a), NEW j \in 1 .. Len(z), a[i] = z[j] PROVE FALSE
    BY DEF Holds
  <2>1. s[i] = s[p + j]
    BY <1>1, <1>2
  <2>2. i = p + j
    BY <2>1, <1>4, <1>5 DEF Once
  <2> QED
    BY <2>2, <1>0, <1>1, <1>5
<1> QED
  BY <1>1, <1>2, <1>3, <1>6, <1>7, <1>8, <1>9, ConcatFacts

(* A sequence without repetition has as many nodes as places. *)
LEMMA OnceCounts ==
  ASSUME NEW S, NEW s \in Seq(S), Once(s)
  PROVE  IsFiniteSet(Range(s)) /\ Cardinality(Range(s)) = Len(s)
<1>1. Len(s) \in Nat /\ DOMAIN s = 1 .. Len(s)
  OBVIOUS
<1>2. IsFiniteSet(1 .. Len(s)) /\ Cardinality(1 .. Len(s)) = Len(s)
  <2>1. 1 \in Int /\ Len(s) \in Int
    BY <1>1
  <2> QED
    BY <2>1, <1>1, FS_Interval
<1>3. s \in Bijection(1 .. Len(s), Range(s))
  <2>1. s \in [1 .. Len(s) -> Range(s)]
    BY <1>1 DEF Range
  <2>2. \A y \in Range(s) : \E x \in 1 .. Len(s) : s[x] = y
    BY <1>1 DEF Range
  <2>3. s \in Injection(1 .. Len(s), Range(s))
    BY <2>1 DEF Injection, Once, IsInjective
  <2>4. s \in Surjection(1 .. Len(s), Range(s))
    BY <2>1, <2>2 DEF Surjection
  <2> QED
    BY <2>3, <2>4 DEF Bijection
<1>4. ExistsBijection(1 .. Len(s), Range(s))
  BY <1>3 DEF ExistsBijection
<1> QED
  BY <1>2, <1>4, FS_Bijection

------------------------------------------------------------------------------
(* fc_hash_foreach *)

(* the chains up to the n-th, one after the other *)
Flattening(s, n, f) == f = [i \in 1 .. n |-> IF i = 1 THEN s[i] ELSE f[i - 1] \o s[i]]

(* The recursion of FlattenSeq has a solution. *)
LEMMA FlatteningExists ==
  ASSUME NEW s, NEW n \in Nat
  PROVE  \E f : Flattening(s, n, f)
<1> DEFINE bad == {m \in Nat : ~\E f : Flattening(s, m, f)}
<1> SUFFICES ASSUME bad # {} PROVE FALSE
  OBVIOUS
<1>1. PICK m \in bad : \A y \in bad : m <= y
  BY Least
<1>2. m \in Nat /\ ~\E f : Flattening(s, m, f)
  OBVIOUS
<1>3. m # 0
  <2> DEFINE f == [i \in 1 .. 0 |-> s[i]]
  <2>1. f = [i \in 1 .. 0 |-> IF i = 1 THEN s[i] ELSE f[i - 1] \o s[i]]
    OBVIOUS
  <2> QED
    BY <2>1, <1>2 DEF Flattening
<1>4. m - 1 \in Nat /\ m - 1 \notin bad
  BY <1>1, <1>2, <1>3
<1>5. PICK g : Flattening(s, m - 1, g)
  BY <1>4
<1> DEFINE f == [i \in 1 .. m |->
                   IF i = m THEN (IF m = 1 THEN s[m] ELSE g[m - 1] \o s[m]) ELSE g[i]]
<1>6. ASSUME NEW i \in 1 .. m
      PROVE  f[i] = IF i = 1 THEN s[i] ELSE f[i - 1] \o s[i]
  <2>1. CASE i = m
    BY <2>1, <1>2
  <2>2. CASE i # m
    <3>1. i \in 1 .. m - 1 /\ f[i] = g[i] /\ (i # 1 => f[i - 1] = g[i - 1])
      BY <2>2, <1>2
    <3>2. g[i] = IF i = 1 THEN s[i] ELSE g[i - 1] \o s[i]
      BY <3>1, <1>5 DEF Flattening
    <3> QED
      BY <3>1, <3>2
  <2> QED
    BY <2>1, <2>2
<1>7. DOMAIN f = 1 .. m /\ f = [i \in 1 .. m |-> f[i]]
  OBVIOUS
<1>8. f = [i \in 1 .. m |-> IF i = 1 THEN s[i] ELSE f[i - 1] \o s[i]]
  <2> HIDE DEF f
  <2> QED
    BY <1>6, <1>7
<1> QED
  BY <1>2, <1>8 DEF Flattening

(* FlattenSeq is the last step of that recursion. *)
LEMMA FlattenSteps ==
  ASSUME NEW s, Len(s) \in Nat, Len(s) # 0
  PROVE  \E f : Flattening(s, Len(s), f) /\ FlattenSeq(s) = f[Len(s)]
<1> DEFINE f == CHOOSE f : Flattening(s, Len(s), f)
<1>1. Flattening(s, Len(s), f)
  BY FlatteningExists
<1>2. f = CHOOSE g : g = [i \in 1 .. Len(s) |-> IF i = 1 THEN s[i] ELSE g[i - 1] \o s[i]]
  BY DEF Flattening
<1>3. FlattenSeq(s) = f[Len(s)]
  BY <1>2 DEF FlattenSeq
<1> QED
  BY <1>1, <1>3

(* what the loop over the chains has come to after i of them *)
Visited(S, chains, i, t) ==
  /\ t \in Seq(S) /\ Once(t)
  /\ \A n : Holds(t, n) <=> \E b \in 1 .. i : Holds(chains[b], n)

(* fc_hash_foreach comes to each node of the table once. *)
LEMMA ForeachFacts ==
  ASSUME NEW S, NEW chains \in Seq(Seq(S)), Len(chains) # 0, Apart(chains)
  PROVE  Visited(S, chains, Len(chains), Foreach(chains))
<1>1. Len(chains) \in Nat \ {0} /\ \A b \in 1 .. Len(chains) : chains[b] \in Seq(S)
  OBVIOUS
<1>2. PICK f : Flattening(chains, Len(chains), f) /\ FlattenSeq(chains) = f[Len(chains)]
  BY <1>1, FlattenSteps
<1>3. \A i \in 1 .. Len(chains) : f[i] = IF i = 1 THEN chains[i] ELSE f[i - 1] \o chains[i]
  BY <1>2 DEF Flattening
<1> DEFINE bad == {i \in 1 .. Len(chains) : ~Visited(S, chains, i, f[i])}
<1>4. bad = {}
  <2> SUFFICES ASSUME bad # {} PROVE FALSE
    OBVIOUS
  <2>0. bad \subseteq Nat
    BY <1>1
  <2>1. PICK m \in bad : \A y \in bad : m <= y
    BY <2>0, Least
  <2>2. m \in 1 .. Len(chains) /\ ~Visited(S, chains, m, f[m])
    OBVIOUS
  <2>3. CASE m = 1
    <3>1. f[m] = chains[1] /\ 1 \in 1 .. Len(chains)
      BY <2>3, <1>1, <1>3
    <3>2. \A b \in 1 .. m : b = 1
      BY <2>3
    <3>3. Once(chains[1]) /\ chains[1] \in Seq(S)
      BY <1>1, <3>1 DEF Apart
    <3>4. \A n : Holds(chains[1], n) <=> \E b \in 1 .. m : Holds(chains[b], n)
      BY <2>3, <3>2
    <3> QED
      BY <2>2, <3>1, <3>3, <3>4 DEF Visited
  <2>4. CASE m # 1
    <3>1. m - 1 \in 1 .. Len(chains) /\ m - 1 \notin bad
      BY <2>1, <2>2, <2>4, <1>1
    <3>2. Visited(S, chains, m - 1, f[m - 1])
      BY <3>1
    <3> DEFINE t == f[m - 1]
    <3>3. f[m] = t \o chains[m]
      BY <2>2, <2>4, <1>3
    <3>4. t \in Seq(S) /\ Once(t) /\ \A n : Holds(t, n) <=> \E b \in 1 .. m - 1 : Holds(chains[b], n)
      BY <3>2 DEF Visited
    <3> HIDE DEF t
    <3>5. Once(chains[m]) /\ chains[m] \in Seq(S)
      BY <1>1, <2>2 DEF Apart
    <3>6. \A b \in 1 .. m - 1 : b \in 1 .. Len(chains) /\ b # m
      BY <2>2, <1>1
    <3>7. \A n : ~(Holds(t, n) /\ Holds(chains[m], n))
      BY <3>4, <3>6, <2>2 DEF Apart
    <3>8. /\ t \o chains[m] \in Seq(S) /\ Once(t \o chains[m])
          /\ \A n : Holds(t \o chains[m], n) <=> Holds(t, n) \/ Holds(chains[m], n)
      BY <3>4, <3>5, <3>7, ConcatFacts
    <3>9. 1 .. m = (1 .. m - 1) \cup {m}
      BY <2>2, <1>1
    <3>10. \A n : Holds(f[m], n) <=> \E b \in 1 .. m : Holds(chains[b], n)
      BY <3>3, <3>4, <3>8, <3>9
    <3> QED
      BY <2>2, <3>3, <3>8, <3>10 DEF Visited
  <2> QED
    BY <2>3, <2>4
<1>5. Len(chains) \notin bad /\ Len(chains) \in 1 .. Len(chains)
  BY <1>1, <1>4
<1> QED
  BY <1>2, <1>5 DEF Foreach

------------------------------------------------------------------------------
(* fc_hash_increase_size *)

(* the new table after n nodes *)
Rehashing(all, keys, size, n, f) ==
  f = [i \in 0 .. n |->
         IF i = 0 THEN [b \in 1 .. size |-> <<>>]
         ELSE AddLast(f[i - 1], all[i], Index(keys[all[i]], size))]

(* The recursion of IncreaseSize has a solution. *)
LEMMA RehashingExists ==
  ASSUME NEW all, NEW keys, NEW size, NEW n \in Nat
  PROVE  \E f : Rehashing(all, keys, size, n, f)
<1> DEFINE first == [b \in 1 .. size |-> <<>>]
           next(c, i) == AddLast(c, all[i], Index(keys[all[i]], size))
           Solves(m, f) == f = [i \in 0 .. m |-> IF i = 0 THEN first ELSE next(f[i - 1], i)]
           bad == {m \in Nat : ~\E f : Solves(m, f)}
<1> HIDE DEF first, next
<1>0. SUFFICES ASSUME bad # {} PROVE FALSE
  <2>1. \E f : Solves(n, f)
    BY <1>0
  <2> QED
    BY <2>1 DEF Rehashing, first, next
<1>1. PICK m \in bad : \A y \in bad : m <= y
  BY <1>0, Least
<1>2. m \in Nat /\ ~\E f : Solves(m, f)
  OBVIOUS
<1>3. m # 0
  <2> DEFINE f == [i \in 0 .. 0 |-> first]
  <2>1. f = [i \in 0 .. 0 |-> IF i = 0 THEN first ELSE next(f[i - 1], i)]
    OBVIOUS
  <2> QED
    BY <2>1, <1>2
<1>4. m - 1 \in Nat /\ m - 1 \notin bad
  BY <1>1, <1>2, <1>3
<1>5. PICK g : Solves(m - 1, g)
  BY <1>4
<1> DEFINE f == [i \in 0 .. m |-> IF i = m THEN next(g[m - 1], m) ELSE g[i]]
<1>6. ASSUME NEW i \in 0 .. m
      PROVE  f[i] = IF i = 0 THEN first ELSE next(f[i - 1], i)
  <2>1. CASE i = m
    BY <2>1, <1>2, <1>3
  <2>2. CASE i # m
    <3>1. i \in 0 .. m - 1 /\ f[i] = g[i] /\ (i # 0 => f[i - 1] = g[i - 1])
      BY <2>2, <1>2
    <3>2. g[i] = IF i = 0 THEN first ELSE next(g[i - 1], i)
      BY <3>1, <1>5
    <3> QED
      BY <3>1, <3>2
  <2> QED
    BY <2>1, <2>2
<1>7. DOMAIN f = 0 .. m /\ f = [i \in 0 .. m |-> f[i]]
  OBVIOUS
<1>8. Solves(m, f)
  <2> HIDE DEF f
  <2> QED
    BY <1>6, <1>7
<1> QED
  BY <1>2, <1>8

(* IncreaseSize is the last step of that recursion. *)
LEMMA RehashSteps ==
  ASSUME NEW chains, NEW keys, Len(Foreach(chains)) \in Nat
  PROVE  LET all == Foreach(chains) IN
         \E f : /\ Rehashing(all, keys, NextSize(Len(chains)), Len(all), f)
                /\ IncreaseSize(chains, keys) = f[Len(all)]
<1> DEFINE all == Foreach(chains)
           size == NextSize(Len(chains))
           f == CHOOSE f : Rehashing(all, keys, size, Len(all), f)
<1>1. Rehashing(all, keys, size, Len(all), f)
  BY RehashingExists
<1>2. f = CHOOSE g : g = [i \in 0 .. Len(all) |->
             IF i = 0 THEN [b \in 1 .. size |-> <<>>]
             ELSE AddLast(g[i - 1], all[i], Index(keys[all[i]], size))]
  BY DEF Rehashing
<1>3. IncreaseSize(chains, keys) = f[Len(all)]
  BY <1>2 DEF IncreaseSize
<1> QED
  BY <1>1, <1>3

(* A sequence of a given length, by its places. *)
LEMMA SequenceOf ==
  ASSUME NEW S, NEW size \in Nat, NEW c, c \in [1 .. size -> S]
  PROVE  c \in Seq(S) /\ Len(c) = size
OBVIOUS

(* r is the table c with x at the end of the chain b *)
Added(S, c, x, b, r) ==
  /\ r \in Seq(Seq(S)) /\ Len(r) = Len(c)
  /\ r[b] = Append(c[b], x)
  /\ \A d \in 1 .. Len(c) : d # b => r[d] = c[d]

(* A sequence of fewer things is a sequence of more. *)
LEMMA SequenceIn ==
  ASSUME NEW S, NEW T, S \subseteq T, NEW s \in Seq(S)
  PROVE  s \in Seq(T)
<1>1. Len(s) \in Nat /\ s \in [1 .. Len(s) -> S]
  OBVIOUS
<1>2. s \in [1 .. Len(s) -> T]
  BY <1>1
<1> QED
  BY <1>1, <1>2, SequenceOf

(* A node added to its chain: the other chains stay. *)
LEMMA AddLastFacts ==
  ASSUME NEW S, NEW c \in Seq(Seq(S)), NEW b \in 1 .. Len(c), NEW x \in S
  PROVE  Added(S, c, x, b, AddLast(c, x, b))
<1>1. c[b] \in Seq(S) /\ Append(c[b], x) \in Seq(S)
  BY AppendFacts
<1>2. AddLast(c, x, b) = [c EXCEPT ![b] = Append(c[b], x)]
  BY DEF AddLast
<1> QED
  BY <1>1, <1>2 DEF Added

(* the nodes that the loop has put into the new table after i turns *)
Refilled(S, all, keys, size, i, c) ==
  /\ c \in Seq(Seq(S)) /\ Len(c) = size
  /\ \A b \in 1 .. size : Once(c[b])
  /\ \A b \in 1 .. size : \A n :
       Holds(c[b], n) <=> Index(keys[n], size) = b /\ \E j \in 1 .. i : all[j] = n

(* One turn of that loop. *)
LEMMA RehashTurn ==
  ASSUME NEW S, NEW all \in Seq(S), Once(all), NEW keys, NEW size \in Nat \ {0},
         \A n : Holds(all, n) => keys[n] \in Nat,
         NEW m \in 1 .. Len(all), NEW c, Refilled(S, all, keys, size, m - 1, c)
  PROVE  Refilled(S, all, keys, size, m, AddLast(c, all[m], Index(keys[all[m]], size)))
<1> DEFINE x == all[m]
           b == Index(keys[x], size)
           r == AddLast(c, x, b)
<1>0. Len(all) \in Nat /\ m \in Nat
  OBVIOUS
<1>1. x \in S /\ Holds(all, x)
  BY DEF Holds
<1>2. b \in 1 .. size
  BY <1>1, IndexFacts
<1>3. c \in Seq(Seq(S)) /\ Len(c) = size
  BY DEF Refilled
<1>4. \A d \in 1 .. size : \A n :
        Holds(c[d], n) <=> Index(keys[n], size) = d /\ \E j \in 1 .. m - 1 : all[j] = n
  BY DEF Refilled
<1>5. /\ r \in Seq(Seq(S)) /\ Len(r) = size /\ r[b] = Append(c[b], x)
      /\ \A d \in 1 .. size : d # b => r[d] = c[d]
  <2> HIDE DEF x, b
  <2>1. b \in 1 .. Len(c)
    BY <1>2, <1>3
  <2>2. Added(S, c, x, b, r)
    BY <1>1, <1>3, <2>1, AddLastFacts
  <2> HIDE DEF r
  <2> QED
    BY <2>2, <1>3 DEF Added
<1>6. \A j \in 1 .. m - 1 : j \in 1 .. Len(all) /\ j # m
  BY <1>0
<1>7. ~Holds(c[b], x)
  BY <1>2, <1>4, <1>6 DEF Once
<1>8. Once(c[b]) /\ c[b] \in Seq(S)
  BY <1>2, <1>3 DEF Refilled
<1>9. 1 .. m = (1 .. m - 1) \cup {m}
  BY <1>0
<1>10. \A n : (\E j \in 1 .. m : all[j] = n) <=> (\E j \in 1 .. m - 1 : all[j] = n) \/ n = x
  BY <1>9
<1>11. Once(r[b]) /\ \A n : Holds(r[b], n) <=> Holds(c[b], n) \/ n = x
  <2> HIDE DEF x, b, r
  <2> QED
    BY <1>1, <1>5, <1>7, <1>8, AppendFacts
<1>12. ASSUME NEW d \in 1 .. size
       PROVE  /\ Once(r[d])
              /\ \A n : Holds(r[d], n) <=> Index(keys[n], size) = d /\ \E j \in 1 .. m : all[j] = n
  <2>1. CASE d = b
    <3>1. Once(r[d])
      BY <2>1, <1>11
    <3>2. \A n : Holds(r[d], n) <=> (Index(keys[n], size) = d /\ \E j \in 1 .. m - 1 : all[j] = n)
                                     \/ n = x
      BY <2>1, <1>2, <1>4, <1>11
    <3>3. Index(keys[x], size) = d
      BY <2>1
    <3> HIDE DEF x, b, r
    <3> QED
      BY <3>1, <3>2, <3>3, <1>10
  <2>2. CASE d # b
    <3>1. r[d] = c[d] /\ Index(keys[x], size) # d
      BY <2>2, <1>5
    <3>2. Once(c[d])
      BY DEF Refilled
    <3> HIDE DEF x, b, r
    <3> QED
      BY <3>1, <3>2, <1>4, <1>10
  <2> QED
    BY <2>1, <2>2
<1> HIDE DEF r
<1>13. Refilled(S, all, keys, size, m, r)
  BY <1>5, <1>12 DEF Refilled
<1> QED
  BY <1>13 DEF r

(* fc_hash_increase_size brings each node to the chain of its key in the   *)
(* new table, and no other node.                                           *)
LEMMA RehashFacts ==
  ASSUME NEW S, NEW chains \in Seq(Seq(S)), Len(chains) # 0, Apart(chains), NEW keys,
         \A b \in 1 .. Len(chains) : \A n : Holds(chains[b], n) => keys[n] \in Nat
  PROVE  LET new == IncreaseSize(chains, keys)
             size == NextSize(Len(chains))
         IN  /\ new \in Seq(Seq(S)) /\ Len(new) = size
             /\ \A b \in 1 .. size : Once(new[b])
             /\ \A b \in 1 .. size : \A n : Holds(new[b], n) <=>
                  Index(keys[n], size) = b /\ \E d \in 1 .. Len(chains) : Holds(chains[d], n)
<1> DEFINE all == Foreach(chains)
           size == NextSize(Len(chains))
<1>1. Visited(S, chains, Len(chains), all)
  BY ForeachFacts
<1>2. /\ all \in Seq(S) /\ Once(all)
      /\ \A n : Holds(all, n) <=> \E d \in 1 .. Len(chains) : Holds(chains[d], n)
  BY <1>1 DEF Visited
<1>3. \A n : Holds(all, n) => keys[n] \in Nat
  BY <1>2
<1>4. size \in Nat \ {0}
  BY SizeFacts
<1>5. Len(all) \in Nat
  BY <1>2
<1>6. PICK f : /\ Rehashing(all, keys, size, Len(all), f)
               /\ IncreaseSize(chains, keys) = f[Len(all)]
  BY <1>5, RehashSteps
<1> HIDE DEF all, size
<1>7. /\ f[0] = [b \in 1 .. size |-> <<>>]
      /\ \A i \in 1 .. Len(all) : f[i] = AddLast(f[i - 1], all[i], Index(keys[all[i]], size))
  <2> DEFINE step(i) == IF i = 0 THEN [b \in 1 .. size |-> <<>>]
                        ELSE AddLast(f[i - 1], all[i], Index(keys[all[i]], size))
  <2>1. f = [i \in 0 .. Len(all) |-> step(i)]
    BY <1>6 DEF Rehashing
  <2>2. 0 \in 0 .. Len(all) /\ \A i \in 1 .. Len(all) : i \in 0 .. Len(all) /\ i # 0
    BY <1>5
  <2> HIDE DEF step
  <2>3. \A i \in 0 .. Len(all) : f[i] = step(i)
    BY <2>1
  <2> QED
    BY <2>2, <2>3 DEF step
<1> DEFINE bad == {i \in 0 .. Len(all) : ~Refilled(S, all, keys, size, i, f[i])}
<1>8. Refilled(S, all, keys, size, 0, f[0])
  <2>1. f[0] \in [1 .. size -> Seq(S)]
    BY <1>7
  <2>2. f[0] \in Seq(Seq(S)) /\ Len(f[0]) = size
    BY <1>4, <2>1, SequenceOf
  <2>3. \A b \in 1 .. size : f[0][b] = <<>>
    BY <1>7
  <2>4. 1 .. 0 = {} /\ Len(<<>>) = 0
    OBVIOUS
  <2>5. \A b \in 1 .. size : Once(f[0][b]) /\ \A n : ~Holds(f[0][b], n)
    BY <2>3, <2>4 DEF Once, Holds
  <2> QED
    BY <2>2, <2>4, <2>5 DEF Refilled
<1>9. bad = {}
  <2> SUFFICES ASSUME bad # {} PROVE FALSE
    OBVIOUS
  <2>1. bad \subseteq Nat
    BY <1>5
  <2>2. PICK m \in bad : \A y \in bad : m <= y
    BY <2>1, Least
  <2>3. m \in 0 .. Len(all) /\ ~Refilled(S, all, keys, size, m, f[m]) /\ m # 0
    BY <1>8
  <2>4. m \in 1 .. Len(all) /\ m - 1 \in 0 .. Len(all) /\ m - 1 \notin bad
    BY <2>2, <2>3, <1>5
  <2>5. Refilled(S, all, keys, size, m - 1, f[m - 1])
    BY <2>4
  <2>6. f[m] = AddLast(f[m - 1], all[m], Index(keys[all[m]], size))
    BY <1>7, <2>4
  <2> QED
    BY <2>3, <2>4, <2>5, <2>6, <1>2, <1>3, <1>4, RehashTurn
<1>10. Refilled(S, all, keys, size, Len(all), f[Len(all)])
  <2>1. Len(all) \in 0 .. Len(all)
    BY <1>5
  <2> QED
    BY <2>1, <1>9
<1>11. \A n : (\E j \in 1 .. Len(all) : all[j] = n) <=> \E d \in 1 .. Len(chains) : Holds(chains[d], n)
  BY <1>2 DEF Holds
<1> DEFINE new == IncreaseSize(chains, keys)
<1>12. new = f[Len(all)]
  BY <1>6
<1> HIDE DEF new
<1>13. /\ new \in Seq(Seq(S)) /\ Len(new) = size
       /\ \A b \in 1 .. size : Once(new[b])
       /\ \A b \in 1 .. size : \A n : Holds(new[b], n) <=>
            Index(keys[n], size) = b /\ \E d \in 1 .. Len(chains) : Holds(chains[d], n)
  BY <1>10, <1>11, <1>12 DEF Refilled
<1> QED
  BY <1>13 DEF new, size

------------------------------------------------------------------------------
(* The inductive invariant, as a predicate of each part of the table with  *)
(* the keys of its N nodes.                                                *)

KeysOf(keys, N) == N \in Nat /\ keys \in [1 .. N -> Keys \cup {NULL}]

(* The chain of a bucket has the nodes whose keys belong there, once. *)
Chained(chains, keys, N) ==
  /\ chains \in Seq(Seq(1 .. N)) /\ \E i \in 1 .. Len(Primes) : Len(chains) = Primes[i]
  /\ \A b \in 1 .. Len(chains) : Once(chains[b])
  /\ \A b \in 1 .. Len(chains) : \A n :
       Holds(chains[b], n) <=>
         n \in 1 .. N /\ keys[n] # NULL /\ Index(keys[n], Len(chains)) = b

(* The free list has the nodes without a key, once, and is never empty. *)
FreeOnes(list, keys, N) ==
  /\ list \in Seq(1 .. N) /\ Len(list) > 0 /\ Once(list)
  /\ \A n : Holds(list, n) <=> n \in 1 .. N /\ keys[n] = NULL

(* No key has two nodes. *)
Unique(keys, N) ==
  \A n, m \in 1 .. N : keys[n] = keys[m] /\ keys[n] # NULL => n = m

Used(keys, N) == {n \in 1 .. N : keys[n] # NULL}

XHashInv ==
  /\ max_rnodes \in Nat /\ FirstBlock <= max_rnodes
  /\ nb_add_rnodes \in 0 .. MaxAdd /\ state \in {"ready", "destroyed"}
  /\ value \in [1 .. Allocated -> Vals \cup {NULL}]
  /\ KeysOf(key, Allocated) /\ Unique(key, Allocated)
  /\ Chained(nodes, key, Allocated) /\ FreeOnes(free, key, Allocated)
  /\ nb = Cardinality(Used(key, Allocated))

------------------------------------------------------------------------------
(* What the operations do to the chains *)

(* The table has at least one chain, and no node is in two. *)
LEMMA ChainedFacts ==
  ASSUME NEW chains, NEW keys, NEW N, KeysOf(keys, N), Chained(chains, keys, N)
  PROVE  /\ Len(chains) \in Nat \ {0} /\ Apart(chains)
         /\ \A b \in 1 .. Len(chains) : \A n : Holds(chains[b], n) => keys[n] \in Nat
         /\ \A n \in 1 .. N : keys[n] # NULL =>
              keys[n] \in Keys /\ Index(keys[n], Len(chains)) \in 1 .. Len(chains)
<1>1. Len(chains) \in Nat \ {0}
  BY XHashAssumption DEF Chained
<1>2. \A b, c \in 1 .. Len(chains) : \A n : Holds(chains[b], n) /\ Holds(chains[c], n) => b = c
  BY DEF Chained
<1>3. Apart(chains)
  BY <1>2 DEF Apart, Chained
<1>4. \A n \in 1 .. N : keys[n] # NULL => keys[n] \in Keys /\ keys[n] \in Nat
  BY XHashAssumption DEF KeysOf
<1>5. \A b \in 1 .. Len(chains) : \A n : Holds(chains[b], n) => keys[n] \in Nat
  BY <1>4 DEF Chained
<1> QED
  BY <1>1, <1>3, <1>4, <1>5, IndexFacts

(* A table that was increased has the same nodes, each in its chain. *)
LEMMA IncreaseChained ==
  ASSUME NEW chains, NEW keys, NEW N, KeysOf(keys, N), Chained(chains, keys, N)
  PROVE  Chained(IncreaseSize(chains, keys), keys, N)
<1> DEFINE new == IncreaseSize(chains, keys)
           size == NextSize(Len(chains))
<1>1. /\ Len(chains) \in Nat \ {0} /\ Apart(chains) /\ chains \in Seq(Seq(1 .. N))
      /\ \A b \in 1 .. Len(chains) : \A n : Holds(chains[b], n) => keys[n] \in Nat
      /\ \A n \in 1 .. N : keys[n] # NULL => Index(keys[n], Len(chains)) \in 1 .. Len(chains)
  BY ChainedFacts DEF Chained
<1>2. /\ new \in Seq(Seq(1 .. N)) /\ Len(new) = size
      /\ \A b \in 1 .. size : Once(new[b])
      /\ \A b \in 1 .. size : \A n : Holds(new[b], n) <=>
           Index(keys[n], size) = b /\ \E d \in 1 .. Len(chains) : Holds(chains[d], n)
  BY <1>1, RehashFacts
<1>3. \A n : (\E d \in 1 .. Len(chains) : Holds(chains[d], n)) <=> n \in 1 .. N /\ keys[n] # NULL
  BY <1>1 DEF Chained
<1>4. \E i \in 1 .. Len(Primes) : size = Primes[i]
  BY SizeFacts
<1> HIDE DEF new, size
<1>5. Chained(new, keys, N)
  BY <1>2, <1>3, <1>4 DEF Chained
<1> QED
  BY <1>5 DEF new

(* the keys after the node x was given the key k, with M nodes by then *)
Given(keys, N, x, k, new, M) ==
  /\ KeysOf(new, M) /\ N <= M /\ new[x] = k
  /\ \A n \in 1 .. N : n # x => new[n] = keys[n]
  /\ \A n \in 1 .. M : n > N => new[n] = NULL

(* A free node that is given a key is put into the chain of that key. *)
LEMMA InsertChained ==
  ASSUME NEW chains, NEW keys, NEW N, KeysOf(keys, N), Chained(chains, keys, N),
         NEW x \in 1 .. N, keys[x] = NULL, NEW k \in Keys,
         NEW new, NEW M, Given(keys, N, x, k, new, M)
  PROVE  Chained(AddLast(chains, x, Index(k, Len(chains))), new, M)
<1> DEFINE b == Index(k, Len(chains))
           r == AddLast(chains, x, b)
<1>0. k \in Nat /\ k # NULL /\ N \in Nat /\ M \in Nat /\ N <= M
  BY XHashAssumption DEF Given, KeysOf, NULL
<1>1. /\ Len(chains) \in Nat \ {0} /\ chains \in Seq(Seq(1 .. N))
      /\ \A d \in 1 .. Len(chains) : Once(chains[d])
      /\ \A d \in 1 .. Len(chains) : \A n : Holds(chains[d], n) <=>
           n \in 1 .. N /\ keys[n] # NULL /\ Index(keys[n], Len(chains)) = d
      /\ \E i \in 1 .. Len(Primes) : Len(chains) = Primes[i]
  BY ChainedFacts DEF Chained
<1>2. b \in 1 .. Len(chains)
  BY <1>0, <1>1, IndexFacts
<1>3. 1 .. N \subseteq 1 .. M
  BY <1>0
<1>4. chains \in Seq(Seq(1 .. M)) /\ x \in 1 .. M
  <2>1. Seq(1 .. N) \subseteq Seq(1 .. M)
    BY <1>3, SequenceIn
  <2>2. chains \in Seq(Seq(1 .. M))
    BY <1>1, <2>1, SequenceIn
  <2> QED
    BY <1>3, <2>2
<1> HIDE DEF b
<1>5. Added(1 .. M, chains, x, b, r)
  BY <1>2, <1>4, AddLastFacts
<1> HIDE DEF r
<1>6. /\ r \in Seq(Seq(1 .. M)) /\ Len(r) = Len(chains) /\ r[b] = Append(chains[b], x)
      /\ \A d \in 1 .. Len(chains) : d # b => r[d] = chains[d]
  BY <1>5 DEF Added
<1>7. Once(chains[b]) /\ ~Holds(chains[b], x) /\ chains[b] \in Seq(1 .. M)
  <2>1. Once(chains[b]) /\ ~Holds(chains[b], x)
    BY <1>1, <1>2
  <2>2. chains[b] \in Seq(1 .. M)
    BY <1>2, <1>4
  <2> QED
    BY <2>1, <2>2
<1>8. Once(r[b]) /\ \A n : Holds(r[b], n) <=> Holds(chains[b], n) \/ n = x
  <2> DEFINE chain == chains[b]
  <2>1. Once(chain) /\ ~Holds(chain, x) /\ chain \in Seq(1 .. M) /\ x \in 1 .. M
    BY <1>4, <1>7
  <2> HIDE DEF chain
  <2>2. Once(Append(chain, x)) /\ \A n : Holds(Append(chain, x), n) <=> Holds(chain, n) \/ n = x
    BY <2>1, AppendFacts
  <2> QED
    BY <2>2, <1>6 DEF chain
<1>9. \A n : n # x => (n \in 1 .. M /\ new[n] # NULL <=> n \in 1 .. N /\ keys[n] # NULL)
  BY <1>0, <1>3 DEF Given
<1>10. \A n \in 1 .. N : n # x => new[n] = keys[n]
  BY DEF Given
<1>11. x \in 1 .. M /\ new[x] = k /\ new[x] # NULL /\ Index(new[x], Len(chains)) = b
  BY <1>0, <1>4 DEF Given, b
<1>12. ASSUME NEW d \in 1 .. Len(chains)
       PROVE  /\ Once(r[d])
              /\ \A n : Holds(r[d], n) <=>
                   n \in 1 .. M /\ new[n] # NULL /\ Index(new[n], Len(chains)) = d
  <2>1. CASE d = b
    <3>1. ASSUME NEW n, n # x
          PROVE  Holds(r[d], n) <=> n \in 1 .. M /\ new[n] # NULL /\ Index(new[n], Len(chains)) = d
      BY <2>1, <3>1, <1>1, <1>8, <1>9, <1>10
    <3>2. Holds(r[d], x) /\ Once(r[d])
      BY <2>1, <1>8
    <3>3. x \in 1 .. M /\ new[x] # NULL /\ Index(new[x], Len(chains)) = d
      BY <2>1, <1>11
    <3> QED
      BY <3>1, <3>2, <3>3
  <2>2. CASE d # b
    <3>1. r[d] = chains[d]
      BY <2>2, <1>6
    <3>2. ASSUME NEW n, n # x
          PROVE  Holds(r[d], n) <=> n \in 1 .. M /\ new[n] # NULL /\ Index(new[n], Len(chains)) = d
      BY <3>1, <3>2, <1>1, <1>9, <1>10
    <3>3. ~Holds(r[d], x)
      BY <3>1, <1>1
    <3> QED
      BY <2>2, <3>1, <3>2, <3>3, <1>1, <1>11
  <2> QED
    BY <2>1, <2>2
<1>13. \E i \in 1 .. Len(Primes) : Len(r) = Primes[i]
  BY <1>1, <1>6
<1>14. /\ \A d \in 1 .. Len(r) : Once(r[d])
       /\ \A d \in 1 .. Len(r) : \A n :
            Holds(r[d], n) <=> n \in 1 .. M /\ new[n] # NULL /\ Index(new[n], Len(r)) = d
  BY <1>6, <1>12
<1>15. Chained(r, new, M)
  BY <1>6, <1>13, <1>14 DEF Chained
<1> QED
  BY <1>15 DEF r, b

(* A node taken out of its chain loses its key, and the others stay. *)
LEMMA RemoveChained ==
  ASSUME NEW chains, NEW keys, NEW N, KeysOf(keys, N), Chained(chains, keys, N),
         NEW b \in 1 .. Len(chains), NEW p \in 1 .. Len(chains[b]),
         NEW new, new = [keys EXCEPT ![chains[b][p]] = NULL]
  PROVE  Chained([chains EXCEPT ![b] = RemoveAt(chains[b], p)], new, N)
<1> DEFINE x == chains[b][p]
           chain == chains[b]
           r == [chains EXCEPT ![b] = RemoveAt(chain, p)]
<1>1. /\ Len(chains) \in Nat \ {0} /\ chains \in Seq(Seq(1 .. N)) /\ N \in Nat
      /\ keys \in [1 .. N -> Keys \cup {NULL}]
      /\ \A d \in 1 .. Len(chains) : Once(chains[d])
      /\ \A d \in 1 .. Len(chains) : \A n : Holds(chains[d], n) <=>
           n \in 1 .. N /\ keys[n] # NULL /\ Index(keys[n], Len(chains)) = d
      /\ \E i \in 1 .. Len(Primes) : Len(chains) = Primes[i]
  BY ChainedFacts, SMTT(30) DEF Chained, KeysOf
<1>2. chain \in Seq(1 .. N) /\ Once(chain)
  BY <1>1
<1>3. Holds(chain, x) /\ p \in 1 .. Len(chain) /\ chain[p] = x
  BY DEF Holds
<1>4. x \in 1 .. N /\ Index(keys[x], Len(chains)) = b
  BY <1>1, <1>3
<1>5. /\ new[x] = NULL /\ \A n \in 1 .. N : n # x => new[n] = keys[n]
  BY <1>1, <1>4
<1> HIDE DEF x, chain
<1>6. /\ RemoveAt(chain, p) \in Seq(1 .. N) /\ Once(RemoveAt(chain, p))
      /\ \A n : Holds(RemoveAt(chain, p), n) <=> Holds(chain, n) /\ n # x
  BY <1>2, <1>3, RemoveFacts
<1>7. /\ r \in Seq(Seq(1 .. N)) /\ Len(r) = Len(chains) /\ r[b] = RemoveAt(chain, p)
      /\ \A d \in 1 .. Len(chains) : d # b => r[d] = chains[d]
  BY <1>1, <1>6
<1> HIDE DEF r
<1>8. ASSUME NEW d \in 1 .. Len(chains)
      PROVE  /\ Once(r[d])
             /\ \A n : Holds(r[d], n) <=>
                  n \in 1 .. N /\ new[n] # NULL /\ Index(new[n], Len(chains)) = d
  <2>1. CASE d = b
    <3>1. Once(r[d]) /\ \A n : Holds(r[d], n) <=> Holds(chains[d], n) /\ n # x
      BY <2>1, <1>6, <1>7 DEF chain
    <3> QED
      BY <3>1, <1>1, <1>5
  <2>2. CASE d # b
    <3>1. r[d] = chains[d] /\ ~Holds(chains[d], x)
      BY <2>2, <1>1, <1>4, <1>7
    <3> QED
      BY <3>1, <1>1, <1>5
  <2> QED
    BY <2>1, <2>2
<1>9. \E i \in 1 .. Len(Primes) : Len(r) = Primes[i]
  BY <1>1, <1>7
<1>10. /\ \A d \in 1 .. Len(r) : Once(r[d])
       /\ \A d \in 1 .. Len(r) : \A n :
            Holds(r[d], n) <=> n \in 1 .. N /\ new[n] # NULL /\ Index(new[n], Len(r)) = d
  BY <1>7, <1>8
<1>11. Chained(r, new, N)
  BY <1>7, <1>9, <1>10 DEF Chained
<1> QED
  BY <1>11 DEF r, chain

------------------------------------------------------------------------------
(* What they do to the free list and to the number of elements *)

(* A node given out was free, and another one is left. *)
LEMMA TailFree ==
  ASSUME NEW list, NEW keys, NEW N, KeysOf(keys, N), FreeOnes(list, keys, N), Len(list) > 1,
         NEW k \in Keys, NEW new, Given(keys, N, Head(list), k, new, N)
  PROVE  FreeOnes(Tail(list), new, N)
<1> DEFINE x == Head(list)
           r == Tail(list)
<1>0. k # NULL
  BY XHashAssumption DEF NULL
<1>1. list \in Seq(1 .. N) /\ Once(list) /\ Len(list) \in Nat /\ Len(list) > 1 /\ x = list[1]
  BY DEF FreeOnes
<1>2. r \in Seq(1 .. N) /\ Len(r) = Len(list) - 1 /\ \A i \in 1 .. Len(r) : r[i] = list[i + 1]
  BY <1>1
<1> HIDE DEF x, r
<1>3. \A i \in 1 .. Len(r) : i + 1 \in 1 .. Len(list) /\ i + 1 # 1 /\ i \in Int
  BY <1>1, <1>2
<1>4. Once(r)
  <2> SUFFICES ASSUME NEW i \in 1 .. Len(r), NEW j \in 1 .. Len(r), r[i] = r[j] PROVE i = j
    BY DEF Once
  <2>1. i + 1 = j + 1
    BY <1>1, <1>2, <1>3 DEF Once
  <2> QED
    BY <2>1, <1>3
<1>5. \A n : Holds(r, n) <=> Holds(list, n) /\ n # x
  <2>1. ASSUME NEW i \in 1 .. Len(r) PROVE Holds(list, r[i]) /\ r[i] # x
    <3>1. 1 \in 1 .. Len(list)
      BY <1>1
    <3> QED
      BY <3>1, <1>1, <1>2, <1>3 DEF Once, Holds
  <2>2. ASSUME NEW i \in 1 .. Len(list), list[i] # x PROVE Holds(r, list[i])
    <3>1. i # 1
      BY <2>2, <1>1
    <3>2. i - 1 \in 1 .. Len(r) /\ (i - 1) + 1 = i
      BY <3>1, <1>1, <1>2
    <3> QED
      BY <3>2, <1>2 DEF Holds
  <2> QED
    BY <2>1, <2>2 DEF Holds
<1>6. 1 \in 1 .. Len(list)
  BY <1>1
<1>7. x \in 1 .. N
  BY <1>1, <1>6, ElementOfSeq
<1>8. new[x] = k /\ \A n \in 1 .. N : n # x => new[n] = keys[n]
  BY DEF Given, x
<1>9. \A n : Holds(list, n) <=> n \in 1 .. N /\ keys[n] = NULL
  BY DEF FreeOnes
<1>10. \A n : Holds(r, n) <=> n \in 1 .. N /\ new[n] = NULL
  BY <1>0, <1>5, <1>7, <1>8, <1>9
<1>11. FreeOnes(r, new, N)
  BY <1>1, <1>2, <1>4, <1>10 DEF FreeOnes
<1> QED
  BY <1>11 DEF r

(* The last free node given out: all nodes of the new block are free, and  *)
(* no others are.                                                          *)
LEMMA BlockFree ==
  ASSUME NEW list, NEW keys, NEW N, KeysOf(keys, N), FreeOnes(list, keys, N), Len(list) = 1,
         NEW k \in Keys, NEW new, NEW size \in Nat \ {0},
         Given(keys, N, Head(list), k, new, N + size)
  PROVE  FreeOnes([n \in 1 .. size |-> N + n], new, N + size)
<1> DEFINE x == Head(list)
           r == [n \in 1 .. size |-> N + n]
           M == N + size
<1>0. k # NULL /\ N \in Nat /\ M \in Nat
  BY XHashAssumption DEF NULL, KeysOf
<1>1. list \in Seq(1 .. N) /\ x = list[1] /\ 1 .. Len(list) = {1}
  BY DEF FreeOnes
<1>2. r \in [1 .. size -> 1 .. M] /\ \A i \in 1 .. size : r[i] = N + i
  <2>1. \A i \in 1 .. size : N + i \in 1 .. M
    BY <1>0
  <2> HIDE DEF M
  <2> QED
    BY <2>1
<1>3. r \in Seq(1 .. M) /\ Len(r) = size
  BY <1>2, SequenceOf
<1> HIDE DEF r
<1>4. Once(r)
  BY <1>0, <1>2, <1>3 DEF Once
<1>5. \A n : Holds(r, n) <=> n \in 1 .. M /\ n > N
  <2>1. ASSUME NEW i \in 1 .. size PROVE r[i] \in 1 .. M /\ r[i] > N
    BY <1>0, <1>2
  <2>2. ASSUME NEW n \in 1 .. M, n > N PROVE Holds(r, n)
    <3>1. n - N \in 1 .. size /\ N + (n - N) = n
      BY <2>2, <1>0
    <3> QED
      BY <3>1, <1>2, <1>3 DEF Holds
  <2> QED
    BY <2>1, <2>2, <1>3 DEF Holds
<1>6. \A n \in 1 .. N : keys[n] = NULL => n = x
  BY <1>1 DEF FreeOnes, Holds
<1>7. /\ new[x] = k /\ \A n \in 1 .. N : n # x => new[n] = keys[n]
      /\ \A n \in 1 .. M : n > N => new[n] = NULL
  BY DEF Given
<1>8. \A n \in 1 .. M : ~(n > N) => n \in 1 .. N
  BY <1>0
<1> HIDE DEF x, M
<1>9. \A n \in 1 .. N : new[n] # NULL
  BY <1>0, <1>6, <1>7
<1>10. \A n : Holds(r, n) <=> n \in 1 .. M /\ new[n] = NULL
  BY <1>5, <1>7, <1>8, <1>9
<1>11. FreeOnes(r, new, M)
  BY <1>3, <1>4, <1>10 DEF FreeOnes
<1> QED
  BY <1>11 DEF r, M

(* A node given back comes first in the free list. *)
LEMMA BackFree ==
  ASSUME NEW list, NEW keys, NEW N, KeysOf(keys, N), FreeOnes(list, keys, N),
         NEW x \in 1 .. N, keys[x] # NULL, NEW new, new = [keys EXCEPT ![x] = NULL]
  PROVE  FreeOnes(<<x>> \o list, new, N)
<1> DEFINE one == <<x>>
           r == one \o list
<1>1. /\ list \in Seq(1 .. N) /\ Once(list) /\ Len(list) \in Nat /\ Len(list) > 0
      /\ keys \in [1 .. N -> Keys \cup {NULL}]
  BY DEF FreeOnes, KeysOf
<1>2. one \in Seq(1 .. N) /\ Len(one) = 1 /\ one[1] = x
  OBVIOUS
<1>3. Len(r) = Len(list) + 1
  BY <1>1, <1>2
<1> HIDE DEF one
<1>4. Once(one) /\ \A n : Holds(one, n) <=> n = x
  BY <1>2 DEF Once, Holds
<1>5. ~Holds(list, x)
  BY DEF FreeOnes
<1>6. /\ r \in Seq(1 .. N) /\ Once(r)
      /\ \A n : Holds(r, n) <=> n = x \/ Holds(list, n)
  BY <1>1, <1>2, <1>4, <1>5, ConcatFacts
<1> HIDE DEF r
<1>7. new[x] = NULL /\ \A n \in 1 .. N : n # x => new[n] = keys[n]
  BY <1>1
<1>8. \A n : Holds(r, n) <=> n \in 1 .. N /\ new[n] = NULL
  BY <1>6, <1>7 DEF FreeOnes
<1>9. FreeOnes(r, new, N)
  BY <1>1, <1>3, <1>6, <1>8 DEF FreeOnes
<1> QED
  BY <1>9 DEF r, one

(* The nodes in use are finitely many. *)
LEMMA UsedFinite ==
  ASSUME NEW keys, NEW N \in Nat
  PROVE  IsFiniteSet(Used(keys, N)) /\ Cardinality(Used(keys, N)) \in Nat
<1>1. IsFiniteSet(1 .. N)
  BY FS_Interval
<1>2. Used(keys, N) \subseteq 1 .. N
  BY DEF Used
<1>3. IsFiniteSet(Used(keys, N))
  BY <1>1, <1>2, FS_Subset
<1> QED
  BY <1>3, FS_CardinalityType

(* One more, when a free node is given a key ... *)
LEMMA OneMore ==
  ASSUME NEW keys, NEW N, KeysOf(keys, N), NEW x \in 1 .. N, keys[x] = NULL,
         NEW k \in Keys, NEW new, NEW M, Given(keys, N, x, k, new, M)
  PROVE  Cardinality(Used(new, M)) = Cardinality(Used(keys, N)) + 1
<1>0. k # NULL /\ N \in Nat /\ M \in Nat /\ N <= M
  BY XHashAssumption DEF NULL, KeysOf, Given
<1>1. \A n \in 1 .. N : n \in 1 .. M
  BY <1>0
<1>2. \A n \in 1 .. M : ~(n > N) => n \in 1 .. N
  BY <1>0
<1>3. Used(new, M) = Used(keys, N) \cup {x}
  BY <1>0, <1>1, <1>2 DEF Used, Given
<1>4. x \notin Used(keys, N) /\ IsFiniteSet(Used(keys, N))
  BY <1>0, UsedFinite DEF Used
<1> QED
  BY <1>3, <1>4, FS_AddElement

(* ... and one less, when it is given back. *)
LEMMA OneLess ==
  ASSUME NEW keys, NEW N, KeysOf(keys, N), NEW x \in 1 .. N, keys[x] # NULL,
         NEW new, new = [keys EXCEPT ![x] = NULL]
  PROVE  Cardinality(Used(new, N)) = Cardinality(Used(keys, N)) - 1
<1>1. new[x] = NULL /\ \A n \in 1 .. N : n # x => new[n] = keys[n]
  BY DEF KeysOf
<1>2. Used(new, N) = Used(keys, N) \ {x} /\ x \in Used(keys, N)
  BY <1>1 DEF Used
<1>3. IsFiniteSet(Used(keys, N))
  BY UsedFinite DEF KeysOf
<1> QED
  BY <1>2, <1>3, FS_RemoveElement

------------------------------------------------------------------------------
(* Lookup *)

(* what a lookup comes to *)
Found(k) ==
  \/ /\ LookupNode(k) = NULL
     /\ \A n \in 1 .. Allocated : key[n] # k
  \/ /\ LookupNode(k) \in 1 .. Allocated /\ LookupNode(k) # NULL /\ key[LookupNode(k)] = k
     /\ Bucket(k) \in 1 .. Len(nodes) /\ Place(k) \in 1 .. Len(nodes[Bucket(k)])
     /\ LookupNode(k) = nodes[Bucket(k)][Place(k)]

(* A lookup finds the node that has the key, wherever the re-hashes have   *)
(* put it, and nothing if no node has it.                                  *)
LEMMA LookupFacts == XHashInv => \A k \in Keys : Found(k)
<1> SUFFICES ASSUME XHashInv, NEW k \in Keys PROVE Found(k)
  OBVIOUS
<1> DEFINE b == Bucket(k)
           chain == nodes[b]
           places == {i \in 1 .. Len(chain) : key[chain[i]] = k}
<1>0. KeysOf(key, Allocated) /\ Chained(nodes, key, Allocated) /\ Allocated \in Nat
  BY DEF XHashInv, KeysOf
<1>1. Len(nodes) \in Nat \ {0} /\ nodes \in Seq(Seq(1 .. Allocated))
  BY <1>0, ChainedFacts DEF Chained
<1>2. k \in Nat /\ k # NULL
  BY XHashAssumption DEF NULL
<1>3. b \in 1 .. Len(nodes) /\ b = Index(k, Len(nodes))
  BY <1>1, <1>2, IndexFacts DEF Bucket
<1>4. \A n : Holds(chain, n) <=>
        n \in 1 .. Allocated /\ key[n] # NULL /\ Index(key[n], Len(nodes)) = b
  BY <1>0, <1>3 DEF Chained
<1>5. chain \in Seq(1 .. Allocated) /\ Len(chain) \in Nat
  BY <1>1, <1>3
<1>6. Place(k) = IF places # {} THEN Min(places) ELSE 0
  BY DEF Place, SelectInSeq
<1>7. LookupNode(k) = IF Place(k) = 0 THEN NULL ELSE chain[Place(k)]
  BY DEF LookupNode
<1>8. places \subseteq Nat
  BY <1>5
<1> HIDE DEF b, chain
<1>9. CASE places = {}
  <2>1. LookupNode(k) = NULL
    BY <1>6, <1>7, <1>9
  <2>2. ASSUME NEW n \in 1 .. Allocated, key[n] = k PROVE FALSE
    <3>1. Holds(chain, n)
      BY <2>2, <1>2, <1>3, <1>4
    <3> QED
      BY <3>1, <2>2, <1>9 DEF Holds
  <2> QED
    BY <2>1, <2>2 DEF Found
<1>10. CASE places # {}
  <2>1. \E x \in places : \A y \in places : x <= y
    BY <1>8, <1>10, Least
  <2>2. Min(places) \in places
    <3> HIDE DEF places
    <3> QED
      BY <2>1 DEF Min
  <2>3. Place(k) \in 1 .. Len(chain) /\ key[chain[Place(k)]] = k
    BY <2>2, <1>6, <1>10
  <2>4. Place(k) # 0
    BY <2>3, <1>5
  <2>5. LookupNode(k) = chain[Place(k)]
    BY <2>4, <1>7
  <2>6. Holds(chain, LookupNode(k))
    BY <2>3, <2>5 DEF Holds
  <2>7. LookupNode(k) \in 1 .. Allocated
    BY <2>6, <1>4
  <2>8. LookupNode(k) # NULL
    BY <2>7, <1>0 DEF NULL
  <2> QED
    BY <2>3, <2>5, <2>7, <2>8, <1>3 DEF Found, b, chain
<1> QED
  BY <1>9, <1>10

------------------------------------------------------------------------------
(* The invariant holds *)

(* fc_hash_new makes an empty table. *)
LEMMA XHashInitially == Init => XHashInv
<1> SUFFICES ASSUME Init PROVE XHashInv
  OBVIOUS
<1> USE XHashAssumption
<1>1. Allocated = FirstBlock /\ FirstBlock \in Nat \ {0}
  BY DEF Init, Allocated
<1>2. /\ max_rnodes \in Nat /\ FirstBlock <= max_rnodes
      /\ nb_add_rnodes \in 0 .. MaxAdd /\ state \in {"ready", "destroyed"}
  BY DEF Init
<1>3. key = [n \in 1 .. FirstBlock |-> NULL] /\ value = [n \in 1 .. FirstBlock |-> NULL]
  BY DEF Init
<1>4. value \in [1 .. Allocated -> Vals \cup {NULL}] /\ KeysOf(key, Allocated)
  BY <1>1, <1>3 DEF KeysOf
<1>5. \A n \in 1 .. Allocated : key[n] = NULL
  BY <1>1, <1>3
<1>6. Unique(key, Allocated)
  BY <1>5 DEF Unique
<1>7. Used(key, Allocated) = {} /\ nb = 0
  BY <1>5 DEF Used, Init
<1>8. nb = Cardinality(Used(key, Allocated))
  BY <1>7, FS_EmptySet
<1>9. 1 \in 1 .. Len(Primes) /\ Primes[1] \in Nat \ {0}
  OBVIOUS
<1>10. nodes = [b \in 1 .. Primes[1] |-> <<>>]
  BY DEF Init
<1>11. nodes \in [1 .. Primes[1] -> Seq(1 .. Allocated)]
  BY <1>10
<1>12. nodes \in Seq(Seq(1 .. Allocated)) /\ Len(nodes) = Primes[1]
  BY <1>9, <1>11, SequenceOf
<1>13. \A b \in 1 .. Len(nodes) : Once(nodes[b]) /\ \A n : ~Holds(nodes[b], n)
  <2>1. \A b \in 1 .. Len(nodes) : nodes[b] = <<>>
    BY <1>10, <1>12
  <2>2. 1 .. Len(<<>>) = {}
    OBVIOUS
  <2> QED
    BY <2>1, <2>2 DEF Once, Holds
<1>14. Chained(nodes, key, Allocated)
  BY <1>5, <1>9, <1>12, <1>13 DEF Chained
<1>15. free = [n \in 1 .. FirstBlock |-> n]
  BY DEF Init
<1>16. free \in Seq(1 .. Allocated) /\ Len(free) = FirstBlock
  <2>1. free \in [1 .. FirstBlock -> 1 .. Allocated]
    BY <1>1, <1>15
  <2> QED
    BY <2>1, <1>1, SequenceOf
<1>17. FreeOnes(free, key, Allocated)
  BY <1>1, <1>5, <1>15, <1>16 DEF FreeOnes, Once, Holds
<1> QED
  BY <1>2, <1>4, <1>6, <1>8, <1>14, <1>17 DEF XHashInv

(* The first free node. *)
LEMMA HeadFree ==
  ASSUME XHashInv
  PROVE  /\ Head(free) \in 1 .. Allocated /\ key[Head(free)] = NULL
         /\ Allocated \in Nat /\ Len(free) \in Nat \ {0}
<1>1. FreeOnes(free, key, Allocated) /\ Allocated \in Nat
  BY DEF XHashInv, KeysOf
<1>2. free \in Seq(1 .. Allocated) /\ Len(free) \in Nat /\ Len(free) > 0
  BY <1>1 DEF FreeOnes
<1>3. Head(free) = free[1] /\ 1 \in 1 .. Len(free)
  BY <1>2
<1>4. Holds(free, Head(free))
  BY <1>3 DEF Holds
<1> QED
  BY <1>1, <1>2, <1>4 DEF FreeOnes

(* An insertion gives its key and value to the first free node. *)
LEMMA InsertGives ==
  ASSUME XHashInv, NEW k \in Keys, NEW v \in Vals, Insert(k, v)
  PROVE  /\ Given(key, Allocated, Head(free), k, key', Allocated')
         /\ value' \in [1 .. Allocated' -> Vals \cup {NULL}] /\ value'[Head(free)] = v
         /\ \A n \in 1 .. Allocated : n # Head(free) => value'[n] = value[n]
<1> DEFINE x == Head(free)
           N == Allocated
           M == Allocated'
<1>1. x \in 1 .. N /\ N \in Nat
  BY HeadFree
<1>2. M \in Nat /\ N <= M
  <2>1. /\ max_rnodes \in Nat /\ FirstBlock \in Nat /\ FirstBlock <= max_rnodes
        /\ max_rnodes' = max_rnodes \/ max_rnodes' = 2 * max_rnodes
    BY XHashAssumption DEF XHashInv, Insert
  <2> QED
    BY ONLY <2>1 DEF Allocated
<1>3. /\ key' = [n \in 1 .. M |-> IF n = x THEN k ELSE IF n <= N THEN key[n] ELSE NULL]
      /\ value' = [n \in 1 .. M |-> IF n = x THEN v ELSE IF n <= N THEN value[n] ELSE NULL]
  BY DEF Insert
<1>4. key \in [1 .. N -> Keys \cup {NULL}] /\ value \in [1 .. N -> Vals \cup {NULL}]
  BY DEF XHashInv, KeysOf
<1> HIDE DEF x, N, M
<1>5. \A n \in 1 .. M : n <= N => n \in 1 .. N
  BY <1>1, <1>2
<1>6. \A n \in 1 .. N : n \in 1 .. M /\ n <= N
  BY <1>1, <1>2
<1>7. KeysOf(key', M)
  <2>1. \A n \in 1 .. M : (IF n = x THEN k ELSE IF n <= N THEN key[n] ELSE NULL) \in Keys \cup {NULL}
    BY <1>4, <1>5
  <2> QED
    BY <2>1, <1>2, <1>3 DEF KeysOf
<1>8. value' \in [1 .. M -> Vals \cup {NULL}]
  <2>1. \A n \in 1 .. M : (IF n = x THEN v ELSE IF n <= N THEN value[n] ELSE NULL) \in Vals \cup {NULL}
    BY <1>4, <1>5
  <2> QED
    BY <2>1, <1>3
<1>9. key'[x] = k /\ value'[x] = v
  BY <1>1, <1>3, <1>6
<1>10. \A n \in 1 .. N : n # x => key'[n] = key[n] /\ value'[n] = value[n]
  BY <1>3, <1>6
<1>11. \A n \in 1 .. M : n > N => key'[n] = NULL
  <2>1. \A n \in 1 .. M : n > N => ~(n <= N) /\ n # x
    BY <1>1, <1>2
  <2> QED
    BY <2>1, <1>3
<1>12. Given(key, N, x, k, key', M)
  BY <1>2, <1>7, <1>9, <1>10, <1>11 DEF Given
<1> QED
  BY <1>8, <1>9, <1>10, <1>12 DEF x, N, M

(* fc_hash_insert of a new key. *)
LEMMA InsertStep ==
  ASSUME XHashInv, NEW k \in Keys, NEW v \in Vals, Insert(k, v)
  PROVE  XHashInv'
<1> DEFINE x == Head(free)
           N == Allocated
           M == Allocated'
<1>1. /\ x \in 1 .. N /\ key[x] = NULL /\ N \in Nat /\ Len(free) \in Nat \ {0}
      /\ KeysOf(key, N) /\ Unique(key, N) /\ Chained(nodes, key, N) /\ FreeOnes(free, key, N)
      /\ nb = Cardinality(Used(key, N))
      /\ max_rnodes \in Nat /\ FirstBlock <= max_rnodes /\ nb_add_rnodes \in 0 .. MaxAdd
  BY HeadFree DEF XHashInv
<1>2. /\ Given(key, N, x, k, key', M) /\ value' \in [1 .. M -> Vals \cup {NULL}]
  BY InsertGives
<1>3. KeysOf(key', M) /\ k # NULL /\ FirstBlock \in Nat /\ MaxAdd \in Nat
  BY <1>2, XHashAssumption DEF Given, NULL
<1>4. M \in Nat /\ N <= M
  BY <1>2, <1>3 DEF Given, KeysOf
<1>5. /\ max_rnodes' \in Nat /\ FirstBlock <= max_rnodes' /\ nb_add_rnodes' \in 0 .. MaxAdd
      /\ state' \in {"ready", "destroyed"}
  BY <1>1, <1>3 DEF Insert
<1>6. \A n \in 1 .. N : key[n] # k
  BY LookupFacts DEF Insert, Found
<1>7. Unique(key', M)
  <2> SUFFICES ASSUME NEW n \in 1 .. M, NEW m \in 1 .. M, key'[n] = key'[m], key'[n] # NULL
               PROVE  n = m
    BY DEF Unique
  <2> HIDE DEF x, N, M
  <2>1. n \in 1 .. N /\ m \in 1 .. N
    <3>1. ~(n > N) /\ ~(m > N)
      BY <1>2 DEF Given
    <3> QED
      BY <3>1, <1>1, <1>4
  <2>2. key'[x] = k /\ \A j \in 1 .. N : j # x => key'[j] = key[j]
    BY <1>2 DEF Given
  <2> QED
    BY <2>1, <2>2, <1>1, <1>6 DEF Unique
<1> DEFINE chains == AddLast(nodes, x, Bucket(k))
<1>8. Chained(chains, key', M)
  <2> HIDE DEF x, N, M
  <2> QED
    BY <1>1, <1>2, InsertChained DEF Bucket
<1>9. Chained(nodes', key', M)
  <2>1. nodes' = chains \/ nodes' = IncreaseSize(chains, key')
    BY DEF Insert
  <2> HIDE DEF chains, M
  <2> QED
    BY <2>1, <1>3, <1>8, IncreaseChained
<1>10. FreeOnes(free', key', M)
  <2>1. CASE Len(free) > 1
    <3>1. free' = Tail(free) /\ M = N
      BY <2>1 DEF Insert, NextFree, Allocated
    <3> HIDE DEF x, N, M
    <3> QED
      BY <3>1, <2>1, <1>1, <1>2, TailFree DEF x
  <2>2. CASE ~(Len(free) > 1)
    <3>1. Len(free) = 1
      BY <2>2, <1>1
    <3> DEFINE size == 2 * max_rnodes
    <3>2. size \in Nat \ {0}
      BY <1>1, XHashAssumption
    <3>3. free' = [n \in 1 .. size |-> N + n]
      BY <2>2 DEF Insert, NextFree
    <3>4. M = N + size
      BY <2>2, <1>1, <1>3 DEF Insert, Allocated
    <3>5. Given(key, N, Head(free), k, key', N + size)
      <4> HIDE DEF N, size
      <4> QED
        BY <3>4, <1>2
    <3> HIDE DEF x, N, M, size
    <3>6. FreeOnes([n \in 1 .. size |-> N + n], key', N + size)
      BY <3>1, <3>2, <3>5, <1>1, BlockFree
    <3> QED
      BY <3>3, <3>4, <3>6
  <2> QED
    BY <2>1, <2>2
<1>11. nb' = Cardinality(Used(key', M))
  <2>1. nb' = nb + 1
    BY DEF Insert
  <2> HIDE DEF x, N, M
  <2>2. Cardinality(Used(key', M)) = Cardinality(Used(key, N)) + 1
    BY <1>1, <1>2, OneMore
  <2> QED
    BY <2>1, <2>2, <1>1
<1> QED
  BY <1>2, <1>3, <1>5, <1>7, <1>9, <1>10, <1>11 DEF XHashInv

(* fc_hash_remove. *)
LEMMA RemoveStep ==
  ASSUME XHashInv, NEW k \in Keys, RemoveKey(k)
  PROVE  XHashInv'
<1> DEFINE x == LookupNode(k)
           N == Allocated
           b == Bucket(k)
           p == Place(k)
<1>1. /\ KeysOf(key, N) /\ Unique(key, N) /\ Chained(nodes, key, N) /\ FreeOnes(free, key, N)
      /\ nb = Cardinality(Used(key, N))
  BY DEF XHashInv
<1>2. /\ x \in 1 .. N /\ key[x] = k /\ k # NULL /\ x = nodes[b][p]
      /\ b \in 1 .. Len(nodes) /\ p \in 1 .. Len(nodes[b])
  BY LookupFacts, XHashAssumption DEF RemoveKey, Found, NULL
<1>3. /\ nodes' = [nodes EXCEPT ![b] = RemoveAt(nodes[b], p)]
      /\ free' = <<x>> \o free /\ key' = [key EXCEPT ![x] = NULL] /\ nb' = nb - 1
      /\ UNCHANGED <<value, max_rnodes, nb_add_rnodes, state>>
  BY DEF RemoveKey
<1>4. Allocated' = N
  BY <1>3 DEF Allocated
<1> HIDE DEF x, N, b, p
<1>5. /\ N \in Nat /\ KeysOf(key', N)
      /\ key'[x] = NULL /\ \A n \in 1 .. N : n # x => key'[n] = key[n]
  BY <1>1, <1>2, <1>3 DEF KeysOf
<1>6. Unique(key', N)
  BY <1>1, <1>5 DEF Unique
<1>7. Chained(nodes', key', N)
  BY <1>1, <1>2, <1>3, RemoveChained
<1>8. FreeOnes(free', key', N)
  BY <1>1, <1>2, <1>3, BackFree
<1>9. nb' = Cardinality(Used(key', N))
  <2>1. Cardinality(Used(key', N)) = Cardinality(Used(key, N)) - 1
    BY <1>1, <1>2, <1>3, OneLess
  <2> QED
    BY <2>1, <1>1, <1>3
<1>10. /\ max_rnodes' \in Nat /\ FirstBlock <= max_rnodes'
       /\ nb_add_rnodes' \in 0 .. MaxAdd /\ state' \in {"ready", "destroyed"}
       /\ value' \in [1 .. N -> Vals \cup {NULL}]
  BY <1>3 DEF XHashInv, N
<1> QED
  BY <1>4, <1>5, <1>6, <1>7, <1>8, <1>9, <1>10 DEF XHashInv

(* A change of what a key holds. *)
LEMMA KnownStep ==
  ASSUME XHashInv, NEW k \in Keys, NEW v \in Vals, InsertKnown(k, v)
  PROVE  XHashInv'
<1>1. LookupNode(k) \in 1 .. Allocated
  BY LookupFacts DEF InsertKnown, Found
<1>2. Allocated' = Allocated
  BY DEF InsertKnown, Allocated
<1>3. value' \in [1 .. Allocated' -> Vals \cup {NULL}]
  BY <1>1, <1>2 DEF InsertKnown, XHashInv
<1> QED
  BY <1>2, <1>3 DEF InsertKnown, XHashInv

(* Every step keeps the invariant. *)
LEMMA XHashStep == XHashInv /\ [Next]_vars => XHashInv'
<1> SUFFICES ASSUME XHashInv, [Next]_vars PROVE XHashInv'
  OBVIOUS
<1>1. ASSUME NEW k \in Keys, InsertFails(k) PROVE XHashInv'
  <2>1. Allocated' = Allocated
    BY <1>1 DEF InsertFails, Allocated
  <2> QED
    BY <1>1, <2>1 DEF InsertFails, XHashInv
<1>2. CASE UNCHANGED vars
  <2>1. Allocated' = Allocated
    BY <1>2 DEF vars, Allocated
  <2> QED
    BY <1>2, <2>1 DEF vars, XHashInv
<1> QED
  BY <1>1, <1>2, InsertStep, RemoveStep, KnownStep DEF Next

(* The inductive invariant of the hash-table. *)
LEMMA XHashInvariance == Spec => []XHashInv
BY XHashInitially, XHashStep, PTL DEF Spec

------------------------------------------------------------------------------
(* What the steps do to the nodes of the keys *)

(* the node with a key is the one that a lookup finds *)
NodeOf(k) ==
  /\ \A n \in 1 .. Allocated : key[n] = k => LookupNode(k) = n
  /\ LookupNode(k) # NULL => LookupNode(k) \in 1 .. Allocated /\ key[LookupNode(k)] = k

(* Between two operations, this is so for every key. *)
LEMMA NodesFound == XHashInv => \A k \in Keys : NodeOf(k)
<1> SUFFICES ASSUME XHashInv, NEW k \in Keys PROVE NodeOf(k)
  OBVIOUS
<1>1. Found(k) /\ Unique(key, Allocated) /\ k # NULL
  BY LookupFacts, XHashAssumption DEF XHashInv, NULL
<1> QED
  BY <1>1 DEF Found, Unique, NodeOf

(* the same in the next state *)
LEMMA NodesFoundNext == XHashInv' => \A k \in Keys : NodeOf(k)'
<1>1. XHashInv' => (\A k \in Keys : NodeOf(k))'
  BY NodesFound, PTL
<1> QED
  BY <1>1

(* An insertion gives its key the first free node; other keys keep theirs. *)
LEMMA InsertNodes ==
  ASSUME XHashInv, XHashInv', NEW k \in Keys, NEW v \in Vals, Insert(k, v), NEW j \in Keys
  PROVE  /\ LookupNode(j)' = IF j = k THEN Head(free) ELSE LookupNode(j)
         /\ j # k /\ LookupNode(j) # NULL => value'[LookupNode(j)] = value[LookupNode(j)]
         /\ value'[Head(free)] = v
<1> DEFINE x == Head(free)
           N == Allocated
           M == Allocated'
           old == LookupNode(j)
           new == LookupNode(j)'
<1>1. /\ x \in 1 .. N /\ key[x] = NULL /\ N \in Nat
      /\ Given(key, N, x, k, key', M) /\ value'[x] = v
      /\ \A n \in 1 .. N : n # x => value'[n] = value[n]
  BY HeadFree, InsertGives
<1>2. /\ \A n \in 1 .. N : key[n] = j => old = n
      /\ old # NULL => old \in 1 .. N /\ key[old] = j
  BY NodesFound DEF NodeOf
<1>3. /\ \A n \in 1 .. M : key'[n] = j => new = n
      /\ new # NULL => new \in 1 .. M /\ key'[new] = j
  BY NodesFoundNext DEF NodeOf
<1>4. j # NULL
  BY XHashAssumption DEF NULL
<1> HIDE DEF x, N, M, old, new
<1>5. M \in Nat /\ N <= M
  BY <1>1 DEF Given, KeysOf
<1>6. /\ key'[x] = k /\ \A n \in 1 .. N : n # x => key'[n] = key[n]
      /\ \A n \in 1 .. M : n > N => key'[n] = NULL
  BY <1>1 DEF Given
<1>7. \A n \in 1 .. N : n \in 1 .. M
  BY <1>1, <1>5
<1>8. \A n \in 1 .. M : ~(n > N) => n \in 1 .. N
  BY <1>1, <1>5
<1>9. CASE j = k
  BY <1>9, <1>1, <1>3, <1>6, <1>7 DEF x, new
<1>10. CASE j # k
  <2>1. CASE old # NULL
    <3>1. old \in 1 .. N /\ old # x
      BY <2>1, <1>1, <1>2, <1>4
    <3>2. new = old /\ value'[old] = value[old]
      BY <3>1, <1>1, <1>2, <1>3, <1>6, <1>7, <2>1
    <3> QED
      BY <3>2, <1>1, <1>10 DEF x, new, old
  <2>2. CASE old = NULL
    <3>1. new = NULL
      <4> SUFFICES ASSUME new # NULL PROVE FALSE
        OBVIOUS
      <4>1. new \in 1 .. M /\ key'[new] = j
        BY <1>3
      <4>2. new \in 1 .. N /\ new # x
        BY <4>1, <1>4, <1>6, <1>8, <1>10
      <4>3. key[new] = j
        BY <4>1, <4>2, <1>6
      <4> QED
        BY <4>2, <4>3, <1>2, <2>2
    <3> QED
      BY <2>2, <3>1, <1>1, <1>10 DEF x, new, old
  <2> QED
    BY <2>1, <2>2
<1> QED
  BY <1>9, <1>10

(* A removal takes the node of its key away; other keys keep theirs. *)
LEMMA RemoveNodes ==
  ASSUME XHashInv, XHashInv', NEW k \in Keys, RemoveKey(k), NEW j \in Keys
  PROVE  LookupNode(j)' = IF j = k THEN NULL ELSE LookupNode(j)
<1> DEFINE x == LookupNode(k)
           N == Allocated
           old == LookupNode(j)
           new == LookupNode(j)'
<1>1. x # NULL /\ key' = [key EXCEPT ![x] = NULL] /\ Allocated' = N
  BY DEF RemoveKey, Allocated
<1>2. /\ x \in 1 .. N /\ key[x] = k
      /\ \A n \in 1 .. N : key[n] = k => n = x
      /\ \A n \in 1 .. N : key[n] = j => old = n
      /\ old # NULL => old \in 1 .. N /\ key[old] = j
  BY <1>1, NodesFound DEF NodeOf
<1>3. /\ \A n \in 1 .. N : key'[n] = j => new = n
      /\ new # NULL => new \in 1 .. N /\ key'[new] = j
  BY <1>1, NodesFoundNext DEF NodeOf
<1>4. j # NULL /\ key \in [1 .. N -> Keys \cup {NULL}]
  BY XHashAssumption DEF NULL, XHashInv, KeysOf
<1> HIDE DEF x, N, old, new
<1>5. key'[x] = NULL /\ \A n \in 1 .. N : n # x => key'[n] = key[n]
  BY <1>1, <1>2, <1>4
<1>6. CASE j = k
  <2>1. new = NULL
    BY <1>6, <1>2, <1>3, <1>4, <1>5
  <2> QED
    BY <1>6, <2>1 DEF new
<1>7. CASE j # k
  <2>1. new = old
    <3>1. CASE old # NULL
      BY <3>1, <1>2, <1>3, <1>5, <1>7
    <3>2. CASE new # NULL
      BY <3>2, <1>2, <1>3, <1>4, <1>5
    <3> QED
      BY <3>1, <3>2
  <2> QED
    BY <1>7, <2>1 DEF new, old
<1> QED
  BY <1>6, <1>7

(* The other steps leave all nodes to their keys. *)
LEMMA SameNodes ==
  ASSUME UNCHANGED <<nodes, key>>, NEW j \in Keys
  PROVE  LookupNode(j)' = LookupNode(j)
BY DEF LookupNode, Place, Bucket, SelectInSeq

------------------------------------------------------------------------------
(* The theorems *)

(* what a step does to the nodes of the keys that stay in the table *)
Stays ==
  \A k \in Keys : LookupNode(k) # NULL /\ LookupNode(k)' # NULL
                    => LookupNode(k)' = LookupNode(k)

(* Pointers from fc_hash_lookup_modify stay good as long as their key is   *)
(* in the table: no insertion, removal or re-hash moves a node.            *)
THEOREM NodesStayInPlace == Spec => NodesStay
<1>1. XHashInv /\ XHashInv' /\ [Next]_vars => [Stays]_vars
  <2> SUFFICES ASSUME XHashInv, XHashInv', Next, NEW j \in Keys,
                      LookupNode(j) # NULL, LookupNode(j)' # NULL
               PROVE  LookupNode(j)' = LookupNode(j)
    BY DEF Stays
  <2>1. ASSUME NEW k \in Keys, RemoveKey(k) PROVE LookupNode(j)' = LookupNode(j)
    BY <2>1, RemoveNodes
  <2>2. ASSUME NEW k \in Keys, NEW v \in Vals, Insert(k, v) PROVE LookupNode(j)' = LookupNode(j)
    <3>1. j # k
      BY <2>2 DEF Insert
    <3> QED
      BY <2>2, <3>1, InsertNodes
  <2>3. ASSUME NEW k \in Keys, NEW v \in Vals, InsertKnown(k, v)
        PROVE  LookupNode(j)' = LookupNode(j)
    BY <2>3, SameNodes DEF InsertKnown
  <2>4. ASSUME NEW k \in Keys, InsertFails(k) PROVE LookupNode(j)' = LookupNode(j)
    BY <2>4, SameNodes DEF InsertFails
  <2> QED
    BY <2>1, <2>2, <2>3, <2>4 DEF Next
<1>2. Spec => [][Stays]_vars
  BY <1>1, XHashInvariance, PTL DEF Spec
<1> QED
  BY <1>2, PTL DEF Stays, NodesStay

(* A node is held by a sequence when it is in its range. *)
LEMMA RangeHolds ==
  ASSUME NEW S, NEW s \in Seq(S)
  PROVE  \A n : n \in Range(s) <=> Holds(s, n)
<1>1. DOMAIN s = 1 .. Len(s)
  OBVIOUS
<1> QED
  BY <1>1 DEF Range, Holds

(* The loop of fc_hash_foreach comes to the nodes in use. *)
LEMMA AllInUse ==
  ASSUME XHashInv
  PROVE  /\ Foreach(nodes) \in Seq(1 .. Allocated) /\ Once(Foreach(nodes))
         /\ \A n : Holds(Foreach(nodes), n) <=> n \in 1 .. Allocated /\ key[n] # NULL
<1> DEFINE N == Allocated
           all == Foreach(nodes)
<1>1. KeysOf(key, N) /\ Chained(nodes, key, N)
  BY DEF XHashInv
<1> HIDE DEF N
<1>2. /\ Len(nodes) \in Nat \ {0} /\ Apart(nodes)
      /\ \A n \in 1 .. N : key[n] # NULL => Index(key[n], Len(nodes)) \in 1 .. Len(nodes)
  BY <1>1, ChainedFacts
<1>3. nodes \in Seq(Seq(1 .. N))
  BY <1>1 DEF Chained
<1>4. Visited(1 .. N, nodes, Len(nodes), all)
  BY <1>2, <1>3, ForeachFacts
<1> HIDE DEF all
<1>5. \A b \in 1 .. Len(nodes) : \A n :
        Holds(nodes[b], n) <=> n \in 1 .. N /\ key[n] # NULL /\ Index(key[n], Len(nodes)) = b
  BY <1>1 DEF Chained
<1>6. \A n : Holds(all, n) <=> n \in 1 .. N /\ key[n] # NULL
  BY <1>2, <1>4, <1>5 DEF Visited
<1>7. all \in Seq(1 .. N) /\ Once(all)
  BY <1>4 DEF Visited
<1> QED
  BY <1>6, <1>7 DEF N, all

(* No node is lost and none is used twice: the chains and the free list    *)
(* share the nodes that fc_hash_get_a_node ever allocated.  What           *)
(* fc_hash_foreach comes to is what lookups find, and fc_hash_size is how  *)
(* many these are.                                                         *)
THEOREM NodesAreShared == Spec => []NodesShared
<1>1. XHashInv => NodesShared
  <2> SUFFICES ASSUME XHashInv PROVE NodesShared
    OBVIOUS
  <2> DEFINE N == Allocated
             all == Foreach(nodes)
             every == all \o free
             visited == [i \in DOMAIN all |-> key[all[i]]]
  <2>1. /\ all \in Seq(1 .. N) /\ Once(all)
        /\ \A n : Holds(all, n) <=> n \in 1 .. N /\ key[n] # NULL
    BY AllInUse
  <2>2. /\ KeysOf(key, N) /\ Unique(key, N) /\ Chained(nodes, key, N) /\ FreeOnes(free, key, N)
        /\ nb = Cardinality(Used(key, N))
    BY DEF XHashInv
  <2>3. \A k \in Keys : NodeOf(k)
    BY NodesFound
  <2>4. TypeOK
    <3>1. N \in Nat /\ nb \in Nat
      BY <2>2, UsedFinite DEF KeysOf
    <3> QED
      BY <3>1, <2>2 DEF XHashInv, TypeOK, Chained, FreeOnes, KeysOf
  <2>5. \A k \in Keys : LookupNode(k) # NULL <=> \E n \in 1 .. N : key[n] = k
    <3>1. NULL \notin 1 .. N
      BY <2>2 DEF NULL, KeysOf
    <3> QED
      BY <2>3, <3>1 DEF NodeOf
  <2> HIDE DEF N, all
  <2>6. free \in Seq(1 .. N) /\ Once(free) /\ \A n : Holds(free, n) <=> n \in 1 .. N /\ key[n] = NULL
    BY <2>2 DEF FreeOnes
  <2>7. Len(every) = N /\ Range(every) = 1 .. N
    <3>1. every \in Seq(1 .. N) /\ Once(every) /\ \A n : Holds(every, n) <=> n \in 1 .. N
      BY <2>1, <2>6, ConcatFacts
    <3> HIDE DEF every
    <3>2. Range(every) = 1 .. N
      BY <3>1, RangeHolds
    <3>3. Cardinality(1 .. N) = Len(every)
      BY <3>1, <3>2, OnceCounts
    <3>4. N \in Nat /\ Cardinality(1 .. N) = N
      BY <2>2, FS_Interval DEF KeysOf
    <3> QED
      BY <3>2, <3>3, <3>4
  <2>8. /\ Len(all) \in Nat /\ DOMAIN all = 1 .. Len(all)
        /\ \A i \in 1 .. Len(all) : all[i] \in 1 .. N /\ key[all[i]] # NULL
    <3>1. Len(all) \in Nat /\ DOMAIN all = 1 .. Len(all)
      BY <2>1
    <3>2. \A i \in 1 .. Len(all) : Holds(all, all[i])
      BY DEF Holds
    <3> QED
      BY <2>1, <3>1, <3>2
  <2>9. /\ visited \in Seq(Keys) /\ Len(visited) = Len(all)
        /\ \A i \in 1 .. Len(all) : visited[i] = key[all[i]]
    <3>1. \A n \in 1 .. N : key[n] # NULL => key[n] \in Keys
      BY <2>2 DEF KeysOf
    <3>2. visited \in [1 .. Len(all) -> Keys] /\ \A i \in 1 .. Len(all) : visited[i] = key[all[i]]
      BY <2>8, <3>1
    <3> HIDE DEF visited
    <3> QED
      BY <2>8, <3>2, SequenceOf
  <2> HIDE DEF visited
  <2>10. Once(visited)
    BY <2>1, <2>2, <2>8, <2>9 DEF Once, Unique
  <2>11. Range(visited) = {k \in Keys : LookupNode(k) # NULL}
    <3>1. \A k : Holds(visited, k) <=> k \in Keys /\ \E n \in 1 .. N : key[n] = k
      <4>1. ASSUME NEW k, Holds(visited, k)
            PROVE  k \in Keys /\ \E n \in 1 .. N : key[n] = k
        BY <4>1, <2>8, <2>9, ElementOfSeq DEF Holds
      <4>2. ASSUME NEW k \in Keys, NEW n \in 1 .. N, key[n] = k
            PROVE  Holds(visited, k)
        <5>1. k # NULL
          BY XHashAssumption DEF NULL
        <5>2. PICK i \in 1 .. Len(all) : all[i] = n
          BY <2>1, <4>2, <5>1 DEF Holds
        <5> QED
          BY <5>2, <4>2, <2>9 DEF Holds
      <4> QED
        BY <4>1, <4>2
    <3> QED
      BY <3>1, <2>5, <2>9, RangeHolds
  <2>12. Cardinality(Range(visited)) = Len(visited)
    BY <2>9, <2>10, OnceCounts
  <2>13. nb = Len(visited)
    <3>1. Range(all) = Used(key, N)
      BY <2>1, RangeHolds DEF Used
    <3>2. Cardinality(Range(all)) = Len(all)
      BY <2>1, OnceCounts
    <3> QED
      BY <3>1, <3>2, <2>2, <2>9
  <2> QED
    BY <2>4, <2>7, <2>11, <2>12, <2>13 DEF NodesShared, N, all, visited
<1> QED
  BY <1>1, XHashInvariance, PTL

(* the table as its users see it *)
Present == {k \in Keys : LookupNode(k) # NULL}
MapOf == [k \in Present |-> value[LookupNode(k)]]

(* Each operation does to the map what it is for. *)
LEMMA MapStep ==
  ASSUME XHashInv, XHashInv', [Next]_vars
  PROVE  \/ MapOf' = MapOf
         \/ \E k \in Keys : MapOf' = [j \in DOMAIN MapOf \ {k} |-> MapOf[j]]
         \/ \E k \in Keys, v \in Vals :
              MapOf' = [j \in DOMAIN MapOf \cup {k} |-> IF j = k THEN v ELSE MapOf[j]]
<1>0. /\ MapOf = [k \in Present |-> value[LookupNode(k)]]
      /\ MapOf' = [k \in Present' |-> value'[LookupNode(k)']]
      /\ \A k : k \in Present <=> k \in Keys /\ LookupNode(k) # NULL
      /\ \A k : k \in Present' <=> k \in Keys /\ LookupNode(k)' # NULL
  BY DEF MapOf, Present
<1>1. ASSUME NEW k \in Keys, RemoveKey(k)
      PROVE  MapOf' = [j \in DOMAIN MapOf \ {k} |-> MapOf[j]]
  <2>1. \A j \in Keys : LookupNode(j)' = IF j = k THEN NULL ELSE LookupNode(j)
    BY <1>1, RemoveNodes
  <2>2. value' = value
    BY <1>1 DEF RemoveKey
  <2>3. Present' = Present \ {k}
    BY <2>1, <1>0
  <2>4. \A j \in Present' : j \in Present /\ LookupNode(j)' = LookupNode(j)
    BY <2>1, <2>3, <1>0
  <2> QED
    BY <2>2, <2>3, <2>4, <1>0
<1>2. ASSUME NEW k \in Keys, NEW v \in Vals, Insert(k, v)
      PROVE  MapOf' = [j \in DOMAIN MapOf \cup {k} |-> IF j = k THEN v ELSE MapOf[j]]
  <2>1. \A j \in Keys : LookupNode(j)' = IF j = k THEN Head(free) ELSE LookupNode(j)
    BY <1>2, InsertNodes
  <2>2. /\ \A j \in Keys : j # k /\ LookupNode(j) # NULL
                             => value'[LookupNode(j)] = value[LookupNode(j)]
        /\ value'[Head(free)] = v
    BY <1>2, InsertNodes
  <2>3. Head(free) # NULL
    BY HeadFree DEF NULL
  <2>4. Present' = Present \cup {k}
    BY <2>1, <2>3, <1>0
  <2>5. \A j \in Present' : value'[LookupNode(j)'] = IF j = k THEN v ELSE value[LookupNode(j)]
    BY <2>1, <2>2, <2>4, <1>0
  <2>6. \A j \in Present' : j # k => j \in Present
    BY <2>4
  <2> QED
    BY <2>4, <2>5, <2>6, <1>0
<1>3. ASSUME NEW k \in Keys, NEW v \in Vals, InsertKnown(k, v)
      PROVE  MapOf' = [j \in DOMAIN MapOf \cup {k} |-> IF j = k THEN v ELSE MapOf[j]]
  <2>1. \A j \in Keys : LookupNode(j)' = LookupNode(j)
    BY <1>3, SameNodes DEF InsertKnown
  <2>2. \A j \in Keys : LookupNode(j) # NULL =>
           LookupNode(j) \in 1 .. Allocated /\ key[LookupNode(j)] = j
    BY NodesFound DEF NodeOf
  <2>3. /\ LookupNode(k) # NULL /\ value' = [value EXCEPT ![LookupNode(k)] = v]
        /\ DOMAIN value = 1 .. Allocated
    BY <1>3 DEF InsertKnown, XHashInv
  <2>4. Present' = Present /\ k \in Present
    BY <2>1, <2>3, <1>0
  <2>5. \A j \in Present : value'[LookupNode(j)] = IF j = k THEN v ELSE value[LookupNode(j)]
    BY <2>2, <2>3, <1>0
  <2> QED
    BY <2>1, <2>4, <2>5, <1>0
<1>4. ASSUME UNCHANGED <<nodes, key, value>> PROVE MapOf' = MapOf
  <2>1. \A j \in Keys : LookupNode(j)' = LookupNode(j)
    BY <1>4, SameNodes
  <2> QED
    BY <2>1, <1>4, <1>0
<1>5. CASE UNCHANGED vars
  BY <1>4, <1>5 DEF vars
<1>6. ASSUME NEW k \in Keys, InsertFails(k) PROVE MapOf' = MapOf
  BY <1>4, <1>6 DEF InsertFails
<1> QED
  BY <1>1, <1>2, <1>3, <1>5, <1>6 DEF Next

(* The chained hash-table, with its free list, its blocks of nodes and its *)
(* re-hashes, implements a map.                                            *)
THEOREM TableImplementsMap == Spec => MapImplemented
<1>1. Init => Map!Init
  <2> SUFFICES ASSUME Init PROVE Map!Init
    OBVIOUS
  <2>1. \A k \in Keys : LookupNode(k) = NULL
    <3>1. XHashInv
      BY XHashInitially
    <3>2. \A n \in 1 .. Allocated : key[n] = NULL
      BY XHashAssumption DEF Init, Allocated
    <3>3. \A k \in Keys : k # NULL
      BY XHashAssumption DEF NULL
    <3> QED
      BY <3>1, <3>2, <3>3, NodesFound DEF NodeOf
  <2>2. Present = {}
    BY <2>1 DEF Present
  <2>3. MapOf = <<>>
    BY <2>2 DEF MapOf
  <2> QED
    BY <2>3 DEF Map!Init, MapOf, Present
<1>2. XHashInv /\ XHashInv' /\ [Next]_vars => [Map!Next]_MapOf
  <2> SUFFICES ASSUME XHashInv, XHashInv', [Next]_vars, MapOf' # MapOf PROVE Map!Next
    OBVIOUS
  <2>1. \A k : Map!Delete(k) <=> MapOf' = [j \in DOMAIN MapOf \ {k} |-> MapOf[j]]
    BY DEF Map!Delete, MapOf, Present
  <2>2. \A k, v : Map!Put(k, v) <=>
          MapOf' = [j \in DOMAIN MapOf \cup {k} |-> IF j = k THEN v ELSE MapOf[j]]
    BY DEF Map!Put, MapOf, Present
  <2> QED
    BY <2>1, <2>2, MapStep DEF Map!Next
<1>3. Spec => Map!Init /\ [][Map!Next]_MapOf
  BY <1>1, <1>2, XHashInvariance, PTL DEF Spec
<1> QED
  BY <1>3, PTL DEF MapImplemented, Map!Spec, MapOf, Present
=============================================================================
