-------------------------- MODULE FcSessionProofs --------------------------
(***************************************************************************)
(* What a session promises whatever the scenario: the parameters that the  *)
(* manager works with, the size of its table of functions, the libraries   *)
(* that it is told of, and the times of the events.                        *)
(***************************************************************************)
EXTENDS FcSession, FiniteSetTheorems, TLAPS

------------------------------------------------------------------------------
(* The resource file: what reading it line by line comes to                *)

Junk(env, rc) == [keyw |-> rc.junk, val |-> rc.junk, env |-> env]

(* the values of a fold over the sets of lines in D, from the last line on *)
IsReading(iter, env, rc, D) ==
  iter = [s \in D |-> IF s = {} THEN Junk(env, rc)
                      ELSE ReadLine(iter[s \ {Max(s)}], rc.lines[Max(s)])]

(* the sets of lines that have at most n elements *)
UpTo(S, n) == {s \in SUBSET S : Cardinality(s) <= n}

(* a resource file as SessionAssumption has it *)
IsFile(rc) == rc \in [lines : Seq(Seq(STRING)), newline : BOOLEAN, junk : STRING]

(* A set of naturals that is not empty has a least element.                *)
LEMMA Least ==
  ASSUME NEW S, S \subseteq Nat, S # {}
  PROVE  \E x \in S : \A y \in S : x <= y
<1> DEFINE R == OpToRel(<, Nat)
<1>1. IsWellFoundedOn(R, Nat)
  BY NatLessThanWellFounded
<1>2. \A x, y \in Nat : x < y => <<x, y>> \in R
  BY DEF OpToRel
<1> HIDE DEF R
<1>3. PICK x \in S : \A y \in S : ~(<<y, x>> \in R)
  BY <1>1, WFMin
<1>4. \A y \in S : ~(y < x)
  BY <1>2, <1>3
<1>5. \A y \in S : x <= y
  BY <1>4
<1> QED
  BY <1>5

(* A finite set of naturals that is not empty has a largest element, Max. *)
LEMMA LargestLine ==
  ASSUME NEW n \in Nat, NEW S \in SUBSET (1 .. n), S # {}
  PROVE  Max(S) \in S /\ \A m \in S : m <= Max(S)
<1> DEFINE Over == {b \in Nat : \A y \in S : y <= b}
<1>1. Over \subseteq Nat /\ n \in Over
  OBVIOUS
<1>2. PICK k \in Over : \A j \in Over : k <= j
  BY <1>1, Least
<1>3. k \in S
  <2>1. SUFFICES ASSUME k \notin S PROVE FALSE
    OBVIOUS
  <2>2. \A m \in S : m \in Nat /\ m >= 1 /\ m <= k /\ m # k
    BY <1>2, <2>1
  <2>3. \A y \in S : y <= k - 1
    BY <1>2, <2>2
  <2>4. k - 1 \in Nat
    <3>1. PICK y \in S : TRUE
      OBVIOUS
    <3>2. y \in Nat /\ y >= 1 /\ y <= k /\ k \in Nat
      BY <1>2, <2>2
    <3> QED
      BY <3>2
  <2>5. k - 1 \in Over
    BY <2>3, <2>4
  <2> HIDE DEF Over
  <2> QED
    BY <1>1, <1>2, <2>5
<1>4. \E x \in S : \A y \in S : x >= y
  BY <1>2, <1>3
<1> QED
  BY <1>4 DEF Max

(* Sets of lines are finite, and have no more elements than there are      *)
(* lines.                                                                  *)
LEMMA LinesFinite ==
  ASSUME NEW m \in Nat
  PROVE  \A s \in SUBSET (1 .. m) : IsFiniteSet(s) /\ Cardinality(s) \in Nat /\ Cardinality(s) <= m
<1>1. IsFiniteSet(1 .. m) /\ Cardinality(1 .. m) = m
  BY FS_Interval
<1>2. \A s \in SUBSET (1 .. m) : IsFiniteSet(s) /\ Cardinality(s) <= Cardinality(1 .. m)
  BY <1>1, FS_Subset
<1> QED
  BY <1>1, <1>2, FS_CardinalityType

(* One more line may be added to the sets that are read. *)
LEMMA ReadingGrows ==
  ASSUME NEW env, NEW rc, NEW m \in Nat, NEW n \in Nat,
         \E iter : IsReading(iter, env, rc, UpTo(1 .. m, n))
  PROVE  \E iter : IsReading(iter, env, rc, UpTo(1 .. m, n + 1))
<1> DEFINE D(k) == UpTo(1 .. m, k)
<1>1. PICK g : IsReading(g, env, rc, D(n))
  OBVIOUS
<1> DEFINE h == [s \in D(n + 1) |-> IF s = {} THEN Junk(env, rc)
                                    ELSE ReadLine(g[s \ {Max(s)}], rc.lines[Max(s)])]
<1>2. \A s \in D(n) : g[s] = IF s = {} THEN Junk(env, rc)
                             ELSE ReadLine(g[s \ {Max(s)}], rc.lines[Max(s)])
  BY <1>1 DEF IsReading
<1>3. \A s \in SUBSET (1 .. m) : IsFiniteSet(s) /\ Cardinality(s) \in Nat
  BY LinesFinite
<1>4. \A s \in D(n) : s \in D(n + 1)
  BY <1>3 DEF UpTo
<1>5. ASSUME NEW s \in D(n + 1), s # {} PROVE s \ {Max(s)} \in D(n)
  <2>1. s \in SUBSET (1 .. m)
    BY DEF UpTo
  <2>2. Max(s) \in s
    BY <1>5, <2>1, LargestLine
  <2>3. Cardinality(s \ {Max(s)}) = Cardinality(s) - 1
    BY <1>3, <2>1, <2>2, FS_RemoveElement
  <2> QED
    <3>1. Cardinality(s) \in Nat /\ Cardinality(s) <= n + 1
      BY <1>3, <2>1 DEF UpTo
    <3>2. Cardinality(s \ {Max(s)}) <= n
      BY <2>3, <3>1
    <3> QED
      BY <2>1, <3>2 DEF UpTo
<1> HIDE DEF D
<1>6. \A s \in D(n) : h[s] = g[s]
  BY <1>2, <1>4
<1>7. h = [s \in D(n + 1) |-> IF s = {} THEN Junk(env, rc)
                              ELSE ReadLine(h[s \ {Max(s)}], rc.lines[Max(s)])]
  BY <1>5, <1>6
<1> HIDE DEF h
<1>8. IsReading(h, env, rc, D(n + 1))
  BY <1>7 DEF IsReading
<1> QED
  BY <1>8 DEF D

(* The recursive function of the fold in ReadRessources exists. *)
LEMMA ReadingExists ==
  ASSUME NEW env, NEW rc, NEW m \in Nat
  PROVE  \E iter : IsReading(iter, env, rc, SUBSET (1 .. m))
<1> DEFINE E(k) == \E iter : IsReading(iter, env, rc, UpTo(1 .. m, k))
           Bad == {k \in Nat : ~E(k)}
<1>1. \A s \in SUBSET (1 .. m) : IsFiniteSet(s) /\ Cardinality(s) \in Nat /\ Cardinality(s) <= m
  BY LinesFinite
<1>2. E(0)
  <2> DEFINE h == [s \in {{}} |-> Junk(env, rc)]
  <2>1. UpTo(1 .. m, 0) = {{}}
    BY <1>1, FS_EmptySet DEF UpTo
  <2>2. h = [s \in {{}} |-> IF s = {} THEN Junk(env, rc)
                            ELSE ReadLine(h[s \ {Max(s)}], rc.lines[Max(s)])]
    OBVIOUS
  <2> HIDE DEF h
  <2>3. IsReading(h, env, rc, {{}})
    BY <2>2 DEF IsReading
  <2> QED
    BY <2>1, <2>3
<1>3. ASSUME NEW n \in Nat, E(n) PROVE E(n + 1)
  BY <1>3, ReadingGrows
<1> HIDE DEF E
<1>4. Bad = {}
  <2>1. SUFFICES ASSUME Bad # {} PROVE FALSE
    OBVIOUS
  <2>2. PICK k \in Bad : \A j \in Bad : k <= j
    BY <2>1, Least
  <2>3. k # 0 /\ k \in Nat /\ ~E(k)
    BY <1>2, <2>2
  <2>4. k - 1 \in Nat /\ (k - 1) + 1 = k
    BY <2>3
  <2>5. E(k - 1)
    BY <2>2, <2>4
  <2> QED
    BY <1>3, <2>3, <2>4, <2>5
<1>5. UpTo(1 .. m, m) = SUBSET (1 .. m)
  BY <1>1 DEF UpTo
<1>6. E(m)
  BY <1>4
<1> QED
  BY <1>5, <1>6 DEF E

(* ReadRessources is a value of that function. *)
LEMMA ReadingReads ==
  ASSUME NEW env, NEW rc, IsFile(rc), rc.newline
  PROVE  \E iter : /\ IsReading(iter, env, rc, SUBSET (1 .. Len(rc.lines)))
                   /\ ReadRessources(env, rc) = iter[1 .. Len(rc.lines)].env
<1> DEFINE D == SUBSET (1 .. Len(rc.lines))
           chosen == CHOOSE iter : IsReading(iter, env, rc, D)
<1>1. rc.lines \in Seq(Seq(STRING)) /\ Len(rc.lines) \in Nat
  BY DEF IsFile
<1>2. DOMAIN rc.lines = 1 .. Len(rc.lines)
  BY <1>1
<1>3. IsReading(chosen, env, rc, D)
  BY <1>1, ReadingExists
<1>4. FoldLeft(ReadLine, Junk(env, rc), rc.lines) = chosen[1 .. Len(rc.lines)]
  BY <1>2 DEF FoldLeft, MapThenFoldSet, IsReading
<1>5. ReadRessources(env, rc) = chosen[1 .. Len(rc.lines)].env
  BY <1>4 DEF ReadRessources, Junk
<1> QED
  BY <1>3, <1>5

(* the lines among the first k that are about a variable *)
Before(rc, k, v) == {i \in 1 .. k : rc.lines[i][1] = v}

(* what a variable is once the first k lines are read: as the last of them *)
(* about it says, and as it was if there is none                           *)
Decided(new, env, rc, k, v) ==
  LET said == rc.lines[Max(Before(rc, k, v))][2] IN
  IF Before(rc, k, v) = {}
  THEN (v \in DOMAIN new <=> v \in DOMAIN env) /\ (v \in DOMAIN env => new[v] = env[v])
  ELSE (v \in DOMAIN new <=> said # "!") /\ (said # "!" => new[v] = said)

ReadUpTo(new, env, rc, k) == \A v \in Variables : Decided(new, env, rc, k, v)

(* The next line is the last one about its variable, and about no other.   *)
LEMMA NextLineBefore ==
  ASSUME NEW rc, NEW k \in Nat, NEW v
  PROVE  /\ rc.lines[k + 1][1] # v => Before(rc, k + 1, v) = Before(rc, k, v)
         /\ rc.lines[k + 1][1] = v => Before(rc, k + 1, v) # {} /\ Max(Before(rc, k + 1, v)) = k + 1
<1>1. \A i \in Nat : i \in 1 .. k + 1 <=> i \in 1 .. k \/ i = k + 1
  OBVIOUS
<1>2. CASE rc.lines[k + 1][1] # v
  BY <1>1, <1>2 DEF Before
<1>3. CASE rc.lines[k + 1][1] = v
  <2>1. k + 1 \in Before(rc, k + 1, v) /\ Before(rc, k + 1, v) \in SUBSET (1 .. k + 1)
    BY <1>3 DEF Before
  <2>2. /\ Max(Before(rc, k + 1, v)) \in Before(rc, k + 1, v)
        /\ k + 1 <= Max(Before(rc, k + 1, v))
    BY <2>1, LargestLine
  <2> QED
    BY <1>3, <2>1, <2>2 DEF Before
<1> QED
  BY <1>2, <1>3

(* A line with its two words does what it says: the step of the induction. *)
LEMMA NextLineRead ==
  ASSUME NEW env, NEW rc, NEW r, NEW k \in Nat, IsFile(rc), WellFormed(rc), k < Len(rc.lines),
         ReadUpTo(r.env, env, rc, k)
  PROVE  ReadUpTo(ReadLine(r, rc.lines[k + 1]).env, env, rc, k + 1)
<1> DEFINE line == rc.lines[k + 1]
           new == ReadLine(r, line).env
<1>1. Len(line) = 2
  <2>1. rc.lines \in Seq(Seq(STRING))
    BY DEF IsFile
  <2>2. k + 1 \in DOMAIN rc.lines
    BY <2>1
  <2> QED
    BY <2>2 DEF WellFormed
<1>2. new = CASE line[1] \notin Variables -> r.env
              [] line[1] \in Variables /\ line[2] = "!" -> unsetenv(r.env, line[1])
              [] OTHER -> setenv(r.env, line[1], line[2])
  BY <1>1 DEF ReadLine
<1> HIDE DEF line, new
<1>3. SUFFICES ASSUME NEW v \in Variables PROVE Decided(new, env, rc, k + 1, v)
  BY DEF ReadUpTo, line, new
<1>4. Decided(r.env, env, rc, k, v)
  BY DEF ReadUpTo
<1>5. CASE line[1] # v
  <2>1. (v \in DOMAIN new <=> v \in DOMAIN r.env) /\ (v \in DOMAIN r.env => new[v] = r.env[v])
    <3>1. CASE line[1] \notin Variables
      BY <1>2, <3>1
    <3>2. CASE line[1] \in Variables /\ line[2] = "!"
      BY <1>2, <1>5, <3>2 DEF unsetenv, Restrict
    <3>3. CASE line[1] \in Variables /\ line[2] # "!"
      BY <1>2, <1>5, <3>3 DEF setenv
    <3> QED
      BY <3>1, <3>2, <3>3
  <2>2. Before(rc, k + 1, v) = Before(rc, k, v)
    BY <1>5, NextLineBefore DEF line
  <2> QED
    BY <1>4, <2>1, <2>2 DEF Decided
<1>6. CASE line[1] = v
  <2>1. Before(rc, k + 1, v) # {} /\ Max(Before(rc, k + 1, v)) = k + 1
    BY <1>6, NextLineBefore DEF line
  <2>2. (v \in DOMAIN new <=> line[2] # "!") /\ (line[2] # "!" => new[v] = line[2])
    <3>1. CASE line[2] = "!"
      BY <1>2, <1>6, <3>1 DEF unsetenv, Restrict
    <3>2. CASE line[2] # "!"
      BY <1>2, <1>6, <3>2 DEF setenv
    <3> QED
      BY <3>1, <3>2
  <2> QED
    BY <2>1, <2>2 DEF Decided, line
<1> QED
  BY <1>5, <1>6

(* The last line about a variable decides, and the environment where there *)
(* is none.                                                                *)
LEMMA LastLineDecides ==
  ASSUME NEW env, NEW rc, IsFile(rc), WellFormed(rc)
  PROVE  ReadUpTo(ReadRessources(env, rc), env, rc, Len(rc.lines))
<1>1. rc.newline /\ rc.lines \in Seq(Seq(STRING)) /\ Len(rc.lines) \in Nat
  BY DEF IsFile, WellFormed
<1>2. PICK iter : /\ IsReading(iter, env, rc, SUBSET (1 .. Len(rc.lines)))
                  /\ ReadRessources(env, rc) = iter[1 .. Len(rc.lines)].env
  BY <1>1, ReadingReads
<1> DEFINE E(k) == ReadUpTo(iter[1 .. k].env, env, rc, k)
           Bad == {k \in Nat : k <= Len(rc.lines) /\ ~E(k)}
<1>3. E(0)
  <2>1. 1 .. 0 = {} /\ {} \in SUBSET (1 .. Len(rc.lines))
    OBVIOUS
  <2>2. iter[1 .. 0] = Junk(env, rc)
    BY <1>2, <2>1 DEF IsReading
  <2>3. \A v : Before(rc, 0, v) = {}
    BY <2>1 DEF Before
  <2> QED
    BY <2>2, <2>3 DEF ReadUpTo, Decided, Junk
<1>4. ASSUME NEW k \in Nat, k < Len(rc.lines), E(k) PROVE E(k + 1)
  <2> DEFINE n == Len(rc.lines)
  <2>1. 1 .. k + 1 \in SUBSET (1 .. n) /\ 1 .. k + 1 # {} /\ k + 1 \in 1 .. k + 1
    <3>1. n \in Nat /\ k + 1 <= n
      BY <1>1, <1>4
    <3> HIDE DEF n
    <3> QED
      BY ONLY <3>1, k \in Nat
  <2>2. Max(1 .. k + 1) \in 1 .. k + 1 /\ k + 1 <= Max(1 .. k + 1)
    BY <1>1, <2>1, LargestLine
  <2>3. Max(1 .. k + 1) = k + 1
    BY <2>2
  <2>4. (1 .. k + 1) \ {k + 1} = 1 .. k
    OBVIOUS
  <2>5. iter[1 .. k + 1] = ReadLine(iter[1 .. k], rc.lines[k + 1])
    BY <1>2, <2>1, <2>3, <2>4 DEF IsReading
  <2> QED
    BY <1>4, <2>5, NextLineRead
<1> HIDE DEF E
<1>5. Bad = {}
  <2>1. SUFFICES ASSUME Bad # {} PROVE FALSE
    OBVIOUS
  <2>2. PICK k \in Bad : \A j \in Bad : k <= j
    BY <2>1, Least
  <2>3. k # 0 /\ k \in Nat /\ k <= Len(rc.lines) /\ ~E(k)
    BY <1>3, <2>2
  <2>4. k - 1 \in Nat /\ (k - 1) + 1 = k /\ k - 1 < Len(rc.lines)
    BY <1>1, <2>3
  <2>5. E(k - 1)
    BY <1>1, <2>2, <2>4
  <2> QED
    BY <1>4, <2>3, <2>4, <2>5
<1>6. E(Len(rc.lines))
  BY <1>1, <1>5
<1> QED
  BY <1>2, <1>6 DEF E

(* What the program reads of its files is what the user has asked for.     *)
LEMMA AskedIsRead ==
  ASSUME NEW env, NEW rc, IsFile(rc), WellFormed(rc)
  PROVE  \A v \in Variables :
           /\ v \in DOMAIN ReadRessources(env, rc) <=> v \in DOMAIN AskedEnv(env, rc)
           /\ v \in DOMAIN AskedEnv(env, rc) => ReadRessources(env, rc)[v] = AskedEnv(env, rc)[v]
<1> DEFINE new == ReadRessources(env, rc)
<1>1. ReadUpTo(new, env, rc, Len(rc.lines))
  BY LastLineDecides
<1>2. DOMAIN rc.lines = 1 .. Len(rc.lines)
  BY DEF IsFile
<1>3. \A v : Before(rc, Len(rc.lines), v) = About(rc, v)
  BY <1>2 DEF Before, About
<1> HIDE DEF new
<1>4. SUFFICES ASSUME NEW v \in Variables
               PROVE  /\ v \in DOMAIN new <=> v \in DOMAIN AskedEnv(env, rc)
                      /\ v \in DOMAIN AskedEnv(env, rc) => new[v] = AskedEnv(env, rc)[v]
  BY DEF new
<1>5. Decided(new, env, rc, Len(rc.lines), v)
  BY <1>1 DEF ReadUpTo
<1>6. CASE About(rc, v) = {}
  BY <1>3, <1>5, <1>6 DEF Decided, AskedEnv
<1>7. CASE About(rc, v) # {}
  BY <1>3, <1>5, <1>7 DEF Decided, AskedEnv, Said
<1> QED
  BY <1>6, <1>7

(* The parameters that ParamsAgree is about are those asked for.           *)
LEMMA ParametersAsked ==
  ASSUME NEW env, NEW rc, IsFile(rc), WellFormed(rc)
  PROVE  LET c == ReadEnv(ReadRessources(env, rc))
             asked == ReadEnv(AskedEnv(env, rc))
         IN  /\ c.dump_name = asked.dump_name /\ c.dump_path = asked.dump_path
             /\ c.use_pid = asked.use_pid /\ c.use_memory = asked.use_memory
             /\ c.memory_stack = asked.memory_stack
<1> DEFINE new == ReadRessources(env, rc)
           asked == AskedEnv(env, rc)
<1>1. \A v \in Variables : (v \in DOMAIN new <=> v \in DOMAIN asked)
                             /\ (v \in DOMAIN asked => new[v] = asked[v])
  BY AskedIsRead
<1> HIDE DEF new, asked
<1>2. \A v \in Variables : \A default :
        /\ EnvBool(new, v) = EnvBool(asked, v)
        /\ EnvInteger(new, v, default) = EnvInteger(asked, v, default)
        /\ EnvChar(new, v, default) = EnvChar(asked, v, default)
  BY <1>1 DEF EnvBool, EnvInteger, EnvChar
<1>3. /\ EnvBool(new, "FC_USE_PID") = EnvBool(asked, "FC_USE_PID")
      /\ EnvBool(new, "FC_MEMORY") = EnvBool(asked, "FC_MEMORY")
      /\ EnvInteger(new, "FC_MEMORY_STACK", 4) = EnvInteger(asked, "FC_MEMORY_STACK", 4)
      /\ EnvChar(new, "FC_DUMP_NAME", "functioncheck")
           = EnvChar(asked, "FC_DUMP_NAME", "functioncheck")
      /\ EnvChar(new, "FC_DUMP_PATH", "./") = EnvChar(asked, "FC_DUMP_PATH", "./")
  BY <1>2 DEF Variables
<1>4. \A e : /\ ReadEnv(e).use_pid = EnvBool(e, "FC_USE_PID")
             /\ ReadEnv(e).use_memory = EnvBool(e, "FC_MEMORY")
             /\ ReadEnv(e).memory_stack = EnvInteger(e, "FC_MEMORY_STACK", 4)
             /\ ReadEnv(e).dump_name = EnvChar(e, "FC_DUMP_NAME", "functioncheck")
             /\ ReadEnv(e).dump_path = EnvChar(e, "FC_DUMP_PATH", "./")
  BY DEF ReadEnv
<1> QED
  BY <1>3, <1>4 DEF new, asked

------------------------------------------------------------------------------
(* The size of the table of functions, and the clocks                      *)

Power(k) == 2 ^ k

(* The powers of two that an int holds are positive, and each is twice the *)
(* one before.                                                             *)
LEMMA Powers ==
  ASSUME NEW k \in 1 .. 30
  PROVE  /\ Power(k) \in Nat /\ Power(k) > 0
         /\ k = 1 => Power(k) = 2
         /\ k > 1 => Power(k) > 2 /\ Power(k) = 2 * Power(k - 1)
<1>1. CASE k = 1
  BY ONLY <1>1 DEF Power
<1>2. CASE k = 2
  BY ONLY <1>2 DEF Power
<1>3. CASE k = 3
  BY ONLY <1>3 DEF Power
<1>4. CASE k = 4
  BY ONLY <1>4 DEF Power
<1>5. CASE k = 5
  BY ONLY <1>5 DEF Power
<1>6. CASE k = 6
  BY ONLY <1>6 DEF Power
<1>7. CASE k = 7
  BY ONLY <1>7 DEF Power
<1>8. CASE k = 8
  BY ONLY <1>8 DEF Power
<1>9. CASE k = 9
  BY ONLY <1>9 DEF Power
<1>10. CASE k = 10
  BY ONLY <1>10 DEF Power
<1>11. CASE k = 11
  BY ONLY <1>11 DEF Power
<1>12. CASE k = 12
  BY ONLY <1>12 DEF Power
<1>13. CASE k = 13
  BY ONLY <1>13 DEF Power
<1>14. CASE k = 14
  BY ONLY <1>14 DEF Power
<1>15. CASE k = 15
  BY ONLY <1>15 DEF Power
<1>16. CASE k = 16
  BY ONLY <1>16 DEF Power
<1>17. CASE k = 17
  BY ONLY <1>17 DEF Power
<1>18. CASE k = 18
  BY ONLY <1>18 DEF Power
<1>19. CASE k = 19
  BY ONLY <1>19 DEF Power
<1>20. CASE k = 20
  BY ONLY <1>20 DEF Power
<1>21. CASE k = 21
  BY ONLY <1>21 DEF Power
<1>22. CASE k = 22
  BY ONLY <1>22 DEF Power
<1>23. CASE k = 23
  BY ONLY <1>23 DEF Power
<1>24. CASE k = 24
  BY ONLY <1>24 DEF Power
<1>25. CASE k = 25
  BY ONLY <1>25 DEF Power
<1>26. CASE k = 26
  BY ONLY <1>26 DEF Power
<1>27. CASE k = 27
  BY ONLY <1>27 DEF Power
<1>28. CASE k = 28
  BY ONLY <1>28 DEF Power
<1>29. CASE k = 29
  BY ONLY <1>29 DEF Power
<1>30. CASE k = 30
  BY ONLY <1>30 DEF Power
<1>31. \/ k = 1 \/ k = 2 \/ k = 3 \/ k = 4 \/ k = 5 \/ k = 6
       \/ k = 7 \/ k = 8 \/ k = 9 \/ k = 10 \/ k = 11 \/ k = 12
       \/ k = 13 \/ k = 14 \/ k = 15 \/ k = 16 \/ k = 17 \/ k = 18
       \/ k = 19 \/ k = 20 \/ k = 21 \/ k = 22 \/ k = 23 \/ k = 24
       \/ k = 25 \/ k = 26 \/ k = 27 \/ k = 28 \/ k = 29 \/ k = 30
  OBVIOUS
<1> QED
  BY ONLY <1>31, <1>1, <1>2, <1>3, <1>4, <1>5, <1>6, <1>7, <1>8, <1>9, <1>10,
          <1>11, <1>12, <1>13, <1>14, <1>15, <1>16, <1>17, <1>18, <1>19, <1>20,
          <1>21, <1>22, <1>23, <1>24, <1>25, <1>26, <1>27, <1>28, <1>29, <1>30

(* CheckPower finds the least power of two that is not less, or none.      *)
LEMMA PowerFound ==
  ASSUME NEW nb \in Int
  PROVE  \/ CheckPower(nb) \in Int /\ CheckPower(nb) < 0 /\ nb > Power(30)
         \/ \E k \in 1 .. 30 :
              CheckPower(nb) = Power(k) /\ nb <= Power(k) /\ (k > 1 => Power(k - 1) < nb)
<1> DEFINE Ends == {i \in 1 .. 31 : i = 31 \/ Doubled(i) >= nb}
<1>1. Ends \subseteq Nat /\ 31 \in Ends
  OBVIOUS
<1>2. PICK m \in Ends : \A i \in Ends : m <= i
  BY <1>1, Least
<1>3. Min(Ends) = m
  BY <1>1, <1>2 DEF Min
<1>4. CheckPower(nb) = Doubled(m)
  BY <1>3 DEF CheckPower
<1>5. ASSUME NEW i \in 1 .. 30 PROVE Doubled(i) = Power(i) /\ Power(i) \in Nat
  <2>1. i <= 30 /\ Power(i) \in Nat
    BY Powers
  <2> QED
    BY ONLY <2>1 DEF Doubled, Power
<1>6. CASE m = 31
  <2>1. 30 \notin Ends
    BY <1>2, <1>6
  <2>2. nb > Power(30)
    BY <1>5, <2>1
  <2>3. Doubled(31) \in Int /\ Doubled(31) < 0
    BY ONLY DEF Doubled
  <2> QED
    BY <1>4, <1>6, <2>2, <2>3
<1>7. CASE m # 31
  <2>1. m \in 1 .. 30 /\ Doubled(m) >= nb
    BY <1>7
  <2>2. ASSUME m > 1 PROVE Power(m - 1) < nb
    <3>1. m - 1 \in 1 .. 30 /\ m - 1 \notin Ends
      BY <1>2, <2>1, <2>2
    <3>2. ~(Doubled(m - 1) >= nb)
      BY <3>1
    <3>3. Doubled(m - 1) = Power(m - 1) /\ Power(m - 1) \in Nat
      BY ONLY <1>5, <3>1
    <3> QED
      BY <3>2, <3>3
  <2>3. CheckPower(nb) = Power(m) /\ nb <= Power(m)
    BY <1>4, <1>5, <2>1
  <2> QED
    BY <2>1, <2>2, <2>3
<1> QED
  BY <1>6, <1>7

(* What the clocks give of a time is the time since first: the cpu clock   *)
(* once it has moved, and as long as 32 bits hold it.                      *)
LEMMA StampIsElapsed ==
  ASSUME NEW timer, NEW time \in Nat, timer.first \in Nat, timer.max_clock \in Int,
         timer.first <= time
  PROVE  /\ Stamp(timer, time) \in Int
         /\ \/ Stamp(timer, time) = time - timer.first
            \/ timer.tmode = "CPU" /\ (time - timer.first = 0 \/ time >= U32)
<1> DEFINE first == timer.first
           max_clock == timer.max_clock
<1>1. Micro \in Nat \ {0} /\ U32 \in Nat \ {0}
  BY ConfigAssumption
<1>2. first \in Nat /\ max_clock \in Int /\ first <= time
  OBVIOUS
<1> HIDE DEF first, max_clock
<1>3. TimerExt(first, time) = time - first
  BY <1>1, <1>2 DEF TimerExt, Tv
<1>4. TimerTsc(first, time) = time - first
  BY DEF TimerTsc
<1>5. TimerCpu(first, time, max_clock) \in Int
  BY <1>1, <1>2 DEF TimerCpu
<1>6. time < U32 /\ first < time => TimerCpu(first, time, max_clock) = time - first
  <2>1. time < U32 => time % U32 = time
    BY <1>1
  <2> QED
    BY <1>2, <2>1 DEF TimerCpu
<1> QED
  BY <1>1, <1>2, <1>3, <1>4, <1>5, <1>6 DEF Stamp, first, max_clock

(* The table of functions that the manager makes: main leaves 512 where    *)
(* the size is not positive.                                               *)
LEMMA TableSize ==
  ASSUME NEW nb \in Int
  PROVE  LET size == IF CheckPower(nb) > 0 THEN CheckPower(nb) ELSE 512 IN
         /\ \E k \in 1 .. 30 : size = 2 ^ k
         /\ nb <= 2 ^ 30 => size >= nb /\ (size > 2 => size \div 2 < nb)
<1> DEFINE made == CheckPower(nb)
           size == IF made > 0 THEN made ELSE 512
<1>1. \/ made \in Int /\ made < 0 /\ nb > Power(30)
      \/ \E k \in 1 .. 30 : made = Power(k) /\ nb <= Power(k) /\ (k > 1 => Power(k - 1) < nb)
  BY PowerFound
<1>2. Power(9) = 512 /\ Power(30) \in Nat
  BY ONLY DEF Power
<1> HIDE DEF made
<1>3. /\ \E k \in 1 .. 30 : size = Power(k)
      /\ nb <= Power(30) => size >= nb /\ (size > 2 => size \div 2 < nb)
  <2>1. CASE made \in Int /\ made < 0 /\ nb > Power(30)
    <3>1. size = Power(9)
      BY <1>2, <2>1
    <3> HIDE DEF size
    <3>2. ~(nb <= Power(30))
      BY <1>2, <2>1
    <3> QED
      BY <3>1, <3>2
  <2>2. ASSUME NEW k \in 1 .. 30, made = Power(k), nb <= Power(k), k > 1 => Power(k - 1) < nb
        PROVE  /\ \E j \in 1 .. 30 : size = Power(j)
               /\ nb <= Power(30) => size >= nb /\ (size > 2 => size \div 2 < nb)
    <3>1. /\ Power(k) \in Nat /\ Power(k) > 0
          /\ k = 1 => Power(k) = 2
          /\ k > 1 => Power(k) > 2 /\ Power(k) = 2 * Power(k - 1)
      BY ONLY Powers, k \in 1 .. 30
    <3>2. size = Power(k)
      BY <2>2, <3>1
    <3>3. size >= nb
      BY <2>2, <3>1, <3>2
    <3>4. size > 2 => size \div 2 < nb
      <4>1. CASE k = 1
        BY <3>1, <3>2, <4>1
      <4>2. CASE k > 1
        <5>1. Power(k - 1) \in Nat
          BY ONLY Powers, k \in 1 .. 30, <4>2
        <5>2. size = 2 * Power(k - 1)
          BY <3>1, <3>2, <4>2
        <5> QED
          BY <2>2, <4>2, <5>1, <5>2
      <4> QED
        BY <4>1, <4>2
    <3> QED
      BY <3>2, <3>3, <3>4
  <2> QED
    BY <1>1, <2>1, <2>2
<1> HIDE DEF size
<1>4. /\ \E k \in 1 .. 30 : size = 2 ^ k
      /\ nb <= 2 ^ 30 => size >= nb /\ (size > 2 => size \div 2 < nb)
  BY ONLY <1>3 DEF Power
<1> QED
  BY <1>4 DEF size, made

------------------------------------------------------------------------------
(* The inductive invariant                                                 *)

(* there is a shared segment *)
Shared == DOMAIN seg = {"init", "ldyn", "lastLdyn", "queue", "ref", "numEntry"}

(* the manager has read the INIT record *)
Knows == DOMAIN mng = {"params", "ldyn", "contexts", "unique_id", "stack_size", "pmode"}

NotStarted == {"start", "create", "init", "libs", "fork"}

(* Who has come how far: the segment is there before its first use, the    *)
(* libraries are written before the child starts, and the manager reads    *)
(* the parameters before all else.                                         *)
PhaseInv ==
  /\ scn \in Scenarios /\ now \in Nat /\ written \in Nat /\ written <= Len(scn.libs)
  /\ seg = NoSegment \/ Shared
  /\ ppc \in {"start", "create"} => seg = NoSegment
  /\ ppc \in {"libs", "fork", "run", "close", "ended"} => Shared
  /\ ppc \in NotStarted => cpc = "none"
  /\ ppc \in {"start", "create", "init"} => written = 0
  /\ ppc = "fork" \/ cpc # "none" => Shared /\ written = Len(scn.libs)
  /\ cpc \in {"none", "exec", "connect", "params"} => mng = Nothing
  /\ mng = Nothing \/ Knows
  /\ cpc \in {"libs", "context", "read", "save", "close", "ended"} => Knows

(* The parameters that the program has read, and the origin of its times.  *)
ConfInv ==
  ppc # "start" =>
    /\ conf.params = ReadEnv(ReadRessources(scn.env, scn.rc))
    /\ conf.first \in Nat /\ conf.first <= now /\ conf.max_clock \in Int

(* events with the time that has passed, as TimesExact says *)
RightEvents ==
  {e \in [type : {"enter", "quit"}, id : Nat, time : Int, elapsed : Nat] :
     \/ e.time = e.elapsed
     \/ conf.tmode = "CPU" /\ (e.elapsed = 0 \/ e.elapsed + conf.first >= U32)}

QueueInv == Shared => seg.queue \in Seq(RightEvents)

(* The INIT record that is in the segment, and that the manager has.       *)
IsRecord(r) == r = InitRecord(r.start_time)
RecordInv ==
  /\ Shared /\ ppc # "init" => IsRecord(seg.init)
  /\ Knows => mng.params = seg.init

(* the libraries that the table holds *)
Known == Min({Rank(written), MaxLdyn - 1})

(* the table of a program that has written so many: its first libraries    *)
IsTable(ldyn) ==
  /\ DOMAIN ldyn = 1 .. MaxLdyn
  /\ \A i \in 1 .. Known : \E j \in Listed : j <= written /\ Rank(j) = i /\ ldyn[i] = scn.libs[j]
  /\ \A i \in Known + 1 .. MaxLdyn : ldyn[i] = NoLib

(* the manager has what it has read of the table, and all of it at the end *)
IsRead(ldyn) ==
  /\ ldyn \in Seq([addr : Nat, name : STRING])
  /\ Len(ldyn) = seg.lastLdyn - 1
  /\ \A i \in DOMAIN ldyn : ldyn[i] = seg.ldyn[i]

AllRead == cpc \in {"context", "read", "save", "close", "ended"}

LibsInv ==
  Shared =>
    /\ IsTable(seg.ldyn)
    /\ seg.lastLdyn \in 1 .. Known + 1
    /\ ~Knows => seg.lastLdyn = 1
    /\ Knows => IsRead(mng.ldyn)
    /\ AllRead => seg.lastLdyn = Known + 1

------------------------------------------------------------------------------
(* Phases                                                                  *)

(* A segment that is not there has not the fields of one that is. *)
LEMMA NoneShared == seg = NoSegment => ~Shared
<1>1. DOMAIN NoSegment = {"ref"}
  BY DEF NoSegment
<1> QED
  BY <1>1 DEF Shared

(* The phases hold at the start ... *)
LEMMA PhaseInitially == Init => PhaseInv
<1>1. SUFFICES ASSUME Init PROVE PhaseInv
  OBVIOUS
<1>2. FirstNow \in Nat /\ Len(scn.libs) \in Nat
  BY SessionAssumption DEF Init
<1> QED
  BY <1>1, <1>2 DEF Init, PhaseInv, NotStarted

(* ... and in every step. *)
LEMMA PhaseStep == PhaseInv /\ [Next]_vars => PhaseInv'
<1>1. SUFFICES ASSUME PhaseInv, [Next]_vars PROVE PhaseInv'
  OBVIOUS
<1>2. Len(scn.libs) \in Nat /\ scn.steps \subseteq Nat
  BY <1>1, SessionAssumption DEF PhaseInv
<1>3. seg = NoSegment => ~Shared
  BY NoneShared
<1>4. CASE Configure
  BY <1>1, <1>2, <1>3, <1>4, SMTT(30) DEF Configure, PhaseInv, NotStarted, Shared, Knows, progVars, mngVars, fileVars, Clock, Put, Unref, Write
<1>5. CASE CreateFifo
  BY <1>1, <1>2, <1>3, <1>5, SMTT(30) DEF CreateFifo, PhaseInv, NotStarted, Shared, Knows, progVars, mngVars, fileVars, Clock, Put, Unref, Write
<1>6. CASE CreateFails
  BY <1>1, <1>2, <1>3, <1>6, SMTT(30) DEF CreateFails, PhaseInv, NotStarted, Shared, Knows, progVars, mngVars, fileVars, Clock, Put, Unref, Write
<1>7. CASE WriteInit
  BY <1>1, <1>2, <1>3, <1>7, SMTT(30) DEF WriteInit, PhaseInv, NotStarted, Shared, Knows, progVars, mngVars, fileVars, Clock, Put, Unref, Write
<1>8. CASE WriteLib
  BY <1>1, <1>2, <1>3, <1>8, SMTT(30) DEF WriteLib, PhaseInv, NotStarted, Shared, Knows, progVars, mngVars, fileVars, Clock, Put, Unref, Write
<1>9. CASE EndLibs
  BY <1>1, <1>2, <1>3, <1>9, SMTT(30) DEF EndLibs, PhaseInv, NotStarted, Shared, Knows, progVars, mngVars, fileVars, Clock, Put, Unref, Write
<1>10. CASE StartManager
  BY <1>1, <1>2, <1>3, <1>10, SMTT(30) DEF StartManager, PhaseInv, NotStarted, Shared, Knows, progVars, mngVars, fileVars, Clock, Put, Unref, Write
<1>11. CASE ForkFails
  BY <1>1, <1>2, <1>3, <1>11, SMTT(30) DEF ForkFails, PhaseInv, NotStarted, Shared, Knows, progVars, mngVars, fileVars, Clock, Put, Unref, Write
<1>12. CASE Send
  BY <1>1, <1>2, <1>3, <1>12, SMTT(30) DEF Send, PhaseInv, NotStarted, Shared, Knows, progVars, mngVars, fileVars, Clock, Put, Unref, Write
<1>13. CASE Exit
  BY <1>1, <1>2, <1>3, <1>13, SMTT(30) DEF Exit, PhaseInv, NotStarted, Shared, Knows, progVars, mngVars, fileVars, Clock, Put, Unref, Write
<1>14. CASE Quit
  BY <1>1, <1>2, <1>3, <1>14, SMTT(30) DEF Quit, PhaseInv, NotStarted, Shared, Knows, progVars, mngVars, fileVars, Clock, Put, Unref, Write
<1>15. CASE Close
  BY <1>1, <1>2, <1>3, <1>15, SMTT(30) DEF Close, PhaseInv, NotStarted, Shared, Knows, progVars, mngVars, fileVars, Clock, Put, Unref, Write
<1>16. CASE Exec
  BY <1>1, <1>2, <1>3, <1>16, SMTT(30) DEF Exec, PhaseInv, NotStarted, Shared, Knows, progVars, mngVars, fileVars, Clock, Put, Unref, Write
<1>17. CASE ExecFails
  BY <1>1, <1>2, <1>3, <1>17, SMTT(30) DEF ExecFails, PhaseInv, NotStarted, Shared, Knows, progVars, mngVars, fileVars, Clock, Put, Unref, Write
<1>18. CASE ChildQuit
  BY <1>1, <1>2, <1>3, <1>18, SMTT(30) DEF ChildQuit, PhaseInv, NotStarted, Shared, Knows, progVars, mngVars, fileVars, Clock, Put, Unref, Write
<1>19. CASE ChildClose
  BY <1>1, <1>2, <1>3, <1>19, SMTT(30) DEF ChildClose, PhaseInv, NotStarted, Shared, Knows, progVars, mngVars, fileVars, Clock, Put, Unref, Write
<1>20. CASE Connect
  BY <1>1, <1>2, <1>3, <1>20, SMTT(30) DEF Connect, PhaseInv, NotStarted, Shared, Knows, progVars, mngVars, fileVars, Clock, Put, Unref, Write
<1>21. CASE ConnectFails
  BY <1>1, <1>2, <1>3, <1>21, SMTT(30) DEF ConnectFails, PhaseInv, NotStarted, Shared, Knows, progVars, mngVars, fileVars, Clock, Put, Unref, Write
<1>22. CASE ReadInit
  BY <1>1, <1>2, <1>3, <1>22, SMTT(30) DEF ReadInit, PhaseInv, NotStarted, Shared, Knows, progVars, mngVars, fileVars, Clock, Put, Unref, Write
<1>23. CASE ReadLib
  BY <1>1, <1>2, <1>3, <1>23, SMTT(30) DEF ReadLib, PhaseInv, NotStarted, Shared, Knows, progVars, mngVars, fileVars, Clock, Put, Unref, Write
<1>24. CASE FirstContext
  BY <1>1, <1>2, <1>3, <1>24, SMTT(30) DEF FirstContext, PhaseInv, NotStarted, Shared, Knows, progVars, mngVars, fileVars, Clock, Put, Unref, Write
<1>25. CASE ReadEvent
  <2>1. DOMAIN mng' = DOMAIN mng /\ DOMAIN seg' = DOMAIN seg
    BY <1>25 DEF ReadEvent
  <2>2. cpc = "read" /\ UNCHANGED <<scn, now, ppc, conf, written, sent, cpc>>
    BY <1>25 DEF ReadEvent, progVars
  <2>3. Shared /\ Knows
    BY <1>1, <2>2 DEF PhaseInv
  <2>4. Shared' /\ Knows'
    BY <2>1, <2>3 DEF Shared, Knows
  <2> QED
    BY <1>1, <2>2, <2>3, <2>4 DEF PhaseInv, NotStarted
<1>26. CASE EndOfStream
  BY <1>1, <1>2, <1>3, <1>26, SMTT(30) DEF EndOfStream, PhaseInv, NotStarted, Shared, Knows, progVars, mngVars, fileVars, Clock, Put, Unref, Write
<1>27. CASE SaveContext
  BY <1>1, <1>2, <1>3, <1>27, SMTT(30) DEF SaveContext, PhaseInv, NotStarted, Shared, Knows, progVars, mngVars, fileVars, Clock, Put, Unref, Write
<1>28. CASE SaveFails
  BY <1>1, <1>2, <1>3, <1>28, SMTT(30) DEF SaveFails, PhaseInv, NotStarted, Shared, Knows, progVars, mngVars, fileVars, Clock, Put, Unref, Write
<1>29. CASE SaveDescriptor
  BY <1>1, <1>2, <1>3, <1>29, SMTT(30) DEF SaveDescriptor, PhaseInv, NotStarted, Shared, Knows, progVars, mngVars, fileVars, Clock, Put, Unref, Write
<1>30. CASE ManagerClose
  BY <1>1, <1>2, <1>3, <1>30, SMTT(30) DEF ManagerClose, PhaseInv, NotStarted, Shared, Knows, progVars, mngVars, fileVars, Clock, Put, Unref, Write
<1>31. CASE KilledInSave
  BY <1>1, <1>2, <1>3, <1>31, SMTT(30) DEF KilledInSave, PhaseInv, NotStarted, Shared, Knows, progVars, mngVars, fileVars, Clock, Put, Unref, Write
<1>32. CASE ManagerKilled
  BY <1>1, <1>2, <1>3, <1>32, SMTT(30) DEF ManagerKilled, PhaseInv, NotStarted, Shared, Knows, progVars, mngVars, fileVars, Clock, Put, Unref, Write
<1>33. CASE Dump
  BY <1>1, <1>2, <1>3, <1>33, SMTT(30) DEF Dump, PhaseInv, NotStarted, Shared, Knows, progVars, mngVars, fileVars, Clock, Put, Unref, Write
<1>34. CASE UNCHANGED vars
  BY <1>1, <1>34 DEF vars, PhaseInv, NotStarted, Shared, Knows, progVars, mngVars, fileVars
<1> QED
  BY <1>1, <1>4, <1>5, <1>6, <1>7, <1>8, <1>9, <1>10, <1>11, <1>12, <1>13, <1>14, <1>15, <1>16, <1>17, <1>18, <1>19, <1>20, <1>21, <1>22, <1>23, <1>24, <1>25, <1>26, <1>27, <1>28, <1>29, <1>30, <1>31, <1>32, <1>33, <1>34
     DEF Next, Program, Child, Receive, Finish

(* A step that leaves the parameters, the clock and the libraries alone,   *)
(* and of the segment all but the number of those that are attached.       *)
Quiet ==
  /\ UNCHANGED <<scn, now, conf, written>>
  /\ ppc' = "start" <=> ppc = "start"
  /\ Shared /\ ppc = "init" => ppc' = "init"
  /\ DOMAIN seg' = DOMAIN seg /\ DOMAIN mng' = DOMAIN mng
  /\ Shared => /\ seg'.init = seg.init /\ seg'.ldyn = seg.ldyn
               /\ seg'.lastLdyn = seg.lastLdyn /\ seg'.queue = seg.queue
  /\ Knows => mng'.params = mng.params /\ mng'.ldyn = mng.ldyn
  /\ AllRead' => AllRead

(* The steps that are not quiet. *)
LEMMA StepsOrQuiet ==
  ASSUME PhaseInv, [Next]_vars
  PROVE  \/ Configure \/ CreateFifo \/ WriteInit \/ WriteLib \/ EndLibs \/ Send \/ Quit
         \/ ChildQuit \/ ReadInit \/ ReadLib \/ ReadEvent \/ Quiet
<1>1. seg = NoSegment => ~Shared
  BY NoneShared
<1>3. ASSUME CreateFails PROVE Quiet
  BY <1>1, <1>3, SMTT(30) DEF CreateFails, PhaseInv, NotStarted, Quiet, Shared, Knows, AllRead, progVars, mngVars, fileVars, Unref, Write
<1>4. ASSUME StartManager PROVE Quiet
  BY <1>1, <1>4, SMTT(30) DEF StartManager, PhaseInv, NotStarted, Quiet, Shared, Knows, AllRead, progVars, mngVars, fileVars, Unref, Write
<1>5. ASSUME ForkFails PROVE Quiet
  BY <1>1, <1>5, SMTT(30) DEF ForkFails, PhaseInv, NotStarted, Quiet, Shared, Knows, AllRead, progVars, mngVars, fileVars, Unref, Write
<1>6. ASSUME Exit PROVE Quiet
  BY <1>1, <1>6, SMTT(30) DEF Exit, PhaseInv, NotStarted, Quiet, Shared, Knows, AllRead, progVars, mngVars, fileVars, Unref, Write
<1>7. ASSUME Close PROVE Quiet
  BY <1>1, <1>7, SMTT(30) DEF Close, PhaseInv, NotStarted, Quiet, Shared, Knows, AllRead, progVars, mngVars, fileVars, Unref, Write
<1>8. ASSUME Exec PROVE Quiet
  BY <1>1, <1>8, SMTT(30) DEF Exec, PhaseInv, NotStarted, Quiet, Shared, Knows, AllRead, progVars, mngVars, fileVars, Unref, Write
<1>9. ASSUME ExecFails PROVE Quiet
  BY <1>1, <1>9, SMTT(30) DEF ExecFails, PhaseInv, NotStarted, Quiet, Shared, Knows, AllRead, progVars, mngVars, fileVars, Unref, Write
<1>10. ASSUME ChildClose PROVE Quiet
  BY <1>1, <1>10, SMTT(30) DEF ChildClose, PhaseInv, NotStarted, Quiet, Shared, Knows, AllRead, progVars, mngVars, fileVars, Unref, Write
<1>11. ASSUME Connect PROVE Quiet
  BY <1>1, <1>11, SMTT(30) DEF Connect, PhaseInv, NotStarted, Quiet, Shared, Knows, AllRead, progVars, mngVars, fileVars, Unref, Write
<1>12. ASSUME ConnectFails PROVE Quiet
  BY <1>1, <1>12, SMTT(30) DEF ConnectFails, PhaseInv, NotStarted, Quiet, Shared, Knows, AllRead, progVars, mngVars, fileVars, Unref, Write
<1>13. ASSUME FirstContext PROVE Quiet
  BY <1>1, <1>13, SMTT(30) DEF FirstContext, PhaseInv, NotStarted, Quiet, Shared, Knows, AllRead, progVars, mngVars, fileVars, Unref, Write
<1>14. ASSUME EndOfStream PROVE Quiet
  BY <1>1, <1>14, SMTT(30) DEF EndOfStream, PhaseInv, NotStarted, Quiet, Shared, Knows, AllRead, progVars, mngVars, fileVars, Unref, Write
<1>15. ASSUME SaveContext PROVE Quiet
  BY <1>1, <1>15, SMTT(30) DEF SaveContext, PhaseInv, NotStarted, Quiet, Shared, Knows, AllRead, progVars, mngVars, fileVars, Unref, Write
<1>16. ASSUME SaveFails PROVE Quiet
  BY <1>1, <1>16, SMTT(30) DEF SaveFails, PhaseInv, NotStarted, Quiet, Shared, Knows, AllRead, progVars, mngVars, fileVars, Unref, Write
<1>17. ASSUME SaveDescriptor PROVE Quiet
  BY <1>1, <1>17, SMTT(30) DEF SaveDescriptor, PhaseInv, NotStarted, Quiet, Shared, Knows, AllRead, progVars, mngVars, fileVars, Unref, Write
<1>18. ASSUME ManagerClose PROVE Quiet
  BY <1>1, <1>18, SMTT(30) DEF ManagerClose, PhaseInv, NotStarted, Quiet, Shared, Knows, AllRead, progVars, mngVars, fileVars, Unref, Write
<1>19. ASSUME KilledInSave PROVE Quiet
  BY <1>1, <1>19, SMTT(30) DEF KilledInSave, PhaseInv, NotStarted, Quiet, Shared, Knows, AllRead, progVars, mngVars, fileVars, Unref, Write
<1>20. ASSUME ManagerKilled PROVE Quiet
  BY <1>1, <1>20, SMTT(30) DEF ManagerKilled, PhaseInv, NotStarted, Quiet, Shared, Knows, AllRead, progVars, mngVars, fileVars, Unref, Write
<1>21. ASSUME Dump PROVE Quiet
  BY <1>1, <1>21, SMTT(30) DEF Dump, PhaseInv, NotStarted, Quiet, Shared, Knows, AllRead, progVars, mngVars, fileVars, Unref, Write
<1>22. ASSUME UNCHANGED vars PROVE Quiet
  BY <1>22 DEF vars, Quiet, Shared, Knows, AllRead, progVars, mngVars, fileVars
<1> QED
  BY <1>3, <1>4, <1>5, <1>6, <1>7, <1>8, <1>9, <1>10, <1>11, <1>12, <1>13, <1>14, <1>15, <1>16, <1>17, <1>18, <1>19, <1>20, <1>21, <1>22
     DEF Next, Program, Child, Receive, Finish

------------------------------------------------------------------------------
(* The parameters and the times                                            *)

(* A clock that runs: what the three steps that look at it make of it.     *)
LEMMA ClockRuns ==
  ASSUME PhaseInv, Clock
  PROVE  now' \in Nat /\ now <= now'
<1>1. now \in Nat /\ scn.steps \subseteq Nat
  BY SessionAssumption DEF PhaseInv
<1>2. PICK d \in scn.steps : now' = now + d
  BY DEF Clock
<1> QED
  BY <1>1, <1>2

(* The parameters are read once, and the clock does not go back behind the *)
(* origin of the times.                                                    *)
LEMMA ConfStep ==
  ASSUME PhaseInv, ConfInv, [Next]_vars
  PROVE  ConfInv'
<1>1. CASE Configure
  <2>1. now \in Nat /\ UNCHANGED <<scn, now>>
    BY <1>1 DEF PhaseInv, Configure
  <2>2. U32 \div 2 - 1 \in Int
    BY ConfigAssumption
  <2>3. MaxClocks \cup {0} \subseteq Int
    BY <2>2 DEF MaxClocks
  <2>4. \E max_clock \in MaxClocks \cup {0} :
          /\ conf'.params = ReadEnv(ReadRessources(scn.env, scn.rc))
          /\ conf'.first = now /\ conf'.max_clock = max_clock
    BY <1>1 DEF Configure
  <2> QED
    BY <2>1, <2>3, <2>4 DEF ConfInv
<1>2. ASSUME UNCHANGED <<scn, conf>>, ppc' = "start" <=> ppc = "start", now' \in Nat, now <= now'
      PROVE  ConfInv'
  <2>1. now \in Nat
    BY DEF PhaseInv
  <2> QED
    BY <1>2, <2>1 DEF ConfInv
<1>3. now \in Nat
  BY DEF PhaseInv
<1>4. CASE CreateFifo \/ WriteLib \/ EndLibs \/ ChildQuit \/ ReadInit \/ ReadLib \/ ReadEvent
  <2> DEFINE Still == UNCHANGED <<scn, now, conf>> /\ (ppc' = "start" <=> ppc = "start")
  <2>1. CreateFifo => Still
    BY DEF CreateFifo, progVars
  <2>2. WriteLib => Still
    BY DEF WriteLib, progVars
  <2>3. EndLibs => Still
    BY DEF EndLibs, progVars
  <2>4. ChildQuit => Still
    BY DEF ChildQuit, progVars
  <2>5. ReadInit => Still
    BY DEF ReadInit, progVars
  <2>6. ReadLib => Still
    BY DEF ReadLib, progVars
  <2>7. ReadEvent => Still
    BY DEF ReadEvent, progVars
  <2> QED
    BY <1>2, <1>3, <1>4, <2>1, <2>2, <2>3, <2>4, <2>5, <2>6, <2>7
<1>5. CASE WriteInit \/ Send \/ Quit
  <2>1. UNCHANGED <<scn, conf>> /\ (ppc' = "start" <=> ppc = "start")
    BY <1>5 DEF WriteInit, Send, Quit
  <2>2. Clock \/ UNCHANGED now
    BY <1>5 DEF WriteInit, Send, Quit
  <2>3. now' \in Nat /\ now <= now'
    BY <1>3, <2>2, ClockRuns
  <2> QED
    BY <1>2, <2>1, <2>3
<1>6. CASE Quiet
  BY <1>2, <1>3, <1>6 DEF Quiet
<1> QED
  BY <1>1, <1>4, <1>5, <1>6, StepsOrQuiet

(* An event is stamped with the time that has passed. *)
LEMMA EventRight ==
  ASSUME ConfInv, ppc # "start", NEW type \in {"enter", "quit"}, NEW id \in Nat,
         NEW time \in Nat, now \in Nat, now <= time
  PROVE  Event(type, id, time) \in RightEvents
<1>1. conf.first \in Nat /\ conf.first <= time /\ conf.max_clock \in Int
  BY DEF ConfInv
<1>2. U32 \in Nat
  BY ConfigAssumption
<1>3. /\ Stamp(conf, time) \in Int
      /\ \/ Stamp(conf, time) = time - conf.first
         \/ conf.tmode = "CPU" /\ (time - conf.first = 0 \/ time >= U32)
  BY <1>1, StampIsElapsed
<1>4. time - conf.first \in Nat /\ time - conf.first + conf.first = time
  BY <1>1
<1> QED
  BY <1>3, <1>4 DEF Event, RightEvents

(* It stays right in the queue. *)
LEMMA PutRight ==
  ASSUME Shared, QueueInv, NEW event \in RightEvents
  PROVE  Put(event).queue \in Seq(RightEvents)
<1>1. seg.queue \in Seq(RightEvents)
  BY DEF QueueInv
<1>2. Append(seg.queue, event) \in Seq(RightEvents)
  BY <1>1
<1>3. CASE Len(seg.queue) < seg.numEntry
  BY <1>2, <1>3 DEF Put, Shared
<1>4. CASE ~(Len(seg.queue) < seg.numEntry)
  BY <1>1, <1>4 DEF Put
<1> QED
  BY <1>3, <1>4

(* Only events with the right time get into the queue. *)
LEMMA QueueStep ==
  ASSUME PhaseInv, ConfInv, QueueInv, [Next]_vars
  PROVE  QueueInv'
<1>1. now \in Nat /\ (seg = NoSegment => ~Shared)
  BY NoneShared DEF PhaseInv
<1>2. UNCHANGED conf => RightEvents' = RightEvents
  BY DEF RightEvents
<1>3. CASE Configure
  <2>1. ~Shared /\ UNCHANGED seg
    BY <1>1, <1>3 DEF Configure, PhaseInv
  <2> QED
    BY <2>1 DEF QueueInv, Shared
<1>4. CASE CreateFifo
  <2>1. seg'.queue = <<>>
    BY <1>4 DEF CreateFifo
  <2> QED
    BY <2>1 DEF QueueInv
<1>5. ASSUME UNCHANGED conf, DOMAIN seg' = DOMAIN seg, Shared => seg'.queue = seg.queue
      PROVE  QueueInv'
  BY <1>2, <1>5 DEF QueueInv, Shared
<1>6. CASE WriteInit
  BY <1>5, <1>6 DEF WriteInit, Shared
<1>7. CASE WriteLib \/ EndLibs
  BY <1>5, <1>7 DEF WriteLib, EndLibs, Shared
<1>8. CASE ReadInit \/ ReadLib
  BY <1>5, <1>8 DEF ReadInit, ReadLib, progVars, Shared
<1>9. CASE Quiet
  BY <1>5, <1>9 DEF Quiet
<1>10. ASSUME UNCHANGED conf, Shared, NEW event \in RightEvents, seg' = Put(event)
       PROVE  QueueInv'
  <2>1. Put(event).queue \in Seq(RightEvents)
    BY ONLY <1>10, QueueInv, PutRight
  <2> QED
    BY <1>2, <1>10, <2>1 DEF QueueInv
<1>11. CASE Send
  <2>1. PICK id \in {1, 2} : seg' = Put(Event("enter", id, now'))
    BY <1>11 DEF Send
  <2>2. now' \in Nat /\ now <= now' /\ UNCHANGED conf /\ ppc = "run"
    BY <1>11, ClockRuns DEF Send
  <2>3. Event("enter", id, now') \in RightEvents
    BY <1>1, <2>2, EventRight
  <2>4. Shared
    BY <2>2 DEF PhaseInv
  <2> QED
    BY <1>10, <2>1, <2>2, <2>3, <2>4
<1>12. CASE Quit
  <2>1. CASE seg = NoSegment
    BY <1>5, <1>12, <2>1 DEF Quit
  <2>2. CASE seg # NoSegment
    <3>1. now' \in Nat /\ now <= now' /\ UNCHANGED conf /\ ppc = "exit"
      BY <1>12, <2>2, ClockRuns DEF Quit
    <3>2. Event("quit", 1, now') \in RightEvents
      BY <1>1, <3>1, EventRight
    <3>3. Shared /\ seg' = Put(Event("quit", 1, now'))
      BY <1>12, <2>2 DEF Quit, PhaseInv
    <3> QED
      BY <1>10, <3>1, <3>2, <3>3
  <2> QED
    BY <2>1, <2>2
<1>13. CASE ChildQuit
  <2>1. UNCHANGED conf /\ cpc = "quit" /\ seg' = Put(Event("quit", 3, now))
    BY <1>13 DEF ChildQuit, progVars
  <2>2. Shared /\ ppc # "start"
    BY <2>1 DEF PhaseInv, NotStarted
  <2>3. Event("quit", 3, now) \in RightEvents
    BY <1>1, <2>2, EventRight
  <2> QED
    BY <1>10, <2>1, <2>2, <2>3
<1>14. CASE ReadEvent
  <2>1. UNCHANGED conf /\ DOMAIN seg' = DOMAIN seg
    BY <1>14 DEF ReadEvent, progVars
  <2>2. Shared /\ seg.queue # <<>> /\ seg'.queue = Tail(seg.queue)
    <3>1. Shared
      BY <1>14 DEF ReadEvent, PhaseInv
    <3> QED
      BY <1>14, <3>1 DEF ReadEvent, Shared
  <2>3. Tail(seg.queue) \in Seq(RightEvents)
    BY <2>2 DEF QueueInv
  <2> QED
    BY <1>2, <2>1, <2>2, <2>3 DEF QueueInv
<1> QED
  BY <1>3, <1>4, <1>6, <1>7, <1>8, <1>9, <1>11, <1>12, <1>13, <1>14, StepsOrQuiet

(* What the manager reads of an event's time is the time since the program *)
(* has started, in the three time modes, for any clocks and any scenario.  *)
THEOREM TimesAreExact == Spec => []TimesExact
<1>1. Init => PhaseInv /\ ConfInv /\ QueueInv
  <2>1. SUFFICES ASSUME Init PROVE PhaseInv /\ ConfInv /\ QueueInv
    OBVIOUS
  <2>2. ~Shared /\ ppc = "start"
    BY <2>1, NoneShared DEF Init
  <2> QED
    BY <2>1, <2>2, PhaseInitially DEF ConfInv, QueueInv
<1>2. PhaseInv /\ ConfInv /\ QueueInv /\ [Next]_vars => (PhaseInv /\ ConfInv /\ QueueInv)'
  BY PhaseStep, ConfStep, QueueStep
<1>3. PhaseInv /\ QueueInv => TimesExact
  <2>1. SUFFICES ASSUME PhaseInv, QueueInv PROVE TimesExact
    OBVIOUS
  <2>2. seg # NoSegment => seg.queue \in Seq(RightEvents)
    BY <2>1 DEF PhaseInv, QueueInv
  <2>3. seg # NoSegment => \A i \in DOMAIN seg.queue : seg.queue[i] \in RightEvents
    BY <2>2
  <2> QED
    BY <2>3 DEF TimesExact, RightEvents
<1> QED
  BY <1>1, <1>2, <1>3, PTL DEF Spec

------------------------------------------------------------------------------
(* What the manager is told                                                *)

(* A manager that knows nothing has no fields. *)
LEMMA NothingKnown == mng = Nothing => ~Knows
<1>1. DOMAIN <<>> = {}
  OBVIOUS
<1> QED
  BY <1>1 DEF Nothing, Knows

(* The record is written once, before the manager reads it. *)
LEMMA RecordStep ==
  ASSUME PhaseInv, RecordInv, [Next]_vars
  PROVE  RecordInv'
<1> DEFINE Kept == /\ UNCHANGED <<scn, conf>> /\ DOMAIN seg' = DOMAIN seg
                   /\ Shared => seg'.init = seg.init
                   /\ DOMAIN mng' = DOMAIN mng
                   /\ Knows => mng'.params = mng.params
                   /\ Shared /\ ppc = "init" => ppc' = "init"
<1>1. /\ seg = NoSegment => ~Shared
      /\ mng = Nothing => ~Knows
  BY NoneShared, NothingKnown
<1>2. ASSUME UNCHANGED <<scn, conf>>, seg'.init = seg.init, IsRecord(seg.init)
      PROVE  IsRecord(seg.init)'
  BY <1>2 DEF IsRecord, InitRecord
<1>3. Knows => Shared
  BY <1>1 DEF PhaseInv
<1>4. ASSUME Kept PROVE RecordInv'
  <2>1. Shared' = Shared /\ Knows' = Knows
    BY <1>4 DEF Shared, Knows
  <2>2. Shared' /\ ppc' # "init" => IsRecord(seg.init)'
    BY <1>2, <1>4, <2>1 DEF RecordInv
  <2>3. Knows' => mng'.params = seg'.init
    BY <1>3, <1>4, <2>1 DEF RecordInv
  <2> QED
    BY <2>2, <2>3 DEF RecordInv
<1>5. CASE Configure
  <2>1. ppc = "start" /\ UNCHANGED <<seg, mng>>
    BY <1>5 DEF Configure, mngVars
  <2>2. ~Shared /\ ~Knows
    BY <1>1, <2>1 DEF PhaseInv, NotStarted
  <2> QED
    BY <2>1, <2>2 DEF RecordInv, Shared, Knows
<1>6. CASE CreateFifo
  <2>1. ppc = "create" /\ ppc' = "init" /\ UNCHANGED mng
    BY <1>6 DEF CreateFifo, mngVars
  <2>2. ~Knows
    BY <1>1, <2>1 DEF PhaseInv, NotStarted
  <2> QED
    BY <2>1, <2>2 DEF RecordInv, Knows
<1>7. CASE WriteInit
  <2>1. ppc = "init" /\ UNCHANGED <<mng, scn, conf>>
    BY <1>7 DEF WriteInit, mngVars
  <2>2. ~Knows
    BY <1>1, <2>1 DEF PhaseInv, NotStarted
  <2>3. CASE seg = NoSegment
    BY <1>1, <1>7, <2>1, <2>2, <2>3 DEF WriteInit, RecordInv, Shared, Knows
  <2>4. CASE seg # NoSegment
    <3>1. Shared
      BY <2>4 DEF PhaseInv
    <3>2. seg'.init = InitRecord(Stamp(conf, now'))
      BY <1>7, <2>4, <3>1 DEF WriteInit, Shared
    <3>3. InitRecord(Stamp(conf, now')).start_time = Stamp(conf, now')
      BY DEF InitRecord
    <3>4. seg'.init = InitRecord(seg'.init.start_time)
      BY <3>2, <3>3
    <3>5. IsRecord(seg.init)'
      BY <2>1, <3>4 DEF IsRecord, InitRecord
    <3> QED
      BY <2>1, <2>2, <3>5 DEF RecordInv, Knows
  <2> QED
    BY <2>3, <2>4
<1>8. CASE WriteLib
  <2>1. Kept
    BY <1>8 DEF WriteLib, Shared, mngVars
  <2> QED
    BY <1>4, <2>1
<1>9. CASE EndLibs
  <2>1. Kept
    BY <1>9 DEF EndLibs, Shared, mngVars
  <2> QED
    BY <1>4, <2>1
<1>10. CASE Send
  <2>1. Kept
    BY <1>10 DEF Send, Put, Shared, mngVars
  <2> QED
    BY <1>4, <2>1
<1>11. CASE Quit
  <2>1. Kept
    BY <1>11 DEF Quit, Put, Shared, mngVars
  <2> QED
    BY <1>4, <2>1
<1>12. CASE ChildQuit
  <2>1. Kept
    BY <1>12 DEF ChildQuit, Put, Shared, progVars
  <2> QED
    BY <1>4, <2>1
<1>13. CASE ReadInit
  <2>1. UNCHANGED <<scn, conf, seg, ppc>> /\ mng'.params = seg.init
    BY <1>13 DEF ReadInit, progVars
  <2>2. Shared' = Shared
    BY <2>1 DEF Shared
  <2>3. Shared' /\ ppc' # "init" => IsRecord(seg.init)'
    BY <1>2, <2>1, <2>2 DEF RecordInv
  <2> QED
    BY <2>1, <2>3 DEF RecordInv
<1>14. CASE ReadLib
  <2>1. Kept
    BY <1>14 DEF ReadLib, Shared, Knows, progVars
  <2> QED
    BY <1>4, <2>1
<1>15. CASE ReadEvent
  <2>1. UNCHANGED <<scn, conf, ppc>> /\ DOMAIN seg' = DOMAIN seg /\ DOMAIN mng' = DOMAIN mng
    BY <1>15 DEF ReadEvent, progVars
  <2>2. Shared => seg'.init = seg.init
    BY <1>15 DEF ReadEvent, Shared
  <2>3. Knows => mng'.params = mng.params
    BY <1>15 DEF ReadEvent, Knows
  <2> QED
    BY <1>4, <2>1, <2>2, <2>3
<1>16. CASE Quiet
  BY <1>4, <1>16 DEF Quiet
<1> QED
  BY <1>5, <1>6, <1>7, <1>8, <1>9, <1>10, <1>11, <1>12, <1>13, <1>14, <1>15, <1>16, StepsOrQuiet

(* The manager has the record of the program, made of the parameters that  *)
(* the program has read.                                                   *)
Told ==
  HasParams => /\ scn \in Scenarios /\ IsRecord(mng.params)
               /\ conf.params = ReadEnv(ReadRessources(scn.env, scn.rc))

(* In every state the manager has the record that stems from the parameters. *)
LEMMA RecordIsTold == Spec => []Told
<1>1. Init => PhaseInv /\ ConfInv /\ RecordInv
  <2>1. SUFFICES ASSUME Init PROVE PhaseInv /\ ConfInv /\ RecordInv
    OBVIOUS
  <2>2. ~Shared /\ ~Knows /\ ppc = "start"
    BY <2>1, NoneShared, NothingKnown DEF Init
  <2> QED
    BY <2>1, <2>2, PhaseInitially DEF ConfInv, RecordInv
<1>2. PhaseInv /\ ConfInv /\ RecordInv /\ [Next]_vars => (PhaseInv /\ ConfInv /\ RecordInv)'
  BY PhaseStep, ConfStep, RecordStep
<1>3. PhaseInv /\ ConfInv /\ RecordInv => Told
  <2>1. SUFFICES ASSUME PhaseInv, ConfInv, RecordInv, HasParams PROVE Told
    BY DEF Told
  <2>2. Knows /\ cpc # "none"
    BY <2>1 DEF PhaseInv, HasParams
  <2>3. Shared /\ ppc \notin NotStarted
    BY <2>1, <2>2 DEF PhaseInv
  <2>4. ppc # "start" /\ ppc # "init"
    BY <2>3 DEF NotStarted
  <2> QED
    BY <2>1, <2>2, <2>3, <2>4 DEF PhaseInv, ConfInv, RecordInv, Told
<1> QED
  BY <1>1, <1>2, <1>3, PTL DEF Spec

(* The parameters that the manager works with are those that the user has  *)
(* asked for, in the resource file or in the environment, whatever these   *)
(* say and whatever fails; its mode is that of the program.                *)
THEOREM ParametersAgree == Spec => []ParamsAgree
<1>1. Told => ParamsAgree
  <2>1. SUFFICES ASSUME Told, HasParams PROVE ParamsAgree
    BY DEF ParamsAgree
  <2> DEFINE c == ReadEnv(ReadRessources(scn.env, scn.rc))
  <2>2. /\ scn \in Scenarios /\ mng.params = InitRecord(mng.params.start_time) /\ conf.params = c
    BY <2>1 DEF Told, IsRecord
  <2>3. IsFile(scn.rc)
    BY <2>2, SessionAssumption DEF IsFile
  <2> HIDE DEF c
  <2>4. /\ mng.params.mode = conf.mode
        /\ mng.params.dump_name = c.dump_name /\ mng.params.dump_path = c.dump_path
        /\ mng.params.use_pid = c.use_pid
        /\ mng.params.memory = IF scn.build.memory /\ c.use_memory THEN c.memory_stack ELSE -1
    BY <2>2 DEF InitRecord
  <2>5. ASSUME WellFormed(scn.rc)
        PROVE  LET asked == ReadEnv(AskedEnv(scn.env, scn.rc)) IN
                 /\ mng.params.dump_name = asked.dump_name
                 /\ mng.params.dump_path = asked.dump_path
                 /\ mng.params.use_pid = asked.use_pid
                 /\ mng.params.memory >= 0 => asked.use_memory /\ mng.params.memory = asked.memory_stack
                 /\ asked.use_memory /\ scn.build.memory => mng.params.memory = asked.memory_stack
    <3> DEFINE asked == ReadEnv(AskedEnv(scn.env, scn.rc))
    <3>1. /\ c.dump_name = asked.dump_name /\ c.dump_path = asked.dump_path
          /\ c.use_pid = asked.use_pid /\ c.use_memory = asked.use_memory
          /\ c.memory_stack = asked.memory_stack
      BY <2>3, <2>5, ParametersAsked DEF c
    <3> HIDE DEF asked
    <3>2. mng.params.memory >= 0 => asked.use_memory /\ mng.params.memory = asked.memory_stack
      BY <2>4, <3>1
    <3>3. asked.use_memory /\ scn.build.memory => mng.params.memory = asked.memory_stack
      BY <2>4, <3>1
    <3> QED
      BY <2>4, <3>1, <3>2, <3>3 DEF asked
  <2> QED
    BY <2>4, <2>5 DEF ParamsAgree
<1> QED
  BY <1>1, RecordIsTold, PTL

(* fc_fhash_create gets a power of two, with the room that the user asks   *)
(* for as far as an int holds it, whatever number the user gives.          *)
THEOREM TableSizeIsPower == Spec => []TableIsPower
<1>1. Told => TableIsPower
  <2>1. SUFFICES ASSUME Told, HasParams PROVE TableIsPower
    BY DEF TableIsPower
  <2> DEFINE env == ReadRessources(scn.env, scn.rc)
             nb == conf.params.function_size
  <2>2. mng.params = InitRecord(mng.params.start_time) /\ conf.params = ReadEnv(env)
    BY <2>1 DEF Told, IsRecord
  <2> HIDE DEF env
  <2>3. nb = EnvInteger(env, "FC_FUNCTION_SIZE", 64 * 1024)
    BY <2>2 DEF ReadEnv
  <2>4. \A n \in DOMAIN Numerals : Numerals[n] \in Int
    BY ConfigAssumption DEF Range
  <2>5. nb \in Int
    BY <2>3, <2>4 DEF EnvInteger
  <2>6. mng.params.function_size = CheckPower(nb)
    BY <2>2 DEF InitRecord
  <2> HIDE DEF nb
  <2>7. LET size == IF CheckPower(nb) > 0 THEN CheckPower(nb) ELSE 512 IN
        /\ \E k \in 1 .. 30 : size = 2 ^ k
        /\ nb <= 2 ^ 30 => size >= nb /\ (size > 2 => size \div 2 < nb)
    BY <2>5, TableSize
  <2> DEFINE fs == mng.params.function_size
             size == IF fs > 0 THEN fs ELSE 512
  <2> HIDE DEF fs
  <2>8. fs = CheckPower(nb)
    BY <2>6 DEF fs
  <2>9. size = IF CheckPower(nb) > 0 THEN CheckPower(nb) ELSE 512
    BY ONLY <2>8, Zenon
  <2> HIDE DEF size
  <2> DEFINE Large(n) == \E k \in 1 .. 30 : n = 2 ^ k
             Fits(n) == nb <= 2 ^ 30 => n >= nb /\ (n > 2 => n \div 2 < nb)
  <2>10. /\ Large(IF CheckPower(nb) > 0 THEN CheckPower(nb) ELSE 512)
         /\ Fits(IF CheckPower(nb) > 0 THEN CheckPower(nb) ELSE 512)
    BY ONLY <2>7, Zenon DEF Large, Fits
  <2> HIDE DEF Large, Fits
  <2>11. Large(size) /\ Fits(size)
    BY ONLY <2>9, <2>10, Zenon
  <2>12. TableIsPower <=> (HasParams => Large(size) /\ Fits(size))
    BY ONLY Zenon DEF TableIsPower, Large, Fits, size, fs, nb
  <2> QED
    BY ONLY <2>11, <2>12, Zenon
<1> QED
  BY <1>1, RecordIsTold, PTL

------------------------------------------------------------------------------
(* The libraries                                                           *)

(* What the minimum of two numbers is. *)
LEMMA LesserOfTwo ==
  ASSUME NEW a \in Int, NEW b \in Int
  PROVE  Min({a, b}) = IF a <= b THEN a ELSE b
<1>1. \E x \in {a, b} : \A y \in {a, b} : x <= y
  OBVIOUS
<1>2. Min({a, b}) \in {a, b} /\ \A y \in {a, b} : Min({a, b}) <= y
  BY <1>1 DEF Min
<1> QED
  BY <1>2

(* The libraries are finitely many. *)
LEMMA ListedFinite ==
  ASSUME scn \in Scenarios
  PROVE  /\ Len(scn.libs) \in Nat /\ DOMAIN scn.libs = 1 .. Len(scn.libs)
         /\ Listed \subseteq 1 .. Len(scn.libs) /\ IsFiniteSet(Listed) /\ Cardinality(Listed) \in Nat
<1>1. scn.libs \in Seq([addr : Nat, name : STRING])
  BY SessionAssumption
<1>2. Len(scn.libs) \in Nat /\ DOMAIN scn.libs = 1 .. Len(scn.libs)
  BY <1>1
<1>3. Listed \subseteq 1 .. Len(scn.libs)
  BY <1>2 DEF Listed
<1>4. IsFiniteSet(Listed)
  <2>1. IsFiniteSet(1 .. Len(scn.libs))
    BY <1>2, FS_Interval
  <2> QED
    BY <1>3, <2>1, FS_Subset
<1> QED
  BY <1>2, <1>3, <1>4, FS_CardinalityType

(* How the rank goes up. *)
LEMMA RankGoesUp ==
  ASSUME scn \in Scenarios, NEW i \in Nat
  PROVE  /\ Rank(i) \in Nat
         /\ Rank(0) = 0
         /\ i + 1 \in Listed => Rank(i + 1) = Rank(i) + 1
         /\ i + 1 \notin Listed => Rank(i + 1) = Rank(i)
<1> DEFINE UpToThere(w) == {j \in Listed : j <= w}
<1>1. IsFiniteSet(Listed) /\ \A j \in Listed : j \in Nat /\ j >= 1
  BY ListedFinite
<1>2. \A w : IsFiniteSet(UpToThere(w)) /\ Cardinality(UpToThere(w)) \in Nat
  BY <1>1, FS_Subset, FS_CardinalityType
<1>3. Rank(0) = 0
  <2>1. \A j \in Listed : ~(j <= 0)
    BY <1>1
  <2>2. UpToThere(0) = {}
    BY ONLY <2>1
  <2> QED
    BY <2>2, FS_EmptySet DEF Rank
<1>4. CASE i + 1 \in Listed
  <2>1. \A j \in Listed : j <= i + 1 <=> j <= i \/ j = i + 1
    BY <1>1
  <2>2. ~(i + 1 <= i)
    OBVIOUS
  <2>3. UpToThere(i + 1) = UpToThere(i) \cup {i + 1} /\ i + 1 \notin UpToThere(i)
    BY ONLY <1>4, <2>1, <2>2, Zenon
  <2>4. Cardinality(UpToThere(i) \cup {i + 1}) = Cardinality(UpToThere(i)) + 1
    BY <1>2, <2>3, FS_AddElement
  <2> QED
    BY <1>2, <1>3, <1>4, <2>3, <2>4 DEF Rank
<1>5. CASE i + 1 \notin Listed
  <2>1. \A j \in Listed : j <= i + 1 <=> j <= i
    BY <1>1, <1>5
  <2>2. UpToThere(i + 1) = UpToThere(i)
    BY ONLY <2>1, Zenon
  <2> QED
    BY <1>2, <1>3, <1>5, <2>2 DEF Rank
<1> QED
  BY <1>4, <1>5

(* Libraries have different ranks, and one that is written by then is      *)
(* among the first.                                                        *)
LEMMA RanksDiffer ==
  ASSUME scn \in Scenarios, NEW i \in Nat, NEW j \in Listed
  PROVE  /\ i < j => Rank(i) < Rank(j)
         /\ Rank(i) \in Nat /\ Rank(j) \in Nat
<1> DEFINE UpToThere(w) == {k \in Listed : k <= w}
<1>1. IsFiniteSet(Listed) /\ \A k \in Listed : k \in Nat
  BY ListedFinite
<1>2. \A w : IsFiniteSet(UpToThere(w)) /\ Cardinality(UpToThere(w)) \in Nat
  BY <1>1, FS_Subset, FS_CardinalityType
<1>3. ASSUME i < j PROVE Cardinality(UpToThere(i)) < Cardinality(UpToThere(j))
  <2>1. \A k \in Listed : k <= i => k <= j
    BY <1>1, <1>3
  <2>2. j <= j /\ ~(j <= i)
    BY <1>1, <1>3
  <2>3. UpToThere(i) \subseteq UpToThere(j) /\ j \in UpToThere(j) /\ j \notin UpToThere(i)
    BY ONLY j \in Listed, <2>1, <2>2, Zenon
  <2> HIDE DEF UpToThere
  <2>4. /\ Cardinality(UpToThere(i)) <= Cardinality(UpToThere(j))
        /\ Cardinality(UpToThere(i)) = Cardinality(UpToThere(j)) => UpToThere(i) = UpToThere(j)
    BY <1>2, <2>3, FS_Subset
  <2> QED
    BY <1>2, <2>3, <2>4
<1> QED
  BY <1>2, <1>3 DEF Rank

(* No more libraries are known than the table has slots but one.           *)
LEMMA KnownBounds ==
  ASSUME PhaseInv
  PROVE  /\ Rank(written) \in Nat /\ Known \in Nat /\ Known <= MaxLdyn - 1
         /\ Known = IF Rank(written) <= MaxLdyn - 1 THEN Rank(written) ELSE MaxLdyn - 1
<1>1. MaxLdyn - 1 \in Nat
  BY SessionAssumption
<1>2. Rank(written) \in Nat
  BY RankGoesUp DEF PhaseInv
<1>3. Known = IF Rank(written) <= MaxLdyn - 1 THEN Rank(written) ELSE MaxLdyn - 1
  BY <1>1, <1>2, LesserOfTwo DEF Known
<1> QED
  BY <1>1, <1>2, <1>3

(* a library that is listed is not an empty slot *)
LEMMA ListedIsLib ==
  ASSUME scn \in Scenarios, NEW j \in Listed
  PROVE  /\ scn.libs[j] \in [addr : Nat, name : STRING] /\ scn.libs[j] # NoLib
         /\ \A k \in Listed : scn.libs[k].addr = scn.libs[j].addr => k = j
<1>1. scn.libs \in Seq([addr : Nat, name : STRING])
  BY SessionAssumption
<1>2. \A k, l \in DOMAIN scn.libs :
        scn.libs[k].addr = scn.libs[l].addr /\ scn.libs[k].addr # NULL => k = l
  BY SessionAssumption
<1>3. \A k \in Listed : k \in DOMAIN scn.libs /\ scn.libs[k].addr # NULL
  BY DEF Listed
<1>4. NoLib.addr = NULL
  BY DEF NoLib
<1>5. scn.libs[j] \in [addr : Nat, name : STRING]
  <2> DEFINE libs == scn.libs
             Libs == [addr : Nat, name : STRING]
  <2>1. libs \in Seq(Libs) /\ j \in DOMAIN libs
    BY <1>1, <1>3
  <2> HIDE DEF libs, Libs
  <2>2. libs[j] \in Libs
    BY ONLY <2>1
  <2> QED
    BY <2>2 DEF libs, Libs
<1> QED
  BY <1>2, <1>3, <1>4, <1>5

(* The next library goes into the slot after those that are taken, as long *)
(* as there is one.                                                        *)
LEMMA NextSlot ==
  ASSUME PhaseInv, NEW ldyn, IsTable(ldyn), NEW lib
  PROVE  LET new == WriteLdyn(ldyn, lib) IN
         /\ DOMAIN new = 1 .. MaxLdyn
         /\ Known < MaxLdyn - 1 => new[Known + 1] = lib
         /\ \A i \in 1 .. MaxLdyn : i # Known + 1 \/ Known = MaxLdyn - 1 => new[i] = ldyn[i]
<1> DEFINE free == {i \in 1 .. MaxLdyn - 1 : ldyn[i] = NoLib}
           new == WriteLdyn(ldyn, lib)
<1>1. /\ Known \in Nat /\ Known <= MaxLdyn - 1 /\ MaxLdyn \in Nat /\ scn \in Scenarios
      /\ DOMAIN ldyn = 1 .. MaxLdyn
  BY KnownBounds, SessionAssumption DEF PhaseInv, IsTable
<1>2. \A i \in 1 .. MaxLdyn - 1 : ldyn[i] = NoLib <=> i > Known
  <2>1. \A i \in 1 .. Known : ldyn[i] # NoLib
    BY <1>1, ListedIsLib DEF IsTable
  <2>2. \A i \in Known + 1 .. MaxLdyn : ldyn[i] = NoLib
    BY DEF IsTable
  <2> QED
    BY <1>1, <2>1, <2>2
<1>3. new = IF free = {} THEN ldyn ELSE [ldyn EXCEPT ![Min(free)] = lib]
  BY DEF WriteLdyn
<1> HIDE DEF new
<1>4. CASE Known = MaxLdyn - 1
  <2>1. free = {}
    BY <1>1, <1>2, <1>4
  <2> QED
    BY <1>1, <1>3, <1>4, <2>1 DEF new
<1>5. CASE Known < MaxLdyn - 1
  <2>1. Known + 1 \in free /\ \A i \in free : Known + 1 <= i
    BY <1>1, <1>2, <1>5
  <2>2. \A i \in free : i \in Nat
    OBVIOUS
  <2> HIDE DEF free
  <2>3. Min(free) = Known + 1
    BY <1>1, <2>1, <2>2 DEF Min
  <2> QED
    BY <1>1, <1>3, <1>5, <2>1, <2>3 DEF new
<1> QED
  BY <1>1, <1>4, <1>5

(* A table holds the same for a program that has written the same. *)
LEMMA TableKept ==
  ASSUME PhaseInv, NEW ldyn, NEW new, IsTable(ldyn), DOMAIN new = 1 .. MaxLdyn,
         \A i \in 1 .. MaxLdyn : new[i] = ldyn[i]
  PROVE  IsTable(new)
<1>1. Known \in Nat /\ Known <= MaxLdyn - 1 /\ MaxLdyn \in Nat
  BY KnownBounds, SessionAssumption
<1>2. \A i \in 1 .. Known : i \in 1 .. MaxLdyn
  BY <1>1
<1>3. \A i \in Known + 1 .. MaxLdyn : i \in 1 .. MaxLdyn
  BY <1>1
<1> QED
  BY <1>2, <1>3 DEF IsTable

(* One more library is written. *)
LEMMA WriteLibTable ==
  ASSUME PhaseInv, Shared, IsTable(seg.ldyn), WriteLib
  PROVE  IsTable(seg.ldyn)' /\ Known <= Known' /\ Known' \in Nat
<1> DEFINE next == written + 1
           lib == scn.libs[next]
           new == seg'.ldyn
<1>1. /\ written \in Nat /\ scn \in Scenarios /\ written' = next /\ UNCHANGED scn
      /\ next \in DOMAIN scn.libs
  <2>1. /\ written \in Nat /\ scn \in Scenarios /\ written' = next /\ UNCHANGED scn
        /\ written < Len(scn.libs)
    BY DEF WriteLib, PhaseInv
  <2> QED
    BY <2>1, ListedFinite
<1>2. /\ Rank(written) \in Nat /\ Known \in Nat /\ Known <= MaxLdyn - 1 /\ MaxLdyn \in Nat
      /\ Known = IF Rank(written) <= MaxLdyn - 1 THEN Rank(written) ELSE MaxLdyn - 1
  BY KnownBounds, SessionAssumption
<1>3. /\ next \in Listed => Rank(next) = Rank(written) + 1
      /\ next \notin Listed => Rank(next) = Rank(written)
  BY <1>1, RankGoesUp
<1>4. Listed' = Listed /\ (\A j : Rank(j)' = Rank(j)) /\ Known' = Min({Rank(next), MaxLdyn - 1})
  BY <1>1 DEF Listed, Rank, Known
<1>5. Known' = IF Rank(next) <= MaxLdyn - 1 THEN Rank(next) ELSE MaxLdyn - 1
  <2>1. Rank(next) \in Int /\ MaxLdyn - 1 \in Int
    BY <1>2, <1>3
  <2> HIDE DEF next
  <2> QED
    BY ONLY <1>4, <2>1, LesserOfTwo
<1>6. seg' = IF lib.addr = NULL THEN seg ELSE [seg EXCEPT !.ldyn = WriteLdyn(seg.ldyn, lib)]
  BY <1>1 DEF WriteLib
<1>7. next \in Listed <=> lib.addr # NULL
  BY <1>1 DEF Listed
<1>8. DOMAIN seg.ldyn = 1 .. MaxLdyn
  BY DEF IsTable
<1> HIDE DEF next, lib, new
<1>9. ASSUME DOMAIN new = 1 .. MaxLdyn,
             \A i \in 1 .. Known' :
                \E j \in Listed : j <= next /\ Rank(j) = i /\ new[i] = scn.libs[j],
             \A i \in Known' + 1 .. MaxLdyn : new[i] = NoLib
      PROVE  IsTable(seg.ldyn)'
  BY <1>1, <1>4, <1>9 DEF IsTable, new
<1>10. \A i \in 1 .. Known : \E j \in Listed :
          j <= next /\ Rank(j) = i /\ seg.ldyn[i] = scn.libs[j]
  <2>1. \A j \in Listed : j <= written => j <= next
    BY <1>1, ListedFinite DEF next
  <2> QED
    BY <2>1 DEF IsTable
<1>11. \A i \in Known + 1 .. MaxLdyn : seg.ldyn[i] = NoLib
  BY DEF IsTable
<1>12. CASE next \notin Listed
  <2>1. Known' = Known /\ new = seg.ldyn
    BY <1>2, <1>3, <1>5, <1>6, <1>7, <1>12 DEF new
  <2> QED
    BY <1>2, <1>8, <1>9, <1>10, <1>11, <2>1
<1>13. CASE next \in Listed
  <2>1. new = WriteLdyn(seg.ldyn, lib)
    BY <1>6, <1>7, <1>13 DEF new, Shared
  <2>2. /\ DOMAIN new = 1 .. MaxLdyn
        /\ Known < MaxLdyn - 1 => new[Known + 1] = lib
        /\ \A i \in 1 .. MaxLdyn : i # Known + 1 \/ Known = MaxLdyn - 1 => new[i] = seg.ldyn[i]
    BY <2>1, NextSlot
  <2>3. CASE Known = MaxLdyn - 1
    <3>1. Known' = Known
      BY <1>2, <1>3, <1>5, <1>13, <2>3
    <3>2. \A i \in 1 .. MaxLdyn : new[i] = seg.ldyn[i]
      BY <2>2, <2>3
    <3>3. \A i \in 1 .. Known : new[i] = seg.ldyn[i]
      BY <1>2, <3>2
    <3>4. \A i \in Known + 1 .. MaxLdyn : new[i] = seg.ldyn[i]
      BY <1>2, <3>2
    <3> QED
      BY <1>2, <1>9, <1>10, <1>11, <2>2, <3>1, <3>3, <3>4
  <2>4. CASE Known < MaxLdyn - 1
    <3>1. Known' = Known + 1 /\ Rank(next) = Known + 1
      BY <1>2, <1>3, <1>5, <1>13, <2>4
    <3>2. ASSUME NEW i \in 1 .. Known + 1
          PROVE  \E j \in Listed : j <= next /\ Rank(j) = i /\ new[i] = scn.libs[j]
      <4>1. CASE i = Known + 1
        <5>1. next <= next
          BY <1>1 DEF next
        <5> QED
          BY <1>13, <2>2, <2>4, <3>1, <4>1, <5>1 DEF lib
      <4>2. CASE i \in 1 .. Known
        <5>1. new[i] = seg.ldyn[i]
          BY <1>2, <2>2, <4>2
        <5> QED
          BY <1>10, <4>2, <5>1
      <4> QED
        BY <1>2, <4>1, <4>2
    <3>3. \A i \in Known' + 1 .. MaxLdyn :
            i \in 1 .. MaxLdyn /\ i # Known + 1 /\ i \in Known + 1 .. MaxLdyn
      BY <1>2, <3>1
    <3>4. \A i \in Known' + 1 .. MaxLdyn : new[i] = NoLib
      BY <1>11, <2>2, <3>3
    <3> QED
      BY <1>2, <1>9, <2>2, <3>1, <3>2, <3>4
  <2> QED
    BY <1>2, <2>3, <2>4
<1> QED
  BY <1>12, <1>13

(* A step that leaves the libraries alone, those of the program, of the    *)
(* segment and of the manager.                                             *)
LibsKept ==
  /\ UNCHANGED <<scn, written>> /\ DOMAIN seg' = DOMAIN seg /\ DOMAIN mng' = DOMAIN mng
  /\ Shared => seg'.ldyn = seg.ldyn /\ seg'.lastLdyn = seg.lastLdyn
  /\ Knows => mng'.ldyn = mng.ldyn
  /\ AllRead' => AllRead

(* Most steps do. *)
LEMMA StepsKeepLibs ==
  ASSUME PhaseInv
  PROVE  Configure \/ WriteInit \/ Send \/ Quit \/ ChildQuit \/ ReadEvent \/ Quiet => LibsKept
<1>1. seg = NoSegment => ~Shared
  BY NoneShared
<1>2. Configure => LibsKept
  BY DEF Configure, LibsKept, AllRead, mngVars
<1>3. WriteInit => LibsKept
  BY <1>1 DEF PhaseInv, WriteInit, LibsKept, AllRead, Shared, mngVars
<1>4. Send => LibsKept
  BY DEF PhaseInv, Send, Put, LibsKept, AllRead, Shared, mngVars
<1>5. Quit => LibsKept
  BY <1>1 DEF PhaseInv, Quit, Put, LibsKept, AllRead, Shared, mngVars
<1>6. ChildQuit => LibsKept
  BY DEF PhaseInv, ChildQuit, Put, LibsKept, AllRead, Shared, progVars
<1>7. ReadEvent => LibsKept
  <2>1. SUFFICES ASSUME ReadEvent PROVE LibsKept
    OBVIOUS
  <2>2. Shared /\ Knows
    BY <2>1 DEF ReadEvent, PhaseInv
  <2>3. /\ DOMAIN mng' = DOMAIN mng /\ DOMAIN seg' = DOMAIN seg
        /\ seg'.ldyn = seg.ldyn /\ seg'.lastLdyn = seg.lastLdyn /\ mng'.ldyn = mng.ldyn
    BY <2>1, <2>2 DEF ReadEvent, Shared, Knows
  <2>4. UNCHANGED <<scn, written, cpc>>
    BY <2>1 DEF ReadEvent, progVars
  <2> QED
    BY <2>3, <2>4 DEF LibsKept, AllRead
<1>8. Quiet => LibsKept
  BY DEF Quiet, LibsKept
<1> QED
  BY <1>2, <1>3, <1>4, <1>5, <1>6, <1>7, <1>8

(* What is said of the libraries stays true when they are left alone. *)
LEMMA LibsFrame ==
  ASSUME LibsInv, LibsKept
  PROVE  LibsInv'
<1>1. Listed' = Listed /\ (\A j : Rank(j)' = Rank(j)) /\ Known' = Known
  BY DEF LibsKept, Listed, Rank, Known
<1>2. (Shared' <=> Shared) /\ (Knows' <=> Knows)
  BY DEF LibsKept, Shared, Knows
<1>3. SUFFICES ASSUME Shared PROVE LibsInv'
  BY <1>2 DEF LibsInv
<1>4. IsTable(seg.ldyn)'
  <2>1. IsTable(seg.ldyn)
    BY <1>3 DEF LibsInv
  <2>2. seg'.ldyn = seg.ldyn /\ UNCHANGED <<scn, written>>
    BY <1>3 DEF LibsKept
  <2> QED
    BY <1>1, <2>1, <2>2 DEF IsTable
<1>5. Knows => IsRead(mng.ldyn)'
  BY <1>3 DEF LibsInv, LibsKept, IsRead
<1> QED
  BY <1>1, <1>2, <1>3, <1>4, <1>5 DEF LibsInv, LibsKept

(* What is known of the libraries while the program writes them. *)
LEMMA LibsUnread ==
  ASSUME PhaseInv, LibsInv, ppc \in NotStarted \cup {"fork"}, Shared, cpc = "none"
  PROVE  IsTable(seg.ldyn) /\ seg.lastLdyn = 1 /\ ~Knows /\ ~AllRead
<1>1. mng = Nothing
  BY DEF PhaseInv
<1>2. ~Knows
  BY <1>1 DEF Knows, Nothing
<1> QED
  BY <1>2 DEF LibsInv, AllRead

(* A new segment has an empty table. *)
LEMMA CreateLibs ==
  ASSUME PhaseInv, CreateFifo
  PROVE  LibsInv'
<1>1. ppc = "create" /\ cpc = "none" /\ written = 0 /\ mng = Nothing /\ scn \in Scenarios
  BY DEF CreateFifo, PhaseInv, NotStarted
<1>2. UNCHANGED <<scn, written, cpc, mng>>
  BY DEF CreateFifo, mngVars
<1>3. Listed' = Listed /\ (\A j : Rank(j)' = Rank(j)) /\ Known' = Known
  BY <1>2 DEF Listed, Rank, Known
<1>4. MaxLdyn \in Nat /\ MaxLdyn >= 1
  BY SessionAssumption
<1>5. Known = 0
  BY <1>1, <1>4, KnownBounds, RankGoesUp
<1>6. seg'.ldyn = [i \in 1 .. MaxLdyn |-> NoLib] /\ seg'.lastLdyn = 1
  BY DEF CreateFifo
<1>7. \A i \in Known' + 1 .. MaxLdyn : seg'.ldyn[i] = NoLib
  BY <1>3, <1>5, <1>6
<1>8. IsTable(seg.ldyn)'
  BY <1>3, <1>5, <1>6, <1>7 DEF IsTable
<1>9. ~Knows' /\ ~AllRead'
  BY <1>1, <1>2 DEF Knows, AllRead, Nothing
<1> QED
  BY <1>3, <1>5, <1>6, <1>8, <1>9 DEF LibsInv

(* The table grows while nobody reads it. *)
LEMMA WriteLibs ==
  ASSUME PhaseInv, LibsInv, WriteLib
  PROVE  LibsInv'
<1>1. ppc = "libs" /\ Shared /\ cpc = "none"
  BY DEF WriteLib, PhaseInv, NotStarted
<1>2. IsTable(seg.ldyn) /\ seg.lastLdyn = 1 /\ ~Knows /\ ~AllRead
  BY <1>1, LibsUnread DEF NotStarted
<1>3. IsTable(seg.ldyn)' /\ Known' \in Nat
  BY <1>1, <1>2, WriteLibTable
<1>4. seg'.lastLdyn = 1 /\ UNCHANGED <<mng, cpc>>
  BY <1>1, <1>2 DEF WriteLib, mngVars, Shared
<1>5. ~Knows' /\ ~AllRead'
  BY <1>2, <1>4 DEF Knows, AllRead
<1>6. \A k \in Nat : 1 \in 1 .. k + 1
  OBVIOUS
<1>7. seg'.lastLdyn \in 1 .. Known' + 1
  BY ONLY <1>3, <1>4, <1>6, Zenon
<1> QED
  BY <1>3, <1>4, <1>5, <1>7 DEF LibsInv

(* The mark at the end of the list is one more empty slot. *)
LEMMA EndOfLibs ==
  ASSUME PhaseInv, LibsInv, EndLibs
  PROVE  LibsInv'
<1>1. ppc = "libs" /\ Shared /\ cpc = "none"
  BY DEF EndLibs, PhaseInv, NotStarted
<1>2. IsTable(seg.ldyn) /\ seg.lastLdyn = 1 /\ ~Knows /\ ~AllRead
  BY <1>1, LibsUnread DEF NotStarted
<1>3. UNCHANGED <<scn, written, mng, cpc>>
  BY DEF EndLibs, mngVars
<1>4. seg'.lastLdyn = 1 /\ seg'.ldyn = WriteLdyn(seg.ldyn, NoLib)
  BY <1>1, <1>2 DEF EndLibs, Shared
<1>5. Known \in Nat /\ Known <= MaxLdyn - 1 /\ MaxLdyn \in Nat
  BY KnownBounds, SessionAssumption
<1>6. /\ DOMAIN seg'.ldyn = 1 .. MaxLdyn
      /\ Known < MaxLdyn - 1 => seg'.ldyn[Known + 1] = NoLib
      /\ \A i \in 1 .. MaxLdyn : i # Known + 1 \/ Known = MaxLdyn - 1 => seg'.ldyn[i] = seg.ldyn[i]
  BY <1>2, <1>4, NextSlot
<1>7. seg.ldyn[Known + 1] = NoLib
  BY <1>2, <1>5 DEF IsTable
<1>8. \A i \in 1 .. MaxLdyn : seg'.ldyn[i] = seg.ldyn[i]
  BY <1>5, <1>6, <1>7
<1>9. IsTable(seg'.ldyn)
  BY <1>2, <1>6, <1>8, TableKept
<1>10. Listed' = Listed /\ (\A j : Rank(j)' = Rank(j)) /\ Known' = Known
  BY <1>3 DEF Listed, Rank, Known
<1>11. IsTable(seg.ldyn)'
  BY <1>3, <1>9, <1>10 DEF IsTable
<1>12. ~Knows' /\ ~AllRead'
  BY <1>2, <1>3 DEF Knows, AllRead
<1> QED
  BY <1>4, <1>5, <1>10, <1>11, <1>12 DEF LibsInv

(* A manager that has read the record has read no library yet. *)
LEMMA ReadInitLibs ==
  ASSUME PhaseInv, LibsInv, ReadInit
  PROVE  LibsInv'
<1>1. cpc = "params" /\ Shared /\ mng = Nothing
  BY DEF ReadInit, PhaseInv
<1>2. ~Knows
  BY <1>1 DEF Knows, Nothing
<1>3. IsTable(seg.ldyn) /\ seg.lastLdyn = 1 /\ seg.lastLdyn \in 1 .. Known + 1
  BY <1>1, <1>2 DEF LibsInv
<1>4. UNCHANGED <<scn, written, seg>> /\ cpc' = "libs" /\ mng'.ldyn = <<>>
  BY DEF ReadInit, progVars
<1>5. Listed' = Listed /\ (\A j : Rank(j)' = Rank(j)) /\ Known' = Known
  BY <1>4 DEF Listed, Rank, Known
<1>6. IsTable(seg.ldyn)'
  BY <1>3, <1>4, <1>5 DEF IsTable
<1>7. IsRead(mng.ldyn)'
  BY <1>3, <1>4 DEF IsRead
<1> QED
  BY <1>3, <1>4, <1>5, <1>6, <1>7 DEF LibsInv, AllRead

(* One more library is read: no other that the manager has is at its       *)
(* address, so that it goes to the end of the list.                        *)
LEMMA ReadOneLib ==
  ASSUME PhaseInv, LibsInv, ReadLib, seg.ldyn[seg.lastLdyn] # NoLib
  PROVE  LibsInv'
<1> DEFINE slot == seg.lastLdyn
           lib == seg.ldyn[slot]
           list == mng.ldyn
           Libs == [addr : Nat, name : STRING]
<1>1. cpc = "libs" /\ Shared /\ Knows /\ ~AllRead /\ scn \in Scenarios
  BY DEF ReadLib, PhaseInv, AllRead
<1>2. IsTable(seg.ldyn) /\ slot \in 1 .. Known + 1 /\ IsRead(list)
  BY <1>1 DEF LibsInv
<1>3. Known \in Nat /\ Known <= MaxLdyn - 1 /\ MaxLdyn \in Nat
  BY KnownBounds, SessionAssumption
<1>4. slot \in 1 .. Known
  <2>1. seg.ldyn[Known + 1] = NoLib
    BY <1>2, <1>3 DEF IsTable
  <2> QED
    BY <1>2, <1>3, <2>1
<1>5. /\ UNCHANGED <<scn, written, cpc>>
      /\ seg' = [seg EXCEPT !.lastLdyn = slot + 1]
      /\ mng' = [mng EXCEPT !.ldyn = LdynAdd(list, lib)]
  BY DEF ReadLib, progVars
<1>6. /\ Shared' /\ Knows' /\ ~AllRead'
      /\ seg'.ldyn = seg.ldyn /\ seg'.lastLdyn = slot + 1 /\ mng'.ldyn = LdynAdd(list, lib)
  BY <1>1, <1>5 DEF Shared, Knows, AllRead
<1>7. Listed' = Listed /\ (\A j : Rank(j)' = Rank(j)) /\ Known' = Known
  BY <1>5 DEF Listed, Rank, Known
<1>8. IsTable(seg.ldyn)'
  BY <1>2, <1>5, <1>6, <1>7 DEF IsTable
<1>9. list \in Seq(Libs) /\ Len(list) = slot - 1 /\ \A i \in 1 .. slot - 1 : list[i] = seg.ldyn[i]
  BY <1>2 DEF IsRead
<1>10. PICK j \in Listed : Rank(j) = slot /\ lib = scn.libs[j]
  BY <1>2, <1>4 DEF IsTable
<1>11. lib \in Libs /\ \A k \in Listed : scn.libs[k].addr = lib.addr => k = j
  BY <1>1, <1>10, ListedIsLib
<1>12. \A i \in 1 .. slot - 1 : list[i].addr # lib.addr
  <2>1. SUFFICES ASSUME NEW i \in 1 .. slot - 1, list[i].addr = lib.addr PROVE FALSE
    OBVIOUS
  <2>2. i \in 1 .. Known /\ i # slot
    BY <1>3, <1>4
  <2>3. PICK k \in Listed : Rank(k) = i /\ seg.ldyn[i] = scn.libs[k]
    BY <1>2, <2>2 DEF IsTable
  <2>4. k = j
    BY <1>9, <1>11, <2>1, <2>3
  <2> QED
    BY <1>10, <2>2, <2>3, <2>4
<1> HIDE DEF slot, lib, list, Libs
<1>13. DOMAIN list = 1 .. slot - 1
  BY <1>9
<1>14. LdynAdd(list, lib) = Append(list, lib)
  BY <1>12, <1>13 DEF LdynAdd
<1>15. slot \in Nat /\ slot >= 1 /\ slot + 1 \in 1 .. Known + 1
  BY <1>3, <1>4
<1>16. /\ Append(list, lib) \in Seq(Libs) /\ Len(Append(list, lib)) = slot
       /\ DOMAIN Append(list, lib) = 1 .. slot
       /\ \A i \in 1 .. slot : Append(list, lib)[i] = IF i = slot THEN lib ELSE list[i]
  BY <1>9, <1>11, <1>15
<1>17. \A i \in 1 .. slot : Append(list, lib)[i] = seg.ldyn[i]
  <2>1. SUFFICES ASSUME NEW i \in 1 .. slot PROVE Append(list, lib)[i] = seg.ldyn[i]
    OBVIOUS
  <2>2. i = slot \/ i \in 1 .. slot - 1
    BY <1>15
  <2>3. lib = seg.ldyn[slot]
    BY DEF lib, slot
  <2> QED
    BY <1>9, <1>16, <2>2, <2>3
<1>18. IsRead(mng.ldyn)'
  BY <1>6, <1>14, <1>15, <1>16, <1>17 DEF IsRead, Libs
<1> QED
  BY <1>6, <1>7, <1>8, <1>15, <1>18 DEF LibsInv

(* The first empty slot is the one after the libraries that are known. *)
LEMMA ReadLastLib ==
  ASSUME PhaseInv, LibsInv, ReadLib, seg.ldyn[seg.lastLdyn] = NoLib
  PROVE  LibsInv'
<1>1. cpc = "libs" /\ Shared /\ Knows /\ scn \in Scenarios
  BY DEF ReadLib, PhaseInv
<1>2. IsTable(seg.ldyn) /\ seg.lastLdyn \in 1 .. Known + 1 /\ IsRead(mng.ldyn)
  BY <1>1 DEF LibsInv
<1>3. UNCHANGED <<scn, written, seg, mng>>
  BY DEF ReadLib, progVars
<1>4. Known \in Nat
  BY KnownBounds
<1>5. \A i \in 1 .. Known : seg.ldyn[i] # NoLib
  BY <1>1, <1>2, ListedIsLib DEF IsTable
<1>6. seg.lastLdyn = Known + 1
  BY <1>2, <1>4, <1>5
<1>7. Listed' = Listed /\ (\A j : Rank(j)' = Rank(j)) /\ Known' = Known
  BY <1>3 DEF Listed, Rank, Known
<1>8. IsTable(seg.ldyn)' /\ IsRead(mng.ldyn)'
  BY <1>2, <1>3, <1>7 DEF IsTable, IsRead
<1>9. Knows'
  BY <1>1, <1>3 DEF Knows
<1> QED
  BY <1>2, <1>3, <1>6, <1>7, <1>8, <1>9 DEF LibsInv

(* Every step keeps what is known of the libraries. *)
LEMMA LibsStep == PhaseInv /\ LibsInv /\ [Next]_vars => LibsInv'
<1>1. SUFFICES ASSUME PhaseInv, LibsInv, [Next]_vars PROVE LibsInv'
  OBVIOUS
<1>2. ReadLib => LibsInv'
  BY <1>1, ReadOneLib, ReadLastLib
<1>3. LibsKept => LibsInv'
  BY <1>1, LibsFrame
<1> QED
  BY <1>1, <1>2, <1>3, StepsOrQuiet, StepsKeepLibs, CreateLibs, WriteLibs, EndOfLibs, ReadInitLibs

(* The manager has all libraries of the program that fit in the table, in  *)
(* their order, when it opens its first context, and never reads past the  *)
(* table.                                                                  *)
THEOREM LibrariesAreSeen == Spec => []LibrariesSeen
<1>1. Init => LibsInv
  BY NoneShared DEF Init, LibsInv
<1>2. PhaseInv /\ LibsInv => LibrariesSeen
  <2>1. SUFFICES ASSUME PhaseInv, LibsInv PROVE LibrariesSeen
    OBVIOUS
  <2>2. Known \in Nat /\ Known <= MaxLdyn - 1 /\ MaxLdyn \in Nat /\ scn \in Scenarios
    BY <2>1, KnownBounds, SessionAssumption DEF PhaseInv
  <2>3. seg # NoSegment => seg.lastLdyn <= MaxLdyn
    <3>1. SUFFICES ASSUME seg # NoSegment PROVE seg.lastLdyn <= MaxLdyn
      OBVIOUS
    <3>2. seg.lastLdyn \in 1 .. Known + 1
      BY <2>1, <3>1 DEF PhaseInv, LibsInv
    <3> QED
      BY <2>2, <3>2
  <2>4. ASSUME HasParams, cpc \in {"context", "read", "save", "close", "ended"}
        PROVE  /\ Len(mng.ldyn) = Min({Cardinality(Listed), MaxLdyn - 1})
               /\ \A i \in Listed : Rank(i) \in DOMAIN mng.ldyn => mng.ldyn[Rank(i)] = scn.libs[i]
    <3>1. Knows /\ AllRead /\ Shared /\ written = Len(scn.libs)
      BY <2>1, <2>4 DEF PhaseInv, AllRead
    <3>2. IsTable(seg.ldyn) /\ IsRead(mng.ldyn) /\ seg.lastLdyn = Known + 1
      BY <2>1, <3>1 DEF LibsInv
    <3>3. Rank(written) = Cardinality(Listed)
      <4>1. \A j \in Listed : j <= written
        BY <2>2, <3>1, ListedFinite
      <4>2. {j \in Listed : j <= written} = Listed
        BY ONLY <4>1, Zenon
      <4> QED
        BY <4>2 DEF Rank
    <3>4. Len(mng.ldyn) = Known
      BY <2>2, <3>2 DEF IsRead
    <3>5. Len(mng.ldyn) = Min({Cardinality(Listed), MaxLdyn - 1})
      BY ONLY <3>3, <3>4, Zenon DEF Known
    <3>6. DOMAIN mng.ldyn = 1 .. Known /\ \A i \in DOMAIN mng.ldyn : mng.ldyn[i] = seg.ldyn[i]
      BY <3>2, <3>4 DEF IsRead
    <3>7. ASSUME NEW i \in Listed, Rank(i) \in DOMAIN mng.ldyn
          PROVE  mng.ldyn[Rank(i)] = scn.libs[i]
      <4>1. PICK j \in Listed : Rank(j) = Rank(i) /\ seg.ldyn[Rank(i)] = scn.libs[j]
        BY <3>2, <3>6, <3>7 DEF IsTable
      <4>2. i \in Nat /\ j \in Nat
        BY <2>2, ListedFinite
      <4>3. ~(i < j) /\ ~(j < i)
        BY <2>2, <4>1, <4>2, RanksDiffer
      <4>4. i = j
        BY <4>2, <4>3
      <4> QED
        BY <3>6, <3>7, <4>1, <4>4
    <3> QED
      BY <3>5, <3>7
  <2> QED
    BY <2>3, <2>4 DEF LibrariesSeen
<1> QED
  BY <1>1, <1>2, PhaseInitially, PhaseStep, LibsStep, PTL DEF Spec
=============================================================================
