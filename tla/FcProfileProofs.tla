-------------------------- MODULE FcProfileProofs --------------------------
(***************************************************************************)
(* What the manager's contexts keep of the calls of the program, and what  *)
(* they add up of them: arcs and calls, local and total times, and the one *)
(* entry that a function has them in, for any mode, processes or threads,  *)
(* functions, size of the table of functions and number of events.         *)
(***************************************************************************)
EXTENDS FcProfile, FiniteSetTheorems, SequenceTheorems,
        WellFoundedInduction, TLAPS

(* FC_Function, FC_StackElement *)
Entry ==
  [symbol : Nat, faked : BOOLEAN, calls : Nat, recursive_state : Nat,
   local_time : Times, total_time : Times, last_time : Nat, temp_ltime : Nat,
   min_time : Nat, max_time : Nat, min_ltime : Nat, max_ltime : Nat]

Call == [function : Slots, time : Nat, call_site : Nat]

(* FC_Context *)
IsContext(m) ==
  /\ m = [stack |-> m.stack, table |-> m.table, nb |-> m.nb, graph |-> m.graph,
          pid |-> m.pid, first_time |-> m.first_time, last_time |-> m.last_time]
  /\ m.stack \in Seq(Call) /\ m.table \in [Slots -> Entry]
  /\ m.nb \in Nat /\ m.last_time \in Nat

(* the places of a function on a stack, and the free slots of a table *)
Places(stack, s) == {k \in 1 .. Len(stack) : stack[k].function = s}
Free(table) == {s \in Slots : table[s].symbol = NULL /\ ~table[s].faked}

Counted(m, s) == m.table[s].recursive_state = Cardinality(Places(m.stack, s))

(* A function with a name has its occurrences counted; what is on the      *)
(* stack is no free slot; and no more slots are used than nb says, so that *)
(* an insertion finds one as long as the table is not too full.            *)
ContextInv(m) ==
  /\ IsContext(m)
  /\ \A s \in Slots : m.table[s].symbol # NULL => Counted(m, s)
  /\ \A k \in 1 .. Len(m.stack) : m.stack[k].function \notin Free(m.table)
  /\ Cardinality(Slots \ Free(m.table)) <= m.nb

(* while events are read the unknown functions are counted too *)
ReadingInv(m) == ContextInv(m) /\ \A s \in Slots : Counted(m, s)

------------------------------------------------------------------------------
(* Numbers *)

(* Times stay below U64, as unsigned long long does. *)
LEMMA Modulo ==
  ASSUME NEW a \in Int, NEW b \in Nat \ {0}
  PROVE  a % b \in 0 .. b - 1
  OBVIOUS

(* Add and Sub give times. *)
LEMMA AddSub ==
  ASSUME NEW a \in Nat, NEW b \in Nat
  PROVE  Add(a, b) \in Times /\ Sub(a, b) \in Times
<1>1. U64 \in Nat \ {0} /\ a + b \in Int /\ a - b \in Int
  BY FunctionsAssumption
<1> QED
  BY <1>1, Modulo DEF Add, Sub, Times

(* The maximum and the minimum of two numbers are among them. *)
LEMMA MaxMin ==
  ASSUME NEW a \in Nat, NEW b \in Nat
  PROVE  Max({a, b}) \in Nat /\ Min({a, b}) \in Nat
<1>1. \E x \in {a, b} : \A y \in {a, b} : x >= y
  OBVIOUS
<1>2. \E x \in {a, b} : \A y \in {a, b} : x =< y
  OBVIOUS
<1>3. Max({a, b}) \in {a, b}
  BY <1>1 DEF Max
<1>4. Min({a, b}) \in {a, b}
  BY <1>2 DEF Min
<1> QED
  BY <1>3, <1>4

(* A set of numbers that is not empty has a least one. *)
LEMMA Least ==
  ASSUME NEW S, S \subseteq Nat, S # {}
  PROVE  \E x \in S : \A y \in S : x <= y
<1> DEFINE R == OpToRel(<, Nat)
<1>1. IsWellFoundedOn(R, Nat)
  BY NatLessThanWellFounded
<1>2. \A x, y \in Nat : x < y => <<x, y>> \in R
  BY DEF OpToRel
<1> HIDE DEF R
<1>3. PICK x \in S : \A y \in S : ~(<<y, x>> \in R)
  BY <1>1, WFMin
<1>4. \A y \in S : ~(y < x)
  BY <1>2, <1>3
<1>5. \A y \in S : x <= y
  BY <1>4
<1> QED
  BY <1>5

(* The slots are numbers, finitely many. *)
LEMMA SlotsFinite == Slots \subseteq Nat /\ IsFiniteSet(Slots) /\ Cardinality(Slots) = Size
<1>1. Size \in Nat /\ Size >= 1
  BY FunctionsAssumption
<1>2. IsFiniteSet(0 .. Size - 1) /\ Cardinality(0 .. Size - 1) = Size
  BY <1>1, FS_Interval
<1> QED
  BY <1>1, <1>2 DEF Slots

------------------------------------------------------------------------------
(* The table of functions *)

(* fc_fhash_find gives a slot that has the symbol. *)
LEMMA FindFacts ==
  ASSUME NEW table \in [Slots -> Entry], NEW fnc \in Nat, Find(table, fnc) # NoSlot
  PROVE  Find(table, fnc) \in Slots /\ table[Find(table, fnc)].symbol = fnc
<1> DEFINE stops == {s \in Slots : s >= Home(fnc) /\ table[s].symbol \in {fnc, NULL}}
<1>1. stops # {} /\ table[Min(stops)].symbol = fnc /\ Find(table, fnc) = Min(stops)
  BY DEF Find
<1>2. \E x \in stops : \A y \in stops : x <= y
  BY <1>1, Least, SlotsFinite
<1> HIDE DEF stops
<1>3. Min(stops) \in stops
  BY <1>2 DEF Min
<1> QED
  BY <1>1, <1>3 DEF stops

(* fc_fhash_insert finds a free slot in a table that is not too full. *)
LEMMA InsertFacts ==
  ASSUME NEW table \in [Slots -> Entry], NEW fnc \in Nat, NEW nb \in Nat,
         Cardinality(Slots \ Free(table)) <= nb, ~TooManyFunctions(nb)
  PROVE  InsertAt(table, fnc) \in Free(table)
<1> DEFINE distance(s) == (s - Home(fnc)) % Size
<1>1. Size \in Nat \ {0}
  BY FunctionsAssumption
<1>2. nb < Size
  BY <1>1 DEF TooManyFunctions
<1>3. Free(table) # {}
  <2>1. SUFFICES ASSUME Free(table) = {} PROVE FALSE
    OBVIOUS
  <2>2. Slots \ Free(table) = Slots
    BY <2>1
  <2> QED
    BY <2>2, <1>1, <1>2, SlotsFinite
<1>4. Home(fnc) \in Int /\ Slots \subseteq Int
  BY <1>1, Modulo, SlotsFinite DEF Home
<1>5. \A s \in Slots : distance(s) \in Nat
  BY <1>1, <1>4, Modulo
<1> DEFINE S == {distance(s) : s \in Free(table)}
<1>6. S \subseteq Nat /\ S # {}
  BY <1>3, <1>5 DEF Free
<1>7. PICK x \in S : \A y \in S : x <= y
  BY <1>6, Least
<1>8. PICK s \in Free(table) : x = distance(s)
  BY <1>7
<1>9. \A t \in Free(table) : distance(s) <= distance(t)
  BY <1>7, <1>8
<1>10. \E u \in Free(table) : \A t \in Free(table) : distance(u) <= distance(t)
  BY <1>9
<1>11. InsertAt(table, fnc) =
         CHOOSE u \in Free(table) : \A t \in Free(table) : distance(u) <= distance(t)
  BY DEF InsertAt, Free
<1> QED
  BY <1>10, <1>11

------------------------------------------------------------------------------
(* The stack *)

(* the places of a function are finitely many *)
LEMMA PlacesFinite ==
  ASSUME NEW stack \in Seq(Call), NEW s
  PROVE  IsFiniteSet(Places(stack, s)) /\ Cardinality(Places(stack, s)) \in Nat
<1>1. IsFiniteSet(1 .. Len(stack))
  BY FS_Interval
<1>2. Places(stack, s) \in SUBSET (1 .. Len(stack))
  BY DEF Places
<1> QED
  BY <1>1, <1>2, FS_Subset, FS_CardinalityType

(* fc_stack_push adds one place of the function pushed. *)
LEMMA PushPlaces ==
  ASSUME NEW stack \in Seq(Call), NEW e \in Call, NEW s
  PROVE  Cardinality(Places(Append(stack, e), s)) =
           Cardinality(Places(stack, s)) + (IF e.function = s THEN 1 ELSE 0)
<1> DEFINE n == Len(stack) + 1
           q == Append(stack, e)
<1>1. Len(q) = n /\ q[n] = e /\ n \in Nat /\ \A k \in 1 .. Len(stack) : q[k] = stack[k]
  OBVIOUS
<1>2. 1 .. n = 1 .. Len(stack) \cup {n} /\ n \notin 1 .. Len(stack)
  OBVIOUS
<1>3. Places(q, s) = IF e.function = s THEN Places(stack, s) \cup {n} ELSE Places(stack, s)
  BY <1>1, <1>2 DEF Places
<1>4. n \notin Places(stack, s)
  BY <1>2 DEF Places
<1>5. Cardinality(Places(stack, s) \cup {n}) = Cardinality(Places(stack, s)) + 1
  BY <1>4, PlacesFinite, FS_AddElement
<1> QED
  BY <1>3, <1>5, PlacesFinite

(* fc_stack_pop takes one place of the function on top away. *)
LEMMA PopPlaces ==
  ASSUME NEW stack \in Seq(Call), stack # <<>>, NEW s
  PROVE  /\ Pop(stack) \in Seq(Call) /\ Len(Pop(stack)) = Len(stack) - 1
         /\ \A k \in 1 .. Len(stack) - 1 : Pop(stack)[k] = stack[k]
         /\ Cardinality(Places(Pop(stack), s)) =
              Cardinality(Places(stack, s)) - (IF Top(stack).function = s THEN 1 ELSE 0)
<1> DEFINE n == Len(stack)
           q == Pop(stack)
<1>1. n \in Nat /\ n >= 1 /\ Top(stack) = stack[n]
  BY DEF Top
<1>2. q \in Seq(Call) /\ Len(q) = n - 1 /\ \A k \in 1 .. n - 1 : q[k] = stack[k]
  <2>1. /\ q = SubSeq(stack, 1, n - 1) /\ 1 \in Int /\ n - 1 \in Int
        /\ \A k \in 1 .. n - 1 : stack[k] \in Call
    BY <1>1 DEF Pop
  <2> HIDE DEF q
  <2>2. /\ q \in Seq(Call)
        /\ Len(q) = IF 1 <= n - 1 THEN (n - 1) - 1 + 1 ELSE 0
        /\ \A k \in 1 .. (n - 1) - 1 + 1 : q[k] = stack[1 + k - 1]
    BY <2>1, SubSeqProperties
  <2>3. n \in Nat /\ n >= 1
    BY <1>1
  <2> HIDE DEF n
  <2>4. Len(q) = n - 1
    BY <2>2, <2>3
  <2>5. \A k \in 1 .. n - 1 : k \in 1 .. (n - 1) - 1 + 1 /\ 1 + k - 1 = k
    BY <2>3
  <2> QED
    BY <2>2, <2>4, <2>5
<1>3. 1 .. n - 1 = (1 .. n) \ {n} /\ n \in 1 .. n
  BY <1>1
<1> HIDE DEF n, q
<1>4. Places(q, s) = {k \in 1 .. n - 1 : stack[k].function = s}
  BY <1>2 DEF Places
<1>5. Places(stack, s) = {k \in 1 .. n : stack[k].function = s}
  BY DEF Places, n
<1>6. Places(q, s) = IF stack[n].function = s THEN Places(stack, s) \ {n} ELSE Places(stack, s)
  BY <1>3, <1>4, <1>5
<1>7. stack[n].function = s => n \in Places(stack, s)
  BY <1>3, <1>5
<1>8. stack[n].function = s =>
        Cardinality(Places(stack, s) \ {n}) = Cardinality(Places(stack, s)) - 1
  BY <1>7, PlacesFinite, FS_RemoveElement
<1>9. Cardinality(Places(q, s)) =
        Cardinality(Places(stack, s)) - (IF stack[n].function = s THEN 1 ELSE 0)
  BY <1>6, <1>8, PlacesFinite
<1> QED
  BY <1>1, <1>2, <1>9 DEF n, q

(* A function on the stack is counted at least once. *)
LEMMA OnStackCounted ==
  ASSUME NEW stack \in Seq(Call), NEW k \in 1 .. Len(stack)
  PROVE  Cardinality(Places(stack, stack[k].function)) > 0
<1>1. Places(stack, stack[k].function) # {}
  BY DEF Places
<1> DEFINE P == Places(stack, stack[k].function)
<1>2. IsFiniteSet(P) /\ Cardinality(P) \in Nat
  BY PlacesFinite
<1> HIDE DEF P
<1>3. Cardinality(P) = 0 => P = {}
  BY <1>2, FS_EmptySet
<1> QED
  BY <1>1, <1>2, <1>3 DEF P

------------------------------------------------------------------------------
(* fc_context_create *)

(* a new entry is well formed *)
LEMMA NewEntry ==
  ASSUME NEW fnc \in Nat
  PROVE  NewFunction(fnc) \in Entry
<1>1. U64 \in Nat \ {0}
  BY FunctionsAssumption
<1> QED
  BY <1>1 DEF NewFunction, Entry, Times

(* A context starts with all slots free and nothing on its stack. *)
LEMMA EmptyInv ==
  ASSUME NEW first \in Nat
  PROVE  ReadingInv(EmptyContext(first)) /\ EmptyContext(first).stack = <<>>
<1> DEFINE m == EmptyContext(first)
<1>1. U32 \in Nat \ {0}
  BY FunctionsAssumption
<1>2. first % U32 \in Nat
  BY <1>1, Modulo
<1>3. \A s \in Slots : NewFunction(NULL) \in Entry
  BY NewEntry DEF NULL
<1>4. /\ m.stack = <<>> /\ m.nb = 0 /\ m.last_time = first % U32
      /\ m.table = [s \in Slots |-> NewFunction(NULL)]
  BY DEF EmptyContext
<1>5. m.table \in [Slots -> Entry]
  BY <1>3, <1>4
<1>6. IsContext(m)
  BY <1>2, <1>4, <1>5 DEF IsContext, EmptyContext
<1> HIDE DEF m
<1>7. \A s \in Slots : s \in Free(m.table) /\ m.table[s].recursive_state = 0
  BY <1>4 DEF Free, NewFunction
<1>8. Slots \ Free(m.table) = {}
  BY <1>7
<1>9. Cardinality(Slots \ Free(m.table)) <= m.nb
  <2>1. Cardinality(Slots \ Free(m.table)) = 0
    BY <1>8, FS_EmptySet
  <2> QED
    BY <2>1, <1>4
<1>10. \A s \in Slots : Places(m.stack, s) = {}
  BY <1>4 DEF Places
<1>11. \A s \in Slots : Counted(m, s)
  BY <1>7, <1>10, FS_EmptySet DEF Counted
<1> QED
  BY <1>4, <1>6, <1>9, <1>11 DEF ReadingInv, ContextInv, m

(* In FORK mode it starts with NbFaked unknown functions, each in a slot   *)
(* of its own and once on the stack.                                       *)
LEMMA ForkedInv ==
  ASSUME NEW first \in Nat
  PROVE  ReadingInv(ForkedContext(first))
<1> DEFINE m == ForkedContext(first)
           time == first % U32
<1>1. U32 \in Nat \ {0} /\ NbFaked \in Nat /\ NbFaked < Size /\ Size \in Nat
  BY FunctionsAssumption
<1>2. time \in Nat
  BY <1>1, Modulo
<1>3. NewFunction(NULL) \in Entry
  BY NewEntry DEF NULL
<1>4. /\ FakedFunction(time) \in Entry /\ FakedFunction(time).faked = TRUE
      /\ FakedFunction(time).symbol = NULL /\ FakedFunction(time).recursive_state = 1
  BY <1>2, <1>3 DEF FakedFunction, NewFunction, Entry
<1>5. /\ m.stack = [k \in 1 .. NbFaked |-> [function |-> k - 1, time |-> time, call_site |-> NULL]]
      /\ m.nb = NbFaked /\ m.last_time = time
      /\ m.table = [s \in Slots |-> IF s < NbFaked THEN FakedFunction(time) ELSE NewFunction(NULL)]
      /\ m = [stack |-> m.stack, table |-> m.table, nb |-> m.nb, graph |-> m.graph,
              pid |-> m.pid, first_time |-> m.first_time, last_time |-> m.last_time]
  <2> DEFINE e == EmptyContext(first)
  <2>1. e.last_time = time /\ e.table = [s \in Slots |-> NewFunction(NULL)]
    BY DEF EmptyContext
  <2>2. e = [stack |-> e.stack, table |-> e.table, nb |-> e.nb, graph |-> e.graph,
             pid |-> e.pid, first_time |-> e.first_time, last_time |-> e.last_time]
    BY DEF EmptyContext
  <2>3. m = [e EXCEPT !.stack = [k \in 1 .. NbFaked |->
                                   [function |-> k - 1, time |-> time, call_site |-> NULL]],
                      !.table = [s \in Slots |-> IF s < NbFaked THEN FakedFunction(time)
                                                                 ELSE e.table[s]],
                      !.nb = NbFaked]
    BY DEF ForkedContext
  <2> HIDE DEF e, m, time
  <2>4. [s \in Slots |-> IF s < NbFaked THEN FakedFunction(time) ELSE e.table[s]] =
          [s \in Slots |-> IF s < NbFaked THEN FakedFunction(time) ELSE NewFunction(NULL)]
    BY <2>1
  <2> QED
    BY <2>1, <2>2, <2>3, <2>4
<1> HIDE DEF m, time
<1>7. m.table \in [Slots -> Entry]
  BY <1>3, <1>4, <1>5
<1>8. \A k \in 1 .. NbFaked : m.stack[k] \in Call /\ m.stack[k].function = k - 1
  BY <1>1, <1>2, <1>5 DEF Call, Slots, NULL
<1>9. m.stack \in Seq(Call) /\ Len(m.stack) = NbFaked
  <2>1. m.stack \in [1 .. NbFaked -> Call]
    BY <1>5, <1>8
  <2> QED
    BY <2>1, <1>1
<1>10. IsContext(m)
  BY <1>1, <1>2, <1>5, <1>7, <1>9 DEF IsContext
<1>11. \A s \in Slots : s \in Free(m.table) <=> ~(s < NbFaked)
  BY <1>4, <1>5 DEF Free, NewFunction
<1>12. \A k \in 1 .. Len(m.stack) : m.stack[k].function \notin Free(m.table)
  BY <1>1, <1>8, <1>9, <1>11 DEF Free, Slots
<1>13. Slots \ Free(m.table) = 0 .. NbFaked - 1
  BY <1>1, <1>11 DEF Slots
<1>14. Cardinality(0 .. NbFaked - 1) = NbFaked
  BY <1>1, FS_Interval
<1>15. ASSUME NEW s \in Slots PROVE Counted(m, s)
  <2>1. CASE s < NbFaked
    <3>1. s \in Nat /\ Places(m.stack, s) = {s + 1}
      BY <1>1, <1>8, <1>9, <2>1 DEF Places, Slots
    <3>2. Cardinality(Places(m.stack, s)) = 1
      BY <3>1, FS_Singleton
    <3> QED
      BY <1>4, <1>5, <2>1, <3>2 DEF Counted
  <2>2. CASE ~(s < NbFaked)
    <3>1. Places(m.stack, s) = {}
      BY <1>1, <1>8, <1>9, <2>2 DEF Places, Slots
    <3>2. m.table[s].recursive_state = 0
      BY <1>5, <2>2 DEF NewFunction
    <3> QED
      BY <3>1, <3>2, FS_EmptySet DEF Counted
  <2> QED
    BY <2>1, <2>2
<1>16. Cardinality(Slots \ Free(m.table)) <= m.nb
  <2>1. Cardinality(Slots \ Free(m.table)) = NbFaked
    BY <1>13, <1>14
  <2> QED
    BY <2>1, <1>1, <1>5
<1> QED
  BY <1>10, <1>12, <1>15, <1>16 DEF ReadingInv, ContextInv, m

------------------------------------------------------------------------------
(* fc_functions_enter *)

(* tables that differ in times and numbers of calls only *)
Alike(t, u) ==
  /\ t \in [Slots -> Entry] /\ u \in [Slots -> Entry]
  /\ \A s \in Slots : /\ u[s].symbol = t[s].symbol
                      /\ u[s].faked = t[s].faked
                      /\ u[s].recursive_state = t[s].recursive_state

(* the function is on top of the stack, with its symbol and its call site; *)
(* the symbols of those below are what they were                           *)
Entered(m, r, slot, fnc, site) ==
  /\ r.stack = Append(m.stack, Top(r.stack))
  /\ Top(r.stack).function = slot /\ Top(r.stack).call_site = site
  /\ r.table[slot].symbol = fnc
  /\ \A k \in 1 .. Len(m.stack) :
       r.table[m.stack[k].function].symbol = m.table[m.stack[k].function].symbol

(* a change of an entry's times gives a table like it *)
LEMMA AlikeExcept ==
  ASSUME NEW t \in [Slots -> Entry], NEW s \in Slots, NEW e \in Entry,
         e.symbol = t[s].symbol, e.faked = t[s].faked,
         e.recursive_state = t[s].recursive_state
  PROVE  Alike(t, [t EXCEPT ![s] = e])
  BY DEF Alike

(* An enter counts the function once more, in its slot or in one that was  *)
(* free.                                                                   *)
LEMMA EnterInv ==
  ASSUME NEW m, ReadingInv(m), NEW fnc \in Nat \ {NULL}, NEW site \in Nat, NEW time \in Nat,
         ~(Find(m.table, fnc) = NoSlot /\ TooManyFunctions(m.nb))
  PROVE  /\ ReadingInv(Enter(m, fnc, site, time))
         /\ \E slot \in Slots : Entered(m, Enter(m, fnc, site, time), slot, fnc, site)
<1> DEFINE found == Find(m.table, fnc)
           slot == IF found = NoSlot THEN InsertAt(m.table, fnc) ELSE found
           known == IF found = NoSlot THEN [m.table EXCEPT ![slot] = NewFunction(fnc)]
                                      ELSE m.table
           cleared == [known EXCEPT ![slot].temp_ltime =
                         IF known[slot].recursive_state = 0 THEN 0 ELSE @]
           caller == Top(m.stack).function
           stopped == IF m.stack = <<>> THEN cleared ELSE
                        [cleared EXCEPT ![caller].temp_ltime =
                           Add(@, Sub(time, cleared[caller].last_time))]
           final == [stopped EXCEPT ![slot].recursive_state = @ + 1,
                                    ![slot].calls = @ + 1,
                                    ![slot].last_time = time]
           r == Enter(m, fnc, site, time)
<1>1. /\ IsContext(m) /\ m.stack \in Seq(Call) /\ m.table \in [Slots -> Entry] /\ m.nb \in Nat
      /\ \A s \in Slots : Counted(m, s)
      /\ \A k \in 1 .. Len(m.stack) : m.stack[k].function \notin Free(m.table)
      /\ Cardinality(Slots \ Free(m.table)) <= m.nb
  BY DEF ReadingInv, ContextInv, IsContext
<1>2. found # NoSlot => slot \in Slots /\ m.table[slot].symbol = fnc
  BY <1>1, FindFacts
<1>3. found = NoSlot => slot \in Free(m.table) /\ slot \in Slots
  <2>1. found = NoSlot => InsertAt(m.table, fnc) \in Free(m.table)
    BY <1>1, InsertFacts
  <2> QED
    BY <2>1 DEF Free
<1>4. r = [m EXCEPT !.stack = Push(m.stack, slot, time, site),
                    !.nb = IF found = NoSlot THEN m.nb + 1 ELSE m.nb,
                    !.table = final]
  BY <1>1 DEF Enter, IsContext
<1> HIDE DEF found, slot
<1>5. slot \in Slots
  BY <1>2, <1>3
<1>6. NewFunction(fnc) \in Entry
  BY NewEntry
<1>7. /\ known \in [Slots -> Entry] /\ known[slot].symbol = fnc
      /\ \A s \in Slots : s # slot => known[s] = m.table[s]
  BY <1>1, <1>2, <1>5, <1>6 DEF NewFunction
<1>8. known[slot].recursive_state = Cardinality(Places(m.stack, slot))
  <2>1. CASE found # NoSlot
    BY <1>1, <1>5, <2>1 DEF Counted
  <2>2. CASE found = NoSlot
    <3>1. Places(m.stack, slot) = {}
      BY <1>1, <1>3, <2>2 DEF Places
    <3>2. known[slot].recursive_state = 0
      BY <1>1, <1>5, <2>2 DEF NewFunction
    <3> QED
      BY <3>1, <3>2, FS_EmptySet
  <2> QED
    BY <2>1, <2>2
<1> HIDE DEF known
<1>9. Alike(known, cleared)
  <2> DEFINE e == [known[slot] EXCEPT !.temp_ltime =
                     IF known[slot].recursive_state = 0 THEN 0 ELSE @]
  <2>1. known[slot] \in Entry
    BY <1>5, <1>7
  <2>2. /\ e \in Entry /\ e.symbol = known[slot].symbol /\ e.faked = known[slot].faked
        /\ e.recursive_state = known[slot].recursive_state
    BY <2>1 DEF Entry
  <2>3. cleared = [known EXCEPT ![slot] = e]
    OBVIOUS
  <2> HIDE DEF e
  <2> QED
    BY <1>5, <1>7, <2>2, <2>3, AlikeExcept
<1> HIDE DEF cleared
<1>10. Alike(cleared, stopped)
  <2>1. cleared \in [Slots -> Entry]
    BY <1>9 DEF Alike
  <2>2. CASE m.stack = <<>>
    BY <2>1, <2>2 DEF Alike
  <2>3. CASE m.stack # <<>>
    <3> DEFINE w == cleared[caller]
               e == [w EXCEPT !.temp_ltime = Add(w.temp_ltime, Sub(time, w.last_time))]
    <3>1. Top(m.stack) \in Call
      BY <1>1, <2>3 DEF Top
    <3>2. caller \in Slots
      BY <3>1 DEF Call
    <3>3. w \in Entry
      BY <2>1, <3>2
    <3>4. w.temp_ltime \in Nat /\ w.last_time \in Nat
      BY <3>3 DEF Entry
    <3>5. Times \subseteq Nat
      BY FunctionsAssumption DEF Times
    <3>6. Add(w.temp_ltime, Sub(time, w.last_time)) \in Nat
      BY <3>4, <3>5, AddSub
    <3>7. stopped = [cleared EXCEPT ![caller] = e]
      BY <2>3
    <3> HIDE DEF w
    <3>8. e \in Entry /\ e.symbol = w.symbol /\ e.faked = w.faked /\ e.recursive_state = w.recursive_state
      BY <3>3, <3>6 DEF Entry
    <3> HIDE DEF e, caller, stopped
    <3> QED
      BY <2>1, <3>2, <3>7, <3>8, AlikeExcept DEF w
  <2> QED
    BY <2>2, <2>3
<1> HIDE DEF stopped
<1>11. /\ final \in [Slots -> Entry]
       /\ \A s \in Slots : /\ final[s].symbol = stopped[s].symbol
                           /\ final[s].faked = stopped[s].faked
                           /\ final[s].recursive_state = stopped[s].recursive_state
                                + (IF s = slot THEN 1 ELSE 0)
  <2> DEFINE w == stopped[slot]
             e == [w EXCEPT !.recursive_state = w.recursive_state + 1,
                            !.calls = w.calls + 1, !.last_time = time]
  <2>1. stopped \in [Slots -> Entry]
    BY <1>10 DEF Alike
  <2>2. w \in Entry
    BY <1>5, <2>1
  <2>3. final = [stopped EXCEPT ![slot] = e]
    BY <1>5, <2>1, <2>2 DEF Entry
  <2> HIDE DEF w, final
  <2>4. /\ e \in Entry /\ e.symbol = w.symbol /\ e.faked = w.faked
        /\ e.recursive_state = w.recursive_state + 1
    <3>1. w.recursive_state + 1 \in Nat /\ w.calls + 1 \in Nat
      BY <2>2 DEF Entry
    <3> DEFINE x == w.recursive_state + 1
               y == w.calls + 1
    <3> HIDE DEF x, y
    <3>2. x \in Nat /\ y \in Nat
      BY <3>1 DEF x, y
    <3> DEFINE e1 == [w EXCEPT !.recursive_state = x]
               e2 == [e1 EXCEPT !.calls = y]
               e3 == [e2 EXCEPT !.last_time = time]
    <3>3. e1 \in Entry /\ e1.symbol = w.symbol /\ e1.faked = w.faked /\ e1.recursive_state = x
      BY <2>2, <3>2 DEF Entry
    <3> HIDE DEF e1
    <3>4. e2 \in Entry /\ e2.symbol = w.symbol /\ e2.faked = w.faked /\ e2.recursive_state = x
      BY <3>2, <3>3 DEF Entry
    <3> HIDE DEF e2
    <3>5. e3 \in Entry /\ e3.symbol = w.symbol /\ e3.faked = w.faked /\ e3.recursive_state = x
      BY <3>4 DEF Entry
    <3> HIDE DEF e3
    <3>6. e = e3
      BY <2>2 DEF Entry, e1, e2, e3, x, y
    <3> QED
      BY <3>5, <3>6 DEF x
  <2>5. \A s \in Slots : stopped[s].recursive_state \in Nat
    BY <2>1 DEF Entry
  <2> HIDE DEF e
  <2> QED
    BY <1>5, <2>1, <2>3, <2>4, <2>5 DEF w
<1> HIDE DEF final
<1>12. \A s \in Slots : /\ final[s].symbol = known[s].symbol
                        /\ final[s].faked = known[s].faked
                        /\ final[s].recursive_state = known[s].recursive_state
                             + (IF s = slot THEN 1 ELSE 0)
  BY <1>9, <1>10, <1>11 DEF Alike
<1> DEFINE e == [function |-> slot, time |-> time, call_site |-> site]
<1>13. e \in Call /\ e.function = slot /\ e.call_site = site
  BY <1>5 DEF Call
<1> HIDE DEF r
<1>14. /\ r.stack = Append(m.stack, e) /\ r.table = final
       /\ r.nb = (IF found = NoSlot THEN m.nb + 1 ELSE m.nb) /\ r.last_time = m.last_time
       /\ r = [stack |-> r.stack, table |-> r.table, nb |-> r.nb, graph |-> r.graph,
               pid |-> r.pid, first_time |-> r.first_time, last_time |-> r.last_time]
  BY <1>1, <1>4 DEF IsContext, Push
<1> HIDE DEF e
<1>15. r.stack \in Seq(Call) /\ Len(r.stack) = Len(m.stack) + 1 /\ Top(r.stack) = e
       /\ \A k \in 1 .. Len(m.stack) : r.stack[k] = m.stack[k]
  BY <1>1, <1>13, <1>14 DEF Top
<1>16. IsContext(r)
  BY <1>1, <1>11, <1>14, <1>15 DEF IsContext
<1>17. ASSUME NEW s \in Slots PROVE Counted(r, s)
  <2>1. known[s].recursive_state = Cardinality(Places(m.stack, s))
    BY <1>1, <1>7, <1>8 DEF Counted
  <2>2. Cardinality(Places(r.stack, s)) = Cardinality(Places(m.stack, s)) + (IF slot = s THEN 1 ELSE 0)
    BY <1>1, <1>13, <1>14, PushPlaces
  <2> QED
    BY <1>12, <1>14, <2>1, <2>2 DEF Counted
<1>18. Free(final) = Free(m.table) \ {slot}
  <2>1. slot \notin Free(final)
    BY <1>5, <1>7, <1>12 DEF Free
  <2>2. \A s \in Slots : s # slot =>
          final[s].symbol = m.table[s].symbol /\ final[s].faked = m.table[s].faked
    BY <1>7, <1>12
  <2> QED
    BY <2>1, <2>2 DEF Free
<1>19. ASSUME NEW k \in 1 .. Len(r.stack) PROVE r.stack[k].function \notin Free(r.table)
  <2>1. CASE k = Len(m.stack) + 1
    BY <1>1, <1>13, <1>14, <1>18, <2>1
  <2>2. CASE k # Len(m.stack) + 1
    <3>1. k \in 1 .. Len(m.stack)
      BY <1>1, <1>15, <2>2
    <3> QED
      BY <1>1, <1>14, <1>15, <1>18, <3>1
  <2> QED
    BY <2>1, <2>2
<1>20. Cardinality(Slots \ Free(r.table)) <= r.nb
  <2> DEFINE U == Slots \ Free(m.table)
  <2>1. IsFiniteSet(U)
    BY SlotsFinite, FS_Subset
  <2>2. Slots \ Free(r.table) = U \cup {slot}
    BY <1>5, <1>14, <1>18
  <2>3. found # NoSlot => slot \in U
    BY <1>2, <1>5 DEF Free
  <2>4. Cardinality(U) \in Nat
    BY <2>1, FS_CardinalityType
  <2>5. Cardinality(U \cup {slot}) = IF slot \in U THEN Cardinality(U) ELSE Cardinality(U) + 1
    BY <2>1, FS_AddElement
  <2>6. Cardinality(U) <= m.nb
    BY <1>1
  <2> HIDE DEF U
  <2>7. Cardinality(U \cup {slot}) <= r.nb
    BY <1>1, <1>14, <2>3, <2>4, <2>5, <2>6
  <2> QED
    BY <2>2, <2>7
<1>21. Entered(m, r, slot, fnc, site)
  <2>1. r.table[slot].symbol = fnc
    BY <1>5, <1>7, <1>12, <1>14
  <2>2. ASSUME NEW k \in 1 .. Len(m.stack)
        PROVE  r.table[m.stack[k].function].symbol = m.table[m.stack[k].function].symbol
    <3>0. m.stack[k] \in Call
      BY <1>1
    <3>1. m.stack[k].function \in Slots /\ m.stack[k].function \notin Free(m.table)
      BY <1>1, <3>0 DEF Call
    <3>2. found = NoSlot => m.stack[k].function # slot
      BY <1>3, <3>1
    <3>3. found # NoSlot => known[slot].symbol = m.table[slot].symbol
      BY <1>2, <1>7
    <3> DEFINE s == m.stack[k].function
    <3> HIDE DEF s
    <3>4. known[s].symbol = m.table[s].symbol
      <4>1. CASE s # slot
        BY <1>7, <3>1, <4>1 DEF s
      <4>2. CASE s = slot
        BY <3>2, <3>3, <4>2 DEF s
      <4> QED
        BY <4>1, <4>2
    <3> QED
      BY <1>12, <1>14, <3>1, <3>4 DEF s
  <2> QED
    BY <1>13, <1>14, <1>15, <2>1, <2>2 DEF Entered
<1> QED
  BY <1>5, <1>16, <1>17, <1>19, <1>20, <1>21 DEF ReadingInv, ContextInv, r

------------------------------------------------------------------------------
(* fc_functions_exit *)

(* the function that an exit is about, whether the one below it gets a     *)
(* name, and that one                                                      *)
Leaving(m) == Top(m.stack).function
Renames(m) == m.table[Leaving(m)].symbol = NULL /\ Len(m.stack) > 1
Under(m) == Below(m.stack).function

(* the names that an exit gives *)
Names(m, t, fnc, site) ==
  /\ t \in [Slots -> Entry]
  /\ \A s \in Slots : t[s].recursive_state = m.table[s].recursive_state
  /\ \A s \in Slots : s # Leaving(m) /\ (s # Under(m) \/ ~Renames(m)) => t[s] = m.table[s]
  /\ Renames(m) => t[Under(m)].symbol = site
  /\ ~Renames(m) \/ Under(m) # Leaving(m) => t[Leaving(m)].symbol = fnc

(* an entry may get another symbol, or another mark *)
LEMMA EntrySymbol ==
  ASSUME NEW e \in Entry, NEW symbol \in Nat
  PROVE  /\ [e EXCEPT !.symbol = symbol] \in Entry
         /\ [e EXCEPT !.symbol = symbol].symbol = symbol
         /\ [e EXCEPT !.symbol = symbol].recursive_state = e.recursive_state
  BY DEF Entry

(* the same for its mark *)
LEMMA EntryFaked ==
  ASSUME NEW e \in Entry, NEW faked \in BOOLEAN
  PROVE  /\ [e EXCEPT !.faked = faked] \in Entry
         /\ [e EXCEPT !.faked = faked].symbol = e.symbol
         /\ [e EXCEPT !.faked = faked].recursive_state = e.recursive_state
  BY DEF Entry

(* Named changes the entries of the function left and of the one below it  *)
(* and no others.                                                          *)
LEMMA NamedFacts ==
  ASSUME NEW m, IsContext(m), m.stack # <<>>, NEW fnc \in Nat, NEW site \in Nat
  PROVE  /\ Names(m, Named(m, fnc, site), fnc, site)
         /\ Leaving(m) \in Slots /\ (Len(m.stack) > 1 => Under(m) \in Slots)
<1> DEFINE slot == Top(m.stack).function
           top == m.table[slot]
           mark == top.faked /\ top.symbol \in {fnc, NULL}
           e1 == [top EXCEPT !.symbol = fnc]
           e == [e1 EXCEPT !.faked = mark]
           named == [m.table EXCEPT ![slot] = e]
           below == Below(m.stack).function
<1>1. m.stack \in Seq(Call) /\ m.table \in [Slots -> Entry] /\ Len(m.stack) \in Nat \ {0}
  BY DEF IsContext
<1>2. Top(m.stack) \in Call /\ (Len(m.stack) > 1 => Below(m.stack) \in Call)
  BY <1>1 DEF Top, Below
<1>3. slot \in Slots /\ (Len(m.stack) > 1 => below \in Slots)
  BY <1>2 DEF Call
<1>4. top \in Entry
  BY <1>1, <1>3
<1>5. mark \in BOOLEAN
  BY <1>4 DEF Entry
<1>6. e1 \in Entry /\ e1.symbol = fnc /\ e1.recursive_state = top.recursive_state
  BY <1>4, EntrySymbol
<1>7. e \in Entry /\ e.symbol = fnc /\ e.recursive_state = top.recursive_state
  BY <1>5, <1>6, EntryFaked
<1>8. Named(m, fnc, site) =
        IF top.symbol = NULL /\ Len(m.stack) > 1
          THEN [named EXCEPT ![below].symbol = site] ELSE named
  <2>1. [m.table EXCEPT ![slot].symbol = fnc,
                        ![slot].faked = @ /\ top.symbol \in {fnc, NULL}] = named
    <3>1. [m.table EXCEPT ![slot].symbol = fnc] = [m.table EXCEPT ![slot] = e1]
      OBVIOUS
    <3>2. [m.table EXCEPT ![slot] = e1][slot] = e1
      BY <1>1, <1>3
    <3>3. e1.faked = top.faked
      BY <1>4 DEF Entry
    <3> DEFINE t == [m.table EXCEPT ![slot] = e1]
    <3>4. [t EXCEPT ![slot].faked = @ /\ top.symbol \in {fnc, NULL}] = [t EXCEPT ![slot] = e]
      BY <3>2, <3>3
    <3>5. [t EXCEPT ![slot] = e] = named
      BY <1>1, <1>3
    <3> QED
      BY <3>1, <3>4, <3>5
  <2> QED
    BY <2>1 DEF Named
<1> HIDE DEF e
<1>9. named \in [Slots -> Entry] /\ named[slot] = e /\ \A s \in Slots : s # slot => named[s] = m.table[s]
  BY <1>1, <1>3, <1>7
<1>10. CASE Renames(m)
  <2> DEFINE w == named[below]
             f == [w EXCEPT !.symbol = site]
             t == [named EXCEPT ![below] = f]
  <2>1. below \in Slots /\ Leaving(m) = slot /\ Under(m) = below
    BY <1>3, <1>10 DEF Renames, Leaving, Under
  <2>2. w \in Entry
    BY <1>9, <2>1
  <2>3. f \in Entry /\ f.symbol = site /\ f.recursive_state = w.recursive_state
    BY <2>2, EntrySymbol
  <2>4. Named(m, fnc, site) = t
    BY <1>8, <1>10 DEF Renames, Leaving
  <2> HIDE DEF named, f, below, slot
  <2>5. /\ t \in [Slots -> Entry] /\ t[below] = f
        /\ \A s \in Slots : s # below => t[s] = named[s]
    BY <1>9, <2>1, <2>3
  <2>6. \A s \in Slots : t[s].recursive_state = m.table[s].recursive_state
    BY <1>7, <1>9, <2>1, <2>3, <2>5
  <2>7. \A s \in Slots : s # slot /\ s # below => t[s] = m.table[s]
    BY <1>9, <2>5
  <2>8. below # slot => t[slot].symbol = fnc
    BY <1>3, <1>7, <1>9, <2>5
  <2> QED
    BY <1>3, <1>10, <2>1, <2>3, <2>4, <2>5, <2>6, <2>7, <2>8 DEF Names
<1>11. CASE ~Renames(m)
  <2>1. Leaving(m) = slot /\ Under(m) = below
    BY DEF Leaving, Under
  <2>2. Named(m, fnc, site) = named
    BY <1>8, <1>11 DEF Renames, Leaving
  <2> HIDE DEF named
  <2> QED
    BY <1>3, <1>7, <1>9, <1>11, <2>1, <2>2 DEF Names
<1> QED
  BY <1>10, <1>11

(* The times of an activation are added; it is counted no more. *)
LEMMA TimedFacts ==
  ASSUME NEW e \in Entry, e.recursive_state > 0, NEW ftime \in Nat, NEW time \in Nat
  PROVE  /\ Timed(e, ftime, time) \in Entry
         /\ Timed(e, ftime, time).symbol = e.symbol
         /\ Timed(e, ftime, time).faked = e.faked
         /\ Timed(e, ftime, time).recursive_state = e.recursive_state - 1
<1> DEFINE delta == Sub(time, ftime)
           ltime == Add(e.temp_ltime, Sub(time, e.last_time))
           outermost == e.recursive_state <= 1
           a == IF outermost THEN Add(e.local_time, ltime) ELSE e.local_time
           b == Max({e.max_ltime, ltime})
           c == Min({e.min_ltime, ltime})
           d == Max({e.max_time, delta})
           f == Min({e.min_time, delta})
           g == IF outermost THEN Add(e.total_time, delta) ELSE e.total_time
           h == e.recursive_state - 1
<1>1. /\ e.temp_ltime \in Nat /\ e.last_time \in Nat /\ e.local_time \in Times
      /\ e.max_ltime \in Nat /\ e.min_ltime \in Nat /\ e.max_time \in Nat
      /\ e.min_time \in Nat /\ e.total_time \in Times /\ e.recursive_state \in Nat
  BY DEF Entry
<1>2. Times \subseteq Nat
  BY FunctionsAssumption DEF Times
<1>3. delta \in Times /\ delta \in Nat
  BY <1>2, AddSub
<1>4. ltime \in Times /\ ltime \in Nat
  <2>1. Sub(time, e.last_time) \in Nat
    BY <1>1, <1>2, AddSub
  <2> QED
    BY <1>1, <1>2, <2>1, AddSub
<1> HIDE DEF delta, ltime
<1>5. a \in Times /\ g \in Times
  BY <1>1, <1>2, <1>3, <1>4, AddSub
<1>6. b \in Nat /\ c \in Nat /\ d \in Nat /\ f \in Nat
  BY <1>1, <1>3, <1>4, MaxMin
<1>7. h \in Nat
  BY <1>1
<1>8. Timed(e, ftime, time) =
        [symbol |-> e.symbol, faked |-> e.faked, calls |-> e.calls, recursive_state |-> h,
         local_time |-> a, total_time |-> g, last_time |-> e.last_time, temp_ltime |-> ltime,
         min_time |-> f, max_time |-> d, min_ltime |-> c, max_ltime |-> b]
  <2>1. e = [symbol |-> e.symbol, faked |-> e.faked, calls |-> e.calls,
             recursive_state |-> e.recursive_state, local_time |-> e.local_time,
             total_time |-> e.total_time, last_time |-> e.last_time,
             temp_ltime |-> e.temp_ltime, min_time |-> e.min_time, max_time |-> e.max_time,
             min_ltime |-> e.min_ltime, max_ltime |-> e.max_ltime]
    BY DEF Entry
  <2> DEFINE e1 == [e EXCEPT !.temp_ltime = ltime]
             e2 == [e1 EXCEPT !.local_time = a]
             e3 == [e2 EXCEPT !.max_ltime = b]
             e4 == [e3 EXCEPT !.min_ltime = c]
             e5 == [e4 EXCEPT !.max_time = d]
             e6 == [e5 EXCEPT !.min_time = f]
             e7 == [e6 EXCEPT !.total_time = g]
             e8 == [e7 EXCEPT !.recursive_state = h]
  <2>2. Timed(e, ftime, time) = e8
    BY <2>1 DEF Timed, delta, ltime
  <2> HIDE DEF a, b, c, d, f, g, h
  <2> QED
    BY <2>1, <2>2, ZenonT(30)
<1> HIDE DEF a, b, c, d, f, g, h
<1>9. e.symbol \in Nat /\ e.faked \in BOOLEAN /\ e.calls \in Nat
  BY DEF Entry
<1>10. Timed(e, ftime, time) \in Entry
  BY <1>1, <1>4, <1>5, <1>6, <1>7, <1>8, <1>9 DEF Entry
<1> QED
  BY <1>8, <1>10 DEF h

(* the function on top has left the stack, which is counted; the names are *)
(* what they were if its name was known                                    *)
Left(m, r, fnc) ==
  /\ ContextInv(r)
  /\ r.stack = Pop(m.stack)
  /\ \A s \in Slots : Counted(m, s) => Counted(r, s)
  /\ m.table[Leaving(m)].symbol = fnc =>
       \A s \in Slots : r.table[s].symbol = m.table[s].symbol

(* An exit that is not ignored takes the function from the stack and       *)
(* counts it no more, whether it was known or gets its name now.           *)
LEMMA ExitInv ==
  ASSUME NEW m, ContextInv(m), NEW fnc \in Nat \ {NULL}, NEW site \in Nat, NEW time \in Nat,
         ~Ignored(m, fnc),
         \/ m.table[Leaving(m)].symbol = fnc
         \/ site # NULL /\ \A s \in Slots : Counted(m, s)
  PROVE  Left(m, Exit(m, fnc, site, time), fnc)
<1> DEFINE slot == Leaving(m)
           below == Under(m)
           named == Named(m, fnc, site)
           timed == [named EXCEPT ![slot] = Timed(named[slot], Top(m.stack).time, time)]
           final == IF Len(m.stack) > 1 THEN [timed EXCEPT ![below].last_time = time] ELSE timed
           r == Exit(m, fnc, site, time)
<1>1. /\ IsContext(m) /\ m.stack \in Seq(Call) /\ m.table \in [Slots -> Entry] /\ m.nb \in Nat
      /\ \A s \in Slots : m.table[s].symbol # NULL => Counted(m, s)
      /\ \A k \in 1 .. Len(m.stack) : m.stack[k].function \notin Free(m.table)
      /\ Cardinality(Slots \ Free(m.table)) <= m.nb
  BY DEF ContextInv, IsContext
<1>2. m.stack # <<>> /\ Len(m.stack) \in Nat \ {0}
  BY <1>1 DEF Ignored
<1>3. /\ Names(m, named, fnc, site) /\ slot \in Slots
      /\ Len(m.stack) > 1 => below \in Slots
  BY <1>1, <1>2, NamedFacts
<1>4. r = [m EXCEPT !.table = final, !.stack = Pop(m.stack)]
  BY <1>1, <1>2 DEF Exit, IsContext, Leaving, Under
<1>5. Top(m.stack) = m.stack[Len(m.stack)] /\ Top(m.stack) \in Call
  BY <1>1, <1>2 DEF Top
<1>6. Top(m.stack).time \in Nat
  BY <1>5 DEF Call
<1>7. slot \notin Free(m.table) /\ Cardinality(Places(m.stack, slot)) > 0
  <2>1. Len(m.stack) \in 1 .. Len(m.stack)
    BY <1>2
  <2> QED
    BY <1>1, <1>5, <2>1, OnStackCounted DEF Leaving
<1>8. Len(m.stack) > 1 => below \notin Free(m.table)
  <2>1. Len(m.stack) > 1 => Len(m.stack) - 1 \in 1 .. Len(m.stack)
    BY <1>2
  <2> QED
    BY <1>1, <2>1 DEF Under, Below
<1>9. Counted(m, slot)
  BY <1>1, <1>3
<1>10. m.table[slot].recursive_state > 0
  BY <1>7, <1>9 DEF Counted
<1> HIDE DEF slot, below, named, r
<1>11. /\ named \in [Slots -> Entry]
       /\ \A s \in Slots : named[s].recursive_state = m.table[s].recursive_state
  BY <1>3 DEF Names
<1> DEFINE e == Timed(named[slot], Top(m.stack).time, time)
<1>12. /\ e \in Entry /\ e.symbol = named[slot].symbol /\ e.faked = named[slot].faked
       /\ e.recursive_state = named[slot].recursive_state - 1
  <2>1. named[slot] \in Entry /\ named[slot].recursive_state > 0
    BY <1>3, <1>10, <1>11
  <2> QED
    BY <1>6, <2>1, TimedFacts
<1>13. timed = [named EXCEPT ![slot] = e]
  OBVIOUS
<1> HIDE DEF timed, e
<1>14. /\ timed \in [Slots -> Entry] /\ timed[slot] = e
       /\ \A s \in Slots : s # slot => timed[s] = named[s]
  BY <1>3, <1>11, <1>12, <1>13
<1>15. Alike(timed, final)
  <2>1. CASE ~(Len(m.stack) > 1)
    BY <1>14, <2>1 DEF Alike
  <2>2. CASE Len(m.stack) > 1
    <3> DEFINE w == timed[below]
               f == [w EXCEPT !.last_time = time]
    <3>1. below \in Slots
      BY <1>3, <2>2
    <3>2. w \in Entry
      BY <1>14, <3>1
    <3>3. final = [timed EXCEPT ![below] = f]
      BY <2>2
    <3> HIDE DEF w, final
    <3>4. f \in Entry /\ f.symbol = w.symbol /\ f.faked = w.faked /\ f.recursive_state = w.recursive_state
      BY <3>2 DEF Entry
    <3> HIDE DEF f
    <3> QED
      BY <1>14, <3>1, <3>3, <3>4, AlikeExcept DEF w
  <2> QED
    BY <2>1, <2>2
<1> HIDE DEF final
<1>16. /\ final \in [Slots -> Entry]
       /\ \A s \in Slots : final[s].symbol = named[s].symbol /\ final[s].faked = named[s].faked
  BY <1>3, <1>12, <1>14, <1>15 DEF Alike
<1>17. \A s \in Slots : final[s].recursive_state =
                         m.table[s].recursive_state - (IF slot = s THEN 1 ELSE 0)
  <2>1. \A s \in Slots : m.table[s].recursive_state \in Nat
    BY <1>1 DEF Entry
  <2>2. ASSUME NEW s \in Slots
        PROVE  timed[s].recursive_state = m.table[s].recursive_state - (IF slot = s THEN 1 ELSE 0)
    <3>1. CASE s = slot
      BY <1>11, <1>12, <1>14, <2>1, <3>1
    <3>2. CASE s # slot
      BY <1>11, <1>14, <2>1, <3>2
    <3> QED
      BY <3>1, <3>2
  <2> QED
    BY <1>15, <2>2 DEF Alike
<1>18. /\ r.stack = Pop(m.stack) /\ r.table = final /\ r.nb = m.nb /\ r.last_time = m.last_time
       /\ r = [stack |-> r.stack, table |-> r.table, nb |-> r.nb, graph |-> r.graph,
               pid |-> r.pid, first_time |-> r.first_time, last_time |-> r.last_time]
  BY <1>1, <1>4 DEF IsContext
<1>19. /\ r.stack \in Seq(Call) /\ Len(r.stack) = Len(m.stack) - 1
       /\ \A k \in 1 .. Len(m.stack) - 1 : r.stack[k] = m.stack[k]
  BY <1>1, <1>2, <1>18, PopPlaces
<1>20. IsContext(r)
  BY <1>1, <1>16, <1>18, <1>19 DEF IsContext
<1>21. ASSUME NEW s \in Slots, Counted(m, s) PROVE Counted(r, s)
  <2>1. Cardinality(Places(r.stack, s)) =
          Cardinality(Places(m.stack, s)) - (IF slot = s THEN 1 ELSE 0)
    BY <1>1, <1>2, <1>18, PopPlaces DEF slot, Leaving
  <2> QED
    BY <1>17, <1>18, <1>21, <2>1 DEF Counted
<1>22. m.table[slot].symbol = fnc => \A s \in Slots : r.table[s].symbol = m.table[s].symbol
  <2>1. SUFFICES ASSUME m.table[slot].symbol = fnc, NEW s \in Slots
                 PROVE  named[s].symbol = m.table[s].symbol
    BY <1>16, <1>18
  <2>2. ~Renames(m)
    BY <2>1 DEF Renames, slot
  <2> QED
    BY <1>3, <2>1, <2>2 DEF Names, slot
<1>23. ASSUME NEW s \in Slots, r.table[s].symbol # NULL PROVE Counted(r, s)
  <2>1. CASE m.table[slot].symbol = fnc
    BY <1>1, <1>21, <1>22, <1>23, <2>1
  <2>2. CASE m.table[slot].symbol # fnc
    BY <1>21, <2>2 DEF slot
  <2> QED
    BY <2>1, <2>2
<1>24. Free(r.table) = Free(m.table)
  <2>1. ASSUME NEW s \in Slots PROVE s \in Free(final) <=> s \in Free(m.table)
    <3>1. CASE s # slot /\ (s # below \/ ~Renames(m))
      <4>1. named[s] = m.table[s]
        BY <1>3, <3>1 DEF Names, slot, below
      <4> QED
        BY <1>16, <4>1 DEF Free
    <3>2. CASE s = below /\ Renames(m)
      <4>1. s \notin Free(m.table)
        BY <1>8, <3>2 DEF Renames
      <4>2. site # NULL
        BY <3>2 DEF Renames
      <4>3. final[s].symbol = site
        BY <1>3, <1>16, <3>2 DEF Names, below
      <4> QED
        BY <4>1, <4>2, <4>3 DEF Free
    <3>3. CASE s = slot /\ ~(s = below /\ Renames(m))
      <4>1. s \notin Free(m.table)
        BY <1>7, <3>3
      <4>2. final[s].symbol = fnc
        BY <1>3, <1>16, <3>3 DEF Names, below, slot
      <4> QED
        BY <4>1, <4>2 DEF Free
    <3> QED
      BY <3>1, <3>2, <3>3
  <2> QED
    BY <1>18, <2>1 DEF Free
<1>25. \A k \in 1 .. Len(r.stack) : r.stack[k].function \notin Free(r.table)
  <2>1. \A k \in 1 .. Len(r.stack) : k \in 1 .. Len(m.stack) /\ k \in 1 .. Len(m.stack) - 1
    BY <1>2, <1>19
  <2> QED
    BY <1>1, <1>19, <1>24, <2>1
<1>26. ContextInv(r)
  BY <1>1, <1>18, <1>20, <1>23, <1>24, <1>25 DEF ContextInv
<1> QED
  BY <1>18, <1>21, <1>22, <1>26 DEF Left, r, slot

------------------------------------------------------------------------------
(* The inductive invariant *)

Frame == [fn : Funcs, site : Sites, by : Ids]

Listed(contexts, c) == \E k \in 1 .. Len(contexts) : contexts[k] = c

(* Frames are entered by contexts that the manager knows, and a process or *)
(* thread has those that it inherited below its own.                       *)
ProgramInv ==
  /\ alive \in [Ids -> {"unborn", "forked", "run", "creating", "over"}]
  /\ frames \in [Ids -> Seq(Frame)]
  /\ parent \in [Ids -> Ids \cup {0}]
  /\ jumped \in [Ids -> BOOLEAN]
  /\ clock \in Nat /\ vtime \in Nat
  /\ \A c \in Ids : \A k \in 1 .. Len(frames[c]) :
       /\ alive[frames[c][k].by] # "unborn"
       /\ phase = "read" => Listed(list, frames[c][k].by)
  /\ \A c \in Ids : \A j, k \in 1 .. Len(frames[c]) :
       j <= k /\ frames[c][j].by = c => frames[c][k].by = c

ManagerInv ==
  /\ phase \in {"read", "fatal", "flush", "saved"}
  /\ list \in Seq(Ids) /\ list # <<>> /\ current \in Ids /\ flushed \in Nat \ {0}
  /\ DOMAIN ctx = Ids
  /\ \A c \in Ids : ContextInv(ctx[c])
  /\ phase = "read" => \A c \in Ids : ReadingInv(ctx[c])
  /\ \A c \in Ids : ~Known(c) => ctx[c].stack = <<>>

(* The contexts are flushed one after the other. *)
FlushInv ==
  /\ phase = "read" => flushed = 1
  /\ phase = "flush" /\ flushed <= Len(list) => current = list[flushed]
  /\ phase \in {"flush", "saved"} =>
       \A k \in 1 .. Len(list) : k < flushed => ctx[list[k]].stack = <<>>
  /\ phase = "saved" => flushed > Len(list)

(* the frames f that c has entered are on top of the stack of m *)
Follows(m, f, c) ==
  \A k \in 1 .. Len(f) : f[k].by = c =>
    LET n == Len(m.stack) - Len(f) + k IN
    /\ n >= 1
    /\ m.table[m.stack[n].function].symbol = f[k].fn
    /\ m.stack[n].call_site = f[k].site

FollowInv == phase = "read" => \A c \in Ids : ~jumped[c] => Follows(ctx[c], frames[c], c)

ProfileInv == ProgramInv /\ ManagerInv /\ FlushInv /\ FollowInv

------------------------------------------------------------------------------
(* What an event does to the stack that follows *)

(* An enter puts the frame on both. *)
LEMMA FollowsEnter ==
  ASSUME NEW m, NEW r, NEW slot, NEW c \in Ids, NEW f \in Seq(Frame),
         NEW fnc \in Funcs, NEW site \in Sites,
         m.stack \in Seq(Call), r.stack \in Seq(Call),
         Entered(m, r, slot, fnc, site), Follows(m, f, c)
  PROVE  Follows(r, Append(f, [fn |-> fnc, site |-> site, by |-> c]), c)
<1> DEFINE e == [fn |-> fnc, site |-> site, by |-> c]
           g == Append(f, e)
           l == Len(m.stack)
<1>1. e \in Frame /\ e.fn = fnc /\ e.site = site
  BY DEF Frame
<1>2. Len(f) \in Nat /\ l \in Nat
  OBVIOUS
<1>3. Len(g) = Len(f) + 1 /\ g[Len(f) + 1] = e /\ \A k \in 1 .. Len(f) : g[k] = f[k]
  BY <1>1
<1>4. \E x : r.stack = Append(m.stack, x)
  BY DEF Entered
<1>5. /\ Len(r.stack) = l + 1 /\ r.stack[l + 1] = Top(r.stack)
      /\ \A k \in 1 .. l : r.stack[k] = m.stack[k]
  BY <1>4 DEF Top
<1> HIDE DEF g, e, l
<1>6. SUFFICES ASSUME NEW k \in 1 .. Len(g), g[k].by = c
               PROVE  LET n == Len(r.stack) - Len(g) + k IN
                      /\ n >= 1
                      /\ r.table[r.stack[n].function].symbol = g[k].fn
                      /\ r.stack[n].call_site = g[k].site
  BY DEF Follows, g, e
<1>7. CASE k = Len(f) + 1
  <2>1. Len(r.stack) - Len(g) + k = l + 1 /\ l + 1 >= 1
    BY <1>2, <1>3, <1>5, <1>7
  <2> QED
    BY <1>1, <1>3, <1>5, <1>7, <2>1 DEF Entered
<1>8. CASE k # Len(f) + 1
  <2> DEFINE n == l - Len(f) + k
  <2>1. k \in 1 .. Len(f)
    BY <1>2, <1>3, <1>8
  <2>2. Len(r.stack) - Len(g) + k = n /\ n \in Int /\ n <= l
    BY <1>2, <1>3, <1>5, <2>1
  <2>3. g[k] = f[k]
    BY <1>3, <2>1
  <2> HIDE DEF n
  <2>4. /\ n >= 1 /\ m.table[m.stack[n].function].symbol = f[k].fn
        /\ m.stack[n].call_site = f[k].site
    BY <1>6, <2>1, <2>3 DEF Follows, n, l
  <2>5. n \in 1 .. l
    BY <1>2, <2>2, <2>4
  <2>6. r.stack[n] = m.stack[n] /\ r.table[m.stack[n].function].symbol = m.table[m.stack[n].function].symbol
    BY <1>5, <2>5 DEF Entered, l
  <2> QED
    BY <2>2, <2>3, <2>4, <2>6
<1> QED
  BY <1>7, <1>8

(* An exit of a function with a name takes one from both. *)
LEMMA FollowsExit ==
  ASSUME NEW m, NEW r, NEW c \in Ids, NEW f \in Seq(Frame), NEW g \in Seq(Frame),
         m.stack \in Seq(Call), m.stack # <<>>, r.stack = Pop(m.stack),
         \A s \in Slots : r.table[s].symbol = m.table[s].symbol,
         Len(g) = Len(f) - 1, \A k \in 1 .. Len(g) : g[k] = f[k],
         Follows(m, f, c)
  PROVE  Follows(r, g, c)
<1> DEFINE l == Len(m.stack)
<1>1. Len(f) \in Nat /\ l \in Nat /\ Len(g) \in Nat
  OBVIOUS
<1>2. Len(r.stack) = l - 1 /\ \A k \in 1 .. l - 1 : r.stack[k] = m.stack[k]
  BY PopPlaces
<1> SUFFICES ASSUME NEW k \in 1 .. Len(g), g[k].by = c
             PROVE  LET n == Len(r.stack) - Len(g) + k IN
                    /\ n >= 1
                    /\ r.table[r.stack[n].function].symbol = g[k].fn
                    /\ r.stack[n].call_site = g[k].site
  BY DEF Follows
<1> DEFINE n == l - Len(f) + k
<1>3. k \in 1 .. Len(f) /\ g[k] = f[k]
  BY <1>1
<1>4. Len(r.stack) - Len(g) + k = n /\ n \in Int /\ n <= l - 1
  BY <1>1, <1>2
<1> HIDE DEF n
<1>5. /\ n >= 1 /\ m.table[m.stack[n].function].symbol = f[k].fn
      /\ m.stack[n].call_site = f[k].site
  BY <1>3 DEF Follows, n
<1> HIDE DEF l
<1>6. n \in 1 .. l - 1 /\ n \in 1 .. l
  BY <1>1, <1>4, <1>5
<1>7. r.stack[n] = m.stack[n] /\ m.stack[n] \in Call
  BY <1>2, <1>6 DEF l
<1>8. m.stack[n].function \in Slots
  BY <1>7 DEF Call
<1> QED
  BY <1>3, <1>4, <1>5, <1>7, <1>8

(* the top frame has its function on top of the stack *)
LEMMA FollowsTop ==
  ASSUME NEW m, NEW c \in Ids, NEW f \in Seq(Frame), m.stack \in Seq(Call),
         f # <<>>, Top(f).by = c, Follows(m, f, c)
  PROVE  m.stack # <<>> /\ m.table[Leaving(m)].symbol = Top(f).fn
<1>1. Len(f) \in 1 .. Len(f) /\ Len(f) \in Nat /\ Len(m.stack) \in Nat
  OBVIOUS
<1>2. Len(m.stack) - Len(f) + Len(f) = Len(m.stack)
  BY <1>1
<1>3. Len(m.stack) >= 1 /\ m.table[m.stack[Len(m.stack)].function].symbol = f[Len(f)].fn
  BY <1>1, <1>2 DEF Follows, Top
<1> QED
  BY <1>3 DEF Leaving, Top

------------------------------------------------------------------------------
(* The steps *)

(* A context that differs in its times, its arcs or its parent only. *)
SameCalls(m, r) ==
  /\ r.stack = m.stack /\ r.table = m.table /\ r.nb = m.nb /\ r.last_time \in Nat
  /\ r = [stack |-> r.stack, table |-> r.table, nb |-> r.nb, graph |-> r.graph,
          pid |-> r.pid, first_time |-> r.first_time, last_time |-> r.last_time]

(* It is as good as the other one. *)
LEMMA SameCallsInv ==
  ASSUME NEW m, NEW r, SameCalls(m, r)
  PROVE  /\ ContextInv(m) => ContextInv(r)
         /\ ReadingInv(m) => ReadingInv(r)
  BY DEF SameCalls, ReadingInv, ContextInv, IsContext, Counted

(* fc_context_set gives a context, the one of c if it is known. *)
LEMMA ContextSetInv ==
  ASSUME ManagerInv, phase = "read", NEW c \in Ids, NEW time \in Nat
  PROVE  /\ ReadingInv(ContextSet(c, time)) /\ ReadingInv(Received(c, time))
         /\ Known(c) => ContextSet(c, time) = ctx[c]
         /\ SameCalls(ContextSet(c, time), Received(c, time))
<1> DEFINE m == ContextSet(c, time)
           r == Received(c, time)
<1>1. ReadingInv(m)
  <2>1. ReadingInv(ctx[c])
    BY DEF ManagerInv
  <2> QED
    BY <2>1, EmptyInv, ForkedInv DEF ContextSet
<1>2. Known(c) => m = ctx[c]
  BY DEF ContextSet
<1>3. r = [m EXCEPT !.last_time = time]
  BY DEF Received
<1>4. IsContext(m)
  BY <1>1 DEF ReadingInv, ContextInv
<1> HIDE DEF m, r
<1>5. SameCalls(m, r)
  BY <1>3, <1>4 DEF IsContext, SameCalls
<1>6. ReadingInv(r)
  BY <1>1, <1>5, SameCallsInv
<1> QED
  BY <1>1, <1>2, <1>5, <1>6 DEF m, r

(* The list of contexts grows, and has the one that is treated. *)
LEMMA Registered ==
  ASSUME list \in Seq(Ids), NEW c \in Ids, Register(c)
  PROVE  /\ list' \in Seq(Ids) /\ (list # <<>> => list' # <<>>)
         /\ Known(c)' /\ \A d \in Ids : Known(d) => Known(d)'
<1>1. CASE Known(c)
  BY <1>1 DEF Register, Known
<1>2. CASE ~Known(c)
  <2>1. list' = Append(list, c)
    BY <1>2 DEF Register
  <2>2. /\ list' \in Seq(Ids) /\ Len(list') = Len(list) + 1 /\ Len(list) \in Nat
        /\ list'[Len(list) + 1] = c
        /\ \A k \in 1 .. Len(list) : list'[k] = list[k]
    BY <2>1
  <2>3. \A k \in 1 .. Len(list) : k \in 1 .. Len(list')
    BY <2>2
  <2>4. Len(list) + 1 \in 1 .. Len(list')
    BY <2>2
  <2> QED
    BY <2>2, <2>3, <2>4 DEF Known
<1> QED
  BY <1>1, <1>2

(* A context is treated: the others stay, and nothing is flushed. *)
LEMMA TreatStep ==
  ASSUME ManagerInv, FlushInv, phase = "read", NEW c \in Ids, NEW to, Treat(c, to),
         ReadingInv(to), phase' = phase, flushed' = flushed
  PROVE  /\ ManagerInv' /\ FlushInv'
         /\ Known(c)' /\ \A d \in Ids : Known(d) => Known(d)'
         /\ ctx'[c] = to /\ \A d \in Ids : d # c => ctx'[d] = ctx[d]
<1>1. /\ list' \in Seq(Ids) /\ list' # <<>> /\ Known(c)'
      /\ \A d \in Ids : Known(d) => Known(d)'
  BY Registered DEF Treat, ManagerInv
<1>2. /\ DOMAIN ctx' = Ids /\ ctx'[c] = to /\ current' = c
      /\ \A d \in Ids : d # c => ctx'[d] = ctx[d]
  BY DEF Treat, ManagerInv
<1>3. \A d \in Ids : ReadingInv(ctx'[d])
  BY <1>2 DEF ManagerInv
<1>4. \A d \in Ids : ContextInv(ctx'[d])
  BY <1>3 DEF ReadingInv
<1>5. \A d \in Ids : ~Known(d)' => ctx'[d].stack = <<>>
  BY <1>1, <1>2 DEF ManagerInv
<1>6. ManagerInv'
  BY <1>1, <1>2, <1>3, <1>4, <1>5 DEF ManagerInv
<1>7. FlushInv'
  BY DEF FlushInv
<1> QED
  BY <1>1, <1>2, <1>6, <1>7

(* What a process or thread has entered is on the stack of its context, or *)
(* of a new one, when there is nothing.                                    *)
LEMMA SetFollows ==
  ASSUME ProfileInv, phase = "read", NEW c \in Ids, ~jumped[c], NEW m,
         Known(c) => m.stack = ctx[c].stack /\ m.table = ctx[c].table
  PROVE  Follows(m, frames[c], c)
<1>1. CASE Known(c)
  BY <1>1 DEF ProfileInv, FollowInv, Follows
<1>2. CASE ~Known(c)
  BY <1>2 DEF ProfileInv, ProgramInv, Follows, Known, Listed
<1> QED
  BY <1>1, <1>2

(* A step that leaves the program's frames alone and the calls of all      *)
(* contexts but new ones.                                                  *)
LEMMA FollowKept ==
  ASSUME ProfileInv, phase = "read", NEW c \in Ids, frames' = frames,
         \A d \in Ids : ~jumped'[d] => ~jumped[d],
         Known(c) => ctx'[c].stack = ctx[c].stack /\ ctx'[c].table = ctx[c].table,
         \A d \in Ids : d # c => ctx'[d] = ctx[d]
  PROVE  FollowInv'
<1>1. SUFFICES ASSUME NEW d \in Ids, ~jumped'[d]
               PROVE  Follows(ctx'[d], frames'[d], d)
  BY DEF FollowInv
<1>2. Follows(ctx'[d], frames[d], d)
  <2>1. Known(d) => ctx'[d].stack = ctx[d].stack /\ ctx'[d].table = ctx[d].table
    OBVIOUS
  <2> DEFINE m == ctx'[d]
  <2>2. Known(d) => m.stack = ctx[d].stack /\ m.table = ctx[d].table
    BY <2>1
  <2>3. ~jumped[d]
    BY <1>1
  <2> HIDE DEF m
  <2>4. Follows(m, frames[d], d)
    BY <2>2, <2>3, SetFollows
  <2> QED
    BY <2>4 DEF m
<1> QED
  BY <1>2

(* The program's frames are what they were, with more contexts known. *)
LEMMA ProgramKept ==
  ASSUME ProgramInv, frames' = frames, jumped' \in [Ids -> BOOLEAN],
         parent' \in [Ids -> Ids \cup {0}],
         alive' \in [Ids -> {"unborn", "forked", "run", "creating", "over"}],
         \A d \in Ids : alive'[d] = "unborn" => alive[d] = "unborn",
         \A d \in Ids : Known(d) => Known(d)', phase' = "read" => phase = "read",
         clock' \in Nat, vtime' \in Nat
  PROVE  ProgramInv'
<1>1. ASSUME NEW c \in Ids, NEW k \in 1 .. Len(frames[c]) PROVE frames[c][k].by \in Ids
  <2>1. frames[c] \in Seq(Frame)
    BY DEF ProgramInv
  <2>2. frames[c][k] \in Frame
    BY <2>1
  <2> QED
    BY <2>2 DEF Frame
<1>2. ASSUME NEW c \in Ids, NEW k \in 1 .. Len(frames[c])
      PROVE  /\ alive'[frames[c][k].by] # "unborn"
             /\ phase' = "read" => Listed(list', frames[c][k].by)
  <2>1. alive[frames[c][k].by] # "unborn" /\ (phase = "read" => Known(frames[c][k].by))
    BY DEF ProgramInv, Known, Listed
  <2>2. phase = "read" => Listed(list', frames[c][k].by)
    BY <1>1, <2>1 DEF Known, Listed
  <2> QED
    BY <1>1, <2>1, <2>2
<1> QED
  BY <1>2 DEF ProgramInv

(* An event other than ENTER and EXIT leaves the calls of its context. *)
LEMMA PlainStep ==
  ASSUME ProfileInv, phase = "read", NEW c \in Ids, NEW time \in Nat, NEW to, Treat(c, to),
         SameCalls(ContextSet(c, time), to),
         phase' = phase, flushed' = flushed, frames' = frames, jumped' = jumped,
         parent' \in [Ids -> Ids \cup {0}],
         alive' \in [Ids -> {"unborn", "forked", "run", "creating", "over"}],
         \A d \in Ids : alive'[d] = "unborn" => alive[d] = "unborn",
         clock' \in Nat, vtime' \in Nat
  PROVE  ProfileInv'
<1>1. ManagerInv /\ FlushInv /\ ProgramInv
  BY DEF ProfileInv
<1>2. ReadingInv(ContextSet(c, time)) /\ (Known(c) => ContextSet(c, time) = ctx[c])
  BY <1>1, ContextSetInv
<1>3. ReadingInv(to)
  BY <1>2, SameCallsInv
<1>4. /\ ManagerInv' /\ FlushInv' /\ \A d \in Ids : Known(d) => Known(d)'
      /\ ctx'[c] = to /\ \A d \in Ids : d # c => ctx'[d] = ctx[d]
  BY <1>1, <1>3, TreatStep
<1>5. Known(c) => ctx'[c].stack = ctx[c].stack /\ ctx'[c].table = ctx[c].table
  BY <1>2, <1>4 DEF SameCalls
<1>6. FollowInv'
  <2>1. \A d \in Ids : ~jumped'[d] => ~jumped[d]
    OBVIOUS
  <2> QED
    BY <1>4, <1>5, <2>1, FollowKept
<1>7. jumped' \in [Ids -> BOOLEAN]
  BY <1>1 DEF ProgramInv
<1>8. ProgramInv'
  BY <1>1, <1>4, <1>7, ProgramKept
<1> QED
  BY <1>4, <1>6, <1>8 DEF ProfileInv

(* MALLOC and its like, DLOPEN and its like *)
LEMMA OtherStep ==
  ASSUME ProfileInv, NEW c \in Ids, OtherEvent(c)
  PROVE  ProfileInv'
<1>1. phase = "read" /\ vtime \in Nat /\ ManagerInv
  BY DEF OtherEvent, Step, ProfileInv, ProgramInv
<1>2. SameCalls(ContextSet(c, vtime), Received(c, vtime))
  BY <1>1, ContextSetInv
<1>3. /\ Treat(c, Received(c, vtime)) /\ phase' = phase /\ flushed' = flushed /\ frames' = frames
      /\ jumped' = jumped /\ parent' = parent /\ alive' = alive /\ clock' = clock /\ vtime' = vtime
  BY DEF OtherEvent, program, history
<1>4. /\ parent' \in [Ids -> Ids \cup {0}] /\ clock' \in Nat /\ vtime' \in Nat
      /\ alive' \in [Ids -> {"unborn", "forked", "run", "creating", "over"}]
  BY <1>3 DEF ProfileInv, ProgramInv
<1>5. \A d \in Ids : alive'[d] = "unborn" => alive[d] = "unborn"
  BY <1>3
<1> QED
  BY <1>1, <1>2, <1>3, <1>4, <1>5, PlainStep

(* PARENT *)
LEMMA ParentStep ==
  ASSUME ProfileInv, NEW c \in Ids, ParentEvent(c)
  PROVE  ProfileInv'
<1> DEFINE m == Received(c, vtime)
           to == [m EXCEPT !.pid = parent[c]]
<1>1. phase = "read" /\ vtime \in Nat /\ ManagerInv
  BY DEF ParentEvent, ProfileInv, ProgramInv
<1>2. SameCalls(ContextSet(c, vtime), m)
  BY <1>1, ContextSetInv
<1> HIDE DEF m
<1>3. SameCalls(ContextSet(c, vtime), to)
  BY <1>2 DEF SameCalls
<1> HIDE DEF to
<1>4. /\ Treat(c, to) /\ phase' = phase /\ flushed' = flushed /\ frames' = frames
      /\ jumped' = jumped /\ parent' = parent /\ clock' = clock /\ vtime' = vtime
      /\ alive' = [alive EXCEPT ![c] = "run"]
  BY DEF ParentEvent, history, to, m
<1>5. /\ parent' \in [Ids -> Ids \cup {0}] /\ clock' \in Nat /\ vtime' \in Nat
      /\ alive' \in [Ids -> {"unborn", "forked", "run", "creating", "over"}]
  BY <1>4 DEF ProfileInv, ProgramInv
<1>6. \A d \in Ids : alive'[d] = "unborn" => alive[d] = "unborn"
  BY <1>4 DEF ProfileInv, ProgramInv
<1> QED
  BY <1>1, <1>3, <1>4, <1>5, <1>6, PlainStep

(* THREAD *)
LEMMA ThreadStep ==
  ASSUME ProfileInv, NEW c \in Ids, ThreadEvent(c)
  PROVE  ProfileInv'
<1> DEFINE to == ContextSet(c, clock')
<1>1. phase = "read" /\ clock' \in Nat /\ vtime' \in Nat /\ ManagerInv
  BY DEF ThreadEvent, Tick, ProfileInv, ProgramInv
<1>2. SameCalls(to, to)
  <2>1. ReadingInv(to)
    BY <1>1, ContextSetInv
  <2> QED
    BY <2>1 DEF ReadingInv, ContextInv, IsContext, SameCalls
<1>3. /\ Treat(c, to) /\ phase' = phase /\ flushed' = flushed /\ frames' = frames
      /\ jumped' = jumped
      /\ parent[c] # 0 /\ parent' = [parent EXCEPT ![c] = 0]
      /\ alive' = [alive EXCEPT ![parent[c]] = "run"]
  BY DEF ThreadEvent, history
<1>4. /\ parent' \in [Ids -> Ids \cup {0}]
      /\ alive' \in [Ids -> {"unborn", "forked", "run", "creating", "over"}]
  BY <1>3 DEF ProfileInv, ProgramInv
<1>5. \A d \in Ids : alive'[d] = "unborn" => alive[d] = "unborn"
  BY <1>3 DEF ProfileInv, ProgramInv
<1> HIDE DEF to
<1>6. SameCalls(ContextSet(c, clock'), to)
  BY <1>2 DEF to
<1> QED
  BY <1>1, <1>3, <1>4, <1>5, <1>6, PlainStep

(* QUIT *)
LEMMA QuitStep ==
  ASSUME ProfileInv, NEW c \in Ids, Quit(c)
  PROVE  ProfileInv'
<1> DEFINE to == ContextSet(c, clock')
<1>1. phase = "read" /\ clock' \in Nat /\ vtime' \in Nat /\ ManagerInv
  BY DEF Quit, Tick, ProfileInv, ProgramInv
<1>2. SameCalls(to, to)
  <2>1. ReadingInv(to)
    BY <1>1, ContextSetInv
  <2> QED
    BY <2>1 DEF ReadingInv, ContextInv, IsContext, SameCalls
<1>3. /\ Treat(c, to) /\ phase' = phase /\ flushed' = flushed /\ frames' = frames
      /\ jumped' = jumped /\ parent' = parent
      /\ alive' = [alive EXCEPT ![c] = "over"]
  BY DEF Quit, history
<1>4. /\ parent' \in [Ids -> Ids \cup {0}]
      /\ alive' \in [Ids -> {"unborn", "forked", "run", "creating", "over"}]
  BY <1>3 DEF ProfileInv, ProgramInv
<1>5. \A d \in Ids : alive'[d] = "unborn" => alive[d] = "unborn"
  BY <1>3 DEF ProfileInv, ProgramInv
<1> HIDE DEF to
<1>6. SameCalls(ContextSet(c, clock'), to)
  BY <1>2 DEF to
<1> QED
  BY <1>1, <1>3, <1>4, <1>5, <1>6, PlainStep

(* the beginning of a sequence of frames *)
LEMMA FramesCut ==
  ASSUME NEW f \in Seq(Frame), NEW n \in 0 .. Len(f)
  PROVE  /\ SubSeq(f, 1, n) \in Seq(Frame) /\ Len(SubSeq(f, 1, n)) = n
         /\ \A k \in 1 .. n : SubSeq(f, 1, n)[k] = f[k]
<1> DEFINE q == SubSeq(f, 1, n)
<1>1. \A i \in 1 .. n : f[i] \in Frame
  OBVIOUS
<1>2. n \in Nat /\ n \in Int /\ 1 \in Int
  OBVIOUS
<1>3. /\ q \in Seq(Frame)
      /\ Len(q) = IF 1 <= n THEN n - 1 + 1 ELSE 0
      /\ \A i \in 1 .. n - 1 + 1 : q[i] = f[1 + i - 1]
  BY <1>1, <1>2, SubSeqProperties
<1> HIDE DEF q
<1>4. Len(q) = n
  BY <1>2, <1>3
<1>5. \A k \in 1 .. n : k \in 1 .. n - 1 + 1 /\ 1 + k - 1 = k
  BY <1>2
<1> QED
  BY <1>3, <1>4, <1>5 DEF q

(* The frames of c are changed to g, which it is allowed to have. *)
LEMMA ProgramChanged ==
  ASSUME ProgramInv, NEW c \in Ids, NEW g \in Seq(Frame),
         frames' = [frames EXCEPT ![c] = g],
         \A k \in 1 .. Len(g) : alive'[g[k].by] # "unborn" /\ (phase' = "read" => Listed(list', g[k].by)),
         \A j, k \in 1 .. Len(g) : j <= k /\ g[j].by = c => g[k].by = c,
         jumped' \in [Ids -> BOOLEAN], parent' \in [Ids -> Ids \cup {0}],
         alive' \in [Ids -> {"unborn", "forked", "run", "creating", "over"}],
         \A d \in Ids : alive'[d] = "unborn" => alive[d] = "unborn",
         \A d \in Ids : Known(d) => Known(d)', phase' = "read" => phase = "read",
         clock' \in Nat, vtime' \in Nat
  PROVE  ProgramInv'
<1>1. /\ frames' \in [Ids -> Seq(Frame)] /\ frames'[c] = g
      /\ \A d \in Ids : d # c => frames'[d] = frames[d]
  BY DEF ProgramInv
<1>2. ASSUME NEW d \in Ids, NEW k \in 1 .. Len(frames'[d])
      PROVE  /\ alive'[frames'[d][k].by] # "unborn"
             /\ phase' = "read" => Listed(list', frames'[d][k].by)
  <2>1. CASE d = c
    BY <1>1, <2>1
  <2>2. CASE d # c
    <3>1. frames'[d] = frames[d] /\ frames[d] \in Seq(Frame)
      BY <1>1, <2>2 DEF ProgramInv
    <3>2. frames[d][k] \in Frame
      BY <3>1
    <3>3. frames[d][k].by \in Ids
      BY <3>2 DEF Frame
    <3>4. k \in 1 .. Len(frames[d])
      BY <3>1
    <3>5. alive[frames[d][k].by] # "unborn" /\ (phase = "read" => Known(frames[d][k].by))
      BY <3>4 DEF ProgramInv, Known, Listed
    <3>6. phase = "read" => Listed(list', frames[d][k].by)
      BY <3>3, <3>5 DEF Known, Listed
    <3> QED
      BY <3>1, <3>3, <3>5, <3>6
  <2> QED
    BY <2>1, <2>2
<1>3. ASSUME NEW d \in Ids, NEW j \in 1 .. Len(frames'[d]), NEW k \in 1 .. Len(frames'[d]),
             j <= k, frames'[d][j].by = d
      PROVE  frames'[d][k].by = d
  <2>1. CASE d = c
    BY <1>1, <1>3, <2>1
  <2>2. CASE d # c
    BY <1>1, <1>3, <2>2 DEF ProgramInv
  <2> QED
    BY <2>1, <2>2
<1> QED
  BY <1>1, <1>2, <1>3 DEF ProgramInv

(* The manager does nothing. *)
LEMMA ManagerKept ==
  ASSUME ManagerInv, FlushInv, UNCHANGED <<list, current, ctx, phase, flushed>>
  PROVE  ManagerInv' /\ FlushInv' /\ \A d \in Ids : Known(d) => Known(d)'
  BY DEF ManagerInv, FlushInv, Known

(* longjmp: the frames left are not compared any more. *)
LEMMA JumpStep ==
  ASSUME ProfileInv, NEW c \in Ids, Jump(c)
  PROVE  ProfileInv'
<1>1. ProgramInv /\ ManagerInv /\ FlushInv /\ FollowInv
  BY DEF ProfileInv
<1>2. /\ UNCHANGED <<list, current, ctx, phase, flushed>> /\ UNCHANGED <<alive, parent, clock, vtime>>
      /\ jumped' = [jumped EXCEPT ![c] = TRUE] /\ frames[c] # <<>>
  BY DEF Jump
<1>3. PICK n \in 0 .. Len(frames[c]) - 1 : frames' = [frames EXCEPT ![c] = SubSeq(frames[c], 1, n)]
  BY DEF Jump
<1>4. frames[c] \in Seq(Frame)
  BY <1>1 DEF ProgramInv
<1>5. n \in 0 .. Len(frames[c])
  BY <1>4
<1> DEFINE g == SubSeq(frames[c], 1, n)
<1>6. g \in Seq(Frame) /\ Len(g) = n /\ \A k \in 1 .. n : g[k] = frames[c][k]
  BY <1>4, <1>5, FramesCut
<1> HIDE DEF g
<1>7. ManagerInv' /\ FlushInv' /\ \A d \in Ids : Known(d) => Known(d)'
  BY <1>1, <1>2, ManagerKept
<1>8. \A k \in 1 .. Len(g) : k \in 1 .. Len(frames[c]) /\ g[k] = frames[c][k]
  BY <1>4, <1>5, <1>6
<1>9. \A k \in 1 .. Len(g) : alive'[g[k].by] # "unborn" /\ (phase' = "read" => Listed(list', g[k].by))
  BY <1>1, <1>2, <1>8 DEF ProgramInv
<1>10. \A j, k \in 1 .. Len(g) : j <= k /\ g[j].by = c => g[k].by = c
  BY <1>1, <1>8 DEF ProgramInv
<1>11. /\ jumped' \in [Ids -> BOOLEAN] /\ parent' \in [Ids -> Ids \cup {0}]
       /\ alive' \in [Ids -> {"unborn", "forked", "run", "creating", "over"}]
       /\ clock' \in Nat /\ vtime' \in Nat
  BY <1>1, <1>2 DEF ProgramInv
<1>12. \A d \in Ids : alive'[d] = "unborn" => alive[d] = "unborn"
  BY <1>2
<1>13. frames' = [frames EXCEPT ![c] = g]
  BY <1>3 DEF g
<1>14. ProgramInv'
  <2>1. phase' = "read" => phase = "read"
    BY <1>2
  <2> QED
    BY <1>1, <1>6, <1>7, <1>9, <1>10, <1>11, <1>12, <1>13, <2>1, ProgramChanged
<1>15. FollowInv'
  <2>1. SUFFICES ASSUME phase = "read", NEW d \in Ids, ~jumped'[d]
                 PROVE  Follows(ctx'[d], frames'[d], d)
    BY <1>2 DEF FollowInv
  <2>2. d # c /\ ~jumped[d]
    BY <1>1, <1>2, <2>1 DEF ProgramInv
  <2>3. frames'[d] = frames[d]
    BY <1>1, <1>13, <2>2 DEF ProgramInv
  <2> QED
    BY <1>1, <1>2, <2>1, <2>2, <2>3 DEF FollowInv
<1> QED
  BY <1>7, <1>14, <1>15 DEF ProfileInv

(* A thread ends, inside its functions or not. *)
LEMMA ThreadEndsStep ==
  ASSUME ProfileInv, NEW c \in Ids, ThreadEnds(c)
  PROVE  ProfileInv'
<1>1. ProgramInv /\ ManagerInv /\ FlushInv /\ FollowInv
  BY DEF ProfileInv
<1>2. /\ UNCHANGED <<list, current, ctx, phase, flushed>>
      /\ UNCHANGED <<frames, parent, clock, vtime>> /\ phase = "read"
      /\ jumped' = [jumped EXCEPT ![c] = @ \/ frames[c] # <<>>]
      /\ alive' = [alive EXCEPT ![c] = "over"]
  BY DEF ThreadEnds
<1>3. ManagerInv' /\ FlushInv' /\ \A d \in Ids : Known(d) => Known(d)'
  BY <1>1, <1>2, ManagerKept
<1>4. jumped' \in [Ids -> BOOLEAN] /\ \A d \in Ids : ~jumped'[d] => ~jumped[d]
  BY <1>1, <1>2 DEF ProgramInv
<1>5. /\ alive' \in [Ids -> {"unborn", "forked", "run", "creating", "over"}]
      /\ \A d \in Ids : alive'[d] = "unborn" => alive[d] = "unborn"
  BY <1>1, <1>2 DEF ProgramInv
<1>6. parent' \in [Ids -> Ids \cup {0}] /\ clock' \in Nat /\ vtime' \in Nat
  BY <1>1, <1>2 DEF ProgramInv
<1>7. ProgramInv'
  BY <1>1, <1>2, <1>3, <1>4, <1>5, <1>6, ProgramKept
<1>8. FollowInv'
  BY <1>2, <1>4, FollowKept
<1> QED
  BY <1>3, <1>7, <1>8 DEF ProfileInv

(* fork: the child has inherited all its frames. *)
LEMMA ForkStep ==
  ASSUME ProfileInv, NEW p \in Ids, NEW c \in Ids, Fork(p, c)
  PROVE  ProfileInv'
<1>1. ProgramInv /\ ManagerInv /\ FlushInv /\ FollowInv
  BY DEF ProfileInv
<1>2. /\ UNCHANGED <<list, current, ctx, phase, flushed>> /\ vtime' = vtime /\ jumped' = jumped
      /\ alive[c] = "unborn" /\ alive' = [alive EXCEPT ![c] = "forked"]
      /\ frames' = [frames EXCEPT ![c] = frames[p]] /\ clock' = clock + 1
      /\ parent' = [parent EXCEPT ![c] = p]
  BY DEF Fork
<1> DEFINE g == frames[p]
<1>3. g \in Seq(Frame)
  BY <1>1 DEF ProgramInv
<1>4. ManagerInv' /\ FlushInv' /\ \A d \in Ids : Known(d) => Known(d)'
  BY <1>1, <1>2, ManagerKept
<1>5. /\ alive' \in [Ids -> {"unborn", "forked", "run", "creating", "over"}]
      /\ \A d \in Ids : alive'[d] = "unborn" => alive[d] = "unborn"
  BY <1>1, <1>2 DEF ProgramInv
<1>6. ASSUME NEW k \in 1 .. Len(g)
      PROVE  alive'[g[k].by] # "unborn" /\ (phase' = "read" => Listed(list', g[k].by)) /\ g[k].by # c
  <2>1. g[k] \in Frame
    BY <1>3
  <2>2. g[k].by \in Ids
    BY <2>1 DEF Frame
  <2>3. alive[g[k].by] # "unborn" /\ (phase = "read" => Listed(list, g[k].by))
    BY <1>1 DEF ProgramInv
  <2> QED
    BY <1>2, <1>5, <2>2, <2>3
<1>7. \A j, k \in 1 .. Len(g) : j <= k /\ g[j].by = c => g[k].by = c
  BY <1>6
<1>8. /\ jumped' \in [Ids -> BOOLEAN] /\ parent' \in [Ids -> Ids \cup {0}]
      /\ clock' \in Nat /\ vtime' \in Nat
  BY <1>1, <1>2 DEF ProgramInv
<1> HIDE DEF g
<1>9. frames' = [frames EXCEPT ![c] = g]
  BY <1>2 DEF g
<1>10. ProgramInv'
  <2>1. phase' = "read" => phase = "read"
    BY <1>2
  <2> QED
    BY <1>1, <1>3, <1>4, <1>5, <1>6, <1>7, <1>8, <1>9, <2>1, ProgramChanged
<1>11. FollowInv'
  <2>1. SUFFICES ASSUME phase = "read", NEW d \in Ids, ~jumped'[d]
                 PROVE  Follows(ctx'[d], frames'[d], d)
    BY <1>2 DEF FollowInv
  <2>2. CASE d = c
    <3>1. frames'[d] = g
      BY <1>1, <1>9, <2>2 DEF ProgramInv
    <3> QED
      BY <1>6, <2>2, <3>1 DEF Follows
  <2>3. CASE d # c
    <3>1. frames'[d] = frames[d]
      BY <1>1, <1>9, <2>3 DEF ProgramInv
    <3> QED
      BY <1>1, <1>2, <2>1, <3>1 DEF FollowInv
  <2> QED
    BY <2>2, <2>3
<1> QED
  BY <1>4, <1>10, <1>11 DEF ProfileInv

(* pthread_create: the new thread has no frame. *)
LEMMA CreateThreadStep ==
  ASSUME ProfileInv, NEW p \in Ids, NEW c \in Ids, CreateThread(p, c)
  PROVE  ProfileInv'
<1>1. ProgramInv /\ ManagerInv /\ FlushInv /\ FollowInv
  BY DEF ProfileInv
<1>2. /\ UNCHANGED <<list, current, ctx, phase, flushed>> /\ vtime' = vtime /\ jumped' = jumped
      /\ alive' = [alive EXCEPT ![p] = "creating", ![c] = "run"]
      /\ frames' = [frames EXCEPT ![c] = <<>>] /\ clock' = clock + 1
      /\ parent' = [parent EXCEPT ![c] = p]
  BY DEF CreateThread, history
<1>3. ManagerInv' /\ FlushInv' /\ \A d \in Ids : Known(d) => Known(d)'
  BY <1>1, <1>2, ManagerKept
<1>4. /\ alive' \in [Ids -> {"unborn", "forked", "run", "creating", "over"}]
      /\ \A d \in Ids : alive'[d] = "unborn" => alive[d] = "unborn"
  BY <1>1, <1>2 DEF ProgramInv
<1>5. /\ jumped' \in [Ids -> BOOLEAN] /\ parent' \in [Ids -> Ids \cup {0}]
      /\ clock' \in Nat /\ vtime' \in Nat
  BY <1>1, <1>2 DEF ProgramInv
<1> DEFINE g == <<>>
<1>6. g \in Seq(Frame) /\ \A k \in 1 .. Len(g) : FALSE
  OBVIOUS
<1>7. frames' = [frames EXCEPT ![c] = g]
  BY <1>2
<1> HIDE DEF g
<1>8. ProgramInv'
  <2>1. phase' = "read" => phase = "read"
    BY <1>2
  <2> QED
    BY <1>1, <1>3, <1>4, <1>5, <1>6, <1>7, <2>1, ProgramChanged
<1>9. FollowInv'
  <2>1. SUFFICES ASSUME phase = "read", NEW d \in Ids, ~jumped'[d]
                 PROVE  Follows(ctx'[d], frames'[d], d)
    BY <1>2 DEF FollowInv
  <2>2. CASE d = c
    <3>1. frames'[d] = g
      BY <1>1, <1>7, <2>2 DEF ProgramInv
    <3> QED
      BY <1>6, <3>1 DEF Follows
  <2>3. CASE d # c
    <3>1. frames'[d] = frames[d]
      BY <1>1, <1>7, <2>3 DEF ProgramInv
    <3> QED
      BY <1>1, <1>2, <2>1, <3>1 DEF FollowInv
  <2> QED
    BY <2>2, <2>3
<1> QED
  BY <1>3, <1>8, <1>9 DEF ProfileInv

(* ENTER.  A table that is full ends the manager; else the frame is on the *)
(* program's stack and on the manager's.                                   *)
LEMMA EnterStep ==
  ASSUME ProfileInv, NEW c \in Ids, NEW f \in Funcs, NEW s \in Sites, EnterFunction(c, f, s)
  PROVE  ProfileInv'
<1> DEFINE e == [fn |-> f, site |-> s, by |-> c]
           g == Append(frames[c], e)
           set == Received(c, clock')
           to == Enter(set, f, s, clock')
           full == Find(set.table, f) = NoSlot /\ TooManyFunctions(set.nb)
<1>1. ProgramInv /\ ManagerInv /\ FlushInv /\ FollowInv
  BY DEF ProfileInv
<1>2. /\ phase = "read" /\ alive[c] = "run" /\ alive' = alive /\ parent' = parent
      /\ flushed' = flushed /\ jumped' = jumped
      /\ clock' = clock + 1 /\ vtime' = clock + 1
      /\ frames' = [frames EXCEPT ![c] = g]
  BY DEF EnterFunction, Step, Tick, Account
<1>3. /\ full => phase' = "fatal" /\ UNCHANGED <<list, current, ctx>>
      /\ ~full => Treat(c, to) /\ phase' = phase
  BY DEF EnterFunction
<1>4. /\ clock' \in Nat /\ vtime' \in Nat /\ frames[c] \in Seq(Frame)
      /\ jumped' \in [Ids -> BOOLEAN] /\ parent' \in [Ids -> Ids \cup {0}]
      /\ alive' \in [Ids -> {"unborn", "forked", "run", "creating", "over"}]
  BY <1>1, <1>2 DEF ProgramInv
<1>5. /\ ReadingInv(set) /\ SameCalls(ContextSet(c, clock'), set)
      /\ Known(c) => ContextSet(c, clock') = ctx[c]
  BY <1>1, <1>2, <1>4, ContextSetInv
<1>6. f \in Nat \ {NULL} /\ s \in Nat
  BY ProfileAssumption
<1>7. e \in Frame /\ e.by = c
  BY DEF Frame
<1> HIDE DEF e
<1>8. /\ g \in Seq(Frame) /\ Len(g) = Len(frames[c]) + 1 /\ g[Len(frames[c]) + 1] = e
      /\ \A k \in 1 .. Len(frames[c]) : g[k] = frames[c][k]
      /\ Len(frames[c]) \in Nat
  BY <1>4, <1>7
<1> HIDE DEF g
<1>9. ASSUME NEW k \in 1 .. Len(g)
      PROVE  \/ k = Len(frames[c]) + 1 /\ g[k].by = c
             \/ k \in 1 .. Len(frames[c]) /\ g[k] = frames[c][k]
  <2>1. k = Len(frames[c]) + 1 => g[k].by = c
    BY <1>7, <1>8
  <2>2. k # Len(frames[c]) + 1 => k \in 1 .. Len(frames[c])
    BY <1>8
  <2>3. k # Len(frames[c]) + 1 => g[k] = frames[c][k]
    BY <1>8, <2>2
  <2> QED
    BY <2>1, <2>2, <2>3
<1>10. \A j, k \in 1 .. Len(g) : j <= k /\ g[j].by = c => g[k].by = c
  <2>1. SUFFICES ASSUME NEW j \in 1 .. Len(g), NEW k \in 1 .. Len(g), j <= k, g[j].by = c
                 PROVE  g[k].by = c
    OBVIOUS
  <2>2. CASE k = Len(frames[c]) + 1
    BY <1>7, <1>8, <2>2
  <2>3. CASE k # Len(frames[c]) + 1
    <3>1. k \in 1 .. Len(frames[c]) /\ g[k] = frames[c][k]
      BY <1>9, <2>3
    <3>2. j \in 1 .. Len(frames[c]) /\ g[j] = frames[c][j]
      BY <1>8, <2>1, <3>1
    <3> QED
      BY <1>1, <2>1, <3>1, <3>2 DEF ProgramInv
  <2> QED
    BY <2>2, <2>3
<1>11. \A d \in Ids : alive'[d] = "unborn" => alive[d] = "unborn"
  BY <1>2
<1>12. ASSUME \A d \in Ids : Known(d) => Known(d)', phase' = "read" => Known(c)',
              phase' = "read" => phase = "read"
       PROVE  ProgramInv'
  <2>1. ASSUME NEW k \in 1 .. Len(g)
        PROVE  alive'[g[k].by] # "unborn" /\ (phase' = "read" => Listed(list', g[k].by))
    <3>1. CASE k = Len(frames[c]) + 1 /\ g[k].by = c
      BY <1>2, <1>12, <3>1 DEF Known, Listed
    <3>2. CASE k \in 1 .. Len(frames[c]) /\ g[k] = frames[c][k]
      <4>1. frames[c][k] \in Frame
        BY <1>4, <3>2
      <4>2. frames[c][k].by \in Ids
        BY <4>1 DEF Frame
      <4>3. alive[g[k].by] # "unborn" /\ Known(g[k].by)
        BY <1>1, <1>2, <3>2 DEF ProgramInv, Known, Listed
      <4>4. Listed(list', g[k].by)
        BY <1>12, <3>2, <4>2, <4>3 DEF Known, Listed
      <4> QED
        BY <1>2, <4>3, <4>4
    <3> QED
      BY <1>9, <3>1, <3>2
  <2> QED
    BY <1>1, <1>2, <1>4, <1>8, <1>10, <1>11, <1>12, <2>1, ProgramChanged
<1>13. CASE full
  <2>1. phase' = "fatal" /\ UNCHANGED <<list, current, ctx>>
    BY <1>3, <1>13
  <2>2. ManagerInv' /\ FlushInv' /\ FollowInv'
    BY <1>1, <1>2, <2>1 DEF ManagerInv, FlushInv, FollowInv, Known
  <2>3. \A d \in Ids : Known(d) => Known(d)'
    BY <2>1 DEF Known
  <2>4. ProgramInv'
    BY <1>12, <2>1, <2>3
  <2> QED
    BY <2>2, <2>4 DEF ProfileInv
<1>14. CASE ~full
  <2>1. ReadingInv(to) /\ \E slot \in Slots : Entered(set, to, slot, f, s)
    BY <1>4, <1>5, <1>6, <1>14, EnterInv
  <2>2. PICK slot \in Slots : Entered(set, to, slot, f, s)
    BY <2>1
  <2> HIDE DEF to, set
  <2>3. /\ ManagerInv' /\ FlushInv' /\ Known(c)' /\ \A d \in Ids : Known(d) => Known(d)'
        /\ ctx'[c] = to /\ \A d \in Ids : d # c => ctx'[d] = ctx[d]
    BY <1>1, <1>2, <1>3, <1>14, <2>1, TreatStep
  <2>4. ProgramInv'
    BY <1>2, <1>12, <2>3
  <2>5. ASSUME NEW d \in Ids, ~jumped'[d] PROVE Follows(ctx'[d], frames'[d], d)
    <3>1. CASE d # c
      <4>1. frames'[d] = frames[d] /\ ctx'[d] = ctx[d]
        BY <1>1, <1>2, <2>3, <3>1 DEF ProgramInv
      <4> QED
        BY <1>1, <1>2, <2>5, <4>1 DEF FollowInv
    <3>2. CASE d = c
      <4>1. Known(c) => set.stack = ctx[c].stack /\ set.table = ctx[c].table
        BY <1>5 DEF SameCalls
      <4>2. ~jumped[c]
        BY <1>2, <2>5, <3>2
      <4>3. Follows(set, frames[c], c)
        BY <1>2, <4>1, <4>2, SetFollows
      <4>4. set.stack \in Seq(Call) /\ to.stack \in Seq(Call)
        BY <1>5, <2>1 DEF ReadingInv, ContextInv, IsContext
      <4>5. Follows(to, g, c)
        BY <1>4, <2>2, <4>3, <4>4, FollowsEnter DEF g, e
      <4>6. frames'[c] = g
        BY <1>1, <1>2 DEF ProgramInv
      <4> QED
        BY <2>3, <3>2, <4>5, <4>6
    <3> QED
      BY <3>1, <3>2
  <2>6. FollowInv'
    BY <2>5 DEF FollowInv
  <2> QED
    BY <2>3, <2>4, <2>6 DEF ProfileInv
<1> QED
  BY <1>13, <1>14

(* EXIT.  If the frame is one that the process or thread has entered, it   *)
(* is on top of the manager's stack, and left on both; if it was inherited *)
(* there is none on the manager's stack that would have to be.             *)
LEMMA ExitStep ==
  ASSUME ProfileInv, NEW c \in Ids, ExitFunction(c)
  PROVE  ProfileInv'
<1> DEFINE f == frames[c]
           fn == Top(f).fn
           site == Top(f).site
           g == SubSeq(f, 1, Len(f) - 1)
           set == Received(c, clock')
           m == [set EXCEPT !.graph = GraphAdd(@, site, fn)]
           to == Exit(m, fn, site, clock')
<1>1. ProgramInv /\ ManagerInv /\ FlushInv /\ FollowInv
  BY DEF ProfileInv
<1>2. /\ phase = "read" /\ alive' = alive /\ parent' = parent /\ phase' = phase
      /\ flushed' = flushed /\ jumped' = jumped /\ f # <<>>
      /\ clock' = clock + 1 /\ vtime' = clock + 1
      /\ frames' = [frames EXCEPT ![c] = g] /\ Treat(c, to)
  BY DEF ExitFunction, Step, Tick, Account
<1>3. /\ clock' \in Nat /\ vtime' \in Nat /\ f \in Seq(Frame)
      /\ jumped' \in [Ids -> BOOLEAN] /\ parent' \in [Ids -> Ids \cup {0}]
      /\ alive' \in [Ids -> {"unborn", "forked", "run", "creating", "over"}]
  BY <1>1, <1>2 DEF ProgramInv
<1>4. Len(f) \in Nat /\ Len(f) >= 1 /\ Len(f) - 1 \in 0 .. Len(f)
  BY <1>2, <1>3
<1>5. g \in Seq(Frame) /\ Len(g) = Len(f) - 1 /\ \A k \in 1 .. Len(f) - 1 : g[k] = f[k]
  BY <1>3, <1>4, FramesCut
<1>6. Top(f) \in Frame
  BY <1>3, <1>4 DEF Top
<1>7. fn \in Nat \ {NULL} /\ site \in Nat \ {NULL}
  BY <1>6, ProfileAssumption DEF Frame
<1>8. /\ ReadingInv(set) /\ SameCalls(ContextSet(c, clock'), set)
      /\ Known(c) => ContextSet(c, clock') = ctx[c]
  BY <1>1, <1>2, <1>3, ContextSetInv
<1> HIDE DEF f, fn, site, g, set
<1>9. SameCalls(set, m) /\ m.stack = set.stack /\ m.table = set.table
  BY <1>8 DEF ReadingInv, ContextInv, IsContext, SameCalls
<1> HIDE DEF m
<1>10. ReadingInv(m)
  BY <1>8, <1>9, SameCallsInv
<1>11. ContextInv(m) /\ m.stack \in Seq(Call) /\ \A s \in Slots : Counted(m, s)
  BY <1>10 DEF ReadingInv, ContextInv, IsContext
<1>12. ~Ignored(m, fn) => Left(m, to, fn)
  BY <1>3, <1>7, <1>11, ExitInv
<1>13. Ignored(m, fn) => to = m
  BY DEF Exit
<1> HIDE DEF to
<1>14. ReadingInv(to)
  <2>1. CASE Ignored(m, fn)
    BY <1>10, <1>13, <2>1
  <2>2. CASE ~Ignored(m, fn)
    BY <1>11, <1>12, <2>2 DEF Left, ReadingInv
  <2> QED
    BY <2>1, <2>2
<1>15. /\ ManagerInv' /\ FlushInv' /\ \A d \in Ids : Known(d) => Known(d)'
       /\ ctx'[c] = to /\ \A d \in Ids : d # c => ctx'[d] = ctx[d]
  BY <1>1, <1>2, <1>14, TreatStep
<1>16. \A k \in 1 .. Len(g) : k \in 1 .. Len(f) /\ g[k] = f[k]
  BY <1>4, <1>5
<1>17. ProgramInv'
  <2>1. ASSUME NEW k \in 1 .. Len(g)
        PROVE  alive'[g[k].by] # "unborn" /\ (phase' = "read" => Listed(list', g[k].by))
    <3>1. k \in 1 .. Len(f) /\ g[k] = f[k]
      BY <1>16
    <3>2. f[k] \in Frame
      BY <1>3, <3>1
    <3>3. f[k].by \in Ids
      BY <3>2 DEF Frame
    <3>4. alive[f[k].by] # "unborn" /\ Known(f[k].by)
      BY <1>1, <1>2, <3>1 DEF ProgramInv, Known, Listed, f
    <3>5. Listed(list', f[k].by)
      BY <1>15, <3>3, <3>4 DEF Known, Listed
    <3> QED
      BY <1>2, <3>1, <3>4, <3>5
  <2>2. \A j, k \in 1 .. Len(g) : j <= k /\ g[j].by = c => g[k].by = c
    BY <1>1, <1>16 DEF ProgramInv, f
  <2>3. \A d \in Ids : alive'[d] = "unborn" => alive[d] = "unborn"
    BY <1>2
  <2> QED
    BY <1>1, <1>2, <1>3, <1>5, <1>15, <2>1, <2>2, <2>3, ProgramChanged
<1>18. ASSUME NEW d \in Ids, ~jumped'[d] PROVE Follows(ctx'[d], frames'[d], d)
  <2>1. CASE d # c
    <3>1. frames'[d] = frames[d] /\ ctx'[d] = ctx[d]
      BY <1>1, <1>2, <1>15, <2>1 DEF ProgramInv
    <3> QED
      BY <1>1, <1>2, <1>18, <3>1 DEF FollowInv
  <2>2. CASE d = c
    <3>1. frames'[c] = g
      BY <1>1, <1>2 DEF ProgramInv
    <3>2. CASE Top(f).by # c
      <4>1. \A k \in 1 .. Len(g) : g[k].by # c
        <5>1. SUFFICES ASSUME NEW k \in 1 .. Len(g), g[k].by = c PROVE FALSE
          OBVIOUS
        <5>2. k \in 1 .. Len(f) /\ f[k].by = c /\ Len(f) \in 1 .. Len(f) /\ k <= Len(f)
          BY <1>4, <1>16, <5>1
        <5>3. f[Len(f)].by = c
          BY <1>1, <5>2 DEF ProgramInv, f
        <5> QED
          BY <3>2, <5>3 DEF Top
      <4> QED
        BY <2>2, <3>1, <4>1 DEF Follows
    <3>3. CASE Top(f).by = c
      <4>1. Known(c) => m.stack = ctx[c].stack /\ m.table = ctx[c].table
        BY <1>8, <1>9 DEF SameCalls
      <4>2. ~jumped[c]
        BY <1>2, <1>18, <2>2
      <4>3. Follows(m, f, c)
        BY <1>2, <4>1, <4>2, SetFollows DEF f
      <4>4. m.stack # <<>> /\ m.table[Leaving(m)].symbol = fn
        BY <1>2, <1>3, <1>11, <3>3, <4>3, FollowsTop DEF fn
      <4>5. ~Ignored(m, fn)
        BY <4>4 DEF Ignored, Leaving
      <4>6. to.stack = Pop(m.stack) /\ \A s \in Slots : to.table[s].symbol = m.table[s].symbol
        BY <1>12, <4>4, <4>5 DEF Left
      <4>7. \A k \in 1 .. Len(g) : g[k] = f[k]
        BY <1>16
      <4>8. Follows(to, g, c)
        BY <1>3, <1>5, <1>11, <4>3, <4>4, <4>6, <4>7, FollowsExit
      <4> QED
        BY <1>15, <2>2, <3>1, <4>8
    <3> QED
      BY <3>2, <3>3
  <2> QED
    BY <2>1, <2>2
<1>19. FollowInv'
  BY <1>18 DEF FollowInv
<1> QED
  BY <1>15, <1>17, <1>19 DEF ProfileInv

(* The flush: what has a name exits, what has none is dropped. *)
LEMMA FlushStep ==
  ASSUME ProfileInv, Flush
  PROVE  ProfileInv'
<1>1. ProgramInv /\ ManagerInv /\ FlushInv /\ FollowInv
  BY DEF ProfileInv
<1>2. UNCHANGED <<mode, alive, frames, parent, clock, vtime, list, jumped>> /\ phase' # "read"
  BY DEF Flush, EndOfStream, FlushFunction, FlushNext, SaveAll, program, history
<1>3. FollowInv'
  BY <1>2 DEF FollowInv
<1>4. ProgramInv'
  BY <1>1, <1>2 DEF ProgramInv
<1>5. list \in Seq(Ids) /\ list # <<>> /\ \A k \in 1 .. Len(list) : list[k] \in Ids
  BY <1>1 DEF ManagerInv
<1>6. CASE EndOfStream
  <2>1. phase = "read" /\ phase' = "flush" /\ current' = list[1] /\ UNCHANGED <<ctx, flushed>>
    BY <1>6 DEF EndOfStream
  <2>2. current' \in Ids /\ flushed = 1
    BY <1>1, <1>5, <2>1 DEF FlushInv
  <2>3. ManagerInv'
    BY <1>1, <1>2, <2>1, <2>2 DEF ManagerInv, Known
  <2>4. FlushInv'
    BY <1>2, <1>5, <2>1, <2>2 DEF FlushInv
  <2> QED
    BY <1>3, <1>4, <2>3, <2>4 DEF ProfileInv
<1>7. CASE FlushFunction
  <2> DEFINE set == ctx[current]
             top == Top(set.stack)
             symbol == set.table[top.function].symbol
             m == [set EXCEPT !.graph = GraphAdd(@, top.call_site, symbol)]
             to == IF symbol = NULL THEN [set EXCEPT !.stack = Pop(set.stack)]
                   ELSE Exit(m, symbol, NULL, set.last_time)
  <2>1. /\ phase = "flush" /\ phase' = phase /\ flushed <= Len(list) /\ set.stack # <<>>
        /\ UNCHANGED <<current, flushed>> /\ ctx' = [ctx EXCEPT ![current] = to]
    BY <1>7 DEF FlushFunction
  <2>2. /\ current \in Ids /\ ContextInv(set) /\ DOMAIN ctx = Ids
        /\ IsContext(set) /\ set.stack \in Seq(Call) /\ set.last_time \in Nat
    BY <1>1 DEF ManagerInv, ContextInv, IsContext
  <2>3. top \in Call
    BY <2>1, <2>2 DEF Top
  <2>4. top.function \in Slots
    BY <2>3 DEF Call
  <2>5. symbol \in Nat
    <3>1. set.table[top.function] \in Entry
      BY <2>2, <2>4 DEF IsContext
    <3> QED
      BY <3>1 DEF Entry
  <2> HIDE DEF set
  <2>6. ContextInv(to)
    <3>1. CASE symbol = NULL
      <4>1. to = [set EXCEPT !.stack = Pop(set.stack)]
        BY <3>1
      <4> HIDE DEF to
      <4>2. /\ to.stack = Pop(set.stack) /\ to.table = set.table /\ to.nb = set.nb
            /\ to.last_time = set.last_time
            /\ to = [stack |-> to.stack, table |-> to.table, nb |-> to.nb, graph |-> to.graph,
                     pid |-> to.pid, first_time |-> to.first_time, last_time |-> to.last_time]
        BY <2>2, <4>1 DEF IsContext
      <4>3. /\ to.stack \in Seq(Call) /\ Len(to.stack) = Len(set.stack) - 1
            /\ \A k \in 1 .. Len(set.stack) - 1 : to.stack[k] = set.stack[k]
        BY <2>1, <2>2, <4>2, PopPlaces
      <4>4. IsContext(to)
        BY <2>2, <4>2, <4>3 DEF IsContext
      <4>5. ASSUME NEW s \in Slots, to.table[s].symbol # NULL PROVE Counted(to, s)
        <5>1. s # top.function /\ Counted(set, s)
          BY <2>2, <3>1, <4>2, <4>5 DEF ContextInv
        <5>2. Cardinality(Places(to.stack, s)) = Cardinality(Places(set.stack, s)) - 0
          BY <2>1, <2>2, <4>2, <5>1, PopPlaces
        <5>3. Cardinality(Places(set.stack, s)) \in Nat
          BY <2>2, PlacesFinite
        <5> QED
          BY <4>2, <5>1, <5>2, <5>3 DEF Counted
      <4>6. \A k \in 1 .. Len(to.stack) : to.stack[k].function \notin Free(to.table)
        <5>1. \A k \in 1 .. Len(to.stack) : k \in 1 .. Len(set.stack) /\ k \in 1 .. Len(set.stack) - 1
          BY <2>2, <4>3
        <5> QED
          BY <2>2, <4>2, <4>3, <5>1 DEF ContextInv
      <4> QED
        BY <2>2, <4>2, <4>4, <4>5, <4>6 DEF ContextInv
    <3>2. CASE symbol # NULL
      <4>1. to = Exit(m, symbol, NULL, set.last_time)
        BY <3>2
      <4>2. SameCalls(set, m) /\ m.stack = set.stack /\ m.table = set.table
        BY <2>2 DEF IsContext, SameCalls
      <4> HIDE DEF m, to
      <4>3. ContextInv(m)
        BY <2>2, <4>2, SameCallsInv
      <4>4. m.table[Leaving(m)].symbol = symbol
        BY <4>2 DEF Leaving
      <4>5. ~Ignored(m, symbol)
        BY <2>1, <4>2, <4>4 DEF Ignored, Leaving
      <4>6. symbol \in Nat \ {NULL} /\ NULL \in Nat
        BY <2>5, <3>2 DEF NULL
      <4> HIDE DEF symbol
      <4>7. Left(m, to, symbol)
        BY <2>2, <4>1, <4>3, <4>4, <4>5, <4>6, ExitInv
      <4> QED
        BY <4>7 DEF Left
    <3> QED
      BY <3>1, <3>2
  <2> HIDE DEF to
  <2>7. /\ DOMAIN ctx' = Ids /\ ctx'[current] = to
        /\ \A d \in Ids : d # current => ctx'[d] = ctx[d]
    BY <2>1, <2>2
  <2>8. current = list[flushed] /\ flushed \in 1 .. Len(list) /\ Known(current)
    BY <1>1, <1>5, <2>1 DEF FlushInv, ManagerInv, Known
  <2>9. \A d \in Ids : ContextInv(ctx'[d])
    BY <1>1, <2>6, <2>7 DEF ManagerInv
  <2>10. \A d \in Ids : ~Known(d) => ctx'[d].stack = <<>>
    BY <1>1, <2>7, <2>8 DEF ManagerInv
  <2>11. ManagerInv'
    BY <1>1, <1>2, <2>1, <2>7, <2>9, <2>10 DEF ManagerInv, Known
  <2>12. ASSUME NEW k \in 1 .. Len(list), k < flushed PROVE ctx'[list[k]].stack = <<>>
    <3>1. ctx[list[k]].stack = <<>> /\ list[k] \in Ids
      BY <1>1, <1>5, <2>1, <2>12 DEF FlushInv
    <3>2. list[k] # current
      BY <2>1, <3>1 DEF set
    <3> QED
      BY <2>7, <3>1, <3>2
  <2>13. FlushInv'
    BY <1>2, <2>1, <2>8, <2>12 DEF FlushInv
  <2> QED
    BY <1>3, <1>4, <2>11, <2>13 DEF ProfileInv
<1>8. CASE FlushNext
  <2>1. /\ phase = "flush" /\ phase' = phase /\ flushed <= Len(list) /\ ctx[current].stack = <<>>
        /\ flushed' = flushed + 1 /\ ctx' = ctx
        /\ current' = IF flushed' <= Len(list) THEN list[flushed'] ELSE current
    BY <1>8 DEF FlushNext
  <2>2. flushed \in Nat \ {0} /\ current \in Ids /\ current = list[flushed]
    BY <1>1, <2>1 DEF ManagerInv, FlushInv
  <2>3. current' \in Ids
    BY <1>5, <2>1, <2>2
  <2>4. ManagerInv'
    BY <1>1, <1>2, <2>1, <2>2, <2>3 DEF ManagerInv, Known
  <2>5. ASSUME NEW k \in 1 .. Len(list), k < flushed' PROVE ctx'[list[k]].stack = <<>>
    <3>1. CASE k < flushed
      BY <1>1, <2>1, <3>1 DEF FlushInv
    <3>2. CASE k = flushed
      BY <2>1, <2>2, <3>2
    <3> QED
      BY <2>1, <2>2, <2>5, <3>1, <3>2
  <2>6. FlushInv'
    BY <1>2, <2>1, <2>5 DEF FlushInv
  <2> QED
    BY <1>3, <1>4, <2>4, <2>6 DEF ProfileInv
<1>9. CASE SaveAll
  <2>1. /\ phase = "flush" /\ phase' = "saved" /\ flushed > Len(list)
        /\ UNCHANGED <<current, ctx, flushed>>
    BY <1>9 DEF SaveAll
  <2>2. ManagerInv'
    BY <1>1, <1>2, <2>1 DEF ManagerInv, Known
  <2>3. FlushInv'
    BY <1>1, <1>2, <2>1 DEF FlushInv
  <2> QED
    BY <1>3, <1>4, <2>2, <2>3 DEF ProfileInv
<1> QED
  BY <1>6, <1>7, <1>8, <1>9 DEF Flush

------------------------------------------------------------------------------
(* main starts with one context. *)
LEMMA ProfileInitially == Init => ProfileInv
<1> SUFFICES ASSUME Init PROVE ProfileInv
  OBVIOUS
<1>1. /\ Root \in Ids /\ StartTime \in Nat /\ Garbage \subseteq Nat
  BY ProfileAssumption
<1>2. ProgramInv
  BY <1>1 DEF Init, ProgramInv
<1>3. 0 \in Nat
  OBVIOUS
<1>4. /\ ReadingInv(EmptyContext(StartTime)) /\ EmptyContext(StartTime).stack = <<>>
      /\ ReadingInv(EmptyContext(0)) /\ EmptyContext(0).stack = <<>>
  BY <1>1, <1>3, EmptyInv
<1>5. DOMAIN ctx = Ids /\ \A c \in Ids : ReadingInv(ctx[c]) /\ ctx[c].stack = <<>>
  BY <1>4 DEF Init, NoContext
<1>6. \A c \in Ids : ContextInv(ctx[c])
  BY <1>5 DEF ReadingInv
<1>7. list \in Seq(Ids) /\ list # <<>> /\ current \in Ids /\ flushed = 1 /\ phase = "read"
  BY <1>1 DEF Init
<1>8. ManagerInv
  BY <1>5, <1>6, <1>7 DEF ManagerInv
<1>9. FlushInv
  BY <1>7 DEF FlushInv
<1>10. \A c \in Ids : Len(frames[c]) = 0
  BY DEF Init
<1>11. FollowInv
  BY <1>10 DEF FollowInv, Follows
<1> QED
  BY <1>2, <1>8, <1>9, <1>11 DEF ProfileInv

(* Every event and every step of the flush keeps the invariant. *)
LEMMA ProfileStep == ProfileInv /\ [Next]_vars => ProfileInv'
<1> SUFFICES ASSUME ProfileInv, [Next]_vars PROVE ProfileInv'
  OBVIOUS
<1>1. CASE \E c \in Ids, f \in Funcs, s \in Sites : EnterFunction(c, f, s)
  BY <1>1, EnterStep
<1>2. CASE \E c \in Ids : ExitFunction(c) \/ OtherEvent(c) \/ Jump(c) \/ ThreadEnds(c) \/ Quit(c)
  BY <1>2, ExitStep, OtherStep, JumpStep, ThreadEndsStep, QuitStep
<1>3. CASE \E c \in Ids : ParentEvent(c) \/ ThreadEvent(c)
  BY <1>3, ParentStep, ThreadStep
<1>4. CASE \E p, c \in Ids : Fork(p, c) \/ CreateThread(p, c)
  BY <1>4, ForkStep, CreateThreadStep
<1>5. CASE Flush
  BY <1>5, FlushStep
<1>6. CASE UNCHANGED vars
  BY <1>6 DEF vars, ProfileInv, ProgramInv, ManagerInv, FlushInv, FollowInv, Known
<1> QED
  BY <1>1, <1>2, <1>3, <1>4, <1>5, <1>6 DEF Next

(* The invariant holds in every state that the program and the manager     *)
(* reach.                                                                  *)
LEMMA ProfileInvariance == Spec => []ProfileInv
  BY ProfileInitially, ProfileStep, PTL DEF Spec

(* recursive_state is the number of times that a function is on the stack, *)
(* whatever exits are missing, ignored or of functions never entered, for  *)
(* any number of processes or threads and any table of functions: the      *)
(* number decides which exit adds to the times.                            *)
THEOREM OccurrencesAreCounted == Spec => []OccurrencesCounted
<1>1. ProfileInv => OccurrencesCounted
  <2> SUFFICES ASSUME ProfileInv PROVE OccurrencesCounted
    OBVIOUS
  <2>1. ProgramInv /\ ManagerInv
    BY DEF ProfileInv
  <2>2. ASSUME NEW c \in Ids
        PROVE  /\ ContextInv(ctx[c]) /\ ctx[c].stack \in Seq(Call)
               /\ ctx[c].table \in [Slots -> Entry]
    BY <2>1 DEF ManagerInv, ContextInv, IsContext
  <2>3. ASSUME NEW c \in Ids, NEW k \in 1 .. Len(ctx[c].stack)
        PROVE  ctx[c].stack[k].function \in Slots /\ ctx[c].stack[k].time \in Nat
    <3>1. ctx[c].stack[k] \in Call
      BY <2>2
    <3> QED
      BY <3>1 DEF Call
  <2>4. ASSUME NEW c \in Ids, NEW s \in Slots
        PROVE  /\ ctx[c].table[s].local_time \in Times /\ ctx[c].table[s].total_time \in Times
               /\ ctx[c].table[s].recursive_state \in Nat
    <3>1. ctx[c].table[s] \in Entry
      BY <2>2
    <3> QED
      BY <3>1 DEF Entry
  <2>5. \A k \in 1 .. Len(list) : list[k] \in Ids
    BY <2>1 DEF ManagerInv
  <2>6. TypeOK
    BY <2>1, <2>3, <2>4, <2>5 DEF TypeOK, ProgramInv, ManagerInv
  <2>7. ASSUME NEW c \in Ids, NEW s \in Slots,
               phase = "read" \/ ctx[c].table[s].symbol # NULL
        PROVE  ctx[c].table[s].recursive_state = Cardinality(Occurrences(c, s))
    <3>1. Counted(ctx[c], s)
      BY <2>1, <2>2, <2>7 DEF ManagerInv, ContextInv, ReadingInv
    <3> QED
      BY <3>1 DEF Counted, Places, Occurrences
  <2> QED
    BY <2>6, <2>7 DEF OccurrencesCounted
<1> QED
  BY <1>1, ProfileInvariance, PTL

(* While events are read, the functions that a process or thread has       *)
(* entered are those on top of the manager's stack, in their order and     *)
(* with their call sites, in all three modes.                              *)
THEOREM StackIsFollowed == Spec => []StackFollows
<1>1. ProfileInv => StackFollows
  <2> SUFFICES ASSUME ProfileInv, NEW c \in Ids, Reading(c), ~jumped[c],
                      NEW k \in 1 .. Len(frames[c]), frames[c][k].by = c
               PROVE  LET n == Len(ctx[c].stack) - Len(frames[c]) + k
                          entry == ctx[c].stack[n]
                      IN  /\ n >= 1
                          /\ ctx[c].table[entry.function].symbol = frames[c][k].fn
                          /\ entry.call_site = frames[c][k].site
    BY DEF StackFollows
  <2>1. Follows(ctx[c], frames[c], c)
    BY DEF ProfileInv, FollowInv, Reading
  <2> QED
    BY <2>1 DEF Follows
<1> QED
  BY <1>1, ProfileInvariance, PTL

(* what fc_context_save_all writes has no function that is still running *)
NothingRuns ==
  phase = "saved" => \A c \in Ids :
    /\ ctx[c].stack = <<>>
    /\ \A s \in Slots : ctx[c].table[s].symbol # NULL => ctx[c].table[s].recursive_state = 0

(* "all remaining functions are treated as if they exit now" (main.c): the *)
(* profile is saved only when all stacks are empty and no function with a  *)
(* name counts as running.                                                 *)
THEOREM SavedWhenFlushed == Spec => []NothingRuns
<1>1. ProfileInv => NothingRuns
  <2> SUFFICES ASSUME ProfileInv, phase = "saved", NEW c \in Ids
               PROVE  /\ ctx[c].stack = <<>>
                      /\ \A s \in Slots : ctx[c].table[s].symbol # NULL =>
                           ctx[c].table[s].recursive_state = 0
    BY DEF NothingRuns
  <2>1. ManagerInv /\ FlushInv
    BY DEF ProfileInv
  <2>2. ctx[c].stack = <<>>
    <3>1. CASE ~Known(c)
      BY <2>1, <3>1 DEF ManagerInv
    <3>2. CASE Known(c)
      <4>1. PICK k \in 1 .. Len(list) : list[k] = c
        BY <3>2 DEF Known
      <4>2. Len(list) \in Nat /\ flushed \in Nat /\ flushed > Len(list)
        BY <2>1 DEF ManagerInv, FlushInv
      <4>3. k < flushed
        BY <4>1, <4>2
      <4> QED
        BY <2>1, <4>1, <4>3 DEF FlushInv
    <3> QED
      BY <3>1, <3>2
  <2>3. ASSUME NEW s \in Slots, ctx[c].table[s].symbol # NULL
        PROVE  ctx[c].table[s].recursive_state = 0
    <3>1. Counted(ctx[c], s)
      BY <2>1, <2>3 DEF ManagerInv, ContextInv
    <3>2. Places(ctx[c].stack, s) = {}
      BY <2>2 DEF Places
    <3> QED
      BY <3>1, <3>2, FS_EmptySet DEF Counted
  <2> QED
    BY <2>2, <2>3
<1> QED
  BY <1>1, ProfileInvariance, PTL

------------------------------------------------------------------------------
(* Sums of the values of a function: SumFunctionOnSet                      *)

Pick(S) == CHOOSE x \in S : TRUE

(* the values of a sum over the subsets of S *)
IsSumming(iter, f, S) ==
  iter = [s \in S |-> IF s = {} THEN 0 ELSE f[Pick(s)] + iter[s \ {Pick(s)}]]

(* the functions of a set and of a subset *)
Summings(g, h, f, S, T) ==
  /\ IsFiniteSet(S) /\ T \subseteq S
  /\ IsSumming(g, f, SUBSET S) /\ IsSumming(h, f, SUBSET T)

(* the subsets of S that have at most n elements *)
UpTo(S, n) == {s \in SUBSET S : Cardinality(s) <= n}

(* Among subsets of a finite set there is one without a smaller one.       *)
LEMMA MinimalSet ==
  ASSUME NEW S, IsFiniteSet(S), NEW Bad, Bad \subseteq SUBSET S, Bad # {}
  PROVE  \E T \in Bad : IsFiniteSet(T) /\ \A x \in T : T \ {x} \notin Bad
<1> DEFINE N == {Cardinality(T) : T \in Bad}
<1>1. \A T \in SUBSET S : IsFiniteSet(T) /\ Cardinality(T) \in Nat
  BY FS_Subset, FS_CardinalityType
<1>2. N \subseteq Nat /\ N # {}
  BY <1>1
<1>3. PICK n \in N : \A k \in N : n <= k
  BY <1>2, Least
<1>4. PICK T \in Bad : n = Cardinality(T)
  BY <1>3
<1>5. ASSUME NEW x \in T, T \ {x} \in Bad PROVE FALSE
  <2>1. IsFiniteSet(T) /\ Cardinality(T) \in Nat
    BY <1>1, <1>4
  <2>2. Cardinality(T \ {x}) = Cardinality(T) - 1
    BY <1>5, <2>1, FS_RemoveElement
  <2>3. n <= Cardinality(T \ {x})
    BY <1>3, <1>5
  <2> QED
    BY <1>4, <2>1, <2>2, <2>3
<1> QED
  BY <1>1, <1>4, <1>5

(* One more element may be added to the sets that are summed over.         *)
LEMMA SummingGrows ==
  ASSUME NEW f, NEW S, IsFiniteSet(S), NEW n \in Nat,
         \E iter : IsSumming(iter, f, UpTo(S, n))
  PROVE  \E iter : IsSumming(iter, f, UpTo(S, n + 1))
<1> DEFINE D(k) == UpTo(S, k)
<1>1. PICK g : IsSumming(g, f, D(n))
  OBVIOUS
<1> DEFINE h == [s \in D(n + 1) |-> IF s = {} THEN 0 ELSE f[Pick(s)] + g[s \ {Pick(s)}]]
<1>2. \A s \in D(n) : g[s] = IF s = {} THEN 0 ELSE f[Pick(s)] + g[s \ {Pick(s)}]
  BY <1>1 DEF IsSumming
<1>3. \A s \in SUBSET S : IsFiniteSet(s) /\ Cardinality(s) \in Nat
  BY FS_Subset, FS_CardinalityType
<1>4. \A s \in D(n) : s \in D(n + 1)
  BY <1>3 DEF UpTo
<1>5. ASSUME NEW s \in D(n + 1), s # {} PROVE s \ {Pick(s)} \in D(n)
  <2>1. Pick(s) \in s
    BY <1>5 DEF Pick
  <2>2. Cardinality(s \ {Pick(s)}) = Cardinality(s) - 1
    BY <1>3, <2>1, FS_RemoveElement DEF UpTo
  <2> QED
    BY <1>3, <2>2 DEF UpTo
<1> HIDE DEF D
<1>6. \A s \in D(n) : h[s] = g[s]
  BY <1>2, <1>4
<1>7. h = [s \in D(n + 1) |-> IF s = {} THEN 0 ELSE f[Pick(s)] + h[s \ {Pick(s)}]]
  BY <1>5, <1>6
<1> HIDE DEF h
<1>8. IsSumming(h, f, D(n + 1))
  BY <1>7 DEF IsSumming
<1> QED
  BY <1>8 DEF D

(* The recursive function of a sum over a finite set exists.               *)
LEMMA SummingExists ==
  ASSUME NEW f, NEW S, IsFiniteSet(S)
  PROVE  \E iter : IsSumming(iter, f, SUBSET S)
<1> DEFINE E(k) == \E iter : IsSumming(iter, f, UpTo(S, k))
           Bad == {k \in Nat : ~E(k)}
<1>1. \A s \in SUBSET S : IsFiniteSet(s) /\ Cardinality(s) \in Nat
  BY FS_Subset, FS_CardinalityType
<1>2. E(0)
  <2> DEFINE h == [s \in {{}} |-> 0]
  <2>1. UpTo(S, 0) = {{}}
    BY <1>1, FS_EmptySet DEF UpTo
  <2>2. h = [s \in {{}} |-> IF s = {} THEN 0 ELSE f[Pick(s)] + h[s \ {Pick(s)}]]
    OBVIOUS
  <2> HIDE DEF h
  <2>3. IsSumming(h, f, {{}})
    BY <2>2 DEF IsSumming
  <2> QED
    BY <2>1, <2>3
<1>3. ASSUME NEW n \in Nat, E(n) PROVE E(n + 1)
  BY <1>3, SummingGrows
<1> HIDE DEF E
<1>4. Bad = {}
  <2>1. SUFFICES ASSUME Bad # {} PROVE FALSE
    OBVIOUS
  <2>2. PICK k \in Bad : \A j \in Bad : k <= j
    BY <2>1, Least
  <2>3. k # 0 /\ k \in Nat /\ ~E(k)
    BY <1>2, <2>2
  <2>4. k - 1 \in Nat /\ (k - 1) + 1 = k
    BY <2>3
  <2>5. E(k - 1)
    BY <2>2, <2>4
  <2> QED
    BY <1>3, <2>3, <2>4, <2>5
<1>5. UpTo(S, Cardinality(S)) = SUBSET S
  <2>1. \A s \in SUBSET S : Cardinality(s) <= Cardinality(S)
    BY FS_Subset
  <2> QED
    BY <2>1 DEF UpTo
<1>6. E(Cardinality(S))
  BY <1>1, <1>4
<1> QED
  BY <1>5, <1>6 DEF E

(* SumFunctionOnSet is a value of that function.                           *)
LEMMA SumIterates ==
  ASSUME NEW f, NEW S, IsFiniteSet(S)
  PROVE  \E iter : IsSumming(iter, f, SUBSET S) /\ iter[S] = SumFunctionOnSet(f, S)
<1> DEFINE chosen == CHOOSE iter : IsSumming(iter, f, SUBSET S)
<1>1. IsSumming(chosen, f, SUBSET S)
  BY SummingExists
<1>2. SumFunctionOnSet(f, S) = chosen[S]
  BY DEF SumFunctionOnSet, FoldFunctionOnSet, MapThenFoldSet, IsSumming, Pick
<1> QED
  BY <1>1, <1>2

(* The recursive functions of a set and of a subset agree on the latter.   *)
LEMMA SummingAgrees ==
  ASSUME NEW f, NEW S, NEW T, NEW g, NEW h, Summings(g, h, f, S, T)
  PROVE  g[T] = h[T]
<1> DEFINE Bad == {s \in SUBSET T : g[s] # h[s]}
<1>1. IsFiniteSet(T)
  BY FS_Subset DEF Summings
<1>2. \A s \in SUBSET T : s \in SUBSET S
  BY DEF Summings
<1>3. \A s \in SUBSET S : g[s] = IF s = {} THEN 0 ELSE f[Pick(s)] + g[s \ {Pick(s)}]
  BY DEF Summings, IsSumming
<1>4. \A s \in SUBSET T : h[s] = IF s = {} THEN 0 ELSE f[Pick(s)] + h[s \ {Pick(s)}]
  BY DEF Summings, IsSumming
<1>5. Bad = {}
  <2>1. SUFFICES ASSUME Bad # {} PROVE FALSE
    OBVIOUS
  <2>2. Bad \subseteq SUBSET T
    OBVIOUS
  <2>3. PICK s \in Bad : \A x \in s : s \ {x} \notin Bad
    BY ONLY <1>1, <2>1, <2>2, MinimalSet
  <2>4. s # {} /\ s \in SUBSET T /\ g[s] # h[s]
    BY <1>2, <1>3, <1>4, <2>3
  <2>5. Pick(s) \in s
    BY <2>4 DEF Pick
  <2>6. s \ {Pick(s)} \in SUBSET T /\ s \ {Pick(s)} \notin Bad
    BY <2>3, <2>4, <2>5
  <2>7. g[s \ {Pick(s)}] = h[s \ {Pick(s)}]
    BY <2>6
  <2> QED
    BY <1>2, <1>3, <1>4, <2>4, <2>7
<1> QED
  BY <1>5

(* The sum over a set is the value of the element that is picked and the   *)
(* sum over the others; that over no element is 0.                         *)
LEMMA SumPick ==
  ASSUME NEW f, NEW S, IsFiniteSet(S)
  PROVE  SumFunctionOnSet(f, S) =
           IF S = {} THEN 0 ELSE f[Pick(S)] + SumFunctionOnSet(f, S \ {Pick(S)})
<1> DEFINE T == S \ {Pick(S)}
<1>1. PICK g : IsSumming(g, f, SUBSET S) /\ g[S] = SumFunctionOnSet(f, S)
  BY SumIterates
<1>2. T \subseteq S /\ IsFiniteSet(T)
  BY FS_Subset
<1>3. PICK h : IsSumming(h, f, SUBSET T) /\ h[T] = SumFunctionOnSet(f, T)
  BY <1>2, SumIterates
<1>4. g[T] = h[T]
  <2>1. Summings(g, h, f, S, T)
    BY <1>1, <1>2, <1>3 DEF Summings
  <2> HIDE DEF T
  <2> QED
    BY ONLY <2>1, SummingAgrees
<1>5. g[S] = IF S = {} THEN 0 ELSE f[Pick(S)] + g[T]
  BY <1>1 DEF IsSumming
<1> QED
  BY <1>1, <1>3, <1>4, <1>5

(* Nothing adds up to 0. *)
LEMMA SumNothing ==
  ASSUME NEW f
  PROVE  SumFunctionOnSet(f, {}) = 0
<1>1. IsFiniteSet({})
  BY FS_EmptySet
<1> QED
  BY <1>1, SumPick

(* Numbers have a sum that is a number. *)
LEMMA SumNat ==
  ASSUME NEW f, NEW S, IsFiniteSet(S), \A x \in S : f[x] \in Nat
  PROVE  SumFunctionOnSet(f, S) \in Nat
<1> DEFINE Bad == {T \in SUBSET S : SumFunctionOnSet(f, T) \notin Nat}
<1>1. SUFFICES ASSUME Bad # {} PROVE FALSE
  OBVIOUS
<1>2. Bad \subseteq SUBSET S
  OBVIOUS
<1>3. PICK T \in Bad : IsFiniteSet(T) /\ \A x \in T : T \ {x} \notin Bad
  BY ONLY <1>1, <1>2, MinimalSet, IsFiniteSet(S)
<1>4. T \in SUBSET S /\ SumFunctionOnSet(f, T) \notin Nat
  BY <1>3
<1>5. SumFunctionOnSet(f, T) =
        IF T = {} THEN 0 ELSE f[Pick(T)] + SumFunctionOnSet(f, T \ {Pick(T)})
  BY <1>3, SumPick
<1>6. T # {}
  BY <1>4, <1>5
<1>7. Pick(T) \in T
  BY <1>6 DEF Pick
<1>8. T \ {Pick(T)} \in SUBSET S /\ T \ {Pick(T)} \notin Bad
  BY <1>3, <1>4, <1>7
<1>9. SumFunctionOnSet(f, T \ {Pick(T)}) \in Nat /\ f[Pick(T)] \in Nat
  BY <1>4, <1>7, <1>8
<1> QED
  BY <1>4, <1>5, <1>6, <1>9

(* Any element may be taken out of the sum first. *)
LEMMA SumElement ==
  ASSUME NEW f, NEW S, IsFiniteSet(S), \A x \in S : f[x] \in Nat, NEW e \in S
  PROVE  SumFunctionOnSet(f, S) = f[e] + SumFunctionOnSet(f, S \ {e})
<1> DEFINE Sum(T) == SumFunctionOnSet(f, T)
           Bad == {T \in SUBSET S : \E x \in T : Sum(T) # f[x] + Sum(T \ {x})}
<1>1. SUFFICES ASSUME Bad # {} PROVE FALSE
  OBVIOUS
<1>2. Bad \subseteq SUBSET S
  OBVIOUS
<1>3. PICK T \in Bad : IsFiniteSet(T) /\ \A x \in T : T \ {x} \notin Bad
  BY ONLY <1>1, <1>2, MinimalSet, IsFiniteSet(S)
<1>4. PICK x \in T : Sum(T) # f[x] + Sum(T \ {x})
  BY <1>3
<1> DEFINE p == Pick(T)
<1>5. p \in T /\ T \in SUBSET S
  BY <1>3, <1>4 DEF Pick
<1>6. \A U \in SUBSET S : IsFiniteSet(U)
  BY FS_Subset
<1>7. \A U \in SUBSET S : Sum(U) \in Nat
  BY <1>6, SumNat
<1>8. Sum(T) = f[p] + Sum(T \ {p})
  BY <1>3, <1>5, SumPick
<1> HIDE DEF p, Sum
<1>9. x # p
  BY <1>4, <1>8
<1>10. x \in T \ {p} /\ p \in T \ {x}
  BY <1>5, <1>9
<1>11. T \ {p} \in SUBSET S /\ T \ {x} \in SUBSET S
  BY <1>5
<1>12. T \ {p} \notin Bad /\ T \ {x} \notin Bad
  BY <1>3, <1>5
<1>13. Sum(T \ {p}) = f[x] + Sum((T \ {p}) \ {x})
  BY <1>10, <1>11, <1>12
<1>14. Sum(T \ {x}) = f[p] + Sum((T \ {x}) \ {p})
  BY <1>10, <1>11, <1>12
<1>15. (T \ {p}) \ {x} = (T \ {x}) \ {p}
  OBVIOUS
<1> DEFINE rest == Sum((T \ {x}) \ {p})
<1>16. rest \in Nat /\ f[x] \in Nat /\ f[p] \in Nat
  BY <1>5, <1>7, <1>10
<1>17. Sum(T) = f[p] + (f[x] + rest)
  BY <1>8, <1>13, <1>15
<1>18. Sum(T \ {x}) = f[p] + rest
  BY <1>14
<1> HIDE DEF rest
<1> QED
  BY <1>4, <1>16, <1>17, <1>18

(* Functions that agree on a set have the same sum there. *)
LEMMA SumSame ==
  ASSUME NEW f, NEW g, NEW S, IsFiniteSet(S), \A x \in S : f[x] = g[x]
  PROVE  SumFunctionOnSet(f, S) = SumFunctionOnSet(g, S)
<1> DEFINE Bad == {T \in SUBSET S : SumFunctionOnSet(f, T) # SumFunctionOnSet(g, T)}
<1>1. SUFFICES ASSUME Bad # {} PROVE FALSE
  OBVIOUS
<1>2. Bad \subseteq SUBSET S
  OBVIOUS
<1>3. PICK T \in Bad : IsFiniteSet(T) /\ \A x \in T : T \ {x} \notin Bad
  BY ONLY <1>1, <1>2, MinimalSet, IsFiniteSet(S)
<1>4. T \in SUBSET S /\ SumFunctionOnSet(f, T) # SumFunctionOnSet(g, T)
  BY <1>3
<1>5. /\ SumFunctionOnSet(f, T) =
           IF T = {} THEN 0 ELSE f[Pick(T)] + SumFunctionOnSet(f, T \ {Pick(T)})
      /\ SumFunctionOnSet(g, T) =
           IF T = {} THEN 0 ELSE g[Pick(T)] + SumFunctionOnSet(g, T \ {Pick(T)})
  BY <1>3, SumPick
<1>6. T # {}
  BY <1>4, <1>5
<1>7. Pick(T) \in T
  BY <1>6 DEF Pick
<1>8. T \ {Pick(T)} \in SUBSET S /\ T \ {Pick(T)} \notin Bad
  BY <1>3, <1>4, <1>7
<1>9. /\ SumFunctionOnSet(f, T \ {Pick(T)}) = SumFunctionOnSet(g, T \ {Pick(T)})
      /\ f[Pick(T)] = g[Pick(T)]
  BY <1>4, <1>7, <1>8
<1> QED
  BY <1>4, <1>5, <1>6, <1>9

(* When the functions differ at one element, the sums differ by as much.   *)
LEMMA SumDiffers ==
  ASSUME NEW f, NEW g, NEW S, IsFiniteSet(S), NEW e \in S,
         \A x \in S : f[x] \in Nat /\ g[x] \in Nat, \A x \in S \ {e} : f[x] = g[x]
  PROVE  SumFunctionOnSet(g, S) = SumFunctionOnSet(f, S) - f[e] + g[e]
<1> DEFINE T == S \ {e}
<1>1. IsFiniteSet(T)
  BY FS_Subset
<1>2. SumFunctionOnSet(f, T) = SumFunctionOnSet(g, T) /\ SumFunctionOnSet(f, T) \in Nat
  BY <1>1, SumSame, SumNat
<1>3. /\ SumFunctionOnSet(f, S) = f[e] + SumFunctionOnSet(f, T)
      /\ SumFunctionOnSet(g, S) = g[e] + SumFunctionOnSet(g, T)
  BY SumElement
<1>4. f[e] \in Nat /\ g[e] \in Nat
  OBVIOUS
<1> HIDE DEF T
<1> QED
  BY <1>2, <1>3, <1>4

------------------------------------------------------------------------------
(* What an enter and an exit do to every entry of the table                *)

(* what an entry is besides its times *)
SameCall(d, e) ==
  d.symbol = e.symbol /\ d.faked = e.faked /\ d.calls = e.calls
  /\ d.recursive_state = e.recursive_state

(* and its times that have been added up *)
SameSums(d, e) == d.local_time = e.local_time /\ d.total_time = e.total_time

(* the local time of an entry is set *)
LEMMA SetTemp ==
  ASSUME NEW e \in Entry, NEW v \in Nat
  PROVE  LET d == [e EXCEPT !.temp_ltime = v] IN
         /\ d \in Entry /\ d.temp_ltime = v /\ d.last_time = e.last_time
         /\ SameCall(d, e) /\ SameSums(d, e)
  BY DEF Entry, SameCall, SameSums

(* the time since which it runs is set *)
LEMMA SetLast ==
  ASSUME NEW e \in Entry, NEW v \in Nat
  PROVE  LET d == [e EXCEPT !.last_time = v] IN
         /\ d \in Entry /\ d.temp_ltime = e.temp_ltime /\ d.last_time = v
         /\ SameCall(d, e) /\ SameSums(d, e)
  BY DEF Entry, SameCall, SameSums

(* one more call is counted, which begins at v *)
LEMMA SetCalled ==
  ASSUME NEW e \in Entry, NEW v \in Nat
  PROVE  LET d == [e EXCEPT !.recursive_state = e.recursive_state + 1,
                            !.calls = e.calls + 1, !.last_time = v] IN
         /\ d \in Entry /\ d.temp_ltime = e.temp_ltime /\ d.last_time = v
         /\ d.symbol = e.symbol /\ d.faked = e.faked /\ d.calls = e.calls + 1
         /\ d.recursive_state = e.recursive_state + 1 /\ SameSums(d, e)
<1> DEFINE x == e.recursive_state + 1
           y == e.calls + 1
<1>1. x \in Nat /\ y \in Nat
  BY DEF Entry
<1> HIDE DEF x, y
<1> DEFINE e1 == [e EXCEPT !.recursive_state = x]
           e2 == [e1 EXCEPT !.calls = y]
           e3 == [e2 EXCEPT !.last_time = v]
           F(d) == d.temp_ltime = e.temp_ltime /\ d.symbol = e.symbol /\ d.faked = e.faked
                   /\ SameSums(d, e)
<1>2. e1 \in Entry /\ F(e1) /\ e1.recursive_state = x
  BY <1>1 DEF Entry, SameSums
<1> HIDE DEF e1
<1>3. e2 \in Entry /\ F(e2) /\ e2.recursive_state = x /\ e2.calls = y
  BY <1>1, <1>2 DEF Entry, SameSums
<1> HIDE DEF e2
<1>4. e3 \in Entry /\ F(e3) /\ e3.recursive_state = x /\ e3.calls = y /\ e3.last_time = v
  BY <1>3 DEF Entry, SameSums
<1> HIDE DEF e3
<1>5. e3 = [e EXCEPT !.recursive_state = x, !.calls = y, !.last_time = v]
  BY DEF Entry, e1, e2, e3
<1> QED
  BY <1>4, <1>5 DEF x, y

(* the table with the entry of a function that is entered *)
Opened(m, fnc, slot) ==
  IF Find(m.table, fnc) = NoSlot THEN [m.table EXCEPT ![slot] = NewFunction(fnc)] ELSE m.table

(* the slot is that of the function, or a free one *)
GivenSlot(m, fnc, slot) ==
  /\ slot \in Slots
  /\ IF Find(m.table, fnc) = NoSlot
       THEN slot = InsertAt(m.table, fnc) /\ slot \in Free(m.table)
       ELSE slot = Find(m.table, fnc) /\ m.table[slot].symbol = fnc

(* the local time of a function that is not in a call, or that calls *)
Stopped(m, e, s, slot, time) ==
  LET before == IF s = slot /\ e.recursive_state = 0 THEN 0 ELSE e.temp_ltime
  IN  IF m.stack # <<>> /\ s = Leaving(m) THEN Add(before, Sub(time, e.last_time)) ELSE before

(* fc_functions_enter *)
EnterEffect(m, r, slot, fnc, site, time) ==
  LET known == Opened(m, fnc, slot) IN
  /\ GivenSlot(m, fnc, slot) /\ known \in [Slots -> Entry] /\ r.table \in [Slots -> Entry]
  /\ r.graph = m.graph
  /\ r.stack = Append(m.stack, [function |-> slot, time |-> time, call_site |-> site])
  /\ \A s \in Slots :
       LET d == r.table[s]
           e == known[s]
           more == IF s = slot THEN 1 ELSE 0
       IN  /\ d.symbol = e.symbol /\ d.faked = e.faked /\ SameSums(d, e)
           /\ d.calls = e.calls + more /\ d.recursive_state = e.recursive_state + more
           /\ d.last_time = IF s = slot THEN time ELSE e.last_time
           /\ d.temp_ltime = Stopped(m, e, s, slot, time)

(* An enter stops the time of the caller, and counts the call. *)
LEMMA EnterEffects ==
  ASSUME NEW m, ReadingInv(m), NEW fnc \in Nat \ {NULL}, NEW site \in Nat, NEW time \in Nat,
         ~(Find(m.table, fnc) = NoSlot /\ TooManyFunctions(m.nb))
  PROVE  \E slot \in Slots : EnterEffect(m, Enter(m, fnc, site, time), slot, fnc, site, time)
<1> DEFINE found == Find(m.table, fnc)
           slot == IF found = NoSlot THEN InsertAt(m.table, fnc) ELSE found
           known == Opened(m, fnc, slot)
           cleared == [known EXCEPT ![slot].temp_ltime =
                         IF known[slot].recursive_state = 0 THEN 0 ELSE @]
           caller == Top(m.stack).function
           stopped == IF m.stack = <<>> THEN cleared ELSE
                        [cleared EXCEPT ![caller].temp_ltime =
                           Add(@, Sub(time, cleared[caller].last_time))]
           final == [stopped EXCEPT ![slot].recursive_state = @ + 1,
                                    ![slot].calls = @ + 1,
                                    ![slot].last_time = time]
           r == Enter(m, fnc, site, time)
<1>1. /\ IsContext(m) /\ m.stack \in Seq(Call) /\ m.table \in [Slots -> Entry] /\ m.nb \in Nat
      /\ Cardinality(Slots \ Free(m.table)) <= m.nb
  BY DEF ReadingInv, ContextInv, IsContext
<1>2. found # NoSlot => slot \in Slots /\ m.table[slot].symbol = fnc
  BY <1>1, FindFacts
<1>3. found = NoSlot => slot \in Free(m.table) /\ slot \in Slots
  <2>1. found = NoSlot => InsertAt(m.table, fnc) \in Free(m.table)
    BY <1>1, InsertFacts
  <2> QED
    BY <2>1 DEF Free
<1>4. GivenSlot(m, fnc, slot)
  BY <1>2, <1>3 DEF GivenSlot
<1>5. r = [m EXCEPT !.stack = Push(m.stack, slot, time, site),
                    !.nb = IF found = NoSlot THEN m.nb + 1 ELSE m.nb,
                    !.table = final]
  BY <1>1 DEF Enter, IsContext, Opened
<1> HIDE DEF found, slot
<1>6. slot \in Slots
  BY <1>2, <1>3
<1>7. known \in [Slots -> Entry]
  BY <1>1, <1>6, NewEntry DEF Opened
<1> HIDE DEF known
<1>8. /\ cleared \in [Slots -> Entry]
      /\ \A s \in Slots :
           /\ SameCall(cleared[s], known[s]) /\ SameSums(cleared[s], known[s])
           /\ cleared[s].last_time = known[s].last_time
           /\ cleared[s].temp_ltime =
                IF s = slot /\ known[s].recursive_state = 0 THEN 0 ELSE known[s].temp_ltime
  <2> DEFINE w == known[slot]
             v == IF w.recursive_state = 0 THEN 0 ELSE w.temp_ltime
             e == [w EXCEPT !.temp_ltime = v]
  <2>1. w \in Entry /\ v \in Nat
    BY <1>6, <1>7 DEF Entry
  <2>2. cleared = [known EXCEPT ![slot] = e]
    OBVIOUS
  <2> HIDE DEF v, w, cleared
  <2>3. e \in Entry /\ e.temp_ltime = v /\ e.last_time = w.last_time /\ SameCall(e, w) /\ SameSums(e, w)
    BY <2>1, SetTemp
  <2> HIDE DEF e
  <2>4. /\ cleared \in [Slots -> Entry] /\ cleared[slot] = e
        /\ \A s \in Slots : s # slot => cleared[s] = known[s]
    BY <1>6, <1>7, <2>2, <2>3
  <2>5. \A s \in Slots : SameCall(known[s], known[s]) /\ SameSums(known[s], known[s])
    BY DEF SameCall, SameSums
  <2> QED
    BY <2>3, <2>4, <2>5 DEF v, w
<1> HIDE DEF cleared
<1>9. /\ stopped \in [Slots -> Entry]
      /\ \A s \in Slots :
           /\ SameCall(stopped[s], cleared[s]) /\ SameSums(stopped[s], cleared[s])
           /\ stopped[s].last_time = cleared[s].last_time
           /\ stopped[s].temp_ltime =
                IF m.stack # <<>> /\ s = Leaving(m)
                  THEN Add(cleared[s].temp_ltime, Sub(time, cleared[s].last_time))
                  ELSE cleared[s].temp_ltime
  <2>0. \A s \in Slots : SameCall(cleared[s], cleared[s]) /\ SameSums(cleared[s], cleared[s])
    BY DEF SameCall, SameSums
  <2>1. CASE m.stack = <<>>
    BY <1>8, <2>0, <2>1
  <2>2. CASE m.stack # <<>>
    <3> DEFINE w == cleared[caller]
               v == Add(w.temp_ltime, Sub(time, w.last_time))
               e == [w EXCEPT !.temp_ltime = v]
    <3>1. Top(m.stack) \in Call
      BY <1>1, <2>2 DEF Top
    <3>2. caller \in Slots /\ caller = Leaving(m)
      BY <3>1 DEF Call, Leaving
    <3>3. w \in Entry
      BY <1>8, <3>2
    <3>4. w.temp_ltime \in Nat /\ w.last_time \in Nat
      BY <3>3 DEF Entry
    <3>5. Times \subseteq Nat
      BY FunctionsAssumption DEF Times
    <3>6. v \in Nat
      BY <3>4, <3>5, AddSub
    <3>7. stopped = [cleared EXCEPT ![caller] = e]
      BY <2>2
    <3> HIDE DEF w, v, stopped, caller
    <3>8. e \in Entry /\ e.temp_ltime = v /\ e.last_time = w.last_time /\ SameCall(e, w) /\ SameSums(e, w)
      BY <3>3, <3>6, SetTemp
    <3> HIDE DEF e
    <3>9. /\ stopped \in [Slots -> Entry] /\ stopped[caller] = e
          /\ \A s \in Slots : s # caller => stopped[s] = cleared[s]
      BY <1>8, <3>2, <3>7, <3>8
    <3> QED
      BY <2>0, <2>2, <3>2, <3>8, <3>9 DEF v, w
  <2> QED
    BY <2>1, <2>2
<1> HIDE DEF stopped
<1>10. /\ final \in [Slots -> Entry]
       /\ \A s \in Slots :
            LET d == final[s]
                e == stopped[s]
                more == IF s = slot THEN 1 ELSE 0
            IN  /\ d.symbol = e.symbol /\ d.faked = e.faked /\ SameSums(d, e)
                /\ d.calls = e.calls + more /\ d.recursive_state = e.recursive_state + more
                /\ d.last_time = IF s = slot THEN time ELSE e.last_time
                /\ d.temp_ltime = e.temp_ltime
  <2> DEFINE w == stopped[slot]
             e == [w EXCEPT !.recursive_state = w.recursive_state + 1,
                            !.calls = w.calls + 1, !.last_time = time]
  <2>1. w \in Entry
    BY <1>6, <1>9
  <2>2. final = [stopped EXCEPT ![slot] = e]
    BY <1>6, <1>9, <2>1 DEF Entry
  <2> HIDE DEF w, final
  <2>3. /\ e \in Entry /\ e.temp_ltime = w.temp_ltime /\ e.last_time = time
        /\ e.symbol = w.symbol /\ e.faked = w.faked /\ e.calls = w.calls + 1
        /\ e.recursive_state = w.recursive_state + 1 /\ SameSums(e, w)
    BY <2>1, SetCalled
  <2> HIDE DEF e
  <2>4. /\ final \in [Slots -> Entry] /\ final[slot] = e
        /\ \A s \in Slots : s # slot => final[s] = stopped[s]
    BY <1>6, <1>9, <2>2, <2>3
  <2>5. \A s \in Slots : /\ SameSums(stopped[s], stopped[s])
                         /\ stopped[s].calls + 0 = stopped[s].calls
                         /\ stopped[s].recursive_state + 0 = stopped[s].recursive_state
    BY <1>9 DEF SameSums, Entry
  <2> QED
    BY <2>3, <2>4, <2>5 DEF w
<1> HIDE DEF final
<1>11. /\ r.stack = Append(m.stack, [function |-> slot, time |-> time, call_site |-> site])
       /\ r.table = final /\ r.graph = m.graph
  BY <1>1, <1>5 DEF IsContext, Push
<1> HIDE DEF r
<1>12. ASSUME NEW s \in Slots
       PROVE  LET d == r.table[s]
                  e == known[s]
                  more == IF s = slot THEN 1 ELSE 0
              IN  /\ d.symbol = e.symbol /\ d.faked = e.faked /\ SameSums(d, e)
                  /\ d.calls = e.calls + more /\ d.recursive_state = e.recursive_state + more
                  /\ d.last_time = IF s = slot THEN time ELSE e.last_time
                  /\ d.temp_ltime = Stopped(m, e, s, slot, time)
  BY <1>8, <1>9, <1>10, <1>11 DEF SameCall, SameSums, Stopped
<1>13. EnterEffect(m, r, slot, fnc, site, time)
  BY <1>4, <1>7, <1>10, <1>11, <1>12 DEF EnterEffect, known
<1> QED
  BY <1>6, <1>13 DEF r

(* the local time of an entry that runs up to now *)
Elapsed(e, time) == Add(e.temp_ltime, Sub(time, e.last_time))

(* What the end of an activation leaves in the entry. *)
LEMMA TimedValues ==
  ASSUME NEW e \in Entry, NEW ftime \in Nat, NEW time \in Nat
  PROVE  LET d == Timed(e, ftime, time) IN
         /\ d.calls = e.calls /\ d.last_time = e.last_time /\ d.temp_ltime = Elapsed(e, time)
         /\ d.local_time =
              IF e.recursive_state <= 1 THEN Add(e.local_time, Elapsed(e, time)) ELSE e.local_time
         /\ d.total_time =
              IF e.recursive_state <= 1 THEN Add(e.total_time, Sub(time, ftime)) ELSE e.total_time
<1> DEFINE delta == Sub(time, ftime)
           ltime == Elapsed(e, time)
           a == IF e.recursive_state <= 1 THEN Add(e.local_time, ltime) ELSE e.local_time
           b == Max({e.max_ltime, ltime})
           c == Min({e.min_ltime, ltime})
           d == Max({e.max_time, delta})
           f == Min({e.min_time, delta})
           g == IF e.recursive_state <= 1 THEN Add(e.total_time, delta) ELSE e.total_time
           h == e.recursive_state - 1
           e1 == [e EXCEPT !.temp_ltime = ltime]
           e2 == [e1 EXCEPT !.local_time = a]
           e3 == [e2 EXCEPT !.max_ltime = b]
           e4 == [e3 EXCEPT !.min_ltime = c]
           e5 == [e4 EXCEPT !.max_time = d]
           e6 == [e5 EXCEPT !.min_time = f]
           e7 == [e6 EXCEPT !.total_time = g]
           e8 == [e7 EXCEPT !.recursive_state = h]
<1>1. e = [symbol |-> e.symbol, faked |-> e.faked, calls |-> e.calls,
           recursive_state |-> e.recursive_state, local_time |-> e.local_time,
           total_time |-> e.total_time, last_time |-> e.last_time,
           temp_ltime |-> e.temp_ltime, min_time |-> e.min_time, max_time |-> e.max_time,
           min_ltime |-> e.min_ltime, max_ltime |-> e.max_ltime]
  BY DEF Entry
<1>2. Timed(e, ftime, time) = e8
  BY <1>1 DEF Timed, Elapsed
<1> HIDE DEF a, b, c, d, f, g, h, ltime, delta
<1>3. Timed(e, ftime, time) =
        [symbol |-> e.symbol, faked |-> e.faked, calls |-> e.calls, recursive_state |-> h,
         local_time |-> a, total_time |-> g, last_time |-> e.last_time, temp_ltime |-> ltime,
         min_time |-> f, max_time |-> d, min_ltime |-> c, max_ltime |-> b]
  BY <1>1, <1>2, ZenonT(30)
<1> HIDE DEF e8
<1> QED
  BY <1>3 DEF a, g, delta, ltime

(* the entries that get a name keep all else, but for their mark *)
Kept(m, t, fnc) ==
  \A s \in Slots :
    LET d == t[s]
        e == m.table[s]
    IN  /\ d.calls = e.calls /\ d.recursive_state = e.recursive_state /\ SameSums(d, e)
        /\ d.last_time = e.last_time /\ d.temp_ltime = e.temp_ltime
        /\ (s # Leaving(m) \/ e.symbol = fnc) => d.faked = e.faked

(* Named changes names and marks only. *)
LEMMA NamedKeeps ==
  ASSUME NEW m, IsContext(m), m.stack # <<>>, NEW fnc \in Nat, NEW site \in Nat
  PROVE  Kept(m, Named(m, fnc, site), fnc)
<1> DEFINE slot == Leaving(m)
           top == m.table[slot]
           mark == top.faked /\ top.symbol \in {fnc, NULL}
           t1 == [m.table EXCEPT ![slot].symbol = fnc]
           t2 == [t1 EXCEPT ![slot].faked = @ /\ top.symbol \in {fnc, NULL}]
           t3 == [t2 EXCEPT ![Under(m)].symbol = site]
           F(d, e) == /\ d.calls = e.calls /\ d.recursive_state = e.recursive_state
                      /\ SameSums(d, e) /\ d.last_time = e.last_time
                      /\ d.temp_ltime = e.temp_ltime
<1>1. m.table \in [Slots -> Entry] /\ slot \in Slots /\ (Len(m.stack) > 1 => Under(m) \in Slots)
  BY NamedFacts DEF IsContext
<1>2. Named(m, fnc, site) = IF Renames(m) THEN t3 ELSE t2
  BY DEF Named, Renames, Leaving, Under
<1>3. /\ t1 \in [Slots -> Entry]
      /\ \A s \in Slots : F(t1[s], m.table[s]) /\ t1[s].faked = m.table[s].faked
  <2> DEFINE e == [top EXCEPT !.symbol = fnc]
  <2>1. top \in Entry
    BY <1>1
  <2>2. e \in Entry /\ F(e, top) /\ e.faked = top.faked
    BY <2>1 DEF Entry, SameSums
  <2>3. t1 = [m.table EXCEPT ![slot] = e]
    OBVIOUS
  <2>4. \A s \in Slots : F(m.table[s], m.table[s])
    BY DEF SameSums
  <2> HIDE DEF e
  <2> QED
    BY <1>1, <2>2, <2>3, <2>4
<1> HIDE DEF t1
<1>4. /\ t2 \in [Slots -> Entry]
      /\ \A s \in Slots : F(t2[s], t1[s])
      /\ \A s \in Slots : s # slot => t2[s].faked = t1[s].faked
      /\ top.symbol = fnc => t2[slot].faked = t1[slot].faked
  <2> DEFINE w == t1[slot]
             v == w.faked /\ top.symbol \in {fnc, NULL}
             e == [w EXCEPT !.faked = v]
  <2>1. w \in Entry
    BY <1>1, <1>3
  <2>2. v \in BOOLEAN
    OBVIOUS
  <2>3. t2 = [t1 EXCEPT ![slot] = e]
    OBVIOUS
  <2>4. top.symbol = fnc => v = w.faked
    <3>1. w.faked \in BOOLEAN
      BY <2>1 DEF Entry
    <3> QED
      BY <3>1
  <2> HIDE DEF v, w
  <2>5. e \in Entry /\ F(e, w) /\ e.faked = v
    BY <2>1, <2>2 DEF Entry, SameSums
  <2>6. \A s \in Slots : F(t1[s], t1[s])
    BY DEF SameSums
  <2> HIDE DEF e, t2
  <2>7. /\ t2 \in [Slots -> Entry] /\ t2[slot] = e
        /\ \A s \in Slots : s # slot => t2[s] = t1[s]
    BY <1>1, <1>3, <2>3, <2>5
  <2> QED
    BY <1>1, <2>4, <2>5, <2>6, <2>7 DEF w
<1> HIDE DEF t2
<1>5. Renames(m) => \A s \in Slots : F(t3[s], t2[s]) /\ t3[s].faked = t2[s].faked
  <2> SUFFICES ASSUME Renames(m)
               PROVE  \A s \in Slots : F(t3[s], t2[s]) /\ t3[s].faked = t2[s].faked
    OBVIOUS
  <2> DEFINE w == t2[Under(m)]
             e == [w EXCEPT !.symbol = site]
  <2>1. Under(m) \in Slots
    BY <1>1 DEF Renames
  <2>2. w \in Entry
    BY <1>4, <2>1
  <2>3. e \in Entry /\ F(e, w) /\ e.faked = w.faked
    BY <2>2 DEF Entry, SameSums
  <2>4. t3 = [t2 EXCEPT ![Under(m)] = e]
    OBVIOUS
  <2>5. \A s \in Slots : F(t2[s], t2[s])
    BY DEF SameSums
  <2> HIDE DEF e
  <2> QED
    BY <1>4, <2>1, <2>3, <2>4, <2>5
<1> HIDE DEF t3
<1> QED
  BY <1>2, <1>3, <1>4, <1>5 DEF Kept, SameSums

(* fc_functions_exit, when the exit is not ignored *)
ExitEffect(m, r, fnc, site, time) ==
  LET slot == Leaving(m) IN
  /\ slot \in Slots /\ (Len(m.stack) > 1 => Under(m) \in Slots)
  /\ r.table \in [Slots -> Entry] /\ r.graph = m.graph /\ r.stack = Pop(m.stack)
  /\ \A s \in Slots :
       LET d == r.table[s]
           e == m.table[s]
           ends == s = slot /\ e.recursive_state <= 1
       IN  /\ d.calls = e.calls
           /\ d.recursive_state = e.recursive_state - (IF s = slot THEN 1 ELSE 0)
           /\ d.temp_ltime = IF s = slot THEN Elapsed(e, time) ELSE e.temp_ltime
           /\ d.local_time = IF ends THEN Add(e.local_time, Elapsed(e, time)) ELSE e.local_time
           /\ d.total_time =
                IF ends THEN Add(e.total_time, Sub(time, Top(m.stack).time)) ELSE e.total_time
           /\ d.last_time = IF Len(m.stack) > 1 /\ s = Under(m) THEN time ELSE e.last_time
           /\ (s # slot \/ e.symbol = fnc) => d.faked = e.faked
           /\ s # slot /\ (s # Under(m) \/ ~Renames(m)) => d.symbol = e.symbol
  /\ Renames(m) => r.table[Under(m)].symbol = site
  /\ ~Renames(m) \/ Under(m) # slot => r.table[slot].symbol = fnc

(* An exit adds the times of the call that ends; the caller runs again. *)
LEMMA ExitEffects ==
  ASSUME NEW m, ContextInv(m), NEW fnc \in Nat \ {NULL}, NEW site \in Nat, NEW time \in Nat,
         ~Ignored(m, fnc),
         \/ m.table[Leaving(m)].symbol = fnc
         \/ \A s \in Slots : Counted(m, s)
  PROVE  ExitEffect(m, Exit(m, fnc, site, time), fnc, site, time)
<1> DEFINE slot == Leaving(m)
           below == Under(m)
           named == Named(m, fnc, site)
           timed == [named EXCEPT ![slot] = Timed(named[slot], Top(m.stack).time, time)]
           final == IF Len(m.stack) > 1 THEN [timed EXCEPT ![below].last_time = time] ELSE timed
           r == Exit(m, fnc, site, time)
<1>1. /\ IsContext(m) /\ m.stack \in Seq(Call) /\ m.table \in [Slots -> Entry]
      /\ \A s \in Slots : m.table[s].symbol # NULL => Counted(m, s)
  BY DEF ContextInv, IsContext
<1>2. m.stack # <<>> /\ Len(m.stack) \in Nat \ {0}
  BY <1>1 DEF Ignored
<1>3. /\ Names(m, named, fnc, site) /\ slot \in Slots
      /\ Len(m.stack) > 1 => below \in Slots
  BY <1>1, <1>2, NamedFacts
<1>4. r = [m EXCEPT !.table = final, !.stack = Pop(m.stack)]
  BY <1>1, <1>2 DEF Exit, IsContext, Leaving, Under
<1>5. Top(m.stack) = m.stack[Len(m.stack)] /\ Top(m.stack) \in Call
  BY <1>1, <1>2 DEF Top
<1>6. Top(m.stack).time \in Nat
  BY <1>5 DEF Call
<1>7. Cardinality(Places(m.stack, slot)) > 0
  <2>1. Len(m.stack) \in 1 .. Len(m.stack)
    BY <1>2
  <2> QED
    BY <1>1, <1>5, <2>1, OnStackCounted DEF Leaving
<1>8. m.table[slot].recursive_state > 0
  BY <1>1, <1>3, <1>7 DEF Counted
<1>9. Kept(m, named, fnc)
  BY <1>1, <1>2, NamedKeeps
<1>10. r.table = final /\ r.stack = Pop(m.stack) /\ r.graph = m.graph
  BY <1>1, <1>4 DEF IsContext
<1> HIDE DEF slot, below, named, r
<1>11. named \in [Slots -> Entry]
  BY <1>3 DEF Names
<1> DEFINE e == Timed(named[slot], Top(m.stack).time, time)
<1>12. /\ e \in Entry /\ e.symbol = named[slot].symbol /\ e.faked = named[slot].faked
       /\ e.recursive_state = named[slot].recursive_state - 1
       /\ e.calls = named[slot].calls /\ e.last_time = named[slot].last_time
       /\ e.temp_ltime = Elapsed(named[slot], time)
       /\ e.local_time = IF named[slot].recursive_state <= 1
                           THEN Add(named[slot].local_time, Elapsed(named[slot], time))
                           ELSE named[slot].local_time
       /\ e.total_time = IF named[slot].recursive_state <= 1
                           THEN Add(named[slot].total_time, Sub(time, Top(m.stack).time))
                           ELSE named[slot].total_time
  <2>1. named[slot] \in Entry
    BY <1>3, <1>11
  <2>2. named[slot].recursive_state > 0
    BY <1>3, <1>8, <1>9 DEF Kept
  <2> DEFINE w == named[slot]
             ftime == Top(m.stack).time
  <2> HIDE DEF w, ftime
  <2>3. w \in Entry /\ w.recursive_state > 0 /\ ftime \in Nat
    BY <1>6, <2>1, <2>2 DEF w, ftime
  <2>4. /\ Timed(w, ftime, time) \in Entry
        /\ Timed(w, ftime, time).symbol = w.symbol
        /\ Timed(w, ftime, time).faked = w.faked
        /\ Timed(w, ftime, time).recursive_state = w.recursive_state - 1
    BY <2>3, TimedFacts
  <2>5. LET d == Timed(w, ftime, time) IN
        /\ d.calls = w.calls /\ d.last_time = w.last_time /\ d.temp_ltime = Elapsed(w, time)
        /\ d.local_time =
             IF w.recursive_state <= 1 THEN Add(w.local_time, Elapsed(w, time)) ELSE w.local_time
        /\ d.total_time =
             IF w.recursive_state <= 1 THEN Add(w.total_time, Sub(time, ftime)) ELSE w.total_time
    BY <2>3, TimedValues
  <2> QED
    BY <2>4, <2>5 DEF w, ftime
<1>13. timed = [named EXCEPT ![slot] = e]
  OBVIOUS
<1> HIDE DEF timed, e
<1>14. /\ timed \in [Slots -> Entry] /\ timed[slot] = e
       /\ \A s \in Slots : s # slot => timed[s] = named[s]
  BY <1>3, <1>11, <1>12, <1>13
<1>15. /\ final \in [Slots -> Entry]
       /\ \A s \in Slots :
            /\ SameCall(final[s], timed[s]) /\ SameSums(final[s], timed[s])
            /\ final[s].temp_ltime = timed[s].temp_ltime
            /\ final[s].last_time = IF Len(m.stack) > 1 /\ s = below THEN time ELSE timed[s].last_time
  <2>0. \A s \in Slots : SameCall(timed[s], timed[s]) /\ SameSums(timed[s], timed[s])
    BY DEF SameCall, SameSums
  <2>1. CASE ~(Len(m.stack) > 1)
    BY <1>14, <2>0, <2>1
  <2>2. CASE Len(m.stack) > 1
    <3> DEFINE w == timed[below]
               f == [w EXCEPT !.last_time = time]
    <3>1. below \in Slots
      BY <1>3, <2>2
    <3>2. w \in Entry
      BY <1>14, <3>1
    <3>3. final = [timed EXCEPT ![below] = f]
      BY <2>2
    <3> HIDE DEF w, final
    <3>4. f \in Entry /\ f.temp_ltime = w.temp_ltime /\ f.last_time = time /\ SameCall(f, w) /\ SameSums(f, w)
      BY <3>2, SetLast
    <3> HIDE DEF f
    <3>5. /\ final \in [Slots -> Entry] /\ final[below] = f
          /\ \A s \in Slots : s # below => final[s] = timed[s]
      BY <1>14, <3>1, <3>3, <3>4
    <3> QED
      BY <2>0, <2>2, <3>1, <3>4, <3>5 DEF w
  <2> QED
    BY <2>1, <2>2
<1> HIDE DEF final
<1>16. ASSUME NEW s \in Slots
       PROVE  LET d == r.table[s]
                  g == m.table[s]
                  ends == s = slot /\ g.recursive_state <= 1
              IN  /\ d.calls = g.calls
                  /\ d.recursive_state = g.recursive_state - (IF s = slot THEN 1 ELSE 0)
                  /\ d.temp_ltime = IF s = slot THEN Elapsed(g, time) ELSE g.temp_ltime
                  /\ d.local_time = IF ends THEN Add(g.local_time, Elapsed(g, time)) ELSE g.local_time
                  /\ d.total_time =
                       IF ends THEN Add(g.total_time, Sub(time, Top(m.stack).time)) ELSE g.total_time
                  /\ d.last_time = IF Len(m.stack) > 1 /\ s = below THEN time ELSE g.last_time
                  /\ (s # slot \/ g.symbol = fnc) => d.faked = g.faked
                  /\ s # slot /\ (s # below \/ ~Renames(m)) => d.symbol = g.symbol
  <2>1. r.table[s] = final[s]
    BY <1>10
  <2>2. m.table[s] \in Entry /\ m.table[s].recursive_state \in Nat
    BY <1>1 DEF Entry
  <2>3. /\ named[s].calls = m.table[s].calls /\ named[s].recursive_state = m.table[s].recursive_state
        /\ SameSums(named[s], m.table[s]) /\ named[s].last_time = m.table[s].last_time
        /\ named[s].temp_ltime = m.table[s].temp_ltime
        /\ (s # slot \/ m.table[s].symbol = fnc) => named[s].faked = m.table[s].faked
    BY <1>9 DEF Kept, slot
  <2>4. Elapsed(named[s], time) = Elapsed(m.table[s], time)
    BY <2>3 DEF Elapsed
  <2>5. s # slot /\ (s # below \/ ~Renames(m)) => named[s].symbol = m.table[s].symbol
    BY <1>3 DEF Names, slot, below
  <2>6. CASE s = slot
    BY <1>12, <1>14, <1>15, <2>1, <2>2, <2>3, <2>4, <2>6 DEF SameCall, SameSums
  <2>7. CASE s # slot
    BY <1>14, <1>15, <2>1, <2>2, <2>3, <2>5, <2>7 DEF SameCall, SameSums
  <2> QED
    BY <2>6, <2>7
<1>17. \A s \in Slots : r.table[s].symbol = named[s].symbol
  BY <1>10, <1>12, <1>14, <1>15 DEF SameCall
<1>18. Renames(m) => below \in Slots
  BY <1>3 DEF Renames
<1>19. /\ Renames(m) => r.table[below].symbol = site
       /\ ~Renames(m) \/ below # slot => r.table[slot].symbol = fnc
  BY <1>3, <1>17, <1>18 DEF Names, slot, below
<1> QED
  BY <1>3, <1>10, <1>15, <1>16, <1>19 DEF ExitEffect, slot, below, r

------------------------------------------------------------------------------
(* Where the contexts come from *)

NotBorn(c) == alive[c] \in {"unborn", "forked"}

(* Only forked processes have frames that are not their own; a context is  *)
(* made for an identifier that has none with the first of its events; and  *)
(* a thread's identifier is free again when it has left its functions.     *)
BirthInv ==
  /\ Known(Root) /\ alive[Root] # "unborn" /\ mode \in {"SINGLE", "FORK", "THREAD"}
  /\ \A c \in Ids : alive[c] = "forked" =>
       mode = "FORK" /\ Len(frames[c]) = depth[c] /\ \A k \in 1 .. depth[c] : frames[c][k].by # c
  /\ mode = "FORK" => \A c \in Ids : NotBorn(c) <=> ~Known(c)
  /\ \A c \in Ids : ~Forked(c) => \A k \in 1 .. Len(frames[c]) : frames[c][k].by = c
  /\ \A c \in Ids : ~Known(c) => ctx[c] = NoContext
  /\ \A c \in Ids : ~Known(c) /\ alive[c] # "forked" /\ phase # "fatal" => frames[c] = <<>>
  /\ depth \in [Ids -> Nat]

(* "creating" is who waits for THREAD to be sent *)
ThreadInv ==
  mode = "THREAD" =>
    /\ \A c \in Ids : parent[c] # 0 => alive[parent[c]] = "creating"
    /\ \A c, d \in Ids : parent[c] # 0 /\ parent[c] = parent[d] => c = d
    /\ alive[Root] = "over" => \A c \in Ids : alive[c] \in {"unborn", "over"}
    /\ \A c \in Ids : c # Root /\ alive[c] = "over" /\ ~jumped[c] => frames[c] = <<>>

------------------------------------------------------------------------------
(* Arcs and calls *)

(* the function at a place of the stack *)
SymbolAt(m, k) == m.table[m.stack[k].function].symbol

Arcs(m, f) == SumFunctionOnSet(m.graph, {arc \in DOMAIN m.graph : arc[2] = f})
CallsOf(m, f) ==
  SumFunctionOnSet([s \in Slots |-> m.table[s].calls], {s \in Slots : m.table[s].symbol = f})
Running(m, f) == {k \in 1 .. Len(m.stack) : SymbolAt(m, k) = f}

IsGraph(graph) == IsFiniteSet(DOMAIN graph) /\ graph \in [DOMAIN graph -> Nat]

(* the arcs to a function and its calls on the stack are its calls, and    *)
(* the flush will find from where the latter come                          *)
Balanced(m) ==
  /\ \A f \in Funcs : Arcs(m, f) + Cardinality(Running(m, f)) = CallsOf(m, f)
  /\ \A k \in 1 .. Len(m.stack) : SymbolAt(m, k) \in Funcs => m.stack[k].call_site # NULL

(* an unknown function is called once, from below the known ones *)
UnknownOnce(m) ==
  /\ \A s \in Slots : m.table[s].symbol \notin Funcs =>
       m.table[s].calls = m.table[s].recursive_state /\ m.table[s].recursive_state <= 1
  /\ \A j, k \in 1 .. Len(m.stack) : j < k /\ SymbolAt(m, k) \notin Funcs => SymbolAt(m, j) \notin Funcs

(* the frames f that c has inherited are unknown functions of the stack    *)
Inherits(m, f, c) ==
  \A k \in 1 .. Len(f) : f[k].by # c =>
    LET n == Len(m.stack) - Len(f) + k IN
    /\ n >= 1 /\ SymbolAt(m, n) \notin Funcs /\ m.table[m.stack[n].function].faked

(* fork at most NbFaked calls deep, and exits for all functions left *)
Regular(c) == ~jumped[c] /\ depth[c] <= NbFaked

CallsHold(c) ==
  /\ IsGraph(ctx[c].graph)
  /\ Regular(c) =>
       /\ Balanced(ctx[c])
       /\ phase = "read" =>
            UnknownOnce(ctx[c]) /\ (Known(c) => Inherits(ctx[c], frames[c], c))

CallsInv == \A c \in Ids : CallsHold(c)

------------------------------------------------------------------------------
(* One entry per function *)

(* no entry lies before the home slot of its function: none was put there  *)
(* by an insertion that went around the end of the table                   *)
NoneWrapped(m) ==
  \A s \in Slots : m.table[s].symbol # NULL => Home(m.table[s].symbol) <= s

(* no unknown functions *)
Plain(m) == \A s \in Slots : m.table[s].symbol \in Funcs \cup {NULL} /\ ~m.table[s].faked

(* what linear probing counts on, and what it gives *)
Reachable(m) ==
  \A s \in Slots : m.table[s].symbol # NULL =>
    \A t \in Slots : Home(m.table[s].symbol) <= t /\ t < s => m.table[t].symbol # NULL
Single(m) ==
  \A s, t \in Slots : m.table[s].symbol # NULL /\ m.table[s].symbol = m.table[t].symbol => s = t

EntriesInv ==
  \A c \in Ids : ~Forked(c) =>
    Plain(ctx[c]) /\ (NoneWrapped(ctx[c]) => Reachable(ctx[c]) /\ Single(ctx[c]))

------------------------------------------------------------------------------
(* Times *)

Local(e) == e.local_time + (IF e.recursive_state > 0 THEN e.temp_ltime ELSE 0)
LocalOf(m, f) ==
  SumFunctionOnSet([s \in Slots |-> Local(m.table[s])], {s \in Slots : m.table[s].symbol = f})

(* the times that the program has seen pass *)
SeenInv ==
  /\ seen \in [Ids -> Nat] /\ \A c \in Ids : seen[c] <= clock
  /\ self \in [Ids -> [Funcs -> Nat]] /\ during \in [Ids -> [Funcs -> Nat]]
  /\ \A c \in Ids : \A f \in Funcs : self[c][f] <= seen[c] /\ during[c][f] <= seen[c]

(* the function on top runs since the last enter or exit *)
Stopwatch(m, time) ==
  m.stack # <<>> => m.table[Leaving(m)].last_time = time

LocalHolds(c) ==
  clock < U64 /\ Comparable(c) =>
    Stopwatch(ctx[c], seen[c]) /\ \A f \in Funcs : LocalOf(ctx[c], f) = self[c][f]

LocalInv == \A c \in Ids : LocalHolds(c)

(* the stack is as deep as the calls *)
HeightInv == \A c \in Ids : Comparable(c) => Len(ctx[c].stack) = Len(frames[c])

(* the time of the first call on the stack of an entry *)
Since(stack, s) == stack[Min(Places(stack, s))].time

(* the total time of an entry, with that of the call that is not over *)
Total(m, s, time) ==
  m.table[s].total_time + (IF Places(m.stack, s) # {} THEN time - Since(m.stack, s) ELSE 0)

(* the times of the functions until now are what the entries say *)
TotalsAre(m, now, times) ==
  /\ \A k \in 1 .. Len(m.stack) : m.stack[k].time <= now
  /\ \A s \in Slots : m.table[s].symbol # NULL => Total(m, s, now) = times[m.table[s].symbol]
  /\ \A f \in Funcs : (\A s \in Slots : m.table[s].symbol # f) => times[f] = 0

TotalHolds(c) ==
  clock < U64 /\ Comparable(c) /\ NoneWrapped(ctx[c]) => TotalsAre(ctx[c], seen[c], during[c])

TotalInv == \A c \in Ids : TotalHolds(c)

------------------------------------------------------------------------------
(* Contexts and frames of processes and threads *)

(* A context has the same calls and arcs as another one. *)
SameProfile(m, r) == r.stack = m.stack /\ r.table = m.table /\ r.graph = m.graph

(* An identifier is known from its first event on. *)
LEMMA KnownFrom ==
  ASSUME list \in Seq(Ids), NEW c \in Ids, Register(c)
  PROVE  \A d \in Ids : Known(d)' <=> Known(d) \/ d = c
<1>1. CASE Known(c)
  BY <1>1 DEF Register, Known
<1>2. CASE ~Known(c)
  <2>1. list' = Append(list, c)
    BY <1>2 DEF Register
  <2>2. /\ Len(list') = Len(list) + 1 /\ Len(list) \in Nat /\ list'[Len(list) + 1] = c
        /\ \A k \in 1 .. Len(list) : list'[k] = list[k]
    BY <2>1
  <2>3. \A k \in 1 .. Len(list') : k \in 1 .. Len(list) \/ k = Len(list) + 1
    BY <2>2
  <2>4. Len(list) + 1 \in 1 .. Len(list') /\ \A k \in 1 .. Len(list) : k \in 1 .. Len(list')
    BY <2>2
  <2> QED
    BY <2>2, <2>3, <2>4 DEF Known
<1> QED
  BY <1>1, <1>2

(* Who is registered has the first of its events. *)
LEMMA NobodyNew ==
  ASSUME BirthInv, list' = list
  PROVE  Root \in Ids /\ \A d \in Ids : Known(d)' <=> Known(d) \/ d = Root
  BY ProfileAssumption DEF BirthInv, Known

(* The events other than fork keep who may have which frames: c is the one *)
(* that has an event, or that is known already.                            *)
LEMMA BirthKept ==
  ASSUME BirthInv, NEW c \in Ids, mode' = mode, depth' = depth,
         \A d \in Ids : Known(d)' <=> Known(d) \/ d = c,
         \A d \in Ids : d # c => ctx'[d] = ctx[d],
         \A d \in Ids : alive'[d] = "forked" => alive[d] = "forked" /\ frames'[d] = frames[d],
         mode = "FORK" => \A d \in Ids : NotBorn(d)' <=> NotBorn(d) /\ d # c,
         \A d \in Ids : alive[d] = "forked" => alive'[d] = "forked" \/ d = c,
         alive'[Root] # "unborn",
         \A d \in Ids : ~Forked(d) => \A k \in 1 .. Len(frames'[d]) : frames'[d][k].by = d,
         \A d \in Ids : d = c \/ Known(d) \/ frames'[d] = frames[d] \/ frames'[d] = <<>>,
         phase' # "fatal" => phase # "fatal"
  PROVE  BirthInv'
<1>1. Known(Root)'
  BY ProfileAssumption DEF BirthInv
<1>2. \A d \in Ids : alive'[d] = "forked" =>
        mode' = "FORK" /\ Len(frames'[d]) = depth'[d] /\ \A k \in 1 .. depth'[d] : frames'[d][k].by # d
  BY DEF BirthInv
<1>3. mode' = "FORK" => \A d \in Ids : NotBorn(d)' <=> ~Known(d)'
  BY DEF BirthInv
<1>4. \A d \in Ids : ~Forked(d)' => \A k \in 1 .. Len(frames'[d]) : frames'[d][k].by = d
  BY DEF Forked
<1>5. \A d \in Ids : ~Known(d)' => ctx'[d] = NoContext
  BY DEF BirthInv, NoContext
<1>6. \A d \in Ids : ~Known(d)' /\ alive'[d] # "forked" /\ phase' # "fatal" => frames'[d] = <<>>
  BY DEF BirthInv
<1> QED
  BY <1>1, <1>2, <1>3, <1>4, <1>5, <1>6 DEF BirthInv

(* the first part of a process's own frames is its own *)
LEMMA OwnFrames ==
  ASSUME BirthInv, ProgramInv, NEW c \in Ids, NEW n \in 0 .. Len(frames[c]),
         frames' = [frames EXCEPT ![c] = SubSeq(frames[c], 1, n)]
  PROVE  /\ frames'[c] = SubSeq(frames[c], 1, n) /\ \A d \in Ids : d # c => frames'[d] = frames[d]
         /\ \A d \in Ids : ~Forked(d) => \A k \in 1 .. Len(frames'[d]) : frames'[d][k].by = d
<1>1. frames[c] \in Seq(Frame)
  BY DEF ProgramInv
<1>2. frames'[c] = SubSeq(frames[c], 1, n) /\ \A d \in Ids : d # c => frames'[d] = frames[d]
  BY DEF ProgramInv
<1> DEFINE g == SubSeq(frames[c], 1, n)
<1>3. Len(g) = n /\ \A k \in 1 .. n : g[k] = frames[c][k]
  BY <1>1, FramesCut
<1>4. \A k \in 1 .. Len(g) : k \in 1 .. Len(frames[c]) /\ g[k] = frames[c][k]
  BY <1>1, <1>3
<1> QED
  BY <1>2, <1>4 DEF BirthInv

(* What an event other than a fork keeps of who has a context. *)
LEMMA BirthEvents ==
  ASSUME ProfileInv, BirthInv, NEW c \in Ids,
         \/ \E f \in Funcs, s \in Sites : EnterFunction(c, f, s)
         \/ ExitFunction(c) \/ OtherEvent(c) \/ Jump(c) \/ ThreadEnds(c) \/ Quit(c)
         \/ ParentEvent(c) \/ ThreadEvent(c)
  PROVE  BirthInv'
<1>1. ProgramInv /\ ManagerInv
  BY DEF ProfileInv
<1>2. /\ list \in Seq(Ids) /\ DOMAIN ctx = Ids /\ frames \in [Ids -> Seq(Frame)]
      /\ alive \in [Ids -> {"unborn", "forked", "run", "creating", "over"}]
      /\ Root \in Ids /\ alive[Root] # "unborn" /\ Known(Root) /\ mode \in {"SINGLE", "FORK", "THREAD"}
  BY <1>1, ProfileAssumption DEF ProgramInv, ManagerInv, BirthInv
<1>3. ASSUME NEW to, Treat(c, to)
      PROVE  /\ \A d \in Ids : Known(d)' <=> Known(d) \/ d = c
             /\ \A d \in Ids : d # c => ctx'[d] = ctx[d]
  BY <1>2, <1>3, KnownFrom DEF Treat
<1>4. ASSUME alive[c] = "run"
      PROVE  mode = "FORK" => \A d \in Ids : NotBorn(d) <=> NotBorn(d) /\ d # c
  BY <1>4 DEF NotBorn
<1>5. \A d \in Ids : ~Forked(d) => \A k \in 1 .. Len(frames[d]) : frames[d][k].by = d
  BY DEF BirthInv
<1>6. CASE \E f \in Funcs, s \in Sites : EnterFunction(c, f, s)
  <2>1. PICK f \in Funcs, s \in Sites : EnterFunction(c, f, s)
    BY <1>6
  <2> DEFINE e == [fn |-> f, site |-> s, by |-> c]
             g == Append(frames[c], e)
             full == Find(Received(c, clock').table, f) = NoSlot /\ TooManyFunctions(Received(c, clock').nb)
             to == Enter(Received(c, clock'), f, s, clock')
  <2>2. /\ phase = "read" /\ alive[c] = "run" /\ alive' = alive /\ mode' = mode /\ depth' = depth
        /\ frames' = [frames EXCEPT ![c] = g]
    BY <2>1 DEF EnterFunction, Step, Account
  <2>3. /\ full => phase' = "fatal" /\ UNCHANGED <<list, current, ctx>>
        /\ ~full => Treat(c, to) /\ phase' = phase
    BY <2>1 DEF EnterFunction
  <2> HIDE DEF full, to
  <2>4. e \in Frame /\ e.by = c /\ frames[c] \in Seq(Frame)
    BY <1>2 DEF Frame
  <2> HIDE DEF e
  <2>5. /\ Len(g) = Len(frames[c]) + 1 /\ g[Len(frames[c]) + 1] = e
        /\ \A k \in 1 .. Len(frames[c]) : g[k] = frames[c][k]
        /\ \A k \in 1 .. Len(g) : k \in 1 .. Len(frames[c]) \/ k = Len(frames[c]) + 1
    BY <2>4
  <2> HIDE DEF g
  <2>6. frames'[c] = g /\ \A d \in Ids : d # c => frames'[d] = frames[d]
    BY <1>2, <2>2
  <2>7. \A d \in Ids : ~Forked(d) => \A k \in 1 .. Len(frames'[d]) : frames'[d][k].by = d
    BY <1>5, <2>4, <2>5, <2>6
  <2>8. \A d \in Ids : alive'[d] = "forked" => alive[d] = "forked" /\ frames'[d] = frames[d]
    BY <2>2, <2>6
  <2>9. mode = "FORK" => \A d \in Ids : NotBorn(d)' <=> NotBorn(d) /\ d # c
    BY <1>4, <2>2 DEF NotBorn
  <2>10. CASE ~full
    BY <1>2, <1>3, <2>2, <2>3, <2>6, <2>7, <2>8, <2>9, <2>10, BirthKept
  <2>11. CASE full
    <3>1. \A d \in Ids : Known(d)' <=> Known(d)
      BY <2>3, <2>11 DEF Known
    <3>2. ctx' = ctx /\ phase' = "fatal"
      BY <2>3, <2>11
    <3>3. \A d \in Ids : alive'[d] = "forked" =>
            mode' = "FORK" /\ Len(frames'[d]) = depth'[d] /\ \A k \in 1 .. depth'[d] : frames'[d][k].by # d
      BY <2>2, <2>6 DEF BirthInv
    <3>4. mode' = "FORK" => \A d \in Ids : NotBorn(d)' <=> ~Known(d)'
      BY <2>2, <3>1 DEF BirthInv, NotBorn
    <3>5. \A d \in Ids : ~Forked(d)' => \A k \in 1 .. Len(frames'[d]) : frames'[d][k].by = d
      BY <2>2, <2>7 DEF Forked
    <3> QED
      BY <1>2, <2>2, <3>1, <3>2, <3>3, <3>4, <3>5 DEF BirthInv, NoContext
  <2> QED
    BY <2>10, <2>11
<1>7. CASE ExitFunction(c)
  <2>1. /\ phase = "read" /\ alive[c] = "run" /\ alive' = alive /\ mode' = mode /\ depth' = depth
        /\ frames[c] # <<>> /\ frames' = [frames EXCEPT ![c] = SubSeq(frames[c], 1, Len(frames[c]) - 1)]
        /\ phase' = phase /\ \E to : Treat(c, to)
    BY <1>7 DEF ExitFunction, Step, Account
  <2>2. Len(frames[c]) - 1 \in 0 .. Len(frames[c])
    BY <1>2, <2>1
  <2>3. /\ \A d \in Ids : d # c => frames'[d] = frames[d]
        /\ \A d \in Ids : ~Forked(d) => \A k \in 1 .. Len(frames'[d]) : frames'[d][k].by = d
    BY <1>1, <2>1, <2>2, OwnFrames
  <2>4. \A d \in Ids : alive'[d] = "forked" => alive[d] = "forked" /\ frames'[d] = frames[d]
    BY <2>1, <2>3
  <2>5. mode = "FORK" => \A d \in Ids : NotBorn(d)' <=> NotBorn(d) /\ d # c
    BY <1>4, <2>1 DEF NotBorn
  <2> QED
    BY <1>2, <1>3, <2>1, <2>3, <2>4, <2>5, BirthKept
<1>8. CASE OtherEvent(c)
  <2>1. /\ phase = "read" /\ alive[c] = "run" /\ alive' = alive /\ mode' = mode /\ depth' = depth
        /\ frames' = frames /\ phase' = phase /\ \E to : Treat(c, to)
    BY <1>8 DEF OtherEvent, Step, program, history
  <2>2. mode = "FORK" => \A d \in Ids : NotBorn(d)' <=> NotBorn(d) /\ d # c
    BY <1>4, <2>1 DEF NotBorn
  <2> QED
    BY <1>2, <1>3, <1>5, <2>1, <2>2, BirthKept
<1>9. CASE Jump(c)
  <2>1. /\ phase = "read" /\ alive[c] = "run" /\ alive' = alive /\ mode' = mode /\ depth' = depth
        /\ frames[c] # <<>> /\ phase' = phase /\ list' = list /\ ctx' = ctx
    BY <1>9 DEF Jump, Step
  <2>2. PICK n \in 0 .. Len(frames[c]) - 1 : frames' = [frames EXCEPT ![c] = SubSeq(frames[c], 1, n)]
    BY <1>9 DEF Jump
  <2>3. n \in 0 .. Len(frames[c])
    BY <1>2
  <2>4. /\ \A d \in Ids : d # c => frames'[d] = frames[d]
        /\ \A d \in Ids : ~Forked(d) => \A k \in 1 .. Len(frames'[d]) : frames'[d][k].by = d
    BY <1>1, <2>2, <2>3, OwnFrames
  <2>5. Known(c)
    BY <2>1 DEF BirthInv
  <2>6. \A d \in Ids : Known(d)' <=> Known(d) \/ d = c
    BY <2>1, <2>5 DEF Known
  <2>7. \A d \in Ids : alive'[d] = "forked" => alive[d] = "forked" /\ frames'[d] = frames[d]
    BY <2>1, <2>4
  <2>8. mode = "FORK" => \A d \in Ids : NotBorn(d)' <=> NotBorn(d) /\ d # c
    BY <1>4, <2>1 DEF NotBorn
  <2> QED
    BY <1>2, <2>1, <2>4, <2>6, <2>7, <2>8, BirthKept
<1>10. CASE ThreadEnds(c)
  <2>1. /\ phase = "read" /\ mode = "THREAD" /\ alive' = [alive EXCEPT ![c] = "over"] /\ mode' = mode
        /\ depth' = depth /\ frames' = frames /\ phase' = phase /\ list' = list /\ ctx' = ctx
    BY <1>10 DEF ThreadEnds
  <2>2. Root \in Ids /\ \A d \in Ids : Known(d)' <=> Known(d) \/ d = Root
    BY <2>1, NobodyNew
  <2>3. /\ \A d \in Ids : alive'[d] = "forked" <=> alive[d] = "forked"
        /\ alive'[Root] # "unborn"
    BY <1>2, <2>1 DEF BirthInv
  <2> QED
    BY <1>2, <1>5, <2>1, <2>2, <2>3, BirthKept
<1>11. CASE Quit(c)
  <2>1. /\ phase = "read" /\ alive[c] = "run" /\ alive' = [alive EXCEPT ![c] = "over"] /\ mode' = mode
        /\ depth' = depth /\ frames' = frames /\ phase' = phase /\ \E to : Treat(c, to)
    BY <1>11 DEF Quit, history
  <2>2. /\ \A d \in Ids : alive'[d] = "forked" => alive[d] = "forked"
        /\ \A d \in Ids : alive[d] = "forked" => alive'[d] = "forked" \/ d = c
        /\ alive'[Root] # "unborn"
    BY <1>2, <2>1
  <2>3. mode = "FORK" => \A d \in Ids : NotBorn(d)' <=> NotBorn(d) /\ d # c
    BY <1>2, <2>1 DEF NotBorn
  <2>4. c \in Ids /\ BirthInv /\ mode' = mode /\ depth' = depth /\ (phase' # "fatal" => phase # "fatal")
    BY <2>1
  <2>5. \A d \in Ids : alive'[d] = "forked" => alive[d] = "forked" /\ frames'[d] = frames[d]
    BY <2>1, <2>2
  <2>6. /\ \A d \in Ids : ~Forked(d) => \A k \in 1 .. Len(frames'[d]) : frames'[d][k].by = d
        /\ \A d \in Ids : d = c \/ Known(d) \/ frames'[d] = frames[d] \/ frames'[d] = <<>>
    BY <1>5, <2>1
  <2>7. /\ \A d \in Ids : Known(d)' <=> Known(d) \/ d = c
        /\ \A d \in Ids : d # c => ctx'[d] = ctx[d]
    BY <1>3, <2>1
  <2>8. \A d \in Ids : alive[d] = "forked" => alive'[d] = "forked" \/ d = c
    BY <2>2
  <2> QED
    BY ONLY <2>2, <2>3, <2>4, <2>5, <2>6, <2>7, <2>8, BirthKept
<1>12. CASE ParentEvent(c)
  <2>1. /\ phase = "read" /\ alive[c] = "forked" /\ alive' = [alive EXCEPT ![c] = "run"] /\ mode' = mode
        /\ depth' = depth /\ frames' = frames /\ phase' = phase /\ \E to : Treat(c, to)
    BY <1>12 DEF ParentEvent, history
  <2>2. /\ \A d \in Ids : alive'[d] = "forked" => alive[d] = "forked"
        /\ \A d \in Ids : alive[d] = "forked" => alive'[d] = "forked" \/ d = c
        /\ alive'[Root] # "unborn"
    BY <1>2, <2>1
  <2>3. mode = "FORK" => \A d \in Ids : NotBorn(d)' <=> NotBorn(d) /\ d # c
    BY <1>2, <2>1 DEF NotBorn
  <2>4. c \in Ids /\ BirthInv /\ mode' = mode /\ depth' = depth /\ (phase' # "fatal" => phase # "fatal")
    BY <2>1
  <2>5. \A d \in Ids : alive'[d] = "forked" => alive[d] = "forked" /\ frames'[d] = frames[d]
    BY <2>1, <2>2
  <2>6. /\ \A d \in Ids : ~Forked(d) => \A k \in 1 .. Len(frames'[d]) : frames'[d][k].by = d
        /\ \A d \in Ids : d = c \/ Known(d) \/ frames'[d] = frames[d] \/ frames'[d] = <<>>
    BY <1>5, <2>1
  <2>7. /\ \A d \in Ids : Known(d)' <=> Known(d) \/ d = c
        /\ \A d \in Ids : d # c => ctx'[d] = ctx[d]
    BY <1>3, <2>1
  <2>8. \A d \in Ids : alive[d] = "forked" => alive'[d] = "forked" \/ d = c
    BY <2>2
  <2> QED
    BY ONLY <2>2, <2>3, <2>4, <2>5, <2>6, <2>7, <2>8, BirthKept
<1>13. CASE ThreadEvent(c)
  <2>1. /\ phase = "read" /\ mode = "THREAD" /\ alive' = [alive EXCEPT ![parent[c]] = "run"] /\ mode' = mode
        /\ depth' = depth /\ frames' = frames /\ phase' = phase /\ \E to : Treat(c, to)
    BY <1>13 DEF ThreadEvent, history
  <2>2. /\ \A d \in Ids : alive'[d] = "forked" => alive[d] = "forked"
        /\ \A d \in Ids : alive[d] = "forked" => alive'[d] = "forked"
        /\ alive'[Root] # "unborn"
    BY <1>2, <2>1 DEF BirthInv
  <2>3. mode = "FORK" => \A d \in Ids : NotBorn(d)' <=> NotBorn(d) /\ d # c
    BY <2>1
  <2>4. c \in Ids /\ BirthInv /\ mode' = mode /\ depth' = depth /\ (phase' # "fatal" => phase # "fatal")
    BY <2>1
  <2>5. \A d \in Ids : alive'[d] = "forked" => alive[d] = "forked" /\ frames'[d] = frames[d]
    BY <2>1, <2>2
  <2>6. /\ \A d \in Ids : ~Forked(d) => \A k \in 1 .. Len(frames'[d]) : frames'[d][k].by = d
        /\ \A d \in Ids : d = c \/ Known(d) \/ frames'[d] = frames[d] \/ frames'[d] = <<>>
    BY <1>5, <2>1
  <2>7. /\ \A d \in Ids : Known(d)' <=> Known(d) \/ d = c
        /\ \A d \in Ids : d # c => ctx'[d] = ctx[d]
    BY <1>3, <2>1
  <2>8. \A d \in Ids : alive[d] = "forked" => alive'[d] = "forked" \/ d = c
    BY <2>2
  <2> QED
    BY ONLY <2>2, <2>3, <2>4, <2>5, <2>6, <2>7, <2>8, BirthKept
<1> QED
  BY <1>6, <1>7, <1>8, <1>9, <1>10, <1>11, <1>12, <1>13

(* fork: the child has no context yet, and nobody's frames but others'. *)
LEMMA BirthFork ==
  ASSUME ProfileInv, BirthInv, NEW p \in Ids, NEW c \in Ids, Fork(p, c)
  PROVE  BirthInv'
<1>1. ProgramInv
  BY DEF ProfileInv
<1>2. /\ frames \in [Ids -> Seq(Frame)] /\ depth \in [Ids -> Nat]
      /\ alive \in [Ids -> {"unborn", "forked", "run", "creating", "over"}]
  BY <1>1 DEF ProgramInv, BirthInv
<1>3. /\ mode = "FORK" /\ mode' = mode /\ UNCHANGED <<list, ctx, phase>> /\ alive[c] = "unborn"
      /\ alive' = [alive EXCEPT ![c] = "forked"] /\ frames' = [frames EXCEPT ![c] = frames[p]]
      /\ depth' = [depth EXCEPT ![c] = Len(frames[p])]
  BY DEF Fork
<1>4. /\ alive'[c] = "forked" /\ frames'[c] = frames[p] /\ depth'[c] = Len(frames[p])
      /\ \A d \in Ids : d # c => alive'[d] = alive[d] /\ frames'[d] = frames[d] /\ depth'[d] = depth[d]
  BY <1>2, <1>3
<1>5. /\ frames[p] \in Seq(Frame) /\ Len(frames[p]) \in Nat
      /\ \A k \in 1 .. Len(frames[p]) : frames[p][k].by # c
  <2>1. frames[p] \in Seq(Frame)
    BY <1>2
  <2> QED
    BY <1>1, <1>3, <2>1 DEF ProgramInv
<1>6. c # Root
  BY <1>3 DEF BirthInv
<1>7. Known(Root)' /\ alive'[Root] # "unborn" /\ mode' \in {"SINGLE", "FORK", "THREAD"}
  BY <1>3, <1>4, <1>6, ProfileAssumption DEF BirthInv, Known
<1>8. \A d \in Ids : alive'[d] = "forked" =>
        mode' = "FORK" /\ Len(frames'[d]) = depth'[d] /\ \A k \in 1 .. depth'[d] : frames'[d][k].by # d
  BY <1>3, <1>4, <1>5 DEF BirthInv
<1>9. mode' = "FORK" => \A d \in Ids : NotBorn(d)' <=> ~Known(d)'
  BY <1>3, <1>4 DEF BirthInv, NotBorn, Known
<1>10. \A d \in Ids : ~Forked(d)' => \A k \in 1 .. Len(frames'[d]) : frames'[d][k].by = d
  BY <1>3, <1>4, <1>6 DEF BirthInv, Forked
<1>11. \A d \in Ids : ~Known(d)' => ctx'[d] = NoContext
  BY <1>3 DEF BirthInv, NoContext, Known
<1>12. \A d \in Ids : ~Known(d)' /\ alive'[d] # "forked" /\ phase' # "fatal" => frames'[d] = <<>>
  BY <1>3, <1>4 DEF BirthInv, Known
<1>13. depth' \in [Ids -> Nat]
  BY <1>2, <1>3, <1>5
<1> QED
  BY <1>7, <1>8, <1>9, <1>10, <1>11, <1>12, <1>13 DEF BirthInv

(* A new thread has no frames. *)
LEMMA BirthCreate ==
  ASSUME ProfileInv, BirthInv, NEW p \in Ids, NEW c \in Ids, CreateThread(p, c)
  PROVE  BirthInv'
<1>1. /\ frames \in [Ids -> Seq(Frame)]
      /\ alive \in [Ids -> {"unborn", "forked", "run", "creating", "over"}]
  BY DEF ProfileInv, ProgramInv
<1>2. /\ mode = "THREAD" /\ mode' = mode /\ UNCHANGED <<list, ctx, phase, depth>>
      /\ alive' = [alive EXCEPT ![p] = "creating", ![c] = "run"]
      /\ frames' = [frames EXCEPT ![c] = <<>>]
  BY DEF CreateThread, history
<1>3. Root \in Ids /\ \A d \in Ids : Known(d)' <=> Known(d) \/ d = Root
  BY <1>2, NobodyNew
<1>4. \A d \in Ids : alive[d] # "forked" /\ alive'[d] # "forked"
  BY <1>1, <1>2 DEF BirthInv
<1>5. alive'[Root] # "unborn"
  BY <1>1, <1>2, <1>3 DEF BirthInv
<1>6. \A d \in Ids : frames'[d] = frames[d] \/ frames'[d] = <<>>
  BY <1>1, <1>2
<1>7. \A d \in Ids : ~Forked(d) => \A k \in 1 .. Len(frames'[d]) : frames'[d][k].by = d
  BY <1>6 DEF BirthInv
<1> QED
  BY <1>2, <1>3, <1>4, <1>5, <1>6, <1>7, BirthKept

(* The end of the stream and the flush concern known contexts only. *)
LEMMA BirthFlush ==
  ASSUME ProfileInv, BirthInv, Flush
  PROVE  BirthInv'
<1>1. UNCHANGED <<mode, alive, frames, list, depth>> /\ phase' # "fatal" /\ phase # "fatal"
  BY DEF Flush, EndOfStream, FlushFunction, FlushNext, SaveAll, program, history
<1>2. \A d \in Ids : ~Known(d) => ctx'[d] = ctx[d]
  <2>1. CASE FlushFunction
    <3>1. \A d \in Ids : d # current => ctx'[d] = ctx[d]
      BY <2>1 DEF FlushFunction, ProfileInv, ManagerInv
    <3>2. flushed \in 1 .. Len(list) /\ current = list[flushed]
      BY <2>1 DEF FlushFunction, ProfileInv, FlushInv, ManagerInv
    <3>3. Known(current)
      BY <3>2 DEF Known
    <3> QED
      BY <3>1, <3>3
  <2>2. CASE EndOfStream \/ FlushNext \/ SaveAll
    BY <2>2 DEF EndOfStream, FlushNext, SaveAll
  <2> QED
    BY <2>1, <2>2 DEF Flush
<1>3. \A d \in Ids : Known(d)' <=> Known(d)
  BY <1>1 DEF Known
<1>4. Known(Root)' /\ alive'[Root] # "unborn" /\ mode' \in {"SINGLE", "FORK", "THREAD"}
  BY <1>1, <1>3, ProfileAssumption DEF BirthInv
<1>5. \A d \in Ids : ~Known(d)' => ctx'[d] = NoContext
  BY <1>2, <1>3 DEF BirthInv, NoContext
<1>6. \A d \in Ids : alive'[d] = "forked" =>
        mode' = "FORK" /\ Len(frames'[d]) = depth'[d] /\ \A k \in 1 .. depth'[d] : frames'[d][k].by # d
  BY <1>1 DEF BirthInv
<1>7. mode' = "FORK" => \A d \in Ids : NotBorn(d)' <=> ~Known(d)'
  BY <1>1, <1>3 DEF BirthInv, NotBorn
<1>8. /\ \A d \in Ids : ~Forked(d)' => \A k \in 1 .. Len(frames'[d]) : frames'[d][k].by = d
      /\ \A d \in Ids : ~Known(d)' /\ alive'[d] # "forked" /\ phase' # "fatal" => frames'[d] = <<>>
      /\ depth' \in [Ids -> Nat]
  BY <1>1, <1>3 DEF BirthInv, Forked
<1> QED
  BY <1>4, <1>5, <1>6, <1>7, <1>8 DEF BirthInv

(* main starts with the context of the first process. *)
LEMMA BirthInitially == Init => BirthInv
<1> SUFFICES ASSUME Init PROVE BirthInv
  OBVIOUS
<1>1. /\ Root \in Ids /\ mode \in {"SINGLE", "FORK", "THREAD"} /\ list = <<Root>> /\ phase = "read"
      /\ alive = [c \in Ids |-> IF c = Root THEN "run" ELSE "unborn"]
      /\ frames = [c \in Ids |-> <<>>] /\ depth = [c \in Ids |-> 0]
      /\ \A c \in Ids : c # Root => ctx[c] = NoContext
  BY ProfileAssumption DEF Init
<1>2. \A c \in Ids : Known(c) <=> c = Root
  BY <1>1 DEF Known
<1>3. \A c \in Ids : Len(frames[c]) = 0
  BY <1>1
<1>4. \A c \in Ids : NotBorn(c) <=> ~Known(c)
  BY <1>1, <1>2 DEF NotBorn
<1> QED
  BY <1>1, <1>2, <1>3, <1>4 DEF BirthInv

(* All steps keep who has which frames. *)
LEMMA BirthStep == ProfileInv /\ BirthInv /\ [Next]_vars => BirthInv'
<1> SUFFICES ASSUME ProfileInv, BirthInv, [Next]_vars PROVE BirthInv'
  OBVIOUS
<1>1. CASE \E c \in Ids, f \in Funcs, s \in Sites : EnterFunction(c, f, s)
  BY <1>1, BirthEvents
<1>2. CASE \E c \in Ids : ExitFunction(c) \/ OtherEvent(c) \/ Jump(c) \/ ThreadEnds(c) \/ Quit(c)
  BY <1>2, BirthEvents
<1>3. CASE \E c \in Ids : ParentEvent(c) \/ ThreadEvent(c)
  BY <1>3, BirthEvents
<1>4. CASE \E p, c \in Ids : Fork(p, c) \/ CreateThread(p, c)
  BY <1>4, BirthFork, BirthCreate
<1>5. CASE Flush
  BY <1>5, BirthFlush
<1>6. CASE UNCHANGED vars
  BY <1>6 DEF vars, BirthInv, NotBorn, Forked, Known, NoContext
<1> QED
  BY <1>1, <1>2, <1>3, <1>4, <1>5, <1>6 DEF Next

(* Threads give their identifiers back when they have left their functions *)
(* or gone from within them.                                               *)
LEMMA ThreadInvStep == ProfileInv /\ BirthInv /\ ThreadInv /\ [Next]_vars => ThreadInv'
<1> SUFFICES ASSUME ProfileInv, BirthInv, ThreadInv, [Next]_vars, mode' = "THREAD"
             PROVE  /\ \A c \in Ids : parent'[c] # 0 => alive'[parent'[c]] = "creating"
                    /\ \A c, d \in Ids : parent'[c] # 0 /\ parent'[c] = parent'[d] => c = d
                    /\ alive'[Root] = "over" => \A c \in Ids : alive'[c] \in {"unborn", "over"}
                    /\ \A c \in Ids : c # Root /\ alive'[c] = "over" /\ ~jumped'[c] => frames'[c] = <<>>
  BY DEF ThreadInv
<1>1. mode = "THREAD"
  BY DEF Next, vars, EnterFunction, ExitFunction, OtherEvent, Jump, ThreadEnds, Quit, ParentEvent,
         ThreadEvent, Fork, CreateThread, Flush, EndOfStream, FlushFunction, FlushNext, SaveAll, program
<1>2. /\ \A c \in Ids : parent[c] # 0 => alive[parent[c]] = "creating"
      /\ \A c, d \in Ids : parent[c] # 0 /\ parent[c] = parent[d] => c = d
      /\ alive[Root] = "over" => \A c \in Ids : alive[c] \in {"unborn", "over"}
      /\ \A c \in Ids : c # Root /\ alive[c] = "over" /\ ~jumped[c] => frames[c] = <<>>
  BY <1>1 DEF ThreadInv
<1>3. /\ alive \in [Ids -> {"unborn", "forked", "run", "creating", "over"}]
      /\ frames \in [Ids -> Seq(Frame)] /\ parent \in [Ids -> Ids \cup {0}] /\ jumped \in [Ids -> BOOLEAN]
      /\ Root \in Ids /\ 0 \notin Ids /\ alive[Root] # "unborn" /\ \A c \in Ids : alive[c] # "forked"
  BY <1>1, ProfileAssumption DEF ProfileInv, ProgramInv, BirthInv
<1>4. ASSUME alive' = alive, parent' = parent,
             \A d \in Ids : jumped[d] => jumped'[d],
             \A d \in Ids : frames'[d] = frames[d] \/ alive[d] = "run"
      PROVE  /\ \A c \in Ids : parent'[c] # 0 => alive'[parent'[c]] = "creating"
             /\ \A c, d \in Ids : parent'[c] # 0 /\ parent'[c] = parent'[d] => c = d
             /\ alive'[Root] = "over" => \A c \in Ids : alive'[c] \in {"unborn", "over"}
             /\ \A c \in Ids : c # Root /\ alive'[c] = "over" /\ ~jumped'[c] => frames'[c] = <<>>
  BY <1>2, <1>4
<1>5. CASE \E c \in Ids, f \in Funcs, s \in Sites : EnterFunction(c, f, s)
  <2>1. PICK c \in Ids, f \in Funcs, s \in Sites : EnterFunction(c, f, s)
    BY <1>5
  <2>2. /\ alive' = alive /\ parent' = parent /\ jumped' = jumped /\ alive[c] = "run"
        /\ \E g : frames' = [frames EXCEPT ![c] = g]
    BY <2>1 DEF EnterFunction, Step, Account
  <2>3. \A d \in Ids : frames'[d] = frames[d] \/ alive[d] = "run"
    BY <1>3, <2>2
  <2> QED
    BY <1>4, <2>2, <2>3
<1>6. CASE \E c \in Ids : ExitFunction(c)
  <2>1. PICK c \in Ids : ExitFunction(c)
    BY <1>6
  <2>2. /\ alive' = alive /\ parent' = parent /\ jumped' = jumped /\ alive[c] = "run"
        /\ \E g : frames' = [frames EXCEPT ![c] = g]
    BY <2>1 DEF ExitFunction, Step, Account
  <2>3. \A d \in Ids : frames'[d] = frames[d] \/ alive[d] = "run"
    BY <1>3, <2>2
  <2> QED
    BY <1>4, <2>2, <2>3
<1>7. CASE \E c \in Ids : OtherEvent(c)
  <2>1. alive' = alive /\ parent' = parent /\ jumped' = jumped /\ frames' = frames
    BY <1>7 DEF OtherEvent, program, history
  <2> QED
    BY <1>4, <2>1
<1>8. CASE \E c \in Ids : Jump(c)
  <2>1. PICK c \in Ids : Jump(c)
    BY <1>8
  <2>2. /\ alive' = alive /\ parent' = parent /\ jumped' = [jumped EXCEPT ![c] = TRUE] /\ alive[c] = "run"
        /\ \E g : frames' = [frames EXCEPT ![c] = g]
    BY <2>1 DEF Jump, Step
  <2>3. \A d \in Ids : frames'[d] = frames[d] \/ alive[d] = "run"
    BY <1>3, <2>2
  <2>4. \A d \in Ids : jumped[d] => jumped'[d]
    BY <1>3, <2>2
  <2> QED
    BY <1>4, <2>2, <2>3, <2>4
<1>9. CASE \E c \in Ids : ThreadEnds(c)
  <2>1. PICK c \in Ids : ThreadEnds(c)
    BY <1>9
  <2>2. /\ c # Root /\ alive[c] = "run" /\ alive' = [alive EXCEPT ![c] = "over"]
        /\ jumped' = [jumped EXCEPT ![c] = @ \/ frames[c] # <<>>] /\ frames' = frames /\ parent' = parent
    BY <2>1 DEF ThreadEnds
  <2>3. alive[Root] # "over" /\ alive'[Root] # "over"
    BY <1>2, <1>3, <2>2
  <2>4. \A d \in Ids : parent[d] # 0 => parent[d] # c /\ parent[d] \in Ids
    BY <1>2, <1>3, <2>2
  <2>5. ~jumped'[c] => frames'[c] = <<>>
    BY <1>3, <2>2
  <2>6. \A d \in Ids : d # c => alive'[d] = alive[d] /\ jumped'[d] = jumped[d]
    BY <1>3, <2>2
  <2> QED
    BY <1>2, <2>2, <2>3, <2>4, <2>5, <2>6
<1>10. CASE \E c \in Ids : Quit(c)
  <2>1. PICK c \in Ids : Quit(c)
    BY <1>10
  <2>2. /\ c = Root /\ alive[c] = "run" /\ \A d \in Ids \ {Root} : alive[d] \in {"unborn", "over"}
        /\ alive' = [alive EXCEPT ![c] = "over"] /\ jumped' = jumped /\ frames' = frames /\ parent' = parent
    BY <1>1, <2>1 DEF Quit, history
  <2>3. \A d \in Ids : alive[d] # "creating"
    BY <1>3, <2>2
  <2>4. \A d \in Ids : parent[d] = 0
    BY <1>2, <1>3, <2>3
  <2>5. \A d \in Ids : alive'[d] \in {"unborn", "over"} /\ (d # Root => alive'[d] = alive[d])
    BY <1>3, <2>2
  <2> QED
    BY <1>2, <2>2, <2>4, <2>5
<1>11. CASE \E c \in Ids : ParentEvent(c)
  BY <1>3, <1>11 DEF ParentEvent
<1>12. CASE \E c \in Ids : ThreadEvent(c)
  <2>1. PICK c \in Ids : ThreadEvent(c)
    BY <1>12
  <2> DEFINE p == parent[c]
  <2>2. /\ p # 0 /\ alive' = [alive EXCEPT ![p] = "run"] /\ parent' = [parent EXCEPT ![c] = 0]
        /\ jumped' = jumped /\ frames' = frames
    BY <2>1 DEF ThreadEvent, history
  <2>3. p \in Ids /\ alive[p] = "creating"
    BY <1>2, <1>3, <2>2
  <2>4. \A d \in Ids : d # c /\ parent[d] # 0 => parent[d] # p /\ parent[d] \in Ids
    BY <1>2, <1>3, <2>2
  <2> HIDE DEF p
  <2>5. alive[Root] # "over"
    BY <1>2, <2>3
  <2>6. \A d \in Ids : (d = p => alive'[d] = "run") /\ (d # p => alive'[d] = alive[d])
    BY <1>3, <2>2
  <2>7. parent'[c] = 0 /\ \A d \in Ids : d # c => parent'[d] = parent[d]
    BY <1>3, <2>2
  <2>8. alive'[Root] # "over"
    BY <1>3, <2>5, <2>6
  <2> QED
    BY <1>2, <2>2, <2>4, <2>6, <2>7, <2>8
<1>13. CASE \E p, c \in Ids : Fork(p, c)
  BY <1>1, <1>13 DEF Fork
<1>14. CASE \E p, c \in Ids : CreateThread(p, c)
  <2>1. PICK p \in Ids, c \in Ids : CreateThread(p, c)
    BY <1>14
  <2>2. /\ alive[p] = "run" /\ alive[c] \in {"unborn", "over"} /\ parent[c] = 0 /\ p # c
        /\ alive' = [alive EXCEPT ![p] = "creating", ![c] = "run"]
        /\ frames' = [frames EXCEPT ![c] = <<>>] /\ parent' = [parent EXCEPT ![c] = p] /\ jumped' = jumped
    BY <2>1 DEF CreateThread, Step, history
  <2>3. /\ alive'[p] = "creating" /\ alive'[c] = "run"
        /\ \A d \in Ids : d # p /\ d # c => alive'[d] = alive[d]
    BY <1>3, <2>2
  <2>4. /\ parent'[c] = p /\ frames'[c] = <<>>
        /\ \A d \in Ids : d # c => parent'[d] = parent[d] /\ frames'[d] = frames[d]
    BY <1>3, <2>2
  <2>5. \A d \in Ids : parent[d] # 0 => parent[d] \in Ids /\ parent[d] # p /\ parent[d] # c
    BY <1>2, <1>3, <2>2
  <2>6. alive[Root] # "over"
    BY <1>2, <2>2
  <2>7. alive'[Root] # "over"
    BY <1>3, <2>3, <2>6
  <2>8. \A d \in Ids : parent'[d] # 0 => alive'[parent'[d]] = "creating"
    BY <1>2, <2>3, <2>4, <2>5
  <2>9. \A d, e \in Ids : parent'[d] # 0 /\ parent'[d] = parent'[e] => d = e
    BY <1>2, <2>4, <2>5
  <2>10. ASSUME NEW d \in Ids, d # Root, alive'[d] = "over", ~jumped'[d] PROVE frames'[d] = <<>>
    <3>1. d # p /\ d # c
      BY <2>3, <2>10
    <3>2. alive[d] = "over" /\ ~jumped[d] /\ frames'[d] = frames[d]
      BY <2>2, <2>3, <2>4, <2>10, <3>1
    <3> QED
      BY <1>2, <2>10, <3>2
  <2> QED
    BY <2>7, <2>8, <2>9, <2>10
<1>15. CASE Flush
  <2>1. alive' = alive /\ parent' = parent /\ jumped' = jumped /\ frames' = frames
    BY <1>15 DEF Flush, EndOfStream, FlushFunction, FlushNext, SaveAll, program, history
  <2> QED
    BY <1>4, <2>1
<1>16. CASE UNCHANGED vars
  BY <1>4, <1>16 DEF vars
<1> QED
  BY <1>5, <1>6, <1>7, <1>8, <1>9, <1>10, <1>11, <1>12, <1>13, <1>14, <1>15, <1>16 DEF Next

(* what the other invariants rest on *)
BaseInv == ProfileInv /\ BirthInv /\ ThreadInv

(* Where contexts come from, and when threads are over, holds throughout. *)
LEMMA BaseStep == BaseInv /\ [Next]_vars => BaseInv'
  BY ProfileStep, BirthStep, ThreadInvStep DEF BaseInv

(* as it does at the start *)
LEMMA BaseInvariance == Spec => []BaseInv
<1>1. Init => BaseInv
  <2>1. Init => ThreadInv
    BY ProfileAssumption DEF Init, ThreadInv
  <2> QED
    BY <2>1, ProfileInitially, BirthInitially DEF BaseInv
<1> QED
  BY <1>1, BaseStep, PTL DEF Spec

------------------------------------------------------------------------------
(* What the steps change of the contexts *)

(* fc_context_set finds the calls and arcs so far, or none yet. *)
LEMMA SetProfile ==
  ASSUME BaseInv, phase = "read", NEW c \in Ids, NEW time \in Nat,
         alive[c] = "run" \/ mode = "THREAD"
  PROVE  /\ SameProfile(ctx[c], ContextSet(c, time)) /\ SameProfile(ctx[c], Received(c, time))
         /\ ReadingInv(Received(c, time))
<1> DEFINE m == ContextSet(c, time)
           r == Received(c, time)
<1>1. ManagerInv /\ BirthInv
  BY DEF BaseInv, ProfileInv
<1>2. ReadingInv(m) /\ ReadingInv(r) /\ (Known(c) => m = ctx[c])
  BY <1>1, ContextSetInv
<1>3. SameProfile(ctx[c], m)
  <2>1. CASE Known(c)
    BY <1>2, <2>1 DEF SameProfile
  <2>2. CASE ~Known(c)
    <3>1. mode # "FORK"
      BY <1>1, <2>2 DEF BirthInv, NotBorn
    <3>2. m = EmptyContext(time) /\ ctx[c] = EmptyContext(0)
      BY <1>1, <2>2, <3>1 DEF ContextSet, BirthInv, NoContext
    <3> HIDE DEF m
    <3> QED
      BY <3>2 DEF SameProfile, EmptyContext
  <2> QED
    BY <2>1, <2>2
<1>4. r = [m EXCEPT !.last_time = time]
  BY DEF Received
<1> HIDE DEF m, r
<1>5. IsContext(m)
  BY <1>2 DEF ReadingInv, ContextInv
<1>6. r.stack = m.stack /\ r.table = m.table /\ r.graph = m.graph
  BY <1>4, <1>5 DEF IsContext
<1> QED
  BY <1>2, <1>3, <1>6 DEF SameProfile, m, r

(* the frames of c, after an enter or an exit *)
FramesOf(c, g) == frames'[c] = g /\ \A d \in Ids : d # c => frames'[d] = frames[d]

(* what an enter and an exit leave of the program and its times *)
Aside(c) ==
  /\ UNCHANGED <<mode, depth, jumped, alive, parent>> /\ clock' = clock + 1
  /\ alive[c] = "run" /\ phase = "read" /\ Account(c)

(* ENTER *)
EnterChanges(c, f, s) ==
  /\ Aside(c) /\ FramesOf(c, Append(frames[c], [fn |-> f, site |-> s, by |-> c]))
  /\ \/ phase' = "fatal" /\ UNCHANGED <<ctx, list>>
     \/ /\ phase' = "read" /\ Register(c) /\ \A d \in Ids : d # c => ctx'[d] = ctx[d]
        /\ \E slot \in Slots : EnterEffect(ctx[c], ctx'[c], slot, f, s, clock')

(* An enter does to the context what it does to a table and a stack. *)
LEMMA EnterStepChanges ==
  ASSUME BaseInv, NEW c \in Ids, NEW f \in Funcs, NEW s \in Sites, EnterFunction(c, f, s)
  PROVE  EnterChanges(c, f, s)
<1> DEFINE e == [fn |-> f, site |-> s, by |-> c]
           set == Received(c, clock')
           to == Enter(set, f, s, clock')
           full == Find(set.table, f) = NoSlot /\ TooManyFunctions(set.nb)
<1>1. ProgramInv /\ ManagerInv
  BY DEF BaseInv, ProfileInv
<1>2. /\ Aside(c) /\ frames' = [frames EXCEPT ![c] = Append(frames[c], e)]
      /\ phase = "read" /\ alive[c] = "run" /\ clock' = clock + 1
  BY DEF EnterFunction, Step, Tick, Account, Aside
<1>3. /\ full => phase' = "fatal" /\ UNCHANGED <<list, current, ctx>>
      /\ ~full => Treat(c, to) /\ phase' = phase
  BY DEF EnterFunction
<1>4. FramesOf(c, Append(frames[c], e))
  BY <1>1, <1>2 DEF FramesOf, ProgramInv
<1>5. clock' \in Nat /\ f \in Nat \ {NULL} /\ s \in Nat
  BY <1>1, <1>2, ProfileAssumption DEF ProgramInv
<1>6. SameProfile(ctx[c], set) /\ ReadingInv(set)
  BY <1>2, <1>5, SetProfile
<1> HIDE DEF set
<1>7. CASE full
  BY <1>2, <1>3, <1>4, <1>7 DEF EnterChanges
<1>8. CASE ~full
  <2>1. PICK slot \in Slots : EnterEffect(set, to, slot, f, s, clock')
    BY <1>5, <1>6, <1>8, EnterEffects
  <2> HIDE DEF to
  <2>2. EnterEffect(ctx[c], to, slot, f, s, clock')
    BY <1>6, <2>1 DEF EnterEffect, SameProfile, Opened, GivenSlot, Stopped, Leaving
  <2>3. ctx'[c] = to /\ \A d \in Ids : d # c => ctx'[d] = ctx[d]
    BY <1>1, <1>3, <1>8 DEF Treat, ManagerInv
  <2> QED
    BY <1>2, <1>3, <1>4, <1>8, <2>2, <2>3 DEF EnterChanges, Treat
<1> QED
  BY <1>7, <1>8

(* the context m before an exit has the arc already *)
ArcAdded(c, m, from, to) ==
  /\ m.stack = ctx[c].stack /\ m.table = ctx[c].table
  /\ m.graph = GraphAdd(ctx[c].graph, from, to)

(* EXIT *)
ExitChanges(c) ==
  LET fn == Top(frames[c]).fn
      site == Top(frames[c]).site
  IN  /\ Aside(c) /\ frames[c] # <<>> /\ FramesOf(c, SubSeq(frames[c], 1, Len(frames[c]) - 1))
      /\ phase' = "read" /\ Register(c) /\ \A d \in Ids : d # c => ctx'[d] = ctx[d]
      /\ \E m : /\ ArcAdded(c, m, site, fn) /\ ReadingInv(m)
                /\ Ignored(m, fn) => ctx'[c] = m
                /\ ~Ignored(m, fn) => ExitEffect(m, ctx'[c], fn, site, clock')

(* So does an exit, with the arc. *)
LEMMA ExitStepChanges ==
  ASSUME BaseInv, NEW c \in Ids, ExitFunction(c)
  PROVE  ExitChanges(c)
<1> DEFINE fn == Top(frames[c]).fn
           site == Top(frames[c]).site
           set == Received(c, clock')
           m == [set EXCEPT !.graph = GraphAdd(@, site, fn)]
           to == Exit(m, fn, site, clock')
<1>1. ProgramInv /\ ManagerInv
  BY DEF BaseInv, ProfileInv
<1>2. /\ Aside(c) /\ frames' = [frames EXCEPT ![c] = SubSeq(frames[c], 1, Len(frames[c]) - 1)]
      /\ phase = "read" /\ alive[c] = "run" /\ clock' = clock + 1 /\ frames[c] # <<>>
      /\ phase' = "read" /\ Treat(c, to)
  BY DEF ExitFunction, Step, Tick, Account, Aside
<1>3. FramesOf(c, SubSeq(frames[c], 1, Len(frames[c]) - 1))
  BY <1>1, <1>2 DEF FramesOf, ProgramInv
<1>4. clock' \in Nat
  BY <1>1, <1>2 DEF ProgramInv
<1>5. SameProfile(ctx[c], set) /\ ReadingInv(set)
  BY <1>2, <1>4, SetProfile
<1>6. Top(frames[c]) \in Frame
  <2>1. frames[c] \in Seq(Frame)
    BY <1>1 DEF ProgramInv
  <2> QED
    BY <1>2, <2>1 DEF Top
<1>7. fn \in Nat \ {NULL} /\ site \in Nat
  BY <1>6, ProfileAssumption DEF Frame
<1> HIDE DEF set, fn, site
<1>8. SameCalls(set, m) /\ ArcAdded(c, m, site, fn)
  BY <1>5 DEF ReadingInv, ContextInv, IsContext, SameCalls, SameProfile, ArcAdded
<1> HIDE DEF m
<1>9. ReadingInv(m) /\ ContextInv(m) /\ \A s \in Slots : Counted(m, s)
  BY <1>5, <1>8, SameCallsInv DEF ReadingInv
<1>10. ~Ignored(m, fn) => ExitEffect(m, to, fn, site, clock')
  BY <1>4, <1>7, <1>9, ExitEffects
<1>11. Ignored(m, fn) => to = m
  BY DEF Exit
<1> HIDE DEF to
<1>12. ctx'[c] = to /\ \A d \in Ids : d # c => ctx'[d] = ctx[d]
  BY <1>1, <1>2 DEF Treat, ManagerInv
<1>13. Register(c)
  BY <1>2 DEF Treat
<1> QED
  BY <1>2, <1>3, <1>8, <1>9, <1>10, <1>11, <1>12, <1>13 DEF ExitChanges, fn, site

(* a function is left by the flush *)
FlushChanges(c) ==
  LET top == Top(ctx[c].stack)
      symbol == SymbolAt(ctx[c], Len(ctx[c].stack))
  IN  /\ phase = "flush" /\ phase' = "flush" /\ ctx[c].stack # <<>> /\ Known(c)
      /\ UNCHANGED <<mode, alive, frames, list, history, clock>>
      /\ \A d \in Ids : d # c => ctx'[d] = ctx[d]
      /\ symbol = NULL =>
           /\ ctx'[c].stack = Pop(ctx[c].stack) /\ ctx'[c].table = ctx[c].table
           /\ ctx'[c].graph = ctx[c].graph
      /\ symbol # NULL =>
           \E m : /\ ArcAdded(c, m, top.call_site, symbol) /\ ContextInv(m)
                  /\ ExitEffect(m, ctx'[c], symbol, NULL, ctx[c].last_time)

(* And the exits of the flush. *)
LEMMA FlushStepChanges ==
  ASSUME BaseInv, FlushFunction
  PROVE  current \in Ids /\ FlushChanges(current)
<1> DEFINE c == current
           set == ctx[c]
           top == Top(set.stack)
           symbol == set.table[top.function].symbol
           m == [set EXCEPT !.graph = GraphAdd(@, top.call_site, symbol)]
           to == IF symbol = NULL THEN [set EXCEPT !.stack = Pop(set.stack)]
                 ELSE Exit(m, symbol, NULL, set.last_time)
<1>1. ManagerInv /\ FlushInv
  BY DEF BaseInv, ProfileInv
<1>2. /\ phase = "flush" /\ phase' = "flush" /\ flushed <= Len(list) /\ set.stack # <<>>
      /\ UNCHANGED <<mode, alive, frames, list, history, clock>>
      /\ ctx' = [ctx EXCEPT ![c] = to]
  BY DEF FlushFunction, program
<1>3. /\ c \in Ids /\ ContextInv(set) /\ DOMAIN ctx = Ids
      /\ IsContext(set) /\ set.stack \in Seq(Call) /\ set.last_time \in Nat
  BY <1>1 DEF ManagerInv, ContextInv, IsContext
<1>4. Known(c)
  BY <1>1, <1>2 DEF FlushInv, ManagerInv, Known
<1>5. ctx'[c] = to /\ \A d \in Ids : d # c => ctx'[d] = ctx[d]
  BY <1>2, <1>3
<1>6. top \in Call /\ symbol = SymbolAt(set, Len(set.stack))
  BY <1>2, <1>3 DEF Top, SymbolAt
<1>7. top.function \in Slots
  BY <1>6 DEF Call
<1>8. symbol \in Nat
  <2>1. set.table[top.function] \in Entry
    BY <1>3, <1>7 DEF IsContext
  <2> QED
    BY <2>1 DEF Entry
<1> HIDE DEF set, symbol
<1>9. ASSUME symbol = NULL
      PROVE  to.stack = Pop(set.stack) /\ to.table = set.table /\ to.graph = set.graph
  BY <1>3, <1>9 DEF IsContext
<1>10. ASSUME symbol # NULL
       PROVE  ArcAdded(c, m, top.call_site, symbol) /\ ContextInv(m)
              /\ ExitEffect(m, to, symbol, NULL, set.last_time)
  <2>1. to = Exit(m, symbol, NULL, set.last_time)
    BY <1>10
  <2>2. /\ SameCalls(set, m) /\ m.stack = set.stack /\ m.table = set.table
        /\ m.graph = GraphAdd(set.graph, top.call_site, symbol)
    BY <1>3 DEF IsContext, SameCalls
  <2> HIDE DEF m, to
  <2>3. ContextInv(m)
    BY <1>3, <2>2, SameCallsInv
  <2>4. m.table[Leaving(m)].symbol = symbol
    BY <2>2 DEF Leaving, symbol
  <2>5. ~Ignored(m, symbol)
    BY <1>2, <2>2, <2>4 DEF Ignored, Leaving
  <2>6. symbol \in Nat \ {NULL} /\ NULL \in Nat
    BY <1>8, <1>10 DEF NULL
  <2>7. ExitEffect(m, to, symbol, NULL, set.last_time)
    BY <1>3, <2>1, <2>3, <2>4, <2>5, <2>6, ExitEffects
  <2> QED
    BY <2>2, <2>3, <2>7 DEF ArcAdded, set
<1> HIDE DEF m, to
<1> QED
  BY <1>2, <1>3, <1>4, <1>5, <1>6, <1>9, <1>10 DEF FlushChanges, set

(* PARENT: the context of a forked process *)
ParentChanges(c) ==
  /\ phase = "read" /\ phase' = "read" /\ Forked(c) /\ ~Known(c) /\ Register(c)
  /\ UNCHANGED <<mode, frames, history, clock>> /\ alive[c] = "forked"
  /\ \A d \in Ids : d # c => ctx'[d] = ctx[d]
  /\ \E time \in Nat : SameProfile(ForkedContext(time), ctx'[c])

(* The child of a fork has NbFaked unknown functions on its stack. *)
LEMMA ParentStepChanges ==
  ASSUME BaseInv, NEW c \in Ids, ParentEvent(c)
  PROVE  ParentChanges(c)
<1> DEFINE set == ForkedContext(vtime)
           r == Received(c, vtime)
           to == [r EXCEPT !.pid = parent[c]]
<1>1. ProgramInv /\ ManagerInv /\ BirthInv
  BY DEF BaseInv, ProfileInv
<1>2. /\ phase = "read" /\ alive[c] = "forked" /\ UNCHANGED <<mode, frames, phase, history, clock>>
      /\ Treat(c, to)
  BY DEF ParentEvent
<1>3. mode = "FORK" /\ ~Known(c) /\ Known(Root)
  BY <1>1, <1>2 DEF BirthInv, NotBorn
<1>4. vtime \in Nat
  BY <1>1 DEF ProgramInv
<1>5. ReadingInv(set)
  BY <1>4, ForkedInv
<1>6. ContextSet(c, vtime) = set
  BY <1>3 DEF ContextSet
<1>7. r = [set EXCEPT !.last_time = vtime]
  BY <1>6 DEF Received
<1> HIDE DEF r
<1>8. IsContext(set)
  BY <1>5 DEF ReadingInv, ContextInv
<1> HIDE DEF set
<1>9. to.stack = set.stack /\ to.table = set.table /\ to.graph = set.graph
  BY <1>7, <1>8 DEF IsContext
<1> HIDE DEF to
<1>10. ctx'[c] = to /\ \A d \in Ids : d # c => ctx'[d] = ctx[d]
  BY <1>1, <1>2 DEF Treat, ManagerInv
<1>11. Forked(c)
  BY <1>3 DEF Forked
<1> QED
  BY <1>2, <1>3, <1>4, <1>9, <1>10, <1>11 DEF ParentChanges, SameProfile, Treat, set

(* Steps that change no calls, arcs or times.  Frames are cut by a jump,   *)
(* given to the child of a fork, or to a thread that is over.              *)
Quiet ==
  /\ \A d \in Ids : SameProfile(ctx[d], ctx'[d]) /\ (jumped[d] => jumped'[d])
  /\ UNCHANGED <<mode, seen, self, during>> /\ clock <= clock'
  /\ phase' = "read" => phase = "read"
  /\ mode = "FORK" => \A d \in Ids : Known(d)' => Known(d)
  /\ \A d \in Ids :
       \/ jumped'[d]
       \/ frames'[d] = frames[d] /\ depth'[d] = depth[d]
       \/ Forked(d) /\ ~Known(d) /\ ~Known(d)'

(* A step that treats c and leaves its calls and arcs as they are. *)
LEMMA QuietTreat ==
  ASSUME BaseInv, NEW c \in Ids, NEW to, Treat(c, to), SameProfile(ctx[c], to),
         UNCHANGED <<mode, frames, depth, jumped, seen, self, during>>, clock <= clock',
         phase' = phase, mode = "FORK" => Known(c)
  PROVE  Quiet
<1>1. DOMAIN ctx = Ids /\ list \in Seq(Ids)
  BY DEF BaseInv, ProfileInv, ManagerInv
<1>2. ctx'[c] = to /\ \A d \in Ids : d # c => ctx'[d] = ctx[d]
  BY <1>1 DEF Treat
<1>3. \A d \in Ids : SameProfile(ctx[d], ctx'[d])
  BY <1>2 DEF SameProfile
<1>4. \A d \in Ids : Known(d)' <=> Known(d) \/ d = c
  BY <1>1, KnownFrom DEF Treat
<1> QED
  BY <1>3, <1>4 DEF Quiet

(* A step in which the manager does nothing, and the program no enter and  *)
(* no exit.                                                                *)
LEMMA QuietAlone ==
  ASSUME UNCHANGED <<mode, list, seen, self, during, ctx>>, clock <= clock',
         phase' = "read" => phase = "read", \A d \in Ids : jumped[d] => jumped'[d],
         \A d \in Ids : \/ jumped'[d]
                        \/ frames'[d] = frames[d] /\ depth'[d] = depth[d]
                        \/ Forked(d) /\ ~Known(d)
  PROVE  Quiet
<1>1. \A d \in Ids : Known(d)' <=> Known(d)
  BY DEF Known
<1> QED
  BY <1>1 DEF Quiet, SameProfile

(* The steps of the program and of the manager, by what they change. *)
LEMMA StepKinds ==
  ASSUME BaseInv, [Next]_vars
  PROVE  \/ Quiet
         \/ \E c \in Ids : \E f \in Funcs, s \in Sites : EnterChanges(c, f, s)
         \/ \E c \in Ids : ExitChanges(c) \/ ParentChanges(c) \/ FlushChanges(c)
<1>1. ProgramInv /\ ManagerInv /\ BirthInv
  BY DEF BaseInv, ProfileInv
<1>2. /\ frames \in [Ids -> Seq(Frame)] /\ depth \in [Ids -> Nat] /\ jumped \in [Ids -> BOOLEAN]
      /\ clock \in Nat /\ vtime \in Nat
  BY <1>1 DEF ProgramInv, BirthInv
<1>3. ASSUME NEW c \in Ids, phase = "read", alive[c] = "run", mode = "FORK" PROVE Known(c)
  BY <1>1, <1>3 DEF BirthInv, NotBorn
<1>4. CASE \E c \in Ids, f \in Funcs, s \in Sites : EnterFunction(c, f, s)
  BY <1>4, EnterStepChanges
<1>5. CASE \E c \in Ids : ExitFunction(c)
  BY <1>5, ExitStepChanges
<1>6. ASSUME NEW c \in Ids, OtherEvent(c) PROVE Quiet
  <2>1. /\ phase = "read" /\ alive[c] = "run" /\ Treat(c, Received(c, vtime)) /\ clock' = clock
        /\ UNCHANGED <<mode, frames, depth, jumped, seen, self, during>> /\ phase' = phase
    BY <1>6 DEF OtherEvent, Step, program, history
  <2>2. SameProfile(ctx[c], Received(c, vtime))
    BY <1>2, <2>1, SetProfile
  <2> QED
    BY <1>2, <1>3, <2>1, <2>2, QuietTreat
<1>7. ASSUME NEW c \in Ids, Jump(c) PROVE Quiet
  <2>1. /\ UNCHANGED <<mode, list, seen, self, during, ctx, depth>> /\ phase' = phase /\ clock' = clock
        /\ jumped' = [jumped EXCEPT ![c] = TRUE] /\ \E g : frames' = [frames EXCEPT ![c] = g]
    BY <1>7 DEF Jump
  <2>2. /\ \A d \in Ids : jumped[d] => jumped'[d]
        /\ jumped'[c] /\ \A d \in Ids : d # c => frames'[d] = frames[d]
    BY <1>2, <2>1
  <2> QED
    BY <1>2, <2>1, <2>2, QuietAlone
<1>8. ASSUME NEW c \in Ids, ThreadEnds(c) PROVE Quiet
  <2>1. /\ UNCHANGED <<mode, list, seen, self, during, ctx, depth, frames>> /\ phase' = phase
        /\ clock' = clock /\ jumped' = [jumped EXCEPT ![c] = @ \/ frames[c] # <<>>]
    BY <1>8 DEF ThreadEnds
  <2>2. \A d \in Ids : jumped[d] => jumped'[d]
    BY <1>2, <2>1
  <2> QED
    BY <1>2, <2>1, <2>2, QuietAlone
<1>9. ASSUME NEW c \in Ids, Quit(c) PROVE Quiet
  <2>1. /\ phase = "read" /\ alive[c] = "run" /\ Treat(c, ContextSet(c, clock')) /\ clock' = clock + 1
        /\ UNCHANGED <<mode, frames, depth, jumped, seen, self, during>> /\ phase' = phase
    BY <1>9 DEF Quit, Tick, history
  <2>2. clock' \in Nat /\ clock <= clock'
    BY <1>2, <2>1
  <2>3. SameProfile(ctx[c], ContextSet(c, clock'))
    BY <2>1, <2>2, SetProfile
  <2> QED
    BY <1>3, <2>1, <2>2, <2>3, QuietTreat
<1>10. CASE \E c \in Ids : ParentEvent(c)
  BY <1>10, ParentStepChanges
<1>11. ASSUME NEW c \in Ids, ThreadEvent(c) PROVE Quiet
  <2>1. /\ phase = "read" /\ mode = "THREAD" /\ Treat(c, ContextSet(c, clock')) /\ clock' = clock + 1
        /\ UNCHANGED <<mode, frames, depth, jumped, seen, self, during>> /\ phase' = phase
    BY <1>11 DEF ThreadEvent, Tick, history
  <2>2. clock' \in Nat /\ clock <= clock'
    BY <1>2, <2>1
  <2>3. SameProfile(ctx[c], ContextSet(c, clock'))
    BY <2>1, <2>2, SetProfile
  <2> QED
    BY <2>1, <2>2, <2>3, QuietTreat
<1>12. ASSUME NEW p \in Ids, NEW c \in Ids, Fork(p, c) PROVE Quiet
  <2>1. /\ UNCHANGED <<mode, list, seen, self, during, ctx, jumped>> /\ phase' = phase
        /\ clock' = clock + 1 /\ mode = "FORK" /\ alive[c] = "unborn"
        /\ \E g : frames' = [frames EXCEPT ![c] = g] /\ \E n : depth' = [depth EXCEPT ![c] = n]
    BY <1>12 DEF Fork
  <2>2. ~Known(c) /\ Forked(c)
    BY <1>1, <2>1 DEF BirthInv, NotBorn, Forked
  <2>3. clock <= clock' /\ \A d \in Ids : d # c => frames'[d] = frames[d] /\ depth'[d] = depth[d]
    BY <1>2, <2>1
  <2> QED
    BY <2>1, <2>2, <2>3, QuietAlone
<1>13. ASSUME NEW p \in Ids, NEW c \in Ids, CreateThread(p, c) PROVE Quiet
  <2>1. /\ UNCHANGED <<mode, list, seen, self, during, ctx, jumped, depth>> /\ phase' = phase
        /\ clock' = clock + 1 /\ mode = "THREAD" /\ alive[p] = "run" /\ alive[c] \in {"unborn", "over"}
        /\ frames' = [frames EXCEPT ![c] = <<>>]
    BY <1>13 DEF CreateThread, Step, history
  <2>2. clock <= clock' /\ frames'[c] = <<>> /\ \A d \in Ids : d # c => frames'[d] = frames[d]
    BY <1>2, <2>1
  <2>3. ASSUME ~jumped[c] PROVE frames[c] = <<>>
    <3>1. CASE alive[c] = "unborn"
      <4>1. frames[c] \in Seq(Frame)
        BY <1>2
      <4>2. \A k \in 1 .. Len(frames[c]) : frames[c][k].by = c
        BY <1>1, <2>1 DEF BirthInv, Forked
      <4>3. \A k \in 1 .. Len(frames[c]) : FALSE
        BY <1>1, <3>1, <4>2 DEF ProgramInv
      <4>4. Len(frames[c]) \in Nat /\ 1 \notin 1 .. Len(frames[c])
        BY <4>1, <4>3
      <4> QED
        BY <4>1, <4>4
    <3>2. CASE alive[c] = "over"
      BY <2>1, <2>3, <3>2 DEF BaseInv, ThreadInv
    <3> QED
      BY <2>1, <3>1, <3>2
  <2>4. \A d \in Ids : jumped'[d] \/ (frames'[d] = frames[d] /\ depth'[d] = depth[d])
    BY <2>1, <2>2, <2>3
  <2> QED
    BY <2>1, <2>2, <2>4, QuietAlone
<1>14. CASE EndOfStream \/ FlushNext \/ SaveAll
  <2>1. /\ UNCHANGED <<mode, list, seen, self, during, ctx, jumped, depth, frames, clock>>
        /\ phase' # "read"
    BY <1>14 DEF EndOfStream, FlushNext, SaveAll, program, history
  <2> QED
    BY <1>2, <2>1, QuietAlone
<1>15. CASE FlushFunction
  BY <1>15, FlushStepChanges
<1>16. CASE UNCHANGED vars
  <2>1. UNCHANGED <<mode, list, seen, self, during, ctx, jumped, depth, frames, clock, phase>>
    BY <1>16 DEF vars
  <2> QED
    BY <1>2, <2>1, QuietAlone
<1> QED
  BY <1>4, <1>5, <1>6, <1>7, <1>8, <1>9, <1>10, <1>11, <1>12, <1>13, <1>14, <1>15, <1>16
     DEF Next, Flush

------------------------------------------------------------------------------
(* One entry per function *)

(* the same names at the same places *)
Namesakes(m, r) ==
  \A s \in Slots : r.table[s].symbol = m.table[s].symbol /\ r.table[s].faked = m.table[s].faked

(* what is kept of a context of a process or thread that was not forked *)
EntriesOf(m) == Plain(m) /\ (NoneWrapped(m) => Reachable(m) /\ Single(m))

(* It depends on the names alone. *)
LEMMA NamesakeEntries ==
  ASSUME NEW m, NEW r, Namesakes(m, r), EntriesOf(m)
  PROVE  EntriesOf(r)
<1>1. \A s \in Slots : r.table[s].symbol = m.table[s].symbol /\ r.table[s].faked = m.table[s].faked
  BY DEF Namesakes
<1>2. Plain(r)
  BY <1>1 DEF EntriesOf, Plain
<1>3. NoneWrapped(r) => NoneWrapped(m)
  BY <1>1 DEF NoneWrapped
<1>4. Reachable(m) => Reachable(r)
  BY <1>1 DEF Reachable
<1>5. Single(m) => Single(r)
  BY <1>1 DEF Single
<1> QED
  BY <1>2, <1>3, <1>4, <1>5 DEF EntriesOf

(* fc_fhash_find finds what linear probing can reach. *)
LEMMA FindReaches ==
  ASSUME NEW m, m.table \in [Slots -> Entry], NoneWrapped(m), Reachable(m),
         NEW f \in Nat \ {NULL}, NEW s \in Slots, m.table[s].symbol = f
  PROVE  Find(m.table, f) # NoSlot
<1> DEFINE stops == {t \in Slots : t >= Home(f) /\ m.table[t].symbol \in {f, NULL}}
<1>1. Slots \subseteq Nat /\ NoSlot \notin Slots
  BY SlotsFinite, FunctionsAssumption DEF Slots, NoSlot
<1>2. Home(f) \in Slots
  <2>1. Size \in Nat \ {0}
    BY FunctionsAssumption
  <2> QED
    BY <2>1, Modulo DEF Home, Slots
<1>3. Home(f) <= s /\ \A t \in Slots : Home(f) <= t /\ t < s => m.table[t].symbol # NULL
  BY DEF NoneWrapped, Reachable
<1>4. s \in stops
  BY <1>1, <1>2, <1>3
<1>5. PICK u \in stops : \A t \in stops : u <= t
  <2>1. stops \subseteq Nat /\ stops # {}
    BY <1>1, <1>4
  <2> HIDE DEF stops
  <2> QED
    BY <2>1, Least
<1>6. \E x \in stops : \A y \in stops : x =< y
  BY <1>5
<1> DEFINE v == Min(stops)
<1>7. v \in stops /\ \A t \in stops : v <= t
  <2> HIDE DEF stops
  <2> QED
    BY <1>6 DEF Min
<1> HIDE DEF v
<1>8. v \in Slots /\ v <= s /\ v >= Home(f) /\ m.table[v].symbol \in {f, NULL}
  BY <1>4, <1>7
<1>9. m.table[v].symbol = f
  <2>1. CASE v = s
    BY <2>1
  <2>2. CASE v # s
    BY <1>1, <1>2, <1>3, <1>8, <2>2
  <2> QED
    BY <2>1, <2>2
<1>10. Find(m.table, f) = IF stops # {} /\ m.table[v].symbol = f THEN v ELSE NoSlot
  BY DEF Find, v
<1> QED
  BY <1>1, <1>4, <1>8, <1>9, <1>10

(* fc_fhash_insert takes the first free slot at or after the home slot, if *)
(* it does not go around the end.                                          *)
LEMMA InsertFirst ==
  ASSUME NEW table, NEW f \in Nat, InsertAt(table, f) \in Free(table), Home(f) <= InsertAt(table, f),
         NEW t \in Slots, Home(f) <= t, t < InsertAt(table, f)
  PROVE  t \notin Free(table)
<1> DEFINE distance(s) == (s - Home(f)) % Size
           slot == InsertAt(table, f)
<1>1. Size \in Nat \ {0}
  BY FunctionsAssumption
<1>2. Home(f) \in 0 .. Size - 1
  BY <1>1, Modulo DEF Home
<1>3. slot \in 0 .. Size - 1 /\ t \in 0 .. Size - 1
  BY DEF Free, Slots
<1>4. slot = CHOOSE s \in Free(table) : \A u \in Free(table) : distance(s) <= distance(u)
  BY DEF InsertAt, Free
<1> HIDE DEF slot
<1>5. distance(slot) = slot - Home(f) /\ distance(t) = t - Home(f)
  BY <1>1, <1>2, <1>3 DEF slot
<1>6. \E s \in Free(table) : \A u \in Free(table) : distance(s) <= distance(u)
  <2> DEFINE D == {distance(s) : s \in Free(table)}
  <2>1. \A s \in Slots : distance(s) \in Nat
    BY <1>1, <1>2, Modulo DEF Slots
  <2>2. D \subseteq Nat
    BY <2>1 DEF Free
  <2>3. D # {}
    BY DEF slot
  <2>4. PICK x \in D : \A y \in D : x <= y
    BY <2>2, <2>3, Least
  <2>5. PICK s \in Free(table) : x = distance(s)
    BY <2>4
  <2> QED
    BY <2>4, <2>5
<1> HIDE DEF distance
<1>7. \A u \in Free(table) : distance(slot) <= distance(u)
  BY <1>4, <1>6
<1>8. t < slot
  BY DEF slot
<1> QED
  BY <1>2, <1>3, <1>5, <1>7, <1>8

(* An enter makes at most one entry, of a function that has none, where    *)
(* linear probing finds it again.                                          *)
LEMMA EnterEntries ==
  ASSUME NEW m, IsContext(m), EntriesOf(m), NEW r, NEW slot \in Slots, NEW f \in Funcs, NEW site,
         NEW time, EnterEffect(m, r, slot, f, site, time)
  PROVE  EntriesOf(r)
<1> DEFINE known == Opened(m, f, slot)
<1>1. /\ GivenSlot(m, f, slot) /\ Plain(m) /\ m.table \in [Slots -> Entry]
      /\ NoneWrapped(m) => Reachable(m) /\ Single(m)
  BY DEF EnterEffect, EntriesOf, IsContext
<1>2. \A s \in Slots : r.table[s].symbol = known[s].symbol /\ r.table[s].faked = known[s].faked
  BY DEF EnterEffect
<1>3. f \in Nat \ {NULL}
  BY ProfileAssumption
<1>4. CASE Find(m.table, f) # NoSlot
  <2>1. Namesakes(m, r)
    BY <1>2, <1>4 DEF Opened, Namesakes
  <2> QED
    BY <2>1, NamesakeEntries
<1>5. CASE Find(m.table, f) = NoSlot
  <2>1. known = [m.table EXCEPT ![slot] = NewFunction(f)]
    BY <1>5 DEF Opened
  <2> HIDE DEF known
  <2>2. /\ r.table[slot].symbol = f /\ r.table[slot].faked = FALSE
        /\ \A s \in Slots : s # slot => r.table[s].symbol = m.table[s].symbol
                                        /\ r.table[s].faked = m.table[s].faked
    BY <1>1, <1>2, <2>1 DEF NewFunction
  <2>3. /\ slot = InsertAt(m.table, f) /\ slot \in Free(m.table)
        /\ m.table[slot].symbol = NULL
    BY <1>1, <1>5 DEF GivenSlot, Free
  <2>4. Plain(r)
    BY <1>1, <2>2 DEF Plain
  <2>5. ASSUME NoneWrapped(r) PROVE Reachable(r) /\ Single(r)
    <3>1. NoneWrapped(m)
      BY <2>2, <2>3, <2>5 DEF NoneWrapped
    <3>2. Reachable(m) /\ Single(m)
      BY <1>1, <3>1
    <3>3. \A s \in Slots : m.table[s].symbol # f
      BY <1>1, <1>3, <1>5, <3>1, <3>2, FindReaches
    <3>4. Single(r)
      BY <1>3, <2>2, <3>2, <3>3 DEF Single
    <3>5. Home(f) <= slot
      BY <1>3, <2>2, <2>5 DEF NoneWrapped
    <3>6. ASSUME NEW t \in Slots, Home(f) <= t, t < slot PROVE m.table[t].symbol # NULL
      <4>1. t \notin Free(m.table)
        BY <1>3, <2>3, <3>5, <3>6, InsertFirst
      <4> QED
        BY <1>1, <4>1 DEF Free, Plain
    <3>7. Slots \subseteq Nat
      BY SlotsFinite
    <3>8. Reachable(r)
      <4>1. SUFFICES ASSUME NEW s \in Slots, r.table[s].symbol # NULL, NEW t \in Slots,
                            Home(r.table[s].symbol) <= t, t < s
                     PROVE  r.table[t].symbol # NULL
        BY DEF Reachable
      <4>2. CASE t = slot
        BY <1>3, <2>2, <4>2
      <4>3. CASE t # slot /\ s = slot
        BY <2>2, <3>6, <4>1, <4>3
      <4>4. CASE t # slot /\ s # slot
        BY <2>2, <3>2, <4>1, <4>4 DEF Reachable
      <4> QED
        BY <4>2, <4>3, <4>4
    <3> QED
      BY <3>4, <3>8
  <2> QED
    BY <2>4, <2>5 DEF EntriesOf
<1> QED
  BY <1>4, <1>5

(* An exit of a function that has its name on top of the stack gives none. *)
LEMMA ExitNamesakes ==
  ASSUME NEW m, NEW r, NEW f, NEW site, NEW time, ExitEffect(m, r, f, site, time),
         f # NULL, m.table[Leaving(m)].symbol = f
  PROVE  Namesakes(m, r)
<1>1. ~Renames(m)
  BY DEF Renames
<1>2. ASSUME NEW s \in Slots
      PROVE  r.table[s].symbol = m.table[s].symbol /\ r.table[s].faked = m.table[s].faked
  BY <1>1 DEF ExitEffect
<1> QED
  BY <1>2 DEF Namesakes

(* Without unknown functions an exit that is not ignored is one of those.  *)
LEMMA PlainExit ==
  ASSUME NEW m, ContextInv(m), Plain(m), NEW f, ~Ignored(m, f)
  PROVE  m.table[Leaving(m)].symbol = f
<1>1. m.stack # <<>> /\ m.stack \in Seq(Call)
  BY DEF Ignored, ContextInv, IsContext
<1>2. Len(m.stack) \in 1 .. Len(m.stack) /\ m.stack[Len(m.stack)] \in Call
  BY <1>1
<1>3. Leaving(m) = m.stack[Len(m.stack)].function /\ Leaving(m) \in Slots
  BY <1>2 DEF Leaving, Top, Call
<1>4. Leaving(m) \notin Free(m.table)
  BY <1>2, <1>3 DEF ContextInv
<1>5. m.table[Leaving(m)].symbol # NULL /\ ~m.table[Leaving(m)].faked
  BY <1>3, <1>4 DEF Free, Plain
<1> QED
  BY <1>1, <1>5 DEF Ignored, Leaving

(* All steps keep the entries in order. *)
LEMMA EntriesStep == BaseInv /\ EntriesInv /\ [Next]_vars => EntriesInv'
<1> SUFFICES ASSUME BaseInv, EntriesInv, [Next]_vars PROVE EntriesInv'
  OBVIOUS
<1>1. /\ \A c \in Ids : ContextInv(ctx[c]) /\ IsContext(ctx[c])
      /\ \A c \in Ids : ~Forked(c) => EntriesOf(ctx[c])
  BY DEF BaseInv, ProfileInv, ManagerInv, ContextInv, EntriesInv, EntriesOf
<1>2. SUFFICES \A c \in Ids : ~Forked(c)' => EntriesOf(ctx'[c])
  BY DEF EntriesInv, EntriesOf, Plain, NoneWrapped, Reachable, Single
<1>3. CASE Quiet
  <2>1. ASSUME NEW c \in Ids, ~Forked(c)' PROVE EntriesOf(ctx'[c])
    <3>1. ~Forked(c) /\ SameProfile(ctx[c], ctx'[c])
      BY <1>3, <2>1 DEF Quiet, Forked
    <3>2. Namesakes(ctx[c], ctx'[c])
      BY <3>1 DEF SameProfile, Namesakes
    <3> QED
      BY <1>1, <3>1, <3>2, NamesakeEntries
  <2> QED
    BY <2>1
<1>4. ASSUME NEW c \in Ids, NEW f \in Funcs, NEW s \in Sites, EnterChanges(c, f, s)
      PROVE  \A d \in Ids : ~Forked(d)' => EntriesOf(ctx'[d])
  <2>1. mode' = mode /\ ( \/ ctx' = ctx
                          \/ /\ \A d \in Ids : d # c => ctx'[d] = ctx[d]
                             /\ \E slot \in Slots : EnterEffect(ctx[c], ctx'[c], slot, f, s, clock'))
    BY <1>4 DEF EnterChanges, Aside
  <2>2. CASE ctx' = ctx
    BY <1>1, <2>1, <2>2 DEF Forked
  <2>3. ASSUME NEW slot \in Slots, EnterEffect(ctx[c], ctx'[c], slot, f, s, clock')
        PROVE  ~Forked(c) => EntriesOf(ctx'[c])
    BY <1>1, <2>3, EnterEntries
  <2> QED
    BY <1>1, <2>1, <2>2, <2>3 DEF Forked
<1>5. ASSUME NEW c \in Ids, ExitChanges(c)
      PROVE  \A d \in Ids : ~Forked(d)' => EntriesOf(ctx'[d])
  <2> DEFINE fn == Top(frames[c]).fn
             site == Top(frames[c]).site
  <2>1. /\ mode' = mode /\ \A d \in Ids : d # c => ctx'[d] = ctx[d]
        /\ frames[c] # <<>>
    BY <1>5 DEF ExitChanges, Aside
  <2>2. PICK m : /\ ArcAdded(c, m, site, fn) /\ ReadingInv(m)
                 /\ Ignored(m, fn) => ctx'[c] = m
                 /\ ~Ignored(m, fn) => ExitEffect(m, ctx'[c], fn, site, clock')
    BY <1>5 DEF ExitChanges
  <2>3. fn \in Funcs /\ fn # NULL
    <3>1. frames[c] \in Seq(Frame)
      BY DEF BaseInv, ProfileInv, ProgramInv
    <3>2. Top(frames[c]) \in Frame
      BY <2>1, <3>1 DEF Top
    <3> QED
      BY <3>2, ProfileAssumption DEF Frame
  <2> HIDE DEF fn, site
  <2>4. ASSUME ~Forked(c) PROVE EntriesOf(ctx'[c])
    <3>1. Namesakes(ctx[c], m)
      BY <2>2 DEF ArcAdded, Namesakes
    <3>2. EntriesOf(m)
      BY <1>1, <2>4, <3>1, NamesakeEntries
    <3>3. ~Ignored(m, fn) => m.table[Leaving(m)].symbol = fn
      BY <2>2, <3>2, PlainExit DEF EntriesOf, ReadingInv
    <3>4. ~Ignored(m, fn) => Namesakes(m, ctx'[c])
      BY <2>2, <2>3, <3>3, ExitNamesakes
    <3> QED
      BY <2>2, <3>2, <3>4, NamesakeEntries
  <2> QED
    BY <1>1, <2>1, <2>4 DEF Forked
<1>6. ASSUME NEW c \in Ids, ParentChanges(c)
      PROVE  \A d \in Ids : ~Forked(d)' => EntriesOf(ctx'[d])
  <2>1. mode' = mode /\ Forked(c) /\ \A d \in Ids : d # c => ctx'[d] = ctx[d]
    BY <1>6 DEF ParentChanges
  <2> QED
    BY <1>1, <2>1 DEF Forked
<1>7. ASSUME NEW c \in Ids, FlushChanges(c)
      PROVE  \A d \in Ids : ~Forked(d)' => EntriesOf(ctx'[d])
  <2> DEFINE symbol == SymbolAt(ctx[c], Len(ctx[c].stack))
             site == Top(ctx[c].stack).call_site
             last == ctx[c].last_time
  <2>1. /\ mode' = mode /\ \A d \in Ids : d # c => ctx'[d] = ctx[d]
        /\ symbol = NULL => ctx'[c].table = ctx[c].table
        /\ symbol # NULL => \E m : ArcAdded(c, m, site, symbol) /\ ExitEffect(m, ctx'[c], symbol, NULL, last)
    BY <1>7 DEF FlushChanges
  <2>2. CASE symbol = NULL
    <3>1. Namesakes(ctx[c], ctx'[c])
      BY <2>1, <2>2 DEF Namesakes
    <3> QED
      BY <1>1, <2>1, <3>1, NamesakeEntries DEF Forked
  <2>3. CASE symbol # NULL
    <3>1. PICK m : ArcAdded(c, m, site, symbol) /\ ExitEffect(m, ctx'[c], symbol, NULL, last)
      BY <2>1, <2>3
    <3>2. m.table[Leaving(m)].symbol = symbol
      BY <3>1 DEF ArcAdded, Leaving, Top, SymbolAt
    <3> HIDE DEF symbol, site, last
    <3>3. Namesakes(m, ctx'[c])
      BY <2>3, <3>1, <3>2, ExitNamesakes
    <3>4. Namesakes(ctx[c], ctx'[c])
      BY <3>1, <3>3 DEF Namesakes, ArcAdded
    <3> QED
      BY <1>1, <2>1, <3>4, NamesakeEntries DEF Forked
  <2> QED
    BY <2>2, <2>3
<1> QED
  BY <1>3, <1>4, <1>5, <1>6, <1>7, StepKinds

(* They are in order when no function is called yet. *)
LEMMA EntriesInitially == Init => EntriesInv
<1>1. Init => \A c \in Ids : \A s \in Slots : ctx[c].table[s] = NewFunction(NULL)
  BY DEF Init, EmptyContext, NoContext
<1>2. NewFunction(NULL).symbol = NULL /\ ~NewFunction(NULL).faked
  BY DEF NewFunction
<1> QED
  BY <1>1, <1>2 DEF EntriesInv, Plain, Reachable, Single

(* "1st check if the function exists" (fc_functions_enter): as long as no  *)
(* insertion has gone around the end of the table, where fc_fhash_find     *)
(* does not look, a function has one entry, which all its calls find.      *)
THEOREM FunctionsFoundAgain ==
  Spec => []((\A c \in Ids : Forked(c) \/ NoneWrapped(ctx[c])) => OneEntryPerFunction)
<1>1. Spec => []EntriesInv
  BY BaseInvariance, EntriesInitially, EntriesStep, PTL DEF Spec
<1>2. EntriesInv => ((\A c \in Ids : Forked(c) \/ NoneWrapped(ctx[c])) => OneEntryPerFunction)
  <2> SUFFICES ASSUME EntriesInv, NEW c \in Ids, ~Forked(c), NoneWrapped(ctx[c]), NEW f \in Funcs
               PROVE  Cardinality(Entries(c, f)) <= 1
    BY DEF OneEntryPerFunction
  <2>1. Single(ctx[c]) /\ f # NULL
    BY ProfileAssumption DEF EntriesInv
  <2>2. \A s, t \in Entries(c, f) : s = t
    BY <2>1 DEF Single, Entries
  <2>3. CASE Entries(c, f) = {}
    BY <2>3, FS_EmptySet
  <2>4. CASE Entries(c, f) # {}
    <3>1. PICK s : s \in Entries(c, f)
      BY <2>4
    <3>2. Entries(c, f) = {s}
      BY <2>2, <3>1
    <3> QED
      BY <3>2, FS_Singleton
  <2> QED
    BY <2>3, <2>4
<1> QED
  BY <1>1, <1>2, PTL

------------------------------------------------------------------------------
(* Arcs and calls: what a context has of them *)

(* the entries of a function, and the calls that they count *)
Of(m, f) == {s \in Slots : m.table[s].symbol = f}
CallCounts(m) == [s \in Slots |-> m.table[s].calls]

(* Entries are finitely many, and count numbers of calls. *)
LEMMA OfFacts ==
  ASSUME NEW m, m.table \in [Slots -> Entry], NEW f
  PROVE  /\ IsFiniteSet(Of(m, f)) /\ \A s \in Of(m, f) : CallCounts(m)[s] \in Nat
         /\ CallsOf(m, f) = SumFunctionOnSet(CallCounts(m), Of(m, f)) /\ CallsOf(m, f) \in Nat
<1>1. IsFiniteSet(Of(m, f))
  BY SlotsFinite, FS_Subset DEF Of
<1>2. \A s \in Of(m, f) : CallCounts(m)[s] \in Nat
  <2>1. \A s \in Slots : m.table[s] \in Entry
    OBVIOUS
  <2> QED
    BY <2>1 DEF Of, CallCounts, Entry
<1>3. CallsOf(m, f) = SumFunctionOnSet(CallCounts(m), Of(m, f))
  BY DEF CallsOf, CallCounts, Of
<1> QED
  BY <1>1, <1>2, <1>3, SumNat

(* the same calls of a function in the same entries *)
LEMMA CallsKept ==
  ASSUME NEW m, NEW r, m.table \in [Slots -> Entry], r.table \in [Slots -> Entry], NEW f,
         \A s \in Slots : r.table[s].symbol = f <=> m.table[s].symbol = f,
         \A s \in Slots : r.table[s].symbol = f => r.table[s].calls = m.table[s].calls
  PROVE  CallsOf(r, f) = CallsOf(m, f)
<1>1. Of(r, f) = Of(m, f)
  BY DEF Of
<1>2. \A s \in Of(m, f) : CallCounts(m)[s] = CallCounts(r)[s]
  BY DEF Of, CallCounts
<1> QED
  BY <1>1, <1>2, OfFacts, SumSame

(* r has one more entry of f than m, which counts one call. *)
CalledOnce(m, r, slot, f) ==
  /\ m.table[slot].symbol # f /\ r.table[slot].symbol = f /\ r.table[slot].calls = 1
  /\ \A s \in Slots : s # slot => (r.table[s].symbol = f <=> m.table[s].symbol = f)
  /\ \A s \in Slots : s # slot => r.table[s].calls = m.table[s].calls

(* one more entry of a function, which counts one call *)
LEMMA CallsOfNew ==
  ASSUME NEW m, NEW r, m.table \in [Slots -> Entry], r.table \in [Slots -> Entry], NEW f,
         NEW slot \in Slots, CalledOnce(m, r, slot, f)
  PROVE  CallsOf(r, f) = CallsOf(m, f) + 1
<1> USE DEF CalledOnce
<1>1. slot \in Of(r, f) /\ Of(r, f) \ {slot} = Of(m, f) /\ CallCounts(r)[slot] = 1
  BY DEF Of, CallCounts
<1>2. \A s \in Of(m, f) : CallCounts(r)[s] = CallCounts(m)[s]
  BY DEF Of, CallCounts
<1>3. SumFunctionOnSet(CallCounts(r), Of(m, f)) = SumFunctionOnSet(CallCounts(m), Of(m, f))
  BY <1>2, OfFacts, SumSame
<1>4. SumFunctionOnSet(CallCounts(r), Of(r, f)) = 1 + SumFunctionOnSet(CallCounts(r), Of(m, f))
  <2> DEFINE S == Of(r, f)
             q == CallCounts(r)
  <2>0. SUFFICES SumFunctionOnSet(q, S) = 1 + SumFunctionOnSet(q, Of(m, f))
    OBVIOUS
  <2>1. IsFiniteSet(S) /\ \A s \in S : q[s] \in Nat
    BY OfFacts
  <2>2. slot \in S
    BY <1>1
  <2>3. S \ {slot} = Of(m, f) /\ q[slot] = 1
    BY <1>1
  <2> HIDE DEF S, q
  <2>4. SumFunctionOnSet(q, S) = q[slot] + SumFunctionOnSet(q, S \ {slot})
    BY ONLY <2>1, <2>2, SumElement
  <2>5. SumFunctionOnSet(q, S \ {slot}) = SumFunctionOnSet(q, Of(m, f))
    BY <2>3
  <2> QED
    BY <2>3, <2>4, <2>5
<1>5. CallsOf(r, f) = 1 + CallsOf(m, f)
  <2>1. CallsOf(r, f) = SumFunctionOnSet(CallCounts(r), Of(r, f))
    BY OfFacts
  <2>2. CallsOf(m, f) = SumFunctionOnSet(CallCounts(m), Of(m, f))
    BY OfFacts
  <2> QED
    BY <1>3, <1>4, <2>1, <2>2
<1>6. CallsOf(m, f) \in Nat
  BY OfFacts
<1> QED
  BY <1>5, <1>6

(* an entry of a function counts one call more *)
LEMMA CallsOfOld ==
  ASSUME NEW m, NEW r, m.table \in [Slots -> Entry], r.table \in [Slots -> Entry], NEW f,
         NEW slot \in Slots, m.table[slot].symbol = f, r.table[slot].calls = m.table[slot].calls + 1,
         \A s \in Slots : r.table[s].symbol = f <=> m.table[s].symbol = f,
         \A s \in Slots : s # slot => r.table[s].calls = m.table[s].calls
  PROVE  CallsOf(r, f) = CallsOf(m, f) + 1
<1> DEFINE S == Of(m, f)
           p == CallCounts(m)
           q == CallCounts(r)
<1>1. Of(r, f) = S /\ slot \in S /\ q[slot] = p[slot] + 1
  BY DEF Of, CallCounts
<1>2. \A s \in S \ {slot} : p[s] = q[s]
  BY DEF Of, CallCounts
<1>3. \A s \in S : p[s] \in Nat /\ q[s] \in Nat
  BY <1>1, OfFacts
<1>4. IsFiniteSet(S)
  BY OfFacts
<1>5. CallsOf(r, f) = SumFunctionOnSet(q, S) /\ CallsOf(m, f) = SumFunctionOnSet(p, S)
  BY <1>1, OfFacts
<1>6. CallsOf(m, f) \in Nat
  BY OfFacts
<1> HIDE DEF S, p, q
<1>7. SumFunctionOnSet(q, S) = SumFunctionOnSet(p, S) - p[slot] + q[slot]
  BY <1>1, <1>2, <1>3, <1>4, SumDiffers
<1>8. p[slot] \in Nat
  BY <1>1, <1>3
<1> QED
  BY <1>1, <1>5, <1>6, <1>7, <1>8

(* the arcs to a function *)
ArcsTo(graph, f) == {arc \in DOMAIN graph : arc[2] = f}

(* They are finitely many, and their sum is a number. *)
LEMMA ArcsFacts ==
  ASSUME NEW graph, IsGraph(graph), NEW f
  PROVE  /\ IsFiniteSet(ArcsTo(graph, f)) /\ \A arc \in ArcsTo(graph, f) : graph[arc] \in Nat
         /\ SumFunctionOnSet(graph, ArcsTo(graph, f)) \in Nat
<1>1. IsFiniteSet(ArcsTo(graph, f))
  BY FS_Subset DEF ArcsTo, IsGraph
<1>2. \A arc \in ArcsTo(graph, f) : graph[arc] \in Nat
  BY DEF ArcsTo, IsGraph
<1> QED
  BY <1>1, <1>2, SumNat

(* fc_graph_add counts one more call of "to", if it has an origin. *)
LEMMA ArcCounted ==
  ASSUME NEW graph, IsGraph(graph), NEW from, NEW to
  PROVE  LET g == GraphAdd(graph, from, to) IN
         /\ IsGraph(g)
         /\ \A f : SumFunctionOnSet(g, ArcsTo(g, f)) =
              SumFunctionOnSet(graph, ArcsTo(graph, f)) + (IF f = to /\ from # NULL THEN 1 ELSE 0)
<1> DEFINE g == GraphAdd(graph, from, to)
           a == <<from, to>>
           D == DOMAIN graph
<1>1. CASE from = NULL
  <2>1. g = graph
    BY <1>1 DEF GraphAdd
  <2>2. \A f : SumFunctionOnSet(graph, ArcsTo(graph, f)) \in Nat
    BY ArcsFacts
  <2> HIDE DEF g
  <2> QED
    BY <1>1, <2>1, <2>2 DEF g
<1>2. CASE from # NULL
  <2>1. g = [arc \in D \cup {a} |->
               (IF arc \in D THEN graph[arc] ELSE 0) + (IF arc = a THEN 1 ELSE 0)]
    BY <1>2 DEF GraphAdd
  <2>2. a[2] = to
    OBVIOUS
  <2>3. \A arc \in D : graph[arc] \in Nat
    BY DEF IsGraph
  <2> HIDE DEF g, a
  <2>4. /\ DOMAIN g = D \cup {a} /\ g[a] = (IF a \in D THEN graph[a] ELSE 0) + 1
        /\ \A arc \in D \ {a} : g[arc] = graph[arc]
    BY <2>1, <2>3
  <2>5. g[a] \in Nat
    BY <2>3, <2>4
  <2>6. IsGraph(g)
    <3>1. IsFiniteSet(D \cup {a})
      BY FS_AddElement DEF IsGraph
    <3>2. \A arc \in D \cup {a} : g[arc] \in Nat
      BY <2>3, <2>4, <2>5
    <3>3. g = [arc \in D \cup {a} |-> g[arc]]
      BY <2>1
    <3> QED
      BY <2>4, <3>1, <3>2, <3>3 DEF IsGraph
  <2>7. ASSUME NEW f
        PROVE  SumFunctionOnSet(g, ArcsTo(g, f)) =
                 SumFunctionOnSet(graph, ArcsTo(graph, f)) + (IF f = to THEN 1 ELSE 0)
    <3> DEFINE S == ArcsTo(graph, f)
               T == ArcsTo(g, f)
    <3>0. SUFFICES SumFunctionOnSet(g, T) = SumFunctionOnSet(graph, S) + (IF f = to THEN 1 ELSE 0)
      OBVIOUS
    <3>1. /\ IsFiniteSet(S) /\ IsFiniteSet(T) /\ SumFunctionOnSet(graph, S) \in Nat
          /\ \A arc \in S : graph[arc] \in Nat
          /\ \A arc \in T : g[arc] \in Nat
      BY <2>6, ArcsFacts
    <3>2. T = IF f = to THEN S \cup {a} ELSE S
      BY <2>2, <2>4 DEF ArcsTo
    <3>3. \A arc \in S \ {a} : g[arc] = graph[arc]
      BY <2>4 DEF ArcsTo
    <3>4. a \in S => a \in D /\ f = to
      BY <2>2 DEF ArcsTo
    <3>5. f = to /\ a \in D => a \in S
      BY <2>2 DEF ArcsTo
    <3>6. IsFiniteSet(S \ {a})
      BY <3>1, FS_Subset
    <3> HIDE DEF S, T
    <3>7. SumFunctionOnSet(g, S \ {a}) = SumFunctionOnSet(graph, S \ {a})
      BY <3>3, <3>6, SumSame
    <3>8. CASE f # to
      <4>1. S \ {a} = S /\ T = S
        BY <3>2, <3>4, <3>8
      <4> QED
        BY <3>1, <3>7, <3>8, <4>1
    <3>9. CASE f = to
      <4>1. a \in T /\ T \ {a} = S \ {a}
        BY <3>2, <3>9
      <4>2. SumFunctionOnSet(g, T) = g[a] + SumFunctionOnSet(g, T \ {a})
        BY <3>1, <4>1, SumElement
      <4>3. SumFunctionOnSet(g, S \ {a}) \in Nat
        BY <3>1, <3>2, <3>6, <3>9, SumNat
      <4>4. CASE a \in D
        <5>1. SumFunctionOnSet(graph, S) = graph[a] + SumFunctionOnSet(graph, S \ {a})
          BY <3>1, <3>5, <3>9, <4>4, SumElement
        <5>2. graph[a] \in Nat /\ g[a] = graph[a] + 1
          BY <2>3, <2>4, <4>4
        <5>3. SumFunctionOnSet(g, T \ {a}) = SumFunctionOnSet(g, S \ {a})
          BY <4>1
        <5> DEFINE rest == SumFunctionOnSet(g, S \ {a})
        <5>4. /\ SumFunctionOnSet(g, T) = g[a] + rest /\ rest \in Nat
              /\ SumFunctionOnSet(graph, S) = graph[a] + rest
          BY <3>7, <4>2, <4>3, <5>1, <5>3
        <5> HIDE DEF rest
        <5> QED
          BY <3>9, <5>2, <5>4
      <4>5. CASE a \notin D
        <5>1. S \ {a} = S /\ g[a] = 1
          BY <2>4, <3>4, <4>5
        <5>2. SumFunctionOnSet(g, T \ {a}) = SumFunctionOnSet(graph, S)
          BY <3>7, <4>1, <5>1
        <5>3. SumFunctionOnSet(g, T) = 1 + SumFunctionOnSet(graph, S)
          BY <4>2, <5>1, <5>2
        <5> QED
          BY <3>1, <3>9, <5>3
      <4> QED
        BY <4>4, <4>5
    <3> QED
      BY <3>8, <3>9
  <2> QED
    BY <1>2, <2>6, <2>7 DEF g
<1> QED
  BY <1>1, <1>2

(* the places of a function on the stack are finitely many *)
LEMMA RunningFinite ==
  ASSUME NEW m, m.stack \in Seq(Call), NEW f
  PROVE  IsFiniteSet(Running(m, f)) /\ Cardinality(Running(m, f)) \in Nat
<1>1. IsFiniteSet(1 .. Len(m.stack))
  BY FS_Interval
<1>2. Running(m, f) \in SUBSET (1 .. Len(m.stack))
  BY DEF Running
<1> QED
  BY <1>1, <1>2, FS_Subset, FS_CardinalityType

(* a call more on the stack *)
LEMMA RunningPush ==
  ASSUME NEW m, NEW r, m.stack \in Seq(Call), Len(r.stack) = Len(m.stack) + 1, NEW f,
         \A k \in 1 .. Len(m.stack) : SymbolAt(r, k) = f <=> SymbolAt(m, k) = f
  PROVE  Cardinality(Running(r, f)) =
           Cardinality(Running(m, f)) + (IF SymbolAt(r, Len(m.stack) + 1) = f THEN 1 ELSE 0)
<1> DEFINE n == Len(m.stack)
           R == Running(m, f)
           top == SymbolAt(r, n + 1)
<1>1. n \in Nat /\ 1 .. n + 1 = 1 .. n \cup {n + 1} /\ n + 1 \notin 1 .. n
  OBVIOUS
<1>2. Running(r, f) = IF top = f THEN R \cup {n + 1} ELSE R
  BY <1>1 DEF Running
<1>3. n + 1 \notin R
  BY <1>1 DEF Running
<1>4. IsFiniteSet(R) /\ Cardinality(R) \in Nat
  BY RunningFinite
<1> HIDE DEF R, n, top
<1>5. Cardinality(R \cup {n + 1}) = Cardinality(R) + 1
  BY <1>3, <1>4, FS_AddElement
<1>6. Cardinality(Running(r, f)) = Cardinality(R) + (IF top = f THEN 1 ELSE 0)
  BY <1>2, <1>4, <1>5
<1> QED
  BY <1>6 DEF R, n, top

(* a call less *)
LEMMA RunningPop ==
  ASSUME NEW m, NEW r, m.stack \in Seq(Call), m.stack # <<>>, Len(r.stack) = Len(m.stack) - 1, NEW f,
         \A k \in 1 .. Len(m.stack) - 1 : SymbolAt(r, k) = f <=> SymbolAt(m, k) = f
  PROVE  Cardinality(Running(m, f)) =
           Cardinality(Running(r, f)) + (IF SymbolAt(m, Len(m.stack)) = f THEN 1 ELSE 0)
<1> DEFINE n == Len(m.stack)
           R == Running(m, f)
           Q == Running(r, f)
           top == SymbolAt(m, n)
<1>1. n \in Nat /\ n >= 1 /\ 1 .. n = 1 .. n - 1 \cup {n} /\ n \notin 1 .. n - 1
  OBVIOUS
<1>2. R = IF top = f THEN Q \cup {n} ELSE Q
  BY <1>1 DEF Running
<1>3. n \notin Q
  BY <1>1 DEF Running
<1>4. IsFiniteSet(R)
  BY RunningFinite
<1> HIDE DEF R, Q, n, top
<1>5. IsFiniteSet(Q)
  <2>1. Q \subseteq R
    BY <1>2
  <2> QED
    BY <1>4, <2>1, FS_Subset
<1>6. Cardinality(Q) \in Nat /\ Cardinality(Q \cup {n}) = Cardinality(Q) + 1
  BY <1>3, <1>5, FS_AddElement, FS_CardinalityType
<1>7. Cardinality(R) = Cardinality(Q) + (IF top = f THEN 1 ELSE 0)
  BY <1>2, <1>6
<1> QED
  BY <1>7 DEF R, Q, n, top

(* r has the stack of m with one more call on it, of f in this slot. *)
CallPushed(m, r, slot, f, site, time) ==
  /\ Len(r.stack) = Len(m.stack) + 1 /\ SymbolAt(r, Len(m.stack) + 1) = f
  /\ r.stack[Len(m.stack) + 1] = [function |-> slot, time |-> time, call_site |-> site]
  /\ \A k \in 1 .. Len(m.stack) :
       /\ r.stack[k] = m.stack[k] /\ SymbolAt(r, k) = SymbolAt(m, k)
       /\ r.table[m.stack[k].function].faked = m.table[m.stack[k].function].faked

(* An enter leaves the functions below as they are: a free slot is not on  *)
(* the stack.                                                              *)
LEMMA EnterSymbols ==
  ASSUME NEW m, ContextInv(m), NEW r, NEW slot \in Slots, NEW f, NEW site \in Nat, NEW time \in Nat,
         EnterEffect(m, r, slot, f, site, time)
  PROVE  CallPushed(m, r, slot, f, site, time)
<1> DEFINE e == [function |-> slot, time |-> time, call_site |-> site]
           n == Len(m.stack)
           known == Opened(m, f, slot)
<1>1. m.stack \in Seq(Call) /\ m.table \in [Slots -> Entry]
  BY DEF ContextInv, IsContext
<1>2. r.stack = Append(m.stack, e) /\ e \in Call
  BY DEF EnterEffect, Call
<1>3. e.function = slot
  OBVIOUS
<1> HIDE DEF e
<1>4. /\ Len(r.stack) = n + 1 /\ r.stack[n + 1] = e
      /\ \A k \in 1 .. n : r.stack[k] = m.stack[k]
  BY <1>1, <1>2
<1>5. /\ \A s \in Slots : r.table[s].symbol = known[s].symbol /\ r.table[s].faked = known[s].faked
      /\ GivenSlot(m, f, slot)
  BY DEF EnterEffect
<1>6. known[slot].symbol = f
  BY <1>1, <1>5 DEF Opened, GivenSlot, NewFunction
<1>7. ASSUME NEW k \in 1 .. n PROVE m.stack[k].function \in Slots /\ known[m.stack[k].function] = m.table[m.stack[k].function]
  <2>1. m.stack[k] \in Call
    BY <1>1, <1>7
  <2>2. m.stack[k].function \in Slots /\ m.stack[k].function \notin Free(m.table)
    BY <1>7, <2>1 DEF Call, ContextInv
  <2>3. Find(m.table, f) = NoSlot => m.stack[k].function # slot
    BY <1>5, <2>2 DEF GivenSlot
  <2> QED
    BY <1>1, <2>2, <2>3 DEF Opened
<1> HIDE DEF known
<1>8. SymbolAt(r, n + 1) = f
  BY <1>3, <1>4, <1>5, <1>6 DEF SymbolAt
<1>9. ASSUME NEW k \in 1 .. n
      PROVE  /\ SymbolAt(r, k) = SymbolAt(m, k)
             /\ r.table[m.stack[k].function].faked = m.table[m.stack[k].function].faked
  BY <1>4, <1>5, <1>7 DEF SymbolAt
<1> QED
  BY <1>4, <1>8, <1>9 DEF e, CallPushed

(* An enter counts a call that is on the stack. *)
LEMMA EnterBalance ==
  ASSUME NEW m, ContextInv(m), Balanced(m), IsGraph(m.graph), NEW r, NEW slot \in Slots,
         NEW f \in Funcs, NEW site \in Sites, NEW time \in Nat,
         EnterEffect(m, r, slot, f, site, time)
  PROVE  Balanced(r)
<1> DEFINE n == Len(m.stack)
           known == Opened(m, f, slot)
<1>1. /\ m.stack \in Seq(Call) /\ m.table \in [Slots -> Entry] /\ r.table \in [Slots -> Entry]
      /\ site \in Nat \ {NULL} /\ f # NULL /\ r.graph = m.graph
      /\ \A g \in Funcs : g # NULL
  BY ProfileAssumption DEF ContextInv, IsContext, EnterEffect
<1>2. /\ Len(r.stack) = n + 1 /\ SymbolAt(r, n + 1) = f /\ r.stack[n + 1].call_site = site
      /\ \A k \in 1 .. n : r.stack[k] = m.stack[k] /\ SymbolAt(r, k) = SymbolAt(m, k)
  <2>1. ContextInv(m) /\ slot \in Slots /\ site \in Nat /\ time \in Nat /\ EnterEffect(m, r, slot, f, site, time)
    BY <1>1
  <2>2. CallPushed(m, r, slot, f, site, time)
    BY <2>1, EnterSymbols
  <2> QED
    BY <2>2 DEF CallPushed
<1>3. n \in Nat
  BY <1>1
<1>4. ASSUME NEW k \in 1 .. Len(r.stack), SymbolAt(r, k) \in Funcs PROVE r.stack[k].call_site # NULL
  <2>1. CASE k = n + 1
    BY <1>1, <1>2, <2>1
  <2>2. CASE k # n + 1
    <3>1. k \in 1 .. n
      BY <1>2, <1>3, <1>4, <2>2
    <3> QED
      BY <1>2, <1>4, <3>1 DEF Balanced
  <2> QED
    BY <2>1, <2>2
<1>5. /\ GivenSlot(m, f, slot)
      /\ \A s \in Slots : r.table[s].symbol = known[s].symbol
      /\ \A s \in Slots : r.table[s].calls = known[s].calls + (IF s = slot THEN 1 ELSE 0)
      /\ known \in [Slots -> Entry]
  BY DEF EnterEffect
<1>6. \A s \in Slots : known[s].calls \in Nat /\ m.table[s].calls \in Nat
  <2>1. \A s \in Slots : known[s] \in Entry /\ m.table[s] \in Entry
    BY <1>1, <1>5
  <2> QED
    BY <2>1 DEF Entry
<1>7. ASSUME NEW g \in Funcs PROVE CallsOf(r, g) = CallsOf(m, g) + (IF g = f THEN 1 ELSE 0)
  <2>1. CallsOf(m, g) \in Nat
    BY <1>1, OfFacts
  <2>2. CASE Find(m.table, f) = NoSlot
    <3>1. known = [m.table EXCEPT ![slot] = NewFunction(f)]
      BY <2>2 DEF Opened
    <3>2. m.table[slot].symbol = NULL
      BY <1>5, <2>2 DEF GivenSlot, Free
    <3> HIDE DEF known
    <3>3. known[slot].symbol = f /\ known[slot].calls = 0 /\ \A s \in Slots : s # slot => known[s] = m.table[s]
      BY <1>1, <3>1 DEF NewFunction
    <3>4. /\ r.table[slot].symbol = f /\ r.table[slot].calls = 1
          /\ \A s \in Slots : s # slot => r.table[s].symbol = m.table[s].symbol /\ r.table[s].calls = m.table[s].calls
      BY <1>5, <1>6, <3>3
    <3>5. CASE g = f
      <4>1. m.table \in [Slots -> Entry] /\ r.table \in [Slots -> Entry] /\ slot \in Slots
        BY <1>1
      <4>2. CalledOnce(m, r, slot, f)
        BY <1>1, <3>2, <3>4 DEF CalledOnce
      <4>3. CallsOf(r, f) = CallsOf(m, f) + 1
        BY ONLY <4>1, <4>2, CallsOfNew
      <4> QED
        BY <3>5, <4>3
    <3>6. CASE g # f
      <4>1. /\ \A s \in Slots : r.table[s].symbol = g <=> m.table[s].symbol = g
            /\ \A s \in Slots : r.table[s].symbol = g => r.table[s].calls = m.table[s].calls
        BY <1>1, <3>2, <3>4, <3>6
      <4>2. CallsOf(r, g) = CallsOf(m, g)
        BY <1>1, <4>1, CallsKept
      <4> QED
        BY <2>1, <3>6, <4>2
    <3> QED
      BY <3>5, <3>6
  <2>3. CASE Find(m.table, f) # NoSlot
    <3>1. known = m.table /\ m.table[slot].symbol = f
      BY <1>5, <2>3 DEF Opened, GivenSlot
    <3> HIDE DEF known
    <3>2. /\ \A s \in Slots : r.table[s].symbol = m.table[s].symbol
          /\ r.table[slot].calls = m.table[slot].calls + 1
          /\ \A s \in Slots : s # slot => r.table[s].calls = m.table[s].calls
      BY <1>5, <1>6, <3>1
    <3>3. CASE g = f
      <4>1. m.table \in [Slots -> Entry] /\ r.table \in [Slots -> Entry] /\ slot \in Slots
        BY <1>1
      <4>2. m.table[slot].symbol = f
        BY <3>1
      <4>3. /\ r.table[slot].calls = m.table[slot].calls + 1
            /\ \A s \in Slots : r.table[s].symbol = f <=> m.table[s].symbol = f
            /\ \A s \in Slots : s # slot => r.table[s].calls = m.table[s].calls
        BY <3>2
      <4>4. CallsOf(r, f) = CallsOf(m, f) + 1
        BY ONLY <4>1, <4>2, <4>3, CallsOfOld, SMTT(30)
      <4> QED
        BY <3>3, <4>4
    <3>4. CASE g # f
      <4>1. \A s \in Slots : r.table[s].symbol = g => r.table[s].calls = m.table[s].calls
        BY <3>1, <3>2, <3>4
      <4>2. CallsOf(r, g) = CallsOf(m, g)
        <5>1. m.table \in [Slots -> Entry] /\ r.table \in [Slots -> Entry]
          BY <1>1
        <5>2. \A s \in Slots : r.table[s].symbol = g <=> m.table[s].symbol = g
          BY <3>2
        <5> QED
          BY ONLY <4>1, <5>1, <5>2, CallsKept
      <4> QED
        BY <2>1, <3>4, <4>2
    <3> QED
      BY <3>3, <3>4
  <2> QED
    BY <2>2, <2>3
<1>8. ASSUME NEW g \in Funcs PROVE Arcs(r, g) + Cardinality(Running(r, g)) = CallsOf(r, g)
  <2>1. Arcs(r, g) = Arcs(m, g)
    BY <1>1 DEF Arcs
  <2>2. Cardinality(Running(r, g)) = Cardinality(Running(m, g)) + (IF f = g THEN 1 ELSE 0)
    <3>1. \A k \in 1 .. Len(m.stack) : SymbolAt(r, k) = g <=> SymbolAt(m, k) = g
      BY <1>2
    <3>2. Cardinality(Running(r, g)) =
            Cardinality(Running(m, g)) + (IF SymbolAt(r, Len(m.stack) + 1) = g THEN 1 ELSE 0)
      BY <1>1, <1>2, <3>1, RunningPush
    <3> QED
      BY <1>2, <3>2
  <2>3. Arcs(m, g) + Cardinality(Running(m, g)) = CallsOf(m, g)
    BY DEF Balanced
  <2>4. Arcs(m, g) \in Nat /\ Cardinality(Running(m, g)) \in Nat
    <3>1. Arcs(m, g) = SumFunctionOnSet(m.graph, ArcsTo(m.graph, g))
      BY DEF Arcs, ArcsTo
    <3> QED
      BY <1>1, <3>1, ArcsFacts, RunningFinite
  <2> DEFINE x == Arcs(m, g)
             y == Cardinality(Running(m, g))
             z == IF f = g THEN 1 ELSE 0
  <2>5. /\ Arcs(r, g) = x /\ Cardinality(Running(r, g)) = y + z /\ CallsOf(r, g) = (x + y) + z
        /\ x \in Nat /\ y \in Nat /\ z \in Nat
    BY <1>7, <2>1, <2>2, <2>3, <2>4
  <2> HIDE DEF x, y, z
  <2> QED
    BY <2>5
<1> QED
  BY <1>4, <1>8 DEF Balanced


(* It leaves the unknown functions where they are. *)
LEMMA EnterUnknown ==
  ASSUME NEW m, ContextInv(m), UnknownOnce(m), NEW r, NEW slot \in Slots,
         NEW fn \in Funcs, NEW site \in Nat, NEW time \in Nat,
         EnterEffect(m, r, slot, fn, site, time),
         NEW c, NEW f \in Seq(Frame), Inherits(m, f, c),
         NEW e \in Frame, e.by = c
  PROVE  UnknownOnce(r) /\ Inherits(r, Append(f, e), c)
<1> DEFINE n == Len(m.stack)
           known == Opened(m, fn, slot)
           g == Append(f, e)
<1>1. CallPushed(m, r, slot, fn, site, time)
  BY EnterSymbols
<1>2. n \in Nat /\ m.table \in [Slots -> Entry] /\ Len(f) \in Nat
  BY DEF ContextInv, IsContext
<1>3. /\ Len(r.stack) = n + 1 /\ SymbolAt(r, n + 1) = fn
      /\ \A k \in 1 .. n : r.stack[k] = m.stack[k] /\ SymbolAt(r, k) = SymbolAt(m, k)
      /\ \A k \in 1 .. n : r.table[m.stack[k].function].faked = m.table[m.stack[k].function].faked
  BY <1>1 DEF CallPushed
<1>4. \A s \in Slots :
        /\ r.table[s].symbol = known[s].symbol
        /\ r.table[s].calls = known[s].calls + (IF s = slot THEN 1 ELSE 0)
        /\ r.table[s].recursive_state = known[s].recursive_state + (IF s = slot THEN 1 ELSE 0)
  BY DEF EnterEffect
<1>5. known[slot].symbol = fn
  BY <1>2 DEF EnterEffect, Opened, GivenSlot, NewFunction
<1>6. \A s \in Slots : s # slot => known[s] = m.table[s]
  BY <1>2 DEF Opened
<1>7. \A s \in Slots : m.table[s] \in Entry
  BY <1>2
<1>8. \A s \in Slots : m.table[s].calls \in Nat /\ m.table[s].recursive_state \in Nat
  BY <1>7 DEF Entry
<1> HIDE DEF n, known
<1>9. ASSUME NEW s \in Slots, r.table[s].symbol \notin Funcs
      PROVE  r.table[s].calls = r.table[s].recursive_state /\ r.table[s].recursive_state <= 1
  <2>1. s # slot
    BY <1>4, <1>5, <1>9
  <2>2. /\ r.table[s].symbol = m.table[s].symbol /\ r.table[s].calls = m.table[s].calls
        /\ r.table[s].recursive_state = m.table[s].recursive_state
    BY <1>4, <1>6, <1>8, <2>1
  <2> QED
    BY <1>9, <2>2 DEF UnknownOnce
<1>10. ASSUME NEW j \in 1 .. Len(r.stack), NEW k \in 1 .. Len(r.stack), j < k, SymbolAt(r, k) \notin Funcs
       PROVE  SymbolAt(r, j) \notin Funcs
  <2>1. k \in 1 .. n /\ j \in 1 .. n
    BY <1>2, <1>3, <1>10
  <2>2. SymbolAt(m, k) \notin Funcs
    BY <1>3, <1>10, <2>1
  <2>3. SymbolAt(m, j) \notin Funcs
    BY <1>10, <2>1, <2>2 DEF UnknownOnce, n
  <2> QED
    BY <1>3, <2>1, <2>3
<1>11. UnknownOnce(r)
  BY <1>9, <1>10 DEF UnknownOnce
<1>12. Len(g) = Len(f) + 1 /\ g[Len(f) + 1] = e /\ \A k \in 1 .. Len(f) : g[k] = f[k]
  OBVIOUS
<1> HIDE DEF g
<1>13. ASSUME NEW k \in 1 .. Len(g), g[k].by # c
       PROVE  LET i == Len(r.stack) - Len(g) + k IN
              i >= 1 /\ SymbolAt(r, i) \notin Funcs /\ r.table[r.stack[i].function].faked
  <2>1. k \in 1 .. Len(f) /\ g[k] = f[k]
    BY <1>2, <1>12, <1>13
  <2> DEFINE i == n - Len(f) + k
  <2>2. i >= 1 /\ SymbolAt(m, i) \notin Funcs /\ m.table[m.stack[i].function].faked
    BY <1>13, <2>1 DEF Inherits, n
  <2>3. Len(r.stack) - Len(g) + k = i /\ i \in 1 .. n
    BY <1>2, <1>3, <1>12, <2>1, <2>2
  <2>4. SymbolAt(r, i) \notin Funcs /\ r.table[r.stack[i].function].faked
    BY <1>3, <2>2, <2>3
  <2> QED
    BY <2>2, <2>3, <2>4
<1>14. Inherits(r, g, c)
  BY <1>13 DEF Inherits
<1> QED
  BY <1>11, <1>14 DEF g


(* r has left the function fn, on top of the stack of m under that name,   *)
(* and has an arc to it from the call site.                                *)
CallPopped(m, r, fn, from) ==
  /\ m.stack # <<>> /\ SymbolAt(m, Len(m.stack)) = fn /\ r.stack = Pop(m.stack)
  /\ r.table \in [Slots -> Entry] /\ Namesakes(m, r)
  /\ \A s \in Slots : r.table[s].calls = m.table[s].calls
  /\ r.graph = GraphAdd(m.graph, from, fn)

(* The functions below are the same. *)
LEMMA PoppedSymbols ==
  ASSUME NEW m, m.stack \in Seq(Call), NEW r, NEW fn, NEW from, CallPopped(m, r, fn, from)
  PROVE  /\ Len(m.stack) \in Nat /\ Len(m.stack) >= 1 /\ Len(r.stack) = Len(m.stack) - 1
         /\ \A k \in 1 .. Len(m.stack) - 1 :
              /\ r.stack[k] = m.stack[k] /\ SymbolAt(r, k) = SymbolAt(m, k)
              /\ r.table[r.stack[k].function].faked = m.table[m.stack[k].function].faked
<1>1. m.stack # <<>> /\ r.stack = Pop(m.stack) /\ Namesakes(m, r)
  BY DEF CallPopped
<1>2. Len(m.stack) \in Nat /\ Len(m.stack) >= 1
  BY <1>1
<1>3. Len(Pop(m.stack)) = Len(m.stack) - 1 /\ \A k \in 1 .. Len(m.stack) - 1 : Pop(m.stack)[k] = m.stack[k]
  BY <1>1, PopPlaces
<1>4. ASSUME NEW k \in 1 .. Len(m.stack) - 1
      PROVE  /\ r.stack[k] = m.stack[k] /\ SymbolAt(r, k) = SymbolAt(m, k)
             /\ r.table[r.stack[k].function].faked = m.table[m.stack[k].function].faked
  <2>1. k \in 1 .. Len(m.stack)
    BY <1>2
  <2>2. m.stack[k] \in Call
    BY <2>1
  <2>3. m.stack[k].function \in Slots
    BY <2>2 DEF Call
  <2>4. r.stack[k] = m.stack[k]
    BY <1>1, <1>3
  <2> QED
    BY <1>1, <2>3, <2>4 DEF Namesakes, SymbolAt
<1> QED
  BY <1>1, <1>2, <1>3, <1>4

(* An exit makes an arc of a call of the stack. *)
LEMMA PopBalance ==
  ASSUME NEW m, m.stack \in Seq(Call), m.table \in [Slots -> Entry], Balanced(m), IsGraph(m.graph),
         NEW r, NEW fn, NEW from, CallPopped(m, r, fn, from), fn \in Funcs => from # NULL
  PROVE  Balanced(r) /\ IsGraph(r.graph)
<1> DEFINE n == Len(m.stack)
<1>1. /\ n \in Nat /\ n >= 1 /\ Len(r.stack) = n - 1
      /\ \A k \in 1 .. n - 1 : r.stack[k] = m.stack[k] /\ SymbolAt(r, k) = SymbolAt(m, k)
  BY PoppedSymbols
<1>2. /\ r.graph = GraphAdd(m.graph, from, fn) /\ SymbolAt(m, n) = fn /\ m.stack # <<>>
      /\ Namesakes(m, r) /\ \A s \in Slots : r.table[s].calls = m.table[s].calls
      /\ r.table \in [Slots -> Entry]
  BY DEF CallPopped
<1>3. IsGraph(r.graph)
  BY <1>2, ArcCounted
<1>4. ASSUME NEW k \in 1 .. Len(r.stack), SymbolAt(r, k) \in Funcs PROVE r.stack[k].call_site # NULL
  <2>1. k \in 1 .. n - 1 /\ k \in 1 .. n
    BY <1>1, <1>4
  <2>2. SymbolAt(m, k) \in Funcs /\ r.stack[k] = m.stack[k]
    BY <1>1, <1>4, <2>1
  <2> QED
    BY <2>1, <2>2 DEF Balanced
<1>5. ASSUME NEW g \in Funcs PROVE Arcs(r, g) + Cardinality(Running(r, g)) = CallsOf(r, g)
  <2>1. Arcs(r, g) = Arcs(m, g) + (IF g = fn THEN 1 ELSE 0)
    <3>1. /\ Arcs(r, g) = SumFunctionOnSet(r.graph, ArcsTo(r.graph, g))
          /\ Arcs(m, g) = SumFunctionOnSet(m.graph, ArcsTo(m.graph, g))
      BY DEF Arcs, ArcsTo
    <3>2. SumFunctionOnSet(r.graph, ArcsTo(r.graph, g)) =
            SumFunctionOnSet(m.graph, ArcsTo(m.graph, g)) + (IF g = fn /\ from # NULL THEN 1 ELSE 0)
      BY <1>2, ArcCounted
    <3> QED
      BY <1>5, <3>1, <3>2
  <2>2. Cardinality(Running(m, g)) = Cardinality(Running(r, g)) + (IF g = fn THEN 1 ELSE 0)
    <3>1. \A k \in 1 .. Len(m.stack) - 1 : SymbolAt(r, k) = g <=> SymbolAt(m, k) = g
      BY <1>1
    <3>2. Cardinality(Running(m, g)) =
            Cardinality(Running(r, g)) + (IF SymbolAt(m, Len(m.stack)) = g THEN 1 ELSE 0)
      BY <1>1, <1>2, <3>1, RunningPop
    <3> QED
      BY <1>2, <3>2
  <2>3. CallsOf(r, g) = CallsOf(m, g)
    <3>1. \A s \in Slots : r.table[s].symbol = g <=> m.table[s].symbol = g
      BY <1>2 DEF Namesakes
    <3>2. \A s \in Slots : r.table[s].symbol = g => r.table[s].calls = m.table[s].calls
      BY <1>2
    <3> QED
      BY <1>2, <3>1, <3>2, CallsKept
  <2>4. Arcs(m, g) + Cardinality(Running(m, g)) = CallsOf(m, g)
    BY DEF Balanced
  <2>5. Arcs(m, g) \in Nat /\ Cardinality(Running(r, g)) \in Nat
    <3>1. Arcs(m, g) = SumFunctionOnSet(m.graph, ArcsTo(m.graph, g))
      BY DEF Arcs, ArcsTo
    <3>2. r.stack \in Seq(Call)
      BY PopPlaces DEF CallPopped
    <3> QED
      BY <3>1, <3>2, ArcsFacts, RunningFinite
  <2> DEFINE x == Arcs(m, g)
             y == Cardinality(Running(r, g))
             z == IF g = fn THEN 1 ELSE 0
  <2>6. /\ Arcs(r, g) = x + z /\ CallsOf(r, g) = x + (y + z)
        /\ x \in Nat /\ y \in Nat /\ z \in Nat
    BY <2>1, <2>2, <2>3, <2>4, <2>5
  <2>7. Cardinality(Running(r, g)) = y
    OBVIOUS
  <2> HIDE DEF x, y, z
  <2> QED
    BY <2>6, <2>7
<1> QED
  BY <1>3, <1>4, <1>5 DEF Balanced

(* The top frame is left. *)
LEMMA FrontFrames ==
  ASSUME NEW f \in Seq(Frame), f # <<>>
  PROVE  LET g == SubSeq(f, 1, Len(f) - 1) IN
         Len(f) \in Nat /\ Len(g) = Len(f) - 1 /\ \A k \in 1 .. Len(f) - 1 : g[k] = f[k]
<1> DEFINE n == Len(f)
           g == SubSeq(f, 1, n - 1)
<1>1. n \in Nat /\ n >= 1
  OBVIOUS
<1>2. 1 \in Int /\ n - 1 \in Int /\ \A k \in 1 .. n - 1 : f[k] \in Frame
  BY <1>1
<1> HIDE DEF n
<1>3. Len(g) = (IF 1 <= n - 1 THEN (n - 1) - 1 + 1 ELSE 0)
      /\ \A k \in 1 .. (n - 1) - 1 + 1 : g[k] = f[1 + k - 1]
  BY <1>2, SubSeqProperties
<1>4. Len(g) = n - 1 /\ \A k \in 1 .. n - 1 : g[k] = f[k]
  BY <1>1, <1>3
<1> QED
  BY <1>1, <1>4 DEF n

(* An exit of a function that c has entered leaves the unknown ones. *)
LEMMA PopUnknown ==
  ASSUME NEW m, ContextInv(m), UnknownOnce(m), NEW r, NEW fn \in Funcs, NEW from,
         CallPopped(m, r, fn, from),
         \A s \in Slots : s # Leaving(m) => r.table[s].recursive_state = m.table[s].recursive_state,
         NEW c, NEW f \in Seq(Frame), f # <<>>, Inherits(m, f, c)
  PROVE  UnknownOnce(r) /\ Inherits(r, SubSeq(f, 1, Len(f) - 1), c)
<1> DEFINE n == Len(m.stack)
           g == SubSeq(f, 1, Len(f) - 1)
<1>1. /\ n \in Nat /\ n >= 1 /\ Len(r.stack) = n - 1 /\ m.stack \in Seq(Call)
      /\ \A k \in 1 .. n - 1 : r.stack[k] = m.stack[k] /\ SymbolAt(r, k) = SymbolAt(m, k)
      /\ \A k \in 1 .. n - 1 : r.table[r.stack[k].function].faked = m.table[m.stack[k].function].faked
  BY PoppedSymbols DEF ContextInv, IsContext
<1>2. m.table[Leaving(m)].symbol = fn
  BY DEF CallPopped, Leaving, Top, SymbolAt
<1>3. /\ \A s \in Slots : r.table[s].calls = m.table[s].calls
      /\ Namesakes(m, r)
  BY DEF CallPopped
<1>4. ASSUME NEW s \in Slots, r.table[s].symbol \notin Funcs
      PROVE  r.table[s].calls = r.table[s].recursive_state /\ r.table[s].recursive_state <= 1
  <2>1. m.table[s].symbol \notin Funcs
    BY <1>3, <1>4 DEF Namesakes
  <2>2. s # Leaving(m)
    BY <1>2, <2>1
  <2>3. r.table[s].recursive_state = m.table[s].recursive_state
    BY <2>2
  <2> QED
    BY <1>3, <2>1, <2>3 DEF UnknownOnce
<1>5. ASSUME NEW j \in 1 .. Len(r.stack), NEW k \in 1 .. Len(r.stack), j < k, SymbolAt(r, k) \notin Funcs
      PROVE  SymbolAt(r, j) \notin Funcs
  <2>1. j \in 1 .. n - 1 /\ k \in 1 .. n - 1 /\ j \in 1 .. n /\ k \in 1 .. n
    BY <1>1
  <2>2. SymbolAt(m, k) \notin Funcs
    BY <1>1, <1>5, <2>1
  <2>3. SymbolAt(m, j) \notin Funcs
    BY <1>5, <2>1, <2>2 DEF UnknownOnce
  <2> QED
    BY <1>1, <2>1, <2>3
<1>6. UnknownOnce(r)
  BY <1>4, <1>5 DEF UnknownOnce
<1>7. Len(f) \in Nat /\ Len(g) = Len(f) - 1 /\ \A k \in 1 .. Len(f) - 1 : g[k] = f[k]
  BY FrontFrames
<1> HIDE DEF g, n
<1>8. ASSUME NEW k \in 1 .. Len(g), g[k].by # c
      PROVE  LET i == Len(r.stack) - Len(g) + k IN
             i >= 1 /\ SymbolAt(r, i) \notin Funcs /\ r.table[r.stack[i].function].faked
  <2>1. k \in 1 .. Len(f) /\ k <= Len(f) - 1 /\ g[k] = f[k]
    BY <1>7, <1>8
  <2> DEFINE i == n - Len(f) + k
  <2>2. i >= 1 /\ SymbolAt(m, i) \notin Funcs /\ m.table[m.stack[i].function].faked
    BY <1>8, <2>1 DEF Inherits, n
  <2>3. Len(r.stack) - Len(g) + k = i /\ i \in 1 .. n - 1
    BY <1>1, <1>7, <2>1, <2>2
  <2>4. SymbolAt(r, i) \notin Funcs /\ r.table[r.stack[i].function].faked
    BY <1>1, <2>2, <2>3
  <2> QED
    BY <2>2, <2>3, <2>4
<1>9. Inherits(r, g, c)
  BY <1>8 DEF Inherits
<1> QED
  BY <1>6, <1>9 DEF g


(* r has left the unknown function on top of the stack of m, which has the *)
(* name fn now, as the one below has that of the place it calls from.      *)
UnknownPopped(m, r, fn, site) ==
  /\ m.stack # <<>> /\ SymbolAt(m, Len(m.stack)) \notin Funcs
  /\ r.stack = Pop(m.stack) /\ r.table \in [Slots -> Entry]
  /\ \A s \in Slots : r.table[s].calls = m.table[s].calls
  /\ \A s \in Slots : s # Leaving(m) =>
       /\ r.table[s].recursive_state = m.table[s].recursive_state
       /\ r.table[s].faked = m.table[s].faked
       /\ r.table[s].symbol = m.table[s].symbol
          \/ (Renames(m) /\ s = Under(m) /\ r.table[s].symbol = site)
  /\ ~Renames(m) \/ Under(m) # Leaving(m) => r.table[Leaving(m)].symbol = fn
  /\ r.graph = GraphAdd(m.graph, site, fn)

(* what it leaves and gives: t is the entry that gets the name *)
UnknownEffect(m, r, t, fn) ==
  /\ Len(m.stack) \in Nat /\ Len(m.stack) >= 1 /\ Len(r.stack) = Len(m.stack) - 1 /\ t \in Slots
  /\ m.table[t].symbol \notin Funcs /\ m.table[t].calls = 1
  /\ r.table[t].symbol = fn /\ r.table[t].calls = 1
  /\ \A s \in Slots : s # t =>
       /\ \A g \in Funcs : r.table[s].symbol = g <=> m.table[s].symbol = g
       /\ r.table[s].calls = m.table[s].calls /\ r.table[s].faked = m.table[s].faked
       /\ r.table[s].recursive_state = m.table[s].recursive_state
  /\ \A k \in 1 .. Len(m.stack) - 1 :
       /\ r.stack[k] = m.stack[k] /\ m.stack[k].function \in Slots /\ m.stack[k].function # t
       /\ \A g \in Funcs : SymbolAt(r, k) = g <=> SymbolAt(m, k) = g
       /\ r.table[r.stack[k].function].faked = m.table[m.stack[k].function].faked

(* An unknown function is on the stack once, so that its name is new to    *)
(* the table, and the name of the place below is that of no function.      *)
LEMMA UnknownNamed ==
  ASSUME Funcs \cap Sites = {}, NEW m, ReadingInv(m), UnknownOnce(m), NEW r, NEW fn,
         NEW site \in Sites, UnknownPopped(m, r, fn, site)
  PROVE  UnknownEffect(m, r, Leaving(m), fn)
<1> DEFINE n == Len(m.stack)
           t == Leaving(m)
<1>1. /\ m.stack \in Seq(Call) /\ m.table \in [Slots -> Entry] /\ m.stack # <<>>
      /\ \A s \in Slots : Counted(m, s)
  BY DEF ReadingInv, ContextInv, IsContext, UnknownPopped
<1>2. n \in Nat /\ n >= 1 /\ n \in 1 .. n
  BY <1>1
<1>3. \A k \in 1 .. n : m.stack[k] \in Call /\ m.stack[k].function \in Slots
  <2>1. \A k \in 1 .. n : m.stack[k] \in Call
    BY <1>1
  <2> QED
    BY <2>1 DEF Call
<1>4. t = m.stack[n].function /\ t \in Slots
  BY <1>2, <1>3 DEF Leaving, Top
<1>5. m.table[t].symbol \notin Funcs
  BY <1>4 DEF UnknownPopped, SymbolAt
<1>6. m.table[t].calls = 1 /\ Cardinality(Places(m.stack, t)) = 1
  <2>1. /\ m.table[t].calls = m.table[t].recursive_state /\ m.table[t].recursive_state <= 1
        /\ m.table[t].recursive_state = Cardinality(Places(m.stack, t))
    BY <1>1, <1>4, <1>5 DEF UnknownOnce, Counted
  <2>2. Cardinality(Places(m.stack, t)) > 0 /\ Cardinality(Places(m.stack, t)) \in Nat
    BY <1>1, <1>2, <1>4, OnStackCounted, PlacesFinite
  <2> HIDE DEF t
  <2>3. \A x \in Nat : x > 0 /\ x <= 1 => x = 1
    OBVIOUS
  <2> QED
    BY <2>1, <2>2, <2>3
<1>7. \A k \in 1 .. n - 1 : m.stack[k].function # t
  <2> SUFFICES ASSUME NEW k \in 1 .. n - 1, m.stack[k].function = t PROVE FALSE
    OBVIOUS
  <2>1. k \in 1 .. n /\ k # n
    BY <1>2
  <2>2. k \in Places(m.stack, t) /\ n \in Places(m.stack, t) /\ IsFiniteSet(Places(m.stack, t))
    BY <1>1, <1>2, <1>4, <2>1, PlacesFinite DEF Places
  <2> HIDE DEF t, n
  <2>3. Places(m.stack, t) \in SUBSET Places(m.stack, t)
    OBVIOUS
  <2>4. IsFiniteSet({k, n}) /\ Cardinality({k, n}) = 2
    <3>1. {k, n} = {k} \cup {n} /\ n \notin {k}
      BY <2>1
    <3>2. IsFiniteSet({k}) /\ Cardinality({k}) = 1
      BY FS_Singleton
    <3>3. IsFiniteSet({k} \cup {n}) /\ Cardinality({k} \cup {n}) = Cardinality({k}) + 1
      BY ONLY <3>1, <3>2, FS_AddElement
    <3> QED
      BY ONLY <3>1, <3>2, <3>3, SMT
  <2>5. {k, n} \in SUBSET Places(m.stack, t)
    BY <2>2
  <2>6. Cardinality({k, n}) <= Cardinality(Places(m.stack, t))
    BY <2>2, <2>5, FS_Subset
  <2> QED
    BY <1>6, <2>4, <2>6
<1>8. Renames(m) => /\ n > 1 /\ Under(m) = m.stack[n - 1].function /\ Under(m) # t
                    /\ m.table[Under(m)].symbol \notin Funcs
  <2> SUFFICES ASSUME Renames(m)
               PROVE  /\ n > 1 /\ Under(m) = m.stack[n - 1].function /\ Under(m) # t
                      /\ m.table[Under(m)].symbol \notin Funcs
    OBVIOUS
  <2>1. n > 1 /\ Under(m) = m.stack[n - 1].function
    BY DEF Renames, Under, Below
  <2>2. n - 1 \in 1 .. n - 1 /\ n - 1 \in 1 .. n /\ n - 1 < n
    BY <1>2, <2>1
  <2>3. SymbolAt(m, n) \notin Funcs
    BY DEF UnknownPopped
  <2>4. SymbolAt(m, n - 1) \notin Funcs
    BY <1>2, <2>2, <2>3 DEF UnknownOnce
  <2> QED
    BY <1>7, <2>1, <2>2, <2>4 DEF SymbolAt
<1>9. r.table[t].symbol = fn /\ \A s \in Slots : r.table[s].calls = m.table[s].calls
  BY <1>8 DEF UnknownPopped
<1>10. ASSUME NEW s \in Slots, s # t
       PROVE  /\ \A g \in Funcs : r.table[s].symbol = g <=> m.table[s].symbol = g
              /\ r.table[s].calls = m.table[s].calls /\ r.table[s].faked = m.table[s].faked
              /\ r.table[s].recursive_state = m.table[s].recursive_state
  <2>1. /\ r.table[s].recursive_state = m.table[s].recursive_state
        /\ r.table[s].faked = m.table[s].faked
        /\ r.table[s].symbol = m.table[s].symbol
           \/ (Renames(m) /\ s = Under(m) /\ r.table[s].symbol = site)
    BY <1>10 DEF UnknownPopped
  <2>2. site \notin Funcs
    OBVIOUS
  <2> QED
    BY <1>8, <1>9, <2>1, <2>2
<1>11. Len(r.stack) = n - 1 /\ \A k \in 1 .. n - 1 : r.stack[k] = m.stack[k]
  <2>1. r.stack = Pop(m.stack)
    BY DEF UnknownPopped
  <2> QED
    BY <1>1, <2>1, PopPlaces
<1> HIDE DEF t
<1>12. ASSUME NEW k \in 1 .. n - 1
       PROVE  /\ r.stack[k] = m.stack[k] /\ m.stack[k].function \in Slots /\ m.stack[k].function # t
              /\ \A g \in Funcs : SymbolAt(r, k) = g <=> SymbolAt(m, k) = g
              /\ r.table[r.stack[k].function].faked = m.table[m.stack[k].function].faked
  <2>1. k \in 1 .. n
    BY <1>2
  <2>2. r.stack[k] = m.stack[k] /\ m.stack[k].function \in Slots /\ m.stack[k].function # t
    BY <1>3, <1>7, <1>11, <2>1
  <2> QED
    BY <1>10, <2>2 DEF SymbolAt
<1>13. UnknownEffect(m, r, t, fn)
  BY <1>2, <1>4, <1>5, <1>6, <1>9, <1>10, <1>11, <1>12 DEF UnknownEffect
<1> QED
  BY <1>13 DEF t


(* The arc from there stands for the call that is counted with the name. *)
LEMMA UnknownBalance ==
  ASSUME NEW m, m.stack \in Seq(Call), m.table \in [Slots -> Entry], Balanced(m), IsGraph(m.graph),
         NEW r, NEW fn, NEW site \in Sites, UnknownPopped(m, r, fn, site),
         NEW t, UnknownEffect(m, r, t, fn)
  PROVE  Balanced(r) /\ IsGraph(r.graph)
<1> DEFINE n == Len(m.stack)
<1>1. /\ n \in Nat /\ n >= 1 /\ Len(r.stack) = n - 1 /\ t \in Slots
      /\ m.table[t].symbol \notin Funcs /\ m.table[t].calls = 1
      /\ r.table[t].symbol = fn /\ r.table[t].calls = 1
      /\ \A s \in Slots : s # t =>
           /\ \A g \in Funcs : r.table[s].symbol = g <=> m.table[s].symbol = g
           /\ r.table[s].calls = m.table[s].calls
      /\ \A k \in 1 .. n - 1 : r.stack[k] = m.stack[k]
      /\ \A k \in 1 .. n - 1 : \A g \in Funcs : SymbolAt(r, k) = g <=> SymbolAt(m, k) = g
  BY DEF UnknownEffect
<1>2. /\ r.graph = GraphAdd(m.graph, site, fn) /\ SymbolAt(m, n) \notin Funcs
      /\ r.table \in [Slots -> Entry] /\ m.stack # <<>> /\ r.stack = Pop(m.stack)
      /\ site # NULL
  BY ProfileAssumption DEF UnknownPopped
<1>3. IsGraph(r.graph)
  BY <1>2, ArcCounted
<1>4. ASSUME NEW k \in 1 .. Len(r.stack), SymbolAt(r, k) \in Funcs PROVE r.stack[k].call_site # NULL
  <2>1. k \in 1 .. n - 1 /\ k \in 1 .. n
    BY <1>1
  <2>2. SymbolAt(m, k) \in Funcs /\ r.stack[k] = m.stack[k]
    BY <1>1, <1>4, <2>1
  <2> QED
    BY <2>1, <2>2 DEF Balanced
<1>5. ASSUME NEW g \in Funcs PROVE Arcs(r, g) + Cardinality(Running(r, g)) = CallsOf(r, g)
  <2>1. Arcs(r, g) = Arcs(m, g) + (IF g = fn THEN 1 ELSE 0)
    <3>1. /\ Arcs(r, g) = SumFunctionOnSet(r.graph, ArcsTo(r.graph, g))
          /\ Arcs(m, g) = SumFunctionOnSet(m.graph, ArcsTo(m.graph, g))
      BY DEF Arcs, ArcsTo
    <3>2. SumFunctionOnSet(r.graph, ArcsTo(r.graph, g)) =
            SumFunctionOnSet(m.graph, ArcsTo(m.graph, g)) + (IF g = fn /\ site # NULL THEN 1 ELSE 0)
      BY <1>2, ArcCounted
    <3> QED
      BY <1>2, <3>1, <3>2
  <2>2. Cardinality(Running(r, g)) = Cardinality(Running(m, g))
    <3>1. \A k \in 1 .. Len(m.stack) - 1 : SymbolAt(r, k) = g <=> SymbolAt(m, k) = g
      BY <1>1
    <3>2. Len(r.stack) = Len(m.stack) - 1
      BY <1>1
    <3>3. Cardinality(Running(m, g)) =
            Cardinality(Running(r, g)) + (IF SymbolAt(m, Len(m.stack)) = g THEN 1 ELSE 0)
      BY <1>2, <3>1, <3>2, RunningPop
    <3>4. Cardinality(Running(r, g)) \in Nat
      BY <1>2, PopPlaces, RunningFinite
    <3> QED
      BY <1>2, <3>3, <3>4
  <2>3. CallsOf(m, g) \in Nat
    BY OfFacts
  <2>4. CallsOf(r, g) = CallsOf(m, g) + (IF g = fn THEN 1 ELSE 0)
    <3>1. CASE g = fn
      <4>1. CalledOnce(m, r, t, g)
        BY <1>1, <3>1 DEF CalledOnce
      <4>2. m.table \in [Slots -> Entry] /\ r.table \in [Slots -> Entry] /\ t \in Slots
        BY <1>1, <1>2
      <4>3. CallsOf(r, g) = CallsOf(m, g) + 1
        BY ONLY <4>1, <4>2, CallsOfNew
      <4> QED
        BY <3>1, <4>3
    <3>2. CASE g # fn
      <4>1. \A s \in Slots : r.table[s].symbol = g <=> m.table[s].symbol = g
        BY <1>1, <3>2
      <4>2. \A s \in Slots : r.table[s].symbol = g => r.table[s].calls = m.table[s].calls
        BY <1>1
      <4>3. m.table \in [Slots -> Entry] /\ r.table \in [Slots -> Entry]
        BY <1>2
      <4>4. CallsOf(r, g) = CallsOf(m, g)
        BY ONLY <4>1, <4>2, <4>3, CallsKept
      <4> QED
        BY <2>3, <3>2, <4>4
    <3> QED
      BY <3>1, <3>2
  <2>5. Arcs(m, g) + Cardinality(Running(m, g)) = CallsOf(m, g)
    BY DEF Balanced
  <2>6. Arcs(m, g) \in Nat /\ Cardinality(Running(m, g)) \in Nat
    <3>1. Arcs(m, g) = SumFunctionOnSet(m.graph, ArcsTo(m.graph, g))
      BY DEF Arcs, ArcsTo
    <3> QED
      BY <3>1, ArcsFacts, RunningFinite
  <2> DEFINE x == Arcs(m, g)
             y == Cardinality(Running(m, g))
             z == IF g = fn THEN 1 ELSE 0
  <2>7. /\ Arcs(r, g) = x + z /\ CallsOf(r, g) = (x + y) + z /\ Cardinality(Running(r, g)) = y
        /\ x \in Nat /\ y \in Nat /\ z \in Nat
    BY <2>1, <2>2, <2>4, <2>5, <2>6
  <2> HIDE DEF x, y, z
  <2> QED
    BY <2>7
<1> QED
  BY <1>3, <1>4, <1>5 DEF Balanced

(* The other unknown functions stay so. *)
LEMMA UnknownStay ==
  ASSUME NEW m, UnknownOnce(m), NEW r, NEW fn \in Funcs, NEW t, UnknownEffect(m, r, t, fn),
         NEW c, NEW f \in Seq(Frame), f # <<>>, Inherits(m, f, c)
  PROVE  UnknownOnce(r) /\ Inherits(r, SubSeq(f, 1, Len(f) - 1), c)
<1> DEFINE n == Len(m.stack)
           g == SubSeq(f, 1, Len(f) - 1)
<1>1. /\ n \in Nat /\ n >= 1 /\ Len(r.stack) = n - 1 /\ r.table[t].symbol = fn
      /\ \A s \in Slots : s # t =>
           /\ \A h \in Funcs : r.table[s].symbol = h <=> m.table[s].symbol = h
           /\ r.table[s].calls = m.table[s].calls
           /\ r.table[s].recursive_state = m.table[s].recursive_state
      /\ \A k \in 1 .. n - 1 : \A h \in Funcs : SymbolAt(r, k) = h <=> SymbolAt(m, k) = h
      /\ \A k \in 1 .. n - 1 : r.table[r.stack[k].function].faked = m.table[m.stack[k].function].faked
  BY DEF UnknownEffect
<1>2. \A k \in 1 .. n - 1 : SymbolAt(r, k) \notin Funcs <=> SymbolAt(m, k) \notin Funcs
  BY <1>1
<1>3. ASSUME NEW s \in Slots, r.table[s].symbol \notin Funcs
      PROVE  r.table[s].calls = r.table[s].recursive_state /\ r.table[s].recursive_state <= 1
  <2>1. s # t
    BY <1>1, <1>3
  <2>2. m.table[s].symbol \notin Funcs
    BY <1>1, <1>3, <2>1
  <2> QED
    BY <1>1, <2>1, <2>2 DEF UnknownOnce
<1>4. ASSUME NEW j \in 1 .. Len(r.stack), NEW k \in 1 .. Len(r.stack), j < k, SymbolAt(r, k) \notin Funcs
      PROVE  SymbolAt(r, j) \notin Funcs
  <2>1. j \in 1 .. n - 1 /\ k \in 1 .. n - 1 /\ j \in 1 .. n /\ k \in 1 .. n
    BY <1>1
  <2>2. SymbolAt(m, k) \notin Funcs
    BY <1>2, <1>4, <2>1
  <2>3. SymbolAt(m, j) \notin Funcs
    BY <1>4, <2>1, <2>2 DEF UnknownOnce
  <2> QED
    BY <1>2, <2>1, <2>3
<1>5. UnknownOnce(r)
  BY <1>3, <1>4 DEF UnknownOnce
<1>6. Len(f) \in Nat /\ Len(g) = Len(f) - 1 /\ \A k \in 1 .. Len(f) - 1 : g[k] = f[k]
  BY FrontFrames
<1> HIDE DEF g, n
<1>7. ASSUME NEW k \in 1 .. Len(g), g[k].by # c
      PROVE  LET i == Len(r.stack) - Len(g) + k IN
             i >= 1 /\ SymbolAt(r, i) \notin Funcs /\ r.table[r.stack[i].function].faked
  <2>1. k \in 1 .. Len(f) /\ k <= Len(f) - 1 /\ g[k] = f[k]
    BY <1>6, <1>7
  <2> DEFINE i == n - Len(f) + k
  <2>2. i >= 1 /\ SymbolAt(m, i) \notin Funcs /\ m.table[m.stack[i].function].faked
    BY <1>7, <2>1 DEF Inherits, n
  <2>3. Len(r.stack) - Len(g) + k = i /\ i \in 1 .. n - 1
    BY <1>1, <1>6, <2>1, <2>2
  <2>4. SymbolAt(r, i) \notin Funcs /\ r.table[r.stack[i].function].faked
    BY <1>1, <1>2, <2>2, <2>3
  <2> QED
    BY <2>2, <2>3, <2>4
<1>8. Inherits(r, g, c)
  BY <1>7 DEF Inherits
<1> QED
  BY <1>5, <1>8 DEF g

(* An empty context is in order. *)
LEMMA EmptyCalls ==
  ASSUME NEW first \in Nat
  PROVE  LET m == EmptyContext(first) IN
         IsGraph(m.graph) /\ Balanced(m) /\ UnknownOnce(m)
<1> DEFINE m == EmptyContext(first)
<1>1. m.stack = <<>> /\ m.graph = <<>> /\ m.table = [s \in Slots |-> NewFunction(NULL)]
  BY DEF EmptyContext
<1> HIDE DEF m
<1>2. \A s \in Slots : m.table[s].symbol = NULL /\ m.table[s].calls = 0 /\ m.table[s].recursive_state = 0
  BY <1>1 DEF NewFunction
<1>3. IsGraph(m.graph) /\ DOMAIN m.graph = {}
  <2>1. DOMAIN <<>> = {} /\ <<>> \in [{} -> Nat]
    OBVIOUS
  <2> QED
    BY <1>1, <2>1, FS_EmptySet DEF IsGraph
<1>4. ASSUME NEW f \in Funcs PROVE Arcs(m, f) = 0 /\ CallsOf(m, f) = 0 /\ Cardinality(Running(m, f)) = 0
  <2>1. {arc \in DOMAIN m.graph : arc[2] = f} = {}
    BY <1>3
  <2>2. f # NULL
    BY ProfileAssumption
  <2>3. {s \in Slots : m.table[s].symbol = f} = {}
    BY <1>2, <2>2
  <2>4. Running(m, f) = {}
    BY <1>1 DEF Running
  <2>5. \A g : SumFunctionOnSet(g, {}) = 0
    BY SumNothing
  <2> QED
    BY <2>1, <2>3, <2>4, <2>5, FS_EmptySet DEF Arcs, CallsOf
<1>5. Balanced(m)
  BY <1>1, <1>4 DEF Balanced
<1>6. UnknownOnce(m)
  BY <1>1, <1>2 DEF UnknownOnce
<1> QED
  BY <1>3, <1>5, <1>6 DEF m

(* So is that of a forked process: no function has a name. *)
LEMMA ForkedCalls ==
  ASSUME NEW first \in Nat, NEW c, NEW f \in Seq(Frame), Len(f) <= NbFaked
  PROVE  LET m == ForkedContext(first) IN
         IsGraph(m.graph) /\ Balanced(m) /\ UnknownOnce(m) /\ Inherits(m, f, c)
<1> DEFINE m == ForkedContext(first)
           time == first % U32
<1>1. m.stack = [k \in 1 .. NbFaked |-> [function |-> k - 1, time |-> time, call_site |-> NULL]]
      /\ m.table = [s \in Slots |-> IF s < NbFaked THEN FakedFunction(time) ELSE NewFunction(NULL)]
      /\ m.graph = <<>>
  <2> DEFINE e == EmptyContext(first)
             e1 == [e EXCEPT !.stack = [k \in 1 .. NbFaked |->
                                          [function |-> k - 1, time |-> time, call_site |-> NULL]]]
  <2> QED
    BY DEF ForkedContext, EmptyContext
<1>2. NbFaked \in Nat /\ NbFaked < Size /\ Size \in Nat
  BY FunctionsAssumption
<1>3. /\ FakedFunction(time).symbol = NULL /\ FakedFunction(time).faked
      /\ FakedFunction(time).calls = 1 /\ FakedFunction(time).recursive_state = 1
      /\ NewFunction(NULL).symbol = NULL /\ NewFunction(NULL).calls = 0
      /\ NewFunction(NULL).recursive_state = 0
  BY DEF FakedFunction, NewFunction
<1> HIDE DEF m
<1>4. \A s \in Slots : /\ m.table[s].symbol = NULL /\ m.table[s].calls = m.table[s].recursive_state
                       /\ m.table[s].recursive_state <= 1
                       /\ s < NbFaked => m.table[s].faked
  BY <1>1, <1>3
<1>5. Len(m.stack) = NbFaked /\ \A k \in 1 .. NbFaked : m.stack[k].function = k - 1 /\ k - 1 \in Slots
  BY <1>1, <1>2 DEF Slots
<1>6. \A k \in 1 .. NbFaked : SymbolAt(m, k) = NULL /\ m.table[m.stack[k].function].faked
  BY <1>2, <1>4, <1>5 DEF SymbolAt
<1>7. NULL \notin Funcs
  BY ProfileAssumption
<1>8. IsGraph(m.graph) /\ DOMAIN m.graph = {}
  <2>1. DOMAIN <<>> = {} /\ <<>> \in [{} -> Nat]
    OBVIOUS
  <2> QED
    BY <1>1, <2>1, FS_EmptySet DEF IsGraph
<1>9. ASSUME NEW g \in Funcs PROVE Arcs(m, g) = 0 /\ CallsOf(m, g) = 0 /\ Cardinality(Running(m, g)) = 0
  <2>1. {arc \in DOMAIN m.graph : arc[2] = g} = {}
    BY <1>8
  <2>2. {s \in Slots : m.table[s].symbol = g} = {}
    BY <1>4, <1>7
  <2>3. Running(m, g) = {}
    BY <1>5, <1>6, <1>7 DEF Running
  <2>4. \A h : SumFunctionOnSet(h, {}) = 0
    BY SumNothing
  <2> QED
    BY <2>1, <2>2, <2>3, <2>4, FS_EmptySet DEF Arcs, CallsOf
<1>10. Balanced(m)
  BY <1>5, <1>6, <1>7, <1>9 DEF Balanced
<1>11. UnknownOnce(m)
  BY <1>4, <1>5, <1>6, <1>7 DEF UnknownOnce
<1>12. Inherits(m, f, c)
  <2> SUFFICES ASSUME NEW k \in 1 .. Len(f)
               PROVE  LET i == Len(m.stack) - Len(f) + k IN
                      i >= 1 /\ SymbolAt(m, i) \notin Funcs /\ m.table[m.stack[i].function].faked
    BY DEF Inherits
  <2>1. Len(f) \in Nat
    OBVIOUS
  <2>2. Len(m.stack) - Len(f) + k \in 1 .. NbFaked
    BY <1>2, <1>5, <2>1
  <2> QED
    BY <1>6, <1>7, <2>2
<1> QED
  BY <1>8, <1>10, <1>11, <1>12 DEF m


(* Calls, arcs and unknown functions of contexts that have the same ones. *)
LEMMA SameProfileCalls ==
  ASSUME NEW m, NEW r, SameProfile(m, r)
  PROVE  /\ IsGraph(m.graph) => IsGraph(r.graph)
         /\ Balanced(m) => Balanced(r)
         /\ UnknownOnce(m) => UnknownOnce(r)
         /\ \A f, c : Inherits(m, f, c) => Inherits(r, f, c)
<1>1. r.stack = m.stack /\ r.table = m.table /\ r.graph = m.graph
  BY DEF SameProfile
<1>2. \A k : SymbolAt(r, k) = SymbolAt(m, k)
  BY <1>1 DEF SymbolAt
<1>3. \A f : Running(r, f) = Running(m, f) /\ Arcs(r, f) = Arcs(m, f) /\ CallsOf(r, f) = CallsOf(m, f)
  BY <1>1, <1>2 DEF Running, Arcs, CallsOf
<1>4. Balanced(m) => Balanced(r)
  BY <1>1, <1>2, <1>3 DEF Balanced
<1>5. UnknownOnce(m) => UnknownOnce(r)
  BY <1>1, <1>2 DEF UnknownOnce
<1>6. \A f, c : Inherits(m, f, c) => Inherits(r, f, c)
  BY <1>1, <1>2 DEF Inherits
<1> QED
  BY <1>1, <1>4, <1>5, <1>6

(* Only forked processes inherit frames. *)
LEMMA InheritsNow ==
  ASSUME BaseInv, CallsInv, NEW c \in Ids, Regular(c), phase = "read",
         alive[c] = "run" \/ mode # "FORK"
  PROVE  Inherits(ctx[c], frames[c], c)
<1>1. BirthInv /\ CallsHold(c)
  BY DEF BaseInv, CallsInv
<1>2. CASE Known(c)
  BY <1>1, <1>2 DEF CallsHold
<1>3. CASE ~Known(c)
  <2>1. mode # "FORK"
    BY <1>1, <1>3 DEF BirthInv, NotBorn
  <2>2. \A k \in 1 .. Len(frames[c]) : frames[c][k].by = c
    BY <1>1, <2>1 DEF BirthInv, Forked
  <2> QED
    BY <2>2 DEF Inherits
<1> QED
  BY <1>2, <1>3

(* a step that leaves d alone *)
Untouched(d) ==
  /\ ctx'[d] = ctx[d] /\ frames'[d] = frames[d] /\ depth'[d] = depth[d] /\ jumped'[d] = jumped[d]
  /\ Known(d)' => Known(d)
  /\ phase' = "read" => phase = "read"

(* Its calls are counted as before. *)
LEMMA CallsUntouched ==
  ASSUME NEW d \in Ids, CallsHold(d), Untouched(d)
  PROVE  CallsHold(d)'
<1>1. Regular(d)' => Regular(d)
  BY DEF Regular, Untouched
<1>2. /\ IsGraph(ctx'[d].graph)
      /\ Regular(d)' => Balanced(ctx'[d])
  BY <1>1 DEF CallsHold, Untouched
<1>3. Regular(d)' /\ phase' = "read" =>
        UnknownOnce(ctx'[d]) /\ (Known(d)' => Inherits(ctx'[d], frames'[d], d))
  BY <1>1 DEF CallsHold, Untouched
<1> QED
  BY <1>2, <1>3 DEF CallsHold, IsGraph, Balanced, UnknownOnce, Inherits, Arcs, CallsOf, Running, SymbolAt

(* A context is as the invariant says after a step. *)
LEMMA CallsAfter ==
  ASSUME NEW c \in Ids, IsGraph(ctx'[c].graph),
         Regular(c)' => Balanced(ctx'[c]),
         Regular(c)' /\ phase' = "read" =>
           UnknownOnce(ctx'[c]) /\ (Known(c)' => Inherits(ctx'[c], frames'[c], c))
  PROVE  CallsHold(c)'
  BY DEF CallsHold, IsGraph, Balanced, UnknownOnce, Inherits, Arcs, CallsOf, Running, SymbolAt

(* Quiet steps count nothing. *)
LEMMA CallsQuiet ==
  ASSUME BaseInv, BaseInv', CallsInv, Quiet
  PROVE  CallsInv'
<1> SUFFICES ASSUME NEW c \in Ids PROVE CallsHold(c)'
  BY DEF CallsInv
<1>1. BirthInv /\ BirthInv' /\ CallsHold(c)
  BY DEF BaseInv, CallsInv
<1>2. /\ SameProfile(ctx[c], ctx'[c]) /\ (jumped[c] => jumped'[c]) /\ mode' = mode
      /\ phase' = "read" => phase = "read"
      /\ mode = "FORK" /\ Known(c)' => Known(c)
      /\ \/ jumped'[c]
         \/ frames'[c] = frames[c] /\ depth'[c] = depth[c]
         \/ Forked(c) /\ ~Known(c) /\ ~Known(c)'
  BY DEF Quiet
<1>3. IsGraph(ctx[c].graph) /\ IsGraph(ctx'[c].graph)
  BY <1>1, <1>2, SameProfileCalls DEF CallsHold
<1>4. CASE jumped'[c]
  BY <1>3, <1>4, CallsAfter DEF Regular
<1>5. CASE ~jumped'[c] /\ frames'[c] = frames[c] /\ depth'[c] = depth[c]
  <2>1. Regular(c)' => Regular(c)
    BY <1>2, <1>5 DEF Regular
  <2>2. Regular(c)' => Balanced(ctx'[c])
    BY <1>1, <1>2, <2>1, SameProfileCalls DEF CallsHold
  <2>3. ASSUME Regular(c)', phase' = "read" PROVE UnknownOnce(ctx'[c])
    BY <1>1, <1>2, <2>1, <2>3, SameProfileCalls DEF CallsHold
  <2>4. ASSUME Regular(c)', phase' = "read", Known(c)' PROVE Inherits(ctx'[c], frames'[c], c)
    <3>1. Inherits(ctx[c], frames[c], c)
      <4>1. CASE Known(c)
        BY <1>1, <1>2, <2>1, <2>4, <4>1 DEF CallsHold
      <4>2. CASE ~Known(c)
        BY <1>2, <2>1, <2>4, <4>2, InheritsNow
      <4> QED
        BY <4>1, <4>2
    <3> QED
      BY <1>2, <1>5, <3>1, SameProfileCalls
  <2> QED
    BY <1>3, <2>2, <2>3, <2>4, CallsAfter
<1>6. CASE Forked(c) /\ ~Known(c) /\ ~Known(c)'
  <2>1. ctx'[c] = EmptyContext(0)
    BY <1>1, <1>6 DEF BirthInv, NoContext
  <2>2. Balanced(ctx'[c]) /\ UnknownOnce(ctx'[c])
    BY <2>1, EmptyCalls
  <2> QED
    BY <1>3, <1>6, <2>2, CallsAfter
<1> QED
  BY <1>2, <1>4, <1>5, <1>6


(* An enter counts a call. *)
LEMMA CallsEnter ==
  ASSUME BaseInv, CallsInv, NEW c \in Ids, NEW f \in Funcs, NEW s \in Sites, EnterChanges(c, f, s)
  PROVE  CallsInv'
<1> DEFINE e == [fn |-> f, site |-> s, by |-> c]
<1>1. BirthInv /\ ProgramInv /\ ManagerInv /\ \A d \in Ids : CallsHold(d)
  BY DEF BaseInv, ProfileInv, CallsInv
<1>2. /\ UNCHANGED <<depth, jumped>> /\ alive[c] = "run" /\ phase = "read" /\ clock' = clock + 1
      /\ frames'[c] = Append(frames[c], e) /\ \A d \in Ids : d # c => frames'[d] = frames[d]
  BY DEF EnterChanges, Aside, FramesOf
<1>3. CASE phase' = "fatal" /\ UNCHANGED <<ctx, list>>
  <2>1. \A d \in Ids : CallsHold(d)'
    <3> SUFFICES ASSUME NEW d \in Ids PROVE CallsHold(d)'
      OBVIOUS
    <3>1. IsGraph(ctx'[d].graph) /\ (Regular(d)' => Balanced(ctx'[d]))
      BY <1>1, <1>2, <1>3 DEF CallsHold, Regular
    <3> QED
      BY <1>3, <3>1, CallsAfter
  <2> QED
    BY <2>1 DEF CallsInv
<1>4. CASE /\ phase' = "read" /\ Register(c) /\ \A d \in Ids : d # c => ctx'[d] = ctx[d]
           /\ \E slot \in Slots : EnterEffect(ctx[c], ctx'[c], slot, f, s, clock')
  <2>1. PICK slot \in Slots : EnterEffect(ctx[c], ctx'[c], slot, f, s, clock')
    BY <1>4
  <2>2. \A d \in Ids : Known(d)' <=> Known(d) \/ d = c
    BY <1>1, <1>4, KnownFrom DEF ManagerInv
  <2>3. ASSUME NEW d \in Ids, d # c PROVE CallsHold(d)'
    <3>1. Untouched(d)
      BY <1>2, <1>4, <2>2, <2>3 DEF Untouched
    <3> QED
      BY <1>1, <3>1, CallsUntouched
  <2>4. CallsHold(c)'
    <3> DEFINE m == ctx[c]
               r == ctx'[c]
               now == clock'
    <3>1. /\ ContextInv(m) /\ e \in Frame /\ e.by = c /\ frames[c] \in Seq(Frame) /\ now \in Nat
          /\ s \in Nat /\ IsGraph(m.graph) /\ (Regular(c) => Balanced(m) /\ UnknownOnce(m))
      <4>1. ContextInv(m) /\ frames[c] \in Seq(Frame) /\ now \in Nat
        BY <1>1, <1>2 DEF ManagerInv, ProgramInv
      <4>2. e \in Frame /\ e.by = c
        BY DEF Frame
      <4>3. s \in Nat
        BY ProfileAssumption
      <4>4. IsGraph(m.graph) /\ (Regular(c) => Balanced(m) /\ UnknownOnce(m))
        BY <1>1, <1>2 DEF CallsHold
      <4> QED
        BY <4>1, <4>2, <4>3, <4>4
    <3>2. Regular(c)' => Regular(c)
      BY <1>2 DEF Regular
    <3>3. Regular(c) => Inherits(m, frames[c], c)
      BY <1>2, InheritsNow
    <3>4. EnterEffect(m, r, slot, f, s, now) /\ frames'[c] = Append(frames[c], e)
      BY <1>2, <2>1
    <3>5. IsGraph(r.graph)
      BY <3>1, <3>4 DEF EnterEffect
    <3> HIDE DEF m, r, now, e
    <3>6. Regular(c) => Balanced(r)
      BY <3>1, <3>4, EnterBalance
    <3>7. Regular(c) => UnknownOnce(r) /\ Inherits(r, Append(frames[c], e), c)
      BY <3>1, <3>3, <3>4, EnterUnknown
    <3> QED
      BY <3>2, <3>4, <3>5, <3>6, <3>7, CallsAfter DEF r
  <2> QED
    BY <2>3, <2>4 DEF CallsInv
<1> QED
  BY <1>3, <1>4 DEF EnterChanges

(* A forked process starts with unknown functions. *)
LEMMA CallsParent ==
  ASSUME BaseInv, CallsInv, NEW c \in Ids, ParentChanges(c)
  PROVE  CallsInv'
<1>1. BirthInv /\ ProgramInv /\ ManagerInv /\ \A d \in Ids : CallsHold(d)
  BY DEF BaseInv, ProfileInv, CallsInv
<1>2. /\ UNCHANGED <<frames, depth, jumped>> /\ alive[c] = "forked" /\ phase = "read"
      /\ \A d \in Ids : d # c => ctx'[d] = ctx[d]
  BY DEF ParentChanges, history
<1>3. \A d \in Ids : Known(d)' <=> Known(d) \/ d = c
  BY <1>1, KnownFrom DEF ManagerInv, ParentChanges
<1>4. ASSUME NEW d \in Ids, d # c PROVE CallsHold(d)'
  <2>1. Untouched(d)
    BY <1>2, <1>3, <1>4 DEF Untouched
  <2> QED
    BY <1>1, <2>1, CallsUntouched
<1>5. CallsHold(c)'
  <2>1. PICK time \in Nat : SameProfile(ForkedContext(time), ctx'[c])
    BY DEF ParentChanges
  <2>2. /\ frames[c] \in Seq(Frame) /\ Len(frames[c]) = depth[c]
        /\ <<>> \in Seq(Frame) /\ Len(<<>>) <= NbFaked
    BY <1>1, <1>2, FunctionsAssumption DEF BirthInv, ProgramInv
  <2>3. IsGraph(ctx'[c].graph) /\ Balanced(ctx'[c]) /\ UnknownOnce(ctx'[c])
    BY <2>1, <2>2, ForkedCalls, SameProfileCalls
  <2>4. Regular(c)' => Len(frames[c]) <= NbFaked
    BY <1>2, <2>2 DEF Regular
  <2>5. Regular(c)' => Inherits(ForkedContext(time), frames[c], c)
    BY <2>2, <2>4, ForkedCalls
  <2>6. Regular(c)' => Inherits(ctx'[c], frames'[c], c)
    BY <1>2, <2>1, <2>5, SameProfileCalls
  <2> QED
    BY <2>3, <2>6, CallsAfter
<1> QED
  BY <1>4, <1>5 DEF CallsInv

(* The flush makes arcs of the calls that are left. *)
LEMMA CallsFlush ==
  ASSUME BaseInv, CallsInv, NEW c \in Ids, FlushChanges(c)
  PROVE  CallsInv'
<1> DEFINE m0 == ctx[c]
           r == ctx'[c]
           symbol == SymbolAt(m0, Len(m0.stack))
           from == Top(m0.stack).call_site
           last == m0.last_time
<1>1. BirthInv /\ ProgramInv /\ ManagerInv /\ \A d \in Ids : CallsHold(d)
  BY DEF BaseInv, ProfileInv, CallsInv
<1>2. /\ UNCHANGED <<frames, list, depth, jumped>> /\ phase' = "flush" /\ m0.stack # <<>>
      /\ \A d \in Ids : d # c => ctx'[d] = ctx[d]
      /\ symbol = NULL =>
           r.stack = Pop(m0.stack) /\ r.table = m0.table /\ r.graph = m0.graph
      /\ symbol # NULL =>
           \E m : ArcAdded(c, m, from, symbol) /\ ContextInv(m) /\ ExitEffect(m, r, symbol, NULL, last)
  BY DEF FlushChanges, history
<1>3. ASSUME NEW d \in Ids, d # c PROVE CallsHold(d)'
  <2>1. Untouched(d)
    BY <1>2, <1>3 DEF Untouched, Known
  <2> QED
    BY <1>1, <2>1, CallsUntouched
<1>4. /\ m0.stack \in Seq(Call) /\ m0.table \in [Slots -> Entry] /\ IsGraph(m0.graph)
      /\ Regular(c) => Balanced(m0)
  BY <1>1 DEF ManagerInv, ContextInv, IsContext, CallsHold
<1>5. \E site : CallPopped(m0, r, symbol, site) /\ (symbol # NULL => site = from)
  <2>1. CASE symbol = NULL
    <3>1. GraphAdd(m0.graph, NULL, symbol) = m0.graph
      BY DEF GraphAdd
    <3>2. CallPopped(m0, r, symbol, NULL)
      BY <1>2, <1>4, <2>1, <3>1 DEF CallPopped, Namesakes
    <3> QED
      BY <2>1, <3>2
  <2>2. CASE symbol # NULL
    <3>1. PICK m : ArcAdded(c, m, from, symbol) /\ ExitEffect(m, r, symbol, NULL, last)
      BY <1>2, <2>2
    <3>2. m.stack = m0.stack /\ m.table = m0.table /\ m.graph = GraphAdd(m0.graph, from, symbol)
      BY <3>1 DEF ArcAdded
    <3>3. m.table[Leaving(m)].symbol = symbol
      BY <3>2 DEF Leaving, Top, SymbolAt
    <3> HIDE DEF symbol, from, last, m0, r
    <3>4. Namesakes(m, r)
      BY <2>2, <3>1, <3>3, ExitNamesakes
    <3>5. /\ r.stack = Pop(m.stack) /\ r.table \in [Slots -> Entry] /\ r.graph = m.graph
          /\ \A s \in Slots : r.table[s].calls = m.table[s].calls
      BY <3>1 DEF ExitEffect
    <3>6. CallPopped(m0, r, symbol, from)
      <4>1. Namesakes(m0, r)
        BY <3>2, <3>4 DEF Namesakes
      <4>2. SymbolAt(m0, Len(m0.stack)) = symbol
        BY DEF symbol
      <4> QED
        BY <1>2, <3>2, <3>5, <4>1, <4>2 DEF CallPopped
    <3> QED
      BY <3>6
  <2> QED
    BY <2>1, <2>2
<1>6. PICK site : CallPopped(m0, r, symbol, site) /\ (symbol # NULL => site = from)
  BY <1>5
<1>7. IsGraph(r.graph)
  BY <1>4, <1>6, ArcCounted DEF CallPopped
<1>8. ASSUME Regular(c) PROVE Balanced(r)
  <2>1. symbol \in Funcs => site # NULL
    <3> SUFFICES ASSUME symbol \in Funcs PROVE from # NULL
      BY <1>6, ProfileAssumption
    <3>1. Len(m0.stack) \in 1 .. Len(m0.stack)
      BY <1>2, <1>4
    <3> QED
      BY <1>4, <1>8, <3>1 DEF Balanced, Top
  <2> HIDE DEF m0, r, symbol, from
  <2> QED
    BY <1>4, <1>6, <1>8, <2>1, PopBalance
<1>9. CallsHold(c)'
  <2>1. Regular(c)' => Regular(c)
    BY <1>2 DEF Regular
  <2> QED
    BY <1>2, <1>7, <1>8, <2>1, CallsAfter
<1> QED
  BY <1>3, <1>9 DEF CallsInv


(* what becomes of the context m at an exit of fn, called from the site *)
LeftBy(m, r, fn, site) ==
  CallPopped(m, r, fn, site) \/ UnknownPopped(m, r, fn, site)

(* An exit leaves the function, if the program has not jumped: its own on  *)
(* top of the stack, or an inherited one that is unknown.                  *)
LEMMA ExitLeaves ==
  ASSUME BaseInv, CallsInv, NEW c \in Ids, Regular(c), ExitChanges(c)
  PROVE  /\ LeftBy(ctx[c], ctx'[c], Top(frames[c]).fn, Top(frames[c]).site)
         /\ \A s \in Slots : s # Leaving(ctx[c]) =>
              ctx'[c].table[s].recursive_state = ctx[c].table[s].recursive_state
<1> DEFINE m0 == ctx[c]
           f == frames[c]
           r == ctx'[c]
           fn == Top(f).fn
           site == Top(f).site
           time == clock'
<1>0. PICK m : ArcAdded(c, m, site, fn) /\ (~Ignored(m, fn) => ExitEffect(m, r, fn, site, time))
  BY DEF ExitChanges
<1>1. /\ ManagerInv /\ FollowInv /\ ProgramInv /\ CallsHold(c) /\ f \in Seq(Frame)
      /\ m0.stack \in Seq(Call) /\ m0.table \in [Slots -> Entry]
      /\ f # <<>> /\ phase = "read" /\ alive[c] = "run"
  BY DEF BaseInv, ProfileInv, CallsInv, ManagerInv, ProgramInv, ContextInv, IsContext, ExitChanges, Aside
<1>2. m.stack = m0.stack /\ m.table = m0.table /\ m.graph = GraphAdd(m0.graph, site, fn)
  BY <1>0 DEF ArcAdded
<1>3. Len(f) \in 1 .. Len(f) /\ Len(f) \in Nat /\ Top(f) = f[Len(f)]
  BY <1>1 DEF Top
<1>4. Follows(m0, f, c) /\ Inherits(m0, f, c)
  BY <1>1, InheritsNow DEF FollowInv, Regular
<1>5. Leaving(m) = Leaving(m0) /\ Leaving(m0) = m0.stack[Len(m0.stack)].function
      /\ (Renames(m) <=> Renames(m0)) /\ Under(m) = Under(m0)
  BY <1>2 DEF Leaving, Top, Renames, Under
<1>6. fn \in Funcs /\ fn # NULL
  <2>1. Top(f) \in Frame
    BY <1>1, <1>3
  <2> QED
    BY <2>1, ProfileAssumption DEF Frame
<1> HIDE DEF fn, site, time
<1>7. CASE Top(f).by = c
  <2>1. m0.stack # <<>> /\ m0.table[Leaving(m0)].symbol = fn
    BY <1>1, <1>4, <1>7, FollowsTop DEF fn
  <2>2. ~Ignored(m, fn)
    BY <1>2, <2>1 DEF Ignored, Leaving
  <2>3. ExitEffect(m, r, fn, site, time)
    BY <1>0, <2>2
  <2> HIDE DEF m0, f, r
  <2>4. Namesakes(m, r)
    BY <1>2, <1>5, <1>6, <2>1, <2>3, ExitNamesakes
  <2>5. /\ r.stack = Pop(m.stack) /\ r.table \in [Slots -> Entry] /\ r.graph = m.graph
        /\ \A s \in Slots : r.table[s].calls = m.table[s].calls
    BY <2>3 DEF ExitEffect
  <2>6. Namesakes(m0, r)
    BY <1>2, <2>4 DEF Namesakes
  <2>7. SymbolAt(m0, Len(m0.stack)) = fn
    BY <1>5, <2>1 DEF SymbolAt
  <2>8. CallPopped(m0, r, fn, site)
    BY <1>2, <2>1, <2>5, <2>6, <2>7 DEF CallPopped
  <2>9. ASSUME NEW s \in Slots, s # Leaving(m0) PROVE r.table[s].recursive_state = m0.table[s].recursive_state
    <3>1. m0.table[s] \in Entry
      BY <1>1
    <3>2. m0.table[s].recursive_state \in Nat
      BY <3>1 DEF Entry
    <3>3. r.table[s].recursive_state = m0.table[s].recursive_state - 0
      BY <1>2, <1>5, <2>3, <2>9 DEF ExitEffect
    <3> QED
      BY <3>2, <3>3
  <2> QED
    BY <2>8, <2>9 DEF LeftBy, m0, f, r, fn, site
<1>8. CASE Top(f).by # c
  <2>1. /\ Len(m0.stack) \in Nat /\ Len(m0.stack) - Len(f) + Len(f) = Len(m0.stack)
    BY <1>1, <1>3
  <2>2. /\ Len(m0.stack) >= 1 /\ SymbolAt(m0, Len(m0.stack)) \notin Funcs
        /\ m0.table[m0.stack[Len(m0.stack)].function].faked
    BY <1>3, <1>4, <1>8, <2>1 DEF Inherits
  <2>3. m0.stack # <<>>
    BY <2>2
  <2>4. ~Ignored(m, fn)
    BY <1>2, <1>5, <2>2, <2>3 DEF Ignored, Leaving
  <2>5. ExitEffect(m, r, fn, site, time)
    BY <1>0, <2>4
  <2> HIDE DEF m0, f, r
  <2>6. /\ r.stack = Pop(m.stack) /\ r.table \in [Slots -> Entry] /\ r.graph = m.graph
        /\ \A s \in Slots : r.table[s].calls = m.table[s].calls
        /\ ~Renames(m) \/ Under(m) # Leaving(m) => r.table[Leaving(m)].symbol = fn
    BY <2>5 DEF ExitEffect
  <2>7. ASSUME NEW s \in Slots, s # Leaving(m0)
        PROVE  /\ r.table[s].recursive_state = m0.table[s].recursive_state
               /\ r.table[s].faked = m0.table[s].faked
               /\ r.table[s].symbol = m0.table[s].symbol
                  \/ (Renames(m0) /\ s = Under(m0) /\ r.table[s].symbol = site)
    <3>1. m0.table[s] \in Entry
      BY <1>1
    <3>2. m0.table[s].recursive_state \in Nat
      BY <3>1 DEF Entry
    <3>3. /\ r.table[s].recursive_state = m0.table[s].recursive_state - 0
          /\ r.table[s].faked = m0.table[s].faked
      BY <1>2, <1>5, <2>5, <2>7 DEF ExitEffect
    <3>4. r.table[s].symbol = m0.table[s].symbol
          \/ (Renames(m0) /\ s = Under(m0) /\ r.table[s].symbol = site)
      <4>1. CASE s # Under(m) \/ ~Renames(m)
        <5>1. \A q \in Slots : q # Leaving(m) /\ (q # Under(m) \/ ~Renames(m)) =>
                r.table[q].symbol = m.table[q].symbol
          BY <2>5 DEF ExitEffect
        <5> QED
          BY <1>2, <1>5, <2>7, <4>1, <5>1
      <4>2. CASE s = Under(m) /\ Renames(m)
        <5>1. r.table[Under(m)].symbol = site
          BY <2>5, <4>2 DEF ExitEffect
        <5> QED
          BY <1>5, <4>2, <5>1
      <4> QED
        BY <4>1, <4>2
    <3> QED
      BY <3>2, <3>3, <3>4
  <2>8. UnknownPopped(m0, r, fn, site)
    BY <1>2, <1>5, <2>2, <2>3, <2>6, <2>7 DEF UnknownPopped
  <2> QED
    BY <2>7, <2>8 DEF LeftBy, m0, f, r, fn, site
<1> QED
  BY <1>7, <1>8

(* An exit counts an arc; an exit that is ignored too, but then the        *)
(* program has jumped.                                                     *)
LEMMA CallsExit ==
  ASSUME Funcs \cap Sites = {}, BaseInv, CallsInv, NEW c \in Ids, ExitChanges(c)
  PROVE  CallsInv'
<1> DEFINE fn == Top(frames[c]).fn
           site == Top(frames[c]).site
           m0 == ctx[c]
           f == frames[c]
           r == ctx'[c]
           now == clock'
<1>1. /\ BirthInv /\ ProgramInv /\ ManagerInv /\ (\A d \in Ids : CallsHold(d))
      /\ f \in Seq(Frame)
  BY DEF BaseInv, ProfileInv, CallsInv, ProgramInv
<1>2. /\ UNCHANGED <<depth, jumped>> /\ alive[c] = "run" /\ phase = "read" /\ phase' = "read"
      /\ f # <<>> /\ frames'[c] = SubSeq(f, 1, Len(f) - 1) /\ Register(c)
      /\ \A d \in Ids : d # c => frames'[d] = frames[d] /\ ctx'[d] = ctx[d]
  BY DEF ExitChanges, Aside, FramesOf
<1>3. PICK m : /\ ArcAdded(c, m, site, fn) /\ ReadingInv(m)
               /\ Ignored(m, fn) => r = m
               /\ ~Ignored(m, fn) => ExitEffect(m, r, fn, site, now)
  BY DEF ExitChanges
<1>4. fn \in Funcs /\ site \in Sites
  <2>1. Top(f) \in Frame
    BY <1>1, <1>2 DEF Top
  <2> QED
    BY <2>1 DEF Frame
<1>5. \A d \in Ids : Known(d)' <=> Known(d) \/ d = c
  BY <1>1, <1>2, KnownFrom DEF ManagerInv
<1>6. ASSUME NEW d \in Ids, d # c PROVE CallsHold(d)'
  <2>1. Untouched(d)
    BY <1>2, <1>5, <1>6 DEF Untouched
  <2> QED
    BY <1>1, <2>1, CallsUntouched
<1>7. IsGraph(m0.graph) /\ ReadingInv(m0) /\ ContextInv(m0)
      /\ m0.stack \in Seq(Call) /\ m0.table \in [Slots -> Entry]
  BY <1>1, <1>2 DEF CallsHold, ManagerInv, ContextInv, IsContext
<1>8. IsGraph(r.graph)
  <2>1. m.graph = GraphAdd(m0.graph, site, fn) /\ r.graph = m.graph
    BY <1>3 DEF ArcAdded, ExitEffect
  <2> QED
    BY <1>7, <2>1, ArcCounted
<1>9. ASSUME Regular(c)
      PROVE  Balanced(r) /\ UnknownOnce(r) /\ Inherits(r, SubSeq(f, 1, Len(f) - 1), c)
  <2>1. /\ LeftBy(m0, r, fn, site)
        /\ \A s \in Slots : s # Leaving(m0) => r.table[s].recursive_state = m0.table[s].recursive_state
    BY <1>9, ExitLeaves
  <2>2. Balanced(m0) /\ UnknownOnce(m0) /\ Inherits(m0, f, c)
    BY <1>1, <1>2, <1>9, InheritsNow DEF CallsHold
  <2>3. site # NULL
    BY <1>4, ProfileAssumption
  <2> HIDE DEF m0, r, fn, site, f, now
  <2>4. CASE CallPopped(m0, r, fn, site)
    <3>1. Balanced(r)
      BY <1>7, <2>2, <2>3, <2>4, PopBalance
    <3>2. UnknownOnce(r) /\ Inherits(r, SubSeq(f, 1, Len(f) - 1), c)
      BY <1>1, <1>2, <1>4, <1>7, <2>1, <2>2, <2>4, PopUnknown
    <3> QED
      BY <3>1, <3>2
  <2>5. CASE UnknownPopped(m0, r, fn, site)
    <3>1. UnknownEffect(m0, r, Leaving(m0), fn)
      BY <1>4, <1>7, <2>2, <2>5, UnknownNamed
    <3>2. Balanced(r)
      BY <1>4, <1>7, <2>2, <2>5, <3>1, UnknownBalance
    <3>3. UnknownOnce(r) /\ Inherits(r, SubSeq(f, 1, Len(f) - 1), c)
      BY <1>1, <1>2, <1>4, <2>2, <3>1, UnknownStay
    <3> QED
      BY <3>2, <3>3
  <2> QED
    BY <2>1, <2>4, <2>5 DEF LeftBy
<1>10. CallsHold(c)'
  <2>1. Regular(c)' => Regular(c)
    BY <1>2 DEF Regular
  <2> QED
    BY <1>2, <1>8, <1>9, <2>1, CallsAfter
<1> QED
  BY <1>6, <1>10 DEF CallsInv

(* The calls are counted from the first context on. *)
LEMMA CallsInitially == Init => CallsInv
<1> SUFFICES ASSUME Init, NEW c \in Ids PROVE CallsHold(c)
  BY DEF CallsInv
<1>1. \E first \in Nat : ctx[c] = EmptyContext(first)
  <2>1. ctx[c] = IF c = Root THEN EmptyContext(StartTime) ELSE EmptyContext(0)
    BY DEF Init, NoContext
  <2> QED
    BY <2>1, ProfileAssumption
<1>2. PICK first \in Nat : ctx[c] = EmptyContext(first)
  BY <1>1
<1>3. IsGraph(ctx[c].graph) /\ Balanced(ctx[c]) /\ UnknownOnce(ctx[c])
  BY <1>2, EmptyCalls
<1>4. frames[c] = <<>>
  BY DEF Init
<1>5. Inherits(ctx[c], frames[c], c)
  BY <1>4 DEF Inherits
<1> QED
  BY <1>3, <1>5 DEF CallsHold

(* "the number of arcs to a function" and its calls: a call is counted at  *)
(* the enter, its arc at the exit, or at the flush, once each, as long as  *)
(* no function's address is a place that another is called from.           *)
THEOREM ArcsAndCallsAgree ==
  ASSUME Funcs \cap Sites = {}
  PROVE  Spec => []ArcsCountCalls
<1>1. BaseInv /\ BaseInv' /\ CallsInv /\ [Next]_vars => CallsInv'
  BY StepKinds, CallsQuiet, CallsEnter, CallsExit, CallsParent, CallsFlush
<1>2. Spec => []CallsInv
  BY <1>1, BaseInvariance, CallsInitially, PTL DEF Spec
<1>3. CallsInv => ArcsCountCalls
  BY DEF CallsInv, CallsHold, ArcsCountCalls, Regular, Balanced, Arcs, CallsOf, Running, SymbolAt, Entries
<1> QED
  BY <1>2, <1>3, PTL


------------------------------------------------------------------------------
(* Local times: what an enter and an exit add *)

(* Numbers below U64 do not wrap. *)
LEMMA NoWrap ==
  ASSUME NEW x \in Nat, x < U64
  PROVE  x % U64 = x
<1>1. U64 \in Nat /\ U64 > 0
  BY FunctionsAssumption
<1> QED
  BY <1>1

(* The time since the last enter or exit is added to that of a function. *)
LEMMA Elapses ==
  ASSUME NEW t \in Nat, NEW last \in Nat, NEW now \in Nat, t <= last, last <= now, now < U64
  PROVE  Add(t, Sub(now, last)) = t + (now - last)
<1>1. U64 \in Nat
  BY FunctionsAssumption
<1>2. now - last \in Nat /\ now - last < U64
  BY <1>1
<1>3. Sub(now, last) = now - last
  BY <1>2, NoWrap DEF Sub
<1>4. t + (now - last) \in Nat /\ t + (now - last) < U64
  BY <1>1
<1>5. (t + (now - last)) % U64 = t + (now - last)
  BY <1>4, NoWrap
<1> QED
  BY <1>3, <1>5 DEF Add

(* the local times of the entries *)
Locals(m) == [s \in Slots |-> Local(m.table[s])]

(* They are numbers. *)
LEMMA LocalFacts ==
  ASSUME NEW m, m.table \in [Slots -> Entry], NEW f
  PROVE  /\ IsFiniteSet(Of(m, f)) /\ \A s \in Slots : Local(m.table[s]) \in Nat
         /\ LocalOf(m, f) = SumFunctionOnSet(Locals(m), Of(m, f)) /\ LocalOf(m, f) \in Nat
         /\ \A s \in Slots : m.table[s].symbol = f => Local(m.table[s]) <= LocalOf(m, f)
<1>1. IsFiniteSet(Of(m, f))
  BY SlotsFinite, FS_Subset DEF Of
<1>2. \A s \in Slots : Local(m.table[s]) \in Nat
  <2>1. \A s \in Slots : m.table[s] \in Entry
    OBVIOUS
  <2>2. \A s \in Slots : m.table[s].local_time \in Nat /\ m.table[s].temp_ltime \in Nat
    BY <2>1 DEF Entry, Times
  <2> QED
    BY <2>2 DEF Local
<1>3. LocalOf(m, f) = SumFunctionOnSet(Locals(m), Of(m, f))
  BY DEF LocalOf, Locals, Of
<1>4. \A s \in Of(m, f) : Locals(m)[s] \in Nat
  BY <1>2 DEF Of, Locals
<1>5. LocalOf(m, f) \in Nat
  BY <1>1, <1>3, <1>4, SumNat
<1>6. ASSUME NEW s \in Slots, m.table[s].symbol = f PROVE Local(m.table[s]) <= LocalOf(m, f)
  <2>1. s \in Of(m, f) /\ Locals(m)[s] = Local(m.table[s])
    BY <1>6 DEF Of, Locals
  <2>2. IsFiniteSet(Of(m, f) \ {s}) /\ \A t \in Of(m, f) \ {s} : Locals(m)[t] \in Nat
    BY <1>1, <1>4, FS_Subset
  <2>3. SumFunctionOnSet(Locals(m), Of(m, f) \ {s}) \in Nat
    BY <2>2, SumNat
  <2>4. SumFunctionOnSet(Locals(m), Of(m, f)) =
          Locals(m)[s] + SumFunctionOnSet(Locals(m), Of(m, f) \ {s})
    BY <1>1, <1>4, <2>1, SumElement
  <2> DEFINE x == SumFunctionOnSet(Locals(m), Of(m, f) \ {s})
             y == Local(m.table[s])
  <2>5. x \in Nat /\ y \in Nat /\ LocalOf(m, f) = y + x
    BY <1>2, <1>3, <2>1, <2>3, <2>4
  <2> HIDE DEF x
  <2>6. y <= y + x
    BY <2>5
  <2> QED
    BY <2>5, <2>6
<1> QED
  BY <1>1, <1>2, <1>3, <1>5, <1>6

(* r has run x longer than m in the entry e, and no longer in any other. *)
RunsIn(m, r, e, x) ==
  /\ \A s \in Slots : r.table[s].symbol = m.table[s].symbol
  /\ \A s \in Slots : s # e => Local(r.table[s]) = Local(m.table[s])
  /\ Local(r.table[e]) = Local(m.table[e]) + x

(* So has the function of that entry. *)
LEMMA LocalGrows ==
  ASSUME NEW m, NEW r, m.table \in [Slots -> Entry], r.table \in [Slots -> Entry],
         NEW e \in Slots, NEW x \in Nat, RunsIn(m, r, e, x), NEW f
  PROVE  LocalOf(r, f) = LocalOf(m, f) + (IF m.table[e].symbol = f THEN x ELSE 0)
<1> DEFINE S == Of(m, f)
           p == Locals(m)
           q == Locals(r)
<1>1. /\ \A s \in Slots : r.table[s].symbol = m.table[s].symbol
      /\ \A s \in Slots : s # e => q[s] = p[s]
      /\ q[e] = p[e] + x
  BY DEF RunsIn, Locals
<1>2. Of(r, f) = S /\ S \subseteq Slots /\ (e \in S <=> m.table[e].symbol = f)
  BY <1>1 DEF Of
<1>3. /\ IsFiniteSet(S) /\ \A s \in S : p[s] \in Nat /\ q[s] \in Nat
      /\ LocalOf(m, f) = SumFunctionOnSet(p, S) /\ LocalOf(m, f) \in Nat
      /\ LocalOf(r, f) = SumFunctionOnSet(q, S) /\ LocalOf(r, f) \in Nat
  <2>1. \A s \in S : p[s] = Local(m.table[s]) /\ q[s] = Local(r.table[s])
    BY <1>2 DEF Locals
  <2>2. /\ IsFiniteSet(S) /\ \A s \in Slots : Local(m.table[s]) \in Nat
        /\ LocalOf(m, f) = SumFunctionOnSet(p, S) /\ LocalOf(m, f) \in Nat
    BY LocalFacts
  <2>3. /\ \A s \in Slots : Local(r.table[s]) \in Nat
        /\ LocalOf(r, f) = SumFunctionOnSet(q, Of(r, f)) /\ LocalOf(r, f) \in Nat
    BY LocalFacts
  <2> QED
    BY <1>2, <2>1, <2>2, <2>3
<1> HIDE DEF S, p, q
<1>4. CASE e \in S
  <2>1. \A s \in S \ {e} : p[s] = q[s]
    BY <1>1, <1>2
  <2>2. SumFunctionOnSet(q, S) = SumFunctionOnSet(p, S) - p[e] + q[e]
    BY <1>3, <1>4, <2>1, SumDiffers
  <2>3. p[e] \in Nat /\ q[e] = p[e] + x
    BY <1>1, <1>3, <1>4
  <2>4. SumFunctionOnSet(q, S) = SumFunctionOnSet(p, S) - p[e] + (p[e] + x)
    BY <2>2, <2>3
  <2> DEFINE y == SumFunctionOnSet(p, S)
             z == p[e]
  <2>5. LocalOf(r, f) = y - z + (z + x) /\ LocalOf(m, f) = y /\ y \in Nat /\ z \in Nat
    BY <1>3, <2>3, <2>4
  <2> HIDE DEF y, z
  <2>6. LocalOf(r, f) = y + x
    BY <2>5
  <2> QED
    BY <1>2, <1>4, <2>5, <2>6
<1>5. CASE e \notin S
  <2>1. \A s \in S : q[s] = p[s]
    BY <1>1, <1>2, <1>5
  <2>2. SumFunctionOnSet(q, S) = SumFunctionOnSet(p, S)
    BY <1>3, <2>1, SumSame
  <2>3. LocalOf(r, f) = LocalOf(m, f)
    BY <1>3, <2>2
  <2> QED
    BY <1>2, <1>3, <1>5, <2>3
<1> QED
  BY <1>4, <1>5


(* A new entry has no time. *)
LEMMA LocalOpened ==
  ASSUME NEW m, m.table \in [Slots -> Entry], NEW f, NEW slot \in Slots, GivenSlot(m, f, slot),
         NEW k, k.table = Opened(m, f, slot), k.table \in [Slots -> Entry], NEW g, g # NULL
  PROVE  LocalOf(k, g) = LocalOf(m, g)
<1>1. /\ IsFiniteSet(Of(m, g)) /\ LocalOf(m, g) = SumFunctionOnSet(Locals(m), Of(m, g))
      /\ LocalOf(m, g) \in Nat /\ \A s \in Slots : Local(m.table[s]) \in Nat
  BY LocalFacts
<1>2. /\ IsFiniteSet(Of(k, g)) /\ LocalOf(k, g) = SumFunctionOnSet(Locals(k), Of(k, g))
      /\ LocalOf(k, g) \in Nat /\ \A s \in Slots : Local(k.table[s]) \in Nat
  BY LocalFacts
<1>3. CASE Find(m.table, f) # NoSlot
  <2>1. k.table = m.table
    BY <1>3 DEF Opened
  <2> QED
    BY <2>1 DEF LocalOf
<1>4. CASE Find(m.table, f) = NoSlot
  <2>1. k.table = [m.table EXCEPT ![slot] = NewFunction(f)] /\ m.table[slot].symbol = NULL
    BY <1>4 DEF Opened, GivenSlot, Free
  <2>2. k.table[slot].symbol = f /\ Local(k.table[slot]) = 0 /\ \A s \in Slots : s # slot => k.table[s] = m.table[s]
    <3>1. NewFunction(f).symbol = f /\ NewFunction(f).local_time = 0 /\ NewFunction(f).recursive_state = 0
      BY DEF NewFunction
    <3>2. k.table[slot] = NewFunction(f) /\ \A s \in Slots : s # slot => k.table[s] = m.table[s]
      BY <2>1
    <3> QED
      BY <3>1, <3>2 DEF Local
  <2>3. slot \notin Of(m, g) /\ \A s \in Of(m, g) : Locals(k)[s] = Locals(m)[s]
    BY <2>1, <2>2 DEF Of, Locals
  <2>4. SumFunctionOnSet(Locals(k), Of(m, g)) = LocalOf(m, g)
    BY <1>1, <2>3, SumSame
  <2>5. CASE g # f
    <3>1. Of(k, g) = Of(m, g)
      BY <2>1, <2>2, <2>5 DEF Of
    <3> QED
      BY <1>2, <2>4, <3>1
  <2>6. CASE g = f
    <3>1. slot \in Of(k, g) /\ Of(k, g) \ {slot} = Of(m, g) /\ Locals(k)[slot] = 0
      BY <2>1, <2>2, <2>6 DEF Of, Locals
    <3>2. \A s \in Of(k, g) : Locals(k)[s] \in Nat
      BY <1>2 DEF Of, Locals
    <3>3. SumFunctionOnSet(Locals(k), Of(k, g)) = Locals(k)[slot] + SumFunctionOnSet(Locals(k), Of(k, g) \ {slot})
      BY <1>2, <3>1, <3>2, SumElement
    <3> QED
      BY <1>1, <1>2, <2>4, <3>1, <3>3
  <2> QED
    BY <2>5, <2>6
<1> QED
  BY <1>3, <1>4

(* what was added up before the event that the clock is read for *)
Started(m, last, now) ==
  /\ last \in Nat /\ now \in Nat /\ last <= now /\ now < U64 /\ Stopwatch(m, last)
  /\ m.stack # <<>> => Local(m.table[Leaving(m)]) <= last

(* the function of m that is on top, if any, has run from last to now in r *)
RanOn(m, r, last, now) ==
  /\ Stopwatch(r, now)
  /\ \A g \in Funcs : LocalOf(r, g) = LocalOf(m, g) +
       (IF m.stack # <<>> /\ m.table[Leaving(m)].symbol = g THEN now - last ELSE 0)

(* What is on top of a stack is in use. *)
LEMMA LeavingFacts ==
  ASSUME NEW m, ReadingInv(m), m.stack # <<>>
  PROVE  /\ Leaving(m) \in Slots /\ Leaving(m) = m.stack[Len(m.stack)].function
         /\ m.table[Leaving(m)] \in Entry /\ m.table[Leaving(m)].recursive_state > 0
         /\ Leaving(m) \notin Free(m.table)
<1>1. /\ m.stack \in Seq(Call) /\ m.table \in [Slots -> Entry]
      /\ \A s \in Slots : Counted(m, s)
  BY DEF ReadingInv, ContextInv, IsContext
<1>2. Len(m.stack) \in 1 .. Len(m.stack) /\ m.stack[Len(m.stack)] \in Call
  BY <1>1
<1>3. Leaving(m) = m.stack[Len(m.stack)].function /\ Leaving(m) \in Slots
  BY <1>2 DEF Leaving, Top, Call
<1>4. Cardinality(Places(m.stack, Leaving(m))) > 0
  BY <1>1, <1>2, <1>3, OnStackCounted
<1>5. Leaving(m) \notin Free(m.table)
  BY <1>2, <1>3 DEF ReadingInv, ContextInv
<1> QED
  BY <1>1, <1>3, <1>4, <1>5 DEF Counted

(* An enter stops the caller. *)
LEMMA EnterRuns ==
  ASSUME NEW m, ReadingInv(m), NEW r, NEW slot \in Slots, NEW f, NEW site \in Nat, NEW last, NEW now,
         Started(m, last, now), EnterEffect(m, r, slot, f, site, now)
  PROVE  RanOn(m, r, last, now)
<1> DEFINE known == Opened(m, f, slot)
           k == [table |-> known]
           e == [function |-> slot, time |-> now, call_site |-> site]
           x == now - last
<1>1. /\ m.table \in [Slots -> Entry] /\ m.stack \in Seq(Call) /\ last \in Nat /\ now \in Nat
      /\ last <= now /\ now < U64 /\ x \in Nat
  BY DEF ReadingInv, ContextInv, IsContext, Started
<1>2. /\ GivenSlot(m, f, slot) /\ known \in [Slots -> Entry] /\ r.table \in [Slots -> Entry]
      /\ r.stack = Append(m.stack, e)
  BY DEF EnterEffect
<1>3. \A s \in Slots :
        /\ r.table[s].symbol = known[s].symbol /\ r.table[s].local_time = known[s].local_time
        /\ r.table[s].recursive_state = known[s].recursive_state + (IF s = slot THEN 1 ELSE 0)
        /\ r.table[s].last_time = IF s = slot THEN now ELSE known[s].last_time
        /\ r.table[s].temp_ltime = Stopped(m, known[s], s, slot, now)
  BY DEF EnterEffect, SameSums
<1>4. k.table = known
  OBVIOUS
<1> HIDE DEF k
<1>5. \A s \in Slots : /\ known[s].local_time \in Nat /\ known[s].temp_ltime \in Nat
                       /\ known[s].recursive_state \in Nat
  <2>1. \A s \in Slots : known[s] \in Entry
    BY <1>2
  <2> QED
    BY <2>1 DEF Entry, Times
<1>6. m.stack # <<>> =>
        /\ Leaving(m) \in Slots /\ known[Leaving(m)] = m.table[Leaving(m)]
        /\ known[Leaving(m)].recursive_state > 0
        /\ known[Leaving(m)].last_time = last
        /\ Local(known[Leaving(m)]) <= last
  <2> SUFFICES ASSUME m.stack # <<>>
               PROVE  /\ Leaving(m) \in Slots /\ known[Leaving(m)] = m.table[Leaving(m)]
                      /\ known[Leaving(m)].recursive_state > 0
                      /\ known[Leaving(m)].last_time = last
                      /\ Local(known[Leaving(m)]) <= last
    OBVIOUS
  <2>1. Leaving(m) \in Slots /\ m.table[Leaving(m)].recursive_state > 0 /\ Leaving(m) \notin Free(m.table)
    BY LeavingFacts
  <2>2. Find(m.table, f) = NoSlot => Leaving(m) # slot
    BY <1>2, <2>1 DEF GivenSlot
  <2>3. known[Leaving(m)] = m.table[Leaving(m)]
    BY <1>1, <2>1, <2>2 DEF Opened
  <2> QED
    BY <2>1, <2>3 DEF Started, Stopwatch
<1> HIDE DEF known
<1>7. ASSUME NEW s \in Slots, m.stack = <<>> \/ s # Leaving(m)
      PROVE  Local(r.table[s]) = Local(known[s])
  <2>1. r.table[s].temp_ltime = IF s = slot /\ known[s].recursive_state = 0 THEN 0 ELSE known[s].temp_ltime
    BY <1>3, <1>7 DEF Stopped
  <2>2. CASE s = slot
    <3>1. r.table[s].recursive_state > 0
      BY <1>3, <1>5, <2>2
    <3>2. CASE known[s].recursive_state = 0
      BY <1>3, <1>5, <2>1, <2>2, <3>1, <3>2 DEF Local
    <3>3. CASE known[s].recursive_state # 0
      <4>1. known[s].recursive_state > 0
        BY <1>5, <3>3
      <4> QED
        BY <1>3, <2>1, <3>1, <3>3, <4>1 DEF Local
    <3> QED
      BY <3>2, <3>3
  <2>3. CASE s # slot
    <3>1. r.table[s].recursive_state = known[s].recursive_state
      BY <1>3, <1>5, <2>3
    <3> QED
      BY <1>3, <2>1, <2>3, <3>1 DEF Local
  <2> QED
    BY <2>2, <2>3
<1>8. ASSUME m.stack # <<>> PROVE Local(r.table[Leaving(m)]) = Local(known[Leaving(m)]) + x
  <2> DEFINE l == Leaving(m)
             t == known[l].temp_ltime
             d == known[l].local_time
  <2>1. /\ l \in Slots /\ known[l].recursive_state > 0 /\ known[l].last_time = last
        /\ Local(known[l]) <= last
    BY <1>6, <1>8
  <2>2. Local(known[l]) = d + t /\ d \in Nat /\ t \in Nat /\ known[l].recursive_state \in Nat
    BY <1>5, <2>1 DEF Local
  <2>3. r.table[l].temp_ltime = Add(t, Sub(now, last))
    BY <1>3, <1>8, <2>1, <2>2 DEF Stopped
  <2>4. r.table[l].local_time = d /\ r.table[l].recursive_state > 0
    BY <1>3, <2>1, <2>2
  <2> HIDE DEF l, t, d
  <2>5. t <= last
    BY <1>1, <2>1, <2>2
  <2>6. r.table[l].temp_ltime = t + x
    BY <1>1, <2>2, <2>3, <2>5, Elapses
  <2>7. Local(r.table[l]) = d + (t + x)
    BY <2>4, <2>6 DEF Local
  <2>8. d + (t + x) = (d + t) + x
    BY <1>1, <2>2
  <2>9. Local(r.table[l]) = Local(known[l]) + x
    BY <2>2, <2>7, <2>8
  <2> QED
    BY <2>9 DEF l
<1>9. ASSUME NEW g \in Funcs
      PROVE  LocalOf(r, g) = LocalOf(m, g) +
               (IF m.stack # <<>> /\ m.table[Leaving(m)].symbol = g THEN x ELSE 0)
  <2>1. g # NULL
    BY ProfileAssumption
  <2>2. LocalOf(k, g) = LocalOf(m, g) /\ LocalOf(m, g) \in Nat
    <3>1. k.table = Opened(m, f, slot) /\ k.table \in [Slots -> Entry]
      BY <1>2, <1>4 DEF known
    <3>2. LocalOf(k, g) = LocalOf(m, g)
      BY <1>1, <1>2, <2>1, <3>1, LocalOpened
    <3>3. LocalOf(m, g) \in Nat
      BY <1>1, LocalFacts
    <3> QED
      BY <3>2, <3>3
  <2>3. CASE m.stack # <<>>
    <3>1. RunsIn(k, r, Leaving(m), x)
      BY <1>3, <1>4, <1>7, <1>8, <2>3 DEF RunsIn
    <3>2. Leaving(m) \in Slots /\ k.table \in [Slots -> Entry] /\ r.table \in [Slots -> Entry]
      BY <1>2, <1>4, <1>6, <2>3
    <3>3. LocalOf(r, g) = LocalOf(k, g) + (IF k.table[Leaving(m)].symbol = g THEN x ELSE 0)
      <4>1. x \in Nat
        BY <1>1
      <4> HIDE DEF x
      <4> QED
        BY ONLY <3>1, <3>2, <4>1, LocalGrows, SMTT(20)
    <3> QED
      BY <1>4, <1>6, <2>2, <2>3, <3>3
  <2>4. CASE m.stack = <<>>
    <3>1. RunsIn(k, r, slot, 0)
      <4>1. Local(known[slot]) \in Nat
        BY <1>2, LocalFacts, <1>4
      <4> QED
        BY <1>3, <1>4, <1>7, <2>4, <4>1 DEF RunsIn
    <3>2. k.table \in [Slots -> Entry] /\ r.table \in [Slots -> Entry] /\ 0 \in Nat
      BY <1>2, <1>4
    <3>3. slot \in Slots
      OBVIOUS
    <3>4. LocalOf(r, g) = LocalOf(k, g) + (IF k.table[slot].symbol = g THEN 0 ELSE 0)
      BY ONLY <3>1, <3>2, <3>3, LocalGrows
    <3>5. LocalOf(r, g) = LocalOf(k, g) + 0
      BY <3>4
    <3> QED
      BY <2>2, <2>4, <3>5
  <2> QED
    BY <2>3, <2>4
<1>10. Stopwatch(r, now)
  <2>1. Len(r.stack) = Len(m.stack) + 1 /\ r.stack[Len(m.stack) + 1] = e
    BY <1>1, <1>2
  <2>2. Leaving(r) = slot
    BY <2>1 DEF Leaving, Top
  <2> QED
    BY <1>3, <2>2 DEF Stopwatch
<1> QED
  BY <1>9, <1>10 DEF RanOn


(* An exit ends the function on top, and starts the one below. *)
LEMMA ExitRuns ==
  ASSUME NEW m, ReadingInv(m), NEW r, NEW fn, fn # NULL, m.stack # <<>>,
         m.table[Leaving(m)].symbol = fn, NEW site, NEW last, NEW now,
         Started(m, last, now), ExitEffect(m, r, fn, site, now)
  PROVE  RanOn(m, r, last, now)
<1> DEFINE l == Leaving(m)
           t == m.table[l].temp_ltime
           d == m.table[l].local_time
           x == now - last
<1>1. /\ m.table \in [Slots -> Entry] /\ m.stack \in Seq(Call) /\ last \in Nat /\ now \in Nat
      /\ last <= now /\ now < U64 /\ x \in Nat /\ r.table \in [Slots -> Entry]
      /\ r.stack = Pop(m.stack)
  BY DEF ReadingInv, ContextInv, IsContext, Started, ExitEffect
<1>2. /\ l \in Slots /\ m.table[l] \in Entry /\ m.table[l].recursive_state > 0
      /\ m.table[l].last_time = last /\ Local(m.table[l]) <= last
  BY LeavingFacts DEF Started, Stopwatch
<1>3. t \in Nat /\ d \in Nat /\ m.table[l].recursive_state \in Nat /\ Local(m.table[l]) = d + t
  BY <1>2 DEF Entry, Times, Local
<1>4. \A s \in Slots : r.table[s].symbol = m.table[s].symbol
  BY ExitNamesakes DEF Namesakes
<1>5. ASSUME NEW s \in Slots, s # l PROVE Local(r.table[s]) = Local(m.table[s])
  <2>1. m.table[s] \in Entry
    BY <1>1
  <2>2. m.table[s].recursive_state \in Nat
    BY <2>1 DEF Entry
  <2>3. /\ r.table[s].recursive_state = m.table[s].recursive_state - 0
        /\ r.table[s].temp_ltime = m.table[s].temp_ltime
        /\ r.table[s].local_time = m.table[s].local_time
    BY <1>5 DEF ExitEffect
  <2> QED
    BY <2>2, <2>3 DEF Local
<1>6. Elapsed(m.table[l], now) = t + x
  <2>1. t <= last
    <3> DEFINE y == Local(m.table[l])
    <3>1. y = d + t /\ y <= last
      BY <1>2, <1>3
    <3> HIDE DEF y, d, t
    <3> QED
      BY <1>1, <1>3, <3>1
  <2>2. Elapsed(m.table[l], now) = Add(t, Sub(now, last))
    BY <1>2 DEF Elapsed
  <2> HIDE DEF t, x, l
  <2> QED
    BY <1>1, <1>3, <2>1, <2>2, Elapses DEF x
<1>7. /\ r.table[l].recursive_state = m.table[l].recursive_state - 1
      /\ r.table[l].temp_ltime = t + x
      /\ r.table[l].local_time = IF m.table[l].recursive_state <= 1 THEN Add(d, t + x) ELSE d
  BY <1>2, <1>6 DEF ExitEffect
<1> HIDE DEF l, t, d, x
<1>8. Local(r.table[l]) = Local(m.table[l]) + x
  <2>1. CASE m.table[l].recursive_state <= 1
    <3>1. r.table[l].recursive_state = 0
      BY <1>2, <1>3, <1>7, <2>1
    <3>2. d + (t + x) \in Nat /\ d + (t + x) < U64 /\ d + (t + x) = (d + t) + x
      BY <1>1, <1>2, <1>3, FunctionsAssumption DEF x
    <3>3. Add(d, t + x) = d + (t + x)
      BY <3>2, NoWrap DEF Add
    <3> QED
      BY <1>3, <1>7, <2>1, <3>1, <3>2, <3>3 DEF Local
  <2>2. CASE ~(m.table[l].recursive_state <= 1)
    <3>1. r.table[l].recursive_state > 0
      BY <1>3, <1>7, <2>2
    <3>2. Local(r.table[l]) = d + (t + x)
      BY <1>7, <2>2, <3>1 DEF Local
    <3>3. d + (t + x) = (d + t) + x
      BY <1>1, <1>3
    <3> QED
      BY <1>3, <3>2, <3>3
  <2> QED
    BY <2>1, <2>2
<1>9. RunsIn(m, r, l, x)
  BY <1>4, <1>5, <1>8 DEF RunsIn
<1>10. ASSUME NEW g \in Funcs
       PROVE  LocalOf(r, g) = LocalOf(m, g) +
                (IF m.stack # <<>> /\ m.table[Leaving(m)].symbol = g THEN x ELSE 0)
  <2>1. m.table \in [Slots -> Entry] /\ r.table \in [Slots -> Entry] /\ l \in Slots /\ x \in Nat
    BY <1>1, <1>2
  <2>2. LocalOf(r, g) = LocalOf(m, g) + (IF m.table[l].symbol = g THEN x ELSE 0)
    BY ONLY <1>9, <2>1, LocalGrows
  <2> QED
    BY <2>2 DEF l
<1>11. Stopwatch(r, now)
  <2> SUFFICES ASSUME r.stack # <<>> PROVE r.table[Leaving(r)].last_time = now
    BY DEF Stopwatch
  <2>1. Len(m.stack) \in Nat /\ Len(r.stack) = Len(m.stack) - 1
        /\ \A k \in 1 .. Len(m.stack) - 1 : r.stack[k] = m.stack[k]
    <3>1. m.stack \in Seq(Call) /\ m.stack # <<>> /\ r.stack = Pop(m.stack)
      BY <1>1
    <3>2. Len(Pop(m.stack)) = Len(m.stack) - 1
          /\ \A k \in 1 .. Len(m.stack) - 1 : Pop(m.stack)[k] = m.stack[k]
      BY ONLY <3>1, PopPlaces
    <3> QED
      BY <3>1, <3>2
  <2>2. Len(r.stack) # 0
    <3>1. r.stack \in Seq(Call)
      BY <1>1, PopPlaces
    <3> QED
      BY <3>1
  <2>3. Len(m.stack) > 1 /\ Len(r.stack) \in 1 .. Len(m.stack) - 1
    BY <2>1, <2>2
  <2>4. r.stack[Len(r.stack)] = m.stack[Len(m.stack) - 1]
    BY <2>1, <2>3
  <2>5. Leaving(r) = Under(m)
    BY <2>4 DEF Leaving, Under, Top, Below
  <2>6. Under(m) \in Slots
    BY <2>3 DEF ExitEffect
  <2> QED
    BY <2>3, <2>5, <2>6 DEF ExitEffect
<1> QED
  BY <1>10, <1>11 DEF RanOn, x

------------------------------------------------------------------------------
(* Local times: the program's *)

(* what an enter or an exit of c adds to the times of the program *)
Accounted(c, spent) ==
  /\ spent = clock' - seen[c] /\ spent \in Nat /\ seen'[c] = clock'
  /\ \A d \in Ids : d # c => seen'[d] = seen[d] /\ self'[d] = self[d] /\ during'[d] = during[d]
  /\ \A g \in Funcs :
       /\ self'[c][g] = self[c][g] +
            (IF frames[c] # <<>> /\ Top(frames[c]).fn = g THEN spent ELSE 0)
       /\ during'[c][g] = during[c][g] + (IF g \in OnStack(c) THEN spent ELSE 0)

(* It is the time that has passed since. *)
LEMMA Accounts ==
  ASSUME SeenInv, clock \in Nat, NEW c \in Ids, Aside(c)
  PROVE  (\E spent \in Nat : Accounted(c, spent)) /\ SeenInv'
<1> DEFINE spent == clock' - seen[c]
           moreDuring == [f \in Funcs |->
                            IF f \in OnStack(c) THEN during[c][f] + spent ELSE during[c][f]]
           moreSelf == [f \in Funcs |->
                          IF frames[c] # <<>> /\ Top(frames[c]).fn = f
                            THEN self[c][f] + spent ELSE self[c][f]]
<1>1. /\ seen \in [Ids -> Nat] /\ (\A d \in Ids : seen[d] <= clock)
      /\ self \in [Ids -> [Funcs -> Nat]] /\ during \in [Ids -> [Funcs -> Nat]]
      /\ \A d \in Ids : \A f \in Funcs : self[d][f] <= seen[d] /\ during[d][f] <= seen[d]
  BY DEF SeenInv
<1>2. /\ clock' = clock + 1 /\ seen' = [seen EXCEPT ![c] = clock']
      /\ during' = [during EXCEPT ![c] = moreDuring] /\ self' = [self EXCEPT ![c] = moreSelf]
  BY DEF Aside, Account
<1>3. seen[c] \in Nat /\ seen[c] <= clock
  BY <1>1
<1>4. spent \in Nat /\ seen[c] + spent = clock' /\ clock' \in Nat
  BY <1>2, <1>3
<1> HIDE DEF spent
<1>5. \A f \in Funcs : self[c][f] \in Nat /\ during[c][f] \in Nat
  BY <1>1
<1>6. moreDuring \in [Funcs -> Nat] /\ moreSelf \in [Funcs -> Nat]
  BY <1>4, <1>5
<1>7. \A f \in Funcs : moreDuring[f] <= clock' /\ moreSelf[f] <= clock'
  <2> SUFFICES ASSUME NEW f \in Funcs PROVE moreDuring[f] <= clock' /\ moreSelf[f] <= clock'
    OBVIOUS
  <2>1. self[c][f] <= seen[c] /\ during[c][f] <= seen[c] /\ self[c][f] \in Nat /\ during[c][f] \in Nat
    BY <1>1, <1>5
  <2>2. self[c][f] + spent <= clock' /\ during[c][f] + spent <= clock'
        /\ self[c][f] <= clock' /\ during[c][f] <= clock'
    BY <1>3, <1>4, <2>1
  <2> QED
    BY <2>2
<1>8. /\ seen'[c] = clock' /\ during'[c] = moreDuring /\ self'[c] = moreSelf
      /\ \A d \in Ids : d # c => seen'[d] = seen[d] /\ self'[d] = self[d] /\ during'[d] = during[d]
  BY <1>1, <1>2
<1>9. SeenInv'
  <2>1. seen' \in [Ids -> Nat]
    BY <1>1, <1>2, <1>4
  <2>2. \A d \in Ids : seen'[d] <= clock'
    BY <1>1, <1>2, <1>4, <1>8
  <2>3. self' \in [Ids -> [Funcs -> Nat]] /\ during' \in [Ids -> [Funcs -> Nat]]
    BY <1>1, <1>2, <1>6
  <2> HIDE DEF moreDuring, moreSelf
  <2>4. \A d \in Ids : \A f \in Funcs : self'[d][f] <= seen'[d] /\ during'[d][f] <= seen'[d]
    BY <1>1, <1>7, <1>8
  <2> QED
    BY <2>1, <2>2, <2>3, <2>4 DEF SeenInv
<1>10. \A g \in Funcs :
         /\ self'[c][g] = self[c][g] +
              (IF frames[c] # <<>> /\ Top(frames[c]).fn = g THEN spent ELSE 0)
         /\ during'[c][g] = during[c][g] + (IF g \in OnStack(c) THEN spent ELSE 0)
  BY <1>5, <1>8
<1>11. spent = clock' - seen[c]
  BY DEF spent
<1>12. Accounted(c, spent)
  BY <1>4, <1>8, <1>10, <1>11 DEF Accounted
<1> QED
  BY <1>4, <1>9, <1>12

(* The times of the program are at most the time it is. *)
LEMMA SeenStep == BaseInv /\ SeenInv /\ [Next]_vars => SeenInv'
<1> SUFFICES ASSUME BaseInv, SeenInv, [Next]_vars PROVE SeenInv'
  OBVIOUS
<1>1. clock \in Nat
  BY DEF BaseInv, ProfileInv, ProgramInv
<1>2. CASE UNCHANGED <<seen, self, during>> /\ clock <= clock' /\ clock' \in Int
  <2>1. \A c \in Ids : seen[c] <= clock'
    BY <1>1, <1>2 DEF SeenInv
  <2> QED
    BY <1>2, <2>1 DEF SeenInv
<1>3. CASE \E c \in Ids : Aside(c)
  BY <1>1, <1>3, Accounts
<1>4. clock' \in Nat
  <2>1. BaseInv'
    BY BaseStep
  <2> QED
    BY <2>1 DEF BaseInv, ProfileInv, ProgramInv
<1>5. Quiet => UNCHANGED <<seen, self, during>> /\ clock <= clock'
  BY DEF Quiet
<1>6. \A c \in Ids : ParentChanges(c) \/ FlushChanges(c) => UNCHANGED <<seen, self, during>> /\ clock <= clock'
  BY <1>1 DEF ParentChanges, FlushChanges, history
<1>7. \A c \in Ids : ExitChanges(c) => Aside(c)
  BY DEF ExitChanges
<1>8. \A c \in Ids : \A f \in Funcs, s \in Sites : EnterChanges(c, f, s) => Aside(c)
  BY DEF EnterChanges
<1> QED
  BY <1>2, <1>3, <1>4, <1>5, <1>6, <1>7, <1>8, StepKinds


(* the steps that leave the calls and the times of c as they are *)
Idle(c) ==
  /\ SameProfile(ctx[c], ctx'[c]) /\ frames'[c] = frames[c] /\ clock <= clock'
  /\ seen'[c] = seen[c] /\ self'[c] = self[c] /\ during'[c] = during[c]

(* the others: an enter or an exit of c *)
Calls(c) ==
  /\ Aside(c) /\ phase' = "read"
  /\ \/ \E f \in Funcs, s \in Sites : EnterChanges(c, f, s)
     \/ ExitChanges(c)

(* A context whose times can be compared had comparable ones before.  What *)
(* the flush treats has functions on its stack, and was left by a jump.    *)
LEMMA ComparableSteps ==
  ASSUME BaseInv, SeenInv, HeightInv, [Next]_vars, NEW c \in Ids, Comparable(c)'
  PROVE  Comparable(c) /\ (Idle(c) \/ Calls(c))
<1>1. /\ ManagerInv /\ ProgramInv /\ BirthInv /\ clock \in Nat
      /\ frames[c] \in Seq(Frame) /\ ctx[c].stack \in Seq(Call)
  BY DEF BaseInv, ProfileInv, ProgramInv, ManagerInv, ContextInv, IsContext
<1>2. ~jumped'[c] /\ ~Forked(c)' /\ (phase' = "read" \/ frames'[c] = <<>>)
  BY DEF Comparable
<1>3. CASE Quiet
  <2>1. /\ SameProfile(ctx[c], ctx'[c]) /\ (jumped[c] => jumped'[c]) /\ mode' = mode
        /\ (phase' = "read" => phase = "read") /\ clock <= clock'
        /\ seen' = seen /\ self' = self /\ during' = during
        /\ \/ jumped'[c]
           \/ frames'[c] = frames[c] /\ depth'[c] = depth[c]
           \/ Forked(c) /\ ~Known(c) /\ ~Known(c)'
    BY <1>3 DEF Quiet
  <2>2. ~Forked(c) /\ frames'[c] = frames[c]
    BY <1>2, <2>1 DEF Forked
  <2>3. Comparable(c)
    BY <1>2, <2>1, <2>2 DEF Comparable
  <2>4. Idle(c)
    BY <2>1, <2>2 DEF Idle
  <2> QED
    BY <2>3, <2>4
<1>4. ASSUME NEW e \in Ids, e # c, Aside(e), frames'[c] = frames[c], ctx'[c] = ctx[c]
      PROVE  Comparable(c) /\ Idle(c)
  <2>1. seen'[c] = seen[c] /\ self'[c] = self[c] /\ during'[c] = during[c]
    BY <1>1, <1>4, Accounts DEF Accounted
  <2>2. phase = "read" /\ clock <= clock' /\ mode' = mode /\ jumped' = jumped
    BY <1>1, <1>4 DEF Aside
  <2>3. Comparable(c)
    BY <1>2, <2>2 DEF Comparable, Forked
  <2>4. Idle(c)
    BY <1>4, <2>1, <2>2 DEF Idle, SameProfile
  <2> QED
    BY <2>3, <2>4
<1>5. ASSUME NEW e \in Ids, NEW f \in Funcs, NEW s \in Sites, EnterChanges(e, f, s)
      PROVE  Comparable(c) /\ (Idle(c) \/ Calls(c))
  <2>1. Aside(e) /\ FramesOf(e, Append(frames[e], [fn |-> f, site |-> s, by |-> e]))
    BY <1>5 DEF EnterChanges
  <2>2. CASE e # c
    <3>1. frames'[c] = frames[c] /\ ctx'[c] = ctx[c]
      BY <1>5, <2>1, <2>2 DEF EnterChanges, FramesOf
    <3> QED
      BY <1>4, <2>1, <2>2, <3>1
  <2>3. CASE e = c
    <3>1. frames'[c] # <<>>
      BY <1>1, <2>1, <2>3 DEF FramesOf
    <3>2. phase' = "read" /\ phase = "read" /\ mode' = mode /\ jumped' = jumped
      BY <1>2, <2>1, <3>1 DEF Aside
    <3>3. Comparable(c)
      BY <1>2, <3>2 DEF Comparable, Forked
    <3> QED
      BY <1>5, <2>1, <2>3, <3>2, <3>3 DEF Calls
  <2> QED
    BY <2>2, <2>3
<1>6. ASSUME NEW e \in Ids, ExitChanges(e)
      PROVE  Comparable(c) /\ (Idle(c) \/ Calls(c))
  <2>1. Aside(e) /\ phase' = "read" /\ FramesOf(e, SubSeq(frames[e], 1, Len(frames[e]) - 1))
    BY <1>6 DEF ExitChanges
  <2>2. CASE e # c
    <3>1. frames'[c] = frames[c] /\ ctx'[c] = ctx[c]
      BY <1>6, <2>1, <2>2 DEF ExitChanges, FramesOf
    <3> QED
      BY <1>4, <2>1, <2>2, <3>1
  <2>3. CASE e = c
    <3>1. phase = "read" /\ mode' = mode /\ jumped' = jumped
      BY <2>1 DEF Aside
    <3>2. Comparable(c)
      BY <1>2, <3>1 DEF Comparable, Forked
    <3> QED
      BY <1>6, <2>1, <2>3, <3>2 DEF Calls
  <2> QED
    BY <2>2, <2>3
<1>7. ASSUME NEW e \in Ids, ParentChanges(e) PROVE Comparable(c) /\ Idle(c)
  <2>1. /\ phase = "read" /\ UNCHANGED <<mode, frames, history, clock>> /\ Forked(e)
        /\ \A d \in Ids : d # e => ctx'[d] = ctx[d]
    BY <1>7 DEF ParentChanges
  <2>2. jumped' = jumped /\ mode' = mode /\ ~Forked(c)
    BY <1>2, <2>1 DEF history, Forked
  <2>3. ctx'[c] = ctx[c]
    BY <2>1, <2>2
  <2>4. Comparable(c)
    BY <1>2, <2>1, <2>2 DEF Comparable
  <2>5. Idle(c)
    BY <1>1, <2>1, <2>3 DEF Idle, SameProfile, history
  <2> QED
    BY <2>4, <2>5
<1>8. ASSUME NEW e \in Ids, FlushChanges(e) PROVE Comparable(c) /\ Idle(c)
  <2>1. /\ phase' = "flush" /\ UNCHANGED <<mode, frames, history, clock>> /\ ctx[e].stack # <<>>
        /\ \A d \in Ids : d # e => ctx'[d] = ctx[d]
    BY <1>8 DEF FlushChanges
  <2>2. Comparable(c) /\ frames[c] = <<>>
    BY <1>2, <2>1 DEF Comparable, Forked, history
  <2>3. ctx[c].stack = <<>>
    <3>1. Len(ctx[c].stack) = 0
      BY <2>2 DEF HeightInv
    <3> QED
      BY <1>1, <3>1
  <2>4. ctx'[c] = ctx[c]
    BY <2>1, <2>3
  <2>5. Idle(c)
    BY <1>1, <2>1, <2>4 DEF Idle, SameProfile, history
  <2> QED
    BY <2>2, <2>5
<1> QED
  BY <1>3, <1>5, <1>6, <1>7, <1>8, StepKinds


(* The function on top of the stack is the one that runs. *)
LEMMA TopRuns ==
  ASSUME BaseInv, HeightInv, NEW c \in Ids, Comparable(c), phase = "read"
  PROVE  /\ ctx[c].stack # <<>> <=> frames[c] # <<>>
         /\ frames[c] # <<>> =>
              /\ ctx[c].table[Leaving(ctx[c])].symbol = Top(frames[c]).fn
              /\ Top(frames[c]).fn \in Funcs \ {NULL} /\ Top(frames[c]).by = c
<1>1. /\ frames[c] \in Seq(Frame) /\ ctx[c].stack \in Seq(Call)
      /\ Len(ctx[c].stack) = Len(frames[c]) /\ ~jumped[c] /\ ~Forked(c)
      /\ Follows(ctx[c], frames[c], c) /\ \A k \in 1 .. Len(frames[c]) : frames[c][k].by = c
  BY DEF BaseInv, ProfileInv, ProgramInv, ManagerInv, ContextInv, IsContext, HeightInv,
         Comparable, FollowInv, BirthInv
<1>2. ctx[c].stack # <<>> <=> frames[c] # <<>>
  BY <1>1
<1>3. ASSUME frames[c] # <<>>
      PROVE  /\ ctx[c].table[Leaving(ctx[c])].symbol = Top(frames[c]).fn
             /\ Top(frames[c]).fn \in Funcs \ {NULL} /\ Top(frames[c]).by = c
  <2>1. Len(frames[c]) \in 1 .. Len(frames[c]) /\ Top(frames[c]) = frames[c][Len(frames[c])]
    BY <1>1, <1>3 DEF Top
  <2>2. Top(frames[c]).by = c /\ Top(frames[c]) \in Frame
    BY <1>1, <2>1
  <2>3. Top(frames[c]).fn \in Funcs \ {NULL}
    BY <2>2, ProfileAssumption DEF Frame
  <2> QED
    BY <1>1, <1>3, <2>2, <2>3, FollowsTop
<1> QED
  BY <1>2, <1>3

(* An exit of it is not ignored. *)
LEMMA OwnExit ==
  ASSUME BaseInv, HeightInv, NEW c \in Ids, Comparable(c), ExitChanges(c)
  PROVE  \E m : /\ m.stack = ctx[c].stack /\ m.table = ctx[c].table /\ m.stack # <<>>
                /\ ReadingInv(m) /\ m.table[Leaving(m)].symbol = Top(frames[c]).fn
                /\ ExitEffect(m, ctx'[c], Top(frames[c]).fn, Top(frames[c]).site, clock')
<1> DEFINE fn == Top(frames[c]).fn
           site == Top(frames[c]).site
<1>1. phase = "read" /\ frames[c] # <<>>
  BY DEF ExitChanges, Aside
<1>2. PICK m : /\ ArcAdded(c, m, site, fn) /\ ReadingInv(m)
               /\ ~Ignored(m, fn) => ExitEffect(m, ctx'[c], fn, site, clock')
  BY DEF ExitChanges
<1>3. m.stack = ctx[c].stack /\ m.table = ctx[c].table
  BY <1>2 DEF ArcAdded
<1>4. m.stack # <<>> /\ ctx[c].table[Leaving(ctx[c])].symbol = fn
  BY <1>1, <1>3, TopRuns
<1>5. Leaving(m) = Leaving(ctx[c])
  BY <1>3 DEF Leaving
<1>6. ~Ignored(m, fn)
  BY <1>3, <1>4, <1>5 DEF Ignored, Leaving
<1> QED
  BY <1>2, <1>3, <1>4, <1>5, <1>6

(* The stack stays as deep as the calls are. *)
LEMMA HeightStep == BaseInv /\ SeenInv /\ HeightInv /\ [Next]_vars => HeightInv'
<1> SUFFICES ASSUME BaseInv, SeenInv, HeightInv, [Next]_vars, NEW c \in Ids, Comparable(c)'
             PROVE  Len(ctx'[c].stack) = Len(frames'[c])
  BY DEF HeightInv
<1>1. /\ frames[c] \in Seq(Frame) /\ ctx[c].stack \in Seq(Call)
  BY DEF BaseInv, ProfileInv, ProgramInv, ManagerInv, ContextInv, IsContext
<1>2. Comparable(c) /\ (Idle(c) \/ Calls(c)) /\ Len(ctx[c].stack) = Len(frames[c])
  BY ComparableSteps DEF HeightInv
<1>3. CASE Idle(c)
  BY <1>2, <1>3 DEF Idle, SameProfile
<1>4. ASSUME NEW f \in Funcs, NEW s \in Sites, EnterChanges(c, f, s), phase' = "read"
      PROVE  Len(ctx'[c].stack) = Len(frames'[c])
  <2> DEFINE e == [fn |-> f, site |-> s, by |-> c]
  <2>1. frames'[c] = Append(frames[c], e)
    BY <1>4 DEF EnterChanges, FramesOf
  <2>2. PICK slot \in Slots : EnterEffect(ctx[c], ctx'[c], slot, f, s, clock')
    BY <1>4 DEF EnterChanges
  <2> DEFINE d == [function |-> slot, time |-> clock', call_site |-> s]
  <2>3. ctx'[c].stack = Append(ctx[c].stack, d)
    BY <2>2 DEF EnterEffect
  <2> HIDE DEF e, d
  <2> QED
    BY <1>1, <1>2, <2>1, <2>3
<1>5. ASSUME ExitChanges(c) PROVE Len(ctx'[c].stack) = Len(frames'[c])
  <2>1. frames[c] # <<>> /\ frames'[c] = SubSeq(frames[c], 1, Len(frames[c]) - 1)
    BY <1>5 DEF ExitChanges, FramesOf
  <2>2. ctx[c].stack # <<>> /\ ctx'[c].stack = Pop(ctx[c].stack)
    <3>1. PICK m : /\ m.stack = ctx[c].stack /\ m.stack # <<>>
                   /\ ExitEffect(m, ctx'[c], Top(frames[c]).fn, Top(frames[c]).site, clock')
      BY <1>2, <1>5, OwnExit
    <3> QED
      BY <3>1 DEF ExitEffect
  <2>3. Len(Pop(ctx[c].stack)) = Len(ctx[c].stack) - 1
    BY <1>1, <2>2, PopPlaces
  <2>4. Len(SubSeq(frames[c], 1, Len(frames[c]) - 1)) = Len(frames[c]) - 1
    BY <1>1, <2>1, FrontFrames
  <2> QED
    BY <1>2, <2>1, <2>2, <2>3, <2>4
<1> QED
  BY <1>2, <1>3, <1>4, <1>5 DEF Calls

(* The clock is far enough from the start for no time to wrap. *)
LEMMA StartedNow ==
  ASSUME BaseInv, SeenInv, HeightInv, LocalInv, NEW c \in Ids, Comparable(c), phase = "read",
         clock' = clock + 1, clock' < U64,
         NEW m, m.stack = ctx[c].stack, m.table = ctx[c].table
  PROVE  Started(m, seen[c], clock')
<1>1. clock \in Nat /\ clock < U64 /\ seen[c] \in Nat /\ seen[c] <= clock
  <2>1. clock \in Nat /\ U64 \in Nat
    BY FunctionsAssumption DEF BaseInv, ProfileInv, ProgramInv
  <2> QED
    BY <2>1 DEF SeenInv
<1>2. Leaving(m) = Leaving(ctx[c])
  BY DEF Leaving
<1>3. Stopwatch(ctx[c], seen[c]) /\ \A f \in Funcs : LocalOf(ctx[c], f) = self[c][f]
  BY <1>1 DEF LocalInv, LocalHolds
<1>4. Stopwatch(m, seen[c])
  BY <1>2, <1>3 DEF Stopwatch
<1>5. ASSUME m.stack # <<>> PROVE Local(m.table[Leaving(m)]) <= seen[c]
  <2> DEFINE f == Top(frames[c]).fn
             l == Leaving(ctx[c])
  <2>1. f \in Funcs /\ ctx[c].table[l].symbol = f
    BY <1>5, TopRuns
  <2>2. ReadingInv(ctx[c])
    BY DEF BaseInv, ProfileInv, ManagerInv
  <2>3. ctx[c].table \in [Slots -> Entry]
    BY <2>2 DEF ReadingInv, ContextInv, IsContext
  <2>4. l \in Slots
    BY <1>5, <2>2, LeavingFacts
  <2> HIDE DEF f, l
  <2>5. Local(ctx[c].table[l]) <= LocalOf(ctx[c], f) /\ Local(ctx[c].table[l]) \in Nat
    BY <2>1, <2>3, <2>4, LocalFacts
  <2>6. LocalOf(ctx[c], f) = self[c][f] /\ self[c][f] \in Nat /\ self[c][f] <= seen[c]
    BY <1>3, <2>1 DEF SeenInv
  <2>7. Local(ctx[c].table[l]) <= seen[c]
    BY <1>1, <2>5, <2>6
  <2> QED
    BY <1>2, <2>7 DEF l
<1> QED
  BY <1>1, <1>4, <1>5 DEF Started

(* The local times stay those that the program has run. *)
LEMMA LocalStep == BaseInv /\ SeenInv /\ HeightInv /\ LocalInv /\ [Next]_vars => LocalInv'
<1> SUFFICES ASSUME BaseInv, SeenInv, HeightInv, LocalInv, [Next]_vars, NEW c \in Ids,
                    clock' < U64, Comparable(c)'
             PROVE  Stopwatch(ctx'[c], seen'[c]) /\ \A f \in Funcs : LocalOf(ctx'[c], f) = self'[c][f]
  <2>1. ASSUME \A c \in Ids : clock' < U64 /\ Comparable(c)' =>
                 Stopwatch(ctx'[c], seen'[c]) /\ \A f \in Funcs : LocalOf(ctx'[c], f) = self'[c][f]
        PROVE  LocalInv'
    BY <2>1 DEF LocalInv, LocalHolds, Stopwatch, LocalOf, Local, Leaving, Top
  <2> QED
    BY <2>1
<1>1. clock \in Nat /\ U64 \in Nat
  BY FunctionsAssumption DEF BaseInv, ProfileInv, ProgramInv
<1>2. Comparable(c) /\ (Idle(c) \/ Calls(c))
  BY ComparableSteps
<1>3. CASE Idle(c)
  <2>1. clock < U64
    <3>1. clock' \in Nat
      BY BaseStep DEF BaseInv, ProfileInv, ProgramInv
    <3> QED
      BY <1>1, <1>3, <3>1 DEF Idle
  <2>2. Stopwatch(ctx[c], seen[c]) /\ \A f \in Funcs : LocalOf(ctx[c], f) = self[c][f]
    BY <1>2, <2>1 DEF LocalInv, LocalHolds
  <2>3. /\ ctx'[c].stack = ctx[c].stack /\ ctx'[c].table = ctx[c].table
        /\ seen'[c] = seen[c] /\ self'[c] = self[c]
    BY <1>3 DEF Idle, SameProfile
  <2> QED
    BY <2>2, <2>3 DEF Stopwatch, LocalOf, Leaving
<1>4. CASE Calls(c)
  <2>1. Aside(c) /\ clock' = clock + 1 /\ phase = "read" /\ phase' = "read"
    BY <1>4 DEF Calls, Aside
  <2>2. PICK spent \in Nat : Accounted(c, spent)
    BY <1>1, <2>1, Accounts
  <2>3. /\ spent = clock' - seen[c] /\ seen'[c] = clock'
        /\ \A f \in Funcs : self'[c][f] = self[c][f] +
             (IF frames[c] # <<>> /\ Top(frames[c]).fn = f THEN spent ELSE 0)
    BY <2>2 DEF Accounted
  <2>4. \A f \in Funcs : LocalOf(ctx[c], f) = self[c][f]
    <3>1. clock < U64
      BY <1>1, <2>1
    <3> QED
      BY <1>2, <3>1 DEF LocalInv, LocalHolds
  <2>5. \E m : /\ m.stack = ctx[c].stack /\ m.table = ctx[c].table
               /\ RanOn(m, ctx'[c], seen[c], clock')
    <3>1. ASSUME NEW f \in Funcs, NEW s \in Sites, EnterChanges(c, f, s)
          PROVE  RanOn(ctx[c], ctx'[c], seen[c], clock')
      <4>1. PICK slot \in Slots : EnterEffect(ctx[c], ctx'[c], slot, f, s, clock')
        BY <2>1, <3>1 DEF EnterChanges
      <4>2. ReadingInv(ctx[c]) /\ s \in Nat
        BY <2>1, ProfileAssumption DEF BaseInv, ProfileInv, ManagerInv
      <4>3. Started(ctx[c], seen[c], clock')
        BY <1>2, <2>1, StartedNow
      <4> QED
        BY <4>1, <4>2, <4>3, EnterRuns
    <3>2. ASSUME ExitChanges(c)
          PROVE  \E m : /\ m.stack = ctx[c].stack /\ m.table = ctx[c].table
                        /\ RanOn(m, ctx'[c], seen[c], clock')
      <4> DEFINE fn == Top(frames[c]).fn
                 site == Top(frames[c]).site
      <4>1. PICK m : /\ m.stack = ctx[c].stack /\ m.table = ctx[c].table /\ m.stack # <<>>
                     /\ ReadingInv(m) /\ m.table[Leaving(m)].symbol = fn
                     /\ ExitEffect(m, ctx'[c], fn, site, clock')
        BY <1>2, <3>2, OwnExit
      <4>2. fn # NULL
        BY <1>2, <2>1, <4>1, TopRuns
      <4>3. Started(m, seen[c], clock')
        BY <1>2, <2>1, <4>1, StartedNow
      <4> HIDE DEF fn, site
      <4>4. RanOn(m, ctx'[c], seen[c], clock')
        BY <4>1, <4>2, <4>3, ExitRuns
      <4> QED
        BY <4>1, <4>4
    <3> QED
      BY <1>4, <3>1, <3>2 DEF Calls
  <2>6. PICK m : /\ m.stack = ctx[c].stack /\ m.table = ctx[c].table
                 /\ RanOn(m, ctx'[c], seen[c], clock')
    BY <2>5
  <2>7. ASSUME NEW f \in Funcs PROVE LocalOf(ctx'[c], f) = self'[c][f]
    <3>1. LocalOf(m, f) = LocalOf(ctx[c], f) /\ Leaving(m) = Leaving(ctx[c])
      BY <2>6 DEF LocalOf, Leaving
    <3>2. LocalOf(ctx'[c], f) = self[c][f] +
            (IF m.stack # <<>> /\ m.table[Leaving(m)].symbol = f THEN spent ELSE 0)
      BY <2>3, <2>4, <2>6, <3>1 DEF RanOn
    <3>3. m.stack # <<>> /\ m.table[Leaving(m)].symbol = f <=> frames[c] # <<>> /\ Top(frames[c]).fn = f
      BY <1>2, <2>1, <2>6, <3>1, TopRuns
    <3> QED
      BY <2>3, <3>2, <3>3
  <2>8. Stopwatch(ctx'[c], seen'[c])
    BY <2>3, <2>6 DEF RanOn
  <2> QED
    BY <2>7, <2>8
<1> QED
  BY <1>2, <1>3, <1>4

(* The clocks start together. *)
LEMMA TimesInitially == Init => SeenInv /\ HeightInv /\ LocalInv
<1> SUFFICES ASSUME Init PROVE SeenInv /\ HeightInv /\ LocalInv
  OBVIOUS
<1>1. SeenInv
  BY ProfileAssumption DEF Init, SeenInv
<1>2. \A c \in Ids : frames[c] = <<>> /\ ctx[c].stack = <<>>
                     /\ ctx[c].table = [s \in Slots |-> NewFunction(NULL)]
  BY DEF Init, NoContext, EmptyContext
<1>3. ASSUME NEW c \in Ids, NEW f \in Funcs PROVE LocalOf(ctx[c], f) = self[c][f]
  <2>1. f # NULL
    BY ProfileAssumption
  <2>2. \A s \in Slots : ctx[c].table[s].symbol = NULL
    BY <1>2 DEF NewFunction
  <2>3. {s \in Slots : ctx[c].table[s].symbol = f} = {}
    BY <2>1, <2>2
  <2>4. LocalOf(ctx[c], f) = 0
    BY <2>3, SumNothing DEF LocalOf
  <2>5. self[c][f] = 0
    BY DEF Init
  <2> QED
    BY <2>4, <2>5
<1> QED
  BY <1>1, <1>2, <1>3 DEF HeightInv, LocalInv, LocalHolds, Stopwatch

(* "correct local time calculation for recursive functions" (TODO): however *)
(* calls cut it into pieces, the local time of a function is the time that *)
(* it was the one running, until the clock of 64 bits wraps.               *)
THEOREM LocalTimesAreExact == Spec => [](clock < U64 => LocalTimeExact)
<1>1. Spec => [](BaseInv /\ SeenInv /\ HeightInv /\ LocalInv)
  BY BaseInvariance, TimesInitially, SeenStep, HeightStep, LocalStep, PTL DEF Spec
<1>2. LocalInv => (clock < U64 => LocalTimeExact)
  BY DEF LocalInv, LocalHolds, LocalTimeExact, LocalOf, Local, Entries
<1> QED
  BY <1>1, <1>2, PTL


------------------------------------------------------------------------------
(* Total times *)

(* The first place of a function that is on a stack is the least one. *)
LEMMA FirstPlace ==
  ASSUME NEW S, S \subseteq Nat, NEW x \in S, \A y \in S : x <= y
  PROVE  Min(S) = x
<1>1. \E u \in S : \A y \in S : u =< y
  OBVIOUS
<1> DEFINE v == Min(S)
<1>2. v \in S /\ \A y \in S : v =< y
  <2>1. v = CHOOSE u \in S : \A y \in S : u =< y
    BY DEF Min
  <2> HIDE DEF v
  <2> QED
    BY <1>1, <2>1
<1>3. v <= x /\ x <= v /\ v \in Nat /\ x \in Nat
  BY <1>2
<1> HIDE DEF v
<1>4. v = x
  BY <1>3
<1> QED
  BY <1>4 DEF v

(* fc_stack_push leaves the first call of a function that is on the stack. *)
LEMMA SincePush ==
  ASSUME NEW stack \in Seq(Call), NEW e \in Call, NEW s
  PROVE  /\ Places(stack, s) # {} =>
              Places(Append(stack, e), s) # {} /\ Since(Append(stack, e), s) = Since(stack, s)
         /\ Places(stack, s) = {} =>
              /\ Places(Append(stack, e), s) # {} <=> e.function = s
              /\ e.function = s => Since(Append(stack, e), s) = e.time
<1> DEFINE n == Len(stack) + 1
           q == Append(stack, e)
           P == Places(stack, s)
           Q == Places(q, s)
<1>1. Len(q) = n /\ q[n] = e /\ n \in Nat /\ \A k \in 1 .. Len(stack) : q[k] = stack[k]
  OBVIOUS
<1>2. 1 .. n = 1 .. Len(stack) \cup {n} /\ n \notin 1 .. Len(stack)
  OBVIOUS
<1>3. Q = IF e.function = s THEN P \cup {n} ELSE P
  BY <1>1, <1>2 DEF Places
<1>4. P \subseteq 1 .. Len(stack) /\ \A k \in P : k <= n
  BY DEF Places
<1>5. /\ Since(q, s) = q[Min(Q)].time
      /\ Since(stack, s) = stack[Min(P)].time
  BY DEF Since
<1> HIDE DEF n, q, P, Q
<1>6. ASSUME P # {} PROVE Q # {} /\ Since(q, s) = Since(stack, s)
  <2>1. P \subseteq Nat /\ Q \subseteq Nat
    BY <1>1, <1>3, <1>4
  <2>2. PICK x \in P : \A y \in P : x <= y
    BY <1>6, <2>1, Least
  <2>3. x \in Q /\ \A y \in Q : x <= y
    BY <1>3, <1>4, <2>2
  <2>4. Min(P) = x
    BY <2>1, <2>2, FirstPlace
  <2>5. Min(Q) = x
    BY <2>1, <2>3, FirstPlace
  <2>6. q[x] = stack[x]
    BY <1>1, <1>4, <2>2
  <2> QED
    BY <1>5, <2>3, <2>4, <2>5, <2>6
<1>7. ASSUME P = {} PROVE (Q # {} <=> e.function = s) /\ (e.function = s => Since(q, s) = e.time)
  <2>1. e.function = s => Q = {n}
    BY <1>3, <1>7
  <2>2. e.function # s => Q = {}
    BY <1>3, <1>7
  <2>3. ASSUME e.function = s PROVE Since(q, s) = e.time
    <3>1. Q \subseteq Nat /\ n \in Q /\ \A y \in Q : n <= y
      BY <1>1, <2>1, <2>3
    <3>2. Min(Q) = n
      BY <3>1, FirstPlace
    <3> QED
      BY <1>1, <1>5, <3>2
  <2> QED
    BY <2>1, <2>2, <2>3
<1> QED
  BY <1>6, <1>7 DEF P, Q, q

(* fc_stack_pop takes the first call of a function that has one only. *)
LEMMA SincePop ==
  ASSUME NEW stack \in Seq(Call), stack # <<>>, NEW s
  PROVE  /\ Top(stack).function # s =>
              /\ Places(Pop(stack), s) # {} <=> Places(stack, s) # {}
              /\ Places(stack, s) # {} => Since(Pop(stack), s) = Since(stack, s)
         /\ Top(stack).function = s /\ Cardinality(Places(stack, s)) <= 1 =>
              Places(Pop(stack), s) = {} /\ Since(stack, s) = Top(stack).time
         /\ Top(stack).function = s /\ Cardinality(Places(stack, s)) > 1 =>
              Places(Pop(stack), s) # {} /\ Since(Pop(stack), s) = Since(stack, s)
<1> DEFINE n == Len(stack)
           q == Pop(stack)
           P == Places(stack, s)
           Q == Places(q, s)
<1>1. n \in Nat /\ n >= 1 /\ Top(stack) = stack[n]
  BY DEF Top
<1>2. /\ q \in Seq(Call) /\ Len(q) = n - 1 /\ \A k \in 1 .. n - 1 : q[k] = stack[k]
      /\ Cardinality(Q) = Cardinality(P) - (IF Top(stack).function = s THEN 1 ELSE 0)
  BY PopPlaces
<1>3. /\ IsFiniteSet(P) /\ Cardinality(P) \in Nat /\ IsFiniteSet(Q) /\ Cardinality(Q) \in Nat
  BY <1>2, PlacesFinite
<1>4. Q = P \ {n}
  <2>1. 1 .. n - 1 = (1 .. n) \ {n}
    BY <1>1
  <2>2. Q = {k \in 1 .. n - 1 : q[k].function = s}
    BY <1>2 DEF Places
  <2>3. Q = {k \in (1 .. n) \ {n} : stack[k].function = s}
    BY <1>2, <2>1, <2>2
  <2> QED
    BY <2>3 DEF Places
<1>5. P \subseteq 1 .. n /\ (n \in P <=> Top(stack).function = s)
  BY <1>1 DEF Places
<1>6. /\ Since(q, s) = q[Min(Q)].time
      /\ Since(stack, s) = stack[Min(P)].time
  BY DEF Since
<1> HIDE DEF n, q, P, Q
<1>7. ASSUME Q # {} PROVE Since(q, s) = Since(stack, s)
  <2>1. P \subseteq Nat /\ Q \subseteq Nat
    BY <1>1, <1>4, <1>5
  <2>2. PICK x \in Q : \A y \in Q : x <= y
    BY <1>7, <2>1, Least
  <2>3. x \in P /\ x \in 1 .. n - 1
    BY <1>1, <1>4, <1>5, <2>2
  <2>4. \A y \in P : x <= y
    BY <1>1, <1>4, <2>2, <2>3
  <2>5. Min(P) = x
    BY <2>1, <2>3, <2>4, FirstPlace
  <2>6. Min(Q) = x
    BY <2>1, <2>2, FirstPlace
  <2> QED
    BY <1>2, <1>6, <2>3, <2>5, <2>6
<1>8. ASSUME Top(stack).function # s PROVE Q = P
  BY <1>4, <1>5, <1>8
<1>9. ASSUME Top(stack).function = s, Cardinality(P) <= 1
      PROVE  Q = {} /\ Since(stack, s) = Top(stack).time
  <2>1. Cardinality(Q) = 0
    BY <1>2, <1>3, <1>9
  <2>2. Q = {}
    BY <1>3, <2>1, FS_EmptySet
  <2>3. P \subseteq Nat /\ n \in P /\ \A y \in P : n <= y
    BY <1>1, <1>4, <1>5, <1>9, <2>2
  <2>4. Min(P) = n
    BY <2>3, FirstPlace
  <2> QED
    BY <1>1, <1>6, <2>2, <2>4
<1>10. ASSUME Top(stack).function = s, Cardinality(P) > 1 PROVE Q # {}
  <2>1. Cardinality(Q) > 0
    BY <1>2, <1>3, <1>10
  <2>2. Q = {} => Cardinality(Q) = 0
    BY FS_EmptySet
  <2> QED
    BY <2>1, <2>2
<1> QED
  BY <1>7, <1>8, <1>9, <1>10 DEF P, Q, q

(* The time of the first call is one of those on the stack. *)
LEMMA SinceFacts ==
  ASSUME NEW stack \in Seq(Call), NEW s, Places(stack, s) # {}
  PROVE  Since(stack, s) \in Nat /\ \E k \in 1 .. Len(stack) : Since(stack, s) = stack[k].time
<1> DEFINE P == Places(stack, s)
<1>1. P \subseteq 1 .. Len(stack) /\ P \subseteq Nat
  BY DEF Places
<1>2. Since(stack, s) = stack[Min(P)].time
  BY DEF Since
<1>3. P # {}
  OBVIOUS
<1> HIDE DEF P
<1>4. PICK x \in P : \A y \in P : x <= y
  BY <1>1, <1>3, Least
<1>5. Min(P) = x
  BY <1>1, <1>4, FirstPlace
<1>6. x \in 1 .. Len(stack) /\ stack[x] \in Call
  BY <1>1, <1>4
<1> QED
  BY <1>2, <1>5, <1>6 DEF Call

(* a call of the function is on the stack *)
InCall(m, g) == \E k \in 1 .. Len(m.stack) : SymbolAt(m, k) = g

(* It is there when its entry is. *)
LEMMA InCallPlaces ==
  ASSUME NEW m, m.stack \in Seq(Call), Single(m), NEW s \in Slots, m.table[s].symbol # NULL
  PROVE  Places(m.stack, s) # {} <=> InCall(m, m.table[s].symbol)
<1>1. \A k \in 1 .. Len(m.stack) : m.stack[k].function \in Slots
  <2>1. \A k \in 1 .. Len(m.stack) : m.stack[k] \in Call
    OBVIOUS
  <2> QED
    BY <2>1 DEF Call
<1>2. ASSUME NEW k \in Places(m.stack, s) PROVE InCall(m, m.table[s].symbol)
  BY <1>2 DEF Places, InCall, SymbolAt
<1>3. ASSUME NEW k \in 1 .. Len(m.stack), SymbolAt(m, k) = m.table[s].symbol
      PROVE  k \in Places(m.stack, s)
  <2>1. m.stack[k].function = s
    BY <1>1, <1>3 DEF SymbolAt, Single
  <2> QED
    BY <2>1 DEF Places
<1> QED
  BY <1>2, <1>3 DEF InCall

(* A function without an entry is not called. *)
LEMMA NotInCall ==
  ASSUME NEW m, m.stack \in Seq(Call), NEW g, \A s \in Slots : m.table[s].symbol # g
  PROVE  ~InCall(m, g)
<1>1. \A k \in 1 .. Len(m.stack) : m.stack[k] \in Call
  OBVIOUS
<1>2. \A k \in 1 .. Len(m.stack) : m.stack[k].function \in Slots
  BY <1>1 DEF Call
<1> QED
  BY <1>2 DEF InCall, SymbolAt

(* the entry is in a call that goes on, or in none *)
GoesOn(m, r, s) ==
  /\ r.table[s].total_time = m.table[s].total_time
  /\ Places(r.stack, s) # {} <=> Places(m.stack, s) # {}
  /\ Places(m.stack, s) # {} => Since(r.stack, s) = Since(m.stack, s)

(* its total time has become longer by that of the call *)
TotalRan(m, r, s, last, now) ==
  Total(r, s, now) = Total(m, s, last) + (IF Places(m.stack, s) # {} THEN now - last ELSE 0)

(* Time passes for an entry that is in a call. *)
LEMMA TotalRuns ==
  ASSUME NEW m, NEW r, NEW s \in Slots, NEW last \in Nat, NEW now \in Nat,
         m.stack \in Seq(Call), m.table \in [Slots -> Entry], GoesOn(m, r, s)
  PROVE  TotalRan(m, r, s, last, now)
<1>1. m.table[s] \in Entry
  OBVIOUS
<1>2. m.table[s].total_time \in Nat
  BY <1>1 DEF Entry, Times
<1>3. CASE Places(m.stack, s) = {}
  BY <1>2, <1>3 DEF Total, TotalRan, GoesOn
<1>4. CASE Places(m.stack, s) # {}
  <2> DEFINE a == m.table[s].total_time
             b == Since(m.stack, s)
  <2>1. a \in Nat /\ b \in Nat
    BY <1>2, <1>4, SinceFacts
  <2>2. Total(m, s, last) = a + (last - b) /\ Total(r, s, now) = a + (now - b)
    BY <1>4 DEF Total, GoesOn
  <2> HIDE DEF a, b
  <2>3. a + (now - b) = a + (last - b) + (now - last)
    BY <2>1
  <2> QED
    BY <1>4, <2>2, <2>3 DEF TotalRan
<1> QED
  BY <1>3, <1>4

(* the time from last to now is added to that of the functions in a call *)
TimesPass(m, last, now, times, later) ==
  /\ last \in Nat /\ now \in Nat /\ last <= now /\ now < U64
  /\ \A g \in Funcs :
       /\ times[g] \in Nat /\ times[g] <= last
       /\ later[g] = times[g] + (IF InCall(m, g) THEN now - last ELSE 0)

(* The total times go on at an enter, and the new call starts with none. *)
LEMMA EnterTotals ==
  ASSUME NEW m, ReadingInv(m), Plain(m), NoneWrapped(m), Reachable(m), Single(m),
         NEW r, NEW slot \in Slots, NEW f \in Funcs, NEW site \in Nat, NEW last, NEW now,
         NEW times, NEW later, TimesPass(m, last, now, times, later), TotalsAre(m, last, times),
         EnterEffect(m, r, slot, f, site, now)
  PROVE  TotalsAre(r, now, later)
<1> DEFINE known == Opened(m, f, slot)
           e == [function |-> slot, time |-> now, call_site |-> site]
<1>1. /\ m.table \in [Slots -> Entry] /\ m.stack \in Seq(Call) /\ last \in Nat /\ now \in Nat
      /\ last <= now /\ now < U64 /\ f \in Nat \ {NULL}
  BY ProfileAssumption DEF ReadingInv, ContextInv, IsContext, TimesPass
<1>2. /\ GivenSlot(m, f, slot) /\ known \in [Slots -> Entry] /\ r.stack = Append(m.stack, e)
      /\ e \in Call /\ e.function = slot /\ e.time = now
  BY <1>1 DEF EnterEffect, Call
<1>3. \A s \in Slots : r.table[s].symbol = known[s].symbol
                       /\ r.table[s].total_time = known[s].total_time
  BY DEF EnterEffect, SameSums
<1>4. Find(m.table, f) # NoSlot => known = m.table /\ m.table[slot].symbol = f
  BY <1>2 DEF Opened, GivenSlot
<1>5. Find(m.table, f) = NoSlot =>
        /\ slot \in Free(m.table) /\ m.table[slot].symbol = NULL
        /\ known = [m.table EXCEPT ![slot] = NewFunction(f)]
  BY <1>2 DEF Opened, GivenSlot, Free
<1> HIDE DEF known, e
<1>6. \A s \in Slots : s # slot => known[s] = m.table[s]
  BY <1>1, <1>4, <1>5
<1>7. known[slot].symbol = f
  BY <1>1, <1>4, <1>5 DEF NewFunction
<1>8. \A k \in 1 .. Len(r.stack) : r.stack[k].time <= now
  <2> SUFFICES ASSUME NEW k \in 1 .. Len(r.stack) PROVE r.stack[k].time <= now
    OBVIOUS
  <2>1. CASE k = Len(m.stack) + 1
    <3>1. r.stack[k] = e
      BY <1>1, <1>2, <2>1
    <3> QED
      BY <1>1, <1>2, <3>1
  <2>2. CASE k # Len(m.stack) + 1
    <3>1. k \in 1 .. Len(m.stack) /\ r.stack[k] = m.stack[k]
      BY <1>1, <1>2, <2>2
    <3>2. m.stack[k] \in Call /\ m.stack[k].time <= last
      BY <1>1, <3>1 DEF TotalsAre
    <3>3. m.stack[k].time \in Nat
      BY <3>2 DEF Call
    <3> QED
      BY <1>1, <3>1, <3>2, <3>3
  <2> QED
    BY <2>1, <2>2
<1>9. ASSUME NEW s \in Slots, r.table[s].symbol # NULL, s # slot \/ Places(m.stack, slot) # {}
      PROVE  Total(r, s, now) = later[r.table[s].symbol]
  <2>1. known[s] = m.table[s]
    <3>1. CASE s # slot
      BY <1>6, <3>1
    <3>2. CASE Places(m.stack, slot) # {}
      <4>1. slot \notin Free(m.table)
        <5>1. PICK k \in 1 .. Len(m.stack) : m.stack[k].function = slot
          BY <3>2 DEF Places
        <5> QED
          BY <5>1 DEF ReadingInv, ContextInv
      <4> QED
        BY <1>4, <1>5, <4>1
    <3> QED
      BY <1>9, <3>1, <3>2
  <2>2. m.table[s].symbol = r.table[s].symbol /\ m.table[s].total_time = r.table[s].total_time
    BY <1>3, <2>1
  <2>3. /\ Places(m.stack, s) # {} =>
             Places(r.stack, s) # {} /\ Since(r.stack, s) = Since(m.stack, s)
        /\ Places(m.stack, s) = {} => (Places(r.stack, s) # {} <=> s = slot)
    <3>1. m.stack \in Seq(Call) /\ e \in Call
      BY <1>1, <1>2
    <3>2. /\ Places(m.stack, s) # {} =>
               /\ Places(Append(m.stack, e), s) # {}
               /\ Since(Append(m.stack, e), s) = Since(m.stack, s)
          /\ Places(m.stack, s) = {} => (Places(Append(m.stack, e), s) # {} <=> e.function = s)
      BY ONLY <3>1, SincePush
    <3> QED
      BY <1>2, <3>2
  <2>4. Places(r.stack, s) # {} <=> Places(m.stack, s) # {}
    BY <1>9, <2>3
  <2>5. Total(r, s, now) = Total(m, s, last) + (IF Places(m.stack, s) # {} THEN now - last ELSE 0)
    <3>1. last \in Nat /\ now \in Nat /\ m.stack \in Seq(Call) /\ m.table \in [Slots -> Entry]
      BY <1>1
    <3>2. GoesOn(m, r, s)
      BY <2>2, <2>3, <2>4 DEF GoesOn
    <3>3. TotalRan(m, r, s, last, now)
      BY ONLY <3>1, <3>2, s \in Slots, TotalRuns
    <3> QED
      BY <3>3 DEF TotalRan
  <2> DEFINE g == m.table[s].symbol
  <2>6. g \in Funcs /\ g # NULL
    BY <1>9, <2>2 DEF Plain
  <2>7. Total(m, s, last) = times[g] /\ (Places(m.stack, s) # {} <=> InCall(m, g))
    BY <1>1, <2>6, InCallPlaces DEF TotalsAre
  <2>8. later[g] = times[g] + (IF InCall(m, g) THEN now - last ELSE 0)
    BY <2>6 DEF TimesPass
  <2> QED
    BY <2>2, <2>5, <2>7, <2>8
<1>10. ASSUME Places(m.stack, slot) = {} PROVE Total(r, slot, now) = later[f]
  <2>1. Places(r.stack, slot) # {} /\ Since(r.stack, slot) = now
    BY <1>1, <1>2, <1>10, SincePush
  <2>2. known[slot] \in Entry
    BY <1>2
  <2>3. known[slot].total_time \in Nat
    BY <2>2 DEF Entry, Times
  <2>4. Total(r, slot, now) = known[slot].total_time
    BY <1>1, <1>3, <2>1, <2>3 DEF Total
  <2>5. CASE Find(m.table, f) # NoSlot
    <3>1. known[slot] = m.table[slot] /\ m.table[slot].symbol = f
      BY <1>4, <2>5
    <3>2. Total(m, slot, last) = known[slot].total_time
      BY <1>10, <2>3, <3>1 DEF Total
    <3>3. Total(m, slot, last) = times[f] /\ ~InCall(m, f)
      BY <1>1, <1>10, <3>1, InCallPlaces DEF TotalsAre
    <3>4. later[f] = times[f] + 0 /\ times[f] \in Nat
      BY <3>3 DEF TimesPass
    <3> QED
      BY <2>4, <3>2, <3>3, <3>4
  <2>6. CASE Find(m.table, f) = NoSlot
    <3>1. known[slot].total_time = 0
      BY <1>1, <1>5, <2>6 DEF NewFunction
    <3>2. \A s \in Slots : m.table[s].symbol # f
      BY <1>1, <2>6, FindReaches
    <3>3. times[f] = 0 /\ ~InCall(m, f)
      BY <1>1, <3>2, NotInCall DEF TotalsAre
    <3>4. later[f] = times[f] + 0
      BY <3>3 DEF TimesPass
    <3> QED
      BY <2>4, <3>1, <3>3, <3>4
  <2> QED
    BY <2>5, <2>6
<1>11. ASSUME NEW g \in Funcs, \A s \in Slots : r.table[s].symbol # g PROVE later[g] = 0
  <2>1. \A s \in Slots : m.table[s].symbol # g
    <3> SUFFICES ASSUME NEW s \in Slots, m.table[s].symbol = g PROVE FALSE
      OBVIOUS
    <3>1. g # NULL
      BY ProfileAssumption
    <3>2. known[s].symbol # g
      BY <1>3, <1>11
    <3>3. s = slot
      BY <1>6, <3>2
    <3> QED
      BY <1>4, <1>5, <3>1, <3>2, <3>3
  <2>2. times[g] = 0 /\ ~InCall(m, g)
    BY <1>1, <2>1, NotInCall DEF TotalsAre
  <2>3. later[g] = times[g] + 0
    BY <2>2 DEF TimesPass
  <2> QED
    BY <2>2, <2>3
<1>12. \A s \in Slots : r.table[s].symbol # NULL => Total(r, s, now) = later[r.table[s].symbol]
  BY <1>3, <1>7, <1>9, <1>10
<1> QED
  BY <1>8, <1>11, <1>12 DEF TotalsAre

(* They go on at an exit, which adds that of the last call of a function. *)
LEMMA ExitTotals ==
  ASSUME NEW m, ReadingInv(m), Plain(m), Single(m), m.stack # <<>>, NEW r, NEW fn, fn # NULL,
         m.table[Leaving(m)].symbol = fn, NEW site, NEW last, NEW now,
         NEW times, NEW later, TimesPass(m, last, now, times, later), TotalsAre(m, last, times),
         ExitEffect(m, r, fn, site, now)
  PROVE  TotalsAre(r, now, later)
<1> DEFINE l == Leaving(m)
<1>1. /\ m.table \in [Slots -> Entry] /\ m.stack \in Seq(Call) /\ last \in Nat /\ now \in Nat
      /\ last <= now /\ now < U64 /\ U64 \in Nat /\ \A s \in Slots : Counted(m, s)
  BY FunctionsAssumption DEF ReadingInv, ContextInv, IsContext, TimesPass
<1>2. /\ l \in Slots /\ l = Top(m.stack).function /\ m.table[l] \in Entry
      /\ m.table[l].symbol = fn /\ m.stack # <<>>
  BY LeavingFacts DEF Top
<1>3. \A s \in Slots : r.table[s].symbol = m.table[s].symbol
  BY ExitNamesakes DEF Namesakes
<1>4. r.stack = Pop(m.stack)
  BY DEF ExitEffect
<1>5. \A s \in Slots : r.table[s].total_time =
        IF s = l /\ m.table[s].recursive_state <= 1
          THEN Add(m.table[s].total_time, Sub(now, Top(m.stack).time)) ELSE m.table[s].total_time
  BY DEF ExitEffect
<1> HIDE DEF l
<1>6. Len(m.stack) \in 1 .. Len(m.stack) /\ Top(m.stack) = m.stack[Len(m.stack)]
  BY <1>1, <1>2 DEF Top
<1>7. Top(m.stack).time \in Nat /\ Top(m.stack).time <= last
  <2>1. Top(m.stack) \in Call
    BY <1>1, <1>6
  <2>2. Top(m.stack).time \in Nat
    BY <2>1 DEF Call
  <2> QED
    BY <1>6, <2>2 DEF TotalsAre
<1>8. \A k \in 1 .. Len(r.stack) : r.stack[k].time <= now
  <2> SUFFICES ASSUME NEW k \in 1 .. Len(r.stack) PROVE r.stack[k].time <= now
    OBVIOUS
  <2>1. m.stack \in Seq(Call) /\ m.stack # <<>>
    BY <1>1, <1>2
  <2>2. Len(Pop(m.stack)) = Len(m.stack) - 1 /\ \A j \in 1 .. Len(m.stack) - 1 : Pop(m.stack)[j] = m.stack[j]
    BY ONLY <2>1, PopPlaces
  <2>3. k \in 1 .. Len(m.stack) /\ r.stack[k] = m.stack[k]
    BY <1>1, <1>4, <2>2
  <2>4. m.stack[k] \in Call /\ m.stack[k].time <= last
    BY <1>1, <2>3 DEF TotalsAre
  <2>5. m.stack[k].time \in Nat
    BY <2>4 DEF Call
  <2> QED
    BY <1>1, <2>3, <2>4, <2>5
<1>9. ASSUME NEW s \in Slots
      PROVE  /\ l # s => /\ Places(r.stack, s) # {} <=> Places(m.stack, s) # {}
                         /\ Places(m.stack, s) # {} => Since(r.stack, s) = Since(m.stack, s)
             /\ l = s /\ m.table[s].recursive_state <= 1 =>
                  Places(r.stack, s) = {} /\ Since(m.stack, s) = Top(m.stack).time
             /\ l = s /\ m.table[s].recursive_state > 1 =>
                  Places(r.stack, s) # {} /\ Since(r.stack, s) = Since(m.stack, s)
  <2>1. m.stack \in Seq(Call) /\ m.stack # <<>>
    BY <1>1, <1>2
  <2>2. /\ Top(m.stack).function # s =>
             /\ Places(Pop(m.stack), s) # {} <=> Places(m.stack, s) # {}
             /\ Places(m.stack, s) # {} => Since(Pop(m.stack), s) = Since(m.stack, s)
        /\ Top(m.stack).function = s /\ Cardinality(Places(m.stack, s)) <= 1 =>
             Places(Pop(m.stack), s) = {} /\ Since(m.stack, s) = Top(m.stack).time
        /\ Top(m.stack).function = s /\ Cardinality(Places(m.stack, s)) > 1 =>
             Places(Pop(m.stack), s) # {} /\ Since(Pop(m.stack), s) = Since(m.stack, s)
    BY ONLY <2>1, SincePop
  <2>3. m.table[s].recursive_state = Cardinality(Places(m.stack, s))
    BY <1>1 DEF Counted
  <2> QED
    BY <1>2, <1>4, <2>2, <2>3
<1>10. Places(m.stack, l) # {}
  BY <1>2, <1>6 DEF Places
<1>11. ASSUME NEW s \in Slots, r.table[s].symbol # NULL
       PROVE  Total(r, s, now) = later[r.table[s].symbol]
  <2> DEFINE g == m.table[s].symbol
  <2>1. g \in Funcs /\ g # NULL /\ r.table[s].symbol = g
    BY <1>3, <1>11 DEF Plain
  <2>2. Total(m, s, last) = times[g] /\ (Places(m.stack, s) # {} <=> InCall(m, g))
    BY <1>1, <2>1, InCallPlaces DEF TotalsAre
  <2>3. /\ later[g] = times[g] + (IF InCall(m, g) THEN now - last ELSE 0)
        /\ times[g] \in Nat /\ times[g] <= last
    BY <2>1 DEF TimesPass
  <2>4. m.table[s] \in Entry
    BY <1>1
  <2>5. m.table[s].total_time \in Nat /\ m.table[s].recursive_state \in Nat
    BY <2>4 DEF Entry, Times
  <2> HIDE DEF g
  <2>6. CASE l # s \/ m.table[s].recursive_state > 1
    <3>1. last \in Nat /\ now \in Nat /\ m.stack \in Seq(Call) /\ m.table \in [Slots -> Entry]
      BY <1>1
    <3>2. GoesOn(m, r, s)
      <4>1. r.table[s].total_time = m.table[s].total_time
        BY <1>5, <2>5, <2>6
      <4>2. /\ Places(r.stack, s) # {} <=> Places(m.stack, s) # {}
            /\ Places(m.stack, s) # {} => Since(r.stack, s) = Since(m.stack, s)
        BY <1>9, <1>10, <2>6
      <4> QED
        BY <4>1, <4>2 DEF GoesOn
    <3>3. TotalRan(m, r, s, last, now)
      BY ONLY <3>1, <3>2, s \in Slots, TotalRuns
    <3> QED
      BY <2>1, <2>2, <2>3, <3>3 DEF TotalRan
  <2>7. CASE l = s /\ m.table[s].recursive_state <= 1
    <3> DEFINE a == m.table[s].total_time
               b == Top(m.stack).time
    <3>1. Places(r.stack, s) = {} /\ Since(m.stack, s) = b /\ Places(m.stack, s) # {}
      BY <1>9, <1>10, <2>7
    <3>2. Total(m, s, last) = a + (last - b)
      BY <3>1 DEF Total
    <3>3. a \in Nat /\ b \in Nat /\ b <= last /\ a + (last - b) = times[g] /\ times[g] <= last
      BY <1>7, <2>2, <2>3, <2>5, <3>2
    <3>4. r.table[s].total_time = Add(a, Sub(now, b))
      BY <1>5, <2>7
    <3>5. Total(r, s, now) = r.table[s].total_time + 0
      BY <3>1 DEF Total
    <3> HIDE DEF a, b
    <3>6. a <= b /\ b <= now
      BY <1>1, <3>3
    <3>7. Add(a, Sub(now, b)) = a + (now - b)
      BY <1>1, <3>3, <3>6, Elapses
    <3>8. later[g] = a + (last - b) + (now - last)
      BY <2>2, <2>3, <3>1, <3>3
    <3>9. a + (last - b) + (now - last) = a + (now - b) /\ a + (now - b) + 0 = a + (now - b)
      BY <1>1, <3>3
    <3> QED
      BY <2>1, <3>4, <3>5, <3>7, <3>8, <3>9
  <2> QED
    BY <2>5, <2>6, <2>7
<1>12. ASSUME NEW g \in Funcs, \A s \in Slots : r.table[s].symbol # g PROVE later[g] = 0
  <2>1. \A s \in Slots : m.table[s].symbol # g
    BY <1>3, <1>12
  <2>2. times[g] = 0 /\ ~InCall(m, g)
    BY <1>1, <2>1, NotInCall DEF TotalsAre
  <2>3. later[g] = times[g] + 0
    BY <2>2 DEF TimesPass
  <2> QED
    BY <2>2, <2>3
<1> QED
  BY <1>8, <1>11, <1>12 DEF TotalsAre

(* The functions that the program is in are those on the stack. *)
LEMMA CallsFollow ==
  ASSUME BaseInv, HeightInv, NEW c \in Ids, Comparable(c), phase = "read", NEW g
  PROVE  g \in OnStack(c) <=> InCall(ctx[c], g)
<1>1. /\ frames[c] \in Seq(Frame) /\ ctx[c].stack \in Seq(Call)
      /\ Len(ctx[c].stack) = Len(frames[c]) /\ ~jumped[c] /\ ~Forked(c)
      /\ Follows(ctx[c], frames[c], c) /\ \A k \in 1 .. Len(frames[c]) : frames[c][k].by = c
  BY DEF BaseInv, ProfileInv, ProgramInv, ManagerInv, ContextInv, IsContext, HeightInv,
         Comparable, FollowInv, BirthInv
<1>2. ASSUME NEW k \in 1 .. Len(frames[c]) PROVE SymbolAt(ctx[c], k) = frames[c][k].fn
  <2>1. Len(ctx[c].stack) - Len(frames[c]) + k = k
    BY <1>1
  <2> QED
    BY <1>1, <2>1 DEF Follows, SymbolAt
<1> QED
  BY <1>1, <1>2 DEF OnStack, InCall

(* An enter makes no entry that lies behind the home slot of another one.  *)
LEMMA NamesKept ==
  ASSUME NEW m, NEW r, NEW slot \in Slots, NEW f, NEW site, NEW time,
         m.table \in [Slots -> Entry], EnterEffect(m, r, slot, f, site, time), NoneWrapped(r)
  PROVE  NoneWrapped(m)
<1> SUFFICES ASSUME NEW s \in Slots, m.table[s].symbol # NULL
             PROVE  Home(m.table[s].symbol) <= s
  BY DEF NoneWrapped
<1>1. /\ GivenSlot(m, f, slot) /\ r.table[s].symbol = Opened(m, f, slot)[s].symbol
  BY DEF EnterEffect
<1>2. Find(m.table, f) = NoSlot => m.table[slot].symbol = NULL
  BY <1>1 DEF GivenSlot, Free
<1>3. Opened(m, f, slot)[s] = m.table[s]
  BY <1>2 DEF Opened
<1> QED
  BY <1>1, <1>3 DEF NoneWrapped

(* The total times stay those of the calls. *)
LEMMA TotalStep ==
  BaseInv /\ EntriesInv /\ SeenInv /\ HeightInv /\ TotalInv /\ [Next]_vars => TotalInv'
<1> SUFFICES ASSUME BaseInv, EntriesInv, SeenInv, HeightInv, TotalInv, [Next]_vars, NEW c \in Ids,
                    clock' < U64, Comparable(c)', NoneWrapped(ctx'[c])
             PROVE  TotalsAre(ctx'[c], seen'[c], during'[c])
  <2>1. ASSUME \A c \in Ids : clock' < U64 /\ Comparable(c)' /\ NoneWrapped(ctx'[c]) =>
                 TotalsAre(ctx'[c], seen'[c], during'[c])
        PROVE  TotalInv'
    BY <2>1 DEF TotalInv, TotalHolds, TotalsAre, Total, Since, Places, NoneWrapped
  <2> QED
    BY <2>1
<1>1. clock \in Nat /\ U64 \in Nat
  BY FunctionsAssumption DEF BaseInv, ProfileInv, ProgramInv
<1>2. Comparable(c) /\ (Idle(c) \/ Calls(c)) /\ ~Forked(c) /\ EntriesOf(ctx[c])
  BY ComparableSteps DEF Comparable, EntriesInv, EntriesOf
<1>3. CASE Idle(c)
  <2>1. clock < U64
    <3>1. clock' \in Nat
      BY BaseStep DEF BaseInv, ProfileInv, ProgramInv
    <3> QED
      BY <1>1, <1>3, <3>1 DEF Idle
  <2>2. /\ ctx'[c].stack = ctx[c].stack /\ ctx'[c].table = ctx[c].table
        /\ seen'[c] = seen[c] /\ during'[c] = during[c]
    BY <1>3 DEF Idle, SameProfile
  <2>3. NoneWrapped(ctx[c])
    BY <2>2 DEF NoneWrapped
  <2>4. TotalsAre(ctx[c], seen[c], during[c])
    BY <1>2, <2>1, <2>3 DEF TotalInv, TotalHolds
  <2> QED
    BY <2>2, <2>4 DEF TotalsAre, Total
<1>4. CASE Calls(c)
  <2>1. /\ Aside(c) /\ clock' = clock + 1 /\ phase = "read" /\ phase' = "read"
        /\ ReadingInv(ctx[c])
    BY <1>4 DEF Calls, Aside, BaseInv, ProfileInv, ManagerInv
  <2>2. PICK spent \in Nat : Accounted(c, spent)
    BY <1>1, <2>1, Accounts
  <2>3. seen[c] \in Nat /\ seen[c] <= clock' /\ clock' \in Nat /\ clock < U64 /\ seen'[c] = clock'
    BY <1>1, <2>1, <2>2 DEF SeenInv, Accounted
  <2>4. TimesPass(ctx[c], seen[c], clock', during[c], during'[c])
    <3>1. ASSUME NEW g \in Funcs
          PROVE  /\ during[c][g] \in Nat /\ during[c][g] <= seen[c]
                 /\ during'[c][g] =
                      during[c][g] + (IF InCall(ctx[c], g) THEN clock' - seen[c] ELSE 0)
      <4>1. g \in OnStack(c) <=> InCall(ctx[c], g)
        BY <1>2, <2>1, CallsFollow
      <4>2. during'[c][g] = during[c][g] + (IF g \in OnStack(c) THEN clock' - seen[c] ELSE 0)
        BY <2>2 DEF Accounted
      <4>3. during[c][g] \in Nat /\ during[c][g] <= seen[c]
        BY DEF SeenInv
      <4> QED
        BY <4>1, <4>2, <4>3
    <3> QED
      BY <2>3, <3>1 DEF TimesPass
  <2>5. NoneWrapped(ctx[c]) =>
          /\ TotalsAre(ctx[c], seen[c], during[c])
          /\ Plain(ctx[c]) /\ Reachable(ctx[c]) /\ Single(ctx[c])
    BY <1>2, <2>3 DEF TotalInv, TotalHolds, EntriesOf
  <2>6. ASSUME NEW f \in Funcs, NEW s \in Sites, EnterChanges(c, f, s)
        PROVE  TotalsAre(ctx'[c], clock', during'[c])
    <3>1. PICK slot \in Slots : EnterEffect(ctx[c], ctx'[c], slot, f, s, clock')
      BY <2>1, <2>6 DEF EnterChanges
    <3>2. NoneWrapped(ctx[c])
      <4>1. ctx[c].table \in [Slots -> Entry]
        BY <2>1 DEF ReadingInv, ContextInv, IsContext
      <4> QED
        BY <3>1, <4>1, NamesKept
    <3>3. s \in Nat
      BY ProfileAssumption
    <3> QED
      BY ONLY <2>1, <2>4, <2>5, <3>1, <3>2, <3>3, slot \in Slots, f \in Funcs, EnterTotals
  <2>7. ASSUME ExitChanges(c) PROVE TotalsAre(ctx'[c], clock', during'[c])
    <3> DEFINE fn == Top(frames[c]).fn
               site == Top(frames[c]).site
    <3>1. PICK m : /\ m.stack = ctx[c].stack /\ m.table = ctx[c].table /\ m.stack # <<>>
                   /\ ReadingInv(m) /\ m.table[Leaving(m)].symbol = fn
                   /\ ExitEffect(m, ctx'[c], fn, site, clock')
      BY <1>2, <2>7, OwnExit
    <3>2. fn # NULL
      BY <1>2, <2>1, <3>1, TopRuns
    <3> HIDE DEF fn, site
    <3>3. NoneWrapped(ctx[c])
      <4>1. Namesakes(m, ctx'[c])
        BY <3>1, <3>2, ExitNamesakes
      <4> QED
        BY <3>1, <4>1 DEF Namesakes, NoneWrapped
    <3>4. /\ Plain(m) /\ Single(m) /\ TotalsAre(m, seen[c], during[c])
          /\ TimesPass(m, seen[c], clock', during[c], during'[c])
      BY <2>4, <2>5, <3>1, <3>3 DEF Plain, Single, TotalsAre, Total, TimesPass, InCall, SymbolAt
    <3> QED
      BY ONLY <3>1, <3>2, <3>4, ExitTotals
  <2> QED
    BY <1>4, <2>3, <2>6, <2>7 DEF Calls
<1> QED
  BY <1>2, <1>3, <1>4

(* No time has passed when the program starts. *)
LEMMA TotalInitially == Init => TotalInv
<1> SUFFICES ASSUME Init, NEW c \in Ids PROVE TotalsAre(ctx[c], seen[c], during[c])
  BY DEF TotalInv, TotalHolds
<1>1. ctx[c].stack = <<>> /\ \A s \in Slots : ctx[c].table[s] = NewFunction(NULL)
  BY DEF Init, NoContext, EmptyContext
<1>2. \A s \in Slots : ctx[c].table[s].symbol = NULL
  BY <1>1 DEF NewFunction
<1>3. \A f \in Funcs : during[c][f] = 0
  BY DEF Init
<1> QED
  BY <1>1, <1>2, <1>3 DEF TotalsAre

(* With one entry per function, its total time is that of the program.     *)
LEMMA TotalsOfEntries ==
  ASSUME EntriesInv, SeenInv, NEW c \in Ids, ~Forked(c), NoneWrapped(ctx[c]),
         TotalsAre(ctx[c], seen[c], during[c]), NEW f \in Funcs
  PROVE  SumFunctionOnSet([s \in Slots |-> Total(ctx[c], s, seen[c])], Entries(c, f)) = during[c][f]
<1> DEFINE p == [s \in Slots |-> Total(ctx[c], s, seen[c])]
           S == Entries(c, f)
<1>1. Single(ctx[c]) /\ f # NULL /\ during[c][f] \in Nat
  BY ProfileAssumption DEF EntriesInv, SeenInv
<1>2. \A s, t \in S : s = t
  BY <1>1 DEF Single, Entries
<1>3. \A s \in S : p[s] = during[c][f]
  BY <1>1 DEF Entries, TotalsAre
<1>4. S = {} => during[c][f] = 0
  BY DEF Entries, TotalsAre
<1> SUFFICES SumFunctionOnSet(p, S) = during[c][f]
  OBVIOUS
<1> HIDE DEF p, S
<1>5. CASE S = {}
  BY <1>4, <1>5, SumNothing
<1>6. CASE S # {}
  <2>1. PICK s : s \in S
    BY <1>6
  <2>2. S = {s} /\ S \ {s} = {} /\ IsFiniteSet(S)
    BY <1>2, <2>1, FS_Singleton
  <2>3. \A t \in S : p[t] \in Nat
    BY <1>1, <1>3
  <2>4. SumFunctionOnSet(p, S) = p[s] + SumFunctionOnSet(p, S \ {s})
    BY <2>1, <2>2, <2>3, SumElement
  <2> QED
    BY <1>1, <1>3, <2>1, <2>2, <2>4, SumNothing
<1> QED
  BY <1>5, <1>6

(* "total_time" (fc_functions_exit's NOTE): the time of a recursion is     *)
(* counted once, so that the total time of a function is the time that it  *)
(* was anywhere on the stack, as long as the function keeps one entry and  *)
(* until the clock of 64 bits wraps.                                       *)
THEOREM TotalTimesAreExact ==
  Spec => [](clock < U64 /\ (\A c \in Ids : Forked(c) \/ NoneWrapped(ctx[c])) => TotalTimeExact)
<1>1. Spec => [](BaseInv /\ EntriesInv /\ SeenInv /\ HeightInv /\ TotalInv)
  BY BaseInvariance, EntriesInitially, TimesInitially, TotalInitially,
     EntriesStep, SeenStep, HeightStep, TotalStep, PTL DEF Spec
<1>2. EntriesInv /\ SeenInv /\ TotalInv =>
        (clock < U64 /\ (\A c \in Ids : Forked(c) \/ NoneWrapped(ctx[c])) => TotalTimeExact)
  <2> SUFFICES ASSUME EntriesInv, SeenInv, TotalInv, clock < U64,
                      \A c \in Ids : Forked(c) \/ NoneWrapped(ctx[c])
               PROVE  TotalTimeExact
    OBVIOUS
  <2>1. ASSUME NEW c \in Ids, Comparable(c), NEW f \in Funcs
        PROVE  SumFunctionOnSet([s \in Slots |-> Total(ctx[c], s, seen[c])], Entries(c, f))
                 = during[c][f]
    <3>1. ~Forked(c) /\ NoneWrapped(ctx[c])
      BY <2>1 DEF Comparable
    <3>2. TotalsAre(ctx[c], seen[c], during[c])
      BY <2>1, <3>1 DEF TotalInv, TotalHolds
    <3> QED
      BY ONLY EntriesInv, SeenInv, c \in Ids, f \in Funcs, <3>1, <3>2, TotalsOfEntries
  <2> QED
    BY <2>1 DEF TotalTimeExact, Total, Since, Occurrences, Places
<1> QED
  BY <1>1, <1>2, PTL
=============================================================================
