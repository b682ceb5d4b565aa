------------------------- MODULE FcSemaphoreProofs -------------------------
(***************************************************************************)
(* The table of processes of the semaphore, for every number of processes  *)
(* and of slots: if no two processes ever register at once, a slot has one *)
(* owner for good.  And mutual exclusion of the bakery.                    *)
(***************************************************************************)
EXTENDS FcSemaphore, TLAPS

(* a process without a slot is on its first way into find_process *)
NewInv == \A p \in Procs :
  process[p] = MaxClients => pc[p] \in {"out", "find", "exited"}

(* the slots in use are those below number_pid: those of processes that    *)
(* have ended, and those of Procs, whose owners know them                  *)
TableInv ==
  /\ \A s \in Slots : s < number_pid /\ pids[s] # NoPid =>
       pids[s] \in Procs /\ process[pids[s]] = s
  /\ \A p \in Procs :
       process[p] # MaxClients /\ pc[p] \notin Registering =>
         process[p] < number_pid /\ pids[process[p]] = p

(* whoever registers does so at the end of the table, alone *)
RegisterInv ==
  /\ \A p \in Procs : pc[p] \in Registering =>
       /\ process[p] = number_pid /\ number_pid < MaxClients
       /\ pc[p] # "store" => pids[number_pid] = p
       /\ pc[p] = "incr" => temp[p] = number_pid
  /\ \A p, q \in Procs : pc[p] \in Registering /\ pc[q] \in Registering => p = q

(* the loop index where it is used, the copied ticket, and the nesting *)
LocalInv == \A p \in Procs :
  /\ pc[p] \in {"copy", "paste", "waitn", "less", "equal"} => i[p] < MaxClients
  /\ pc[p] = "paste" => temp[p] \in 0 .. MaxNumber
  /\ pc[p] \in {"in", "release"} => depth[p] > 0
  /\ pc[p] \in {"find"} \cup Registering /\ op[p] = "put" => depth[p] > 0

(* The inductive invariant of the table of processes (fc_semaphore.c): the *)
(* slots below number_pid are each the one of the process whose pid they   *)
(* hold, and whoever is in the middle of registering is alone, at the end. *)
SlotInv == TypeOK /\ NewInv /\ TableInv /\ RegisterInv /\ LocalInv
------------------------------------------------------------------------------
(* fc_semaphore_init: none of the processes is registered yet. *)
LEMMA SlotInit == Init => SlotInv
BY ConstantsAssumption DEF Init, SlotInv, TypeOK, NewInv, TableInv, RegisterInv, LocalInv,
                           Labels, Registering, Slots

(* The constants are numbers, and MaxClients is the index after the last   *)
(* slot.                                                                   *)
LEMMA SlotFacts ==
  /\ MaxClients \in Nat /\ MaxNumber \in Nat
  /\ \A s : s \in Slots <=> s \in 0 .. MaxClients /\ s # MaxClients
BY ConstantsAssumption DEF Slots

(* fc_semaphore_find_process keeps the invariant: a pid is looked for, or  *)
(* put at the end of the table.                                            *)
LEMMA SlotFind ==
  ASSUME SlotInv, NEW p \in Procs, FindProcess(p), "registration" \notin faults'
  PROVE  SlotInv'
<1> USE SlotFacts DEF TypeOK, NewInv, RegisterInv, Labels, Registering, Goto, shared, Return
<1>1. CASE FindRegistered(p)
  <2>1. TypeOK' /\ LocalInv'
    BY <1>1 DEF FindRegistered, SlotInv, TableInv, LocalInv
  <2>2. NewInv'
    BY <1>1 DEF FindRegistered, SlotInv
  <2>3. TableInv'
    BY <1>1 DEF FindRegistered, SlotInv, TableInv
  <2>4. RegisterInv'
    BY <1>1 DEF FindRegistered, SlotInv, TableInv
  <2> QED
    BY <2>1, <2>2, <2>3, <2>4 DEF SlotInv
<1>2. CASE FindFull(p)
  <2>1. TypeOK' /\ LocalInv'
    BY <1>2 DEF FindFull, SlotInv, TableInv, LocalInv
  <2>2. NewInv'
    BY <1>2 DEF FindFull, SlotInv
  <2>3. TableInv'
    BY <1>2 DEF FindFull, SlotInv, TableInv
  <2>4. RegisterInv'
    BY <1>2 DEF FindFull, SlotInv, TableInv
  <2> QED
    BY <2>1, <2>2, <2>3, <2>4 DEF SlotInv
<1>3. CASE FindFree(p)
  <2>1. TypeOK' /\ LocalInv'
    BY <1>3 DEF FindFree, SlotInv, TableInv, LocalInv
  <2>2. NewInv'
    BY <1>3 DEF FindFree, SlotInv
  <2>3. TableInv'
    BY <1>3 DEF FindFree, Alone, SlotInv, TableInv, NotFound
  <2>4. RegisterInv'
    BY <1>3 DEF FindFree, Alone, SlotInv, TableInv, NotFound
  <2> QED
    BY <2>1, <2>2, <2>3, <2>4 DEF SlotInv
<1>4. CASE RegisterPid(p)
  <2>1. TypeOK' /\ LocalInv'
    BY <1>4 DEF RegisterPid, SlotInv, TableInv, LocalInv
  <2>2. NewInv'
    BY <1>4 DEF RegisterPid, SlotInv
  <2>3. TableInv'
    BY <1>4 DEF RegisterPid, SlotInv, TableInv
  <2>4. RegisterInv'
    BY <1>4 DEF RegisterPid, SlotInv, TableInv
  <2> QED
    BY <2>1, <2>2, <2>3, <2>4 DEF SlotInv
<1>5. CASE LoadNumberPid(p)
  <2>1. TypeOK' /\ LocalInv'
    BY <1>5 DEF LoadNumberPid, SlotInv, TableInv, LocalInv
  <2>2. NewInv'
    BY <1>5 DEF LoadNumberPid, SlotInv
  <2>3. TableInv'
    BY <1>5 DEF LoadNumberPid, SlotInv, TableInv
  <2>4. RegisterInv'
    BY <1>5 DEF LoadNumberPid, SlotInv, TableInv
  <2> QED
    BY <2>1, <2>2, <2>3, <2>4 DEF SlotInv
<1>6. CASE StoreNumberPid(p)
  <2>1. TypeOK' /\ LocalInv'
    BY <1>6 DEF StoreNumberPid, SlotInv, TableInv, LocalInv
  <2>2. NewInv'
    BY <1>6 DEF StoreNumberPid, SlotInv
  <2>3. TableInv'
    <3>1. number_pid' = number_pid + 1 /\ UNCHANGED <<pids, process>>
          /\ pids[number_pid] = p /\ process[p] = number_pid
      BY <1>6 DEF StoreNumberPid, SlotInv
    <3>2. \A q \in Procs \ {p} : pc'[q] = pc[q] /\ pc[q] \notin Registering
      BY <1>6 DEF StoreNumberPid, SlotInv
    <3>3. ASSUME NEW s \in Slots, s < number_pid', pids[s] # NoPid
          PROVE  pids[s] \in Procs /\ process[pids[s]] = s
      BY <3>1, <3>3 DEF SlotInv, TableInv
    <3>4. ASSUME NEW q \in Procs, process[q] # MaxClients
          PROVE  process[q] < number_pid' /\ pids[process[q]] = q
      BY <3>1, <3>2, <3>4 DEF SlotInv, TableInv
    <3> QED
      BY <3>1, <3>3, <3>4 DEF TableInv
  <2>4. RegisterInv'
    BY <1>6 DEF StoreNumberPid, SlotInv, TableInv
  <2> QED
    BY <2>1, <2>2, <2>3, <2>4 DEF SlotInv
<1> QED
  BY <1>1, <1>2, <1>3, <1>4, <1>5, <1>6 DEF FindProcess

(* get and put leave the table alone once they have found their slot *)
LEMMA QuietTable ==
  ASSUME SlotInv, NEW p \in Procs, UNCHANGED <<pids, number_pid, process>>,
         pc[p] \notin Registering, pc'[p] \notin Registering,
         process[p] = MaxClients => pc'[p] \in {"out", "find", "exited"},
         \A q \in Procs \ {p} : pc'[q] = pc[q] /\ temp'[q] = temp[q]
  PROVE  NewInv' /\ TableInv' /\ RegisterInv'
<1>1. NewInv'
  BY DEF SlotInv, NewInv
<1>2. TableInv'
  BY DEF SlotInv, TypeOK, TableInv
<1>3. RegisterInv'
  BY DEF SlotInv, TypeOK, RegisterInv
<1> QED
  BY <1>1, <1>2, <1>3

(* The rest of fc_semaphore_get and fc_semaphore_put keeps the invariant.  *)
LEMMA SlotLock ==
  ASSUME SlotInv, NEW p \in Procs,
         \/ Get(p) \/ GetRecursive(p) \/ GetFirst(p)
         \/ Choose(p) \/ ScanCompare(p) \/ ScanLoad(p) \/ ScanStore(p)
         \/ TakeTicket(p) \/ Chosen(p)
         \/ WaitChoosing(p) \/ WaitNumber(p) \/ WaitLess(p) \/ WaitEqual(p) \/ Enter(p)
         \/ Put(p) \/ Release(p)
  PROVE  SlotInv'
<1> USE SlotFacts DEF TypeOK, NewInv, Labels, Registering, Goto, shared
<1>1. CASE Get(p)
  <2>1. TypeOK' /\ LocalInv'
    BY <1>1 DEF Get, SlotInv, LocalInv
  <2>2. NewInv' /\ TableInv' /\ RegisterInv'
    BY <1>1, QuietTable DEF Get, SlotInv
  <2> QED
    BY <2>1, <2>2 DEF SlotInv
<1>2. CASE GetRecursive(p)
  <2>1. TypeOK' /\ LocalInv'
    BY <1>2 DEF GetRecursive, SlotInv, LocalInv
  <2>2. NewInv' /\ TableInv' /\ RegisterInv'
    BY <1>2, QuietTable DEF GetRecursive, SlotInv
  <2> QED
    BY <2>1, <2>2 DEF SlotInv
<1>3. CASE GetFirst(p)
  <2>1. TypeOK' /\ LocalInv'
    BY <1>3 DEF GetFirst, SlotInv, LocalInv
  <2>2. NewInv' /\ TableInv' /\ RegisterInv'
    BY <1>3, QuietTable DEF GetFirst, SlotInv
  <2> QED
    BY <2>1, <2>2 DEF SlotInv
<1>4. CASE Choose(p)
  <2>1. TypeOK' /\ LocalInv'
    BY <1>4 DEF Choose, SlotInv, LocalInv
  <2>2. NewInv' /\ TableInv' /\ RegisterInv'
    BY <1>4, QuietTable DEF Choose, SlotInv
  <2> QED
    BY <2>1, <2>2 DEF SlotInv
<1>5. CASE ScanCompare(p)
  <2>1. TypeOK' /\ LocalInv'
    BY <1>5 DEF ScanCompare, SlotInv, LocalInv
  <2>2. NewInv' /\ TableInv' /\ RegisterInv'
    BY <1>5, QuietTable DEF ScanCompare, SlotInv
  <2> QED
    BY <2>1, <2>2 DEF SlotInv
<1>6. CASE ScanLoad(p)
  <2>1. TypeOK' /\ LocalInv'
    BY <1>6 DEF ScanLoad, SlotInv, LocalInv
  <2>2. NewInv' /\ TableInv' /\ RegisterInv'
    BY <1>6, QuietTable DEF ScanLoad, SlotInv
  <2> QED
    BY <2>1, <2>2 DEF SlotInv
<1>7. CASE ScanStore(p)
  <2>1. TypeOK' /\ LocalInv'
    BY <1>7 DEF ScanStore, SlotInv, LocalInv
  <2>2. NewInv' /\ TableInv' /\ RegisterInv'
    BY <1>7, QuietTable DEF ScanStore, SlotInv
  <2> QED
    BY <2>1, <2>2 DEF SlotInv
<1>8. CASE TakeTicket(p)
  <2>1. TypeOK' /\ LocalInv'
    BY <1>8 DEF TakeTicket, SlotInv, LocalInv
  <2>2. NewInv' /\ TableInv' /\ RegisterInv'
    BY <1>8, QuietTable DEF TakeTicket, SlotInv
  <2> QED
    BY <2>1, <2>2 DEF SlotInv
<1>9. CASE Chosen(p)
  <2>1. TypeOK' /\ LocalInv'
    BY <1>9 DEF Chosen, SlotInv, LocalInv
  <2>2. NewInv' /\ TableInv' /\ RegisterInv'
    BY <1>9, QuietTable DEF Chosen, SlotInv
  <2> QED
    BY <2>1, <2>2 DEF SlotInv
<1>10. CASE WaitChoosing(p)
  <2>1. TypeOK' /\ LocalInv'
    BY <1>10 DEF WaitChoosing, SlotInv, LocalInv
  <2>2. NewInv' /\ TableInv' /\ RegisterInv'
    BY <1>10, QuietTable DEF WaitChoosing, SlotInv
  <2> QED
    BY <2>1, <2>2 DEF SlotInv
<1>11. CASE WaitNumber(p)
  <2>1. TypeOK' /\ LocalInv'
    BY <1>11 DEF WaitNumber, SlotInv, LocalInv, NextSlot
  <2>2. NewInv' /\ TableInv' /\ RegisterInv'
    BY <1>11, QuietTable DEF WaitNumber, NextSlot, SlotInv
  <2> QED
    BY <2>1, <2>2 DEF SlotInv
<1>12. CASE WaitLess(p)
  <2>1. TypeOK' /\ LocalInv'
    BY <1>12 DEF WaitLess, SlotInv, LocalInv
  <2>2. NewInv' /\ TableInv' /\ RegisterInv'
    BY <1>12, QuietTable DEF WaitLess, SlotInv
  <2> QED
    BY <2>1, <2>2 DEF SlotInv
<1>13. CASE WaitEqual(p)
  <2>1. TypeOK' /\ LocalInv'
    BY <1>13 DEF WaitEqual, SlotInv, LocalInv, NextSlot
  <2>2. NewInv' /\ TableInv' /\ RegisterInv'
    BY <1>13, QuietTable DEF WaitEqual, NextSlot, SlotInv
  <2> QED
    BY <2>1, <2>2 DEF SlotInv
<1>14. CASE Enter(p)
  <2>1. TypeOK' /\ LocalInv'
    BY <1>14 DEF Enter, SlotInv, LocalInv
  <2>2. NewInv' /\ TableInv' /\ RegisterInv'
    BY <1>14, QuietTable DEF Enter, SlotInv
  <2> QED
    BY <2>1, <2>2 DEF SlotInv
<1>15. CASE Put(p)
  <2>1. TypeOK' /\ LocalInv'
    BY <1>15 DEF Put, SlotInv, LocalInv
  <2>2. NewInv' /\ TableInv' /\ RegisterInv'
    BY <1>15, QuietTable DEF Put, SlotInv
  <2> QED
    BY <2>1, <2>2 DEF SlotInv
<1>16. CASE Release(p)
  <2>1. TypeOK' /\ LocalInv'
    BY <1>16 DEF Release, SlotInv, LocalInv
  <2>2. NewInv' /\ TableInv' /\ RegisterInv'
    BY <1>16, QuietTable DEF Release, SlotInv
  <2> QED
    BY <2>1, <2>2 DEF SlotInv
<1> QED
  BY <1>1, <1>2, <1>3, <1>4, <1>5, <1>6, <1>7, <1>8, <1>9, <1>10, <1>11, <1>12, <1>13,
     <1>14, <1>15, <1>16

(* Every step that is not a race of two registrations keeps the invariant  *)
(* of the table.                                                           *)
LEMMA SlotNext ==
  ASSUME SlotInv, [Next]_vars, "registration" \notin faults'
  PROVE  SlotInv'
<1>1. CASE UNCHANGED vars
  BY <1>1 DEF vars, SlotInv, TypeOK, NewInv, TableInv, RegisterInv, LocalInv
<1> QED
  BY <1>1, SlotFind, SlotLock DEF Next, Step

(* No race is ever forgotten. *)
LEMMA FaultsKept == [Next]_vars => faults \subseteq faults'
BY DEF Next, Step, FindProcess, FindRegistered, FindFull, FindFree, RegisterPid, LoadNumberPid,
       StoreNumberPid, Get, GetRecursive, GetFirst, Choose, ScanCompare, ScanLoad, ScanStore,
       TakeTicket, Chosen, WaitChoosing, WaitNumber, WaitLess, WaitEqual, Enter, Put, Release, vars

(* Until two processes register at once the invariant of the table holds.  *)
LEMMA SlotHolds == Spec => []("registration" \notin faults => SlotInv)
<1>1. Init => SlotInv
  BY SlotInit
<1>2. ("registration" \notin faults => SlotInv) /\ [Next]_vars
        => ("registration" \notin faults => SlotInv)'
  BY FaultsKept, SlotNext
<1> QED
  BY <1>1, <1>2, PTL DEF Spec

(* The type invariant: no index leaves the table, no counter goes below 0, *)
(* as long as no two processes register at once.                           *)
THEOREM SemaphoreTypes == Spec => []("registration" \notin faults => TypeOK)
<1>1. SlotInv => TypeOK
  BY DEF SlotInv
<1> QED
  BY <1>1, SlotHolds, PTL

(* A slot that a process has taken is its own for good: the pid stays in   *)
(* the table, and nobody else works with its ticket, unless a process has  *)
(* begun to register while another one was registering: that race, the one *)
(* that fc_semaphore_find_process warns of, is the only way to share a     *)
(* slot, whatever else happens.                                            *)
THEOREM SlotsArePrivate == Spec => []("registration" \notin faults => PrivateSlots)
<1>1. SlotInv => PrivateSlots
  BY DEF SlotInv, TypeOK, TableInv, RegisterInv, PrivateSlots, Registering
<1> QED
  BY <1>1, SlotHolds, PTL

------------------------------------------------------------------------------
(* Mutual exclusion of the bakery: fc_semaphore_get compares sem[i].number *)
(* and then reads it again to copy it; the lock may be given to two        *)
(* processes only if a second read brings the running maximum of a process *)
(* down.  With two processes that cannot hurt.                             *)

Doorway == {"scan", "copy", "paste", "chosen"}

(* neither with the lock nor on the way to it *)
Outside(p) ==
  depth[p] = 0 /\ pc[p] \in {"out", "find", "test", "choose", "exited"} \cup Registering

(* The shared words of a process follow where it is. *)
Words(p) ==
  /\ depth[p] > 0 => pc[p] \in {"in", "release", "find", "test"} /\ process[p] # MaxClients
  /\ process[p] # MaxClients =>
       /\ choosing[process[p]] <=> pc[p] \in Doorway
       /\ pc[p] = "chosen" \/ Settled(p) => Ticket(p) > 0
       /\ Outside(p) => Ticket(p) = 0

WordsInv == \A p \in Procs : Words(p)

(* A slot that nobody has taken is as fc_semaphore_init left it. *)
FreeInv == \A s \in Slots :
  (\A p \in Procs : process[p] # s) => number[s] = 0 /\ ~choosing[s]

(* the order of the tickets, in which the lock is given *)
Before(p, q) ==
  Ticket(p) < Ticket(q) \/ (Ticket(p) = Ticket(q) /\ process[p] < process[q])

(* q has, or will have, a ticket after the one of p: it has none yet, it   *)
(* is still to look at the slot of p, or it has seen as much as p has.     *)
Behind(p, q) ==
  \/ Outside(q)
  \/ pc[q] \in {"scan", "copy"} /\ (i[q] <= process[p] \/ Ticket(q) >= Ticket(p))
  \/ pc[q] = "paste" /\ (i[q] < process[p] \/ temp[q] >= Ticket(p))
  \/ (pc[q] = "chosen" \/ Settled(q)) /\ Before(p, q)

(* p has the lock, or its wait is past the slot of q *)
Passed(p, q) == depth[p] > 0 \/ (pc[p] \in Waiting /\ i[p] > process[q])

(* p is waiting at the slot of q and has seen that q is not choosing *)
Looking(p, q) == pc[p] \in {"waitn", "less", "equal"} /\ i[p] = process[q]

(* Whoever p has passed is behind it, and whoever p is looking at is       *)
(* behind it or has a ticket that it keeps until p may go on.              *)
Ordered(p, q) ==
  /\ Passed(p, q) => Behind(p, q)
  /\ Looking(p, q) =>
       Behind(p, q) \/ (Settled(q) /\ (pc[p] = "equal" => Ticket(q) >= Ticket(p)))

OrderInv == \A p, q \in Procs : p # q => Ordered(p, q)

(* The counter of nested locks is that of the process with the lock. *)
NestInv ==
  /\ \A p \in Procs : depth[p] > 0 => number_of_recursive_lock = depth[p] - 1
  /\ (\A p \in Procs : depth[p] = 0) => number_of_recursive_lock = 0

(* The inductive invariant of the bakery: on top of the private slots, the *)
(* words follow the program counters and tickets are kept in their order.  *)
BakeryInv == SlotInv /\ WordsInv /\ FreeInv /\ OrderInv /\ NestInv
------------------------------------------------------------------------------
(* A slot that a process has taken is not that of another one. *)
LEMMA SlotsDistinct ==
  ASSUME SlotInv, NEW p \in Procs, NEW q \in Procs, p # q, process[p] # MaxClients
  PROVE  process[p] \in Slots /\ process[p] # process[q]
BY SlotFacts DEF SlotInv, TypeOK, TableInv, RegisterInv, Registering

(* Two processes cannot each be behind the other. *)
LEMMA OneHolder == BakeryInv => MutualExclusion
<1> SUFFICES ASSUME BakeryInv, NEW p \in Procs, NEW q \in Procs, p # q,
                    depth[p] > 0, depth[q] > 0
             PROVE  FALSE
  BY DEF MutualExclusion
<1>1. /\ pc[p] \in {"in", "release", "find", "test"} /\ process[p] # MaxClients
      /\ pc[q] \in {"in", "release", "find", "test"} /\ process[q] # MaxClients
  BY DEF BakeryInv, WordsInv, Words
<1>2. Behind(p, q) /\ Behind(q, p)
  BY DEF BakeryInv, OrderInv, Ordered, Passed
<1>3. Before(p, q) /\ Before(q, p)
  BY <1>1, <1>2 DEF Behind, Outside, BakeryInv, SlotInv, TypeOK
<1>4. process[p] \in Slots /\ process[q] \in Slots
  BY <1>1, SlotsDistinct DEF BakeryInv
<1>5. Ticket(p) \in Nat /\ Ticket(q) \in Nat /\ process[p] \in Nat /\ process[q] \in Nat
  BY <1>4, SlotFacts DEF Ticket, BakeryInv, SlotInv, TypeOK
<1> QED
  BY <1>3, <1>5 DEF Before

(* What a step of a leaves alone: the locals of the other processes and    *)
(* the words of the other slots.                                           *)
Others(a) ==
  /\ \A r \in Procs \ {a} :
       /\ pc'[r] = pc[r] /\ i'[r] = i[r] /\ temp'[r] = temp[r]
       /\ depth'[r] = depth[r] /\ process'[r] = process[r]
  /\ \A s \in Slots : s # process[a] => number'[s] = number[s] /\ choosing'[s] = choosing[s]
  /\ process'[a] = process[a] \/ process[a] = MaxClients

(* The other processes' words stay as they were. *)
LEMMA OthersWords ==
  ASSUME BakeryInv, NEW a \in Procs, Others(a)
  PROVE  (\A p \in Procs \ {a} : Words(p)') /\ FreeInv'
<1>1. ASSUME NEW p \in Procs \ {a} PROVE Words(p)'
  <2>1. /\ pc'[p] = pc[p] /\ depth'[p] = depth[p] /\ process'[p] = process[p] /\ Words(p)
    BY DEF Others, BakeryInv, WordsInv
  <2>2. CASE process[p] = MaxClients
    BY <2>1, <2>2 DEF Words
  <2>3. CASE process[p] # MaxClients
    <3>1. process[p] \in Slots /\ process[p] # process[a]
      BY <2>3, SlotsDistinct DEF BakeryInv
    <3>2. number'[process[p]] = number[process[p]] /\ choosing'[process[p]] = choosing[process[p]]
      BY <3>1 DEF Others
    <3> QED
      BY <2>1, <3>2 DEF Words, Outside, Settled, Ticket
  <2> QED
    BY <2>2, <2>3
<1>2. FreeInv'
  <2> SUFFICES ASSUME NEW s \in Slots, \A p \in Procs : process'[p] # s
               PROVE  number'[s] = 0 /\ ~choosing'[s]
    BY DEF FreeInv
  <2>1. \A p \in Procs : process[p] # s
    BY SlotFacts DEF Others
  <2> QED
    BY <2>1 DEF BakeryInv, FreeInv, Others
<1> QED
  BY <1>1, <1>2

(* What a process that is waiting or has the lock knows: its slot. *)
LEMMA ClaimHasSlot ==
  ASSUME BakeryInv, NEW p \in Procs, Settled(p)
  PROVE  process[p] \in Slots /\ process[p] # MaxClients
BY SlotFacts DEF BakeryInv, SlotInv, TypeOK, NewInv, WordsInv, Words, Settled, Waiting

(* The order of two other processes stays as it was. *)
LEMMA OthersOrder ==
  ASSUME BakeryInv, NEW a \in Procs, Others(a),
         NEW p \in Procs \ {a}, NEW q \in Procs \ {a}, p # q
  PROVE  Ordered(p, q)'
<1>1. /\ pc'[p] = pc[p] /\ i'[p] = i[p] /\ depth'[p] = depth[p] /\ process'[p] = process[p]
      /\ pc'[q] = pc[q] /\ i'[q] = i[q] /\ depth'[q] = depth[q] /\ process'[q] = process[q]
      /\ temp'[q] = temp[q] /\ Ordered(p, q)
  BY DEF Others, BakeryInv, OrderInv
<1>2. Outside(q)' <=> Outside(q)
  BY <1>1 DEF Outside
<1>3. process[q] = MaxClients => Outside(q)
  BY DEF BakeryInv, SlotInv, TypeOK, NewInv, WordsInv, Words, Outside
<1>4. CASE ~Settled(p)
  BY <1>1, <1>4 DEF Ordered, Passed, Looking, Settled, Waiting
<1>5. CASE Settled(p) /\ Outside(q)
  BY <1>2, <1>5 DEF Ordered, Behind
<1>6. CASE Settled(p) /\ ~Outside(q)
  <2>1. /\ process[p] \in Slots /\ process[p] # process[a]
        /\ process[q] \in Slots /\ process[q] # process[a]
    BY <1>3, <1>6, ClaimHasSlot, SlotsDistinct DEF BakeryInv
  <2>2. Ticket(p)' = Ticket(p) /\ Ticket(q)' = Ticket(q)
    BY <1>1, <2>1 DEF Others, Ticket
  <2> QED
    BY <1>1, <1>2, <2>2 DEF Ordered, Passed, Looking, Behind, Before, Settled
<1> QED
  BY <1>4, <1>5, <1>6

(* The place of a behind another process stays, if a does what it takes.   *)
LEMMA ActorOrder ==
  ASSUME BakeryInv, NEW a \in Procs, Others(a), NEW p \in Procs \ {a},
         \/ Outside(a)'
         \/ /\ process'[a] = process[a]
            /\ Settled(p) /\ Behind(p, a) => Behind(p, a)'
            /\ Settled(a) => Settled(a)' /\ Ticket(a)' = Ticket(a)
  PROVE  Ordered(p, a)'
<1>1. /\ pc'[p] = pc[p] /\ i'[p] = i[p] /\ depth'[p] = depth[p] /\ process'[p] = process[p]
      /\ Ordered(p, a)
  BY DEF Others, BakeryInv, OrderInv
<1>2. CASE ~Settled(p)
  BY <1>1, <1>2 DEF Ordered, Passed, Looking, Settled, Waiting
<1>3. CASE Outside(a)'
  BY <1>3 DEF Ordered, Behind
<1>4. CASE Settled(p) /\ ~Outside(a)'
  <2>1. process[p] \in Slots /\ process[p] # process[a]
    BY <1>4, ClaimHasSlot, SlotsDistinct DEF BakeryInv
  <2>2. Ticket(p)' = Ticket(p)
    BY <1>1, <2>1 DEF Others, Ticket
  <2> QED
    BY <1>1, <1>4, <2>2 DEF Ordered, Passed, Looking
<1> QED
  BY <1>2, <1>3, <1>4

(* What is left to show of a step of a. *)
LEMMA BakeryStep ==
  ASSUME BakeryInv, SlotInv', NEW a \in Procs, Others(a), Words(a)', NestInv',
         \A q \in Procs \ {a} : Ordered(a, q)',
         \A p \in Procs \ {a} :
           \/ Outside(a)'
           \/ /\ process'[a] = process[a]
              /\ Settled(p) /\ Behind(p, a) => Behind(p, a)'
              /\ Settled(a) => Settled(a)' /\ Ticket(a)' = Ticket(a)
  PROVE  BakeryInv'
<1>1. WordsInv' /\ FreeInv'
  BY OthersWords DEF WordsInv
<1>2. \A p \in Procs \ {a} : Ordered(p, a)'
  BY ActorOrder
<1>3. \A p, q \in Procs \ {a} : p # q => Ordered(p, q)'
  BY OthersOrder
<1>4. OrderInv'
  BY <1>2, <1>3 DEF OrderInv
<1> QED
  BY <1>1, <1>4 DEF BakeryInv

(* Steps of a process that is outside, or has the lock, and stays so. *)
LEMMA QuietStep ==
  ASSUME BakeryInv, SlotInv', NEW a \in Procs, Others(a),
         UNCHANGED <<choosing, number, number_of_recursive_lock, depth>>,
         process'[a] = process[a],
         \/ Outside(a) /\ Outside(a)'
         \/ depth[a] > 0 /\ pc'[a] \in {"in", "release", "find", "test"}
  PROVE  BakeryInv'
<1>1. NestInv'
  BY DEF BakeryInv, NestInv
<1>2. Ticket(a)' = Ticket(a)
  BY DEF Ticket
<1>3. CASE Outside(a) /\ Outside(a)'
  <2>1. Words(a)'
    BY <1>2, <1>3 DEF BakeryInv, WordsInv, Words, Outside, Settled, Doorway, Waiting, Registering
  <2>2. \A q \in Procs \ {a} : Ordered(a, q)'
    BY <1>3 DEF Ordered, Passed, Looking, Outside, Waiting, Registering
  <2> QED
    BY <1>1, <1>3, <2>1, <2>2, BakeryStep
<1>4. CASE depth[a] > 0 /\ pc'[a] \in {"in", "release", "find", "test"}
  <2>0. pc[a] \in {"in", "release", "find", "test"} /\ process[a] # MaxClients /\ ~Outside(a)
        /\ ~Outside(a)' /\ Settled(a)
    BY <1>4 DEF BakeryInv, WordsInv, Words, Outside, Settled, SlotInv, TypeOK
  <2>1. Words(a)'
    BY <1>2, <1>4, <2>0 DEF BakeryInv, WordsInv, Words, Settled, Doorway
  <2>2. ASSUME NEW q \in Procs \ {a} PROVE Ordered(a, q)'
    <3>1. Behind(a, q)
      BY <1>4 DEF BakeryInv, OrderInv, Ordered, Passed
    <3>2. /\ pc'[q] = pc[q] /\ i'[q] = i[q] /\ depth'[q] = depth[q] /\ process'[q] = process[q]
          /\ temp'[q] = temp[q] /\ Ticket(q)' = Ticket(q)
      BY DEF Others, Ticket
    <3>3. Behind(a, q)'
      BY <1>2, <3>1, <3>2 DEF Behind, Before, Settled, Outside
    <3> QED
      BY <1>4, <3>3 DEF Ordered, Looking
  <2>3. ASSUME NEW p \in Procs \ {a}, Behind(p, a), Settled(p) PROVE Behind(p, a)'
    <3>1. Before(p, a)
      BY <2>0, <2>3 DEF Behind
    <3>2. process'[p] = process[p] /\ Ticket(p)' = Ticket(p)
      BY DEF Others, Ticket
    <3> QED
      BY <1>2, <1>4, <3>1, <3>2 DEF Behind, Before, Settled
  <2>4. Settled(a)' /\ Ticket(a)' = Ticket(a)
    BY <1>2, <1>4 DEF Settled
  <2> QED
    BY <1>1, <2>1, <2>2, <2>3, <2>4, BakeryStep
<1> QED
  BY <1>3, <1>4

(* fc_semaphore_find_process, and the steps of get and put around it. *)
LEMMA BakeryFind ==
  ASSUME BakeryInv, faults' = {}, NEW a \in Procs,
         \/ FindRegistered(a) \/ FindFull(a) \/ RegisterPid(a) \/ LoadNumberPid(a)
         \/ StoreNumberPid(a) \/ Get(a) \/ GetFirst(a) \/ Put(a)
  PROVE  BakeryInv'
<1> USE SlotFacts DEF Goto, shared
<1>0. SlotInv /\ SlotInv' /\ TypeOK /\ Words(a)
  BY SlotFind, SlotLock DEF BakeryInv, FindProcess, SlotInv, WordsInv
<1>1. UNCHANGED <<choosing, number, number_of_recursive_lock, depth>>
  BY DEF FindRegistered, FindFull, RegisterPid, LoadNumberPid, StoreNumberPid, Get, GetFirst, Put
<1>2. Others(a) /\ process'[a] = process[a]
  <2>1. CASE FindRegistered(a)
    <3>1. PICK s \in Slots : s < number_pid /\ pids[s] = a /\ process' = [process EXCEPT ![a] = s]
      BY <2>1 DEF FindRegistered
    <3>2. process[a] = s
      BY <1>0, <3>1, ConstantsAssumption DEF SlotInv, TableInv
    <3> QED
      BY <1>0, <2>1, <3>1, <3>2 DEF FindRegistered, Others, TypeOK
  <2>2. CASE \/ FindFull(a) \/ RegisterPid(a) \/ LoadNumberPid(a) \/ StoreNumberPid(a)
             \/ Get(a) \/ GetFirst(a) \/ Put(a)
    BY <1>0, <2>2 DEF FindFull, RegisterPid, LoadNumberPid, StoreNumberPid, Get, GetFirst, Put,
                      Others, TypeOK
  <2> QED
    BY <2>1, <2>2
<1>3. \/ Outside(a) /\ Outside(a)'
      \/ depth[a] > 0 /\ pc'[a] \in {"in", "release", "find", "test"}
  <2>1. depth[a] \in Nat /\ depth' = depth /\ pc \in [Procs -> Labels]
    BY <1>0, <1>1 DEF TypeOK
  <2>2. CASE FindRegistered(a) \/ StoreNumberPid(a)
    BY <1>0, <2>1, <2>2 DEF FindRegistered, StoreNumberPid, Return, Words, Outside, SlotInv,
                            LocalInv, TypeOK, Registering
  <2>3. CASE FindFull(a)
    <3>1. process[a] = MaxClients
      BY <1>0, <2>3 DEF FindFull, NotFound, SlotInv, TableInv, TypeOK, Registering
    <3> QED
      BY <1>0, <2>1, <2>3, <3>1 DEF FindFull, Words, Outside
  <2>4. CASE RegisterPid(a) \/ LoadNumberPid(a)
    BY <1>0, <2>1, <2>4 DEF RegisterPid, LoadNumberPid, Words, Outside, Registering
  <2>5. CASE Get(a) \/ Put(a)
    BY <1>0, <2>1, <2>5 DEF Get, Put, Outside, SlotInv, LocalInv
  <2>6. CASE GetFirst(a)
    BY <1>0, <2>1, <2>6 DEF GetFirst, Words, Outside, Settled, Ticket, SlotInv, NewInv
  <2> QED
    BY <2>2, <2>3, <2>4, <2>5, <2>6
<1> QED
  BY <1>0, <1>1, <1>2, <1>3, QuietStep

(* A process takes a slot: one that nobody has used. *)
LEMMA BakeryFree ==
  ASSUME BakeryInv, faults' = {}, NEW a \in Procs, FindFree(a)
  PROVE  BakeryInv'
<1> USE SlotFacts DEF Goto, shared
<1>0. SlotInv /\ SlotInv' /\ TypeOK /\ Words(a)
  BY SlotFind DEF BakeryInv, FindProcess, SlotInv, WordsInv
<1>1. process[a] = MaxClients
  BY <1>0 DEF FindFree, NotFound, SlotInv, TableInv, TypeOK, Registering
<1>2. depth[a] = 0 /\ Outside(a)'
  BY <1>0, <1>1 DEF FindFree, Words, Outside, TypeOK, Registering
<1>3. Others(a)
  BY <1>0, <1>1 DEF FindFree, Others, TypeOK
<1>4. NestInv'
  BY DEF FindFree, BakeryInv, NestInv
<1>5. number_pid \in Slots /\ \A p \in Procs : process[p] # number_pid
  <2>1. \A p \in Procs : pc[p] \notin Registering
    BY DEF FindFree, Alone
  <2> QED
    BY <1>0, <2>1 DEF FindFree, SlotInv, TableInv, TypeOK
<1>6. process'[a] = number_pid /\ number'[number_pid] = 0 /\ ~choosing'[number_pid]
  BY <1>0, <1>5 DEF FindFree, BakeryInv, FreeInv, TypeOK
<1>7. Words(a)'
  BY <1>0, <1>2, <1>6 DEF FindFree, Words, Ticket, Outside, Settled, Doorway, Waiting, TypeOK
<1>8. \A q \in Procs \ {a} : Ordered(a, q)'
  BY <1>0, <1>2 DEF FindFree, Ordered, Passed, Looking, Waiting, Outside, TypeOK
<1> QED
  BY <1>0, <1>2, <1>3, <1>4, <1>7, <1>8, BakeryStep

(* A process that has no ticket in use has passed nobody. *)
LEMMA NoClaim ==
  ASSUME NEW a \in Procs, NEW q \in Procs, ~Settled(a)'
  PROVE  Ordered(a, q)'
BY DEF Ordered, Passed, Looking, Settled, Waiting

(* The tickets of the others, as a sees them. *)
LEMMA OthersTicket ==
  ASSUME BakeryInv, NEW a \in Procs, Others(a), NEW p \in Procs \ {a}, Settled(p)
  PROVE  /\ Ticket(p)' = Ticket(p) /\ process'[p] = process[p]
         /\ process[p] \in Slots /\ process[p] # process[a] /\ Ticket(p) \in Nat
<1>1. process[p] \in Slots /\ process[p] # process[a]
  BY ClaimHasSlot, SlotsDistinct DEF BakeryInv
<1> QED
  BY <1>1, SlotFacts DEF Others, Ticket, BakeryInv, SlotInv, TypeOK

(* The doorway: the running maximum of a covers the tickets that it has    *)
(* seen, also at the second read.                                          *)
LEMMA BakeryDoorway ==
  ASSUME BakeryInv, faults' = {}, NEW a \in Procs,
         \/ Choose(a) \/ ScanCompare(a) \/ ScanLoad(a) \/ ScanStore(a) \/ TakeTicket(a)
  PROVE  BakeryInv'
<1> USE SlotFacts DEF Goto, shared
<1>0. SlotInv /\ SlotInv' /\ TypeOK /\ Words(a)
  BY SlotLock DEF BakeryInv, SlotInv, WordsInv
<1>1. process[a] \in Slots /\ process[a] # MaxClients
  BY <1>0 DEF SlotInv, NewInv, TypeOK, Choose, ScanCompare, ScanLoad, ScanStore, TakeTicket
<1>2. Others(a) /\ process'[a] = process[a]
  BY <1>0, <1>1 DEF Choose, ScanCompare, ScanLoad, ScanStore, TakeTicket, Others, TypeOK
<1>3. depth' = depth /\ depth[a] = 0 /\ pc'[a] \in Doorway
  BY <1>0 DEF Choose, ScanCompare, ScanLoad, ScanStore, TakeTicket, Words, TypeOK, Doorway
<1>4. ~Settled(a) /\ ~Settled(a)' /\ ~Outside(a)'
  BY <1>0, <1>3 DEF Choose, ScanCompare, ScanLoad, ScanStore, TakeTicket, Settled, Waiting,
                    Outside, Registering, Doorway
<1>5. NestInv'
  BY DEF Choose, ScanCompare, ScanLoad, ScanStore, TakeTicket, BakeryInv, NestInv
<1>6. Words(a)'
  BY <1>0, <1>1, <1>3, <1>4
     DEF Choose, ScanCompare, ScanLoad, ScanStore, TakeTicket, Words, Ticket, Doorway, TypeOK
<1>7. \A q \in Procs \ {a} : Ordered(a, q)'
  BY <1>4, NoClaim
<1>8. ASSUME NEW p \in Procs \ {a}, Settled(p), Behind(p, a) PROVE Behind(p, a)'
  <2>0. /\ Ticket(p)' = Ticket(p) /\ process'[p] = process[p]
        /\ process[p] \in Slots /\ process[p] # process[a]
        /\ Ticket(p) \in Nat /\ Ticket(a) \in Nat /\ i[a] \in Nat /\ process[p] \in Nat
    BY <1>0, <1>1, <1>2, <1>8, OthersTicket DEF TypeOK, Ticket
  <2>1. CASE Choose(a)
    BY <1>0, <2>0, <2>1 DEF Choose, Behind, TypeOK
  <2>2. CASE ScanCompare(a)
    <3>1. i[a] <= process[p] \/ Ticket(a) >= Ticket(p)
      BY <1>4, <1>8, <2>2 DEF ScanCompare, Behind, Outside, Registering
    <3>2. Ticket(a)' = Ticket(a)
      BY <1>2, <2>2 DEF ScanCompare, Ticket
    <3>3. i[a] = process[p] => number[i[a]] = Ticket(p)
      BY DEF Ticket
    <3>4. \/ pc'[a] = "copy" /\ i'[a] = i[a]
          \/ pc'[a] = "scan" /\ i'[a] = i[a] + 1 /\ ~(number[i[a]] > Ticket(a))
      BY <1>0, <2>2 DEF ScanCompare, TypeOK, Ticket
    <3> QED
      BY <2>0, <3>1, <3>2, <3>3, <3>4 DEF Behind
  <2>3. CASE ScanLoad(a)
    <3>1. i[a] <= process[p] \/ Ticket(a) >= Ticket(p)
      BY <1>4, <1>8, <2>3 DEF ScanLoad, Behind, Outside, Registering
    <3>2. pc'[a] = "paste" /\ i'[a] = i[a] /\ temp'[a] = number[i[a]]
      BY <1>0, <2>3 DEF ScanLoad, TypeOK
    <3>3. Ticket(p) <= Ticket(a) => ~(Ticket(p) > number[i[a]])
      BY <1>8, <2>3 DEF ScanLoad, FallsBack
    <3>4. i[a] = process[p] => number[i[a]] = Ticket(p)
      BY DEF Ticket
    <3>5. number[i[a]] \in Nat
      BY <1>0, <2>3 DEF ScanLoad, SlotInv, LocalInv, TypeOK
    <3>6. Ticket(p) <= Ticket(a) => Ticket(p) <= number[i[a]]
      BY <2>0, <3>3, <3>5
    <3> QED
      BY <2>0, <3>1, <3>2, <3>4, <3>5, <3>6 DEF Behind
  <2>4. CASE ScanStore(a)
    <3>1. i[a] < process[p] \/ temp[a] >= Ticket(p)
      BY <1>4, <1>8, <2>4 DEF ScanStore, Behind, Outside, Registering
    <3>2. pc'[a] = "scan" /\ i'[a] = i[a] + 1 /\ Ticket(a)' = temp[a]
      BY <1>0, <1>1, <1>2, <2>4 DEF ScanStore, TypeOK, Ticket
    <3> QED
      BY <2>0, <3>1, <3>2 DEF Behind
  <2>5. CASE TakeTicket(a)
    <3>1. i[a] <= process[p] \/ Ticket(a) >= Ticket(p)
      BY <1>4, <1>8, <2>5 DEF TakeTicket, Behind, Outside, Registering
    <3>2. Ticket(a) >= Ticket(p)
      BY <1>0, <2>0, <2>5, <3>1 DEF TakeTicket
    <3>3. pc'[a] = "chosen" /\ Ticket(a)' = Ticket(a) + 1
      BY <1>0, <1>1, <1>2, <2>5 DEF TakeTicket, TypeOK, Ticket
    <3> QED
      BY <2>0, <3>2, <3>3 DEF Behind, Before
  <2> QED
    BY <2>1, <2>2, <2>3, <2>4, <2>5
<1> QED
  BY <1>0, <1>2, <1>4, <1>5, <1>6, <1>7, <1>8, BakeryStep

(* A step of a that leaves the words of the slots alone leaves the place   *)
(* of every other process behind a.                                        *)
LEMMA OthersBehind ==
  ASSUME BakeryInv, NEW a \in Procs, Others(a), NEW q \in Procs \ {a},
         number' = number, process'[a] = process[a]
  PROVE  /\ Behind(a, q)' <=> Behind(a, q)
         /\ Settled(q)' <=> Settled(q)
         /\ Ticket(q)' = Ticket(q) /\ Ticket(a)' = Ticket(a) /\ process'[q] = process[q]
<1>1. /\ pc'[q] = pc[q] /\ i'[q] = i[q] /\ depth'[q] = depth[q] /\ process'[q] = process[q]
      /\ temp'[q] = temp[q]
  BY DEF Others
<1>2. Ticket(q)' = Ticket(q) /\ Ticket(a)' = Ticket(a)
  BY <1>1 DEF Ticket
<1> QED
  BY <1>1, <1>2 DEF Behind, Before, Settled, Outside

(* A process with a ticket keeps its place behind the others. *)
LEMMA StaysBehind ==
  ASSUME BakeryInv, NEW a \in Procs, Others(a), NEW p \in Procs \ {a}, Settled(p), Behind(p, a),
         number' = number, process'[a] = process[a],
         pc[a] = "chosen" \/ Settled(a), ~Outside(a), Settled(a)'
  PROVE  Behind(p, a)'
<1>1. Before(p, a)
  BY DEF Behind, Settled, Waiting, BakeryInv, WordsInv, Words, SlotInv, TypeOK
<1>2. process'[p] = process[p] /\ Ticket(p)' = Ticket(p) /\ Ticket(a)' = Ticket(a)
  BY DEF Others, Ticket
<1> QED
  BY <1>1, <1>2 DEF Behind, Before

(* The wait: a goes past a slot when its owner is behind it. *)
LEMMA BakeryWait ==
  ASSUME BakeryInv, NEW a \in Procs,
         \/ Chosen(a) \/ WaitChoosing(a) \/ WaitNumber(a) \/ WaitLess(a) \/ WaitEqual(a)
  PROVE  BakeryInv'
<1> USE SlotFacts DEF Goto, shared
<1>0. SlotInv /\ SlotInv' /\ TypeOK /\ Words(a)
  BY SlotLock DEF BakeryInv, SlotInv, WordsInv
<1>1. process[a] \in Slots /\ process[a] # MaxClients
  BY <1>0 DEF SlotInv, NewInv, TypeOK, Chosen, WaitChoosing, WaitNumber, WaitLess, WaitEqual
<1>2. Others(a) /\ process'[a] = process[a] /\ number' = number
  BY <1>0, <1>1 DEF Chosen, WaitChoosing, WaitNumber, WaitLess, WaitEqual, NextSlot, Others, TypeOK
<1>3. /\ depth' = depth /\ depth[a] = 0 /\ pc[a] \in {"chosen"} \cup Waiting
      /\ pc'[a] \in Waiting /\ Ticket(a)' = Ticket(a)
  BY <1>0, <1>2 DEF Chosen, WaitChoosing, WaitNumber, WaitLess, WaitEqual, NextSlot, Words,
                    TypeOK, Waiting, Ticket
<1>4. Settled(a)' /\ ~Outside(a) /\ ~Outside(a)' /\ (pc[a] = "chosen" \/ Settled(a))
  BY <1>3 DEF Settled, Waiting, Outside, Registering
<1>5. NestInv'
  BY DEF Chosen, WaitChoosing, WaitNumber, WaitLess, WaitEqual, BakeryInv, NestInv
<1>6. Words(a)'
  <2>1. ~choosing'[process[a]] /\ pc'[a] \notin Doorway
    BY <1>0, <1>1, <1>3 DEF Chosen, WaitChoosing, WaitNumber, WaitLess, WaitEqual, Words,
                       Doorway, Waiting, TypeOK
  <2>2. Ticket(a) > 0
    BY <1>0, <1>1, <1>4 DEF Words
  <2> QED
    BY <1>2, <1>3, <1>4, <2>1, <2>2 DEF Words
<1>7. ASSUME NEW q \in Procs \ {a} PROVE Ordered(a, q)'
  <2>0. /\ Ordered(a, q) /\ Words(q)
        /\ Behind(a, q)' <=> Behind(a, q)
        /\ Settled(q)' <=> Settled(q)
        /\ Ticket(q)' = Ticket(q) /\ process'[q] = process[q]
    BY <1>2, OthersBehind DEF BakeryInv, OrderInv, WordsInv
  <2>1. i[a] \in Nat /\ process[q] \in Nat
    BY <1>0 DEF TypeOK
  <2>2. CASE Chosen(a)
    BY <1>0, <1>3, <2>0, <2>1, <2>2 DEF Chosen, Ordered, Passed, Looking, TypeOK
  <2>3. CASE WaitChoosing(a)
    <3>1. pc'[a] = "waitn" /\ i'[a] = i[a] /\ pc[a] = "waitc" /\ ~choosing[i[a]]
          /\ i[a] # MaxClients
      BY <1>0, <2>3 DEF WaitChoosing, TypeOK
    <3>2. i[a] = process[q] => Behind(a, q) \/ Settled(q)
      <4> SUFFICES ASSUME i[a] = process[q], ~Outside(q) PROVE Settled(q)
        BY DEF Behind
      <4>1. pc[q] \notin Doorway
        BY <2>0, <3>1 DEF Words
      <4> QED
        BY <1>0, <4>1 DEF Outside, Settled, Doorway, Waiting, TypeOK, Labels, Registering,
                          SlotInv, LocalInv
    <3> QED
      BY <1>3, <2>0, <3>1, <3>2 DEF Ordered, Passed, Looking, Waiting
  <2>4. CASE WaitNumber(a)
    <3>1. \/ number[i[a]] = 0 /\ pc'[a] = "waitc" /\ i'[a] = i[a] + 1
          \/ pc'[a] = "less" /\ i'[a] = i[a]
      BY <1>0, <2>4 DEF WaitNumber, NextSlot, TypeOK
    <3>2. i[a] = process[q] /\ number[i[a]] = 0 => ~Settled(q)
      BY <1>0, <2>0, <2>4 DEF WaitNumber, Words, Ticket, SlotInv, LocalInv
    <3>3. pc[a] = "waitn"
      BY <2>4 DEF WaitNumber
    <3> QED
      BY <1>3, <2>0, <2>1, <3>1, <3>2, <3>3 DEF Ordered, Passed, Looking, Waiting
  <2>5. CASE WaitLess(a)
    <3>1. /\ pc[a] = "less" /\ i'[a] = i[a] /\ pc'[a] \in {"waitn", "equal"}
          /\ pc'[a] = "equal" => ~(number[i[a]] < Ticket(a))
      BY <1>0, <2>5 DEF WaitLess, TypeOK, Ticket
    <3>2. i[a] = process[q] => number[i[a]] = Ticket(q)
      BY DEF Ticket
    <3>3. Ticket(a) \in Nat /\ number[i[a]] \in Nat
      BY <1>0, <1>1, <3>1 DEF TypeOK, Ticket, SlotInv, LocalInv
    <3> QED
      BY <1>3, <2>0, <2>1, <3>1, <3>2, <3>3 DEF Ordered, Passed, Looking, Waiting
  <2>6. CASE WaitEqual(a)
    <3>1. /\ pc[a] = "equal"
          /\ \/ pc'[a] = "waitn" /\ i'[a] = i[a]
             \/ /\ pc'[a] = "waitc" /\ i'[a] = i[a] + 1
                /\ ~(number[i[a]] = Ticket(a) /\ i[a] < process[a])
      BY <1>0, <2>6 DEF WaitEqual, NextSlot, TypeOK, Ticket
    <3>2. i[a] = process[q] => number[i[a]] = Ticket(q)
      BY DEF Ticket
    <3>3. Ticket(a) \in Nat /\ number[i[a]] \in Nat /\ process[a] # process[q] /\ process[a] \in Nat
      BY <1>0, <1>1, <3>1, SlotsDistinct DEF TypeOK, Ticket, SlotInv, LocalInv
    <3>4. /\ i[a] = process[q] /\ Settled(q) /\ Ticket(q) >= Ticket(a)
          /\ ~(number[i[a]] = Ticket(a) /\ i[a] < process[a])
          => Behind(a, q)
      BY <2>1, <3>2, <3>3 DEF Behind, Before
    <3> QED
      BY <1>3, <2>0, <2>1, <3>1, <3>4 DEF Ordered, Passed, Looking, Waiting
  <2> QED
    BY <2>2, <2>3, <2>4, <2>5, <2>6
<1>8. \A p \in Procs \ {a} : Settled(p) /\ Behind(p, a) => Behind(p, a)'
  BY <1>2, <1>4, StaysBehind
<1> QED
  BY <1>0, <1>2, <1>3, <1>4, <1>5, <1>6, <1>7, <1>8, BakeryStep

(* A nested get: the process that has the lock counts it. *)
LEMMA BakeryNested ==
  ASSUME BakeryInv, NEW a \in Procs, GetRecursive(a)
  PROVE  BakeryInv'
<1> USE SlotFacts DEF Goto
<1>0. SlotInv /\ SlotInv' /\ TypeOK /\ Words(a)
  BY SlotLock DEF BakeryInv, SlotInv, WordsInv
<1>1. process[a] \in Slots /\ process[a] # MaxClients
  BY <1>0 DEF SlotInv, NewInv, TypeOK, GetRecursive
<1>2. Others(a) /\ process'[a] = process[a] /\ number' = number /\ choosing' = choosing
  BY <1>0, <1>1 DEF GetRecursive, Others, TypeOK
<1>3. depth[a] > 0 /\ depth'[a] = depth[a] + 1 /\ pc'[a] = "in" /\ depth[a] \in Nat
  BY <1>0, <1>1 DEF GetRecursive, Words, Outside, Ticket, TypeOK
<1>4. Settled(a) /\ Settled(a)' /\ ~Outside(a) /\ ~Outside(a)' /\ Ticket(a)' = Ticket(a)
  BY <1>2, <1>3 DEF Settled, Outside, Ticket
<1>5. NestInv'
  <2>1. \A p \in Procs \ {a} : depth[p] = 0 /\ depth'[p] = 0
    BY <1>0, <1>2, <1>3, OneHolder DEF MutualExclusion, TypeOK, Others
  <2>2. number_of_recursive_lock' = number_of_recursive_lock + 1
        /\ number_of_recursive_lock = depth[a] - 1
    BY <1>3 DEF GetRecursive, BakeryInv, NestInv
  <2> QED
    BY <1>3, <2>1, <2>2 DEF NestInv
<1>6. Words(a)'
  BY <1>0, <1>1, <1>2, <1>3, <1>4 DEF GetRecursive, Words, Doorway
<1>7. ASSUME NEW q \in Procs \ {a} PROVE Ordered(a, q)'
  <2>1. Behind(a, q)
    BY <1>3 DEF BakeryInv, OrderInv, Ordered, Passed
  <2>2. Behind(a, q)'
    BY <1>2, <2>1, OthersBehind
  <2> QED
    BY <1>3, <2>2 DEF Ordered, Looking
<1>8. \A p \in Procs \ {a} : Settled(p) /\ Behind(p, a) => Behind(p, a)'
  BY <1>2, <1>4, StaysBehind
<1> QED
  BY <1>0, <1>2, <1>4, <1>5, <1>6, <1>7, <1>8, BakeryStep

(* A process gets the lock when it has passed everybody: nobody has it. *)
LEMMA NobodyElse ==
  ASSUME BakeryInv, NEW a \in Procs, Enter(a)
  PROVE  \A q \in Procs \ {a} : Behind(a, q) /\ depth[q] = 0
<1> SUFFICES ASSUME NEW q \in Procs \ {a} PROVE Behind(a, q) /\ depth[q] = 0
  OBVIOUS
<1> USE SlotFacts
<1>0. TypeOK /\ Words(q) /\ Ordered(a, q) /\ Ordered(q, a) /\ Settled(a) /\ ~Outside(a)
  BY DEF Enter, BakeryInv, SlotInv, WordsInv, OrderInv, Settled, Outside, Waiting, Registering
<1>1. Behind(a, q)
  <2>1. CASE process[q] = MaxClients
    BY <1>0, <2>1 DEF BakeryInv, SlotInv, NewInv, TypeOK, Words, Outside, Behind
  <2>2. CASE process[q] # MaxClients
    BY <1>0, <2>2 DEF Enter, Ordered, Passed, Waiting, TypeOK
  <2> QED
    BY <2>1, <2>2
<1>2. ASSUME depth[q] > 0 PROVE FALSE
  <2>1. Settled(q) /\ ~Outside(q)
    BY <1>2 DEF Settled, Outside
  <2>2. pc[a] = "waitc" /\ pc[q] \in {"in", "release", "find", "test"}
    BY <1>0, <1>2 DEF Enter, Words
  <2>3. Before(a, q) /\ Before(q, a)
    BY <1>0, <1>1, <1>2, <2>1, <2>2 DEF Behind, Ordered, Passed
  <2>4. process[a] \in Slots /\ process[q] \in Slots
    BY <1>0, <2>1, ClaimHasSlot
  <2>5. Ticket(a) \in Nat /\ Ticket(q) \in Nat /\ process[a] \in Nat /\ process[q] \in Nat
    BY <1>0, <2>4 DEF Ticket, TypeOK
  <2> QED
    BY <2>3, <2>5 DEF Before
<1> QED
  BY <1>0, <1>1, <1>2 DEF TypeOK

(* The lock is taken. *)
LEMMA BakeryEnter ==
  ASSUME BakeryInv, NEW a \in Procs, Enter(a)
  PROVE  BakeryInv'
<1> USE SlotFacts DEF Goto, shared
<1>0. SlotInv /\ SlotInv' /\ TypeOK /\ Words(a)
  BY SlotLock DEF BakeryInv, SlotInv, WordsInv
<1>1. process[a] \in Slots /\ process[a] # MaxClients
  BY <1>0 DEF SlotInv, NewInv, TypeOK, Enter
<1>2. Others(a) /\ process'[a] = process[a] /\ number' = number /\ choosing' = choosing
  BY <1>0, <1>1 DEF Enter, Others, TypeOK
<1>3. depth[a] = 0 /\ depth'[a] = 1 /\ pc'[a] = "in" /\ pc[a] = "waitc"
  BY <1>0 DEF Enter, Words, TypeOK
<1>4. Settled(a) /\ Settled(a)' /\ ~Outside(a) /\ ~Outside(a)' /\ Ticket(a)' = Ticket(a)
  BY <1>2, <1>3 DEF Settled, Outside, Waiting, Registering, Ticket
<1>5. NestInv'
  <2>1. \A p \in Procs \ {a} : depth[p] = 0 /\ depth'[p] = 0
    BY <1>2, NobodyElse DEF Others
  <2>2. number_of_recursive_lock' = 0
    BY <1>3, <2>1 DEF Enter, BakeryInv, NestInv
  <2> QED
    BY <1>3, <2>1, <2>2 DEF NestInv
<1>6. Words(a)'
  BY <1>0, <1>1, <1>2, <1>3, <1>4 DEF Words, Doorway
<1>7. ASSUME NEW q \in Procs \ {a} PROVE Ordered(a, q)'
  <2>1. Behind(a, q)'
    BY <1>2, NobodyElse, OthersBehind
  <2> QED
    BY <1>3, <2>1 DEF Ordered, Looking
<1>8. \A p \in Procs \ {a} : Settled(p) /\ Behind(p, a) => Behind(p, a)'
  BY <1>2, <1>4, StaysBehind
<1> QED
  BY <1>0, <1>2, <1>4, <1>5, <1>6, <1>7, <1>8, BakeryStep

(* A put gives back one nesting, the last one the ticket. *)
LEMMA BakeryRelease ==
  ASSUME BakeryInv, NEW a \in Procs, Release(a)
  PROVE  BakeryInv'
<1> USE SlotFacts DEF Goto
<1>0. SlotInv /\ SlotInv' /\ TypeOK /\ Words(a)
  BY SlotLock DEF BakeryInv, SlotInv, WordsInv
<1>1. process[a] \in Slots /\ process[a] # MaxClients
  BY <1>0 DEF SlotInv, NewInv, TypeOK, Release
<1>2. Others(a) /\ process'[a] = process[a] /\ choosing' = choosing
  BY <1>0, <1>1 DEF Release, Others, TypeOK
<1>3. /\ depth[a] \in Nat /\ depth[a] > 0 /\ depth'[a] = depth[a] - 1 /\ pc[a] = "release"
      /\ number_of_recursive_lock = depth[a] - 1
  BY <1>0 DEF Release, SlotInv, LocalInv, TypeOK, BakeryInv, NestInv
<1>4. \A p \in Procs \ {a} : depth[p] = 0 /\ depth'[p] = 0
  BY <1>0, <1>2, <1>3, OneHolder DEF MutualExclusion, TypeOK, Others
<1>5. CASE depth[a] = 1
  <2>1. pc'[a] = "out" /\ depth'[a] = 0 /\ number'[process[a]] = 0
        /\ number_of_recursive_lock' = 0
    BY <1>0, <1>1, <1>3, <1>5 DEF Release, TypeOK
  <2>2. Outside(a)' /\ ~Settled(a)'
    BY <2>1 DEF Outside, Settled, Waiting
  <2>3. Words(a)'
    BY <1>0, <1>1, <1>2, <1>3, <2>1, <2>2 DEF Words, Ticket, Doorway
  <2>4. NestInv'
    BY <1>4, <2>1 DEF NestInv
  <2>5. \A q \in Procs \ {a} : Ordered(a, q)'
    BY <2>2, NoClaim
  <2> QED
    BY <1>0, <1>2, <2>2, <2>3, <2>4, <2>5, BakeryStep
<1>6. CASE depth[a] > 1
  <2>1. /\ pc'[a] = "in" /\ depth'[a] > 0 /\ number' = number
        /\ number_of_recursive_lock' = depth'[a] - 1
    BY <1>0, <1>1, <1>3, <1>6 DEF Release, TypeOK
  <2>2. Settled(a) /\ Settled(a)' /\ ~Outside(a) /\ ~Outside(a)' /\ Ticket(a)' = Ticket(a)
    BY <1>2, <1>3, <2>1 DEF Settled, Outside, Ticket
  <2>3. Words(a)'
    BY <1>0, <1>1, <1>2, <1>3, <2>1, <2>2 DEF Words, Doorway
  <2>4. NestInv'
    BY <1>4, <2>1 DEF NestInv
  <2>5. ASSUME NEW q \in Procs \ {a} PROVE Ordered(a, q)'
    <3>1. Behind(a, q)
      BY <1>3 DEF BakeryInv, OrderInv, Ordered, Passed
    <3>2. Behind(a, q)'
      BY <1>2, <2>1, <3>1, OthersBehind
    <3> QED
      BY <2>1, <3>2 DEF Ordered, Looking
  <2>6. \A p \in Procs \ {a} : Settled(p) /\ Behind(p, a) => Behind(p, a)'
    BY <1>2, <2>1, <2>2, StaysBehind
  <2> QED
    BY <1>0, <1>2, <2>2, <2>3, <2>4, <2>5, <2>6, BakeryStep
<1> QED
  BY <1>3, <1>5, <1>6

(* fc_semaphore_init: all slots are free. *)
LEMMA BakeryInit == Init => BakeryInv
<1> SUFFICES ASSUME Init PROVE BakeryInv
  OBVIOUS
<1>1. WordsInv /\ FreeInv /\ NestInv
  BY SlotFacts DEF Init, WordsInv, Words, FreeInv, NestInv, Slots
<1>2. OrderInv
  BY DEF Init, OrderInv, Ordered, Passed, Looking, Waiting
<1> QED
  BY <1>1, <1>2, SlotInit DEF BakeryInv

(* Every step that is neither of the races keeps the invariant. *)
LEMMA BakeryNext ==
  ASSUME BakeryInv, [Next]_vars, faults' = {}
  PROVE  BakeryInv'
<1>1. CASE UNCHANGED vars
  <2>1. SlotInv'
    BY <1>1, SlotNext DEF BakeryInv
  <2>2. WordsInv' /\ FreeInv' /\ NestInv'
    BY <1>1 DEF vars, BakeryInv, WordsInv, Words, FreeInv, NestInv, Outside, Settled, Ticket
  <2>3. OrderInv'
    BY <1>1 DEF vars, BakeryInv, OrderInv, Ordered, Passed, Looking, Behind, Before, Outside,
                Settled, Ticket
  <2> QED
    BY <2>1, <2>2, <2>3 DEF BakeryInv
<1>2. CASE Next
  BY <1>2, BakeryFind, BakeryFree, BakeryDoorway, BakeryWait, BakeryNested, BakeryEnter,
     BakeryRelease DEF Next, Step, FindProcess
<1> QED
  BY <1>1, <1>2

(* The nesting counter, from the invariant. *)
LEMMA NestingFacts == BakeryInv => NestingCounted
<1> SUFFICES ASSUME BakeryInv PROVE NestingCounted
  OBVIOUS
<1>0. TypeOK
  BY DEF BakeryInv, SlotInv
<1>1. \/ number_of_recursive_lock = 0 /\ \A p \in Procs : depth[p] <= 1
      \/ \E p \in Procs : depth[p] > 1 /\ number_of_recursive_lock = depth[p] - 1
  <2>1. CASE \E p \in Procs : depth[p] > 0
    <3>1. PICK p \in Procs : depth[p] > 0
      BY <2>1
    <3>2. number_of_recursive_lock = depth[p] - 1 /\ \A q \in Procs \ {p} : ~(depth[q] > 0)
      BY <3>1, OneHolder DEF BakeryInv, NestInv, MutualExclusion
    <3> QED
      BY <1>0, <3>1, <3>2 DEF TypeOK
  <2>2. CASE \A p \in Procs : ~(depth[p] > 0)
    <3>1. ASSUME NEW p \in Procs PROVE depth[p] = 0
      <4>1. depth[p] \in Nat /\ ~(depth[p] > 0)
        BY <1>0, <2>2 DEF TypeOK
      <4> QED
        BY <4>1
    <3> QED
      BY <3>1 DEF BakeryInv, NestInv
  <2> QED
    BY <2>1, <2>2
<1>2. ASSUME \A p \in Procs : pc[p] \in {"out", "exited"}, NEW s \in Slots
      PROVE  number[s] = 0 /\ ~choosing[s]
  <2>1. CASE \E p \in Procs : process[p] = s
    <3>1. PICK p \in Procs : process[p] = s
      BY <2>1
    <3>2. Words(p) /\ process[p] # MaxClients /\ pc[p] \in {"out", "exited"}
      BY <1>2, <3>1, SlotFacts DEF BakeryInv, WordsInv
    <3>3. Outside(p) /\ pc[p] \notin Doorway
      BY <1>0, <3>2 DEF Words, Outside, Doorway, TypeOK
    <3> QED
      BY <3>1, <3>2, <3>3 DEF Words, Ticket
  <2>2. CASE \A p \in Procs : process[p] # s
    BY <2>2 DEF BakeryInv, FreeInv
  <2> QED
    BY <2>1, <2>2
<1> QED
  BY <1>1, <1>2 DEF NestingCounted

(* Up to the first race the invariant of the bakery holds. *)
LEMMA BakeryHolds == Spec => [](faults = {} => BakeryInv)
<1>1. (faults = {} => BakeryInv) /\ [Next]_vars => (faults = {} => BakeryInv)'
  BY FaultsKept, BakeryNext
<1> QED
  BY <1>1, BakeryInit, PTL DEF Spec

(* Mutual exclusion of fc_semaphore_get and fc_semaphore_put, for every    *)
(* number of processes and slots: two processes have the lock at once only *)
(* after two have registered at once (fc_semaphore_find_process), or after *)
(* the second read of sem[i].number has taken a running maximum back below *)
(* a ticket in use that it had covered (the loop of fc_semaphore_get).     *)
(* There is no third way; MCFcSemaphoreFive goes the second.               *)
THEOREM BakeryExcludes == Spec => [](faults = {} => MutualExclusion)
BY BakeryHolds, OneHolder, PTL

(* Nothing but these two races either makes the one counter of nested      *)
(* locks another one than that of the process with the lock, or leaves a   *)
(* ticket or a count behind when everybody has given the lock back.        *)
THEOREM NestingIsCounted == Spec => [](faults = {} => NestingCounted)
BY BakeryHolds, NestingFacts, PTL

(* Only the entry and the last put of a process change who has the lock.   *)
LEMMA LockStep ==
  ASSUME BakeryInv, BakeryInv', [Next]_vars
  PROVE  [Lock!Next]_{p \in Procs : depth[p] > 0}
<1> DEFINE H == {p \in Procs : depth[p] > 0}
<1> SUFFICES ASSUME H' # H PROVE Lock!Next
  OBVIOUS
<1>0. TypeOK /\ TypeOK' /\ MutualExclusion /\ MutualExclusion'
  BY OneHolder, PTL DEF BakeryInv, SlotInv
<1>1. PICK a \in Procs : GetRecursive(a) \/ Enter(a) \/ Release(a)
  BY DEF Next, Step, FindProcess, FindRegistered, FindFull, FindFree, RegisterPid, LoadNumberPid,
         StoreNumberPid, Get, GetFirst, Choose, ScanCompare, ScanLoad, ScanStore, TakeTicket,
         Chosen, WaitChoosing, WaitNumber, WaitLess, WaitEqual, Put, vars
<1>2. \A q \in Procs \ {a} : depth'[q] = depth[q]
  BY <1>0, <1>1 DEF GetRecursive, Enter, Release, TypeOK
<1>3. ~(depth[a] > 0 <=> depth'[a] > 0)
  BY <1>2
<1>4. CASE depth[a] > 0
  <2>1. \A q \in Procs \ {a} : ~(depth[q] > 0)
    BY <1>0, <1>4 DEF MutualExclusion
  <2>2. H = {a} /\ H' = {}
    BY <1>2, <1>3, <1>4, <2>1
  <2> QED
    BY <2>2 DEF Lock!Next, Lock!Release
<1>5. CASE depth'[a] > 0
  <2>1. \A q \in Procs \ {a} : ~(depth'[q] > 0)
    BY <1>0, <1>5 DEF MutualExclusion
  <2>2. H = {} /\ H' = {a}
    BY <1>2, <1>3, <1>5, <2>1
  <2> QED
    BY <2>2 DEF Lock!Next, Lock!Acquire
<1> QED
  BY <1>3, <1>4, <1>5

(* The bakery is the lock that the FIFO uses (FcLock) from its start up to *)
(* the first of the two races: no hypothesis is made, the races are the    *)
(* steps at which it may cease to be one.                                  *)
THEOREM BakeryImplementsLock == Spec => LockUntilRace
<1>1. Init => Lock!Init
  BY DEF Init, Lock!Init
<1>2. (faults = {} => BakeryInv) /\ (faults = {} => BakeryInv)' /\ [Next]_vars
        => [faults' = {} => Lock!Next]_{p \in Procs : depth[p] > 0}
  <2> SUFFICES ASSUME faults = {} => BakeryInv, (faults = {} => BakeryInv)', [Next]_vars,
                      faults' = {}
               PROVE  [Lock!Next]_{p \in Procs : depth[p] > 0}
    OBVIOUS
  <2>1. faults = {}
    BY FaultsKept
  <2>2. BakeryInv /\ BakeryInv'
    BY <2>1
  <2> QED
    BY <2>2, LockStep
<1> QED
  BY <1>1, <1>2, BakeryHolds, PTL DEF Spec, LockUntilRace
------------------------------------------------------------------------------
(* Two processes: one writer and the manager, say *)
Pair == \A p, q, r \in Procs : p = q \/ q = r \/ p = r

(* A process copies the ticket of another one, and has no running maximum  *)
(* before it has come to the slots of the others.                          *)
FirstCopy(p) ==
  /\ pc[p] \in {"copy", "paste"} => \E q \in Procs \ {p} : process[q] = i[p]
  /\ pc[p] \in {"scan", "copy", "paste"} /\ (\A q \in Procs \ {p} : i[p] <= process[q]) =>
       Ticket(p) = 0

PairInv == \A p \in Procs : FirstCopy(p)

(* With two processes there is nothing to fall back from: the one ticket   *)
(* that can be copied is the first.                                        *)
LEMMA PairKept ==
  ASSUME Pair, BakeryInv, PairInv, NEW p \in Procs, ScanLoad(p)
  PROVE  ~FallsBack(p)
<1> SUFFICES ASSUME NEW q \in Procs, Settled(q), Ticket(q) <= Ticket(p)
             PROVE  FALSE
  BY DEF FallsBack
<1>0. TypeOK /\ pc[p] = "copy"
  BY DEF BakeryInv, SlotInv, ScanLoad
<1>1. PICK r \in Procs \ {p} : process[r] = i[p]
  BY <1>0 DEF PairInv, FirstCopy
<1>2. \A s \in Procs \ {p} : s = r
  BY DEF Pair
<1>3. \A s \in Procs \ {p} : i[p] <= process[s]
  <2>1. i[p] \in Nat /\ i[p] <= process[r]
    BY <1>0, <1>1 DEF TypeOK
  <2> QED
    BY <1>2, <2>1
<1>4. Ticket(p) = 0
  BY <1>0, <1>3 DEF PairInv, FirstCopy
<1>5. Ticket(q) > 0 /\ Ticket(q) \in Nat
  BY <1>0, ClaimHasSlot, SlotFacts DEF BakeryInv, WordsInv, Words, Ticket, TypeOK
<1> QED
  BY <1>4, <1>5

(* A step of a concerns nobody else, as far as slots and tickets go. *)
LEMMA StepOthers ==
  ASSUME BakeryInv, NEW a \in Procs, Get(a) \/ Step(a)
  PROVE  Others(a)
<1> USE SlotFacts DEF Goto, shared
<1>0. SlotInv /\ TypeOK
  BY DEF BakeryInv, SlotInv
<1>1. CASE FindRegistered(a)
  <2>1. PICK s \in Slots : s < number_pid /\ pids[s] = a /\ process' = [process EXCEPT ![a] = s]
    BY <1>1 DEF FindRegistered
  <2>2. process[a] = s
    BY <1>0, <2>1, ConstantsAssumption DEF SlotInv, TableInv
  <2> QED
    BY <1>0, <1>1, <2>1, <2>2 DEF FindRegistered, Others, TypeOK
<1>2. CASE FindFree(a)
  <2>1. process[a] = MaxClients
    BY <1>0, <1>2 DEF FindFree, NotFound, SlotInv, TableInv, TypeOK, Registering
  <2> QED
    BY <1>0, <1>2, <2>1 DEF FindFree, Others, TypeOK
<1>3. CASE \/ FindFull(a) \/ RegisterPid(a) \/ LoadNumberPid(a) \/ StoreNumberPid(a)
           \/ Get(a) \/ GetRecursive(a) \/ GetFirst(a) \/ Put(a)
  BY <1>0, <1>3 DEF FindFull, RegisterPid, LoadNumberPid, StoreNumberPid, Get, GetRecursive,
                    GetFirst, Put, Others, TypeOK
<1>4. CASE Choose(a) \/ ScanCompare(a) \/ ScanLoad(a) \/ ScanStore(a) \/ TakeTicket(a) \/ Chosen(a)
  BY <1>0, <1>4 DEF Choose, ScanCompare, ScanLoad, ScanStore, TakeTicket, Chosen, Others, TypeOK
<1>5. CASE WaitChoosing(a) \/ WaitNumber(a) \/ WaitLess(a) \/ WaitEqual(a) \/ Enter(a) \/ Release(a)
  BY <1>0, <1>5 DEF WaitChoosing, WaitNumber, WaitLess, WaitEqual, NextSlot, Enter, Release,
                    Others, TypeOK
<1> QED
  BY <1>1, <1>2, <1>3, <1>4, <1>5 DEF Step, FindProcess

(* Every step keeps what is said of the first copy. *)
LEMMA PairStep ==
  ASSUME BakeryInv, PairInv, NEW a \in Procs, Get(a) \/ Step(a)
  PROVE  PairInv'
<1> USE SlotFacts DEF Goto, shared
<1>0. SlotInv /\ TypeOK /\ Words(a) /\ Others(a) /\ FirstCopy(a)
  BY StepOthers DEF BakeryInv, SlotInv, WordsInv, PairInv
<1>1. ASSUME NEW p \in Procs \ {a} PROVE FirstCopy(p)'
  <2> SUFFICES ASSUME pc[p] \in {"scan", "copy", "paste"} PROVE FirstCopy(p)'
    BY <1>0 DEF FirstCopy, Others
  <2>1. /\ process[p] \in Slots /\ process[p] # process[a] /\ process[p] # MaxClients
    BY <1>0, SlotsDistinct DEF SlotInv, NewInv, TypeOK
  <2>2. Ticket(p)' = Ticket(p) /\ i'[p] = i[p] /\ pc'[p] = pc[p]
    BY <1>0, <2>1 DEF Others, Ticket
  <2>3. ASSUME NEW q \in Procs, i[p] < MaxClients, process[q] = i[p] PROVE process'[q] = i[p]
    BY <1>0, <2>3 DEF Others, TypeOK
  <2>4. pc[p] \in {"copy", "paste"} => i[p] < MaxClients
    BY <1>0 DEF SlotInv, LocalInv
  <2>5. ASSUME NEW q \in Procs, i[p] <= process'[q] PROVE i[p] <= process[q]
    BY <1>0, <2>5 DEF Others, TypeOK
  <2>6. FirstCopy(p)
    BY DEF PairInv
  <2> QED
    BY <2>2, <2>3, <2>4, <2>5, <2>6 DEF FirstCopy
<1>2. FirstCopy(a)'
  <2>1. CASE Choose(a)
    <3>1. process[a] \in Slots /\ Ticket(a) = 0
      BY <1>0, <2>1 DEF Choose, SlotInv, NewInv, TypeOK, Words, Outside
    <3> QED
      BY <1>0, <2>1, <3>1 DEF Choose, FirstCopy, Ticket, TypeOK
  <2>2. CASE ScanCompare(a)
    <3>1. Ticket(a)' = Ticket(a) /\ process' = process /\ i[a] \in Slots /\ pc[a] = "scan"
      BY <1>0, <2>2 DEF ScanCompare, Ticket, TypeOK
    <3>2. process[a] \in Slots /\ Ticket(a) \in Nat
      BY <1>0, <3>1 DEF SlotInv, NewInv, TypeOK, Ticket
    <3>3. CASE number[i[a]] > Ticket(a)
      <4>1. pc'[a] = "copy" /\ i'[a] = i[a]
        BY <1>0, <2>2, <3>3 DEF ScanCompare, Ticket, TypeOK
      <4>2. \E q \in Procs : process[q] = i[a]
        <5>1. number[i[a]] # 0
          BY <1>0, <3>1, <3>2, <3>3 DEF TypeOK
        <5> QED
          BY <3>1, <5>1 DEF BakeryInv, FreeInv
      <4>3. process[a] # i[a]
        BY <3>2, <3>3 DEF Ticket
      <4> QED
        BY <1>0, <3>1, <4>1, <4>2, <4>3 DEF FirstCopy
    <3>4. CASE ~(number[i[a]] > Ticket(a))
      <4>1. pc'[a] = "scan" /\ i'[a] = i[a] + 1
        BY <1>0, <2>2, <3>4 DEF ScanCompare, Ticket, TypeOK
      <4>2. \A q \in Procs : i[a] + 1 <= process[q] => i[a] <= process[q]
        BY <1>0 DEF TypeOK
      <4> QED
        BY <1>0, <3>1, <4>1, <4>2 DEF FirstCopy
    <3> QED
      BY <3>3, <3>4
  <2>3. CASE ScanLoad(a)
    BY <1>0, <2>3 DEF ScanLoad, FirstCopy, Ticket, TypeOK
  <2>4. CASE ScanStore(a)
    <3>1. PICK q \in Procs \ {a} : process[q] = i[a]
      BY <1>0, <2>4 DEF ScanStore, FirstCopy
    <3>2. pc'[a] = "scan" /\ i'[a] = i[a] + 1 /\ process'[q] = i[a] /\ i[a] \in Nat
      BY <1>0, <2>4, <3>1 DEF ScanStore, TypeOK
    <3>3. ~(i'[a] <= process'[q])
      BY <3>2
    <3> QED
      BY <3>2, <3>3 DEF FirstCopy
  <2>5. CASE ~(Choose(a) \/ ScanCompare(a) \/ ScanLoad(a) \/ ScanStore(a))
    <3>1. pc'[a] \notin {"scan", "copy", "paste"}
      BY <1>0, <2>5 DEF TypeOK, Step, FindProcess, FindRegistered, FindFull, FindFree, RegisterPid,
         LoadNumberPid, StoreNumberPid, Return, Get, GetRecursive, GetFirst, TakeTicket, Chosen,
         WaitChoosing, WaitNumber, WaitLess, WaitEqual, NextSlot, Enter, Put, Release
    <3> QED
      BY <3>1 DEF FirstCopy
  <2> QED
    BY <2>1, <2>2, <2>3, <2>4, <2>5
<1> QED
  BY <1>1, <1>2 DEF PairInv

(* With two processes a maximum never goes back: the race of two           *)
(* registrations is the only one.                                          *)
LEMMA PairNext ==
  ASSUME Pair, BakeryInv, PairInv, [Next]_vars, faults = {}, "registration" \notin faults'
  PROVE  faults' = {} /\ BakeryInv' /\ PairInv'
<1>1. CASE UNCHANGED vars
  <2>1. faults' = {}
    BY <1>1 DEF vars
  <2>2. PairInv'
    BY <1>1 DEF vars, PairInv, FirstCopy, Ticket
  <2> QED
    BY <2>1, <2>2, BakeryNext
<1>2. CASE Next
  <2>1. PICK a \in Procs : Get(a) \/ Step(a)
    BY <1>2 DEF Next
  <2>2. PairInv'
    BY <2>1, PairStep
  <2>3. faults' = {}
    <3>1. CASE ScanLoad(a)
      BY <3>1, PairKept DEF ScanLoad
    <3>2. CASE FindFree(a)
      BY <3>2 DEF FindFree
    <3>3. CASE ~ScanLoad(a) /\ ~FindFree(a)
      BY <2>1, <3>3 DEF Step, FindProcess, FindRegistered, FindFull, RegisterPid, LoadNumberPid,
         StoreNumberPid, Get, GetRecursive, GetFirst, Choose, ScanCompare, ScanStore, TakeTicket,
         Chosen, WaitChoosing, WaitNumber, WaitLess, WaitEqual, Enter, Put, Release
    <3> QED
      BY <3>1, <3>2, <3>3
  <2> QED
    BY <2>2, <2>3, BakeryNext
<1> QED
  BY <1>1, <1>2

(* Two processes that use the lock have it at once only after they have    *)
(* registered at once, whatever the second reads give, and its counter is  *)
(* right: a program with one writer and the manager (FORK and THREAD).     *)
THEOREM TwoExclude ==
  ASSUME Pair
  PROVE  Spec => []("registration" \notin faults =>
                      faults = {} /\ MutualExclusion /\ NestingCounted)
<1> DEFINE PInv == "registration" \notin faults => faults = {} /\ BakeryInv /\ PairInv
<1>1. Init => PInv
  BY BakeryInit DEF Init, PairInv, FirstCopy
<1>2. PInv /\ [Next]_vars => PInv'
  BY FaultsKept, PairNext
<1>3. PInv => ("registration" \notin faults => faults = {} /\ MutualExclusion /\ NestingCounted)
  BY OneHolder, NestingFacts
<1> QED
  BY <1>1, <1>2, <1>3, PTL DEF Spec
=============================================================================
