---------------------------- MODULE FcSemaphore ----------------------------
(***************************************************************************)
(* The semaphore that protects the shared FIFO when several processes (or  *)
(* threads) of the profiled program write to it: fcmanager/fc_semaphore.c, *)
(* a bakery algorithm in shared memory.                                    *)
(*                                                                         *)
(* A process is known to the semaphore by a slot, which it takes the first *)
(* time it calls fc_semaphore_get (fc_semaphore_find_process).  Every read *)
(* and every write of a shared word is a step of its own; memory is        *)
(* sequentially consistent.                                                *)
(***************************************************************************)
EXTENDS Integers

CONSTANTS
  Procs,       \* the processes that use the semaphore (their pids)
  NoPid,       \* an entry of pids that none of them has taken
  Ended,       \* slots taken by processes that have ended: up to so many
  MaxClients,  \* FC_MAX_SCLIENTS, the number of slots
  Protected,   \* TRUE: no two processes are ever registering at once (for
               \* model checking; the theorems do without)
  MaxDepth,    \* bound: how deep a process nests its gets
  MaxNumber    \* bound: the largest ticket, SHRT_MAX in the code

ASSUME ConstantsAssumption ==
  /\ NoPid \notin Procs
  /\ MaxClients \in Nat \ {0}
  /\ Ended \in 0 .. MaxClients
  /\ Protected \in BOOLEAN
  /\ MaxDepth \in Nat
  /\ MaxNumber \in Nat

Slots == 0 .. MaxClients - 1

VARIABLES
  \* FC_Semaphore, in shared memory
  pids, number_pid, choosing, number, number_of_recursive_lock,
  \* the processes: program counter, what find_process returns to, and the
  \* locals process (the slot; MaxClients before the first call), i (the
  \* loop index) and temp (a register, 0 once it has been stored)
  pc, op, process, i, temp,
  depth,       \* history: gets that have returned without their put
  faults       \* history: which of the two races below have happened so far

shared == <<pids, number_pid, choosing, number, number_of_recursive_lock>>
vars == <<pids, number_pid, choosing, number, number_of_recursive_lock,
          pc, op, process, i, temp, depth, faults>>

(* fc_semaphore_init: everything is zeroed.  A slot is never given back:   *)
(* some may belong to processes that came and went before.                 *)
Init ==
  /\ pids = [s \in Slots |-> NoPid]
  /\ number_pid \in 0 .. Ended
  /\ choosing = [s \in Slots |-> FALSE]
  /\ number = [s \in Slots |-> 0]
  /\ number_of_recursive_lock = 0
  /\ pc = [p \in Procs |-> "out"]
  /\ op = [p \in Procs |-> "get"]
  /\ process = [p \in Procs |-> MaxClients]
  /\ i = [p \in Procs |-> 0]
  /\ temp = [p \in Procs |-> 0]
  /\ depth = [p \in Procs |-> 0]
  /\ faults = {}

Goto(p, label) == pc' = [pc EXCEPT ![p] = label]

------------------------------------------------------------------------------
(* fc_semaphore_find_process *)

Registering == {"store", "load", "incr"}

(* where find_process returns: the body of fc_semaphore_get or _put *)
Return(p) == IF op[p] = "get" THEN "test" ELSE "release"

(* the scan finds the process at the first slot that holds its pid *)
FindRegistered(p) ==
  /\ pc[p] = "find" /\ Goto(p, Return(p))
  /\ \E s \in Slots :
       /\ s < number_pid /\ pids[s] = p
       /\ \A t \in Slots : t < s => pids[t] # p
       /\ process' = [process EXCEPT ![p] = s]
  /\ UNCHANGED <<shared, op, i, temp, depth, faults>>

NotFound(p) == \A s \in Slots : s < number_pid => pids[s] # p

(* the table is full: fc_message_fatal ends the process *)
FindFull(p) ==
  /\ pc[p] = "find" /\ Goto(p, "exited")
  /\ NotFound(p) /\ number_pid >= MaxClients
  /\ UNCHANGED <<shared, op, process, i, temp, depth, faults>>

(* not found: the slot after the last one, "this part sould be protected   *)
(* against multiple access", that is, it is a race with a process that is  *)
(* registering already                                                     *)
Alone == \A q \in Procs : pc[q] \notin Registering

FindFree(p) ==
  /\ pc[p] = "find" /\ Goto(p, "store")
  /\ NotFound(p) /\ number_pid < MaxClients
  /\ Protected => Alone
  /\ process' = [process EXCEPT ![p] = number_pid]
  /\ faults' = IF Alone THEN faults ELSE faults \cup {"registration"}
  /\ UNCHANGED <<shared, op, i, temp, depth>>

RegisterPid(p) ==
  /\ pc[p] = "store" /\ Goto(p, "load")
  /\ pids' = [pids EXCEPT ![process[p]] = p]
  /\ UNCHANGED <<number_pid, choosing, number, number_of_recursive_lock,
                 op, process, i, temp, depth, faults>>

(* number_pid++ is a load and a store *)
LoadNumberPid(p) ==
  /\ pc[p] = "load" /\ Goto(p, "incr")
  /\ temp' = [temp EXCEPT ![p] = number_pid]
  /\ UNCHANGED <<shared, op, process, i, depth, faults>>

(* a bug: the slot is not counted *)
StoreNumberPid_Forgotten(p) ==
  /\ pc[p] = "incr" /\ Goto(p, Return(p))
  /\ UNCHANGED <<shared, op, process, i, temp, depth, faults>>

StoreNumberPid(p) ==
  /\ pc[p] = "incr" /\ Goto(p, Return(p))
  /\ number_pid' = temp[p] + 1
  /\ temp' = [temp EXCEPT ![p] = 0]
  /\ UNCHANGED <<pids, choosing, number, number_of_recursive_lock,
                 op, process, i, depth, faults>>

------------------------------------------------------------------------------
(* fc_semaphore_get *)

Get(p) ==
  /\ pc[p] \in {"out", "in"} /\ Goto(p, "find")
  /\ depth[p] < MaxDepth
  /\ op' = [op EXCEPT ![p] = "get"]
  /\ UNCHANGED <<shared, process, i, temp, depth, faults>>

(* a bug: a nested get is not counted *)
GetRecursive_Uncounted(p) ==
  /\ pc[p] = "test" /\ Goto(p, "in")
  /\ number[process[p]] # 0
  /\ depth' = [depth EXCEPT ![p] = @ + 1]
  /\ UNCHANGED <<shared, op, process, i, temp, faults>>

(* the slot already has a ticket: "lock a yet locked", and return *)
GetRecursive(p) ==
  /\ pc[p] = "test" /\ Goto(p, "in")
  /\ number[process[p]] # 0
  /\ number_of_recursive_lock' = number_of_recursive_lock + 1
  /\ depth' = [depth EXCEPT ![p] = @ + 1]
  /\ UNCHANGED <<pids, number_pid, choosing, number, op, process, i, temp, faults>>

GetFirst(p) ==
  /\ pc[p] = "test" /\ Goto(p, "choose")
  /\ number[process[p]] = 0
  /\ UNCHANGED <<shared, op, process, i, temp, depth, faults>>

Choose(p) ==
  /\ pc[p] = "choose" /\ Goto(p, "scan")
  /\ choosing' = [choosing EXCEPT ![process[p]] = TRUE]
  /\ i' = [i EXCEPT ![p] = 0]
  /\ UNCHANGED <<pids, number_pid, number, number_of_recursive_lock,
                 op, process, temp, depth, faults>>

(* The running maximum lives in the shared word sem[process].number itself, *)
(* and sem[i].number is read twice: to compare it and to copy it.  When it  *)
(* fell between the two reads, the maximum goes back; that is a race when   *)
(* it goes back below a ticket that it has covered and that is still used.  *)
Waiting == {"waitc", "waitn", "less", "equal"}

(* the ticket of a process, or what it has of it so far *)
Ticket(p) == number[process[p]]

(* the ticket is taken and told *)
Settled(p) == pc[p] \in Waiting \/ depth[p] > 0

FallsBack(p) ==
  \E q \in Procs :
    Settled(q) /\ Ticket(q) <= Ticket(p) /\ Ticket(q) > number[i[p]]

ScanCompare(p) ==
  /\ pc[p] = "scan" /\ i[p] < MaxClients
  /\ IF number[i[p]] > number[process[p]]
       THEN Goto(p, "copy") /\ UNCHANGED i
       ELSE i' = [i EXCEPT ![p] = @ + 1] /\ UNCHANGED pc
  /\ UNCHANGED <<shared, op, process, temp, depth, faults>>

ScanLoad(p) ==
  /\ pc[p] = "copy" /\ Goto(p, "paste")
  /\ temp' = [temp EXCEPT ![p] = number[i[p]]]
  /\ faults' = IF FallsBack(p) THEN faults \cup {"maximum"} ELSE faults
  /\ UNCHANGED <<shared, op, process, i, depth>>

ScanStore(p) ==
  /\ pc[p] = "paste" /\ Goto(p, "scan")
  /\ number' = [number EXCEPT ![process[p]] = temp[p]]
  /\ i' = [i EXCEPT ![p] = @ + 1]
  /\ temp' = [temp EXCEPT ![p] = 0]
  /\ UNCHANGED <<pids, number_pid, choosing, number_of_recursive_lock,
                 op, process, depth, faults>>

(* a bug: the ticket is not one above the maximum, unless that is 0 *)
TakeTicket_NotAbove(p) ==
  /\ pc[p] = "scan" /\ Goto(p, "chosen")
  /\ i[p] = MaxClients
  /\ number[process[p]] < MaxNumber
  /\ number' = [number EXCEPT ![process[p]] = IF @ = 0 THEN 1 ELSE @]
  /\ UNCHANGED <<pids, number_pid, choosing, number_of_recursive_lock,
                 op, process, i, temp, depth, faults>>

TakeTicket(p) ==
  /\ pc[p] = "scan" /\ Goto(p, "chosen")
  /\ i[p] = MaxClients
  /\ number[process[p]] < MaxNumber
  /\ number' = [number EXCEPT ![process[p]] = @ + 1]
  /\ UNCHANGED <<pids, number_pid, choosing, number_of_recursive_lock,
                 op, process, i, temp, depth, faults>>

Chosen(p) ==
  /\ pc[p] = "chosen" /\ Goto(p, "waitc")
  /\ choosing' = [choosing EXCEPT ![process[p]] = FALSE]
  /\ i' = [i EXCEPT ![p] = 0]
  /\ UNCHANGED <<pids, number_pid, number, number_of_recursive_lock,
                 op, process, temp, depth, faults>>

(* a bug: nobody waits until the others have chosen *)
WaitChoosing_Skipped(p) ==
  /\ pc[p] = "waitc" /\ Goto(p, "waitn")
  /\ i[p] < MaxClients
  /\ UNCHANGED <<shared, op, process, i, temp, depth, faults>>

(* while (s->sem[i].choosing) select(...) *)
WaitChoosing(p) ==
  /\ pc[p] = "waitc" /\ Goto(p, "waitn")
  /\ i[p] < MaxClients
  /\ ~choosing[i[p]]
  /\ UNCHANGED <<shared, op, process, i, temp, depth, faults>>

(* The condition of the second loop reads sem[i].number up to three times: *)
(* is it zero, is it less than mine, is it equal to mine.                  *)
NextSlot(p) == Goto(p, "waitc") /\ i' = [i EXCEPT ![p] = @ + 1]

WaitNumber(p) ==
  /\ pc[p] = "waitn"
  /\ IF number[i[p]] = 0
       THEN NextSlot(p)
       ELSE Goto(p, "less") /\ UNCHANGED i
  /\ UNCHANGED <<shared, op, process, temp, depth, faults>>

WaitLess(p) ==
  /\ pc[p] = "less"
  /\ Goto(p, IF number[i[p]] < number[process[p]] THEN "waitn" ELSE "equal")
  /\ UNCHANGED <<shared, op, process, i, temp, depth, faults>>

(* a bug: equal tickets are not told apart by the slots *)
WaitEqual_NoTieBreak(p) ==
  /\ pc[p] = "equal"
  /\ NextSlot(p)
  /\ UNCHANGED <<shared, op, process, temp, depth, faults>>

WaitEqual(p) ==
  /\ pc[p] = "equal"
  /\ IF number[i[p]] = number[process[p]] /\ i[p] < process[p]
       THEN Goto(p, "waitn") /\ UNCHANGED i
       ELSE NextSlot(p)
  /\ UNCHANGED <<shared, op, process, temp, depth, faults>>

Enter(p) ==
  /\ pc[p] = "waitc" /\ Goto(p, "in")
  /\ i[p] = MaxClients
  /\ depth' = [depth EXCEPT ![p] = @ + 1]
  /\ UNCHANGED <<shared, op, process, i, temp, faults>>

------------------------------------------------------------------------------
(* fc_semaphore_put *)

Put(p) ==
  /\ pc[p] = "in" /\ Goto(p, "find")
  /\ op' = [op EXCEPT ![p] = "put"]
  /\ UNCHANGED <<shared, process, i, temp, depth, faults>>

Release(p) ==
  /\ pc[p] = "release" /\ Goto(p, IF depth[p] > 1 THEN "in" ELSE "out")
  /\ depth' = [depth EXCEPT ![p] = @ - 1]
  /\ IF number_of_recursive_lock # 0
       THEN /\ number_of_recursive_lock' = number_of_recursive_lock - 1
            /\ UNCHANGED number
       ELSE /\ number' = [number EXCEPT ![process[p]] = 0]
            /\ UNCHANGED number_of_recursive_lock
  /\ UNCHANGED <<pids, number_pid, choosing, op, process, i, temp, faults>>

------------------------------------------------------------------------------
FindProcess(p) ==
  FindRegistered(p) \/ FindFull(p) \/ FindFree(p)
    \/ RegisterPid(p) \/ LoadNumberPid(p) \/ StoreNumberPid(p)

(* everything a process does on its own once it has called get or put *)
Step(p) ==
  \/ FindProcess(p)
  \/ GetRecursive(p) \/ GetFirst(p)
  \/ Choose(p) \/ ScanCompare(p) \/ ScanLoad(p) \/ ScanStore(p)
  \/ TakeTicket(p) \/ Chosen(p)
  \/ WaitChoosing(p) \/ WaitNumber(p) \/ WaitLess(p) \/ WaitEqual(p) \/ Enter(p)
  \/ Put(p) \/ Release(p)

Next == \E p \in Procs : Get(p) \/ Step(p)

Spec == Init /\ [][Next]_vars

(* a process that has called get or put is scheduled again and again, and  *)
(* whoever has the lock comes to its put                                   *)
Fairness == \A p \in Procs : WF_vars(Step(p))

------------------------------------------------------------------------------
Labels == {"out", "find", "store", "load", "incr", "test", "choose", "scan",
           "copy", "paste", "chosen", "waitc", "waitn", "less", "equal", "in",
           "release", "exited"}

TypeOK ==
  /\ pids \in [Slots -> Procs \cup {NoPid}]
  /\ number_pid \in 0 .. MaxClients
  /\ choosing \in [Slots -> BOOLEAN]
  /\ number \in [Slots -> 0 .. MaxNumber]
  /\ number_of_recursive_lock \in Nat
  /\ pc \in [Procs -> Labels]
  /\ op \in [Procs -> {"get", "put"}]
  /\ process \in [Procs -> 0 .. MaxClients]
  /\ i \in [Procs -> 0 .. MaxClients]
  /\ temp \in [Procs -> Nat]
  /\ depth \in [Procs -> Nat]
  /\ faults \subseteq {"registration", "maximum"}

(* The point of the semaphore (fc_fifo.c, ACQUIRE_LOCK): at most one       *)
(* process is between fc_semaphore_get and the fc_semaphore_put that       *)
(* matches it, whatever nested gets and puts come between the two.         *)
MutualExclusion ==
  \A p, q \in Procs : depth[p] > 0 /\ depth[q] > 0 => p = q

(* A slot belongs to one process, and stays in the table under its pid: no *)
(* process competes with, or finds, the ticket of another one.             *)
PrivateSlots ==
  \A p \in Procs : process[p] # MaxClients /\ pc[p] # "store" =>
    /\ pids[process[p]] = p
    /\ \A q \in Procs \ {p} : process[q] # process[p]

(* The counter of nested locks is one word for all processes; it is the    *)
(* nesting of the process that holds the lock, so only the last put gives  *)
(* the lock back; and once everybody has given it back, no count and no    *)
(* ticket is left behind that would block the next one.                    *)
NestingCounted ==
  /\ \/ number_of_recursive_lock = 0 /\ \A p \in Procs : depth[p] <= 1
     \/ \E p \in Procs : depth[p] > 1 /\ number_of_recursive_lock = depth[p] - 1
  /\ (\A p \in Procs : pc[p] \in {"out", "exited"}) =>
       \A s \in Slots : number[s] = 0 /\ ~choosing[s]

(* Whoever calls fc_semaphore_get is eventually let in, however often the  *)
(* others come back: no deadlock of the doorway, no starvation, no wait on *)
(* a slot that nobody owns.  Nothing is said once the tickets have come to *)
(* their bound.                                                            *)
NoStarvation ==
  \A p \in Procs :
    pc[p] = "find" /\ op[p] = "get" ~>
      \/ pc[p] \in {"in", "exited"}
      \/ \E s \in Slots : number[s] = MaxNumber

(* The semaphore is the lock that FcFifo uses: the set of the processes    *)
(* with the lock goes from nobody to one process and back, and a nested    *)
(* get or put changes nothing.                                             *)
Lock == INSTANCE FcLock WITH
          Procs <- {{p} : p \in Procs}, NoOne <- {},
          holder <- {p \in Procs : depth[p] > 0}
LockImplemented == Lock!Spec

(* The same as far as it goes: the semaphore is that lock from its         *)
(* initialization up to the first step at which one of the two races       *)
(* happens.                                                                *)
LockUntilRace ==
  /\ Lock!Init
  /\ [][faults' = {} => Lock!Next]_{p \in Procs : depth[p] > 0}
=============================================================================
