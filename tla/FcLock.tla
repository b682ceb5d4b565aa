------------------------------- MODULE FcLock -------------------------------
(***************************************************************************)
(* What the users of the semaphore rely on: a lock with one holder.        *)
(* FcSemaphore is shown to implement it, FcFifo takes its ACQUIRE_LOCK and *)
(* RELEASE_LOCK from it.                                                   *)
(***************************************************************************)
CONSTANTS Procs, NoOne

VARIABLE holder

Init == holder = NoOne

Acquire(p) == holder = NoOne /\ holder' = p

Release(p) == holder = p /\ holder' = NoOne

Next == \E p \in Procs : Acquire(p) \/ Release(p)

Spec == Init /\ [][Next]_holder
=============================================================================
