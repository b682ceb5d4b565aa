------------------------- MODULE MCFcSemaphoreFive -------------------------
(***************************************************************************)
(* One schedule of five processes, out of the behaviours of FcSemaphore:   *)
(* who runs, and up to which label and loop index.  Registration is over   *)
(* long before the contention.                                             *)
(***************************************************************************)
EXTENDS FcSemaphore, Sequences

CONSTANTS m, k, x, a, b

VARIABLE phase

Turn(p, label, index) == [proc |-> p, label |-> label, index |-> index]

(* the loop index where a process has gone through its last loop *)
Done == MaxClients

Schedule == <<
  Turn(m, "out", Done), Turn(k, "out", Done),          \* slots 0 and 1
  Turn(x, "in", Done),                                 \* slot 2, ticket 1
  Turn(a, "waitn", 2), Turn(b, "waitn", 2),            \* tickets 2 and 3
  Turn(x, "out", Done), Turn(a, "in", Done), Turn(b, "waitn", 3),
  Turn(k, "scan", 3),      \* k saw no ticket in slots 0 to 2
  Turn(x, "copy", 4),      \* x has copied 2 from a and is to copy 3 from b
  Turn(a, "out", Done), Turn(b, "out", Done),
  Turn(k, "waitc", 2),     \* ticket 1, waits until x has chosen
  Turn(m, "copy", 2),      \* m has copied 1 from k and is to copy 2 from x
  Turn(x, "scan", 5),      \* b is gone: x goes back to 0
  Turn(m, "waitc", 0),     \* and so does m, which takes ticket 1 like k
  Turn(x, "waitc", 0),
  Turn(m, "in", Done),
  Turn(k, "in", Done) >>

ScheduledNext ==
  /\ phase <= Len(Schedule)
  /\ LET turn == Schedule[phase] IN
       /\ Get(turn.proc) \/ Step(turn.proc)
       /\ phase' = IF pc'[turn.proc] = turn.label /\ i'[turn.proc] = turn.index
                     THEN phase + 1 ELSE phase

ScheduledSpec == Init /\ phase = 1 /\ [][ScheduledNext]_<<vars, phase>>
=============================================================================
