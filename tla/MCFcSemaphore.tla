--------------------------- MODULE MCFcSemaphore ---------------------------
(***************************************************************************)
(* The semaphore with what is proved of it; the cfg gives the constants.   *)
(* Processes are numbers.  They differ by their names alone, so of the     *)
(* behaviours that a change of names turns into one another the run keeps  *)
(* the one in which they come to the table in the order of the numbers.    *)
(***************************************************************************)
EXTENDS FcSemaphoreProofs

Known(p) == process[p] # MaxClients \/ pc[p] = "exited"

InOrder == \A p, q \in Procs : p < q /\ Known(q)' => Known(p)'

(* bound: a process that has the lock nests its gets first and then puts   *)
(* them all, so that it does not keep the lock for ever                    *)
NestedFirst ==
  \A p \in Procs : pc[p] = "in" /\ op[p] = "put" => op'[p] = "put"

(* Whoever has called get or put goes on, also when it is not its turn to  *)
(* register: it waits for one that comes before it, which has to come.     *)
OrderedSpec == Init /\ [][Next /\ InOrder /\ NestedFirst]_vars /\ Fairness
=============================================================================
