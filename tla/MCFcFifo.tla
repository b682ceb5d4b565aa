------------------------------ MODULE MCFcFifo ------------------------------
EXTENDS FcFifoProofs

(* the second event of the first process, the first one of another *)
MCUntimed ==
  {e \in Clients \X (1 .. MaxEvents) : e[2] = IF e[1] = Root THEN 2 ELSE 1}
=============================================================================
