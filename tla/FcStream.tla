------------------------------ MODULE FcStream ------------------------------
(***************************************************************************)
(* What the FIFO promises to the manager: the events of the program, in    *)
(* order, and an end of stream after the last one.                         *)
(***************************************************************************)
EXTENDS Naturals, Sequences

CONSTANT Event

VARIABLES written, received, over

Init == written = <<>> /\ received = <<>> /\ over = FALSE

(* one more event, whichever it is *)
Publish ==
  /\ ~over
  /\ written' \in Seq(Event) /\ Len(written') = Len(written) + 1
  /\ \A k \in 1 .. Len(written) : written'[k] = written[k]
  /\ UNCHANGED <<received, over>>

Deliver ==
  /\ Len(received) < Len(written)
  /\ received' = Append(received, written[Len(received) + 1])
  /\ UNCHANGED <<written, over>>

EndOfStream ==
  /\ ~over /\ received = written
  /\ over' = TRUE
  /\ UNCHANGED <<written, received>>

Next == Publish \/ Deliver \/ EndOfStream

Spec == Init /\ [][Next]_<<written, received, over>>
=============================================================================
