------------------------------- MODULE FcMap -------------------------------
(***************************************************************************)
(* What the users of a hash-table rely on: a partial map from keys to      *)
(* values.                                                                 *)
(***************************************************************************)
CONSTANTS Keys, Vals

VARIABLE map

Init == map = <<>>

Put(k, v) ==
  map' = [j \in DOMAIN map \cup {k} |-> IF j = k THEN v ELSE map[j]]

Delete(k) == map' = [j \in DOMAIN map \ {k} |-> map[j]]

Next == \E k \in Keys : Delete(k) \/ \E v \in Vals : Put(k, v)

Spec == Init /\ [][Next]_map
=============================================================================
