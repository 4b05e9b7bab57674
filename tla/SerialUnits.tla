----------------------------- MODULE SerialUnits -----------------------------
(***************************************************************************)
(* What units of work of one lock key promise together: the changes of a   *)
(* unit are made to everything that the units before it stored, as if the  *)
(* units had been one after the other.  No change is lost, and none is     *)
(* made to what was stored before another one.                             *)
(***************************************************************************)
EXTENDS Sequences

CONSTANT Units

VARIABLE stored     \* the units whose changes are stored, in their order

Init == stored = <<>>

Change(u) == stored' = Append(stored, u)

Next == \E u \in Units : Change(u)

Spec == Init /\ [][Next]_stored

=============================================================================
