----------------------------- MODULE MCTracking -----------------------------
(* The trip tracks on small instances: every booking is accepted by the one *)
(* runner, which makes its trips compete for the runner's locations.        *)
EXTENDS TrackingInvariants, TLC

CONSTANT Runner
OneRunner == [b \in Bookings |-> Runner]
\* One partition, and two that take the events of a booking and the locations
\* of a runner in turns.
InOrder == [e \in Event |-> 1]
InTurns ==
  [e \in Event |->
     CASE e \in Unknown  -> e.key
       [] e \in Location -> IF e.point % 2 = 1 THEN 1 ELSE 2
       [] OTHER          -> IF e \in Accepted THEN 1 ELSE 2]
\* The events of bookings in turns, locations in one partition.
ByRunner == [e \in Event |-> IF e \in Location THEN 1 ELSE InTurns[e]]
\* An event that cannot be parsed, in the partition of the acceptance, and one
\* of another type, in that of the confirmation.
Strange == {
  [type |-> "unknown", is |-> "malformed", topic |-> "booking", key |-> 1],
  [type |-> "unknown", is |-> "ignored", topic |-> "booking", key |-> 2]}
Symmetry  == Permutations(Processes) \cup Permutations(Bookings)
=============================================================================
