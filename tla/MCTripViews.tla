---------------------------- MODULE MCTripViews ----------------------------
(* The readers of a trip on small instances.  Points are not ordered here.  *)
EXTENDS TripViews, TLC

Symmetry == Permutations(Requests) \cup Permutations(Bookings) \cup Permutations(Points)
=============================================================================
