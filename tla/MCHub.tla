------------------------------- MODULE MCHub -------------------------------
(* The hub on small instances.  Connections, bookings and payloads are      *)
(* interchangeable: nothing orders them, so the safety runs use symmetry.   *)
EXTENDS Hub, TLC

Symmetry == Permutations(Clients) \cup Permutations(Bookings)
=============================================================================
