----------------------------- MODULE MCHubFeed -----------------------------
(* The hub with its memory, on small instances. *)
EXTENDS HubFeed, TLC

Bodies   == 1..MaxSaid
Symmetry == Permutations(Clients) \cup Permutations(Bookings)
=============================================================================
