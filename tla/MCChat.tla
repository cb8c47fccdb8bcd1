------------------------------- MODULE MCChat -------------------------------
(* The chat on small instances. *)
EXTENDS Chat

Symmetry == Permutations(Senders)
Pages    == {0, 1, MaxInt}
Limits   == {0, 1, MaxInt}
=============================================================================
