---------------------------- MODULE MCStateStore ----------------------------
(* StateStore on small instances. *)
EXTENDS StateStore, TLC

Symmetry == Permutations(Clients) \cup Permutations(Values)
=============================================================================
