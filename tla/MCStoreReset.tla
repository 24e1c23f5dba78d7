---------------------------- MODULE MCStoreReset ----------------------------
(* StoreReset on a small instance. *)
EXTENDS StoreReset, TLC

Symmetry == Permutations(Tokens)
=============================================================================
