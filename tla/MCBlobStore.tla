---------------------------- MODULE MCBlobStore -----------------------------
(* BlobStore on small instances. *)
EXTENDS BlobStore, TLC

Symmetry == Permutations(Blobs) \cup Permutations(Nodes) \cup Permutations(Threads)
=============================================================================
