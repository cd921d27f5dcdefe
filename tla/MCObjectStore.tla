--------------------------- MODULE MCObjectStore ---------------------------
(* Constants for model-checking ObjectStore. *)
EXTENDS ObjectStore, TLC

Symmetry == Permutations(Admins) \cup Permutations(Credentials)
=============================================================================
