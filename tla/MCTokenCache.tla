---------------------------- MODULE MCTokenCache ----------------------------
(* Small instances of TokenCache for TLC. *)
EXTENDS TokenCache, TLC

NoOps == {}
Lifecycle == {"create", "rotate", "delete"}
DelayOne == {1}
SomeDelays == {0, 1}

Symmetry == Permutations(Calls) \cup Permutations(Configs)
=============================================================================
