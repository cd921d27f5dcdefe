------------------------ MODULE MCSubscriptionStore ------------------------
(* Constants for model-checking SubscriptionStore. *)
EXTENDS SubscriptionStore, TLC

\* An ExpiresAt the clock reaches, and one it does not.
SoonOrNever == {1, MaxTime + 1}
Symmetry == Permutations(Admins)
=============================================================================
