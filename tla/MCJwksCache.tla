---------------------------- MODULE MCJwksCache ----------------------------
(* Small instances of JwksCache for TLC. *)
EXTENDS JwksCache, TLC

Genuine(k) == [jws |-> TRUE, kid |-> k, holds |-> TRUE]

\* A good token of every key, and one that is none.
AllTokens == {Genuine(k) : k \in Kids}
             \cup {[jws |-> FALSE, kid |-> CHOOSE k \in Kids : TRUE, holds |-> FALSE]}
=============================================================================
