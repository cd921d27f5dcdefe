--------------------------- MODULE MCConnectorHub ---------------------------
(* Small instances of ConnectorHub for TLC. *)
EXTENDS ConnectorHub, TLC

\* An agent registers every slot, or one of them.
AllOrOne == {Slots, {CHOOSE slot \in Slots : TRUE}}
Lifecycle == {"create", "enable", "disable", "delete", "primary"}
=============================================================================
