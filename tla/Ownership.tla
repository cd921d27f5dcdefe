------------------------------ MODULE Ownership ------------------------------
(***************************************************************************)
(* What an owner of the gateway promises (gw_tenancy.go, and ownerAdmin in *)
(* gw_api.go): it is claimed once, by its first admin, its admins change   *)
(* by the hand of an admin only, and it never runs out of them.            *)
(***************************************************************************)
CONSTANTS
    Subs,   \* OIDC subjects
    Realm   \* those with the realm's role GatewayAdmin

VARIABLE admins  \* the owner's admins, none before it is claimed

Init == admins \in SUBSET Subs

Claim(sub) == admins = {} /\ admins' = {sub}

Administers(sub) == admins # {} /\ sub \in admins \cup Realm

Add(sub, who) == Administers(sub) /\ admins' = admins \cup {who}

Remove(sub, who) ==
    /\ Administers(sub)
    /\ admins' = admins \ {who} /\ admins' # {}

Next ==
    \E sub \in Subs :
      \/ Claim(sub)
      \/ \E who \in Subs : Add(sub, who) \/ Remove(sub, who)

Spec == Init /\ [][Next]_admins
=============================================================================
