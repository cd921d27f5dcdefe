------------------------------- MODULE Grants -------------------------------
(***************************************************************************)
(* What the management API promises about one subscription, its principal  *)
(* and its bundle: each request decides and changes the object in a single *)
(* step.  The handlers of SubscriptionStore read and write back in two.    *)
(*                                                                         *)
(* A key is a number, keys being issued in order; 0 is no key.             *)
(***************************************************************************)
EXTENDS Naturals

CONSTANT Apis       \* the APIs a bundle can hold

VARIABLES
    sub,        \* the subscription: its stored state, keys, keyless or not
    expired,    \* its ExpiresAt has passed
    disabled,   \* its principal is disabled
    bundle,     \* its bundle: whether it exists, and the APIs in it
    issued      \* keys issued so far

vars == <<sub, expired, disabled, bundle, issued>>

Slots == {"primary", "secondary"}
States == {"none", "active", "suspended", "cancelled"}
NoKeys == [s \in Slots |-> 0]
NoBundle == [exists |-> FALSE, apis |-> {}]
Bundles == [exists : BOOLEAN, apis : SUBSET Apis]

\* Neither missing nor cancelled.
Live == sub.state \in {"active", "suspended"}

\* The keys that keyMatches accepts.
Keys == {sub.keys[s] : s \in Slots} \ {0}

Init ==
    /\ sub = [state |-> "none", keys |-> NoKeys, keyless |-> FALSE]
    /\ expired = FALSE
    /\ disabled = FALSE
    /\ bundle \in {b \in Bundles : b.exists \/ b = NoBundle}
    /\ issued = 0

-----------------------------------------------------------------------------
(* Requests about the subscription. *)

Subscribe(keyless) ==
    /\ sub.state = "none"
    /\ bundle.exists /\ ~disabled
    /\ sub' = [state |-> "active", keyless |-> keyless,
               keys |-> IF keyless THEN NoKeys ELSE
                 [s \in Slots |-> IF s = "primary" THEN issued + 1 ELSE issued + 2]]
    /\ issued' = IF keyless THEN issued ELSE issued + 2
    /\ expired' \in BOOLEAN
    /\ UNCHANGED <<disabled, bundle>>

Move(from, to) ==
    /\ sub.state \in from
    /\ sub' = [sub EXCEPT !.state = to]
    /\ UNCHANGED <<expired, disabled, bundle, issued>>

Suspend == Move({"active"}, "suspended")
Reactivate == Move({"suspended"}, "active")
Cancel == Move({"active", "suspended"}, "cancelled")

Regenerate(slot) ==
    /\ Live /\ ~sub.keyless
    /\ sub' = [sub EXCEPT !.keys[slot] = issued + 1]
    /\ issued' = issued + 1
    /\ UNCHANGED <<expired, disabled, bundle>>

Expire ==
    /\ sub.state # "none" /\ ~expired
    /\ expired' = TRUE
    /\ UNCHANGED <<sub, disabled, bundle, issued>>

-----------------------------------------------------------------------------
(* Requests about the principal and the bundle. *)

SetDisabled ==
    /\ disabled' \in BOOLEAN
    /\ UNCHANGED <<sub, expired, bundle, issued>>

CreateBundle ==
    /\ ~bundle.exists
    /\ bundle' \in Bundles /\ bundle'.exists
    /\ UNCHANGED <<sub, expired, disabled, issued>>

EditBundle(api) ==
    /\ bundle.exists
    /\ \/ bundle' = [bundle EXCEPT !.apis = @ \cup {api}]
       \/ bundle' = [bundle EXCEPT !.apis = @ \ {api}]
    /\ UNCHANGED <<sub, expired, disabled, issued>>

\* Refused while the subscription is live; 404 when there is none.
DeleteBundle ==
    /\ ~Live
    /\ bundle' = NoBundle
    /\ UNCHANGED <<sub, expired, disabled, issued>>

Next == \/ \E keyless \in BOOLEAN : Subscribe(keyless)
        \/ Suspend \/ Reactivate \/ Cancel \/ Expire
        \/ \E slot \in Slots : Regenerate(slot)
        \/ SetDisabled \/ CreateBundle \/ DeleteBundle
        \/ \E api \in Apis : EditBundle(api)

Spec == Init /\ [][Next]_vars

-----------------------------------------------------------------------------
(* What follows for the operator. *)

\* Every variable keeps its type, and no key is stored that was not issued.
TypeOK ==
    /\ sub \in [state : States, keys : [Slots -> 0..issued], keyless : BOOLEAN]
    /\ expired \in BOOLEAN
    /\ disabled \in BOOLEAN
    /\ bundle \in Bundles
    /\ issued \in Nat

\* No live subscription names a bundle that is gone: deleteBundle looks for one
\* and createSubscription for the other.
LiveHasBundle == Live => bundle.exists

\* ADR 0003: "`cancelled` is terminal".
CancelledFinal == sub.state = "cancelled" => sub'.state = "cancelled"

\* A subscription whose ExpiresAt has passed stays expired.
ExpiredFinal == expired => expired'

\* A key that regenerate replaced is never accepted again.
ReplacedKeyDead == \A k \in 1..issued : k \notin Keys => k \notin Keys'

=============================================================================
