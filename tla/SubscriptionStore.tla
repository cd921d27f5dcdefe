-------------------------- MODULE SubscriptionStore --------------------------
(***************************************************************************)
(* One subscription, its principal and its bundle in the object store of   *)
(* one owner (gw_store.go), the management handlers that change them       *)
(* (gw_api.go) and the data plane that grants calls by them (gw_lane.go).  *)
(*                                                                         *)
(* put and remove are atomic file operations under the store's mutex, and  *)
(* a read sees a whole file; nothing is held from a handler's read to its  *)
(* write, nor between the three reads of a data-plane call.  Subscriptions *)
(* and principals are never removed.                                       *)
(***************************************************************************)
EXTENDS Naturals

CONSTANTS
    Admins,     \* management requests that can be under way together
    Calls,      \* data-plane calls, each made once
    Apis,
    Expiries,   \* ExpiresAt of a new subscription; past MaxTime is none
    MaxTime,    \* bound: the clock stops here
    MaxKeys     \* bound: keys issued

Slots == {"primary", "secondary"}
Transitions == {"suspend", "reactivate", "cancel"}
States == {"none", "active", "suspended", "cancelled"}

ASSUME StoreAssumption ==
    /\ Expiries \subseteq Nat
    /\ MaxTime \in Nat
    /\ MaxKeys \in Nat

VARIABLES
    clock,
    sub,        \* the stored Subscription; its hashes as the number of the key
    disabled,   \* the stored Principal's Disabled
    bundle,     \* the stored Bundle, without what no grant depends on
    issued,     \* keys issued so far
    admin,      \* management request -> its handler
    call,       \* data-plane call -> its handler
    seen        \* history: call -> what has held at some moment of its life

stored == <<sub, disabled, bundle>>
vars == <<clock, stored, issued, admin, call, seen>>

NoKeys == [s \in Slots |-> 0]
NoSub == [state |-> "none", keys |-> NoKeys, keyless |-> FALSE, expires |-> 0]
NoBundle == [exists |-> FALSE, apis |-> {}]
Subs == [state : States, keys : [Slots -> Nat], keyless : BOOLEAN, expires : Nat]
Bundles == [exists : BOOLEAN, apis : SUBSET Apis]

Edits == {"subscribe", "keyless"} \cup Transitions \cup Slots
           \cup {"disable", "enable", "limits"}
           \cup {"createBundle", "deleteBundle", "visibility", "add", "remove"}

\* sub, disabled and bundle are what the handler read: a copy, or what it looked for.
Handlers == [pc : {"idle", "bundle found", "principal found", "decided"},
             op : Edits, sub : Subs, disabled : BOOLEAN, bundle : Bundles]
Idle == [pc |-> "idle", op |-> "limits", sub |-> NoSub, disabled |-> FALSE,
         bundle |-> NoBundle]

\* key is the number of the gwk_ key presented, 0 an access token of the
\* principal; copy is the subscription the handler read.
CallState == [pc : {"idle", "arrived", "found", "active", "enabled", "granted", "denied"},
              api : Apis, key : Nat, copy : Subs]

Init ==
    /\ clock = 0
    /\ sub = NoSub
    /\ disabled = FALSE
    /\ bundle \in {b \in Bundles : b.exists \/ b = NoBundle}
    /\ issued = 0
    /\ admin = [a \in Admins |-> Idle]
    /\ call \in [Calls -> [pc : {"idle"}, api : Apis, key : {0}, copy : {NoSub}]]
    /\ seen = [c \in Calls |-> {}]

-----------------------------------------------------------------------------
(* Subscription. *)

\* Mutant: the moment of ExpiresAt is not past it.
EffectiveStateLate(s, now) ==
    IF s.state = "active" /\ s.expires < now THEN "expired" ELSE s.state

EffectiveState(s, now) ==
    IF s.state = "active" /\ s.expires <= now THEN "expired" ELSE s.state

\* Mutant: reactivate is for any state but active.
AllowsReactivating(s, op, now) ==
    LET state == EffectiveState(s, now) IN
    \/ op = "suspend" /\ state = "active"
    \/ op = "reactivate" /\ state # "active"
    \/ op = "cancel" /\ state \in {"active", "suspended"}
    \/ op \in Slots /\ state \in {"active", "suspended"} /\ ~s.keyless

\* transition and regenerate go on; 409 otherwise.
Allows(s, op, now) ==
    LET state == EffectiveState(s, now) IN
    \/ op = "suspend" /\ state = "active"
    \/ op = "reactivate" /\ state = "suspended"
    \/ op = "cancel" /\ state \in {"active", "suspended"}
    \/ op \in Slots /\ state \in {"active", "suspended"} /\ ~s.keyless

After(op) == CASE op = "suspend" -> "suspended"
               [] op = "reactivate" -> "active"
               [] op = "cancel" -> "cancelled"

\* keyMatches: an empty hash matches no key.
KeyMatches(s, key) == key # 0 /\ \E slot \in Slots : s.keys[slot] = key

-----------------------------------------------------------------------------
(* History. *)

Facts == {"subscribed", "enabled", "covered"}

\* What of a call's conditions holds now.
Holds(c) == {f \in Facts :
    \/ /\ f = "subscribed"
       /\ sub.state = "active" /\ clock < sub.expires
       /\ call[c].key = 0 \/ KeyMatches(sub, call[c].key)
    \/ f = "enabled" /\ ~disabled
    \/ f = "covered" /\ call[c].api \in bundle.apis}

\* In every step: the conditions that hold are seen by the calls under way.
Observe == seen' = [c \in Calls |->
    IF call[c].pc \in {"arrived", "found", "active", "enabled"}
    THEN seen[c] \cup Holds(c) ELSE seen[c]]

-----------------------------------------------------------------------------
(* The management handlers: first what they read and decide. *)

Decide(a, h) ==
    /\ admin' = [admin EXCEPT ![a] = h]
    /\ UNCHANGED <<clock, stored, issued, call>>
    /\ Observe

\* Whether the bundle has a file, for createSubscription and createBundle.
Stat == [NoBundle EXCEPT !.exists = bundle.exists]

\* createSubscription looks for the bundle, the principal, then the subscription.
FindBundle(a, op) ==
    /\ admin[a].pc = "idle"
    /\ op \in {"subscribe", "keyless"}
    /\ bundle.exists
    /\ Decide(a, [Idle EXCEPT !.pc = "bundle found", !.op = op, !.bundle = Stat])

FindPrincipal(a) ==
    /\ admin[a].pc = "bundle found"
    /\ ~disabled
    /\ Decide(a, [admin[a] EXCEPT !.pc = "principal found", !.disabled = disabled])

FindNoSubscription(a) ==
    /\ admin[a].pc = "principal found"
    /\ sub.state = "none"
    /\ Decide(a, [admin[a] EXCEPT !.pc = "decided", !.sub = sub])

\* createSubscription refuses: 400 or 409.
RefuseSubscription(a) ==
    /\ \/ admin[a].pc = "bundle found" /\ disabled
       \/ admin[a].pc = "principal found" /\ sub.state # "none"
    /\ Decide(a, Idle)

ReadSubscription(a, op) ==
    /\ admin[a].pc = "idle"
    /\ op \in Transitions \cup Slots
    /\ Allows(sub, op, clock)
    /\ Decide(a, [Idle EXCEPT !.pc = "decided", !.op = op, !.sub = sub])

ReadPrincipal(a, op) ==
    /\ admin[a].pc = "idle"
    /\ op \in {"disable", "enable", "limits"}
    /\ Decide(a, [Idle EXCEPT !.pc = "decided", !.op = op, !.disabled = disabled])

ReadBundle(a, op) ==
    /\ admin[a].pc = "idle"
    /\ op \in {"visibility", "add", "remove"}
    /\ bundle.exists
    /\ Decide(a, [Idle EXCEPT !.pc = "decided", !.op = op, !.bundle = bundle])

FindNoBundle(a) ==
    /\ admin[a].pc = "idle"
    /\ ~bundle.exists
    /\ Decide(a, [Idle EXCEPT !.pc = "decided", !.op = "createBundle", !.bundle = Stat])

\* Mutant: only active subscriptions are looked for.
SparesActive(state) == state # "active"

\* No subscription to the bundle that is not cancelled.
Spared(state) == state \in {"none", "cancelled"}

\* What deleteBundle lists of the subscription: it ignores that the directory cannot be
\* read, and listKind passes over a file that cannot be.
Listings == {sub.state, "none"}

ScanSubscriptions(a) ==
    /\ admin[a].pc = "idle"
    /\ \E state \in Listings :
         /\ Spared(state)
         /\ Decide(a, [Idle EXCEPT !.pc = "decided", !.op = "deleteBundle",
                                   !.sub = [NoSub EXCEPT !.state = state]])

-----------------------------------------------------------------------------
(* ... then what they write, whatever is stored by then. *)

Write(a, s, d, b, n) ==
    /\ admin[a].pc = "decided"
    /\ sub' = s /\ disabled' = d /\ bundle' = b
    /\ issued + n <= MaxKeys
    /\ issued' = issued + n
    /\ admin' = [admin EXCEPT ![a] = Idle]
    /\ UNCHANGED <<clock, call>>
    /\ Observe

Subscribe(a) ==
    LET keyless == admin[a].op = "keyless" IN
    /\ admin[a].op \in {"subscribe", "keyless"}
    /\ \E expires \in Expiries :
         Write(a, [state |-> "active", keyless |-> keyless, expires |-> expires,
                   keys |-> IF keyless THEN NoKeys ELSE
                     [s \in Slots |-> IF s = "primary" THEN issued + 1 ELSE issued + 2]],
               disabled, bundle, IF keyless THEN 0 ELSE 2)

Transition(a) ==
    /\ admin[a].op \in Transitions
    /\ Write(a, [admin[a].sub EXCEPT !.state = After(admin[a].op)], disabled, bundle, 0)

Regenerate(a) ==
    /\ admin[a].op \in Slots
    /\ Write(a, [admin[a].sub EXCEPT !.keys[admin[a].op] = issued + 1],
             disabled, bundle, 1)

\* setPrincipalDisabled, and putPrincipalLimits, which writes its copy's flag.
PutPrincipal(a) ==
    LET h == admin[a] IN
    /\ h.op \in {"disable", "enable", "limits"}
    /\ Write(a, sub, IF h.op = "limits" THEN h.disabled ELSE h.op = "disable", bundle, 0)

\* bundleItem, and bundleVisibility, which writes its copy's list.
PutBundle(a) ==
    LET h == admin[a] IN
    \/ /\ h.op = "visibility"
       /\ Write(a, sub, disabled, h.bundle, 0)
    \/ /\ h.op \in {"add", "remove"}
       /\ \E api \in Apis :
            Write(a, sub, disabled,
                  [h.bundle EXCEPT !.apis = IF h.op = "add" THEN @ \cup {api} ELSE @ \ {api}],
                  0)

CreateBundle(a) ==
    /\ admin[a].op = "createBundle"
    /\ \E apis \in SUBSET Apis :
         Write(a, sub, disabled, [exists |-> TRUE, apis |-> apis], 0)

\* store.remove; 404 when the bundle is gone.
DeleteBundle(a) ==
    /\ admin[a].op = "deleteBundle"
    /\ Write(a, sub, disabled, NoBundle, 0)

\* put or remove fails: 500.
WriteFails(a) ==
    /\ admin[a].pc = "decided"
    /\ Decide(a, Idle)

Puts(a) == \/ Subscribe(a) \/ Transition(a) \/ Regenerate(a) \/ PutPrincipal(a)
           \/ PutBundle(a) \/ CreateBundle(a) \/ DeleteBundle(a)

-----------------------------------------------------------------------------
(* The data plane: Lane.authorizeKey or, with an access token,               *)
(* grantForPrincipal, then checkGrant.                                       *)

Proceed(c, pc, copy) ==
    /\ call' = [call EXCEPT ![c].pc = pc, ![c].copy = copy]
    /\ UNCHANGED <<clock, stored, issued, admin>>
    /\ Observe

Arrive(c) ==
    /\ call[c].pc = "idle"
    /\ \E key \in 0..issued :
         call' = [call EXCEPT ![c].pc = "arrived", ![c].key = key]
    /\ UNCHANGED <<clock, stored, issued, admin>>
    /\ Observe

FindSubscription(c) ==
    LET found == sub.state # "none" /\ (call[c].key = 0 \/ KeyMatches(sub, call[c].key)) IN
    /\ call[c].pc = "arrived"
    /\ Proceed(c, IF found THEN "found" ELSE "denied", IF found THEN sub ELSE NoSub)

CheckState(c) ==
    LET ok == EffectiveState(call[c].copy, clock) = "active" IN
    /\ call[c].pc = "found"
    /\ Proceed(c, IF ok THEN "active" ELSE "denied", NoSub)

CheckPrincipal(c) ==
    /\ call[c].pc = "active"
    /\ Proceed(c, IF disabled THEN "denied" ELSE "enabled", NoSub)

\* covers: the bundle has the API of this call.
CheckBundle(c) ==
    /\ call[c].pc = "enabled"
    /\ Proceed(c, IF call[c].api \in bundle.apis THEN "granted" ELSE "denied", NoSub)

-----------------------------------------------------------------------------
Tick ==
    /\ clock < MaxTime
    /\ clock' = clock + 1
    /\ UNCHANGED <<stored, issued, admin, call>>
    /\ Observe

Manage(a) == \/ \E op \in {"subscribe", "keyless"} : FindBundle(a, op)
             \/ FindPrincipal(a) \/ FindNoSubscription(a) \/ RefuseSubscription(a)
             \/ \E op \in Transitions \cup Slots : ReadSubscription(a, op)
             \/ \E op \in {"disable", "enable", "limits"} : ReadPrincipal(a, op)
             \/ \E op \in {"visibility", "add", "remove"} : ReadBundle(a, op)
             \/ FindNoBundle(a) \/ ScanSubscriptions(a)
             \/ Puts(a) \/ WriteFails(a)

Serve(c) == \/ Arrive(c) \/ FindSubscription(c) \/ CheckState(c)
            \/ CheckPrincipal(c) \/ CheckBundle(c)

Next == \/ \E a \in Admins : Manage(a)
        \/ \E c \in Calls : Serve(c)
        \/ Tick

Spec == Init /\ [][Next]_vars

-----------------------------------------------------------------------------
(* Properties. *)

\* Every variable keeps its type; "expired" is derived and never stored.
TypeOK ==
    /\ clock \in 0..MaxTime
    /\ sub \in Subs
    /\ disabled \in BOOLEAN
    /\ bundle \in Bundles
    /\ issued \in 0..MaxKeys
    /\ admin \in [Admins -> Handlers]
    /\ call \in [Calls -> CallState]
    /\ seen \in [Calls -> SUBSET Facts]

\* What a handler goes by is not what is stored: that has changed since it was read, or
\* was passed over by a listing.
Stale(a) ==
    LET h == admin[a] IN
    \/ h.op \in {"subscribe", "keyless"}
         /\ (sub # h.sub \/ disabled # h.disabled \/ bundle.exists # h.bundle.exists)
    \/ h.op \in Transitions \cup Slots /\ sub # h.sub
    \/ h.op = "limits" /\ disabled # h.disabled
    \/ h.op \in {"visibility", "add", "remove"} /\ bundle # h.bundle
    \/ h.op = "createBundle" /\ bundle.exists # h.bundle.exists
    \/ h.op = "deleteBundle" /\ sub.state # h.sub.state

\* The subscription, principal and bundle as Grants has them.
G == INSTANCE Grants WITH
       sub <- [state |-> sub.state, keys |-> sub.keys, keyless |-> sub.keyless],
       expired <- sub.state # "none" /\ sub.expires <= clock

\* A management request changes what is granted in one step, as Grants says, in every
\* interleaving in which what it decided by is still what is stored: its checks are
\* all that Grants asks.  Grants keeps cancelled subscriptions cancelled, replaced
\* keys dead and the bundles of live subscriptions.
Implements == G!Init /\ [][G!Next \/ \E a \in Admins : Puts(a) /\ Stale(a)]_(G!vars)

\* PRD 0001: "I suspend Kim's subscription. Their next call gets 401 or 403": a
\* call is granted only if at some moment since it arrived its key was one of an
\* active, unexpired subscription, at some moment the principal was enabled, and
\* at some moment the bundle held the API, whoever writes meanwhile.
GrantedOnlyIfHeld == \A c \in Calls : call[c].pc = "granted" => seen[c] = Facts

=============================================================================
