---------------------- MODULE SubscriptionStoreProofs ----------------------
(***************************************************************************)
(* Proofs about SubscriptionStore, for any number of management requests   *)
(* and calls: types, Implements and GrantedOnlyIfHeld; and, through the    *)
(* mapping G, about Grants, which it implements.                           *)
(***************************************************************************)
EXTENDS SubscriptionStore, TLAPS

\* What a handler between its reads and its write has found so far.
WellDecided(h) ==
  /\ h.pc \in {"bundle found", "principal found"} =>
      /\ h.op \in {"subscribe", "keyless"} /\ h.bundle.exists = TRUE
      /\ h.pc = "principal found" => h.disabled = FALSE
  /\ h.pc = "decided" =>
      /\ h.op \in {"subscribe", "keyless"} =>
           h.bundle.exists = TRUE /\ h.disabled = FALSE /\ h.sub.state = "none"
      /\ h.op = "createBundle" => h.bundle.exists = FALSE
      /\ h.op = "deleteBundle" => Spared(h.sub.state)
      /\ h.op = "suspend" => h.sub.state = "active"
      /\ h.op = "reactivate" => h.sub.state = "suspended"
      /\ h.op \in {"cancel"} \cup Slots => h.sub.state \in {"active", "suspended"}
      /\ h.op \in Slots => h.sub.keyless = FALSE
      /\ h.op \in {"visibility", "add", "remove"} => h.bundle.exists = TRUE

HandlersDecided == \A a \in Admins : WellDecided(admin[a])

\* The conditions a call has behind it have held in its life.
ReadsSeen ==
    \A c \in Calls :
        /\ call[c].pc = "found" /\ EffectiveState(call[c].copy, clock) = "active"
             => "subscribed" \in seen[c]
        /\ call[c].pc \in {"active", "enabled", "granted"} => "subscribed" \in seen[c]
        /\ call[c].pc \in {"enabled", "granted"} => "enabled" \in seen[c]
        /\ call[c].pc = "granted" => "covered" \in seen[c]

StoreInv == TypeOK /\ HandlersDecided /\ ReadsSeen

-----------------------------------------------------------------------------
(* Types. *)

LEMMA IdleTyped == Idle \in Handlers /\ WellDecided(Idle)
<1>1. NoSub \in Subs /\ NoBundle \in Bundles
  BY DEF NoSub, NoKeys, Subs, States, NoBundle, Bundles
<1>2. "idle" \in {"idle", "bundle found", "principal found", "decided"} /\ "limits" \in Edits
  BY DEF Edits
<1> QED BY <1>1, <1>2 DEF Idle, Handlers, WellDecided

LEMMA HandlerParts ==
    ASSUME TypeOK, NEW a \in Admins
    PROVE  /\ admin[a] \in Handlers
           /\ admin[a].sub \in Subs /\ admin[a].bundle \in Bundles
           /\ admin[a].disabled \in BOOLEAN /\ admin[a].op \in Edits
<1>1. admin[a] \in Handlers
  BY DEF TypeOK
<1> QED BY <1>1 DEF Handlers

LEMMA StatIs == TypeOK => Stat \in Bundles /\ Stat.exists = bundle.exists
BY DEF TypeOK, Stat, NoBundle, Bundles

LEMMA Observes == Next => Observe
<1>1. ASSUME NEW a \in Admins, Manage(a) PROVE Observe
  <2>1. CASE Puts(a)
    BY <2>1 DEF Puts, Subscribe, Transition, Regenerate, PutPrincipal, PutBundle,
         CreateBundle, DeleteBundle, Write
  <2> QED
    BY <1>1, <2>1 DEF Manage, FindBundle, FindPrincipal, FindNoSubscription, RefuseSubscription,
         ReadSubscription, ReadPrincipal, ReadBundle, FindNoBundle, ScanSubscriptions,
         WriteFails, Decide
<1>2. ASSUME NEW c \in Calls, Serve(c) PROVE Observe
  BY <1>2 DEF Serve, Arrive, FindSubscription, CheckState, CheckPrincipal, CheckBundle,
       Proceed
<1> QED BY <1>1, <1>2 DEF Next, Tick

LEMMA SeenTyped == TypeOK /\ Observe => seen' \in [Calls -> SUBSET Facts]
BY DEF TypeOK, Observe, Holds

\* A handler that reads or gives up.
LEMMA DecideKeeps ==
    ASSUME TypeOK, HandlersDecided, Observe,
           NEW a \in Admins, NEW h \in Handlers, WellDecided(h), Decide(a, h)
    PROVE  TypeOK' /\ HandlersDecided'
<1>1. seen' \in [Calls -> SUBSET Facts]
  BY SeenTyped
<1>2. admin' \in [Admins -> Handlers]
  BY DEF Decide, TypeOK
<1>3. UNCHANGED <<clock, sub, disabled, bundle, issued, call>>
  BY DEF Decide, stored
<1>4. \A b \in Admins : admin'[b] = IF b = a THEN h ELSE admin[b]
  BY DEF Decide, TypeOK
<1>5. HandlersDecided'
  <2>1. \A b \in Admins : WellDecided(admin'[b])
    BY <1>4 DEF HandlersDecided
  <2> QED BY <2>1 DEF HandlersDecided, WellDecided, Spared
<1> QED BY <1>1, <1>2, <1>3, <1>5 DEF TypeOK

\* A handler that writes.
LEMMA WriteKeeps ==
    ASSUME TypeOK, HandlersDecided, Observe, NEW a \in Admins,
           NEW s \in Subs, NEW d \in BOOLEAN, NEW b \in Bundles, NEW n \in Nat,
           Write(a, s, d, b, n)
    PROVE  TypeOK' /\ HandlersDecided'
<1>1. seen' \in [Calls -> SUBSET Facts]
  BY SeenTyped
<1>2. admin' \in [Admins -> Handlers]
  BY IdleTyped DEF Write, TypeOK
<1>3. \A e \in Admins : admin'[e] = IF e = a THEN Idle ELSE admin[e]
  BY DEF Write, TypeOK
<1>4. HandlersDecided'
  <2>1. \A e \in Admins : WellDecided(admin'[e])
    BY <1>3, IdleTyped DEF HandlersDecided
  <2> QED BY <2>1 DEF HandlersDecided, WellDecided, Spared
<1>5. issued' \in 0..MaxKeys
  BY StoreAssumption DEF Write, TypeOK
<1> QED BY <1>1, <1>2, <1>4, <1>5 DEF Write, TypeOK

LEMMA ReadsTyped ==
    ASSUME TypeOK, HandlersDecided, Observe, NEW a \in Admins,
           Manage(a), ~Puts(a)
    PROVE  TypeOK' /\ HandlersDecided'
<1>1. ASSUME NEW op \in {"subscribe", "keyless"}, FindBundle(a, op)
      PROVE  TypeOK' /\ HandlersDecided'
  <2> DEFINE h == [Idle EXCEPT !.pc = "bundle found", !.op = op, !.bundle = Stat]
  <2>1. h \in Handlers /\ h.pc = "bundle found" /\ h.op = op /\ h.bundle = Stat
    BY IdleTyped, StatIs DEF Handlers, Edits
  <2>2. WellDecided(h)
    BY <1>1, <2>1, StatIs DEF WellDecided, FindBundle
  <2> QED BY <1>1, <2>1, <2>2, DecideKeeps DEF FindBundle
<1>2. CASE FindPrincipal(a)
  <2> DEFINE h == [admin[a] EXCEPT !.pc = "principal found", !.disabled = disabled]
  <2>1. h \in Handlers /\ h.pc = "principal found" /\ h.op = admin[a].op
        /\ h.disabled = disabled /\ h.bundle = admin[a].bundle
    BY HandlerParts DEF Handlers, TypeOK
  <2>2. WellDecided(h)
    BY <1>2, <2>1 DEF FindPrincipal, HandlersDecided, WellDecided, TypeOK
  <2> QED BY <1>2, <2>1, <2>2, DecideKeeps DEF FindPrincipal
<1>3. CASE FindNoSubscription(a)
  <2> DEFINE h == [admin[a] EXCEPT !.pc = "decided", !.sub = sub]
  <2>1. h \in Handlers /\ h.pc = "decided" /\ h.op = admin[a].op /\ h.sub = sub
        /\ h.disabled = admin[a].disabled /\ h.bundle = admin[a].bundle
    BY HandlerParts DEF Handlers, TypeOK
  <2>2. h.op \in {"subscribe", "keyless"} /\ h.sub.state = "none"
        /\ h.disabled = FALSE /\ h.bundle.exists = TRUE
    BY <1>3, <2>1 DEF FindNoSubscription, HandlersDecided, WellDecided
  <2>3. WellDecided(h)
    BY <2>1, <2>2 DEF WellDecided, Slots
  <2> QED BY <1>3, <2>1, <2>3, DecideKeeps DEF FindNoSubscription
<1>4. CASE RefuseSubscription(a) \/ WriteFails(a)
  BY <1>4, IdleTyped, DecideKeeps DEF RefuseSubscription, WriteFails
<1>5. ASSUME NEW op \in Transitions \cup Slots, ReadSubscription(a, op)
      PROVE  TypeOK' /\ HandlersDecided'
  <2> DEFINE h == [Idle EXCEPT !.pc = "decided", !.op = op, !.sub = sub]
  <2>1. op \in Edits /\ sub \in Subs
    BY DEF Edits, TypeOK
  <2>2. h \in Handlers /\ h.pc = "decided" /\ h.op = op /\ h.sub = sub
    BY <2>1, IdleTyped DEF Handlers
  <2>3. WellDecided(h)
    BY <1>5, <2>1, <2>2 DEF ReadSubscription, Allows, EffectiveState, WellDecided, Slots, Transitions, Subs
  <2> QED BY <1>5, <2>2, <2>3, DecideKeeps DEF ReadSubscription
<1>6. ASSUME NEW op \in {"disable", "enable", "limits"}, ReadPrincipal(a, op)
      PROVE  TypeOK' /\ HandlersDecided'
  <2> DEFINE h == [Idle EXCEPT !.pc = "decided", !.op = op, !.disabled = disabled]
  <2>1. op \in Edits /\ disabled \in BOOLEAN
    BY DEF Edits, TypeOK
  <2>2. h \in Handlers /\ h.pc = "decided" /\ h.op = op
    BY <2>1, IdleTyped DEF Handlers
  <2>3. WellDecided(h)
    BY <2>2 DEF WellDecided, Slots
  <2> QED BY <1>6, <2>2, <2>3, DecideKeeps DEF ReadPrincipal
<1>7. ASSUME NEW op \in {"visibility", "add", "remove"}, ReadBundle(a, op)
      PROVE  TypeOK' /\ HandlersDecided'
  <2> DEFINE h == [Idle EXCEPT !.pc = "decided", !.op = op, !.bundle = bundle]
  <2>1. op \in Edits /\ bundle \in Bundles /\ bundle.exists = TRUE
    BY <1>7 DEF Edits, TypeOK, ReadBundle, Bundles
  <2>2. h \in Handlers /\ h.pc = "decided" /\ h.op = op /\ h.bundle = bundle
    BY <2>1, IdleTyped DEF Handlers
  <2>3. WellDecided(h)
    BY <2>1, <2>2 DEF WellDecided, Slots
  <2> QED BY <1>7, <2>2, <2>3, DecideKeeps DEF ReadBundle
<1>8. CASE FindNoBundle(a)
  <2> DEFINE h == [Idle EXCEPT !.pc = "decided", !.op = "createBundle", !.bundle = Stat]
  <2>1. h \in Handlers /\ h.pc = "decided" /\ h.op = "createBundle" /\ h.bundle = Stat
    BY IdleTyped, StatIs DEF Handlers, Edits
  <2>2. WellDecided(h)
    BY <1>8, <2>1, StatIs DEF WellDecided, Slots, FindNoBundle
  <2> QED BY <1>8, <2>1, <2>2, DecideKeeps DEF FindNoBundle
<1>9. CASE ScanSubscriptions(a)
  <2>1. PICK state \in Listings :
          /\ Spared(state)
          /\ Decide(a, [Idle EXCEPT !.pc = "decided", !.op = "deleteBundle",
                                    !.sub = [NoSub EXCEPT !.state = state]])
    BY <1>9 DEF ScanSubscriptions
  <2> DEFINE s == [NoSub EXCEPT !.state = state]
             h == [Idle EXCEPT !.pc = "decided", !.op = "deleteBundle", !.sub = s]
  <2>2. state \in States
    BY DEF Listings, TypeOK, Subs, States
  <2>3. s \in Subs /\ s.state = state
    BY <2>2 DEF NoSub, NoKeys, Subs
  <2> HIDE DEF s
  <2>4. h \in Handlers /\ h.pc = "decided" /\ h.op = "deleteBundle" /\ h.sub = s
    BY <2>3, IdleTyped DEF Handlers, Edits
  <2>5. WellDecided(h)
    BY <2>1, <2>3, <2>4 DEF WellDecided, Slots
  <2> QED BY <2>1, <2>4, <2>5, DecideKeeps DEF s
<1> QED BY <1>1, <1>2, <1>3, <1>4, <1>5, <1>6, <1>7, <1>8, <1>9 DEF Manage

LEMMA PutsTyped ==
    ASSUME TypeOK, HandlersDecided, Observe, NEW a \in Admins, Puts(a)
    PROVE  TypeOK' /\ HandlersDecided'
<1> DEFINE h == admin[a]
<1>1. /\ h.sub \in Subs /\ h.bundle \in Bundles /\ h.disabled \in BOOLEAN
      /\ sub \in Subs /\ bundle \in Bundles /\ disabled \in BOOLEAN /\ issued \in Nat
  BY HandlerParts DEF TypeOK
<1>2. CASE Subscribe(a)
  <2>1. ASSUME NEW keyless \in BOOLEAN, NEW expires \in Nat
        PROVE  [state |-> "active", keyless |-> keyless, expires |-> expires,
                keys |-> IF keyless THEN NoKeys ELSE
                  [s \in Slots |-> IF s = "primary" THEN issued + 1 ELSE issued + 2]] \in Subs
    BY <1>1 DEF Subs, States, NoKeys
  <2>2. (h.op = "keyless") \in BOOLEAN /\ Expiries \subseteq Nat
    BY StoreAssumption
  <2> QED BY <1>1, <1>2, <2>1, <2>2, WriteKeeps DEF Subscribe
<1>3. CASE Transition(a)
  <2>1. After(h.op) \in States
    BY <1>3 DEF Transition, Transitions, After, States
  <2>2. [h.sub EXCEPT !.state = After(h.op)] \in Subs
    BY <1>1, <2>1 DEF Subs
  <2> QED BY <1>1, <1>3, <2>2, WriteKeeps DEF Transition
<1>4. CASE Regenerate(a)
  <2>1. h.op \in Slots /\ [h.sub.keys EXCEPT ![h.op] = issued + 1] \in [Slots -> Nat]
    BY <1>1, <1>4 DEF Regenerate, Subs
  <2>2. [h.sub EXCEPT !.keys[h.op] = issued + 1] \in Subs
    BY <1>1, <2>1 DEF Subs
  <2> QED BY <1>1, <1>4, <2>2, WriteKeeps DEF Regenerate
<1>5. CASE PutPrincipal(a)
  <2>1. (IF h.op = "limits" THEN h.disabled ELSE h.op = "disable") \in BOOLEAN
    BY <1>1
  <2> QED BY <1>1, <1>5, <2>1, WriteKeeps DEF PutPrincipal
<1>6. CASE PutBundle(a)
  <2>1. ASSUME NEW api \in Apis
        PROVE  [h.bundle EXCEPT !.apis = IF h.op = "add" THEN @ \cup {api} ELSE @ \ {api}]
                 \in Bundles
    BY <1>1 DEF Bundles
  <2> QED BY <1>1, <1>6, <2>1, WriteKeeps DEF PutBundle
<1>7. CASE CreateBundle(a)
  <2>1. \A apis \in SUBSET Apis : [exists |-> TRUE, apis |-> apis] \in Bundles
    BY DEF Bundles
  <2> QED BY <1>1, <1>7, <2>1, WriteKeeps DEF CreateBundle
<1>8. CASE DeleteBundle(a)
  <2>1. NoBundle \in Bundles
    BY DEF NoBundle, Bundles
  <2> QED BY <1>1, <1>8, <2>1, WriteKeeps DEF DeleteBundle
<1> QED BY <1>2, <1>3, <1>4, <1>5, <1>6, <1>7, <1>8 DEF Puts

\* A step of the data plane.
LEMMA ServeTyped ==
    ASSUME TypeOK, HandlersDecided, Observe, NEW c \in Calls, Serve(c)
    PROVE  TypeOK' /\ HandlersDecided'
<1>1. seen' \in [Calls -> SUBSET Facts]
  BY SeenTyped
<1>2. ASSUME NEW pc \in {"found", "active", "enabled", "granted", "denied"},
             NEW copy \in Subs, Proceed(c, pc, copy)
      PROVE  TypeOK' /\ HandlersDecided'
  <2>1. call' \in [Calls -> CallState]
    BY <1>2 DEF Proceed, TypeOK, CallState
  <2> QED BY <1>1, <1>2, <2>1 DEF Proceed, TypeOK, HandlersDecided, stored
<1>3. CASE Arrive(c)
  <2>1. PICK key \in 0..issued : call' = [call EXCEPT ![c].pc = "arrived", ![c].key = key]
    BY <1>3 DEF Arrive
  <2>2. key \in Nat
    BY DEF TypeOK
  <2>3. call' \in [Calls -> CallState]
    BY <2>1, <2>2 DEF TypeOK, CallState
  <2> QED BY <1>1, <1>3, <2>3 DEF Arrive, TypeOK, HandlersDecided, stored
<1>4. sub \in Subs /\ NoSub \in Subs
  BY DEF TypeOK, NoSub, NoKeys, Subs, States
<1> QED
  BY <1>2, <1>3, <1>4
     DEF Serve, FindSubscription, CheckState, CheckPrincipal, CheckBundle

LEMMA NextTyped == TypeOK /\ HandlersDecided /\ [Next]_vars => TypeOK' /\ HandlersDecided'
<1> SUFFICES ASSUME TypeOK, HandlersDecided, [Next]_vars
             PROVE  TypeOK' /\ HandlersDecided'
  OBVIOUS
<1>1. CASE Tick
  <2>1. clock' \in 0..MaxTime
    BY <1>1, StoreAssumption DEF Tick, TypeOK
  <2>2. seen' \in [Calls -> SUBSET Facts]
    BY <1>1, SeenTyped DEF Tick
  <2> QED BY <1>1, <2>1, <2>2 DEF Tick, TypeOK, HandlersDecided, stored
<1>2. CASE UNCHANGED vars
  BY <1>2 DEF vars, stored, TypeOK, HandlersDecided
<1> QED BY <1>1, <1>2, Observes, ReadsTyped, PutsTyped, ServeTyped DEF Next

-----------------------------------------------------------------------------
(* What a call has seen. *)

LEMMA SeenGrows ==
    ASSUME TypeOK, Observe, NEW c \in Calls
    PROVE  /\ seen[c] \subseteq seen'[c]
           /\ call[c].pc \in {"arrived", "found", "active", "enabled"}
                => Holds(c) \subseteq seen'[c]
BY DEF TypeOK, Observe

LEMMA ReadsKept ==
    ASSUME TypeOK, ReadsSeen, Observe, NEW c \in Calls,
           call'[c] = call[c], clock' \in Nat, clock' >= clock
    PROVE  /\ call'[c].pc = "found" /\ EffectiveState(call'[c].copy, clock') = "active"
                => "subscribed" \in seen'[c]
           /\ call'[c].pc \in {"active", "enabled", "granted"} => "subscribed" \in seen'[c]
           /\ call'[c].pc \in {"enabled", "granted"} => "enabled" \in seen'[c]
           /\ call'[c].pc = "granted" => "covered" \in seen'[c]
<1>1. clock \in Nat /\ call[c].copy.expires \in Nat
  BY DEF TypeOK, CallState, Subs
<1>2. EffectiveState(call[c].copy, clock') = "active"
        => EffectiveState(call[c].copy, clock) = "active"
  BY <1>1 DEF EffectiveState
<1> QED BY <1>2, SeenGrows DEF ReadsSeen

LEMMA ServeReads ==
    ASSUME TypeOK, ReadsSeen, Observe, NEW c \in Calls, Serve(c)
    PROVE  ReadsSeen'
<1>1. clock' = clock /\ clock \in Nat /\ sub \in Subs
  BY DEF Serve, Arrive, FindSubscription, CheckState, CheckPrincipal, CheckBundle, Proceed, TypeOK
<1>2. \A b \in Calls : b # c => call'[b] = call[b]
  BY DEF Serve, Arrive, FindSubscription, CheckState, CheckPrincipal, CheckBundle, Proceed, TypeOK
<1>3. CASE Arrive(c)
  <2>1. call'[c].pc = "arrived"
    BY <1>3 DEF Arrive, TypeOK, CallState
  <2> QED BY <1>1, <1>2, <2>1, ReadsKept DEF ReadsSeen
<1>4. ASSUME NEW pc, NEW copy, Proceed(c, pc, copy)
      PROVE  call'[c].pc = pc /\ call'[c].copy = copy
  BY <1>4 DEF Proceed, TypeOK, CallState
<1>5. CASE FindSubscription(c)
  <2>1. call[c].pc = "arrived" /\ call'[c].pc \in {"found", "denied"}
    BY <1>4, <1>5 DEF FindSubscription
  <2>2. call'[c].pc = "found" => call'[c].copy = sub
          /\ (call[c].key = 0 \/ KeyMatches(sub, call[c].key))
    BY <1>4, <1>5 DEF FindSubscription
  <2>3. EffectiveState(sub, clock) = "active" => sub.state = "active" /\ clock < sub.expires
    BY <1>1 DEF EffectiveState, Subs, States
  <2>4. call'[c].pc = "found" /\ EffectiveState(call'[c].copy, clock') = "active"
          => "subscribed" \in Holds(c)
    BY <1>1, <2>2, <2>3 DEF Holds, Facts
  <2> QED BY <1>1, <1>2, <2>1, <2>4, ReadsKept, SeenGrows DEF ReadsSeen
<1>6. CASE CheckState(c)
  <2>1. /\ call[c].pc = "found" /\ call'[c].pc \in {"active", "denied"}
        /\ call'[c].pc = "active" => EffectiveState(call[c].copy, clock) = "active"
    BY <1>4, <1>6 DEF CheckState
  <2> QED BY <1>1, <1>2, <2>1, ReadsKept, SeenGrows DEF ReadsSeen
<1>7. CASE CheckPrincipal(c)
  <2>1. /\ call[c].pc = "active" /\ call'[c].pc \in {"enabled", "denied"}
        /\ call'[c].pc = "enabled" => ~disabled
    BY <1>4, <1>7 DEF CheckPrincipal
  <2>2. ~disabled => "enabled" \in Holds(c)
    BY DEF Holds, Facts
  <2> QED BY <1>1, <1>2, <2>1, <2>2, ReadsKept, SeenGrows DEF ReadsSeen
<1>8. CASE CheckBundle(c)
  <2>1. /\ call[c].pc = "enabled" /\ call'[c].pc \in {"granted", "denied"}
        /\ call'[c].pc = "granted" => call[c].api \in bundle.apis
    BY <1>4, <1>8 DEF CheckBundle
  <2>2. call[c].api \in bundle.apis => "covered" \in Holds(c)
    BY DEF Holds, Facts
  <2> QED BY <1>1, <1>2, <2>1, <2>2, ReadsKept, SeenGrows DEF ReadsSeen
<1> QED BY <1>3, <1>5, <1>6, <1>7, <1>8 DEF Serve

LEMMA NextReads == TypeOK /\ TypeOK' /\ ReadsSeen /\ [Next]_vars => ReadsSeen'
<1> SUFFICES ASSUME TypeOK, TypeOK', ReadsSeen, [Next]_vars PROVE ReadsSeen'
  OBVIOUS
<1>1. ASSUME NEW a \in Admins, Manage(a)
      PROVE  call' = call /\ clock' = clock
  <2>1. CASE Puts(a)
    BY <2>1 DEF Puts, Subscribe, Transition, Regenerate, PutPrincipal, PutBundle,
         CreateBundle, DeleteBundle, Write
  <2> QED
    BY <1>1, <2>1 DEF Manage, FindBundle, FindPrincipal, FindNoSubscription, RefuseSubscription,
         ReadSubscription, ReadPrincipal, ReadBundle, FindNoBundle, ScanSubscriptions,
         WriteFails, Decide
<1>2. CASE Observe /\ call' = call /\ clock' >= clock
  BY <1>2, ReadsKept DEF ReadsSeen, TypeOK
<1>3. CASE UNCHANGED vars
  BY <1>3 DEF vars, ReadsSeen
<1>4. clock \in Nat
  BY DEF TypeOK
<1> QED BY <1>1, <1>2, <1>3, <1>4, Observes, ServeReads DEF Next, Tick

-----------------------------------------------------------------------------
(* The refinement.  A put whose handler's copy is still what is stored is one *)
(* step of Grants; everything else leaves what Grants sees alone, or lets the *)
(* subscription expire.                                                       *)

GSub == [state |-> sub.state, keys |-> sub.keys, keyless |-> sub.keyless]
GExpired == sub.state # "none" /\ sub.expires <= clock

LEMMA PutImplements ==
    ASSUME TypeOK, HandlersDecided, NEW a \in Admins, Puts(a), ~Stale(a)
    PROVE  G!Next \/ UNCHANGED G!vars
<1> DEFINE h == admin[a]
<1>1. /\ sub \in Subs /\ bundle \in Bundles /\ disabled \in BOOLEAN
      /\ h \in Handlers /\ WellDecided(h)
  BY HandlerParts DEF TypeOK, HandlersDecided
<1>2. ASSUME NEW s, NEW d, NEW b, NEW n, Write(a, s, d, b, n)
      PROVE  /\ sub' = s /\ disabled' = d /\ bundle' = b /\ issued' = issued + n
             /\ clock' = clock /\ h.pc = "decided"
  BY <1>2 DEF Write
<1>3. CASE Subscribe(a)
  <2>1. sub.state = "none" /\ ~disabled /\ bundle.exists
    <3>1. h.op \in {"subscribe", "keyless"} /\ h.pc = "decided"
      BY <1>2, <1>3 DEF Subscribe
    <3>2. h.bundle.exists = TRUE /\ h.disabled = FALSE /\ h.sub.state = "none"
      BY <1>1, <3>1 DEF WellDecided
    <3>3. sub = h.sub /\ disabled = h.disabled /\ bundle.exists = h.bundle.exists
      BY <3>1 DEF Stale
    <3> QED BY <3>2, <3>3
  <2>2. PICK expires \in Expiries :
          /\ sub' = [state |-> "active", keyless |-> h.op = "keyless", expires |-> expires,
                     keys |-> IF h.op = "keyless" THEN NoKeys ELSE
                       [s \in Slots |-> IF s = "primary" THEN issued + 1 ELSE issued + 2]]
          /\ issued' = issued + (IF h.op = "keyless" THEN 0 ELSE 2)
          /\ disabled' = disabled /\ bundle' = bundle
    BY <1>2, <1>3 DEF Subscribe
  <2>3. GSub' = [state |-> "active", keyless |-> h.op = "keyless",
                 keys |-> IF h.op = "keyless" THEN NoKeys ELSE
                   [s \in Slots |-> IF s = "primary" THEN issued + 1 ELSE issued + 2]]
    BY <2>2 DEF GSub
  <2>4. issued' = IF h.op = "keyless" THEN issued ELSE issued + 2
    BY <2>2 DEF TypeOK
  <2>5. G!Subscribe(h.op = "keyless")
    BY <2>1, <2>2, <2>3, <2>4 DEF G!Subscribe, GSub, G!NoKeys, NoKeys, G!Slots, Slots
  <2> QED BY <2>5 DEF G!Next
<1>4. CASE Transition(a)
  <2>1. sub = h.sub /\ h.pc = "decided" /\ h.op \in Transitions
    BY <1>2, <1>4 DEF Stale, Transition
  <2>2. /\ sub' = [sub EXCEPT !.state = After(h.op)]
        /\ UNCHANGED <<disabled, bundle, clock>> /\ issued' = issued + 0
    BY <1>2, <1>4, <2>1 DEF Transition
  <2>3. /\ GSub' = [GSub EXCEPT !.state = After(h.op)]
        /\ GExpired' = GExpired /\ issued' = issued
    BY <1>1, <2>1, <2>2 DEF GSub, GExpired, Subs, TypeOK, WellDecided, Transitions, After
  <2>4. CASE h.op = "suspend"
    BY <1>1, <2>1, <2>2, <2>3, <2>4
       DEF WellDecided, After, GSub, GExpired, G!Next, G!Suspend, G!Move
  <2>5. CASE h.op = "reactivate"
    BY <1>1, <2>1, <2>2, <2>3, <2>5
       DEF WellDecided, After, GSub, GExpired, G!Next, G!Reactivate, G!Move
  <2>6. CASE h.op = "cancel"
    BY <1>1, <2>1, <2>2, <2>3, <2>6
       DEF WellDecided, After, GSub, GExpired, G!Next, G!Cancel, G!Move
  <2> QED BY <2>1, <2>4, <2>5, <2>6 DEF Transitions
<1>5. CASE Regenerate(a)
  <2>1. sub = h.sub /\ h.pc = "decided" /\ h.op \in Slots
    BY <1>2, <1>5 DEF Stale, Regenerate
  <2>2. /\ sub' = [sub EXCEPT !.keys[h.op] = issued + 1]
        /\ UNCHANGED <<disabled, bundle, clock>> /\ issued' = issued + 1
    BY <1>2, <1>5, <2>1 DEF Regenerate
  <2>3. GSub' = [GSub EXCEPT !.keys[h.op] = issued + 1] /\ GExpired' = GExpired
    BY <1>1, <2>2 DEF GSub, GExpired, Subs
  <2>4. sub.state \in {"active", "suspended"} /\ ~sub.keyless
    BY <1>1, <2>1 DEF WellDecided
  <2>5. G!Regenerate(h.op)
    BY <2>2, <2>3, <2>4 DEF G!Regenerate, G!Live, GSub, GExpired
  <2> QED BY <2>1, <2>5 DEF G!Next, G!Slots, Slots
<1>6. CASE PutPrincipal(a)
  <2>1. /\ UNCHANGED <<sub, bundle, clock>> /\ issued' = issued + 0
        /\ disabled' \in BOOLEAN
    BY <1>1, <1>2, <1>6 DEF PutPrincipal, Handlers
  <2>2. issued' = issued
    BY <2>1 DEF TypeOK
  <2>3. G!SetDisabled
    BY <2>1, <2>2 DEF G!SetDisabled
  <2> QED BY <2>3 DEF G!Next
<1>7. CASE PutBundle(a)
  <2>4. h.op \in {"visibility", "add", "remove"} /\ bundle = h.bundle
    BY <1>7 DEF PutBundle, Stale
  <2>5. h.pc = "decided" /\ UNCHANGED <<sub, disabled, clock>> /\ issued' = issued + 0
    BY <1>2, <1>7 DEF PutBundle
  <2>1. /\ h.op \in {"visibility", "add", "remove"} /\ bundle = h.bundle
        /\ h.pc = "decided" /\ UNCHANGED <<sub, disabled, clock>> /\ issued' = issued
    BY <2>4, <2>5 DEF TypeOK
  <2>2. CASE h.op = "visibility"
    <3>1. bundle' = bundle
      BY <1>2, <1>7, <2>1, <2>2 DEF PutBundle
    <3> QED BY <2>1, <3>1 DEF G!vars
  <2>3. CASE h.op \in {"add", "remove"}
    <3>1. PICK api \in Apis : bundle' = [bundle EXCEPT !.apis =
            IF h.op = "add" THEN @ \cup {api} ELSE @ \ {api}]
      BY <1>2, <1>7, <2>1, <2>3 DEF PutBundle
    <3>2. bundle.exists
      BY <1>1, <2>1, <2>3 DEF WellDecided
    <3>3. G!EditBundle(api)
      BY <2>1, <3>1, <3>2 DEF G!EditBundle
    <3> QED BY <3>3 DEF G!Next
  <2> QED BY <2>1, <2>2, <2>3
<1>8. CASE CreateBundle(a)
  <2>1. /\ ~bundle.exists /\ UNCHANGED <<sub, disabled, clock>> /\ issued' = issued
        /\ \E apis \in SUBSET Apis : bundle' = [exists |-> TRUE, apis |-> apis]
    <3>1. h.op = "createBundle" /\ h.pc = "decided"
      BY <1>2, <1>8 DEF CreateBundle
    <3>2. h.bundle.exists = FALSE /\ bundle.exists = h.bundle.exists
      BY <1>1, <3>1 DEF WellDecided, Stale
    <3> QED BY <1>2, <1>8, <3>2 DEF CreateBundle, TypeOK
  <2>2. bundle' \in G!Bundles /\ bundle'.exists
    BY <2>1 DEF G!Bundles
  <2>3. G!CreateBundle
    BY <2>1, <2>2 DEF G!CreateBundle
  <2> QED BY <2>3 DEF G!Next
<1>9. CASE DeleteBundle(a)
  <2>1. /\ Spared(sub.state) /\ UNCHANGED <<sub, disabled, clock>> /\ issued' = issued
        /\ bundle' = NoBundle
    <3>1. h.op = "deleteBundle" /\ h.pc = "decided"
      BY <1>2, <1>9 DEF DeleteBundle
    <3>2. Spared(h.sub.state) /\ sub.state = h.sub.state
      BY <1>1, <3>1 DEF WellDecided, Stale
    <3> QED BY <1>2, <1>9, <3>2 DEF DeleteBundle, TypeOK
  <2> QED BY <2>1 DEF Spared, G!Next, G!DeleteBundle, G!Live, G!NoBundle, NoBundle
<1> QED BY <1>3, <1>4, <1>5, <1>6, <1>7, <1>8, <1>9 DEF Puts

LEMMA StepImplements ==
    ASSUME TypeOK, HandlersDecided, [Next]_vars
    PROVE  G!Next \/ (\E a \in Admins : Puts(a) /\ Stale(a)) \/ UNCHANGED G!vars
<1>1. ASSUME NEW a \in Admins, Manage(a), ~Puts(a)
      PROVE  UNCHANGED G!vars
  BY <1>1 DEF Manage, FindBundle, FindPrincipal, FindNoSubscription, RefuseSubscription,
       ReadSubscription, ReadPrincipal, ReadBundle, FindNoBundle, ScanSubscriptions,
       WriteFails, Decide, stored, G!vars
<1>2. ASSUME NEW c \in Calls, Serve(c)
      PROVE  UNCHANGED G!vars
  BY <1>2 DEF Serve, Arrive, FindSubscription, CheckState, CheckPrincipal, CheckBundle,
       Proceed, stored, G!vars
<1>3. CASE Tick
  <2>1. UNCHANGED <<sub, disabled, bundle, issued>> /\ clock' = clock + 1
    BY <1>3 DEF Tick, stored
  <2>2. clock \in Nat /\ sub.expires \in Nat
    BY DEF TypeOK, Subs
  <2>3. GExpired => GExpired'
    BY <2>1, <2>2 DEF GExpired
  <2>4. CASE GExpired' = GExpired
    BY <2>1, <2>4 DEF G!vars, GExpired
  <2>5. CASE GExpired' # GExpired
    <3>1. ~GExpired /\ GExpired'
      BY <2>3, <2>5 DEF GExpired
    <3> QED BY <2>1, <3>1 DEF G!Next, G!Expire, GExpired
  <2> QED BY <2>4, <2>5
<1>4. CASE UNCHANGED vars
  BY <1>4 DEF vars, stored, G!vars
<1> QED BY <1>1, <1>2, <1>3, <1>4, PutImplements DEF Next

-----------------------------------------------------------------------------
LEMMA InitStore == Init => StoreInv /\ G!Init
<1> SUFFICES ASSUME Init PROVE StoreInv /\ G!Init
  OBVIOUS
<1>1. /\ clock = 0 /\ sub = NoSub /\ disabled = FALSE /\ issued = 0
      /\ bundle \in Bundles /\ (bundle.exists \/ bundle = NoBundle)
      /\ admin = [a \in Admins |-> Idle] /\ seen = [c \in Calls |-> {}]
      /\ call \in [Calls -> [pc : {"idle"}, api : Apis, key : {0}, copy : {NoSub}]]
  BY DEF Init
<1>2. NoSub \in Subs
  BY DEF NoSub, NoKeys, Subs, States
<1>3. call \in [Calls -> CallState]
  BY <1>1, <1>2 DEF CallState
<1>9. 0 \in 0..MaxTime /\ 0 \in 0..MaxKeys
  BY StoreAssumption
<1>10. admin \in [Admins -> Handlers] /\ seen \in [Calls -> SUBSET Facts]
  BY <1>1, IdleTyped
<1>4. TypeOK
  BY <1>1, <1>2, <1>3, <1>9, <1>10 DEF TypeOK
<1>5. HandlersDecided
  BY <1>1, IdleTyped DEF HandlersDecided
<1>6. \A c \in Calls : call[c].pc = "idle"
  BY <1>1
<1>7. ReadsSeen
  BY <1>6 DEF ReadsSeen
<1>8. G!Init
  BY <1>1 DEF G!Init, NoSub, NoKeys, G!NoKeys, Slots, G!Slots, Bundles, G!Bundles,
       NoBundle, G!NoBundle
<1> QED BY <1>4, <1>5, <1>7, <1>8 DEF StoreInv

\* The inductive invariant: types, what handlers have decided, what calls have seen.
THEOREM StoreInvariant == Spec => []StoreInv
<1>1. Init => StoreInv
  BY InitStore
<1>2. StoreInv /\ [Next]_vars => StoreInv'
  BY NextTyped, NextReads DEF StoreInv
<1> QED BY <1>1, <1>2, PTL DEF Spec

\* Types, for any number of requests and calls; "expired" is never stored.
THEOREM TypeCorrect == Spec => []TypeOK
<1>1. StoreInv => TypeOK
  BY DEF StoreInv
<1> QED BY <1>1, StoreInvariant, PTL

\* Of any number of concurrent management requests, those that decided by what is still
\* stored act as the atomic requests of Grants: the checks of each are enough.
THEOREM StoreImplements == Spec => Implements
<1>1. Init => G!Init
  BY InitStore
<1>2. StoreInv /\ [Next]_vars => [G!Next \/ \E a \in Admins : Puts(a) /\ Stale(a)]_(G!vars)
  BY StepImplements DEF StoreInv
<1> QED BY <1>1, <1>2, StoreInvariant, PTL DEF Spec, Implements

\* No interleaving of writes grants a call a condition of which never held while
\* the call was under way.
THEOREM GrantsHeld == Spec => []GrantedOnlyIfHeld
<1>1. StoreInv => GrantedOnlyIfHeld
  BY DEF StoreInv, ReadsSeen, GrantedOnlyIfHeld, TypeOK, Facts
<1> QED BY <1>1, StoreInvariant, PTL

-----------------------------------------------------------------------------
(* What Grants promises, and what the store keeps of it.                      *)

GrantsInv == G!TypeOK /\ G!LiveHasBundle

\* What each request of Grants changes.
LEMMA GrantsParts ==
    /\ \A keyless \in BOOLEAN : G!Subscribe(keyless) =>
         /\ sub.state = "none" /\ bundle.exists
         /\ sub'.state = "active" /\ sub'.keyless = keyless
         /\ sub'.keys = IF keyless THEN G!NoKeys ELSE
              [s \in G!Slots |-> IF s = "primary" THEN issued + 1 ELSE issued + 2]
         /\ issued' = IF keyless THEN issued ELSE issued + 2
         /\ UNCHANGED <<disabled, bundle>>
    /\ \A from, to : G!Move(from, to) =>
         /\ sub.state \in from /\ sub'.state = to
         /\ sub'.keys = sub.keys /\ sub'.keyless = sub.keyless
         /\ GExpired' = GExpired /\ UNCHANGED <<disabled, bundle, issued>>
    /\ \A slot \in G!Slots : G!Regenerate(slot) =>
         /\ sub.state \in {"active", "suspended"} /\ ~sub.keyless
         /\ sub'.state = sub.state /\ sub'.keyless = sub.keyless
         /\ sub'.keys = [sub.keys EXCEPT ![slot] = issued + 1]
         /\ issued' = issued + 1
         /\ GExpired' = GExpired /\ UNCHANGED <<disabled, bundle>>
    /\ G!Expire \/ G!SetDisabled =>
         /\ GSub' = GSub /\ (GExpired => GExpired') /\ UNCHANGED <<bundle, issued>>
    /\ G!CreateBundle \/ G!DeleteBundle \/ (\E api \in Apis : G!EditBundle(api)) =>
         GSub' = GSub /\ GExpired' = GExpired /\ UNCHANGED <<disabled, issued>>
<1>1. ASSUME NEW keyless \in BOOLEAN, G!Subscribe(keyless)
      PROVE  /\ sub.state = "none" /\ bundle.exists
             /\ sub'.state = "active" /\ sub'.keyless = keyless
             /\ sub'.keys = IF keyless THEN G!NoKeys ELSE
                  [s \in G!Slots |-> IF s = "primary" THEN issued + 1 ELSE issued + 2]
             /\ issued' = IF keyless THEN issued ELSE issued + 2
             /\ UNCHANGED <<disabled, bundle>>
  BY <1>1 DEF G!Subscribe
<1>2. ASSUME NEW from, NEW to, G!Move(from, to)
      PROVE  /\ sub.state \in from /\ sub'.state = to
             /\ sub'.keys = sub.keys /\ sub'.keyless = sub.keyless
             /\ GExpired' = GExpired /\ UNCHANGED <<disabled, bundle, issued>>
  BY <1>2 DEF G!Move, GExpired
<1>3. ASSUME NEW slot \in G!Slots, G!Regenerate(slot)
      PROVE  /\ sub.state \in {"active", "suspended"} /\ ~sub.keyless
             /\ sub'.state = sub.state /\ sub'.keyless = sub.keyless
             /\ sub'.keys = [sub.keys EXCEPT ![slot] = issued + 1]
             /\ issued' = issued + 1
             /\ GExpired' = GExpired /\ UNCHANGED <<disabled, bundle>>
  BY <1>3 DEF G!Regenerate, G!Live, GExpired
<1>4. ASSUME G!Expire \/ G!SetDisabled
      PROVE  GSub' = GSub /\ (GExpired => GExpired') /\ UNCHANGED <<bundle, issued>>
  BY <1>4 DEF G!Expire, G!SetDisabled, GSub, GExpired
<1>5. ASSUME G!CreateBundle \/ G!DeleteBundle \/ (\E api \in Apis : G!EditBundle(api))
      PROVE  GSub' = GSub /\ GExpired' = GExpired /\ UNCHANGED <<disabled, issued>>
  BY <1>5 DEF G!CreateBundle, G!DeleteBundle, G!EditBundle, GSub, GExpired
<1> QED
  BY <1>1, <1>2, <1>3, <1>4, <1>5

LEMMA GrantsInit == G!Init => GrantsInv
<1> SUFFICES ASSUME G!Init PROVE GrantsInv
  OBVIOUS
<1>1. GSub = [state |-> "none", keys |-> G!NoKeys, keyless |-> FALSE]
  BY DEF G!Init, GSub
<1>2. /\ ~GExpired /\ disabled = FALSE /\ issued = 0 /\ bundle \in G!Bundles
      /\ sub.state = "none"
  BY <1>1 DEF G!Init, GSub, GExpired
<1>3. GSub \in [state : G!States, keys : [G!Slots -> 0..issued], keyless : BOOLEAN]
  BY <1>1, <1>2 DEF G!NoKeys, G!States
<1>4. G!TypeOK
  BY <1>2, <1>3 DEF G!TypeOK, GSub, GExpired
<1> QED BY <1>2, <1>4 DEF GrantsInv, G!LiveHasBundle, G!Live

\* A request of Grants keeps the types and the bundle of a live subscription.
LEMMA GrantsNext == GrantsInv /\ [G!Next]_(G!vars) => GrantsInv'
<1> DEFINE Typed(s, n) == s \in [state : G!States, keys : [G!Slots -> 0..n], keyless : BOOLEAN]
           Rest == /\ Typed(GSub, issued)' /\ disabled' \in BOOLEAN /\ bundle' \in G!Bundles
                   /\ issued' \in Nat
                   /\ (sub'.state \in {"active", "suspended"} => bundle'.exists)
<1> SUFFICES ASSUME GrantsInv, [G!Next]_(G!vars) PROVE GrantsInv'
  OBVIOUS
<1>1. /\ Typed(GSub, issued) /\ disabled \in BOOLEAN /\ bundle \in G!Bundles /\ issued \in Nat
      /\ (sub.state \in {"active", "suspended"} => bundle.exists)
  BY DEF GrantsInv, G!TypeOK, G!LiveHasBundle, G!Live, GSub
<1>2. SUFFICES Rest
  BY DEF GrantsInv, G!TypeOK, G!LiveHasBundle, G!Live, GSub, GExpired
<1>3. GSub' = [state |-> sub'.state, keys |-> sub'.keys, keyless |-> sub'.keyless]
  BY DEF GSub
<1>4. sub.state \in G!States /\ sub.keys \in [G!Slots -> 0..issued] /\ sub.keyless \in BOOLEAN
  BY <1>1 DEF GSub
<1>5. ASSUME NEW keyless \in BOOLEAN, G!Subscribe(keyless) PROVE Rest
  <2>1. /\ sub'.state = "active" /\ sub'.keyless = keyless /\ bundle.exists
        /\ sub'.keys = IF keyless THEN G!NoKeys ELSE
             [s \in G!Slots |-> IF s = "primary" THEN issued + 1 ELSE issued + 2]
        /\ issued' = IF keyless THEN issued ELSE issued + 2
        /\ UNCHANGED <<disabled, bundle>>
    BY <1>5, GrantsParts
  <2>2. sub'.keys \in [G!Slots -> 0..issued'] /\ issued' \in Nat
    BY <1>1, <2>1 DEF G!NoKeys
  <2> QED BY <1>1, <1>3, <2>1, <2>2 DEF G!States
<1>6. ASSUME NEW from \in SUBSET {"active", "suspended"}, NEW to \in G!States, G!Move(from, to)
      PROVE  Rest
  <2>1. /\ sub.state \in from /\ sub'.state = to
        /\ sub'.keys = sub.keys /\ sub'.keyless = sub.keyless
        /\ UNCHANGED <<disabled, bundle, issued>>
    BY <1>6, GrantsParts
  <2> QED BY <1>1, <1>3, <1>4, <2>1
<1>7. CASE G!Suspend \/ G!Reactivate \/ G!Cancel
  BY <1>6, <1>7 DEF G!Suspend, G!Reactivate, G!Cancel, G!States
<1>8. ASSUME NEW slot \in G!Slots, G!Regenerate(slot) PROVE Rest
  <2>1. /\ sub'.state = sub.state /\ sub'.keyless = sub.keyless
        /\ sub'.keys = [sub.keys EXCEPT ![slot] = issued + 1]
        /\ issued' = issued + 1 /\ UNCHANGED <<disabled, bundle>>
    BY <1>8, GrantsParts
  <2>2. sub'.keys \in [G!Slots -> 0..issued']
    BY <1>1, <1>4, <2>1
  <2> QED BY <1>1, <1>3, <1>4, <2>1, <2>2
<1>9. CASE G!Expire \/ G!SetDisabled
  <2>1. GSub' = GSub /\ UNCHANGED <<bundle, issued>>
    BY <1>9, GrantsParts
  <2>2. disabled' \in BOOLEAN
    BY <1>1, <1>9 DEF G!Expire, G!SetDisabled
  <2> QED BY <1>1, <1>3, <2>1, <2>2 DEF GSub
<1>10. CASE G!CreateBundle \/ G!DeleteBundle \/ \E api \in Apis : G!EditBundle(api)
  <2>1. GSub' = GSub /\ UNCHANGED <<disabled, issued>>
    BY <1>10, GrantsParts
  <2>2. bundle' \in G!Bundles /\ (sub.state \in {"active", "suspended"} => bundle'.exists)
    <3>1. CASE G!CreateBundle
      BY <3>1 DEF G!CreateBundle
    <3>2. CASE G!DeleteBundle
      <4>1. G!NoBundle \in G!Bundles
        BY DEF G!NoBundle, G!Bundles
      <4> QED BY <3>2, <4>1 DEF G!DeleteBundle, G!Live
    <3>3. ASSUME NEW api \in Apis, G!EditBundle(api)
          PROVE  bundle' \in G!Bundles /\ bundle'.exists
      <4>1. bundle \in G!Bundles /\ bundle.exists
        BY <1>1, <3>3 DEF G!EditBundle
      <4>2. PICK S \in SUBSET Apis : bundle' = [bundle EXCEPT !.apis = S]
        BY <3>3, <4>1 DEF G!EditBundle, G!Bundles
      <4>3. bundle' \in G!Bundles /\ bundle'.exists = bundle.exists
        BY <4>1, <4>2 DEF G!Bundles
      <4> QED BY <4>1, <4>3
    <3> QED BY <1>10, <3>1, <3>2, <3>3
  <2>3. sub'.state = sub.state
    BY <2>1 DEF GSub
  <2> QED BY <1>1, <1>3, <2>1, <2>2, <2>3
<1>11. CASE UNCHANGED G!vars
  <2>1. GSub' = GSub /\ UNCHANGED <<disabled, bundle, issued>>
    BY <1>11 DEF G!vars, GSub
  <2>2. sub'.state = sub.state
    BY <2>1 DEF GSub
  <2> QED BY <1>1, <2>1, <2>2
<1> QED BY <1>5, <1>7, <1>8, <1>9, <1>10, <1>11 DEF G!Next

\* A request of Grants leaves the end of a subscription, and of a key, as it is.
GrantsEnds == G!CancelledFinal /\ G!ExpiredFinal /\ G!ReplacedKeyDead

LEMMA GrantsNextEnds == GrantsInv /\ [G!Next]_(G!vars) => GrantsEnds
<1> DEFINE Cancelled == sub.state = "cancelled" => sub'.state = "cancelled"
           Expired == GExpired => GExpired'
           Dead == \A n \in 1..issued :
                     (\A s \in G!Slots : sub.keys[s] # n) => \A s \in G!Slots : sub'.keys[s] # n
<1> SUFFICES ASSUME GrantsInv, [G!Next]_(G!vars) PROVE GrantsEnds
  OBVIOUS
<1>1. GSub \in [state : G!States, keys : [G!Slots -> 0..issued], keyless : BOOLEAN] /\ issued \in Nat
  BY DEF GrantsInv, G!TypeOK, GSub
<1>2. sub.keys \in [G!Slots -> 0..issued]
  BY <1>1 DEF GSub
<1>3. SUFFICES Cancelled /\ Expired /\ Dead
  BY <1>1 DEF GrantsEnds, G!CancelledFinal, G!ExpiredFinal, G!ReplacedKeyDead, G!Keys, GExpired
<1>4. ASSUME NEW keyless \in BOOLEAN, G!Subscribe(keyless) PROVE Cancelled /\ Expired /\ Dead
  <2>1. /\ sub.state = "none"
        /\ sub'.keys = IF keyless THEN G!NoKeys ELSE
             [s \in G!Slots |-> IF s = "primary" THEN issued + 1 ELSE issued + 2]
    BY <1>4, GrantsParts
  <2>2. \A s \in G!Slots : sub'.keys[s] \notin 1..issued
    BY <1>1, <2>1 DEF G!NoKeys
  <2> QED BY <2>1, <2>2 DEF GExpired
<1>5. ASSUME NEW from \in SUBSET {"active", "suspended"}, NEW to \in G!States, G!Move(from, to)
      PROVE  Cancelled /\ Expired /\ Dead
  BY <1>5, GrantsParts
<1>6. CASE G!Suspend \/ G!Reactivate \/ G!Cancel
  BY <1>5, <1>6 DEF G!Suspend, G!Reactivate, G!Cancel, G!States
<1>7. ASSUME NEW slot \in G!Slots, G!Regenerate(slot) PROVE Cancelled /\ Expired /\ Dead
  <2>1. /\ sub.state \in {"active", "suspended"}
        /\ sub'.keys = [sub.keys EXCEPT ![slot] = issued + 1]
        /\ GExpired' = GExpired
    BY <1>7, GrantsParts
  <2>2. \A s \in G!Slots : sub'.keys[s] = sub.keys[s] \/ sub'.keys[s] \notin 1..issued
    BY <1>1, <1>2, <2>1
  <2> QED BY <2>1, <2>2
<1>8. ASSUME GSub' = GSub, GExpired => GExpired' PROVE Cancelled /\ Expired /\ Dead
  <2>1. sub'.state = sub.state /\ sub'.keys = sub.keys
    BY <1>8 DEF GSub
  <2> QED BY <1>8, <2>1
<1>9. CASE \/ G!Expire \/ G!SetDisabled \/ G!CreateBundle \/ G!DeleteBundle
           \/ \E api \in Apis : G!EditBundle(api)
  BY <1>8, <1>9, GrantsParts
<1>10. CASE UNCHANGED G!vars
  BY <1>8, <1>10 DEF G!vars, GSub, GExpired
<1> QED BY <1>4, <1>6, <1>7, <1>9, <1>10 DEF G!Next

\* The invariant of the atomic requests.
THEOREM GrantsInvariant == G!Spec => []GrantsInv
<1> QED BY GrantsInit, GrantsNext, PTL DEF G!Spec

\* createSubscription and deleteBundle (gw_api.go), each atomic, never leave a live
\* subscription without its bundle.
THEOREM LiveHasBundleAlways == G!Spec => []G!LiveHasBundle
<1>1. GrantsInv => G!LiveHasBundle
  BY DEF GrantsInv
<1> QED BY <1>1, GrantsInvariant, PTL

\* ADR 0003: "`cancelled` is terminal", an expired subscription stays expired, and
\* a key that was replaced is never accepted again.
THEOREM EndsAreFinal == G!Spec => [][GrantsEnds]_(G!vars)
<1> QED BY GrantsInvariant, GrantsNextEnds, PTL DEF G!Spec

\* The handlers themselves keep all of this, for any number of requests at once, as
\* long as no write overtakes another and no listing passes over a subscription: what
\* Stale says is the only thing that can take away a bundle in use, or bring back a
\* cancelled subscription or an old key.
NoStaleWrite == \A a \in Admins : ~(Puts(a) /\ Stale(a))

THEOREM UnovertakenKeepsPromises ==
    Spec /\ [][NoStaleWrite]_vars => []G!LiveHasBundle /\ [][GrantsEnds]_(G!vars)
<1>1. Init => GrantsInv
  BY InitStore, GrantsInit
<1>2. StoreInv /\ [Next]_vars /\ [NoStaleWrite]_vars => [G!Next]_(G!vars)
  <2>1. UNCHANGED vars => UNCHANGED G!vars
    BY DEF vars, stored, G!vars
  <2> QED BY <2>1, StepImplements DEF NoStaleWrite, StoreInv
<1>3. GrantsInv => G!LiveHasBundle
  BY DEF GrantsInv
<1> QED BY <1>1, <1>2, <1>3, GrantsNext, GrantsNextEnds, StoreInvariant, PTL DEF Spec

=============================================================================
