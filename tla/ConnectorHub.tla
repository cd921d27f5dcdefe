---------------------------- MODULE ConnectorHub ----------------------------
(***************************************************************************)
(* The runner connectors of gw_connectors.go, for one connector: its       *)
(* stored record, the control endpoint on which agents register yamux      *)
(* sessions, the hub that keeps the live sessions and picks one for each   *)
(* request, and the management handlers that create, enable, disable,      *)
(* regenerate and delete the connector and drop its sessions.              *)
(*                                                                         *)
(* The hub's mutex makes add, remove, pick and the snapshot of closeAll    *)
(* atomic.  The control handler and the management handlers each read the  *)
(* stored connector, go on without a lock, and act on what they read.      *)
(***************************************************************************)
EXTENDS Integers, Sequences, FiniteSets, SequencesExt

CONSTANTS
    Sessions,       \* the control connections of a behaviour, each used once
    Admins,         \* management requests that can be under way together
    Slots,          \* slot names
    SlotSets,       \* what an agent can register: sets of slots
    Ops,            \* the management operations called
    MaxTokens       \* bound: tokens issued

TokenSlots == {"primary", "secondary"}
AllOps == {"create", "enable", "disable", "delete", "primary", "secondary"}
NoOne == "none"     \* pick's nil

ASSUME HubAssumption ==
    /\ SlotSets \subseteq SUBSET Slots
    /\ Ops \subseteq AllOps
    /\ MaxTokens \in Nat /\ MaxTokens >= 2
    /\ NoOne \notin Sessions

VARIABLES
    conn,       \* the stored Connector; its hashes as the number of the token
    issued,     \* tokens issued so far
    agent,      \* session -> its control handler
    registry,   \* hub.sessions of the connector
    next,       \* hub.next of the connector
    admin,      \* management request -> its handler
    raced,      \* history: sessions past authenticate, not yet added, when a
                \* closeAll took its snapshot
    missed      \* history: session -> requests it serves the slot of that went
                \* elsewhere since it was last picked or the registry changed

vars == <<conn, issued, agent, registry, next, admin, raced, missed>>

Connectors == [exists : BOOLEAN, disabled : BOOLEAN, hash : [TokenSlots -> Nat]]

\* token is the number of the token the agent presents; slot the token slot it
\* matched.  closed is yamux's IsClosed.
Agents == [pc : {"idle", "presented", "authenticated", "serving", "gone"},
           token : Nat, slot : TokenSlots, slots : SUBSET Slots, closed : BOOLEAN]

\* copy is the connector the handler read, targets what closeAll still closes.
Handlers == [pc : {"idle", "read", "written", "closing"}, op : AllOps,
             copy : Connectors, targets : SUBSET Sessions]

NoConnector == [exists |-> FALSE, disabled |-> FALSE, hash |-> [t \in TokenSlots |-> 0]]
NoHandler == [pc |-> "idle", op |-> "create", copy |-> NoConnector, targets |-> {}]
Registered(s) == \E i \in 1..Len(registry) : registry[i] = s
NoneMissed == [s \in Sessions |-> 0]

\* A connector of this id exists from the start, with two tokens.
Init ==
    /\ conn = [exists |-> TRUE, disabled |-> FALSE,
               hash |-> [t \in TokenSlots |-> IF t = "primary" THEN 1 ELSE 2]]
    /\ issued = 2
    /\ agent \in [Sessions -> [pc : {"idle"}, token : {0}, slot : {"primary"},
                               slots : SlotSets, closed : {FALSE}]]
    /\ registry = <<>>
    /\ next = 0
    /\ admin = [a \in Admins |-> NoHandler]
    /\ raced = {}
    /\ missed = NoneMissed

-----------------------------------------------------------------------------
(* The control endpoint: connectorControl.ServeHTTP. *)

\* An agent dialled and its register frame, with some token ever issued, arrived.
Present(s) ==
    /\ agent[s].pc = "idle"
    /\ \E t \in 1..issued :
         agent' = [agent EXCEPT ![s].pc = "presented", ![s].token = t]
    /\ UNCHANGED <<conn, issued, registry, next, admin, raced, missed>>

\* authenticate: the connector as it is stored now decides.
Accepts(t, slot) == conn.exists /\ ~conn.disabled /\ conn.hash[slot] = t

\* The handler returned; its deferred sess.Close ran.
Gone(s) == [agent[s] EXCEPT !.pc = "gone", !.token = 0, !.slot = "primary",
                            !.closed = TRUE]

Authenticate(s) ==
    /\ agent[s].pc = "presented"
    /\ \/ \E slot \in TokenSlots :
            /\ Accepts(agent[s].token, slot)
            /\ agent' = [agent EXCEPT ![s].pc = "authenticated", ![s].slot = slot]
       \/ /\ \A slot \in TokenSlots : ~Accepts(agent[s].token, slot)
          /\ agent' = [agent EXCEPT ![s] = Gone(s)]
    /\ UNCHANGED <<conn, issued, registry, next, admin, raced, missed>>

\* A slot is refused (bad_name, unsupported) or the ack cannot be written.
Reject(s) ==
    /\ agent[s].pc = "authenticated"
    /\ agent' = [agent EXCEPT ![s] = Gone(s)]
    /\ UNCHANGED <<conn, issued, registry, next, admin, raced, missed>>

\* The ack went out; hub.add.
Add(s) ==
    /\ agent[s].pc = "authenticated"
    /\ agent' = [agent EXCEPT ![s].pc = "serving"]
    /\ registry' = Append(registry, s)
    /\ missed' = NoneMissed
    /\ UNCHANGED <<conn, issued, next, admin, raced>>

\* The agent goes away, or its keepalive fails: yamux closes the session.
Hangup(s) ==
    /\ agent[s].pc \in {"authenticated", "serving"} /\ ~agent[s].closed
    /\ agent' = [agent EXCEPT ![s].closed = TRUE]
    /\ UNCHANGED <<conn, issued, registry, next, admin, raced, missed>>

\* hub.remove's slice without the session.
Without(s) ==
    IF Registered(s)
    THEN RemoveAt(registry, CHOOSE i \in 1..Len(registry) : registry[i] = s)
    ELSE registry

\* The control loop's read fails, because the session was closed or the control
\* stream ended: the deferred hub.remove runs, then sess.Close.
Leave(s) ==
    /\ agent[s].pc = "serving"
    /\ agent' = [agent EXCEPT ![s] = Gone(s)]
    /\ registry' = Without(s)
    /\ missed' = NoneMissed
    /\ UNCHANGED <<conn, issued, next, admin, raced>>

-----------------------------------------------------------------------------
(* The data plane: connectorHub.pick, one critical section. *)

Serves(s, slot) == slot \in agent[s].slots /\ ~agent[s].closed

\* The zero-based position pick looks at in its i-th turn, i counted from 0.
Position(i) == ((next % Len(registry)) + i) % Len(registry)

Turns == 0..(Len(registry) - 1)

\* Mutant: the loop stops one position early.
HitsButLast(slot) == {i \in Turns \ {Len(registry) - 1} :
                        Serves(registry[Position(i) + 1], slot)}

\* The turns at which pick would stop.
Hits(slot) == {i \in Turns : Serves(registry[Position(i) + 1], slot)}

FirstHit(slot) == CHOOSE i \in Hits(slot) : \A j \in Hits(slot) : i <= j

Picked(slot) ==
    IF Hits(slot) = {} THEN NoOne ELSE registry[Position(FirstHit(slot)) + 1]

\* Mutants: the cursor stays where the last request found it, or ends one before
\* the position looked at.
NextNotAdvanced(slot) ==
    IF registry = <<>> THEN next ELSE next % Len(registry)
NextBackwards(slot) ==
    IF registry = <<>> THEN next
    ELSE Position(IF Hits(slot) = {} THEN Len(registry) - 1 ELSE FirstHit(slot)) - 1

\* hub.next once pick returns: one past the last position it looked at.
NextAfter(slot) ==
    IF registry = <<>> THEN next
    ELSE 1 + Position(IF Hits(slot) = {} THEN Len(registry) - 1 ELSE FirstHit(slot))

Pick(slot) ==
    /\ next' = NextAfter(slot)
    /\ missed' = [s \in Sessions |->
         CASE s = Picked(slot) -> 0
           [] s # Picked(slot) /\ Registered(s) /\ Serves(s, slot)
                /\ missed[s] < Cardinality(Sessions) -> missed[s] + 1
           [] OTHER -> missed[s]]
    /\ UNCHANGED <<conn, issued, agent, registry, admin, raced>>

-----------------------------------------------------------------------------
(* The management handlers.  Each reads the connector, writes its own copy   *)
(* back changed, and then, when the operation drops sessions, closes them.   *)

\* What the handler finds lets it go on: 409 for a create, 404 for the others.
Begin(a, op) ==
    /\ admin[a].pc = "idle"
    /\ op \in Ops
    /\ op = "create" => ~conn.exists
    /\ op \in {"enable", "disable"} \cup TokenSlots => conn.exists
    /\ admin' = [admin EXCEPT ![a] =
                  [NoHandler EXCEPT !.pc = "read", !.op = op, !.copy = conn]]
    /\ UNCHANGED <<conn, issued, agent, registry, next, raced, missed>>

NewTokens(op) == IF op = "create" THEN 2 ELSE IF op \in TokenSlots THEN 1 ELSE 0

\* The copy as the operation changes it: createConnector, setConnectorDisabled,
\* regenerateConnector.  deleteConnector removes whatever is stored.
Changed(c, op) ==
    CASE op = "create"      -> [exists |-> TRUE, disabled |-> FALSE,
                                hash |-> [t \in TokenSlots |->
                                  IF t = "primary" THEN issued + 1 ELSE issued + 2]]
      [] op = "enable"      -> [c EXCEPT !.disabled = FALSE]
      [] op = "disable"     -> [c EXCEPT !.disabled = TRUE]
      [] op \in TokenSlots  -> [c EXCEPT !.hash[op] = issued + 1]
      [] op = "delete"      -> NoConnector

\* Mutants: regenerateConnector, or setConnectorDisabled, forgets dropSessions.
DropsButRegenerate(op) == op \in {"disable", "delete"}
DropsButDisable(op) == op \in {"delete"} \cup TokenSlots

\* The operations that end in dropSessions or closeAll.
Drops(op) == op \in {"disable", "delete"} \cup TokenSlots

\* store.put or store.remove.
Write(a) ==
    LET op == admin[a].op IN
    /\ admin[a].pc = "read"
    /\ issued + NewTokens(op) <= MaxTokens
    /\ issued' = issued + NewTokens(op)
    /\ conn' = Changed(admin[a].copy, op)
    /\ admin' = [admin EXCEPT ![a] =
         IF Drops(op) /\ (op = "delete" => conn.exists)
         THEN [@ EXCEPT !.pc = "written", !.copy = NoConnector] ELSE NoHandler]
    /\ UNCHANGED <<agent, registry, next, raced, missed>>

\* The put or the remove fails: 500, what is stored stays, and no session is dropped.
WriteFails(a) ==
    /\ admin[a].pc = "read"
    /\ admin' = [admin EXCEPT ![a] = NoHandler]
    /\ UNCHANGED <<conn, issued, agent, registry, next, raced, missed>>

\* closeAll takes a copy of the sessions it will close: all, or those the
\* replaced token slot authenticated.
Snapshot(a) ==
    LET hit == {s \in Sessions :
                  Registered(s) /\ (admin[a].op \in TokenSlots => agent[s].slot = admin[a].op)}
    IN
    /\ admin[a].pc = "written"
    /\ admin' = [admin EXCEPT ![a] =
         IF hit = {} THEN NoHandler ELSE [@ EXCEPT !.pc = "closing", !.targets = hit]]
    /\ raced' = raced \cup {s \in Sessions : agent[s].pc = "authenticated"}
    /\ UNCHANGED <<conn, issued, agent, registry, next, missed>>

\* ... and closes them one by one, outside the lock.
Close(a, s) ==
    LET left == admin[a].targets \ {s} IN
    /\ admin[a].pc = "closing"
    /\ s \in admin[a].targets
    /\ agent' = [agent EXCEPT ![s].closed = TRUE]
    /\ admin' = [admin EXCEPT ![a] =
         IF left = {} THEN NoHandler ELSE [@ EXCEPT !.targets = left]]
    /\ UNCHANGED <<conn, issued, registry, next, raced, missed>>

-----------------------------------------------------------------------------
Control(s) == \/ Present(s) \/ Authenticate(s) \/ Reject(s) \/ Add(s)
              \/ Hangup(s) \/ Leave(s)

Manage(a) == \/ Write(a) \/ WriteFails(a) \/ Snapshot(a)
             \/ \E s \in Sessions : Close(a, s)

Next == \/ \E s \in Sessions : Control(s)
        \/ \E slot \in Slots : Pick(slot)
        \/ \E a \in Admins : Manage(a) \/ \E op \in AllOps : Begin(a, op)

Spec == Init /\ [][Next]_vars

\* A handler that has begun is scheduled until it returns; a closed session ends
\* the read its control loop is blocked in.
FairSpec ==
    /\ Spec
    /\ \A a \in Admins : WF_vars(Manage(a))
    /\ \A s \in Sessions : WF_vars(agent[s].closed /\ Leave(s))

-----------------------------------------------------------------------------
(* Properties. *)

\* Every variable keeps its type.
TypeOK ==
    /\ conn \in Connectors
    /\ issued \in 0..MaxTokens
    /\ agent \in [Sessions -> Agents]
    /\ registry \in Seq(Sessions)
    /\ next \in Nat
    /\ admin \in [Admins -> Handlers]
    /\ raced \in SUBSET Sessions
    /\ missed \in [Sessions -> Nat]

\* pick answers nil, and the lane 503, exactly when no registered session serves
\* the slot; what it answers is registered, open and serves it.  Wherever hub.next
\* was left by sessions that have gone since.
PickFindsLive ==
    \A slot \in Slots :
        IF \E s \in Sessions : Registered(s) /\ Serves(s, slot)
        THEN \E s \in Sessions : Picked(slot) = s /\ Registered(s) /\ Serves(s, slot)
        ELSE Picked(slot) = NoOne

\* ADR 0004: "Requests are spread round-robin across the live sessions": while
\* sessions neither come nor go, a live one is passed over by fewer requests it
\* could have served than there are sessions, whatever slots are asked for.  Where
\* sessions serve different slots the code does not promise it: the one cursor of
\* the connector is advanced past sessions that do not serve the request.
RoundRobin ==
    \A s \in Sessions :
        /\ Registered(s) /\ ~agent[s].closed
        /\ \A r \in Sessions : Registered(r) => agent[r].slots = agent[s].slots
        => missed[s] < Len(registry)

Quiet == \A a \in Admins : admin[a].pc = "idle"

\* Once no management request is under way, every open session was let in by a
\* token that is still current, on a connector that still exists and is enabled;
\* only a session that was between authenticate and add when a closeAll took its
\* snapshot can be an exception.
LiveSessionsAreCurrent ==
    \A s \in Sessions :
        Quiet /\ agent[s].pc = "serving" /\ ~agent[s].closed /\ s \notin raced
            => Accepts(agent[s].token, agent[s].slot)

\* A connector that stays disabled or deleted loses its sessions: those that did
\* not race the drop leave the registry, so that requests find it offline.
DisabledDrains ==
    \A s \in Sessions :
        <>[](~conn.exists \/ conn.disabled) => <>[](s \in raced \/ ~Registered(s))

=============================================================================
