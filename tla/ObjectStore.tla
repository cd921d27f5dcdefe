---------------------------- MODULE ObjectStore ----------------------------
(***************************************************************************)
(* The object files of one owner (gw_store.go) and the management handlers *)
(* that create, change and delete them (gw_api.go, gw_connectors.go): what *)
(* a handler read and checked may have changed by the time it writes.      *)
(*                                                                         *)
(* put and remove are atomic; listKind reads one file after the other.     *)
(* Left out are the fields that name nothing, and the names that a server  *)
(* never uses: the credential of an api-sourced MCP server, the API of a   *)
(* remote one.  Subscriptions, and the deletion of a bundle that they are  *)
(* in the way of, are in SubscriptionStore.                                *)
(***************************************************************************)
EXTENDS Catalog

CONSTANTS
    Admins,     \* management requests that can be under way together
    NoObject

ASSUME NoObjectAssumption == NoObject \notin Objects

VARIABLE admin      \* management request -> its handler

vars == <<store, admin>>

\* read is the file the handler read, copy what it is about to write, todo the names
\* it has still to check or the files it has still to scan, passed those it has.
Handlers == [pc : {"idle", "checking", "scanning"}, target : Objects \cup {NoObject},
             read : Files, copy : Files, todo : SUBSET Objects, passed : SUBSET Objects]

Idle == [pc |-> "idle", target |-> NoObject, read |-> Absent, copy |-> Absent,
         todo |-> {}, passed |-> {}]
Past(h, x) == [h EXCEPT !.todo = @ \ {x}, !.passed = @ \cup {x}]

ObjectInit ==
    /\ Init
    /\ admin = [a \in Admins |-> Idle]

Step(a, h) == admin' = [admin EXCEPT ![a] = h] /\ UNCHANGED store
Answer(a) == Step(a, Idle)

\* Names are checked and files listed kind by kind.
KindsBefore(x) == CASE x \in Bundles -> {}
                    [] x \in Apis -> Bundles
                    [] x \in McpServers -> Bundles \cup Apis
                    [] OTHER -> Bundles \cup Apis \cup McpServers
IsNext(x, todo) == KindsBefore(x) \cap todo = {}

-----------------------------------------------------------------------------
(* Creating and changing. *)

Checking(o, copy, todo) ==
    [pc |-> "checking", target |-> o, read |-> store[o], copy |-> copy,
     todo |-> todo, passed |-> {}]

\* Mutant: an entra credential gets no inject target by default.
BeginCreateUninjected(a, o) ==
    /\ admin[a].pc = "idle"
    /\ ~store[o].exists
    /\ \E f \in Values(o) : Step(a, Checking(o, File(f.refs, FALSE), f.refs))

\* createApi, createMcp, createBundle, createCredential, createConnector.
BeginCreate(a, o) ==
    /\ admin[a].pc = "idle"
    /\ ~store[o].exists
    /\ \E f \in Values(o) : Step(a, Checking(o, f, f.refs))

\* patchApi: validateApi looks at everything the changed API names.
BeginPatch(a, o) ==
    /\ admin[a].pc = "idle"
    /\ store[o].exists
    /\ \E refs \in Names(o) : Step(a, Checking(o, File(refs, FALSE), refs))

\* bundleItem; only what is added is looked for.
BeginItem(a, o, item) ==
    /\ admin[a].pc = "idle"
    /\ store[o].exists
    /\ \/ Step(a, Checking(o, File(store[o].refs \cup {item}, FALSE), {item}))
       \/ Step(a, Checking(o, File(store[o].refs \ {item}, FALSE), {}))

\* The handlers that keep the names and write the rest of the file: operations of
\* an API, visibility of a bundle, rotation of a credential, tokens of a connector.
BeginEdit(a, o) ==
    /\ admin[a].pc = "idle"
    /\ o \in Objects \ McpServers /\ store[o].exists
    /\ Step(a, Checking(o, store[o], {}))

\* Mutant: checkInjectable does not look at the inject target.
PassesUninjectable(o, r) == store[r].exists

\* validateApi, checkInjectable and the checks of createMcp, createBundle and
\* createCredential on one name.
Passes(o, r) ==
    /\ store[r].exists
    /\ r \in Credentials /\ o \notin Credentials => store[r].inject

Check(a, r) ==
    LET h == admin[a] IN
    /\ h.pc = "checking" /\ IsNext(r, h.todo)
    /\ IF Passes(h.target, r) THEN Step(a, Past(h, r)) ELSE Answer(a)

Put(a) ==
    LET h == admin[a] IN
    /\ h.pc = "checking" /\ h.todo = {}
    /\ store' = [store EXCEPT ![h.target] = h.copy]
    /\ admin' = [admin EXCEPT ![a] = Idle]

-----------------------------------------------------------------------------
(* Deleting. *)

\* Mutant: refsTo does not list the MCP servers.
ScannedForBundles(o) ==
    CASE o \in Apis \cup McpServers -> Bundles
      [] o \in Credentials -> Apis \cup McpServers \cup Credentials
      [] o \in Connectors -> Apis
      [] OTHER -> {}

\* The files that deleteApi, deleteMcp, deleteCredential and deleteConnector list;
\* within a kind the code goes by name, here in any order.
Scanned(o) ==
    CASE o \in Apis -> Bundles \cup McpServers
      [] o \in McpServers -> Bundles
      [] o \in Credentials -> Apis \cup McpServers \cup Credentials
      [] o \in Connectors -> Apis
      [] OTHER -> {}

BeginDelete(a, o) ==
    /\ admin[a].pc = "idle"
    /\ Step(a, [pc |-> "scanning", target |-> o, read |-> Absent, copy |-> Absent,
                todo |-> Scanned(o), passed |-> {}])

Scan(a, x) ==
    LET h == admin[a] IN
    /\ h.pc = "scanning" /\ IsNext(x, h.todo)
    /\ IF h.target \in store[x].refs THEN Answer(a) ELSE Step(a, Past(h, x))

\* 404 when the file is gone.
Remove(a) ==
    LET h == admin[a] IN
    /\ h.pc = "scanning" /\ h.todo = {}
    /\ store' = [store EXCEPT ![h.target] = Absent]
    /\ admin' = [admin EXCEPT ![a] = Idle]

\* put or remove fails: 500.
WriteFails(a) ==
    /\ admin[a].pc # "idle" /\ admin[a].todo = {}
    /\ Answer(a)

-----------------------------------------------------------------------------
Begin(a) ==
    \/ \E o \in Objects : BeginCreate(a, o) \/ BeginEdit(a, o) \/ BeginDelete(a, o)
    \/ \E o \in Apis : BeginPatch(a, o)
    \/ \E o \in Bundles, item \in Apis \cup McpServers : BeginItem(a, o, item)

Proceed(a) == \E x \in admin[a].todo : Check(a, x) \/ Scan(a, x)

ObjectNext == \E a \in Admins :
    Begin(a) \/ Proceed(a) \/ Put(a) \/ Remove(a) \/ WriteFails(a)

ObjectSpec == ObjectInit /\ [][ObjectNext]_vars

-----------------------------------------------------------------------------
(* Properties. *)

\* Every variable keeps its type.
ObjectTypeOK ==
    /\ TypeOK
    /\ admin \in [Admins -> Handlers]

\* What handler a read or checked is no longer so.
Stale(a) ==
    LET h == admin[a] IN
    \/ h.pc = "checking"
         /\ \/ store[h.target] # h.read
            \/ \E r \in h.passed \ h.read.refs : ~Passes(h.target, r)
    \/ h.pc = "scanning" /\ \E x \in h.passed : h.target \in store[x].refs

\* A request writes what Catalog lets it write in one step, for every
\* interleaving in which nothing it read or checked has changed when it writes:
\* then no name dangles, and no chain of credentials is circular.
Implements == Init /\ [][Next \/ \E a \in Admins : (Put(a) \/ Remove(a)) /\ Stale(a)]_store

=============================================================================
