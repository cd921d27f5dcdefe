------------------------------ MODULE Catalog ------------------------------
(***************************************************************************)
(* What the management API promises about the objects of one owner that    *)
(* name each other: an API its connector or its credential, an MCP server  *)
(* its API or its credential, a bundle its APIs and MCP servers, an entra  *)
(* credential the credential of its client secret.  Each request checks    *)
(* and writes in a single step; the handlers of ObjectStore do it in many. *)
(***************************************************************************)

CONSTANTS Apis, McpServers, Bundles, Credentials, Connectors

Objects == Apis \cup McpServers \cup Bundles \cup Credentials \cup Connectors

\* Object ids are per kind in the store.
ASSUME KindsAssumption ==
    /\ Apis \cap (McpServers \cup Bundles \cup Credentials \cup Connectors) = {}
    /\ McpServers \cap (Bundles \cup Credentials \cup Connectors) = {}
    /\ Bundles \cap (Credentials \cup Connectors) = {}
    /\ Credentials \cap Connectors = {}

VARIABLE store      \* object -> its file: the objects it names, its inject target

\* The sets of objects that an object can name.
AtMostOne(S) == {{}} \cup {{x} : x \in S}
Names(o) == CASE o \in Apis -> AtMostOne(Connectors \cup Credentials)
              [] o \in McpServers -> AtMostOne(Apis \cup Credentials)
              [] o \in Bundles -> SUBSET (Apis \cup McpServers)
              [] o \in Credentials -> AtMostOne(Credentials)
              [] OTHER -> {{}}

\* Files; inject says that a credential has a header, query or bearer target.
Files == [exists : BOOLEAN, refs : SUBSET Objects, inject : BOOLEAN]
Absent == [exists |-> FALSE, refs |-> {}, inject |-> FALSE]

File(refs, inject) == [exists |-> TRUE, refs |-> refs, inject |-> inject]

\* An entra credential goes into the bearer token when its request says nothing.
Values(o) ==
    IF o \in Credentials
    THEN {File({}, inject) : inject \in BOOLEAN} \cup {File({c}, TRUE) : c \in Credentials}
    ELSE {File(refs, FALSE) : refs \in Names(o)}

\* o can name r: r exists, and a credential that is to be injected can be.
Usable(o, r) ==
    /\ store[r].exists
    /\ r \in Credentials /\ o \notin Credentials => store[r].inject

Init == store = [o \in Objects |-> Absent]

Create(o) ==
    /\ ~store[o].exists
    /\ \E f \in Values(o) :
         /\ \A r \in f.refs : Usable(o, r)
         /\ store' = [store EXCEPT ![o] = f]

\* patchApi and the edits of a bundle; what they add must be usable.
Change(o) ==
    /\ o \in Apis \cup Bundles /\ store[o].exists
    /\ \E refs \in Names(o) :
         /\ \A r \in refs \ store[o].refs : Usable(o, r)
         /\ store' = [store EXCEPT ![o] = File(refs, FALSE)]

Delete(o) ==
    /\ \A x \in Objects : o \notin store[x].refs
    /\ store' = [store EXCEPT ![o] = Absent]

Next == \E o \in Objects : Create(o) \/ Change(o) \/ Delete(o)

Spec == Init /\ [][Next]_store

-----------------------------------------------------------------------------
(* What follows for the operator and for the data plane. *)

\* Every file is absent or a value of its kind.
TypeOK == store \in [Objects -> Files]
            /\ \A o \in Objects : store[o] = Absent \/ store[o] \in Values(o)

\* What an object names exists, and its credential has somewhere to go: no call
\* finds its connector, API or credential gone.
NoDangling == \A o \in Objects : \A r \in store[o].refs : Usable(o, r)

\* The client secret of an entra credential may be an entra credential again; a
\* chain of them never comes back to where it was: in no set of credentials does
\* each need another one of the set.  What the depth guard of resolve refuses is
\* then a long chain, which createCredential accepts, never a circular one.
ChainsEnd ==
    \A S \in SUBSET Credentials :
        (\A c \in S : store[c].refs \cap S # {}) => S = {}

=============================================================================
