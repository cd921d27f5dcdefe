----------------------------- MODULE TokenCache -----------------------------
(***************************************************************************)
(* The upstream tokens of CredentialResolver (gw_credentials.go and        *)
(* gw_entracert.go): the cache, the single-flight mint that concurrent     *)
(* calls of an entra-cert credential share, the unshared mint of an entra  *)
(* credential, and the management handlers that create, rotate and delete  *)
(* credentials and Forget their cached token.                              *)
(*                                                                         *)
(* The resolver's mutex covers the look at the cache and the flights, and  *)
(* the write of the result.  Reading the credential, reading the key (or   *)
(* the client secret), the token endpoint's answer and closing the flight  *)
(* happen outside it, interleaved with the handlers.                       *)
(***************************************************************************)
EXTENDS Integers, FiniteSets

CONSTANTS
    Calls,          \* data-plane calls, each used once
    Impatient,      \* those whose caller may go away
    CertCreds,      \* credential ids, created with source entra-cert ...
    SecretCreds,    \* ... or entra
    Configs,        \* what a credential says: (tenant, clientId, scope)
    Admins,         \* management requests that can be under way together
    Ops,            \* the management operations called
    Delays,         \* how long after its mint a token is to be refreshed
    MaxVersion,     \* bound: versions of the key pair, or of the secret
    MaxTime,        \* bound: the clock stops here
    NoOne           \* no call, no credential, no token

Creds == CertCreds \cup SecretCreds
Handled == {"create", "rotate", "delete"}

ASSUME CacheAssumption ==
    /\ Impatient \subseteq Calls
    /\ CertCreds \cap SecretCreds = {}
    /\ Ops \subseteq Handled
    /\ Delays \subseteq Nat
    /\ MaxVersion \in Nat \ {0}
    /\ MaxTime \in Nat
    /\ NoOne \notin Calls \cup Creds \cup Configs

VARIABLES
    clock,      \* cr.now()
    version,    \* of the key pair on the host, or the client secret
    stored,     \* credential -> its stored configuration, NoOne if none
    cache,      \* cr.cache: key -> token
    inflight,   \* cr.inflight: key -> the call that leads the flight
    call,       \* call -> its goroutine's locals
    admin,      \* management request -> its handler
    mints,      \* history: mints begun since the key last needed one
    floor,      \* history: version at the key's last Forget
    straddlers  \* history: calls that had read the key or the secret when a
                \* Forget of their token ran

history == <<mints, floor, straddlers>>
vars == <<clock, version, stored, cache, inflight, call, admin, history>>

Versions == 1..MaxVersion

\* Mutant: every token is cached by the credential's id.
CertKeyById(x, cfg) == <<"id", x>>

\* certCacheKey, which does not name the credential, or cacheKey, which does not
\* name anything else.
Key(x, cfg) == IF x \in CertCreds THEN <<"entra-cert", cfg>> ELSE <<"id", x>>
CertKeys == {"entra-cert"} \X Configs
Keys == CertKeys \cup ({"id"} \X Creds)

\* What the token is for, the version that obtained it, the call that did, and
\* the time from which it is to be replaced.
Tokens == [cfg : Configs, version : Versions, by : Calls, until : Nat]

\* cfg is the copy of the credential resolve read, leader the flight a waiter
\* waits on, tok the token obtained; cancelled says that the caller went away.
CallState == [pc : {"idle", "resolving", "minting", "posting", "minted",
                    "closing", "waiting", "done"},
              x : Creds, cfg : Configs \cup {NoOne}, leader : Calls \cup {NoOne},
              version : {0} \cup Versions, tok : Tokens \cup {NoOne},
              cancelled : BOOLEAN, err : {"none", "failed", "cancelled"}]

Handlers == [pc : {"idle", "read", "written"}, op : Handled,
             x : Creds \cup {NoOne}, cfg : Configs \cup {NoOne}]

NoHandler == [pc |-> "idle", op |-> "rotate", x |-> NoOne, cfg |-> NoOne]

Idle(x) == [pc |-> "idle", x |-> x, cfg |-> NoOne, leader |-> NoOne,
            version |-> 0, tok |-> NoOne, cancelled |-> FALSE, err |-> "none"]

Fresh(k) == cache[k] # NoOne /\ clock < cache[k].until
KeyOf(c) == Key(call[c].x, call[c].cfg)
Shared(c) == call[c].x \in CertCreds

Init ==
    /\ clock = 0
    /\ version = 1
    /\ stored \in [Creds -> Configs]
    /\ cache = [k \in Keys |-> NoOne]
    /\ inflight = [k \in Keys |-> NoOne]
    /\ call \in [Calls -> {Idle(x) : x \in Creds}]
    /\ admin = [a \in Admins |-> NoHandler]
    /\ mints = [k \in Keys |-> 0]
    /\ floor = [k \in Keys |-> 0]
    /\ straddlers = {}

-----------------------------------------------------------------------------
(* A call resolves its API's credential. *)

\* resolve returns; the locals nobody reads again are forgotten.
Returns(k, tok, err) == [k EXCEPT !.pc = "done", !.tok = tok, !.err = err,
                                  !.leader = NoOne]

\* resolve reads the credential; one that is gone fails the call.
ReadCredential(c) ==
    LET k == call[c] IN
    /\ k.pc = "idle"
    /\ call' = [call EXCEPT ![c] =
         IF stored[k.x] = NoOne THEN Returns(k, NoOne, "failed")
         ELSE [k EXCEPT !.pc = "resolving", !.cfg = stored[k.x]]]
    /\ UNCHANGED <<clock, version, stored, cache, inflight, admin, history>>

Hit(c) ==
    /\ call[c].pc = "resolving"
    /\ Fresh(KeyOf(c))
    /\ call' = [call EXCEPT ![c] = Returns(@, cache[KeyOf(c)], "none")]
    /\ UNCHANGED <<clock, version, stored, cache, inflight, admin, history>>

\* A mint of this key is under way: wait for it.
Join(c) ==
    LET k == KeyOf(c) IN
    /\ call[c].pc = "resolving" /\ Shared(c)
    /\ ~Fresh(k) /\ inflight[k] # NoOne
    /\ call' = [call EXCEPT ![c].pc = "waiting", ![c].leader = inflight[k]]
    /\ UNCHANGED <<clock, version, stored, cache, inflight, admin, history>>

\* The call mints: as the leader of a flight, or, with a client secret, for
\* itself alone.
Lead(c) ==
    LET k == KeyOf(c) IN
    /\ call[c].pc = "resolving"
    /\ ~Fresh(k)
    /\ Shared(c) => inflight[k] = NoOne
    /\ inflight' = IF Shared(c) THEN [inflight EXCEPT ![k] = c] ELSE inflight
    /\ call' = [call EXCEPT ![c].pc = "minting"]
    /\ mints' = [mints EXCEPT ![k] = @ + 1]
    /\ UNCHANGED <<clock, version, stored, cache, admin, floor, straddlers>>

\* loadAssertionIdentity reads the key pair, resolve the client secret.
ReadKey(c) ==
    /\ call[c].pc = "minting"
    /\ call' = [call EXCEPT ![c].pc = "posting", ![c].version = version]
    /\ UNCHANGED <<clock, version, stored, cache, inflight, admin, history>>

\* Mutant: five minutes are taken off a shorter lifetime too.
MintEarly(c) ==
    LET k == call[c] IN
    /\ k.pc = "posting"
    /\ \E d \in Delays :
         call' = [call EXCEPT ![c].pc = "minted", ![c].version = 0, ![c].tok =
           [cfg |-> k.cfg, version |-> k.version, by |-> c, until |-> clock + d - 2]]
    /\ UNCHANGED <<clock, version, stored, cache, inflight, admin, history>>

\* The token endpoint answered.
Mint(c) ==
    LET k == call[c] IN
    /\ k.pc = "posting"
    /\ \E d \in Delays :
         call' = [call EXCEPT ![c].pc = "minted", ![c].version = 0, ![c].tok =
           [cfg |-> k.cfg, version |-> k.version, by |-> c, until |-> clock + d]]
    /\ UNCHANGED <<clock, version, stored, cache, inflight, admin, history>>

\* Mutant: the mint of a flight runs under its leader's context.
FailLeaderCancelled(c) ==
    /\ call[c].pc \in {"minting", "posting"}
    /\ \E err \in {"failed"} \cup (IF call[c].cancelled THEN {"cancelled"} ELSE {}) :
         call' = [call EXCEPT ![c].pc = "minted", ![c].version = 0, ![c].err = err]
    /\ UNCHANGED <<clock, version, stored, cache, inflight, admin, history>>

\* The key does not load, the endpoint refuses or is not reached in 30 seconds.
\* Only the mint a call makes for itself ends when its caller goes away.
Fail(c) ==
    /\ call[c].pc \in {"minting", "posting"}
    /\ \E err \in {"failed"} \cup
                  (IF call[c].cancelled /\ ~Shared(c) THEN {"cancelled"} ELSE {}) :
         call' = [call EXCEPT ![c].pc = "minted", ![c].version = 0, ![c].err = err]
    /\ UNCHANGED <<clock, version, stored, cache, inflight, admin, history>>

\* The cache once the mint of c is over.
Cached(c) == IF call[c].tok = NoOne THEN cache
             ELSE [cache EXCEPT ![KeyOf(c)] = call[c].tok]

\* Mutant: the flight ends and its token is not cached.
KeepUncached(c) ==
    LET k == KeyOf(c) IN
    /\ call[c].pc = "minted"
    /\ UNCHANGED cache
    /\ inflight' = IF Shared(c) THEN [inflight EXCEPT ![k] = NoOne] ELSE inflight
    /\ mints' = [mints EXCEPT ![k] =
         IF call[c].tok # NoOne /\ clock < call[c].tok.until THEN @ ELSE 0]
    /\ call' = [call EXCEPT ![c].pc = IF Shared(c) THEN "closing" ELSE "done"]
    /\ UNCHANGED <<clock, version, stored, admin, floor, straddlers>>

\* One critical section: the token is cached and the flight is over.
Keep(c) ==
    LET k == KeyOf(c) IN
    /\ call[c].pc = "minted"
    /\ cache' = Cached(c)
    /\ inflight' = IF Shared(c) THEN [inflight EXCEPT ![k] = NoOne] ELSE inflight
    /\ mints' = [mints EXCEPT ![k] =
         IF call[c].tok # NoOne /\ clock < call[c].tok.until THEN @ ELSE 0]
    /\ call' = [call EXCEPT ![c].pc = IF Shared(c) THEN "closing" ELSE "done"]
    /\ UNCHANGED <<clock, version, stored, admin, floor, straddlers>>

\* Mutant: the flight of a failed mint is not closed.
CloseOnSuccess(c) ==
    /\ call[c].pc = "closing" /\ call[c].err = "none"
    /\ call' = [call EXCEPT ![c].pc = "done"]
    /\ UNCHANGED <<clock, version, stored, cache, inflight, admin, history>>

\* The result is published and the flight's channel closed.
CloseFlight(c) ==
    /\ call[c].pc = "closing"
    /\ call' = [call EXCEPT ![c].pc = "done"]
    /\ UNCHANGED <<clock, version, stored, cache, inflight, admin, history>>

\* A waiter returns what its flight came to ...
Wake(c) ==
    LET f == call[c].leader IN
    /\ call[c].pc = "waiting"
    /\ call[f].pc = "done"
    /\ call' = [call EXCEPT ![c] = Returns(@, call[f].tok, call[f].err)]
    /\ UNCHANGED <<clock, version, stored, cache, inflight, admin, history>>

\* ... or that its own caller went away.
GiveUp(c) ==
    /\ call[c].pc = "waiting" /\ call[c].cancelled
    /\ call' = [call EXCEPT ![c] = Returns(@, NoOne, "cancelled")]
    /\ UNCHANGED <<clock, version, stored, cache, inflight, admin, history>>

\* The caller closes its connection while the call has something to wait for: the
\* request's context is done.
Disconnect(c) ==
    /\ c \in Impatient
    /\ call[c].pc \in {"minting", "posting", "waiting"} /\ ~call[c].cancelled
    /\ call' = [call EXCEPT ![c].cancelled = TRUE]
    /\ UNCHANGED <<clock, version, stored, cache, inflight, admin, history>>

-----------------------------------------------------------------------------
(* The management handlers. *)

\* createCredential finds the id free (409 otherwise); rotateCredential and
\* deleteCredential read the credential (404 otherwise).
Begin(a, op, x) ==
    /\ admin[a].pc = "idle"
    /\ op \in Ops
    /\ (op = "create") = (stored[x] = NoOne)
    /\ \E cfg \in IF op = "create" THEN Configs ELSE {stored[x]} :
         admin' = [admin EXCEPT ![a] =
                    [pc |-> "read", op |-> op, x |-> x, cfg |-> cfg]]
    /\ UNCHANGED <<clock, version, stored, cache, inflight, call, history>>

\* store.put of the handler's copy, or store.remove, which answers 404 when the
\* credential has gone since.
Write(a) ==
    LET h == admin[a]
        missing == h.op = "delete" /\ stored[h.x] = NoOne
    IN
    /\ h.pc = "read"
    /\ stored' = [stored EXCEPT ![h.x] = IF h.op = "delete" THEN NoOne ELSE h.cfg]
    /\ admin' = [admin EXCEPT ![a] =
         IF h.op = "create" \/ missing THEN NoHandler ELSE [h EXCEPT !.pc = "written"]]
    /\ UNCHANGED <<clock, version, cache, inflight, call, history>>

\* Mutant: only the key that names the credential is dropped.
ForgottenById(x, cfg) == {<<"id", x>>}

\* The keys CredentialResolver.Forget deletes.
Forgotten(x, cfg) == {<<"id", x>>, Key(x, cfg)}

Forget(a) ==
    LET h == admin[a]
        gone == {<<"id", h.x>>, Key(h.x, h.cfg)}
    IN
    /\ h.pc = "written"
    /\ cache' = [k \in Keys |-> IF k \in Forgotten(h.x, h.cfg) THEN NoOne ELSE cache[k]]
    /\ admin' = [admin EXCEPT ![a] = NoHandler]
    /\ mints' = [k \in Keys |-> IF k \in gone THEN 0 ELSE mints[k]]
    /\ floor' = [k \in Keys |-> IF k \in gone THEN version ELSE floor[k]]
    /\ straddlers' = straddlers \cup
         {c \in Calls : call[c].pc \in {"posting", "minted"} /\ KeyOf(c) \in gone}
    /\ UNCHANGED <<clock, version, stored, inflight, call>>

-----------------------------------------------------------------------------
(* The environment. *)

\* The key pair, or the client secret, is replaced.
Replace ==
    /\ version < MaxVersion
    /\ version' = version + 1
    /\ UNCHANGED <<clock, stored, cache, inflight, call, admin, history>>

\* Time passes; the keys whose token falls due need a mint again.
Tick ==
    /\ clock < MaxTime
    /\ clock' = clock + 1
    /\ mints' = [k \in Keys |-> IF Fresh(k) /\ clock + 1 >= cache[k].until
                                THEN 0 ELSE mints[k]]
    /\ UNCHANGED <<version, stored, cache, inflight, call, admin, floor, straddlers>>

Resolve(c) == \/ Hit(c) \/ Join(c) \/ Lead(c) \/ ReadKey(c) \/ Mint(c) \/ Fail(c)
              \/ Keep(c) \/ CloseFlight(c) \/ Wake(c) \/ GiveUp(c)

Next == \/ \E c \in Calls : ReadCredential(c) \/ Resolve(c) \/ Disconnect(c)
        \/ \E a \in Admins : \/ \E op \in Handled, x \in Creds : Begin(a, op, x)
                             \/ Write(a) \/ Forget(a)
        \/ Replace
        \/ Tick

Spec == Init /\ [][Next]_vars

\* A call runs on: the token endpoint is given 30 seconds, with the caller there
\* or gone, and a waiter is woken when its flight is closed.
FairSpec == Spec /\ \A c \in Calls : WF_vars(Resolve(c))

-----------------------------------------------------------------------------
(* Properties. *)

\* Every variable keeps its type.
TypeOK ==
    /\ clock \in 0..MaxTime
    /\ version \in Versions
    /\ stored \in [Creds -> Configs \cup {NoOne}]
    /\ cache \in [Keys -> Tokens \cup {NoOne}]
    /\ inflight \in [Keys -> Calls \cup {NoOne}]
    /\ call \in [Calls -> CallState]
    /\ admin \in [Admins -> Handlers]
    /\ mints \in [Keys -> Nat]
    /\ floor \in [Keys -> {0} \cup Versions]
    /\ straddlers \in SUBSET Calls

\* ADR 0006: "A single-flight mint means a cold burst makes one token request".
\* Until its token is refused, falls due or is forgotten, a certificate's key is
\* minted once, however many calls miss the cache together.
OneMintPerBurst == \A k \in CertKeys : mints[k] <= 1

\* "Its cancellation must not fail the callers sharing this flight": a call fails
\* for a cancellation only when its own caller went away.
OnlyOwnCancellation ==
    \A c \in Calls : call[c].pc = "done" /\ call[c].err = "cancelled"
                        => call[c].cancelled

\* The call's token, from the cache, a flight or its own mint, is one of the tenant,
\* client and scope that its credential said when it was read.
AsConfigured(c) == call[c].pc = "done" /\ call[c].tok # NoOne
                        => call[c].tok.cfg = call[c].cfg

\* Every call through an entra-cert credential is served as configured, however
\* credentials are deleted and created anew meanwhile: certCacheKey holds all that
\* the token depends on.
CertServedAsConfigured == \A c \in Calls : Shared(c) => AsConfigured(c)

\* "Forget drops a cached token (after rotation or delete)": so is every call
\* through an entra credential, whose token is cached under an id that another
\* configuration can take over.
ServedAsConfigured == \A c \in Calls : AsConfigured(c)

\* After rotate or delete the cache holds no token obtained before, save one whose
\* mint had read the old key, or secret, when Forget ran.
ForgottenForGood ==
    \A k \in Keys : cache[k] # NoOne =>
        cache[k].version >= floor[k] \/ cache[k].by \in straddlers

\* No call that waits on a flight waits for ever, whatever becomes of the mint and
\* of the caller that leads it.
WaitersReturn == \A c \in Calls : call[c].pc = "waiting" ~> call[c].pc = "done"

=============================================================================
