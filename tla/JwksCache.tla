------------------------------ MODULE JwksCache ------------------------------
(***************************************************************************)
(* The signing keys of entraJWTVerifier (gw_entrajwt.go), which accepts    *)
(* Entra access tokens on /apis/.  A token names its key by kid.  The keys *)
(* the tenant publishes are fetched when they are first needed, when they  *)
(* are old, and when a token names one that is not known; fetchMu lets one *)
(* caller fetch at a time, and triedAt keeps two fetches apart.            *)
(*                                                                         *)
(* A critical section of v.mu is one step at one reading of the clock; the *)
(* fetch itself runs outside v.mu, under fetchMu and under the context of  *)
(* the caller that makes it, while other callers wait for fetchMu.         *)
(***************************************************************************)
EXTENDS Integers

CONSTANTS
    Calls,       \* callers of Verify
    Kids,        \* names of keys, each published at most once
    Tokens,      \* the tokens presented
    MinRefresh,  \* jwksMinRefresh
    MaxAge,      \* jwksMaxAge
    MaxFetch,    \* two requests with the client's timeout
    MaxTime,     \* bound: the clock stops here
    NoCall       \* fetchMu is free

\* What Verify looks at before it asks for the key (three parts, RS256, a kid),
\* the kid, and whether signature and claims will turn out to hold.
TokenShape == [jws : BOOLEAN, kid : Kids, holds : BOOLEAN]

ASSUME JwksAssumption ==
    /\ Tokens \subseteq TokenShape /\ Tokens # {}
    /\ \A tok \in Tokens : tok.holds => tok.jws
    /\ MinRefresh \in Nat \ {0} /\ MaxAge \in Nat /\ MinRefresh <= MaxAge
    /\ MaxFetch \in Nat
    /\ MaxTime \in Nat
    /\ NoCall \notin Calls

VARIABLES
    clock,      \* v.now()
    tenant,     \* kid -> where it is in its life, as the authority sees it
    since,      \* kid -> when that began
    keys,       \* the kids of v.keys
    fetchedAt,  \* v.fetchedAt
    triedAt,    \* v.triedAt
    fetchMu,    \* the caller holding it
    call,       \* caller -> the locals of Verify and key
    began,      \* history: when the last fetch began
    lastTry     \* history: how the last fetch to end has ended

vars == <<clock, tenant, since, keys, fetchedAt, triedAt, fetchMu, call,
          began, lastTry>>

Published == {k \in Kids : tenant[k] = "published"}

\* The zero time.Time, which no clock is within MinRefresh or MaxAge of.
Zero == -1 - MinRefresh - MaxAge
Times == 0..MaxTime

\* got is what the fetch has read, nothing at first.  known and due are history:
\* when it came, the kid was in v.keys, and had been published for MinRefresh.
CallState == [pc : {"idle", "waiting", "fetching", "done"}, tok : Tokens,
              got : SUBSET Kids, verdict : BOOLEAN,
              known : BOOLEAN,
              due : BOOLEAN]

Locals(pc, tok, verdict, known, due) ==
    [pc |-> pc, tok |-> tok, got |-> {}, verdict |-> verdict, known |-> known,
     due |-> due]

Idle == Locals("idle", CHOOSE tok \in Tokens : TRUE, FALSE, FALSE, FALSE)

Due(k) == k \in Published /\ since[k] + MinRefresh <= clock

Init ==
    /\ clock = 0
    /\ tenant \in [Kids -> {"unborn", "published"}]
    /\ since = [k \in Kids |-> 0]
    /\ keys = {}
    /\ fetchedAt = Zero
    /\ triedAt = Zero
    /\ fetchMu = NoCall
    /\ call = [c \in Calls |-> Idle]
    /\ began = Zero
    /\ lastTry = "none"

-----------------------------------------------------------------------------
(* Verify and key. *)

\* Mutant: keys never get old.
FreshForEver == fetchedAt # Zero

Fresh == fetchedAt # Zero /\ clock - fetchedAt <= MaxAge

\* Mutant: the thirty seconds include their end.
ThrottledLonger == clock - triedAt <= MinRefresh

Throttled == clock - triedAt < MinRefresh

\* key returns, with the key if found; signature and claims are checked with it.
Ends(k, found) == Locals("done", k.tok, found /\ k.tok.holds, FALSE, FALSE)

\* A token presented: what is no JWS is refused unseen, and a key that is known
\* and fresh is used without fetchMu.
Arrive(c, tok) ==
    LET begun == Locals("waiting", tok, FALSE, tok.kid \in keys, Due(tok.kid)) IN
    /\ call[c].pc = "idle"
    /\ call' = [call EXCEPT ![c] =
                  IF ~tok.jws THEN Ends(begun, FALSE)
                  ELSE IF tok.kid \in keys /\ Fresh THEN Ends(begun, TRUE)
                  ELSE begun]
    /\ UNCHANGED <<clock, tenant, since, keys, fetchedAt, triedAt, fetchMu,
                   began, lastTry>>

\* fetchMu is the caller's, and on a second look the key is there, and fresh or
\* not to be fetched again yet; or it is not there and must wait.
Settle(c) ==
    /\ call[c].pc = "waiting" /\ fetchMu = NoCall
    /\ \/ call[c].tok.kid \in keys /\ Fresh
       \/ Throttled
    /\ call' = [call EXCEPT ![c] = Ends(@, @.tok.kid \in keys)]
    /\ UNCHANGED <<clock, tenant, since, keys, fetchedAt, triedAt, fetchMu,
                   began, lastTry>>

\* Mutant: a try is not noted.
TriedUnnoted == triedAt

\* triedAt is set before the fetch, so that a failure is not tried again at once.
Tried == clock

\* Otherwise it began, holding fetchMu.
StartFetch(c) ==
    /\ call[c].pc = "waiting" /\ fetchMu = NoCall
    /\ ~(call[c].tok.kid \in keys /\ Fresh) /\ ~Throttled
    /\ triedAt' = Tried
    /\ fetchMu' = c
    /\ began' = clock
    /\ call' = [call EXCEPT ![c].pc = "fetching"]
    /\ UNCHANGED <<clock, tenant, since, keys, fetchedAt, lastTry>>

\* The authority answers with the keys it publishes; none at all is an error.
ReadKeys(c) ==
    /\ call[c].pc = "fetching" /\ call[c].got = {}
    /\ Published # {}
    /\ call' = [call EXCEPT ![c].got = Published]
    /\ UNCHANGED <<clock, tenant, since, keys, fetchedAt, triedAt, fetchMu,
                   began, lastTry>>

\* The answer is whole: its keys replace those known, and fetchMu is released.
StoreKeys(c) ==
    LET got == call[c].got IN
    /\ call[c].pc = "fetching" /\ got # {}
    /\ keys' = got
    /\ fetchedAt' = clock
    /\ lastTry' = "stored"
    /\ fetchMu' = NoCall
    /\ call' = [call EXCEPT ![c] = Ends(@, @.tok.kid \in got)]
    /\ UNCHANGED <<clock, tenant, since, triedAt, began>>

\* Mutant: v.keys is assigned before err is looked at.
KeptLost(c) == IF call[c].got = {} THEN {} ELSE call[c].got

\* What a failed fetch leaves of the known keys: all of them.
Kept(c) == keys

\* Mutant: the failure's return forgets the lock.
FailKeepingLock(c) ==
    /\ call[c].pc = "fetching"
    /\ lastTry' = "failed"
    /\ call' = [call EXCEPT ![c] = Ends(@, @.tok.kid \in keys)]
    /\ UNCHANGED <<clock, tenant, since, keys, fetchedAt, triedAt, fetchMu, began>>

\* The fetch fails: no network, a status, a bad document, a timeout, or its own
\* caller has gone and with it the context of the request.
FailFetch(c) ==
    /\ call[c].pc = "fetching"
    /\ lastTry' = "failed"
    /\ fetchMu' = NoCall
    /\ keys' = Kept(c)
    /\ call' = [call EXCEPT ![c] = Ends(@, @.tok.kid \in keys')]
    /\ UNCHANGED <<clock, tenant, since, fetchedAt, triedAt, began>>

\* Verify has returned, and the caller may come again.
Leave(c) ==
    /\ call[c].pc = "done"
    /\ call' = [call EXCEPT ![c] = Idle]
    /\ UNCHANGED <<clock, tenant, since, keys, fetchedAt, triedAt, fetchMu,
                   began, lastTry>>

-----------------------------------------------------------------------------
(* Around it: the tenant rolls its keys, and time passes. *)

Roll(k) ==
    /\ tenant' = [tenant EXCEPT ![k] =
                    IF @ = "unborn" THEN "published" ELSE "withdrawn"]
    /\ tenant[k] # "withdrawn"
    /\ since' = [since EXCEPT ![k] = clock]
    /\ UNCHANGED <<clock, keys, fetchedAt, triedAt, fetchMu, call, began, lastTry>>

\* A fetch that lasts as long as it can ends before time goes on.
Tick ==
    /\ clock < MaxTime
    /\ fetchMu # NoCall => clock < triedAt + MaxFetch
    /\ clock' = clock + 1
    /\ UNCHANGED <<tenant, since, keys, fetchedAt, triedAt, fetchMu, call,
                   began, lastTry>>

FetchSteps(c) == ReadKeys(c) \/ StoreKeys(c) \/ FailFetch(c)
Enter(c) == Settle(c) \/ StartFetch(c)

Next ==
    \/ \E c \in Calls :
         \/ \E tok \in Tokens : Arrive(c, tok)
         \/ Enter(c) \/ FetchSteps(c) \/ Leave(c)
    \/ \E k \in Kids : Roll(k)
    \/ Tick

Spec == Init /\ [][Next]_vars

\* A fetch has a timeout, and Go runs every goroutine that can run.
FairSpec == Spec /\ WF_vars(\E c \in Calls : FetchSteps(c))

-----------------------------------------------------------------------------
(* Properties. *)

\* Every variable has the type the code gives it, and keys were fetched exactly if
\* there are some, since an answer without any is an error.
TypeOK ==
    /\ clock \in Times
    /\ tenant \in [Kids -> {"unborn", "published", "withdrawn"}]
    /\ since \in [Kids -> Times]
    /\ keys \subseteq Kids
    /\ (keys = {}) = (fetchedAt = Zero)
    /\ fetchedAt \in {Zero} \cup Times
    /\ triedAt \in {Zero} \cup Times
    /\ fetchMu \in Calls \cup {NoCall}
    /\ call \in [Calls -> CallState]
    /\ began \in {Zero} \cup Times
    /\ lastTry \in {"none", "stored", "failed"}

\* Two fetches begin at least jwksMinRefresh apart, whatever tokens are presented
\* and however the fetches end (gw_entrajwt.go:55 and :186).
NoFlood ==
    [][\A c \in Calls :
         call[c].pc # "fetching" /\ call'[c].pc = "fetching"
           => clock - began >= MinRefresh]_vars

Answered(c) == call[c].pc # "done" /\ call'[c].pc = "done"
Accepted(c) == Answered(c) /\ call'[c].verdict

\* A token with which nothing is wrong is refused: for the lack of its key.
Refused(c) == Answered(c) /\ ~call'[c].verdict /\ call'[c].tok.holds

\* A caller whose key was known when it came, and is still published, is not
\* refused for the lack of it: not by a refresh that fails, nor by one that began
\* before the key was known and ends after (gw_entrajwt.go:182).
KnownKeyAccepted ==
    [][\A c \in Calls :
         Refused(c) /\ call[c].known => call'[c].tok.kid \notin Published]_vars

\* A key that has been published for jwksMinRefresh when a caller comes with it is
\* refused only when the last fetch failed: a rotation is noticed, and nobody is
\* turned away for a throttle that a good fetch began.  A caller that hung up during
\* its fetch counts as a failure (gw_entrajwt.go:204), and what it does to the others
\* until the next one is left open here.
NewKeySoon ==
    [][\A c \in Calls :
         Refused(c) /\ call[c].due /\ call'[c].tok.kid \in Published
           => lastTry' = "failed"]_vars

\* A key that the tenant has withdrawn for longer than jwksMaxAge and the time of
\* a fetch is accepted only when the last fetch failed.
StaleOnlyAfterFailure ==
    [][\A c \in Calls :
         LET kid == call'[c].tok.kid IN
         Accepted(c) =>
           \/ kid \in Published
           \/ tenant[kid] = "withdrawn" /\ clock <= since[kid] + MaxAge + MaxFetch
           \/ lastTry' = "failed"]_vars

\* Callers that wait for fetchMu, whose own context cannot call them away, wait
\* for a fetch that ends: every way out of it releases fetchMu (gw_entrajwt.go:199).
FetchMuReleased == []<>(fetchMu = NoCall)
=============================================================================
