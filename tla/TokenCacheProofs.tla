-------------------------- MODULE TokenCacheProofs --------------------------
(***************************************************************************)
(* Theorems about TokenCache, for any calls, credentials, configurations,  *)
(* management requests and delays.                                         *)
(***************************************************************************)
EXTENDS TokenCache, TLAPS

Leads == {"minting", "posting", "minted"}
Led == Leads \cup {"closing", "done"}

\* What a call has by the stage it has reached: no result before its mint, a
\* configuration once it has read its credential, the token of that configuration
\* after its mint, and a cancellation only if its caller went away, never that of
\* the mint of a flight.
Staged(k) ==
    /\ k.pc \in {"idle", "resolving", "minting", "posting", "waiting"} =>
         k.err = "none" /\ k.tok = NoOne
    /\ k.pc \notin {"idle", "done"} => k.cfg \in Configs
    /\ k.pc \in {"minted", "closing"} /\ k.tok # NoOne => k.tok.cfg = k.cfg
    /\ k.pc \in {"waiting", "closing"} => k.x \in CertCreds
    /\ k.err = "cancelled" => k.cancelled
    /\ k.pc \in {"minted", "closing"} /\ k.x \in CertCreds => k.err # "cancelled"
    /\ k.pc = "done" /\ k.tok # NoOne /\ k.x \in CertCreds => k.tok.cfg = k.cfg

\* The record of a call that leads a flight of this key, or led it.
Leader(h, key) ==
    /\ h.pc \in Led /\ h.x \in CertCreds /\ h.cfg \in Configs
    /\ Key(h.x, h.cfg) = key
    /\ h.err # "cancelled"
    /\ h.tok # NoOne => h.tok.cfg = h.cfg

\* A token of this key, obtained by this call with this version, is not older than
\* the last Forget of the key, unless the call had begun to mint it by then.
NotForgotten(key, v, c) == v >= floor[key] \/ c \in straddlers

Obtains(c, k) ==
    LET key == Key(k.x, k.cfg) IN
    /\ k.pc = "posting" => k.version \in Versions /\ NotForgotten(key, k.version, c)
    /\ k.pc = "minted" /\ k.tok # NoOne => NotForgotten(key, k.tok.version, c) /\ k.tok.by = c

CallInv ==
    \A c \in Calls :
        /\ Staged(call[c])
        /\ Obtains(c, call[c])
        /\ call[c].pc = "waiting" =>
             call[c].leader \in Calls /\ Leader(call[call[c].leader], KeyOf(c))

\* Who leads a flight is minting for its key.
FlightInv ==
    \A key \in Keys : inflight[key] # NoOne =>
        call[inflight[key]].pc \in Leads /\ Leader(call[inflight[key]], key)

\* A certificate's key has been minted for only if a token is fresh or on its way.
BurstInv ==
    \A key \in CertKeys :
        mints[key] = 0 \/ (mints[key] = 1 /\ (Fresh(key) \/ inflight[key] # NoOne))

\* A certificate's key names the configuration of its token.
CacheInv == \A key \in CertKeys : cache[key] # NoOne => cache[key].cfg = key[2]

FloorInv == \A key \in Keys : floor[key] <= version

CacheTokensInv ==
    /\ TypeOK
    /\ CallInv /\ FlightInv
    /\ BurstInv /\ CacheInv
    /\ FloorInv /\ ForgottenForGood

-----------------------------------------------------------------------------
LEMMA CallType ==
    ASSUME TypeOK, NEW c \in Calls
    PROVE  /\ call[c] \in CallState
           /\ call[c].x \in Creds /\ call[c].cfg \in Configs \cup {NoOne}
           /\ call[c].leader \in Calls \cup {NoOne}
           /\ call[c].version \in {0} \cup Versions
           /\ call[c].tok \in Tokens \cup {NoOne}
           /\ call[c].cancelled \in BOOLEAN
           /\ call[c].err \in {"none", "failed", "cancelled"}
BY DEF TypeOK, CallState

\* A certificate's key is its configuration's, and nobody else's.
LEMMA KeyIs ==
    ASSUME NEW x \in Creds, NEW cfg \in Configs
    PROVE  /\ Key(x, cfg) \in Keys
           /\ x \in CertCreds => Key(x, cfg) = <<"entra-cert", cfg>> /\ Key(x, cfg) \in CertKeys
           /\ x \notin CertCreds => Key(x, cfg) \notin CertKeys
<1>1. ASSUME x \in CertCreds
      PROVE  Key(x, cfg) = <<"entra-cert", cfg>> /\ Key(x, cfg) \in CertKeys
  BY <1>1 DEF Key, CertKeys
<1>2. ASSUME x \notin CertCreds
      PROVE  Key(x, cfg) = <<"id", x>> /\ Key(x, cfg) \in {"id"} \X Creds
  BY <1>2 DEF Key
<1>3. \A key \in {"id"} \X Creds : key \notin CertKeys
  BY DEF CertKeys
<1> QED
  BY <1>1, <1>2, <1>3 DEF Keys

\* A step that changes the locals of one call only, and leaves it leading if it led.
LEMMA CallStep ==
    ASSUME CacheTokensInv, NEW c \in Calls, NEW k \in CallState,
           call' = [call EXCEPT ![c] = k],
           UNCHANGED <<clock, version, stored, cache, inflight, admin, history>>,
           Staged(k), Obtains(c, k),
           call[c].pc \in Leads => k.pc \in Leads,
           \A key : Leader(call[c], key) => Leader(k, key),
           k.pc = "waiting" =>
             k.leader \in Calls /\ Leader(call[k.leader], Key(k.x, k.cfg))
    PROVE  CacheTokensInv'
<1>1. /\ call' \in [Calls -> CallState] /\ call'[c] = k
      /\ \A d \in Calls : d # c => call'[d] = call[d]
  BY DEF CacheTokensInv, TypeOK
<1>2. TypeOK'
  BY <1>1 DEF CacheTokensInv, TypeOK, history
<1>3. \A f \in Calls : \A key : Leader(call[f], key) => Leader(call'[f], key)
  BY <1>1
<1>4. ASSUME NEW d \in Calls
      PROVE  /\ Staged(call'[d]) /\ Obtains(d, call'[d])
             /\ call'[d].pc = "waiting" =>
                  /\ call'[d].leader \in Calls
                  /\ Leader(call'[call'[d].leader], Key(call'[d].x, call'[d].cfg))
  <2>1. CASE d = c
    BY <1>1, <1>3, <2>1
  <2>2. CASE d # c
    BY <1>1, <1>3, <2>2 DEF CacheTokensInv, CallInv, KeyOf
  <2> QED
    BY <2>1, <2>2
<1>5. CallInv'
  <2>1. UNCHANGED <<floor, straddlers>>
    BY DEF history
  <2> QED
    BY <1>4, <2>1 DEF CallInv, Obtains, NotForgotten, KeyOf, Staged, Leader
<1>6. FlightInv'
  <2> SUFFICES ASSUME NEW key \in Keys, inflight[key] # NoOne
               PROVE  call'[inflight[key]].pc \in Leads /\ Leader(call'[inflight[key]], key)
    BY DEF FlightInv, Leader
  <2>1. /\ inflight[key] \in Calls
        /\ call[inflight[key]].pc \in Leads /\ Leader(call[inflight[key]], key)
    BY DEF CacheTokensInv, TypeOK, FlightInv
  <2> QED
    BY <1>1, <1>3, <2>1
<1>7. BurstInv' /\ CacheInv' /\ FloorInv' /\ ForgottenForGood'
  BY DEF CacheTokensInv, BurstInv, CacheInv, FloorInv, ForgottenForGood, Fresh, history
<1> QED
  BY <1>2, <1>5, <1>6, <1>7 DEF CacheTokensInv

-----------------------------------------------------------------------------
(* The steps of a call. *)

LEMMA ReturnsType ==
    ASSUME NEW k \in CallState, NEW tok \in Tokens \cup {NoOne},
           NEW err \in {"none", "failed", "cancelled"}
    PROVE  /\ Returns(k, tok, err) \in CallState
           /\ Returns(k, tok, err).pc = "done" /\ Returns(k, tok, err).x = k.x
           /\ Returns(k, tok, err).cfg = k.cfg /\ Returns(k, tok, err).cancelled = k.cancelled
           /\ Returns(k, tok, err).tok = tok /\ Returns(k, tok, err).err = err
BY DEF Returns, CallState

\* resolve returns without having led.
LEMMA ReturnStep ==
    ASSUME CacheTokensInv, NEW c \in Calls, call[c].pc \in {"idle", "resolving", "waiting"},
           NEW tok \in Tokens \cup {NoOne}, NEW err \in {"none", "failed", "cancelled"},
           call' = [call EXCEPT ![c] = Returns(call[c], tok, err)],
           UNCHANGED <<clock, version, stored, cache, inflight, admin, history>>,
           err = "cancelled" => call[c].cancelled,
           tok # NoOne /\ call[c].x \in CertCreds => tok.cfg = call[c].cfg
    PROVE  CacheTokensInv'
<1> DEFINE k == Returns(call[c], tok, err)
<1>1. /\ k \in CallState /\ k.pc = "done" /\ k.x = call[c].x /\ k.cfg = call[c].cfg
      /\ k.cancelled = call[c].cancelled /\ k.tok = tok /\ k.err = err
  BY CallType, ReturnsType DEF CacheTokensInv
<1> HIDE DEF k
<1>2. Staged(k) /\ Obtains(c, k)
  BY <1>1 DEF Staged, Obtains
<1>3. call[c].pc \notin Leads /\ \A key : ~Leader(call[c], key)
  BY DEF Leads, Led, Leader
<1>4. call' = [call EXCEPT ![c] = k]
  BY DEF k
<1> QED
  BY <1>1, <1>2, <1>3, <1>4, CallStep

LEMMA ReadCredentialInv ==
    ASSUME CacheTokensInv, NEW c \in Calls, ReadCredential(c)
    PROVE  CacheTokensInv'
<1>1. /\ call[c].pc = "idle"
      /\ UNCHANGED <<clock, version, stored, cache, inflight, admin, history>>
  BY DEF ReadCredential
<1>2. CASE stored[call[c].x] = NoOne
  BY <1>1, <1>2, ReturnStep DEF ReadCredential
<1>3. CASE stored[call[c].x] # NoOne
  <2> DEFINE k == [call[c] EXCEPT !.pc = "resolving", !.cfg = stored[call[c].x]]
  <2>1. stored[call[c].x] \in Configs
    BY <1>3, CallType DEF CacheTokensInv, TypeOK
  <2>2. /\ k \in CallState /\ k.pc = "resolving" /\ k.cfg \in Configs
        /\ k.err = call[c].err /\ k.tok = call[c].tok
    BY <2>1, CallType DEF CacheTokensInv, CallState
  <2>3. call' = [call EXCEPT ![c] = k]
    BY <1>3 DEF ReadCredential
  <2> HIDE DEF k
  <2>4. Staged(k) /\ Obtains(c, k)
    BY <1>1, <2>2 DEF Staged, Obtains, CacheTokensInv, CallInv
  <2>5. call[c].pc \notin Leads /\ \A key : ~Leader(call[c], key)
    BY <1>1 DEF Leads, Led, Leader
  <2> QED
    BY <1>1, <2>2, <2>3, <2>4, <2>5, CallStep
<1> QED
  BY <1>2, <1>3

LEMMA HitInv ==
    ASSUME CacheTokensInv, NEW c \in Calls, Hit(c)
    PROVE  CacheTokensInv'
<1>1. /\ call[c].pc = "resolving" /\ call[c].cfg \in Configs /\ call[c].x \in Creds
      /\ call' = [call EXCEPT ![c] = Returns(call[c], cache[KeyOf(c)], "none")]
      /\ UNCHANGED <<clock, version, stored, cache, inflight, admin, history>>
  BY CallType DEF Hit, CacheTokensInv, CallInv, Staged
<1>2. cache[KeyOf(c)] \in Tokens \cup {NoOne}
  BY <1>1, KeyIs DEF CacheTokensInv, TypeOK, KeyOf
<1>3. cache[KeyOf(c)] # NoOne /\ call[c].x \in CertCreds => cache[KeyOf(c)].cfg = call[c].cfg
  BY <1>1, KeyIs DEF CacheTokensInv, CacheInv, KeyOf
<1> QED
  BY <1>1, <1>2, <1>3, ReturnStep

LEMMA JoinInv ==
    ASSUME CacheTokensInv, NEW c \in Calls, Join(c)
    PROVE  CacheTokensInv'
<1> DEFINE f == inflight[KeyOf(c)]
           k == [call[c] EXCEPT !.pc = "waiting", !.leader = f]
<1>1. /\ call[c].pc = "resolving" /\ call[c].cfg \in Configs
      /\ call[c].x \in Creds /\ call[c].x \in CertCreds /\ f # NoOne
      /\ UNCHANGED <<clock, version, stored, cache, inflight, admin, history>>
      /\ Staged(call[c])
  BY CallType DEF Join, CacheTokensInv, CallInv, Staged, Shared
<1>2. f \in Calls /\ Leader(call[f], KeyOf(c))
  BY <1>1, KeyIs DEF CacheTokensInv, TypeOK, FlightInv, KeyOf
<1> HIDE DEF f
<1>3. /\ k \in CallState /\ k.pc = "waiting" /\ k.leader = f /\ k.x = call[c].x
      /\ k.cfg = call[c].cfg /\ k.err = call[c].err /\ k.tok = call[c].tok
  BY <1>2, CallType DEF CacheTokensInv, CallState
<1>4. call' = [call EXCEPT ![c] = k]
  <2>1. call' = [call EXCEPT ![c].pc = "waiting", ![c].leader = f]
    BY DEF Join, f
  <2> QED
    BY <2>1 DEF CacheTokensInv, TypeOK, CallState
<1> HIDE DEF k
<1>5. Staged(k) /\ Obtains(c, k)
  BY <1>1, <1>3 DEF Staged, Obtains
<1>6. call[c].pc \notin Leads /\ \A key : ~Leader(call[c], key)
  BY <1>1 DEF Leads, Led, Leader
<1>7. Key(k.x, k.cfg) = KeyOf(c)
  BY <1>3 DEF KeyOf
<1> QED
  BY <1>1, <1>2, <1>3, <1>4, <1>5, <1>6, <1>7, CallStep

LEMMA ReadKeyInv ==
    ASSUME CacheTokensInv, NEW c \in Calls, ReadKey(c)
    PROVE  CacheTokensInv'
<1> DEFINE k == [call[c] EXCEPT !.pc = "posting", !.version = version]
<1>1. /\ call[c].pc = "minting" /\ call[c].cfg \in Configs /\ call[c].x \in Creds
      /\ UNCHANGED <<clock, version, stored, cache, inflight, admin, history>>
      /\ Staged(call[c]) /\ version \in Versions
  BY CallType DEF ReadKey, CacheTokensInv, CallInv, Staged, TypeOK
<1>2. /\ k \in CallState /\ k.pc = "posting" /\ k.version = version /\ k.x = call[c].x
      /\ k.cfg = call[c].cfg /\ k.err = call[c].err /\ k.tok = call[c].tok
      /\ k.cancelled = call[c].cancelled
  BY <1>1, CallType DEF CacheTokensInv, CallState
<1>3. call' = [call EXCEPT ![c] = k]
  BY DEF ReadKey, CacheTokensInv, TypeOK, CallState
<1> HIDE DEF k
<1>4. floor[KeyOf(c)] <= version
  BY <1>1, KeyIs DEF CacheTokensInv, FloorInv, KeyOf
<1>5. floor[KeyOf(c)] \in Int /\ version \in Int
  BY <1>1, KeyIs, CacheAssumption DEF CacheTokensInv, TypeOK, KeyOf, Versions
<1>6. Staged(k) /\ Obtains(c, k)
  BY <1>1, <1>2, <1>4, <1>5 DEF Staged, Obtains, NotForgotten, KeyOf
<1>7. k.pc \in Leads /\ \A key : Leader(call[c], key) => Leader(k, key)
  BY <1>1, <1>2 DEF Leads, Led, Leader
<1> QED
  BY <1>1, <1>2, <1>3, <1>6, <1>7, CallStep

LEMMA MintInv ==
    ASSUME CacheTokensInv, NEW c \in Calls, Mint(c)
    PROVE  CacheTokensInv'
<1>1. PICK d \in Delays :
        call' = [call EXCEPT ![c].pc = "minted", ![c].version = 0, ![c].tok =
          [cfg |-> call[c].cfg, version |-> call[c].version, by |-> c, until |-> clock + d]]
  BY DEF Mint
<1> DEFINE tok == [cfg |-> call[c].cfg, version |-> call[c].version, by |-> c,
                   until |-> clock + d]
           k == [call[c] EXCEPT !.pc = "minted", !.version = 0, !.tok = tok]
<1>2. /\ call[c].pc = "posting" /\ call[c].cfg \in Configs /\ call[c].x \in Creds
      /\ UNCHANGED <<clock, version, stored, cache, inflight, admin, history>>
      /\ Staged(call[c]) /\ Obtains(c, call[c]) /\ call[c].version \in Versions
  BY CallType DEF Mint, CacheTokensInv, CallInv, Staged, Obtains
<1>3. clock + d \in Nat
  BY CacheAssumption DEF CacheTokensInv, TypeOK
<1>4. tok \in Tokens /\ tok.cfg = call[c].cfg /\ tok.version = call[c].version /\ tok.by = c
  BY <1>2, <1>3 DEF Tokens
<1> HIDE DEF tok
<1>5. /\ k \in CallState /\ k.pc = "minted" /\ k.tok = tok /\ k.x = call[c].x
      /\ k.cfg = call[c].cfg /\ k.err = call[c].err /\ k.cancelled = call[c].cancelled
  BY <1>4, CallType DEF CacheTokensInv, CallState
<1>6. call' = [call EXCEPT ![c] = k]
  <2>1. call' = [call EXCEPT ![c].pc = "minted", ![c].version = 0, ![c].tok = tok]
    BY <1>1 DEF tok
  <2> QED
    BY <2>1 DEF CacheTokensInv, TypeOK, CallState
<1> HIDE DEF k
<1>7. Staged(k) /\ Obtains(c, k)
  BY <1>2, <1>4, <1>5 DEF Staged, Obtains, NotForgotten
<1>8. k.pc \in Leads /\ \A key : Leader(call[c], key) => Leader(k, key)
  BY <1>2, <1>4, <1>5 DEF Leads, Led, Leader
<1> QED
  BY <1>2, <1>5, <1>6, <1>7, <1>8, CallStep

LEMMA FailInv ==
    ASSUME CacheTokensInv, NEW c \in Calls, Fail(c)
    PROVE  CacheTokensInv'
<1>1. PICK err \in {"failed", "cancelled"} :
        /\ err = "cancelled" => call[c].cancelled /\ call[c].x \notin CertCreds
        /\ call' = [call EXCEPT ![c].pc = "minted", ![c].version = 0, ![c].err = err]
  BY DEF Fail, Shared
<1> DEFINE k == [call[c] EXCEPT !.pc = "minted", !.version = 0, !.err = err]
<1>2. /\ call[c].pc \in {"minting", "posting"} /\ call[c].cfg \in Configs
      /\ call[c].tok = NoOne
      /\ UNCHANGED <<clock, version, stored, cache, inflight, admin, history>>
  BY DEF Fail, CacheTokensInv, CallInv, Staged
<1>3. /\ k \in CallState /\ k.pc = "minted" /\ k.tok = call[c].tok /\ k.x = call[c].x
      /\ k.cfg = call[c].cfg /\ k.err = err /\ k.cancelled = call[c].cancelled
  BY CallType DEF CacheTokensInv, CallState
<1>4. call' = [call EXCEPT ![c] = k]
  BY <1>1 DEF CacheTokensInv, TypeOK, CallState
<1> HIDE DEF k
<1>5. Staged(k) /\ Obtains(c, k)
  BY <1>1, <1>2, <1>3 DEF Staged, Obtains
<1>6. k.pc \in Leads /\ \A key : Leader(call[c], key) => Leader(k, key)
  BY <1>1, <1>2, <1>3 DEF Leads, Led, Leader
<1> QED
  BY <1>2, <1>3, <1>4, <1>5, <1>6, CallStep

LEMMA CloseFlightInv ==
    ASSUME CacheTokensInv, NEW c \in Calls, CloseFlight(c)
    PROVE  CacheTokensInv'
<1> DEFINE k == [call[c] EXCEPT !.pc = "done"]
<1>1. /\ call[c].pc = "closing" /\ Staged(call[c])
      /\ UNCHANGED <<clock, version, stored, cache, inflight, admin, history>>
  BY DEF CloseFlight, CacheTokensInv, CallInv
<1>2. /\ k \in CallState /\ k.pc = "done" /\ k.tok = call[c].tok /\ k.x = call[c].x
      /\ k.cfg = call[c].cfg /\ k.err = call[c].err /\ k.cancelled = call[c].cancelled
  BY CallType DEF CacheTokensInv, CallState
<1>3. call' = [call EXCEPT ![c] = k]
  BY DEF CloseFlight, CacheTokensInv, TypeOK, CallState
<1> HIDE DEF k
<1>4. Staged(k) /\ Obtains(c, k)
  BY <1>1, <1>2 DEF Staged, Obtains
<1>5. call[c].pc \notin Leads /\ \A key : Leader(call[c], key) => Leader(k, key)
  BY <1>1, <1>2 DEF Leads, Led, Leader
<1> QED
  BY <1>1, <1>2, <1>3, <1>4, <1>5, CallStep

LEMMA WakeInv ==
    ASSUME CacheTokensInv, NEW c \in Calls, Wake(c)
    PROVE  CacheTokensInv'
<1> DEFINE f == call[c].leader
<1>1. /\ call[c].pc = "waiting" /\ call[c].cfg \in Configs /\ call[c].x \in CertCreds
      /\ f \in Calls /\ Leader(call[f], KeyOf(c)) /\ call[c].x \in Creds
      /\ call' = [call EXCEPT ![c] = Returns(call[c], call[f].tok, call[f].err)]
      /\ UNCHANGED <<clock, version, stored, cache, inflight, admin, history>>
  BY CallType DEF Wake, CacheTokensInv, CallInv, Staged
<1>2. /\ call[f].tok \in Tokens \cup {NoOne} /\ call[f].x \in Creds
      /\ call[f].err \in {"none", "failed", "cancelled"}
  BY <1>1, CallType DEF CacheTokensInv
<1>3. call[f].err # "cancelled" /\ (call[f].tok # NoOne => call[f].tok.cfg = call[f].cfg)
  BY <1>1 DEF Leader
<1>4. call[f].cfg = call[c].cfg
  <2>1. /\ call[f].cfg \in Configs /\ call[f].x \in CertCreds
        /\ Key(call[f].x, call[f].cfg) = Key(call[c].x, call[c].cfg)
    BY <1>1 DEF Leader, KeyOf
  <2>2. <<"entra-cert", call[f].cfg>> = <<"entra-cert", call[c].cfg>>
    BY <1>1, <1>2, <2>1, KeyIs
  <2> QED
    BY <2>2
<1> HIDE DEF f
<1> QED
  BY <1>1, <1>2, <1>3, <1>4, ReturnStep

LEMMA GiveUpInv ==
    ASSUME CacheTokensInv, NEW c \in Calls, GiveUp(c)
    PROVE  CacheTokensInv'
BY ReturnStep DEF GiveUp

LEMMA DisconnectInv ==
    ASSUME CacheTokensInv, NEW c \in Calls, Disconnect(c)
    PROVE  CacheTokensInv'
<1> DEFINE k == [call[c] EXCEPT !.cancelled = TRUE]
<1>1. /\ Staged(call[c]) /\ Obtains(c, call[c])
      /\ call[c].pc = "waiting" =>
           call[c].leader \in Calls /\ Leader(call[call[c].leader], KeyOf(c))
      /\ UNCHANGED <<clock, version, stored, cache, inflight, admin, history>>
  BY DEF Disconnect, CacheTokensInv, CallInv
<1>2. /\ k \in CallState /\ k.pc = call[c].pc /\ k.tok = call[c].tok /\ k.x = call[c].x
      /\ k.cfg = call[c].cfg /\ k.err = call[c].err /\ k.cancelled
      /\ k.leader = call[c].leader /\ k.version = call[c].version
  BY CallType DEF CacheTokensInv, CallState
<1>3. call' = [call EXCEPT ![c] = k]
  BY DEF Disconnect, CacheTokensInv, TypeOK, CallState
<1> HIDE DEF k
<1>4. Staged(k) /\ Obtains(c, k)
  BY <1>1, <1>2 DEF Staged, Obtains
<1>5. \A key : Leader(call[c], key) => Leader(k, key)
  BY <1>2 DEF Leader
<1> QED
  BY <1>1, <1>2, <1>3, <1>4, <1>5, CallStep DEF KeyOf

LEMMA LeadInv ==
    ASSUME CacheTokensInv, NEW c \in Calls, Lead(c)
    PROVE  CacheTokensInv'
<1> DEFINE k == [call[c] EXCEPT !.pc = "minting"]
           key == KeyOf(c)
<1>1. /\ call[c].pc = "resolving" /\ call[c].cfg \in Configs /\ call[c].x \in Creds
      /\ ~Fresh(key) /\ (call[c].x \in CertCreds => inflight[key] = NoOne)
      /\ inflight' = IF call[c].x \in CertCreds THEN [inflight EXCEPT ![key] = c] ELSE inflight
      /\ mints' = [mints EXCEPT ![key] = mints[key] + 1]
      /\ UNCHANGED <<clock, version, stored, cache, admin, floor, straddlers>>
      /\ Staged(call[c])
  BY CallType DEF Lead, CacheTokensInv, CallInv, Staged, Shared
<1>2. /\ key \in Keys /\ key = Key(call[c].x, call[c].cfg)
      /\ call[c].x \in CertCreds <=> key \in CertKeys
  BY <1>1, KeyIs DEF KeyOf
<1>3. /\ k \in CallState /\ k.pc = "minting" /\ k.tok = call[c].tok /\ k.x = call[c].x
      /\ k.cfg = call[c].cfg /\ k.err = call[c].err /\ k.cancelled = call[c].cancelled
  BY CallType DEF CacheTokensInv, CallState
<1>4. call' = [call EXCEPT ![c] = k]
  BY DEF Lead, CacheTokensInv, TypeOK, CallState
<1> HIDE DEF k, key
<1>5. /\ call' \in [Calls -> CallState] /\ call'[c] = k
      /\ \A d \in Calls : d # c => call'[d] = call[d]
  BY <1>3, <1>4 DEF CacheTokensInv, TypeOK
<1>6. TypeOK'
  <2>1. mints' \in [Keys -> Nat]
    BY <1>1, <1>2 DEF CacheTokensInv, TypeOK
  <2>2. inflight' \in [Keys -> Calls \cup {NoOne}]
    BY <1>1, <1>2 DEF CacheTokensInv, TypeOK
  <2> QED
    BY <1>1, <1>5, <2>1, <2>2 DEF CacheTokensInv, TypeOK
<1>7. CallInv'
  <2>1. Staged(k) /\ Obtains(c, k)
    BY <1>1, <1>3 DEF Staged, Obtains
  <2>2. k.pc # "waiting"
    BY <1>3
  <2>3. ASSUME NEW d \in Calls
        PROVE  /\ Staged(call'[d]) /\ Obtains(d, call'[d])
               /\ call'[d].pc = "waiting" =>
                    /\ call'[d].leader \in Calls
                    /\ Leader(call'[call'[d].leader], Key(call'[d].x, call'[d].cfg))
    <3>1. CASE d = c
      BY <1>5, <2>1, <2>2, <3>1
    <3>2. CASE d # c
      BY <1>1, <1>5, <3>2 DEF CacheTokensInv, CallInv, KeyOf, Leader, Led, Leads
    <3> QED
      BY <3>1, <3>2
  <2> QED
    BY <1>1, <2>3 DEF CallInv, Obtains, NotForgotten, KeyOf, Staged, Leader
<1>8. FlightInv'
  <2> SUFFICES ASSUME NEW other \in Keys, inflight'[other] # NoOne
               PROVE  /\ call'[inflight'[other]].pc \in Leads
                      /\ Leader(call'[inflight'[other]], other)
    BY DEF FlightInv, Leader
  <2>1. CASE inflight'[other] = inflight[other]
    BY <1>1, <1>5, <2>1 DEF CacheTokensInv, TypeOK, FlightInv, Leads
  <2>2. CASE inflight'[other] # inflight[other]
    <3>1. other = key /\ inflight'[other] = c /\ call[c].x \in CertCreds
      BY <1>1, <1>2, <2>2 DEF CacheTokensInv, TypeOK
    <3>2. k.err = "none" /\ k.tok = NoOne
      BY <1>1, <1>3 DEF Staged
    <3> QED
      BY <1>1, <1>2, <1>3, <1>5, <3>1, <3>2 DEF Leader, Leads, Led
  <2> QED
    BY <2>1, <2>2
<1>9. BurstInv'
  <2> SUFFICES ASSUME NEW other \in CertKeys
               PROVE  \/ mints'[other] = 0
                      \/ mints'[other] = 1 /\ (Fresh(other)' \/ inflight'[other] # NoOne)
    BY DEF BurstInv
  <2>1. other \in Keys /\ (Fresh(other)' <=> Fresh(other))
    BY <1>1 DEF Keys, Fresh
  <2>2. CASE other = key
    <3>1. mints[key] = 0
      BY <1>1, <1>2, <2>2 DEF CacheTokensInv, BurstInv
    <3>2. mints'[other] = 1 /\ inflight'[other] = c
      BY <1>1, <1>2, <2>2, <3>1 DEF CacheTokensInv, TypeOK
    <3> QED
      BY <3>2, CacheAssumption
  <2>3. CASE other # key
    BY <1>1, <1>2, <2>1, <2>3 DEF CacheTokensInv, TypeOK, BurstInv
  <2> QED
    BY <2>2, <2>3
<1>10. CacheInv' /\ FloorInv' /\ ForgottenForGood'
  BY <1>1 DEF CacheTokensInv, CacheInv, FloorInv, ForgottenForGood
<1> QED
  BY <1>6, <1>7, <1>8, <1>9, <1>10 DEF CacheTokensInv

LEMMA KeepInv ==
    ASSUME CacheTokensInv, NEW c \in Calls, Keep(c)
    PROVE  CacheTokensInv'
<1> DEFINE k == [call[c] EXCEPT !.pc = IF call[c].x \in CertCreds THEN "closing" ELSE "done"]
           key == KeyOf(c)
           tok == call[c].tok
<1>1. /\ call[c].pc = "minted" /\ call[c].cfg \in Configs /\ call[c].x \in Creds
      /\ cache' = IF tok = NoOne THEN cache ELSE [cache EXCEPT ![key] = tok]
      /\ inflight' = IF call[c].x \in CertCreds THEN [inflight EXCEPT ![key] = NoOne] ELSE inflight
      /\ mints' = [mints EXCEPT ![key] =
                     IF tok # NoOne /\ clock < tok.until THEN mints[key] ELSE 0]
      /\ UNCHANGED <<clock, version, stored, admin, floor, straddlers>>
      /\ Staged(call[c]) /\ Obtains(c, call[c]) /\ tok \in Tokens \cup {NoOne}
  BY CallType DEF Keep, Cached, CacheTokensInv, CallInv, Staged, Shared
<1>2. /\ key \in Keys /\ key = Key(call[c].x, call[c].cfg)
      /\ call[c].x \in CertCreds <=> key \in CertKeys
      /\ key \in CertKeys => key[2] = call[c].cfg
  BY <1>1, KeyIs DEF KeyOf
<1>3. /\ k \in CallState /\ k.pc = (IF call[c].x \in CertCreds THEN "closing" ELSE "done")
      /\ k.tok = tok /\ k.x = call[c].x
      /\ k.cfg = call[c].cfg /\ k.err = call[c].err /\ k.cancelled = call[c].cancelled
  BY CallType DEF CacheTokensInv, CallState
<1>4. call' = [call EXCEPT ![c] = k]
  BY DEF Keep, Shared, CacheTokensInv, TypeOK, CallState
<1>5. tok # NoOne => tok.cfg = call[c].cfg /\ NotForgotten(key, tok.version, c) /\ tok.by = c
  BY <1>1, <1>2 DEF Staged, Obtains
<1> HIDE DEF k, key, tok
<1>6. /\ call' \in [Calls -> CallState] /\ call'[c] = k
      /\ \A d \in Calls : d # c => call'[d] = call[d]
  BY <1>3, <1>4 DEF CacheTokensInv, TypeOK
<1>7. TypeOK'
  <2>1. mints' \in [Keys -> Nat]
    BY <1>1, <1>2 DEF CacheTokensInv, TypeOK
  <2>2. inflight' \in [Keys -> Calls \cup {NoOne}]
    BY <1>1, <1>2 DEF CacheTokensInv, TypeOK
  <2>3. cache' \in [Keys -> Tokens \cup {NoOne}]
    BY <1>1, <1>2 DEF CacheTokensInv, TypeOK
  <2> QED
    BY <1>1, <1>6, <2>1, <2>2, <2>3 DEF CacheTokensInv, TypeOK
<1>8. \A other : Leader(call[c], other) => Leader(k, other)
  BY <1>3 DEF Leader, Led, tok
<1>9. CallInv'
  <2>1. Staged(k) /\ Obtains(c, k) /\ k.pc # "waiting"
    BY <1>1, <1>3 DEF Staged, Obtains, tok
  <2>2. ASSUME NEW d \in Calls
        PROVE  /\ Staged(call'[d]) /\ Obtains(d, call'[d])
               /\ call'[d].pc = "waiting" =>
                    /\ call'[d].leader \in Calls
                    /\ Leader(call'[call'[d].leader], Key(call'[d].x, call'[d].cfg))
    <3>1. CASE d = c
      BY <1>6, <2>1, <3>1
    <3>2. CASE d # c
      BY <1>6, <1>8, <3>2 DEF CacheTokensInv, CallInv, KeyOf
    <3> QED
      BY <3>1, <3>2
  <2> QED
    BY <1>1, <2>2 DEF CallInv, Obtains, NotForgotten, KeyOf, Staged, Leader
<1>10. FlightInv'
  <2> SUFFICES ASSUME NEW other \in Keys, inflight'[other] # NoOne
               PROVE  /\ call'[inflight'[other]].pc \in Leads
                      /\ Leader(call'[inflight'[other]], other)
    BY DEF FlightInv, Leader
  <2>1. inflight'[other] = inflight[other] /\ (call[c].x \in CertCreds => other # key)
    BY <1>1, <1>2 DEF CacheTokensInv, TypeOK
  <2>2. /\ inflight[other] \in Calls
        /\ call[inflight[other]].pc \in Leads /\ Leader(call[inflight[other]], other)
    BY <2>1 DEF CacheTokensInv, TypeOK, FlightInv
  <2>3. inflight[other] # c
    BY <1>2, <2>1, <2>2 DEF Leader
  <2> QED
    BY <1>6, <2>1, <2>2, <2>3
<1>11. BurstInv'
  <2> SUFFICES ASSUME NEW other \in CertKeys
               PROVE  \/ mints'[other] = 0
                      \/ mints'[other] = 1 /\ (Fresh(other)' \/ inflight'[other] # NoOne)
    BY DEF BurstInv
  <2>1. other \in Keys /\ (mints[other] = 0 \/ mints[other] = 1)
    BY DEF CacheTokensInv, BurstInv, Keys
  <2>2. CASE other = key /\ tok # NoOne /\ clock < tok.until
    <3>1. mints'[other] = mints[other] /\ cache'[other] = tok /\ clock' = clock
      BY <1>1, <1>2, <2>2 DEF CacheTokensInv, TypeOK
    <3> QED
      BY <2>1, <2>2, <3>1 DEF Fresh
  <2>3. CASE other = key /\ ~(tok # NoOne /\ clock < tok.until)
    BY <1>1, <1>2, <2>3 DEF CacheTokensInv, TypeOK
  <2>4. CASE other # key
    <3>1. /\ mints'[other] = mints[other] /\ inflight'[other] = inflight[other]
          /\ cache'[other] = cache[other] /\ clock' = clock
      BY <1>1, <1>2, <2>1, <2>4 DEF CacheTokensInv, TypeOK
    <3> QED
      BY <3>1 DEF CacheTokensInv, BurstInv, Fresh
  <2> QED
    BY <2>2, <2>3, <2>4
<1>12. CacheInv'
  <2> SUFFICES ASSUME NEW other \in CertKeys, cache'[other] # NoOne
               PROVE  cache'[other].cfg = other[2]
    BY DEF CacheInv
  <2>1. other \in Keys
    BY DEF Keys
  <2> QED
    BY <1>1, <1>2, <1>5, <2>1 DEF CacheTokensInv, TypeOK, CacheInv
<1>13. ForgottenForGood'
  <2> SUFFICES ASSUME NEW other \in Keys, cache'[other] # NoOne
               PROVE  cache'[other].version >= floor[other] \/ cache'[other].by \in straddlers
    BY <1>1 DEF ForgottenForGood
  <2>1. CASE tok # NoOne /\ other = key
    <3>1. cache'[other] = tok
      BY <1>1, <1>2, <2>1 DEF CacheTokensInv, TypeOK
    <3> QED
      BY <1>5, <2>1, <3>1 DEF NotForgotten
  <2>2. CASE ~(tok # NoOne /\ other = key)
    <3>1. cache'[other] = cache[other]
      BY <1>1, <1>2, <2>2 DEF CacheTokensInv, TypeOK
    <3> QED
      BY <3>1 DEF CacheTokensInv, ForgottenForGood
  <2> QED
    BY <2>1, <2>2
<1>14. FloorInv'
  BY <1>1 DEF CacheTokensInv, FloorInv
<1> QED
  BY <1>7, <1>9, <1>10, <1>11, <1>12, <1>13, <1>14 DEF CacheTokensInv

-----------------------------------------------------------------------------
(* The management handlers and the environment. *)

\* A step after which every call, flight and token is as it was.
LEMMA OutsideStep ==
    ASSUME CacheTokensInv, TypeOK', UNCHANGED <<cache, inflight, call, floor, straddlers>>,
           version' = version \/ version' = version + 1
    PROVE  CallInv' /\ FlightInv' /\ CacheInv' /\ FloorInv' /\ ForgottenForGood'
<1>1. CallInv' /\ FlightInv' /\ CacheInv' /\ ForgottenForGood'
  BY DEF CacheTokensInv, CallInv, FlightInv, CacheInv, ForgottenForGood, Staged, Obtains,
         NotForgotten, KeyOf, Leader
<1>2. FloorInv'
  <2>1. version \in Int /\ \A key \in Keys : floor[key] \in Int
    BY CacheAssumption DEF CacheTokensInv, TypeOK, Versions
  <2> QED
    BY <2>1 DEF CacheTokensInv, FloorInv
<1> QED
  BY <1>1, <1>2

LEMMA BeginInv ==
    ASSUME CacheTokensInv, NEW a \in Admins, NEW op \in Handled, NEW x \in Creds, Begin(a, op, x)
    PROVE  CacheTokensInv'
<1>1. UNCHANGED <<clock, version, stored, cache, inflight, call, mints, floor, straddlers>>
  BY DEF Begin, history
<1>2. PICK cfg \in IF op = "create" THEN Configs ELSE {stored[x]} :
        admin' = [admin EXCEPT ![a] = [pc |-> "read", op |-> op, x |-> x, cfg |-> cfg]]
  BY DEF Begin
<1>3. cfg \in Configs \cup {NoOne}
  BY DEF CacheTokensInv, TypeOK
<1>4. admin' \in [Admins -> Handlers]
  BY <1>2, <1>3 DEF CacheTokensInv, TypeOK, Handlers
<1>5. TypeOK'
  BY <1>1, <1>4 DEF CacheTokensInv, TypeOK
<1>6. BurstInv'
  BY <1>1 DEF CacheTokensInv, BurstInv, Fresh
<1> QED
  BY <1>1, <1>5, <1>6, OutsideStep DEF CacheTokensInv

LEMMA WriteInv ==
    ASSUME CacheTokensInv, NEW a \in Admins, Write(a)
    PROVE  CacheTokensInv'
<1>1. UNCHANGED <<clock, version, cache, inflight, call, mints, floor, straddlers>>
  BY DEF Write, history
<1>2. /\ admin[a] \in Handlers /\ NoHandler \in Handlers
      /\ [admin[a] EXCEPT !.pc = "written"] \in Handlers
  BY DEF CacheTokensInv, TypeOK, Handlers, NoHandler, Handled
<1>3. admin' \in [Admins -> Handlers]
  <2>1. \E h \in Handlers : admin' = [admin EXCEPT ![a] = h]
    BY <1>2 DEF Write
  <2> QED
    BY <2>1 DEF CacheTokensInv, TypeOK
<1>4. stored' \in [Creds -> Configs \cup {NoOne}]
  <2>1. admin[a].cfg \in Configs \cup {NoOne}
    BY <1>2 DEF Handlers
  <2> QED
    BY <2>1 DEF Write, CacheTokensInv, TypeOK
<1>5. TypeOK'
  BY <1>1, <1>3, <1>4 DEF CacheTokensInv, TypeOK
<1>6. BurstInv'
  BY <1>1 DEF CacheTokensInv, BurstInv, Fresh
<1> QED
  BY <1>1, <1>5, <1>6, OutsideStep DEF CacheTokensInv

LEMMA ForgetInv ==
    ASSUME CacheTokensInv, NEW a \in Admins, Forget(a)
    PROVE  CacheTokensInv'
<1> DEFINE gone == {<<"id", admin[a].x>>, Key(admin[a].x, admin[a].cfg)}
<1>1. /\ cache' = [key \in Keys |-> IF key \in gone THEN NoOne ELSE cache[key]]
      /\ admin' = [admin EXCEPT ![a] = NoHandler]
      /\ mints' = [key \in Keys |-> IF key \in gone THEN 0 ELSE mints[key]]
      /\ floor' = [key \in Keys |-> IF key \in gone THEN version ELSE floor[key]]
      /\ straddlers' = straddlers \cup
           {c \in Calls : call[c].pc \in {"posting", "minted"} /\ KeyOf(c) \in gone}
      /\ UNCHANGED <<clock, version, stored, inflight, call>>
  BY DEF Forget, Forgotten
<1> HIDE DEF gone
<1>2. TypeOK'
  <2>1. cache' \in [Keys -> Tokens \cup {NoOne}] /\ mints' \in [Keys -> Nat]
    BY <1>1 DEF CacheTokensInv, TypeOK
  <2>2. floor' \in [Keys -> {0} \cup Versions] /\ straddlers' \in SUBSET Calls
    BY <1>1 DEF CacheTokensInv, TypeOK
  <2>3. admin' \in [Admins -> Handlers]
    BY <1>1 DEF CacheTokensInv, TypeOK, Handlers, NoHandler, Handled
  <2> QED
    BY <1>1, <2>1, <2>2, <2>3 DEF CacheTokensInv, TypeOK
<1>3. ASSUME NEW c \in Calls
      PROVE  Obtains(c, call[c])'
  <2>1. ASSUME NEW v, NotForgotten(KeyOf(c), v, c), KeyOf(c) \in Keys,
               call[c].pc \in {"posting", "minted"}
        PROVE  NotForgotten(KeyOf(c), v, c)'
    BY <1>1, <2>1 DEF NotForgotten, KeyOf
  <2>2. call[c].pc \in {"posting", "minted"} => KeyOf(c) \in Keys
    BY CallType, KeyIs DEF CacheTokensInv, CallInv, Staged, KeyOf
  <2>3. Obtains(c, call[c]) /\ call' = call
    BY <1>1 DEF CacheTokensInv, CallInv
  <2> QED
    BY <2>1, <2>2, <2>3 DEF Obtains, KeyOf, NotForgotten
<1>4. CallInv' /\ FlightInv'
  <2>1. call' = call /\ inflight' = inflight
    BY <1>1
  <2> QED
    BY <1>3, <2>1 DEF CacheTokensInv, CallInv, FlightInv, Staged, KeyOf, Leader
<1>5. BurstInv' /\ CacheInv'
  <2>1. CertKeys \subseteq Keys
    BY DEF Keys
  <2> QED
    BY <1>1, <2>1 DEF CacheTokensInv, BurstInv, CacheInv, Fresh
<1>6. FloorInv' /\ ForgottenForGood'
  <2>1. version \in Int
    BY CacheAssumption DEF CacheTokensInv, TypeOK, Versions
  <2> QED
    BY <1>1, <2>1 DEF CacheTokensInv, FloorInv, ForgottenForGood
<1> QED
  BY <1>2, <1>4, <1>5, <1>6 DEF CacheTokensInv

LEMMA ReplaceInv ==
    ASSUME CacheTokensInv, Replace
    PROVE  CacheTokensInv'
<1>1. /\ version' = version + 1 /\ version < MaxVersion
      /\ UNCHANGED <<clock, stored, cache, inflight, call, admin, mints, floor, straddlers>>
  BY DEF Replace, history
<1>2. version' \in Versions
  BY <1>1, CacheAssumption DEF CacheTokensInv, TypeOK, Versions
<1>3. TypeOK'
  BY <1>1, <1>2 DEF CacheTokensInv, TypeOK
<1>4. BurstInv'
  BY <1>1 DEF CacheTokensInv, BurstInv, Fresh
<1> QED
  BY <1>1, <1>3, <1>4, OutsideStep DEF CacheTokensInv

LEMMA TickInv ==
    ASSUME CacheTokensInv, Tick
    PROVE  CacheTokensInv'
<1>1. /\ clock' = clock + 1 /\ clock < MaxTime
      /\ mints' = [key \in Keys |-> IF Fresh(key) /\ clock + 1 >= cache[key].until
                                    THEN 0 ELSE mints[key]]
      /\ UNCHANGED <<version, stored, cache, inflight, call, admin, floor, straddlers>>
  BY DEF Tick
<1>2. clock' \in 0..MaxTime /\ mints' \in [Keys -> Nat]
  BY <1>1, CacheAssumption DEF CacheTokensInv, TypeOK
<1>3. TypeOK'
  BY <1>1, <1>2 DEF CacheTokensInv, TypeOK
<1>4. BurstInv'
  <2> SUFFICES ASSUME NEW key \in CertKeys
               PROVE  \/ mints'[key] = 0
                      \/ mints'[key] = 1 /\ (Fresh(key)' \/ inflight'[key] # NoOne)
    BY DEF BurstInv
  <2>1. /\ key \in Keys /\ clock \in Int
        /\ cache[key] # NoOne => cache[key].until \in Int
    BY CacheAssumption DEF CacheTokensInv, TypeOK, Keys, Tokens
  <2>2. CASE Fresh(key) /\ clock + 1 >= cache[key].until
    BY <1>1, <2>1, <2>2
  <2>3. CASE ~(Fresh(key) /\ clock + 1 >= cache[key].until)
    <3>1. mints'[key] = mints[key] /\ inflight' = inflight
      BY <1>1, <2>1, <2>3
    <3>2. Fresh(key) => Fresh(key)'
      BY <1>1, <2>1, <2>3 DEF Fresh
    <3> QED
      BY <3>1, <3>2 DEF CacheTokensInv, BurstInv
  <2> QED
    BY <2>2, <2>3
<1> QED
  BY <1>1, <1>3, <1>4, OutsideStep DEF CacheTokensInv

-----------------------------------------------------------------------------
LEMMA CacheInitInv ==
    ASSUME Init
    PROVE  CacheTokensInv
<1>1. \A c \in Calls : \E x \in Creds : call[c] = Idle(x)
  BY DEF Init
<1>2. \A x \in Creds : /\ Idle(x) \in CallState /\ Idle(x).pc = "idle" /\ Idle(x).err = "none"
                       /\ Idle(x).tok = NoOne
  BY DEF Idle, CallState
<1>3. CallInv
  BY <1>1, <1>2 DEF CallInv, Staged, Obtains
<1>4. TypeOK
  <2>1. call \in [Calls -> CallState]
    <3>1. \E f : call = [c \in Calls |-> f[c]]
      BY DEF Init
    <3> QED
      BY <1>1, <1>2, <3>1
  <2>2. clock \in 0..MaxTime /\ version \in Versions
    BY CacheAssumption DEF Init, Versions
  <2>3. admin \in [Admins -> Handlers]
    BY DEF Init, NoHandler, Handlers, Handled
  <2> QED
    BY <2>1, <2>2, <2>3 DEF Init, TypeOK
<1>5. FlightInv /\ BurstInv /\ CacheInv /\ ForgottenForGood
  BY DEF Init, FlightInv, BurstInv, CacheInv, ForgottenForGood, CertKeys, Keys
<1>6. FloorInv
  BY DEF Init, FloorInv
<1> QED
  BY <1>3, <1>4, <1>5, <1>6 DEF CacheTokensInv

LEMMA CacheNextInv ==
    ASSUME CacheTokensInv, [Next]_vars
    PROVE  CacheTokensInv'
<1>1. ASSUME NEW c \in Calls, ReadCredential(c) \/ Resolve(c) \/ Disconnect(c)
      PROVE  CacheTokensInv'
  BY <1>1, ReadCredentialInv, HitInv, JoinInv, LeadInv, ReadKeyInv, MintInv, FailInv, KeepInv,
     CloseFlightInv, WakeInv, GiveUpInv, DisconnectInv DEF Resolve
<1>2. ASSUME NEW a \in Admins,
             (\E op \in Handled, x \in Creds : Begin(a, op, x)) \/ Write(a) \/ Forget(a)
      PROVE  CacheTokensInv'
  BY <1>2, BeginInv, WriteInv, ForgetInv
<1>3. CASE UNCHANGED vars
  <2>1. /\ UNCHANGED <<clock, version, stored, cache, inflight, call, admin>>
        /\ UNCHANGED <<mints, floor, straddlers>>
    BY <1>3 DEF vars, history
  <2>2. TypeOK' /\ BurstInv'
    BY <2>1 DEF CacheTokensInv, TypeOK, BurstInv, Fresh
  <2> QED
    BY <2>1, <2>2, OutsideStep DEF CacheTokensInv
<1> QED
  BY <1>1, <1>2, <1>3, ReplaceInv, TickInv DEF Next

LEMMA CacheInvAlways == Spec => []CacheTokensInv
<1>1. Init => CacheTokensInv
  BY CacheInitInv
<1>2. CacheTokensInv /\ [Next]_vars => CacheTokensInv'
  BY CacheNextInv
<1> QED
  BY <1>1, <1>2, PTL DEF Spec

-----------------------------------------------------------------------------
\* The resolver's maps, the calls' and the handlers' locals keep their types, for any
\* number of each.
THEOREM TypeCorrect == Spec => []TypeOK
<1>1. CacheTokensInv => TypeOK
  BY DEF CacheTokensInv
<1> QED
  BY <1>1, CacheInvAlways, PTL

\* A call fails for a cancellation only if its own caller went away, however many share
\* the flight and whoever leads it (gw_entracert.go:225).
THEOREM OwnCancellationOnly == Spec => []OnlyOwnCancellation
<1>1. CacheTokensInv => OnlyOwnCancellation
  BY DEF CacheTokensInv, CallInv, Staged, OnlyOwnCancellation
<1> QED
  BY <1>1, CacheInvAlways, PTL

\* A cold burst of any number of calls makes one token request for a certificate's key,
\* whatever is created, rotated, deleted or forgotten meanwhile (docs/adr/0006).
THEOREM BurstsShareAMint == Spec => []OneMintPerBurst
<1>1. CacheTokensInv => OneMintPerBurst
  BY DEF CacheTokensInv, BurstInv, OneMintPerBurst
<1> QED
  BY <1>1, CacheInvAlways, PTL

\* A call through an entra-cert credential is given a token of the tenant, client and
\* scope that its credential said, from the cache, a flight or its own mint
\* (gw_entracert.go:197).
THEOREM CertsServedAsConfigured == Spec => []CertServedAsConfigured
<1>1. CacheTokensInv => CertServedAsConfigured
  BY DEF CacheTokensInv, CallInv, Staged, CertServedAsConfigured, AsConfigured, Shared
<1> QED
  BY <1>1, CacheInvAlways, PTL

\* What Forget drops does not come back, but for a mint that had read the old key by then
\* (gw_credentials.go:324).
THEOREM ForgottenStaysSo == Spec => []ForgottenForGood
<1>1. CacheTokensInv => ForgottenForGood
  BY DEF CacheTokensInv
<1> QED
  BY <1>1, CacheInvAlways, PTL
=============================================================================
