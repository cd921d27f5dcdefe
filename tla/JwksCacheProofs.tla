--------------------------- MODULE JwksCacheProofs ---------------------------
(***************************************************************************)
(* Theorems about JwksCache: its type, and its four action properties,     *)
(* for any number of callers and kids, any tokens and any times.           *)
(***************************************************************************)
EXTENDS JwksCache, TLAPS

\* fetchMu is held by the caller that fetches; a fetch is as old as triedAt, and
\* not older than its requests' timeouts allow.
LockInv ==
    /\ \A c \in Calls : (fetchMu = c) <=> (call[c].pc = "fetching")
    /\ \A c \in Calls : call[c].got # {} => call[c].pc = "fetching"
    /\ fetchMu # NoCall => clock <= triedAt + MaxFetch

\* No time is ahead of the clock, and what has not been tried is at time zero.
TimeInv ==
    /\ began = triedAt
    /\ triedAt <= clock /\ fetchedAt <= clock
    /\ \A k \in Kids : since[k] <= clock
    /\ fetchMu = NoCall /\ lastTry = "none" => triedAt = Zero

\* What a fetch has read: every key published before it began, none that was
\* withdrawn before, and no known key less that is still published.
GotInv ==
    \A c \in Calls : call[c].got # {} =>
      \A k \in Kids :
        /\ tenant[k] = "published" /\ since[k] < triedAt => k \in call[c].got
        /\ tenant[k] = "published" /\ k \in keys => k \in call[c].got
        /\ k \in call[c].got => \/ tenant[k] = "published"
                                \/ tenant[k] = "withdrawn" /\ triedAt <= since[k]

\* What is known: no key that was withdrawn long before the fetch that brought it
\* had ended, and, after a fetch that succeeded, every key published before it.
KeysInv ==
    /\ \A k \in keys : \/ tenant[k] = "published"
                       \/ tenant[k] = "withdrawn" /\ fetchedAt <= since[k] + MaxFetch
    /\ fetchMu = NoCall /\ lastTry = "stored" =>
         /\ triedAt <= fetchedAt
         /\ \A k \in Kids : tenant[k] = "published" /\ since[k] < triedAt => k \in keys

\* What a caller under way knows of its key still holds.
CallInv ==
    \A c \in Calls : LET k == call[c].tok.kid IN
      call[c].pc \in {"waiting", "fetching"} =>
        /\ call[c].tok.jws
        /\ call[c].known \/ call[c].due => tenant[k] # "unborn"
        /\ call[c].known /\ tenant[k] = "published" => k \in keys
        /\ call[c].due /\ tenant[k] = "published" => since[k] + MinRefresh <= clock
        /\ call[c].due /\ tenant[k] = "published" /\ call[c].pc = "fetching"
             => since[k] < triedAt

JwksInv == TypeOK /\ LockInv /\ TimeInv /\ GotInv /\ KeysInv /\ CallInv

-----------------------------------------------------------------------------
LEMMA IdleType == Idle \in CallState /\ Idle.pc = "idle" /\ Idle.got = {}
<1>1. (CHOOSE tok \in Tokens : TRUE) \in Tokens
  BY JwksAssumption
<1> QED
  BY <1>1 DEF Idle, Locals, CallState

\* The state in which a call ends.
LEMMA EndsType ==
    ASSUME NEW k \in CallState, NEW found \in BOOLEAN
    PROVE  /\ Ends(k, found) \in CallState
           /\ Ends(k, found).pc = "done" /\ Ends(k, found).got = {}
           /\ Ends(k, found).tok = k.tok
           /\ Ends(k, found).verdict = (found /\ k.tok.holds)
<1>1. k.tok \in Tokens /\ k.tok.holds \in BOOLEAN
  BY JwksAssumption DEF CallState, TokenShape
<1> QED
  BY <1>1 DEF Ends, Locals, CallState

-----------------------------------------------------------------------------
LEMMA InitInv == Init => JwksInv
<1> SUFFICES ASSUME Init PROVE JwksInv
  OBVIOUS
<1>1. call \in [Calls -> CallState] /\ \A c \in Calls : call[c].pc = "idle" /\ call[c].got = {}
  BY IdleType DEF Init
<1>2. Zero \in Int /\ 0 \in Times /\ Zero < 0
  BY JwksAssumption DEF Zero, Times
<1> QED
  BY <1>1, <1>2, JwksAssumption
  DEF Init, JwksInv, TypeOK, LockInv, TimeInv, GotInv, KeysInv, CallInv

\* A step in which one call changes state, and what the others see of it.
LEMMA CallType ==
    ASSUME call \in [Calls -> CallState], NEW c \in Calls, NEW k \in CallState,
           call' = [call EXCEPT ![c] = k]
    PROVE  /\ call' \in [Calls -> CallState]
           /\ call'[c] = k
           /\ \A d \in Calls : d # c => call'[d] = call[d]
  OBVIOUS

LEMMA ArriveInv ==
    ASSUME JwksInv, NEW c \in Calls, NEW tok \in Tokens, Arrive(c, tok)
    PROVE  JwksInv'
<1> DEFINE begun == Locals("waiting", tok, FALSE, tok.kid \in keys, Due(tok.kid))
<1>1. tok.jws \in BOOLEAN /\ tok.kid \in Kids
  BY JwksAssumption DEF TokenShape
<1>2. begun \in CallState
  BY DEF Locals, CallState, Due
<1>3. /\ begun.pc = "waiting" /\ begun.tok = tok /\ begun.got = {}
      /\ begun.known => tok.kid \in keys
      /\ begun.due => since[tok.kid] + MinRefresh <= clock
      /\ begun.known \/ begun.due => tenant[tok.kid] # "unborn"
  BY DEF Locals, Due, Published, JwksInv, KeysInv
<1>a. Ends(begun, FALSE) \in CallState /\ Ends(begun, FALSE).pc = "done"
      /\ Ends(begun, FALSE).got = {}
  BY <1>2, EndsType
<1>b. Ends(begun, TRUE) \in CallState /\ Ends(begun, TRUE).pc = "done"
      /\ Ends(begun, TRUE).got = {}
  BY <1>2, EndsType
<1>4. \/ call' = [call EXCEPT ![c] = Ends(begun, FALSE)]
      \/ call' = [call EXCEPT ![c] = Ends(begun, TRUE)]
      \/ tok.jws /\ call' = [call EXCEPT ![c] = begun]
  BY DEF Arrive
<1> HIDE DEF begun
<1>5. /\ call' \in [Calls -> CallState]
      /\ \A d \in Calls : d # c => call'[d] = call[d]
      /\ call'[c].got = {}
      /\ \/ call'[c].pc = "done"
         \/ (tok.jws /\ call'[c] = begun)
  <2>1. CASE call' = [call EXCEPT ![c] = Ends(begun, FALSE)]
    BY <1>a, <2>1, CallType DEF JwksInv, TypeOK
  <2>2. CASE call' = [call EXCEPT ![c] = Ends(begun, TRUE)]
    BY <1>b, <2>2, CallType DEF JwksInv, TypeOK
  <2>3. CASE tok.jws /\ call' = [call EXCEPT ![c] = begun]
    BY <1>2, <1>3, <2>3, CallType DEF JwksInv, TypeOK
  <2> QED
    BY <1>4, <2>1, <2>2, <2>3
<1>6. call[c].pc = "idle"
  BY DEF Arrive
<1>7. UNCHANGED <<clock, tenant, since, keys, fetchedAt, triedAt, fetchMu, began, lastTry>>
  BY DEF Arrive
<1>8. TypeOK'
  BY <1>5, <1>7 DEF JwksInv, TypeOK
<1>9. LockInv'
  BY <1>3, <1>5, <1>6, <1>7 DEF JwksInv, LockInv
<1>10. TimeInv' /\ KeysInv'
  BY <1>7 DEF JwksInv, TimeInv, KeysInv
<1>11. GotInv'
  BY <1>5, <1>7 DEF JwksInv, GotInv
<1>12. CallInv'
  <2>1. call'[c].pc \in {"waiting", "fetching"} =>
          /\ call'[c].pc = "waiting" /\ call'[c].tok = tok /\ tok.jws
          /\ call'[c].known => tok.kid \in keys
          /\ call'[c].due => since[tok.kid] + MinRefresh <= clock
          /\ call'[c].known \/ call'[c].due => tenant[tok.kid] # "unborn"
    BY <1>3, <1>5
  <2> QED
    BY <1>5, <1>7, <2>1 DEF JwksInv, CallInv
<1> QED
  BY <1>8, <1>9, <1>10, <1>11, <1>12 DEF JwksInv

LEMMA SettleInv ==
    ASSUME JwksInv, NEW c \in Calls, Settle(c)
    PROVE  JwksInv'
<1> DEFINE k == Ends(call[c], call[c].tok.kid \in keys)
<1>a. call[c] \in CallState /\ (call[c].tok.kid \in keys) \in BOOLEAN
  BY DEF JwksInv, TypeOK
<1>1. k \in CallState /\ k.pc = "done" /\ k.got = {}
  BY <1>a, EndsType
<1>2. call' = [call EXCEPT ![c] = k]
  BY DEF Settle
<1>3. /\ call' \in [Calls -> CallState] /\ call'[c] = k
      /\ \A d \in Calls : d # c => call'[d] = call[d]
  BY <1>1, <1>2, CallType DEF JwksInv, TypeOK
<1>4. call[c].pc = "waiting"
      /\ UNCHANGED <<clock, tenant, since, keys, fetchedAt, triedAt, fetchMu, began, lastTry>>
  BY DEF Settle
<1> HIDE DEF k
<1>5. TypeOK'
  BY <1>3, <1>4 DEF JwksInv, TypeOK
<1>6. LockInv'
  BY <1>1, <1>3, <1>4 DEF JwksInv, LockInv
<1>7. TimeInv' /\ KeysInv'
  BY <1>4 DEF JwksInv, TimeInv, KeysInv
<1>8. GotInv' /\ CallInv'
  BY <1>1, <1>3, <1>4 DEF JwksInv, GotInv, CallInv
<1> QED
  BY <1>5, <1>6, <1>7, <1>8 DEF JwksInv

LEMMA LeaveInv ==
    ASSUME JwksInv, NEW c \in Calls, Leave(c)
    PROVE  JwksInv'
<1>1. call' = [call EXCEPT ![c] = Idle] /\ call[c].pc = "done"
      /\ UNCHANGED <<clock, tenant, since, keys, fetchedAt, triedAt, fetchMu, began, lastTry>>
  BY DEF Leave
<1>2. /\ call' \in [Calls -> CallState] /\ call'[c] = Idle
      /\ \A d \in Calls : d # c => call'[d] = call[d]
  BY <1>1, IdleType, CallType DEF JwksInv, TypeOK
<1>3. TypeOK'
  BY <1>1, <1>2 DEF JwksInv, TypeOK
<1>4. LockInv'
  BY <1>1, <1>2, IdleType DEF JwksInv, LockInv
<1>5. TimeInv' /\ KeysInv'
  BY <1>1 DEF JwksInv, TimeInv, KeysInv
<1>6. GotInv' /\ CallInv'
  BY <1>1, <1>2, IdleType DEF JwksInv, GotInv, CallInv
<1> QED
  BY <1>3, <1>4, <1>5, <1>6 DEF JwksInv

LEMMA StartFetchInv ==
    ASSUME JwksInv, NEW c \in Calls, StartFetch(c)
    PROVE  JwksInv'
<1> DEFINE k == [call[c] EXCEPT !.pc = "fetching"]
<1>a. call[c] \in CallState
  BY DEF JwksInv, TypeOK
<1>1. /\ k \in CallState /\ k.pc = "fetching" /\ k.got = call[c].got /\ k.tok = call[c].tok
      /\ k.known = call[c].known /\ k.due = call[c].due
  BY <1>a DEF CallState
<1>2. call' = [call EXCEPT ![c] = k]
  BY DEF StartFetch
<1>3. /\ call' \in [Calls -> CallState] /\ call'[c] = k
      /\ \A d \in Calls : d # c => call'[d] = call[d]
  BY <1>1, <1>2, CallType DEF JwksInv, TypeOK
<1>4. /\ call[c].pc = "waiting" /\ fetchMu = NoCall /\ fetchMu' = c
      /\ triedAt' = clock /\ began' = clock
      /\ UNCHANGED <<clock, tenant, since, keys, fetchedAt, lastTry>>
  BY DEF StartFetch, Tried
<1>5. \A d \in Calls : call[d].pc # "fetching" /\ call[d].got = {}
  BY <1>4, JwksAssumption DEF JwksInv, LockInv
<1>6. \A d \in Calls : call'[d].got = {}
  BY <1>1, <1>3, <1>5
<1>7. clock \in Int /\ \A i \in Kids : since[i] \in Int
  BY JwksAssumption DEF JwksInv, TypeOK, Times
<1> HIDE DEF k
<1>8. TypeOK'
  BY <1>3, <1>4 DEF JwksInv, TypeOK
<1>9. LockInv'
  BY <1>1, <1>3, <1>4, <1>5, <1>6, <1>7, JwksAssumption DEF JwksInv, LockInv
<1>10. TimeInv' /\ GotInv' /\ KeysInv'
  BY <1>4, <1>6, <1>7, JwksAssumption DEF JwksInv, TimeInv, GotInv, KeysInv
<1>11. CallInv'
  <2>0. call[c].tok.kid \in Kids
    BY <1>a, JwksAssumption DEF CallState, TokenShape
  <2>1. LET i == call[c].tok.kid IN
          call[c].due /\ tenant[i] = "published" => since[i] < clock
    BY <1>4, <1>7, <2>0, JwksAssumption DEF JwksInv, CallInv
  <2> QED
    BY <1>1, <1>3, <1>4, <1>5, <2>1 DEF JwksInv, CallInv
<1> QED
  BY <1>8, <1>9, <1>10, <1>11 DEF JwksInv

LEMMA ReadKeysInv ==
    ASSUME JwksInv, NEW c \in Calls, ReadKeys(c)
    PROVE  JwksInv'
<1> DEFINE k == [call[c] EXCEPT !.got = Published]
<1>a. call[c] \in CallState /\ Published \in SUBSET Kids
  BY DEF JwksInv, TypeOK, Published
<1>1. /\ k \in CallState /\ k.pc = call[c].pc /\ k.got = Published /\ k.tok = call[c].tok
      /\ k.known = call[c].known /\ k.due = call[c].due
  BY <1>a DEF CallState
<1>2. call' = [call EXCEPT ![c] = k]
  BY DEF ReadKeys
<1>3. /\ call' \in [Calls -> CallState] /\ call'[c] = k
      /\ \A d \in Calls : d # c => call'[d] = call[d]
  BY <1>1, <1>2, CallType DEF JwksInv, TypeOK
<1>4. call[c].pc = "fetching"
      /\ UNCHANGED <<clock, tenant, since, keys, fetchedAt, triedAt, fetchMu, began, lastTry>>
  BY DEF ReadKeys
<1> HIDE DEF k
<1>5. TypeOK'
  BY <1>3, <1>4 DEF JwksInv, TypeOK
<1>6. LockInv'
  BY <1>1, <1>3, <1>4 DEF JwksInv, LockInv
<1>7. TimeInv' /\ KeysInv'
  BY <1>4 DEF JwksInv, TimeInv, KeysInv
<1>8. GotInv'
  BY <1>1, <1>3, <1>4 DEF JwksInv, GotInv, Published
<1>9. CallInv'
  BY <1>1, <1>3, <1>4 DEF JwksInv, CallInv
<1> QED
  BY <1>5, <1>6, <1>7, <1>8, <1>9 DEF JwksInv

LEMMA StoreKeysInv ==
    ASSUME JwksInv, NEW c \in Calls, StoreKeys(c)
    PROVE  JwksInv'
<1> DEFINE k == Ends(call[c], call[c].tok.kid \in call[c].got)
<1>a. call[c] \in CallState /\ (call[c].tok.kid \in call[c].got) \in BOOLEAN
  BY DEF JwksInv, TypeOK
<1>1. k \in CallState /\ k.pc = "done" /\ k.got = {}
  BY <1>a, EndsType
<1>2. call' = [call EXCEPT ![c] = k]
  BY DEF StoreKeys
<1>3. /\ call' \in [Calls -> CallState] /\ call'[c] = k
      /\ \A d \in Calls : d # c => call'[d] = call[d]
  BY <1>1, <1>2, CallType DEF JwksInv, TypeOK
<1>4. /\ call[c].pc = "fetching" /\ call[c].got # {} /\ keys' = call[c].got
      /\ fetchedAt' = clock /\ lastTry' = "stored" /\ fetchMu' = NoCall
      /\ UNCHANGED <<clock, tenant, since, triedAt, began>>
  BY DEF StoreKeys
<1>5. /\ fetchMu = c /\ fetchMu # NoCall
      /\ \A d \in Calls : d # c => call[d].pc # "fetching" /\ call[d].got = {}
  BY <1>4, JwksAssumption DEF JwksInv, LockInv
<1>6. \A d \in Calls : call'[d].got = {} /\ call'[d].pc # "fetching"
  BY <1>1, <1>3, <1>5
<1>7. /\ clock \in Int /\ triedAt \in Int /\ \A i \in Kids : since[i] \in Int
      /\ clock # Zero /\ clock \in Times
  BY JwksAssumption DEF JwksInv, TypeOK, Times, Zero
<1> HIDE DEF k
<1>8. TypeOK'
  BY <1>a, <1>3, <1>4, <1>7 DEF JwksInv, TypeOK, CallState
<1>9. LockInv' /\ GotInv'
  BY <1>4, <1>6, JwksAssumption DEF JwksInv, LockInv, GotInv
<1>10. TimeInv'
  BY <1>4, <1>7 DEF JwksInv, TimeInv
<1>11. KeysInv'
  <2>1. \A i \in Kids :
          /\ tenant[i] = "published" /\ since[i] < triedAt => i \in call[c].got
          /\ i \in call[c].got => \/ tenant[i] = "published"
                                  \/ tenant[i] = "withdrawn" /\ triedAt <= since[i]
    BY <1>4 DEF JwksInv, GotInv
  <2>2. call[c].got \subseteq Kids
    BY <1>a DEF CallState
  <2>3. triedAt <= clock /\ clock <= triedAt + MaxFetch
    BY <1>5 DEF JwksInv, LockInv, TimeInv
  <2> QED
    BY <1>4, <1>7, <2>1, <2>2, <2>3, JwksAssumption DEF KeysInv
<1>12. CallInv'
  <2>1. \A d \in Calls : call[d].tok.kid \in Kids
    BY JwksAssumption DEF JwksInv, TypeOK, CallState, TokenShape
  <2>2. \A i \in Kids : tenant[i] = "published" /\ i \in keys => i \in keys'
    BY <1>4 DEF JwksInv, GotInv
  <2> QED
    BY <1>1, <1>3, <1>4, <1>5, <2>1, <2>2 DEF JwksInv, CallInv
<1> QED
  BY <1>8, <1>9, <1>10, <1>11, <1>12 DEF JwksInv

LEMMA FailFetchInv ==
    ASSUME JwksInv, NEW c \in Calls, FailFetch(c)
    PROVE  JwksInv'
<1> DEFINE k == Ends(call[c], call[c].tok.kid \in keys')
<1>a. call[c] \in CallState /\ (call[c].tok.kid \in keys') \in BOOLEAN
  BY DEF JwksInv, TypeOK
<1>1. k \in CallState /\ k.pc = "done" /\ k.got = {}
  BY <1>a, EndsType
<1>2. call' = [call EXCEPT ![c] = k]
  BY DEF FailFetch
<1>3. /\ call' \in [Calls -> CallState] /\ call'[c] = k
      /\ \A d \in Calls : d # c => call'[d] = call[d]
  BY <1>1, <1>2, CallType DEF JwksInv, TypeOK
<1>4. /\ call[c].pc = "fetching" /\ lastTry' = "failed" /\ fetchMu' = NoCall
      /\ UNCHANGED <<clock, tenant, since, keys, fetchedAt, triedAt, began>>
  BY DEF FailFetch, Kept
<1>5. \A d \in Calls : d # c => call[d].pc # "fetching" /\ call[d].got = {}
  BY <1>4, JwksAssumption DEF JwksInv, LockInv
<1>6. \A d \in Calls : call'[d].got = {} /\ call'[d].pc # "fetching"
  BY <1>1, <1>3, <1>5
<1> HIDE DEF k
<1>7. TypeOK'
  BY <1>3, <1>4 DEF JwksInv, TypeOK
<1>8. LockInv' /\ GotInv'
  BY <1>4, <1>6, JwksAssumption DEF JwksInv, LockInv, GotInv
<1>9. TimeInv' /\ KeysInv'
  BY <1>4 DEF JwksInv, TimeInv, KeysInv
<1>10. CallInv'
  BY <1>1, <1>3, <1>4, <1>5 DEF JwksInv, CallInv
<1> QED
  BY <1>7, <1>8, <1>9, <1>10 DEF JwksInv

LEMMA RollInv ==
    ASSUME JwksInv, NEW k \in Kids, Roll(k)
    PROVE  JwksInv'
<1>1. /\ tenant' = [tenant EXCEPT ![k] = IF @ = "unborn" THEN "published" ELSE "withdrawn"]
      /\ since' = [since EXCEPT ![k] = clock]
      /\ tenant[k] # "withdrawn"
      /\ UNCHANGED <<clock, keys, fetchedAt, triedAt, fetchMu, call, began, lastTry>>
  BY DEF Roll
<1>2. /\ tenant' \in [Kids -> {"unborn", "published", "withdrawn"}]
      /\ since' \in [Kids -> Times]
      /\ tenant'[k] = IF tenant[k] = "unborn" THEN "published" ELSE "withdrawn"
      /\ since'[k] = clock
      /\ \A i \in Kids : i # k => tenant'[i] = tenant[i] /\ since'[i] = since[i]
  BY <1>1 DEF JwksInv, TypeOK
<1>3. /\ clock \in Int /\ triedAt \in Int /\ fetchedAt \in Int
      /\ triedAt <= clock /\ fetchedAt <= clock
      /\ \A i \in Kids : since[i] \in Int
      /\ MaxFetch \in Nat /\ MinRefresh \in Nat
  BY JwksAssumption DEF JwksInv, TypeOK, TimeInv, Times, Zero
<1>4. tenant[k] \in {"unborn", "published"}
  BY <1>1 DEF JwksInv, TypeOK
<1>5. \A c \in Calls : k \in call[c].got => tenant[k] = "published"
  BY <1>4 DEF JwksInv, GotInv
<1>6. k \in keys => tenant[k] = "published"
  BY <1>4 DEF JwksInv, KeysInv
<1>7. TypeOK'
  BY <1>1, <1>2 DEF JwksInv, TypeOK
<1>8. LockInv' /\ TimeInv'
  BY <1>1, <1>2, <1>3 DEF JwksInv, LockInv, TimeInv
<1>9. GotInv'
  BY <1>1, <1>2, <1>3, <1>4, <1>5, <1>6 DEF JwksInv, GotInv
<1>10. KeysInv'
  <2>1. \A i \in keys : i \in Kids
    BY DEF JwksInv, TypeOK
  <2> QED
    BY <1>1, <1>2, <1>3, <1>4, <1>6, <2>1 DEF JwksInv, KeysInv
<1>11. CallInv'
  <2>0. \A c \in Calls : call[c].tok.kid \in Kids
    BY JwksAssumption DEF JwksInv, TypeOK, CallState, TokenShape
  <2>1. ASSUME NEW c \in Calls, call[c].pc \in {"waiting", "fetching"}
        PROVE  LET i == call[c].tok.kid IN
                 /\ call[c].known \/ call[c].due => tenant'[i] # "unborn"
                 /\ call[c].known /\ tenant'[i] = "published" => i \in keys
                 /\ call[c].due /\ tenant'[i] = "published" => since'[i] + MinRefresh <= clock
                 /\ call[c].due /\ tenant'[i] = "published" /\ call[c].pc = "fetching"
                      => since'[i] < triedAt
    <3>1. CASE call[c].tok.kid = k
      BY <1>2, <1>4, <2>1, <3>1 DEF JwksInv, CallInv
    <3>2. CASE call[c].tok.kid # k
      BY <1>2, <2>0, <2>1, <3>2 DEF JwksInv, CallInv
    <3> QED
      BY <3>1, <3>2
  <2> QED
    BY <1>1, <2>1 DEF JwksInv, CallInv
<1> QED
  BY <1>7, <1>8, <1>9, <1>10, <1>11 DEF JwksInv

LEMMA TickInv ==
    ASSUME JwksInv, Tick
    PROVE  JwksInv'
<1>1. /\ clock < MaxTime /\ clock' = clock + 1
      /\ fetchMu # NoCall => clock < triedAt + MaxFetch
      /\ UNCHANGED <<tenant, since, keys, fetchedAt, triedAt, fetchMu, call, began, lastTry>>
  BY DEF Tick
<1>2. /\ clock \in Int /\ triedAt \in Int /\ fetchedAt \in Int
      /\ clock' \in Times
      /\ \A i \in Kids : since[i] \in Int
      /\ MaxFetch \in Nat /\ MinRefresh \in Nat
  BY <1>1, JwksAssumption DEF JwksInv, TypeOK, Times, Zero
<1>3. TypeOK'
  BY <1>1, <1>2 DEF JwksInv, TypeOK
<1>4. LockInv' /\ TimeInv'
  BY <1>1, <1>2 DEF JwksInv, LockInv, TimeInv
<1>5. GotInv' /\ KeysInv'
  BY <1>1 DEF JwksInv, GotInv, KeysInv
<1>6. CallInv'
  <2>1. \A c \in Calls : call[c].tok.kid \in Kids
    BY JwksAssumption DEF JwksInv, TypeOK, CallState, TokenShape
  <2> QED
    BY <1>1, <1>2, <2>1 DEF JwksInv, CallInv
<1> QED
  BY <1>3, <1>4, <1>5, <1>6 DEF JwksInv

LEMMA StepInv == JwksInv /\ [Next]_vars => JwksInv'
<1> SUFFICES ASSUME JwksInv, [Next]_vars PROVE JwksInv'
  OBVIOUS
<1>1. ASSUME NEW c \in Calls, NEW tok \in Tokens, Arrive(c, tok) PROVE JwksInv'
  BY <1>1, ArriveInv
<1>2. ASSUME NEW c \in Calls, Enter(c) PROVE JwksInv'
  BY <1>2, SettleInv, StartFetchInv DEF Enter
<1>3. ASSUME NEW c \in Calls, FetchSteps(c) PROVE JwksInv'
  BY <1>3, ReadKeysInv, StoreKeysInv, FailFetchInv DEF FetchSteps
<1>4. ASSUME NEW c \in Calls, Leave(c) PROVE JwksInv'
  BY <1>4, LeaveInv
<1>5. ASSUME NEW k \in Kids, Roll(k) PROVE JwksInv'
  BY <1>5, RollInv
<1>6. CASE Tick
  BY <1>6, TickInv
<1>7. CASE UNCHANGED vars
  BY <1>7 DEF vars, JwksInv, TypeOK, LockInv, TimeInv, GotInv, KeysInv, CallInv
<1> QED
  BY <1>1, <1>2, <1>3, <1>4, <1>5, <1>6, <1>7 DEF Next

LEMMA InvHolds == Spec => []JwksInv
<1> QED
  BY InitInv, StepInv, PTL DEF Spec

\* The types of the code's variables, and that there are keys exactly if some were
\* fetched (gw_entrajwt.go:62-85).
THEOREM TypeCorrect == Spec => []TypeOK
<1>1. JwksInv => TypeOK
  BY DEF JwksInv
<1> QED
  BY <1>1, InvHolds, PTL

-----------------------------------------------------------------------------
\* How a call can be answered: by Verify at once, on the second look, or by the
\* end of its fetch.
LEMMA AnsweredBy ==
    ASSUME JwksInv, [Next]_vars, NEW c \in Calls, Answered(c)
    PROVE  \/ \E tok \in Tokens : Arrive(c, tok)
           \/ Settle(c) \/ StoreKeys(c) \/ FailFetch(c)
<1>0. call \in [Calls -> CallState]
  BY DEF JwksInv, TypeOK
<1>1. ASSUME NEW d \in Calls, d # c, NEW k, call' = [call EXCEPT ![d] = k]
      PROVE  FALSE
  BY <1>0, <1>1 DEF Answered
<1>2. ASSUME NEW k, k.pc # "done", call' = [call EXCEPT ![c] = k]
      PROVE  FALSE
  BY <1>0, <1>2 DEF Answered
<1>3. call' # call
  BY DEF Answered
<1>4. \A d \in Calls : call[d] \in CallState
  BY <1>0
<1>5. ASSUME NEW d \in Calls, StartFetch(d) PROVE FALSE
  <2>1. [call[d] EXCEPT !.pc = "fetching"].pc = "fetching"
    BY <1>4 DEF CallState
  <2> QED
    BY <1>1, <1>2, <1>5, <2>1 DEF StartFetch
<1>6. ASSUME NEW d \in Calls, ReadKeys(d) PROVE FALSE
  <2>1. [call[d] EXCEPT !.got = Published].pc = "fetching"
    BY <1>4, <1>6 DEF CallState, ReadKeys
  <2> QED
    BY <1>1, <1>2, <1>6, <2>1 DEF ReadKeys
<1>7. ASSUME NEW d \in Calls, Leave(d) PROVE FALSE
  BY <1>1, <1>2, <1>7, IdleType DEF Leave
<1>8. ASSUME NEW d \in Calls, d # c, NEW tok \in Tokens, Arrive(d, tok) PROVE FALSE
  BY <1>1, <1>8 DEF Arrive
<1>9. ASSUME NEW d \in Calls, d # c, Settle(d) \/ StoreKeys(d) \/ FailFetch(d)
      PROVE  FALSE
  BY <1>1, <1>9 DEF Settle, StoreKeys, FailFetch
<1>10. ~Tick /\ \A k \in Kids : ~Roll(k)
  BY <1>3 DEF Tick, Roll
<1>11. Next
  BY <1>3 DEF vars
<1> QED
  BY <1>5, <1>6, <1>7, <1>8, <1>9, <1>10, <1>11 DEF Next, Enter, FetchSteps

\* What each of the four tells the caller.
LEMMA ArriveAnswers ==
    ASSUME JwksInv, NEW c \in Calls, NEW tok \in Tokens, Arrive(c, tok), Answered(c)
    PROVE  /\ call'[c].tok = tok /\ call'[c].verdict \in BOOLEAN
           /\ call[c].pc = "idle"
           /\ call'[c].verdict => tok.kid \in keys /\ Fresh
           /\ ~call'[c].verdict => ~tok.holds
<1> DEFINE begun == Locals("waiting", tok, FALSE, tok.kid \in keys, Due(tok.kid))
<1>1. tok.jws \in BOOLEAN /\ tok.holds \in BOOLEAN /\ tok.kid \in Kids /\ (tok.holds => tok.jws)
  BY JwksAssumption DEF TokenShape
<1>2. begun \in CallState /\ begun.pc = "waiting" /\ begun.tok = tok
  BY DEF Locals, CallState, Due
<1>3. /\ Ends(begun, FALSE) \in CallState /\ Ends(begun, TRUE) \in CallState
      /\ Ends(begun, FALSE).tok = tok /\ Ends(begun, TRUE).tok = tok
      /\ Ends(begun, FALSE).verdict = FALSE /\ Ends(begun, TRUE).verdict = tok.holds
  BY <1>1, <1>2, EndsType
<1>4. call[c].pc = "idle"
      /\ call' = [call EXCEPT ![c] = IF ~tok.jws THEN Ends(begun, FALSE)
                                     ELSE IF tok.kid \in keys /\ Fresh THEN Ends(begun, TRUE)
                                     ELSE begun]
  BY DEF Arrive
<1> HIDE DEF begun
<1>5. call'[c] = IF ~tok.jws THEN Ends(begun, FALSE)
                 ELSE IF tok.kid \in keys /\ Fresh THEN Ends(begun, TRUE)
                 ELSE begun
  BY <1>4 DEF JwksInv, TypeOK
<1>6. call'[c] # begun
  BY <1>2 DEF Answered
<1> QED
  BY <1>1, <1>3, <1>4, <1>5, <1>6

LEMMA SettleAnswers ==
    ASSUME JwksInv, NEW c \in Calls, Settle(c)
    PROVE  /\ call'[c].tok = call[c].tok
           /\ call'[c].verdict = (call[c].tok.kid \in keys /\ call[c].tok.holds)
<1>1. call[c] \in CallState /\ (call[c].tok.kid \in keys) \in BOOLEAN
  BY DEF JwksInv, TypeOK
<1>2. call'[c] = Ends(call[c], call[c].tok.kid \in keys)
  BY DEF Settle, JwksInv, TypeOK
<1>3. /\ Ends(call[c], call[c].tok.kid \in keys).tok = call[c].tok
      /\ Ends(call[c], call[c].tok.kid \in keys).verdict
           = (call[c].tok.kid \in keys /\ call[c].tok.holds)
  BY <1>1, EndsType
<1> QED
  BY <1>2, <1>3

LEMMA StoreAnswers ==
    ASSUME JwksInv, NEW c \in Calls, StoreKeys(c)
    PROVE  /\ call'[c].tok = call[c].tok
           /\ call'[c].verdict = (call[c].tok.kid \in call[c].got /\ call[c].tok.holds)
<1>1. call[c] \in CallState /\ (call[c].tok.kid \in call[c].got) \in BOOLEAN
  BY DEF JwksInv, TypeOK
<1>2. call'[c] = Ends(call[c], call[c].tok.kid \in call[c].got)
  BY DEF StoreKeys, JwksInv, TypeOK
<1>3. /\ Ends(call[c], call[c].tok.kid \in call[c].got).tok = call[c].tok
      /\ Ends(call[c], call[c].tok.kid \in call[c].got).verdict
           = (call[c].tok.kid \in call[c].got /\ call[c].tok.holds)
  BY <1>1, EndsType
<1> QED
  BY <1>2, <1>3

LEMMA FailAnswers ==
    ASSUME JwksInv, NEW c \in Calls, FailFetch(c)
    PROVE  /\ call'[c].tok = call[c].tok
           /\ call'[c].verdict = (call[c].tok.kid \in keys /\ call[c].tok.holds)
<1>1. call[c] \in CallState /\ (call[c].tok.kid \in keys) \in BOOLEAN
  BY DEF JwksInv, TypeOK
<1>2. call'[c] = Ends(call[c], call[c].tok.kid \in keys)
  BY DEF FailFetch, Kept, JwksInv, TypeOK
<1>3. /\ Ends(call[c], call[c].tok.kid \in keys).tok = call[c].tok
      /\ Ends(call[c], call[c].tok.kid \in keys).verdict
           = (call[c].tok.kid \in keys /\ call[c].tok.holds)
  BY <1>1, EndsType
<1> QED
  BY <1>2, <1>3

-----------------------------------------------------------------------------
\* The step of a caller that begins a fetch.
LEMMA FetchingBy ==
    ASSUME JwksInv, [Next]_vars, NEW c \in Calls,
           call[c].pc # "fetching", call'[c].pc = "fetching"
    PROVE  StartFetch(c)
<1>0. call \in [Calls -> CallState] /\ \A d \in Calls : call[d] \in CallState
  BY DEF JwksInv, TypeOK
<1>1. ASSUME NEW d \in Calls, d # c, NEW k, call' = [call EXCEPT ![d] = k]
      PROVE  FALSE
  BY <1>0, <1>1
<1>2. ASSUME NEW k, k.pc # "fetching", call' = [call EXCEPT ![c] = k]
      PROVE  FALSE
  BY <1>0, <1>2
<1>3. call' # call
  OBVIOUS
<1>4. ASSUME NEW k, NEW f PROVE Ends(k, f).pc # "fetching"
  BY DEF Ends, Locals
<1>5. ASSUME NEW d \in Calls, Settle(d) \/ StoreKeys(d) \/ FailFetch(d) \/ Leave(d)
      PROVE  FALSE
  BY <1>1, <1>2, <1>4, <1>5, IdleType DEF Settle, StoreKeys, FailFetch, Leave
<1>6. ASSUME NEW d \in Calls, ReadKeys(d) PROVE FALSE
  <2>1. call[d].pc = "fetching" /\ call' = [call EXCEPT ![d].got = Published]
    BY <1>6 DEF ReadKeys
  <2>2. CASE d = c
    BY <2>1, <2>2
  <2>3. CASE d # c
    BY <1>1, <2>1, <2>3
  <2> QED
    BY <2>2, <2>3
<1>7. ASSUME NEW d \in Calls, NEW tok \in Tokens, Arrive(d, tok) PROVE FALSE
  <2> DEFINE begun == Locals("waiting", tok, FALSE, tok.kid \in keys, Due(tok.kid))
  <2>1. begun.pc # "fetching"
    BY DEF Locals
  <2>2. \E k \in {begun, Ends(begun, FALSE), Ends(begun, TRUE)} :
          call' = [call EXCEPT ![d] = k]
    BY <1>7 DEF Arrive
  <2> HIDE DEF begun
  <2> QED
    BY <1>1, <1>2, <1>4, <2>1, <2>2
<1>8. ASSUME NEW d \in Calls, d # c, StartFetch(d) PROVE FALSE
  BY <1>1, <1>8 DEF StartFetch
<1>9. ~Tick /\ \A k \in Kids : ~Roll(k)
  BY <1>3 DEF Tick, Roll
<1>10. Next
  BY <1>3 DEF vars
<1> QED
  BY <1>5, <1>6, <1>7, <1>8, <1>9, <1>10 DEF Next, Enter, FetchSteps

\* Whatever is presented and however fetches end, the authority is asked at most
\* once in jwksMinRefresh (gw_entrajwt.go:186).
THEOREM FloodPrevented == Spec => NoFlood
<1>1. ASSUME JwksInv, [Next]_vars, NEW c \in Calls,
             call[c].pc # "fetching", call'[c].pc = "fetching"
      PROVE  clock - began >= MinRefresh
  <2>1. ~Throttled /\ began = triedAt
    BY <1>1, FetchingBy DEF StartFetch, JwksInv, TimeInv
  <2>2. clock \in Int /\ triedAt \in Int /\ MinRefresh \in Int
    BY <1>1, JwksAssumption DEF JwksInv, TypeOK, Times, Zero
  <2> QED
    BY <2>1, <2>2 DEF Throttled
<1>2. JwksInv /\ [Next]_vars =>
        [\A c \in Calls : call[c].pc # "fetching" /\ call'[c].pc = "fetching"
                            => clock - began >= MinRefresh]_vars
  BY <1>1
<1> QED
  BY <1>2, InvHolds, PTL DEF Spec, NoFlood

\* Neither a refresh that fails nor one that began before the key was known takes
\* a published key away from a caller that had it (gw_entrajwt.go:182).
THEOREM KnownKeysServed == Spec => KnownKeyAccepted
<1>1. ASSUME JwksInv, [Next]_vars, NEW c \in Calls, Refused(c), call[c].known
      PROVE  call'[c].tok.kid \notin Published
  <2>0. Answered(c) /\ ~call'[c].verdict /\ call'[c].tok.holds
    BY <1>1 DEF Refused
  <2>1. ASSUME NEW tok \in Tokens, Arrive(c, tok) PROVE FALSE
    BY <1>1, <2>0, <2>1, ArriveAnswers
  <2>2. CASE Settle(c)
    <3>1. call[c].pc = "waiting"
      BY <2>2 DEF Settle
    <3> QED
      BY <1>1, <2>0, <2>2, <3>1, SettleAnswers DEF JwksInv, CallInv, Published
  <2>3. CASE StoreKeys(c)
    <3>1. call[c].pc = "fetching" /\ call[c].got # {}
      BY <2>3 DEF StoreKeys
    <3> QED
      BY <1>1, <2>0, <2>3, <3>1, StoreAnswers
      DEF JwksInv, CallInv, GotInv, Published
  <2>4. CASE FailFetch(c)
    <3>1. call[c].pc = "fetching"
      BY <2>4 DEF FailFetch
    <3> QED
      BY <1>1, <2>0, <2>4, <3>1, FailAnswers DEF JwksInv, CallInv, Published
  <2> QED
    BY <1>1, <2>0, <2>1, <2>2, <2>3, <2>4, AnsweredBy
<1>2. JwksInv /\ [Next]_vars =>
        [\A c \in Calls : Refused(c) /\ call[c].known => call'[c].tok.kid \notin Published]_vars
  BY <1>1
<1> QED
  BY <1>2, InvHolds, PTL DEF Spec, KnownKeyAccepted

\* A rotation is noticed within jwksMinRefresh, unless the last fetch failed, which
\* one that its caller hung up on did (gw_entrajwt.go:204).
THEOREM RotationNoticed == Spec => NewKeySoon
<1>1. ASSUME JwksInv, [Next]_vars, NEW c \in Calls, Refused(c), call[c].due,
             call'[c].tok.kid \in Published
      PROVE  lastTry' = "failed"
  <2>0. /\ Answered(c) /\ ~call'[c].verdict /\ call'[c].tok.holds
        /\ tenant[call'[c].tok.kid] = "published"
        /\ call[c].tok.kid \in Kids
    BY <1>1, JwksAssumption DEF Refused, Published, JwksInv, TypeOK, CallState, TokenShape
  <2>1. ASSUME NEW tok \in Tokens, Arrive(c, tok) PROVE FALSE
    BY <1>1, <2>0, <2>1, ArriveAnswers
  <2>2. CASE Settle(c)
    <3> DEFINE k == call[c].tok.kid
    <3>1. /\ call[c].pc = "waiting" /\ fetchMu = NoCall /\ lastTry' = lastTry
          /\ k \in keys \/ Throttled
      BY <2>2 DEF Settle
    <3>2. k \notin keys /\ tenant[k] = "published" /\ call[c].tok.holds /\ Throttled
      BY <1>1, <2>0, <2>2, <3>1, SettleAnswers
    <3>3. /\ clock \in Int /\ triedAt \in Int /\ MinRefresh \in Nat /\ MaxAge \in Nat
          /\ since[k] \in Int /\ clock >= 0
      BY <1>1, <2>0, JwksAssumption DEF JwksInv, TypeOK, Times, Zero
    <3>4. since[k] + MinRefresh <= clock /\ clock < triedAt + MinRefresh
      BY <1>1, <3>1, <3>2, <3>3 DEF JwksInv, CallInv, Throttled
    <3>5. lastTry # "stored"
      BY <1>1, <2>0, <3>1, <3>2, <3>3, <3>4 DEF JwksInv, KeysInv
    <3>6. lastTry # "none"
      BY <1>1, <3>1, <3>3, <3>4 DEF JwksInv, TimeInv, Zero
    <3> QED
      BY <1>1, <3>1, <3>5, <3>6 DEF JwksInv, TypeOK
  <2>3. CASE StoreKeys(c)
    <3>1. call[c].pc = "fetching" /\ call[c].got # {}
      BY <2>3 DEF StoreKeys
    <3>2. call[c].tok.kid \notin call[c].got /\ tenant[call[c].tok.kid] = "published"
      BY <1>1, <2>0, <2>3, StoreAnswers
    <3> QED
      BY <1>1, <2>0, <3>1, <3>2 DEF JwksInv, CallInv, GotInv
  <2>4. CASE FailFetch(c)
    BY <2>4 DEF FailFetch
  <2> QED
    BY <1>1, <2>0, <2>1, <2>2, <2>3, <2>4, AnsweredBy
<1>2. JwksInv /\ [Next]_vars =>
        [\A c \in Calls : Refused(c) /\ call[c].due /\ call'[c].tok.kid \in Published
                            => lastTry' = "failed"]_vars
  BY <1>1
<1> QED
  BY <1>2, InvHolds, PTL DEF Spec, NewKeySoon

\* A withdrawn key is used for jwksMaxAge and the time of a fetch at most, unless
\* the last fetch failed (gw_entrajwt.go:202).
THEOREM StalenessBounded == Spec => StaleOnlyAfterFailure
<1> DEFINE Bounded(k) ==
             \/ k \in Published
             \/ tenant[k] = "withdrawn" /\ clock <= since[k] + MaxAge + MaxFetch
<1>1. ASSUME JwksInv, [Next]_vars, NEW c \in Calls, Accepted(c)
      PROVE  Bounded(call'[c].tok.kid) \/ lastTry' = "failed"
  <2>0. /\ Answered(c) /\ call'[c].verdict
        /\ clock \in Int /\ fetchedAt \in Int /\ triedAt \in Int
        /\ MaxAge \in Nat /\ MaxFetch \in Nat /\ MinRefresh \in Nat /\ MinRefresh <= MaxAge
        /\ triedAt <= clock
        /\ \A k \in Kids : since[k] \in Int
    BY <1>1, JwksAssumption DEF Accepted, JwksInv, TypeOK, TimeInv, Times, Zero
  <2>a. ASSUME NEW k \in keys, Fresh PROVE Bounded(k)
    BY <1>1, <2>0, <2>a DEF Fresh, JwksInv, KeysInv, TypeOK, Published
  <2>1. ASSUME NEW tok \in Tokens, Arrive(c, tok) PROVE Bounded(call'[c].tok.kid)
    BY <1>1, <2>0, <2>1, <2>a, ArriveAnswers
  <2>2. CASE Settle(c)
    <3> DEFINE k == call[c].tok.kid
    <3>1. fetchMu = NoCall /\ lastTry' = lastTry /\ ((k \in keys /\ Fresh) \/ Throttled)
      BY <2>2 DEF Settle
    <3>2. k \in keys /\ call'[c].tok.kid = k
      BY <1>1, <2>0, <2>2, SettleAnswers
    <3>3. CASE Fresh
      BY <2>a, <3>2, <3>3
    <3>4. CASE ~Fresh /\ lastTry = "stored"
      <4>1. triedAt <= fetchedAt /\ clock - triedAt < MinRefresh /\ fetchedAt # Zero
        BY <1>1, <3>1, <3>2, <3>4 DEF JwksInv, KeysInv, TypeOK, Throttled
      <4> QED
        BY <2>0, <3>4, <4>1 DEF Fresh
    <3>5. CASE ~Fresh /\ lastTry = "none"
      BY <1>1, <2>0, <3>1, <3>5 DEF JwksInv, TimeInv, TypeOK, Throttled, Zero, Times
    <3> QED
      BY <1>1, <3>1, <3>3, <3>4, <3>5 DEF JwksInv, TypeOK
  <2>3. CASE StoreKeys(c)
    <3>1. call[c].pc = "fetching" /\ call[c].got # {} /\ call[c].got \subseteq Kids
      BY <1>1, <2>3 DEF StoreKeys, JwksInv, TypeOK, CallState
    <3>2. call[c].tok.kid \in call[c].got /\ call'[c].tok.kid = call[c].tok.kid
      BY <1>1, <2>0, <2>3, StoreAnswers
    <3>3. fetchMu # NoCall /\ clock <= triedAt + MaxFetch
      BY <1>1, <3>1, JwksAssumption DEF JwksInv, LockInv
    <3> QED
      BY <1>1, <2>0, <3>1, <3>2, <3>3 DEF JwksInv, GotInv, Published
  <2>4. CASE FailFetch(c)
    BY <2>4 DEF FailFetch
  <2> QED
    BY <1>1, <2>0, <2>1, <2>2, <2>3, <2>4, AnsweredBy
<1>2. JwksInv /\ [Next]_vars =>
        [\A c \in Calls : LET kid == call'[c].tok.kid IN
           Accepted(c) =>
             \/ kid \in Published
             \/ tenant[kid] = "withdrawn" /\ clock <= since[kid] + MaxAge + MaxFetch
             \/ lastTry' = "failed"]_vars
  BY <1>1
<1> QED
  BY <1>2, InvHolds, PTL DEF Spec, StaleOnlyAfterFailure
=============================================================================
