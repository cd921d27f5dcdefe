------------------------- MODULE UsageLimiterProofs -------------------------
(* Proofs about UsageLimiter: types, slot conservation, the stream cap; the *)
(* rate cap; the day that covers its log; the bound on a day's overrun.     *)
EXTENDS UsageLimiter, FiniteSetTheorems, TLAPS

\* The limiter's day of a minute the clock can show is a day of the log.
LEMMA DayOfMinute == \A t \in Minutes : Day(t) \in Days
<1>1. ASSUME NEW t \in Minutes PROVE Day(t) \in Days
  <2> DEFINE M == MinutesPerDay
  <2>1. M \in Nat \ {0} /\ MaxMinute \in Nat /\ t \in Nat /\ t <= MaxMinute
    BY LimiterAssumption DEF Minutes
  <2>2. \A a \in Nat, b \in Nat, m \in Nat \ {0} :
           a <= b => a \div m \in Nat /\ b \div m \in Nat /\ a \div m <= b \div m
    OBVIOUS
  <2> QED BY <2>1, <2>2 DEF Day, Days
<1> QED BY <1>1

-----------------------------------------------------------------------------
(* Types. *)

LEMMA InitTyped == Init => TypeOK
<1> SUFFICES ASSUME Init PROVE TypeOK
  OBVIOUS
<1>1. 0 \in Minutes /\ 0 \in 0..MaxRestarts
  BY LimiterAssumption DEF Minutes
<1>2. \A p \in Principals, r \in Requests : Fresh(p, r) \in CallState
  BY <1>1, LimiterAssumption DEF Fresh, CallState, Limits, NoLimits, Stages, Ends
<1>3. call \in [Calls -> CallState]
  BY <1>2 DEF Init
<1> QED BY <1>1, <1>3 DEF Init, TypeOK, NoWindow, NoDay

\* What a finished handler leaves is a call that holds no slot.
LEMMA FinishedTyped ==
    ASSUME NEW k \in CallState, NEW end \in Ends
    PROVE  /\ Finished(k, end) \in CallState
           /\ Finished(k, end).pc = "done"
           /\ Finished(k, end).p = k.p
           /\ Finished(k, end).stream = k.stream
<1>1. 0 \in Minutes
  BY LimiterAssumption DEF Minutes
<1> QED
  BY <1>1 DEF Finished, Fresh, CallState, Limits, NoLimits, Stages, Ends

\* A call has the parts CallState says.
LEMMA CallParts ==
    ASSUME TypeOK, NEW c \in Calls
    PROVE  /\ call[c] \in CallState
           /\ call[c].p \in Principals /\ call[c].stream \in BOOLEAN
           /\ call[c].now \in Minutes /\ Day(call[c].now) \in Days
           /\ call[c].start \in Minutes /\ Day(call[c].start) \in Days
           /\ call[c].secs \in Nat /\ call[c].lim \in Limits
<1>1. call[c] \in CallState
  BY DEF TypeOK
<1>2. call[c].now \in Minutes /\ call[c].start \in Minutes
  BY <1>1 DEF CallState
<1> QED BY <1>1, <1>2, DayOfMinute DEF CallState

\* The windows and days the limiter's helpers answer have their types.
Windows == [minute : Minutes \cup {-1}, n : Nat]
AudioDays == [day : Days \cup {-1}, secs : Nat]

LEMMA HelpersTyped ==
    ASSUME TypeOK, NEW p \in Principals, NEW m \in Minutes
    PROVE  /\ Window(p, m) \in Windows
           /\ Counted(Window(p, m)) \in Windows
           /\ audio[p] \in AudioDays
           /\ \A d \in Days : Today(p, d) \subseteq AudioDays
<1>1. Window(p, m) \in Windows
  BY DEF TypeOK, Window, Windows
<1>2. ASSUME NEW d \in Days
      PROVE  Today(p, d) \subseteq AudioDays
  BY DEF TypeOK, Today, AudioDays
<1>3. Counted(Window(p, m)) \in Windows
  BY <1>1 DEF Counted, Windows
<1> QED BY <1>1, <1>2, <1>3 DEF TypeOK, AudioDays

\* What admission leaves in the limiter keeps its types.
LEMMA KeepTyped ==
    ASSUME TypeOK, NEW p \in Principals, NEW w \in Windows, NEW a \in AudioDays,
           NEW secs \in Nat, Keep(p, w, a, secs)
    PROVE  /\ windows' \in [Principals -> Windows]
           /\ audio' \in [Principals -> AudioDays]
           /\ drifted' \in [Principals -> BOOLEAN]
<1>1. Drifts(p, w, a) \in BOOLEAN
  BY DEF Drifts
<1>2. (drifted[p] \/ Drifts(p, w, a)) \in BOOLEAN
  BY <1>1
<1>3. AudioCharged(a, secs) \in AudioDays
  BY DEF AudioCharged, AudioDays
<1> QED BY <1>2, <1>3 DEF Keep, TypeOK, Windows, AudioDays

\* Moving one call to another state of a call keeps the type of call.
LEMMA CallTyped ==
    ASSUME TypeOK, NEW c \in Calls, NEW k \in CallState,
           call' = [call EXCEPT ![c] = k]
    PROVE  call' \in [Calls -> CallState]
BY DEF TypeOK

\* Adding to a principal's total of a day keeps the type of the totals.
LEMMA TotalTyped ==
    ASSUME NEW f \in [Principals -> [Days -> Nat]],
           NEW p \in Principals, NEW d \in Days, NEW n \in Nat
    PROVE  [f EXCEPT ![p][d] = @ + n] \in [Principals -> [Days -> Nat]]
OBVIOUS

LEMMA NextTyped ==
    ASSUME TypeOK, [Next]_vars,
           \A c \in Calls : call[c].pc = "releasing" => streams[call[c].p] > 0
    PROVE  TypeOK'
<1> USE LimiterAssumption
<1> USE DEF limiter, history
<1>1. ASSUME NEW c \in Calls, Arrive(c) PROVE TypeOK'
  <2>1. call[c] \in CallState /\ clock \in Minutes /\ limits[call[c].p] \in Limits
    BY CallParts DEF TypeOK
  <2>2. [call[c] EXCEPT !.pc = "arrived", !.start = clock,
                        !.lim = limits[call[c].p]] \in CallState
    BY <2>1 DEF CallState, Stages
  <2>3. call' \in [Calls -> CallState]
    BY <1>1, <2>2 DEF Arrive, TypeOK
  <2> QED BY <1>1, <2>3 DEF Arrive, TypeOK
<1>2. ASSUME NEW c \in Calls, RejectEarly(c) PROVE TypeOK'
  <2>1. [call[c] EXCEPT !.pc = "refused", !.secs = 0] \in CallState
    BY CallParts DEF CallState, Stages
  <2>2. call' \in [Calls -> CallState]
    BY <1>2, <2>1 DEF RejectEarly, TypeOK
  <2> QED BY <1>2, <2>2 DEF RejectEarly, TypeOK
<1>3. ASSUME NEW c \in Calls, ReadClock(c) PROVE TypeOK'
  <2>1. [call[c] EXCEPT !.pc = "admitting", !.now = clock] \in CallState
    BY CallParts DEF CallState, Stages, TypeOK
  <2>2. call' \in [Calls -> CallState]
    BY <1>3, <2>1 DEF ReadClock, TypeOK
  <2> QED BY <1>3, <2>2 DEF ReadClock, TypeOK
<1>4. ASSUME NEW c \in Calls, Admission(c) PROVE TypeOK'
  <2> DEFINE k == call[c]
             w == Window(k.p, k.now)
  <2> USE DEF Windows, AudioDays
  <2>1. /\ k \in CallState /\ k.p \in Principals /\ k.now \in Minutes
        /\ Day(k.now) \in Days /\ k.secs \in Nat /\ k.lim \in Limits
    BY CallParts
  <2>2. w \in Windows /\ Counted(w) \in Windows /\ audio[k.p] \in AudioDays
    BY <2>1, HelpersTyped
  <2>3. Today(k.p, Day(k.now)) \subseteq AudioDays
    BY <2>1, HelpersTyped
  <2> HIDE DEF Windows, AudioDays
  <2>13. [k EXCEPT !.pc = "refused", !.secs = 0] \in CallState
    BY <2>1 DEF CallState, Stages
  <2>4. Deny(c) => call' \in [Calls -> CallState]
    BY <2>13 DEF Deny, TypeOK
  <2>5. CountAdmission(k) => admitted' \in [Principals -> [Minutes -> Nat]]
    BY <2>1 DEF CountAdmission, TypeOK
  <2>6. [k EXCEPT !.pc = "admitted"] \in CallState
    BY <2>1 DEF CallState, Stages
  <2>7. [spent EXCEPT ![k.p][Day(k.now)] = @ + k.secs] \in [Principals -> [Days -> Nat]]
    BY <2>1 DEF TypeOK
  <2>8. CASE AdmitUnlimited(c)
    <3>1. call' \in [Calls -> CallState]
      BY <2>6, <2>8 DEF AdmitUnlimited, TypeOK
    <3> QED BY <2>7, <2>8, <3>1 DEF AdmitUnlimited, TypeOK
  <2>9. CASE DenyRate(c)
    <3>1. Keep(k.p, w, audio[k.p], 0) /\ Deny(c)
      BY <2>9 DEF DenyRate
    <3>2. /\ windows' \in [Principals -> Windows] /\ audio' \in [Principals -> AudioDays]
          /\ drifted' \in [Principals -> BOOLEAN]
      BY <2>1, <2>2, <3>1, KeepTyped
    <3> QED BY <2>4, <2>9, <3>1, <3>2 DEF DenyRate, TypeOK, Windows, AudioDays
  <2>10. CASE Admit(c)
    <3> DEFINE counts == k.lim.audio > 0 /\ k.secs > 0
    <3>1. PICK a \in (IF counts THEN Today(k.p, Day(k.now)) ELSE {audio[k.p]}) :
             \/ Keep(k.p, w, a, 0) /\ Deny(c) /\ UNCHANGED <<spent, admitted>>
             \/ /\ Keep(k.p, Counted(w), a, IF counts THEN k.secs ELSE 0)
                /\ call' = [call EXCEPT ![c].pc = "admitted"]
                /\ spent' = [spent EXCEPT ![k.p][Day(k.now)] = @ + k.secs]
                /\ CountAdmission(k)
      BY <2>10 DEF Admit
    <3>2. a \in AudioDays
      BY <2>2, <2>3, <3>1
    <3>3. (IF counts THEN k.secs ELSE 0) \in Nat /\ 0 \in Nat
      BY <2>1
    <3>4. /\ windows' \in [Principals -> Windows] /\ audio' \in [Principals -> AudioDays]
          /\ drifted' \in [Principals -> BOOLEAN]
      BY <2>1, <2>2, <3>1, <3>2, <3>3, KeepTyped
    <3>5. call' \in [Calls -> CallState]
      BY <2>4, <2>6, <3>1 DEF TypeOK
    <3>6. spent' \in [Principals -> [Days -> Nat]]
            /\ admitted' \in [Principals -> [Minutes -> Nat]]
      BY <2>5, <2>7, <3>1 DEF TypeOK
    <3> QED BY <2>10, <3>4, <3>5, <3>6 DEF Admit, TypeOK, Windows, AudioDays
  <2>11. CASE DenySlot(c)
    <3>1. Keep(k.p, w, audio[k.p], 0) /\ Deny(c)
      BY <2>11 DEF DenySlot
    <3>2. /\ windows' \in [Principals -> Windows] /\ audio' \in [Principals -> AudioDays]
          /\ drifted' \in [Principals -> BOOLEAN]
      BY <2>1, <2>2, <3>1, KeepTyped
    <3> QED BY <2>4, <2>11, <3>1, <3>2 DEF DenySlot, TypeOK, Windows, AudioDays
  <2>12. CASE AdmitStream(c)
    <3> DEFINE counts == k.metered /\ k.lim.audio > 0
    <3>1. PICK a \in (IF counts THEN Today(k.p, Day(k.now)) ELSE {audio[k.p]}) :
             \/ Keep(k.p, w, a, 0) /\ Deny(c) /\ UNCHANGED <<streams, admitted>>
             \/ /\ ~counts \/ a.secs < k.lim.audio
                /\ Keep(k.p, Counted(w), a, 0)
                /\ streams' = [streams EXCEPT ![k.p] = @ + 1]
                /\ call' = [call EXCEPT ![c].pc = "admitted",
                              ![c].left = IF counts THEN k.lim.audio - a.secs ELSE -1]
                /\ CountAdmission(k)
      BY <2>12 DEF AdmitStream
    <3>2. a \in AudioDays
      BY <2>2, <2>3, <3>1
    <3>3. /\ windows' \in [Principals -> Windows] /\ audio' \in [Principals -> AudioDays]
          /\ drifted' \in [Principals -> BOOLEAN]
      BY <2>1, <2>2, <3>1, <3>2, KeepTyped
    <3>4. ASSUME ~counts \/ a.secs < k.lim.audio
          PROVE  (IF counts THEN k.lim.audio - a.secs ELSE -1) \in Nat \cup {-1}
      BY <2>1, <3>2, <3>4 DEF AudioDays, Limits
    <3>5. CASE Deny(c) /\ UNCHANGED <<streams, admitted>>
      BY <2>4, <2>12, <3>3, <3>5 DEF AdmitStream, TypeOK, Windows, AudioDays
    <3>6. CASE /\ ~counts \/ a.secs < k.lim.audio
               /\ streams' = [streams EXCEPT ![k.p] = @ + 1]
               /\ call' = [call EXCEPT ![c].pc = "admitted",
                             ![c].left = IF counts THEN k.lim.audio - a.secs ELSE -1]
               /\ CountAdmission(k)
      <4>1. [k EXCEPT !.pc = "admitted",
                      !.left = IF counts THEN k.lim.audio - a.secs ELSE -1] \in CallState
        BY <2>1, <3>4, <3>6 DEF CallState, Stages
      <4>2. call' \in [Calls -> CallState]
        BY <3>6, <4>1 DEF TypeOK
      <4>3. streams' \in [Principals -> Nat]
        BY <2>1, <3>6 DEF TypeOK
      <4> QED BY <2>5, <2>12, <3>3, <3>6, <4>2, <4>3
              DEF AdmitStream, TypeOK, Windows, AudioDays
    <3> QED BY <3>1, <3>5, <3>6
  <2> QED BY <1>4, <2>8, <2>9, <2>10, <2>11, <2>12 DEF Admission
<1>5. ASSUME NEW c \in Calls, Serve(c) PROVE TypeOK'
  <2> DEFINE k == call[c]
  <2>1. k \in CallState /\ k.p \in Principals /\ Day(k.now) \in Days
    BY CallParts
  <2>2. \A pc \in {"open", "logging"} : [k EXCEPT !.pc = pc] \in CallState
    BY <2>1 DEF CallState, Stages
  <2>3. CASE Answer(c)
    <3>1. call' \in [Calls -> CallState]
      BY <2>2, <2>3 DEF Answer, TypeOK
    <3> QED BY <2>3, <3>1 DEF Answer, TypeOK
  <2>4. CASE AnswerUnrecorded(c)
    <3>1. Finished(k, "unrecorded") \in CallState
      BY <2>1, FinishedTyped DEF Ends
    <3>2. [k EXCEPT !.pc = "releasing", !.end = "unrecorded"] \in CallState
      BY <2>1 DEF CallState, Stages, Ends
    <3>3. call' \in [Calls -> CallState]
      BY <2>4, <3>1, <3>2 DEF AnswerUnrecorded, TypeOK
    <3> QED BY <2>4, <3>3 DEF AnswerUnrecorded, TypeOK
  <2>5. CASE Hijack(c)
    <3>1. call' \in [Calls -> CallState]
      BY <2>2, <2>5 DEF Hijack, TypeOK
    <3> QED BY <2>5, <3>1 DEF Hijack, TypeOK
  <2>6. ASSUME NEW secs \in 0..(MaxSession + Overshoot), EndSession(c, secs)
        PROVE  TypeOK'
    <3>4. secs \in Nat
      OBVIOUS
    <3>1. [k EXCEPT !.pc = "logging", !.secs = secs] \in CallState
      BY <2>1, <3>4 DEF CallState, Stages
    <3>2. call' \in [Calls -> CallState]
      BY <2>6, <3>1 DEF EndSession, TypeOK
    <3>3. spent' \in [Principals -> [Days -> Nat]]
      BY <2>1, <2>6 DEF EndSession, TypeOK
    <3> QED BY <2>6, <3>2, <3>3 DEF EndSession, TypeOK
  <2> QED BY <1>5, <2>3, <2>4, <2>5, <2>6 DEF Serve
<1>6. ASSUME NEW c \in Calls, RecordRefusal(c) PROVE TypeOK'
  <2>1. Finished(call[c], "recorded") \in CallState
    BY CallParts, FinishedTyped DEF Ends
  <2>2. call' \in [Calls -> CallState]
    BY <1>6, <2>1 DEF RecordRefusal, TypeOK
  <2> QED BY <1>6, <2>2 DEF RecordRefusal, TypeOK
<1>7. ASSUME NEW c \in Calls, AppendUsage(c) PROVE TypeOK'
  <2> DEFINE k == call[c]
  <2>1. k \in CallState /\ k.p \in Principals /\ Day(k.start) \in Days /\ k.secs \in Nat
    BY CallParts
  <2>2. PICK end \in {"recorded", "append failed"} :
          /\ logged' = IF end = "recorded"
                       THEN [logged EXCEPT ![k.p][Day(k.start)] = @ + k.secs]
                       ELSE logged
          /\ call' = [call EXCEPT ![c] =
               IF k.stream THEN [k EXCEPT !.pc = "releasing", !.end = end]
                           ELSE Finished(k, end)]
    BY <1>7 DEF AppendUsage
  <2>3. Finished(k, end) \in CallState
    BY <2>1, FinishedTyped DEF Ends
  <2>4. [k EXCEPT !.pc = "releasing", !.end = end] \in CallState
    BY <2>1 DEF CallState, Stages, Ends
  <2>5. call' \in [Calls -> CallState]
    BY <2>2, <2>3, <2>4 DEF TypeOK
  <2>6. [logged EXCEPT ![k.p][Day(k.start)] = @ + k.secs] \in [Principals -> [Days -> Nat]]
    <3>1. logged \in [Principals -> [Days -> Nat]]
      BY DEF TypeOK
    <3> QED BY <2>1, <3>1, TotalTyped
  <2>7. logged' \in [Principals -> [Days -> Nat]]
    BY <2>2, <2>6 DEF TypeOK
  <2> QED BY <1>7, <2>5, <2>7 DEF AppendUsage, TypeOK
<1>8. ASSUME NEW c \in Calls, Release(c) PROVE TypeOK'
  <2> DEFINE k == call[c]
  <2>1. k \in CallState /\ k.p \in Principals /\ k.secs \in Nat /\ k.end \in Ends
    BY CallParts DEF CallState
  <2>2. Finished(k, k.end) \in CallState
    BY <2>1, FinishedTyped
  <2>3. call' \in [Calls -> CallState]
    BY <1>8, <2>2 DEF Release, TypeOK
  <2>4. streams' \in [Principals -> Nat]
    BY <1>8, <2>1 DEF Release, TypeOK
  <2> DEFINE a == audio[k.p]
             charged == IF a # NoDay /\ a.day = Day(k.now) THEN a.secs + k.secs ELSE a.secs
  <2>6. a \in [day : Days \cup {-1}, secs : Nat]
    BY <2>1 DEF TypeOK
  <2>7. [a EXCEPT !.secs = charged] \in [day : Days \cup {-1}, secs : Nat]
    BY <2>1, <2>6
  <2>8. audio' = [audio EXCEPT ![k.p] = [a EXCEPT !.secs = charged]]
    BY <1>8 DEF Release
  <2>5. audio' \in [Principals -> [day : Days \cup {-1}, secs : Nat]]
    BY <2>7, <2>8 DEF TypeOK
  <2> QED BY <1>8, <2>3, <2>4, <2>5 DEF Release, TypeOK
<1>9. ASSUME NEW p \in Principals, PutLimits(p) PROVE TypeOK'
  BY <1>9 DEF PutLimits, TypeOK
<1>10. CASE Tick
  BY <1>10 DEF Tick, TypeOK, Minutes
<1>11. CASE Restart
  <2>1. \A c \in Calls : Finished(call[c], "killed") \in CallState
    BY CallParts, FinishedTyped DEF Ends
  <2>2. call' \in [Calls -> CallState]
    BY <1>11, <2>1, CallParts DEF Restart
  <2>3. restarts' \in 0..MaxRestarts
    BY <1>11 DEF Restart, TypeOK
  <2> QED BY <1>11, <2>2, <2>3 DEF Restart, TypeOK, NoWindow, NoDay
<1>12. CASE UNCHANGED vars
  BY <1>12 DEF vars, TypeOK
<1> QED BY <1>1, <1>2, <1>3, <1>4, <1>5, <1>6, <1>7, <1>8, <1>9, <1>10, <1>11, <1>12
        DEF Next, Handle

-----------------------------------------------------------------------------
(* What a step does to the slots. *)

OnlySessionsOpen ==
    \A c \in Calls : call[c].pc \in {"open", "releasing"} => call[c].stream

SlotsKept ==
    /\ streams' = streams
    /\ \A p \in Principals : Holders(p)' = Holders(p)

SlotTaken(c) ==
    /\ c \notin Holders(call[c].p)
    /\ SlotFree(call[c].p, call[c].lim)
    /\ streams' = [streams EXCEPT ![call[c].p] = @ + 1]
    /\ \A p \in Principals :
         Holders(p)' = IF p = call[c].p THEN Holders(p) \cup {c} ELSE Holders(p)

SlotFreed(c) ==
    /\ c \in Holders(call[c].p)
    /\ streams' = [streams EXCEPT ![call[c].p] = @ - 1]
    /\ \A p \in Principals :
         Holders(p)' = IF p = call[c].p THEN Holders(p) \ {c} ELSE Holders(p)

SlotsCleared ==
    /\ streams' = [p \in Principals |-> 0]
    /\ \A p \in Principals : Holders(p)' = {}

SlotStep == \/ SlotsKept
            \/ \E c \in Calls : SlotTaken(c) \/ SlotFreed(c)
            \/ SlotsCleared

\* A session keeps the limits it was admitted under.
LimitsKept ==
    \A p \in Principals : \A c \in Holders(p)' : call'[c].lim = call[c].lim

\* A call that neither takes nor gives back a slot.
LEMMA SlotUntouched ==
    ASSUME TypeOK, OnlySessionsOpen, NEW c \in Calls, NEW k \in CallState,
           call' = [call EXCEPT ![c] = k], k.p = call[c].p,
           HoldsSlot(k) <=> HoldsSlot(call[c]),
           HoldsSlot(k) => k.lim = call[c].lim,
           k.pc \in {"open", "releasing"} => k.stream,
           streams' = streams
    PROVE  SlotStep /\ LimitsKept /\ OnlySessionsOpen'
<1>1. \A b \in Calls : call'[b] = IF b = c THEN k ELSE call[b]
  BY DEF TypeOK
<1>2. \A p \in Principals : Holders(p)' = Holders(p)
  BY <1>1 DEF Holders
<1>3. LimitsKept
  BY <1>1 DEF LimitsKept, Holders
<1>4. OnlySessionsOpen'
  BY <1>1 DEF OnlySessionsOpen
<1> QED BY <1>2, <1>3, <1>4 DEF SlotStep, SlotsKept

LEMMA StepOnSlots ==
    ASSUME TypeOK, OnlySessionsOpen, [Next]_vars
    PROVE  SlotStep /\ LimitsKept /\ OnlySessionsOpen'
<1> USE DEF limiter, history
<1>1. ASSUME NEW c \in Calls, Arrive(c)
      PROVE  SlotStep /\ LimitsKept /\ OnlySessionsOpen'
  <2> DEFINE k == [call[c] EXCEPT !.pc = "arrived", !.start = clock,
                                  !.lim = limits[call[c].p]]
  <2>4. call[c] \in CallState /\ clock \in Minutes /\ limits[call[c].p] \in Limits
    BY CallParts, LimiterAssumption DEF TypeOK
  <2>1. k \in CallState
    BY <2>4 DEF CallState, Stages
  <2>2. call' = [call EXCEPT ![c] = k] /\ streams' = streams /\ call[c].pc = "idle"
    BY <1>1 DEF Arrive, TypeOK
  <2>3. k.p = call[c].p /\ ~HoldsSlot(k) /\ ~HoldsSlot(call[c]) /\ k.pc = "arrived"
    BY <2>2, CallParts DEF HoldsSlot, CallState
  <2> HIDE DEF k
  <2> QED BY <2>1, <2>2, <2>3, SlotUntouched
<1>2. ASSUME NEW c \in Calls, RejectEarly(c) \/ ReadClock(c)
      PROVE  SlotStep /\ LimitsKept /\ OnlySessionsOpen'
  <2>1. PICK k \in {[call[c] EXCEPT !.pc = "refused", !.secs = 0],
                    [call[c] EXCEPT !.pc = "admitting", !.now = clock]} :
           call' = [call EXCEPT ![c] = k]
    BY <1>2 DEF RejectEarly, ReadClock, TypeOK
  <2>5. call[c] \in CallState /\ clock \in Minutes
    BY CallParts DEF TypeOK
  <2>6. [call[c] EXCEPT !.pc = "refused", !.secs = 0] \in CallState
    BY <2>5 DEF CallState, Stages
  <2>7. [call[c] EXCEPT !.pc = "admitting", !.now = clock] \in CallState
    BY <2>5 DEF CallState, Stages
  <2>2. k \in CallState
    BY <2>1, <2>6, <2>7
  <2>3. streams' = streams /\ call[c].pc = "arrived"
    BY <1>2 DEF RejectEarly, ReadClock
  <2>4. /\ k.p = call[c].p /\ ~HoldsSlot(k) /\ ~HoldsSlot(call[c])
        /\ k.pc \notin {"open", "releasing"}
    BY <2>1, <2>3, CallParts DEF HoldsSlot, CallState
  <2> QED BY <2>1, <2>2, <2>3, <2>4, SlotUntouched
<1>3. ASSUME NEW c \in Calls, streams' = streams, call[c].pc = "admitting", Deny(c)
      PROVE  SlotStep /\ LimitsKept /\ OnlySessionsOpen'
  <2> DEFINE k == [call[c] EXCEPT !.pc = "refused", !.secs = 0]
  <2>1. k \in CallState
    BY CallParts DEF CallState, Stages
  <2>2. call' = [call EXCEPT ![c] = k]
    BY <1>3 DEF Deny, TypeOK
  <2>3. k.p = call[c].p /\ ~HoldsSlot(k) /\ ~HoldsSlot(call[c]) /\ k.pc = "refused"
    BY <1>3, CallParts DEF HoldsSlot, CallState
  <2> HIDE DEF k
  <2> QED BY <1>3, <2>1, <2>2, <2>3, SlotUntouched
<1>4. ASSUME NEW c \in Calls, streams' = streams, call[c].pc = "admitting",
             ~call[c].stream, call' = [call EXCEPT ![c].pc = "admitted"]
      PROVE  SlotStep /\ LimitsKept /\ OnlySessionsOpen'
  <2> DEFINE k == [call[c] EXCEPT !.pc = "admitted"]
  <2>1. k \in CallState
    BY CallParts DEF CallState, Stages
  <2>2. call' = [call EXCEPT ![c] = k]
    BY <1>4 DEF TypeOK
  <2>3. k.p = call[c].p /\ ~HoldsSlot(k) /\ ~HoldsSlot(call[c]) /\ k.pc = "admitted"
    BY <1>4, CallParts DEF HoldsSlot, CallState
  <2> HIDE DEF k
  <2> QED BY <1>4, <2>1, <2>2, <2>3, SlotUntouched
<1>5. ASSUME NEW c \in Calls, Admission(c)
      PROVE  SlotStep /\ LimitsKept /\ OnlySessionsOpen'
  <2>1. CASE AdmitUnlimited(c)
    BY <1>4, <2>1 DEF AdmitUnlimited
  <2>2. CASE DenyRate(c)
    BY <1>3, <2>2 DEF DenyRate
  <2>3. CASE Admit(c)
    BY <1>3, <1>4, <2>3 DEF Admit
  <2>4. CASE DenySlot(c)
    BY <1>3, <2>4 DEF DenySlot
  <2>5. CASE AdmitStream(c)
    <3>1. /\ call[c].pc = "admitting" /\ call[c].stream
          /\ SlotFree(call[c].p, call[c].lim)
      BY <2>5 DEF AdmitStream
    <3>2. \/ streams' = streams /\ Deny(c)
          \/ /\ streams' = [streams EXCEPT ![call[c].p] = @ + 1]
             /\ \E left : call' = [call EXCEPT ![c].pc = "admitted", ![c].left = left]
      BY <2>5 DEF AdmitStream
    <3>3. ASSUME streams' = [streams EXCEPT ![call[c].p] = @ + 1],
                 NEW left, call' = [call EXCEPT ![c].pc = "admitted", ![c].left = left]
          PROVE  SlotStep /\ LimitsKept /\ OnlySessionsOpen'
      <4>1. \A b \in Calls : /\ b # c => call'[b] = call[b]
                             /\ call'[c].pc = "admitted" /\ call'[c].p = call[c].p
                             /\ call'[c].stream = call[c].stream
                             /\ call'[c].lim = call[c].lim
        BY <3>3, CallParts DEF TypeOK, CallState
      <4>2. ~HoldsSlot(call[c]) /\ HoldsSlot(call'[c])
        BY <3>1, <4>1 DEF HoldsSlot
      <4>3. \A p \in Principals :
               Holders(p)' = IF p = call[c].p THEN Holders(p) \cup {c} ELSE Holders(p)
        BY <4>1, <4>2 DEF Holders
      <4>4. c \notin Holders(call[c].p)
        BY <4>2 DEF Holders
      <4>5. LimitsKept
        BY <4>1 DEF LimitsKept, Holders
      <4>6. OnlySessionsOpen'
        BY <4>1 DEF OnlySessionsOpen
      <4> QED BY <3>1, <3>3, <4>3, <4>4, <4>5, <4>6 DEF SlotStep, SlotTaken
    <3> QED BY <1>3, <3>1, <3>2, <3>3
  <2> QED BY <1>5, <2>1, <2>2, <2>3, <2>4, <2>5 DEF Admission
<1>6. ASSUME NEW c \in Calls, NEW pc \in {"logging", "open"}, streams' = streams,
             call[c].pc \in {"admitted", "open"},
             call[c].stream \/ (call[c].pc = "admitted" /\ pc = "logging"),
             \E secs \in Nat : call' = [call EXCEPT ![c].pc = pc, ![c].secs = secs]
      PROVE  SlotStep /\ LimitsKept /\ OnlySessionsOpen'
  <2>1. PICK secs \in Nat : call' = [call EXCEPT ![c].pc = pc, ![c].secs = secs]
    BY <1>6
  <2> DEFINE k == [call[c] EXCEPT !.pc = pc, !.secs = secs]
  <2>2. k \in CallState
    BY CallParts DEF CallState, Stages
  <2>3. call' = [call EXCEPT ![c] = k]
    BY <2>1 DEF TypeOK
  <2>4. /\ k.p = call[c].p /\ k.stream = call[c].stream /\ k.lim = call[c].lim
        /\ k.pc = pc
    BY CallParts DEF CallState
  <2>5. /\ HoldsSlot(k) <=> HoldsSlot(call[c])
        /\ k.pc \in {"open", "releasing"} => k.stream
    BY <1>6, <2>4 DEF HoldsSlot
  <2> HIDE DEF k
  <2> QED BY <1>6, <2>2, <2>3, <2>4, <2>5, SlotUntouched
<1>7. ASSUME NEW c \in Calls, NEW end \in Ends, streams' = streams,
             call[c].pc \in {"admitted", "logging"},
             call' = [call EXCEPT ![c] =
               IF call[c].stream THEN [call[c] EXCEPT !.pc = "releasing", !.end = end]
                                 ELSE Finished(call[c], end)]
      PROVE  SlotStep /\ LimitsKept /\ OnlySessionsOpen'
  <2> DEFINE k == IF call[c].stream THEN [call[c] EXCEPT !.pc = "releasing", !.end = end]
                                    ELSE Finished(call[c], end)
  <2>1. CASE call[c].stream
    <3>1. k \in CallState
      BY <2>1, CallParts DEF CallState, Stages
    <3>2. k.p = call[c].p /\ k.stream /\ k.lim = call[c].lim /\ k.pc = "releasing"
      BY <2>1, CallParts DEF CallState
    <3>3. HoldsSlot(k) /\ HoldsSlot(call[c])
      BY <1>7, <2>1, <3>2 DEF HoldsSlot
    <3>4. call' = [call EXCEPT ![c] = k]
      BY <1>7
    <3> HIDE DEF k
    <3> QED BY <1>7, <3>1, <3>2, <3>3, <3>4, SlotUntouched
  <2>2. CASE ~call[c].stream
    <3>1. k \in CallState /\ k.p = call[c].p /\ k.pc = "done"
      BY <2>2, CallParts, FinishedTyped
    <3>2. ~HoldsSlot(k) /\ ~HoldsSlot(call[c])
      BY <2>2, <3>1 DEF HoldsSlot
    <3>3. call' = [call EXCEPT ![c] = k]
      BY <1>7
    <3> HIDE DEF k
    <3> QED BY <1>7, <3>1, <3>2, <3>3, SlotUntouched
  <2> QED BY <2>1, <2>2
<1>8. ASSUME NEW c \in Calls, Serve(c)
      PROVE  SlotStep /\ LimitsKept /\ OnlySessionsOpen'
  <2>1. CASE Answer(c)
    <3>1. call' = [call EXCEPT ![c].pc = "logging", ![c].secs = call[c].secs]
      BY <2>1, CallParts DEF Answer, TypeOK, CallState
    <3> QED BY <1>6, <2>1, <3>1, CallParts DEF Answer
  <2>2. CASE AnswerUnrecorded(c)
    BY <1>7, <2>2 DEF AnswerUnrecorded, Ends
  <2>3. CASE Hijack(c)
    <3>1. call' = [call EXCEPT ![c].pc = "open", ![c].secs = call[c].secs]
      BY <2>3, CallParts DEF Hijack, TypeOK, CallState
    <3> QED BY <1>6, <2>3, <3>1, CallParts DEF Hijack
  <2>4. ASSUME NEW secs \in 0..(MaxSession + Overshoot), EndSession(c, secs)
        PROVE  SlotStep /\ LimitsKept /\ OnlySessionsOpen'
    <3>1. secs \in Nat /\ call[c].stream
      BY <2>4 DEF EndSession, OnlySessionsOpen
    <3> QED BY <1>6, <2>4, <3>1 DEF EndSession
  <2> QED BY <1>8, <2>1, <2>2, <2>3, <2>4 DEF Serve
<1>9. ASSUME NEW c \in Calls, RecordRefusal(c)
      PROVE  SlotStep /\ LimitsKept /\ OnlySessionsOpen'
  <2> DEFINE k == Finished(call[c], "recorded")
  <2>1. k \in CallState /\ k.p = call[c].p /\ k.pc = "done"
    BY CallParts, FinishedTyped DEF Ends
  <2>2. /\ call' = [call EXCEPT ![c] = k] /\ streams' = streams
        /\ ~HoldsSlot(k) /\ ~HoldsSlot(call[c])
    BY <1>9, <2>1 DEF RecordRefusal, HoldsSlot
  <2> HIDE DEF k
  <2> QED BY <2>1, <2>2, SlotUntouched
<1>10. ASSUME NEW c \in Calls, AppendUsage(c)
       PROVE  SlotStep /\ LimitsKept /\ OnlySessionsOpen'
  BY <1>7, <1>10 DEF AppendUsage, Ends
<1>11. ASSUME NEW c \in Calls, Release(c)
       PROVE  SlotStep /\ LimitsKept /\ OnlySessionsOpen'
  <2>1. call[c].pc = "releasing" /\ call[c].stream
    BY <1>11 DEF Release, OnlySessionsOpen
  <2>2. /\ Finished(call[c], call[c].end).pc = "done"
        /\ Finished(call[c], call[c].end).p = call[c].p
    BY CallParts, FinishedTyped DEF CallState
  <2>3. \A b \in Calls : /\ b # c => call'[b] = call[b]
                         /\ call'[c].pc = "done" /\ call'[c].p = call[c].p
    BY <1>11, <2>2 DEF Release, TypeOK
  <2>4. HoldsSlot(call[c]) /\ ~HoldsSlot(call'[c])
    BY <2>1, <2>3 DEF HoldsSlot
  <2>5. c \in Holders(call[c].p)
    BY <2>4 DEF Holders
  <2>6. \A p \in Principals :
           Holders(p)' = IF p = call[c].p THEN Holders(p) \ {c} ELSE Holders(p)
    BY <2>3, <2>4 DEF Holders
  <2>7. LimitsKept /\ OnlySessionsOpen'
    BY <2>3, <2>4 DEF LimitsKept, Holders, OnlySessionsOpen
  <2>8. streams' = [streams EXCEPT ![call[c].p] = @ - 1]
    BY <1>11 DEF Release
  <2> QED BY <2>5, <2>6, <2>7, <2>8 DEF SlotStep, SlotFreed
<1>12. CASE call' = call /\ streams' = streams
  BY <1>12 DEF SlotStep, SlotsKept, LimitsKept, OnlySessionsOpen, Holders
<1>13. CASE Restart
  <2>1. \A c \in Calls : call'[c].pc \in {"idle", "done"}
    BY <1>13, CallParts, FinishedTyped DEF Restart, Ends
  <2>2. \A p \in Principals : Holders(p)' = {}
    BY <2>1 DEF Holders, HoldsSlot
  <2>3. LimitsKept /\ OnlySessionsOpen'
    BY <2>1, <2>2 DEF LimitsKept, OnlySessionsOpen
  <2> QED BY <1>13, <2>2, <2>3 DEF SlotStep, SlotsCleared, Restart
<1> QED
  BY <1>1, <1>2, <1>5, <1>8, <1>9, <1>10, <1>11, <1>12, <1>13
     DEF Next, Handle, PutLimits, Tick, vars

-----------------------------------------------------------------------------
(* The invariants. *)

LimiterInv == TypeOK /\ SlotInv /\ AdmittedUnderCap

LEMMA InitInv == Init => LimiterInv
<1> SUFFICES ASSUME Init PROVE LimiterInv
  OBVIOUS
<1>1. TypeOK
  BY InitTyped
<1>2. \A c \in Calls : call[c].pc = "idle"
  BY DEF Init, Fresh
<1>3. \A p \in Principals : Holders(p) = {}
  BY <1>2 DEF Holders, HoldsSlot
<1>4. SlotInv
  BY <1>2, <1>3, FS_EmptySet DEF SlotInv, SlotConservation, Init
<1>5. AdmittedUnderCap
  BY <1>3 DEF AdmittedUnderCap
<1> QED BY <1>1, <1>4, <1>5 DEF LimiterInv

\* A session that still owes its release is counted.
LEMMA HolderCounted ==
    ASSUME TypeOK, SlotInv, NEW c \in Calls, HoldsSlot(call[c])
    PROVE  streams[call[c].p] > 0
<1> DEFINE p == call[c].p
<1>1. p \in Principals /\ c \in Holders(p)
  BY CallParts DEF Holders
<1>2. IsFiniteSet(Holders(p)) /\ streams[p] = Cardinality(Holders(p))
  BY <1>1 DEF SlotInv, SlotConservation
<1>3. Cardinality(Holders(p)) # 0 /\ Cardinality(Holders(p)) \in Nat
  BY <1>1, <1>2, FS_EmptySet, FS_CardinalityType
<1> QED BY <1>2, <1>3

LEMMA SlotsCounted ==
    ASSUME TypeOK, SlotInv, SlotStep
    PROVE  SlotConservation' /\ \A p \in Principals : IsFiniteSet(Holders(p))'
<1>1. \A p \in Principals : /\ IsFiniteSet(Holders(p))
                            /\ streams[p] = Cardinality(Holders(p))
  BY DEF SlotInv, SlotConservation
<1>2. CASE SlotsKept
  BY <1>1, <1>2 DEF SlotsKept, SlotConservation
<1>3. ASSUME NEW c \in Calls, SlotTaken(c)
      PROVE  SlotConservation' /\ \A p \in Principals : IsFiniteSet(Holders(p))'
  <2>1. call[c].p \in Principals
    BY CallParts
  <2>2. /\ IsFiniteSet(Holders(call[c].p) \cup {c})
        /\ Cardinality(Holders(call[c].p) \cup {c}) = streams[call[c].p] + 1
    BY <1>1, <1>3, <2>1, FS_AddElement DEF SlotTaken
  <2>3. \A p \in Principals : streams'[p] = IF p = call[c].p THEN streams[p] + 1 ELSE streams[p]
    BY <1>3, <2>1 DEF SlotTaken, TypeOK
  <2> QED BY <1>1, <1>3, <2>2, <2>3 DEF SlotTaken, SlotConservation
<1>4. ASSUME NEW c \in Calls, SlotFreed(c)
      PROVE  SlotConservation' /\ \A p \in Principals : IsFiniteSet(Holders(p))'
  <2>1. call[c].p \in Principals
    BY CallParts
  <2>2. /\ IsFiniteSet(Holders(call[c].p) \ {c})
        /\ Cardinality(Holders(call[c].p) \ {c}) = streams[call[c].p] - 1
    BY <1>1, <1>4, <2>1, FS_RemoveElement DEF SlotFreed
  <2>3. \A p \in Principals : streams'[p] = IF p = call[c].p THEN streams[p] - 1 ELSE streams[p]
    BY <1>4, <2>1 DEF SlotFreed, TypeOK
  <2> QED BY <1>1, <1>4, <2>2, <2>3 DEF SlotFreed, SlotConservation
<1>5. CASE SlotsCleared
  BY <1>5, FS_EmptySet DEF SlotsCleared, SlotConservation
<1> QED BY <1>2, <1>3, <1>4, <1>5 DEF SlotStep

LEMMA CapKept ==
    ASSUME TypeOK, SlotInv, AdmittedUnderCap, SlotStep, LimitsKept
    PROVE  AdmittedUnderCap'
<1> SUFFICES ASSUME NEW p \in Principals, NEW S \in SUBSET Holders(p)', S # {}
             PROVE  \E c \in S : Cap(call'[c].lim) <= 0 \/ Cardinality(S) <= Cap(call'[c].lim)
  BY DEF AdmittedUnderCap, Cap
<1>1. \A c \in S : call'[c].lim = call[c].lim
  BY DEF LimitsKept
<1>2. CASE S \subseteq Holders(p)
  <2>1. PICK c \in S : Cap(call[c].lim) <= 0 \/ Cardinality(S) <= Cap(call[c].lim)
    BY <1>2 DEF AdmittedUnderCap
  <2> QED BY <1>1, <2>1
<1>3. ASSUME NEW c \in Calls, SlotTaken(c), ~(S \subseteq Holders(p))
      PROVE  \E b \in S : Cap(call'[b].lim) <= 0 \/ Cardinality(S) <= Cap(call'[b].lim)
  <2>1. p = call[c].p /\ c \in S /\ S \subseteq Holders(p) \cup {c}
    BY <1>3 DEF SlotTaken
  <2>2. IsFiniteSet(Holders(p)) /\ streams[p] = Cardinality(Holders(p))
    BY DEF SlotInv, SlotConservation
  <2>3. IsFiniteSet(Holders(p) \cup {c}) /\ Cardinality(Holders(p) \cup {c}) = streams[p] + 1
    BY <1>3, <2>1, <2>2, FS_AddElement DEF SlotTaken
  <2>4. Cardinality(S) <= streams[p] + 1 /\ Cardinality(S) \in Nat
    BY <2>1, <2>3, FS_Subset, FS_CardinalityType
  <2>5. Cap(call[c].lim) <= 0 \/ streams[p] < Cap(call[c].lim)
    BY <1>3, <2>1 DEF SlotTaken, SlotFree
  <2>6. Cap(call[c].lim) \in Int /\ streams[p] \in Nat
    BY CallParts DEF Cap, Limits, DefaultMaxStreams, TypeOK
  <2> QED BY <1>1, <2>1, <2>4, <2>5, <2>6
<1>4. SlotsKept \/ SlotsCleared \/ (\E c \in Calls : SlotFreed(c)) => S \subseteq Holders(p)
  BY DEF SlotsKept, SlotsCleared, SlotFreed
<1> QED BY <1>2, <1>3, <1>4 DEF SlotStep

LEMMA NextInv == LimiterInv /\ [Next]_vars => LimiterInv'
<1> SUFFICES ASSUME TypeOK, SlotInv, AdmittedUnderCap, [Next]_vars PROVE LimiterInv'
  BY DEF LimiterInv
<1>1. OnlySessionsOpen
  BY DEF SlotInv, OnlySessionsOpen
<1>2. \A c \in Calls : call[c].pc = "releasing" => streams[call[c].p] > 0
  BY <1>1, HolderCounted DEF OnlySessionsOpen, HoldsSlot
<1>3. TypeOK'
  BY <1>2, NextTyped
<1>4. SlotStep /\ LimitsKept /\ OnlySessionsOpen'
  BY <1>1, StepOnSlots
<1>5. SlotInv'
  BY <1>4, SlotsCounted DEF SlotInv, OnlySessionsOpen
<1>6. AdmittedUnderCap'
  BY <1>4, CapKept
<1> QED BY <1>3, <1>5, <1>6 DEF LimiterInv

\* The inductive invariant holds of every behaviour: types, slot conservation and
\* the stream cap of usageLimiter.admitStream and release stand together.
THEOREM LimiterInvariant == Spec => []LimiterInv
<1> QED BY InitInv, NextInv, PTL DEF Spec

\* The limiter's state keeps its types, stream counts staying natural numbers:
\* release never takes usageLimiter.streams below zero.
THEOREM TypeCorrect == Spec => []TypeOK
<1>1. LimiterInv => TypeOK
  BY DEF LimiterInv
<1> QED BY <1>1, LimiterInvariant, PTL

\* However many calls there are and whatever they do, usageLimiter.streams is the
\* number of sessions that still owe their release.
THEOREM SlotsConserved == Spec => []SlotConservation
<1>1. LimiterInv => SlotConservation
  BY DEF LimiterInv, SlotInv
<1> QED BY <1>1, LimiterInvariant, PTL

\* Sessions open together include one admitted under limits allowing that many,
\* for every history of edits of maxStreams.
THEOREM CapRespected == Spec => []AdmittedUnderCap
<1>1. LimiterInv => AdmittedUnderCap
  BY DEF LimiterInv
<1> QED BY <1>1, LimiterInvariant, PTL

-----------------------------------------------------------------------------
(* Quotas and rates: what is spent, charged, logged and still under way. *)

\* Every limit an operator can choose has a quota; has a stream cap.
Quotas == \A lim \in LimitChoices : lim.audio > 0
Capped == \A lim \in LimitChoices : Cap(lim) > 0

LongestCharge == MaxSession + Overshoot

\* The sessions that may yet charge, each with the longest charge.
May(p, d) == Cardinality(MayCharge(p, d)) * LongestCharge

InFlight == {"admitted", "open", "logging", "releasing"}

\* A call works on limits somebody chose, never reads the clock before it arrived,
\* and has a session's audio only once the session is over.
Sound(k) ==
    /\ k.pc \notin {"idle", "done"} => k.lim \in LimitChoices
    /\ k.pc = "arrived" => k.start <= clock
    /\ k.pc \in {"admitting"} \cup InFlight => k.start <= k.now
    /\ k.stream /\ k.pc \in {"idle", "arrived", "admitting", "admitted", "open"} =>
         k.secs = 0
    /\ k.stream /\ k.pc \in {"logging", "releasing"} =>
         k.secs <= LongestCharge /\ (k.metered \/ k.secs = 0)
    /\ k.pc \in {"open", "releasing"} => k.stream

\* Its audio counts, or will: then the day in memory is not before its own.
Counts(k) == k.pc \in InFlight /\ (IF k.stream THEN k.metered ELSE k.secs > 0)

SoundInv == \A c \in Calls : Sound(call[c])

DaysInv ==
    /\ \A c \in Calls : Counts(call[c]) /\ ~drifted[call[c].p] =>
                          audio[call[c].p].day >= Day(call[c].now)
    /\ \A p \in Principals : audio[p].day = -1 => audio[p] = NoDay

\* The plain calls that are charged and not recorded yet.
Plain(k, p) == k.p = p /\ ~k.stream /\ k.pc \in {"admitted", "logging"}
Charged(p, d) == {c \in Calls : Plain(call[c], p) /\ Day(call[c].start) = d}

\* The sessions that are over, and whose audio is not charged yet.
Over(p, d) == {c \in Holders(p) : /\ call[c].pc \in {"logging", "releasing"}
                                  /\ Day(call[c].now) = d}

FiniteInv == \A p \in Principals : IsFiniteSet({c \in Calls : Plain(call[c], p)})

\* No minute past the window's has taken a request, and the window has counted
\* every request of its minute.
RateInv ==
    \A p \in Principals, m \in Minutes :
        restarts = 0 /\ ~drifted[p] =>
            /\ admitted[p][m] <= MaxRpm
            /\ m = windows[p].minute => admitted[p][m] <= windows[p].n
            /\ m > windows[p].minute => admitted[p][m] = 0

\* What is logged and what will be is charged, or will be.
LogInv ==
    \A p \in Principals :
        audio[p] # NoDay /\ ~drifted[p] =>
            logged[p][audio[p].day] + Seconds(Charged(p, audio[p].day)) <=
                audio[p].secs + Seconds(Unreleased(p, audio[p].day))

\* What is spent on the day in memory is charged, or will be; nothing is spent on a
\* later day; and what open sessions may still spend fits the bound.
SpendInv ==
    \A p \in Principals, d \in Days :
        restarts = 0 /\ ~drifted[p] =>
            /\ d = audio[p].day => spent[p][d] <= audio[p].secs + Seconds(Over(p, d))
            /\ d > audio[p].day => spent[p][d] = 0
            /\ spent[p][d] + May(p, d) <= MaxAudio + MaxStreams * LongestCharge

StreamsInv == \A p \in Principals : streams[p] <= MaxStreams

-----------------------------------------------------------------------------
(* Facts about numbers and sums. *)

\* The seconds of these calls, in a state of the calls.
Units(k, S) == UNION {{c} \X (1..k[c].secs) : c \in S}

LEMMA OwnUnits ==
    ASSUME NEW c, NEW n \in Nat
    PROVE  IsFiniteSet({c} \X (1..n)) /\ Cardinality({c} \X (1..n)) = n
<1>1. IsFiniteSet({c}) /\ Cardinality({c}) = 1
  BY FS_Singleton
<1>2. IsFiniteSet(1..n) /\ Cardinality(1..n) = n
  BY FS_Interval
<1>3. /\ IsFiniteSet({c} \X (1..n))
      /\ Cardinality({c} \X (1..n)) = Cardinality({c}) * Cardinality(1..n)
  BY <1>1, <1>2, FS_Product
<1> QED
  BY <1>1, <1>2, <1>3

LEMMA UnitsFinite ==
    ASSUME NEW k, NEW S, IsFiniteSet(S), \A c \in S : k[c].secs \in Nat
    PROVE  IsFiniteSet(Units(k, S)) /\ Cardinality(Units(k, S)) \in Nat
<1> DEFINE T == {{c} \X (1..k[c].secs) : c \in S}
           g == [c \in S |-> {c} \X (1..k[c].secs)]
<1>1. g \in Surjection(S, T)
  BY DEF Surjection
<1>2. IsFiniteSet(T)
  BY <1>1, FS_Surjection
<1>3. \A u \in T : IsFiniteSet(u)
  <2>1. \A c \in S : IsFiniteSet({c} \X (1..k[c].secs))
    BY OwnUnits
  <2> QED
    BY <2>1
<1>4. IsFiniteSet(UNION T)
  <2> HIDE DEF T
  <2> QED
    BY <1>2, <1>3, FS_UNION
<1> QED
  BY <1>4, FS_CardinalityType DEF Units

LEMMA UnitsAdd ==
    ASSUME NEW k, NEW S, IsFiniteSet(S), \A b \in S : k[b].secs \in Nat,
           NEW c, c \notin S, k[c].secs \in Nat
    PROVE  Cardinality(Units(k, S \cup {c})) = Cardinality(Units(k, S)) + k[c].secs
<1> DEFINE U == {c} \X (1..k[c].secs)
<1>1. Units(k, S \cup {c}) = Units(k, S) \cup U
  BY DEF Units
<1>2. Units(k, S) \cap U = {}
  BY DEF Units
<1>3. IsFiniteSet(U) /\ Cardinality(U) = k[c].secs
  BY OwnUnits
<1>4. IsFiniteSet(Units(k, S)) /\ Cardinality(Units(k, S)) \in Nat
  BY UnitsFinite
<1> HIDE DEF U
<1>5. Cardinality(Units(k, S) \cup U)
        = Cardinality(Units(k, S)) + Cardinality(U) - Cardinality(Units(k, S) \cap U)
  BY <1>3, <1>4, FS_Union
<1>6. Cardinality(Units(k, S) \cap U) = 0
  BY <1>2, FS_EmptySet
<1>7. Cardinality(Units(k, S) \cup U) = Cardinality(Units(k, S)) + Cardinality(U)
  BY <1>3, <1>4, <1>5, <1>6
<1> QED
  BY <1>1, <1>3, <1>7

\* One element comes or goes.
LEMMA OneCounts ==
    ASSUME NEW S, NEW T, IsFiniteSet(S), NEW c, S \ {c} = T \ {c}
    PROVE  /\ IsFiniteSet(T) /\ Cardinality(S) \in Nat /\ Cardinality(T) \in Nat
           /\ Cardinality(T) = Cardinality(S) - (IF c \in S THEN 1 ELSE 0)
                                              + (IF c \in T THEN 1 ELSE 0)
<1> DEFINE R == S \ {c}
<1>1. IsFiniteSet(R) /\ Cardinality(R) = Cardinality(S) - (IF c \in S THEN 1 ELSE 0)
  BY FS_RemoveElement, FS_CardinalityType
<1>2. /\ IsFiniteSet(R \cup {c})
      /\ Cardinality(R \cup {c}) = IF c \in R THEN Cardinality(R) ELSE Cardinality(R) + 1
  BY <1>1, FS_AddElement
<1>3. T = IF c \in T THEN R \cup {c} ELSE R
  OBVIOUS
<1>4. Cardinality(R) \in Nat /\ Cardinality(S) \in Nat
  BY <1>1, FS_CardinalityType
<1> QED
  BY <1>1, <1>2, <1>3, <1>4

LEMMA Monotone ==
    ASSUME NEW a \in Nat, NEW b \in Nat, NEW n \in Nat, a <= b
    PROVE  a * n <= b * n
OBVIOUS

\* Calls of at most n seconds each have at most n times their number.
LEMMA UnitsBound ==
    ASSUME NEW k, NEW S, IsFiniteSet(S), NEW n \in Nat,
           \A c \in S : k[c].secs \in 0..n
    PROVE  Cardinality(Units(k, S)) <= Cardinality(S) * n
<1>1. IsFiniteSet(1..n) /\ Cardinality(1..n) = n
  BY FS_Interval
<1>2. IsFiniteSet(S \X (1..n)) /\ Cardinality(S \X (1..n)) = Cardinality(S) * Cardinality(1..n)
  BY <1>1, FS_Product
<1>3. Units(k, S) \subseteq S \X (1..n)
  <2>1. \A c \in S : 1..k[c].secs \subseteq 1..n
    OBVIOUS
  <2> QED
    BY <2>1 DEF Units
<1>4. Cardinality(Units(k, S)) <= Cardinality(S \X (1..n))
  BY <1>2, <1>3, FS_Subset
<1> QED
  BY <1>1, <1>2, <1>4

\* A nonempty finite set of natural numbers has a greatest one.
LEMMA Greatest ==
    ASSUME NEW T, T \subseteq Int, IsFiniteSet(T), NEW x \in T
    PROVE  Max(T) \in T /\ x <= Max(T)
<1> DEFINE Above(i) == {j \in T : j > i}
           A == {Above(i) : i \in T}
<1>1. A \subseteq FiniteSubsetsOf(T)
  BY FS_Subset DEF FiniteSubsetsOf
<1>2. PICK d \in A : \A e \in A : <<e, d>> \notin StrictSubsetOrdering(T)
  <2>1. A # {}
    OBVIOUS
  <2>2. IsWellFoundedOn(StrictSubsetOrdering(T), FiniteSubsetsOf(T))
    BY FS_StrictSubsetOrderingWellFounded
  <2> HIDE DEF A
  <2> QED
    BY <1>1, <2>1, <2>2, WFMin
<1>3. PICK i \in T : d = Above(i)
  OBVIOUS
<1>4. ASSUME NEW j \in T, j > i PROVE FALSE
  <2>1. i \in Int /\ j \in Int
    OBVIOUS
  <2>3. Above(j) \subseteq Above(i)
    <3>1. SUFFICES ASSUME NEW m \in T, m > j PROVE m > i
      OBVIOUS
    <3>2. m \in Int
      OBVIOUS
    <3> QED
      BY <1>4, <2>1, <3>1, <3>2
  <2>4. j \in Above(i)
    BY <1>4
  <2>5. j \notin Above(j)
    <3>1. ~(j > j)
      BY <2>1
    <3> QED
      BY <3>1
  <2>2. <<Above(j), Above(i)>> \in StrictSubsetOrdering(T)
    BY <2>3, <2>4, <2>5 DEF StrictSubsetOrdering
  <2> QED
    BY <1>2, <1>3, <2>2
<1>5. \A j \in T : i >= j
  BY <1>4
<1> QED
  BY <1>5 DEF Max

-----------------------------------------------------------------------------
(* What a step does to the call that takes it, and to its principal. *)

\* Only c moves, and stays the same exchange.
OnlyMoves(c) ==
    /\ \A b \in Calls : b # c => call'[b] = call[b]
    /\ call'[c] \in CallState
    /\ call'[c].p = call[c].p /\ call'[c].stream = call[c].stream
    /\ call'[c].metered = call[c].metered

From(c, pcs) == call[c].pc \in pcs
To(c, pcs) == call'[c].pc \in pcs

\* ... with the clock readings and the limits it works with ...
KeepsReadings(c) ==
    /\ call'[c].start = call[c].start /\ call'[c].now = call[c].now
    /\ call'[c].lim = call[c].lim

\* ... and its audio.
KeepsSecs(c) == call'[c].secs = call[c].secs

\* Before admission: nothing of the limiter is looked at.
Early(c) ==
    /\ \/ /\ From(c, {"idle"}) /\ To(c, {"arrived"}) /\ KeepsSecs(c)
          /\ call'[c].start = clock /\ call'[c].lim = limits[call[c].p]
       \/ /\ From(c, {"arrived"}) /\ To(c, {"admitting"}) /\ KeepsSecs(c)
          /\ call'[c].start = call[c].start /\ call'[c].now = clock
          /\ call'[c].lim = call[c].lim
       \/ /\ From(c, {"arrived"}) /\ To(c, {"refused"})
          /\ call'[c].lim = call[c].lim /\ call'[c].secs = 0
       \/ From(c, {"refused"}) /\ To(c, {"done"})
    /\ UNCHANGED <<limiter, logged, spent, admitted, drifted, restarts>>

\* The days admission can work on: the one in memory, or today's.
Looked(c) == {audio[call[c].p]} \cup Today(call[c].p, Day(call[c].now))

Readings(c) == Window(call[c].p, call[c].now)

Refused(c) ==
    /\ From(c, {"admitting"}) /\ To(c, {"refused"})
    /\ call'[c].lim = call[c].lim /\ call'[c].secs = 0
    /\ \E a \in Looked(c) : Keep(call[c].p, Readings(c), a, 0)
    /\ UNCHANGED <<streams, logged, spent, admitted, restarts>>

\* No limits at all: admitted without a look.
Unlimited(c) ==
    /\ From(c, {"admitting"}) /\ To(c, {"admitted"}) /\ ~call[c].stream
    /\ KeepsReadings(c) /\ KeepsSecs(c)
    /\ call[c].lim.rpm = 0 /\ call[c].lim.audio = 0
    /\ UNCHANGED <<limiter, logged, admitted, drifted, restarts>>

\* A plain call admitted under limits, its audio charged.
Taken(c) ==
    LET k == call[c]
        counts == k.lim.audio > 0 /\ k.secs > 0
    IN
    /\ From(c, {"admitting"}) /\ To(c, {"admitted"}) /\ ~k.stream
    /\ KeepsReadings(c) /\ KeepsSecs(c)
    /\ ~WindowFull(Readings(c), k.lim)
    /\ \E a \in IF counts THEN Today(k.p, Day(k.now)) ELSE {audio[k.p]} :
         /\ counts => a.secs + k.secs <= k.lim.audio
         /\ Keep(k.p, Counted(Readings(c)), a, IF counts THEN k.secs ELSE 0)
    /\ spent' = [spent EXCEPT ![k.p][Day(k.now)] = @ + k.secs]
    /\ CountAdmission(k)
    /\ UNCHANGED <<streams, logged, restarts>>

\* A session admitted to a slot.
Opened(c) ==
    LET k == call[c]
        counts == k.metered /\ k.lim.audio > 0
    IN
    /\ From(c, {"admitting"}) /\ To(c, {"admitted"}) /\ k.stream
    /\ KeepsReadings(c) /\ KeepsSecs(c)
    /\ ~WindowFull(Readings(c), k.lim) /\ SlotFree(k.p, k.lim)
    /\ \E a \in IF counts THEN Today(k.p, Day(k.now)) ELSE {audio[k.p]} :
         /\ counts => a.secs < k.lim.audio
         /\ Keep(k.p, Counted(Readings(c)), a, 0)
    /\ streams' = [streams EXCEPT ![k.p] = @ + 1]
    /\ CountAdmission(k)
    /\ UNCHANGED <<logged, spent, restarts>>

\* An admitted call that goes on, or a plain one that ends unrecorded.
Answered(c) ==
    /\ From(c, {"admitted"})
    /\ \/ To(c, {"logging"}) /\ KeepsReadings(c) /\ KeepsSecs(c)
       \/ To(c, {"open"}) /\ call[c].stream /\ KeepsReadings(c) /\ KeepsSecs(c)
       \/ /\ To(c, {"releasing"}) /\ call[c].stream /\ KeepsReadings(c) /\ KeepsSecs(c)
          /\ call'[c].end # "recorded"
       \/ To(c, {"done"}) /\ ~call[c].stream
    /\ UNCHANGED <<limiter, logged, spent, admitted, drifted, restarts>>

\* A session over, after so many seconds.
Ended(c) ==
    /\ From(c, {"open"}) /\ To(c, {"logging"}) /\ KeepsReadings(c)
    /\ call'[c].secs <= LongestCharge /\ (call[c].metered \/ call'[c].secs = 0)
    /\ spent' = [spent EXCEPT ![call[c].p][Day(call[c].now)] = @ + call'[c].secs]
    /\ UNCHANGED <<limiter, logged, admitted, drifted, restarts>>

\* A usage record written, or lost.
Appended(c) ==
    /\ From(c, {"logging"})
    /\ \/ To(c, {"releasing"}) /\ call[c].stream /\ KeepsReadings(c) /\ KeepsSecs(c)
       \/ To(c, {"done"}) /\ ~call[c].stream
    /\ \/ /\ logged' = [logged EXCEPT ![call[c].p][Day(call[c].start)] = @ + call[c].secs]
          /\ call[c].stream => call'[c].end = "recorded"
       \/ /\ logged' = logged
          /\ call[c].stream => call'[c].end # "recorded"
    /\ UNCHANGED <<limiter, spent, admitted, drifted, restarts>>

\* The slot given back and the audio charged.
Released(c) ==
    LET k == call[c]
        a == audio[k.p]
    IN
    /\ From(c, {"releasing"}) /\ To(c, {"done"})
    /\ streams' = [streams EXCEPT ![k.p] = @ - 1]
    /\ audio' = [audio EXCEPT ![k.p].secs =
         IF a # NoDay /\ a.day = Day(k.now) THEN @ + k.secs ELSE @]
    /\ UNCHANGED <<windows, logged, spent, admitted, drifted, restarts>>

CallStep(c) ==
    \/ Early(c) \/ Refused(c) \/ Unlimited(c) \/ Taken(c) \/ Opened(c)
    \/ Answered(c) \/ Ended(c) \/ Appended(c) \/ Released(c)

\* One call put in another state.
LEMMA OneMove ==
    ASSUME TypeOK, NEW c \in Calls, NEW k \in CallState,
           k.p = call[c].p, k.stream = call[c].stream, k.metered = call[c].metered,
           call' = [call EXCEPT ![c] = k]
    PROVE  OnlyMoves(c) /\ call'[c] = k
BY DEF TypeOK, OnlyMoves

LEMMA DenyMoves ==
    ASSUME TypeOK, NEW c \in Calls, call[c].pc = "admitting", Deny(c)
    PROVE  /\ OnlyMoves(c) /\ From(c, {"admitting"}) /\ To(c, {"refused"})
           /\ call'[c].lim = call[c].lim /\ call'[c].secs = 0
<1> DEFINE k == [call[c] EXCEPT !.pc = "refused", !.secs = 0]
<1>1. /\ k \in CallState /\ k.p = call[c].p /\ k.stream = call[c].stream
      /\ k.metered = call[c].metered /\ k.pc = "refused" /\ k.lim = call[c].lim
      /\ k.secs = 0
  BY CallParts DEF CallState, Stages
<1>2. call' = [call EXCEPT ![c] = k]
  BY DEF Deny, TypeOK
<1> HIDE DEF k
<1>3. OnlyMoves(c) /\ call'[c] = k
  BY <1>1, <1>2, OneMove
<1> QED
  BY <1>1, <1>3 DEF From, To

LEMMA Finishes ==
    ASSUME TypeOK, NEW c \in Calls, NEW end \in Ends,
           call' = [call EXCEPT ![c] = Finished(call[c], end)]
    PROVE  OnlyMoves(c) /\ To(c, {"done"})
<1>1. /\ Finished(call[c], end) \in CallState /\ Finished(call[c], end).pc = "done"
      /\ Finished(call[c], end).p = call[c].p
      /\ Finished(call[c], end).stream = call[c].stream
      /\ Finished(call[c], end).metered = call[c].metered
  BY CallParts, FinishedTyped DEF Finished, Fresh
<1>2. OnlyMoves(c) /\ call'[c] = Finished(call[c], end)
  BY <1>1, OneMove
<1> QED
  BY <1>1, <1>2 DEF To

LEMMA AdmissionMoves ==
    ASSUME TypeOK, NEW c \in Calls, Admission(c)
    PROVE  OnlyMoves(c) /\ CallStep(c)
<1> USE DEF limiter, history
<1> DEFINE j == call[c]
<1>0. From(c, {"admitting"}) /\ j.pc = "admitting"
  BY DEF Admission, AdmitUnlimited, DenyRate, Admit, DenySlot, AdmitStream, From
<1>1. ASSUME call' = [call EXCEPT ![c].pc = "admitted"]
      PROVE  OnlyMoves(c) /\ To(c, {"admitted"}) /\ KeepsReadings(c) /\ KeepsSecs(c)
  <2> DEFINE k == [call[c] EXCEPT !.pc = "admitted"]
  <2>1. /\ k \in CallState /\ k.p = call[c].p /\ k.stream = call[c].stream
        /\ k.metered = call[c].metered /\ k.pc = "admitted" /\ k.lim = call[c].lim
        /\ k.secs = call[c].secs /\ k.start = call[c].start /\ k.now = call[c].now
    BY CallParts DEF CallState, Stages
  <2>2. call' = [call EXCEPT ![c] = k]
    BY <1>1 DEF TypeOK
  <2> HIDE DEF k, j
  <2>3. OnlyMoves(c) /\ call'[c] = k
    BY <2>1, <2>2, OneMove
  <2> QED
    BY <2>1, <2>3 DEF To, KeepsReadings, KeepsSecs
<1>2. ASSUME NEW left \in Nat \cup {-1},
             call' = [call EXCEPT ![c].pc = "admitted", ![c].left = left]
      PROVE  OnlyMoves(c) /\ To(c, {"admitted"}) /\ KeepsReadings(c) /\ KeepsSecs(c)
  <2> DEFINE k == [call[c] EXCEPT !.pc = "admitted", !.left = left]
  <2>1. /\ k \in CallState /\ k.p = call[c].p /\ k.stream = call[c].stream
        /\ k.metered = call[c].metered /\ k.pc = "admitted" /\ k.lim = call[c].lim
        /\ k.secs = call[c].secs /\ k.start = call[c].start /\ k.now = call[c].now
    BY CallParts DEF CallState, Stages
  <2>2. call' = [call EXCEPT ![c] = k]
    BY <1>2 DEF TypeOK
  <2> HIDE DEF k, j
  <2>3. OnlyMoves(c) /\ call'[c] = k
    BY <2>1, <2>2, OneMove
  <2> QED
    BY <2>1, <2>3 DEF To, KeepsReadings, KeepsSecs
<1>3. ASSUME Deny(c), \E a \in Looked(c) : Keep(j.p, Readings(c), a, 0),
             UNCHANGED <<streams, logged, spent, admitted, restarts>>
      PROVE  OnlyMoves(c) /\ CallStep(c)
  <2>1. Refused(c) /\ OnlyMoves(c)
    BY <1>0, <1>3, DenyMoves DEF Refused
  <2> QED
    BY <2>1 DEF CallStep
<1>4. CASE AdmitUnlimited(c)
  <2>1. call' = [call EXCEPT ![c].pc = "admitted"]
    BY <1>4 DEF AdmitUnlimited
  <2>2. Unlimited(c)
    BY <1>0, <1>1, <1>4, <2>1 DEF AdmitUnlimited, Unlimited
  <2> QED
    BY <1>1, <2>1, <2>2 DEF CallStep
<1>5. CASE DenyRate(c)
  BY <1>3, <1>5 DEF DenyRate, Looked, Readings
<1>6. CASE DenySlot(c)
  BY <1>3, <1>6 DEF DenySlot, Looked, Readings
<1>7. CASE Admit(c)
  <2> DEFINE w == Window(j.p, j.now)
             counts == j.lim.audio > 0 /\ j.secs > 0
  <2>1. /\ ~j.stream /\ ~WindowFull(w, j.lim)
        /\ UNCHANGED <<streams, logged, restarts>>
    BY <1>7 DEF Admit
  <2>2. PICK a \in (IF counts THEN Today(j.p, Day(j.now)) ELSE {audio[j.p]}) :
          \/ Keep(j.p, w, a, 0) /\ Deny(c) /\ UNCHANGED <<spent, admitted>>
          \/ /\ ~counts \/ a.secs + j.secs <= j.lim.audio
             /\ Keep(j.p, Counted(w), a, IF counts THEN j.secs ELSE 0)
             /\ call' = [call EXCEPT ![c].pc = "admitted"]
             /\ spent' = [spent EXCEPT ![j.p][Day(j.now)] = @ + j.secs]
             /\ CountAdmission(j)
    BY <1>7 DEF Admit
  <2>3. CASE Keep(j.p, w, a, 0) /\ Deny(c) /\ UNCHANGED <<spent, admitted>>
    <3>1. a \in Looked(c)
      BY <2>2 DEF Looked
    <3> QED
      BY <1>3, <2>1, <2>3, <3>1 DEF Readings
  <2>4. CASE /\ ~counts \/ a.secs + j.secs <= j.lim.audio
             /\ Keep(j.p, Counted(w), a, IF counts THEN j.secs ELSE 0)
             /\ call' = [call EXCEPT ![c].pc = "admitted"]
             /\ spent' = [spent EXCEPT ![j.p][Day(j.now)] = @ + j.secs]
             /\ CountAdmission(j)
    <3>1. Taken(c)
      BY <1>0, <1>1, <2>1, <2>2, <2>4 DEF Taken, Readings
    <3> QED
      BY <1>1, <2>4, <3>1 DEF CallStep
  <2> QED
    BY <2>2, <2>3, <2>4
<1>8. CASE AdmitStream(c)
  <2> DEFINE w == Window(j.p, j.now)
             counts == j.metered /\ j.lim.audio > 0
  <2>1. /\ j.stream /\ ~WindowFull(w, j.lim) /\ SlotFree(j.p, j.lim)
        /\ UNCHANGED <<logged, spent, restarts>>
    BY <1>8 DEF AdmitStream
  <2>2. PICK a \in (IF counts THEN Today(j.p, Day(j.now)) ELSE {audio[j.p]}) :
          \/ Keep(j.p, w, a, 0) /\ Deny(c) /\ UNCHANGED <<streams, admitted>>
          \/ /\ ~counts \/ a.secs < j.lim.audio
             /\ Keep(j.p, Counted(w), a, 0)
             /\ streams' = [streams EXCEPT ![j.p] = @ + 1]
             /\ call' = [call EXCEPT ![c].pc = "admitted",
                           ![c].left = IF counts THEN j.lim.audio - a.secs ELSE -1]
             /\ CountAdmission(j)
    BY <1>8 DEF AdmitStream
  <2>3. CASE Keep(j.p, w, a, 0) /\ Deny(c) /\ UNCHANGED <<streams, admitted>>
    <3>1. a \in Looked(c)
      BY <2>2 DEF Looked
    <3> QED
      BY <1>3, <2>1, <2>3, <3>1 DEF Readings
  <2>4. CASE /\ ~counts \/ a.secs < j.lim.audio
             /\ Keep(j.p, Counted(w), a, 0)
             /\ streams' = [streams EXCEPT ![j.p] = @ + 1]
             /\ call' = [call EXCEPT ![c].pc = "admitted",
                           ![c].left = IF counts THEN j.lim.audio - a.secs ELSE -1]
             /\ CountAdmission(j)
    <3>1. a \in AudioDays /\ j.lim \in Limits
      BY <2>2, CallParts, HelpersTyped
    <3>2. (IF counts THEN j.lim.audio - a.secs ELSE -1) \in Nat \cup {-1}
      BY <2>4, <3>1 DEF AudioDays, Limits
    <3>3. OnlyMoves(c) /\ To(c, {"admitted"}) /\ KeepsReadings(c) /\ KeepsSecs(c)
      <4> DEFINE left == IF counts THEN j.lim.audio - a.secs ELSE -1
      <4>1. left \in Nat \cup {-1} /\ call' = [call EXCEPT ![c].pc = "admitted", ![c].left = left]
        BY <2>4, <3>2
      <4> HIDE DEF left
      <4> QED
        BY <1>2, <4>1
    <3>4. Opened(c)
      BY <1>0, <2>1, <2>2, <2>4, <3>3 DEF Opened, Readings
    <3> QED
      BY <3>3, <3>4 DEF CallStep
  <2> QED
    BY <2>2, <2>3, <2>4
<1> QED
  BY <1>4, <1>5, <1>6, <1>7, <1>8 DEF Admission

\* Every action of a call is one of these steps.
LEMMA CallSteps ==
    ASSUME TypeOK, OnlySessionsOpen, NEW c \in Calls, Arrive(c) \/ Handle(c)
    PROVE  OnlyMoves(c) /\ CallStep(c)
<1> USE DEF limiter, history
<1>1. CASE Arrive(c)
  <2> DEFINE k == [call[c] EXCEPT !.pc = "arrived", !.start = clock,
                                  !.lim = limits[call[c].p]]
  <2>1. /\ k \in CallState /\ k.p = call[c].p /\ k.stream = call[c].stream
        /\ k.metered = call[c].metered
        /\ k.pc = "arrived" /\ k.start = clock /\ k.lim = limits[call[c].p]
        /\ k.secs = call[c].secs
    BY CallParts, LimiterAssumption DEF CallState, Stages, Ends, TypeOK
  <2>2. call' = [call EXCEPT ![c] = k]
    BY <1>1 DEF Arrive, TypeOK
  <2> HIDE DEF k
  <2>3. OnlyMoves(c) /\ call'[c] = k
    BY <2>1, <2>2, OneMove
  <2>4. Early(c)
    BY <1>1, <2>1, <2>3 DEF Early, Arrive, From, To, KeepsReadings, KeepsSecs
  <2> QED
    BY <2>3, <2>4 DEF CallStep
<1>2. CASE RejectEarly(c)
  <2> DEFINE k == [call[c] EXCEPT !.pc = "refused", !.secs = 0]
  <2>1. /\ k \in CallState /\ k.p = call[c].p /\ k.stream = call[c].stream
        /\ k.metered = call[c].metered
        /\ k.pc = "refused" /\ k.lim = call[c].lim /\ k.secs = 0
    BY CallParts DEF CallState, Stages, Ends, TypeOK
  <2>2. call' = [call EXCEPT ![c] = k]
    BY <1>2 DEF RejectEarly, TypeOK
  <2> HIDE DEF k
  <2>3. OnlyMoves(c) /\ call'[c] = k
    BY <2>1, <2>2, OneMove
  <2>4. Early(c)
    BY <1>2, <2>1, <2>3 DEF Early, RejectEarly, From, To, KeepsReadings, KeepsSecs
  <2> QED
    BY <2>3, <2>4 DEF CallStep
<1>3. CASE ReadClock(c)
  <2> DEFINE k == [call[c] EXCEPT !.pc = "admitting", !.now = clock]
  <2>1. /\ k \in CallState /\ k.p = call[c].p /\ k.stream = call[c].stream
        /\ k.metered = call[c].metered
        /\ k.pc = "admitting" /\ k.now = clock /\ k.secs = call[c].secs
        /\ k.start = call[c].start /\ k.lim = call[c].lim
    BY CallParts DEF CallState, Stages, Ends, TypeOK
  <2>2. call' = [call EXCEPT ![c] = k]
    BY <1>3 DEF ReadClock, TypeOK
  <2> HIDE DEF k
  <2>3. OnlyMoves(c) /\ call'[c] = k
    BY <2>1, <2>2, OneMove
  <2>4. Early(c)
    BY <1>3, <2>1, <2>3 DEF Early, ReadClock, From, To, KeepsReadings, KeepsSecs
  <2> QED
    BY <2>3, <2>4 DEF CallStep
<1>4. CASE Admission(c)
  BY <1>4, AdmissionMoves
<1>5. CASE Answer(c)
  <2> DEFINE k == [call[c] EXCEPT !.pc = "logging"]
  <2>1. /\ k \in CallState /\ k.p = call[c].p /\ k.stream = call[c].stream
        /\ k.metered = call[c].metered
        /\ k.pc = "logging" /\ k.secs = call[c].secs
        /\ k.start = call[c].start /\ k.now = call[c].now /\ k.lim = call[c].lim
    BY CallParts DEF CallState, Stages, Ends, TypeOK
  <2>2. call' = [call EXCEPT ![c] = k]
    BY <1>5 DEF Answer, TypeOK
  <2> HIDE DEF k
  <2>3. OnlyMoves(c) /\ call'[c] = k
    BY <2>1, <2>2, OneMove
  <2>4. Answered(c)
    BY <1>5, <2>1, <2>3 DEF Answered, Answer, From, To, KeepsReadings, KeepsSecs
  <2> QED
    BY <2>3, <2>4 DEF CallStep
<1>6. CASE Hijack(c)
  <2> DEFINE k == [call[c] EXCEPT !.pc = "open"]
  <2>1. /\ k \in CallState /\ k.p = call[c].p /\ k.stream = call[c].stream
        /\ k.metered = call[c].metered
        /\ k.pc = "open" /\ k.secs = call[c].secs
        /\ k.start = call[c].start /\ k.now = call[c].now /\ k.lim = call[c].lim
    BY CallParts DEF CallState, Stages, Ends, TypeOK
  <2>2. call' = [call EXCEPT ![c] = k]
    BY <1>6 DEF Hijack, TypeOK
  <2> HIDE DEF k
  <2>3. OnlyMoves(c) /\ call'[c] = k
    BY <2>1, <2>2, OneMove
  <2>4. Answered(c)
    BY <1>6, <2>1, <2>3 DEF Answered, Hijack, From, To, KeepsReadings, KeepsSecs
  <2> QED
    BY <2>3, <2>4 DEF CallStep
<1>7. CASE AnswerUnrecorded(c) /\ call[c].stream
  <2> DEFINE k == [call[c] EXCEPT !.pc = "releasing", !.end = "unrecorded"]
  <2>1. /\ k \in CallState /\ k.p = call[c].p /\ k.stream = call[c].stream
        /\ k.metered = call[c].metered
        /\ k.pc = "releasing" /\ k.end = "unrecorded" /\ k.secs = call[c].secs
        /\ k.start = call[c].start /\ k.now = call[c].now /\ k.lim = call[c].lim
    BY CallParts DEF CallState, Stages, Ends, TypeOK
  <2>2. call' = [call EXCEPT ![c] = k]
    BY <1>7 DEF AnswerUnrecorded, TypeOK
  <2> HIDE DEF k
  <2>3. OnlyMoves(c) /\ call'[c] = k
    BY <2>1, <2>2, OneMove
  <2>4. Answered(c)
    BY <1>7, <2>1, <2>3 DEF Answered, AnswerUnrecorded, From, To, KeepsReadings, KeepsSecs
  <2> QED
    BY <2>3, <2>4 DEF CallStep
<1>8. CASE AnswerUnrecorded(c) /\ ~call[c].stream
  <2>1. call' = [call EXCEPT ![c] = Finished(call[c], "unrecorded")]
    BY <1>8 DEF AnswerUnrecorded
  <2>2. OnlyMoves(c) /\ To(c, {"done"})
    BY <2>1, Finishes DEF Ends
  <2>3. Answered(c)
    BY <1>8, <2>2 DEF AnswerUnrecorded, Answered, From
  <2> QED
    BY <2>2, <2>3 DEF CallStep
<1>9. ASSUME NEW secs \in 0..(MaxSession + Overshoot), EndSession(c, secs)
      PROVE  OnlyMoves(c) /\ CallStep(c)
  <2> DEFINE k == [call[c] EXCEPT !.pc = "logging", !.secs = secs]
  <2>0. secs \in Nat
    OBVIOUS
  <2>1. /\ k \in CallState /\ k.p = call[c].p /\ k.stream = call[c].stream
        /\ k.metered = call[c].metered /\ k.pc = "logging" /\ k.secs = secs
        /\ k.start = call[c].start /\ k.now = call[c].now /\ k.lim = call[c].lim
    BY <2>0, CallParts DEF CallState, Stages
  <2>2. call' = [call EXCEPT ![c] = k]
    BY <1>9 DEF EndSession, TypeOK
  <2> HIDE DEF k
  <2>3. OnlyMoves(c) /\ call'[c] = k
    BY <2>1, <2>2, OneMove
  <2>4. secs <= LongestCharge /\ (call[c].metered \/ secs = 0)
    BY <1>9, LimiterAssumption DEF EndSession, LongestCharge
  <2>5. Ended(c)
    BY <1>9, <2>1, <2>3, <2>4 DEF EndSession, Ended, From, To, KeepsReadings
  <2> QED
    BY <2>3, <2>5 DEF CallStep
<1>10. CASE RecordRefusal(c)
  <2>1. OnlyMoves(c) /\ To(c, {"done"})
    BY <1>10, Finishes DEF RecordRefusal, Ends
  <2>2. Early(c)
    BY <1>10, <2>1 DEF RecordRefusal, Early, From
  <2> QED
    BY <2>1, <2>2 DEF CallStep
<1>11. CASE AppendUsage(c)
  <2>1. PICK end \in {"recorded", "append failed"} :
          /\ logged' = IF end = "recorded"
                       THEN [logged EXCEPT ![call[c].p][Day(call[c].start)] = @ + call[c].secs]
                       ELSE logged
          /\ call' = [call EXCEPT ![c] =
               IF call[c].stream THEN [call[c] EXCEPT !.pc = "releasing", !.end = end]
                                 ELSE Finished(call[c], end)]
    BY <1>11 DEF AppendUsage
  <2>2. CASE call[c].stream
    <3> DEFINE k == [call[c] EXCEPT !.pc = "releasing", !.end = end]
    <3>1. /\ k \in CallState /\ k.p = call[c].p /\ k.stream = call[c].stream
          /\ k.metered = call[c].metered /\ k.pc = "releasing" /\ k.end = end
          /\ k.secs = call[c].secs
          /\ k.start = call[c].start /\ k.now = call[c].now /\ k.lim = call[c].lim
      BY CallParts DEF CallState, Stages, Ends
    <3>2. call' = [call EXCEPT ![c] = k]
      BY <2>1, <2>2
    <3> HIDE DEF k
    <3>3. OnlyMoves(c) /\ call'[c] = k
      BY <3>1, <3>2, OneMove
    <3>4. Appended(c)
      BY <1>11, <2>1, <2>2, <3>1, <3>3
         DEF AppendUsage, Appended, From, To, KeepsReadings, KeepsSecs
    <3> QED
      BY <3>3, <3>4 DEF CallStep
  <2>3. CASE ~call[c].stream
    <3>1. call' = [call EXCEPT ![c] = Finished(call[c], end)]
      BY <2>1, <2>3
    <3>2. OnlyMoves(c) /\ To(c, {"done"})
      BY <3>1, Finishes DEF Ends
    <3>3. Appended(c)
      BY <1>11, <2>1, <2>3, <3>2 DEF AppendUsage, Appended, From
    <3> QED
      BY <3>2, <3>3 DEF CallStep
  <2> QED
    BY <2>2, <2>3
<1>12. CASE Release(c)
  <2>1. call[c].end \in Ends
    BY CallParts DEF CallState
  <2>2. OnlyMoves(c) /\ To(c, {"done"})
    BY <1>12, <2>1, Finishes DEF Release
  <2>3. Released(c)
    BY <1>12, <2>2 DEF Release, Released, From
  <2> QED
    BY <2>2, <2>3 DEF CallStep
<1> QED
  BY <1>1, <1>2, <1>3, <1>4, <1>5, <1>6, <1>7, <1>8, <1>9, <1>10, <1>11, <1>12
     DEF Handle, Serve

Unmoved == call' = call /\ clock' \in Int /\ clock' >= clock /\ UNCHANGED <<limiter, logged, history>>

\* A step is a call's, or the environment's.
LEMMA AnyStep ==
    ASSUME TypeOK, OnlySessionsOpen, [Next]_vars
    PROVE  \/ \E c \in Calls : OnlyMoves(c) /\ CallStep(c) /\ clock' = clock
           \/ Unmoved
           \/ Restart
<1>0. clock \in Int
  BY LimiterAssumption DEF TypeOK, Minutes
<1>1. ASSUME NEW c \in Calls, Arrive(c) \/ Handle(c) PROVE clock' = clock
  BY <1>1 DEF Arrive, Handle, RejectEarly, ReadClock, Admission, AdmitUnlimited, DenyRate,
     Admit, DenySlot, AdmitStream, Serve, Answer, AnswerUnrecorded, Hijack, EndSession,
     RecordRefusal, AppendUsage, Release
<1>2. ASSUME NEW p \in Principals, PutLimits(p) PROVE Unmoved
  BY <1>0, <1>2 DEF PutLimits, Unmoved
<1>3. CASE Tick
  BY <1>0, <1>3 DEF Tick, Unmoved
<1>4. CASE UNCHANGED vars
  BY <1>0, <1>4 DEF vars, Unmoved
<1> QED
  BY <1>1, <1>2, <1>3, <1>4, CallSteps DEF Next

LEMMA SoundKept ==
    ASSUME TypeOK, OnlySessionsOpen, SoundInv, [Next]_vars
    PROVE  SoundInv'
<1>0. clock \in Int
  BY LimiterAssumption DEF TypeOK, Minutes
<1>1. ASSUME NEW c \in Calls, OnlyMoves(c), CallStep(c), clock' = clock PROVE SoundInv'
  <2>1. \A b \in Calls : b # c => Sound(call[b])'
    BY <1>1 DEF SoundInv, Sound, OnlyMoves
  <2>2. Sound(call[c]) /\ call[c] \in CallState /\ call'[c] \in CallState
    BY <1>1, CallParts DEF SoundInv, OnlyMoves
  <2>3. limits[call[c].p] \in LimitChoices
    BY CallParts DEF TypeOK
  <2>4. LongestCharge \in Nat
    BY LimiterAssumption DEF LongestCharge
  <2>5. Sound(call[c])'
    <3> USE DEF Sound, From, To, OnlyMoves, KeepsReadings, KeepsSecs, InFlight
    <3>10. CASE Early(c)
      BY <1>0, <1>1, <2>2, <2>3, <2>4, <3>10 DEF Early
    <3>11. CASE Refused(c)
      BY <1>1, <2>2, <3>11 DEF Refused
    <3>12. CASE Unlimited(c)
      BY <1>1, <2>2, <3>12 DEF Unlimited
    <3>13. CASE Taken(c)
      BY <1>1, <2>2, <3>13 DEF Taken
    <3>14. CASE Opened(c)
      BY <1>1, <2>2, <3>14 DEF Opened
    <3>15. CASE Answered(c)
      BY <1>1, <2>2, <2>4, <3>15 DEF Answered
    <3>16. CASE Ended(c)
      BY <1>1, <2>2, <3>16 DEF Ended
    <3>17. CASE Appended(c)
      BY <1>1, <2>2, <3>17 DEF Appended
    <3>18. CASE Released(c)
      BY <1>1, <2>2, <3>18 DEF Released
    <3> QED
      BY <1>1, <3>10, <3>11, <3>12, <3>13, <3>14, <3>15, <3>16, <3>17, <3>18 DEF CallStep
  <2> QED
    BY <2>1, <2>5 DEF SoundInv
<1>2. CASE Unmoved
  <2>1. ASSUME NEW c \in Calls PROVE Sound(call[c])'
    <3>1. Sound(call[c]) /\ call[c].start \in Int
      BY CallParts, LimiterAssumption DEF SoundInv, Minutes
    <3>2. call'[c] = call[c] /\ clock' >= clock /\ clock' \in Int
      BY <1>2, <1>0 DEF Unmoved
    <3> QED
      BY <1>0, <3>1, <3>2 DEF Sound
  <2> QED
    BY <2>1 DEF SoundInv
<1>3. CASE Restart
  <2>1. ASSUME NEW c \in Calls PROVE Sound(call[c])'
    <3>1. CASE call[c].pc \in {"idle", "done"}
      BY <1>3, <3>1 DEF Restart, SoundInv, Sound, InFlight
    <3>2. CASE call[c].pc \notin {"idle", "done"}
      <4>1. call'[c].pc = "done"
        BY <1>3, <3>2, CallParts, FinishedTyped DEF Restart, Ends
      <4> QED
        BY <4>1 DEF Sound, InFlight
    <3> QED
      BY <3>1, <3>2
  <2> QED
    BY <2>1 DEF SoundInv
<1> QED
  BY <1>1, <1>2, <1>3, AnyStep

-----------------------------------------------------------------------------
(* The greatest limits chosen. *)

\* No chosen limit exceeds the greatest one.
LEMMA WithinGreatest ==
    ASSUME NEW lim \in LimitChoices
    PROVE  /\ MaxAudio \in Nat /\ lim.audio <= MaxAudio
           /\ MaxRpm \in Nat /\ lim.rpm <= MaxRpm
           /\ MaxStreams \in Int /\ Cap(lim) <= MaxStreams
<1>0. IsFiniteSet(LimitChoices) /\ LimitChoices \subseteq Limits
  BY LimiterAssumption
<1>1. MaxAudio \in Nat /\ lim.audio <= MaxAudio
  <2> DEFINE T == {l.audio : l \in LimitChoices}
             g == [l \in LimitChoices |-> l.audio]
  <2>1. g \in Surjection(LimitChoices, T)
    BY DEF Surjection
  <2>2. IsFiniteSet(T) /\ T \subseteq Nat /\ T \subseteq Int /\ lim.audio \in T
    BY <1>0, <2>1, FS_Surjection DEF Limits
  <2> HIDE DEF T
  <2>3. Max(T) \in T /\ lim.audio <= Max(T)
    BY <2>2, Greatest
  <2> QED
    BY <2>2, <2>3 DEF T, MaxAudio
<1>2. MaxRpm \in Nat /\ lim.rpm <= MaxRpm
  <2> DEFINE T == {l.rpm : l \in LimitChoices}
             g == [l \in LimitChoices |-> l.rpm]
  <2>1. g \in Surjection(LimitChoices, T)
    BY DEF Surjection
  <2>2. IsFiniteSet(T) /\ T \subseteq Nat /\ T \subseteq Int /\ lim.rpm \in T
    BY <1>0, <2>1, FS_Surjection DEF Limits
  <2> HIDE DEF T
  <2>3. Max(T) \in T /\ lim.rpm <= Max(T)
    BY <2>2, Greatest
  <2> QED
    BY <2>2, <2>3 DEF T, MaxRpm
<1>3. MaxStreams \in Int /\ Cap(lim) <= MaxStreams
  <2> DEFINE T == {Cap(l) : l \in LimitChoices}
             g == [l \in LimitChoices |-> Cap(l)]
  <2>1. g \in Surjection(LimitChoices, T)
    BY DEF Surjection
  <2>2. IsFiniteSet(T) /\ Cap(lim) \in T
    BY <1>0, <2>1, FS_Surjection
  <2>3. T \subseteq Int
    BY <1>0 DEF Cap, Limits, DefaultMaxStreams
  <2> HIDE DEF T
  <2>4. Max(T) \in T /\ Cap(lim) <= Max(T)
    BY <2>2, <2>3, Greatest
  <2> QED
    BY <2>2, <2>3, <2>4 DEF T, MaxStreams
<1> QED
  BY <1>1, <1>2, <1>3

-----------------------------------------------------------------------------
(* The rate windows. *)

\* Looking at the window keeps the rate invariant, and so does counting a request
\* in it that was not over the limit.
LEMMA WindowKeepsRate ==
    ASSUME TypeOK, RateInv, NEW c \in Calls, call[c].lim \in LimitChoices,
           NEW a, NEW secs, restarts' = restarts,
           \/ /\ Keep(call[c].p, Readings(c), a, secs)
              /\ admitted' = admitted
           \/ /\ ~WindowFull(Readings(c), call[c].lim)
              /\ Keep(call[c].p, Counted(Readings(c)), a, secs)
              /\ CountAdmission(call[c])
    PROVE  RateInv'
<1> DEFINE q == call[c].p
           t == call[c].now
           w == Readings(c)
           rpm == call[c].lim.rpm
           added == admitted'[q][t] - admitted[q][t]
<1>1. q \in Principals /\ t \in Minutes /\ rpm \in Nat
  BY CallParts DEF Limits
<1>2. MaxRpm \in Nat /\ rpm <= MaxRpm
  BY WithinGreatest
<1>3. w.minute = t /\ w \in Windows
        /\ (t = windows[q].minute => w = windows[q])
        /\ (t # windows[q].minute => w.n = 0)
  BY <1>1, HelpersTyped DEF Readings, Window, Windows
<1>4. w.n \in Nat /\ windows[q] \in Windows
  BY <1>1, <1>3 DEF Windows, TypeOK
<1> SUFFICES ASSUME NEW p \in Principals, NEW m \in Minutes,
                    restarts' = 0, ~drifted'[p]
             PROVE  /\ admitted'[p][m] <= MaxRpm
                    /\ m = windows'[p].minute => admitted'[p][m] <= windows'[p].n
                    /\ m > windows'[p].minute => admitted'[p][m] = 0
  BY DEF RateInv, MaxRpm
<1>5. CASE p # q
  <2>1. windows'[p] = windows[p] /\ admitted'[p] = admitted[p] /\ drifted'[p] = drifted[p]
    BY <1>1, <1>5 DEF Keep, CountAdmission, TypeOK
  <2> QED
    BY <2>1 DEF RateInv
<1>6. CASE p = q
  <2>1. ~drifted[q] /\ w.minute >= windows[q].minute
    <3>1. Counted(w).minute = w.minute
      BY <1>3 DEF Counted, Windows
    <3>2. windows[q].minute \in Int /\ w.minute \in Int
      BY <1>1, <1>3, <1>4, LimiterAssumption DEF Windows, Minutes
    <3>3. drifted'[q] = (drifted[q] \/ w.minute < windows[q].minute
                           \/ a.day < audio[q].day
                           \/ (a.day # audio[q].day /\ a.secs < logged[q][a.day]))
      BY <1>1, <3>1 DEF Keep, Drifts, TypeOK
    <3>4. ~drifted'[q]
      BY <1>6
    <3>5. ~drifted[q] /\ ~(w.minute < windows[q].minute)
      BY <3>3, <3>4, Zenon
    <3> QED
      BY <3>2, <3>5
  <2>2. /\ \A n \in Minutes : /\ admitted[q][n] \in Nat
                              /\ admitted[q][n] <= MaxRpm
                              /\ n = windows[q].minute => admitted[q][n] <= windows[q].n
                              /\ n > windows[q].minute => admitted[q][n] = 0
    BY <1>1, <2>1 DEF RateInv, TypeOK
  <2>3. admitted[q][t] <= w.n
    <3>1. CASE t = windows[q].minute
      BY <1>1, <1>3, <2>2, <3>1
    <3>2. CASE t # windows[q].minute
      <4>1. t > windows[q].minute
        BY <1>1, <1>3, <1>4, <2>1, <3>2, LimiterAssumption DEF Windows, Minutes
      <4> QED
        BY <1>1, <1>3, <2>2, <3>2, <4>1
    <3> QED
      BY <3>1, <3>2
  <2>4. m > t => m > windows[q].minute
    BY <1>1, <1>3, <1>4, <2>1, LimiterAssumption DEF Windows, Minutes
  <2>5. CASE Keep(q, w, a, secs) /\ admitted' = admitted
    <3>1. windows'[q] = w
      BY <1>1, <2>5 DEF Keep, TypeOK
    <3> HIDE DEF q, t, w
    <3> QED
      BY <1>3, <1>6, <2>2, <2>3, <2>4, <2>5, <3>1
  <2>6. CASE /\ ~WindowFull(w, call[c].lim)
             /\ Keep(q, Counted(w), a, secs) /\ CountAdmission(call[c])
    <3>1. windows'[q] = Counted(w)
      BY <1>1, <2>6 DEF Keep, TypeOK
    <3>2. Counted(w).minute = t /\ Counted(w).n = w.n + 1
      BY <1>3 DEF Counted, Windows
    <3>3. /\ admitted'[q][t] = admitted[q][t] + (IF rpm > 0 THEN 1 ELSE 0)
          /\ \A n \in Minutes : n # t => admitted'[q][n] = admitted[q][n]
      BY <1>1, <2>6 DEF CountAdmission, TypeOK
    <3>4. rpm > 0 => w.n < rpm
      BY <1>1, <1>4, <2>6 DEF WindowFull
    <3>5. admitted'[q][t] <= w.n + 1 /\ admitted'[q][t] <= MaxRpm
      <4>1. admitted[q][t] \in Nat /\ admitted[q][t] <= MaxRpm
        BY <1>1, <2>2
      <4> HIDE DEF q, t, w, rpm
      <4> QED
        BY <1>1, <1>2, <1>4, <2>3, <3>3, <3>4, <4>1
    <3>6. CASE m = t
      <4>1. ~(m > t)
        BY <1>1, <3>6, LimiterAssumption DEF Minutes
      <4> HIDE DEF q, t, w, rpm
      <4> QED
        BY <1>6, <3>1, <3>2, <3>5, <3>6, <4>1
    <3>7. CASE m # t
      <4> HIDE DEF q, t, w, rpm
      <4> QED
        BY <1>6, <2>2, <2>4, <3>1, <3>2, <3>3, <3>7
    <3> QED
      BY <3>6, <3>7
  <2> QED
    BY <2>5, <2>6
<1> QED
  BY <1>5, <1>6

LEMMA RateKept ==
    ASSUME TypeOK, OnlySessionsOpen, SoundInv, RateInv, [Next]_vars
    PROVE  RateInv'
<1> USE DEF limiter, history
<1>1. ASSUME windows' = windows, admitted' = admitted, drifted' = drifted,
             restarts' = restarts
      PROVE  RateInv'
  BY <1>1 DEF RateInv, MaxRpm
<1>2. CASE Restart
  <2>1. restarts' # 0
    BY <1>2, LimiterAssumption DEF Restart, TypeOK
  <2> QED
    BY <2>1 DEF RateInv
<1>3. CASE Unmoved
  BY <1>1, <1>3 DEF Unmoved
<1>4. ASSUME NEW c \in Calls, CallStep(c) PROVE RateInv'
  <2>1. call[c].pc = "admitting" => call[c].lim \in LimitChoices
    BY DEF SoundInv, Sound
  <2>2. CASE Refused(c)
    BY <2>1, <2>2, WindowKeepsRate DEF Refused, From
  <2>3. CASE Taken(c)
    <3>1. \E a, secs : Keep(call[c].p, Counted(Readings(c)), a, secs)
      BY <2>3 DEF Taken
    <3> QED
      BY <2>1, <2>3, <3>1, WindowKeepsRate DEF Taken, From
  <2>4. CASE Opened(c)
    <3>1. \E a, secs : Keep(call[c].p, Counted(Readings(c)), a, secs)
      BY <2>4 DEF Opened
    <3> QED
      BY <2>1, <2>4, <3>1, WindowKeepsRate DEF Opened, From
  <2>5. CASE Early(c) \/ Unlimited(c) \/ Answered(c) \/ Ended(c) \/ Appended(c) \/ Released(c)
    BY <1>1, <2>5 DEF Early, Unlimited, Answered, Ended, Appended, Released
  <2> QED
    BY <1>4, <2>2, <2>3, <2>4, <2>5 DEF CallStep
<1> QED
  BY <1>2, <1>3, <1>4, AnyStep

LEMMA InitRates == Init => SoundInv /\ RateInv
<1> SUFFICES ASSUME Init PROVE SoundInv /\ RateInv
  OBVIOUS
<1>1. ASSUME NEW c \in Calls PROVE Sound(call[c])
  <2>1. PICK p \in Principals, r \in Requests : call[c] = Fresh(p, r)
    BY DEF Init
  <2>2. call[c].pc = "idle" /\ (call[c].stream => call[c].secs = 0)
    BY <2>1, LimiterAssumption DEF Fresh
  <2> QED
    BY <2>2 DEF Sound, InFlight
<1>2. ASSUME NEW p \in Principals, NEW m \in Minutes
      PROVE  /\ admitted[p][m] <= MaxRpm
             /\ m = windows[p].minute => admitted[p][m] <= windows[p].n
             /\ m > windows[p].minute => admitted[p][m] = 0
  <2>1. limits[p] \in LimitChoices
    BY DEF Init
  <2>2. MaxRpm \in Nat
    BY <2>1, WithinGreatest
  <2>3. admitted[p][m] = 0 /\ windows[p].n = 0
    BY DEF Init, NoWindow
  <2> QED
    BY <2>2, <2>3
<1> QED
  BY <1>1, <1>2 DEF SoundInv, RateInv

\* requestsPerMinute is a cap (gw_limits.go:115, window): while the process
\* runs on and admissions take the lock in the order of the minutes they read, no
\* minute takes more rate-limited requests than the greatest limit allows,
\* whatever the operator does to the limits meanwhile.
THEOREM RateCapped == Spec => []RpmCapInOrder
<1>1. Init => SoundInv /\ RateInv
  BY InitRates
<1>2. LimiterInv /\ SoundInv /\ RateInv /\ [Next]_vars => SoundInv' /\ RateInv'
  <2>1. LimiterInv => TypeOK /\ OnlySessionsOpen
    BY DEF LimiterInv, SlotInv, OnlySessionsOpen
  <2> QED
    BY <2>1, SoundKept, RateKept
<1>3. RateInv => RpmCapInOrder
  BY DEF RateInv, RpmCapInOrder
<1> QED
  BY <1>1, <1>2, <1>3, LimiterInvariant, PTL DEF Spec

-----------------------------------------------------------------------------
(* The days in memory. *)

LEMMA DaysInOrder == \A s, t \in Minutes : s <= t => Day(s) <= Day(t)
<1>1. \A a \in Nat, b \in Nat, m \in Nat \ {0} : a <= b => a \div m <= b \div m
  OBVIOUS
<1> QED
  BY <1>1, LimiterAssumption DEF Minutes, Day

LEMMA DaysAreNumbers ==
    /\ \A d \in Days : d \in Nat /\ d \in Int /\ d # -1
    /\ \A d \in Days \cup {-1} : d \in Int
<1>1. \A m \in Nat \ {0}, n \in Nat : n \div m \in Nat
  OBVIOUS
<1>2. Day(MaxMinute) \in Nat
  BY <1>1, LimiterAssumption DEF Day
<1>3. \A d \in Days : d \in Nat
  BY <1>2 DEF Days
<1>4. \A n \in Nat : n \in Int /\ n # -1
  OBVIOUS
<1> QED
  BY <1>3, <1>4

\* The day admission works on is the one in memory, or today's.
LEMMA LookedDay ==
    ASSUME TypeOK, NEW c \in Calls, NEW a \in Looked(c)
    PROVE  /\ a \in AudioDays /\ a.day \in Int /\ a.secs \in Nat
           /\ a.day = audio[call[c].p].day => a = audio[call[c].p]
           /\ a.day # audio[call[c].p].day => a.day = Day(call[c].now)
           /\ a \in Today(call[c].p, Day(call[c].now)) => a.day = Day(call[c].now)
<1>1. audio[call[c].p] \in AudioDays /\ Today(call[c].p, Day(call[c].now)) \subseteq AudioDays
  BY CallParts, HelpersTyped
<1>2. a \in AudioDays
  BY <1>1 DEF Looked
<1>3. a.day \in Int /\ a.secs \in Nat
  BY <1>2, DaysAreNumbers DEF AudioDays
<1> QED
  BY <1>2, <1>3 DEF Looked, Today

\* What admission leaves of the principal's day, when the limiter has not drifted.
LEMMA KeptDay ==
    ASSUME TypeOK, NEW c \in Calls, NEW w, NEW a \in Looked(c), NEW n \in Nat,
           Keep(call[c].p, w, a, n)
    PROVE  LET q == call[c].p IN
           /\ audio'[q].day = a.day /\ audio'[q].secs = a.secs + n
           /\ audio'[q] = [a EXCEPT !.secs = @ + n]
           /\ ~drifted'[q] => /\ ~drifted[q]
                              /\ a.day >= audio[q].day
                              /\ a.day # audio[q].day => a.secs >= logged[q][a.day]
           /\ \A p \in Principals : p # q => /\ audio'[p] = audio[p]
                                             /\ drifted'[p] = drifted[p]
<1> DEFINE q == call[c].p
<1>1. q \in Principals
  BY CallParts
<1>2. a \in AudioDays /\ a.day \in Int /\ a.secs \in Nat
        /\ (a.day # audio[q].day => a.day = Day(call[c].now))
  BY LookedDay
<1>3. audio'[q] = [a EXCEPT !.secs = @ + n]
  BY <1>1 DEF Keep, AudioCharged, TypeOK
<1>4. audio'[q].day = a.day /\ audio'[q].secs = a.secs + n
  BY <1>2, <1>3 DEF AudioDays
<1>5. \A p \in Principals : p # q => audio'[p] = audio[p] /\ drifted'[p] = drifted[p]
  BY <1>1 DEF Keep, TypeOK
<1>6. ASSUME ~drifted'[q]
      PROVE  /\ ~drifted[q]
             /\ a.day >= audio[q].day
             /\ a.day # audio[q].day => a.secs >= logged[q][a.day]
  <2>1. drifted'[q] = (drifted[q] \/ w.minute < windows[q].minute
                         \/ a.day < audio[q].day
                         \/ (a.day # audio[q].day /\ a.secs < logged[q][a.day]))
    BY <1>1 DEF Keep, Drifts, TypeOK
  <2>2. /\ ~drifted[q] /\ ~(a.day < audio[q].day)
        /\ ~(a.day # audio[q].day /\ a.secs < logged[q][a.day])
    BY <1>6, <2>1, Zenon
  <2>3. audio[q].day \in Int
    BY <1>1, DaysAreNumbers DEF TypeOK
  <2>4. a.day # audio[q].day => logged[q][a.day] \in Nat
    BY <1>1, <1>2, CallParts DEF TypeOK
  <2> QED
    BY <1>2, <2>2, <2>3, <2>4
<1> QED
  BY <1>3, <1>4, <1>5, <1>6

\* A charged or denied call, or a session admitted, leaves a proper day.
LEMMA KeepKeepsDays ==
    ASSUME TypeOK, DaysInv, NEW c \in Calls, OnlyMoves(c), NEW w,
           NEW a \in Looked(c), NEW n \in Nat, Keep(call[c].p, w, a, n),
           n > 0 \/ Counts(call'[c]) =>
             a.day = Day(call[c].now) /\ call'[c].now = call[c].now
    PROVE  DaysInv'
<1> DEFINE q == call[c].p
<1>1. q \in Principals /\ Day(call[c].now) \in Days
  BY CallParts
<1>2. /\ a \in AudioDays /\ a.day \in Int
      /\ a.day = audio[q].day => a = audio[q]
      /\ a.day # audio[q].day => a.day = Day(call[c].now)
  BY LookedDay
<1>3. /\ audio'[q].day = a.day /\ audio'[q] = [a EXCEPT !.secs = @ + n]
      /\ ~drifted'[q] => ~drifted[q] /\ a.day >= audio[q].day
      /\ \A p \in Principals : p # q => audio'[p] = audio[p] /\ drifted'[p] = drifted[p]
  BY KeptDay
<1>4. \A p \in Principals : audio[p].day \in Int
  BY DaysAreNumbers DEF TypeOK
<1>5. ASSUME NEW b \in Calls, Counts(call'[b]), ~drifted'[call'[b].p]
      PROVE  audio'[call'[b].p].day >= Day(call'[b].now)
  <2>1. CASE b = c
    <3>1. call'[c].p = q /\ call'[c].now = call[c].now /\ a.day = Day(call[c].now)
      BY <1>5, <2>1 DEF OnlyMoves
    <3>2. Day(call[c].now) \in Int
      BY <1>1, DaysAreNumbers
    <3>3. audio'[q].day >= Day(call[c].now)
      BY <1>2, <1>3, <3>1, <3>2
    <3> QED
      BY <2>1, <3>1, <3>3
  <2>2. CASE b # c
    <3>1. call'[b] = call[b] /\ call[b].p \in Principals /\ Day(call[b].now) \in Int
      BY <2>2, CallParts, DaysAreNumbers DEF OnlyMoves
    <3>2. ~drifted[call[b].p] => audio[call[b].p].day >= Day(call[b].now)
      BY <1>5, <3>1 DEF DaysInv
    <3>3. CASE call[b].p = q
      <4>1. ~drifted'[q] /\ audio[q].day >= Day(call[b].now) /\ a.day >= audio[q].day
        BY <1>3, <1>5, <3>1, <3>2, <3>3
      <4>2. audio[q].day \in Int /\ a.day \in Int
        BY <1>1, <1>2, <1>4
      <4>3. a.day >= Day(call[b].now)
        <5> HIDE DEF q
        <5> QED
          BY <3>1, <4>1, <4>2
      <4> QED
        BY <1>3, <3>1, <3>3, <4>3
    <3>4. CASE call[b].p # q
      BY <1>3, <1>5, <3>1, <3>2, <3>4
    <3> QED
      BY <3>3, <3>4
  <2> QED
    BY <2>1, <2>2
<1>6. ASSUME NEW p \in Principals, audio'[p].day = -1 PROVE audio'[p] = NoDay
  <2>1. CASE p # q
    BY <1>3, <1>6, <2>1 DEF DaysInv
  <2>2. CASE p = q
    <3>1. a.day = -1 /\ a.day # Day(call[c].now)
      BY <1>1, <1>3, <1>6, <2>2, DaysAreNumbers
    <3>2. n = 0 /\ a = audio[q]
      BY <1>2, <3>1
    <3>3. a = NoDay
      BY <1>1, <3>1, <3>2 DEF DaysInv
    <3> QED
      BY <1>3, <2>2, <3>2, <3>3 DEF NoDay
  <2> QED
    BY <2>1, <2>2
<1> QED
  BY <1>5, <1>6 DEF DaysInv, Counts, NoDay

LEMMA DaysKept ==
    ASSUME Quotas, TypeOK, OnlySessionsOpen, SoundInv, DaysInv, [Next]_vars
    PROVE  DaysInv'
<1> USE DEF limiter, history
<1>1. ASSUME NEW c \in Calls, OnlyMoves(c), drifted' = drifted,
             \A p \in Principals : /\ audio'[p].day = audio[p].day
                                   /\ audio[p] = NoDay => audio'[p] = NoDay,
             Counts(call'[c]) => Counts(call[c]) /\ call'[c].now = call[c].now
      PROVE  DaysInv'
  <2>1. ASSUME NEW b \in Calls, Counts(call'[b]), ~drifted'[call'[b].p]
        PROVE  audio'[call'[b].p].day >= Day(call'[b].now)
    <3>1. Counts(call[b]) /\ call'[b].p = call[b].p /\ call'[b].now = call[b].now
      BY <1>1, <2>1 DEF OnlyMoves
    <3>2. audio[call[b].p].day >= Day(call[b].now) /\ call[b].p \in Principals
      BY <1>1, <2>1, <3>1, CallParts DEF DaysInv
    <3> QED
      BY <1>1, <3>1, <3>2
  <2>2. \A p \in Principals : audio'[p].day = -1 => audio'[p] = NoDay
    BY <1>1 DEF DaysInv
  <2> QED
    BY <2>1, <2>2 DEF DaysInv, Counts, NoDay
<1>2. CASE Restart
  <2>1. \A c \in Calls : call'[c].pc \in {"idle", "done"}
    BY <1>2, CallParts, FinishedTyped DEF Restart, Ends
  <2> QED
    BY <1>2, <2>1 DEF Restart, DaysInv, Counts, InFlight, NoDay
<1>3. CASE Unmoved
  BY <1>3 DEF Unmoved, DaysInv, Counts, NoDay
<1>4. ASSUME NEW c \in Calls, OnlyMoves(c), CallStep(c) PROVE DaysInv'
  <2> DEFINE q == call[c].p
  <2>1. /\ q \in Principals /\ call[c].secs \in Nat /\ call[c].lim \in Limits
        /\ call[c].stream \in BOOLEAN
    BY CallParts
  <2>2. call[c].pc = "admitting" => call[c].lim.audio > 0
    BY DEF SoundInv, Sound, Quotas
  <2>3. call'[c].stream = call[c].stream /\ call'[c].metered = call[c].metered
    BY <1>4 DEF OnlyMoves
  <2>4. CASE Early(c) \/ Answered(c) \/ Ended(c) \/ Appended(c)
    <3>1. Counts(call'[c]) => Counts(call[c]) /\ call'[c].now = call[c].now
      <4>1. CASE Early(c)
        BY <4>1 DEF Early, To, Counts, InFlight
      <4>2. CASE Answered(c)
        BY <2>3, <4>2 DEF Answered, From, To, Counts, InFlight, KeepsReadings, KeepsSecs
      <4>3. CASE Ended(c)
        <5>1. call[c].stream
          BY <4>3 DEF Ended, From, OnlySessionsOpen
        <5> QED
          BY <2>3, <4>3, <5>1 DEF Ended, From, To, Counts, InFlight, KeepsReadings
      <4>4. CASE Appended(c)
        BY <2>3, <4>4 DEF Appended, From, To, Counts, InFlight, KeepsReadings, KeepsSecs
      <4> QED
        BY <2>4, <4>1, <4>2, <4>3, <4>4
    <3>2. audio' = audio /\ drifted' = drifted
      BY <2>4 DEF Early, Answered, Ended, Appended
    <3> QED
      BY <1>1, <1>4, <3>1, <3>2
  <2>5. CASE Refused(c)
    <3>1. PICK a \in Looked(c) : Keep(q, Readings(c), a, 0)
      BY <2>5 DEF Refused
    <3>2. ~Counts(call'[c])
      BY <2>5 DEF Refused, To, Counts, InFlight
    <3> QED
      BY <1>4, <3>1, <3>2, KeepKeepsDays
  <2>6. CASE Unlimited(c)
    BY <2>2, <2>6 DEF Unlimited, From
  <2>7. CASE Taken(c)
    <3> DEFINE counts == call[c].lim.audio > 0 /\ call[c].secs > 0
               n == IF counts THEN call[c].secs ELSE 0
    <3>1. PICK a \in (IF counts THEN Today(q, Day(call[c].now)) ELSE {audio[q]}) :
             Keep(q, Counted(Readings(c)), a, n)
      BY <2>7 DEF Taken
    <3>2. a \in Looked(c) /\ n \in Nat /\ (counts => a.day = Day(call[c].now))
      BY <2>1, <3>1, LookedDay DEF Looked
    <3>3. n > 0 \/ Counts(call'[c]) => counts
      BY <2>1, <2>2, <2>3, <2>7 DEF Taken, From, Counts, KeepsSecs
    <3>4. call'[c].now = call[c].now
      BY <2>7 DEF Taken, KeepsReadings
    <3> HIDE DEF n, counts
    <3> QED
      BY <1>4, <3>1, <3>2, <3>3, <3>4, KeepKeepsDays
  <2>8. CASE Opened(c)
    <3> DEFINE counts == call[c].metered /\ call[c].lim.audio > 0
    <3>1. PICK a \in (IF counts THEN Today(q, Day(call[c].now)) ELSE {audio[q]}) :
             Keep(q, Counted(Readings(c)), a, 0)
      BY <2>8 DEF Opened
    <3>2. a \in Looked(c) /\ (counts => a.day = Day(call[c].now))
      BY <2>1, <3>1, LookedDay DEF Looked
    <3>3. Counts(call'[c]) => counts
      BY <2>2, <2>3, <2>8 DEF Opened, From, Counts
    <3>4. call'[c].now = call[c].now
      BY <2>8 DEF Opened, KeepsReadings
    <3>5. 0 > 0 \/ Counts(call'[c]) =>
            a.day = Day(call[c].now) /\ call'[c].now = call[c].now
      BY <3>2, <3>3, <3>4
    <3> HIDE DEF counts
    <3> QED
      BY <1>4, <3>1, <3>2, <3>5, KeepKeepsDays
  <2>9. CASE Released(c)
    <3>1. ~Counts(call'[c])
      BY <2>9 DEF Released, To, Counts, InFlight
    <3>2. \A p \in Principals : /\ audio'[p].day = audio[p].day
                                /\ audio[p] = NoDay => audio'[p] = NoDay
      BY <2>1, <2>9 DEF Released, TypeOK
    <3>3. drifted' = drifted
      BY <2>9 DEF Released
    <3> QED
      BY <1>1, <1>4, <3>1, <3>2, <3>3
  <2> QED
    BY <1>4, <2>4, <2>5, <2>6, <2>7, <2>8, <2>9 DEF CallStep
<1> QED
  BY <1>2, <1>3, <1>4, AnyStep

-----------------------------------------------------------------------------
(* How the sums move with a call. *)

\* One call moves: what it had is taken away, and what it has is added.
LEMMA SumMoves ==
    ASSUME TypeOK, NEW c \in Calls, OnlyMoves(c), NEW S, S \subseteq Calls, IsFiniteSet(S),
           NEW T, T \subseteq Calls, S \ {c} = T \ {c}
    PROVE  /\ Cardinality(Units(call, S)) \in Nat /\ Cardinality(Units(call', T)) \in Nat
           /\ Cardinality(Units(call', T)) = Cardinality(Units(call, S))
                - (IF c \in S THEN call[c].secs ELSE 0)
                + (IF c \in T THEN call'[c].secs ELSE 0)
<1> DEFINE j == call
           k == call'
           R == S \ {c}
<1>0. /\ \A b \in R : k[b].secs = j[b].secs
      /\ j[c].secs \in Nat /\ k[c].secs \in Nat
  BY CallParts DEF OnlyMoves, CallState
<1>1. IsFiniteSet(R) /\ c \notin R /\ \A b \in R : j[b].secs \in Nat /\ k[b].secs \in Nat
  <2>1. \A b \in R : call[b].secs \in Nat
    BY CallParts
  <2> QED
    BY <1>0, <2>1, FS_RemoveElement
<1>2. Units(k, R) = Units(j, R)
  BY <1>0 DEF Units
<1>3. Cardinality(Units(j, R)) \in Nat
  BY <1>1, UnitsFinite
<1>4. Cardinality(Units(j, S)) = Cardinality(Units(j, R)) + (IF c \in S THEN j[c].secs ELSE 0)
  <2>1. CASE c \in S
    <3>1. R \cup {c} = S
      BY <2>1
    <3>2. Cardinality(Units(j, R \cup {c})) = Cardinality(Units(j, R)) + j[c].secs
      <4> HIDE DEF R
      <4> QED
        BY <1>0, <1>1, <2>1, UnitsAdd
    <3> QED
      BY <2>1, <3>1, <3>2
  <2>2. CASE c \notin S
    <3>1. R = S
      BY <2>2
    <3> HIDE DEF R
    <3> QED
      BY <1>3, <2>2, <3>1
  <2> QED
    BY <2>1, <2>2
<1>5. Cardinality(Units(k, T)) = Cardinality(Units(k, R)) + (IF c \in T THEN k[c].secs ELSE 0)
  <2>1. CASE c \in T
    <3>1. R \cup {c} = T
      BY <2>1
    <3>2. Cardinality(Units(k, R \cup {c})) = Cardinality(Units(k, R)) + k[c].secs
      <4> HIDE DEF R
      <4> QED
        BY <1>0, <1>1, <2>1, UnitsAdd
    <3> QED
      BY <2>1, <3>1, <3>2
  <2>2. CASE c \notin T
    <3>1. R = T
      BY <2>2
    <3> HIDE DEF R
    <3> QED
      BY <1>2, <1>3, <2>2, <3>1
  <2> QED
    BY <2>1, <2>2
<1>6. (IF c \in S THEN j[c].secs ELSE 0) \in Nat /\ (IF c \in T THEN k[c].secs ELSE 0) \in Nat
  BY <1>0
<1> HIDE DEF R
<1> QED
  BY <1>2, <1>3, <1>4, <1>5, <1>6

LEMMA ChargedMoves ==
    ASSUME TypeOK, FiniteInv, NEW c \in Calls, OnlyMoves(c),
           NEW p \in Principals, NEW d \in Days
    PROVE  /\ Seconds(Charged(p, d)) \in Nat
           /\ Cardinality(Units(call', Charged(p, d)')) \in Nat
           /\ Cardinality(Units(call', Charged(p, d)')) = Seconds(Charged(p, d))
                - (IF c \in Charged(p, d) THEN call[c].secs ELSE 0)
                + (IF c \in Charged(p, d)' THEN call'[c].secs ELSE 0)
           /\ p # call[c].p => c \notin Charged(p, d) /\ c \notin Charged(p, d)'
<1> DEFINE S == Charged(p, d)
           T == Charged(p, d)'
<1>1. S \subseteq Calls /\ T \subseteq Calls /\ S \ {c} = T \ {c}
  BY DEF Charged, Plain, OnlyMoves
<1>2. IsFiniteSet(S)
  <2>1. S \subseteq {b \in Calls : Plain(call[b], p)}
    BY DEF Charged
  <2> QED
    BY <2>1, FS_Subset DEF FiniteInv
<1>3. Seconds(S) = Cardinality(Units(call, S))
  BY DEF Seconds, Units
<1>4. p # call[c].p => c \notin S /\ c \notin T
  BY DEF Charged, Plain, OnlyMoves
<1> HIDE DEF S, T
<1>5. /\ Cardinality(Units(call, S)) \in Nat /\ Cardinality(Units(call', T)) \in Nat
      /\ Cardinality(Units(call', T)) = Cardinality(Units(call, S))
           - (IF c \in S THEN call[c].secs ELSE 0)
           + (IF c \in T THEN call'[c].secs ELSE 0)
  BY <1>1, <1>2, SumMoves
<1> QED
  BY <1>3, <1>4, <1>5 DEF S, T

\* The two sets of sessions move alike.
LEMMA SessionsMove ==
    ASSUME TypeOK, SlotInv, NEW c \in Calls, OnlyMoves(c), NEW p \in Principals,
           NEW S, S \subseteq Holders(p), NEW T, T \subseteq Holders(p)',
           S \ {c} = T \ {c}
    PROVE  /\ Seconds(S) \in Nat /\ Cardinality(Units(call', T)) \in Nat
           /\ Cardinality(Units(call', T)) = Seconds(S)
                - (IF c \in S THEN call[c].secs ELSE 0)
                + (IF c \in T THEN call'[c].secs ELSE 0)
           /\ p # call[c].p => c \notin S /\ c \notin T
<1>1. S \subseteq Calls /\ T \subseteq Calls
  BY DEF Holders
<1>2. IsFiniteSet(S)
  BY FS_Subset DEF SlotInv
<1>3. Seconds(S) = Cardinality(Units(call, S))
  BY DEF Seconds, Units
<1>4. p # call[c].p => c \notin S /\ c \notin T
  BY DEF Holders, OnlyMoves
<1>5. /\ Cardinality(Units(call, S)) \in Nat /\ Cardinality(Units(call', T)) \in Nat
      /\ Cardinality(Units(call', T)) = Cardinality(Units(call, S))
           - (IF c \in S THEN call[c].secs ELSE 0)
           + (IF c \in T THEN call'[c].secs ELSE 0)
  BY <1>1, <1>2, SumMoves
<1> QED
  BY <1>3, <1>4, <1>5

LEMMA UnreleasedMoves ==
    ASSUME TypeOK, SlotInv, NEW c \in Calls, OnlyMoves(c),
           NEW p \in Principals, NEW d \in Days
    PROVE  /\ Seconds(Unreleased(p, d)) \in Nat
           /\ Cardinality(Units(call', Unreleased(p, d)')) \in Nat
           /\ Cardinality(Units(call', Unreleased(p, d)')) = Seconds(Unreleased(p, d))
                - (IF c \in Unreleased(p, d) THEN call[c].secs ELSE 0)
                + (IF c \in Unreleased(p, d)' THEN call'[c].secs ELSE 0)
           /\ p # call[c].p => c \notin Unreleased(p, d) /\ c \notin Unreleased(p, d)'
<1> DEFINE S == Unreleased(p, d)
           T == Unreleased(p, d)'
<1>1. S \subseteq Holders(p) /\ T \subseteq Holders(p)' /\ S \ {c} = T \ {c}
  BY DEF Unreleased, Holders, HoldsSlot, OnlyMoves
<1> HIDE DEF S, T
<1>2. /\ Seconds(S) \in Nat /\ Cardinality(Units(call', T)) \in Nat
      /\ Cardinality(Units(call', T)) = Seconds(S)
           - (IF c \in S THEN call[c].secs ELSE 0)
           + (IF c \in T THEN call'[c].secs ELSE 0)
      /\ p # call[c].p => c \notin S /\ c \notin T
  BY <1>1, SessionsMove
<1> QED
  BY <1>2 DEF S, T

\* No call's audio counts on a day the limiter has not come to.
LEMMA NoneAhead ==
    ASSUME TypeOK, SoundInv, DaysInv, NEW p \in Principals, NEW d \in Days,
           ~drifted[p], d > audio[p].day
    PROVE  Seconds(Charged(p, d)) = 0
<1>1. ASSUME NEW b \in Charged(p, d) PROVE call[b].secs = 0
  <2>1. /\ b \in Calls /\ call[b].p = p /\ ~call[b].stream
        /\ call[b].pc \in {"admitted", "logging"} /\ Day(call[b].start) = d
    BY DEF Charged, Plain
  <2>2. call[b].start <= call[b].now
    BY <2>1 DEF SoundInv, Sound, InFlight
  <2>3. /\ call[b].start \in Minutes /\ call[b].now \in Minutes /\ call[b].secs \in Nat
        /\ Day(call[b].now) \in Int /\ Day(call[b].start) \in Int
    BY <2>1, CallParts, DaysAreNumbers
  <2>4. Day(call[b].now) >= d
    BY <2>1, <2>2, <2>3, DaysInOrder
  <2>5. audio[p].day \in Int
    BY DaysAreNumbers DEF TypeOK
  <2>6. ~(audio[p].day >= Day(call[b].now))
    BY <2>1, <2>3, <2>4, <2>5
  <2>7. ~Counts(call[b])
    BY <2>1, <2>6 DEF DaysInv
  <2> QED
    BY <2>1, <2>3, <2>7 DEF Counts, InFlight
<1>2. \A b \in Charged(p, d) : 1..call[b].secs = {}
  BY <1>1
<1>3. UNION {{b} \X (1..call[b].secs) : b \in Charged(p, d)} = {}
  BY <1>2
<1> QED
  BY <1>3, FS_EmptySet DEF Seconds

LEMMA FiniteKept ==
    ASSUME TypeOK, OnlySessionsOpen, FiniteInv, [Next]_vars
    PROVE  FiniteInv'
<1>1. ASSUME NEW c \in Calls, OnlyMoves(c) PROVE FiniteInv'
  <2>1. ASSUME NEW p \in Principals
        PROVE  IsFiniteSet({b \in Calls : Plain(call'[b], p)})
    <3> DEFINE S == {b \in Calls : Plain(call[b], p)}
               T == {b \in Calls : Plain(call'[b], p)}
    <3>1. S \ {c} = T \ {c} /\ IsFiniteSet(S)
      BY <1>1 DEF OnlyMoves, FiniteInv
    <3> HIDE DEF S, T
    <3>2. IsFiniteSet(T)
      BY <3>1, OneCounts
    <3> QED
      BY <3>2 DEF T
  <2> QED
    BY <2>1 DEF FiniteInv, Plain
<1>2. CASE Restart
  <2>1. \A c \in Calls : call'[c].pc \in {"idle", "done"}
    BY <1>2, CallParts, FinishedTyped DEF Restart, Ends
  <2>2. \A p \in Principals : {c \in Calls : Plain(call[c], p)}' = {}
    BY <2>1 DEF Plain
  <2> QED
    BY <2>2, FS_EmptySet DEF FiniteInv
<1>3. CASE Unmoved
  BY <1>3 DEF Unmoved, FiniteInv, Plain
<1> QED
  BY <1>1, <1>2, <1>3, AnyStep

-----------------------------------------------------------------------------
(* The day in memory covers the usage log. *)

\* What LogInv says of the next state, with the day it comes to named.
LEMMA LogAfter ==
    ASSUME \A p \in Principals : \A d :
             audio'[p] # NoDay /\ ~drifted'[p] /\ d = audio'[p].day =>
                logged'[p][d] + Cardinality(Units(call', Charged(p, d)'))
                  <= audio'[p].secs + Cardinality(Units(call', Unreleased(p, d)'))
    PROVE  LogInv'
<1>1. ASSUME NEW p \in Principals, NEW d, d = audio'[p].day
      PROVE  /\ Seconds(Charged(p, audio[p].day))'
                  = Cardinality(Units(call', Charged(p, d)'))
             /\ Seconds(Unreleased(p, audio[p].day))'
                  = Cardinality(Units(call', Unreleased(p, d)'))
  <2>1. /\ Charged(p, audio[p].day)' = Charged(p, d)'
        /\ Unreleased(p, audio[p].day)' = Unreleased(p, d)'
    BY <1>1 DEF Charged, Unreleased
  <2> QED
    BY <2>1 DEF Seconds, Units
<1> QED
  BY <1>1 DEF LogInv, NoDay

\* Admission, or a refusal, keeps the log covered: what is charged to the day is
\* what the log will hold of it, and a day it comes to begins with what the log has.
LEMMA KeepCovers ==
    ASSUME TypeOK, SlotInv, SoundInv, FiniteInv, DaysInv, TypeOK', DaysInv', LogInv,
           NEW c \in Calls, OnlyMoves(c),
           From(c, {"admitting"}), To(c, {"refused", "admitted"}),
           NEW w, NEW a \in Looked(c), NEW n \in Nat, Keep(call[c].p, w, a, n),
           To(c, {"admitted"}) /\ ~call[c].stream => call'[c].secs <= n,
           logged' = logged
    PROVE  LogInv'
<1> DEFINE q == call[c].p
<1> SUFFICES ASSUME NEW p \in Principals, audio'[p] # NoDay, ~drifted'[p],
                    NEW d, d = audio'[p].day
             PROVE  logged'[p][d] + Cardinality(Units(call', Charged(p, d)'))
                      <= audio'[p].secs + Cardinality(Units(call', Unreleased(p, d)'))
  BY LogAfter
<1>1. q \in Principals /\ Day(call[c].now) \in Days
  BY CallParts
<1>2. /\ a.day \in Int /\ a.secs \in Nat
      /\ a.day = audio[q].day => a = audio[q]
      /\ a.day # audio[q].day => a.day = Day(call[c].now)
  BY LookedDay
<1>3. /\ audio'[q].day = a.day /\ audio'[q].secs = a.secs + n
      /\ ~drifted'[q] => /\ ~drifted[q]
                         /\ a.day >= audio[q].day
                         /\ a.day # audio[q].day => a.secs >= logged[q][a.day]
      /\ p # q => audio'[p] = audio[p] /\ drifted'[p] = drifted[p]
  <2>1. audio'[q].day = a.day /\ audio'[q].secs = a.secs + n
    <3>1. audio'[q] = [a EXCEPT !.secs = @ + n]
      BY <1>1 DEF Keep, AudioCharged, TypeOK
    <3>2. a \in AudioDays
      BY LookedDay
    <3> QED
      BY <3>1, <3>2 DEF AudioDays
  <2>2. p # q => audio'[p] = audio[p] /\ drifted'[p] = drifted[p]
    BY KeptDay
  <2>3. ~drifted'[q] => /\ ~drifted[q]
                        /\ a.day >= audio[q].day
                        /\ a.day # audio[q].day => a.secs >= logged[q][a.day]
    BY KeptDay, Zenon
  <2> HIDE DEF q
  <2> QED
    BY <2>1, <2>2, <2>3
<1>4. d \in Days /\ d # -1
  <2>1. audio'[p].day \in Days \cup {-1}
    BY DEF TypeOK
  <2> QED
    BY <2>1, DaysAreNumbers DEF DaysInv, NoDay
<1> DEFINE before == Seconds(Charged(p, d))
           after == Cardinality(Units(call', Charged(p, d)'))
           owed == Seconds(Unreleased(p, d))
<1>5. /\ before \in Nat /\ after \in Nat /\ call'[c].secs \in Nat
      /\ c \notin Charged(p, d)
      /\ after = before + (IF c \in Charged(p, d)' THEN call'[c].secs ELSE 0)
      /\ p # q => after = before
  <2>1. c \notin Charged(p, d)
    BY DEF From, Charged, Plain
  <2>2. call'[c].secs \in Nat
    BY DEF OnlyMoves, CallState
  <2>3. /\ before \in Nat /\ after \in Nat
        /\ after = before - 0 + (IF c \in Charged(p, d)' THEN call'[c].secs ELSE 0)
        /\ p # q => c \notin Charged(p, d)'
    BY <1>4, <2>1, ChargedMoves
  <2> QED
    BY <2>1, <2>2, <2>3
<1>6. owed \in Nat /\ Cardinality(Units(call', Unreleased(p, d)')) = owed
  <2>1. c \notin Unreleased(p, d) /\ c \notin Unreleased(p, d)'
    BY DEF From, To, Unreleased
  <2>2. /\ owed \in Nat
        /\ Cardinality(Units(call', Unreleased(p, d)')) = owed - 0 + 0
    BY <1>4, <2>1, UnreleasedMoves
  <2> QED
    BY <2>2
<1>7. after <= before + n
  <2>1. c \in Charged(p, d)' => call'[c].secs <= n
    BY DEF Charged, Plain, From, To, OnlyMoves
  <2> HIDE DEF before, after
  <2> QED
    BY <1>5, <2>1
<1>8. logged[p][d] \in Nat /\ audio[p].secs \in Nat /\ audio[p].day \in Int
  BY <1>4, DaysAreNumbers DEF TypeOK
<1>9. audio[p] # NoDay /\ ~drifted[p] /\ d = audio[p].day =>
        logged[p][d] + before <= audio[p].secs + owed
  BY DEF LogInv
<1>10. CASE p # q
  <2>1. audio'[p] = audio[p] /\ drifted'[p] = drifted[p]
    BY <1>3, <1>10
  <2>2. after = before /\ logged[p][d] + before <= audio[p].secs + owed
    BY <1>5, <1>9, <1>10, <2>1
  <2> HIDE DEF before, after, owed
  <2> QED
    BY <1>6, <2>1, <2>2 DEF after
<1>11. CASE p = q /\ d = audio[p].day
  <2>1. a = audio[p] /\ audio[p] # NoDay /\ ~drifted[p]
    BY <1>2, <1>3, <1>4, <1>11 DEF NoDay
  <2>2. logged[p][d] + before <= audio[p].secs + owed
    BY <1>9, <1>11, <2>1
  <2>3. audio'[p].secs = audio[p].secs + n
    BY <1>3, <1>11, <2>1
  <2>4. logged[p][d] + after <= audio'[p].secs + owed
    <3> HIDE DEF before, after, owed
    <3> QED
      BY <1>5, <1>6, <1>7, <1>8, <2>2, <2>3
  <2> QED
    BY <1>6, <2>4
<1>12. CASE p = q /\ d # audio[p].day
  <2>1. d = a.day /\ ~drifted[p] /\ d >= audio[p].day /\ a.secs >= logged[p][d]
    BY <1>3, <1>12
  <2>2. before = 0
    <3>1. d > audio[p].day
      BY <1>8, <1>12, <1>2, <2>1
    <3> QED
      BY <1>4, <2>1, <3>1, NoneAhead
  <2>3. audio'[p].secs = a.secs + n
    BY <1>3, <1>12
  <2>4. logged[p][d] + after <= audio'[p].secs + owed
    <3> HIDE DEF before, after, owed
    <3> QED
      BY <1>2, <1>5, <1>6, <1>7, <1>8, <2>1, <2>2, <2>3
  <2> QED
    BY <1>6, <2>4
<1> QED
  BY <1>10, <1>11, <1>12

\* A step that stays on the day: what it takes from the calls is in the log or
\* charged.
LEMMA SameDayCovers ==
    ASSUME TypeOK, SlotInv, FiniteInv, DaysInv, TypeOK', LogInv,
           NEW c \in Calls, OnlyMoves(c), NEW q, q = call[c].p, drifted' = drifted,
           audio'[q].day = audio[q].day, audio[q] = NoDay => audio'[q] = NoDay,
           \A p \in Principals : p # q => /\ audio'[p] = audio[p]
                                          /\ logged'[p] = logged[p],
           \A d \in Days : d = audio[q].day /\ ~drifted[q] =>
             logged'[q][d] + audio[q].secs
                 + (IF c \in Charged(q, d)' THEN call'[c].secs ELSE 0)
                 + (IF c \in Unreleased(q, d) THEN call[c].secs ELSE 0)
               <= logged[q][d] + audio'[q].secs
                    + (IF c \in Charged(q, d) THEN call[c].secs ELSE 0)
                    + (IF c \in Unreleased(q, d)' THEN call'[c].secs ELSE 0)
    PROVE  LogInv'
<1> SUFFICES ASSUME NEW p \in Principals, audio'[p] # NoDay, ~drifted'[p],
                    NEW d, d = audio'[p].day
             PROVE  logged'[p][d] + Cardinality(Units(call', Charged(p, d)'))
                      <= audio'[p].secs + Cardinality(Units(call', Unreleased(p, d)'))
  BY LogAfter
<1>1. q \in Principals /\ call[c].secs \in Nat /\ call'[c].secs \in Nat
  BY CallParts DEF OnlyMoves, CallState
<1>2. audio[p] # NoDay /\ ~drifted[p] /\ d = audio[p].day
  <2>1. CASE p = q
    BY <2>1
  <2>2. CASE p # q
    BY <2>2
  <2> QED
    BY <2>1, <2>2
<1>3. d \in Days
  <2>1. audio[p].day \in Days \cup {-1}
    BY DEF TypeOK
  <2> QED
    BY <1>2, <2>1 DEF DaysInv
<1> DEFINE before == Seconds(Charged(p, d))
           after == Cardinality(Units(call', Charged(p, d)'))
           owed == Seconds(Unreleased(p, d))
           owes == Cardinality(Units(call', Unreleased(p, d)'))
           x0 == IF c \in Charged(p, d) THEN call[c].secs ELSE 0
           x1 == IF c \in Charged(p, d)' THEN call'[c].secs ELSE 0
           y0 == IF c \in Unreleased(p, d) THEN call[c].secs ELSE 0
           y1 == IF c \in Unreleased(p, d)' THEN call'[c].secs ELSE 0
<1>4. before \in Nat /\ after \in Nat /\ after = before - x0 + x1
  BY <1>3, ChargedMoves
<1>5. owed \in Nat /\ owes \in Nat /\ owes = owed - y0 + y1
  BY <1>3, UnreleasedMoves
<1>6. x0 \in Nat /\ x1 \in Nat /\ y0 \in Nat /\ y1 \in Nat
  BY <1>1
<1>7. logged[p][d] + before <= audio[p].secs + owed
  BY <1>2 DEF LogInv
<1>8. /\ logged[p][d] \in Nat /\ audio[p].secs \in Nat
      /\ logged'[p][d] \in Nat /\ audio'[p].secs \in Nat
  BY <1>3 DEF TypeOK
<1>9. logged'[p][d] + audio[p].secs + x1 + y0 <= logged[p][d] + audio'[p].secs + x0 + y1
  <2>1. CASE p = q
    BY <1>2, <1>3, <2>1
  <2>2. CASE p # q
    <3>1. x0 = 0 /\ x1 = 0
      BY <1>3, <2>2, ChargedMoves
    <3>2. y0 = 0 /\ y1 = 0
      BY <1>3, <2>2, UnreleasedMoves
    <3>3. logged'[p] = logged[p] /\ audio'[p] = audio[p]
      BY <2>2
    <3> HIDE DEF x0, x1, y0, y1
    <3> QED
      BY <1>8, <3>1, <3>2, <3>3
  <2> QED
    BY <2>1, <2>2
<1>10. logged'[p][d] + after <= audio'[p].secs + owes
  <2> HIDE DEF before, after, owed, owes, x0, x1, y0, y1
  <2> QED
    BY <1>4, <1>5, <1>6, <1>7, <1>8, <1>9
<1> QED
  BY <1>10

LEMMA LogKept ==
    ASSUME Quotas, TypeOK, SlotInv, SoundInv, FiniteInv, DaysInv, LogInv,
           TypeOK', DaysInv', [Next]_vars
    PROVE  LogInv'
<1> USE DEF limiter, history
<1>0. OnlySessionsOpen
  BY DEF SlotInv, OnlySessionsOpen
<1>1. CASE Restart
  BY <1>1 DEF Restart, LogInv, NoDay
<1>2. CASE Unmoved
  BY <1>2 DEF Unmoved, LogInv, NoDay, Seconds, Charged, Plain, Unreleased, Holders, HoldsSlot
<1>3. ASSUME NEW c \in Calls, OnlyMoves(c), CallStep(c) PROVE LogInv'
  <2>0. PICK q : q = call[c].p
    OBVIOUS
  <2>1. /\ q \in Principals /\ call[c].secs \in Nat /\ call[c].lim \in Limits
        /\ call[c].stream \in BOOLEAN /\ Day(call[c].start) \in Days
        /\ call'[c].secs \in Nat
    BY <1>3, <2>0, CallParts DEF OnlyMoves, CallState
  <2>2. call[c].pc = "admitting" => call[c].lim.audio > 0
    BY DEF SoundInv, Sound, Quotas
  <2>3. call'[c].p = q /\ call'[c].stream = call[c].stream
    BY <1>3, <2>0 DEF OnlyMoves
  <2>4. \A d \in Days :
          /\ c \in Charged(q, d) <=> /\ ~call[c].stream /\ Day(call[c].start) = d
                                     /\ call[c].pc \in {"admitted", "logging"}
          /\ c \in Charged(q, d)' <=> /\ ~call[c].stream /\ Day(call'[c].start) = d
                                      /\ call'[c].pc \in {"admitted", "logging"}
          /\ c \in Unreleased(q, d) <=> /\ call[c].stream /\ Day(call[c].start) = d
                                        /\ call[c].pc = "releasing"
                                        /\ call[c].end = "recorded"
          /\ c \in Unreleased(q, d)' <=> /\ call[c].stream /\ Day(call'[c].start) = d
                                         /\ call'[c].pc = "releasing"
                                         /\ call'[c].end = "recorded"
    BY <2>0, <2>3 DEF Charged, Plain, Unreleased, Holders, HoldsSlot
  <2>5. \A d \in Days : logged[q][d] \in Nat /\ audio[q].secs \in Nat
    BY <2>1 DEF TypeOK
  <2>10. CASE Early(c) \/ Answered(c) \/ Ended(c)
    <3>1. ASSUME NEW d \in Days
          PROVE  /\ c \in Charged(q, d)' => c \in Charged(q, d) /\ call'[c].secs = call[c].secs
                 /\ c \notin Unreleased(q, d)
      <4>1. CASE Early(c)
        BY <2>4, <4>1 DEF Early, From, To
      <4>2. CASE Answered(c)
        BY <2>4, <4>2 DEF Answered, From, To, KeepsReadings, KeepsSecs
      <4>3. CASE Ended(c)
        BY <1>0, <2>4, <4>3 DEF Ended, From, To, OnlySessionsOpen
      <4> QED
        BY <2>10, <4>1, <4>2, <4>3
    <3>2. audio' = audio /\ drifted' = drifted /\ logged' = logged
      BY <2>10 DEF Early, Answered, Ended
    <3>3. ASSUME NEW d \in Days
          PROVE  logged'[q][d] + audio[q].secs
                     + (IF c \in Charged(q, d)' THEN call'[c].secs ELSE 0)
                     + (IF c \in Unreleased(q, d) THEN call[c].secs ELSE 0)
                   <= logged[q][d] + audio'[q].secs
                        + (IF c \in Charged(q, d) THEN call[c].secs ELSE 0)
                        + (IF c \in Unreleased(q, d)' THEN call'[c].secs ELSE 0)
      BY <2>1, <2>5, <3>1, <3>2
    <3> QED
      BY <1>3, <2>0, <3>2, <3>3, SameDayCovers
  <2>11. CASE Refused(c)
    <3>1. PICK a \in Looked(c) : Keep(call[c].p, Readings(c), a, 0)
      BY <2>11 DEF Refused
    <3>2. /\ From(c, {"admitting"}) /\ To(c, {"refused", "admitted"})
          /\ ~To(c, {"admitted"}) /\ logged' = logged
      BY <2>11 DEF Refused, To
    <3> QED
      BY <1>3, <3>1, <3>2, KeepCovers
  <2>12. CASE Unlimited(c)
    BY <2>2, <2>12 DEF Unlimited, From
  <2>13. CASE Taken(c)
    <3> DEFINE counts == call[c].lim.audio > 0 /\ call[c].secs > 0
               n == IF counts THEN call[c].secs ELSE 0
    <3>1. PICK a \in (IF counts THEN Today(call[c].p, Day(call[c].now)) ELSE {audio[call[c].p]}) :
             Keep(call[c].p, Counted(Readings(c)), a, n)
      BY <2>13 DEF Taken
    <3>2. a \in Looked(c) /\ n \in Nat
      BY <2>1, <3>1 DEF Looked
    <3>3. call'[c].secs <= n
      BY <2>1, <2>2, <2>13 DEF Taken, From, KeepsSecs
    <3>4. /\ From(c, {"admitting"}) /\ To(c, {"refused", "admitted"}) /\ logged' = logged
      BY <2>13 DEF Taken, To
    <3> HIDE DEF n, counts
    <3> QED
      BY <1>3, <3>1, <3>2, <3>3, <3>4, KeepCovers
  <2>14. CASE Opened(c)
    <3> DEFINE counts == call[c].metered /\ call[c].lim.audio > 0
    <3>1. PICK a \in (IF counts THEN Today(call[c].p, Day(call[c].now)) ELSE {audio[call[c].p]}) :
             Keep(call[c].p, Counted(Readings(c)), a, 0)
      BY <2>14 DEF Opened
    <3>2. a \in Looked(c)
      BY <3>1 DEF Looked
    <3>3. /\ From(c, {"admitting"}) /\ To(c, {"refused", "admitted"}) /\ logged' = logged
          /\ call[c].stream
      BY <2>14 DEF Opened, To
    <3> HIDE DEF counts
    <3> QED
      BY <1>3, <3>1, <3>2, <3>3, KeepCovers
  <2>15. CASE Appended(c)
    <3>1. audio' = audio /\ drifted' = drifted
      BY <2>15 DEF Appended
    <3>2. \A p \in Principals : p # q => logged'[p] = logged[p]
      BY <2>0, <2>1, <2>15 DEF Appended, TypeOK
    <3>3. ASSUME NEW d \in Days
          PROVE  logged'[q][d] + audio[q].secs
                     + (IF c \in Charged(q, d)' THEN call'[c].secs ELSE 0)
                     + (IF c \in Unreleased(q, d) THEN call[c].secs ELSE 0)
                   <= logged[q][d] + audio'[q].secs
                        + (IF c \in Charged(q, d) THEN call[c].secs ELSE 0)
                        + (IF c \in Unreleased(q, d)' THEN call'[c].secs ELSE 0)
      <4>1. c \notin Charged(q, d)' /\ c \notin Unreleased(q, d)
        BY <2>4, <2>15 DEF Appended, From, To
      <4>2. CASE logged' = logged
        BY <2>1, <2>5, <3>1, <4>1, <4>2
      <4>3. CASE /\ logged' = [logged EXCEPT ![call[c].p][Day(call[c].start)] = @ + call[c].secs]
                 /\ call[c].stream => call'[c].end = "recorded"
        <5>1. logged'[q][d] = logged[q][d] + (IF Day(call[c].start) = d THEN call[c].secs ELSE 0)
          BY <2>0, <2>1, <2>5, <4>3 DEF TypeOK
        <5>2. CASE call[c].stream
          <6>1. c \in Unreleased(q, d)' <=> Day(call[c].start) = d
            BY <2>4, <2>15, <4>3, <5>2 DEF Appended, To, KeepsReadings
          <6>2. call'[c].secs = call[c].secs
            BY <2>15, <5>2 DEF Appended, KeepsSecs
          <6> QED
            BY <2>1, <2>5, <3>1, <4>1, <5>1, <6>1, <6>2
        <5>3. CASE ~call[c].stream
          <6>1. c \in Charged(q, d) <=> Day(call[c].start) = d
            BY <2>4, <2>15, <5>3 DEF Appended, From
          <6> QED
            BY <2>1, <2>5, <3>1, <4>1, <5>1, <6>1
        <5> QED
          BY <5>2, <5>3
      <4> QED
        BY <2>15, <4>2, <4>3 DEF Appended
    <3> QED
      BY <1>3, <2>0, <3>1, <3>2, <3>3, SameDayCovers
  <2>16. CASE Released(c)
    <3> DEFINE charge == IF audio[q] # NoDay /\ audio[q].day = Day(call[c].now)
                         THEN call[c].secs ELSE 0
    <3>1. /\ audio'[q].day = audio[q].day /\ audio'[q].secs = audio[q].secs + charge
          /\ audio[q] = NoDay => audio'[q] = NoDay
          /\ \A p \in Principals : p # q => audio'[p] = audio[p]
      BY <2>0, <2>1, <2>16 DEF Released, TypeOK
    <3>2. drifted' = drifted /\ logged' = logged /\ call[c].stream
      BY <1>0, <2>16 DEF Released, From, OnlySessionsOpen
    <3>3. ASSUME NEW d \in Days, d = audio[q].day, ~drifted[q]
          PROVE  logged'[q][d] + audio[q].secs
                     + (IF c \in Charged(q, d)' THEN call'[c].secs ELSE 0)
                     + (IF c \in Unreleased(q, d) THEN call[c].secs ELSE 0)
                   <= logged[q][d] + audio'[q].secs
                        + (IF c \in Charged(q, d) THEN call[c].secs ELSE 0)
                        + (IF c \in Unreleased(q, d)' THEN call'[c].secs ELSE 0)
      <4>1. /\ c \notin Charged(q, d)' /\ c \notin Charged(q, d)
            /\ c \notin Unreleased(q, d)'
        BY <2>4, <2>16, <3>2 DEF Released, To
      <4>2. c \in Unreleased(q, d) => call[c].secs <= charge
        <5> SUFFICES ASSUME c \in Unreleased(q, d), call[c].secs > 0
                     PROVE  call[c].secs <= charge
          BY <2>1
        <5>1. Day(call[c].start) = d /\ call[c].pc = "releasing"
          BY <2>4
        <5>2. call[c].metered /\ call[c].start <= call[c].now
          BY <3>2, <5>1, <2>1 DEF SoundInv, Sound, InFlight
        <5>3. audio[q].day >= Day(call[c].now)
          BY <2>0, <3>2, <3>3, <5>1, <5>2 DEF DaysInv, Counts, InFlight
        <5>4. Day(call[c].now) >= Day(call[c].start)
          BY <5>2, CallParts, DaysInOrder
        <5>5. Day(call[c].now) \in Int /\ d \in Int /\ d # -1
          BY CallParts, DaysAreNumbers
        <5>6. Day(call[c].now) = d /\ audio[q] # NoDay
          BY <3>3, <5>1, <5>3, <5>4, <5>5 DEF NoDay
        <5> QED
          BY <2>1, <3>3, <5>6
      <4>3. charge \in Nat
        BY <2>1
      <4> HIDE DEF charge
      <4> QED
        BY <2>1, <2>5, <3>1, <3>2, <4>1, <4>2, <4>3
    <3> QED
      BY <1>3, <2>0, <3>1, <3>2, <3>3, SameDayCovers
  <2> QED
    BY <1>3, <2>10, <2>11, <2>12, <2>13, <2>14, <2>15, <2>16 DEF CallStep
<1> QED
  BY <1>0, <1>1, <1>2, <1>3, AnyStep

\* The day in memory covers the usage log (gw_limits.go:129, today's reseed;
\* gw_limits.go:155, the record comes before the release): for any number of calls and restarts, where every
\* principal has a quota, the audio counted for a day is never less than what its log
\* holds, sessions between their record and their release aside.
THEOREM LogCovered == Quotas /\ Spec => []CoversLog
<1> DEFINE Inv == SoundInv /\ FiniteInv /\ DaysInv /\ LogInv
<1>1. Init => Inv
  <2> SUFFICES ASSUME Init PROVE Inv
    OBVIOUS
  <2>1. \A c \in Calls : call[c].pc = "idle"
    BY DEF Init, Fresh
  <2>2. DaysInv
    BY <2>1 DEF Init, DaysInv, Counts, InFlight
  <2>3. \A p \in Principals : {c \in Calls : Plain(call[c], p)} = {}
    BY <2>1 DEF Plain
  <2>4. FiniteInv
    BY <2>3, FS_EmptySet DEF FiniteInv
  <2>5. LogInv
    BY DEF Init, LogInv
  <2> QED
    BY <2>2, <2>4, <2>5, InitRates
<1>2. Quotas /\ LimiterInv /\ LimiterInv' /\ Inv /\ [Next]_vars => Inv'
  <2> SUFFICES ASSUME Quotas, LimiterInv, LimiterInv', Inv, [Next]_vars PROVE Inv'
    OBVIOUS
  <2>1. TypeOK /\ SlotInv /\ OnlySessionsOpen /\ TypeOK'
    BY DEF LimiterInv, SlotInv, OnlySessionsOpen
  <2>2. SoundInv' /\ FiniteInv' /\ DaysInv'
    BY <2>1, SoundKept, FiniteKept, DaysKept
  <2>3. LogInv'
    BY <2>1, <2>2, LogKept
  <2> QED
    BY <2>2, <2>3
<1>3. LimiterInv /\ Inv => CoversLog
  <2> SUFFICES ASSUME LimiterInv, Inv, NEW p \in Principals, audio[p] # NoDay, ~drifted[p]
               PROVE  logged[p][audio[p].day]
                        <= audio[p].secs + Seconds(Unreleased(p, audio[p].day))
    BY DEF CoversLog
  <2>1. TypeOK /\ SlotInv
    BY DEF LimiterInv
  <2> DEFINE d == audio[p].day
  <2>2. d \in Days
    BY <2>1 DEF TypeOK, DaysInv
  <2>3. IsFiniteSet(Charged(p, d)) /\ IsFiniteSet(Unreleased(p, d))
    <3>1. Charged(p, d) \subseteq {b \in Calls : Plain(call[b], p)}
      BY DEF Charged
    <3>2. Unreleased(p, d) \subseteq Holders(p)
      BY DEF Unreleased
    <3> QED
      BY <2>1, <3>1, <3>2, FS_Subset DEF FiniteInv, SlotInv
  <2>4. Seconds(Charged(p, d)) \in Nat /\ Seconds(Unreleased(p, d)) \in Nat
    <3>1. \A b \in Charged(p, d) \cup Unreleased(p, d) : call[b].secs \in Nat
      BY <2>1, CallParts DEF Charged, Unreleased, Holders
    <3> HIDE DEF d
    <3>2. /\ Cardinality(Units(call, Charged(p, d))) \in Nat
          /\ Cardinality(Units(call, Unreleased(p, d))) \in Nat
      BY <2>3, <3>1, UnitsFinite
    <3> QED
      BY <3>2 DEF Seconds, Units
  <2>5. logged[p][d] \in Nat /\ audio[p].secs \in Nat
    BY <2>1, <2>2 DEF TypeOK
  <2>6. logged[p][d] + Seconds(Charged(p, d)) <= audio[p].secs + Seconds(Unreleased(p, d))
    BY DEF LogInv
  <2>7. logged[p][d] <= audio[p].secs + Seconds(Unreleased(p, d))
    <3> HIDE DEF d
    <3> QED
      BY <2>4, <2>5, <2>6
  <2> QED
    BY <2>7
<1>4. Quotas => []Quotas
  <2>1. Quotas => Quotas'
    BY DEF Quotas
  <2> QED
    BY <2>1, PTL
<1> HIDE DEF Inv
<1> QED
  BY <1>1, <1>2, <1>3, <1>4, LimiterInvariant, PTL DEF Spec

-----------------------------------------------------------------------------
(* What a principal spends on a day. *)

LEMMA OverMoves ==
    ASSUME TypeOK, SlotInv, NEW c \in Calls, OnlyMoves(c),
           NEW p \in Principals, NEW d \in Days
    PROVE  /\ Seconds(Over(p, d)) \in Nat
           /\ Cardinality(Units(call', Over(p, d)')) \in Nat
           /\ Cardinality(Units(call', Over(p, d)')) = Seconds(Over(p, d))
                - (IF c \in Over(p, d) THEN call[c].secs ELSE 0)
                + (IF c \in Over(p, d)' THEN call'[c].secs ELSE 0)
           /\ p # call[c].p => c \notin Over(p, d) /\ c \notin Over(p, d)'
<1> DEFINE S == Over(p, d)
           T == Over(p, d)'
<1>1. S \subseteq Holders(p) /\ T \subseteq Holders(p)' /\ S \ {c} = T \ {c}
  BY DEF Over, Holders, HoldsSlot, OnlyMoves
<1> HIDE DEF S, T
<1>2. /\ Seconds(S) \in Nat /\ Cardinality(Units(call', T)) \in Nat
      /\ Cardinality(Units(call', T)) = Seconds(S)
           - (IF c \in S THEN call[c].secs ELSE 0)
           + (IF c \in T THEN call'[c].secs ELSE 0)
      /\ p # call[c].p => c \notin S /\ c \notin T
  BY <1>1, SessionsMove
<1> QED
  BY <1>2 DEF S, T

LEMMA Spread ==
    ASSUME NEW n \in Nat, NEW m \in Nat, NEW i \in {0, 1}, NEW j \in {0, 1},
           NEW l \in Nat, m = n - i + j
    PROVE  m * l = n * l - (IF i = 1 THEN l ELSE 0) + (IF j = 1 THEN l ELSE 0)
<1>1. CASE i = j
  BY <1>1
<1>2. CASE i = 1 /\ j = 0
  <2>1. n = m + 1
    BY <1>2
  <2>2. (m + 1) * l = m * l + l
    OBVIOUS
  <2>3. m * l \in Nat
    OBVIOUS
  <2> QED
    BY <1>2, <2>1, <2>2, <2>3
<1>3. CASE i = 0 /\ j = 1
  <2>1. m = n + 1
    BY <1>3
  <2>2. (n + 1) * l = n * l + l
    OBVIOUS
  <2>3. n * l \in Nat
    OBVIOUS
  <2> QED
    BY <1>3, <2>1, <2>2, <2>3
<1> QED
  BY <1>1, <1>2, <1>3

LEMMA MayMoves ==
    ASSUME TypeOK, SlotInv, NEW c \in Calls, OnlyMoves(c),
           NEW p \in Principals, NEW d \in Days
    PROVE  /\ May(p, d) \in Nat /\ May(p, d)' \in Nat
           /\ May(p, d)' = May(p, d)
                - (IF c \in MayCharge(p, d) THEN LongestCharge ELSE 0)
                + (IF c \in MayCharge(p, d)' THEN LongestCharge ELSE 0)
           /\ p # call[c].p => c \notin MayCharge(p, d) /\ c \notin MayCharge(p, d)'
<1> DEFINE S == MayCharge(p, d)
           T == MayCharge(p, d)'
           i == IF c \in S THEN 1 ELSE 0
           j == IF c \in T THEN 1 ELSE 0
<1>1. S \subseteq Holders(p) /\ S \ {c} = T \ {c}
  BY DEF MayCharge, Holders, HoldsSlot, OnlyMoves
<1>2. p # call[c].p => c \notin S /\ c \notin T
  BY DEF MayCharge, Holders, OnlyMoves
<1>3. LongestCharge \in Nat /\ LongestCharge' = LongestCharge
  BY LimiterAssumption DEF LongestCharge
<1>4. IsFiniteSet(S)
  BY <1>1, FS_Subset DEF SlotInv
<1>5. May(p, d) = Cardinality(S) * LongestCharge /\ May(p, d)' = Cardinality(T) * LongestCharge
  BY <1>3 DEF May
<1> HIDE DEF S, T
<1>6. /\ Cardinality(S) \in Nat /\ Cardinality(T) \in Nat
      /\ Cardinality(T) = Cardinality(S) - i + j
  BY <1>1, <1>4, OneCounts
<1>7. i \in {0, 1} /\ j \in {0, 1}
  OBVIOUS
<1>8. Cardinality(T) * LongestCharge = Cardinality(S) * LongestCharge
        - (IF i = 1 THEN LongestCharge ELSE 0) + (IF j = 1 THEN LongestCharge ELSE 0)
  <2> HIDE DEF i, j
  <2> QED
    BY <1>3, <1>6, <1>7, Spread
<1>9. /\ (IF i = 1 THEN LongestCharge ELSE 0) = IF c \in S THEN LongestCharge ELSE 0
      /\ (IF j = 1 THEN LongestCharge ELSE 0) = IF c \in T THEN LongestCharge ELSE 0
  OBVIOUS
<1>10. \A x \in Nat, y \in Nat : x * y \in Nat
  OBVIOUS
<1> QED
  BY <1>2, <1>3, <1>5, <1>6, <1>8, <1>9, <1>10 DEF S, T

\* The greatest limits are numbers, where there is a principal.
LEMMA GreatestTyped ==
    ASSUME TypeOK, NEW p \in Principals
    PROVE  MaxAudio \in Nat /\ MaxStreams \in Int /\ (Capped => MaxStreams > 0)
<1>1. limits[p] \in LimitChoices
  BY DEF TypeOK
<1>2. MaxAudio \in Nat /\ MaxStreams \in Int /\ Cap(limits[p]) <= MaxStreams
  BY <1>1, WithinGreatest
<1>3. Cap(limits[p]) \in Int
  BY <1>1, LimiterAssumption DEF Cap, Limits, DefaultMaxStreams
<1>4. Capped => Cap(limits[p]) > 0
  BY <1>1 DEF Capped
<1> QED
  BY <1>2, <1>3, <1>4

\* The sessions that are over and those that may yet charge have their audio within
\* what the slots allow.
LEMMA Room ==
    TypeOK /\ SlotInv /\ SoundInv /\ StreamsInv =>
      \A p \in Principals, d \in Days :
        /\ MaxStreams \in Int
        /\ Seconds(Over(p, d)) + May(p, d) <= MaxStreams * LongestCharge
<1> SUFFICES ASSUME TypeOK, SlotInv, SoundInv, StreamsInv,
                    NEW p \in Principals, NEW d \in Days
             PROVE  Seconds(Over(p, d)) + May(p, d) <= MaxStreams * LongestCharge
  BY GreatestTyped
<1> DEFINE S == Over(p, d)
           T == MayCharge(p, d)
           L == LongestCharge
<1>1. L \in Nat
  BY LimiterAssumption DEF LongestCharge
<1>2. /\ S \subseteq Holders(p) /\ T \subseteq Holders(p) /\ S \cap T = {}
      /\ S \cup T \subseteq Holders(p)
  BY DEF Over, MayCharge
<1>3. IsFiniteSet(Holders(p)) /\ Cardinality(Holders(p)) <= MaxStreams
  BY DEF SlotInv, SlotConservation, StreamsInv
<1>4. IsFiniteSet(S) /\ IsFiniteSet(T) /\ Cardinality(S) \in Nat /\ Cardinality(T) \in Nat
  BY <1>2, <1>3, FS_Subset, FS_CardinalityType
<1>5. \A c \in S : call[c].secs \in 0..L
  <2>1. ASSUME NEW c \in S PROVE call[c].secs \in 0..L
    <3>1. c \in Calls /\ call[c].stream /\ call[c].pc \in {"logging", "releasing"}
      BY DEF Over, Holders, HoldsSlot
    <3>2. call[c].secs \in Nat /\ call[c].secs <= L
      BY <3>1, CallParts DEF SoundInv, Sound
    <3> QED
      BY <1>1, <3>2
  <2> QED
    BY <2>1
<1>6. Seconds(S) = Cardinality(Units(call, S))
  BY DEF Seconds, Units
<1> HIDE DEF S, T, L
<1>7. Cardinality(Units(call, S)) <= Cardinality(S) * L
  BY <1>1, <1>4, <1>5, UnitsBound
<1>8. Cardinality(S \cup T) = Cardinality(S) + Cardinality(T)
  <2>1. Cardinality(S \cap T) = 0
    BY <1>2, FS_EmptySet
  <2>2. Cardinality(S \cup T) = Cardinality(S) + Cardinality(T) - Cardinality(S \cap T)
    BY <1>4, FS_Union
  <2> QED
    BY <1>4, <2>1, <2>2
<1>9. Cardinality(S) + Cardinality(T) <= MaxStreams
  <2>1. Cardinality(S \cup T) <= Cardinality(Holders(p))
    BY <1>2, <1>3, FS_Subset
  <2>2. Cardinality(Holders(p)) \in Nat /\ MaxStreams \in Int
    BY <1>3, FS_CardinalityType, GreatestTyped
  <2> QED
    BY <1>3, <1>4, <1>8, <2>1, <2>2
<1>10. (Cardinality(S) + Cardinality(T)) * L <= MaxStreams * L
  <2>1. MaxStreams \in Nat /\ Cardinality(S) + Cardinality(T) \in Nat
    BY <1>4, <1>9, GreatestTyped
  <2> QED
    BY <1>1, <1>9, <2>1, Monotone
<1>11. (Cardinality(S) + Cardinality(T)) * L = Cardinality(S) * L + Cardinality(T) * L
  BY <1>1, <1>4
<1>12. Cardinality(Units(call, S)) \in Nat
  <2>1. \A c \in S : call[c].secs \in Nat
    BY <1>5, <1>1
  <2> QED
    BY <1>4, <2>1, UnitsFinite
<1>13. May(p, d) = Cardinality(T) * L
  BY DEF May, T, L
<1>14. Cardinality(S) * L \in Nat /\ Cardinality(T) * L \in Nat /\ MaxStreams * L \in Int
  BY <1>1, <1>4, GreatestTyped
<1>15. Seconds(S) + May(p, d) <= MaxStreams * L
  BY <1>6, <1>7, <1>10, <1>11, <1>12, <1>13, <1>14
<1> QED
  BY <1>15 DEF S, L

LEMMA StreamsKept ==
    ASSUME Capped, TypeOK, OnlySessionsOpen, SoundInv, StreamsInv, [Next]_vars
    PROVE  StreamsInv'
<1> USE DEF limiter, history
<1> SUFFICES ASSUME NEW p \in Principals PROVE streams'[p] <= MaxStreams
  BY DEF StreamsInv, MaxStreams, Cap
<1>0. MaxStreams \in Int /\ MaxStreams > 0 /\ streams[p] \in Nat /\ streams[p] <= MaxStreams
  BY GreatestTyped DEF StreamsInv, TypeOK
<1>1. CASE Restart
  BY <1>0, <1>1 DEF Restart
<1>2. CASE Unmoved
  BY <1>0, <1>2 DEF Unmoved
<1>3. ASSUME NEW c \in Calls, CallStep(c) PROVE streams'[p] <= MaxStreams
  <2>1. CASE streams' = streams
    BY <1>0, <2>1
  <2>2. CASE Opened(c)
    <3>1. call[c].lim \in LimitChoices
      BY <2>2 DEF Opened, From, SoundInv, Sound
    <3>2. Cap(call[c].lim) > 0 /\ Cap(call[c].lim) <= MaxStreams
      BY <3>1, WithinGreatest DEF Capped
    <3>3. Cap(call[c].lim) \in Int
      BY <3>1, LimiterAssumption DEF Cap, Limits, DefaultMaxStreams
    <3>4. p = call[c].p => streams[p] < Cap(call[c].lim)
      BY <1>0, <2>2, <3>2, <3>3 DEF Opened, SlotFree
    <3>5. streams'[p] = IF p = call[c].p THEN streams[p] + 1 ELSE streams[p]
      BY <2>2 DEF Opened, TypeOK
    <3> QED
      BY <1>0, <3>2, <3>3, <3>4, <3>5
  <2>3. CASE Released(c)
    <3>1. streams'[p] = IF p = call[c].p THEN streams[p] - 1 ELSE streams[p]
      BY <2>3 DEF Released, TypeOK
    <3> QED
      BY <1>0, <3>1
  <2> QED
    BY <1>3, <2>1, <2>2, <2>3
       DEF CallStep, Early, Refused, Unlimited, Taken, Answered, Ended, Appended
<1> QED
  BY <1>1, <1>2, <1>3, AnyStep

\* Room, in the next state.
LEMMA RoomNext ==
    (TypeOK /\ SlotInv /\ SoundInv /\ StreamsInv =>
       \A p \in Principals, d \in Days :
         /\ MaxStreams \in Int
         /\ Seconds(Over(p, d)) + May(p, d) <= MaxStreams * LongestCharge)'
BY Room, PTL

LEMMA RoomAfter ==
    ASSUME TypeOK', SlotInv', SoundInv', StreamsInv', NEW p \in Principals, NEW d \in Days
    PROVE  /\ Cardinality(Units(call', Over(p, d)')) + May(p, d)'
                <= MaxStreams * LongestCharge
           /\ MaxStreams * LongestCharge \in Int
<1>1. /\ MaxStreams' \in Int
      /\ (Seconds(Over(p, d)) + May(p, d))' <= (MaxStreams * LongestCharge)'
  BY RoomNext
<1>3. MaxStreams \in Int
  BY <1>1 DEF MaxStreams, Cap
<1>4. Seconds(Over(p, d))' + May(p, d)' <= MaxStreams * LongestCharge
  BY <1>1 DEF MaxStreams, Cap, LongestCharge
<1>5. Seconds(Over(p, d))' = Cardinality(Units(call', Over(p, d)'))
  BY DEF Seconds, Units
<1>6. LongestCharge \in Nat
  BY LimiterAssumption DEF LongestCharge
<1>7. MaxStreams * LongestCharge \in Int
  BY <1>3, <1>6
<1> QED
  BY <1>4, <1>5, <1>7

\* What SpendInv says of the next state, with the day it comes to named.
LEMMA SpendAfter ==
    ASSUME \A p \in Principals, d \in Days : \A t :
             restarts' = 0 /\ ~drifted'[p] /\ t = audio'[p].day =>
               /\ d = t => spent'[p][d]
                             <= audio'[p].secs + Cardinality(Units(call', Over(p, d)'))
               /\ d > t => spent'[p][d] = 0
               /\ spent'[p][d] + May(p, d)' <= MaxAudio + MaxStreams * LongestCharge
    PROVE  SpendInv'
<1>1. ASSUME NEW p \in Principals, NEW d \in Days
      PROVE  Seconds(Over(p, d))' = Cardinality(Units(call', Over(p, d)'))
  BY DEF Seconds, Units
<1> QED
  BY <1>1 DEF SpendInv, MaxAudio, MaxStreams, Cap, LongestCharge

\* Admission, or a refusal, keeps what is spent within what is charged, and within
\* the bound: what it adds to the day fitted the quota when it was charged.
LEMMA KeepSpends ==
    ASSUME TypeOK, SlotInv, SpendInv, TypeOK', SlotInv', SoundInv', StreamsInv',
           NEW c \in Calls, OnlyMoves(c),
           From(c, {"admitting"}), To(c, {"refused", "admitted"}),
           NEW w, NEW a \in Looked(c), NEW n \in Nat, Keep(call[c].p, w, a, n),
           restarts' = restarts,
           \A p \in Principals, d \in Days :
             spent'[p][d] = spent[p][d]
               + (IF p = call[c].p /\ d = Day(call[c].now) THEN n ELSE 0),
           n > 0 => a.day = Day(call[c].now) /\ a.secs + n <= MaxAudio,
           \A p \in Principals, d \in Days : p = call[c].p /\ c \in MayCharge(p, d)' =>
             d = a.day /\ a.secs + n <= MaxAudio
    PROVE  SpendInv'
<1> DEFINE q == call[c].p
<1> SUFFICES ASSUME NEW p \in Principals, NEW d \in Days, NEW t,
                    restarts' = 0, ~drifted'[p], t = audio'[p].day
             PROVE  /\ d = t => spent'[p][d]
                                  <= audio'[p].secs + Cardinality(Units(call', Over(p, d)'))
                    /\ d > t => spent'[p][d] = 0
                    /\ spent'[p][d] + May(p, d)' <= MaxAudio + MaxStreams * LongestCharge
  BY SpendAfter
<1>1. q \in Principals /\ Day(call[c].now) \in Days
  BY CallParts
<1>2. /\ a.day \in Int /\ a.secs \in Nat
      /\ a.day = audio[q].day => a = audio[q]
      /\ a.day # audio[q].day => a.day = Day(call[c].now)
  BY LookedDay
<1>3. /\ audio'[q].day = a.day /\ audio'[q].secs = a.secs + n
      /\ ~drifted'[q] => ~drifted[q] /\ a.day >= audio[q].day
      /\ p # q => audio'[p] = audio[p] /\ drifted'[p] = drifted[p]
  <2>1. audio'[q].day = a.day /\ audio'[q].secs = a.secs + n
    <3>1. audio'[q] = [a EXCEPT !.secs = @ + n]
      BY <1>1 DEF Keep, AudioCharged, TypeOK
    <3>2. a \in AudioDays
      BY LookedDay
    <3> QED
      BY <3>1, <3>2 DEF AudioDays
  <2>2. p # q => audio'[p] = audio[p] /\ drifted'[p] = drifted[p]
    BY KeptDay
  <2>3. ~drifted'[q] => ~drifted[q] /\ a.day >= audio[q].day
    BY KeptDay
  <2> QED
    BY <1>2, <2>1, <2>2, <2>3
<1> DEFINE before == Seconds(Over(p, d))
           after == Cardinality(Units(call', Over(p, d)'))
           may == May(p, d)
           may1 == May(p, d)'
           room == MaxStreams * LongestCharge
<1>4. before \in Nat /\ after = before
  <2>1. c \notin Over(p, d) /\ c \notin Over(p, d)'
    BY DEF From, To, Over
  <2>2. before \in Nat /\ after = before - 0 + 0
    BY <2>1, OverMoves
  <2> QED
    BY <2>2
<1>5. /\ may \in Nat /\ may1 \in Nat
      /\ c \notin MayCharge(p, d)' => may1 = may
  <2>1. c \notin MayCharge(p, d)
    BY DEF From, MayCharge
  <2>2. /\ may \in Nat /\ may1 \in Nat
        /\ may1 = may - 0 + (IF c \in MayCharge(p, d)' THEN LongestCharge ELSE 0)
    BY <2>1, MayMoves
  <2> QED
    BY <2>2
<1>6. after + may1 <= room /\ room \in Int /\ MaxAudio \in Nat
  BY RoomAfter, GreatestTyped
<1>7. restarts = 0 /\ ~drifted[p] =>
        /\ d = audio[p].day => spent[p][d] <= audio[p].secs + before
        /\ d > audio[p].day => spent[p][d] = 0
        /\ spent[p][d] + may <= MaxAudio + room
  BY DEF SpendInv
<1>8. spent[p][d] \in Nat /\ audio[p].secs \in Nat /\ audio[p].day \in Int /\ d \in Int
  BY DaysAreNumbers DEF TypeOK
<1>9. CASE p # q
  <2>1. /\ audio'[p] = audio[p] /\ ~drifted[p] /\ restarts = 0
        /\ spent'[p][d] = spent[p][d] + 0
    BY <1>3, <1>9
  <2>2. c \notin MayCharge(p, d)'
    BY <1>9, MayMoves
  <2>3. spent'[p][d] = spent[p][d] /\ may1 = may
    BY <1>5, <1>8, <2>1, <2>2
  <2> HIDE DEF before, after, may, may1, room
  <2> QED
    BY <1>4, <1>7, <2>1, <2>3 DEF after, may1, room
<1>10. CASE p = q
  <2>1. ~drifted[p] /\ restarts = 0 /\ a.day >= audio[p].day /\ t = a.day
    BY <1>3, <1>10
  <2>2. audio'[p].secs = a.secs + n
    BY <1>3, <1>10
  <2>3. spent'[p][d] = spent[p][d] + (IF d = Day(call[c].now) THEN n ELSE 0)
    BY <1>10
  <2>4. spent'[p][d] \in Nat /\ spent'[p][d] <= spent[p][d] + n
    BY <1>8, <2>3
  <2>5. d = t => spent'[p][d] <= audio'[p].secs + after
    <3>1. CASE a.day = audio[p].day
      <4>1. a = audio[p]
        BY <1>2, <1>10, <3>1
      <4> HIDE DEF before, after
      <4> QED
        BY <1>4, <1>7, <1>8, <2>1, <2>2, <2>4, <4>1
    <3>2. CASE a.day # audio[p].day
      <4>1. a.day > audio[p].day
        BY <1>2, <1>8, <2>1, <3>2
      <4>2. d = t => spent[p][d] = 0
        BY <1>7, <2>1, <4>1
      <4> HIDE DEF before, after
      <4> QED
        BY <1>2, <1>4, <1>8, <2>2, <2>4, <4>2
    <3> QED
      BY <3>1, <3>2
  <2>6. d > t => spent'[p][d] = 0
    <3> SUFFICES ASSUME d > t PROVE spent'[p][d] = 0
      OBVIOUS
    <3>1. d > audio[p].day
      BY <1>2, <1>8, <2>1
    <3>2. spent[p][d] = 0
      BY <1>7, <2>1, <3>1
    <3>3. n = 0 \/ d # Day(call[c].now)
      BY <1>2, <1>8, <2>1
    <3> QED
      BY <2>3, <3>2, <3>3
  <2>7. spent'[p][d] + may1 <= MaxAudio + room
    <3>1. CASE c \in MayCharge(p, d)' \/ (n > 0 /\ d = Day(call[c].now))
      <4>1. d = t /\ a.secs + n <= MaxAudio
        BY <1>10, <2>1, <3>1
      <4>2. spent'[p][d] <= a.secs + n + after
        BY <2>2, <2>5, <4>1
      <4>3. after \in Nat
        BY <1>4
      <4> HIDE DEF after, may1, room
      <4> QED
        BY <1>2, <1>5, <1>6, <2>4, <4>1, <4>2, <4>3
    <3>2. CASE c \notin MayCharge(p, d)' /\ ~(n > 0 /\ d = Day(call[c].now))
      <4>1. spent'[p][d] = spent[p][d] /\ may1 = may
        BY <1>5, <1>8, <2>3, <3>2
      <4>2. spent[p][d] + may <= MaxAudio + room
        BY <1>7, <2>1
      <4> HIDE DEF may, may1, room
      <4> QED
        BY <4>1, <4>2
    <3> QED
      BY <3>1, <3>2
  <2> QED
    BY <2>5, <2>6, <2>7
<1> QED
  BY <1>9, <1>10

\* A step that stays on the day: what it spends is charged, or will be by a session
\* that is over; and it was within what the session might spend.
LEMMA SameDaySpends ==
    ASSUME TypeOK, SlotInv, SpendInv, TypeOK',
           NEW c \in Calls, OnlyMoves(c), NEW q, q = call[c].p, drifted' = drifted,
           restarts' = restarts, audio'[q].day = audio[q].day,
           \A p \in Principals : p # q => /\ audio'[p] = audio[p]
                                          /\ spent'[p] = spent[p],
           \A d \in Days : ~drifted[q] =>
             /\ d = audio[q].day =>
                  spent'[q][d] + audio[q].secs
                      + (IF c \in Over(q, d) THEN call[c].secs ELSE 0)
                    <= spent[q][d] + audio'[q].secs
                         + (IF c \in Over(q, d)' THEN call'[c].secs ELSE 0)
             /\ d > audio[q].day => spent'[q][d] = spent[q][d]
             /\ spent'[q][d] + (IF c \in MayCharge(q, d)' THEN LongestCharge ELSE 0)
                  <= spent[q][d] + (IF c \in MayCharge(q, d) THEN LongestCharge ELSE 0)
    PROVE  SpendInv'
<1> SUFFICES ASSUME NEW p \in Principals, NEW d \in Days, NEW t,
                    restarts' = 0, ~drifted'[p], t = audio'[p].day
             PROVE  /\ d = t => spent'[p][d]
                                  <= audio'[p].secs + Cardinality(Units(call', Over(p, d)'))
                    /\ d > t => spent'[p][d] = 0
                    /\ spent'[p][d] + May(p, d)' <= MaxAudio + MaxStreams * LongestCharge
  BY SpendAfter
<1> DEFINE before == Seconds(Over(p, d))
           after == Cardinality(Units(call', Over(p, d)'))
           may == May(p, d)
           may1 == May(p, d)'
           room == MaxStreams * LongestCharge
           x0 == IF c \in Over(p, d) THEN call[c].secs ELSE 0
           x1 == IF c \in Over(p, d)' THEN call'[c].secs ELSE 0
           y0 == IF c \in MayCharge(p, d) THEN LongestCharge ELSE 0
           y1 == IF c \in MayCharge(p, d)' THEN LongestCharge ELSE 0
<1>1. q \in Principals /\ call[c].secs \in Nat /\ call'[c].secs \in Nat
  BY CallParts DEF OnlyMoves, CallState
<1>2. LongestCharge \in Nat /\ MaxAudio \in Nat /\ room \in Int
  <2>1. LongestCharge \in Nat
    BY LimiterAssumption DEF LongestCharge
  <2> QED
    BY <2>1, GreatestTyped
<1>3. before \in Nat /\ after \in Nat /\ after = before - x0 + x1
  BY OverMoves
<1>4. may \in Nat /\ may1 \in Nat /\ may1 = may - y0 + y1
  BY MayMoves
<1>5. x0 \in Nat /\ x1 \in Nat /\ y0 \in Nat /\ y1 \in Nat
  BY <1>1, <1>2
<1>6. ~drifted[p] /\ restarts = 0 /\ t = audio[p].day
  <2>1. CASE p = q
    BY <2>1
  <2>2. CASE p # q
    BY <2>2
  <2> QED
    BY <2>1, <2>2
<1>7. /\ d = t => spent[p][d] <= audio[p].secs + before
      /\ d > t => spent[p][d] = 0
      /\ spent[p][d] + may <= MaxAudio + room
  BY <1>6 DEF SpendInv
<1>8. /\ spent[p][d] \in Nat /\ audio[p].secs \in Nat
      /\ spent'[p][d] \in Nat /\ audio'[p].secs \in Nat
  BY DEF TypeOK
<1>9. /\ d = t => spent'[p][d] + audio[p].secs + x0 <= spent[p][d] + audio'[p].secs + x1
      /\ d > t => spent'[p][d] = spent[p][d]
      /\ spent'[p][d] + y1 <= spent[p][d] + y0
  <2>1. CASE p = q
    BY <1>6, <2>1
  <2>2. CASE p # q
    <3>1. x0 = 0 /\ x1 = 0
      BY <2>2, OverMoves
    <3>2. y0 = 0 /\ y1 = 0
      BY <2>2, MayMoves
    <3>3. spent'[p] = spent[p] /\ audio'[p] = audio[p]
      BY <2>2
    <3> HIDE DEF x0, x1, y0, y1
    <3> QED
      BY <1>8, <3>1, <3>2, <3>3
  <2> QED
    BY <2>1, <2>2
<1>10. d = t => spent'[p][d] <= audio'[p].secs + after
  <2> HIDE DEF before, after, x0, x1
  <2> QED
    BY <1>3, <1>5, <1>7, <1>8, <1>9
<1>11. spent'[p][d] + may1 <= MaxAudio + room
  <2> HIDE DEF may, may1, y0, y1, room
  <2> QED
    BY <1>2, <1>4, <1>5, <1>7, <1>8, <1>9
<1> QED
  BY <1>7, <1>9, <1>10, <1>11

LEMMA SpendKept ==
    ASSUME Quotas, TypeOK, SlotInv, SoundInv, DaysInv, SpendInv,
           TypeOK', SlotInv', SoundInv', StreamsInv', [Next]_vars
    PROVE  SpendInv'
<1> USE DEF limiter, history
<1>0. OnlySessionsOpen
  BY DEF SlotInv, OnlySessionsOpen
<1>1. CASE Restart
  <2>1. restarts' # 0
    BY <1>1, LimiterAssumption DEF Restart, TypeOK
  <2> QED
    BY <2>1 DEF SpendInv
<1>2. CASE Unmoved
  <2>1. /\ call' = call /\ spent' = spent /\ audio' = audio /\ drifted' = drifted
        /\ restarts' = restarts
    BY <1>2 DEF Unmoved
  <2>2. ASSUME NEW p \in Principals, NEW d \in Days
        PROVE  /\ Cardinality(Units(call', Over(p, d)')) = Seconds(Over(p, d))
               /\ May(p, d)' = May(p, d)
    <3>1. Over(p, d)' = Over(p, d) /\ MayCharge(p, d)' = MayCharge(p, d)
      BY <2>1 DEF Over, MayCharge, Holders, HoldsSlot
    <3> QED
      BY <2>1, <3>1 DEF Seconds, Units, May, LongestCharge
  <2>3. \A p \in Principals, d \in Days : \A t :
           restarts' = 0 /\ ~drifted'[p] /\ t = audio'[p].day =>
             /\ d = t => spent'[p][d]
                           <= audio'[p].secs + Cardinality(Units(call', Over(p, d)'))
             /\ d > t => spent'[p][d] = 0
             /\ spent'[p][d] + May(p, d)' <= MaxAudio + MaxStreams * LongestCharge
    BY <2>1, <2>2 DEF SpendInv
  <2> QED
    BY <2>3, SpendAfter
<1>3. ASSUME NEW c \in Calls, OnlyMoves(c), CallStep(c) PROVE SpendInv'
  <2>0. PICK q : q = call[c].p
    OBVIOUS
  <2>1. /\ q \in Principals /\ call[c].secs \in Nat /\ call[c].lim \in Limits
        /\ call[c].stream \in BOOLEAN /\ Day(call[c].now) \in Days
        /\ call'[c].secs \in Nat
    BY <1>3, <2>0, CallParts DEF OnlyMoves, CallState
  <2>2. call[c].pc = "admitting" => /\ call[c].lim.audio > 0
                                    /\ call[c].lim.audio <= MaxAudio
    BY WithinGreatest DEF SoundInv, Sound, Quotas
  <2>3. /\ call'[c].p = q /\ call'[c].stream = call[c].stream
        /\ call'[c].metered = call[c].metered
    BY <1>3, <2>0 DEF OnlyMoves
  <2>4. \A d \in Days :
          /\ c \in Over(q, d) <=> /\ call[c].stream /\ Day(call[c].now) = d
                                  /\ call[c].pc \in {"logging", "releasing"}
          /\ c \in Over(q, d)' <=> /\ call[c].stream /\ Day(call'[c].now) = d
                                   /\ call'[c].pc \in {"logging", "releasing"}
          /\ c \in MayCharge(q, d) <=> /\ call[c].stream /\ Day(call[c].now) = d
                                       /\ call[c].metered
                                       /\ call[c].pc \in {"admitted", "open"}
          /\ c \in MayCharge(q, d)' <=> /\ call[c].stream /\ Day(call'[c].now) = d
                                        /\ call[c].metered
                                        /\ call'[c].pc \in {"admitted", "open"}
    BY <2>0, <2>3 DEF Over, MayCharge, Holders, HoldsSlot
  <2>5. /\ \A d \in Days : spent[q][d] \in Nat
        /\ audio[q].secs \in Nat /\ audio[q].day \in Int
    BY <2>1, DaysAreNumbers DEF TypeOK
  <2>6. LongestCharge \in Nat
    BY LimiterAssumption DEF LongestCharge
  <2>10. CASE Early(c) \/ Answered(c) \/ Appended(c)
    <3>1. ASSUME NEW d \in Days
          PROVE  /\ c \in Over(q, d) =>
                      c \in Over(q, d)' /\ call'[c].secs = call[c].secs
                 /\ c \in MayCharge(q, d)' => c \in MayCharge(q, d)
      <4>1. CASE Early(c)
        BY <2>4, <4>1 DEF Early, From, To
      <4>2. CASE Answered(c)
        BY <2>4, <4>2 DEF Answered, From, To, KeepsReadings, KeepsSecs
      <4>3. CASE Appended(c)
        BY <2>4, <4>3 DEF Appended, From, To, KeepsReadings, KeepsSecs
      <4> QED
        BY <2>10, <4>1, <4>2, <4>3
    <3>2. audio' = audio /\ drifted' = drifted /\ spent' = spent /\ restarts' = restarts
      BY <2>10 DEF Early, Answered, Appended
    <3>3. ASSUME NEW d \in Days
          PROVE  /\ spent'[q][d] + audio[q].secs
                        + (IF c \in Over(q, d) THEN call[c].secs ELSE 0)
                      <= spent[q][d] + audio'[q].secs
                           + (IF c \in Over(q, d)' THEN call'[c].secs ELSE 0)
                 /\ spent'[q][d] + (IF c \in MayCharge(q, d)' THEN LongestCharge ELSE 0)
                      <= spent[q][d] + (IF c \in MayCharge(q, d) THEN LongestCharge ELSE 0)
      BY <2>1, <2>5, <2>6, <3>1, <3>2
    <3> QED
      BY <1>3, <2>0, <3>2, <3>3, SameDaySpends
  <2>11. CASE Refused(c)
    <3> DEFINE n == 0
    <3>1. PICK a \in Looked(c) : Keep(call[c].p, Readings(c), a, n)
      BY <2>11 DEF Refused
    <3>2. /\ From(c, {"admitting"}) /\ To(c, {"refused", "admitted"})
          /\ restarts' = restarts /\ spent' = spent
      BY <2>11 DEF Refused, To
    <3>3. \A p \in Principals, d \in Days :
             spent'[p][d] = spent[p][d]
               + (IF p = call[c].p /\ d = Day(call[c].now) THEN n ELSE 0)
      BY <3>2 DEF TypeOK
    <3>4. \A p \in Principals, d \in Days : c \notin MayCharge(p, d)'
      BY <2>11 DEF Refused, To, MayCharge
    <3>5. n \in Nat /\ ~(n > 0)
      OBVIOUS
    <3> HIDE DEF n
    <3> QED
      BY <1>3, <3>1, <3>2, <3>3, <3>4, <3>5, KeepSpends
  <2>12. CASE Unlimited(c)
    BY <2>2, <2>12 DEF Unlimited, From
  <2>13. CASE Taken(c)
    <3> DEFINE counts == call[c].lim.audio > 0 /\ call[c].secs > 0
               n == IF counts THEN call[c].secs ELSE 0
    <3>1. PICK a \in (IF counts THEN Today(call[c].p, Day(call[c].now)) ELSE {audio[call[c].p]}) :
             /\ counts => a.secs + call[c].secs <= call[c].lim.audio
             /\ Keep(call[c].p, Counted(Readings(c)), a, n)
      BY <2>13 DEF Taken
    <3>2. a \in Looked(c) /\ n \in Nat /\ (counts => a.day = Day(call[c].now))
      BY <2>1, <3>1, LookedDay DEF Looked
    <3>3. n = call[c].secs
      BY <2>1, <2>2, <2>13 DEF Taken, From
    <3>4. /\ From(c, {"admitting"}) /\ To(c, {"refused", "admitted"})
          /\ restarts' = restarts
      BY <2>13 DEF Taken, To
    <3>5. \A p \in Principals, d \in Days :
             spent'[p][d] = spent[p][d]
               + (IF p = call[c].p /\ d = Day(call[c].now) THEN n ELSE 0)
      <4>1. spent' = [spent EXCEPT ![q][Day(call[c].now)] = @ + n]
        BY <2>0, <2>13, <3>3 DEF Taken
      <4> HIDE DEF n
      <4> QED
        BY <2>0, <2>1, <3>2, <4>1 DEF TypeOK
    <3>6. n > 0 => a.day = Day(call[c].now) /\ a.secs + n <= MaxAudio
      <4>1. call[c].lim.audio \in Nat /\ MaxAudio \in Nat /\ a.secs \in Nat
        BY <2>1, <3>2, GreatestTyped, LookedDay DEF Limits
      <4> QED
        BY <2>1, <2>2, <2>13, <3>1, <3>2, <3>3, <4>1 DEF Taken, From
    <3>7. \A p \in Principals, d \in Days : c \notin MayCharge(p, d)'
      BY <2>3, <2>13 DEF Taken, MayCharge, Holders, HoldsSlot
    <3> HIDE DEF n, counts
    <3> QED
      BY <1>3, <3>1, <3>2, <3>4, <3>5, <3>6, <3>7, KeepSpends
  <2>14. CASE Opened(c)
    <3> DEFINE counts == call[c].metered /\ call[c].lim.audio > 0
    <3> DEFINE n == 0
    <3>1. PICK a \in (IF counts THEN Today(call[c].p, Day(call[c].now)) ELSE {audio[call[c].p]}) :
             /\ counts => a.secs < call[c].lim.audio
             /\ Keep(call[c].p, Counted(Readings(c)), a, n)
      BY <2>14 DEF Opened
    <3>2. a \in Looked(c) /\ (counts => a.day = Day(call[c].now))
      BY <2>1, <3>1, LookedDay DEF Looked
    <3>3. /\ From(c, {"admitting"}) /\ To(c, {"refused", "admitted"})
          /\ restarts' = restarts /\ spent' = spent
      BY <2>14 DEF Opened, To
    <3>4. \A p \in Principals, d \in Days :
             spent'[p][d] = spent[p][d]
               + (IF p = call[c].p /\ d = Day(call[c].now) THEN n ELSE 0)
      BY <3>3 DEF TypeOK
    <3>5. ASSUME NEW p \in Principals, NEW d \in Days, p = call[c].p, c \in MayCharge(p, d)'
          PROVE  d = a.day /\ a.secs + n <= MaxAudio
      <4>1. call[c].metered /\ Day(call[c].now) = d
        BY <2>0, <2>4, <2>14, <3>5 DEF Opened, KeepsReadings
      <4>2. counts
        BY <2>2, <2>14, <4>1 DEF Opened, From
      <4>3. call[c].lim.audio \in Nat /\ MaxAudio \in Nat /\ a.secs \in Nat
        BY <2>1, <3>2, GreatestTyped, LookedDay DEF Limits
      <4>4. a.secs < call[c].lim.audio /\ call[c].lim.audio <= MaxAudio
        BY <2>2, <2>14, <3>1, <4>2 DEF Opened, From
      <4> QED
        BY <3>2, <4>1, <4>2, <4>3, <4>4
    <3>6. n \in Nat /\ ~(n > 0)
      OBVIOUS
    <3>7. \A p \in Principals, d \in Days : p = call[c].p /\ c \in MayCharge(p, d)' =>
            d = a.day /\ a.secs + n <= MaxAudio
      BY <3>5
    <3>8. Keep(call[c].p, Counted(Readings(c)), a, n) /\ a \in Looked(c)
      BY <3>1, <3>2
    <3> HIDE DEF counts, n
    <3> QED
      BY <1>3, <3>3, <3>4, <3>6, <3>7, <3>8, KeepSpends
  <2>15. CASE Ended(c)
    <3>1. /\ audio' = audio /\ drifted' = drifted /\ restarts' = restarts
          /\ call[c].stream
      BY <1>0, <2>15 DEF Ended, From, OnlySessionsOpen
    <3>2. \A p \in Principals : p # q => spent'[p] = spent[p]
      BY <2>0, <2>1, <2>15 DEF Ended, TypeOK
    <3>3. \A d \in Days : spent'[q][d] = spent[q][d]
            + (IF d = Day(call[c].now) THEN call'[c].secs ELSE 0)
      <4>1. spent' = [spent EXCEPT ![q][Day(call[c].now)] = @ + call'[c].secs]
        BY <2>0, <2>15 DEF Ended
      <4> QED
        BY <2>1, <2>5, <4>1 DEF TypeOK
    <3>4. call'[c].secs <= LongestCharge /\ (call[c].metered \/ call'[c].secs = 0)
      BY <2>15 DEF Ended
    <3>5. ASSUME NEW d \in Days
          PROVE  /\ c \notin Over(q, d) /\ c \notin MayCharge(q, d)'
                 /\ c \in Over(q, d)' <=> Day(call[c].now) = d
                 /\ c \in MayCharge(q, d) <=> call[c].metered /\ Day(call[c].now) = d
      BY <2>4, <2>15, <3>1 DEF Ended, From, To, KeepsReadings
    <3>6. call[c].metered /\ ~drifted[q] => audio[q].day >= Day(call[c].now)
      BY <2>0, <2>15, <3>1 DEF DaysInv, Counts, InFlight, Ended, From
    <3>7. ASSUME NEW d \in Days, ~drifted[q]
          PROVE  /\ spent'[q][d] + audio[q].secs
                        + (IF c \in Over(q, d) THEN call[c].secs ELSE 0)
                      <= spent[q][d] + audio'[q].secs
                           + (IF c \in Over(q, d)' THEN call'[c].secs ELSE 0)
                 /\ d > audio[q].day => spent'[q][d] = spent[q][d]
                 /\ spent'[q][d] + (IF c \in MayCharge(q, d)' THEN LongestCharge ELSE 0)
                      <= spent[q][d] + (IF c \in MayCharge(q, d) THEN LongestCharge ELSE 0)
      <4>1. spent'[q][d] + audio[q].secs + (IF c \in Over(q, d) THEN call[c].secs ELSE 0)
              <= spent[q][d] + audio'[q].secs
                   + (IF c \in Over(q, d)' THEN call'[c].secs ELSE 0)
        BY <2>1, <2>5, <3>1, <3>3, <3>5
      <4>2. d > audio[q].day => spent'[q][d] = spent[q][d]
        <5>1. d \in Int
          BY DaysAreNumbers
        <5> QED
          BY <2>1, <2>5, <3>3, <3>4, <3>6, <3>7, <5>1
      <4>3. spent'[q][d] + (IF c \in MayCharge(q, d)' THEN LongestCharge ELSE 0)
              <= spent[q][d] + (IF c \in MayCharge(q, d) THEN LongestCharge ELSE 0)
        BY <2>1, <2>5, <2>6, <3>3, <3>4, <3>5
      <4> QED
        BY <4>1, <4>2, <4>3
    <3> QED
      BY <1>3, <2>0, <3>1, <3>2, <3>7, SameDaySpends
  <2>16. CASE Released(c)
    <3> DEFINE charge == IF audio[q] # NoDay /\ audio[q].day = Day(call[c].now)
                         THEN call[c].secs ELSE 0
    <3>1. /\ audio'[q].day = audio[q].day /\ audio'[q].secs = audio[q].secs + charge
          /\ \A p \in Principals : p # q => audio'[p] = audio[p]
      BY <2>0, <2>1, <2>16 DEF Released, TypeOK
    <3>2. drifted' = drifted /\ spent' = spent /\ restarts' = restarts
      BY <2>16 DEF Released
    <3>3. ASSUME NEW d \in Days
          PROVE  /\ d = audio[q].day =>
                      spent'[q][d] + audio[q].secs
                          + (IF c \in Over(q, d) THEN call[c].secs ELSE 0)
                        <= spent[q][d] + audio'[q].secs
                             + (IF c \in Over(q, d)' THEN call'[c].secs ELSE 0)
                 /\ spent'[q][d] + (IF c \in MayCharge(q, d)' THEN LongestCharge ELSE 0)
                      <= spent[q][d] + (IF c \in MayCharge(q, d) THEN LongestCharge ELSE 0)
      <4>1. c \notin Over(q, d)' /\ c \notin MayCharge(q, d)'
        BY <2>4, <2>16 DEF Released, To
      <4>2. d = audio[q].day /\ c \in Over(q, d) => charge = call[c].secs
        <5>1. d # -1
          BY DaysAreNumbers
        <5> QED
          BY <2>4, <5>1 DEF NoDay
      <4>3. charge \in Nat
        BY <2>1
      <4> HIDE DEF charge
      <4> QED
        BY <2>1, <2>5, <2>6, <3>1, <3>2, <4>1, <4>2, <4>3
    <3> QED
      BY <1>3, <2>0, <3>1, <3>2, <3>3, SameDaySpends
  <2> QED
    BY <1>3, <2>10, <2>11, <2>12, <2>13, <2>14, <2>15, <2>16 DEF CallStep
<1> QED
  BY <1>0, <1>1, <1>2, <1>3, AnyStep

\* The overrun of ADR 0007 (gw_limits.go:157, admitStream and its release): where every
\* principal has a quota and a stream cap, and while the process runs on and the
\* limiter does not drift, no day of any principal costs more than the greatest quota
\* and what the sessions its cap allows can charge, each up to its deadline.
THEOREM OverrunBounded == Quotas /\ Capped /\ Spec => []OverrunBound
<1> DEFINE Inv == SoundInv /\ DaysInv /\ StreamsInv /\ SpendInv
<1>1. Capped /\ Init => Inv
  <2> SUFFICES ASSUME Capped, Init PROVE StreamsInv /\ SpendInv /\ DaysInv
    BY InitRates
  <2>1. \A c \in Calls : call[c].pc = "idle"
    BY DEF Init, Fresh
  <2>2. DaysInv
    BY <2>1 DEF Init, DaysInv, Counts, InFlight
  <2>3. TypeOK /\ SlotInv /\ SoundInv
    BY InitInv, InitRates DEF LimiterInv
  <2>4. StreamsInv
    BY <2>3, GreatestTyped DEF Init, StreamsInv
  <2>5. ASSUME NEW p \in Principals, NEW d \in Days
        PROVE  /\ d # audio[p].day
               /\ spent[p][d] = 0
               /\ spent[p][d] + May(p, d) <= MaxAudio + MaxStreams * LongestCharge
    <3>1. spent[p][d] = 0 /\ audio[p] = NoDay /\ d # -1
      BY DaysAreNumbers DEF Init
    <3>2. MayCharge(p, d) = {}
      BY <2>1 DEF MayCharge, Holders, HoldsSlot
    <3>3. LongestCharge \in Nat /\ MaxAudio \in Nat /\ MaxStreams \in Nat
      BY <2>3, GreatestTyped, LimiterAssumption DEF LongestCharge
    <3>4. May(p, d) = 0
      BY <3>2, <3>3, FS_EmptySet DEF May
    <3>5. MaxStreams * LongestCharge \in Nat
      BY <3>3
    <3> QED
      BY <3>1, <3>3, <3>4, <3>5 DEF NoDay
  <2> QED
    BY <2>2, <2>4, <2>5 DEF SpendInv
<1>2. Quotas /\ Capped /\ LimiterInv /\ LimiterInv' /\ Inv /\ [Next]_vars => Inv'
  <2> SUFFICES ASSUME Quotas, Capped, LimiterInv, LimiterInv', Inv, [Next]_vars PROVE Inv'
    OBVIOUS
  <2>1. TypeOK /\ SlotInv /\ OnlySessionsOpen /\ TypeOK' /\ SlotInv'
    BY DEF LimiterInv, SlotInv, OnlySessionsOpen
  <2>2. SoundInv' /\ DaysInv' /\ StreamsInv'
    BY <2>1, SoundKept, DaysKept, StreamsKept
  <2>3. SpendInv'
    BY <2>1, <2>2, SpendKept
  <2> QED
    BY <2>2, <2>3
<1>3. Inv => OverrunBound
  BY DEF SpendInv, OverrunBound, May, LongestCharge
<1>4. Quotas /\ Capped => [](Quotas /\ Capped)
  <2>1. Quotas /\ Capped => Quotas' /\ Capped'
    BY DEF Quotas, Capped, Cap
  <2> QED
    BY <2>1, PTL
<1> HIDE DEF Inv
<1> QED
  BY <1>1, <1>2, <1>3, <1>4, LimiterInvariant, PTL DEF Spec

=============================================================================
