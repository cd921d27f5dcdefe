---------------------------- MODULE UsageLimiter ----------------------------
(***************************************************************************)
(* The spend and abuse limits of the data plane (gw_limits.go) together    *)
(* with the two handlers that consult them: Lane.ServeAPI for plain        *)
(* requests (gw_lane.go) and Lane.serveStream for WebSocket sessions       *)
(* (gw_stream.go), and the usage log the daily audio total is seeded from. *)
(*                                                                         *)
(* A call is one HTTP exchange on its own goroutine.  The limiter's mutex  *)
(* makes each admission and each release atomic; everything around them is *)
(* interleaved: a call reads the clock BEFORE it takes the mutex, works on *)
(* the principal it read when it was authorized, appends its usage record  *)
(* after the upstream answered, and releases its stream slot last.         *)
(*                                                                         *)
(* Time is counted in minutes, MinutesPerDay to the day; audio in seconds. *)
(* The variables spent, admitted, drifted and restarts are history         *)
(* variables: no action reads them.                                        *)
(***************************************************************************)
EXTENDS Integers, FiniteSets, FiniteSetsExt

CONSTANTS
    Principals,     \* "owner/principal" keys
    Calls,          \* the exchanges of a behaviour, each used once
    Requests,       \* what a call can ask: [stream, metered, secs]
    LimitChoices,   \* the limits an operator can give a principal
    MinutesPerDay,
    MaxSession,     \* op.MaxSessionSeconds (defaultMaxSessionSeconds if unset)
    Overshoot,      \* how late, in seconds, the session deadline can bite
    MaxMinute,      \* bound: the clock stops here
    MaxRestarts,    \* bound: process restarts
    StoreFails      \* whether appending to and reading the usage log can fail

\* PrincipalLimits; 0 is "unlimited" except for maxStreams, where 0 means
\* DefaultMaxStreams and -1 no cap.  A nil *PrincipalLimits behaves as NoLimits.
Limits == [rpm : Nat, audio : Nat, maxStreams : Nat \cup {-1}]
NoLimits == [rpm |-> 0, audio |-> 0, maxStreams |-> 0]
DefaultMaxStreams == 2

ASSUME LimiterAssumption ==
    /\ Requests \subseteq [stream : BOOLEAN, metered : BOOLEAN, secs : Nat]
    /\ \A r \in Requests : r.stream => r.secs = 0
    /\ LimitChoices \subseteq Limits /\ IsFiniteSet(LimitChoices)
    /\ MinutesPerDay \in Nat \ {0}
    /\ MaxSession \in Nat \ {0}
    /\ Overshoot \in Nat
    /\ MaxMinute \in Nat
    /\ MaxRestarts \in Nat
    /\ StoreFails \in BOOLEAN

VARIABLES
    clock,      \* wall clock, in minutes
    limits,     \* principal -> its stored limits
    windows,    \* usageLimiter.windows: principal -> rateWindow
    audio,      \* usageLimiter.audio: principal -> audioDay
    streams,    \* usageLimiter.streams: principal -> open sessions
    logged,     \* audio seconds in the usage log: principal -> day -> total
    call,       \* call -> its goroutine's locals
    spent,      \* audio charged by calls admitted on that day
    admitted,   \* rate-limited calls admitted on a reading of that minute
    drifted,    \* a window or a day of this principal was rebuilt from less
    restarts    \* than had been charged to it; process restarts so far

limiter == <<windows, audio, streams>>
history == <<spent, admitted, drifted, restarts>>
vars == <<clock, limits, limiter, logged, call, history>>

Minutes == 0..MaxMinute
Day(t) == t \div MinutesPerDay
Days == 0..Day(MaxMinute)

NoWindow == [minute |-> -1, n |-> 0]
NoDay == [day |-> -1, secs |-> 0]

Stages == {"idle", "arrived", "admitting", "refused", "admitted", "open",
           "logging", "releasing", "done"}
Ends == {"none", "recorded", "unrecorded", "append failed", "killed"}

\* secs is rec.AudioSeconds: the estimate of a plain call, the charge of a
\* stream; left is stream.audioLeft.
CallState == [pc : Stages, p : Principals, stream : BOOLEAN, metered : BOOLEAN,
              start : Minutes, now : Minutes, lim : Limits, secs : Nat,
              left : Nat \cup {-1}, end : Ends]

Fresh(p, r) == [pc |-> "idle", p |-> p, stream |-> r.stream,
                metered |-> r.metered, start |-> 0, now |-> 0,
                lim |-> NoLimits, secs |-> r.secs, left |-> -1, end |-> "none"]

\* The handler has returned; what it knew is gone.
Finished(k, end) == [Fresh(k.p, [stream |-> k.stream, metered |-> k.metered,
                                 secs |-> 0])
                     EXCEPT !.pc = "done", !.end = end]

-----------------------------------------------------------------------------
(* usageLimiter's helpers. *)

\* PrincipalLimits.maxStreams
Cap(lim) == IF lim.maxStreams = 0 THEN DefaultMaxStreams ELSE lim.maxStreams

\* Mutant: one session too many.
SlotFreeOffByOne(p, lim) == Cap(lim) <= 0 \/ streams[p] <= Cap(lim)

\* admitStream's slot check.
SlotFree(p, lim) == Cap(lim) <= 0 \/ streams[p] < Cap(lim)

\* usageLimiter.window: the principal's window for this minute, new if the one
\* at hand is of ANY other minute.
Window(p, minute) ==
    IF windows[p].minute = minute THEN windows[p]
                                  ELSE [minute |-> minute, n |-> 0]

\* Mutant: the window is compared after the request is counted.
WindowFullLate(w, lim) == lim.rpm > 0 /\ w.n > lim.rpm

\* The minute's requests are used up.
WindowFull(w, lim) == lim.rpm > 0 /\ w.n >= lim.rpm

\* usageLimiter.today: the day's total, seeded from the usage log if the one at
\* hand is of another day.  usedAudioSeconds answers 0 when the log is unreadable.
Today(p, day) ==
    IF audio[p].day = day
    THEN {audio[p]}
    ELSE {[day |-> day, secs |-> s] :
            s \in {logged[p][day]} \cup (IF StoreFails THEN {0} ELSE {})}

\* The limiter goes back in time, or seeds a day with less than the log holds.
Drifts(p, w, a) ==
    \/ w.minute < windows[p].minute
    \/ a.day < audio[p].day
    \/ a.day # audio[p].day /\ a.secs < logged[p][a.day]

-----------------------------------------------------------------------------
Init ==
    /\ clock = 0
    /\ limits \in [Principals -> LimitChoices]
    /\ windows = [p \in Principals |-> NoWindow]
    /\ audio = [p \in Principals |-> NoDay]
    /\ streams = [p \in Principals |-> 0]
    /\ logged = [p \in Principals |-> [d \in Days |-> 0]]
    /\ call \in [Calls -> {Fresh(p, r) : p \in Principals, r \in Requests}]
    /\ spent = [p \in Principals |-> [d \in Days |-> 0]]
    /\ admitted = [p \in Principals |-> [m \in Minutes |-> 0]]
    /\ drifted = [p \in Principals |-> FALSE]
    /\ restarts = 0

\* ServeAPI reads the clock and, once the grant is found, works on this copy of
\* the principal: a later edit of its limits does not reach the call.
Arrive(c) ==
    /\ call[c].pc = "idle"
    /\ call' = [call EXCEPT ![c].pc = "arrived", ![c].start = clock,
                            ![c].lim = limits[call[c].p]]
    /\ UNCHANGED <<clock, limits, limiter, logged, history>>

\* 413, 411 or 426: answered, and recorded with no audio, before admission.
RejectEarly(c) ==
    /\ call[c].pc = "arrived"
    /\ call' = [call EXCEPT ![c].pc = "refused", ![c].secs = 0]
    /\ UNCHANGED <<clock, limits, limiter, logged, history>>

\* l.now() is an argument of admit and admitStream: read before the lock.
ReadClock(c) ==
    /\ call[c].pc = "arrived"
    /\ call' = [call EXCEPT ![c].pc = "admitting", ![c].now = clock]
    /\ UNCHANGED <<clock, limits, limiter, logged, history>>

-----------------------------------------------------------------------------
(* usageLimiter.admit and admitStream, each one critical section. *)

\* A denied call answers 429 and records it with AudioSeconds = 0.
Deny(c) == call' = [call EXCEPT ![c].pc = "refused", ![c].secs = 0]

\* Mutant: the total checked is not charged.
AudioForgotten(a, secs) == a

\* a.secs with a plain call's audio added.
AudioCharged(a, secs) == [a EXCEPT !.secs = @ + secs]

\* What admission leaves behind in the limiter and in the history: the window, the
\* day it worked on and what it charged to it.
Keep(p, w, a, secs) ==
    /\ windows' = [windows EXCEPT ![p] = w]
    /\ audio' = [audio EXCEPT ![p] = AudioCharged(a, secs)]
    /\ drifted' = [drifted EXCEPT ![p] = @ \/ Drifts(p, w, a)]

\* One more request in the window: w.n++.
Counted(w) == [w EXCEPT !.n = @ + 1]

CountAdmission(k) ==
    admitted' = [admitted EXCEPT
        ![k.p][k.now] = @ + (IF k.lim.rpm > 0 THEN 1 ELSE 0)]

\* admit's early return: no limits, nothing looked at and nothing counted.
AdmitUnlimited(c) ==
    LET k == call[c] IN
    /\ k.pc = "admitting" /\ ~k.stream
    /\ k.lim.rpm = 0 /\ k.lim.audio = 0
    /\ call' = [call EXCEPT ![c].pc = "admitted"]
    /\ spent' = [spent EXCEPT ![k.p][Day(k.now)] = @ + k.secs]
    /\ UNCHANGED <<clock, limits, limiter, logged, admitted, drifted, restarts>>

\* The rate window is full, for a plain call or a session.
DenyRate(c) ==
    LET k == call[c]
        w == Window(k.p, k.now)
    IN
    /\ k.pc = "admitting"
    /\ k.stream \/ k.lim.rpm > 0 \/ k.lim.audio > 0
    /\ WindowFull(w, k.lim)
    /\ Keep(k.p, w, audio[k.p], 0)
    /\ Deny(c)
    /\ UNCHANGED <<clock, limits, streams, logged, spent, admitted, restarts>>

\* admit past the rate window: charge the request and its audio, or deny it
\* when the audio does not fit what is left today.
Admit(c) ==
    LET k == call[c]
        w == Window(k.p, k.now)
        counts == k.lim.audio > 0 /\ k.secs > 0
    IN
    /\ k.pc = "admitting" /\ ~k.stream
    /\ k.lim.rpm > 0 \/ k.lim.audio > 0
    /\ ~WindowFull(w, k.lim)
    /\ \E a \in IF counts THEN Today(k.p, Day(k.now)) ELSE {audio[k.p]} :
         \/ /\ counts /\ a.secs + k.secs > k.lim.audio
            /\ Keep(k.p, w, a, 0)
            /\ Deny(c)
            /\ UNCHANGED <<spent, admitted>>
         \/ /\ ~counts \/ a.secs + k.secs <= k.lim.audio
            /\ Keep(k.p, Counted(w), a, IF counts THEN k.secs ELSE 0)
            /\ call' = [call EXCEPT ![c].pc = "admitted"]
            /\ spent' = [spent EXCEPT ![k.p][Day(k.now)] = @ + k.secs]
            /\ CountAdmission(k)
    /\ UNCHANGED <<clock, limits, streams, logged, restarts>>

\* admitStream past the rate window: no free slot ...
DenySlot(c) ==
    LET k == call[c]
        w == Window(k.p, k.now)
    IN
    /\ k.pc = "admitting" /\ k.stream
    /\ ~WindowFull(w, k.lim)
    /\ ~SlotFree(k.p, k.lim)
    /\ Keep(k.p, w, audio[k.p], 0)
    /\ Deny(c)
    /\ UNCHANGED <<clock, limits, streams, logged, spent, admitted, restarts>>

\* ... or a slot: denied when a metered session has no audio left today,
\* else one request, one slot, and the audio that is left.
AdmitStream(c) ==
    LET k == call[c]
        w == Window(k.p, k.now)
        counts == k.metered /\ k.lim.audio > 0
    IN
    /\ k.pc = "admitting" /\ k.stream
    /\ ~WindowFull(w, k.lim)
    /\ SlotFree(k.p, k.lim)
    /\ \E a \in IF counts THEN Today(k.p, Day(k.now)) ELSE {audio[k.p]} :
         \/ /\ counts /\ a.secs >= k.lim.audio
            /\ Keep(k.p, w, a, 0)
            /\ Deny(c)
            /\ UNCHANGED <<streams, admitted>>
         \/ /\ ~counts \/ a.secs < k.lim.audio
            /\ Keep(k.p, Counted(w), a, 0)
            /\ streams' = [streams EXCEPT ![k.p] = @ + 1]
            /\ call' = [call EXCEPT ![c].pc = "admitted",
                 ![c].left = IF counts THEN k.lim.audio - a.secs ELSE -1]
            /\ CountAdmission(k)
    /\ UNCHANGED <<clock, limits, logged, spent, restarts>>

-----------------------------------------------------------------------------
(* After admission. *)

\* The upstream answered, or a 502 / 503 / 504 was answered for it: recorded.
\* A session that got no 101 is recorded with no audio.
Answer(c) ==
    /\ call[c].pc = "admitted"
    /\ call' = [call EXCEPT ![c].pc = "logging"]
    /\ UNCHANGED <<clock, limits, limiter, logged, history>>

\* Mutants: the early return releases the slot its deferred release gives back
\* again, or returns without the release.
AnswerTwiceReleased(c) ==
    LET k == call[c] IN
    /\ k.pc = "admitted"
    /\ call' = [call EXCEPT ![c] =
         IF k.stream THEN [k EXCEPT !.pc = "releasing", !.end = "unrecorded"]
                     ELSE Finished(k, "unrecorded")]
    /\ streams' = [streams EXCEPT ![k.p] = IF k.stream THEN @ - 1 ELSE @]
    /\ UNCHANGED <<clock, limits, windows, audio, logged, history>>

AnswerLeakingSlot(c) ==
    /\ call[c].pc = "admitted"
    /\ call' = [call EXCEPT ![c] = Finished(call[c], "unrecorded")]
    /\ UNCHANGED <<clock, limits, limiter, logged, history>>

\* "api upstream misconfigured" returns before l.record, and a copy that breaks
\* after the headers panics with http.ErrAbortHandler past it.
AnswerUnrecorded(c) ==
    LET k == call[c] IN
    /\ k.pc = "admitted"
    /\ call' = [call EXCEPT ![c] =
         IF k.stream THEN [k EXCEPT !.pc = "releasing", !.end = "unrecorded"]
                     ELSE Finished(k, "unrecorded")]
    /\ UNCHANGED <<clock, limits, limiter, logged, history>>

\* 101: the caller's connection is hijacked.
Hijack(c) ==
    /\ call[c].pc = "admitted" /\ call[c].stream
    /\ call' = [call EXCEPT ![c].pc = "open"]
    /\ UNCHANGED <<clock, limits, limiter, logged, history>>

\* The longest charge a metered session can end with: its deadline is the
\* smaller of MaxSession and what was left, and the charge is cut at the latter.
Bound(k) == IF 0 < k.left /\ k.left < MaxSession + Overshoot
            THEN k.left ELSE MaxSession + Overshoot

\* Either side closed or the deadline cut the session after secs seconds.
EndSession(c, secs) ==
    LET k == call[c] IN
    /\ k.pc = "open"
    /\ secs \in 0..(IF k.metered THEN Bound(k) ELSE 0)
    /\ call' = [call EXCEPT ![c].pc = "logging", ![c].secs = secs]
    /\ spent' = [spent EXCEPT ![k.p][Day(k.now)] = @ + secs]
    /\ UNCHANGED <<clock, limits, limiter, logged, admitted, drifted, restarts>>

\* l.record of a refused call: a record without audio; nothing was admitted.
RecordRefusal(c) ==
    /\ call[c].pc = "refused"
    /\ call' = [call EXCEPT ![c] = Finished(call[c], "recorded")]
    /\ UNCHANGED <<clock, limits, limiter, logged, history>>

\* l.record of an admitted call: the record goes to the file of the day the
\* call STARTED on, and an append error is only logged.  A plain call is then
\* over; a session still has its deferred release to run.
AppendUsage(c) ==
    LET k == call[c] IN
    /\ k.pc = "logging"
    /\ \E end \in {"recorded"} \cup (IF StoreFails THEN {"append failed"} ELSE {}) :
         /\ logged' = IF end = "recorded"
                      THEN [logged EXCEPT ![k.p][Day(k.start)] = @ + k.secs]
                      ELSE logged
         /\ call' = [call EXCEPT ![c] =
              IF k.stream THEN [k EXCEPT !.pc = "releasing", !.end = end]
                          ELSE Finished(k, end)]
    /\ UNCHANGED <<clock, limits, limiter, history>>

\* Mutant: the session's audio is recorded but not charged.
ReleaseUncharged(c) ==
    LET k == call[c] IN
    /\ k.pc = "releasing"
    /\ streams' = [streams EXCEPT ![k.p] = @ - 1]
    /\ call' = [call EXCEPT ![c] = Finished(k, k.end)]
    /\ UNCHANGED <<clock, limits, windows, audio, logged, history>>

\* stream.release, once: the slot is free again, and the audio is charged to
\* the day in memory if that is still the day the session was admitted on.
Release(c) ==
    LET k == call[c]
        a == audio[k.p]
    IN
    /\ k.pc = "releasing"
    /\ streams' = [streams EXCEPT ![k.p] = @ - 1]
    /\ audio' = [audio EXCEPT ![k.p].secs =
         IF a # NoDay /\ a.day = Day(k.now) THEN @ + k.secs ELSE @]
    /\ call' = [call EXCEPT ![c] = Finished(k, k.end)]
    /\ UNCHANGED <<clock, limits, windows, logged, history>>

-----------------------------------------------------------------------------
(* The environment. *)

\* putPrincipalLimits
PutLimits(p) ==
    /\ \E lim \in LimitChoices \ {limits[p]} :
         limits' = [limits EXCEPT ![p] = lim]
    /\ UNCHANGED <<clock, limiter, logged, call, history>>

Tick ==
    /\ clock < MaxMinute
    /\ clock' = clock + 1
    /\ UNCHANGED <<limits, limiter, logged, call, history>>

\* The process dies with its calls and starts with an empty limiter: only the
\* stored limits and the usage log survive.
Restart ==
    /\ restarts < MaxRestarts
    /\ restarts' = restarts + 1
    /\ windows' = [p \in Principals |-> NoWindow]
    /\ audio' = [p \in Principals |-> NoDay]
    /\ streams' = [p \in Principals |-> 0]
    /\ call' = [c \in Calls |-> IF call[c].pc \in {"idle", "done"}
                                THEN call[c]
                                ELSE Finished(call[c], "killed")]
    /\ UNCHANGED <<clock, limits, logged, spent, admitted, drifted>>

Admission(c) == \/ AdmitUnlimited(c) \/ DenyRate(c) \/ Admit(c)
                \/ DenySlot(c) \/ AdmitStream(c)

Serve(c) == \/ Answer(c) \/ AnswerUnrecorded(c) \/ Hijack(c)
            \/ \E secs \in 0..(MaxSession + Overshoot) : EndSession(c, secs)

Handle(c) == \/ RejectEarly(c) \/ ReadClock(c) \/ Admission(c) \/ Serve(c)
             \/ RecordRefusal(c) \/ AppendUsage(c) \/ Release(c)

Next == \/ \E c \in Calls : Arrive(c) \/ Handle(c)
        \/ \E p \in Principals : PutLimits(p)
        \/ Tick
        \/ Restart

Spec == Init /\ [][Next]_vars

\* A handler that has begun runs on.  What may block a plain call for ever is its
\* upstream (no timeout is set), so only sessions, whose context carries the
\* deadline, are sure to get past Serve.
FairSpec ==
    /\ Spec
    /\ \A c \in Calls : WF_vars(call[c].stream /\ Handle(c))

-----------------------------------------------------------------------------
(* Properties. *)

\* Every variable keeps its type; stream counts never go negative.
TypeOK ==
    /\ clock \in Minutes
    /\ limits \in [Principals -> LimitChoices]
    /\ windows \in [Principals -> [minute : Minutes \cup {-1}, n : Nat]]
    /\ audio \in [Principals -> [day : Days \cup {-1}, secs : Nat]]
    /\ streams \in [Principals -> Nat]
    /\ logged \in [Principals -> [Days -> Nat]]
    /\ call \in [Calls -> CallState]
    /\ spent \in [Principals -> [Days -> Nat]]
    /\ admitted \in [Principals -> [Minutes -> Nat]]
    /\ drifted \in [Principals -> BOOLEAN]
    /\ restarts \in 0..MaxRestarts

\* The calls of p that admitStream gave a slot and that have not released it.
HoldsSlot(k) == k.stream /\ k.pc \in {"admitted", "open", "logging", "releasing"}
Holders(p) == {c \in Calls : call[c].p = p /\ HoldsSlot(call[c])}

\* A principal's stream count is exactly the sessions that still owe a release:
\* no early return, unrecorded answer or failed append of serveStream leaks a
\* slot or gives one back twice.
SlotConservation == \A p \in Principals : streams[p] = Cardinality(Holders(p))

\* What makes it inductive: the slots taken are finitely many, and only sessions
\* are ever open or releasing.
SlotInv ==
    /\ SlotConservation
    /\ \A p \in Principals : IsFiniteSet(Holders(p))
    /\ \A c \in Calls : call[c].pc \in {"open", "releasing"} => call[c].stream

\* Any sessions of a principal that are open together include one that was
\* admitted under limits allowing that many, whatever edits of maxStreams the
\* operator made meanwhile (admitStream's slot check).
AdmittedUnderCap ==
    \A p \in Principals : \A S \in (SUBSET Holders(p)) \ {{}} :
        \E c \in S : Cap(call[c].lim) <= 0 \/ Cardinality(S) <= Cap(call[c].lim)

\* The sessions admitted on a day that may yet charge audio to it.
MayCharge(p, d) == {c \in Holders(p) : /\ call[c].pc \in {"admitted", "open"}
                                       /\ call[c].metered
                                       /\ Day(call[c].now) = d}

MaxAudio == Max({lim.audio : lim \in LimitChoices})
MaxStreams == Max({Cap(lim) : lim \in LimitChoices})
MaxRpm == Max({lim.rpm : lim \in LimitChoices})

\* ADR 0007: the sessions of a principal may together overrun the day's quota,
\* by no more than maxStreams x maxSessionSeconds (and the deadline's lateness).
\* Counting what open sessions may still charge makes it inductive.  It is
\* stated while the process has not restarted and the limiter has not drifted,
\* for principals that always have a quota and a stream cap.
OverrunBound ==
    \A p \in Principals, d \in Days :
        restarts = 0 /\ ~drifted[p] =>
            spent[p][d] + Cardinality(MayCharge(p, d)) * (MaxSession + Overshoot)
                <= MaxAudio + MaxStreams * (MaxSession + Overshoot)

\* The sessions between their record and their release.
Unreleased(p, d) == {c \in Holders(p) : /\ call[c].pc = "releasing"
                                        /\ call[c].end = "recorded"
                                        /\ Day(call[c].start) = d}

\* The audio of these calls together, its seconds counted one by one.
Seconds(S) == Cardinality(UNION {{c} \X (1..call[c].secs) : c \in S})

\* The day in memory never counts less audio than the usage log does, once the
\* sessions between their record and their release are added ("the caller
\* appends the usage record first, so a reseed between the two can only
\* over-count"), restarts included, for principals that always have a quota.
CoversLog ==
    \A p \in Principals :
        audio[p] # NoDay /\ ~drifted[p] =>
            logged[p][audio[p].day] <=
                audio[p].secs + Seconds(Unreleased(p, audio[p].day))

\* ADR 0006: requestsPerMinute is a fixed per-minute window.  No minute takes
\* more requests than the limit, as long as admissions take the lock in the
\* order of the minutes they read.
RpmCapInOrder ==
    \A p \in Principals, m \in Minutes :
        restarts = 0 /\ ~drifted[p] => admitted[p][m] <= MaxRpm

\* Every slot taken comes back: the deadline ends each session and every path of
\* serveStream runs the deferred release.
SlotsComeBack == \A p \in Principals : streams[p] > 0 ~> streams[p] = 0

=============================================================================
