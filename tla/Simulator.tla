----------------------------- MODULE Simulator -----------------------------
(***************************************************************************)
(* The LLM simulator (sim.go, scenario.go, cassette.go) and its storage    *)
(* (store_testbench.go, testbench_api.go): scenarios that are put, deleted *)
(* and played, cassettes that are recorded, deleted and replayed.          *)
(*                                                                         *)
(* Sessions are kept by directive, and playing and replaying share nothing *)
(* else: in a behaviour the clients use one directive, and one name and    *)
(* one session key.  A message stands for itself as the number of the step *)
(* or the recorded exchange that it comes from; drift warnings, which only *)
(* inform, are left out.  The variables served, spoiled and raced and the  *)
(* fields change, readAt and arrived are history.                          *)
(***************************************************************************)
EXTENDS Integers, SequencesExt

CONSTANTS
    Calls,          \* requests of the clients
    Editors,        \* management requests, and requests that are recorded
    Docs,           \* scenario documents that pass Validate
    Builtin,        \* the built-in scenario of that name, or NoDoc
    NoDoc,
    MaxServed,      \* bound: main-lane answers
    MaxSide,        \* bound: side-lane answers
    MaxSessions,    \* bound: sessions created under the key
    MaxInodes,      \* bound: files created under the scenario's name
    MaxChanges,     \* bound: changes of the cassette
    MaxTime         \* bound: ticks of the modification time

\* times: the repeat count of each step, -1 for ever; size: that of its JSON.
IsDocument(d) ==
    /\ d.times \in Seq(Int) \ {<<>>} /\ \A i \in DOMAIN d.times : d.times[i] >= -1
    /\ d.onExhausted \in {"end_turn", "last", "error"}
    /\ d.size \in Nat \ {0}

ASSUME SimulatorAssumption ==
    /\ NoDoc \notin Docs /\ \A d \in Docs : IsDocument(d)
    /\ Builtin = NoDoc \/ IsDocument(Builtin)
    /\ {MaxSessions, MaxInodes, MaxChanges, MaxTime} \subseteq Nat

VARIABLES
    directive,  \* what the clients ask for: "scenario" or "replay"
    scenario,   \* scenarios/<name>.json
    spoiled,    \* since it was last written alone, a PUT failed or met another
    cassette,   \* cassettes/<name>.jsonl
    raced,      \* when it was last deleted, an append was under way
    cache,      \* s.cassettes[name], as a set of at most one
    now,        \* the clock of the file system
    created,    \* the number of sessions there have been, numbered from 1
    session,    \* the one in s.sessions, 0 if none
    counters,   \* session -> its Index and SideIndex
    served,     \* session -> the number and the last of its main-lane answers
    call,       \* client request -> its handler
    editor      \* management request -> its handler

scenarioVars == <<scenario, spoiled>>
cassetteVars == <<cassette, raced, cache>>
sessionVars == <<created, session, counters, served>>
vars == <<directive, scenarioVars, cassetteVars, now, sessionVars, call, editor>>

-----------------------------------------------------------------------------
(* State. *)

\* doc is NoDoc when the bytes are no document.
ScenarioFiles == [exists : BOOLEAN, inode : 0..MaxInodes, doc : Docs \cup {NoDoc}, size : Nat]

\* An entry is its Seq and whether it goes to the main lane.
CassetteFiles == [exists : BOOLEAN, modTime : 0..MaxTime, change : 0..MaxChanges,
                  entries : Seq([seq : 0..MaxChanges, main : BOOLEAN])]
Cassettes == [modTime : 0..MaxTime, readAt : 0..MaxTime, change : 0..MaxChanges,
              main : 0..MaxChanges]

\* modTime and arrived are what the call found when it asked for the date.
NoCall == [pc |-> "idle", source |-> NoDoc, session |-> 0, modTime |-> 0, arrived |-> 0]
NoEdit == [pc |-> "idle", inode |-> 0, doc |-> NoDoc, seq |-> 0]

Init ==
    /\ directive \in {"scenario", "replay"}
    /\ scenario = [exists |-> FALSE, inode |-> 0, doc |-> NoDoc, size |-> 0]
    /\ spoiled = FALSE
    /\ cassette = [exists |-> FALSE, modTime |-> 0, change |-> 0, entries |-> <<>>]
    /\ raced = FALSE
    /\ cache = {}
    /\ now = 0
    /\ created = 0 /\ session = 0
    /\ counters = [s \in 1..MaxSessions |-> [main |-> 0, side |-> 0]]
    /\ served = [s \in 1..MaxSessions |-> [count |-> 0, of |-> NoDoc, answer |-> 0]]
    /\ call = [c \in Calls |-> NoCall]
    /\ editor = [e \in Editors |-> NoEdit]

ToCall(c, h) == call' = [call EXCEPT ![c] = h]
ToEditor(e, h) == editor' = [editor EXCEPT ![e] = h]

-----------------------------------------------------------------------------
(* The scenario file.  os.WriteFile opens with O_TRUNC, then writes at the  *)
(* start of what may have been written, truncated or unlinked meanwhile.    *)

\* The PUTs that have the present file open.
Writers == {e \in Editors :
    scenario.exists /\ editor[e].pc = "opened" /\ editor[e].inode = scenario.inode}

Inode == IF scenario.exists THEN scenario.inode ELSE scenario.inode + 1

\* Mutant: the file is opened without O_TRUNC.
TruncatedNot == [scenario EXCEPT !.exists = TRUE, !.inode = Inode]

Truncated == [exists |-> TRUE, inode |-> Inode, doc |-> NoDoc, size |-> 0]

\* A longer text shows behind a shorter one.
Overwritten(d) ==
    IF d.size >= scenario.size THEN [scenario EXCEPT !.doc = d, !.size = d.size]
                               ELSE [scenario EXCEPT !.doc = NoDoc]

\* putScenario of a document that Validate lets pass.
PutOpen(e, d) ==
    /\ directive = "scenario" /\ editor[e].pc = "idle"
    /\ Inode <= MaxInodes
    /\ scenario' = Truncated
    /\ spoiled' = (Writers # {})
    /\ ToEditor(e, [NoEdit EXCEPT !.pc = "opened", !.inode = Inode, !.doc = d])
    /\ UNCHANGED <<directive, cassetteVars, now, sessionVars, call>>

PutWrite(e) ==
    /\ editor[e].pc = "opened"
    /\ scenario' = IF e \in Writers THEN Overwritten(editor[e].doc) ELSE scenario
    /\ ToEditor(e, NoEdit)
    /\ UNCHANGED <<directive, spoiled, cassetteVars, now, sessionVars, call>>

\* What is there when a write has stopped before its last byte.
Torn(d) == [scenario EXCEPT !.doc = NoDoc, !.size = Max({@, d.size})]

\* 500: nothing was written, or a part.
PutFails(e) ==
    /\ editor[e].pc = "opened"
    /\ scenario' \in {scenario} \cup (IF e \in Writers THEN {Torn(editor[e].doc)} ELSE {})
    /\ spoiled' = (spoiled \/ e \in Writers)
    /\ ToEditor(e, NoEdit)
    /\ UNCHANGED <<directive, cassetteVars, now, sessionVars, call>>

DeleteScenario ==
    /\ directive = "scenario" /\ scenario.exists
    /\ scenario' = [scenario EXCEPT !.exists = FALSE, !.doc = NoDoc, !.size = 0]
    /\ spoiled' = FALSE
    /\ UNCHANGED <<directive, cassetteVars, now, sessionVars, call, editor>>

-----------------------------------------------------------------------------
(* The cassette file, and s.cassettes under s.cassMu. *)

\* Mutant: appends are not serialized.
AppendFreeAlways == TRUE

\* The mutex of the file; DELETE does not take it.
AppendFree == \A e \in Editors : editor[e].pc # "counted"

Change(exists, entries) ==
    /\ cassette.change < MaxChanges
    /\ cassette' = [exists |-> exists, modTime |-> now, change |-> cassette.change + 1,
                    entries |-> entries]

\* recordPassthrough after the upstream has answered: AppendCassetteEntry counts ...
Count(e) ==
    /\ directive = "replay" /\ editor[e].pc = "idle" /\ AppendFree
    /\ ToEditor(e, [NoEdit EXCEPT !.pc = "counted", !.seq = Len(cassette.entries)])
    /\ UNCHANGED <<directive, scenarioVars, cassetteVars, now, sessionVars, call>>

\* ... and appends; main is the lane that loadCassette will put the entry in.
AppendEntry(e, main) ==
    /\ editor[e].pc = "counted"
    /\ Change(TRUE, Append(cassette.entries, [seq |-> editor[e].seq, main |-> main]))
    /\ ToEditor(e, NoEdit)
    /\ UNCHANGED <<directive, scenarioVars, raced, cache, now, sessionVars, call>>

\* A failed append is only logged.
AppendFails(e) ==
    /\ editor[e].pc = "counted"
    /\ ToEditor(e, NoEdit)
    /\ UNCHANGED <<directive, scenarioVars, cassetteVars, now, sessionVars, call>>

DeleteCassette ==
    /\ cassette.exists
    /\ Change(FALSE, <<>>)
    /\ raced' = ~AppendFree
    /\ UNCHANGED <<directive, scenarioVars, cache, now, sessionVars, call, editor>>

Tick ==
    /\ directive = "replay" /\ now < MaxTime
    /\ now' = now + 1
    /\ UNCHANGED <<directive, scenarioVars, cassetteVars, sessionVars, call, editor>>

-----------------------------------------------------------------------------
(* Loading. *)

Stored == IF scenario.exists THEN scenario.doc ELSE Builtin

\* Mutant: what cannot be parsed is played.
FoundUnparsed == {Stored}

\* loadScenario: the stored file first, the built-in second; an error, which is answered
\* by 404, if there is neither or the file is no document.
Found == {Stored} \ {NoDoc}

LoadScenario(c) ==
    /\ directive = "scenario" /\ call[c].pc = "idle"
    /\ \E d \in Found : ToCall(c, [NoCall EXCEPT !.pc = "loaded", !.source = d])
    /\ UNCHANGED <<directive, scenarioVars, cassetteVars, now, sessionVars, editor>>

\* loadCassette asks for the date before it takes the mutex.
Stat(c) ==
    /\ directive = "replay" /\ call[c].pc = "idle"
    /\ cassette.exists
    /\ ToCall(c, [NoCall EXCEPT !.pc = "dated", !.modTime = cassette.modTime,
                                !.arrived = cassette.change])
    /\ UNCHANGED <<directive, scenarioVars, cassetteVars, now, sessionVars, editor>>

\* cassMu is held from a lookup that misses until the cassette is cached.
MutexFree == \A c \in Calls : call[c].pc # "missed"

\* Mutant: a cached cassette is used whatever its date.
HitsByName(c) == cache

Hits(c) == {cas \in cache : cas.modTime = call[c].modTime}

Lookup(c) ==
    /\ call[c].pc = "dated" /\ MutexFree
    /\ \/ \E cas \in Hits(c) : ToCall(c, [call[c] EXCEPT !.pc = "loaded", !.source = cas])
       \/ Hits(c) = {} /\ ToCall(c, [call[c] EXCEPT !.pc = "missed"])
    /\ UNCHANGED <<directive, scenarioVars, cassetteVars, now, sessionVars, editor>>

Parsed(c) ==
    [modTime |-> call[c].modTime, readAt |-> now, change |-> cassette.change,
     main |-> Cardinality({i \in DOMAIN cassette.entries : cassette.entries[i].main})]

\* ReadCassette, and the cache; 404 when the file has gone.
Read(c) ==
    /\ call[c].pc = "missed"
    /\ IF cassette.exists
       THEN /\ cache' = {Parsed(c)}
            /\ ToCall(c, [call[c] EXCEPT !.pc = "loaded", !.source = Parsed(c)])
       ELSE cache' = cache /\ ToCall(c, NoCall)
    /\ UNCHANGED <<directive, scenarioVars, cassette, raced, now, sessionVars, editor>>

-----------------------------------------------------------------------------
(* Sessions. *)

\* What is played from: the document, or the number of recorded main-lane exchanges.
Script(c) == IF directive = "scenario" THEN call[c].source ELSE call[c].source.main

InSession(c, s) ==
    ToCall(c, [NoCall EXCEPT !.pc = "joined", !.session = s, !.source = Script(c)])

Join(c) ==
    /\ call[c].pc = "loaded" /\ session # 0
    /\ InSession(c, session)
    /\ UNCHANGED <<directive, scenarioVars, cassetteVars, now, sessionVars, editor>>

NewSession(c) ==
    /\ call[c].pc = "loaded" /\ session = 0 /\ created < MaxSessions
    /\ created' = created + 1 /\ session' = created + 1
    /\ InSession(c, created + 1)
    /\ UNCHANGED <<directive, scenarioVars, cassetteVars, now, counters, served, editor>>

\* resetSessions, and the sweep when a session is created under another key.  A call
\* that has the session keeps it.
Reset ==
    /\ session # 0
    /\ session' = 0
    /\ UNCHANGED <<directive, scenarioVars, cassetteVars, now, created, counters, served,
                   call, editor>>

Rep(times) == IF times = 0 THEN 1 ELSE times

\* The cum of stepForIndex when it comes to step i.
Before(d, i) == FoldLeft(LAMBDA cum, t : cum + Rep(t), 0, SubSeq(d.times, 1, i - 1))

\* Mutant: a repeat count is off by one.
ServingOneMore(d, idx) ==
    {i \in DOMAIN d.times : d.times[i] < 0 \/ idx <= Before(d, i) + Rep(d.times[i])}

Serving(d, idx) ==
    {i \in DOMAIN d.times : d.times[i] < 0 \/ idx < Before(d, i) + Rep(d.times[i])}

\* What is answered past the end: the last step, the notice or the error.
Notice == 0
Failure == -1
Exhausted(d) == CASE d.onExhausted = "last"     -> Len(d.times)
                  [] d.onExhausted = "end_turn" -> Notice
                  [] d.onExhausted = "error"    -> Failure

\* stepForIndex, and what serveScenario does when the scenario is exhausted.
StepAt(d, idx) == IF Serving(d, idx) = {} THEN Exhausted(d) ELSE Min(Serving(d, idx))

\* idx is the position of the request in the main lane, from 0.
EntryAt(recorded, idx) == IF idx < recorded THEN idx + 1 ELSE Notice

Answer(script, idx) ==
    IF directive = "scenario" THEN StepAt(script, idx) ELSE EntryAt(script, idx)

Played(lane) == FoldFunction(LAMBDA n, k : n[lane] + k, 0, counters)

\* The index is read and advanced under sess.mu.
PlayMain(c) ==
    LET s == call[c].session  idx == counters[s].main IN
    /\ call[c].pc = "joined" /\ Played("main") < MaxServed
    /\ counters' = [counters EXCEPT ![s].main = idx + 1]
    /\ served' = [served EXCEPT ![s] = [count |-> @.count + 1, of |-> call[c].source,
                                        answer |-> Answer(call[c].source, idx)]]
    /\ ToCall(c, NoCall)
    /\ UNCHANGED <<directive, scenarioVars, cassetteVars, now, created, session, editor>>

\* A side call: without tools, or for a small model.
PlaySide(c) ==
    LET s == call[c].session  idx == counters[s].side IN
    /\ call[c].pc = "joined" /\ Played("side") < MaxSide
    /\ counters' = [counters EXCEPT ![s].side = idx + 1]
    /\ ToCall(c, NoCall)
    /\ UNCHANGED <<directive, scenarioVars, cassetteVars, now, created, session, served, editor>>

Next ==
    \/ \E e \in Editors : \/ \E d \in Docs : PutOpen(e, d)
                          \/ PutWrite(e) \/ PutFails(e)
                          \/ Count(e) \/ \E main \in BOOLEAN : AppendEntry(e, main)
                          \/ AppendFails(e)
    \/ DeleteScenario \/ DeleteCassette \/ Tick \/ Reset
    \/ \E c \in Calls : \/ LoadScenario(c)
                        \/ Stat(c) \/ Lookup(c) \/ Read(c)
                        \/ Join(c) \/ NewSession(c)
                        \/ PlayMain(c) \/ PlaySide(c)

Spec == Init /\ [][Next]_vars

-----------------------------------------------------------------------------
(* Properties. *)

SimTypeOK ==
    /\ scenario \in ScenarioFiles
    /\ cassette \in CassetteFiles
    /\ Cardinality(cache) <= 1 /\ cache \subseteq Cassettes
    /\ session <= created /\ created <= MaxSessions
    /\ \A c \in Calls : /\ call[c].pc = "joined" => call[c].session \in 1..created
                        /\ call[c].pc = "loaded" =>
                               call[c].source \in IF directive = "scenario"
                                                  THEN Docs \cup {Builtin} ELSE Cassettes

\* A scenario that PUTs have written one after the other is absent or whole: a PUT of a
\* shorter document leaves nothing of a longer one, and one that meets no other is
\* complete when it has been answered (WriteScenarioFile).
ScenarioIntact ==
    (\A e \in Editors : editor[e].pc # "opened") /\ ~spoiled
        => ~scenario.exists \/ scenario.doc # NoDoc

\* The entries of a cassette are numbered from 0 in the order of the file, however the
\* recordings overlap, unless it was deleted under an append (AppendCassetteEntry).
SeqExact == ~raced => \A i \in DOMAIN cassette.entries : cassette.entries[i].seq = i - 1

\* A replay may be of an older cassette than the one that its call has found only if that
\* had been read in the tick that the file was last changed in: the cache never hides
\* a change that shows in the date (loadCassette).
ReplayCurrent ==
    \A c \in Calls : directive = "replay" /\ call[c].pc = "loaded" =>
        LET cas == call[c].source IN
        cas.change < call[c].arrived => cas.readAt = call[c].modTime

\* The first n answers of a scenario, each step written as often as it repeats.
Unrolled(d, n) ==
    FlattenSeq([i \in DOMAIN d.times |->
        [k \in 1..(IF d.times[i] = -1 THEN n ELSE Rep(d.times[i])) |-> i]])

\* What the k-th main-lane request of a session is due.
Due(of, k) ==
    IF directive = "replay" THEN (IF k <= of THEN k ELSE Notice)
    ELSE LET answers == Unrolled(of, k)
         IN IF k <= Len(answers) THEN answers[k] ELSE Exhausted(of)

\* The k-th main-lane request of a session gets the k-th answer of the scenario, each step
\* as often as it repeats, or the k-th recorded one, whatever side calls, resets, new
\* versions and other clients come between (stepForIndex, serveReplay).
ScriptFollowed ==
    \A s \in 1..MaxSessions : served[s].count > 0 =>
        served[s].answer = Due(served[s].of, served[s].count)

=============================================================================
