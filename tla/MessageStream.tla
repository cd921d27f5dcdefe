---------------------------- MODULE MessageStream ----------------------------
(***************************************************************************)
(* One assistant message on the wire: written as an event stream or as one *)
(* JSON body (sim_sse.go), recorded by a passthrough request, and played   *)
(* back to clients that may want the other form (cassette.go).             *)
(*                                                                         *)
(* A text is a sequence of runes; of a tool's input these are the braces   *)
(* of an object, spaces and numbers.  The fields that are only copied (id, *)
(* model, input tokens, a tool's id and name) are left out, and so are the *)
(* delays between events.  Frames reach the recording whole: one that was  *)
(* cut is no JSON, and passed over like one that never came.  Blocks are   *)
(* numbered from 1 here, from 0 in the code.                               *)
(*                                                                         *)
(* The proxy forwards the Accept-Encoding of its client, so an upstream    *)
(* may answer in a content coding.  The tee keeps the coded bytes, and of  *)
(* the headers only the content type: what they say can no longer be read. *)
(***************************************************************************)
EXTENDS Integers, SequencesExt

CONSTANTS
    Messages,   \* what the upstream answers with
    Paces,      \* how it streams them
    MaxFiller   \* bound: filler deltas before an error

\* "other" stands for the types of block that the gateway does not know.
BlockTypes == {"text", "thinking", "tool_use", "other"}
Block(type, text, sig) == [type |-> type, text |-> text, sig |-> sig]
Message(blocks, stop, tokens) == [blocks |-> blocks, stop |-> stop, tokens |-> tokens]

Blocks == [type : BlockTypes, text : Seq(STRING), sig : STRING]
IsMessage(m) == m \in [blocks : Seq(Blocks), stop : STRING \ {""}, tokens : Nat]

IsJSON(input) == Len(input) >= 2 /\ input[1] = "{" /\ Last(input) = "}"

\* What an upstream sends: a signature of thinking only, and the input of a tool as a
\* whole or not at all; what blocks of other types carry reaches no client, and is left out.
FromUpstream(m) ==
    /\ IsMessage(m) /\ m.stop \notin {"nothing", "error", "blank", "encoded"}
    /\ \A i \in DOMAIN m.blocks :
         LET b == m.blocks[i] IN
         /\ b.type # "thinking" => b.sig = ""
         /\ b.type = "other" => b.text = <<>>
         /\ b.type = "tool_use" /\ b.text # <<>> =>
              IsJSON(b.text) /\ \A k \in 2..(Len(b.text) - 1) : b.text[k] \notin {"{", "}"}

\* The strings that are not a client's or an upstream's.
ASSUME Literals ==
    {"", "{", "}", "rounded", "filler", "sim-signature", "end_turn", "unsaid", "nothing",
     "error", "blank", "encoded"} \subseteq STRING

ASSUME StreamAssumption ==
    /\ \A m \in Messages : FromUpstream(m)
    /\ \A p \in Paces : p.chunk \in Int /\ p.ping \in Nat
    /\ MaxFiller \in Nat

VARIABLES
    stage,   \* where the exchange is; "off" if there is none
    origin,  \* the message of the upstream, or Nothing
    wire,    \* the events of the stream that is being written
    sent,    \* those that its client has been sent
    entry,   \* the entry of the cassette
    asked,   \* what the client of the playback asked for: a stream or one body
    got      \* the body it was sent

streamVars == <<stage, origin, wire, sent, entry, asked, got>>

\* No message: an error in its place, a body that could not be encoded as JSON, or one
\* in a content coding.
Nothing == Message(<<>>, "nothing", 0)
Refusal == Message(<<>>, "error", 0)
Blank == Message(<<>>, "blank", 0)
Coded == Message(<<>>, "encoded", 0)

\* form: "none", "error", "json" or "sse".
Entry(form, events, body) == [form |-> form, events |-> events, body |-> body]
NoEntry == Entry("none", <<>>, Nothing)

StreamInit ==
    /\ stage \in {"off", "idle"}
    /\ origin = Nothing
    /\ wire = <<>> /\ sent = <<>>
    /\ entry = NoEntry
    /\ asked = "body" /\ got = Nothing

-----------------------------------------------------------------------------
(* JSON. *)

\* The elements of a sequence at some of its places.
At(s, places) ==
    FlattenSeq([i \in DOMAIN s |-> IF i \in places THEN <<s[i]>> ELSE <<>>])

\* compactJSON goes through any: spaces go, and what float64 cannot hold is rounded.
Tight(input) == At(input, {i \in DOMAIN input : input[i] # " "})
Rounded(input) ==
    [i \in DOMAIN input |-> IF input[i] = "wide" THEN "rounded" ELSE input[i]]
compactJSON(input) == Rounded(Tight(input))

InputOf(b) == IF b.text = <<>> THEN <<"{", "}">> ELSE b.text
SignatureOf(b) == IF b.sig = "" THEN "sim-signature" ELSE b.sig

jsonBlock(b) ==
    CASE b.type = "thinking" -> Block("thinking", b.text, SignatureOf(b))
      [] b.type = "tool_use" -> Block("tool_use", Tight(InputOf(b)), "")
      [] OTHER -> Block("text", b.text, "")

\* Mutant: the input is written as a string of bytes, which need be no JSON.
EncodableAlways(m) == TRUE

\* The encoder refuses a message with an input that is no JSON, and writes nothing.
Encodable(m) ==
    \A i \in DOMAIN m.blocks : m.blocks[i].type = "tool_use" => IsJSON(InputOf(m.blocks[i]))

writeMessageJSON(m) ==
    IF Encodable(m)
    THEN Message([i \in DOMAIN m.blocks |-> jsonBlock(m.blocks[i])], m.stop, m.tokens)
    ELSE Blank

Default(stop) == IF stop = "" THEN "end_turn" ELSE stop

messageFromJSON(body) ==
    Message(At(body.blocks, {i \in DOMAIN body.blocks : body.blocks[i].type # "other"}),
            Default(body.stop), body.tokens)

-----------------------------------------------------------------------------
(* From a message to events. *)

ChunkSize(p) == IF p.chunk <= 0 THEN 16 ELSE p.chunk

\* Mutant: a last chunk that is shorter than the others is left out.
ChunksFull(s, n) == [k \in 1..(Len(s) \div n) |-> SubSeq(s, (k - 1) * n + 1, k * n)]

\* chunkRunes.
Chunks(s, n) ==
    [k \in 1..((Len(s) + n - 1) \div n) |->
        SubSeq(s, (k - 1) * n + 1, IF k * n > Len(s) THEN Len(s) ELSE k * n)]

Plain(type) == [type |-> type]
Ping == Plain("ping")
BlockEvent(type, i, kind) == [type |-> type, index |-> i, kind |-> kind]
Delta(i, kind, text) ==
    [type |-> "content_block_delta", index |-> i, kind |-> kind, text |-> text]
DeltaOf(type) ==
    CASE type = "thinking" -> "thinking_delta"
      [] type = "tool_use" -> "input_json_delta"
      [] OTHER -> "text_delta"

BlockEvents(b, i, p) ==
    <<BlockEvent("content_block_start", i, b.type)>>
    \o [k \in DOMAIN Chunks(b.text, ChunkSize(p)) |->
          Delta(i, DeltaOf(b.type), Chunks(b.text, ChunkSize(p))[k])]
    \o (IF b.type = "thinking" THEN <<Delta(i, "signature_delta", <<b.sig>>)>> ELSE <<>>)
    \o <<BlockEvent("content_block_stop", i, b.type)>>

\* emitDelta: a ping after every n deltas, counted over all blocks.
WithPings(events, n) ==
    FoldLeft(LAMBDA done, e :
               LET count == done.count + (IF e.type = "content_block_delta" THEN 1 ELSE 0)
                   due == n > 0 /\ count >= n
               IN [count |-> IF due THEN 0 ELSE count,
                   events |-> done.events \o (IF due THEN <<e, Ping>> ELSE <<e>>)],
             [count |-> 0, events |-> <<>>], events).events

\* The events of a whole stream.
Stream(m, p) ==
    <<Plain("message_start"), Ping>>
    \o WithPings(FlattenSeq([i \in DOMAIN m.blocks |-> BlockEvents(m.blocks[i], i, p)]), p.ping)
    \o <<[type |-> "message_delta", stop |-> m.stop, tokens |-> m.tokens], Plain("message_stop")>>

\* What writeMessageSSE puts into the deltas of a block.
Streamed(b) ==
    CASE b.type = "thinking" -> Block("thinking", b.text, SignatureOf(b))
      [] b.type = "tool_use" -> Block("tool_use", compactJSON(InputOf(b)), "")
      [] OTHER -> b

writeMessageSSE(m, p) ==
    Stream(Message([i \in DOMAIN m.blocks |-> Streamed(m.blocks[i])], m.stop, m.tokens), p)

\* An overload: some text, and an error in the middle of its block.
Filler(n) == Message(<<Block("text", [k \in 1..n |-> "filler"], "")>>, "unsaid", 0)

writeMidStreamErrorSSE(afterChunks) ==
    <<Plain("message_start"), BlockEvent("content_block_start", 1, "text")>>
    \o [k \in 1..afterChunks |-> Delta(1, "text_delta", <<"filler">>)]
    \o <<Plain("error")>>

\* A stream in a content coding: bytes in which no event is found.
CodedStream == <<Plain("encoded")>>

-----------------------------------------------------------------------------
(* From events to a message: sseToMessage. *)

\* Blocks up to this one exist; it has the type the event says.
Opened(blocks, e) ==
    LET n == IF e.index > Len(blocks) THEN e.index ELSE Len(blocks)
        at(i) == IF i <= Len(blocks) THEN blocks[i] ELSE Block("", <<>>, "")
    IN [i \in 1..n |-> IF i = e.index THEN [at(i) EXCEPT !.type = e.kind] ELSE at(i)]

Extended(blocks, e) ==
    IF e.index > Len(blocks) THEN blocks
    ELSE IF e.kind = "signature_delta" THEN [blocks EXCEPT ![e.index].sig = e.text[1]]
    ELSE [blocks EXCEPT ![e.index].text = @ \o e.text]

ReadEvent(m, e) ==
    CASE e.type = "content_block_start" -> [m EXCEPT !.blocks = Opened(@, e)]
      [] e.type = "content_block_delta" -> [m EXCEPT !.blocks = Extended(@, e)]
      [] e.type = "message_delta" ->
           [m EXCEPT !.stop = IF e.stop # "" THEN e.stop ELSE @,
                     !.tokens = IF e.tokens > 0 THEN e.tokens ELSE @]
      [] OTHER -> m

Has(events, type) == \E i \in DOMAIN events : events[i].type = type

\* A stream with an error in it, or without a beginning, is no message.
sseToMessage(events) ==
    LET m == FoldLeft(ReadEvent, Message(<<>>, "", 0), events) IN
    IF Has(events, "error") \/ ~Has(events, "message_start") THEN Refusal
    ELSE [m EXCEPT !.stop = Default(@)]

-----------------------------------------------------------------------------
(* The exchange that is recorded. *)

Recorded(e) == stage' = "recorded" /\ entry' = e /\ sent' = <<>> /\ wire' = <<>>

\* The upstream answers with an error, or with the message in one body.
AnswerError ==
    /\ stage = "idle"
    /\ Recorded(Entry("error", <<>>, Refusal))
    /\ UNCHANGED <<origin, asked, got>>

AnswerBody(m) ==
    /\ stage = "idle"
    /\ origin' = m
    /\ \E body \in {m, Coded} : Recorded(Entry("json", <<>>, body))
    /\ UNCHANGED <<asked, got>>

\* Or it begins a stream, which may be a coded one.
BeginStream(m, events) ==
    /\ stage = "idle"
    /\ stage' = "upstream"
    /\ origin' = m /\ wire' = events
    /\ UNCHANGED <<sent, entry, asked, got>>

\* An event passes through to the client, and the tee keeps it.
Pass ==
    /\ stage \in {"upstream", "replay"} /\ sent # wire
    /\ sent' = Append(sent, wire[Len(sent) + 1])
    /\ UNCHANGED <<stage, origin, wire, entry, asked, got>>

\* The stream ends, early perhaps, and what went through is an entry.
EndStream ==
    /\ stage = "upstream"
    /\ Recorded(Entry("sse", sent, Nothing))
    /\ UNCHANGED <<origin, asked, got>>

\* The client leaves, the connection breaks or the append fails: nothing is recorded.
Unrecorded ==
    /\ stage = "upstream"
    /\ stage' = "idle"
    /\ origin' = Nothing /\ wire' = <<>> /\ sent' = <<>>
    /\ UNCHANGED <<entry, asked, got>>

-----------------------------------------------------------------------------
(* serveReplay: the entry in the form that is asked for. *)

\* Errors come as they were, whatever is asked for.
ReplayError(form) ==
    /\ stage = "recorded" /\ entry.form = "error"
    /\ stage' = "played"
    /\ asked' = form /\ got' = entry.body
    /\ UNCHANGED <<origin, wire, sent, entry>>

ReplayBody ==
    /\ stage = "recorded" /\ entry.form \in {"json", "sse"}
    /\ stage' = "played"
    /\ asked' = "body"
    /\ got' = IF entry.form = "json" THEN entry.body
              ELSE LET m == sseToMessage(entry.events) IN
                   IF m = Refusal THEN Refusal ELSE writeMessageJSON(m)
    /\ UNCHANGED <<origin, wire, sent, entry>>

\* replayRawSSE writes the recorded frames, of which there may be none.
ReplayStream ==
    /\ stage = "recorded" /\ entry.form \in {"json", "sse"} /\ entry.body # Coded
    /\ stage' = "replay"
    /\ asked' = "stream"
    /\ wire' = IF entry.form = "sse" THEN entry.events
               ELSE writeMessageSSE(messageFromJSON(entry.body), [chunk |-> 0, ping |-> 0])
    /\ UNCHANGED <<origin, sent, entry, got>>

\* What cannot be parsed cannot be streamed.
RefuseStream ==
    /\ stage = "recorded" /\ entry.form = "json" /\ entry.body = Coded
    /\ stage' = "played"
    /\ asked' = "stream" /\ got' = Refusal
    /\ UNCHANGED <<origin, wire, sent, entry>>

EndReplay ==
    /\ stage = "replay" /\ sent = wire
    /\ stage' = "played"
    /\ UNCHANGED <<origin, wire, sent, entry, asked, got>>

\* The client has what it asked for, or goes away in the middle of it; the entry
\* can be played again.
LeaveReplay ==
    /\ stage \in {"replay", "played"}
    /\ stage' = "recorded"
    /\ wire' = <<>> /\ sent' = <<>> /\ asked' = "body" /\ got' = Nothing
    /\ UNCHANGED <<origin, entry>>

StreamNext ==
    \/ AnswerError
    \/ \E m \in Messages : \/ AnswerBody(m)
                           \/ BeginStream(m, CodedStream)
                           \/ \E p \in Paces : BeginStream(m, Stream(m, p))
    \/ \E n \in 0..MaxFiller : BeginStream(Filler(n), writeMidStreamErrorSSE(n))
    \/ Pass \/ EndStream \/ Unrecorded
    \/ \E form \in {"body", "stream"} : ReplayError(form)
    \/ ReplayBody \/ ReplayStream \/ RefuseStream \/ EndReplay \/ LeaveReplay

StreamSpec == StreamInit /\ [][StreamNext]_streamVars

-----------------------------------------------------------------------------
(* Properties. *)

\* The types of the exchange, its entry and its playback.
StreamTypeOK ==
    /\ stage \in {"off", "idle", "upstream", "recorded", "replay", "played"}
    /\ origin \in Messages \cup {Nothing} \cup {Filler(n) : n \in 0..MaxFiller}
    /\ IsPrefix(sent, wire)
    /\ entry.form \in {"none", "error", "json", "sse"}
    /\ entry.form = "json" => entry.body \in {origin, Coded}
    /\ (stage \in {"recorded", "replay", "played"}) = (entry # NoEntry)
    /\ asked \in {"body", "stream"}
    /\ IsMessage(got)

\* A client's own reading of a stream: the type a block starts with, its deltas
\* one after the other, and the message_delta.
HeardBlock(events, i) ==
    LET ofBlock == {e \in DOMAIN events :
            events[e].type \in {"content_block_start", "content_block_delta"} /\ events[e].index = i}
        starts == {e \in ofBlock : events[e].type = "content_block_start"}
        signed == {e \in ofBlock \ starts : events[e].kind = "signature_delta"}
        texts == At(events, ofBlock \ (starts \cup signed))
    IN Block(At(events, starts)[1].kind, FlattenSeq([k \in DOMAIN texts |-> texts[k].text]),
             IF signed = {} THEN "" ELSE At(events, signed)[1].text[1])

Heard(events) ==
    LET Of(type) == At(events, {e \in DOMAIN events : events[e].type = type})
        end == Of("message_delta")[1]
    IN Message([i \in DOMAIN Of("content_block_start") |-> HeardBlock(events, i)],
               end.stop, end.tokens)

\* What a message says, in whatever form: blocks of unknown types say nothing to the
\* gateway, an empty text says nothing, numbers are told apart as far as float64 can.
Silent(b) == b.type = "other" \/ (b.type = "text" /\ b.text = <<>>)

Says(m) ==
    LET said == At(m.blocks, {i \in DOMAIN m.blocks : ~Silent(m.blocks[i])})
    IN Message([i \in DOMAIN said |-> Streamed(said[i])], m.stop, m.tokens)

Whole == entry.form = "json" \/ (entry.form = "sse" /\ Has(entry.events, "message_stop"))

\* The answer came without a content coding.  A coded one does not adapt, whole as it
\* may be: its stream has no message_start and its body is no JSON (proxy.go:13,
\* cassette.go:57).
Legible == entry.body # Coded /\ ~Has(entry.events, "encoded")

\* "Stream shape adapts both ways" (README), of answers without a content coding:
\* whichever form the exchange was recorded in, in chunks of any size and with pings
\* between, and whichever form is asked for, a client is told what the upstream said
\* (cassette.go:308).
AdaptsBothWays ==
    stage = "played" /\ Whole /\ Legible =>
        Says(IF asked = "stream" THEN Heard(sent) ELSE got) = Says(origin)

\* A block of the answer is one of the upstream's, or the beginning of one: a tool
\* input is there whole or not at all.
Begun(b, of) ==
    /\ b.type = jsonBlock(of).type
    /\ IF b.type = "tool_use" THEN b.text \in {jsonBlock(of).text, <<"{", "}">>}
                              ELSE IsPrefix(b.text, of.text)
    /\ b.sig \in {jsonBlock(of).sig, "sim-signature"}

\* The events end between the deltas of a tool's input.
InsideInput(events) ==
    \E i \in DOMAIN events :
        /\ events[i].type = "content_block_delta" /\ events[i].kind = "input_json_delta"
        /\ ~Has(SubSeq(events, i, Len(events)), "content_block_stop")

\* A recording of a stream that broke off, ended in an error or is in a content coding
\* is never answered with something the upstream did not say: whoever asks for one
\* body gets an error, no body when the stream stopped inside a tool's input, or the
\* blocks of the message up to the one in which it stopped; save that such a message
\* ends its turn, and that a tool whose input had not begun has the input {}
\* (cassette.go:444).
NothingMadeUp ==
    stage = "played" /\ asked = "body" /\ entry.form = "sse" /\ ~Whole =>
        \/ got = Refusal
        \/ got = Blank /\ InsideInput(entry.events)
        \/ /\ got \notin {Refusal, Blank} /\ ~Has(entry.events, "error")
           /\ LET n == Len(got.blocks) IN
              /\ n <= Len(origin.blocks)
              /\ \A i \in 1..n :
                   IF i < n THEN got.blocks[i] = jsonBlock(origin.blocks[i])
                            ELSE Begun(got.blocks[i], origin.blocks[i])
=============================================================================
