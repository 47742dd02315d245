----------------------------- MODULE OutputPump -----------------------------
(***************************************************************************)
(* How pumpSession (internal/app/app.go) turns the output of one agent     *)
(* into messages for the clients.                                          *)
(*                                                                         *)
(* An agent that speaks JSON lines is read line by line although its lines *)
(* come cut in any place, and from two streams that share one remainder;   *)
(* each payload is a whole text, a piece of a streamed one, an end of a    *)
(* turn or nothing, and the exit completes what is left.  Any other agent  *)
(* is read chunk by chunk.  The event of each message carries its id.      *)
(*                                                                         *)
(* A line is abstracted to the type of its payload, in two pieces.  What   *)
(* the pump does to the session's state and rows is in SessionStore.       *)
(***************************************************************************)
EXTENDS Naturals, Sequences, FiniteSets

CONSTANTS
    Profiles,   \* the event parsers of the adapters that are run
    Streams,    \* stdout and stderr
    MaxLines    \* bound: lines, or chunks of text, the agent writes

ASSUME PumpAssumption == MaxLines \in Nat

VARIABLES
    profile,    \* the adapter's event parser
    pending,    \* what each stream has not given of the line it is in
    written,    \* lines the agent has begun
    buffer,     \* the lines not yet handled, and the remainder
    open,       \* the id of the message that is open, or None
    streamed,   \* paperclipLocalStreamState.Streamed
    nextId,     \* newID
    published,  \* the message events published so far
    arrived,    \* history: all output events, concatenated
    handled,    \* history: the lines, or chunks, taken one by one
    exit,       \* "none", "lines" while the last line is taken, or "taken"
    late        \* there was output after the exit event

vars == <<profile, pending, written, buffer, open, streamed, nextId,
          published, arrived, handled, exit, late>>

None == 0       \* no message
AgentId == 1    \* the id opencode gives to the parts of one message

-----------------------------------------------------------------------------
(* The payloads of each profile.                                           *)

\* What the code reads of a payload, text, streaming and terminal, and whether
\* the agent's protocol ends an answer with it.  A Part is published whole like
\* an Answer, but the answer it is from goes on.
Answer == [text |-> TRUE,  streaming |-> FALSE, terminal |-> TRUE,  ends |-> TRUE]
Part   == [text |-> TRUE,  streaming |-> FALSE, terminal |-> TRUE,  ends |-> FALSE]
Delta  == [text |-> TRUE,  streaming |-> TRUE,  terminal |-> FALSE, ends |-> FALSE]
End    == [text |-> FALSE, streaming |-> FALSE, terminal |-> TRUE,  ends |-> TRUE]
Silent == [text |-> FALSE, streaming |-> FALSE, terminal |-> FALSE, ends |-> FALSE]
Prompt == [text |-> TRUE,  streaming |-> TRUE,  terminal |-> TRUE,  ends |-> TRUE]

\* codexAssistantText takes each delta of an item for a whole text, and then the
\* item's text.  Cursor and gemini give the text of a message and again in the
\* result, pi at the end of each message and turn and again at the agent's end,
\* acpx in messages and in the result, each perhaps without a text.
CodexTexts == [item_delta |-> Part, item_completed |-> Answer, reasoning |-> Silent]
OpencodeTexts == [part |-> Answer, part_of_message |-> Answer, step |-> Silent]
ClaudeTexts == [result |-> Answer, api_retry |-> Answer, assistant |-> Silent]
CursorGeminiTexts == [assistant |-> Part, text |-> Delta, result |-> Answer, empty_result |-> End]
GrokTexts == [text |-> Delta, end |-> End, error |-> Answer]
PiTexts == [text_delta |-> Delta, turn_end |-> Part, agent_end |-> Answer, empty_end |-> End]
AcpxTexts == [text_delta |-> Delta, thought |-> Silent, message |-> Part, result |-> Answer,
              done |-> End]

\* What sanitizeOutputText leaves of a chunk of text: nothing of a spinner or
\* of another noise line.
Chunks == {"text", "input_request", "noise"}
Sanitized(type) == type # "noise"
LooksLikeInputRequest(type) == type = "input_request"
TextChunks ==
    [type \in Chunks |-> IF LooksLikeInputRequest(type) THEN Prompt
                         ELSE IF Sanitized(type) THEN Delta ELSE Silent]

Texts == [codex_exec |-> CodexTexts, opencode_run |-> OpencodeTexts, stable |-> ClaudeTexts,
          cursor_stream_json |-> CursorGeminiTexts, grok_streaming_json |-> GrokTexts,
          pi_json |-> PiTexts, acpx_json |-> AcpxTexts, text |-> TextChunks]

WholeProfiles == {"codex_exec", "opencode_run", "stable"}

ASSUME ProfilesAssumption == Profiles \subseteq DOMAIN Texts

-----------------------------------------------------------------------------
(* Lines.                                                                  *)

Newline == <<"newline", 0>>
Whole(type) == << <<type, 1>>, <<type, 2>> >>
LineOf(type) == Append(Whole(type), Newline)

Ends(s) == {i \in DOMAIN s : s[i] = Newline}

\* A line is a payload when it is one whole object: pieces of two do not parse,
\* and the line is passed over.
Payload(l) ==
    IF \E type \in DOMAIN Texts[profile] : l = Whole(type) THEN Texts[profile][l[1][1]] ELSE Silent

-----------------------------------------------------------------------------
(* Messages.  A pump is what the functions below return: the open message, *)
(* Streamed, the next id and the events.                                   *)

Event(kind, id) == [kind |-> kind, id |-> id]

\* publishPaperclipJSONMessage, and the end of the three whole-line consumers.
PublishMessage(p, id) ==
    [p EXCEPT !.next = IF id = AgentId THEN @ ELSE @ + 1,
              !.out = Append(Append(Append(@, Event("started", id)),
                                    Event("delta", id)), Event("completed", id))]

\* Mutant: a delta does not ask for an open message.
PublishDeltaUnopened(p) ==
    [p EXCEPT !.out = Append(@, Event("delta", p.next)), !.open = p.next, !.streamed = TRUE]

\* publishPaperclipJSONDelta: the first delta of a turn starts its message.
PublishDelta(p) ==
    LET id == IF p.open = None THEN p.next ELSE p.open
    IN  [p EXCEPT !.open = id, !.streamed = TRUE,
                  !.next = IF p.open = None THEN @ + 1 ELSE @,
                  !.out = Append(IF p.open = None THEN Append(@, Event("started", id)) ELSE @,
                                 Event("delta", id))]

Complete(p) ==
    IF p.open = None THEN p
    ELSE [p EXCEPT !.out = Append(@, Event("completed", p.open)), !.open = None]

\* A line of codex, opencode or claudecode: each text is a message of its own.
HandleWhole(p, line) ==
    IF ~Payload(line).text THEN p
    ELSE PublishMessage(p, IF line = Whole("part_of_message") THEN AgentId ELSE p.next)

\* Mutant: the answer that ends a stream is published again.
HandleStreamedTwice(p, line) ==
    LET t == Payload(line)
        q == IF t.streaming /\ t.text THEN PublishDelta(p)
             ELSE IF t.text THEN PublishMessage(p, p.next) ELSE p
    IN  IF t.terminal THEN [Complete(q) EXCEPT !.streamed = FALSE] ELSE q

\* A line of the other profiles: a whole text adds nothing to an open stream, and
\* a terminal payload completes the stream.
HandleStreamed(p, line) ==
    LET t == Payload(line)
        q == IF t.text /\ t.streaming THEN PublishDelta(p)
             ELSE IF t.text /\ ~p.streamed THEN PublishMessage(p, p.next)
             ELSE p
    IN  IF t.terminal /\ q.open # None THEN [Complete(q) EXCEPT !.streamed = FALSE] ELSE q

\* A chunk of text: what asks for input also completes its message.
HandleText(p, chunk) ==
    IF ~Payload(chunk).text THEN p
    ELSE LET q == [PublishDelta(p) EXCEPT !.streamed = p.streamed]
         IN  IF Payload(chunk).terminal THEN Complete(q) ELSE q

Handle(p, line) ==
    IF profile = "text" THEN HandleText(p, line)
    ELSE IF profile \in WholeProfiles THEN HandleWhole(p, line)
    ELSE HandleStreamed(p, line)

Pump == [open |-> open, streamed |-> streamed, next |-> nextId, out |-> published]

Publish(p) ==
    /\ open' = p.open /\ streamed' = p.streamed /\ nextId' = p.next
    /\ published' = p.out

\* One turn of a consumer's loop.
Take(line) ==
    /\ Publish(Handle(Pump, line))
    /\ handled' = Append(handled, line)

\* Mutant: the remainder is dropped.
BufferAlone(data) == data

\* What a consumer splits: the remainder and the data.
Buffer(data) == buffer \o data

-----------------------------------------------------------------------------
Init ==
    /\ profile \in Profiles
    /\ pending = [s \in Streams |-> <<>>] /\ written = 0
    /\ buffer = <<>> /\ open = None /\ streamed = FALSE /\ nextId = AgentId + 1
    /\ published = <<>> /\ arrived = <<>> /\ handled = <<>>
    /\ exit = "none" /\ late = FALSE

\* The loop of pumpSession takes an event when it is done with the one before.
Ready == Ends(buffer) = {} /\ exit # "lines"

\* An output event of a stream: the rest of its line, or some of it, and
\* perhaps the beginning of the next.
OutputLines(s) ==
    /\ Ready /\ profile # "text"
    /\ \E more \in {<<>>} \union {LineOf(type) : type \in DOMAIN Texts[profile]} :
         /\ more # <<>> => written < MaxLines
         /\ written' = IF more = <<>> THEN written ELSE written + 1
         /\ \E n \in (IF more = <<>> THEN 1 ELSE Len(pending[s]) + 1)..Len(pending[s] \o more) :
              LET text == pending[s] \o more
                  data == SubSeq(text, 1, n)
              IN  /\ pending' = [pending EXCEPT ![s] = SubSeq(text, n + 1, Len(text))]
                  /\ buffer' = Buffer(data)
                  /\ arrived' = arrived \o data
    /\ late' = (exit = "taken")
    /\ UNCHANGED <<profile, open, streamed, nextId, published, handled, exit>>

\* The consumer of the profile handles the first line that is left.
HandleLine ==
    /\ \E end \in Ends(buffer) :
         /\ \A i \in Ends(buffer) : end <= i
         /\ Take(SubSeq(buffer, 1, end - 1))
         /\ buffer' = SubSeq(buffer, end + 1, Len(buffer))
    /\ UNCHANGED <<profile, pending, written, arrived, exit, late>>

OutputText ==
    /\ Ready /\ profile = "text" /\ written < MaxLines
    /\ \E type \in Chunks : Take(Whole(type))
    /\ written' = written + 1 /\ late' = (exit = "taken")
    /\ UNCHANGED <<profile, pending, buffer, arrived, exit>>

\* The exit event: a line without an end is taken for whole ...
Exit ==
    /\ Ready /\ exit = "none" /\ exit' = "lines"
    /\ LET end == IF buffer = <<>> THEN <<>> ELSE <<Newline>>
       IN  buffer' = buffer \o end /\ arrived' = arrived \o end
    /\ UNCHANGED <<profile, pending, written, open, streamed, nextId, published, handled, late>>

\* Mutant: the exit forgets the stream.
CompleteForgets ==
    /\ exit = "lines" /\ Ends(buffer) = {} /\ exit' = "taken"
    /\ UNCHANGED <<profile, pending, written, buffer, open, streamed, nextId, published,
                   arrived, handled, late>>

\* ... and then the open message is completed, with Streamed left as it is.
CompleteAtExit ==
    /\ exit = "lines" /\ Ends(buffer) = {} /\ exit' = "taken"
    /\ Publish(Complete(Pump))
    /\ UNCHANGED <<profile, pending, written, buffer, arrived, handled, late>>

Next ==
    \/ \E s \in Streams : OutputLines(s)
    \/ HandleLine \/ OutputText \/ Exit \/ CompleteAtExit

Spec == Init /\ [][Next]_vars

-----------------------------------------------------------------------------
(* Properties.                                                             *)

\* Every client can follow the messages: each is started, extended and then
\* completed, by events that carry its id, and no other message of the agent
\* begins before it is completed.
Follows(before, e) ==
    \/ e.kind = "started" /\ before.kind = "completed"
    \/ e.kind = "delta" /\ before.kind # "completed" /\ before.id = e.id
    \/ e.kind = "completed" /\ before.kind = "delta" /\ before.id = e.id
FramedEvents(out) ==
    /\ out # <<>> => out[1].kind = "started"
    /\ \A i \in 2..Len(out) : Follows(out[i - 1], out[i])

Framed == FramedEvents(published)

\* However the output is cut into events, each line that arrived whole, and the
\* one that the exit found without its end, is handled once and in order: the
\* k-th line handled is the k-th that arrived, and what is left is the rest.
EndsUpTo(n) == {i \in Ends(arrived) : i <= n}
IsLine(l, e) ==
    \E b \in 0..(e - 1) :
      /\ b = 0 \/ arrived[b] = Newline
      /\ \A i \in (b + 1)..(e - 1) : arrived[i] # Newline
      /\ l = SubSeq(arrived, b + 1, e - 1)

ChunksDoNotMatter ==
    profile # "text" =>
        \E taken \in {0} \union Ends(arrived) :
          /\ buffer = SubSeq(arrived, taken + 1, Len(arrived))
          /\ Len(handled) = Cardinality(EndsUpTo(taken))
          /\ \A e \in EndsUpTo(taken) : IsLine(handled[Cardinality(EndsUpTo(e))], e)

\* Until the exit, the messages are those of the agent's answers, and the model
\* says how many each answer has.  A run of deltas is one message, to which no
\* whole text adds while it is open.  The first text of an answer begins a
\* message, and so does each further one that finds none open: where a protocol
\* gives a text in pieces that are not a stream, or a second time after the
\* payload that completed the stream, clients see it again as a message.
Type(i) == Payload(handled[i])
IsDelta(i) == Type(i).text /\ Type(i).streaming
IsWhole(i) == Type(i).text /\ ~Type(i).streaming
RunOpen(i) ==
    \E j \in 1..(i - 1) : IsDelta(j) /\ \A k \in j..(i - 1) : ~Type(k).terminal
Said(i) ==
    \E j \in 1..(i - 1) : Type(j).text /\ \A k \in j..(i - 1) : ~Type(k).ends

First(i) == Type(i).text /\ ~Said(i)
Again(i) == Type(i).text /\ Said(i) /\ ~RunOpen(i)
Continues(i) == IsDelta(i) \/ (IsWhole(i) /\ ~RunOpen(i))
Completes(i) == Type(i).terminal /\ (RunOpen(i) \/ Type(i).text)

Count(kind) == Cardinality({i \in DOMAIN published : published[i].kind = kind})

MessagesAreTurns ==
    exit # "taken" =>
        /\ Count("started") = Cardinality({i \in DOMAIN handled : First(i)})
                                + Cardinality({i \in DOMAIN handled : Again(i)})
        /\ Count("delta") = Cardinality({i \in DOMAIN handled : Continues(i)})
        /\ Count("completed") = Cardinality({i \in DOMAIN handled : Completes(i)})

\* The exit leaves no message open and no line unhandled; only output that
\* comes after it can.
ExitCompletes ==
    exit = "taken" /\ ~late =>
        open = None /\ buffer = <<>> /\ Count("started") = Count("completed")
=============================================================================
