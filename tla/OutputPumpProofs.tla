--------------------------- MODULE OutputPumpProofs ---------------------------
(***************************************************************************)
(* The messages of a session are framed, counted by the agent's answers    *)
(* and complete at its exit, and each line is handled once and in order,   *)
(* for any number of streams and lines and however the output is cut.      *)
(***************************************************************************)
EXTENDS OutputPump, SequenceTheorems, FiniteSetTheorems, TLAPS

-----------------------------------------------------------------------------
(* Payloads.                                                               *)

\* What the classifiers make of a line: a whole-line consumer knows no stream,
\* and only a text chunk extends a message and completes it at once.
LEMMA TextKinds ==
    ASSUME NEW pr \in DOMAIN Texts, NEW type \in DOMAIN Texts[pr]
    PROVE  /\ Texts[pr][type] \in {Answer, Part, Delta, End, Silent, Prompt}
           /\ pr \in WholeProfiles => Texts[pr][type] \in {Answer, Part, Silent}
           /\ Texts[pr][type] = Prompt => pr = "text"
           /\ pr = "text" => Texts[pr][type] \in {Delta, Silent, Prompt}
<1> DEFINE Of(texts, kinds) == \A t \in DOMAIN texts : texts[t] \in kinds
<1>1. Of(CodexTexts, {Answer, Part, Silent})
  BY DEF CodexTexts
<1>2. Of(OpencodeTexts, {Answer, Silent})
  BY DEF OpencodeTexts
<1>3. Of(ClaudeTexts, {Answer, Silent})
  BY DEF ClaudeTexts
<1>4. Of(CursorGeminiTexts, {Answer, Part, Delta, End})
  BY DEF CursorGeminiTexts
<1>5. Of(GrokTexts, {Answer, Delta, End})
  BY DEF GrokTexts
<1>6. Of(PiTexts, {Answer, Part, Delta, End, Silent})
  BY DEF PiTexts
<1>7. Of(AcpxTexts, {Answer, Part, Delta, End, Silent})
  BY DEF AcpxTexts
<1>8. Of(TextChunks, {Delta, Silent, Prompt})
  BY DEF TextChunks, Chunks, Sanitized, LooksLikeInputRequest
<1>9. Prompt \notin {Answer, Part, Delta, End, Silent} 
  BY DEF Answer, Part, Delta, End, Silent, Prompt
<1>10. Texts[pr] =
        CASE pr = "codex_exec" -> CodexTexts [] pr = "opencode_run" -> OpencodeTexts
          [] pr = "stable" -> ClaudeTexts [] pr = "cursor_stream_json" -> CursorGeminiTexts
          [] pr = "grok_streaming_json" -> GrokTexts [] pr = "pi_json" -> PiTexts
          [] pr = "acpx_json" -> AcpxTexts [] pr = "text" -> TextChunks
  BY DEF Texts
<1>11. pr \in {"codex_exec", "opencode_run", "stable", "cursor_stream_json",
             "grok_streaming_json", "pi_json", "acpx_json", "text"}
  BY DEF Texts
<1> QED
  BY <1>1, <1>2, <1>3, <1>4, <1>5, <1>6, <1>7, <1>8, <1>9, <1>10, <1>11 DEF WholeProfiles

LEMMA PayloadKinds ==
    ASSUME NEW l, profile \in DOMAIN Texts
    PROVE  /\ Payload(l) \in {Answer, Part, Delta, End, Silent, Prompt}
           /\ profile \in WholeProfiles => Payload(l) \in {Answer, Part, Silent}
           /\ Payload(l) = Prompt => profile = "text"
           /\ profile = "text" => Payload(l) \in {Delta, Silent, Prompt}
<1>1. CASE \E type \in DOMAIN Texts[profile] : l = Whole(type)
  <2>1. PICK type \in DOMAIN Texts[profile] : l = Whole(type)
    BY <1>1
  <2>2. Payload(l) = Texts[profile][type]
    BY <2>1 DEF Payload, Whole
  <2>3. QED
    BY <2>2, TextKinds
<1>2. CASE ~\E type \in DOMAIN Texts[profile] : l = Whole(type)
  <2>1. Payload(l) = Silent
    BY <1>2 DEF Payload
  <2>2. QED
    BY <2>1 DEF Silent, Prompt
<1>3. QED
  BY <1>1, <1>2

-----------------------------------------------------------------------------
(* The events that a pump publishes.                                       *)

EventKinds == {"started", "delta", "completed"}
Events == [kind : EventKinds, id : Nat]
Newest(out) == out[Len(out)]
Of(out, kind) == {i \in DOMAIN out : out[i].kind = kind}
Num(out, kind) == Cardinality(Of(out, kind))

\* A set of positions that an element more of a sequence extends, or not.
LEMMA CountNext ==
    ASSUME NEW n \in Nat, NEW A, NEW B, A \subseteq 1..n, B \subseteq 1..(n + 1),
           \A i \in 1..n : i \in B <=> i \in A
    PROVE  /\ Cardinality(A) \in Nat
           /\ Cardinality(B) = Cardinality(A) + (IF n + 1 \in B THEN 1 ELSE 0)
<1>1. IsFiniteSet(1..n)
  BY FS_Interval
<1>2. IsFiniteSet(A) /\ Cardinality(A) \in Nat
  BY <1>1, FS_Subset, FS_CardinalityType
<1>3. CASE n + 1 \in B
  <2>1. n + 1 \notin A /\ \A i : i \in 1..(n + 1) <=> i \in 1..n \/ i = n + 1
    OBVIOUS
  <2>. B = A \union {n + 1}
    BY <1>3, <2>1
  <2>2. Cardinality(A \union {n + 1}) = Cardinality(A) + 1
    BY <1>2, <2>1, FS_AddElement
  <2>3. QED
    BY <1>2, <1>3, <2>1, <2>2
<1>4. CASE n + 1 \notin B
  <2>1. \A i : i \in 1..(n + 1) <=> i \in 1..n \/ i = n + 1
    OBVIOUS
  <2>. B = A
    BY <1>4, <2>1
  <2>2. QED
    BY <1>2, <1>4, <2>1
<1>5. QED
  BY <1>3, <1>4

LEMMA NumAppend ==
    ASSUME NEW out \in Seq(Events), NEW e \in Events, NEW kind
    PROVE  /\ Num(out, kind) \in Nat
           /\ Num(Append(out, e), kind) = Num(out, kind) + (IF e.kind = kind THEN 1 ELSE 0)
<1> DEFINE more == Append(out, e)
<1>1. /\ Len(out) \in Nat /\ DOMAIN out = 1..Len(out)
      /\ DOMAIN more = 1..(Len(out) + 1) /\ more[Len(out) + 1] = e
      /\ \A i \in 1..Len(out) : more[i] = out[i]
  <2>1. more \in Seq(Events) /\ Len(more) = Len(out) + 1 /\ Len(out) \in Nat
    OBVIOUS
  <2>2. DOMAIN more = 1..Len(more) /\ DOMAIN out = 1..Len(out)
    BY <2>1
  <2>3. more[Len(out) + 1] = e /\ \A i \in 1..Len(out) : more[i] = out[i]
    OBVIOUS
  <2>4. QED
    BY <2>1, <2>2, <2>3
<1> HIDE DEF more
<1>2. /\ Of(out, kind) \subseteq 1..Len(out) /\ Of(more, kind) \subseteq 1..(Len(out) + 1)
      /\ \A i \in 1..Len(out) : i \in Of(more, kind) <=> i \in Of(out, kind)
      /\ Len(out) + 1 \in Of(more, kind) <=> e.kind = kind
  BY <1>1 DEF Of
<1>3. QED
  BY <1>1, <1>2, CountNext DEF Num, more

\* An event that the events before it allow.
LEMMA FramedAppend ==
    ASSUME NEW out \in Seq(Events), FramedEvents(out), NEW e \in Events,
           IF out = <<>> THEN e.kind = "started" ELSE Follows(Newest(out), e)
    PROVE  /\ Append(out, e) \in Seq(Events) /\ FramedEvents(Append(out, e))
           /\ Append(out, e) # <<>> /\ Newest(Append(out, e)) = e
<1> DEFINE more == Append(out, e)
<1>1. /\ Len(out) \in Nat /\ more \in Seq(Events) /\ more # <<>>
      /\ Len(more) = Len(out) + 1 /\ more[Len(out) + 1] = e
      /\ \A i \in 1..Len(out) : more[i] = out[i]
  <2>1. more \in Seq(Events) /\ Len(more) = Len(out) + 1 /\ Len(out) \in Nat
    OBVIOUS
  <2>2. more[Len(out) + 1] = e /\ \A i \in 1..Len(out) : more[i] = out[i]
    OBVIOUS
  <2>3. QED
    BY <2>1, <2>2
<1> HIDE DEF more
<1>2. more[1].kind = "started"
  BY <1>1 DEF FramedEvents
<1>3. ASSUME NEW i \in 2..Len(more) PROVE Follows(more[i - 1], more[i])
  <2>1. CASE i \in 2..Len(out)
    BY <1>1, <2>1 DEF FramedEvents
  <2>2. CASE i = Len(out) + 1
    BY <1>1, <1>3, <2>2 DEF Newest
  <2>3. QED
    BY <1>1, <2>1, <2>2
<1>4. QED
  BY <1>1, <1>2, <1>3 DEF FramedEvents, Newest, more

-----------------------------------------------------------------------------
(* A pump between two lines.                                               *)

Pumps == [open : Nat, streamed : BOOLEAN, next : Nat, out : Seq(Events)]

\* Its events are framed, and its open message is the one they leave open.
Good(p) ==
    /\ p \in Pumps /\ p.next > AgentId
    /\ FramedEvents(p.out)
    /\ IF p.open = None THEN p.out = <<>> \/ Newest(p.out).kind = "completed"
       ELSE p.out # <<>> /\ Newest(p.out) = Event("delta", p.open)
    /\ Num(p.out, "started") = Num(p.out, "completed") + (IF p.open = None THEN 0 ELSE 1)

\* What an operation of the pump adds to the events.
Adds(p, q, started, delta, completed) ==
    /\ Num(q.out, "started") = Num(p.out, "started") + started
    /\ Num(q.out, "delta") = Num(p.out, "delta") + delta
    /\ Num(q.out, "completed") = Num(p.out, "completed") + completed

LEMMA MessageGood ==
    ASSUME NEW p, Good(p), p.open = None, NEW id \in Nat, NEW q, q = PublishMessage(p, id)
    PROVE  /\ Good(q) /\ q.open = None /\ q.streamed = p.streamed
           /\ Adds(p, q, 1, 1, 1)
<1> DEFINE s == Event("started", id)
           d == Event("delta", id)
           c == Event("completed", id)
           o1 == Append(p.out, s)
           o2 == Append(o1, d)
           o3 == Append(o2, c)
<1>1. /\ s \in Events /\ s.kind = "started" /\ s.id = id
      /\ d \in Events /\ d.kind = "delta" /\ d.id = id
      /\ c \in Events /\ c.kind = "completed" /\ c.id = id
  BY DEF Event, Events, EventKinds
<1>2. /\ p.out \in Seq(Events) /\ FramedEvents(p.out) /\ p.next \in Nat /\ p.next > AgentId
      /\ p.out = <<>> \/ Newest(p.out).kind = "completed"
      /\ Num(p.out, "started") = Num(p.out, "completed")
      /\ p.streamed \in BOOLEAN
  BY NumAppend, <1>1 DEF Good, Pumps
<1>3. q = [p EXCEPT !.next = IF id = AgentId THEN p.next ELSE p.next + 1, !.out = o3]
  BY DEF PublishMessage
<1>4. /\ q.out = o3 /\ q.open = None /\ q.streamed = p.streamed
      /\ q.next \in Nat /\ q.next > AgentId
      /\ o3 \in Seq(Events) => q \in Pumps
  <2> HIDE DEF o3
  <2>1. q.out = o3 /\ q.open = None /\ q.streamed = p.streamed
    BY <1>3 DEF Good, Pumps
  <2>2. q.next = IF id = AgentId THEN p.next ELSE p.next + 1
    BY <1>3 DEF Good, Pumps
  <2>3. o3 \in Seq(Events) => q \in Pumps
    <3>1. q.next \in Nat /\ p \in Pumps
      BY <1>2, <2>2 DEF Good
    <3>2. q = [open |-> p.open, streamed |-> p.streamed, next |-> q.next, out |-> q.out]
      BY <1>3, <3>1 DEF Pumps
    <3>3. p.open \in Nat /\ p.streamed \in BOOLEAN
      BY <3>1 DEF Pumps
    <3>4. QED
      BY <2>1, <3>1, <3>2, <3>3 DEF Pumps
  <2>4. QED
    BY <1>2, <2>1, <2>2, <2>3 DEF AgentId
<1> HIDE DEF s, d, c
<1>5. o1 \in Seq(Events) /\ FramedEvents(o1) /\ o1 # <<>> /\ Newest(o1) = s
  BY <1>1, <1>2, FramedAppend DEF Follows
<1>6. \A kind : /\ Num(p.out, kind) \in Nat
                /\ Num(o1, kind) = Num(p.out, kind) + (IF "started" = kind THEN 1 ELSE 0)
  BY <1>1, <1>2, NumAppend
<1> HIDE DEF o1
<1>7. o2 \in Seq(Events) /\ FramedEvents(o2) /\ o2 # <<>> /\ Newest(o2) = d
  BY <1>1, <1>5, FramedAppend DEF Follows
<1>8. \A kind : Num(o2, kind) = Num(o1, kind) + (IF "delta" = kind THEN 1 ELSE 0)
  BY <1>1, <1>5, NumAppend
<1> HIDE DEF o2
<1>9. o3 \in Seq(Events) /\ FramedEvents(o3) /\ o3 # <<>> /\ Newest(o3) = c
  BY <1>1, <1>7, FramedAppend DEF Follows
<1>10. \A kind : Num(o3, kind) = Num(o2, kind) + (IF "completed" = kind THEN 1 ELSE 0)
  BY <1>1, <1>7, NumAppend
<1> HIDE DEF o3
<1>11. /\ Num(o3, "started") = Num(p.out, "started") + 1
       /\ Num(o3, "delta") = Num(p.out, "delta") + 1
       /\ Num(o3, "completed") = Num(p.out, "completed") + 1
  BY <1>6, <1>8, <1>10
<1>12. Num(p.out, "completed") \in Nat
  BY <1>6
<1>13. QED
  BY <1>1, <1>2, <1>4, <1>9, <1>11, <1>12 DEF Good, Adds

LEMMA DeltaGood ==
    ASSUME NEW p, Good(p), NEW q, q = PublishDelta(p)
    PROVE  /\ Good(q) /\ q.open # None /\ q.streamed
           /\ Adds(p, q, IF p.open = None THEN 1 ELSE 0, 1, 0)
<1> DEFINE id == IF p.open = None THEN p.next ELSE p.open
           s == Event("started", id)
           d == Event("delta", id)
           o1 == IF p.open = None THEN Append(p.out, s) ELSE p.out
           o2 == Append(o1, d)
<1>1. /\ p \in Pumps /\ p.out \in Seq(Events) /\ FramedEvents(p.out)
      /\ p.next \in Nat /\ p.next > AgentId /\ p.open \in Nat
      /\ p.open = None => p.out = <<>> \/ Newest(p.out).kind = "completed"
      /\ p.open # None => p.out # <<>> /\ Newest(p.out) = Event("delta", p.open)
      /\ Num(p.out, "started") = Num(p.out, "completed") + (IF p.open = None THEN 0 ELSE 1)
  BY DEF Good, Pumps
<1>2. id \in Nat /\ id # None /\ (p.open # None => id = p.open)
  BY <1>1 DEF AgentId, None
<1>3. q = [p EXCEPT !.open = id, !.streamed = TRUE,
                    !.next = IF p.open = None THEN p.next + 1 ELSE p.next, !.out = o2]
  BY DEF PublishDelta
<1> HIDE DEF id
<1>4. /\ s \in Events /\ s.kind = "started" /\ s.id = id
      /\ d \in Events /\ d.kind = "delta" /\ d.id = id /\ d = Event("delta", id)
  BY <1>2 DEF Event, Events, EventKinds
<1> HIDE DEF s, d
<1>5. /\ o1 \in Seq(Events) /\ FramedEvents(o1) /\ o1 # <<>>
      /\ Newest(o1).kind # "completed" /\ Newest(o1).id = id
  <2>1. CASE p.open = None
    <3>1. Append(p.out, s) \in Seq(Events) /\ FramedEvents(Append(p.out, s))
          /\ Append(p.out, s) # <<>> /\ Newest(Append(p.out, s)) = s
      BY <1>1, <1>4, <2>1, FramedAppend DEF Follows
    <3>2. QED
      BY <1>4, <2>1, <3>1
  <2>2. CASE p.open # None
    BY <1>1, <1>2, <2>2 DEF Event
  <2>3. QED
    BY <2>1, <2>2
<1>6. \A kind : /\ Num(p.out, kind) \in Nat
                /\ Num(o1, kind) = Num(p.out, kind)
                     + (IF p.open = None /\ kind = "started" THEN 1 ELSE 0)
  <2>1. \A kind : /\ Num(p.out, kind) \in Nat
                  /\ Num(Append(p.out, s), kind) =
                       Num(p.out, kind) + (IF "started" = kind THEN 1 ELSE 0)
    BY <1>1, <1>4, NumAppend
  <2>2. QED
    BY <2>1
<1> HIDE DEF o1
<1>7. o2 \in Seq(Events) /\ FramedEvents(o2) /\ o2 # <<>> /\ Newest(o2) = d
  BY <1>4, <1>5, FramedAppend DEF Follows
<1>8. \A kind : Num(o2, kind) = Num(o1, kind) + (IF "delta" = kind THEN 1 ELSE 0)
  BY <1>4, <1>5, NumAppend
<1> HIDE DEF o2
<1>9. /\ q \in Pumps /\ q.open = id /\ q.streamed /\ q.next > AgentId /\ q.out = o2
  <2>1. /\ q.open = id /\ q.streamed = TRUE /\ q.out = o2
        /\ q.next = IF p.open = None THEN p.next + 1 ELSE p.next
    BY <1>1, <1>3 DEF Pumps
  <2>2. q = [open |-> q.open, streamed |-> q.streamed, next |-> q.next, out |-> q.out]
    BY <1>1, <1>3 DEF Pumps
  <2>3. q.next \in Nat /\ q.next > AgentId
    BY <1>1, <2>1 DEF AgentId
  <2>4. QED
    BY <1>2, <1>7, <2>1, <2>2, <2>3 DEF Pumps
<1>10. /\ Num(o2, "started") = Num(p.out, "started") + (IF p.open = None THEN 1 ELSE 0)
       /\ Num(o2, "delta") = Num(p.out, "delta") + 1
       /\ Num(o2, "completed") = Num(p.out, "completed") + 0
  BY <1>6, <1>8
<1>11. Num(p.out, "completed") \in Nat
  BY <1>6
<1>12. Num(o2, "started") = Num(o2, "completed") + 1
  BY <1>1, <1>10, <1>11
<1>13. Good(q)
  BY <1>2, <1>4, <1>7, <1>9, <1>12 DEF Good
<1>14. QED
  BY <1>2, <1>9, <1>10, <1>13 DEF Adds

LEMMA CompleteGood ==
    ASSUME NEW p, Good(p), NEW q, q = Complete(p)
    PROVE  /\ Good(q) /\ q.open = None /\ q.streamed = p.streamed
           /\ Adds(p, q, 0, 0, IF p.open = None THEN 0 ELSE 1)
<1>1. /\ p \in Pumps /\ p.out \in Seq(Events) /\ FramedEvents(p.out)
      /\ p.next \in Nat /\ p.next > AgentId /\ p.open \in Nat /\ p.streamed \in BOOLEAN
      /\ p.open # None => p.out # <<>> /\ Newest(p.out) = Event("delta", p.open)
      /\ Num(p.out, "started") = Num(p.out, "completed") + (IF p.open = None THEN 0 ELSE 1)
  BY DEF Good, Pumps
<1>2. Event("completed", 0) \in Events /\ \A kind : Num(p.out, kind) \in Nat
  BY <1>1, NumAppend DEF Event, Events, EventKinds
<1>3. CASE p.open = None
  <2>1. q = p
    BY <1>3 DEF Complete
  <2>2. QED
    BY <1>2, <1>3, <2>1 DEF Adds
<1>4. CASE p.open # None
  <2> DEFINE c == Event("completed", p.open)
             o1 == Append(p.out, c)
  <2>1. c \in Events /\ c.kind = "completed" /\ c.id = p.open
    BY <1>1 DEF Event, Events, EventKinds
  <2>2. Newest(p.out).kind = "delta" /\ Newest(p.out).id = p.open /\ p.out # <<>>
    BY <1>1, <1>4 DEF Event
  <2>3. q = [p EXCEPT !.out = o1, !.open = None]
    BY <1>4 DEF Complete
  <2> HIDE DEF c
  <2>4. o1 \in Seq(Events) /\ FramedEvents(o1) /\ o1 # <<>> /\ Newest(o1) = c
    BY <1>1, <2>1, <2>2, FramedAppend DEF Follows
  <2>5. \A kind : Num(o1, kind) = Num(p.out, kind) + (IF "completed" = kind THEN 1 ELSE 0)
    BY <1>1, <2>1, NumAppend
  <2> HIDE DEF o1
  <2>6. /\ q.open = None /\ q.streamed = p.streamed /\ q.next = p.next /\ q.out = o1
        /\ q = [open |-> q.open, streamed |-> q.streamed, next |-> q.next, out |-> q.out]
    BY <1>1, <2>3 DEF Pumps
  <2>7. q \in Pumps
    BY <1>1, <2>4, <2>6 DEF Pumps, None
  <2>8. /\ Num(o1, "started") = Num(p.out, "started") + 0
        /\ Num(o1, "delta") = Num(p.out, "delta") + 0
        /\ Num(o1, "completed") = Num(p.out, "completed") + 1
    BY <1>2, <2>5
  <2>9. Num(o1, "started") = Num(o1, "completed")
    BY <1>1, <1>2, <1>4, <2>8
  <2>10. Num(o1, "completed") \in Nat
    BY <1>2, <2>8
  <2>11. Good(q)
    BY <1>1, <2>1, <2>4, <2>6, <2>7, <2>9, <2>10 DEF Good
  <2>12. QED
    BY <1>4, <2>6, <2>8, <2>11 DEF Adds
<1>5. QED
  BY <1>3, <1>4

\* Streamed is no part of the events.
LEMMA StreamedGood ==
    ASSUME NEW p, Good(p), NEW b \in BOOLEAN, NEW q, q = [p EXCEPT !.streamed = b]
    PROVE  Good(q) /\ q.open = p.open /\ q.streamed = b /\ Adds(p, q, 0, 0, 0)
<1>1. p \in Pumps /\ p.out \in Seq(Events)
  BY DEF Good, Pumps
<1>2. /\ q \in Pumps /\ q.open = p.open /\ q.streamed = b /\ q.next = p.next
      /\ q.out = p.out
  BY <1>1 DEF Pumps
<1>3. Event("completed", 0) \in Events
  BY DEF Event, Events, EventKinds
<1>4. \A kind : Num(p.out, kind) \in Nat
  BY <1>1, <1>3, NumAppend
<1>5. QED
  BY <1>2, <1>4 DEF Good, Adds

LEMMA AddsTrans ==
    ASSUME NEW p, NEW q, NEW r, Good(p), NEW a \in Nat, NEW b \in Nat, NEW c \in Nat,
           NEW x \in Nat, NEW y \in Nat, NEW z \in Nat, Adds(p, q, a, b, c), Adds(q, r, x, y, z)
    PROVE  Adds(p, r, a + x, b + y, c + z)
<1>1. Event("completed", 0) \in Events /\ p.out \in Seq(Events)
  BY DEF Event, Events, EventKinds, Good, Pumps
<1>2. \A kind : Num(p.out, kind) \in Nat
  BY <1>1, NumAppend
<1>3. QED
  BY <1>2 DEF Adds

LEMMA AddsNothing == ASSUME NEW p, Good(p) PROVE Adds(p, p, 0, 0, 0)
<1>1. Event("completed", 0) \in Events /\ p.out \in Seq(Events)
  BY DEF Event, Events, EventKinds, Good, Pumps
<1>2. \A kind : Num(p.out, kind) \in Nat
  BY <1>1, NumAppend
<1>3. QED
  BY <1>2 DEF Adds

\* How a pump's open message and Streamed go together: a whole-line consumer
\* has neither, text has no Streamed, and a stream sets it with the message.
Streaming == profile \notin WholeProfiles \union {"text"}
Mode(p) ==
    /\ profile \in WholeProfiles => p.open = None
    /\ profile = "text" => ~p.streamed
    /\ Streaming /\ p.open # None => p.streamed

\* Until the exit, which completes the message alone, Streamed is not stale.
Fresh(p) == Streaming /\ p.streamed => p.open # None

\* What a line does to the messages, given that a message is open or not: a
\* text starts one unless it is open, an answer to a stream adds nothing, and
\* an end completes what is there.
Delivers(p, q, t) ==
    LET running == p.open # None
        delta   == t.text /\ t.streaming
        answer  == t.text /\ ~t.streaming
    IN  /\ Adds(p, q, IF (delta \/ answer) /\ ~running THEN 1 ELSE 0,
                      IF delta \/ (answer /\ ~running) THEN 1 ELSE 0,
                      IF t.terminal /\ (running \/ delta \/ answer) THEN 1 ELSE 0)
        /\ q.open # None <=> (running \/ delta) /\ ~t.terminal

LEMMA HandleWholeGood ==
    ASSUME NEW p, NEW l, profile \in WholeProfiles, Good(p), Mode(p), NEW q, q = HandleWhole(p, l)
    PROVE  Good(q) /\ Mode(q) /\ Fresh(q) /\ Delivers(p, q, Payload(l))
<1>1. Payload(l) \in {Answer, Part, Silent} /\ p.open = None /\ p.next \in Nat /\ AgentId \in Nat
      /\ profile # "text"
  BY PayloadKinds DEF Mode, WholeProfiles, Texts, Good, Pumps, AgentId
<1>2. CASE Payload(l) = Silent
  <2>1. q = p /\ ~Silent.text /\ ~Silent.terminal
    BY <1>2 DEF HandleWhole, Silent
  <2>2. QED
    BY <1>1, <1>2, <2>1, AddsNothing DEF Delivers, Mode, Fresh, Streaming
<1>3. CASE Payload(l) \in {Answer, Part}
  <2>1. Payload(l).text /\ Payload(l).terminal /\ ~Payload(l).streaming
    BY <1>3 DEF Answer, Part
  <2>2. PICK id \in Nat : q = PublishMessage(p, id)
    BY <1>1, <1>3, <2>1 DEF HandleWhole
  <2>3. Good(q) /\ q.open = None /\ Adds(p, q, 1, 1, 1)
    BY <1>1, <2>2, MessageGood
  <2>4. QED
    BY <1>1, <1>3, <2>1, <2>3 DEF Delivers, Mode, Fresh, Streaming
<1>4. QED
  BY <1>1, <1>2, <1>3

LEMMA HandleTextGood ==
    ASSUME NEW p, NEW l, profile = "text", Good(p), Mode(p), NEW q, q = HandleText(p, l)
    PROVE  Good(q) /\ Mode(q) /\ Fresh(q) /\ Delivers(p, q, Payload(l))
<1>1. /\ Payload(l) \in {Delta, Silent, Prompt} /\ ~p.streamed /\ p.streamed \in BOOLEAN
      /\ profile \notin WholeProfiles
  BY PayloadKinds DEF Mode, WholeProfiles, Texts, Good, Pumps
<1>2. CASE Payload(l) \in {Delta, Prompt}
  <2>1. Payload(l).text /\ Payload(l).streaming
    BY <1>2 DEF Delta, Prompt
  <2>2. PICK d : d = PublishDelta(p)
    OBVIOUS
  <2>3. /\ Good(d) /\ d.open # None
        /\ Adds(p, d, IF p.open = None THEN 1 ELSE 0, 1, 0)
    BY <2>2, DeltaGood
  <2>4. PICK e : e = [d EXCEPT !.streamed = p.streamed]
    OBVIOUS
  <2>5. Good(e) /\ e.open # None /\ ~e.streamed /\ Adds(d, e, 0, 0, 0)
    BY <1>1, <2>3, <2>4, StreamedGood
  <2>6. Adds(p, e, IF p.open = None THEN 1 ELSE 0, 1, 0)
    BY <2>3, <2>5, AddsTrans
  <2>7. CASE ~Payload(l).terminal
    <3>1. q = e
      BY <2>1, <2>2, <2>4, <2>7 DEF HandleText
    <3>2. QED
      BY <1>1, <2>1, <2>5, <2>6, <2>7, <3>1 DEF Delivers, Mode, Fresh, Streaming
  <2>8. CASE Payload(l).terminal
    <3>1. q = Complete(e)
      BY <2>1, <2>2, <2>4, <2>8 DEF HandleText
    <3>2. Good(q) /\ q.open = None /\ ~q.streamed /\ Adds(e, q, 0, 0, 1)
      BY <2>5, <3>1, CompleteGood
    <3>3. Adds(p, q, IF p.open = None THEN 1 ELSE 0, 1, 1)
      BY <2>6, <3>2, AddsTrans
    <3>4. QED
      BY <1>1, <2>1, <2>8, <3>2, <3>3 DEF Delivers, Mode, Fresh, Streaming
  <2>9. QED
    BY <2>7, <2>8
<1>3. CASE Payload(l) = Silent
  <2>1. q = p /\ ~Silent.text /\ ~Silent.terminal
    BY <1>3 DEF HandleText, Silent
  <2>2. QED
    BY <1>1, <1>3, <2>1, AddsNothing DEF Delivers, Mode, Fresh, Streaming
<1>4. QED
  BY <1>1, <1>2, <1>3

LEMMA HandleStreamedGood ==
    ASSUME NEW p, NEW l, profile \in DOMAIN Texts, Streaming, Good(p), Mode(p),
           NEW q, q = HandleStreamed(p, l)
    PROVE  /\ Good(q) /\ Mode(q)
           /\ Fresh(p) => Fresh(q) /\ Delivers(p, q, Payload(l))
<1>1. /\ Payload(l) \in {Answer, Part, Delta, End, Silent}
      /\ profile # "text" /\ profile \notin WholeProfiles
      /\ p.streamed \in BOOLEAN /\ p.next \in Nat
  BY PayloadKinds DEF Streaming, Good, Pumps
<1>2. CASE Payload(l) = Delta
  <2>1. Delta.text /\ Delta.streaming /\ ~Delta.terminal
    BY DEF Delta
  <2>2. q = PublishDelta(p)
    BY <1>2, <2>1 DEF HandleStreamed
  <2>3. /\ Good(q) /\ q.open # None /\ q.streamed
        /\ Adds(p, q, IF p.open = None THEN 1 ELSE 0, 1, 0)
    BY <2>2, DeltaGood
  <2>4. QED
    BY <1>1, <1>2, <2>1, <2>3 DEF Delivers, Mode, Fresh
<1>3. CASE Payload(l) \in {Answer, Part} /\ ~p.streamed
  <2>1. Payload(l).text /\ ~Payload(l).streaming /\ Payload(l).terminal
    BY <1>3 DEF Answer, Part
  <2>2. p.open = None
    BY <1>1, <1>3 DEF Mode
  <2>3. PICK m : m = PublishMessage(p, p.next)
    OBVIOUS
  <2>4. Good(m) /\ m.open = None /\ m.streamed = p.streamed /\ Adds(p, m, 1, 1, 1)
    BY <1>1, <2>2, <2>3, MessageGood
  <2>5. q = m
    BY <1>3, <2>1, <2>3, <2>4 DEF HandleStreamed
  <2>6. QED
    BY <1>1, <1>3, <2>1, <2>2, <2>4, <2>5 DEF Delivers, Mode, Fresh
<1>4. CASE Payload(l) = End \/ (Payload(l) \in {Answer, Part} /\ p.streamed)
  <2>1. Payload(l).terminal /\ ~Payload(l).streaming /\ (Payload(l).text => p.streamed)
    BY <1>4 DEF Answer, Part, End
  <2>2. CASE p.open = None
    <3>1. q = p
      BY <2>1, <2>2 DEF HandleStreamed
    <3>2. Fresh(p) => ~Payload(l).text
      BY <2>1, <2>2 DEF Fresh
    <3>3. Adds(p, p, 0, 0, 0)
      BY AddsNothing
    <3>4. QED
      BY <1>1, <2>1, <2>2, <3>1, <3>2, <3>3 DEF Delivers
  <2>3. CASE p.open # None
    <3>1. PICK c : c = Complete(p)
      OBVIOUS
    <3>2. Good(c) /\ c.open = None /\ Adds(p, c, 0, 0, 1)
      BY <2>3, <3>1, CompleteGood
    <3>3. q = [c EXCEPT !.streamed = FALSE]
      BY <2>1, <2>3, <3>1 DEF HandleStreamed
    <3>4. Good(q) /\ q.open = None /\ q.streamed = FALSE /\ Adds(c, q, 0, 0, 0)
      BY <3>2, <3>3, StreamedGood
    <3>5. Adds(p, q, 0, 0, 1)
      BY <3>2, <3>4, AddsTrans
    <3>6. QED
      BY <1>1, <2>1, <2>3, <3>4, <3>5 DEF Delivers, Mode, Fresh
  <2>4. QED
    BY <2>2, <2>3
<1>5. CASE Payload(l) = Silent
  <2>1. q = p /\ ~Silent.text /\ ~Silent.terminal
    BY <1>5 DEF HandleStreamed, Silent
  <2>2. QED
    BY <1>1, <1>5, <2>1, AddsNothing DEF Delivers, Mode, Fresh
<1>6. QED
  BY <1>1, <1>2, <1>3, <1>4, <1>5

\* The consumer of any profile.
LEMMA HandleGood ==
    ASSUME NEW p, NEW l, profile \in DOMAIN Texts, Good(p), Mode(p), NEW q, q = Handle(p, l)
    PROVE  /\ Good(q) /\ Mode(q)
           /\ Fresh(p) => Fresh(q) /\ Delivers(p, q, Payload(l))
<1>1. CASE profile = "text"
  <2>1. q = HandleText(p, l)
    BY <1>1 DEF Handle
  <2>2. QED
    BY <1>1, <2>1, HandleTextGood
<1>2. CASE profile \in WholeProfiles
  <2>1. q = HandleWhole(p, l)
    BY <1>2 DEF Handle, WholeProfiles
  <2>2. QED
    BY <1>2, <2>1, HandleWholeGood
<1>3. CASE Streaming
  <2>1. q = HandleStreamed(p, l)
    BY <1>3 DEF Handle, Streaming
  <2>2. QED
    BY <1>3, <2>1, HandleStreamedGood
<1>4. QED
  BY <1>1, <1>2, <1>3 DEF Streaming

-----------------------------------------------------------------------------
(* The messages of a session.                                              *)

PumpInv ==
    /\ profile \in Profiles
    /\ exit \in {"none", "lines", "taken"}
    /\ Good(Pump) /\ Mode(Pump)
    /\ exit # "taken" => Fresh(Pump)

LEMMA PumpInit == Init => PumpInv
<1> SUFFICES ASSUME Init PROVE PumpInv
  OBVIOUS
<1>1. /\ profile \in Profiles /\ exit = "none"
      /\ Pump = [open |-> 0, streamed |-> FALSE, next |-> 2, out |-> <<>>]
  <2>1. /\ profile \in Profiles /\ exit = "none" /\ open = None /\ streamed = FALSE
        /\ nextId = AgentId + 1 /\ published = <<>>
    BY DEF Init
  <2>2. open = 0 /\ nextId = 2
    BY <2>1 DEF None, AgentId
  <2>3. Pump = [open |-> 0, streamed |-> FALSE, next |-> 2, out |-> <<>>]
    BY <2>1, <2>2, Zenon DEF Pump
  <2>4. QED
    BY <2>1, <2>3
<1>2. <<>> \in Seq(Events) /\ FramedEvents(<<>>)
  BY DEF FramedEvents
<1>3. Pump \in Pumps
  BY <1>1, <1>2 DEF Pumps
<1>4. Num(<<>>, "started") = 0 /\ Num(<<>>, "completed") = 0
  <2>1. ASSUME NEW kind PROVE Num(<<>>, kind) = 0
    <3>1. Of(<<>>, kind) = {}
      BY DEF Of
    <3>2. QED
      BY <3>1, FS_EmptySet DEF Num
  <2>2. QED
    BY <2>1
<1>5. Good(Pump)
  BY <1>1, <1>2, <1>3, <1>4 DEF Good, None, AgentId
<1>6. QED
  BY <1>1, <1>5 DEF PumpInv, Mode, Fresh, None

\* The state after a publication is the pump that was published.
LEMMA PumpPublished ==
    ASSUME NEW q \in Pumps, Publish(q)
    PROVE  Pump' = q
<1>1. q = [open |-> q.open, streamed |-> q.streamed, next |-> q.next, out |-> q.out]
  BY DEF Pumps
<1>2. QED
  BY <1>1 DEF Publish, Pump

\* Whatever the line, the consumer leaves a good pump.
LEMMA PumpTakes ==
    ASSUME PumpInv, NEW l, Take(l), profile' = profile, exit' = exit
    PROVE  PumpInv' /\ (exit # "taken" => Delivers(Pump, Pump', Payload(l)))
<1>1. PICK q : q = Handle(Pump, l)
  OBVIOUS
<1>2. PICK p : p = Pump
  OBVIOUS
<1>3. profile \in DOMAIN Texts /\ profile \in Profiles /\ exit \in {"none", "lines", "taken"}
  BY ProfilesAssumption DEF PumpInv
<1>4. Good(p) /\ Mode(p) /\ (exit # "taken" => Fresh(p)) /\ q = Handle(p, l)
  BY <1>1, <1>2 DEF PumpInv
<1>5. Good(q) /\ Mode(q) /\ (exit # "taken" => Fresh(q) /\ Delivers(p, q, Payload(l)))
  BY <1>3, <1>4, HandleGood
<1>6. q \in Pumps /\ Publish(q)
  BY <1>1, <1>5 DEF Take, Good
<1>7. Pump' = q
  BY <1>6, PumpPublished
<1>8. Good(Pump') /\ (exit # "taken" => Delivers(Pump, Pump', Payload(l)))
  BY <1>2, <1>5, <1>7
<1>9. Mode(Pump)' /\ (exit' # "taken" => Fresh(Pump)')
  BY <1>5, <1>7 DEF Mode, Fresh, Streaming
<1>10. QED
  BY <1>3, <1>8, <1>9 DEF PumpInv

LEMMA PumpStays ==
    ASSUME PumpInv,
           UNCHANGED <<profile, open, streamed, nextId, published>>,
           exit' \in {"none", "lines", "taken"}, exit' # "taken" => exit # "taken"
    PROVE  PumpInv'
<1>1. Pump' = Pump
  BY DEF Pump
<1>2. Good(Pump')
  BY <1>1 DEF PumpInv
<1>3. Mode(Pump)' /\ (exit' # "taken" => Fresh(Pump)')
  BY <1>1 DEF PumpInv, Mode, Fresh, Streaming
<1>4. QED
  BY <1>2, <1>3 DEF PumpInv

LEMMA PumpStep == PumpInv /\ [Next]_vars => PumpInv'
<1> SUFFICES ASSUME PumpInv, [Next]_vars PROVE PumpInv'
  OBVIOUS
<1> exit \in {"none", "lines", "taken"}
  BY DEF PumpInv
<1>1. CASE \E s \in Streams : OutputLines(s)
  BY <1>1, PumpStays DEF OutputLines
<1>2. CASE HandleLine
  BY <1>2, PumpTakes DEF HandleLine
<1>3. CASE OutputText
  BY <1>3, PumpTakes DEF OutputText
<1>4. CASE Exit
  BY <1>4, PumpStays DEF Exit
<1>5. CASE CompleteAtExit
  <2>1. PICK p : p = Pump
    OBVIOUS
  <2>2. PICK q : q = Complete(p)
    OBVIOUS
  <2>3. Good(p) /\ Mode(p)
    BY <2>1 DEF PumpInv
  <2>4. Good(q) /\ q.open = None /\ q.streamed = p.streamed
    BY <2>2, <2>3, CompleteGood
  <2>5. Publish(q) /\ q \in Pumps /\ profile' = profile /\ exit' = "taken"
    BY <1>5, <2>1, <2>2, <2>4 DEF CompleteAtExit, Good
  <2>6. Pump' = q
    BY <2>5, PumpPublished
  <2>7. Good(Pump')
    BY <2>4, <2>6
  <2>8. Mode(Pump)'
    BY <2>3, <2>4, <2>5, <2>6 DEF Mode, Streaming
  <2>9. QED
    BY <2>5, <2>7, <2>8 DEF PumpInv
<1>6. CASE UNCHANGED vars
  BY <1>6, PumpStays DEF vars
<1>7. QED
  BY <1>1, <1>2, <1>3, <1>4, <1>5, <1>6 DEF Next

LEMMA PumpAlways == Spec => []PumpInv
BY PumpInit, PumpStep, PTL DEF Spec

\* A client can follow every message: its events carry its id, in order, and no
\* other message begins before it is completed, whatever the agent writes, also
\* after its exit.
THEOREM MessagesAlwaysFramed == Spec => []Framed
<1>1. PumpInv => Framed
  BY DEF PumpInv, Good, Pump, Framed
<1>2. QED
  BY <1>1, PumpAlways, PTL


-----------------------------------------------------------------------------
(* The output, as sequences of pieces.                                     *)

Names == UNION {DOMAIN Texts[pr] : pr \in DOMAIN Texts}
Pieces == {Newline} \union (Names \X {1, 2})

LEMMA LinePieces ==
    ASSUME NEW type \in Names
    PROVE  Whole(type) \in Seq(Pieces) /\ LineOf(type) \in Seq(Pieces)
<1>1. <<type, 1>> \in Pieces /\ <<type, 2>> \in Pieces /\ Newline \in Pieces
  BY DEF Pieces
<1> HIDE DEF Pieces
<1>2. Whole(type) \in Seq(Pieces)
  BY <1>1 DEF Whole
<1>3. QED
  BY <1>1, <1>2 DEF LineOf

\* Concatenation, and the two parts of a sequence, by their elements.
Joined(u, s, t) ==
    /\ Len(u) = Len(s) + Len(t)
    /\ \A i \in 1..Len(s) : u[i] = s[i]
    /\ \A i \in 1..Len(t) : u[Len(s) + i] = t[i]

LEMMA JoinOf ==
    ASSUME NEW S, NEW s \in Seq(S), NEW t \in Seq(S), NEW u, u = s \o t
    PROVE  u \in Seq(S) /\ Joined(u, s, t)
<1>1. u \in Seq(S) /\ Len(u) = Len(s) + Len(t)
  OBVIOUS
<1>2. \A i \in 1..Len(s) : u[i] = s[i]
  OBVIOUS
<1>3. \A i \in 1..Len(t) : u[Len(s) + i] = t[i]
  OBVIOUS
<1>4. QED
  BY <1>1, <1>2, <1>3 DEF Joined

\* v is what s holds at n places after a.
Cut(v, s, a, n) == Len(v) = n /\ \A i \in 1..n : v[i] = s[a + i]

LEMMA PartOf ==
    ASSUME NEW S, NEW s \in Seq(S), NEW a \in Nat, NEW b \in Nat, a <= b, b <= Len(s),
           NEW v, v = SubSeq(s, a + 1, b)
    PROVE  v \in Seq(S) /\ Cut(v, s, a, b - a)
<1>1. \A i \in (a + 1)..b : s[i] \in S
  OBVIOUS
<1>2. v \in Seq(S)
  BY <1>1, SubSeqProperties
<1>3. Len(v) = b - a
  BY <1>1, SubSeqProperties
<1>4. \A i \in 1..(b - a) : v[i] = s[a + i]
  BY <1>1, SubSeqProperties
<1>5. QED
  BY <1>2, <1>3, <1>4 DEF Cut

\* A sequence is known by what it cuts, wherever that is found.
Same(s, a, t, c, n) == \A i \in 1..n : s[a + i] = t[c + i]

LEMMA CutEqual ==
    ASSUME NEW S, NEW v \in Seq(S), NEW w \in Seq(S), NEW s, NEW t, NEW a, NEW c, NEW n,
           Cut(v, s, a, n), Cut(w, t, c, n), Same(s, a, t, c, n)
    PROVE  v = w
<1>1. Len(v) = n /\ Len(w) = n
  BY DEF Cut
<1>2. \A i \in 1..n : v[i] = s[a + i] /\ w[i] = t[c + i] /\ s[a + i] = t[c + i]
  BY DEF Cut, Same
<1>3. \A i \in 1..Len(v) : v[i] = w[i]
  BY <1>1, <1>2
<1>4. QED
  BY <1>1, <1>3, SeqEqual

\* A part of what is extended, inside it and from a place in it to the end.
LEMMA PartJoin ==
    ASSUME NEW S, NEW s \in Seq(S), NEW a \in Nat, NEW b \in Nat, a <= b, b <= Len(s),
           NEW u \in Seq(S), b <= Len(u), \A i \in 1..b : u[i] = s[i]
    PROVE  SubSeq(u, a + 1, b) = SubSeq(s, a + 1, b)
<1>1. PICK v : v = SubSeq(u, a + 1, b)
  OBVIOUS
<1>2. PICK w : w = SubSeq(s, a + 1, b)
  OBVIOUS
<1>3. v \in Seq(S) /\ Cut(v, u, a, b - a)
  BY <1>1, PartOf
<1>4. w \in Seq(S) /\ Cut(w, s, a, b - a)
  BY <1>2, PartOf
<1>5. \A i \in 1..(b - a) : a + i \in 1..b
  OBVIOUS
<1>6. Same(u, a, s, a, b - a)
  BY <1>5 DEF Same
<1>7. v = w
  BY <1>3, <1>4, <1>6, CutEqual
<1>8. QED
  BY <1>1, <1>2, <1>7

LEMMA RestJoin ==
    ASSUME NEW S, NEW s \in Seq(S), NEW t \in Seq(S), NEW a \in Nat, a <= Len(s),
           NEW u \in Seq(S), Joined(u, s, t)
    PROVE  SubSeq(u, a + 1, Len(u)) = SubSeq(s, a + 1, Len(s)) \o t
<1>1. Len(u) = Len(s) + Len(t) /\ Len(s) \in Nat /\ Len(t) \in Nat
  BY DEF Joined
<1>2. PICK m \in Nat : m = Len(s)
  BY <1>1
<1>3. PICK n \in Nat : n = Len(u)
  BY <1>1
<1>4. a <= m /\ a <= n /\ m <= Len(s) /\ n <= Len(u) /\ n = m + Len(t)
  BY <1>1, <1>2, <1>3
<1>5. PICK v : v = SubSeq(u, a + 1, n)
  OBVIOUS
<1>6. PICK w : w = SubSeq(s, a + 1, m)
  OBVIOUS
<1>7. PICK x : x = w \o t
  OBVIOUS
<1>8. v \in Seq(S) /\ Cut(v, u, a, n - a)
  BY <1>4, <1>5, PartOf
<1>9. w \in Seq(S) /\ Cut(w, s, a, m - a)
  BY <1>4, <1>6, PartOf
<1>10. x \in Seq(S) /\ Joined(x, w, t)
  BY <1>7, <1>9, JoinOf
<1>11. Len(v) = n - a /\ Len(w) = m - a /\ Len(x) = n - a
  BY <1>1, <1>4, <1>8, <1>9, <1>10 DEF Cut, Joined
<1>12. ASSUME NEW i \in 1..(n - a) PROVE v[i] = x[i]
  <2>1. v[i] = u[a + i]
    BY <1>8 DEF Cut
  <2>2. CASE i <= m - a
    <3>1. i \in 1..(m - a) /\ i \in 1..Len(w) /\ a + i \in 1..Len(s)
      BY <1>2, <1>11, <2>2
    <3>2. x[i] = w[i]
      BY <1>10, <3>1 DEF Joined
    <3>3. w[i] = s[a + i]
      BY <1>9, <3>1 DEF Cut
    <3>4. u[a + i] = s[a + i]
      BY <3>1 DEF Joined
    <3>5. QED
      BY <2>1, <3>2, <3>3, <3>4
  <2>3. CASE i > m - a
    <3>1. PICK j : j = i - (m - a)
      OBVIOUS
    <3>2. j \in 1..Len(t) /\ i = Len(w) + j /\ a + i = Len(s) + j
      BY <1>1, <1>2, <1>4, <1>11, <2>3, <3>1
    <3>3. x[i] = t[j]
      BY <1>10, <3>2 DEF Joined
    <3>4. u[a + i] = t[j]
      BY <3>2 DEF Joined
    <3>5. QED
      BY <2>1, <3>3, <3>4
  <2>4. QED
    BY <1>4, <2>2, <2>3
<1>13. v = x
  BY <1>8, <1>10, <1>11, <1>12, SeqEqual
<1>14. QED
  BY <1>2, <1>3, <1>5, <1>6, <1>7, <1>13

\* The parts of a rest.
LEMMA PartOfRest ==
    ASSUME NEW S, NEW s \in Seq(S), NEW a \in Nat, a <= Len(s),
           NEW r, r = SubSeq(s, a + 1, Len(s)), NEW e \in 1..(Len(s) - a)
    PROVE  /\ SubSeq(r, e + 1, Len(r)) = SubSeq(s, (a + e) + 1, Len(s))
           /\ SubSeq(r, 1, e - 1) = SubSeq(s, a + 1, (a + e) - 1)
<1>1. PICK n \in Nat : n = Len(s)
  OBVIOUS
<1>2. e \in Nat /\ e - 1 \in Nat /\ a <= n /\ n <= Len(s)
  BY <1>1
<1>3. r \in Seq(S) /\ Cut(r, s, a, n - a)
  BY <1>1, <1>2, PartOf
<1>4. Len(r) = n - a /\ \A i \in 1..(n - a) : r[i] = s[a + i]
  BY <1>3 DEF Cut
<1>5. SubSeq(r, e + 1, Len(r)) = SubSeq(s, (a + e) + 1, n)
  <2>1. PICK m \in Nat : m = n - a
    BY <1>2
  <2>2. PICK c \in Nat : c = a + e
    BY <1>2
  <2>3. e <= m /\ m <= Len(r) /\ c <= n
    BY <1>1, <1>2, <1>4, <2>1, <2>2
  <2>4. PICK v : v = SubSeq(r, e + 1, m)
    OBVIOUS
  <2>5. PICK w : w = SubSeq(s, c + 1, n)
    OBVIOUS
  <2>6. v \in Seq(S) /\ Cut(v, r, e, m - e)
    BY <1>2, <1>3, <2>3, <2>4, PartOf
  <2>7. w \in Seq(S) /\ Cut(w, s, c, n - c)
    BY <1>2, <2>3, <2>5, PartOf
  <2>8. ASSUME NEW i \in 1..(m - e) PROVE r[e + i] = s[c + i]
    <3>1. e + i \in 1..(n - a) /\ a + (e + i) = c + i
      BY <1>2, <2>1, <2>2
    <3>2. QED
      BY <1>4, <3>1
  <2>9. n - c = m - e
    BY <1>2, <2>1, <2>2
  <2>10. Cut(w, s, c, m - e) /\ Same(r, e, s, c, m - e)
    BY <2>7, <2>8, <2>9 DEF Same
  <2>11. v = w
    BY <2>6, <2>7, <2>10, CutEqual
  <2>12. QED
    BY <1>4, <2>1, <2>2, <2>4, <2>5, <2>11
<1>6. SubSeq(r, 1, e - 1) = SubSeq(s, a + 1, (a + e) - 1)
  <2>1. PICK m \in Nat : m = e - 1
    BY <1>2
  <2>2. PICK c \in Nat : c = (a + e) - 1
    BY <1>2
  <2>3. m <= Len(r) /\ 0 <= m /\ a <= c /\ c <= Len(s) /\ 0 \in Nat
    BY <1>1, <1>2, <1>4, <2>1, <2>2
  <2>4. PICK v : v = SubSeq(r, 0 + 1, m)
    OBVIOUS
  <2>5. PICK w : w = SubSeq(s, a + 1, c)
    OBVIOUS
  <2>6. v \in Seq(S) /\ Cut(v, r, 0, m - 0)
    BY <1>3, <2>3, <2>4, PartOf
  <2>7. w \in Seq(S) /\ Cut(w, s, a, c - a)
    BY <2>3, <2>5, PartOf
  <2>8. ASSUME NEW i \in 1..(m - 0) PROVE r[0 + i] = s[a + i]
    <3>1. i \in 1..(n - a) /\ 0 + i = i
      BY <1>1, <1>2, <2>1
    <3>2. QED
      BY <1>4, <3>1
  <2>9. c - a = m - 0
    BY <1>2, <2>1, <2>2
  <2>10. Cut(w, s, a, m - 0) /\ Same(r, 0, s, a, m - 0)
    BY <2>7, <2>8, <2>9 DEF Same
  <2>11. v = w
    BY <2>6, <2>7, <2>10, CutEqual
  <2>12. QED
    BY <2>1, <2>2, <2>4, <2>5, <2>11
<1>7. QED
  BY <1>1, <1>5, <1>6

SeqInv ==
    /\ pending \in [Streams -> Seq(Pieces)]
    /\ arrived \in Seq(Pieces)
    /\ buffer \in Seq(Pieces)
    /\ handled \in Seq(Seq(Pieces))

LEMMA NameOf ==
    ASSUME PumpInv, NEW type, type \in DOMAIN Texts[profile] \/ (profile = "text" /\ type \in Chunks)
    PROVE  type \in Names
<1>1. profile \in DOMAIN Texts
  BY ProfilesAssumption DEF PumpInv
<1>2. DOMAIN Texts["text"] = Chunks
  BY DEF Texts, TextChunks
<1>3. QED
  BY <1>1, <1>2 DEF Names

\* Output adds the same pieces to the buffer and to the history.
LEMMA OutputData ==
    ASSUME PumpInv, SeqInv, NEW s \in Streams, OutputLines(s)
    PROVE  /\ pending' \in [Streams -> Seq(Pieces)]
           /\ \E data \in Seq(Pieces) : buffer' = buffer \o data /\ arrived' = arrived \o data
<1>1. PICK more \in {<<>>} \union {LineOf(type) : type \in DOMAIN Texts[profile]} :
        \E n \in (IF more = <<>> THEN 1 ELSE Len(pending[s]) + 1)..Len(pending[s] \o more) :
          LET text == pending[s] \o more
              data == SubSeq(text, 1, n)
          IN  /\ pending' = [pending EXCEPT ![s] = SubSeq(text, n + 1, Len(text))]
              /\ buffer' = Buffer(data)
              /\ arrived' = arrived \o data
  BY DEF OutputLines
<1>2. more \in Seq(Pieces)
  <2>1. CASE more = <<>>
    BY <2>1
  <2>2. CASE more # <<>>
    <3>1. PICK type \in DOMAIN Texts[profile] : more = LineOf(type)
      BY <1>1, <2>2
    <3>2. QED
      BY <3>1, NameOf, LinePieces
  <2>3. QED
    BY <2>1, <2>2
<1>3. PICK text : text = pending[s] \o more
  OBVIOUS
<1>4. pending[s] \in Seq(Pieces) /\ text \in Seq(Pieces) /\ Len(pending[s]) \in Nat
  BY <1>2, <1>3 DEF SeqInv
<1>5. PICK n \in (IF more = <<>> THEN 1 ELSE Len(pending[s]) + 1)..Len(text) :
        /\ pending' = [pending EXCEPT ![s] = SubSeq(text, n + 1, Len(text))]
        /\ buffer' = Buffer(SubSeq(text, 1, n))
        /\ arrived' = arrived \o SubSeq(text, 1, n)
  BY <1>1, <1>3
<1>6. n \in Nat /\ n <= Len(text) /\ Len(text) \in Nat
  BY <1>4, <1>5
<1>7. SubSeq(text, 0 + 1, n) \in Seq(Pieces) /\ SubSeq(text, n + 1, Len(text)) \in Seq(Pieces)
  BY <1>4, <1>6, PartOf
<1>8. SubSeq(text, 1, n) \in Seq(Pieces)
  BY <1>7
<1>9. pending' \in [Streams -> Seq(Pieces)]
  BY <1>5, <1>7 DEF SeqInv
<1>10. QED
  BY <1>5, <1>8, <1>9 DEF Buffer

\* A line is a part of the buffer, and the rest of it stays.
LEMMA HandledLine ==
    ASSUME SeqInv, HandleLine
    PROVE  \E end \in Ends(buffer) :
             /\ \A i \in Ends(buffer) : end <= i
             /\ end \in 1..Len(buffer)
             /\ SubSeq(buffer, 1, end - 1) \in Seq(Pieces)
             /\ SubSeq(buffer, end + 1, Len(buffer)) \in Seq(Pieces)
             /\ Take(SubSeq(buffer, 1, end - 1))
             /\ buffer' = SubSeq(buffer, end + 1, Len(buffer))
<1>1. PICK end \in Ends(buffer) :
        /\ \A i \in Ends(buffer) : end <= i
        /\ Take(SubSeq(buffer, 1, end - 1))
        /\ buffer' = SubSeq(buffer, end + 1, Len(buffer))
  BY DEF HandleLine
<1>2. buffer \in Seq(Pieces) /\ Len(buffer) \in Nat /\ end \in 1..Len(buffer)
  BY DEF SeqInv, Ends
<1>3. SubSeq(buffer, 0 + 1, end - 1) \in Seq(Pieces)
      /\ SubSeq(buffer, end + 1, Len(buffer)) \in Seq(Pieces)
  <2>1. end \in Nat /\ end - 1 \in Nat /\ 0 <= end - 1 /\ end - 1 <= Len(buffer)
        /\ end <= Len(buffer) /\ Len(buffer) <= Len(buffer)
    BY <1>2
  <2>2. SubSeq(buffer, 0 + 1, end - 1) \in Seq(Pieces)
    BY <1>2, <2>1, PartOf
  <2>3. SubSeq(buffer, end + 1, Len(buffer)) \in Seq(Pieces)
    BY <1>2, <2>1, PartOf
  <2>4. QED
    BY <2>2, <2>3
<1>4. SubSeq(buffer, 1, end - 1) \in Seq(Pieces)
  BY <1>3
<1>5. QED
  BY <1>1, <1>2, <1>3, <1>4

\* The exit ends a line that has no end.
LEMMA ExitData ==
    ASSUME SeqInv, Exit
    PROVE  \E data \in Seq(Pieces) :
             /\ buffer' = buffer \o data /\ arrived' = arrived \o data
             /\ data = IF buffer = <<>> THEN <<>> ELSE <<Newline>>
<1>1. <<Newline>> \in Seq(Pieces) /\ <<>> \in Seq(Pieces)
  <2>1. Newline \in Pieces
    BY DEF Pieces
  <2>2. QED
    BY <2>1
<1>2. QED
  BY <1>1 DEF Exit

LEMMA SeqInit == Init => SeqInv
<1>1. <<>> \in Seq(Pieces) /\ <<>> \in Seq(Seq(Pieces))
  OBVIOUS
<1>2. QED
  BY <1>1 DEF Init, SeqInv

LEMMA SeqStep == PumpInv /\ SeqInv /\ [Next]_vars => SeqInv'
<1> SUFFICES ASSUME PumpInv, SeqInv, [Next]_vars PROVE SeqInv'
  OBVIOUS
<1> /\ pending \in [Streams -> Seq(Pieces)] /\ arrived \in Seq(Pieces)
    /\ buffer \in Seq(Pieces) /\ handled \in Seq(Seq(Pieces))
  BY DEF SeqInv
<1>1. CASE \E s \in Streams : OutputLines(s)
  <2>1. PICK s \in Streams : OutputLines(s)
    BY <1>1
  <2>2. pending' \in [Streams -> Seq(Pieces)] /\ handled' = handled
    BY <2>1, OutputData DEF OutputLines
  <2>3. PICK data \in Seq(Pieces) : buffer' = buffer \o data /\ arrived' = arrived \o data
    BY <2>1, OutputData
  <2>4. QED
    BY <2>2, <2>3 DEF SeqInv
<1>2. CASE HandleLine
  <2>1. PICK end \in Ends(buffer) :
          /\ SubSeq(buffer, 1, end - 1) \in Seq(Pieces)
          /\ SubSeq(buffer, end + 1, Len(buffer)) \in Seq(Pieces)
          /\ Take(SubSeq(buffer, 1, end - 1))
          /\ buffer' = SubSeq(buffer, end + 1, Len(buffer))
    BY <1>2, HandledLine
  <2>2. handled' \in Seq(Seq(Pieces))
    BY <2>1 DEF Take
  <2>3. pending' = pending /\ arrived' = arrived
    BY <1>2 DEF HandleLine
  <2>4. QED
    BY <2>1, <2>2, <2>3 DEF SeqInv
<1>3. CASE OutputText
  <2>1. PICK type \in Chunks : handled' = Append(handled, Whole(type))
    BY <1>3 DEF OutputText, Take
  <2>2. Whole(type) \in Seq(Pieces) /\ profile = "text"
    BY <1>3, NameOf, LinePieces DEF OutputText
  <2>3. handled' \in Seq(Seq(Pieces))
    BY <2>1, <2>2
  <2>4. QED
    BY <1>3, <2>3 DEF OutputText, SeqInv
<1>4. CASE Exit
  <2>1. PICK data \in Seq(Pieces) : buffer' = buffer \o data /\ arrived' = arrived \o data
    BY <1>4, ExitData
  <2>2. QED
    BY <1>4, <2>1 DEF Exit, SeqInv
<1>5. CASE CompleteAtExit
  BY <1>5 DEF CompleteAtExit, SeqInv
<1>6. CASE UNCHANGED vars
  BY <1>6 DEF vars, SeqInv
<1>7. QED
  BY <1>1, <1>2, <1>3, <1>4, <1>5, <1>6 DEF Next

-----------------------------------------------------------------------------
(* The exit.                                                               *)

\* The exit ends the last line, so that its lines leave nothing over.
ExitInv ==
    /\ profile = "text" => buffer = <<>>
    /\ exit = "lines" => buffer = <<>> \/ buffer[Len(buffer)] = Newline
    /\ exit = "taken" /\ ~late => open = None /\ buffer = <<>>

LEMMA ExitInit == Init => ExitInv
BY DEF Init, ExitInv

LEMMA ExitStep == PumpInv /\ SeqInv /\ ExitInv /\ [Next]_vars => ExitInv'
<1> SUFFICES ASSUME PumpInv, SeqInv, ExitInv, [Next]_vars PROVE ExitInv'
  OBVIOUS
<1> buffer \in Seq(Pieces) /\ Len(buffer) \in Nat
  BY DEF SeqInv
<1>1. CASE \E s \in Streams : OutputLines(s)
  BY <1>1 DEF OutputLines, Ready, ExitInv
<1>2. CASE HandleLine
  <2>1. PICK end \in 1..Len(buffer) : buffer' = SubSeq(buffer, end + 1, Len(buffer))
    BY <1>2, HandledLine
  <2>2. buffer # <<>> /\ profile # "text"
    BY <2>1 DEF ExitInv
  <2>3. PICK b : b = SubSeq(buffer, end + 1, Len(buffer))
    OBVIOUS
  <2>4. /\ b \in Seq(Pieces) /\ Len(b) = Len(buffer) - end
        /\ \A i \in 1..(Len(buffer) - end) : b[i] = buffer[end + i]
    BY <2>1, <2>3, PartOf DEF Cut
  <2>5. ASSUME b # <<>> PROVE b[Len(b)] = buffer[Len(buffer)]
    BY <2>1, <2>4, <2>5
  <2>6. exit = "lines" => b = <<>> \/ b[Len(b)] = Newline
    BY <2>2, <2>5 DEF ExitInv
  <2>7. buffer' = b /\ profile' = profile /\ exit' = exit /\ late' = late
    BY <1>2, <2>1, <2>3 DEF HandleLine
  <2>8. QED
    BY <2>2, <2>6, <2>7 DEF ExitInv
<1>3. CASE OutputText
  BY <1>3 DEF OutputText, Ready, ExitInv
<1>4. CASE Exit
  <2>1. PICK data \in Seq(Pieces) :
          buffer' = buffer \o data /\ data = IF buffer = <<>> THEN <<>> ELSE <<Newline>>
    BY <1>4, ExitData
  <2>2. buffer = <<>> => buffer' = <<>>
    BY <2>1
  <2>3. ASSUME buffer # <<>> PROVE buffer'[Len(buffer')] = Newline
    <3>1. data = <<Newline>> /\ Len(data) = 1 /\ data[1] = Newline
      BY <2>1, <2>3
    <3>2. Joined(buffer', buffer, data)
      BY <2>1, JoinOf
    <3>3. Len(buffer') = Len(buffer) + 1 /\ buffer'[Len(buffer) + 1] = data[1]
      BY <3>1, <3>2 DEF Joined
    <3>4. QED
      BY <3>1, <3>3
  <2>4. profile' = profile /\ exit' = "lines"
    BY <1>4 DEF Exit
  <2>5. QED
    BY <2>2, <2>3, <2>4 DEF ExitInv
<1>5. CASE CompleteAtExit
  <2>1. /\ exit = "lines" /\ Ends(buffer) = {} /\ exit' = "taken" /\ profile' = profile
        /\ buffer' = buffer /\ open' = Complete(Pump).open
    BY <1>5 DEF CompleteAtExit, Publish
  <2>2. buffer = <<>>
    <3>1. ASSUME buffer # <<>> PROVE FALSE
      <4>1. Len(buffer) \in DOMAIN buffer /\ buffer[Len(buffer)] = Newline
        BY <2>1, <3>1 DEF ExitInv
      <4>2. QED
        BY <2>1, <4>1 DEF Ends
    <3>2. QED
      BY <3>1
  <2>3. open' = None
    <3>1. PICK p : p = Pump
      OBVIOUS
    <3>2. PICK q : q = Complete(p)
      OBVIOUS
    <3>3. q.open = None
      BY <3>1, <3>2, CompleteGood DEF PumpInv
    <3>4. QED
      BY <2>1, <3>1, <3>2, <3>3
  <2>4. QED
    BY <2>1, <2>2, <2>3 DEF ExitInv
<1>6. CASE UNCHANGED vars
  BY <1>6 DEF vars, ExitInv
<1>7. QED
  BY <1>1, <1>2, <1>3, <1>4, <1>5, <1>6 DEF Next

\* Once the exit is taken, no message is open and no line is left, and every
\* message that was started is completed, unless output came after the exit.
THEOREM ExitAlwaysCompletes == Spec => []ExitCompletes
<1>1. PumpInv /\ ExitInv => ExitCompletes
  <2> SUFFICES ASSUME PumpInv, ExitInv, exit = "taken", ~late
               PROVE  open = None /\ buffer = <<>> /\ Count("started") = Count("completed")
    BY DEF ExitCompletes
  <2>1. open = None /\ buffer = <<>>
    BY DEF ExitInv
  <2>2. Num(published, "started") = Num(published, "completed") + 0
        /\ published \in Seq(Events)
    BY <2>1 DEF PumpInv, Good, Pump, Pumps
  <2>3. Event("completed", 0) \in Events
    BY DEF Event, Events, EventKinds
  <2>4. Num(published, "completed") \in Nat
    BY <2>2, <2>3, NumAppend
  <2>5. \A kind : Count(kind) = Num(published, kind)
    BY DEF Count, Num, Of
  <2>6. QED
    BY <2>1, <2>2, <2>4, <2>5
<1>2. PumpInv /\ SeqInv /\ ExitInv /\ [Next]_vars => (PumpInv /\ SeqInv /\ ExitInv)'
  BY PumpStep, SeqStep, ExitStep
<1>3. QED
  BY <1>1, <1>2, PumpInit, SeqInit, ExitInit, PTL DEF Spec

-----------------------------------------------------------------------------
(* The lines.                                                              *)

\* What ChunksDoNotMatter says, of any sequences.
UpTo(out, n) == {i \in Ends(out) : i <= n}
LineIn(out, l, e) ==
    \E b \in 0..(e - 1) :
      /\ b = 0 \/ out[b] = Newline
      /\ \A i \in (b + 1)..(e - 1) : out[i] # Newline
      /\ l = SubSeq(out, b + 1, e - 1)
TakenTo(out, rest, lines, taken) ==
    /\ taken \in {0} \union Ends(out)
    /\ rest = SubSeq(out, taken + 1, Len(out))
    /\ Len(lines) = Cardinality(UpTo(out, taken))
    /\ \A e \in UpTo(out, taken) : LineIn(out, lines[Cardinality(UpTo(out, e))], e)

LEMMA UpToFinite ==
    ASSUME NEW out \in Seq(Pieces), NEW n
    PROVE  IsFiniteSet(UpTo(out, n)) /\ Cardinality(UpTo(out, n)) \in Nat
<1>1. UpTo(out, n) \subseteq 1..Len(out) /\ Len(out) \in Nat
  BY DEF UpTo, Ends
<1>2. IsFiniteSet(1..Len(out))
  BY <1>1, FS_Interval
<1>3. IsFiniteSet(UpTo(out, n))
  BY <1>1, <1>2, FS_Subset
<1>4. QED
  BY <1>3, FS_CardinalityType

\* More output changes no line that has arrived, and is left with the rest.
LEMMA LineStays ==
    ASSUME NEW out \in Seq(Pieces), NEW data \in Seq(Pieces), NEW more \in Seq(Pieces),
           Joined(more, out, data), NEW e \in 1..Len(out), NEW l, LineIn(out, l, e)
    PROVE  LineIn(more, l, e)
<1>1. PICK b \in 0..(e - 1) :
        /\ b = 0 \/ out[b] = Newline
        /\ \A i \in (b + 1)..(e - 1) : out[i] # Newline
        /\ l = SubSeq(out, b + 1, e - 1)
  BY DEF LineIn
<1>2. /\ b \in Nat /\ e - 1 \in Nat /\ b <= e - 1
      /\ e - 1 <= Len(out) /\ e - 1 <= Len(more)
  BY <1>1 DEF Joined
<1>3. \A i \in 1..(e - 1) : more[i] = out[i]
  BY DEF Joined
<1>4. l = SubSeq(more, b + 1, e - 1)
  BY <1>1, <1>2, <1>3, PartJoin
<1>5. b = 0 \/ more[b] = Newline
  BY <1>1, <1>2, <1>3
<1>6. \A i \in (b + 1)..(e - 1) : i \in 1..(e - 1)
  BY <1>2
<1>7. \A i \in (b + 1)..(e - 1) : more[i] # Newline
  BY <1>1, <1>3, <1>6
<1>8. QED
  BY <1>1, <1>4, <1>5, <1>7 DEF LineIn

LEMMA LinesArrive ==
    ASSUME NEW out \in Seq(Pieces), NEW rest, NEW lines, NEW taken,
           TakenTo(out, rest, lines, taken), NEW data \in Seq(Pieces),
           NEW more \in Seq(Pieces), Joined(more, out, data)
    PROVE  TakenTo(more, rest \o data, lines, taken)
<1>1. /\ taken \in Nat /\ taken <= Len(out) /\ taken \in {0} \union Ends(more)
      /\ \A i \in Ends(out) : i \in 1..Len(out)
  <2>1. \A i \in Ends(out) : i \in 1..Len(out) /\ i \in Ends(more)
    BY DEF Ends, Joined
  <2>2. QED
    BY <2>1 DEF TakenTo
<1>2. ASSUME NEW n \in Nat, n <= Len(out) PROVE UpTo(more, n) = UpTo(out, n)
  <2>1. \A i \in 1..Len(out) : more[i] = out[i] /\ i \in 1..Len(more)
    BY DEF Joined
  <2>2. ASSUME NEW i, i <= n PROVE i \in Ends(more) <=> i \in Ends(out)
    <3>1. i \in 1..Len(more) => i \in 1..Len(out)
      BY <1>2, <2>2
    <3>2. DOMAIN more = 1..Len(more) /\ DOMAIN out = 1..Len(out)
      OBVIOUS
    <3>3. QED
      BY <2>1, <3>1, <3>2 DEF Ends
  <2>3. QED
    BY <2>2 DEF UpTo
<1>3. rest \o data = SubSeq(more, taken + 1, Len(more))
  <2>1. rest = SubSeq(out, taken + 1, Len(out))
    BY DEF TakenTo
  <2>2. SubSeq(more, taken + 1, Len(more)) = SubSeq(out, taken + 1, Len(out)) \o data
    BY <1>1, RestJoin
  <2>3. QED
    BY <2>1, <2>2
<1>4. ASSUME NEW e \in UpTo(more, taken)
      PROVE  LineIn(more, lines[Cardinality(UpTo(more, e))], e)
  <2>1. e \in UpTo(out, taken) /\ e \in 1..Len(out)
    BY <1>1, <1>2, <1>4 DEF UpTo
  <2>2. UpTo(more, e) = UpTo(out, e)
    BY <1>2, <2>1
  <2>3. LineIn(out, lines[Cardinality(UpTo(out, e))], e)
    BY <2>1 DEF TakenTo
  <2>4. QED
    BY <2>1, <2>2, <2>3, LineStays
<1>5. Len(lines) = Cardinality(UpTo(more, taken))
  BY <1>1, <1>2 DEF TakenTo
<1>6. QED
  BY <1>1, <1>3, <1>4, <1>5 DEF TakenTo

\* The lines that end up to a place are counted by their order.
LEMMA UpToCount ==
    ASSUME NEW out \in Seq(Pieces), NEW taken \in Nat, NEW e \in UpTo(out, taken)
    PROVE  Cardinality(UpTo(out, e)) \in 1..Cardinality(UpTo(out, taken))
<1>1. \A i \in Ends(out) : i \in Nat
  BY DEF Ends
<1>2. e \in UpTo(out, e) /\ UpTo(out, e) \subseteq UpTo(out, taken)
  BY <1>1 DEF UpTo
<1>3. /\ IsFiniteSet(UpTo(out, e)) /\ Cardinality(UpTo(out, e)) \in Nat
      /\ IsFiniteSet(UpTo(out, taken)) /\ Cardinality(UpTo(out, taken)) \in Nat
  BY UpToFinite
<1>4. Cardinality(UpTo(out, e)) <= Cardinality(UpTo(out, taken))
  BY <1>2, <1>3, FS_Subset
<1>5. Cardinality(UpTo(out, e)) # 0
  BY <1>2, <1>3, FS_EmptySet
<1>6. QED
  BY <1>3, <1>4, <1>5

\* The first line that is left is the next that arrived.
LEMMA LineTaken ==
    ASSUME NEW out \in Seq(Pieces), NEW rest, NEW lines \in Seq(Seq(Pieces)), NEW taken,
           TakenTo(out, rest, lines, taken),
           NEW end \in Ends(rest), \A i \in Ends(rest) : end <= i,
           NEW l \in Seq(Pieces), l = SubSeq(rest, 1, end - 1)
    PROVE  TakenTo(out, SubSeq(rest, end + 1, Len(rest)), Append(lines, l), taken + end)
<1>1. Len(out) \in Nat /\ taken \in Nat /\ taken <= Len(out)
  BY DEF TakenTo, Ends
<1>2. /\ rest \in Seq(Pieces) /\ Len(rest) = Len(out) - taken
      /\ \A i \in 1..(Len(out) - taken) : rest[i] = out[taken + i]
  <2>1. rest = SubSeq(out, taken + 1, Len(out)) /\ Len(out) <= Len(out)
    BY <1>1 DEF TakenTo
  <2>2. QED
    BY <1>1, <2>1, PartOf DEF Cut
<1>3. /\ end \in 1..Len(rest) /\ rest[end] = Newline
      /\ \A i \in 1..(end - 1) : rest[i] # Newline
  <2>1. end \in 1..Len(rest) /\ rest[end] = Newline
    BY <1>2 DEF Ends
  <2>2. ASSUME NEW i \in 1..(end - 1), rest[i] = Newline PROVE FALSE
    <3>1. i \in 1..Len(rest) /\ i < end /\ i \in Nat /\ end \in Nat
      BY <1>2, <2>1, <2>2
    <3>2. i \in Ends(rest)
      BY <1>2, <2>2, <3>1 DEF Ends
    <3>3. QED
      BY <3>1, <3>2
  <2>3. QED
    BY <2>1, <2>2
<1>4. PICK next : next = taken + end
  OBVIOUS
<1>5. next \in 1..Len(out) /\ out[next] = Newline /\ taken < next /\ next \in Ends(out)
  <2>1. next \in 1..Len(out) /\ taken < next /\ end \in 1..(Len(out) - taken)
    BY <1>1, <1>2, <1>3, <1>4
  <2>2. out[next] = Newline
    BY <1>2, <1>3, <1>4, <2>1
  <2>3. QED
    BY <2>1, <2>2 DEF Ends
<1>6. ASSUME NEW i \in (taken + 1)..(next - 1) PROVE out[i] # Newline
  <2>1. PICK j : j = i - taken
    OBVIOUS
  <2>2. j \in 1..(end - 1) /\ j \in 1..(Len(out) - taken) /\ taken + j = i
    BY <1>1, <1>2, <1>3, <1>4, <1>6, <2>1
  <2>3. QED
    BY <1>2, <1>3, <2>2
<1>7. UpTo(out, next) = UpTo(out, taken) \union {next} /\ next \notin UpTo(out, taken)
  <2>1. \A i \in Ends(out) : i \in 1..Len(out) /\ out[i] = Newline
    BY DEF Ends
  <2>2. ASSUME NEW i \in Ends(out) PROVE i <= next <=> (i <= taken \/ i = next)
    <3>1. i \in Nat /\ next \in Nat
      BY <1>1, <1>5, <2>1
    <3>2. ASSUME i <= next, ~(i <= taken), i # next PROVE FALSE
      <4>1. i \in (taken + 1)..(next - 1)
        BY <1>1, <3>1, <3>2
      <4>2. QED
        BY <1>6, <2>1, <4>1
    <3>3. i <= taken \/ i = next => i <= next
      BY <1>1, <1>5, <3>1
    <3>4. QED
      BY <3>2, <3>3
  <2>3. ~(next <= taken)
    BY <1>1, <1>5
  <2>4. QED
    BY <1>5, <2>2, <2>3, Zenon DEF UpTo
<1>8. Cardinality(UpTo(out, next)) = Len(lines) + 1 /\ Len(lines) \in Nat
  <2>1. IsFiniteSet(UpTo(out, taken))
    BY UpToFinite
  <2>2. Cardinality(UpTo(out, taken)) = Len(lines)
    BY DEF TakenTo
  <2>3. Cardinality(UpTo(out, taken) \union {next}) = Cardinality(UpTo(out, taken)) + 1
    BY <1>7, <2>1, FS_AddElement
  <2>4. QED
    BY <1>7, <2>2, <2>3
<1>9. PICK more : more = Append(lines, l)
  OBVIOUS
<1>10. /\ Len(more) = Len(lines) + 1 /\ more[Len(lines) + 1] = l
       /\ \A k \in 1..Len(lines) : more[k] = lines[k]
  <2>1. Len(more) = Len(lines) + 1
    BY <1>9
  <2>2. more[Len(lines) + 1] = l
    BY <1>9
  <2>3. \A k \in 1..Len(lines) : more[k] = lines[k]
    BY <1>9
  <2>4. QED
    BY <2>1, <2>2, <2>3
<1>11. SubSeq(rest, end + 1, Len(rest)) = SubSeq(out, next + 1, Len(out))
       /\ l = SubSeq(out, taken + 1, next - 1)
  <2>1. rest = SubSeq(out, taken + 1, Len(out)) /\ end \in 1..(Len(out) - taken)
    BY <1>2, <1>3 DEF TakenTo
  <2>2. /\ SubSeq(rest, end + 1, Len(rest)) = SubSeq(out, (taken + end) + 1, Len(out))
        /\ SubSeq(rest, 1, end - 1) = SubSeq(out, taken + 1, (taken + end) - 1)
    BY <1>1, <2>1, PartOfRest
  <2>3. QED
    BY <1>4, <2>2
<1>12. LineIn(out, l, next)
  <2>1. taken \in 0..(next - 1)
    BY <1>1, <1>5
  <2>2. taken = 0 \/ out[taken] = Newline
    BY DEF TakenTo, Ends
  <2>3. QED
    BY <1>6, <1>11, <2>1, <2>2 DEF LineIn
<1>13. ASSUME NEW e \in UpTo(out, next)
       PROVE  LineIn(out, more[Cardinality(UpTo(out, e))], e)
  <2>1. CASE e = next
    BY <1>8, <1>10, <1>12, <2>1
  <2>2. CASE e \in UpTo(out, taken)
    <3>1. Cardinality(UpTo(out, e)) \in 1..Len(lines)
      BY <1>1, <2>2, UpToCount DEF TakenTo
    <3>2. LineIn(out, lines[Cardinality(UpTo(out, e))], e)
      BY <2>2 DEF TakenTo
    <3>3. QED
      BY <1>10, <3>1, <3>2
  <2>3. QED
    BY <1>7, <1>13, <2>1, <2>2
<1>14. TakenTo(out, SubSeq(rest, end + 1, Len(rest)), more, next)
  BY <1>5, <1>8, <1>10, <1>11, <1>13 DEF TakenTo
<1>15. QED
  BY <1>4, <1>9, <1>14

LineInv == profile # "text" => \E taken : TakenTo(arrived, buffer, handled, taken)

LEMMA LinesArrived ==
    ASSUME SeqInv, LineInv, profile # "text",
           NEW data \in Seq(Pieces), buffer' = buffer \o data, arrived' = arrived \o data,
           handled' = handled
    PROVE  \E taken : TakenTo(arrived', buffer', handled', taken)
<1>1. PICK taken : TakenTo(arrived, buffer, handled, taken)
  BY DEF LineInv
<1>2. PICK out : out = arrived
  OBVIOUS
<1>3. PICK more : more = out \o data
  OBVIOUS
<1>4. out \in Seq(Pieces)
  BY <1>2 DEF SeqInv
<1>5. more \in Seq(Pieces) /\ Joined(more, out, data)
  BY <1>3, <1>4, JoinOf
<1>6. TakenTo(more, buffer \o data, handled, taken)
  BY <1>1, <1>2, <1>4, <1>5, LinesArrive
<1>7. QED
  BY <1>2, <1>3, <1>6

LEMMA LineInit == Init => LineInv
<1> SUFFICES ASSUME Init PROVE LineInv
  OBVIOUS
<1>1. buffer = <<>> /\ arrived = <<>> /\ handled = <<>>
  BY DEF Init
<1>2. UpTo(<<>>, 0) = {} /\ <<>> = SubSeq(<<>>, 0 + 1, Len(<<>>)) /\ Len(<<>>) = 0
  BY DEF UpTo, Ends
<1>3. TakenTo(<<>>, <<>>, <<>>, 0)
  BY <1>2, FS_EmptySet DEF TakenTo
<1>4. QED
  BY <1>1, <1>3 DEF LineInv

LEMMA LineStep == PumpInv /\ SeqInv /\ LineInv /\ [Next]_vars => LineInv'
<1> SUFFICES ASSUME PumpInv, SeqInv, LineInv, [Next]_vars, profile' # "text"
             PROVE  \E taken : TakenTo(arrived', buffer', handled', taken)
  BY DEF LineInv
<1>1. profile' = profile
  BY DEF Next, vars, OutputLines, HandleLine, OutputText, Exit, CompleteAtExit
<1>2. PICK taken : TakenTo(arrived, buffer, handled, taken)
  BY <1>1 DEF LineInv
<1>3. arrived \in Seq(Pieces) /\ buffer \in Seq(Pieces) /\ handled \in Seq(Seq(Pieces))
  BY DEF SeqInv
<1>4. CASE \E s \in Streams : OutputLines(s)
  <2>1. PICK s \in Streams : OutputLines(s)
    BY <1>4
  <2>2. PICK data \in Seq(Pieces) : buffer' = buffer \o data /\ arrived' = arrived \o data
    BY <2>1, OutputData
  <2>3. handled' = handled
    BY <2>1 DEF OutputLines
  <2>4. QED
    BY <1>1, <2>2, <2>3, LinesArrived
<1>5. CASE HandleLine
  <2>1. PICK end \in Ends(buffer) :
          /\ \A i \in Ends(buffer) : end <= i
          /\ SubSeq(buffer, 1, end - 1) \in Seq(Pieces)
          /\ Take(SubSeq(buffer, 1, end - 1))
          /\ buffer' = SubSeq(buffer, end + 1, Len(buffer))
    BY <1>5, HandledLine
  <2>2. arrived' = arrived /\ handled' = Append(handled, SubSeq(buffer, 1, end - 1))
    BY <1>5, <2>1 DEF HandleLine, Take
  <2>3. TakenTo(arrived, buffer', handled', taken + end)
    BY <1>2, <1>3, <2>1, <2>2, LineTaken
  <2>4. QED
    BY <2>2, <2>3
<1>6. CASE OutputText
  BY <1>1, <1>6 DEF OutputText
<1>7. CASE Exit
  <2>1. PICK data \in Seq(Pieces) : buffer' = buffer \o data /\ arrived' = arrived \o data
    BY <1>7, ExitData
  <2>2. handled' = handled
    BY <1>7 DEF Exit
  <2>3. QED
    BY <1>1, <2>1, <2>2, LinesArrived
<1>8. CASE CompleteAtExit
  BY <1>2, <1>8 DEF CompleteAtExit
<1>9. CASE UNCHANGED vars
  BY <1>2, <1>9 DEF vars
<1>10. QED
  BY <1>4, <1>5, <1>6, <1>7, <1>8, <1>9 DEF Next

\* However the output is cut into events, and whichever stream a piece comes
\* from, the k-th line handled is the k-th that arrived, and what is kept for
\* later is what arrived after it.
THEOREM ChunksNeverMatter == Spec => []ChunksDoNotMatter
<1>1. LineInv => ChunksDoNotMatter
  BY DEF LineInv, TakenTo, UpTo, LineIn, ChunksDoNotMatter, EndsUpTo, IsLine
<1>2. PumpInv /\ SeqInv /\ LineInv /\ [Next]_vars => (PumpInv /\ SeqInv /\ LineInv)'
  BY PumpStep, SeqStep, LineStep
<1>3. QED
  BY <1>1, <1>2, PumpInit, SeqInit, LineInit, PTL DEF Spec

-----------------------------------------------------------------------------
(* The turns of the agent.                                                 *)

\* What MessagesAreTurns says, of the payloads ts of n lines.
KindOf(pr, l) ==
    IF \E type \in DOMAIN Texts[pr] : l = Whole(type) THEN Texts[pr][l[1][1]] ELSE Silent
DeltaAt(ts, i) == ts[i].text /\ ts[i].streaming
AnswerAt(ts, i) == ts[i].text /\ ~ts[i].streaming
RunAt(ts, i) ==
    \E j \in 1..(i - 1) : DeltaAt(ts, j) /\ \A k \in j..(i - 1) : ~ts[k].terminal
StartsAt(ts, i) == (DeltaAt(ts, i) \/ AnswerAt(ts, i)) /\ ~RunAt(ts, i)
ContinuesAt(ts, i) == DeltaAt(ts, i) \/ (AnswerAt(ts, i) /\ ~RunAt(ts, i))
CompletesAt(ts, i) == ts[i].terminal /\ (RunAt(ts, i) \/ DeltaAt(ts, i) \/ AnswerAt(ts, i))

\* A message is open while a run of deltas is, and the events are those of the
\* turns.
Turned(ts, n, p) ==
    /\ RunAt(ts, n + 1) <=> p.open # None
    /\ Num(p.out, "started") = Cardinality({i \in 1..n : StartsAt(ts, i)})
    /\ Num(p.out, "delta") = Cardinality({i \in 1..n : ContinuesAt(ts, i)})
    /\ Num(p.out, "completed") = Cardinality({i \in 1..n : CompletesAt(ts, i)})

\* A run goes on through a line that does not end it, or begins with it.
LEMMA RunNext ==
    ASSUME NEW n \in Nat, NEW ts
    PROVE  RunAt(ts, (n + 1) + 1) <=> (RunAt(ts, n + 1) \/ DeltaAt(ts, n + 1)) /\ ~ts[n + 1].terminal
<1>1. ASSUME RunAt(ts, (n + 1) + 1)
      PROVE  (RunAt(ts, n + 1) \/ DeltaAt(ts, n + 1)) /\ ~ts[n + 1].terminal
  <2>1. PICK j \in 1..(n + 1) : DeltaAt(ts, j) /\ \A k \in j..(n + 1) : ~ts[k].terminal
    BY <1>1 DEF RunAt
  <2>2. ~ts[n + 1].terminal
    BY <2>1
  <2>3. CASE j = n + 1
    BY <2>1, <2>2, <2>3
  <2>4. CASE j # n + 1
    <3>1. j \in 1..n /\ n = (n + 1) - 1
      BY <2>4
    <3>2. \A k \in j..n : ~ts[k].terminal
      BY <2>1
    <3>3. QED
      BY <2>1, <2>2, <3>1, <3>2 DEF RunAt
  <2>5. QED
    BY <2>3, <2>4
<1>2. ASSUME DeltaAt(ts, n + 1), ~ts[n + 1].terminal PROVE RunAt(ts, (n + 1) + 1)
  <2>1. /\ n + 1 \in 1..((n + 1) + 1 - 1)
        /\ \A k \in (n + 1)..((n + 1) + 1 - 1) : k = n + 1
    OBVIOUS
  <2>2. QED
    BY <1>2, <2>1 DEF RunAt
<1>3. ASSUME RunAt(ts, n + 1), ~ts[n + 1].terminal PROVE RunAt(ts, (n + 1) + 1)
  <2>1. PICK j \in 1..n : DeltaAt(ts, j) /\ \A k \in j..n : ~ts[k].terminal
    BY <1>3 DEF RunAt
  <2>2. j \in 1..((n + 1) + 1 - 1) /\ \A k \in j..((n + 1) + 1 - 1) : k \in j..n \/ k = n + 1
    OBVIOUS
  <2>3. QED
    BY <1>3, <2>1, <2>2 DEF RunAt
<1>4. QED
  BY <1>1, <1>2, <1>3

\* The lines before are the turns they were.
LEMMA TurnsBefore ==
    ASSUME NEW n \in Nat, NEW ts, NEW us, \A i \in 1..n : us[i] = ts[i]
    PROVE  /\ RunAt(us, n + 1) <=> RunAt(ts, n + 1)
           /\ \A i \in 1..n : /\ StartsAt(us, i) <=> StartsAt(ts, i)
                              /\ ContinuesAt(us, i) <=> ContinuesAt(ts, i)
                              /\ CompletesAt(us, i) <=> CompletesAt(ts, i)
<1>1. ASSUME NEW i \in 1..(n + 1) PROVE RunAt(us, i) <=> RunAt(ts, i)
  <2>1. \A j \in 1..(i - 1) : j \in 1..n /\ \A k \in j..(i - 1) : k \in 1..n
    OBVIOUS
  <2>2. \A j \in 1..(i - 1) : /\ DeltaAt(us, j) <=> DeltaAt(ts, j)
                             /\ \A k \in j..(i - 1) : us[k] = ts[k]
    BY <2>1 DEF DeltaAt
  <2>3. QED
    BY <2>2 DEF RunAt
<1>2. n + 1 \in 1..(n + 1) /\ \A i \in 1..n : i \in 1..(n + 1)
  OBVIOUS
<1>3. QED
  BY <1>1, <1>2 DEF StartsAt, ContinuesAt, CompletesAt, DeltaAt, AnswerAt

LEMMA TurnsNext ==
    ASSUME NEW n \in Nat, NEW ts, NEW us, \A i \in 1..n : us[i] = ts[i],
           NEW p, NEW q, Turned(ts, n, p), Delivers(p, q, us[n + 1])
    PROVE  Turned(us, n + 1, q)
<1>1. /\ RunAt(us, n + 1) <=> p.open # None
      /\ \A i \in 1..n : /\ StartsAt(us, i) <=> StartsAt(ts, i)
                         /\ ContinuesAt(us, i) <=> ContinuesAt(ts, i)
                         /\ CompletesAt(us, i) <=> CompletesAt(ts, i)
  BY TurnsBefore DEF Turned
<1>2. RunAt(us, (n + 1) + 1) <=> q.open # None
  BY <1>1, RunNext DEF Delivers, DeltaAt
<1>3. n + 1 \in 1..(n + 1) /\ \A i \in 1..n : i \in 1..(n + 1)
  OBVIOUS
<1>4. Cardinality({i \in 1..(n + 1) : StartsAt(us, i)})
        = Num(p.out, "started") + (IF StartsAt(us, n + 1) THEN 1 ELSE 0)
  <2>1. PICK A : A = {i \in 1..n : StartsAt(ts, i)}
    OBVIOUS
  <2>2. PICK B : B = {i \in 1..(n + 1) : StartsAt(us, i)}
    OBVIOUS
  <2>3. /\ A \subseteq 1..n /\ B \subseteq 1..(n + 1) /\ \A i \in 1..n : i \in B <=> i \in A
        /\ n + 1 \in B <=> StartsAt(us, n + 1)
    BY <1>1, <1>3, <2>1, <2>2
  <2>4. Cardinality(B) = Cardinality(A) + (IF n + 1 \in B THEN 1 ELSE 0)
    BY <2>3, CountNext
  <2>5. QED
    BY <2>1, <2>2, <2>3, <2>4 DEF Turned
<1>5. Cardinality({i \in 1..(n + 1) : ContinuesAt(us, i)})
        = Num(p.out, "delta") + (IF ContinuesAt(us, n + 1) THEN 1 ELSE 0)
  <2>1. PICK A : A = {i \in 1..n : ContinuesAt(ts, i)}
    OBVIOUS
  <2>2. PICK B : B = {i \in 1..(n + 1) : ContinuesAt(us, i)}
    OBVIOUS
  <2>3. /\ A \subseteq 1..n /\ B \subseteq 1..(n + 1) /\ \A i \in 1..n : i \in B <=> i \in A
        /\ n + 1 \in B <=> ContinuesAt(us, n + 1)
    BY <1>1, <1>3, <2>1, <2>2
  <2>4. Cardinality(B) = Cardinality(A) + (IF n + 1 \in B THEN 1 ELSE 0)
    BY <2>3, CountNext
  <2>5. QED
    BY <2>1, <2>2, <2>3, <2>4 DEF Turned
<1>6. Cardinality({i \in 1..(n + 1) : CompletesAt(us, i)})
        = Num(p.out, "completed") + (IF CompletesAt(us, n + 1) THEN 1 ELSE 0)
  <2>1. PICK A : A = {i \in 1..n : CompletesAt(ts, i)}
    OBVIOUS
  <2>2. PICK B : B = {i \in 1..(n + 1) : CompletesAt(us, i)}
    OBVIOUS
  <2>3. /\ A \subseteq 1..n /\ B \subseteq 1..(n + 1) /\ \A i \in 1..n : i \in B <=> i \in A
        /\ n + 1 \in B <=> CompletesAt(us, n + 1)
    BY <1>1, <1>3, <2>1, <2>2
  <2>4. Cardinality(B) = Cardinality(A) + (IF n + 1 \in B THEN 1 ELSE 0)
    BY <2>3, CountNext
  <2>5. QED
    BY <2>1, <2>2, <2>3, <2>4 DEF Turned
<1>7. /\ Num(q.out, "started") = Num(p.out, "started") + (IF StartsAt(us, n + 1) THEN 1 ELSE 0)
      /\ Num(q.out, "delta") = Num(p.out, "delta") + (IF ContinuesAt(us, n + 1) THEN 1 ELSE 0)
      /\ Num(q.out, "completed")
           = Num(p.out, "completed") + (IF CompletesAt(us, n + 1) THEN 1 ELSE 0)
  BY <1>1 DEF Delivers, Adds, StartsAt, ContinuesAt, CompletesAt, DeltaAt, AnswerAt
<1>8. QED
  BY <1>2, <1>4, <1>5, <1>6, <1>7 DEF Turned

Kinds == [i \in 1..Len(handled) |-> KindOf(profile, handled[i])]
TurnInv == exit # "taken" => Turned(Kinds, Len(handled), Pump)

LEMMA TurnInit == Init => TurnInv
<1> SUFFICES ASSUME Init PROVE Turned(Kinds, 0, Pump) /\ Len(handled) = 0
  BY DEF TurnInv
<1>1. handled = <<>> /\ Pump.out = <<>> /\ Pump.open = None
  BY DEF Init, Pump
<1>2. Len(handled) = 0 /\ 1..0 = {}
  BY <1>1
<1>3. ASSUME NEW kind PROVE Num(<<>>, kind) = 0
  <2>1. Of(<<>>, kind) = {}
    BY DEF Of
  <2>2. QED
    BY <2>1, FS_EmptySet DEF Num
<1>4. /\ {i \in 1..0 : StartsAt(Kinds, i)} = {}
      /\ {i \in 1..0 : ContinuesAt(Kinds, i)} = {}
      /\ {i \in 1..0 : CompletesAt(Kinds, i)} = {}
  BY <1>2
<1>5. ~RunAt(Kinds, 0 + 1)
  <2>1. 1..(0 + 1 - 1) = {}
    OBVIOUS
  <2>2. QED
    BY <2>1 DEF RunAt
<1>6. Cardinality({}) = 0
  BY FS_EmptySet
<1>7. QED
  BY <1>1, <1>2, <1>3, <1>4, <1>5, <1>6 DEF Turned

LEMMA TurnTakes ==
    ASSUME PumpInv, SeqInv, TurnInv, NEW l \in Seq(Pieces), Take(l),
           profile' = profile, exit' = exit
    PROVE  TurnInv'
<1> SUFFICES ASSUME exit # "taken" PROVE Turned(Kinds', Len(handled'), Pump')
  BY DEF TurnInv
<1>1. PICK p : p = Pump
  OBVIOUS
<1>2. PICK q : q = Pump'
  OBVIOUS
<1>3. PICK n \in Nat : n = Len(handled)
  BY DEF SeqInv
<1>4. PICK ts : ts = Kinds
  OBVIOUS
<1>5. PICK us : us = Kinds'
  OBVIOUS
<1>6. Turned(ts, n, p) /\ Delivers(p, q, Payload(l))
  BY <1>1, <1>2, <1>3, <1>4, PumpTakes DEF TurnInv
<1>7. PICK h : h = Append(handled, l)
  OBVIOUS
<1>8. Len(h) = n + 1 /\ h[n + 1] = l /\ \A i \in 1..n : h[i] = handled[i]
  <2>1. handled \in Seq(Seq(Pieces))
    BY DEF SeqInv
  <2>2. Len(h) = n + 1
    BY <1>3, <1>7, <2>1
  <2>3. h[n + 1] = l
    BY <1>3, <1>7, <2>1
  <2>4. \A i \in 1..n : h[i] = handled[i]
    BY <1>3, <1>7, <2>1
  <2>5. QED
    BY <2>2, <2>3, <2>4
<1>9. handled' = h /\ Len(handled') = n + 1
  BY <1>7, <1>8 DEF Take
<1>10. us = [i \in 1..(n + 1) |-> KindOf(profile, h[i])]
  BY <1>5, <1>8, <1>9 DEF Kinds
<1>11. us[n + 1] = Payload(l) /\ \A i \in 1..n : us[i] = ts[i]
  <2>1. n + 1 \in 1..(n + 1) /\ \A i \in 1..n : i \in 1..(n + 1)
    OBVIOUS
  <2>2. us[n + 1] = KindOf(profile, l)
    BY <1>8, <1>10, <2>1
  <2>3. KindOf(profile, l) = Payload(l)
    BY DEF KindOf, Payload
  <2>4. \A i \in 1..n : us[i] = KindOf(profile, handled[i])
    BY <1>8, <1>10, <2>1
  <2>5. \A i \in 1..n : ts[i] = KindOf(profile, handled[i])
    BY <1>3, <1>4 DEF Kinds
  <2>6. QED
    BY <2>2, <2>3, <2>4, <2>5
<1>12. Turned(us, n + 1, q)
  BY <1>6, <1>11, TurnsNext
<1>13. QED
  BY <1>2, <1>5, <1>9, <1>12

LEMMA TurnStays ==
    ASSUME TurnInv, exit' # "taken" => exit # "taken",
           UNCHANGED <<profile, open, streamed, nextId, published, handled>>
    PROVE  TurnInv'
<1>1. Pump' = Pump
  BY DEF Pump
<1>2. Kinds' = Kinds
  BY DEF Kinds
<1>3. QED
  BY <1>1, <1>2 DEF TurnInv

LEMMA TurnStep == PumpInv /\ SeqInv /\ TurnInv /\ [Next]_vars => TurnInv'
<1> SUFFICES ASSUME PumpInv, SeqInv, TurnInv, [Next]_vars PROVE TurnInv'
  OBVIOUS
<1>1. CASE \E s \in Streams : OutputLines(s)
  BY <1>1, TurnStays DEF OutputLines
<1>2. CASE HandleLine
  <2>1. PICK end \in Ends(buffer) :
          SubSeq(buffer, 1, end - 1) \in Seq(Pieces) /\ Take(SubSeq(buffer, 1, end - 1))
    BY <1>2, HandledLine
  <2>2. profile' = profile /\ exit' = exit
    BY <1>2 DEF HandleLine
  <2>3. QED
    BY <2>1, <2>2, TurnTakes
<1>3. CASE OutputText
  <2>1. PICK type \in Chunks : Take(Whole(type))
    BY <1>3 DEF OutputText
  <2>2. profile = "text" /\ profile' = profile /\ exit' = exit
    BY <1>3 DEF OutputText
  <2>3. Whole(type) \in Seq(Pieces)
    BY <2>2, NameOf, LinePieces
  <2>4. QED
    BY <2>1, <2>2, <2>3, TurnTakes
<1>4. CASE Exit
  BY <1>4, TurnStays DEF Exit
<1>5. CASE CompleteAtExit
  BY <1>5 DEF CompleteAtExit, TurnInv
<1>6. CASE UNCHANGED vars
  BY <1>6, TurnStays DEF vars
<1>7. QED
  BY <1>1, <1>2, <1>3, <1>4, <1>5, <1>6 DEF Next

\* Until the exit, the messages are counted by the agent's answers, whichever
\* profile it speaks and whatever it writes: the first text of an answer begins
\* a message, a run of deltas is one, a whole text adds nothing to a run that is
\* open, and every other text of the same answer is a message again.
THEOREM MessagesAreAlwaysTurns == Spec => []MessagesAreTurns
<1>1. PumpInv /\ SeqInv /\ TurnInv => MessagesAreTurns
  <2> SUFFICES ASSUME PumpInv, SeqInv, TurnInv, exit # "taken" PROVE MessagesAreTurns
    BY DEF MessagesAreTurns
  <2>1. PICK n \in Nat : n = Len(handled)
    BY DEF SeqInv
  <2>2. DOMAIN handled = 1..n
    BY <2>1 DEF SeqInv
  <2>3. PICK ts : ts = Kinds
    OBVIOUS
  <2>4. Turned(ts, n, Pump)
    BY <2>1, <2>3 DEF TurnInv
  <2>5. \A i \in 1..n : Type(i) = ts[i]
    BY <2>1, <2>3 DEF Kinds, KindOf, Payload, Type
  <2>6. ASSUME NEW i \in 1..n
        PROVE  /\ First(i) \/ Again(i) <=> StartsAt(ts, i)
               /\ ~(First(i) /\ Again(i))
               /\ Continues(i) <=> ContinuesAt(ts, i)
               /\ Completes(i) <=> CompletesAt(ts, i)
    <3>1. Type(i) = ts[i]
      BY <2>5, <2>6
    <3>2. \A j \in 1..(i - 1) : Type(j) = ts[j] /\ \A k \in j..(i - 1) : Type(k) = ts[k]
      BY <2>5
    <3>3. RunOpen(i) <=> RunAt(ts, i)
      BY <3>2 DEF RunOpen, RunAt, IsDelta, DeltaAt
    <3>4. (IsDelta(i) <=> DeltaAt(ts, i)) /\ (IsWhole(i) <=> AnswerAt(ts, i))
      BY <3>1 DEF IsDelta, DeltaAt, IsWhole, AnswerAt
    <3>5. RunOpen(i) => Said(i)
      <4>1. \A k : Type(k).ends => Type(k).terminal
        BY PayloadKinds, ProfilesAssumption
           DEF PumpInv, Type, Answer, Part, Delta, End, Silent, Prompt
      <4>2. QED
        BY <4>1 DEF RunOpen, Said, IsDelta
    <3>6. StartsAt(ts, i) <=> Type(i).text /\ ~RunOpen(i)
      BY <3>1, <3>3 DEF StartsAt, DeltaAt, AnswerAt
    <3>7. Completes(i) <=> CompletesAt(ts, i)
      BY <3>1, <3>3 DEF Completes, CompletesAt, DeltaAt, AnswerAt
    <3>8. QED
      BY <3>3, <3>4, <3>5, <3>6, <3>7 DEF First, Again, Continues, ContinuesAt
  <2>7. /\ {i \in DOMAIN handled : Continues(i)} = {i \in 1..n : ContinuesAt(ts, i)}
        /\ {i \in DOMAIN handled : Completes(i)} = {i \in 1..n : CompletesAt(ts, i)}
    BY <2>2, <2>6
  <2>8. Cardinality({i \in 1..n : StartsAt(ts, i)})
          = Cardinality({i \in DOMAIN handled : First(i)})
              + Cardinality({i \in DOMAIN handled : Again(i)})
    <3>1. PICK A : A = {i \in DOMAIN handled : First(i)}
      OBVIOUS
    <3>2. PICK B : B = {i \in DOMAIN handled : Again(i)}
      OBVIOUS
    <3>3. /\ A \subseteq 1..n /\ B \subseteq 1..n /\ A \intersect B = {}
          /\ A \union B = {i \in 1..n : StartsAt(ts, i)}
      BY <2>2, <2>6, <3>1, <3>2
    <3>4. IsFiniteSet(A) /\ IsFiniteSet(B)
      <4>1. IsFiniteSet(1..n)
        BY FS_Interval
      <4>2. QED
        BY <3>3, <4>1, FS_Subset
    <3>5. /\ Cardinality(A \union B) = Cardinality(A) + Cardinality(B) - Cardinality(A \intersect B)
          /\ Cardinality(A) \in Nat /\ Cardinality(B) \in Nat
      BY <3>4, FS_Union, FS_CardinalityType
    <3>6. Cardinality(A \intersect B) = 0
      BY <3>3, FS_EmptySet
    <3>7. Cardinality(A \union B) = Cardinality(A) + Cardinality(B)
      BY <3>5, <3>6
    <3>8. QED
      BY <3>1, <3>2, <3>3, <3>7, Zenon
  <2>9. \A kind : Count(kind) = Num(Pump.out, kind)
    BY DEF Count, Num, Of, Pump
  <2>10. QED
    BY <2>4, <2>7, <2>8, <2>9 DEF MessagesAreTurns, Turned
<1>2. PumpInv /\ SeqInv /\ TurnInv /\ [Next]_vars => (PumpInv /\ SeqInv /\ TurnInv)'
  BY PumpStep, SeqStep, TurnStep
<1>3. QED
  BY <1>1, <1>2, PumpInit, SeqInit, TurnInit, PTL DEF Spec
=============================================================================
