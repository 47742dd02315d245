----------------------------- MODULE Transcript -----------------------------
(***************************************************************************)
(* The pages of a transcript, internal/history/history.go: a client that   *)
(* follows next_offset from the latest message to the first, while the     *)
(* agent goes on writing the transcript.                                   *)
(*                                                                         *)
(* A page of Claude's or Codex's transcript is read from the file's tail,  *)
(* which is doubled until it holds enough messages.  A tail begins in the  *)
(* middle of a line, and a tool's result may be in it without its use.     *)
(* OpenCode's transcript is a database and is read whole.                  *)
(*                                                                         *)
(* A line has a size in units of the tail, the kind of message that its    *)
(* parser makes of it, and the tools it names.  A line that is not whole   *)
(* yet is not there.                                                       *)
(***************************************************************************)
EXTENDS Naturals, Sequences, FiniteSets

CONSTANTS
    Formats,        \* of "claude", "codex" and "opencode"
    Limits,         \* the limits clients ask for, 0 for none
    DefaultLimit,   \* defaultMessagePageLimit, 100
    MaxLimit,       \* maxMessagePageLimit, 500
    InitialTail,    \* initialTailReadBytes, 256 KiB
    Sizes,          \* the sizes of lines, by the kind of message they become
    MaxLines,       \* bound: lines the agent writes
    MaxTools        \* bound: tools it uses

ASSUME TranscriptAssumption ==
    /\ Limits \subseteq Nat /\ {DefaultLimit, InitialTail} \subseteq Nat \ {0}
    /\ MaxLimit \in Nat /\ DefaultLimit <= MaxLimit
    /\ \A kind \in DOMAIN Sizes : Sizes[kind] \subseteq Nat \ {0}
    /\ MaxLines \in Nat /\ MaxTools \in Nat

VARIABLES
    format,     \* of the transcript
    file,       \* its lines
    synced,     \* OpenCode: how many of them a read of the database sees
    limit,      \* what the client asks for
    offset,     \* where its next page begins, counted from the end
    phase,      \* "idle", the server's "tail" or "read", or "done"
    size,       \* the size of the file when the page was asked for
    readBytes,  \* how much of its tail is read next
    start,      \* where that tail begins
    page,       \* the last page
    whole,      \* history: the same page of the whole transcript
    shown,      \* the messages the client has been given
    promised,   \* history: those there were at its first request
    cut,        \* history: a page had a result without its use
    grown       \* history: the file grew while a page was read

fileVars == <<format, file, synced>>
readVars == <<size, readBytes, start>>
pageVars == <<limit, offset, page, whole, shown, promised, cut, grown>>
pagingVars == <<fileVars, readVars, pageVars, phase>>

-----------------------------------------------------------------------------
(* The parsers: the message a line becomes, if any.                        *)

\* A user's message of a text and results is of role "user": for the merge it
\* is a use of the tools it names.
ClaudeRows ==
    [user |-> "text", assistant |-> "text", tool_use |-> "use", tool_result |-> "result",
     text_and_results |-> "use", summary |-> "none"]
CodexRows ==
    [user_message |-> "text", message |-> "text", function_call |-> "use",
     function_call_output |-> "result", exec_command_end |-> "result", token_count |-> "none"]
OpencodeRows == [text |-> "text", tool |-> "none", step |-> "none"]

Rows == [claude |-> ClaudeRows, codex |-> CodexRows, opencode |-> OpencodeRows]
Kinds(f) == {Rows[f][t] : t \in DOMAIN Rows[f]}

ASSUME SizesAssumption == \A f \in Formats : Kinds(f) \subseteq DOMAIN Sizes

\* The elements of a sequence at the places of a set, in their order.
Selected(s, places) ==
    LET selected[k \in 0..Len(s)] ==
          IF k = 0 THEN <<>>
          ELSE IF k \in places THEN Append(selected[k - 1], s[k]) ELSE selected[k - 1]
    IN  selected[Len(s)]

Message(line) == [id |-> line.at, kind |-> line.kind, tools |-> line.tools, done |-> {}]
Messages(lines) ==
    Selected([k \in DOMAIN lines |-> Message(lines[k])], {k \in DOMAIN lines : lines[k].kind # "none"})

\* mergeToolUseResultMessages: the k-th message, a result, goes for tool i to
\* the last message before it that used the tool.
UsesBefore(messages, i, k) ==
    {j \in 1..(k - 1) : messages[j].kind = "use" /\ i \in messages[j].tools}
GoesTo(messages, i, k, j) ==
    /\ messages[k].kind = "result" /\ i \in messages[k].tools
    /\ j \in UsesBefore(messages, i, k)
    /\ \A other \in UsesBefore(messages, i, k) : other <= j

\* A use with the results that went to it, and a message of results with those
\* that have no use, if there are any.
MergeMessage(messages, k) ==
    LET goesTo(i, j) == GoesTo(messages, i, k, j)
        comesTo(i, j) == GoesTo(messages, i, j, k)
    IN  [messages[k] EXCEPT
           !.tools = {i \in @ : \A j \in DOMAIN messages : ~goesTo(i, j)},
           !.done = {i \in messages[k].tools : \E j \in DOMAIN messages : comesTo(i, j)}]

Merged(messages) ==
    LET all == [k \in DOMAIN messages |-> MergeMessage(messages, k)]
    IN  Selected(all, {k \in DOMAIN all : all[k].kind # "result" \/ all[k].tools # {}})

AllMessages ==
    IF format = "opencode" THEN Messages(SubSeq(file, 1, synced)) ELSE Merged(Messages(file))

-----------------------------------------------------------------------------
(* The tail of the file.                                                   *)

Size == IF file = <<>> THEN 0 ELSE file[Len(file)].at + file[Len(file)].size
Least(a, b) == IF a < b THEN a ELSE b

After == {n \in DOMAIN file : file[n].at > start}

\* Mutant: the first line is dropped from a tail that is the whole file too.
LinesInTailAlwaysCut == Selected(file, After)

\* readTailChunk drops what is before the first newline of a tail that does not
\* begin the file, a line that happens to be whole too; but not when nothing
\* follows it.
LinesInTail ==
    LET after == IF start = 0 THEN file ELSE Selected(file, After)
    IN  IF after = <<>> /\ file[Len(file)].at = start THEN <<file[Len(file)]>> ELSE after

\* A page may hold a result whose use is in a line before the tail.
HoldsOrphan(lines, messages) ==
    \E k \in DOMAIN messages, n \in DOMAIN file :
       /\ messages[k].kind = "result" /\ file[n].kind = "use"
       /\ file[n].at < lines[1].at /\ file[n].tools \intersect messages[k].tools # {}

-----------------------------------------------------------------------------
(* Pages.                                                                  *)

Limit == IF limit = 0 THEN DefaultLimit ELSE Least(limit, MaxLimit)

\* Mutant: one message less.
NeedWithoutNext == offset + Limit

\* The page, and one message more to know of.
Need == offset + Limit + 1

\* Mutant: the next page begins where this one does.
PageAgain(messages) ==
    LET end == Len(messages) - offset
        first == IF Limit < end THEN end - Limit + 1 ELSE 1
    IN  IF offset >= Len(messages) THEN [messages |-> <<>>, more |-> FALSE, next |-> 0]
        ELSE [messages |-> SubSeq(messages, first, end), more |-> first > 1,
              next |-> IF first > 1 THEN end - first + 1 ELSE 0]

\* paginateMessages
Page(messages) ==
    LET end == Len(messages) - offset
        first == IF Limit < end THEN end - Limit + 1 ELSE 1
    IN  IF offset >= Len(messages) THEN [messages |-> <<>>, more |-> FALSE, next |-> 0]
        ELSE [messages |-> SubSeq(messages, first, end), more |-> first > 1,
              next |-> IF first > 1 THEN offset + (end - first + 1) ELSE 0]

Ids(messages) == {messages[k].id : k \in DOMAIN messages}

\* The answer, and the client that asks for the next page while there is one.
Answer(messages) ==
    LET p == Page(messages)
    IN  /\ page' = p /\ whole' = Page(AllMessages)
        /\ shown' = shown \union Ids(p.messages)
        /\ offset' = IF p.more THEN p.next ELSE offset
        /\ phase' = IF p.more THEN "idle" ELSE "done"

-----------------------------------------------------------------------------
PagingInit ==
    /\ format \in Formats /\ file = <<>> /\ synced = 0
    /\ limit \in Limits /\ offset = 0 /\ phase = "idle"
    /\ size = 0 /\ readBytes = 0 /\ start = 0
    /\ page = [messages |-> <<>>, more |-> TRUE, next |-> 0] /\ whole = page
    /\ shown = {} /\ promised = {} /\ cut = FALSE /\ grown = FALSE

Used == Cardinality(UNION {file[n].tools : n \in {k \in DOMAIN file : file[k].kind = "use"}})

AgentWrites ==
    /\ Len(file) < MaxLines
    /\ \E kind \in Kinds(format) : \E s \in Sizes[kind] :
         \E tools \in CASE kind = "use" -> {{i} : i \in 1..Least(Used + 1, MaxTools)}
                        [] kind = "result" -> {{Used}, {0, Used}}
                        [] OTHER -> {{}} :
           file' = Append(file, [kind |-> kind, tools |-> tools, at |-> Size, size |-> s])
    /\ UNCHANGED <<format, synced, readVars, pageVars, phase>>

\* The database is opened as immutable: a read sees what has left the log.
DatabaseSyncs ==
    /\ format = "opencode" /\ synced < Len(file)
    /\ synced' = Len(file)
    /\ UNCHANGED <<format, file, readVars, pageVars, phase>>

\* LoadMessagePage of OpenCode reads every message in one query.
PageOfDatabase ==
    /\ format = "opencode" /\ phase = "idle"
    /\ promised' = IF offset = 0 THEN Ids(AllMessages) ELSE promised
    /\ Answer(AllMessages)
    /\ UNCHANGED <<fileVars, readVars, limit, cut, grown>>

\* loadMessagePageFromPath: the size is read once; an empty file has no page.
AskPage ==
    /\ format # "opencode" /\ phase = "idle"
    /\ promised' = IF offset = 0 THEN Ids(AllMessages) ELSE promised
    /\ size' = Size /\ readBytes' = Least(InitialTail, Size)
    /\ IF file = <<>> THEN Answer(<<>>)
       ELSE phase' = "tail" /\ UNCHANGED <<offset, page, whole, shown>>
    /\ UNCHANGED <<fileVars, start, limit, cut, grown>>

\* readTailChunk opens the file and reads its size again.
OpenTail ==
    /\ phase = "tail"
    /\ start' = IF Size > readBytes THEN Size - readBytes ELSE 0
    /\ phase' = "read"
    /\ UNCHANGED <<fileVars, size, readBytes, pageVars>>

ReadTail ==
    /\ phase = "read"
    /\ LET lines == LinesInTail
           messages == Merged(Messages(lines))
           last == SubSeq(messages, Len(messages) + 1 - Least(offset + Limit, Len(messages)),
                          Len(messages))
       IN  IF Len(messages) >= Need \/ readBytes >= size
           THEN /\ Answer(messages)
                /\ cut' = (cut \/ HoldsOrphan(lines, last))
                /\ grown' = (grown \/ Size > size)
                /\ UNCHANGED readBytes
           ELSE /\ readBytes' = Least(2 * readBytes, size) /\ phase' = "tail"
                /\ UNCHANGED <<offset, page, whole, shown, cut, grown>>
    /\ UNCHANGED <<fileVars, size, start, limit, promised>>

ServerStep == PageOfDatabase \/ AskPage \/ OpenTail \/ ReadTail

PagingNext == AgentWrites \/ DatabaseSyncs \/ ServerStep

PagingSpec == PagingInit /\ [][PagingNext]_pagingVars

\* The client asks for the next page, and the server answers: a weak fairness of
\* ServerStep, which is enabled for as long as the client is not done.
FairPagingSpec ==
    PagingSpec /\ ([]<>(phase = "done") \/ []<><<ServerStep>>_pagingVars)

-----------------------------------------------------------------------------
(* Properties.                                                             *)

\* Wherever a tail begins in a line, the page read from it is the page of the
\* whole transcript, with the same marks for the next one, unless the file grew
\* since its size was read or a result in it is without its use.
PageIsWhole == ~cut /\ ~grown => page = whole

\* A client that follows the pages to the end while the agent writes has been
\* given every message there was when it began, some of them twice, under the
\* same two conditions.
NothingSkipped == phase = "done" /\ ~cut /\ ~grown => promised \subseteq shown

\* Following the pages comes to an end, although offsets count from an end that
\* moves: every page has a tail that suffices, and every next one lies further.
PagingEnds == <>(phase = "done")
=============================================================================
