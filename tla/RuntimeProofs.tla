---------------------------- MODULE RuntimeProofs ----------------------------
(***************************************************************************)
(* The stdio runtime implements RuntimeFeed, for every number of streams   *)
(* and callers, every capacity of the channel and every amount of output;  *)
(* its answers agree and it honours a stop.                                *)
(***************************************************************************)
EXTENDS StdioRuntime, SequenceTheorems, TLAPS

-----------------------------------------------------------------------------
(* Typing.                                                                 *)

\* emit keeps the channel's variables in their range.
LEMMA EmitTyped ==
    ASSUME TypeOK, NEW e \in Events, Emit(e)
    PROVE  /\ sent' \in Seq(Events) /\ taken' \in 0..Len(sent')
           /\ Len(sent') <= taken' + ChanCap
           /\ open' \in BOOLEAN /\ crashed' \in BOOLEAN
<1>1. /\ sent \in Seq(Events) /\ Len(sent) \in Nat /\ taken \in 0..Len(sent)
      /\ Len(sent) <= taken + ChanCap /\ ChanCap \in Nat
      /\ open \in BOOLEAN /\ crashed \in BOOLEAN
  BY ChanCapAssumption DEF TypeOK
<1>2. CASE /\ Len(sent) < taken + ChanCap
           /\ sent' = Append(sent, e) /\ UNCHANGED <<taken, open, crashed>>
  <2>1. Append(sent, e) \in Seq(Events) /\ Len(Append(sent, e)) = Len(sent) + 1
    BY <1>1
  <2>2. QED
    BY <1>1, <1>2, <2>1
<1>3. CASE crashed' = TRUE /\ UNCHANGED <<sent, taken, open>>
  BY <1>1, <1>3
<1>4. QED
  BY <1>2, <1>3 DEF Emit

LEMMA StdioInitTyped == Init => TypeOK
<1> SUFFICES ASSUME Init PROVE TypeOK
  OBVIOUS
<1>1. wrote \in [Streams -> 0..MaxChunks] /\ read \in [Streams -> 0..MaxChunks]
  BY MaxChunksAssumption DEF Init
<1>2. sent \in Seq(Events) /\ taken \in 0..Len(sent) /\ Len(sent) <= taken + ChanCap
  BY ChanCapAssumption DEF Init
<1>3. QED
  BY <1>1, <1>2 DEF Init, TypeOK

LEMMA StdioNextTyped == TypeOK /\ [Next]_vars => TypeOK'
<1> SUFFICES ASSUME TypeOK, [Next]_vars PROVE TypeOK'
  OBVIOUS
<1> USE DEF processVars, readVars, waitVars, callVars, chanVars
<1>1. CASE Start
  <2>1. Plain("started") \in Events
    BY DEF Plain, Events, Kinds
  <2>2. QED
    BY <1>1, <2>1, EmitTyped DEF Start, TypeOK
<1>2. CASE Receive
  <2>1. taken' \in 0..Len(sent') /\ Len(sent') <= taken' + ChanCap
    BY <1>2, ChanCapAssumption DEF Receive, TypeOK
  <2>2. QED
    BY <1>2, <2>1 DEF Receive, TypeOK
<1>3. CASE CloseEvents \/ CloseInput \/ ProcessExit \/ Kill
  <2>1. CASE CloseEvents
    <3>1. open' \in BOOLEAN
      BY <2>1 DEF CloseEvents
    <3>2. UNCHANGED <<process, status, wrote, read, pipesOpen, reader, waiter, asked,
                         flagged, stdin, closed, state, waitErr, sent, taken, caller, crashed>>
      BY <2>1 DEF CloseEvents
    <3>3. QED
      BY <3>1, <3>2 DEF TypeOK
  <2>2. CASE CloseInput
    <3>1. stdin' \in BOOLEAN
      BY <2>2 DEF CloseInput
    <3>2. UNCHANGED <<process, status, wrote, read, pipesOpen, reader, waiter, asked,
                         flagged, closed, state, waitErr, sent, taken, open, caller, crashed>>
      BY <2>2 DEF CloseInput
    <3>3. QED
      BY <3>1, <3>2 DEF TypeOK
  <2>3. CASE ProcessExit
    BY <2>3 DEF ProcessExit, TypeOK
  <2>4. CASE Kill
    BY <2>4 DEF Kill, TypeOK
  <2>5. QED
    BY <1>3, <2>1, <2>2, <2>3, <2>4
<1>4. ASSUME NEW s \in Streams, ProcessWrite(s) PROVE TypeOK'
  <2>1. wrote[s] + 1 \in 0..MaxChunks
    BY <1>4, MaxChunksAssumption DEF ProcessWrite, TypeOK
  <2>2. QED
    BY <1>4, <2>1 DEF ProcessWrite, TypeOK
<1>5. ASSUME NEW s \in Streams, ReadChunk(s) PROVE TypeOK'
  <2>1. read[s] + 1 \in 0..MaxChunks
    BY <1>5, MaxChunksAssumption DEF ReadChunk, TypeOK
  <2>2. QED
    BY <1>5, <2>1 DEF ReadChunk, TypeOK
<1>6. ASSUME NEW s \in Streams, EmitChunk(s) PROVE TypeOK'
  <2>1. Chunk(s, read[s]) \in Events
    BY MaxChunksAssumption DEF Chunk, Events, TypeOK
  <2>2. QED
    BY <1>6, <2>1, EmitTyped DEF EmitChunk, TypeOK
<1>7. ASSUME NEW s \in Streams, ReadEnd(s) PROVE TypeOK'
  BY <1>7 DEF ReadEnd, TypeOK
<1>8. CASE Reap \/ ClosePipes \/ ReadFlags \/ SetState
  <2>1. CASE Reap
    BY <2>1 DEF Reap, TypeOK
  <2>2. CASE ClosePipes
    <3>1. pipesOpen' \in BOOLEAN /\ waiter' = "flags"
      BY <2>2 DEF ClosePipes
    <3>2. UNCHANGED <<process, status, wrote, read, reader, asked, flagged, stdin, closed,
                         state, waitErr, sent, taken, open, caller, crashed>>
      BY <2>2 DEF ClosePipes
    <3>3. QED
      BY <3>1, <3>2 DEF TypeOK
  <2>3. CASE ReadFlags
    <3>1. stdin' = FALSE /\ asked' = flagged /\ waiter' = "state"
      BY <2>3 DEF ReadFlags
    <3>2. UNCHANGED <<process, status, wrote, read, reader, pipesOpen, flagged, closed,
                         state, waitErr, sent, taken, open, caller, crashed>>
      BY <2>3 DEF ReadFlags
    <3>3. /\ sent' \in Seq(Events) /\ taken' \in 0..Len(sent')
          /\ Len(sent') <= taken' + ChanCap
      BY <3>2 DEF TypeOK
    <3>4. stdin' \in BOOLEAN /\ asked' \in BOOLEAN
      BY <3>1 DEF TypeOK
    <3>5. QED
      BY <3>1, <3>2, <3>3, <3>4 DEF TypeOK
  <2>4. CASE SetState
    <3>1. state' \in {"stopped", "errored"}
      BY <2>4 DEF SetState
    <3>2. waitErr' \in BOOLEAN
      BY <2>4 DEF SetState
    <3>3. QED
      BY <2>4, <3>1, <3>2 DEF SetState, TypeOK
  <2>5. QED
    BY <1>8, <2>1, <2>2, <2>3, <2>4
<1>9. CASE EmitExit
  <2>1. Plain("exit_stopped") \in Events /\ Plain("exit_errored") \in Events
    BY DEF Plain, Events, Kinds, ExitKinds
  <2>2. QED
    BY <1>9, <2>1, EmitTyped DEF EmitExit, TypeOK
<1>10. ASSUME NEW c \in Callers, SendSignal(c) \/ SetFlag(c) PROVE TypeOK'
  <2>1. CASE SendSignal(c)
    BY <2>1 DEF SendSignal, TypeOK
  <2>2. CASE SetFlag(c)
    BY <2>2 DEF SetFlag, TypeOK
  <2>3. QED
    BY <1>10, <2>1, <2>2
<1>11. ASSUME NEW c \in Callers, EmitSignal(c) PROVE TypeOK'
  <2>1. Plain("signalled") \in Events
    BY DEF Plain, Events, Kinds
  <2>2. QED
    BY <1>11, <2>1, EmitTyped DEF EmitSignal, TypeOK
<1>12. CASE UNCHANGED vars
  BY <1>12 DEF vars, TypeOK
<1>13. QED
  BY <1>1, <1>2, <1>3, <1>4, <1>5, <1>6, <1>7, <1>8, <1>9, <1>10, <1>11, <1>12
     DEF Next, WaiterStep, ReaderStep, CallerStep

\* Typing of the runtime for every instance.
THEOREM StdioTyped == Spec => []TypeOK
<1>1. QED
  BY StdioInitTyped, StdioNextTyped, PTL DEF Spec

-----------------------------------------------------------------------------
(* The loops and the channel: a runtime that has not started has no loop,  *)
(* and a closed channel has none left.                                     *)

LoopInv ==
    /\ process = "none" => waiter = "off" /\ \A s \in Streams : reader[s] = "off"
    /\ ~open => LoopsDone

LEMMA LoopStep == TypeOK /\ LoopInv /\ [Next]_vars => LoopInv'
<1> SUFFICES ASSUME TypeOK, LoopInv, [Next]_vars PROVE LoopInv'
  OBVIOUS
<1> USE DEF processVars, readVars, waitVars, callVars, chanVars, LoopInv, LoopsDone
<1>1. ASSUME NEW e, Emit(e) PROVE open' = open
  BY <1>1 DEF Emit
<1>2. CASE Start
  BY <1>1, <1>2 DEF Start
<1>3. CASE CloseEvents
  BY <1>3 DEF CloseEvents
<1>4. CASE ProcessExit \/ Kill \/ Receive \/ CloseInput
  BY <1>4 DEF ProcessExit, Kill, Receive, CloseInput
<1>5. ASSUME NEW s \in Streams, ReadChunk(s) \/ ReadEnd(s) PROVE LoopInv'
  <2>1. reader[s] = "read" /\ process' = process /\ waiter' = waiter /\ open' = open
    BY <1>5 DEF ReadChunk, ReadEnd
  <2>2. QED
    BY <2>1
<1>6. ASSUME NEW s \in Streams, EmitChunk(s) PROVE LoopInv'
  <2>1. reader[s] = "emit" /\ process' = process /\ waiter' = waiter /\ open' = open
    BY <1>1, <1>6 DEF EmitChunk
  <2>2. QED
    BY <2>1
<1>7. CASE WaiterStep
  <2>1. /\ waiter \notin {"off", "done"} /\ reader' = reader /\ open' = open
        /\ process' = "none" => process = "none"
    BY <1>1, <1>7 DEF WaiterStep, Reap, ClosePipes, ReadFlags, SetState, EmitExit
  <2>2. QED
    BY <2>1
<1>8. ASSUME NEW c \in Callers, SendSignal(c) \/ CallerStep(c) PROVE LoopInv'
  <2>1. UNCHANGED <<process, waiter, reader, open>>
    BY <1>1, <1>8 DEF SendSignal, CallerStep, SetFlag, EmitSignal
  <2>2. QED
    BY <2>1
<1>9. ASSUME NEW s \in Streams, ProcessWrite(s) PROVE LoopInv'
  BY <1>9 DEF ProcessWrite
<1>10. CASE UNCHANGED vars
  BY <1>10 DEF vars
<1>11. QED
  BY <1>2, <1>3, <1>4, <1>5, <1>6, <1>7, <1>8, <1>9, <1>10 DEF Next, ReaderStep

LEMMA LoopInvHolds == Spec => []LoopInv
<1>1. Init => LoopInv
  BY DEF Init, LoopInv
<1>2. QED
  BY <1>1, LoopStep, StdioTyped, PTL DEF Spec

\* None of the goroutines of the runtime itself can panic.
THEOREM LoopsAreSafe == Spec => []LoopsNeverPanic
<1>1. LoopInv => LoopsNeverPanic
  BY DEF LoopInv, LoopsDone, LoopsNeverPanic
<1>2. QED
  BY <1>1, LoopInvHolds, PTL

-----------------------------------------------------------------------------
(* The outcome: waitLoop settles state and waitErr together before it emits*)
(* the only Exited event, and nothing changes them afterwards.             *)

Outcome == IF waitErr THEN "errored" ELSE "stopped"

OutcomeInv ==
    /\ waiter \in {"emit", "done"} => state = Outcome
    /\ waiter = "done" => Feed!Exited
    /\ \A i \in 1..Len(sent) : sent[i].kind \in ExitKinds =>
          /\ waiter = "done"
          /\ sent[i].kind = IF waitErr THEN "exit_errored" ELSE "exit_stopped"

\* An event that is not an exit leaves the exits of sent alone.
LEMMA EmitPlain ==
    ASSUME TypeOK, NEW e \in Events, Emit(e), e.kind \notin ExitKinds
    PROVE  /\ Len(sent') >= Len(sent) /\ Len(sent) \in Nat
           /\ \A i \in 1..Len(sent) : sent'[i] = sent[i]
           /\ \A i \in 1..Len(sent') : sent'[i].kind \in ExitKinds =>
                 i \in 1..Len(sent) /\ sent'[i] = sent[i]
<1>1. sent \in Seq(Events) /\ Len(sent) \in Nat
  BY DEF TypeOK
<1>2. CASE sent' = sent
  BY <1>1, <1>2
<1>3. CASE sent' = Append(sent, e)
  <2>1. /\ Len(sent') = Len(sent) + 1 /\ sent'[Len(sent) + 1] = e
        /\ \A i \in 1..Len(sent) : sent'[i] = sent[i]
    BY <1>1, <1>3
  <2>2. QED
    BY <1>1, <2>1
<1>4. QED
  BY <1>2, <1>3 DEF Emit

LEMMA OutcomeQuiet ==
    ASSUME TypeOK, OutcomeInv, state' = state, waitErr' = waitErr,
           waiter' = "done" <=> waiter = "done",
           waiter' = "emit" => waiter = "emit",
           sent' = sent
    PROVE  OutcomeInv'
  BY DEF OutcomeInv, Outcome, Feed!Exited, Feed!ExitKinds, ExitKinds

LEMMA OutcomeEmit ==
    ASSUME TypeOK, OutcomeInv, NEW e \in Events, Emit(e), e.kind \notin ExitKinds,
           UNCHANGED <<state, waitErr, waiter>>
    PROVE  OutcomeInv'
<1>1. /\ \A i \in 1..Len(sent) : sent'[i] = sent[i] /\ i \in 1..Len(sent')
      /\ \A i \in 1..Len(sent') : sent'[i].kind \in ExitKinds =>
            i \in 1..Len(sent) /\ sent'[i] = sent[i]
  BY EmitPlain
<1>2. waiter' = "done" => Feed!Exited'
  BY <1>1 DEF OutcomeInv, Feed!Exited
<1>3. QED
  BY <1>1, <1>2 DEF OutcomeInv, Outcome

LEMMA OutcomeStep == TypeOK /\ LoopInv /\ OutcomeInv /\ [Next]_vars => OutcomeInv'
<1> SUFFICES ASSUME TypeOK, LoopInv, OutcomeInv, [Next]_vars PROVE OutcomeInv'
  OBVIOUS
<1> USE DEF processVars, readVars, waitVars, callVars, chanVars
<1>1. CASE Start
  <2>1. Plain("started") \in Events /\ Plain("started").kind \notin ExitKinds
    BY DEF Plain, Events, Kinds, ExitKinds
  <2>2. waiter = "off" /\ waiter' = "wait" /\ waitErr' = waitErr /\ Emit(Plain("started"))
    BY <1>1 DEF Start, LoopInv
  <2>3. \A i \in 1..Len(sent') : sent'[i].kind \notin ExitKinds
    BY <2>1, <2>2, EmitPlain DEF OutcomeInv
  <2>4. QED
    BY <2>2, <2>3 DEF OutcomeInv
<1>2. CASE Receive \/ CloseEvents \/ CloseInput \/ ProcessExit \/ Kill
  BY <1>2, OutcomeQuiet DEF Receive, CloseEvents, CloseInput, ProcessExit, Kill
<1>3. ASSUME NEW s \in Streams, ProcessWrite(s) \/ ReadChunk(s) \/ ReadEnd(s) PROVE OutcomeInv'
  BY <1>3, OutcomeQuiet DEF ProcessWrite, ReadChunk, ReadEnd
<1>4. ASSUME NEW s \in Streams, EmitChunk(s) PROVE OutcomeInv'
  <2>1. Chunk(s, read[s]) \in Events /\ Chunk(s, read[s]).kind \notin ExitKinds
    BY MaxChunksAssumption DEF Chunk, Events, ExitKinds, TypeOK
  <2>2. QED
    BY <1>4, <2>1, OutcomeEmit DEF EmitChunk
<1>5. CASE Reap \/ ClosePipes \/ ReadFlags
  BY <1>5, OutcomeQuiet DEF Reap, ClosePipes, ReadFlags
<1>6. CASE SetState
  <2>1. waiter = "state" /\ waiter' = "emit" /\ sent' = sent /\ state' = Outcome'
    BY <1>6 DEF SetState, Outcome
  <2>2. QED
    BY <2>1 DEF OutcomeInv
<1>7. CASE EmitExit
  <2> DEFINE e == Plain(IF state = "stopped" THEN "exit_stopped" ELSE "exit_errored")
  <2>1. /\ waiter = "emit" /\ waiter' = "done" /\ Emit(e)
        /\ state' = state /\ waitErr' = waitErr /\ state = Outcome
    BY <1>7 DEF EmitExit, OutcomeInv
  <2>2. open
    BY <2>1 DEF LoopInv, LoopsDone
  <2>3. sent' = Append(sent, e) /\ sent \in Seq(Events) /\ Len(sent) \in Nat
    BY <2>1, <2>2 DEF Emit, TypeOK
  <2>4. e.kind = IF waitErr THEN "exit_errored" ELSE "exit_stopped"
    BY <2>1 DEF Outcome, Plain
  <2> HIDE DEF e
  <2>5. /\ Len(sent') = Len(sent) + 1 /\ sent'[Len(sent) + 1] = e
        /\ \A i \in 1..Len(sent) : sent'[i] = sent[i]
    BY <2>3
  <2>6. \A i \in 1..Len(sent) : sent[i].kind \notin ExitKinds
    BY <2>1 DEF OutcomeInv
  <2>7. Feed!Exited'
    <3>1. Len(sent) + 1 \in 1..Len(sent') /\ sent'[Len(sent) + 1].kind \in ExitKinds
      BY <2>3, <2>4, <2>5 DEF ExitKinds
    <3>2. QED
      BY <3>1 DEF Feed!Exited, Feed!ExitKinds, ExitKinds
  <2>8. \A i \in 1..Len(sent') : sent'[i].kind \in ExitKinds => sent'[i] = e
    BY <2>3, <2>5, <2>6
  <2>9. QED
    BY <2>1, <2>4, <2>7, <2>8 DEF OutcomeInv, Outcome
<1>8. ASSUME NEW c \in Callers, SendSignal(c) \/ SetFlag(c) PROVE OutcomeInv'
  BY <1>8, OutcomeQuiet DEF SendSignal, SetFlag
<1>9. ASSUME NEW c \in Callers, EmitSignal(c) PROVE OutcomeInv'
  <2>1. Plain("signalled") \in Events /\ Plain("signalled").kind \notin ExitKinds
    BY DEF Plain, Events, Kinds, ExitKinds
  <2>2. QED
    BY <1>9, <2>1, OutcomeEmit DEF EmitSignal
<1>10. CASE UNCHANGED vars
  BY <1>10, OutcomeQuiet DEF vars
<1>11. QED
  BY <1>1, <1>2, <1>3, <1>4, <1>5, <1>6, <1>7, <1>8, <1>9, <1>10
     DEF Next, WaiterStep, ReaderStep, CallerStep

LEMMA OutcomeInvHolds == Spec => []OutcomeInv
<1>1. Init => OutcomeInv
  BY DEF Init, OutcomeInv
<1>2. QED
  BY <1>1, OutcomeStep, LoopInvHolds, StdioTyped, PTL DEF Spec

\* Wait, State and the Exited event tell the same story in every execution.
THEOREM AnswersAgree == Spec => []OutcomeAgrees
<1>1. TypeOK /\ OutcomeInv => OutcomeAgrees
  BY DEF OutcomeInv, OutcomeAgrees, Outcome, TypeOK
<1>2. QED
  BY <1>1, OutcomeInvHolds, StdioTyped, PTL

-----------------------------------------------------------------------------
(* A stop that is honoured.  Reap is the one way out of cmd.Wait and needs *)
(* a process that has exited: a flag set while the process ran is set      *)
(* before waitLoop looks at it, and stays set.                             *)

RunningInv == process = "running" => waiter = "wait" /\ state = "running"

\* What a request to stop, once flagged, leaves waitLoop no way around.
Honoured ==
    /\ flagged /\ process # "none"
    /\ waiter = "state" => asked
    /\ state # "errored"

LEMMA RunningStep == RunningInv /\ [Next]_vars => RunningInv'
<1> SUFFICES ASSUME RunningInv, [Next]_vars PROVE RunningInv'
  OBVIOUS
<1> USE DEF processVars, readVars, waitVars, callVars, chanVars, RunningInv
<1>1. CASE Start
  BY <1>1 DEF Start
<1>2. CASE ProcessExit \/ Kill
  BY <1>2 DEF ProcessExit, Kill
<1>3. CASE WaiterStep
  <2>1. waiter # "wait" \/ process' = "reaped"
    BY <1>3 DEF WaiterStep, Reap, ClosePipes, ReadFlags, SetState, EmitExit
  <2>2. process' = "running" => process = "running"
    BY <1>3 DEF WaiterStep, Reap, ClosePipes, ReadFlags, SetState, EmitExit
  <2>3. QED
    BY <2>1, <2>2
<1>4. ASSUME UNCHANGED <<process, waiter, state>> PROVE RunningInv'
  BY <1>4
<1>5. CASE Receive \/ CloseEvents \/ CloseInput \/ UNCHANGED vars
  BY <1>4, <1>5 DEF Receive, CloseEvents, CloseInput, vars
<1>6. ASSUME NEW s \in Streams, ProcessWrite(s) \/ ReaderStep(s) PROVE RunningInv'
  BY <1>4, <1>6 DEF ProcessWrite, ReaderStep, ReadChunk, EmitChunk, ReadEnd
<1>7. ASSUME NEW c \in Callers, SendSignal(c) \/ CallerStep(c) PROVE RunningInv'
  BY <1>4, <1>7 DEF SendSignal, CallerStep, SetFlag, EmitSignal
<1>8. QED
  BY <1>1, <1>2, <1>3, <1>5, <1>6, <1>7 DEF Next

LEMMA HonouredStep == Honoured /\ [Next]_vars => Honoured'
<1> SUFFICES ASSUME Honoured, [Next]_vars PROVE Honoured'
  OBVIOUS
<1> USE DEF processVars, readVars, waitVars, callVars, chanVars, Honoured
<1>1. CASE Start
  BY <1>1 DEF Start
<1>2. CASE ProcessExit \/ Kill
  BY <1>2 DEF ProcessExit, Kill
<1>3. CASE Reap \/ ClosePipes
  BY <1>3 DEF Reap, ClosePipes
<1>4. CASE ReadFlags
  BY <1>4 DEF ReadFlags
<1>5. CASE SetState
  <2>1. asked /\ state' = "stopped" /\ waiter' = "emit" /\ UNCHANGED <<flagged, process>>
    BY <1>5 DEF SetState
  <2>2. QED
    BY <2>1
<1>6. CASE EmitExit
  BY <1>6 DEF EmitExit
<1>7. ASSUME UNCHANGED <<process, waiter, asked, state>>, flagged' = TRUE \/ flagged' = flagged
      PROVE  Honoured'
  BY <1>7
<1>8. CASE Receive \/ CloseEvents \/ CloseInput \/ UNCHANGED vars
  BY <1>7, <1>8 DEF Receive, CloseEvents, CloseInput, vars
<1>9. ASSUME NEW s \in Streams, ProcessWrite(s) \/ ReaderStep(s) PROVE Honoured'
  BY <1>7, <1>9 DEF ProcessWrite, ReaderStep, ReadChunk, EmitChunk, ReadEnd
<1>10. ASSUME NEW c \in Callers, SendSignal(c) \/ CallerStep(c) PROVE Honoured'
  BY <1>7, <1>10 DEF SendSignal, CallerStep, SetFlag, EmitSignal
<1>11. QED
  BY <1>1, <1>2, <1>3, <1>4, <1>5, <1>6, <1>8, <1>9, <1>10 DEF Next, WaiterStep

\* A Stop or an Interrupt that has set its flag while the process runs is
\* honoured for good: no later step reports the session errored.
THEOREM StopAlwaysHonoured == Spec => StopIsHonoured
<1>1. Init => RunningInv
  BY DEF Init, RunningInv
<1>2. RunningInv /\ flagged /\ process = "running" => Honoured
  BY DEF RunningInv, Honoured
<1>3. Honoured => state # "errored"
  BY DEF Honoured
<1>4. QED
  BY <1>1, <1>2, <1>3, RunningStep, HonouredStep, PTL DEF Spec, StopIsHonoured

-----------------------------------------------------------------------------
(* The refinement.                                                         *)

\* A step that neither emits nor changes how much a readLoop has given.
LEMMA FeedQuiet ==
    ASSUME sent' = sent, open' = open, read' = read,
           \A s \in Streams : reader'[s] = "emit" <=> reader[s] = "emit"
    PROVE  UNCHANGED Feed!vars
  BY DEF Feed!vars, Given

\* An emitted event that is no output is a note of the feed, or a panic.
LEMMA FeedNote ==
    ASSUME NEW kind \in {"started", "signalled"}, Emit(Plain(kind)), Given' = Given
    PROVE  Feed!Next \/ UNCHANGED Feed!vars
<1>1. CASE open /\ sent' = Append(sent, Plain(kind)) /\ open' = open
  <2>1. Feed!Note(kind)
    BY <1>1 DEF Feed!Note, Feed!Send, Feed!Plain, Plain
  <2>2. QED
    BY <2>1 DEF Feed!Next, Feed!NoteKinds
<1>2. CASE sent' = sent /\ open' = open
  BY <1>2 DEF Feed!vars
<1>3. QED
  BY <1>1, <1>2 DEF Emit

LEMMA StdioStepRefines ==
    TypeOK /\ LoopInv /\ OutcomeInv /\ [Next]_vars => [Feed!Next]_(Feed!vars)
<1> SUFFICES ASSUME TypeOK, LoopInv, OutcomeInv, [Next]_vars
             PROVE  Feed!Next \/ UNCHANGED Feed!vars
  OBVIOUS
<1> USE DEF processVars, readVars, waitVars, callVars, chanVars
<1>1. CASE Start
  <2>1. Given' = Given
    BY <1>1 DEF Start, LoopInv, Given
  <2>2. QED
    BY <1>1, <2>1, FeedNote DEF Start
<1>2. CASE CloseEvents
  <2>1. open /\ open' = FALSE /\ sent' = sent /\ Given' = Given /\ waiter = "done"
    BY <1>2 DEF CloseEvents, LoopsDone, Given
  <2>2. Feed!Close
    BY <2>1 DEF Feed!Close, OutcomeInv
  <2>3. QED
    BY <2>2 DEF Feed!Next
<1>3. CASE Receive \/ CloseInput \/ ProcessExit \/ Kill
  BY <1>3, FeedQuiet DEF Receive, CloseInput, ProcessExit, Kill
<1>4. ASSUME NEW s \in Streams, ProcessWrite(s) PROVE UNCHANGED Feed!vars
  BY <1>4, FeedQuiet DEF ProcessWrite
<1>5. ASSUME NEW s \in Streams, ReadChunk(s) PROVE UNCHANGED Feed!vars
  <2>1. /\ read[s] \in Nat /\ reader[s] = "read"
        /\ read' = [read EXCEPT ![s] = read[s] + 1]
        /\ reader' = [reader EXCEPT ![s] = "emit"]
    BY <1>5, MaxChunksAssumption DEF ReadChunk, TypeOK
  <2>2. Given' = Given
    BY <2>1 DEF Given, TypeOK
  <2>3. QED
    BY <1>5, <2>2 DEF ReadChunk, Feed!vars
<1>6. ASSUME NEW s \in Streams, EmitChunk(s) PROVE Feed!Next
  <2>1. /\ read[s] \in Nat /\ reader[s] = "emit" /\ read' = read
        /\ reader' = [reader EXCEPT ![s] = "read"]
    BY <1>6, MaxChunksAssumption DEF EmitChunk, TypeOK
  <2>2. open
    BY <2>1 DEF LoopInv, LoopsDone
  <2>3. sent' = Append(sent, Chunk(s, read[s])) /\ open' = open
    BY <1>6, <2>2 DEF EmitChunk, Emit
  <2>4. Given[s] + 1 = read[s]
    BY <2>1 DEF Given
  <2>5. Given' = [Given EXCEPT ![s] = Given[s] + 1]
    BY <2>1, <2>4 DEF Given, TypeOK
  <2>6. Feed!Output(s)
    BY <2>2, <2>3, <2>4, <2>5 DEF Feed!Output, Feed!Send, Feed!Chunk, Chunk
  <2>7. QED
    BY <2>6 DEF Feed!Next
<1>7. ASSUME NEW s \in Streams, ReadEnd(s) PROVE UNCHANGED Feed!vars
  BY <1>7, FeedQuiet DEF ReadEnd, TypeOK
<1>8. CASE Reap \/ ClosePipes \/ ReadFlags \/ SetState
  BY <1>8, FeedQuiet DEF Reap, ClosePipes, ReadFlags, SetState
<1>9. CASE EmitExit
  <2> DEFINE kind == IF state = "stopped" THEN "exit_stopped" ELSE "exit_errored"
  <2>1. waiter = "emit" /\ Given' = Given /\ Emit(Plain(kind))
    BY <1>9 DEF EmitExit, Given
  <2>2. open /\ ~Feed!Exited
    BY <2>1 DEF LoopInv, LoopsDone, OutcomeInv, Feed!Exited, Feed!ExitKinds, ExitKinds
  <2>3. sent' = Append(sent, Plain(kind)) /\ open' = open
    BY <2>1, <2>2 DEF Emit
  <2>4. Feed!Exit(kind) /\ kind \in Feed!ExitKinds
    BY <2>1, <2>2, <2>3 DEF Feed!Exit, Feed!Send, Feed!Plain, Plain, Feed!ExitKinds
  <2>5. QED
    BY <2>4 DEF Feed!Next
<1>10. ASSUME NEW c \in Callers, SendSignal(c) \/ SetFlag(c) PROVE UNCHANGED Feed!vars
  BY <1>10, FeedQuiet DEF SendSignal, SetFlag
<1>11. ASSUME NEW c \in Callers, EmitSignal(c) PROVE Feed!Next \/ UNCHANGED Feed!vars
  BY <1>11, FeedNote DEF EmitSignal, Given
<1>12. CASE UNCHANGED vars
  BY <1>12, FeedQuiet DEF vars
<1>13. QED
  BY <1>1, <1>2, <1>3, <1>4, <1>5, <1>6, <1>7, <1>8, <1>9, <1>10, <1>11, <1>12
     DEF Next, WaiterStep, ReaderStep, CallerStep

\* The stdio runtime is a RuntimeFeed: one exit, each stream in order without
\* a gap, nothing after the channel is closed.
THEOREM StdioImplementsFeed == Spec => ImplementsRuntimeFeed
<1>1. Init => Feed!Init
  BY DEF Init, Feed!Init, Given
<1>2. QED
  BY <1>1, StdioStepRefines, StdioTyped, LoopInvHolds, OutcomeInvHolds, PTL
     DEF Spec, ImplementsRuntimeFeed, Feed!Spec
=============================================================================
