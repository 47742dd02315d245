----------------------------- MODULE PtyProofs -----------------------------
(***************************************************************************)
(* The pseudo-terminal runtime implements RuntimeFeed in both builds, for  *)
(* every number of callers, every capacity of the channel and every amount *)
(* of output, and it reads its terminal to the end.                        *)
(***************************************************************************)
EXTENDS PtyRuntime, TLAPS

-----------------------------------------------------------------------------
(* Its loops, its channel and the terminal.                                *)

\* A runtime that has not started has no loop and a closed channel has none
\* left; an agent that runs holds its terminal, and a readLoop that left it
\* before a Close left a terminal that nobody can write to again.
LoopInv ==
    /\ read \in Nat /\ wrote \in Nat
    /\ process = "none" => reader = "off" /\ waiter = "off"
    /\ process = "running" => "agent" \in holders
    /\ master = "closed" => closed
    /\ ~open => reader = "done" /\ waiter = "done"
    /\ reader \in {"close", "done"} /\ ~closed => holders = {} /\ read = wrote

LEMMA EmitKeepsOpen == ASSUME NEW e, Emit(e) PROVE open' = open
  BY DEF Emit

LEMMA LoopStep == LoopInv /\ [Next]_vars => LoopInv'
<1> SUFFICES ASSUME LoopInv, [Next]_vars PROVE LoopInv'
  OBVIOUS
<1> USE DEF processVars, readVars, waitVars, callVars, chanVars, LoopInv
<1>1. CASE Start
  <2>1. reader = "off" /\ "agent" \in holders' /\ open' = open /\ open
    BY <1>1, EmitKeepsOpen DEF Start, SlaveHolders
  <2>2. QED
    BY <1>1, <2>1 DEF Start
<1>2. CASE ProcessWrite \/ ProcessForks
  BY <1>2 DEF ProcessWrite, ProcessForks
<1>3. CASE HelperEnds \/ ProcessExit
  BY <1>3 DEF HelperEnds, ProcessExit
<1>4. CASE Close
  <2>1. closed' /\ UNCHANGED <<read, wrote, reader, waiter, open>>
    BY <1>4 DEF Close
  <2>2. process' \notin {"none", "running"}
    BY <1>4 DEF Close
  <2>3. QED
    BY <2>1, <2>2
<1>5. CASE Receive \/ CloseEvents
  BY <1>5 DEF Receive, CloseEvents
<1>6. CASE ReadChunk \/ ReadEnd
  BY <1>6 DEF ReadChunk, ReadEnd
<1>7. CASE EmitChunk
  BY <1>7, EmitKeepsOpen DEF EmitChunk
<1>8. CASE CloseMaster
  <2>1. /\ reader = "close" /\ reader' = "done" /\ master' = "nil"
        /\ holders' = holders \ {"server"}
        /\ UNCHANGED <<process, wrote, read, waiter, closed, open>>
    BY <1>8 DEF CloseMaster
  <2>2. process = "running" => "agent" \in holders'
    BY <2>1
  <2>3. QED
    BY <2>1, <2>2
<1>9. CASE WaiterStep
  <2>1. /\ waiter \notin {"off", "done"} /\ open' = open /\ process # "none"
        /\ process' = process \/ process' = "reaped"
        /\ UNCHANGED <<read, wrote, reader, holders, master, closed>>
    BY <1>9, EmitKeepsOpen
       DEF WaiterStep, Reap, ReadFlags, SetState, EmitExit
  <2>2. QED
    BY <2>1
<1>10. ASSUME NEW c \in Callers, SendSignal(c) \/ SetSize(c) \/ CallerStep(c)
      PROVE  LoopInv'
  <2>1. UNCHANGED <<process, read, wrote, reader, waiter, holders, master, closed, open>>
    BY <1>10, EmitKeepsOpen
       DEF SendSignal, SetSize, CallerStep, SetFlag, EmitSignal,
           EmitResize
  <2>2. QED
    BY <2>1
<1>11. CASE UNCHANGED vars
  BY <1>11 DEF vars
<1>12. QED
  BY <1>1, <1>2, <1>3, <1>4, <1>5, <1>6, <1>7, <1>8, <1>9, <1>10, <1>11
     DEF Next, ReaderStep

LEMMA LoopInvHolds == Spec => []LoopInv
<1>1. Init => LoopInv
  BY DEF Init, LoopInv
<1>2. QED
  BY <1>1, LoopStep, PTL DEF Spec

\* Whatever the helpers of the agent do and in whatever order the loops end,
\* a terminal that was not closed is read to its end.
THEOREM TerminalIsReadToItsEnd == Spec => []TerminalIsDrained
<1>1. LoopInv => TerminalIsDrained
  BY DEF LoopInv, TerminalIsDrained
<1>2. QED
  BY <1>1, LoopInvHolds, PTL

-----------------------------------------------------------------------------
(* The exit: the waitLoop alone emits one, and only once.                  *)

Kinds == Feed!ExitKinds \union Feed!NoteKinds
Events == [kind : Kinds] \union [kind : {"output"}, stream : {Terminal}, n : Nat]

ExitInv ==
    /\ sent \in Seq(Events)
    /\ waiter = "done" => Feed!Exited
    /\ \A i \in 1..Len(sent) : sent[i].kind \in Feed!ExitKinds => waiter = "done"

\* A step that emits at most one event that is no exit.
LEMMA ExitQuiet ==
    ASSUME ExitInv, waiter' = "done" <=> waiter = "done",
           \/ sent' = sent
           \/ \E e \in Events : sent' = Append(sent, e) /\ e.kind \notin Feed!ExitKinds
    PROVE  ExitInv'
<1>1. CASE sent' = sent
  BY <1>1 DEF ExitInv, Feed!Exited, Feed!ExitKinds
<1>2. ASSUME NEW e \in Events, sent' = Append(sent, e), e.kind \notin Feed!ExitKinds
      PROVE  ExitInv'
  <2>1. sent \in Seq(Events) /\ Len(sent) \in Nat
    BY DEF ExitInv
  <2>2. /\ sent' \in Seq(Events) /\ Len(sent') = Len(sent) + 1
        /\ sent'[Len(sent) + 1] = e
        /\ \A i \in 1..Len(sent) : sent'[i] = sent[i]
    BY <1>2, <2>1
  <2>3. \A i \in 1..Len(sent') : sent'[i].kind \in Feed!ExitKinds =>
           i \in 1..Len(sent) /\ sent'[i] = sent[i]
    BY <1>2, <2>1, <2>2
  <2>4. Feed!Exited => Feed!Exited'
    BY <2>1, <2>2 DEF Feed!Exited
  <2>5. QED
    BY <2>2, <2>3, <2>4 DEF ExitInv
<1>3. QED
  BY <1>1, <1>2

\* What the goroutines emit besides the exit.
LEMMA NotesAreNoExit ==
    ASSUME NEW kind \in Feed!NoteKinds, Emit(Plain(kind)), ExitInv,
           waiter' = "done" <=> waiter = "done"
    PROVE  ExitInv'
<1>1. Plain(kind) \in Events /\ Plain(kind).kind \notin Feed!ExitKinds
  BY DEF Plain, Events, Kinds, Feed!NoteKinds, Feed!ExitKinds
<1>2. QED
  BY <1>1, ExitQuiet DEF Emit

LEMMA ExitStep == LoopInv /\ ExitInv /\ [Next]_vars => ExitInv'
<1> SUFFICES ASSUME LoopInv, ExitInv, [Next]_vars PROVE ExitInv'
  OBVIOUS
<1> USE DEF processVars, readVars, waitVars, callVars, chanVars
<1>1. CASE Start
  <2>1. waiter = "off" /\ waiter' = "wait" /\ Emit(Plain("started"))
    BY <1>1 DEF Start, LoopInv
  <2>2. QED
    BY <2>1, NotesAreNoExit DEF Feed!NoteKinds
<1>2. CASE ProcessWrite \/ ProcessForks \/ HelperEnds \/ ProcessExit \/ Close
  BY <1>2, ExitQuiet
     DEF ProcessWrite, ProcessForks, HelperEnds, ProcessExit, Close
<1>3. CASE Receive \/ CloseEvents \/ ReadChunk \/ ReadEnd \/ CloseMaster
  BY <1>3, ExitQuiet
     DEF Receive, CloseEvents, ReadChunk, ReadEnd, CloseMaster
<1>4. CASE EmitChunk
  <2>1. Chunk(read) \in Events /\ Chunk(read).kind \notin Feed!ExitKinds
    BY DEF Chunk, Events, Feed!ExitKinds, LoopInv
  <2>2. QED
    BY <1>4, <2>1, ExitQuiet DEF EmitChunk, Emit
<1>5. CASE Reap \/ ReadFlags \/ SetState
  BY <1>5, ExitQuiet DEF Reap, ReadFlags, SetState
<1>6. CASE EmitExit
  <2> DEFINE e == Plain(IF state = "stopped" THEN "exit_stopped" ELSE "exit_errored")
  <2>1. waiter = "emit" /\ waiter' = "done" /\ open
    BY <1>6 DEF EmitExit, LoopInv
  <2>2. e \in Events /\ e.kind \in Feed!ExitKinds
    BY DEF Plain, Events, Kinds, Feed!ExitKinds
  <2>3. sent' = Append(sent, e) /\ sent \in Seq(Events) /\ Len(sent) \in Nat
    BY <1>6, <2>1 DEF EmitExit, Emit, ExitInv
  <2> HIDE DEF e
  <2>4. /\ sent' \in Seq(Events) /\ Len(sent) + 1 \in 1..Len(sent')
        /\ sent'[Len(sent) + 1] = e
    BY <2>2, <2>3
  <2>5. Feed!Exited'
    BY <2>2, <2>4 DEF Feed!Exited, Feed!ExitKinds
  <2>6. QED
    BY <2>1, <2>4, <2>5 DEF ExitInv
<1>7. ASSUME NEW c \in Callers, SendSignal(c) \/ SetSize(c) \/ SetFlag(c)
      PROVE  ExitInv'
  BY <1>7, ExitQuiet DEF SendSignal, SetSize, SetFlag
<1>8. ASSUME NEW c \in Callers, EmitSignal(c) \/ EmitResize(c) PROVE ExitInv'
  BY <1>8, NotesAreNoExit DEF EmitSignal, EmitResize, Feed!NoteKinds
<1>9. CASE UNCHANGED vars
  BY <1>9, ExitQuiet DEF vars
<1>10. QED
  BY <1>1, <1>2, <1>3, <1>4, <1>5, <1>6, <1>7, <1>8, <1>9
     DEF Next, ReaderStep, WaiterStep, CallerStep

LEMMA ExitInvHolds == Spec => []ExitInv
<1>1. Init => ExitInv
  BY DEF Init, ExitInv
<1>2. QED
  BY <1>1, ExitStep, LoopInvHolds, PTL DEF Spec

-----------------------------------------------------------------------------
(* The refinement.                                                         *)

\* How much of the terminal the channel has been given.
Given == [s \in {Terminal} |-> IF reader = "emit" THEN read - 1 ELSE read]

LEMMA FeedQuiet ==
    ASSUME sent' = sent, open' = open, Given' = Given
    PROVE  UNCHANGED Feed!vars
  BY DEF Feed!vars, Given

LEMMA FeedNote ==
    ASSUME NEW kind \in Feed!NoteKinds, Emit(Plain(kind)), Given' = Given
    PROVE  Feed!Next \/ UNCHANGED Feed!vars
<1>1. CASE open /\ sent' = Append(sent, Plain(kind)) /\ open' = open
  <2>1. Feed!Note(kind)
    BY <1>1 DEF Feed!Note, Feed!Send, Feed!Plain, Plain, Given
  <2>2. QED
    BY <2>1 DEF Feed!Next
<1>2. CASE sent' = sent /\ open' = open
  BY <1>2, FeedQuiet
<1>3. QED
  BY <1>1, <1>2 DEF Emit

LEMMA StepRefines ==
    LoopInv /\ ExitInv /\ [Next]_vars => [Feed!Next]_(Feed!vars)
<1> SUFFICES ASSUME LoopInv, ExitInv, [Next]_vars
             PROVE  Feed!Next \/ UNCHANGED Feed!vars
  OBVIOUS
<1> USE DEF processVars, readVars, waitVars, callVars, chanVars
<1>1. CASE Start
  <2>1. Given' = Given /\ Emit(Plain("started"))
    BY <1>1 DEF Start, LoopInv, Given
  <2>2. QED
    BY <2>1, FeedNote DEF Feed!NoteKinds
<1>2. CASE CloseEvents
  <2>1. open /\ open' = FALSE /\ sent' = sent /\ Given' = Given /\ waiter = "done"
    BY <1>2 DEF CloseEvents, Given
  <2>2. Feed!Close
    BY <2>1 DEF Feed!Close, ExitInv, Given
  <2>3. QED
    BY <2>2 DEF Feed!Next
<1>3. CASE ProcessWrite \/ ProcessForks \/ HelperEnds \/ ProcessExit
           \/ Close \/ Receive
  BY <1>3, FeedQuiet
     DEF ProcessWrite, ProcessForks, HelperEnds, ProcessExit, Close,
         Receive, Given
<1>4. CASE ReadChunk \/ ReadEnd \/ CloseMaster
  <2>1. Given' = Given
    BY <1>4 DEF ReadChunk, ReadEnd, CloseMaster, Given, LoopInv
  <2>2. QED
    BY <1>4, <2>1, FeedQuiet DEF ReadChunk, ReadEnd, CloseMaster
<1>5. CASE EmitChunk
  <2>1. reader = "emit" /\ reader' = "read" /\ read' = read /\ read \in Nat /\ open
    BY <1>5 DEF EmitChunk, LoopInv
  <2>2. sent' = Append(sent, Chunk(read)) /\ open' = open
    BY <1>5, <2>1 DEF EmitChunk, Emit
  <2>3. /\ Given[Terminal] + 1 = read
        /\ Given' = [Given EXCEPT ![Terminal] = Given[Terminal] + 1]
    BY <2>1 DEF Given
  <2>4. Feed!Output(Terminal)
    BY <2>1, <2>2, <2>3 DEF Feed!Output, Feed!Send, Feed!Chunk, Chunk, Given
  <2>5. QED
    BY <2>4 DEF Feed!Next
<1>6. CASE Reap \/ ReadFlags \/ SetState
  BY <1>6, FeedQuiet DEF Reap, ReadFlags, SetState, Given
<1>7. CASE EmitExit
  <2> DEFINE kind == IF state = "stopped" THEN "exit_stopped" ELSE "exit_errored"
  <2>1. waiter = "emit" /\ Given' = Given /\ Emit(Plain(kind))
    BY <1>7 DEF EmitExit, Given
  <2>2. open /\ ~Feed!Exited
    BY <2>1 DEF LoopInv, ExitInv, Feed!Exited
  <2>3. sent' = Append(sent, Plain(kind)) /\ open' = open
    BY <2>1, <2>2 DEF Emit
  <2>4. kind \in Feed!ExitKinds
    BY DEF Feed!ExitKinds
  <2>5. Feed!Exit(kind)
    BY <2>1, <2>2, <2>3 DEF Feed!Exit, Feed!Send, Feed!Plain, Plain, Given
  <2>6. QED
    BY <2>4, <2>5 DEF Feed!Next
<1>8. ASSUME NEW c \in Callers, SendSignal(c) \/ SetSize(c) \/ SetFlag(c)
      PROVE  UNCHANGED Feed!vars
  BY <1>8, FeedQuiet DEF SendSignal, SetSize, SetFlag, Given
<1>9. ASSUME NEW c \in Callers, EmitSignal(c) \/ EmitResize(c)
      PROVE  Feed!Next \/ UNCHANGED Feed!vars
  BY <1>9, FeedNote DEF EmitSignal, EmitResize, Given, Feed!NoteKinds
<1>10. CASE UNCHANGED vars
  BY <1>10, FeedQuiet DEF vars, Given
<1>11. QED
  BY <1>1, <1>2, <1>3, <1>4, <1>5, <1>6, <1>7, <1>8, <1>9, <1>10
     DEF Next, ReaderStep, WaiterStep, CallerStep

\* The pseudo-terminal runtime is a RuntimeFeed in both builds: one exit, the
\* terminal in order without a gap, nothing after the channel is closed.
THEOREM PtyImplementsFeed == Spec => ImplementsRuntimeFeed
<1>1. Init => Feed!Init
  BY DEF Init, Feed!Init
<1>2. QED
  BY <1>1, StepRefines, LoopInvHolds, ExitInvHolds, PTL
     DEF Spec, ImplementsRuntimeFeed, Feed!Spec
=============================================================================
