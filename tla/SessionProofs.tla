--------------------------- MODULE SessionProofs ---------------------------
(***************************************************************************)
(* What Session promises for every number of handlers, every buffer size   *)
(* and every number of events, whatever the interleaving.                  *)
(***************************************************************************)
EXTENDS Session, SequenceTheorems, TLAPS

\* Appending to a full or to a partly filled ring yields a sequence that is
\* at most BufferSize long and ends with the new event.
LEMMA RingProperties ==
    ASSUME NEW buf \in Seq(Nat), NEW e \in Nat, Len(buf) <= BufferSize
    PROVE  /\ Ring(buf, e) \in Seq(Nat)
           /\ Len(Ring(buf, e)) = IF Len(buf) = BufferSize THEN BufferSize ELSE Len(buf) + 1
           /\ Ring(buf, e)[Len(Ring(buf, e))] = e
           /\ \A i \in 1..(Len(Ring(buf, e)) - 1) :
                 Ring(buf, e)[i] = IF Len(buf) = BufferSize THEN buf[i + 1] ELSE buf[i]
<1> USE BufferSizeAssumption DEF Ring
<1>1. CASE Len(buf) = BufferSize
  <2>1. buf # <<>>
    BY <1>1
  <2>2. /\ Tail(buf) \in Seq(Nat)
        /\ Len(Tail(buf)) = BufferSize - 1
        /\ \A i \in 1..(BufferSize - 1) : Tail(buf)[i] = buf[i + 1]
    BY <1>1, <2>1
  <2>3. QED
    BY <1>1, <2>2
<1>2. CASE Len(buf) # BufferSize
  BY <1>2
<1>3. QED
  BY <1>1, <1>2

-----------------------------------------------------------------------------
(* Typing.                                                                 *)

LEMMA AtTyped ==
    ASSUME NEW place, place \in {"off", "idle", "snapshot", "guard", "transition",
                                 "assign", "append", "check", "send", "done"}
    PROVE  At(place) \in Frame
  BY DEF At, Frame, Raw, Event, Kinds, States

LEMMA InitTyped == Init => TypeOK
<1> SUFFICES ASSUME Init PROVE TypeOK
  OBVIOUS
<1>1. frame \in [Actors -> Frame]
  BY AtTyped DEF Init
<1>2. commands \in [Handlers -> 0..MaxCommands] /\ outputs \in 0..MaxOutput
  BY BoundsAssumption DEF Init
<1>3. machine \in States /\ modelState \in States
  BY DEF Init, States
<1>4. buffer \in Seq(Nat) /\ events \in Seq(Event) /\ rtEvents \in Seq(Event)
  BY DEF Init
<1>5. seq \in Nat /\ closed \in BOOLEAN /\ crashed \in BOOLEAN
        /\ rtOpen \in BOOLEAN /\ rtExited \in BOOLEAN
  BY DEF Init
<1>6. QED
  BY <1>1, <1>2, <1>3, <1>4, <1>5 DEF TypeOK

\* The frame after Goto, Return and the end of a record is a frame again.
LEMMA GotoTyped ==
    ASSUME TypeOK, NEW a \in Actors,
           NEW place \in {"off", "idle", "snapshot", "guard", "transition",
                          "assign", "append", "check", "send", "done"},
           Goto(a, place)
    PROVE  frame' \in [Actors -> Frame]
  BY DEF Goto, TypeOK, Frame

LEMMA ReturnTyped ==
    ASSUME TypeOK, NEW a \in Actors, Return(a)
    PROVE  frame' \in [Actors -> Frame]
  BY AtTyped DEF Return, TypeOK

LEMMA EndRecordTyped ==
    ASSUME TypeOK, NEW a \in Actors, EndRecord(a)
    PROVE  frame' \in [Actors -> Frame]
<1>1. CASE a = Drain /\ frame[a].event.kind \in ExitKinds
  <2>1. \A to \in States : [At("transition") EXCEPT !.to = to] \in Frame
    BY AtTyped DEF At, Frame
  <2>2. ExitState(frame[a].event.kind) \in States
    BY DEF ExitState, States
  <2>3. QED
    BY <1>1, <2>1, <2>2 DEF EndRecord, TypeOK
<1>2. CASE ~(a = Drain /\ frame[a].event.kind \in ExitKinds)
  BY <1>2, ReturnTyped DEF EndRecord
<1>3. QED
  BY <1>1, <1>2

LEMMA NextTyped == TypeOK /\ [Next]_vars => TypeOK'
<1> SUFFICES ASSUME TypeOK, [Next]_vars PROVE TypeOK'
  OBVIOUS
<1> USE BufferSizeAssumption, BoundsAssumption
<1>0. Drain \in Actors /\ Pump \in Actors /\ Handlers \subseteq Actors
  BY DEF Actors
<1>1. CASE New
  <2>1. [seq |-> seq + 1, kind |-> "state_changed"] \in Event
    BY DEF TypeOK, Event, Kinds
  <2>2. buffer' \in Seq(Nat) /\ events' \in Seq(Event)
    BY <1>1, <2>1 DEF New, TypeOK, Ring
  <2>3. frame' \in [Actors -> Frame]
    BY <1>1, AtTyped DEF New
  <2>4. QED
    BY <1>1, <2>2, <2>3 DEF New, TypeOK, runtimeVars, States
<1>2. CASE NewFails
  BY <1>2 DEF NewFails, TypeOK, chanVars, bufferVars, runtimeVars, States
<1>3. CASE RuntimeOutput
  <2>1. \A k \in {"output", "request"} : Raw(k) \in Event
    BY DEF Raw, Event, Kinds
  <2>2. rtEvents' \in Seq(Event)
    BY <1>3, <2>1 DEF RuntimeOutput, TypeOK
  <2>3. outputs' \in 0..MaxOutput
    BY <1>3 DEF RuntimeOutput, TypeOK
  <2>4. QED
    BY <1>3, <2>2, <2>3 DEF RuntimeOutput, TypeOK, stateVars, chanVars, bufferVars
<1>4. CASE RuntimeExit
  <2>1. \A k \in ExitKinds : Raw(k) \in Event
    BY DEF Raw, Event, Kinds, ExitKinds
  <2>2. rtEvents' \in Seq(Event)
    BY <1>4, <2>1 DEF RuntimeExit, TypeOK
  <2>3. QED
    BY <1>4, <2>2 DEF RuntimeExit, TypeOK, stateVars, chanVars, bufferVars
<1>5. CASE RuntimeClose
  BY <1>5 DEF RuntimeClose, TypeOK, stateVars, chanVars, bufferVars
<1>6. ASSUME NEW a \in Actors, StateGuard(a) PROVE TypeOK'
  <2>1. frame' \in [Actors -> Frame]
    BY <1>6, GotoTyped, ReturnTyped DEF StateGuard
  <2>2. QED
    BY <1>6, <2>1 DEF StateGuard, TypeOK, stateVars, chanVars, bufferVars, runtimeVars
<1>7. ASSUME NEW a \in Actors, Transition(a) PROVE TypeOK'
  <2>1. frame' \in [Actors -> Frame]
    BY <1>7, GotoTyped, ReturnTyped DEF Transition
  <2>2. machine' \in States
    BY <1>7 DEF Transition, TypeOK, Frame
  <2>3. QED
    BY <1>7, <2>1, <2>2 DEF Transition, TypeOK, chanVars, bufferVars, runtimeVars
<1>8. ASSUME NEW a \in Actors, AssignModel(a) PROVE TypeOK'
  <2>1. frame' \in [Actors -> Frame]
    BY <1>8, AtTyped DEF AssignModel, TypeOK
  <2>2. modelState' \in States
    BY <1>8 DEF AssignModel, TypeOK, Frame
  <2>3. QED
    BY <1>8, <2>1, <2>2 DEF AssignModel, TypeOK, chanVars, bufferVars, runtimeVars
<1>9. ASSUME NEW a \in Actors, BufferAppend(a) PROVE TypeOK'
  <2>1. frame[a].event \in Event /\ seq + 1 \in Nat
    BY DEF TypeOK, Frame
  <2>3. buffer' \in Seq(Nat)
    BY <1>9, <2>1 DEF BufferAppend, TypeOK, Ring
  <2>4. frame' \in [Actors -> Frame]
    <3>1. [frame[a] EXCEPT !.pc = "check", !.event.seq = seq + 1] \in Frame
      BY <2>1 DEF TypeOK, Frame, Event
    <3>2. frame' = [frame EXCEPT ![a] =
                       [frame[a] EXCEPT !.pc = "check", !.event.seq = seq + 1]]
      BY <1>9 DEF BufferAppend, TypeOK
    <3>3. QED
      BY <3>1, <3>2 DEF TypeOK
  <2>5. QED
    BY <1>9, <2>1, <2>3, <2>4 DEF BufferAppend, TypeOK, stateVars, chanVars, runtimeVars
<1>10. ASSUME NEW a \in Actors, CheckClosed(a) PROVE TypeOK'
  <2>1. frame' \in [Actors -> Frame]
    BY <1>10, GotoTyped, EndRecordTyped DEF CheckClosed
  <2>2. QED
    BY <1>10, <2>1 DEF CheckClosed, TypeOK, stateVars, chanVars, bufferVars, runtimeVars
<1>11. ASSUME NEW a \in Actors, SendEvent(a) PROVE TypeOK'
  <2>1. frame' \in [Actors -> Frame]
    BY <1>11, EndRecordTyped DEF SendEvent
  <2>2. events' \in Seq(Event) /\ crashed' \in BOOLEAN
    <3>1. frame[a].event \in Event
      BY DEF TypeOK, Frame
    <3>2. Append(events, frame[a].event) \in Seq(Event)
      BY <3>1 DEF TypeOK
    <3>3. QED
      BY <1>11, <3>2 DEF SendEvent, TypeOK
  <2>3. QED
    BY <1>11, <2>1, <2>2 DEF SendEvent, TypeOK, stateVars, bufferVars, runtimeVars
<1>12. CASE DrainReceive
  <2>1. Head(rtEvents) \in Event /\ Tail(rtEvents) \in Seq(Event)
    BY <1>12 DEF DrainReceive, TypeOK
  <2>2. frame' \in [Actors -> Frame]
    BY <1>12, <2>1 DEF DrainReceive, TypeOK, At, Frame, Raw, States
  <2>3. QED
    BY <1>12, <2>1, <2>2 DEF DrainReceive, TypeOK, stateVars, chanVars, bufferVars
<1>13. CASE DrainFinish
  <2>1. frame' \in [Actors -> Frame]
    BY <1>0, <1>13, GotoTyped DEF DrainFinish
  <2>2. QED
    BY <1>13, <2>1 DEF DrainFinish, TypeOK, stateVars, bufferVars, runtimeVars
<1>14. CASE PumpReceive
  <2>1. Head(events) \in Event /\ Tail(events) \in Seq(Event)
    BY <1>14 DEF PumpReceive, TypeOK
  <2>2. Raw(Head(events).kind) \in Event
    BY <2>1 DEF Raw, Event
  <2>3. frame' \in [Actors -> Frame]
    BY <1>14, <2>2 DEF PumpReceive, TypeOK, At, Frame, States
  <2>4. QED
    BY <1>14, <2>1, <2>3 DEF PumpReceive, TypeOK, stateVars, bufferVars, runtimeVars
<1>15. CASE PumpSnapshot
  <2>1. \A to \in States : [At("guard") EXCEPT !.to = to] \in Frame
    BY AtTyped DEF At, Frame
  <2>2. At("idle") \in Frame
    BY AtTyped
  <2>3. frame' \in [Actors -> Frame]
    BY <1>15, <2>1, <2>2 DEF PumpSnapshot, Return, TypeOK, States
  <2>4. QED
    BY <1>15, <2>3 DEF PumpSnapshot, TypeOK, stateVars, chanVars, bufferVars, runtimeVars
<1>16. CASE PumpFinish
  <2>1. frame' \in [Actors -> Frame]
    BY <1>0, <1>16, GotoTyped DEF PumpFinish
  <2>2. QED
    BY <1>16, <2>1 DEF PumpFinish, TypeOK, stateVars, chanVars, bufferVars, runtimeVars
<1>17. ASSUME NEW h \in Handlers, UserMessage(h) PROVE TypeOK'
  <2>1. [At("guard") EXCEPT !.to = "running"] \in Frame
    BY DEF At, Frame, Raw, Event, Kinds, States
  <2>2. frame' \in [Actors -> Frame]
    BY <1>17, <2>1 DEF UserMessage, TypeOK
  <2>3. commands' \in [Handlers -> 0..MaxCommands]
    BY <1>17 DEF UserMessage, TypeOK
  <2>4. QED
    BY <1>17, <2>2, <2>3 DEF UserMessage, TypeOK, stateVars, chanVars, bufferVars
<1>18. ASSUME NEW h \in Handlers, Signal(h) PROVE TypeOK'
  <2>1. /\ Raw("signalled") \in Event
        /\ [At("append") EXCEPT !.event = Raw("signalled")] \in Frame
    BY DEF At, Frame, Raw, Event, Kinds, States
  <2>2. frame' \in [Actors -> Frame]
    BY <1>18, <2>1 DEF Signal, TypeOK
  <2>3. commands' \in [Handlers -> 0..MaxCommands]
    BY <1>18 DEF Signal, TypeOK
  <2>4. rtEvents' \in Seq(Event)
    BY <1>18, <2>1 DEF Signal, TypeOK
  <2>5. QED
    BY <1>18, <2>2, <2>3, <2>4 DEF Signal, TypeOK, stateVars, chanVars, bufferVars
<1>19. CASE UNCHANGED vars
  BY <1>19 DEF vars, TypeOK
<1>20. QED
  BY <1>0, <1>1, <1>2, <1>3, <1>4, <1>5, <1>6, <1>7, <1>8, <1>9, <1>10, <1>11,
     <1>12, <1>13, <1>14, <1>15, <1>16, <1>17, <1>18, <1>19
     DEF Next, DrainStep, PumpStep, HandlerStep, SetState, Record

\* Typing holds for every number of handlers and every buffer size.
THEOREM SessionTyped == Spec => []TypeOK
<1>1. Init => TypeOK
  BY InitTyped
<1>2. TypeOK /\ [Next]_vars => TypeOK'
  BY NextTyped
<1>3. QED
  BY <1>1, <1>2, PTL DEF Spec

-----------------------------------------------------------------------------
(* The end of a session.  ReportedEndIsReal is not inductive: a goroutine  *)
(* between Transition and the assignment of model.State is about to report *)
(* its target.  What makes the report true is that a target that is        *)
(* terminal has been reached, and that the machine never leaves it.        *)

EndInv ==
    /\ ReportedEndIsReal
    /\ \A a \in Actors : (pc(a) = "assign" /\ frame[a].to \in Terminal)
                            => machine = frame[a].to

\* Transition is the only step of a started session that moves the machine,
\* and transitionLocked refuses to leave a terminal state.
LEMMA TerminalStep ==
    TypeOK /\ [Next]_vars => (machine \in Terminal => machine' = machine)
<1> SUFFICES ASSUME TypeOK, [Next]_vars, machine \in Terminal
             PROVE  machine' = machine
  OBVIOUS
<1>1. ASSUME NEW a \in Actors, Transition(a) PROVE machine' = machine
  BY <1>1 DEF Transition, MayMove, Legal, Terminal
<1>2. CASE UNCHANGED vars
  BY <1>2 DEF vars
<1>3. QED
  BY <1>1, <1>2 DEF Next, DrainStep, PumpStep, HandlerStep, SetState, Record, Actors,
     New, NewFails, RuntimeOutput, RuntimeExit, RuntimeClose, StateGuard, AssignModel,
     BufferAppend, CheckClosed, SendEvent, DrainReceive, DrainFinish, PumpReceive,
     PumpSnapshot, PumpFinish, UserMessage, Signal, stateVars, Terminal

\* A step that neither writes the two states nor brings a goroutine to the
\* assignment keeps the invariant.
LEMMA EndQuiet ==
    ASSUME EndInv, machine' = machine, modelState' = modelState,
           \A a \in Actors : frame'[a].pc = "assign" =>
               frame[a].pc = "assign" /\ frame'[a].to = frame[a].to
    PROVE  EndInv'
  BY DEF EndInv, ReportedEndIsReal, pc

\* Goto, Return and the end of a record move one goroutine, to the place they
\* name, and leave the frames of the others alone.
LEMMA GotoMoves ==
    ASSUME TypeOK, NEW a \in Actors, NEW place, Goto(a, place)
    PROVE  /\ frame'[a].pc = place
           /\ frame'[a].to = frame[a].to /\ frame'[a].event = frame[a].event
           /\ \A b \in Actors \ {a} : frame'[b] = frame[b]
  BY DEF Goto, TypeOK, Frame

LEMMA ReturnMoves ==
    ASSUME TypeOK, NEW a \in Actors, Return(a)
    PROVE  /\ frame'[a].pc = "idle"
           /\ \A b \in Actors \ {a} : frame'[b] = frame[b]
  BY DEF Return, At, TypeOK

LEMMA EndRecordMoves ==
    ASSUME TypeOK, NEW a \in Actors, EndRecord(a)
    PROVE  /\ frame'[a].pc \in {"idle", "transition"}
           /\ \A b \in Actors \ {a} : frame'[b] = frame[b]
  BY DEF EndRecord, Return, At, TypeOK

LEMMA EndStep == TypeOK /\ EndInv /\ [Next]_vars => EndInv'
<1> SUFFICES ASSUME TypeOK, EndInv, [Next]_vars PROVE EndInv'
  OBVIOUS
<1>0. Drain \in Actors /\ Pump \in Actors /\ Handlers \subseteq Actors
  BY DEF Actors
<1>1. CASE New
  <2>1. machine' = "running" /\ modelState' = "running"
    BY <1>1 DEF New
  <2>2. \A a \in Actors : frame'[a].pc = "idle"
    BY <1>1 DEF New, At
  <2>3. QED
    BY <2>1, <2>2 DEF EndInv, ReportedEndIsReal, pc, Terminal
<1>2. CASE NewFails
  <2>1. /\ machine = "pending" /\ machine' = "errored" /\ modelState' = "errored"
        /\ frame' = frame
    BY <1>2 DEF NewFails
  <2>2. QED
    BY <2>1 DEF EndInv, ReportedEndIsReal, pc, Terminal
<1>3. CASE RuntimeOutput \/ RuntimeExit \/ RuntimeClose
  BY <1>3, EndQuiet DEF RuntimeOutput, RuntimeExit, RuntimeClose, stateVars
<1>4. ASSUME NEW a \in Actors, StateGuard(a) PROVE EndInv'
  <2>1. /\ frame'[a].pc \in {"transition", "idle"}
        /\ \A b \in Actors \ {a} : frame'[b] = frame[b]
    BY <1>4, GotoMoves, ReturnMoves DEF StateGuard
  <2>2. QED
    BY <1>4, <2>1, EndQuiet DEF StateGuard, stateVars
<1>5. ASSUME NEW a \in Actors, Transition(a) PROVE EndInv'
  <2>1. CASE MayMove(machine, frame[a].to)
    <3>1. /\ machine' = frame[a].to /\ modelState' = modelState
          /\ frame'[a].to = frame[a].to
          /\ \A b \in Actors \ {a} : frame'[b] = frame[b]
      BY <1>5, <2>1, GotoMoves DEF Transition
    <3>2. machine \in Terminal => machine' = machine
      BY <3>1, <2>1 DEF MayMove, Legal, Terminal
    <3>3. ReportedEndIsReal'
      BY <3>1, <3>2 DEF EndInv, ReportedEndIsReal
    <3>4. ASSUME NEW b \in Actors, frame'[b].pc = "assign", frame'[b].to \in Terminal
          PROVE  machine' = frame'[b].to
      BY <3>1, <3>2, <3>4 DEF EndInv, pc
    <3>5. QED
      BY <3>3, <3>4 DEF EndInv, pc
  <2>2. CASE ~MayMove(machine, frame[a].to)
    <3>1. frame'[a].pc = "idle" /\ \A b \in Actors \ {a} : frame'[b] = frame[b]
      BY <1>5, <2>2, ReturnMoves DEF Transition
    <3>2. QED
      BY <1>5, <2>2, <3>1, EndQuiet DEF Transition
  <2>3. QED
    BY <2>1, <2>2
<1>6. ASSUME NEW a \in Actors, AssignModel(a) PROVE EndInv'
  <2>1. /\ machine' = machine /\ modelState' = frame[a].to
        /\ frame'[a].pc = "append"
        /\ \A b \in Actors \ {a} : frame'[b] = frame[b]
        /\ pc(a) = "assign"
    BY <1>6 DEF AssignModel, At, TypeOK
  <2>2. QED
    BY <2>1 DEF EndInv, ReportedEndIsReal, pc
<1>7. ASSUME NEW a \in Actors, BufferAppend(a) PROVE EndInv'
  <2>1. /\ frame'[a].pc = "check"
        /\ \A b \in Actors \ {a} : frame'[b] = frame[b]
    BY <1>7 DEF BufferAppend, TypeOK, Frame
  <2>2. QED
    BY <1>7, <2>1, EndQuiet DEF BufferAppend, stateVars
<1>8. ASSUME NEW a \in Actors, CheckClosed(a) PROVE EndInv'
  <2>1. /\ frame'[a].pc \in {"transition", "idle", "send"}
        /\ \A b \in Actors \ {a} : frame'[b] = frame[b]
    BY <1>8, GotoMoves, EndRecordMoves DEF CheckClosed
  <2>2. QED
    BY <1>8, <2>1, EndQuiet DEF CheckClosed, stateVars
<1>9. ASSUME NEW a \in Actors, SendEvent(a) PROVE EndInv'
  <2>1. /\ frame'[a].pc \in {"transition", "idle"}
        /\ \A b \in Actors \ {a} : frame'[b] = frame[b]
    BY <1>9, EndRecordMoves DEF SendEvent
  <2>2. QED
    BY <1>9, <2>1, EndQuiet DEF SendEvent, stateVars
<1>10. CASE DrainReceive
  BY <1>0, <1>10, EndQuiet DEF DrainReceive, stateVars, At, TypeOK
<1>11. CASE DrainFinish
  <2>1. frame'[Drain].pc = "done" /\ \A b \in Actors \ {Drain} : frame'[b] = frame[b]
    BY <1>0, <1>11, GotoMoves DEF DrainFinish
  <2>2. QED
    BY <1>11, <2>1, EndQuiet DEF DrainFinish, stateVars
<1>12. CASE PumpReceive
  BY <1>0, <1>12, EndQuiet DEF PumpReceive, stateVars, At, TypeOK
<1>13. CASE PumpSnapshot
  <2>1. /\ frame'[Pump].pc \in {"guard", "idle"}
        /\ \A b \in Actors \ {Pump} : frame'[b] = frame[b]
    BY <1>0, <1>13 DEF PumpSnapshot, Return, At, TypeOK
  <2>2. QED
    BY <1>13, <2>1, EndQuiet DEF PumpSnapshot, stateVars
<1>14. CASE PumpFinish
  <2>1. frame'[Pump].pc = "done" /\ \A b \in Actors \ {Pump} : frame'[b] = frame[b]
    BY <1>0, <1>14, GotoMoves DEF PumpFinish
  <2>2. QED
    BY <1>14, <2>1, EndQuiet DEF PumpFinish, stateVars
<1>15. ASSUME NEW h \in Handlers, UserMessage(h) PROVE EndInv'
  BY <1>0, <1>15, EndQuiet DEF UserMessage, stateVars, At, TypeOK
<1>16. ASSUME NEW h \in Handlers, Signal(h) PROVE EndInv'
  BY <1>0, <1>16, EndQuiet DEF Signal, stateVars, At, TypeOK
<1>17. CASE UNCHANGED vars
  BY <1>17, EndQuiet DEF vars
<1>18. QED
  BY <1>0, <1>1, <1>2, <1>3, <1>4, <1>5, <1>6, <1>7, <1>8, <1>9, <1>10, <1>11, <1>12,
     <1>13, <1>14, <1>15, <1>16, <1>17
     DEF Next, DrainStep, PumpStep, HandlerStep, SetState, Record

\* A snapshot of a session never reports an end that has not happened.
THEOREM EndIsReal == Spec => []ReportedEndIsReal
<1>1. Init => EndInv
  BY DEF Init, EndInv, ReportedEndIsReal, pc, At, Terminal
<1>2. TypeOK /\ EndInv /\ [Next]_vars => EndInv'
  BY EndStep
<1>3. EndInv => ReportedEndIsReal
  BY DEF EndInv
<1>4. QED
  BY <1>1, <1>2, <1>3, SessionTyped, PTL DEF Spec

\* A finished session stays finished, in the state it ended in.
THEOREM EndIsFinal == Spec => TerminalIsFinal
<1>1. TypeOK /\ [Next]_vars => [(machine \in Terminal) => machine' = machine]_vars
  BY TerminalStep
<1>2. QED
  BY <1>1, SessionTyped, PTL DEF Spec, TerminalIsFinal

-----------------------------------------------------------------------------
(* The ring.                                                               *)

LEMMA RingKeepsSuffix ==
    ASSUME TypeOK, BufferIsRecentSuffix, seq' = seq + 1, buffer' = Ring(buffer, seq + 1)
    PROVE  BufferIsRecentSuffix'
<1> USE BufferSizeAssumption
<1>1. buffer \in Seq(Nat) /\ Len(buffer) <= BufferSize /\ seq \in Nat
  BY DEF TypeOK, BufferIsRecentSuffix
<1>2. /\ Len(buffer') = IF Len(buffer) = BufferSize THEN BufferSize ELSE Len(buffer) + 1
      /\ buffer'[Len(buffer')] = seq + 1
      /\ \A i \in 1..(Len(buffer') - 1) :
            buffer'[i] = IF Len(buffer) = BufferSize THEN buffer[i + 1] ELSE buffer[i]
  BY <1>1, RingProperties
<1>3. Len(buffer') = IF seq' < BufferSize THEN seq' ELSE BufferSize
  BY <1>1, <1>2 DEF BufferIsRecentSuffix
<1>4. ASSUME NEW i \in 1..Len(buffer') PROVE buffer'[i] + Len(buffer') = seq' + i
  <2>1. CASE i = Len(buffer')
    BY <1>1, <1>2, <2>1
  <2>2. CASE i # Len(buffer') /\ Len(buffer) = BufferSize
    <3>1. i + 1 \in 1..Len(buffer) /\ buffer'[i] = buffer[i + 1]
      BY <1>1, <1>2, <2>2
    <3>2. buffer[i + 1] + Len(buffer) = seq + (i + 1)
      BY <3>1 DEF BufferIsRecentSuffix
    <3>3. buffer[i + 1] \in Nat
      BY <1>1, <3>1, ElementOfSeq
    <3>4. QED
      BY <1>1, <1>2, <2>2, <3>1, <3>2, <3>3
  <2>3. CASE i # Len(buffer') /\ Len(buffer) # BufferSize
    <3>1. i \in 1..Len(buffer) /\ buffer'[i] = buffer[i]
      BY <1>1, <1>2, <2>3
    <3>2. buffer[i] + Len(buffer) = seq + i
      BY <3>1 DEF BufferIsRecentSuffix
    <3>3. buffer[i] \in Nat
      BY <1>1, <3>1, ElementOfSeq
    <3>4. Len(buffer') = Len(buffer) + 1
      BY <1>2, <2>3
    <3>5. Len(buffer) \in Nat /\ seq \in Nat /\ seq' = seq + 1 /\ i \in Nat
      BY <1>1, <3>1
    <3>6. ASSUME NEW x \in Nat, NEW l \in Nat, NEW n \in Nat, NEW k \in Nat,
                 x + l = n + k
          PROVE  x + (l + 1) = (n + 1) + k
      BY <3>6
    <3>7. buffer[i] + (Len(buffer) + 1) = (seq + 1) + i
      BY <3>2, <3>3, <3>5, <3>6
    <3>8. QED
      BY <3>1, <3>4, <3>5, <3>7
  <2>4. QED
    BY <2>1, <2>2, <2>3
<1>5. QED
  BY <1>3, <1>4 DEF BufferIsRecentSuffix

LEMMA SuffixStep == TypeOK /\ BufferIsRecentSuffix /\ [Next]_vars => BufferIsRecentSuffix'
<1> SUFFICES ASSUME TypeOK, BufferIsRecentSuffix, [Next]_vars PROVE BufferIsRecentSuffix'
  OBVIOUS
<1>1. CASE New
  BY <1>1, RingKeepsSuffix DEF New
<1>2. ASSUME NEW a \in Actors, BufferAppend(a) PROVE BufferIsRecentSuffix'
  BY <1>2, RingKeepsSuffix DEF BufferAppend
<1>3. CASE UNCHANGED bufferVars
  BY <1>3 DEF bufferVars, BufferIsRecentSuffix
<1>4. QED
  BY <1>1, <1>2, <1>3 DEF Next, DrainStep, PumpStep, HandlerStep, SetState, Record, Actors,
     NewFails, RuntimeOutput, RuntimeExit, RuntimeClose, StateGuard, Transition,
     AssignModel, CheckClosed, SendEvent, DrainReceive, DrainFinish, PumpReceive,
     PumpSnapshot, PumpFinish, UserMessage, Signal, vars, bufferVars

\* Whatever the size of the ring, it holds the latest events without a gap.
THEOREM RingIsSuffix == Spec => []BufferIsRecentSuffix
<1>1. Init => BufferIsRecentSuffix
  BY BufferSizeAssumption DEF Init, BufferIsRecentSuffix
<1>2. TypeOK /\ BufferIsRecentSuffix /\ [Next]_vars => BufferIsRecentSuffix'
  BY SuffixStep
<1>3. QED
  BY <1>1, <1>2, SessionTyped, PTL DEF Spec

-----------------------------------------------------------------------------
(* At most once.  Numbers already given are at most EventBuffer.seq, so the*)
(* number the next Append gives is in nobody's hands and not in the channel*)

SentInv ==
    /\ SentAtMostOnce
    /\ \A i \in 1..Len(events) : events[i].seq <= seq
    /\ \A a \in Actors : Unsent(a) => frame[a].event.seq <= seq

\* A step that adds nothing to the channel and hands no number to a goroutine
\* that is about to send keeps the invariant.
LEMMA SentQuiet ==
    ASSUME SentInv, seq' = seq, events' = events,
           \A a \in Actors : frame'[a].pc \in {"check", "send"} =>
               /\ frame[a].pc \in {"check", "send"}
               /\ frame'[a].event = frame[a].event
    PROVE  SentInv'
  BY DEF SentInv, SentAtMostOnce, Unsent, pc

LEMMA SentStep == TypeOK /\ SentInv /\ [Next]_vars => SentInv'
<1> SUFFICES ASSUME TypeOK, SentInv, [Next]_vars PROVE SentInv'
  OBVIOUS
<1>0. /\ Drain \in Actors /\ Pump \in Actors /\ Handlers \subseteq Actors
      /\ seq \in Nat /\ events \in Seq(Event)
      /\ \A i \in 1..Len(events) : events[i] \in Event
      /\ \A a \in Actors : frame[a].event \in Event
  BY ElementOfSeq DEF Actors, TypeOK, Frame
<1>1. CASE New
  <2>1. \A a \in Actors : frame'[a].pc = "idle"
    BY <1>1 DEF New, At
  <2>2. /\ seq' = seq + 1 /\ Len(events') = Len(events) + 1
        /\ events'[Len(events')].seq = seq + 1
        /\ \A i \in 1..Len(events) : events'[i] = events[i]
    BY <1>0, <1>1 DEF New
  <2>3. \A i \in 1..Len(events) : events'[i].seq <= seq /\ events[i].seq \in Nat
    BY <1>0, <2>2 DEF SentInv, Event
  <2>4. ASSUME NEW i \in 1..Len(events'), NEW j \in 1..Len(events'),
               events'[i].seq = events'[j].seq
        PROVE  i = j
    <3>1. CASE i = Len(events') \/ j = Len(events')
      BY <1>0, <2>2, <2>3, <2>4, <3>1
    <3>2. CASE i # Len(events') /\ j # Len(events')
      <4>1. i \in 1..Len(events) /\ j \in 1..Len(events)
        BY <1>0, <2>2, <3>2
      <4>2. events[i].seq = events[j].seq
        BY <2>2, <2>4, <4>1
      <4>3. QED
        BY <4>1, <4>2 DEF SentInv, SentAtMostOnce
    <3>3. QED
      BY <3>1, <3>2
  <2>5. \A i \in 1..Len(events') : events'[i].seq <= seq'
    BY <1>0, <2>2, <2>3
  <2>6. QED
    BY <2>1, <2>4, <2>5 DEF SentInv, SentAtMostOnce, Unsent, pc
<1>2. CASE NewFails \/ RuntimeOutput \/ RuntimeExit \/ RuntimeClose
  BY <1>2, SentQuiet DEF NewFails, RuntimeOutput, RuntimeExit, RuntimeClose,
     chanVars, bufferVars
<1>3. ASSUME NEW a \in Actors, SetState(a) PROVE SentInv'
  <2>1. /\ frame'[a].pc \in {"transition", "assign", "append", "idle"}
        /\ \A b \in Actors \ {a} : frame'[b] = frame[b]
    <3>1. CASE StateGuard(a)
      BY <3>1, GotoMoves, ReturnMoves DEF StateGuard
    <3>2. CASE Transition(a)
      BY <3>2, GotoMoves, ReturnMoves DEF Transition
    <3>3. CASE AssignModel(a)
      BY <3>3 DEF AssignModel, At, TypeOK
    <3>4. QED
      BY <1>3, <3>1, <3>2, <3>3 DEF SetState
  <2>2. seq' = seq /\ events' = events
    BY <1>3 DEF SetState, StateGuard, Transition, AssignModel, chanVars, bufferVars
  <2>3. QED
    BY <2>1, <2>2, SentQuiet
<1>4. ASSUME NEW a \in Actors, BufferAppend(a) PROVE SentInv'
  <2>1. /\ seq' = seq + 1 /\ events' = events
        /\ frame'[a].event.seq = seq + 1
        /\ \A b \in Actors \ {a} : frame'[b] = frame[b]
    BY <1>0, <1>4 DEF BufferAppend, chanVars, TypeOK, Frame, Event
  <2>2. \A i \in 1..Len(events) : events[i].seq <= seq /\ events[i].seq \in Nat
    BY <1>0 DEF SentInv, Event
  <2>3. \A b \in Actors : Unsent(b) => frame[b].event.seq <= seq /\ frame[b].event.seq \in Nat
    BY <1>0 DEF SentInv, Event
  <2>4. \A b \in Actors \ {a} : Unsent(b)' => Unsent(b)
    BY <2>1 DEF Unsent, pc
  <2>5. /\ \A i \in 1..Len(events') : events'[i].seq <= seq'
        /\ \A b \in Actors : Unsent(b)' => frame'[b].event.seq <= seq'
    BY <1>0, <2>1, <2>2, <2>3, <2>4
  <2>6. \A b \in Actors : Unsent(b)' =>
           \A i \in 1..Len(events') : events'[i].seq # frame'[b].event.seq
    BY <1>0, <2>1, <2>2, <2>4 DEF SentInv, SentAtMostOnce
  <2>7. \A b, c \in Actors :
           (Unsent(b)' /\ Unsent(c)' /\ frame'[b].event.seq = frame'[c].event.seq) => b = c
    <3>1. \A b \in Actors \ {a} : Unsent(b)' =>
             frame'[b].event.seq = frame[b].event.seq /\ frame'[b].event.seq # seq + 1
      BY <1>0, <2>1, <2>3, <2>4
    <3>2. QED
      BY <2>1, <2>4, <3>1 DEF SentInv, SentAtMostOnce
  <2>8. \A i, j \in 1..Len(events') : events'[i].seq = events'[j].seq => i = j
    BY <2>1 DEF SentInv, SentAtMostOnce
  <2>9. QED
    BY <2>5, <2>6, <2>7, <2>8 DEF SentInv, SentAtMostOnce, Unsent, pc
<1>5. ASSUME NEW a \in Actors, CheckClosed(a) PROVE SentInv'
  <2>1. /\ \/ frame'[a].pc \in {"transition", "idle"}
           \/ frame'[a].event = frame[a].event
        /\ \A b \in Actors \ {a} : frame'[b] = frame[b]
        /\ frame[a].pc = "check"
    BY <1>5, GotoMoves, EndRecordMoves DEF CheckClosed, pc
  <2>2. QED
    BY <1>5, <2>1, SentQuiet DEF CheckClosed, chanVars, bufferVars
<1>6. ASSUME NEW a \in Actors, SendEvent(a) PROVE SentInv'
  <2>1. /\ frame'[a].pc \in {"transition", "idle"}
        /\ \A b \in Actors \ {a} : frame'[b] = frame[b]
        /\ Unsent(a) /\ seq' = seq
    BY <1>6, EndRecordMoves DEF SendEvent, Unsent, pc, bufferVars
  <2>2. CASE events' = events
    BY <2>1, <2>2, SentQuiet
  <2>3. CASE events' = Append(events, frame[a].event)
    <3>1. /\ Len(events') = Len(events) + 1
          /\ events'[Len(events')] = frame[a].event
          /\ \A i \in 1..Len(events) : events'[i] = events[i]
      BY <1>0, <2>3
    <3>2. \A b \in Actors : Unsent(b)' => Unsent(b) /\ b # a /\ frame'[b] = frame[b]
      BY <2>1 DEF Unsent, pc
    <3>3. ASSUME NEW i \in 1..Len(events')
          PROVE  \/ i \in 1..Len(events) /\ events'[i] = events[i]
                 \/ i = Len(events') /\ events'[i] = frame[a].event
      BY <1>0, <3>1
    <3>4. \A i, j \in 1..Len(events') : events'[i].seq = events'[j].seq => i = j
      BY <2>1, <3>3 DEF SentInv, SentAtMostOnce
    <3>5. \A b \in Actors : Unsent(b)' =>
             \A i \in 1..Len(events') : events'[i].seq # frame'[b].event.seq
      BY <2>1, <3>2, <3>3 DEF SentInv, SentAtMostOnce
    <3>6. \A b, c \in Actors :
             (Unsent(b)' /\ Unsent(c)' /\ frame'[b].event.seq = frame'[c].event.seq) => b = c
      BY <3>2 DEF SentInv, SentAtMostOnce
    <3>7. /\ \A i \in 1..Len(events') : events'[i].seq <= seq'
          /\ \A b \in Actors : Unsent(b)' => frame'[b].event.seq <= seq'
      BY <2>1, <3>2, <3>3 DEF SentInv
    <3>8. QED
      BY <3>4, <3>5, <3>6, <3>7 DEF SentInv, SentAtMostOnce, Unsent, pc
  <2>4. QED
    BY <1>6, <2>2, <2>3 DEF SendEvent
<1>7. CASE DrainReceive
  BY <1>0, <1>7, SentQuiet DEF DrainReceive, chanVars, bufferVars, At, TypeOK
<1>8. CASE DrainFinish
  <2>1. frame'[Drain].pc = "done" /\ \A b \in Actors \ {Drain} : frame'[b] = frame[b]
    BY <1>0, <1>8, GotoMoves DEF DrainFinish
  <2>2. QED
    BY <1>8, <2>1, SentQuiet DEF DrainFinish, bufferVars
<1>9. CASE PumpReceive
  <2>1. /\ frame'[Pump].pc = "snapshot" /\ seq' = seq
        /\ \A b \in Actors \ {Pump} : frame'[b] = frame[b]
    BY <1>0, <1>9 DEF PumpReceive, At, TypeOK, bufferVars
  <2>2. /\ Len(events') + 1 = Len(events)
        /\ \A i \in 1..Len(events') : i + 1 \in 1..Len(events) /\ events'[i] = events[i + 1]
    BY <1>0, <1>9 DEF PumpReceive
  <2>3. \A b \in Actors : Unsent(b)' => Unsent(b) /\ frame'[b] = frame[b]
    BY <2>1 DEF Unsent, pc
  <2>4. \A i, j \in 1..Len(events') : events'[i].seq = events'[j].seq => i = j
    BY <1>0, <2>2 DEF SentInv, SentAtMostOnce
  <2>5. \A b \in Actors : Unsent(b)' =>
           \A i \in 1..Len(events') : events'[i].seq # frame'[b].event.seq
    BY <2>2, <2>3 DEF SentInv, SentAtMostOnce
  <2>6. \A b, c \in Actors :
           (Unsent(b)' /\ Unsent(c)' /\ frame'[b].event.seq = frame'[c].event.seq) => b = c
    BY <2>3 DEF SentInv, SentAtMostOnce
  <2>7. /\ \A i \in 1..Len(events') : events'[i].seq <= seq'
        /\ \A b \in Actors : Unsent(b)' => frame'[b].event.seq <= seq'
    BY <2>1, <2>2, <2>3 DEF SentInv
  <2>8. QED
    BY <2>4, <2>5, <2>6, <2>7 DEF SentInv, SentAtMostOnce, Unsent, pc
<1>10. CASE PumpSnapshot
  <2>1. /\ frame'[Pump].pc \in {"guard", "idle"}
        /\ \A b \in Actors \ {Pump} : frame'[b] = frame[b]
    BY <1>0, <1>10 DEF PumpSnapshot, Return, At, TypeOK
  <2>2. QED
    BY <1>10, <2>1, SentQuiet DEF PumpSnapshot, chanVars, bufferVars
<1>11. CASE PumpFinish
  <2>1. frame'[Pump].pc = "done" /\ \A b \in Actors \ {Pump} : frame'[b] = frame[b]
    BY <1>0, <1>11, GotoMoves DEF PumpFinish
  <2>2. QED
    BY <1>11, <2>1, SentQuiet DEF PumpFinish, chanVars, bufferVars
<1>12. ASSUME NEW h \in Handlers, UserMessage(h) \/ Signal(h) PROVE SentInv'
  BY <1>0, <1>12, SentQuiet DEF UserMessage, Signal, chanVars, bufferVars, At, TypeOK
<1>13. CASE UNCHANGED vars
  BY <1>13, SentQuiet DEF vars
<1>14. QED
  BY <1>0, <1>1, <1>2, <1>3, <1>4, <1>5, <1>6, <1>7, <1>8, <1>9, <1>10, <1>11, <1>12,
     <1>13 DEF Next, DrainStep, PumpStep, HandlerStep, Record

\* No recorded event is sent to the pump twice, however many goroutines record.
THEOREM AtMostOnce == Spec => []SentAtMostOnce
<1>1. Init => SentInv
  BY DEF Init, SentInv, SentAtMostOnce, Unsent, pc, At
<1>2. TypeOK /\ SentInv /\ [Next]_vars => SentInv'
  BY SentStep
<1>3. SentInv => SentAtMostOnce
  BY DEF SentInv
<1>4. QED
  BY <1>1, <1>2, <1>3, SessionTyped, PTL DEF Spec
=============================================================================
