------------------------------ MODULE Session ------------------------------
(***************************************************************************)
(* One managed session: internal/session/session.go over the state machine *)
(* of internal/session/state.go and the ring of internal/runtime/buffer.go.*)
(*                                                                         *)
(* Three kinds of goroutine share the Session value:                       *)
(*   Drain     drainRuntimeEvents, started by New: records every event of  *)
(*             the runtime, moves the session to a terminal state when the *)
(*             runtime exits, and closes the session's channel at the end; *)
(*   Pump      App.pumpSession, reader of the session's channel, which     *)
(*             calls Pause and Resume on what the agent prints;            *)
(*   Handlers  App.handleCommand on behalf of clients (Resume, Interrupt;  *)
(*             Stop is the Manager operation of the same shape).           *)
(* setState and record are NOT atomic: each takes several locks one after  *)
(* the other, and a goroutine's frame says between which of them it is.    *)
(* The runtime is the environment here: it emits output, then one exit,    *)
(* possibly more output, and closes its channel.                           *)
(***************************************************************************)
EXTENDS Naturals, Sequences, StateMachine

CONSTANTS
    Handlers,     \* goroutines that run client commands on this session
    Drain,        \* the goroutine of drainRuntimeEvents
    Pump,         \* the goroutine of pumpSession
    BufferSize,   \* bufferSize of New: capacity of the ring and of s.events
    MaxOutput,    \* bound: output events the runtime emits
    MaxCommands   \* bound: commands each handler issues

ASSUME ActorsAssumption ==
    Drain # Pump /\ Drain \notin Handlers /\ Pump \notin Handlers
ASSUME BufferSizeAssumption == BufferSize \in Nat \ {0}
ASSUME BoundsAssumption == MaxOutput \in Nat /\ MaxCommands \in Nat

Actors == Handlers \union {Drain, Pump}

\* "request" is output that looksLikeInputRequest, "signalled" stands for the
\* Interrupted and Stopped kinds, which every reader treats alike, and the two
\* exits are the Exited event with State Stopped and with State Errored.
Kinds == {"output", "request", "signalled", "state_changed",
          "exit_stopped", "exit_errored"}
ExitKinds == {"exit_stopped", "exit_errored"}

ExitState(kind) == IF kind = "exit_stopped" THEN "stopped" ELSE "errored"

Event == [seq : Nat, kind : Kinds]

\* An event before Append has numbered it.
Raw(kind) == [seq |-> 0, kind |-> kind]

\* Where a goroutine stands, the state its setState was called with, and the
\* event it received or is recording.
Frame == [pc : {"off",         \* New has not returned
                "idle",        \* waiting for an event or a command
                "snapshot",    \* Pump: received, Snapshot not yet taken
                "guard",       \* Pause or Resume: State() not yet read
                "transition",  \* setState: Transition not yet called
                "assign",      \* setState: model.State not yet set
                "append",      \* record: buffer.Append not yet called
                "check",       \* record: s.closed not yet read
                "send",        \* record: saw the channel open, not yet sent
                "done"},       \* the goroutine has returned
          to : States,
          event : Event]

At(place) == [pc |-> place, to |-> "unknown", event |-> Raw("state_changed")]

VARIABLES
    machine,     \* s.state.state, the StateMachine
    modelState,  \* s.model.State, what Snapshot reports
    closed,      \* s.closed, true with close(s.events)
    seq,         \* EventBuffer.seq
    buffer,      \* the sequence numbers of EventBuffer.events
    events,      \* contents of the channel s.events
    rtEvents,    \* contents of the runtime's channel
    rtOpen,      \* the runtime's channel is open
    rtExited,    \* the runtime has emitted its Exited event
    outputs,     \* output events emitted so far
    commands,    \* commands issued so far, by handler
    frame,       \* the frame of each goroutine
    crashed      \* a goroutine panicked: send on closed channel

vars == <<machine, modelState, closed, seq, buffer, events, rtEvents, rtOpen,
          rtExited, outputs, commands, frame, crashed>>

runtimeVars == <<rtEvents, rtOpen, rtExited, outputs, commands>>
bufferVars  == <<seq, buffer>>
stateVars   == <<machine, modelState>>
chanVars    == <<closed, events, crashed>>

pc(a) == frame[a].pc
Goto(a, place) == frame' = [frame EXCEPT ![a].pc = place]
Return(a) == frame' = [frame EXCEPT ![a] = At("idle")]

-----------------------------------------------------------------------------
(* The ring buffer.                                                        *)

\* Mutant: a full ring keeps the oldest events.
RingKeepsOldest(buf, e) == IF Len(buf) = BufferSize THEN buf ELSE Append(buf, e)

\* EventBuffer.Append drops the oldest event when the ring is full.
Ring(buf, e) ==
    IF Len(buf) = BufferSize THEN Append(Tail(buf), e) ELSE Append(buf, e)

-----------------------------------------------------------------------------
Init ==
    /\ machine = "pending" /\ modelState = "pending"
    /\ closed = FALSE
    /\ seq = 0 /\ buffer = <<>> /\ events = <<>>
    /\ rtEvents = <<>> /\ rtOpen = TRUE /\ rtExited = FALSE /\ outputs = 0
    /\ commands = [h \in Handlers |-> 0]
    /\ frame = [a \in Actors |-> At("off")]
    /\ crashed = FALSE

\* New: the runtime starts, the session is running and the first event is
\* recorded before any other goroutine holds the session.
New ==
    /\ ~crashed /\ pc(Drain) = "off" /\ machine = "pending"
    /\ machine' = "running" /\ modelState' = "running"
    /\ seq' = seq + 1
    /\ buffer' = Ring(buffer, seq + 1)
    /\ events' = Append(events, [seq |-> seq + 1, kind |-> "state_changed"])
    /\ frame' = [a \in Actors |-> At("idle")]
    /\ UNCHANGED <<closed, crashed, runtimeVars>>

\* New: runtime.Start fails; the session is errored and never returned.
NewFails ==
    /\ ~crashed /\ pc(Drain) = "off" /\ machine = "pending"
    /\ machine' = "errored" /\ modelState' = "errored"
    /\ UNCHANGED <<chanVars, bufferVars, runtimeVars, frame>>

-----------------------------------------------------------------------------
(* The runtime, as the session sees it.                                    *)

RuntimeOutput ==
    /\ ~crashed /\ pc(Drain) # "off" /\ rtOpen /\ outputs < MaxOutput
    /\ \E k \in {"output", "request"} : rtEvents' = Append(rtEvents, Raw(k))
    /\ outputs' = outputs + 1
    /\ UNCHANGED <<stateVars, chanVars, bufferVars, rtOpen, rtExited, commands, frame>>

RuntimeExit ==
    /\ ~crashed /\ pc(Drain) # "off" /\ rtOpen /\ ~rtExited
    /\ \E k \in ExitKinds : rtEvents' = Append(rtEvents, Raw(k))
    /\ rtExited' = TRUE
    /\ UNCHANGED <<stateVars, chanVars, bufferVars, rtOpen, outputs, commands, frame>>

RuntimeClose ==
    /\ ~crashed /\ rtOpen /\ rtExited
    /\ rtOpen' = FALSE
    /\ UNCHANGED <<stateVars, chanVars, bufferVars, rtEvents, rtExited, outputs,
                   commands, frame>>

-----------------------------------------------------------------------------
(* Pause, Resume and setState: State() under the machine's lock, Transition*)
(* under it again, then model.State under s.mu, then record.               *)

\* Pause wants the machine running, Resume wants it paused.
StateGuard(a) ==
    /\ ~crashed /\ pc(a) = "guard"
    /\ IF machine = (IF frame[a].to = "paused" THEN "running" ELSE "paused")
       THEN Goto(a, "transition")
       ELSE Return(a)
    /\ UNCHANGED <<stateVars, chanVars, bufferVars, runtimeVars>>

Transition(a) ==
    /\ ~crashed /\ pc(a) = "transition"
    /\ IF MayMove(machine, frame[a].to)
       THEN machine' = frame[a].to /\ Goto(a, "assign")
       ELSE machine' = machine /\ Return(a)
    /\ UNCHANGED <<modelState, chanVars, bufferVars, runtimeVars>>

AssignModel(a) ==
    /\ ~crashed /\ pc(a) = "assign"
    /\ modelState' = frame[a].to
    /\ frame' = [frame EXCEPT ![a] = At("append")]
    /\ UNCHANGED <<machine, chanVars, bufferVars, runtimeVars>>

-----------------------------------------------------------------------------
(* record: Append under the buffer's lock, then s.closed under s.mu, then  *)
(* a send outside any lock that drops the event when the channel is full.  *)

\* Mutant: the number is read before it is advanced.
AppendReadsSeqFirst(a) ==
    /\ ~crashed /\ pc(a) = "append"
    /\ seq' = seq + 1
    /\ frame' = [frame EXCEPT ![a].pc = "check", ![a].event.seq = seq]
    /\ buffer' = Ring(buffer, seq + 1)
    /\ UNCHANGED <<stateVars, chanVars, runtimeVars>>

BufferAppend(a) ==
    /\ ~crashed /\ pc(a) = "append"
    /\ seq' = seq + 1
    /\ frame' = [frame EXCEPT ![a].pc = "check", ![a].event.seq = seq + 1]
    /\ buffer' = Ring(buffer, seq + 1)
    /\ UNCHANGED <<stateVars, chanVars, runtimeVars>>

\* Mutant: only a clean exit moves the state machine.
EndRecordOfCleanExit(a) ==
    IF a = Drain /\ frame[a].event.kind = "exit_stopped"
    THEN frame' = [frame EXCEPT ![a] = [At("transition") EXCEPT !.to = "stopped"]]
    ELSE Return(a)

\* After the record of an exit event the drain goes on to setState.
EndRecord(a) ==
    IF a = Drain /\ frame[a].event.kind \in ExitKinds
    THEN frame' = [frame EXCEPT ![a] =
            [At("transition") EXCEPT !.to = ExitState(frame[a].event.kind)]]
    ELSE Return(a)

CheckClosed(a) ==
    /\ ~crashed /\ pc(a) = "check"
    /\ IF closed THEN EndRecord(a) ELSE Goto(a, "send")
    /\ UNCHANGED <<stateVars, chanVars, bufferVars, runtimeVars>>

SendEvent(a) ==
    /\ ~crashed /\ pc(a) = "send"
    /\ \/ /\ closed                       \* send on closed channel: panic
          /\ crashed' = TRUE
          /\ UNCHANGED events
       \/ /\ ~closed /\ Len(events) < BufferSize
          /\ events' = Append(events, frame[a].event)
          /\ UNCHANGED crashed
       \/ /\ ~closed /\ Len(events) >= BufferSize   \* default: dropped
          /\ UNCHANGED <<events, crashed>>
    /\ EndRecord(a)
    /\ UNCHANGED <<stateVars, bufferVars, runtimeVars, closed>>

-----------------------------------------------------------------------------
(* drainRuntimeEvents.                                                     *)

DrainReceive ==
    /\ ~crashed /\ pc(Drain) = "idle" /\ rtEvents # <<>>
    /\ rtEvents' = Tail(rtEvents)
    /\ frame' = [frame EXCEPT ![Drain] =
                    [At("append") EXCEPT !.event = Head(rtEvents)]]
    /\ UNCHANGED <<stateVars, chanVars, bufferVars, rtOpen, rtExited, outputs, commands>>

DrainFinish ==
    /\ ~crashed /\ pc(Drain) = "idle" /\ rtEvents = <<>> /\ ~rtOpen
    /\ closed' = TRUE
    /\ Goto(Drain, "done")
    /\ UNCHANGED <<stateVars, bufferVars, runtimeVars, events, crashed>>

-----------------------------------------------------------------------------
(* pumpSession, as far as it touches the session.                          *)

PumpReceive ==
    /\ ~crashed /\ pc(Pump) = "idle" /\ events # <<>>
    /\ events' = Tail(events)
    /\ frame' = [frame EXCEPT ![Pump] =
                    [At("snapshot") EXCEPT !.event = Raw(Head(events).kind)]]
    /\ UNCHANGED <<stateVars, bufferVars, runtimeVars, closed, crashed>>

\* Output resumes a session whose snapshot is paused, unless it is itself an
\* input request, which pauses it.  Any other event leaves the session alone.
PumpSnapshot ==
    /\ ~crashed /\ pc(Pump) = "snapshot"
    /\ LET kind == frame[Pump].event.kind
           call(to) == frame' = [frame EXCEPT ![Pump] = [At("guard") EXCEPT !.to = to]]
       IN  \/ kind = "request" /\ call("paused")
           \/ kind = "output" /\ modelState = "paused" /\ call("running")
           \/ /\ kind # "request" /\ ~(kind = "output" /\ modelState = "paused")
              /\ Return(Pump)
    /\ UNCHANGED <<stateVars, chanVars, bufferVars, runtimeVars>>

PumpFinish ==
    /\ ~crashed /\ pc(Pump) = "idle" /\ events = <<>> /\ closed
    /\ Goto(Pump, "done")
    /\ UNCHANGED <<stateVars, chanVars, bufferVars, runtimeVars>>

-----------------------------------------------------------------------------
(* Client commands.                                                        *)

UserMessage(h) ==
    /\ ~crashed /\ pc(h) = "idle" /\ commands[h] < MaxCommands
    /\ commands' = [commands EXCEPT ![h] = @ + 1]
    /\ frame' = [frame EXCEPT ![h] = [At("guard") EXCEPT !.to = "running"]]
    /\ UNCHANGED <<stateVars, chanVars, bufferVars, rtEvents, rtOpen, rtExited, outputs>>

\* Interrupt and Stop: the runtime emits an event of its own, which may come
\* after its Exited event but not once its channel is closed (StdioRuntime
\* says why), and the session records another.
Signal(h) ==
    /\ ~crashed /\ pc(h) = "idle" /\ commands[h] < MaxCommands /\ rtOpen
    /\ commands' = [commands EXCEPT ![h] = @ + 1]
    /\ rtEvents' = Append(rtEvents, Raw("signalled"))
    /\ frame' = [frame EXCEPT ![h] = [At("append") EXCEPT !.event = Raw("signalled")]]
    /\ UNCHANGED <<stateVars, chanVars, bufferVars, rtOpen, rtExited, outputs>>

-----------------------------------------------------------------------------
SetState(a) == StateGuard(a) \/ Transition(a) \/ AssignModel(a)
Record(a)   == BufferAppend(a) \/ CheckClosed(a) \/ SendEvent(a)

DrainStep == DrainReceive \/ DrainFinish \/ SetState(Drain) \/ Record(Drain)
PumpStep  == PumpReceive \/ PumpSnapshot \/ PumpFinish \/ SetState(Pump) \/ Record(Pump)
HandlerStep(h) == SetState(h) \/ Record(h)

\* A panic in the drain, the pump or a WebSocket reader is not recovered: it
\* ends the process, so no action is enabled in a crashed system.
Next ==
    \/ New \/ NewFails
    \/ RuntimeOutput \/ RuntimeExit \/ RuntimeClose
    \/ DrainStep
    \/ PumpStep
    \/ \E h \in Handlers : HandlerStep(h) \/ UserMessage(h) \/ Signal(h)

Spec == Init /\ [][Next]_vars

\* The Go scheduler runs every goroutine that can run.  Nothing obliges the
\* agent to print or exit, or a client to send a command.
Fairness ==
    /\ WF_vars(DrainStep)
    /\ WF_vars(PumpStep)
    /\ \A h \in Handlers : WF_vars(HandlerStep(h))

FairSpec == Spec /\ Fairness

-----------------------------------------------------------------------------
(* Properties.                                                             *)

\* The range of every variable of the session, its channel and its goroutines.
TypeOK ==
    /\ machine \in States /\ modelState \in States
    /\ closed \in BOOLEAN /\ crashed \in BOOLEAN
    /\ seq \in Nat
    /\ buffer \in Seq(Nat) /\ events \in Seq(Event) /\ rtEvents \in Seq(Event)
    /\ rtOpen \in BOOLEAN /\ rtExited \in BOOLEAN
    /\ outputs \in 0..MaxOutput
    /\ commands \in [Handlers -> 0..MaxCommands]
    /\ frame \in [Actors -> Frame]

\* The ring holds exactly the latest events, numbered without gap, whatever
\* goroutines append to it: what EventsSince answers from.
BufferIsRecentSuffix ==
    /\ Len(buffer) = IF seq < BufferSize THEN seq ELSE BufferSize
    /\ \A i \in 1..Len(buffer) : buffer[i] + Len(buffer) = seq + i

\* A snapshot never announces an end that has not happened: a terminal
\* model.State is the state machine's own terminal state, although the two
\* are written under different locks and Pause and Resume race with the exit.
ReportedEndIsReal == modelState \in Terminal => machine = modelState

\* No event can reach the pump twice: a sequence number is in the channel
\* once, or in the hands of the one goroutine that is still to send it.
Unsent(a) == pc(a) \in {"check", "send"}
SentAtMostOnce ==
    /\ \A i, j \in 1..Len(events) : events[i].seq = events[j].seq => i = j
    /\ \A a \in Actors : Unsent(a) =>
          \A i \in 1..Len(events) : events[i].seq # frame[a].event.seq
    /\ \A a, b \in Actors :
          Unsent(a) /\ Unsent(b) /\ frame[a].event.seq = frame[b].event.seq => a = b

\* Once terminal, the state machine never moves again: neither Pause, Resume
\* nor a second exit revives a finished session or changes how it ended.
TerminalIsFinal == [][(machine \in Terminal) => machine' = machine]_vars

\* The exit of the runtime reaches the state machine unless the process panics.
ExitReachesMachine == rtExited ~> (machine \in Terminal \/ crashed)

\* Once the runtime's channel is closed both goroutines end, unless the
\* process panics: none of them is left blocked on a channel.
GoroutinesEnd ==
    (~rtOpen) ~> ((pc(Drain) = "done" /\ pc(Pump) = "done") \/ crashed)

\* The end of a session is processed, to its last goroutine.
EndIsProcessed == ExitReachesMachine /\ GoroutinesEnd

\* docs/zh-CN/PRD.md:410 says an exited process is marked exited.  When the
\* drain has finished and no setState is under way, Snapshot must report it.
ExitIsReported ==
    (pc(Drain) = "done" /\ \A a \in Actors : pc(a) \in {"idle", "done"})
        => modelState \in Terminal

\* PRD.md:17 promises safe supervision: no goroutine of the server panics.
NoPanic == ~crashed
=============================================================================
