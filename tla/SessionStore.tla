---------------------------- MODULE SessionStore ----------------------------
(***************************************************************************)
(* How one session gets from memory into the catalog and to the clients:   *)
(* handleStartSession, pumpSession and handleCommand of internal/app/app.go*)
(* over the session of internal/session and the store of internal/store.   *)
(*                                                                         *)
(* Four kinds of goroutine: Starter runs handleStartSession, Drain is the  *)
(* session's drainRuntimeEvents, Pump is pumpSession, and Handlers run     *)
(* client commands.  Each takes a Snapshot of the session, and writes that *)
(* copy to the store and shows it to the clients some time later.          *)
(* record is one step here (Session.tla opens it up); setState is not, for *)
(* the moment between the state machine and model.State is what a snapshot *)
(* can fall into.  The runtime is the environment of the drain.            *)
(***************************************************************************)
EXTENDS Naturals, Sequences, StateMachine

CONSTANTS
    Handlers, Drain, Pump, Starter,
    Natives,      \* native conversation IDs, as the agent names them
    ChanCap,      \* capacity of s.events, 256
    MaxOutput,    \* bound: events of the runtime besides its exit
    MaxCommands   \* bound: commands each handler issues

Actors == Handlers \union {Drain, Pump, Starter}

ASSUME ActorsAssumption ==
    /\ Drain # Pump /\ Drain # Starter /\ Pump # Starter
    /\ {Drain, Pump, Starter} \intersect Handlers = {}
\* The empty ID of the code, which names no conversation.
None == "none"
ASSUME NativesAssumption == {None, "absent"} \intersect Natives = {}
ASSUME ChanCapAssumption == ChanCap \in Nat \ {0}
ASSUME BoundsAssumption == MaxOutput \in Nat /\ MaxCommands \in Nat

\* Output that yields no message text, plain text, text that names a native
\* conversation, text that asks for input, and lines of JSON, each of which may
\* name a conversation (for adapters that speak JSON); then the other events, of
\* which an exit ends the last line of JSON.
OutputKinds == {"raw", "text", "naming", "request", "json"}
JsonKinds == {"json", "exit"}
Kinds == OutputKinds \union {"signalled", "exit", "state_changed"}

\* A copy of the fields of model.Session that change after New.  A session has
\* the resume strategy native_id exactly when it has a native conversation: New
\* and BindConversation set the two together.
Copies == [state : States \union {"absent"}, native : Natives \union {None}]
Absent == [state |-> "absent", native |-> None]

Steps == {"off", "idle", "done", "failed",
          "guard", "transition", "assign", "record",        \* Pause, Resume
          "again", "persist", "show",                       \* after them
          "snapshot", "preview", "output", "bind",          \* pumpSession
          "bind_again", "bind_persist", "bind_store",
          "workspace", "conversation", "session"}           \* handleStartSession

Frame == [pc : Steps, to : States, kind : Kinds, snap : Copies]

VARIABLES
    machine,      \* s.state.state
    modelState,   \* s.model.State
    native,       \* s.model.NativeConversationID
    events,       \* the kinds in the channel s.events
    closed,       \* s.closed
    exited,       \* the runtime has emitted its exit event
    outputs,      \* its other events so far
    commands,     \* commands issued so far, by handler
    stored,       \* the session's row in the store
    workspace,    \* its workspace is in the store
    conversation, \* the native ID of its conversation in the store, or "absent"
    shown,        \* the state in the last state_changed given to the hub
    missed,       \* history: a full channel or a failed write lost an update
    resumed,      \* history: a client's message has resumed the session
    frame         \* the frame of each goroutine

sessionVars == <<machine, modelState, native, events, closed>>
envVars     == <<exited, outputs, commands>>
storeVars   == <<stored, workspace, conversation>>
vars == <<sessionVars, envVars, storeVars, shown, missed, resumed, frame>>

pc(a) == frame[a].pc
At(step) == [pc |-> step, to |-> "unknown", kind |-> "state_changed", snap |-> Absent]
Goto(a, step) ==
    frame' = [frame EXCEPT ![a] = IF step \in {"idle", "done"} THEN At(step)
                                  ELSE [@ EXCEPT !.pc = step]]
Call(a, to) == frame' = [frame EXCEPT ![a].pc = "guard", ![a].to = to]
Live == [state |-> modelState, native |-> native]

\* Init: handleStartSession has passed its checks; a resumed session is bound
\* to a native conversation from the start.
Init ==
    /\ machine = "pending" /\ modelState = "pending"
    /\ native \in Natives \union {None}
    /\ events = <<>> /\ closed = FALSE
    /\ exited = FALSE /\ outputs = 0 /\ commands = [h \in Handlers |-> 0]
    /\ stored = Absent /\ workspace = FALSE /\ conversation = "absent"
    /\ shown = "unknown" /\ missed = FALSE /\ resumed = FALSE
    /\ frame = [a \in Actors |-> IF a = Starter THEN At("idle") ELSE At("off")]

-----------------------------------------------------------------------------
(* Writes: to the session's channel, and to the store.                     *)

\* record: a full channel drops the event, a closed one is left alone.
Record(kind) ==
    IF closed THEN UNCHANGED <<events, missed>>
    ELSE IF Len(events) < ChanCap
         THEN events' = Append(events, kind) /\ UNCHANGED missed
         ELSE missed' = TRUE /\ UNCHANGED events

\* UpsertSession replaces the whole row.  The pump and the handlers ignore
\* its error.
WriteSession(copy) ==
    \/ stored' = copy /\ UNCHANGED missed
    \/ missed' = TRUE /\ UNCHANGED stored

-----------------------------------------------------------------------------
(* handleStartSession.                                                     *)

\* Sessions.Start: the runtime runs and the drain with it.
StartRuntime ==
    /\ pc(Starter) = "idle"
    /\ machine' = "running" /\ modelState' = "running"
    /\ Record("state_changed")
    /\ frame' = [frame EXCEPT ![Starter].pc = "snapshot", ![Drain].pc = "idle"]
    /\ UNCHANGED <<native, closed, envVars, storeVars, shown, resumed>>

StartSnapshot ==
    /\ pc(Starter) = "snapshot"
    /\ frame' = [frame EXCEPT ![Starter].pc = "workspace", ![Starter].snap = Live]
    /\ UNCHANGED <<sessionVars, envVars, storeVars, shown, missed, resumed>>

StoreWorkspace ==
    /\ pc(Starter) = "workspace"
    /\ workspace' = TRUE
    /\ Goto(Starter, "conversation")
    /\ UNCHANGED <<sessionVars, envVars, stored, conversation, shown, missed, resumed>>

\* Mutant: the error of UpsertConversation is ignored.
StoreConversationUnchecked ==
    /\ pc(Starter) = "conversation"
    /\ conversation' \in {frame[Starter].snap.native, "absent"}
    /\ Goto(Starter, "session")
    /\ UNCHANGED <<sessionVars, envVars, stored, workspace, shown, missed, resumed>>

StoreConversation ==
    /\ pc(Starter) = "conversation"
    /\ conversation' = frame[Starter].snap.native
    /\ Goto(Starter, "session")
    /\ UNCHANGED <<sessionVars, envVars, stored, workspace, shown, missed, resumed>>

\* From here on clients find the session and may send it commands.
StoreSession ==
    /\ pc(Starter) = "session"
    /\ stored' = frame[Starter].snap
    /\ frame' = [a \in Actors |->
                    IF a = Starter THEN [frame[a] EXCEPT !.pc = "show"]
                    ELSE IF a \in Handlers THEN [frame[a] EXCEPT !.pc = "idle"]
                    ELSE frame[a]]
    /\ UNCHANGED <<sessionVars, envVars, workspace, conversation, shown, missed, resumed>>

\* A failed upsert is returned to the client: the runtime runs on unpumped.
StartFails ==
    /\ pc(Starter) \in {"workspace", "conversation", "session"}
    /\ Goto(Starter, "failed")
    /\ UNCHANGED <<sessionVars, envVars, storeVars, shown, missed, resumed>>

StartPump ==
    /\ pc(Starter) = "show"
    /\ shown' = frame[Starter].snap.state
    /\ frame' = [frame EXCEPT ![Starter] = At("done"), ![Pump] = At("idle")]
    /\ UNCHANGED <<sessionVars, envVars, storeVars, missed, resumed>>

-----------------------------------------------------------------------------
(* Pause and Resume (by the pump and the handlers) and setState.           *)

\* What follows a Pause, a Resume or a setState that changed nothing.
AfterCall(a) == IF a = Pump /\ frame[a].to = "running" THEN "bind" ELSE "idle"

StateGuard(a) ==
    /\ pc(a) = "guard"
    /\ Goto(a, IF machine = (IF frame[a].to = "paused" THEN "running" ELSE "paused")
               THEN "transition" ELSE AfterCall(a))
    /\ UNCHANGED <<sessionVars, envVars, storeVars, shown, missed, resumed>>

Transition(a) ==
    /\ pc(a) = "transition"
    /\ IF MayMove(machine, frame[a].to)
       THEN machine' = frame[a].to /\ Goto(a, "assign")
       ELSE machine' = machine /\ Goto(a, AfterCall(a))
    /\ UNCHANGED <<modelState, native, events, closed, envVars, storeVars, shown,
                   missed, resumed>>

AssignModel(a) ==
    /\ pc(a) = "assign"
    /\ modelState' = frame[a].to
    /\ resumed' = (resumed \/ a \in Handlers)
    /\ Goto(a, "record")
    /\ UNCHANGED <<machine, native, events, closed, envVars, storeVars, shown, missed>>

RecordState(a) ==
    /\ pc(a) = "record"
    /\ Record("state_changed")
    /\ Goto(a, IF a = Drain THEN "idle" ELSE "again")
    /\ UNCHANGED <<machine, modelState, native, closed, envVars, storeVars, shown, resumed>>

\* A Pause or Resume that returned true: the caller takes a new snapshot...
SnapshotAgain(a) ==
    /\ pc(a) = "again"
    /\ frame' = [frame EXCEPT ![a].pc = "persist", ![a].snap = Live]
    /\ UNCHANGED <<sessionVars, envVars, storeVars, shown, missed, resumed>>

\* ...writes it (persistSessionSnapshot with force, or UpsertSession)...
Persist(a) ==
    /\ pc(a) = "persist"
    /\ WriteSession(frame[a].snap)
    /\ Goto(a, "show")
    /\ UNCHANGED <<sessionVars, envVars, workspace, conversation, shown, resumed>>

\* ...and publishes its state.  A handler's message then goes to the runtime.
Show(a) ==
    /\ pc(a) = "show" /\ a # Starter
    /\ shown' = frame[a].snap.state
    /\ Goto(a, IF frame[a].kind \in OutputKinds THEN AfterCall(a) ELSE "idle")
    /\ UNCHANGED <<sessionVars, envVars, storeVars, missed, resumed>>

-----------------------------------------------------------------------------
(* drainRuntimeEvents.                                                     *)

DrainReceive(kind) ==
    /\ pc(Drain) = "idle" /\ outputs < MaxOutput
    /\ kind \in OutputKinds \union {"signalled"}
    /\ Record(kind)
    /\ outputs' = outputs + 1
    /\ UNCHANGED <<machine, modelState, native, closed, exited, commands, storeVars,
                   shown, resumed, frame>>

DrainExit(to) ==
    /\ pc(Drain) = "idle" /\ ~exited
    /\ to \in Terminal
    /\ Record("exit")
    /\ exited' = TRUE
    /\ frame' = [frame EXCEPT ![Drain].pc = "transition", ![Drain].to = to]
    /\ UNCHANGED <<machine, modelState, native, closed, outputs, commands, storeVars,
                   shown, resumed>>

DrainFinish ==
    /\ pc(Drain) = "idle" /\ exited
    /\ closed' = TRUE
    /\ Goto(Drain, "done")
    /\ UNCHANGED <<machine, modelState, native, events, envVars, storeVars, shown,
                   missed, resumed>>

-----------------------------------------------------------------------------
(* pumpSession.                                                            *)

PumpReceive ==
    /\ pc(Pump) = "idle" /\ events # <<>>
    /\ events' = Tail(events)
    /\ frame' = [frame EXCEPT ![Pump].pc = "snapshot", ![Pump].kind = Head(events)]
    /\ UNCHANGED <<machine, modelState, native, closed, envVars, storeVars, shown,
                   missed, resumed>>

\* Mutant: an event that is not output is persisted like output is.
PumpSnapshotThrottled ==
    /\ pc(Pump) = "snapshot"
    /\ frame' = [frame EXCEPT ![Pump].pc = "preview", ![Pump].snap = Live]
    /\ UNCHANGED <<sessionVars, envVars, storeVars, shown, missed, resumed>>

\* The snapshot at the head of the loop.  An event that is not output is then
\* persisted with force and its state published, an exit once the line of JSON
\* it may have cut off is read.
PumpSnapshot ==
    /\ pc(Pump) = "snapshot"
    /\ \E step \in CASE frame[Pump].kind = "json" -> {"bind"}
                     [] frame[Pump].kind = "exit" -> {"bind", "persist"}
                     [] frame[Pump].kind \in {"signalled", "state_changed"} -> {"persist"}
                     [] OTHER -> {"preview"} :
          frame' = [frame EXCEPT ![Pump].snap = Live, ![Pump].pc = step]
    /\ UNCHANGED <<sessionVars, envVars, storeVars, shown, missed, resumed>>

\* A newer snapshot is taken after JSON was read, and when text changes the
\* preview.
PumpPreview ==
    /\ pc(Pump) = "preview"
    /\ \E copy \in IF frame[Pump].kind \in JsonKinds THEN {Live} ELSE {frame[Pump].snap, Live} :
          frame' = [frame EXCEPT ![Pump].snap = copy,
                       ![Pump].pc = IF frame[Pump].kind = "exit" THEN "persist" ELSE "output"]
    /\ UNCHANGED <<sessionVars, envVars, storeVars, shown, missed, resumed>>

\* persistSessionSnapshot without force writes at most once in an interval.
\* Text from a session that was paused, and is no new request, resumes it.
PumpOutput ==
    /\ pc(Pump) = "output"
    /\ WriteSession(frame[Pump].snap) \/ UNCHANGED <<stored, missed>>
    /\ LET kind == frame[Pump].kind
           resumes == kind \in {"text", "naming"} /\ frame[Pump].snap.state = "paused"
       IN  \/ kind \in {"raw", "json"} /\ Goto(Pump, "idle")
           \/ resumes /\ Call(Pump, "running")
           \/ kind \notin {"raw", "json"} /\ ~resumes /\ Goto(Pump, "bind")
    /\ UNCHANGED <<sessionVars, envVars, workspace, conversation, shown, resumed>>

\* What follows the naming of a conversation: the chunk's next line of JSON.
AfterBind == CASE frame[Pump].kind = "json" -> "bind"
               [] frame[Pump].kind = "exit" -> "preview"
               [] OTHER -> "idle"

\* BindConversation: output that names a native conversation other than the
\* session's binds the session to it, whether or not it was bound to another.
Rebind ==
    /\ frame[Pump].kind \in JsonKinds \union {"naming"}
    /\ native' \in Natives \ {native}
    /\ Goto(Pump, "bind_again")

\* Otherwise a request for input pauses the session, text has no more to do,
\* and the lines of JSON end.
PumpBind ==
    /\ pc(Pump) = "bind"
    /\ \/ Rebind
       \/ frame[Pump].kind = "request" /\ Call(Pump, "paused") /\ UNCHANGED native
       \/ frame[Pump].kind \in JsonKinds /\ Goto(Pump, "preview") /\ UNCHANGED native
       \/ /\ frame[Pump].kind \notin JsonKinds \union {"request"}
          /\ frame[Pump].kind = "naming" => native # None
          /\ Goto(Pump, "idle") /\ UNCHANGED native
    /\ UNCHANGED <<machine, modelState, events, closed, envVars, storeVars, shown,
                   missed, resumed>>

BindSnapshot ==
    /\ pc(Pump) = "bind_again"
    /\ frame' = [frame EXCEPT ![Pump].pc = "bind_persist", ![Pump].snap = Live]
    /\ UNCHANGED <<sessionVars, envVars, storeVars, shown, missed, resumed>>

BindPersist ==
    /\ pc(Pump) = "bind_persist"
    /\ WriteSession(frame[Pump].snap)
    /\ Goto(Pump, "bind_store")
    /\ UNCHANGED <<sessionVars, envVars, workspace, conversation, shown, resumed>>

\* Mutant: a conversation that names a native one keeps it.
BindStoreOnce ==
    /\ pc(Pump) = "bind_store"
    /\ conversation' = IF conversation = None THEN frame[Pump].snap.native ELSE conversation
    /\ Goto(Pump, AfterBind)
    /\ UNCHANGED <<sessionVars, envVars, stored, workspace, missed, shown, resumed>>

\* upsertConversationBinding writes the ID just bound, which is the snapshot's,
\* for only the pump binds; nothing else writes the conversation by now.
BindStore ==
    /\ pc(Pump) = "bind_store"
    /\ \/ conversation' = frame[Pump].snap.native /\ UNCHANGED missed
       \/ missed' = TRUE /\ UNCHANGED conversation
    /\ Goto(Pump, AfterBind)
    /\ UNCHANGED <<sessionVars, envVars, stored, workspace, shown, resumed>>

PumpFinish ==
    /\ pc(Pump) = "idle" /\ events = <<>> /\ closed
    /\ Goto(Pump, "done")
    /\ UNCHANGED <<sessionVars, envVars, storeVars, shown, missed, resumed>>

-----------------------------------------------------------------------------
(* handleCommand.                                                          *)

UserMessage(h) ==
    /\ pc(h) = "idle" /\ commands[h] < MaxCommands
    /\ commands' = [commands EXCEPT ![h] = @ + 1]
    /\ Call(h, "running")
    /\ UNCHANGED <<sessionVars, exited, outputs, storeVars, shown, missed, resumed>>

\* Session.Interrupt records an event of its own.
Interrupt(h) ==
    /\ pc(h) = "idle" /\ commands[h] < MaxCommands
    /\ commands' = [commands EXCEPT ![h] = @ + 1]
    /\ Record("signalled")
    /\ UNCHANGED <<machine, modelState, native, closed, exited, outputs, storeVars,
                   shown, resumed, frame>>

-----------------------------------------------------------------------------
Starting == StartRuntime \/ StartSnapshot \/ StoreWorkspace \/ StoreConversation
               \/ StoreSession \/ StartFails \/ StartPump

Changing(a) == StateGuard(a) \/ Transition(a) \/ AssignModel(a) \/ RecordState(a)
                  \/ SnapshotAgain(a) \/ Persist(a) \/ Show(a)

Draining == \/ \E kind \in Kinds : DrainReceive(kind)
            \/ \E to \in Terminal : DrainExit(to)
            \/ DrainFinish

Pumping == PumpReceive \/ PumpSnapshot \/ PumpPreview \/ PumpOutput \/ PumpBind
              \/ BindSnapshot \/ BindPersist \/ BindStore \/ PumpFinish

Next ==
    \/ Starting \/ Draining \/ Pumping
    \/ \E a \in Actors : Changing(a)
    \/ \E h \in Handlers : UserMessage(h) \/ Interrupt(h)

Spec == Init /\ [][Next]_vars

-----------------------------------------------------------------------------
(* Properties.                                                             *)

\* The range of the session, of its rows and of every goroutine's frame.
TypeOK ==
    /\ machine \in States /\ modelState \in States /\ native \in Natives \union {None}
    /\ events \in Seq(Kinds) /\ Len(events) <= ChanCap
    /\ closed \in BOOLEAN /\ exited \in BOOLEAN
    /\ outputs \in 0..MaxOutput /\ commands \in [Handlers -> 0..MaxCommands]
    /\ stored \in Copies /\ workspace \in BOOLEAN
    /\ conversation \in Natives \union {None, "absent"}
    /\ shown \in States \union {"absent"}
    /\ missed \in BOOLEAN /\ resumed \in BOOLEAN
    /\ frame \in [Actors -> Frame]

\* Every goroutine of a started session waits for work, and the pump has
\* taken everything from the channel.
Quiet ==
    /\ \A a \in Actors : pc(a) \in {"idle", "done"}
    /\ machine # "pending" /\ events = <<>>

\* The catalog catches up: when all is quiet, nothing was lost and no client's
\* message resumed the session meanwhile, its row is the live session, however
\* the pump's snapshots fell between the drain's steps and whatever unforced
\* writes the interval suppressed.  So do the clients: the last state published
\* is the session's own.
StoreCatchesUp ==
    Quiet /\ ~missed /\ ~resumed => stored = Live /\ shown = modelState

\* A session's row never refers to a workspace or a conversation that is not
\* there, at whichever write the start failed.
RowsExist == stored # Absent => workspace /\ conversation # "absent"

\* Once the pump is idle, the conversation's row names the native conversation
\* the session has, whatever the clients do and however often the agent's output
\* names another (PRD.md:21): no row keeps an ID the session has left.
BindingIsStored ==
    pc(Pump) \in {"idle", "done"} /\ ~missed => conversation = native

\* PRD.md:22 promises durable session metadata: with nothing lost, a session at
\* rest is stored in the state it is in.
RestIsStored == Quiet /\ ~missed => stored.state = modelState
=============================================================================
