------------------------- MODULE SessionStoreProofs -------------------------
(***************************************************************************)
(* What the store holds of a session at every moment, for any number of    *)
(* clients, any capacity of the channel and any amount of output, whatever *)
(* write fails; and what its agent is started with, for any adapters,      *)
(* versions and environments.                                              *)
(***************************************************************************)
EXTENDS SessionStore, Launch, SequenceTheorems, NaturalsInduction, WellFoundedInduction, TLAPS

-----------------------------------------------------------------------------
(* Typing, of what the rows depend on.                                     *)

FrameOK == frame \in [Actors -> Frame]
StoreOK ==
    /\ modelState \in States /\ native \in Natives \union {None} /\ events \in Seq(Kinds)
    /\ FrameOK

\* Goto moves one frame to a step and leaves the others alone.
LEMMA GotoMoves ==
    ASSUME FrameOK, NEW a \in Actors, NEW step \in Steps, Goto(a, step)
    PROVE  /\ FrameOK' /\ frame'[a].pc = step
           /\ \A b \in Actors \ {a} : frame'[b] = frame[b]
           /\ step \notin {"idle", "done"} => /\ frame'[a].snap = frame[a].snap
                                              /\ frame'[a].kind = frame[a].kind
<1>1. At(step) \in Frame /\ At(step).pc = step
  BY DEF At, Frame, States, Kinds, OutputKinds, Copies, Absent
<1>2. frame[a] \in Frame /\ [frame[a] EXCEPT !.pc = step] \in Frame
  BY DEF FrameOK, Frame
<1>3. frame' = [frame EXCEPT ![a] = IF step \in {"idle", "done"} THEN At(step)
                                    ELSE [frame[a] EXCEPT !.pc = step]]
  BY DEF Goto
<1>4. QED
  BY <1>1, <1>2, <1>3 DEF FrameOK, Frame

\* Call begins a Pause or a Resume.
LEMMA CallMoves ==
    ASSUME FrameOK, NEW a \in Actors, NEW to \in States, Call(a, to)
    PROVE  /\ FrameOK' /\ frame'[a].pc = "guard"
           /\ \A b \in Actors \ {a} : frame'[b] = frame[b]
<1>1. frame[a] \in Frame /\ "guard" \in Steps
  BY DEF FrameOK, Steps
<1>2. QED
  BY <1>1 DEF Call, FrameOK, Frame

\* A step that puts a snapshot of the session into a frame.
LEMMA SnapshotMoves ==
    ASSUME FrameOK, NEW a \in Actors, NEW step \in Steps, NEW copy \in Copies,
           frame' = [frame EXCEPT ![a].pc = step, ![a].snap = copy]
    PROVE  /\ FrameOK' /\ frame'[a].pc = step /\ frame'[a].snap = copy
           /\ \A b \in Actors \ {a} : frame'[b] = frame[b]
<1>1. frame[a] \in Frame
  BY DEF FrameOK
<1>2. QED
  BY <1>1 DEF FrameOK, Frame

LEMMA RecordTyped ==
    ASSUME NEW kind \in Kinds, events \in Seq(Kinds), Record(kind)
    PROVE  events' \in Seq(Kinds)
  BY DEF Record

-----------------------------------------------------------------------------
(* Who runs when, and what that says of the rows.                          *)

DrainSteps == {"off", "idle", "transition", "assign", "record", "done"}
StartSteps == {"idle", "snapshot", "workspace", "conversation", "session", "failed", "show", "done"}
BindSteps  == {"bind_again", "bind_persist", "bind_store"}

\* The pump begins when the start is over, the handlers when the session's row
\* is there, and the drain writes no row.
PlaceInv ==
    /\ StoreOK
    /\ pc(Drain) \in DrainSteps /\ pc(Starter) \in StartSteps
    /\ pc(Pump) # "off" => pc(Starter) = "done"
    /\ \A h \in Handlers : pc(h) # "off" => pc(Starter) \in {"show", "done"}

\* The rows as far as the start has come.
RowInv ==
    /\ pc(Starter) = "conversation" => workspace
    /\ pc(Starter) \in {"session", "show", "done"} => workspace /\ conversation # "absent"
    /\ pc(Starter) \notin {"show", "done"} => stored = Absent

\* The conversation's row names the session's native conversation, or the
\* goroutine that will write it there has it in its copy.
BindInv ==
    /\ pc(Starter) \in {"workspace", "conversation"} => frame[Starter].snap.native = native
    /\ pc(Starter) \in {"session", "show"} => conversation = native
    /\ pc(Pump) \in {"bind_persist", "bind_store"} => frame[Pump].snap.native = native
    /\ pc(Starter) = "done" /\ pc(Pump) \notin BindSteps /\ ~missed => conversation = native

IInv == PlaceInv /\ RowInv /\ BindInv

\* A step of a goroutine other than the start.
LEMMA OthersMove ==
    ASSUME IInv, NEW a \in Actors \ {Starter}, pc(a) # "off",
           \A b \in Actors \ {a} : frame'[b] = frame[b], StoreOK',
           UNCHANGED <<workspace, conversation, native>>, missed' = missed \/ missed' = TRUE,
           a = Drain => frame'[a].pc \in DrainSteps /\ stored' = stored,
           a = Pump /\ pc(a) \in BindSteps => frame'[a].pc \in BindSteps,
           a = Pump /\ frame'[a].pc \in {"bind_persist", "bind_store"}
              => frame'[a].snap.native = native
    PROVE  IInv'
<1>1. /\ Drain \in Actors /\ Pump \in Actors /\ Starter \in Actors /\ Handlers \subseteq Actors
      /\ Drain # Pump /\ Drain # Starter /\ Pump # Starter /\ Starter \notin Handlers
      /\ Drain \notin Handlers /\ Pump \notin Handlers
      /\ a \in Handlers \union {Drain, Pump}
  BY ActorsAssumption DEF Actors
<1>2. frame'[Starter] = frame[Starter]
  BY <1>1
<1>3. a # Drain => pc(Starter) \in {"show", "done"}
  BY <1>1 DEF IInv, PlaceInv
<1>4. PlaceInv'
  <2>1. pc(Drain)' \in DrainSteps
    BY <1>1 DEF IInv, PlaceInv, pc
  <2>2. pc(Pump)' # "off" => pc(Starter)' = "done"
    BY <1>1, <1>2 DEF IInv, PlaceInv, pc
  <2>3. \A h \in Handlers : pc(h)' # "off" => pc(Starter)' \in {"show", "done"}
    BY <1>1, <1>2, <1>3 DEF IInv, PlaceInv, pc
  <2>4. QED
    BY <1>2, <2>1, <2>2, <2>3 DEF IInv, PlaceInv, pc
<1>5. RowInv'
  BY <1>2, <1>3 DEF IInv, RowInv, pc
<1>6. BindInv'
  <2>1. pc(Pump)' \notin BindSteps => pc(Pump) \notin BindSteps
    BY <1>1 DEF pc
  <2>2. pc(Pump)' \in {"bind_persist", "bind_store"} => frame'[Pump].snap.native = native
    BY <1>1 DEF IInv, BindInv, pc
  <2>3. QED
    BY <1>2, <2>1, <2>2 DEF IInv, BindInv, pc
<1>7. QED
  BY <1>4, <1>5, <1>6 DEF IInv

LEMMA StoreInit == Init => IInv
<1> SUFFICES ASSUME Init PROVE IInv
  OBVIOUS
<1>1. At("idle") \in Frame /\ At("off") \in Frame
  BY DEF At, Frame, Steps, States, Kinds, OutputKinds, Copies, Absent
<1>2. /\ Drain \in Actors /\ Pump \in Actors /\ Starter \in Actors /\ Handlers \subseteq Actors
      /\ Drain # Starter /\ Pump # Starter /\ Starter \notin Handlers
  BY ActorsAssumption DEF Actors
<1>3. frame \in [Actors -> Frame] /\ \A a \in Actors : frame[a] = IF a = Starter THEN At("idle") ELSE At("off")
  BY <1>1 DEF Init
<1>4. pc(Starter) = "idle" /\ pc(Drain) = "off" /\ pc(Pump) = "off" /\ \A h \in Handlers : pc(h) = "off"
  BY <1>2, <1>3 DEF pc, At
<1>5. StoreOK
  BY <1>3 DEF Init, StoreOK, FrameOK, States
<1>6. QED
  BY <1>4, <1>5 DEF Init, IInv, PlaceInv, RowInv, BindInv, DrainSteps, StartSteps

\* handleStartSession.
LEMMA StartingKeeps == IInv /\ Starting => IInv'
<1> SUFFICES ASSUME IInv, Starting PROVE IInv'
  OBVIOUS
<1> USE DEF sessionVars, envVars, storeVars
<1>1. /\ Drain \in Actors /\ Pump \in Actors /\ Starter \in Actors /\ Handlers \subseteq Actors
      /\ Drain # Pump /\ Drain # Starter /\ Pump # Starter /\ Starter \notin Handlers
      /\ Drain \notin Handlers /\ Pump \notin Handlers
  BY ActorsAssumption DEF Actors
<1>2. /\ FrameOK /\ modelState \in States /\ native \in Natives \union {None} /\ events \in Seq(Kinds)
      /\ Live \in Copies /\ \A a \in Actors : frame[a] \in Frame
  BY DEF IInv, PlaceInv, StoreOK, FrameOK, Live, Copies
<1>3. ASSUME NEW step \in StartSteps \ {"idle", "done", "show"}, Goto(Starter, step),
             step \in Steps, pc(Starter) \in StartSteps \ {"show", "done"}
      PROVE  /\ PlaceInv' <=> StoreOK'
             /\ FrameOK' /\ pc(Starter)' = step /\ frame'[Starter].snap = frame[Starter].snap
             /\ pc(Pump)' = pc(Pump)
  <2>1. /\ FrameOK' /\ frame'[Starter].pc = step
        /\ \A b \in Actors \ {Starter} : frame'[b] = frame[b]
        /\ frame'[Starter].snap = frame[Starter].snap
    BY <1>1, <1>2, <1>3, GotoMoves
  <2>2. pc(Pump) = "off" /\ \A h \in Handlers : pc(h) = "off"
    BY <1>3 DEF IInv, PlaceInv
  <2>3. QED
    BY <1>1, <2>1, <2>2 DEF IInv, PlaceInv, pc
<1>4. CASE StartRuntime
  <2>1. /\ pc(Starter) = "idle" /\ modelState' = "running" /\ Record("state_changed")
        /\ frame' = [frame EXCEPT ![Starter].pc = "snapshot", ![Drain].pc = "idle"]
        /\ UNCHANGED <<native, workspace, conversation, stored>>
    BY <1>4 DEF StartRuntime
  <2>2. /\ FrameOK' /\ frame'[Starter].pc = "snapshot" /\ frame'[Drain].pc = "idle"
        /\ \A b \in Actors \ {Starter, Drain} : frame'[b] = frame[b]
    <3>1. /\ [frame[Starter] EXCEPT !.pc = "snapshot"] \in Frame
          /\ [frame[Drain] EXCEPT !.pc = "idle"] \in Frame
      BY <1>1, <1>2 DEF Frame, Steps
    <3>2. /\ frame'[Starter] = [frame[Starter] EXCEPT !.pc = "snapshot"]
          /\ frame'[Drain] = [frame[Drain] EXCEPT !.pc = "idle"]
          /\ \A b \in Actors \ {Starter, Drain} : frame'[b] = frame[b]
          /\ DOMAIN frame' = Actors /\ frame' = [b \in Actors |-> frame'[b]]
      BY <1>1, <1>2, <2>1 DEF FrameOK
    <3>3. frame'[Starter].pc = "snapshot" /\ frame'[Drain].pc = "idle"
      BY <1>1, <1>2, <3>2 DEF Frame
    <3>4. \A b \in Actors : frame'[b] \in Frame
      BY <1>2, <3>1, <3>2
    <3>5. QED
      BY <3>2, <3>3, <3>4 DEF FrameOK
  <2>3. events' \in Seq(Kinds)
    BY <1>2, <2>1, RecordTyped DEF Kinds
  <2>4. StoreOK'
    BY <1>2, <2>1, <2>2, <2>3 DEF StoreOK, States
  <2>5. QED
    BY <1>1, <2>1, <2>2, <2>4 DEF IInv, PlaceInv, RowInv, BindInv, pc, DrainSteps, StartSteps
<1>5. CASE StartSnapshot
  <2>1. /\ pc(Starter) = "snapshot"
        /\ frame' = [frame EXCEPT ![Starter].pc = "workspace", ![Starter].snap = Live]
        /\ UNCHANGED <<modelState, events, native, workspace, conversation, stored>>
    BY <1>5 DEF StartSnapshot
  <2>2. /\ FrameOK' /\ frame'[Starter].pc = "workspace" /\ frame'[Starter].snap = Live
        /\ \A b \in Actors \ {Starter} : frame'[b] = frame[b]
    BY <1>1, <1>2, <2>1, SnapshotMoves DEF Steps
  <2>3. StoreOK' /\ Live.native = native
    BY <1>2, <2>1, <2>2 DEF StoreOK, Live
  <2>4. QED
    BY <1>1, <2>1, <2>2, <2>3 DEF IInv, PlaceInv, RowInv, BindInv, pc, StartSteps
<1>6. CASE StoreWorkspace
  <2>1. /\ pc(Starter) = "workspace" /\ workspace' = TRUE /\ Goto(Starter, "conversation")
        /\ UNCHANGED <<modelState, events, native, conversation, stored>>
    BY <1>6 DEF StoreWorkspace
  <2>2. PlaceInv' /\ pc(Starter)' = "conversation" /\ frame'[Starter].snap = frame[Starter].snap
    BY <1>2, <1>3, <2>1 DEF StoreOK, StartSteps, Steps
  <2>3. pc(Pump)' = "off"
    BY <1>3, <2>1 DEF StartSteps, Steps, IInv, PlaceInv
  <2>4. QED
    BY <2>1, <2>2, <2>3 DEF IInv, RowInv, BindInv
<1>7. CASE StoreConversation
  <2>1. /\ pc(Starter) = "conversation" /\ Goto(Starter, "session")
        /\ conversation' = frame[Starter].snap.native
        /\ UNCHANGED <<modelState, events, native, workspace, stored>>
    BY <1>7 DEF StoreConversation
  <2>2. PlaceInv' /\ pc(Starter)' = "session" /\ pc(Pump)' = pc(Pump) /\ pc(Pump) = "off"
    BY <1>2, <1>3, <2>1 DEF StoreOK, StartSteps, Steps, IInv, PlaceInv
  <2>3. conversation' = native /\ conversation' # "absent"
    BY <1>2, <2>1, NativesAssumption DEF IInv, BindInv, None
  <2>4. QED
    BY <2>1, <2>2, <2>3 DEF IInv, RowInv, BindInv
<1>8. CASE StoreSession
  <2>1. /\ pc(Starter) = "session"
        /\ frame' = [a \in Actors |->
                       IF a = Starter THEN [frame[a] EXCEPT !.pc = "show"]
                       ELSE IF a \in Handlers THEN [frame[a] EXCEPT !.pc = "idle"]
                       ELSE frame[a]]
        /\ UNCHANGED <<modelState, events, native, workspace, conversation>>
    BY <1>8 DEF StoreSession
  <2>2. \A f \in Frame : [f EXCEPT !.pc = "show"] \in Frame /\ [f EXCEPT !.pc = "idle"] \in Frame
    BY DEF Frame, Steps
  <2>3. FrameOK' /\ frame'[Starter].pc = "show" /\ frame'[Drain] = frame[Drain]
        /\ frame'[Pump] = frame[Pump]
    BY <1>1, <1>2, <2>1, <2>2 DEF FrameOK, Frame
  <2>4. StoreOK' /\ pc(Pump) = "off"
    BY <1>2, <2>1, <2>3 DEF StoreOK, IInv, PlaceInv
  <2>5. QED
    BY <1>1, <2>1, <2>3, <2>4 DEF IInv, PlaceInv, RowInv, BindInv, pc, StartSteps
<1>9. CASE StartFails
  <2>1. /\ pc(Starter) \in {"workspace", "conversation", "session"} /\ Goto(Starter, "failed")
        /\ UNCHANGED <<modelState, events, native, workspace, conversation, stored>>
    BY <1>9 DEF StartFails
  <2>2. PlaceInv' /\ pc(Starter)' = "failed"
    BY <1>2, <1>3, <2>1 DEF StoreOK, StartSteps, Steps
  <2>3. pc(Pump)' = "off"
    BY <1>3, <2>1 DEF StartSteps, Steps, IInv, PlaceInv
  <2>4. QED
    BY <2>1, <2>2, <2>3 DEF IInv, RowInv, BindInv
<1>10. CASE StartPump
  <2>1. /\ pc(Starter) = "show"
        /\ frame' = [frame EXCEPT ![Starter] = At("done"), ![Pump] = At("idle")]
        /\ UNCHANGED <<modelState, events, native, workspace, conversation, stored>>
    BY <1>10 DEF StartPump
  <2>2. At("done") \in Frame /\ At("idle") \in Frame /\ At("done").pc = "done"
        /\ At("idle").pc = "idle"
    BY DEF At, Frame, Steps, States, Kinds, OutputKinds, Copies, Absent
  <2>3. FrameOK' /\ frame'[Starter].pc = "done" /\ frame'[Pump].pc = "idle"
        /\ \A b \in Actors \ {Starter, Pump} : frame'[b] = frame[b]
    BY <1>1, <1>2, <2>1, <2>2 DEF FrameOK
  <2>4. StoreOK'
    BY <1>2, <2>1, <2>3 DEF StoreOK
  <2>5. QED
    BY <1>1, <2>1, <2>3, <2>4 DEF IInv, PlaceInv, RowInv, BindInv, pc, StartSteps
<1>11. QED
  BY <1>4, <1>5, <1>6, <1>7, <1>8, <1>9, <1>10 DEF Starting

\* Pause, Resume and setState, and what their callers write after them.
LEMMA ChangingKeeps == ASSUME IInv, NEW a \in Actors, Changing(a) PROVE IInv'
<1> USE DEF sessionVars, envVars, storeVars
<1>1. /\ Drain # Pump /\ Drain # Starter /\ Pump # Starter /\ Drain \in Actors
      /\ FrameOK /\ modelState \in States /\ native \in Natives \union {None} /\ events \in Seq(Kinds)
      /\ frame[a] \in Frame /\ frame[a].to \in States /\ Live \in Copies
      /\ pc(Drain) \in DrainSteps /\ pc(Starter) \in StartSteps
  BY ActorsAssumption DEF Actors, IInv, PlaceInv, StoreOK, FrameOK, Frame, Live, Copies
<1>2. ASSUME a # Starter, pc(a) \notin BindSteps \union {"off"}, NEW step \in Steps,
             step \notin BindSteps,
             Goto(a, step), a = Drain => step \in DrainSteps /\ stored' = stored,
             modelState' \in States, events' \in Seq(Kinds),
             UNCHANGED <<workspace, conversation, native>>, missed' = missed \/ missed' = TRUE
      PROVE  IInv'
  <2>1. /\ FrameOK' /\ frame'[a].pc = step
        /\ \A b \in Actors \ {a} : frame'[b] = frame[b]
    BY <1>1, <1>2, GotoMoves
  <2>2. StoreOK'
    BY <1>1, <1>2, <2>1 DEF StoreOK
  <2>3. QED
    BY <1>2, <2>1, <2>2, OthersMove DEF BindSteps
<1>3. /\ AfterCall(a) \in Steps \ BindSteps
      /\ a = Drain => AfterCall(a) = "idle"
  BY <1>1 DEF AfterCall, Steps, BindSteps
<1>4. CASE StateGuard(a)
  <2>1. a # Starter /\ a # Drain /\ pc(a) = "guard"
    BY <1>1, <1>4 DEF StateGuard, StartSteps, DrainSteps
  <2> DEFINE step == IF machine = (IF frame[a].to = "paused" THEN "running" ELSE "paused")
                     THEN "transition" ELSE AfterCall(a)
  <2>2. step \in Steps \ BindSteps /\ Goto(a, step)
    BY <1>3, <1>4 DEF StateGuard, Steps, BindSteps
  <2>3. UNCHANGED <<modelState, events, workspace, conversation, native, missed>>
    BY <1>4 DEF StateGuard
  <2> HIDE DEF step
  <2>4. QED
    BY <1>1, <1>2, <2>1, <2>2, <2>3 DEF BindSteps
<1>5. CASE Transition(a)
  <2>1. a # Starter /\ pc(a) = "transition"
    BY <1>1, <1>5 DEF Transition, StartSteps
  <2>2. PICK step \in {"assign", AfterCall(a)} : Goto(a, step)
    BY <1>5 DEF Transition
  <2>3. step \in Steps \ BindSteps /\ (a = Drain => step \in DrainSteps)
    BY <1>3, <2>2 DEF Steps, BindSteps, DrainSteps
  <2>4. UNCHANGED <<modelState, events, stored, workspace, conversation, native, missed>>
    BY <1>5 DEF Transition
  <2>5. QED
    BY <1>1, <1>2, <2>1, <2>2, <2>3, <2>4 DEF BindSteps
<1>6. CASE AssignModel(a)
  <2>1. a # Starter /\ pc(a) = "assign" /\ modelState' \in States /\ Goto(a, "record")
    BY <1>1, <1>6 DEF AssignModel, StartSteps
  <2>2. UNCHANGED <<events, stored, workspace, conversation, native, missed>>
    BY <1>6 DEF AssignModel
  <2>3. QED
    BY <1>1, <1>2, <2>1, <2>2 DEF BindSteps, DrainSteps, Steps
<1>7. CASE RecordState(a)
  <2>1. a # Starter /\ pc(a) = "record" /\ Record("state_changed")
    BY <1>1, <1>7 DEF RecordState, StartSteps
  <2>2. events' \in Seq(Kinds) /\ (missed' = missed \/ missed' = TRUE)
    BY <1>1, <2>1, RecordTyped DEF Kinds, Record
  <2>3. UNCHANGED <<modelState, stored, workspace, conversation, native>>
    BY <1>7 DEF RecordState
  <2>4. PICK step \in {"idle", "again"} : Goto(a, step) /\ (a = Drain => step = "idle")
    BY <1>7 DEF RecordState
  <2>5. QED
    BY <1>1, <1>2, <2>1, <2>2, <2>3, <2>4 DEF BindSteps, DrainSteps, Steps
<1>8. CASE SnapshotAgain(a)
  <2>1. /\ a # Starter /\ a # Drain /\ pc(a) = "again"
        /\ frame' = [frame EXCEPT ![a].pc = "persist", ![a].snap = Live]
        /\ UNCHANGED <<modelState, events, workspace, conversation, native, missed>>
    BY <1>1, <1>8 DEF SnapshotAgain, StartSteps, DrainSteps
  <2>2. FrameOK' /\ frame'[a].pc = "persist" /\ \A b \in Actors \ {a} : frame'[b] = frame[b]
    BY <1>1, <2>1, SnapshotMoves DEF Steps
  <2>3. StoreOK'
    BY <1>1, <2>1, <2>2 DEF StoreOK
  <2>4. QED
    BY <2>1, <2>2, <2>3, OthersMove DEF BindSteps
<1>9. CASE Persist(a)
  <2>1. /\ a # Starter /\ a # Drain /\ pc(a) = "persist" /\ Goto(a, "show")
        /\ UNCHANGED <<modelState, events, workspace, conversation, native>>
        /\ missed' = missed \/ missed' = TRUE
    BY <1>1, <1>9 DEF Persist, WriteSession, StartSteps, DrainSteps
  <2>2. QED
    BY <1>1, <1>2, <2>1 DEF BindSteps, Steps
<1>10. CASE Show(a)
  <2>1. a # Starter /\ a # Drain /\ pc(a) = "show"
    BY <1>1, <1>10 DEF Show, DrainSteps
  <2>2. PICK step \in {"idle", AfterCall(a)} : Goto(a, step)
    BY <1>10 DEF Show
  <2>3. UNCHANGED <<modelState, events, workspace, conversation, native, missed>>
    BY <1>10 DEF Show
  <2>4. QED
    BY <1>1, <1>2, <1>3, <2>1, <2>2, <2>3 DEF BindSteps, Steps
<1>11. QED
  BY <1>4, <1>5, <1>6, <1>7, <1>8, <1>9, <1>10 DEF Changing

\* drainRuntimeEvents.
LEMMA DrainingKeeps == IInv /\ Draining => IInv'
<1> SUFFICES ASSUME IInv, Draining PROVE IInv'
  OBVIOUS
<1> USE DEF sessionVars, envVars, storeVars
<1>1. /\ Drain # Pump /\ Drain # Starter /\ Drain \in Actors
      /\ FrameOK /\ modelState \in States /\ native \in Natives \union {None} /\ events \in Seq(Kinds)
      /\ frame[Drain] \in Frame /\ Terminal \subseteq States
  BY ActorsAssumption DEF Actors, IInv, PlaceInv, StoreOK, FrameOK, Terminal, States
<1>2. ASSUME NEW kind \in Kinds, Record(kind)
      PROVE  events' \in Seq(Kinds) /\ (missed' = missed \/ missed' = TRUE)
  BY <1>1, <1>2, RecordTyped DEF Record
<1>3. ASSUME NEW kind \in Kinds, DrainReceive(kind)
      PROVE  IInv'
  <2>1. /\ pc(Drain) = "idle" /\ Record(kind)
        /\ UNCHANGED <<modelState, native, frame, stored, workspace, conversation>>
    BY <1>3 DEF DrainReceive
  <2>2. StoreOK' /\ (missed' = missed \/ missed' = TRUE)
    BY <1>1, <1>2, <2>1 DEF StoreOK, FrameOK
  <2>3. QED
    BY <1>1, <2>1, <2>2, OthersMove DEF pc, DrainSteps
<1>4. ASSUME NEW to \in Terminal, DrainExit(to)
      PROVE  IInv'
  <2>1. /\ pc(Drain) = "idle" /\ Record("exit")
        /\ frame' = [frame EXCEPT ![Drain].pc = "transition", ![Drain].to = to]
        /\ UNCHANGED <<modelState, native, stored, workspace, conversation>>
    BY <1>4 DEF DrainExit
  <2>2. /\ FrameOK' /\ frame'[Drain].pc = "transition"
        /\ \A b \in Actors \ {Drain} : frame'[b] = frame[b]
    BY <1>1, <2>1 DEF FrameOK, Frame, Steps
  <2>3. StoreOK' /\ (missed' = missed \/ missed' = TRUE)
    BY <1>1, <1>2, <2>1, <2>2 DEF StoreOK, Kinds
  <2>4. QED
    BY <1>1, <2>1, <2>2, <2>3, OthersMove DEF DrainSteps
<1>5. CASE DrainFinish
  <2>1. /\ pc(Drain) = "idle" /\ Goto(Drain, "done")
        /\ UNCHANGED <<modelState, events, native, stored, workspace, conversation, missed>>
    BY <1>5 DEF DrainFinish
  <2>2. /\ FrameOK' /\ frame'[Drain].pc = "done"
        /\ \A b \in Actors \ {Drain} : frame'[b] = frame[b]
    BY <1>1, <2>1, GotoMoves DEF Steps
  <2>3. StoreOK'
    BY <1>1, <2>1, <2>2 DEF StoreOK
  <2>4. QED
    BY <1>1, <2>1, <2>2, <2>3, OthersMove DEF DrainSteps
<1>6. QED
  BY <1>3, <1>4, <1>5 DEF Draining

\* pumpSession: only PumpBind and BindStore touch what the rows depend on.
LEMMA PumpingKeeps == IInv /\ Pumping => IInv'
<1> SUFFICES ASSUME IInv, Pumping PROVE IInv'
  OBVIOUS
<1> USE DEF sessionVars, envVars, storeVars
<1>1. /\ Drain # Pump /\ Pump # Starter /\ Pump \in Actors /\ Starter \in Actors /\ Drain \in Actors
      /\ Pump \notin Handlers /\ Handlers \subseteq Actors
      /\ FrameOK /\ modelState \in States /\ native \in Natives \union {None} /\ events \in Seq(Kinds)
      /\ frame[Pump] \in Frame /\ frame[Pump].snap \in Copies /\ Live \in Copies
  BY ActorsAssumption DEF Actors, IInv, PlaceInv, StoreOK, FrameOK, Frame, Live, Copies
<1>2. ASSUME pc(Pump) # "off", NEW step \in Steps,
             pc(Pump) \in BindSteps => step \in BindSteps,
             frame'[Pump].pc = step, FrameOK',
             step \in {"bind_persist", "bind_store"} => frame'[Pump].snap.native = native,
             \A b \in Actors \ {Pump} : frame'[b] = frame[b], events' \in Seq(Kinds),
             UNCHANGED <<modelState, workspace, conversation, native>>,
             missed' = missed \/ missed' = TRUE
      PROVE  IInv'
  <2>1. StoreOK'
    BY <1>1, <1>2 DEF StoreOK
  <2>2. QED
    BY <1>1, <1>2, <2>1, OthersMove
<1>3. AfterBind \in {"bind", "preview", "idle"}
  BY DEF AfterBind
<1>4. CASE PumpReceive
  <2>1. /\ pc(Pump) = "idle" /\ events # <<>> /\ events' = Tail(events)
        /\ frame' = [frame EXCEPT ![Pump].pc = "snapshot", ![Pump].kind = Head(events)]
        /\ UNCHANGED <<modelState, workspace, conversation, native, missed>>
    BY <1>4 DEF PumpReceive
  <2>2. Head(events) \in Kinds /\ events' \in Seq(Kinds)
    BY <1>1, <2>1
  <2>3. /\ FrameOK' /\ frame'[Pump].pc = "snapshot"
        /\ \A b \in Actors \ {Pump} : frame'[b] = frame[b]
    BY <1>1, <2>1, <2>2 DEF FrameOK, Frame, Steps
  <2>4. QED
    BY <1>2, <2>1, <2>2, <2>3 DEF Steps, BindSteps
<1>5. CASE PumpSnapshot
  <2>1. PICK step \in {"bind", "persist", "preview"} :
           frame' = [frame EXCEPT ![Pump].snap = Live, ![Pump].pc = step]
    <3>1. PICK step \in CASE frame[Pump].kind = "json" -> {"bind"}
                          [] frame[Pump].kind = "exit" -> {"bind", "persist"}
                          [] frame[Pump].kind \in {"signalled", "state_changed"} -> {"persist"}
                          [] OTHER -> {"preview"} :
             frame' = [frame EXCEPT ![Pump].snap = Live, ![Pump].pc = step]
      BY <1>5 DEF PumpSnapshot
    <3>2. QED
      BY <3>1
  <2>2. /\ pc(Pump) = "snapshot"
        /\ UNCHANGED <<modelState, events, workspace, conversation, native, missed>>
    BY <1>5 DEF PumpSnapshot
  <2>3. /\ FrameOK' /\ frame'[Pump].pc = step
        /\ \A b \in Actors \ {Pump} : frame'[b] = frame[b]
    BY <1>1, <2>1 DEF FrameOK, Frame, Steps
  <2>4. QED
    BY <1>1, <1>2, <2>2, <2>3 DEF Steps, BindSteps
<1>6. CASE PumpPreview
  <2>1. PICK copy \in {frame[Pump].snap, Live} :
           frame' = [frame EXCEPT ![Pump].snap = copy,
                        ![Pump].pc = IF frame[Pump].kind = "exit" THEN "persist" ELSE "output"]
    BY <1>6 DEF PumpPreview
  <2>2. /\ pc(Pump) = "preview"
        /\ UNCHANGED <<modelState, events, workspace, conversation, native, missed>>
    BY <1>6 DEF PumpPreview
  <2>3. /\ FrameOK' /\ frame'[Pump].pc \in {"persist", "output"}
        /\ \A b \in Actors \ {Pump} : frame'[b] = frame[b]
    BY <1>1, <2>1 DEF FrameOK, Frame, Steps
  <2>4. QED
    BY <1>1, <1>2, <2>2, <2>3 DEF Steps, BindSteps
<1>7. CASE PumpOutput
  <2>1. /\ pc(Pump) = "output" /\ (missed' = missed \/ missed' = TRUE)
        /\ UNCHANGED <<modelState, events, workspace, conversation, native>>
    BY <1>7 DEF PumpOutput, WriteSession
  <2>2. Goto(Pump, "idle") \/ Goto(Pump, "bind") \/ Call(Pump, "running")
    BY <1>7 DEF PumpOutput
  <2>3. /\ FrameOK' /\ frame'[Pump].pc \in {"idle", "bind", "guard"}
        /\ \A b \in Actors \ {Pump} : frame'[b] = frame[b]
    BY <1>1, <2>2, GotoMoves, CallMoves DEF Steps, States
  <2>4. QED
    BY <1>1, <1>2, <2>1, <2>3 DEF Steps, BindSteps
<1>8. CASE PumpBind
  <2>1. /\ pc(Pump) = "bind"
        /\ UNCHANGED <<modelState, events, workspace, conversation, stored, missed>>
    BY <1>8 DEF PumpBind
  <2>2. CASE native' \in Natives /\ Goto(Pump, "bind_again")
    <3>1. /\ FrameOK' /\ frame'[Pump].pc = "bind_again"
          /\ \A b \in Actors \ {Pump} : frame'[b] = frame[b]
      BY <1>1, <2>2, GotoMoves DEF Steps
    <3>2. StoreOK' /\ pc(Starter) = "done"
      BY <1>1, <2>1, <2>2, <3>1 DEF StoreOK, IInv, PlaceInv
    <3>3. QED
      BY <1>1, <2>1, <3>1, <3>2 DEF IInv, PlaceInv, RowInv, BindInv, BindSteps, pc
  <2>3. CASE /\ UNCHANGED native
             /\ Goto(Pump, "preview") \/ Goto(Pump, "idle") \/ Call(Pump, "paused")
    <3>1. /\ FrameOK' /\ frame'[Pump].pc \in {"preview", "idle", "guard"}
          /\ \A b \in Actors \ {Pump} : frame'[b] = frame[b]
      BY <1>1, <2>3, GotoMoves, CallMoves DEF Steps, States
    <3>2. QED
      BY <1>1, <1>2, <2>1, <2>3, <3>1 DEF Steps, BindSteps
  <2>4. QED
    BY <1>8, <2>2, <2>3 DEF PumpBind, Rebind
<1>9. CASE BindSnapshot
  <2>1. /\ pc(Pump) = "bind_again"
        /\ frame' = [frame EXCEPT ![Pump].pc = "bind_persist", ![Pump].snap = Live]
        /\ UNCHANGED <<modelState, events, workspace, conversation, native, missed>>
    BY <1>9 DEF BindSnapshot
  <2>2. /\ FrameOK' /\ frame'[Pump].pc = "bind_persist" /\ frame'[Pump].snap = Live
        /\ \A b \in Actors \ {Pump} : frame'[b] = frame[b]
    BY <1>1, <2>1, SnapshotMoves DEF Steps
  <2>3. frame'[Pump].snap.native = native
    BY <2>2 DEF Live
  <2>4. QED
    BY <1>1, <1>2, <2>1, <2>2, <2>3 DEF Steps, BindSteps
<1>10. CASE BindPersist
  <2>1. /\ pc(Pump) = "bind_persist" /\ Goto(Pump, "bind_store")
        /\ missed' = missed \/ missed' = TRUE
        /\ UNCHANGED <<modelState, events, workspace, conversation, native>>
    BY <1>10 DEF BindPersist, WriteSession
  <2>2. /\ FrameOK' /\ frame'[Pump].pc = "bind_store"
        /\ frame'[Pump].snap = frame[Pump].snap
        /\ \A b \in Actors \ {Pump} : frame'[b] = frame[b]
    BY <1>1, <2>1, GotoMoves DEF Steps
  <2>3. frame'[Pump].snap.native = native
    BY <2>1, <2>2 DEF IInv, BindInv
  <2>4. QED
    BY <1>1, <1>2, <2>1, <2>2, <2>3 DEF Steps, BindSteps
<1>11. CASE BindStore
  <2>1. /\ pc(Pump) = "bind_store" /\ Goto(Pump, AfterBind)
        /\ \/ conversation' = frame[Pump].snap.native /\ missed' = missed
           \/ conversation' = conversation /\ missed' = TRUE
        /\ UNCHANGED <<modelState, events, workspace, stored, native>>
    BY <1>11 DEF BindStore
  <2>2. /\ FrameOK' /\ frame'[Pump].pc \in {"bind", "preview", "idle"}
        /\ \A b \in Actors \ {Pump} : frame'[b] = frame[b]
    BY <1>1, <1>3, <2>1, GotoMoves DEF Steps
  <2>3. StoreOK' /\ pc(Starter) = "done"
    BY <1>1, <2>1, <2>2 DEF StoreOK, IInv, PlaceInv
  <2>4. /\ ~missed' => conversation' = native
        /\ conversation' # "absent"
    BY <1>1, <2>1, <2>3, NativesAssumption DEF IInv, RowInv, BindInv, None, Copies
  <2>5. QED
    BY <1>1, <2>1, <2>2, <2>3, <2>4 DEF IInv, PlaceInv, RowInv, BindInv, BindSteps, pc
<1>12. CASE PumpFinish
  <2>1. /\ pc(Pump) = "idle" /\ Goto(Pump, "done")
        /\ UNCHANGED <<modelState, events, workspace, conversation, native, missed>>
    BY <1>12 DEF PumpFinish
  <2>2. /\ FrameOK' /\ frame'[Pump].pc = "done"
        /\ \A b \in Actors \ {Pump} : frame'[b] = frame[b]
    BY <1>1, <2>1, GotoMoves DEF Steps
  <2>3. QED
    BY <1>1, <1>2, <2>1, <2>2 DEF Steps, BindSteps
<1>13. QED
  BY <1>4, <1>5, <1>6, <1>7, <1>8, <1>9, <1>10, <1>11, <1>12 DEF Pumping

\* handleCommand.
LEMMA CommandKeeps ==
    ASSUME IInv, NEW h \in Handlers, UserMessage(h) \/ Interrupt(h) PROVE IInv'
<1> USE DEF sessionVars, envVars, storeVars
<1>1. /\ h \in Actors \ {Starter} /\ h # Drain /\ h # Pump /\ pc(h) = "idle"
      /\ FrameOK /\ events \in Seq(Kinds)
  BY ActorsAssumption DEF Actors, IInv, PlaceInv, StoreOK, UserMessage, Interrupt
<1>2. CASE UserMessage(h)
  <2>1. /\ Call(h, "running")
        /\ UNCHANGED <<modelState, native, events, workspace, conversation, missed>>
    BY <1>2 DEF UserMessage
  <2>2. FrameOK' /\ \A b \in Actors \ {h} : frame'[b] = frame[b]
    BY <1>1, <2>1, CallMoves DEF States
  <2>3. StoreOK'
    BY <2>1, <2>2 DEF StoreOK, IInv, PlaceInv
  <2>4. QED
    BY <1>1, <2>1, <2>2, <2>3, OthersMove
<1>3. CASE Interrupt(h)
  <2>1. /\ Record("signalled")
        /\ UNCHANGED <<modelState, native, workspace, conversation, frame>>
    BY <1>3 DEF Interrupt
  <2>2. events' \in Seq(Kinds) /\ (missed' = missed \/ missed' = TRUE)
    BY <1>1, <2>1, RecordTyped DEF Record, Kinds
  <2>3. StoreOK'
    BY <2>1, <2>2 DEF StoreOK, FrameOK, IInv, PlaceInv
  <2>4. QED
    BY <1>1, <2>1, <2>2, <2>3, OthersMove
<1>4. QED
  BY <1>2, <1>3

LEMMA StoreInvariant == Spec => []IInv
<1>1. Init => IInv
  BY StoreInit
<1>2. IInv /\ [Next]_vars => IInv'
  <2> SUFFICES ASSUME IInv, [Next]_vars PROVE IInv'
    OBVIOUS
  <2>1. CASE UNCHANGED vars
    BY <2>1 DEF vars, sessionVars, envVars, storeVars, IInv, PlaceInv, RowInv, BindInv,
                StoreOK, FrameOK, pc
  <2>2. CASE Next
    BY <2>2, StartingKeeps, ChangingKeeps, DrainingKeeps, PumpingKeeps, CommandKeeps DEF Next
  <2>3. QED
    BY <2>1, <2>2
<1>3. QED
  BY <1>1, <1>2, PTL DEF Spec

-----------------------------------------------------------------------------
\* At whichever write a start fails and whatever runs beside it, the catalog
\* never holds a session's row without its workspace and its conversation: the
\* rows appear in the order of handleStartSession, and nothing but the start
\* writes the first two while they are missing.
THEOREM RowsAlwaysExist == Spec => []RowsExist
<1>1. IInv => RowsExist
  BY DEF IInv, PlaceInv, RowInv, RowsExist
<1>2. QED
  BY <1>1, StoreInvariant, PTL

\* Whenever the pump rests, the conversation's row names the very native
\* conversation the session has, for any clients, any native IDs and any output
\* that names them one after another, unless a write failed: the start stores
\* what New was given, and after that only the pump binds and it stores every
\* binding before it takes another event.
THEOREM BindingIsAlwaysStored == Spec => []BindingIsStored
<1>1. IInv => BindingIsStored
  BY DEF IInv, PlaceInv, BindInv, BindingIsStored, BindSteps
<1>2. QED
  BY <1>1, StoreInvariant, PTL
-----------------------------------------------------------------------------
(* The catalog catches up.                                                 *)

\* A change of state the pump has yet to hear of.
Announced == \E i \in 1..Len(events) : events[i] = "state_changed"

\* Nothing is owed: an update was lost, a client's message resumed the session,
\* or a change of state is on its way to the pump.
Excused == missed \/ resumed \/ pc(Drain) = "record" \/ Announced

\* The start's copy, until the row has it.
StartFresh ==
    /\ pc(Starter) \in {"workspace", "conversation", "session", "show"}
          => frame[Starter].snap = Live
    /\ pc(Starter) = "show" => stored = Live

\* The row and the last published state are the session's, except where the
\* pump is about to take a copy that it stores or publishes whatever happens.
UpToDate == {"idle", "done", "guard", "transition", "assign", "preview", "output",
             "bind", "bind_store"}
PumpFresh ==
    /\ pc(Pump) \in UpToDate => stored = Live
    /\ pc(Pump) \in UpToDate \union {"bind_again", "bind_persist"} => shown = modelState
    /\ pc(Pump) = "snapshot" /\ frame[Pump].kind # "state_changed"
          => stored = Live /\ shown = modelState
    /\ pc(Pump) \in {"persist", "output", "bind_persist"} => frame[Pump].snap = Live
    /\ pc(Pump) = "preview" /\ frame[Pump].kind \notin JsonKinds => frame[Pump].snap = Live
    /\ pc(Pump) = "show" => stored = Live /\ frame[Pump].snap.state = modelState

\* The steps of a handler whose Resume has changed the session.
AfterAssign == {"record", "again", "persist", "show"}

CatchInv ==
    /\ pc(Starter) = "idle" => pc(Drain) = "off"
    /\ closed => pc(Drain) = "done"
    /\ \A h \in Handlers : pc(h) \in AfterAssign => resumed
    /\ Excused \/ (StartFresh /\ PumpFresh)
\* Record announces a change of state unless the channel is closed or full, and
\* what it appends hides no earlier announcement.
LEMMA RecordAnnounces ==
    ASSUME events \in Seq(Kinds), NEW kind \in Kinds, Record(kind)
    PROVE  /\ Announced => Announced'
           /\ missed => missed'
           /\ kind = "state_changed" /\ ~closed => Announced' \/ missed'
<1>1. CASE UNCHANGED <<events, missed>> /\ closed
  BY <1>1 DEF Announced
<1>2. CASE events' = Append(events, kind) /\ missed' = missed
  <2>1. /\ Len(events) \in Nat /\ Len(events') = Len(events) + 1
        /\ events'[Len(events) + 1] = kind
        /\ \A i \in 1..Len(events) : events'[i] = events[i] /\ i \in 1..Len(events')
        /\ Len(events) + 1 \in 1..Len(events')
    BY <1>2
  <2>2. Announced => Announced'
    BY <2>1 DEF Announced
  <2>3. kind = "state_changed" => Announced'
    BY <2>1 DEF Announced
  <2>4. QED
    BY <1>2, <2>2, <2>3
<1>3. CASE missed' = TRUE /\ events' = events
  BY <1>3 DEF Announced
<1>4. QED
  BY <1>1, <1>2, <1>3 DEF Record

\* The head of the channel is the announcement, or it is still in the tail.
LEMMA ReceiveAnnounces ==
    ASSUME events \in Seq(Kinds), events # <<>>, events' = Tail(events), Announced
    PROVE  Head(events) = "state_changed" \/ Announced'
<1>1. /\ Len(events) \in Nat /\ Len(events') = Len(events) - 1 /\ Head(events) = events[1]
      /\ \A i \in 1..Len(events') : events'[i] = events[i + 1]
  OBVIOUS
<1>2. PICK i \in 1..Len(events) : events[i] = "state_changed"
  BY DEF Announced
<1>3. CASE i = 1
  BY <1>1, <1>2, <1>3
<1>4. CASE i # 1
  <2>1. i - 1 \in 1..Len(events') /\ events'[i - 1] = events[i]
    BY <1>1, <1>2, <1>4
  <2>2. QED
    BY <1>2, <2>1 DEF Announced
<1>5. QED
  BY <1>3, <1>4

\* A step of the drain or of a handler.
LEMMA OthersCatch ==
    ASSUME IInv, CatchInv, NEW a \in Handlers \union {Drain},
           \A b \in Actors \ {a} : frame'[b] = frame[b], native' = native,
           pc(a) # "off",
           Excused => Excused',
           Excused' \/ UNCHANGED <<stored, shown, modelState>>,
           closed' => pc(Drain)' = "done",
           resumed => resumed',
           a \in Handlers /\ pc(a)' \in AfterAssign => resumed'
    PROVE  CatchInv'
<1>1. /\ Pump \in Actors /\ Starter \in Actors /\ a # Pump /\ a # Starter
      /\ Drain \notin Handlers /\ Handlers \subseteq Actors
  BY ActorsAssumption DEF Actors
<1>2. frame'[Pump] = frame[Pump] /\ frame'[Starter] = frame[Starter]
  BY <1>1
<1>3. /\ \A h \in Handlers : pc(h)' \in AfterAssign => resumed'
      /\ pc(Starter)' = "idle" => pc(Drain)' = "off"
  <2>1. pc(Starter)' = "idle" => pc(Drain)' = "off"
    BY <1>1, <1>2, ActorsAssumption DEF CatchInv, IInv, PlaceInv, pc, Actors
  <2>2. QED
    BY <1>1, <2>1 DEF CatchInv, pc
<1>4. ASSUME ~Excused' PROVE StartFresh' /\ PumpFresh'
  <2>1. UNCHANGED <<stored, shown, modelState>> /\ StartFresh /\ PumpFresh
    BY <1>4 DEF CatchInv
  <2>2. Live' = Live
    BY <2>1 DEF Live
  <2>3. QED
    BY <1>2, <2>1, <2>2 DEF StartFresh, PumpFresh, pc
<1>5. QED
  BY <1>3, <1>4 DEF CatchInv

\* A step of the pump.
LEMMA PumpCatch ==
    ASSUME IInv, CatchInv, pc(Pump) # "off",
           \A b \in Actors \ {Pump} : frame'[b] = frame[b],
           closed' = closed, resumed => resumed', missed => missed',
           Announced => Announced',
           PumpFresh /\ ~missed' => PumpFresh'
    PROVE  CatchInv'
<1>1. /\ Drain \in Actors /\ Starter \in Actors /\ Drain # Pump /\ Starter # Pump
      /\ Pump \notin Handlers /\ Handlers \subseteq Actors
  BY ActorsAssumption DEF Actors
<1>2. /\ frame'[Drain] = frame[Drain] /\ frame'[Starter] = frame[Starter]
      /\ \A h \in Handlers : frame'[h] = frame[h]
  BY <1>1
<1>3. pc(Starter)' = "done"
  BY <1>2 DEF IInv, PlaceInv, pc
<1>4. Excused => Excused'
  BY <1>2 DEF Excused, pc
<1>5. Excused' \/ (StartFresh' /\ PumpFresh')
  BY <1>3, <1>4 DEF CatchInv, StartFresh, Excused
<1>6. QED
  BY <1>2, <1>5 DEF CatchInv, pc

LEMMA StartingCatches == IInv /\ CatchInv /\ Starting => CatchInv'
<1> SUFFICES ASSUME IInv, CatchInv, Starting PROVE CatchInv'
  OBVIOUS
<1> USE DEF sessionVars, envVars, storeVars
<1>1. /\ Drain \in Actors /\ Pump \in Actors /\ Starter \in Actors /\ Handlers \subseteq Actors
      /\ Drain # Pump /\ Drain # Starter /\ Pump # Starter /\ Starter \notin Handlers
      /\ Drain \notin Handlers /\ Pump \notin Handlers
  BY ActorsAssumption DEF Actors
<1>2. /\ FrameOK /\ Live \in Copies /\ \A a \in Actors : frame[a] \in Frame
      /\ events \in Seq(Kinds)
  BY DEF IInv, PlaceInv, StoreOK, FrameOK, Live, Copies
<1>3. ASSUME closed' = closed, resumed' = resumed, missed' = missed, events' = events,
             frame'[Drain] = frame[Drain], pc(Starter)' # "idle",
             \A h \in Handlers : pc(h)' \in AfterAssign => pc(h) \in AfterAssign,
             ~Excused => StartFresh' /\ PumpFresh'
      PROVE  CatchInv'
  BY <1>1, <1>3 DEF CatchInv, Excused, Announced, pc
<1>4. pc(Starter) # "done" => pc(Pump) = "off"
  BY DEF IInv, PlaceInv
<1>5. ASSUME NEW step \in StartSteps \ {"idle", "done"}, pc(Starter) # "done",
             Goto(Starter, step), UNCHANGED <<closed, resumed, missed, events, native, modelState>>,
             step \in {"workspace", "conversation", "session", "show"}
                => pc(Starter) \in {"workspace", "conversation", "session"},
             step # "show"
      PROVE  CatchInv'
  <2>1. step \in Steps
    BY <1>5 DEF StartSteps, Steps
  <2>2. /\ frame'[Starter].pc = step /\ frame'[Starter].snap = frame[Starter].snap
        /\ \A b \in Actors \ {Starter} : frame'[b] = frame[b]
    BY <1>1, <1>2, <1>5, <2>1, GotoMoves
  <2>3. Live' = Live
    BY <1>5 DEF Live
  <2>4. ~Excused => StartFresh' /\ PumpFresh'
    BY <1>1, <1>4, <1>5, <2>2, <2>3 DEF CatchInv, StartFresh, PumpFresh, UpToDate, pc
  <2>5. QED
    BY <1>1, <1>3, <1>5, <2>2, <2>4 DEF pc, StartSteps
<1>6. CASE StartRuntime
  <2>1. /\ pc(Starter) = "idle" /\ Record("state_changed") /\ closed' = closed
        /\ resumed' = resumed
        /\ frame' = [frame EXCEPT ![Starter].pc = "snapshot", ![Drain].pc = "idle"]
    BY <1>6 DEF StartRuntime
  <2>2. /\ frame'[Starter].pc = "snapshot" /\ frame'[Drain].pc = "idle"
        /\ \A b \in Actors \ {Starter, Drain} : frame'[b] = frame[b]
    BY <1>1, <1>2, <2>1 DEF FrameOK, Frame, Steps
  <2>3. ~closed
    BY <2>1 DEF CatchInv
  <2>4. Excused'
    BY <1>2, <2>1, <2>3, RecordAnnounces DEF Excused, Kinds
  <2>5. QED
    BY <1>1, <2>1, <2>2, <2>3, <2>4 DEF CatchInv, pc
<1>7. CASE StartSnapshot
  <2>1. /\ pc(Starter) = "snapshot"
        /\ frame' = [frame EXCEPT ![Starter].pc = "workspace", ![Starter].snap = Live]
        /\ UNCHANGED <<closed, resumed, missed, events, native, modelState>>
    BY <1>7 DEF StartSnapshot
  <2>2. /\ frame'[Starter].pc = "workspace" /\ frame'[Starter].snap = Live
        /\ \A b \in Actors \ {Starter} : frame'[b] = frame[b]
    BY <1>1, <1>2, <2>1, SnapshotMoves DEF Steps
  <2>3. Live' = Live
    BY <2>1 DEF Live
  <2>4. StartFresh' /\ PumpFresh'
    BY <1>1, <1>4, <2>1, <2>2, <2>3 DEF StartFresh, PumpFresh, UpToDate, pc
  <2>5. QED
    BY <1>1, <1>3, <2>1, <2>2, <2>4 DEF pc
<1>8. CASE StoreWorkspace
  <2>1. /\ pc(Starter) = "workspace" /\ Goto(Starter, "conversation")
        /\ UNCHANGED <<closed, resumed, missed, events, native, modelState>>
    BY <1>8 DEF StoreWorkspace
  <2>2. QED
    BY <1>5, <2>1 DEF StartSteps
<1>9. CASE StoreConversation
  <2>1. /\ pc(Starter) = "conversation" /\ Goto(Starter, "session")
        /\ UNCHANGED <<closed, resumed, missed, events, native, modelState>>
    BY <1>9 DEF StoreConversation
  <2>2. QED
    BY <1>5, <2>1 DEF StartSteps
<1>10. CASE StartFails
  <2>1. /\ pc(Starter) # "done" /\ Goto(Starter, "failed")
        /\ UNCHANGED <<closed, resumed, missed, events, native, modelState>>
    BY <1>10 DEF StartFails
  <2>2. QED
    BY <1>5, <2>1 DEF StartSteps
<1>11. CASE StoreSession
  <2>1. /\ pc(Starter) = "session" /\ stored' = frame[Starter].snap
        /\ frame' = [a \in Actors |->
                       IF a = Starter THEN [frame[a] EXCEPT !.pc = "show"]
                       ELSE IF a \in Handlers THEN [frame[a] EXCEPT !.pc = "idle"]
                       ELSE frame[a]]
        /\ UNCHANGED <<closed, resumed, missed, events, native, modelState>>
    BY <1>11 DEF StoreSession
  <2>2. \A f \in Frame : /\ [f EXCEPT !.pc = "show"].pc = "show"
                         /\ [f EXCEPT !.pc = "show"].snap = f.snap
                         /\ [f EXCEPT !.pc = "idle"].pc = "idle"
    BY DEF Frame, Steps
  <2>3. /\ frame'[Starter].pc = "show" /\ frame'[Starter].snap = frame[Starter].snap
        /\ frame'[Drain] = frame[Drain] /\ frame'[Pump] = frame[Pump]
        /\ \A h \in Handlers : frame'[h].pc = "idle"
    BY <1>1, <1>2, <2>1, <2>2
  <2>4. Live' = Live
    BY <2>1 DEF Live
  <2>5. ~Excused => StartFresh' /\ PumpFresh'
    BY <1>1, <1>4, <2>1, <2>3, <2>4 DEF CatchInv, StartFresh, PumpFresh, UpToDate, pc
  <2>6. QED
    BY <1>1, <1>3, <2>1, <2>3, <2>5 DEF pc, AfterAssign
<1>12. CASE StartPump
  <2>1. /\ pc(Starter) = "show" /\ shown' = frame[Starter].snap.state /\ stored' = stored
        /\ frame' = [frame EXCEPT ![Starter] = At("done"), ![Pump] = At("idle")]
        /\ UNCHANGED <<closed, resumed, missed, events, native, modelState>>
    BY <1>12 DEF StartPump
  <2>2. At("done").pc = "done" /\ At("idle").pc = "idle"
    BY DEF At
  <2>3. /\ frame'[Starter].pc = "done" /\ frame'[Pump].pc = "idle"
        /\ \A b \in Actors \ {Starter, Pump} : frame'[b] = frame[b]
    BY <1>1, <1>2, <2>1, <2>2 DEF FrameOK
  <2>4. Live' = Live /\ Live.state = modelState
    BY <2>1 DEF Live
  <2>5. ~Excused => stored = Live /\ frame[Starter].snap = Live
    BY <2>1 DEF CatchInv, StartFresh
  <2>6. ~Excused => StartFresh' /\ PumpFresh'
    BY <2>1, <2>3, <2>4, <2>5 DEF StartFresh, PumpFresh, UpToDate, pc
  <2>7. QED
    BY <1>1, <1>3, <2>1, <2>3, <2>6 DEF pc
<1>13. QED
  BY <1>6, <1>7, <1>8, <1>9, <1>10, <1>11, <1>12 DEF Starting

LEMMA DrainingCatches == IInv /\ CatchInv /\ Draining => CatchInv'
<1> SUFFICES ASSUME IInv, CatchInv, Draining PROVE CatchInv'
  OBVIOUS
<1> USE DEF sessionVars, envVars, storeVars
<1>1. /\ Drain \in Actors /\ FrameOK /\ events \in Seq(Kinds)
  BY DEF Actors, IInv, PlaceInv, StoreOK
<1>2. ASSUME NEW kind \in Kinds, DrainReceive(kind) PROVE CatchInv'
  <2>1. /\ Record(kind) /\ UNCHANGED <<native, stored, shown, modelState, closed, resumed, frame>>
        /\ pc(Drain) = "idle"
    BY <1>2 DEF DrainReceive
  <2>2. Excused => Excused'
    BY <1>1, <2>1, RecordAnnounces DEF Excused, pc
  <2>3. QED
    BY <2>1, <2>2, OthersCatch, ActorsAssumption DEF CatchInv, pc
<1>3. ASSUME NEW to \in Terminal, DrainExit(to) PROVE CatchInv'
  <2>1. /\ pc(Drain) = "idle" /\ Record("exit")
        /\ frame' = [frame EXCEPT ![Drain].pc = "transition", ![Drain].to = to]
        /\ UNCHANGED <<native, stored, shown, modelState, closed, resumed>>
    BY <1>3 DEF DrainExit
  <2>2. \A b \in Actors \ {Drain} : frame'[b] = frame[b]
    BY <1>1, <2>1 DEF FrameOK
  <2>3. Excused => Excused'
    BY <1>1, <2>1, RecordAnnounces DEF Excused, Kinds
  <2>4. ~closed
    BY <2>1 DEF CatchInv
  <2>5. QED
    BY <2>1, <2>2, <2>3, <2>4, OthersCatch, ActorsAssumption
<1>4. CASE DrainFinish
  <2>1. /\ pc(Drain) = "idle" /\ Goto(Drain, "done")
        /\ UNCHANGED <<native, stored, shown, modelState, resumed, missed, events>>
    BY <1>4 DEF DrainFinish
  <2>2. frame'[Drain].pc = "done" /\ \A b \in Actors \ {Drain} : frame'[b] = frame[b]
    BY <1>1, <2>1, GotoMoves DEF Steps
  <2>3. Excused => Excused'
    BY <2>1 DEF Excused, Announced
  <2>4. QED
    BY <2>1, <2>2, <2>3, OthersCatch, ActorsAssumption DEF pc
<1>5. QED
  BY <1>2, <1>3, <1>4 DEF Draining

LEMMA CommandCatches ==
    ASSUME IInv, CatchInv, NEW h \in Handlers, UserMessage(h) \/ Interrupt(h)
    PROVE  CatchInv'
<1> USE DEF sessionVars, envVars, storeVars
<1>1. /\ h \in Actors /\ h # Drain /\ Drain \in Actors /\ FrameOK /\ events \in Seq(Kinds)
      /\ pc(h) = "idle"
  BY ActorsAssumption DEF Actors, IInv, PlaceInv, StoreOK, UserMessage, Interrupt
<1>2. CASE UserMessage(h)
  <2>1. /\ Call(h, "running")
        /\ UNCHANGED <<native, stored, shown, modelState, closed, resumed, missed, events>>
    BY <1>2 DEF UserMessage
  <2>2. frame'[h].pc = "guard" /\ \A b \in Actors \ {h} : frame'[b] = frame[b]
    BY <1>1, <2>1, CallMoves DEF States
  <2>3. Excused => Excused'
    BY <1>1, <2>1, <2>2 DEF Excused, Announced, pc
  <2>4. QED
    BY <1>1, <2>1, <2>2, <2>3, OthersCatch DEF CatchInv, AfterAssign, pc
<1>3. CASE Interrupt(h)
  <2>1. /\ Record("signalled")
        /\ UNCHANGED <<native, stored, shown, modelState, closed, resumed, frame>>
    BY <1>3 DEF Interrupt
  <2>2. Excused => Excused'
    BY <1>1, <2>1, RecordAnnounces DEF Excused, Kinds, pc
  <2>3. QED
    BY <1>1, <2>1, <2>2, OthersCatch DEF CatchInv, pc
<1>4. QED
  BY <1>2, <1>3
\* Pause, Resume and setState by the drain and by a handler, and what a handler
\* writes after them.
LEMMA ChangingCatches ==
    ASSUME IInv, CatchInv, NEW a \in Handlers \union {Drain}, Changing(a)
    PROVE  CatchInv'
<1> USE DEF sessionVars, envVars, storeVars
<1>1. /\ a \in Actors /\ a # Pump /\ Drain \in Actors /\ FrameOK /\ events \in Seq(Kinds)
      /\ Drain \notin Handlers /\ a # Starter
      /\ (a = Drain => pc(a) \in DrainSteps /\ pc(a) \notin {"guard", "again", "persist", "show"})
  BY ActorsAssumption DEF Actors, IInv, PlaceInv, StoreOK, DrainSteps
<1>2. AfterCall(a) = "idle"
  BY <1>1 DEF AfterCall
<1>3. ASSUME NEW step \in Steps, Goto(a, step), pc(a) \notin {"off", "done"},
             UNCHANGED <<native, closed>>, Excused => Excused',
             Excused' \/ UNCHANGED <<stored, shown, modelState>>,
             resumed => resumed',
             a \in Handlers /\ step \in AfterAssign => resumed'
      PROVE  CatchInv'
  <2>1. frame'[a].pc = step /\ \A b \in Actors \ {a} : frame'[b] = frame[b]
    BY <1>1, <1>3, GotoMoves
  <2>2. closed' => pc(Drain)' = "done"
    BY <1>1, <1>3, <2>1 DEF CatchInv, pc
  <2>3. QED
    BY <1>3, <2>1, <2>2, OthersCatch DEF pc
<1>4. ASSUME NEW step \in Steps, Goto(a, step), pc(a) # "record" \/ a # Drain,
             missed => missed', resumed => resumed', UNCHANGED events
      PROVE  Excused => Excused'
  <2>1. \A b \in Actors \ {a} : frame'[b] = frame[b]
    BY <1>1, <1>4, GotoMoves
  <2>2. QED
    BY <1>1, <1>4, <2>1 DEF Excused, Announced, pc
<1>5. CASE StateGuard(a)
  <2>1. pc(a) = "guard" /\ UNCHANGED <<native, closed, stored, shown, modelState, resumed, missed, events>>
    BY <1>5 DEF StateGuard
  <2>2. PICK step \in {"transition", "idle"} : Goto(a, step)
    BY <1>2, <1>5 DEF StateGuard
  <2>3. QED
    BY <1>3, <1>4, <2>1, <2>2 DEF Steps, AfterAssign
<1>6. CASE Transition(a)
  <2>1. pc(a) = "transition" /\ UNCHANGED <<native, closed, stored, shown, modelState, resumed, missed, events>>
    BY <1>6 DEF Transition
  <2>2. PICK step \in {"assign", "idle"} : Goto(a, step)
    BY <1>2, <1>6 DEF Transition
  <2>3. QED
    BY <1>3, <1>4, <2>1, <2>2 DEF Steps, AfterAssign
<1>7. CASE AssignModel(a)
  <2>1. pc(a) = "assign" /\ Goto(a, "record") /\ UNCHANGED <<native, closed, stored, shown, missed, events>>
    BY <1>7 DEF AssignModel
  <2>2. resumed => resumed'
    BY <1>7 DEF AssignModel
  <2>3. a \in Handlers => resumed'
    BY <1>7 DEF AssignModel
  <2>4. Excused'
    <3>1. frame'[a].pc = "record"
      BY <1>1, <2>1, GotoMoves DEF Steps
    <3>2. QED
      BY <2>3, <3>1 DEF Excused, pc
  <2>5. QED
    BY <1>3, <2>1, <2>2, <2>3, <2>4 DEF Steps
<1>8. CASE RecordState(a)
  <2>1. /\ pc(a) = "record" /\ Record("state_changed")
        /\ UNCHANGED <<native, closed, stored, shown, modelState, resumed>>
    BY <1>8 DEF RecordState
  <2>2. PICK step \in {"idle", "again"} : Goto(a, step)
    BY <1>8 DEF RecordState
  <2>3. a \in Handlers => resumed
    BY <2>1 DEF CatchInv, AfterAssign
  <2>4. a = Drain => ~closed
    BY <2>1 DEF CatchInv
  <2>5. Excused'
    BY <1>1, <2>1, <2>3, <2>4, RecordAnnounces DEF Excused, Kinds
  <2>6. QED
    BY <1>3, <2>1, <2>2, <2>3, <2>5 DEF Steps
<1>9. CASE SnapshotAgain(a)
  <2>1. /\ pc(a) = "again" /\ a \in Handlers
        /\ frame' = [frame EXCEPT ![a].pc = "persist", ![a].snap = Live]
        /\ UNCHANGED <<native, closed, stored, shown, modelState, resumed, missed, events>>
    BY <1>1, <1>9 DEF SnapshotAgain
  <2>2. resumed /\ Live \in Copies
    BY <2>1 DEF CatchInv, AfterAssign, IInv, PlaceInv, StoreOK, Live, Copies
  <2>3. frame'[a].pc = "persist" /\ \A b \in Actors \ {a} : frame'[b] = frame[b]
    BY <1>1, <2>1, <2>2, SnapshotMoves DEF Steps
  <2>4. closed' => pc(Drain)' = "done"
    BY <1>1, <2>1, <2>3 DEF CatchInv, pc
  <2>5. QED
    BY <2>1, <2>2, <2>3, <2>4, OthersCatch DEF Excused
<1>10. CASE Persist(a)
  <2>1. /\ pc(a) = "persist" /\ a \in Handlers /\ Goto(a, "show")
        /\ UNCHANGED <<native, closed, shown, modelState, resumed, events>>
    BY <1>1, <1>10 DEF Persist
  <2>2. resumed
    BY <2>1 DEF CatchInv, AfterAssign
  <2>3. QED
    BY <1>3, <2>1, <2>2 DEF Steps, Excused
<1>11. CASE Show(a)
  <2>1. /\ pc(a) = "show" /\ a \in Handlers
        /\ UNCHANGED <<native, closed, stored, modelState, resumed, missed, events>>
    BY <1>1, <1>11 DEF Show
  <2>2. Goto(a, "idle")
    BY <1>2, <1>11 DEF Show
  <2>3. resumed
    BY <2>1 DEF CatchInv, AfterAssign
  <2>4. QED
    BY <1>3, <2>1, <2>2, <2>3 DEF Steps, Excused
<1>12. QED
  BY <1>5, <1>6, <1>7, <1>8, <1>9, <1>10, <1>11 DEF Changing

\* The same by the pump: it comes out with the row and the published state
\* fresh, or with a change of state still to be received.
LEMMA PumpChangingCatches == IInv /\ CatchInv /\ Changing(Pump) => CatchInv'
<1> SUFFICES ASSUME IInv, CatchInv, Changing(Pump) PROVE CatchInv'
  OBVIOUS
<1> USE DEF sessionVars, envVars, storeVars
<1>1. /\ Pump \in Actors /\ Pump # Drain /\ Pump # Starter /\ Pump \notin Handlers
      /\ FrameOK /\ events \in Seq(Kinds) /\ Live \in Copies
  BY ActorsAssumption DEF Actors, IInv, PlaceInv, StoreOK, Live, Copies
<1>2. AfterCall(Pump) \in {"bind", "idle"}
  BY DEF AfterCall
<1>3. ASSUME NEW step \in Steps, Goto(Pump, step), pc(Pump) # "off",
             UNCHANGED <<native, closed, resumed>>, missed => missed',
             Announced => Announced',
             PumpFresh /\ ~missed' /\ frame'[Pump].pc = step
                /\ (step \notin {"idle", "done"} => frame'[Pump].snap = frame[Pump].snap)
                => PumpFresh'
      PROVE  CatchInv'
  <2>1. /\ frame'[Pump].pc = step /\ \A b \in Actors \ {Pump} : frame'[b] = frame[b]
        /\ step \notin {"idle", "done"} => frame'[Pump].snap = frame[Pump].snap
    BY <1>1, <1>3, GotoMoves
  <2>2. QED
    BY <1>3, <2>1, PumpCatch
<1>4. events' = events => (Announced => Announced')
  BY DEF Announced
<1>5. UNCHANGED <<native, modelState>> => Live' = Live
  BY DEF Live
<1>6. Live.state = modelState
  BY DEF Live
<1> USE DEF PumpFresh, UpToDate, pc
<1>7. CASE StateGuard(Pump)
  <2>1. pc(Pump) = "guard" /\ UNCHANGED <<native, closed, stored, shown, modelState, resumed, missed, events>>
    BY <1>7 DEF StateGuard
  <2>2. PICK step \in {"transition", "bind", "idle"} : Goto(Pump, step)
    BY <1>2, <1>7 DEF StateGuard
  <2>3. QED
    BY <1>3, <1>4, <1>5, <2>1, <2>2 DEF Steps
<1>8. CASE Transition(Pump)
  <2>1. pc(Pump) = "transition" /\ UNCHANGED <<native, closed, stored, shown, modelState, resumed, missed, events>>
    BY <1>8 DEF Transition
  <2>2. PICK step \in {"assign", "bind", "idle"} : Goto(Pump, step)
    BY <1>2, <1>8 DEF Transition
  <2>3. QED
    BY <1>3, <1>4, <1>5, <2>1, <2>2 DEF Steps
<1>9. CASE AssignModel(Pump)
  <2>1. pc(Pump) = "assign" /\ Goto(Pump, "record") /\ UNCHANGED <<native, closed, stored, shown, missed, events>>
    BY <1>9 DEF AssignModel
  <2>2. frame'[Pump].pc = "record" /\ \A b \in Actors \ {Pump} : frame'[b] = frame[b]
    BY <1>1, <2>1, GotoMoves DEF Steps
  <2>3. resumed => resumed'
    BY <1>9 DEF AssignModel
  <2>4. PumpFresh'
    BY <2>2
  <2>5. QED
    BY <1>4, <2>1, <2>2, <2>3, <2>4, PumpCatch
<1>10. CASE RecordState(Pump)
  <2>1. /\ pc(Pump) = "record" /\ Record("state_changed") /\ Goto(Pump, "again")
        /\ UNCHANGED <<native, closed, stored, shown, modelState, resumed>>
    BY <1>1, <1>10 DEF RecordState
  <2>2. (missed => missed') /\ (Announced => Announced')
    BY <1>1, <2>1, RecordAnnounces DEF Kinds
  <2>3. QED
    BY <1>3, <2>1, <2>2 DEF Steps
<1>11. CASE SnapshotAgain(Pump)
  <2>1. /\ pc(Pump) = "again"
        /\ frame' = [frame EXCEPT ![Pump].pc = "persist", ![Pump].snap = Live]
        /\ UNCHANGED <<native, closed, stored, shown, modelState, resumed, missed, events>>
    BY <1>11 DEF SnapshotAgain
  <2>2. /\ frame'[Pump].pc = "persist" /\ frame'[Pump].snap = Live
        /\ \A b \in Actors \ {Pump} : frame'[b] = frame[b]
    BY <1>1, <2>1, SnapshotMoves DEF Steps
  <2>3. PumpFresh'
    BY <1>5, <2>1, <2>2
  <2>4. QED
    BY <1>4, <2>1, <2>2, <2>3, PumpCatch
<1>12. CASE Persist(Pump)
  <2>1. /\ pc(Pump) = "persist" /\ Goto(Pump, "show") /\ WriteSession(frame[Pump].snap)
        /\ UNCHANGED <<native, closed, shown, modelState, resumed, events>>
    BY <1>12 DEF Persist
  <2>2. (missed => missed') /\ (~missed' => stored' = frame[Pump].snap)
    BY <2>1 DEF WriteSession
  <2>3. QED
    BY <1>3, <1>4, <1>5, <1>6, <2>1, <2>2 DEF Steps
<1>13. CASE Show(Pump)
  <2>1. /\ pc(Pump) = "show" /\ shown' = frame[Pump].snap.state
        /\ UNCHANGED <<native, closed, stored, modelState, resumed, missed, events>>
    BY <1>13 DEF Show
  <2>2. PICK step \in {"bind", "idle"} : Goto(Pump, step)
    BY <1>2, <1>13 DEF Show
  <2>3. QED
    BY <1>3, <1>4, <1>5, <2>1, <2>2 DEF Steps
<1>14. QED
  BY <1>7, <1>8, <1>9, <1>10, <1>11, <1>12, <1>13 DEF Changing
\* pumpSession.
LEMMA PumpingCatches == IInv /\ CatchInv /\ Pumping => CatchInv'
<1> SUFFICES ASSUME IInv, CatchInv, Pumping PROVE CatchInv'
  OBVIOUS
<1> USE DEF sessionVars, envVars, storeVars
<1>1. /\ Pump \in Actors /\ Drain \in Actors /\ Starter \in Actors /\ Handlers \subseteq Actors
      /\ Pump # Drain /\ Pump # Starter /\ Pump \notin Handlers
      /\ FrameOK /\ frame[Pump] \in Frame /\ events \in Seq(Kinds) /\ Live \in Copies
  BY ActorsAssumption DEF Actors, IInv, PlaceInv, StoreOK, FrameOK, Live, Copies
<1>2. ASSUME NEW step \in Steps, frame'[Pump].pc = step, pc(Pump) # "off",
             \A b \in Actors \ {Pump} : frame'[b] = frame[b],
             UNCHANGED <<closed, resumed, events>>, missed => missed',
             PumpFresh /\ ~missed' => PumpFresh'
      PROVE  CatchInv'
  <2>1. Announced => Announced'
    BY <1>2 DEF Announced
  <2>2. QED
    BY <1>2, <2>1, PumpCatch
<1>3. ASSUME NEW step \in Steps, Goto(Pump, step)
      PROVE  /\ frame'[Pump].pc = step /\ \A b \in Actors \ {Pump} : frame'[b] = frame[b]
             /\ step \notin {"idle", "done"} => /\ frame'[Pump].snap = frame[Pump].snap
                                                /\ frame'[Pump].kind = frame[Pump].kind
  BY <1>1, <1>3, GotoMoves
<1>4. UNCHANGED <<native, modelState>> => Live' = Live
  BY DEF Live
<1>5. Live.state = modelState
  BY DEF Live
<1>6. ASSUME NEW to \in States, Call(Pump, to)
      PROVE  frame'[Pump].pc = "guard" /\ \A b \in Actors \ {Pump} : frame'[b] = frame[b]
  BY <1>1, <1>6, CallMoves
<1>7. {"idle", "done", "guard", "output", "bind", "bind_store", "preview", "persist",
       "snapshot", "bind_again", "bind_persist"} \subseteq Steps
  BY DEF Steps
<1> USE DEF PumpFresh, UpToDate, pc
<1>8. CASE PumpReceive
  <2>1. /\ pc(Pump) = "idle" /\ events # <<>> /\ events' = Tail(events)
        /\ frame' = [frame EXCEPT ![Pump].pc = "snapshot", ![Pump].kind = Head(events)]
        /\ UNCHANGED <<native, closed, stored, shown, modelState, resumed, missed>>
    BY <1>8 DEF PumpReceive
  <2>2. /\ frame'[Pump].pc = "snapshot" /\ frame'[Pump].kind = Head(events)
        /\ \A b \in Actors \ {Pump} : frame'[b] = frame[b]
    BY <1>1, <2>1 DEF FrameOK, Frame
  <2>3. Announced => Head(events) = "state_changed" \/ Announced'
    BY <1>1, <2>1, ReceiveAnnounces
  <2>4. PumpFresh \/ Head(events) = "state_changed" => PumpFresh'
    BY <1>4, <2>1, <2>2
  <2>5. pc(Starter)' = "done" /\ pc(Drain)' = pc(Drain)
    BY <1>1, <2>1, <2>2 DEF IInv, PlaceInv
  <2>6. Excused' \/ (StartFresh' /\ PumpFresh')
    BY <2>1, <2>3, <2>4, <2>5 DEF CatchInv, Excused, StartFresh
  <2>7. QED
    BY <1>1, <2>1, <2>2, <2>5, <2>6 DEF CatchInv
<1>9. CASE PumpSnapshot
  <2>1. PICK step \in {"bind", "persist", "preview"} :
           /\ frame' = [frame EXCEPT ![Pump].snap = Live, ![Pump].pc = step]
           /\ step = "persist" \/ frame[Pump].kind # "state_changed"
    <3>1. PICK step \in CASE frame[Pump].kind = "json" -> {"bind"}
                          [] frame[Pump].kind = "exit" -> {"bind", "persist"}
                          [] frame[Pump].kind \in {"signalled", "state_changed"} -> {"persist"}
                          [] OTHER -> {"preview"} :
             frame' = [frame EXCEPT ![Pump].snap = Live, ![Pump].pc = step]
      BY <1>9 DEF PumpSnapshot
    <3>2. QED
      BY <3>1
  <2>2. /\ pc(Pump) = "snapshot"
        /\ UNCHANGED <<native, closed, stored, shown, modelState, resumed, missed, events>>
    BY <1>9 DEF PumpSnapshot
  <2>3. /\ frame'[Pump].pc = step /\ frame'[Pump].snap = Live
        /\ \A b \in Actors \ {Pump} : frame'[b] = frame[b]
    BY <1>1, <2>1 DEF FrameOK, Frame
  <2>4. PumpFresh => PumpFresh'
    BY <1>4, <2>1, <2>2, <2>3
  <2>5. QED
    BY <1>2, <1>7, <2>2, <2>3, <2>4
<1>10. CASE PumpPreview
  <2>1. PICK copy \in IF frame[Pump].kind \in JsonKinds THEN {Live} ELSE {frame[Pump].snap, Live} :
           frame' = [frame EXCEPT ![Pump].snap = copy,
                        ![Pump].pc = IF frame[Pump].kind = "exit" THEN "persist" ELSE "output"]
    BY <1>10 DEF PumpPreview
  <2>2. /\ pc(Pump) = "preview"
        /\ UNCHANGED <<native, closed, stored, shown, modelState, resumed, missed, events>>
    BY <1>10 DEF PumpPreview
  <2>3. PICK step \in {"persist", "output"} :
           frame' = [frame EXCEPT ![Pump].snap = copy, ![Pump].pc = step]
    BY <2>1
  <2>4. /\ frame'[Pump].pc = step /\ frame'[Pump].snap = copy
        /\ \A b \in Actors \ {Pump} : frame'[b] = frame[b]
    BY <1>1, <2>3 DEF FrameOK, Frame
  <2>5. PumpFresh => copy = Live
    BY <2>1, <2>2
  <2>6. PumpFresh => PumpFresh'
    BY <1>4, <2>2, <2>4, <2>5
  <2>7. QED
    BY <1>2, <1>7, <2>2, <2>4, <2>6
<1>11. CASE PumpOutput
  <2>1. /\ pc(Pump) = "output"
        /\ UNCHANGED <<native, closed, shown, modelState, resumed, events>>
    BY <1>11 DEF PumpOutput
  <2>2. /\ missed => missed'
        /\ ~missed' => stored' = frame[Pump].snap \/ stored' = stored
    BY <1>11 DEF PumpOutput, WriteSession
  <2>3. Goto(Pump, "idle") \/ Goto(Pump, "bind") \/ Call(Pump, "running")
    BY <1>11 DEF PumpOutput
  <2>4. /\ frame'[Pump].pc \in {"idle", "bind", "guard"}
        /\ \A b \in Actors \ {Pump} : frame'[b] = frame[b]
    BY <1>3, <1>6, <1>7, <2>3 DEF States
  <2>5. PumpFresh /\ ~missed' => PumpFresh'
    BY <1>4, <2>1, <2>2, <2>4
  <2>6. QED
    BY <1>2, <1>7, <2>1, <2>2, <2>4, <2>5
<1>12. CASE PumpBind
  <2>1. /\ pc(Pump) = "bind"
        /\ UNCHANGED <<closed, stored, shown, modelState, resumed, missed, events>>
    BY <1>12 DEF PumpBind
  <2>2. CASE Rebind
    <3>1. /\ frame'[Pump].pc = "bind_again"
          /\ \A b \in Actors \ {Pump} : frame'[b] = frame[b]
      BY <1>3, <1>7, <2>2 DEF Rebind
    <3>2. PumpFresh => PumpFresh'
      BY <2>1, <3>1
    <3>3. QED
      BY <1>2, <1>7, <2>1, <3>1, <3>2
  <2>3. CASE UNCHANGED native /\ Call(Pump, "paused")
    <3>1. /\ frame'[Pump].pc = "guard"
          /\ \A b \in Actors \ {Pump} : frame'[b] = frame[b]
      BY <1>6, <2>3 DEF States
    <3>2. PumpFresh => PumpFresh'
      BY <1>4, <2>1, <2>3, <3>1
    <3>3. QED
      BY <1>2, <1>7, <2>1, <3>1, <3>2
  <2>4. ASSUME NEW step \in {"preview", "idle"}, UNCHANGED native, Goto(Pump, step),
               step = "preview" => frame[Pump].kind \in JsonKinds
        PROVE  CatchInv'
    <3>1. /\ frame'[Pump].pc = step
          /\ \A b \in Actors \ {Pump} : frame'[b] = frame[b]
          /\ step = "preview" => frame'[Pump].kind \in JsonKinds
      BY <1>3, <1>7, <2>4
    <3>2. PumpFresh => PumpFresh'
      BY <1>4, <2>1, <2>4, <3>1
    <3>3. QED
      BY <1>2, <1>7, <2>1, <3>1, <3>2
  <2>5. QED
    BY <1>12, <2>2, <2>3, <2>4 DEF PumpBind
<1>13. CASE BindSnapshot
  <2>1. /\ pc(Pump) = "bind_again"
        /\ frame' = [frame EXCEPT ![Pump].pc = "bind_persist", ![Pump].snap = Live]
        /\ UNCHANGED <<native, closed, stored, shown, modelState, resumed, missed, events>>
    BY <1>13 DEF BindSnapshot
  <2>2. /\ frame'[Pump].pc = "bind_persist" /\ frame'[Pump].snap = Live
        /\ \A b \in Actors \ {Pump} : frame'[b] = frame[b]
    BY <1>1, <1>7, <2>1, SnapshotMoves
  <2>3. PumpFresh => PumpFresh'
    BY <1>4, <2>1, <2>2
  <2>4. QED
    BY <1>2, <1>7, <2>1, <2>2, <2>3
<1>14. CASE BindPersist
  <2>1. /\ pc(Pump) = "bind_persist" /\ Goto(Pump, "bind_store")
        /\ UNCHANGED <<native, closed, shown, modelState, resumed, events>>
        /\ WriteSession(frame[Pump].snap)
    BY <1>14 DEF BindPersist
  <2>2. (missed => missed') /\ (~missed' => stored' = frame[Pump].snap)
    BY <2>1 DEF WriteSession
  <2>3. /\ frame'[Pump].pc = "bind_store" /\ \A b \in Actors \ {Pump} : frame'[b] = frame[b]
    BY <1>3, <1>7, <2>1
  <2>4. PumpFresh /\ ~missed' => PumpFresh'
    BY <1>4, <2>1, <2>2, <2>3
  <2>5. QED
    BY <1>2, <1>7, <2>1, <2>2, <2>3, <2>4
<1>15. CASE BindStore
  <2>1. /\ pc(Pump) = "bind_store" /\ Goto(Pump, AfterBind)
        /\ UNCHANGED <<native, closed, stored, shown, modelState, resumed, events>>
        /\ missed => missed'
    BY <1>15 DEF BindStore
  <2>2. PICK step \in {"bind", "preview", "idle"} :
           Goto(Pump, step) /\ (step = "preview" => frame[Pump].kind \in JsonKinds)
    BY <2>1 DEF AfterBind, JsonKinds
  <2>3. /\ frame'[Pump].pc = step
        /\ \A b \in Actors \ {Pump} : frame'[b] = frame[b]
        /\ step = "preview" => frame'[Pump].kind \in JsonKinds
    BY <1>3, <1>7, <2>2
  <2>4. PumpFresh => PumpFresh'
    BY <1>4, <2>1, <2>3
  <2>5. QED
    BY <1>2, <1>7, <2>1, <2>3, <2>4
<1>16. CASE PumpFinish
  <2>1. /\ pc(Pump) = "idle" /\ Goto(Pump, "done")
        /\ UNCHANGED <<native, closed, stored, shown, modelState, resumed, missed, events>>
    BY <1>16 DEF PumpFinish
  <2>2. /\ frame'[Pump].pc = "done" /\ \A b \in Actors \ {Pump} : frame'[b] = frame[b]
    BY <1>3, <1>7, <2>1
  <2>3. PumpFresh => PumpFresh'
    BY <1>4, <2>1, <2>2
  <2>4. QED
    BY <1>2, <1>7, <2>1, <2>2, <2>3
<1>17. QED
  BY <1>8, <1>9, <1>10, <1>11, <1>12, <1>13, <1>14, <1>15, <1>16 DEF Pumping

\* When everything rests, the row and the last published state are the
\* session's, for any clients, any output and any capacity of the channel, if
\* nothing was lost and no message resumed the session: every change of state
\* is announced after it is made, and the pump copies the session again after
\* the announcement.
THEOREM StoreAlwaysCatchesUp == Spec => []StoreCatchesUp
<1>1. Init => CatchInv
  <2> SUFFICES ASSUME Init PROVE CatchInv
    OBVIOUS
  <2>1. /\ Drain \in Actors /\ Pump \in Actors /\ Starter \in Actors /\ Handlers \subseteq Actors
        /\ Drain # Starter /\ Pump # Starter /\ Starter \notin Handlers
    BY ActorsAssumption DEF Actors
  <2>2. /\ pc(Starter) = "idle" /\ pc(Drain) = "off" /\ pc(Pump) = "off"
        /\ \A h \in Handlers : pc(h) = "off"
    BY <2>1 DEF Init, pc, At
  <2>3. QED
    BY <2>2 DEF Init, CatchInv, StartFresh, PumpFresh, UpToDate, AfterAssign
<1>2. IInv /\ CatchInv /\ [Next]_vars => CatchInv'
  <2> SUFFICES ASSUME IInv, CatchInv, [Next]_vars PROVE CatchInv'
    OBVIOUS
  <2>1. CASE UNCHANGED vars
    BY <2>1 DEF vars, sessionVars, envVars, storeVars, CatchInv, StartFresh, PumpFresh,
                Excused, Announced, Live, pc
  <2>2. ASSUME NEW a \in Actors, Changing(a) PROVE CatchInv'
    <3>1. a # Starter
      BY <2>2 DEF IInv, PlaceInv, StartSteps, Changing, StateGuard, Transition, AssignModel,
                  RecordState, SnapshotAgain, Persist, Show
    <3>2. QED
      BY <2>2, <3>1, ChangingCatches, PumpChangingCatches DEF Actors
  <2>3. QED
    BY <2>1, <2>2, StartingCatches, DrainingCatches, PumpingCatches, CommandCatches DEF Next
<1>3. IInv /\ CatchInv => StoreCatchesUp
  <2> SUFFICES ASSUME IInv, CatchInv, Quiet, ~missed, ~resumed
               PROVE  stored = Live /\ shown = modelState
    BY DEF StoreCatchesUp
  <2>1. pc(Drain) \in {"idle", "done"} /\ pc(Pump) \in {"idle", "done"} /\ events = <<>>
    BY DEF Quiet, Actors
  <2>2. ~Excused
    BY <2>1 DEF Excused, Announced
  <2>3. QED
    BY <2>1, <2>2 DEF CatchInv, PumpFresh, UpToDate
<1>4. QED
  BY <1>1, <1>2, <1>3, StoreInvariant, PTL DEF Spec

-----------------------------------------------------------------------------
(* What the agent of a session is started with.                            *)

-----------------------------------------------------------------------------
(* Arguments.                                                              *)

\* A non-empty set of naturals has a least element.
LEMMA LeastExists ==
    ASSUME NEW S \in SUBSET Nat, S # {}
    PROVE  \E n \in S : \A m \in S : n <= m
<1>1. PICK n \in S : \A m \in S : ~ (<<m, n>> \in OpToRel(<, Nat))
  BY NatLessThanWellFounded, WFMin
<1>2. \A m \in S : m < n => <<m, n>> \in OpToRel(<, Nat)
  BY DEF OpToRel
<1>3. \A m \in S : ~(m < n)
  <2> HIDE DEF OpToRel
  <2> QED BY <1>1, <1>2, Zenon
<1>4. QED
  BY <1>3

\* What is true of 0 and of the next number is true up to any bound.
LEMMA UpTo ==
    ASSUME NEW n \in Nat, NEW T \in SUBSET (0..n), 0 \in T,
           \A k \in T : k < n => k + 1 \in T
    PROVE  T = 0..n
<1>1. SUFFICES ASSUME 0..n \ T # {} PROVE FALSE
  OBVIOUS
<1> DEFINE Rest == 0..n \ T
<1>2. PICK least \in Rest : \A m \in Rest : least <= m
  <2>1. Rest \in SUBSET Nat /\ Rest # {}
    BY <1>1
  <2> HIDE DEF Rest
  <2> QED
    BY <2>1, LeastExists
<1>3. least # 0 /\ least - 1 \in 0..n /\ least - 1 \notin 0..n \ T
  BY <1>2
<1>4. QED
  BY <1>2, <1>3

\* Where an argument of two sequences in a row comes from, and of three.
IsTwo(all, s, t) ==
    /\ {Len(s), Len(t)} \subseteq Nat /\ Len(all) = Len(s) + Len(t) /\ DOMAIN all = 1..Len(all)
    /\ \A k \in 1..Len(all) : all[k] = IF k <= Len(s) THEN s[k] ELSE t[k - Len(s)]
IsThree(all, s, t, u) ==
    /\ {Len(s), Len(t), Len(u)} \subseteq Nat /\ Len(all) = Len(s) + Len(t) + Len(u)
    /\ DOMAIN all = 1..Len(all)
    /\ \A k \in 1..Len(all) : all[k] = IF k <= Len(s) THEN s[k]
                                      ELSE IF k <= Len(s) + Len(t) THEN t[k - Len(s)]
                                      ELSE u[k - (Len(s) + Len(t))]

LEMMA Concat ==
    ASSUME NEW S, NEW s \in Seq(S), NEW t \in Seq(S)
    PROVE  s \o t \in Seq(S) /\ IsTwo(s \o t, s, t)
  BY DEF IsTwo

LEMMA ConcatThree ==
    ASSUME NEW S, NEW s \in Seq(S), NEW t \in Seq(S), NEW u \in Seq(S)
    PROVE  (s \o t) \o u \in Seq(S) /\ IsThree((s \o t) \o u, s, t, u)
<1> DEFINE both == s \o t
           all == both \o u
<1>1. both \in Seq(S) /\ IsTwo(both, s, t)
  BY Concat
<1> HIDE DEF both
<1>2. all \in Seq(S) /\ IsTwo(all, both, u)
  BY <1>1, Concat
<1> HIDE DEF all
<1>3. IsThree(all, s, t, u)
  BY <1>1, <1>2 DEF IsTwo, IsThree
<1>4. QED
  BY <1>2, <1>3 DEF all, both

\* An option for a conversation that is only at one place of a command line.
Following(args, options) ==
    {args[k + 1] : k \in {j \in 1..(Len(args) - 1) : args[j] \in options}}

LEMMA NoneFollows ==
    ASSUME NEW S, NEW args \in Seq(S), NEW options, \A k \in DOMAIN args : args[k] \notin options
    PROVE  Following(args, options) = {}
  BY DEF Following

LEMMA OneFollows ==
    ASSUME NEW S, NEW args \in Seq(S), NEW options, NEW at \in 1..(Len(args) - 1),
           args[at] \in options,
           \A k \in DOMAIN args \ {at} : args[k] \notin options
    PROVE  Following(args, options) = {args[at + 1]}
  BY DEF Following

\* The arguments a command line is made of: the provers do not know a literal
\* for a string.
Words == STRING \union {"cwd", "exec", "run", "resume", "--resume", "--session"}

LEMMA StringsAreWords == ASSUME NEW args \in Seq(STRING) PROVE args \in Seq(Words)
  BY DEF Words

\* An id that is no option, and neither is the path made of it.
PlainId(family, id) == {id, SessionPath(family, id)} \subseteq STRING \ Options

\* An argument without a placeholder stays, the placeholder of a prompt too, and
\* the others are replaced by plain ones.
LEMMA Replaced ==
    ASSUME NEW family, NEW id, PlainId(family, id), NEW args \in Seq(STRING),
           NEW out, out = ReplacePlaceholders(args, family, id)
    PROVE  /\ out \in Seq(Words) /\ Len(out) = Len(args)
           /\ \A k \in 1..Len(args) : out[k] \in Options <=> args[k] \in Options
           /\ \A k \in 1..Len(args) : args[k] \in Options \union {"run"} => out[k] = args[k]
<1> DEFINE Value(k) ==
        CASE args[k] = "{cwd}" -> "cwd"
          [] args[k] = "{conversation_id}" -> id
          [] args[k] = "{session}" -> SessionPath(family, id)
          [] OTHER -> args[k]
<1>1. DOMAIN args = 1..Len(args)
  OBVIOUS
<1>2. out = [k \in 1..Len(args) |-> Value(k)]
  BY <1>1, Zenon DEF ReplacePlaceholders
<1>3. id \in Words /\ SessionPath(family, id) \in Words /\ "cwd" \in Words
  BY Zenon DEF PlainId, Words
<1>4. \A k \in 1..Len(args) : args[k] \in Words /\ Value(k) \in Words
  <2>1. \A k \in 1..Len(args) : args[k] \in Words
    BY StringsAreWords
  <2>2. QED
    BY <1>3, <2>1
<1>5. out \in Seq(Words) /\ Len(out) = Len(args)
  <2> HIDE DEF Value
  <2> QED BY <1>2, <1>4
<1>6. \A k \in 1..Len(args) : Value(k) \in Options <=> args[k] \in Options
  BY DEF PlainId, Options, ResumeFlags
<1>7. \A k \in 1..Len(args) : args[k] \in Options \union {"run"} => Value(k) = args[k]
  BY DEF Options, ResumeFlags
<1>8. QED
  <2> HIDE DEF Value
  <2> QED BY <1>2, <1>5, <1>6, <1>7

-----------------------------------------------------------------------------
(* StripClaudeResumeArgs.                                                  *)

Stripped == [out : Seq(Words \ ResumeFlags), skip : BOOLEAN]
Untouched == [out |-> <<>>, skip |-> FALSE]

\* What the loop makes of the k-th argument.
StripStep(args, done, k) ==
    IF done.skip THEN [done EXCEPT !.skip = FALSE]
    ELSE IF args[k] \in ResumeFlags THEN [done EXCEPT !.skip = TRUE]
    ELSE [done EXCEPT !.out = Append(done.out, args[k])]

IsStripping(args, strip) ==
    strip = [k \in 0..Len(args) |-> IF k = 0 THEN Untouched ELSE StripStep(args, strip[k - 1], k)]

LEMMA StripDef ==
    ASSUME NEW args
    PROVE  StripClaudeResumeArgs(args) =
             (CHOOSE strip : IsStripping(args, strip))[Len(args)].out
  BY Zenon DEF StripClaudeResumeArgs, IsStripping, StripStep, Untouched

LEMMA StripStepTyped ==
    ASSUME NEW args \in Seq(Words), NEW k \in 1..Len(args), NEW done \in Stripped
    PROVE  StripStep(args, done, k) \in Stripped
<1>1. args[k] \in Words
  OBVIOUS
<1>2. args[k] \notin ResumeFlags => Append(done.out, args[k]) \in Seq(Words \ ResumeFlags)
  BY <1>1 DEF Stripped
<1>3. QED
  BY <1>2 DEF StripStep, Stripped

LEMMA UntouchedTyped == Untouched \in Stripped
  BY DEF Untouched, Stripped

\* The loop has a result.
LEMMA StrippingExists ==
    ASSUME NEW args \in Seq(Words)
    PROVE  \E strip : IsStripping(args, strip)
<1> DEFINE Upto(n, strip) ==
        \A k \in 0..n : strip[k] = IF k = 0 THEN Untouched ELSE StripStep(args, strip[k - 1], k)
           T == {n \in 0..Len(args) : \E strip \in [0..n -> Stripped] : Upto(n, strip)}
<1>1. 0 \in T
  <2> DEFINE strip == [k \in 0..0 |-> Untouched]
  <2>1. strip \in [0..0 -> Stripped] /\ Upto(0, strip)
    BY UntouchedTyped
  <2>2. QED
    <3> HIDE DEF strip
    <3> QED BY <2>1
<1>2. ASSUME NEW n \in T, n < Len(args) PROVE n + 1 \in T
  <2>1. PICK strip \in [0..n -> Stripped] : Upto(n, strip)
    BY <1>2
  <2> DEFINE longer == [k \in 0..(n + 1) |-> IF k = n + 1 THEN StripStep(args, strip[n], n + 1)
                                             ELSE strip[k]]
  <2>2. n \in Nat /\ n + 1 \in 1..Len(args)
    BY <1>2
  <2>3. StripStep(args, strip[n], n + 1) \in Stripped
    BY <2>2, StripStepTyped
  <2>4. longer \in [0..(n + 1) -> Stripped]
    BY <2>2, <2>3
  <2>5. ASSUME NEW k \in 0..(n + 1)
        PROVE  longer[k] = IF k = 0 THEN Untouched ELSE StripStep(args, longer[k - 1], k)
    <3>1. CASE k = n + 1
      <4>1. k # 0 /\ longer[k] = StripStep(args, strip[n], n + 1) /\ longer[k - 1] = strip[n]
        BY <2>2, <3>1
      <4>2. QED
        BY <3>1, <4>1
    <3>2. CASE k # n + 1
      <4>1. k \in 0..n /\ longer[k] = strip[k]
        BY <2>2, <3>2
      <4>2. k # 0 => longer[k - 1] = strip[k - 1]
        BY <2>2, <4>1
      <4>3. strip[k] = IF k = 0 THEN Untouched ELSE StripStep(args, strip[k - 1], k)
        BY <2>1, <4>1
      <4>4. QED
        <5> HIDE DEF longer
        <5> QED BY <4>1, <4>2, <4>3
    <3>3. QED
      BY <3>1, <3>2
  <2>6. QED
    <3> HIDE DEF longer
    <3>1. Upto(n + 1, longer) /\ n + 1 \in 0..Len(args)
      BY <2>2, <2>5
    <3>2. QED
      BY <2>4, <3>1
<1>3. T = 0..Len(args)
  <2> HIDE DEF T
  <2>1. T \in SUBSET (0..Len(args)) /\ Len(args) \in Nat
    BY DEF T
  <2>2. QED
    BY <1>1, <1>2, <2>1, UpTo
<1>4. PICK strip \in [0..Len(args) -> Stripped] : Upto(Len(args), strip)
  <2>1. Len(args) \in T
    <3> HIDE DEF T
    <3> QED BY <1>3
  <2>2. QED
    BY <2>1
<1>5. IsStripping(args, strip)
  BY <1>4 DEF IsStripping
<1>6. QED
  BY <1>5

\* No resume option is left, whatever the arguments.
LEMMA NoResumeLeft ==
    ASSUME NEW args \in Seq(Words)
    PROVE  StripClaudeResumeArgs(args) \in Seq(Words \ ResumeFlags)
<1> DEFINE strip == CHOOSE strip : IsStripping(args, strip)
           T == {k \in 0..Len(args) : strip[k] \in Stripped}
<1>1. IsStripping(args, strip)
  BY StrippingExists
<1> HIDE DEF strip
<1>2. \A k \in 0..Len(args) : strip[k] = IF k = 0 THEN Untouched
                                          ELSE StripStep(args, strip[k - 1], k)
  BY <1>1 DEF IsStripping
<1>3. 0 \in T
  BY <1>2, UntouchedTyped
<1>4. ASSUME NEW k \in T, k < Len(args) PROVE k + 1 \in T
  <2>1. k + 1 \in 1..Len(args) /\ strip[k] \in Stripped /\ k \in Nat
    BY <1>4
  <2>2. strip[k + 1] = StripStep(args, strip[k], k + 1)
    BY <1>2, <2>1
  <2>3. QED
    BY <2>1, <2>2, StripStepTyped
<1>5. T = 0..Len(args)
  <2> HIDE DEF T
  <2>1. T \in SUBSET (0..Len(args)) /\ Len(args) \in Nat
    BY DEF T
  <2>2. QED
    BY <1>3, <1>4, <2>1, UpTo
<1>6. strip[Len(args)] \in Stripped
  <2>1. Len(args) \in T
    <3> HIDE DEF T
    <3> QED BY <1>5
  <2>2. QED
    BY <2>1
<1>7. QED
  BY <1>6, StripDef DEF Stripped, strip

-----------------------------------------------------------------------------
(* The command lines of the families.                                      *)

Flags == ResumeFlags
Told(mode, id) == IF mode = "resume" THEN {id} ELSE {}

\* An option only at one place, with an argument behind it, or at none.
OnlyAt(line, options, at) ==
    /\ at \in 1..(Len(line) - 1) /\ line[at] \in options
    /\ \A k \in 1..Len(line) : k # at => line[k] \notin options
NoneOf(line, options) == \A k \in 1..Len(line) : line[k] \notin options

LEMMA OneInFront ==
    ASSUME NEW line \in Seq(Words), NEW client \in Seq(Words), NEW options, NEW at,
           OnlyAt(line, options, at), NoneOf(client, options)
    PROVE  Following(line \o client, options) = {line[at + 1]}
<1> USE DEF OnlyAt, NoneOf
<1> DEFINE all == line \o client
<1>1. all \in Seq(Words) /\ IsTwo(all, line, client)
  BY Concat
<1> HIDE DEF all
<1>2. at \in 1..(Len(all) - 1) /\ all[at] = line[at] /\ all[at + 1] = line[at + 1]
  BY <1>1 DEF IsTwo
<1>3. ASSUME NEW k \in DOMAIN all \ {at} PROVE all[k] \notin options
  <2>1. CASE k <= Len(line)
    BY <1>1, <1>3, <2>1 DEF IsTwo
  <2>2. CASE k > Len(line)
    <3>1. k - Len(line) \in 1..Len(client) /\ all[k] = client[k - Len(line)]
      BY <1>1, <1>3, <2>2 DEF IsTwo
    <3>2. QED
      BY <3>1
  <2>3. QED
    BY <1>1, <2>1, <2>2 DEF IsTwo
<1>4. Following(all, options) = {all[at + 1]}
  BY <1>1, <1>2, <1>3, OneFollows
<1>5. QED
  BY <1>2, <1>4 DEF all

LEMMA NoneInFront ==
    ASSUME NEW line \in Seq(Words), NEW client \in Seq(Words), NEW options,
           NoneOf(line, options), NoneOf(client, options)
    PROVE  Following(line \o client, options) = {}
<1> USE DEF OnlyAt, NoneOf
<1> DEFINE all == line \o client
<1>1. all \in Seq(Words) /\ IsTwo(all, line, client)
  BY Concat
<1> HIDE DEF all
<1>2. ASSUME NEW k \in DOMAIN all PROVE all[k] \notin options
  <2>1. CASE k <= Len(line)
    BY <1>1, <1>2, <2>1 DEF IsTwo
  <2>2. CASE k > Len(line)
    <3>1. k - Len(line) \in 1..Len(client) /\ all[k] = client[k - Len(line)]
      BY <1>1, <1>2, <2>2 DEF IsTwo
    <3>2. QED
      BY <3>1
  <2>3. QED
    BY <1>1, <2>1, <2>2 DEF IsTwo
<1>3. Following(all, options) = {}
  BY <1>1, <1>2, NoneFollows
<1>4. QED
  BY <1>3 DEF all

\* Every prompt keeps the argument in front of it.
KeepsPrompts(args, line) ==
    \A k \in 2..Len(args) : IsPrompt(args[k]) =>
      \E j \in 2..Len(line) : IsPrompt(line[j]) /\ line[j - 1] = args[k - 1]

LEMMA PromptsInFront ==
    ASSUME NEW args, NEW line \in Seq(Words), NEW client \in Seq(Words), KeepsPrompts(args, line)
    PROVE  KeepsPrompts(args, line \o client)
<1> DEFINE all == line \o client
<1>1. all \in Seq(Words) /\ IsTwo(all, line, client)
  BY Concat
<1> HIDE DEF all
<1>2. \A j \in 2..Len(line) : j \in 2..Len(all) /\ all[j] = line[j] /\ all[j - 1] = line[j - 1]
  <2> SUFFICES ASSUME NEW j \in 2..Len(line)
               PROVE  j \in 2..Len(all) /\ all[j] = line[j] /\ all[j - 1] = line[j - 1]
    OBVIOUS
  <2>1. Len(all) = Len(line) + Len(client) /\ Len(line) \in Nat /\ Len(client) \in Nat
    BY <1>1 DEF IsTwo
  <2>2. j \in 1..Len(line) /\ j - 1 \in 1..Len(line) /\ j \in 2..Len(all)
    BY <2>1
  <2>3. \A i \in 1..Len(line) : all[i] = line[i]
    BY <1>1, <2>1 DEF IsTwo
  <2>4. QED
    BY <2>2, <2>3, Zenon
<1>3. KeepsPrompts(args, all)
  BY <1>2, Zenon DEF KeepsPrompts
<1>4. QED
  BY <1>3 DEF all

LEMMA ClaudeIsTold ==
    ASSUME NEW args \in Seq(Words), NEW client \in Seq(Words), NEW mode, NEW id \in Words \ Flags,
           NoneOf(client, Flags)
    PROVE  /\ ClaudeArgs(args, mode, id) \in Seq(Words)
           /\ Following(ClaudeArgs(args, mode, id) \o client, Flags) = Told(mode, id)
<1> DEFINE stripped == StripClaudeResumeArgs(args)
           line == ClaudeArgs(args, mode, id)
<1>1. stripped \in Seq(Words) /\ NoneOf(stripped, Flags)
  <2>1. stripped \in Seq(Words \ Flags)
    BY NoResumeLeft DEF Flags
  <2> HIDE DEF stripped
  <2> QED BY <2>1 DEF NoneOf
<1>2. CASE mode = "resume"
  <2> DEFINE pair == <<"--resume", id>>
             at == Len(stripped) + 1
  <2>1. "--resume" \in Words /\ "--resume" \in Flags
    BY DEF Words, Flags, ResumeFlags
  <2>2. pair \in Seq(Words) /\ Len(pair) = 2 /\ pair[1] \in Flags /\ pair[2] = id /\ id \notin Flags
    BY <2>1
  <2>3. line = stripped \o pair
    BY <1>2, Zenon DEF ClaudeArgs
  <2> HIDE DEF pair, line, stripped
  <2>4. line \in Seq(Words) /\ IsTwo(line, stripped, pair)
    BY <1>1, <2>2, <2>3, Concat
  <2>5. /\ Len(stripped) \in Nat /\ Len(line) = Len(stripped) + 2
        /\ line[at] = pair[1] /\ line[at + 1] = pair[2]
        /\ \A k \in 1..Len(stripped) : line[k] = stripped[k]
    <3>1. Len(stripped) \in Nat /\ Len(line) = Len(stripped) + 2
      BY <2>2, <2>4 DEF IsTwo
    <3>2. /\ at - Len(stripped) = 1 /\ (at + 1) - Len(stripped) = 2
          /\ ~(at <= Len(stripped)) /\ ~(at + 1 <= Len(stripped)) /\ {at, at + 1} \subseteq 1..Len(line)
      BY <3>1
    <3> HIDE DEF at
    <3>3. line[at] = pair[1] /\ line[at + 1] = pair[2]
      BY <3>2, <2>4, Zenon DEF IsTwo
    <3>4. \A k \in 1..Len(stripped) : line[k] = stripped[k]
      BY <3>1, <2>4 DEF IsTwo
    <3>5. QED
      BY <3>1, <3>3, <3>4
  <2>6. OnlyAt(line, Flags, at)
    <3>1. at \in 1..(Len(line) - 1) /\ line[at] \in Flags /\ line[at + 1] = id
      BY <2>2, <2>5
    <3>2. ASSUME NEW k \in 1..Len(line), k # at PROVE line[k] \notin Flags
      <4>1. CASE k \in 1..Len(stripped)
        BY <1>1, <2>5, <4>1 DEF NoneOf
      <4>2. CASE k = at + 1
        <5> HIDE DEF at
        <5> QED BY <2>2, <3>1, <4>2
      <4>3. QED
        BY <2>5, <3>2, <4>1, <4>2
    <3>3. QED
      BY <3>1, <3>2 DEF OnlyAt
  <2>7. Following(line \o client, Flags) = {line[at + 1]}
    <3> HIDE DEF at
    <3> QED BY <2>4, <2>6, OneInFront
  <2>8. line[at + 1] = id
    BY <2>2, <2>5
  <2>9. QED
    BY <1>2, <2>4, <2>7, <2>8 DEF Told, line
<1>3. CASE mode # "resume"
  <2>1. stripped \o <<>> = stripped
    <3> HIDE DEF stripped
    <3> QED BY <1>1
  <2>2. line = stripped
    BY <1>3, <2>1, Zenon DEF ClaudeArgs
  <2> HIDE DEF line, stripped
  <2>3. Following(line \o client, Flags) = {}
    BY <1>1, <2>2, NoneInFront
  <2>4. QED
    BY <1>1, <1>3, <2>2, <2>3 DEF Told, line
<1>4. QED
  BY <1>2, <1>3

\* Where AppendResumePair puts the pair.
PairPlace(args, before) ==
    IF before = {} THEN Len(args) + 1 ELSE CHOOSE k \in before : \A j \in before : k <= j

LEMMA PairPlaced ==
    ASSUME NEW args \in Seq(Words), NEW before \in SUBSET (1..Len(args))
    PROVE  /\ PairPlace(args, before) \in 1..(Len(args) + 1)
           /\ \A k \in before : PairPlace(args, before) <= k
<1>1. Len(args) \in Nat
  OBVIOUS
<1>2. CASE before = {}
  BY <1>1, <1>2 DEF PairPlace
<1>3. CASE before # {}
  <2>1. before \in SUBSET Nat
    OBVIOUS
  <2>2. \E k \in before : \A j \in before : k <= j
    BY <1>3, <2>1, LeastExists
  <2>3. PairPlace(args, before) \in before /\ \A j \in before : PairPlace(args, before) <= j
    BY <1>3, <2>2, Zenon DEF PairPlace
  <2>4. PairPlace(args, before) \in 1..Len(args)
    BY <2>3
  <2>5. PairPlace(args, before) \in 1..(Len(args) + 1)
    BY <1>1, <2>4
  <2>6. QED
    BY <2>3, <2>5, Zenon
<1>4. QED
  BY <1>2, <1>3

LEMMA PairIsTold ==
    ASSUME NEW args \in Seq(Words), NEW client \in Seq(Words), NEW mode, NEW id \in Words \ Flags,
           NoneOf(args, Flags), NoneOf(client, Flags),
           NEW line, line = AppendResumePair(args, mode, id)
    PROVE  /\ line \in Seq(Words) /\ KeepsPrompts(args, line)
           /\ Following(line \o client, Flags) = Told(mode, id)
<1>1. CASE mode # "resume"
  <2>1. line = args
    BY <1>1, Zenon DEF AppendResumePair
  <2>2. KeepsPrompts(args, line)
    BY <2>1 DEF KeepsPrompts
  <2>3. QED
    BY <1>1, <2>1, <2>2, NoneInFront DEF Told
<1>2. CASE mode = "resume"
  <2> DEFINE pair == <<"--resume", id>>
             before == {k \in DOMAIN args : IsPrompt(args[k])
                                           \/ (k < Len(args) /\ IsPrompt(args[k + 1]))}
             at == PairPlace(args, before)
             front == SubSeq(args, 1, at - 1)
             back == SubSeq(args, at, Len(args))
  <2>1. line = (front \o pair) \o back
    BY <1>2, Zenon DEF AppendResumePair, PairPlace
  <2>2. "--resume" \in Words /\ "--resume" \in Flags
    BY DEF Words, Flags, ResumeFlags
  <2>3. pair \in Seq(Words) /\ Len(pair) = 2 /\ pair[1] \in Flags /\ pair[2] = id /\ id \notin Flags
    BY <2>2
  <2>4. before \in SUBSET (1..Len(args))
    OBVIOUS
  <2>5. at \in 1..(Len(args) + 1) /\ \A k \in before : at <= k
    <3> HIDE DEF before
    <3> QED BY <2>4, PairPlaced
  <2>6. \A k \in 2..Len(args) : IsPrompt(args[k]) => at <= k - 1
    <3> SUFFICES ASSUME NEW k \in 2..Len(args), IsPrompt(args[k]) PROVE k - 1 \in before
      BY <2>5
    <3>1. k - 1 \in DOMAIN args /\ k - 1 < Len(args) /\ (k - 1) + 1 = k
      OBVIOUS
    <3>2. QED
      BY <3>1, Zenon
  <2> HIDE DEF at, before
  <2>7. /\ front \in Seq(Words) /\ Len(front) = at - 1 /\ \A k \in 1..(at - 1) : front[k] = args[k]
        /\ back \in Seq(Words) /\ Len(back) = Len(args) - at + 1
        /\ \A k \in 1..(Len(args) - at + 1) : back[k] = args[at - 1 + k]
    BY <2>5
  <2> HIDE DEF front, back, pair
  <2>8. line \in Seq(Words) /\ IsThree(line, front, pair, back)
    BY <2>1, <2>3, <2>7, ConcatThree
  <2>9. Len(line) = Len(args) + 2 /\ Len(args) \in Nat /\ at \in Nat
    <3>1. Len(args) \in Nat
      OBVIOUS
    <3>2. Len(line) = Len(front) + Len(pair) + Len(back)
      BY <2>8, Zenon DEF IsThree
    <3>3. at \in Nat
      BY <2>5, <3>1
    <3>4. Len(front) = at - 1 /\ Len(pair) = 2 /\ Len(back) = Len(args) - at + 1
      BY <2>3, <2>7
    <3>5. QED
      BY <3>1, <3>2, <3>3, <3>4
  <2>10. /\ \A k \in 1..(at - 1) : line[k] = args[k]
         /\ \A k \in at..Len(args) : line[k + 2] = args[k]
         /\ line[at] = pair[1] /\ line[at + 1] = pair[2]
    <3>1. ASSUME NEW k \in 1..(at - 1) PROVE line[k] = args[k]
      <4>1. k \in 1..Len(line) /\ k <= Len(front)
        BY <2>5, <2>7, <2>9
      <4>2. line[k] = front[k]
        BY <2>8, <4>1, Zenon DEF IsThree
      <4>3. QED
        BY <2>7, <4>2
    <3>2. ASSUME NEW k \in at..Len(args) PROVE line[k + 2] = args[k]
      <4>1. /\ k + 2 \in 1..Len(line) /\ ~(k + 2 <= Len(front)) /\ ~(k + 2 <= Len(front) + Len(pair))
            /\ k + 2 - (Len(front) + Len(pair)) = k - at + 1 /\ k - at + 1 \in 1..(Len(args) - at + 1)
            /\ at - 1 + (k - at + 1) = k
        BY <2>3, <2>5, <2>7, <2>9
      <4>2. line[k + 2] = back[k + 2 - (Len(front) + Len(pair))]
        <5> DEFINE place == k + 2
        <5>1. /\ place \in 1..Len(line) /\ ~(place <= Len(front))
              /\ ~(place <= Len(front) + Len(pair))
          BY <4>1
        <5> HIDE DEF place
        <5>2. line[place] = back[place - (Len(front) + Len(pair))]
          BY <2>8, <5>1, Zenon DEF IsThree
        <5>3. QED
          BY <5>2 DEF place
      <4>3. line[k + 2] = back[k - at + 1]
        BY <4>1, <4>2, Zenon
      <4>4. QED
        BY <2>7, <4>1, <4>3
    <3>3. /\ {at, at + 1} \subseteq 1..Len(line) /\ ~(at <= Len(front)) /\ ~(at + 1 <= Len(front))
          /\ at <= Len(front) + Len(pair) /\ at + 1 <= Len(front) + Len(pair)
          /\ at - Len(front) = 1 /\ (at + 1) - Len(front) = 2
      BY <2>3, <2>5, <2>7, <2>9
    <3>4. line[at] = pair[1] /\ line[at + 1] = pair[2]
      BY <2>8, <3>3, Zenon DEF IsThree
    <3>5. QED
      BY <3>1, <3>2, <3>4
  <2>11. KeepsPrompts(args, line)
    <3> SUFFICES ASSUME NEW k \in 2..Len(args), IsPrompt(args[k])
                 PROVE  \E j \in 2..Len(line) : IsPrompt(line[j]) /\ line[j - 1] = args[k - 1]
      BY DEF KeepsPrompts
    <3>1. /\ at <= k - 1 /\ {k - 1, k} \subseteq at..Len(args) /\ k + 2 \in 2..Len(line)
          /\ (k + 2) - 1 = (k - 1) + 2
      BY <2>5, <2>6, <2>9
    <3>2. line[k + 2] = args[k] /\ line[(k - 1) + 2] = args[k - 1]
      BY <2>10, <3>1
    <3>3. QED
      BY <3>1, <3>2
  <2>12. at \in 1..(Len(line) - 1) /\ line[at] \in Flags
    BY <2>3, <2>5, <2>9, <2>10
  <2>13. \A k \in 1..Len(line) : k # at => line[k] \notin Flags
    <3> SUFFICES ASSUME NEW k \in 1..Len(line), k # at PROVE line[k] \notin Flags
      OBVIOUS
    <3>1. CASE k \in 1..(at - 1)
      <4>1. k \in 1..Len(args) /\ line[k] = args[k]
        BY <2>5, <2>9, <2>10, <3>1
      <4>2. QED
        BY <4>1 DEF NoneOf
    <3>2. CASE k = at + 1
      BY <2>3, <2>10, <3>2
    <3>3. CASE k - 2 \in at..Len(args)
      <4>1. k - 2 \in 1..Len(args) /\ (k - 2) + 2 = k
        BY <2>5, <2>9, <3>3
      <4>2. line[k] = args[k - 2]
        BY <2>10, <3>3, <4>1
      <4>3. QED
        BY <4>1, <4>2 DEF NoneOf
    <3>4. QED
      BY <2>5, <2>9, <3>1, <3>2, <3>3
  <2>14. Following(line \o client, Flags) = {line[at + 1]}
    <3>1. OnlyAt(line, Flags, at)
      BY <2>12, <2>13 DEF OnlyAt
    <3>2. QED
      BY <2>8, <3>1, OneInFront
  <2>15. QED
    BY <1>2, <2>3, <2>8, <2>10, <2>11, <2>14 DEF Told
<1>3. QED
  BY <1>1, <1>2

\* What the provers know of a command that begins with a word of its own.
LEMMA TailOf ==
    ASSUME NEW args \in Seq(Words), args # <<>>
    PROVE  /\ Tail(args) \in Seq(Words) /\ Len(args) \in Nat \ {0} /\ Len(Tail(args)) = Len(args) - 1
           /\ \A k \in 1..(Len(args) - 1) : Tail(args)[k] = args[k + 1]
  OBVIOUS

LEMMA OpencodeIsTold ==
    ASSUME NEW args \in Seq(Words), NEW client \in Seq(Words), NEW mode,
           NEW id \in Words \ {"--session"},
           args # <<>> => args[1] = "run",
           \A k \in 2..Len(args) : args[k] # "--session",
           NoneOf(client, {"--session"}),
           NEW line, line = OpencodeArgs(args, mode, id)
    PROVE  /\ line \in Seq(Words)
           /\ Following(line \o client, {"--session"}) = Told(mode, id)
<1> DEFINE options == {"--session"}
           head == <<"run", "--session", id>>
<1>1. {"run", "--session"} \subseteq Words
  BY DEF Words
<1>2. NoneOf(client, options)
  OBVIOUS
<1>3. /\ head \in Seq(Words) /\ Len(head) = 3
      /\ head[1] = "run" /\ head[2] = "--session" /\ head[3] = id
  BY <1>1
<1>4. CASE mode # "resume"
  <2>1. line = IF args = <<>> THEN <<"run">> ELSE args
    BY <1>4, Zenon DEF OpencodeArgs
  <2>2. line \in Seq(Words) /\ \A k \in 1..Len(line) : line[k] \notin options
    <3>1. CASE args = <<>>
      BY <1>1, <2>1, <3>1
    <3>2. CASE args # <<>>
      <4>1. \A k \in 1..Len(args) : k = 1 \/ k \in 2..Len(args)
        OBVIOUS
      <4>2. QED
        BY <2>1, <3>2, <4>1
    <3>3. QED
      BY <3>1, <3>2
  <2>3. Following(line \o client, options) = {}
    <3> HIDE DEF options
    <3>1. NoneOf(line, options)
      BY <2>2 DEF NoneOf
    <3>2. QED
      BY <1>2, <2>2, <3>1, NoneInFront
  <2>4. QED
    BY <1>4, <2>2, <2>3 DEF Told
<1>5. CASE mode = "resume"
  <2>1. line \in Seq(Words) /\ Len(line) >= 3 /\ line[2] \in options /\ line[3] = id
        /\ \A k \in 1..Len(line) : k # 2 => line[k] \notin options
    <3>1. CASE args = <<>>
      <4>1. line = head
        BY <1>5, <3>1, Zenon DEF OpencodeArgs
      <4> HIDE DEF head
      <4>2. \A k \in 1..3 : k # 2 => k = 1 \/ k = 3
        OBVIOUS
      <4>3. head[1] \notin options /\ head[3] \notin options /\ head[2] \in options
        BY <1>3
      <4>4. \A k \in 1..Len(head) : k # 2 => head[k] \notin options
        <5> HIDE DEF options
        <5> QED BY <1>3, <4>2, <4>3
      <4>5. QED
        <5> HIDE DEF options
        <5>1. Len(head) >= 3
          BY <1>3
        <5>2. QED
          BY <1>3, <4>1, <4>3, <4>4, <5>1, Zenon
    <3>2. CASE args # <<>>
      <4>1. line = head \o Tail(args)
        BY <1>5, <3>2, Zenon DEF OpencodeArgs
      <4> HIDE DEF head
      <4>2. /\ Tail(args) \in Seq(Words) /\ Len(args) \in Nat \ {0}
            /\ Len(Tail(args)) = Len(args) - 1
            /\ \A k \in 1..(Len(args) - 1) : Tail(args)[k] = args[k + 1]
        BY <3>2, TailOf
      <4>3. line \in Seq(Words) /\ IsTwo(line, head, Tail(args))
        BY <1>3, <4>1, <4>2, Concat
      <4>4. Len(line) = 2 + Len(args) /\ \A k \in 1..3 : line[k] = head[k]
        BY <1>3, <4>2, <4>3 DEF IsTwo
      <4>5. ASSUME NEW k \in 4..Len(line) PROVE line[k] # "--session"
        <5>1. k - 3 \in 1..(Len(args) - 1) /\ (k - 3) + 1 \in 2..Len(args) /\ k \in 1..Len(line)
              /\ ~(k <= 3)
          BY <4>2, <4>4
        <5>2. line[k] = Tail(args)[k - 3]
          BY <1>3, <4>3, <5>1 DEF IsTwo
        <5>3. QED
          BY <4>2, <5>1, <5>2
      <4>6. \A k \in 1..Len(line) : k \in {1, 2, 3} \/ k \in 4..Len(line)
        BY <4>2, <4>4
      <4>7. line[1] \notin options /\ line[2] \in options /\ line[3] = id /\ id \notin options
        BY <1>3, <4>4
      <4>8. \A k \in 1..Len(line) : k # 2 => line[k] \notin options
        BY <4>5, <4>6, <4>7
      <4>9. Len(line) >= 3
        BY <4>2, <4>4
      <4>10. QED
        <5> HIDE DEF options
        <5> QED BY <4>3, <4>7, <4>8, <4>9
    <3>3. QED
      BY <3>1, <3>2
  <2> DEFINE at == 2
  <2>2. at \in 1..(Len(line) - 1) /\ line[at] \in options /\ line[at + 1] = id
        /\ \A k \in 1..Len(line) : k # at => line[k] \notin options
    BY <2>1
  <2>3. Following(line \o client, options) = {line[at + 1]}
    <3> HIDE DEF options, at
    <3>1. OnlyAt(line, options, at)
      BY <2>2 DEF OnlyAt
    <3>2. QED
      BY <1>2, <2>1, <3>1, OneInFront
  <2>4. QED
    BY <1>5, <2>1, <2>2, <2>3 DEF Told
<1>6. QED
  BY <1>4, <1>5

\* What Codex makes of its command line.
CodexResumes(all, client) ==
    IF Following(all, {"exec"}) = {"resume"} THEN {all[Len(all) - Len(client)]} ELSE {}

LEMMA CodexIsTold ==
    ASSUME NEW args \in Seq(Words), NEW client \in Seq(Words), NEW mode,
           NEW id \in Words \ {"exec", "resume"},
           args # <<>> => args[1] = "exec",
           \A k \in 2..Len(args) : args[k] \notin {"exec", "resume"},
           NoneOf(client, {"exec", "resume"}),
           NEW line, line = CodexArgs(args, mode, id)
    PROVE  line \in Seq(Words) /\ CodexResumes(line \o client, client) = Told(mode, id)
<1> DEFINE options == {"exec"}
           all == line \o client
<1>1. {"exec", "resume"} \subseteq Words
  BY DEF Words
<1>2. CASE mode # "resume"
  <2>1. line = IF args = <<>> THEN <<"exec">> ELSE args
    BY <1>2, Zenon DEF CodexArgs
  <2>2. line \in Seq(Words) /\ \A k \in 1..Len(line) : line[k] # "resume"
    <3>1. CASE args = <<>>
      BY <1>1, <2>1, <3>1
    <3>2. CASE args # <<>>
      <4>1. \A k \in 1..Len(args) : k = 1 \/ k \in 2..Len(args)
        OBVIOUS
      <4>2. QED
        BY <2>1, <3>2, <4>1
    <3>3. QED
      BY <3>1, <3>2
  <2>3. all \in Seq(Words) /\ IsTwo(all, line, client)
    BY <2>2, Concat
  <2> HIDE DEF all
  <2>4. ASSUME NEW k \in 1..Len(all) PROVE all[k] # "resume"
    <3>1. CASE k <= Len(line)
      BY <2>2, <2>3, <3>1 DEF IsTwo
    <3>2. CASE k > Len(line)
      <4>1. Len(line) \in Nat /\ Len(client) \in Nat /\ Len(all) = Len(line) + Len(client)
        BY <2>3 DEF IsTwo
      <4>2. k - Len(line) \in 1..Len(client) /\ ~(k <= Len(line))
        BY <3>2, <4>1
      <4>3. all[k] = client[k - Len(line)]
        BY <2>3, <4>2, Zenon DEF IsTwo
      <4>4. client[k - Len(line)] # "resume"
        BY <4>2 DEF NoneOf
      <4>5. QED
        BY <4>3, <4>4
    <3>3. QED
      BY <2>3, <3>1, <3>2 DEF IsTwo
  <2>5. "resume" \notin Following(all, {"exec"})
    BY <2>3, <2>4 DEF Following
  <2>6. QED
    BY <1>2, <2>2, <2>5 DEF CodexResumes, Told, all
<1>3. CASE mode = "resume"
  <2> DEFINE head == <<"exec", "resume">>
             last == <<id>>
  <2>1. /\ head \in Seq(Words) /\ Len(head) = 2 /\ head[1] = "exec" /\ head[2] = "resume"
        /\ last \in Seq(Words) /\ Len(last) = 1 /\ last[1] = id
    BY <1>1
  <2>2. /\ line \in Seq(Words) /\ Len(line) >= 3 /\ line[1] \in options /\ line[2] = "resume"
        /\ line[Len(line)] = id
        /\ \A k \in 1..Len(line) : k # 1 => line[k] \notin options
    <3>1. CASE args = <<>>
      <4>1. line = <<"exec", "resume", id>>
        BY <1>3, <3>1, Zenon DEF CodexArgs
      <4>2. \A k \in 1..3 : k = 1 \/ k = 2 \/ k = 3
        OBVIOUS
      <4>3. QED
        BY <1>1, <4>1, <4>2
    <3>2. CASE args # <<>>
      <4>1. line = (head \o Tail(args)) \o last
        BY <1>3, <3>2, Zenon DEF CodexArgs
      <4> HIDE DEF head, last
      <4>2. /\ Tail(args) \in Seq(Words) /\ Len(args) \in Nat \ {0}
            /\ Len(Tail(args)) = Len(args) - 1
            /\ \A k \in 1..(Len(args) - 1) : Tail(args)[k] = args[k + 1]
        BY <3>2, TailOf
      <4>3. line \in Seq(Words) /\ IsThree(line, head, Tail(args), last)
        <5> DEFINE rest == Tail(args)
        <5>1. head \in Seq(Words) /\ rest \in Seq(Words) /\ last \in Seq(Words)
          BY <2>1, <4>2
        <5> HIDE DEF rest
        <5>2. /\ (head \o rest) \o last \in Seq(Words)
              /\ IsThree((head \o rest) \o last, head, rest, last)
          BY <5>1, ConcatThree
        <5>3. QED
          BY <4>1, <5>2 DEF rest
      <4>4. Len(line) = 2 + Len(args) /\ \A k \in 1..2 : line[k] = head[k]
        BY <2>1, <4>2, <4>3 DEF IsThree
      <4>5. ASSUME NEW k \in 3..(Len(line) - 1) PROVE line[k] \notin options
        <5>1. k - 2 \in 1..(Len(args) - 1) /\ (k - 2) + 1 \in 2..Len(args) /\ k \in 1..Len(line)
              /\ ~(k <= 2) /\ k <= 2 + (Len(args) - 1)
          BY <4>2, <4>4
        <5>2. line[k] = Tail(args)[k - 2]
          BY <2>1, <4>2, <4>3, <5>1 DEF IsThree
        <5>3. QED
          BY <4>2, <5>1, <5>2
      <4>6. line[Len(line)] = id
        <5> DEFINE n == Len(line)
        <5>1. /\ n \in 1..Len(line) /\ ~(n <= Len(head)) /\ ~(n <= Len(head) + Len(Tail(args)))
              /\ n - (Len(head) + Len(Tail(args))) = 1
          BY <2>1, <4>2, <4>4
        <5> HIDE DEF n
        <5>2. line[n] = last[n - (Len(head) + Len(Tail(args)))]
          BY <4>3, <5>1, Zenon DEF IsThree
        <5>3. QED
          BY <2>1, <5>1, <5>2 DEF n
      <4>7. \A k \in 1..Len(line) : k \in {1, 2, Len(line)} \/ k \in 3..(Len(line) - 1)
        BY <4>2, <4>4
      <4>8. QED
        BY <2>1, <4>2, <4>3, <4>4, <4>5, <4>6, <4>7
    <3>3. QED
      BY <3>1, <3>2
  <2>3. Following(all, options) = {"resume"}
    <3> DEFINE at == 1
    <3>1. /\ at \in 1..(Len(line) - 1) /\ line[at] \in options /\ line[at + 1] = "resume"
          /\ \A k \in 1..Len(line) : k # at => line[k] \notin options
          /\ NoneOf(client, options)
      BY <2>2 DEF NoneOf
    <3> HIDE DEF options, at
    <3>2. Following(line \o client, options) = {line[at + 1]}
      <4>1. OnlyAt(line, options, at)
        BY <3>1 DEF OnlyAt
      <4>2. QED
        BY <2>2, <3>1, <4>1, OneInFront
    <3>3. QED
      BY <3>1, <3>2
  <2>4. all \in Seq(Words) /\ IsTwo(all, line, client)
    BY <2>2, Concat
  <2> HIDE DEF all
  <2>5. Len(all) - Len(client) = Len(line) /\ all[Len(line)] = line[Len(line)]
    <3> DEFINE n == Len(line)
    <3>1. n \in Nat /\ Len(client) \in Nat /\ Len(all) = n + Len(client) /\ n >= 3
      BY <2>2, <2>4 DEF IsTwo
    <3> HIDE DEF n
    <3>2. n \in 1..Len(all) /\ n <= n /\ Len(all) - Len(client) = n
      BY <3>1
    <3>3. all[n] = line[n]
      BY <2>4, <3>2 DEF IsTwo, n
    <3>4. QED
      BY <3>2, <3>3 DEF n
  <2>6. QED
    BY <1>3, <2>2, <2>3, <2>5 DEF CodexResumes, Told, all
<1>4. QED
  BY <1>2, <1>3

-----------------------------------------------------------------------------
(* buildRuntimeArgs.                                                       *)

\* What is said of the tail, of the arguments behind the first.
LEMMA PlainBehind ==
    ASSUME NEW args \in Seq(STRING), args # <<>> => IsPlain(Tail(args))
    PROVE  \A k \in 2..Len(args) : args[k] \notin Options
<1> SUFFICES ASSUME NEW k \in 2..Len(args) PROVE args[k] \notin Options
  OBVIOUS
<1>1. args # <<>> /\ k - 1 \in DOMAIN Tail(args) /\ Tail(args)[k - 1] = args[k]
  OBVIOUS
<1>2. QED
  BY <1>1, Zenon DEF IsPlain

LEMMA LineIsTold ==
    ASSUME NEW family, NEW id, PlainId(family, id), NEW args \in Seq(STRING),
           KeepsOptions(family, args),
           NEW client \in Seq(STRING), IsPlain(client), NEW mode,
           NEW all, all = BuildRuntimeArgs(family, args, mode, id, client)
    PROVE  /\ ReplacePlaceholders(args, family, id) \in Seq(Words) /\ all \in Seq(Words)
           /\ KeepsPrompts(ReplacePlaceholders(args, family, id), all)
           /\ family \in {"claudecode", "cursor", "gemini", "grok"} =>
                Following(all, Flags) = Told(mode, id)
           /\ family = "codex" => CodexResumes(all, client) = Told(mode, id)
           /\ family = "opencode" => Following(all, {"--session"}) = Told(mode, id)
<1> DEFINE base == ReplacePlaceholders(args, family, id)
           options == Options
           line == CASE family = "claudecode" -> ClaudeArgs(base, mode, id)
                     [] family = "codex" -> CodexArgs(base, mode, id)
                     [] family = "opencode" -> OpencodeArgs(base, mode, id)
                     [] family \in {"cursor", "gemini", "grok"} ->
                          AppendResumePair(base, mode, id)
                     [] OTHER -> base
<1>1. all = line \o client
  BY Zenon DEF BuildRuntimeArgs
<1>2. /\ base \in Seq(Words) /\ Len(base) = Len(args) /\ Len(args) \in Nat
      /\ \A k \in 1..Len(args) : base[k] \in options <=> args[k] \in options
      /\ \A k \in 1..Len(args) : args[k] \in options \union {"run"} => base[k] = args[k]
  <2>1. Len(args) \in Nat
    OBVIOUS
  <2> HIDE DEF base
  <2>2. base = ReplacePlaceholders(args, family, id)
    BY DEF base
  <2>3. QED
    BY <2>1, <2>2, Replaced
<1> HIDE DEF base
<1>3. client \in Seq(Words) /\ id \in Words \ options
  <2>1. client \in Seq(Words)
    BY StringsAreWords
  <2>2. id \in STRING \ options
    BY Zenon DEF PlainId
  <2>3. QED
    BY <2>1, <2>2, Zenon DEF Words
<1>4. NoneOf(client, options)
  <2>1. DOMAIN client = 1..Len(client)
    OBVIOUS
  <2>2. QED
    BY <2>1, Zenon DEF NoneOf, IsPlain
<1>5. /\ Flags \subseteq options /\ {"exec", "resume"} \subseteq options
      /\ "--session" \in options /\ "{prompt}" \in options
  BY DEF Flags, Options
<1>6. ASSUME NEW some, some \subseteq options PROVE NoneOf(client, some)
  BY <1>4, <1>6 DEF NoneOf
<1>7. ASSUME NEW k \in 1..Len(args), IsPrompt(base[k]) PROVE IsPrompt(args[k])
  BY <1>2, <1>5, <1>7 DEF IsPrompt
<1>8. ASSUME \A k \in 2..Len(args) : ~IsPrompt(args[k]) PROVE KeepsPrompts(base, all)
  <2>1. \A k \in 2..Len(args) : k \in 1..Len(args)
    BY <1>2
  <2>2. QED
    BY <1>2, <1>7, <1>8, <2>1 DEF KeepsPrompts
<1>9. ASSUME line \in Seq(Words) PROVE all \in Seq(Words)
  <2> HIDE DEF line
  <2> QED BY <1>1, <1>3, <1>9, Concat
<1>10. CASE family = "claudecode"
  <2>1. line = ClaudeArgs(base, mode, id)
    BY <1>10
  <2>2. \A k \in 2..Len(args) : ~IsPrompt(args[k])
    <3>1. \A k \in DOMAIN args : ~IsPrompt(args[k])
      BY <1>10 DEF KeepsOptions
    <3>2. QED
      BY <3>1
  <2>3. line \in Seq(Words) /\ Following(all, Flags) = Told(mode, id)
    <3> HIDE DEF line
    <3>1. NoneOf(client, Flags) /\ id \in Words \ Flags
      BY <1>3, <1>5, <1>6
    <3>2. QED
      BY <1>1, <1>2, <1>3, <2>1, <3>1, ClaudeIsTold
  <2>4. QED
    BY <1>2, <1>8, <1>9, <1>10, <2>2, <2>3 DEF base
<1>11. CASE family \in {"cursor", "gemini", "grok"}
  <2>1. line = AppendResumePair(base, mode, id)
    BY <1>11
  <2>2. NoneOf(base, Flags)
    <3>1. \A k \in DOMAIN args : args[k] \notin ResumeFlags
      BY <1>11 DEF KeepsOptions
    <3>2. \A k \in 1..Len(args) : args[k] \notin Flags
      BY <3>1 DEF Flags
    <3>3. QED
      BY <1>2, <1>5, <3>2 DEF NoneOf
  <2>3. NoneOf(client, Flags) /\ id \in Words \ Flags
    BY <1>3, <1>5, <1>6
  <2> HIDE DEF line
  <2>4. /\ line \in Seq(Words) /\ KeepsPrompts(base, line)
        /\ Following(line \o client, Flags) = Told(mode, id)
    BY <1>2, <1>3, <2>1, <2>2, <2>3, PairIsTold
  <2>5. KeepsPrompts(base, all)
    BY <1>1, <1>3, <2>4, PromptsInFront
  <2>6. QED
    BY <1>1, <1>2, <1>9, <1>11, <2>4, <2>5 DEF base
<1>12. CASE family = "codex"
  <2>1. line = CodexArgs(base, mode, id)
    BY <1>12
  <2>2. args # <<>> => args[1] = "exec" /\ IsPlain(Tail(args))
    BY <1>12 DEF KeepsOptions
  <2>3. /\ base # <<>> => base[1] = "exec"
        /\ \A k \in 2..Len(args) : args[k] \notin options
    <3>1. \A k \in 2..Len(args) : args[k] \notin options
      BY <2>2, PlainBehind
    <3>2. base # <<>> => args # <<>> /\ 1 \in 1..Len(args)
      BY <1>2
    <3>3. base # <<>> => base[1] = args[1]
      BY <1>2, <1>5, <2>2, <3>2
    <3>4. QED
      BY <2>2, <3>1, <3>2, <3>3
  <2>4. \A k \in 2..Len(base) : base[k] \notin {"exec", "resume"}
    <3>1. \A k \in 2..Len(base) : k \in 1..Len(args) /\ k \in 2..Len(args)
      BY <1>2
    <3>2. QED
      BY <1>2, <1>5, <2>3, <3>1
  <2>5. NoneOf(client, {"exec", "resume"}) /\ id \in Words \ {"exec", "resume"}
    BY <1>3, <1>5, <1>6
  <2>6. \A k \in 2..Len(args) : ~IsPrompt(args[k])
    BY <1>5, <2>3 DEF IsPrompt
  <2> HIDE DEF line
  <2>7. line \in Seq(Words) /\ CodexResumes(line \o client, client) = Told(mode, id)
    BY <1>2, <1>3, <2>1, <2>3, <2>4, <2>5, CodexIsTold
  <2>8. QED
    BY <1>1, <1>2, <1>8, <1>9, <1>12, <2>6, <2>7 DEF base
<1>13. CASE family = "opencode"
  <2>1. line = OpencodeArgs(base, mode, id)
    BY <1>13
  <2>2. args # <<>> => args[1] = "run" /\ IsPlain(Tail(args))
    BY <1>13 DEF KeepsOptions
  <2>3. /\ base # <<>> => base[1] = "run"
        /\ \A k \in 2..Len(args) : args[k] \notin options
    <3>1. \A k \in 2..Len(args) : args[k] \notin options
      BY <2>2, PlainBehind
    <3>2. base # <<>> => args # <<>> /\ 1 \in 1..Len(args)
      BY <1>2
    <3>3. base # <<>> => base[1] = args[1]
      BY <1>2, <1>5, <2>2, <3>2
    <3>4. QED
      BY <2>2, <3>1, <3>2, <3>3
  <2>4. \A k \in 2..Len(base) : base[k] \notin {"--session"}
    <3>1. \A k \in 2..Len(base) : k \in 1..Len(args) /\ k \in 2..Len(args)
      BY <1>2
    <3>2. QED
      BY <1>2, <1>5, <2>3, <3>1
  <2>5. NoneOf(client, {"--session"}) /\ id \in Words \ {"--session"}
    BY <1>3, <1>5, <1>6
  <2>6. \A k \in 2..Len(args) : ~IsPrompt(args[k])
    BY <1>5, <2>3 DEF IsPrompt
  <2> HIDE DEF line
  <2>7. line \in Seq(Words) /\ Following(line \o client, {"--session"}) = Told(mode, id)
    BY <1>2, <1>3, <2>1, <2>3, <2>4, <2>5, OpencodeIsTold
  <2>8. QED
    BY <1>1, <1>2, <1>8, <1>9, <1>13, <2>6, <2>7 DEF base
<1>14. CASE family \notin {"claudecode", "codex", "opencode", "cursor", "gemini", "grok"}
  <2>1. line = base
    BY <1>14
  <2>2. KeepsPrompts(base, base)
    BY DEF KeepsPrompts
  <2>3. KeepsPrompts(base, all)
    BY <1>1, <1>2, <1>3, <2>1, <2>2, PromptsInFront
  <2>4. QED
    BY <1>2, <1>9, <1>14, <2>1, <2>3 DEF base
<1>15. QED
  BY <1>10, <1>11, <1>12, <1>13, <1>14

-----------------------------------------------------------------------------
(* A start.                                                                *)

\* The properties, of a given session.
IsTold(s) ==
    /\ LET base == ReplacePlaceholders(s.base, s.family, s.conversation)
       IN  {base, s.args} \subseteq Seq(Words) /\ KeepsPrompts(base, s.args)
    /\ s.family \in {"claudecode", "cursor", "gemini", "grok"} =>
         Following(s.args, Flags) = Told(s.mode, s.conversation)
    /\ s.family = "codex" => CodexResumes(s.args, s.client) = Told(s.mode, s.conversation)
    /\ s.family = "opencode" =>
         Following(s.args, {"--session"}) = Told(s.mode, s.conversation)

IsOwn(s) ==
    /\ s.env["AGENLEASH_SESSION_ID"] = s.id
    /\ s.env["AGENLEASH_CONVERSATION_ID"] = s.conversation
    /\ s.env["AGENLEASH_ADAPTER"] = s.adapter
    /\ s.version # <<>> => s.env["AGENLEASH_AGENT_VERSION"] = s.version

\* New keeps an adapter of the directory, that is valid.
AdaptersLoaded ==
    \A name \in DOMAIN adapters : adapters[name] \in UNION Directories /\ Validate(adapters[name])

LEMMA LoadedInit == LaunchInit => AdaptersLoaded
<1> SUFFICES ASSUME LaunchInit PROVE AdaptersLoaded
  OBVIOUS
<1>1. PICK files \in Directories : /\ \A f \in files : Validate(f)
                                  /\ adapters \in LoadDirectory(files)
  BY DEF LaunchInit
<1>2. adapters \in [{f.name : f \in files} -> files]
  BY <1>1 DEF LoadDirectory
<1>3. QED
  BY <1>1, <1>2 DEF AdaptersLoaded

\* What Over makes of a variable of either environment.
LEMMA OverValue ==
    ASSUME NEW env, NEW later, NEW name \in DOMAIN env \union DOMAIN later
    PROVE  /\ name \in DOMAIN Over(env, later)
           /\ Over(env, later)[name] = IF name \in DOMAIN later THEN later[name] ELSE env[name]
  BY DEF Over

\* The environment of the session, whatever the adapter and the server set.
LEMMA EnvOfSession ==
    ASSUME NEW id, NEW given, NEW adapter, NEW version, NEW env,
           NEW own, own = OwnEnv(id, given, adapter, version),
           NEW merged, merged = MergeEnv(env, own)
    PROVE  /\ merged["AGENLEASH_SESSION_ID"] = id
           /\ merged["AGENLEASH_CONVERSATION_ID"] = given
           /\ merged["AGENLEASH_ADAPTER"] = adapter
           /\ version # <<>> => merged["AGENLEASH_AGENT_VERSION"] = version
<1> DEFINE ids == [AGENLEASH_SESSION_ID |-> id, AGENLEASH_CONVERSATION_ID |-> given,
                   AGENLEASH_ADAPTER |-> adapter]
           named == IF version = <<>> THEN <<>> ELSE [AGENLEASH_AGENT_VERSION |-> version]
<1>1. own = Over(named, ids)
  BY Zenon DEF OwnEnv
<1>2. /\ {"AGENLEASH_SESSION_ID", "AGENLEASH_CONVERSATION_ID", "AGENLEASH_ADAPTER"} = DOMAIN ids
      /\ ids["AGENLEASH_SESSION_ID"] = id
      /\ ids["AGENLEASH_CONVERSATION_ID"] = given
      /\ ids["AGENLEASH_ADAPTER"] = adapter
      /\ "AGENLEASH_AGENT_VERSION" \notin DOMAIN ids
  OBVIOUS
<1>3. version # <<>> => /\ "AGENLEASH_AGENT_VERSION" \in DOMAIN named
                        /\ named["AGENLEASH_AGENT_VERSION"] = version
  OBVIOUS
<1> HIDE DEF ids, named
<1>4. ASSUME NEW name \in DOMAIN ids PROVE merged[name] = ids[name]
  <2>1. name \in DOMAIN own /\ own[name] = ids[name]
    <3>1. name \in DOMAIN named \union DOMAIN ids
      BY <1>4
    <3>2. /\ name \in DOMAIN Over(named, ids)
          /\ Over(named, ids)[name] = IF name \in DOMAIN ids THEN ids[name] ELSE named[name]
      BY <3>1, OverValue
    <3>3. QED
      BY <1>1, <1>4, <3>2
  <2>2. merged[name] = own[name]
    BY <2>1, OverValue, Zenon DEF MergeEnv
  <2>3. QED
    BY <2>1, <2>2
<1>5. ASSUME version # <<>> PROVE merged["AGENLEASH_AGENT_VERSION"] = version
  <2> DEFINE name == "AGENLEASH_AGENT_VERSION"
  <2>1. name \in DOMAIN named /\ name \notin DOMAIN ids /\ named[name] = version
    BY <1>2, <1>3, <1>5
  <2> HIDE DEF name
  <2>2. name \in DOMAIN own /\ own[name] = version
    <3>1. name \in DOMAIN named \union DOMAIN ids
      BY <2>1
    <3>2. /\ name \in DOMAIN own
          /\ own[name] = IF name \in DOMAIN ids THEN ids[name] ELSE named[name]
      <4>1. /\ name \in DOMAIN Over(named, ids)
            /\ Over(named, ids)[name] = IF name \in DOMAIN ids THEN ids[name] ELSE named[name]
        BY <3>1, OverValue
      <4>2. QED
        BY <1>1, <4>1
    <3>3. QED
      BY <2>1, <3>2
  <2>3. merged[name] = own[name]
    BY <2>2, OverValue, Zenon DEF MergeEnv
  <2>4. QED
    BY <2>2, <2>3 DEF name
<1>6. QED
  BY <1>2, <1>4, <1>5

\* What a start makes of a request that passed every check.
LEMMA StartTells ==
    ASSUME AdaptersKeepOptions, ClientsKeepOptions, AdaptersLoaded,
           NEW in \in Requests, in.adapter \in DOMAIN adapters,
           NEW version \in DetectedVersions(in), NEW id \in FreshIds, NEW fresh \in FreshIds,
           Resolvable(adapters[in.adapter], version),
           NEW s, s = SessionOf(in, version, id, fresh)
    PROVE  IsTold(s)
<1> DEFINE spec == adapters[in.adapter]
           effective == Resolve(spec, version)
           mode == IF in.mode = "" THEN "new" ELSE in.mode
           given == IF in.conversation = "" THEN fresh ELSE in.conversation
           all == BuildRuntimeArgs(spec.family, effective.args, mode, given, in.args)
           own == OwnEnv(id, given, in.adapter, version)
           boundTo == IF mode = "resume" /\ effective.native THEN given ELSE ""
<1>1. s = [id |-> id, family |-> spec.family, mode |-> mode, conversation |-> given,
           adapter |-> in.adapter, version |-> version, runtime |-> effective.mode,
           native |-> boundTo, base |-> effective.args, client |-> in.args,
           args |-> all, env |-> MergeEnv(effective.env, own)]
  BY Zenon DEF SessionOf
<1>2. spec \in UNION Directories /\ Validate(spec)
  BY Zenon DEF AdaptersLoaded
<1>3. version \in Detected \union {other.hint : other \in Requests}
  <2>1. CASE in.hint # <<>>
    BY <2>1 DEF DetectedVersions
  <2>2. CASE in.hint = <<>>
    BY <2>2 DEF DetectedVersions
  <2>3. QED
    BY <2>1, <2>2
<1>4. effective.args \in Seq(STRING) /\ KeepsOptions(spec.family, effective.args)
  BY <1>2, <1>3, Zenon DEF AdaptersKeepOptions
<1>5. in.args \in Seq(STRING) /\ IsPlain(in.args)
  BY Zenon DEF ClientsKeepOptions
<1>6. given \in FreshIds \union {other.conversation : other \in Requests}
  OBVIOUS
<1> HIDE DEF spec, mode, given
<1>7. PlainId(spec.family, given)
  BY <1>2, <1>6, Zenon DEF ClientsKeepOptions, PlainId
<1> HIDE DEF effective, all, own, boundTo
<1>8. /\ ReplacePlaceholders(effective.args, spec.family, given) \in Seq(Words)
      /\ all \in Seq(Words)
      /\ KeepsPrompts(ReplacePlaceholders(effective.args, spec.family, given), all)
      /\ spec.family \in {"claudecode", "cursor", "gemini", "grok"} =>
           Following(all, Flags) = Told(mode, given)
      /\ spec.family = "codex" => CodexResumes(all, in.args) = Told(mode, given)
      /\ spec.family = "opencode" => Following(all, {"--session"}) = Told(mode, given)
  <2>1. all = BuildRuntimeArgs(spec.family, effective.args, mode, given, in.args)
    BY Zenon DEF all
  <2>2. QED
    BY <1>4, <1>5, <1>7, <2>1, LineIsTold
<1>9. QED
  <2>1. /\ s.base = effective.args /\ s.family = spec.family /\ s.conversation = given
        /\ s.args = all /\ s.mode = mode /\ s.client = in.args
    BY <1>1
  <2>2. QED
    BY <1>8, <2>1 DEF IsTold

\* Its environment, whatever the adapters and the clients ask for.
LEMMA StartOwns ==
    ASSUME NEW in, NEW version, NEW id, NEW fresh, NEW s, s = SessionOf(in, version, id, fresh)
    PROVE  IsOwn(s)
<1> DEFINE spec == adapters[in.adapter]
           effective == Resolve(spec, version)
           mode == IF in.mode = "" THEN "new" ELSE in.mode
           given == IF in.conversation = "" THEN fresh ELSE in.conversation
           all == BuildRuntimeArgs(spec.family, effective.args, mode, given, in.args)
           own == OwnEnv(id, given, in.adapter, version)
           boundTo == IF mode = "resume" /\ effective.native THEN given ELSE ""
<1>1. s = [id |-> id, family |-> spec.family, mode |-> mode, conversation |-> given,
           adapter |-> in.adapter, version |-> version, runtime |-> effective.mode,
           native |-> boundTo, base |-> effective.args, client |-> in.args,
           args |-> all, env |-> MergeEnv(effective.env, own)]
  BY Zenon DEF SessionOf
<1> HIDE DEF spec, mode, given, effective, all, own, boundTo
<1> DEFINE merged == MergeEnv(effective.env, own)
<1>2. /\ merged["AGENLEASH_SESSION_ID"] = id
      /\ merged["AGENLEASH_CONVERSATION_ID"] = given
      /\ merged["AGENLEASH_ADAPTER"] = in.adapter
      /\ version # <<>> => merged["AGENLEASH_AGENT_VERSION"] = version
  <2>1. own = OwnEnv(id, given, in.adapter, version)
    BY DEF own
  <2>2. merged = MergeEnv(effective.env, own)
    OBVIOUS
  <2> HIDE DEF merged
  <2>3. QED
    BY <2>1, <2>2, EnvOfSession
<1>3. /\ s.env = merged /\ s.id = id /\ s.conversation = given /\ s.adapter = in.adapter
      /\ s.version = version
  BY <1>1
<1> HIDE DEF merged
<1>4. QED
  BY <1>2, <1>3 DEF IsOwn

-----------------------------------------------------------------------------
(* The theorems.                                                           *)

ToldInv == session = NoSession \/ IsTold(session)
OwnInv == session = NoSession \/ IsOwn(session)

LEMMA OwnStep == OwnInv /\ [LaunchNext]_launchVars => OwnInv'
<1> SUFFICES ASSUME OwnInv, [LaunchNext]_launchVars PROVE OwnInv'
  OBVIOUS
<1>1. ASSUME NEW in \in Requests, StartSession(in) PROVE OwnInv'
  <2>1. PICK version \in DetectedVersions(in), id \in FreshIds, fresh \in FreshIds :
            session' = SessionOf(in, version, id, fresh)
    BY <1>1, Zenon DEF StartSession
  <2>2. QED
    BY <2>1, StartOwns DEF OwnInv
<1>2. CASE UNCHANGED launchVars
  BY <1>2, Zenon DEF OwnInv, IsOwn, launchVars, NoSession
<1>3. QED
  BY <1>1, <1>2, Zenon DEF LaunchNext

LEMMA LoadedStep == AdaptersLoaded /\ [LaunchNext]_launchVars => AdaptersLoaded'
<1> SUFFICES ASSUME AdaptersLoaded, [LaunchNext]_launchVars PROVE AdaptersLoaded'
  OBVIOUS
<1>1. adapters' = adapters
  BY Zenon DEF LaunchNext, StartSession, launchVars
<1>2. QED
  BY <1>1, Zenon DEF AdaptersLoaded, Validate

LEMMA ToldStep ==
    ASSUME AdaptersKeepOptions, ClientsKeepOptions, AdaptersLoaded, ToldInv,
           [LaunchNext]_launchVars
    PROVE  ToldInv'
<1>1. ASSUME NEW in \in Requests, StartSession(in) PROVE ToldInv'
  <2>1. PICK version \in DetectedVersions(in), id \in FreshIds, fresh \in FreshIds :
            /\ Resolvable(adapters[in.adapter], version)
            /\ session' = SessionOf(in, version, id, fresh)
    BY <1>1, Zenon DEF StartSession
  <2>2. in.adapter \in DOMAIN adapters
    BY <1>1, Zenon DEF StartSession
  <2>3. IsTold(session')
    BY <2>1, <2>2, StartTells
  <2>4. QED
    BY <2>3, Zenon DEF ToldInv, IsTold
<1>2. CASE UNCHANGED launchVars
  BY <1>2, Zenon DEF ToldInv, IsTold, launchVars, NoSession
<1>3. QED
  BY <1>1, <1>2, Zenon DEF LaunchNext

\* The properties as the module states them.
LEMMA OwnIsEnough == OwnInv => EnvironmentIsOwn
  BY Zenon DEF OwnInv, IsOwn, EnvironmentIsOwn

LEMMA ToldIsEnough == ToldInv => AgentIsTold
<1> SUFFICES ASSUME ToldInv, session # NoSession PROVE AgentIsTold
  BY DEF AgentIsTold
<1>1. IsTold(session)
  BY DEF ToldInv
<1> DEFINE families == {"claudecode", "cursor", "gemini", "grok", "codex", "opencode"}
           base == ReplacePlaceholders(session.base, session.family, session.conversation)
<1>2. ASSUME session.family \in families
      PROVE  Resumed = Told(session.mode, session.conversation)
  <2>1. /\ After(ResumeFlags) = Following(session.args, Flags)
        /\ After({"exec"}) = Following(session.args, {"exec"})
        /\ After({"--session"}) = Following(session.args, {"--session"})
    BY Zenon DEF After, Following, Flags
  <2>2. CASE session.family \in {"claudecode", "cursor", "gemini", "grok"}
    <3>1. Resumed = After(ResumeFlags)
      BY <2>2 DEF Resumed
    <3>2. QED
      BY <1>1, <2>1, <2>2, <3>1 DEF IsTold
  <2>3. CASE session.family = "codex"
    <3>1. Resumed =
            IF After({"exec"}) = {"resume"}
            THEN {session.args[Len(session.args) - Len(session.client)]} ELSE {}
      BY <2>3 DEF Resumed
    <3>2. Resumed = CodexResumes(session.args, session.client)
      BY <2>1, <3>1, Zenon DEF CodexResumes
    <3>3. QED
      BY <1>1, <2>3, <3>2 DEF IsTold
  <2>4. CASE session.family = "opencode"
    <3>1. Resumed = After({"--session"})
      BY <2>4 DEF Resumed
    <3>2. QED
      BY <1>1, <2>1, <2>4, <3>1 DEF IsTold
  <2>5. QED
    BY <1>2, <2>2, <2>3, <2>4
<1>3. ASSUME NEW k \in DOMAIN base \ {1}, IsPrompt(base[k])
      PROVE  \E j \in DOMAIN session.args \ {1} :
               IsPrompt(session.args[j]) /\ session.args[j - 1] = base[k - 1]
  <2>1. {base, session.args} \subseteq Seq(Words) /\ KeepsPrompts(base, session.args)
    BY <1>1 DEF IsTold
  <2> DEFINE args == session.args
  <2> HIDE DEF base, args
  <2>2. base \in Seq(Words) /\ args \in Seq(Words)
    BY <2>1 DEF args
  <2>3. k \in 2..Len(base)
    BY <1>3, <2>2
  <2>4. PICK j \in 2..Len(args) : IsPrompt(args[j]) /\ args[j - 1] = base[k - 1]
    BY <1>3, <2>1, <2>3, Zenon DEF KeepsPrompts, args
  <2>5. j \in DOMAIN args \ {1}
    BY <2>2
  <2>6. QED
    BY <2>4, <2>5, Zenon DEF args
<1>4. QED
  BY <1>2, <1>3, Zenon DEF AgentIsTold, Told

\* An agent resumes the conversation that was asked for, and no other, and its
\* prompt stays behind its option, for any adapters that keep to their family's
\* options, any versions and any client that does the same.
THEOREM AgentIsAlwaysTold ==
    ASSUME AdaptersKeepOptions, ClientsKeepOptions
    PROVE  LaunchSpec => []AgentIsTold
<1>1. LaunchInit => AdaptersLoaded /\ ToldInv
  BY LoadedInit, Zenon DEF LaunchInit, ToldInv
<1>2. AdaptersLoaded /\ ToldInv /\ [LaunchNext]_launchVars => (AdaptersLoaded /\ ToldInv)'
  BY LoadedStep, ToldStep
<1>3. QED
  BY <1>1, <1>2, ToldIsEnough, PTL DEF LaunchSpec

\* The agent's environment names its own session, conversation, adapter and
\* version, whatever the server's, the adapters and the clients hold.
THEOREM EnvironmentIsAlwaysOwn == LaunchSpec => []EnvironmentIsOwn
<1>1. LaunchInit => OwnInv
  BY Zenon DEF LaunchInit, OwnInv
<1>2. QED
  BY <1>1, OwnStep, OwnIsEnough, PTL DEF LaunchSpec
=============================================================================
