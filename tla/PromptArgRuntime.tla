-------------------------- MODULE PromptArgRuntime --------------------------
(***************************************************************************)
(* internal/runtime/stdio_prompt_arg.go: a runtime for agents that take    *)
(* their prompt as an argument.                                            *)
(*                                                                         *)
(* Write collects the prompt, CloseInput launches the agent with it in a   *)
(* stdio runtime of its own, and forwardChildEvents copies that runtime's  *)
(* events.  The child is its abstract specification, RuntimeFeed.  emit    *)
(* reads r.events without the lock and sends without waiting; closeEvents  *)
(* takes the channel under the lock and closes it after.  A goroutine's    *)
(* emits and closeEvents that are still to come are a list of steps.       *)
(***************************************************************************)
EXTENDS Naturals, Sequences

CONSTANTS
    Streams,    \* the child's output streams
    Closers,    \* goroutines that each call CloseInput once
    Stoppers,   \* goroutines that each call Stop or Close once
    ArgLists,   \* argument lists of the spec, of "slot" and "plain"
    ChanCap,    \* capacity of r.events, 128 in NewPromptArgRuntime
    MaxWrites,  \* bound: accepted writes
    MaxEvents   \* bound: events of the child

ASSUME PromptArgAssumption ==
    /\ ChanCap \in Nat \ {0} /\ MaxWrites \in Nat /\ MaxEvents \in Nat
    /\ ArgLists \subseteq Seq({"slot", "plain"})

\* The goroutines are different ones.
ASSUME GoroutinesAssumption ==
    Closers \cap Stoppers = {} /\ "forwarder" \notin Closers \union Stoppers

VARIABLES
    args,       \* spec.Args
    buffer,     \* how many writes r.buffer has taken
    closed,     \* r.closed
    launched,   \* r.launched
    agents,     \* the arguments of every agent launched
    child,      \* r.child is not nil
    events,     \* r.events is not nil
    chanOpen,   \* the channel made by NewPromptArgRuntime is not closed
    sent, taken,    \* the events sent on it, and how many are received
    drain,      \* the session's drain: "off", "on", "nil channel" or "done"
    closer,     \* CloseInput: "idle", "start", "set" or "done"
    stopper,    \* Stop: "idle", "state" or "done"
    forwarder,  \* forwardChildEvents: "off", "range" or "done"
    todo,       \* the steps still to come in each goroutine
    crashed,    \* a goroutine panicked: send on or close of a closed channel
    childSent, childGiven, childOpen,   \* the child's feed
    forwarded   \* how many of its events the forwarder has taken

inputVars == <<args, buffer, closed, launched>>
chanVars  == <<events, chanOpen, sent, taken, drain, crashed>>
goVars    == <<closer, stopper, forwarder, todo>>
childVars == <<agents, child, childSent, childGiven, childOpen, forwarded>>
vars == <<inputVars, chanVars, goVars, childVars>>

Child == INSTANCE RuntimeFeed WITH sent <- childSent, given <- childGiven, open <- childOpen

Goroutines == Closers \union Stoppers \union {"forwarder"}
Plain(kind) == [kind |-> kind]
EmitStep(e) == [op |-> "emit", event |-> e]
CloseStep == [op |-> "take"]

Init ==
    /\ args \in ArgLists /\ buffer = 0 /\ closed = FALSE /\ launched = FALSE
    /\ agents = <<>> /\ child = FALSE /\ forwarded = 0
    /\ Child!Init
    /\ events = TRUE /\ chanOpen = TRUE
    /\ sent = <<Plain("started")>> /\ taken = 0     \* Start has returned
    /\ drain = "off" /\ crashed = FALSE
    /\ closer = [c \in Closers |-> "idle"] /\ stopper = [s \in Stoppers |-> "idle"]
    /\ forwarder = "off" /\ todo = [g \in Goroutines |-> <<>>]

-----------------------------------------------------------------------------
(* emit and closeEvents, in whatever goroutine runs them.                  *)

Pending(g, op) == todo[g] # <<>> /\ Head(todo[g]).op = op
Rest(g) == [todo EXCEPT ![g] = Tail(@)]
Replace(g, step) == [todo EXCEPT ![g] = <<step>> \o Tail(@)]

\* emit evaluates r.events: a nil channel makes the select take its default.
EmitLoad(g) ==
    /\ Pending(g, "emit")
    /\ todo' = IF events THEN Replace(g, [Head(todo[g]) EXCEPT !.op = "send"]) ELSE Rest(g)
    /\ UNCHANGED <<inputVars, chanVars, closer, stopper, forwarder, childVars>>

\* The send drops the event when the channel is full.
EmitSend(g) ==
    /\ Pending(g, "send")
    /\ IF chanOpen
       THEN /\ sent' = IF Len(sent) < taken + ChanCap
                       THEN Append(sent, Head(todo[g]).event) ELSE sent
            /\ UNCHANGED crashed
       ELSE crashed' = TRUE /\ UNCHANGED sent
    /\ todo' = Rest(g)
    /\ UNCHANGED <<inputVars, closer, stopper, forwarder, childVars,
                   events, chanOpen, taken, drain>>

\* Mutant: closeEvents leaves r.events as it is.
TakeChannelAgain(g) ==
    /\ Pending(g, "take")
    /\ todo' = Replace(g, [op |-> "close"])
    /\ UNCHANGED <<inputVars, closer, stopper, forwarder, childVars, chanVars>>

\* closeEvents under the lock: whoever finds r.events nil closes nothing.
TakeChannel(g) ==
    /\ Pending(g, "take")
    /\ events' = FALSE
    /\ todo' = IF events THEN Replace(g, [op |-> "close"]) ELSE Rest(g)
    /\ UNCHANGED <<inputVars, closer, stopper, forwarder, childVars,
                   chanOpen, sent, taken, drain, crashed>>

CloseChannel(g) ==
    /\ Pending(g, "close")
    /\ chanOpen' = FALSE /\ crashed' = (crashed \/ ~chanOpen)
    /\ todo' = Rest(g)
    /\ UNCHANGED <<inputVars, closer, stopper, forwarder, childVars,
                   events, sent, taken, drain>>

-----------------------------------------------------------------------------
(* The prompt and the launch.                                              *)

Write ==
    /\ ~closed /\ ~launched /\ buffer < MaxWrites
    /\ buffer' = buffer + 1
    /\ UNCHANGED <<args, closed, launched, chanVars, goVars, childVars>>

\* Mutant: the flags are left for the launch to set.
CloseInputOpen(c) ==
    /\ closer[c] = "idle" /\ ~closed
    /\ closer' = [closer EXCEPT ![c] = "start"]
    /\ UNCHANGED <<inputVars, chanVars, stopper, forwarder, todo, childVars>>

\* CloseInput takes the prompt and sets both flags in one critical section.
CloseInput(c) ==
    /\ closer[c] = "idle" /\ ~closed
    /\ closed' = TRUE /\ launched' = TRUE
    /\ closer' = [closer EXCEPT ![c] = IF launched THEN "done" ELSE "start"]
    /\ UNCHANGED <<args, buffer, chanVars, stopper, forwarder, todo, childVars>>

\* substitutePromptArgs: the prompt at every placeholder, or at the end.
Prompt == [prompt |-> buffer]
SubstitutePromptArgs ==
    LET slots == {i \in DOMAIN args : args[i] = "slot"}
        out == [i \in DOMAIN args |-> IF i \in slots THEN Prompt ELSE [plain |-> i]]
    IN  IF slots # {} THEN out ELSE Append(out, Prompt)

\* child.Start: the agent runs, and its runtime begins to send.
StartChild(c) ==
    /\ closer[c] = "start"
    /\ agents' = Append(agents, SubstitutePromptArgs)
    /\ childSent' = Append(childSent, Child!Plain("started"))
    /\ closer' = [closer EXCEPT ![c] = "set"]
    /\ UNCHANGED <<inputVars, chanVars, stopper, forwarder, todo,
                   child, childGiven, childOpen, forwarded>>

StartChildFails(c) ==
    /\ closer[c] = "start"
    /\ closer' = [closer EXCEPT ![c] = "done"]
    /\ todo' = [todo EXCEPT ![c] = <<EmitStep(Plain("exit_errored")), CloseStep>>]
    /\ UNCHANGED <<inputVars, chanVars, stopper, forwarder, childVars>>

SetChild(c) ==
    /\ closer[c] = "set"
    /\ child' = TRUE /\ forwarder' = "range"
    /\ closer' = [closer EXCEPT ![c] = "done"]
    /\ UNCHANGED <<inputVars, chanVars, stopper, todo,
                   agents, childSent, childGiven, childOpen, forwarded>>

-----------------------------------------------------------------------------
(* The child and forwardChildEvents.                                       *)

\* The stdio runtime sends Started once, in Start, and is never resized.
ChildStep ==
    /\ agents # <<>>
    /\ \/ Child!Note("signalled") \/ Child!Close
       \/ \E kind \in Child!ExitKinds : Child!Exit(kind)
       \/ \E s \in Streams : Child!Output(s)
    /\ Len(childSent') <= MaxEvents
    /\ UNCHANGED <<inputVars, chanVars, goVars, agents, child, forwarded>>

\* Mutant: the latest event is taken.
ForwardLatest ==
    /\ forwarder = "range" /\ todo["forwarder"] = <<>> /\ forwarded < Len(childSent)
    /\ forwarded' = forwarded + 1
    /\ todo' = [todo EXCEPT !["forwarder"] = <<EmitStep(childSent[Len(childSent)])>>]
    /\ UNCHANGED <<inputVars, chanVars, closer, stopper, forwarder,
                   agents, child, childSent, childGiven, childOpen>>

Forward ==
    /\ forwarder = "range" /\ todo["forwarder"] = <<>> /\ forwarded < Len(childSent)
    /\ forwarded' = forwarded + 1
    /\ todo' = [todo EXCEPT !["forwarder"] = <<EmitStep(childSent[forwarded + 1])>>]
    /\ UNCHANGED <<inputVars, chanVars, closer, stopper, forwarder,
                   agents, child, childSent, childGiven, childOpen>>

\* Mutant: closeEvents is left to Close.
ForwardLeaves ==
    /\ forwarder = "range" /\ todo["forwarder"] = <<>>
    /\ ~childOpen /\ forwarded = Len(childSent)
    /\ forwarder' = "done"
    /\ UNCHANGED <<inputVars, chanVars, closer, stopper, todo, childVars>>

ForwardEnds ==
    /\ forwarder = "range" /\ todo["forwarder"] = <<>>
    /\ ~childOpen /\ forwarded = Len(childSent)
    /\ forwarder' = "done"
    /\ todo' = [todo EXCEPT !["forwarder"] = <<CloseStep>>]
    /\ UNCHANGED <<inputVars, chanVars, closer, stopper, childVars>>

-----------------------------------------------------------------------------
(* Stop and Close.  Once r.child is set they, and Interrupt, signal the    *)
(* agent, whose runtime may send an event of its own: a ChildStep.         *)

StopBeforeLaunch(s) ==
    /\ stopper[s] = "idle" /\ ~child
    /\ stopper' = [stopper EXCEPT ![s] = "state"]
    /\ UNCHANGED <<inputVars, chanVars, closer, forwarder, todo, childVars>>

StopSetsState(s) ==
    /\ stopper[s] = "state"
    /\ stopper' = [stopper EXCEPT ![s] = "done"]
    /\ todo' = [todo EXCEPT ![s] = <<EmitStep(Plain("signalled")),
                                     EmitStep(Plain("exit_stopped")), CloseStep>>]
    /\ UNCHANGED <<inputVars, chanVars, closer, forwarder, childVars>>

-----------------------------------------------------------------------------
(* The session's drain: it ranges over the channel that Events returned.   *)

DrainBegin ==
    /\ drain = "off"
    /\ drain' = IF events THEN "on" ELSE "nil channel"
    /\ UNCHANGED <<inputVars, events, chanOpen, sent, taken, crashed, goVars, childVars>>

Receive ==
    /\ drain = "on" /\ taken < Len(sent)
    /\ taken' = taken + 1
    /\ UNCHANGED <<inputVars, events, chanOpen, sent, drain, crashed, goVars, childVars>>

DrainEnd ==
    /\ drain = "on" /\ ~chanOpen /\ taken = Len(sent)
    /\ drain' = "done"
    /\ UNCHANGED <<inputVars, events, chanOpen, sent, taken, crashed, goVars, childVars>>

-----------------------------------------------------------------------------
Emitting(g) == EmitLoad(g) \/ EmitSend(g) \/ TakeChannel(g) \/ CloseChannel(g)
Launching(c) == StartChild(c) \/ StartChildFails(c) \/ SetChild(c)
Forwarding == Forward \/ ForwardEnds
Draining == DrainBegin \/ Receive \/ DrainEnd

Next ==
    /\ ~crashed
    /\ \/ Write \/ ChildStep \/ Forwarding \/ Draining
       \/ \E c \in Closers : CloseInput(c) \/ Launching(c)
       \/ \E s \in Stoppers : StopBeforeLaunch(s) \/ StopSetsState(s)
       \/ \E g \in Goroutines : Emitting(g)

Spec == Init /\ [][Next]_vars

\* The goroutines run; nothing obliges a client to send its prompt or the
\* agent to end.
Fairness ==
    /\ WF_vars(~crashed /\ Forwarding) /\ WF_vars(~crashed /\ Draining)
    /\ \A c \in Closers : WF_vars(~crashed /\ Launching(c))
    /\ \A g \in Goroutines : WF_vars(~crashed /\ Emitting(g))

FairSpec == Spec /\ Fairness

-----------------------------------------------------------------------------
(* Properties.                                                             *)

\* A Stop or Close has found the runtime without a child.
StoppedEarly == \E s \in Stoppers : stopper[s] # "idle"

\* However writes and closes race, one agent at most is launched, and its
\* arguments hold the prompt with every write that was accepted.
AgentGetsWholePrompt ==
    /\ Len(agents) <= 1
    /\ \A a \in 1..Len(agents) : \E i \in DOMAIN agents[a] : agents[a][i] = Prompt

\* CloseInput, Stop, Close and the forwarder may all reach closeEvents, and one
\* of them closes the channel: close never panics.
ClosedOnce ==
    \A g \in Goroutines : Pending(g, "close") =>
        chanOpen /\ \A h \in Goroutines : Pending(h, "close") => h = g

\* Unless it is stopped before the launch, what the runtime gives is the child's
\* events in their order, some dropped at a full channel, and one exit at most.
IsExit(e) == e.kind \in Child!ExitKinds
Later(e, f) == e.kind = "output" /\ f.kind = "output" /\ e.stream = f.stream => e.n < f.n
FeedsInOrder ==
    ~StoppedEarly =>
        \A i, j \in DOMAIN sent : i < j =>
            Later(sent[i], sent[j]) /\ ~(IsExit(sent[i]) /\ IsExit(sent[j]))

\* Unless it is stopped before the launch, once the child's channel is closed
\* the session's drain ends, even when the exit event itself was dropped.  A
\* drain that asks for the channel after closeEvents ranges over nil for good.
DrainEnds == ~childOpen ~> (drain \in {"done", "nil channel"} \/ StoppedEarly)
=============================================================================
