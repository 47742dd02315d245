--------------------------- MODULE PromptArgProofs ---------------------------
(***************************************************************************)
(* What the prompt-argument runtime promises for every number of           *)
(* goroutines that close, stop and write, every argument list, every       *)
(* channel capacity and every behaviour of the child.                      *)
(***************************************************************************)
EXTENDS PromptArgRuntime, SequenceTheorems, TLAPS

-----------------------------------------------------------------------------
(* The prompt: CloseInput is the one way to the launch, and it closes the  *)
(* buffer in the same step.                                                *)

Launchers == {c \in Closers : closer[c] \in {"start", "set"}}

PromptInv ==
    /\ args \in Seq({"slot", "plain"}) /\ buffer \in Nat /\ closed \in BOOLEAN
    /\ closer \in [Closers -> {"idle", "start", "set", "done"}]
    /\ \A c, d \in Launchers : c = d
    /\ Launchers # {} => closed
    /\ agents = <<>> \/ (agents = <<SubstitutePromptArgs>> /\ closed)
    /\ agents # <<>> => \A c \in Closers : closer[c] # "start"

\* The prompt is among the arguments, at a placeholder or at the end.
LEMMA PromptIsSubstituted ==
    ASSUME args \in Seq({"slot", "plain"})
    PROVE  \E i \in DOMAIN SubstitutePromptArgs : SubstitutePromptArgs[i] = Prompt
<1> DEFINE slots == {i \in DOMAIN args : args[i] = "slot"}
           out == [i \in DOMAIN args |-> IF i \in slots THEN Prompt ELSE [plain |-> i]]
<1>1. CASE slots # {}
  <2>1. PICK i \in slots : TRUE
    BY <1>1
  <2>2. SubstitutePromptArgs = out /\ i \in DOMAIN out /\ out[i] = Prompt
    BY <1>1, <2>1 DEF SubstitutePromptArgs
  <2>3. QED
    BY <2>2
<1>2. CASE slots = {}
  <2>1. SubstitutePromptArgs = Append(out, Prompt)
    BY <1>2 DEF SubstitutePromptArgs
  <2>2. DOMAIN args = 1..Len(args) /\ Len(args) \in Nat
    OBVIOUS
  <2>3. out \in Seq({Prompt} \union {[plain |-> i] : i \in DOMAIN args})
    <3>1. out \in [1..Len(args) -> {Prompt} \union {[plain |-> i] : i \in DOMAIN args}]
      BY <2>2
    <3>2. QED
      BY <2>2, <3>1, SeqDef
  <2> HIDE DEF out
  <2>4. /\ Len(out) + 1 \in DOMAIN Append(out, Prompt)
        /\ Append(out, Prompt)[Len(out) + 1] = Prompt
    BY <2>3
  <2>5. QED
    BY <2>1, <2>4
<1>3. QED
  BY <1>1, <1>2

LEMMA PromptInit == Init => PromptInv
<1> SUFFICES ASSUME Init PROVE PromptInv
  OBVIOUS
<1>1. /\ args \in Seq({"slot", "plain"}) /\ buffer = 0 /\ closed = FALSE /\ agents = <<>>
      /\ closer = [c \in Closers |-> "idle"]
  BY PromptArgAssumption DEF Init
<1>2. Launchers = {}
  BY <1>1 DEF Launchers
<1>3. QED
  BY <1>1, <1>2 DEF PromptInv

LEMMA PromptStep == PromptInv /\ [Next]_vars => PromptInv'
<1> SUFFICES ASSUME PromptInv, [Next]_vars PROVE PromptInv'
  OBVIOUS
<1> USE DEF inputVars, chanVars, goVars, childVars
<1>1. ASSUME UNCHANGED <<args, buffer, closed, agents, closer>> PROVE PromptInv'
  BY <1>1 DEF PromptInv, Launchers, SubstitutePromptArgs, Prompt
<1>2. CASE Write
  <2>1. /\ ~closed /\ buffer' = buffer + 1
        /\ UNCHANGED <<args, closed, agents, closer>>
    BY <1>2 DEF Write
  <2>2. agents = <<>> /\ Launchers = {}
    BY <2>1 DEF PromptInv
  <2>3. QED
    BY <2>1, <2>2 DEF PromptInv, Launchers
<1>3. ASSUME NEW c \in Closers, CloseInput(c) PROVE PromptInv'
  <2>1. /\ ~closed /\ closed' = TRUE
        /\ closer' = [closer EXCEPT ![c] = IF launched THEN "done" ELSE "start"]
        /\ UNCHANGED <<args, buffer, agents>>
    BY <1>3 DEF CloseInput
  <2>2. agents = <<>> /\ Launchers = {}
    BY <2>1 DEF PromptInv
  <2>3. Launchers' \subseteq {c}
    BY <2>1, <2>2 DEF PromptInv, Launchers
  <2>4. QED
    BY <2>1, <2>2, <2>3 DEF PromptInv
<1>4. ASSUME NEW c \in Closers, StartChild(c) PROVE PromptInv'
  <2>1. /\ closer[c] = "start" /\ closer' = [closer EXCEPT ![c] = "set"]
        /\ agents' = Append(agents, SubstitutePromptArgs)
        /\ UNCHANGED <<args, buffer, closed>>
    BY <1>4 DEF StartChild
  <2>2. c \in Launchers /\ Launchers' = Launchers /\ closed /\ agents = <<>>
    BY <2>1 DEF PromptInv, Launchers
  <2>3. agents' = <<SubstitutePromptArgs>>
    BY <2>1, <2>2
  <2>4. SubstitutePromptArgs' = SubstitutePromptArgs
    BY <2>1 DEF SubstitutePromptArgs, Prompt
  <2>5. \A d \in Closers : closer'[d] # "start"
    BY <2>1, <2>2 DEF PromptInv, Launchers
  <2>6. QED
    BY <2>1, <2>2, <2>3, <2>4, <2>5 DEF PromptInv
<1>5. ASSUME NEW c \in Closers, StartChildFails(c) \/ SetChild(c) PROVE PromptInv'
  <2>1. /\ closer[c] \in {"start", "set"} /\ closer' = [closer EXCEPT ![c] = "done"]
        /\ UNCHANGED <<args, buffer, closed, agents>>
    BY <1>5 DEF StartChildFails, SetChild
  <2>2. SubstitutePromptArgs' = SubstitutePromptArgs
    BY <2>1 DEF SubstitutePromptArgs, Prompt
  <2>3. Launchers' \subseteq Launchers
    BY <2>1 DEF PromptInv, Launchers
  <2>4. QED
    BY <2>1, <2>2, <2>3 DEF PromptInv
<1>6. CASE ChildStep \/ Forwarding \/ Draining
  BY <1>1, <1>6 DEF ChildStep, Forwarding, Forward, ForwardEnds, Draining, DrainBegin,
                    Receive, DrainEnd
<1>7. ASSUME NEW s \in Stoppers, StopBeforeLaunch(s) \/ StopSetsState(s) PROVE PromptInv'
  BY <1>1, <1>7 DEF StopBeforeLaunch, StopSetsState
<1>8. ASSUME NEW g \in Goroutines, Emitting(g) PROVE PromptInv'
  BY <1>1, <1>8 DEF Emitting, EmitLoad, EmitSend, TakeChannel, CloseChannel
<1>9. CASE UNCHANGED vars
  BY <1>1, <1>9 DEF vars
<1>10. QED
  BY <1>2, <1>3, <1>4, <1>5, <1>6, <1>7, <1>8, <1>9 DEF Next, Launching

\* One agent at most, with the whole prompt, whatever writes and closes race.
THEOREM PromptIsWhole == Spec => []AgentGetsWholePrompt
<1>1. PromptInv => AgentGetsWholePrompt
  <2> SUFFICES ASSUME PromptInv PROVE AgentGetsWholePrompt
    OBVIOUS
  <2>1. CASE agents = <<>>
    BY <2>1 DEF AgentGetsWholePrompt
  <2>2. CASE agents = <<SubstitutePromptArgs>>
    <3>1. Len(agents) = 1 /\ agents[1] = SubstitutePromptArgs
      BY <2>2
    <3>2. QED
      BY <3>1, PromptIsSubstituted DEF AgentGetsWholePrompt, PromptInv
  <2>3. QED
    BY <2>1, <2>2 DEF PromptInv
<1>2. QED
  BY <1>1, PromptInit, PromptStep, PTL DEF Spec

-----------------------------------------------------------------------------
(* The channel: whoever finds r.events under the lock is the one to close  *)
(* the channel, and a goroutine comes to a close only through that step.   *)

Events ==
    {Plain(kind) : kind \in Child!NoteKinds \union Child!ExitKinds}
        \union {Child!Chunk(s, n) : s \in Streams, n \in Nat}

Steps == [op : {"emit", "send"}, event : Events] \union [op : {"take", "close"}]

StepsInv ==
    /\ childSent \in Seq(Events) /\ childGiven \in [Streams -> Nat] /\ forwarded \in Nat
    /\ todo \in [Goroutines -> Seq(Steps)]
    /\ \A g \in Goroutines : \A k \in DOMAIN todo[g] : k > 1 => todo[g][k].op # "close"

Closing == {g \in Goroutines : Pending(g, "close")}

CloseInv ==
    /\ chanOpen \in BOOLEAN /\ events \in BOOLEAN
    /\ events => chanOpen /\ Closing = {}
    /\ Closing # {} => chanOpen
    /\ \A g, h \in Closing : g = h

\* A goroutine is given steps none of which is a close.
LEMMA NewStepsAreNoClose ==
    ASSUME StepsInv, NEW g \in Goroutines, NEW steps \in Seq(Steps),
           \A k \in DOMAIN steps : steps[k].op # "close",
           todo' = [todo EXCEPT ![g] = steps]
    PROVE  /\ todo' \in [Goroutines -> Seq(Steps)]
           /\ \A h \in Goroutines : \A k \in DOMAIN todo'[h] : k > 1 => todo'[h][k].op # "close"
           /\ Closing' = Closing \ {g}
<1>1. /\ todo' \in [Goroutines -> Seq(Steps)] /\ todo'[g] = steps
      /\ \A h \in Goroutines \ {g} : todo'[h] = todo[h]
  BY DEF StepsInv
<1>2. ~Pending(g, "close")'
  <2>1. CASE steps = <<>>
    BY <1>1, <2>1 DEF Pending
  <2>2. CASE steps # <<>>
    <3>1. 1 \in DOMAIN steps /\ Head(steps) = steps[1]
      BY <2>2
    <3>2. QED
      BY <1>1, <3>1 DEF Pending
  <2>3. QED
    BY <2>1, <2>2
<1>3. Closing' = Closing \ {g}
  BY <1>1, <1>2 DEF Closing, Pending
<1>4. QED
  BY <1>1, <1>3 DEF StepsInv

\* A goroutine that finishes a step goes on to one that is no close.
LEMMA RestIsNoClose ==
    ASSUME StepsInv, NEW g \in Goroutines, todo[g] # <<>>, todo' = Rest(g)
    PROVE  /\ todo' \in [Goroutines -> Seq(Steps)]
           /\ \A h \in Goroutines : \A k \in DOMAIN todo'[h] : k > 1 => todo'[h][k].op # "close"
           /\ Closing' = Closing \ {g}
<1>1. todo[g] \in Seq(Steps) /\ todo' = [todo EXCEPT ![g] = Tail(todo[g])]
  BY DEF StepsInv, Rest
<1>2. /\ Tail(todo[g]) \in Seq(Steps) /\ Len(Tail(todo[g])) = Len(todo[g]) - 1
      /\ Len(todo[g]) \in Nat /\ Len(todo[g]) > 0
      /\ \A k \in 1..Len(Tail(todo[g])) : Tail(todo[g])[k] = todo[g][k + 1]
  BY <1>1
<1>3. \A k \in DOMAIN Tail(todo[g]) : Tail(todo[g])[k].op # "close"
  <2> SUFFICES ASSUME NEW k \in DOMAIN Tail(todo[g]) PROVE Tail(todo[g])[k].op # "close"
    OBVIOUS
  <2>1. k \in 1..Len(Tail(todo[g])) /\ k + 1 \in DOMAIN todo[g] /\ k + 1 > 1
    BY <1>1, <1>2
  <2>2. QED
    BY <1>2, <2>1 DEF StepsInv
<1>4. QED
  BY <1>1, <1>2, <1>3, NewStepsAreNoClose

\* A goroutine's step is replaced in place by another.
LEMMA ReplaceKeepsRest ==
    ASSUME StepsInv, NEW g \in Goroutines, todo[g] # <<>>, NEW step \in Steps,
           todo' = Replace(g, step)
    PROVE  /\ todo' \in [Goroutines -> Seq(Steps)]
           /\ \A h \in Goroutines : \A k \in DOMAIN todo'[h] : k > 1 => todo'[h][k].op # "close"
           /\ todo'[g] # <<>> /\ Head(todo'[g]) = step
           /\ \A h \in Goroutines \ {g} : todo'[h] = todo[h]
           /\ \A k \in DOMAIN todo'[g] :
                 k > 1 => k \in DOMAIN todo[g] /\ todo'[g][k] = todo[g][k]
<1>1. /\ todo[g] \in Seq(Steps) /\ todo \in [Goroutines -> Seq(Steps)]
      /\ todo' = [todo EXCEPT ![g] = <<step>> \o Tail(todo[g])]
  BY DEF StepsInv, Replace
<1> DEFINE new == <<step>> \o Tail(todo[g])
<1>2. /\ new \in Seq(Steps) /\ Len(new) = Len(todo[g]) /\ new[1] = step /\ Len(todo[g]) \in Nat
      /\ Len(todo[g]) > 0
      /\ \A k \in 2..Len(new) : new[k] = todo[g][k]
  <2>1. /\ Tail(todo[g]) \in Seq(Steps) /\ <<step>> \in Seq(Steps) /\ Len(<<step>>) = 1
        /\ Len(Tail(todo[g])) = Len(todo[g]) - 1 /\ Len(todo[g]) \in Nat /\ Len(todo[g]) > 0
        /\ \A k \in 1..Len(Tail(todo[g])) : Tail(todo[g])[k] = todo[g][k + 1]
    BY <1>1
  <2>2. /\ new \in Seq(Steps) /\ Len(new) = 1 + Len(Tail(todo[g])) /\ new[1] = step
        /\ \A k \in 2..Len(new) : new[k] = Tail(todo[g])[k - 1]
    BY <2>1
  <2>3. QED
    BY <2>1, <2>2
<1> HIDE DEF new
<1>3. /\ todo' \in [Goroutines -> Seq(Steps)] /\ todo'[g] = new
      /\ \A h \in Goroutines \ {g} : todo'[h] = todo[h]
  BY <1>1, <1>2 DEF new
<1>4. \A k \in DOMAIN new : k > 1 => new[k].op # "close"
  <2> SUFFICES ASSUME NEW k \in DOMAIN new, k > 1 PROVE new[k].op # "close"
    OBVIOUS
  <2>1. k \in 2..Len(new) /\ k \in DOMAIN todo[g]
    BY <1>1, <1>2
  <2>2. QED
    BY <1>2, <2>1 DEF StepsInv
<1>5. new # <<>> /\ Head(new) = step
  BY <1>2
<1>6. \A k \in DOMAIN new : k > 1 => k \in DOMAIN todo[g] /\ new[k] = todo[g][k]
  BY <1>1, <1>2
<1>7. \A h \in Goroutines : \A k \in DOMAIN todo'[h] : k > 1 => todo'[h][k].op # "close"
  <2> SUFFICES ASSUME NEW h \in Goroutines, NEW k \in DOMAIN todo'[h], k > 1
               PROVE  todo'[h][k].op # "close"
    OBVIOUS
  <2>1. CASE h = g
    BY <1>3, <1>4, <2>1
  <2>2. CASE h # g
    BY <1>3, <2>2 DEF StepsInv
  <2>3. QED
    BY <2>1, <2>2
<1>8. QED
  BY <1>3, <1>5, <1>6, <1>7

\* What a goroutine is given to do: an emit of any event, or closeEvents.
LEMMA StepsAreSteps ==
    /\ \A e \in Events : EmitStep(e) \in Steps
    /\ CloseStep \in Steps
    /\ \A kind \in Child!NoteKinds \union Child!ExitKinds : Plain(kind) \in Events
  BY DEF Steps, EmitStep, CloseStep, Events

LEMMA StepsInit == Init => StepsInv /\ CloseInv
<1> SUFFICES ASSUME Init PROVE StepsInv /\ CloseInv
  OBVIOUS
<1>1. /\ childSent = <<>> /\ childGiven = [s \in Streams |-> 0] /\ forwarded = 0
      /\ todo = [g \in Goroutines |-> <<>>] /\ events = TRUE /\ chanOpen = TRUE
  BY DEF Init, Child!Init
<1>2. \A g \in Goroutines : todo[g] = <<>>
  BY <1>1
<1>3. StepsInv
  BY <1>1, <1>2 DEF StepsInv
<1>4. Closing = {}
  BY <1>2 DEF Closing, Pending
<1>5. QED
  BY <1>1, <1>3, <1>4 DEF CloseInv

\* The child's events stay events.
LEMMA ChildTyped ==
    ASSUME StepsInv, ChildStep
    PROVE  childSent' \in Seq(Events) /\ childGiven' \in [Streams -> Nat]
<1>1. childSent \in Seq(Events) /\ childGiven \in [Streams -> Nat]
  BY DEF StepsInv
<1>2. CASE Child!Note("signalled")
  <2>1. Child!Plain("signalled") \in Events
    BY DEF Events, Plain, Child!Plain, Child!NoteKinds
  <2>2. QED
    BY <1>1, <1>2, <2>1 DEF Child!Note, Child!Send
<1>3. CASE Child!Close
  BY <1>1, <1>3 DEF Child!Close
<1>4. ASSUME NEW kind \in Child!ExitKinds, Child!Exit(kind)
      PROVE  childSent' \in Seq(Events) /\ childGiven' \in [Streams -> Nat]
  <2>1. Child!Plain(kind) \in Events
    BY DEF Events, Plain, Child!Plain
  <2>2. QED
    BY <1>1, <1>4, <2>1 DEF Child!Exit, Child!Send
<1>5. ASSUME NEW s \in Streams, Child!Output(s)
      PROVE  childSent' \in Seq(Events) /\ childGiven' \in [Streams -> Nat]
  <2>1. childGiven[s] + 1 \in Nat
    BY <1>1
  <2>2. Child!Chunk(s, childGiven[s] + 1) \in Events
    BY <2>1 DEF Events
  <2>3. QED
    BY <1>1, <1>5, <2>1, <2>2 DEF Child!Output, Child!Send
<1>6. QED
  BY <1>2, <1>3, <1>4, <1>5 DEF ChildStep

\* A step that leaves the channel alone and brings nobody to a close.
LEMMA CloseQuiet ==
    ASSUME CloseInv, UNCHANGED <<events, chanOpen>>, Closing' \subseteq Closing
    PROVE  CloseInv'
  BY DEF CloseInv

LEMMA NewSteps ==
    ASSUME StepsInv, CloseInv, NEW g \in Goroutines, NEW steps \in Seq(Steps),
           \A k \in DOMAIN steps : steps[k].op # "close",
           todo' = [todo EXCEPT ![g] = steps], forwarded' \in Nat,
           UNCHANGED <<events, chanOpen, childSent, childGiven>>
    PROVE  StepsInv' /\ CloseInv'
<1>1. /\ todo' \in [Goroutines -> Seq(Steps)]
      /\ \A h \in Goroutines : \A k \in DOMAIN todo'[h] : k > 1 => todo'[h][k].op # "close"
      /\ Closing' = Closing \ {g}
  BY NewStepsAreNoClose
<1>2. StepsInv'
  BY <1>1 DEF StepsInv
<1>3. QED
  BY <1>1, <1>2, CloseQuiet

\* The steps of emit and of closeEvents.
LEMMA EmittingKeeps ==
    ASSUME StepsInv, CloseInv, NEW g \in Goroutines, Emitting(g)
    PROVE  StepsInv' /\ CloseInv'
<1> USE DEF inputVars, chanVars, goVars, childVars
<1>1. todo[g] # <<>> /\ UNCHANGED <<childSent, childGiven, forwarded>>
  BY DEF Emitting, EmitLoad, EmitSend, TakeChannel, CloseChannel, Pending
<1>2. ASSUME todo' = Rest(g), UNCHANGED <<events, chanOpen>> PROVE StepsInv' /\ CloseInv'
  BY <1>1, <1>2, RestIsNoClose, CloseQuiet DEF StepsInv
<1>3. CASE EmitLoad(g)
  <2> DEFINE step == [Head(todo[g]) EXCEPT !.op = "send"]
  <2>1. CASE todo' = Rest(g)
    BY <1>2, <1>3, <2>1 DEF EmitLoad
  <2>2. CASE todo' = Replace(g, step)
    <3>1. Head(todo[g]) \in Steps /\ Head(todo[g]).op = "emit"
      BY <1>1, <1>3 DEF EmitLoad, Pending, StepsInv
    <3>2. step \in Steps /\ step.op = "send"
      BY <3>1 DEF Steps
    <3> HIDE DEF step
    <3>3. StepsInv'
      BY <1>1, <2>2, <3>2, ReplaceKeepsRest DEF StepsInv
    <3>4. Closing' \subseteq Closing
      BY <1>1, <2>2, <3>2, ReplaceKeepsRest DEF Closing, Pending
    <3>5. QED
      BY <1>3, <3>3, <3>4, CloseQuiet DEF EmitLoad
  <2>3. QED
    BY <1>3, <2>1, <2>2 DEF EmitLoad
<1>4. CASE EmitSend(g)
  BY <1>2, <1>4 DEF EmitSend
<1>5. CASE TakeChannel(g)
  <2>1. CASE ~events
    <3>1. todo' = Rest(g) /\ events' = events /\ chanOpen' = chanOpen
      BY <1>5, <2>1 DEF TakeChannel, CloseInv
    <3>2. QED
      BY <1>2, <3>1
  <2>2. CASE events
    <3>1. /\ todo' = Replace(g, [op |-> "close"]) /\ events' = FALSE /\ chanOpen' = chanOpen
          /\ [op |-> "close"] \in Steps
      BY <1>5, <2>2 DEF TakeChannel, Steps
    <3>2. StepsInv'
      BY <1>1, <3>1, ReplaceKeepsRest DEF StepsInv
    <3>3. Closing' \subseteq {g}
      BY <1>1, <2>2, <3>1, ReplaceKeepsRest DEF Closing, Pending, CloseInv
    <3>4. QED
      BY <2>2, <3>1, <3>2, <3>3 DEF CloseInv
  <2>3. QED
    BY <2>1, <2>2
<1>6. CASE CloseChannel(g)
  <2>1. g \in Closing /\ events' = events /\ chanOpen' = FALSE /\ todo' = Rest(g)
    BY <1>6 DEF CloseChannel, Closing
  <2>2. Closing' = {} /\ ~events
    BY <1>1, <2>1, RestIsNoClose DEF CloseInv
  <2>3. StepsInv'
    BY <1>1, <2>1, RestIsNoClose DEF StepsInv
  <2>4. QED
    BY <2>1, <2>2, <2>3 DEF CloseInv
<1>7. QED
  BY <1>3, <1>4, <1>5, <1>6 DEF Emitting

LEMMA CloseStepKeeps == StepsInv /\ CloseInv /\ [Next]_vars => StepsInv' /\ CloseInv'
<1> SUFFICES ASSUME StepsInv, CloseInv, [Next]_vars PROVE StepsInv' /\ CloseInv'
  OBVIOUS
<1> USE DEF inputVars, chanVars, goVars, childVars
<1>1. ASSUME UNCHANGED <<todo, events, chanOpen, forwarded>>,
             childSent' \in Seq(Events), childGiven' \in [Streams -> Nat]
      PROVE  StepsInv' /\ CloseInv'
  BY <1>1 DEF StepsInv, CloseInv, Closing, Pending
<1>2. childSent \in Seq(Events) /\ childGiven \in [Streams -> Nat] /\ forwarded \in Nat
  BY DEF StepsInv
<1>3. CASE Write \/ Draining
  BY <1>1, <1>2, <1>3 DEF Write, Draining, DrainBegin, Receive, DrainEnd
<1>4. CASE ChildStep
  BY <1>1, <1>4, ChildTyped DEF ChildStep
<1>5. ASSUME NEW c \in Closers, CloseInput(c) \/ StartChild(c) \/ SetChild(c)
      PROVE  StepsInv' /\ CloseInv'
  <2>1. Child!Plain("started") \in Events
    BY DEF Events, Plain, Child!Plain, Child!NoteKinds
  <2>2. childSent' \in Seq(Events) /\ childGiven' \in [Streams -> Nat]
    <3>1. CASE CloseInput(c) \/ SetChild(c)
      BY <1>2, <3>1 DEF CloseInput, SetChild
    <3>2. CASE StartChild(c)
      <4>1. childSent' = Append(childSent, Child!Plain("started")) /\ childGiven' = childGiven
        BY <3>2 DEF StartChild
      <4>2. QED
        BY <1>2, <2>1, <4>1
    <3>3. QED
      BY <1>5, <3>1, <3>2
  <2>3. QED
    BY <1>1, <1>5, <2>2 DEF CloseInput, StartChild, SetChild
<1>6. ASSUME NEW c \in Closers, StartChildFails(c) PROVE StepsInv' /\ CloseInv'
  <2> DEFINE steps == <<EmitStep(Plain("exit_errored")), CloseStep>>
  <2>1. EmitStep(Plain("exit_errored")) \in Steps /\ CloseStep \in Steps
    BY StepsAreSteps DEF Child!ExitKinds
  <2>2. steps \in Seq(Steps) /\ \A k \in DOMAIN steps : steps[k].op # "close"
    BY <2>1 DEF EmitStep, CloseStep
  <2>3. c \in Goroutines
    BY DEF Goroutines
  <2>4. QED
    BY <1>2, <1>6, <2>2, <2>3, NewSteps DEF StartChildFails
<1>7. CASE Forward
  <2> DEFINE steps == <<EmitStep(childSent[forwarded + 1])>>
  <2>1. childSent[forwarded + 1] \in Events /\ forwarded' = forwarded + 1
    BY <1>2, <1>7 DEF Forward
  <2>2. EmitStep(childSent[forwarded + 1]) \in Steps
    BY <2>1, StepsAreSteps
  <2>3. steps \in Seq(Steps) /\ \A k \in DOMAIN steps : steps[k].op # "close"
    BY <2>2 DEF EmitStep
  <2>4. "forwarder" \in Goroutines
    BY DEF Goroutines
  <2>5. /\ todo' = [todo EXCEPT !["forwarder"] = steps] /\ forwarded' \in Nat
        /\ UNCHANGED <<events, chanOpen, childSent, childGiven>>
    BY <1>2, <1>7, <2>1 DEF Forward
  <2> HIDE DEF steps
  <2>6. QED
    BY <2>3, <2>4, <2>5, NewSteps
<1>8. CASE ForwardEnds
  <2>1. <<CloseStep>> \in Seq(Steps) /\ \A k \in DOMAIN <<CloseStep>> : <<CloseStep>>[k].op # "close"
    BY StepsAreSteps DEF CloseStep
  <2>2. "forwarder" \in Goroutines
    BY DEF Goroutines
  <2>3. QED
    BY <1>2, <1>8, <2>1, <2>2, NewSteps DEF ForwardEnds
<1>9. ASSUME NEW s \in Stoppers, StopBeforeLaunch(s) PROVE StepsInv' /\ CloseInv'
  BY <1>1, <1>2, <1>9 DEF StopBeforeLaunch
<1>10. ASSUME NEW s \in Stoppers, StopSetsState(s) PROVE StepsInv' /\ CloseInv'
  <2> DEFINE steps == <<EmitStep(Plain("signalled")), EmitStep(Plain("exit_stopped")), CloseStep>>
  <2>1. /\ EmitStep(Plain("signalled")) \in Steps /\ EmitStep(Plain("exit_stopped")) \in Steps
        /\ CloseStep \in Steps
    BY StepsAreSteps DEF Child!ExitKinds, Child!NoteKinds
  <2>2. steps \in Seq(Steps) /\ \A k \in DOMAIN steps : steps[k].op # "close"
    BY <2>1 DEF EmitStep, CloseStep
  <2>3. s \in Goroutines
    BY DEF Goroutines
  <2>4. QED
    BY <1>2, <1>10, <2>2, <2>3, NewSteps DEF StopSetsState
<1>11. ASSUME NEW g \in Goroutines, Emitting(g) PROVE StepsInv' /\ CloseInv'
  BY <1>11, EmittingKeeps
<1>12. CASE UNCHANGED vars
  BY <1>1, <1>2, <1>12 DEF vars
<1>13. QED
  BY <1>3, <1>4, <1>5, <1>6, <1>7, <1>8, <1>9, <1>10, <1>11, <1>12
     DEF Next, Launching, Forwarding

\* Nobody closes a channel that is closed, whoever reaches closeEvents.
THEOREM ChannelIsClosedOnce == Spec => []ClosedOnce
<1>1. CloseInv => ClosedOnce
  BY DEF CloseInv, ClosedOnce, Closing
<1>2. QED
  BY <1>1, StepsInit, CloseStepKeeps, PTL DEF Spec

-----------------------------------------------------------------------------
(* The order of the feed.  The child's events are in order; the forwarder  *)
(* holds one of them at a time, the last it took; a launch that fails      *)
(* leaves nothing to forward, and one goroutine with an exit to send.      *)

InOrder(feed) ==
    \A i, j \in DOMAIN feed : i < j =>
        Later(feed[i], feed[j]) /\ ~(IsExit(feed[i]) /\ IsExit(feed[j]))

\* What the child has sent is in order, and numbered up to what it has given.
ChildInv ==
    /\ InOrder(childSent)
    /\ \A i \in DOMAIN childSent : childSent[i].kind = "output" =>
          childSent[i].n <= childGiven[childSent[i].stream]

\* Without an agent there is nothing to forward and nobody who forwards.
LaunchInv ==
    /\ agents = <<>> =>
          childSent = <<>> /\ forwarder = "off" /\ \A c \in Closers : closer[c] # "set"
    /\ forwarded <= Len(childSent)

\* CloseInput has run, its launch is over and no agent came of it.
LaunchFailed == agents = <<>> /\ closed /\ Launchers = {}

Feeders == Closers \union {"forwarder"}
EmitOps == {"emit", "send"}
Holds(g) == todo[g] # <<>> /\ Head(todo[g]).op \in EmitOps

HeldInv ==
    /\ stopper \in [Stoppers -> {"idle", "state", "done"}]
    /\ \A g \in Feeders : \A k \in DOMAIN todo[g] : k > 1 => todo[g][k].op \notin EmitOps
    /\ Holds("forwarder") =>
          forwarded > 0 /\ Head(todo["forwarder"]).event = childSent[forwarded]
    /\ \A c \in Closers : Holds(c) => Head(todo[c]).event = Plain("exit_errored")
    /\ \A c \in Closers : todo[c] # <<>> => LaunchFailed
    /\ \A c, d \in Closers : todo[c] # <<>> /\ todo[d] # <<>> => c = d
    /\ ~StoppedEarly => \A s \in Stoppers : todo[s] = <<>>

\* How many of the child's events have been sent or dropped.
Copied == IF Holds("forwarder") THEN forwarded - 1 ELSE forwarded

Notable(e) == e.kind = "output" \/ IsExit(e)

\* Every output and every exit that was sent is one the forwarder is done
\* with, or the exit of a launch that failed.
OrderInv ==
    /\ sent \in Seq(Events)
    /\ ~StoppedEarly =>
          /\ InOrder(sent)
          /\ \A i \in DOMAIN sent : Notable(sent[i]) =>
                \/ \E k \in 1..Copied : sent[i] = childSent[k]
                \/ /\ LaunchFailed /\ IsExit(sent[i])
                   /\ \A c \in Closers : ~Holds(c)

\* An event added at the end of a feed is in order when it is after all of it.
LEMMA InOrderAppend ==
    ASSUME NEW feed \in Seq(Events), NEW e, InOrder(feed),
           \A i \in DOMAIN feed : Later(feed[i], e) /\ ~(IsExit(feed[i]) /\ IsExit(e))
    PROVE  InOrder(Append(feed, e))
<1> DEFINE new == Append(feed, e)
<1>1. /\ DOMAIN new = 1..Len(feed) + 1 /\ DOMAIN feed = 1..Len(feed) /\ Len(feed) \in Nat
      /\ new[Len(feed) + 1] = e /\ \A i \in DOMAIN feed : new[i] = feed[i]
  OBVIOUS
<1> HIDE DEF new
<1> SUFFICES ASSUME NEW i \in DOMAIN new, NEW j \in DOMAIN new, i < j
             PROVE  Later(new[i], new[j]) /\ ~(IsExit(new[i]) /\ IsExit(new[j]))
  BY DEF InOrder, new
<1>2. i \in DOMAIN feed /\ new[i] = feed[i]
  BY <1>1
<1>3. CASE j \in DOMAIN feed
  BY <1>1, <1>2, <1>3 DEF InOrder
<1>4. CASE j = Len(feed) + 1
  BY <1>1, <1>2, <1>4
<1>5. QED
  BY <1>1, <1>3, <1>4

LEMMA PlainIsNoOutput ==
    ASSUME NEW kind \in Child!NoteKinds \union Child!ExitKinds
    PROVE  /\ Plain(kind) \in Events /\ Plain(kind).kind = kind /\ kind # "output"
           /\ Child!Plain(kind) = Plain(kind)
           /\ kind \in Child!NoteKinds => ~IsExit(Plain(kind))
  BY DEF Plain, Child!Plain, Child!NoteKinds, Child!ExitKinds, IsExit, Events

\* An event is an output only as a numbered chunk of a stream.
LEMMA OutputTyped ==
    ASSUME NEW e \in Events, e.kind = "output"
    PROVE  e.stream \in Streams /\ e.n \in Nat /\ ~IsExit(e)
<1>1. \A kind \in Child!NoteKinds \union Child!ExitKinds : e # Plain(kind)
  BY PlainIsNoOutput
<1>2. PICK s \in Streams, n \in Nat : e = Child!Chunk(s, n)
  BY <1>1 DEF Events
<1>3. QED
  BY <1>2 DEF Child!Chunk, IsExit, Child!ExitKinds

\* An event that is neither output nor exit is in order anywhere.
LEMMA PlainKeepsChild ==
    ASSUME StepsInv, ChildInv, NEW kind \in Child!NoteKinds \union Child!ExitKinds,
           childSent' = Append(childSent, Plain(kind)), childGiven' = childGiven,
           kind \in Child!ExitKinds => \A i \in DOMAIN childSent : ~IsExit(childSent[i])
    PROVE  ChildInv'
<1>1. childSent \in Seq(Events) /\ InOrder(childSent) /\ Plain(kind).kind # "output"
  BY PlainIsNoOutput DEF StepsInv, ChildInv
<1>2. \A i \in DOMAIN childSent :
         Later(childSent[i], Plain(kind)) /\ ~(IsExit(childSent[i]) /\ IsExit(Plain(kind)))
  BY <1>1, PlainIsNoOutput DEF Later
<1>3. InOrder(childSent')
  <2>1. InOrder(Append(childSent, Plain(kind)))
    BY <1>1, <1>2, InOrderAppend
  <2>2. QED
    BY <2>1
<1>4. \A i \in DOMAIN childSent' : childSent'[i].kind = "output" =>
         i \in DOMAIN childSent /\ childSent'[i] = childSent[i]
  BY <1>1
<1>5. QED
  BY <1>3, <1>4 DEF ChildInv

LEMMA OutputKeepsChild ==
    ASSUME StepsInv, ChildInv, NEW s \in Streams, Child!Output(s)
    PROVE  ChildInv'
<1> DEFINE e == Child!Chunk(s, childGiven[s] + 1)
<1>1. /\ childSent \in Seq(Events) /\ childGiven \in [Streams -> Nat] /\ InOrder(childSent)
      /\ \A i \in DOMAIN childSent : childSent[i] \in Events
  BY DEF StepsInv, ChildInv
<1>2. /\ childSent' = Append(childSent, e)
      /\ childGiven' = [childGiven EXCEPT ![s] = childGiven[s] + 1]
  BY DEF Child!Output, Child!Send
<1>3. e.kind = "output" /\ e.stream = s /\ e.n = childGiven[s] + 1 /\ ~IsExit(e)
  BY DEF Child!Chunk, IsExit, Child!ExitKinds
<1> HIDE DEF e
<1>4. \A i \in DOMAIN childSent : Later(childSent[i], e)
  <2> SUFFICES ASSUME NEW i \in DOMAIN childSent, childSent[i].kind = "output",
                      childSent[i].stream = s
               PROVE  childSent[i].n < e.n
    BY <1>3 DEF Later
  <2>1. childSent[i].n \in Nat /\ childSent[i].n <= childGiven[s]
    BY <1>1, OutputTyped DEF ChildInv
  <2>2. QED
    BY <1>1, <1>3, <2>1
<1>5. InOrder(childSent')
  <2>1. InOrder(Append(childSent, e))
    BY <1>1, <1>3, <1>4, InOrderAppend
  <2>2. QED
    BY <1>2, <2>1
<1>6. ASSUME NEW i \in DOMAIN childSent', childSent'[i].kind = "output"
      PROVE  childSent'[i].n <= childGiven'[childSent'[i].stream]
  <2>1. CASE i \in DOMAIN childSent
    <3>1. childSent'[i] = childSent[i] /\ childSent[i].kind = "output"
      BY <1>1, <1>2, <1>6, <2>1
    <3>2. /\ childSent[i].stream \in Streams /\ childSent[i].n \in Nat
          /\ childSent[i].n <= childGiven[childSent[i].stream]
      BY <1>1, <2>1, <3>1, OutputTyped DEF ChildInv
    <3>3. childGiven[childSent[i].stream] <= childGiven'[childSent[i].stream]
      BY <1>1, <1>2, <3>2
    <3>4. QED
      BY <1>1, <1>2, <3>1, <3>2, <3>3
  <2>2. CASE i = Len(childSent) + 1
    <3>1. childSent'[i] = e
      BY <1>1, <1>2, <2>2
    <3>2. childGiven'[s] = childGiven[s] + 1 /\ childGiven[s] \in Nat
      BY <1>1, <1>2
    <3>3. QED
      BY <1>3, <3>1, <3>2
  <2>3. QED
    BY <1>1, <1>2, <1>6, <2>1, <2>2
<1>7. QED
  BY <1>5, <1>6 DEF ChildInv

LEMMA ChildStepKeeps ==
    ASSUME StepsInv, ChildInv, ChildStep
    PROVE  ChildInv'
<1>1. CASE Child!Note("signalled")
  <2>1. "signalled" \in Child!NoteKinds \ Child!ExitKinds
    BY DEF Child!NoteKinds, Child!ExitKinds
  <2>2. childSent' = Append(childSent, Plain("signalled")) /\ childGiven' = childGiven
    BY <1>1, <2>1, PlainIsNoOutput DEF Child!Note, Child!Send
  <2>3. QED
    BY <2>1, <2>2, PlainKeepsChild
<1>2. CASE Child!Close
  BY <1>2 DEF Child!Close, ChildInv
<1>3. ASSUME NEW kind \in Child!ExitKinds, Child!Exit(kind) PROVE ChildInv'
  <2>1. childSent' = Append(childSent, Plain(kind)) /\ childGiven' = childGiven
    BY <1>3, PlainIsNoOutput DEF Child!Exit, Child!Send
  <2>2. \A i \in DOMAIN childSent : ~IsExit(childSent[i])
    BY <1>3 DEF Child!Exit, Child!Exited, IsExit, StepsInv
  <2>3. QED
    BY <2>1, <2>2, PlainKeepsChild
<1>4. QED
  BY <1>1, <1>2, <1>3, OutputKeepsChild DEF ChildStep

LEMMA ChildInvStep == StepsInv /\ PromptInv /\ LaunchInv /\ ChildInv /\ [Next]_vars => ChildInv'
<1> SUFFICES ASSUME StepsInv, PromptInv, LaunchInv, ChildInv, [Next]_vars PROVE ChildInv'
  OBVIOUS
<1> USE DEF inputVars, chanVars, goVars, childVars
<1>1. ASSUME UNCHANGED <<childSent, childGiven>> PROVE ChildInv'
  BY <1>1 DEF ChildInv
<1>2. CASE ChildStep
  BY <1>2, ChildStepKeeps
<1>3. ASSUME NEW c \in Closers, StartChild(c) PROVE ChildInv'
  <2>1. "started" \in Child!NoteKinds \ Child!ExitKinds
    BY DEF Child!NoteKinds, Child!ExitKinds
  <2>2. childSent' = Append(childSent, Plain("started")) /\ childGiven' = childGiven
    BY <1>3, <2>1, PlainIsNoOutput DEF StartChild
  <2>3. QED
    BY <2>1, <2>2, PlainKeepsChild
<1>4. CASE Write \/ Forwarding \/ Draining \/ UNCHANGED vars
  BY <1>1, <1>4 DEF Write, Forwarding, Forward, ForwardEnds, Draining, DrainBegin, Receive,
                    DrainEnd, vars
<1>5. ASSUME NEW c \in Closers, CloseInput(c) \/ StartChildFails(c) \/ SetChild(c)
      PROVE  ChildInv'
  BY <1>1, <1>5 DEF CloseInput, StartChildFails, SetChild
<1>6. ASSUME NEW s \in Stoppers, StopBeforeLaunch(s) \/ StopSetsState(s) PROVE ChildInv'
  BY <1>1, <1>6 DEF StopBeforeLaunch, StopSetsState
<1>7. ASSUME NEW g \in Goroutines, Emitting(g) PROVE ChildInv'
  BY <1>1, <1>7 DEF Emitting, EmitLoad, EmitSend, TakeChannel, CloseChannel
<1>8. QED
  BY <1>2, <1>3, <1>4, <1>5, <1>6, <1>7 DEF Next, Launching

\* The child's feed only grows.
LEMMA ChildGrows ==
    ASSUME StepsInv, [Next]_vars
    PROVE  /\ Len(childSent) \in Nat /\ Len(childSent') \in Nat /\ Len(childSent') >= Len(childSent)
           /\ \A k \in 1..Len(childSent) : childSent'[k] = childSent[k]
<1> USE DEF inputVars, chanVars, goVars, childVars
<1>1. childSent \in Seq(Events) /\ Len(childSent) \in Nat
  BY DEF StepsInv
<1>2. ASSUME NEW e, childSent' = Append(childSent, e)
      PROVE  /\ Len(childSent') = Len(childSent) + 1
             /\ \A k \in 1..Len(childSent) : childSent'[k] = childSent[k]
  BY <1>1, <1>2
<1>3. childSent' = childSent \/ \E e : childSent' = Append(childSent, e)
  <2>1. CASE ChildStep
    BY <2>1 DEF ChildStep, Child!Note, Child!Close, Child!Exit, Child!Output, Child!Send
  <2>2. CASE Write \/ Forwarding \/ Draining \/ UNCHANGED vars
    BY <2>2 DEF Write, Forwarding, Forward, ForwardEnds, Draining, DrainBegin, Receive,
                DrainEnd, vars
  <2>3. ASSUME NEW c \in Closers, CloseInput(c) \/ Launching(c)
        PROVE  childSent' = childSent \/ \E e : childSent' = Append(childSent, e)
    BY <2>3 DEF CloseInput, Launching, StartChild, StartChildFails, SetChild
  <2>4. ASSUME NEW s \in Stoppers, StopBeforeLaunch(s) \/ StopSetsState(s)
        PROVE  childSent' = childSent
    BY <2>4 DEF StopBeforeLaunch, StopSetsState
  <2>5. ASSUME NEW g \in Goroutines, Emitting(g) PROVE childSent' = childSent
    BY <2>5 DEF Emitting, EmitLoad, EmitSend, TakeChannel, CloseChannel
  <2>6. QED
    BY <2>1, <2>2, <2>3, <2>4, <2>5 DEF Next
<1>4. CASE childSent' = childSent
  BY <1>1, <1>4
<1>5. CASE \E e : childSent' = Append(childSent, e)
  BY <1>1, <1>2, <1>5
<1>6. QED
  BY <1>3, <1>4, <1>5

LEMMA LaunchStep == StepsInv /\ PromptInv /\ LaunchInv /\ [Next]_vars => LaunchInv'
<1> SUFFICES ASSUME StepsInv, PromptInv, LaunchInv, [Next]_vars PROVE LaunchInv'
  OBVIOUS
<1> USE DEF inputVars, chanVars, goVars, childVars
<1>1. /\ forwarded \in Nat /\ forwarded <= Len(childSent) /\ Len(childSent) <= Len(childSent')
      /\ Len(childSent) \in Nat /\ Len(childSent') \in Nat
      /\ closer \in [Closers -> {"idle", "start", "set", "done"}]
  BY ChildGrows DEF LaunchInv, StepsInv, PromptInv
<1>2. ASSUME UNCHANGED <<agents, childSent, forwarder, forwarded>>,
             \A c \in Closers : closer'[c] = "set" => closer[c] = "set"
      PROVE  LaunchInv'
  BY <1>2 DEF LaunchInv
<1>3. CASE ChildStep
  BY <1>1, <1>3 DEF ChildStep, LaunchInv
<1>4. ASSUME NEW c \in Closers, StartChild(c) PROVE LaunchInv'
  <2>1. agents = <<>> /\ agents' = Append(agents, SubstitutePromptArgs) /\ forwarded' = forwarded
    BY <1>4 DEF StartChild, PromptInv
  <2>2. agents' # <<>>
    BY <2>1
  <2>3. QED
    BY <1>1, <2>1, <2>2 DEF LaunchInv
<1>5. ASSUME NEW c \in Closers, SetChild(c) PROVE LaunchInv'
  BY <1>5 DEF SetChild, LaunchInv
<1>6. ASSUME NEW c \in Closers, CloseInput(c) \/ StartChildFails(c) PROVE LaunchInv'
  <2>1. \A d \in Closers : closer'[d] = "set" => closer[d] = "set"
    BY <1>1, <1>6 DEF CloseInput, StartChildFails
  <2>2. QED
    BY <1>2, <1>6, <2>1 DEF CloseInput, StartChildFails
<1>7. CASE Forward
  <2>1. /\ forwarded < Len(childSent) /\ forwarded' = forwarded + 1
        /\ UNCHANGED <<agents, childSent, forwarder, closer>>
    BY <1>7 DEF Forward
  <2>2. QED
    BY <1>1, <2>1 DEF LaunchInv
<1>8. CASE ForwardEnds
  BY <1>8 DEF ForwardEnds, LaunchInv
<1>9. CASE Write \/ Draining \/ UNCHANGED vars
  BY <1>2, <1>9 DEF Write, Draining, DrainBegin, Receive, DrainEnd, vars
<1>10. ASSUME NEW s \in Stoppers, StopBeforeLaunch(s) \/ StopSetsState(s) PROVE LaunchInv'
  BY <1>2, <1>10 DEF StopBeforeLaunch, StopSetsState
<1>11. ASSUME NEW g \in Goroutines, Emitting(g) PROVE LaunchInv'
  BY <1>2, <1>11 DEF Emitting, EmitLoad, EmitSend, TakeChannel, CloseChannel
<1>12. QED
  BY <1>3, <1>4, <1>5, <1>6, <1>7, <1>8, <1>9, <1>10, <1>11 DEF Next, Launching, Forwarding

\* A launch that has failed is not tried again.
LEMMA FailedStays == PromptInv /\ LaunchFailed /\ [Next]_vars => LaunchFailed'
<1> SUFFICES ASSUME PromptInv, LaunchFailed, [Next]_vars PROVE LaunchFailed'
  OBVIOUS
<1> USE DEF inputVars, chanVars, goVars, childVars
<1>1. ASSUME UNCHANGED <<agents, closed, closer>> PROVE LaunchFailed'
  BY <1>1 DEF LaunchFailed, Launchers
<1>2. \A c \in Closers : ~CloseInput(c) /\ ~Launching(c)
  BY DEF LaunchFailed, Launchers, CloseInput, Launching, StartChild, StartChildFails, SetChild
<1>3. CASE Write \/ ChildStep \/ Forwarding \/ Draining \/ UNCHANGED vars
  BY <1>1, <1>3 DEF Write, ChildStep, Forwarding, Forward, ForwardEnds, Draining, DrainBegin,
                    Receive, DrainEnd, vars
<1>4. ASSUME NEW s \in Stoppers, StopBeforeLaunch(s) \/ StopSetsState(s) PROVE LaunchFailed'
  BY <1>1, <1>4 DEF StopBeforeLaunch, StopSetsState
<1>5. ASSUME NEW g \in Goroutines, Emitting(g) PROVE LaunchFailed'
  BY <1>1, <1>5 DEF Emitting, EmitLoad, EmitSend, TakeChannel, CloseChannel
<1>6. QED
  BY <1>2, <1>3, <1>4, <1>5 DEF Next

\* A step of emit or closeEvents brings no new event to a feeder's hands, and
\* leaves it none once the one it held is sent.
LEMMA EmittingSteps ==
    ASSUME StepsInv, NEW g \in Goroutines, Emitting(g),
           \A k \in DOMAIN todo[g] : k > 1 => todo[g][k].op \notin EmitOps
    PROVE  /\ \A k \in DOMAIN todo'[g] : k > 1 => todo'[g][k].op \notin EmitOps
           /\ Holds(g)' => /\ Holds(g) /\ Head(todo'[g]).event = Head(todo[g]).event
                           /\ sent' = sent
<1> USE DEF inputVars, chanVars, goVars, childVars
<1>1. todo[g] # <<>> /\ todo[g] \in Seq(Steps) /\ todo \in [Goroutines -> Seq(Steps)]
  BY DEF Emitting, EmitLoad, EmitSend, TakeChannel, CloseChannel, Pending, StepsInv
<1>2. CASE todo' = Rest(g)
  <2>1. todo'[g] = Tail(todo[g])
    BY <1>1, <1>2 DEF Rest
  <2>2. /\ Len(todo[g]) \in Nat /\ Len(todo[g]) > 0
        /\ DOMAIN Tail(todo[g]) = 1..(Len(todo[g]) - 1) /\ DOMAIN todo[g] = 1..Len(todo[g])
        /\ \A k \in 1..(Len(todo[g]) - 1) : Tail(todo[g])[k] = todo[g][k + 1]
    BY <1>1
  <2>3. \A k \in DOMAIN Tail(todo[g]) : Tail(todo[g])[k].op \notin EmitOps
    <3> SUFFICES ASSUME NEW k \in DOMAIN Tail(todo[g])
                 PROVE  Tail(todo[g])[k].op \notin EmitOps
      OBVIOUS
    <3>1. k \in Nat /\ k + 1 \in DOMAIN todo[g] /\ k + 1 > 1 /\ Tail(todo[g])[k] = todo[g][k + 1]
      BY <2>2
    <3>2. QED
      BY <3>1
  <2>4. ~Holds(g)'
    <3>1. CASE Tail(todo[g]) = <<>>
      BY <2>1, <3>1 DEF Holds
    <3>2. CASE Tail(todo[g]) # <<>>
      <4>1. Tail(todo[g]) \in Seq(Steps)
        BY <1>1
      <4>2. 1 \in DOMAIN Tail(todo[g]) /\ Head(Tail(todo[g])) = Tail(todo[g])[1]
        BY <3>2, <4>1
      <4>3. QED
        BY <2>1, <2>3, <4>2 DEF Holds
    <3>3. QED
      BY <3>1, <3>2
  <2>5. QED
    BY <2>1, <2>3, <2>4
<1>3. CASE EmitLoad(g) /\ todo' = Replace(g, [Head(todo[g]) EXCEPT !.op = "send"])
  <2> DEFINE step == [Head(todo[g]) EXCEPT !.op = "send"]
  <2>1. Head(todo[g]) \in Steps /\ Head(todo[g]).op = "emit"
    BY <1>1, <1>3 DEF EmitLoad, Pending
  <2>2. step \in Steps /\ step.op = "send" /\ step.event = Head(todo[g]).event
    BY <2>1 DEF Steps
  <2>3. todo' = Replace(g, step) /\ sent' = sent
    BY <1>3 DEF EmitLoad
  <2> HIDE DEF step
  <2>4. /\ Head(todo'[g]) = step
        /\ \A k \in DOMAIN todo'[g] : k > 1 => k \in DOMAIN todo[g] /\ todo'[g][k] = todo[g][k]
    BY <1>1, <2>2, <2>3, ReplaceKeepsRest
  <2>5. Holds(g)
    BY <1>1, <2>1 DEF Holds, EmitOps
  <2>6. QED
    BY <2>2, <2>3, <2>4, <2>5
<1>4. CASE TakeChannel(g) /\ todo' = Replace(g, [op |-> "close"])
  <2>1. [op |-> "close"] \in Steps
    BY DEF Steps
  <2>2. /\ Head(todo'[g]) = [op |-> "close"]
        /\ \A k \in DOMAIN todo'[g] : k > 1 => k \in DOMAIN todo[g] /\ todo'[g][k] = todo[g][k]
    BY <1>1, <1>4, <2>1, ReplaceKeepsRest
  <2>3. ~Holds(g)'
    BY <2>2 DEF Holds, EmitOps
  <2>4. QED
    BY <2>2, <2>3
<1>5. QED
  BY <1>2, <1>3, <1>4 DEF Emitting, EmitLoad, EmitSend, TakeChannel, CloseChannel

\* Emit and closeEvents change the steps of their own goroutine alone.
LEMMA EmittingFrame ==
    ASSUME StepsInv, NEW g \in Goroutines, Emitting(g)
    PROVE  /\ todo[g] # <<>> /\ \A h \in Goroutines \ {g} : todo'[h] = todo[h]
           /\ UNCHANGED <<inputVars, taken, closer, stopper, forwarder, childVars>>
<1> USE DEF inputVars, chanVars, goVars, childVars
<1>1. todo[g] # <<>> /\ todo \in [Goroutines -> Seq(Steps)]
  BY DEF Emitting, EmitLoad, EmitSend, TakeChannel, CloseChannel, Pending, StepsInv
<1>2. \E steps : todo' = [todo EXCEPT ![g] = steps]
  BY DEF Emitting, EmitLoad, EmitSend, TakeChannel, CloseChannel, Rest, Replace
<1>3. \A h \in Goroutines \ {g} : todo'[h] = todo[h]
  BY <1>1, <1>2
<1>4. QED
  BY <1>1, <1>3 DEF Emitting, EmitLoad, EmitSend, TakeChannel, CloseChannel

\* A runtime that was stopped before its launch stays so.
LEMMA EarlyStays == HeldInv /\ [Next]_vars =>
    /\ stopper' \in [Stoppers -> {"idle", "state", "done"}]
    /\ ~StoppedEarly' =>
          /\ ~StoppedEarly
          /\ \A s \in Stoppers : ~StopBeforeLaunch(s) /\ ~StopSetsState(s)
<1> SUFFICES ASSUME HeldInv, [Next]_vars
             PROVE  /\ stopper' \in [Stoppers -> {"idle", "state", "done"}]
                    /\ ~StoppedEarly' =>
                          /\ ~StoppedEarly
                          /\ \A s \in Stoppers : ~StopBeforeLaunch(s) /\ ~StopSetsState(s)
  OBVIOUS
<1> USE DEF inputVars, chanVars, goVars, childVars
<1>1. stopper \in [Stoppers -> {"idle", "state", "done"}]
  BY DEF HeldInv
<1>2. CASE \E s \in Stoppers : StopBeforeLaunch(s) \/ StopSetsState(s)
  <2>1. PICK s \in Stoppers : StopBeforeLaunch(s) \/ StopSetsState(s)
    BY <1>2
  <2>2. stopper' \in [Stoppers -> {"idle", "state", "done"}] /\ stopper'[s] # "idle"
    BY <1>1, <2>1 DEF StopBeforeLaunch, StopSetsState
  <2>3. QED
    BY <2>2 DEF StoppedEarly
<1>3. CASE stopper' = stopper /\ ~\E s \in Stoppers : StopBeforeLaunch(s) \/ StopSetsState(s)
  BY <1>1, <1>3 DEF StoppedEarly
<1>4. CASE Write \/ ChildStep \/ Forwarding \/ Draining \/ UNCHANGED vars
  <2>1. stopper' = stopper
    BY <1>4 DEF Write, ChildStep, Forwarding, Forward, ForwardEnds, Draining, DrainBegin,
                Receive, DrainEnd, vars
  <2>2. QED
    BY <1>2, <1>3, <2>1
<1>5. ASSUME NEW c \in Closers, CloseInput(c) \/ Launching(c) PROVE stopper' = stopper
  BY <1>5 DEF CloseInput, Launching, StartChild, StartChildFails, SetChild
<1>6. ASSUME NEW g \in Goroutines, Emitting(g) PROVE stopper' = stopper
  BY <1>6 DEF Emitting, EmitLoad, EmitSend, TakeChannel, CloseChannel
<1>7. QED
  BY <1>2, <1>3, <1>4, <1>5, <1>6 DEF Next

LEMMA HeldStep ==
    StepsInv /\ PromptInv /\ LaunchInv /\ HeldInv /\ [Next]_vars => HeldInv'
<1> SUFFICES ASSUME StepsInv, PromptInv, LaunchInv, HeldInv, [Next]_vars PROVE HeldInv'
  OBVIOUS
<1> USE DEF inputVars, chanVars, goVars, childVars
<1>1. /\ Feeders \subseteq Goroutines /\ Stoppers \subseteq Goroutines
      /\ Closers \subseteq Feeders /\ "forwarder" \in Feeders /\ "forwarder" \notin Closers
      /\ \A s \in Stoppers : s \notin Feeders
  BY GoroutinesAssumption DEF Goroutines, Feeders
<1>2. /\ stopper' \in [Stoppers -> {"idle", "state", "done"}]
      /\ ~StoppedEarly' =>
            /\ ~StoppedEarly
            /\ \A s \in Stoppers : ~StopBeforeLaunch(s) /\ ~StopSetsState(s)
  BY EarlyStays
<1>3. /\ forwarded \in Nat /\ forwarded <= Len(childSent) /\ Len(childSent) \in Nat
      /\ \A k \in 1..Len(childSent) : childSent'[k] = childSent[k]
  BY ChildGrows DEF StepsInv, LaunchInv
<1>4. LaunchFailed => LaunchFailed'
  BY FailedStays
<1>5. /\ todo \in [Goroutines -> Seq(Steps)]
      /\ closer \in [Closers -> {"idle", "start", "set", "done"}]
  BY DEF StepsInv, PromptInv
\* A goroutine is given steps.
<1>6. ASSUME NEW g \in Goroutines, NEW steps, todo' = [todo EXCEPT ![g] = steps]
      PROVE  todo'[g] = steps /\ \A h \in Goroutines : h # g => todo'[h] = todo[h]
  <2>1. todo \in [Goroutines -> Seq(Steps)]
    BY <1>5
  <2>2. QED
    BY <1>6, <2>1
\* The feeders keep their steps.
<1>7. ASSUME \A g \in Feeders : todo'[g] = todo[g], forwarded' = forwarded,
             ~StoppedEarly' => \A s \in Stoppers : todo'[s] = todo[s]
      PROVE  HeldInv'
  <2>1. \A g \in Feeders : Holds(g)' <=> Holds(g)
    BY <1>7 DEF Holds
  <2>2. Holds("forwarder")' =>
          forwarded' > 0 /\ Head(todo'["forwarder"]).event = childSent'[forwarded']
    <3> SUFFICES ASSUME Holds("forwarder")'
                 PROVE  forwarded > 0 /\ Head(todo'["forwarder"]).event = childSent'[forwarded]
      BY <1>7
    <3>1. forwarded > 0 /\ Head(todo["forwarder"]).event = childSent[forwarded]
      BY <1>1, <2>1 DEF HeldInv
    <3>2. childSent'[forwarded] = childSent[forwarded]
      BY <1>3, <3>1
    <3>3. QED
      BY <1>1, <1>7, <3>1, <3>2
  <2>3. ~StoppedEarly' => \A s \in Stoppers : todo'[s] = <<>>
    BY <1>2, <1>7 DEF HeldInv
  <2>4. /\ \A c \in Closers : Holds(c)' => Head(todo'[c]).event = Plain("exit_errored")
        /\ \A c \in Closers : todo'[c] # <<>> => LaunchFailed'
        /\ \A c, d \in Closers : todo'[c] # <<>> /\ todo'[d] # <<>> => c = d
    BY <1>1, <1>4, <1>7, <2>1 DEF HeldInv
  <2>5. \A g \in Feeders : \A k \in DOMAIN todo'[g] : k > 1 => todo'[g][k].op \notin EmitOps
    BY <1>7 DEF HeldInv
  <2>6. QED
    BY <1>2, <2>2, <2>3, <2>4, <2>5 DEF HeldInv
<1>8. CASE Write \/ ChildStep \/ Draining \/ UNCHANGED vars
  <2>1. UNCHANGED <<todo, forwarded>>
    BY <1>8 DEF Write, ChildStep, Draining, DrainBegin, Receive, DrainEnd, vars
  <2>2. QED
    BY <1>7, <2>1
<1>9. ASSUME NEW c \in Closers, CloseInput(c) \/ StartChild(c) \/ SetChild(c) PROVE HeldInv'
  <2>1. UNCHANGED <<todo, forwarded>>
    BY <1>9 DEF CloseInput, StartChild, SetChild
  <2>2. QED
    BY <1>7, <2>1
<1>10. ASSUME NEW s \in Stoppers, StopBeforeLaunch(s) PROVE HeldInv'
  <2>1. UNCHANGED <<todo, forwarded>>
    BY <1>10 DEF StopBeforeLaunch
  <2>2. QED
    BY <1>7, <2>1
<1>11. ASSUME NEW s \in Stoppers, StopSetsState(s) PROVE HeldInv'
  <2>1. \A g \in Feeders : todo'[g] = todo[g]
    BY <1>1, <1>5, <1>11 DEF StopSetsState
  <2>2. forwarded' = forwarded /\ StoppedEarly'
    BY <1>2, <1>11 DEF StopSetsState
  <2>3. QED
    BY <1>7, <2>1, <2>2
<1>12. CASE Forward
  <2>1. /\ forwarded < Len(childSent) /\ forwarded' = forwarded + 1 /\ childSent' = childSent
        /\ todo' = [todo EXCEPT !["forwarder"] = <<EmitStep(childSent[forwarded + 1])>>]
        /\ UNCHANGED stopper
    BY <1>12 DEF Forward
  <2>2. /\ todo'["forwarder"] = <<EmitStep(childSent[forwarded + 1])>>
        /\ \A g \in Goroutines : g # "forwarder" => todo'[g] = todo[g]
    BY <1>1, <1>6, <2>1
  <2>3. \A c \in Closers : Holds(c)' <=> Holds(c)
    BY <1>1, <2>2 DEF Holds
  <2>4. /\ forwarded' > 0 /\ Head(todo'["forwarder"]).event = childSent'[forwarded']
        /\ \A k \in DOMAIN todo'["forwarder"] : ~(k > 1)
    BY <1>3, <2>1, <2>2 DEF EmitStep
  <2>5. /\ \A c \in Closers : Holds(c)' => Head(todo'[c]).event = Plain("exit_errored")
        /\ \A c \in Closers : todo'[c] # <<>> => LaunchFailed'
        /\ \A c, d \in Closers : todo'[c] # <<>> /\ todo'[d] # <<>> => c = d
    BY <1>1, <1>4, <2>2, <2>3 DEF HeldInv
  <2>6. \A g \in Feeders : \A k \in DOMAIN todo'[g] : k > 1 => todo'[g][k].op \notin EmitOps
    BY <1>1, <2>2, <2>4 DEF HeldInv
  <2>7. ~StoppedEarly' => \A s \in Stoppers : todo'[s] = <<>>
    BY <1>1, <1>2, <2>2 DEF HeldInv
  <2>8. QED
    BY <1>2, <2>4, <2>5, <2>6, <2>7 DEF HeldInv
<1>13. CASE ForwardEnds
  <2>1. /\ todo' = [todo EXCEPT !["forwarder"] = <<CloseStep>>] /\ UNCHANGED stopper
    BY <1>13 DEF ForwardEnds
  <2>2. /\ todo'["forwarder"] = <<CloseStep>>
        /\ \A g \in Goroutines : g # "forwarder" => todo'[g] = todo[g]
    BY <1>1, <1>6, <2>1
  <2>3. \A c \in Closers : Holds(c)' <=> Holds(c)
    BY <1>1, <2>2 DEF Holds
  <2>4. ~Holds("forwarder")' /\ \A k \in DOMAIN todo'["forwarder"] : ~(k > 1)
    BY <2>2 DEF Holds, CloseStep, EmitOps
  <2>5. /\ \A c \in Closers : Holds(c)' => Head(todo'[c]).event = Plain("exit_errored")
        /\ \A c \in Closers : todo'[c] # <<>> => LaunchFailed'
        /\ \A c, d \in Closers : todo'[c] # <<>> /\ todo'[d] # <<>> => c = d
    BY <1>1, <1>4, <2>2, <2>3 DEF HeldInv
  <2>6. \A g \in Feeders : \A k \in DOMAIN todo'[g] : k > 1 => todo'[g][k].op \notin EmitOps
    BY <1>1, <2>2, <2>4 DEF HeldInv
  <2>7. ~StoppedEarly' => \A s \in Stoppers : todo'[s] = <<>>
    BY <1>1, <1>2, <2>2 DEF HeldInv
  <2>8. QED
    BY <1>2, <2>4, <2>5, <2>6, <2>7 DEF HeldInv
<1>14. ASSUME NEW c \in Closers, StartChildFails(c) PROVE HeldInv'
  <2> DEFINE steps == <<EmitStep(Plain("exit_errored")), CloseStep>>
  <2>1. /\ closer[c] = "start" /\ closer' = [closer EXCEPT ![c] = "done"]
        /\ todo' = [todo EXCEPT ![c] = steps]
        /\ UNCHANGED <<agents, closed, forwarded, childSent, stopper>>
    BY <1>14 DEF StartChildFails
  <2>2. c \in Launchers /\ agents = <<>> /\ closed
    BY <2>1 DEF Launchers, PromptInv
  <2>3. \A d \in Closers : todo[d] = <<>>
    BY <2>2 DEF HeldInv, LaunchFailed
  <2>4. LaunchFailed'
    <3>1. \A d \in Closers : d # c => d \notin Launchers
      BY <2>2 DEF PromptInv
    <3>2. Launchers' = {}
      BY <1>5, <2>1, <3>1 DEF Launchers
    <3>3. QED
      BY <2>1, <2>2, <3>2 DEF LaunchFailed
  <2>5. /\ Head(steps).event = Plain("exit_errored") /\ DOMAIN steps = 1..2
        /\ \A k \in DOMAIN steps : k > 1 => steps[k].op \notin EmitOps
    BY DEF EmitStep, CloseStep, EmitOps
  <2> HIDE DEF steps
  <2>6. todo'[c] = steps /\ \A g \in Goroutines : g # c => todo'[g] = todo[g]
    BY <1>1, <1>6, <2>1
  <2>7. /\ \A d \in Closers : Holds(d)' => Head(todo'[d]).event = Plain("exit_errored")
        /\ \A d \in Closers : todo'[d] # <<>> => LaunchFailed'
        /\ \A d, e \in Closers : todo'[d] # <<>> /\ todo'[e] # <<>> => d = e
    <3>1. \A d \in Closers : todo'[d] # <<>> => d = c
      BY <1>1, <2>3, <2>6
    <3>2. QED
      BY <2>4, <2>5, <2>6, <3>1 DEF Holds
  <2>8. \A g \in Feeders : \A k \in DOMAIN todo'[g] : k > 1 => todo'[g][k].op \notin EmitOps
    BY <1>1, <2>5, <2>6 DEF HeldInv
  <2>9. ~StoppedEarly' => \A s \in Stoppers : todo'[s] = <<>>
    BY <1>1, <1>2, <2>6 DEF HeldInv
  <2>10. Holds("forwarder")' =>
           forwarded' > 0 /\ Head(todo'["forwarder"]).event = childSent'[forwarded']
    <3>1. todo'["forwarder"] = todo["forwarder"]
      BY <1>1, <2>6
    <3>2. QED
      BY <2>1, <3>1 DEF HeldInv, Holds
  <2>11. QED
    BY <1>2, <2>7, <2>8, <2>9, <2>10 DEF HeldInv
<1>15. ASSUME NEW g \in Goroutines, Emitting(g) PROVE HeldInv'
  <2>1. /\ todo[g] # <<>> /\ \A h \in Goroutines \ {g} : todo'[h] = todo[h]
        /\ UNCHANGED <<stopper, forwarded, childSent>>
    BY <1>15, EmittingFrame
  <2>2. CASE g \in Stoppers
    <3>1. StoppedEarly'
      BY <1>2, <2>1, <2>2 DEF HeldInv
    <3>2. \A h \in Feeders : todo'[h] = todo[h]
      BY <1>1, <2>1, <2>2
    <3>3. QED
      BY <1>7, <2>1, <3>1, <3>2
  <2>3. CASE g \in Feeders
    <3>1. /\ \A k \in DOMAIN todo'[g] : k > 1 => todo'[g][k].op \notin EmitOps
          /\ Holds(g)' => Holds(g) /\ Head(todo'[g]).event = Head(todo[g]).event
      BY <1>15, <2>3, EmittingSteps DEF HeldInv
    <3>2. \A h \in Feeders : Holds(h)' => Holds(h) /\ Head(todo'[h]).event = Head(todo[h]).event
      BY <1>1, <2>1, <3>1 DEF Holds
    <3>3. \A h \in Feeders : todo'[h] # <<>> => todo[h] # <<>>
      BY <1>1, <2>1
    <3>4. /\ \A c \in Closers : Holds(c)' => Head(todo'[c]).event = Plain("exit_errored")
          /\ \A c \in Closers : todo'[c] # <<>> => LaunchFailed'
          /\ \A c, d \in Closers : todo'[c] # <<>> /\ todo'[d] # <<>> => c = d
      BY <1>1, <1>4, <3>2, <3>3 DEF HeldInv
    <3>5. Holds("forwarder")' =>
            forwarded' > 0 /\ Head(todo'["forwarder"]).event = childSent'[forwarded']
      BY <1>1, <2>1, <3>2 DEF HeldInv
    <3>6. \A h \in Feeders : \A k \in DOMAIN todo'[h] : k > 1 => todo'[h][k].op \notin EmitOps
      BY <1>1, <2>1, <3>1 DEF HeldInv
    <3>7. ~StoppedEarly' => \A s \in Stoppers : todo'[s] = <<>>
      BY <1>1, <1>2, <2>1, <2>3 DEF HeldInv
    <3>8. QED
      BY <1>2, <3>4, <3>5, <3>6, <3>7 DEF HeldInv
  <2>4. QED
    BY <2>2, <2>3 DEF Goroutines, Feeders
<1>16. QED
  BY <1>8, <1>9, <1>10, <1>11, <1>12, <1>13, <1>14, <1>15 DEF Next, Launching, Forwarding

\* The two ways an output or an exit has come to be sent.
Copy(e) == \E k \in 1..Copied : e = childSent[k]
Failure(e) == LaunchFailed /\ IsExit(e) /\ \A c \in Closers : ~Holds(c)

\* The forwarder never goes back, and a failed launch is reported once.
LEMMA OriginsStay ==
    ASSUME StepsInv, PromptInv, LaunchInv, HeldInv, [Next]_vars
    PROVE  /\ Copied \in Int /\ Copied' \in Int /\ Copied <= Copied'
           /\ Copied <= Len(childSent)
           /\ LaunchFailed => \A c \in Closers : Holds(c)' => Holds(c)
<1> USE DEF inputVars, chanVars, goVars, childVars
<1>1. /\ Feeders \subseteq Goroutines /\ Closers \subseteq Feeders /\ "forwarder" \in Feeders
      /\ \A s \in Stoppers : s \in Goroutines /\ s \notin Feeders
      /\ "forwarder" \notin Closers
  BY GoroutinesAssumption DEF Goroutines, Feeders
<1>2. /\ forwarded \in Nat /\ forwarded <= Len(childSent) /\ Len(childSent) \in Nat
      /\ todo \in [Goroutines -> Seq(Steps)]
  BY DEF StepsInv, LaunchInv
<1>3. Copied \in Int /\ Copied <= Len(childSent) /\ Copied <= forwarded
  BY <1>2 DEF Copied
<1> DEFINE Goal == /\ Copied' \in Int /\ Copied <= Copied'
                   /\ LaunchFailed => \A c \in Closers : Holds(c)' => Holds(c)
<1>4. ASSUME forwarded' = forwarded,
             \A g \in Feeders : Holds(g)' => Holds(g)
      PROVE  Goal
  BY <1>1, <1>2, <1>4 DEF Copied
<1> HIDE DEF Goal
<1>5. ASSUME forwarded' = forwarded, \A g \in Feeders : todo'[g] = todo[g] PROVE Goal
  <2>1. \A g \in Feeders : Holds(g)' => Holds(g)
    BY <1>5 DEF Holds
  <2>2. QED
    BY <1>4, <1>5, <2>1
<1>6. ASSUME Write \/ ChildStep \/ Draining \/ UNCHANGED vars PROVE Goal
  <2>1. UNCHANGED <<todo, forwarded>>
    BY <1>6 DEF Write, ChildStep, Draining, DrainBegin, Receive, DrainEnd, vars
  <2>2. QED
    BY <1>5, <2>1
<1>7. ASSUME NEW c \in Closers, CloseInput(c) \/ StartChild(c) \/ SetChild(c) PROVE Goal
  <2>1. UNCHANGED <<todo, forwarded>>
    BY <1>7 DEF CloseInput, StartChild, SetChild
  <2>2. QED
    BY <1>5, <2>1
<1>8. ASSUME NEW c \in Closers, StartChildFails(c) PROVE Goal
  <2>1. /\ c \in Launchers /\ forwarded' = forwarded
        /\ \E steps : todo' = [todo EXCEPT ![c] = steps]
    BY <1>8 DEF StartChildFails, Launchers
  <2>2. ~LaunchFailed
    BY <2>1 DEF LaunchFailed
  <2>3. todo'["forwarder"] = todo["forwarder"]
    BY <1>1, <1>2, <2>1
  <2>4. Copied' = Copied
    BY <2>1, <2>3 DEF Copied, Holds
  <2>5. QED
    BY <1>3, <2>2, <2>4 DEF Goal
<1>9. ASSUME NEW s \in Stoppers, StopBeforeLaunch(s) \/ StopSetsState(s) PROVE Goal
  <2>1. forwarded' = forwarded
    BY <1>9 DEF StopBeforeLaunch, StopSetsState
  <2>2. todo' = todo \/ \E steps : todo' = [todo EXCEPT ![s] = steps]
    BY <1>9 DEF StopBeforeLaunch, StopSetsState
  <2>3. \A g \in Feeders : todo'[g] = todo[g]
    BY <1>1, <1>2, <2>2
  <2>4. QED
    BY <1>5, <2>1, <2>3
<1>10. ASSUME Forward \/ ForwardEnds PROVE Goal
  <2>1. /\ todo["forwarder"] = <<>> /\ forwarded' \in {forwarded, forwarded + 1}
        /\ \E steps : todo' = [todo EXCEPT !["forwarder"] = steps]
    BY <1>10 DEF Forward, ForwardEnds
  <2>2. \A c \in Closers : todo'[c] = todo[c]
    BY <1>1, <1>2, <2>1
  <2>3. \A c \in Closers : Holds(c)' => Holds(c)
    BY <2>2 DEF Holds
  <2>4. Copied = forwarded
    BY <2>1 DEF Copied, Holds
  <2>5. Copied' \in Int /\ Copied' >= forwarded
    <3>1. CASE Forward
      BY <1>2, <3>1 DEF Copied, Forward
    <3>2. CASE ForwardEnds
      <4>1. todo'["forwarder"] = <<CloseStep>> /\ forwarded' = forwarded
        BY <1>1, <1>2, <3>2 DEF ForwardEnds
      <4>2. ~Holds("forwarder")'
        BY <4>1 DEF Holds, CloseStep, EmitOps
      <4>3. QED
        BY <1>2, <4>1, <4>2 DEF Copied
    <3>3. QED
      BY <1>10, <3>1, <3>2
  <2>6. Copied <= Copied'
    BY <2>4, <2>5
  <2>7. QED
    BY <2>3, <2>5, <2>6 DEF Goal
<1>11. ASSUME NEW g \in Goroutines, Emitting(g) PROVE Goal
  <2>1. /\ \A h \in Goroutines \ {g} : todo'[h] = todo[h]
        /\ forwarded' = forwarded
    BY <1>11, EmittingFrame
  <2>2. CASE g \in Feeders
    <3>1. Holds(g)' => Holds(g)
      BY <1>11, <2>2, EmittingSteps DEF HeldInv
    <3>2. \A h \in Feeders : Holds(h)' => Holds(h)
      BY <1>1, <2>1, <3>1 DEF Holds
    <3>3. QED
      BY <1>4, <2>1, <3>2
  <2>3. CASE g \notin Feeders
    BY <1>1, <1>5, <2>1, <2>3
  <2>4. QED
    BY <2>2, <2>3
<1>12. Goal
  BY <1>6, <1>7, <1>8, <1>9, <1>10, <1>11 DEF Next, Launching, Forwarding
<1>13. QED
  BY <1>3, <1>12 DEF Goal

LEMMA OriginKept ==
    ASSUME StepsInv, PromptInv, LaunchInv, HeldInv, [Next]_vars, NEW e,
           Copy(e) \/ Failure(e)
    PROVE  Copy(e)' \/ Failure(e)'
<1>1. /\ Copied \in Int /\ Copied' \in Int /\ Copied <= Copied' /\ Copied <= Len(childSent)
      /\ LaunchFailed => \A c \in Closers : Holds(c)' => Holds(c)
  BY OriginsStay
<1>2. CASE Copy(e)
  <2>1. PICK k \in 1..Copied : e = childSent[k]
    BY <1>2 DEF Copy
  <2>2. k \in 1..Len(childSent) /\ k \in 1..Copied'
    BY <1>1, ChildGrows
  <2>3. childSent'[k] = childSent[k]
    BY <2>2, ChildGrows
  <2>4. QED
    BY <2>1, <2>2, <2>3 DEF Copy
<1>3. CASE Failure(e)
  <2>1. LaunchFailed'
    BY <1>3, FailedStays DEF Failure
  <2>2. QED
    BY <1>1, <1>3, <2>1 DEF Failure
<1>4. QED
  BY <1>2, <1>3

\* What a feeder sends comes after all that was sent before.
LEMMA SendKeepsOrder ==
    ASSUME StepsInv, PromptInv, LaunchInv, ChildInv, HeldInv, OrderInv, ~StoppedEarly,
           NEW g \in Feeders, Holds(g)
    PROVE  LET e == Head(todo[g]).event
           IN  \A i \in DOMAIN sent : Later(sent[i], e) /\ ~(IsExit(sent[i]) /\ IsExit(e))
<1> DEFINE e == Head(todo[g]).event
<1>1. \A i \in DOMAIN sent : Notable(sent[i]) => Copy(sent[i]) \/ Failure(sent[i])
  BY DEF OrderInv, Copy, Failure
<1>2. forwarded \in Nat /\ forwarded <= Len(childSent) /\ childSent \in Seq(Events)
  BY DEF StepsInv, LaunchInv
<1>3. CASE g \in Closers
  <2>1. LaunchFailed
    BY <1>3 DEF HeldInv, Holds
  <2>2. forwarded = 0
    BY <1>2, <2>1 DEF LaunchFailed, LaunchInv
  <2>3. \A f : ~Copy(f) /\ ~Failure(f)
    BY <1>3, <2>2 DEF Copy, Failure, Copied
  <2>4. \A i \in DOMAIN sent : ~Notable(sent[i])
    BY <1>1, <2>3
  <2>5. QED
    BY <2>4 DEF Notable, Later
<1>4. CASE g = "forwarder"
  <2>1. forwarded > 0 /\ e = childSent[forwarded] /\ Copied = forwarded - 1
    BY <1>4 DEF HeldInv, Copied
  <2>2. ~LaunchFailed
    BY <1>2, <2>1 DEF LaunchFailed, LaunchInv
  <2>3. ASSUME NEW i \in DOMAIN sent, Notable(sent[i])
        PROVE  Later(sent[i], e) /\ ~(IsExit(sent[i]) /\ IsExit(e))
    <3>1. PICK k \in 1..Copied : sent[i] = childSent[k]
      BY <1>1, <2>2, <2>3 DEF Copy, Failure
    <3>2. k \in DOMAIN childSent /\ forwarded \in DOMAIN childSent /\ k < forwarded
      BY <1>2, <2>1
    <3>3. QED
      BY <2>1, <3>1, <3>2 DEF ChildInv, InOrder
  <2>4. QED
    BY <2>3 DEF Notable, Later
<1>5. QED
  BY <1>3, <1>4 DEF Feeders

\* What a feeder has sent is accounted for.
LEMMA SentHasOrigin ==
    ASSUME StepsInv, PromptInv, LaunchInv, HeldInv, [Next]_vars,
           NEW g \in Feeders, Holds(g), Emitting(g), sent' # sent,
           NEW e, e = Head(todo[g]).event
    PROVE  Copy(e)' \/ Failure(e)'
<1>1. g \in Goroutines
  BY DEF Feeders, Goroutines
<1>2. ~Holds(g)'
  BY <1>1, EmittingSteps DEF HeldInv
<1>3. /\ \A h \in Goroutines \ {g} : todo'[h] = todo[h]
      /\ forwarded' = forwarded /\ childSent' = childSent
  BY <1>1, EmittingFrame DEF childVars
<1>4. CASE g \in Closers
  <2>1. LaunchFailed' /\ e = Plain("exit_errored")
    BY <1>4, FailedStays DEF HeldInv, Holds
  <2>2. \A c \in Closers : ~Holds(c)'
    <3>1. \A c \in Closers : c # g => todo[c] = <<>>
      BY <1>4 DEF HeldInv, Holds
    <3>2. \A c \in Closers : c # g => todo'[c] = <<>>
      BY <1>3, <3>1 DEF Goroutines
    <3>3. QED
      BY <1>2, <3>2 DEF Holds
  <2>3. IsExit(e)
    BY <2>1 DEF IsExit, Plain, Child!ExitKinds
  <2>4. Failure(e)'
    BY <2>1, <2>2, <2>3 DEF Failure
  <2>5. QED
    BY <2>4
<1>5. CASE g = "forwarder"
  <2>1. forwarded > 0 /\ e = childSent[forwarded] /\ forwarded \in Nat
    BY <1>5 DEF HeldInv, StepsInv
  <2>2. Copied' = forwarded
    BY <1>2, <1>3, <1>5 DEF Copied
  <2>3. forwarded \in 1..Copied' /\ e = childSent'[forwarded]
    BY <1>3, <2>1, <2>2
  <2>4. Copy(e)'
    BY <2>3 DEF Copy
  <2>5. QED
    BY <2>4
<1>6. QED
  BY <1>4, <1>5 DEF Feeders

LEMMA OrderStep ==
    StepsInv /\ PromptInv /\ LaunchInv /\ ChildInv /\ HeldInv /\ OrderInv /\ [Next]_vars
        => OrderInv'
<1> SUFFICES ASSUME StepsInv, PromptInv, LaunchInv, ChildInv, HeldInv, OrderInv, [Next]_vars
             PROVE  OrderInv'
  OBVIOUS
<1> USE DEF inputVars, chanVars, goVars, childVars
<1>1. sent \in Seq(Events) /\ (~StoppedEarly' => ~StoppedEarly)
  BY EarlyStays DEF OrderInv
<1>2. ASSUME ~StoppedEarly', NEW i \in DOMAIN sent, NEW e, e = sent[i], Notable(e)
      PROVE  Copy(e)' \/ Failure(e)'
  <2>1. Copy(e) \/ Failure(e)
    BY <1>1, <1>2 DEF OrderInv, Copy, Failure
  <2>2. QED
    BY <2>1, OriginKept
<1>3. ASSUME sent' = sent PROVE OrderInv'
  <2>1. ~StoppedEarly' => InOrder(sent')
    BY <1>1, <1>3 DEF OrderInv
  <2>2. ASSUME ~StoppedEarly', NEW i \in DOMAIN sent', Notable(sent'[i])
        PROVE  (\E k \in 1..Copied' : sent'[i] = childSent'[k])
                  \/ (/\ LaunchFailed' /\ IsExit(sent'[i]) /\ \A c \in Closers : ~Holds(c)')
    BY <1>2, <1>3, <2>2 DEF Copy, Failure
  <2>3. QED
    BY <1>1, <1>3, <2>1, <2>2 DEF OrderInv
<1>4. ASSUME NEW g \in Goroutines, EmitSend(g), sent' # sent PROVE OrderInv'
  <2>1. PICK e : e = Head(todo[g]).event
    OBVIOUS
  <2>2. /\ sent' = Append(sent, e) /\ todo[g] # <<>> /\ Head(todo[g]).op = "send"
    BY <1>4, <2>1 DEF EmitSend, Pending
  <2>3. e \in Events
    <3>1. todo[g] \in Seq(Steps)
      BY DEF StepsInv
    <3>2. Head(todo[g]) \in Steps
      BY <2>2, <3>1
    <3>3. QED
      BY <2>1, <2>2, <3>2 DEF Steps
  <2>4. /\ sent' \in Seq(Events) /\ DOMAIN sent' = DOMAIN sent \union {Len(sent) + 1}
        /\ sent'[Len(sent) + 1] = e /\ \A i \in DOMAIN sent : sent'[i] = sent[i]
    BY <1>1, <2>2, <2>3
  <2>5. CASE StoppedEarly'
    BY <2>4, <2>5 DEF OrderInv
  <2>6. CASE ~StoppedEarly'
    <3>1. g \in Feeders /\ Holds(g) /\ Emitting(g)
      <4>1. \A s \in Stoppers : todo[s] = <<>>
        BY <1>1, <2>6 DEF HeldInv
      <4>2. QED
        BY <1>4, <2>2, <4>1 DEF Goroutines, Feeders, Holds, EmitOps, Emitting
    <3>2. InOrder(sent')
      <4>1. InOrder(Append(sent, e))
        BY <1>1, <2>1, <2>6, <3>1, SendKeepsOrder, InOrderAppend DEF OrderInv
      <4>2. QED
        BY <2>2, <4>1
    <3>3. Copy(e)' \/ Failure(e)'
      BY <1>4, <2>1, <3>1, SentHasOrigin
    <3>4. ASSUME NEW i \in DOMAIN sent', Notable(sent'[i])
          PROVE  (\E k \in 1..Copied' : sent'[i] = childSent'[k])
                    \/ (/\ LaunchFailed' /\ IsExit(sent'[i]) /\ \A c \in Closers : ~Holds(c)')
      <4>1. PICK f : f = sent'[i]
        OBVIOUS
      <4>2. Copy(f)' \/ Failure(f)'
        BY <1>2, <2>4, <2>6, <3>3, <3>4, <4>1
      <4>3. QED
        BY <4>1, <4>2 DEF Copy, Failure
    <3>5. QED
      BY <2>4, <3>2, <3>4 DEF OrderInv
  <2>7. QED
    BY <2>5, <2>6
<1>5. CASE Write \/ ChildStep \/ Forwarding \/ Draining \/ UNCHANGED vars
  BY <1>3, <1>5 DEF Write, ChildStep, Forwarding, Forward, ForwardEnds, Draining, DrainBegin,
                    Receive, DrainEnd, vars
<1>6. ASSUME NEW c \in Closers, CloseInput(c) \/ Launching(c) PROVE OrderInv'
  BY <1>3, <1>6 DEF CloseInput, Launching, StartChild, StartChildFails, SetChild
<1>7. ASSUME NEW s \in Stoppers, StopBeforeLaunch(s) \/ StopSetsState(s) PROVE OrderInv'
  BY <1>3, <1>7 DEF StopBeforeLaunch, StopSetsState
<1>8. ASSUME NEW g \in Goroutines, Emitting(g) PROVE OrderInv'
  BY <1>3, <1>4, <1>8 DEF Emitting, EmitLoad, TakeChannel, CloseChannel
<1>9. QED
  BY <1>5, <1>6, <1>7, <1>8 DEF Next

LEMMA OrderInit == Init => LaunchInv /\ ChildInv /\ HeldInv /\ OrderInv
<1> SUFFICES ASSUME Init PROVE LaunchInv /\ ChildInv /\ HeldInv /\ OrderInv
  OBVIOUS
<1>1. /\ childSent = <<>> /\ forwarded = 0 /\ todo = [g \in Goroutines |-> <<>>]
      /\ sent = <<Plain("started")>> /\ agents = <<>> /\ forwarder = "off"
      /\ closer = [c \in Closers |-> "idle"] /\ stopper = [s \in Stoppers |-> "idle"]
  BY DEF Init, Child!Init
<1>2. \A g \in Goroutines : todo[g] = <<>> /\ ~Holds(g)
  BY <1>1 DEF Holds
<1>3. LaunchInv /\ ChildInv
  BY <1>1 DEF LaunchInv, ChildInv, InOrder
<1>4. HeldInv
  BY <1>1, <1>2 DEF HeldInv, Feeders, Goroutines
<1>5. "started" \in Child!NoteKinds
  BY DEF Child!NoteKinds
<1>6. /\ Plain("started") \in Events /\ Plain("started").kind # "output"
      /\ ~IsExit(Plain("started"))
  BY <1>5, PlainIsNoOutput
<1>7. sent \in Seq(Events) /\ DOMAIN sent = {1} /\ sent[1] = Plain("started")
  BY <1>1, <1>6
<1>8. OrderInv
  BY <1>6, <1>7 DEF OrderInv, InOrder, Notable
<1>9. QED
  BY <1>3, <1>4, <1>8

\* Unless it is stopped before the launch, what the runtime gives is in the
\* order of the child's events and has one exit at most, whatever is dropped
\* at a full channel and whoever closes.
THEOREM FeedAlwaysInOrder == Spec => []FeedsInOrder
<1>1. OrderInv => FeedsInOrder
  BY DEF OrderInv, FeedsInOrder, InOrder
<1>2. Init => /\ StepsInv /\ CloseInv /\ PromptInv
              /\ LaunchInv /\ ChildInv /\ HeldInv /\ OrderInv
  BY StepsInit, PromptInit, OrderInit
<1>3. /\ StepsInv /\ CloseInv /\ PromptInv /\ LaunchInv /\ ChildInv /\ HeldInv /\ OrderInv
      /\ [Next]_vars
      => (/\ StepsInv /\ CloseInv /\ PromptInv
          /\ LaunchInv /\ ChildInv /\ HeldInv /\ OrderInv)'
  BY CloseStepKeeps, PromptStep, LaunchStep, ChildInvStep, HeldStep, OrderStep
<1>4. QED
  BY <1>1, <1>2, <1>3, PTL DEF Spec
=============================================================================
