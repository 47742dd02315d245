---------------------------- MODULE StdioRuntime ----------------------------
(***************************************************************************)
(* internal/runtime/stdio.go: one agent process behind three pipes.        *)
(*                                                                         *)
(* Start spawns one readLoop for each of stdout and stderr, the waitLoop   *)
(* and a goroutine that closes the events channel when those three are     *)
(* done.  Interrupt, Stop, CloseInput and Close are called by other        *)
(* goroutines at any moment, and emit sends to the channel with no lock    *)
(* held.  The process itself is the environment: it writes and it exits.   *)
(* cmd.Wait is modelled as os/exec does it: it reaps the process and then  *)
(* closes the parent's ends of the output pipes, read to the end or not.   *)
(***************************************************************************)
EXTENDS Naturals, Sequences

CONSTANTS
    Streams,    \* the output pipes: stdout and stderr
    Callers,    \* goroutines that each call Interrupt or Stop once
    ChanCap,    \* capacity of r.events, 128 in NewSTDIORuntime
    MaxChunks   \* bound: what the process writes to one stream, in reads

ASSUME ChanCapAssumption == ChanCap \in Nat \ {0}
ASSUME MaxChunksAssumption == MaxChunks \in Nat

VARIABLES
    process,    \* "none", "running", "exited" (a zombie) or "reaped"
    status,     \* how the process ended: "unset", "clean" or "failed"
    wrote,      \* chunks the process has written to each stream
    read,       \* chunks the readLoop has taken from each stream
    pipesOpen,  \* the parent's ends of the output pipes are open
    reader,     \* readLoop of each stream: "off", "read", "emit" or "done"
    waiter,     \* waitLoop: "off", "wait", "pipes", "flags", "state", "emit", "done"
    asked,      \* waitLoop's local stopped
    flagged,    \* r.stopped || r.interrupted
    stdin,      \* r.stdin is not nil
    closed,     \* r.closed
    state,      \* r.state
    waitErr,    \* r.waitErr is not nil
    sent,       \* every event sent on r.events so far
    taken,      \* how many of them have been received
    open,       \* r.events and r.done are not closed
    caller,     \* Interrupt or Stop: "idle", "flag", "emit" or "done"
    crashed     \* a goroutine panicked: send on closed channel

processVars == <<process, status, wrote>>
readVars    == <<read, reader, pipesOpen>>
waitVars    == <<waiter, asked, state, waitErr>>
callVars    == <<caller, flagged, closed>>
chanVars    == <<sent, taken, open, crashed>>
vars == <<processVars, readVars, waitVars, callVars, chanVars, stdin>>

Chunk(s, n) == [kind |-> "output", stream |-> s, n |-> n]
Plain(kind) == [kind |-> kind]
ExitKinds == {"exit_stopped", "exit_errored"}
Kinds == {"started", "signalled"} \union ExitKinds

Init ==
    /\ process = "none" /\ status = "unset"
    /\ wrote = [s \in Streams |-> 0] /\ read = [s \in Streams |-> 0]
    /\ pipesOpen = TRUE
    /\ reader = [s \in Streams |-> "off"] /\ waiter = "off"
    /\ asked = FALSE /\ flagged = FALSE /\ closed = FALSE /\ stdin = FALSE
    /\ state = "pending" /\ waitErr = FALSE
    /\ sent = <<>> /\ taken = 0 /\ open = TRUE
    /\ caller = [c \in Callers |-> "idle"]
    /\ crashed = FALSE

-----------------------------------------------------------------------------
(* Start and the channel.                                                  *)

\* emit: it blocks while the channel is full and panics once it is closed.
Emit(e) ==
    \/ /\ open /\ Len(sent) < taken + ChanCap
       /\ sent' = Append(sent, e)
       /\ UNCHANGED <<taken, open, crashed>>
    \/ /\ ~open
       /\ crashed' = TRUE
       /\ UNCHANGED <<sent, taken, open>>

\* Start: the process runs, Started is emitted and the loops are spawned.  The
\* session that calls it hands the runtime to other goroutines afterwards.
Start ==
    /\ ~crashed /\ process = "none"
    /\ process' = "running" /\ state' = "running" /\ stdin' = TRUE
    /\ Emit(Plain("started"))
    /\ reader' = [s \in Streams |-> "read"] /\ waiter' = "wait"
    /\ UNCHANGED <<status, wrote, read, pipesOpen, asked, waitErr, callVars>>

\* The session's drain takes the next event.
Receive ==
    /\ ~crashed /\ taken < Len(sent)
    /\ taken' = taken + 1
    /\ UNCHANGED <<processVars, readVars, waitVars, callVars, sent, open, crashed, stdin>>

LoopsDone == waiter = "done" /\ \A s \in Streams : reader[s] = "done"

\* Mutant: wg.Add does not count the waitLoop.
CloseEventsEarly ==
    /\ ~crashed /\ open /\ process # "none" /\ \A s \in Streams : reader[s] = "done"
    /\ open' = FALSE
    /\ UNCHANGED <<processVars, readVars, waitVars, callVars, sent, taken, crashed, stdin>>

\* The goroutine that waits for the three loops closes r.events and r.done.
CloseEvents ==
    /\ ~crashed /\ open /\ LoopsDone
    /\ open' = FALSE
    /\ UNCHANGED <<processVars, readVars, waitVars, callVars, sent, taken, crashed, stdin>>

-----------------------------------------------------------------------------
(* The process.                                                            *)

ProcessWrite(s) ==
    /\ ~crashed /\ process = "running" /\ wrote[s] < MaxChunks
    /\ wrote' = [wrote EXCEPT ![s] = @ + 1]
    /\ UNCHANGED <<process, status, readVars, waitVars, callVars, chanVars, stdin>>

ProcessExit ==
    /\ ~crashed /\ process = "running"
    /\ process' = "exited"
    /\ status' \in {"clean", "failed"}
    /\ UNCHANGED <<wrote, readVars, waitVars, callVars, chanVars, stdin>>

-----------------------------------------------------------------------------
(* readLoop.                                                               *)

ReadChunk(s) ==
    /\ ~crashed /\ reader[s] = "read" /\ pipesOpen /\ read[s] < wrote[s]
    /\ read' = [read EXCEPT ![s] = @ + 1]
    /\ reader' = [reader EXCEPT ![s] = "emit"]
    /\ UNCHANGED <<processVars, pipesOpen, waitVars, callVars, chanVars, stdin>>

\* Mutant: the chunk is numbered by what the process has written.
EmitLatestChunk(s) ==
    /\ ~crashed /\ reader[s] = "emit"
    /\ Emit(Chunk(s, wrote[s]))
    /\ reader' = [reader EXCEPT ![s] = "read"]
    /\ UNCHANGED <<processVars, read, pipesOpen, waitVars, callVars, stdin>>

EmitChunk(s) ==
    /\ ~crashed /\ reader[s] = "emit"
    /\ Emit(Chunk(s, read[s]))
    /\ reader' = [reader EXCEPT ![s] = "read"]
    /\ UNCHANGED <<processVars, read, pipesOpen, waitVars, callVars, stdin>>

\* Mutant: ErrClosed is retried.
ReadEndAtEOF(s) ==
    /\ ~crashed /\ reader[s] = "read" /\ process # "running" /\ read[s] = wrote[s]
    /\ reader' = [reader EXCEPT ![s] = "done"]
    /\ UNCHANGED <<processVars, read, pipesOpen, waitVars, callVars, chanVars, stdin>>

\* The end of the pipe, or ErrClosed once cmd.Wait has closed it.
ReadEnd(s) ==
    /\ ~crashed /\ reader[s] = "read"
    /\ ~pipesOpen \/ (process # "running" /\ read[s] = wrote[s])
    /\ reader' = [reader EXCEPT ![s] = "done"]
    /\ UNCHANGED <<processVars, read, pipesOpen, waitVars, callVars, chanVars, stdin>>

-----------------------------------------------------------------------------
(* waitLoop.                                                               *)

\* cmd.Wait, first half: from here on Process.Signal fails.
Reap ==
    /\ ~crashed /\ waiter = "wait" /\ process = "exited"
    /\ process' = "reaped" /\ waiter' = "pipes"
    /\ UNCHANGED <<status, wrote, readVars, asked, state, waitErr, callVars, chanVars, stdin>>

\* cmd.Wait, second half.
ClosePipes ==
    /\ ~crashed /\ waiter = "pipes"
    /\ pipesOpen' = FALSE /\ waiter' = "flags"
    /\ UNCHANGED <<processVars, read, reader, asked, state, waitErr, callVars, chanVars, stdin>>

\* Mutant: the request to stop is not looked at.
ReadFlagsIgnored ==
    /\ ~crashed /\ waiter = "flags"
    /\ stdin' = FALSE /\ asked' = FALSE /\ waiter' = "state"
    /\ UNCHANGED <<processVars, readVars, state, waitErr, callVars, chanVars>>

\* stdin is taken, and closed, and the requests are read under the lock.
ReadFlags ==
    /\ ~crashed /\ waiter = "flags"
    /\ stdin' = FALSE /\ asked' = flagged /\ waiter' = "state"
    /\ UNCHANGED <<processVars, readVars, state, waitErr, callVars, chanVars>>

\* Mutant: waitErr is kept when the process was asked to stop.
SetStateKeepsErr ==
    /\ ~crashed /\ waiter = "state"
    /\ state' = IF status = "clean" \/ asked THEN "stopped" ELSE "errored"
    /\ waitErr' = (status = "failed")
    /\ waiter' = "emit"
    /\ UNCHANGED <<processVars, readVars, asked, callVars, chanVars, stdin>>

SetState ==
    /\ ~crashed /\ waiter = "state"
    /\ state' = IF status = "clean" \/ asked THEN "stopped" ELSE "errored"
    /\ waitErr' = ~(status = "clean" \/ asked)
    /\ waiter' = "emit"
    /\ UNCHANGED <<processVars, readVars, asked, callVars, chanVars, stdin>>

EmitExit ==
    /\ ~crashed /\ waiter = "emit"
    /\ Emit(Plain(IF state = "stopped" THEN "exit_stopped" ELSE "exit_errored"))
    /\ waiter' = "done"
    /\ UNCHANGED <<processVars, readVars, asked, state, waitErr, callVars, stdin>>

-----------------------------------------------------------------------------
(* Interrupt, Stop, CloseInput and Close.                                  *)

\* Interrupt or Stop: Process.Signal succeeds until the process is reaped.
SendSignal(c) ==
    /\ ~crashed /\ caller[c] = "idle" /\ process \in {"running", "exited"}
    /\ caller' = [caller EXCEPT ![c] = "flag"]
    /\ UNCHANGED <<processVars, readVars, waitVars, flagged, closed, chanVars, stdin>>

SetFlag(c) ==
    /\ ~crashed /\ caller[c] = "flag"
    /\ flagged' = TRUE
    /\ caller' = [caller EXCEPT ![c] = "emit"]
    /\ UNCHANGED <<processVars, readVars, waitVars, closed, chanVars, stdin>>

EmitSignal(c) ==
    /\ ~crashed /\ caller[c] = "emit"
    /\ Emit(Plain("signalled"))
    /\ caller' = [caller EXCEPT ![c] = "done"]
    /\ UNCHANGED <<processVars, readVars, waitVars, flagged, closed, stdin>>

CloseInput ==
    /\ ~crashed /\ stdin
    /\ stdin' = FALSE
    /\ UNCHANGED <<processVars, readVars, waitVars, callVars, chanVars>>

\* Close kills the process, and sets neither r.stopped nor r.interrupted.
Kill ==
    /\ ~crashed /\ process # "none" /\ ~closed
    /\ closed' = TRUE
    /\ IF process = "running"
       THEN process' = "exited" /\ status' = "failed"
       ELSE UNCHANGED <<process, status>>
    /\ UNCHANGED <<wrote, readVars, waitVars, caller, flagged, chanVars, stdin>>

-----------------------------------------------------------------------------
ReaderStep(s) == ReadChunk(s) \/ EmitChunk(s) \/ ReadEnd(s)
WaiterStep == Reap \/ ClosePipes \/ ReadFlags \/ SetState \/ EmitExit
CallerStep(c) == SetFlag(c) \/ EmitSignal(c)

Next ==
    \/ Start \/ ProcessExit \/ Receive \/ CloseEvents \/ CloseInput \/ Kill
    \/ WaiterStep
    \/ \E s \in Streams : ProcessWrite(s) \/ ReaderStep(s)
    \/ \E c \in Callers : SendSignal(c) \/ CallerStep(c)

Spec == Init /\ [][Next]_vars

\* Every goroutine of the runtime runs, and the session drains the channel
\* (Session: nothing in the drain waits for a client).  Nothing obliges the
\* process to exit, or a client to interrupt.
Fairness ==
    /\ WF_vars(WaiterStep) /\ WF_vars(CloseEvents) /\ WF_vars(Receive)
    /\ \A s \in Streams : WF_vars(ReaderStep(s))
    /\ \A c \in Callers : WF_vars(CallerStep(c))

FairSpec == Spec /\ Fairness

-----------------------------------------------------------------------------
(* Properties.                                                             *)

Events == [kind : Kinds] \union [kind : {"output"}, stream : Streams, n : Nat]

\* The range of every variable of the runtime and of its goroutines.
TypeOK ==
    /\ process \in {"none", "running", "exited", "reaped"}
    /\ status \in {"unset", "clean", "failed"}
    /\ wrote \in [Streams -> 0..MaxChunks] /\ read \in [Streams -> 0..MaxChunks]
    /\ pipesOpen \in BOOLEAN
    /\ reader \in [Streams -> {"off", "read", "emit", "done"}]
    /\ waiter \in {"off", "wait", "pipes", "flags", "state", "emit", "done"}
    /\ asked \in BOOLEAN /\ flagged \in BOOLEAN /\ stdin \in BOOLEAN /\ closed \in BOOLEAN
    /\ state \in {"pending", "running", "stopped", "errored"}
    /\ waitErr \in BOOLEAN
    /\ sent \in Seq(Events) /\ taken \in 0..Len(sent) /\ Len(sent) <= taken + ChanCap
    /\ open \in BOOLEAN /\ crashed \in BOOLEAN
    /\ caller \in [Callers -> {"idle", "flag", "emit", "done"}]

\* The wait group covers the three loops: none of them can find the channel
\* closed, so only Interrupt and Stop can panic.
LoopsNeverPanic ==
    /\ waiter \in {"wait", "pipes", "flags", "state", "emit"} => open
    /\ \A s \in Streams : reader[s] \in {"read", "emit"} => open

\* What Wait returns, what State reports and the Exited event agree, however
\* Interrupt, Stop and Close raced with the exit.
OutcomeAgrees ==
    \A i \in 1..Len(sent) : sent[i].kind \in ExitKinds =>
        /\ sent[i].kind = "exit_stopped" <=> state = "stopped"
        /\ sent[i].kind = "exit_errored" <=> state = "errored"
        /\ sent[i].kind = "exit_errored" <=> waitErr

\* A Stop or an Interrupt whose call had set its flag while the process ran is
\* honoured: whatever the exit status, the session is never reported errored.
StopIsHonoured == [](flagged /\ process = "running" => [](state # "errored"))

\* The channel behaves as the session layer expects of a runtime.  A chunk
\* that its readLoop holds has been read and not given yet.
Given == [s \in Streams |-> IF reader[s] = "emit" THEN read[s] - 1 ELSE read[s]]

Feed == INSTANCE RuntimeFeed WITH given <- Given
ImplementsRuntimeFeed == Feed!Spec

\* After the process has exited the channel is closed, unless a caller panics:
\* none of the loops is left blocked in a read or on a full channel.
ExitClosesEvents == (process = "exited") ~> (~open \/ crashed)

\* stdio_test.go:31 fails with "missing output event" when the channel is
\* closed before the output of the process was seen.
OutputIsComplete == ~open => \A s \in Streams : read[s] = wrote[s]

\* PRD.md:17 promises safe supervision: no goroutine of the server panics.
NoPanic == ~crashed
=============================================================================
