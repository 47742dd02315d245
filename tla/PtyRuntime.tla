----------------------------- MODULE PtyRuntime -----------------------------
(***************************************************************************)
(* internal/runtime/pty_linux.go and pty_darwin.go: one agent process      *)
(* behind a pseudo-terminal.                                               *)
(*                                                                         *)
(* There is one readLoop, on the master side, and the waitLoop.  A read of *)
(* the master ends when the last holder of the slave side is gone: the     *)
(* agent, a helper that it left behind, and, in the darwin build only, the *)
(* server itself, which keeps its slave open until the readLoop's end or   *)
(* Close.  cmd.Wait leaves the master alone, unlike the pipes of           *)
(* StdioRuntime.                                                           *)
(***************************************************************************)
EXTENDS Naturals, Sequences

CONSTANTS
    Callers,    \* goroutines that each call Interrupt, Stop or Resize once
    ChanCap,    \* capacity of r.events, 128 in NewPTYRuntime
    MaxChunks   \* bound: what is written to the terminal, in reads

ASSUME PtyAssumption == ChanCap \in Nat \ {0} /\ MaxChunks \in Nat

VARIABLES
    process,    \* "none", "running", "exited" (a zombie) or "reaped"
    status,     \* how the process ended: "unset", "clean" or "failed"
    holders,    \* who has the slave side of the terminal open
    wrote,      \* chunks written to the terminal
    read,       \* chunks the readLoop has taken from it
    master,     \* r.master: "none", "open", "closed" by Close or "nil"
    reader,     \* readLoop: "off", "read", "emit", "close" or "done"
    waiter,     \* waitLoop: "off", "wait", "flags", "state", "emit" or "done"
    asked,      \* waitLoop's local stopped
    flagged,    \* r.stopped || r.interrupted
    closed,     \* r.closed
    state,      \* r.state
    sent,       \* every event sent on r.events so far
    taken,      \* how many of them have been received
    open,       \* r.events and r.done are not closed
    caller,     \* "idle", "flag", "emit", "resize" or "done"
    crashed     \* a goroutine panicked: send on closed channel

processVars == <<process, status, holders, wrote>>
readVars    == <<read, reader>>
waitVars    == <<waiter, asked, state>>
callVars    == <<caller, flagged, closed>>
chanVars    == <<sent, taken, open, crashed>>
vars == <<processVars, readVars, master, waitVars, callVars, chanVars>>

Terminal == "terminal"
Chunk(n) == [kind |-> "output", stream |-> Terminal, n |-> n]
Plain(kind) == [kind |-> kind]

Init ==
    /\ process = "none" /\ status = "unset" /\ holders = {}
    /\ wrote = 0 /\ read = 0 /\ master = "none"
    /\ reader = "off" /\ waiter = "off" /\ asked = FALSE
    /\ flagged = FALSE /\ closed = FALSE /\ state = "pending"
    /\ sent = <<>> /\ taken = 0 /\ open = TRUE
    /\ caller = [c \in Callers |-> "idle"] /\ crashed = FALSE

-----------------------------------------------------------------------------
\* emit: it blocks while the channel is full and panics once it is closed.
Emit(e) ==
    \/ /\ open /\ Len(sent) < taken + ChanCap
       /\ sent' = Append(sent, e)
       /\ UNCHANGED <<taken, open, crashed>>
    \/ /\ ~open /\ crashed' = TRUE
       /\ UNCHANGED <<sent, taken, open>>

\* Who holds the slave once Start returns: the linux build has closed its own,
\* the darwin build keeps it in r.slave.
SlaveHolders == {{"agent"}, {"agent", "server"}}

Start ==
    /\ process = "none"
    /\ process' = "running" /\ state' = "running" /\ master' = "open"
    /\ holders' \in SlaveHolders
    /\ Emit(Plain("started"))
    /\ reader' = "read" /\ waiter' = "wait"
    /\ UNCHANGED <<status, wrote, read, asked, callVars>>

\* The session's drain takes the next event.
Receive ==
    /\ taken < Len(sent)
    /\ taken' = taken + 1
    /\ UNCHANGED <<processVars, readVars, master, waitVars, callVars, sent, open, crashed>>

\* The goroutine that waits for the two loops closes r.events and r.done.
CloseEvents ==
    /\ open /\ reader = "done" /\ waiter = "done"
    /\ open' = FALSE
    /\ UNCHANGED <<processVars, readVars, master, waitVars, callVars, sent, taken, crashed>>

-----------------------------------------------------------------------------
(* The process and what it leaves behind.                                  *)

ProcessWrite ==
    /\ holders \intersect {"agent", "helper"} # {} /\ wrote < MaxChunks
    /\ wrote' = wrote + 1
    /\ UNCHANGED <<process, status, holders, readVars, master, waitVars, callVars, chanVars>>

\* The agent starts a background process that inherits the terminal.
ProcessForks ==
    /\ process = "running" /\ "helper" \notin holders
    /\ holders' = holders \union {"helper"}
    /\ UNCHANGED <<process, status, wrote, readVars, master, waitVars, callVars, chanVars>>

HelperEnds ==
    /\ "helper" \in holders
    /\ holders' = holders \ {"helper"}
    /\ UNCHANGED <<process, status, wrote, readVars, master, waitVars, callVars, chanVars>>

ProcessExit ==
    /\ process = "running"
    /\ process' = "exited" /\ status' \in {"clean", "failed"}
    /\ holders' = holders \ {"agent"}
    /\ UNCHANGED <<wrote, readVars, master, waitVars, callVars, chanVars>>

-----------------------------------------------------------------------------
(* readLoop.                                                               *)

\* Mutant: the chunk is emitted under the number of the next one.
EmitNextChunk ==
    /\ reader = "emit"
    /\ Emit(Chunk(read + 1))
    /\ reader' = "read"
    /\ UNCHANGED <<processVars, read, master, waitVars, callVars>>

ReadChunk ==
    /\ reader = "read" /\ master = "open" /\ read < wrote
    /\ read' = read + 1 /\ reader' = "emit"
    /\ UNCHANGED <<processVars, master, waitVars, callVars, chanVars>>

EmitChunk ==
    /\ reader = "emit"
    /\ Emit(Chunk(read))
    /\ reader' = "read"
    /\ UNCHANGED <<processVars, read, master, waitVars, callVars>>

\* Mutant: the loop leaves when the process has exited.
ReadEndAtExit ==
    /\ reader = "read"
    /\ process # "running" \/ master = "closed"
    /\ reader' = "close"
    /\ UNCHANGED <<processVars, read, master, waitVars, callVars, chanVars>>

\* Mutant: only ErrClosed ends the loop.
ReadEndAtClose ==
    /\ reader = "read" /\ master = "closed"
    /\ reader' = "close"
    /\ UNCHANGED <<processVars, read, master, waitVars, callVars, chanVars>>

\* The read fails: the terminal has no holder left, or Close was called.  A
\* read that was blocked when Close came may go on until the terminal ends.
ReadEnd ==
    /\ reader = "read"
    /\ (holders = {} /\ read = wrote) \/ master = "closed"
    /\ reader' = "close"
    /\ UNCHANGED <<processVars, read, master, waitVars, callVars, chanVars>>

CloseMaster ==
    /\ reader = "close"
    /\ reader' = "done" /\ master' = "nil" /\ holders' = holders \ {"server"}
    /\ UNCHANGED <<process, status, wrote, read, waitVars, callVars, chanVars>>

-----------------------------------------------------------------------------
(* waitLoop.                                                               *)

\* cmd.Wait: from here on Process.Signal fails.
Reap ==
    /\ waiter = "wait" /\ process = "exited"
    /\ process' = "reaped" /\ waiter' = "flags"
    /\ UNCHANGED <<status, holders, wrote, readVars, master, asked, state, callVars, chanVars>>

ReadFlags ==
    /\ waiter = "flags"
    /\ asked' = flagged /\ waiter' = "state"
    /\ UNCHANGED <<processVars, readVars, master, state, callVars, chanVars>>

SetState ==
    /\ waiter = "state"
    /\ state' = IF status = "clean" \/ asked THEN "stopped" ELSE "errored"
    /\ waiter' = "emit"
    /\ UNCHANGED <<processVars, readVars, master, asked, callVars, chanVars>>

EmitExit ==
    /\ waiter = "emit"
    /\ Emit(Plain(IF state = "stopped" THEN "exit_stopped" ELSE "exit_errored"))
    /\ waiter' = "done"
    /\ UNCHANGED <<processVars, readVars, master, asked, state, callVars>>

-----------------------------------------------------------------------------
(* Interrupt, Stop, Resize and Close.                                      *)

\* Interrupt or Stop: Process.Signal succeeds until the process is reaped.
SendSignal(c) ==
    /\ caller[c] = "idle" /\ process \in {"running", "exited"}
    /\ caller' = [caller EXCEPT ![c] = "flag"]
    /\ UNCHANGED <<processVars, readVars, master, waitVars, flagged, closed, chanVars>>

SetFlag(c) ==
    /\ caller[c] = "flag"
    /\ flagged' = TRUE /\ caller' = [caller EXCEPT ![c] = "emit"]
    /\ UNCHANGED <<processVars, readVars, master, waitVars, closed, chanVars>>

EmitSignal(c) ==
    /\ caller[c] = "emit"
    /\ Emit(Plain("signalled"))
    /\ caller' = [caller EXCEPT ![c] = "done"]
    /\ UNCHANGED <<processVars, readVars, master, waitVars, flagged, closed>>

\* Resize sets the size of a master that is open, and then emits.
SetSize(c) ==
    /\ caller[c] = "idle" /\ master = "open"
    /\ caller' = [caller EXCEPT ![c] = "resize"]
    /\ UNCHANGED <<processVars, readVars, master, waitVars, flagged, closed, chanVars>>

EmitResize(c) ==
    /\ caller[c] = "resize"
    /\ Emit(Plain("resized"))
    /\ caller' = [caller EXCEPT ![c] = "done"]
    /\ UNCHANGED <<processVars, readVars, master, waitVars, flagged, closed>>

\* Close kills the process and closes the server's ends of the terminal.
Close ==
    /\ process # "none" /\ ~closed
    /\ closed' = TRUE
    /\ IF process = "running"
       THEN process' = "exited" /\ status' = "failed"
       ELSE UNCHANGED <<process, status>>
    /\ holders' = holders \ {"server", IF process = "running" THEN "agent" ELSE "server"}
    /\ master' = IF master = "open" THEN "closed" ELSE master
    /\ UNCHANGED <<wrote, readVars, waitVars, caller, flagged, chanVars>>

-----------------------------------------------------------------------------
ReaderStep == ReadChunk \/ EmitChunk \/ CloseMaster
WaiterStep == Reap \/ ReadFlags \/ SetState \/ EmitExit
CallerStep(c) == SetFlag(c) \/ EmitSignal(c) \/ EmitResize(c)

Next ==
    /\ ~crashed
    /\ \/ Start \/ ProcessWrite \/ ProcessForks \/ HelperEnds \/ ProcessExit
       \/ Receive \/ CloseEvents \/ Close \/ ReaderStep \/ ReadEnd \/ WaiterStep
       \/ \E c \in Callers : SendSignal(c) \/ SetSize(c) \/ CallerStep(c)

Spec == Init /\ [][Next]_vars

\* The loops run and the session drains the channel.  A read of a terminal
\* that nobody holds returns; one that Close interrupts is not relied on.
TerminalEnds == holders = {} /\ ReadEnd

Fairness ==
    /\ WF_vars(~crashed /\ WaiterStep) /\ WF_vars(~crashed /\ CloseEvents)
    /\ WF_vars(~crashed /\ Receive)
    /\ WF_vars(~crashed /\ (ReaderStep \/ TerminalEnds))

FairSpec == Spec /\ Fairness

-----------------------------------------------------------------------------
(* Properties.                                                             *)

\* The channel behaves as the session layer expects of a runtime, the events
\* of Resize and what a helper writes after the exit included.
Feed == INSTANCE RuntimeFeed WITH Streams <- {Terminal},
            given <- [s \in {Terminal} |-> IF reader = "emit" THEN read - 1 ELSE read]
ImplementsRuntimeFeed == Feed!Spec

\* Unlike the pipes of the stdio runtime, the terminal is read to its end:
\* unless Close was called, the channel is not closed before everything that
\* was written, by the agent or by a helper it left, has been given.
TerminalIsDrained == ~open /\ ~closed => read = wrote /\ holders = {}

\* Once the process is gone and the last holder has let the terminal go, the
\* channel is closed, unless a caller panics; the darwin build's own slave is a
\* holder until Close.
EndClosesEvents == (process \in {"exited", "reaped"} /\ holders = {}) ~> (~open \/ crashed)
=============================================================================
