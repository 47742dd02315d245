----------------------------- MODULE RuntimeFeed -----------------------------
(***************************************************************************)
(* What the session layer relies on from a runtime, whatever process and   *)
(* pipes are behind it: a channel of events that carries what the agent    *)
(* wrote to each stream in order and without a gap, exactly one exit event,*)
(* and nothing once it is closed; it is closed only after the exit.  Output*)
(* and the events of signals may still follow the exit, and the end of a   *)
(* stream may be missing.                                                  *)
(***************************************************************************)
EXTENDS Naturals, Sequences

CONSTANT Streams

VARIABLES
    sent,   \* the events sent on the channel, in order
    given,  \* how many chunks of each stream are among them
    open    \* the channel has not been closed

vars == <<sent, given, open>>

Chunk(s, n) == [kind |-> "output", stream |-> s, n |-> n]
Plain(kind) == [kind |-> kind]
ExitKinds == {"exit_stopped", "exit_errored"}
NoteKinds == {"started", "signalled", "resized"}

Exited == \E i \in 1..Len(sent) : sent[i].kind \in ExitKinds

Init == sent = <<>> /\ given = [s \in Streams |-> 0] /\ open = TRUE

Send(e) == open /\ sent' = Append(sent, e) /\ UNCHANGED open

Note(kind) == Send(Plain(kind)) /\ UNCHANGED given

Output(s) ==
    /\ Send(Chunk(s, given[s] + 1))
    /\ given' = [given EXCEPT ![s] = @ + 1]

Exit(kind) == ~Exited /\ Send(Plain(kind)) /\ UNCHANGED given

Close == open /\ Exited /\ open' = FALSE /\ UNCHANGED <<sent, given>>

Next ==
    \/ \E kind \in NoteKinds : Note(kind)
    \/ \E kind \in ExitKinds : Exit(kind)
    \/ \E s \in Streams : Output(s)
    \/ Close

Spec == Init /\ [][Next]_vars
=============================================================================
