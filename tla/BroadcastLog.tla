---------------------------- MODULE BroadcastLog ----------------------------
(***************************************************************************)
(* What a session's event feed promises its subscribers, whatever locks    *)
(* and channels implement it: one log of events; a subscriber starts with  *)
(* the last History events and is then given later events, each at most    *)
(* once and those of one author in the order the author published them.    *)
(* Events may be left out (a slow subscriber) and nothing is given to a    *)
(* subscriber that has left.                                               *)
(***************************************************************************)
EXTENDS Naturals, Sequences

CONSTANTS Authors, Subscribers, History

VARIABLES
    log,      \* the author of each event, in publication order
    members,  \* the subscribers that have joined and not left
    joined,   \* the length of the log when a subscriber joined
    seen      \* the positions in the log a subscriber has been given

vars == <<log, members, joined, seen>>

Init ==
    /\ log = <<>>
    /\ members = {}
    /\ joined = [s \in Subscribers |-> 0]
    /\ seen = [s \in Subscribers |-> {}]

Publish(a) ==
    /\ log' = Append(log, a)
    /\ UNCHANGED <<members, joined, seen>>

Backlog(n) == {i \in 1..n : i + History > n}

Join(s) ==
    /\ s \notin members /\ seen[s] = {} /\ joined[s] = 0
    /\ members' = members \union {s}
    /\ joined' = [joined EXCEPT ![s] = Len(log)]
    /\ seen' = [seen EXCEPT ![s] = Backlog(Len(log))]
    /\ UNCHANGED log

Deliver(s, n) ==
    /\ s \in members
    /\ n > joined[s] /\ n \notin seen[s]
    /\ \A m \in seen[s] : log[m] = log[n] => m < n
    /\ seen' = [seen EXCEPT ![s] = @ \union {n}]
    /\ UNCHANGED <<log, members, joined>>

Leave(s) ==
    /\ s \in members
    /\ members' = members \ {s}
    /\ UNCHANGED <<log, joined, seen>>

Next ==
    \/ \E a \in Authors : Publish(a)
    \/ \E s \in Subscribers :
          Join(s) \/ Leave(s) \/ \E n \in 1..Len(log) : Deliver(s, n)

Spec == Init /\ [][Next]_vars
=============================================================================
