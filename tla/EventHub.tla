------------------------------ MODULE EventHub ------------------------------
(***************************************************************************)
(* The feed of one session in internal/event/hub.go, shared by every       *)
(* goroutine that publishes about the session (the pump, client commands,  *)
(* the HTTP start path) and every WebSocket connection that follows it.    *)
(*                                                                         *)
(* publish appends to recent and copies the subscriber set under the lock, *)
(* then sends to one channel after another with the lock released; a       *)
(* subscription is closed by its connection under the lock, at any moment. *)
(* Feeds of different sessions share nothing but the map that finds them.  *)
(***************************************************************************)
EXTENDS Naturals, Sequences

CONSTANTS
    Publishers,   \* goroutines that call Publish, one call at a time each
    Subscribers,  \* calls of Subscribe; a Subscription is used once
    Buffer,       \* sessionFeed.buffer: how many events recent keeps
    ChanCap,      \* capacity of a subscriber's channel (64 in subscribe)
    MaxEvents     \* bound: events published

ASSUME BufferAssumption == Buffer \in Nat \ {0}
ASSUME ChanCapAssumption == ChanCap \in Nat /\ MaxEvents \in Nat

VARIABLES
    log,      \* history: the publisher of each event; an event is a position
    recent,   \* sessionFeed.recent
    subs,     \* sessionFeed.subs
    closed,   \* sessionFeed.closed
    chan,     \* contents of each subscriber's channel
    status,   \* a channel: "none" (not made), "open" or "closed"
    backlog,  \* Subscription.Recent
    joined,   \* history: Len(log) when the subscription was made
    got,      \* history: events taken from the channel
    dropped,  \* history: events the default branch dropped
    sending,  \* the event each publisher is sending, 0 for none
    todo,     \* the copied channels it has not sent to yet
    crashed   \* a publisher panicked: send on closed channel

vars == <<log, recent, subs, closed, chan, status, backlog, joined, got, dropped,
          sending, todo, crashed>>

feedVars == <<log, recent, subs, closed>>
subVars  == <<status, backlog, joined>>
pubVars  == <<sending, todo, crashed>>

Elems(s) == {s[i] : i \in 1..Len(s)}

Init ==
    /\ log = <<>> /\ recent = <<>> /\ subs = {} /\ closed = FALSE
    /\ chan = [s \in Subscribers |-> <<>>]
    /\ status = [s \in Subscribers |-> "none"]
    /\ backlog = [s \in Subscribers |-> <<>>]
    /\ joined = [s \in Subscribers |-> 0]
    /\ got = [s \in Subscribers |-> {}]
    /\ dropped = [s \in Subscribers |-> {}]
    /\ sending = [p \in Publishers |-> 0]
    /\ todo = [p \in Publishers |-> {}]
    /\ crashed = FALSE

-----------------------------------------------------------------------------
\* Mutant: off by one.
TrimLate(r) == IF Len(r) > Buffer + 1 THEN Tail(r) ELSE r

\* Keep the last Buffer events.
Trim(r) == IF Len(r) > Buffer THEN Tail(r) ELSE r

\* publish, up to f.mu.Unlock.  On a closed feed it changes nothing.
PublishLocked(p) ==
    /\ ~crashed /\ todo[p] = {} /\ Len(log) < MaxEvents /\ ~closed
    /\ log' = Append(log, p)
    /\ recent' = Trim(Append(recent, Len(log) + 1))
    /\ sending' = [sending EXCEPT ![p] = Len(log) + 1]
    /\ todo' = [todo EXCEPT ![p] = subs]
    /\ UNCHANGED <<subs, closed, chan, subVars, got, dropped, crashed>>

\* Where an event sent to s ends: in the channel, dropped, or in a panic.
Send(p, s) ==
    \/ /\ status[s] = "closed"               \* panic
       /\ crashed' = TRUE
       /\ UNCHANGED <<chan, dropped>>
    \/ /\ status[s] = "open" /\ Len(chan[s]) < ChanCap
       /\ chan' = [chan EXCEPT ![s] = Append(@, sending[p])]
       /\ UNCHANGED <<dropped, crashed>>
    \/ /\ status[s] = "open" /\ Len(chan[s]) >= ChanCap
       /\ dropped' = [dropped EXCEPT ![s] = @ \union {sending[p]}]
       /\ UNCHANGED <<chan, crashed>>

\* Mutant: the loop runs over f.subs itself, not over a copy.
PublishSendLive(p, s) ==
    /\ ~crashed /\ todo[p] # {} /\ s \in todo[p] \union subs
    /\ todo' = [todo EXCEPT ![p] = @ \ {s}]
    /\ Send(p, s)
    /\ UNCHANGED <<feedVars, subVars, got, sending>>

\* Mutant: a full channel ends the loop.
PublishSendReturns(p, s) ==
    /\ ~crashed /\ s \in todo[p]
    /\ todo' = [todo EXCEPT ![p] = IF Len(chan[s]) < ChanCap THEN @ \ {s} ELSE {}]
    /\ Send(p, s)
    /\ UNCHANGED <<feedVars, subVars, got, sending>>

\* Mutant: the send has no default branch.
PublishSendBlocks(p, s) ==
    /\ ~crashed /\ s \in todo[p] /\ (status[s] = "closed" \/ Len(chan[s]) < ChanCap)
    /\ todo' = [todo EXCEPT ![p] = @ \ {s}]
    /\ Send(p, s)
    /\ UNCHANGED <<feedVars, subVars, got, sending>>

\* One turn of publish's loop over the copied channels, in any order.
PublishSend(p, s) ==
    /\ ~crashed /\ s \in todo[p]
    /\ todo' = [todo EXCEPT ![p] = @ \ {s}]
    /\ Send(p, s)
    /\ UNCHANGED <<feedVars, subVars, got, sending>>

\* subscribe: recent is copied and the channel registered under one lock.
Subscribe(s) ==
    /\ ~crashed /\ status[s] = "none" /\ ~closed
    /\ status' = [status EXCEPT ![s] = "open"]
    /\ backlog' = [backlog EXCEPT ![s] = recent]
    /\ joined' = [joined EXCEPT ![s] = Len(log)]
    /\ subs' = subs \union {s}
    /\ UNCHANGED <<log, recent, closed, chan, got, dropped, pubVars>>

\* subscribe on a closed feed: a channel that is closed already, no backlog.
SubscribeClosed(s) ==
    /\ ~crashed /\ status[s] = "none" /\ closed
    /\ status' = [status EXCEPT ![s] = "closed"]
    /\ UNCHANGED <<feedVars, chan, backlog, joined, got, dropped, pubVars>>

Receive(s) ==
    /\ ~crashed /\ chan[s] # <<>>
    /\ got' = [got EXCEPT ![s] = @ \union {Head(chan[s])}]
    /\ chan' = [chan EXCEPT ![s] = Tail(@)]
    /\ UNCHANGED <<feedVars, subVars, dropped, pubVars>>

\* Subscription.Close: a channel still registered is removed and closed.
Unsubscribe(s) ==
    /\ ~crashed /\ s \in subs
    /\ subs' = subs \ {s}
    /\ status' = [status EXCEPT ![s] = "closed"]
    /\ UNCHANGED <<log, recent, closed, chan, backlog, joined, got, dropped, pubVars>>

\* sessionFeed.close empties subs under the lock and closes the channels it
\* copied afterwards: those open and no longer registered.
CloseFeed ==
    /\ ~crashed /\ ~closed
    /\ closed' = TRUE
    /\ subs' = {}
    /\ UNCHANGED <<log, recent, chan, subVars, got, dropped, pubVars>>

CloseChannel(s) ==
    /\ ~crashed /\ closed /\ status[s] = "open"
    /\ status' = [status EXCEPT ![s] = "closed"]
    /\ UNCHANGED <<feedVars, chan, backlog, joined, got, dropped, pubVars>>

\* A panic ends the process: no action is enabled in a crashed system.
Next ==
    \/ \E p \in Publishers :
          PublishLocked(p) \/ \E s \in Subscribers : PublishSend(p, s)
    \/ \E s \in Subscribers :
          \/ Subscribe(s) \/ SubscribeClosed(s) \/ Receive(s)
          \/ Unsubscribe(s) \/ CloseChannel(s)
    \/ CloseFeed

Spec == Init /\ [][Next]_vars

\* A publisher in its loop keeps running; clients may stop reading for ever.
FairSpec ==
    /\ Spec
    /\ \A p \in Publishers :
          WF_vars(\E s \in Subscribers : PublishSend(p, s))

-----------------------------------------------------------------------------
(* Properties.                                                             *)

\* The range of the feed, of the subscriptions and of the publishers' loops.
TypeOK ==
    /\ log \in Seq(Publishers)
    /\ recent \in Seq(Nat)
    /\ subs \in SUBSET Subscribers
    /\ closed \in BOOLEAN /\ crashed \in BOOLEAN
    /\ chan \in [Subscribers -> Seq(Nat)]
    /\ \A s \in Subscribers : Len(chan[s]) <= ChanCap
    /\ status \in [Subscribers -> {"none", "open", "closed"}]
    /\ backlog \in [Subscribers -> Seq(Nat)]
    /\ joined \in [Subscribers -> Nat]
    /\ got \in [Subscribers -> SUBSET Nat]
    /\ dropped \in [Subscribers -> SUBSET Nat]
    /\ sending \in [Publishers -> Nat]
    /\ todo \in [Publishers -> SUBSET Subscribers]

\* What a subscriber has been given: its backlog, and what its channel
\* carried or still carries.
Given(s) == Elems(backlog[s]) \union Elems(chan[s]) \union got[s]

\* The replay a client gets on connecting is the latest events in order.
RecentIsLatest ==
    /\ Len(recent) = IF Len(log) < Buffer THEN Len(log) ELSE Buffer
    /\ \A i \in 1..Len(recent) : recent[i] + Len(recent) = Len(log) + i

\* Nothing falls between the replay and the live stream: every event published
\* while a subscription is open was given to it, is on its way, or found its
\* channel full.
NothingMissed ==
    \A s \in subs : \A n \in (joined[s] + 1)..Len(log) :
        \/ n \in Given(s)
        \/ n \in dropped[s]
        \/ \E p \in Publishers : sending[p] = n /\ s \in todo[p]

\* No event is replayed and streamed, nor streamed twice.
NoDuplicate ==
    \A s \in Subscribers :
        /\ \A i, j \in 1..Len(chan[s]) : chan[s][i] = chan[s][j] => i = j
        /\ Elems(chan[s]) \intersect got[s] = {}
        /\ Elems(backlog[s]) \intersect (Elems(chan[s]) \union got[s]) = {}

\* The replay and the stream fit: what is published while a subscription is
\* open comes once, unless its channel was full.
DeliveryIsExact == NothingMissed /\ NoDuplicate

\* The feed is a BroadcastLog: at most once, in each publisher's own order,
\* nothing before joining but the backlog, nothing after leaving.
Members == {s \in Subscribers : status[s] = "open"}

Log == INSTANCE BroadcastLog WITH
    Authors <- Publishers, History <- Buffer, members <- Members,
    seen <- [s \in Subscribers |-> Given(s)]

ImplementsBroadcastLog == Log!Spec

\* Publish never waits for a client: a publisher in its loop gets out of it
\* even if no subscriber reads, unless the process panics.
PublishReturns == \A p \in Publishers : (todo[p] # {}) ~> (todo[p] = {} \/ crashed)

\* PRD.md:17 promises safe supervision: no goroutine of the server panics.
NoPanic == ~crashed
=============================================================================
