---------------------------- MODULE ClientProofs ----------------------------
(***************************************************************************)
(* What clients are given, for any numbers of publishers and subscribers,  *)
(* any capacities, sizes and limits.                                       *)
(*                                                                         *)
(* The feed of a session implements BroadcastLog.  A connection is one of  *)
(* its subscribers, and has been shown the latest state whenever it has    *)
(* been given all there was for it.                                        *)
(*                                                                         *)
(* A client that follows the pages of a transcript has been given all of   *)
(* it.  This is about sequences that are selected from others: a tail has  *)
(* the last lines of the file; merging the messages of some last lines     *)
(* differs from merging all only in results whose use lies before them;    *)
(* and what the agent adds leaves the earlier messages in their places.    *)
(***************************************************************************)
EXTENDS WsServe, Transcript, SequenceTheorems, NaturalsInduction, WellFoundedInduction,
        FiniteSetTheorems, TLAPS

-----------------------------------------------------------------------------
(* The elements of a sequence.                                             *)

LEMMA ElemsAppend ==
    ASSUME NEW S, NEW q \in Seq(S), NEW e \in S
    PROVE  Elems(Append(q, e)) = Elems(q) \union {e}
<1>1. /\ Len(Append(q, e)) = Len(q) + 1 /\ Len(q) \in Nat
      /\ Append(q, e)[Len(q) + 1] = e
      /\ \A i \in 1..Len(q) : Append(q, e)[i] = q[i]
  OBVIOUS
<1>2. Elems(Append(q, e)) \subseteq Elems(q) \union {e}
  BY <1>1 DEF Elems
<1>3. Elems(q) \subseteq Elems(Append(q, e))
  BY <1>1 DEF Elems
<1>4. e \in Elems(Append(q, e))
  <2>1. Len(q) + 1 \in 1..Len(Append(q, e))
    BY <1>1
  <2>2. QED
    BY <1>1, <2>1 DEF Elems
<1>5. QED
  BY <1>2, <1>3, <1>4

LEMMA ElemsTail ==
    ASSUME NEW S, NEW q \in Seq(S), q # <<>>
    PROVE  Elems(q) = Elems(Tail(q)) \union {Head(q)}
<1>1. /\ Len(q) \in Nat /\ Len(q) >= 1 /\ Len(Tail(q)) = Len(q) - 1 /\ Head(q) = q[1]
      /\ \A i \in 1..(Len(q) - 1) : Tail(q)[i] = q[i + 1]
  OBVIOUS
<1>2. ASSUME NEW i \in 1..Len(q) PROVE q[i] \in Elems(Tail(q)) \union {Head(q)}
  <2>1. CASE i = 1
    BY <1>1, <2>1
  <2>2. CASE i # 1
    <3>1. i - 1 \in 1..(Len(q) - 1) /\ Tail(q)[i - 1] = q[i]
      BY <1>1, <2>2
    <3>2. QED
      BY <1>1, <3>1 DEF Elems
  <2>3. QED
    BY <2>1, <2>2
<1>3. ASSUME NEW i \in 1..Len(Tail(q)) PROVE Tail(q)[i] \in Elems(q)
  <2>1. i + 1 \in 1..Len(q) /\ Tail(q)[i] = q[i + 1]
    BY <1>1
  <2>2. QED
    BY <2>1 DEF Elems
<1>4. Head(q) \in Elems(q)
  BY <1>1 DEF Elems
<1>5. QED
  BY <1>2, <1>3, <1>4 DEF Elems

-----------------------------------------------------------------------------
(* Typing.                                                                 *)

LEMMA HubInitTyped == Init => TypeOK
<1> SUFFICES ASSUME Init PROVE TypeOK
  OBVIOUS
<1>1. log \in Seq(Publishers) /\ recent \in Seq(Nat) /\ subs \in SUBSET Subscribers
  BY DEF Init
<1>2. /\ chan \in [Subscribers -> Seq(Nat)] /\ backlog \in [Subscribers -> Seq(Nat)]
      /\ status \in [Subscribers -> {"none", "open", "closed"}]
      /\ joined \in [Subscribers -> Nat]
      /\ \A s \in Subscribers : Len(chan[s]) <= ChanCap
  BY ChanCapAssumption DEF Init
<1>3. got \in [Subscribers -> SUBSET Nat] /\ dropped \in [Subscribers -> SUBSET Nat]
  BY DEF Init
<1>4. sending \in [Publishers -> Nat] /\ todo \in [Publishers -> SUBSET Subscribers]
  BY DEF Init
<1>5. closed \in BOOLEAN /\ crashed \in BOOLEAN
  BY DEF Init
<1>6. QED
  BY <1>1, <1>2, <1>3, <1>4, <1>5 DEF TypeOK

\* recent after an event has been appended and the oldest trimmed.
LEMMA TrimmedAppend ==
    ASSUME NEW q \in Seq(Nat), NEW e \in Nat, Len(q) <= Buffer
    PROVE  /\ Trim(Append(q, e)) \in Seq(Nat)
           /\ Len(Trim(Append(q, e))) = IF Len(q) = Buffer THEN Buffer ELSE Len(q) + 1
           /\ Trim(Append(q, e))[Len(Trim(Append(q, e)))] = e
           /\ \A i \in 1..(Len(Trim(Append(q, e))) - 1) :
                 Trim(Append(q, e))[i] = IF Len(q) = Buffer THEN q[i + 1] ELSE q[i]
<1> DEFINE r == Append(q, e)
           Good(t) ==
               /\ t \in Seq(Nat)
               /\ Len(t) = IF Len(q) = Buffer THEN Buffer ELSE Len(q) + 1
               /\ t[Len(t)] = e
               /\ \A i \in 1..(Len(t) - 1) :
                     t[i] = IF Len(q) = Buffer THEN q[i + 1] ELSE q[i]
<1>1. /\ r \in Seq(Nat) /\ Len(r) = Len(q) + 1 /\ r[Len(q) + 1] = e /\ Len(q) \in Nat
      /\ \A i \in 1..Len(q) : r[i] = q[i]
  OBVIOUS
<1> HIDE DEF r
<1>2. ASSUME Len(q) = Buffer PROVE Good(Trim(r))
  <2>1. r # <<>> /\ Trim(r) = Tail(r)
    BY <1>1, <1>2 DEF Trim
  <2>2. /\ Tail(r) \in Seq(Nat) /\ Len(Tail(r)) = Len(q)
        /\ \A i \in 1..Len(q) : Tail(r)[i] = r[i + 1]
    BY <1>1, <2>1
  <2>3. \A i \in 1..(Len(q) - 1) : Tail(r)[i] = q[i + 1]
    BY <1>1, <2>2
  <2>4. QED
    BY <1>1, <1>2, <2>1, <2>2, <2>3, BufferAssumption
<1>3. ASSUME Len(q) # Buffer PROVE Good(Trim(r))
  <2>1. Trim(r) = r
    BY <1>1, <1>3, BufferAssumption DEF Trim
  <2>2. QED
    BY <1>1, <1>3, <2>1
<1>4. QED
  BY <1>2, <1>3 DEF r

LEMMA HubNextTyped == TypeOK /\ [Next]_vars => TypeOK'
<1> SUFFICES ASSUME TypeOK, [Next]_vars PROVE TypeOK'
  OBVIOUS
<1>1. ASSUME NEW p \in Publishers, PublishLocked(p) PROVE TypeOK'
  <2>1. /\ Append(log, p) \in Seq(Publishers)
        /\ Len(log) + 1 \in Nat
    BY DEF TypeOK
  <2>2. Append(recent, Len(log) + 1) \in Seq(Nat)
    BY <2>1 DEF TypeOK
  <2>3. recent' \in Seq(Nat)
    BY <1>1, <2>2 DEF PublishLocked, Trim
  <2>4. QED
    BY <1>1, <2>1, <2>3 DEF PublishLocked, TypeOK, subVars
<1>2. ASSUME NEW p \in Publishers, NEW s \in Subscribers, PublishSend(p, s) PROVE TypeOK'
  <2>1. Append(chan[s], sending[p]) \in Seq(Nat)
    BY DEF TypeOK
  <2>2. chan' \in [Subscribers -> Seq(Nat)] /\ \A t \in Subscribers : Len(chan'[t]) <= ChanCap
    <3>1. CASE chan' = chan
      BY <3>1 DEF TypeOK
    <3>2. CASE /\ Len(chan[s]) < ChanCap
               /\ chan' = [chan EXCEPT ![s] = Append(chan[s], sending[p])]
      <4>1. Len(Append(chan[s], sending[p])) <= ChanCap
        BY <2>1, <3>2, ChanCapAssumption DEF TypeOK
      <4>2. /\ chan' \in [Subscribers -> Seq(Nat)]
            /\ \A t \in Subscribers :
                  chan'[t] = IF t = s THEN Append(chan[s], sending[p]) ELSE chan[t]
        BY <2>1, <3>2 DEF TypeOK
      <4>3. QED
        BY <4>1, <4>2 DEF TypeOK
    <3>3. QED
      BY <1>2, <3>1, <3>2 DEF PublishSend, Send
  <2>3. /\ dropped' \in [Subscribers -> SUBSET Nat]
        /\ todo' \in [Publishers -> SUBSET Subscribers]
    <3>1. dropped[s] \union {sending[p]} \in SUBSET Nat /\ todo[p] \ {s} \in SUBSET Subscribers
      BY DEF TypeOK
    <3>2. \/ dropped' = dropped
          \/ dropped' = [dropped EXCEPT ![s] = dropped[s] \union {sending[p]}]
      BY <1>2 DEF PublishSend, Send
    <3>3. todo' = [todo EXCEPT ![p] = todo[p] \ {s}]
      BY <1>2 DEF PublishSend, Send
    <3>4. /\ dropped \in [Subscribers -> SUBSET Nat]
          /\ todo \in [Publishers -> SUBSET Subscribers]
      BY DEF TypeOK
    <3>5. QED
      BY <3>1, <3>2, <3>3, <3>4
  <2>4. crashed' \in BOOLEAN
    BY <1>2 DEF PublishSend, Send, TypeOK
  <2>5. QED
    BY <1>2, <2>2, <2>3, <2>4 DEF PublishSend, Send, TypeOK, feedVars, subVars
<1>3. ASSUME NEW s \in Subscribers, Subscribe(s) PROVE TypeOK'
  BY <1>3 DEF Subscribe, TypeOK, pubVars
<1>4. ASSUME NEW s \in Subscribers, SubscribeClosed(s) PROVE TypeOK'
  BY <1>4 DEF SubscribeClosed, TypeOK, feedVars, pubVars
<1>5. ASSUME NEW s \in Subscribers, Receive(s) PROVE TypeOK'
  <2>1. /\ Head(chan[s]) \in Nat /\ Tail(chan[s]) \in Seq(Nat)
        /\ Len(chan[s]) \in Nat /\ Len(Tail(chan[s])) = Len(chan[s]) - 1
    BY <1>5 DEF Receive, TypeOK
  <2>2. chan' \in [Subscribers -> Seq(Nat)] /\ got' \in [Subscribers -> SUBSET Nat]
    BY <1>5, <2>1 DEF Receive, TypeOK
  <2>3. \A t \in Subscribers : Len(chan'[t]) <= ChanCap
    <3>1. \A t \in Subscribers : chan'[t] = IF t = s THEN Tail(chan[s]) ELSE chan[t]
      BY <1>5 DEF Receive, TypeOK
    <3>2. Len(Tail(chan[s])) <= ChanCap
      BY <2>1, ChanCapAssumption DEF TypeOK
    <3>3. QED
      BY <3>1, <3>2 DEF TypeOK
  <2>4. QED
    BY <1>5, <2>2, <2>3 DEF Receive, TypeOK, feedVars, subVars, pubVars
<1>6. ASSUME NEW s \in Subscribers, Unsubscribe(s) PROVE TypeOK'
  BY <1>6 DEF Unsubscribe, TypeOK, pubVars
<1>7. ASSUME NEW s \in Subscribers, CloseChannel(s) PROVE TypeOK'
  BY <1>7 DEF CloseChannel, TypeOK, feedVars, pubVars
<1>8. CASE CloseFeed
  BY <1>8 DEF CloseFeed, TypeOK, subVars, pubVars
<1>9. CASE UNCHANGED vars
  BY <1>9 DEF vars, TypeOK
<1>10. QED
  BY <1>1, <1>2, <1>3, <1>4, <1>5, <1>6, <1>7, <1>8, <1>9 DEF Next

\* Typing of the feed for every instance.
THEOREM HubTyped == Spec => []TypeOK
<1>1. QED
  BY HubInitTyped, HubNextTyped, PTL DEF Spec

-----------------------------------------------------------------------------
(* The replay.                                                             *)

LEMMA RecentStep == TypeOK /\ RecentIsLatest /\ [Next]_vars => RecentIsLatest'
<1> SUFFICES ASSUME TypeOK, RecentIsLatest, [Next]_vars PROVE RecentIsLatest'
  OBVIOUS
<1> USE BufferAssumption
<1>1. ASSUME NEW p \in Publishers, PublishLocked(p) PROVE RecentIsLatest'
  <2>1. /\ Len(log') = Len(log) + 1 /\ Len(log) \in Nat
        /\ recent \in Seq(Nat) /\ Len(recent) \in Nat /\ Len(recent) <= Buffer
        /\ recent' = Trim(Append(recent, Len(log) + 1))
    BY <1>1 DEF PublishLocked, TypeOK, RecentIsLatest
  <2>2. /\ Len(recent') = IF Len(recent) = Buffer THEN Buffer ELSE Len(recent) + 1
        /\ recent'[Len(recent')] = Len(log) + 1
        /\ \A i \in 1..(Len(recent') - 1) :
              recent'[i] = IF Len(recent) = Buffer THEN recent[i + 1] ELSE recent[i]
    <3>1. Len(log) + 1 \in Nat
      BY <2>1
    <3>2. QED
      BY <2>1, <3>1, TrimmedAppend
  <2>3. Len(recent') = IF Len(log') < Buffer THEN Len(log') ELSE Buffer
    BY <2>1, <2>2 DEF RecentIsLatest
  <2>4. ASSUME NEW i \in 1..Len(recent') PROVE recent'[i] + Len(recent') = Len(log') + i
    <3>1. CASE i = Len(recent')
      BY <2>1, <2>2, <3>1
    <3>2. CASE i # Len(recent') /\ Len(recent) = Buffer
      <4>1. i + 1 \in 1..Len(recent) /\ recent'[i] = recent[i + 1]
        <5>1. i \in 1..(Len(recent') - 1) /\ Len(recent') = Len(recent)
          BY <2>1, <2>2, <3>2
        <5>2. QED
          BY <2>1, <2>2, <3>2, <5>1
      <4>2. recent[i + 1] + Len(recent) = Len(log) + (i + 1)
        BY <4>1 DEF RecentIsLatest
      <4>3. recent[i + 1] \in Nat
        BY <2>1, <4>1, ElementOfSeq
      <4>4. QED
        BY <2>1, <2>2, <3>2, <4>1, <4>2, <4>3
    <3>3. CASE i # Len(recent') /\ Len(recent) # Buffer
      <4>1. i \in 1..Len(recent) /\ recent'[i] = recent[i]
        BY <2>1, <2>2, <3>3
      <4>2. recent[i] + Len(recent) = Len(log) + i
        BY <4>1 DEF RecentIsLatest
      <4>3. recent[i] \in Nat
        BY <2>1, <4>1, ElementOfSeq
      <4>4. Len(recent') = Len(recent) + 1
        BY <2>2, <3>3
      <4>5. Len(log') = Len(log) + 1 /\ Len(log) \in Nat /\ Len(recent) \in Nat
        BY <2>1
      <4>6. recent[i] + (Len(recent) + 1) = (Len(log) + 1) + i
        BY <4>1, <4>2, <4>3, <4>5
      <4>7. QED
        BY <4>1, <4>4, <4>5, <4>6
    <3>4. QED
      BY <3>1, <3>2, <3>3
  <2>5. QED
    BY <2>3, <2>4 DEF RecentIsLatest
<1>2. CASE UNCHANGED <<log, recent>>
  BY <1>2 DEF RecentIsLatest
<1>3. QED
  BY <1>1, <1>2 DEF Next, PublishSend, Subscribe, SubscribeClosed, Receive, Unsubscribe,
     CloseChannel, CloseFeed, feedVars, vars

\* What a client is replayed is the latest events in order, for every Buffer.
THEOREM ReplayIsLatest == Spec => []RecentIsLatest
<1>1. Init => RecentIsLatest
  BY BufferAssumption DEF Init, RecentIsLatest
<1>2. QED
  BY <1>1, RecentStep, HubTyped, PTL DEF Spec

\* The replay holds the positions that BroadcastLog gives a joining member.
LEMMA RecentIsBacklog ==
    ASSUME TypeOK, RecentIsLatest
    PROVE  Elems(recent) = Log!Backlog(Len(log))
<1> USE BufferAssumption DEF RecentIsLatest, Log!Backlog
<1>1. Len(log) \in Nat /\ Len(recent) \in Nat /\ \A i \in 1..Len(recent) : recent[i] \in Nat
  <2>1. log \in Seq(Publishers) /\ recent \in Seq(Nat)
    BY DEF TypeOK
  <2>2. QED
    BY <2>1, ElementOfSeq
<1>2. ASSUME NEW i \in 1..Len(recent) PROVE recent[i] \in Log!Backlog(Len(log))
  BY <1>1
<1>3. ASSUME NEW n \in 1..Len(log), n + Buffer > Len(log) PROVE n \in Elems(recent)
  <2> DEFINE i == n + Len(recent) - Len(log)
  <2>1. i \in 1..Len(recent)
    BY <1>1, <1>3
  <2>2. recent[i] = n
    BY <1>1, <2>1
  <2>3. QED
    BY <2>1, <2>2 DEF Elems
<1>4. QED
  BY <1>2, <1>3 DEF Elems

-----------------------------------------------------------------------------
(* The invariant behind the refinement: an event in a publisher's loop is  *)
(* the latest of that publisher, and is new to every channel it is still   *)
(* to be sent to.                                                          *)

InFlight(p) ==
    /\ sending[p] \in 1..Len(log) /\ log[sending[p]] = p
    /\ \A n \in 1..Len(log) : log[n] = p => n <= sending[p]
    /\ \A s \in todo[p] : /\ status[s] # "none" /\ joined[s] < sending[p]
                          /\ sending[p] \notin Given(s)

HubInv ==
    /\ \A s \in Subscribers : Given(s) \subseteq 1..Len(log)
    /\ \A s \in Subscribers : status[s] = "none" =>
          Given(s) = {} /\ joined[s] = 0 /\ s \notin subs
    /\ \A s \in subs : joined[s] <= Len(log)
    /\ \A p \in Publishers : todo[p] # {} => InFlight(p)

LEMMA GivenUnchanged ==
    ASSUME backlog' = backlog, chan' = chan, got' = got, NEW s \in Subscribers
    PROVE  Given(s)' = Given(s)
  BY DEF Given

LEMMA SendGives ==
    ASSUME TypeOK, NEW p \in Publishers, NEW s \in Subscribers, PublishSend(p, s)
    PROVE  /\ \A t \in Subscribers \ {s} : Given(t)' = Given(t)
           /\ \/ Given(s)' = Given(s)
              \/ status[s] = "open" /\ Given(s)' = Given(s) \union {sending[p]}
<1>1. backlog' = backlog /\ got' = got
  BY DEF PublishSend, subVars
<1>2. CASE chan' = chan
  BY <1>1, <1>2, GivenUnchanged
<1>3. CASE status[s] = "open" /\ chan' = [chan EXCEPT ![s] = Append(chan[s], sending[p])]
  <2>1. chan'[s] = Append(chan[s], sending[p]) /\ \A t \in Subscribers \ {s} : chan'[t] = chan[t]
    BY <1>3 DEF TypeOK
  <2>2. Elems(chan'[s]) = Elems(chan[s]) \union {sending[p]}
    <3>1. chan[s] \in Seq(Nat) /\ sending[p] \in Nat
      BY DEF TypeOK
    <3>2. QED
      BY <2>1, <3>1, ElemsAppend
  <2>3. QED
    BY <1>1, <1>3, <2>1, <2>2 DEF Given
<1>4. QED
  BY <1>2, <1>3 DEF PublishSend, Send

LEMMA ReceiveGives ==
    ASSUME TypeOK, NEW s \in Subscribers, Receive(s), NEW t \in Subscribers
    PROVE  Given(t)' = Given(t)
<1>1. /\ chan'[s] = Tail(chan[s]) /\ got'[s] = got[s] \union {Head(chan[s])}
      /\ chan[s] # <<>> /\ chan[s] \in Seq(Nat)
      /\ \A u \in Subscribers \ {s} : chan'[u] = chan[u] /\ got'[u] = got[u]
      /\ backlog' = backlog
  BY DEF Receive, TypeOK, subVars
<1>2. Elems(chan[s]) = Elems(Tail(chan[s])) \union {Head(chan[s])}
  BY <1>1, ElemsTail
<1>3. QED
  BY <1>1, <1>2 DEF Given

LEMMA SubscribeGives ==
    ASSUME TypeOK, RecentIsLatest, HubInv, NEW s \in Subscribers, Subscribe(s)
    PROVE  /\ Given(s)' = Log!Backlog(Len(log))
           /\ \A t \in Subscribers \ {s} : Given(t)' = Given(t)
<1>1. /\ backlog'[s] = recent /\ chan' = chan /\ got' = got
      /\ \A t \in Subscribers \ {s} : backlog'[t] = backlog[t]
  BY DEF Subscribe, TypeOK
<1>2. Given(s) = {}
  BY DEF HubInv, Subscribe
<1>3. Elems(chan[s]) = {} /\ got[s] = {}
  BY <1>2 DEF Given
<1>4. QED
  BY <1>1, <1>3, RecentIsBacklog DEF Given

\* A step that publishes and delivers nothing, opens no loop and makes no
\* subscription keeps the invariant.
LEMMA HubQuiet ==
    ASSUME HubInv, log' = log, joined' = joined, subs' \subseteq subs,
           sending' = sending, todo' = todo,
           \A s \in Subscribers : Given(s)' = Given(s),
           \A s \in Subscribers : status'[s] = "none" => status[s] = "none",
           \A s \in Subscribers : status[s] # "none" => status'[s] # "none",
           TypeOK
    PROVE  HubInv'
<1>1. \A p \in Publishers : \A s \in todo[p] : s \in Subscribers
  BY DEF TypeOK
<1>2. ASSUME NEW p \in Publishers, todo'[p] # {} PROVE InFlight(p)'
  BY <1>1, <1>2 DEF HubInv, InFlight
<1>3. QED
  BY <1>2 DEF HubInv

LEMMA HubStep == TypeOK /\ RecentIsLatest /\ HubInv /\ [Next]_vars => HubInv'
<1> SUFFICES ASSUME TypeOK, RecentIsLatest, HubInv, [Next]_vars PROVE HubInv'
  OBVIOUS
<1>0. Len(log) \in Nat /\ \A p \in Publishers : todo[p] \subseteq Subscribers
  BY DEF TypeOK
<1>1. ASSUME NEW p \in Publishers, PublishLocked(p) PROVE HubInv'
  <2> DEFINE n == Len(log) + 1
  <2>1. /\ Len(log') = n /\ log'[n] = p /\ \A i \in 1..Len(log) : log'[i] = log[i]
        /\ sending'[p] = n /\ todo'[p] = subs
        /\ \A q \in Publishers \ {p} : sending'[q] = sending[q] /\ todo'[q] = todo[q]
        /\ status' = status /\ joined' = joined /\ subs' = subs
    BY <1>0, <1>1 DEF PublishLocked, TypeOK, subVars
  <2>2. \A s \in Subscribers : Given(s)' = Given(s)
    BY <1>1, GivenUnchanged DEF PublishLocked, subVars
  <2>3. \A s \in Subscribers : Given(s)' \subseteq 1..Len(log')
    BY <1>0, <2>1, <2>2 DEF HubInv
  <2>4. \A s \in subs' : joined'[s] <= Len(log')
    <3>1. \A s \in subs : joined[s] \in Nat /\ joined[s] <= Len(log)
      BY DEF HubInv, TypeOK
    <3>2. QED
      BY <1>0, <2>1, <3>1
  <2>5. InFlight(p)'
    <3>1. sending'[p] \in 1..Len(log') /\ log'[sending'[p]] = p
      BY <1>0, <2>1
    <3>2. \A i \in 1..Len(log') : log'[i] = p => i <= sending'[p]
      BY <1>0, <2>1
    <3>3. ASSUME NEW s \in subs
          PROVE  status[s] # "none" /\ joined[s] < n /\ n \notin Given(s)
      <4>1. s \in Subscribers /\ joined[s] \in Nat
        BY DEF TypeOK
      <4>2. QED
        BY <1>0, <4>1 DEF HubInv
    <3>4. QED
      BY <2>1, <2>2, <3>1, <3>2, <3>3 DEF InFlight, TypeOK
  <2>6. ASSUME NEW q \in Publishers \ {p}, todo'[q] # {} PROVE InFlight(q)'
    <3>1. InFlight(q)
      BY <2>1, <2>6 DEF HubInv
    <3>2. sending'[q] \in 1..Len(log') /\ log'[sending'[q]] = q
      BY <1>0, <2>1, <3>1 DEF InFlight
    <3>3. \A i \in 1..Len(log') : log'[i] = q => i <= sending'[q]
      BY <1>0, <2>1, <3>1 DEF InFlight
    <3>4. QED
      BY <1>0, <2>1, <2>2, <3>1, <3>2, <3>3 DEF InFlight
  <2>7. \A s \in Subscribers : status'[s] = "none" =>
           Given(s)' = {} /\ joined'[s] = 0 /\ s \notin subs'
    BY <2>1, <2>2 DEF HubInv
  <2>8. QED
    BY <2>3, <2>4, <2>5, <2>6, <2>7 DEF HubInv
<1>2. ASSUME NEW p \in Publishers, NEW s \in Subscribers, PublishSend(p, s) PROVE HubInv'
  <2>1. /\ log' = log /\ joined' = joined /\ subs' = subs /\ status' = status
        /\ sending' = sending
        /\ todo'[p] = todo[p] \ {s} /\ s \in todo[p]
        /\ \A q \in Publishers \ {p} : todo'[q] = todo[q]
    BY <1>2 DEF PublishSend, Send, TypeOK, feedVars, subVars
  <2>2. InFlight(p)
    BY <2>1 DEF HubInv
  <2>3. \A t \in Subscribers : Given(t)' \subseteq Given(t) \union {sending[p]}
    BY <1>2, SendGives
  <2>4. \A t \in Subscribers \ {s} : Given(t)' = Given(t)
    BY <1>2, SendGives
  <2>5. ASSUME NEW q \in Publishers, todo'[q] # {} PROVE InFlight(q)'
    <3>1. InFlight(q)
      BY <2>1, <2>5 DEF HubInv
    <3>2. q # p => sending[q] # sending[p]
      BY <2>2, <3>1 DEF InFlight
    <3>3. ASSUME NEW t \in todo'[q]
          PROVE  status[t] # "none" /\ joined[t] < sending[q] /\ sending[q] \notin Given(t)'
      <4>1. t \in todo[q] /\ t \in Subscribers
        BY <1>0, <2>1
      <4>2. status[t] # "none" /\ joined[t] < sending[q] /\ sending[q] \notin Given(t)
        BY <3>1, <4>1 DEF InFlight
      <4>3. CASE t = s
        BY <2>1, <2>3, <3>2, <4>1, <4>2, <4>3
      <4>4. CASE t # s
        BY <2>4, <4>1, <4>2, <4>4
      <4>5. QED
        BY <4>2, <4>3, <4>4
    <3>4. QED
      BY <2>1, <3>1, <3>3 DEF InFlight
  <2>6. \A t \in Subscribers : Given(t)' \subseteq 1..Len(log')
    BY <2>1, <2>2, <2>3 DEF HubInv, InFlight
  <2>7. ASSUME NEW t \in Subscribers, status'[t] = "none"
        PROVE  Given(t)' = {} /\ joined'[t] = 0 /\ t \notin subs'
    <3>1. t # s
      BY <2>1, <2>2, <2>7 DEF InFlight
    <3>2. QED
      BY <2>1, <2>4, <2>7, <3>1 DEF HubInv
  <2>8. \A t \in subs' : joined'[t] <= Len(log')
    BY <2>1 DEF HubInv
  <2>9. QED
    BY <2>5, <2>6, <2>7, <2>8 DEF HubInv
<1>3. ASSUME NEW s \in Subscribers, Subscribe(s) PROVE HubInv'
  <2>1. /\ log' = log /\ subs' = subs \union {s} /\ sending' = sending /\ todo' = todo
        /\ joined'[s] = Len(log) /\ status[s] = "none" /\ status'[s] = "open"
        /\ \A t \in Subscribers \ {s} : joined'[t] = joined[t] /\ status'[t] = status[t]
    BY <1>3 DEF Subscribe, TypeOK, pubVars
  <2>2. /\ Given(s)' = Log!Backlog(Len(log))
        /\ \A t \in Subscribers \ {s} : Given(t)' = Given(t)
    BY <1>3, SubscribeGives
  <2>3. \A t \in Subscribers : Given(t)' \subseteq 1..Len(log')
    BY <2>1, <2>2 DEF HubInv, Log!Backlog
  <2>4. ASSUME NEW p \in Publishers, todo'[p] # {} PROVE InFlight(p)'
    <3>1. InFlight(p)
      BY <2>1, <2>4 DEF HubInv
    <3>2. \A t \in todo[p] : t \in Subscribers \ {s}
      BY <1>0, <2>1, <3>1 DEF InFlight
    <3>3. QED
      BY <2>1, <2>2, <3>1, <3>2 DEF InFlight
  <2>5. \A t \in subs' : joined'[t] <= Len(log')
    BY <1>0, <2>1 DEF HubInv, TypeOK
  <2>6. \A t \in Subscribers : status'[t] = "none" =>
           Given(t)' = {} /\ joined'[t] = 0 /\ t \notin subs'
    BY <2>1, <2>2 DEF HubInv
  <2>7. QED
    BY <2>3, <2>4, <2>5, <2>6 DEF HubInv
<1>4. ASSUME NEW s \in Subscribers, SubscribeClosed(s) PROVE HubInv'
  BY <1>4, HubQuiet, GivenUnchanged DEF SubscribeClosed, TypeOK, feedVars, pubVars
<1>5. ASSUME NEW s \in Subscribers, Receive(s) PROVE HubInv'
  BY <1>5, HubQuiet, ReceiveGives DEF Receive, feedVars, subVars, pubVars
<1>6. ASSUME NEW s \in Subscribers, Unsubscribe(s) PROVE HubInv'
  <2>1. status'[s] = "closed" /\ \A t \in Subscribers \ {s} : status'[t] = status[t]
    BY <1>6 DEF Unsubscribe, TypeOK
  <2>2. status[s] # "none"
    BY <1>6 DEF Unsubscribe, HubInv
  <2>3. QED
    BY <1>6, <2>1, <2>2, HubQuiet, GivenUnchanged DEF Unsubscribe, pubVars
<1>7. ASSUME NEW s \in Subscribers, CloseChannel(s) PROVE HubInv'
  BY <1>7, HubQuiet, GivenUnchanged DEF CloseChannel, TypeOK, feedVars, pubVars
<1>8. CASE CloseFeed
  BY <1>8, HubQuiet, GivenUnchanged DEF CloseFeed, subVars, pubVars
<1>9. CASE UNCHANGED vars
  BY <1>9, HubQuiet, GivenUnchanged DEF vars
<1>10. QED
  BY <1>1, <1>2, <1>3, <1>4, <1>5, <1>6, <1>7, <1>8, <1>9 DEF Next

-----------------------------------------------------------------------------
(* The refinement.  seen is mapped to what a subscription has been given,  *)
(* the members to the open channels.                                       *)

seenBar == [s \in Subscribers |-> Given(s)]

LEMMA HubInitRefines == Init => Log!Init
<1> SUFFICES ASSUME Init PROVE Log!Init
  OBVIOUS
<1>1. \A s \in Subscribers : Given(s) = {}
  BY DEF Init, Given, Elems
<1>2. Members = {}
  BY DEF Init, Members
<1>3. QED
  BY <1>1, <1>2 DEF Init, Log!Init

\* A registered channel is open, and a closed feed has none registered.
Registered == /\ \A s \in subs : status[s] = "open"
              /\ closed => subs = {}

LEMMA RegisteredStep == TypeOK /\ Registered /\ [Next]_vars => Registered'
<1> SUFFICES ASSUME TypeOK, Registered, [Next]_vars PROVE Registered'
  OBVIOUS
<1>1. ASSUME NEW s \in Subscribers, Subscribe(s) PROVE Registered'
  BY <1>1 DEF Subscribe, Registered, TypeOK
<1>2. ASSUME NEW s \in Subscribers, SubscribeClosed(s) \/ CloseChannel(s) PROVE Registered'
  BY <1>2 DEF SubscribeClosed, CloseChannel, Registered, TypeOK, feedVars
<1>3. ASSUME NEW s \in Subscribers, Unsubscribe(s) PROVE Registered'
  <2>1. \A t \in subs' : t \in subs /\ t # s /\ status'[t] = status[t]
    BY <1>3 DEF Unsubscribe, TypeOK
  <2>2. QED
    BY <1>3, <2>1 DEF Unsubscribe, Registered
<1>4. CASE CloseFeed
  BY <1>4 DEF CloseFeed, Registered
<1>5. CASE UNCHANGED <<subs, closed, status>>
  BY <1>5 DEF Registered
<1>6. QED
  BY <1>1, <1>2, <1>3, <1>4, <1>5 DEF Next, PublishLocked, PublishSend, Receive,
     feedVars, subVars, vars

LEMMA HubStepRefines ==
    TypeOK /\ RecentIsLatest /\ HubInv /\ Registered /\ [Next]_vars
       => [Log!Next]_(Log!vars)
<1> SUFFICES ASSUME TypeOK, RecentIsLatest, HubInv, Registered, [Next]_vars
             PROVE  Log!Next \/ UNCHANGED Log!vars
  OBVIOUS
<1>1. ASSUME log' = log, joined' = joined, Members' = Members,
             \A s \in Subscribers : Given(s)' = Given(s)
      PROVE  UNCHANGED Log!vars
  BY <1>1 DEF Log!vars
<1>2. ASSUME NEW p \in Publishers, PublishLocked(p) PROVE Log!Next
  <2>1. \A s \in Subscribers : Given(s)' = Given(s)
    BY <1>2, GivenUnchanged DEF PublishLocked, subVars
  <2>2. log' = Append(log, p) /\ joined' = joined /\ Members' = Members
    BY <1>2 DEF PublishLocked, subVars, Members
  <2>3. Log!Publish(p)
    BY <2>1, <2>2 DEF Log!Publish
  <2>4. QED
    BY <2>3 DEF Log!Next
<1>3. ASSUME NEW p \in Publishers, NEW s \in Subscribers, PublishSend(p, s)
      PROVE  Log!Next \/ UNCHANGED Log!vars
  <2>1. log' = log /\ joined' = joined /\ Members' = Members
    BY <1>3 DEF PublishSend, feedVars, subVars, Members
  <2>2. \A t \in Subscribers \ {s} : Given(t)' = Given(t)
    BY <1>3, SendGives
  <2>3. CASE Given(s)' = Given(s)
    BY <1>1, <2>1, <2>2, <2>3
  <2>4. CASE status[s] = "open" /\ Given(s)' = Given(s) \union {sending[p]}
    <3>1. InFlight(p) /\ s \in todo[p]
      BY <1>3 DEF PublishSend, HubInv
    <3>2. s \in Members
      BY <2>4 DEF Members
    <3>3. /\ sending[p] \in 1..Len(log) /\ joined[s] < sending[p]
          /\ sending[p] \notin Given(s)
      BY <3>1 DEF InFlight
    <3>4. ASSUME NEW m \in Given(s), log[m] = log[sending[p]] PROVE m < sending[p]
      <4>1. m \in 1..Len(log) /\ log[m] = p /\ m # sending[p]
        BY <3>1, <3>3, <3>4 DEF HubInv, InFlight
      <4>2. m <= sending[p]
        BY <3>1, <4>1 DEF InFlight
      <4>3. QED
        BY <3>3, <4>1, <4>2
    <3>5. seenBar[s] = Given(s)
      BY DEF seenBar
    <3>6. seenBar' = [seenBar EXCEPT ![s] = seenBar[s] \union {sending[p]}]
      BY <2>2, <2>4 DEF seenBar
    <3>7. joined[s] \in Nat
      BY DEF TypeOK
    <3>8. Log!Deliver(s, sending[p])
      BY <2>1, <3>2, <3>3, <3>4, <3>5, <3>6, <3>7 DEF Log!Deliver, seenBar
    <3>9. QED
      BY <3>3, <3>8 DEF Log!Next
  <2>5. QED
    BY <1>3, <2>3, <2>4, SendGives
<1>4. ASSUME NEW s \in Subscribers, Subscribe(s) PROVE Log!Next
  <2>1. /\ log' = log /\ status[s] = "none"
        /\ joined' = [joined EXCEPT ![s] = Len(log)]
        /\ status' = [status EXCEPT ![s] = "open"]
    BY <1>4 DEF Subscribe
  <2>2. s \notin Members /\ Members' = Members \union {s}
    BY <2>1 DEF Members, TypeOK
  <2>3. Given(s) = {} /\ joined[s] = 0
    BY <2>1 DEF HubInv
  <2>4. seenBar' = [seenBar EXCEPT ![s] = Log!Backlog(Len(log))] /\ seenBar[s] = {}
    BY <1>4, <2>3, SubscribeGives DEF seenBar
  <2>5. Log!Join(s)
    BY <2>1, <2>2, <2>3, <2>4 DEF Log!Join, seenBar
  <2>6. QED
    BY <2>5 DEF Log!Next
<1>5. ASSUME NEW s \in Subscribers, Receive(s) PROVE UNCHANGED Log!vars
  BY <1>1, <1>5, ReceiveGives DEF Receive, feedVars, subVars, Members
<1>6. ASSUME NEW s \in Subscribers, SubscribeClosed(s) PROVE UNCHANGED Log!vars
  <2>1. Members' = Members
    BY <1>6 DEF SubscribeClosed, Members, TypeOK
  <2>2. QED
    BY <1>1, <1>6, <2>1, GivenUnchanged DEF SubscribeClosed, feedVars
<1>7. ASSUME NEW s \in Subscribers, Unsubscribe(s) \/ CloseChannel(s) PROVE Log!Next
  <2>1. status[s] = "open" /\ status' = [status EXCEPT ![s] = "closed"]
    BY <1>7 DEF Unsubscribe, CloseChannel, Registered
  <2>2. log' = log /\ joined' = joined /\ \A t \in Subscribers : Given(t)' = Given(t)
    BY <1>7, GivenUnchanged DEF Unsubscribe, CloseChannel, feedVars
  <2>3. s \in Members /\ Members' = Members \ {s}
    BY <2>1 DEF Members, TypeOK
  <2>4. Log!Leave(s)
    BY <2>2, <2>3 DEF Log!Leave
  <2>5. QED
    BY <2>4 DEF Log!Next
<1>8. CASE CloseFeed
  BY <1>1, <1>8, GivenUnchanged DEF CloseFeed, subVars, Members
<1>9. CASE UNCHANGED vars
  BY <1>1, <1>9, GivenUnchanged DEF vars, Members
<1>10. QED
  BY <1>2, <1>3, <1>4, <1>5, <1>6, <1>7, <1>8, <1>9 DEF Next

\* The feed of hub.go is a BroadcastLog for every number of goroutines.
THEOREM HubImplementsLog == Spec => ImplementsBroadcastLog
<1>1. Init => HubInv
  <2> SUFFICES ASSUME Init PROVE HubInv
    OBVIOUS
  <2>1. \A s \in Subscribers : Given(s) = {}
    BY DEF Init, Given, Elems
  <2>2. QED
    BY <2>1 DEF Init, HubInv
<1>2. TypeOK /\ RecentIsLatest /\ HubInv /\ [Next]_vars => HubInv'
  BY HubStep
<1>3. Init => Registered
  BY DEF Init, Registered
<1>4. QED
  BY <1>1, <1>2, <1>3, RegisteredStep, HubInitRefines, HubStepRefines, HubTyped, ReplayIsLatest, PTL
     DEF Spec, ImplementsBroadcastLog, Log!Spec
-----------------------------------------------------------------------------
(* Exactness.  What was published while a subscription is open is in flight *)
(* to it until its turn comes, and an event in flight was not given before. *)

\* A sequence that holds nothing twice.
Distinct(q) == \A i, j \in 1..Len(q) : q[i] = q[j] => i = j

LEMMA DistinctAppend ==
    ASSUME NEW S, NEW q \in Seq(S), NEW e \in S, Distinct(q), e \notin Elems(q)
    PROVE  Distinct(Append(q, e))
<1> DEFINE r == Append(q, e)
<1>1. /\ Len(q) \in Nat /\ Len(r) = Len(q) + 1 /\ r[Len(q) + 1] = e
      /\ \A i \in 1..Len(q) : r[i] = q[i]
  OBVIOUS
<1>2. \A i \in 1..Len(q) : r[i] # e
  BY <1>1 DEF Elems
<1> HIDE DEF r
<1>3. ASSUME NEW i \in 1..Len(r), NEW j \in 1..Len(r), r[i] = r[j] PROVE i = j
  <2>1. CASE i \in 1..Len(q) /\ j \in 1..Len(q)
    BY <1>1, <1>3, <2>1 DEF Distinct
  <2>2. CASE i = Len(q) + 1 \/ j = Len(q) + 1
    BY <1>1, <1>2, <1>3, <2>2
  <2>3. QED
    BY <1>1, <2>1, <2>2
<1>4. QED
  BY <1>3 DEF Distinct, r

LEMMA DistinctTail ==
    ASSUME NEW S, NEW q \in Seq(S), q # <<>>, Distinct(q)
    PROVE  Distinct(Tail(q)) /\ Head(q) \notin Elems(Tail(q))
<1> DEFINE r == Tail(q)
<1>1. /\ Len(q) \in Nat /\ Len(q) >= 1 /\ Len(r) = Len(q) - 1 /\ Head(q) = q[1]
      /\ \A i \in 1..Len(r) : r[i] = q[i + 1] /\ i + 1 \in 1..Len(q)
  OBVIOUS
<1> HIDE DEF r
<1>2. ASSUME NEW i \in 1..Len(r), NEW j \in 1..Len(r), r[i] = r[j] PROVE i = j
  <2>1. i + 1 = j + 1
    BY <1>1, <1>2 DEF Distinct
  <2>2. QED
    BY <1>1, <2>1
<1>3. ASSUME NEW i \in 1..Len(r) PROVE r[i] # Head(q)
  <2>1. 1 \in 1..Len(q) /\ i + 1 \in 1..Len(q) /\ i + 1 # 1
    BY <1>1
  <2>2. QED
    BY <1>1, <2>1 DEF Distinct
<1>4. QED
  BY <1>2, <1>3 DEF Distinct, Elems, r

\* NoDuplicate of one subscription.
Once(s) ==
    /\ Distinct(chan[s])
    /\ Elems(chan[s]) \intersect got[s] = {}
    /\ Elems(backlog[s]) \intersect (Elems(chan[s]) \union got[s]) = {}

LEMMA NoDuplicateIsOnce == NoDuplicate <=> \A s \in Subscribers : Once(s)
  BY DEF NoDuplicate, Once, Distinct

LEMMA OnceUnchanged ==
    ASSUME NEW s \in Subscribers, Once(s),
           chan'[s] = chan[s], got'[s] = got[s], backlog'[s] = backlog[s]
    PROVE  Once(s)'
  BY DEF Once, Distinct

LEMMA OnceStep ==
    ASSUME TypeOK, HubInv, \A s \in Subscribers : Once(s), [Next]_vars
    PROVE  \A s \in Subscribers : Once(s)'
<1>1. ASSUME NEW p \in Publishers, NEW s \in Subscribers, PublishSend(p, s),
             NEW t \in Subscribers
      PROVE  Once(t)'
  <2>1. backlog' = backlog /\ got' = got /\ s \in todo[p]
    BY <1>1 DEF PublishSend, subVars
  <2>2. CASE chan'[t] = chan[t]
    BY <2>1, <2>2, OnceUnchanged
  <2>3. CASE t = s /\ chan' = [chan EXCEPT ![s] = Append(chan[s], sending[p])]
    <3>1. /\ chan[s] \in Seq(Nat) /\ sending[p] \in Nat
          /\ chan'[s] = Append(chan[s], sending[p])
      BY <2>3 DEF TypeOK
    <3>2. sending[p] \notin Given(s)
      BY <2>1 DEF HubInv, InFlight
    <3>3. /\ sending[p] \notin Elems(chan[s]) /\ sending[p] \notin got[s]
          /\ sending[p] \notin Elems(backlog[s])
      BY <3>2 DEF Given
    <3>4. Distinct(chan'[s])
      BY <3>1, <3>3, DistinctAppend DEF Once
    <3>5. Elems(chan'[s]) = Elems(chan[s]) \union {sending[p]}
      BY <3>1, ElemsAppend
    <3>6. Elems(chan'[s]) \intersect got'[s] = {}
      BY <2>1, <3>3, <3>5 DEF Once
    <3>7. Elems(backlog'[s]) \intersect (Elems(chan'[s]) \union got'[s]) = {}
      BY <2>1, <3>3, <3>5 DEF Once
    <3>8. QED
      BY <2>3, <3>4, <3>6, <3>7 DEF Once
  <2>4. QED
    BY <1>1, <2>2, <2>3 DEF PublishSend, Send, TypeOK
<1>2. ASSUME NEW s \in Subscribers, Receive(s), NEW t \in Subscribers PROVE Once(t)'
  <2>1. /\ chan'[s] = Tail(chan[s]) /\ got'[s] = got[s] \union {Head(chan[s])}
        /\ chan[s] # <<>> /\ chan[s] \in Seq(Nat)
        /\ \A u \in Subscribers \ {s} : chan'[u] = chan[u] /\ got'[u] = got[u]
        /\ backlog' = backlog
    BY <1>2 DEF Receive, TypeOK, subVars
  <2>2. Elems(chan[s]) = Elems(Tail(chan[s])) \union {Head(chan[s])}
    BY <2>1, ElemsTail
  <2>3. Distinct(Tail(chan[s])) /\ Head(chan[s]) \notin Elems(Tail(chan[s]))
    BY <2>1, DistinctTail DEF Once
  <2>4. Once(s)'
    BY <2>1, <2>2, <2>3 DEF Once
  <2>5. QED
    BY <2>1, <2>4, OnceUnchanged
<1>3. ASSUME NEW s \in Subscribers, Subscribe(s), NEW t \in Subscribers PROVE Once(t)'
  <2>1. chan' = chan /\ got' = got /\ \A u \in Subscribers \ {s} : backlog'[u] = backlog[u]
    BY <1>3 DEF Subscribe, TypeOK
  <2>2. Elems(chan[s]) = {} /\ got[s] = {}
    BY <1>3 DEF Subscribe, HubInv, Given
  <2>3. Once(s)'
    BY <2>1, <2>2 DEF Once
  <2>4. QED
    BY <2>1, <2>3, OnceUnchanged
<1>4. ASSUME UNCHANGED <<chan, got, backlog>>, NEW t \in Subscribers PROVE Once(t)'
  BY <1>4, OnceUnchanged
<1>5. QED
  BY <1>1, <1>2, <1>3, <1>4 DEF Next, PublishLocked, SubscribeClosed, Unsubscribe,
     CloseChannel, CloseFeed, feedVars, subVars, vars

\* NothingMissed of one event and one subscription.
Accounted(s, n) ==
    \/ n \in Given(s)
    \/ n \in dropped[s]
    \/ \E p \in Publishers : sending[p] = n /\ s \in todo[p]

LEMMA AccountedUnchanged ==
    ASSUME NEW s, NEW n, Accounted(s, n), Given(s) \subseteq Given(s)',
           dropped' = dropped, sending' = sending, todo' = todo
    PROVE  Accounted(s, n)'
  BY DEF Accounted

\* The turn of s ends in its channel or in dropped, unless it was closed.
LEMMA SendSettles ==
    ASSUME TypeOK, NEW p \in Publishers, NEW s \in Subscribers, PublishSend(p, s)
    PROVE  /\ \A t \in Subscribers : Given(t) \subseteq Given(t)'
           /\ \A t \in Subscribers : dropped[t] \subseteq dropped'[t]
           /\ status[s] = "open" => sending[p] \in Given(s)' \/ sending[p] \in dropped'[s]
<1>1. \A t \in Subscribers : Given(t) \subseteq Given(t)'
  BY SendGives
<1>2. \A t \in Subscribers : dropped[t] \subseteq dropped'[t]
  BY DEF PublishSend, Send, TypeOK
<1>3. CASE status[s] = "closed"
  BY <1>1, <1>2, <1>3
<1>4. CASE chan' = [chan EXCEPT ![s] = Append(chan[s], sending[p])]
  <2>1. /\ chan[s] \in Seq(Nat) /\ sending[p] \in Nat
        /\ chan'[s] = Append(chan[s], sending[p])
    BY <1>4 DEF TypeOK
  <2>2. sending[p] \in Elems(chan'[s])
    BY <2>1, ElemsAppend
  <2>3. QED
    BY <1>1, <1>2, <2>2 DEF Given
<1>5. CASE dropped' = [dropped EXCEPT ![s] = dropped[s] \union {sending[p]}]
  BY <1>1, <1>2, <1>5 DEF TypeOK
<1>6. QED
  BY <1>3, <1>4, <1>5 DEF PublishSend, Send

LEMMA MissedStep ==
    ASSUME TypeOK, HubInv, Registered, NothingMissed, [Next]_vars
    PROVE  NothingMissed'
<1> SUFFICES ASSUME NEW s \in subs', NEW n \in (joined'[s] + 1)..Len(log')
             PROVE  Accounted(s, n)'
  BY DEF NothingMissed, Accounted
<1>0. ASSUME s \in subs, n \in (joined[s] + 1)..Len(log) PROVE Accounted(s, n)
  BY <1>0 DEF NothingMissed, Accounted
<1>1. subs \subseteq Subscribers /\ Len(log) \in Nat
  BY DEF TypeOK
<1>2. ASSUME NEW p \in Publishers, PublishLocked(p) PROVE Accounted(s, n)'
  <2>1. /\ subs' = subs /\ joined' = joined /\ dropped' = dropped
        /\ Len(log') = Len(log) + 1 /\ todo[p] = {}
        /\ sending'[p] = Len(log) + 1 /\ todo'[p] = subs
        /\ \A q \in Publishers \ {p} : sending'[q] = sending[q] /\ todo'[q] = todo[q]
    BY <1>2 DEF PublishLocked, TypeOK, subVars
  <2>2. joined[s] \in Nat
    BY <1>1, <2>1 DEF TypeOK
  <2>3. CASE n = Len(log) + 1
    BY <2>1, <2>3 DEF Accounted
  <2>4. CASE n # Len(log) + 1
    <3>1. n \in (joined[s] + 1)..Len(log)
      BY <1>1, <2>1, <2>2, <2>4
    <3>2. Accounted(s, n)
      BY <1>0, <2>1, <3>1
    <3>3. Given(s)' = Given(s)
      BY <1>1, <1>2, <2>1, GivenUnchanged DEF PublishLocked, subVars
    <3>4. QED
      BY <2>1, <3>2, <3>3 DEF Accounted
  <2>5. QED
    BY <2>3, <2>4
<1>3. ASSUME NEW p \in Publishers, NEW t \in Subscribers, PublishSend(p, t)
      PROVE  Accounted(s, n)'
  <2>1. /\ subs' = subs /\ joined' = joined /\ log' = log /\ sending' = sending
        /\ todo'[p] = todo[p] \ {t}
        /\ \A q \in Publishers \ {p} : todo'[q] = todo[q]
    BY <1>3 DEF PublishSend, TypeOK, feedVars, subVars
  <2>2. Accounted(s, n)
    BY <1>0, <2>1
  <2>3. s \in Subscribers /\ Given(s) \subseteq Given(s)' /\ dropped[s] \subseteq dropped'[s]
    BY <1>1, <1>3, <2>1, SendSettles
  <2>4. CASE n \in Given(s) \/ n \in dropped[s]
    BY <2>3, <2>4 DEF Accounted
  <2>5. ASSUME NEW q \in Publishers, sending[q] = n, s \in todo[q]
        PROVE  Accounted(s, n)'
    <3>1. CASE q = p /\ s = t
      <4>1. status[s] = "open"
        BY <2>1 DEF Registered
      <4>2. n \in Given(s)' \/ n \in dropped'[s]
        BY <1>3, <2>5, <3>1, <4>1, SendSettles
      <4>3. QED
        BY <4>2 DEF Accounted
    <3>2. CASE ~(q = p /\ s = t)
      <4>1. s \in todo'[q] /\ sending'[q] = n
        BY <2>1, <2>5, <3>2
      <4>2. QED
        BY <4>1 DEF Accounted
    <3>3. QED
      BY <3>1, <3>2
  <2>6. QED
    BY <2>2, <2>4, <2>5 DEF Accounted
<1>4. ASSUME NEW t \in Subscribers, Subscribe(t) PROVE Accounted(s, n)'
  <2>1. /\ log' = log /\ subs' = subs \union {t} /\ joined'[t] = Len(log)
        /\ \A u \in Subscribers \ {t} : joined'[u] = joined[u] /\ Given(u)' = Given(u)
        /\ UNCHANGED <<dropped, sending, todo>>
    BY <1>4 DEF Subscribe, Given, TypeOK, pubVars
  <2>2. s # t
    BY <1>1, <2>1
  <2>3. Accounted(s, n) /\ Given(s) \subseteq Given(s)'
    BY <1>0, <1>1, <2>1, <2>2
  <2>4. QED
    BY <2>1, <2>3, AccountedUnchanged
<1>5. ASSUME NEW t \in Subscribers, Receive(t) PROVE Accounted(s, n)'
  <2>1. UNCHANGED <<log, subs, joined, dropped, sending, todo>>
    BY <1>5 DEF Receive, feedVars, subVars, pubVars
  <2>2. Given(s)' = Given(s)
    BY <1>1, <1>5, <2>1, ReceiveGives
  <2>3. QED
    BY <1>0, <2>1, <2>2, AccountedUnchanged
<1>6. ASSUME UNCHANGED <<log, joined, chan, got, backlog, dropped, sending, todo>>,
             subs' \subseteq subs
      PROVE  Accounted(s, n)'
  BY <1>0, <1>1, <1>6, GivenUnchanged, AccountedUnchanged
<1>7. QED
  BY <1>2, <1>3, <1>4, <1>5, <1>6 DEF Next, SubscribeClosed, Unsubscribe,
     CloseChannel, CloseFeed, feedVars, subVars, pubVars, vars

\* Between the replay and the stream nothing is lost and nothing comes twice,
\* however the publishers' sends, the subscriptions and the close interleave.
THEOREM DeliveryExact == Spec => []DeliveryIsExact
<1>1. Init => HubInv /\ Registered
  <2> SUFFICES ASSUME Init PROVE HubInv /\ Registered
    OBVIOUS
  <2>1. \A s \in Subscribers : Given(s) = {}
    BY DEF Init, Given, Elems
  <2>2. QED
    BY <2>1 DEF Init, HubInv, Registered
<1>2. Init => DeliveryIsExact
  BY DEF Init, DeliveryIsExact, NothingMissed, NoDuplicate, Elems
<1>3. TypeOK /\ HubInv /\ Registered /\ DeliveryIsExact /\ [Next]_vars => DeliveryIsExact'
  <2> SUFFICES ASSUME TypeOK, HubInv, Registered, DeliveryIsExact, [Next]_vars
               PROVE  DeliveryIsExact'
    OBVIOUS
  <2>1. NothingMissed'
    BY MissedStep DEF DeliveryIsExact
  <2>2. \A s \in Subscribers : Once(s)
    BY NoDuplicateIsOnce DEF DeliveryIsExact
  <2>3. \A s \in Subscribers : Once(s)'
    BY <2>2, OnceStep
  <2>4. NoDuplicate'
    BY <2>3 DEF NoDuplicate, Once, Distinct
  <2>5. QED
    BY <2>1, <2>4 DEF DeliveryIsExact
<1>4. QED
  BY <1>1, <1>2, <1>3, HubStep, RegisteredStep, HubTyped, ReplayIsLatest, PTL DEF Spec

-----------------------------------------------------------------------------
(* The connection is a subscriber of the hub.                              *)

\* What a step of the connection, or of those who publish, is for the hub.
LEMMA ServeStepIsHubStep == [ServeNext]_serveVars => [Next]_vars
<1> SUFFICES ASSUME [ServeNext]_serveVars PROVE [Next]_vars
  OBVIOUS
<1> USE SelfAssumption
<1>1. ASSUME NEW p \in Publishers, TakeSnapshot(p) \/ StoreSnapshot(p) \/ Publish(p)
      PROVE  [Next]_vars
  BY <1>1 DEF TakeSnapshot, StoreSnapshot, Publish, Next
<1>2. CASE OthersStep
  BY <1>2 DEF OthersStep, Next
<1>3. CASE UpgradeFails \/ ReadFrame \/ ClientLeaves \/ ReaderStep \/ HandleCommand
  BY <1>3 DEF UpgradeFails, ReadFrame, ClientLeaves, ReaderStep, ReadEnds, HandleCommand, Report
<1>4. CASE Lookup \/ NotFound \/ SendFirst \/ StartReader \/ Leave
  BY <1>4 DEF Lookup, NotFound, SendFirst, StartReader, Leave
<1>5. CASE Connect \/ Forward \/ Quit
  BY <1>5 DEF Connect, Forward, Quit, Next
<1>6. CASE UNCHANGED serveVars
  BY <1>6 DEF serveVars
<1>7. QED
  BY <1>1, <1>2, <1>3, <1>4, <1>5, <1>6 DEF ServeNext, MainStep

\* With any number of publishers and of other connections, the connection and
\* those who publish use the hub as EventHub has it.
LEMMA ConnectionUsesHub == ServeSpec => Spec
<1>1. ServeInit => Init
  BY DEF ServeInit
<1>2. QED
  BY <1>1, ServeStepIsHubStep, PTL DEF ServeSpec, Spec

\* So what EventHub promises holds while the handler comes and goes: every
\* subscriber is given what was published to it, once and in order, and the
\* feed is a BroadcastLog.
THEOREM ConnectionIsServed == ServeSpec => ImplementsBroadcastLog /\ []DeliveryIsExact
  BY ConnectionUsesHub, HubImplementsLog, DeliveryExact

-----------------------------------------------------------------------------
(* The view of a session.                                                  *)

Silent(s) == \A i \in 1..Len(s) : s[i] = Stateless

\* The last state that a list of versions carries is v.
Carries(s, v) ==
    /\ v # Stateless
    /\ \E i \in 1..Len(s) : s[i] = v /\ \A j \in (i + 1)..Len(s) : s[j] = Stateless

\* A client that has been shown w is shown v once it is sent s.
Ends(s, w, v) == Carries(s, v) \/ (Silent(s) /\ w = v)

ServeTyped ==
    /\ store \in Nat /\ versions \in Nat /\ holding \in [Publishers -> Nat]
    /\ carried \in Seq(Nat) /\ Len(carried) = Len(log)
    /\ crossed \in BOOLEAN
    /\ found \in Nat /\ view \in Nat /\ toSend \in Seq(Nat)

\* The last state published, and what the handler has read.
LastInv ==
    /\ last \in 0..Len(log)
    /\ last # 0 => carried[last] # Stateless
    /\ \A n \in 1..Len(log) : n > last => carried[n] = Stateless
    /\ looked \in 0..Len(log)

\* As long as no two publishers were sending to the connection at once, who is
\* sending to it sends the latest event.
AloneInv ==
    ~crossed => \A p \in Publishers : Self \in todo[p] =>
        /\ sending[p] = Len(log)
        /\ \A q \in Publishers : Self \in todo[q] => q = p

HandlerInv ==
    /\ main \in {"lookup", "upgrade"} => status[Self] = "none"
    /\ main = "upgrade" => found # Stateless
    /\ main = "loop" => toSend = <<>>
    /\ \A i \in 1..Len(chan[Self]) : chan[Self][i] > joined[Self]

\* The latest state was published before the subscription.  It is in the
\* replay, or further back than the replay goes.
Replayed ==
    \/ last # 0 /\ Ends(toSend, view, carried[last])
    \/ (last = 0 \/ last + Buffer <= joined[Self]) /\ Ends(toSend, view, found)

\* It was published since: it is on its way, in the channel or shown.
Streamed ==
    \/ \E p \in Publishers : Self \in todo[p] /\ sending[p] = last
    \/ \E i \in 1..Len(chan[Self]) :
          /\ chan[Self][i] = last
          /\ \A j \in (i + 1)..Len(chan[Self]) : carried[chan[Self][j]] = Stateless
    \/ /\ main = "loop" /\ (client = "there" => view = carried[last])
       /\ \A j \in 1..Len(chan[Self]) : carried[chan[Self][j]] = Stateless

ShownInv ==
    main \in {"send", "loop"} /\ Self \in subs /\ ~crossed =>
        IF last <= joined[Self] THEN client = "there" => Replayed
        ELSE last \notin dropped[Self] => Streamed

ServeInv == ServeTyped /\ LastInv /\ AloneInv /\ HandlerInv /\ ShownInv

HubFacts == TypeOK /\ RecentIsLatest /\ HubInv /\ Registered

LEMMA HubFactsInit == Init => HubFacts
<1> SUFFICES ASSUME Init PROVE HubFacts
  OBVIOUS
<1>1. \A s \in Subscribers : Given(s) = {}
  BY DEF Init, Given, Elems
<1>2. HubInv /\ Registered /\ RecentIsLatest
  BY <1>1, BufferAssumption DEF Init, HubInv, Registered, RecentIsLatest
<1>3. QED
  BY <1>2, HubInitTyped DEF HubFacts

LEMMA HubFactsStep == HubFacts /\ [Next]_vars => HubFacts'
  BY HubNextTyped, RecentStep, HubStep, RegisteredStep DEF HubFacts

\* What the hub's invariants say of the connection's own channel.
LEMMA OwnChannel ==
    ASSUME HubFacts
    PROVE  /\ Self \in Subscribers /\ Len(log) \in Nat /\ joined[Self] \in Nat
           /\ chan[Self] \in Seq(Nat)
           /\ \A i \in 1..Len(chan[Self]) : chan[Self][i] \in 1..Len(log)
           /\ \A p \in Publishers : Self \in todo[p] =>
                 sending[p] \in 1..Len(log) /\ joined[Self] < sending[p] /\ status[Self] # "none"
           /\ Self \in subs => status[Self] = "open" /\ ~closed /\ joined[Self] <= Len(log)
           /\ status[Self] = "none" => Self \notin subs /\ chan[Self] = <<>> /\ joined[Self] = 0
<1>1. Self \in Subscribers
  BY SelfAssumption
<1>2. /\ Len(log) \in Nat /\ chan[Self] \in Seq(Nat) /\ joined[Self] \in Nat
      /\ \A p \in Publishers : todo[p] \in SUBSET Subscribers
  BY <1>1 DEF HubFacts, TypeOK
<1>3. Given(Self) \subseteq 1..Len(log) /\ Elems(chan[Self]) \subseteq Given(Self)
  BY <1>1 DEF HubFacts, HubInv, Given
<1>4. \A i \in 1..Len(chan[Self]) : chan[Self][i] \in 1..Len(log)
  BY <1>3 DEF Elems
<1>5. ASSUME NEW p \in Publishers, Self \in todo[p]
      PROVE  sending[p] \in 1..Len(log) /\ joined[Self] < sending[p] /\ status[Self] # "none"
  BY <1>5 DEF HubFacts, HubInv, InFlight
<1>6. Self \in subs => status[Self] = "open" /\ ~closed /\ joined[Self] <= Len(log)
  BY DEF HubFacts, HubInv, Registered
<1>7. ASSUME status[Self] = "none"
      PROVE  Self \notin subs /\ chan[Self] = <<>> /\ joined[Self] = 0
  <2>1. Given(Self) = {} /\ Self \notin subs /\ joined[Self] = 0
    BY <1>1, <1>7 DEF HubFacts, HubInv
  <2>2. \A i \in 1..Len(chan[Self]) : FALSE
    BY <1>3, <2>1 DEF Elems
  <2>3. Len(chan[Self]) = 0
    BY <1>2, <2>2
  <2>4. QED
    BY <1>2, <2>1, <2>3
<1>8. QED
  BY <1>1, <1>2, <1>4, <1>5, <1>6, <1>7

LEMMA ServeInvInit == ServeInit => ServeInv
<1> SUFFICES ASSUME ServeInit PROVE ServeInv
  OBVIOUS
<1> USE DEF ServeInit, Stateless
<1>1. ServeTyped
  <2>1. holding \in [Publishers -> Nat] /\ store \in Nat /\ versions \in Nat /\ found \in Nat
        /\ view \in Nat /\ crossed \in BOOLEAN
    OBVIOUS
  <2>2. carried = <<>> /\ log = <<>> /\ toSend = <<>>
    BY DEF Init
  <2>3. QED
    BY <2>1, <2>2 DEF ServeTyped
<1>3. LastInv
  <2>1. Len(log) = 0 /\ last = 0 /\ looked = 0
    BY DEF Init
  <2>2. QED
    BY <2>1 DEF LastInv
<1>2. AloneInv /\ HandlerInv /\ ShownInv
  BY SelfAssumption DEF Init, AloneInv, HandlerInv, ShownInv
<1>4. QED
  BY <1>1, <1>2, <1>3 DEF ServeInv

\* A step that changes neither the feed nor what the client has been sent.
LEMMA QuietKeeps ==
    ASSUME ServeInv,
           UNCHANGED <<log, sending, carried, last, crossed, view>>,
           UNCHANGED <<chan[Self], joined[Self], dropped[Self]>>,
           \A p \in Publishers : Self \in todo'[p] <=> Self \in todo[p],
           Self \in subs' => Self \in subs,
           main' = main \/ main' \in {"upgrade", "done", "leave"} \/ (main = "send" /\ main' = "loop"),
           main' \in {"lookup", "upgrade"} => status'[Self] = "none",
           main' = "upgrade" => found' # Stateless,
           main' = "loop" => toSend' = <<>>,
           main' \in {"send", "loop"} =>
               UNCHANGED <<toSend, found>> /\ (client' = "there" => client = "there"),
           looked' \in 0..Len(log'), ServeTyped'
    PROVE  ServeInv'
<1>1. LastInv' /\ AloneInv' /\ HandlerInv'
  BY DEF ServeInv, LastInv, AloneInv, HandlerInv
<1>2. ShownInv'
  <2> SUFFICES ASSUME main' \in {"send", "loop"}, Self \in subs', ~crossed'
               PROVE  IF last <= joined[Self] THEN client' = "there" => Replayed'
                      ELSE last \notin dropped[Self] => Streamed'
    BY DEF ShownInv
  <2>1. main \in {"send", "loop"} /\ (main = "loop" => main' = "loop")
    OBVIOUS
  <2>2. UNCHANGED <<toSend, found>> /\ (client' = "there" => client = "there")
    OBVIOUS
  <2>3. Replayed => Replayed'
    BY <2>2 DEF Replayed, Ends, Carries, Silent
  <2>4. Streamed => Streamed'
    BY <2>1, <2>2 DEF Streamed
  <2>5. QED
    BY <2>1, <2>2, <2>3, <2>4 DEF ServeInv, ShownInv
<1>3. QED
  BY <1>1, <1>2 DEF ServeInv

LEMMA ConnectionKeeps ==
    ASSUME HubFacts, ServeInv,
           \/ \E p \in Publishers : TakeSnapshot(p) \/ StoreSnapshot(p)
           \/ Lookup \/ NotFound \/ UpgradeFails \/ StartReader \/ Leave \/ Quit
           \/ ReadFrame \/ ReaderStep \/ HandleCommand \/ ClientLeaves
    PROVE  ServeInv'
<1> USE DEF vars, feedVars, subVars, pubVars, stateVars, mainVars, connVars
<1>0. /\ ServeTyped /\ LastInv /\ HandlerInv /\ Len(log) \in Nat
  BY OwnChannel DEF ServeInv
<1>1. ASSUME NEW p \in Publishers, TakeSnapshot(p) \/ StoreSnapshot(p) PROVE ServeInv'
  <2>1. ServeTyped'
    <3>1. CASE TakeSnapshot(p)
      BY <1>0, <3>1 DEF TakeSnapshot, ServeTyped
    <3>2. CASE StoreSnapshot(p)
      <4>1. holding[p] \in Nat
        BY <1>0 DEF ServeTyped
      <4>2. QED
        BY <1>0, <3>2, <4>1 DEF StoreSnapshot, ServeTyped
    <3>3. QED
      BY <1>1, <3>1, <3>2
  <2>2. looked' \in 0..Len(log')
    BY <1>0, <1>1 DEF TakeSnapshot, StoreSnapshot, LastInv
  <2>3. QED
    BY <1>0, <1>1, <2>1, <2>2, QuietKeeps DEF TakeSnapshot, StoreSnapshot, HandlerInv
<1>2. CASE Lookup
  <2>1. ServeTyped' /\ looked' \in 0..Len(log') /\ found' # Stateless
    BY <1>0, <1>2 DEF Lookup, ServeTyped, Stateless
  <2>2. QED
    BY <1>0, <1>2, <2>1, QuietKeeps DEF Lookup, HandlerInv
<1>3. CASE NotFound \/ UpgradeFails
  <2>1. ServeTyped' /\ looked' \in 0..Len(log')
    BY <1>0, <1>3 DEF NotFound, UpgradeFails, ServeTyped, LastInv
  <2>2. QED
    BY <1>0, <1>3, <2>1, QuietKeeps DEF NotFound, UpgradeFails, HandlerInv
<1>4. CASE StartReader
  <2>1. ServeTyped' /\ looked' \in 0..Len(log')
    BY <1>0, <1>4 DEF StartReader, ServeTyped, LastInv
  <2>2. QED
    BY <1>0, <1>4, <2>1, QuietKeeps DEF StartReader, HandlerInv
<1>5. CASE Leave
  <2>1. ServeTyped' /\ looked' \in 0..Len(log')
    BY <1>0, <1>5 DEF Leave, ServeTyped, LastInv
  <2>2. QED
    BY <1>0, <1>5, <2>1, QuietKeeps DEF Leave, HandlerInv
<1>6. CASE Quit
  <2>1. ServeTyped' /\ looked' \in 0..Len(log')
    BY <1>0, <1>6 DEF Quit, Unsubscribe, ServeTyped, LastInv
  <2>2. Self \in subs' => Self \in subs
    BY <1>6 DEF Quit, Unsubscribe
  <2>3. QED
    BY <1>0, <1>6, <2>1, <2>2, QuietKeeps DEF Quit, Unsubscribe, HandlerInv
<1>7. CASE ReadFrame \/ ReaderStep \/ HandleCommand \/ ClientLeaves
  <2>1. /\ UNCHANGED <<vars, stateVars, mainVars>>
        /\ client' = "there" => client = "there"
    BY <1>7 DEF ReadFrame, ReaderStep, ReadEnds, HandleCommand, Report, ClientLeaves
  <2>2. ServeTyped' /\ looked' \in 0..Len(log')
    BY <1>0, <2>1 DEF ServeTyped, LastInv
  <2>3. QED
    BY <1>0, <2>1, <2>2, QuietKeeps DEF HandlerInv
<1>8. QED
  BY <1>1, <1>2, <1>3, <1>4, <1>5, <1>6, <1>7

\* A send to the connection: the event is the latest, hence the one with the
\* latest state or one without.
LEMMA SendKeeps ==
    ASSUME HubFacts, ServeInv, NEW p \in Publishers, PublishSend(p, Self),
           UNCHANGED <<stateVars, connVars>>
    PROVE  ServeInv'
<1> USE DEF stateVars, connVars, mainVars, feedVars, subVars
<1>1. /\ UNCHANGED <<log, subs, joined, sending, status, carried, last, crossed, main, found, looked,
                     toSend, view, client, store, versions, holding>>
      /\ Self \in todo[p] /\ todo' = [todo EXCEPT ![p] = todo[p] \ {Self}]
      /\ Send(p, Self)
  BY DEF PublishSend
<1>2. /\ chan[Self] \in Seq(Nat) /\ Len(log) \in Nat /\ joined[Self] \in Nat
      /\ sending[p] \in 1..Len(log) /\ joined[Self] < sending[p] /\ status[Self] # "none"
      /\ Self \in Subscribers
  BY <1>1, OwnChannel
<1>3. /\ todo \in [Publishers -> SUBSET Subscribers] /\ chan \in [Subscribers -> Seq(Nat)]
      /\ dropped \in [Subscribers -> SUBSET Nat]
  BY DEF HubFacts, TypeOK
<1>4. \A q \in Publishers : Self \in todo'[q] <=> Self \in todo[q] /\ q # p
  BY <1>1, <1>3
<1>5. \/ chan'[Self] = chan[Self] /\ dropped'[Self] = dropped[Self] /\ status[Self] = "closed"
      \/ chan'[Self] = Append(chan[Self], sending[p]) /\ dropped'[Self] = dropped[Self]
      \/ chan'[Self] = chan[Self] /\ dropped'[Self] = dropped[Self] \union {sending[p]}
  BY <1>1, <1>2, <1>3 DEF Send
<1> DEFINE c == chan[Self]
           d == Append(c, sending[p])
<1>6. /\ d \in Seq(Nat) /\ Len(d) = Len(c) + 1 /\ d[Len(c) + 1] = sending[p] /\ Len(c) \in Nat
      /\ \A i \in 1..Len(c) : d[i] = c[i]
  BY <1>2
<1> HIDE DEF d
<1>7. ServeTyped' /\ LastInv' /\ AloneInv'
  BY <1>1, <1>4 DEF ServeInv, ServeTyped, LastInv, AloneInv
<1>8. HandlerInv'
  <2>1. \A i \in 1..Len(chan'[Self]) : chan'[Self][i] > joined[Self]
    <3>1. CASE chan'[Self] = c
      BY <3>1 DEF ServeInv, HandlerInv
    <3>2. CASE chan'[Self] = d
      BY <1>2, <1>6, <3>2 DEF ServeInv, HandlerInv
    <3>3. QED
      BY <1>5, <3>1, <3>2 DEF d
  <2>2. QED
    BY <1>1, <2>1 DEF ServeInv, HandlerInv
<1>9. ShownInv'
  <2> SUFFICES ASSUME main \in {"send", "loop"}, Self \in subs, ~crossed
               PROVE  IF last <= joined[Self] THEN client = "there" => Replayed'
                      ELSE last \notin dropped'[Self] => Streamed'
    BY <1>1 DEF ShownInv
  <2>1. sending[p] = Len(log) /\ \A q \in Publishers : Self \in todo[q] => q = p
    BY <1>1 DEF ServeInv, AloneInv
  <2>2. sending[p] = last \/ carried[sending[p]] = Stateless
    BY <1>2, <2>1 DEF ServeInv, LastInv
  <2>3. Replayed => Replayed'
    BY <1>1 DEF Replayed, Ends, Carries, Silent
  <2>4. ASSUME last > joined[Self], last \notin dropped'[Self] PROVE Streamed'
    <3>1. Streamed
      BY <1>1, <1>2, <1>5, <2>4 DEF ServeInv, ShownInv, LastInv
    <3>2. CASE chan'[Self] = d /\ sending[p] = last
      <4>1. Len(d) \in 1..Len(d) /\ d[Len(d)] = last /\ \A j \in (Len(d) + 1)..Len(d) : FALSE
        BY <1>6, <3>2
      <4>2. QED
        BY <1>1, <3>2, <4>1 DEF Streamed
    <3>3. CASE chan'[Self] = d /\ sending[p] # last
      <4>0. carried[sending[p]] = Stateless
        BY <2>2, <3>3
      <4>9. ASSUME NEW j \in 1..Len(d), j \notin 1..Len(c) PROVE carried[d[j]] = Stateless
        <5>1. j = Len(c) + 1
          BY <1>6, <4>9
        <5>2. QED
          BY <1>6, <4>0, <5>1
      <4>1. ~\E q \in Publishers : Self \in todo[q] /\ sending[q] = last
        BY <2>1, <3>3
      <4>2. ASSUME NEW i \in 1..Len(c), c[i] = last,
                   \A j \in (i + 1)..Len(c) : carried[c[j]] = Stateless
            PROVE  Streamed'
        <5>1. i \in 1..Len(d) /\ d[i] = last
          BY <1>6, <4>2
        <5>2. \A j \in (i + 1)..Len(d) : carried[d[j]] = Stateless
          <6> SUFFICES ASSUME NEW j \in (i + 1)..Len(d) PROVE carried[d[j]] = Stateless
            OBVIOUS
          <6>1. j \in 1..Len(d) /\ i \in Nat
            BY <1>6, <5>1
          <6>2. CASE j \in 1..Len(c)
            BY <1>6, <4>2, <6>1, <6>2
          <6>3. QED
            BY <4>9, <6>1, <6>2
        <5>3. QED
          BY <1>1, <3>3, <5>1, <5>2 DEF Streamed
      <4>3. ASSUME main = "loop", client = "there" => view = carried[last],
                   \A j \in 1..Len(c) : carried[c[j]] = Stateless
            PROVE  Streamed'
        <5>1. \A j \in 1..Len(d) : carried[d[j]] = Stateless
          BY <1>6, <4>3, <4>9
        <5>2. QED
          BY <1>1, <3>3, <4>3, <5>1 DEF Streamed
      <4>4. QED
        BY <3>1, <4>1, <4>2, <4>3 DEF Streamed
    <3>4. CASE chan'[Self] = c
      <4>1. status[Self] = "open"
        BY OwnChannel
      <4>2. dropped'[Self] = dropped[Self] \union {sending[p]}
        <5>1. CASE chan'[Self] = d
          BY <1>6, <3>4, <5>1
        <5>2. QED
          BY <1>5, <4>1, <5>1 DEF d
      <4>3. sending[p] # last
        BY <2>4, <4>2
      <4>4. ~\E q \in Publishers : Self \in todo[q] /\ sending[q] = last
        BY <2>1, <4>3
      <4>5. QED
        BY <1>1, <3>1, <3>4, <4>4 DEF Streamed
    <3>5. QED
      BY <1>5, <3>2, <3>3, <3>4 DEF d
  <2>5. last \in Nat
    BY <1>2 DEF ServeInv, LastInv
  <2>6. CASE last <= joined[Self]
    BY <2>3, <2>6 DEF ServeInv, ShownInv
  <2>7. CASE ~(last <= joined[Self])
    BY <1>2, <2>4, <2>5, <2>7
  <2>8. QED
    BY <2>6, <2>7
<1>10. QED
  BY <1>7, <1>8, <1>9 DEF ServeInv

\* What the hub does for its other users.
LEMMA OthersKeep == HubFacts /\ ServeInv /\ OthersStep => ServeInv'
<1> SUFFICES ASSUME HubFacts, ServeInv, OthersStep PROVE ServeInv'
  OBVIOUS
<1> USE DEF stateVars, connVars, mainVars, feedVars, subVars, pubVars
<1>0. /\ ServeTyped /\ LastInv /\ HandlerInv /\ Self \in Subscribers
      /\ todo \in [Publishers -> SUBSET Subscribers] /\ chan \in [Subscribers -> Seq(Nat)]
      /\ dropped \in [Subscribers -> SUBSET Nat] /\ joined \in [Subscribers -> Nat]
      /\ status \in [Subscribers -> {"none", "open", "closed"}]
  BY OwnChannel DEF ServeInv, HubFacts, TypeOK
<1>1. UNCHANGED <<stateVars, connVars>>
  BY DEF OthersStep
<1>2. ASSUME UNCHANGED log PROVE ServeTyped' /\ looked' \in 0..Len(log')
  BY <1>0, <1>1, <1>2 DEF ServeTyped, LastInv
<1>3. ASSUME UNCHANGED <<log, sending>>, UNCHANGED <<chan[Self], joined[Self], dropped[Self]>>,
             status'[Self] = status[Self] \/ status[Self] # "none",
             \A p \in Publishers : Self \in todo'[p] <=> Self \in todo[p],
             Self \in subs' => Self \in subs
      PROVE  ServeInv'
  <2>1. main' \in {"lookup", "upgrade"} => status'[Self] = "none"
    <3>1. CASE main' \in {"lookup", "upgrade"}
      BY <1>0, <1>1, <1>3, <3>1 DEF HandlerInv
    <3>2. QED
      BY <3>1
  <2>2. QED
    BY <1>0, <1>1, <1>2, <1>3, <2>1, QuietKeeps DEF HandlerInv
<1>4. ASSUME NEW p \in Publishers, NEW s \in Subscribers, PublishSend(p, s) PROVE ServeInv'
  <2>1. CASE s = Self
    BY <1>1, <1>4, <2>1, SendKeeps
  <2>2. CASE s # Self
    BY <1>0, <1>3, <1>4, <2>2 DEF PublishSend, Send
  <2>3. QED
    BY <2>1, <2>2
<1>5. ASSUME NEW s \in Subscribers \ {Self},
             Subscribe(s) \/ SubscribeClosed(s) \/ Receive(s) \/ Unsubscribe(s)
      PROVE  ServeInv'
  <2>1. CASE Subscribe(s)
    BY <1>0, <1>3, <1>5, <2>1 DEF Subscribe
  <2>2. CASE SubscribeClosed(s)
    BY <1>0, <1>3, <1>5, <2>2 DEF SubscribeClosed
  <2>3. CASE Receive(s)
    BY <1>0, <1>3, <1>5, <2>3 DEF Receive
  <2>4. CASE Unsubscribe(s)
    BY <1>0, <1>3, <1>5, <2>4 DEF Unsubscribe
  <2>5. QED
    BY <1>5, <2>1, <2>2, <2>3, <2>4
<1>6. CASE CloseFeed
  BY <1>0, <1>3, <1>6 DEF CloseFeed
<1>7. ASSUME NEW s \in Subscribers, CloseChannel(s) PROVE ServeInv'
  BY <1>0, <1>3, <1>7 DEF CloseChannel
<1>8. QED
  BY <1>4, <1>5, <1>6, <1>7 DEF OthersStep

\* The next of a list is sent.
LEMMA EndsTail ==
    ASSUME NEW s \in Seq(Nat), s # <<>>, NEW w, NEW u, NEW v, Ends(s, w, v),
           u = IF Head(s) = Stateless THEN w ELSE Head(s)
    PROVE  Ends(Tail(s), u, v)
<1>1. /\ Len(s) \in Nat /\ Len(s) >= 1 /\ Len(Tail(s)) = Len(s) - 1 /\ Head(s) = s[1]
      /\ \A i \in 1..(Len(s) - 1) : Tail(s)[i] = s[i + 1]
  OBVIOUS
<1>2. ASSUME Silent(s), w = v PROVE Ends(Tail(s), u, v)
  BY <1>1, <1>2 DEF Silent, Ends
<1>3. ASSUME v # Stateless, NEW i \in 1..Len(s), s[i] = v,
             \A j \in (i + 1)..Len(s) : s[j] = Stateless
      PROVE  Ends(Tail(s), u, v)
  <2>1. CASE i = 1
    <3>1. u = v
      BY <1>1, <1>3, <2>1
    <3>2. Silent(Tail(s))
      BY <1>1, <1>3, <2>1 DEF Silent
    <3>3. QED
      BY <3>1, <3>2 DEF Ends
  <2>2. CASE i # 1
    <3>1. i - 1 \in 1..Len(Tail(s)) /\ Tail(s)[i - 1] = v
      BY <1>1, <1>3, <2>2
    <3>2. \A j \in ((i - 1) + 1)..Len(Tail(s)) : Tail(s)[j] = Stateless
      BY <1>1, <1>3, <2>2
    <3>3. QED
      BY <1>3, <3>1, <3>2 DEF Ends, Carries
  <2>3. QED
    BY <2>1, <2>2
<1>4. QED
  BY <1>2, <1>3 DEF Ends, Carries

LEMMA SendFirstKeeps == HubFacts /\ ServeInv /\ SendFirst => ServeInv'
<1> SUFFICES ASSUME HubFacts, ServeInv, SendFirst PROVE ServeInv'
  OBVIOUS
<1> USE DEF vars, feedVars, subVars, pubVars, stateVars
<1>1. /\ main = "send" /\ toSend # <<>> /\ Write(Head(toSend)) /\ toSend' = Tail(toSend)
      /\ UNCHANGED <<vars, stateVars, main, found, looked, client>>
  BY DEF SendFirst
<1>2. /\ toSend \in Seq(Nat) /\ view \in Nat /\ Head(toSend) \in Nat /\ Tail(toSend) \in Seq(Nat)
  BY <1>1 DEF ServeInv, ServeTyped
<1>3. ServeTyped'
  BY <1>1, <1>2 DEF ServeInv, ServeTyped, Write
<1>4. LastInv' /\ AloneInv' /\ HandlerInv'
  BY <1>1 DEF ServeInv, LastInv, AloneInv, HandlerInv
<1>5. client = "there" => view' = IF Head(toSend) = Stateless THEN view ELSE Head(toSend)
  BY <1>1 DEF Write
<1>6. client = "there" /\ Replayed => Replayed'
  BY <1>1, <1>2, <1>5, EndsTail DEF Replayed
<1>7. Streamed => Streamed'
  BY <1>1 DEF Streamed
<1>8. ShownInv'
  BY <1>1, <1>6, <1>7 DEF ServeInv, ShownInv
<1>9. QED
  BY <1>3, <1>4, <1>8 DEF ServeInv

LEMMA ForwardKeeps == HubFacts /\ ServeInv /\ Forward => ServeInv'
<1> SUFFICES ASSUME HubFacts, ServeInv, Forward PROVE ServeInv'
  OBVIOUS
<1> USE DEF feedVars, subVars, pubVars, stateVars
<1> DEFINE c == chan[Self]
           e == carried[Head(c)]
<1>1. /\ main = "loop" /\ c # <<>> /\ Write(e) /\ chan' = [chan EXCEPT ![Self] = Tail(c)]
      /\ UNCHANGED <<feedVars, subVars, dropped, pubVars, stateVars, main, found, looked, toSend, client>>
  BY DEF Forward, Receive
<1>2. /\ c \in Seq(Nat) /\ Self \in Subscribers /\ chan \in [Subscribers -> Seq(Nat)]
      /\ \A i \in 1..Len(c) : c[i] \in 1..Len(log)
      /\ Len(log) \in Nat /\ joined[Self] \in Nat
  BY OwnChannel DEF HubFacts, TypeOK
<1>3. /\ chan'[Self] = Tail(c) /\ Head(c) = c[1] /\ Len(c) \in Nat /\ Len(c) >= 1
      /\ Len(Tail(c)) = Len(c) - 1 /\ \A i \in 1..(Len(c) - 1) : Tail(c)[i] = c[i + 1]
  BY <1>1, <1>2
<1>4. e \in Nat /\ view \in Nat
  <2>1. Head(c) \in 1..Len(log)
    BY <1>2, <1>3
  <2>2. carried \in Seq(Nat) /\ Len(carried) = Len(log) /\ view \in Nat
    BY DEF ServeInv, ServeTyped
  <2>3. QED
    BY <2>1, <2>2, ElementOfSeq
<1>5. client = "there" => view' = IF e = Stateless THEN view ELSE e
  BY <1>1 DEF Write
<1> HIDE DEF c, e
<1>6. ServeTyped'
  BY <1>1, <1>4 DEF ServeInv, ServeTyped, Write
<1>7. LastInv' /\ AloneInv'
  BY <1>1 DEF ServeInv, LastInv, AloneInv
<1>8. HandlerInv'
  <2>1. \A i \in 1..Len(c) : c[i] > joined[Self]
    BY DEF ServeInv, HandlerInv, c
  <2>2. \A i \in 1..Len(chan'[Self]) : chan'[Self][i] > joined[Self]
    BY <1>3, <2>1
  <2>3. QED
    BY <1>1, <2>2 DEF ServeInv, HandlerInv
<1>9. ShownInv'
  <2> SUFFICES ASSUME Self \in subs, ~crossed
               PROVE  IF last <= joined[Self] THEN client = "there" => Replayed'
                      ELSE last \notin dropped[Self] => Streamed'
    BY <1>1 DEF ShownInv
  <2>0. /\ last \in 0..Len(log) /\ \A n \in 1..Len(log) : n > last => carried[n] = Stateless
    BY DEF ServeInv, LastInv
  <2>1. ASSUME last <= joined[Self], client = "there" PROVE Replayed'
    <3>1. c[1] > joined[Self] /\ c[1] \in 1..Len(log)
      BY <1>2, <1>3 DEF ServeInv, HandlerInv, c
    <3>2. e = Stateless
      BY <1>2, <1>3, <2>0, <2>1, <3>1 DEF e
    <3>3. view' = view
      BY <1>5, <2>1, <3>2
    <3>4. Replayed
      BY <1>1, <2>1 DEF ServeInv, ShownInv
    <3>5. QED
      BY <1>1, <3>3, <3>4 DEF Replayed, Ends, Carries, Silent
  <2>2. ASSUME ~(last <= joined[Self]), last \notin dropped[Self] PROVE Streamed'
    <3>1. Streamed
      BY <1>1, <2>2 DEF ServeInv, ShownInv
    <3>2. ASSUME NEW p \in Publishers, Self \in todo[p], sending[p] = last PROVE Streamed'
      BY <1>1, <3>2 DEF Streamed
    <3>3. ASSUME NEW i \in 1..Len(c), c[i] = last,
                 \A j \in (i + 1)..Len(c) : carried[c[j]] = Stateless
          PROVE  Streamed'
      <4>1. CASE i = 1
        <5>1. e = carried[last] /\ last # 0
          BY <1>2, <1>3, <3>3, <4>1, <2>0 DEF e
        <5>2. e # Stateless
          BY <5>1 DEF ServeInv, LastInv
        <5>3. client = "there" => view' = carried[last]
          BY <1>5, <5>1, <5>2
        <5>4. \A j \in 1..Len(Tail(c)) : carried[Tail(c)[j]] = Stateless
          BY <1>3, <3>3, <4>1
        <5>5. QED
          BY <1>1, <1>3, <5>3, <5>4 DEF Streamed
      <4>2. CASE i # 1
        <5>1. i - 1 \in 1..Len(Tail(c)) /\ Tail(c)[i - 1] = last
          BY <1>3, <3>3, <4>2
        <5>2. \A j \in ((i - 1) + 1)..Len(Tail(c)) : carried[Tail(c)[j]] = Stateless
          BY <1>3, <3>3, <4>2
        <5>3. QED
          BY <1>1, <1>3, <5>1, <5>2 DEF Streamed
      <4>3. QED
        BY <4>1, <4>2
    <3>4. ASSUME client = "there" => view = carried[last],
                 \A j \in 1..Len(c) : carried[c[j]] = Stateless
          PROVE  Streamed'
      <4>1. e = Stateless
        BY <1>3, <3>4 DEF e
      <4>2. \A j \in 1..Len(Tail(c)) : carried[Tail(c)[j]] = Stateless
        BY <1>3, <3>4
      <4>3. QED
        BY <1>1, <1>3, <1>5, <3>4, <4>1, <4>2 DEF Streamed
    <3>5. QED
      BY <3>1, <3>2, <3>3, <3>4 DEF Streamed, c
  <2>3. QED
    BY <2>1, <2>2
<1>10. QED
  BY <1>6, <1>7, <1>8, <1>9 DEF ServeInv

LEMMA PublishKeeps ==
    ASSUME HubFacts, ServeInv, NEW p \in Publishers, Publish(p)
    PROVE  ServeInv'
<1> USE DEF connVars, mainVars, subVars
<1> DEFINE n == Len(log) + 1
<1>1. /\ todo[p] = {} /\ log' = Append(log, p) /\ ~closed
      /\ sending' = [sending EXCEPT ![p] = n] /\ todo' = [todo EXCEPT ![p] = subs]
      /\ UNCHANGED <<subs, chan, joined, dropped, status, store, versions, holding, main, found,
                     looked, toSend, view, client>>
      /\ crossed' = (crossed \/ \E q \in Publishers : Self \in todo[q])
  BY DEF Publish, PublishLocked
<1>2. PICK v \in {Stateless, holding[p]} :
          /\ carried' = Append(carried, v)
          /\ last' = IF v = Stateless THEN last ELSE Len(carried')
  BY DEF Publish
<1>3. /\ Len(log) \in Nat /\ joined[Self] \in Nat /\ Self \in Subscribers
      /\ \A i \in 1..Len(chan[Self]) : chan[Self][i] \in 1..Len(log)
      /\ chan[Self] \in Seq(Nat)
      /\ Self \in subs => joined[Self] <= Len(log)
  BY OwnChannel
<1>4. /\ sending \in [Publishers -> Nat] /\ todo \in [Publishers -> SUBSET Subscribers]
      /\ log \in Seq(Publishers)
  BY DEF HubFacts, TypeOK
<1>5. carried \in Seq(Nat) /\ Len(carried) = Len(log) /\ v \in Nat
  BY DEF ServeInv, ServeTyped, Stateless
<1>6. /\ carried' \in Seq(Nat) /\ Len(carried') = n /\ carried'[n] = v /\ Len(log') = n
      /\ \A i \in 1..Len(log) : carried'[i] = carried[i]
  BY <1>1, <1>2, <1>3, <1>4, <1>5
<1>7. /\ sending'[p] = n /\ todo'[p] = subs
      /\ \A q \in Publishers \ {p} : sending'[q] = sending[q] /\ todo'[q] = todo[q]
  BY <1>1, <1>4
<1>8. /\ last \in 0..Len(log) /\ (last # 0 => carried[last] # Stateless)
      /\ \A i \in 1..Len(log) : i > last => carried[i] = Stateless
      /\ looked \in 0..Len(log)
  BY DEF ServeInv, LastInv
<1>9. ServeTyped'
  BY <1>1, <1>6 DEF ServeInv, ServeTyped
<1>10. last' = IF v = Stateless THEN last ELSE n
  BY <1>2, <1>6
<1>11. LastInv'
  <2>1. last' \in 0..Len(log') /\ looked' \in 0..Len(log')
    BY <1>1, <1>3, <1>6, <1>8, <1>10
  <2>2. last' # 0 => carried'[last'] # Stateless
    BY <1>3, <1>6, <1>8, <1>10
  <2>3. ASSUME NEW i \in 1..Len(log'), i > last' PROVE carried'[i] = Stateless
    <3>1. v = Stateless /\ last' = last
      BY <1>3, <1>6, <1>10, <2>3
    <3>2. CASE i = n
      BY <1>6, <3>1, <3>2
    <3>3. CASE i # n
      <4>1. i \in 1..Len(log)
        BY <1>3, <1>6, <2>3, <3>3
      <4>2. QED
        BY <1>6, <1>8, <2>3, <3>1, <4>1
    <3>4. QED
      BY <3>2, <3>3
  <2>4. QED
    BY <2>1, <2>2, <2>3 DEF LastInv
<1>12. ~crossed' => ~crossed /\ \A q \in Publishers : Self \notin todo[q]
  BY <1>1
<1>13. AloneInv'
  BY <1>6, <1>7, <1>12 DEF AloneInv
<1>14. HandlerInv'
  BY <1>1 DEF ServeInv, HandlerInv
<1>15. ShownInv'
  <2> SUFFICES ASSUME main \in {"send", "loop"}, Self \in subs, ~crossed'
               PROVE  IF last' <= joined[Self] THEN client = "there" => Replayed'
                      ELSE last' \notin dropped[Self] => Streamed'
    BY <1>1 DEF ShownInv
  <2>1. CASE v # Stateless
    <3>1. last' = n /\ ~(n <= joined[Self])
      BY <1>3, <1>10, <2>1
    <3>2. Self \in todo'[p] /\ sending'[p] = last'
      BY <1>7, <3>1
    <3>3. QED
      BY <3>1, <3>2 DEF Streamed
  <2>2. CASE v = Stateless
    <3>1. last' = last
      BY <1>10, <2>2
    <3>2. last # 0 => carried'[last] = carried[last]
      BY <1>6, <1>8
    <3>3. Replayed => Replayed'
      BY <1>1, <3>1, <3>2 DEF Replayed, Ends, Carries, Silent
    <3>4. ASSUME ~(last <= joined[Self]), last \notin dropped[Self] PROVE Streamed'
      <4>1. Streamed /\ last # 0
        BY <1>3, <1>12, <3>4 DEF ServeInv, ShownInv
      <4>2. \A j \in 1..Len(chan[Self]) : carried'[chan[Self][j]] = carried[chan[Self][j]]
        BY <1>3, <1>6
      <4>3. ~\E q \in Publishers : Self \in todo[q] /\ sending[q] = last
        BY <1>12
      <4>4. ASSUME NEW i \in 1..Len(chan[Self]), chan[Self][i] = last,
                   \A j \in (i + 1)..Len(chan[Self]) : carried[chan[Self][j]] = Stateless
            PROVE  Streamed'
        <5>1. ASSUME NEW j \in (i + 1)..Len(chan[Self])
              PROVE  carried'[chan[Self][j]] = Stateless
          <6>1. j \in 1..Len(chan[Self])
            BY <1>3
          <6>2. QED
            BY <4>2, <4>4, <6>1
        <5>2. QED
          BY <1>1, <3>1, <4>4, <5>1 DEF Streamed
      <4>5. ASSUME main = "loop", client = "there" => view = carried[last],
                   \A j \in 1..Len(chan[Self]) : carried[chan[Self][j]] = Stateless
            PROVE  Streamed'
        BY <1>1, <3>1, <3>2, <4>1, <4>2, <4>5 DEF Streamed
      <4>6. QED
        BY <4>1, <4>3, <4>4, <4>5 DEF Streamed
    <3>5. QED
      BY <1>12, <3>1, <3>3, <3>4 DEF ServeInv, ShownInv
  <2>3. QED
    BY <2>1, <2>2
<1>16. QED
  BY <1>9, <1>11, <1>13, <1>14, <1>15 DEF ServeInv

\* The list the handler sends first ends with the replay, or with what was read
\* when the replay has no state.
LEMMA ConnectKeeps == HubFacts /\ ServeInv /\ Connect => ServeInv'
<1> SUFFICES ASSUME HubFacts, ServeInv, Connect PROVE ServeInv'
  OBVIOUS
<1> USE DEF pubVars, stateVars, feedVars
<1>1. /\ main = "upgrade" /\ main' = "send" /\ (Subscribe(Self) \/ SubscribeClosed(Self))
      /\ toSend' = <<found>> \o Versions(backlog'[Self]) \o <<Stateless>>
      /\ UNCHANGED <<stateVars, found, looked, view, client>>
  BY DEF Connect
<1>2. UNCHANGED <<log, recent, chan, dropped, sending, todo>>
  BY <1>1 DEF Subscribe, SubscribeClosed
<1>3. /\ Len(log) \in Nat /\ Self \in Subscribers /\ chan[Self] = <<>> /\ Self \notin subs
      /\ \A p \in Publishers : Self \notin todo[p]
  <2>1. status[Self] = "none"
    BY <1>1 DEF Subscribe, SubscribeClosed
  <2>2. QED
    BY <2>1, OwnChannel
<1>4. /\ recent \in Seq(Nat) /\ backlog \in [Subscribers -> Seq(Nat)]
      /\ joined \in [Subscribers -> Nat]
      /\ \A i \in 1..Len(recent) : recent[i] \in Nat /\ recent[i] + Len(recent) = Len(log) + i
      /\ Len(recent) = IF Len(log) < Buffer THEN Len(log) ELSE Buffer
  <2>1. recent \in Seq(Nat)
    BY DEF HubFacts, TypeOK
  <2>2. \A i \in 1..Len(recent) : recent[i] \in Nat
    BY <2>1, ElementOfSeq
  <2>3. QED
    BY <2>1, <2>2 DEF HubFacts, TypeOK, RecentIsLatest
<1>5. /\ carried \in Seq(Nat) /\ Len(carried) = Len(log) /\ found \in Nat /\ found # Stateless
      /\ \A n \in 1..Len(log) : carried[n] \in Nat
  <2>1. carried \in Seq(Nat) /\ Len(carried) = Len(log) /\ found \in Nat /\ found # Stateless
    BY <1>1 DEF ServeInv, ServeTyped, HandlerInv
  <2>2. QED
    BY <2>1, ElementOfSeq
<1>6. /\ last \in 0..Len(log) /\ (last # 0 => carried[last] # Stateless)
      /\ \A n \in 1..Len(log) : n > last => carried[n] = Stateless
      /\ Buffer \in Nat
  BY BufferAssumption DEF ServeInv, LastInv
<1> DEFINE b == backlog'[Self]
           m == Versions(b)
<1>7. b = <<>> \/ b = recent
  <2>1. CASE Subscribe(Self)
    BY <1>3, <1>4, <2>1 DEF Subscribe
  <2>2. CASE SubscribeClosed(Self)
    <3>1. Given(Self) = {} /\ backlog' = backlog
      BY <1>3, <2>2 DEF SubscribeClosed, HubFacts, HubInv
    <3>2. backlog[Self] \in Seq(Nat)
      BY <1>3, <1>4
    <3>3. Elems(backlog[Self]) = {}
      BY <3>1 DEF Given
    <3>4. \A i \in 1..Len(backlog[Self]) : FALSE
      BY <3>3 DEF Elems
    <3>5. backlog[Self] = <<>>
      BY <3>2, <3>4
    <3>6. QED
      BY <3>1, <3>5
  <2>3. QED
    BY <1>1, <2>1, <2>2
<1>8. b \in Seq(Nat) /\ Len(b) \in Nat /\ \A i \in 1..Len(b) : b[i] \in 1..Len(log)
  <2>1. CASE b = <<>>
    BY <2>1
  <2>2. CASE b = recent
    BY <1>3, <1>4, <1>6, <2>2
  <2>3. QED
    BY <1>7, <2>1, <2>2
<1>9. m \in Seq(Nat) /\ Len(m) = Len(b) /\ \A i \in 1..Len(b) : m[i] = carried[b[i]]
  <2> HIDE DEF b
  <2>1. \A i \in 1..Len(b) : carried[b[i]] \in Nat
    BY <1>5, <1>8
  <2>2. m \in [1..Len(b) -> Nat]
    BY <2>1 DEF Versions
  <2>3. m \in Seq(Nat) /\ Len(m) = Len(b)
    BY <1>8, <2>2
  <2>4. QED
    BY <2>3 DEF Versions
<1> HIDE DEF b, m
<1>10. /\ toSend' = <<found>> \o m \o <<Stateless>>
       /\ toSend' \in Seq(Nat) /\ Len(toSend') = Len(b) + 2 /\ toSend'[1] = found
       /\ \A i \in 1..Len(b) : toSend'[i + 1] = m[i]
       /\ toSend'[Len(b) + 2] = Stateless
  <2> DEFINE t == <<found>> \o m
  <2>1. /\ t \in Seq(Nat) /\ Len(t) = Len(b) + 1 /\ t[1] = found
        /\ \A i \in 1..Len(b) : t[i + 1] = m[i]
    BY <1>5, <1>8, <1>9
  <2> HIDE DEF t
  <2>2. Stateless \in Nat
    BY DEF Stateless
  <2>3. /\ t \o <<Stateless>> \in Seq(Nat) /\ Len(t \o <<Stateless>>) = Len(b) + 2
        /\ \A i \in 1..(Len(b) + 1) : (t \o <<Stateless>>)[i] = t[i]
        /\ (t \o <<Stateless>>)[Len(b) + 2] = Stateless
    BY <1>8, <2>1, <2>2
  <2>4. toSend' = t \o <<Stateless>>
    BY <1>1 DEF t, m, b
  <2>5. QED
    BY <1>8, <2>1, <2>3, <2>4 DEF t
<1>11. ServeTyped'
  BY <1>1, <1>2, <1>10 DEF ServeInv, ServeTyped
<1>12. LastInv' /\ AloneInv' /\ HandlerInv'
  BY <1>1, <1>2, <1>3 DEF ServeInv, LastInv, AloneInv, HandlerInv
<1>13. ShownInv'
  <2> SUFFICES ASSUME Self \in subs' PROVE last <= joined'[Self] /\ Replayed'
    BY <1>1, <1>2 DEF ShownInv
  <2>1. Subscribe(Self)
    BY <1>1, <1>3 DEF SubscribeClosed
  <2>2. joined'[Self] = Len(log) /\ b = recent
    BY <1>3, <1>4, <2>1 DEF Subscribe, b
  <2>3. CASE last # 0 /\ last + Len(recent) > Len(log)
    <3> DEFINE i == last + Len(recent) - Len(log)
    <3>1. i \in 1..Len(recent) /\ recent[i] = last /\ i \in Nat
      <4>1. /\ Len(recent) \in Nat /\ Len(log) \in Nat /\ last \in Nat /\ last # 0 /\ last <= Len(log)
            /\ \A k \in 1..Len(recent) : recent[k] \in Nat
        BY <1>3, <1>4, <1>6, <2>3
      <4>2. i \in 1..Len(recent)
        BY <2>3, <4>1
      <4>3. recent[i] + Len(recent) = Len(log) + i /\ recent[i] \in Nat
        BY <1>4, <4>2
      <4>4. QED
        BY <4>1, <4>2, <4>3
    <3> HIDE DEF i
    <3>2. i + 1 \in 1..Len(toSend') /\ toSend'[i + 1] = carried[last]
      <4>1. i \in 1..Len(b) /\ b[i] = last
        BY <2>2, <3>1
      <4>2. toSend'[i + 1] = m[i] /\ m[i] = carried[b[i]]
        BY <1>9, <1>10, <4>1
      <4>3. i + 1 \in 1..Len(toSend')
        BY <1>8, <1>10, <4>1
      <4>4. QED
        BY <4>1, <4>2, <4>3
    <3>3. ASSUME NEW j \in ((i + 1) + 1)..Len(toSend') PROVE toSend'[j] = Stateless
      <4>1. CASE j = Len(b) + 2
        BY <1>10, <4>1
      <4>2. CASE j # Len(b) + 2
        <5>1. j - 1 \in 1..Len(b) /\ toSend'[j] = m[j - 1] /\ j - 1 > i
          <6>1. j - 1 \in 1..Len(b) /\ j - 1 > i /\ (j - 1) + 1 = j
            <7>1. Len(toSend') = Len(b) + 2 /\ Len(b) \in Nat
              BY <1>8, <1>10
            <7>2. QED
              BY <3>1, <4>2, <7>1
          <6>2. QED
            BY <1>10, <6>1
        <5>2. recent[j - 1] \in 1..Len(log) /\ recent[j - 1] > last
          <6>1. recent[j - 1] \in 1..Len(log)
            BY <1>8, <2>2, <5>1
          <6>2. /\ recent[j - 1] + Len(recent) = Len(log) + (j - 1)
                /\ recent[i] + Len(recent) = Len(log) + i
            BY <1>4, <2>2, <3>1, <5>1
          <6>3. j - 1 \in Int /\ Len(recent) \in Int /\ Len(log) \in Int /\ last \in Int
            BY <1>3, <1>6, <1>8, <2>2
          <6>4. QED
            BY <3>1, <5>1, <6>1, <6>2, <6>3
        <5>3. QED
          BY <1>6, <1>9, <2>2, <5>1, <5>2
      <4>3. QED
        BY <4>1, <4>2
    <3>4. Carries(toSend', carried[last])
      BY <1>6, <2>3, <3>2, <3>3 DEF Carries
    <3>5. QED
      <4>1. last' = last /\ carried' = carried /\ last <= joined'[Self]
        BY <1>1, <1>3, <1>6, <2>2
      <4>2. QED
        BY <2>3, <3>4, <4>1 DEF Replayed, Ends
  <2>4. CASE last = 0 \/ ~(last + Len(recent) > Len(log))
    <3>1. ASSUME NEW j \in (1 + 1)..Len(toSend') PROVE toSend'[j] = Stateless
      <4>1. CASE j = Len(b) + 2
        BY <1>10, <4>1
      <4>2. CASE j # Len(b) + 2
        <5>1. j - 1 \in 1..Len(b) /\ toSend'[j] = m[j - 1]
          <6>1. j - 1 \in 1..Len(b) /\ (j - 1) + 1 = j
            BY <1>8, <1>10, <3>1, <4>2
          <6>2. QED
            BY <1>10, <6>1
        <5>2. recent[j - 1] \in 1..Len(log) /\ recent[j - 1] > last
          <6>1. recent[j - 1] \in 1..Len(log)
            BY <1>8, <2>2, <5>1
          <6>2. recent[j - 1] + Len(recent) = Len(log) + (j - 1)
            BY <1>4, <2>2, <5>1
          <6>3. j - 1 \in 1..Len(recent) /\ Len(recent) \in Nat /\ Len(log) \in Nat /\ last \in Nat
            BY <1>3, <1>6, <1>8, <2>2, <5>1
          <6>4. QED
            BY <2>4, <6>1, <6>2, <6>3
        <5>3. QED
          BY <1>6, <1>9, <2>2, <5>1, <5>2
      <4>3. QED
        BY <4>1, <4>2
    <3>2. Carries(toSend', found)
      <4>1. 1 \in 1..Len(toSend')
        BY <1>8, <1>10
      <4>2. QED
        BY <1>5, <1>10, <3>1, <4>1 DEF Carries
    <3>3. last = 0 \/ last + Buffer <= joined'[Self]
      BY <1>3, <1>4, <1>6, <2>2, <2>4
    <3>4. QED
      BY <1>1, <1>3, <1>6, <2>2, <3>2, <3>3 DEF Replayed, Ends, Carries
  <2>5. QED
    BY <2>3, <2>4
<1>14. QED
  BY <1>11, <1>12, <1>13 DEF ServeInv

\* A client that was written all there was for it has the latest state that was
\* published, or the one read for it, if none was published since: however the
\* pump, the commands and the other connections use the hub meanwhile.
THEOREM ViewAlwaysCatchesUp == ServeSpec => []ViewCatchesUp
<1>1. ServeInit => HubFacts /\ ServeInv
  BY HubFactsInit, ServeInvInit DEF ServeInit
<1>2. HubFacts /\ ServeInv /\ [ServeNext]_serveVars => (HubFacts /\ ServeInv)'
  <2> SUFFICES ASSUME HubFacts, ServeInv, [ServeNext]_serveVars PROVE (HubFacts /\ ServeInv)'
    OBVIOUS
  <2>1. HubFacts'
    BY ServeStepIsHubStep, HubFactsStep
  <2>2. CASE ServeNext
    <3>1. ASSUME NEW p \in Publishers, Publish(p) PROVE ServeInv'
      BY <3>1, PublishKeeps
    <3>2. QED
      BY <2>1, <2>2, <3>1, OthersKeep, SendFirstKeeps, ForwardKeeps, ConnectKeeps, ConnectionKeeps
         DEF ServeNext, MainStep
  <2>3. CASE UNCHANGED serveVars
    <3>1. ServeInv'
      BY <2>3 DEF serveVars, vars, feedVars, subVars, pubVars, stateVars, connVars, mainVars,
         ServeInv, ServeTyped, LastInv, AloneInv, HandlerInv, ShownInv, Replayed, Streamed,
         Ends, Carries, Silent
    <3>2. QED
      BY <2>1, <3>1
  <2>4. QED
    BY <2>2, <2>3
<1>3. HubFacts /\ ServeInv => ViewCatchesUp
  <2> SUFFICES ASSUME HubFacts, ServeInv, Settled
               PROVE  \/ last # 0 /\ view = carried[last]
                      \/ last <= looked /\ view = found
    BY DEF ViewCatchesUp
  <2>1. /\ toSend = <<>> /\ Len(log) \in Nat /\ joined[Self] \in Nat /\ chan[Self] = <<>>
        /\ Buffer \in Nat /\ last \in Nat /\ looked \in Nat
    BY OwnChannel, BufferAssumption DEF Settled, ServeInv, HandlerInv, LastInv
  <2>2. \A v : Ends(toSend, view, v) => view = v
    BY <2>1 DEF Ends, Carries
  <2>3. CASE last <= joined[Self]
    <3>1. Replayed
      BY <2>3 DEF Settled, ServeInv, ShownInv
    <3>2. CASE last # 0 /\ Ends(toSend, view, carried[last])
      BY <2>2, <3>2
    <3>3. CASE (last = 0 \/ last + Buffer <= joined[Self]) /\ Ends(toSend, view, found)
      BY <2>1, <2>2, <3>3 DEF Settled
    <3>4. QED
      BY <3>1, <3>2, <3>3 DEF Replayed
  <2>4. CASE ~(last <= joined[Self])
    <3>1. Streamed
      BY <2>4 DEF Settled, ServeInv, ShownInv
    <3>2. view = carried[last]
      BY <2>1, <3>1 DEF Settled, Streamed
    <3>3. QED
      BY <2>1, <2>4, <3>2
  <2>5. QED
    BY <2>3, <2>4
<1>4. QED
  BY <1>1, <1>2, <1>3, PTL DEF ServeSpec

-----------------------------------------------------------------------------
(* Selections from sequences.                                              *)

\* A non-empty set of naturals has a least element.
LEMMA LeastExists ==
    ASSUME NEW S \in SUBSET Nat, S # {}
    PROVE  \E n \in S : \A m \in S : n <= m
<1>1. PICK n \in S : \A m \in S : ~ (<<m, n>> \in OpToRel(<, Nat))
  BY NatLessThanWellFounded, WFMin
<1>2. \A m \in S : m < n => <<m, n>> \in OpToRel(<, Nat)
  BY DEF OpToRel
<1>3. \A m \in S : ~(m < n)
  <2> HIDE DEF OpToRel
  <2> QED BY <1>1, <1>2, Zenon
<1>4. QED
  BY <1>3

\* What is true of 0 and of the next number is true up to any bound.
LEMMA UpTo ==
    ASSUME NEW n \in Nat, NEW T \in SUBSET (0..n), 0 \in T,
           \A k \in T : k < n => k + 1 \in T
    PROVE  T = 0..n
<1>1. SUFFICES ASSUME 0..n \ T # {} PROVE FALSE
  OBVIOUS
<1> DEFINE Rest == 0..n \ T
<1>2. PICK least \in Rest : \A m \in Rest : least <= m
  <2>1. Rest \in SUBSET Nat /\ Rest # {}
    BY <1>1
  <2> HIDE DEF Rest
  <2> QED
    BY <2>1, LeastExists
<1>3. least # 0 /\ least - 1 \in 0..n /\ least - 1 \notin 0..n \ T
  BY <1>2
<1>4. QED
  BY <1>2, <1>3

\* A bounded, non-empty set of naturals has a greatest element.
LEMMA GreatestExists ==
    ASSUME NEW n \in Nat, NEW S \in SUBSET (0..n), S # {}
    PROVE  \E g \in S : \A m \in S : m <= g
<1> DEFINE R == {n - m : m \in S}
<1>1. R \in SUBSET Nat /\ R # {}
  <2>1. \A m \in S : n - m \in Nat
    OBVIOUS
  <2>2. R # {}
    BY Zenon
  <2>3. QED
    BY <2>1, <2>2
<1>2. PICK r \in R : \A m \in R : r <= m
  <2> HIDE DEF R
  <2> QED BY <1>1, LeastExists
<1>3. PICK g \in S : r = n - g
  BY <1>2
<1>4. \A m \in S : n - m \in R
  OBVIOUS
<1>5. \A m \in S : n - g <= n - m
  <2> HIDE DEF R
  <2> QED BY <1>2, <1>3, <1>4
<1>6. QED
  BY <1>5

\* One turn of the loop of Selected.
Turn(s, places, before, k) ==
    IF k = 0 THEN <<>> ELSE IF k \in places THEN Append(before, s[k]) ELSE before
IsSelection(s, places, f) == f = [k \in 0..Len(s) |-> Turn(s, places, f[k - 1], k)]

\* Selected is the last value of its function.
LEMMA SelectedDef ==
    ASSUME NEW s, NEW places
    PROVE  Selected(s, places) = (CHOOSE f : IsSelection(s, places, f))[Len(s)]
  BY Zenon DEF Selected, IsSelection, Turn

\* A turn keeps a sequence of elements.
LEMMA TurnTyped ==
    ASSUME NEW S, NEW s \in Seq(S), NEW places, NEW k \in 0..Len(s), NEW before \in Seq(S)
    PROVE  Turn(s, places, before, k) \in Seq(S)
  BY DEF Turn

\* There is a function with these turns.
LEMMA SelectionExists ==
    ASSUME NEW S, NEW s \in Seq(S), NEW places
    PROVE  \E f \in [0..Len(s) -> Seq(S)] : IsSelection(s, places, f)
<1> DEFINE Runs(n, f) == \A k \in 0..n : f[k] = Turn(s, places, f[k - 1], k)
           T == {n \in 0..Len(s) : \E f \in [0..n -> Seq(S)] : Runs(n, f)}
<1>1. 0 \in T
  <2> DEFINE f == [k \in 0..0 |-> <<>>]
  <2>1. f \in [0..0 -> Seq(S)] /\ Runs(0, f)
    BY DEF Turn
  <2>2. QED
    <3> HIDE DEF f
    <3> QED BY <2>1
<1>2. ASSUME NEW n \in T, n < Len(s) PROVE n + 1 \in T
  <2>1. PICK f \in [0..n -> Seq(S)] : Runs(n, f)
    BY <1>2
  <2> DEFINE longer == [k \in 0..(n + 1) |-> IF k = n + 1 THEN Turn(s, places, f[n], n + 1) ELSE f[k]]
  <2>2. n \in Nat /\ n + 1 \in 0..Len(s)
    BY <1>2
  <2>3. Turn(s, places, f[n], n + 1) \in Seq(S)
    BY <2>2, TurnTyped
  <2>4. longer \in [0..(n + 1) -> Seq(S)]
    BY <2>2, <2>3
  <2>5. ASSUME NEW k \in 0..(n + 1) PROVE longer[k] = Turn(s, places, longer[k - 1], k)
    <3>1. CASE k = n + 1
      <4>1. longer[k] = Turn(s, places, f[n], n + 1) /\ longer[k - 1] = f[n]
        BY <2>2, <3>1
      <4>2. QED
        BY <3>1, <4>1
    <3>2. CASE k # n + 1
      <4>1. k \in 0..n /\ longer[k] = f[k] /\ f[k] = Turn(s, places, f[k - 1], k)
        BY <2>1, <2>2, <3>2
      <4>2. k # 0 => longer[k - 1] = f[k - 1]
        BY <2>2, <4>1
      <4>3. QED
        <5> HIDE DEF longer
        <5> QED BY <4>1, <4>2 DEF Turn
    <3>3. QED
      BY <3>1, <3>2
  <2>6. QED
    <3> HIDE DEF longer
    <3> QED BY <2>2, <2>4, <2>5
<1>3. T = 0..Len(s)
  <2> HIDE DEF T
  <2>1. T \in SUBSET (0..Len(s)) /\ Len(s) \in Nat
    BY DEF T
  <2>2. QED
    BY <1>1, <1>2, <2>1, UpTo
<1>4. PICK f \in [0..Len(s) -> Seq(S)] : Runs(Len(s), f)
  <2>1. Len(s) \in T
    <3> HIDE DEF T
    <3> QED BY <1>3
  <2>2. QED
    BY <2>1
<1>5. QED
  BY <1>4 DEF IsSelection

\* The selection as a function that is known by its turns.
SelectedBy(S, s, places, f) ==
    /\ f \in [0..Len(s) -> Seq(S)] /\ Selected(s, places) = f[Len(s)]
    /\ \A k \in 0..Len(s) : f[k] = Turn(s, places, f[k - 1], k)

\* Every selection is known by its turns.
LEMMA SelectedRuns ==
    ASSUME NEW S, NEW s \in Seq(S), NEW places
    PROVE  \E f : SelectedBy(S, s, places, f)
<1> DEFINE f == CHOOSE f : IsSelection(s, places, f)
<1>1. IsSelection(s, places, f)
  BY SelectionExists
<1>2. Selected(s, places) = f[Len(s)]
  BY SelectedDef
<1> HIDE DEF f
<1>3. f = [k \in 0..Len(s) |-> Turn(s, places, f[k - 1], k)]
  BY <1>1 DEF IsSelection
<1>4. \A k \in 0..Len(s) : f[k] = Turn(s, places, f[k - 1], k)
  BY <1>3
<1> DEFINE T == {k \in 0..Len(s) : f[k] \in Seq(S)}
<1>5. 0 \in T
  <2>1. 0 \in 0..Len(s)
    OBVIOUS
  <2>2. f[0] = <<>>
    BY <1>4, <2>1 DEF Turn
  <2>3. f[0] \in Seq(S)
    BY <2>2
  <2>4. QED
    BY <2>1, <2>3
<1>6. ASSUME NEW k \in T, k < Len(s) PROVE k + 1 \in T
  <2>1. k + 1 \in 0..Len(s) /\ (k + 1) - 1 = k /\ f[k] \in Seq(S)
    BY <1>6
  <2>2. QED
    BY <1>4, <2>1, TurnTyped
<1>7. T = 0..Len(s)
  <2> HIDE DEF T
  <2>1. T \in SUBSET (0..Len(s)) /\ Len(s) \in Nat
    BY DEF T
  <2>2. QED
    BY <1>5, <1>6, <2>1, UpTo
<1>8. f \in [0..Len(s) -> Seq(S)]
  <2>1. \A k \in 0..Len(s) : f[k] \in Seq(S)
    BY <1>7
  <2>2. QED
    BY <1>3, <2>1
<1>9. QED
  BY <1>2, <1>4, <1>8 DEF SelectedBy

\* A selection is of the same elements.
LEMMA SelectedTyped ==
    ASSUME NEW S, NEW s \in Seq(S), NEW places
    PROVE  Selected(s, places) \in Seq(S)
<1>1. PICK f : SelectedBy(S, s, places, f)
  BY SelectedRuns
<1>2. QED
  BY <1>1 DEF SelectedBy

\* Nothing is selected from nothing.
LEMMA SelectedOfNone ==
    ASSUME NEW places
    PROVE  Selected(<<>>, places) = <<>>
<1> DEFINE none == <<>>
<1>1. none \in Seq({}) /\ Len(none) = 0
  OBVIOUS
<1> HIDE DEF none
<1>2. PICK f : SelectedBy({}, none, places, f)
  BY <1>1, SelectedRuns, Zenon
<1>3. Selected(none, places) = <<>>
  BY <1>1, <1>2 DEF Turn, SelectedBy
<1>4. QED
  BY <1>3 DEF none

\* What one element more adds to a selection.
LEMMA SelectedAppend ==
    ASSUME NEW S, NEW s \in Seq(S), NEW x \in S, NEW places
    PROVE  Selected(Append(s, x), places) =
             IF Len(s) + 1 \in places THEN Append(Selected(s, places), x) ELSE Selected(s, places)
<1> DEFINE t == Append(s, x)
           n == Len(s)
<1>1. t \in Seq(S) /\ Len(t) = n + 1 /\ t[n + 1] = x /\ n \in Nat /\ \A k \in 1..n : t[k] = s[k]
  OBVIOUS
<1> HIDE DEF t
<1>2. PICK f : SelectedBy(S, s, places, f)
  BY SelectedRuns, Zenon
<1>3. PICK g : SelectedBy(S, t, places, g)
  BY <1>1, SelectedRuns, Zenon
<1>10. /\ Selected(s, places) = f[n] /\ Selected(t, places) = g[n + 1]
       /\ \A k \in 0..n : f[k] = Turn(s, places, f[k - 1], k)
       /\ \A k \in 0..(n + 1) : g[k] = Turn(t, places, g[k - 1], k)
  BY <1>1, <1>2, <1>3 DEF SelectedBy
<1> DEFINE T == {k \in 0..n : f[k] = g[k]}
<1>4. 0 \in T
  BY <1>1, <1>10 DEF Turn
<1>5. ASSUME NEW k \in T, k < n PROVE k + 1 \in T
  <2>1. k + 1 \in 1..n /\ (k + 1) - 1 = k /\ f[k] = g[k]
    BY <1>1, <1>5
  <2>2. f[k + 1] = Turn(s, places, f[k], k + 1) /\ g[k + 1] = Turn(t, places, g[k], k + 1)
    <3> DEFINE h == k + 1
    <3>1. h \in 0..n /\ h \in 0..(n + 1) /\ h - 1 = k
      BY <1>1, <2>1
    <3> HIDE DEF h
    <3>2. f[h] = Turn(s, places, f[h - 1], h) /\ g[h] = Turn(t, places, g[h - 1], h)
      BY <1>10, <3>1
    <3>3. QED
      BY <3>1, <3>2 DEF h
  <2>3. f[k + 1] = g[k + 1]
    BY <1>1, <2>1, <2>2 DEF Turn
  <2>4. QED
    BY <2>1, <2>3
<1>6. T = 0..n
  <2> HIDE DEF T
  <2>1. T \in SUBSET (0..n)
    BY DEF T
  <2>2. QED
    BY <1>1, <1>4, <1>5, <2>1, UpTo
<1>7. f[n] = g[n]
  <2>1. n \in T
    <3> HIDE DEF T
    <3> QED BY <1>1, <1>6
  <2>2. QED
    BY <2>1
<1>8. g[n + 1] = Turn(t, places, g[n], n + 1)
  <2>1. n + 1 \in 0..Len(t) /\ (n + 1) - 1 = n
    BY <1>1
  <2>2. QED
    BY <1>1, <1>10, <2>1
<1>9. QED
  BY <1>1, <1>7, <1>8, <1>10 DEF Turn, t

\* The beginnings of a sequence, one element at a time.
LEMMA Beginnings ==
    ASSUME NEW S, NEW t \in Seq(S)
    PROVE  /\ SubSeq(t, 1, 0) = <<>> /\ SubSeq(t, 1, Len(t)) = t
           /\ \A n \in 0..Len(t) : /\ SubSeq(t, 1, n) \in Seq(S) /\ Len(SubSeq(t, 1, n)) = n
                                   /\ \A k \in 1..n : SubSeq(t, 1, n)[k] = t[k]
           /\ \A n \in 0..Len(t) : n < Len(t) =>
                SubSeq(t, 1, n + 1) = Append(SubSeq(t, 1, n), t[n + 1])
<1>1. SubSeq(t, 1, 0) = <<>>
  OBVIOUS
<1>2. \A n \in 0..Len(t) : /\ SubSeq(t, 1, n) \in Seq(S) /\ Len(SubSeq(t, 1, n)) = n
                           /\ \A k \in 1..n : SubSeq(t, 1, n)[k] = t[k]
  OBVIOUS
<1>3. SubSeq(t, 1, Len(t)) = t
  <2>1. Len(t) \in 0..Len(t)
    OBVIOUS
  <2>2. QED
    BY <1>2, <2>1
<1>4. ASSUME NEW n \in 0..Len(t), n < Len(t)
      PROVE  SubSeq(t, 1, n + 1) = Append(SubSeq(t, 1, n), t[n + 1])
  <2> DEFINE a == SubSeq(t, 1, n + 1)
             b == SubSeq(t, 1, n)
             c == Append(b, t[n + 1])
  <2>1. n + 1 \in 0..Len(t) /\ n \in Nat /\ t[n + 1] \in S
    BY <1>4
  <2>2. a \in Seq(S) /\ Len(a) = n + 1 /\ \A k \in 1..(n + 1) : a[k] = t[k]
    BY <1>2, <2>1
  <2>3. b \in Seq(S) /\ Len(b) = n /\ \A k \in 1..n : b[k] = t[k]
    BY <1>2
  <2> HIDE DEF a, b
  <2>4. c \in Seq(S) /\ Len(c) = n + 1 /\ \A k \in 1..(n + 1) : c[k] = t[k]
    BY <2>1, <2>3
  <2> HIDE DEF c
  <2>5. a = c
    BY <2>2, <2>4
  <2>6. QED
    BY <2>5 DEF a, b, c
<1>5. QED
  BY <1>1, <1>2, <1>3, <1>4

\* To append to the second of two in a row is to append to both.
LEMMA ConcatAppend ==
    ASSUME NEW S, NEW s \in Seq(S), NEW t \in Seq(S), NEW x \in S
    PROVE  s \o Append(t, x) = Append(s \o t, x)
<1> DEFINE a == s \o Append(t, x)
           b == Append(s \o t, x)
<1>1. a \in Seq(S) /\ b \in Seq(S) /\ Len(a) = Len(s) + Len(t) + 1 /\ Len(b) = Len(a)
  OBVIOUS
<1>2. \A k \in 1..(Len(s) + Len(t) + 1) : a[k] = b[k]
  OBVIOUS
<1>3. QED
  <2> HIDE DEF a, b
  <2>1. a = b
    BY <1>1, <1>2
  <2>2. QED
    BY <2>1 DEF a, b

\* What the places of a sequence are to its end from n on.
From(places, n, m) == {j \in 1..m : n + j \in places}

\* A selection from two in a row is the one followed by the other.
LEMMA SelectedConcat ==
    ASSUME NEW S, NEW s \in Seq(S), NEW t \in Seq(S), NEW places
    PROVE  Selected(s \o t, places) =
             Selected(s, places) \o Selected(t, From(places, Len(s), Len(t)))
<1> DEFINE later == From(places, Len(s), Len(t))
           first(n) == SubSeq(t, 1, n)
           T == {n \in 0..Len(t) :
                   Selected(s \o first(n), places) = Selected(s, places) \o Selected(first(n), later)}
<1>1. Selected(s, places) \in Seq(S)
  BY SelectedTyped
<1>2. first(0) = <<>> /\ first(Len(t)) = t
  BY Beginnings
<1>3. \A n \in 0..Len(t) : first(n) \in Seq(S) /\ Len(first(n)) = n
  BY Beginnings
<1>4. 0 \in T
  <2>1. s \o first(0) = s
    BY <1>2
  <2>2. Selected(first(0), later) = <<>>
    BY <1>2, SelectedOfNone
  <2>3. 0 \in 0..Len(t)
    OBVIOUS
  <2>4. Selected(s, places) \o <<>> = Selected(s, places)
    BY <1>1
  <2>5. QED
    BY <2>1, <2>2, <2>3, <2>4
<1>5. ASSUME NEW n \in T, n < Len(t) PROVE n + 1 \in T
  <2> DEFINE u == first(n)
             x == t[n + 1]
             a == Selected(s, places)
             b == Selected(u, later)
  <2>1. n + 1 \in 1..Len(t) /\ n + 1 \in 0..Len(t) /\ n \in 0..Len(t) /\ x \in S
    BY <1>5
  <2>2. first(n + 1) = Append(u, x)
    BY <1>5, <2>1, Beginnings
  <2>3. u \in Seq(S) /\ Len(u) = n
    BY <1>3, <2>1
  <2>4. Selected(s \o u, places) = a \o b
    BY <1>5
  <2>5. a \in Seq(S) /\ b \in Seq(S)
    BY <2>3, SelectedTyped
  <2> HIDE DEF u, x, a, b, T, later
  <2>6. s \o Append(u, x) = Append(s \o u, x)
    BY <2>1, <2>3, ConcatAppend
  <2>7. s \o u \in Seq(S) /\ Len(s \o u) = Len(s) + n
    BY <2>3
  <2>8. Selected(Append(s \o u, x), places) =
          IF Len(s) + n + 1 \in places THEN Append(a \o b, x) ELSE a \o b
    <3> DEFINE su == s \o u
    <3>1. su \in Seq(S) /\ Len(su) = Len(s) + n /\ Selected(su, places) = a \o b
      BY <2>4, <2>7
    <3> HIDE DEF su
    <3>3. su \in Seq(S) /\ x \in S
      BY <2>1, <3>1
    <3>2. Selected(Append(su, x), places) =
            IF Len(su) + 1 \in places THEN Append(Selected(su, places), x)
            ELSE Selected(su, places)
      BY <3>3, SelectedAppend
    <3>4. QED
      BY <3>1, <3>2 DEF su
  <2>9. Selected(Append(u, x), later) = IF n + 1 \in later THEN Append(b, x) ELSE b
    <3>1. Selected(Append(u, x), later) =
            IF Len(u) + 1 \in later THEN Append(Selected(u, later), x) ELSE Selected(u, later)
      <4>1. u \in Seq(S) /\ x \in S
        BY <2>1, <2>3
      <4>2. QED
        BY <4>1, SelectedAppend
    <3>2. QED
      BY <2>3, <3>1 DEF b
  <2>10. n + 1 \in later <=> Len(s) + n + 1 \in places
    <3>1. Len(s) + (n + 1) = Len(s) + n + 1
      BY <2>1
    <3>2. QED
      BY <2>1, <3>1, Zenon DEF later, From
  <2>11. a \o Append(b, x) = Append(a \o b, x)
    BY <2>1, <2>5, ConcatAppend
  <2>12. Selected(s \o Append(u, x), places) = a \o Selected(Append(u, x), later)
    BY <2>6, <2>8, <2>9, <2>10, <2>11, Zenon
  <2>13. QED
    BY <2>1, <2>2, <2>12 DEF T, a
<1>6. Len(t) \in T
  <2> HIDE DEF T
  <2>1. T \in SUBSET (0..Len(t)) /\ Len(t) \in Nat
    BY DEF T
  <2>2. T = 0..Len(t)
    BY <1>4, <1>5, <2>1, UpTo
  <2>3. QED
    BY <2>1, <2>2
<1>7. QED
  BY <1>2, <1>6

\* Two selections of the same places are as long, and alike where the elements are.
LEMMA AppendAlike ==
    ASSUME NEW S, NEW a \in Seq(S), NEW b \in Seq(S), NEW x \in S, NEW y \in S, NEW Like,
           Len(b) = Len(a), \A r \in 1..Len(a) : <<a[r], b[r]>> \in Like, <<x, y>> \in Like
    PROVE  /\ Len(Append(b, y)) = Len(Append(a, x))
           /\ \A r \in 1..Len(Append(a, x)) : <<Append(a, x)[r], Append(b, y)[r]>> \in Like
<1>1. Len(Append(a, x)) = Len(a) + 1 /\ Len(Append(b, y)) = Len(a) + 1 /\ Len(a) \in Nat
  OBVIOUS
<1>2. Append(a, x)[Len(a) + 1] = x /\ Append(b, y)[Len(a) + 1] = y
  OBVIOUS
<1>3. \A r \in 1..Len(a) : Append(a, x)[r] = a[r] /\ Append(b, y)[r] = b[r]
  OBVIOUS
<1>4. \A r \in 1..(Len(a) + 1) : r \in 1..Len(a) \/ r = Len(a) + 1
  BY <1>1
<1>5. \A r \in 1..(Len(a) + 1) : <<Append(a, x)[r], Append(b, y)[r]>> \in Like
  <2> SUFFICES ASSUME NEW r \in 1..(Len(a) + 1)
               PROVE  <<Append(a, x)[r], Append(b, y)[r]>> \in Like
    OBVIOUS
  <2>1. CASE r \in 1..Len(a)
    <3>1. Append(a, x)[r] = a[r] /\ Append(b, y)[r] = b[r]
      BY <1>3, <2>1
    <3>2. <<a[r], b[r]>> \in Like
      BY <2>1
    <3>3. QED
      BY <3>1, <3>2, Zenon
  <2>2. CASE r = Len(a) + 1
    BY <1>2, <2>2, Zenon
  <2>3. QED
    BY <1>4, <2>1, <2>2
<1>6. QED
  BY <1>1, <1>5

\* Two selections of the same places, element by element.
LEMMA SelectedAlike ==
    ASSUME NEW S, NEW s \in Seq(S), NEW t \in Seq(S), Len(t) = Len(s), NEW Like,
           NEW places, NEW others,
           \A k \in 1..Len(s) : k \in places <=> k \in others,
           \A k \in 1..Len(s) : k \in places => <<s[k], t[k]>> \in Like
    PROVE  /\ Len(Selected(t, others)) = Len(Selected(s, places))
           /\ \A r \in 1..Len(Selected(s, places)) :
                <<Selected(s, places)[r], Selected(t, others)[r]>> \in Like
<1> DEFINE a(n) == Selected(SubSeq(s, 1, n), places)
           b(n) == Selected(SubSeq(t, 1, n), others)
           T == {n \in 0..Len(s) : /\ Len(b(n)) = Len(a(n))
                                   /\ \A r \in 1..Len(a(n)) : <<a(n)[r], b(n)[r]>> \in Like}
<1>1. 0 \in T
  <2>1. SubSeq(s, 1, 0) = <<>> /\ SubSeq(t, 1, 0) = <<>>
    BY Beginnings
  <2>2. a(0) = <<>> /\ b(0) = <<>>
    BY <2>1, SelectedOfNone
  <2>3. 0 \in 0..Len(s)
    OBVIOUS
  <2> HIDE DEF a, b
  <2>4. QED
    BY <2>2, <2>3
<1>2. ASSUME NEW n \in T, n < Len(s) PROVE n + 1 \in T
  <2> DEFINE x == s[n + 1]
             y == t[n + 1]
  <2>1. n + 1 \in 1..Len(s) /\ n + 1 \in 0..Len(s) /\ n \in 0..Len(s) /\ x \in S /\ y \in S
    BY <1>2
  <2>2. /\ SubSeq(s, 1, n) \in Seq(S) /\ Len(SubSeq(s, 1, n)) = n
        /\ SubSeq(t, 1, n) \in Seq(S) /\ Len(SubSeq(t, 1, n)) = n
    BY <2>1, Beginnings
  <2>3. /\ SubSeq(s, 1, n + 1) = Append(SubSeq(s, 1, n), x)
        /\ SubSeq(t, 1, n + 1) = Append(SubSeq(t, 1, n), y)
    BY <1>2, <2>1, Beginnings
  <2> DEFINE u == SubSeq(s, 1, n)
             v == SubSeq(t, 1, n)
             p == Selected(u, places)
             q == Selected(v, others)
  <2>4. Len(q) = Len(p) /\ \A r \in 1..Len(p) : <<p[r], q[r]>> \in Like
    BY <1>2
  <2>5. n + 1 \in places => <<x, y>> \in Like
    BY <2>1
  <2>6. n + 1 \in places <=> n + 1 \in others
    BY <2>1
  <2>7. p \in Seq(S) /\ q \in Seq(S)
    BY <2>2, SelectedTyped
  <2>8. Len(u) + 1 = n + 1 /\ Len(v) + 1 = n + 1
    BY <2>2
  <2>14. u \in Seq(S) /\ v \in Seq(S)
    BY <2>2
  <2>15. x \in S /\ y \in S
    BY <2>1
  <2> HIDE DEF u, v, x, y
  <2>9. Selected(Append(u, x), places) = IF Len(u) + 1 \in places THEN Append(p, x) ELSE p
    BY <2>14, <2>15, SelectedAppend
  <2>10. Selected(Append(v, y), others) = IF Len(v) + 1 \in others THEN Append(q, y) ELSE q
    BY <2>14, <2>15, SelectedAppend
  <2> DEFINE pp == Selected(Append(u, x), places)
             qq == Selected(Append(v, y), others)
  <2> HIDE DEF p, q
  <2>11. Len(qq) = Len(pp) /\ \A r \in 1..Len(pp) : <<pp[r], qq[r]>> \in Like
    <3>1. CASE n + 1 \notin places
      <4>1. pp = p /\ qq = q
        BY <2>6, <2>8, <2>9, <2>10, <3>1
      <4> HIDE DEF pp, qq
      <4>2. QED
        BY <2>4, <4>1
    <3>2. CASE n + 1 \in places
      <4>1. pp = Append(p, x) /\ qq = Append(q, y) /\ <<x, y>> \in Like
        BY <2>5, <2>6, <2>8, <2>9, <2>10, <3>2
      <4> HIDE DEF pp, qq
      <4>2. /\ Len(Append(q, y)) = Len(Append(p, x))
            /\ \A r \in 1..Len(Append(p, x)) : <<Append(p, x)[r], Append(q, y)[r]>> \in Like
        BY <2>1, <2>4, <2>7, <4>1, AppendAlike, Zenon
      <4>3. QED
        BY <4>1, <4>2
    <3>3. QED
      BY <3>1, <3>2
  <2>12. a(n + 1) = pp /\ b(n + 1) = qq
    BY <2>3 DEF u, v, x, y
  <2>13. QED
    <3> HIDE DEF pp, qq, a, b
    <3> QED BY <2>1, <2>11, <2>12
<1>3. Len(s) \in T
  <2> HIDE DEF T
  <2>1. T \in SUBSET (0..Len(s)) /\ Len(s) \in Nat
    BY DEF T
  <2>2. T = 0..Len(s)
    BY <1>1, <1>2, <2>1, UpTo
  <2>3. QED
    BY <2>1, <2>2
<1>4. SubSeq(s, 1, Len(s)) = s /\ SubSeq(t, 1, Len(s)) = t
  BY Beginnings
<1>5. QED
  BY <1>3, <1>4

\* Sequences that agree everywhere are equal.
LEMMA SameSequence ==
    ASSUME NEW S, NEW a \in Seq(S), NEW b \in Seq(S), Len(a) = Len(b),
           \A k \in 1..Len(a) : a[k] = b[k]
    PROVE  a = b
  OBVIOUS

\* Two selections of the same elements are the same.
LEMMA SelectedSame ==
    ASSUME NEW S, NEW s \in Seq(S), NEW t \in Seq(S), Len(t) = Len(s),
           NEW places, NEW others,
           \A k \in 1..Len(s) : k \in places <=> k \in others,
           \A k \in 1..Len(s) : k \in places => s[k] = t[k]
    PROVE  Selected(t, others) = Selected(s, places)
<1> DEFINE Like == {<<x, x>> : x \in S}
           a == Selected(s, places)
           b == Selected(t, others)
<1>1. \A k \in 1..Len(s) : k \in places => <<s[k], t[k]>> \in Like
  OBVIOUS
<1>2. a \in Seq(S) /\ b \in Seq(S)
  BY SelectedTyped
<1> HIDE DEF Like
<1>3. Len(b) = Len(a) /\ \A r \in 1..Len(a) : <<a[r], b[r]>> \in Like
  BY <1>1, SelectedAlike
<1> HIDE DEF a, b
<1>4. \A r \in 1..Len(a) : a[r] = b[r]
  BY <1>3 DEF Like
<1>5. a = b
  BY <1>2, <1>3, <1>4, SameSequence
<1>6. QED
  BY <1>5 DEF a, b

ElementsOf(s) == {s[k] : k \in 1..Len(s)}

\* The elements of a sequence with one more.
LEMMA AppendElements ==
    ASSUME NEW S, NEW a \in Seq(S), NEW x \in S
    PROVE  ElementsOf(Append(a, x)) = ElementsOf(a) \union {x}
<1>1. Len(Append(a, x)) = Len(a) + 1 /\ Len(a) \in Nat /\ Append(a, x)[Len(a) + 1] = x
  OBVIOUS
<1>2. \A r \in 1..Len(a) : Append(a, x)[r] = a[r]
  OBVIOUS
<1>3. 1..(Len(a) + 1) = 1..Len(a) \union {Len(a) + 1}
  BY <1>1
<1>4. ElementsOf(Append(a, x)) = {Append(a, x)[r] : r \in 1..Len(a) \union {Len(a) + 1}}
  BY <1>1, <1>3, Zenon DEF ElementsOf
<1>5. {Append(a, x)[r] : r \in 1..Len(a) \union {Len(a) + 1}} = {a[r] : r \in 1..Len(a)} \union {x}
  BY <1>1, <1>2
<1>6. QED
  BY <1>4, <1>5, Zenon DEF ElementsOf

\* What a selection has are the elements at its places.
LEMMA SelectedElements ==
    ASSUME NEW S, NEW s \in Seq(S), NEW places
    PROVE  ElementsOf(Selected(s, places)) = {s[k] : k \in 1..Len(s) \intersect places}
<1> DEFINE T == {n \in 0..Len(s) : ElementsOf(Selected(SubSeq(s, 1, n), places))
                                     = {s[k] : k \in 1..n \intersect places}}
<1>1. 0 \in T
  <2>1. Selected(SubSeq(s, 1, 0), places) = <<>>
    BY SelectedOfNone, Beginnings
  <2>2. ElementsOf(<<>>) = {}
    BY DEF ElementsOf
  <2>3. 0 \in 0..Len(s) /\ 1..0 = {}
    OBVIOUS
  <2>4. QED
    BY <2>1, <2>2, <2>3
<1>2. ASSUME NEW n \in T, n < Len(s) PROVE n + 1 \in T
  <2> DEFINE u == SubSeq(s, 1, n)
             x == s[n + 1]
             p == Selected(u, places)
  <2>1. n + 1 \in 0..Len(s) /\ n \in 0..Len(s) /\ n \in Nat
    BY <1>2
  <2>2. SubSeq(s, 1, n + 1) = Append(u, x)
    BY <1>2, <2>1, Beginnings
  <2>3. u \in Seq(S) /\ Len(u) = n
    BY <2>1, Beginnings
  <2>4. x \in S
    BY <1>2, <2>1
  <2>5. ElementsOf(p) = {s[k] : k \in 1..n \intersect places}
    BY <1>2
  <2>6. p \in Seq(S)
    BY <2>3, SelectedTyped
  <2>7. 1..(n + 1) = 1..n \union {n + 1}
    BY <2>1
  <2>8. {s[k] : k \in 1..(n + 1) \intersect places} =
          IF n + 1 \in places THEN {s[k] : k \in 1..n \intersect places} \union {x}
          ELSE {s[k] : k \in 1..n \intersect places}
    <3>1. CASE n + 1 \in places
      <4>1. 1..(n + 1) \intersect places = (1..n \intersect places) \union {n + 1}
        BY <2>7, <3>1
      <4>2. QED
        BY <3>1, <4>1
    <3>2. CASE n + 1 \notin places
      <4>1. 1..(n + 1) \intersect places = 1..n \intersect places
        BY <2>7, <3>2
      <4>2. QED
        BY <3>2, <4>1
    <3>3. QED
      BY <3>1, <3>2
  <2> HIDE DEF u, x
  <2>9. Selected(Append(u, x), places) = IF Len(u) + 1 \in places THEN Append(p, x) ELSE p
    BY <2>3, <2>4, SelectedAppend
  <2> HIDE DEF p
  <2>10. ElementsOf(Append(p, x)) = ElementsOf(p) \union {x}
    BY <2>4, <2>6, AppendElements
  <2>11. ElementsOf(Selected(Append(u, x), places)) = {s[k] : k \in 1..(n + 1) \intersect places}
    BY <2>3, <2>5, <2>8, <2>9, <2>10
  <2>12. QED
    BY <2>1, <2>2, <2>11
<1>3. Len(s) \in T
  <2> HIDE DEF T
  <2>1. T \in SUBSET (0..Len(s)) /\ Len(s) \in Nat
    BY DEF T
  <2>2. T = 0..Len(s)
    BY <1>1, <1>2, <2>1, UpTo
  <2>3. QED
    BY <2>1, <2>2
<1>4. SubSeq(s, 1, Len(s)) = s
  BY Beginnings
<1>5. QED
  BY <1>3, <1>4

\* A selection can be cut anywhere, by cutting the sequence.
LEMMA SelectedCut ==
    ASSUME NEW S, NEW s \in Seq(S), NEW places, NEW r \in 0..Len(Selected(s, places))
    PROVE  \E c \in 0..Len(s) : Len(Selected(SubSeq(s, 1, c), places)) = r
<1> DEFINE size0(n) == Len(Selected(SubSeq(s, 1, n), places))
           T == {n \in 0..Len(s) : r <= size0(n) => \E c \in 0..n : size0(c) = r}
<1>1. \A n \in 0..Len(s) : size0(n) \in Nat
  <2> SUFFICES ASSUME NEW n \in 0..Len(s) PROVE size0(n) \in Nat
    OBVIOUS
  <2>1. SubSeq(s, 1, n) \in Seq(S)
    BY Beginnings
  <2>2. Selected(SubSeq(s, 1, n), places) \in Seq(S)
    BY <2>1, SelectedTyped
  <2>3. QED
    BY <2>2
<1>2. Selected(s, places) \in Seq(S) /\ r \in Nat
  BY SelectedTyped
<1>3. 0 \in T
  <2>1. Selected(SubSeq(s, 1, 0), places) = <<>>
    BY SelectedOfNone, Beginnings
  <2>2. size0(0) = 0 /\ 0 \in 0..Len(s) /\ 0 \in 0..0
    BY <2>1
  <2> HIDE DEF size0
  <2>3. QED
    BY <1>2, <2>2
<1>4. ASSUME NEW n \in T, n < Len(s) PROVE n + 1 \in T
  <2> DEFINE u == SubSeq(s, 1, n)
             x == s[n + 1]
             p == Selected(u, places)
  <2>1. n + 1 \in 0..Len(s) /\ n \in 0..Len(s) /\ n \in Nat
    BY <1>4
  <2>2. SubSeq(s, 1, n + 1) = Append(u, x)
    BY <1>4, <2>1, Beginnings
  <2>3. u \in Seq(S) /\ Len(u) = n
    BY <2>1, Beginnings
  <2>4. x \in S
    BY <1>4, <2>1
  <2>5. p \in Seq(S)
    BY <2>3, SelectedTyped
  <2>6. size0(n) = Len(p)
    OBVIOUS
  <2> HIDE DEF u, x
  <2>7. Selected(Append(u, x), places) = IF Len(u) + 1 \in places THEN Append(p, x) ELSE p
    BY <2>3, <2>4, SelectedAppend
  <2> HIDE DEF p
  <2>8. Len(Append(p, x)) = Len(p) + 1
    BY <2>4, <2>5
  <2>9. size0(n + 1) \in {Len(p), Len(p) + 1}
    BY <2>2, <2>7, <2>8
  <2>10. size0(n) \in Nat /\ size0(n + 1) \in Nat
    BY <1>1, <2>1
  <2> HIDE DEF size0
  <2>11. r <= size0(n) => \E c \in 0..n : size0(c) = r
    BY <1>4
  <2>12. 0..n \subseteq 0..(n + 1) /\ n + 1 \in 0..(n + 1)
    BY <2>1
  <2>13. CASE r <= size0(n)
    BY <2>1, <2>11, <2>12, <2>13
  <2>14. CASE ~(r <= size0(n)) /\ r <= size0(n + 1)
    <3>1. size0(n + 1) = r
      BY <1>2, <2>6, <2>9, <2>10, <2>14
    <3>2. QED
      BY <2>1, <2>12, <3>1
  <2>15. QED
    BY <2>1, <2>13, <2>14
<1>5. Len(s) \in T
  <2> HIDE DEF T
  <2>1. T \in SUBSET (0..Len(s)) /\ Len(s) \in Nat
    BY DEF T
  <2>2. T = 0..Len(s)
    BY <1>3, <1>4, <2>1, UpTo
  <2>3. QED
    BY <2>1, <2>2
<1>6. size0(Len(s)) = Len(Selected(s, places))
  BY Beginnings
<1>7. QED
  <2> HIDE DEF size0
  <2>1. \E c \in 0..Len(s) : size0(c) = r
    BY <1>2, <1>5, <1>6
  <2>2. QED
    BY <2>1 DEF size0

-----------------------------------------------------------------------------
(* Lines and the messages they become.                                     *)

LineKinds == UNION {Kinds(f) : f \in Formats}
Line == [kind : LineKinds, tools : SUBSET Nat, at : Nat, size : Nat \ {0}]
Msg == [id : Nat, kind : LineKinds, tools : SUBSET Nat, done : SUBSET Nat]

AsMessages(lines) == [k \in DOMAIN lines |-> Message(lines[k])]
Becoming(lines) == {k \in DOMAIN lines : lines[k].kind # "none"}

\* Two sequences in a row, place by place.
LEMMA ConcatIs ==
    ASSUME NEW S, NEW s \in Seq(S), NEW t \in Seq(S)
    PROVE  /\ s \o t \in Seq(S) /\ Len(s \o t) = Len(s) + Len(t)
           /\ Len(s) \in Nat /\ Len(t) \in Nat
           /\ \A k \in 1..Len(s) : (s \o t)[k] = s[k]
           /\ \A k \in 1..Len(t) : (s \o t)[Len(s) + k] = t[k]
  OBVIOUS

\* A line becomes a message.
LEMMA MessageTyped == ASSUME NEW line \in Line PROVE Message(line) \in Msg
  BY DEF Message, Line, Msg

\* Lines become messages one by one.
LEMMA AsMessagesTyped ==
    ASSUME NEW lines \in Seq(Line)
    PROVE  /\ AsMessages(lines) \in Seq(Msg) /\ Len(AsMessages(lines)) = Len(lines)
           /\ \A k \in 1..Len(lines) : AsMessages(lines)[k] = Message(lines[k])
<1>1. \A k \in 1..Len(lines) : Message(lines[k]) \in Msg
  <2> SUFFICES ASSUME NEW k \in 1..Len(lines) PROVE Message(lines[k]) \in Msg
    OBVIOUS
  <2>1. lines[k] \in Line
    OBVIOUS
  <2>2. QED
    BY <2>1, MessageTyped
<1>2. DOMAIN lines = 1..Len(lines) /\ Len(lines) \in Nat
  OBVIOUS
<1>3. QED
  BY <1>1, <1>2 DEF AsMessages

\* The parser returns messages.
LEMMA MessagesTyped ==
    ASSUME NEW lines \in Seq(Line)
    PROVE  Messages(lines) \in Seq(Msg)
<1>1. Messages(lines) = Selected(AsMessages(lines), Becoming(lines))
  BY Zenon DEF Messages, AsMessages, Becoming
<1>2. QED
  BY <1>1, AsMessagesTyped, SelectedTyped

\* The messages are those of the lines that are some.
LEMMA MessagesElements ==
    ASSUME NEW lines \in Seq(Line)
    PROVE  ElementsOf(Messages(lines)) = {Message(lines[k]) : k \in Becoming(lines)}
<1> DEFINE all == AsMessages(lines)
<1>1. Messages(lines) = Selected(all, Becoming(lines))
  BY Zenon DEF Messages, AsMessages, Becoming
<1>2. all \in Seq(Msg) /\ Len(all) = Len(lines) /\ \A k \in 1..Len(lines) : all[k] = Message(lines[k])
  BY AsMessagesTyped
<1> HIDE DEF all
<1>3. ElementsOf(Selected(all, Becoming(lines))) = {all[k] : k \in 1..Len(all) \intersect Becoming(lines)}
  BY <1>2, SelectedElements
<1>4. 1..Len(lines) \intersect Becoming(lines) = Becoming(lines)
  BY DEF Becoming
<1>5. \A k \in Becoming(lines) : all[k] = Message(lines[k])
  BY <1>2, <1>4
<1>6. {all[k] : k \in Becoming(lines)} = {Message(lines[k]) : k \in Becoming(lines)}
  BY <1>5
<1>7. QED
  BY <1>1, <1>2, <1>3, <1>4, <1>6

\* Lines that follow become messages that follow.
LEMMA MessagesConcat ==
    ASSUME NEW a \in Seq(Line), NEW b \in Seq(Line)
    PROVE  Messages(a \o b) = Messages(a) \o Messages(b)
<1> DEFINE ab == a \o b
           p == AsMessages(a)
           q == AsMessages(b)
           all == AsMessages(ab)
<1>1. /\ ab \in Seq(Line) /\ Len(ab) = Len(a) + Len(b) /\ Len(a) \in Nat /\ Len(b) \in Nat
      /\ \A k \in 1..Len(a) : ab[k] = a[k]
      /\ \A k \in 1..Len(b) : ab[Len(a) + k] = b[k]
  OBVIOUS
<1> HIDE DEF ab
<1>2. /\ p \in Seq(Msg) /\ Len(p) = Len(a) /\ \A k \in 1..Len(a) : p[k] = Message(a[k])
      /\ q \in Seq(Msg) /\ Len(q) = Len(b) /\ \A k \in 1..Len(b) : q[k] = Message(b[k])
      /\ all \in Seq(Msg) /\ Len(all) = Len(ab) /\ \A k \in 1..Len(ab) : all[k] = Message(ab[k])
  BY <1>1, AsMessagesTyped
<1>3. /\ Messages(ab) = Selected(all, Becoming(ab)) /\ Messages(a) = Selected(p, Becoming(a))
      /\ Messages(b) = Selected(q, Becoming(b))
  BY Zenon DEF Messages, AsMessages, Becoming
<1> HIDE DEF p, q, all
<1>4. all = p \o q
  <2> DEFINE pq == p \o q
  <2>0. p \in Seq(Msg) /\ q \in Seq(Msg)
    BY <1>2
  <2>1. /\ pq \in Seq(Msg) /\ Len(pq) = Len(p) + Len(q) /\ \A k \in 1..Len(p) : pq[k] = p[k]
        /\ \A k \in 1..Len(q) : pq[Len(p) + k] = q[k]
    BY <2>0, ConcatIs
  <2> HIDE DEF pq
  <2>2. Len(pq) = Len(all)
    BY <1>1, <1>2, <2>1
  <2>3. ASSUME NEW k \in 1..Len(all) PROVE all[k] = pq[k]
    <3>1. CASE k <= Len(a)
      <4>1. k \in 1..Len(a) /\ k \in 1..Len(p) /\ k \in 1..Len(ab)
        BY <1>1, <1>2, <3>1
      <4>2. QED
        BY <1>1, <1>2, <2>1, <4>1
    <3>2. CASE ~(k <= Len(a))
      <4> DEFINE j == k - Len(a)
      <4>1. j \in 1..Len(b) /\ j \in 1..Len(q) /\ k \in 1..Len(ab) /\ k = Len(a) + j /\ k = Len(p) + j
        BY <1>1, <1>2, <3>2
      <4> HIDE DEF j
      <4>2. all[k] = Message(ab[Len(a) + j]) /\ pq[k] = q[j]
        BY <1>2, <2>1, <4>1
      <4>3. QED
        BY <1>1, <1>2, <4>1, <4>2
    <3>3. QED
      BY <3>1, <3>2
  <2>4. all = pq
    BY <1>2, <2>1, <2>2, <2>3, SameSequence
  <2>5. QED
    BY <2>4 DEF pq
<1>5. Selected(all, Becoming(ab)) =
        Selected(p, Becoming(ab)) \o Selected(q, From(Becoming(ab), Len(p), Len(q)))
  BY <1>2, <1>4, SelectedConcat
<1>6. Selected(p, Becoming(ab)) = Selected(p, Becoming(a))
  <2>1. ASSUME NEW k \in 1..Len(p) PROVE k \in Becoming(a) <=> k \in Becoming(ab)
    <3>1. k \in 1..Len(a) /\ k \in 1..Len(ab) /\ ab[k] = a[k]
      BY <1>1, <1>2
    <3>2. k \in DOMAIN a /\ k \in DOMAIN ab
      BY <1>1, <3>1
    <3>3. QED
      BY <3>1, <3>2 DEF Becoming
  <2>2. QED
    BY <1>2, <2>1, SelectedSame
<1>7. Selected(q, From(Becoming(ab), Len(p), Len(q))) = Selected(q, Becoming(b))
  <2>1. ASSUME NEW k \in 1..Len(q) PROVE k \in Becoming(b) <=> k \in From(Becoming(ab), Len(p), Len(q))
    <3>1. k \in 1..Len(b) /\ Len(p) + k \in 1..Len(ab) /\ ab[Len(p) + k] = b[k]
      BY <1>1, <1>2
    <3>2. k \in DOMAIN b /\ Len(p) + k \in DOMAIN ab
      BY <1>1, <3>1
    <3>3. k \in From(Becoming(ab), Len(p), Len(q)) <=> Len(p) + k \in Becoming(ab)
      BY DEF From
    <3>4. QED
      BY <3>1, <3>2, <3>3 DEF Becoming
  <2>2. QED
    BY <1>2, <2>1, SelectedSame
<1>8. QED
  BY <1>3, <1>5, <1>6, <1>7 DEF ab

-----------------------------------------------------------------------------
(* Merging.                                                                *)

MergeAll(messages) == [k \in DOMAIN messages |-> MergeMessage(messages, k)]
Kept(all) == {k \in DOMAIN all : all[k].kind # "result" \/ all[k].tools # {}}

\* What of a message is left after the merge: the tools that no use before it has.
LEMMA ToolsLeft ==
    ASSUME NEW messages \in Seq(Msg), NEW k \in 1..Len(messages)
    PROVE  /\ MergeMessage(messages, k) \in Msg
           /\ MergeMessage(messages, k).id = messages[k].id
           /\ MergeMessage(messages, k).kind = messages[k].kind
           /\ MergeMessage(messages, k).tools =
                {i \in messages[k].tools : messages[k].kind = "result" => UsesBefore(messages, i, k) = {}}
           /\ MergeMessage(messages, k).done =
                {i \in messages[k].tools : \E j \in 1..Len(messages) : GoesTo(messages, i, j, k)}
<1> DEFINE m == messages[k]
           n == MergeMessage(messages, k)
           left == {i \in m.tools : \A j \in DOMAIN messages : ~GoesTo(messages, i, k, j)}
           taken == {i \in m.tools : \E j \in DOMAIN messages : GoesTo(messages, i, j, k)}
<1>1. n = [m EXCEPT !.tools = left, !.done = taken]
  BY Zenon DEF MergeMessage
<1>2. m \in Msg /\ DOMAIN messages = 1..Len(messages) /\ Len(messages) \in Nat
  OBVIOUS
<1>3. n \in Msg /\ n.id = m.id /\ n.kind = m.kind /\ n.tools = left /\ n.done = taken
  <2>1. left \in SUBSET Nat /\ taken \in SUBSET Nat
    BY <1>2 DEF Msg
  <2> HIDE DEF n, left, taken, m
  <2>2. QED
    BY <1>1, <1>2, <2>1 DEF Msg
<1>4. ASSUME NEW i \in m.tools
      PROVE  (\A j \in DOMAIN messages : ~GoesTo(messages, i, k, j))
               <=> (m.kind = "result" => UsesBefore(messages, i, k) = {})
  <2>1. UsesBefore(messages, i, k) \subseteq 1..(k - 1)
    BY DEF UsesBefore
  <2>2. CASE m.kind = "result" /\ UsesBefore(messages, i, k) # {}
    <3>1. k \in Nat /\ UsesBefore(messages, i, k) \in SUBSET (0..k)
      BY <1>2, <2>1
    <3>2. PICK j \in UsesBefore(messages, i, k) : \A other \in UsesBefore(messages, i, k) : other <= j
      BY <2>2, <3>1, GreatestExists
    <3>3. j \in DOMAIN messages
      BY <1>2, <2>1
    <3>4. QED
      BY <2>2, <3>2, <3>3 DEF GoesTo
  <2>3. CASE ~(m.kind = "result" /\ UsesBefore(messages, i, k) # {})
    BY <2>3 DEF GoesTo
  <2>4. QED
    BY <2>2, <2>3
<1>5. left = {i \in m.tools : m.kind = "result" => UsesBefore(messages, i, k) = {}}
  <2> HIDE DEF m
  <2> QED BY <1>4
<1>6. taken = {i \in m.tools : \E j \in 1..Len(messages) : GoesTo(messages, i, j, k)}
  BY <1>2
<1>7. QED
  BY <1>3, <1>5, <1>6, Zenon

\* Where the messages of two in a row come from.
Joined(all, p, t) ==
    /\ all \in Seq(Msg) /\ p \in Seq(Msg) /\ t \in Seq(Msg)
    /\ Len(p) \in Nat /\ Len(t) \in Nat /\ Len(all) = Len(p) + Len(t)
    /\ \A k \in 1..Len(p) : all[k] = p[k]
    /\ \A k \in 1..Len(t) : all[Len(p) + k] = t[k]

\* Two in a row, as the merge sees them.
LEMMA JoinedConcat ==
    ASSUME NEW p \in Seq(Msg), NEW t \in Seq(Msg)
    PROVE  Joined(p \o t, p, t)
  BY DEF Joined

IsUseOf(message, i) == message.kind = "use" /\ i \in message.tools

\* The uses before a message of the second are those of the first and its own.
LEMMA UsesOfEnd ==
    ASSUME NEW all, NEW p, NEW t, Joined(all, p, t), NEW i, NEW k \in 1..Len(t)
    PROVE  /\ UsesBefore(all, i, Len(p) + k) \subseteq 1..Len(all)
           /\ \A j \in 1..Len(p) : j \in UsesBefore(all, i, Len(p) + k) <=> IsUseOf(p[j], i)
           /\ \A j \in 1..Len(t) : Len(p) + j \in UsesBefore(all, i, Len(p) + k)
                                     <=> j \in UsesBefore(t, i, k)
           /\ UsesBefore(t, i, k) \subseteq 1..Len(t)
<1> USE DEF Joined
<1>1. UsesBefore(all, i, Len(p) + k) \subseteq 1..Len(all) /\ UsesBefore(t, i, k) \subseteq 1..Len(t)
  BY DEF UsesBefore
<1>2. ASSUME NEW j \in 1..Len(p)
      PROVE  j \in UsesBefore(all, i, Len(p) + k) <=> IsUseOf(p[j], i)
  <2>1. j \in 1..((Len(p) + k) - 1) /\ all[j] = p[j]
    OBVIOUS
  <2>2. QED
    BY <2>1 DEF UsesBefore, IsUseOf
<1>3. ASSUME NEW j \in 1..Len(t)
      PROVE  Len(p) + j \in UsesBefore(all, i, Len(p) + k) <=> j \in UsesBefore(t, i, k)
  <2>1. Len(p) + j \in 1..((Len(p) + k) - 1) <=> j \in 1..(k - 1)
    OBVIOUS
  <2>2. all[Len(p) + j] = t[j]
    OBVIOUS
  <2>3. QED
    BY <2>1, <2>2 DEF UsesBefore
<1>4. QED
  BY <1>1, <1>2, <1>3

\* A place of two in a row is one of the first or one of the second.
LEMMA PlaceOf ==
    ASSUME NEW all, NEW p, NEW t, Joined(all, p, t), NEW j \in 1..Len(all)
    PROVE  j \in 1..Len(p) \/ (j - Len(p) \in 1..Len(t) /\ j = Len(p) + (j - Len(p)))
  BY DEF Joined

\* Within the second a result goes where it goes when the first is not there.
LEMMA GoesOfEnd ==
    ASSUME NEW all, NEW p, NEW t, Joined(all, p, t), NEW i, NEW j \in 1..Len(t), NEW k \in 1..Len(t)
    PROVE  GoesTo(all, i, Len(p) + j, Len(p) + k) <=> GoesTo(t, i, j, k)
<1>1. all[Len(p) + j] = t[j] /\ Len(p) \in Nat /\ Len(t) \in Nat
  BY DEF Joined
<1>2. Len(p) + k \in UsesBefore(all, i, Len(p) + j) <=> k \in UsesBefore(t, i, j)
  BY UsesOfEnd
<1>3. (\A other \in UsesBefore(all, i, Len(p) + j) : other <= Len(p) + k)
        <=> (\A other \in UsesBefore(t, i, j) : other <= k)
  <2>1. ASSUME \A other \in UsesBefore(all, i, Len(p) + j) : other <= Len(p) + k,
               NEW other \in UsesBefore(t, i, j)
        PROVE  other <= k
    <3>1. other \in 1..Len(t)
      BY UsesOfEnd
    <3>2. Len(p) + other \in UsesBefore(all, i, Len(p) + j)
      BY <3>1, UsesOfEnd
    <3>3. Len(p) + other <= Len(p) + k
      BY <2>1, <3>2
    <3>4. QED
      BY <1>1, <3>1, <3>3
  <2>2. ASSUME \A other \in UsesBefore(t, i, j) : other <= k,
               NEW other \in UsesBefore(all, i, Len(p) + j)
        PROVE  other <= Len(p) + k
    <3>1. other \in 1..Len(all)
      BY UsesOfEnd
    <3>2. CASE other \in 1..Len(p)
      BY <1>1, <3>2
    <3>3. CASE other - Len(p) \in 1..Len(t) /\ other = Len(p) + (other - Len(p))
      <4>1. other - Len(p) \in UsesBefore(t, i, j)
        BY <3>3, UsesOfEnd
      <4>2. other - Len(p) <= k
        BY <2>2, <4>1
      <4>3. QED
        BY <1>1, <3>1, <4>2
    <3>4. QED
      BY <3>1, <3>2, <3>3, PlaceOf
  <2>3. QED
    BY <2>1, <2>2
<1>4. QED
  BY <1>1, <1>2, <1>3 DEF GoesTo

\* The merge makes of a message of the second what it makes of it when the first
\* is not there, but for the results that go to uses of the first.
LEMMA MergeOfEnd ==
    ASSUME NEW all, NEW p, NEW t, Joined(all, p, t), NEW k \in 1..Len(t)
    PROVE  LET m == MergeMessage(all, Len(p) + k)
               n == MergeMessage(t, k)
           IN  /\ m \in Msg /\ n \in Msg /\ m.id = n.id /\ m.kind = n.kind /\ m.done = n.done
               /\ n.kind = t[k].kind
               /\ m.tools \subseteq n.tools
               /\ m.tools # n.tools => /\ n.kind = "result"
                                       /\ \E j \in 1..Len(p), i \in n.tools : IsUseOf(p[j], i)
<1> DEFINE x == Len(p) + k
<1>1. /\ x \in 1..Len(all) /\ all[x] = t[k] /\ all \in Seq(Msg) /\ t \in Seq(Msg)
      /\ Len(p) \in Nat /\ Len(t) \in Nat
  BY DEF Joined
<1> HIDE DEF x
<1>2. /\ MergeMessage(all, x) \in Msg /\ MergeMessage(all, x).id = t[k].id
      /\ MergeMessage(all, x).kind = t[k].kind
      /\ MergeMessage(all, x).tools =
           {i \in t[k].tools : t[k].kind = "result" => UsesBefore(all, i, x) = {}}
      /\ MergeMessage(all, x).done = {i \in t[k].tools : \E j \in 1..Len(all) : GoesTo(all, i, j, x)}
  BY <1>1, ToolsLeft
<1>3. /\ MergeMessage(t, k) \in Msg /\ MergeMessage(t, k).id = t[k].id
      /\ MergeMessage(t, k).kind = t[k].kind
      /\ MergeMessage(t, k).tools =
           {i \in t[k].tools : t[k].kind = "result" => UsesBefore(t, i, k) = {}}
      /\ MergeMessage(t, k).done = {i \in t[k].tools : \E j \in 1..Len(t) : GoesTo(t, i, j, k)}
  BY <1>1, ToolsLeft
<1>4. ASSUME NEW i
      PROVE  (\E j \in 1..Len(all) : GoesTo(all, i, j, x)) <=> \E j \in 1..Len(t) : GoesTo(t, i, j, k)
  <2>1. ASSUME NEW j \in 1..Len(all), GoesTo(all, i, j, x)
        PROVE  \E h \in 1..Len(t) : GoesTo(t, i, h, k)
    <3>1. x \in 1..(j - 1)
      BY <2>1 DEF GoesTo, UsesBefore
    <3>2. j \notin 1..Len(p)
      BY <1>1, <3>1 DEF x
    <3>3. j - Len(p) \in 1..Len(t) /\ j = Len(p) + (j - Len(p))
      BY <3>2, PlaceOf
    <3>4. GoesTo(t, i, j - Len(p), k)
      BY <2>1, <3>3, GoesOfEnd DEF x
    <3>5. QED
      BY <3>3, <3>4
  <2>2. ASSUME NEW j \in 1..Len(t), GoesTo(t, i, j, k)
        PROVE  \E h \in 1..Len(all) : GoesTo(all, i, h, x)
    <3>1. Len(p) + j \in 1..Len(all)
      BY DEF Joined
    <3>2. GoesTo(all, i, Len(p) + j, x)
      BY <2>2, GoesOfEnd DEF x
    <3>3. QED
      BY <3>1, <3>2
  <2>3. QED
    BY <2>1, <2>2
<1>5. MergeMessage(all, x).done = MergeMessage(t, k).done
  BY <1>2, <1>3, <1>4
<1>6. ASSUME NEW i, UsesBefore(t, i, k) # {} PROVE UsesBefore(all, i, x) # {}
  <2>1. PICK j \in UsesBefore(t, i, k) : TRUE
    BY <1>6
  <2>2. j \in 1..Len(t)
    BY <2>1, UsesOfEnd
  <2>3. Len(p) + j \in UsesBefore(all, i, x)
    BY <2>1, <2>2, UsesOfEnd DEF x
  <2>4. QED
    BY <2>3
<1>7. ASSUME NEW i, UsesBefore(all, i, x) # {}, UsesBefore(t, i, k) = {}
      PROVE  \E j \in 1..Len(p) : IsUseOf(p[j], i)
  <2>1. PICK j \in UsesBefore(all, i, x) : TRUE
    BY <1>7
  <2>2. j \in 1..Len(all)
    BY <2>1, UsesOfEnd DEF x
  <2>3. CASE j \in 1..Len(p)
    BY <2>1, <2>3, UsesOfEnd DEF x
  <2>4. CASE j - Len(p) \in 1..Len(t) /\ j = Len(p) + (j - Len(p))
    <3>1. j - Len(p) \in UsesBefore(t, i, k)
      BY <2>1, <2>4, UsesOfEnd DEF x
    <3>2. QED
      BY <1>7, <3>1
  <2>5. QED
    BY <2>2, <2>3, <2>4, PlaceOf
<1>8. MergeMessage(all, x).tools \subseteq MergeMessage(t, k).tools
  BY <1>2, <1>3, <1>6
<1>9. ASSUME MergeMessage(all, x).tools # MergeMessage(t, k).tools
      PROVE  /\ t[k].kind = "result"
             /\ \E j \in 1..Len(p), i \in MergeMessage(t, k).tools : IsUseOf(p[j], i)
  <2>1. PICK i \in MergeMessage(t, k).tools : i \notin MergeMessage(all, x).tools
    BY <1>8, <1>9
  <2>2. t[k].kind = "result" /\ UsesBefore(all, i, x) # {} /\ UsesBefore(t, i, k) = {}
    BY <1>2, <1>3, <2>1
  <2>3. QED
    BY <1>7, <2>1, <2>2
<1>10. QED
  BY <1>2, <1>3, <1>5, <1>8, <1>9 DEF x

\* What follows takes nothing from a message; it can only bring it results.
LEMMA MergeOfBeginning ==
    ASSUME NEW all, NEW p, NEW t, Joined(all, p, t), NEW k \in 1..Len(p)
    PROVE  LET m == MergeMessage(all, k)
               n == MergeMessage(p, k)
           IN  m \in Msg /\ n \in Msg /\ m.id = n.id /\ m.kind = n.kind /\ m.tools = n.tools
<1>1. /\ k \in 1..Len(all) /\ all[k] = p[k] /\ all \in Seq(Msg) /\ p \in Seq(Msg)
      /\ Len(p) \in Nat
  BY DEF Joined
<1>2. /\ MergeMessage(all, k) \in Msg /\ MergeMessage(all, k).id = p[k].id
      /\ MergeMessage(all, k).kind = p[k].kind
      /\ MergeMessage(all, k).tools =
           {i \in p[k].tools : p[k].kind = "result" => UsesBefore(all, i, k) = {}}
  BY <1>1, ToolsLeft
<1>3. /\ MergeMessage(p, k) \in Msg /\ MergeMessage(p, k).id = p[k].id
      /\ MergeMessage(p, k).kind = p[k].kind
      /\ MergeMessage(p, k).tools =
           {i \in p[k].tools : p[k].kind = "result" => UsesBefore(p, i, k) = {}}
  BY <1>1, ToolsLeft
<1>4. ASSUME NEW i PROVE UsesBefore(all, i, k) = UsesBefore(p, i, k)
  <2>1. \A j \in 1..(k - 1) : j \in 1..Len(p) /\ all[j] = p[j]
    BY <1>1 DEF Joined
  <2>2. QED
    BY <2>1 DEF UsesBefore
<1>5. QED
  BY <1>2, <1>3, <1>4

\* The merge returns messages, made one by one.
LEMMA MergedTyped ==
    ASSUME NEW messages \in Seq(Msg)
    PROVE  /\ Merged(messages) = Selected(MergeAll(messages), Kept(MergeAll(messages)))
           /\ MergeAll(messages) \in Seq(Msg) /\ Len(MergeAll(messages)) = Len(messages)
           /\ \A k \in 1..Len(messages) : MergeAll(messages)[k] = MergeMessage(messages, k)
           /\ Merged(messages) \in Seq(Msg)
<1>1. Merged(messages) = Selected(MergeAll(messages), Kept(MergeAll(messages)))
  BY Zenon DEF Merged, MergeAll, Kept
<1>2. \A k \in 1..Len(messages) : MergeMessage(messages, k) \in Msg
  BY ToolsLeft
<1>3. DOMAIN messages = 1..Len(messages) /\ Len(messages) \in Nat
  OBVIOUS
<1>4. /\ MergeAll(messages) \in Seq(Msg) /\ Len(MergeAll(messages)) = Len(messages)
      /\ \A k \in 1..Len(messages) : MergeAll(messages)[k] = MergeMessage(messages, k)
  BY <1>2, <1>3 DEF MergeAll
<1>5. QED
  BY <1>1, <1>4, SelectedTyped

\* A sequence is its beginning and the rest.
Parts(S, s, n, a, b) ==
    /\ a \in Seq(S) /\ Len(a) = n /\ \A k \in 1..n : a[k] = s[k]
    /\ b \in Seq(S) /\ Len(b) = Len(s) - n /\ \A k \in 1..(Len(s) - n) : b[k] = s[n + k]
    /\ s = a \o b

LEMMA BeginningAndRest ==
    ASSUME NEW S, NEW s \in Seq(S), NEW n \in 0..Len(s)
    PROVE  Parts(S, s, n, SubSeq(s, 1, n), SubSeq(s, n + 1, Len(s)))
<1> DEFINE a == SubSeq(s, 1, n)
           b == SubSeq(s, n + 1, Len(s))
           c == a \o b
<1>1. a \in Seq(S) /\ Len(a) = n /\ \A k \in 1..n : a[k] = s[k]
  BY Beginnings
<1>2. b \in Seq(S) /\ Len(b) = Len(s) - n /\ \A k \in 1..(Len(s) - n) : b[k] = s[n + k]
  OBVIOUS
<1> HIDE DEF a, b
<1>3. /\ c \in Seq(S) /\ Len(c) = Len(a) + Len(b) /\ \A k \in 1..Len(a) : c[k] = a[k]
      /\ \A k \in 1..Len(b) : c[Len(a) + k] = b[k]
  BY <1>1, <1>2, ConcatIs
<1> HIDE DEF c
<1>4. Len(s) \in Nat /\ n \in Nat /\ Len(c) = Len(s)
  BY <1>1, <1>2, <1>3
<1>5. ASSUME NEW k \in 1..Len(s) PROVE s[k] = c[k]
  <2>1. CASE k <= n
    BY <1>1, <1>3, <1>4, <2>1
  <2>2. CASE ~(k <= n)
    <3>1. k - n \in 1..Len(b) /\ k = n + (k - n)
      BY <1>2, <1>4, <2>2
    <3>2. c[n + (k - n)] = b[k - n] /\ b[k - n] = s[n + (k - n)]
      BY <1>1, <1>2, <1>3, <3>1
    <3>3. QED
      BY <3>1, <3>2
  <2>3. QED
    BY <2>1, <2>2
<1>6. s = c
  BY <1>3, <1>4, <1>5, SameSequence
<1>7. Parts(S, s, n, a, b)
  BY <1>1, <1>2, <1>6 DEF Parts, c
<1>8. QED
  BY <1>7 DEF a, b

\* A message that misses a use of the first one in a row.
Misses(p, message) ==
    message.kind = "result" /\ \E j \in 1..Len(p), i \in message.tools : IsUseOf(p[j], i)

\* A message is its four fields.
LEMMA SameMessage ==
    ASSUME NEW m \in Msg, NEW n \in Msg, m.id = n.id, m.kind = n.kind, m.tools = n.tools,
           m.done = n.done
    PROVE  m = n
  BY DEF Msg

\* What is kept of the second is kept of both, when it misses nothing.
LEMMA KeptOfEnd ==
    ASSUME NEW all, NEW p, NEW t, Joined(all, p, t), NEW k \in 1..Len(t)
    PROVE  /\ Len(p) + k \in Kept(MergeAll(all)) => k \in Kept(MergeAll(t))
           /\ k \in Kept(MergeAll(t)) /\ ~Misses(p, MergeAll(t)[k]) =>
                /\ Len(p) + k \in Kept(MergeAll(all))
                /\ MergeAll(all)[Len(p) + k] = MergeAll(t)[k]
           /\ Misses(p, MergeAll(t)[k]) => \E j \in 1..Len(p) : j \in Kept(MergeAll(all))
<1> DEFINE x == Len(p) + k
           m == MergeMessage(all, x)
           n == MergeMessage(t, k)
<1>1. /\ x \in 1..Len(all) /\ all \in Seq(Msg) /\ t \in Seq(Msg) /\ Len(p) \in Nat
      /\ \A j \in 1..Len(p) : j \in 1..Len(all)
  BY DEF Joined
<1>2. /\ m \in Msg /\ n \in Msg /\ m.id = n.id /\ m.kind = n.kind /\ m.done = n.done
      /\ m.tools \subseteq n.tools
      /\ m.tools # n.tools => /\ n.kind = "result"
                              /\ \E j \in 1..Len(p), i \in n.tools : IsUseOf(p[j], i)
  BY MergeOfEnd
<1>3. /\ MergeAll(all) \in Seq(Msg) /\ Len(MergeAll(all)) = Len(all) /\ MergeAll(all)[x] = m
      /\ MergeAll(t) \in Seq(Msg) /\ Len(MergeAll(t)) = Len(t) /\ MergeAll(t)[k] = n
  <2>1. /\ MergeAll(all) \in Seq(Msg) /\ Len(MergeAll(all)) = Len(all)
        /\ \A j \in 1..Len(all) : MergeAll(all)[j] = MergeMessage(all, j)
    BY <1>1, MergedTyped
  <2>2. /\ MergeAll(t) \in Seq(Msg) /\ Len(MergeAll(t)) = Len(t)
        /\ \A j \in 1..Len(t) : MergeAll(t)[j] = MergeMessage(t, j)
    BY <1>1, MergedTyped
  <2>3. QED
    BY <1>1, <2>1, <2>2
<1> HIDE DEF m, n, x
<1>4. x \in Kept(MergeAll(all)) <=> m.kind # "result" \/ m.tools # {}
  BY <1>1, <1>3 DEF Kept
<1>5. k \in Kept(MergeAll(t)) <=> n.kind # "result" \/ n.tools # {}
  BY <1>1, <1>3 DEF Kept
<1>6. x \in Kept(MergeAll(all)) => k \in Kept(MergeAll(t))
  BY <1>2, <1>4, <1>5
<1>7. ASSUME k \in Kept(MergeAll(t)), ~Misses(p, n)
      PROVE  x \in Kept(MergeAll(all)) /\ m = n
  <2>1. m.tools = n.tools
    BY <1>2, <1>7 DEF Misses
  <2>2. m = n
    BY <1>2, <2>1, SameMessage
  <2>3. QED
    BY <1>4, <1>5, <1>7, <2>2
<1>8. ASSUME Misses(p, n) PROVE \E j \in 1..Len(p) : j \in Kept(MergeAll(all))
  <2>1. PICK j \in 1..Len(p), i \in n.tools : IsUseOf(p[j], i)
    BY <1>8 DEF Misses
  <2>2. MergeMessage(all, j).kind = "use"
    <3>1. MergeMessage(all, j).kind = all[j].kind
      BY <1>1, ToolsLeft
    <3>2. all[j] = p[j]
      BY DEF Joined
    <3>3. QED
      BY <2>1, <3>1, <3>2 DEF IsUseOf
  <2>3. MergeAll(all)[j] = MergeMessage(all, j) /\ j \in DOMAIN MergeAll(all)
    BY <1>1, <1>3, MergedTyped
  <2>4. j \in Kept(MergeAll(all))
    BY <2>2, <2>3 DEF Kept
  <2>5. QED
    BY <2>4
<1>9. QED
  BY <1>3, <1>6, <1>7, <1>8 DEF x

\* A sequence that has an element is not empty.
LEMMA HasElement ==
    ASSUME NEW S, NEW s \in Seq(S)
    PROVE  /\ Len(s) >= 1 => \E x : x \in ElementsOf(s)
           /\ ElementsOf(s) # {} => Len(s) >= 1
<1>1. Len(s) \in Nat
  OBVIOUS
<1>2. Len(s) >= 1 => s[1] \in ElementsOf(s)
  BY <1>1 DEF ElementsOf
<1>3. ElementsOf(s) # {} => 1..Len(s) # {}
  BY DEF ElementsOf
<1>4. QED
  BY <1>1, <1>2, <1>3

\* Two sequences of messages whose last n are the same, and that have more.
EndAlike(s, t, n) ==
    \E a \in Seq(Msg), b \in Seq(Msg), z \in Seq(Msg) :
      Len(a) >= 1 /\ Len(b) >= 1 /\ Len(z) = n /\ s = a \o z /\ t = b \o z

\* The messages of a tail end as those of the whole do, and there are more, as far
\* as the last ones miss no use.
LEMMA MergedOfEnd ==
    ASSUME NEW all, NEW p, NEW t, Joined(all, p, t), NEW n \in Nat, n < Len(Merged(t)),
           \A r \in 1..Len(Merged(t)) : r > Len(Merged(t)) - n => ~Misses(p, Merged(t)[r])
    PROVE  EndAlike(Merged(all), Merged(t), n)
<1> DEFINE mt == MergeAll(t)
           ma == MergeAll(all)
           kt == Kept(mt)
           ka == Kept(ma)
           m == Len(Merged(t))
<1>1. /\ all \in Seq(Msg) /\ t \in Seq(Msg) /\ Len(p) \in Nat /\ Len(t) \in Nat
      /\ Len(all) = Len(p) + Len(t)
  BY DEF Joined
<1>2. /\ Merged(t) = Selected(mt, kt) /\ mt \in Seq(Msg) /\ Len(mt) = Len(t)
      /\ Merged(t) \in Seq(Msg)
  BY <1>1, MergedTyped
<1>3. Merged(all) = Selected(ma, ka) /\ ma \in Seq(Msg) /\ Len(ma) = Len(all)
  BY <1>1, MergedTyped
<1>4. m \in Nat
  BY <1>2
<1>5. PICK c \in 0..Len(mt) : Len(Selected(SubSeq(mt, 1, c), kt)) = m - n
  <2>1. m - n \in 0..Len(Selected(mt, kt))
    BY <1>2, <1>4
  <2> HIDE DEF mt, kt, m
  <2>2. QED
    BY <1>2, <2>1, SelectedCut
<1> DEFINE t1 == SubSeq(mt, 1, c)
           t2 == SubSeq(mt, c + 1, Len(mt))
           b == Selected(t1, kt)
           z == Selected(t2, From(kt, c, Len(t2)))
           x == Len(p) + c
           a1 == SubSeq(ma, 1, x)
           a2 == SubSeq(ma, x + 1, Len(ma))
           a == Selected(a1, ka)
           y == Selected(a2, From(ka, x, Len(a2)))
<1>6. /\ t1 \in Seq(Msg) /\ Len(t1) = c /\ \A k \in 1..c : t1[k] = mt[k]
      /\ t2 \in Seq(Msg) /\ Len(t2) = Len(mt) - c
      /\ \A k \in 1..(Len(mt) - c) : t2[k] = mt[c + k]
      /\ mt = t1 \o t2
  <2>1. Parts(Msg, mt, c, t1, t2)
    <3> HIDE DEF mt
    <3> QED BY <1>2, BeginningAndRest
  <2> HIDE DEF mt, t1, t2
  <2>2. QED
    BY <2>1 DEF Parts
<1>7. x \in 0..Len(ma) /\ c \in Nat /\ x \in Nat
  BY <1>1, <1>2, <1>3
<1>8. /\ a1 \in Seq(Msg) /\ Len(a1) = x /\ \A k \in 1..x : a1[k] = ma[k]
      /\ a2 \in Seq(Msg) /\ Len(a2) = Len(ma) - x
      /\ \A k \in 1..(Len(ma) - x) : a2[k] = ma[x + k]
      /\ ma = a1 \o a2
  <2>1. Parts(Msg, ma, x, a1, a2)
    <3> HIDE DEF ma, x
    <3> QED BY <1>3, <1>7, BeginningAndRest
  <2> HIDE DEF ma, x, a1, a2
  <2>2. QED
    BY <2>1 DEF Parts
<1>9. b \in Seq(Msg) /\ z \in Seq(Msg) /\ a \in Seq(Msg)
  BY <1>6, <1>8, SelectedTyped
<1>10. Len(a2) = Len(t2)
  BY <1>1, <1>2, <1>3, <1>6, <1>8
<1>11. Merged(t) = b \o z
  <2>1. Selected(t1 \o t2, kt) = Selected(t1, kt) \o Selected(t2, From(kt, Len(t1), Len(t2)))
    <3> HIDE DEF t1, t2, kt
    <3> QED BY <1>6, SelectedConcat
  <2>2. QED
    BY <1>2, <1>6, <2>1, Zenon
<1>12. Merged(all) = a \o y
  <2>1. Selected(a1 \o a2, ka) = Selected(a1, ka) \o Selected(a2, From(ka, Len(a1), Len(a2)))
    <3> HIDE DEF a1, a2, ka
    <3> QED BY <1>8, SelectedConcat
  <2>2. QED
    BY <1>3, <1>8, <2>1, Zenon
<1>13. Len(b) = m - n
  BY <1>5
<1> HIDE DEF mt, ma, kt, ka, m, t1, t2, b, z, a1, a2, a, y
<1>14. Len(z) = n /\ Len(b) >= 1
  <2>1. Len(b \o z) = Len(b) + Len(z) /\ Len(z) \in Nat
    BY <1>9
  <2>2. QED
    BY <1>4, <1>11, <1>13, <2>1 DEF m
<1>15. \A e \in ElementsOf(z) : ~Misses(p, e)
  <2> SUFFICES ASSUME NEW r \in 1..Len(z) PROVE ~Misses(p, z[r])
    BY DEF ElementsOf
  <2>1. (b \o z)[Len(b) + r] = z[r]
    BY <1>9
  <2>2. Len(b) + r \in 1..m /\ Len(b) + r > m - n
    BY <1>4, <1>13, <1>14
  <2>3. QED
    BY <1>11, <2>1, <2>2 DEF m
<1>16. ElementsOf(z) = {t2[k] : k \in 1..Len(t2) \intersect From(kt, c, Len(t2))}
  BY <1>6, SelectedElements DEF z
<1>17. ASSUME NEW k \in 1..Len(t2)
       PROVE  /\ k \in From(kt, c, Len(t2)) <=> k \in From(ka, x, Len(a2))
              /\ k \in From(kt, c, Len(t2)) => t2[k] = a2[k]
  <2> DEFINE h == c + k
  <2>1. h \in 1..Len(t) /\ x + k = Len(p) + h /\ t2[k] = mt[h] /\ a2[k] = ma[Len(p) + h]
    <3>1. k \in 1..(Len(mt) - c) /\ t2[k] = mt[c + k]
      BY <1>6
    <3>2. k \in 1..(Len(ma) - x) /\ a2[k] = ma[x + k]
      BY <1>8, <1>10
    <3>3. x + k = Len(p) + (c + k) /\ c + k \in 1..Len(t)
      BY <1>1, <1>2, <1>7, <3>1
    <3>4. QED
      BY <3>1, <3>2, <3>3
  <2>2. k \in From(kt, c, Len(t2)) <=> h \in kt
    BY DEF From
  <2>3. k \in From(ka, x, Len(a2)) <=> Len(p) + h \in ka
    BY <1>10, <2>1 DEF From
  <2> HIDE DEF h
  <2>4. h \in kt => ~Misses(p, mt[h])
    BY <1>15, <1>16, <2>1, <2>2
  <2>5. /\ Len(p) + h \in ka => h \in kt
        /\ h \in kt /\ ~Misses(p, mt[h]) => Len(p) + h \in ka /\ ma[Len(p) + h] = mt[h]
    BY <2>1, KeptOfEnd DEF ka, kt, ma, mt
  <2>6. QED
    BY <2>1, <2>2, <2>3, <2>4, <2>5
<1>18. y = z
  <2> DEFINE fromT == From(kt, c, Len(t2))
             fromA == From(ka, x, Len(a2))
  <2>1. \A k \in 1..Len(t2) : k \in fromT <=> k \in fromA
    BY <1>17
  <2>3. \A k \in 1..Len(t2) : k \in fromT => t2[k] = a2[k]
    BY <1>17
  <2> HIDE DEF fromT, fromA
  <2>2. Selected(a2, fromA) = Selected(t2, fromT)
    <3>1. t2 \in Seq(Msg) /\ a2 \in Seq(Msg)
      BY <1>6, <1>8
    <3>2. QED
      BY <3>1, <1>10, <2>1, <2>3, SelectedSame
  <2>4. QED
    BY <2>2 DEF y, z, fromT, fromA
<1>19. Len(a) >= 1
  <2>1. PICK e : e \in ElementsOf(b)
    BY <1>9, <1>14, HasElement
  <2>2. ElementsOf(b) = {t1[k] : k \in 1..Len(t1) \intersect kt}
    <3>1. t1 \in Seq(Msg)
      BY <1>6
    <3>2. QED
      BY <3>1, SelectedElements DEF b
  <2>3. PICK k \in 1..Len(t1) : k \in kt
    BY <2>1, <2>2
  <2>4. k \in 1..Len(t) /\ Len(p) + k \in 1..x
    BY <1>1, <1>2, <1>6, <1>7
  <2>5. \E h \in 1..x : h \in ka
    <3>1. CASE Misses(p, mt[k])
      <4>1. PICK j \in 1..Len(p) : j \in ka
        BY <2>4, <3>1, KeptOfEnd DEF ka, ma, mt
      <4>2. j \in 1..x
        BY <1>1, <1>7
      <4>3. QED
        BY <4>1, <4>2
    <3>2. CASE ~Misses(p, mt[k])
      BY <2>3, <2>4, <3>2, KeptOfEnd DEF ka, kt, ma, mt
    <3>3. QED
      BY <3>1, <3>2
  <2>6. ElementsOf(a) = {a1[h] : h \in 1..Len(a1) \intersect ka}
    <3>1. a1 \in Seq(Msg)
      BY <1>8
    <3>2. QED
      BY <3>1, SelectedElements DEF a
  <2>7. ElementsOf(a) # {}
    BY <1>8, <2>5, <2>6
  <2>8. QED
    BY <1>9, <2>7, HasElement
<1>20. QED
  BY <1>9, <1>11, <1>12, <1>14, <1>18, <1>19, Zenon DEF EndAlike

\* Where no place is selected, nothing is.
LEMMA SelectedNothing ==
    ASSUME NEW S, NEW s \in Seq(S), NEW places, \A k \in 1..Len(s) : k \notin places
    PROVE  Selected(s, places) = <<>>
<1> DEFINE a == Selected(s, places)
<1>1. a \in Seq(S)
  BY SelectedTyped
<1>2. ElementsOf(a) = {s[k] : k \in 1..Len(s) \intersect places}
  BY SelectedElements
<1>3. 1..Len(s) \intersect places = {}
  OBVIOUS
<1> HIDE DEF a
<1>4. ElementsOf(a) = {}
  BY <1>2, <1>3
<1>5. Len(a) = 0
  <2>1. Len(a) \in Nat
    BY <1>1
  <2>2. ~(Len(a) >= 1)
    BY <1>1, <1>4, HasElement
  <2>3. QED
    BY <2>1, <2>2
<1>6. a = <<>>
  BY <1>1, <1>5
<1>7. QED
  BY <1>6 DEF a

\* Where every place is selected, everything is.
LEMMA SelectedAll ==
    ASSUME NEW S, NEW s \in Seq(S), NEW places, \A k \in 1..Len(s) : k \in places
    PROVE  Selected(s, places) = s
<1> DEFINE T == {n \in 0..Len(s) : Selected(SubSeq(s, 1, n), places) = SubSeq(s, 1, n)}
<1>1. 0 \in T
  <2>1. SubSeq(s, 1, 0) = <<>> /\ 0 \in 0..Len(s)
    BY Beginnings
  <2>2. QED
    BY <2>1, SelectedOfNone
<1>2. ASSUME NEW n \in T, n < Len(s) PROVE n + 1 \in T
  <2> DEFINE u == SubSeq(s, 1, n)
             x == s[n + 1]
  <2>1. n + 1 \in 0..Len(s) /\ n + 1 \in 1..Len(s) /\ n \in 0..Len(s)
    BY <1>2
  <2>2. SubSeq(s, 1, n + 1) = Append(u, x) /\ x \in S
    BY <1>2, <2>1, Beginnings
  <2>3. u \in Seq(S) /\ Len(u) = n
    BY <2>1, Beginnings
  <2>4. Selected(u, places) = u
    BY <1>2
  <2> HIDE DEF u, x
  <2>5. Selected(Append(u, x), places) =
          IF Len(u) + 1 \in places THEN Append(Selected(u, places), x) ELSE Selected(u, places)
    BY <2>2, <2>3, SelectedAppend
  <2>6. Selected(Append(u, x), places) = Append(u, x)
    BY <2>1, <2>3, <2>4, <2>5
  <2>7. QED
    BY <2>1, <2>2, <2>6
<1>3. Len(s) \in T
  <2> HIDE DEF T
  <2>1. T \in SUBSET (0..Len(s)) /\ Len(s) \in Nat
    BY DEF T
  <2>2. T = 0..Len(s)
    BY <1>1, <1>2, <2>1, UpTo
  <2>3. QED
    BY <2>1, <2>2
<1>4. SubSeq(s, 1, Len(s)) = s
  BY Beginnings
<1>5. QED
  BY <1>3, <1>4

-----------------------------------------------------------------------------
(* The invariant.                                                          *)

TranscriptOK ==
    /\ format \in Formats /\ file \in Seq(Line) /\ synced \in 0..Len(file)
    /\ limit \in Limits /\ offset \in Nat /\ phase \in {"idle", "tail", "read", "done"}
    /\ {size, readBytes, start} \subseteq Nat

\* Lines do not overlap, and the tools that are used are counted.
FileInv ==
    /\ \A j, k \in 1..Len(file) : j < k => file[j].at + file[j].size <= file[k].at
    /\ \A k \in 1..Len(file) : file[k].kind = "use" => file[k].tools \subseteq 1..MaxTools

\* A tail that was thought to be the whole file begins with it, unless the file
\* has grown.
TailInv ==
    /\ phase \in {"tail", "read"} => format # "opencode" /\ file # <<>> /\ size <= Size
    /\ phase = "read" /\ size = Size /\ readBytes >= size => start = 0

\* Of the messages that were promised, those behind the next page were shown.
KeepsPromise(q) ==
    /\ q \in 0..Len(AllMessages) /\ promised = {AllMessages[k].id : k \in 1..q}
    /\ \A k \in 1..q : k > Len(AllMessages) - offset => AllMessages[k].id \in shown
PromiseInv == ~cut /\ ~grown => \E q : KeepsPromise(q)

FileOK == TranscriptOK /\ FileInv

-----------------------------------------------------------------------------
\* A page has at least one message.
LEMMA LimitTyped == limit \in Limits => Limit \in Nat \ {0}
<1> SUFFICES ASSUME limit \in Limits PROVE Limit \in Nat \ {0}
  OBVIOUS
<1>1. limit \in Nat /\ DefaultLimit \in Nat \ {0} /\ MaxLimit \in Nat /\ DefaultLimit <= MaxLimit
  BY TranscriptAssumption
<1>2. QED
  BY <1>1 DEF Limit, Least

\* The whole transcript is messages.
LEMMA AllMessagesTyped == FileOK => AllMessages \in Seq(Msg)
<1> SUFFICES ASSUME FileOK PROVE AllMessages \in Seq(Msg)
  OBVIOUS
<1>1. file \in Seq(Line) /\ SubSeq(file, 1, synced) \in Seq(Line)
  BY Beginnings DEF FileOK, TranscriptOK
<1>2. Messages(file) \in Seq(Msg) /\ Messages(SubSeq(file, 1, synced)) \in Seq(Msg)
  BY <1>1, MessagesTyped
<1>3. QED
  BY <1>2, MergedTyped DEF AllMessages

\* Every line ends within the size of the file.
LEMMA SizeTyped ==
    ASSUME FileOK
    PROVE  /\ Size \in Nat
           /\ \A k \in 1..Len(file) : file[k].at + file[k].size <= Size
<1>1. file \in Seq(Line) /\ FileInv
  BY DEF FileOK, TranscriptOK
<1>2. CASE file = <<>>
  <2>1. Size = 0 /\ Len(file) = 0
    BY <1>2 DEF Size
  <2>2. QED
    BY <2>1
<1>3. CASE file # <<>>
  <2> DEFINE n == Len(file)
  <2>1. n \in 1..n /\ n \in Nat
    BY <1>1, <1>3
  <2>2. Size = file[n].at + file[n].size
    BY <1>3 DEF Size
  <2>3. \A k \in 1..n : file[k].at \in Nat /\ file[k].size \in Nat \ {0}
    <3>1. \A k \in 1..n : file[k] \in Line
      BY <1>1
    <3>2. QED
      BY <3>1 DEF Line
  <2>4. \A k \in 1..n : k < n => file[k].at + file[k].size <= file[n].at
    BY <1>1, <2>1 DEF FileInv
  <2> HIDE DEF n
  <2>5. ASSUME NEW k \in 1..n PROVE file[k].at + file[k].size <= Size
    <3>1. CASE k = n
      BY <2>2, <2>3, <3>1
    <3>2. CASE k < n
      <4> DEFINE a == file[k].at + file[k].size
                 b == file[n].at
                 c == file[n].size
      <4>1. a <= b /\ Size = b + c
        BY <2>2, <2>4, <3>2
      <4>2. a \in Nat /\ b \in Nat /\ c \in Nat
        BY <2>1, <2>3
      <4> HIDE DEF a, b, c
      <4>3. a <= Size
        BY <4>1, <4>2
      <4>4. QED
        BY <4>3 DEF a
    <3>3. QED
      BY <2>1, <3>1, <3>2
  <2>6. Size \in Nat
    BY <2>1, <2>2, <2>3
  <2>7. QED
    BY <2>5, <2>6 DEF n
<1>4. QED
  BY <1>2, <1>3

\* The lines of a tail are the last ones of the file.
LEMMA TailOfFile ==
    ASSUME FileOK, file # <<>>
    PROVE  \E n \in 0..Len(file) : LinesInTail = SubSeq(file, n + 1, Len(file))
<1> DEFINE after == IF start = 0 THEN file ELSE Selected(file, After)
<1>1. file \in Seq(Line) /\ Len(file) \in Nat /\ Len(file) >= 1 /\ start \in Nat /\ FileInv
  BY DEF FileOK, TranscriptOK
<1>2. LinesInTail = IF after = <<>> /\ file[Len(file)].at = start THEN <<file[Len(file)]>> ELSE after
  BY Zenon DEF LinesInTail
<1>3. \E n \in 0..Len(file) : after = SubSeq(file, n + 1, Len(file))
  <2>1. CASE start = 0
    <3>1. SubSeq(file, 0 + 1, Len(file)) = file /\ 0 \in 0..Len(file)
      BY <1>1, Beginnings
    <3>2. after = file
      BY <2>1
    <3>3. QED
      BY <3>1, <3>2
  <2>2. CASE start # 0
    <3> DEFINE Before == {0} \union {k \in 1..Len(file) : ~(file[k].at > start)}
    <3>1. Before \in SUBSET (0..Len(file)) /\ Before # {}
      BY <1>1
    <3>2. PICK n \in Before : \A m \in Before : m <= n
      <4> HIDE DEF Before
      <4> QED BY <1>1, <3>1, GreatestExists
    <3>3. n \in 0..Len(file)
      BY <1>1, <3>2
    <3>4. \A k \in 1..Len(file) : file[k].at \in Nat /\ file[k].size \in Nat \ {0}
      <4>1. \A k \in 1..Len(file) : file[k] \in Line
        BY <1>1
      <4>2. QED
        BY <4>1 DEF Line
    <3>5. ASSUME NEW k \in 1..Len(file) PROVE k \in After <=> k > n
      <4>1. CASE k > n
        <5>1. k \notin Before
          BY <1>1, <3>2, <3>3, <4>1
        <5>2. QED
          BY <1>1, <4>1, <5>1 DEF After
      <4>2. CASE ~(k > n)
        <5>1. n \in 1..Len(file) /\ ~(file[n].at > start)
          BY <3>2, <3>3, <4>2
        <5>2. k < n => file[k].at + file[k].size <= file[n].at
          BY <1>1, <5>1 DEF FileInv
        <5>3. ~(file[k].at > start)
          <6> DEFINE a == file[k].at
                     z == file[k].size
                     b == file[n].at
          <6>1. a \in Nat /\ z \in Nat /\ b \in Nat /\ ~(b > start) /\ (k < n => a + z <= b)
            BY <3>4, <5>1, <5>2
          <6>2. k < n \/ a = b
            BY <3>3, <4>2
          <6> HIDE DEF a, z, b
          <6>3. ~(a > start)
            BY <1>1, <6>1, <6>2
          <6>4. QED
            BY <6>3 DEF a
        <5>4. QED
          BY <4>2, <5>3 DEF After
      <4>3. QED
        BY <4>1, <4>2
    <3> DEFINE front == SubSeq(file, 1, n)
               rest == SubSeq(file, n + 1, Len(file))
    <3>6. /\ front \in Seq(Line) /\ Len(front) = n /\ rest \in Seq(Line)
          /\ Len(rest) = Len(file) - n /\ file = front \o rest
      <4>1. file \in Seq(Line) /\ n \in 0..Len(file)
        BY <1>1, <3>3
      <4>2. Parts(Line, file, n, front, rest)
        BY <4>1, BeginningAndRest
      <4> HIDE DEF front, rest
      <4>3. QED
        BY <4>2 DEF Parts
    <3> HIDE DEF front, rest
    <3>7. Selected(front \o rest, After) =
            Selected(front, After) \o Selected(rest, From(After, n, Len(rest)))
      <4>1. Selected(front \o rest, After) =
              Selected(front, After) \o Selected(rest, From(After, Len(front), Len(rest)))
        BY <3>6, SelectedConcat
      <4>2. QED
        BY <3>6, <4>1
    <3>8. Selected(front, After) = <<>>
      <4>1. \A k \in 1..Len(front) : k \notin After
        BY <1>1, <3>3, <3>5, <3>6
      <4>2. QED
        BY <3>6, <4>1, SelectedNothing
    <3>9. Selected(rest, From(After, n, Len(rest))) = rest
      <4> DEFINE places == From(After, n, Len(rest))
      <4>1. ASSUME NEW k \in 1..Len(rest) PROVE k \in places
        <5>1. n + k \in 1..Len(file) /\ n + k > n
          BY <1>1, <3>3, <3>6
        <5>2. QED
          BY <3>5, <5>1 DEF From
      <4> HIDE DEF places
      <4>2. Selected(rest, places) = rest
        BY <3>6, <4>1, SelectedAll
      <4>3. QED
        BY <4>2 DEF places
    <3>10. after = <<>> \o rest
      BY <2>2, <3>6, <3>7, <3>8, <3>9
    <3>11. <<>> \o rest = rest
      BY <3>6
    <3>12. QED
      BY <3>3, <3>10, <3>11 DEF rest
  <2>3. QED
    BY <2>1, <2>2
<1> HIDE DEF after
<1>4. CASE after = <<>> /\ file[Len(file)].at = start
  <2> DEFINE n == Len(file) - 1
  <2>1. n \in 0..Len(file) /\ n + 1 = Len(file)
    BY <1>1
  <2>2. SubSeq(file, Len(file), Len(file)) = <<file[Len(file)]>>
    <3> DEFINE a == SubSeq(file, Len(file), Len(file))
               b == <<file[Len(file)]>>
    <3>1. /\ a \in Seq(Line) /\ Len(a) = 1 /\ a[1] = file[Len(file)]
          /\ b \in Seq(Line) /\ Len(b) = 1 /\ b[1] = file[Len(file)]
      BY <1>1
    <3>2. a = b
      <4> HIDE DEF a, b
      <4> QED BY <3>1, SameSequence
    <3>3. QED
      BY <3>2
  <2>3. LinesInTail = SubSeq(file, n + 1, Len(file))
    BY <1>2, <1>4, <2>1, <2>2
  <2>4. QED
    BY <2>1, <2>3
<1>5. CASE ~(after = <<>> /\ file[Len(file)].at = start)
  BY <1>2, <1>3, <1>5
<1>6. QED
  BY <1>4, <1>5

\* Pages that are read from sequences with the same end are the same.
LEMMA PageOfEnd ==
    ASSUME offset \in Nat, Limit \in Nat \ {0}, NEW a \in Seq(Msg), NEW z \in Seq(Msg),
           Len(a) >= 1, Len(z) = offset + Limit
    PROVE  Page(a \o z) = [messages |-> SubSeq(z, 1, Limit), more |-> TRUE, next |-> offset + Limit]
<1> DEFINE az == a \o z
           end == Len(az) - offset
           first == IF Limit < end THEN end - Limit + 1 ELSE 1
<1>1. /\ az \in Seq(Msg) /\ Len(az) = Len(a) + Len(z) /\ Len(a) \in Nat /\ Len(z) \in Nat
      /\ \A k \in 1..Len(z) : az[Len(a) + k] = z[k]
  OBVIOUS
<1>2. Page(az) = IF offset >= Len(az) THEN [messages |-> <<>>, more |-> FALSE, next |-> 0]
                 ELSE [messages |-> SubSeq(az, first, end), more |-> first > 1,
                       next |-> IF first > 1 THEN offset + (end - first + 1) ELSE 0]
  BY Zenon DEF Page
<1> HIDE DEF az
<1>3. /\ ~(offset >= Len(az)) /\ end = Len(a) + Limit /\ first = Len(a) + 1 /\ first > 1
      /\ end - first + 1 = Limit
  BY <1>1
<1>4. SubSeq(az, Len(a) + 1, Len(a) + Limit) = SubSeq(z, 1, Limit)
  <2> DEFINE u == SubSeq(az, Len(a) + 1, Len(a) + Limit)
             v == SubSeq(z, 1, Limit)
  <2>1. Limit \in 0..Len(z)
    BY <1>1
  <2>2. v \in Seq(Msg) /\ Len(v) = Limit /\ \A k \in 1..Limit : v[k] = z[k]
    BY <2>1, Beginnings
  <2>3. u \in Seq(Msg) /\ Len(u) = Limit /\ \A k \in 1..Limit : u[k] = az[Len(a) + k]
    <3> DEFINE l == Limit
    <3>1. l \in Nat /\ l <= Len(z)
      BY <2>1
    <3> HIDE DEF l
    <3>2. SubSeq(az, Len(a) + 1, Len(a) + l) \in Seq(Msg)
      BY <1>1, <3>1
    <3>3. Len(SubSeq(az, Len(a) + 1, Len(a) + l)) = l
      BY <1>1, <3>1
    <3>4. \A k \in 1..l : SubSeq(az, Len(a) + 1, Len(a) + l)[k] = az[Len(a) + k]
      BY <1>1, <3>1
    <3>5. QED
      BY <3>2, <3>3, <3>4 DEF l
  <2>4. \A k \in 1..Limit : u[k] = v[k]
    <3> HIDE DEF u, v
    <3>1. \A k \in 1..Limit : k \in 1..Len(z)
      BY <1>1, <2>1
    <3>2. \A k \in 1..Limit : u[k] = az[Len(a) + k] /\ v[k] = z[k] /\ az[Len(a) + k] = z[k]
      BY <1>1, <2>2, <2>3, <3>1
    <3>3. QED
      BY <3>2, Zenon
  <2>5. u = v
    <3> HIDE DEF u, v
    <3> QED BY <2>2, <2>3, <2>4, SameSequence
  <2>6. QED
    BY <2>5
<1>5. Page(az) = [messages |-> SubSeq(z, 1, Limit), more |-> TRUE, next |-> offset + Limit]
  BY <1>2, <1>3, <1>4
<1>6. QED
  BY <1>5 DEF az

-----------------------------------------------------------------------------
(* The page of a tail.                                                     *)

\* An empty file has no messages.
LEMMA NothingOfNothing ==
    /\ Messages(<<>>) = <<>> /\ Merged(<<>>) = <<>>
    /\ SubSeq(<<>>, 1, 0) = <<>>
<1> DEFINE none == <<>>
<1>1. none \in Seq(Line) /\ none \in Seq(Msg) /\ DOMAIN none = {}
  OBVIOUS
<1>2. AsMessages(none) = none /\ MergeAll(none) = none
  BY <1>1 DEF AsMessages, MergeAll
<1>3. Messages(none) = Selected(AsMessages(none), Becoming(none))
  BY Zenon DEF Messages, AsMessages, Becoming
<1>4. Merged(none) = Selected(MergeAll(none), Kept(MergeAll(none)))
  BY Zenon DEF Merged, MergeAll, Kept
<1>5. SubSeq(none, 1, 0) = none
  OBVIOUS
<1>6. QED
  BY <1>2, <1>3, <1>4, <1>5, SelectedOfNone

\* What is left after a merge was there before.
LEMMA KeptOfSome ==
    ASSUME NEW messages \in Seq(Msg), Len(Merged(messages)) >= 1
    PROVE  Len(messages) >= 1
<1>1. Len(messages) \in Nat
  OBVIOUS
<1>2. CASE Len(messages) = 0
  <2>1. messages = <<>>
    BY <1>2
  <2>2. Len(Merged(messages)) = 0
    BY <2>1, NothingOfNothing
  <2>3. QED
    BY <2>2
<1>3. QED
  BY <1>1, <1>2

\* The last messages of a tail, as ReadTail looks at them.
Last(messages) ==
    SubSeq(messages, Len(messages) + 1 - Least(offset + Limit, Len(messages)), Len(messages))

\* A line that ends where another begins, or before, begins before it.
LEMMA Below ==
    ASSUME NEW x \in Nat, NEW y \in Nat \ {0}, NEW z \in Nat, x + y <= z
    PROVE  x < z
  OBVIOUS

\* A tail with a message more than it needs has the page of the whole
\* transcript, if no result on it misses its use.
LEMMA TailPage ==
    ASSUME FileOK, format # "opencode", file # <<>>,
           Len(Merged(Messages(LinesInTail))) >= Need,
           ~HoldsOrphan(LinesInTail, Last(Merged(Messages(LinesInTail))))
    PROVE  Page(Merged(Messages(LinesInTail))) = Page(AllMessages)
<1>1. PICK n \in 0..Len(file) : LinesInTail = SubSeq(file, n + 1, Len(file))
  BY TailOfFile
<1> DEFINE front == SubSeq(file, 1, n)
           lines == SubSeq(file, n + 1, Len(file))
           p == Messages(front)
           t == Messages(lines)
           all == Messages(file)
           messages == Merged(t)
           l == offset + Limit
<1>2. /\ file \in Seq(Line) /\ Len(file) \in Nat /\ n \in Nat /\ offset \in Nat
      /\ Limit \in Nat \ {0} /\ l \in Nat
  BY LimitTyped DEF FileOK, TranscriptOK
<1>3. /\ front \in Seq(Line) /\ Len(front) = n /\ \A k \in 1..n : front[k] = file[k]
      /\ lines \in Seq(Line) /\ Len(lines) = Len(file) - n
      /\ \A k \in 1..(Len(file) - n) : lines[k] = file[n + k]
      /\ file = front \o lines
  <2>1. file \in Seq(Line) /\ n \in 0..Len(file)
    BY <1>2
  <2>2. Parts(Line, file, n, front, lines)
    BY <2>1, BeginningAndRest
  <2> HIDE DEF front, lines
  <2>3. QED
    BY <2>2 DEF Parts
<1> HIDE DEF front, lines
<1>4. p \in Seq(Msg) /\ t \in Seq(Msg)
  BY <1>3, MessagesTyped
<1>5. all = p \o t
  <2>1. Messages(front \o lines) = Messages(front) \o Messages(lines)
    BY <1>3, MessagesConcat
  <2>2. QED
    BY <1>3, <2>1, Zenon
<1>6. LinesInTail = lines
  BY <1>1 DEF lines
<1>7. AllMessages = Merged(all)
  BY DEF AllMessages
<1>8. ElementsOf(p) = {Message(front[k]) : k \in Becoming(front)}
  BY <1>3, MessagesElements
<1> HIDE DEF p, t
<1>9. Joined(all, p, t)
  BY <1>4, <1>5, JoinedConcat
<1>10. Merged(Messages(LinesInTail)) = messages /\ messages \in Seq(Msg)
  BY <1>4, <1>6, MergedTyped DEF t
<1>11. Len(messages) >= l + 1 /\ Len(messages) \in Nat
  BY <1>2, <1>10 DEF Need
<1>12. Len(lines) >= 1
  <2>1. Len(t) >= 1
    BY <1>2, <1>4, <1>11, KeptOfSome
  <2>2. CASE Len(lines) = 0
    <3>1. lines = <<>>
      BY <1>3, <2>2
    <3>2. t = <<>>
      BY <3>1, NothingOfNothing DEF t
    <3>3. QED
      BY <2>1, <3>2
  <2>3. Len(lines) \in Nat
    BY <1>3
  <2>4. QED
    BY <2>2, <2>3
<1> HIDE DEF messages, all
<1>13. /\ DOMAIN Last(messages) = 1..l
       /\ \A k \in 1..l : Last(messages)[k] = messages[Len(messages) - l + k]
  <2> DEFINE m == Len(messages)
  <2>1. Least(offset + Limit, m) = l
    BY <1>2, <1>11 DEF Least
  <2>2. Last(messages) = SubSeq(messages, (m - l) + 1, m)
    <3>1. Last(messages) = SubSeq(messages, m + 1 - l, m)
      BY <2>1 DEF Last
    <3>2. m + 1 - l = (m - l) + 1
      BY <1>2, <1>11
    <3>3. QED
      BY <3>1, <3>2, Zenon
  <2>3. m - l \in 0..m
    BY <1>2, <1>11
  <2> DEFINE d == m - l
  <2>4. /\ SubSeq(messages, d + 1, Len(messages)) \in Seq(Msg)
        /\ Len(SubSeq(messages, d + 1, Len(messages))) = Len(messages) - d
        /\ \A k \in 1..(Len(messages) - d) : SubSeq(messages, d + 1, Len(messages))[k] = messages[d + k]
    <3> HIDE DEF d
    <3>1. d \in 0..Len(messages)
      BY <2>3 DEF d
    <3>2. Parts(Msg, messages, d, SubSeq(messages, 1, d), SubSeq(messages, d + 1, Len(messages)))
      BY <1>10, <3>1, BeginningAndRest
    <3>3. QED
      BY <3>2 DEF Parts
  <2>5. Len(messages) - d = l
    BY <1>2, <1>11
  <2>6. QED
    BY <2>2, <2>4, <2>5
<1>14. \A r \in 1..Len(messages) : r > Len(messages) - l => ~Misses(p, messages[r])
  <2> SUFFICES ASSUME NEW r \in 1..Len(messages), r > Len(messages) - l, Misses(p, messages[r])
               PROVE  FALSE
    OBVIOUS
  <2> DEFINE k == r - (Len(messages) - l)
  <2>1. k \in 1..l /\ r = Len(messages) - l + k
    BY <1>2, <1>11
  <2>2. k \in DOMAIN Last(messages) /\ Last(messages)[k] = messages[r]
    BY <1>13, <2>1
  <2> HIDE DEF k
  <2>3. messages[r].kind = "result"
    BY DEF Misses
  <2>4. PICK j \in 1..Len(p), i \in messages[r].tools : IsUseOf(p[j], i)
    BY DEF Misses
  <2>5. p[j] \in ElementsOf(p)
    BY DEF ElementsOf
  <2>6. PICK h \in Becoming(front) : p[j] = Message(front[h])
    BY <1>8, <2>5
  <2>7. h \in 1..n /\ front[h] = file[h] /\ h \in DOMAIN file
    <3>1. h \in DOMAIN front
      BY <2>6 DEF Becoming
    <3>2. h \in 1..n
      BY <1>2, <1>3, <3>1
    <3>3. DOMAIN file = 1..Len(file) /\ 1..n \subseteq 1..Len(file)
      BY <1>2
    <3>4. QED
      BY <1>3, <3>2, <3>3
  <2>8. file[h].kind = "use" /\ i \in file[h].tools
    BY <2>4, <2>6, <2>7 DEF IsUseOf, Message
  <2>9. lines[1] = file[n + 1] /\ n + 1 \in 1..Len(file) /\ h < n + 1 /\ h \in 1..Len(file)
    <3>1. h \in 1..n /\ n < Len(file)
      BY <1>2, <1>3, <1>12, <2>7
    <3>2. n + 1 \in 1..Len(file) /\ h < n + 1 /\ h \in 1..Len(file) /\ 1 \in 1..(Len(file) - n)
      BY <1>2, <3>1
    <3>3. QED
      BY <1>3, <3>2
  <2>10. file[h].at < lines[1].at
    <3>1. file[h].at + file[h].size <= file[n + 1].at
      BY <2>9 DEF FileOK, FileInv
    <3>2. file[h] \in Line /\ file[n + 1] \in Line
      BY <1>2, <2>9
    <3>3. file[h].at \in Nat /\ file[h].size \in Nat \ {0} /\ file[n + 1].at \in Nat
      BY <3>2 DEF Line
    <3>4. file[h].at < file[n + 1].at
      BY <3>1, <3>3, Below
    <3>5. QED
      BY <2>9, <3>4
  <2>11. HoldsOrphan(lines, Last(messages))
    BY <2>2, <2>3, <2>4, <2>7, <2>8, <2>10 DEF HoldsOrphan
  <2>12. QED
    BY <1>6, <1>10, <2>11
<1>15. PICK a \in Seq(Msg), b \in Seq(Msg), z \in Seq(Msg) :
         /\ Len(a) >= 1 /\ Len(b) >= 1 /\ Len(z) = l
         /\ Merged(all) = a \o z /\ messages = b \o z
  <2>1. l < Len(messages)
    BY <1>2, <1>11
  <2> HIDE DEF l
  <2>2. /\ l \in Nat /\ l < Len(Merged(t))
        /\ \A r \in 1..Len(Merged(t)) : r > Len(Merged(t)) - l => ~Misses(p, Merged(t)[r])
    BY <1>2, <1>14, <2>1, Zenon DEF messages
  <2>3. EndAlike(Merged(all), Merged(t), l)
    BY <1>9, <2>2, MergedOfEnd
  <2>4. QED
    BY <2>3, Zenon DEF messages, EndAlike
<1>16. Page(a \o z) = [messages |-> SubSeq(z, 1, Limit), more |-> TRUE, next |-> offset + Limit]
  BY <1>2, <1>15, PageOfEnd
<1>17. Page(b \o z) = [messages |-> SubSeq(z, 1, Limit), more |-> TRUE, next |-> offset + Limit]
  BY <1>2, <1>15, PageOfEnd
<1>18. Page(messages) = Page(Merged(all))
  BY <1>15, <1>16, <1>17, Zenon
<1>19. QED
  BY <1>7, <1>10, <1>18, Zenon

-----------------------------------------------------------------------------
(* The transcript grows.                                                   *)

\* Messages that were there stay where they are, and keep their ids.
Continues(before, after) ==
    /\ Len(before) <= Len(after)
    /\ \A k \in 1..Len(before) : after[k].id = before[k].id

\* What follows takes no message away from a merge, and renames none.
LEMMA MergedContinues ==
    ASSUME NEW all, NEW p, NEW t, Joined(all, p, t)
    PROVE  Continues(Merged(p), Merged(all))
<1> DEFINE mp == MergeAll(p)
           ma == MergeAll(all)
           n == Len(p)
           a1 == SubSeq(ma, 1, n)
           a2 == SubSeq(ma, n + 1, Len(ma))
           kp == Kept(mp)
           ka == Kept(ma)
           Like == {pair \in Msg \X Msg : pair[1].id = pair[2].id}
<1>1. /\ all \in Seq(Msg) /\ p \in Seq(Msg) /\ n \in Nat /\ Len(all) \in Nat /\ n <= Len(all)
  BY DEF Joined
<1>2. /\ Merged(p) = Selected(mp, kp) /\ mp \in Seq(Msg) /\ Len(mp) = n
      /\ \A k \in 1..n : mp[k] = MergeMessage(p, k)
  BY <1>1, MergedTyped
<1>3. /\ Merged(all) = Selected(ma, ka) /\ ma \in Seq(Msg) /\ Len(ma) = Len(all)
      /\ \A k \in 1..Len(all) : ma[k] = MergeMessage(all, k)
  BY <1>1, MergedTyped
<1>4. /\ a1 \in Seq(Msg) /\ Len(a1) = n /\ \A k \in 1..n : a1[k] = ma[k]
      /\ a2 \in Seq(Msg) /\ ma = a1 \o a2
  <2>1. n \in 0..Len(ma)
    BY <1>1, <1>3
  <2> HIDE DEF ma, n
  <2>2. Parts(Msg, ma, n, a1, a2)
    BY <1>3, <2>1, BeginningAndRest
  <2> HIDE DEF a1, a2
  <2>3. QED
    BY <2>2 DEF Parts
<1> HIDE DEF mp, ma, a1, a2, kp, ka
<1>5. ASSUME NEW k \in 1..n
      PROVE  /\ k \in kp <=> k \in ka
             /\ <<mp[k], a1[k]>> \in Like
  <2>1. /\ MergeMessage(all, k) \in Msg /\ MergeMessage(p, k) \in Msg
        /\ MergeMessage(all, k).id = MergeMessage(p, k).id
        /\ MergeMessage(all, k).kind = MergeMessage(p, k).kind
        /\ MergeMessage(all, k).tools = MergeMessage(p, k).tools
    BY MergeOfBeginning
  <2>2. k \in 1..Len(all) /\ mp[k] = MergeMessage(p, k) /\ a1[k] = MergeMessage(all, k) /\ ma[k] = a1[k]
    BY <1>1, <1>2, <1>3, <1>4
  <2>3. k \in DOMAIN mp /\ k \in DOMAIN ma
    BY <1>2, <1>3, <2>2
  <2>4. k \in kp <=> k \in ka
    BY <2>1, <2>2, <2>3 DEF kp, ka, Kept
  <2>5. QED
    BY <2>1, <2>2, <2>4
<1> HIDE DEF Like
<1> DEFINE s == Selected(a1, ka)
           later == Selected(a2, From(ka, n, Len(a2)))
<1>6. /\ Len(s) = Len(Merged(p))
      /\ \A r \in 1..Len(Merged(p)) : <<Merged(p)[r], s[r]>> \in Like
  <2>1. \A k \in 1..Len(mp) : k \in kp <=> k \in ka
    BY <1>2, <1>5
  <2>2. \A k \in 1..Len(mp) : k \in kp => <<mp[k], a1[k]>> \in Like
    BY <1>2, <1>5
  <2>3. Len(a1) = Len(mp) /\ mp \in Seq(Msg) /\ a1 \in Seq(Msg)
    BY <1>2, <1>4
  <2>4. /\ Len(Selected(a1, ka)) = Len(Selected(mp, kp))
        /\ \A r \in 1..Len(Selected(mp, kp)) : <<Selected(mp, kp)[r], Selected(a1, ka)[r]>> \in Like
    BY <2>1, <2>2, <2>3, SelectedAlike
  <2>5. QED
    BY <1>2, <2>4
<1>7. Merged(all) = s \o later
  <2>1. Selected(a1 \o a2, ka) = Selected(a1, ka) \o Selected(a2, From(ka, Len(a1), Len(a2)))
    BY <1>4, SelectedConcat
  <2>2. QED
    BY <1>3, <1>4, <2>1, Zenon
<1>8. s \in Seq(Msg) /\ later \in Seq(Msg)
  BY <1>4, SelectedTyped
<1> HIDE DEF s, later
<1>9. /\ Len(s \o later) = Len(s) + Len(later) /\ Len(s) \in Nat /\ Len(later) \in Nat
      /\ \A r \in 1..Len(s) : (s \o later)[r] = s[r]
  BY <1>8
<1>10. \A r \in 1..Len(Merged(p)) : s[r].id = Merged(p)[r].id
  BY <1>6 DEF Like
<1>11. QED
  BY <1>6, <1>7, <1>9, <1>10 DEF Continues

\* So do the messages of lines that follow, merged or not.
LEMMA MessagesContinue ==
    ASSUME NEW a \in Seq(Line), NEW b \in Seq(Line)
    PROVE  /\ Continues(Messages(a), Messages(a \o b))
           /\ Continues(Merged(Messages(a)), Merged(Messages(a \o b)))
<1> DEFINE p == Messages(a)
           t == Messages(b)
<1>1. Messages(a \o b) = p \o t
  BY MessagesConcat
<1>2. p \in Seq(Msg) /\ t \in Seq(Msg)
  BY MessagesTyped
<1> HIDE DEF p, t
<1>3. Joined(p \o t, p, t)
  BY <1>2, JoinedConcat
<1>4. Continues(Merged(p), Merged(p \o t))
  BY <1>3, MergedContinues
<1>5. Continues(p, p \o t)
  BY <1>2 DEF Continues
<1>6. QED
  BY <1>1, <1>4, <1>5 DEF p

\* The tools used are counted.
LEMMA UsedTyped == FileOK => Used \in Nat
<1> SUFFICES ASSUME FileOK PROVE Used \in Nat
  OBVIOUS
<1> DEFINE tools == UNION {file[n].tools : n \in {k \in DOMAIN file : file[k].kind = "use"}}
<1>1. DOMAIN file = 1..Len(file)
  BY DEF FileOK, TranscriptOK
<1>2. tools \subseteq 1..MaxTools
  BY <1>1 DEF FileOK, FileInv
<1>3. MaxTools \in Nat
  BY TranscriptAssumption
<1> HIDE DEF tools
<1>4. tools \in SUBSET Nat /\ \A i \in tools : i <= MaxTools
  BY <1>2, <1>3
<1>5. IsFiniteSet(tools)
  BY <1>3, <1>4, FS_BoundedSetOfNaturals
<1>6. Cardinality(tools) \in Nat
  BY <1>5, FS_CardinalityType
<1>7. QED
  BY <1>6 DEF Used, tools

\* What the agent adds is a line behind the others.
LEMMA WritesLine ==
    ASSUME FileOK, AgentWrites
    PROVE  \E line \in Line :
             /\ file' = Append(file, line) /\ line.at = Size
             /\ line.kind = "use" => line.tools \subseteq 1..MaxTools
<1> DEFINE ToolsOf(kind) == CASE kind = "use" -> {{i} : i \in 1..Least(Used + 1, MaxTools)}
                               [] kind = "result" -> {{Used}, {0, Used}}
                               [] OTHER -> {{}}
<1>0. PICK kind \in Kinds(format) : \E s \in Sizes[kind] : \E tools \in ToolsOf(kind) :
        file' = Append(file, [kind |-> kind, tools |-> tools, at |-> Size, size |-> s])
  BY DEF AgentWrites
<1>1. PICK s \in Sizes[kind], tools \in ToolsOf(kind) :
        file' = Append(file, [kind |-> kind, tools |-> tools, at |-> Size, size |-> s])
  BY <1>0
<1>2. kind \in LineKinds /\ kind \in DOMAIN Sizes
  BY SizesAssumption DEF LineKinds, FileOK, TranscriptOK
<1>3. s \in Nat \ {0}
  BY <1>2, TranscriptAssumption
<1>4. Used \in Nat /\ Size \in Nat /\ MaxTools \in Nat
  BY UsedTyped, SizeTyped, TranscriptAssumption
<1>5. Least(Used + 1, MaxTools) \in Nat /\ Least(Used + 1, MaxTools) <= MaxTools
  BY <1>4 DEF Least
<1>6. tools \in SUBSET Nat /\ (kind = "use" => tools \subseteq 1..MaxTools)
  <2>1. CASE kind = "use"
    <3>1. PICK i \in 1..Least(Used + 1, MaxTools) : tools = {i}
      BY <2>1
    <3>2. QED
      BY <1>4, <1>5, <3>1
  <2>2. CASE kind = "result"
    BY <1>4, <2>2
  <2>3. CASE kind # "use" /\ kind # "result"
    BY <2>3
  <2>4. QED
    BY <2>1, <2>2, <2>3
<1> DEFINE line == [kind |-> kind, tools |-> tools, at |-> Size, size |-> s]
<1>7. line \in Line /\ line.at = Size /\ line.kind = kind /\ line.tools = tools
  BY <1>2, <1>3, <1>4, <1>6 DEF Line
<1>8. QED
  BY <1>1, <1>6, <1>7

\* What the agent writes makes the file longer.
LEMMA WriteTyped ==
    ASSUME FileOK, AgentWrites
    PROVE  FileOK' /\ Size < Size'
<1> USE DEF FileOK
<1>1. PICK line \in Line : /\ file' = Append(file, line) /\ line.at = Size
                           /\ line.kind = "use" => line.tools \subseteq 1..MaxTools
  BY WritesLine
<1>2. /\ file \in Seq(Line) /\ Len(file) \in Nat /\ file' \in Seq(Line) /\ Len(file') = Len(file) + 1
      /\ \A k \in 1..Len(file) : file'[k] = file[k]
      /\ file'[Len(file) + 1] = line /\ file' # <<>>
  BY <1>1 DEF TranscriptOK
<1>3. TranscriptOK'
  BY <1>2 DEF AgentWrites, TranscriptOK, readVars, pageVars
<1>4. Size \in Nat /\ \A k \in 1..Len(file) : file[k].at + file[k].size <= Size
  BY SizeTyped
<1>5. ASSUME NEW j \in 1..Len(file'), NEW k \in 1..Len(file'), j < k
      PROVE  file'[j].at + file'[j].size <= file'[k].at
  <2>1. j \in 1..Len(file) /\ file'[j] = file[j]
    BY <1>2, <1>5
  <2>2. CASE k \in 1..Len(file)
    <3>1. file'[k] = file[k]
      BY <1>2, <2>2
    <3>2. file[j].at + file[j].size <= file[k].at
      BY <1>5, <2>1, <2>2 DEF FileInv
    <3>3. QED
      BY <2>1, <3>1, <3>2
  <2>3. CASE k = Len(file) + 1
    <3>1. file'[k].at = Size
      BY <1>1, <1>2, <2>3
    <3>2. file[j].at + file[j].size <= Size
      BY <1>4, <2>1
    <3>3. QED
      BY <2>1, <3>1, <3>2
  <2>4. QED
    BY <1>2, <2>2, <2>3
<1>6. ASSUME NEW k \in 1..Len(file'), file'[k].kind = "use" PROVE file'[k].tools \subseteq 1..MaxTools
  <2>1. CASE k \in 1..Len(file)
    <3>1. file'[k] = file[k]
      BY <1>2, <2>1
    <3>2. QED
      BY <1>6, <2>1, <3>1 DEF FileInv
  <2>2. CASE k = Len(file) + 1
    BY <1>1, <1>2, <1>6, <2>2
  <2>3. QED
    BY <1>2, <2>1, <2>2
<1>7. FileInv'
  BY <1>5, <1>6 DEF FileInv
<1>8. Size' = Size + line.size
  <2>1. Size' = file'[Len(file')].at + file'[Len(file')].size
    BY <1>2 DEF Size
  <2>2. QED
    BY <1>1, <1>2, <2>1
<1>9. line.size \in Nat \ {0}
  BY DEF Line
<1>10. QED
  BY <1>3, <1>4, <1>7, <1>8, <1>9

\* A sync leaves the file as it is.
LEMMA SyncTyped ==
    ASSUME FileOK, DatabaseSyncs
    PROVE  FileOK' /\ Size' = Size
<1>1. file' = file /\ synced' = Len(file) /\ Len(file) \in 0..Len(file)
  BY DEF DatabaseSyncs, FileOK, TranscriptOK
<1>2. QED
  BY <1>1 DEF DatabaseSyncs, FileOK, TranscriptOK, FileInv, Size, readVars, pageVars

\* To append is to put one behind.
LEMMA ConcatOne ==
    ASSUME NEW S, NEW s \in Seq(S), NEW x \in S
    PROVE  Append(s, x) = s \o <<x>> /\ <<x>> \in Seq(S)
<1> DEFINE a == Append(s, x)
           b == s \o <<x>>
<1>1. a \in Seq(S) /\ b \in Seq(S) /\ Len(a) = Len(b) /\ \A k \in 1..Len(a) : a[k] = b[k]
  OBVIOUS
<1> HIDE DEF a, b
<1>2. a = b
  BY <1>1, SameSequence
<1>3. QED
  BY <1>2 DEF a, b

\* Whatever happens to the transcript, its messages stay and keep their ids.
LEMMA AllContinues ==
    ASSUME FileOK, AgentWrites \/ DatabaseSyncs
    PROVE  Continues(AllMessages, AllMessages')
<1> USE DEF FileOK, TranscriptOK
<1>1. CASE AgentWrites
  <2>1. PICK line \in Line : file' = Append(file, line)
    BY <1>1, WritesLine
  <2>2. Append(file, line) = file \o <<line>> /\ <<line>> \in Seq(Line)
    BY ConcatOne
  <2>3. /\ Continues(Merged(Messages(file)), Merged(Messages(file')))
    BY <2>1, <2>2, MessagesContinue
  <2>4. synced' = synced /\ format' = format
    BY <1>1 DEF AgentWrites
  <2>5. SubSeq(file', 1, synced) = SubSeq(file, 1, synced)
    <3> DEFINE a == SubSeq(file', 1, synced)
               b == SubSeq(file, 1, synced)
    <3>1. file' \in Seq(Line) /\ synced \in 0..Len(file') /\ \A k \in 1..synced : file'[k] = file[k]
      BY <2>1
    <3>2. /\ a \in Seq(Line) /\ Len(a) = synced /\ \A k \in 1..synced : a[k] = file'[k]
          /\ b \in Seq(Line) /\ Len(b) = synced /\ \A k \in 1..synced : b[k] = file[k]
      BY <3>1, Beginnings
    <3> HIDE DEF a, b
    <3>3. a = b
      BY <3>1, <3>2, SameSequence
    <3>4. QED
      BY <3>3 DEF a, b
  <2>6. CASE format = "opencode"
    <3>1. AllMessages' = AllMessages
      BY <2>4, <2>5, <2>6 DEF AllMessages
    <3>2. Len(AllMessages) \in Nat
      BY AllMessagesTyped
    <3>3. QED
      BY <3>1, <3>2 DEF Continues
  <2>7. CASE format # "opencode"
    BY <2>3, <2>4, <2>7 DEF AllMessages
  <2>8. QED
    BY <2>6, <2>7
<1>2. CASE DatabaseSyncs
  <2>1. /\ format = "opencode" /\ format' = format /\ file' = file /\ synced' = Len(file)
    BY <1>2 DEF DatabaseSyncs
  <2>2. SubSeq(file, 1, Len(file)) = file
    BY Beginnings
  <2> DEFINE a == SubSeq(file, 1, synced)
             b == SubSeq(file, synced + 1, Len(file))
  <2>3. a \in Seq(Line) /\ b \in Seq(Line) /\ file = a \o b
    <3>1. Parts(Line, file, synced, a, b)
      BY BeginningAndRest
    <3> HIDE DEF a, b
    <3>2. QED
      BY <3>1 DEF Parts
  <2>4. AllMessages = Messages(a) /\ AllMessages' = Messages(file)
    BY <2>1, <2>2 DEF AllMessages
  <2> HIDE DEF a, b
  <2>5. Continues(Messages(a), Messages(a \o b))
    BY <2>3, MessagesContinue
  <2>6. QED
    BY <2>3, <2>4, <2>5, Zenon
<1>3. QED
  BY <1>1, <1>2

\* What was promised stays promised while the transcript grows.
LEMMA Promise ==
    ASSUME FileOK, NEW q, KeepsPromise(q), AgentWrites \/ DatabaseSyncs
    PROVE  KeepsPromise(q)'
<1>1. Continues(AllMessages, AllMessages') /\ AllMessages \in Seq(Msg)
  BY AllContinues, AllMessagesTyped
<1>2. offset' = offset /\ promised' = promised /\ shown' = shown /\ offset \in Nat
  BY DEF AgentWrites, DatabaseSyncs, pageVars, FileOK, TranscriptOK
<1>3. FileOK'
  BY WriteTyped, SyncTyped
<1>4. AllMessages' \in Seq(Msg)
  <2>1. (FileOK => AllMessages \in Seq(Msg))'
    BY AllMessagesTyped, PTL
  <2>2. QED
    BY <1>3, <2>1
<1>5. Len(AllMessages) \in Nat /\ Len(AllMessages') \in Nat /\ Len(AllMessages) <= Len(AllMessages')
  BY <1>1, <1>4 DEF Continues
<1>6. q \in 0..Len(AllMessages) /\ q \in 0..Len(AllMessages')
  BY <1>5 DEF KeepsPromise
<1>7. \A k \in 1..q : AllMessages'[k].id = AllMessages[k].id
  BY <1>1, <1>5, <1>6 DEF Continues
<1>8. promised' = {AllMessages'[k].id : k \in 1..q}
  BY <1>2, <1>7 DEF KeepsPromise
<1>9. ASSUME NEW k \in 1..q, k > Len(AllMessages') - offset PROVE AllMessages'[k].id \in shown
  <2>1. k > Len(AllMessages) - offset
    BY <1>2, <1>5, <1>6, <1>9
  <2>2. QED
    BY <1>7, <2>1 DEF KeepsPromise
<1>10. QED
  BY <1>2, <1>6, <1>8, <1>9 DEF KeepsPromise

-----------------------------------------------------------------------------
(* Answers.                                                                *)

\* A page holds the messages from where it begins to where the next one does,
\* or all that are left when there is no next one.
LEMMA PageShows ==
    ASSUME NEW all \in Seq(Msg), offset \in Nat, Limit \in Nat \ {0}
    PROVE  /\ Page(all).next \in Nat
           /\ \A k \in 1..Len(all) :
                k <= Len(all) - offset /\ (Page(all).more => k > Len(all) - Page(all).next)
                  => all[k].id \in Ids(Page(all).messages)
<1> DEFINE n == Len(all)
           end == n - offset
           first == IF Limit < end THEN end - Limit + 1 ELSE 1
           p == Page(all)
<1>1. n \in Nat
  OBVIOUS
<1>2. p = IF offset >= Len(all) THEN [messages |-> <<>>, more |-> FALSE, next |-> 0]
          ELSE [messages |-> SubSeq(all, first, end), more |-> first > 1,
                next |-> IF first > 1 THEN offset + (end - first + 1) ELSE 0]
  BY Zenon DEF Page
<1> HIDE DEF p
<1>3. CASE offset >= n
  <2>1. p = [messages |-> <<>>, more |-> FALSE, next |-> 0]
    BY <1>2, <1>3
  <2>2. p.more = FALSE /\ p.next = 0
    BY <2>1
  <2>3. \A k \in 1..n : ~(k <= n - offset)
    BY <1>1, <1>3
  <2>4. p.next \in Nat
    BY <2>2
  <2>5. \A k \in 1..n : k <= n - offset /\ (p.more => k > n - p.next) => all[k].id \in Ids(p.messages)
    BY <2>3
  <2>6. QED
    BY <2>4, <2>5 DEF p
<1>4. CASE ~(offset >= n)
  <2>1. p = [messages |-> SubSeq(all, first, end), more |-> first > 1,
             next |-> IF first > 1 THEN offset + (end - first + 1) ELSE 0]
    BY <1>2, <1>4
  <2>2. end \in 1..n /\ first \in 1..end
    BY <1>1, <1>4
  <2> HIDE DEF first
  <2>3. /\ p.messages = SubSeq(all, first, end) /\ p.more = (first > 1)
        /\ p.next = IF first > 1 THEN offset + (end - first + 1) ELSE 0
    BY <2>1
  <2> DEFINE e == end
             u == SubSeq(all, first, e)
  <2>4. e \in 1..n /\ first \in 1..e /\ e = n - offset
    BY <2>2
  <2>5. p.next \in Nat
    BY <1>1, <2>3, <2>4
  <2> HIDE DEF e
  <2>6. u \in Seq(Msg) /\ Len(u) = e - first + 1 /\ \A j \in 1..(e - first + 1) : u[j] = all[first + j - 1]
    BY <1>1, <2>4
  <2>7. ASSUME NEW k \in 1..n, k <= n - offset, p.more => k > n - p.next
        PROVE  all[k].id \in Ids(p.messages)
    <3>1. k >= first
      <4>1. CASE first > 1
        <5>1. p.next = offset + (e - first + 1) /\ k > n - p.next
          BY <2>3, <2>7, <4>1 DEF e
        <5>2. QED
          BY <1>1, <2>4, <5>1
      <4>2. CASE ~(first > 1)
        BY <2>4, <4>2
      <4>3. QED
        BY <4>1, <4>2
    <3> DEFINE j == k - first + 1
    <3>2. j \in 1..(e - first + 1) /\ first + j - 1 = k
      BY <1>1, <2>4, <2>7, <3>1
    <3> HIDE DEF j
    <3>3. u[j] = all[k] /\ j \in DOMAIN u
      <4> HIDE DEF u
      <4> QED BY <2>6, <3>2
    <3>4. p.messages = u
      BY <2>3 DEF e
    <3>5. QED
      BY <3>3, <3>4 DEF Ids
  <2>8. QED
    BY <2>5, <2>7 DEF p
<1>5. QED
  BY <1>3, <1>4

\* An answer that is the page of the whole transcript shows what was promised.
LEMMA AnswerShows ==
    ASSUME FileOK, FileOK', NEW messages, Answer(messages), Page(messages) = Page(AllMessages),
           AllMessages' = AllMessages,
           NEW q \in 0..Len(AllMessages), promised' = {AllMessages[k].id : k \in 1..q},
           \A k \in 1..q : k > Len(AllMessages) - offset => AllMessages[k].id \in shown
    PROVE  KeepsPromise(q)' /\ PageIsWhole' /\ NothingSkipped'
<1> DEFINE all == AllMessages
           n == Len(all)
           p == Page(messages)
<1>1. all \in Seq(Msg) /\ n \in Nat
  BY AllMessagesTyped
<1>2. offset \in Nat /\ Limit \in Nat \ {0}
  BY LimitTyped DEF FileOK, TranscriptOK
<1>3. /\ p.next \in Nat
      /\ \A k \in 1..n : k <= n - offset /\ (p.more => k > n - p.next) => all[k].id \in Ids(p.messages)
  BY <1>1, <1>2, PageShows
<1>4. /\ page' = p /\ whole' = Page(all) /\ shown' = shown \union Ids(p.messages)
      /\ offset' = (IF p.more THEN p.next ELSE offset)
      /\ phase' = (IF p.more THEN "idle" ELSE "done")
  BY Zenon DEF Answer
<1> HIDE DEF all, p
<1>5. PageIsWhole'
  BY <1>4 DEF PageIsWhole, p, all
<1>6. ASSUME NEW k \in 1..q, p.more => k > n - p.next
      PROVE  all[k].id \in shown'
  <2>1. k \in 1..n
    BY <1>1 DEF all
  <2>2. CASE k <= n - offset
    BY <1>3, <1>4, <1>6, <2>1, <2>2
  <2>3. CASE ~(k <= n - offset)
    <3>1. k > n - offset
      BY <1>1, <1>2, <2>1, <2>3
    <3>2. all[k].id \in shown
      BY <3>1 DEF all
    <3>3. QED
      BY <1>4, <3>2
  <2>4. QED
    BY <2>2, <2>3
<1>7. ASSUME NEW k \in 1..q, k > n - offset' PROVE all[k].id \in shown'
  <2>1. p.more => k > n - p.next
    BY <1>4, <1>7
  <2>2. QED
    BY <1>6, <2>1
<1>8. KeepsPromise(q)'
  BY <1>7 DEF KeepsPromise, all
<1>9. NothingSkipped'
  <2>1. SUFFICES ASSUME phase' = "done" PROVE promised' \subseteq shown'
    BY DEF NothingSkipped
  <2>2. ~p.more
    BY <1>4, <2>1
  <2>3. \A k \in 1..q : all[k].id \in shown'
    BY <1>6, <2>2
  <2>4. QED
    BY <2>3 DEF all
<1>10. QED
  BY <1>5, <1>8, <1>9

PagesInv == PromiseInv /\ PageIsWhole /\ NothingSkipped
TranscriptInv == FileOK /\ TailInv /\ PagesInv

\* Where the file stays, its messages and its size do.
LEMMA FileStays ==
    ASSUME FileOK, UNCHANGED fileVars
    PROVE  AllMessages' = AllMessages /\ Size' = Size /\ FileInv'
<1>1. file' = file /\ format' = format /\ synced' = synced
  BY DEF fileVars
<1>2. QED
  BY <1>1 DEF AllMessages, Size, FileOK, FileInv

\* The size of a file that is well formed.
LEMMA SizeNat == FileOK => Size \in Nat
  BY SizeTyped

\* What the pages keep while there is no answer.
LEMMA NoAnswer ==
    ASSUME PagesInv, FileOK, AllMessages' = AllMessages, UNCHANGED pageVars, phase' # "done"
    PROVE  PagesInv'
<1>1. /\ offset' = offset /\ page' = page /\ whole' = whole /\ shown' = shown
      /\ promised' = promised /\ cut' = cut /\ grown' = grown
  BY DEF pageVars
<1>2. PageIsWhole' /\ NothingSkipped'
  BY <1>1 DEF PagesInv, PageIsWhole, NothingSkipped
<1>3. ASSUME NEW q, KeepsPromise(q) PROVE KeepsPromise(q)'
  BY <1>1, <1>3 DEF KeepsPromise
<1>4. PromiseInv'
  BY <1>1, <1>3 DEF PagesInv, PromiseInv
<1>5. QED
  BY <1>2, <1>4 DEF PagesInv

\* The invariant holds of an empty transcript.
LEMMA TranscriptInit == PagingInit => TranscriptInv
<1> SUFFICES ASSUME PagingInit PROVE TranscriptInv
  OBVIOUS
<1>1. /\ file = <<>> /\ synced = 0 /\ offset = 0 /\ promised = {} /\ shown = {} /\ phase = "idle"
      /\ page = whole /\ format \in Formats /\ limit \in Limits
      /\ size = 0 /\ readBytes = 0 /\ start = 0
  BY DEF PagingInit
<1>2. file \in Seq(Line) /\ Len(file) = 0
  BY <1>1
<1>3. FileOK
  BY <1>1, <1>2 DEF FileOK, TranscriptOK, FileInv
<1>4. TailInv
  BY <1>1 DEF TailInv
<1>5. AllMessages \in Seq(Msg)
  BY <1>3, AllMessagesTyped
<1>6. 0 \in 0..Len(AllMessages)
  BY <1>5
<1>7. KeepsPromise(0)
  BY <1>1, <1>6 DEF KeepsPromise
<1>8. PagesInv
  BY <1>1, <1>7 DEF PagesInv, PromiseInv, PageIsWhole, NothingSkipped
<1>9. QED
  BY <1>3, <1>4, <1>8 DEF TranscriptInv

\* The transcript grows: a tail that was thought to be the whole file no longer is.
LEMMA GrowthKeeps ==
    ASSUME TranscriptInv, AgentWrites \/ DatabaseSyncs
    PROVE  TranscriptInv'
<1> USE DEF TranscriptInv
<1>1. FileOK' /\ Size \in Nat /\ Size <= Size'
  <2>1. CASE AgentWrites
    <3>1. Size \in Nat /\ Size < Size' /\ FileOK'
      BY <2>1, WriteTyped, SizeTyped
    <3>2. Size' \in Nat
      <4>1. (FileOK => Size \in Nat)'
        BY SizeNat, PTL
      <4>2. QED
        BY <3>1, <4>1
    <3>3. QED
      BY <3>1, <3>2
  <2>2. CASE DatabaseSyncs
    BY <2>2, SyncTyped, SizeTyped
  <2>3. QED
    BY <2>1, <2>2
<1>2. /\ phase' = phase /\ size' = size /\ readBytes' = readBytes /\ start' = start /\ format' = format
      /\ page' = page /\ whole' = whole /\ shown' = shown
      /\ promised' = promised /\ cut' = cut /\ grown' = grown
  BY DEF AgentWrites, DatabaseSyncs, readVars, pageVars
<1>3. TailInv'
  <2>1. ASSUME phase \in {"tail", "read"} PROVE format # "opencode" /\ file' # <<>> /\ size <= Size'
    <3>1. format # "opencode" /\ file # <<>> /\ size <= Size
      BY <2>1 DEF TailInv
    <3>2. AgentWrites
      BY <3>1 DEF DatabaseSyncs
    <3>3. PICK line \in Line : file' = Append(file, line)
      BY <3>2, WritesLine
    <3>4. file' # <<>>
      BY <3>3 DEF FileOK, TranscriptOK
    <3>5. size \in Nat /\ Size' \in Nat /\ Size < Size'
      <4>1. (FileOK => Size \in Nat)'
        BY SizeNat, PTL
      <4>2. QED
        BY <1>1, <3>2, <4>1, WriteTyped DEF FileOK, TranscriptOK
    <3>6. QED
      BY <1>1, <3>1, <3>4, <3>5
  <2>2. ASSUME phase = "read", size = Size', readBytes >= size PROVE start = 0
    <3>1. AgentWrites /\ size <= Size
      BY <2>2 DEF TailInv, DatabaseSyncs
    <3>2. Size < Size' /\ size \in Nat
      BY <3>1, WriteTyped DEF FileOK, TranscriptOK
    <3>3. QED
      BY <1>1, <2>2, <3>1, <3>2
  <2>3. QED
    BY <1>2, <2>1, <2>2 DEF TailInv
<1>4. PromiseInv'
  <2>1. ASSUME NEW q, KeepsPromise(q) PROVE KeepsPromise(q)'
    BY <2>1, Promise
  <2>2. QED
    BY <1>2, <2>1 DEF PagesInv, PromiseInv
<1>5. PageIsWhole' /\ NothingSkipped'
  BY <1>2 DEF PagesInv, PageIsWhole, NothingSkipped
<1>6. QED
  BY <1>1, <1>3, <1>4, <1>5 DEF PagesInv

\* An answer leaves the reader well formed, and done or idle.
LEMMA AnswerTyped ==
    ASSUME FileOK, UNCHANGED fileVars, limit' = limit, {size', readBytes', start'} \subseteq Nat,
           NEW messages \in Seq(Msg), Answer(messages)
    PROVE  FileOK' /\ phase' \in {"idle", "done"}
<1>1. FileInv'
  BY FileStays
<1>2. offset \in Nat /\ Limit \in Nat \ {0}
  BY LimitTyped DEF FileOK, TranscriptOK
<1>3. offset' \in Nat /\ phase' \in {"idle", "done"}
  <2>1. Page(messages).next \in Nat
    BY <1>2, PageShows
  <2>2. /\ offset' = (IF Page(messages).more THEN Page(messages).next ELSE offset)
        /\ phase' = (IF Page(messages).more THEN "idle" ELSE "done")
    BY Zenon DEF Answer
  <2>3. QED
    BY <1>2, <2>1, <2>2
<1>4. FileOK'
  BY <1>1, <1>3 DEF FileOK, TranscriptOK, fileVars
<1>5. QED
  BY <1>3, <1>4

\* An answer that is the page of the whole transcript, to the first request or to
\* a later one.
LEMMA WholeAnswer ==
    ASSUME FileOK, PromiseInv, UNCHANGED fileVars, limit' = limit, cut => cut', grown => grown',
           {size', readBytes', start'} \subseteq Nat,
           NEW messages \in Seq(Msg), Answer(messages), Page(messages) = Page(AllMessages),
           promised' = promised \/ (promised' = Ids(AllMessages) /\ offset = 0)
    PROVE  PagesInv'
<1>1. AllMessages' = AllMessages /\ AllMessages \in Seq(Msg) /\ FileOK'
  BY FileStays, AllMessagesTyped, AnswerTyped
<1>2. CASE cut' \/ grown'
  BY <1>2 DEF PagesInv, PromiseInv, PageIsWhole, NothingSkipped
<1>3. CASE ~cut' /\ ~grown'
  <2>1. \E q \in 0..Len(AllMessages) :
          /\ promised' = {AllMessages[k].id : k \in 1..q}
          /\ \A k \in 1..q : k > Len(AllMessages) - offset => AllMessages[k].id \in shown
    <3>1. CASE promised' = promised
      BY <1>3, <3>1 DEF PromiseInv, KeepsPromise
    <3>2. CASE promised' = Ids(AllMessages) /\ offset = 0
      <4> DEFINE q == Len(AllMessages)
      <4>1. q \in Nat /\ q \in 0..q /\ DOMAIN AllMessages = 1..q
        BY <1>1
      <4>2. promised' = {AllMessages[k].id : k \in 1..q}
        BY <3>2, <4>1 DEF Ids
      <4>3. \A k \in 1..q : ~(k > Len(AllMessages) - offset)
        BY <3>2, <4>1
      <4>4. QED
        BY <4>1, <4>2, <4>3
    <3>3. QED
      BY <3>1, <3>2
  <2>2. PICK q \in 0..Len(AllMessages) :
          /\ promised' = {AllMessages[k].id : k \in 1..q}
          /\ \A k \in 1..q : k > Len(AllMessages) - offset => AllMessages[k].id \in shown
    BY <2>1
  <2>3. KeepsPromise(q)' /\ PageIsWhole' /\ NothingSkipped'
    BY <1>1, <2>2, AnswerShows
  <2>4. QED
    BY <2>3 DEF PagesInv, PromiseInv
<1>4. QED
  BY <1>2, <1>3

\* OpenCode: the page is of the whole transcript.
LEMMA DatabasePageKeeps ==
    ASSUME TranscriptInv, PageOfDatabase
    PROVE  TranscriptInv'
<1>1. /\ Answer(AllMessages) /\ UNCHANGED fileVars /\ limit' = limit /\ cut' = cut /\ grown' = grown
      /\ size' = size /\ readBytes' = readBytes /\ start' = start
      /\ promised' = IF offset = 0 THEN Ids(AllMessages) ELSE promised
  BY DEF PageOfDatabase, readVars
<1>6. promised' = promised \/ (promised' = Ids(AllMessages) /\ offset = 0)
  BY <1>1
<1>2. FileOK /\ PromiseInv /\ AllMessages \in Seq(Msg) /\ {size', readBytes', start'} \subseteq Nat
  BY <1>1, AllMessagesTyped DEF TranscriptInv, PagesInv, FileOK, TranscriptOK
<1>3. FileOK' /\ phase' \in {"idle", "done"}
  BY <1>1, <1>2, AnswerTyped
<1>4. PagesInv'
  BY <1>1, <1>2, <1>6, WholeAnswer
<1>5. TailInv'
  BY <1>3 DEF TailInv
<1>7. QED
  BY <1>3, <1>4, <1>5 DEF TranscriptInv

\* The first request is promised what there is.
LEMMA AskKeeps ==
    ASSUME TranscriptInv, AskPage
    PROVE  TranscriptInv'
<1>1. /\ UNCHANGED fileVars /\ limit' = limit /\ cut' = cut /\ grown' = grown
      /\ format # "opencode" /\ start' = start /\ size' = Size /\ readBytes' = Least(InitialTail, Size)
      /\ promised' = IF offset = 0 THEN Ids(AllMessages) ELSE promised
  BY DEF AskPage
<1>2. FileOK /\ PromiseInv /\ PagesInv /\ AllMessages \in Seq(Msg) /\ Size \in Nat
  BY AllMessagesTyped, SizeNat DEF TranscriptInv, PagesInv
<1>3. {size', readBytes', start'} \subseteq Nat
  BY <1>1, <1>2, TranscriptAssumption DEF Least, FileOK, TranscriptOK
<1>4. AllMessages' = AllMessages /\ Size' = Size /\ FileInv'
  BY <1>1, <1>2, FileStays
<1>5. CASE file = <<>>
  <2>1. Answer(<<>>)
    BY <1>5 DEF AskPage
  <2>2. AllMessages = <<>>
    BY <1>1, <1>5, NothingOfNothing DEF AllMessages
  <2>3. FileOK' /\ phase' \in {"idle", "done"}
    BY <1>1, <1>2, <1>3, <2>1, <2>2, AnswerTyped
  <2>7. promised' = promised \/ (promised' = Ids(AllMessages) /\ offset = 0)
    BY <1>1
  <2>4. PagesInv'
    BY <1>1, <1>2, <1>3, <2>1, <2>2, <2>7, WholeAnswer
  <2>5. TailInv'
    BY <2>3 DEF TailInv
  <2>8. QED
    BY <2>3, <2>4, <2>5 DEF TranscriptInv
<1>6. CASE file # <<>>
  <2>1. phase' = "tail" /\ offset' = offset /\ page' = page /\ whole' = whole /\ shown' = shown
    BY <1>6 DEF AskPage
  <2>2. FileOK'
    BY <1>1, <1>2, <1>3, <1>4, <2>1 DEF FileOK, TranscriptOK, fileVars
  <2>3. TailInv'
    BY <1>1, <1>2, <1>4, <1>6, <2>1 DEF TailInv, fileVars
  <2>4. PageIsWhole' /\ NothingSkipped'
    BY <1>1, <1>2, <2>1 DEF PagesInv, PageIsWhole, NothingSkipped
  <2>5. ASSUME NEW q, KeepsPromise(q), offset # 0 PROVE KeepsPromise(q)'
    BY <1>1, <1>4, <2>1, <2>5 DEF KeepsPromise
  <2>6. ASSUME offset = 0 PROVE KeepsPromise(Len(AllMessages))'
    <3>1. Len(AllMessages) \in Nat /\ DOMAIN AllMessages = 1..Len(AllMessages)
      BY <1>2
    <3>2. promised' = {AllMessages[k].id : k \in 1..Len(AllMessages)}
      BY <1>1, <2>6, <3>1 DEF Ids
    <3>3. \A k \in 1..Len(AllMessages) : ~(k > Len(AllMessages) - offset')
      BY <2>1, <2>6, <3>1
    <3>4. Len(AllMessages) \in 0..Len(AllMessages)
      BY <3>1
    <3>5. QED
      BY <1>4, <3>2, <3>3, <3>4 DEF KeepsPromise
  <2>7. PromiseInv'
    BY <1>1, <1>2, <2>5, <2>6 DEF PromiseInv
  <2>8. QED
    BY <2>2, <2>3, <2>4, <2>7 DEF TranscriptInv, PagesInv
<1>7. QED
  BY <1>5, <1>6

\* A tail that is thought to be the whole file begins with it.
LEMMA OpenKeeps ==
    ASSUME TranscriptInv, OpenTail
    PROVE  TranscriptInv'
<1>1. /\ phase = "tail" /\ phase' = "read" /\ UNCHANGED fileVars /\ UNCHANGED pageVars
      /\ size' = size /\ readBytes' = readBytes
      /\ start' = IF Size > readBytes THEN Size - readBytes ELSE 0
  BY DEF OpenTail
<1>2. FileOK /\ TailInv /\ PagesInv /\ Size \in Nat /\ {size, readBytes} \subseteq Nat
  BY SizeNat DEF TranscriptInv, FileOK, TranscriptOK
<1>3. AllMessages' = AllMessages /\ Size' = Size /\ FileInv'
  BY <1>1, <1>2, FileStays
<1>4. start' \in Nat
  BY <1>1, <1>2
<1>5. limit' = limit /\ offset' = offset /\ file' = file /\ format' = format /\ synced' = synced
  BY <1>1 DEF pageVars, fileVars
<1>6. FileOK'
  BY <1>1, <1>2, <1>3, <1>4, <1>5 DEF FileOK, TranscriptOK
<1>7. TailInv'
  <2>1. format # "opencode" /\ file # <<>> /\ size <= Size
    BY <1>1, <1>2 DEF TailInv
  <2>2. size = Size /\ readBytes >= size => start' = 0
    BY <1>1, <1>2
  <2>3. QED
    BY <1>1, <1>3, <1>5, <2>1, <2>2 DEF TailInv
<1>8. PagesInv'
  BY <1>1, <1>2, <1>3, NoAnswer
<1>9. QED
  BY <1>6, <1>7, <1>8 DEF TranscriptInv

\* A tail that suffices has the page of the whole transcript, unless the page is
\* cut or the file has grown.
LEMMA ReadKeeps ==
    ASSUME TranscriptInv, ReadTail
    PROVE  TranscriptInv'
<1> DEFINE messages == Merged(Messages(LinesInTail))
<1>1. /\ UNCHANGED fileVars /\ size' = size /\ start' = start /\ limit' = limit /\ promised' = promised
      /\ phase = "read"
      /\ IF Len(messages) >= Need \/ readBytes >= size
         THEN /\ Answer(messages)
              /\ cut' = (cut \/ HoldsOrphan(LinesInTail, Last(messages)))
              /\ grown' = (grown \/ Size > size)
              /\ UNCHANGED readBytes
         ELSE /\ readBytes' = Least(2 * readBytes, size) /\ phase' = "tail"
              /\ UNCHANGED <<offset, page, whole, shown, cut, grown>>
  BY Zenon DEF ReadTail, Last
<1>2. /\ FileOK /\ TailInv /\ PagesInv /\ PromiseInv /\ Size \in Nat
      /\ {size, readBytes, start} \subseteq Nat
  BY SizeNat DEF TranscriptInv, FileOK, TranscriptOK, PagesInv
<1>3. AllMessages' = AllMessages /\ Size' = Size /\ FileInv'
  BY <1>1, <1>2, FileStays
<1>4. format # "opencode" /\ file # <<>> /\ size <= Size
  BY <1>1, <1>2 DEF TailInv
<1>5. PICK n \in 0..Len(file) : LinesInTail = SubSeq(file, n + 1, Len(file))
  BY <1>2, <1>4, TailOfFile
<1>6. LinesInTail \in Seq(Line)
  <2>1. file \in Seq(Line) /\ n \in 0..Len(file)
    BY <1>2 DEF FileOK, TranscriptOK
  <2>2. Parts(Line, file, n, SubSeq(file, 1, n), SubSeq(file, n + 1, Len(file)))
    BY <2>1, BeginningAndRest
  <2>3. QED
    BY <1>5, <2>2 DEF Parts
<1>7. messages \in Seq(Msg)
  BY <1>6, MessagesTyped, MergedTyped
<1>8. CASE Len(messages) >= Need \/ readBytes >= size
  <2>1. /\ Answer(messages) /\ readBytes' = readBytes
        /\ cut' = (cut \/ HoldsOrphan(LinesInTail, Last(messages)))
        /\ grown' = (grown \/ Size > size)
    BY <1>1, <1>8, Zenon
  <2>2. (cut => cut') /\ (grown => grown') /\ {size', readBytes', start'} \subseteq Nat
    BY <1>1, <1>2, <2>1
  <2>3. ASSUME ~cut', ~grown' PROVE Page(messages) = Page(AllMessages)
    <3>1. ~HoldsOrphan(LinesInTail, Last(messages)) /\ ~(Size > size)
      BY <2>1, <2>3
    <3>2. size = Size
      BY <1>2, <1>4, <3>1
    <3>3. CASE Len(messages) >= Need
      BY <1>2, <1>4, <3>1, <3>3, TailPage
    <3>4. CASE readBytes >= size
      <4>1. start = 0
        BY <1>1, <1>2, <3>2, <3>4 DEF TailInv
      <4>2. LinesInTail = file
        BY <1>4, <4>1, Zenon DEF LinesInTail
      <4>3. AllMessages = messages
        BY <1>4, <4>2 DEF AllMessages
      <4>4. QED
        BY <4>3
    <3>5. QED
      BY <1>8, <3>3, <3>4
  <2> HIDE DEF messages
  <2>4. FileOK' /\ phase' \in {"idle", "done"}
    BY <1>1, <1>2, <1>7, <2>1, <2>2, AnswerTyped
  <2>5. TailInv'
    BY <2>4 DEF TailInv
  <2>6. PagesInv'
    <3>1. CASE cut' \/ grown'
      BY <3>1 DEF PagesInv, PromiseInv, PageIsWhole, NothingSkipped
    <3>2. CASE ~cut' /\ ~grown'
      <4>1. UNCHANGED fileVars /\ limit' = limit /\ promised' = promised
        BY <1>1
      <4>2. Page(messages) = Page(AllMessages)
        BY <2>3, <3>2
      <4>3. QED
        BY <1>2, <1>7, <2>1, <2>2, <4>1, <4>2, WholeAnswer
    <3>3. QED
      BY <3>1, <3>2
  <2>7. QED
    BY <2>4, <2>5, <2>6 DEF TranscriptInv
<1>9. CASE ~(Len(messages) >= Need \/ readBytes >= size)
  <2>1. /\ readBytes' = Least(2 * readBytes, size) /\ phase' = "tail"
        /\ UNCHANGED <<offset, page, whole, shown, cut, grown>>
    BY <1>1, <1>9, Zenon
  <2>2. readBytes' \in Nat
    BY <1>2, <2>1 DEF Least
  <2>3. FileOK'
    BY <1>1, <1>2, <1>3, <2>1, <2>2 DEF FileOK, TranscriptOK, fileVars
  <2>4. TailInv'
    BY <1>1, <1>3, <1>4, <2>1 DEF TailInv, fileVars
  <2>5. UNCHANGED pageVars
    BY <1>1, <2>1 DEF pageVars
  <2>6. PagesInv'
    BY <1>2, <1>3, <2>1, <2>5, NoAnswer
  <2>7. QED
    BY <2>3, <2>4, <2>6 DEF TranscriptInv
<1>10. QED
  BY <1>8, <1>9

\* The invariant is about the variables of the specification.
LEMMA TranscriptStays ==
    ASSUME TranscriptInv, UNCHANGED pagingVars
    PROVE  TranscriptInv'
<1>1. /\ UNCHANGED fileVars /\ UNCHANGED pageVars /\ phase' = phase
      /\ size' = size /\ readBytes' = readBytes /\ start' = start
  BY DEF pagingVars, readVars
<1>2. FileOK /\ TailInv /\ PagesInv
  BY DEF TranscriptInv
<1>3. AllMessages' = AllMessages /\ Size' = Size /\ FileInv'
  BY <1>1, <1>2, FileStays
<1>4. /\ limit' = limit /\ offset' = offset /\ page' = page /\ whole' = whole /\ shown' = shown
      /\ promised' = promised /\ cut' = cut /\ grown' = grown
  BY <1>1 DEF pageVars
<1>5. FileOK' /\ TailInv'
  BY <1>1, <1>2, <1>3, <1>4 DEF FileOK, TranscriptOK, TailInv, fileVars
<1>6. ASSUME NEW q, KeepsPromise(q) PROVE KeepsPromise(q)'
  BY <1>3, <1>4, <1>6 DEF KeepsPromise
<1>7. PagesInv'
  BY <1>1, <1>2, <1>4, <1>6 DEF PagesInv, PromiseInv, PageIsWhole, NothingSkipped
<1>8. QED
  BY <1>5, <1>7 DEF TranscriptInv

\* Every step keeps the invariant.
LEMMA TranscriptStep == TranscriptInv /\ [PagingNext]_pagingVars => TranscriptInv'
<1> SUFFICES ASSUME TranscriptInv, [PagingNext]_pagingVars PROVE TranscriptInv'
  OBVIOUS
<1>1. CASE AgentWrites
  BY <1>1, GrowthKeeps
<1>2. CASE DatabaseSyncs
  BY <1>2, GrowthKeeps
<1>3. CASE PageOfDatabase
  BY <1>3, DatabasePageKeeps
<1>4. CASE AskPage
  BY <1>4, AskKeeps
<1>5. CASE OpenTail
  BY <1>5, OpenKeeps
<1>6. CASE ReadTail
  BY <1>6, ReadKeeps
<1>7. CASE UNCHANGED pagingVars
  BY <1>7, TranscriptStays
<1>8. QED
  BY <1>1, <1>2, <1>3, <1>4, <1>5, <1>6, <1>7 DEF PagingNext, ServerStep

\* The invariant of the pages.
LEMMA TranscriptAlways == PagingSpec => []TranscriptInv
<1>1. PagingInit => TranscriptInv
  BY TranscriptInit
<1>2. TranscriptInv /\ [PagingNext]_pagingVars => TranscriptInv'
  BY TranscriptStep
<1>3. QED
  BY <1>1, <1>2, PTL DEF PagingSpec

\* A page that is read from a file's tail, wherever that begins, is the page of
\* the whole transcript, with the same mark for the next one: for every format,
\* size of lines, limit, initial tail and length of the transcript.  The two
\* exceptions are the history variables': a page with a result whose use lies
\* before the tail, and a file that grew while its tail was being read.
THEOREM PageIsAlwaysWhole == PagingSpec => []PageIsWhole
<1>1. TranscriptInv => PageIsWhole
  BY DEF TranscriptInv, PagesInv
<1>2. QED
  BY <1>1, TranscriptAlways, PTL

\* A client that follows next_offset to the end, while the agent goes on writing,
\* has been given every message there was at its first request, although the
\* offsets count from an end that moves: with the same two exceptions.
THEOREM NothingEverSkipped == PagingSpec => []NothingSkipped
<1>1. TranscriptInv => NothingSkipped
  BY DEF TranscriptInv, PagesInv
<1>2. QED
  BY <1>1, TranscriptAlways, PTL
=============================================================================
