------------------------------ MODULE WsServe ------------------------------
(***************************************************************************)
(* One WebSocket connection as a subscriber of the session's hub:          *)
(* httpapi/router.go handleSessionEvents and internal/ws (server.go,       *)
(* conn.go), composed with EventHub and with those who store the states of *)
(* the session and publish them, the pump and the clients' commands.       *)
(*                                                                         *)
(* The handler reads the session from the store, upgrades the connection,  *)
(* subscribes, sends what it read, the replay and a mark, and starts a     *)
(* reader; then it forwards the subscription until its channel is closed,  *)
(* an error is reported or the context is cancelled.  A state is a version *)
(* number; the other connections are any other subscribers of the hub.     *)
(***************************************************************************)
EXTENDS EventHub

CONSTANTS
    Self,           \* the connection's subscription
    MaxVersions     \* bound: states of the session

ASSUME SelfAssumption == Self \in Subscribers /\ MaxVersions \in Nat

VARIABLES
    store,      \* the version of the session's row, 0 while there is none
    versions,   \* states the session has had
    holding,    \* the last snapshot each publisher took
    carried,    \* history: the version each event of the log carries
    last,       \* history: the last event that carries one
    crossed,    \* history: two publishers were sending to Self at once
    main,       \* the handler: "lookup", "upgrade", "send", "loop", "leave" or "done"
    found,      \* the version the handler read from the store
    looked,     \* history: Len(log) when it did
    toSend,     \* what it sends before its loop
    view,       \* the last version the client was sent
    client,     \* "there" or "gone"
    conn,       \* the server has not closed the connection
    reader,     \* "off", "read", "handle", "report" or "done"
    errors,     \* writeErr: 0 or 1
    cancelled   \* the handler's context

stateVars == <<store, versions, holding, carried, last, crossed>>
mainVars  == <<main, found, looked, toSend, view, conn>>
connVars  == <<mainVars, client, reader, errors, cancelled>>
serveVars == <<vars, stateVars, connVars>>

Stateless == 0  \* what an event carries that is about no state

ServeInit ==
    /\ Init
    /\ store = 0 /\ versions = 0 /\ holding = [p \in Publishers |-> Stateless]
    /\ carried = <<>> /\ last = 0 /\ crossed = FALSE
    /\ main = "lookup" /\ found = 0 /\ looked = 0 /\ toSend = <<>> /\ view = 0
    /\ client = "there" /\ conn = TRUE
    /\ reader = "off" /\ errors = 0 /\ cancelled = FALSE

-----------------------------------------------------------------------------
(* The pump and the commands.                                              *)

\* p takes a snapshot of the session after a change.
TakeSnapshot(p) ==
    /\ ~crashed /\ todo[p] = {} /\ versions < MaxVersions
    /\ versions' = versions + 1
    /\ holding' = [holding EXCEPT ![p] = versions']
    /\ UNCHANGED <<vars, store, carried, last, crossed, connVars>>

\* p writes its snapshot, which may be older than the row; or it does not, when
\* the write is suppressed or fails, which p does not notice.
StoreSnapshot(p) ==
    /\ ~crashed /\ todo[p] = {} /\ holding[p] \notin {Stateless, store}
    /\ store' = holding[p]
    /\ UNCHANGED <<vars, versions, holding, carried, last, crossed, connVars>>

\* p publishes its snapshot, once more or not at all, or what carries no state:
\* messages, raw output, a request for input.
Publish(p) ==
    /\ PublishLocked(p)
    /\ \E v \in {Stateless, holding[p]} :
          /\ carried' = Append(carried, v)
          /\ last' = IF v = Stateless THEN last ELSE Len(carried')
    /\ crossed' = (crossed \/ \E q \in Publishers : Self \in todo[q])
    /\ UNCHANGED <<store, versions, holding, connVars>>

\* What the hub does besides for its publishers, the other connections and
\* whoever closes the feed.
OthersStep ==
    /\ \/ \E p \in Publishers, s \in Subscribers : PublishSend(p, s)
       \/ \E s \in Subscribers \ {Self} :
             Subscribe(s) \/ SubscribeClosed(s) \/ Receive(s) \/ Unsubscribe(s)
       \/ CloseFeed
       \/ \E s \in Subscribers : CloseChannel(s)
    /\ UNCHANGED <<stateVars, connVars>>

-----------------------------------------------------------------------------
(* The handler.                                                            *)

\* handleSessionEvents: the snapshot that is sent first is read here.
Lookup ==
    /\ ~crashed /\ main = "lookup" /\ store # 0
    /\ found' = store /\ looked' = Len(log) /\ main' = "upgrade"
    /\ UNCHANGED <<vars, stateVars, toSend, view, conn, client, reader, errors, cancelled>>

NotFound ==
    /\ ~crashed /\ main = "lookup" /\ store = 0
    /\ main' = "done" /\ conn' = FALSE
    /\ UNCHANGED <<vars, stateVars, found, looked, toSend, view, client, reader, errors, cancelled>>

UpgradeFails ==
    /\ ~crashed /\ main = "upgrade"
    /\ main' = "done" /\ conn' = FALSE
    /\ UNCHANGED <<vars, stateVars, found, looked, toSend, view, client, reader, errors, cancelled>>

Versions(events) == [i \in 1..Len(events) |-> carried[events[i]]]

\* Mutant: what was read from the store is sent after the replay.
ConnectSnapshotLast ==
    /\ main = "upgrade"
    /\ Subscribe(Self) \/ SubscribeClosed(Self)
    /\ toSend' = Versions(backlog'[Self]) \o <<found, Stateless>>
    /\ main' = "send"
    /\ UNCHANGED <<stateVars, found, looked, view, conn, client, reader, errors, cancelled>>

\* Upgrade and Subscribe.  The mark after the replay carries no state.
Connect ==
    /\ main = "upgrade"
    /\ Subscribe(Self) \/ SubscribeClosed(Self)
    /\ toSend' = <<found>> \o Versions(backlog'[Self]) \o <<Stateless>>
    /\ main' = "send"
    /\ UNCHANGED <<stateVars, found, looked, view, conn, client, reader, errors, cancelled>>

\* send: a failed write is reported unless an error is waiting already.
Write(v) ==
    IF client = "there"
    THEN view' = (IF v = Stateless THEN view ELSE v) /\ UNCHANGED errors
    ELSE errors' = 1 /\ UNCHANGED view

SendFirst ==
    /\ ~crashed /\ main = "send" /\ toSend # <<>>
    /\ Write(Head(toSend))
    /\ toSend' = Tail(toSend)
    /\ UNCHANGED <<vars, stateVars, main, found, looked, conn, client, reader, cancelled>>

StartReader ==
    /\ ~crashed /\ main = "send" /\ toSend = <<>>
    /\ main' = "loop" /\ reader' = "read"
    /\ UNCHANGED <<vars, stateVars, found, looked, toSend, view, conn, client, errors, cancelled>>

Forward ==
    /\ main = "loop"
    /\ Receive(Self)
    /\ Write(carried[Head(chan[Self])])
    /\ UNCHANGED <<stateVars, main, found, looked, toSend, conn, client, reader, cancelled>>

\* The loop returns, and the first of its deferred calls cancels the context.
Leave ==
    /\ ~crashed /\ main = "loop"
    /\ (chan[Self] = <<>> /\ status[Self] = "closed") \/ errors = 1 \/ cancelled
    /\ main' = "leave" /\ cancelled' = TRUE /\ errors' \in {0, errors}
    /\ UNCHANGED <<vars, stateVars, found, looked, toSend, view, conn, client, reader>>

\* The others close the subscription and the connection.
Quit ==
    /\ ~crashed /\ main = "leave" /\ main' = "done" /\ conn' = FALSE
    /\ IF Self \in subs THEN Unsubscribe(Self) ELSE UNCHANGED vars
    /\ UNCHANGED <<stateVars, found, looked, toSend, view, client, reader, errors, cancelled>>

-----------------------------------------------------------------------------
(* The reader.                                                             *)

\* ReadMessage returns a command, or an error for an opcode it does not know.
\* Other frames are skipped or answered, and what does not decode is skipped.
ReadFrame ==
    /\ ~crashed /\ reader = "read" /\ conn /\ client = "there"
    /\ reader' \in {"handle", "report"}
    /\ UNCHANGED <<vars, stateVars, mainVars, client, errors, cancelled>>

\* The connection is closed: EOF cancels the handler, another error is
\* reported before.
ReadEnds ==
    /\ ~crashed /\ reader = "read" /\ (~conn \/ client = "gone")
    /\ \/ reader' = "done" /\ cancelled' = TRUE
       \/ reader' = "report" /\ UNCHANGED cancelled
    /\ UNCHANGED <<vars, stateVars, mainVars, client, errors>>

\* The command's handler returns; what it publishes is some publisher's step.
\* It may never: a write to the agent waits until the agent reads its input.
HandleCommand ==
    /\ ~crashed /\ reader = "handle"
    /\ reader' \in {"read", "report"}
    /\ UNCHANGED <<vars, stateVars, mainVars, client, errors, cancelled>>

\* Mutant: the reader waits until its error is taken.
ReportBlocks ==
    /\ ~crashed /\ reader = "report" /\ errors = 0
    /\ errors' = 1 /\ cancelled' = TRUE /\ reader' = "done"
    /\ UNCHANGED <<vars, stateVars, mainVars, client>>

\* The error is dropped when one is waiting; the deferred cancel follows.
Report ==
    /\ ~crashed /\ reader = "report"
    /\ errors' = 1 /\ cancelled' = TRUE /\ reader' = "done"
    /\ UNCHANGED <<vars, stateVars, mainVars, client>>

\* A close frame, or a connection that is lost.
ClientLeaves ==
    /\ ~crashed /\ client = "there" /\ client' = "gone"
    /\ UNCHANGED <<vars, stateVars, mainVars, reader, errors, cancelled>>

-----------------------------------------------------------------------------
MainStep == Lookup \/ NotFound \/ Connect \/ SendFirst \/ StartReader \/ Forward \/ Leave \/ Quit
ReaderStep == ReadEnds \/ Report

ServeNext ==
    \/ \E p \in Publishers : TakeSnapshot(p) \/ StoreSnapshot(p) \/ Publish(p)
    \/ OthersStep \/ UpgradeFails \/ ReadFrame \/ ClientLeaves
    \/ MainStep \/ ReaderStep \/ HandleCommand

ServeSpec == ServeInit /\ [][ServeNext]_serveVars

\* The handler, its reader and whoever closes the feed run.  A command's handler
\* need not return.  Writes to the client do not block for ever, which the code
\* leaves to the network: it sets no deadline.
ServeFairness ==
    /\ WF_serveVars(MainStep) /\ WF_serveVars(ReaderStep)
    /\ WF_serveVars(CloseChannel(Self) /\ UNCHANGED <<stateVars, connVars>>)

FairServeSpec == ServeSpec /\ ServeFairness

-----------------------------------------------------------------------------
(* Properties.                                                             *)

\* The client has been written all there is for it, and none of this was lost
\* or out of order: nothing is in its channel or on the way there, the latest
\* state did not find the channel full, no two publishers overlapped, and not
\* more was published between the lookup and the subscription than is replayed.
Settled ==
    /\ main = "loop" /\ client = "there"
    /\ Self \in subs /\ chan[Self] = <<>> /\ \A p \in Publishers : Self \notin todo[p]
    /\ ~crossed /\ last \notin dropped[Self] /\ joined[Self] <= looked + Buffer

\* Although the snapshot is read before the subscription, and the replay may be
\* older or newer than it, such a client has last been shown the latest state
\* published; or the one it was given first, and none was published since.
ViewCatchesUp ==
    Settled => \/ last # 0 /\ view = carried[last]
               \/ last <= looked /\ view = found

\* When the feed is closed, the handler and its subscription come to an end even
\* if a command is never answered.  When the client has gone or the feed is
\* closed, and every command is answered, so does the reader: neither waits for
\* the other, although both report to a channel that holds one error.  Unless a
\* publisher panics.
ConnectionEnds ==
    LET HasLeft == main = "done" /\ Self \notin subs
        NoReader == reader \in {"off", "done"}
    IN  /\ closed ~> (HasLeft \/ crashed)
        /\ []<>(reader # "handle") =>
              ((client = "gone" \/ closed) ~> ((HasLeft /\ NoReader) \/ crashed))
=============================================================================
