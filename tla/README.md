# A specification of AgenLeash

AgenLeash starts coding agents (Codex, Claude Code, OpenCode and others) as
child processes, turns what they print into events, keeps a catalog of sessions
on disk and lets several clients follow and drive a session over HTTP and
WebSocket. This directory holds TLA+ models of its concurrent core, the TLC
configurations that check them and proofs of their main invariants for TLAPS.

Everything here is translated from the Go source under `src/`; PROJECT.json maps
each definition to its lines.

    tlc -workers 2 -config MCSession.cfg MCSession      # one run
    tlapm SessionProofs.tla                             # one proof module

## 1. The system

| Component | State | Operations | Talks to |
|---|---|---|---|
| Runtime (`internal/runtime`: stdio, PTY, prompt-argument) | the process, its pipes, the event channel (128), state and error, stop flags | Start, Write, CloseInput, Interrupt, Stop, Resize, Close; one read loop per stream, one wait loop, one closer | emits events on a channel to the session |
| Session (`internal/session`) | state machine, `model.Session`, ring of events, channel to the pump (256), `closed` | New, drain of the runtime's events, Pause, Resume, Interrupt, Stop, Snapshot, BindConversation | called by the pump, by client commands and by its own drain |
| Session manager | map from id to session | Start and lookups | |
| Event hub (`internal/event`) | per session: recent events (256), subscribers, their channels (64) | Publish, Subscribe, Subscription.Close | published to by pump, commands and start; read by WebSocket connections |
| App (`internal/app`) | adapters, time of the last persist, history-refresh flags | handleStartSession, pumpSession, handleCommand, refreshHistory and its reconcile, back-fill and prune | sessions, store, hub |
| Store (`internal/store`) | catalog of sessions, workspaces, conversations (SQLite, JSON file or memory) | upserts, deletes, Snapshot, Replace | written by start, pump, commands, history |
| History discovery (`internal/history`) | none | reads the agents' own transcripts; pages of messages | feeds reconcile |
| Adapters (`internal/adapter`) | registry of specs | version match, overrides, feature merge | start |
| HTTP API and WebSocket server (`internal/httpapi`, `internal/ws`) | one reader and one writer per connection | list, detail, start, message, events | app, hub, store |
| Config, command | environment | start-up | app |

An agent's output travels: process, pipe, read loop, runtime channel, drain,
session channel, pump, hub and store, subscriber channel, client. A command
travels the other way in the goroutine of the client's connection and touches
the session while the drain and the pump do.

**What is hard.** No lock spans two of these layers. `setState` takes the state
machine's lock and then the session's; `record`, `publish` and `emit` read a
channel under a lock and send after releasing it; every channel but the
runtime's drops when it is full; snapshots are copied and written to the store
later by whoever took them; the exit of a process races the reading of its
pipes, the stop flags and the closing of the channel. The hazards are listed one
by one, each at its line, in PROJECT.json.

**What makes each component correct.**

- Runtime: gapless output per stream, exactly one exit event, nothing after the
  close, an outcome that Wait, State and the event agree on, a stop that is not
  reported as a failure, a channel that always closes.
- Session: a gapless ring, numbers used once, no end announced that is not real,
  no revival after the end, an exit that always arrives.
- Hub: replay joined to the stream without gap or repetition, each publisher's
  order kept, publishers never waiting for clients.
- Start, pump, commands and store: the catalog and the clients catch up with the
  session, rows refer to rows that exist, bindings are not lost.
- History: the catalog lists what the agents' history holds and nothing else, no
  native conversation is guessed for two sessions, nothing is pruned that is
  referenced, live sessions are left alone, a failed pass locks nothing out.
- Messages: started, extended and completed in this order, a stream as one
  message, however the output is cut, and none left open at the exit.
- Transcripts: the page read from a tail is the page of the whole, and following
  the pages gives everything.
- Command line and environment: the agent is told its conversation, its prompt
  and its session, and nobody else's.
- WebSocket: a client ends with the latest state it could be given, and a
  connection always ends.

## 2. The modules

| Module | Models |
|---|---|
| `StateMachine` | the states and legal moves of `session/state.go` |
| `Session` | `session/session.go` and `runtime/buffer.go` with the runtime as environment |
| `BroadcastLog` | what a session's feed promises, without channels |
| `EventHub` | `event/hub.go`, shown to implement `BroadcastLog` |
| `RuntimeFeed` | what the session layer relies on from any runtime |
| `StdioRuntime` | `runtime/stdio.go`, shown to implement `RuntimeFeed` |
| `SessionStore` | `handleStartSession`, `pumpSession`, `handleCommand` and the store's rows of one session |
| `Catalog` | `refreshHistory` with its reconcile, back-fills and prune, against starts, pumps and restarts, over the three tables of the store |
| `PtyRuntime` | `runtime/pty_linux.go` and `pty_darwin.go`, shown to implement `RuntimeFeed` |
| `PromptArgRuntime` | `runtime/stdio_prompt_arg.go` around a child that is a `RuntimeFeed` |
| `OutputPump` | how `pumpSession` makes messages of output, with the classifiers of every profile |
| `Launch` | `internal/adapter` and the command line and environment of a start |
| `Transcript` | the pages of a transcript in `history/history.go`, and a client that follows them |
| `WsServe` | one WebSocket connection, `handleSessionEvents` and `internal/ws`, composed with `EventHub` and those who publish |
| `SessionProofs`, `RuntimeProofs` (`StdioRuntime`), `PtyProofs`, `PromptArgProofs`, `SessionStoreProofs` (also `Launch`), `CatalogProofs`, `OutputPumpProofs`, `ClientProofs` (`EventHub`, `WsServe` and `Transcript`) | theorems and proofs |
| `MC...` | roots of the TLC runs; the `.cfg` files give the constants |

How they fit: the three runtimes implement `RuntimeFeed`, `PromptArgRuntime` on
top of another `RuntimeFeed`; `Session` takes from its runtime whatever a
`RuntimeFeed` allows; `SessionStore` and `OutputPump` are the two halves of the
pump, the rows and the messages; `Catalog` is the pass over the agents' history
against many such sessions; `WsServe` extends `EventHub`: its connection is one of
the subscribers, and every step of it is a step of the feed or leaves the feed
alone (`ConnectionIsServed`); `Launch` is what a session is before all of this.

A definition preceded by "Mutant:" is a plausible bug of the definition after
it. No specification uses it; it is there to show which property would notice.

### Session

One variable per field (`machine` is the state machine, `modelState` is
`s.model.State`, `buffer`, `seq`, `events`, `closed`) and a frame per goroutine
that says between which two lock sections it stands. Pause, Resume and the
drain's end go through the same three steps of `setState`: `StateGuard` reads the
machine, `Transition` moves it, `AssignModel` writes the model. Everything that
records goes through the three of `record`: `BufferAppend`, `CheckClosed`,
`SendEvent`, the last with its outcomes delivered, dropped and panic. The ring
keeps numbers only, for nothing depends on what an event in the ring says. Output
has two kinds, since the pump tells only a request for input from other output;
`signalled` stands for interrupt and stop. The runtime emits events in any
order, one exit, possibly output after it, and then closes: what `RuntimeFeed`
allows. `touch`, LastSeen, PIDs and messages are left out. A panic sets
`crashed` and nothing moves afterwards, as in a Go process.

### EventHub and BroadcastLog

One feed; feeds share only the map that finds them. `PublishLocked` is publish up
to the unlock, `PublishSend` one turn of its loop over the copied channels.
Subscribe and Unsubscribe are whole lock sections. An event is its position in
the history variable `log`, which also remembers the publisher. A subscriber is
one call of Subscribe, so one that comes back is another. `CloseFeed` and
`CloseChannel` are `Hub.Close`, which the program does not call today but offers.
`BroadcastLog` has no channels: a log, members, and the set of positions each
member was given, which may grow only forwards within one author. The mapping
sends a subscription to what its replay, its channel and its reader have.

### StdioRuntime and RuntimeFeed

Two read loops, the wait loop, the closer, and clients that call Interrupt or
Stop. Signalling, the flag, and the emit are three steps of a caller; the wait
loop has five, of which `Reap` and `ClosePipes` are the two halves of
`cmd.Wait`: os/exec reaps the process and then closes the parent's ends of the
pipes. Output is counted in chunks of one read. Emit blocks on a full channel and
panics on a closed one. `process`, `ProcessWrite` and `ProcessExit` are the agent and
the kernel. Write is not an action: it hands bytes to the kernel. `RuntimeFeed`
is the contract: output in order and without gaps, one exit, close after it.

### SessionStore

The start in its real order (runtime, snapshot, workspace, conversation,
session, publication, pump) with a failure possible at each upsert; the pump from
the head of its loop to the next receive, with each snapshot, write and
publication a step of its own; commands that resume or interrupt. `record` is
one step here because `Session` has opened it up; `setState` is not, because a
snapshot can fall between the machine and the model. Unforced persists may be
suppressed at any time (the interval is a free choice), and any write the code
ignores the error of may fail. The history variables `missed` and `resumed`
remember a lost update and a resume by a client. The runtime and the drain's
receive are merged. Message events, previews and raw chunks are left out but
for the snapshots they cause. Any output may name a native conversation that is
not the session's, and binds the session to it, whether it had one or not
(`Rebind`): text and JSON lines, the line of JSON that the exit cut off among
them. A session has the strategy native_id exactly when it has a native ID, so
the strategy is not a variable.

### Catalog

The three tables of `sqlite_store.go` and everybody who writes them: several
passes over the agents' history, each in a request's goroutine, the start of a
session with its three upserts, and its pump. A pass is a frame that says which
call comes next and carries the locals the code carries across calls: the
records, the snapshot it read, the matching it computed, what its loop has left.
Every upsert and delete is a step, and may fail, which ends the pass and resets
`historyRefreshInFlight` as the deferred function does. `Discover` reads any part
of the adapter's history: the functions of `history.go` turn errors and the end
of the request into missing records. So do the reads of the store: `Loads` lets each of them leave out any
rows, which is what a query that fails or a row that does not decode comes to
(`loadPayloadMap`), and `unread` remembers which sessions a decision was made
without. A Snapshot is atomic where only its sessions
matter (the back-fills) and three reads in the prune, which depends on all
three. The matching by time is `IsGreedy`, which says of a set of pairs that each
session has the first candidate that fits after those taken before it; the order
of creation makes it unique. Go's order of workspaces and of loops over maps is a
free choice.

Identities: a discovered session and its conversation have the native
conversation's name, for their IDs are hashes of it; their workspace is adapter
and path; a managed session's workspace and conversation have its own name,
unless the client named a conversation. A row says only which native
conversation it names, whether it has that transcript's path, whether the
matching wrote it, and its state.

Left out: the interval between refreshes (a request may or may not start a
pass), previews and LastSeen (a transcript that only grows makes the code write
its rows again), the import of an old `state.json`, the late writes of handleCommand (`SessionStore` has them) and the
steps of the pump that do not touch a row. A row keeps the state that its
session had; the program does not correct it at a restart.

### PtyRuntime

The two builds differ in who holds the slave side of the terminal after the
start: the linux build closes its own, the darwin build keeps it. `holders` says
who has it open: the agent, a helper it left in the background, the server. The
master reads an error when nobody is left, so, unlike a pipe that `cmd.Wait`
closes, a terminal is read to its end. `Close` closes the master; a read that is
blocked then may return or go on, so `ReadEnd` is allowed and not forced. Emit
is that of `StdioRuntime`. Opening the terminal and its window size are left out.

### PromptArgRuntime

The lock sections of `CloseInput`, `emit` and `closeEvents` are steps, and so is
what happens between them: `todo` holds for each goroutine the emits and closes
it has still to do. `emit` loads `r.events`, then sends without waiting, and drops
at a full channel; `closeEvents` takes the channel under the lock and closes it
after. The child is an instance of `RuntimeFeed`, so every behaviour of the stdio
runtime that its theorem allows is in the model. A prompt is the number of
writes it holds. The session's drain is part of the model, for a drain that asks
for the channel after `closeEvents` gets nil.

### OutputPump

A line is two pieces and a newline; an output event is any cut of what a stream
has to give, two streams share one remainder, and a payload is the type that the
profile's classifier sees in it. `Texts` says for every profile what each type is:
an answer, a part that is published whole while its answer goes on, a delta of a
stream, an end without a text, silence. Answer and part are the same to the code;
only `MessagesAreTurns` tells them apart, to count what is published again. The functions
`PublishMessage`, `PublishDelta` and `Complete` are the code's, on a record of the
pump's locals. `buffer` is the remainder with the lines that the consumer's loop
has not come to; each turn of the loop, `HandleLine`, is a step, and the pump
takes its next event when no line is left (`Ready`). The exit is two steps with
such turns between them: it ends the last line, and it completes the open
message. Left out: the text itself, and so the trimming of a final answer that a
stream has partly given, and the summary of a run that codex prints.

### Launch

An adapter directory, a request, a version that was found and the server's
environment are inputs; `LoadDirectory`, `Resolve`, `BuildRuntimeArgs` and
`MergeEnv` are the code's functions. Versions are sequences of numbers, options
that the code treats alike are one. The check of the working directory and of
the binary is a request that leaves nothing. Left out: features, aliases,
display names, a version that is not numbers.

### Transcript

A line has a position and a size; a tail of so many bytes begins anywhere in it,
and `LinesInTail` drops what the code drops. `Merged` is the merging of results
into the uses they answer. The server's request is three steps, for the file
grows between its size being read, the tail being opened and the tail being
read. The client follows `next_offset`. OpenCode's transcript is a table that
lags behind the writer. Left out: a line of more than 16 MiB, at which the
scanner of the code stops (`history.go:1331`).

### WsServe

One connection in its order: the row is read (`Lookup`), the connection upgraded
and the feed subscribed (`Connect`), snapshot, replay and mark sent (`SendFirst`), the
reader started, the stream forwarded. Its feed is `EventHub` itself, step by step:
publishers that send outside the lock, other subscribers, the trimmed replay, the
channel that drops, the close and the panic. A state of the session is a version
number; every publisher, the pump or a client's command, takes a snapshot, may write
it to the row and may publish it, in this order or not at all and with the
others in between, besides events that carry no state. A frame is one step. `HandleCommand` is the
return of a command's handler, which need not happen.

## 3. The runs

All runs are exhaustive for their bounds. Deadlock checking is off because all
these systems end: the process exits, every goroutine returns, bounded
environments stop.

| Run | Shows | Bounds and why they are enough |
|---|---|---|
| `session` | gapless ring, numbers sent once, ends real, an exit processed to the last goroutine | 1 handler, 1 command, 1 output besides start, signal and exit, ring and channel of 2: the ring wraps, the channel drops, drain, pump and handler are in setState and record together |
| `hub` | replay exact, replay and stream without gap or repetition, the refinement, publishers return | 2 publishers, 2 subscribers, 3 events, replay of 2, channels of 1: the replay is trimmed, a channel fills, two publishers overlap, one joins while another leaves |
| `hub_panic` (violated) | a publisher panics on a subscriber that leaves | the same |
| `stdio` | loops safe, outcome agreed, stop honoured, the refinement, the channel closes | 2 streams of 2 chunks, 1 caller, channel of 1: every sender meets a full channel |
| `pty` | terminal read to its end, the refinement, the channel closes | 2 callers, 2 chunks, channel of 1: a resize and a signal overlap with the exit, a helper writes after it |
| `prompt_arg` | one launch with the whole prompt, one close, events in order, the drain ends | 2 CloseInputs, 1 Stop, 1 write, 3 events of the child, channel of 2: the channel drops, both ways to a close overlap; argument lists with and without a placeholder |
| `pump` | framing, independence of the cuts, messages counted per answer with the repeats, nothing open at the exit | 3 lines of any type on 2 streams, all 8 parsers: a stream, its final answer and one more line, with the exit anywhere |
| `store` | catalog and clients catch up, rows exist, bindings stored also when they change | 1 client, 1 command, 2 native conversations, 2 outputs (a request and the text that resumes, or the names of both conversations), channel of 2; a resumed session starts bound to one of them |
| `catalog` | discovered rows complete, passes alone and exact, live rows untouched, no native conversation guessed twice, referenced rows spared, mappings agree | two native conversations, a session of an earlier run and one that starts now, all in one workspace of one backfilling adapter, and a second adapter that is read after it; two refreshers and two passes, so that one pass meets what another left; skew 0, window 1 on creation times 1 to 3, so that each session has candidates it may and may not take and both want the same one; one upset (`MaxUpsets`): a change of the history, a restart, a binding by output, a write that fails, or a read of the catalog that leaves rows out; `Named`: the new session may be tied to the first conversation by its client or its output |
| `ws` | the client is shown the latest state; handler and subscription end with the feed, and with the client too, the reader with them, when commands are answered | 2 publishers, 2 events, 2 states, replay and channel of 1: states are stored and published before, between and after the lookup, the subscription and the mark, the replay is trimmed, the channel drops, publishers overlap, so that each of the last three conditions of `Settled` is needed here; both sides report an error, a command fails or never returns, the feed is closed during a publish or before the subscription; other connections on the feed are in `hub` and in the theorems |
| `transcript` | pages whole, nothing skipped, paging ends | 4 lines of 1 or 2 units, a first tail of 3, a limit left to the default of 1 and one cut to the maximum of 2, 1 tool: tails begin inside a line, are doubled, hold a result and miss its use, the file grows between any two steps |
| `launch` | the command line and the environment | the repository's adapters with one option of each kind and variants of them, versions inside, between and beyond the ranges, a server that runs in a session itself |

**Fairness.** Goroutines that can run do run: weak fairness of the drain, the
pump, each handler, each loop, each publisher in its loop, the reader and the
handler of a connection. That is the Go scheduler. A step is enabled only when
its lock and its channel allow it, and no lock is held across a blocking
operation in this code, so weak fairness is enough. The handler of a connection may
leave while there is more to forward; events are bounded in the instance, and beyond
it the handler relies on Go's select, which picks at random. An agent need not print, read
or exit, a client need not send or leave. So a command's handler is not assumed to
return: its write to the agent (`app.go:1204`, `stdio.go:123`) waits for an agent
that does not read. What `ConnectionEnds` says of the reader, and of a client that
has gone, has the hypothesis that the reader gets out of its commands again and
again; that handler and subscription end with the feed has none. Only in `Transcript` the client is
assumed to ask for the page it was promised, for the paging is its own. For the
runtimes the session is assumed to drain the channel, which `EndIsProcessed` and
the shape of the drain justify: nothing in it waits for a client. A write to a
client is assumed to return; the code sets no deadline, so a client that keeps
its connection and does not read can hold its own handler.

`Transcript!FairPagingSpec` writes weak fairness out as "done infinitely often or served
infinitely often": the server's step is enabled exactly while the client is not
done.

## 4. The proofs

For all values of the constants under the named assumptions (actors distinct,
capacities positive, bounds natural):

- `SessionProofs`: TypeOK, BufferIsRecentSuffix, ReportedEndIsReal,
  SentAtMostOnce, TerminalIsFinal.
- `RuntimeProofs`: TypeOK, LoopsNeverPanic, OutcomeAgrees, StopIsHonoured, and that
  every step of the stdio runtime is a step of `RuntimeFeed` or a stutter.
- `PtyProofs`: TerminalIsDrained, and the same refinement of the terminal runtime.
- `PromptArgProofs`: AgentGetsWholePrompt, ClosedOnce and FeedsInOrder.
- `SessionStoreProofs`: RowsExist, BindingIsStored and StoreCatchesUp; and of `Launch`,
  on the path of the same handler, AgentIsTold and EnvironmentIsOwn.
- `CatalogProofs`: DiscoveredComplete, LiveRowIsOwn, RefreshIsSound,
  PruneSparesReferenced, MappingAgrees and MatchedOnce.
- `OutputPumpProofs`: Framed, ChunksDoNotMatter, MessagesAreTurns and ExitCompletes.
- `ClientProofs`: of `EventHub` TypeOK, RecentIsLatest, DeliveryIsExact, and that every
  step of the hub is a step of `BroadcastLog` or a stutter; of `WsServe` that its
  steps are steps of the hub, and ViewCatchesUp; of `Transcript` PageIsWhole and
  NothingSkipped.

Beyond these, the assumptions are that a managed session is no native
conversation (`IdsAssumption`), that a native ID which a client gives as its
conversation is none of the IDs the server makes, hashes or random
(`GivenAssumption`), that sessions of one creation time come in a fixed order
(`TimesAssumption`), as the stable sort of the code has them, and that the parsers
`OutputPump` is run with are among those of `Texts` (`ProfilesAssumption`), and that
every kind of line has a size (`SizesAssumption`).
AgentIsTold has two hypotheses that no code enforces, `AdaptersKeepOptions` and
`ClientsKeepOptions`: an adapter writes the options of its own agent, a client gives
no option that resumes, an id is not spelled like an option. The adapters in
`adapters/` keep to the first; TLC evaluates both for the directories of the run, and
section 5, 10 says what happens without them.

The arguments:

- *Ends are real.* The property is not inductive: AssignModel writes what the
  frame carries. The strengthening says that a frame about to assign a terminal
  state has already moved the machine there. Terminal states are absorbing in
  `MayMove`, so this survives every other goroutine, and `TerminalIsFinal` follows
  from the same lemma on Transition.
- *The ring.* By the two cases of `Ring`: below capacity the suffix grows by the
  new number, at capacity it moves by one. Number and ring change only in New and
  BufferAppend.
- *Sent at most once.* The strengthening bounds every number in the channel and
  in an unsent frame by `seq`, which makes the next number new, and gives no
  number to frames before `BufferAppend`.
- *The hub implements the log.* The invariant has two parts. `HubInv` says of a
  publisher in its loop that the event it sends is its own and its latest, and that
  every channel it still has to send to was made before that event and does not
  have it yet. `Registered` says that a registered channel is open and a closed
  feed has none. With them a send that delivers is Deliver, a subscription is
  Join, the close of a channel is Leave, and the rest stutters.
- *Delivery is exact.* What was published since a subscription is in flight to it
  until its turn in the publisher's loop, and nothing in flight was given before:
  with `HubInv` this makes `Once` (no position twice in replay, channel and reader)
  and `Accounted` (each position is given, in flight, or was dropped at the full
  channel) inductive, one subscription at a time.
- *Loops are safe.* A closed channel has no loop left and an unstarted process has
  none yet; CloseEvents needs all loops done and nothing takes a loop out of done.
- *Outcome agrees.* From the moment the wait loop has set the state, state and
  error stand for the same outcome; an exit event exists only once it is done,
  and it names that outcome. Interrupt, Stop and Close write neither.
- *A stop is honoured.* `Reap` needs an agent that has exited, so whoever sets the
  flag while it runs is before the wait loop's look at the flag (`RunningInv`), and
  from there every step of the wait loop goes towards stopped (`Honoured`).
- *The runtime implements the feed.* The two invariants above give Exit (the wait
  loop is not done, so there is no exit yet) and Close (it is done, so there is
  one). The mapping counts the chunk a read loop holds as not given, so its emit
  is Output with the next number and its read a stutter.

- *The terminal runtime.* `LoopInv` ties the read loop to the holders: an agent
  that runs holds its terminal, and a loop that left before a Close left a
  terminal without holders, which nobody can open again. `ExitInv` says that an
  exit has been sent exactly when the wait loop is done. With both, the
  refinement goes as for the stdio runtime, for both builds at once.
- *The prompt is whole.* `CloseInput` sets `closed` in the step that reads it, so
  at most one closer is ever between its start and the child, and the buffer the
  agent was given is the buffer for good: Write needs `~closed`.
- *The channel is closed once.* Who is about to close has taken the channel away
  in the step that made him so; the others find nil. The invariant also carries
  the shape of the lists of steps still to come: a close can only be first.
- *The feed is in order.* `OrderInv`: what was sent is a copy of an event the
  forwarder is done with, or the exit of a launch that failed, and the forwarder
  holds one event, the last it took (`HeldInv`). Both ways exclude each other, for a
  failed launch has no child (`LaunchInv`) and is never tried again.
- *The rows exist, the binding is stored.* `PlaceInv` says which goroutines can run
  at all: the pump after the start is over, clients after the session's row is
  there. `RowInv` and `BindInv` say how far the rows are at each step of the start.
  `BindInv` says that the conversation's row names the session's native
  conversation when the start is over, but between PumpBind and BindStore, where the
  pump's snapshot names it; only the pump binds, so nobody changes it meanwhile.
- *The store catches up.* The session is ahead of its row only while that is
  somebody's debt (`Excused`): an announcement that is on its way to the pump, or
  a loss or a client's resume that the property leaves out. `PumpFresh` says at
  which of the pump's steps the copy it carries is the session's: every change is
  announced after it is made, and the pump copies again after each announcement.
- *The agent is told.* A session's command line is fixed when it is made, so the
  invariant says of the loaded adapters that they come from the files, and the rest
  is about `BuildRuntimeArgs`, family by family. That the loop which strips resume
  options leaves none is an induction over the arguments: the positions at which it
  would fail have a least one (`UpTo`), and the loop's step excludes it.
- *The catalog.* A pass decides by what it read some calls ago, so the invariant
  says of each stage what its locals still say of the tables (`Upserts`,
  `Matches`, `Prunes`), and `OnePass` that nobody else's locals matter. The rest of
  the program (`Apart`) takes nothing away: it writes no discovered row, deletes
  nothing, and a session that was over stays over. `MemoryInv` adds that a session
  with a row has been started, so that one found over in a snapshot cannot start
  to run before the pass writes it. `Reached` follows the history through the
  adapters, for a pass whose reads were whole. What a snapshot says of the
  sessions it says of those it has; the invariants speak of the others only once
  a pass has written them again (`unread`), which makes all three rows anew.
- *The managed sessions.* Four invariants on top of the first. `KeptInv` is what a
  start and a pump hold of their own session. `PruneInv` follows a start that no
  pass overlapped: what it has written stays, and a pass prunes by a snapshot that
  has every such row it did not leave out, so what it deletes is of none of these. `AgreeInv` says that session and
  conversation agree except between the two writes that tie them, and only the
  pass that ties is there. `OnceInv` says that the guesses in the table are those of
  the snapshot and those of the plan, which are disjoint, for a plan takes no
  conversation that the snapshot has given away.
- *The messages.* `Good`: the events so far are framed, and the pump's open message
  is the one they leave open. `Mode` says for each kind of profile how the open
  message and Streamed go together, and `Fresh`, until the exit, that Streamed is
  not stale; with them one lemma (`HandleGood`) says for every profile what a line
  adds to the events (`Delivers`), by cases on what the classifier makes of it.
- *The turns.* By the same `Delivers`, counted: a run of deltas is open behind the
  last line exactly when the pump's message is (`Turned`). A text begins a message
  exactly when no run is open, and it is then the first of its answer or a further
  one (`First`, `Again`). After the exit this is
  false, for Streamed stays set: an answer that comes late is not published, which
  is why MessagesAreTurns ends at the exit.
- *The cuts.* ChunksDoNotMatter is inductive once the variables are sequences: new
  output joins the buffer and the history alike (`LinesArrive`), and the first end
  in the buffer is the next in the history (`LineTaken`).
- *The exit.* `ExitInv`: between its two steps the buffer is empty or ends with a
  newline, so when the loop has no line left it is empty.
- *The connection uses the hub.* Every action of `WsServe` is an action of `EventHub`
  or leaves its variables alone (`ServeStepIsHubStep`), so all that is proved of the
  hub holds of a feed with this user, its invariants too (`OwnChannel`).
- *The view.* `ShownInv` says where the latest state is. If it was published before
  the subscription (`Replayed`), then what is still to be sent first ends with it,
  or, when the replay does not go back so far, with what was read. If it came
  after (`Streamed`), some publisher is sending it to this channel, or it is in
  the channel with nothing but stateless events behind it, or shown. That a send
  puts nothing older behind it is `AloneInv`: as long as no two publishers were
  sending to this channel at once, the event sent is the latest of the log. The
  step that needs most is `Connect`: the replay is the end of the log
  (`RecentIsLatest`), and the place of the latest state in it is found by counting.

- *The page.* Everything is a selection of places of a sequence (`Selected`), and
  what it does to two sequences in a row is proved once, by taking the first length
  at which it would fail (`UpTo`). A tail has the last lines of the file
  (`TailOfFile`), because lines do not overlap. The merge makes of the messages of
  such a tail what it makes of them in the whole, but for results of a tool whose
  use lies before it (`MergeOfEnd`); none of these is among the messages the page
  looks at, for that is what `cut` records, so both sequences end alike
  (`MergedOfEnd`). A tail with `Need` messages has one more than it shows, hence
  the same mark. One that was taken for the whole file begins with it, or the file
  has grown (`TailInv`).
- *Nothing is skipped.* What the agent adds may bring results to earlier messages
  but takes none away (`MergedContinues`), so the promised messages are always the
  first `q` of the transcript. Offsets count from its end: as it grows the next
  page only moves later, and what lies behind it has been shown (`PromiseInv`).

Only model-checked: liveness (EndIsProcessed, PublishReturns, ExitClosesEvents,
EndClosesEvents, DrainEnds, ConnectionEnds, PagingEnds). It needs ENABLED and
fairness, which are outside the prover's reach.

A theorem holds under the same abstractions as the model it is about; bounds such
as MaxLines are any natural number in it.

## 5. What the code does not promise

Written down as formulas in the modules, or met while modelling them. The first
is a run; the others are counterexamples TLC gives when the formula is put into
the configuration of the module's run.

1. **A publisher panics** (`hub_panic`, `hub.go:112`). publish copies the channels,
   unlocks; the client disconnects and its channel is closed; publish sends. The
   same happens to a client's Interrupt or Stop in the runtimes (`NoPanic` of
   `StdioRuntime`) and to a client's Resume in the session (`NoPanic` of `Session`).
2. **A finished session can be reported as running** (`ExitIsReported` of
   `Session`, `session.go:168`; docs/zh-CN/PRD.md:410 says that an exited process
   is marked so). Resume passes `Transition`; the process exits; the drain moves
   the machine to stopped and writes the model; then Resume writes running into
   the model. Nothing writes it again.
3. **Output is lost at exit** (`OutputIsComplete` of `StdioRuntime`,
   `stdio.go:294`; `stdio_test.go:31` fails with "missing output event" then). Wait
   runs beside the readers and closes their pipes; os/exec documents that Wait
   must come after the reads.
4. **The catalog keeps an old state** (`RestIsStored` of `SessionStore`,
   `app.go:1199`; PRD.md:22 promises durable metadata). A client's message resumes
   the session and takes a snapshot; the session pauses again and the pump
   stores it; then the client's goroutine stores its copy.
5. **A partial read deletes sessions** (`HistoryStaysListed` of `Catalog`,
   `history.go:366`, `app.go:410`; docs/zh-CN/PRD.md:239). The agent's database is
   locked or the listing request is cancelled; the discovery returns fewer
   records and no error; reconcile deletes the rest. They come back with the
   next good pass.
6. **A start loses its workspace** (`MappingsPreserved` of `Catalog`, `app.go:750`;
   PRD.md:21). The start upserts workspace and conversation; the prune, whose
   snapshot has no session for them, deletes them; the start upserts the
   session. `PruneSparesReferenced` shows that, with reads of the catalog that
   do not fail (14), this is the only way.
7. **A darwin session behind a terminal does not end** (`pty_darwin.go:344`). The
   server's own slave keeps the master readable; it is closed by the read loop,
   which waits for the master, or by Close, which nothing calls. This is why
   `EndClosesEvents` asks for a terminal without holders.
8. **A stopped prompt still launches** (`stdio_prompt_arg.go:159`). Stop before the
   launch ends the channel but sets neither flag; a later CloseInput starts the
   agent, and nobody reads it. Properties of order and end leave such behaviours
   out (`StoppedEarly`).
9. **Pages of a long transcript skip messages** (`history.go:1304`). A result whose
   use is before the tail stays a message of its own there and not in a longer
   tail, so the offsets of two pages do not count the same messages (`cut`); and a
   file that grows between Stat and the read of the tail can answer, for a tail
   that was thought to be the whole file, that there is nothing more (`grown`).
10. **Agents that are not told** (`app.go:1360`). For a family without a case of
    its own, acpx and the mock agent, a resumed session has its conversation
    recorded and not on its command line; so have codex and opencode when the
    profile's arguments do not begin with `exec` or `run`. Two conversations may
    get one session file (`app.go:1400`), and where no version is known the agent
    inherits `AGENLEASH_AGENT_VERSION` of the server's environment.
11. **A failed tool shows as a success** (`history.go:1369`). Codex writes
    exec_command_end with its status and function_call_output without one, for
    which the parser says success; the later of the two wins.
12. **A client is left with an older state** (`ViewCatchesUp` of `WsServe` without one of
   the conditions of `Settled`). Two publishers, the pump and a command, send
   outside the lock (`hub.go:110`), and the channel gets the older state last
   (`crossed`); the latest state finds the channel full (`hub.go:113`, `dropped`); or
   between the lookup and the subscription (`router.go:421`, `server.go:26`) more is
   published than the replay keeps, and the state among it is in neither
   (`joined`). Nothing repairs this before the next change of state.
13. **Two frames can mix** (`conn.go:114`). The reader answers a ping while the main
    loop writes; a frame is two writes.
14. **A read of the catalog that fails deletes most of it** (`app.go:737`,
    `sqlite_store.go:333`; counterexamples to `MappingsPreserved` and to
    `DiscoveredComplete` without `unread`). loadPayloadMap makes an empty table of
    an error, and leaves out a row that does not decode; the prune finds no session
    that refers to them and deletes the conversations and workspaces it can read.
    The sessions' rows stay. A discovered session is whole again after the next
    pass that finds it, a managed one need not be. A matching that misses a session may
    give its conversation to another.
15. **Answers are published more than once** (`app.go:1676`, `app.go:1863`; `Again` of
    `OutputPump` counts them in `MessagesAreTurns`). Each delta of a codex item is a
    message, and then the whole item is another (`app.go:2118`). Cursor and gemini
    give the assistant's text and again the result, pi the ends of message, turn
    and agent, acpx its messages and the result: what comes while a stream is open
    is dropped, but the first of them completes the stream and resets Streamed, so
    the next is published whole.
16. **An error during a stream is not shown** (`app.go:1866`). A payload with a whole
    text adds nothing while a stream is open, the text of an error too (grok's
    `error` after deltas): it completes the message, and its text goes nowhere.
17. **A command can hold a connection's reader** (`app.go:1204`, `stdio.go:123`). An
    agent that does not read its input lets the write of a message wait without a
    deadline. The reader is in it and does not see the client leave, so the handler
    and its subscription stay until an event's write fails or the feed is closed,
    and the reader until the agent reads or ends (`ConnectionEnds` without its
    hypothesis).

## 6. Not modelled, and why

- Statistics (`httpapi/stats.go`), the page (`stats_page.go`), the other routes:
  sums, an asset, lookups and serialisation, none with state of its own.
- The file store and the import of an old `state.json`: one write of a whole
  file under one lock, read at the start.
- Environment parsing, features and aliases of adapters, display names,
  highlights and previews: text, no control.
- The parsing of transcripts and of payloads: text formats of other programs;
  `Transcript` and `OutputPump` start from what kind of line it is.
- Framing of WebSocket bytes (masks, lengths) and the system calls that open a
  pseudo-terminal.
- A restart in the middle of a session's messages: nothing of a message is
  persistent.

What would come next: a composition of `Session` with a `RuntimeFeed`. It would show
nothing new of the session, which takes from its runtime every order of output,
exit and close, more than a `RuntimeFeed` allows; it would show how an agent's
stream ends at a client.
