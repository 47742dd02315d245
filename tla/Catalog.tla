-------------------------------- MODULE Catalog --------------------------------
(***************************************************************************)
(* The catalog that AgenLeash keeps of the sessions it started (managed)   *)
(* and of those it finds in the agents' own history (discovered), and the  *)
(* goroutines that write it at once: refreshHistory of internal/app/app.go,*)
(* run by any request, handleStartSession, and the pump of each session.   *)
(*                                                                         *)
(* The store is the SQLite one: each write of a row is atomic, a Snapshot  *)
(* of the catalog is three reads.  A native conversation n gives one       *)
(* discovered session, named n here, and its conversation (both stable IDs *)
(* made from n).  A pass over the history takes the adapters in turn:      *)
(* upsert what was found, tie finished managed sessions to the native      *)
(* conversations they left behind, delete what is no longer found, prune   *)
(* what no session refers to.                                              *)
(*                                                                         *)
(* Abstracted: the refresh interval (a request may or may not start a      *)
(* pass), previews, times other than CreatedAt, and the steps of the pump  *)
(* that SessionStore details.                                              *)
(***************************************************************************)
EXTENDS Naturals, FiniteSets, Sequences

CONSTANTS
    Natives,      \* native conversations that may be in the agents' history
    Managed,      \* sessions that clients may start, or have started...
    Earlier,      \* ...in an earlier run of the program
    Refreshers,   \* goroutines of requests that call refreshHistory
    Adapters,     \* the adapters whose history is read, in the code's order
    AdapterOf,    \* of each native conversation and managed session
    PathOf,       \* its workspace's path
    CreatedAt,    \* when it was created
    Place,        \* its place among those created at that time
    Skew, Window, \* managedHistoryBackfillSkew and ...Window
    MaxPasses,    \* bound: passes over the history
    Named,        \* bound: which sessions a client or output ties to what
    MaxUpsets     \* bound: changes of the agents' history, restarts of the
                  \* program, conversations named by output, writes that fail
                  \* and reads of the catalog that leave rows out, together

None == "none"
Absent == "absent"
Ids == Natives \union Managed

ASSUME IdsAssumption ==
    /\ Natives \intersect Managed = {} /\ {None, Absent} \intersect Ids = {}
    /\ Earlier \subseteq Managed /\ Named \subseteq Managed \X Natives
ASSUME AdaptersAssumption == Adapters \in Seq(STRING) /\ AdapterOf \in [Ids -> STRING]
ASSUME TimesAssumption ==
    /\ CreatedAt \in [Ids -> Nat] /\ Skew \in Nat /\ Window \in Nat
    /\ Place \in [Ids -> Nat]
    /\ \A x, y \in Ids : x # y /\ CreatedAt[x] = CreatedAt[y] => Place[x] # Place[y]
ASSUME BoundsAssumption == MaxPasses \in Nat /\ MaxUpsets \in Nat

\* A row of the table sessions.  located: the row has the detail path of a
\* native transcript and its state.  matched (history): the binding is the
\* guess of the matching by time.
Rows == [native : Natives \union {None}, located : BOOLEAN, matched : BOOLEAN,
         state : {"absent", "running", "exited", "stopped"}]
NoRow == [native |-> None, located |-> FALSE, matched |-> FALSE, state |-> "absent"]
Discovered(n) == [native |-> n, located |-> TRUE, matched |-> FALSE, state |-> "stopped"]

\* The snapshot of the session in memory.
Copy(bound, live) == [native |-> bound, located |-> FALSE, matched |-> FALSE,
                      state |-> IF live THEN "running" ELSE "exited"]

\* The native conversations that a client or output may name.
Resumable(m) == {n \in Natives : <<m, n>> \in Named /\ AdapterOf[n] = AdapterOf[m]}

\* Conversation IDs: stable ones of discovered sessions, fresh ones of managed
\* sessions, and the native ID itself when a client resumes one.
Given(n) == <<"given", n>>
ConversationIds == Ids \union {Given(n) : n \in Natives}
ASSUME GivenAssumption == \A n \in Natives : Given(n) \notin Ids

\* Workspace IDs: fresh ones, and stable ones from adapter and path.
StableWorkspace(n) == <<AdapterOf[n], PathOf[n]>>
WorkspaceIds == Managed \union {StableWorkspace(n) : n \in Natives}

\* Where a pass is: about to write (a call that may fail) or to read.
Writing == {"workspace", "conversation", "session", "known", "known_conversation",
            "match", "match_conversation", "delete", "delete_conversation"}
Reading == {"discover", "plan", "read_orphan_workspaces", "read_orphan_conversations"}

VARIABLES
    disk,          \* the native conversations in the agents' history
    sessions,      \* table sessions
    conversations, \* table conversations: the native ID of each, None or Absent
    workspaces,    \* table workspaces: the IDs in it
    phase,         \* each managed session in the manager: "new" (not there),
                   \* "live", "exited", or "gone" after a restart
    native,        \* its NativeConversationID in memory
    conversation,  \* its ConversationID
    writer,        \* where its starter, then its pump, is
    held,          \* the snapshot its pump holds
    inFlight,      \* historyRefreshInFlight
    pass,          \* the frame of each refresher
    passes, upsets,
    clean,         \* history: the last pass ended well, and the history has
                   \* not changed since it was read
    raced,         \* history: managed sessions whose start overlapped a pass
    torn,          \* history: a write failed or the program restarted
    unread         \* history: the sessions that a pass's Snapshot left out of
                   \* what it compares, and no pass has upserted since

storeVars   == <<sessions, conversations, workspaces>>
managedVars == <<phase, native, conversation, writer, held>>
passVars    == <<inFlight, pass, passes>>
historyVars == <<clean, raced, torn, unread>>
vars == <<disk, storeVars, managedVars, passVars, upsets, historyVars>>

Frame == [pc : {"idle"} \union Writing \union Reading, adapter : 1..Len(Adapters),
          records : SUBSET Natives,     \* what was discovered
          whole : BOOLEAN,              \* history: every read of what the pass
                                        \* compares, history and rows, succeeded
          todo : SUBSET ConversationIds, \* what the loop has left
          item : Ids \union {None},     \* what it is writing
          rows : [Ids -> Rows],  \* the sessions of the snapshot
          over : SUBSET Managed,        \* those not live when rows were read
          plan : SUBSET (Managed \X Natives),    \* the matching
          orphans : SUBSET WorkspaceIds]

NoRows == [id \in Ids |-> NoRow]
Idle == [pc |-> "idle", adapter |-> 1, records |-> {}, whole |-> TRUE, todo |-> {},
         item |-> None, rows |-> NoRows, over |-> {}, plan |-> {}, orphans |-> {}]

\* The catalog has the rows of the sessions of an earlier run, and no process.
Init ==
    /\ disk \in SUBSET Natives
    /\ native \in [Managed -> Natives \union {None}]
    /\ \A m \in Managed : native[m] \in IF m \in Earlier THEN Resumable(m) \union {None}
                                        ELSE {None}
    /\ conversation \in [Managed -> ConversationIds]
    /\ \A m \in Managed : conversation[m] \in
           IF m \in Earlier THEN {m} \union {Given(n) : n \in Resumable(m)} ELSE {m}
    /\ phase = [m \in Managed |-> IF m \in Earlier THEN "gone" ELSE "new"]
    /\ writer = [m \in Managed |-> IF m \in Earlier THEN "done" ELSE "off"]
    /\ held = [m \in Managed |-> NoRow]
    /\ sessions = [id \in Ids |-> IF id \in Earlier THEN Copy(native[id], TRUE) ELSE NoRow]
    /\ conversations = [c \in ConversationIds |->
           IF \E m \in Earlier : conversation[m] = c
           THEN native[CHOOSE m \in Earlier : conversation[m] = c] ELSE Absent]
    /\ workspaces = Earlier
    /\ inFlight = FALSE /\ pass = [r \in Refreshers |-> Idle] /\ passes = 0
    /\ upsets = 0
    /\ clean = FALSE /\ raced = {} /\ torn = FALSE /\ unread = {}

\* What may happen or not is counted, to bound it.
Upset == upsets < MaxUpsets /\ upsets' = upsets + 1
WriteFails == Upset /\ torn' = TRUE

-----------------------------------------------------------------------------
(* A managed session: handleStartSession, the runtime, pumpSession.        *)

Live(m) == phase[m] = "live"
Starting == {m \in Managed : writer[m] \in {"workspace", "conversation", "session"}}

\* Sessions.Start.  A client may name a conversation, whose ID the session then
\* has; if it resumes it, the session is tied to that native conversation.
Start(m, named, resumed) ==
    /\ phase[m] = "new" /\ writer[m] = "off"
    /\ phase' = [phase EXCEPT ![m] = "live"]
    /\ native' = [native EXCEPT ![m] = resumed]
    /\ conversation' = [conversation EXCEPT ![m] =
                          IF named = None THEN m ELSE Given(named)]
    /\ writer' = [writer EXCEPT ![m] = "workspace"]
    /\ held' = [held EXCEPT ![m] = Copy(resumed, TRUE)]
    /\ raced' = IF inFlight THEN raced \union {m} ELSE raced
    /\ UNCHANGED <<disk, storeVars, passVars, upsets, clean, torn, unread>>

StoreWorkspace(m) ==
    /\ writer[m] = "workspace"
    /\ workspaces' = workspaces \union {m}
    /\ writer' = [writer EXCEPT ![m] = "conversation"]
    /\ UNCHANGED <<disk, sessions, conversations, phase, native, conversation, held,
                   passVars, upsets, historyVars>>

StoreConversation(m) ==
    /\ writer[m] = "conversation"
    /\ conversations' = [conversations EXCEPT ![conversation[m]] = held[m].native]
    /\ writer' = [writer EXCEPT ![m] = "session"]
    /\ UNCHANGED <<disk, sessions, workspaces, phase, native, conversation, held,
                   passVars, upsets, historyVars>>

\* The last write of the start; the pump runs from here on.
StoreSession(m) ==
    /\ writer[m] = "session"
    /\ sessions' = [sessions EXCEPT ![m] = held[m]]
    /\ writer' = [writer EXCEPT ![m] = "idle"]
    /\ held' = [held EXCEPT ![m] = NoRow]
    /\ UNCHANGED <<disk, conversations, workspaces, phase, native, conversation,
                   passVars, upsets, historyVars>>

StartFails(m) ==
    /\ m \in Starting
    /\ writer' = [writer EXCEPT ![m] = "failed"]
    /\ held' = [held EXCEPT ![m] = NoRow]
    /\ WriteFails
    /\ UNCHANGED <<disk, storeVars, phase, native, conversation, passVars,
                   clean, raced, unread>>

Exit(m) ==
    /\ Live(m)
    /\ phase' = [phase EXCEPT ![m] = "exited"]
    /\ UNCHANGED <<disk, storeVars, native, conversation, writer, held, passVars,
                   upsets, historyVars>>

\* The pump takes a snapshot to persist.  Output may bind the session to a
\* native conversation first.
PumpSnapshot(m) ==
    /\ writer[m] = "idle"
    /\ held' = [held EXCEPT ![m] = Copy(native[m], Live(m))]
    /\ writer' = [writer EXCEPT ![m] = "persist"]
    /\ UNCHANGED <<disk, storeVars, phase, native, conversation, passVars, upsets,
                   historyVars>>

PumpBind(m, n) ==
    /\ writer[m] = "idle"
    /\ native[m] # n
    /\ Upset
    /\ native' = [native EXCEPT ![m] = n]
    /\ held' = [held EXCEPT ![m] = Copy(n, Live(m))]
    /\ writer' = [writer EXCEPT ![m] = "persist_bind"]
    /\ UNCHANGED <<disk, storeVars, phase, conversation, passVars, historyVars>>

\* persistSessionSnapshot.  With the snapshot taken at the exit event, which is
\* the last, the pump is done; one taken before may show the exit too.
PumpPersist(m) ==
    /\ writer[m] \in {"persist", "persist_bind"}
    /\ \/ sessions' = [sessions EXCEPT ![m] = held[m]] /\ UNCHANGED <<torn, upsets>>
       \/ WriteFails /\ UNCHANGED sessions
    /\ \E next \in {"bind", "idle", "done"} :
          /\ (next = "bind") = (writer[m] = "persist_bind")
          /\ next = "done" => held[m].state = "exited"
          /\ writer' = [writer EXCEPT ![m] = next]
          /\ held' = [held EXCEPT ![m] = IF next = "bind" THEN @ ELSE NoRow]
    /\ UNCHANGED <<disk, conversations, workspaces, phase, native, conversation,
                   passVars, clean, raced, unread>>

\* upsertConversationBinding.
PumpStoreBinding(m) ==
    /\ writer[m] = "bind"
    /\ \/ conversations' = [conversations EXCEPT ![conversation[m]] = held[m].native]
          /\ UNCHANGED <<torn, upsets>>
       \/ WriteFails /\ UNCHANGED conversations
    /\ writer' = [writer EXCEPT ![m] = "idle"]
    /\ held' = [held EXCEPT ![m] = NoRow]
    /\ UNCHANGED <<disk, sessions, workspaces, phase, native, conversation, passVars,
                   clean, raced, unread>>

-----------------------------------------------------------------------------
(* refreshHistory and reconcileHistoryRecords.                             *)

\* The adapter of the pass, and what its frame says of a session.
Current(r) == Adapters[pass[r].adapter]
Ours(r, id) == AdapterOf[id] = Current(r)
At(r, pc) == pass[r].pc = pc
Go(r, pc) == pass' = [pass EXCEPT ![r].pc = pc]
\* The frame at the deletions: locals that are dead are reset.
Deleting(frame, ids) == [frame EXCEPT !.pc = "delete", !.todo = ids \ frame.records,
                            !.records = {}, !.rows = NoRows, !.over = {}, !.plan = {}]
Done(r, id) == pass' = [pass EXCEPT ![r].todo = @ \ {id}]

\* loadPayloadMap and loadPayloadList: a query that fails, or a row that does not
\* scan or decode, shows only in what is missing.
Loads(read, all) ==
    /\ read \subseteq all
    /\ IF read = all THEN UNCHANGED upsets ELSE Upset

Stored(rows) == {id \in Ids : rows[id] # NoRow}
Seen(read) == [id \in Ids |-> IF id \in read THEN sessions[id] ELSE NoRow]

\* Only codex and opencode sessions are tied to the history they left.
Backfills(r) == Current(r) \in {"codex", "opencode"}

\* The managed sessions of the adapter in the snapshot.
ManagedRows(r) == {m \in Managed : pass[r].rows[m] # NoRow /\ Ours(r, m)}

\* Mutant: nothing keeps two passes apart.
BeginUnguarded(r) ==
    /\ At(r, "idle") /\ passes < MaxPasses
    /\ inFlight' = TRUE
    /\ passes' = passes + 1
    /\ Go(r, "discover")
    /\ raced' = raced \union Starting
    /\ UNCHANGED <<disk, storeVars, managedVars, upsets, clean, torn, unread>>

\* A request during a pass returns at once.
Begin(r) ==
    /\ At(r, "idle") /\ passes < MaxPasses
    /\ ~inFlight
    /\ inFlight' = TRUE
    /\ passes' = passes + 1
    /\ Go(r, "discover")
    /\ raced' = raced \union Starting
    /\ UNCHANGED <<disk, storeVars, managedVars, upsets, clean, torn, unread>>

\* Discover...Records returns what it could read: an error, or the end of the
\* request, shows only in what is missing.
Discover(r) ==
    /\ At(r, "discover")
    /\ LET all == {n \in disk : Ours(r, n)}
       IN  \E read \in SUBSET all :
              pass' = [pass EXCEPT ![r].records = read, ![r].whole = @ /\ read = all,
                                   ![r].todo = read, ![r].pc = "workspace"]
    /\ clean' = FALSE
    /\ UNCHANGED <<disk, storeVars, managedVars, inFlight, passes, upsets,
                   raced, torn, unread>>

\* upsertHistoryRecords: the workspace, the conversation and the session of each
\* record in turn.
UpsertWorkspace(r) ==
    /\ At(r, "workspace")
    /\ \E n \in pass[r].todo :
          /\ workspaces' = workspaces \union {StableWorkspace(n)}
          /\ pass' = [pass EXCEPT ![r].pc = "conversation", ![r].item = n]
    /\ UNCHANGED <<disk, sessions, conversations, managedVars, inFlight, passes,
                   upsets, historyVars>>

UpsertConversation(r) ==
    /\ At(r, "conversation")
    /\ conversations' = [conversations EXCEPT ![pass[r].item] = pass[r].item]
    /\ Go(r, "session")
    /\ UNCHANGED <<disk, sessions, workspaces, managedVars, inFlight, passes,
                   upsets, historyVars>>

UpsertSession(r) ==
    /\ At(r, "session")
    /\ sessions' = [sessions EXCEPT ![pass[r].item] = Discovered(pass[r].item)]
    /\ pass' = [pass EXCEPT ![r].pc = "workspace", ![r].item = None,
                            ![r].todo = @ \ {pass[r].item}]
    /\ unread' = unread \ {pass[r].item}
    /\ UNCHANGED <<disk, conversations, workspaces, managedVars, inFlight, passes,
                   upsets, clean, raced, torn>>

\* Mutant: the sessions of the other adapters are compared too.
ListAllSessions(r) ==
    /\ At(r, IF Backfills(r) THEN "match" ELSE "workspace")
    /\ pass[r].todo = {}
    /\ pass' = [pass EXCEPT ![r] = Deleting(@, {n \in Natives : sessions[n] # NoRow})]
    /\ UNCHANGED <<disk, storeVars, managedVars, inFlight, passes, upsets, historyVars>>

\* The discovered sessions that were not found are deleted.
ListSessions(r) ==
    /\ At(r, IF Backfills(r) THEN "match" ELSE "workspace")
    /\ pass[r].todo = {}
    /\ LET all == {n \in Natives : sessions[n] # NoRow /\ Ours(r, n)}
       IN  \E read \in SUBSET all :
              /\ Loads(read, all)
              /\ pass' = [pass EXCEPT ![r] =
                            [Deleting(@, read) EXCEPT !.whole = pass[r].whole /\ read = all]]
    /\ UNCHANGED <<disk, storeVars, managedVars, inFlight, passes, historyVars>>

DeleteSession(r) ==
    /\ At(r, "delete")
    /\ \E n \in pass[r].todo :
          sessions' = [sessions EXCEPT ![n] = NoRow] /\ Done(r, n)
    /\ UNCHANGED <<disk, conversations, workspaces, managedVars, inFlight, passes,
                   upsets, historyVars>>

\* A store call of the pass returns an error, and the pass with it.
PassFails(r) ==
    /\ pass[r].pc \in Writing
    /\ pass[r].todo \union pass[r].orphans # {}
    /\ At(r, "known") => \E m \in pass[r].todo : ~Live(m)
    /\ inFlight' = FALSE
    /\ pass' = [pass EXCEPT ![r] = Idle]
    /\ WriteFails
    /\ UNCHANGED <<disk, storeVars, managedVars, passes, clean, raced, unread>>

-----------------------------------------------------------------------------
(* backfillManagedHistoryRecords.                                          *)

\* The row as it was read, with the transcript's path and state.
Located(row) == [row EXCEPT !.located = TRUE, !.state = "stopped"]

\* A Snapshot: of its three reads the sessions matter here.
\* backfillManagedHistoryByNativeID looks for managed sessions bound to a native
\* conversation that was found, whose row does not say so yet.
ReadKnown(r) ==
    /\ At(r, "workspace") /\ Backfills(r)
    /\ pass[r].todo = {}
    /\ \E read \in SUBSET Stored(sessions) :
          /\ Loads(read, Stored(sessions))
          /\ pass' = [pass EXCEPT ![r].pc = "known", ![r].rows = Seen(read),
                ![r].todo = {m \in read \intersect Managed :
                   /\ Ours(r, m) /\ sessions[m].native \in pass[r].records
                   /\ PathOf[sessions[m].native] = PathOf[m]
                   /\ Located(sessions[m]) # sessions[m]}]
          /\ unread' = unread \union (Managed \intersect (Stored(sessions) \ read))
    /\ UNCHANGED <<disk, storeVars, managedVars, inFlight, passes, clean, raced, torn>>

\* A session that runs is left alone.
SkipKnown(r) ==
    /\ At(r, "known")
    /\ \E m \in pass[r].todo : Live(m) /\ Done(r, m)
    /\ UNCHANGED <<disk, storeVars, managedVars, inFlight, passes, upsets, historyVars>>

UpsertKnown(r) ==
    /\ At(r, "known")
    /\ \E m \in pass[r].todo :
          /\ ~Live(m)
          /\ sessions' = [sessions EXCEPT ![m] = Located(pass[r].rows[m])]
          /\ pass' = [pass EXCEPT ![r].pc = "known_conversation", ![r].item = m]
    /\ UNCHANGED <<disk, conversations, workspaces, managedVars, inFlight, passes,
                   upsets, historyVars>>

UpsertKnownConversation(r) ==
    /\ At(r, "known_conversation")
    /\ LET m == pass[r].item
       IN  /\ conversations' = [conversations EXCEPT ![conversation[m]] =
                                   pass[r].rows[m].native]
           /\ pass' = [pass EXCEPT ![r].pc = "known", ![r].todo = @ \ {m}, ![r].item = None]
    /\ UNCHANGED <<disk, sessions, workspaces, managedVars, inFlight, passes,
                   upsets, historyVars>>

\* A second Snapshot.  The sessions that are not live then stay so.
ReadMatch(r) ==
    /\ At(r, "known") /\ pass[r].todo = {}
    /\ \E read \in SUBSET Stored(sessions) :
          /\ Loads(read, Stored(sessions))
          /\ pass' = [pass EXCEPT ![r].pc = "plan", ![r].rows = Seen(read),
                                  ![r].over = {m \in Managed : ~Live(m)}]
          /\ unread' = unread \union (Managed \intersect (Stored(sessions) \ read))
    /\ UNCHANGED <<disk, storeVars, managedVars, inFlight, passes, clean, raced, torn>>

CanBackfill(m, n) ==
    /\ CreatedAt[n] + Skew >= CreatedAt[m]
    /\ CreatedAt[n] <= CreatedAt[m] + Window

\* In the order of CreatedAt; LastSeen and then the ID, which no two share, decide
\* between equals.
Before(x, y) == \/ CreatedAt[x] < CreatedAt[y]
                \/ CreatedAt[x] = CreatedAt[y] /\ Place[x] < Place[y]

\* The greedy matching: in each workspace each session takes the first candidate
\* that fits, after those that the sessions before it took.
IsGreedy(pairs, managed, candidates) ==
    \A m \in managed :
        LET fits == {n \in candidates :
                        /\ PathOf[n] = PathOf[m] /\ CanBackfill(m, n)
                        /\ \A pair \in pairs :
                              PathOf[pair[1]] = PathOf[m] /\ Before(pair[1], m)
                                  => Before(pair[2], n)}
        IN  {n \in candidates : <<m, n>> \in pairs} =
                {n \in fits : \A c \in fits \ {n} : Before(n, c)}

\* The native IDs that sessions of the snapshot are bound to.
Used(r) == {pass[r].rows[m].native : m \in ManagedRows(r)}

\* Mutant: candidates in use are offered again.
CandidatesInUse(r) == pass[r].records

Candidates(r) == pass[r].records \ Used(r)

\* Mutant: sessions that still run are matched too.
UnmatchedLive(r, live) == {m \in ManagedRows(r) : pass[r].rows[m].native = None}

Unmatched(r, live) ==
    {m \in ManagedRows(r) : pass[r].rows[m].native = None /\ m \notin live}

\* The live sessions are asked for one by one: one that exits meanwhile may be
\* found live or not.
Plan(r) ==
    /\ At(r, "plan")
    /\ \E live \in SUBSET (Managed \ pass[r].over) :
          /\ {m \in Managed : Live(m)} \subseteq live
          /\ \E pairs \in SUBSET (Unmatched(r, live) \X Candidates(r)) :
                /\ IsGreedy(pairs, Unmatched(r, live), Candidates(r))
                /\ pass' = [pass EXCEPT ![r].pc = "match", ![r].plan = pairs,
                                        ![r].todo = {pair[1] : pair \in pairs}]
    /\ UNCHANGED <<disk, storeVars, managedVars, inFlight, passes, upsets, historyVars>>

Partner(r, m) == (CHOOSE pair \in pass[r].plan : pair[1] = m)[2]

\* In a workspace the sessions are written in the order they were matched.
UpsertMatched(r) ==
    /\ At(r, "match")
    /\ \E m \in pass[r].todo :
          /\ \A o \in pass[r].todo : PathOf[o] = PathOf[m] => CreatedAt[m] <= CreatedAt[o]
          /\ sessions' = [sessions EXCEPT ![m] =
                             [Located(pass[r].rows[m]) EXCEPT !.native = Partner(r, m),
                                                              !.matched = TRUE]]
          /\ pass' = [pass EXCEPT ![r].pc = "match_conversation", ![r].item = m]
    /\ UNCHANGED <<disk, conversations, workspaces, managedVars, inFlight, passes,
                   upsets, historyVars>>

\* Mutant: the conversation is written back as it was read.
UpsertMatchedAsRead(r) ==
    /\ At(r, "match_conversation")
    /\ pass' = [pass EXCEPT ![r].pc = "match", ![r].todo = @ \ {pass[r].item},
                            ![r].item = None]
    /\ UNCHANGED <<disk, storeVars, managedVars, inFlight, passes, upsets, historyVars>>

UpsertMatchedConversation(r) ==
    /\ At(r, "match_conversation")
    /\ LET m == pass[r].item
       IN  /\ conversations' = [conversations EXCEPT ![conversation[m]] = Partner(r, m)]
           /\ pass' = [pass EXCEPT ![r].pc = "match", ![r].todo = @ \ {m}, ![r].item = None]
    /\ UNCHANGED <<disk, sessions, workspaces, managedVars, inFlight, passes,
                   upsets, historyVars>>

-----------------------------------------------------------------------------
(* pruneOrphanHistoryEntries.                                              *)

\* Mutant: the conversation is taken to have the session's ID.
OwnConversation(id) == id

\* What the sessions of the snapshot refer to.
ConversationOf(id) == IF id \in Managed THEN conversation[id] ELSE id
WorkspaceOf(id) == IF id \in Managed THEN id ELSE StableWorkspace(id)

ReadReferences(r) ==
    /\ At(r, "delete") /\ pass[r].todo = {}
    /\ \E read \in SUBSET Stored(sessions) :
          /\ Loads(read, Stored(sessions))
          /\ pass' = [pass EXCEPT ![r].pc = "read_orphan_workspaces", ![r].rows = Seen(read)]
          /\ unread' = unread \union (Stored(sessions) \ read)
    /\ UNCHANGED <<disk, storeVars, managedVars, inFlight, passes, clean, raced, torn>>

ReadOrphanWorkspaces(r) ==
    /\ At(r, "read_orphan_workspaces")
    /\ \E read \in SUBSET workspaces :
          /\ Loads(read, workspaces)
          /\ pass' = [pass EXCEPT ![r].pc = "read_orphan_conversations",
                ![r].orphans = read \ {WorkspaceOf(id) : id \in Stored(pass[r].rows)}]
    /\ UNCHANGED <<disk, storeVars, managedVars, inFlight, passes, historyVars>>

ReadOrphanConversations(r) ==
    /\ At(r, "read_orphan_conversations")
    /\ LET all == {c \in ConversationIds : conversations[c] # Absent}
       IN  \E read \in SUBSET all :
              /\ Loads(read, all)
              /\ pass' = [pass EXCEPT ![r].pc = "delete_conversation", ![r].rows = NoRows,
                    ![r].todo = read \ {ConversationOf(id) : id \in Stored(pass[r].rows)}]
    /\ UNCHANGED <<disk, storeVars, managedVars, inFlight, passes, historyVars>>

DeleteConversation(r) ==
    /\ At(r, "delete_conversation")
    /\ \E c \in pass[r].todo :
          conversations' = [conversations EXCEPT ![c] = Absent] /\ Done(r, c)
    /\ UNCHANGED <<disk, sessions, workspaces, managedVars, inFlight, passes,
                   upsets, historyVars>>

DeleteWorkspace(r) ==
    /\ At(r, "delete_conversation") /\ pass[r].todo = {}
    /\ \E w \in pass[r].orphans :
          /\ workspaces' = workspaces \ {w}
          /\ pass' = [pass EXCEPT ![r].orphans = @ \ {w}]
    /\ UNCHANGED <<disk, sessions, conversations, managedVars, inFlight, passes,
                   upsets, historyVars>>

PruneDone(r) ==
    At(r, "delete_conversation") /\ pass[r].todo = {} /\ pass[r].orphans = {}

\* The next adapter, or the end of the pass.
NextAdapter(r) ==
    /\ PruneDone(r)
    /\ pass[r].adapter < Len(Adapters)
    /\ pass' = [pass EXCEPT ![r] = [Idle EXCEPT !.pc = "discover", !.whole = pass[r].whole,
                                                !.adapter = pass[r].adapter + 1]]
    /\ UNCHANGED <<disk, storeVars, managedVars, inFlight, passes, upsets, historyVars>>

PassEnds(r) ==
    /\ PruneDone(r)
    /\ pass[r].adapter = Len(Adapters)
    /\ inFlight' = FALSE
    /\ clean' = pass[r].whole
    /\ pass' = [pass EXCEPT ![r] = Idle]
    /\ UNCHANGED <<disk, storeVars, managedVars, passes, upsets, raced, torn, unread>>

-----------------------------------------------------------------------------
(* The environment, and the next-state relation.                           *)

\* An agent leaves a native conversation behind, or one is archived.
HistoryChanges(n) ==
    /\ Upset
    /\ disk' = IF n \in disk THEN disk \ {n} ELSE disk \union {n}
    /\ clean' = FALSE
    /\ pass' = [r \in Refreshers |-> [pass[r] EXCEPT !.whole = pass[r].pc = "idle"]]
    /\ UNCHANGED <<storeVars, managedVars, inFlight, passes, raced, torn, unread>>

\* The program stops at any point and starts again: the catalog is what is left.
Restart ==
    /\ Upset
    /\ phase' = [m \in Managed |-> IF phase[m] = "new" THEN "new" ELSE "gone"]
    /\ writer' = [m \in Managed |-> IF phase[m] = "new" THEN "off" ELSE "done"]
    /\ held' = [m \in Managed |-> NoRow]
    /\ inFlight' = FALSE
    /\ pass' = [r \in Refreshers |-> Idle]
    /\ torn' = TRUE
    /\ UNCHANGED <<disk, storeVars, native, conversation, passes, clean, raced, unread>>

ManagedStep(m) ==
    \/ Start(m, None, None)
    \/ \E n \in Resumable(m) : Start(m, n, n) \/ Start(m, n, None)
    \/ StoreWorkspace(m) \/ StoreConversation(m) \/ StoreSession(m) \/ StartFails(m)
    \/ Exit(m) \/ PumpSnapshot(m) \/ PumpPersist(m) \/ PumpStoreBinding(m)
    \/ \E n \in Resumable(m) : PumpBind(m, n)

PassStep(r) ==
    \/ Discover(r) \/ UpsertWorkspace(r) \/ UpsertConversation(r) \/ UpsertSession(r)
    \/ ReadKnown(r) \/ SkipKnown(r) \/ UpsertKnown(r) \/ UpsertKnownConversation(r)
    \/ ReadMatch(r) \/ Plan(r) \/ UpsertMatched(r) \/ UpsertMatchedConversation(r)
    \/ ListSessions(r) \/ DeleteSession(r)
    \/ ReadReferences(r) \/ ReadOrphanWorkspaces(r) \/ ReadOrphanConversations(r)
    \/ DeleteConversation(r) \/ DeleteWorkspace(r)
    \/ NextAdapter(r) \/ PassEnds(r) \/ PassFails(r)

Next ==
    \/ \E m \in Managed : ManagedStep(m)
    \/ \E r \in Refreshers : Begin(r) \/ PassStep(r)
    \/ \E n \in Natives : HistoryChanges(n)
    \/ Restart

Spec == Init /\ [][Next]_vars

-----------------------------------------------------------------------------
(* Properties.                                                             *)

\* The range of the tables, of the sessions in memory and of the frames.
TypeOK ==
    /\ disk \subseteq Natives
    /\ sessions \in [Ids -> Rows]
    /\ conversations \in [ConversationIds -> Natives \union {None, Absent}]
    /\ workspaces \subseteq WorkspaceIds
    /\ phase \in [Managed -> {"new", "live", "exited", "gone"}]
    /\ native \in [Managed -> Natives \union {None}]
    /\ conversation \in [Managed -> ConversationIds]
    /\ held \in [Managed -> Rows]
    /\ inFlight \in BOOLEAN /\ pass \in [Refreshers -> Frame]
    /\ clean \in BOOLEAN /\ raced \subseteq Managed /\ torn \in BOOLEAN
    /\ unread \subseteq Ids

\* The row of a discovered session never refers to a conversation or workspace
\* that is not there, whichever write of a pass failed and whoever else called
\* refreshHistory meanwhile; unless the read of the sessions that a prune compares
\* left this one out, until a pass finds it again and writes all three rows anew.
DiscoveredComplete ==
    \A n \in Natives \ unread : sessions[n] # NoRow =>
        conversations[n] # Absent /\ StableWorkspace(n) \in workspaces

\* historyRefreshInFlight is set while one pass runs and no longer, however the
\* pass ends: no failure keeps later requests from refreshing.
RefreshNotStuck ==
    Cardinality({r \in Refreshers : ~At(r, "idle")}) = IF inFlight THEN 1 ELSE 0

\* After a pass that ended well, with no read of the history or of the rows it
\* compares cut short, over a history that did not change, the catalog has the
\* discovered sessions of that history and no other.
PassReflectsHistory ==
    ~inFlight /\ clean =>
        \A n \in Natives : (\E i \in 1..Len(Adapters) : Adapters[i] = AdapterOf[n]) =>
            (sessions[n] # NoRow <=> n \in disk)

\* One pass runs at a time and none keeps later ones out, and each that ends well
\* leaves the catalog as the history is.
RefreshIsSound == RefreshNotStuck /\ PassReflectsHistory

\* While a session runs its row is only ever a copy of itself: the pass, which
\* writes rows as it read them some calls ago, keeps off it.
LiveRowIsOwn ==
    \A m \in Managed : Live(m) /\ sessions[m] # NoRow => ~sessions[m].located

\* The guesses of the matching by time never give one native conversation to
\* two sessions, over however many passes, while pumps still write, unless the
\* rows that a matching compares leave one of them out.
MatchedOnce ==
    \A m, o \in Managed \ unread :
        /\ m # o /\ NoRow \notin {sessions[m], sessions[o]}
        /\ sessions[m].matched /\ sessions[o].matched
        => sessions[m].native # sessions[o].native

\* The rows a stored session refers to are there.
Complete(m) ==
    sessions[m] # NoRow => m \in workspaces /\ conversations[conversation[m]] # Absent

\* Pruning spares what sessions refer to, if their start overlapped no pass and
\* no pass read the sessions without them.
PruneSparesReferenced == \A m \in Managed \ (raced \union unread) : Complete(m)

\* Once a pass is over, with no write that failed, a finished session that was
\* tied to its native conversation has a conversation row that names the same
\* one, unless another session was started with the same conversation ID or a
\* pass read the sessions without this one.
MappingAgrees ==
    ~inFlight /\ ~torn =>
        \A m \in Managed \ (raced \union unread) :
            /\ writer[m] = "done" /\ sessions[m].located
            /\ \A o \in Managed \ {m} : conversation[o] # conversation[m]
            => conversations[conversation[m]] = sessions[m].native

\* PRD.md:21 "Preserve mappings between sessions, native conversations,
\* workspaces, and source locators".
MappingsPreserved == \A m \in Managed : Complete(m)

\* docs/zh-CN/PRD.md:239: as long as the local history exists, it is listed.
HistoryStaysListed ==
    [][\A n \in disk : sessions[n] # NoRow => sessions'[n] # NoRow \/ n \notin disk']_vars
=============================================================================
