---------------------------- MODULE CatalogProofs ----------------------------
(***************************************************************************)
(* What the catalog holds of discovered and of running sessions, for any   *)
(* history, adapters, sessions, requests and failures.                     *)
(***************************************************************************)
EXTENDS Catalog, FiniteSetTheorems, TLAPS

-----------------------------------------------------------------------------
(* Typing.                                                                 *)

Upserting == {"workspace", "conversation", "session"}
Matching  == {"known", "known_conversation", "plan", "match", "match_conversation"}
Pruning   == {"read_orphan_workspaces", "read_orphan_conversations", "delete_conversation"}
Stages    == {"idle", "discover", "delete"} \union Upserting \union Matching \union Pruning

Frames == [pc : Stages, adapter : Nat, records : SUBSET Natives, whole : BOOLEAN,
           todo : SUBSET ConversationIds, item : Ids \union {None}, rows : [Ids -> Rows],
           over : SUBSET Managed, plan : SUBSET (Managed \X Natives),
           orphans : SUBSET WorkspaceIds]

Phases  == {"new", "live", "exited", "gone"}
Writers == {"off", "workspace", "conversation", "session", "failed", "idle", "persist",
            "persist_bind", "bind", "done"}
NativeOrNone == Natives \union {None}

TypeInv ==
    /\ disk \in SUBSET Natives /\ sessions \in [Ids -> Rows]
    /\ conversations \in [ConversationIds -> NativeOrNone \union {Absent}]
    /\ workspaces \in SUBSET WorkspaceIds
    /\ phase \in [Managed -> Phases] /\ native \in [Managed -> NativeOrNone]
    /\ writer \in [Managed -> Writers] /\ held \in [Managed -> Rows]
    /\ inFlight \in BOOLEAN /\ clean \in BOOLEAN
    /\ pass \in [Refreshers -> Frames]

-----------------------------------------------------------------------------
(* The invariant, by who may break it.                                     *)

\* A session that clients may still start has no row, and no running session
\* has, or is about to write, one with the path of a transcript.
MemoryInv ==
    \A m \in Managed :
        /\ phase[m] = "new" => sessions[m] = NoRow /\ writer[m] = "off"
        /\ ~held[m].located
        /\ phase[m] = "live" => ~sessions[m].located

\* One pass at a time.
OnePass ==
    /\ \A r, o \in Refreshers : ~At(r, "idle") /\ ~At(o, "idle") => r = o
    /\ inFlight <=> \E r \in Refreshers : ~At(r, "idle")
    /\ \A r \in Refreshers : At(r, "idle") => pass[r].adapter = 1

Over(m) == phase[m] \in {"exited", "gone"}
Has(n) == sessions[n] # NoRow
Planned(frame) == {pair[1] : pair \in frame.plan}

\* What the locals of a pass say of the tables, at each of its stages.
Upserts(r) ==
    /\ pass[r].pc \in Upserting =>
          /\ pass[r].todo \subseteq pass[r].records
          /\ \A n \in pass[r].records : Ours(r, n)
    /\ pass[r].pc \in {"conversation", "session"} =>
          pass[r].item \in pass[r].todo /\ StableWorkspace(pass[r].item) \in workspaces
    /\ pass[r].pc = "session" => conversations[pass[r].item] # Absent

Matches(r) ==
    /\ pass[r].pc \in {"known", "known_conversation"} =>
          pass[r].todo \subseteq {m \in Managed : phase[m] # "new"}
    /\ pass[r].pc = "plan" =>
          \A m \in Managed : pass[r].rows[m] # NoRow =>
              phase[m] # "new" /\ (m \in pass[r].over => Over(m))
    /\ pass[r].pc \in {"match", "match_conversation"} =>
          pass[r].todo \subseteq {m \in Planned(pass[r]) : Over(m)}
    /\ pass[r].pc = "known_conversation" => pass[r].item \in Managed
    /\ pass[r].pc = "match_conversation" => pass[r].item \in Planned(pass[r])

Prunes(r) ==
    /\ pass[r].pc = "delete" => \A n \in pass[r].todo : n \in Natives /\ Ours(r, n)
    /\ pass[r].pc \in {"read_orphan_workspaces", "read_orphan_conversations"} =>
          \A n \in Natives \ unread : pass[r].rows[n] = sessions[n]
    /\ pass[r].pc \in {"read_orphan_conversations", "delete_conversation"} =>
          \A n \in Natives \ unread : Has(n) => StableWorkspace(n) \notin pass[r].orphans
    /\ pass[r].pc = "delete_conversation" =>
          \A n \in Natives \ unread : Has(n) => n \notin pass[r].todo

\* How far the catalog is as the history is.
Reflects(adapter) == \A n \in Natives : AdapterOf[n] = adapter => (Has(n) <=> n \in disk)

Reached(r) ==
    /\ pass[r].pc \notin {"idle", "discover"} => ~clean
    /\ pass[r].pc # "idle" /\ pass[r].whole =>
          \A i \in 1..Len(Adapters) : i < pass[r].adapter => Reflects(Adapters[i])
    /\ pass[r].whole /\ pass[r].pc \in Upserting \union Matching =>
          /\ \A n \in Natives : Ours(r, n) => (n \in disk <=> n \in pass[r].records)
          /\ \A n \in pass[r].records :
                Has(n) \/ (pass[r].pc \in Upserting /\ n \in pass[r].todo)
    /\ pass[r].whole /\ pass[r].pc = "delete" =>
          \A n \in Natives : Ours(r, n) =>
              /\ n \in disk => Has(n) /\ n \notin pass[r].todo
              /\ Has(n) => n \in disk \/ n \in pass[r].todo
    /\ pass[r].whole /\ pass[r].pc \in Pruning => Reflects(Current(r))

CleanInv == clean => \A i \in 1..Len(Adapters) : Reflects(Adapters[i])

Local(r) == Upserts(r) /\ Matches(r) /\ Prunes(r) /\ Reached(r)

IInv ==
    /\ TypeInv /\ MemoryInv /\ DiscoveredComplete /\ OnePass /\ CleanInv
    /\ \A r \in Refreshers : Local(r)

-----------------------------------------------------------------------------
(* Rows, IDs and frames.                                                   *)

LEMMA IdsApart ==
    /\ Natives \subseteq Ids /\ Managed \subseteq Ids /\ Ids \subseteq ConversationIds
    /\ \A n \in Natives : n \notin Managed /\ n # None /\ n # Absent
    /\ \A m \in Managed : m # None
    /\ None # Absent /\ Absent \notin NativeOrNone
    /\ \A n \in Natives : StableWorkspace(n) \in WorkspaceIds
    /\ Managed \subseteq WorkspaceIds
  BY IdsAssumption DEF Ids, ConversationIds, None, Absent, NativeOrNone, WorkspaceIds

LEMMA RowShapes ==
    /\ NoRow \in Rows /\ ~NoRow.located /\ NoRow.native = None
    /\ \A n \in Natives : Discovered(n) \in Rows /\ Discovered(n) # NoRow
    /\ \A x \in NativeOrNone, live \in BOOLEAN : Copy(x, live) \in Rows /\ ~Copy(x, live).located
    /\ \A row \in Rows : row.native \in NativeOrNone /\ Located(row) \in Rows
  BY DEF Rows, NoRow, Discovered, Copy, Located, NativeOrNone

LEMMA IdleFrame == Idle \in Frames /\ Idle.pc = "idle" /\ Idle.adapter = 1
  BY RowShapes DEF Idle, Frames, Stages, NoRows

LEMMA PlannedManaged == \A frame \in Frames : Planned(frame) \subseteq Managed
  BY DEF Frames, Planned

\* What a read of the sessions returns of each row.
LEMMA SeenRows ==
    ASSUME TypeInv, NEW read \in SUBSET Stored(sessions)
    PROVE  /\ Seen(read) \in [Ids -> Rows]
           /\ \A id \in Ids : Seen(read)[id] \in {sessions[id], NoRow}
           /\ \A id \in Ids \ (Stored(sessions) \ read) : Seen(read)[id] = sessions[id]
           /\ \A id \in Ids : id \in read <=> Seen(read)[id] # NoRow
  BY RowShapes DEF TypeInv, Seen, Stored

\* An idle refresher has no locals to speak of.
LEMMA IdleLocal == ASSUME NEW r \in Refreshers, At(r, "idle") PROVE Local(r)
  BY DEF At, Local, Upserts, Matches, Prunes, Reached, Upserting, Matching, Pruning

LEMMA CatalogInit == Init => IInv
<1> SUFFICES ASSUME Init PROVE IInv
  OBVIOUS
<1> USE IdsApart, RowShapes, IdleFrame
<1>1. Earlier \subseteq Managed
  BY IdsAssumption
<1>2. native \in [Managed -> NativeOrNone] /\ disk \in SUBSET Natives
  BY DEF Init, NativeOrNone
<1>3. sessions \in [Ids -> Rows]
  BY <1>1, <1>2 DEF Init
<1>4. conversations \in [ConversationIds -> NativeOrNone \union {Absent}]
  BY <1>1, <1>2 DEF Init
<1>5. /\ workspaces \in SUBSET WorkspaceIds /\ phase \in [Managed -> Phases]
      /\ writer \in [Managed -> Writers] /\ held \in [Managed -> Rows]
      /\ pass \in [Refreshers -> Frames]
  BY <1>1 DEF Init, Phases, Writers
<1>6. TypeInv
  BY <1>2, <1>3, <1>4, <1>5 DEF Init, TypeInv
<1>7. MemoryInv
  BY <1>1, <1>2 DEF Init, MemoryInv
<1>8. DiscoveredComplete
  BY <1>1 DEF Init, DiscoveredComplete
<1>9. \A r \in Refreshers : At(r, "idle")
  BY DEF Init, At
<1>10. OnePass /\ CleanInv
  BY <1>9 DEF Init, OnePass, CleanInv
<1>11. QED
  BY <1>6, <1>7, <1>8, <1>9, <1>10, IdleLocal DEF IInv

-----------------------------------------------------------------------------
\* Steps that leave the passes, the history and the discovered rows alone, and
\* take nothing away from what is stored.
Apart ==
    /\ UNCHANGED <<disk, inFlight, pass, clean, unread>>
    /\ \A n \in Natives : sessions'[n] = sessions[n]
    /\ workspaces \subseteq workspaces'
    /\ \A c \in ConversationIds : conversations[c] # Absent => conversations'[c] # Absent
    /\ \A m \in Managed : (phase[m] # "new" => phase'[m] # "new") /\ (Over(m) => Over(m)')

LEMMA ApartKeeps ==
    ASSUME IInv, Apart, TypeInv', MemoryInv'
    PROVE  IInv'
<1> USE IdsApart
<1>1. DiscoveredComplete'
  BY DEF IInv, Apart, DiscoveredComplete
<1>2. \A a : Reflects(a)' <=> Reflects(a)
  BY DEF Apart, Reflects, Has
<1>3. OnePass' /\ CleanInv'
  BY <1>2 DEF IInv, Apart, OnePass, At, CleanInv
<1>4. ASSUME NEW r \in Refreshers PROVE Local(r)'
  <2>1. Upserts(r)'
    <3>1. pass[r] \in Frames /\ Upserts(r)
      BY <1>4 DEF IInv, TypeInv, Local
    <3>2. pass[r].pc \in {"conversation", "session"} => pass[r].item \in ConversationIds
      BY <3>1 DEF Upserts, Frames
    <3>3. QED
      BY <3>1, <3>2 DEF Apart, Upserts, Ours, Current
  <2>2. Matches(r)'
    <3>1. Matches(r) /\ Planned(pass[r]) \subseteq Managed /\ UNCHANGED pass
      BY <1>4, PlannedManaged DEF IInv, TypeInv, Local, Apart
    <3>2. \A m \in Managed : (phase[m] # "new" => phase'[m] # "new") /\ (Over(m) => Over(m)')
      BY DEF Apart
    <3>3. QED
      BY <3>1, <3>2 DEF Matches, Planned
  <2>3. Prunes(r)'
    BY <1>4 DEF IInv, Local, Apart, Prunes, Has, Ours, Current
  <2>4. Reached(r)'
    <3>1. Reached(r) /\ pass[r].records \subseteq Natives /\ UNCHANGED <<pass, disk, clean>>
      BY <1>4 DEF IInv, TypeInv, Frames, Local, Apart
    <3>2. \A n \in Natives : Has(n)' <=> Has(n)
      BY DEF Apart, Has
    <3>3. \A n : Ours(r, n)' <=> Ours(r, n)
      BY <3>1 DEF Ours, Current
    <3>4. Current(r)' = Current(r)
      BY <3>1 DEF Current
    <3>5. QED
      BY <1>2, <3>1, <3>2, <3>3, <3>4 DEF Reached
  <2>5. QED
    BY <2>1, <2>2, <2>3, <2>4 DEF Local
<1>5. QED
  BY <1>1, <1>3, <1>4 DEF IInv

\* handleStartSession, the runtime and the pump.
LEMMA ManagedKeeps == ASSUME IInv, NEW m \in Managed, ManagedStep(m) PROVE IInv'
<1> USE IdsApart, RowShapes DEF storeVars, managedVars, passVars, historyVars
<1>1. TypeInv /\ MemoryInv /\ m \in Ids /\ held[m] \in Rows
  BY DEF IInv, TypeInv
<1>2. Live(m) \in BOOLEAN
  BY DEF Live
<1>3. ASSUME NEW named, NEW resumed \in NativeOrNone, Start(m, named, resumed)
      PROVE  IInv'
  <2>1. /\ phase[m] = "new" /\ phase' = [phase EXCEPT ![m] = "live"]
        /\ native' = [native EXCEPT ![m] = resumed]
        /\ writer' = [writer EXCEPT ![m] = "workspace"]
        /\ held' = [held EXCEPT ![m] = Copy(resumed, TRUE)]
        /\ UNCHANGED <<disk, storeVars, passVars, clean, unread>>
    BY <1>3 DEF Start
  <2>2. TypeInv'
    BY <1>1, <2>1 DEF TypeInv, Phases, Writers
  <2>3. MemoryInv'
    BY <1>1, <2>1 DEF TypeInv, MemoryInv
  <2>4. Apart
    BY <1>1, <2>1 DEF TypeInv, Apart, Over
  <2>5. QED
    BY <2>2, <2>3, <2>4, ApartKeeps
<1>4. CASE StoreWorkspace(m)
  <2>1. /\ writer[m] = "workspace" /\ workspaces' = workspaces \union {m}
        /\ writer' = [writer EXCEPT ![m] = "conversation"]
        /\ UNCHANGED <<disk, sessions, conversations, phase, native, held, passVars, clean, unread>>
    BY <1>4 DEF StoreWorkspace
  <2>2. TypeInv'
    BY <1>1, <2>1 DEF TypeInv, Writers
  <2>3. MemoryInv'
    BY <1>1, <2>1 DEF TypeInv, MemoryInv
  <2>4. Apart
    BY <2>1 DEF Apart, Over
  <2>5. QED
    BY <2>2, <2>3, <2>4, ApartKeeps
<1>5. ASSUME NEW next \in Writers, writer[m] # "off",
             writer' = [writer EXCEPT ![m] = next],
             conversations' \in {conversations,
                                 [conversations EXCEPT ![conversation[m]] = held[m].native]},
             held' \in {held, [held EXCEPT ![m] = NoRow]},
             UNCHANGED <<disk, sessions, workspaces, phase, native, passVars, clean, unread>>
      PROVE  IInv'
  <2>1. held[m].native \in NativeOrNone
    BY <1>1
  <2>2. TypeInv'
    BY <1>1, <1>5, <2>1 DEF TypeInv
  <2>3. MemoryInv'
    BY <1>1, <1>5 DEF TypeInv, MemoryInv
  <2>4. Apart
    BY <1>1, <1>5, <2>1 DEF TypeInv, Apart, Over
  <2>5. QED
    BY <2>2, <2>3, <2>4, ApartKeeps
<1>6. ASSUME NEW next \in Writers, writer[m] # "off",
             writer' = [writer EXCEPT ![m] = next],
             sessions' \in {sessions, [sessions EXCEPT ![m] = held[m]]},
             held' \in {held, [held EXCEPT ![m] = NoRow]},
             UNCHANGED <<disk, conversations, workspaces, phase, native, passVars, clean, unread>>
      PROVE  IInv'
  <2>1. TypeInv'
    BY <1>1, <1>6 DEF TypeInv
  <2>2. MemoryInv'
    BY <1>1, <1>6 DEF TypeInv, MemoryInv
  <2>3. Apart
    BY <1>1, <1>6 DEF TypeInv, Apart, Over
  <2>4. QED
    BY <2>1, <2>2, <2>3, ApartKeeps
<1>7. ASSUME NEW next \in Writers, writer[m] # "off", NEW x \in NativeOrNone,
             writer' = [writer EXCEPT ![m] = next],
             native' \in {native, [native EXCEPT ![m] = x]},
             held' = [held EXCEPT ![m] = Copy(x, Live(m))],
             UNCHANGED <<disk, storeVars, phase, passVars, clean, unread>>
      PROVE  IInv'
  <2>1. TypeInv'
    BY <1>1, <1>2, <1>7 DEF TypeInv
  <2>2. MemoryInv'
    BY <1>1, <1>2, <1>7 DEF TypeInv, MemoryInv
  <2>3. Apart
    BY <1>7 DEF Apart, Over
  <2>4. QED
    BY <2>1, <2>2, <2>3, ApartKeeps
<1>8. CASE StoreConversation(m)
  BY <1>5, <1>8 DEF StoreConversation, Writers
<1>9. CASE StoreSession(m)
  BY <1>6, <1>9 DEF StoreSession, Writers
<1>10. CASE StartFails(m)
  BY <1>5, <1>10 DEF StartFails, WriteFails, Starting, Writers
<1>11. CASE Exit(m)
  <2>1. /\ phase[m] = "live" /\ phase' = [phase EXCEPT ![m] = "exited"]
        /\ UNCHANGED <<disk, storeVars, native, writer, held, passVars, clean, unread>>
    BY <1>11 DEF Exit, Live
  <2>2. TypeInv' /\ MemoryInv' /\ Apart
    BY <1>1, <2>1 DEF TypeInv, Phases, MemoryInv, Apart, Over
  <2>3. QED
    BY <2>2, ApartKeeps
<1>12. CASE PumpSnapshot(m)
  <2>1. native[m] \in NativeOrNone
    BY <1>1 DEF TypeInv
  <2>2. QED
    BY <1>7, <1>12, <2>1 DEF PumpSnapshot, Writers
<1>13. CASE PumpPersist(m)
  <2>1. PICK next \in {"bind", "done", "idle"} :
           /\ writer' = [writer EXCEPT ![m] = next]
           /\ held' = [held EXCEPT ![m] = IF next = "bind" THEN held[m] ELSE NoRow]
    BY <1>13 DEF PumpPersist
  <2>2. held' = held \/ held' = [held EXCEPT ![m] = NoRow]
    BY <1>1, <2>1 DEF TypeInv
  <2>3. QED
    BY <1>6, <1>13, <2>1, <2>2 DEF PumpPersist, WriteFails, Writers
<1>14. CASE PumpStoreBinding(m)
  BY <1>5, <1>14 DEF PumpStoreBinding, WriteFails, Writers
<1>15. ASSUME NEW n \in Resumable(m), PumpBind(m, n)
       PROVE  IInv'
  BY <1>7, <1>15 DEF PumpBind, Writers, Resumable, NativeOrNone
<1>16. QED
  BY <1>3, <1>4, <1>8, <1>9, <1>10, <1>11, <1>12, <1>13, <1>14, <1>15
     DEF ManagedStep, Resumable, NativeOrNone

-----------------------------------------------------------------------------
\* A step of the pass that runs, in terms of what it does to its own frame: no
\* other refresher has locals.
LEMMA PassMoves ==
    ASSUME IInv, NEW r \in Refreshers, ~At(r, "idle"), pass'[r].pc # "idle",
           \A o \in Refreshers \ {r} : pass'[o] = pass[o], UNCHANGED inFlight,
           TypeInv', MemoryInv', DiscoveredComplete', CleanInv', Local(r)'
    PROVE  IInv'
<1>1. \A o \in Refreshers \ {r} : At(o, "idle")'
  BY DEF IInv, OnePass, At
<1>2. \A o \in Refreshers : Local(o)'
  <2> SUFFICES ASSUME NEW o \in Refreshers, o # r, At(o, "idle")' PROVE Local(o)'
    BY <1>1
  <2>1. QED
    BY DEF At, Local, Upserts, Matches, Prunes, Reached, Upserting, Matching, Pruning
<1>3. OnePass'
  BY <1>1 DEF IInv, OnePass, At
<1>4. QED
  BY <1>2, <1>3 DEF IInv

\* A step of the pass that writes nothing.
LEMMA PassReads ==
    ASSUME IInv, NEW r \in Refreshers, ~At(r, "idle"), pass'[r] \in Frames,
           pass'[r].pc # "idle", pass' = [pass EXCEPT ![r] = pass'[r]],
           UNCHANGED <<disk, storeVars, managedVars, inFlight>>, unread \subseteq unread',
           clean' = clean \/ clean' = FALSE, Local(r)'
    PROVE  IInv'
<1> USE DEF storeVars, managedVars
<1>1. TypeInv' /\ \A o \in Refreshers \ {r} : pass'[o] = pass[o]
  BY DEF IInv, TypeInv
<1>2. MemoryInv' /\ DiscoveredComplete' /\ CleanInv'
  BY DEF IInv, MemoryInv, DiscoveredComplete, CleanInv, Reflects, Has
<1>3. QED
  BY <1>1, <1>2, PassMoves

\* The steps to the upserts, and the upserts.
LEMMA DiscoverKeeps == ASSUME IInv, NEW r \in Refreshers, Discover(r) PROVE IInv'
<1> USE IdsApart DEF storeVars, managedVars, passVars
<1>1. PICK read \in SUBSET {n \in disk : Ours(r, n)} :
         pass' = [pass EXCEPT ![r].records = read,
                              ![r].whole = @ /\ read = {n \in disk : Ours(r, n)},
                              ![r].todo = read, ![r].pc = "workspace"]
  BY DEF Discover
<1>2. /\ pass[r] \in Frames /\ disk \subseteq Natives /\ pass \in [Refreshers -> Frames]
      /\ pass[r].pc = "discover" /\ Reached(r)
      /\ UNCHANGED <<disk, storeVars, managedVars, inFlight, unread>> /\ clean' = FALSE
  BY DEF Discover, At, IInv, TypeInv, Local
<1>3. /\ pass'[r] \in Frames /\ pass' = [pass EXCEPT ![r] = pass'[r]]
      /\ pass'[r].pc = "workspace" /\ pass'[r].records = read /\ pass'[r].todo = read
      /\ pass'[r].adapter = pass[r].adapter
      /\ pass'[r].whole => pass[r].whole /\ read = {n \in disk : Ours(r, n)}
  BY <1>1, <1>2 DEF Frames, Stages, Upserting
<1>4. \A n : Ours(r, n)' <=> Ours(r, n)
  BY <1>3 DEF Ours, Current
<1>5. \A a : Reflects(a)' <=> Reflects(a)
  BY <1>2 DEF Reflects, Has
<1>6. Upserts(r)' /\ Matches(r)' /\ Prunes(r)'
  BY <1>3, <1>4 DEF Upserts, Matches, Prunes, Upserting
<1>7. Reached(r)'
  <2>1. pass'[r].whole => \A i \in 1..Len(Adapters) : i < pass'[r].adapter => Reflects(Adapters[i])'
    BY <1>2, <1>3, <1>5 DEF Reached
  <2>2. pass'[r].whole => \A n \in Natives : Ours(r, n)' => (n \in disk' <=> n \in pass'[r].records)
    BY <1>2, <1>3, <1>4
  <2>3. QED
    BY <1>2, <1>3, <2>1, <2>2 DEF Reached, Upserting, Pruning
<1>8. QED
  BY <1>2, <1>3, <1>6, <1>7, PassReads DEF At, Local

LEMMA UpsertsKeep ==
    ASSUME IInv, NEW r \in Refreshers, UpsertWorkspace(r) \/ UpsertConversation(r) \/ UpsertSession(r)
    PROVE  IInv'
<1> USE IdsApart, RowShapes DEF storeVars, managedVars, passVars, historyVars
<1>1. /\ TypeInv /\ MemoryInv /\ DiscoveredComplete /\ Upserts(r) /\ Reached(r) /\ CleanInv
      /\ pass[r] \in Frames /\ pass \in [Refreshers -> Frames] /\ ~At(r, "idle")
  BY DEF IInv, TypeInv, Local, UpsertWorkspace, UpsertConversation, UpsertSession, At
<1>2. pass[r].records \subseteq Natives
  BY <1>1 DEF Frames
<1>3. CASE UpsertWorkspace(r)
  <2>1. PICK n \in pass[r].todo :
           /\ workspaces' = workspaces \union {StableWorkspace(n)}
           /\ pass' = [pass EXCEPT ![r].pc = "conversation", ![r].item = n]
    BY <1>3 DEF UpsertWorkspace
  <2>2. /\ pass[r].pc = "workspace"
        /\ UNCHANGED <<disk, sessions, conversations, managedVars, inFlight, historyVars>>
    BY <1>3 DEF UpsertWorkspace, At
  <2>3. n \in Natives
    BY <1>1, <1>2, <2>2 DEF Upserts, Upserting
  <2>4. /\ pass'[r] \in Frames /\ pass' = [pass EXCEPT ![r] = pass'[r]]
        /\ pass'[r].pc = "conversation" /\ pass'[r].item = n
        /\ pass'[r].adapter = pass[r].adapter /\ pass'[r].whole = pass[r].whole
        /\ pass'[r].todo = pass[r].todo /\ pass'[r].records = pass[r].records
    BY <1>1, <2>1, <2>3 DEF Frames, Stages, Upserting
  <2>5. TypeInv' /\ MemoryInv' /\ DiscoveredComplete' /\ CleanInv'
        /\ \A o \in Refreshers \ {r} : pass'[o] = pass[o]
    BY <1>1, <2>1, <2>2, <2>3, <2>4 DEF TypeInv, MemoryInv, DiscoveredComplete, CleanInv, Reflects, Has
  <2>6. (\A x : Ours(r, x)' <=> Ours(r, x)) /\ (\A x : Reflects(x)' <=> Reflects(x))
    BY <2>2, <2>4 DEF Ours, Current, Reflects, Has
  <2>7. Upserts(r)' /\ Matches(r)' /\ Prunes(r)'
    BY <1>1, <2>1, <2>2, <2>4, <2>6 DEF Upserts, Matches, Prunes, Upserting
  <2>8. Reached(r)'
    BY <1>1, <2>2, <2>4, <2>6 DEF Reached, Upserting, Pruning, Has
  <2>9. QED
    BY <1>1, <2>2, <2>4, <2>5, <2>7, <2>8, PassMoves DEF Local
<1>4. CASE UpsertConversation(r)
  <2>1. /\ pass[r].pc = "conversation"
        /\ conversations' = [conversations EXCEPT ![pass[r].item] = pass[r].item]
        /\ pass' = [pass EXCEPT ![r].pc = "session"]
        /\ UNCHANGED <<disk, sessions, workspaces, managedVars, inFlight, historyVars>>
    BY <1>4 DEF UpsertConversation, At, Go
  <2>2. pass[r].item \in Natives
    BY <1>1, <1>2, <2>1 DEF Upserts, Upserting
  <2>3. /\ pass'[r] \in Frames /\ pass' = [pass EXCEPT ![r] = pass'[r]]
        /\ pass'[r].pc = "session" /\ pass'[r].item = pass[r].item
        /\ pass'[r].adapter = pass[r].adapter /\ pass'[r].whole = pass[r].whole
        /\ pass'[r].todo = pass[r].todo /\ pass'[r].records = pass[r].records
    BY <1>1, <2>1 DEF Frames, Stages, Upserting
  <2>4. TypeInv' /\ MemoryInv' /\ CleanInv' /\ \A o \in Refreshers \ {r} : pass'[o] = pass[o]
    BY <1>1, <2>1, <2>2, <2>3 DEF TypeInv, MemoryInv, CleanInv, Reflects, Has, NativeOrNone
  <2>5. DiscoveredComplete' /\ conversations'[pass[r].item] # Absent
    BY <1>1, <2>1, <2>2 DEF TypeInv, DiscoveredComplete
  <2>6. (\A x : Ours(r, x)' <=> Ours(r, x)) /\ (\A x : Reflects(x)' <=> Reflects(x))
    BY <2>1, <2>3 DEF Ours, Current, Reflects, Has
  <2>7. Upserts(r)' /\ Matches(r)' /\ Prunes(r)'
    BY <1>1, <2>1, <2>3, <2>5, <2>6 DEF Upserts, Matches, Prunes, Upserting
  <2>8. Reached(r)'
    BY <1>1, <2>1, <2>3, <2>6 DEF Reached, Upserting, Pruning, Has
  <2>9. QED
    BY <1>1, <2>1, <2>3, <2>4, <2>5, <2>7, <2>8, PassMoves DEF Local
<1>5. CASE UpsertSession(r)
  <2> DEFINE n == pass[r].item
  <2>1. /\ pass[r].pc = "session" /\ sessions' = [sessions EXCEPT ![n] = Discovered(n)]
        /\ pass' = [pass EXCEPT ![r].pc = "workspace", ![r].item = None, ![r].todo = @ \ {n}]
        /\ unread' = unread \ {n}
        /\ UNCHANGED <<disk, conversations, workspaces, managedVars, inFlight, clean>>
    BY <1>5 DEF UpsertSession, At
  <2>2. n \in Natives /\ n \in pass[r].records /\ ~clean /\ clean' = clean
        /\ StableWorkspace(n) \in workspaces /\ conversations[n] # Absent
    BY <1>1, <1>2, <2>1 DEF Upserts, Upserting, Reached
  <2>3. /\ pass'[r] \in Frames /\ pass' = [pass EXCEPT ![r] = pass'[r]]
        /\ pass'[r].pc = "workspace" /\ pass'[r].adapter = pass[r].adapter
        /\ pass'[r].whole = pass[r].whole /\ pass'[r].todo = pass[r].todo \ {n}
        /\ pass'[r].records = pass[r].records
    BY <1>1, <2>1 DEF Frames, Stages, Upserting
  <2> HIDE DEF n
  <2>4. /\ \A x \in Natives \ {n} : sessions'[x] = sessions[x]
        /\ \A x \in Managed : sessions'[x] = sessions[x]
        /\ sessions'[n] # NoRow /\ sessions' \in [Ids -> Rows]
    BY <1>1, <2>1, <2>2 DEF TypeInv
  <2>5. TypeInv' /\ \A o \in Refreshers \ {r} : pass'[o] = pass[o]
    BY <1>1, <2>1, <2>3, <2>4 DEF TypeInv
  <2>6. MemoryInv' /\ DiscoveredComplete' /\ CleanInv'
    BY <1>1, <2>1, <2>2, <2>4 DEF MemoryInv, DiscoveredComplete, CleanInv
  <2>7. \A x : Ours(r, x)' <=> Ours(r, x)
    BY <2>3 DEF Ours, Current
  <2>8. Upserts(r)' /\ Matches(r)' /\ Prunes(r)'
    BY <1>1, <2>1, <2>3, <2>7 DEF Upserts, Matches, Prunes, Upserting
  <2>9. Reached(r)'
    <3>1. ASSUME pass[r].whole, NEW i \in 1..Len(Adapters), i < pass[r].adapter
          PROVE  Reflects(Adapters[i])'
      <4>1. Reflects(Adapters[i])
        BY <1>1, <2>1, <3>1 DEF Reached
      <4>2. Ours(r, n) /\ (n \in disk <=> n \in pass[r].records)
        BY <1>1, <2>1, <2>2, <3>1 DEF Reached, Upserts, Upserting
      <4>3. QED
        BY <2>1, <2>2, <2>4, <4>1, <4>2 DEF Reflects, Has
    <3>2. ASSUME pass[r].whole
          PROVE  /\ \A x \in Natives : Ours(r, x) => (x \in disk <=> x \in pass[r].records)
                 /\ \A x \in pass[r].records : Has(x)' \/ x \in pass[r].todo \ {n}
      BY <1>1, <1>2, <2>1, <2>4, <3>2 DEF Reached, Upserting, Has
    <3>3. ~clean'
      BY <2>2
    <3>4. QED
      BY <2>1, <2>3, <2>7, <3>1, <3>2, <3>3 DEF Reached, Upserting, Pruning
  <2>10. QED
    BY <1>1, <2>1, <2>3, <2>5, <2>6, <2>8, <2>9, PassMoves DEF Local
<1>6. QED
  BY <1>3, <1>4, <1>5

-----------------------------------------------------------------------------
\* backfillManagedHistoryRecords writes no discovered session.
LEMMA MatchingReached ==
    ASSUME NEW r \in Refreshers, Reached(r), pass[r] \in Frames, pass'[r].pc \in Matching,
           pass[r].pc \in Matching \/ (pass[r].pc = "workspace" /\ pass[r].todo = {}),
           pass'[r].adapter = pass[r].adapter, pass'[r].whole = pass[r].whole,
           pass'[r].records = pass[r].records, UNCHANGED <<disk, clean>>,
           \A n \in Natives : sessions'[n] = sessions[n]
    PROVE  Reached(r)'
<1>1. /\ \A x \in Natives : Has(x)' <=> Has(x)
      /\ \A x : (Ours(r, x)' <=> Ours(r, x)) /\ (Reflects(x)' <=> Reflects(x))
  BY DEF Has, Ours, Current, Reflects
<1>2. pass[r].records \subseteq Natives
  BY DEF Frames
<1>3. pass[r].pc \in Upserting \union Matching /\ pass[r].pc \notin {"idle", "discover"}
  BY DEF Upserting, Matching
<1>4. pass'[r].pc \notin {"delete"} \union Upserting \union Pruning
  BY DEF Upserting, Matching, Pruning
<1>5. ~clean' /\ (pass'[r].whole =>
          \A i \in 1..Len(Adapters) : i < pass'[r].adapter => Reflects(Adapters[i])')
  BY <1>1, <1>3 DEF Reached
<1>6. pass'[r].whole =>
          /\ \A n \in Natives : Ours(r, n)' => (n \in disk' <=> n \in pass'[r].records)
          /\ \A n \in pass'[r].records : Has(n)'
  BY <1>1, <1>2, <1>3 DEF Reached, Upserting, Matching
<1>7. QED
  BY <1>4, <1>5, <1>6 DEF Reached

\* What Plan leaves in the frame.
LEMMA PlanFrame ==
    ASSUME NEW r \in Refreshers, pass \in [Refreshers -> Frames],
           NEW pairs \in SUBSET (Managed \X Natives),
           pass' = [pass EXCEPT ![r].pc = "match", ![r].plan = pairs,
                                ![r].todo = {pair[1] : pair \in pairs}]
    PROVE  /\ pass'[r] \in Frames /\ pass' = [pass EXCEPT ![r] = pass'[r]]
           /\ pass'[r].pc = "match" /\ pass'[r].todo = {pair[1] : pair \in pairs}
           /\ pass'[r].plan = pairs
           /\ pass'[r].adapter = pass[r].adapter /\ pass'[r].whole = pass[r].whole
           /\ pass'[r].records = pass[r].records
<1>1. PICK todo : todo = {pair[1] : pair \in pairs}
  OBVIOUS
<1>2. todo \in SUBSET ConversationIds
  BY <1>1, IdsApart
<1>3. PICK f : f = [pass[r] EXCEPT !.pc = "match", !.plan = pairs, !.todo = todo]
  OBVIOUS
<1>4. pass' = [pass EXCEPT ![r] = f] /\ pass'[r] = f
  BY <1>1, <1>3
<1>5. pass[r] \in Frames
  OBVIOUS
<1>6. /\ f \in Frames /\ f.pc = "match" /\ f.plan = pairs /\ f.todo = todo
      /\ f.adapter = pass[r].adapter /\ f.whole = pass[r].whole
      /\ f.records = pass[r].records
  BY <1>2, <1>3, <1>5 DEF Frames, Stages, Matching
<1>7. QED
  BY <1>1, <1>4, <1>6

LEMMA MatchReadsKeep ==
    ASSUME IInv, NEW r \in Refreshers,
           ReadKnown(r) \/ SkipKnown(r) \/ ReadMatch(r) \/ Plan(r)
    PROVE  IInv'
<1> USE IdsApart, RowShapes DEF storeVars, managedVars, passVars, historyVars
<1>1. /\ TypeInv /\ MemoryInv /\ Matches(r) /\ Reached(r)
      /\ pass[r] \in Frames /\ pass \in [Refreshers -> Frames] /\ ~At(r, "idle")
      /\ UNCHANGED <<disk, storeVars, managedVars, inFlight, clean>> /\ unread \subseteq unread'
  BY DEF IInv, TypeInv, Local, ReadKnown, SkipKnown, ReadMatch, Plan, At
<1>2. /\ pass[r].records \subseteq Natives /\ sessions \in [Ids -> Rows]
      /\ pass[r].rows \in [Ids -> Rows] /\ Managed \subseteq ConversationIds
  BY <1>1 DEF Frames, TypeInv
<1>3. ASSUME pass'[r] \in Frames, pass' = [pass EXCEPT ![r] = pass'[r]], pass'[r].pc \in Matching,
             pass[r].pc \in Matching \/ (pass[r].pc = "workspace" /\ pass[r].todo = {}),
             pass'[r].adapter = pass[r].adapter, pass'[r].whole = pass[r].whole,
             pass'[r].records = pass[r].records, Matches(r)'
      PROVE  IInv'
  <2>1. Reached(r)'
    BY <1>1, <1>3, MatchingReached
  <2>2. Upserts(r)' /\ Prunes(r)' /\ pass'[r].pc # "idle"
    BY <1>3 DEF Upserts, Prunes, Matching, Upserting
  <2>3. QED
    BY <1>1, <1>3, <2>1, <2>2, PassReads DEF Local
<1>4. CASE ReadKnown(r)
  <2>9. PICK read \in SUBSET Stored(sessions) :
              pass' = [pass EXCEPT ![r].pc = "known", ![r].rows = Seen(read),
                ![r].todo = {m \in read \intersect Managed :
                   /\ Ours(r, m) /\ sessions[m].native \in pass[r].records
                   /\ PathOf[sessions[m].native] = PathOf[m]
                   /\ Located(sessions[m]) # sessions[m]}]
    BY <1>4 DEF ReadKnown
  <2> DEFINE found == {m \in read \intersect Managed :
                 /\ Ours(r, m) /\ sessions[m].native \in pass[r].records
                 /\ PathOf[sessions[m].native] = PathOf[m]
                 /\ Located(sessions[m]) # sessions[m]}
  <2>0. Seen(read) \in [Ids -> Rows]
    BY <1>1, SeenRows
  <2>1. /\ pass[r].pc = "workspace" /\ pass[r].todo = {}
        /\ pass' = [pass EXCEPT ![r].pc = "known", ![r].rows = Seen(read), ![r].todo = found]
    BY <1>4, <2>9 DEF ReadKnown, At
  <2>2. found \subseteq {m \in Managed : phase[m] # "new"}
    BY <1>1, <1>2 DEF MemoryInv
  <2> HIDE DEF found
  <2>3. /\ pass'[r] \in Frames /\ pass' = [pass EXCEPT ![r] = pass'[r]]
        /\ pass'[r].pc = "known" /\ pass'[r].todo = found
        /\ pass'[r].adapter = pass[r].adapter /\ pass'[r].whole = pass[r].whole
        /\ pass'[r].records = pass[r].records
    BY <1>1, <1>2, <2>0, <2>1, <2>2 DEF Frames, Stages, Matching
  <2>4. Matches(r)'
    BY <1>1, <2>2, <2>3 DEF Matches
  <2>5. QED
    BY <1>3, <2>1, <2>3, <2>4 DEF Matching
<1>5. CASE SkipKnown(r)
  <2>1. PICK m \in pass[r].todo : pass' = [pass EXCEPT ![r].todo = @ \ {m}]
    BY <1>5 DEF SkipKnown, Done
  <2>2. pass[r].pc = "known"
    BY <1>5 DEF SkipKnown, At
  <2>3. /\ pass'[r] \in Frames /\ pass' = [pass EXCEPT ![r] = pass'[r]]
        /\ pass'[r].pc = "known" /\ pass'[r].todo = pass[r].todo \ {m}
        /\ pass'[r].adapter = pass[r].adapter /\ pass'[r].whole = pass[r].whole
        /\ pass'[r].records = pass[r].records
    BY <1>1, <2>1, <2>2 DEF Frames
  <2>4. Matches(r)'
    BY <1>1, <2>2, <2>3 DEF Matches
  <2>5. QED
    BY <1>3, <2>2, <2>3, <2>4 DEF Matching
<1>6. CASE ReadMatch(r)
  <2> PICK read \in SUBSET Stored(sessions) :
              pass' = [pass EXCEPT ![r].pc = "plan", ![r].rows = Seen(read),
                                   ![r].over = {m \in Managed : ~Live(m)}]
    BY <1>6 DEF ReadMatch
  <2>1. pass[r].pc = "known"
    BY <1>6 DEF ReadMatch, At
  <2>2. /\ pass'[r] \in Frames /\ pass' = [pass EXCEPT ![r] = pass'[r]]
        /\ pass'[r].pc = "plan" /\ pass'[r].rows = Seen(read)
        /\ pass'[r].over = {m \in Managed : ~Live(m)}
        /\ pass'[r].adapter = pass[r].adapter /\ pass'[r].whole = pass[r].whole
        /\ pass'[r].records = pass[r].records
    BY <1>1, <1>2, <2>1, SeenRows DEF Frames, Stages, Matching
  <2>3. \A m \in Managed : Seen(read)[m] # NoRow =>
            phase[m] # "new" /\ (m \in pass'[r].over => Over(m))
    BY <1>1, <2>2, SeenRows DEF TypeInv, MemoryInv, Live, Phases, Over
  <2>4. Matches(r)'
    BY <1>1, <2>2, <2>3 DEF Matches, Over
  <2>5. QED
    BY <1>3, <2>1, <2>2, <2>4 DEF Matching
<1>7. CASE Plan(r)
  <2>1. PICK live \in SUBSET (Managed \ pass[r].over) :
           /\ {m \in Managed : Live(m)} \subseteq live
           /\ \E pairs \in SUBSET (Unmatched(r, live) \X Candidates(r)) :
                 pass' = [pass EXCEPT ![r].pc = "match", ![r].plan = pairs,
                                      ![r].todo = {pair[1] : pair \in pairs}]
    BY <1>7 DEF Plan
  <2>2. pass[r].pc = "plan"
    BY <1>7 DEF Plan, At
  <2> PICK pairs \in SUBSET (Unmatched(r, live) \X Candidates(r)) :
              pass' = [pass EXCEPT ![r].pc = "match", ![r].plan = pairs,
                                   ![r].todo = {pair[1] : pair \in pairs}]
    BY <2>1
  <2>3. /\ Unmatched(r, live) \subseteq Managed /\ Candidates(r) \subseteq Natives
        /\ \A m \in Unmatched(r, live) : pass[r].rows[m] # NoRow /\ ~Live(m)
    BY <1>2, <2>1 DEF Unmatched, Candidates, ManagedRows
  <2>4. {pair[1] : pair \in pairs} \subseteq Unmatched(r, live)
        /\ pairs \in SUBSET (Managed \X Natives)
    BY <2>3
  <2>5. \A m \in Unmatched(r, live) : Over(m)
    BY <1>1, <2>2, <2>3 DEF Matches, TypeInv, Live, Phases, Over
  <2>6. /\ pass'[r] \in Frames /\ pass' = [pass EXCEPT ![r] = pass'[r]]
        /\ pass'[r].pc = "match" /\ pass'[r].todo = {pair[1] : pair \in pairs}
        /\ pass'[r].plan = pairs
        /\ pass'[r].adapter = pass[r].adapter /\ pass'[r].whole = pass[r].whole
        /\ pass'[r].records = pass[r].records
    BY <1>1, <2>1, <2>4, PlanFrame
  <2>7. Matches(r)'
    BY <1>1, <2>4, <2>5, <2>6 DEF Matches, Planned, Over
  <2>8. QED
    BY <1>3, <2>2, <2>6, <2>7 DEF Matching
<1>8. QED
  BY <1>4, <1>5, <1>6, <1>7

\* A write of a session that has ended, or of a conversation.
LEMMA MatchWrites ==
    ASSUME IInv, NEW r \in Refreshers, pass[r].pc \in Matching, pass'[r].pc \in Matching,
           pass'[r] \in Frames, pass' = [pass EXCEPT ![r] = pass'[r]],
           pass'[r].adapter = pass[r].adapter, pass'[r].whole = pass[r].whole,
           pass'[r].records = pass[r].records, Matches(r)',
           UNCHANGED <<disk, workspaces, managedVars, inFlight, historyVars>>,
           \/ sessions' = sessions
           \/ \E m \in Managed, row \in Rows :
                 sessions' = [sessions EXCEPT ![m] = row] /\ phase[m] # "new" /\ ~Live(m),
           \/ conversations' = conversations
           \/ \E c \in ConversationIds, x \in NativeOrNone :
                 conversations' = [conversations EXCEPT ![c] = x]
    PROVE  IInv'
<1> USE IdsApart DEF managedVars, historyVars
<1>1. /\ TypeInv /\ MemoryInv /\ DiscoveredComplete /\ CleanInv /\ Reached(r) /\ pass[r] \in Frames
  BY DEF IInv, TypeInv, Local
<1>2. /\ sessions' \in [Ids -> Rows] /\ \A n \in Natives : sessions'[n] = sessions[n]
      /\ \A m \in Managed : phase[m] = "new" \/ Live(m) => sessions'[m] = sessions[m]
  BY <1>1 DEF TypeInv
<1>3. /\ conversations' \in [ConversationIds -> NativeOrNone \union {Absent}]
      /\ \A c \in ConversationIds : conversations[c] # Absent => conversations'[c] # Absent
  BY <1>1 DEF TypeInv
<1>4. TypeInv' /\ \A o \in Refreshers \ {r} : pass'[o] = pass[o]
  BY <1>1, <1>2, <1>3 DEF TypeInv
<1>5. MemoryInv'
  BY <1>1, <1>2 DEF MemoryInv, Live
<1>6. DiscoveredComplete' /\ CleanInv'
  BY <1>1, <1>2, <1>3 DEF DiscoveredComplete, CleanInv, Reflects, Has
<1>7. Reached(r)'
  BY <1>1, <1>2, MatchingReached
<1>8. Upserts(r)' /\ Prunes(r)' /\ ~At(r, "idle") /\ pass'[r].pc # "idle"
  BY DEF Upserts, Prunes, At, Matching, Upserting
<1>9. QED
  BY <1>4, <1>5, <1>6, <1>7, <1>8, PassMoves DEF Local

LEMMA MatchWritesKeep ==
    ASSUME IInv, NEW r \in Refreshers,
           \/ UpsertKnown(r) \/ UpsertKnownConversation(r)
           \/ UpsertMatched(r) \/ UpsertMatchedConversation(r)
    PROVE  IInv'
<1> USE IdsApart, RowShapes DEF passVars
<1>1. /\ TypeInv /\ Matches(r) /\ pass[r] \in Frames /\ pass \in [Refreshers -> Frames]
      /\ pass[r].rows \in [Ids -> Rows] /\ Planned(pass[r]) \subseteq Managed
      /\ UNCHANGED <<disk, workspaces, managedVars, inFlight, historyVars>>
  BY PlannedManaged DEF IInv, TypeInv, Local, Frames,
     UpsertKnown, UpsertKnownConversation, UpsertMatched, UpsertMatchedConversation
<1>2. UNCHANGED phase
  BY <1>1 DEF managedVars
<1>3. \A m \in Planned(pass[r]) : Partner(r, m) \in Natives
  <2> SUFFICES ASSUME NEW m \in Planned(pass[r]) PROVE Partner(r, m) \in Natives
    OBVIOUS
  <2>1. PICK pair \in pass[r].plan : pair[1] = m
    BY DEF Planned
  <2>2. (CHOOSE p \in pass[r].plan : p[1] = m) \in pass[r].plan
    BY <2>1
  <2>3. pass[r].plan \subseteq Managed \X Natives
    BY <1>1 DEF Frames
  <2>4. QED
    BY <2>2, <2>3 DEF Partner
<1>4. CASE UpsertKnown(r)
  <2>1. PICK m \in pass[r].todo :
           /\ ~Live(m) /\ sessions' = [sessions EXCEPT ![m] = Located(pass[r].rows[m])]
           /\ pass' = [pass EXCEPT ![r].pc = "known_conversation", ![r].item = m]
    BY <1>4 DEF UpsertKnown
  <2>2. pass[r].pc = "known" /\ UNCHANGED conversations
    BY <1>4 DEF UpsertKnown, At
  <2>3. m \in Managed /\ phase[m] # "new" /\ Located(pass[r].rows[m]) \in Rows
    BY <1>1, <2>2 DEF Matches
  <2>4. /\ pass'[r] \in Frames /\ pass' = [pass EXCEPT ![r] = pass'[r]]
        /\ pass'[r].pc = "known_conversation" /\ pass'[r].item = m
        /\ pass'[r].todo = pass[r].todo
        /\ pass'[r].adapter = pass[r].adapter /\ pass'[r].whole = pass[r].whole
        /\ pass'[r].records = pass[r].records
    BY <1>1, <2>1, <2>3 DEF Frames, Stages, Matching
  <2>5. Matches(r)'
    BY <1>1, <1>2, <2>2, <2>3, <2>4 DEF Matches
  <2>6. \E k \in Managed, row \in Rows :
           sessions' = [sessions EXCEPT ![k] = row] /\ phase[k] # "new" /\ ~Live(k)
    BY <2>1, <2>3
  <2>7. pass[r].pc \in Matching /\ pass'[r].pc \in Matching
    BY <2>2, <2>4 DEF Matching
  <2>8. QED
    BY <1>1, <2>2, <2>4, <2>5, <2>6, <2>7, MatchWrites
<1>5. CASE UpsertKnownConversation(r)
  <2> DEFINE m == pass[r].item
  <2>1. /\ pass[r].pc = "known_conversation" /\ UNCHANGED sessions
        /\ conversations' = [conversations EXCEPT ![conversation[m]] = pass[r].rows[m].native]
        /\ pass' = [pass EXCEPT ![r].pc = "known", ![r].todo = @ \ {m}, ![r].item = None]
    BY <1>5 DEF UpsertKnownConversation, At
  <2>2. m \in Managed /\ pass[r].rows[m].native \in NativeOrNone
    BY <1>1, <2>1 DEF Matches
  <2>3. /\ pass'[r] \in Frames /\ pass' = [pass EXCEPT ![r] = pass'[r]]
        /\ pass'[r].pc = "known" /\ pass'[r].todo = pass[r].todo \ {m}
        /\ pass'[r].adapter = pass[r].adapter /\ pass'[r].whole = pass[r].whole
        /\ pass'[r].records = pass[r].records
    BY <1>1, <2>1 DEF Frames, Stages, Matching
  <2> HIDE DEF m
  <2>4. Matches(r)'
    BY <1>1, <1>2, <2>1, <2>3 DEF Matches
  <2>5. \/ conversations' = conversations
        \/ \E c \in ConversationIds, x \in NativeOrNone :
              conversations' = [conversations EXCEPT ![c] = x]
    <3>1. CASE conversation[m] \in ConversationIds
      BY <2>1, <2>2, <3>1
    <3>2. CASE conversation[m] \notin ConversationIds
      BY <1>1, <2>1, <3>2 DEF TypeInv
    <3>3. QED
      BY <3>1, <3>2
  <2>6. pass[r].pc \in Matching /\ pass'[r].pc \in Matching
    BY <2>1, <2>3 DEF Matching
  <2>7. QED
    BY <1>1, <2>1, <2>3, <2>4, <2>5, <2>6, MatchWrites
<1>6. CASE UpsertMatched(r)
  <2>1. PICK m \in pass[r].todo :
           /\ sessions' = [sessions EXCEPT ![m] =
                              [Located(pass[r].rows[m]) EXCEPT !.native = Partner(r, m),
                                                               !.matched = TRUE]]
           /\ pass' = [pass EXCEPT ![r].pc = "match_conversation", ![r].item = m]
    BY <1>6 DEF UpsertMatched
  <2>2. pass[r].pc = "match" /\ UNCHANGED conversations
    BY <1>6 DEF UpsertMatched, At
  <2>3. m \in Managed /\ m \in Planned(pass[r]) /\ Over(m) /\ Located(pass[r].rows[m]) \in Rows
    BY <1>1, <2>2 DEF Matches
  <2>4. [Located(pass[r].rows[m]) EXCEPT !.native = Partner(r, m), !.matched = TRUE] \in Rows
    BY <1>3, <2>3 DEF Rows
  <2>5. /\ pass'[r] \in Frames /\ pass' = [pass EXCEPT ![r] = pass'[r]]
        /\ pass'[r].pc = "match_conversation" /\ pass'[r].item = m
        /\ pass'[r].todo = pass[r].todo /\ pass'[r].plan = pass[r].plan
        /\ pass'[r].adapter = pass[r].adapter /\ pass'[r].whole = pass[r].whole
        /\ pass'[r].records = pass[r].records
    BY <1>1, <2>1, <2>3 DEF Frames, Stages, Matching
  <2>6. Matches(r)'
    BY <1>1, <1>2, <2>2, <2>3, <2>5 DEF Matches, Planned, Over
  <2>7. \E k \in Managed, row \in Rows :
           sessions' = [sessions EXCEPT ![k] = row] /\ phase[k] # "new" /\ ~Live(k)
    BY <2>1, <2>3, <2>4 DEF Over, Live
  <2>8. pass[r].pc \in Matching /\ pass'[r].pc \in Matching
    BY <2>2, <2>5 DEF Matching
  <2>9. QED
    BY <1>1, <2>2, <2>5, <2>6, <2>7, <2>8, MatchWrites
<1>7. CASE UpsertMatchedConversation(r)
  <2> DEFINE m == pass[r].item
  <2>1. /\ pass[r].pc = "match_conversation" /\ UNCHANGED sessions
        /\ conversations' = [conversations EXCEPT ![conversation[m]] = Partner(r, m)]
        /\ pass' = [pass EXCEPT ![r].pc = "match", ![r].todo = @ \ {m}, ![r].item = None]
    BY <1>7 DEF UpsertMatchedConversation, At
  <2>2. Partner(r, m) \in NativeOrNone
    BY <1>1, <1>3, <2>1 DEF Matches, NativeOrNone
  <2>3. /\ pass'[r] \in Frames /\ pass' = [pass EXCEPT ![r] = pass'[r]]
        /\ pass'[r].pc = "match" /\ pass'[r].todo = pass[r].todo \ {m}
        /\ pass'[r].plan = pass[r].plan
        /\ pass'[r].adapter = pass[r].adapter /\ pass'[r].whole = pass[r].whole
        /\ pass'[r].records = pass[r].records
    BY <1>1, <2>1 DEF Frames, Stages, Matching
  <2> HIDE DEF m
  <2>4. Matches(r)'
    BY <1>1, <1>2, <2>1, <2>3 DEF Matches, Planned, Over
  <2>5. \/ conversations' = conversations
        \/ \E c \in ConversationIds, x \in NativeOrNone :
              conversations' = [conversations EXCEPT ![c] = x]
    <3>1. CASE conversation[m] \in ConversationIds
      BY <2>1, <2>2, <3>1
    <3>2. CASE conversation[m] \notin ConversationIds
      BY <1>1, <2>1, <3>2 DEF TypeInv
    <3>3. QED
      BY <3>1, <3>2
  <2>6. pass[r].pc \in Matching /\ pass'[r].pc \in Matching
    BY <2>1, <2>3 DEF Matching
  <2>7. QED
    BY <1>1, <2>1, <2>3, <2>4, <2>5, <2>6, MatchWrites
<1>8. QED
  BY <1>4, <1>5, <1>6, <1>7

-----------------------------------------------------------------------------
(* The deletions.                                                          *)

LEMMA ListSessionsKeeps == ASSUME IInv, NEW r \in Refreshers, ListSessions(r) PROVE IInv'
<1> USE IdsApart, RowShapes DEF storeVars, managedVars, passVars, historyVars
<1> DEFINE all == {n \in Natives : sessions[n] # NoRow /\ Ours(r, n)}
           records == pass[r].records
<1> PICK ids \in SUBSET all :
       pass' = [pass EXCEPT ![r] = [Deleting(pass[r], ids) EXCEPT
                                       !.whole = pass[r].whole /\ ids = all]]
  BY DEF ListSessions
<1>1. /\ pass[r].pc \in {"match", "workspace"} /\ pass[r].todo = {}
      /\ UNCHANGED <<disk, storeVars, managedVars, inFlight, historyVars>>
  BY DEF ListSessions, At
<1>2. /\ Reached(r) /\ pass[r] \in Frames /\ pass \in [Refreshers -> Frames]
      /\ records \subseteq Natives
  BY DEF IInv, TypeInv, Local, Frames
<1>3. NoRows \in [Ids -> Rows] /\ ids \ records \in SUBSET ConversationIds
  BY DEF NoRows
<1>4. /\ pass'[r] \in Frames /\ pass' = [pass EXCEPT ![r] = pass'[r]]
      /\ pass'[r].pc = "delete" /\ pass'[r].todo = ids \ records
      /\ pass'[r].adapter = pass[r].adapter
      /\ pass'[r].whole => pass[r].whole /\ ids = all
  BY <1>1, <1>2, <1>3 DEF Frames, Deleting, Stages
<1>5. /\ \A n : (Ours(r, n)' <=> Ours(r, n)) /\ (Reflects(n)' <=> Reflects(n)) /\ (Has(n)' <=> Has(n))
  BY <1>1, <1>4 DEF Ours, Current, Reflects, Has
<1>6. Upserts(r)' /\ Matches(r)' /\ Prunes(r)'
  BY <1>4, <1>5 DEF Upserts, Matches, Prunes, Upserting
<1>7. Reached(r)'
  <2>1. pass[r].pc \in Upserting \union Matching /\ pass[r].pc \notin {"idle", "discover"}
    BY <1>1 DEF Upserting, Matching
  <2>2. ~clean' /\ (pass'[r].whole =>
           \A i \in 1..Len(Adapters) : i < pass'[r].adapter => Reflects(Adapters[i])')
    BY <1>1, <1>2, <1>4, <1>5, <2>1 DEF Reached
  <2>3. ASSUME pass'[r].whole, NEW n \in Natives, Ours(r, n)
        PROVE  /\ n \in disk => Has(n) /\ n \notin ids \ records
               /\ Has(n) => n \in disk \/ n \in ids \ records
    <3>1. (n \in disk <=> n \in records) /\ (n \in records => Has(n))
      BY <1>1, <1>2, <1>4, <2>1, <2>3 DEF Reached
    <3>2. QED
      BY <1>4, <2>3, <3>1 DEF Has
  <2>4. pass'[r].pc \notin {"idle"} \union Upserting \union Matching \union Pruning
    BY <1>4 DEF Upserting, Matching, Pruning
  <2> HIDE DEF all, records
  <2>5. QED
    BY <1>1, <1>4, <1>5, <2>2, <2>3, <2>4 DEF Reached
<1>8. QED
  BY <1>1, <1>4, <1>6, <1>7, PassReads DEF At, Local

LEMMA DeleteSessionKeeps == ASSUME IInv, NEW r \in Refreshers, DeleteSession(r) PROVE IInv'
<1> USE IdsApart, RowShapes DEF managedVars, historyVars
<1>1. PICK n \in pass[r].todo : /\ sessions' = [sessions EXCEPT ![n] = NoRow]
                                /\ pass' = [pass EXCEPT ![r].todo = @ \ {n}]
  BY DEF DeleteSession, Done
<1>2. /\ pass[r].pc = "delete"
      /\ UNCHANGED <<disk, conversations, workspaces, managedVars, inFlight, historyVars>>
  BY DEF DeleteSession, At
<1>3. /\ TypeInv /\ MemoryInv /\ DiscoveredComplete /\ CleanInv /\ Prunes(r) /\ Reached(r)
      /\ pass[r] \in Frames /\ pass \in [Refreshers -> Frames]
  BY DEF IInv, TypeInv, Local
<1>4. n \in Natives /\ Ours(r, n) /\ ~clean
  BY <1>2, <1>3 DEF Prunes, Reached
<1>5. /\ \A x \in Natives \ {n} : sessions'[x] = sessions[x]
      /\ \A x \in Managed : sessions'[x] = sessions[x]
      /\ sessions'[n] = NoRow /\ sessions' \in [Ids -> Rows]
  BY <1>1, <1>3, <1>4 DEF TypeInv
<1>6. /\ pass'[r] \in Frames /\ \A o \in Refreshers \ {r} : pass'[o] = pass[o]
      /\ pass'[r].pc = "delete" /\ pass'[r].todo = pass[r].todo \ {n}
      /\ pass'[r].adapter = pass[r].adapter /\ pass'[r].whole = pass[r].whole
      /\ pass' \in [Refreshers -> Frames]
  BY <1>1, <1>2, <1>3 DEF Frames
<1>7. TypeInv' /\ MemoryInv' /\ DiscoveredComplete' /\ CleanInv'
  BY <1>2, <1>3, <1>4, <1>5, <1>6 DEF TypeInv, MemoryInv, DiscoveredComplete, CleanInv
<1>8. \A x : Ours(r, x)' <=> Ours(r, x)
  BY <1>6 DEF Ours, Current
<1>9. Upserts(r)' /\ Matches(r)' /\ Prunes(r)'
  BY <1>2, <1>3, <1>6, <1>8 DEF Upserts, Matches, Prunes, Upserting
<1>10. Reached(r)'
  <2>1. ASSUME pass[r].whole, NEW x \in Natives, Ours(r, x)
        PROVE  /\ x \in disk => Has(x)' /\ x \notin pass[r].todo \ {n}
               /\ Has(x)' => x \in disk \/ x \in pass[r].todo \ {n}
    <3>1. /\ x \in disk => Has(x) /\ x \notin pass[r].todo
          /\ Has(x) => x \in disk \/ x \in pass[r].todo
      BY <1>2, <1>3, <2>1 DEF Reached
    <3>2. QED
      BY <1>1, <1>5, <3>1 DEF Has
  <2>2. ASSUME pass[r].whole, NEW i \in 1..Len(Adapters), i < pass[r].adapter
        PROVE  Reflects(Adapters[i])'
    <3>1. Reflects(Adapters[i]) /\ (n \in disk => n \notin pass[r].todo)
      BY <1>2, <1>3, <1>4, <2>2 DEF Reached
    <3>2. QED
      BY <1>1, <1>2, <1>5, <3>1 DEF Reflects, Has
  <2>3. pass'[r].pc \notin {"idle"} \union Upserting \union Matching \union Pruning
    BY <1>6 DEF Upserting, Matching, Pruning
  <2>4. QED
    BY <1>2, <1>4, <1>6, <1>8, <2>1, <2>2, <2>3 DEF Reached
<1>11. QED
  BY <1>2, <1>6, <1>7, <1>9, <1>10, PassMoves DEF At, Local

\* pruneOrphanHistoryEntries: the discovered rows stay as they are.
LEMMA PruneReached ==
    ASSUME NEW r \in Refreshers, Reached(r), pass'[r].pc \in Pruning,
           pass[r].pc \in Pruning \/ (pass[r].pc = "delete" /\ pass[r].todo = {}),
           pass'[r].adapter = pass[r].adapter, pass'[r].whole = pass[r].whole,
           UNCHANGED <<sessions, disk, clean>>
    PROVE  Reached(r)'
<1>1. /\ \A x : (Ours(r, x)' <=> Ours(r, x)) /\ (Reflects(x)' <=> Reflects(x))
      /\ Current(r)' = Current(r)
  BY DEF Has, Ours, Current, Reflects
<1>2. pass[r].pc \notin {"idle", "discover"}
  BY DEF Pruning
<1>3. pass'[r].whole => Reflects(Current(r))
  BY DEF Reached, Reflects, Ours, Pruning
<1>4. pass'[r].pc \notin {"delete"} \union Upserting \union Matching
  BY DEF Upserting, Matching, Pruning
<1>5. ~clean' /\ (pass'[r].whole =>
         \A i \in 1..Len(Adapters) : i < pass'[r].adapter => Reflects(Adapters[i])')
  BY <1>1, <1>2 DEF Reached
<1>6. QED
  BY <1>1, <1>3, <1>4, <1>5 DEF Reached

LEMMA PruneReadsKeep ==
    ASSUME IInv, NEW r \in Refreshers,
           ReadReferences(r) \/ ReadOrphanWorkspaces(r) \/ ReadOrphanConversations(r)
    PROVE  IInv'
<1> USE IdsApart, RowShapes DEF storeVars, managedVars, passVars, historyVars
<1>1. /\ TypeInv /\ Prunes(r) /\ Reached(r) /\ sessions \in [Ids -> Rows]
      /\ pass[r] \in Frames /\ pass \in [Refreshers -> Frames] /\ ~At(r, "idle")
      /\ UNCHANGED <<disk, storeVars, managedVars, inFlight, clean>> /\ unread \subseteq unread'
  BY DEF IInv, TypeInv, Local, ReadReferences, ReadOrphanWorkspaces, ReadOrphanConversations, At
<1>2. ASSUME pass'[r] \in Frames, pass' = [pass EXCEPT ![r] = pass'[r]], pass'[r].pc \in Pruning,
             pass[r].pc \in Pruning \/ (pass[r].pc = "delete" /\ pass[r].todo = {}),
             pass'[r].adapter = pass[r].adapter, pass'[r].whole = pass[r].whole, Prunes(r)'
      PROVE  IInv'
  <2>1. Reached(r)'
    BY <1>1, <1>2, PruneReached
  <2>2. Upserts(r)' /\ Matches(r)' /\ pass'[r].pc # "idle"
    BY <1>2 DEF Upserts, Matches, Upserting, Pruning
  <2>3. QED
    BY <1>1, <1>2, <2>1, <2>2, PassReads DEF Local
<1>3. CASE ReadReferences(r)
  <2> PICK read \in SUBSET Stored(sessions) :
         /\ pass' = [pass EXCEPT ![r].pc = "read_orphan_workspaces", ![r].rows = Seen(read)]
         /\ unread' = unread \union (Stored(sessions) \ read)
    BY <1>3 DEF ReadReferences
  <2>1. pass[r].pc = "delete" /\ pass[r].todo = {}
    BY <1>3 DEF ReadReferences, At
  <2>0. Seen(read) \in [Ids -> Rows]
    BY <1>1, SeenRows
  <2>2. /\ pass'[r] \in Frames /\ pass' = [pass EXCEPT ![r] = pass'[r]]
        /\ pass'[r].pc = "read_orphan_workspaces" /\ pass'[r].rows = Seen(read)
        /\ pass'[r].adapter = pass[r].adapter /\ pass'[r].whole = pass[r].whole
    BY <1>1, <2>0, <2>1 DEF Frames, Stages, Pruning
  <2>3. Prunes(r)'
    BY <1>1, <2>2, SeenRows DEF Prunes
  <2>4. QED
    BY <1>2, <2>1, <2>2, <2>3 DEF Pruning
<1>4. \A n \in Natives : n \notin Managed /\ WorkspaceOf(n) = StableWorkspace(n)
                           /\ ConversationOf(n) = n
  BY DEF WorkspaceOf, ConversationOf
<1>5. CASE ReadOrphanWorkspaces(r)
  <2>0. PICK read \in SUBSET workspaces :
              pass' = [pass EXCEPT ![r].pc = "read_orphan_conversations",
                    ![r].orphans = read \ {WorkspaceOf(id) : id \in Stored(pass[r].rows)}]
    BY <1>5 DEF ReadOrphanWorkspaces
  <2> DEFINE orphans == read \ {WorkspaceOf(id) : id \in Stored(pass[r].rows)}
  <2>1. /\ pass[r].pc = "read_orphan_workspaces" /\ UNCHANGED unread
        /\ pass' = [pass EXCEPT ![r].pc = "read_orphan_conversations", ![r].orphans = orphans]
    BY <1>5, <2>0 DEF ReadOrphanWorkspaces, At
  <2>2. /\ \A n \in Natives \ unread : Has(n) => StableWorkspace(n) \notin orphans
        /\ orphans \in SUBSET WorkspaceIds
    BY <1>1, <1>4, <2>1 DEF Prunes, Has, Stored, TypeInv
  <2> HIDE DEF orphans
  <2>3. /\ pass'[r] \in Frames /\ pass' = [pass EXCEPT ![r] = pass'[r]]
        /\ pass'[r].pc = "read_orphan_conversations" /\ pass'[r].rows = pass[r].rows
        /\ pass'[r].orphans = orphans
        /\ pass'[r].adapter = pass[r].adapter /\ pass'[r].whole = pass[r].whole
    BY <1>1, <2>1, <2>2 DEF Frames, Stages, Pruning
  <2>4. Prunes(r)'
    BY <1>1, <2>1, <2>2, <2>3 DEF Prunes, Has
  <2>5. QED
    BY <1>2, <2>1, <2>3, <2>4 DEF Pruning
<1>6. CASE ReadOrphanConversations(r)
  <2>0. PICK read \in SUBSET {c \in ConversationIds : conversations[c] # Absent} :
         pass' = [pass EXCEPT ![r].pc = "delete_conversation", ![r].rows = NoRows,
            ![r].todo = read \ {ConversationOf(id) : id \in Stored(pass[r].rows)}]
    BY <1>6 DEF ReadOrphanConversations
  <2> DEFINE doomed == read \ {ConversationOf(id) : id \in Stored(pass[r].rows)}
  <2>1. /\ pass[r].pc = "read_orphan_conversations" /\ UNCHANGED unread
        /\ pass' = [pass EXCEPT ![r].pc = "delete_conversation", ![r].rows = NoRows,
                                ![r].todo = doomed]
    BY <1>6, <2>0 DEF ReadOrphanConversations, At
  <2>2. /\ \A n \in Natives \ unread : Has(n) => n \notin doomed
        /\ doomed \in SUBSET ConversationIds /\ NoRows \in [Ids -> Rows]
    BY <1>1, <1>4, <2>1 DEF Prunes, Has, Stored, NoRows
  <2> HIDE DEF doomed
  <2>3. /\ pass'[r] \in Frames /\ pass' = [pass EXCEPT ![r] = pass'[r]]
        /\ pass'[r].pc = "delete_conversation" /\ pass'[r].todo = doomed
        /\ pass'[r].orphans = pass[r].orphans
        /\ pass'[r].adapter = pass[r].adapter /\ pass'[r].whole = pass[r].whole
    BY <1>1, <2>1, <2>2 DEF Frames, Stages, Pruning
  <2>4. Prunes(r)'
    BY <1>1, <2>1, <2>2, <2>3 DEF Prunes, Has
  <2>5. QED
    BY <1>2, <2>1, <2>3, <2>4 DEF Pruning
<1>7. QED
  BY <1>3, <1>5, <1>6

LEMMA PruneWritesKeep ==
    ASSUME IInv, NEW r \in Refreshers, DeleteConversation(r) \/ DeleteWorkspace(r)
    PROVE  IInv'
<1> USE IdsApart DEF managedVars, historyVars
<1>1. /\ TypeInv /\ MemoryInv /\ DiscoveredComplete /\ CleanInv /\ Prunes(r) /\ Reached(r)
      /\ pass[r] \in Frames /\ pass \in [Refreshers -> Frames]
      /\ pass[r].pc = "delete_conversation"
      /\ UNCHANGED <<disk, sessions, managedVars, inFlight, historyVars>>
  BY DEF IInv, TypeInv, Local, DeleteConversation, DeleteWorkspace, At
<1>2. MemoryInv' /\ CleanInv'
  BY <1>1 DEF MemoryInv, CleanInv, Reflects, Has
<1>3. ASSUME pass'[r] \in Frames, pass' = [pass EXCEPT ![r] = pass'[r]],
             pass'[r].pc = "delete_conversation",
             pass'[r].adapter = pass[r].adapter, pass'[r].whole = pass[r].whole,
             Prunes(r)', TypeInv', DiscoveredComplete'
      PROVE  IInv'
  <2>1. Reached(r)'
    BY <1>1, <1>3, PruneReached DEF Pruning
  <2>2. Upserts(r)' /\ Matches(r)' /\ pass'[r].pc # "idle"
    BY <1>3 DEF Upserts, Matches, Upserting
  <2>3. \A o \in Refreshers \ {r} : pass'[o] = pass[o]
    BY <1>1, <1>3
  <2>4. QED
    BY <1>1, <1>2, <1>3, <2>1, <2>2, <2>3, PassMoves DEF At, Local
<1>4. CASE DeleteConversation(r)
  <2>1. PICK c \in pass[r].todo : /\ conversations' = [conversations EXCEPT ![c] = Absent]
                                  /\ pass' = [pass EXCEPT ![r].todo = @ \ {c}]
    BY <1>4 DEF DeleteConversation, Done
  <2>2. UNCHANGED workspaces
    BY <1>4 DEF DeleteConversation
  <2>3. /\ pass'[r] \in Frames /\ pass' = [pass EXCEPT ![r] = pass'[r]]
        /\ pass'[r].pc = "delete_conversation" /\ pass'[r].todo = pass[r].todo \ {c}
        /\ pass'[r].orphans = pass[r].orphans
        /\ pass'[r].adapter = pass[r].adapter /\ pass'[r].whole = pass[r].whole
    BY <1>1, <2>1 DEF Frames
  <2>4. Prunes(r)'
    BY <1>1, <2>3 DEF Prunes, Has
  <2>5. TypeInv'
    BY <1>1, <2>1, <2>2, <2>3 DEF TypeInv
  <2>6. \A n \in Natives \ unread : Has(n) => n # c
    BY <1>1 DEF Prunes
  <2>7. DiscoveredComplete'
    BY <1>1, <2>1, <2>2, <2>6 DEF DiscoveredComplete, Has, TypeInv
  <2>8. QED
    BY <1>3, <2>3, <2>4, <2>5, <2>7
<1>5. CASE DeleteWorkspace(r)
  <2>1. PICK w \in pass[r].orphans : /\ workspaces' = workspaces \ {w}
                                     /\ pass' = [pass EXCEPT ![r].orphans = @ \ {w}]
    BY <1>5 DEF DeleteWorkspace
  <2>2. UNCHANGED conversations
    BY <1>5 DEF DeleteWorkspace
  <2>3. /\ pass'[r] \in Frames /\ pass' = [pass EXCEPT ![r] = pass'[r]]
        /\ pass'[r].pc = "delete_conversation" /\ pass'[r].todo = pass[r].todo
        /\ pass'[r].orphans = pass[r].orphans \ {w}
        /\ pass'[r].adapter = pass[r].adapter /\ pass'[r].whole = pass[r].whole
    BY <1>1, <2>1 DEF Frames
  <2>4. Prunes(r)'
    BY <1>1, <2>3 DEF Prunes, Has
  <2>5. TypeInv'
    BY <1>1, <2>1, <2>2, <2>3 DEF TypeInv
  <2>6. \A n \in Natives \ unread : Has(n) => StableWorkspace(n) # w
    BY <1>1 DEF Prunes
  <2>7. DiscoveredComplete'
    BY <1>1, <2>1, <2>2, <2>6 DEF DiscoveredComplete, Has
  <2>8. QED
    BY <1>3, <2>3, <2>4, <2>5, <2>7
<1>6. QED
  BY <1>4, <1>5

-----------------------------------------------------------------------------
(* Where a pass begins and ends, and what happens around it.               *)

LEMMA BeginKeeps == ASSUME IInv, NEW r \in Refreshers, Begin(r) PROVE IInv'
<1> USE DEF storeVars, managedVars
<1>1. /\ ~inFlight /\ inFlight' = TRUE /\ pass' = [pass EXCEPT ![r].pc = "discover"]
      /\ UNCHANGED <<disk, storeVars, managedVars, clean, unread>>
  BY DEF Begin, Go
<1>2. TypeInv /\ pass \in [Refreshers -> Frames] /\ \A o \in Refreshers : pass[o].pc = "idle"
  BY <1>1 DEF IInv, TypeInv, OnePass, At
<1>3. /\ pass'[r] \in Frames /\ pass'[r].pc = "discover" /\ pass'[r].adapter = pass[r].adapter
      /\ \A o \in Refreshers \ {r} : pass'[o] = pass[o]
      /\ pass' \in [Refreshers -> Frames]
  BY <1>1, <1>2 DEF Frames, Stages
<1>4. TypeInv'
  BY <1>1, <1>2, <1>3 DEF TypeInv
<1>5. MemoryInv' /\ DiscoveredComplete' /\ CleanInv'
  BY <1>1 DEF IInv, MemoryInv, DiscoveredComplete, CleanInv, Reflects, Has
<1>6. OnePass'
  <2>1. ~At(r, "idle")' /\ \A o \in Refreshers \ {r} : At(o, "idle")' /\ pass'[o].adapter = 1
    BY <1>2, <1>3 DEF IInv, OnePass, At
  <2>2. QED
    BY <1>1, <2>1 DEF OnePass
<1>7. \A o \in Refreshers \ {r} : Local(o)'
  <2> SUFFICES ASSUME NEW o \in Refreshers \ {r}, At(o, "idle")' PROVE Local(o)'
    BY <1>2, <1>3 DEF At
  <2>1. QED
    BY DEF At, Local, Upserts, Matches, Prunes, Reached, Upserting, Matching, Pruning
<1>8. pass'[r].adapter = 1
  BY <1>2, <1>3 DEF IInv, OnePass, At
<1>9. Local(r)'
  BY <1>3, <1>8 DEF Local, Upserts, Matches, Prunes, Reached, Upserting, Matching, Pruning
<1>10. QED
  BY <1>4, <1>5, <1>6, <1>7, <1>9 DEF IInv

LEMMA NextAdapterKeeps == ASSUME IInv, NEW r \in Refreshers, NextAdapter(r) PROVE IInv'
<1> USE DEF storeVars, managedVars, historyVars
<1> DEFINE next == pass[r].adapter + 1
<1>1. /\ pass[r].pc = "delete_conversation"
      /\ pass' = [pass EXCEPT ![r] = [Idle EXCEPT !.pc = "discover", !.whole = pass[r].whole,
                                                  !.adapter = next]]
      /\ UNCHANGED <<disk, storeVars, managedVars, inFlight, historyVars>>
  BY DEF NextAdapter, PruneDone, At
<1>2. /\ Reached(r) /\ pass[r] \in Frames /\ pass \in [Refreshers -> Frames]
      /\ pass[r].adapter \in Nat /\ pass[r].whole \in BOOLEAN /\ next \in Nat
  BY DEF IInv, TypeInv, Local, Frames
<1>3. /\ pass'[r] \in Frames /\ pass' = [pass EXCEPT ![r] = pass'[r]]
      /\ pass'[r].pc = "discover" /\ pass'[r].adapter = next
      /\ pass'[r].whole = pass[r].whole
  BY <1>1, <1>2, IdleFrame DEF Frames, Stages
<1>4. Upserts(r)' /\ Matches(r)' /\ Prunes(r)'
  BY <1>3 DEF Upserts, Matches, Prunes, Upserting
<1>5. pass'[r].whole => \A i \in 1..Len(Adapters) : i < next => Reflects(Adapters[i])'
  <2> SUFFICES ASSUME pass[r].whole, NEW i \in 1..Len(Adapters), i < next
               PROVE  Reflects(Adapters[i])
    BY <1>1, <1>3 DEF Reflects, Has
  <2>1. i < pass[r].adapter \/ i = pass[r].adapter
    BY <1>2
  <2>2. QED
    BY <1>1, <1>2, <2>1 DEF Reached, Pruning, Current
<1>6. Reached(r)'
  BY <1>3, <1>5 DEF Reached, Upserting, Matching, Pruning
<1>7. QED
  BY <1>1, <1>3, <1>4, <1>6, PassReads DEF At, Local

\* No pass runs after the step.
LEMMA IdleKeeps ==
    ASSUME TypeInv', MemoryInv', DiscoveredComplete', CleanInv', inFlight' = FALSE,
           \A r \in Refreshers : At(r, "idle")' /\ pass'[r].adapter = 1
    PROVE  IInv'
<1>1. OnePass'
  BY DEF OnePass
<1>2. \A r \in Refreshers : Local(r)'
  <2> SUFFICES ASSUME NEW r \in Refreshers, At(r, "idle")' PROVE Local(r)'
    OBVIOUS
  <2>1. QED
    BY DEF At, Local, Upserts, Matches, Prunes, Reached, Upserting, Matching, Pruning
<1>3. QED
  BY <1>1, <1>2 DEF IInv

LEMMA PassOverKeeps ==
    ASSUME IInv, NEW r \in Refreshers, PassEnds(r) \/ PassFails(r) PROVE IInv'
<1> USE DEF storeVars, managedVars
<1>1. /\ ~At(r, "idle") /\ inFlight' = FALSE /\ pass' = [pass EXCEPT ![r] = Idle]
      /\ UNCHANGED <<disk, storeVars, managedVars, unread>>
  BY DEF PassEnds, PassFails, WriteFails, PruneDone, At, Writing
<1>2. TypeInv /\ pass \in [Refreshers -> Frames] /\ pass[r] \in Frames
  BY DEF IInv, TypeInv
<1>3. \A o \in Refreshers : At(o, "idle")' /\ pass'[o].adapter = 1
  BY <1>1, <1>2, IdleFrame DEF IInv, OnePass, At
<1>4. clean' \in BOOLEAN
  BY <1>2 DEF PassEnds, PassFails, TypeInv, Frames
<1>5. TypeInv'
  BY <1>1, <1>2, <1>4, IdleFrame DEF TypeInv
<1>6. MemoryInv' /\ DiscoveredComplete'
  BY <1>1 DEF IInv, MemoryInv, DiscoveredComplete
<1>7. CleanInv'
  <2>1. \A a : Reflects(a)' <=> Reflects(a)
    BY <1>1 DEF Reflects, Has
  <2>2. CASE PassFails(r)
    BY <2>1, <2>2 DEF PassFails, IInv, CleanInv
  <2>3. CASE PassEnds(r)
    <3>1. /\ pass[r].pc = "delete_conversation" /\ pass[r].adapter = Len(Adapters)
          /\ clean' = pass[r].whole
      BY <2>3 DEF PassEnds, PruneDone, At
    <3>2. ASSUME pass[r].whole, NEW i \in 1..Len(Adapters) PROVE Reflects(Adapters[i])
      <4>1. i < pass[r].adapter \/ i = pass[r].adapter
        BY <1>2, <3>1 DEF Frames
      <4>2. Reached(r)
        BY DEF IInv, Local
      <4>3. QED
        BY <3>1, <3>2, <4>1, <4>2 DEF Reached, Pruning, Current
    <3>3. QED
      BY <2>1, <3>1, <3>2 DEF CleanInv
  <2>4. QED
    BY <2>2, <2>3
<1>8. QED
  BY <1>1, <1>3, <1>5, <1>6, <1>7, IdleKeeps

LEMMA HistoryKeeps == ASSUME IInv, NEW n \in Natives, HistoryChanges(n) PROVE IInv'
<1> USE DEF storeVars, managedVars
<1>1. /\ disk' = (IF n \in disk THEN disk \ {n} ELSE disk \union {n}) /\ clean' = FALSE
      /\ pass' = [r \in Refreshers |-> [pass[r] EXCEPT !.whole = pass[r].pc = "idle"]]
      /\ UNCHANGED <<storeVars, managedVars, inFlight, unread>>
  BY DEF HistoryChanges
<1>2. ASSUME NEW r \in Refreshers
      PROVE  /\ pass'[r] \in Frames /\ pass'[r].whole = (pass[r].pc = "idle")
             /\ pass'[r].pc = pass[r].pc /\ pass'[r].adapter = pass[r].adapter
             /\ pass'[r].records = pass[r].records /\ pass'[r].todo = pass[r].todo
             /\ pass'[r].item = pass[r].item /\ pass'[r].rows = pass[r].rows
             /\ pass'[r].over = pass[r].over /\ pass'[r].plan = pass[r].plan
             /\ pass'[r].orphans = pass[r].orphans
  BY <1>1, <1>2 DEF IInv, TypeInv, Frames
<1>3. TypeInv'
  BY <1>1, <1>2 DEF IInv, TypeInv
<1>4. MemoryInv' /\ DiscoveredComplete' /\ CleanInv' /\ OnePass'
  <2>1. MemoryInv' /\ DiscoveredComplete' /\ CleanInv'
    BY <1>1 DEF IInv, MemoryInv, DiscoveredComplete, CleanInv
  <2>2. \A r \in Refreshers : (At(r, "idle")' <=> At(r, "idle")) /\ pass'[r].adapter = pass[r].adapter
    BY <1>2 DEF At
  <2>3. OnePass'
    BY <1>1, <2>2 DEF IInv, OnePass
  <2>4. QED
    BY <2>1, <2>3
<1>5. ASSUME NEW r \in Refreshers PROVE Local(r)'
  <2>1. Upserts(r)' /\ Prunes(r)'
    BY <1>1, <1>2, <1>5 DEF IInv, Local, Upserts, Prunes, Ours, Current, Has
  <2>2. Matches(r)'
    <3>1. Matches(r) /\ Planned(pass'[r]) = Planned(pass[r]) /\ UNCHANGED phase
      BY <1>1, <1>2, <1>5 DEF IInv, Local, Planned
    <3>2. QED
      BY <1>2, <1>5, <3>1 DEF Matches, Over
  <2>3. Reached(r)'
    BY <1>1, <1>2, <1>5 DEF Reached, Upserting, Matching, Pruning
  <2>4. QED
    BY <2>1, <2>2, <2>3 DEF Local
<1>6. QED
  BY <1>3, <1>4, <1>5 DEF IInv

LEMMA RestartKeeps == IInv /\ Restart => IInv'
<1> SUFFICES ASSUME IInv, Restart PROVE IInv'
  OBVIOUS
<1> USE DEF storeVars
<1>1. /\ phase' = [m \in Managed |-> IF phase[m] = "new" THEN "new" ELSE "gone"]
      /\ writer' = [m \in Managed |-> IF phase[m] = "new" THEN "off" ELSE "done"]
      /\ held' = [m \in Managed |-> NoRow] /\ inFlight' = FALSE
      /\ pass' = [r \in Refreshers |-> Idle]
      /\ UNCHANGED <<disk, storeVars, native, clean, unread>>
  BY DEF Restart
<1>2. TypeInv'
  BY <1>1, IdleFrame, RowShapes DEF IInv, TypeInv, Phases, Writers
<1>3. MemoryInv' /\ DiscoveredComplete' /\ CleanInv'
  BY <1>1, RowShapes DEF IInv, MemoryInv, DiscoveredComplete, CleanInv, Reflects, Has
<1>4. QED
  BY <1>1, <1>2, <1>3, IdleFrame, IdleKeeps DEF At

LEMMA CatalogInvariant == Spec => []IInv
<1>1. Init => IInv
  BY CatalogInit
<1>2. IInv /\ [Next]_vars => IInv'
  <2> SUFFICES ASSUME IInv, [Next]_vars PROVE IInv'
    OBVIOUS
  <2>1. ASSUME NEW r \in Refreshers, PassStep(r) PROVE IInv'
    BY <2>1, DiscoverKeeps, UpsertsKeep, MatchReadsKeep, MatchWritesKeep, ListSessionsKeeps,
       DeleteSessionKeeps, PruneReadsKeep, PruneWritesKeep, NextAdapterKeeps, PassOverKeeps
       DEF PassStep
  <2>2. CASE Next
    BY <2>1, <2>2, ManagedKeeps, BeginKeeps, HistoryKeeps, RestartKeeps DEF Next
  <2>3. CASE UNCHANGED vars
    <3> USE <2>3 DEF vars, storeVars, managedVars, passVars, historyVars
    <3>1. TypeInv' /\ MemoryInv' /\ DiscoveredComplete' /\ CleanInv' /\ OnePass'
      BY DEF IInv, TypeInv, MemoryInv, DiscoveredComplete, CleanInv, Reflects, Has, OnePass, At
    <3>2. ASSUME NEW r \in Refreshers PROVE Local(r)'
      BY <3>2 DEF IInv, Local, Upserts, Matches, Prunes, Reached, Reflects, Has, Over, Planned,
                  Ours, Current
    <3>3. QED
      BY <3>1, <3>2 DEF IInv
  <2>4. QED
    BY <2>2, <2>3
<1>3. QED
  BY <1>1, <1>2, PTL DEF Spec

-----------------------------------------------------------------------------
\* For any requests, writes that fail, reads that leave rows out and restarts, a
\* discovered session's row has its conversation and its workspace, unless the
\* snapshot a pass prunes by left that session out: a pass writes them in that
\* order, and takes this snapshot when its own writes are over.
THEOREM DiscoveredAlwaysComplete == Spec => []DiscoveredComplete
<1>1. IInv => DiscoveredComplete
  BY DEF IInv
<1>2. QED
  BY <1>1, CatalogInvariant, PTL

\* A pass never writes the row of a session that runs, although it decides by
\* snapshots that may be old: a session that has a row and has ended when asked
\* for never runs again.
THEOREM LiveRowIsAlwaysOwn == Spec => []LiveRowIsOwn
<1>1. IInv => LiveRowIsOwn
  BY DEF IInv, MemoryInv, LiveRowIsOwn, Live
<1>2. QED
  BY <1>1, CatalogInvariant, PTL

\* Whatever fails, one pass at most runs and its flag says so; and after one that
\* ended well over an unchanged history, for any adapters in any order, the
\* discovered sessions are those of that history.
THEOREM RefreshIsAlwaysSound == Spec => []RefreshIsSound
<1>1. IInv => RefreshIsSound
  <2> SUFFICES ASSUME IInv PROVE RefreshIsSound
    OBVIOUS
  <2> DEFINE active == {r \in Refreshers : ~At(r, "idle")}
  <2>1. Cardinality(active) = IF inFlight THEN 1 ELSE 0
    <3>1. CASE inFlight
      <4>1. PICK r \in Refreshers : ~At(r, "idle")
        BY <3>1 DEF IInv, OnePass
      <4>2. active = {r}
        BY <4>1 DEF IInv, OnePass
      <4> HIDE DEF active
      <4>3. QED
        BY <3>1, <4>2, FS_Singleton
    <3>2. CASE ~inFlight
      <4>1. active = {}
        BY <3>2 DEF IInv, OnePass
      <4> HIDE DEF active
      <4>2. QED
        BY <3>2, <4>1, FS_EmptySet
    <3>3. QED
      BY <3>1, <3>2
  <2>2. PassReflectsHistory
    BY DEF IInv, CleanInv, Reflects, Has, PassReflectsHistory
  <2>3. QED
    BY <2>1, <2>2 DEF RefreshIsSound, RefreshNotStuck
<1>2. QED
  BY <1>1, CatalogInvariant, PTL
-----------------------------------------------------------------------------
(* The managed sessions.  Their rows are written by starts, pumps and      *)
(* passes, each from what it read or decided some calls ago.  Four         *)
(* invariants, of which the later ones rest on the first.                  *)

\* What the start and the pump hold, and the conversation ID.
Kept(m) ==
    /\ writer[m] \in {"workspace", "conversation", "session", "persist", "persist_bind"} =>
          held[m] # NoRow
    /\ writer[m] \in {"idle", "persist", "persist_bind", "bind"} => sessions[m] # NoRow
    /\ ~held[m].matched
    /\ conversation[m] \in {m} \union {Given(n) : n \in Natives}
    /\ phase[m] = "new" => conversation[m] = m

KeptInv == conversation \in [Managed -> ConversationIds] /\ \A m \in Managed : Kept(m)

\* What a start has written is there until its session's row is, and from then on
\* unless a pass read the sessions without it.
Spared(m) ==
    m \notin raced \union unread =>
        /\ m \in Starting => ~inFlight
        /\ writer[m] \in {"conversation", "session"} \/ sessions[m] # NoRow => m \in workspaces
        /\ writer[m] = "session" \/ sessions[m] # NoRow => conversations[conversation[m]] # Absent

\* The rows that a pass writes back are in the table, as those it read are.
Rewrites(r) ==
    /\ pass[r].pc \in {"known", "known_conversation", "match", "match_conversation"} =>
          \A m \in Managed : m \in pass[r].todo => sessions[m] # NoRow
    /\ pass[r].pc = "plan" =>
          \A m \in Managed : pass[r].rows[m] # NoRow => sessions[m] # NoRow

\* The snapshot a pass prunes by has every row but those it was read without, and
\* what it prunes is of none.
Spares(r) ==
    \A m \in Managed \ (raced \union unread) : sessions[m] # NoRow =>
        /\ pass[r].pc \in {"read_orphan_workspaces", "read_orphan_conversations"} =>
              pass[r].rows[m] # NoRow
        /\ pass[r].pc \in {"read_orphan_conversations", "delete_conversation"} =>
              m \notin pass[r].orphans
        /\ pass[r].pc = "delete_conversation" => conversation[m] \notin pass[r].todo

PruneInv ==
    /\ \A m \in Managed : Spared(m)
    /\ \A r \in Refreshers : Rewrites(r) /\ Spares(r)

\* No other session has its conversation ID.
Alone(m) == \A o \in Managed \ {m} : conversation[o] # conversation[m]

\* A pass is between the two writes that tie a session.
TyingStages == {"known_conversation", "match_conversation"}
Tying(r, m) == pass[r].pc \in TyingStages /\ pass[r].item = m

Agrees(m) ==
    /\ m \notin raced \union unread /\ ~torn /\ writer[m] = "done"
    /\ sessions[m].located /\ Alone(m)
    => \/ conversations[conversation[m]] = sessions[m].native
       \/ \E r \in Refreshers : Tying(r, m)

\* What it writes next is what the row says, if the row is still its own.
Ties(r) ==
    /\ pass[r].pc = "known_conversation" /\ sessions[pass[r].item].located =>
          sessions[pass[r].item].native = pass[r].rows[pass[r].item].native
    /\ pass[r].pc = "match_conversation" /\ sessions[pass[r].item].located =>
          sessions[pass[r].item].native = Partner(r, pass[r].item)

AgreeInv == (\A m \in Managed : Agrees(m)) /\ \A r \in Refreshers : Ties(r)

\* A guess is of the session's own adapter, and no two are the same, among the
\* sessions that were in every snapshot.
Guess(m, row) == row.matched => row.native \in Natives /\ AdapterOf[row.native] = AdapterOf[m]
GuessedOnce(rows) ==
    \A m, o \in Managed \ unread :
        m # o /\ rows[m].matched /\ rows[o].matched => rows[m].native # rows[o].native

\* The guesses in the table are those of the snapshot and those of the plan, which
\* gives distinct sessions distinct conversations, none of them in the snapshot.
Guesses(r) ==
    /\ pass[r].pc \in Matching =>
          /\ \A n \in pass[r].records : Ours(r, n)
          /\ \A m \in Managed \ unread : Guess(m, pass[r].rows[m])
          /\ GuessedOnce(pass[r].rows)
          /\ \A m \in Managed \ unread : sessions[m].matched =>
                \/ pass[r].rows[m].matched /\ sessions[m].native = pass[r].rows[m].native
                \/ /\ pass[r].pc \in {"match", "match_conversation"}
                   /\ m \in Planned(pass[r]) /\ sessions[m].native = Partner(r, m)
    /\ pass[r].pc \in {"match", "match_conversation"} =>
          /\ \A p \in pass[r].plan : p[1] \in ManagedRows(r) /\ p[2] \in Candidates(r)
          /\ \A p, q \in pass[r].plan : p[1] # q[1] => p[2] # q[2]

OnceInv ==
    /\ \A m \in Managed \ unread : Guess(m, sessions[m])
    /\ GuessedOnce(sessions)
    /\ \A r \in Refreshers : Guesses(r)

-----------------------------------------------------------------------------
(* What the steps do, as far as these invariants see it.                   *)

\* Conversation IDs of managed sessions are of no discovered session.
LEMMA ConversationApart ==
    ASSUME NEW m \in Managed, Kept(m)
    PROVE  conversation[m] \notin Natives /\ conversation[m] \in ConversationIds
           /\ \A o \in Managed \ {m} : conversation[m] # o
  BY IdsAssumption, GivenAssumption DEF Kept, Ids, ConversationIds

\* A step of a start, of a session or of its pump.
ManagedMoves(m) ==
    /\ UNCHANGED <<pass, inFlight, unread>>
    /\ raced \subseteq raced' /\ (torn => torn') /\ workspaces \subseteq workspaces'
    /\ \A o \in Managed \ {m} :
          /\ writer'[o] = writer[o] /\ held'[o] = held[o] /\ sessions'[o] = sessions[o]
          /\ phase'[o] = phase[o] /\ conversation'[o] = conversation[o]
    /\ sessions'[m] \in {sessions[m], held[m]}
    /\ sessions[m] # NoRow => sessions'[m] # NoRow
    /\ sessions'[m] # NoRow => sessions[m] # NoRow \/ m \in Starting
    /\ conversation'[m] # conversation[m] => phase[m] = "new" /\ phase'[m] # "new"
    /\ \/ UNCHANGED conversations
       \/ conversations' = [conversations EXCEPT ![conversation[m]] = held[m].native]
    /\ writer'[m] = "done" /\ sessions'[m].located =>
          torn' \/ (writer[m] = "done" /\ UNCHANGED <<sessions, conversations, conversation>>)

\* Each of them, and that it keeps what it has to of its own session.
LEMMA ManagedStepMoves ==
    ASSUME IInv, KeptInv, NEW m \in Managed, ManagedStep(m)
    PROVE  /\ ManagedMoves(m) /\ Kept(m)' /\ (Spared(m) => Spared(m)')
           /\ conversation' \in [Managed -> ConversationIds]
<1> USE IdsApart, RowShapes DEF storeVars, managedVars, passVars, historyVars
<1>1. /\ sessions \in [Ids -> Rows] /\ held \in [Managed -> Rows] /\ m \in Ids
      /\ writer \in [Managed -> Writers] /\ phase \in [Managed -> Phases]
      /\ native \in [Managed -> NativeOrNone] /\ conversation \in [Managed -> ConversationIds]
      /\ conversations \in [ConversationIds -> NativeOrNone \union {Absent}]
      /\ Kept(m) /\ held[m] \in Rows /\ ~held[m].located
      /\ phase[m] = "new" => sessions[m] = NoRow /\ writer[m] = "off"
  BY DEF IInv, TypeInv, MemoryInv, KeptInv
<1>2. \A x \in NativeOrNone, live \in BOOLEAN : Copy(x, live) # NoRow /\ ~Copy(x, live).matched
  BY DEF Copy, NoRow
<1>3. ASSUME NEW named, named = None \/ named \in Natives, NEW resumed \in NativeOrNone,
             Start(m, named, resumed)
      PROVE  /\ ManagedMoves(m) /\ Kept(m)' /\ (Spared(m) => Spared(m)')
             /\ conversation' \in [Managed -> ConversationIds]
  <2>1. /\ phase[m] = "new" /\ writer[m] = "off"
        /\ phase' = [phase EXCEPT ![m] = "live"]
        /\ conversation' = [conversation EXCEPT ![m] = IF named = None THEN m ELSE Given(named)]
        /\ writer' = [writer EXCEPT ![m] = "workspace"]
        /\ held' = [held EXCEPT ![m] = Copy(resumed, TRUE)]
        /\ raced' = (IF inFlight THEN raced \union {m} ELSE raced)
        /\ UNCHANGED <<storeVars, inFlight, pass, torn, unread>>
    BY <1>3 DEF Start
  <2>2. /\ conversation'[m] \in {m} \union {Given(n) : n \in Natives}
        /\ conversation' \in [Managed -> ConversationIds]
    BY <1>1, <1>3, <2>1 DEF ConversationIds
  <2>3. ManagedMoves(m)
    BY <1>1, <2>1 DEF ManagedMoves
  <2>4. Kept(m)'
    BY <1>1, <1>2, <2>1, <2>2 DEF Kept
  <2>5. Spared(m) => Spared(m)'
    BY <1>1, <2>1 DEF Spared, Starting
  <2>6. QED
    BY <2>2, <2>3, <2>4, <2>5
<1>4. CASE StoreWorkspace(m)
  <2>1. /\ writer[m] = "workspace" /\ workspaces' = workspaces \union {m}
        /\ writer' = [writer EXCEPT ![m] = "conversation"]
        /\ UNCHANGED <<sessions, conversations, phase, conversation, held, inFlight, pass,
                       raced, torn, unread>>
    BY <1>4 DEF StoreWorkspace
  <2>2. ManagedMoves(m)
    BY <1>1, <2>1 DEF ManagedMoves
  <2>3. Kept(m)' /\ (Spared(m) => Spared(m)')
    BY <1>1, <2>1 DEF Kept, Spared, Starting
  <2>4. QED
    BY <1>1, <2>1, <2>2, <2>3
<1>5. CASE StoreConversation(m)
  <2>1. /\ writer[m] = "conversation"
        /\ conversations' = [conversations EXCEPT ![conversation[m]] = held[m].native]
        /\ writer' = [writer EXCEPT ![m] = "session"]
        /\ UNCHANGED <<sessions, workspaces, phase, conversation, held, inFlight, pass,
                       raced, torn, unread>>
    BY <1>5 DEF StoreConversation
  <2>2. ManagedMoves(m)
    BY <1>1, <2>1 DEF ManagedMoves
  <2>3. conversations'[conversation[m]] # Absent
    BY <1>1, <2>1
  <2>4. Kept(m)' /\ (Spared(m) => Spared(m)')
    BY <1>1, <2>1, <2>3 DEF Kept, Spared, Starting
  <2>5. QED
    BY <1>1, <2>1, <2>2, <2>4
<1>6. CASE StoreSession(m)
  <2>1. /\ writer[m] = "session" /\ sessions' = [sessions EXCEPT ![m] = held[m]]
        /\ writer' = [writer EXCEPT ![m] = "idle"] /\ held' = [held EXCEPT ![m] = NoRow]
        /\ UNCHANGED <<conversations, workspaces, phase, conversation, inFlight, pass,
                       raced, torn, unread>>
    BY <1>6 DEF StoreSession
  <2>2. held[m] # NoRow /\ ~NoRow.matched
    BY <1>1, <2>1 DEF Kept, NoRow
  <2>3. ManagedMoves(m)
    BY <1>1, <2>1, <2>2 DEF ManagedMoves, Starting
  <2>4. Kept(m)' /\ (Spared(m) => Spared(m)')
    BY <1>1, <2>1, <2>2 DEF Kept, Spared, Starting
  <2>5. QED
    BY <1>1, <2>1, <2>3, <2>4
<1>7. CASE StartFails(m)
  <2>1. /\ m \in Starting /\ writer' = [writer EXCEPT ![m] = "failed"]
        /\ held' = [held EXCEPT ![m] = NoRow] /\ torn'
        /\ UNCHANGED <<storeVars, phase, conversation, inFlight, pass, raced, unread>>
    BY <1>7 DEF StartFails, WriteFails
  <2>2. ManagedMoves(m)
    BY <1>1, <2>1 DEF ManagedMoves
  <2>3. ~NoRow.matched
    BY DEF NoRow
  <2>4. Kept(m)' /\ (Spared(m) => Spared(m)')
    BY <1>1, <2>1, <2>3 DEF Kept, Spared, Starting
  <2>5. QED
    BY <1>1, <2>1, <2>2, <2>4
<1>8. CASE Exit(m)
  <2>1. /\ phase[m] = "live" /\ phase' = [phase EXCEPT ![m] = "exited"]
        /\ UNCHANGED <<storeVars, conversation, writer, held, inFlight, pass, raced, torn, unread>>
    BY <1>8 DEF Exit, Live
  <2>2. ManagedMoves(m)
    BY <1>1, <2>1 DEF ManagedMoves
  <2>3. Kept(m)' /\ (Spared(m) => Spared(m)')
    BY <1>1, <2>1 DEF Kept, Spared, Starting
  <2>4. QED
    BY <1>1, <2>1, <2>2, <2>3
\* The pump: it persists, binds and persists again, and never lacks a row.
<1>9. ASSUME NEW x \in NativeOrNone, NEW next \in {"persist", "persist_bind"},
             writer[m] = "idle", writer' = [writer EXCEPT ![m] = next],
             held' = [held EXCEPT ![m] = Copy(x, Live(m))],
             UNCHANGED <<storeVars, phase, conversation, inFlight, pass, raced, torn, unread>>
      PROVE  ManagedMoves(m) /\ Kept(m)' /\ (Spared(m) => Spared(m)')
  <2>1. Copy(x, Live(m)) # NoRow /\ ~Copy(x, Live(m)).matched
    BY <1>2 DEF Live
  <2>2. ManagedMoves(m)
    BY <1>1, <1>9 DEF ManagedMoves
  <2>3. Kept(m)' /\ (Spared(m) => Spared(m)')
    BY <1>1, <1>9, <2>1 DEF Kept, Spared, Starting
  <2>4. QED
    BY <2>2, <2>3
<1>10. CASE PumpSnapshot(m)
  <2>1. native[m] \in NativeOrNone
    BY <1>1
  <2>2. QED
    BY <1>1, <1>9, <1>10, <2>1 DEF PumpSnapshot
<1>11. CASE PumpPersist(m)
  <2>1. /\ writer[m] \in {"persist", "persist_bind"}
        /\ \/ sessions' = [sessions EXCEPT ![m] = held[m]] /\ UNCHANGED torn
           \/ torn' = TRUE /\ UNCHANGED sessions
        /\ UNCHANGED <<conversations, workspaces, phase, conversation, inFlight, pass, raced, unread>>
    BY <1>11 DEF PumpPersist, WriteFails
  <2> PICK next \in {"bind", "done", "idle"} :
           /\ writer' = [writer EXCEPT ![m] = next]
           /\ held' = [held EXCEPT ![m] = IF next = "bind" THEN held[m] ELSE NoRow]
    BY <1>11 DEF PumpPersist
  <2>2. writer' = [writer EXCEPT ![m] = next]
    OBVIOUS
  <2>3. held' = [held EXCEPT ![m] = held'[m]] /\ held'[m] \in {held[m], NoRow}
    BY <1>1
  <2>4. held[m] # NoRow /\ sessions[m] # NoRow /\ ~NoRow.matched
    BY <1>1, <2>1 DEF Kept, NoRow
  <2>5. sessions'[m] # NoRow /\ sessions'[m] \in {sessions[m], held[m]}
        /\ \A id \in Ids \ {m} : sessions'[id] = sessions[id]
    BY <1>1, <2>1, <2>4
  <2>6. sessions'[m].located => torn'
    BY <1>1, <2>1
  <2>7. ManagedMoves(m)
    BY <1>1, <2>1, <2>2, <2>3, <2>4, <2>5, <2>6 DEF ManagedMoves
  <2>8. Kept(m)' /\ (Spared(m) => Spared(m)')
    BY <1>1, <2>1, <2>2, <2>3, <2>4, <2>5 DEF Kept, Spared, Starting
  <2>9. QED
    BY <1>1, <2>1, <2>7, <2>8
<1>12. CASE PumpStoreBinding(m)
  <2>1. /\ writer[m] = "bind" /\ writer' = [writer EXCEPT ![m] = "idle"]
        /\ held' = [held EXCEPT ![m] = NoRow] /\ (torn => torn')
        /\ conversations' \in {conversations,
                              [conversations EXCEPT ![conversation[m]] = held[m].native]}
        /\ UNCHANGED <<sessions, workspaces, phase, conversation, inFlight, pass, raced, unread>>
    BY <1>12 DEF PumpStoreBinding, WriteFails
  <2>2. sessions[m] # NoRow /\ ~NoRow.matched
    BY <1>1, <2>1 DEF Kept, NoRow
  <2>3. conversations[conversation[m]] # Absent => conversations'[conversation[m]] # Absent
    BY <1>1, <2>1
  <2>4. ManagedMoves(m)
    BY <1>1, <2>1 DEF ManagedMoves
  <2>5. Kept(m)' /\ (Spared(m) => Spared(m)')
    BY <1>1, <2>1, <2>2, <2>3 DEF Kept, Spared, Starting
  <2>6. QED
    BY <1>1, <2>1, <2>4, <2>5
<1>13. ASSUME NEW n \in Resumable(m), PumpBind(m, n)
       PROVE  /\ ManagedMoves(m) /\ Kept(m)' /\ (Spared(m) => Spared(m)')
              /\ conversation' \in [Managed -> ConversationIds]
  <2>1. n \in NativeOrNone
    BY DEF Resumable, NativeOrNone
  <2>2. QED
    BY <1>1, <1>9, <1>13, <2>1 DEF PumpBind
<1>14. QED
  BY <1>3, <1>4, <1>5, <1>6, <1>7, <1>8, <1>10, <1>11, <1>12, <1>13
     DEF ManagedStep, Resumable, NativeOrNone

\* The steps of a pass other than those of the matching.
Outside(r) ==
    \/ Discover(r) \/ UpsertWorkspace(r) \/ UpsertConversation(r) \/ UpsertSession(r)
    \/ ListSessions(r) \/ DeleteSession(r)
    \/ ReadReferences(r) \/ ReadOrphanWorkspaces(r) \/ ReadOrphanConversations(r)
    \/ DeleteConversation(r) \/ DeleteWorkspace(r) \/ NextAdapter(r)

\* They take nothing from a managed session whose start they did not overlap.
LEMMA OutsideMoves ==
    ASSUME IInv, KeptInv, NEW r \in Refreshers, Spares(r), Outside(r)
    PROVE  /\ ~At(r, "idle") /\ pass[r].pc \notin TyingStages
           /\ pass'[r].pc \notin Matching
           /\ \A o \in Refreshers \ {r} : pass'[o] = pass[o]
           /\ UNCHANGED <<managedVars, inFlight, raced, torn>>
           /\ \A m \in Managed : sessions'[m] = sessions[m] /\ (m \in unread => m \in unread')
           /\ \A m \in Managed \ (raced \union unread) : sessions[m] # NoRow =>
                 /\ m \in workspaces => m \in workspaces'
                 /\ conversations'[conversation[m]] = conversations[conversation[m]]
<1> USE IdsApart DEF storeVars, passVars, historyVars
<1>1. /\ pass \in [Refreshers -> Frames] /\ pass[r] \in Frames /\ sessions \in [Ids -> Rows]
      /\ conversations \in [ConversationIds -> NativeOrNone \union {Absent}]
      /\ Upserts(r) /\ Prunes(r) /\ OnePass /\ Idle.pc = "idle"
      /\ \A m \in Managed : conversation[m] \notin Natives /\ conversation[m] \in ConversationIds
  BY ConversationApart, IdleFrame DEF IInv, TypeInv, Local, KeptInv
<1>2. UNCHANGED <<managedVars, inFlight, raced, torn>>
  BY DEF Outside, Discover, UpsertWorkspace, UpsertConversation, UpsertSession, ListSessions,
         DeleteSession, ReadReferences, ReadOrphanWorkspaces, ReadOrphanConversations,
         DeleteConversation, DeleteWorkspace, NextAdapter
<1>3. /\ pass[r].pc \in Upserting \union Pruning \union {"discover", "match", "delete"}
      /\ pass[r].pc = "match" => ListSessions(r)
  BY DEF Outside, Discover, UpsertWorkspace, UpsertConversation, UpsertSession, ListSessions,
         DeleteSession, ReadReferences, ReadOrphanWorkspaces, ReadOrphanConversations,
         DeleteConversation, DeleteWorkspace, NextAdapter, PruneDone, At, Upserting, Pruning
<1>4. ~At(r, "idle") /\ pass[r].pc \notin TyingStages
  BY <1>3 DEF At, TyingStages, Upserting, Pruning
<1>5. pass' = [pass EXCEPT ![r] = pass'[r]] /\ pass'[r].pc \notin Matching
  <2> USE <1>1 DEF Frames, Matching
  <2>1. CASE Discover(r)
    <3>1. PICK read \in SUBSET {n \in disk : Ours(r, n)} :
             pass' = [pass EXCEPT ![r].records = read,
                                  ![r].whole = @ /\ read = {n \in disk : Ours(r, n)},
                                  ![r].todo = read, ![r].pc = "workspace"]
      BY <2>1 DEF Discover
    <3>2. pass'[r].pc = "workspace" /\ pass' = [pass EXCEPT ![r] = pass'[r]]
      BY <3>1
    <3>3. QED
      BY <3>2
  <2>2. CASE UpsertWorkspace(r)
    <3>1. PICK n \in pass[r].todo :
             pass' = [pass EXCEPT ![r].pc = "conversation", ![r].item = n]
      BY <2>2 DEF UpsertWorkspace
    <3>2. QED
      BY <3>1
  <2>3. CASE UpsertConversation(r) \/ UpsertSession(r) \/ DeleteSession(r)
    BY <2>3 DEF UpsertConversation, UpsertSession, DeleteSession, Go, Done, At
  <2>4. CASE ListSessions(r)
    <3>1. PICK ids, whole :
             pass' = [pass EXCEPT ![r] = [Deleting(pass[r], ids) EXCEPT !.whole = whole]]
      BY <2>4 DEF ListSessions
    <3>2. QED
      BY <3>1 DEF Deleting
  <2>5. CASE NextAdapter(r)
    <3>1. /\ pass' = [pass EXCEPT ![r] = [Idle EXCEPT !.pc = "discover", !.whole = pass[r].whole,
                                                     !.adapter = pass[r].adapter + 1]]
          /\ Idle \in Frames
      BY <2>5, IdleFrame DEF NextAdapter
    <3>2. pass'[r].pc = "discover" /\ pass' = [pass EXCEPT ![r] = pass'[r]]
      BY <3>1
    <3>3. QED
      BY <3>2
  <2>6. CASE ReadReferences(r) \/ ReadOrphanWorkspaces(r) \/ ReadOrphanConversations(r)
    <3>1. CASE ReadReferences(r)
      <4>1. PICK rows : pass' = [pass EXCEPT ![r].pc = "read_orphan_workspaces", ![r].rows = rows]
        BY <3>1 DEF ReadReferences
      <4>2. QED
        BY <4>1
    <3>2. CASE ReadOrphanWorkspaces(r)
      <4>1. PICK ids : pass' = [pass EXCEPT ![r].pc = "read_orphan_conversations", ![r].orphans = ids]
        BY <3>2 DEF ReadOrphanWorkspaces
      <4>2. QED
        BY <4>1
    <3>3. CASE ReadOrphanConversations(r)
      <4>1. PICK ids : pass' = [pass EXCEPT ![r].pc = "delete_conversation", ![r].rows = NoRows,
                                            ![r].todo = ids]
        BY <3>3 DEF ReadOrphanConversations
      <4>2. QED
        BY <4>1
    <3>4. QED
      BY <2>6, <3>1, <3>2, <3>3
  <2>7. CASE DeleteConversation(r)
    BY <2>7 DEF DeleteConversation, Done, At
  <2>8. CASE DeleteWorkspace(r)
    <3>1. PICK w \in pass[r].orphans : pass' = [pass EXCEPT ![r].orphans = @ \ {w}]
      BY <2>8 DEF DeleteWorkspace
    <3>2. QED
      BY <2>8, <3>1 DEF DeleteWorkspace, At
  <2>9. QED
    BY <2>1, <2>3, <2>4, <2>6, <2>7, <2>2, <2>5, <2>8 DEF Outside
<1>6. \A m \in Managed : sessions'[m] = sessions[m] /\ (m \in unread => m \in unread')
  <2>1. CASE UpsertSession(r)
    <3>1. pass[r].item \in Natives
      BY <1>1, <2>1 DEF UpsertSession, At, Upserts, Upserting, Frames
    <3>2. QED
      BY <1>1, <2>1, <3>1 DEF UpsertSession
  <2>2. CASE DeleteSession(r)
    <3>1. PICK n \in pass[r].todo : sessions' = [sessions EXCEPT ![n] = NoRow]
      BY <2>2 DEF DeleteSession
    <3>2. n \in Natives /\ unread' = unread
      BY <1>1, <2>2 DEF DeleteSession, At, Prunes
    <3>3. QED
      BY <1>1, <3>1, <3>2
  <2>3. QED
    BY <2>1, <2>2
       DEF Outside, Discover, UpsertWorkspace, UpsertConversation, ListSessions, ReadReferences,
           ReadOrphanWorkspaces, ReadOrphanConversations, DeleteConversation, DeleteWorkspace,
           NextAdapter
<1>7. ASSUME NEW m \in Managed \ (raced \union unread), sessions[m] # NoRow
      PROVE  /\ m \in workspaces => m \in workspaces'
             /\ conversations'[conversation[m]] = conversations[conversation[m]]
  <2>1. CASE UpsertWorkspace(r)
    BY <2>1 DEF UpsertWorkspace
  <2>2. CASE UpsertConversation(r)
    <3>1. pass[r].item \in Natives
      BY <1>1, <2>2 DEF UpsertConversation, At, Upserts, Upserting, Frames
    <3>2. QED
      BY <1>1, <2>2, <3>1 DEF UpsertConversation
  <2>3. CASE DeleteConversation(r)
    <3>1. PICK c \in pass[r].todo : conversations' = [conversations EXCEPT ![c] = Absent]
      BY <2>3 DEF DeleteConversation
    <3>2. conversation[m] # c
      BY <1>7, <2>3 DEF DeleteConversation, At, Spares
    <3>3. QED
      BY <1>1, <2>3, <3>1, <3>2 DEF DeleteConversation
  <2>4. CASE DeleteWorkspace(r)
    <3>1. PICK w \in pass[r].orphans : workspaces' = workspaces \ {w}
      BY <2>4 DEF DeleteWorkspace
    <3>2. m # w
      BY <1>7, <2>4 DEF DeleteWorkspace, At, Spares
    <3>3. QED
      BY <2>4, <3>1, <3>2 DEF DeleteWorkspace
  <2>5. QED
    BY <2>1, <2>2, <2>3, <2>4
       DEF Outside, Discover, UpsertSession, ListSessions, DeleteSession, ReadReferences,
           ReadOrphanWorkspaces, ReadOrphanConversations, NextAdapter
<1>8. QED
  BY <1>1, <1>2, <1>4, <1>5, <1>6, <1>7

-----------------------------------------------------------------------------
\* The steps of the matching, as they change the frame of the pass.
MatchStep(r) ==
    \/ ReadKnown(r) \/ SkipKnown(r) \/ UpsertKnown(r) \/ UpsertKnownConversation(r)
    \/ ReadMatch(r) \/ Plan(r) \/ UpsertMatched(r) \/ UpsertMatchedConversation(r)

LEMMA MatchStepMoves ==
    ASSUME IInv, NEW r \in Refreshers, MatchStep(r)
    PROVE  /\ ~At(r, "idle") /\ pass[r] \in Frames
           /\ \A o \in Refreshers \ {r} : pass'[o] = pass[o]
           /\ UNCHANGED <<workspaces, managedVars, inFlight, raced, torn>>
           /\ unread \subseteq unread'
           /\ pass'[r].pc \in Matching /\ pass'[r].records = pass[r].records
           /\ \A id : Ours(r, id)' <=> Ours(r, id)
<1> USE DEF storeVars, passVars, historyVars
<1>1. pass \in [Refreshers -> Frames] /\ pass[r] \in Frames
  BY DEF IInv, TypeInv
<1>2. /\ ~At(r, "idle") /\ UNCHANGED <<workspaces, managedVars, inFlight, raced, torn>>
      /\ unread \subseteq unread'
  BY DEF MatchStep, ReadKnown, SkipKnown, UpsertKnown, UpsertKnownConversation, ReadMatch, Plan,
         UpsertMatched, UpsertMatchedConversation, At
<1>3. /\ pass' = [pass EXCEPT ![r] = pass'[r]]
      /\ pass'[r].pc \in Matching /\ pass'[r].records = pass[r].records
      /\ pass'[r].adapter = pass[r].adapter
  <2> USE <1>1 DEF Frames, Matching
  <2>1. CASE ReadKnown(r) \/ SkipKnown(r) \/ ReadMatch(r)
    <3>1. CASE ReadKnown(r)
      <4>1. PICK rows, found : pass' = [pass EXCEPT ![r].pc = "known", ![r].rows = rows,
                                                    ![r].todo = found]
        BY <3>1 DEF ReadKnown
      <4>2. QED
        BY <4>1
    <3>2. CASE ReadMatch(r)
      <4>1. PICK rows, over : pass' = [pass EXCEPT ![r].pc = "plan", ![r].rows = rows,
                                                   ![r].over = over]
        BY <3>2 DEF ReadMatch
      <4>2. QED
        BY <4>1
    <3>3. CASE SkipKnown(r)
      BY <3>3 DEF SkipKnown, Done, At
    <3>4. QED
      BY <2>1, <3>1, <3>2, <3>3
  <2>2. CASE Plan(r)
    <3>1. PICK pairs : pass' = [pass EXCEPT ![r].pc = "match", ![r].plan = pairs,
                                            ![r].todo = {pair[1] : pair \in pairs}]
      BY <2>2 DEF Plan
    <3>2. QED
      BY <3>1
  <2>3. CASE UpsertKnown(r) \/ UpsertKnownConversation(r)
    BY <2>3 DEF UpsertKnown, UpsertKnownConversation
  <2>4. CASE UpsertMatched(r)
    <3>1. PICK m \in pass[r].todo :
             pass' = [pass EXCEPT ![r].pc = "match_conversation", ![r].item = m]
      BY <2>4 DEF UpsertMatched
    <3>2. QED
      BY <3>1
  <2>5. CASE UpsertMatchedConversation(r)
    BY <2>5 DEF UpsertMatchedConversation
  <2>6. QED
    BY <2>1, <2>2, <2>3, <2>4, <2>5 DEF MatchStep
<1>4. \A id : Ours(r, id)' <=> Ours(r, id)
  BY <1>3 DEF Ours, Current
<1>5. QED
  BY <1>1, <1>2, <1>3, <1>4

\* What a snapshot of the matching has of the table.
Snapped(r) ==
    \A m \in Managed : /\ pass'[r].rows[m] \in {sessions[m], NoRow}
                       /\ m \notin unread' => pass'[r].rows[m] = sessions[m]

LEMMA ReadKnownMoves ==
    ASSUME IInv, NEW r \in Refreshers, ReadKnown(r)
    PROVE  /\ pass[r].pc = "workspace" /\ pass'[r].pc = "known" /\ Snapped(r)
           /\ \A m \in Managed : m \in pass'[r].todo => sessions[m].native \in Natives
           /\ UNCHANGED <<sessions, conversations>>
<1> PICK read \in SUBSET Stored(sessions) :
       /\ pass' = [pass EXCEPT ![r].pc = "known", ![r].rows = Seen(read),
             ![r].todo = {m \in read \intersect Managed :
                /\ Ours(r, m) /\ sessions[m].native \in pass[r].records
                /\ PathOf[sessions[m].native] = PathOf[m]
                /\ Located(sessions[m]) # sessions[m]}]
       /\ unread' = unread \union (Managed \intersect (Stored(sessions) \ read))
  BY DEF ReadKnown
<1> DEFINE found == {m \in read \intersect Managed :
                 /\ Ours(r, m) /\ sessions[m].native \in pass[r].records
                 /\ PathOf[sessions[m].native] = PathOf[m]
                 /\ Located(sessions[m]) # sessions[m]}
<1>1. /\ pass[r].pc = "workspace" /\ UNCHANGED <<sessions, conversations>>
      /\ pass' = [pass EXCEPT ![r].pc = "known", ![r].rows = Seen(read), ![r].todo = found]
  BY DEF ReadKnown, At, storeVars
<1>2. /\ pass \in [Refreshers -> Frames] /\ pass[r] \in Frames
      /\ \A m \in found : sessions[m].native \in Natives
  BY DEF IInv, TypeInv, Frames
<1> HIDE DEF found
<1>3. pass'[r].pc = "known" /\ pass'[r].rows = Seen(read) /\ pass'[r].todo = found
  BY <1>1, <1>2 DEF Frames
<1>4. Snapped(r)
  BY <1>3, SeenRows, IdsApart DEF IInv, Snapped
<1>5. QED
  BY <1>1, <1>2, <1>3, <1>4

LEMMA SkipKnownMoves ==
    ASSUME IInv, NEW r \in Refreshers, SkipKnown(r)
    PROVE  /\ pass[r].pc = "known" /\ pass'[r].pc = "known" /\ pass'[r].rows = pass[r].rows
           /\ pass'[r].todo \subseteq pass[r].todo
           /\ UNCHANGED <<sessions, conversations>>
<1>1. PICK m \in pass[r].todo : pass' = [pass EXCEPT ![r].todo = @ \ {m}]
  BY DEF SkipKnown, Done
<1>2. pass[r].pc = "known" /\ UNCHANGED <<sessions, conversations>>
  BY DEF SkipKnown, At, storeVars
<1>3. pass \in [Refreshers -> Frames] /\ pass[r] \in Frames
  BY DEF IInv, TypeInv
<1>4. QED
  BY <1>1, <1>2, <1>3 DEF Frames

\* The write of a known session's row, and of its conversation.
LEMMA UpsertKnownMoves ==
    ASSUME IInv, NEW r \in Refreshers, UpsertKnown(r)
    PROVE  \E m \in Managed :
              /\ m \in pass[r].todo /\ pass[r].pc = "known"
              /\ pass'[r].pc = "known_conversation" /\ pass'[r].item = m
              /\ pass'[r].rows = pass[r].rows /\ pass'[r].todo = pass[r].todo
              /\ sessions'[m] = Located(pass[r].rows[m])
              /\ \A id \in Ids \ {m} : sessions'[id] = sessions[id]
              /\ UNCHANGED conversations
<1>1. PICK m \in pass[r].todo :
         /\ sessions' = [sessions EXCEPT ![m] = Located(pass[r].rows[m])]
         /\ pass' = [pass EXCEPT ![r].pc = "known_conversation", ![r].item = m]
  BY DEF UpsertKnown
<1>2. pass[r].pc = "known" /\ UNCHANGED conversations
  BY DEF UpsertKnown, At
<1>3. /\ pass \in [Refreshers -> Frames] /\ pass[r] \in Frames /\ sessions \in [Ids -> Rows]
      /\ m \in Managed /\ m \in Ids
  BY <1>2, IdsApart DEF IInv, TypeInv, Local, Matches
<1>4. /\ pass'[r].pc = "known_conversation" /\ pass'[r].item = m
      /\ pass'[r].rows = pass[r].rows /\ pass'[r].todo = pass[r].todo
  BY <1>1, <1>3 DEF Frames
<1>5. QED
  BY <1>1, <1>2, <1>3, <1>4

LEMMA UpsertKnownConversationMoves ==
    ASSUME IInv, NEW r \in Refreshers, UpsertKnownConversation(r)
    PROVE  /\ pass[r].pc = "known_conversation" /\ pass'[r].pc = "known"
           /\ pass[r].item \in Managed /\ pass[r].rows[pass[r].item].native \in NativeOrNone
           /\ pass'[r].rows = pass[r].rows /\ pass'[r].todo \subseteq pass[r].todo
           /\ conversations' = [conversations EXCEPT ![conversation[pass[r].item]] =
                                   pass[r].rows[pass[r].item].native]
           /\ UNCHANGED sessions
<1>1. /\ pass[r].pc = "known_conversation" /\ UNCHANGED sessions
      /\ conversations' = [conversations EXCEPT ![conversation[pass[r].item]] =
                              pass[r].rows[pass[r].item].native]
      /\ pass' = [pass EXCEPT ![r].pc = "known", ![r].todo = @ \ {pass[r].item},
                              ![r].item = None]
  BY DEF UpsertKnownConversation, At
<1>2. pass \in [Refreshers -> Frames] /\ pass[r] \in Frames /\ pass[r].item \in Managed
  BY <1>1 DEF IInv, TypeInv, Local, Matches
<1>3. pass[r].rows[pass[r].item].native \in NativeOrNone
  BY <1>2, IdsApart, RowShapes DEF Frames
<1>4. /\ pass'[r].pc = "known" /\ pass'[r].rows = pass[r].rows
      /\ pass'[r].todo \subseteq pass[r].todo
  BY <1>1, <1>2 DEF Frames
<1>5. QED
  BY <1>1, <1>2, <1>3, <1>4

LEMMA ReadMatchMoves ==
    ASSUME IInv, NEW r \in Refreshers, ReadMatch(r)
    PROVE  /\ pass[r].pc = "known" /\ pass'[r].pc = "plan" /\ Snapped(r)
           /\ UNCHANGED <<sessions, conversations>>
<1> PICK read \in SUBSET Stored(sessions) :
       /\ pass' = [pass EXCEPT ![r].pc = "plan", ![r].rows = Seen(read),
                               ![r].over = {m \in Managed : ~Live(m)}]
       /\ unread' = unread \union (Managed \intersect (Stored(sessions) \ read))
  BY DEF ReadMatch
<1>1. pass[r].pc = "known" /\ UNCHANGED <<sessions, conversations>>
  BY DEF ReadMatch, At, storeVars
<1>2. pass \in [Refreshers -> Frames] /\ pass[r] \in Frames
  BY DEF IInv, TypeInv
<1>3. pass'[r].pc = "plan" /\ pass'[r].rows = Seen(read)
  BY <1>2 DEF Frames
<1>4. Snapped(r)
  BY <1>3, SeenRows, IdsApart DEF IInv, Snapped
<1>5. QED
  BY <1>1, <1>3, <1>4

\* The matching, which gives no two sessions the same conversation: in a workspace
\* a later session takes a later one.
LEMMA GreedyApart ==
    ASSUME NEW managed \in SUBSET Managed, NEW candidates \in SUBSET Natives,
           NEW pairs \in SUBSET (managed \X candidates), IsGreedy(pairs, managed, candidates)
    PROVE  \A p, q \in pairs : p[1] # q[1] => p[2] # q[2]
<1> SUFFICES ASSUME NEW p \in pairs, NEW q \in pairs, p[1] # q[1], p[2] = q[2] PROVE FALSE
  OBVIOUS
<1> DEFINE m == p[1]
           o == q[1]
           n == p[2]
<1>1. /\ m \in managed /\ o \in managed /\ n \in candidates
      /\ <<m, n>> = p /\ <<o, n>> = q /\ m \in Ids /\ o \in Ids /\ n \in Ids
  BY IdsApart
<1>2. ASSUME NEW x \in managed, <<x, n>> \in pairs
      PROVE  /\ PathOf[n] = PathOf[x]
             /\ \A pair \in pairs : PathOf[pair[1]] = PathOf[x] /\ Before(pair[1], x)
                                       => Before(pair[2], n)
  BY <1>1, <1>2 DEF IsGreedy
<1>3. Before(m, o) \/ Before(o, m)
  BY <1>1, TimesAssumption DEF Before
<1>4. ~Before(n, n)
  BY <1>1, TimesAssumption DEF Before
<1>5. PathOf[m] = PathOf[o]
  BY <1>1, <1>2
<1>6. QED
  BY <1>1, <1>2, <1>3, <1>4, <1>5

LEMMA PlanMoves ==
    ASSUME IInv, NEW r \in Refreshers, Plan(r)
    PROVE  /\ pass[r].pc = "plan" /\ pass'[r].pc = "match" /\ pass'[r].rows = pass[r].rows
           /\ \A p \in pass'[r].plan : p[1] \in ManagedRows(r) /\ p[2] \in Candidates(r)
           /\ \A p, q \in pass'[r].plan : p[1] # q[1] => p[2] # q[2]
           /\ pass'[r].todo \subseteq ManagedRows(r)
           /\ UNCHANGED <<sessions, conversations>>
<1>1. PICK live \in SUBSET (Managed \ pass[r].over) :
         \E pairs \in SUBSET (Unmatched(r, live) \X Candidates(r)) :
            /\ IsGreedy(pairs, Unmatched(r, live), Candidates(r))
            /\ pass' = [pass EXCEPT ![r].pc = "match", ![r].plan = pairs,
                                    ![r].todo = {pair[1] : pair \in pairs}]
  BY DEF Plan
<1>2. PICK pairs \in SUBSET (Unmatched(r, live) \X Candidates(r)) :
         /\ IsGreedy(pairs, Unmatched(r, live), Candidates(r))
         /\ pass' = [pass EXCEPT ![r].pc = "match", ![r].plan = pairs,
                                 ![r].todo = {pair[1] : pair \in pairs}]
  BY <1>1
<1>3. pass[r].pc = "plan" /\ UNCHANGED <<sessions, conversations>>
  BY DEF Plan, At, storeVars
<1>4. pass \in [Refreshers -> Frames] /\ pass[r] \in Frames
  BY DEF IInv, TypeInv
<1>5. /\ Unmatched(r, live) \subseteq ManagedRows(r) /\ ManagedRows(r) \subseteq Managed
      /\ Candidates(r) \subseteq Natives
  BY <1>4 DEF Unmatched, ManagedRows, Candidates, Frames
<1>6. \A p, q \in pairs : p[1] # q[1] => p[2] # q[2]
  BY <1>2, <1>5, GreedyApart
<1>7. \A p \in pairs : p[1] \in ManagedRows(r) /\ p[2] \in Candidates(r)
  BY <1>5
<1>8. /\ pass'[r].pc = "match" /\ pass'[r].rows = pass[r].rows /\ pass'[r].plan = pairs
      /\ pass'[r].todo = {pair[1] : pair \in pairs}
  BY <1>2, <1>4 DEF Frames
<1>9. QED
  BY <1>3, <1>6, <1>7, <1>8

LEMMA PartnerInPlan ==
    ASSUME NEW r \in Refreshers, pass[r] \in Frames, NEW m \in Planned(pass[r])
    PROVE  <<m, Partner(r, m)>> \in pass[r].plan /\ Partner(r, m) \in Natives
<1>1. PICK pair \in pass[r].plan : pair[1] = m
  BY DEF Planned
<1>2. /\ (CHOOSE p \in pass[r].plan : p[1] = m) \in pass[r].plan
      /\ (CHOOSE p \in pass[r].plan : p[1] = m)[1] = m
  BY <1>1
<1>3. pass[r].plan \subseteq Managed \X Natives
  BY DEF Frames
<1>4. QED
  BY <1>2, <1>3 DEF Partner

LEMMA UpsertMatchedMoves ==
    ASSUME IInv, NEW r \in Refreshers, UpsertMatched(r)
    PROVE  \E m \in Managed :
              /\ m \in pass[r].todo /\ m \in Planned(pass[r]) /\ pass[r].pc = "match"
              /\ pass'[r].pc = "match_conversation" /\ pass'[r].item = m
              /\ pass'[r].rows = pass[r].rows /\ pass'[r].todo = pass[r].todo
              /\ pass'[r].plan = pass[r].plan
              /\ sessions'[m] = [Located(pass[r].rows[m]) EXCEPT !.native = Partner(r, m),
                                                                 !.matched = TRUE]
              /\ \A id \in Ids \ {m} : sessions'[id] = sessions[id]
              /\ UNCHANGED conversations
<1>1. PICK m \in pass[r].todo :
         /\ sessions' = [sessions EXCEPT ![m] =
                            [Located(pass[r].rows[m]) EXCEPT !.native = Partner(r, m),
                                                             !.matched = TRUE]]
         /\ pass' = [pass EXCEPT ![r].pc = "match_conversation", ![r].item = m]
  BY DEF UpsertMatched
<1>2. pass[r].pc = "match" /\ UNCHANGED conversations
  BY DEF UpsertMatched, At
<1>3. /\ pass \in [Refreshers -> Frames] /\ pass[r] \in Frames /\ sessions \in [Ids -> Rows]
      /\ m \in Managed /\ m \in Ids /\ m \in Planned(pass[r])
  BY <1>2, IdsApart, PlannedManaged DEF IInv, TypeInv, Local, Matches
<1>4. /\ pass'[r].pc = "match_conversation" /\ pass'[r].item = m
      /\ pass'[r].rows = pass[r].rows /\ pass'[r].todo = pass[r].todo
      /\ pass'[r].plan = pass[r].plan
  BY <1>1, <1>3 DEF Frames
<1>5. QED
  BY <1>1, <1>2, <1>3, <1>4

LEMMA UpsertMatchedConversationMoves ==
    ASSUME IInv, NEW r \in Refreshers, UpsertMatchedConversation(r)
    PROVE  /\ pass[r].pc = "match_conversation" /\ pass'[r].pc = "match"
           /\ pass[r].item \in Managed /\ Partner(r, pass[r].item) \in Natives
           /\ pass'[r].rows = pass[r].rows /\ pass'[r].plan = pass[r].plan
           /\ pass'[r].todo \subseteq pass[r].todo
           /\ conversations' = [conversations EXCEPT ![conversation[pass[r].item]] =
                                   Partner(r, pass[r].item)]
           /\ UNCHANGED sessions
<1>1. /\ pass[r].pc = "match_conversation" /\ UNCHANGED sessions
      /\ conversations' = [conversations EXCEPT ![conversation[pass[r].item]] =
                              Partner(r, pass[r].item)]
      /\ pass' = [pass EXCEPT ![r].pc = "match", ![r].todo = @ \ {pass[r].item},
                              ![r].item = None]
  BY DEF UpsertMatchedConversation, At
<1>2. /\ pass \in [Refreshers -> Frames] /\ pass[r] \in Frames
      /\ pass[r].item \in Planned(pass[r]) /\ pass[r].item \in Managed
  BY <1>1, PlannedManaged DEF IInv, TypeInv, Local, Matches
<1>3. /\ pass'[r].pc = "match" /\ pass'[r].rows = pass[r].rows /\ pass'[r].plan = pass[r].plan
      /\ pass'[r].todo \subseteq pass[r].todo
  BY <1>1, <1>2 DEF Frames
<1>4. QED
  BY <1>1, <1>2, <1>3, PartnerInPlan

\* Where a pass begins and ends, and what changes without one.
LEMMA AroundMoves ==
    ASSUME IInv, NEW r \in Refreshers, Begin(r) \/ PassEnds(r) \/ PassFails(r)
    PROVE  /\ UNCHANGED <<storeVars, managedVars, unread>>
           /\ \A o \in Refreshers : pass'[o].pc \in {"idle", "discover"}
           /\ Begin(r) => ~inFlight /\ raced' = raced \union Starting /\ torn' = torn
           /\ ~Begin(r) => inFlight' = FALSE /\ raced' = raced
           /\ PassEnds(r) => torn' = torn /\ ~At(r, "idle") /\ pass[r].pc \notin TyingStages
           /\ PassFails(r) => torn'
<1>1. pass \in [Refreshers -> Frames] /\ OnePass
  BY DEF IInv, TypeInv
<1>2. CASE Begin(r)
  <2>1. /\ ~inFlight /\ raced' = raced \union Starting /\ torn' = torn
        /\ UNCHANGED <<storeVars, managedVars, unread>> /\ ~PassEnds(r) /\ ~PassFails(r)
        /\ pass' = [pass EXCEPT ![r].pc = "discover"]
    BY <1>2 DEF Begin, PassEnds, PassFails, PruneDone, At, Writing, Go
  <2>2. \A o \in Refreshers : pass'[o].pc \in {"idle", "discover"}
    BY <1>1, <2>1 DEF OnePass, At, Frames
  <2>3. QED
    BY <1>2, <2>1, <2>2
<1>3. CASE ~Begin(r)
  <2>1. /\ pass' = [pass EXCEPT ![r] = Idle] /\ ~At(r, "idle") /\ Idle.pc = "idle"
        /\ UNCHANGED <<storeVars, managedVars, raced, unread>> /\ inFlight' = FALSE
        /\ PassEnds(r) => torn' = torn /\ pass[r].pc \notin TyingStages
        /\ PassFails(r) => torn'
    BY <1>3, IdleFrame DEF PassEnds, PassFails, WriteFails, PruneDone, At, Writing, TyingStages
  <2>2. \A o \in Refreshers : pass'[o].pc \in {"idle", "discover"}
    BY <1>1, <2>1 DEF OnePass, At
  <2>3. QED
    BY <1>3, <2>1, <2>2
<1>4. QED
  BY <1>2, <1>3

LEMMA HistoryMoves ==
    ASSUME IInv, NEW n \in Natives, HistoryChanges(n)
    PROVE  /\ UNCHANGED <<storeVars, managedVars, inFlight, raced, torn, unread>>
           /\ \A r \in Refreshers :
                 /\ pass'[r].pc = pass[r].pc /\ pass'[r].adapter = pass[r].adapter
                 /\ pass'[r].records = pass[r].records /\ pass'[r].todo = pass[r].todo
                 /\ pass'[r].item = pass[r].item /\ pass'[r].rows = pass[r].rows
                 /\ pass'[r].plan = pass[r].plan /\ pass'[r].orphans = pass[r].orphans
  BY DEF IInv, TypeInv, Frames, HistoryChanges

LEMMA RestartMoves ==
    ASSUME KeptInv, Restart
    PROVE  /\ UNCHANGED <<storeVars, conversation, raced, unread>> /\ torn' /\ inFlight' = FALSE
           /\ \A r \in Refreshers : pass'[r].pc = "idle"
           /\ \A m \in Managed : writer'[m] \in {"off", "done"} /\ Kept(m)'
<1>1. /\ phase' = [m \in Managed |-> IF phase[m] = "new" THEN "new" ELSE "gone"]
      /\ writer' = [m \in Managed |-> IF phase[m] = "new" THEN "off" ELSE "done"]
      /\ held' = [m \in Managed |-> NoRow] /\ pass' = [r \in Refreshers |-> Idle]
      /\ UNCHANGED <<storeVars, conversation, raced, unread>> /\ torn' /\ inFlight' = FALSE
  BY DEF Restart
<1>2. \A m \in Managed : writer'[m] \in {"off", "done"} /\ Kept(m)'
  BY <1>1 DEF KeptInv, Kept, NoRow
<1>3. QED
  BY <1>1, <1>2, IdleFrame

-----------------------------------------------------------------------------
(* What the start and the pump hold.                                       *)

LEMMA KeptInit == Init => KeptInv
<1> SUFFICES ASSUME Init PROVE KeptInv
  OBVIOUS
<1>1. /\ conversation \in [Managed -> ConversationIds]
      /\ \A m \in Managed : conversation[m] \in {m} \union {Given(n) : n \in Natives}
      /\ \A m \in Managed : m \notin Earlier => conversation[m] = m
  BY DEF Init, Resumable
<1>2. \A m \in Managed : writer[m] \in {"off", "done"} /\ ~held[m].matched
                         /\ (phase[m] = "new" => m \notin Earlier)
  BY DEF Init, NoRow
<1>3. QED
  BY <1>1, <1>2 DEF KeptInv, Kept

LEMMA KeptNext == ASSUME IInv, KeptInv, PruneInv, [Next]_vars PROVE KeptInv'
<1>1. ASSUME NEW m \in Managed, ManagedStep(m) PROVE KeptInv'
  <2>1. ManagedMoves(m) /\ Kept(m)' /\ conversation' \in [Managed -> ConversationIds]
    BY <1>1, ManagedStepMoves
  <2>2. \A o \in Managed \ {m} : Kept(o)'
    BY <2>1 DEF KeptInv, ManagedMoves, Kept
  <2>3. QED
    BY <2>1, <2>2 DEF KeptInv
<1>2. ASSUME UNCHANGED <<writer, held, phase, conversation>>,
             \A m \in Managed : sessions[m] # NoRow => sessions'[m] # NoRow
      PROVE  KeptInv'
  BY <1>2 DEF KeptInv, Kept
<1>3. ASSUME NEW r \in Refreshers, Outside(r) PROVE KeptInv'
  BY <1>2, <1>3, OutsideMoves DEF PruneInv, managedVars
<1>4. ASSUME NEW r \in Refreshers, MatchStep(r) PROVE KeptInv'
  <2>1. UNCHANGED <<writer, held, phase, conversation>>
    BY <1>4, MatchStepMoves DEF managedVars
  <2>2. \A row \in Rows : Located(row) # NoRow
    BY DEF Located, NoRow, Rows
  <2>3. \A row \in Rows : \A x : [Located(row) EXCEPT !.native = x, !.matched = TRUE].matched
    BY DEF Located, Rows
  <2>4. pass[r] \in Frames /\ pass[r].rows \in [Ids -> Rows]
    BY <1>4, MatchStepMoves DEF Frames
  <2>5. \A m \in Managed : sessions[m] # NoRow => sessions'[m] # NoRow
    <3>1. CASE UpsertKnown(r)
      BY <2>2, <2>4, <3>1, UpsertKnownMoves, IdsApart
    <3>2. CASE UpsertMatched(r)
      <4>1. PICK m \in Managed :
               /\ sessions'[m] = [Located(pass[r].rows[m]) EXCEPT !.native = Partner(r, m),
                                                                  !.matched = TRUE]
               /\ \A id \in Ids \ {m} : sessions'[id] = sessions[id]
        BY <3>2, UpsertMatchedMoves
      <4>2. sessions'[m].matched /\ ~NoRow.matched
        BY <2>3, <2>4, <4>1, IdsApart DEF NoRow
      <4>3. QED
        BY <4>1, <4>2, IdsApart
    <3>3. QED
      BY <1>4, <3>1, <3>2, ReadKnownMoves, SkipKnownMoves, UpsertKnownConversationMoves,
         ReadMatchMoves, PlanMoves, UpsertMatchedConversationMoves DEF MatchStep
  <2>6. QED
    BY <1>2, <2>1, <2>5
<1>5. ASSUME NEW r \in Refreshers, Begin(r) \/ PassEnds(r) \/ PassFails(r) PROVE KeptInv'
  BY <1>2, <1>5, AroundMoves DEF storeVars, managedVars
<1>6. ASSUME NEW n \in Natives, HistoryChanges(n) PROVE KeptInv'
  BY <1>2, <1>6, HistoryMoves DEF storeVars, managedVars
<1>7. CASE Restart
  BY <1>7, RestartMoves DEF KeptInv
<1>8. CASE UNCHANGED vars
  BY <1>2, <1>8 DEF vars, storeVars, managedVars
<1>9. QED
  BY <1>1, <1>3, <1>4, <1>5, <1>6, <1>7, <1>8 DEF Next, PassStep, Outside, MatchStep

-----------------------------------------------------------------------------
(* Pruning.                                                                *)

LEMMA PruneInit == Init => PruneInv
<1> SUFFICES ASSUME Init PROVE PruneInv
  OBVIOUS
<1>1. \A r \in Refreshers : pass[r].pc = "idle"
  BY IdleFrame DEF Init
<1>2. ASSUME NEW m \in Managed PROVE Spared(m)
  <2>1. writer[m] \in {"off", "done"} /\ (sessions[m] # NoRow => m \in Earlier) /\ workspaces = Earlier
    BY IdsApart DEF Init
  <2>2. ASSUME m \in Earlier PROVE conversations[conversation[m]] # Absent
    <3>1. /\ conversation[m] \in ConversationIds /\ native \in [Managed -> Natives \union {None}]
          /\ Earlier \subseteq Managed
      BY <2>2, IdsAssumption DEF Init
    <3>2. conversations[conversation[m]] =
              native[CHOOSE o \in Earlier : conversation[o] = conversation[m]]
      BY <2>2, <3>1 DEF Init
    <3>3. QED
      BY <2>2, <3>1, <3>2, IdsApart
  <2>3. QED
    BY <2>1, <2>2 DEF Spared, Starting
<1>3. QED
  BY <1>1, <1>2 DEF PruneInv, Rewrites, Spares

\* A step of a session is no concern of a pass: the rows it adds are of starts that
\* the pass overlaps.
LEMMA ManagedPrunes == ASSUME IInv, KeptInv, PruneInv, NEW m \in Managed, ManagedStep(m)
                       PROVE  PruneInv'
<1>1. ManagedMoves(m) /\ Spared(m)'
  BY ManagedStepMoves DEF PruneInv
<1>2. /\ \A o \in Managed : conversation[o] \in ConversationIds
      /\ conversations \in [ConversationIds -> NativeOrNone \union {Absent}]
      /\ held \in [Managed -> Rows] /\ held[m].native # Absent
  BY ConversationApart, RowShapes, IdsApart DEF IInv, TypeInv, KeptInv
<1>3. \A c \in ConversationIds : conversations[c] # Absent => conversations'[c] # Absent
  BY <1>1, <1>2 DEF ManagedMoves
<1>4. ASSUME NEW o \in Managed \ {m} PROVE Spared(o)'
  BY <1>1, <1>2, <1>3 DEF PruneInv, Spared, Starting, ManagedMoves
<1>5. ASSUME NEW r \in Refreshers PROVE Rewrites(r)' /\ Spares(r)'
  <2>1. Rewrites(r) /\ Spares(r) /\ Spared(m) /\ KeptInv /\ pass'[r] = pass[r]
    BY <1>1 DEF PruneInv, ManagedMoves
  <2>2. \A o \in Managed : sessions[o] # NoRow => sessions'[o] # NoRow
    BY <1>1 DEF ManagedMoves
  <2>3. Rewrites(r)'
    BY <2>1, <2>2 DEF Rewrites
  <2>4. ASSUME NEW o \in Managed \ (raced' \union unread'), sessions'[o] # NoRow, pass[r].pc # "idle"
        PROVE  o \in Managed \ (raced \union unread) /\ sessions[o] # NoRow /\ conversation'[o] = conversation[o]
    <3>1. inFlight /\ o \notin raced \union unread
      BY <1>1, <2>4 DEF IInv, OnePass, At, ManagedMoves
    <3>2. o # m => sessions[o] # NoRow /\ conversation'[o] = conversation[o]
      BY <1>1, <2>4 DEF ManagedMoves
    <3>3. o = m => sessions[m] # NoRow
      BY <1>1, <2>1, <2>4, <3>1 DEF ManagedMoves, Spared
    <3>4. sessions[m] # NoRow => phase[m] # "new"
      BY DEF IInv, MemoryInv
    <3>5. QED
      BY <1>1, <3>1, <3>2, <3>3, <3>4 DEF ManagedMoves
  <2>5. Spares(r)'
    BY <2>1, <2>4 DEF Spares
  <2>6. QED
    BY <2>3, <2>5
<1>6. QED
  BY <1>1, <1>4, <1>5 DEF PruneInv

\* A step of the pass, in terms of what it does to its own frame.
LEMMA PassPrunes ==
    ASSUME IInv, KeptInv, PruneInv, NEW r \in Refreshers, ~At(r, "idle"),
           \A o \in Refreshers \ {r} : pass'[o] = pass[o],
           UNCHANGED <<managedVars, inFlight, raced>>,
           \A m \in Managed : /\ sessions'[m] # NoRow => sessions[m] # NoRow
                              /\ m \in unread => m \in unread',
           \A m \in Managed \ (raced \union unread) : sessions[m] # NoRow =>
               /\ m \in workspaces => m \in workspaces'
               /\ conversations[conversation[m]] # Absent => conversations'[conversation[m]] # Absent,
           Rewrites(r)', Spares(r)'
    PROVE  PruneInv'
<1>1. inFlight
  BY DEF IInv, OnePass
<1>2. ASSUME NEW m \in Managed PROVE Spared(m)'
  <2>1. m \notin raced \union unread => m \notin Starting
    BY <1>1 DEF PruneInv, Spared
  <2>2. QED
    BY <2>1 DEF PruneInv, Spared, Starting, managedVars
<1>3. ASSUME NEW o \in Refreshers \ {r} PROVE Rewrites(o)' /\ Spares(o)'
  <2>1. pass'[o].pc = "idle"
    BY DEF IInv, OnePass, At
  <2>2. QED
    BY <2>1 DEF Rewrites, Spares
<1>4. QED
  BY <1>2, <1>3 DEF PruneInv

LEMMA OutsidePrunes == ASSUME IInv, KeptInv, PruneInv, NEW r \in Refreshers, Outside(r)
                       PROVE  PruneInv'
<1> USE DEF storeVars, managedVars
<1>1. /\ ~At(r, "idle") /\ pass'[r].pc \notin Matching
      /\ \A o \in Refreshers \ {r} : pass'[o] = pass[o]
      /\ UNCHANGED <<managedVars, inFlight, raced, torn>>
      /\ \A m \in Managed : sessions'[m] = sessions[m] /\ (m \in unread => m \in unread')
      /\ \A m \in Managed \ (raced \union unread) : sessions[m] # NoRow =>
            /\ m \in workspaces => m \in workspaces'
            /\ conversations'[conversation[m]] = conversations[conversation[m]]
  BY OutsideMoves DEF PruneInv
<1>2. Rewrites(r)'
  BY <1>1 DEF Rewrites, Matching
<1>3. /\ pass \in [Refreshers -> Frames] /\ pass[r] \in Frames /\ Spares(r) /\ Managed \subseteq Ids
      /\ \A m \in Managed : conversation[m] \in ConversationIds
  BY ConversationApart, IdsApart DEF IInv, TypeInv, PruneInv, KeptInv
<1>4. Spares(r)'
  <2>1. CASE ReadReferences(r)
    <3>1. PICK read \in SUBSET Stored(sessions) :
             /\ pass' = [pass EXCEPT ![r].pc = "read_orphan_workspaces", ![r].rows = Seen(read)]
             /\ unread' = unread \union (Stored(sessions) \ read)
      BY <2>1 DEF ReadReferences
    <3>2. pass'[r].pc = "read_orphan_workspaces" /\ pass'[r].rows = Seen(read)
      BY <1>3, <3>1 DEF Frames
    <3>3. \A m \in Managed \ unread' : Seen(read)[m] = sessions[m]
      BY <1>3, <3>1, SeenRows DEF IInv
    <3>4. QED
      BY <1>1, <3>2, <3>3 DEF Spares
  <2>2. CASE ReadOrphanWorkspaces(r)
    <3> PICK read \in SUBSET workspaces :
           pass' = [pass EXCEPT ![r].pc = "read_orphan_conversations",
                      ![r].orphans = read \ {WorkspaceOf(id) : id \in Stored(pass[r].rows)}]
      BY <2>2 DEF ReadOrphanWorkspaces
    <3> DEFINE orphans == read \ {WorkspaceOf(id) : id \in Stored(pass[r].rows)}
    <3>1. /\ pass[r].pc = "read_orphan_workspaces"
          /\ pass' = [pass EXCEPT ![r].pc = "read_orphan_conversations", ![r].orphans = orphans]
      BY <2>2 DEF ReadOrphanWorkspaces, At
    <3>2. \A m \in Managed \ (raced \union unread) : sessions[m] # NoRow => pass[r].rows[m] # NoRow /\ m \notin orphans
      BY <1>3, <3>1 DEF Spares, Stored, WorkspaceOf
    <3> HIDE DEF orphans
    <3>3. /\ pass'[r].pc = "read_orphan_conversations" /\ pass'[r].rows = pass[r].rows
          /\ pass'[r].orphans = orphans
      BY <1>3, <3>1 DEF Frames
    <3>4. QED
      BY <1>1, <3>2, <3>3 DEF Spares
  <2>3. CASE ReadOrphanConversations(r)
    <3> PICK read \in SUBSET {c \in ConversationIds : conversations[c] # Absent} :
           pass' = [pass EXCEPT ![r].pc = "delete_conversation", ![r].rows = NoRows,
                      ![r].todo = read \ {ConversationOf(id) : id \in Stored(pass[r].rows)}]
      BY <2>3 DEF ReadOrphanConversations
    <3> DEFINE doomed == read \ {ConversationOf(id) : id \in Stored(pass[r].rows)}
    <3>1. /\ pass[r].pc = "read_orphan_conversations"
          /\ pass' = [pass EXCEPT ![r].pc = "delete_conversation", ![r].rows = NoRows,
                                  ![r].todo = doomed]
      BY <2>3 DEF ReadOrphanConversations, At
    <3>2. \A m \in Managed \ (raced \union unread) : sessions[m] # NoRow =>
              m \notin pass[r].orphans /\ conversation[m] \notin doomed
      BY <1>3, <3>1 DEF Spares, Stored, ConversationOf
    <3> HIDE DEF doomed
    <3>3. /\ pass'[r].pc = "delete_conversation" /\ pass'[r].todo = doomed
          /\ pass'[r].orphans = pass[r].orphans
      BY <1>3, <3>1 DEF Frames
    <3>4. QED
      BY <1>1, <3>2, <3>3 DEF Spares
  <2>4. CASE DeleteConversation(r) \/ DeleteWorkspace(r)
    <3>1. /\ pass[r].pc = "delete_conversation" /\ pass'[r].pc = "delete_conversation"
          /\ pass'[r].todo \subseteq pass[r].todo /\ pass'[r].orphans \subseteq pass[r].orphans
      <4>1. CASE DeleteConversation(r)
        <5>1. PICK c \in pass[r].todo : pass' = [pass EXCEPT ![r].todo = @ \ {c}]
          BY <4>1 DEF DeleteConversation, Done
        <5>2. QED
          BY <1>3, <4>1, <5>1 DEF DeleteConversation, At, Frames
      <4>2. CASE DeleteWorkspace(r)
        <5>1. PICK w \in pass[r].orphans : pass' = [pass EXCEPT ![r].orphans = @ \ {w}]
          BY <4>2 DEF DeleteWorkspace
        <5>2. QED
          BY <1>3, <4>2, <5>1 DEF DeleteWorkspace, At, Frames
      <4>3. QED
        BY <2>4, <4>1, <4>2
    <3>2. QED
      BY <1>1, <1>3, <3>1 DEF Spares
  <2>5. CASE pass'[r].pc \notin Pruning
    BY <2>5 DEF Spares, Pruning
  <2>6. pass'[r].pc \in Pruning =>
           \/ ReadReferences(r) \/ ReadOrphanWorkspaces(r) \/ ReadOrphanConversations(r)
           \/ DeleteConversation(r) \/ DeleteWorkspace(r)
    <3>1. CASE Discover(r)
      <4>1. PICK read : pass' = [pass EXCEPT ![r].records = read,
                                    ![r].whole = @ /\ read = {n \in disk : Ours(r, n)},
                                    ![r].todo = read, ![r].pc = "workspace"]
        BY <3>1 DEF Discover
      <4>2. QED
        BY <1>3, <4>1 DEF Frames, Pruning
    <3>2. CASE UpsertWorkspace(r)
      <4>1. PICK n : pass' = [pass EXCEPT ![r].pc = "conversation", ![r].item = n]
        BY <3>2 DEF UpsertWorkspace
      <4>2. QED
        BY <1>3, <4>1 DEF Frames, Pruning
    <3>3. CASE UpsertConversation(r) \/ UpsertSession(r)
      BY <1>3, <3>3 DEF UpsertConversation, UpsertSession, Go, Frames, Pruning
    <3>4. CASE ListSessions(r)
      <4>1. PICK ids, whole :
               pass' = [pass EXCEPT ![r] = [Deleting(pass[r], ids) EXCEPT !.whole = whole]]
        BY <3>4 DEF ListSessions
      <4>2. QED
        BY <1>3, <4>1 DEF Frames, Deleting, Pruning
    <3>5. CASE DeleteSession(r)
      BY <1>3, <3>5 DEF DeleteSession, Done, At, Frames, Pruning
    <3>6. CASE NextAdapter(r)
      <4>1. /\ Idle \in Frames
            /\ pass' = [pass EXCEPT ![r] = [Idle EXCEPT !.pc = "discover", !.whole = pass[r].whole,
                                                        !.adapter = pass[r].adapter + 1]]
        BY <3>6, IdleFrame DEF NextAdapter
      <4>2. pass'[r].pc = "discover"
        BY <1>3, <4>1 DEF Frames
      <4>3. QED
        BY <4>2 DEF Pruning
    <3>7. QED
      BY <3>1, <3>2, <3>3, <3>4, <3>5, <3>6 DEF Outside
  <2>7. QED
    BY <2>1, <2>2, <2>3, <2>4, <2>5, <2>6
<1>5. QED
  BY <1>1, <1>2, <1>4, PassPrunes

LEMMA MatchPrunes == ASSUME IInv, KeptInv, PruneInv, NEW r \in Refreshers, MatchStep(r)
                     PROVE  PruneInv'
<1>1. /\ ~At(r, "idle") /\ pass[r] \in Frames /\ \A o \in Refreshers \ {r} : pass'[o] = pass[o]
      /\ UNCHANGED <<workspaces, managedVars, inFlight, raced, torn>> /\ pass'[r].pc \in Matching
      /\ unread \subseteq unread'
  BY MatchStepMoves
<1>2. Spares(r)'
  BY <1>1 DEF Spares, Matching
<1>3. /\ Rewrites(r) /\ KeptInv' /\ KeptInv /\ NoRow.native \notin Natives
      /\ conversations \in [ConversationIds -> NativeOrNone \union {Absent}]
      /\ \A o \in Managed : conversation[o] \in ConversationIds
  BY KeptNext, ConversationApart, IdsApart, RowShapes
     DEF IInv, TypeInv, PruneInv, Next, PassStep, MatchStep, KeptInv
<1>4. ASSUME \A m \in Managed : sessions'[m] # NoRow <=> sessions[m] # NoRow,
             \A c \in ConversationIds : conversations[c] # Absent => conversations'[c] # Absent,
             Rewrites(r)'
      PROVE  PruneInv'
  BY <1>1, <1>2, <1>3, <1>4, PassPrunes
<1>5. CASE ReadKnown(r)
  <2>1. /\ pass'[r].pc = "known" /\ UNCHANGED <<sessions, conversations>>
        /\ \A m \in Managed : m \in pass'[r].todo => sessions[m].native \in Natives
    BY <1>5, ReadKnownMoves
  <2>2. Rewrites(r)'
    BY <1>3, <2>1 DEF Rewrites
  <2>3. QED
    BY <1>4, <2>1, <2>2
<1>6. CASE SkipKnown(r)
  <2>1. Rewrites(r)' /\ UNCHANGED <<sessions, conversations>>
    BY <1>3, <1>6, SkipKnownMoves DEF Rewrites
  <2>2. QED
    BY <1>4, <2>1
<1>7. ASSUME NEW m \in Managed, m \in pass[r].todo,
             pass[r].pc \in {"known", "match"},
             pass'[r].pc \in {"known_conversation", "match_conversation"},
             pass'[r].todo = pass[r].todo, sessions'[m] # NoRow,
             \A id \in Ids \ {m} : sessions'[id] = sessions[id], UNCHANGED conversations
      PROVE  PruneInv'
  <2>1. \A o \in Managed : sessions'[o] # NoRow <=> sessions[o] # NoRow
    BY <1>3, <1>7, IdsApart DEF Rewrites
  <2>2. Rewrites(r)'
    BY <1>3, <1>7, <2>1 DEF Rewrites
  <2>3. QED
    BY <1>4, <1>7, <2>1, <2>2
<1>8. CASE UpsertKnown(r)
  <2>1. pass[r].rows \in [Ids -> Rows] /\ \A row \in Rows : Located(row) # NoRow
    BY <1>1 DEF Frames, Located, NoRow, Rows
  <2>2. QED
    BY <1>7, <1>8, <2>1, UpsertKnownMoves, IdsApart
<1>9. CASE UpsertKnownConversation(r)
  <2>1. Rewrites(r)' /\ UNCHANGED sessions
    BY <1>3, <1>9, UpsertKnownConversationMoves DEF Rewrites
  <2>2. \A c \in ConversationIds : conversations[c] # Absent => conversations'[c] # Absent
    BY <1>3, <1>9, UpsertKnownConversationMoves, IdsApart
  <2>3. QED
    BY <1>4, <2>1, <2>2
<1>10. CASE ReadMatch(r)
  <2>1. pass'[r].pc = "plan" /\ Snapped(r) /\ UNCHANGED <<sessions, conversations>>
    BY <1>10, ReadMatchMoves
  <2>2. Rewrites(r)'
    BY <2>1 DEF Rewrites, Snapped
  <2>3. QED
    BY <1>4, <2>1, <2>2
<1>11. CASE Plan(r)
  <2>1. Rewrites(r)' /\ UNCHANGED <<sessions, conversations>>
    BY <1>3, <1>11, PlanMoves DEF Rewrites, ManagedRows
  <2>2. QED
    BY <1>4, <2>1
<1>12. CASE UpsertMatched(r)
  <2>1. PICK m \in Managed :
           /\ m \in pass[r].todo /\ pass[r].pc = "match"
           /\ pass'[r].pc = "match_conversation" /\ pass'[r].todo = pass[r].todo
           /\ sessions'[m] = [Located(pass[r].rows[m]) EXCEPT !.native = Partner(r, m),
                                                              !.matched = TRUE]
           /\ \A id \in Ids \ {m} : sessions'[id] = sessions[id]
           /\ UNCHANGED conversations
    BY <1>12, UpsertMatchedMoves
  <2>2. pass[r].rows[m] \in Rows /\ ~NoRow.matched
    BY <1>1, IdsApart DEF Frames, NoRow
  <2>3. sessions'[m].matched
    BY <2>1, <2>2 DEF Located, Rows
  <2>4. QED
    BY <1>7, <2>1, <2>2, <2>3
<1>13. CASE UpsertMatchedConversation(r)
  <2>1. Rewrites(r)' /\ UNCHANGED sessions
    BY <1>3, <1>13, UpsertMatchedConversationMoves DEF Rewrites
  <2>2. \A c \in ConversationIds : conversations[c] # Absent => conversations'[c] # Absent
    BY <1>3, <1>13, UpsertMatchedConversationMoves, IdsApart
  <2>3. QED
    BY <1>4, <2>1, <2>2
<1>14. QED
  BY <1>5, <1>6, <1>8, <1>9, <1>10, <1>11, <1>12, <1>13 DEF MatchStep

LEMMA PruneNext == ASSUME IInv, KeptInv, PruneInv, [Next]_vars PROVE PruneInv'
<1> USE DEF storeVars, managedVars
<1>1. ASSUME NEW r \in Refreshers, Begin(r) \/ PassEnds(r) \/ PassFails(r) PROVE PruneInv'
  <2>1. /\ UNCHANGED <<storeVars, managedVars, unread>>
        /\ \A o \in Refreshers : pass'[o].pc \in {"idle", "discover"}
        /\ raced' = raced \union Starting \/ (inFlight' = FALSE /\ raced' = raced)
    BY <1>1, AroundMoves
  <2>2. \A m \in Managed : Spared(m)'
    BY <2>1 DEF PruneInv, Spared, Starting
  <2>3. QED
    BY <2>1, <2>2 DEF PruneInv, Rewrites, Spares
<1>2. ASSUME NEW n \in Natives, HistoryChanges(n) PROVE PruneInv'
  <2>1. \A m \in Managed : Spared(m)'
    BY <1>2, HistoryMoves DEF PruneInv, Spared, Starting
  <2>2. QED
    BY <1>2, <2>1, HistoryMoves DEF PruneInv, Rewrites, Spares
<1>3. CASE Restart
  <2>1. \A m \in Managed : Spared(m)'
    BY <1>3, RestartMoves DEF PruneInv, Spared, Starting
  <2>2. QED
    BY <1>3, <2>1, RestartMoves DEF PruneInv, Rewrites, Spares
<1>4. CASE UNCHANGED vars
  BY <1>4 DEF vars, passVars, historyVars, PruneInv, Spared, Starting, Rewrites, Spares
<1>5. QED
  BY <1>1, <1>2, <1>3, <1>4, ManagedPrunes, OutsidePrunes, MatchPrunes
     DEF Next, PassStep, Outside, MatchStep

-----------------------------------------------------------------------------
(* Ties between a session and its conversation.                            *)

LEMMA AgreeInit == Init => AgreeInv
<1> SUFFICES ASSUME Init PROVE AgreeInv
  OBVIOUS
<1>1. \A r \in Refreshers : pass[r].pc = "idle"
  BY IdleFrame DEF Init
<1>2. \A m \in Managed : ~sessions[m].located
  <2> SUFFICES ASSUME NEW m \in Managed PROVE ~sessions[m].located
    OBVIOUS
  <2>1. native[m] \in NativeOrNone
    BY DEF Init, NativeOrNone
  <2>2. QED
    BY <2>1, RowShapes, IdsApart DEF Init
<1>3. QED
  BY <1>1, <1>2 DEF AgreeInv, Agrees, Ties

\* No other session touches the row of a session or the conversation it is alone with.
LEMMA ManagedAgrees == ASSUME IInv, KeptInv, AgreeInv, NEW m \in Managed, ManagedStep(m)
                       PROVE  AgreeInv'
<1>1. ManagedMoves(m) /\ conversation' \in [Managed -> ConversationIds]
  BY ManagedStepMoves
<1>2. /\ \A o \in Managed : Kept(o) /\ ~held[o].located
      /\ \A o \in Managed : conversation[o] \in ConversationIds
      /\ conversations \in [ConversationIds -> NativeOrNone \union {Absent}]
  BY ConversationApart DEF IInv, TypeInv, MemoryInv, KeptInv
<1>3. /\ pass' = pass /\ \A o \in Managed : \A r \in Refreshers : Tying(r, o)' <=> Tying(r, o)
  BY <1>1 DEF ManagedMoves, Tying
<1>4. ASSUME NEW o \in Managed \ {m} PROVE Agrees(o)'
  <2> SUFFICES ASSUME o \notin raced' \union unread', ~torn', writer'[o] = "done", sessions'[o].located, Alone(o)'
               PROVE  \/ conversations'[conversation'[o]] = sessions'[o].native
                      \/ \E r \in Refreshers : Tying(r, o)
    BY <1>3 DEF Agrees
  <2>1. /\ o \notin raced \union unread /\ ~torn /\ writer[o] = "done" /\ sessions'[o] = sessions[o]
        /\ conversation'[o] = conversation[o]
    BY <1>1 DEF ManagedMoves
  <2>2. conversation[m] # conversation[o]
    <3>1. CASE conversation'[m] = conversation[m]
      BY <2>1, <3>1 DEF Alone
    <3>2. CASE conversation'[m] # conversation[m]
      BY <1>1, <1>2, <3>2, ConversationApart DEF ManagedMoves, Kept
    <3>3. QED
      BY <3>1, <3>2
  <2>3. Alone(o)
    BY <1>1, <2>1, <2>2 DEF Alone, ManagedMoves
  <2>4. conversations'[conversation[o]] = conversations[conversation[o]]
    BY <1>1, <1>2, <2>2 DEF ManagedMoves
  <2>5. QED
    BY <2>1, <2>3, <2>4 DEF AgreeInv, Agrees
<1>5. Agrees(m)'
  <2> SUFFICES ASSUME m \notin raced' \union unread', ~torn', writer'[m] = "done", sessions'[m].located, Alone(m)'
               PROVE  \/ conversations'[conversation'[m]] = sessions'[m].native
                      \/ \E r \in Refreshers : Tying(r, m)
    BY <1>3 DEF Agrees
  <2>1. /\ writer[m] = "done" /\ UNCHANGED <<sessions, conversations, conversation>>
        /\ m \notin raced \union unread /\ ~torn
    BY <1>1 DEF ManagedMoves
  <2>2. QED
    BY <2>1 DEF AgreeInv, Agrees, Alone
<1>6. ASSUME NEW r \in Refreshers PROVE Ties(r)'
  <2>1. Ties(r) /\ pass'[r] = pass[r] /\ Partner(r, pass[r].item)' = Partner(r, pass[r].item)
    BY <1>3 DEF AgreeInv, Partner
  <2>2. pass[r].pc \in TyingStages => pass[r].item \in Managed
    BY PlannedManaged DEF IInv, TypeInv, Local, Matches, TyingStages
  <2>3. \A o \in Managed : sessions'[o].located => sessions'[o] = sessions[o]
    BY <1>1, <1>2 DEF ManagedMoves
  <2>4. QED
    BY <2>1, <2>2, <2>3 DEF Ties, TyingStages
<1>7. QED
  BY <1>4, <1>5, <1>6 DEF AgreeInv

\* A step that leaves the managed sessions' rows and conversations alone.
LEMMA ApartAgrees ==
    ASSUME AgreeInv,
           UNCHANGED <<writer, conversation, raced, torn>>,
           \A m \in Managed : sessions'[m] = sessions[m] /\ (m \in unread => m \in unread'),
           \A m \in Managed \ (raced \union unread) : sessions[m] # NoRow =>
               conversations'[conversation[m]] = conversations[conversation[m]],
           \A r \in Refreshers : pass[r].pc \notin TyingStages /\ pass'[r].pc \notin TyingStages
    PROVE  AgreeInv'
<1>1. \A r \in Refreshers : Ties(r)'
  BY DEF Ties, TyingStages
<1>2. ASSUME NEW m \in Managed PROVE Agrees(m)'
  <2>1. ~NoRow.located
    BY DEF NoRow
  <2>2. QED
    BY <2>1 DEF AgreeInv, Agrees, Alone, Tying
<1>3. QED
  BY <1>1, <1>2 DEF AgreeInv

\* No other refresher is between two writes when one has a pass under way.
LEMMA OthersIdle ==
    ASSUME IInv, NEW r \in Refreshers, ~At(r, "idle"), NEW o \in Refreshers \ {r}
    PROVE  pass[o].pc = "idle"
  BY DEF IInv, OnePass, At

LEMMA OutsideAgrees == ASSUME IInv, KeptInv, PruneInv, AgreeInv, NEW r \in Refreshers, Outside(r)
                       PROVE  AgreeInv'
<1>1. Spares(r)
  BY DEF PruneInv
<1>2. /\ ~At(r, "idle") /\ pass[r].pc \notin TyingStages /\ pass'[r].pc \notin TyingStages
      /\ \A o \in Refreshers \ {r} : pass'[o] = pass[o]
      /\ UNCHANGED <<writer, conversation, raced, torn>>
      /\ \A m \in Managed : sessions'[m] = sessions[m] /\ (m \in unread => m \in unread')
      /\ \A m \in Managed \ (raced \union unread) : sessions[m] # NoRow =>
            conversations'[conversation[m]] = conversations[conversation[m]]
  BY <1>1, OutsideMoves DEF managedVars, TyingStages, Matching
<1>3. \A o \in Refreshers : pass[o].pc \notin TyingStages /\ pass'[o].pc \notin TyingStages
  BY <1>2, OthersIdle DEF TyingStages
<1>4. QED
  BY <1>2, <1>3, ApartAgrees

LEMMA MatchAgrees == ASSUME IInv, KeptInv, AgreeInv, NEW r \in Refreshers, MatchStep(r)
                     PROVE  AgreeInv'
<1>1. /\ ~At(r, "idle") /\ pass[r] \in Frames /\ \A o \in Refreshers \ {r} : pass'[o] = pass[o]
      /\ UNCHANGED <<workspaces, managedVars, inFlight, raced, torn>>
      /\ unread \subseteq unread'
  BY MatchStepMoves
<1>2. /\ sessions \in [Ids -> Rows] /\ pass[r].rows \in [Ids -> Rows]
      /\ conversations \in [ConversationIds -> NativeOrNone \union {Absent}]
      /\ \A m \in Managed : conversation[m] \in ConversationIds
  BY <1>1, ConversationApart DEF IInv, TypeInv, KeptInv, Frames
<1>3. \A o \in Refreshers \ {r} : pass[o].pc \notin TyingStages /\ pass'[o].pc \notin TyingStages
  BY <1>1, OthersIdle DEF TyingStages
<1>4. ASSUME UNCHANGED <<sessions, conversations>>, pass[r].pc \notin TyingStages,
             pass'[r].pc \notin TyingStages
      PROVE  AgreeInv'
  BY <1>1, <1>3, <1>4, ApartAgrees DEF managedVars
<1>5. CASE ReadKnown(r) \/ SkipKnown(r) \/ ReadMatch(r) \/ Plan(r)
  BY <1>4, <1>5, ReadKnownMoves, SkipKnownMoves, ReadMatchMoves, PlanMoves DEF TyingStages
\* The first of two writes: the row.
<1>6. ASSUME NEW m \in Managed, pass[r].pc \notin TyingStages, pass'[r].pc \in TyingStages,
             pass'[r].item = m, UNCHANGED conversations,
             \A id \in Ids \ {m} : sessions'[id] = sessions[id], Ties(r)'
      PROVE  AgreeInv'
  <2>1. ASSUME NEW o \in Managed \ {m} PROVE Agrees(o)'
    <3>1. \A x \in Refreshers : ~Tying(x, o)
      BY <1>3, <1>6 DEF Tying
    <3>2. sessions'[o] = sessions[o]
      BY <1>6, IdsApart
    <3>3. QED
      BY <1>1, <1>6, <3>1, <3>2 DEF AgreeInv, Agrees, Alone, managedVars
  <2>2. Agrees(m)'
    BY <1>6 DEF Agrees, Tying
  <2>3. \A o \in Refreshers \ {r} : Ties(o)'
    BY <1>3 DEF Ties, TyingStages
  <2>4. QED
    BY <1>6, <2>1, <2>2, <2>3 DEF AgreeInv
<1>7. CASE UpsertKnown(r)
  <2>1. PICK m \in Managed :
           /\ pass[r].pc = "known" /\ pass'[r].pc = "known_conversation" /\ pass'[r].item = m
           /\ pass'[r].rows = pass[r].rows /\ sessions'[m] = Located(pass[r].rows[m])
           /\ \A id \in Ids \ {m} : sessions'[id] = sessions[id]
           /\ UNCHANGED conversations
    BY <1>7, UpsertKnownMoves
  <2>2. pass[r].rows[m] \in Rows
    BY <1>2, IdsApart
  <2>3. sessions'[m].native = pass[r].rows[m].native
    BY <2>1, <2>2 DEF Located, Rows
  <2>4. Ties(r)'
    BY <2>1, <2>3 DEF Ties
  <2>5. QED
    BY <1>6, <2>1, <2>4 DEF TyingStages
<1>8. CASE UpsertMatched(r)
  <2>1. PICK m \in Managed :
           /\ pass[r].pc = "match" /\ pass'[r].pc = "match_conversation" /\ pass'[r].item = m
           /\ pass'[r].plan = pass[r].plan
           /\ sessions'[m] = [Located(pass[r].rows[m]) EXCEPT !.native = Partner(r, m),
                                                              !.matched = TRUE]
           /\ \A id \in Ids \ {m} : sessions'[id] = sessions[id]
           /\ UNCHANGED conversations
    BY <1>8, UpsertMatchedMoves
  <2>2. pass[r].rows[m] \in Rows
    BY <1>2, IdsApart
  <2>3. sessions'[m].native = Partner(r, m) /\ Partner(r, m)' = Partner(r, m)
    BY <2>1, <2>2 DEF Located, Rows, Partner
  <2>4. Ties(r)'
    BY <2>1, <2>3 DEF Ties, Partner
  <2>5. QED
    BY <1>6, <2>1, <2>4 DEF TyingStages
\* The second: the conversation.
<1>9. ASSUME NEW m \in Managed, m = pass[r].item, pass[r].pc \in TyingStages,
             pass'[r].pc \notin TyingStages, NEW x, UNCHANGED sessions,
             conversations' = [conversations EXCEPT ![conversation[m]] = x],
             sessions[m].located => sessions[m].native = x
      PROVE  AgreeInv'
  <2>1. ASSUME NEW o \in Managed \ {m} PROVE Agrees(o)'
    <3>1. \A y \in Refreshers : ~Tying(y, o)
      BY <1>3, <1>9 DEF Tying
    <3>2. Alone(o) => conversations'[conversation[o]] = conversations[conversation[o]]
      BY <1>2, <1>9 DEF Alone
    <3>3. QED
      BY <1>1, <1>9, <3>1, <3>2 DEF AgreeInv, Agrees, Alone, managedVars
  <2>2. Agrees(m)'
    BY <1>1, <1>2, <1>9 DEF Agrees, managedVars
  <2>3. \A o \in Refreshers : Ties(o)'
    BY <1>3, <1>9 DEF Ties, TyingStages
  <2>4. QED
    BY <2>1, <2>2, <2>3 DEF AgreeInv
<1>10. CASE UpsertKnownConversation(r)
  BY <1>9, <1>10, UpsertKnownConversationMoves DEF AgreeInv, Ties, TyingStages
<1>11. CASE UpsertMatchedConversation(r)
  <2> DEFINE m == pass[r].item
             x == Partner(r, m)
  <2>1. /\ m \in Managed /\ pass[r].pc = "match_conversation" /\ pass'[r].pc = "match"
        /\ UNCHANGED sessions
        /\ conversations' = [conversations EXCEPT ![conversation[m]] = x]
    BY <1>11, UpsertMatchedConversationMoves
  <2>2. sessions[m].located => sessions[m].native = x
    BY <2>1 DEF AgreeInv, Ties
  <2> HIDE DEF m, x
  <2>3. m = pass[r].item /\ pass[r].pc \in TyingStages /\ pass'[r].pc \notin TyingStages
    BY <2>1 DEF TyingStages, m
  <2>4. QED
    BY <1>9, <2>1, <2>2, <2>3
<1>12. QED
  BY <1>5, <1>7, <1>8, <1>10, <1>11 DEF MatchStep

LEMMA AgreeNext == ASSUME IInv, KeptInv, PruneInv, AgreeInv, [Next]_vars PROVE AgreeInv'
<1> USE DEF storeVars, managedVars
<1>1. ASSUME torn', \A r \in Refreshers : pass'[r].pc \in {"idle", "discover"} PROVE AgreeInv'
  BY <1>1 DEF AgreeInv, Agrees, Ties
<1>2. ASSUME NEW r \in Refreshers, Begin(r) \/ PassEnds(r) PROVE AgreeInv'
  <2>1. /\ UNCHANGED <<storeVars, managedVars, torn, unread>> /\ raced \subseteq raced'
        /\ \A o \in Refreshers : pass'[o].pc \in {"idle", "discover"}
    BY <1>2, AroundMoves
  <2>2. \A o \in Refreshers : pass[o].pc \notin TyingStages
    <3>1. CASE Begin(r)
      BY <3>1 DEF Begin, IInv, OnePass, At, TyingStages
    <3>2. CASE PassEnds(r)
      BY <3>2, AroundMoves, OthersIdle DEF TyingStages
    <3>3. QED
      BY <1>2, <3>1, <3>2
  <2>3. \A m \in Managed : Agrees(m)'
    BY <2>1, <2>2 DEF AgreeInv, Agrees, Alone, Tying
  <2>4. QED
    BY <2>1, <2>3 DEF AgreeInv, Ties
<1>3. ASSUME NEW r \in Refreshers, PassFails(r) PROVE AgreeInv'
  BY <1>1, <1>3, AroundMoves
<1>4. CASE Restart
  BY <1>1, <1>4, RestartMoves
<1>5. ASSUME UNCHANGED <<sessions, conversations, conversation, writer, raced, torn, unread>>,
             \A r \in Refreshers : /\ pass'[r].pc = pass[r].pc /\ pass'[r].item = pass[r].item
                                   /\ pass'[r].rows = pass[r].rows /\ pass'[r].plan = pass[r].plan
      PROVE  AgreeInv'
  <2>1. \A r \in Refreshers : Ties(r)'
    BY <1>5 DEF AgreeInv, Ties, Partner
  <2>2. \A m \in Managed, r \in Refreshers : Tying(r, m)' <=> Tying(r, m)
    BY <1>5 DEF Tying
  <2>3. \A m \in Managed : Agrees(m)'
    BY <1>5, <2>2 DEF AgreeInv, Agrees, Alone
  <2>4. QED
    BY <2>1, <2>3 DEF AgreeInv
<1>6. ASSUME NEW n \in Natives, HistoryChanges(n) PROVE AgreeInv'
  BY <1>5, <1>6, HistoryMoves
<1>7. CASE UNCHANGED vars
  BY <1>5, <1>7 DEF vars, passVars, historyVars
<1>8. QED
  BY <1>2, <1>3, <1>4, <1>6, <1>7, ManagedAgrees, OutsideAgrees, MatchAgrees
     DEF Next, PassStep, Outside, MatchStep

-----------------------------------------------------------------------------
(* Guesses.                                                                *)

LEMMA OnceInit == Init => OnceInv
<1> SUFFICES ASSUME Init PROVE OnceInv
  OBVIOUS
<1>1. \A r \in Refreshers : pass[r].pc = "idle"
  BY IdleFrame DEF Init
<1>2. \A m \in Managed : ~sessions[m].matched
  BY IdsApart DEF Init, Copy, NoRow
<1>3. QED
  BY <1>1, <1>2 DEF OnceInv, Guesses, Matching, Guess, GuessedOnce

\* While it matches, a pass knows of every guess in the table: those of its snapshot
\* are in use, and those of its plan are not.  Of the state after a step.
LEMMA GuessesOnce ==
    ASSUME NEW r \in Refreshers, pass'[r] \in Frames, pass'[r].pc \in Matching, Guesses(r)'
    PROVE  GuessedOnce(sessions)' /\ \A m \in Managed \ unread' : Guess(m, sessions'[m])
<1> DEFINE frame == pass'[r]
           table == sessions'
           tracked == Managed \ unread'
           partner(m) == (CHOOSE p \in frame.plan : p[1] = m)[2]
           ours(id) == AdapterOf[id] = Adapters[frame.adapter]
           used == {frame.rows[m].native : m \in {o \in Managed : frame.rows[o] # NoRow /\ ours(o)}}
           Read(m) == frame.rows[m].matched /\ table[m].native = frame.rows[m].native
           Taken(m) == /\ frame.pc \in {"match", "match_conversation"}
                       /\ m \in Planned(frame) /\ table[m].native = partner(m)
<1>1. /\ \A m \in tracked : Guess(m, frame.rows[m])
      /\ \A m, o \in tracked : m # o /\ frame.rows[m].matched /\ frame.rows[o].matched
             => frame.rows[m].native # frame.rows[o].native
      /\ \A n \in frame.records : ours(n) /\ n \in Natives
  BY DEF Guesses, GuessedOnce, Frames, Ours, Current
<1>2. \A m \in tracked : table[m].matched => Read(m) \/ Taken(m)
  BY DEF Guesses, Partner, Planned
<1>3. frame.pc \in {"match", "match_conversation"} =>
          /\ \A p \in frame.plan : /\ ours(p[1]) /\ p[2] \in frame.records \ used
          /\ \A p, q \in frame.plan : p[1] # q[1] => p[2] # q[2]
  BY DEF Guesses, ManagedRows, Candidates, Used, Ours, Current
<1>4. ASSUME NEW m \in tracked, Taken(m)
      PROVE  \E p \in frame.plan : p[1] = m /\ p[2] = table[m].native
  <2>1. PICK pair \in frame.plan : pair[1] = m
    BY <1>4 DEF Planned
  <2>2. (CHOOSE p \in frame.plan : p[1] = m) \in frame.plan
        /\ (CHOOSE p \in frame.plan : p[1] = m)[1] = m
    BY <2>1
  <2>3. QED
    BY <1>4, <2>2
<1>5. ASSUME NEW m \in tracked, Taken(m)
      PROVE  ours(m) /\ table[m].native \in frame.records \ used
  BY <1>3, <1>4, <1>5
<1>6. ASSUME NEW m \in tracked, Read(m), ours(m)
      PROVE  table[m].native \in used
  <2>1. frame.rows[m] # NoRow
    BY <1>6 DEF NoRow
  <2>2. QED
    BY <1>6, <2>1
<1>7. ASSUME NEW m \in tracked, Read(m), ~ours(m)
      PROVE  ~ours(table[m].native)
  BY <1>1, <1>7 DEF Guess
<1>8. \A m \in tracked : Read(m) \/ Taken(m) => Guess(m, table[m])
  BY <1>1, <1>5 DEF Guess
<1> HIDE DEF ours, used
<1>9. ASSUME NEW m \in tracked, NEW o \in tracked, Read(m), Taken(o)
      PROVE  table[m].native # table[o].native
  BY <1>1, <1>5, <1>6, <1>7, <1>9
<1>10. ASSUME NEW m \in tracked, NEW o \in tracked, m # o, Taken(m), Taken(o)
       PROVE  table[m].native # table[o].native
  <2>1. PICK p \in frame.plan : p[1] = m /\ p[2] = table[m].native
    BY <1>4, <1>10
  <2>2. PICK q \in frame.plan : q[1] = o /\ q[2] = table[o].native
    BY <1>4, <1>10
  <2>3. QED
    BY <1>3, <1>10, <2>1, <2>2
<1>11. ASSUME NEW m \in tracked, NEW o \in tracked, m # o, Read(m), Read(o)
       PROVE  table[m].native # table[o].native
  BY <1>1, <1>11
<1> HIDE DEF Read, Taken
<1>12. ASSUME NEW m \in tracked, NEW o \in tracked, m # o, table[m].matched, table[o].matched
       PROVE  table[m].native # table[o].native
  <2>1. (Read(m) \/ Taken(m)) /\ (Read(o) \/ Taken(o))
    BY <1>2, <1>12
  <2>2. QED
    BY <1>9, <1>10, <1>11, <1>12, <2>1
<1>13. \A m \in tracked : Guess(m, table[m])
  BY <1>2, <1>8 DEF Guess
<1>14. QED
  BY <1>12, <1>13 DEF GuessedOnce

\* A pump only ever takes guesses back.
LEMMA ManagedOnce == ASSUME IInv, KeptInv, OnceInv, NEW m \in Managed, ManagedStep(m)
                     PROVE  OnceInv'
<1>1. ManagedMoves(m) /\ Kept(m)
  BY ManagedStepMoves DEF KeptInv
<1>2. /\ pass' = pass /\ unread' = unread
      /\ \A o \in Managed : sessions'[o].matched => sessions'[o] = sessions[o]
  BY <1>1 DEF ManagedMoves, Kept
<1>3. (\A o \in Managed \ unread' : Guess(o, sessions'[o])) /\ GuessedOnce(sessions)'
  BY <1>2 DEF OnceInv, Guess, GuessedOnce
<1>4. ASSUME NEW r \in Refreshers PROVE Guesses(r)'
  <2>1. /\ Guesses(r) /\ ManagedRows(r)' = ManagedRows(r) /\ Candidates(r)' = Candidates(r)
        /\ \A id : (Ours(r, id)' <=> Ours(r, id)) /\ Partner(r, id)' = Partner(r, id)
    BY <1>2 DEF OnceInv, ManagedRows, Candidates, Used, Ours, Current, Partner
  <2>2. QED
    BY <1>2, <2>1 DEF Guesses, GuessedOnce
<1>5. QED
  BY <1>3, <1>4 DEF OnceInv

\* No guess is made outside the matching.
LEMMA OutsideOnce == ASSUME IInv, KeptInv, PruneInv, OnceInv, NEW r \in Refreshers, Outside(r)
                     PROVE  OnceInv'
<1>1. /\ ~At(r, "idle") /\ pass'[r].pc \notin Matching
      /\ \A o \in Refreshers \ {r} : pass'[o] = pass[o]
      /\ \A m \in Managed : sessions'[m] = sessions[m] /\ (m \in unread => m \in unread')
  BY OutsideMoves DEF PruneInv
<1>2. (\A m \in Managed \ unread' : Guess(m, sessions'[m])) /\ GuessedOnce(sessions)'
  BY <1>1 DEF OnceInv, Guess, GuessedOnce
<1>3. \A o \in Refreshers : pass'[o].pc \notin Matching
  BY <1>1, OthersIdle DEF Matching
<1>4. \A o \in Refreshers : Guesses(o)'
  BY <1>3 DEF Guesses, Matching
<1>5. QED
  BY <1>2, <1>4 DEF OnceInv

LEMMA MatchOnce == ASSUME IInv, OnceInv, NEW r \in Refreshers, MatchStep(r) PROVE OnceInv'
<1>1. /\ ~At(r, "idle") /\ pass[r] \in Frames /\ \A o \in Refreshers \ {r} : pass'[o] = pass[o]
      /\ pass'[r].pc \in Matching /\ pass'[r].records = pass[r].records
      /\ unread \subseteq unread' /\ \A id : Ours(r, id)' <=> Ours(r, id)
  BY MatchStepMoves
<1>2. /\ sessions \in [Ids -> Rows] /\ pass[r].rows \in [Ids -> Rows] /\ Guesses(r)
      /\ (\A m \in Managed \ unread : Guess(m, sessions[m])) /\ GuessedOnce(sessions)
      /\ pass'[r] \in Frames
  <2>1. TypeInv'
    BY MatchReadsKeep, MatchWritesKeep DEF MatchStep, IInv
  <2>2. QED
    BY <1>1, <2>1 DEF IInv, TypeInv, Frames, OnceInv
<1>3. ASSUME Guesses(r)' PROVE OnceInv'
  <2>1. (\A m \in Managed \ unread' : Guess(m, sessions'[m])) /\ GuessedOnce(sessions)'
    BY <1>1, <1>2, <1>3, GuessesOnce
  <2>2. \A o \in Refreshers \ {r} : Guesses(o)'
    BY <1>1, OthersIdle DEF Guesses, Matching
  <2>3. QED
    BY <1>3, <2>1, <2>2 DEF OnceInv
\* A snapshot has the guesses of the table.
<1>4. ASSUME Snapped(r), UNCHANGED sessions, pass'[r].pc \in {"known", "plan"},
             \A n \in pass[r].records : Ours(r, n)
      PROVE  OnceInv'
  <2>1. \A m \in Managed \ unread' : pass'[r].rows[m] = sessions[m] /\ m \notin unread
    BY <1>1, <1>4 DEF Snapped
  <2>2. /\ \A m \in Managed \ unread' : Guess(m, pass'[r].rows[m])
        /\ GuessedOnce(pass[r].rows)'
        /\ \A m \in Managed \ unread' : sessions'[m].matched =>
              pass'[r].rows[m].matched /\ sessions'[m].native = pass'[r].rows[m].native
    BY <1>2, <1>4, <2>1 DEF GuessedOnce
  <2>3. \A n \in pass'[r].records : Ours(r, n)'
    BY <1>1, <1>4
  <2>4. Guesses(r)'
    BY <1>4, <2>2, <2>3 DEF Guesses
  <2>5. QED
    BY <1>3, <2>4
\* Steps that keep the snapshot, and the plan if there is one.
<1>5. ASSUME pass[r].pc \in Matching, pass'[r].rows = pass[r].rows,
             pass'[r].pc \in {"known", "known_conversation"},
             \A m \in Managed \ unread : sessions'[m].matched =>
                 pass[r].rows[m].matched /\ sessions'[m].native = pass[r].rows[m].native
      PROVE  OnceInv'
  <2>1. Guesses(r)'
    BY <1>1, <1>2, <1>5 DEF Guesses, GuessedOnce
  <2>2. QED
    BY <1>3, <2>1
<1>6. ASSUME pass[r].pc \in Matching, pass'[r].rows = pass[r].rows,
             pass'[r].pc \in {"match", "match_conversation"},
             \A p \in pass'[r].plan : p[1] \in ManagedRows(r) /\ p[2] \in Candidates(r),
             \A p, q \in pass'[r].plan : p[1] # q[1] => p[2] # q[2],
             \A m \in Managed \ unread : sessions'[m].matched =>
                 \/ pass[r].rows[m].matched /\ sessions'[m].native = pass[r].rows[m].native
                 \/ m \in Planned(pass'[r]) /\ sessions'[m].native = Partner(r, m)'
      PROVE  OnceInv'
  <2>1. ManagedRows(r)' = ManagedRows(r)
    BY <1>1, <1>6 DEF ManagedRows
  <2>2. Candidates(r)' = Candidates(r)
    BY <1>1, <1>6, <2>1 DEF Candidates, Used
  <2>3. Planned(pass[r])' = Planned(pass'[r])
    BY DEF Planned
  <2>4. Guesses(r)'
    BY <1>1, <1>2, <1>6, <2>1, <2>2, <2>3 DEF Guesses, GuessedOnce
  <2>5. QED
    BY <1>3, <2>4
<1>7. CASE ReadKnown(r) \/ ReadMatch(r)
  <2>1. \A n \in pass[r].records : Ours(r, n)
    <3>1. CASE ReadKnown(r)
      BY <3>1, ReadKnownMoves DEF IInv, Local, Upserts, Upserting
    <3>2. CASE ReadMatch(r)
      BY <1>2, <3>2, ReadMatchMoves DEF Guesses, Matching
    <3>3. QED
      BY <1>7, <3>1, <3>2
  <2>2. QED
    BY <1>4, <1>7, <2>1, ReadKnownMoves, ReadMatchMoves
<1>8. CASE SkipKnown(r) \/ UpsertKnownConversation(r)
  <2>1. /\ pass[r].pc \in {"known", "known_conversation"} /\ pass'[r].pc = "known"
        /\ pass'[r].rows = pass[r].rows /\ UNCHANGED sessions
    BY <1>8, SkipKnownMoves, UpsertKnownConversationMoves
  <2>2. \A m \in Managed \ unread : sessions[m].matched =>
            pass[r].rows[m].matched /\ sessions[m].native = pass[r].rows[m].native
    BY <1>2, <2>1 DEF Guesses, Matching
  <2>3. QED
    BY <1>5, <2>1, <2>2 DEF Matching
<1>9. CASE UpsertKnown(r)
  <2>1. PICK m \in Managed :
           /\ pass[r].pc = "known" /\ pass'[r].pc = "known_conversation"
           /\ pass'[r].rows = pass[r].rows /\ sessions'[m] = Located(pass[r].rows[m])
           /\ \A id \in Ids \ {m} : sessions'[id] = sessions[id]
    BY <1>9, UpsertKnownMoves
  <2>2. pass[r].rows[m] \in Rows
    BY <1>2, IdsApart
  <2>3. /\ sessions'[m].matched = pass[r].rows[m].matched
        /\ sessions'[m].native = pass[r].rows[m].native
    BY <2>1, <2>2 DEF Located, Rows
  <2>4. \A o \in Managed \ unread : sessions'[o].matched =>
            pass[r].rows[o].matched /\ sessions'[o].native = pass[r].rows[o].native
    BY <1>2, <2>1, <2>3, IdsApart DEF Guesses, Matching
  <2>5. QED
    BY <1>5, <2>1, <2>4 DEF Matching
<1>10. CASE Plan(r)
  <2>1. /\ pass[r].pc = "plan" /\ pass'[r].pc = "match" /\ pass'[r].rows = pass[r].rows
        /\ \A p \in pass'[r].plan : p[1] \in ManagedRows(r) /\ p[2] \in Candidates(r)
        /\ \A p, q \in pass'[r].plan : p[1] # q[1] => p[2] # q[2]
        /\ UNCHANGED sessions
    BY <1>10, PlanMoves
  <2>2. \A m \in Managed \ unread : sessions[m].matched =>
            pass[r].rows[m].matched /\ sessions[m].native = pass[r].rows[m].native
    BY <1>2, <2>1 DEF Guesses, Matching
  <2>3. QED
    BY <1>6, <2>1, <2>2 DEF Matching
<1>11. CASE UpsertMatched(r)
  <2>1. PICK m \in Managed :
           /\ m \in Planned(pass[r]) /\ pass[r].pc = "match"
           /\ pass'[r].pc = "match_conversation"
           /\ pass'[r].rows = pass[r].rows /\ pass'[r].plan = pass[r].plan
           /\ sessions'[m] = [Located(pass[r].rows[m]) EXCEPT !.native = Partner(r, m),
                                                              !.matched = TRUE]
           /\ \A id \in Ids \ {m} : sessions'[id] = sessions[id]
    BY <1>11, UpsertMatchedMoves
  <2>2. pass[r].rows[m] \in Rows
    BY <1>2, IdsApart
  <2>3. sessions'[m].native = Partner(r, m)
    BY <2>1, <2>2 DEF Located, Rows
  <2>4. (\A o : Partner(r, o)' = Partner(r, o)) /\ Planned(pass'[r]) = Planned(pass[r])
    BY <2>1 DEF Partner, Planned
  <2>5. /\ \A p \in pass[r].plan : p[1] \in ManagedRows(r) /\ p[2] \in Candidates(r)
        /\ \A p, q \in pass[r].plan : p[1] # q[1] => p[2] # q[2]
    BY <1>2, <2>1 DEF Guesses
  <2>6. ASSUME NEW o \in Managed \ unread, sessions'[o].matched
        PROVE  \/ pass[r].rows[o].matched /\ sessions'[o].native = pass[r].rows[o].native
               \/ o \in Planned(pass'[r]) /\ sessions'[o].native = Partner(r, o)'
    <3>1. CASE o = m
      BY <2>1, <2>3, <2>4, <3>1
    <3>2. CASE o # m
      BY <1>2, <2>1, <2>4, <2>6, <3>2, IdsApart DEF Guesses, Matching
    <3>3. QED
      BY <3>1, <3>2
  <2>7. QED
    BY <1>6, <2>1, <2>5, <2>6 DEF Matching
<1>12. CASE UpsertMatchedConversation(r)
  <2>1. /\ pass[r].pc = "match_conversation" /\ pass'[r].pc = "match"
        /\ pass'[r].rows = pass[r].rows /\ pass'[r].plan = pass[r].plan /\ UNCHANGED sessions
    BY <1>12, UpsertMatchedConversationMoves
  <2>2. (\A o : Partner(r, o)' = Partner(r, o)) /\ Planned(pass'[r]) = Planned(pass[r])
    BY <2>1 DEF Partner, Planned
  <2>3. QED
    BY <1>2, <1>6, <2>1, <2>2 DEF Guesses, Matching
<1>13. QED
  BY <1>7, <1>8, <1>9, <1>10, <1>11, <1>12 DEF MatchStep

LEMMA OnceNext == ASSUME IInv, KeptInv, PruneInv, OnceInv, [Next]_vars PROVE OnceInv'
<1> USE DEF storeVars
<1>1. ASSUME UNCHANGED <<sessions, unread>>, \A r \in Refreshers : pass'[r].pc \in {"idle", "discover"}
      PROVE  OnceInv'
  <2>1. \A r \in Refreshers : Guesses(r)'
    BY <1>1 DEF Guesses, Matching
  <2>2. QED
    BY <1>1, <2>1 DEF OnceInv, GuessedOnce
<1>2. ASSUME NEW r \in Refreshers, Begin(r) \/ PassEnds(r) \/ PassFails(r) PROVE OnceInv'
  BY <1>1, <1>2, AroundMoves
<1>3. CASE Restart
  BY <1>1, <1>3, RestartMoves
<1>4. ASSUME UNCHANGED <<sessions, unread>>,
             \A r \in Refreshers :
                /\ pass'[r].pc = pass[r].pc /\ pass'[r].adapter = pass[r].adapter
                /\ pass'[r].records = pass[r].records /\ pass'[r].rows = pass[r].rows
                /\ pass'[r].plan = pass[r].plan
      PROVE  OnceInv'
  <2>1. ASSUME NEW r \in Refreshers PROVE Guesses(r)'
    <3>1. /\ \A id : (Ours(r, id)' <=> Ours(r, id)) /\ Partner(r, id)' = Partner(r, id)
          /\ Planned(pass[r])' = Planned(pass[r])
      BY <1>4 DEF Ours, Current, Partner, Planned
    <3>2. ManagedRows(r)' = ManagedRows(r)
      BY <1>4, <3>1 DEF ManagedRows
    <3>3. Candidates(r)' = Candidates(r)
      BY <1>4, <3>2 DEF Candidates, Used
    <3>4. QED
      BY <1>4, <3>1, <3>2, <3>3 DEF OnceInv, Guesses, GuessedOnce
  <2>2. QED
    BY <1>4, <2>1 DEF OnceInv, GuessedOnce
<1>5. ASSUME NEW n \in Natives, HistoryChanges(n) PROVE OnceInv'
  BY <1>4, <1>5, HistoryMoves
<1>6. CASE UNCHANGED vars
  BY <1>4, <1>6 DEF vars, passVars, historyVars
<1>7. QED
  BY <1>2, <1>3, <1>5, <1>6, ManagedOnce, OutsideOnce, MatchOnce
     DEF Next, PassStep, Outside, MatchStep

-----------------------------------------------------------------------------
LEMMA ManagedInvariant == Spec => [](IInv /\ KeptInv /\ PruneInv /\ AgreeInv /\ OnceInv)
<1> DEFINE All == IInv /\ KeptInv /\ PruneInv /\ AgreeInv /\ OnceInv
<1>1. Init => All
  BY CatalogInit, KeptInit, PruneInit, AgreeInit, OnceInit
<1>2. All /\ IInv' /\ [Next]_vars => All'
  BY KeptNext, PruneNext, AgreeNext, OnceNext
<1>3. QED
  BY <1>1, <1>2, CatalogInvariant, PTL DEF Spec

\* For any sessions, requests, failures and restarts, a session whose start no pass
\* overlapped keeps its conversation and its workspace, unless a pass's read of the
\* sessions left its row out: a pass that saw the row spares what it refers to, and
\* no row that was not yet there can appear by the time it prunes.
THEOREM PruneAlwaysSpares == Spec => []PruneSparesReferenced
<1>1. PruneInv => PruneSparesReferenced
  BY DEF PruneInv, Spared, PruneSparesReferenced, Complete
<1>2. QED
  BY <1>1, ManagedInvariant, PTL

\* The two writes that tie a finished session to its native conversation, of its row
\* and then of its conversation, are of the same one when both were done, although a
\* pump may write the row between them, unless a pass's read of the sessions left
\* this one out and its prune took the conversation.
THEOREM MappingAlwaysAgrees == Spec => []MappingAgrees
<1>1. IInv /\ AgreeInv => MappingAgrees
  <2> SUFFICES ASSUME IInv, AgreeInv, ~inFlight, ~torn,
                      NEW m \in Managed \ (raced \union unread), writer[m] = "done", sessions[m].located,
                      \A o \in Managed \ {m} : conversation[o] # conversation[m]
               PROVE  conversations[conversation[m]] = sessions[m].native
    BY DEF MappingAgrees
  <2>1. \A r \in Refreshers : ~Tying(r, m)
    BY DEF IInv, OnePass, At, Tying, TyingStages
  <2>2. QED
    BY <2>1 DEF AgreeInv, Agrees, Alone
<1>2. QED
  BY <1>1, ManagedInvariant, PTL

\* For any times, windows, adapters and workspaces, however many passes match while
\* pumps write: no two sessions that were in every snapshot a pass took are given
\* one native conversation by guess.
THEOREM AlwaysMatchedOnce == Spec => []MatchedOnce
<1>1. OnceInv => MatchedOnce
  BY DEF OnceInv, GuessedOnce, MatchedOnce
<1>2. QED
  BY <1>1, ManagedInvariant, PTL
=============================================================================
