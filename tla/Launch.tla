-------------------------------- MODULE Launch --------------------------------
(***************************************************************************)
(* What a session is started with: internal/adapter (the adapters, their   *)
(* version profiles and how one is resolved) and, of internal/app/app.go,  *)
(* handleStartSession with the command line and the environment it builds  *)
(* for the agent.                                                          *)
(*                                                                         *)
(* A version is the sequence of its numbers, without what follows "-" or   *)
(* "+".  An argument of a command line is a string; options that the code  *)
(* treats alike are one.  What the start leaves in the stores is           *)
(* SessionStore's.                                                         *)
(***************************************************************************)
EXTENDS Naturals, Sequences

CONSTANTS
    Directories,    \* sets of adapter files
    Requests,       \* what clients ask for
    Detected,       \* what an agent's --version may say, <<>> for nothing
    FreshIds,       \* ids the server makes
    ServerEnv       \* the environment the server runs in

VARIABLES
    adapters,   \* App.adapters, by name
    session     \* the session that is started

launchVars == <<adapters, session>>

NoSession == [id |-> "none"]

-----------------------------------------------------------------------------
(* Versions and ranges, version.go.                                        *)

IsVersion(v) == Len(v) \in 1..3
ParseVersion(v) == [i \in 1..3 |-> IF i <= Len(v) THEN v[i] ELSE 0]

\* Version.Compare
Less(v, w) == \E i \in 1..3 : v[i] < w[i] /\ \A j \in 1..(i - 1) : v[j] = w[j]

Holds(v, op, w) ==
    CASE op \in {"=", "=="} -> v = w
      [] op = "!=" -> v # w
      [] op = ">"  -> Less(w, v)
      [] op = ">=" -> ~Less(v, w)
      [] op = "<"  -> Less(v, w)
      [] op = "<=" -> ~Less(w, v)

\* VersionRange.Matches: every clause.
Matches(range, version) ==
    \A c \in range : Holds(ParseVersion(version), c.op, ParseVersion(c.version))

-----------------------------------------------------------------------------
(* Adapters.                                                               *)

\* AdapterSpec.Validate: what it requires is there, and every range parses.
Validate(spec) ==
    /\ spec.family # "" /\ spec.base.mode # ""
    /\ \A k \in DOMAIN spec.profiles :
         /\ spec.profiles[k].name # "" /\ spec.profiles[k].match # {}
         /\ \A c \in spec.profiles[k].match : IsVersion(c.version)

\* LoadDirectory sorts the files and New keeps the last one of a name: the one of
\* the highest revision, or any of them.
LoadDirectory(files) ==
    {loaded \in [{f.name : f \in files} -> files] :
       \A n \in DOMAIN loaded :
         loaded[n].name = n /\ \A f \in files : f.name = n => f.revision <= loaded[n].revision}

\* The fields an override sets, whole, and those of the base it leaves.
Overridden(base, override) ==
    [f \in DOMAIN base |-> IF f \in DOMAIN override THEN override[f] ELSE base[f]]

\* The first profile of a kind, or one that changes nothing.
FirstProfile(spec, wanted) ==
    IF wanted = {} THEN [name |-> "", match |-> {}, overrides |-> <<>>]
    ELSE spec.profiles[CHOOSE k \in wanted : \A j \in wanted : k <= j]

ProfileByName(spec, name) ==
    FirstProfile(spec, {k \in DOMAIN spec.profiles : name # "" /\ spec.profiles[k].name = name})

\* Resolve fails on a version it cannot read when there is a profile to compare
\* it with.
Resolvable(spec, version) == version = <<>> \/ spec.profiles = <<>> \/ IsVersion(version)

Profile(spec, version) ==
    LET matching == {k \in DOMAIN spec.profiles :
                       version # <<>> /\ Matches(spec.profiles[k].match, version)}
    IN  IF matching = {} THEN ProfileByName(spec, spec.fallback) ELSE FirstProfile(spec, matching)

Resolve(spec, version) == Overridden(spec.base, Profile(spec, version).overrides)

-----------------------------------------------------------------------------
(* The command line.                                                       *)

SessionPath(family, id) == "sessions/" \o family \o "/" \o id

\* replaceRuntimeArgPlaceholders
ReplacePlaceholders(args, family, id) ==
    [k \in DOMAIN args |->
       CASE args[k] = "{cwd}" -> "cwd"
         [] args[k] = "{conversation_id}" -> id
         [] args[k] = "{session}" -> SessionPath(family, id)
         [] OTHER -> args[k]]

IsPrompt(arg) == arg = "{prompt}"

ResumeFlags == {"-r", "--resume"}

\* Each resume option goes, with the argument that follows it.
StripClaudeResumeArgs(args) ==
    LET strip[k \in 0..Len(args)] ==
          IF k = 0 THEN [out |-> <<>>, skip |-> FALSE]
          ELSE LET done == strip[k - 1]
               IN  IF done.skip THEN [done EXCEPT !.skip = FALSE]
                   ELSE IF args[k] \in ResumeFlags THEN [done EXCEPT !.skip = TRUE]
                   ELSE [done EXCEPT !.out = Append(@, args[k])]
    IN  strip[Len(args)].out

ClaudeArgs(args, mode, id) ==
    StripClaudeResumeArgs(args) \o (IF mode = "resume" THEN <<"--resume", id>> ELSE <<>>)

\* Mutant: the pair goes between the prompt and its option.
AppendResumePairAtPrompt(args, mode, id) ==
    LET before == {k \in DOMAIN args : IsPrompt(args[k])}
        at == IF before = {} THEN Len(args) + 1 ELSE CHOOSE k \in before : \A j \in before : k <= j
    IN  IF mode # "resume" THEN args
        ELSE SubSeq(args, 1, at - 1) \o <<"--resume", id>> \o SubSeq(args, at, Len(args))

\* Before the prompt's placeholder and the argument in front of it, or at the end.
AppendResumePair(args, mode, id) ==
    LET before == {k \in DOMAIN args :
                     IsPrompt(args[k]) \/ (k < Len(args) /\ IsPrompt(args[k + 1]))}
        at == IF before = {} THEN Len(args) + 1 ELSE CHOOSE k \in before : \A j \in before : k <= j
    IN  IF mode # "resume" THEN args
        ELSE SubSeq(args, 1, at - 1) \o <<"--resume", id>> \o SubSeq(args, at, Len(args))

CodexArgs(args, mode, id) ==
    CASE args = <<>> -> IF mode = "resume" THEN <<"exec", "resume", id>> ELSE <<"exec">>
      [] args # <<>> /\ args[1] = "exec" /\ mode = "resume" ->
           <<"exec", "resume">> \o Tail(args) \o <<id>>
      [] OTHER -> args

OpencodeArgs(args, mode, id) ==
    CASE args = <<>> -> IF mode = "resume" THEN <<"run", "--session", id>> ELSE <<"run">>
      [] args # <<>> /\ args[1] = "run" /\ mode = "resume" ->
           <<"run", "--session", id>> \o Tail(args)
      [] OTHER -> args

BuildRuntimeArgs(family, args, mode, id, clientArgs) ==
    LET base == ReplacePlaceholders(args, family, id)
    IN  (CASE family = "claudecode" -> ClaudeArgs(base, mode, id)
           [] family = "codex" -> CodexArgs(base, mode, id)
           [] family = "opencode" -> OpencodeArgs(base, mode, id)
           [] family \in {"cursor", "gemini", "grok"} -> AppendResumePair(base, mode, id)
           [] OTHER -> base) \o clientArgs

-----------------------------------------------------------------------------
(* The environment.                                                        *)

\* Every variable of either, with its value in the second where both have it.
Over(env, later) ==
    [name \in DOMAIN env \union DOMAIN later |->
       IF name \in DOMAIN later THEN later[name] ELSE env[name]]

\* Mutant: what the adapter sets wins.
MergeEnvAdapterWins(env, own) == Over(Over(ServerEnv, own), env)

\* mergeEnv: later ones win, the session's own last.
MergeEnv(env, own) == Over(Over(ServerEnv, env), own)

\* Those without a value are left out.
OwnEnv(id, conversation, adapter, version) ==
    Over(IF version = <<>> THEN <<>> ELSE [AGENLEASH_AGENT_VERSION |-> version],
         [AGENLEASH_SESSION_ID |-> id, AGENLEASH_CONVERSATION_ID |-> conversation,
          AGENLEASH_ADAPTER |-> adapter])

-----------------------------------------------------------------------------
LaunchInit ==
    /\ \E files \in Directories :
         (\A f \in files : Validate(f)) /\ adapters \in LoadDirectory(files)
    /\ session = NoSession

\* detectAdapterVersion, when the client gives no hint.
DetectedVersions(in) == IF in.hint # <<>> THEN {in.hint} ELSE Detected

\* The session a start that passed every check makes, of an id and, when the
\* client gives no conversation, one for that.
SessionOf(in, version, id, fresh) ==
    LET spec == adapters[in.adapter]
        effective == Resolve(spec, version)
        mode == IF in.mode = "" THEN "new" ELSE in.mode
        conversation == IF in.conversation = "" THEN fresh ELSE in.conversation
    IN  [id |-> id, family |-> spec.family, mode |-> mode, conversation |-> conversation,
         adapter |-> in.adapter, version |-> version, runtime |-> effective.mode,
         native |-> IF mode = "resume" /\ effective.native THEN conversation ELSE "",
         base |-> effective.args, client |-> in.args,
         args |-> BuildRuntimeArgs(spec.family, effective.args, mode, conversation, in.args),
         env |-> MergeEnv(effective.env, OwnEnv(id, conversation, in.adapter, version))]

\* handleStartSession.  A request that fails a check, those of its directory and
\* of the agent's binary among them, leaves nothing.  One start is enough: none
\* reads what an earlier one wrote.
StartSession(in) ==
    /\ session = NoSession
    /\ in.adapter \in DOMAIN adapters
    /\ in.mode \in {"", "new", "resume"}
    /\ \E version \in DetectedVersions(in), id, fresh \in FreshIds :
         /\ Resolvable(adapters[in.adapter], version)
         /\ in.mode = "resume" => Resolve(adapters[in.adapter], version).supportsResume
         /\ id # fresh
         /\ session' = SessionOf(in, version, id, fresh)
    /\ UNCHANGED adapters

LaunchNext == \E in \in Requests : StartSession(in)

LaunchSpec == LaunchInit /\ [][LaunchNext]_launchVars

-----------------------------------------------------------------------------
(* What AgentIsTold supposes of the adapters and of the clients.  The files *)
(* of adapters/ keep to it; no code makes an operator's or a client do so. *)

Options == ResumeFlags \union {"exec", "resume", "--session", "{prompt}"}
IsPlain(args) == \A k \in DOMAIN args : args[k] \notin Options

\* Only agents that are no families of their own, or take the pair, get the
\* prompt as an argument, and no profile resumes a conversation by itself, save
\* where StripClaudeResumeArgs takes it out.
KeepsOptions(family, args) ==
    CASE family = "claudecode" -> \A k \in DOMAIN args : ~IsPrompt(args[k])
      [] family = "codex" -> args # <<>> => args[1] = "exec" /\ IsPlain(Tail(args))
      [] family = "opencode" -> args # <<>> => args[1] = "run" /\ IsPlain(Tail(args))
      [] family \in {"cursor", "gemini", "grok"} -> \A k \in DOMAIN args : args[k] \notin ResumeFlags
      [] OTHER -> TRUE

AdaptersKeepOptions ==
    \A file \in UNION Directories, version \in Detected \union {in.hint : in \in Requests} :
       Validate(file) /\ Resolvable(file, version) =>
         /\ Resolve(file, version).args \in Seq(STRING)
         /\ KeepsOptions(file.family, Resolve(file, version).args)

\* Clients give no option of their own that resumes, and ids are no options.
ClientsKeepOptions ==
    /\ \A in \in Requests : in.args \in Seq(STRING) /\ IsPlain(in.args)
    /\ \A id \in FreshIds \union {in.conversation : in \in Requests}, file \in UNION Directories :
         {id, SessionPath(file.family, id)} \subseteq STRING \ Options

-----------------------------------------------------------------------------
(* Properties.                                                             *)

\* What the agents make of a command line: the conversations it resumes.
After(option) == {session.args[k + 1] : k \in {j \in 1..(Len(session.args) - 1) :
                                                  session.args[j] \in option}}
Resumed ==
    CASE session.family \in {"claudecode", "cursor", "gemini", "grok"} -> After(ResumeFlags)
      [] session.family = "codex" ->
           IF After({"exec"}) = {"resume"}
           THEN {session.args[Len(session.args) - Len(session.client)]} ELSE {}
      [] session.family = "opencode" -> After({"--session"})
      [] OTHER -> {}

\* An agent whose family has an option for it resumes the conversation that was
\* asked for and no other, and none when a new one was asked for, whatever the
\* profile of its version says; and the prompt of an agent that gets it as an
\* argument stays behind the argument it had in front of it.
AgentIsTold ==
    session # NoSession =>
      /\ session.family \in {"claudecode", "cursor", "gemini", "grok", "codex", "opencode"} =>
           Resumed = (IF session.mode = "resume" THEN {session.conversation} ELSE {})
      /\ LET base == ReplacePlaceholders(session.base, session.family, session.conversation)
         IN  \A k \in DOMAIN base \ {1} : IsPrompt(base[k]) =>
               \E j \in DOMAIN session.args \ {1} :
                 IsPrompt(session.args[j]) /\ session.args[j - 1] = base[k - 1]

\* The agent's environment names its own session, conversation and adapter, and
\* its version where one is known, also when the server runs in a session of
\* another one, or an adapter sets the same variables.
EnvironmentIsOwn ==
    session # NoSession =>
      /\ session.env["AGENLEASH_SESSION_ID"] = session.id
      /\ session.env["AGENLEASH_CONVERSATION_ID"] = session.conversation
      /\ session.env["AGENLEASH_ADAPTER"] = session.adapter
      /\ session.version # <<>> => session.env["AGENLEASH_AGENT_VERSION"] = session.version
=============================================================================
