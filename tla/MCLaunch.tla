------------------------------ MODULE MCLaunch ------------------------------
(* The adapters of the repository's adapters/, with one option of each kind, *)
(* and variants of them: an older revision, an option that is left in the    *)
(* profile, an adapter that sets the server's variables, and command lines   *)
(* that are empty.                                                           *)
EXTENDS Launch

Clause(op, version) == [op |-> op, version |-> version]
Base(mode, args, resume) ==
    [mode |-> mode, args |-> args, env |-> [TRACE |-> "1"], supportsResume |-> resume,
     native |-> resume]
Stable == <<[name |-> "stable", match |-> {Clause(">=", <<0, 1>>)}, overrides |-> <<>>]>>
File(name, family, base, profiles, fallback) ==
    [name |-> name, revision |-> 1, family |-> family, base |-> base, profiles |-> profiles,
     fallback |-> fallback]

ClaudeStdio(parser) ==
    [mode |-> "stdio", args |-> <<"--print", "-">>, env |-> [TIMEOUT |-> "30"],
     supportsResume |-> TRUE, native |-> TRUE]
ClaudeCode ==
    File("claudecode", "claudecode", Base("pty", <<>>, FALSE),
         <<[name |-> "legacy", match |-> {Clause("<", <<1, 10>>)}, overrides |-> <<>>],
           [name |-> "stable", match |-> {Clause(">=", <<1, 10>>), Clause("<", <<2>>)},
            overrides |-> ClaudeStdio("stable")],
           [name |-> "v2", match |-> {Clause(">=", <<2>>), Clause("<=", <<2, 9>>)},
            overrides |-> ClaudeStdio("v2")]>>, "legacy")
Claude == File("claude", "claudecode", Base("stdio", <<"--print", "-">>, TRUE), Stable, "stable")
Codex == File("codex", "codex", Base("stdio", <<"exec", "--json">>, TRUE), Stable, "stable")
Opencode == File("opencode", "opencode", Base("stdio", <<"run", "--format">>, TRUE), Stable, "stable")
Cursor == File("cursor", "cursor", Base("stdio", <<"-p", "--workspace", "{cwd}">>, TRUE),
               Stable, "stable")
Gemini == File("gemini", "gemini", Base("stdio_prompt_arg", <<"--sandbox", "--prompt", "{prompt}">>, TRUE),
               Stable, "stable")
Pi == File("pi", "pi", Base("stdio_prompt_arg", <<"--session", "{session}", "{prompt}">>, FALSE),
           Stable, "stable")
Acpx == File("acpx", "acpx", Base("stdio", <<"--cwd", "{cwd}", "claude">>, TRUE), Stable, "")

\* The baseline of app_test.go, and what an operator may write.
LeftOver ==
    [Claude EXCEPT !.base.args = <<"--resume", "old", "-r", "{conversation_id}", "--verbose">>,
                   !.revision = 2,
                   !.base.env = [AGENLEASH_SESSION_ID |-> "adapter"]]
EmptyArgs == [Codex EXCEPT !.base.args = <<>>, !.profiles = <<>>]
EmptyRun == [Opencode EXCEPT !.base.args = <<>>,
               !.profiles = <<[name |-> "other", overrides |-> <<>>,
                               match |-> {Clause("!=", <<1>>), Clause(">", <<0>>)}],
                              [name |-> "one", match |-> {Clause("=", <<1>>)}, overrides |-> <<>>]>>]
Invalid == [Pi EXCEPT !.profiles[1].match = {Clause("=", <<1, 0, 0, 0>>)}]

MCDirectories ==
    {{ClaudeCode, Claude, Codex, Opencode, Cursor, Gemini, Pi, Acpx},
     {Claude, LeftOver, EmptyArgs, EmptyRun}, {Codex, Invalid}}
MCVersions == {<<>>, <<0, 9, 1>>, <<1>>, <<1, 10, 0>>, <<2, 3>>, <<3>>, <<1, 2, 3, 4>>}
MCRequests ==
    [adapter : {"claudecode", "claude", "codex", "opencode", "cursor", "gemini", "pi", "acpx", "other"},
     mode : {"", "resume", "attach"}, conversation : {"", "known"},
     hint : {<<>>, <<2, 3>>}, args : {<<>>, <<"--debug">>}]
MCServerEnv ==
    [PATH |-> "/bin", AGENLEASH_SESSION_ID |-> "outer", AGENLEASH_AGENT_VERSION |-> <<9>>]

ASSUME MCAssumption == AdaptersKeepOptions /\ ClientsKeepOptions
=============================================================================
