SPECIFICATION Spec
CONSTANTS
    Profiles = {"codex_exec", "opencode_run", "stable", "cursor_stream_json", "grok_streaming_json", "pi_json", "acpx_json", "text"}
    Streams = {stdout, stderr}
    MaxLines = 3
INVARIANTS
    Framed
    ChunksDoNotMatter
    MessagesAreTurns
    ExitCompletes
CHECK_DEADLOCK FALSE
