SPECIFICATION FairSpec
CONSTANTS
    Callers = {c1, c2}
    ChanCap = 1
    MaxChunks = 2
INVARIANTS
    TerminalIsDrained
PROPERTIES
    ImplementsRuntimeFeed
    EndClosesEvents
CHECK_DEADLOCK FALSE
