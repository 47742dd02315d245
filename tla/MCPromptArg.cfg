SPECIFICATION FairSpec
CONSTANTS
    Streams = {stdout}
    Closers = {c1, c2}
    Stoppers = {s1}
    ArgLists <- MCArgLists
    ChanCap = 2
    MaxWrites = 1
    MaxEvents = 3
INVARIANTS
    AgentGetsWholePrompt
    ClosedOnce
    FeedsInOrder
PROPERTIES
    DrainEnds
CHECK_DEADLOCK FALSE
