SPECIFICATION FairSpec
CONSTANTS
    Streams = {stdout, stderr}
    Callers = {c1}
    ChanCap = 1
    MaxChunks = 2
INVARIANTS
    LoopsNeverPanic
    OutcomeAgrees
PROPERTIES
    StopIsHonoured
    ImplementsRuntimeFeed
    ExitClosesEvents
CHECK_DEADLOCK FALSE
