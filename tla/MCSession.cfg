SPECIFICATION FairSpec
CONSTANTS
    Handlers = {h1}
    Drain = drain
    Pump = pump
    BufferSize = 2
    MaxOutput = 1
    MaxCommands = 1
INVARIANTS
    BufferIsRecentSuffix
    ReportedEndIsReal
    SentAtMostOnce
PROPERTIES
    EndIsProcessed
CHECK_DEADLOCK FALSE
