SPECIFICATION FairPagingSpec
CONSTANTS
    Formats = {"claude", "codex", "opencode"}
    Limits = {0, 3}
    DefaultLimit = 1
    MaxLimit = 2
    InitialTail = 3
    Sizes <- MCSizes
    MaxLines = 4
    MaxTools = 1
INVARIANTS
    PageIsWhole
    NothingSkipped
PROPERTIES
    PagingEnds
CHECK_DEADLOCK FALSE
