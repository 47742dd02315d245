SPECIFICATION FairServeSpec
CONSTANTS
    Publishers = {pump, command}
    Subscribers = {self}
    Self = self
    Buffer = 1
    ChanCap = 1
    MaxEvents = 2
    MaxVersions = 2
INVARIANTS
    ViewCatchesUp
PROPERTIES
    ConnectionEnds
CHECK_DEADLOCK FALSE
