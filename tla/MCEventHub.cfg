SPECIFICATION FairSpec
CONSTANTS
    Publishers = {p1, p2}
    Subscribers = {s1, s2}
    Buffer = 2
    ChanCap = 1
    MaxEvents = 3
INVARIANTS
    RecentIsLatest
    DeliveryIsExact
PROPERTIES
    ImplementsBroadcastLog
    PublishReturns
CHECK_DEADLOCK FALSE
