SPECIFICATION Spec
CONSTANTS
    Publishers = {p1, p2}
    Subscribers = {s1, s2}
    Buffer = 2
    ChanCap = 1
    MaxEvents = 3
INVARIANTS
    NoPanic
CHECK_DEADLOCK FALSE
