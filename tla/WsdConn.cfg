SPECIFICATION MCFairSpec
CONSTANTS
    Recvs = {r1, r2}
    Leavers = {r1}
    Senders = {s1, s2}
    Closers = {d1}
    Sizes = {1}
    BodyLimit = 2
    MaxFrames = 2
INVARIANTS
    EachFrameOnce
    InOrder
    NoLostWakeup
    ClosedAfterDrain
    OutWellFormed
    SentIsOnTheWire
PROPERTIES
    DeleteWakesRecv
    RecvPromise
CHECK_DEADLOCK FALSE
