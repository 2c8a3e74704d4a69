SPECIFICATION MCFairSpec
CONSTANTS
    Handles = {h1, h2}
    MaxEpoch = 2
    MaxCalls = 2
    Busy = h1
INVARIANT OwnIdOrNone
PROPERTIES
    DeliveredOnce
    CallsEnd
CHECK_DEADLOCK FALSE
