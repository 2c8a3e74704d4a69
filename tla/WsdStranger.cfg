SPECIFICATION Spec
CONSTANTS
    Handles = {h1, h2}
    MaxEpoch = 2
    MaxCalls = 3
    Busy = h1
INVARIANT OneConnection
CHECK_DEADLOCK FALSE
