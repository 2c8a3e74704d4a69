SPECIFICATION Spec
CONSTANTS
    Calls = {c1}
    MaxEpoch = 2
PROPERTY ReplayOnlyWhenDead
CHECK_DEADLOCK FALSE
