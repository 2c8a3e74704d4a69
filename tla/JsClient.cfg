SPECIFICATION FairSpec
CONSTANTS
    Calls = {c1, c2}
    MaxEpoch = 2
INVARIANTS
    OneAttempt
    AttemptsAreFresh
    ReplayedOnce
PROPERTY RequestsEnd
CHECK_DEADLOCK FALSE
