SPECIFICATION CallersFairSpec
CONSTANTS
    Calls = {c1, c2}
    Requests <- SomeRequests
    Exact = {}
    MaxPooled = 2
    MaxClients = 3
    DialTimeout = 2
    CallTimeout = 3
    Forever = 99
    Bodies <- SomeBodies
    Sessions = {1, 2}
    Plan <- SomePlan
    Captured = "none"
    SiteOf <- SameSite
    Versions <- SomeVersions
    Assets = {"icon"}
    MaxAnswers = 4
INVARIANTS
    PoolIsLatest
    OwnSettings
    NoSocketLeft
    AnswerIsClosedOnce
    AsksAsABrowser
PROPERTIES
    DropCloses
    DroppedLetsGo
    CancelledCallEnds
CHECK_DEADLOCK FALSE
