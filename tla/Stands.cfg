SPECIFICATION MCSpec
CONSTANTS
    Conns = {1, 2}
    Handlers = {1}
    Clients <- SomeClients
    Size = 5
    MaxRecent = 1
    MaxFlows = 2
    MaxTime = 2
    Addresses = {1, 2}
    Served = {1}
    Times <- FirstTwice
    Asks = 1
    browserMode = TRUE
    Names <- OurNames
    Strangers <- Odd
    Orders <- Rotations
INVARIANTS
    NoMetaLeft
    ReportIsOfItsClient
    HelloSeen
    ReportIsItsOwn
    FingerprintsAgree
    HelloKeepsShape
PROPERTY RequestsAnswered
CHECK_DEADLOCK FALSE
