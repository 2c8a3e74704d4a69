SPECIFICATION FairSpec
CONSTANTS
    TapSends <- Exchange
    FwdSends <- Bytes
    Hosts <- SomeHosts
    Ports <- SomePorts
    Names = {0}
    Beyond = 2
INVARIANT Untouched
CHECK_DEADLOCK FALSE
