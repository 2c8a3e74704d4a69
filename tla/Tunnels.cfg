SPECIFICATION FairSpec
CONSTANTS
    TapSends <- Exchange
    FwdSends <- Bytes
    Hosts <- SomeHosts
    Ports <- SomePorts
    Names = {0, 2}
    Beyond = 2
INVARIANTS
    HelloIsForwarded
    Framing
    OneStreamArrives
    ProxyReadsTarget
PROPERTIES
    ReturnsAfterClient
    ReturnsAfterProxy
CHECK_DEADLOCK FALSE
