SPECIFICATION MCSpec
CONSTANTS
    Calls = {c1, c2}
    Names = {"chrome_auto", "android_149", "node_24"}
    Hosts = {h1, h2}
    MaxTickets = 2
    Keep = 2
    Home = h1
    Traveller = "chrome_auto"
VIEW View
SYMMETRY AnyCall
INVARIANTS
    SentOnce
    NoSecondProbe
    TicketsStayInScope
    NoLeak
