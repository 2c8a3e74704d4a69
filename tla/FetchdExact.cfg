SPECIFICATION Spec
CONSTANTS
    Calls = {c1, c2}
    Requests <- FewRequests
    Exact <- ExactProfiles
    MaxPooled = 2
    MaxClients = 4
PROPERTY DropCloses
CHECK_DEADLOCK FALSE
