SPECIFICATION Spec
CONSTANTS
    Keepers = {k1, k2}
    Requests = {r1, r2}
    Clients <- MCClients
    Retry = TRUE
    InputSize = 2
    MaxConns = 3
SYMMETRY Symmetry
INVARIANTS
    ListIsCounted
    VerdictIsOwn
    
CHECK_DEADLOCK FALSE
