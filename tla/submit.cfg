SPECIFICATION Spec
CONSTANTS
    Calls = {c1, c2}
    Submissions <- MCSubmissions
    Hash = {"p"}
    NoHash = "none"
    FirstSlot = 1
    LastSlot = 3
INVARIANTS
    OfferedHasPayload
    
    RefusedIsNotOffered

    
CHECK_DEADLOCK FALSE
