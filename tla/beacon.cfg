SPECIFICATION Spec
CONSTANTS
    Hash = {"p", "q"}
    NoHash = "NoHash"
    BadHash = "BadHash"
    SlotsPerEpoch = 2
    CapellaEpoch = 1
    Nodes = 2
    V2Nodes = 1
    RespSize = 3
    Callers = {0, 1, 2, 3}
    Slots = {1, 2, 3}
    Cached = {}
    Stored = {3}
INVARIANTS
    AttributesAreOfTheirSlot
    HeadAttributesKnown
    EveryClientIsAsked
    
PROPERTIES
    EventIsHandled
    PublishEnds
CHECK_DEADLOCK FALSE
