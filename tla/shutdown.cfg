SPECIFICATION ProcessSpec
CONSTANTS
    Asyncs = {g1, g2}
    CounterBound <- MCCounterBound
    Workers = {w1, w2}
    BufferSize = 1
INVARIANTS
    OneRound
    Drained
PROPERTIES
    AsyncsEnd
    ShutdownEnds
CHECK_DEADLOCK FALSE
