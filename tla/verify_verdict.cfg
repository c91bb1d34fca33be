SPECIFICATION Spec
CONSTANTS
    Registers = {}
    Submits = {s1}
    Workers = {w1}
    MaxItems = 1
    QueueSize = 1
    Nil = Nil
INVARIANTS EnqueueReturnsVerdict
