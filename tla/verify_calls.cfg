SPECIFICATION FairSpec
CONSTANTS
    Registers = {c1}
    Submits = {s1}
    Workers = {w1, w2}
    MaxItems = 2
    QueueSize = 1
    Nil = Nil
INVARIANTS StoresOnlyVerified NilMeansRegistered
PROPERTIES RegisterReturns EnqueueReturns
