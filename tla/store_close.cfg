SPECIFICATION FairSpec
CONSTANTS
    Senders = {s1, s2}
    Workers = {w1, w2}
    Checkers = {}
    Validators = {v1}
    Times = {1, 2}
    MaxItems = 1
    StoreSize = 1
    Failures = {"time", "data", "crash"}
    None = None
PROPERTIES  CloseReturns
