SPECIFICATION Spec
CONSTANTS
    Senders = {s1}
    Workers = {w1, w2}
    Checkers = {c1}
    Validators = {v1}
    Times = {1, 2}
    MaxItems = 2
    StoreSize = 1
    Failures = {"time"}
    None = None
SYMMETRY Symmetry
INVARIANTS NoSendOnClosed  AllStored
