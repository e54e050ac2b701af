SPECIFICATION Spec
CONSTANTS
    l1 = l1
    l2 = l2
    w = w
    a = a
    NoOp = NoOp
    Lot = {l1}
    Worker = {}
    Admin = {a}
    Shares = 1
    MaxAttempts = 2
    BatchSize = 1
    MaxStray = 1
INVARIANTS
    TokensBacked
CHECK_DEADLOCK FALSE
