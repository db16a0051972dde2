SPECIFICATION Spec
CHECK_DEADLOCK FALSE
CONSTANTS
    Orders = {o1}
    Keys = {k1, k2}
    NoKey = NoKey
    IdemKeys = {i1}
    NoIdem = NoIdem
    Handlers = {h1}
    Workers = {w1}
    Faults = {}
    MaxDeliveries = 2
    MaxRuns = 1
    MAX_REFUND_ATTEMPTS = 1
PROPERTIES
    DuplicateDoneIsNoOp
