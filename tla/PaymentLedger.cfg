SPECIFICATION Spec
SYMMETRY Symmetry
CHECK_DEADLOCK FALSE
CONSTANTS
    Orders = {o1}
    Keys = {k1, k2}
    NoKey = NoKey
    IdemKeys = {i1}
    NoIdem = NoIdem
    Handlers = {h1, h2}
    Workers = {w1}
    Faults = {"die", "raise"}
    MaxDeliveries = 3
    MaxRuns = 2
    MAX_REFUND_ATTEMPTS = 2
INVARIANTS
    TypeOK
    DoneJobCompensated
    OneCompensationPerRun
