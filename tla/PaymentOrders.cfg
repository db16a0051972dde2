SPECIFICATION FairSpec
CHECK_DEADLOCK FALSE
CONSTANTS
    Orders = {o1, o2}
    Keys = {k1, k2}
    NoKey = NoKey
    IdemKeys = {i1}
    NoIdem = NoIdem
    Handlers = {h1, h2}
    Workers = {w1}
    Faults = {"die"}
    MaxDeliveries = 1
    MaxRuns = 1
    MAX_REFUND_ATTEMPTS = 1
INVARIANTS
    RefundRowBacked
    OnlyChargedOrdersCount
PROPERTIES
    PromiseKept
    JobEnds
