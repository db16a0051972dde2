SPECIFICATION ProfilesSpec
CHECK_DEADLOCK FALSE
CONSTANTS
    Owners = {o1}
    Inputs = {c1, c2}
    Forms = {f1, f2}
    Null = Null
    MAX_CORRECTIONS = 1
INVARIANTS
    CorrectionQuota
