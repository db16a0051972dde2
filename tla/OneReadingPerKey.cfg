SPECIFICATION ReadingsSpec
CHECK_DEADLOCK FALSE
CONSTANTS
    Members = {m1}
    Rids = {r1, r2}
    Keys = {k1}
    Null = Null
    Calls = {c1, c2}
    FOLLOWUP_SUGGEST_COUNT = 1
    MaxClips = 1
INVARIANTS
    OneReadingPerKey
