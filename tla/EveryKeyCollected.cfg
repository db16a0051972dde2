SPECIFICATION AccountsSpec
\* Everybody may have left.
CHECK_DEADLOCK FALSE
CONSTANTS
    Users = {u1}
    Kakao = {k1}
    Apple = {}
    Toss = {}
    Shared = {}
    None = None
    Sids = {sid1}
    Handlers = {h1}
    Readers = {u1}
    MaxDeaths = 0
PROPERTIES
    EveryKeyCollected
