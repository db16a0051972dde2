SPECIFICATION Spec
\* Every task may have ended, and every bound been reached.
CHECK_DEADLOCK FALSE
SYMMETRY Symmetry
CONSTANTS
    \* Accounts
    Users = {u1, u2}
    Kakao = {k1}
    Apple = {a1}
    Toss = {t1}
    Shared = {k1, a1}
    None = None
    Sids = {sid1}
    Handlers = {h1, h2}
    Readers = {u1}
    MaxDeaths = 1
    \* Profiles
    Owners = {o1, o2}
    Inputs = {c1, c2}
    Forms = {f1, f2}
    Null = Null
    MAX_CORRECTIONS = 1
    \* Subscriptions
    Rows = {r1, r2}
    Tasks = {w1, w2}
    MaxTime = 2
    MaxDeliveries = 4
    \* ReadingAudio
    Streams = {s1, s2}
    MaxSeq = 3
    MinTake = 2
    MaxTake = 2
    MaxCrashes = 1
INVARIANTS
    TypeOK
    GrantWithAccount
    OnlyMissedAudioLeft
    FreshProfileServesItsChart
    ProfileChartOnFile
    SubsTypeOK
    OneActivePerUser
    AudioTypeOK
    ReplayHonest
    
PROPERTIES
    PromiseKept
    CancelUndoneOnlyByStaleRead
    PeriodLostOnlyToStaleRead
    ReplayPromiseKept
    DeletedOnlyWhenStitched
