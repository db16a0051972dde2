SPECIFICATION Spec
CHECK_DEADLOCK FALSE
SYMMETRY Symmetry
CONSTANTS
    Members = {m1}
    Rids = {row1, row2}
    Keys = {k1}
    Null = Null
    Calls = {task1, task2}
    FOLLOWUP_SUGGEST_COUNT = 1
    MaxClips = 1
    Drawers = {m1}
    Flips = {task1, task2}
    WEEKLY_FREE_DRAWS = 1
    DaysPerWeek = 2
    LastDay = 2
    MaxPieces = 1
    ReadingSources = {r1}
    TarotSources = {t1}
    Cards = {row1, row2}
    Slugs = {g1, g2}
    Nothing = Nothing
    Makers = {task1, task2}
    Bakers = {job1, job2}
    MAX_ATTEMPTS = 2
    SLUG_COLLISION_MAX_RETRIES = 2
    MaxFalls = 1
    FirstYear = 1983
    LastYear = 1990
    MaxSentenceChars = 3
    FirstChunkTimeout = 3
    MidStreamTimeout = 1
    BackoffBreach = 1
    MaxText = 7
    MaxFragment = 2
    LlmCalls = {task1, task2}
    MaxTries = 3
    MaxTokens = 2
    ma = ma
    mb = mb
    mc = mc
    md = md
    Letters = {ma, mb, mc, md}
    Terms <- MCTerms
    SafePhrase = SafePhrase
    Mask = Mask
    BlockTenths = 9
    MaxSentence = 6
    Buckets = {k1}
    LIMIT = 2
    WINDOW = 3
    TICKS = 2
    LastTick = 12
    Entries = {n1, n2, n3, n4}
    Instants = {1, 2, 3, 4}
    PAGE_SIZE = 2
INVARIANTS
    TypeOK
    RetryOpensNothing
    AnsweredOnce
    WeeklyQuota
    PendingHasJob
    WordsWhole
    BilledForWhatIsHeard
    NothingDeniedIsHeard
    BurstBounded
    RetryAfterHonest
    PagesMissNothing
PROPERTIES
    PillarsTurn
    LinkKept
