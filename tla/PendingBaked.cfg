SPECIFICATION SharesSpec
CHECK_DEADLOCK FALSE
CONSTANTS
    ReadingSources = {r1}
    TarotSources = {}
    Cards = {q1}
    Slugs = {g1}
    Nothing = Nothing
    Makers = {m1}
    Bakers = {b1, b2}
    MAX_ATTEMPTS = 3
    SLUG_COLLISION_MAX_RETRIES = 2
    MaxFalls = 1
PROPERTIES
    PendingBaked
