SPECIFICATION FairSpec
CONSTANTS
    NONE = NONE
    Reqs = {r1}
    Subs = {1, 2}
    Kinds = {"gate", "advise"}
    Targets = {3}
    Parts = 2
    Deciders = {1, 2}
    MaxLoad = 3
    TTL = 1
    MaxTime = 2
    MaxTroubles = 1
INVARIANTS
    OneRowPerToken
    OneVerdict
PROPERTIES
    EveryRowDecided
CHECK_DEADLOCK FALSE
