SPECIFICATION FairSpec
CONSTANTS
    NULL = NULL
    Skew = 1
    Ids = {s1, s2}
    Clients = {c1}
    Bodies = {b1}
    Specs <- CronOnce
    Updates <- MixedUpdates
    Legacy = {s2}
    MaxFailures = 2
    UpdateAttempts = 2
    MaxTime = 3
    MaxRevision = 2
    MaxFaults = 1
INVARIANTS
    NeverStranded
    ConsumedSlotStaysConsumed
    FailureCountHonest
PROPERTIES
    UserDisableSticks
    DueIsServed
