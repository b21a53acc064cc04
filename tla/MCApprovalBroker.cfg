SPECIFICATION FairSpec
CONSTANTS
    NULL = NULL
    r1 = r1
    r2 = r2
    r3 = r3
    r4 = r4
    r5 = r5
    Requests = {r1, r2, r3, r4, r5}
    Loads <- Pairs
    Req <- Mixed
    Clients = {c1}
    MaxGrants = 1
    HasGuardian = TRUE
    MaxTroubles = 1
INVARIANTS
    AnswerHonoured
    HumanDecides
    GrantsEarned
PROPERTIES
    OutcomeSpec
    EveryApprovalEnds
