SPECIFICATION Spec
CONSTANTS
    NULL = NULL
    r1 = r1
    r2 = r2
    r3 = r3
    RunIds = {r1, r2, r3}
    PlanRuns = {r3}
    Clients = {c1}
    Turns <- Mixed
    MaxIterations = 1
    MaxToolCalls = 2
    MaxRounds = 2
    MaxRuns = 1
    MaxCalls = 1
    MaxTroubles = 1
INVARIANTS
    PanicLandsTerminal
