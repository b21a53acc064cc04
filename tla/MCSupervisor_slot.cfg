SPECIFICATION FairSpec
CONSTANTS
    Gens <- Few
    NoGen = NoGen
    Reqs = {}
    Sups = {1, 2}
    Threshold = 1
    MaxStops = 1
INVARIANTS
    OneGroup
    StopHonest

    
CHECK_DEADLOCK FALSE
