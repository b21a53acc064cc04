SPECIFICATION Spec
CONSTANTS
    Gens <- Few
    NoGen = NoGen
    Reqs = {r1}
    Sups = {1}
    Threshold = 2
    MaxStops = 1
PROPERTIES
    NoStartAfterStop
    GSpec
CHECK_DEADLOCK FALSE
