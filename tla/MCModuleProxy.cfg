SPECIFICATION Spec
CONSTANTS
    Gens <- TwoGens
    NoGen = NoGen
    Reqs = {r1, r2}
    Conns = {c1, c2}
    NoConn = NoConn
    Bodiless = {r1}
    Safe = {r1}
    Others = {o}
    Capacity = 2
    MaxIdle = 1
SYMMETRY ConnSymmetry
INVARIANTS
    SentRight
    AnswerHonest
    NoIdleLeft
PROPERTIES
    GSpec
CHECK_DEADLOCK FALSE
