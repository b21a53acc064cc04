SPECIFICATION Spec
CONSTANTS
    far = far
    near = near
    k1 = k1
    k2 = k2
    NONE = NONE
    Remote = Remote
    Conns = {c1, c2}
    Cmds = {k1, k2}
    Manifests <- TwoManifests
    Declares <- DeclaredBy
    Facts <- TwoFacts
    MaxTok = 2
    MaxCalls = 1
    QueueCap = 2
    MaxLoad = 4
SYMMETRY ConnSymmetry
INVARIANTS
    RunningIsCurrent
    ToldMeansReady
    AnswerHonest
    StopCloses
    RelaxAgreed
CHECK_DEADLOCK FALSE
