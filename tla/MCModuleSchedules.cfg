SPECIFICATION TableSpec
CONSTANTS
    NULL = NULL
    s1 = s1
    s2 = s2
    m1 = m1
    Skew = 1
    Ids = {s1, s2}
    Owners = {m1}
    OwnerOf <- OneOwner
    KeyOf <- OwnKeys
    Clients = {c1, c2}
    Specs <- TwoCrons
    Labels = {l1}
    Quota = 1
    ResumeTries = 3
    CallTimeout = 1
    Keep = 1
    Ttl = 2
    MaxSent = 2
    Backoff <- OneWait
    MaxTime = 3
    MaxRevision = 3
    MaxRunNow = 1
SYMMETRY Symmetry
INVARIANTS
    QuotaHolds
    NeverStranded
    SlotMatchesSpec
    TickFireIsCurrent
