SPECIFICATION FairSpec
CONSTANTS
    NULL = NULL
    s1 = s1
    s2 = s2
    m1 = m1
    Skew = 1
    Ids = {s1}
    Owners = {m1}
    OwnerOf <- OneOwner
    KeyOf <- OneKey
    Clients = {c1}
    Specs <- Cron
    Labels = {l1}
    Quota = 1
    ResumeTries = 3
    CallTimeout = 1
    Keep = 1
    Ttl = 3
    MaxSent = 2
    Backoff <- OneWait
    MaxTime = 5
    MaxRevision = 1
    MaxRunNow = 1
    s3 = s3
    m2 = m2
    PerOwner = 1
    GlobalCap = 1
    DeferRecheck = 1
    SweepInterval = 1
    DbRetryAfter = 1
    DbRetryMax = 2
    MaxFailures = 1
    MaxFaults = 1
INVARIANTS
    SystemDisableEarned
    
PROPERTIES
    
    FireSettles
