SPECIFICATION ThreadsSpec
CONSTANTS
    c1 = c1
    c2 = c2
    c3 = c3
    Calls = {c1, c2, c3}
    Mortal = {c1}
    NoOwner = NoOwner
    Torn = Torn
    Markers = FALSE
    Stalls = TRUE
    MaxDirs = 3
    MaxFaults = 1
    orch = orch
    Writers = {w1, w2}
    Principal = orch
    Hooks = {h1, h2}
    Who <- MCWho
    Injects = {h1}
    Nobody = Nobody
    MaxRev = 3
    MaxJournalFaults = 1
    Slices = {a, b}
    First = {a}
    Workers = {u1, u2}
    Keys = {k1}
    NoWorker = NoWorker
    MaxPlanRev = 4
    MaxClaimFaults = 1
    Ids = {a, b, c}
    Born = {a, b}
    Edges = {{}, {a}, {c}}
    MaxWrites = 2
CHECK_DEADLOCK FALSE
INVARIANTS
    PartsTypeOK
    HolderHasDirectory
    JournalIsTrue
    EnvelopesMatchClaims
