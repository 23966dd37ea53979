SPECIFICATION RepairSpec
CONSTANTS
    k1 = k1
    k2 = k2
    k3 = k3
    Keys = {k1, k2, k3}
    Restricted = {k3}
    Broken = {k2}
    NoKey = NoKey
    MaxLearn = 3
    MaxOld = 2
    Batch = 1
    MaxFaults = 1
    i1 = i1
    i2 = i2
    Pages = {p1}
    Virtual = {d1}
    NoPage = NoPage
    Indexers = {i1, i2}
    Mixes <- MCMixes
    MaxDoc = 5
    MaxEdit = 1
    gemini = gemini
    agy = agy
    t1 = t1
    t2 = t2
    Vaults <- MCVaults
    Owner <- MCOwner
    Renamed = {agy}
    Names = {n1}
    Texts = {t1, t2}
    Echo = Echo
    Docs <- MCDocs
    Ingesters = {i1, i2}
    MaxInboxFaults = 1
CHECK_DEADLOCK FALSE
INVARIANTS
    PartsTypeOK
    TextFollowsStatus
    TextsAreAccountedFor
PROPERTIES
    TextFollowsLearnings
    
    
