SPECIFICATION DaemonSpec
CONSTANTS
    agent = agent
    operator = operator
    Agents = {agent, operator}
    Canon <- MCCanon
    Operators = {operator}
    Explicit = {operator}
    FlagAcceptors = {operator}
    AutoAccept = {}
    Contents = {"fact", "order"}
    Flagged = {"order"}
    Short = {}
    Weak = {}
    Dispositions = {"rejected"}
    Passes = {}
    MaxCand = 0
    MaxLearn = 4
    MaxFaults = 0
    i1 = i1
    i2 = i2
    Leases = {l1, l2}
    Hidden = {l1}
    Silent = {}
    Resent = {l1}
    Lasting = {l1}
    AckStatuses <- OneAck
    Ackers = {a1}
    Listers = {x1}
    Waiters = {w1}
    MaxSends = 2
    MaxHandoffFaults = 1
    Stores = {s1}
    Purges = {u1}
    Sweeps = {v1}
    Searches = {q1}
    Rebuilders = {b1}
    NoCall = NoCall
    MaxChunk = 3
    MaxIndexCalls = 3
    LoadTries = 2
    MaxIndexFaults = 1
    Pages = {p1}
    Virtual = {d1}
    NoPage = NoPage
    Indexers = {i1, i2}
    Mixes <- MCMixes
    MaxDoc = 5
    MaxEdit = 2
    Owners = {agent, operator}
    Readers = {operator}
    Texts = {t1, t2}
    Committers = {k1, k2}
    NoNode = NoNode
    Answers = {"replaces", "replaced", "disputes"}
    MaxRows = 3
    MaxPairs = 1
    MaxDrift = 1
    MaxGraphCalls = 3
CHECK_DEADLOCK FALSE
INVARIANTS
    PartsTypeOK
    SuccessorLives
    
    
PROPERTIES
    SupersessionIsMonotone
    IndexersLoseNothing
    GraphWritesAreEarned
