SPECIFICATION QueuesSpec
CONSTANTS
    agent = agent
    alias = alias
    Agents = {agent, alias}
    Canon <- MCCanon
    Operators = {agent}
    Explicit = {}
    FlagAcceptors = {}
    AutoAccept = {agent}
    Contents = {"fact"}
    Flagged = {}
    Short = {}
    Weak = {}
    Dispositions = {}
    Passes = {"loop"}
    MaxCand = 2
    MaxLearn = 2
    MaxFaults = 1
    Reviews = {r1}
    Plain = {p1}
    Copies = {p1}
    Callers = {k1, k2}
    MaxJobs = 5
    MaxDraftFaults = 1
    DraftFiles = {d1}
    Sweepers = {w1, w2}
    Endorsers = {e1, e2}
    Unlocked = Unlocked
    MaxHandEdits = 2
    c1 = c1
    c2 = c2
    c3 = c3
    NoOwner = NoOwner
    Torn = Torn
    MaxDirs = 7
    Hooks = {h1, h2}
    Window = 2
    Cap = 2
    MaxEvent = 3
    MaxStash = 3
    MaxReassertFaults = 1
CHECK_DEADLOCK FALSE
INVARIANTS
    PartsTypeOK
    CopiesYieldToOne
    
PROPERTIES
    QueueDrains
    EveryReviewIsFenced
    DraftIsDecidedOnce
    EveryCallEnds
    EveryCorrectionIsHeard
