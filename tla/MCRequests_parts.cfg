CONSTANTS
    agent = agent
    operator = operator
    Agents = {agent, operator}
    Canon <- MCCanon
    Operators = {operator}
    Explicit = {operator}
    FlagAcceptors = {agent}
    AutoAccept = {agent}
    Contents = {"fact", "odd"}
    Flagged = {"odd"}
    Short = {}
    Weak = {"odd"}
    Dispositions = {"rejected"}
    Passes = {"loop", "compile"}
    MaxCand = 1
    MaxLearn = 2
    MaxFaults = 0
    Others = {"v1"}
    Limit = 2
    Threshold = 2
    MaxVariants = 2
    MaxInvalidations = 1
SPECIFICATION RequestSpec
CHECK_DEADLOCK FALSE
INVARIANTS
    PartsTypeOK
    DurableByAuthority
    AcceptedHasOneLearning
    FenceOnlyOnQueued
    SearchesAreHonest
PROPERTIES
    ImplementsLedger
