SPECIFICATION LiveSpec
CONSTANTS
    s1 = s1
    k1 = k1
    k2 = k2
    k3 = k3
    Slices = {s1}
    Keys = {k1, k2, k3}
    Act <- StartBlockComplete
    Of <- OneSlice
    Callers = {"worker"}
    Drains = {"drain"}
    NoKey = NoKey
    QueueMax = 2
    MaxGen = 2
    MaxFaults = 1
CHECK_DEADLOCK FALSE

    
PROPERTIES
    OnlyTheClaimWrites
    HeadMovesOn
