SPECIFICATION Spec
CONSTANTS
    k1 = k1
    k2 = k2
    k3 = k3
    Keys = {k1, k2}
    Restricted = {}
    Broken = {}
    NoKey = NoKey
    MaxLearn = 2
    MaxOld = 2
    Batch = 1
    MaxFaults = 0
INVARIANTS
    CorrectedStopsSurfacing
