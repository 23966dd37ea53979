SPECIFICATION Spec
CONSTANTS
    c1 = c1
    c2 = c2
    c3 = c3
    Calls = {c1, c2, c3}
    Mortal = {c1}
    NoOwner = NoOwner
    Torn = Torn
    Markers = TRUE
    Stalls = FALSE
    MaxDirs = 3
    MaxFaults = 0
CHECK_DEADLOCK FALSE
PROPERTIES
    LiveOwnerIsKept
