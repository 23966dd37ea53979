SPECIFICATION JournalSpec
CONSTANTS
    orch = orch
    Writers = {w1, w2}
    Principal = orch
    Hooks = {h1, h2}
    Who <- MCWho
    Injects = {h1}
    Nobody = Nobody
    MaxRev = 3
    MaxJournalFaults = 0
CHECK_DEADLOCK FALSE
PROPERTIES
    CursorsAdvance
