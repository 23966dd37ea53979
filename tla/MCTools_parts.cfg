SPECIFICATION ToolsSpec
CONSTANTS
    Twins = {1, 2, 3}
    Bodies = {"x", "y"}
    Repairers = {"r1"}
    Versions = {1, 2, 3}
    Dev = {3}
    claude = claude
    generic = generic
    Hosts = {claude, generic}
    HostSets <- MCHostSets
    Scanned = {claude}
    Wires = {w1, w2}
    MaxRuns = 2
    MaxWireFaults = 1
    Payloads = {1, 2}
    NoBinding = 0
    Refreshers = {"r1", "r2"}
    MaxEdits = 2
    MaxRefreshFaults = 1
    MaxTouches = 2
    MaxAdoptions = 2
    grok = grok
    antigravity = antigravity
    cursor = cursor
    Surfaces = {grok, antigravity, cursor}
    Kind <- MCKind
    Root <- MCRoot
    Workspaces = {"own"}
    Repo = "repo"
    Runs = {r1, r2}
    MaxUpdates = 2
    MaxChanges = 1
    MaxInstallFaults = 1
CHECK_DEADLOCK FALSE
INVARIANTS
    PartsTypeOK
    
    
    AdoptionBreaksNothing
    UpdatesAreSafe
PROPERTIES
    CollapseLosesNothing
