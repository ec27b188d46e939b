SPECIFICATION MCSpec
CONSTANTS
    Workflows = {w1, w2}
    Jobs = {j1, j2}
    Runs = {r}
    Backfill = 4
    NULL = NULL
    MaxCrashes = 1
    MaxErrors = 1
    MaxFaults = 2
SYMMETRY Sym
INVARIANTS
    PollSeesAll
    
    
    InstalledIsNoticed
CHECK_DEADLOCK FALSE
