SPECIFICATION Spec
CONSTANTS
    Users = {ann}
    Targets = {x}
    Requests = {r1}
    Grants = {g1}
    Durations = {1, 2}
    NULL = NULL
    MaxTime = 1
    MaxFaults = 0
INVARIANTS
    ToldApprovedIsGranted
CHECK_DEADLOCK FALSE
