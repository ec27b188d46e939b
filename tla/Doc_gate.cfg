SPECIFICATION Spec
CONSTANTS
    Products = {p}
    Reviews = {v1}
    NULL = NULL
    MaxFaults = 0
INVARIANTS
    GateHolds
CHECK_DEADLOCK FALSE
