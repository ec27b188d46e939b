SPECIFICATION MCSpec
CONSTANTS
    NULL = NULL
    Products = {p}
    Reviews = {v1, v2}
    MaxFaults = 1
    Users = {u, v}
    Contracts = {c}
    MaxOpen = 1
    MaxRows = 3
    Stages = {"draft", "proposed", "active", "deprecated", "retired"}
SYMMETRY Sym
INVARIANTS
    CatalogTypeOK
    ShownIsActivated
    HandlerSeesItsWrite
    ShownWasReviewed
    RetiredForGood
    FamiliesHoldTogether
    SubmittedIsKept
    LatestIsFit
CHECK_DEADLOCK FALSE
