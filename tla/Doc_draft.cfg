SPECIFICATION VersionsSpec
CONSTANTS
    NULL = NULL
    Users = {u, v}
    MaxRows = 3
    Stages = {"draft", "proposed", "active", "deprecated", "retired"}
INVARIANTS
    SubmittedIsReleased
CHECK_DEADLOCK FALSE
