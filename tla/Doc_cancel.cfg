SPECIFICATION Spec
CONSTANTS
    Workflows = {w}
    DefaultWorkflows = {w}
    Executions = {e1}
    Entities = {x}
    Approvers = {alice}
    Steps <- MCSteps
    Definitions <- Edited
    Loop = Loop
    Threads = {t1}
    EntityStatuses <- ProductStatuses
    Transitions <- NoTransitions
    InitialStatus = "under_review"
    OnSuccess = "active"
    OnFailure = "draft"
    NULL = NULL
    MaxRevision = 1
    MaxAttempts = 1
    MaxFaults = 0
PROPERTIES
    CancelSticks
CHECK_DEADLOCK FALSE
