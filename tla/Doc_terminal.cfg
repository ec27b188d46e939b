SPECIFICATION Spec
CONSTANTS
    Workflows = {w}
    DefaultWorkflows = {w}
    Executions = {e1}
    Entities = {x}
    Approvers = {alice}
    Steps <- MCSteps
    Definitions <- Terminal
    Loop = Loop
    Threads = {}
    EntityStatuses <- ProductStatuses
    Transitions <- NoTransitions
    InitialStatus = "under_review"
    OnSuccess = "active"
    OnFailure = "draft"
    NULL = NULL
    MaxRevision = 1
    MaxAttempts = 1
    MaxFaults = 0
INVARIANTS
    FinishedIsFinal
CHECK_DEADLOCK FALSE
