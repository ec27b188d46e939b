SPECIFICATION OneRetrySpec
CONSTANTS
    Workflows = {w}
    DefaultWorkflows = {}
    Executions = {e1, e2}
    Entities = {x}
    Approvers = {alice}
    Steps <- MCSteps
    Definitions <- Shortest
    Loop = Loop
    Threads = {t1}
    EntityStatuses <- ProductStatuses
    Transitions <- NoTransitions
    InitialStatus = "active"
    OnSuccess = "active"
    OnFailure = "active"
    NULL = NULL
    MaxRevision = 2
    MaxAttempts = 2
    MaxFaults = 1
SYMMETRY Sym
PROPERTIES
    RefinesLifecycle
CHECK_DEADLOCK FALSE
