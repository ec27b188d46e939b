SPECIFICATION FairSpec
CONSTANTS
    Workflows = {w}
    DefaultWorkflows = {}
    Executions = {e1}
    Entities = {x}
    Approvers = {alice}
    Steps <- MCSteps
    Definitions <- Checked
    Loop = Loop
    Threads = {t1}
    EntityStatuses <- ProductStatuses
    Transitions <- NoTransitions
    InitialStatus = "under_review"
    OnSuccess = "active"
    OnFailure = "draft"
    NULL = NULL
    MaxRevision = 3
    MaxAttempts = 2
    MaxFaults = 1
INVARIANTS
    TypeOK
    OneDriverPerAttempt
    RunningIsDriven
PROPERTIES
    RunningTerminates
    AnswersSettle
CHECK_DEADLOCK FALSE
