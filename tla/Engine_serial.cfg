SPECIFICATION Spec
CONSTANTS
    Workflows = {w}
    DefaultWorkflows = {w}
    Executions = {e1, e2}
    Entities = {x}
    Approvers = {alice}
    Steps <- MCSteps
    Definitions <- AllStages
    Loop = Loop
    Threads = {}
    EntityStatuses <- ProductStatuses
    Transitions <- ProductTransitions
    InitialStatus = "under_review"
    OnSuccess = "active"
    OnFailure = "draft"
    NULL = NULL
    MaxRevision = 1
    MaxAttempts = 2
    MaxFaults = 0
SYMMETRY Sym
INVARIANTS
    CountersMatchLog
    AnswersMatchAsks
    PausedIsAnswerable
    SoleApproverSeesIt
PROPERTIES
    CancelSticks
    ApprovedBeforeActive
    EntityFollowsOutcome
CHECK_DEADLOCK FALSE
