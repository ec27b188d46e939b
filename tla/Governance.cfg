SPECIFICATION MCSpec
CONSTANTS
    NULL = NULL
    Users = {u, v}
    Entities = {"p", "c", "a", "b"}
    Graphs <- MCGraphs
    Levels = {1, 2}
    MaxCerts = 2
    MaxCuts = 1
    MaxBreaks = 1
    Flows <- MCFlows
    MaxSessions = 2
    MaxVersion = 2
    MaxMatches = 2
    MaxAssets = 2
    Rules = {"most_recent", "master_wins"}
    SyncLimit = 1
    Assets = {x, y}
    Wishes = {w}
    Promotions = {r}
    Labels = {1, 2}
    Maturities = {"poc"}
    MaxCalls = 4
    Targets = {x}
    Requests = {1, 2, 3}
    Grants = {1, 2}
    Durations <- MCDurations
    MaxTime = 2
    MaxFaults = 1
SYMMETRY Sym
INVARIANTS
    GovernanceTypeOK
    InheritedIsExplained
    WalkIsComplete
    TreesInheritTheHighest
    ConsentIsExplained
    OneAgreementPerSession
    CompletedIsOnRecord
    SubscribedByCompletion
    SummariesAgree
    OneLatestUnlessRaced
    MatchedIsLinked
    OneClaim
    GrantsMatchApprovals
PROPERTIES
    DecisionsCarryThrough
CHECK_DEADLOCK FALSE
