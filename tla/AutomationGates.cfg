CONSTANTS
    Rules = {r1, r2}
    Workers = {w1, w2}
    MaxFailures = 2
    Cooldown = 2
    None = None
    Limit <- MCLimit
    Span <- MCSpan
    Policies = {1, 2, 3, 4, 5}
    RuleOf <- MCRuleOf
    Editable = {5}
    MaxTime = 3
    MaxRequests = 6
    MaxOutside = 1
    Planners = {"ticker", "request"}
    Editors = {"edit"}
    Modes = {"recovery"}
    Streams = {"s"}
    Statuses = {}
    NextOf <- MCNextOf
    Padded = {"s"}
    Goals <- MCGoals
    Listed = 2
    GoalsOf <- MCGoalsOf
    MaxCycles = 3
    MaxPlanned = 5
    IdleAgents = {a1, a2}
    MaxDepth = 1
    MaxFollowUps = 2
    MaxMade = 3
    MaxWindow = 2
    Paths = {1, 2}
    Hidden = {}
    Ignored = {1}
    MaxFiles = 1
    MaxRows = 2
    Packed = {1, 2}
SPECIFICATION EngineSpec
INVARIANTS
    EngineTypes
    ClosedIsBelowLimit
    ProbeIsAlone
    WindowsRespected
    ShortestWindowKept
    QuotaOverrunBounded
    BlocksAreRespected
    NumbersHaveNoGaps
    PlannedOnce
    ChainsEnd
    InvestigationsApart
    OnePlanner
    ScansSettle
    FreshPacksAreCurrent
PROPERTIES
    DeletedStreamsStayDeleted
    RefusedOnlyWhenFull
SYMMETRY Symmetry
\* The parts beside the gates have an end: their requests, cycles and tasks are bounded.
CHECK_DEADLOCK FALSE
