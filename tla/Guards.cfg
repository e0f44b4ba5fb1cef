SPECIFICATION GuardsSpec
CONSTANTS
    Callers = {c1, c2}
    StreamCallers = {c2}
    failure_threshold = 2
    success_threshold = 2
    Requests = {r1, r2, r3}
    MaxDaily = 4
    Estimates = {1, 2}
    Actuals = {0, 3}
    Clients = {k1, k2}
    Limits <- ThreeLimits
    MaxRate = 2
    MaxBurst = 3
    MAX_BUCKETS = 1
    Interval = 1
    MaxClock = 4
    Keys = {"a", "c"}
    Fields = {"f"}
    Initial <- FreshState
    SkillSchemas <- TwoSchemas
    Patches <- SomePatches
    max_steps = 2
    max_tokens = 5
    max_retries = 1
    InputTokens = 1
    Outputs = {1, 3}
    Predicted = 2
    MaxCommits = 3
CHECK_DEADLOCK FALSE
INVARIANTS
    BreakerInv
    RepeatedFailuresOpen
    LedgerInv
    LimiterInv
    AdmissionBounded
    AgentInv
    CommitsAccounted
PROPERTIES
    AdmitsAgain
    ReservationReturned
    AgentReturns
