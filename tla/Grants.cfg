SPECIFICATION GrantsSpec
CONSTANTS
    Tasks = {t1}
    Workers = {w1, w2}
    Callers = {c1, c2}
    Ttls = {0, 5}
    DefaultTtl = 1
    MaxTtl = 2
    MaxLifetime = 2
    MaxRenewals = 3
    MaxTime = 5
    MaxEpoch = 5
    MaxCost = 8
    MaxTokens = 5
    CounterMax = 20
    Contents = {0, 1, 3}
    UsageReports <- SomeReports
    Prices <- SomePrices
    MaxItems = 4
SYMMETRY Symmetry
CHECK_DEADLOCK FALSE
INVARIANTS
    LeaseInv
    SingleWorker
    ReportedOnce
    DeliveredWithinBudget
    NeverUndercharged
PROPERTIES
    EpochHeldWhileActive
    ImplementsService
