SPECIFICATION Spec
CONSTANTS
    Callers = {r1, r2}
    Configs <- SomeConfigs
    Started <- Base
    Features = {f}
    DefaultFeatures <- NoDefaults
    MaxEdits = 2
    MaxErrors = 1
CHECK_DEADLOCK FALSE
INVARIANTS
    ServesLastSignal
    NoRoutingGap
PROPERTIES
    ReloadReturns
