SPECIFICATION BreakerSpec
CONSTANTS
    Callers = {c1}
    StreamCallers = {c1}
    failure_threshold = 2
    success_threshold = 2
INVARIANTS
    StreamFailuresOpen
