SPECIFICATION Spec
CONSTANTS
    c1 = c1
    c2 = c2
    alice = alice
    bob = bob
    anyone = anyone
    Callers <- MCCallers
    Owners <- MCOwners
    Anyone = anyone
    MaxSessions = 1
    MaxCalls = 3
    MaxTime = 1
    MaxCrashes = 1
INVARIANT StoresBehaveIdentically
CHECK_DEADLOCK FALSE
