SPECIFICATION Spec
CONSTANTS
    Nodes = {1, 2, 3, 4}
    Graphs <- MCGraphs
    MaxConcurrent = 3
    MaxCost = 2
    MaxEnvelopeIterations = 2
    Usages = {0, 2}
    MaxUsage = 2
INVARIANTS
    SchedInv
    DependenciesMet
    NodesSettled
    SpendAccounted
    SuccessIsEarned
PROPERTIES
    RearmsOnlyLoops
    RunReturns
