SPECIFICATION Spec
CONSTANTS
    e1 = e1
    e2 = e2
    nothing = nothing
    unset = unset
    mistyped = mistyped
    Execs <- MCExecs
    Nothing = nothing
    Submissions <- MemberSubmissions
    Disturbed = {}
    Observed = {}
    Rules <- MemberRules
    Registries <- MemberRegistries
    CAPACITY = 2
    MaxWrites = 2
    MaxChanges = 1
    MaxFaults = 1
    MAX_IR_NODES = 4
    MAX_CONSENSUS_MEMBERS = 4
    MAX_CHAIN_STEPS = 2
    DEFAULT_MODEL = "fast"
    Unset = unset
    Mistyped = mistyped
CHECK_DEADLOCK FALSE
INVARIANTS
    EveryNodePermitted
