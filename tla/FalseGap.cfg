\* Expected to be violated; see README.
SPECIFICATION Spec
CONSTANTS
    Infinity = 6
    Policies <- MCPolicies
    Signals <- MCSignals
    PolicyConditions <- MCConditions
    Names <- MCTierNames
    Services <- MCServices
    NoName = NoName
    rps = rps
    mem = mem
    undeclared = undeclared
    self = self
    db = db
    cache = cache
CHECK_DEADLOCK FALSE
INVARIANTS
    ReportedGapsAreReal
