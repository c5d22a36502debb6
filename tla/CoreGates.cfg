\* Two gated tiers of three, both timeout policies that lock, no answers.
SPECIFICATION AnsweredSpec
CONSTANTS
    N = 3
    Gated = {2, 3}
    OnTimeout <- MCMixed
    UpHysteresis = 0
    DownHysteresis = 0
    LockDurations = {1}
    ChanCap = 1
    g1 = g1
    g2 = g2
    Gates <- MCGates
    NoGate = NoGate
    Operators = {}
    OverrideTargets = {0}
    OrderedStart = FALSE
INVARIANTS
    HeldTierHasLiveGate
    OthersAreCancelled
    EnforcerFollows
    LockPinsEnforcer
PROPERTIES
    KeepsContract
    Converges
