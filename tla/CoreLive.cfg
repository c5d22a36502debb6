\* The dead man's switch, notifications that return, hold timeouts.
SPECIFICATION AnsweredSpec
CONSTANTS
    N = 2
    Gated = {2}
    OnTimeout <- MCMixed
    UpHysteresis = 0
    DownHysteresis = 0
    LockDurations = {1}
    ChanCap = 1
    g1 = g1
    g2 = g2
    Gates <- MCGates
    NoGate = NoGate
    Operators = {}
    OverrideTargets = {0}
    OrderedStart = FALSE
PROPERTIES
    HoldsEnd
