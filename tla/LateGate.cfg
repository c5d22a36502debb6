\* A superseded goroutine that starts late takes the routing of answers.
SPECIFICATION Spec
CONSTANTS
    N = 2
    Gated = {2}
    OnTimeout <- MCExecute
    UpHysteresis = 0
    DownHysteresis = 0
    LockDurations = {1}
    ChanCap = 1
    g1 = g1
    g2 = g2
    Gates <- MCGates
    NoGate = NoGate
    Operators = {}
    OverrideTargets = {0}
    OrderedStart = FALSE
INVARIANTS
    OpenGateIsAnswerable
