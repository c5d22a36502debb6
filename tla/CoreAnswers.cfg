\* One gated tier of two, an operator answering; goroutines start in order.
SPECIFICATION Spec
CONSTANTS
    N = 2
    Gated = {2}
    OnTimeout <- MCExecute
    UpHysteresis = 0
    DownHysteresis = 0
    LockDurations = {1}
    ChanCap = 1
    g1 = g1
    g2 = g2
    Gates <- MCGates
    NoGate = NoGate
    Operators = {alice}
    OverrideTargets = {0, 1}
    OrderedStart = TRUE
SYMMETRY MCSymmetry
INVARIANTS
    IInv
    OpenGateIsAnswerable
    SupersededIsNeverOpen
PROPERTIES
    GatedRiseIsDecided
    CancelledGateIsInert
