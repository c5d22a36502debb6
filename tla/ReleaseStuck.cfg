\* The same, seen after the release, under fair scheduling.
SPECIFICATION FairSpec
CONSTANTS
    N = 2
    Gated = {}
    OnTimeout <- MCExecute
    UpHysteresis = 0
    DownHysteresis = 0
    LockDurations = {1}
    ChanCap = 1
    g1 = g1
    g2 = g2
    Gates <- MCGates
    NoGate = NoGate
    Operators = {}
    OverrideTargets = {0}
    OrderedStart = FALSE
PROPERTIES
    SignalsDriveAgain
