\* Unequal windows; safety and convergence.
SPECIFICATION FairSpec
CONSTANTS
    N = 4
    Gated = {}
    OnTimeout <- MCOnTimeout
    UpHysteresis = 3
    DownHysteresis = 5
    LockDurations = {1, 3}
INVARIANTS
    EvCoherent
PROPERTIES
    SustainedBreach
    LockIgnoresSignals
    SettlesOnSignals
