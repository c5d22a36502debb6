\* Overlapping reconciles; calls fail and the engine restarts.
SPECIFICATION Spec
CONSTANTS
    TierNames = {"nominal", "warm", "hot", "critical", "survival"}
    Workers = {r1, r2}
    Nodes = {n1}
    TargetWarm = 2
    MaxPods = 2
    OriginalMin = 1
    OriginalMax = 2
    Faults = {"refused", "unanswered"}
    MayCrash = TRUE
VIEW MCView
SYMMETRY MCSymmetry
INVARIANTS
    TypeOK
    NominalUndoesAll
    BoundsRecoverable
    LoneReconcileEnforces
    CordonsAreOwned
