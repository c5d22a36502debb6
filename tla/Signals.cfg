\* Requests that overrun the ticker, and a stale timeout beyond both.
SPECIFICATION Spec
CONSTANTS
    rps = rps
    cpu = cpu
    latency = latency
    Injected <- MCInjected
    Live <- MCLive
    Data = {0, 1}
    Missing = Missing
    Cadence <- MCCadence
    FetchLimit = 3
    StaleTimeout = 4
INVARIANTS
    TypeOK
    StaleMeansOld
    SteadyArrives
