SPECIFICATION FairSpec
CONSTANTS
    MaxSignals = 2
    SignalKinds = {"host", "group"}
    Faults <- AllFaults
    SemaAtStart = stale
    Expected = hostcrc
    OrphanValue = initcrc
INVARIANTS HandshakeSound RegionShared CleanExit
PROPERTIES CtrlCEnds
CHECK_DEADLOCK FALSE
