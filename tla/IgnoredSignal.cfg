SPECIFICATION FairSpec
CONSTANTS
    MaxSignals = 1
    SignalKinds = {"host"}
    Faults = {}
    SemaAtStart = stale
    Expected = hostcrc
    OrphanValue = initcrc
PROPERTIES SignalledHostEnds
CHECK_DEADLOCK FALSE
