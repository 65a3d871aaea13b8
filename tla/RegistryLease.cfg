SPECIFICATION Spec
CONSTANTS
    Procs = {p1}
    Ttl = 2
    WatcherBuffer = 1
    MaxTime = 3
    MaxBeats = 1
    MaxFaults = 1
INVARIANTS TypeOK NoGhost MissesOnlyLapsed ExpirySparesRenewed
PROPERTIES NoRevival LeaseRecovers StoppedLapses
CHECK_DEADLOCK FALSE
