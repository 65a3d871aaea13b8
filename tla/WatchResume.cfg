SPECIFICATION Spec
CONSTANTS
    Nodes = {n1, n2}
    Leader = n1
    Keys = {k1, k2}
    AllKeys = AllKeys
    SubLimit = 3
    HistoryCapacity = 3
    WatcherBuffer = 1
    Window = 1
    MaxIndex = 3
    MaxBatch = 2
    MaxBreaks = 1
    MaxRestores = 1
SYMMETRY Symmetry
INVARIANTS TypeOK GapFree StreamOrdered
PROPERTY ReplayComplete
CHECK_DEADLOCK FALSE
