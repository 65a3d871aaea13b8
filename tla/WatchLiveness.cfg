SPECIFICATION FairSpec
CONSTANTS
    Nodes = {n1}
    Leader = n1
    Keys = {k1, k2}
    AllKeys = AllKeys
    SubLimit = 3
    HistoryCapacity = 2
    WatcherBuffer = 1
    Window = 1
    MaxIndex = 3
    MaxBatch = 2
    MaxBreaks = 1
    MaxRestores = 0
PROPERTY Delivered
CHECK_DEADLOCK FALSE
