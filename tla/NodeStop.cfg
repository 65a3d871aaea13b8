SPECIFICATION Spec
CONSTANTS
    Nodes = {n1, n2}
    Leader = n1
    Calls = {c1}
    Streams = {s1}
    NoNode = NoNode
    MaxSweeps = 1
INVARIANTS TypeOK QuietWhenStopped
PROPERTIES FollowerFrozen StopReturns
CHECK_DEADLOCK FALSE
