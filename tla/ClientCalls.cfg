SPECIFICATION ClientSpec
CONSTANTS
    Nodes = {n1, n2}
    Leader = n1
    Keys = {k1}
    Ttls = {0, 1}
    Versions = {0, 1}
    MaxWrites = 4
    MaxTime = 1
    MaxSkew = 0
    MaxTimeouts = 1
    MaxRestarts = 0
    Clients = {c1}
    NoAddr = NoAddr
    MaxCalls = 1
    MaxFaults = 2
INVARIANTS ClientTypeOK RedirectReaches NoLateEffect GetCoversValue
PROPERTIES CallsReturn Swept
CHECK_DEADLOCK FALSE
