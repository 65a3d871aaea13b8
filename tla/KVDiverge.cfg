SPECIFICATION Spec
CONSTANTS
    Nodes = {n1, n2}
    Leader = n1
    Keys = {k1}
    Ttls = {0, 1}
    Versions = {0, 1}
    MaxWrites = 3
    MaxTime = 2
    MaxSkew = 0
    MaxTimeouts = 0
    MaxRestarts = 0
INVARIANT StoresAgree
CHECK_DEADLOCK FALSE
