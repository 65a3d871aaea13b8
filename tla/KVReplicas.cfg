SPECIFICATION Spec
CONSTANTS
    Nodes = {n1, n2}
    Leader = n1
    Keys = {k1}
    Ttls = {0, 1}
    Versions = {0, 1}
    MaxWrites = 3
    MaxTime = 2
    MaxSkew = 1
    MaxTimeouts = 1
    MaxRestarts = 1
INVARIANTS TypeOK TtlFreeAgree ExpirySparesFresh CasOnce
CHECK_DEADLOCK FALSE
