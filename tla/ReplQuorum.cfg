SPECIFICATION Spec
CONSTANTS
    Followers = {f1, f2}
    Slots = {s1}
    NoSlot = NoSlot
    Ops = {a}
    RetainEntries = 0
    MaxIndex = 2
    MaxBreaks = 1
    MaxRestarts = 0
    MaxTimeouts = 0
    MayStop = FALSE
SYMMETRY Symmetry
INVARIANTS TypeOK CommittedOnQuorum
PROPERTY ImplementsLog
CHECK_DEADLOCK FALSE
