SPECIFICATION CrashSpec
CONSTANTS
    Followers = {f1}
    Slots = {s1, s2}
    NoSlot = NoSlot
    Ops = {a, b}
    RetainEntries = 1
    MaxIndex = 2
    MaxBreaks = 0
    MaxRestarts = 1
    MaxTimeouts = 1
    MayStop = FALSE
SYMMETRY Symmetry
INVARIANTS LogMatching WindowConsistent WaitersAnswered
CHECK_DEADLOCK FALSE
