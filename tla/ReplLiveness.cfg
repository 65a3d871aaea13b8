SPECIFICATION FairSpec
CONSTANTS
    Followers = {f1}
    Slots = {s1}
    NoSlot = NoSlot
    Ops = {a}
    RetainEntries = 1
    MaxIndex = 3
    MaxBreaks = 0
    MaxRestarts = 0
    MaxTimeouts = 0
    MayStop = TRUE
INVARIANT NoPanic
PROPERTIES NoRegress AckedEntriesCommit
CHECK_DEADLOCK FALSE
