SPECIFICATION FairSpec
CONSTANTS
    Followers = {f1}
    Slots = {s1}
    NoSlot = NoSlot
    Ops = {a}
    RetainEntries = 1
    MaxIndex = 1
    MaxBreaks = 0
    MaxRestarts = 0
    MaxTimeouts = 0
    MayStop = FALSE
PROPERTY CaughtUp
CHECK_DEADLOCK FALSE
