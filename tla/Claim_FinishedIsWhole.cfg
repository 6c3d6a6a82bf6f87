SPECIFICATION DownloadSpec
CONSTANTS
    f = f
    fOld = fOld
    fOldOld = fOldOld
    a = a
    b = b
    c = c
    Names = {f, fOld, fOldOld}
    Order <- MCOrder
    Old <- MCOld
    Contents = {a, b, c}
    Size <- MCSize
    MaxSize = 3
    MaxClock = 2
    MaxChanges = 1
    MaxEdits = 1
    MaxBreaks = 2
    NoFile = NoFile
    NoMeta = NoMeta
    NoName = NoName
    Mixed = Mixed
INVARIANTS
    FinishedIsWhole
CHECK_DEADLOCK FALSE
