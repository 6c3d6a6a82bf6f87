SPECIFICATION HistorySpec
CONSTANTS
    f = f
    fOld = fOld
    fOldOld = fOldOld
    a = a
    b = b
    c1 = c1
    c2 = c2
    u1 = u1
    u2 = u2
    p1 = p1
    p2 = p2
    NoRow = NoRow
    Absent = Absent
    Hole = Hole
    Garbage = Garbage
    Users = {u1}
    Clients = {c1}
    Uid <- OneMachine
    Names = {f, fOld, fOldOld}
    Announced = {f, fOld}
    Old <- MCOld
    Contents = {a, b}
    Size <- MCSize
    MaxSize = 2
    MaxModtime = 3
    Procs = {p1}
    MaxEntries = 2
    MaxSessions = 2
    MaxKills = 0
    Edits = TRUE
INVARIANTS
    StoreMatchesMd5
    StuckOnlyByKill
    PulledIsComplete
    NothingForgotten
CHECK_DEADLOCK FALSE
