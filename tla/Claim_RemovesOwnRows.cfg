SPECIFICATION HistorySpec
CONSTANTS
    f = f
    fOld = fOld
    fOldOld = fOldOld
    a = a
    b = b
    c1 = c1
    c2 = c2
    u1 = u1
    u2 = u2
    p1 = p1
    p2 = p2
    NoRow = NoRow
    Absent = Absent
    Hole = Hole
    Garbage = Garbage
    Users = {u1, u2}
    Clients = {c1, c2}
    Uid <- TwoUsers
    Names = {f, fOld}
    Announced = {f}
    Old <- MCOld1
    Contents = {a, b}
    Size <- MCSize
    MaxSize = 2
    MaxModtime = 2
    Procs = {p1}
    MaxEntries = 1
    MaxSessions = 3
    MaxKills = 0
    Edits = FALSE
PROPERTIES
    RemovesOwnRows
CHECK_DEADLOCK FALSE
