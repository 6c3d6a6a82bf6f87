SPECIFICATION ServerSpec
CONSTANTS
    f = f
    fOld = fOld
    a = a
    b = b
    c1 = c1
    c2 = c2
    u1 = u1
    u2 = u2
    p1 = p1
    s1 = s1
    NoRow = NoRow
    Absent = Absent
    Hole = Hole
    Garbage = Garbage
    Users = {u1, u2}
    Clients = {c1, c2}
    Uid <- TwoUsers
    Names = {f, fOld}
    Announced = {f}
    Old <- MCOld
    Contents = {a, b}
    Size <- MCSize
    MaxSize = 2
    MaxModtime = 2
    Procs = {p1}
    MaxEntries = 1
    MaxSessions = 2
    MaxKills = 0
    Edits = TRUE
    Servers = {s1}
    MaxDownloads = 1
    MaxPulls = 1
    MaxWants = 1
INVARIANTS
    CommitidIsOwn
    DeliversOffered
CHECK_DEADLOCK FALSE
