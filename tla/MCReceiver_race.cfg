SPECIFICATION FairHistorySpec
CONSTANTS
    f = f
    fOld = fOld
    fOldOld = fOldOld
    a = a
    b = b
    c1 = c1
    c2 = c2
    u1 = u1
    u2 = u2
    p1 = p1
    p2 = p2
    NoRow = NoRow
    Absent = Absent
    Hole = Hole
    Garbage = Garbage
    Users = {u1}
    Clients = {c1}
    Uid <- OneMachine
    Names = {f, fOld}
    Announced = {f}
    Old <- MCOld1
    Contents = {a, b}
    Size <- MCSize
    MaxSize = 2
    MaxModtime = 2
    Procs = {p1, p2}
    MaxEntries = 1
    MaxSessions = 2
    MaxKills = 1
    Edits = FALSE
INVARIANTS
    InodeStored
    CompleteHasInode
    ChunksOnDisk
    IInv
    StoreMatchesMd5
PROPERTIES
    ImplementsCatalog
    PassesEnd
    ReplacesOnlyOlder
CHECK_DEADLOCK FALSE
