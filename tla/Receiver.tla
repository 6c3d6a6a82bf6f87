------------------------------ MODULE Receiver ------------------------------
(***************************************************************************)
(* The upload tunnel: receiver() of server.cpp, run by a forked process    *)
(* per connection, against the shared database and store of SyncDB.  One   *)
(* action is one SQL statement or one file operation, with the local code  *)
(* around it, so processes interleave wherever the code lets them.         *)
(*                                                                         *)
(* The client at the other end is an environment: it opens a session in    *)
(* one of the two modes, announces any DirInfo of at most MaxEntries       *)
(* files, answers the Pull in order as SenderThread does, and may close    *)
(* the connection at any point.  A process may also be killed.             *)
(***************************************************************************)
EXTENDS SyncDB

CONSTANTS
    Procs,        \* server processes that may be receiving
    MaxEntries,   \* bound on the files of a DirInfo
    MaxSessions,  \* bound on the sessions of a behaviour
    MaxKills,     \* bound on the processes killed in a behaviour
    Edits         \* whether a file may change between its scan and its push

ASSUME BoundAssumption ==
    MaxEntries \in Nat /\ MaxSessions \in Nat /\ MaxKills \in Nat
ASSUME ClientsAssumption == Clients # {}
ASSUME EditsAssumption == Edits \in BOOLEAN

VARIABLES
    pc,           \* the next step of a process
    cid,          \* csession
    mode,         \* 0 initial, 1 incremental
    folder,       \* what the client announced for each name, or NoRow
    todo,         \* DirInfo entries pass 1 has not looked at
    topull,       \* files pass 1 chose and pass 2 has not finished
    pull,         \* names of pullreq whose push is not complete
    fmap,         \* fmap: the row pass 2 cached for each name, or NoRow
    sessions,     \* sessions opened so far
    kills         \* processes killed so far

procVars == <<pc, cid, mode, folder, todo, topull, pull, fmap>>
vars == <<dbVars, procVars, sessions, kills>>

Entry == [name: Announced, md5: Contents, modtime: 1..MaxModtime]

ASSUME NoEntryAssumption == NoRow \notin Entry

\* A DirInfo names a file once.
DirInfos ==
    {d \in UNION {[1..k -> Entry] : k \in 0..MaxEntries} :
        \A i, j \in DOMAIN d : d[i].name = d[j].name => i = j}

Labels == {"idle", "dirinfo", "chk", "get", "rename", "ino", "inc", "dup",
           "log", "row", "cmp", "rem", "add", "gap", "push", "chunks",
           "inode", "complete", "commit", "spin", "exit"}

AnyClient == CHOOSE c \in Clients : TRUE

NoFiles == [n \in Names |-> NoRow]

User(p) == Uid[cid[p]]

TypeOK ==
    /\ DBTypeOK
    /\ pc \in [Procs -> Labels]
    /\ cid \in [Procs -> Clients]
    /\ mode \in [Procs -> {0, 1}]
    /\ folder \in [Procs -> [Names -> Entry \cup {NoRow}]]
    /\ todo \in [Procs -> Seq(Entry)]
    /\ topull \in [Procs -> Seq(Entry)]
    /\ pull \in [Procs -> Seq(Names)]
    /\ fmap \in [Procs -> [Names -> Row \cup {NoRow}]]
    /\ sessions \in Nat
    /\ kills \in Nat

Init ==
    /\ DBInit
    /\ pc = [p \in Procs |-> "idle"]
    /\ cid = [p \in Procs |-> AnyClient]
    /\ mode = [p \in Procs |-> 0]
    /\ folder = [p \in Procs |-> NoFiles]
    /\ todo = [p \in Procs |-> <<>>]
    /\ topull = [p \in Procs |-> <<>>]
    /\ pull = [p \in Procs |-> <<>>]
    /\ fmap = [p \in Procs |-> NoFiles]
    /\ sessions = 0
    /\ kills = 0

-----------------------------------------------------------------------------
(* Steps of control *)

At(p, l) == pc[p] = l
Goto(p, l) == pc' = [pc EXCEPT ![p] = l]

\* The process is gone and its memory with it.
Gone(p) ==
    /\ Goto(p, "idle")
    /\ mode' = [mode EXCEPT ![p] = 0]
    /\ folder' = [folder EXCEPT ![p] = NoFiles]
    /\ todo' = [todo EXCEPT ![p] = <<>>]
    /\ topull' = [topull EXCEPT ![p] = <<>>]
    /\ pull' = [pull EXCEPT ![p] = <<>>]
    /\ fmap' = [fmap EXCEPT ![p] = NoFiles]
    /\ cid' = [cid EXCEPT ![p] = AnyClient]

\* An uncaught exception (a null json read as a row): atexit does not run.
Abort(p) == Gone(p) /\ UNCHANGED <<dbVars, sessions, kills>>

(***************************************************************************)
(* Tunnel: getUidBySession, userOnReceiving and chkCommitidNull read what  *)
(* no step changes, so they share the step that raises the flag.           *)
(***************************************************************************)
Start(p, c, m) ==
    /\ At(p, "idle")
    /\ sessions < MaxSessions
    /\ ~userOnReceiving(Uid[c])
    /\ m = 1 => chkCommitidNull(c)
    /\ setUserOnReceiving(c, TRUE)
    /\ Goto(p, "dirinfo")
    /\ cid' = [cid EXCEPT ![p] = c]
    /\ mode' = [mode EXCEPT ![p] = m]
    /\ sessions' = sessions + 1
    /\ UNCHANGED <<files, inode, journal, commitid, store, folder, todo,
                   topull, pull, fmap, kills>>

ReadDirInfo(p, d) ==
    /\ At(p, "dirinfo")
    /\ Goto(p, "chk")
    /\ todo' = [todo EXCEPT ![p] = d]
    /\ folder' = [folder EXCEPT ![p] = [n \in Names |->
            IF \E i \in DOMAIN d : d[i].name = n
            THEN d[CHOOSE i \in DOMAIN d : d[i].name = n]
            ELSE NoRow]]
    /\ UNCHANGED <<dbVars, cid, mode, topull, pull, fmap, sessions, kills>>

\* Nothing to pull after pass 1, and after pass 2.
NothingChosen(p) == At(p, "chk") /\ todo[p] = <<>> /\ topull[p] = <<>>
NothingToPull(p) == At(p, "ino") /\ topull[p] = <<>> /\ pull[p] = <<>>

\* The steps that lower the flag and then exit.
LowerFlag(p) ==
    /\ setUserOnReceiving(cid[p], FALSE)
    /\ Goto(p, "exit")
    /\ UNCHANGED <<files, inode, journal, commitid, store, cid, mode, folder,
                   todo, topull, pull, fmap, sessions, kills>>

\* Another message than DirInfo, or the connection closes.
BadDirInfo(p) == At(p, "dirinfo") /\ LowerFlag(p)

\* An empty Pull is sent.
SendEmptyPull(p) == (NothingChosen(p) \/ NothingToPull(p)) /\ LowerFlag(p)

\* exit() runs onexit, which lowers the flag (once more).
OnExit(p) ==
    /\ At(p, "exit")
    /\ setUserOnReceiving(cid[p], FALSE)
    /\ Gone(p)
    /\ UNCHANGED <<files, inode, journal, commitid, store, sessions, kills>>

\* SIGKILL, SIGPIPE on a send, or the machine going down: onexit does not run.
Kill(p) ==
    /\ ~At(p, "idle")
    /\ kills < MaxKills
    /\ kills' = kills + 1
    /\ Gone(p)
    /\ UNCHANGED <<dbVars, sessions>>

-----------------------------------------------------------------------------
(* Pass 1: compare the DirInfo with table files. *)

\* chkFilePath finds no row: a new file.
ChooseNew(p) ==
    /\ At(p, "chk") /\ todo[p] # <<>>
    /\ ~chkFilePath(User(p), Head(todo[p]).name)
    /\ topull' = [topull EXCEPT ![p] = Append(@, Head(todo[p]))]
    /\ todo' = [todo EXCEPT ![p] = Tail(@)]
    /\ UNCHANGED <<dbVars, pc, cid, mode, folder, pull, fmap, sessions, kills>>

\* chkFilePath finds a row: getFileScheme comes next.
FoundRow(p) ==
    /\ At(p, "chk") /\ todo[p] # <<>>
    /\ chkFilePath(User(p), Head(todo[p]).name)
    /\ Goto(p, "get")
    /\ UNCHANGED <<dbVars, cid, mode, folder, todo, topull, pull, fmap,
                   sessions, kills>>

\* Slips: the times are not compared, or compared the wrong way round.
Differs(e, row) == e.md5 # row.md5
NewerReversed(e, row) == e.modtime < row.modtime /\ e.md5 # row.md5

Newer(e, row) == e.modtime > row.modtime /\ e.md5 # row.md5
Resumes(e, row) == ~Newer(e, row) /\ e.modtime = row.modtime /\ ~row.complete

\* getFileScheme and the decision.  An initial session first renames the row.
Compare(p) ==
    LET e == Head(todo[p])
        row == files[User(p)][e.name]
        renames == Newer(e, row) /\ mode[p] = 0
    IN  /\ At(p, "get")
        /\ row # NoRow
        /\ topull' = IF Newer(e, row) \/ Resumes(e, row)
                     THEN [topull EXCEPT ![p] = Append(@, e)] ELSE topull
        /\ todo' = IF renames THEN todo ELSE [todo EXCEPT ![p] = Tail(@)]
        /\ Goto(p, IF renames THEN "rename" ELSE "chk")
        /\ UNCHANGED <<dbVars, cid, mode, folder, pull, fmap, sessions, kills>>

Rename(p) ==
    LET n == Head(todo[p]).name
    IN  /\ At(p, "rename")
        /\ fileRename(User(p), n, Old[n])
        /\ todo' = [todo EXCEPT ![p] = Tail(@)]
        /\ Goto(p, "chk")
        /\ UNCHANGED <<inode, journal, syncing, commitid, store, cid, mode,
                       folder, topull, pull, fmap, sessions, kills>>

\* A row that another process deleted since chkFilePath: the fields of a null
\* json have no values.
RowVanished(p) ==
    /\ \/ At(p, "get") /\ ~chkFilePath(User(p), Head(todo[p]).name)
       \/ pc[p] \in {"cmp", "gap"}
          /\ ~chkFilePath(User(p), Head(topull[p]).name)
    /\ Abort(p)

-----------------------------------------------------------------------------
(* Pass 2: take from the store what it has, pull the rest. *)

NextFile(p) == topull' = [topull EXCEPT ![p] = Tail(@)]

\* The loop of pass 2 takes its first file once pass 1 is done.
Ready2(p) ==
    /\ \/ At(p, "chk") /\ todo[p] = <<>>
       \/ At(p, "ino")
    /\ topull[p] # <<>>

CheckInode(p) ==
    /\ Ready2(p)
    /\ Goto(p, IF chkFileInodeExist(Head(topull[p]).md5) THEN "inc" ELSE "row")
    /\ UNCHANGED <<dbVars, cid, mode, folder, todo, topull, pull, fmap,
                   sessions, kills>>

IncRef(p) ==
    /\ At(p, "inc")
    /\ incRefCount(Head(topull[p]).md5)
    /\ Goto(p, "dup")
    /\ UNCHANGED <<files, journal, syncing, commitid, store, cid, mode,
                   folder, todo, topull, pull, fmap, sessions, kills>>

AddComplete(p) ==
    /\ At(p, "dup")
    /\ addFile(User(p), Head(topull[p]), TRUE)
    /\ Goto(p, "log")
    /\ UNCHANGED <<inode, journal, syncing, commitid, store, cid, mode,
                   folder, todo, topull, pull, fmap, sessions, kills>>

CommitKnown(p) ==
    /\ At(p, "log")
    /\ journalCommit(User(p), Head(topull[p]).name, Head(topull[p]).md5)
    /\ NextFile(p)
    /\ Goto(p, "ino")
    /\ UNCHANGED <<files, inode, syncing, commitid, store, cid, mode,
                   folder, todo, pull, fmap, sessions, kills>>

CheckRow(p) ==
    /\ At(p, "row")
    /\ Goto(p, IF chkFilePath(User(p), Head(topull[p]).name)
               THEN "cmp" ELSE "add")
    /\ UNCHANGED <<dbVars, cid, mode, folder, todo, topull, pull, fmap,
                   sessions, kills>>

\* Slips: the md5s are not compared; the loop turns without going on.
CompareRowBlind(p) ==
    /\ At(p, "cmp")
    /\ files[User(p)][Head(topull[p]).name] # NoRow
    /\ Goto(p, "gap")
    /\ UNCHANGED <<dbVars, cid, mode, folder, todo, topull, pull, fmap,
                   sessions, kills>>

CompareRowAgain(p) ==
    LET row == files[User(p)][Head(topull[p]).name]
    IN  /\ At(p, "cmp")
        /\ row # NoRow
        /\ Goto(p, IF row.md5 # Head(topull[p]).md5 THEN "rem" ELSE "row")
        /\ UNCHANGED <<dbVars, cid, mode, folder, todo, topull, pull, fmap,
                       sessions, kills>>

CompareRow(p) ==
    LET row == files[User(p)][Head(topull[p]).name]
    IN  /\ At(p, "cmp")
        /\ row # NoRow
        /\ Goto(p, IF row.md5 # Head(topull[p]).md5 THEN "rem" ELSE "gap")
        /\ UNCHANGED <<dbVars, cid, mode, folder, todo, topull, pull, fmap,
                       sessions, kills>>

RemoveRow(p) ==
    /\ At(p, "rem")
    /\ removeFile(Head(topull[p]).name)
    /\ Goto(p, "add")
    /\ UNCHANGED <<inode, journal, syncing, commitid, store, cid, mode,
                   folder, todo, topull, pull, fmap, sessions, kills>>

AddPartial(p) ==
    /\ At(p, "add")
    /\ addFile(User(p), Head(topull[p]), FALSE)
    /\ Goto(p, "gap")
    /\ UNCHANGED <<inode, journal, syncing, commitid, store, cid, mode,
                   folder, todo, topull, pull, fmap, sessions, kills>>

\* What the cached row lacks goes into pullreq; the row into fmap.
PullGaps(p) ==
    LET n == Head(topull[p]).name
        row == files[User(p)][n]
    IN  /\ At(p, "gap")
        /\ row # NoRow
        /\ fmap' = [fmap EXCEPT ![p][n] = row]
        /\ pull' = IF row.chunks < Size[row.md5]
                   THEN [pull EXCEPT ![p] = Append(@, n)] ELSE pull
        /\ NextFile(p)
        /\ Goto(p, "ino")
        /\ UNCHANGED <<dbVars, cid, mode, folder, todo, sessions, kills>>

SendPull(p) ==
    /\ At(p, "ino") /\ topull[p] = <<>> /\ pull[p] # <<>>
    /\ Goto(p, "push")
    /\ UNCHANGED <<dbVars, cid, mode, folder, todo, topull, pull, fmap,
                   sessions, kills>>

-----------------------------------------------------------------------------
(* The push loop: pieces arrive in the order of the Pull. *)

NextName(p) == Head(pull[p])
Cached(p) == fmap[p][NextName(p)]
NextPiece(p) == Cached(p).chunks + 1

\* The piece the client announced, if its content has so many.
AnnouncedByte(p) ==
    LET m == folder[p][NextName(p)].md5
    IN  IF NextPiece(p) <= Size[m] THEN <<m, NextPiece(p)>> ELSE Garbage

\* What the client's file holds there when it is read, at push time.
PushedBytes(p) == {AnnouncedByte(p)} \cup (IF Edits THEN {Garbage} ELSE {})

\* A slip: the end of the file is one piece early.
FullEarly(row, k) == k + 1 >= Size[row.md5]

\* insertIntoChunks returns true when the only chunk is the whole file.
Full(row, k) == k = Size[row.md5]

\* A slip: a full file is not entered in table inode.
AfterPieceNoInode(p) ==
    IF Full(Cached(p), NextPiece(p)) THEN "complete" ELSE "chunks"

\* What follows insertIntoChunks.
AfterPiece(p) == IF Full(Cached(p), NextPiece(p)) THEN "inode" ELSE "chunks"

Receiving(p) == At(p, "push") /\ pull[p] # <<>>

\* writeToChunks when the file is not there yet: create and preallocate it.
Preallocate(p) ==
    /\ Receiving(p)
    /\ ~Created(Cached(p).md5)
    /\ createStore(Cached(p).md5)
    /\ UNCHANGED <<files, inode, journal, syncing, commitid, procVars,
                   sessions, kills>>

WritePiece(p) ==
    /\ Receiving(p)
    /\ Created(Cached(p).md5)
    /\ \E b \in PushedBytes(p) : writeStore(Cached(p).md5, NextPiece(p), b)
    /\ Goto(p, AfterPiece(p))
    /\ UNCHANGED <<files, inode, journal, syncing, commitid, cid, mode,
                   folder, todo, topull, pull, fmap, sessions, kills>>

\* The row and the cached row take the chunks with the piece inserted.
RecordChunks(p) ==
    LET row == Cached(p)
    IN  /\ At(p, "chunks")
        /\ updateChunks(User(p), row.md5, NextPiece(p))
        /\ fmap' = [fmap EXCEPT ![p][NextName(p)] = WithChunks(@, NextPiece(p))]
        /\ Goto(p, "push")
        /\ UNCHANGED <<inode, journal, syncing, commitid, store, cid, mode,
                       folder, todo, topull, pull, sessions, kills>>

AddInode(p) ==
    /\ At(p, "inode")
    /\ addInodeFile(Cached(p).md5)
    /\ Goto(p, "complete")
    /\ UNCHANGED <<files, journal, syncing, commitid, store, cid, mode,
                   folder, todo, topull, pull, fmap, sessions, kills>>

\* A slip: only the row of the session's user and file.
CompleteOwnRow(p) ==
    LET u == User(p)
        n == NextName(p)
    IN  /\ At(p, "complete")
        /\ files' = IF files[u][n] = NoRow THEN files
                    ELSE [files EXCEPT ![u][n] = Completed(@)]
        /\ Goto(p, "commit")
        /\ UNCHANGED <<inode, journal, syncing, commitid, store, cid, mode,
                       folder, todo, topull, pull, fmap, sessions, kills>>

Complete(p) ==
    /\ At(p, "complete")
    /\ completeFile(Cached(p).md5)
    /\ Goto(p, "commit")
    /\ UNCHANGED <<inode, journal, syncing, commitid, store, cid, mode,
                   folder, todo, topull, pull, fmap, sessions, kills>>

CommitPulled(p) ==
    /\ At(p, "commit")
    /\ journalCommit(User(p), NextName(p), Cached(p).md5)
    /\ pull' = [pull EXCEPT ![p] = Tail(@)]
    /\ Goto(p, "push")
    /\ UNCHANGED <<files, inode, syncing, commitid, store, cid, mode,
                   folder, todo, topull, fmap, sessions, kills>>

\* The connection closes between two messages (fatal), the Pull cannot be
\* sent, or writeToChunks fails: exit without lowering the flag first.
HangUp(p) ==
    /\ \/ At(p, "push")
       \/ NothingChosen(p)
       \/ At(p, "ino") /\ topull[p] = <<>>
    /\ Goto(p, "exit")
    /\ UNCHANGED <<dbVars, cid, mode, folder, todo, topull, pull, fmap,
                   sessions, kills>>

\* recv fails inside a piece: "Error when reading Push".
ReadFails(p) == Receiving(p) /\ LowerFlag(p)

\* The connection closes inside a piece: recv returns 0 and ::readn of
\* tsock.h, which only looks for negative results, calls it for ever.
CloseInsidePiece(p) ==
    /\ Receiving(p)
    /\ Goto(p, "spin")
    /\ UNCHANGED <<dbVars, cid, mode, folder, todo, topull, pull, fmap,
                   sessions, kills>>

ReadnAgain(p) == At(p, "spin") /\ UNCHANGED vars

-----------------------------------------------------------------------------
\* The steps of the code between two waits for the client.
Work(p) ==
    \/ SendEmptyPull(p) \/ OnExit(p)
    \/ ChooseNew(p) \/ FoundRow(p) \/ Compare(p) \/ Rename(p)
    \/ RowVanished(p)
    \/ CheckInode(p) \/ IncRef(p) \/ AddComplete(p) \/ CommitKnown(p)
    \/ CheckRow(p) \/ CompareRow(p) \/ RemoveRow(p) \/ AddPartial(p)
    \/ PullGaps(p) \/ SendPull(p)
    \/ RecordChunks(p) \/ AddInode(p) \/ Complete(p) \/ CommitPulled(p)
    \/ ReadnAgain(p)

\* What the client sends, or the connection closing.
Peer(p) ==
    \/ \E c \in Clients, m \in {0, 1} : Start(p, c, m)
    \/ \E d \in DirInfos : ReadDirInfo(p, d)
    \/ BadDirInfo(p)
    \/ Preallocate(p) \/ WritePiece(p)
    \/ HangUp(p) \/ ReadFails(p) \/ CloseInsidePiece(p)

Next == \E p \in Procs : Work(p) \/ Peer(p) \/ Kill(p)

Spec == Init /\ [][Next]_vars

-----------------------------------------------------------------------------
(* Properties *)

Busy(p) == ~At(p, "idle")

\* The rows of table files.
HasRow(u, n) == files[u][n] # NoRow

\* A name that an initial session may rename one of its files to.
RenamedTo(p, n) ==
    mode[p] = 0 /\ \E x \in Announced : folder[p][x] # NoRow /\ Old[x] = n

\* A content the inode table lists is on disk to its last piece: what
\* chkFileInodeExist answers lets a client skip the upload (pass 2).
InodeStored ==
    \A m \in Contents : inode[m] > 0 => \A i \in 1..Size[m] : Written(m, i)

\* A complete row, which senders offer for download, has an inode.
CompleteHasInode ==
    \A u \in Users, n \in Names :
        HasRow(u, n) /\ files[u][n].complete => inode[files[u][n].md5] > 0

\* Resuming is sound: the pieces a row records, which no later Pull asks for,
\* were written to the store file of the row's md5.
ChunksOnDisk ==
    \A u \in Users, n \in Names : HasRow(u, n) =>
        /\ files[u][n].chunks < Size[files[u][n].md5]
        /\ \A i \in 1..files[u][n].chunks : Written(files[u][n].md5, i)

\* The journal announces no content before the store has it.
JournalHasInode == \A i \in 1..Len(journal) : inode[journal[i].md5] > 0

\* A session whose Pull was answered in full has every file it pulled
\* complete, with the announced content, and in the journal.
PulledIsComplete ==
    \A p \in Procs : At(p, "push") /\ pull[p] = <<>> =>
        \A n \in Names : fmap[p][n] # NoRow =>
            /\ HasRow(User(p), n)
            /\ files[User(p)][n].complete
            /\ files[User(p)][n].md5 = folder[p][n].md5
            /\ [uid |-> User(p), name |-> n, md5 |-> folder[p][n].md5]
                   \in {journal[i] : i \in 1..Len(journal)}

\* After pass 2 no announced file is behind: its row has the announced
\* content or is as recent, or the content was known and only counted.
NothingForgotten ==
    \A p \in Procs : At(p, "push") =>
        \A n \in Names : folder[p][n] # NoRow =>
            /\ HasRow(User(p), n)
            /\ \/ files[User(p)][n].md5 = folder[p][n].md5
               \/ files[User(p)][n].modtime >= folder[p][n].modtime
               \/ inode[folder[p][n].md5] > 0

\* At rest no partial row waits for a content the store already has: pass 2
\* would count a reference and never complete the row (addFile fails).
NoStuckPartial ==
    (\A p \in Procs : ~Busy(p)) =>
        \A u \in Users, n \in Names :
            HasRow(u, n) /\ inode[files[u][n].md5] > 0 => files[u][n].complete

\* Only a kill can leave such a row: hang-ups and errors do not.
StuckOnlyByKill == kills = 0 => NoStuckPartial

\* Both passes end whatever the other processes do to the tables: once the
\* DirInfo is in, the client is sent a Pull or the process exits.
PassesEnd ==
    \A p \in Procs :
        pc[p] \notin {"idle", "dirinfo", "push"} /\ fmap[p] = NoFiles
            /\ ~At(p, "spin")
        ~> pc[p] \in {"push", "idle"}

=============================================================================
