------------------------------- MODULE SyncDB -------------------------------
(***************************************************************************)
(* The state every server process shares: the MySQL tables of              *)
(* Server/G2652.sql and the directory StorePath of uploaded contents, with *)
(* one operator per statement of database.hpp.  A statement is one atomic, *)
(* autocommitted step; a statement that fails (a duplicate key) leaves the *)
(* table as it was, because no caller looks at the return value.           *)
(*                                                                         *)
(* A name stands for a (path, filename) pair, a content for an md5 and the *)
(* bytes behind it.  A file is cut into pieces of at most MaxPushBytes,    *)
(* the unit in which clients push, so a length is a number of pieces.      *)
(***************************************************************************)
EXTENDS Integers, Sequences, FiniteSets

CONSTANTS
    Users,        \* uids of table user
    Clients,      \* cids (sessions) of table client
    Uid,          \* the uid column of table client
    Names,        \* (path, filename) pairs a row of files can have
    Announced,    \* the names client machines send in a DirInfo
    Old,          \* the name with ".old" appended to the filename
    Contents,     \* md5s
    Size,         \* pieces of a content
    MaxSize,      \* bound on the pieces of a content
    MaxModtime,   \* bound on modification times
    NoRow,        \* the result of a SELECT that finds no row
    Absent,       \* a piece of a store file that does not exist
    Hole,         \* a piece that is preallocated and not written
    Garbage       \* bytes that are no piece of an announced content

ASSUME UidAssumption == Uid \in [Clients -> Users]
ASSUME SizeAssumption == MaxSize \in Nat /\ Size \in [Contents -> 1..MaxSize]
ASSUME NameAssumption ==
    /\ Announced \subseteq Names
    /\ Old \in [Announced -> Names]
    /\ \A n \in Announced : Old[n] # n
ASSUME ModtimeAssumption == MaxModtime \in Nat

VARIABLES
    files,        \* table files: files[u][n] is the row with that key, or NoRow
    inode,        \* table inode: the refcount, 0 when there is no row
    journal,      \* table journal: a row's commitid is its place in it
    syncing,      \* column syncing of table user
    commitid,     \* column commitid of table client, 0 for NULL
    store         \* StorePath: what each piece of file store/md5 holds

dbVars == <<files, inode, journal, syncing, commitid, store>>

(***************************************************************************)
(* A row's chunks are a number of leading pieces.  Clients answer a Pull   *)
(* in order, so the list of chunks is either empty or one chunk with       *)
(* offset 0; module Chunks checks that the list operations keep it so.     *)
(* NULL and the empty list, which getFileScheme does not tell apart, are 0.*)
(***************************************************************************)
Row == [md5: Contents, complete: BOOLEAN, modtime: 1..MaxModtime, chunks: 0..MaxSize]

ASSUME NoRowAssumption == NoRow \notin Row

Commit == [uid: Users, name: Names, md5: Contents]

\* What the i-th piece of a store file can hold once written: some piece of
\* some content.
Piece == (Contents \X (1..MaxSize)) \cup {Garbage}
Bytes == {Absent, Hole} \cup Piece

ASSUME BytesAssumption == Absent \notin Piece /\ Hole \notin Piece /\ Absent # Hole

DBTypeOK ==
    /\ files \in [Users -> [Names -> Row \cup {NoRow}]]
    /\ inode \in [Contents -> Nat]
    /\ journal \in Seq(Commit)
    /\ syncing \in [Users -> BOOLEAN]
    /\ commitid \in [Clients -> Nat]
    /\ store \in [Contents -> [1..MaxSize -> Bytes]]

DBInit ==
    /\ files = [u \in Users |-> [n \in Names |-> NoRow]]
    /\ inode = [m \in Contents |-> 0]
    /\ journal = <<>>
    /\ syncing = [u \in Users |-> FALSE]
    /\ commitid = [c \in Clients |-> 0]
    /\ store = [m \in Contents |-> [i \in 1..MaxSize |-> Absent]]

-----------------------------------------------------------------------------
(* Table files *)

chkFilePath(u, n) == files[u][n] # NoRow

NewRow(e, done) ==
    [md5 |-> e.md5, complete |-> done, modtime |-> e.modtime, chunks |-> 0]

WithChunks(row, k) == [row EXCEPT !.chunks = k]

Completed(row) == [WithChunks(row, 0) EXCEPT !.complete = TRUE]

\* INSERT: a duplicate key fails and leaves the row that is there.
addFile(u, e, done) ==
    files' = IF chkFilePath(u, e.name) THEN files
             ELSE [files EXCEPT ![u][e.name] = NewRow(e, done)]

\* UPDATE ... SET filename: it fails when the new name is taken.
fileRename(u, n, new) ==
    files' = IF chkFilePath(u, new) THEN files
             ELSE [files EXCEPT ![u][new] = files[u][n], ![u][n] = NoRow]

\* DELETE ... WHERE filename and path: the rows of every user.
removeFile(n) == files' = [u \in Users |-> [files[u] EXCEPT ![n] = NoRow]]

\* A slip: only rows without chunks.
completeFileFresh(m) ==
    files' = [u \in Users |-> [n \in Names |->
                IF files[u][n] # NoRow /\ files[u][n].md5 = m /\ files[u][n].chunks = 0
                THEN [files[u][n] EXCEPT !.complete = TRUE]
                ELSE files[u][n]]]

\* UPDATE ... WHERE md5: the rows of every user.
completeFile(m) ==
    files' = [u \in Users |-> [n \in Names |->
                IF files[u][n] # NoRow /\ files[u][n].md5 = m
                THEN Completed(files[u][n])
                ELSE files[u][n]]]

\* A slip: the md5 is missing from the WHERE clause.
updateChunksOfUser(u, m, k) ==
    files' = [files EXCEPT ![u] = [n \in Names |->
                IF files[u][n] # NoRow
                THEN WithChunks(files[u][n], k)
                ELSE files[u][n]]]

\* UPDATE ... WHERE uid and md5: every row of the user with that md5.
updateChunks(u, m, k) ==
    files' = [files EXCEPT ![u] = [n \in Names |->
                IF files[u][n] # NoRow /\ files[u][n].md5 = m
                THEN WithChunks(files[u][n], k)
                ELSE files[u][n]]]

\* A slip: without "complete=1".
scanUserFileAll(u) ==
    [n \in {x \in Names : files[u][x] # NoRow} |-> files[u][n].md5]

\* SELECT ... WHERE uid and complete=1, as a function from names to md5s.
scanUserFile(u) ==
    [n \in {x \in Names : files[u][x] # NoRow /\ files[u][x].complete} |->
        files[u][n].md5]

-----------------------------------------------------------------------------
(* Tables inode, journal, user and client *)

chkFileInodeExist(m) == inode[m] > 0

\* INSERT with refcount 1: a duplicate key fails.
addInodeFile(m) ==
    inode' = IF chkFileInodeExist(m) THEN inode ELSE [inode EXCEPT ![m] = 1]

incRefCount(m) ==
    inode' = IF chkFileInodeExist(m) THEN [inode EXCEPT ![m] = @ + 1] ELSE inode

\* A slip: the entry replaces the last one of the file.
journalCommitLatest(u, n, m) ==
    LET Other(c) == c.uid # u \/ c.name # n
    IN  journal' = Append(SelectSeq(journal, Other), [uid |-> u, name |-> n, md5 |-> m])

journalCommit(u, n, m) ==
    journal' = Append(journal, [uid |-> u, name |-> n, md5 |-> m])

\* The function starts with "return 0".
userOnReceiving(u) == FALSE

setUserOnReceiving(c, on) == syncing' = [syncing EXCEPT ![Uid[c]] = on]

\* It returns whether the client has a row, whatever its commitid.
chkCommitidNull(c) == c \in Clients

setCommitidNull(c) == commitid' = [commitid EXCEPT ![c] = 0]

\* A slip: without "WHERE uid".
MaxCommitidOfAll(u) == Len(journal)

\* SELECT max(commitid) ... WHERE uid: 0 stands for NULL.
MaxCommitid(u) ==
    LET mine == {i \in 1..Len(journal) : journal[i].uid = u}
    IN  IF mine = {} THEN 0 ELSE CHOOSE i \in mine : \A j \in mine : j <= i

-----------------------------------------------------------------------------
(* StorePath *)

Created(m) == store[m][1] # Absent

Written(m, i) == store[m][i] \notin {Absent, Hole}

\* open(O_CREAT) and fallocate of the full length.
createStore(m) ==
    store' = [store EXCEPT ![m] = [i \in 1..MaxSize |->
                IF i <= Size[m] THEN Hole ELSE Absent]]

\* lseek and write of one piece.
writeStore(m, i, b) == store' = [store EXCEPT ![m][i] = b]

=============================================================================
