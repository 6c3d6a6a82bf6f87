------------------------------ MODULE Download ------------------------------
(***************************************************************************)
(* The downloading client: ReceiverThread::sync and LocalFileWriter over   *)
(* the local files and the .tmydownload files beside them, in as many      *)
(* sessions and starts of the program as it takes.  One action is one      *)
(* operation on a file, or one message, with the local code around it.     *)
(*                                                                         *)
(* The server answers a Pull as senderInit does (module Sender): piece by  *)
(* piece, from the row that has the name when the piece is sent.  The rows *)
(* change under the client, connections close, the program is stopped      *)
(* anywhere, and the user edits files.  A Push is read as a whole before   *)
(* its pieces are written: what fails in it loses all of them.             *)
(***************************************************************************)
EXTENDS Integers, Sequences, FiniteSets

CONSTANTS
    Names,        \* (path, filename) pairs of local files
    Order,        \* the names rows can have, in the order of a DirInfo
    Old,          \* the name with ".old" appended, for the names in Order
    Contents,     \* what users write
    Size,         \* pieces of a content
    MaxSize,      \* bound on the pieces of a file
    MaxClock,     \* bound on modification times
    MaxChanges,   \* bound on the changes of rows
    MaxEdits,     \* bound on the edits of local files
    MaxBreaks,    \* bound on stops of the program and lost connections
    NoFile,       \* a row or a file that does not exist
    NoMeta,       \* a .tmydownload file that does not exist
    NoName,       \* no file set
    Mixed         \* bytes that are not a piece of any content

Announced == {Order[i] : i \in DOMAIN Order}

ASSUME OrderAssumption ==
    /\ Order \in Seq(Names)
    /\ \A i, j \in DOMAIN Order : Order[i] = Order[j] => i = j
    /\ Old \in [Announced -> Names]
    /\ \A n \in Announced : Old[n] # n
ASSUME SizesAssumption == MaxSize \in Nat /\ Size \in [Contents -> 1..MaxSize]
ASSUME LimitsAssumption ==
    MaxClock \in Nat /\ MaxChanges \in Nat /\ MaxEdits \in Nat /\ MaxBreaks \in Nat

VARIABLES
    rows,         \* the complete rows of the user: what a DirInfo offers
    local,        \* local files
    meta,         \* .tmydownload files: the number of pieces they record
    pc,           \* the next step of the thread
    mode,         \* 1 initial (the folder was just chosen), 3 afterwards
    dir,          \* dirinfo
    at,           \* the entry the loop over dirinfo has come to
    flen,         \* flen: a length by name, 0 without one
    pulls,        \* what of the Pull the server has not sent
    file,         \* the file set in the LocalFileWriter of the push loop
    chunks,       \* its chunks: a number of leading pieces
    push,         \* the piece received last
    shifted,      \* less was sent than announced: what is left of the Push
                  \* was read from the wrong place
    steady,       \* what was asked for is what the rows have: see Steady
    clock, changes, edits, breaks

threadVars == <<pc, mode, dir, at, flen, pulls, file, chunks, push,
                shifted>>
worldVars == <<rows, steady, clock, changes, edits, breaks>>
downloadVars == <<rows, local, meta, threadVars, steady, clock, changes, edits, breaks>>

Bytes(m) == [i \in 1..Size[m] |-> <<m, i>>]
Versions == {Bytes(m) : m \in Contents}
Pieces == (UNION {{b[i] : i \in DOMAIN b} : b \in Versions}) \cup {Mixed}
Stored == [bytes : UNION {[1..k -> Pieces] : k \in 0..MaxSize}, modtime : 0..MaxClock + 1]

ASSUME NoneAssumption ==
    /\ NoFile \notin [bytes : Seq(Pieces), modtime : Nat]
    /\ NoMeta \notin Nat /\ NoName \notin Names

\* A PullReqEntry, or the piece of a PushReqEntry (bytes is empty or one).
Nothing == [name |-> NoName, from |-> 0, bytes |-> <<>>]

DownloadTypeOK ==
    /\ rows \in [Announced -> Stored \cup {NoFile}]
    /\ local \in [Names -> Stored \cup {NoFile}]
    /\ meta \in [Names -> (0..MaxSize) \cup {NoMeta}]
    /\ pc \in {"off", "dial", "check", "rename", "remove", "create", "wait",
               "truncate", "load", "write", "insert", "spin", "sleep"}
    /\ mode \in {1, 3}
    /\ dir \in Seq([name : Names, bytes : Versions, modtime : 0..MaxClock])
    /\ at \in 1 .. Len(Order) + 1
    /\ flen \in [Names -> 0..MaxSize]
    /\ \A i \in DOMAIN pulls : pulls[i].name \in Names /\ pulls[i].from \in 1 .. MaxSize + 1
    /\ file \in Names \cup {NoName}
    /\ chunks \in 0..MaxSize
    /\ push.name \in Names \cup {NoName}
    /\ shifted \in BOOLEAN
    /\ steady \in BOOLEAN
    /\ clock \in 0..MaxClock

\* The server may have files before this machine comes.
DownloadInit ==
    /\ rows \in [Announced -> [bytes : Versions, modtime : {0}] \cup {NoFile}]
    /\ local = [n \in Names |-> NoFile]
    /\ meta = [n \in Names |-> NoMeta]
    /\ pc = "off" /\ mode = 3 /\ dir = <<>> /\ at = 1
    /\ flen = [n \in Names |-> 0]
    /\ pulls = <<>> /\ file = NoName /\ chunks = 0 /\ push = Nothing
    /\ shifted = FALSE /\ steady = TRUE
    /\ clock = 0 /\ changes = 0 /\ edits = 0 /\ breaks = 0

Downloading(n) == meta[n] # NoMeta
Exists(n) == local[n] # NoFile

-----------------------------------------------------------------------------
(* The other machines, the user, and the end of the program *)

\* Nobody changes a row while this machine works on it: only between two
\* sessions, and not when a part of it is here already, or recorded to be.
\* (Nor is a row asked for with the length of another: see KeepLocal.)
Steady ==
    /\ pc \in {"off", "dial", "sleep"}
    /\ \A n \in Announced : rows'[n] # rows[n] /\ Downloading(n) =>
           ~Exists(n) /\ meta[n] = 0

\* Another machine's upload completes, of a version made after the one it
\* replaces; in an initial session the row it replaces was renamed before.
RowChanges(n, m, t, renames) ==
    /\ changes < MaxChanges /\ changes' = changes + 1
    /\ t <= clock + 2 /\ t <= MaxClock /\ t % 2 = 0
    /\ clock' = IF t > clock THEN t ELSE clock
    /\ rows[n] # NoFile => t > rows[n].modtime /\ Bytes(m) # rows[n].bytes
    /\ renames => rows[n] # NoFile /\ Old[n] \in Announced
                    /\ rows[Old[n]] = NoFile
    /\ rows' = [x \in Announced |->
                  IF x = n THEN [bytes |-> Bytes(m), modtime |-> t]
                  ELSE IF renames /\ x = Old[n] THEN rows[n] ELSE rows[x]]
    /\ steady' = (steady /\ Steady)
    /\ UNCHANGED <<local, meta, threadVars, edits, breaks>>

\* Files under download are left alone, and so is everything while the thread
\* is between its look at a file and what it does about it.
UserEdits(n, m) ==
    /\ edits < MaxEdits /\ edits' = edits + 1
    /\ pc \in {"off", "wait", "sleep"}
    /\ ~Downloading(n)
    /\ clock + 2 <= MaxClock /\ clock' = clock + 2
    /\ local' = [local EXCEPT ![n] = [bytes |-> Bytes(m), modtime |-> clock']]
    /\ UNCHANGED <<rows, meta, threadVars, steady, changes, breaks>>

\* The memory of the thread is gone.
ThreadEnds ==
    /\ pc' = "off" /\ mode' = 3 /\ dir' = <<>> /\ at' = 1
    /\ flen' = [n \in Names |-> 0]
    /\ pulls' = <<>> /\ file' = NoName /\ chunks' = 0 /\ push' = Nothing
    /\ shifted' = FALSE

\* The program is closed or killed, or the folder is unbound: terminate().
Stop ==
    /\ pc \notin {"off", "spin"}
    /\ breaks < MaxBreaks /\ breaks' = breaks + 1
    /\ ThreadEnds
    /\ UNCHANGED <<rows, local, meta, steady, clock, changes, edits>>

\* Nothing else ends a thread that is caught in readn.
StopHung ==
    /\ pc = "spin"
    /\ ThreadEnds
    /\ UNCHANGED <<worldVars, local, meta>>

\* The program starts with a folder (recvSync), or one is chosen (initSync).
Start(m) ==
    /\ pc = "off"
    /\ pc' = "dial" /\ mode' = m
    /\ UNCHANGED <<worldVars, local, meta, dir, at, flen, pulls, file, chunks, push,
                   shifted>>

-----------------------------------------------------------------------------
(* The loop over dirinfo *)

\* The one list of these places that is in order.
InOrder(places) ==
    {h \in [1..Cardinality(places) -> places] :
        /\ \A i, j \in DOMAIN h : i < j => h[i] < h[j]
        /\ {h[i] : i \in DOMAIN h} = places}

\* What a DirInfo says of a name.
Offered(n) == [name |-> n, bytes |-> rows[n].bytes, modtime |-> rows[n].modtime]

\* makeReceiver and waitDirInfo, which are repeated until they succeed.
ReadDirInfo ==
    /\ pc = "dial"
    /\ \E h \in InOrder({i \in DOMAIN Order : rows[Order[i]] # NoFile}) :
           dir' = [k \in DOMAIN h |-> Offered(Order[h[k]])]
    /\ at' = 1
    /\ flen' = [n \in Names |-> IF n \in Announced /\ rows[n] # NoFile
                                THEN Len(rows[n].bytes) ELSE 0]
    /\ pc' = "check"
    /\ UNCHANGED <<worldVars, local, meta, mode, pulls, file, chunks, push, shifted>>

Entry == dir[at]
Step(l) ==
    /\ pc' = l
    /\ UNCHANGED <<worldVars, mode, flen, pulls, file, chunks, push, shifted>>

\* What metacheck, the md5 and lastModified say of an entry.
Differs == Exists(Entry.name) /\ local[Entry.name].bytes # Entry.bytes
Newer == local[Entry.name].modtime > Entry.modtime
Skips ==
    \/ Downloading(Entry.name)
    \/ Exists(Entry.name) /\ ~Differs
    \/ Differs /\ Newer /\ mode = 3

SkipEntry ==
    /\ pc = "check" /\ at <= Len(dir) /\ Skips
    /\ at' = at + 1
    /\ Step("check") /\ UNCHANGED <<local, meta, dir>>

\* The local file is newer: the entry gets another name, under which it is
\* asked for although the server has another row of that name, or none.
KeepLocal ==
    LET new == Old[Entry.name]
    IN  /\ pc = "check" /\ at <= Len(dir) /\ ~Skips
        /\ Differs /\ Newer
        /\ dir' = [dir EXCEPT ![at].name = new]
        /\ steady' = (steady /\ ~(new \in Announced /\ rows[new] # NoFile))
        /\ pc' = "remove"
        /\ UNCHANGED <<rows, clock, changes, edits, breaks, local, meta, mode,
                       at, flen, pulls, file, chunks, push, shifted>>

\* A slip: the local file is replaced in an initial session too.
TakeOnlineAlways ==
    /\ pc = "check" /\ at <= Len(dir) /\ ~Skips
    /\ ~(Differs /\ Newer)
    /\ Step("remove")
    /\ UNCHANGED <<local, meta, dir, at>>

TakeOnline ==
    /\ pc = "check" /\ at <= Len(dir) /\ ~Skips
    /\ ~(Differs /\ Newer)
    /\ Step(IF Differs /\ mode = 1 THEN "rename" ELSE "remove")
    /\ UNCHANGED <<local, meta, dir, at>>

\* QFile::rename fails when the new name is taken; nobody looks.
RenameLocal ==
    LET n == Entry.name
    IN  /\ pc = "rename"
        /\ local' = IF Exists(Old[n]) THEN local
                    ELSE [local EXCEPT ![Old[n]] = local[n], ![n] = NoFile]
        /\ Step("remove") /\ UNCHANGED <<meta, dir, at>>

RemoveLocal ==
    /\ pc = "remove"
    /\ local' = [local EXCEPT ![Entry.name] = NoFile]
    /\ Step("create") /\ UNCHANGED <<meta, dir, at>>

CreateMeta ==
    /\ pc = "create"
    /\ meta' = [meta EXCEPT ![Entry.name] = 0]
    /\ at' = at + 1
    /\ Step("check") /\ UNCHANGED <<local, dir>>

\* A slip: the length of the last chunk is off by one.
PullShort(e) ==
    LET len == Len(e.bytes) - meta[e.name] - 1
    IN  [name |-> e.name, from |-> meta[e.name] + 1, len |-> len,
         of |-> e.bytes, cut |-> len > 1]

\* generatePullReqEntry: what comes after the recorded pieces, of the length
\* the DirInfo has for the entry; that length may be zero or negative.  What
\* is asked for is the rest of a content; the server cuts long rests.
PullOf(e) ==
    LET len == Len(e.bytes) - meta[e.name]
    IN  [name |-> e.name, from |-> meta[e.name] + 1, len |-> len,
         of |-> e.bytes, cut |-> len > 1]

SendPull ==
    LET asked == {i \in DOMAIN dir : Downloading(dir[i].name)}
    IN  /\ pc = "check" /\ at > Len(dir)
        /\ \E h \in InOrder(asked) : pulls' = [k \in DOMAIN h |-> PullOf(dir[h[k]])]
        /\ pc' = IF asked = {} THEN "sleep" ELSE "wait"
        /\ mode' = IF asked = {} THEN 3 ELSE mode
        /\ UNCHANGED <<worldVars, local, meta, dir, at, flen, file, chunks, push,
                       shifted>>

-----------------------------------------------------------------------------
(* The push loop *)

\* sync() returns; the writer goes with its chunks, and initSync sets mode 3.
Returns ==
    /\ pc' = "sleep" /\ mode' = 3
    /\ pulls' = <<>> /\ file' = NoName /\ chunks' = 0 /\ push' = Nothing
    /\ shifted' = FALSE
    /\ UNCHANGED <<rows, steady, clock, changes, edits, local, meta, dir, at, flen>>

\* Bytes that were announced do not come: ::readn calls recv for ever, which
\* returns 0 when the connection is closed.
Hung ==
    /\ pc' = "spin"
    /\ UNCHANGED <<rows, steady, clock, changes, edits, local, meta, mode, dir,
                   at, flen, pulls, file, chunks, push, shifted>>

Ask == Head(pulls)

\* The first i pieces may come in one Push: an entry that chunkify cuts has a
\* Push for each part, the others share one as far as it goes.
Together(i) == i = 1 \/ \A j \in 1..i : ~pulls[j].cut

\* The server has the piece an entry asks for; it has it of another content
\* than the one that was offered; that one ends in it, which may be sooner.
HasPiece(e) ==
    /\ e.name \in Announced /\ rows[e.name] # NoFile
    /\ e.from <= Len(rows[e.name].bytes)
OfAnother(e) == HasPiece(e) /\ rows[e.name].bytes # e.of
RunsOut(e) == OfAnother(e) /\ e.from = Len(rows[e.name].bytes)

\* "done", or the connection closes between two Pushes, or where the next
\* Push is expected there is something else.
Done == pc = "wait" /\ pulls = <<>> /\ Returns /\ UNCHANGED breaks
Close ==
    /\ pc = "wait" /\ pulls # <<>> /\ ~shifted /\ Returns
    /\ breaks < MaxBreaks /\ breaks' = breaks + 1

\* The connection closes inside a Push.
CloseInside ==
    /\ pc = "wait" /\ pulls # <<>> /\ ~shifted /\ Ask.len > 0 /\ HasPiece(Ask)
    /\ breaks < MaxBreaks /\ breaks' = breaks + 1
    /\ Hung

\* A piece is announced that the server does not have, or not all of, or one
\* that comes after a piece of no bytes: sendfile returns 0 or -1, after which
\* the server closes, or the client takes what follows for the piece.
NotSent(i) ==
    \/ pulls[i].len > 0 /\ (~HasPiece(pulls[i]) \/ RunsOut(pulls[i]))
    \/ /\ pulls[i].len = 0 /\ i < Len(pulls) /\ Together(i + 1)
       /\ pulls[i + 1].len > 0

Starves ==
    /\ pc = "wait" /\ ~shifted
    /\ \E i \in DOMAIN pulls : Together(i) /\ NotSent(i)
    /\ Hung /\ UNCHANGED breaks

\* setFile comes first: the chunks of the file set before are saved, if its
\* .tmydownload file is still there.
Receive(b) ==
    /\ push' = [name |-> Ask.name, from |-> Ask.from, bytes |-> b]
    /\ pc' = IF file # NoName /\ Downloading(file) THEN "truncate" ELSE "load"
    /\ UNCHANGED <<worldVars, local, meta, mode, dir, at, flen, file, chunks>>

\* What of it is left after a piece.
Rest == [name |-> Ask.name, from |-> Ask.from + 1, len |-> Ask.len - 1,
         of |-> Ask.of, cut |-> Ask.cut]

\* The server reads the piece from the row's content.
PieceArrives ==
    /\ pc = "wait" /\ pulls # <<>> /\ ~shifted
    /\ Ask.len > 0 /\ HasPiece(Ask)
    /\ pulls' = IF Ask.len = 1 THEN Tail(pulls)
                ELSE [pulls EXCEPT ![1] = Rest]
    /\ Receive(<<rows[Ask.name].bytes[Ask.from]>>)
    /\ UNCHANGED shifted

\* The last piece of the content that was offered is the beginning of a piece
\* of the row's.
PieceIsCut ==
    /\ pc = "wait" /\ pulls # <<>> /\ ~shifted
    /\ Ask.len = 1 /\ OfAnother(Ask)
    /\ pulls' = Tail(pulls)
    /\ Receive(<<Mixed>>)
    /\ UNCHANGED shifted

\* The row's content ends before the piece does, and the client reads on: in
\* what comes after it in the Push, all of which is shifted, and in the next
\* message, so that it does not find that one.
PieceRunsOver ==
    /\ pc = "wait" /\ pulls # <<>> /\ ~shifted
    /\ Ask.len > 0 /\ RunsOut(Ask)
    /\ \E k \in 1..Len(pulls) :
        /\ Together(k)
        /\ \A j \in 2..k : pulls[j].len = 1 /\ HasPiece(pulls[j])
        /\ pulls' = SubSeq(pulls, 2, k)
    /\ Receive(<<Mixed>>)
    /\ shifted' = TRUE

ShiftedPiece ==
    /\ pc = "wait" /\ pulls # <<>> /\ shifted
    /\ pulls' = Tail(pulls)
    /\ Receive(<<Mixed>>)
    /\ UNCHANGED shifted

\* sendfile of no bytes returns 0, after which the server closes; the client
\* has the entry if it is the last of its Push.
EmptyPieceArrives ==
    /\ pc = "wait" /\ pulls # <<>> /\ ~shifted /\ Ask.len = 0
    /\ pulls' = <<>>
    /\ Receive(<<>>)
    /\ UNCHANGED shifted

\* new char[len] throws and nobody catches it; no piece of the Push is written.
NegativePieceArrives ==
    /\ pc = "wait" /\ ~shifted
    /\ \E i \in DOMAIN pulls :
        /\ Together(i) /\ pulls[i].len < 0
        /\ \A j \in 1..i - 1 : pulls[j].len = 0 \/ HasPiece(pulls[j])
    /\ ThreadEnds
    /\ UNCHANGED <<worldVars, local, meta>>

InPush(l) ==
    /\ pc' = l
    /\ UNCHANGED <<worldVars, mode, dir, at, flen, pulls, push, shifted>>

\* ofstream truncates the .tmydownload file when it is opened; a file that
\* cannot be parsed counts as one without chunks.
TruncateMeta ==
    /\ pc = "truncate"
    /\ meta' = [meta EXCEPT ![file] = 0]
    /\ InPush("load") /\ UNCHANGED <<local, file, chunks>>

\* A slip: the chunks of the file set before are kept.
SaveOnly ==
    /\ pc = "load"
    /\ meta' = IF file # NoName /\ Downloading(file)
               THEN [meta EXCEPT ![file] = chunks] ELSE meta
    /\ file' = push.name
    /\ InPush("write") /\ UNCHANGED <<local, chunks>>

\* A slip: the chunks are saved with the piece that is to be written.
SaveAndLoadAhead ==
    /\ pc = "load"
    /\ meta' = IF file # NoName /\ Downloading(file)
               THEN [meta EXCEPT ![file] = IF file = push.name THEN push.from ELSE chunks]
               ELSE meta
    /\ file' = push.name
    /\ chunks' = IF meta'[push.name] # NoMeta THEN meta'[push.name] ELSE chunks
    /\ InPush("write") /\ UNCHANGED local

\* The rest of setFile: the chunks are written and those of the new file read;
\* without a .tmydownload file the old ones stay.
SaveAndLoad ==
    /\ pc = "load"
    /\ meta' = IF file # NoName /\ Downloading(file)
               THEN [meta EXCEPT ![file] = chunks] ELSE meta
    /\ file' = push.name
    /\ chunks' = IF meta'[push.name] # NoMeta THEN meta'[push.name] ELSE chunks
    /\ InPush("write") /\ UNCHANGED local

\* writePush: open for reading and writing, seek, write.
Written(n) ==
    LET old == IF Exists(n) THEN local[n].bytes ELSE <<>>
    IN  IF push.bytes = <<>> THEN old
        ELSE IF push.from <= Len(old) THEN [old EXCEPT ![push.from] = push.bytes[1]]
        ELSE Append(old, push.bytes[1])

WritePush ==
    /\ pc = "write"
    /\ local' = [local EXCEPT ![push.name] =
                    [bytes |-> Written(push.name), modtime |-> clock + 1]]
    /\ InPush("insert") /\ UNCHANGED <<meta, file, chunks>>

\* The chunk is inserted and merged; the .tmydownload file of a file whose
\* first chunk has the full length is removed.  (chunksWriteCnt, after which
\* the chunks are saved here, goes back to 0 whenever setFile reads a
\* .tmydownload file: before every piece of a file under download.)
Inserted ==
    IF push.bytes # <<>> /\ push.from = chunks + 1 THEN chunks + 1 ELSE chunks

\* A slip: one piece is left.
FullAlmost(k) == k + 1 >= flen[push.name]

\* A slip: the file is never full.
FullNever(k) == k > flen[push.name]

Full(k) == k = flen[push.name]

InsertChunk ==
    /\ pc = "insert"
    /\ chunks' = Inserted
    /\ meta' = IF Full(Inserted) THEN [meta EXCEPT ![push.name] = NoMeta] ELSE meta
    /\ InPush("wait") /\ UNCHANGED <<local, file>>

NextSync ==
    /\ pc = "sleep"
    /\ pc' = "dial"
    /\ UNCHANGED <<worldVars, local, meta, mode, dir, at, flen, pulls, file, chunks,
                   push, shifted>>

-----------------------------------------------------------------------------
\* What the thread does by itself, and with a server that answers.
ThreadStep ==
    \/ ReadDirInfo \/ SkipEntry \/ KeepLocal \/ TakeOnline \/ RenameLocal
    \/ RemoveLocal \/ CreateMeta \/ SendPull \/ Done \/ Starves
    \/ NegativePieceArrives
    \/ TruncateMeta \/ SaveAndLoad \/ WritePush \/ InsertChunk \/ NextSync

Arrives ==
    \/ PieceArrives \/ PieceIsCut \/ PieceRunsOver \/ ShiftedPiece
    \/ EmptyPieceArrives

DownloadNext ==
    \/ ThreadStep \/ Arrives \/ Close \/ CloseInside \/ Stop \/ StopHung
    \/ \E m \in {1, 3} : Start(m)
    \/ \E n \in Announced, m \in Contents, t \in 1..MaxClock, r \in BOOLEAN :
           RowChanges(n, m, t, r)
    \/ \E n \in Announced, m \in Contents : UserEdits(n, m)

DownloadSpec == DownloadInit /\ [][DownloadNext]_downloadVars

\* A program that hangs is closed, and one that is started again and again is
\* some time started with the folder it has (the user's part); its thread runs,
\* and the server answers unless the connection is lost, which it is MaxBreaks
\* times at most.
\* (A session that ends after one piece of a file saves nothing, and the next
\* one begins with the same piece: without a bound nothing need ever finish.)
FairDownloadSpec ==
    /\ DownloadSpec
    /\ SF_downloadVars(Start(3))
    /\ WF_downloadVars(StopHung)
    /\ WF_downloadVars(ThreadStep)
    /\ WF_downloadVars(Arrives)

-----------------------------------------------------------------------------
(* Properties *)

\* The names nothing is renamed to: a file that is itself named ".old" is
\* overwritten, or its .tmydownload file outlives it.
Plain == Announced \ {Old[n] : n \in Announced}

\* The pieces a .tmydownload file counts, which no Pull asks for again, are in
\* the local file, wherever the program was stopped.
SavedChunksOnDisk ==
    \A n \in Plain : Downloading(n) /\ meta[n] > 0 =>
        Exists(n) /\ meta[n] <= Len(local[n].bytes)

\* Pieces follow the chunks: the list is one chunk from the start of the file,
\* for which the single pass of updateChunks is enough.
PiecesInOrder == pc = "insert" => push.from <= chunks + 1

\* A file without a .tmydownload file has been received to its end (design,
\* page 8): it is a version somebody made, also if the row was replaced after
\* the DirInfo, or between the session that began it and one that goes on.
FinishedIsWhole ==
    \A n \in Plain : Exists(n) /\ ~Downloading(n) => local[n].bytes \in Versions

\* A download that ends leaves what the server offers under that name, if the
\* row did not change under it.
FinishedIsOffered ==
    [][steady => \A n \in Plain : Downloading(n) /\ ~Downloading(n)' =>
            local'[n].bytes = rows[n].bytes]_downloadVars

\* No Pull asks for nothing or less, which ends the session of every file that
\* comes after it, or the program, if no row changed under a download.
PullsArePositive == steady => \A i \in DOMAIN pulls : pulls[i].len > 0

\* A version the user has is not lost when a folder is bound, as long as the
\* name to move it to is free.
InitialKeepsLocal ==
    [][mode = 1 => \A n \in Plain :
          Exists(n) /\ ~Downloading(n) /\ ~Exists(Old[n]) /\ ~Downloading(Old[n])
              /\ edits' = edits =>
            \E x \in Names : local'[x] = local[n]]_downloadVars

\* What is being downloaded and still offered gets finished, across the
\* lost connections and stops of the program.
DownloadsFinish ==
    []steady => \A n \in Announced :
        Downloading(n) /\ rows[n] # NoFile ~> ~Downloading(n)

=============================================================================
