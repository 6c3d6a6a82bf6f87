--------------------------- MODULE ReceiverProofs ---------------------------
(***************************************************************************)
(* Spec => []TypeInv and Spec => []IInv, and with them the safety          *)
(* properties of Receiver, for any number of processes, users, clients,    *)
(* names and contents, any bounds on sessions and kills, and whatever      *)
(* clients push.                                                           *)
(*                                                                         *)
(* Types first: the types of Receiver, the shape of its work lists and the *)
(* bounds on chunks.  TypeOK is not inductive alone: the type of a cached  *)
(* row needs the name to be in the Pull, and the type of chunks needs the  *)
(* bound by the row's length.                                              *)
(*                                                                         *)
(* Then the contents: pieces are only ever added to a store file once it   *)
(* is there (Grows), and inodes only ever added (Remains).  Under these    *)
(* two every conjunct survives a step that does not touch what it is       *)
(* about, which the first lemmas state; the lemmas on actions treat the    *)
(* others.                                                                 *)
(*                                                                         *)
(* Last Spec => ImplementsCatalog: the receiver() processes, however many  *)
(* and however interleaved, implement the catalog.  Every step either      *)
(* leaves the catalog alone or is one of its actions; that a content       *)
(* offered or recorded is published by then is what the inductive          *)
(* invariant is for.                                                       *)
(***************************************************************************)
EXTENDS ReceiverCatalog, TLAPS

MaybeRow == Row \cup {NoRow}
Tables == [Users -> [Names -> MaybeRow]]

\* The fields of the rows the statements of database.hpp write.
LEMMA RowFacts ==
    /\ \A e \in Entry, done \in BOOLEAN :
          /\ NewRow(e, done) \in Row
          /\ NewRow(e, done).md5 = e.md5
          /\ NewRow(e, done).complete = done
          /\ NewRow(e, done).chunks = 0
    /\ \A r \in Row, k \in 0..MaxSize :
          /\ WithChunks(r, k) \in Row
          /\ WithChunks(r, k).md5 = r.md5
          /\ WithChunks(r, k).complete = r.complete
          /\ WithChunks(r, k).modtime = r.modtime
          /\ WithChunks(r, k).chunks = k
    /\ \A r \in Row :
          /\ Completed(r) \in Row
          /\ Completed(r).md5 = r.md5
          /\ Completed(r).complete = TRUE
          /\ Completed(r).modtime = r.modtime
          /\ Completed(r).chunks = 0
  <1>1. ASSUME NEW e \in Entry, NEW done \in BOOLEAN
        PROVE  /\ NewRow(e, done) \in Row
               /\ NewRow(e, done).md5 = e.md5
               /\ NewRow(e, done).complete = done
               /\ NewRow(e, done).chunks = 0
    BY SizeAssumption DEF NewRow, Entry, Row
  <1>2. ASSUME NEW r \in Row, NEW k \in 0..MaxSize
        PROVE  /\ WithChunks(r, k) \in Row
               /\ WithChunks(r, k).md5 = r.md5
               /\ WithChunks(r, k).complete = r.complete
               /\ WithChunks(r, k).modtime = r.modtime
               /\ WithChunks(r, k).chunks = k
    BY DEF WithChunks, Row
  <1>3. ASSUME NEW r \in Row
        PROVE  /\ Completed(r) \in Row
               /\ Completed(r).md5 = r.md5
               /\ Completed(r).complete = TRUE
               /\ Completed(r).modtime = r.modtime
               /\ Completed(r).chunks = 0
    <2>1. /\ WithChunks(r, 0) \in Row
          /\ WithChunks(r, 0).md5 = r.md5
          /\ WithChunks(r, 0).modtime = r.modtime
          /\ WithChunks(r, 0).chunks = 0
      BY <1>2, SizeAssumption
    <2> QED
      BY <2>1 DEF Completed, Row
  <1> QED
    BY <1>1, <1>2, <1>3

\* The head and the tail of a list that is not empty.
LEMMA ListFacts ==
    ASSUME NEW S, NEW s \in Seq(S), s # <<>>
    PROVE  /\ Head(s) \in S
           /\ Tail(s) \in Seq(S)
           /\ Head(s) = s[1] /\ 1 \in DOMAIN s
           /\ \A i \in DOMAIN Tail(s) : i + 1 \in DOMAIN s /\ Tail(s)[i] = s[i + 1]
  OBVIOUS

\* addFile: a row stays as it is, or is the new one.
LEMMA addFileRows ==
    ASSUME files \in Tables, NEW u \in Users, NEW e \in Entry,
           NEW done \in BOOLEAN, addFile(u, e, done)
    PROVE  /\ files' \in Tables
           /\ \A v \in Users, n \in Names :
                 files'[v][n] = files[v][n] \/ files'[v][n] = NewRow(e, done)
  <1>1. e.name \in Names
    BY NameAssumption DEF Entry
  <1>2. NewRow(e, done) \in Row
    BY RowFacts
  <1> QED
    BY <1>1, <1>2 DEF addFile, Tables, MaybeRow

\* fileRename: a row moves to another name, within a user, or is gone.
LEMMA fileRenameRows ==
    ASSUME files \in Tables, NEW u \in Users, NEW n \in Names, NEW new \in Names,
           fileRename(u, n, new)
    PROVE  /\ files' \in Tables
           /\ \A v \in Users, x \in Names :
                 files'[v][x] = NoRow \/ \E y \in Names : files'[v][x] = files[v][y]
  BY DEF fileRename, Tables, MaybeRow

\* removeFile: a row stays as it is or is gone.
LEMMA removeFileRows ==
    ASSUME files \in Tables, NEW n \in Names, removeFile(n)
    PROVE  /\ files' \in Tables
           /\ \A v \in Users, x \in Names :
                 files'[v][x] = NoRow \/ files'[v][x] = files[v][x]
  BY DEF removeFile, Tables, MaybeRow

\* completeFile: a row stays as it is, or has the md5 and is completed.
LEMMA completeFileRows ==
    ASSUME files \in Tables, NEW m \in Contents, completeFile(m)
    PROVE  /\ files' \in Tables
           /\ \A v \in Users, x \in Names :
                 \/ files'[v][x] = files[v][x]
                 \/ /\ files[v][x] \in Row /\ files[v][x].md5 = m
                    /\ files'[v][x] = Completed(files[v][x])
  BY RowFacts DEF completeFile, Tables, MaybeRow

\* updateChunks: a row stays as it is, or has the md5 and takes the chunks.
LEMMA updateChunksRows ==
    ASSUME files \in Tables, NEW u \in Users, NEW m \in Contents,
           NEW k \in 0..MaxSize, updateChunks(u, m, k)
    PROVE  /\ files' \in Tables
           /\ \A v \in Users, x \in Names :
                 \/ files'[v][x] = files[v][x]
                 \/ /\ files[v][x] \in Row /\ files[v][x].md5 = m
                    /\ files'[v][x] = WithChunks(files[v][x], k)
  BY RowFacts DEF updateChunks, Tables, MaybeRow

-----------------------------------------------------------------------------
USE DEF At, Goto

\* While names are left to be pushed, the first one has a cached row, which
\* lacks a piece.
LEMMA CachedFacts ==
    ASSUME TypeInv, NEW p \in Procs, pull[p] # <<>>
    PROVE  /\ NextName(p) \in Names
           /\ Cached(p) \in Row
           /\ Cached(p).md5 \in Contents
           /\ Cached(p).chunks < Size[Cached(p).md5]
           /\ NextPiece(p) \in 1..MaxSize
           /\ folder[p][NextName(p)] \in Entry
           /\ User(p) \in Users
  <1>1. NextName(p) \in Names /\ User(p) \in Users
    BY ListFacts, UidAssumption DEF TypeInv, TypeOK, NextName, User
  <1>2. Cached(p) # NoRow /\ folder[p][NextName(p)] # NoRow
    BY ListFacts DEF TypeInv, TypeOK, WorkLists, NextName, Cached
  <1>3. Cached(p) \in Row /\ folder[p][NextName(p)] \in Entry
    BY <1>1, <1>2 DEF TypeInv, TypeOK, Cached
  <1>4. Cached(p).chunks < Size[Cached(p).md5]
    BY <1>1, <1>2 DEF TypeInv, ChunkBounds, Cached
  <1>5. Cached(p).md5 \in Contents /\ Cached(p).chunks \in 0..MaxSize
    BY <1>3 DEF Row
  <1>6. NextPiece(p) \in 1..MaxSize
    BY <1>4, <1>5, SizeAssumption DEF NextPiece
  <1> QED
    BY <1>1, <1>3, <1>4, <1>5, <1>6

\* What a client pushes is a piece of some content, or no announced content.
LEMMA PushedPieces ==
    ASSUME TypeInv, NEW p \in Procs, pull[p] # <<>>
    PROVE  PushedBytes(p) \subseteq Piece
  BY CachedFacts, SizeAssumption DEF PushedBytes, AnnouncedByte, Piece, Entry

\* The rows may change as long as each lacks a piece; the rest of the bounds
\* is about a process's own memory.
LEMMA OtherBounds ==
    ASSUME TypeInv, fmap' = fmap, pull' = pull,
           \A q \in Procs : pc'[q] = "chunks" => pc[q] = "chunks",
           \A u \in Users, n \in Names : HasRow(u, n)' =>
               files'[u][n].chunks < Size[files'[u][n].md5]
    PROVE  ChunkBounds'
  BY DEF TypeInv, ChunkBounds, HasRow, Full, Cached,
           NextPiece, NextName

\* The lists and the bounds where files and the lists do not change.
LEMMA SameBounds ==
    ASSUME TypeInv, files' = files, fmap' = fmap, pull' = pull,
           \A q \in Procs : pc'[q] = "chunks" => pc[q] = "chunks"
    PROVE  ChunkBounds'
  BY DEF TypeInv, ChunkBounds, HasRow, Full, Cached,
           NextPiece, NextName

\* Init establishes the invariant.
LEMMA InitType == Init => TypeInv
  <1> SUFFICES ASSUME Init PROVE TypeInv
    OBVIOUS
  <1>1. DBTypeOK
    BY SizeAssumption DEF Init, DBInit, DBTypeOK, Bytes
  <1>2. AnyClient \in Clients
    BY ClientsAssumption DEF AnyClient
  <1>3. TypeOK
    BY <1>1, <1>2 DEF Init, TypeOK, Labels, NoFiles
  <1>4. WorkLists
    BY DEF Init, WorkLists, AllAnnounced
  <1>5. ChunkBounds
    BY DEF Init, DBInit, ChunkBounds, HasRow, NoFiles
  <1> QED
    BY <1>3, <1>4, <1>5 DEF TypeInv

\* A process that goes forgets its memory.
LEMMA GoneType ==
    ASSUME TypeInv, NEW p \in Procs, Gone(p),
           UNCHANGED <<files, inode, journal, commitid, store>>,
           syncing' \in [Users -> BOOLEAN], sessions' \in Nat, kills' \in Nat
    PROVE  TypeInv'
  <1>1. AnyClient \in Clients
    BY ClientsAssumption DEF AnyClient
  <1>2. TypeOK'
    BY <1>1 DEF TypeInv, TypeOK, DBTypeOK, Gone, Labels, NoFiles
  <1>3. WorkLists'
    BY DEF TypeInv, TypeOK, WorkLists, AllAnnounced, Gone
  <1>4. ChunkBounds'
    BY DEF TypeInv, TypeOK, ChunkBounds, Gone, NoFiles, HasRow, Full, Cached,
           NextPiece, NextName
  <1> QED
    BY <1>2, <1>3, <1>4 DEF TypeInv

\* OnExit: onexit lowers the flag, and the process is gone.
LEMMA OnExitType ==
    ASSUME TypeInv, NEW p \in Procs, OnExit(p)
    PROVE  TypeInv'
  <1>1. syncing' \in [Users -> BOOLEAN]
    BY DEF TypeInv, TypeOK, DBTypeOK, OnExit, setUserOnReceiving
  <1> QED
    BY <1>1, GoneType DEF OnExit, TypeInv, TypeOK

\* Kill: the process is gone and nothing else changes.
LEMMA KillType ==
    ASSUME TypeInv, NEW p \in Procs, Kill(p)
    PROVE  TypeInv'
  BY GoneType, SMTT(30) DEF Kill, TypeInv, TypeOK, DBTypeOK, dbVars

\* RowVanished: an uncaught exception ends the process.
LEMMA RowVanishedType ==
    ASSUME TypeInv, NEW p \in Procs, RowVanished(p)
    PROVE  TypeInv'
  BY GoneType DEF RowVanished, Abort, TypeInv, TypeOK, DBTypeOK, dbVars

\* Start: a session begins with empty lists.
LEMMA StartType ==
    ASSUME TypeInv, NEW p \in Procs, NEW c \in Clients, NEW m \in {0, 1},
           Start(p, c, m)
    PROVE  TypeInv'
  <1>1. TypeOK'
    <2>1. syncing' \in [Users -> BOOLEAN]
      BY DEF TypeInv, TypeOK, DBTypeOK, Start, setUserOnReceiving
    <2>2. sessions' \in Nat
      BY DEF TypeInv, TypeOK, Start
    <2> QED
      BY <2>1, <2>2 DEF TypeInv, TypeOK, DBTypeOK, Start, Labels
  <1>2. WorkLists'
    BY DEF TypeInv, TypeOK, WorkLists, AllAnnounced, Start
  <1>3. ChunkBounds'
    BY SameBounds DEF TypeInv, TypeOK, Start
  <1> QED
    BY <1>1, <1>2, <1>3 DEF TypeInv

\* The steps that lower the flag.
LEMMA LowerFlagType ==
    ASSUME TypeInv, NEW p \in Procs,
           BadDirInfo(p) \/ SendEmptyPull(p) \/ ReadFails(p)
    PROVE  TypeInv'
  <1>1. LowerFlag(p)
    BY DEF BadDirInfo, SendEmptyPull, ReadFails
  <1>2. TypeOK'
    BY <1>1
    DEF TypeInv, TypeOK, DBTypeOK, LowerFlag, setUserOnReceiving, Labels
  <1>3. WorkLists'
    BY <1>1 DEF TypeInv, TypeOK, WorkLists, AllAnnounced, LowerFlag
  <1>4. ChunkBounds'
    BY <1>1, SameBounds DEF TypeInv, TypeOK, LowerFlag
  <1> QED
    BY <1>2, <1>3, <1>4 DEF TypeInv

\* The steps that only read the database and go to the next statement.
LEMMA ControlType ==
    ASSUME TypeInv, NEW p \in Procs,
           \/ FoundRow(p) \/ CheckInode(p) \/ CheckRow(p) \/ CompareRow(p)
           \/ SendPull(p) \/ HangUp(p) \/ CloseInsidePiece(p)
    PROVE  TypeInv'
  <1>1. /\ \E l \in {"get", "inc", "row", "cmp", "add", "rem", "gap", "push",
                     "exit", "spin"} :
              /\ pc' = [pc EXCEPT ![p] = l]
              /\ l = "get" => todo[p] # <<>>
              /\ l \in {"inc", "row", "cmp", "add", "rem", "gap"} =>
                     topull[p] # <<>>
        /\ UNCHANGED <<dbVars, cid, mode, folder, todo, topull, pull, fmap,
                       sessions, kills>>
    BY DEF TypeInv, WorkLists, FoundRow, CheckInode, Ready2, CheckRow,
           CompareRow, SendPull, HangUp, CloseInsidePiece
  <1>2. TypeOK'
    BY <1>1 DEF TypeInv, TypeOK, DBTypeOK, Labels, dbVars
  <1>3. WorkLists'
    BY <1>1 DEF TypeInv, TypeOK, WorkLists, AllAnnounced
  <1>4. ChunkBounds'
    BY <1>1, SameBounds DEF TypeInv, TypeOK, dbVars
  <1> QED
    BY <1>2, <1>3, <1>4 DEF TypeInv

\* ReadDirInfo: every entry to look at is in folder.
LEMMA ReadDirInfoType ==
    ASSUME TypeInv, NEW p \in Procs, NEW d \in DirInfos, ReadDirInfo(p, d)
    PROVE  TypeInv'
  <1>1. d \in Seq(Entry)
    BY BoundAssumption DEF DirInfos
  <1>2. TypeOK'
    BY <1>1 DEF TypeInv, TypeOK, DBTypeOK, ReadDirInfo, Labels, dbVars
  <1>3. WorkLists'
    <2>1. \A i \in DOMAIN d : folder'[p][d[i].name] # NoRow
      <3> TAKE i \in DOMAIN d
      <3> DEFINE j == CHOOSE k \in DOMAIN d : d[k].name = d[i].name
      <3>1. j \in DOMAIN d
        OBVIOUS
      <3>2. d[i].name \in Names /\ d[j] \in Entry
        <4>1. d[i] \in Entry /\ d[j] \in Entry
          BY <1>1, <3>1
        <4> QED
          BY <4>1, NameAssumption DEF Entry
      <3>3. folder'[p][d[i].name] = d[j]
        BY <3>2 DEF ReadDirInfo, TypeInv, TypeOK
      <3> QED
        BY <3>2, <3>3, NoEntryAssumption
    <2> QED
      <3>1. AllAnnounced(p, d)'
        BY <2>1 DEF AllAnnounced
      <3>2. topull'[p] = <<>> /\ pull'[p] = <<>>
        BY DEF TypeInv, WorkLists, ReadDirInfo
      <3> QED
        <4>1. /\ topull' = topull /\ pull' = pull /\ fmap' = fmap
              /\ todo'[p] = d /\ pc'[p] = "chk"
              /\ \A q \in Procs \ {p} :
                    pc'[q] = pc[q] /\ todo'[q] = todo[q] /\ folder'[q] = folder[q]
          BY DEF TypeInv, TypeOK, ReadDirInfo
        <4> QED
          BY <3>1, <3>2, <4>1 DEF TypeInv, WorkLists, AllAnnounced
  <1>4. ChunkBounds'
    BY SameBounds DEF TypeInv, TypeOK, ReadDirInfo, dbVars
  <1> QED BY <1>2, <1>3, <1>4 DEF TypeInv

\* ChooseNew: an entry moves from the list of pass 1 to that of pass 2.
LEMMA ChooseNewType ==
    ASSUME TypeInv, NEW p \in Procs, ChooseNew(p)
    PROVE  TypeInv'
  <1>1. /\ todo[p] \in Seq(Entry) /\ todo[p] # <<>>
        /\ Head(todo[p]) \in Entry /\ Tail(todo[p]) \in Seq(Entry)
    BY ListFacts DEF TypeInv, TypeOK, ChooseNew
  <1>2. TypeOK'
    BY <1>1 DEF TypeInv, TypeOK, DBTypeOK, ChooseNew, dbVars
  <1>3. WorkLists'
    <2>1. AllAnnounced(p, Tail(todo[p]))
      BY <1>1, ListFacts DEF TypeInv, WorkLists, AllAnnounced
    <2>2. AllAnnounced(p, Append(topull[p], Head(todo[p])))
      BY <1>1, ListFacts DEF TypeInv, TypeOK, WorkLists, AllAnnounced
    <2> QED
      BY <1>1, <2>1, <2>2
      DEF TypeInv, TypeOK, WorkLists, AllAnnounced, ChooseNew
  <1>4. ChunkBounds'
    BY SameBounds DEF ChooseNew, dbVars
  <1> QED
    BY <1>2, <1>3, <1>4 DEF TypeInv

\* Compare: the entry stays at the head of the list when a rename follows.
LEMMA CompareType ==
    ASSUME TypeInv, NEW p \in Procs, Compare(p)
    PROVE  TypeInv'
  <1>1. todo[p] \in Seq(Entry) /\ todo[p] # <<>> /\ Head(todo[p]) \in Entry
    BY DEF TypeInv, TypeOK, WorkLists, Compare
  <1>2. TypeOK'
    BY <1>1 DEF TypeInv, TypeOK, DBTypeOK, Compare, Labels, dbVars
  <1>3. WorkLists'
    <2>1. AllAnnounced(p, Tail(todo[p]))
      BY <1>1, ListFacts DEF TypeInv, WorkLists, AllAnnounced
    <2>2. AllAnnounced(p, Append(topull[p], Head(todo[p])))
      BY <1>1, ListFacts DEF TypeInv, TypeOK, WorkLists, AllAnnounced
    <2> QED
      BY <1>1, <2>1, <2>2, SMTT(30)
      DEF TypeInv, TypeOK, WorkLists, AllAnnounced, Compare, Labels
  <1>4. ChunkBounds'
    BY SameBounds DEF TypeInv, TypeOK, Compare, dbVars
  <1> QED BY <1>2, <1>3, <1>4 DEF TypeInv

\* Rename: the row that moves keeps its fields.
LEMMA RenameType ==
    ASSUME TypeInv, NEW p \in Procs, Rename(p)
    PROVE  TypeInv'
  <1>1. /\ User(p) \in Users
        /\ todo[p] \in Seq(Entry) /\ todo[p] # <<>> /\ Tail(todo[p]) \in Seq(Entry)
        /\ Head(todo[p]).name \in Names /\ Old[Head(todo[p]).name] \in Names
    <2>1. todo[p] \in Seq(Entry) /\ todo[p] # <<>>
      BY DEF TypeInv, TypeOK, WorkLists, Rename
    <2>2. Head(todo[p]) \in Entry /\ Tail(todo[p]) \in Seq(Entry)
      BY <2>1, ListFacts
    <2>3. Head(todo[p]).name \in Announced
      BY <2>2 DEF Entry
    <2> QED
      BY <2>1, <2>2, <2>3, UidAssumption, NameAssumption
      DEF TypeInv, TypeOK, User
  <1>2. /\ files \in Tables /\ files' \in Tables
        /\ \A v \in Users, x \in Names :
              files'[v][x] = NoRow \/ \E y \in Names : files'[v][x] = files[v][y]
    BY <1>1, fileRenameRows
    DEF TypeInv, TypeOK, DBTypeOK, Tables, MaybeRow, Rename
  <1>3. TypeOK'
    BY <1>1, <1>2
    DEF TypeInv, TypeOK, DBTypeOK, Rename, Labels, Tables, MaybeRow
  <1>4. WorkLists'
    BY <1>1, ListFacts
    DEF TypeInv, TypeOK, WorkLists, AllAnnounced, Rename, Labels
  <1>5. ChunkBounds'
    <2>1. \A u \in Users, n \in Names : HasRow(u, n)' =>
              files'[u][n].chunks < Size[files'[u][n].md5]
      BY <1>2 DEF TypeInv, ChunkBounds, HasRow
    <2> QED
      BY <2>1, OtherBounds DEF TypeInv, TypeOK, Rename
  <1> QED BY <1>3, <1>4, <1>5 DEF TypeInv

\* IncRef: the refcount stays a natural number.
LEMMA IncRefType ==
    ASSUME TypeInv, NEW p \in Procs, IncRef(p)
    PROVE  TypeInv'
  <1>1. inode' \in [Contents -> Nat]
    <2>1. Head(topull[p]).md5 \in Contents
      <3>1. Head(topull[p]) \in Entry
        BY ListFacts DEF TypeInv, TypeOK, WorkLists, IncRef
      <3> QED
        BY <3>1 DEF Entry
    <2> QED
      BY <2>1 DEF TypeInv, TypeOK, DBTypeOK, IncRef, incRefCount
  <1>2. TypeOK'
    BY <1>1 DEF TypeInv, TypeOK, DBTypeOK, IncRef, Labels
  <1>3. WorkLists'
    BY DEF TypeInv, TypeOK, WorkLists, AllAnnounced, IncRef, Labels
  <1>4. ChunkBounds'
    BY SameBounds DEF TypeInv, TypeOK, IncRef
  <1> QED BY <1>2, <1>3, <1>4 DEF TypeInv

\* AddComplete and AddPartial.
LEMMA AddFileType ==
    ASSUME TypeInv, NEW p \in Procs, NEW done \in BOOLEAN,
           addFile(User(p), Head(topull[p]), done), topull[p] # <<>>,
           NEW l \in {"log", "gap"}, Goto(p, l),
           UNCHANGED <<inode, journal, syncing, commitid, store, cid, mode,
                       folder, todo, topull, pull, fmap, sessions, kills>>
    PROVE  TypeInv'
  <1> DEFINE e == Head(topull[p])
  <1>1. User(p) \in Users /\ e \in Entry /\ e.md5 \in Contents
    <2>1. User(p) \in Users /\ e \in Entry
      BY UidAssumption, ListFacts DEF TypeInv, TypeOK, User
    <2> QED
      BY <2>1 DEF Entry
  <1>2. /\ files' \in Tables
        /\ \A v \in Users, n \in Names :
              files'[v][n] = files[v][n] \/ files'[v][n] = NewRow(e, done)
    BY <1>1, addFileRows DEF TypeInv, TypeOK, DBTypeOK, Tables, MaybeRow
  <1>3. TypeOK'
    BY <1>2 DEF TypeInv, TypeOK, DBTypeOK, Labels, Tables, MaybeRow
  <1>4. WorkLists'
    BY DEF TypeInv, TypeOK, WorkLists, AllAnnounced
  <1>5. ChunkBounds'
    <2>1. Size[e.md5] > 0
      BY <1>1, SizeAssumption
    <2>2. NewRow(e, done).chunks < Size[NewRow(e, done).md5]
      BY <1>1, <2>1, RowFacts
    <2>3. \A u \in Users, n \in Names : HasRow(u, n)' =>
              files'[u][n].chunks < Size[files'[u][n].md5]
      BY <1>2, <2>2 DEF TypeInv, ChunkBounds, HasRow
    <2> QED
      BY <2>3, OtherBounds DEF TypeInv, TypeOK
  <1> QED
    BY <1>3, <1>4, <1>5 DEF TypeInv

\* CommitKnown: the commit is typed, and pass 2 goes to the next entry.
LEMMA CommitKnownType ==
    ASSUME TypeInv, NEW p \in Procs, CommitKnown(p)
    PROVE  TypeInv'
  <1>1. /\ User(p) \in Users
        /\ topull[p] \in Seq(Entry) /\ topull[p] # <<>> /\ Head(topull[p]) \in Entry
        /\ Tail(topull[p]) \in Seq(Entry)
    BY UidAssumption, ListFacts
    DEF TypeInv, TypeOK, WorkLists, CommitKnown, User
  <1>2. journal' \in Seq(Commit)
    BY <1>1, NameAssumption
    DEF TypeInv, TypeOK, DBTypeOK, CommitKnown, journalCommit, Commit, Entry
  <1>3. TypeOK'
    BY <1>1, <1>2 DEF TypeInv, TypeOK, DBTypeOK, CommitKnown, NextFile, Labels
  <1>4. WorkLists'
    BY <1>1, ListFacts
    DEF TypeInv, TypeOK, WorkLists, AllAnnounced, CommitKnown, NextFile, Labels
  <1>5. ChunkBounds'
    BY SameBounds DEF TypeInv, TypeOK, CommitKnown
  <1> QED BY <1>3, <1>4, <1>5 DEF TypeInv

\* RemoveRow: the rows that are left lack a piece as before.
LEMMA RemoveRowType ==
    ASSUME TypeInv, NEW p \in Procs, RemoveRow(p)
    PROVE  TypeInv'
  <1>1. Head(topull[p]).name \in Names
    <2>1. Head(topull[p]) \in Entry
      BY ListFacts DEF TypeInv, TypeOK, WorkLists, RemoveRow
    <2> QED
      BY <2>1, NameAssumption DEF Entry
  <1>2. /\ files' \in Tables
        /\ \A v \in Users, x \in Names :
              files'[v][x] = NoRow \/ files'[v][x] = files[v][x]
    BY <1>1, removeFileRows
    DEF TypeInv, TypeOK, DBTypeOK, Tables, MaybeRow, RemoveRow
  <1>3. TypeOK'
    BY <1>2 DEF TypeInv, TypeOK, DBTypeOK, RemoveRow, Labels, Tables, MaybeRow
  <1>4. WorkLists'
    BY DEF TypeInv, TypeOK, WorkLists, AllAnnounced, RemoveRow
  <1>5. ChunkBounds'
    <2>1. \A u \in Users, n \in Names : HasRow(u, n)' =>
              files'[u][n].chunks < Size[files'[u][n].md5]
      BY <1>2 DEF TypeInv, ChunkBounds, HasRow
    <2> QED
      BY <2>1, OtherBounds DEF TypeInv, TypeOK, RemoveRow
  <1> QED
    BY <1>3, <1>4, <1>5 DEF TypeInv

\* PullGaps: the name that goes into pullreq has its row in fmap.
LEMMA PullGapsType ==
    ASSUME TypeInv, NEW p \in Procs, PullGaps(p)
    PROVE  TypeInv'
  <1> DEFINE n == Head(topull[p]).name
             row == files[User(p)][n]
  <1>1. /\ topull[p] \in Seq(Entry) /\ topull[p] # <<>>
        /\ Tail(topull[p]) \in Seq(Entry) /\ n \in Names
        /\ folder[p][n] # NoRow
    <2>1. topull[p] \in Seq(Entry) /\ topull[p] # <<>>
      BY DEF TypeInv, TypeOK, WorkLists, PullGaps
    <2>2. /\ Head(topull[p]) \in Entry /\ Tail(topull[p]) \in Seq(Entry)
          /\ Head(topull[p]) = topull[p][1] /\ 1 \in DOMAIN topull[p]
      BY <2>1, ListFacts
    <2>3. n \in Names
      BY <2>2, NameAssumption DEF Entry
    <2> QED
      BY <2>1, <2>2, <2>3 DEF TypeInv, WorkLists, AllAnnounced
  <1>2. row \in Row /\ row # NoRow /\ User(p) \in Users
    BY <1>1, UidAssumption, SMTT(30) DEF TypeInv, TypeOK, DBTypeOK, PullGaps, User
  <1>3. row.chunks < Size[row.md5]
    BY <1>1, <1>2 DEF TypeInv, ChunkBounds, HasRow
  <1>4. /\ fmap' = [fmap EXCEPT ![p][n] = row]
        /\ pull' = [pull EXCEPT ![p] = Append(@, n)]
        /\ topull' = [topull EXCEPT ![p] = Tail(@)]
        /\ pc' = [pc EXCEPT ![p] = "ino"]
        /\ UNCHANGED <<dbVars, cid, mode, folder, todo, sessions, kills>>
    BY <1>3 DEF PullGaps, NextFile
  <1>5. fmap' \in [Procs -> [Names -> Row \cup {NoRow}]]
    BY <1>1, <1>2, <1>4 DEF TypeInv, TypeOK
  <1>6. pull' \in [Procs -> Seq(Names)]
    BY <1>1, <1>4 DEF TypeInv, TypeOK
  <1>7. TypeOK'
    BY <1>1, <1>4, <1>5, <1>6 DEF TypeInv, TypeOK, DBTypeOK, dbVars, Labels
  <1>8. WorkLists'
    <2>1. AllAnnounced(p, Tail(topull[p]))
      BY <1>1, ListFacts DEF TypeInv, WorkLists, AllAnnounced
    <2>2. \A i \in DOMAIN pull'[p] :
              folder[p][pull'[p][i]] # NoRow /\ fmap'[p][pull'[p][i]] # NoRow
      BY <1>1, <1>2, <1>4 DEF TypeInv, TypeOK, WorkLists
    <2> QED
      BY <1>1, <1>4, <2>1, <2>2, SMTT(30) DEF TypeInv, TypeOK, WorkLists, AllAnnounced
  <1>9. ChunkBounds'
    BY <1>1, <1>2, <1>3, <1>4
    DEF TypeInv, TypeOK, ChunkBounds, dbVars, HasRow, Full, Cached,
           NextPiece, NextName
  <1> QED BY <1>7, <1>8, <1>9 DEF TypeInv

\* Preallocate: a new store file holds bytes of the model.
LEMMA PreallocateType ==
    ASSUME TypeInv, NEW p \in Procs, Preallocate(p)
    PROVE  TypeInv'
  <1>1. Cached(p).md5 \in Contents
    BY CachedFacts DEF Preallocate, Receiving
  <1>2. store' \in [Contents -> [1..MaxSize -> Bytes]]
    BY <1>1 DEF TypeInv, TypeOK, DBTypeOK, Preallocate, createStore, Bytes
  <1>3. TypeOK'
    BY <1>2 DEF TypeInv, TypeOK, DBTypeOK, Preallocate, procVars
  <1>4. WorkLists'
    BY DEF TypeInv, TypeOK, WorkLists, AllAnnounced, Preallocate, procVars
  <1>5. ChunkBounds'
    BY SameBounds DEF Preallocate, procVars
  <1> QED BY <1>3, <1>4, <1>5 DEF TypeInv

\* WritePiece: the chunks are recorded only when the file is not full yet.
LEMMA WritePieceType ==
    ASSUME TypeInv, NEW p \in Procs, WritePiece(p)
    PROVE  TypeInv'
  <1>1. pull[p] # <<>>
    BY DEF WritePiece, Receiving
  <1>2. PushedBytes(p) \subseteq Piece
    BY <1>1, PushedPieces
  <1>3. store' \in [Contents -> [1..MaxSize -> Bytes]]
    <2>1. PICK b \in PushedBytes(p) : writeStore(Cached(p).md5, NextPiece(p), b)
      BY DEF WritePiece
    <2>2. b \in Bytes
      BY <1>2 DEF Bytes
    <2> QED
      BY <2>1, <2>2 DEF TypeInv, TypeOK, DBTypeOK, writeStore
  <1>4. TypeOK'
    BY <1>3 DEF TypeInv, TypeOK, DBTypeOK, WritePiece, AfterPiece, Labels
  <1>5. WorkLists'
    BY <1>1
    DEF TypeInv, TypeOK, WorkLists, AllAnnounced, WritePiece, AfterPiece,
        Labels
  <1>6. ChunkBounds'
    BY DEF TypeInv, TypeOK, ChunkBounds, WritePiece, AfterPiece, HasRow, Full, Cached,
           NextPiece, NextName
  <1> QED BY <1>4, <1>5, <1>6 DEF TypeInv

\* RecordChunks: the rows that take the chunks still lack a piece.
LEMMA RecordChunksType ==
    ASSUME TypeInv, NEW p \in Procs, RecordChunks(p)
    PROVE  TypeInv'
  <1> DEFINE m == Cached(p).md5
             k == NextPiece(p)
  <1>1. pull[p] # <<>>
    BY DEF TypeInv, WorkLists, RecordChunks
  <1>2. k \in 0..MaxSize /\ k < Size[m]
    BY <1>1, CachedFacts, SizeAssumption
    DEF TypeInv, ChunkBounds, RecordChunks, Full, NextPiece, Row
  <1>3. /\ files' \in Tables
        /\ \A v \in Users, x \in Names :
              \/ files'[v][x] = files[v][x]
              \/ /\ files[v][x] \in Row /\ files[v][x].md5 = m
                 /\ files'[v][x] = WithChunks(files[v][x], k)
    BY <1>1, <1>2, CachedFacts, updateChunksRows
    DEF TypeInv, TypeOK, DBTypeOK, Tables, MaybeRow, RecordChunks
  <1>4. fmap' = [fmap EXCEPT ![p][NextName(p)] = WithChunks(Cached(p), k)]
    BY DEF RecordChunks, Cached, TypeInv, TypeOK
  <1>5. WithChunks(Cached(p), k) \in Row /\ WithChunks(Cached(p), k) # NoRow
        /\ WithChunks(Cached(p), k).chunks = k /\ WithChunks(Cached(p), k).md5 = m
    BY <1>1, <1>2, CachedFacts, RowFacts, NoRowAssumption
  <1>6. fmap' \in [Procs -> [Names -> Row \cup {NoRow}]]
    BY <1>1, <1>4, <1>5, CachedFacts DEF TypeInv, TypeOK
  <1>7. TypeOK'
    BY <1>3, <1>6
    DEF TypeInv, TypeOK, DBTypeOK, RecordChunks, Labels, Tables, MaybeRow
  <1>8. WorkLists'
    BY <1>4, <1>5
    DEF TypeInv, TypeOK, WorkLists, AllAnnounced, RecordChunks, Labels
  <1>9. ChunkBounds'
    <2>1. \A u \in Users, n \in Names : HasRow(u, n)' =>
              files'[u][n].chunks < Size[files'[u][n].md5]
      BY <1>2, <1>3, RowFacts DEF TypeInv, ChunkBounds, HasRow
    <2>2. \A q \in Procs, n \in Names : fmap'[q][n] # NoRow =>
              fmap'[q][n].chunks < Size[fmap'[q][n].md5]
      BY <1>2, <1>4, <1>5 DEF TypeInv, TypeOK, ChunkBounds
    <2>3. \A q \in Procs : pc'[q] = "chunks" => ~Full(Cached(q), NextPiece(q))'
      BY <1>4 DEF TypeInv, TypeOK, ChunkBounds, RecordChunks, Full, Cached,
           NextPiece, NextName
    <2> QED
      BY <2>1, <2>2, <2>3 DEF ChunkBounds
  <1> QED BY <1>7, <1>8, <1>9 DEF TypeInv

\* AddInode: a new refcount is a natural number.
LEMMA AddInodeType ==
    ASSUME TypeInv, NEW p \in Procs, AddInode(p)
    PROVE  TypeInv'
  <1>1. inode' \in [Contents -> Nat]
    BY DEF TypeInv, TypeOK, DBTypeOK, AddInode, addInodeFile
  <1>2. TypeOK'
    BY <1>1 DEF TypeInv, TypeOK, DBTypeOK, AddInode, Labels
  <1>3. WorkLists'
    BY DEF TypeInv, TypeOK, WorkLists, AllAnnounced, AddInode
  <1>4. ChunkBounds'
    BY SameBounds DEF TypeInv, TypeOK, AddInode
  <1> QED
    BY <1>2, <1>3, <1>4 DEF TypeInv

\* Complete: a completed row has no chunks, so it is within the bounds.
LEMMA CompleteType ==
    ASSUME TypeInv, NEW p \in Procs, Complete(p)
    PROVE  TypeInv'
  <1>1. pull[p] # <<>>
    BY DEF TypeInv, WorkLists, Complete
  <1>2. /\ files' \in Tables
        /\ \A v \in Users, x \in Names :
              \/ files'[v][x] = files[v][x]
              \/ /\ files[v][x] \in Row /\ files[v][x].md5 = Cached(p).md5
                 /\ files'[v][x] = Completed(files[v][x])
    BY <1>1, CachedFacts, completeFileRows
    DEF TypeInv, TypeOK, DBTypeOK, Tables, MaybeRow, Complete
  <1>3. TypeOK'
    BY <1>2 DEF TypeInv, TypeOK, DBTypeOK, Complete, Labels, Tables, MaybeRow
  <1>4. WorkLists'
    BY DEF TypeInv, TypeOK, WorkLists, AllAnnounced, Complete, Labels
  <1>5. ChunkBounds'
    <2>1. \A r \in Row : Completed(r).chunks < Size[Completed(r).md5]
      BY RowFacts, SizeAssumption DEF Row
    <2>2. \A u \in Users, n \in Names : HasRow(u, n)' =>
              files'[u][n].chunks < Size[files'[u][n].md5]
      BY <1>2, <2>1 DEF TypeInv, ChunkBounds, HasRow
    <2> QED
      BY <2>2, OtherBounds DEF TypeInv, TypeOK, Complete
  <1> QED BY <1>3, <1>4, <1>5 DEF TypeInv

\* CommitPulled: the file that is done leaves the list to be pushed.
LEMMA CommitPulledType ==
    ASSUME TypeInv, NEW p \in Procs, CommitPulled(p)
    PROVE  TypeInv'
  <1>1. pull[p] # <<>> /\ pull[p] \in Seq(Names) /\ Tail(pull[p]) \in Seq(Names)
    BY ListFacts DEF TypeInv, TypeOK, WorkLists, CommitPulled
  <1>2. journal' \in Seq(Commit)
    BY <1>1, CachedFacts
    DEF TypeInv, TypeOK, DBTypeOK, CommitPulled, journalCommit, Commit
  <1>3. TypeOK'
    BY <1>1, <1>2 DEF TypeInv, TypeOK, DBTypeOK, CommitPulled, Labels
  <1>4. WorkLists'
    BY <1>1, ListFacts
    DEF TypeInv, TypeOK, WorkLists, AllAnnounced, CommitPulled, Labels
  <1>5. ChunkBounds'
    BY DEF TypeInv, TypeOK, ChunkBounds, CommitPulled, HasRow, Full, Cached,
           NextPiece, NextName
  <1> QED BY <1>3, <1>4, <1>5 DEF TypeInv

-----------------------------------------------------------------------------
\* Every step of every process, and stuttering, preserves the invariant.
LEMMA TypeStep == TypeInv /\ [Next]_vars => TypeInv'
  <1> SUFFICES ASSUME TypeInv, [Next]_vars PROVE TypeInv'
    OBVIOUS
  <1>1. CASE UNCHANGED vars
    BY <1>1 DEF vars, dbVars, procVars, TypeInv, TypeOK, DBTypeOK, WorkLists,
                AllAnnounced, ChunkBounds, HasRow, Full, Cached,
           NextPiece, NextName
  <1>2. ASSUME NEW p \in Procs, Work(p) PROVE TypeInv'
    <2>1. CASE SendEmptyPull(p)
      BY <2>1, LowerFlagType
    <2>2. CASE OnExit(p)
      BY <2>2, OnExitType
    <2>3. CASE ChooseNew(p)
      BY <2>3, ChooseNewType
    <2>4. CASE \/ FoundRow(p) \/ CheckInode(p) \/ CheckRow(p)
               \/ CompareRow(p) \/ SendPull(p)
      BY <2>4, ControlType
    <2>5. CASE Compare(p)
      BY <2>5, CompareType
    <2>6. CASE Rename(p)
      BY <2>6, RenameType
    <2>7. CASE RowVanished(p)
      BY <2>7, RowVanishedType
    <2>8. CASE IncRef(p)
      BY <2>8, IncRefType
    <2>9. CASE AddComplete(p)
      BY <2>9, AddFileType DEF AddComplete, TypeInv, WorkLists
    <2>18. CASE AddPartial(p)
      BY <2>18, AddFileType DEF AddPartial, TypeInv, WorkLists
    <2>10. CASE CommitKnown(p)
      BY <2>10, CommitKnownType
    <2>11. CASE RemoveRow(p)
      BY <2>11, RemoveRowType
    <2>12. CASE PullGaps(p)
      BY <2>12, PullGapsType
    <2>13. CASE RecordChunks(p)
      BY <2>13, RecordChunksType
    <2>14. CASE AddInode(p)
      BY <2>14, AddInodeType
    <2>15. CASE Complete(p)
      BY <2>15, CompleteType
    <2>16. CASE CommitPulled(p)
      BY <2>16, CommitPulledType
    <2>17. CASE ReadnAgain(p)
      BY <2>17, <1>1 DEF ReadnAgain
    <2> QED
      BY <1>2, <2>1, <2>2, <2>3, <2>4, <2>5, <2>6, <2>7, <2>8, <2>9, <2>10,
         <2>11, <2>12, <2>13, <2>14, <2>15, <2>16, <2>17, <2>18 DEF Work
  <1>3. ASSUME NEW p \in Procs, Peer(p) PROVE TypeInv'
    <2>1. ASSUME NEW c \in Clients, NEW m \in {0, 1}, Start(p, c, m) PROVE TypeInv'
      BY <2>1, StartType
    <2>2. ASSUME NEW d \in DirInfos, ReadDirInfo(p, d) PROVE TypeInv'
      BY <2>2, ReadDirInfoType
    <2>3. CASE BadDirInfo(p) \/ ReadFails(p)
      BY <2>3, LowerFlagType
    <2>4. CASE Preallocate(p)
      BY <2>4, PreallocateType
    <2>5. CASE WritePiece(p)
      BY <2>5, WritePieceType
    <2>6. CASE HangUp(p) \/ CloseInsidePiece(p)
      BY <2>6, ControlType
    <2> QED
      BY <1>3, <2>1, <2>2, <2>3, <2>4, <2>5, <2>6 DEF Peer
  <1>4. ASSUME NEW p \in Procs, Kill(p) PROVE TypeInv'
    BY <1>4, KillType
  <1> QED
    BY <1>1, <1>2, <1>3, <1>4 DEF Next

\* In every reachable state the tables, the store and each process's memory
\* have their types, every list a step takes the head of has one, and every
\* row lacks a piece: no step of receiver() reads a field that is not there.
THEOREM TypeInvariant == Spec => []TypeInv
  BY InitType, TypeStep, PTL DEF Spec

\* The type invariant of the runs, for every value of the constants.
THEOREM TypeCorrect == Spec => []TypeOK
  <1>1. TypeInv => TypeOK
    BY DEF TypeInv
  <1> QED
    BY <1>1, TypeInvariant, PTL

-----------------------------------------------------------------------------
(* Contents *)

Grows == \A m \in Contents, i \in 1..MaxSize : Written(m, i) => Written(m, i)'

Remains == \A m \in Contents : inode[m] > 0 => inode'[m] > 0

\* Where a row after a step comes from: it has no chunks, or those of a row
\* before the step, in the table or cached, of the same content.
OldChunks(row) ==
    \/ row.chunks = 0
    \/ \E u \in Users, n \in Names :
           /\ HasRow(u, n)
           /\ files[u][n].md5 = row.md5 /\ files[u][n].chunks = row.chunks
    \/ \E q \in Procs, n \in Names :
           /\ fmap[q][n] # NoRow
           /\ fmap[q][n].md5 = row.md5 /\ fmap[q][n].chunks = row.chunks

\* A prefix that a row counts is within the bounds of the store file.
LEMMA OldPrefix ==
    ASSUME IInv, NEW row, OldChunks(row), Grows, row.md5 \in Contents
    PROVE  PrefixWritten(row.md5, row.chunks)'
  <1>1. row.chunks = 0 \/ PrefixWritten(row.md5, row.chunks)
    BY DEF IInv, RowsOnDisk, OldChunks
  <1>2. row.chunks = 0 \/ row.chunks \in 0..MaxSize
    BY DEF IInv, TypeInv, TypeOK, DBTypeOK, HasRow, OldChunks, Row
  <1> QED
    BY <1>1, <1>2, SizeAssumption DEF PrefixWritten, Grows

\* The pieces that rows count stay on disk when no row counts more.
LEMMA KeepRows ==
    ASSUME IInv, TypeInv', Grows,
           \A u \in Users, n \in Names : HasRow(u, n)' => OldChunks(files'[u][n]),
           \A q \in Procs, n \in Names : fmap'[q][n] # NoRow => OldChunks(fmap'[q][n])
    PROVE  RowsOnDisk'
  <1>1. \A u \in Users, n \in Names : HasRow(u, n)' => files'[u][n].md5 \in Contents
    BY DEF TypeInv, TypeOK, DBTypeOK, HasRow, Row
  <1>2. \A q \in Procs, n \in Names :
            fmap'[q][n] # NoRow => fmap'[q][n].md5 \in Contents
    BY DEF TypeInv, TypeOK, Row
  <1> QED
    BY <1>1, <1>2, OldPrefix DEF RowsOnDisk

\* The piece just written stays on disk while fmap and the lists stay.
LEMMA KeepPieces ==
    ASSUME IInv, Grows, fmap' = fmap, pull' = pull,
           \A q \in Procs : pc'[q] \in {"chunks", "inode"} => pc'[q] = pc[q]
    PROVE  PieceOnDisk'
  <1>1. ASSUME NEW q \in Procs, pc'[q] \in {"chunks", "inode"}
        PROVE  Written(Cached(q).md5, NextPiece(q))'
    <2>1. pc[q] = pc'[q] /\ pull[q] # <<>>
      BY <1>1 DEF IInv, TypeInv, WorkLists
    <2>2. Cached(q).md5 \in Contents /\ NextPiece(q) \in 1..MaxSize
      BY <2>1, CachedFacts DEF IInv
    <2>3. Written(Cached(q).md5, NextPiece(q))
      BY <1>1, <2>1 DEF IInv, PieceOnDisk
    <2> QED
      BY <2>2, <2>3 DEF Grows, Cached, NextPiece, NextName
  <1> QED
    BY <1>1 DEF IInv, PieceOnDisk, Full, Cached, NextPiece, NextName

\* An inode a process relies on stays when no inode goes.
LEMMA KeepInodes ==
    ASSUME IInv, TypeInv', Remains,
           \A q \in Procs : pc'[q] \in {"inc", "dup", "log"} =>
               pc[q] \in {"inc", "dup", "log"} /\ topull'[q] = topull[q],
           \A q \in Procs : pc'[q] \in {"complete", "commit"} =>
               /\ pc[q] \in {"complete", "commit"}
               /\ pull'[q] = pull[q] /\ fmap'[q] = fmap[q]
    PROVE  InodeKept'
  <1>1. ASSUME NEW q \in Procs, pc'[q] \in {"inc", "dup", "log"}
        PROVE  inode'[Head(topull'[q]).md5] > 0
    <2>1. inode[Head(topull[q]).md5] > 0 /\ topull'[q] = topull[q]
      BY <1>1 DEF IInv, InodeKept
    <2>2. Head(topull'[q]) \in Entry
      BY <1>1, ListFacts DEF TypeInv, TypeOK, WorkLists
    <2>3. Head(topull'[q]).md5 \in Contents
      BY <2>2 DEF Entry
    <2> QED
      BY <2>1, <2>3 DEF Remains
  <1>2. ASSUME NEW q \in Procs, pc'[q] \in {"complete", "commit"}
        PROVE  inode'[Cached(q).md5'] > 0
    <2>1. inode[Cached(q).md5] > 0 /\ pull[q] # <<>>
      BY <1>2 DEF IInv, InodeKept, TypeInv, WorkLists
    <2>2. Cached(q).md5 \in Contents /\ Cached(q).md5' = Cached(q).md5
      BY <1>2, <2>1, CachedFacts DEF IInv, Cached, NextName
    <2> QED
      BY <2>1, <2>2 DEF Remains
  <1> QED
    BY <1>1, <1>2 DEF InodeKept

\* Contents with an inode stay on disk when there is no new inode.
LEMMA KeepStored ==
    ASSUME IInv, Grows, \A m \in Contents : inode'[m] > 0 => inode[m] > 0
    PROVE  InodeStored'
  BY SizeAssumption DEF IInv, InodeStored, Grows

\* A completed row keeps its inode when no other row becomes complete.
LEMMA KeepComplete ==
    ASSUME IInv, TypeInv', Remains,
           \A u \in Users, n \in Names :
               HasRow(u, n)' /\ files'[u][n].complete =>
                   \/ inode[files'[u][n].md5] > 0
                   \/ \E x \in Names : /\ HasRow(u, x) /\ files[u][x].complete
                                       /\ files[u][x].md5 = files'[u][n].md5
    PROVE  CompleteHasInode'
  <1>1. \A u \in Users, n \in Names : HasRow(u, n)' => files'[u][n].md5 \in Contents
    BY DEF TypeInv, TypeOK, DBTypeOK, HasRow, Row
  <1> QED
    BY <1>1 DEF IInv, CompleteHasInode, Remains

\* The commits keep their inodes when there is no new commit.
LEMMA KeepJournal ==
    ASSUME IInv, Remains, journal' = journal
    PROVE  JournalHasInode'
  <1>1. ASSUME NEW i \in 1..Len(journal) PROVE journal[i].md5 \in Contents
    <2>1. journal[i] \in Commit
      BY DEF IInv, TypeInv, TypeOK, DBTypeOK
    <2> QED
      BY <2>1 DEF Commit
  <1> QED
    BY <1>1 DEF IInv, JournalHasInode, Remains

\* Steps that leave the tables, the store and fmap alone.
LEMMA Quiet ==
    ASSUME IInv, TypeInv', UNCHANGED <<files, inode, journal, store, fmap, pull>>,
           \A q \in Procs :
               \/ pc'[q] = pc[q] /\ topull'[q] = topull[q]
               \/ pc'[q] \notin {"inc", "dup", "log", "chunks", "inode",
                                 "complete", "commit"}
    PROVE  IInv'
  <1>1. Grows /\ Remains
    BY DEF Grows, Remains, Written
  <1>2. AbsentOrCreated'
    BY DEF IInv, AbsentOrCreated, Created, Written
  <1>3. RowsOnDisk'
    BY DEF IInv, RowsOnDisk, PrefixWritten, HasRow, Written
  <1>4. PieceOnDisk' /\ InodeKept'
    BY <1>1, KeepPieces, KeepInodes
  <1>5. InodeStored' /\ CompleteHasInode' /\ JournalHasInode'
    BY <1>1, KeepJournal
    DEF IInv, InodeStored, CompleteHasInode, HasRow, Written
  <1> QED
    BY <1>2, <1>3, <1>4, <1>5 DEF IInv

\* The entry pass 2 works on, and the parts of the invariant a step on the
\* tables starts from.
LEMMA HeadFacts ==
    ASSUME IInv, NEW p \in Procs, topull[p] # <<>>
    PROVE  /\ Head(topull[p]) \in Entry
           /\ Head(topull[p]).name \in Names
           /\ Head(topull[p]).md5 \in Contents
  <1>1. Head(topull[p]) \in Entry
    BY ListFacts DEF IInv, TypeInv, TypeOK
  <1> QED
    BY <1>1, NameAssumption DEF Entry

\* What a step on the tables reads of the type invariant.
LEMMA StateFacts ==
    ASSUME IInv
    PROVE  /\ TypeInv
           /\ pc \in [Procs -> Labels]
           /\ files \in Tables
           /\ \A p \in Procs : User(p) \in Users
           /\ \A p \in Procs :
                 /\ pc[p] \in {"inc", "dup", "log", "rem", "add", "gap"} =>
                        topull[p] # <<>>
                 /\ pc[p] \in {"chunks", "inode", "complete", "commit"} =>
                        pull[p] # <<>>
  BY UidAssumption
  DEF IInv, TypeInv, TypeOK, DBTypeOK, WorkLists, Tables, MaybeRow, User

-----------------------------------------------------------------------------
\* Init establishes the invariant.
LEMMA InitIInv == Init => IInv
  <1> SUFFICES ASSUME Init PROVE IInv
    OBVIOUS
  <1>1. TypeInv
    BY InitType
  <1>2. AbsentOrCreated
    BY DEF Init, DBInit, AbsentOrCreated, Written
  <1>3. RowsOnDisk /\ PieceOnDisk /\ InodeKept
    BY DEF Init, DBInit, RowsOnDisk, PieceOnDisk, InodeKept, HasRow, NoFiles
  <1>4. InodeStored /\ CompleteHasInode /\ JournalHasInode
    BY DEF Init, DBInit, InodeStored, CompleteHasInode, JournalHasInode, HasRow
  <1> QED
    BY <1>1, <1>2, <1>3, <1>4 DEF IInv

\* A process that goes: its cached rows go with it.
LEMMA GoneIInv ==
    ASSUME IInv, TypeInv', NEW p \in Procs, Gone(p),
           UNCHANGED <<files, inode, journal, store>>
    PROVE  IInv'
  <1>1. Grows /\ Remains
    BY DEF Grows, Remains, Written
  <1>2. \A q \in Procs : \/ /\ pc'[q] = pc[q] /\ topull'[q] = topull[q]
                            /\ pull'[q] = pull[q] /\ fmap'[q] = fmap[q]
                         \/ pc'[q] = "idle" /\ fmap'[q] = NoFiles
    <2>1. TypeOK
      BY DEF IInv, TypeInv
    <2> QED
      BY <2>1 DEF Gone, TypeOK
  <1>3. AbsentOrCreated'
    BY DEF IInv, AbsentOrCreated, Created, Written
  <1>4. RowsOnDisk'
    BY <1>2 DEF IInv, RowsOnDisk, PrefixWritten, HasRow, Written, NoFiles
  <1>5. PieceOnDisk'
    BY <1>2 DEF IInv, PieceOnDisk, Written, Full, Cached, NextPiece, NextName
  <1>6. InodeKept'
    BY <1>1, <1>2, KeepInodes
  <1>7. InodeStored' /\ CompleteHasInode' /\ JournalHasInode'
    BY <1>1, KeepJournal
    DEF IInv, InodeStored, CompleteHasInode, HasRow, Written
  <1> QED
    BY <1>3, <1>4, <1>5, <1>6, <1>7 DEF IInv

\* CheckInode: "inc" is entered only with the inode there.
LEMMA CheckInodeIInv ==
    ASSUME IInv, TypeInv', NEW p \in Procs, CheckInode(p)
    PROVE  IInv'
  <1>1. Grows /\ Remains
    BY DEF CheckInode, dbVars, Grows, Remains, Written
  <1>2. /\ UNCHANGED <<files, inode, journal, store, topull, pull, fmap>>
        /\ pc' = [pc EXCEPT ![p] = IF chkFileInodeExist(Head(topull[p]).md5)
                                   THEN "inc" ELSE "row"]
    BY DEF CheckInode, dbVars
  <1>3. AbsentOrCreated' /\ RowsOnDisk'
    BY <1>2
    DEF IInv, AbsentOrCreated, RowsOnDisk, PrefixWritten, HasRow, Created, Written
  <1>4. PieceOnDisk'
    BY <1>1, <1>2, KeepPieces DEF IInv, TypeInv, TypeOK
  <1>5. InodeKept'
    BY <1>2 DEF IInv, TypeInv, TypeOK, InodeKept, chkFileInodeExist, Cached, NextName
  <1>6. InodeStored' /\ CompleteHasInode' /\ JournalHasInode'
    BY <1>1, <1>2, KeepJournal
    DEF IInv, InodeStored, CompleteHasInode, HasRow, Written
  <1> QED
    BY <1>3, <1>4, <1>5, <1>6 DEF IInv

\* Statements on table files that neither count pieces nor complete a row:
\* Rename, RemoveRow, AddPartial.
LEMMA RowsIInv ==
    ASSUME IInv, TypeInv', UNCHANGED <<inode, journal, store, topull, pull, fmap>>,
           \A q \in Procs :
               pc'[q] = pc[q] \/ pc'[q] \in {"chk", "add", "gap"},
           \A u \in Users, n \in Names : HasRow(u, n)' =>
               \/ \E x \in Names : HasRow(u, x) /\ files'[u][n] = files[u][x]
               \/ files'[u][n].chunks = 0 /\ ~files'[u][n].complete
    PROVE  IInv'
  <1>1. Grows /\ Remains
    BY DEF Grows, Remains, Written
  <1>2. AbsentOrCreated'
    BY DEF IInv, AbsentOrCreated, Created, Written
  <1>3. RowsOnDisk'
    BY <1>1, KeepRows DEF OldChunks
  <1>4. PieceOnDisk' /\ InodeKept'
    BY <1>1, KeepPieces, KeepInodes
  <1>5. InodeStored' /\ JournalHasInode'
    BY <1>1, KeepStored, KeepJournal
  <1>6. CompleteHasInode'
    BY <1>1, KeepComplete
  <1> QED
    BY <1>2, <1>3, <1>4, <1>5, <1>6 DEF IInv

\* Rename: a row under another name counts the same pieces.
LEMMA RenameIInv ==
    ASSUME IInv, TypeInv', NEW p \in Procs, Rename(p)
    PROVE  IInv'
  <1>1. Head(todo[p]).name \in Names /\ Old[Head(todo[p]).name] \in Names
    <2>1. Head(todo[p]) \in Entry
      BY ListFacts DEF IInv, TypeInv, TypeOK, WorkLists, Rename
    <2>2. Head(todo[p]).name \in Announced
      BY <2>1 DEF Entry
    <2> QED
      BY <2>2, NameAssumption
  <1>2. \A v \in Users, x \in Names :
            files'[v][x] = NoRow \/ \E y \in Names : files'[v][x] = files[v][y]
    BY <1>1, StateFacts, fileRenameRows DEF Rename
  <1>3. \A q \in Procs : pc'[q] = pc[q] \/ pc'[q] = "chk"
    BY StateFacts DEF Rename
  <1> QED
    BY <1>2, <1>3, RowsIInv DEF Rename, HasRow

\* RemoveRow: fewer rows, of whichever user.
LEMMA RemoveRowIInv ==
    ASSUME IInv, TypeInv', NEW p \in Procs, RemoveRow(p)
    PROVE  IInv'
  <1>1. \A v \in Users, x \in Names :
            files'[v][x] = NoRow \/ files'[v][x] = files[v][x]
    BY StateFacts, HeadFacts, removeFileRows DEF RemoveRow
  <1>2. \A q \in Procs : pc'[q] = pc[q] \/ pc'[q] = "add"
    BY StateFacts DEF RemoveRow
  <1> QED
    BY <1>1, <1>2, RowsIInv DEF RemoveRow, HasRow

\* AddPartial: the new row counts no piece and is not complete.
LEMMA AddPartialIInv ==
    ASSUME IInv, TypeInv', NEW p \in Procs, AddPartial(p)
    PROVE  IInv'
  <1> DEFINE row == NewRow(Head(topull[p]), FALSE)
  <1>1. Head(topull[p]) \in Entry
    BY StateFacts, HeadFacts DEF AddPartial
  <1>2. \A v \in Users, n \in Names :
            files'[v][n] = files[v][n] \/ files'[v][n] = row
    BY <1>1, StateFacts, addFileRows DEF AddPartial
  <1>3. row.chunks = 0 /\ ~row.complete
    BY <1>1, RowFacts
  <1>4. \A q \in Procs : pc'[q] = pc[q] \/ pc'[q] = "gap"
    BY StateFacts DEF AddPartial
  <1> QED
    BY <1>2, <1>3, <1>4, RowsIInv DEF AddPartial, HasRow

\* AddComplete: the row is complete, and pass 2 saw the inode of its md5.
LEMMA AddCompleteIInv ==
    ASSUME IInv, TypeInv', NEW p \in Procs, AddComplete(p)
    PROVE  IInv'
  <1> DEFINE row == NewRow(Head(topull[p]), TRUE)
  <1>1. Head(topull[p]) \in Entry
    BY StateFacts, HeadFacts DEF AddComplete
  <1>2. \A v \in Users, n \in Names :
            files'[v][n] = files[v][n] \/ files'[v][n] = row
    BY <1>1, StateFacts, addFileRows DEF AddComplete
  <1>3. row.chunks = 0 /\ inode[row.md5] > 0
    BY <1>1, RowFacts DEF IInv, InodeKept, AddComplete
  <1>4. Grows /\ Remains
    BY DEF AddComplete, Grows, Remains, Written
  <1>5. \A q \in Procs : pc'[q] = pc[q] \/ (pc[q] = "dup" /\ pc'[q] = "log")
    BY StateFacts DEF AddComplete
  <1>6. AbsentOrCreated'
    BY DEF AddComplete, IInv, AbsentOrCreated, Created, Written
  <1>7. RowsOnDisk'
    BY <1>2, <1>3, <1>4, KeepRows DEF AddComplete, OldChunks, HasRow
  <1>8. PieceOnDisk' /\ InodeKept'
    BY <1>4, <1>5, KeepPieces, KeepInodes DEF AddComplete
  <1>9. InodeStored' /\ JournalHasInode'
    BY <1>4, KeepStored, KeepJournal DEF AddComplete
  <1>10. CompleteHasInode'
    BY <1>2, <1>3, <1>4, KeepComplete DEF HasRow
  <1> QED
    BY <1>6, <1>7, <1>8, <1>9, <1>10 DEF IInv

\* Complete: the inode was added by the statement before.
LEMMA CompleteIInv ==
    ASSUME IInv, TypeInv', NEW p \in Procs, Complete(p)
    PROVE  IInv'
  <1> DEFINE m == Cached(p).md5
  <1>1. m \in Contents /\ inode[m] > 0
    BY StateFacts, CachedFacts DEF Complete, IInv, InodeKept
  <1>2. \A v \in Users, x \in Names :
            \/ files'[v][x] = files[v][x]
            \/ /\ files[v][x] \in Row /\ files[v][x].md5 = m
               /\ files'[v][x] = Completed(files[v][x])
    BY <1>1, StateFacts, completeFileRows DEF Complete
  <1>3. \A v \in Users, x \in Names :
            \/ files'[v][x] = files[v][x]
            \/ files'[v][x].chunks = 0 /\ files'[v][x].md5 = m
    BY <1>2, RowFacts
  <1>4. Grows /\ Remains
    BY DEF Complete, Grows, Remains, Written
  <1>5. \A q \in Procs : pc'[q] = pc[q] \/ (pc[q] = "complete" /\ pc'[q] = "commit")
    BY StateFacts DEF Complete
  <1>6. AbsentOrCreated'
    BY DEF Complete, IInv, AbsentOrCreated, Created, Written
  <1>7. RowsOnDisk'
    BY <1>3, <1>4, KeepRows DEF Complete, OldChunks, HasRow
  <1>8. PieceOnDisk' /\ InodeKept'
    BY <1>4, <1>5, KeepPieces, KeepInodes DEF Complete
  <1>9. InodeStored' /\ JournalHasInode'
    BY <1>4, KeepStored, KeepJournal DEF Complete
  <1>10. CompleteHasInode'
    BY <1>1, <1>3, <1>4, KeepComplete DEF HasRow
  <1> QED
    BY <1>6, <1>7, <1>8, <1>9, <1>10 DEF IInv

\* RecordChunks: the pieces of the cached row and the one just written.  The
\* rows of the user with that md5 count k pieces from now on, on disk all.
LEMMA RecordChunksIInv ==
    ASSUME IInv, TypeInv', NEW p \in Procs, RecordChunks(p)
    PROVE  IInv'
  <1> DEFINE m == Cached(p).md5
             k == NextPiece(p)
  <1>1. /\ pull[p] # <<>> /\ m \in Contents /\ k \in 1..MaxSize
        /\ Cached(p) \in Row /\ NextName(p) \in Names
    BY StateFacts, CachedFacts DEF RecordChunks
  <1>2. PrefixWritten(m, k)
    <2>1. PrefixWritten(m, Cached(p).chunks)
      BY <1>1, NoRowAssumption DEF IInv, RowsOnDisk, Cached
    <2>2. Written(m, k)
      BY DEF RecordChunks, IInv, PieceOnDisk
    <2>3. k = Cached(p).chunks + 1 /\ Cached(p).chunks \in Nat
      BY <1>1, SizeAssumption DEF NextPiece, Row
    <2> QED
      BY <2>1, <2>2, <2>3 DEF PrefixWritten
  <1>3. \A v \in Users, x \in Names :
            \/ files'[v][x] = files[v][x]
            \/ /\ files[v][x] \in Row /\ files[v][x].md5 = m
               /\ files'[v][x] = WithChunks(files[v][x], k)
    BY <1>1, StateFacts, updateChunksRows DEF RecordChunks
  <1>4. \A v \in Users, x \in Names :
            \/ files'[v][x] = files[v][x]
            \/ /\ files[v][x] # NoRow /\ files[v][x].complete = files'[v][x].complete
               /\ files[v][x].md5 = m
               /\ files'[v][x].chunks = k /\ files'[v][x].md5 = m
    BY <1>1, <1>3, RowFacts, NoRowAssumption
  <1>5. \A q \in Procs, x \in Names :
            \/ fmap'[q][x] = fmap[q][x]
            \/ fmap'[q][x].chunks = k /\ fmap'[q][x].md5 = m
    BY <1>1, RowFacts DEF RecordChunks, Cached, IInv, TypeInv, TypeOK
  <1>6. Grows /\ Remains
    BY DEF RecordChunks, Grows, Remains, Written
  <1>7. /\ \A q \in Procs \ {p} : pc'[q] = pc[q] /\ fmap'[q] = fmap[q]
        /\ pc'[p] = "push"
        /\ UNCHANGED <<inode, journal, store, topull, pull>>
    BY StateFacts DEF RecordChunks, IInv, TypeInv, TypeOK
  <1>8. AbsentOrCreated'
    BY <1>7 DEF IInv, AbsentOrCreated, Created, Written
  <1>9. RowsOnDisk'
    BY <1>2, <1>4, <1>5, <1>7 DEF IInv, RowsOnDisk, PrefixWritten, HasRow, Written
  <1>10. PieceOnDisk'
    BY <1>7 DEF IInv, PieceOnDisk, Written, Full, Cached, NextPiece, NextName
  <1>11. InodeKept'
    BY <1>6, <1>7, KeepInodes
  <1>12. InodeStored' /\ JournalHasInode'
    BY <1>6, <1>7, KeepStored, KeepJournal
  <1>13. CompleteHasInode'
    BY <1>4, <1>6, KeepComplete DEF HasRow
  <1> QED
    BY <1>8, <1>9, <1>10, <1>11, <1>12, <1>13 DEF IInv

\* PullGaps: the cached row is the row of the table.
LEMMA PullGapsIInv ==
    ASSUME IInv, TypeInv', NEW p \in Procs, PullGaps(p)
    PROVE  IInv'
  <1> DEFINE n == Head(topull[p]).name
             row == files[User(p)][n]
  <1>1. n \in Names /\ User(p) \in Users /\ HasRow(User(p), n)
    BY StateFacts, HeadFacts DEF PullGaps, HasRow
  <1>2. /\ fmap' = [fmap EXCEPT ![p][n] = row]
        /\ UNCHANGED <<files, inode, journal, store>>
    BY DEF PullGaps, dbVars
  <1>3. \A q \in Procs, x \in Names :
            fmap'[q][x] = fmap[q][x] \/ fmap'[q][x] = row
    BY <1>1, <1>2 DEF IInv, TypeInv, TypeOK
  <1>4. /\ \A q \in Procs \ {p} : /\ pc'[q] = pc[q] /\ fmap'[q] = fmap[q]
                                 /\ pull'[q] = pull[q] /\ topull'[q] = topull[q]
        /\ pc'[p] = "ino"
    BY SMTT(30) DEF PullGaps, NextFile, IInv, TypeInv, TypeOK
  <1>5. Grows /\ Remains
    BY <1>2 DEF Grows, Remains, Written
  <1>6. AbsentOrCreated'
    BY <1>2 DEF IInv, AbsentOrCreated, Created, Written
  <1>7. RowsOnDisk'
    BY <1>1, <1>2, <1>3, <1>5, KeepRows DEF OldChunks, HasRow
  <1>8. PieceOnDisk'
    <2>1. ASSUME NEW q \in Procs, pc'[q] \in {"chunks", "inode"}
          PROVE  pc[q] = pc'[q] /\ fmap'[q] = fmap[q] /\ pull'[q] = pull[q]
      BY <1>4, <2>1
    <2> QED
      BY <1>2, <2>1, ZenonT(60)
      DEF IInv, PieceOnDisk, Written, Full, Cached, NextPiece, NextName
  <1>9. InodeKept'
    BY <1>4, <1>5, KeepInodes
  <1>10. InodeStored' /\ CompleteHasInode' /\ JournalHasInode'
    BY <1>2, <1>5, KeepJournal
    DEF IInv, InodeStored, CompleteHasInode, HasRow, Written
  <1> QED
    BY <1>6, <1>7, <1>8, <1>9, <1>10 DEF IInv

\* IncRef and the two journal statements: nothing a row or a piece depends on.
LEMMA IncRefIInv ==
    ASSUME IInv, TypeInv', NEW p \in Procs, IncRef(p)
    PROVE  IInv'
  <1>1. Head(topull[p]).md5 \in Contents
    BY StateFacts, HeadFacts DEF IncRef
  <1>2. inode \in [Contents -> Nat]
    BY DEF IInv, TypeInv, TypeOK, DBTypeOK
  <1>3. \A m \in Contents : inode'[m] > 0 <=> inode[m] > 0
    BY <1>1, <1>2 DEF IncRef, incRefCount, chkFileInodeExist
  <1>4. Grows /\ Remains
    BY <1>3 DEF IncRef, Grows, Remains, Written
  <1>5. \A q \in Procs : pc'[q] = pc[q] \/ (pc[q] = "inc" /\ pc'[q] = "dup")
    BY StateFacts DEF IncRef
  <1>6. AbsentOrCreated' /\ RowsOnDisk'
    BY DEF IncRef, IInv, AbsentOrCreated, RowsOnDisk, PrefixWritten, HasRow,
           Created, Written
  <1>7. PieceOnDisk' /\ InodeKept'
    BY <1>4, <1>5, KeepPieces, KeepInodes DEF IncRef
  <1>8. InodeStored' /\ JournalHasInode'
    BY <1>3, <1>4, KeepStored, KeepJournal DEF IncRef
  <1>9. CompleteHasInode'
    BY <1>4, KeepComplete DEF IncRef, HasRow
  <1> QED
    BY <1>6, <1>7, <1>8, <1>9 DEF IInv

\* A commit of a content that has an inode.
LEMMA CommitIInv ==
    ASSUME IInv, TypeInv', NEW p \in Procs, NEW c \in Commit,
           journal' = Append(journal, c), inode[c.md5] > 0,
           UNCHANGED <<files, inode, store, fmap>>,
           pc'[p] \in {"ino", "push"},
           \A q \in Procs \ {p} : /\ pc'[q] = pc[q] /\ topull'[q] = topull[q]
                                  /\ pull'[q] = pull[q]
    PROVE  IInv'
  <1>1. Grows /\ Remains
    BY DEF Grows, Remains, Written
  <1>2. AbsentOrCreated' /\ RowsOnDisk'
    BY DEF IInv, AbsentOrCreated, RowsOnDisk, PrefixWritten, HasRow, Created,
           Written
  <1>3. PieceOnDisk'
    <2>1. ASSUME NEW q \in Procs, pc'[q] \in {"chunks", "inode"}
          PROVE  pc[q] = pc'[q] /\ fmap'[q] = fmap[q] /\ pull'[q] = pull[q]
      BY <2>1
    <2>2. store' = store
      OBVIOUS
    <2>3. ASSUME NEW q \in Procs, pc'[q] \in {"chunks", "inode"}
          PROVE  /\ Written(Cached(q).md5, NextPiece(q))'
                 /\ pc'[q] = "inode" => Full(Cached(q), NextPiece(q))'
      <3>1. /\ Written(Cached(q).md5, NextPiece(q))
            /\ pc'[q] = "inode" => Full(Cached(q), NextPiece(q))
        BY <2>1, <2>3 DEF IInv, PieceOnDisk
      <3>2. Cached(q)' = Cached(q) /\ NextPiece(q)' = NextPiece(q)
        BY <2>1, <2>3 DEF Cached, NextPiece, NextName
      <3> QED
        BY <2>2, <3>1, <3>2 DEF Written, Full
    <2> QED
      BY <2>3 DEF PieceOnDisk
  <1>4. InodeKept'
    BY <1>1, KeepInodes
  <1>5. InodeStored' /\ CompleteHasInode'
    BY DEF IInv, InodeStored, CompleteHasInode, HasRow, Written
  <1>6. JournalHasInode'
    <2>1. journal \in Seq(Commit)
      BY DEF IInv, TypeInv, TypeOK, DBTypeOK
    <2>2. ASSUME NEW i \in 1..Len(journal') PROVE inode'[journal'[i].md5] > 0
      <3>1. CASE i \in 1..Len(journal)
        BY <2>1, <3>1 DEF IInv, JournalHasInode
      <3>2. CASE i = Len(journal) + 1
        BY <2>1, <3>2
      <3> QED
        BY <2>1, <2>2, <3>1, <3>2
    <2> QED
      BY <2>2 DEF JournalHasInode
  <1> QED
    BY <1>2, <1>3, <1>4, <1>5, <1>6 DEF IInv

\* CommitKnown: pass 2 saw the inode and counted a reference to it.
LEMMA CommitKnownIInv ==
    ASSUME IInv, TypeInv', NEW p \in Procs, CommitKnown(p)
    PROVE  IInv'
  <1> DEFINE e == Head(topull[p])
             c == [uid |-> User(p), name |-> e.name, md5 |-> e.md5]
  <1>1. c \in Commit
    BY StateFacts, HeadFacts DEF CommitKnown, Commit
  <1>2. inode[c.md5] > 0
    BY DEF CommitKnown, IInv, InodeKept
  <1>3. journal' = Append(journal, c)
    BY DEF CommitKnown, journalCommit
  <1>4. /\ pc'[p] = "ino"
        /\ \A q \in Procs \ {p} : pc'[q] = pc[q] /\ topull'[q] = topull[q]
    BY StateFacts DEF CommitKnown, NextFile, IInv, TypeInv, TypeOK
  <1> QED
    BY <1>1, <1>2, <1>3, <1>4, CommitIInv DEF CommitKnown

\* CommitPulled: the inode was added two statements earlier.
LEMMA CommitPulledIInv ==
    ASSUME IInv, TypeInv', NEW p \in Procs, CommitPulled(p)
    PROVE  IInv'
  <1> DEFINE c == [uid |-> User(p), name |-> NextName(p), md5 |-> Cached(p).md5]
  <1>1. c \in Commit
    BY StateFacts, CachedFacts DEF CommitPulled, Commit
  <1>2. inode[c.md5] > 0
    BY DEF CommitPulled, IInv, InodeKept
  <1>3. journal' = Append(journal, c)
    BY DEF CommitPulled, journalCommit
  <1>4. /\ pc'[p] = "push"
        /\ \A q \in Procs \ {p} : pc'[q] = pc[q] /\ pull'[q] = pull[q]
    BY StateFacts DEF CommitPulled, IInv, TypeInv, TypeOK
  <1> QED
    BY <1>1, <1>2, <1>3, <1>4, CommitIInv DEF CommitPulled

\* AddInode: the pieces the cached row counts and the one just written are
\* the whole content.
LEMMA AddInodeIInv ==
    ASSUME IInv, TypeInv', NEW p \in Procs, AddInode(p)
    PROVE  IInv'
  <1> DEFINE m == Cached(p).md5
  <1>1. m \in Contents /\ Cached(p) \in Row /\ NextName(p) \in Names
    BY StateFacts, CachedFacts DEF AddInode
  <1>2. inode \in [Contents -> Nat]
    BY DEF IInv, TypeInv, TypeOK, DBTypeOK
  <1>3. inode'[m] > 0 /\ \A x \in Contents \ {m} : inode'[x] = inode[x]
    BY <1>1, <1>2 DEF AddInode, addInodeFile, chkFileInodeExist
  <1>4. PrefixWritten(m, Size[m])
    <2>1. PrefixWritten(m, Cached(p).chunks)
      BY <1>1, NoRowAssumption DEF IInv, RowsOnDisk, Cached
    <2>2. Written(m, NextPiece(p)) /\ NextPiece(p) = Size[m]
      BY DEF AddInode, IInv, PieceOnDisk, Full
    <2>3. NextPiece(p) = Cached(p).chunks + 1 /\ Cached(p).chunks \in Nat
      BY <1>1, SizeAssumption DEF NextPiece, Row
    <2> QED
      BY <2>1, <2>2, <2>3 DEF PrefixWritten
  <1>5. Grows /\ Remains
    BY <1>3 DEF AddInode, Grows, Remains, Written
  <1>6. AbsentOrCreated' /\ RowsOnDisk'
    BY DEF AddInode, IInv, AbsentOrCreated, RowsOnDisk, PrefixWritten, HasRow,
           Created, Written
  <1>7. /\ \A q \in Procs \ {p} : pc'[q] = pc[q]
        /\ pc'[p] = "complete"
    BY StateFacts DEF AddInode
  <1>8. PieceOnDisk'
    BY <1>5, <1>7, KeepPieces DEF AddInode
  <1>9. InodeKept'
    <2>1. \A q \in Procs : pc'[q] \in {"inc", "dup", "log"} =>
              pc[q] = pc'[q] /\ inode[Head(topull[q]).md5] > 0
                 /\ Head(topull[q]).md5 \in Contents
      BY <1>7, StateFacts, HeadFacts DEF IInv, InodeKept
    <2>2. \A q \in Procs \ {p} : pc'[q] \in {"complete", "commit"} =>
              inode[Cached(q).md5] > 0 /\ Cached(q).md5 \in Contents
      BY <1>7, StateFacts, CachedFacts DEF IInv, InodeKept
    <2>3. UNCHANGED <<topull, pull, fmap>>
      BY DEF AddInode
    <2> QED
      BY <1>3, <1>5, <2>1, <2>2, <2>3 DEF InodeKept, Remains, Cached, NextName
  <1>10. InodeStored'
    BY <1>3, <1>4 DEF AddInode, IInv, InodeStored, PrefixWritten, Written
  <1>11. CompleteHasInode' /\ JournalHasInode'
    BY <1>5, KeepComplete, KeepJournal DEF AddInode, HasRow
  <1> QED
    BY <1>6, <1>8, <1>9, <1>10, <1>11 DEF IInv

\* Steps on the store that only add pieces.
LEMMA StoreIInv ==
    ASSUME IInv, TypeInv', Grows, AbsentOrCreated', PieceOnDisk',
           UNCHANGED <<files, inode, journal, fmap, topull, pull>>,
           \A q \in Procs : pc'[q] = pc[q] \/ pc'[q] \in {"chunks", "inode"}
    PROVE  IInv'
  <1>1. Remains
    BY DEF Remains
  <1>2. RowsOnDisk'
    BY KeepRows DEF OldChunks, HasRow
  <1>3. InodeKept'
    BY <1>1, KeepInodes
  <1>4. InodeStored' /\ CompleteHasInode' /\ JournalHasInode'
    BY <1>1, KeepStored, KeepComplete, KeepJournal DEF HasRow
  <1> QED
    BY <1>2, <1>3, <1>4 DEF IInv

\* Preallocate: there was no store file, so no piece is lost.
LEMMA PreallocateIInv ==
    ASSUME IInv, TypeInv', NEW p \in Procs, Preallocate(p)
    PROVE  IInv'
  <1> DEFINE m == Cached(p).md5
  <1>1. m \in Contents /\ Size[m] \in 1..MaxSize
    BY StateFacts, CachedFacts, SizeAssumption DEF Preallocate, Receiving
  <1>2. store \in [Contents -> [1..MaxSize -> Bytes]]
    BY DEF IInv, TypeInv, TypeOK, DBTypeOK
  <1>3. /\ \A x \in Contents \ {m} : store'[x] = store[x]
        /\ \A i \in 1..MaxSize : store'[m][i] = IF i <= Size[m] THEN Hole ELSE Absent
        /\ UNCHANGED <<files, inode, journal, pc, fmap, topull, pull>>
    BY <1>1, <1>2 DEF Preallocate, createStore, procVars
  <1>4. \A i \in 1..MaxSize : ~Written(m, i)
    BY <1>1 DEF IInv, AbsentOrCreated, Preallocate
  <1>5. Grows
    BY <1>3, <1>4 DEF Grows, Written
  <1>6. AbsentOrCreated'
    BY <1>1, <1>3, BytesAssumption DEF IInv, AbsentOrCreated, Created, Written
  <1>7. PieceOnDisk'
    BY <1>3, <1>5, KeepPieces
  <1> QED
    BY <1>3, <1>5, <1>6, <1>7, StoreIInv

\* WritePiece: the piece after those of the cached row.
LEMMA WritePieceIInv ==
    ASSUME IInv, TypeInv', NEW p \in Procs, WritePiece(p)
    PROVE  IInv'
  <1> DEFINE m == Cached(p).md5
             k == NextPiece(p)
  <1>1. m \in Contents /\ k \in 1..MaxSize /\ pull[p] # <<>>
    BY StateFacts, CachedFacts DEF WritePiece, Receiving
  <1>2. store \in [Contents -> [1..MaxSize -> Bytes]]
    BY DEF IInv, TypeInv, TypeOK, DBTypeOK
  <1>3. PICK b \in PushedBytes(p) : writeStore(m, k, b)
    BY DEF WritePiece
  <1>4. b \notin {Absent, Hole}
    BY <1>1, StateFacts, PushedPieces, BytesAssumption
  <1>5. /\ \A x \in Contents \ {m} : store'[x] = store[x]
        /\ \A i \in 1..MaxSize \ {k} : store'[m][i] = store[m][i]
        /\ store'[m][k] = b
        /\ UNCHANGED <<files, inode, journal, fmap, topull, pull>>
    BY <1>1, <1>2, <1>3 DEF WritePiece, writeStore
  <1>6. Grows
    BY <1>4, <1>5 DEF Grows, Written
  <1>7. AbsentOrCreated'
    <2>1. Created(m)'
      <3>1. store[m][1] # Absent
        BY DEF WritePiece, Created
      <3>2. fmap' = fmap /\ pull' = pull /\ 1 \in 1..MaxSize
        BY <1>1, <1>5, SizeAssumption
      <3> QED
        BY <1>4, <1>5, <3>1, <3>2 DEF Created, Cached, NextName
    <2>2. m' = m
      BY <1>5 DEF Cached, NextName
    <2> QED
      BY <1>1, <1>5, <2>1, <2>2 DEF IInv, AbsentOrCreated, Created, Written
  <1>8. /\ \A q \in Procs \ {p} : pc'[q] = pc[q]
        /\ pc'[p] = IF Full(Cached(p), k) THEN "inode" ELSE "chunks"
    BY StateFacts DEF WritePiece, AfterPiece
  <1>9. PieceOnDisk'
    <2>1. UNCHANGED <<fmap, pull>>
      BY <1>5
    <2>2. Written(m, k)'
      BY <1>4, <1>5, <2>1 DEF Written, Cached, NextPiece, NextName
    <2>3. ASSUME NEW q \in Procs \ {p}, pc'[q] \in {"chunks", "inode"}
          PROVE  Written(Cached(q).md5, NextPiece(q))'
      <3>1. Cached(q).md5 \in Contents /\ NextPiece(q) \in 1..MaxSize
        BY <1>8, <2>3, StateFacts, CachedFacts
      <3>2. Written(Cached(q).md5, NextPiece(q))
        BY <1>8, <2>3 DEF IInv, PieceOnDisk
      <3> QED
        BY <1>6, <2>1, <3>1, <3>2 DEF Grows, Cached, NextPiece, NextName
    <2> QED
      BY <1>8, <2>1, <2>2, <2>3
      DEF IInv, PieceOnDisk, Full, Cached, NextPiece, NextName
  <1> QED
    BY <1>5, <1>6, <1>7, <1>8, <1>9, StoreIInv

-----------------------------------------------------------------------------
\* Every step of every process, and stuttering, preserves the invariant.
LEMMA IInvStep == IInv /\ [Next]_vars => IInv'
  <1> SUFFICES ASSUME IInv, [Next]_vars PROVE IInv'
    OBVIOUS
  <1>0. TypeInv'
    BY TypeStep DEF IInv
  <1>1. CASE UNCHANGED vars
    BY <1>0, <1>1, Quiet DEF vars, dbVars, procVars
  <1>2. ASSUME NEW p \in Procs, Work(p) PROVE IInv'
    <2>1. CASE \/ SendEmptyPull(p) \/ ChooseNew(p) \/ FoundRow(p) \/ Compare(p)
               \/ CheckRow(p) \/ CompareRow(p) \/ SendPull(p)
      <3>1. UNCHANGED <<files, inode, journal, store, fmap, pull>>
        BY <2>1 DEF SendEmptyPull, LowerFlag, ChooseNew, FoundRow, Compare,
                    CheckRow, CompareRow, SendPull, dbVars
      <3>2. /\ \A q \in Procs \ {p} : pc'[q] = pc[q] /\ topull'[q] = topull[q]
            /\ pc'[p] \in {"exit", "chk", "get", "rename", "cmp", "add", "rem",
                           "gap", "push"}
        BY <2>1 DEF SendEmptyPull, LowerFlag, ChooseNew, FoundRow, Compare,
                    CheckRow, CompareRow, SendPull, IInv, TypeInv, TypeOK
      <3> QED
        BY <1>0, <3>1, <3>2, Quiet
    <2>2. CASE OnExit(p) \/ RowVanished(p)
      BY <1>0, <2>2, GoneIInv DEF OnExit, RowVanished, Abort, dbVars
    <2>3. CASE Rename(p)
      BY <1>0, <2>3, RenameIInv
    <2>4. CASE CheckInode(p)
      BY <1>0, <2>4, CheckInodeIInv
    <2>5. CASE IncRef(p)
      BY <1>0, <2>5, IncRefIInv
    <2>6. CASE AddComplete(p)
      BY <1>0, <2>6, AddCompleteIInv
    <2>7. CASE CommitKnown(p)
      BY <1>0, <2>7, CommitKnownIInv
    <2>8. CASE RemoveRow(p)
      BY <1>0, <2>8, RemoveRowIInv
    <2>9. CASE AddPartial(p)
      BY <1>0, <2>9, AddPartialIInv
    <2>10. CASE PullGaps(p)
      BY <1>0, <2>10, PullGapsIInv
    <2>11. CASE RecordChunks(p)
      BY <1>0, <2>11, RecordChunksIInv
    <2>12. CASE AddInode(p)
      BY <1>0, <2>12, AddInodeIInv
    <2>13. CASE Complete(p)
      BY <1>0, <2>13, CompleteIInv
    <2>14. CASE CommitPulled(p)
      BY <1>0, <2>14, CommitPulledIInv
    <2>15. CASE ReadnAgain(p)
      BY <1>1, <2>15 DEF ReadnAgain
    <2> QED
      BY <1>2, <2>1, <2>2, <2>3, <2>4, <2>5, <2>6, <2>7, <2>8, <2>9, <2>10,
         <2>11, <2>12, <2>13, <2>14, <2>15 DEF Work
  <1>3. ASSUME NEW p \in Procs, Peer(p) PROVE IInv'
    <2>1. ASSUME NEW c \in Clients, NEW m \in {0, 1}, Start(p, c, m) PROVE IInv'
      <3>1. \A q \in Procs : pc'[q] = pc[q] \/ pc'[q] = "dirinfo"
        BY <2>1, StateFacts DEF Start
      <3> QED
        BY <1>0, <2>1, <3>1, Quiet DEF Start
    <2>2. ASSUME NEW d \in DirInfos, ReadDirInfo(p, d) PROVE IInv'
      <3>1. \A q \in Procs : pc'[q] = pc[q] \/ pc'[q] = "chk"
        BY <2>2, StateFacts DEF ReadDirInfo
      <3> QED
        BY <1>0, <2>2, <3>1, Quiet DEF ReadDirInfo, dbVars
    <2>3. CASE \/ BadDirInfo(p) \/ HangUp(p) \/ ReadFails(p)
               \/ CloseInsidePiece(p)
      <3>1. \A q \in Procs : pc'[q] = pc[q] \/ pc'[q] \in {"exit", "spin"}
        BY <2>3, StateFacts
        DEF BadDirInfo, LowerFlag, HangUp, ReadFails, CloseInsidePiece
      <3> QED
        BY <1>0, <2>3, <3>1, Quiet
        DEF BadDirInfo, LowerFlag, HangUp, ReadFails, CloseInsidePiece, dbVars
    <2>4. CASE Preallocate(p)
      BY <1>0, <2>4, PreallocateIInv
    <2>5. CASE WritePiece(p)
      BY <1>0, <2>5, WritePieceIInv
    <2> QED
      BY <1>3, <2>1, <2>2, <2>3, <2>4, <2>5 DEF Peer
  <1>4. ASSUME NEW p \in Procs, Kill(p) PROVE IInv'
    BY <1>0, <1>4, GoneIInv DEF Kill, dbVars
  <1> QED
    BY <1>1, <1>2, <1>3, <1>4 DEF Next

\* The inductive invariant holds of every run of any number of receiver()
\* processes, whatever their clients send and whenever one of them is killed.
THEOREM Invariant == Spec => []IInv
  BY InitIInv, IInvStep, PTL DEF Spec

-----------------------------------------------------------------------------
\* A content of table inode is on disk to its last piece (chkFileInodeExist,
\* which lets a client skip the upload, is never wrong about that).
THEOREM InodeStoredAlways == Spec => []InodeStored
  <1>1. IInv => InodeStored
    BY DEF IInv
  <1> QED
    BY <1>1, Invariant, PTL

\* A complete row, which senders offer, has an inode: whichever process, of
\* whichever user, completed it (addFile and completeFile).
THEOREM CompleteHasInodeAlways == Spec => []CompleteHasInode
  <1>1. IInv => CompleteHasInode
    BY DEF IInv
  <1> QED
    BY <1>1, Invariant, PTL

\* The pieces a row counts, which no later Pull asks for, are on disk: an
\* upload cut short by a hang-up or a kill resumes without a gap.
THEOREM ChunksOnDiskAlways == Spec => []ChunksOnDisk
  <1>1. IInv => ChunksOnDisk
    BY DEF IInv, TypeInv, ChunkBounds, RowsOnDisk, PrefixWritten, ChunksOnDisk
  <1> QED
    BY <1>1, Invariant, PTL

\* The journal names no content without an inode (journalCommit comes last).
THEOREM JournalHasInodeAlways == Spec => []JournalHasInode
  <1>1. IInv => JournalHasInode
    BY DEF IInv
  <1> QED
    BY <1>1, Invariant, PTL

-----------------------------------------------------------------------------
(* The catalog *)

\* The row of a name is offered with a content.
Offered(u, n, m) == HasRow(u, n) /\ files[u][n].complete /\ files[u][n].md5 = m

\* Offers in terms of the rows.
LEMMA OffersFacts ==
    /\ \A u \in Users, n \in Names, m \in Contents :
          [uid |-> u, name |-> n, md5 |-> m] \in Offers <=> Offered(u, n, m)
    /\ \A o \in Offers :
          /\ o \in Commit /\ Offered(o.uid, o.name, o.md5)
          /\ o = [uid |-> o.uid, name |-> o.name, md5 |-> o.md5]
    /\ \A o \in Commit : o.uid \in Users /\ o.name \in Names /\ o.md5 \in Contents
  BY DEF Offers, Offered, Commit

\* A step that leaves the offered rows as they are leaves the offers.
LEMMA SameOffers ==
    ASSUME \A u \in Users, n \in Names, m \in Contents :
               Offered(u, n, m)' <=> Offered(u, n, m)
    PROVE  Offers' = Offers
  BY DEF Offers, Offered, Commit

\* The catalog stands still where the three tables do.
LEMMA SameTables ==
    ASSUME UNCHANGED <<files, inode, journal>>
    PROVE  UNCHANGED C!catalogVars
  BY DEF C!catalogVars, Published, Offers, HasRow

\* Init has no content, no row and no commit.
LEMMA InitCatalog == Init => C!CatalogInit
  BY DEF Init, DBInit, C!CatalogInit, Published, Offers, HasRow, Commit

-----------------------------------------------------------------------------
\* addInodeFile publishes the content of the file just received.
LEMMA AddInodeCatalog ==
    ASSUME IInv, NEW p \in Procs, AddInode(p)
    PROVE  C!CatalogNext
  <1>1. Cached(p).md5 \in Contents
    BY StateFacts, CachedFacts DEF AddInode
  <1>2. inode \in [Contents -> Nat]
    BY DEF IInv, TypeInv, TypeOK, DBTypeOK
  <1>3. Published' = Published \cup {Cached(p).md5}
    BY <1>1, <1>2 DEF AddInode, addInodeFile, chkFileInodeExist, Published
  <1>4. Offers' = Offers
    BY DEF AddInode, Offers, HasRow
  <1> QED
    BY <1>1, <1>3, <1>4 DEF C!CatalogNext, C!Publish, AddInode

\* incRefCount counts a content that is published already.
LEMMA IncRefCatalog ==
    ASSUME IInv, NEW p \in Procs, IncRef(p)
    PROVE  UNCHANGED C!catalogVars
  <1>1. inode \in [Contents -> Nat]
    BY DEF IInv, TypeInv, TypeOK, DBTypeOK
  <1>2. \A m \in Contents : inode'[m] > 0 <=> inode[m] > 0
    BY <1>1 DEF IncRef, incRefCount, chkFileInodeExist
  <1> QED
    BY <1>2 DEF IncRef, C!catalogVars, Published, Offers, HasRow

\* A partial row is not offered.
LEMMA AddPartialCatalog ==
    ASSUME IInv, NEW p \in Procs, AddPartial(p)
    PROVE  UNCHANGED C!catalogVars
  <1> DEFINE e == Head(topull[p])
             row == NewRow(e, FALSE)
  <1>1. e \in Entry /\ e.name \in Names /\ User(p) \in Users /\ files \in Tables
    BY StateFacts, HeadFacts DEF AddPartial
  <1>2. row \in Row /\ ~row.complete
    BY <1>1, RowFacts
  <1>3. \A u \in Users, n \in Names :
            \/ files'[u][n] = files[u][n]
            \/ files[u][n] = NoRow /\ files'[u][n] = row
    BY <1>1 DEF AddPartial, addFile, chkFilePath, Tables
  <1>4. Offers' = Offers
    BY <1>2, <1>3, SameOffers DEF Offered, HasRow
  <1> QED
    BY <1>4 DEF AddPartial, C!catalogVars, Published

\* The chunks of a row are not part of what is offered.
LEMMA RecordChunksCatalog ==
    ASSUME IInv, NEW p \in Procs, RecordChunks(p)
    PROVE  UNCHANGED C!catalogVars
  <1> DEFINE m == Cached(p).md5
             k == NextPiece(p)
  <1>1. /\ m \in Contents /\ k \in 0..MaxSize
        /\ User(p) \in Users /\ files \in Tables
    BY StateFacts, CachedFacts DEF RecordChunks
  <1>2. \A u \in Users, n \in Names :
            \/ files'[u][n] = files[u][n]
            \/ /\ files[u][n] \in Row /\ files[u][n].md5 = m
               /\ files'[u][n] = WithChunks(files[u][n], k)
    BY <1>1, updateChunksRows DEF RecordChunks
  <1>3. \A u \in Users, n \in Names :
            \/ files'[u][n] = files[u][n]
            \/ /\ files[u][n] # NoRow /\ files'[u][n] # NoRow
               /\ files'[u][n].md5 = files[u][n].md5
               /\ files'[u][n].complete = files[u][n].complete
    BY <1>1, <1>2, RowFacts, NoRowAssumption
  <1>4. Offers' = Offers
    BY <1>3, SameOffers DEF Offered, HasRow
  <1> QED
    BY <1>4 DEF RecordChunks, C!catalogVars, Published

\* Files of one published content appear where there was none.
LEMMA NewOffers ==
    ASSUME NEW m \in Contents, inode[m] > 0, UNCHANGED <<inode, journal>>,
           \A u \in Users, n \in Names, x \in Contents :
               Offered(u, n, x) => Offered(u, n, x)',
           \A u \in Users, n \in Names, x \in Contents :
               Offered(u, n, x)' =>
                   \/ Offered(u, n, x)
                   \/ x = m /\ \A y \in Contents : ~Offered(u, n, y)
    PROVE  C!CatalogNext
  <1> DEFINE new == {o \in Offers' : o \notin Offers}
  <1>1. Offers \subseteq Offers'
    <2>1. ASSUME NEW o \in Offers PROVE o \in Offers'
      <3>1. o \in Commit /\ Offered(o.uid, o.name, o.md5)
        BY OffersFacts
      <3>2. Offered(o.uid, o.name, o.md5)'
        BY <3>1, OffersFacts
      <3> QED
        BY <3>1, <3>2 DEF Offers, Offered
    <2> QED
      BY <2>1
  <1>2. ASSUME NEW o \in new
        PROVE  /\ o \in [uid: Users, name: Names, md5: {m}]
               /\ \A q \in Offers : ~(q.uid = o.uid /\ q.name = o.name)
    <2>1. o \in Commit /\ Offered(o.uid, o.name, o.md5)'
      BY DEF Offers, Offered
    <2>2. ~Offered(o.uid, o.name, o.md5)
      BY <2>1 DEF Offers, Offered
    <2>3. o.md5 = m /\ \A y \in Contents : ~Offered(o.uid, o.name, y)
      BY <2>1, <2>2 DEF Commit
    <2> QED
      BY <2>1, <2>3, OffersFacts DEF Commit
  <1>3. new \in SUBSET [uid: Users, name: Names, md5: {m}]
    BY <1>2
  <1>4. Offers' = Offers \cup new
    BY <1>1
  <1>5. m \in Published /\ Published' = Published
    BY DEF Published
  <1>6. \A o \in Offers, e \in new : ~(o.uid = e.uid /\ o.name = e.name)
    BY <1>2
  <1> HIDE DEF new
  <1>7. C!Offer
    BY <1>3, <1>4, <1>5, <1>6 DEF C!Offer
  <1> QED
    BY <1>7 DEF C!CatalogNext, C!Offer

\* addFile of a known content: pass 2 saw its inode.
LEMMA AddCompleteCatalog ==
    ASSUME IInv, NEW p \in Procs, AddComplete(p)
    PROVE  C!CatalogNext
  <1> DEFINE e == Head(topull[p])
             row == NewRow(e, TRUE)
  <1>1. /\ e \in Entry /\ e.name \in Names /\ e.md5 \in Contents
        /\ User(p) \in Users /\ files \in Tables
    BY StateFacts, HeadFacts DEF AddComplete
  <1>2. row.md5 = e.md5 /\ inode[e.md5] > 0
    BY <1>1, RowFacts DEF IInv, InodeKept, AddComplete
  <1>3. \A u \in Users, n \in Names :
            \/ files'[u][n] = files[u][n]
            \/ files[u][n] = NoRow /\ files'[u][n] = row
    BY <1>1 DEF AddComplete, addFile, chkFilePath, Tables
  <1>4. \A u \in Users, n \in Names, x \in Contents :
            /\ Offered(u, n, x) => Offered(u, n, x)'
            /\ Offered(u, n, x)' =>
                  \/ Offered(u, n, x)
                  \/ x = e.md5 /\ \A y \in Contents : ~Offered(u, n, y)
    <2> HIDE DEF row
    <2> QED
      BY <1>2, <1>3 DEF Offered, HasRow
  <1>5. UNCHANGED <<inode, journal>>
    BY DEF AddComplete
  <1> HIDE DEF e
  <1> QED
    BY <1>1, <1>2, <1>4, <1>5, NewOffers

\* completeFile: the inode was added by the statement before, and a row that
\* is complete already stays what it is.
LEMMA CompleteCatalog ==
    ASSUME IInv, NEW p \in Procs, Complete(p)
    PROVE  C!CatalogNext
  <1> DEFINE m == Cached(p).md5
  <1>1. m \in Contents /\ inode[m] > 0 /\ files \in Tables
    BY StateFacts, CachedFacts DEF Complete, IInv, InodeKept
  <1>2. \A u \in Users, n \in Names :
            \/ files'[u][n] = files[u][n]
            \/ /\ files[u][n] \in Row /\ files[u][n].md5 = m
               /\ files'[u][n] = Completed(files[u][n])
    BY <1>1, completeFileRows DEF Complete
  <1>3. \A u \in Users, n \in Names :
            \/ files'[u][n] = files[u][n]
            \/ /\ files[u][n] # NoRow /\ files'[u][n] # NoRow
               /\ files[u][n].md5 = m /\ files'[u][n].md5 = m
               /\ files'[u][n].complete
    BY <1>1, <1>2, RowFacts, NoRowAssumption
  <1> QED
    BY <1>1, <1>3, NewOffers DEF Complete, Offered, HasRow

\* fileRename moves an offer to a name without a row, or a row that is not
\* offered, or nothing.
LEMMA RenameCatalog ==
    ASSUME IInv, NEW p \in Procs, Rename(p)
    PROVE  [C!CatalogNext]_C!catalogVars
  <1> DEFINE u == User(p)
             n == Head(todo[p]).name
             to == Old[n]
  <1>1. u \in Users /\ files \in Tables /\ n \in Names /\ to \in Names /\ to # n
    <2>1. Head(todo[p]) \in Entry
      BY ListFacts DEF IInv, TypeInv, TypeOK, WorkLists, Rename
    <2>2. n \in Announced
      BY <2>1 DEF Entry
    <2> QED
      BY <2>2, StateFacts, NameAssumption
  <1>2. CASE files[u][to] # NoRow
    <2>1. files' = files
      BY <1>2 DEF Rename, fileRename, chkFilePath
    <2> QED
      BY <2>1, SameTables DEF Rename
  <1>3. CASE files[u][to] = NoRow
    <2>1. /\ files'[u][to] = files[u][n] /\ files'[u][n] = NoRow
          /\ \A v \in Users, x \in Names :
                v # u \/ x \notin {n, to} => files'[v][x] = files[v][x]
      BY <1>1, <1>3 DEF Rename, fileRename, chkFilePath, Tables
    <2>2. CASE \A m \in Contents : ~Offered(u, n, m)
      <3>1. Offers' = Offers
        BY <1>1, <1>3, <2>1, <2>2, SameOffers, SMTT(30) DEF Offered, HasRow
      <3> QED
        BY <3>1 DEF Rename, C!catalogVars, Published
    <2>3. ASSUME NEW m \in Contents, Offered(u, n, m) PROVE C!CatalogNext
      <3> DEFINE o == [uid |-> u, name |-> n, md5 |-> m]
                 moved == [uid |-> u, name |-> to, md5 |-> m]
      <3>1. o \in Offers /\ \A e \in Offers : ~(e.uid = u /\ e.name = to)
        BY <1>1, <1>3, <2>3, OffersFacts DEF Offered, HasRow
      <3>2. ASSUME NEW e \in Commit
            PROVE  e \in Offers' <=> e \in (Offers \ {o}) \cup {moved}
        <4>1. e.uid \in Users /\ e.name \in Names /\ e.md5 \in Contents
              /\ e = [uid |-> e.uid, name |-> e.name, md5 |-> e.md5]
          BY DEF Commit
        <4>2. e \in Offers' <=> Offered(e.uid, e.name, e.md5)'
          BY DEF Offers, Offered
        <4>3. e \in Offers <=> Offered(e.uid, e.name, e.md5)
          BY DEF Offers, Offered
        <4>4. CASE e.uid # u \/ e.name \notin {n, to}
          BY <2>1, <4>1, <4>2, <4>3, <4>4 DEF Offered, HasRow
        <4>5. CASE e.uid = u /\ e.name = n
          <5>1. e \notin Offers'
            BY <2>1, <4>2, <4>5 DEF Offered, HasRow
          <5>2. e \in Offers => e = o
            BY <2>3, <4>1, <4>3, <4>5 DEF Offered
          <5> QED
            BY <1>1, <4>5, <5>1, <5>2
        <4>6. CASE e.uid = u /\ e.name = to
          <5>1. e \in Offers' <=> e.md5 = m
            BY <2>1, <2>3, <4>2, <4>6 DEF Offered, HasRow
          <5>2. e \notin Offers
            BY <1>3, <4>3, <4>6 DEF Offered, HasRow
          <5> QED
            BY <4>1, <4>6, <5>1, <5>2
        <4> QED
          BY <4>4, <4>5, <4>6
      <3>3. Offers' = (Offers \ {o}) \cup {moved}
        <4>1. Offers \subseteq Commit /\ Offers' \subseteq Commit
          BY DEF Offers
        <4>2. moved \in Commit
          BY <1>1 DEF Commit
        <4> QED
          BY <3>2, <4>1, <4>2
      <3>4. UNCHANGED <<Published, journal>>
        BY DEF Rename, Published
      <3> QED
        BY <1>1, <3>1, <3>3, <3>4 DEF C!CatalogNext, C!MoveOffer
    <2> QED
      BY <2>2, <2>3
  <1> QED
    BY <1>2, <1>3

\* removeFile withdraws the name, of every user.
LEMMA RemoveRowCatalog ==
    ASSUME IInv, NEW p \in Procs, RemoveRow(p)
    PROVE  C!CatalogNext
  <1> DEFINE n == Head(topull[p]).name
  <1>1. n \in Names /\ files \in Tables
    BY StateFacts, HeadFacts DEF RemoveRow
  <1>2. \A u \in Users, x \in Names :
            files'[u][x] = IF x = n THEN NoRow ELSE files[u][x]
    BY <1>1 DEF RemoveRow, removeFile, Tables
  <1>3. Offers' = {o \in Offers : o.name # n}
    BY <1>2 DEF Offers, HasRow, Commit
  <1> QED
    BY <1>1, <1>3 DEF C!CatalogNext, C!Withdraw, RemoveRow, Published

\* journalCommit comes after the content is published.
LEMMA CommitCatalog ==
    ASSUME UNCHANGED <<files, inode>>, NEW u \in Users, NEW n \in Names,
           NEW m \in Contents, inode[m] > 0, journalCommit(u, n, m)
    PROVE  C!CatalogNext
  <1>1. [uid |-> u, name |-> n, md5 |-> m] \in C!File /\ m \in Published
    BY DEF C!File, Published
  <1>2. UNCHANGED <<Published, Offers>>
    BY DEF Published, Offers, HasRow
  <1> QED
    BY <1>1, <1>2 DEF journalCommit, C!CatalogNext, C!Record

-----------------------------------------------------------------------------
\* A step of the processes is a step of the catalog or leaves it alone.
LEMMA StepCatalog == IInv /\ [Next]_vars => [C!CatalogNext]_C!catalogVars
  <1> SUFFICES ASSUME IInv, [Next]_vars PROVE [C!CatalogNext]_C!catalogVars
    OBVIOUS
  <1>1. CASE UNCHANGED vars
    BY <1>1, SameTables DEF vars, dbVars
  <1>2. ASSUME NEW p \in Procs, Work(p) PROVE [C!CatalogNext]_C!catalogVars
    <2>1. CASE \/ SendEmptyPull(p) \/ OnExit(p) \/ ChooseNew(p) \/ FoundRow(p)
               \/ Compare(p) \/ RowVanished(p) \/ CheckInode(p) \/ CheckRow(p)
               \/ CompareRow(p) \/ PullGaps(p) \/ SendPull(p) \/ ReadnAgain(p)
      BY <2>1, SameTables
      DEF SendEmptyPull, LowerFlag, OnExit, ChooseNew, FoundRow, Compare,
          RowVanished, Abort, CheckInode, CheckRow, CompareRow, PullGaps,
          SendPull, ReadnAgain, vars, dbVars
    <2>2. CASE Rename(p)
      BY <2>2, RenameCatalog
    <2>3. CASE IncRef(p) \/ AddPartial(p) \/ RecordChunks(p)
      BY <2>3, IncRefCatalog, AddPartialCatalog, RecordChunksCatalog
    <2>4. CASE AddComplete(p) \/ RemoveRow(p) \/ AddInode(p) \/ Complete(p)
      BY <2>4, AddCompleteCatalog, RemoveRowCatalog, AddInodeCatalog,
         CompleteCatalog
    <2>5. CASE CommitKnown(p)
      <3>1. /\ Head(topull[p]).name \in Names /\ Head(topull[p]).md5 \in Contents
            /\ User(p) \in Users
        BY <2>5, StateFacts, HeadFacts DEF CommitKnown
      <3>2. inode[Head(topull[p]).md5] > 0
        BY <2>5 DEF IInv, InodeKept, CommitKnown
      <3> QED
        BY <2>5, <3>1, <3>2, CommitCatalog DEF CommitKnown
    <2>6. CASE CommitPulled(p)
      <3>1. NextName(p) \in Names /\ Cached(p).md5 \in Contents /\ User(p) \in Users
        BY <2>6, StateFacts, CachedFacts DEF CommitPulled
      <3>2. inode[Cached(p).md5] > 0
        BY <2>6 DEF IInv, InodeKept, CommitPulled
      <3> QED
        BY <2>6, <3>1, <3>2, CommitCatalog DEF CommitPulled
    <2> QED
      BY <1>2, <2>1, <2>2, <2>3, <2>4, <2>5, <2>6 DEF Work
  <1>3. ASSUME NEW p \in Procs, Peer(p) \/ Kill(p)
        PROVE  [C!CatalogNext]_C!catalogVars
    <2>1. UNCHANGED <<files, inode, journal>>
      BY <1>3 DEF Peer, Kill, Start, ReadDirInfo, BadDirInfo, LowerFlag,
                  Preallocate, WritePiece, HangUp, ReadFails, CloseInsidePiece,
                  dbVars
    <2> QED
      BY <2>1, SameTables
  <1> QED
    BY <1>1, <1>2, <1>3 DEF Next

\* The receiver() processes of all users implement the catalog: contents are
\* only added, files are offered and recorded after their content, and an
\* offered file is renamed or withdrawn before its name offers another one.
THEOREM CatalogImplemented == Spec => ImplementsCatalog
  <1>1. Init => C!CatalogInit
    BY InitCatalog
  <1>2. IInv /\ [Next]_vars => [C!CatalogNext]_C!catalogVars
    BY StepCatalog
  <1> QED
    BY <1>1, <1>2, Invariant, PTL DEF Spec, ImplementsCatalog, C!CatalogSpec

=============================================================================
