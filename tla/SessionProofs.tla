--------------------------- MODULE SessionProofs ---------------------------
(***************************************************************************)
(* What holds of the sessions of receiver(), beyond the tables.            *)
(*                                                                         *)
(* First, of any number of processes and machines at once (HistorySpec):   *)
(* StoreMatchesMd5 and ReplacesOnlyOlder.  A session finds the row it is   *)
(* about to use as it left it, or gone, unless another session of its user *)
(* replaced it.  So the content pass 2 caches for a name is the one that   *)
(* was announced, but for the names that were overtaken, and the pieces it *)
(* writes to the file of that content are its pieces; and a row that pass  *)
(* 1 compared is not newer when pass 2 removes it, but for those touched.  *)
(*                                                                         *)
(* Then, of a session that meets no other of whatever user: what it pulls  *)
(* it completes (PulledIsComplete), what was announced is not behind when  *)
(* it starts to read pieces (NothingForgotten) and, without kills, no row  *)
(* is left that pass 2 would never complete (StuckOnlyByKill).  The        *)
(* invariant follows a file through the session: it is in one place of one *)
(* list (ListedOnce) until its row is as it was announced or newer         *)
(* (SettledOrListed), and from its place in fmap on its row stays          *)
(* (CachedRowStays).                                                       *)
(***************************************************************************)
EXTENDS ReceiverProofs, UploadHistory

Pass1 == {"idle", "dirinfo", "chk", "get", "rename"}
Pass2 == {"ino", "inc", "dup", "log", "row", "cmp", "rem", "add", "gap", "push",
          "chunks", "inode", "complete", "commit"}

\* An entry is what was announced for its name.
ListsAnnounced ==
    \A p \in Procs :
        /\ \A i \in DOMAIN todo[p] : folder[p][todo[p][i].name] = todo[p][i]
        /\ \A i \in DOMAIN topull[p] : folder[p][topull[p][i].name] = topull[p][i]

\* Rows are cached in pass 2, which begins when pass 1 has seen every entry.
CachedInPass2 ==
    \A p \in Procs :
        /\ pc[p] \in Pass1 => fmap[p] = NoFiles
        /\ pc[p] \in Pass2 => todo[p] = <<>>

\* A cached row has the content that was announced.
CachedRight(p, n) ==
    fmap[p][n] # NoRow =>
        folder[p][n] # NoRow /\ fmap[p][n].md5 = folder[p][n].md5

\* The row pass 2 is about to add is not there; the row it is about to cache
\* has the content of the entry.
Asked(p) ==
    LET e == Head(topull[p])
    IN  /\ pc[p] = "add" => ~HasRow(User(p), e.name)
        /\ pc[p] = "gap" /\ HasRow(User(p), e.name) =>
              files[User(p)][e.name].md5 = e.md5

\* Only an initial session renames.
RenamesInitial == \A p \in Procs : pc[p] = "rename" => mode[p] = 0

\* The row of a file that was chosen is not newer.
NotOlder(p, e) ==
    HasRow(User(p), e.name) /\ ~RenamedTo(p, e.name) =>
        files[User(p)][e.name].modtime <= e.modtime

\* Those that other sessions of the user replaced are excepted.
CachedUnlessOvertaken ==
    \A p \in Procs : \A n \in Names \ overtaken[p] : CachedRight(p, n)

AskedUnlessOvertaken ==
    \A p \in Procs :
        pc[p] \in {"add", "gap"} /\ Head(topull[p]).name \notin overtaken[p] =>
            Asked(p)

NotOlderUnlessTouched ==
    \A p \in Procs : \A i \in DOMAIN topull[p] :
        topull[p][i].name \notin touched[p] => NotOlder(p, topull[p][i])

\* A piece of a store file that is written is that piece of its content.
StoreOwn ==
    \A m \in Contents \ spoilt, i \in 1..MaxSize :
        Written(m, i) => store[m][i] = <<m, i>>

HistoryInv ==
    /\ IInv /\ HistoryTypeOK
    /\ ListsAnnounced /\ CachedInPass2 /\ RenamesInitial
    /\ CachedUnlessOvertaken /\ AskedUnlessOvertaken /\ NotOlderUnlessTouched
    /\ StoreOwn

-----------------------------------------------------------------------------
USE DEF At, Goto

Step(q) == Work(q) \/ Peer(q) \/ Kill(q)

\* The memory of a process.
SameMemory(p) ==
    /\ pc'[p] = pc[p] /\ cid'[p] = cid[p] /\ mode'[p] = mode[p]
    /\ folder'[p] = folder[p] /\ todo'[p] = todo[p] /\ topull'[p] = topull[p]
    /\ pull'[p] = pull[p] /\ fmap'[p] = fmap[p]

\* A step of a process leaves the memory of the others alone.
LEMMA OthersMemory ==
    ASSUME TypeOK, NEW q \in Procs, Step(q), NEW p \in Procs, p # q
    PROVE  SameMemory(p)
  <1> USE DEF SameMemory, TypeOK
  <1>1. CASE Gone(q)
    BY <1>1 DEF Gone
  <1>2. CASE Kill(q) \/ OnExit(q) \/ RowVanished(q)
    BY <1>1, <1>2 DEF Kill, OnExit, RowVanished, Abort
  <1>3. CASE LowerFlag(q)
    BY <1>3 DEF LowerFlag
  <1>4. CASE SendEmptyPull(q) \/ BadDirInfo(q) \/ ReadFails(q)
    BY <1>3, <1>4 DEF SendEmptyPull, BadDirInfo, ReadFails
  <1>5. CASE ChooseNew(q) \/ FoundRow(q) \/ Compare(q) \/ Rename(q)
    BY <1>5 DEF ChooseNew, FoundRow, Compare, Rename
  <1>6. CASE \/ CheckInode(q) \/ IncRef(q) \/ AddComplete(q) \/ CommitKnown(q)
             \/ CheckRow(q) \/ CompareRow(q) \/ RemoveRow(q) \/ AddPartial(q)
    BY <1>6 DEF CheckInode, IncRef, AddComplete, CommitKnown, CheckRow,
                CompareRow, RemoveRow, AddPartial, NextFile
  <1>7. CASE PullGaps(q) \/ SendPull(q)
    BY <1>7 DEF PullGaps, SendPull, NextFile
  <1>8. CASE \/ RecordChunks(q) \/ AddInode(q) \/ Complete(q) \/ CommitPulled(q)
             \/ ReadnAgain(q) \/ Preallocate(q) \/ WritePiece(q)
    BY <1>8 DEF RecordChunks, AddInode, Complete, CommitPulled, ReadnAgain,
                Preallocate, WritePiece, vars, procVars
  <1>9. CASE HangUp(q) \/ CloseInsidePiece(q)
    BY <1>9 DEF HangUp, CloseInsidePiece
  <1>10. CASE \E c \in Clients, m \in {0, 1} : Start(q, c, m)
    BY <1>10 DEF Start
  <1>11. CASE \E d \in DirInfos : ReadDirInfo(q, d)
    BY <1>11 DEF ReadDirInfo
  <1> QED
    BY <1>2, <1>4, <1>5, <1>6, <1>7, <1>8, <1>9, <1>10, <1>11
    DEF Step, Work, Peer

\* A step of a process changes the rows of another user in two ways only: it
\* removes some, and it completes some or counts other chunks.
LEMMA OthersRows ==
    ASSUME IInv, NEW q \in Procs, Step(q), NEW u \in Users, u # User(q),
           NEW n \in Names, files'[u][n] # NoRow
    PROVE  /\ files[u][n] # NoRow
           /\ files'[u][n].md5 = files[u][n].md5
           /\ files'[u][n].modtime = files[u][n].modtime
  <1>1. files \in Tables
    BY StateFacts
  <1>2. CASE UNCHANGED files
    BY <1>2
  <1>3. CASE Rename(q)
    BY <1>1, <1>3, StateFacts DEF Rename, fileRename, Tables
  <1>4. CASE AddComplete(q)
    BY <1>1, <1>4, StateFacts DEF AddComplete, addFile, Tables
  <1>5. CASE AddPartial(q)
    BY <1>1, <1>5, StateFacts DEF AddPartial, addFile, Tables
  <1>6. CASE RemoveRow(q)
    BY <1>1, <1>6, StateFacts, HeadFacts, removeFileRows DEF RemoveRow
  <1>7. CASE Complete(q)
    <2>1. \/ files'[u][n] = files[u][n]
          \/ files[u][n] \in Row /\ files'[u][n] = Completed(files[u][n])
      BY <1>1, <1>7, StateFacts, CachedFacts, completeFileRows DEF Complete
    <2> QED
      BY <2>1, NoRowAssumption DEF Completed, WithChunks, Row
  <1>8. CASE RecordChunks(q)
    BY <1>1, <1>8, StateFacts DEF RecordChunks, updateChunks, Tables
  <1>9. CASE \E c \in Clients, m \in {0, 1} : Start(q, c, m)
    BY <1>2, <1>9 DEF Start
  <1>10. CASE \E d \in DirInfos : ReadDirInfo(q, d)
    BY <1>2, <1>10 DEF ReadDirInfo, dbVars
  <1>11. CASE \/ Kill(q) \/ OnExit(q) \/ RowVanished(q)
              \/ SendEmptyPull(q) \/ BadDirInfo(q) \/ ReadFails(q)
    BY <1>2, <1>11 DEF Kill, OnExit, RowVanished, Abort, SendEmptyPull,
                       BadDirInfo, ReadFails, LowerFlag, dbVars
  <1>12. CASE \/ ChooseNew(q) \/ FoundRow(q) \/ Compare(q) \/ CheckInode(q)
              \/ IncRef(q) \/ CommitKnown(q) \/ CheckRow(q) \/ CompareRow(q)
              \/ PullGaps(q) \/ SendPull(q) \/ AddInode(q) \/ CommitPulled(q)
              \/ ReadnAgain(q) \/ Preallocate(q) \/ WritePiece(q)
              \/ HangUp(q) \/ CloseInsidePiece(q)
    BY <1>2, <1>12
    DEF ChooseNew, FoundRow, Compare, CheckInode, IncRef, CommitKnown,
        CheckRow, CompareRow, PullGaps, SendPull, AddInode, CommitPulled,
        ReadnAgain, Preallocate, WritePiece, HangUp, CloseInsidePiece, dbVars, vars
  <1> QED
    BY <1>3, <1>4, <1>5, <1>6, <1>7, <1>8, <1>9, <1>10, <1>11, <1>12
    DEF Step, Work, Peer

\* The statements that change table inode add to it.
LEMMA InodeSteps ==
    ASSUME IInv, NEW q \in Procs, Step(q)
    PROVE  /\ Remains
           /\ pc[q] # "inode" => \A m \in Contents : inode'[m] > 0 => inode[m] > 0
  <1>0. inode \in [Contents -> Nat]
    BY DEF IInv, TypeInv, TypeOK, DBTypeOK
  <1>1. CASE IncRef(q)
    <2>1. Head(topull[q]).md5 \in Contents
      BY <1>1, StateFacts, HeadFacts DEF IncRef
    <2> QED
      BY <1>0, <1>1, <2>1 DEF IncRef, incRefCount, chkFileInodeExist, Remains
  <1>2. CASE AddInode(q)
    <2>1. Cached(q).md5 \in Contents
      BY <1>2, StateFacts, CachedFacts DEF AddInode
    <2> QED
      BY <1>0, <1>2, <2>1 DEF AddInode, addInodeFile, chkFileInodeExist, Remains
  <1>3. CASE UNCHANGED inode
    BY <1>3 DEF Remains
  <1> QED
    BY <1>1, <1>2, <1>3
    DEF Step, Work, Peer, Kill, Start, ReadDirInfo, SendEmptyPull, LowerFlag,
        OnExit, ChooseNew, FoundRow, Compare, Rename, RowVanished, Abort,
        CheckInode, AddComplete, CommitKnown, CheckRow, CompareRow, RemoveRow,
        AddPartial, PullGaps, SendPull, RecordChunks, Complete, CommitPulled,
        ReadnAgain, BadDirInfo, Preallocate, WritePiece, HangUp, ReadFails,
        CloseInsidePiece, dbVars, vars

-----------------------------------------------------------------------------
(* A session and its own memory *)

\* The items of a list that is appended to.
LEMMA AppendFacts ==
    ASSUME NEW S, NEW s \in Seq(S), NEW e \in S
    PROVE  /\ DOMAIN Append(s, e) = 1..(Len(s) + 1)
           /\ \A i \in DOMAIN s : i \in 1..Len(s) /\ Append(s, e)[i] = s[i]
           /\ Append(s, e)[Len(s) + 1] = e
           /\ \A i \in DOMAIN Append(s, e) : i \in DOMAIN s \/ i = Len(s) + 1
  OBVIOUS

\* The entries that leave a list are the first, and go to the end of another.
LEMMA ListsStep ==
    ASSUME IInv, ListsAnnounced, NEW q \in Procs, Step(q)
    PROVE  ListsAnnounced'
  <1>0. TypeOK /\ WorkLists
    BY DEF IInv, TypeInv
  <1>1. SUFFICES
          /\ \A i \in DOMAIN todo'[q] : folder'[q][todo'[q][i].name] = todo'[q][i]
          /\ \A i \in DOMAIN topull'[q] :
                folder'[q][topull'[q][i].name] = topull'[q][i]
    BY <1>0, OthersMemory DEF ListsAnnounced, SameMemory
  <1>2. todo[q] \in Seq(Entry) /\ topull[q] \in Seq(Entry)
    BY <1>0 DEF TypeOK
  <1>3. CASE UNCHANGED <<folder, todo, topull>>
    BY <1>3 DEF ListsAnnounced
  <1>4. CASE Gone(q)
    BY <1>0, <1>4 DEF Gone, TypeOK
  <1>5. CASE ChooseNew(q)
    BY <1>0, <1>2, <1>5 DEF ChooseNew, ListsAnnounced, TypeOK
  <1>6. CASE Compare(q)
    <2>1. todo[q] # <<>>
      BY <1>0, <1>6 DEF WorkLists, Compare
    <2>2. folder' = folder
      BY <1>6 DEF Compare
    <2>3. todo'[q] = todo[q] \/ todo'[q] = Tail(todo[q])
      BY <1>0, <1>6 DEF Compare, TypeOK
    <2>4. topull'[q] = topull[q] \/ topull'[q] = Append(topull[q], Head(todo[q]))
      BY <1>0, <1>6 DEF Compare, TypeOK
    <2>5. Head(todo[q]) \in Entry /\ folder[q][Head(todo[q]).name] = Head(todo[q])
      BY <1>2, <2>1, ListFacts DEF ListsAnnounced
    <2>6. \A i \in DOMAIN todo'[q] : folder'[q][todo'[q][i].name] = todo'[q][i]
      <3>1. CASE todo'[q] = todo[q]
        BY <2>2, <3>1 DEF ListsAnnounced
      <3>2. CASE todo'[q] = Tail(todo[q])
        BY <1>2, <2>1, <2>2, <3>2, ListFacts DEF ListsAnnounced
      <3> QED
        BY <2>3, <3>1, <3>2
    <2>7. \A i \in DOMAIN topull'[q] :
              folder'[q][topull'[q][i].name] = topull'[q][i]
      <3>1. CASE topull'[q] = topull[q]
        BY <2>2, <3>1 DEF ListsAnnounced
      <3>2. CASE topull'[q] = Append(topull[q], Head(todo[q]))
        BY <1>2, <2>2, <2>5, <3>2, AppendFacts DEF ListsAnnounced
      <3> QED
        BY <2>4, <3>1, <3>2
    <2> QED
      BY <2>6, <2>7
  <1>7. CASE Rename(q)
    <2>1. todo[q] # <<>> /\ todo'[q] = Tail(todo[q])
      BY <1>0, <1>7 DEF Rename, WorkLists, TypeOK
    <2>2. folder' = folder /\ topull' = topull
      BY <1>7 DEF Rename
    <2> QED
      BY <1>2, <2>1, <2>2, ListFacts DEF ListsAnnounced
  <1>8. CASE CommitKnown(q) \/ PullGaps(q)
    <2>1. topull[q] # <<>> /\ topull'[q] = Tail(topull[q])
      BY <1>0, <1>8 DEF CommitKnown, PullGaps, NextFile, WorkLists, TypeOK
    <2>2. folder' = folder /\ todo' = todo
      BY <1>8 DEF CommitKnown, PullGaps
    <2> QED
      BY <1>2, <2>1, <2>2 DEF ListsAnnounced
  <1>9. ASSUME NEW d \in DirInfos, ReadDirInfo(q, d)
        PROVE  /\ \A i \in DOMAIN todo'[q] :
                      folder'[q][todo'[q][i].name] = todo'[q][i]
               /\ \A i \in DOMAIN topull'[q] :
                      folder'[q][topull'[q][i].name] = topull'[q][i]
    <2>1. topull'[q] = <<>> /\ todo'[q] = d
      BY <1>0, <1>9 DEF ReadDirInfo, WorkLists, TypeOK
    <2>2. ASSUME NEW i \in DOMAIN d PROVE folder'[q][d[i].name] = d[i]
      <3>1. d[i].name \in Names
        BY NameAssumption DEF DirInfos, Entry
      <3>2. folder'[q][d[i].name] = d[CHOOSE j \in DOMAIN d : d[j].name = d[i].name]
        BY <1>0, <1>9, <3>1 DEF ReadDirInfo, TypeOK
      <3>3. (CHOOSE j \in DOMAIN d : d[j].name = d[i].name) = i
        BY DEF DirInfos
      <3> QED
        BY <3>2, <3>3
    <2> QED
      BY <2>1, <2>2
  <1> QED
    BY <1>3, <1>4, <1>5, <1>6, <1>7, <1>8, <1>9
    DEF Step, Work, Peer, Start, SendEmptyPull, LowerFlag, OnExit, FoundRow,
        RowVanished, Abort, CheckInode, IncRef, AddComplete, CheckRow,
        CompareRow, RemoveRow, AddPartial, SendPull, RecordChunks, AddInode,
        Complete, CommitPulled, ReadnAgain, BadDirInfo, Preallocate, WritePiece,
        HangUp, ReadFails, CloseInsidePiece, Kill, vars, procVars

\* Pass 2 starts when pass 1 is done, and only pass 2 caches rows.
LEMMA CachedInPass2Step ==
    ASSUME IInv, CachedInPass2, NEW q \in Procs, Step(q)
    PROVE  CachedInPass2'
  <1>0. TypeOK /\ WorkLists
    BY DEF IInv, TypeInv
  <1>1. SUFFICES /\ pc'[q] \in Pass1 => fmap'[q] = NoFiles
                 /\ pc'[q] \in Pass2 => todo'[q] = <<>>
    BY <1>0, OthersMemory DEF CachedInPass2, SameMemory
  <1>2. CASE Gone(q)
    BY <1>0, <1>2 DEF Gone, TypeOK, Pass1, Pass2
  <1>3. CASE \/ \E c \in Clients, m \in {0, 1} : Start(q, c, m)
             \/ \E d \in DirInfos : ReadDirInfo(q, d)
             \/ ChooseNew(q) \/ FoundRow(q) \/ Compare(q) \/ Rename(q)
    <2>1. pc[q] \in Pass1 /\ fmap' = fmap /\ pc'[q] \notin Pass2
      BY <1>0, <1>3
      DEF Start, ReadDirInfo, ChooseNew, FoundRow, Compare, Rename, TypeOK,
          Pass1, Pass2
    <2> QED
      BY <2>1 DEF CachedInPass2
  <1>4. CASE LowerFlag(q) \/ HangUp(q) \/ CloseInsidePiece(q)
    BY <1>0, <1>4 DEF LowerFlag, HangUp, CloseInsidePiece, TypeOK, Pass1, Pass2
  <1>5. CASE CheckInode(q)
    BY <1>0, <1>5 DEF CheckInode, Ready2, CachedInPass2, TypeOK, Pass1, Pass2
  <1>6. CASE \/ IncRef(q) \/ AddComplete(q) \/ CommitKnown(q)
             \/ CheckRow(q) \/ CompareRow(q) \/ RemoveRow(q) \/ AddPartial(q)
             \/ PullGaps(q) \/ SendPull(q) \/ RecordChunks(q) \/ AddInode(q)
             \/ Complete(q) \/ CommitPulled(q) \/ WritePiece(q)
    <2>1. pc[q] \in Pass2 /\ todo' = todo
      BY <1>6
      DEF IncRef, AddComplete, CommitKnown, CheckRow, CompareRow, RemoveRow,
          AddPartial, PullGaps, SendPull, RecordChunks, AddInode, Complete,
          CommitPulled, WritePiece, Receiving, Pass2
    <2>2. pc'[q] \notin Pass1
      BY <1>0, <1>6
      DEF IncRef, AddComplete, CommitKnown, CheckRow, CompareRow, RemoveRow,
          AddPartial, PullGaps, SendPull, RecordChunks, AddInode, Complete,
          CommitPulled, WritePiece, AfterPiece, TypeOK, Pass1
    <2> QED
      BY <2>1, <2>2 DEF CachedInPass2
  <1>7. CASE ReadnAgain(q) \/ Preallocate(q)
    BY <1>7 DEF ReadnAgain, Preallocate, vars, procVars, CachedInPass2
  <1> QED
    BY <1>2, <1>3, <1>4, <1>5, <1>6, <1>7
    DEF Step, Work, Peer, SendEmptyPull, OnExit, RowVanished, Abort, BadDirInfo,
        ReadFails, Kill

\* PullGaps caches the row of an entry; RecordChunks only counts its pieces.
LEMMA CachedStep ==
    ASSUME IInv, ListsAnnounced, CachedInPass2, NEW q \in Procs, Step(q),
           NEW n \in Names, CachedRight(q, n),
           pc[q] = "gap" /\ n = Head(topull[q]).name => Asked(q)
    PROVE  CachedRight(q, n)'
  <1>0. TypeOK /\ WorkLists
    BY DEF IInv, TypeInv
  <1>1. SUFFICES ASSUME fmap'[q][n] # NoRow
                 PROVE  folder'[q][n] # NoRow /\ fmap'[q][n].md5 = folder'[q][n].md5
    BY DEF CachedRight
  <1>2. CASE UNCHANGED <<folder, fmap>>
    BY <1>1, <1>2 DEF CachedRight
  <1>3. CASE Gone(q)
    BY <1>0, <1>1, <1>3 DEF Gone, TypeOK, NoFiles
  <1>4. CASE \E d \in DirInfos : ReadDirInfo(q, d)
    BY <1>1, <1>4 DEF ReadDirInfo, CachedInPass2, Pass1, NoFiles
  <1>5. CASE PullGaps(q)
    <2> DEFINE e == Head(topull[q])
    <2>1. /\ e \in Entry /\ e.name \in Names
          /\ folder[q][e.name] = e /\ e # NoRow
      BY <1>0, <1>5, StateFacts, HeadFacts, ListFacts, NoEntryAssumption
      DEF PullGaps, ListsAnnounced, TypeOK
    <2>3. /\ folder' = folder
          /\ fmap'[q] = [fmap[q] EXCEPT ![e.name] = files[User(q)][e.name]]
          /\ fmap[q] \in [Names -> Row \cup {NoRow}]
      BY <1>0, <1>5 DEF PullGaps, TypeOK
    <2>4. CASE n = e.name
      <3>1. files[User(q)][e.name] # NoRow /\ files[User(q)][e.name].md5 = e.md5
        BY <1>5, <2>4 DEF PullGaps, Asked, HasRow
      <3> QED
        BY <2>1, <2>3, <2>4, <3>1
    <2>5. CASE n # e.name
      BY <1>1, <2>1, <2>3, <2>5 DEF CachedRight
    <2> QED
      BY <2>4, <2>5
  <1>6. CASE RecordChunks(q)
    <2>1. NextName(q) \in Names /\ Cached(q) \in Row /\ NextPiece(q) \in 0..MaxSize
      BY <1>6, StateFacts, CachedFacts DEF RecordChunks
    <2>2. /\ folder' = folder
          /\ fmap'[q] = [fmap[q] EXCEPT ![NextName(q)] =
                             WithChunks(Cached(q), NextPiece(q))]
          /\ fmap[q] \in [Names -> Row \cup {NoRow}]
      BY <1>0, <1>6 DEF RecordChunks, Cached, TypeOK
    <2>3. CASE n = NextName(q)
      <3>1. fmap'[q][n].md5 = Cached(q).md5 /\ Cached(q) # NoRow
        BY <2>1, <2>2, <2>3, RowFacts, NoRowAssumption
      <3> QED
        BY <2>2, <2>3, <3>1 DEF CachedRight, Cached
    <2>4. CASE n # NextName(q)
      BY <1>1, <2>2, <2>4 DEF CachedRight
    <2> QED
      BY <2>3, <2>4
  <1> QED
    BY <1>2, <1>3, <1>4, <1>5, <1>6
    DEF Step, Work, Peer, Start, SendEmptyPull, LowerFlag, OnExit, ChooseNew,
        FoundRow, Compare, Rename, RowVanished, Abort, CheckInode, IncRef,
        AddComplete, CommitKnown, CheckRow, CompareRow, RemoveRow, AddPartial,
        SendPull, AddInode, Complete, CommitPulled, ReadnAgain, BadDirInfo,
        Preallocate, WritePiece, HangUp, ReadFails, CloseInsidePiece, Kill, vars,
        procVars

\* CheckRow, CompareRow and RemoveRow find or leave the row as it is asked.
LEMMA AskedStep ==
    ASSUME IInv, NEW q \in Procs, Step(q), pc[q] = "add" => Asked(q),
           pc'[q] \in {"add", "gap"}
    PROVE  /\ Asked(q)'
           /\ User(q)' = User(q) /\ topull'[q] = topull[q]
  <1>0. TypeOK /\ files \in Tables
    BY StateFacts DEF IInv, TypeInv
  <1>1. CASE CheckRow(q)
    BY <1>0, <1>1 DEF CheckRow, TypeOK, Asked, chkFilePath, HasRow, User, dbVars
  <1>2. CASE CompareRow(q)
    BY <1>0, <1>2 DEF CompareRow, TypeOK, Asked, HasRow, User, dbVars
  <1>3. CASE RemoveRow(q)
    <2>1. User(q) \in Users /\ topull[q] # <<>> /\ Head(topull[q]).name \in Names
      BY <1>3, StateFacts, HeadFacts DEF RemoveRow
    <2>2. files'[User(q)][Head(topull[q]).name] = NoRow
      BY <1>0, <1>3, <2>1 DEF RemoveRow, removeFile, Tables
    <2> QED
      BY <1>0, <1>3, <2>2 DEF RemoveRow, TypeOK, Asked, HasRow, User
  <1>4. CASE AddPartial(q)
    <2> DEFINE e == Head(topull[q])
    <2>1. User(q) \in Users /\ e \in Entry /\ e.name \in Names
      BY <1>4, StateFacts, HeadFacts DEF AddPartial
    <2>2. files[User(q)][e.name] = NoRow
      BY <1>4 DEF AddPartial, Asked, HasRow
    <2>3. files'[User(q)][e.name] = NewRow(e, FALSE)
      BY <1>0, <1>4, <2>1, <2>2 DEF AddPartial, addFile, chkFilePath, Tables
    <2>4. files'[User(q)][e.name].md5 = e.md5
      BY <2>3 DEF NewRow
    <2> QED
      BY <1>0, <1>4, <2>4 DEF AddPartial, TypeOK, Asked, User
  <1>5. ~ReadnAgain(q) /\ ~Preallocate(q)
    BY DEF ReadnAgain, Preallocate, Receiving, vars, procVars
  <1>6. CASE pc'[q] \notin {"add", "gap"}
    BY <1>6
  <1> QED
    BY <1>0, <1>1, <1>2, <1>3, <1>4, <1>5, <1>6
    DEF Step, Work, Peer, Start, ReadDirInfo, SendEmptyPull, LowerFlag, OnExit,
        Gone, ChooseNew, FoundRow, Compare, Rename, RowVanished, Abort,
        CheckInode, IncRef, AddComplete, CommitKnown, PullGaps, SendPull,
        RecordChunks, AddInode, Complete, CommitPulled, BadDirInfo, WritePiece,
        AfterPiece, HangUp, ReadFails, CloseInsidePiece, Kill, TypeOK

-----------------------------------------------------------------------------
(* A session and the sessions of other users *)

\* The rows of a user while a process that is idle, or another user's, takes a
\* step.
LEMMA RowsApart ==
    ASSUME IInv, NEW q \in Procs, Step(q), NEW u \in Users, Busy(q) => u # User(q),
           NEW n \in Names, files'[u][n] # NoRow
    PROVE  /\ files[u][n] # NoRow
           /\ files'[u][n].md5 = files[u][n].md5
           /\ files'[u][n].modtime = files[u][n].modtime
  <1>1. CASE Busy(q)
    BY <1>1, OthersRows
  <1>2. CASE ~Busy(q)
    <2>1. files' = files
      BY <1>2, StateFacts
      DEF Busy, Step, Work, Peer, Kill, Start, ReadDirInfo, SendEmptyPull,
          NothingChosen, NothingToPull, OnExit, ChooseNew, FoundRow, Compare,
          Rename, RowVanished, CheckInode, Ready2, IncRef, AddComplete,
          CommitKnown, CheckRow, CompareRow, RemoveRow, AddPartial, PullGaps,
          SendPull, RecordChunks, AddInode, Complete, CommitPulled, ReadnAgain,
          BadDirInfo, Preallocate, WritePiece, Receiving, HangUp, ReadFails,
          CloseInsidePiece
    <2> QED
      BY <2>1
  <1> QED
    BY <1>1, <1>2

-----------------------------------------------------------------------------
(* Rows *)

\* A row before and after a step, when it is neither added, moved nor removed.
SameRow(u, n) ==
    /\ files'[u][n] # NoRow <=> HasRow(u, n)
    /\ HasRow(u, n) => /\ files'[u][n].md5 = files[u][n].md5
                       /\ files'[u][n].modtime = files[u][n].modtime
                       /\ files[u][n].complete => files'[u][n].complete

\* Apart from Rename, a session changes rows of the file at the head of topull.
LEMMA RowSteps ==
    ASSUME IInv, NEW q \in Procs, Step(q), ~Rename(q),
           NEW u \in Users, NEW n \in Names,
           pc[q] \in {"dup", "rem", "add"} => n # Head(topull[q]).name
    PROVE  SameRow(u, n)
  <1>0. files \in Tables /\ User(q) \in Users
    BY StateFacts
  <1>1. CASE UNCHANGED files
    BY <1>1 DEF SameRow, HasRow
  <1>2. CASE AddComplete(q)
    BY <1>0, <1>2 DEF AddComplete, addFile, Tables, SameRow, HasRow
  <1>3. CASE AddPartial(q)
    BY <1>0, <1>3 DEF AddPartial, addFile, Tables, SameRow, HasRow
  <1>4. CASE RemoveRow(q)
    BY <1>0, <1>4 DEF RemoveRow, removeFile, Tables, SameRow, HasRow
  <1>5. CASE Complete(q)
    <2>1. \/ files'[u][n] = files[u][n]
          \/ files[u][n] \in Row /\ files'[u][n] = Completed(files[u][n])
      BY <1>0, <1>5, StateFacts, CachedFacts, completeFileRows DEF Complete
    <2> QED
      BY <2>1, RowFacts, NoRowAssumption
      DEF SameRow, HasRow
  <1>6. CASE RecordChunks(q)
    <2>1. Cached(q).md5 \in Contents /\ NextPiece(q) \in 0..MaxSize
      BY <1>6, StateFacts, CachedFacts DEF RecordChunks
    <2>2. \/ files'[u][n] = files[u][n]
          \/ /\ files[u][n] \in Row
             /\ files'[u][n] = WithChunks(files[u][n], NextPiece(q))
      BY <1>0, <1>6, <2>1, updateChunksRows DEF RecordChunks
    <2>3. CASE files[u][n] \in Row /\ files'[u][n] = WithChunks(files[u][n], NextPiece(q))
      <3>1. /\ files'[u][n] \in Row
            /\ files'[u][n].md5 = files[u][n].md5
            /\ files'[u][n].modtime = files[u][n].modtime
            /\ files'[u][n].complete = files[u][n].complete
        BY <2>1, <2>3, RowFacts
      <3> QED
        BY <2>3, <3>1, NoRowAssumption DEF SameRow, HasRow
    <2> QED
      BY <2>2, <2>3 DEF SameRow, HasRow
  <1> QED
    BY <1>1, <1>2, <1>3, <1>4, <1>5, <1>6
    DEF Step, Work, Peer, Kill, Start, ReadDirInfo, SendEmptyPull, LowerFlag,
        OnExit, ChooseNew, FoundRow, Compare, RowVanished, Abort, CheckInode,
        IncRef, CommitKnown, CheckRow, CompareRow, SendPull, PullGaps, AddInode,
        CommitPulled, ReadnAgain, BadDirInfo, Preallocate, WritePiece, HangUp,
        ReadFails, CloseInsidePiece, dbVars, vars

\* The row that addFile leaves: the one that was there, or the new one.
LEMMA AddedRow ==
    ASSUME IInv, NEW q \in Procs, NEW done \in BOOLEAN, topull[q] # <<>>,
           addFile(User(q), Head(topull[q]), done)
    PROVE  LET e == Head(topull[q])
               u == User(q)
           IN  /\ files'[u][e.name] # NoRow
               /\ HasRow(u, e.name) => files'[u][e.name] = files[u][e.name]
               /\ ~HasRow(u, e.name) =>
                     /\ files'[u][e.name].modtime = e.modtime
                     /\ files'[u][e.name].md5 = e.md5
                     /\ files'[u][e.name].complete = done
  <1> DEFINE e == Head(topull[q])
             u == User(q)
  <1>1. e \in Entry /\ e.name \in Names /\ u \in Users /\ files \in Tables
    BY StateFacts, HeadFacts
  <1>2. CASE HasRow(u, e.name)
    BY <1>2 DEF addFile, chkFilePath, HasRow
  <1>3. CASE ~HasRow(u, e.name)
    <2>1. files'[u][e.name] = NewRow(e, done)
      BY <1>1, <1>3 DEF addFile, chkFilePath, HasRow, Tables
    <2>2. NewRow(e, done) # NoRow
      BY <1>1, RowFacts, NoRowAssumption
    <2> QED
      BY <1>3, <2>1, <2>2 DEF NewRow
  <1> QED
    BY <1>2, <1>3

-----------------------------------------------------------------------------
(* Any number of sessions, and what they replaced under each other *)

\* The rows of a session's user while another process takes a step, but for
\* those that a session of the same user replaces.
LEMMA OthersVersion ==
    ASSUME IInv, NEW q \in Procs, Step(q), NEW p \in Procs, p # q, Busy(p),
           NEW n \in Names \ Under(p, q), files'[User(p)][n] # NoRow
    PROVE  /\ files[User(p)][n] # NoRow
           /\ files'[User(p)][n].md5 = files[User(p)][n].md5
           /\ files'[User(p)][n].modtime = files[User(p)][n].modtime
  <1>1. User(p) \in Users
    BY StateFacts
  <1>2. CASE User(p) = User(q)
    BY <1>2 DEF Under, Replaced, Version
  <1>3. CASE User(p) # User(q)
    BY <1>1, <1>3, RowsApart
  <1> QED
    BY <1>2, <1>3

\* Pass 1 goes to Rename in an initial session only.
LEMMA RenamesStep ==
    ASSUME IInv, RenamesInitial, NEW q \in Procs, Step(q)
    PROVE  RenamesInitial'
  <1>0. TypeOK
    BY DEF IInv, TypeInv
  <1>1. SUFFICES ASSUME pc'[q] = "rename" PROVE mode'[q] = 0
    BY <1>0, OthersMemory DEF RenamesInitial, SameMemory
  <1>2. CASE Compare(q)
    BY <1>0, <1>1, <1>2 DEF Compare, TypeOK
  <1>3. CASE ~Compare(q)
    BY <1>0, <1>1, <1>3
    DEF Step, Work, Peer, Start, ReadDirInfo, SendEmptyPull, LowerFlag, OnExit,
        Gone, ChooseNew, FoundRow, Rename, RowVanished, Abort, CheckInode, IncRef,
        AddComplete, CommitKnown, CheckRow, CompareRow, RemoveRow, AddPartial,
        PullGaps, SendPull, RecordChunks, AddInode, Complete, CommitPulled,
        ReadnAgain, BadDirInfo, Preallocate, WritePiece, Receiving, AfterPiece,
        HangUp, ReadFails, CloseInsidePiece, Kill, vars, procVars, RenamesInitial,
        TypeOK
  <1> QED
    BY <1>2, <1>3

\* An announced content is pushed to its own file, unless it is spoilt.
LEMMA StoreOwnStep ==
    ASSUME IInv, CachedUnlessOvertaken, StoreOwn, NEW q \in Procs, Step(q), Record(q)
    PROVE  StoreOwn'
  <1>0. /\ store \in [Contents -> [1..MaxSize -> Bytes]]
        /\ spoilt \subseteq spoilt'
    BY DEF IInv, TypeInv, TypeOK, DBTypeOK, Record
  <1>1. CASE Preallocate(q)
    BY <1>0, <1>1, StateFacts, CachedFacts
    DEF Preallocate, Receiving, createStore, StoreOwn, Written
  <1>2. CASE WritePiece(q)
    <2> DEFINE m == Cached(q).md5
               k == NextPiece(q)
    <2>1. /\ m \in Contents /\ k \in 1..MaxSize /\ NextName(q) \in Names
          /\ Cached(q) \in Row /\ Cached(q).chunks < Size[m]
      BY <1>2, StateFacts, CachedFacts DEF WritePiece, Receiving
    <2>2. PICK b : writeStore(m, k, b)
      BY <1>2 DEF WritePiece
    <2>3. \A x \in Contents, i \in 1..MaxSize : ~(x = m /\ i = k) =>
              store'[x][i] = store[x][i]
      BY <1>0, <2>1, <2>2 DEF writeStore
    <2>4. CASE m \in spoilt'
      BY <1>0, <2>3, <2>4 DEF StoreOwn, Written
    <2>5. CASE m \notin spoilt'
      <3>1. pc[q] = "push" /\ pc'[q] \in {"inode", "chunks"}
        BY <1>2, StateFacts DEF WritePiece, Receiving, AfterPiece
      <3>2. NextName(q) \notin overtaken[q] /\ store'[m][k] = AnnouncedByte(q)
        BY <2>5, <3>1 DEF Record, Spoils
      <3>3. folder[q][NextName(q)].md5 = m
        BY <2>1, <3>2, NoRowAssumption DEF CachedUnlessOvertaken, CachedRight, Cached
      <3>4. k <= Size[m]
        BY <2>1, SizeAssumption DEF NextPiece, Row
      <3>5. AnnouncedByte(q) = <<m, k>>
        BY <3>3, <3>4 DEF AnnouncedByte
      <3> QED
        BY <1>0, <2>3, <3>2, <3>5 DEF StoreOwn, Written
    <2> QED
      BY <2>4, <2>5
  <1>3. CASE UNCHANGED store
    BY <1>0, <1>3 DEF StoreOwn, Written
  <1> QED
    BY <1>1, <1>2, <1>3
    DEF Step, Work, Peer, Kill, Start, ReadDirInfo, SendEmptyPull, LowerFlag,
        OnExit, ChooseNew, FoundRow, Compare, Rename, RowVanished, Abort,
        CheckInode, IncRef, AddComplete, CommitKnown, CheckRow, CompareRow,
        RemoveRow, AddPartial, PullGaps, SendPull, RecordChunks, AddInode,
        Complete, CommitPulled, ReadnAgain, BadDirInfo, HangUp, ReadFails,
        CloseInsidePiece, dbVars, vars

\* A cached row is right unless the session was overtaken on it.
LEMMA CachedUnlessOvertakenStep ==
    ASSUME IInv, IInv', HistoryTypeOK, ListsAnnounced, CachedInPass2, CachedInPass2',
           CachedUnlessOvertaken, AskedUnlessOvertaken,
           NEW q \in Procs, Step(q), Record(q)
    PROVE  CachedUnlessOvertaken'
  <1> SUFFICES ASSUME NEW p \in Procs, NEW n \in Names \ overtaken'[p]
               PROVE  CachedRight(p, n)'
    BY DEF CachedUnlessOvertaken
  <1>0. TypeOK
    BY DEF IInv, TypeInv
  <1>1. CASE pc'[p] = "idle"
    BY <1>1 DEF CachedInPass2, Pass1, CachedRight, NoFiles
  <1>2. CASE pc'[p] # "idle"
    <2>1. n \notin overtaken[p]
      BY <1>2 DEF Record
    <2>2. CachedRight(p, n)
      BY <2>1 DEF CachedUnlessOvertaken
    <2>3. CASE p = q
      <3>1. pc[q] = "gap" /\ n = Head(topull[q]).name => Asked(q)
        BY <2>1, <2>3 DEF AskedUnlessOvertaken
      <3> QED
        BY <2>2, <2>3, <3>1, CachedStep
    <2>4. CASE p # q
      BY <1>0, <2>2, <2>4, OthersMemory DEF SameMemory, CachedRight
    <2> QED
      BY <2>3, <2>4
  <1> QED
    BY <1>1, <1>2

\* What pass 2 has seen of a row stays so unless the session is overtaken on it.
LEMMA AskedUnlessOvertakenStep ==
    ASSUME IInv, HistoryTypeOK, AskedUnlessOvertaken,
           NEW q \in Procs, Step(q), Record(q)
    PROVE  AskedUnlessOvertaken'
  <1> SUFFICES ASSUME NEW p \in Procs, pc'[p] \in {"add", "gap"},
                      Head(topull'[p]).name \notin overtaken'[p]
               PROVE  Asked(p)'
    BY DEF AskedUnlessOvertaken
  <1>0. TypeOK
    BY DEF IInv, TypeInv
  <1>1. overtaken'[p] = overtaken[p] \cup {n \in Under(p, q) : Relies(p, n)}
    BY DEF Record
  <1>2. CASE p = q
    <2>1. pc[q] \in {"row", "cmp", "rem", "add"} => topull'[q] = topull[q]
      BY <1>0, <1>2
      DEF Step, Work, Peer, Start, ReadDirInfo, SendEmptyPull, NothingChosen,
          NothingToPull, LowerFlag, OnExit, Gone, ChooseNew, FoundRow, Compare,
          Rename, RowVanished, Abort, CheckInode, Ready2, IncRef, AddComplete,
          CommitKnown, CheckRow, CompareRow, RemoveRow, AddPartial, PullGaps,
          SendPull, RecordChunks, AddInode, Complete, CommitPulled, ReadnAgain,
          BadDirInfo, Preallocate, WritePiece, Receiving, HangUp, ReadFails,
          CloseInsidePiece, Kill, vars, procVars, TypeOK
    <2>2. pc[q] = "add" => Asked(q)
      BY <1>1, <1>2, <2>1 DEF AskedUnlessOvertaken
    <2> QED
      BY <1>2, <2>2, AskedStep
  <1>3. CASE p # q
    <2>1. SameMemory(p)
      BY <1>0, <1>3, OthersMemory
    <2>2. /\ Busy(p) /\ topull[p] # <<>> /\ Head(topull[p]).name \in Names
          /\ Head(topull[p]).name \notin Under(p, q)
          /\ Asked(p)
      BY <1>1, <2>1, StateFacts, HeadFacts
      DEF SameMemory, Busy, Relies, AskedUnlessOvertaken
    <2> QED
      BY <1>3, <2>1, <2>2, OthersVersion DEF Asked, SameMemory, HasRow, User
  <1> QED
    BY <1>2, <1>3

\* Pass 1 compared the times; what Rename moves to a name that was announced
\* is excepted, and so are the names of S.
LEMMA NotOlderStep ==
    ASSUME IInv, ListsAnnounced, RenamesInitial, NEW q \in Procs, Step(q), NEW S,
           \A i \in DOMAIN topull[q] :
               topull[q][i].name \notin S => NotOlder(q, topull[q][i])
    PROVE  \A i \in DOMAIN topull'[q] :
               topull'[q][i].name \notin S => NotOlder(q, topull[q][i])'
  <1>0. /\ TypeOK /\ WorkLists
        /\ todo[q] \in Seq(Entry) /\ topull[q] \in Seq(Entry)
        /\ files \in Tables /\ User(q) \in Users
        /\ \A e \in Entry : e.name \in Names /\ e.modtime \in Nat
    <2>1. \A e \in Entry : e.name \in Names /\ e.modtime \in Nat
      BY NameAssumption, ModtimeAssumption DEF Entry
    <2> QED
      BY <2>1, StateFacts DEF IInv, TypeInv, TypeOK
  <1>1. CASE topull'[q] = <<>>
    BY <1>1
  <1>2. CASE topull[q] = <<>> /\ topull'[q] = topull[q]
    BY <1>2
  <1> DEFINE Same == /\ UNCHANGED <<folder, mode>> /\ User(q)' = User(q)
                     /\ \A n : RenamedTo(q, n)' = RenamedTo(q, n)
  <1>3. ASSUME UNCHANGED <<cid, folder, mode>> PROVE Same
    BY <1>3 DEF User, RenamedTo
  <1>4. ASSUME UNCHANGED <<cid, folder, mode, topull>>, ~Rename(q) PROVE
            \A i \in DOMAIN topull'[q] :
               topull'[q][i].name \notin S => NotOlder(q, topull[q][i])'
    <2> SUFFICES ASSUME NEW i \in DOMAIN topull[q], topull[q][i].name \notin S
                 PROVE  NotOlder(q, topull[q][i])'
      BY <1>4
    <2> DEFINE e == topull[q][i]
    <2>1. e \in Entry /\ e.name \in Names /\ NotOlder(q, e) /\ Same
      BY <1>0, <1>3, <1>4
    <2>2. CASE ~(pc[q] \in {"dup", "rem", "add"} /\ e.name = Head(topull[q]).name)
      <3>1. SameRow(User(q), e.name)
        BY <1>0, <1>4, <2>1, <2>2, RowSteps
      <3> QED
        BY <1>4, <2>1, <3>1 DEF NotOlder, SameRow, HasRow
    <2>3. CASE pc[q] \in {"dup", "rem", "add"} /\ e.name = Head(topull[q]).name
      <3>1. topull[q] # <<>> /\ e = Head(topull[q])
        <4>1. topull[q] # <<>>
          BY <2>3, StateFacts
        <4>2. Head(topull[q]) = topull[q][1] /\ 1 \in DOMAIN topull[q]
          BY <1>0, <4>1, ListFacts
        <4> QED
          BY <2>3, <4>1, <4>2 DEF ListsAnnounced
      <3>2. CASE AddComplete(q) \/ AddPartial(q)
        <4>1. PICK done \in BOOLEAN : addFile(User(q), e, done)
          BY <3>1, <3>2 DEF AddComplete, AddPartial
        <4>2. /\ HasRow(User(q), e.name) =>
                    files'[User(q)][e.name] = files[User(q)][e.name]
              /\ ~HasRow(User(q), e.name) =>
                    files'[User(q)][e.name].modtime = e.modtime
          BY <3>1, <4>1, AddedRow
        <4>3. e.modtime \in Nat
          BY <1>0, <2>1
        <4>4. CASE HasRow(User(q), e.name)
          BY <1>4, <2>1, <4>2, <4>4 DEF NotOlder, HasRow
        <4>5. CASE ~HasRow(User(q), e.name)
          BY <1>4, <2>1, <4>2, <4>3, <4>5 DEF NotOlder
        <4> QED
          BY <4>4, <4>5
      <3>3. CASE RemoveRow(q)
        <4>1. files'[User(q)][e.name] = NoRow
          BY <1>0, <2>1, <3>1, <3>3 DEF RemoveRow, removeFile, Tables
        <4> QED
          BY <1>4, <2>1, <4>1 DEF NotOlder, HasRow
      <3>4. CASE ~AddComplete(q) /\ ~AddPartial(q) /\ ~RemoveRow(q)
        <4>1. files' = files
          BY <2>3, <3>4
          DEF Step, Work, Peer, Start, ReadDirInfo, SendEmptyPull, NothingChosen,
              NothingToPull, OnExit, ChooseNew, FoundRow, Compare, Rename,
              RowVanished, Abort, CheckInode, Ready2, IncRef, CommitKnown, CheckRow,
              CompareRow, PullGaps, SendPull, RecordChunks, AddInode, Complete,
              CommitPulled, ReadnAgain, BadDirInfo, Preallocate, WritePiece,
              Receiving, HangUp, ReadFails, CloseInsidePiece, Kill, vars, dbVars
        <4> QED
          BY <1>4, <2>1, <4>1 DEF NotOlder, HasRow
      <3> QED
        BY <3>2, <3>3, <3>4
    <2> QED
      BY <2>2, <2>3
  <1>5. CASE ChooseNew(q) \/ Compare(q)
    <2> DEFINE e == Head(todo[q])
    <2>1. /\ todo[q] # <<>> /\ files' = files /\ e \in Entry /\ e.name \in Names
          /\ Same
      BY <1>0, <1>3, <1>5, ListFacts DEF ChooseNew, Compare, WorkLists, dbVars
    <2>2. \/ topull'[q] = topull[q]
          \/ topull'[q] = Append(topull[q], e) /\ NotOlder(q, e)
      <3>1. CASE ChooseNew(q)
        BY <1>0, <3>1 DEF ChooseNew, TypeOK, chkFilePath, HasRow, NotOlder
      <3>2. CASE Compare(q)
        <4>1. files[User(q)][e.name] \in Row
          BY <1>0, <2>1, <3>2 DEF Compare, Tables, MaybeRow
        <4>2. /\ e.modtime \in Nat /\ files[User(q)][e.name].modtime \in Nat
          BY <2>1, <4>1, ModtimeAssumption DEF Entry, Row
        <4>3. (\/ Newer(e, files[User(q)][e.name])
               \/ Resumes(e, files[User(q)][e.name])) =>
                  files[User(q)][e.name].modtime <= e.modtime
          BY <4>2 DEF Newer, Resumes
        <4>4. \/ topull'[q] = topull[q]
              \/ /\ topull'[q] = Append(topull[q], e)
                 /\ \/ Newer(e, files[User(q)][e.name])
                    \/ Resumes(e, files[User(q)][e.name])
          BY <1>0, <3>2 DEF Compare, TypeOK
        <4> QED
          BY <4>3, <4>4 DEF NotOlder
      <3> QED
        BY <1>5, <3>1, <3>2
    <2>3. ASSUME NEW i \in DOMAIN topull'[q], topull'[q][i].name \notin S
          PROVE  NotOlder(q, topull'[q][i])
      <3>1. CASE topull'[q] = topull[q]
        BY <2>3, <3>1
      <3>2. CASE topull'[q] = Append(topull[q], e) /\ NotOlder(q, e)
        <4>1. \/ topull'[q][i] = e
              \/ i \in DOMAIN topull[q] /\ topull'[q][i] = topull[q][i]
          BY <1>0, <2>1, <2>3, <3>2, AppendFacts
        <4> QED
          BY <2>3, <3>2, <4>1
      <3> QED
        BY <2>2, <3>1, <3>2
    <2> QED
      BY <2>1, <2>3 DEF NotOlder, HasRow
  <1>6. CASE Rename(q)
    <2> DEFINE h == Head(todo[q]).name
    <2>1. /\ todo[q] # <<>> /\ topull' = topull /\ Head(todo[q]) \in Entry
          /\ Same
      BY <1>0, <1>3, <1>6, ListFacts DEF Rename, WorkLists
    <2>2. h \in Announced /\ h \in Names /\ Old[h] \in Names
      BY <2>1, NameAssumption DEF Entry
    <2>3. RenamedTo(q, Old[h])
      <3>1. mode[q] = 0
        BY <1>6 DEF Rename, RenamesInitial
      <3>2. folder[q][h] # NoRow
        BY <1>0, <2>1, ListFacts DEF WorkLists, AllAnnounced
      <3> QED
        BY <2>2, <3>1, <3>2 DEF RenamedTo
    <2> SUFFICES ASSUME NEW i \in DOMAIN topull[q], topull[q][i].name \notin S,
                        ~RenamedTo(q, topull[q][i].name),
                        files'[User(q)][topull[q][i].name] # NoRow
                 PROVE  files'[User(q)][topull[q][i].name].modtime
                            <= topull[q][i].modtime
      BY <2>1 DEF NotOlder, HasRow
    <2>4. files'[User(q)][topull[q][i].name] = files[User(q)][topull[q][i].name]
      <3>1. topull[q][i].name # Old[h] /\ topull[q][i].name \in Names
        BY <1>0, <2>3
      <3> QED
        BY <1>0, <1>6, <2>2, <3>1 DEF Rename, fileRename, Tables
    <2> QED
      BY <2>4 DEF NotOlder, HasRow
  <1>7. CASE CommitKnown(q) \/ PullGaps(q)
    <2>1. /\ topull[q] # <<>> /\ topull'[q] = Tail(topull[q]) /\ files' = files
          /\ Same
      BY <1>0, <1>3, <1>7
      DEF CommitKnown, PullGaps, NextFile, WorkLists, TypeOK, dbVars
    <2>2. \A i \in DOMAIN topull'[q] :
              i + 1 \in DOMAIN topull[q] /\ topull'[q][i] = topull[q][i + 1]
      BY <1>0, <2>1, ListFacts
    <2> QED
      BY <2>1, <2>2 DEF NotOlder, HasRow
  <1>8. CASE Gone(q)
    BY <1>0, <1>1, <1>8 DEF Gone, TypeOK
  <1>9. CASE \/ \E c \in Clients, m \in {0, 1} : Start(q, c, m)
             \/ \E d \in DirInfos : ReadDirInfo(q, d)
    BY <1>0, <1>2, <1>9 DEF Start, ReadDirInfo, WorkLists
  <1>10. CASE /\ ~Rename(q) /\ UNCHANGED <<cid, folder, mode, topull>>
    BY <1>4, <1>10
  <1> QED
    BY <1>5, <1>6, <1>7, <1>8, <1>9, <1>10
    DEF Step, Work, Peer, SendEmptyPull, LowerFlag, OnExit, FoundRow, RowVanished,
        Abort, CheckInode, IncRef, AddComplete, CheckRow, CompareRow, RemoveRow,
        AddPartial, SendPull, RecordChunks, AddInode, Complete, CommitPulled,
        ReadnAgain, BadDirInfo, Preallocate, WritePiece, HangUp, ReadFails,
        CloseInsidePiece, Kill, vars, procVars

\* No chosen row is newer unless another session of the user replaced it.
LEMMA NotOlderUnlessTouchedStep ==
    ASSUME IInv, IInv', HistoryTypeOK, ListsAnnounced, RenamesInitial,
           NotOlderUnlessTouched, NEW q \in Procs, Step(q), Record(q)
    PROVE  NotOlderUnlessTouched'
  <1> SUFFICES ASSUME NEW p \in Procs, NEW i \in DOMAIN topull'[p],
                      topull'[p][i].name \notin touched'[p]
               PROVE  NotOlder(p, topull[p][i])'
    BY DEF NotOlderUnlessTouched
  <1>0. TypeOK
    BY DEF IInv, TypeInv
  <1>1. pc'[p] # "idle"
    BY DEF IInv, TypeInv, WorkLists
  <1>2. touched'[p] = touched[p] \cup Under(p, q)
    BY <1>1 DEF Record
  <1>3. CASE p = q
    <2> DEFINE S == touched[q] \cup Under(q, q)
    <2>1. \A j \in DOMAIN topull[q] :
              topull[q][j].name \notin S => NotOlder(q, topull[q][j])
      BY DEF NotOlderUnlessTouched
    <2> HIDE DEF S
    <2>2. \A j \in DOMAIN topull'[q] :
              topull'[q][j].name \notin S => NotOlder(q, topull[q][j])'
      BY <2>1, NotOlderStep
    <2> QED
      BY <1>2, <1>3, <2>2 DEF S
  <1>4. CASE p # q
    <2>1. SameMemory(p) /\ User(p)' = User(p)
      BY <1>0, <1>4, OthersMemory DEF SameMemory, User
    <2> DEFINE e == topull[p][i]
    <2>2. /\ topull'[p] = topull[p] /\ e.name \notin Under(p, q) /\ Busy(p)
          /\ NotOlder(p, e)
      BY <1>1, <1>2, <2>1 DEF SameMemory, Busy, NotOlderUnlessTouched
    <2>3. e \in Entry /\ e.name \in Names
      <3>1. topull[p] \in Seq(Entry) /\ i \in DOMAIN topull[p]
        BY <1>0, <2>2 DEF TypeOK
      <3>2. e \in Entry
        BY <3>1
      <3> QED
        BY <3>2, NameAssumption DEF Entry
    <2>4. ASSUME files'[User(p)][e.name] # NoRow
          PROVE  /\ files[User(p)][e.name] # NoRow
                 /\ files'[User(p)][e.name].modtime = files[User(p)][e.name].modtime
      BY <1>4, <2>2, <2>3, <2>4, OthersVersion
    <2>5. RenamedTo(p, e.name)' = RenamedTo(p, e.name)
      BY <2>1 DEF SameMemory, RenamedTo
    <2> QED
      BY <2>1, <2>2, <2>4, <2>5 DEF NotOlder, HasRow
  <1> QED
    BY <1>3, <1>4

-----------------------------------------------------------------------------
LEMMA InitHistory == HistoryInit => HistoryInv
  <1> SUFFICES ASSUME HistoryInit PROVE HistoryInv
    OBVIOUS
  <1>1. ListsAnnounced /\ CachedInPass2 /\ RenamesInitial /\ HistoryTypeOK
    BY DEF HistoryInit, Init, ListsAnnounced, CachedInPass2, RenamesInitial,
           HistoryTypeOK, Pass2
  <1>2. CachedUnlessOvertaken /\ AskedUnlessOvertaken /\ NotOlderUnlessTouched
    BY DEF HistoryInit, Init, CachedUnlessOvertaken, CachedRight, NoFiles,
           AskedUnlessOvertaken, NotOlderUnlessTouched
  <1>3. StoreOwn
    BY DEF HistoryInit, Init, DBInit, StoreOwn, Written
  <1> QED
    BY <1>1, <1>2, <1>3, InitIInv DEF HistoryInv, HistoryInit

\* The record keeps its type.
LEMMA RecordType ==
    ASSUME IInv, HistoryTypeOK, NEW q \in Procs, Step(q), Record(q)
    PROVE  HistoryTypeOK'
  <1>1. \A p \in Procs : Under(p, q) \subseteq Names
    BY DEF Under, Replaced
  <1>2. spoilt' \subseteq Contents
    <2>1. CASE Spoils(q)
      <3>1. pull[q] # <<>>
        BY <2>1, StateFacts
        DEF Spoils, Step, Work, Peer, Kill, Start, ReadDirInfo, SendEmptyPull,
            NothingChosen, NothingToPull, OnExit, ChooseNew, FoundRow, Compare,
            Rename, RowVanished, CheckInode, Ready2, IncRef, AddComplete,
            CommitKnown, CheckRow, CompareRow, RemoveRow, AddPartial, PullGaps,
            SendPull, RecordChunks, AddInode, Complete, CommitPulled, ReadnAgain,
            BadDirInfo, Preallocate, WritePiece, Receiving, HangUp, ReadFails,
            CloseInsidePiece, LowerFlag, Gone
      <3> QED
        BY <2>1, <3>1, CachedFacts, StateFacts DEF Record, HistoryTypeOK
    <2>2. CASE ~Spoils(q)
      BY <2>2 DEF Record, HistoryTypeOK
    <2> QED
      BY <2>1, <2>2
  <1> QED
    BY <1>1, <1>2 DEF Record, HistoryTypeOK

LEMMA HistoryStep == HistoryInv /\ [HistoryNext]_uploadVars => HistoryInv'
  <1> SUFFICES ASSUME HistoryInv, [HistoryNext]_uploadVars PROVE HistoryInv'
    OBVIOUS
  <1>1. CASE UNCHANGED uploadVars
    <2>1. IInv'
      BY <1>1, IInvStep DEF HistoryInv, uploadVars
    <2>2. ListsAnnounced' /\ CachedInPass2' /\ RenamesInitial' /\ HistoryTypeOK'
      BY <1>1 DEF HistoryInv, ListsAnnounced, CachedInPass2, RenamesInitial,
                  HistoryTypeOK, uploadVars, historyVars, vars, procVars
    <2>3. CachedUnlessOvertaken' /\ StoreOwn'
      BY <1>1 DEF HistoryInv, CachedUnlessOvertaken, CachedRight, StoreOwn, Written,
                  uploadVars, historyVars, vars, procVars, dbVars
    <2>4. AskedUnlessOvertaken'
      BY <1>1 DEF HistoryInv, AskedUnlessOvertaken, Asked, HasRow, User,
                  uploadVars, historyVars, vars, procVars, dbVars
    <2>5. NotOlderUnlessTouched'
      BY <1>1 DEF HistoryInv, NotOlderUnlessTouched, NotOlder, RenamedTo, HasRow,
                  User, uploadVars, historyVars, vars, procVars, dbVars
    <2> QED
      BY <2>1, <2>2, <2>3, <2>4, <2>5 DEF HistoryInv
  <1>2. ASSUME NEW q \in Procs, Step(q), Record(q) PROVE HistoryInv'
    <2>1. IInv'
      BY <1>2, IInvStep DEF HistoryInv, Next, Step
    <2>2. ListsAnnounced' /\ CachedInPass2' /\ RenamesInitial' /\ HistoryTypeOK'
      BY <1>2, ListsStep, CachedInPass2Step, RenamesStep, RecordType DEF HistoryInv
    <2>3. CachedUnlessOvertaken' /\ AskedUnlessOvertaken'
      BY <1>2, <2>1, <2>2, CachedUnlessOvertakenStep, AskedUnlessOvertakenStep
      DEF HistoryInv
    <2>4. NotOlderUnlessTouched' /\ StoreOwn'
      BY <1>2, <2>1, NotOlderUnlessTouchedStep, StoreOwnStep DEF HistoryInv
    <2> QED
      BY <2>1, <2>2, <2>3, <2>4 DEF HistoryInv
  <1> QED
    BY <1>1, <1>2 DEF HistoryNext, Step

\* The invariant of any number of sessions at once.
THEOREM HistoryInvariant == HistorySpec => []HistoryInv
  BY InitHistory, HistoryStep, PTL DEF HistorySpec

\* Every piece of a store file is the piece of its md5, whichever users and
\* machines push that content at the same time, unless a client's file changed
\* between its scan and its push or a session was overtaken on the row it cached.
THEOREM StoreMatchesAlways == HistorySpec => []StoreMatchesMd5
  <1>1. HistoryInv => StoreMatchesMd5
    BY DEF HistoryInv, StoreOwn, StoreMatchesMd5
  <1> QED
    BY <1>1, HistoryInvariant, PTL

\* removeFile deletes no version newer than the one pass 1 chose, whatever
\* the other processes do, unless a session of the same user replaced the row
\* since or the session itself renamed it there.
THEOREM ReplacesOnlyOlderAlways == HistorySpec => ReplacesOnlyOlder
  <1> DEFINE Older ==
        \A p \in Procs : pc[p] = "rem" /\ pc'[p] = "add" =>
            LET e == Head(topull[p])
            IN  /\ HasRow(User(p), e.name)
                /\ e.name \notin touched[p]
                /\ ~RenamedTo(p, e.name)
                => files[User(p)][e.name].modtime <= e.modtime
  <1>1. HistoryInv => Older
    <2> SUFFICES ASSUME HistoryInv, NEW p \in Procs, pc[p] = "rem",
                        Head(topull[p]).name \notin touched[p]
                 PROVE  NotOlder(p, Head(topull[p]))
      BY DEF NotOlder
    <2>1. topull[p] # <<>> /\ topull[p] \in Seq(Entry)
      BY DEF HistoryInv, IInv, TypeInv, TypeOK, WorkLists
    <2>2. Head(topull[p]) = topull[p][1] /\ 1 \in DOMAIN topull[p]
      BY <2>1, ListFacts
    <2> QED
      BY <2>2 DEF HistoryInv, NotOlderUnlessTouched
  <1>2. HistoryInv /\ [HistoryNext]_uploadVars => [Older]_uploadVars
    BY <1>1
  <1> QED
    BY <1>2, HistoryInvariant, PTL DEF HistorySpec, ReplacesOnlyOlder

-----------------------------------------------------------------------------
(* Sessions of which one ends before the next begins *)

\* One session at a time, of whatever user.
OneAtATime == \A p, q \in Procs : Busy(p) /\ Busy(q) => p = q

AloneSpec == Init /\ [][Next /\ OneAtATime']_vars

\* While a process takes a step the others are idle, before and after.
LEMMA OthersIdle ==
    ASSUME TypeOK, OneAtATime, OneAtATime', NEW q \in Procs, Step(q),
           NEW p \in Procs, p # q
    PROVE  pc[p] = "idle" /\ pc'[p] = "idle"
  <1>1. pc'[p] = pc[p]
    BY OthersMemory DEF SameMemory
  <1>2. CASE Busy(q)
    BY <1>1, <1>2 DEF OneAtATime, Busy
  <1>3. CASE ~Busy(q)
    <2>1. \E c \in Clients, m \in {0, 1} : Start(q, c, m)
      BY <1>3
      DEF Busy, Step, Work, Peer, Kill, ReadDirInfo, SendEmptyPull, NothingChosen,
          NothingToPull, OnExit, ChooseNew, FoundRow, Compare, Rename, RowVanished,
          CheckInode, Ready2, IncRef, AddComplete, CommitKnown, CheckRow,
          CompareRow, RemoveRow, AddPartial, PullGaps, SendPull, RecordChunks,
          AddInode, Complete, CommitPulled, ReadnAgain, BadDirInfo, Preallocate,
          WritePiece, Receiving, HangUp, ReadFails, CloseInsidePiece, vars, procVars
    <2>2. Busy(q)'
      BY <2>1 DEF Start, Busy, TypeOK
    <2> QED
      BY <1>1, <2>2 DEF OneAtATime, Busy
  <1> QED
    BY <1>2, <1>3

\* What a session that meets no other knows of the rows is right.
CachedIsAnnounced == \A p \in Procs, n \in Names : CachedRight(p, n)

RowAsAsked == \A p \in Procs : Asked(p)

RightMemory ==
    /\ IInv
    /\ ListsAnnounced /\ CachedInPass2 /\ CachedIsAnnounced /\ RowAsAsked

LEMMA InitRightMemory == Init => RightMemory
  BY InitIInv
  DEF Init, RightMemory, ListsAnnounced, CachedInPass2, CachedIsAnnounced,
      CachedRight, RowAsAsked, Asked, NoFiles, Pass2

LEMMA SameRightMemory ==
    ASSUME RightMemory, UNCHANGED vars
    PROVE  RightMemory'
  <1>1. IInv'
    BY IInvStep DEF RightMemory
  <1> QED
    BY <1>1
    DEF vars, dbVars, procVars, RightMemory, User, ListsAnnounced, CachedInPass2,
        CachedIsAnnounced, CachedRight, RowAsAsked, Asked, HasRow

LEMMA RightMemoryStep ==
    ASSUME RightMemory, OneAtATime, OneAtATime', NEW q \in Procs, Step(q)
    PROVE  RightMemory'
  <1>0. TypeOK
    BY DEF RightMemory, IInv, TypeInv
  <1>1. IInv'
    BY IInvStep DEF RightMemory, Next, Step
  <1>2. ListsAnnounced' /\ CachedInPass2'
    BY ListsStep, CachedInPass2Step DEF RightMemory
  <1>3. ASSUME NEW p \in Procs, NEW n \in Names PROVE CachedRight(p, n)'
    <2>1. CachedRight(p, n) /\ Asked(q)
      BY DEF RightMemory, CachedIsAnnounced, RowAsAsked
    <2>2. CASE p = q
      BY <2>1, <2>2, CachedStep DEF RightMemory
    <2>3. CASE p # q
      BY <1>0, <2>1, <2>3, OthersMemory DEF SameMemory, CachedRight
    <2> QED
      BY <2>2, <2>3
  <1>4. ASSUME NEW p \in Procs PROVE Asked(p)'
    <2>1. CASE pc'[p] \notin {"add", "gap"}
      BY <2>1 DEF Asked
    <2>2. CASE pc'[p] \in {"add", "gap"} /\ p = q
      BY <2>2, AskedStep DEF RightMemory, RowAsAsked
    <2>3. CASE pc'[p] \in {"add", "gap"} /\ p # q
      BY <1>0, <2>3, OthersIdle
    <2> QED
      BY <2>1, <2>2, <2>3
  <1> QED
    BY <1>1, <1>2, <1>3, <1>4 DEF RightMemory, CachedIsAnnounced, RowAsAsked

\* A session that has its DirInfo and has not ended.
Active == {"chk", "get", "rename"} \cup Pass2

\* A file is in one place of one list, or renamed and about to leave the first.
ListedOnce(p) ==
    /\ \A i, j \in DOMAIN todo[p] : todo[p][i].name = todo[p][j].name => i = j
    /\ \A i, j \in DOMAIN topull[p] :
          topull[p][i].name = topull[p][j].name => i = j
    /\ \A i \in DOMAIN todo[p], j \in DOMAIN topull[p] :
          todo[p][i].name = topull[p][j].name => pc[p] = "rename" /\ i = 1
    /\ \A i \in DOMAIN topull[p] : fmap[p][topull[p][i].name] = NoRow
    /\ \A i, j \in DOMAIN pull[p] : pull[p][i] = pull[p][j] => i = j

InList(s, n) == \E i \in DOMAIN s : s[i].name = n

\* The row of an announced file is not behind.
Settled(p, n) ==
    /\ HasRow(User(p), n)
    /\ \/ files[User(p)][n].md5 = folder[p][n].md5
       \/ files[User(p)][n].modtime >= folder[p][n].modtime
       \/ inode[folder[p][n].md5] > 0

SettledOrListed(p) ==
    \A n \in Names : folder[p][n] # NoRow =>
        InList(todo[p], n) \/ InList(topull[p], n) \/ Settled(p, n)

\* The row of a cached file stays, and is complete once the file is pushed.
CachedRowStays(p) ==
    \A n \in Names : fmap[p][n] # NoRow =>
        /\ HasRow(User(p), n) /\ files[User(p)][n].md5 = folder[p][n].md5
        /\ \/ \E i \in DOMAIN pull[p] : pull[p][i] = n
           \/ /\ files[User(p)][n].complete
              /\ \E i \in 1..Len(journal) :
                    journal[i] = [uid |-> User(p), name |-> n,
                                  md5 |-> folder[p][n].md5]

\* Between the steps of a file: what the one before has seen or done.
StepSeen(p) ==
    /\ pc[p] = "rename" => mode[p] = 0 /\ InList(topull[p], Head(todo[p]).name)
    /\ pc[p] \in {"row", "cmp", "rem", "add", "gap"} =>
           inode[Head(topull[p]).md5] = 0
    /\ pc[p] = "log" => HasRow(User(p), Head(topull[p]).name)
    /\ pc[p] \in {"push", "chunks", "inode", "complete", "commit"} =>
           topull[p] = <<>>
    /\ pc[p] = "commit" => files[User(p)][NextName(p)].complete

FileByFile ==
    \A p \in Procs : pc[p] \in Active =>
        /\ ListedOnce(p) /\ SettledOrListed(p) /\ CachedRowStays(p) /\ StepSeen(p)

\* A partial row of a content that has an inode is about to be completed.
PartialIsCompleted ==
    kills = 0 =>
        \A u \in Users, n \in Names :
            HasRow(u, n) /\ inode[files[u][n].md5] > 0 /\ ~files[u][n].complete =>
                \E p \in Procs : pc[p] = "complete" /\ Cached(p).md5 = files[u][n].md5

AloneInv == RightMemory /\ OneAtATime /\ FileByFile /\ PartialIsCompleted

-----------------------------------------------------------------------------
(* The steps of a session *)

\* The steps of a session that leave its memory alone, all but the step to
\* take next.
Keeps(q) ==
    \/ FoundRow(q) \/ CheckInode(q) \/ IncRef(q) \/ AddComplete(q)
    \/ CheckRow(q) \/ CompareRow(q) \/ RemoveRow(q) \/ AddPartial(q)
    \/ SendPull(q) \/ Preallocate(q) \/ WritePiece(q) \/ AddInode(q)
    \/ Complete(q)

LEMMA KeepsMemory ==
    ASSUME NEW q \in Procs, Keeps(q)
    PROVE  /\ UNCHANGED <<cid, mode, folder, todo, topull, pull, fmap, kills>>
           /\ pc[q] \in Active \ {"rename"}
           /\ journal' = journal
  BY DEF Keeps, FoundRow, CheckInode, Ready2, IncRef, AddComplete, CheckRow,
         CompareRow, RemoveRow, AddPartial, SendPull, Preallocate, Receiving,
         WritePiece, AddInode, Complete, dbVars, procVars, Active, Pass2

\* The steps that end with the session active.
LEMMA ActiveSteps ==
    ASSUME TypeOK, NEW q \in Procs, Step(q), pc'[q] \in Active
    PROVE  \/ \E d \in DirInfos : ReadDirInfo(q, d)
           \/ ChooseNew(q) \/ Compare(q) \/ Rename(q)
           \/ CommitKnown(q) \/ PullGaps(q) \/ RecordChunks(q) \/ CommitPulled(q)
           \/ Keeps(q)
  <1>1. ~Gone(q) /\ ~LowerFlag(q) /\ ~HangUp(q) /\ ~CloseInsidePiece(q)
    BY DEF Gone, LowerFlag, HangUp, CloseInsidePiece, TypeOK, Active, Pass2
  <1>2. \A c \in Clients, m \in {0, 1} : ~Start(q, c, m)
    BY DEF Start, TypeOK, Active, Pass2
  <1>3. ~ReadnAgain(q)
    BY DEF ReadnAgain, vars, procVars, Active, Pass2
  <1> QED
    BY <1>1, <1>2, <1>3
    DEF Step, Work, Peer, Kill, SendEmptyPull, OnExit, RowVanished, Abort,
        BadDirInfo, ReadFails, Keeps

\* A step within a session: it was active before, its user is the same.
LEMMA SessionStep ==
    ASSUME TypeOK, NEW q \in Procs, Step(q), pc'[q] \in Active,
           \A d \in DirInfos : ~ReadDirInfo(q, d)
    PROVE  /\ pc[q] \in Active
           /\ cid' = cid /\ mode' = mode /\ folder' = folder
           /\ User(q)' = User(q)
  BY ActiveSteps, KeepsMemory
  DEF ChooseNew, Compare, Rename, CommitKnown, PullGaps, RecordChunks,
      CommitPulled, Active, Pass2, User

-----------------------------------------------------------------------------
(* A session, conjunct by conjunct *)

\* What a session knows of itself before a step that keeps it active.
LEMMA SessionFacts ==
    ASSUME AloneInv, NEW q \in Procs, pc[q] \in Active
    PROVE  /\ IInv /\ TypeOK /\ WorkLists
           /\ ListedOnce(q) /\ SettledOrListed(q) /\ CachedRowStays(q)
           /\ StepSeen(q)
           /\ todo[q] \in Seq(Entry) /\ topull[q] \in Seq(Entry)
           /\ pull[q] \in Seq(Names)
           /\ User(q) \in Users /\ files \in Tables
           /\ \A i \in DOMAIN todo[q] : folder[q][todo[q][i].name] = todo[q][i]
           /\ \A i \in DOMAIN topull[q] : folder[q][topull[q][i].name] = topull[q][i]
  BY StateFacts
  DEF AloneInv, RightMemory, IInv, TypeInv, TypeOK, FileByFile, ListsAnnounced

\* The first file of topull, and the entries of the lists.
LEMMA EntryFacts ==
    ASSUME TypeOK, NEW q \in Procs
    PROVE  /\ \A i \in DOMAIN todo[q] : todo[q][i].name \in Names
           /\ \A i \in DOMAIN topull[q] : topull[q][i].name \in Names
           /\ \A i \in DOMAIN pull[q] : pull[q][i] \in Names
           /\ topull[q] # <<>> => /\ Head(topull[q]) = topull[q][1]
                                  /\ 1 \in DOMAIN topull[q]
           /\ todo[q] # <<>> => Head(todo[q]) = todo[q][1] /\ 1 \in DOMAIN todo[q]
           /\ pull[q] # <<>> => Head(pull[q]) = pull[q][1] /\ 1 \in DOMAIN pull[q]
  <1>1. todo[q] \in Seq(Entry) /\ topull[q] \in Seq(Entry) /\ pull[q] \in Seq(Names)
    BY DEF TypeOK
  <1>2. \A e \in Entry : e.name \in Names
    BY NameAssumption DEF Entry
  <1> QED
    BY <1>1, <1>2, ListFacts

\* ReadDirInfo: a DirInfo names a file once.
LEMMA ReadDirInfoSession ==
    ASSUME AloneInv, NEW q \in Procs, NEW d \in DirInfos, ReadDirInfo(q, d)
    PROVE  /\ ListedOnce(q)' /\ SettledOrListed(q)' /\ CachedRowStays(q)'
           /\ StepSeen(q)'
  <1>1. /\ TypeOK
        /\ topull[q] = <<>> /\ pull[q] = <<>> /\ fmap[q] = NoFiles
    BY DEF AloneInv, RightMemory, IInv, TypeInv, WorkLists, CachedInPass2, Pass1,
           ReadDirInfo
  <1>2. /\ todo'[q] = d /\ topull'[q] = <<>> /\ pull'[q] = <<>>
        /\ fmap'[q] = NoFiles /\ pc'[q] = "chk"
    BY <1>1 DEF ReadDirInfo, TypeOK
  <1>3. \A i, j \in DOMAIN d : d[i].name = d[j].name => i = j
    BY DEF DirInfos
  <1>4. \A n \in Names : folder'[q][n] # NoRow => InList(d, n)
    BY <1>1 DEF ReadDirInfo, TypeOK, InList
  <1>5. ListedOnce(q)'
    BY <1>2, <1>3 DEF ListedOnce
  <1>6. SettledOrListed(q)'
    BY <1>2, <1>4 DEF SettledOrListed, InList
  <1>7. CachedRowStays(q)' /\ StepSeen(q)'
    BY <1>2 DEF CachedRowStays, NoFiles, StepSeen
  <1> QED
    BY <1>5, <1>6, <1>7

\* ListedOnce: entries leave the head of a list for the end of the next one.
LEMMA ListedOnceStep ==
    ASSUME AloneInv, NEW q \in Procs, Step(q), pc[q] \in Active, pc'[q] \in Active,
           \A d \in DirInfos : ~ReadDirInfo(q, d)
    PROVE  ListedOnce(q)'
  <1>0. /\ TypeOK /\ WorkLists /\ ListedOnce(q)
        /\ todo[q] \in Seq(Entry) /\ topull[q] \in Seq(Entry)
        /\ pull[q] \in Seq(Names)
    BY SessionFacts
  <1>1. CASE Keeps(q)
    BY <1>0, <1>1, KeepsMemory DEF ListedOnce
  <1>2. CASE ChooseNew(q) \/ Compare(q)
    <2> DEFINE e == Head(todo[q])
    <2>1. /\ todo[q] # <<>> /\ pc[q] # "rename" /\ UNCHANGED <<pull, fmap>>
          /\ fmap[q] = NoFiles
      BY <1>0, <1>2
      DEF ChooseNew, Compare, WorkLists, AloneInv, RightMemory, CachedInPass2, Pass1
    <2>2. \/ /\ topull'[q] = Append(topull[q], e)
             /\ \/ todo'[q] = Tail(todo[q])
                \/ todo'[q] = todo[q] /\ pc'[q] = "rename"
          \/ topull'[q] = topull[q] /\ todo'[q] = Tail(todo[q])
      BY <1>0, <1>2 DEF ChooseNew, Compare, TypeOK
    <2>3. /\ e \in Entry /\ e = todo[q][1] /\ 1 \in DOMAIN todo[q]
          /\ \A i \in DOMAIN Tail(todo[q]) : /\ i + 1 \in DOMAIN todo[q] /\ i \in Nat
                                             /\ i + 1 # 1 /\ i >= 1
                                             /\ Tail(todo[q])[i] = todo[q][i + 1]
      BY <1>0, <2>1
    <2>4. \A i \in DOMAIN todo[q], j \in DOMAIN topull[q] :
              todo[q][i].name # topull[q][j].name
      BY <1>0, <2>1 DEF ListedOnce
    <2>5. \A i, j \in DOMAIN todo'[q] : todo'[q][i].name = todo'[q][j].name => i = j
      <3>1. CASE todo'[q] = todo[q]
        BY <1>0, <3>1 DEF ListedOnce
      <3>2. CASE todo'[q] = Tail(todo[q])
        BY <1>0, <2>3, <3>2, SMTT(30) DEF ListedOnce
      <3> QED
        BY <2>2, <3>1, <3>2
    <2>6. \A i, j \in DOMAIN topull'[q] :
              topull'[q][i].name = topull'[q][j].name => i = j
      <3>1. CASE topull'[q] = topull[q]
        BY <1>0, <3>1 DEF ListedOnce
      <3>2. CASE topull'[q] = Append(topull[q], e)
        BY <1>0, <2>3, <2>4, <3>2, AppendFacts DEF ListedOnce
      <3> QED
        BY <2>2, <3>1, <3>2
    <2>7. \A i \in DOMAIN todo'[q], j \in DOMAIN topull'[q] :
              todo'[q][i].name = topull'[q][j].name => pc'[q] = "rename" /\ i = 1
      <3> SUFFICES ASSUME NEW i \in DOMAIN todo'[q], NEW j \in DOMAIN topull'[q],
                          todo'[q][i].name = topull'[q][j].name
                   PROVE  pc'[q] = "rename" /\ i = 1
        OBVIOUS
      <3>1. CASE topull'[q] = topull[q] /\ todo'[q] = Tail(todo[q])
        BY <2>3, <2>4, <3>1
      <3>2. CASE topull'[q] = Append(topull[q], e)
        <4>1. j = Len(topull[q]) + 1 \/ j \in DOMAIN topull[q]
          BY <1>0, <2>3, <3>2, AppendFacts
        <4>2. j \in DOMAIN topull[q] => topull'[q][j] = topull[q][j]
          BY <1>0, <2>3, <3>2, AppendFacts
        <4>3. topull'[q][Len(topull[q]) + 1] = e
          BY <1>0, <2>3, <3>2, AppendFacts
        <4>4. CASE todo'[q] = Tail(todo[q])
          <5>1. i + 1 \in DOMAIN todo[q] /\ todo'[q][i] = todo[q][i + 1] /\ i + 1 # 1
            BY <2>3, <4>4
          <5>2. todo[q][i + 1].name # todo[q][1].name
            BY <1>0, <2>3, <5>1 DEF ListedOnce
          <5> QED
            BY <2>3, <2>4, <4>1, <4>2, <4>3, <5>1, <5>2
        <4>5. CASE todo'[q] = todo[q] /\ pc'[q] = "rename"
          <5>1. j = Len(topull[q]) + 1
            BY <2>4, <4>1, <4>2, <4>5
          <5>2. todo[q][i].name = todo[q][1].name
            BY <2>3, <4>3, <4>5, <5>1
          <5> QED
            BY <1>0, <2>3, <4>5, <5>2 DEF ListedOnce
        <4> QED
          BY <2>1, <2>2, <3>2, <4>4, <4>5
      <3> QED
        BY <2>2, <3>1, <3>2
    <2>8. \A i \in DOMAIN topull'[q] : fmap'[q][topull'[q][i].name] = NoRow
      <3>1. \A i \in DOMAIN topull'[q] : topull'[q][i].name \in Names
        <4>1. e.name \in Names /\ e \in Entry
          BY <2>3, NameAssumption DEF Entry
        <4>2. CASE topull'[q] = topull[q]
          BY <1>0, <4>2, EntryFacts
        <4>3. CASE topull'[q] = Append(topull[q], e)
          BY <1>0, <4>1, <4>3, EntryFacts, AppendFacts
        <4> QED
          BY <2>2, <4>2, <4>3
      <3> QED
        BY <2>1, <3>1 DEF NoFiles
    <2> QED
      BY <1>0, <2>1, <2>5, <2>6, <2>7, <2>8 DEF ListedOnce
  <1>3. CASE Rename(q)
    <2>1. /\ todo[q] # <<>> /\ todo'[q] = Tail(todo[q])
          /\ UNCHANGED <<topull, pull, fmap>>
      BY <1>0, <1>3 DEF Rename, WorkLists, TypeOK
    <2>2. \A i \in DOMAIN Tail(todo[q]) : /\ i + 1 \in DOMAIN todo[q] /\ i \in Nat
                                          /\ i + 1 # 1
                                          /\ Tail(todo[q])[i] = todo[q][i + 1]
      BY <1>0, <2>1
    <2> QED
      BY <1>0, <2>1, <2>2 DEF ListedOnce
  <1>4. CASE CommitKnown(q) \/ PullGaps(q)
    <2> DEFINE n == Head(topull[q]).name
    <2>1. /\ topull[q] # <<>> /\ topull'[q] = Tail(topull[q])
          /\ todo' = todo /\ todo[q] = <<>>
      BY <1>0, <1>4
      DEF CommitKnown, PullGaps, NextFile, WorkLists, TypeOK, AloneInv, RightMemory,
          CachedInPass2, Pass2
    <2>2. /\ \A i \in DOMAIN Tail(topull[q]) :
                /\ i + 1 \in DOMAIN topull[q] /\ i \in Nat /\ i + 1 # 1
                /\ Tail(topull[q])[i] = topull[q][i + 1]
          /\ Head(topull[q]) = topull[q][1] /\ 1 \in DOMAIN topull[q]
      BY <1>0, <2>1
    <2>3. \A i, j \in DOMAIN topull'[q] :
              topull'[q][i].name = topull'[q][j].name => i = j
      BY <1>0, <2>1, <2>2 DEF ListedOnce
    <2>4. \A i \in DOMAIN topull'[q] :
              /\ topull'[q][i].name # n
              /\ topull'[q][i].name \in Names
              /\ fmap[q][topull'[q][i].name] = NoRow
      BY <1>0, <2>1, <2>2, EntryFacts DEF ListedOnce
    <2>5. CASE CommitKnown(q)
      BY <1>0, <2>1, <2>3, <2>4, <2>5 DEF CommitKnown, ListedOnce
    <2>6. CASE PullGaps(q)
      <3>1. n \in Names /\ fmap[q][n] = NoRow
        BY <1>0, <2>2, EntryFacts DEF ListedOnce
      <3>2. \A i \in DOMAIN pull[q] : pull[q][i] # n
        BY <1>0, <3>1 DEF WorkLists
      <3>3. pull'[q] = pull[q] \/ pull'[q] = Append(pull[q], n)
        BY <1>0, <2>6 DEF PullGaps, TypeOK
      <3>4. \A i, j \in DOMAIN pull'[q] : pull'[q][i] = pull'[q][j] => i = j
        <4>1. CASE pull'[q] = pull[q]
          BY <1>0, <4>1 DEF ListedOnce
        <4>2. CASE pull'[q] = Append(pull[q], n)
          BY <1>0, <3>1, <3>2, <4>2, AppendFacts DEF ListedOnce
        <4> QED
          BY <3>3, <4>1, <4>2
      <3>5. \A x \in Names : x # n => fmap'[q][x] = fmap[q][x]
        BY <1>0, <2>6 DEF PullGaps, TypeOK
      <3> QED
        BY <2>1, <2>3, <2>4, <3>4, <3>5 DEF ListedOnce
    <2> QED
      BY <1>4, <2>5, <2>6
  <1>5. CASE RecordChunks(q)
    <2>1. /\ UNCHANGED <<todo, topull, pull>> /\ pull[q] # <<>>
          /\ topull[q] = <<>> /\ pc[q] # "rename"
      BY <1>0, <1>5, SessionFacts DEF RecordChunks, WorkLists, StepSeen
    <2> QED
      BY <1>0, <2>1 DEF ListedOnce
  <1>6. CASE CommitPulled(q)
    <2>1. /\ UNCHANGED <<todo, topull, fmap>> /\ pc[q] # "rename"
          /\ pull[q] # <<>> /\ pull'[q] = Tail(pull[q])
      BY <1>0, <1>6 DEF CommitPulled, WorkLists, TypeOK
    <2>2. \A i \in DOMAIN Tail(pull[q]) : /\ i + 1 \in DOMAIN pull[q] /\ i \in Nat
                                          /\ Tail(pull[q])[i] = pull[q][i + 1]
      BY <1>0, <2>1
    <2> QED
      BY <1>0, <2>1, <2>2, SMTT(30) DEF ListedOnce
  <1> QED
    BY <1>0, <1>1, <1>2, <1>3, <1>4, <1>5, <1>6, ActiveSteps

\* The names of a list after it loses its first entry or gains a last one.
LEMMA InTail ==
    ASSUME NEW S, NEW s \in Seq(S), s # <<>>, NEW n, InList(s, n)
    PROVE  Head(s).name = n \/ InList(Tail(s), n)
  <1>1. PICK i \in DOMAIN s : s[i].name = n
    BY DEF InList
  <1>2. CASE i = 1
    BY <1>1, <1>2
  <1>3. CASE i # 1
    <2>1. i - 1 \in DOMAIN Tail(s) /\ Tail(s)[i - 1] = s[i]
      BY <1>3
    <2> QED
      BY <1>1, <2>1 DEF InList
  <1> QED
    BY <1>2, <1>3

LEMMA InAppend ==
    ASSUME NEW S, NEW s \in Seq(S), NEW e \in S, NEW n, InList(s, n) \/ e.name = n
    PROVE  InList(Append(s, e), n)
  <1>1. CASE InList(s, n)
    BY <1>1, AppendFacts DEF InList
  <1>2. CASE e.name = n
    BY <1>2, AppendFacts DEF InList
  <1> QED
    BY <1>1, <1>2

\* What has settled stays so while its row is not touched.
LEMMA SettledStays ==
    ASSUME AloneInv, NEW q \in Procs, Step(q), pc[q] \in Active, pc'[q] \in Active,
           \A d \in DirInfos : ~ReadDirInfo(q, d),
           NEW n \in Names, folder[q][n] # NoRow, Settled(q, n),
           SameRow(User(q), n)
    PROVE  Settled(q, n)'
  <1>1. TypeOK /\ IInv
    BY SessionFacts
  <1>2. folder[q][n].md5 \in Contents /\ folder[q][n] \in Entry
    BY <1>1 DEF TypeOK, Entry
  <1>3. inode[folder[q][n].md5] > 0 => inode'[folder[q][n].md5] > 0
    BY <1>1, <1>2, InodeSteps DEF Remains
  <1>4. User(q)' = User(q) /\ folder' = folder
    BY <1>1, SessionStep
  <1> QED
    BY <1>3, <1>4 DEF Settled, SameRow, HasRow

\* SettledOrListed: pass 1 drops an entry whose row is not behind, pass 2 one
\* whose row it has just added or cached.
LEMMA SettledStep ==
    ASSUME AloneInv, NEW q \in Procs, Step(q), pc[q] \in Active, pc'[q] \in Active,
           \A d \in DirInfos : ~ReadDirInfo(q, d)
    PROVE  SettledOrListed(q)'
  <1>0. /\ IInv /\ TypeOK /\ WorkLists /\ SettledOrListed(q) /\ StepSeen(q)
        /\ todo[q] \in Seq(Entry) /\ topull[q] \in Seq(Entry)
        /\ files \in Tables /\ User(q) \in Users
        /\ \A i \in DOMAIN todo[q] : folder[q][todo[q][i].name] = todo[q][i]
        /\ \A i \in DOMAIN topull[q] : folder[q][topull[q][i].name] = topull[q][i]
    BY SessionFacts
  <1>1. folder' = folder /\ User(q)' = User(q)
    BY <1>0, SessionStep
  <1> SUFFICES ASSUME NEW n \in Names, folder[q][n] # NoRow
               PROVE  InList(todo'[q], n) \/ InList(topull'[q], n) \/ Settled(q, n)'
    BY <1>1 DEF SettledOrListed
  <1>2. InList(todo[q], n) \/ InList(topull[q], n) \/ Settled(q, n)
    BY <1>0 DEF SettledOrListed
  <1>3. CASE Keeps(q)
    <2>1. todo' = todo /\ topull' = topull /\ ~Rename(q)
      BY <1>3, KeepsMemory DEF Rename
    <2>2. CASE pc[q] \in {"dup", "rem", "add"} /\ n = Head(topull[q]).name
      BY <1>0, <2>1, <2>2, EntryFacts DEF WorkLists, InList
    <2>3. CASE ~(pc[q] \in {"dup", "rem", "add"} /\ n = Head(topull[q]).name)
      BY <1>0, <1>2, <2>1, <2>3, RowSteps, SettledStays
    <2> QED
      BY <2>2, <2>3
  <1>4. CASE ChooseNew(q) \/ Compare(q)
    <2> DEFINE e == Head(todo[q])
    <2>1. todo[q] # <<>> /\ files' = files /\ ~Rename(q) /\ inode' = inode
      BY <1>0, <1>4 DEF ChooseNew, Compare, Rename, WorkLists, dbVars
    <2>2. e \in Entry /\ folder[q][e.name] = e
      BY <1>0, <2>1, ListFacts
    <2>3. \/ topull'[q] = Append(topull[q], e)
          \/ topull'[q] = topull[q] /\ Settled(q, e.name)
      <3>1. CASE ChooseNew(q)
        BY <1>0, <3>1 DEF ChooseNew, TypeOK
      <3>2. CASE Compare(q) /\ Newer(e, files[User(q)][e.name])
        BY <1>0, <3>2 DEF Compare, TypeOK
      <3>3. CASE Compare(q) /\ ~Newer(e, files[User(q)][e.name])
        <4>1. files[User(q)][e.name] \in Row
          BY <1>0, <2>2, <3>3, NameAssumption DEF Compare, Tables, MaybeRow, Entry
        <4>2. Settled(q, e.name)
          BY <2>2, <3>3, <4>1, SMTT(30)
          DEF Compare, Newer, Settled, HasRow, Entry, Row
        <4> QED
          BY <1>0, <3>3, <4>2 DEF Compare, TypeOK
      <3> QED
        BY <1>4, <3>1, <3>2, <3>3
    <2>4. todo'[q] = todo[q] \/ todo'[q] = Tail(todo[q])
      BY <1>0, <1>4 DEF ChooseNew, Compare, TypeOK
    <2>5. Settled(q, n) => Settled(q, n)'
      BY <1>1, <2>1 DEF Settled, HasRow
    <2>6. InList(topull[q], n) => InList(topull'[q], n)
      <3>1. CASE topull'[q] = Append(topull[q], e)
        BY <1>0, <2>2, <3>1, InAppend
      <3>2. CASE topull'[q] = topull[q]
        BY <3>2
      <3> QED
        BY <2>3, <3>1, <3>2
    <2>7. ASSUME InList(todo[q], n), ~InList(todo'[q], n)
          PROVE  InList(topull'[q], n) \/ Settled(q, n)'
      <3>1. e.name = n
        BY <1>0, <2>1, <2>4, <2>7, InTail
      <3>2. CASE topull'[q] = Append(topull[q], e)
        BY <1>0, <2>2, <3>1, <3>2, InAppend
      <3>3. CASE Settled(q, e.name)
        BY <2>5, <3>1, <3>3
      <3> QED
        BY <2>3, <3>2, <3>3
    <2> QED
      BY <1>2, <2>5, <2>6, <2>7
  <1>5. CASE Rename(q)
    <2> DEFINE h == Head(todo[q]).name
    <2>1. /\ todo[q] # <<>> /\ todo'[q] = Tail(todo[q])
          /\ topull' = topull /\ inode' = inode
      BY <1>0, <1>5 DEF Rename, WorkLists, TypeOK
    <2>2. InList(topull[q], h)
      BY <1>0, <1>5 DEF StepSeen, Rename
    <2>3. InList(todo[q], n) => n = h \/ InList(todo'[q], n)
      BY <1>0, <2>1, InTail
    <2>4. Settled(q, n) /\ n # h => Settled(q, n)'
      <3>1. ASSUME n # h, HasRow(User(q), n)
            PROVE  files'[User(q)][n] = files[User(q)][n]
        <4>1. CASE chkFilePath(User(q), Old[h])
          BY <1>5, <4>1 DEF Rename, fileRename
        <4>2. CASE ~chkFilePath(User(q), Old[h])
          BY <1>0, <1>5, <3>1, <4>2
          DEF Rename, fileRename, chkFilePath, HasRow, Tables
        <4> QED
          BY <4>1, <4>2
      <3> QED
        BY <1>1, <2>1, <3>1 DEF Settled, HasRow
    <2> QED
      BY <1>2, <2>1, <2>2, <2>3, <2>4
  <1>6. CASE CommitKnown(q) \/ PullGaps(q)
    <2> DEFINE e == Head(topull[q])
    <2>1. /\ topull[q] # <<>> /\ topull'[q] = Tail(topull[q]) /\ todo' = todo
          /\ ~Rename(q) /\ pc[q] \notin {"dup", "rem", "add"}
      BY <1>0, <1>6 DEF CommitKnown, PullGaps, NextFile, WorkLists, TypeOK, Rename
    <2>2. e \in Entry /\ folder[q][e.name] = e
      BY <1>0, <2>1, ListFacts
    <2>3. Settled(q, e.name)
      <3>1. CASE CommitKnown(q)
        BY <1>0, <2>2, <3>1
        DEF CommitKnown, Settled, StepSeen, IInv, InodeKept
      <3>2. CASE PullGaps(q)
        BY <2>2, <3>2
        DEF PullGaps, Settled, HasRow, AloneInv, RightMemory, RowAsAsked, Asked
      <3> QED
        BY <1>6, <3>1, <3>2
    <2>4. Settled(q, n) => Settled(q, n)'
      BY <1>0, <2>1, RowSteps, SettledStays
    <2>5. InList(topull[q], n) => e.name = n \/ InList(topull'[q], n)
      BY <1>0, <2>1, InTail
    <2> QED
      BY <1>2, <2>1, <2>3, <2>4, <2>5
  <1>7. CASE RecordChunks(q) \/ CommitPulled(q)
    <2>1. /\ todo' = todo /\ topull' = topull
          /\ ~Rename(q) /\ pc[q] \notin {"dup", "rem", "add"}
      BY <1>7 DEF RecordChunks, CommitPulled, Rename
    <2> QED
      BY <1>0, <1>2, <2>1, RowSteps, SettledStays
  <1> QED
    BY <1>0, <1>3, <1>4, <1>5, <1>6, <1>7, ActiveSteps

\* The journal only grows.
LEMMA JournalKept ==
    ASSUME IInv, NEW q \in Procs, Step(q), pc[q] \in Active, pc'[q] \in Active
    PROVE  \A i \in 1..Len(journal) :
               i \in 1..Len(journal') /\ journal'[i] = journal[i]
  <1>0. journal \in Seq(Commit) /\ TypeOK
    BY DEF IInv, TypeInv, TypeOK, DBTypeOK
  <1>1. CASE journal' = journal
    BY <1>1
  <1>2. CASE CommitKnown(q) \/ CommitPulled(q)
    <2>1. PICK c : journal' = Append(journal, c)
      BY <1>2 DEF CommitKnown, CommitPulled, journalCommit
    <2> QED
      BY <1>0, <2>1
  <1>3. ASSUME NEW d \in DirInfos, ReadDirInfo(q, d) PROVE journal' = journal
    BY <1>3 DEF ReadDirInfo, dbVars
  <1>4. ChooseNew(q) \/ Compare(q) \/ Rename(q) \/ PullGaps(q) \/ RecordChunks(q)
            => journal' = journal
    BY DEF ChooseNew, Compare, Rename, PullGaps, RecordChunks, dbVars
  <1> QED
    BY <1>0, <1>1, <1>2, <1>3, <1>4, ActiveSteps, KeepsMemory

\* CachedRowStays: what is cached is not removed, and completed before it
\* leaves the Pull.
LEMMA CachedRowStep ==
    ASSUME AloneInv, NEW q \in Procs, Step(q), pc[q] \in Active, pc'[q] \in Active,
           \A d \in DirInfos : ~ReadDirInfo(q, d)
    PROVE  CachedRowStays(q)'
  <1>0. /\ IInv /\ TypeOK /\ WorkLists /\ CachedRowStays(q) /\ StepSeen(q)
        /\ ListedOnce(q)
        /\ topull[q] \in Seq(Entry) /\ pull[q] \in Seq(Names)
        /\ files \in Tables /\ User(q) \in Users
        /\ \A i \in DOMAIN topull[q] : folder[q][topull[q][i].name] = topull[q][i]
    BY SessionFacts
  <1>1. folder' = folder /\ User(q)' = User(q)
    BY <1>0, SessionStep
  <1> DEFINE Stays(n) ==
        /\ HasRow(User(q), n) /\ files[User(q)][n].md5 = folder[q][n].md5
        /\ \/ \E i \in DOMAIN pull[q] : pull[q][i] = n
           \/ /\ files[User(q)][n].complete
              /\ \E i \in 1..Len(journal) :
                    journal[i] = [uid |-> User(q), name |-> n,
                                  md5 |-> folder[q][n].md5]
  <1> SUFFICES ASSUME NEW n \in Names, fmap'[q][n] # NoRow PROVE Stays(n)'
    BY DEF CachedRowStays
  <1>2. \/ fmap[q][n] = NoRow
        \/ Stays(n)
    BY <1>0 DEF CachedRowStays
  <1>3. ASSUME Stays(n), SameRow(User(q), n),
               \A i \in DOMAIN pull[q] : /\ i \in DOMAIN pull'[q]
                                         /\ pull'[q][i] = pull[q][i]
        PROVE  Stays(n)'
    <2>1. \A i \in 1..Len(journal) :
              i \in 1..Len(journal') /\ journal'[i] = journal[i]
      BY <1>0, JournalKept
    <2> HIDE DEF Stays
    <2>2. HasRow(User(q), n)' /\ files'[User(q)'][n].md5 = folder'[q][n].md5
      BY <1>1, <1>3 DEF Stays, SameRow, HasRow
    <2>3. CASE \E i \in DOMAIN pull[q] : pull[q][i] = n
      BY <1>3, <2>2, <2>3 DEF Stays
    <2>4. CASE ~\E i \in DOMAIN pull[q] : pull[q][i] = n
      <3>1. files'[User(q)'][n].complete
        BY <1>1, <1>3, <2>4 DEF Stays, SameRow, HasRow
      <3>2. PICK i \in 1..Len(journal) :
                journal[i] = [uid |-> User(q), name |-> n, md5 |-> folder[q][n].md5]
        BY <1>3, <2>4 DEF Stays
      <3> QED
        BY <1>1, <2>1, <2>2, <3>1, <3>2 DEF Stays
    <2> QED
      BY <2>3, <2>4
  <1> HIDE DEF Stays
  <1>4. CASE Keeps(q)
    <2>1. fmap' = fmap /\ pull' = pull /\ ~Rename(q)
      BY <1>4, KeepsMemory DEF Rename
    <2>2. pc[q] \in {"dup", "rem", "add"} => n # Head(topull[q]).name
      BY <1>0, <2>1, EntryFacts DEF ListedOnce, WorkLists
    <2> QED
      BY <1>0, <1>2, <1>3, <2>1, <2>2, RowSteps
  <1>5. CASE ChooseNew(q) \/ Compare(q) \/ Rename(q)
    <2>1. fmap' = fmap /\ pc[q] \in Pass1
      BY <1>5 DEF ChooseNew, Compare, Rename, Pass1
    <2> QED
      BY <2>1 DEF AloneInv, RightMemory, CachedInPass2, NoFiles
  <1>6. CASE CommitKnown(q)
    <2>1. /\ fmap' = fmap /\ pull' = pull /\ ~Rename(q)
          /\ pc[q] \notin {"dup", "rem", "add"}
      BY <1>6 DEF CommitKnown, Rename
    <2> QED
      BY <1>0, <1>2, <1>3, <2>1, RowSteps
  <1>7. CASE PullGaps(q)
    <2> DEFINE h == Head(topull[q]).name
               row == files[User(q)][h]
    <2>1. /\ topull[q] # <<>> /\ row # NoRow /\ h \in Names
          /\ folder[q][h] = Head(topull[q]) /\ row.md5 = Head(topull[q]).md5
      BY <1>0, <1>7, EntryFacts
      DEF PullGaps, WorkLists, AloneInv, RightMemory, RowAsAsked, Asked, HasRow
    <2>2. row.chunks < Size[row.md5]
      BY <1>0, <2>1 DEF IInv, TypeInv, ChunkBounds, HasRow
    <2>3. pull'[q] = Append(pull[q], h)
      BY <1>0, <1>7, <2>2 DEF PullGaps, TypeOK
    <2>4. files' = files /\ SameRow(User(q), n)
      BY <1>7 DEF PullGaps, dbVars, SameRow, HasRow
    <2>5. /\ \A i \in DOMAIN pull[q] : /\ i \in DOMAIN pull'[q]
                                       /\ pull'[q][i] = pull[q][i]
          /\ \E i \in DOMAIN pull'[q] : pull'[q][i] = h
      BY <1>0, <2>1, <2>3, AppendFacts, SMTT(30)
    <2>6. CASE n = h
      BY <1>1, <2>1, <2>4, <2>5, <2>6 DEF Stays, HasRow
    <2>7. CASE n # h
      <3>1. fmap'[q][n] = fmap[q][n]
        BY <1>0, <1>7, <2>1, <2>7 DEF PullGaps, TypeOK
      <3> QED
        BY <1>2, <1>3, <2>4, <2>5, <3>1
    <2> QED
      BY <2>6, <2>7
  <1>8. CASE RecordChunks(q)
    <2>1. /\ pull[q] # <<>> /\ pull' = pull /\ ~Rename(q)
          /\ pc[q] \notin {"dup", "rem", "add"}
      BY <1>0, <1>8 DEF RecordChunks, WorkLists, Rename
    <2>2. fmap[q][n] # NoRow
      BY <1>0, <1>8, <2>1, EntryFacts DEF RecordChunks, TypeOK, WorkLists, NextName
    <2> QED
      BY <1>0, <1>2, <1>3, <2>1, <2>2, RowSteps
  <1>9. CASE CommitPulled(q)
    <2>1. /\ pull[q] # <<>> /\ pull'[q] = Tail(pull[q]) /\ fmap' = fmap
          /\ files' = files
          /\ journal' = Append(journal, [uid |-> User(q), name |-> NextName(q),
                                         md5 |-> Cached(q).md5])
      BY <1>0, <1>9 DEF CommitPulled, WorkLists, TypeOK, journalCommit
    <2>2. SameRow(User(q), n) /\ Stays(n)
      BY <1>2, <2>1 DEF SameRow, HasRow
    <2>3. CASE n = NextName(q)
      <3>1. Cached(q).md5 = folder[q][n].md5
        BY <2>1, <2>3 DEF AloneInv, RightMemory, CachedIsAnnounced, CachedRight, Cached
      <3>2. files[User(q)][n].complete
        BY <1>0, <1>9, <2>3 DEF CommitPulled, StepSeen
      <3>3. \E i \in 1..Len(journal') :
               journal'[i] = [uid |-> User(q), name |-> n, md5 |-> folder[q][n].md5]
        <4>1. journal \in Seq(Commit)
          BY <1>0 DEF TypeOK, DBTypeOK
        <4> QED
          BY <2>1, <2>3, <3>1, <4>1
      <3> QED
        BY <1>1, <2>1, <2>2, <3>2, <3>3 DEF Stays, HasRow
    <2>4. CASE n # NextName(q) /\ \E i \in DOMAIN pull[q] : pull[q][i] = n
      <3>1. PICK i \in DOMAIN pull[q] : pull[q][i] = n
        BY <2>4
      <3>2. i # 1
        BY <1>0, <2>1, <2>4, <3>1, EntryFacts DEF NextName
      <3>3. i - 1 \in DOMAIN pull'[q] /\ pull'[q][i - 1] = n
        BY <1>0, <2>1, <3>1, <3>2
      <3> QED
        BY <1>1, <2>1, <2>2, <3>3 DEF Stays, HasRow
    <2>5. CASE n # NextName(q) /\ ~\E i \in DOMAIN pull[q] : pull[q][i] = n
      <3>1. files[User(q)][n].complete
        BY <2>2, <2>5 DEF Stays
      <3>2. PICK i \in 1..Len(journal) :
                journal[i] = [uid |-> User(q), name |-> n, md5 |-> folder[q][n].md5]
        BY <2>2, <2>5 DEF Stays
      <3>3. i \in 1..Len(journal') /\ journal'[i] = journal[i]
        BY <1>0, JournalKept
      <3> QED
        BY <1>1, <2>1, <2>2, <3>1, <3>2, <3>3 DEF Stays, HasRow
    <2> QED
      BY <2>3, <2>4, <2>5
  <1> QED
    BY <1>0, <1>4, <1>5, <1>6, <1>7, <1>8, <1>9, ActiveSteps

\* StepSeen: no other session changes what a step has seen.
LEMMA StepSeenStep ==
    ASSUME AloneInv, NEW q \in Procs, Step(q), pc[q] \in Active, pc'[q] \in Active,
           \A d \in DirInfos : ~ReadDirInfo(q, d)
    PROVE  StepSeen(q)'
  <1>0. /\ IInv /\ TypeOK /\ WorkLists /\ StepSeen(q) /\ CachedRowStays(q)
        /\ todo[q] \in Seq(Entry) /\ topull[q] \in Seq(Entry)
        /\ files \in Tables /\ User(q) \in Users
    BY SessionFacts
  <1>1. /\ folder' = folder /\ mode' = mode /\ User(q)' = User(q)
    BY <1>0, SessionStep
  <1>2. CASE ChooseNew(q) \/ FoundRow(q) \/ Rename(q)
    BY <1>0, <1>2 DEF ChooseNew, FoundRow, Rename, StepSeen, TypeOK
  <1>3. CASE Compare(q)
    <2>1. pc'[q] \in {"chk", "rename"}
      BY <1>0, <1>3 DEF Compare, TypeOK
    <2>2. CASE pc'[q] = "rename"
      <3>1. mode[q] = 0 /\ Head(todo[q]) \in Entry
            /\ topull'[q] = Append(topull[q], Head(todo[q])) /\ todo' = todo
        BY <1>0, <1>3, <2>2, ListFacts DEF Compare, TypeOK, WorkLists
      <3>2. InList(topull'[q], Head(todo[q]).name)
        BY <1>0, <3>1, InAppend
      <3> QED
        BY <1>1, <2>2, <3>1, <3>2 DEF StepSeen
    <2> QED
      BY <2>1, <2>2 DEF StepSeen
  <1>4. CASE CheckInode(q)
    <2>1. /\ pc'[q] \in {"inc", "row"} /\ topull' = topull /\ inode' = inode
          /\ pc'[q] = "row" => ~(inode[Head(topull[q]).md5] > 0)
      BY <1>0, <1>4 DEF CheckInode, TypeOK, dbVars, chkFileInodeExist
    <2>2. inode[Head(topull[q]).md5] \in Nat
      BY <1>0, <1>4, HeadFacts DEF CheckInode, Ready2, TypeOK, DBTypeOK
    <2> QED
      BY <2>1, <2>2 DEF StepSeen
  <1>5. CASE IncRef(q) \/ SendPull(q)
    BY <1>0, <1>5 DEF IncRef, SendPull, StepSeen, TypeOK
  <1>6. CASE CheckRow(q) \/ CompareRow(q) \/ RemoveRow(q) \/ AddPartial(q)
    <2>1. /\ pc[q] \in {"row", "cmp", "rem", "add"} /\ topull' = topull
          /\ inode' = inode /\ pc'[q] \in {"cmp", "rem", "add", "gap"}
      BY <1>0, <1>6
      DEF CheckRow, CompareRow, RemoveRow, AddPartial, TypeOK, dbVars
    <2> QED
      BY <1>0, <2>1 DEF StepSeen
  <1>7. CASE AddComplete(q)
    <2>1. pc'[q] = "log" /\ topull' = topull
      BY <1>0, <1>7 DEF AddComplete, TypeOK
    <2>2. files'[User(q)][Head(topull[q]).name] # NoRow
      BY <1>0, <1>7, AddedRow DEF AddComplete, WorkLists
    <2> QED
      BY <1>1, <2>1, <2>2 DEF StepSeen, HasRow
  <1>8. CASE CommitKnown(q) \/ PullGaps(q)
    <2>1. pc'[q] = "ino"
      BY <1>0, <1>8 DEF CommitKnown, PullGaps, TypeOK
    <2> QED
      BY <2>1 DEF StepSeen
  <1>9. CASE \/ Preallocate(q) \/ WritePiece(q) \/ RecordChunks(q) \/ AddInode(q)
             \/ CommitPulled(q)
    <2>1. /\ pc[q] \in {"push", "chunks", "inode", "commit"} /\ topull' = topull
          /\ pc'[q] \in {"push", "chunks", "inode", "complete"}
      BY <1>0, <1>9
      DEF Preallocate, Receiving, WritePiece, AfterPiece, RecordChunks, AddInode,
          CommitPulled, TypeOK, procVars
    <2> QED
      BY <1>0, <2>1 DEF StepSeen
  <1>10. CASE Complete(q)
    <2> DEFINE n == NextName(q)
    <2>1. /\ pull[q] # <<>> /\ n \in Names /\ Cached(q).md5 \in Contents
          /\ fmap[q][n] # NoRow /\ Cached(q) = fmap[q][n]
      <3>1. pull[q] # <<>>
        BY <1>0, <1>10 DEF Complete, WorkLists
      <3>2. 1 \in DOMAIN pull[q] /\ NextName(q) = pull[q][1]
        BY <1>0, <3>1, EntryFacts DEF NextName
      <3> QED
        BY <1>0, <3>1, <3>2, CachedFacts DEF IInv, WorkLists, Cached
    <2>2. HasRow(User(q), n) /\ files[User(q)][n].md5 = Cached(q).md5
      BY <1>0, <2>1
      DEF CachedRowStays, AloneInv, RightMemory, CachedIsAnnounced, CachedRight
    <2>3. files'[User(q)][n] = Completed(files[User(q)][n])
      BY <1>0, <1>10, <2>1, <2>2 DEF Complete, completeFile, HasRow
    <2>4. files[User(q)][n] \in Row
      BY <1>0, <2>1, <2>2 DEF Tables, MaybeRow, HasRow
    <2>5. files'[User(q)][n].complete
      BY <2>3, <2>4, RowFacts
    <2>6. /\ pc'[q] = "commit" /\ topull' = topull /\ pull' = pull
          /\ topull[q] = <<>>
      BY <1>0, <1>10 DEF Complete, TypeOK, StepSeen
    <2> QED
      BY <1>1, <2>5, <2>6 DEF StepSeen, NextName
  <1> QED
    BY <1>0, <1>2, <1>3, <1>4, <1>5, <1>6, <1>7, <1>8, <1>9, <1>10, ActiveSteps
    DEF Keeps

-----------------------------------------------------------------------------
(* The last steps of a file *)

\* The steps on a file whose content has just got its inode.
LEMMA LastSteps ==
    ASSUME NEW q \in Procs, Step(q), ~Kill(q)
    PROVE  /\ pc[q] = "inode" => AddInode(q)
           /\ pc[q] = "complete" => Complete(q)
  BY DEF Step, Work, Peer, Start, ReadDirInfo, SendEmptyPull, NothingChosen,
         NothingToPull, OnExit, ChooseNew, FoundRow, Compare, Rename, RowVanished,
         CheckInode, Ready2, IncRef, AddComplete, CommitKnown, CheckRow,
         CompareRow, RemoveRow, AddPartial, PullGaps, SendPull, RecordChunks,
         AddInode, Complete, CommitPulled, ReadnAgain, BadDirInfo, Preallocate,
         WritePiece, Receiving, HangUp, ReadFails, CloseInsidePiece

\* PartialIsCompleted: without kills AddInode is followed by Complete.
LEMMA PartialStep ==
    ASSUME AloneInv, OneAtATime', NEW q \in Procs, Step(q)
    PROVE  PartialIsCompleted'
  <1>0. /\ IInv /\ TypeOK /\ files \in Tables /\ kills \in Nat
        /\ inode \in [Contents -> Nat]
    BY StateFacts DEF AloneInv, RightMemory, IInv, TypeInv, TypeOK, DBTypeOK
  <1> SUFFICES ASSUME kills' = 0, NEW u \in Users, NEW n \in Names,
                      files'[u][n] # NoRow, inode'[files'[u][n].md5] > 0,
                      ~files'[u][n].complete
               PROVE  \E p \in Procs : /\ pc'[p] = "complete"
                                       /\ Cached(p).md5' = files'[u][n].md5
    BY DEF PartialIsCompleted, HasRow
  <1> DEFINE m == files'[u][n].md5
  <1>1. kills = 0 /\ ~Kill(q)
    <2>1. ~Kill(q)
      BY <1>0 DEF Kill
    <2>2. kills' = kills
      BY <2>1
      DEF Step, Work, Peer, Start, ReadDirInfo, SendEmptyPull, LowerFlag, OnExit,
          ChooseNew, FoundRow, Compare, Rename, RowVanished, Abort, CheckInode,
          IncRef, AddComplete, CommitKnown, CheckRow, CompareRow, RemoveRow,
          AddPartial, PullGaps, SendPull, RecordChunks, AddInode, Complete,
          CommitPulled, ReadnAgain, BadDirInfo, Preallocate, WritePiece, HangUp,
          ReadFails, CloseInsidePiece, vars
    <2> QED
      BY <2>1, <2>2
  <1>2. \A p \in Procs : p # q => pc[p] = "idle"
    BY <1>0, OthersIdle DEF AloneInv
  <1>3. ASSUME NEW v \in Users, NEW x \in Names, HasRow(v, x),
               inode[files[v][x].md5] > 0, ~files[v][x].complete
        PROVE  pc[q] = "complete" /\ Cached(q).md5 = files[v][x].md5
    BY <1>1, <1>2, <1>3 DEF AloneInv, PartialIsCompleted
  <1>4. m \in Contents
    <2>1. files'[u][n] \in Row
      BY IInvStep DEF AloneInv, RightMemory, IInv, TypeInv, TypeOK, DBTypeOK, Next, Step
    <2> QED
      BY <2>1 DEF Row
  <1>5. pc[q] # "inode" => inode[m] > 0
    BY <1>0, <1>4, InodeSteps
  <1>6. CASE SameRow(u, n)
    <2>1. HasRow(u, n) /\ files[u][n].md5 = m /\ ~files[u][n].complete
      BY <1>6 DEF SameRow
    <2>2. CASE pc[q] = "inode"
      <3> DEFINE k == Cached(q).md5
      <3>1. AddInode(q)
        BY <1>1, <2>2, LastSteps
      <3>2. k \in Contents
        BY <1>0, <3>1, StateFacts, CachedFacts DEF AddInode
      <3>3. \A x \in Contents \ {k} : inode'[x] = inode[x]
        BY <1>0, <3>1, <3>2 DEF AddInode, addInodeFile, chkFileInodeExist
      <3>4. m = k
        BY <1>3, <1>4, <2>1, <2>2, <3>3
      <3> QED
        BY <1>0, <3>1, <3>4 DEF AddInode, TypeOK, Cached, NextName
    <2>3. CASE pc[q] # "inode"
      <3>1. pc[q] = "complete" /\ Cached(q).md5 = m
        BY <1>3, <1>5, <2>1, <2>3
      <3>2. Complete(q)
        BY <1>1, <3>1, LastSteps
      <3>3. files'[u][n] = Completed(files[u][n])
        BY <2>1, <3>1, <3>2 DEF Complete, completeFile, HasRow
      <3>4. files[u][n] \in Row
        BY <1>0, <2>1 DEF Tables, MaybeRow, HasRow
      <3> QED
        BY <3>3, <3>4, RowFacts
    <2> QED
      BY <2>2, <2>3
  <1>7. CASE Rename(q)
    <2>1. Head(todo[q]) \in Entry /\ pc[q] = "rename"
      BY <1>0, <1>7, ListFacts DEF Rename, IInv, TypeInv, TypeOK, WorkLists
    <2>2. Head(todo[q]).name \in Names /\ Old[Head(todo[q]).name] \in Names
      BY <2>1, NameAssumption DEF Entry
    <2>3. PICK y \in Names : files'[u][n] = files[u][y]
      BY <1>0, <1>7, <2>2, StateFacts, fileRenameRows DEF Rename
    <2> QED
      BY <1>3, <1>5, <2>1, <2>3 DEF HasRow
  <1>8. CASE /\ ~SameRow(u, n) /\ ~Rename(q)
    <2>1. /\ pc[q] \in {"dup", "rem", "add"} /\ n = Head(topull[q]).name
          /\ topull[q] # <<>> /\ Head(topull[q]) \in Entry
      <3>1. pc[q] \in {"dup", "rem", "add"} /\ n = Head(topull[q]).name
        BY <1>0, <1>8, RowSteps
      <3> QED
        BY <1>0, <3>1, StateFacts, HeadFacts
    <2>2. AddComplete(q) \/ RemoveRow(q) \/ AddPartial(q)
      BY <1>1, <2>1
      DEF Step, Work, Peer, Start, ReadDirInfo, SendEmptyPull, NothingChosen,
          NothingToPull, OnExit, ChooseNew, FoundRow, Compare, Rename, RowVanished,
          CheckInode, Ready2, IncRef, CommitKnown, CheckRow, CompareRow, PullGaps,
          SendPull, RecordChunks, AddInode, Complete, CommitPulled, ReadnAgain,
          BadDirInfo, Preallocate, WritePiece, Receiving, HangUp, ReadFails,
          CloseInsidePiece
    <2>3. files'[u][n] # files[u][n]
      BY <1>8 DEF SameRow, HasRow
    <2>4. ~RemoveRow(q)
      BY <1>0, <2>1, <2>3, removeFileRows, NameAssumption DEF RemoveRow, Entry
    <2>5. CASE AddComplete(q)
      <3>1. files'[u][n] = NewRow(Head(topull[q]), TRUE)
        BY <1>0, <2>1, <2>3, <2>5, StateFacts, addFileRows DEF AddComplete
      <3> QED
        BY <3>1 DEF NewRow
    <2>6. CASE AddPartial(q)
      <3>1. files'[u][n] = NewRow(Head(topull[q]), FALSE)
        BY <1>0, <2>1, <2>3, <2>6, StateFacts, addFileRows DEF AddPartial
      <3>2. m = Head(topull[q]).md5 /\ pc[q] = "add"
        BY <2>6, <3>1 DEF NewRow, AddPartial
      <3>3. inode[Head(topull[q]).md5] = 0
        BY <3>2 DEF AloneInv, FileByFile, StepSeen, Active, Pass2
      <3> QED
        BY <1>5, <3>2, <3>3
    <2> QED
      BY <2>2, <2>4, <2>5, <2>6
  <1> QED
    BY <1>6, <1>7, <1>8

-----------------------------------------------------------------------------
LEMMA InitAloneInv == Init => AloneInv
  BY InitRightMemory
  DEF Init, DBInit, AloneInv, OneAtATime, Busy, FileByFile, Active, Pass2,
      PartialIsCompleted, HasRow

\* A step that leaves at most one session open preserves the invariant.
LEMMA AloneInvStep == AloneInv /\ [Next /\ OneAtATime']_vars => AloneInv'
  <1> SUFFICES ASSUME AloneInv, [Next /\ OneAtATime']_vars PROVE AloneInv'
    OBVIOUS
  <1>1. CASE UNCHANGED vars
    <2>1. RightMemory'
      BY <1>1, SameRightMemory DEF AloneInv
    <2>2. OneAtATime' /\ PartialIsCompleted'
      BY <1>1
      DEF AloneInv, OneAtATime, Busy, PartialIsCompleted, HasRow, Cached, NextName,
          vars, dbVars, procVars
    <2>3. FileByFile'
      <3> SUFFICES ASSUME NEW p \in Procs, pc'[p] \in Active
                   PROVE  /\ ListedOnce(p)' /\ SettledOrListed(p)'
                          /\ CachedRowStays(p)' /\ StepSeen(p)'
        BY DEF FileByFile
      <3>0. pc[p] \in Active
        BY <1>1 DEF vars, procVars
      <3>1. ListedOnce(p)' /\ SettledOrListed(p)'
        BY <1>1, <3>0
        DEF AloneInv, FileByFile, ListedOnce, SettledOrListed, Settled, HasRow, User,
            InList, vars, dbVars, procVars
      <3>2. CachedRowStays(p)'
        BY <1>1, <3>0
        DEF AloneInv, FileByFile, CachedRowStays, HasRow,
            User, vars, dbVars, procVars
      <3>3. StepSeen(p)'
        BY <1>1, <3>0
        DEF AloneInv, FileByFile, StepSeen, NextName, HasRow, User,
            InList, vars, dbVars, procVars
      <3> QED
        BY <3>1, <3>2, <3>3
    <2> QED
      BY <2>1, <2>2, <2>3 DEF AloneInv
  <1>2. ASSUME NEW q \in Procs, Step(q), OneAtATime' PROVE AloneInv'
    <2>0. TypeOK
      BY DEF AloneInv, RightMemory, IInv, TypeInv
    <2>1. RightMemory'
      BY <1>2, RightMemoryStep DEF AloneInv
    <2>2. PartialIsCompleted'
      BY <1>2, PartialStep
    <2>3. FileByFile'
      <3> SUFFICES ASSUME NEW p \in Procs, pc'[p] \in Active
                   PROVE  /\ ListedOnce(p)' /\ SettledOrListed(p)'
                          /\ CachedRowStays(p)' /\ StepSeen(p)'
        BY DEF FileByFile
      <3>1. p = q
        BY <1>2, <2>0, OthersIdle DEF AloneInv, Active, Pass2
      <3>2. CASE \E d \in DirInfos : ReadDirInfo(q, d)
        BY <3>1, <3>2, ReadDirInfoSession
      <3>3. CASE \A d \in DirInfos : ~ReadDirInfo(q, d)
        <4>1. pc[q] \in Active
          BY <1>2, <2>0, <3>1, <3>3, SessionStep
        <4>2. ListedOnce(q)' /\ SettledOrListed(q)' /\ CachedRowStays(q)'
          BY <1>2, <3>1, <3>3, <4>1, ListedOnceStep, SettledStep, CachedRowStep
        <4>3. StepSeen(q)'
          BY <1>2, <3>1, <3>3, <4>1, StepSeenStep
        <4> QED
          BY <3>1, <4>2, <4>3
      <3> QED
        BY <3>2, <3>3
    <2> QED
      BY <1>2, <2>1, <2>2, <2>3 DEF AloneInv
  <1> QED
    BY <1>1, <1>2 DEF Next, Step

\* The invariant of sessions that do not meet.
THEOREM AloneInvariant == AloneSpec => []AloneInv
  BY InitAloneInv, AloneInvStep, PTL DEF AloneSpec

\* A single process never meets another.
THEOREM OneProcessIsAlone ==
    ASSUME \A p, q \in Procs : p = q
    PROVE  Spec => AloneSpec
  <1>1. OneAtATime
    BY DEF OneAtATime
  <1>2. [Next]_vars => [Next /\ OneAtATime']_vars
    BY DEF OneAtATime
  <1> QED
    BY <1>2, PTL DEF Spec, AloneSpec

-----------------------------------------------------------------------------
\* A session whose Pull was answered in full has every file it pulled complete,
\* with the announced content, and in the journal.
THEOREM PulledIsCompleteAlone == AloneSpec => []PulledIsComplete
  <1>1. AloneInv => PulledIsComplete
    <2> SUFFICES ASSUME AloneInv, NEW p \in Procs, pc[p] = "push", pull[p] = <<>>,
                        NEW n \in Names, fmap[p][n] # NoRow
                 PROVE  /\ HasRow(User(p), n)
                        /\ files[User(p)][n].complete
                        /\ files[User(p)][n].md5 = folder[p][n].md5
                        /\ [uid |-> User(p), name |-> n, md5 |-> folder[p][n].md5]
                               \in {journal[i] : i \in 1..Len(journal)}
      BY DEF PulledIsComplete
    <2>1. CachedRowStays(p)
      BY DEF AloneInv, FileByFile, Active, Pass2
    <2> QED
      BY <2>1 DEF CachedRowStays
  <1> QED
    BY <1>1, AloneInvariant, PTL

\* After pass 2 no announced file is behind: pass 1 and pass 2 drop no entry
\* that the tables do not already cover.
THEOREM NothingForgottenAlone == AloneSpec => []NothingForgotten
  <1>1. AloneInv => NothingForgotten
    <2> SUFFICES ASSUME AloneInv, NEW p \in Procs, pc[p] = "push",
                        NEW n \in Names, folder[p][n] # NoRow
                 PROVE  Settled(p, n)
      BY DEF NothingForgotten, Settled
    <2>1. SettledOrListed(p) /\ StepSeen(p) /\ todo[p] = <<>>
      BY DEF AloneInv, FileByFile, Active, Pass2, RightMemory, CachedInPass2
    <2>2. topull[p] = <<>>
      BY <2>1 DEF StepSeen
    <2> QED
      BY <2>1, <2>2 DEF SettledOrListed, InList
  <1> QED
    BY <1>1, AloneInvariant, PTL

\* Without kills no partial row waits, at rest, for a content the store has:
\* hang-ups and errors come before AddInode or after Complete.
THEOREM StuckOnlyByKillAlone == AloneSpec => []StuckOnlyByKill
  <1>1. AloneInv => StuckOnlyByKill
    BY DEF AloneInv, PartialIsCompleted, StuckOnlyByKill, NoStuckPartial, Busy
  <1> QED
    BY <1>1, AloneInvariant, PTL

=============================================================================
