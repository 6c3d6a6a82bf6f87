---------------------------- MODULE ReceiverInv ----------------------------
(***************************************************************************)
(* The inductive invariant behind the safety properties of Receiver, for   *)
(* any number of processes, clients and users.                             *)
(***************************************************************************)
EXTENDS Receiver

\* The names of a list of entries were announced.
AllAnnounced(p, entries) ==
    \A i \in DOMAIN entries : folder[p][entries[i].name] # NoRow

\* A session starts with empty lists; where the code takes the head of a list,
\* the list has one; a name to be pushed has a cached row.
WorkLists ==
    \A p \in Procs :
        /\ pc[p] \in {"idle", "dirinfo"} => topull[p] = <<>> /\ pull[p] = <<>>
        /\ pc[p] \in {"get", "rename"} => todo[p] # <<>>
        /\ pc[p] \in {"inc", "dup", "log", "row", "cmp", "rem", "add", "gap"} =>
               topull[p] # <<>>
        /\ pc[p] \in {"chunks", "inode", "complete", "commit"} => pull[p] # <<>>
        /\ AllAnnounced(p, todo[p])
        /\ AllAnnounced(p, topull[p])
        /\ \A i \in DOMAIN pull[p] :
               folder[p][pull[p][i]] # NoRow /\ fmap[p][pull[p][i]] # NoRow

\* A row, cached or in the table, lacks at least one piece; so does the cached
\* row of a file whose last piece was not the one just written.
ChunkBounds ==
    /\ \A u \in Users, n \in Names : HasRow(u, n) =>
           files[u][n].chunks < Size[files[u][n].md5]
    /\ \A p \in Procs, n \in Names : fmap[p][n] # NoRow =>
           fmap[p][n].chunks < Size[fmap[p][n].md5]
    /\ \A p \in Procs : pc[p] = "chunks" => ~Full(Cached(p), NextPiece(p))

TypeInv == TypeOK /\ WorkLists /\ ChunkBounds

\* The first k pieces of a store file are written.
PrefixWritten(m, k) == \A i \in 1..k : Written(m, i)

\* A store file that is not there has no piece.
AbsentOrCreated ==
    \A m \in Contents : ~Created(m) => \A i \in 1..MaxSize : ~Written(m, i)

\* The pieces that rows, cached or in the table, count are on disk.
RowsOnDisk ==
    /\ \A u \in Users, n \in Names : HasRow(u, n) =>
           PrefixWritten(files[u][n].md5, files[u][n].chunks)
    /\ \A p \in Procs, n \in Names : fmap[p][n] # NoRow =>
           PrefixWritten(fmap[p][n].md5, fmap[p][n].chunks)

\* Between the steps that follow a piece: the piece is on disk, and is the
\* last one where the code found the file full.
PieceOnDisk ==
    \A p \in Procs :
        /\ pc[p] \in {"chunks", "inode"} => Written(Cached(p).md5, NextPiece(p))
        /\ pc[p] = "inode" => Full(Cached(p), NextPiece(p))

\* Where the code relies on an inode it checked or added, it is there.
InodeKept ==
    \A p \in Procs :
        /\ pc[p] \in {"inc", "dup", "log"} => inode[Head(topull[p]).md5] > 0
        /\ pc[p] \in {"complete", "commit"} => inode[Cached(p).md5] > 0

IInv ==
    /\ TypeInv
    /\ AbsentOrCreated
    /\ RowsOnDisk
    /\ PieceOnDisk
    /\ InodeKept
    /\ InodeStored
    /\ CompleteHasInode
    /\ JournalHasInode

=============================================================================
