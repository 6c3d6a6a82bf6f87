--------------------------- MODULE UploadHistory ---------------------------
(***************************************************************************)
(* Receiver with a record of how its sessions met.  The code has nothing   *)
(* of it: three history variables say which rows the sessions of one user  *)
(* replaced under each other, and which contents may be wrong for it.  So  *)
(* a property can say of any number of machines at once what holds of the  *)
(* rows and contents that nobody came across, and which meetings do harm.  *)
(***************************************************************************)
EXTENDS Receiver

VARIABLES
    touched,      \* names another session of the user replaced in this one
    overtaken,    \* those replaced between the look at a row and its caching
    spoilt        \* contents of which wrong bytes may have been pushed

historyVars == <<touched, overtaken, spoilt>>
uploadVars == <<vars, historyVars>>

HistoryTypeOK ==
    /\ touched \in [Procs -> SUBSET Names]
    /\ overtaken \in [Procs -> SUBSET Names]
    /\ spoilt \subseteq Contents

\* What tells a row from the one that was there before.
Version(row) == IF row = NoRow THEN <<>> ELSE <<row.md5, row.modtime>>

Replaced(u) == {n \in Names : Version(files'[u][n]) # Version(files[u][n])}

\* Pass 2 has seen that there is no row for its file, or one of its content,
\* and is about to insert the row or to cache it.
Relies(p, n) == pc[p] \in {"add", "gap"} /\ n = Head(topull[p]).name

\* What a step of q replaced under another session of the user.
Under(p, q) == IF p # q /\ Busy(p) /\ User(p) = User(q) THEN Replaced(User(p)) ELSE {}

\* The session of q writes a piece that is not of the announced content, or to
\* the file of a row it was overtaken on.
Spoils(q) ==
    /\ At(q, "push") /\ pc'[q] \in {"inode", "chunks"}
    /\ \/ NextName(q) \in overtaken[q]
       \/ store'[Cached(q).md5][NextPiece(q)] # AnnouncedByte(q)

Record(q) ==
    /\ touched' = [p \in Procs |->
           IF pc'[p] = "idle" THEN {} ELSE touched[p] \cup Under(p, q)]
    /\ overtaken' = [p \in Procs |->
           IF pc'[p] = "idle" THEN {}
           ELSE overtaken[p] \cup {n \in Under(p, q) : Relies(p, n)}]
    /\ spoilt' = IF Spoils(q) THEN spoilt \cup {Cached(q).md5} ELSE spoilt

HistoryInit ==
    /\ Init
    /\ touched = [p \in Procs |-> {}]
    /\ overtaken = [p \in Procs |-> {}]
    /\ spoilt = {}

HistoryNext == \E q \in Procs : (Work(q) \/ Peer(q) \/ Kill(q)) /\ Record(q)

HistorySpec == HistoryInit /\ [][HistoryNext]_uploadVars

\* A process that waits for neither the client nor a lock is scheduled: the
\* database calls return and no process blocks another.  Nothing is assumed
\* of the clients.
FairHistorySpec == HistorySpec /\ \A p \in Procs : WF_vars(Work(p))

-----------------------------------------------------------------------------
(* Properties *)

\* Every piece of a store file is the piece of its md5 (the store's naming
\* rule), however many machines and users push that content at once, unless a
\* client's file changed between its scan and its push, or a session pushed a
\* file whose row another session of the same user replaced just before it was
\* cached (receiver() at 733-768): the other statements need no lock.
StoreMatchesMd5 ==
    \A m \in Contents \ spoilt : \A i \in 1..MaxSize :
        Written(m, i) => store[m][i] = <<m, i>>

\* removeFile never deletes a version newer than the one that replaces it,
\* although pass 2 does not compare the times pass 1 compared, unless another
\* session of the user replaced the row meanwhile.  (A row that pass 1 itself
\* renames to an announced name is not compared at all: a client with a file
\* "x.old" beside a changed "x" replaces the renamed version.)
ReplacesOnlyOlder ==
    [][\A p \in Procs : At(p, "rem") /\ pc'[p] = "add" =>
        LET e == Head(topull[p])
        IN  /\ HasRow(User(p), e.name)
            /\ e.name \notin touched[p]
            /\ ~RenamedTo(p, e.name)
            => files[User(p)][e.name].modtime <= e.modtime]_uploadVars

=============================================================================
