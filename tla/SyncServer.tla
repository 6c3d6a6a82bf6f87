----------------------------- MODULE SyncServer -----------------------------
(***************************************************************************)
(* The server: main() forks a process per connection, which becomes a      *)
(* receiver or a sender; all of them share the database and the store.     *)
(* Nothing keeps a user from uploading while a machine of the user         *)
(* downloads: a client runs both threads at once.                          *)
(***************************************************************************)
EXTENDS UploadHistory, Sender

\* A history variable, like those of UploadHistory: the names for which the
\* user of a sender got another row since the DirInfo.
VARIABLE moved

allVars == <<uploadVars, senderVars, moved>>

ServerTypeOK ==
    /\ TypeOK /\ HistoryTypeOK /\ SenderTypeOK
    /\ moved \in [Servers -> SUBSET Names]

ServerInit == HistoryInit /\ SenderStart /\ moved = [s \in Servers |-> {}]

\* Names whose row is another one after a step.
NewRows(u) ==
    {n \in Names : files'[u][n] # NoRow /\ Version(files'[u][n]) # Version(files[u][n])}

RecordMoves ==
    moved' = [s \in Servers |->
        IF spc'[s] \in {"idle", "scan"} THEN {} ELSE moved[s] \cup NewRows(SUser(s))]

ServerNext ==
    /\ \/ HistoryNext /\ UNCHANGED senderVars
       \/ SenderNext /\ UNCHANGED <<procVars, sessions, kills, historyVars>>
    /\ RecordMoves

ServerSpec == ServerInit /\ [][ServerNext]_allVars

-----------------------------------------------------------------------------
\* What senderInit() sends for a file that the DirInfo offered is the content
\* it offered, piece by piece, whatever is uploaded meanwhile and whatever the
\* client pulls, unless the user's row got another content since the DirInfo
\* (getMD5ByUid reads it anew) or wrong bytes were pushed for the content.
DeliversOffered ==
    \A s \in Servers : \A n \in Names \ moved[s], i \in 1..MaxSize :
        offered[s][n] \notin spoilt \cup {NoRow} /\ sent[s][n][i] # Absent =>
            sent[s][n][i] = <<offered[s][n], i>>

\* A machine's commitid is NULL or a commit of its own user that is in the
\* journal (updateCommitid selects and stores it in two statements).
CommitidIsOwn ==
    \A c \in Clients : commitid[c] # 0 =>
        commitid[c] <= Len(journal) /\ journal[commitid[c]].uid = Uid[c]

=============================================================================
