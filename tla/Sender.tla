------------------------------- MODULE Sender -------------------------------
(***************************************************************************)
(* The download tunnel: senderInit() of server.cpp, run by a forked        *)
(* process per connection against the database and store of SyncDB.  It    *)
(* offers the user's complete files, answers Pulls with pieces of store    *)
(* files and notes in commitid how far the machine has come.               *)
(*                                                                         *)
(* The client may ask for any piece of any name in any order, also of      *)
(* names that were not offered: nothing is checked.  It may go away at any *)
(* point; a process that reads a closed connection, or is killed writing   *)
(* to one, leaves no trace in the tables: csession, which onexit uses, is  *)
(* only set by receivers.                                                  *)
(***************************************************************************)
EXTENDS SyncDB

CONSTANTS
    Servers,      \* server processes that may be sending
    MaxDownloads, \* bound on the sessions of a behaviour
    MaxPulls,     \* bound on the Pulls of a session
    MaxWants      \* bound on the entries of a Pull

ASSUME DownloadAssumption ==
    MaxDownloads \in Nat /\ MaxPulls \in Nat /\ MaxWants \in Nat

VARIABLES
    spc,          \* the next step of a process
    scid,         \* the session, a machine
    offered,      \* the DirInfo sent: the md5 offered for a name, or NoRow
    want,         \* entries of the Pull whose pieces are not all sent
    next,         \* the next piece of the first of them
    key,          \* the md5 getMD5ByUid returned, or NoRow
    sent,         \* the bytes sent for each piece of a name, Absent if none
    latest,       \* max(commitid), read and not yet stored
    pulls,        \* Pulls of this session
    downloads     \* sessions opened so far

senderVars == <<spc, scid, offered, want, next, key, sent, latest,
                pulls, downloads>>

SLabels == {"idle", "scan", "pull", "md5", "send", "max", "update"}

SUser(s) == Uid[scid[s]]

\* An entry of a Pull: some pieces of a file.
Want == {e \in [name: Names, from: 1..MaxSize, to: 1..MaxSize] : e.from <= e.to}

FirstPiece(w) == IF w = <<>> THEN 1 ELSE Head(w).from

SenderTypeOK ==
    /\ spc \in [Servers -> SLabels]
    /\ scid \in [Servers -> Clients]
    /\ offered \in [Servers -> [Names -> Contents \cup {NoRow}]]
    /\ want \in [Servers -> Seq(Want)]
    /\ next \in [Servers -> Nat \ {0}]
    /\ key \in [Servers -> Contents \cup {NoRow}]
    /\ sent \in [Servers -> [Names -> [1..MaxSize -> Bytes]]]
    /\ latest \in [Servers -> Nat]
    /\ pulls \in [Servers -> 0..MaxPulls]
    /\ downloads \in 0..MaxDownloads

NothingOffered == [n \in Names |-> NoRow]
NothingSent == [n \in Names |-> [i \in 1..MaxSize |-> Absent]]
FirstClient == CHOOSE c \in Clients : TRUE

SenderStart ==
    /\ spc = [s \in Servers |-> "idle"]
    /\ scid = [s \in Servers |-> FirstClient]
    /\ offered = [s \in Servers |-> NothingOffered]
    /\ want = [s \in Servers |-> <<>>]
    /\ next = [s \in Servers |-> 1]
    /\ key = [s \in Servers |-> NoRow]
    /\ sent = [s \in Servers |-> NothingSent]
    /\ latest = [s \in Servers |-> 0]
    /\ pulls = [s \in Servers |-> 0]
    /\ downloads = 0

-----------------------------------------------------------------------------
SAt(s, l) == spc[s] = l
SGoto(s, l) == spc' = [spc EXCEPT ![s] = l]

\* The process is gone: the connection was closed, a send failed, or an
\* exception was not caught.
Return(s) ==
    /\ SGoto(s, "idle")
    /\ scid' = [scid EXCEPT ![s] = FirstClient]
    /\ offered' = [offered EXCEPT ![s] = NothingOffered]
    /\ want' = [want EXCEPT ![s] = <<>>]
    /\ next' = [next EXCEPT ![s] = 1]
    /\ key' = [key EXCEPT ![s] = NoRow]
    /\ sent' = [sent EXCEPT ![s] = NothingSent]
    /\ latest' = [latest EXCEPT ![s] = 0]
    /\ pulls' = [pulls EXCEPT ![s] = 0]
    /\ UNCHANGED <<dbVars, downloads>>

\* Tunnel with role Receiver: getUidBySession, then setCommitidNull.
Open(s, c) ==
    /\ SAt(s, "idle")
    /\ downloads < MaxDownloads
    /\ downloads' = downloads + 1
    /\ scid' = [scid EXCEPT ![s] = c]
    /\ setCommitidNull(c)
    /\ SGoto(s, "scan")
    /\ UNCHANGED <<files, inode, journal, syncing, store, offered, want, next,
                   key, sent, latest, pulls>>

\* scanUserFile; the DirInfo goes to the client.
Offer(s) ==
    LET found == scanUserFile(SUser(s))
    IN  /\ SAt(s, "scan")
        /\ offered' = [offered EXCEPT ![s] = [n \in Names |->
                IF n \in DOMAIN found THEN found[n] ELSE NoRow]]
        /\ SGoto(s, "pull")
        /\ UNCHANGED <<dbVars, scid, want, next, key, sent, latest, pulls,
                       downloads>>

\* A Pull: nothing ties it to the DirInfo.  chunkify cuts and groups the
\* entries, which keeps the order of the pieces.
Pulls == UNION {[1..k -> Want] : k \in 0..MaxWants}

ReadPull(s, w) ==
    /\ SAt(s, "pull")
    /\ pulls[s] < MaxPulls
    /\ pulls' = [pulls EXCEPT ![s] = @ + 1]
    /\ want' = [want EXCEPT ![s] = w]
    /\ next' = [next EXCEPT ![s] = FirstPiece(w)]
    /\ SGoto(s, IF w = <<>> THEN "max" ELSE "md5")
    /\ UNCHANGED <<dbVars, scid, offered, key, sent, latest,
                   downloads>>

\* The md5 of the piece's file is read now, not taken from the DirInfo.
GetMD5(s) ==
    LET row == files[SUser(s)][Head(want[s]).name]
    IN  /\ SAt(s, "md5")
        /\ key' = [key EXCEPT ![s] = IF row = NoRow THEN NoRow ELSE row.md5]
        /\ SGoto(s, "send")
        /\ UNCHANGED <<dbVars, scid, offered, want, next, sent,
                       latest, pulls, downloads>>

\* Whether sendfile has bytes for the piece: not without a store file, and
\* not past its end.  (What fewer bytes than announced do is in Download.)
Readable(s) ==
    key[s] # NoRow /\ Created(key[s]) /\ next[s] <= Size[key[s]]

SendPiece(s) ==
    LET e == Head(want[s])
        i == next[s]
        rest == IF i = e.to THEN Tail(want[s]) ELSE want[s]
    IN  /\ SAt(s, "send")
        /\ Readable(s)
        /\ sent' = [sent EXCEPT ![s][e.name][i] = store[key[s]][i]]
        /\ want' = [want EXCEPT ![s] = rest]
        /\ next' = [next EXCEPT ![s] = IF i = e.to THEN FirstPiece(rest) ELSE i + 1]
        /\ key' = [key EXCEPT ![s] = NoRow]
        /\ SGoto(s, IF rest = <<>> THEN "max" ELSE "md5")
        /\ UNCHANGED <<dbVars, scid, offered, latest, pulls,
                       downloads>>

SendFails(s) == SAt(s, "send") /\ ~Readable(s) /\ Return(s)

\* "done" is sent; updateCommitid selects max(commitid) of the user.
ReadMax(s) ==
    /\ SAt(s, "max")
    /\ MaxCommitid(SUser(s)) > 0
    /\ latest' = [latest EXCEPT ![s] = MaxCommitid(SUser(s))]
    /\ SGoto(s, "update")
    /\ UNCHANGED <<dbVars, scid, offered, want, next, key, sent,
                   pulls, downloads>>

\* max(commitid) is NULL: queryByStr makes a string of a null pointer.
MaxIsNull(s) == SAt(s, "max") /\ MaxCommitid(SUser(s)) = 0 /\ Return(s)

UpdateCommitid(s) ==
    /\ SAt(s, "update")
    /\ commitid' = [commitid EXCEPT ![scid[s]] = latest[s]]
    /\ SGoto(s, "pull")
    /\ UNCHANGED <<files, inode, journal, syncing, store, scid, offered, want,
                   next, key, sent, latest, pulls, downloads>>

CloseSender(s) == ~SAt(s, "idle") /\ Return(s)

SenderNext ==
    \E s \in Servers :
        \/ \E c \in Clients : Open(s, c)
        \/ Offer(s)
        \/ \E w \in Pulls : ReadPull(s, w)
        \/ GetMD5(s) \/ SendPiece(s) \/ SendFails(s)
        \/ ReadMax(s) \/ MaxIsNull(s) \/ UpdateCommitid(s)
        \/ CloseSender(s)

=============================================================================
