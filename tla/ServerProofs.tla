---------------------------- MODULE ServerProofs ----------------------------
(***************************************************************************)
(* Receivers and senders together, for any number of both: what senders    *)
(* write to table client (CommitidIsOwn), and what they send to a machine  *)
(* whatever its user uploads meanwhile (DeliversOffered).                  *)
(*                                                                         *)
(* Of the variables of receivers a sender changes only commitid, which no  *)
(* receiver reads, so the invariants of receivers carry over.  A receiver  *)
(* changes none of a sender's; what a sender relies on is that the journal *)
(* and table inode only grow, that a row of its user that was not replaced *)
(* keeps its content, and that the store file of a content that nobody     *)
(* spoilt holds that content.                                              *)
(***************************************************************************)
EXTENDS SyncServer, SessionProofs, WellFoundedInduction

\* The files of a Pull that are not sent are there while pieces are sent.
WantsWhileSending ==
    \A s \in Servers : (want[s] # <<>>) <=> spc[s] \in {"md5", "send"}

\* What ReadMax found is a commit of the user when UpdateCommitid stores it.
LatestIsOwn ==
    \A s \in Servers : spc[s] = "update" =>
        latest[s] \in 1..Len(journal) /\ journal[latest[s]].uid = SUser(s)

ServerInv ==
    IInv /\ SenderTypeOK /\ WantsWhileSending /\ LatestIsOwn /\ CommitidIsOwn

\* While a sender works: it offers contents that are stored, and a row that it
\* offered is of the content it offered, unless the user got another one.
OfferedIsKept ==
    \A s \in Servers, n \in Names : offered[s][n] # NoRow =>
        /\ spc[s] \notin {"idle", "scan"}
        /\ inode[offered[s][n]] > 0
        /\ n \notin moved[s] /\ HasRow(SUser(s), n) =>
              files[SUser(s)][n].md5 = offered[s][n]

\* It has sent nothing before it offered anything.
SentNothing ==
    \A s \in Servers : spc[s] \in {"idle", "scan"} => sent[s] = NothingSent

\* The md5 it read of such a row is the one it offered.
KeyIsOffered ==
    \A s \in Servers : spc[s] = "send" /\ key[s] # NoRow =>
        LET n == Head(want[s]).name
        IN  n \notin moved[s] /\ offered[s][n] # NoRow => key[s] = offered[s][n]

SendsInv ==
    /\ SenderTypeOK /\ WantsWhileSending /\ moved \in [Servers -> SUBSET Names]
    /\ HistoryInv
    /\ OfferedIsKept /\ SentNothing /\ KeyIsOffered /\ DeliversOffered

-----------------------------------------------------------------------------
USE DEF At, Goto, SAt, SGoto

SendStep(t) ==
    \/ \E c \in Clients : Open(t, c)
    \/ Offer(t)
    \/ \E w \in Pulls : ReadPull(t, w)
    \/ GetMD5(t) \/ SendPiece(t) \/ SendFails(t)
    \/ ReadMax(t) \/ MaxIsNull(t) \/ UpdateCommitid(t)
    \/ CloseSender(t)

\* The memory of a sender.
SameSender(s) ==
    /\ spc'[s] = spc[s] /\ scid'[s] = scid[s] /\ offered'[s] = offered[s]
    /\ want'[s] = want[s] /\ next'[s] = next[s] /\ key'[s] = key[s]
    /\ sent'[s] = sent[s] /\ latest'[s] = latest[s]

\* Of a set of places in a list, one is the last.
LEMMA LastExists ==
    ASSUME NEW N \in Nat, NEW S, S \subseteq 1..N, S # {}
    PROVE  \E i \in S : \A j \in S : j <= i
  <1> DEFINE R == OpToRel(<, Nat)
             T == {N - i : i \in S}
  <1>1. IsWellFoundedOn(R, Nat)
    BY NatLessThanWellFounded
  <1>2. T \subseteq Nat
    BY DEF T
  <1>3. T # {}
    <2>1. PICK i \in S : TRUE
      OBVIOUS
    <2>2. N - i \in T
      OBVIOUS
    <2> QED
      BY <2>2
  <1>4. PICK x \in T : \A y \in T : ~(<<y, x>> \in R)
    <2> HIDE DEF T, R
    <2> QED
      BY <1>1, <1>2, <1>3, WFMin
  <1>5. \A y \in T : ~(y < x)
    BY <1>2, <1>4 DEF OpToRel
  <1>6. PICK i \in S : x = N - i
    BY <1>4
  <1>7. \A j \in S : ~(N - j < N - i)
    BY <1>5, <1>6
  <1> QED
    BY <1>6, <1>7

\* max(commitid) of a user who has commits is one of them.
LEMMA MaxCommitidFacts ==
    ASSUME journal \in Seq(Commit), NEW u \in Users, MaxCommitid(u) > 0
    PROVE  /\ MaxCommitid(u) \in 1..Len(journal)
           /\ journal[MaxCommitid(u)].uid = u
  <1> DEFINE mine == {i \in 1..Len(journal) : journal[i].uid = u}
  <1>1. mine # {}
    BY DEF MaxCommitid
  <1>2. \E i \in mine : \A j \in mine : j <= i
    <2>1. Len(journal) \in Nat /\ mine \subseteq 1..Len(journal)
      OBVIOUS
    <2> QED
      BY <1>1, <2>1, LastExists
  <1>3. MaxCommitid(u) = CHOOSE i \in mine : \A j \in mine : j <= i
    BY <1>1 DEF MaxCommitid
  <1>4. MaxCommitid(u) \in mine
    BY <1>2, <1>3
  <1> QED
    BY <1>4

\* The statement that changes table journal adds to it.
LEMMA JournalGrows ==
    ASSUME IInv, NEW q \in Procs, Step(q)
    PROVE  /\ commitid' = commitid
           /\ Len(journal) <= Len(journal')
           /\ \A i \in 1..Len(journal) : journal'[i] = journal[i]
  <1>0. journal \in Seq(Commit)
    BY DEF IInv, TypeInv, TypeOK, DBTypeOK
  <1>1. CASE CommitKnown(q) \/ CommitPulled(q)
    <2>1. PICK e : journal' = Append(journal, e)
      BY <1>1 DEF CommitKnown, CommitPulled, journalCommit
    <2>2. commitid' = commitid
      BY <1>1 DEF CommitKnown, CommitPulled
    <2> QED
      BY <1>0, <2>1, <2>2
  <1>2. CASE UNCHANGED <<journal, commitid>>
    BY <1>0, <1>2
  <1> QED
    BY <1>1, <1>2
    DEF Step, Work, Peer, Kill, Start, ReadDirInfo, SendEmptyPull, LowerFlag,
        OnExit, ChooseNew, FoundRow, Compare, Rename, RowVanished, Abort,
        CheckInode, IncRef, AddComplete, CheckRow, CompareRow, RemoveRow,
        AddPartial, PullGaps, SendPull, RecordChunks, AddInode, Complete,
        ReadnAgain, BadDirInfo, Preallocate, WritePiece, HangUp, ReadFails,
        CloseInsidePiece, dbVars, vars

-----------------------------------------------------------------------------
(* A step of a sender *)

\* It changes no other sender's memory, and of the tables only commitid.
LEMMA OtherSenders ==
    ASSUME SenderTypeOK, NEW t \in Servers, SendStep(t)
    PROVE  /\ UNCHANGED <<files, inode, journal, syncing, store>>
           /\ \A s \in Servers : s # t => SameSender(s)
  <1> USE DEF SameSender, SenderTypeOK, dbVars
  <1>1. CASE \E c \in Clients : Open(t, c)
    BY <1>1 DEF Open
  <1>2. CASE Offer(t)
    BY <1>2 DEF Offer
  <1>3. CASE \E w \in Pulls : ReadPull(t, w)
    BY <1>3 DEF ReadPull
  <1>4. CASE GetMD5(t)
    BY <1>4 DEF GetMD5
  <1>5. CASE SendPiece(t)
    BY <1>5 DEF SendPiece
  <1>6. CASE ReadMax(t) \/ UpdateCommitid(t)
    BY <1>6 DEF ReadMax, UpdateCommitid
  <1>7. CASE Return(t)
    BY <1>7 DEF Return
  <1> QED
    BY <1>1, <1>2, <1>3, <1>4, <1>5, <1>6, <1>7
    DEF SendStep, SendFails, MaxIsNull, CloseSender

\* Sending starts at the first piece of the first entry.
LEMMA FirstPieceFacts ==
    ASSUME NEW w \in Seq(Want)
    PROVE  FirstPiece(w) \in 1..MaxSize \/ FirstPiece(w) = 1
  <1>1. CASE w = <<>>
    BY <1>1 DEF FirstPiece
  <1>2. CASE w # <<>>
    <2>1. Head(w) \in Want
      BY <1>2
    <2> QED
      BY <1>2, <2>1 DEF FirstPiece, Want
  <1> QED
    BY <1>1, <1>2

LEMMA OpenType ==
    ASSUME IInv, SenderTypeOK, WantsWhileSending,
           NEW t \in Servers, NEW c \in Clients, Open(t, c)
    PROVE  SenderTypeOK' /\ WantsWhileSending' /\ commitid' \in [Clients -> Nat]
  <1>1. commitid \in [Clients -> Nat]
    BY DEF IInv, TypeInv, TypeOK, DBTypeOK
  <1> QED
    BY <1>1, DownloadAssumption
    DEF Open, setCommitidNull, SenderTypeOK, WantsWhileSending, SLabels

LEMMA OfferType ==
    ASSUME IInv, SenderTypeOK, WantsWhileSending,
           NEW t \in Servers, Offer(t)
    PROVE  SenderTypeOK' /\ WantsWhileSending' /\ commitid' = commitid
  <1>1. files \in Tables /\ SUser(t) \in Users /\ Len(journal) \in Nat
    BY StateFacts, UidAssumption
    DEF SenderTypeOK, SUser, IInv, TypeInv, TypeOK, DBTypeOK
  <1> DEFINE found == scanUserFile(SUser(t))
             F == [n \in Names |-> IF n \in DOMAIN found THEN found[n] ELSE NoRow]
  <1>2. F \in [Names -> Contents \cup {NoRow}]
    BY <1>1 DEF scanUserFile, Tables, MaybeRow, Row
  <1>3. offered' = [offered EXCEPT ![t] = F]
    BY DEF Offer
  <1>4. offered' \in [Servers -> [Names -> Contents \cup {NoRow}]]
    BY <1>2, <1>3 DEF SenderTypeOK
  <1> HIDE DEF F, found
  <1> QED
    BY <1>1, <1>4
    DEF Offer, SenderTypeOK, WantsWhileSending, SLabels, dbVars

LEMMA ReadPullType ==
    ASSUME IInv, SenderTypeOK, WantsWhileSending,
           NEW t \in Servers, NEW w \in Pulls, ReadPull(t, w)
    PROVE  SenderTypeOK' /\ WantsWhileSending' /\ commitid' = commitid
  <1>1. w \in Seq(Want)
    BY DEF Pulls
  <1>2. FirstPiece(w) \in Nat \ {0}
    BY <1>1, FirstPieceFacts
  <1>3. pulls'[t] \in 0..MaxPulls
    BY DownloadAssumption DEF ReadPull, SenderTypeOK
  <1>4. SenderTypeOK'
    BY <1>1, <1>2, <1>3 DEF ReadPull, SenderTypeOK, SLabels
  <1> QED
    BY <1>4 DEF ReadPull, SenderTypeOK, WantsWhileSending, dbVars

LEMMA GetMD5Type ==
    ASSUME IInv, SenderTypeOK, WantsWhileSending, NEW t \in Servers, GetMD5(t)
    PROVE  SenderTypeOK' /\ WantsWhileSending' /\ commitid' = commitid
  <1>1. files \in Tables /\ SUser(t) \in Users
    BY StateFacts, UidAssumption DEF SenderTypeOK, SUser
  <1>2. Head(want[t]).name \in Names
    <2>1. Head(want[t]) \in Want
      BY DEF GetMD5, SenderTypeOK, WantsWhileSending
    <2> QED
      BY <2>1 DEF Want
  <1>3. key' \in [Servers -> Contents \cup {NoRow}]
    BY <1>1, <1>2 DEF GetMD5, SenderTypeOK, Tables, MaybeRow, Row
  <1> QED
    BY <1>3 DEF GetMD5, SenderTypeOK, WantsWhileSending, SLabels, dbVars

LEMMA SendPieceType ==
    ASSUME IInv, SenderTypeOK, WantsWhileSending, NEW t \in Servers, SendPiece(t)
    PROVE  /\ SenderTypeOK' /\ WantsWhileSending' /\ commitid' = commitid
           /\ Head(want[t]).name \in Names
           /\ key[t] \in Contents
           /\ next[t] \in 1..Size[key[t]] /\ next[t] \in 1..MaxSize
           /\ sent' = [sent EXCEPT ![t][Head(want[t]).name][next[t]] =
                           store[key[t]][next[t]]]
  <1> DEFINE e == Head(want[t])
             i == next[t]
             rest == IF i = e.to THEN Tail(want[t]) ELSE want[t]
  <1>0. store \in [Contents -> [1..MaxSize -> Bytes]]
    BY DEF IInv, TypeInv, TypeOK, DBTypeOK
  <1>1. want[t] # <<>> /\ want[t] \in Seq(Want) /\ e \in Want /\ e.name \in Names
    <2>1. want[t] # <<>> /\ want[t] \in Seq(Want)
      BY DEF SendPiece, SenderTypeOK, WantsWhileSending
    <2>2. e \in Want
      BY <2>1
    <2> QED
      BY <2>1, <2>2 DEF Want
  <1>2. key[t] \in Contents /\ i \in 1..Size[key[t]] /\ i \in 1..MaxSize
    <2>1. key[t] \in Contents /\ i \in Nat \ {0} /\ i <= Size[key[t]]
      BY DEF SendPiece, Readable, SenderTypeOK
    <2> QED
      BY <2>1, SizeAssumption
  <1>3. rest \in Seq(Want)
    BY <1>1
  <1>4. FirstPiece(rest) \in 1..MaxSize \/ FirstPiece(rest) = 1
    BY <1>3, FirstPieceFacts
  <1> HIDE DEF rest
  <1>5. /\ next' \in [Servers -> Nat \ {0}]
        /\ sent' \in [Servers -> [Names -> [1..MaxSize -> Bytes]]]
        /\ key' \in [Servers -> Contents \cup {NoRow}]
        /\ want' \in [Servers -> Seq(Want)] /\ want'[t] = rest
        /\ spc' \in [Servers -> SLabels]
        /\ spc'[t] = IF rest = <<>> THEN "max" ELSE "md5"
    <2>1. store[key[t]][i] \in Bytes
      BY <1>0, <1>2
    <2> QED
      BY <1>1, <1>2, <1>3, <1>4, <2>1 DEF SendPiece, SenderTypeOK, SLabels, rest
  <1>7. SenderTypeOK'
    BY <1>5 DEF SendPiece, SenderTypeOK
  <1>8. \A s \in Servers : s # t => SameSender(s)
    BY OtherSenders DEF SendStep
  <1>9. WantsWhileSending'
    BY <1>5, <1>8 DEF WantsWhileSending, SameSender
  <1> QED
    BY <1>1, <1>2, <1>7, <1>9 DEF SendPiece, dbVars

LEMMA MaxType ==
    ASSUME IInv, SenderTypeOK, WantsWhileSending, NEW t \in Servers,
           ReadMax(t) \/ UpdateCommitid(t)
    PROVE  SenderTypeOK' /\ WantsWhileSending' /\ commitid' \in [Clients -> Nat]
  <1>0. commitid \in [Clients -> Nat] /\ journal \in Seq(Commit)
    BY DEF IInv, TypeInv, TypeOK, DBTypeOK
  <1>1. CASE ReadMax(t)
    <2>1. SUser(t) \in Users
      BY UidAssumption DEF SenderTypeOK, SUser
    <2>2. MaxCommitid(SUser(t)) \in Nat
      BY <1>0, <1>1, <2>1, MaxCommitidFacts DEF ReadMax
    <2> QED
      BY <1>0, <1>1, <2>2
      DEF ReadMax, SenderTypeOK, WantsWhileSending, SLabels, dbVars
  <1>2. CASE UpdateCommitid(t)
    BY <1>0, <1>2 DEF UpdateCommitid, SenderTypeOK, WantsWhileSending, SLabels
  <1> QED
    BY <1>1, <1>2

LEMMA ReturnType ==
    ASSUME IInv, SenderTypeOK, WantsWhileSending, NEW t \in Servers, Return(t)
    PROVE  SenderTypeOK' /\ WantsWhileSending' /\ commitid' = commitid
  <1>1. FirstClient \in Clients
    BY ClientsAssumption DEF FirstClient
  <1>2. /\ NothingOffered \in [Names -> Contents \cup {NoRow}]
        /\ NothingSent \in [Names -> [1..MaxSize -> Bytes]]
    BY SizeAssumption DEF NothingOffered, NothingSent, Bytes
  <1>3. 0 \in 0..MaxPulls /\ <<>> \in Seq(Want)
    BY DownloadAssumption
  <1>4. SenderTypeOK'
    BY <1>1, <1>2, <1>3 DEF Return, SenderTypeOK, SLabels
  <1> QED
    BY <1>4 DEF Return, SenderTypeOK, WantsWhileSending, dbVars

\* Of what the invariants of receivers speak of, a sender changes nothing.
LEMMA ReceiversUnmoved ==
    ASSUME IInv, commitid' \in [Clients -> Nat],
           UNCHANGED <<files, inode, journal, syncing, store>>,
           UNCHANGED <<procVars, sessions, kills>>
    PROVE  IInv' /\ (HistoryInv /\ UNCHANGED historyVars => HistoryInv')
  <1> USE DEF procVars
  <1>1. TypeInv'
    <2>1. TypeOK'
      BY DEF IInv, TypeInv, TypeOK, DBTypeOK
    <2>2. WorkLists'
      BY DEF IInv, TypeInv, WorkLists, AllAnnounced
    <2>3. ChunkBounds'
      BY DEF IInv, TypeInv, ChunkBounds, HasRow, Full, Cached, NextPiece, NextName
    <2> QED
      BY <2>1, <2>2, <2>3 DEF TypeInv
  <1>2. AbsentOrCreated' /\ InodeStored' /\ CompleteHasInode' /\ JournalHasInode'
    BY DEF IInv, AbsentOrCreated, InodeStored, CompleteHasInode, JournalHasInode,
           Created, Written, HasRow
  <1>3. RowsOnDisk'
    BY DEF IInv, RowsOnDisk, PrefixWritten, Written, HasRow
  <1>4. PieceOnDisk' /\ InodeKept'
    BY DEF IInv, PieceOnDisk, InodeKept, Written, Full, Cached, NextPiece, NextName
  <1>5. IInv'
    BY <1>1, <1>2, <1>3, <1>4 DEF IInv
  <1>6. ASSUME HistoryInv, UNCHANGED historyVars PROVE HistoryInv'
    <2>1. ListsAnnounced' /\ CachedInPass2' /\ RenamesInitial' /\ HistoryTypeOK'
      BY <1>6 DEF HistoryInv, ListsAnnounced, CachedInPass2, RenamesInitial,
                  HistoryTypeOK, historyVars
    <2>2. CachedUnlessOvertaken' /\ StoreOwn'
      BY <1>6 DEF HistoryInv, CachedUnlessOvertaken, CachedRight, StoreOwn, Written,
                  historyVars
    <2>3. AskedUnlessOvertaken'
      BY <1>6 DEF HistoryInv, AskedUnlessOvertaken, Asked, HasRow, User, historyVars
    <2>4. NotOlderUnlessTouched'
      BY <1>6 DEF HistoryInv, NotOlderUnlessTouched, NotOlder, RenamedTo, HasRow,
                  User, historyVars
    <2> QED
      BY <1>5, <2>1, <2>2, <2>3, <2>4 DEF HistoryInv
  <1> QED
    BY <1>5, <1>6

\* Types after a step of a sender.
LEMMA SendStepType ==
    ASSUME IInv, SenderTypeOK, WantsWhileSending, NEW t \in Servers, SendStep(t)
    PROVE  SenderTypeOK' /\ WantsWhileSending' /\ commitid' \in [Clients -> Nat]
  <1>1. commitid \in [Clients -> Nat]
    BY DEF IInv, TypeInv, TypeOK, DBTypeOK
  <1>2. CASE Return(t)
    BY <1>1, <1>2, ReturnType
  <1> QED
    BY <1>1, <1>2, OpenType, OfferType, ReadPullType, GetMD5Type, SendPieceType,
       MaxType
    DEF SendStep, SendFails, MaxIsNull, CloseSender

-----------------------------------------------------------------------------
(* Commits *)

LEMMA ServerInitInv == ServerInit => ServerInv
  <1> SUFFICES ASSUME ServerInit PROVE ServerInv
    OBVIOUS
  <1>1. IInv
    BY InitIInv DEF ServerInit, HistoryInit
  <1>2. FirstClient \in Clients
    BY ClientsAssumption DEF FirstClient
  <1>3. /\ NothingOffered \in [Names -> Contents \cup {NoRow}]
        /\ NothingSent \in [Names -> [1..MaxSize -> Bytes]]
    BY SizeAssumption DEF NothingOffered, NothingSent, Bytes
  <1>4. 0 \in 0..MaxPulls /\ 0 \in 0..MaxDownloads /\ <<>> \in Seq(Want)
    BY DownloadAssumption
  <1>5. SenderTypeOK
    BY <1>2, <1>3, <1>4 DEF ServerInit, SenderStart, SenderTypeOK, SLabels
  <1>6. WantsWhileSending /\ LatestIsOwn /\ CommitidIsOwn
    BY DEF ServerInit, HistoryInit, SenderStart, Init, DBInit, WantsWhileSending,
           LatestIsOwn, CommitidIsOwn
  <1> QED
    BY <1>1, <1>5, <1>6 DEF ServerInv

\* What a sender reads and stores of table journal.
LEMMA CommitsSendStep ==
    ASSUME ServerInv, NEW t \in Servers, SendStep(t)
    PROVE  LatestIsOwn' /\ CommitidIsOwn'
  <1>0. /\ SenderTypeOK /\ journal \in Seq(Commit) /\ commitid \in [Clients -> Nat]
        /\ journal' = journal
        /\ \A s \in Servers : s # t => SameSender(s)
    BY OtherSenders DEF ServerInv, IInv, TypeInv, TypeOK, DBTypeOK
  <1>1. CASE ReadMax(t)
    <2>1. SUser(t) \in Users
      BY <1>0, UidAssumption DEF SenderTypeOK, SUser
    <2>2. latest'[t] = MaxCommitid(SUser(t)) /\ scid' = scid /\ commitid' = commitid
      BY <1>0, <1>1 DEF ReadMax, SenderTypeOK, dbVars
    <2>3. latest'[t] \in 1..Len(journal) /\ journal[latest'[t]].uid = SUser(t)
      BY <1>0, <1>1, <2>1, <2>2, MaxCommitidFacts DEF ReadMax
    <2> QED
      BY <1>0, <2>2, <2>3
      DEF ServerInv, LatestIsOwn, CommitidIsOwn, SameSender, SUser
  <1>2. CASE UpdateCommitid(t)
    <2>1. commitid' = [commitid EXCEPT ![scid[t]] = latest[t]] /\ scid[t] \in Clients
      BY <1>0, <1>2 DEF UpdateCommitid, SenderTypeOK
    <2>2. latest[t] \in 1..Len(journal) /\ journal[latest[t]].uid = Uid[scid[t]]
      BY <1>2 DEF UpdateCommitid, ServerInv, LatestIsOwn, SUser
    <2>3. spc'[t] # "update"
      BY <1>0, <1>2 DEF UpdateCommitid, SenderTypeOK
    <2> QED
      BY <1>0, <2>1, <2>2, <2>3, SMTT(30)
      DEF ServerInv, LatestIsOwn, CommitidIsOwn, SameSender, SUser
  <1>3. CASE \E c \in Clients : Open(t, c)
    <2>1. PICK c \in Clients : commitid' = [commitid EXCEPT ![c] = 0]
      BY <1>3 DEF Open, setCommitidNull
    <2>2. spc'[t] # "update"
      BY <1>0, <1>3 DEF Open, SenderTypeOK
    <2> QED
      BY <1>0, <2>1, <2>2, SMTT(30)
      DEF ServerInv, LatestIsOwn, CommitidIsOwn, SameSender, SUser
  <1>4. ASSUME commitid' = commitid, spc'[t] # "update"
        PROVE  LatestIsOwn' /\ CommitidIsOwn'
    BY <1>0, <1>4 DEF ServerInv, LatestIsOwn, CommitidIsOwn, SameSender, SUser
  <1>5. CASE \/ Offer(t) \/ GetMD5(t) \/ SendPiece(t) \/ Return(t)
             \/ \E w \in Pulls : ReadPull(t, w)
    <2>1. commitid' = commitid
      BY <1>5 DEF Offer, GetMD5, SendPiece, Return, ReadPull, dbVars
    <2>2. spc'[t] # "update"
      BY <1>0, <1>5 DEF Offer, GetMD5, SendPiece, Return, ReadPull, SenderTypeOK
    <2> QED
      BY <1>4, <2>1, <2>2
  <1> QED
    BY <1>1, <1>2, <1>3, <1>5 DEF SendStep, SendFails, MaxIsNull, CloseSender

LEMMA ServerInvStep == ServerInv /\ [ServerNext]_allVars => ServerInv'
  <1> SUFFICES ASSUME ServerInv, [ServerNext]_allVars PROVE ServerInv'
    OBVIOUS
  <1> USE DEF ServerInv
  <1>1. CASE UNCHANGED allVars
    <2>1. IInv'
      BY <1>1, IInvStep DEF allVars, uploadVars
    <2>2. UNCHANGED <<senderVars, journal, commitid>>
      BY <1>1 DEF allVars, uploadVars, vars, dbVars
    <2> QED
      BY <2>1, <2>2
      DEF senderVars, SenderTypeOK, WantsWhileSending, LatestIsOwn, CommitidIsOwn,
          SUser
  <1>2. CASE HistoryNext /\ UNCHANGED senderVars
    <2>1. PICK q \in Procs : Step(q)
      BY <1>2 DEF HistoryNext, Step
    <2>2. IInv'
      BY <2>1, IInvStep DEF Next, Step
    <2>3. SenderTypeOK' /\ WantsWhileSending'
      BY <1>2 DEF senderVars, SenderTypeOK, WantsWhileSending
    <2>4. journal \in Seq(Commit) /\ journal' \in Seq(Commit)
          /\ commitid \in [Clients -> Nat]
      BY <2>2 DEF IInv, TypeInv, TypeOK, DBTypeOK
    <2>5. LatestIsOwn'
      BY <1>2, <2>1, <2>4, JournalGrows DEF senderVars, LatestIsOwn, SUser
    <2>6. CommitidIsOwn'
      BY <1>2, <2>1, <2>4, JournalGrows DEF CommitidIsOwn
    <2> QED
      BY <2>2, <2>3, <2>5, <2>6
  <1>3. CASE SenderNext /\ UNCHANGED <<procVars, sessions, kills, historyVars>>
    <2>1. PICK t \in Servers : SendStep(t)
      BY <1>3 DEF SenderNext, SendStep
    <2>2. SenderTypeOK' /\ WantsWhileSending' /\ commitid' \in [Clients -> Nat]
      BY <2>1, SendStepType
    <2>3. IInv'
      BY <1>3, <2>1, <2>2, OtherSenders, ReceiversUnmoved
    <2> QED
      BY <2>1, <2>2, <2>3, CommitsSendStep
  <1> QED
    BY <1>1, <1>2, <1>3 DEF ServerNext

\* The types of both kinds of process, and what is known of the commits.
THEOREM ServerInvariant == ServerSpec => []ServerInv
  BY ServerInitInv, ServerInvStep, PTL DEF ServerSpec

\* updateCommitid stores max(commitid) in a statement of its own: it is still
\* the number of a commit of the machine's user, who may have more by then.
THEOREM CommitidOfOwnUser == ServerSpec => []CommitidIsOwn
  <1>1. ServerInv => CommitidIsOwn
    BY DEF ServerInv
  <1> QED
    BY <1>1, ServerInvariant, PTL

-----------------------------------------------------------------------------
(* What is sent *)

LEMMA SendsInitInv == ServerInit => SendsInv
  <1> SUFFICES ASSUME ServerInit PROVE SendsInv
    OBVIOUS
  <1>1. HistoryInv
    BY InitHistory DEF ServerInit
  <1>2. SenderTypeOK /\ WantsWhileSending
    BY ServerInitInv DEF ServerInv
  <1>3. OfferedIsKept /\ SentNothing /\ KeyIsOffered /\ DeliversOffered
    BY DEF ServerInit, SenderStart, OfferedIsKept, SentNothing, KeyIsOffered,
           DeliversOffered, NothingOffered, NothingSent
  <1> QED
    BY <1>1, <1>2, <1>3 DEF SendsInv, ServerInit

\* What a sender knows of itself.
SendsRight(s) ==
    /\ \A n \in Names : offered[s][n] # NoRow =>
          /\ spc[s] \notin {"idle", "scan"}
          /\ inode[offered[s][n]] > 0
          /\ n \notin moved[s] /\ HasRow(SUser(s), n) =>
                files[SUser(s)][n].md5 = offered[s][n]
    /\ spc[s] \in {"idle", "scan"} => sent[s] = NothingSent
    /\ spc[s] = "send" /\ key[s] # NoRow =>
          LET n == Head(want[s]).name
          IN  n \notin moved[s] /\ offered[s][n] # NoRow => key[s] = offered[s][n]
    /\ \A n \in Names \ moved[s], i \in 1..MaxSize :
          offered[s][n] \notin spoilt \cup {NoRow} /\ sent[s][n][i] # Absent =>
              sent[s][n][i] = <<offered[s][n], i>>

LEMMA SendsParts ==
    OfferedIsKept /\ SentNothing /\ KeyIsOffered /\ DeliversOffered
        <=> \A s \in Servers : SendsRight(s)
  BY DEF OfferedIsKept, SentNothing, KeyIsOffered, DeliversOffered, SendsRight

\* While the tables stay, no row moves; the record is cleared between sessions.
LEMMA NothingMoves ==
    ASSUME files' = files, RecordMoves, NEW s \in Servers
    PROVE  moved'[s] = IF spc'[s] \in {"idle", "scan"} THEN {} ELSE moved[s]
  BY DEF RecordMoves, NewRows

LEMMA MovesType ==
    ASSUME moved \in [Servers -> SUBSET Names], RecordMoves
    PROVE  moved' \in [Servers -> SUBSET Names]
  BY DEF RecordMoves, NewRows

\* While receivers work: a row that is not another one keeps its content.
LEMMA SendsReceiverStep ==
    ASSUME SendsInv, NEW q \in Procs, Step(q), Record(q),
           UNCHANGED senderVars, RecordMoves, NEW s \in Servers, SendsRight(s)
    PROVE  SendsRight(s)'
  <1>1. spoilt \subseteq spoilt'
    BY DEF Record
  <1>2. CASE spc[s] \in {"idle", "scan"}
    <2>1. /\ sent'[s] = NothingSent
          /\ \A n \in Names : offered'[s][n] = NoRow
          /\ spc'[s] \in {"idle", "scan"}
      BY <1>2 DEF SendsRight, senderVars
    <2> QED
      BY <2>1 DEF SendsRight, NothingSent
  <1>3. CASE spc[s] \notin {"idle", "scan"}
    <2>1. moved'[s] = moved[s] \cup NewRows(SUser(s))
      BY <1>3 DEF RecordMoves, senderVars
    <2>2. ASSUME NEW n \in Names, offered[s][n] # NoRow
          PROVE  /\ inode'[offered[s][n]] > 0
                 /\ n \notin moved'[s] /\ files'[SUser(s)][n] # NoRow =>
                       files'[SUser(s)][n].md5 = offered[s][n]
      <3>1. IInv /\ offered[s][n] \in Contents
        BY <2>2 DEF SendsInv, HistoryInv, SenderTypeOK
      <3>2. inode'[offered[s][n]] > 0
        BY <2>2, <3>1, InodeSteps DEF Remains, SendsRight
      <3>3. ASSUME n \notin moved'[s], files'[SUser(s)][n] # NoRow
            PROVE  files'[SUser(s)][n].md5 = offered[s][n]
        <4>1. Version(files'[SUser(s)][n]) = Version(files[SUser(s)][n])
          BY <2>1, <3>3 DEF NewRows
        <4>2. /\ files[SUser(s)][n] # NoRow
              /\ files'[SUser(s)][n].md5 = files[SUser(s)][n].md5
          BY <3>3, <4>1 DEF Version
        <4> QED
          BY <2>1, <2>2, <3>3, <4>2 DEF SendsRight, HasRow
      <3> QED
        BY <3>2, <3>3
    <2>3. \A n \in Names : offered[s][n] # NoRow =>
              /\ spc'[s] \notin {"idle", "scan"}
              /\ inode'[offered'[s][n]] > 0
              /\ n \notin moved'[s] /\ files'[SUser(s)'][n] # NoRow =>
                    files'[SUser(s)'][n].md5 = offered'[s][n]
      BY <1>3, <2>2 DEF senderVars, SUser
    <2>4. spc[s] = "send" /\ key[s] # NoRow =>
              LET n == Head(want[s]).name
              IN  n \notin moved'[s] /\ offered[s][n] # NoRow => key[s] = offered[s][n]
      BY <2>1 DEF SendsRight
    <2>5. \A n \in Names \ moved'[s], i \in 1..MaxSize :
              offered[s][n] \notin spoilt' \cup {NoRow} /\ sent[s][n][i] # Absent =>
                  sent[s][n][i] = <<offered[s][n], i>>
      BY <1>1, <2>1 DEF SendsRight
    <2> QED
      BY <1>3, <2>3, <2>4, <2>5 DEF SendsRight, senderVars, HasRow, SUser
  <1> QED
    BY <1>2, <1>3

\* A sender whose memory a step of another leaves alone.
LEMMA SendsOther ==
    ASSUME NEW s \in Servers, SendsRight(s), SameSender(s), RecordMoves,
           UNCHANGED <<files, inode, spoilt>>
    PROVE  SendsRight(s)'
  <1>1. CASE spc[s] \in {"idle", "scan"}
    <2>1. /\ sent'[s] = NothingSent
          /\ \A n \in Names : offered'[s][n] = NoRow
          /\ spc'[s] \in {"idle", "scan"}
      BY <1>1 DEF SendsRight, SameSender
    <2> QED
      BY <2>1 DEF SendsRight, NothingSent
  <1>2. CASE spc[s] \notin {"idle", "scan"}
    <2>1. moved'[s] = moved[s]
      BY <1>2, NothingMoves DEF SameSender
    <2> QED
      BY <2>1 DEF SendsRight, SameSender, SUser, HasRow
  <1> QED
    BY <1>1, <1>2

LEMMA OfferSends ==
    ASSUME SendsInv, NEW t \in Servers, SendsRight(t), Offer(t)
    PROVE  SendsRight(t)'
  <1> USE DEF SendsInv, SenderTypeOK
  <1>1. /\ spc'[t] = "pull" /\ scid' = scid
        /\ sent'[t] = NothingSent /\ files' = files /\ inode' = inode
    BY DEF Offer, SendsRight, dbVars
  <1>2. ASSUME NEW n \in Names, offered'[t][n] # NoRow
        PROVE  /\ files[SUser(t)][n] # NoRow
               /\ files[SUser(t)][n].complete
               /\ files[SUser(t)][n].md5 = offered'[t][n]
    BY <1>2 DEF Offer, scanUserFile
  <1>3. \A n \in Names : offered'[t][n] # NoRow => inode[offered'[t][n]] > 0
    BY <1>2, UidAssumption
    DEF HistoryInv, IInv, CompleteHasInode, HasRow, SUser
  <1> QED
    BY <1>1, <1>2, <1>3 DEF SendsRight, SUser, HasRow, NothingSent

LEMMA GetMD5Sends ==
    ASSUME SendsInv, NEW t \in Servers, SendsRight(t), GetMD5(t),
           spoilt' = spoilt, RecordMoves
    PROVE  SendsRight(t)'
  <1> DEFINE n == Head(want[t]).name
  <1> USE DEF SendsInv, SenderTypeOK
  <1>1. n \in Names
    <2>1. Head(want[t]) \in Want
      BY DEF GetMD5, WantsWhileSending
    <2> QED
      BY <2>1 DEF Want
  <1>2. /\ spc'[t] = "send" /\ scid' = scid /\ want' = want /\ offered' = offered
        /\ sent' = sent /\ files' = files /\ inode' = inode /\ spc[t] = "md5"
    BY DEF GetMD5, dbVars
  <1>3. moved'[t] = moved[t]
    BY <1>2, NothingMoves
  <1>4. key'[t] # NoRow /\ n \notin moved[t] /\ offered[t][n] # NoRow =>
            key'[t] = offered[t][n]
    BY <1>1 DEF GetMD5, SendsRight, HasRow
  <1> QED
    BY <1>2, <1>3, <1>4 DEF SendsRight, SUser, HasRow

\* A piece put in its place is there.
LEMMA PutPiece ==
    ASSUME NEW f \in [Names -> [1..MaxSize -> Bytes]], NEW n \in Names,
           NEW i \in 1..MaxSize, NEW v
    PROVE  [f EXCEPT ![n][i] = v][n][i] = v
  OBVIOUS

LEMMA SendPieceSends ==
    ASSUME SendsInv, NEW t \in Servers, SendsRight(t), SendPiece(t),
           spoilt' = spoilt, RecordMoves
    PROVE  SendsRight(t)'
  <1> DEFINE n == Head(want[t]).name
             i == next[t]
  <1> USE DEF SendsInv
  <1>1. /\ n \in Names /\ key[t] \in Contents
        /\ i \in 1..Size[key[t]] /\ i \in 1..MaxSize
        /\ sent' = [sent EXCEPT ![t][n][i] = store[key[t]][i]]
    BY SendPieceType DEF HistoryInv
  <1>2. spc[t] = "send" /\ key[t] # NoRow
    BY DEF SendPiece, Readable
  <1>3. /\ spc'[t] \notin {"idle", "scan", "send"} /\ scid' = scid
        /\ offered' = offered /\ files' = files /\ inode' = inode
    BY DEF SendPiece, SenderTypeOK, dbVars
  <1>4. moved'[t] = moved[t]
    BY <1>3, NothingMoves
  <1>5. ASSUME n \notin moved[t], offered[t][n] \notin spoilt \cup {NoRow}
        PROVE  store[key[t]][i] = <<offered[t][n], i>>
    <2>1. key[t] = offered[t][n]
      BY <1>2, <1>5 DEF SendsRight
    <2>2. inode[key[t]] > 0
      BY <1>1, <1>5, <2>1 DEF SendsRight
    <2> QED
      BY <1>1, <1>5, <2>1, <2>2 DEF HistoryInv, IInv, InodeStored, StoreOwn
  <1>6. sent[t] \in [Names -> [1..MaxSize -> Bytes]]
        /\ sent'[t] = [sent[t] EXCEPT ![n][i] = store[key[t]][i]]
    BY <1>1 DEF SenderTypeOK
  <1>7. ASSUME NEW x \in Names \ moved[t], NEW k \in 1..MaxSize,
               sent'[t][x][k] # Absent, offered[t][x] \notin spoilt \cup {NoRow}
        PROVE  sent'[t][x][k] = <<offered[t][x], k>>
    <2>1. CASE x = n /\ k = i
      <3>1. sent'[t][n][i] = store[key[t]][i]
        <4> DEFINE g == sent[t]
                   v == store[key[t]][i]
        <4>1. g \in [Names -> [1..MaxSize -> Bytes]] /\ sent'[t] = [g EXCEPT ![n][i] = v]
          BY <1>6
        <4>2. ASSUME NEW F, NEW m \in Names, NEW j \in 1..MaxSize, NEW w,
                     F \in [Names -> [1..MaxSize -> Bytes]]
              PROVE  [F EXCEPT ![m][j] = w][m][j] = w
          <5> HIDE DEF n, i, g, v, SendsInv
          <5> QED
            BY <4>2, PutPiece
        <4> HIDE DEF n, i, g, v, SendsInv
        <4>3. [g EXCEPT ![n][i] = v][n][i] = v
          BY <1>1, <4>1, <4>2, Zenon
        <4> QED
          BY <4>1, <4>3, Zenon DEF v
      <3>2. store[key[t]][i] = <<offered[t][n], i>>
        BY <1>5, <1>7, <2>1
      <3> QED
        BY <2>1, <3>1, <3>2
    <2>2. CASE ~(x = n /\ k = i)
      <3>1. sent'[t][x][k] = sent[t][x][k]
        BY <1>1, <1>6, <2>2
      <3> QED
        BY <1>7, <3>1 DEF SendsRight
    <2> QED
      BY <2>1, <2>2
  <1> QED
    BY <1>2, <1>3, <1>4, <1>7 DEF SendsRight, SUser, HasRow

LEMMA ControlSends ==
    ASSUME SendsInv, NEW t \in Servers, SendsRight(t), spoilt' = spoilt, RecordMoves,
           \/ \E c \in Clients : Open(t, c)
           \/ \E w \in Pulls : ReadPull(t, w)
           \/ ReadMax(t) \/ UpdateCommitid(t) \/ Return(t)
    PROVE  SendsRight(t)'
  <1> USE DEF SendsInv, SenderTypeOK, dbVars
  <1>1. CASE \E c \in Clients : Open(t, c)
    <2>1. /\ spc[t] = "idle" /\ spc'[t] = "scan" /\ offered' = offered
          /\ sent' = sent
      BY <1>1 DEF Open
    <2> QED
      BY <2>1 DEF SendsRight, NothingSent
  <1>2. CASE \/ \E w \in Pulls : ReadPull(t, w)
             \/ ReadMax(t) \/ UpdateCommitid(t)
    <2>1. /\ spc[t] \notin {"idle", "scan"}
          /\ spc'[t] \in {"max", "md5", "update", "pull"}
          /\ offered' = offered /\ sent' = sent /\ scid' = scid
          /\ files' = files /\ inode' = inode
      BY <1>2 DEF ReadPull, ReadMax, UpdateCommitid
    <2>2. moved'[t] = moved[t]
      BY <2>1, NothingMoves
    <2> QED
      BY <2>1, <2>2 DEF SendsRight, SUser, HasRow
  <1>3. CASE Return(t)
    <2>1. /\ spc'[t] = "idle" /\ offered'[t] = NothingOffered
          /\ sent'[t] = NothingSent
      BY <1>3 DEF Return
    <2> QED
      BY <2>1 DEF SendsRight, NothingOffered, NothingSent
  <1> QED
    BY <1>1, <1>2, <1>3

LEMMA SendsSenderStep ==
    ASSUME SendsInv, NEW t \in Servers, SendStep(t), spoilt' = spoilt, RecordMoves
    PROVE  OfferedIsKept' /\ SentNothing' /\ KeyIsOffered' /\ DeliversOffered'
  <1>1. \A s \in Servers : SendsRight(s)
    BY SendsParts DEF SendsInv
  <1>2. /\ UNCHANGED <<files, inode>>
        /\ \A s \in Servers : s # t => SameSender(s)
    BY OtherSenders DEF SendsInv
  <1>3. SendsRight(t)'
    BY <1>1, OfferSends, GetMD5Sends, SendPieceSends, ControlSends
    DEF SendStep, SendFails, MaxIsNull, CloseSender
  <1>4. \A s \in Servers : SendsRight(s)'
    BY <1>1, <1>2, <1>3, SendsOther
  <1> QED
    BY <1>4 DEF SendsRight, OfferedIsKept, SentNothing, KeyIsOffered, DeliversOffered

LEMMA SendsInvStep == SendsInv /\ [ServerNext]_allVars => SendsInv'
  <1> SUFFICES ASSUME SendsInv, [ServerNext]_allVars PROVE SendsInv'
    OBVIOUS
  <1> USE DEF SendsInv
  <1>1. CASE UNCHANGED allVars
    <2>1. HistoryInv'
      BY <1>1, HistoryStep DEF allVars
    <2>2. UNCHANGED <<senderVars, moved, spoilt, files, inode>>
      BY <1>1 DEF allVars, uploadVars, historyVars, vars, dbVars
    <2> QED
      BY <2>1, <2>2
      DEF senderVars, SenderTypeOK, WantsWhileSending, OfferedIsKept, SentNothing,
          KeyIsOffered, DeliversOffered, SUser, HasRow
  <1>2. CASE HistoryNext /\ UNCHANGED senderVars /\ RecordMoves
    <2>1. HistoryInv' /\ moved' \in [Servers -> SUBSET Names]
      BY <1>2, HistoryStep, MovesType
    <2>2. SenderTypeOK' /\ WantsWhileSending'
      BY <1>2 DEF senderVars, SenderTypeOK, WantsWhileSending
    <2>3. PICK q \in Procs : Step(q) /\ Record(q)
      BY <1>2 DEF HistoryNext, Step
    <2>4. \A s \in Servers : SendsRight(s)'
      BY <1>2, <2>3, SendsReceiverStep, SendsParts
    <2>5. OfferedIsKept' /\ SentNothing' /\ KeyIsOffered' /\ DeliversOffered'
      BY <2>4 DEF SendsRight, OfferedIsKept, SentNothing, KeyIsOffered,
                  DeliversOffered
    <2> QED
      BY <2>1, <2>2, <2>5
  <1>3. CASE /\ SenderNext /\ UNCHANGED <<procVars, sessions, kills, historyVars>>
             /\ RecordMoves
    <2>1. PICK t \in Servers : SendStep(t)
      BY <1>3 DEF SenderNext, SendStep
    <2>2. IInv
      BY DEF HistoryInv
    <2>3. SenderTypeOK' /\ WantsWhileSending' /\ commitid' \in [Clients -> Nat]
      BY <2>1, <2>2, SendStepType
    <2>4. HistoryInv' /\ moved' \in [Servers -> SUBSET Names]
      BY <1>3, <2>1, <2>2, <2>3, OtherSenders, ReceiversUnmoved, MovesType
    <2>5. spoilt' = spoilt
      BY <1>3 DEF historyVars
    <2> QED
      BY <1>3, <2>1, <2>3, <2>4, <2>5, SendsSenderStep
  <1> QED
    BY <1>1, <1>2, <1>3 DEF ServerNext

\* What a machine is sent for a file is the content it was offered, whatever is
\* uploaded and pulled meanwhile, unless the user's row got another content in
\* between or wrong bytes were pushed for that content.
THEOREM DeliversOfferedAlways == ServerSpec => []DeliversOffered
  <1>1. SendsInv => DeliversOffered
    BY DEF SendsInv
  <1> QED
    BY <1>1, SendsInitInv, SendsInvStep, PTL DEF ServerSpec

=============================================================================
