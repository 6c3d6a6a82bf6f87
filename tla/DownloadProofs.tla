--------------------------- MODULE DownloadProofs ---------------------------
(***************************************************************************)
(* The properties of Download for any names, contents, lengths and bounds, *)
(* but for those that need fairness.                                       *)
(*                                                                         *)
(* Within a session the .tmydownload files of the files to come stay as    *)
(* they were when the Pull was made, so the chunks setFile reads are the   *)
(* ones the Pull starts after (PullsFit, PushFits); and what setFile       *)
(* writes for the file before has been written to that file (SavedChunks-  *)
(* OnDisk, CountedOnDisk).  A name a DirInfo says twice, after an entry    *)
(* got an ".old" name, is asked for from its first piece only (DirFits).   *)
(* While what is asked for is what the rows have, a file under download is *)
(* a beginning of the row's content that lacks at least a piece (Steady-   *)
(* Inv).                                                                   *)
(* Of the names nothing is renamed to, a session asks once, for exactly    *)
(* what lacks, and writes only while they are under download (KeepsInv).   *)
(***************************************************************************)
EXTENDS Download, FiniteSetTheorems, SequenceTheorems, TLAPS

InLoop == {"check", "rename", "remove", "create"}
InPushes == {"wait", "truncate", "load", "write", "insert", "spin"}
WithPush == {"truncate", "load", "write", "insert"}

Row(n) == n \in Announced /\ rows[n] # NoFile

Whole == [bytes : Versions, modtime : Nat]
File == [bytes : Seq(Pieces), modtime : Nat]
Listed == [name : Names, bytes : Versions, modtime : Nat]
Asked == [name : Names, from : Nat \ {0}, len : Int, of : Seq(Pieces), cut : BOOLEAN]

DownloadTypes ==
    /\ rows \in [Announced -> Whole \cup {NoFile}]
    /\ local \in [Names -> File \cup {NoFile}]
    /\ meta \in [Names -> Nat \cup {NoMeta}]
    /\ pc \in {"off", "dial", "sleep"} \cup InLoop \cup InPushes
    /\ mode \in {1, 3}
    /\ dir \in Seq(Listed)
    /\ at \in Nat \ {0}
    /\ flen \in [Names -> Nat]
    /\ pulls \in Seq(Asked)
    /\ file \in Names \cup {NoName}
    /\ chunks \in Nat
    /\ push \in [name : Names \cup {NoName}, from : Nat, bytes : Seq(Pieces)]
    /\ steady \in BOOLEAN /\ clock \in Nat /\ edits \in Nat

\* The writer lives in the push loop, and a push between its arrival and the
\* next wait; more is to come only after a push with a piece.
WriterInPushes ==
    /\ pc \notin InPushes => pulls = <<>> /\ file = NoName /\ chunks = 0
    /\ pc \in InLoop \ {"check"} => at <= Len(dir)
    /\ pc \in WithPush => push.name \in Names /\ push.from > 0
    /\ pc \in WithPush /\ pulls # <<>> => push.bytes # <<>>
    /\ pc \in {"write", "insert"} => file = push.name
    /\ pc = "truncate" => file # NoName /\ Downloading(file)

\* An entry the loop has not come to is the one the server sent; one it has
\* passed is, too, or was given another name and is asked for from the start.
FromServer(i) ==
    /\ Row(dir[i].name)
    /\ steady => dir[i].bytes = rows[dir[i].name].bytes
    /\ Len(dir[i].bytes) = flen[dir[i].name]

\* An entry that was given another name; the server has no row of that name,
\* or what is asked for is not what the rows have.
Aside(i) == dir[i].name \notin Plain /\ (steady => ~Row(dir[i].name))

AtChanged == pc \in {"remove", "create"}
Unseen(i) == i > at \/ (i = at /\ ~AtChanged)

DirFits ==
    pc \in InLoop =>
        /\ \A i \in DOMAIN dir :
              \/ FromServer(i)
              \/ i < at /\ Aside(i) /\ meta[dir[i].name] = 0
              \/ i = at /\ AtChanged /\ Aside(i)
        /\ \A i \in DOMAIN dir : Unseen(i) => FromServer(i)
        /\ \A i, j \in DOMAIN dir : dir[i].name = dir[j].name /\ i # j =>
              /\ ~(Unseen(i) /\ Unseen(j))
              /\ dir[i].name \notin Plain
              /\ i < at =>
                    \/ meta[dir[i].name] = 0
                    \/ j = at /\ AtChanged
        /\ pc # "check" /\ dir[at].name \in Plain => ~Downloading(dir[at].name)
        /\ pc = "create" => ~Exists(dir[at].name)

\* What is asked for: the first piece of a name, the one that follows the
\* recorded ones of a file not begun, or the one that follows the chunks of
\* the file in the writer.
PullsFit ==
    \A i \in DOMAIN pulls :
        \/ pulls[i].from = 1
        \/ /\ meta[pulls[i].name] # NoMeta /\ pulls[i].from = meta[pulls[i].name] + 1
           /\ pulls[i].name # file
           /\ pc \in WithPush => pulls[i].name # push.name
           /\ \A j \in DOMAIN pulls : j < i => pulls[j].name # pulls[i].name
        \/ /\ i = 1 /\ pc \in {"wait", "spin"}
           /\ pulls[i].name = file /\ pulls[i].from <= chunks + 1
        \/ /\ i = 1 /\ pc \in WithPush
           /\ pulls[i].name = push.name /\ pulls[i].from = push.from + 1

\* The piece received follows the chunks of its file.
PushFits ==
    /\ pc \in {"truncate", "load"} =>
          \/ push.from = 1
          \/ push.name = file /\ push.from <= chunks + 1
          \/ /\ push.name # file /\ meta[push.name] # NoMeta
             /\ push.from = meta[push.name] + 1
    /\ pc \in {"write", "insert"} => push.from <= chunks + 1

\* The pieces the writer counts for a file are in it; so is the one written.
CountedOnDisk ==
    /\ file \in Plain /\ Downloading(file) /\ chunks > 0 =>
          Exists(file) /\ chunks <= Len(local[file].bytes)
    /\ pc = "insert" /\ push.bytes # <<>> /\ file \in Plain /\ Downloading(file) =>
          Exists(file) /\ push.from <= Len(local[file].bytes)

SavedInv ==
    /\ DownloadTypes /\ WriterInPushes /\ DirFits
    /\ PullsFit /\ PushFits /\ SavedChunksOnDisk /\ CountedOnDisk

\* While no row changes under a download: the lengths of the DirInfo are those
\* of the rows, and no file has all its pieces recorded or counted.
SteadyLengths ==
    steady =>
        /\ pc \notin {"off", "dial", "sleep"} =>
              \A n \in Names : flen[n] = IF Row(n) THEN Len(rows[n].bytes) ELSE 0
        /\ \A n \in Names : Row(n) /\ Downloading(n) => meta[n] < Len(rows[n].bytes)
        /\ Row(file) /\ Downloading(file) => chunks < Len(rows[file].bytes)

\* The piece received is that of the row; a file under download is a beginning
\* of the row's content.
SteadyPush ==
    steady /\ pc \in WithPush /\ push.bytes # <<>> =>
        /\ Row(push.name) /\ push.from <= Len(rows[push.name].bytes)
        /\ push.bytes[1] = rows[push.name].bytes[push.from]

SteadyPrefix ==
    \A n \in Plain :
        /\ Downloading(n) => Row(n)
        /\ steady /\ Downloading(n) /\ Exists(n) =>
              /\ Len(local[n].bytes) <= Len(rows[n].bytes)
              /\ \A i \in DOMAIN local[n].bytes : local[n].bytes[i] = rows[n].bytes[i]

\* What is asked for is of the content the row has, and is read whole.
SteadyAsked ==
    steady =>
        /\ ~shifted
        /\ \A i \in DOMAIN pulls : Row(pulls[i].name) =>
              pulls[i].of = rows[pulls[i].name].bytes

SteadyInv ==
    /\ SavedInv /\ SteadyLengths /\ PullsArePositive /\ SteadyAsked
    /\ SteadyPush /\ SteadyPrefix

\* Of a plain name, exactly what lacks is asked for, once, and the file stays
\* under download until the last of it is there.
PlainPull(i) ==
    /\ Downloading(pulls[i].name)
    /\ pulls[i].from + pulls[i].len = flen[pulls[i].name] + 1
    /\ \A j \in DOMAIN pulls : j # i => pulls[j].name # pulls[i].name
    /\ \/ /\ pulls[i].from = meta[pulls[i].name] + 1 /\ pulls[i].name # file
          /\ pc \in WithPush => pulls[i].name # push.name
       \/ /\ i = 1 /\ pc \in {"wait", "spin"}
          /\ pulls[i].name = file /\ pulls[i].from = chunks + 1
       \/ /\ i = 1 /\ pc \in WithPush /\ pulls[i].len > 0
          /\ pulls[i].name = push.name /\ pulls[i].from = push.from + 1

PlainPulls == \A i \in DOMAIN pulls : pulls[i].name \in Plain => PlainPull(i)

PlainPush ==
    pc \in WithPush /\ push.name \in Plain =>
        /\ Downloading(push.name)
        /\ pc \in {"truncate", "load"} =>
              push.from = (IF push.name = file THEN chunks ELSE meta[push.name]) + 1
        /\ pc \in {"write", "insert"} => push.from = chunks + 1

\* RenameLocal moved the file, or found its new name taken.
MovedAside ==
    pc = "remove" /\ mode = 1 /\ dir[at].name \in Plain /\ Exists(dir[at].name) =>
        Exists(Old[dir[at].name])

KeepsInv == SavedInv /\ PlainPulls /\ PlainPush /\ MovedAside

-----------------------------------------------------------------------------
(* Lists and contents *)

\* A content has at least one piece.
LEMMA VersionFacts ==
    ASSUME NEW b \in Versions
    PROVE  /\ b \in Seq(Pieces) /\ Len(b) \in Nat \ {0} /\ DOMAIN b = 1..Len(b)
           /\ \A i \in 1..Len(b) : b[i] \in Pieces
  <1>1. PICK m \in Contents : b = Bytes(m)
    BY DEF Versions
  <1>2. Size[m] \in Nat \ {0}
    BY SizesAssumption
  <1>3. b = [i \in 1..Size[m] |-> <<m, i>>]
    BY <1>1 DEF Bytes
  <1>4. DOMAIN b = 1..Size[m]
    BY <1>3
  <1>5. \A i \in 1..Size[m] : b[i] \in Pieces
    <2>1. {b[i] : i \in DOMAIN b} \in {{c[i] : i \in DOMAIN c} : c \in Versions}
      OBVIOUS
    <2>2. {b[i] : i \in DOMAIN b} \subseteq Pieces
      BY <2>1 DEF Pieces
    <2> QED
      BY <1>4, <2>2
  <1>6. b \in [1..Size[m] -> Pieces]
    BY <1>3, <1>4, <1>5
  <1> QED
    BY <1>2, <1>5, <1>6

LEMMA FileFacts ==
    /\ NoFile \notin File /\ NoFile \notin Whole
    /\ \A r \in Whole : r.bytes \in Versions /\ r.modtime \in Nat
    /\ \A f \in File : f.bytes \in Seq(Pieces) /\ f.modtime \in Nat
    /\ NoMeta \notin Nat /\ NoName \notin Names
  <1>1. Whole \subseteq File
    BY VersionFacts DEF Whole, File
  <1> QED
    BY <1>1, NoneAssumption DEF Whole, File

LEMMA NameFacts ==
    /\ Announced \subseteq Names /\ Plain \subseteq Announced
    /\ \A n \in Announced : Old[n] \in Names /\ Old[n] # n /\ Old[n] \notin Plain
  BY OrderAssumption DEF Announced, Plain

\* The list InOrder stands for.
LEMMA InOrderFacts ==
    ASSUME NEW n \in Nat, NEW places, places \subseteq 1..n, NEW h \in InOrder(places)
    PROVE  /\ h \in Seq(places)
           /\ DOMAIN h = 1..Len(h)
           /\ \A i, j \in DOMAIN h : h[i] = h[j] => i = j
           /\ \A x \in places : \E i \in DOMAIN h : h[i] = x
           /\ h = <<>> <=> places = {}
  <1>0. places \subseteq Int
    OBVIOUS
  <1>1. Cardinality(places) \in Nat
    <2>1. IsFiniteSet(1..n)
      BY FS_Interval
    <2> QED
      BY <2>1, FS_Subset, FS_CardinalityType
  <1>2. h \in [1..Cardinality(places) -> places]
    BY DEF InOrder
  <1>3. h \in Seq(places) /\ DOMAIN h = 1..Len(h)
    BY <1>1, <1>2
  <1>4. \A i, j \in DOMAIN h : i < j => h[i] < h[j]
    BY DEF InOrder
  <1>5. {h[i] : i \in DOMAIN h} = places
    BY DEF InOrder
  <1>6. ASSUME NEW i \in DOMAIN h, NEW j \in DOMAIN h, h[i] = h[j] PROVE i = j
    <2>1. i \in 1..Len(h) /\ j \in 1..Len(h) /\ Len(h) \in Nat
      BY <1>3
    <2>2. h[i] \in places /\ h[j] \in places
      BY <1>2
    <2>3. h[i] \in Int /\ h[j] \in Int
      BY <1>0, <2>2
    <2> QED
      BY <1>4, <1>6, <2>1, <2>3
  <1>7. h = <<>> <=> places = {}
    <2>1. h = <<>> <=> Len(h) = 0
      BY <1>3, EmptySeq
    <2>2. Len(h) = 0 => places = {}
      BY <1>3, <1>5
    <2>3. places = {} => DOMAIN h = {}
      BY <1>5
    <2>4. DOMAIN h = {} => Len(h) = 0
      BY <1>3
    <2> QED
      BY <2>1, <2>2, <2>3, <2>4
  <1>8. \A x \in places : \E i \in DOMAIN h : h[i] = x
    BY <1>5
  <1> QED
    BY <1>3, <1>6, <1>7, <1>8

\* A list made of another one's items at some places.
LEMMA MadeList ==
    ASSUME NEW S, NEW P, NEW h \in Seq(P), NEW e(_), \A x \in P : e(x) \in S
    PROVE  LET s == [k \in DOMAIN h |-> e(h[k])]
           IN  /\ s \in Seq(S) /\ DOMAIN s = DOMAIN h
               /\ \A k \in DOMAIN s : s[k] = e(h[k])
  OBVIOUS

\* A list one item of which is replaced.
LEMMA SetItem ==
    ASSUME NEW S, NEW s \in Seq(S), NEW i \in DOMAIN s, NEW e \in S
    PROVE  /\ [s EXCEPT ![i] = e] \in Seq(S)
           /\ Len([s EXCEPT ![i] = e]) = Len(s)
           /\ DOMAIN [s EXCEPT ![i] = e] = DOMAIN s
           /\ [s EXCEPT ![i] = e][i] = e
           /\ \A j \in DOMAIN s : j # i => [s EXCEPT ![i] = e][j] = s[j]
  BY ExceptSeq

\* A list without its first item.
LEMMA TailItems ==
    ASSUME NEW S, NEW s \in Seq(S), s # <<>>
    PROVE  /\ Head(s) \in S /\ Head(s) = s[1] /\ 1 \in DOMAIN s
           /\ Tail(s) \in Seq(S)
           /\ \A i \in DOMAIN Tail(s) : i \in Nat \ {0} /\ i + 1 \in DOMAIN s
                                        /\ Tail(s)[i] = s[i + 1]
  OBVIOUS

-----------------------------------------------------------------------------
(* Types *)

Shape == DownloadTypes /\ WriterInPushes

\* A piece that is none of the row's content.
MixedArrives == PieceIsCut \/ PieceRunsOver \/ ShiftedPiece

LEMMA InitShape == DownloadInit => Shape
  <1> SUFFICES ASSUME DownloadInit PROVE Shape
    OBVIOUS
  <1>1. DownloadTypes
    <2>1. [bytes : Versions, modtime : {0}] \subseteq Whole
      BY DEF Whole
    <2>2. rows \in [Announced -> Whole \cup {NoFile}]
      BY <2>1 DEF DownloadInit
    <2> QED
      BY <2>2 DEF DownloadInit, DownloadTypes, Nothing, InLoop, InPushes
  <1>2. WriterInPushes
    BY DEF DownloadInit, WriterInPushes, InLoop, InPushes, WithPush
  <1> QED
    BY <1>1, <1>2 DEF Shape

\* The sets of labels.
USE DEF InLoop, InPushes, WithPush, AtChanged, Downloading, Exists, Row

LEMMA EndsShape ==
    ASSUME Shape, ThreadEnds,
           UNCHANGED <<rows, local, meta, steady, clock, edits>>
    PROVE  Shape'
  BY DEF Shape, DownloadTypes, WriterInPushes, ThreadEnds, Nothing

LEMMA WorldShape ==
    ASSUME Shape,
           \/ \E n \in Announced, m \in Contents, t \in 1..MaxClock, r \in BOOLEAN :
                 RowChanges(n, m, t, r)
           \/ \E n \in Announced, m \in Contents : UserEdits(n, m)
           \/ \E m \in {1, 3} : Start(m)
           \/ NextSync \/ CloseInside \/ Starves
    PROVE  Shape'
  <1>1. ASSUME NEW m \in Contents, NEW t \in Nat
        PROVE  /\ [bytes |-> Bytes(m), modtime |-> t] \in Whole
               /\ [bytes |-> Bytes(m), modtime |-> t] \in File
    BY VersionFacts DEF Versions, Whole, File
  <1> USE DEF Shape, DownloadTypes
  <1>2. ASSUME NEW n \in Announced, NEW m \in Contents, NEW t \in 1..MaxClock,
               NEW r \in BOOLEAN, RowChanges(n, m, t, r)
        PROVE  Shape'
    <2>1. [bytes |-> Bytes(m), modtime |-> t] \in Whole /\ t \in Nat
      BY <1>1, LimitsAssumption
    <2>2. rows' \in [Announced -> Whole \cup {NoFile}]
      BY <1>2, <2>1 DEF RowChanges
    <2>3. steady' \in BOOLEAN /\ clock' \in Nat
      BY <1>2, <2>1 DEF RowChanges, Steady
    <2> QED
      BY <1>2, <2>2, <2>3 DEF RowChanges, threadVars, WriterInPushes
  <1>3. ASSUME NEW n \in Announced, NEW m \in Contents, UserEdits(n, m)
        PROVE  Shape'
    <2>1. clock' \in Nat /\ n \in Names
      BY <1>3, NameFacts DEF UserEdits
    <2>2. local' \in [Names -> File \cup {NoFile}]
      BY <1>1, <1>3, <2>1 DEF UserEdits
    <2> QED
      BY <1>3, <2>1, <2>2 DEF UserEdits, threadVars, WriterInPushes
  <1>4. CASE \E m \in {1, 3} : Start(m)
    BY <1>4 DEF Start, worldVars, WriterInPushes
  <1>6. CASE NextSync
    BY <1>6 DEF NextSync, worldVars, WriterInPushes
  <1>5. CASE CloseInside \/ Starves
    BY <1>5 DEF CloseInside, Starves, Hung, WriterInPushes
  <1> HIDE DEF Shape, DownloadTypes
  <1> QED
    BY <1>2, <1>3, <1>4, <1>5, <1>6

LEMMA OfferedFacts ==
    ASSUME Shape, NEW n \in Names, Row(n)
    PROVE  /\ Offered(n) \in Listed /\ Offered(n).name = n
           /\ Offered(n).bytes = rows[n].bytes
           /\ rows[n].bytes \in Versions
           /\ Len(rows[n].bytes) \in Nat \ {0}
  BY FileFacts, VersionFacts DEF Shape, DownloadTypes, Offered, Listed

\* What is known of dirinfo when it arrives.
LEMMA DirInfoFacts ==
    ASSUME Shape, ReadDirInfo
    PROVE  /\ dir' \in Seq(Listed)
           /\ \A i \in DOMAIN dir' : Row(dir'[i].name)
                 /\ dir'[i].bytes = rows[dir'[i].name].bytes
           /\ \A i, j \in DOMAIN dir' : dir'[i].name = dir'[j].name => i = j
  <1> DEFINE places == {i \in DOMAIN Order : rows[Order[i]] # NoFile}
             e(i) == Offered(Order[i])
  <1>1. PICK h \in InOrder(places) : dir' = [k \in DOMAIN h |-> Offered(Order[h[k]])]
    BY DEF ReadDirInfo
  <1>2. Len(Order) \in Nat /\ places \subseteq 1..Len(Order)
    BY OrderAssumption
  <1>3. /\ h \in Seq(places) /\ DOMAIN h = 1..Len(h)
        /\ \A i, j \in DOMAIN h : h[i] = h[j] => i = j
    <2> HIDE DEF places
    <2> QED
      BY <1>2, InOrderFacts
  <1>4. \A x \in places : Order[x] \in Names /\ Row(Order[x])
    BY OrderAssumption DEF Announced
  <1>5. \A x \in places : e(x) \in Listed
    BY <1>4, OfferedFacts
  <1>6. \A k \in DOMAIN h : h[k] \in places
    BY <1>3
  <1>7. DOMAIN dir' = DOMAIN h /\ \A k \in DOMAIN h : dir'[k] = e(h[k])
    BY <1>1
  <1>8. dir' \in Seq(Listed)
    BY <1>3, <1>5, <1>6, <1>7, <1>1
  <1>9. ASSUME NEW k \in DOMAIN dir'
        PROVE  /\ h[k] \in places /\ dir'[k].name = Order[h[k]]
               /\ Row(dir'[k].name) /\ dir'[k].bytes = rows[dir'[k].name].bytes
    <2>1. h[k] \in places /\ dir'[k] = Offered(Order[h[k]])
      BY <1>6, <1>7
    <2>2. Row(Order[h[k]]) /\ Order[h[k]] \in Names
      BY <1>4, <2>1
    <2> QED
      BY <2>1, <2>2, OfferedFacts
  <1>10. ASSUME NEW i \in DOMAIN dir', NEW j \in DOMAIN dir',
                dir'[i].name = dir'[j].name
         PROVE  i = j
    <2>1. Order[h[i]] = Order[h[j]] /\ h[i] \in DOMAIN Order /\ h[j] \in DOMAIN Order
      BY <1>9, <1>10
    <2>2. h[i] = h[j]
      BY <2>1, OrderAssumption
    <2> QED
      BY <1>3, <1>7, <2>2
  <1> QED
    BY <1>8, <1>9, <1>10


LEMMA EntryFacts ==
    ASSUME Shape, at <= Len(dir)
    PROVE  /\ at \in DOMAIN dir /\ Entry = dir[at] /\ Entry \in Listed
           /\ Entry.name \in Names /\ Entry.bytes \in Versions /\ Entry.modtime \in Nat
  <1>1. dir \in Seq(Listed) /\ at \in Nat \ {0}
    BY DEF Shape, DownloadTypes
  <1>2. at \in DOMAIN dir /\ dir[at] \in Listed /\ Entry = dir[at]
    BY <1>1 DEF Entry
  <1> QED
    BY <1>2 DEF Listed

LEMMA ReadShape ==
    ASSUME Shape, ReadDirInfo
    PROVE  Shape'
  <1>1. dir' \in Seq(Listed)
    BY DirInfoFacts
  <1>2. \A n \in Names : n \in Announced /\ rows[n] # NoFile => Len(rows[n].bytes) \in Nat
    BY OfferedFacts
  <1>3. flen' \in [Names -> Nat]
    BY <1>2 DEF ReadDirInfo
  <1> QED
    BY <1>1, <1>3 DEF Shape, DownloadTypes, WriterInPushes, ReadDirInfo, worldVars

\* What KeepLocal makes of dirinfo.
LEMMA KeepLocalFacts ==
    ASSUME Shape, KeepLocal, Entry.name \in Announced
    PROVE  /\ at \in DOMAIN dir /\ dir' \in Seq(Listed)
           /\ Len(dir') = Len(dir) /\ DOMAIN dir' = DOMAIN dir
           /\ dir'[at].name = Old[dir[at].name]
           /\ \A j \in DOMAIN dir : dir'[j].bytes = dir[j].bytes
           /\ \A j \in DOMAIN dir : j # at => dir'[j] = dir[j]
  <1> DEFINE e == [dir[at] EXCEPT !.name = Old[@]]
  <1>1. at \in DOMAIN dir /\ Entry = dir[at] /\ dir[at] \in Listed
    BY EntryFacts DEF KeepLocal
  <1>2. e \in Listed /\ e.name = Old[dir[at].name] /\ e.bytes = dir[at].bytes
    BY <1>1, NameFacts DEF Listed
  <1>3. dir' = [dir EXCEPT ![at] = e]
    BY <1>1 DEF KeepLocal
  <1>4. dir \in Seq(Listed)
    BY DEF Shape, DownloadTypes
  <1> HIDE DEF e
  <1> QED
    BY <1>1, <1>2, <1>3, <1>4, SetItem

LEMMA LoopShape ==
    ASSUME Shape,
           \/ SkipEntry \/ TakeOnline \/ RenameLocal \/ RemoveLocal \/ CreateMeta
           \/ KeepLocal /\ Entry.name \in Announced
    PROVE  Shape'
  <1>1. CASE SkipEntry
    BY <1>1 DEF Shape, DownloadTypes, WriterInPushes, SkipEntry, Step, worldVars
  <1>2. CASE TakeOnline
    BY <1>2 DEF Shape, DownloadTypes, WriterInPushes, TakeOnline, Step, worldVars
  <1>3. CASE RenameLocal
    <2>1. Entry.name \in Names
      BY <1>3, EntryFacts DEF RenameLocal, Shape, WriterInPushes
    <2>2. local' \in [Names -> File \cup {NoFile}]
      BY <1>3, <2>1 DEF RenameLocal, Shape, DownloadTypes
    <2>3. /\ pc = "rename" /\ pc' = "remove"
          /\ UNCHANGED <<rows, steady, clock, edits, mode, dir, at, meta, flen, pulls, file, chunks, push>>
      BY <1>3 DEF RenameLocal, Step, worldVars
    <2> QED
      BY <2>2, <2>3 DEF Shape, DownloadTypes, WriterInPushes
  <1>4. CASE RemoveLocal
    BY <1>4 DEF Shape, DownloadTypes, WriterInPushes, RemoveLocal, Step, worldVars
  <1>5. CASE CreateMeta
    <2>1. at <= Len(dir) /\ at + 1 \in Nat \ {0}
      BY <1>5 DEF Shape, DownloadTypes, WriterInPushes, CreateMeta
    <2>2. meta' \in [Names -> Nat \cup {NoMeta}]
      BY <1>5 DEF Shape, DownloadTypes, CreateMeta
    <2>3. /\ pc = "create" /\ pc' = "check" /\ at' = at + 1
          /\ UNCHANGED <<rows, steady, clock, edits, mode, dir, local, flen, pulls, file, chunks, push>>
      BY <1>5 DEF CreateMeta, Step, worldVars
    <2> QED
      BY <2>1, <2>2, <2>3 DEF Shape, DownloadTypes, WriterInPushes
  <1>6. CASE KeepLocal /\ Entry.name \in Announced
    BY <1>6, KeepLocalFacts
       DEF Shape, DownloadTypes, WriterInPushes, KeepLocal, Step, worldVars
  <1> QED
    BY <1>1, <1>2, <1>3, <1>4, <1>5, <1>6

\* What is asked for when the list is made: by every entry under download, in
\* the order of dirinfo.
LEMMA PullFacts ==
    ASSUME Shape, SendPull
    PROVE  /\ pulls' \in Seq(Asked)
           /\ (pulls' = <<>>) <=> (pc' = "sleep")
           /\ \E g \in [DOMAIN pulls' -> DOMAIN dir] :
                 /\ \A i, j \in DOMAIN pulls' : g[i] = g[j] => i = j
                 /\ \A k \in DOMAIN pulls' :
                       /\ Downloading(dir[g[k]].name)
                       /\ pulls'[k].name = dir[g[k]].name
                       /\ pulls'[k].from = meta[dir[g[k]].name] + 1
                       /\ pulls'[k].len = Len(dir[g[k]].bytes) - meta[dir[g[k]].name]
                       /\ pulls'[k].of = dir[g[k]].bytes
  <1> DEFINE asked == {i \in DOMAIN dir : Downloading(dir[i].name)}
             e(i) == PullOf(dir[i])
  <1>1. PICK h \in InOrder(asked) : pulls' = [k \in DOMAIN h |-> PullOf(dir[h[k]])]
    BY DEF SendPull
  <1>2. Len(dir) \in Nat /\ asked \subseteq 1..Len(dir) /\ dir \in Seq(Listed)
    BY DEF Shape, DownloadTypes
  <1>3. /\ h \in Seq(asked) /\ DOMAIN h = 1..Len(h)
        /\ \A i, j \in DOMAIN h : h[i] = h[j] => i = j
        /\ h = <<>> <=> asked = {}
    <2> HIDE DEF asked
    <2> QED
      BY <1>2, InOrderFacts
  <1>4. ASSUME NEW x \in asked
        PROVE  /\ e(x) \in Asked /\ e(x).name = dir[x].name
               /\ e(x).from = meta[dir[x].name] + 1
               /\ e(x).len = Len(dir[x].bytes) - meta[dir[x].name]
               /\ e(x).of = dir[x].bytes
    <2>0. dir[x] \in Listed
      BY <1>2
    <2>1. dir[x] \in Listed /\ dir[x].name \in Names /\ dir[x].bytes \in Versions
      BY <2>0 DEF Listed
    <2>2. Len(dir[x].bytes) \in Nat /\ dir[x].bytes \in Seq(Pieces)
      BY <2>1, VersionFacts
    <2>3. meta[dir[x].name] \in Nat
      BY <2>1 DEF Shape, DownloadTypes
    <2> QED
      BY <2>1, <2>2, <2>3 DEF PullOf, Asked
  <1>5. DOMAIN pulls' = DOMAIN h /\ \A k \in DOMAIN h : pulls'[k] = e(h[k])
    BY <1>1
  <1>6. \A k \in DOMAIN h : h[k] \in asked
    BY <1>3
  <1>7. pulls' \in Seq(Asked)
    BY <1>3, <1>4, <1>5, <1>6, <1>1
  <1>8. (pulls' = <<>>) <=> (pc' = "sleep")
    <2>1. pulls' = <<>> <=> h = <<>>
      BY <1>1, <1>3
    <2>2. (asked = {}) <=> (pc' = "sleep")
      BY DEF SendPull
    <2> QED
      BY <1>3, <2>1, <2>2
  <1>9. h \in [DOMAIN pulls' -> DOMAIN dir]
    BY <1>3, <1>5, <1>6
  <1>10. \A i, j \in DOMAIN pulls' : h[i] = h[j] => i = j
    BY <1>3, <1>5
  <1>11. \A k \in DOMAIN pulls' :
            /\ Downloading(dir[h[k]].name)
            /\ pulls'[k].name = dir[h[k]].name
            /\ pulls'[k].from = meta[dir[h[k]].name] + 1
            /\ pulls'[k].len = Len(dir[h[k]].bytes) - meta[dir[h[k]].name]
            /\ pulls'[k].of = dir[h[k]].bytes
    BY <1>4, <1>5, <1>6
  <1> QED
    BY <1>7, <1>8, <1>9, <1>10, <1>11

LEMMA PullShape ==
    ASSUME Shape, SendPull
    PROVE  Shape'
  BY PullFacts DEF Shape, DownloadTypes, WriterInPushes, SendPull, worldVars

LEMMA ReturnsShape ==
    ASSUME Shape, Done \/ Close
    PROVE  Shape'
  <1>1. Returns
    BY DEF Done, Close
  <1> QED
    BY <1>1 DEF Shape, DownloadTypes, WriterInPushes, Returns, Nothing

\* The piece of the row's content that is sent.
LEMMA PieceFacts ==
    ASSUME Shape, PieceArrives
    PROVE  /\ Row(Ask.name) /\ Ask.len > 0
           /\ Ask.from \in 1..Len(rows[Ask.name].bytes)
           /\ rows[Ask.name].bytes[Ask.from] \in Pieces
           /\ push' = [name |-> Ask.name, from |-> Ask.from,
                       bytes |-> <<rows[Ask.name].bytes[Ask.from]>>]
  <1>1. pulls \in Seq(Asked) /\ pulls # <<>>
    BY DEF Shape, DownloadTypes, PieceArrives
  <1>2. Ask \in Asked
    BY <1>1, TailItems DEF Ask
  <1>3. Row(Ask.name) /\ Ask.from <= Len(rows[Ask.name].bytes) /\ Ask.len > 0
    BY DEF PieceArrives, HasPiece
  <1>4. rows[Ask.name].bytes \in Versions /\ Len(rows[Ask.name].bytes) \in Nat
    BY <1>2, <1>3, OfferedFacts DEF Asked
  <1>5. Ask.from \in 1..Len(rows[Ask.name].bytes)
    BY <1>2, <1>3, <1>4 DEF Asked
  <1>6. rows[Ask.name].bytes[Ask.from] \in Pieces
    BY <1>4, <1>5, VersionFacts
  <1> QED
    BY <1>3, <1>5, <1>6 DEF PieceArrives, Receive

\* The items that come after the first, or some of them.
LEMMA SubItems ==
    ASSUME NEW S, NEW s \in Seq(S), NEW k \in 1..Len(s)
    PROVE  LET t == SubSeq(s, 2, k)
           IN  /\ t \in Seq(S)
               /\ \A i \in DOMAIN t : i \in Nat \ {0} /\ i + 1 \in DOMAIN s
                                      /\ t[i] = s[i + 1]
  OBVIOUS

\* The list after a piece of the first item came.
LEMMA SentFacts ==
    ASSUME Shape, PieceArrives \/ MixedArrives
    PROVE  /\ pc = "wait" /\ pc' \in {"truncate", "load"}
           /\ pc' = "truncate" => file # NoName /\ Downloading(file)
           /\ UNCHANGED <<rows, local, meta, mode, dir, at, flen, file, chunks,
                          steady, clock, edits>>
           /\ Ask \in Asked /\ Ask = pulls[1] /\ 1 \in DOMAIN pulls
           /\ push'.name = Ask.name /\ push'.from = Ask.from /\ push'.bytes # <<>>
           /\ push' \in [name : Names \cup {NoName}, from : Nat, bytes : Seq(Pieces)]
           /\ pulls' \in Seq(Asked)
           /\ \/ \A i \in DOMAIN pulls' : /\ i \in Nat \ {0} /\ i + 1 \in DOMAIN pulls
                                          /\ pulls'[i] = pulls[i + 1]
              \/ /\ Ask.len > 1
                 /\ DOMAIN pulls' = DOMAIN pulls /\ 1 \in DOMAIN pulls
                 /\ pulls'[1].name = Ask.name
                 /\ pulls'[1].from = Ask.from + 1 /\ pulls'[1].len = Ask.len - 1
                 /\ pulls'[1].of = Ask.of
                 /\ \A i \in DOMAIN pulls : i # 1 => pulls'[i] = pulls[i]
  <1>1. pulls \in Seq(Asked) /\ pulls # <<>>
    BY DEF Shape, DownloadTypes, PieceArrives, MixedArrives, PieceIsCut, PieceRunsOver,
       ShiftedPiece
  <1>2. Ask \in Asked /\ Ask = pulls[1] /\ 1 \in DOMAIN pulls
    BY <1>1, TailItems DEF Ask
  <1>3. PICK b \in Pieces : Receive(<<b>>)
    <2>1. CASE PieceArrives
      BY <2>1, PieceFacts DEF PieceArrives
    <2>2. CASE MixedArrives
      <3>1. Receive(<<Mixed>>)
        BY <2>2 DEF MixedArrives, PieceIsCut, PieceRunsOver, ShiftedPiece
      <3>2. Mixed \in Pieces
        <4>1. \A S : Mixed \in S \cup {Mixed}
          OBVIOUS
        <4> QED
          BY <4>1 DEF Pieces
      <3> QED
        BY <3>1, <3>2
    <2> QED
      BY <2>1, <2>2
  <1>4. /\ pc = "wait" /\ pc' \in {"truncate", "load"}
        /\ pc' = "truncate" => file # NoName /\ Downloading(file)
        /\ UNCHANGED <<rows, local, meta, mode, dir, at, flen, file, chunks,
                       steady, clock, edits>>
        /\ push' = [name |-> Ask.name, from |-> Ask.from, bytes |-> <<b>>]
    BY <1>3 DEF PieceArrives, MixedArrives, PieceIsCut, PieceRunsOver, ShiftedPiece,
       Receive, worldVars
  <1>5. /\ push'.name = Ask.name /\ push'.from = Ask.from /\ push'.bytes # <<>>
        /\ push' \in [name : Names \cup {NoName}, from : Nat, bytes : Seq(Pieces)]
    BY <1>2, <1>4 DEF Asked
  <1>6. CASE pulls' = Tail(pulls)
    BY <1>1, <1>2, <1>4, <1>5, <1>6, TailItems
  <1>7. ASSUME NEW k \in 1..Len(pulls), pulls' = SubSeq(pulls, 2, k)
        PROVE  /\ pulls' \in Seq(Asked)
               /\ \A i \in DOMAIN pulls' : /\ i \in Nat \ {0} /\ i + 1 \in DOMAIN pulls
                                             /\ pulls'[i] = pulls[i + 1]
    BY <1>1, <1>7, SubItems
  <1>8. CASE PieceRunsOver
    <2>1. PICK k \in 1..Len(pulls) : pulls' = SubSeq(pulls, 2, k)
      BY <1>8 DEF PieceRunsOver
    <2> QED
      BY <1>2, <1>4, <1>5, <1>7, <2>1
  <1>9. CASE PieceArrives /\ Ask.len # 1
    <2>1. Rest \in Asked /\ Rest.name = Ask.name /\ Rest.from = Ask.from + 1
          /\ Rest.len = Ask.len - 1 /\ Rest.of = Ask.of
      <3>1. Rest = [name |-> Ask.name, from |-> Ask.from + 1, len |-> Ask.len - 1,
                    of |-> Ask.of, cut |-> Ask.cut]
        BY DEF Rest
      <3>2. Ask.from + 1 \in Nat \ {0} /\ Ask.len - 1 \in Int
        BY <1>2 DEF Asked
      <3> QED
        BY <1>2, <3>1, <3>2 DEF Asked
    <2>2. pulls' = [pulls EXCEPT ![1] = Rest]
      BY <1>9 DEF PieceArrives
    <2>3. Ask.len > 1
      BY <1>2, <1>9, PieceFacts DEF Asked
    <2>4. /\ pulls' \in Seq(Asked) /\ DOMAIN pulls' = DOMAIN pulls
          /\ pulls'[1] = Rest
          /\ \A i \in DOMAIN pulls : i # 1 => pulls'[i] = pulls[i]
      BY <1>1, <1>2, <2>1, <2>2, SetItem
    <2> QED
      BY <1>2, <1>4, <1>5, <2>1, <2>3, <2>4
  <1> QED
    BY <1>6, <1>8, <1>9 DEF PieceArrives, MixedArrives, PieceIsCut, ShiftedPiece

LEMMA ArrivesShape ==
    ASSUME Shape, Arrives
    PROVE  Shape'
  <1>1. CASE PieceArrives \/ MixedArrives
    <2>1. push'.name \in Names /\ push'.from > 0
      BY <1>1, SentFacts DEF Asked
    <2> QED
      BY <1>1, <2>1, SentFacts DEF Shape, DownloadTypes, WriterInPushes
  <1>2. CASE EmptyPieceArrives
    <2>1. Ask \in Asked
      BY <1>2, TailItems DEF EmptyPieceArrives, Ask, Shape, DownloadTypes
    <2>2. push' = [name |-> Ask.name, from |-> Ask.from, bytes |-> <<>>] /\ pulls' = <<>>
      BY <1>2 DEF EmptyPieceArrives, Receive
    <2>3. /\ push' \in [name : Names \cup {NoName}, from : Nat, bytes : Seq(Pieces)]
          /\ push'.name \in Names /\ push'.from > 0
      BY <2>1, <2>2 DEF Asked
    <2>4. /\ pc' \in {"truncate", "load"} /\ pc = "wait"
          /\ pc' = "truncate" => file # NoName /\ Downloading(file)
          /\ UNCHANGED <<rows, local, meta, mode, dir, at, flen, file, chunks,
                         steady, clock, edits>>
      BY <1>2 DEF EmptyPieceArrives, Receive, worldVars
    <2> QED
      BY <2>2, <2>3, <2>4 DEF Shape, DownloadTypes, WriterInPushes
  <1> QED
    BY <1>1, <1>2 DEF Arrives, MixedArrives

\* What is common to all that comes.
LEMMA ArrivesFacts ==
    ASSUME Shape, Arrives
    PROVE  /\ pc = "wait" /\ pc' \in {"truncate", "load"}
           /\ UNCHANGED <<rows, steady, local, meta, flen, file, chunks>>
           /\ push'.name = Ask.name /\ push'.from = Ask.from
           /\ Ask = pulls[1] /\ 1 \in DOMAIN pulls
  <1>1. CASE PieceArrives \/ MixedArrives
    BY <1>1, SentFacts
  <1>2. CASE EmptyPieceArrives
    <2>1. Ask = pulls[1] /\ 1 \in DOMAIN pulls
      BY <1>2, TailItems DEF EmptyPieceArrives, Ask, Shape, DownloadTypes
    <2> QED
      BY <1>2, <2>1 DEF EmptyPieceArrives, Receive, worldVars
  <1> QED
    BY <1>1, <1>2 DEF Arrives, MixedArrives

LEMMA SetFileShape ==
    ASSUME Shape, TruncateMeta \/ SaveAndLoad
    PROVE  Shape'
  <1>1. CASE TruncateMeta
    <2>1. /\ pc' = "load" /\ meta' \in [Names -> Nat \cup {NoMeta}]
          /\ UNCHANGED <<rows, local, mode, dir, at, flen, pulls, file, chunks, push, steady, clock, edits>>
      BY <1>1 DEF TruncateMeta, InPush, worldVars, Shape, DownloadTypes
    <2> QED
      BY <1>1, <2>1 DEF TruncateMeta, Shape, DownloadTypes, WriterInPushes
  <1>2. CASE SaveAndLoad
    <2>1. push.name \in Names
      BY <1>2 DEF SaveAndLoad, Shape, WriterInPushes
    <2>2. /\ pc = "load" /\ pc' = "write" /\ file' = push.name
          /\ meta' \in [Names -> Nat \cup {NoMeta}]
          /\ UNCHANGED <<rows, local, mode, dir, at, flen, pulls, push, steady, clock, edits>>
      BY <1>2 DEF SaveAndLoad, InPush, worldVars, Shape, DownloadTypes
    <2>3. chunks' \in Nat
      BY <1>2, <2>1, <2>2 DEF SaveAndLoad, Shape, DownloadTypes
    <2> QED
      BY <2>1, <2>2, <2>3 DEF Shape, DownloadTypes, WriterInPushes
  <1> QED
    BY <1>1, <1>2

\* What the file held before.
Before(n) == IF Exists(n) THEN local[n].bytes ELSE <<>>

LEMMA WrittenFacts ==
    ASSUME Shape, pc = "write"
    PROVE  LET b == Before(push.name)
               w == Written(push.name)
           IN  /\ b \in Seq(Pieces) /\ w \in Seq(Pieces) /\ push.from \in Nat \ {0}
               /\ push.bytes = <<>> => w = b
               /\ push.bytes # <<>> /\ push.from <= Len(b) =>
                     /\ Len(w) = Len(b) /\ w[push.from] = push.bytes[1]
                     /\ \A i \in 1..Len(b) : i # push.from => w[i] = b[i]
               /\ push.bytes # <<>> /\ push.from > Len(b) =>
                     /\ Len(w) = Len(b) + 1 /\ w[Len(b) + 1] = push.bytes[1]
                     /\ \A i \in 1..Len(b) : w[i] = b[i]
  <1> DEFINE b == Before(push.name)
             w == Written(push.name)
  <1>1. push.name \in Names /\ push.from \in Nat \ {0} /\ push.bytes \in Seq(Pieces)
    BY DEF Shape, DownloadTypes, WriterInPushes
  <1>2. b \in Seq(Pieces)
    <2>1. local[push.name] \in File \cup {NoFile}
      BY <1>1 DEF Shape, DownloadTypes
    <2> QED
      BY <2>1, FileFacts DEF Before
  <1>3. w = IF push.bytes = <<>> THEN b
            ELSE IF push.from <= Len(b) THEN [b EXCEPT ![push.from] = push.bytes[1]]
            ELSE Append(b, push.bytes[1])
    BY DEF Written, Before
  <1>4. push.bytes # <<>> => push.bytes[1] \in Pieces
    BY <1>1
  <1> HIDE DEF b, w
  <1>5. CASE push.bytes = <<>>
    BY <1>1, <1>2, <1>3, <1>5 DEF b, w
  <1>6. CASE push.bytes # <<>> /\ push.from <= Len(b)
    <2>1. push.from \in DOMAIN b /\ DOMAIN b = 1..Len(b)
      BY <1>1, <1>2, <1>6
    <2>2. w = [b EXCEPT ![push.from] = push.bytes[1]]
      BY <1>3, <1>6
    <2>3. /\ w \in Seq(Pieces) /\ Len(w) = Len(b) /\ w[push.from] = push.bytes[1]
          /\ \A i \in 1..Len(b) : i # push.from => w[i] = b[i]
      BY <1>2, <1>4, <1>6, <2>1, <2>2, SetItem
    <2> QED
      BY <1>1, <1>2, <1>6, <2>3 DEF b, w
  <1>7. CASE push.bytes # <<>> /\ ~(push.from <= Len(b))
    <2>1. w = Append(b, push.bytes[1])
      BY <1>3, <1>7
    <2>2. /\ w \in Seq(Pieces) /\ Len(w) = Len(b) + 1 /\ w[Len(b) + 1] = push.bytes[1]
          /\ \A i \in 1..Len(b) : w[i] = b[i]
      BY <1>2, <1>4, <1>7, <2>1
    <2> QED
      BY <1>1, <1>2, <1>7, <2>2 DEF b, w
  <1> QED
    BY <1>5, <1>6, <1>7

LEMMA WriteShape ==
    ASSUME Shape, WritePush
    PROVE  /\ Shape'
           /\ local' \in [Names -> File \cup {NoFile}] /\ push.name \in Names
           /\ local'[push.name] # NoFile /\ local'[push.name].bytes = Written(push.name)
           /\ \A n \in Names : n # push.name => local'[n] = local[n]
  <1> DEFINE f == [bytes |-> Written(push.name), modtime |-> clock + 1]
  <1>1. push.name \in Names /\ clock \in Nat
    BY DEF WritePush, Shape, DownloadTypes, WriterInPushes
  <1>2. f \in File /\ f # NoFile /\ f.bytes = Written(push.name)
    BY <1>1, WrittenFacts, FileFacts DEF WritePush, File
  <1>3. local' = [local EXCEPT ![push.name] = f]
    BY DEF WritePush
  <1> HIDE DEF f
  <1>4. /\ local' \in [Names -> File \cup {NoFile}]
        /\ local'[push.name] = f
        /\ \A n \in Names : n # push.name => local'[n] = local[n]
    BY <1>1, <1>2, <1>3 DEF Shape, DownloadTypes
  <1>5. /\ pc = "write" /\ pc' = "insert"
        /\ UNCHANGED <<rows, meta, mode, dir, at, flen, pulls, file, chunks, push, steady, clock, edits>>
    BY DEF WritePush, InPush, worldVars
  <1>6. Shape'
    BY <1>4, <1>5 DEF Shape, DownloadTypes, WriterInPushes
  <1> QED
    BY <1>1, <1>2, <1>4, <1>6

LEMMA InsertShape ==
    ASSUME Shape, InsertChunk
    PROVE  Shape'
  <1>1. /\ pc = "insert" /\ pc' = "wait"
        /\ meta' \in [Names -> Nat \cup {NoMeta}]
        /\ UNCHANGED <<rows, local, mode, dir, at, flen, pulls, file, push, steady, clock, edits>>
    BY DEF InsertChunk, InPush, worldVars, Shape, DownloadTypes
  <1>2. chunks' \in Nat
    BY DEF InsertChunk, Inserted, Shape, DownloadTypes
  <1> QED
    BY <1>1, <1>2 DEF Shape, DownloadTypes, WriterInPushes

LEMMA StopShape ==
    ASSUME Shape, Stop \/ StopHung \/ NegativePieceArrives
    PROVE  Shape'
  BY EndsShape DEF Stop, StopHung, NegativePieceArrives, worldVars

\* All steps; KeepLocal needs an entry the server sent.
LEMMA NextShape ==
    ASSUME Shape, DirFits, DownloadNext
    PROVE  Shape'
  <1>1. KeepLocal => Entry.name \in Announced
    <2> SUFFICES ASSUME KeepLocal PROVE Entry.name \in Announced
      OBVIOUS
    <2>1. pc = "check" /\ at \in DOMAIN dir /\ Entry = dir[at]
      BY EntryFacts DEF KeepLocal
    <2>2. Unseen(at)
      BY <2>1 DEF Unseen
    <2> QED
      BY <2>1, <2>2 DEF DirFits, FromServer
  <1>2. CASE ThreadStep
    BY <1>1, <1>2, ReadShape, LoopShape, PullShape, ReturnsShape, StopShape,
       SetFileShape, WriteShape, InsertShape, WorldShape DEF ThreadStep
  <1>3. CASE Arrives \/ Close \/ Stop \/ StopHung
    BY <1>3, ArrivesShape, ReturnsShape, StopShape
  <1> QED
    BY <1>2, <1>3, WorldShape DEF DownloadNext

-----------------------------------------------------------------------------
(* The entries of dirinfo *)

LEMMA DirEntries ==
    ASSUME Shape
    PROVE  /\ DOMAIN dir = 1..Len(dir) /\ Len(dir) \in Nat
           /\ \A i \in DOMAIN dir : /\ dir[i].name \in Names /\ dir[i].bytes \in Versions
                                    /\ Len(dir[i].bytes) \in Nat \ {0}
  <1>1. dir \in Seq(Listed)
    BY DEF Shape, DownloadTypes
  <1>2. \A i \in DOMAIN dir : dir[i] \in Listed
    BY <1>1
  <1> QED
    BY <1>1, <1>2, VersionFacts DEF Listed

\* Rows stay, and another machine's change ends what is said of a session that
\* is under way.
LEMMA RowsStay ==
    ASSUME Shape, DownloadNext
    PROVE  /\ \A n \in Names : Row(n) => Row(n)'
           /\ pc' \notin {"off", "dial", "sleep"} /\ steady' => rows' = rows
           /\ steady' => steady
           /\ rows' # rows => /\ UNCHANGED <<local, meta, threadVars>>
                              /\ steady' => Steady
  <1>1. CASE rows' = rows /\ (steady' => steady)
    BY <1>1
  <1>2. ASSUME NEW n \in Announced, NEW m \in Contents, NEW t \in 1..MaxClock,
               NEW r \in BOOLEAN, RowChanges(n, m, t, r)
        PROVE  /\ \A x \in Names : Row(x) => Row(x)'
               /\ steady' => steady /\ Steady
               /\ UNCHANGED <<local, meta, threadVars>>
    <2>1. [bytes |-> Bytes(m), modtime |-> t] # NoFile
      <3>1. Bytes(m) \in Versions
        BY DEF Versions
      <3>2. t \in Nat
        BY LimitsAssumption
      <3> QED
        BY <3>1, <3>2, FileFacts DEF Whole
    <2> QED
      BY <1>2, <2>1 DEF RowChanges
  <1>3. CASE \E n \in Announced, m \in Contents, t \in 1..MaxClock, r \in BOOLEAN :
                RowChanges(n, m, t, r)
    BY <1>2, <1>3 DEF Steady, threadVars
  <1>4. CASE ThreadStep
    <2>1. CASE KeepLocal
      BY <1>1, <2>1 DEF KeepLocal
    <2>2. CASE ~KeepLocal
      <3>1. rows' = rows /\ steady' = steady
        BY <1>4, <2>2 DEF ThreadStep, ReadDirInfo, SkipEntry, TakeOnline, RenameLocal,
           RemoveLocal, CreateMeta, SendPull, Done, Starves, Hung, Returns,
           NegativePieceArrives, TruncateMeta, SaveAndLoad, WritePush, InsertChunk,
           NextSync, Step, InPush, worldVars
      <3> QED
        BY <1>1, <3>1
    <2> QED
      BY <2>1, <2>2
  <1>5. CASE Arrives \/ Close \/ CloseInside \/ Stop \/ StopHung
    <2>1. rows' = rows /\ (steady' => steady)
      BY <1>5 DEF Arrives, PieceArrives, PieceIsCut,
       PieceRunsOver, ShiftedPiece, EmptyPieceArrives, Receive, Close, Returns,
         CloseInside, Hung, Stop, StopHung, worldVars
    <2> QED
      BY <1>1, <2>1
  <1>6. CASE \E m \in {1, 3} : Start(m)
    <2>1. rows' = rows /\ (steady' => steady)
      BY <1>6 DEF Start, worldVars
    <2> QED
      BY <1>1, <2>1
  <1>7. CASE \E n \in Announced, m \in Contents : UserEdits(n, m)
    <2>1. rows' = rows /\ (steady' => steady)
      BY <1>7 DEF UserEdits
    <2> QED
      BY <1>1, <2>1
  <1> QED
    BY <1>3, <1>4, <1>5, <1>6, <1>7 DEF DownloadNext

\* The steps that stay in the loop, and the one that enters it.
LEMMA LoopSteps ==
    ASSUME DownloadNext, pc' \in InLoop
    PROVE  \/ ReadDirInfo \/ SkipEntry \/ KeepLocal \/ TakeOnline \/ RenameLocal
           \/ RemoveLocal \/ CreateMeta
           \/ pc \in InLoop /\ UNCHANGED <<local, meta, threadVars>>
  <1>1. CASE ThreadStep
    BY <1>1 DEF ThreadStep, SendPull, Done, Starves, Hung, Returns, NegativePieceArrives, ThreadEnds,
       TruncateMeta, SaveAndLoad, WritePush, InsertChunk, NextSync, InPush
  <1>2. CASE Arrives \/ Close \/ CloseInside \/ Stop \/ StopHung
    BY <1>2 DEF Arrives, PieceArrives, PieceIsCut,
       PieceRunsOver, ShiftedPiece, EmptyPieceArrives, Receive, Close, Returns,
       CloseInside, Hung, Stop, StopHung, ThreadEnds
  <1>3. CASE \E m \in {1, 3} : Start(m)
    BY <1>3 DEF Start
  <1>4. CASE \E n \in Announced, m \in Contents : UserEdits(n, m)
    BY <1>4 DEF UserEdits, threadVars
  <1>5. CASE \E n \in Announced, m \in Contents, t \in 1..MaxClock, r \in BOOLEAN :
                RowChanges(n, m, t, r)
    BY <1>5 DEF RowChanges, threadVars
  <1> QED
    BY <1>1, <1>2, <1>3, <1>4, <1>5 DEF DownloadNext

\* The parts of DirFits.
Passed ==
    \A i \in DOMAIN dir :
        \/ FromServer(i)
        \/ i < at /\ Aside(i) /\ meta[dir[i].name] = 0
        \/ i = at /\ AtChanged /\ Aside(i)
ToCome == \A i \in DOMAIN dir : Unseen(i) => FromServer(i)
Twice(i, j) ==
    /\ ~(Unseen(i) /\ Unseen(j))
    /\ dir[i].name \notin Plain
    /\ i < at => \/ meta[dir[i].name] = 0
                 \/ j = at /\ AtChanged
Doubles == \A i, j \in DOMAIN dir : dir[i].name = dir[j].name /\ i # j => Twice(i, j)
Current ==
    /\ pc # "check" /\ dir[at].name \in Plain => ~Downloading(dir[at].name)
    /\ pc = "create" => ~Exists(dir[at].name)

LEMMA DirFitsParts ==
    DirFits <=> (pc \in InLoop => Passed /\ ToCome /\ Doubles /\ Current)
  BY DEF DirFits, Passed, ToCome, Doubles, Twice, Current

LEMMA ReadDirFits ==
    ASSUME Shape, ReadDirInfo
    PROVE  Passed' /\ ToCome' /\ Doubles' /\ Current'
  <1>1. /\ at' = 1 /\ pc' = "check" /\ UNCHANGED <<rows, steady>>
        /\ flen' = [n \in Names |-> IF n \in Announced /\ rows[n] # NoFile
                                    THEN Len(rows[n].bytes) ELSE 0]
    BY DEF ReadDirInfo, worldVars
  <1>2. /\ dir' \in Seq(Listed)
        /\ \A i \in DOMAIN dir' : Row(dir'[i].name)
              /\ dir'[i].bytes = rows[dir'[i].name].bytes
        /\ \A i, j \in DOMAIN dir' : dir'[i].name = dir'[j].name => i = j
    BY DirInfoFacts
  <1>3. \A i \in DOMAIN dir' : FromServer(i)'
    BY <1>1, <1>2, NameFacts DEF FromServer
  <1> QED
    BY <1>1, <1>2, <1>3 DEF Passed, ToCome, Doubles, Current

\* The loop goes on, or the look at an entry.
LEMMA LoopDirFits ==
    ASSUME Shape, DirFits,
           SkipEntry \/ TakeOnline \/ RenameLocal \/ RemoveLocal
    PROVE  Passed' /\ ToCome' /\ Doubles' /\ Current'
  <1>1. /\ pc \in InLoop /\ pc' \in InLoop
        /\ UNCHANGED <<rows, steady, flen, dir, meta>>
        /\ at \in DOMAIN dir /\ Entry = dir[at] /\ DOMAIN dir = 1..Len(dir)
    BY EntryFacts DEF SkipEntry, TakeOnline, RenameLocal, RemoveLocal, Step, worldVars,
       Shape, WriterInPushes, DownloadTypes
  <1>2. Passed /\ ToCome /\ Doubles /\ Current
    BY <1>1, DirFitsParts
  <1>3. \A i \in DOMAIN dir : (FromServer(i) <=> FromServer(i)') /\ (Aside(i) <=> Aside(i)')
    BY <1>1 DEF FromServer, Aside
  <1>4. CASE SkipEntry
    <2>1. pc = "check" /\ pc' = "check" /\ at' = at + 1
      BY <1>4 DEF SkipEntry, Step
    <2>2. \A i \in DOMAIN dir : Unseen(i)' => Unseen(i)
      BY <1>1, <2>1 DEF Unseen
    <2>3. Passed'
      BY <1>1, <1>2, <1>3, <2>1 DEF Passed
    <2>4. ToCome'
      BY <1>1, <1>2, <1>3, <2>2 DEF ToCome
    <2>5. ASSUME NEW i \in DOMAIN dir, NEW j \in DOMAIN dir, dir[i].name = dir[j].name, i # j
          PROVE  Twice(i, j)'
      <3>1. Twice(i, j) /\ Twice(j, i)
        BY <1>2, <2>5 DEF Doubles
      <3>2. i < at + 1 => meta[dir[i].name] = 0
        <4>1. CASE i < at
          BY <2>1, <3>1, <4>1 DEF Twice
        <4>2. CASE i = at
          <5>1. Unseen(i) /\ ~Unseen(j)
            BY <2>1, <3>1, <4>2 DEF Unseen, Twice
          <5>2. j < at
            BY <1>1, <2>1, <2>5, <4>2, <5>1 DEF Unseen
          <5> QED
            BY <2>1, <2>5, <3>1, <5>2 DEF Twice
        <4> QED
          BY <1>1, <4>1, <4>2
      <3> QED
        BY <1>1, <2>1, <2>2, <3>1, <3>2 DEF Twice
    <2>6. Doubles'
      BY <1>1, <2>5 DEF Doubles
    <2> QED
      BY <2>1, <2>3, <2>4, <2>6 DEF Current
  <1>5. CASE TakeOnline \/ RenameLocal \/ RemoveLocal
    <2>1. at' = at /\ pc # "create" /\ pc' \in {"rename", "remove", "create"}
          /\ (AtChanged => AtChanged')
      BY <1>5 DEF TakeOnline, RenameLocal, RemoveLocal, Step
    <2>2. \A i \in DOMAIN dir : Unseen(i)' => Unseen(i)
      BY <1>1, <2>1 DEF Unseen
    <2>3. Passed'
      BY <1>1, <1>2, <1>3, <2>1 DEF Passed
    <2>4. ToCome'
      BY <1>1, <1>2, <1>3, <2>2 DEF ToCome
    <2>5. Doubles'
      <3>1. \A i, j \in DOMAIN dir : Twice(i, j) => Twice(i, j)'
        BY <1>1, <2>1, <2>2 DEF Twice
      <3> QED
        BY <1>1, <1>2, <3>1 DEF Doubles
    <2>6. Current'
      <3>1. CASE TakeOnline
        <4>1. ~Downloading(Entry.name) /\ pc' # "create"
          BY <3>1 DEF TakeOnline, Skips, Step
        <4> QED
          BY <1>1, <2>1, <4>1 DEF Current
      <3>2. CASE RenameLocal
        <4>1. pc = "rename" /\ pc' = "remove"
          BY <3>2 DEF RenameLocal, Step
        <4> QED
          BY <1>1, <1>2, <2>1, <4>1 DEF Current
      <3>3. CASE RemoveLocal
        <4>1. pc = "remove" /\ local' = [local EXCEPT ![Entry.name] = NoFile]
          BY <3>3 DEF RemoveLocal
        <4>2. Entry.name \in Names
          BY <1>1, EntryFacts
        <4>3. local'[Entry.name] = NoFile
          BY <4>1, <4>2 DEF Shape, DownloadTypes
        <4> QED
          BY <1>1, <1>2, <2>1, <4>1, <4>3 DEF Current
      <3> QED
        BY <1>5, <3>1, <3>2, <3>3
    <2> QED
      BY <2>3, <2>4, <2>5, <2>6
  <1> QED
    BY <1>4, <1>5

LEMMA KeepLocalDirFits ==
    ASSUME Shape, DirFits, KeepLocal
    PROVE  Passed' /\ ToCome' /\ Doubles' /\ Current'
  <1>1. /\ pc = "check" /\ pc' = "remove" /\ at' = at
        /\ UNCHANGED <<rows, flen, meta>> /\ (steady' => steady)
        /\ at \in DOMAIN dir /\ Entry = dir[at] /\ DOMAIN dir = 1..Len(dir)
    BY EntryFacts DEF KeepLocal, Step, worldVars, Shape, DownloadTypes
  <1>2. Passed /\ ToCome /\ Doubles /\ Current
    BY <1>1, DirFitsParts
  <1>3. Entry.name \in Announced
    BY <1>1, <1>2 DEF ToCome, Unseen, FromServer
  <1>4. /\ DOMAIN dir' = DOMAIN dir /\ dir'[at].name = Old[dir[at].name]
        /\ \A j \in DOMAIN dir : j # at => dir'[j] = dir[j]
    BY <1>3, KeepLocalFacts
  <1>5. dir'[at].name \notin Plain /\ Aside(at)'
    BY <1>1, <1>3, <1>4, NameFacts DEF KeepLocal, Aside
  <1>6. \A i \in DOMAIN dir : i # at => (FromServer(i) => FromServer(i)')
                                      /\ (Aside(i) => Aside(i)')
    BY <1>1, <1>4 DEF FromServer, Aside
  <1>7. \A i \in DOMAIN dir : Unseen(i)' => Unseen(i) /\ i # at
    BY <1>1 DEF Unseen
  <1>8. Passed'
    BY <1>1, <1>2, <1>4, <1>5, <1>6 DEF Passed
  <1>9. ToCome'
    BY <1>2, <1>4, <1>6, <1>7 DEF ToCome
  <1>10. ASSUME NEW i \in DOMAIN dir, NEW j \in DOMAIN dir, dir'[i].name = dir'[j].name, i # j
         PROVE  Twice(i, j)'
    <2>1. CASE i = at \/ j = at
      BY <1>1, <1>4, <1>5, <1>7, <1>10, <2>1 DEF Twice
    <2>2. CASE i # at /\ j # at
      <3>1. Twice(i, j)
        BY <1>2, <1>4, <1>10, <2>2 DEF Doubles
      <3> QED
        BY <1>1, <1>4, <1>7, <2>2, <3>1 DEF Twice
    <2> QED
      BY <2>1, <2>2
  <1>11. Doubles'
    BY <1>4, <1>10 DEF Doubles
  <1> QED
    BY <1>1, <1>5, <1>8, <1>9, <1>11 DEF Current

LEMMA CreateDirFits ==
    ASSUME Shape, DirFits, CreateMeta
    PROVE  Passed' /\ ToCome' /\ Doubles' /\ Current'
  <1>1. /\ pc = "create" /\ pc' = "check" /\ at' = at + 1 /\ at \in Nat
        /\ UNCHANGED <<rows, steady, flen, dir>>
        /\ at \in DOMAIN dir /\ Entry = dir[at] /\ DOMAIN dir = 1..Len(dir)
        /\ Entry.name \in Names /\ meta' = [meta EXCEPT ![Entry.name] = 0]
    BY EntryFacts DEF CreateMeta, Step, worldVars, Shape, WriterInPushes, DownloadTypes
  <1>2. Passed /\ ToCome /\ Doubles /\ Current
    BY <1>1, DirFitsParts
  <1>3. \A i \in DOMAIN dir : (FromServer(i) <=> FromServer(i)') /\ (Aside(i) <=> Aside(i)')
    BY <1>1 DEF FromServer, Aside
  <1>4. \A i \in DOMAIN dir : Unseen(i)' => Unseen(i) /\ i # at
    BY <1>1 DEF Unseen
  <1>5. /\ meta'[dir[at].name] = 0
        /\ \A i \in DOMAIN dir : meta[dir[i].name] = 0 => meta'[dir[i].name] = 0
    <2>1. \A i \in DOMAIN dir : dir[i].name \in Names
      BY DirEntries
    <2> QED
      BY <1>1, <2>1 DEF Shape, DownloadTypes
  <1>6. Passed'
    BY <1>1, <1>2, <1>3, <1>5 DEF Passed
  <1>7. ToCome'
    BY <1>1, <1>2, <1>3, <1>4 DEF ToCome
  <1>8. ASSUME NEW i \in DOMAIN dir, NEW j \in DOMAIN dir, dir[i].name = dir[j].name, i # j
        PROVE  Twice(i, j)'
    <2>1. Twice(i, j)
      BY <1>2, <1>8 DEF Doubles
    <2>2. i < at + 1 => meta'[dir[i].name] = 0
      <3>1. CASE i < at
        BY <1>5, <1>8, <2>1, <3>1 DEF Twice
      <3>2. CASE i = at
        BY <1>5, <3>2
      <3> QED
        BY <1>1, <3>1, <3>2
    <2> QED
      BY <1>1, <1>4, <2>1, <2>2 DEF Twice
  <1>9. Doubles'
    BY <1>1, <1>8 DEF Doubles
  <1> QED
    BY <1>1, <1>6, <1>7, <1>9 DEF Current

LEMMA DirStep ==
    ASSUME Shape, DirFits, DownloadNext
    PROVE  DirFits'
  <1>1. CASE pc' \notin InLoop
    BY <1>1 DEF DirFits
  <1>2. CASE pc' \in InLoop
    <2>1. CASE ReadDirInfo
      BY <2>1, ReadDirFits, DirFitsParts DEF DirFits, Passed, ToCome, Doubles, Twice, Current
    <2>2. CASE SkipEntry \/ TakeOnline \/ RenameLocal \/ RemoveLocal
      BY <2>2, LoopDirFits DEF DirFits, Passed, ToCome, Doubles, Twice, Current
    <2>3. CASE KeepLocal
      BY <2>3, KeepLocalDirFits DEF DirFits, Passed, ToCome, Doubles, Twice, Current
    <2>4. CASE CreateMeta
      BY <2>4, CreateDirFits DEF DirFits, Passed, ToCome, Doubles, Twice, Current
    <2>5. CASE pc \in InLoop /\ UNCHANGED <<local, meta, threadVars>>
      <3>1. UNCHANGED <<local, meta, pc, dir, at, flen>>
        BY <2>5 DEF threadVars
      <3>2. /\ \A n \in Names : Row(n) => Row(n)'
            /\ steady' => rows' = rows /\ steady
        BY <2>5, <3>1, RowsStay
      <3>3. \A i \in DOMAIN dir : dir[i].name \in Names
        BY DirEntries
      <3>4. \A i \in DOMAIN dir : (FromServer(i) => FromServer(i)') /\ (Aside(i) => Aside(i)')
        BY <3>1, <3>2, <3>3 DEF FromServer, Aside
      <3>5. \A i : Unseen(i)' = Unseen(i)
        BY <3>1 DEF Unseen
      <3>6. Passed' /\ ToCome' /\ Doubles' /\ Current'
        BY <2>5, <3>1, <3>4, <3>5, DirFitsParts DEF Passed, ToCome, Doubles, Twice, Current
      <3> QED
        BY <3>6 DEF DirFits, Passed, ToCome, Doubles, Twice, Current
    <2> QED
      BY <1>2, <2>1, <2>2, <2>3, <2>4, <2>5, LoopSteps
  <1> QED
    BY <1>1, <1>2

-----------------------------------------------------------------------------
(* Pulls, pushes and what is saved *)

\* The steps of the push loop; all others end it, or leave the writer, the
\* Pull and the .tmydownload files as they are.
LEMMA StepKinds ==
    ASSUME DownloadNext
    PROVE  \/ SendPull \/ PieceArrives \/ MixedArrives \/ EmptyPieceArrives
           \/ TruncateMeta \/ SaveAndLoad \/ WritePush \/ InsertChunk
           \/ pc' \notin InPushes
           \/ /\ UNCHANGED <<meta, flen, pulls, file, chunks, push>>
              /\ pc' = pc \/ (pc = "wait" /\ pc' = "spin")
  <1>1. CASE ThreadStep
    BY <1>1 DEF ThreadStep, ReadDirInfo, SkipEntry, KeepLocal, TakeOnline, RenameLocal,
       RemoveLocal, CreateMeta, Done, Starves, Hung, Returns, NegativePieceArrives, ThreadEnds,
       NextSync, Step
  <1>2. CASE Arrives \/ Close \/ CloseInside \/ Stop \/ StopHung
    BY <1>2 DEF Arrives, MixedArrives, Close, Returns, CloseInside, Hung, Stop, StopHung,
       ThreadEnds
  <1>3. CASE \E m \in {1, 3} : Start(m)
    BY <1>3 DEF Start
  <1>4. CASE \E n \in Announced, m \in Contents : UserEdits(n, m)
    BY <1>4 DEF UserEdits, threadVars
  <1>5. CASE \E n \in Announced, m \in Contents, t \in 1..MaxClock, r \in BOOLEAN :
                RowChanges(n, m, t, r)
    BY <1>5 DEF RowChanges, threadVars
  <1> QED
    BY <1>1, <1>2, <1>3, <1>4, <1>5 DEF DownloadNext

PullFits(i) ==
    \/ pulls[i].from = 1
    \/ /\ meta[pulls[i].name] # NoMeta /\ pulls[i].from = meta[pulls[i].name] + 1
       /\ pulls[i].name # file
       /\ pc \in WithPush => pulls[i].name # push.name
       /\ \A j \in DOMAIN pulls : j < i => pulls[j].name # pulls[i].name
    \/ /\ i = 1 /\ pc \in {"wait", "spin"}
       /\ pulls[i].name = file /\ pulls[i].from <= chunks + 1
    \/ /\ i = 1 /\ pc \in WithPush
       /\ pulls[i].name = push.name /\ pulls[i].from = push.from + 1

LEMMA PullsFitParts == PullsFit <=> \A i \in DOMAIN pulls : PullFits(i)
  BY DEF PullsFit, PullFits

LEMMA PullItems ==
    ASSUME Shape
    PROVE  /\ DOMAIN pulls = 1..Len(pulls) /\ Len(pulls) \in Nat
           /\ \A i \in DOMAIN pulls : /\ i \in Nat \ {0} /\ pulls[i].name \in Names
                                      /\ pulls[i].from \in Nat \ {0} /\ pulls[i].len \in Int
  <1>1. pulls \in Seq(Asked)
    BY DEF Shape, DownloadTypes
  <1>2. \A i \in DOMAIN pulls : pulls[i] \in Asked
    BY <1>1
  <1> QED
    BY <1>1, <1>2 DEF Asked

\* A Pull when it is made.
LEMMA PullMade ==
    ASSUME Shape, DirFits, SendPull
    PROVE  /\ \A i \in DOMAIN pulls' : PullFits(i)'
           /\ \A i, j \in DOMAIN pulls' : pulls'[i].name = pulls'[j].name /\ i # j =>
                 pulls'[i].from = 1 /\ pulls'[i].name \notin Plain
  <1>1. /\ pc = "check" /\ at > Len(dir) /\ at \in Nat
        /\ UNCHANGED <<meta, file, push>> /\ pc' \in {"wait", "sleep"}
        /\ file = NoName
    BY DEF SendPull, Shape, DownloadTypes, WriterInPushes
  <1>2. PICK g \in [DOMAIN pulls' -> DOMAIN dir] :
           /\ \A i, j \in DOMAIN pulls' : g[i] = g[j] => i = j
           /\ \A k \in DOMAIN pulls' :
                 /\ Downloading(dir[g[k]].name)
                 /\ pulls'[k].name = dir[g[k]].name
                 /\ pulls'[k].from = meta[dir[g[k]].name] + 1
                 /\ pulls'[k].len = Len(dir[g[k]].bytes) - meta[dir[g[k]].name]
    BY PullFacts
  <1>3. ASSUME NEW i \in DOMAIN pulls', NEW j \in DOMAIN pulls',
               pulls'[i].name = pulls'[j].name, i # j
        PROVE  pulls'[i].from = 1 /\ pulls'[i].name \notin Plain
    <2>1. /\ g[i] \in 1..Len(dir) /\ g[j] \in 1..Len(dir) /\ g[i] # g[j]
          /\ dir[g[i]].name = dir[g[j]].name /\ Len(dir) \in Nat
      BY <1>2, <1>3, DirEntries
    <2>2. Twice(g[i], g[j])
      BY <1>1, <2>1, DirEntries, DirFitsParts DEF Doubles
    <2>3. meta[dir[g[i]].name] = 0 /\ dir[g[i]].name \notin Plain
      BY <1>1, <2>1, <2>2 DEF Twice
    <2> QED
      BY <1>2, <2>3
  <1>4. ASSUME NEW i \in DOMAIN pulls'
        PROVE  PullFits(i)'
    <2>1. pulls'[i].name \in Names /\ pulls'[i].name # file
      BY <1>1, <1>2, DirEntries, FileFacts
    <2>2. CASE pulls'[i].from = 1
      BY <2>2 DEF PullFits
    <2>3. CASE pulls'[i].from # 1
      <3>1. \A j \in DOMAIN pulls' : j < i => pulls'[j].name # pulls'[i].name
        <4>1. DOMAIN pulls' \subseteq Nat
          BY PullShape, PullFacts
        <4> QED
          BY <1>3, <2>3, <4>1
      <3> QED
        BY <1>1, <1>2, <2>1, <3>1 DEF PullFits
    <2> QED
      BY <2>2, <2>3
  <1> QED
    BY <1>3, <1>4

LEMMA PullsFitStep ==
    ASSUME Shape, DirFits, PullsFit, PushFits, DownloadNext, Shape'
    PROVE  \A i \in DOMAIN pulls' : PullFits(i)'
  <1>1. \A i \in DOMAIN pulls : PullFits(i)
    BY PullsFitParts
  <1>2. CASE SendPull
    BY <1>2, PullMade
  <1>3. CASE PieceArrives \/ MixedArrives
    <2>1. /\ pc = "wait" /\ pc' \in {"truncate", "load"}
          /\ UNCHANGED <<meta, file, chunks>>
          /\ push'.name = pulls[1].name /\ push'.from = pulls[1].from
      BY <1>3, SentFacts
    <2>2. ASSUME NEW k \in DOMAIN pulls, k # 1
          PROVE  \/ pulls[k].from = 1
                 \/ /\ meta[pulls[k].name] # NoMeta
                    /\ pulls[k].from = meta[pulls[k].name] + 1
                    /\ pulls[k].name # file
                    /\ pulls[k].name # push'.name
                    /\ \A j \in DOMAIN pulls : j < k => pulls[j].name # pulls[k].name
      <3>1. k > 1 /\ 1 \in DOMAIN pulls
        BY <2>2, PullItems
      <3> QED
        BY <1>1, <2>1, <2>2, <3>1 DEF PullFits
    <2>3. CASE \A i \in DOMAIN pulls' : /\ i \in Nat \ {0} /\ i + 1 \in DOMAIN pulls
                                        /\ pulls'[i] = pulls[i + 1]
      <3> SUFFICES ASSUME NEW i \in DOMAIN pulls' PROVE PullFits(i)'
        OBVIOUS
      <3>1. i \in Nat \ {0} /\ i + 1 \in DOMAIN pulls /\ i + 1 # 1 /\ pulls'[i] = pulls[i + 1]
        BY <2>3
      <3>2. \A j \in DOMAIN pulls' : j < i =>
               j + 1 \in DOMAIN pulls /\ j + 1 < i + 1 /\ pulls'[j] = pulls[j + 1]
        BY <2>3, <3>1
      <3> QED
        BY <2>1, <2>2, <3>1, <3>2 DEF PullFits
    <2>4. CASE /\ DOMAIN pulls' = DOMAIN pulls /\ 1 \in DOMAIN pulls
               /\ pulls'[1].name = Ask.name /\ pulls'[1].from = Ask.from + 1
               /\ \A i \in DOMAIN pulls : i # 1 => pulls'[i] = pulls[i]
      <3> SUFFICES ASSUME NEW i \in DOMAIN pulls' PROVE PullFits(i)'
        OBVIOUS
      <3>1. Ask = pulls[1]
        BY <1>3, SentFacts
      <3>2. CASE i = 1
        BY <2>1, <2>4, <3>1, <3>2 DEF PullFits
      <3>3. CASE i # 1
        <4>1. \A j \in DOMAIN pulls : pulls'[j].name = pulls[j].name
          BY <2>4, <3>1
        <4> QED
          BY <2>1, <2>2, <2>4, <3>3, <4>1 DEF PullFits
      <3> QED
        BY <3>2, <3>3
    <2> QED
      BY <1>3, <2>3, <2>4, SentFacts
  <1>4. CASE EmptyPieceArrives \/ pc' \notin InPushes
    <2>1. pulls' = <<>>
      BY <1>4 DEF EmptyPieceArrives, Shape, WriterInPushes
    <2> QED
      BY <2>1
  <1>5. CASE TruncateMeta
    <2>1. /\ pc = "truncate" /\ pc' = "load" /\ meta' = [meta EXCEPT ![file] = 0]
          /\ UNCHANGED <<pulls, file, chunks, push>>
      BY <1>5 DEF TruncateMeta, InPush
    <2>2. \A i \in DOMAIN pulls : pulls[i].name # file => meta'[pulls[i].name] = meta[pulls[i].name]
      BY <2>1, PullItems DEF Shape, DownloadTypes
    <2> QED
      BY <1>1, <2>1, <2>2 DEF PullFits
  <1>6. CASE SaveAndLoad
    <2>1. /\ pc = "load" /\ pc' = "write" /\ file' = push.name
          /\ meta' = [meta EXCEPT ![file] = chunks] \/ meta' = meta
          /\ UNCHANGED <<pulls, push>>
      BY <1>6 DEF SaveAndLoad, InPush
    <2>2. \A i \in DOMAIN pulls : pulls[i].name # file => meta'[pulls[i].name] = meta[pulls[i].name]
      BY <2>1, PullItems DEF Shape, DownloadTypes
    <2> QED
      BY <1>1, <2>1, <2>2 DEF PullFits
  <1>7. CASE WritePush
    <2>1. pc = "write" /\ pc' = "insert" /\ UNCHANGED <<meta, pulls, file, chunks, push>>
      BY <1>7 DEF WritePush, InPush
    <2> QED
      BY <1>1, <2>1 DEF PullFits
  <1>8. CASE InsertChunk
    <2>1. /\ pc = "insert" /\ pc' = "wait" /\ chunks' = Inserted
          /\ meta' = [meta EXCEPT ![push.name] = NoMeta] \/ meta' = meta
          /\ UNCHANGED <<pulls, file, push>>
          /\ file = push.name /\ push.from <= chunks + 1
      BY <1>8 DEF InsertChunk, InPush, Shape, WriterInPushes, PushFits
    <2>2. \A i \in DOMAIN pulls :
             pulls[i].name # push.name => meta'[pulls[i].name] = meta[pulls[i].name]
      BY <2>1, PullItems DEF Shape, DownloadTypes
    <2>3. pulls # <<>> => push.from <= chunks'
      <3>1. pulls # <<>> => push.bytes # <<>>
        BY <2>1 DEF Shape, WriterInPushes
      <3>2. push.from \in Nat /\ chunks \in Nat
        BY DEF Shape, DownloadTypes
      <3> QED
        BY <2>1, <3>1, <3>2 DEF Inserted
    <2>4. push.from \in Nat /\ chunks' \in Nat
      BY DEF Shape, DownloadTypes
    <2>5. DOMAIN pulls # {} => pulls # <<>>
      OBVIOUS
    <2> QED
      BY <1>1, <2>1, <2>2, <2>3, <2>4, <2>5 DEF PullFits
  <1>9. CASE /\ UNCHANGED <<meta, flen, pulls, file, chunks, push>>
             /\ pc' = pc \/ (pc = "wait" /\ pc' = "spin")
    BY <1>1, <1>9 DEF PullFits
  <1> QED
    BY <1>2, <1>3, <1>4, <1>5, <1>6, <1>7, <1>8, <1>9, StepKinds

LEMMA PushFitsStep ==
    ASSUME Shape, PullsFit, PushFits, DownloadNext, Shape'
    PROVE  PushFits'
  <1>1. CASE SendPull \/ pc' \notin InPushes \/ InsertChunk
    <2>1. pc' \notin WithPush
      BY <1>1 DEF SendPull, InsertChunk, InPush
    <2> QED
      BY <2>1 DEF PushFits
  <1>2. CASE PieceArrives \/ MixedArrives \/ EmptyPieceArrives
    <2>1. /\ pc = "wait" /\ pc' \in {"truncate", "load"}
          /\ UNCHANGED <<meta, file, chunks>>
          /\ push'.name = Ask.name /\ push'.from = Ask.from
          /\ Ask = pulls[1] /\ 1 \in DOMAIN pulls
      BY <1>2, ArrivesFacts DEF Arrives, MixedArrives
    <2>2. Ask = pulls[1] /\ 1 \in DOMAIN pulls
      BY <2>1
    <2>3. PullFits(1)
      BY <2>2, PullsFitParts
    <2> QED
      BY <2>1, <2>2, <2>3 DEF PullFits, PushFits
  <1>3. CASE TruncateMeta
    <2>1. /\ pc = "truncate" /\ pc' = "load" /\ meta' = [meta EXCEPT ![file] = 0]
          /\ UNCHANGED <<file, chunks, push>> /\ push.name \in Names
      BY <1>3 DEF TruncateMeta, InPush, Shape, WriterInPushes
    <2>2. push.name # file => meta'[push.name] = meta[push.name]
      BY <2>1 DEF Shape, DownloadTypes
    <2> QED
      BY <2>1, <2>2 DEF PushFits
  <1>4. CASE SaveAndLoad
    <2>1. /\ pc = "load" /\ pc' = "write" /\ UNCHANGED push
          /\ meta' = IF file # NoName /\ Downloading(file)
                     THEN [meta EXCEPT ![file] = chunks] ELSE meta
          /\ chunks' = IF meta'[push.name] # NoMeta THEN meta'[push.name] ELSE chunks
      BY <1>4 DEF SaveAndLoad, InPush
    <2>2. /\ push.name \in Names /\ push.from \in Nat \ {0} /\ chunks \in Nat
          /\ file \in Names \cup {NoName} /\ meta \in [Names -> Nat \cup {NoMeta}]
          /\ chunks' \in Nat
      BY <2>1, SMTT(30) DEF Shape, DownloadTypes, WriterInPushes
    <2>3. push.from <= chunks' + 1
      <3>1. CASE push.from = 1
        <4>1. chunks' \in Nat
          BY <2>2
        <4>2. \A c \in Nat : 1 <= c + 1
          OBVIOUS
        <4> QED
          BY <3>1, <4>1, <4>2, Zenon
      <3>2. CASE push.name = file /\ push.from <= chunks + 1
        <4>1. chunks' = chunks
          BY <2>1, <2>2, <3>2, FileFacts
        <4> QED
          BY <3>2, <4>1
      <3>3. CASE /\ push.name # file /\ meta[push.name] # NoMeta
                 /\ push.from = meta[push.name] + 1
        <4>1. meta'[push.name] = meta[push.name]
          BY <2>1, <2>2, <3>3
        <4> QED
          BY <2>1, <2>2, <3>3, <4>1
      <3> QED
        BY <2>1, <3>1, <3>2, <3>3 DEF PushFits
    <2> QED
      BY <2>1, <2>3 DEF PushFits
  <1>5. CASE WritePush
    BY <1>5 DEF WritePush, InPush, PushFits
  <1>6. CASE /\ UNCHANGED <<meta, flen, pulls, file, chunks, push>>
             /\ pc' = pc \/ (pc = "wait" /\ pc' = "spin")
    BY <1>6 DEF PushFits
  <1> QED
    BY <1>1, <1>2, <1>3, <1>4, <1>5, <1>6, StepKinds

\* What a step does to the .tmydownload files and the local files of the names
\* the properties are about.
LEMMA PlainEntry ==
    ASSUME Shape, DirFits, RenameLocal \/ RemoveLocal \/ CreateMeta
    PROVE  /\ at \in DOMAIN dir /\ Entry = dir[at] /\ Entry.name \in Names
           /\ RenameLocal => Entry.name \in Announced
           /\ Entry.name \in Plain => ~Downloading(Entry.name)
  <1>1. pc \in {"rename", "remove", "create"}
    BY DEF RenameLocal, RemoveLocal, CreateMeta
  <1>2. at \in DOMAIN dir /\ Entry = dir[at] /\ Entry.name \in Names
    BY <1>1, EntryFacts DEF Shape, WriterInPushes
  <1>3. ToCome /\ Current
    BY <1>1, DirFitsParts
  <1>4. RenameLocal => Entry.name \in Announced
    BY <1>2, <1>3 DEF RenameLocal, ToCome, Unseen, FromServer
  <1> QED
    BY <1>1, <1>2, <1>3, <1>4 DEF Current

\* A plain file under download changes by writePush only.
LEMMA LocalKept ==
    ASSUME Shape, DirFits, DownloadNext, NEW n \in Plain, Downloading(n),
           ~(WritePush /\ n = push.name)
    PROVE  local'[n] = local[n]
  <1>1. n \in Names
    BY NameFacts
  <1>2. CASE RenameLocal
    <2>1. Entry.name \in Announced /\ Entry.name # n /\ Old[Entry.name] # n
      BY <1>2, PlainEntry, NameFacts
    <2>2. local' = IF Exists(Old[Entry.name]) THEN local
                   ELSE [local EXCEPT ![Old[Entry.name]] = local[Entry.name],
                                      ![Entry.name] = NoFile]
      BY <1>2 DEF RenameLocal
    <2> QED
      BY <1>1, <2>1, <2>2 DEF Shape, DownloadTypes
  <1>3. CASE RemoveLocal
    <2>1. Entry.name # n
      BY <1>3, PlainEntry
    <2> QED
      BY <1>1, <1>3, <2>1 DEF RemoveLocal, Shape, DownloadTypes
  <1>4. CASE WritePush
    BY <1>1, <1>4, WriteShape
  <1>5. CASE ThreadStep /\ ~RenameLocal /\ ~RemoveLocal /\ ~WritePush
    <2>1. local' = local
      BY <1>5 DEF ThreadStep, ReadDirInfo, SkipEntry, KeepLocal, TakeOnline,
         CreateMeta, SendPull, Done, Starves, Hung, Returns, NegativePieceArrives,
         TruncateMeta, SaveAndLoad, InsertChunk, NextSync
    <2> QED
      BY <2>1
  <1>6. CASE Arrives \/ Close \/ CloseInside \/ Stop \/ StopHung
    BY <1>6 DEF Arrives, PieceArrives, PieceIsCut,
       PieceRunsOver, ShiftedPiece, EmptyPieceArrives, Receive, Close, Returns,
       CloseInside, Hung, Stop, StopHung
  <1>7. CASE \E m \in {1, 3} : Start(m)
    BY <1>7 DEF Start
  <1>8. CASE \E x \in Announced, m \in Contents : UserEdits(x, m)
    BY <1>1, <1>8 DEF UserEdits, Shape, DownloadTypes
  <1>9. CASE \E x \in Announced, m \in Contents, t \in 1..MaxClock, r \in BOOLEAN :
                RowChanges(x, m, t, r)
    BY <1>9 DEF RowChanges
  <1> QED
    BY <1>2, <1>3, <1>4, <1>5, <1>6, <1>7, <1>8, <1>9 DEF DownloadNext

\* writePush makes no file shorter.
LEMMA WriteGrows ==
    ASSUME Shape, WritePush, NEW n \in Names, NEW k \in Nat,
           Exists(n) /\ k <= Len(local[n].bytes)
    PROVE  Exists(n)' /\ k <= Len(local'[n].bytes)
  <1>1. CASE n # push.name
    BY <1>1, WriteShape
  <1>2. CASE n = push.name
    <2> DEFINE b == Before(push.name)
               w == Written(push.name)
    <2>1. /\ local'[n] # NoFile /\ local'[n].bytes = w
          /\ pc = "write" /\ b = local[n].bytes
      BY <1>2, WriteShape DEF WritePush, Before
    <2>2. /\ b \in Seq(Pieces) /\ w \in Seq(Pieces) /\ push.from \in Nat
          /\ push.bytes = <<>> => w = b
          /\ push.bytes # <<>> /\ push.from <= Len(b) => Len(w) = Len(b)
          /\ push.bytes # <<>> /\ push.from > Len(b) => Len(w) = Len(b) + 1
      BY <2>1, WrittenFacts
    <2> HIDE DEF b, w
    <2>3. Len(b) <= Len(w) /\ Len(b) \in Nat /\ Len(w) \in Nat
      BY <2>2
    <2> QED
      BY <2>1, <2>3
  <1> QED
    BY <1>1, <1>2

\* How a .tmydownload file comes to count pieces.
LEMMA MetaSteps ==
    ASSUME Shape, DownloadNext, NEW n \in Names, Downloading(n)', meta'[n] > 0
    PROVE  \/ Downloading(n) /\ meta'[n] = meta[n]
           \/ /\ SaveAndLoad /\ n = file /\ Downloading(n)
              /\ meta'[n] = chunks
  <1>1. CASE meta' = meta
    BY <1>1
  <1>2. CASE CreateMeta
    <2>1. Entry.name \in Names
      BY <1>2, EntryFacts DEF CreateMeta, Shape, WriterInPushes
    <2> QED
      BY <1>2, <2>1 DEF CreateMeta, Shape, DownloadTypes
  <1>3. CASE TruncateMeta
    BY <1>3 DEF TruncateMeta, Shape, DownloadTypes
  <1>4. CASE SaveAndLoad
    BY <1>4 DEF SaveAndLoad, Shape, DownloadTypes
  <1>5. CASE InsertChunk
    BY <1>5 DEF InsertChunk, Shape, DownloadTypes
  <1>6. CASE WritePush \/ SendPull \/ PieceArrives \/ MixedArrives \/ EmptyPieceArrives
    BY <1>1, <1>6, ArrivesFacts DEF WritePush, SendPull, Arrives, MixedArrives
  <1>7. CASE pc' \notin InPushes /\ ~CreateMeta
    <2>1. meta' = meta
      <3>1. CASE ThreadStep
        BY <1>7, <3>1 DEF ThreadStep, ReadDirInfo, SkipEntry, KeepLocal, TakeOnline, RenameLocal,
           RemoveLocal, SendPull, Done, Starves, Hung, Returns, NegativePieceArrives,
           TruncateMeta, SaveAndLoad, WritePush, InsertChunk, InPush, NextSync
      <3>2. CASE Arrives \/ Close \/ CloseInside \/ Stop \/ StopHung
        BY <3>2 DEF Arrives, PieceArrives, PieceIsCut,
       PieceRunsOver, ShiftedPiece, EmptyPieceArrives, Receive, Close, Returns,
           CloseInside, Hung, Stop, StopHung
      <3>3. CASE \E m \in {1, 3} : Start(m)
        BY <3>3 DEF Start
      <3>4. CASE \E x \in Announced, m \in Contents : UserEdits(x, m)
        BY <3>4 DEF UserEdits
      <3>5. CASE \E x \in Announced, m \in Contents, t \in 1..MaxClock, r \in BOOLEAN :
                    RowChanges(x, m, t, r)
        BY <3>5 DEF RowChanges
      <3> QED
        BY <3>1, <3>2, <3>3, <3>4, <3>5 DEF DownloadNext
    <2> QED
      BY <1>1, <2>1
  <1> QED
    BY <1>1, <1>2, <1>3, <1>4, <1>5, <1>6, <1>7, StepKinds

LEMMA SavedStep ==
    ASSUME SavedInv, DownloadNext, Shape'
    PROVE  SavedChunksOnDisk'
  <1> SUFFICES ASSUME NEW n \in Plain, Downloading(n)', meta'[n] > 0
               PROVE  Exists(n)' /\ meta'[n] <= Len(local'[n].bytes)
    BY DEF SavedChunksOnDisk
  <1>1. Shape /\ DirFits /\ n \in Names
    BY NameFacts DEF SavedInv, Shape
  <1>2. meta'[n] \in Nat /\ Downloading(n)
    BY <1>1, MetaSteps DEF Shape, DownloadTypes
  <1>3. Exists(n) /\ meta'[n] <= Len(local[n].bytes)
    <2>1. CASE meta'[n] = meta[n]
      BY <1>2, <2>1 DEF SavedInv, SavedChunksOnDisk
    <2>2. CASE n = file /\ meta'[n] = chunks
      BY <1>2, <2>2 DEF SavedInv, CountedOnDisk
    <2> QED
      BY <1>1, <2>1, <2>2, MetaSteps
  <1>4. CASE WritePush
    BY <1>1, <1>2, <1>3, <1>4, WriteGrows
  <1>5. CASE ~WritePush
    <2>1. local'[n] = local[n]
      BY <1>1, <1>2, <1>5, LocalKept
    <2> QED
      BY <1>3, <2>1
  <1> QED
    BY <1>4, <1>5

LEMMA CountedStep ==
    ASSUME SavedInv, DownloadNext, Shape'
    PROVE  CountedOnDisk'
  <1>1. Shape /\ DirFits
    BY DEF SavedInv, Shape
  <1>2. CASE SendPull \/ pc' \notin InPushes
    <2>1. file' = NoName /\ pc' # "insert"
      BY <1>2 DEF SendPull, SavedInv, Shape, WriterInPushes
    <2>2. file' \notin Plain
      BY <2>1, NameFacts, FileFacts
    <2> QED
      BY <2>1, <2>2 DEF CountedOnDisk
  <1>3. ASSUME UNCHANGED <<meta, file, chunks, push>>, ~WritePush, pc' = "insert" => pc = "insert"
        PROVE  CountedOnDisk'
    <2>1. file \in Plain /\ Downloading(file) => local'[file] = local[file]
      BY <1>1, <1>3, LocalKept
    <2> QED
      BY <1>3, <2>1 DEF SavedInv, CountedOnDisk
  <1>4. CASE PieceArrives \/ MixedArrives \/ EmptyPieceArrives
    <2>1. UNCHANGED <<meta, file, chunks, local>> /\ pc' # "insert"
      BY <1>1, <1>4, ArrivesFacts DEF Arrives, MixedArrives
    <2> QED
      BY <2>1 DEF SavedInv, CountedOnDisk
  <1>5. CASE TruncateMeta
    <2>1. UNCHANGED <<file, chunks, local>> /\ pc' # "insert" /\ pc = "truncate"
      BY <1>5 DEF TruncateMeta, InPush
    <2>2. Downloading(file)
      BY <2>1 DEF SavedInv, WriterInPushes
    <2> QED
      BY <2>1, <2>2 DEF SavedInv, CountedOnDisk
  <1>6. CASE SaveAndLoad
    <2>1. /\ pc' # "insert" /\ file' = push.name /\ UNCHANGED local
          /\ meta' = IF file # NoName /\ Downloading(file)
                     THEN [meta EXCEPT ![file] = chunks] ELSE meta
          /\ chunks' = IF meta'[push.name] # NoMeta THEN meta'[push.name] ELSE chunks
      BY <1>6 DEF SaveAndLoad, InPush
    <2> SUFFICES ASSUME file' \in Plain, Downloading(file)', chunks' > 0
                 PROVE  Exists(file') /\ chunks' <= Len(local[file'].bytes)
      BY <2>1 DEF CountedOnDisk
    <2>2. /\ file' \in Names /\ chunks' = meta'[file']
      BY <2>1, NameFacts
    <2>3. \/ meta'[file'] = meta[file'] /\ Downloading(file')
          \/ file' = file /\ Downloading(file) /\ meta'[file'] = chunks
      BY <2>1, <2>2 DEF Shape, DownloadTypes, SavedInv
    <2> QED
      BY <2>1, <2>2, <2>3 DEF SavedInv, SavedChunksOnDisk, CountedOnDisk
  <1>7. CASE WritePush
    <2>1. /\ pc = "write" /\ UNCHANGED <<meta, file, chunks, push>> /\ file = push.name
          /\ push.name \in Names /\ push.from <= chunks + 1
      BY <1>1, <1>7 DEF WritePush, InPush, SavedInv, WriterInPushes, PushFits
    <2>2. chunks \in Nat /\ push.from \in Nat
      BY DEF SavedInv, DownloadTypes
    <2>3. ASSUME file \in Plain, Downloading(file), chunks > 0
          PROVE  Exists(file)' /\ chunks <= Len(local'[file].bytes)
      BY <1>1, <1>7, <2>1, <2>2, <2>3, WriteGrows DEF SavedInv, CountedOnDisk
    <2>4. ASSUME push.bytes # <<>>, file \in Plain, Downloading(file)
          PROVE  Exists(file)' /\ push.from <= Len(local'[file].bytes)
      <3> DEFINE b == Before(push.name)
                 w == Written(push.name)
      <3>1. local'[file] # NoFile /\ local'[file].bytes = w
        BY <1>1, <1>7, <2>1, WriteShape
      <3>2. /\ b \in Seq(Pieces) /\ w \in Seq(Pieces)
            /\ push.from <= Len(b) => Len(w) = Len(b)
            /\ push.from > Len(b) => Len(w) = Len(b) + 1
        BY <1>1, <2>1, <2>4, WrittenFacts
      <3>3. chunks <= Len(b)
        <4>1. CASE chunks > 0
          BY <2>1, <2>4, <4>1 DEF SavedInv, CountedOnDisk, Before
        <4>2. Len(b) \in Nat
          BY <3>2
        <4> QED
          BY <2>2, <4>1, <4>2
      <3> HIDE DEF b, w
      <3>4. Len(b) \in Nat /\ Len(w) \in Nat
        BY <3>2
      <3> QED
        BY <2>1, <2>2, <3>1, <3>2, <3>3, <3>4
    <2> QED
      BY <2>1, <2>3, <2>4 DEF CountedOnDisk
  <1>8. CASE InsertChunk
    <2>1. /\ pc = "insert" /\ pc' = "wait" /\ chunks' = Inserted
          /\ meta' = [meta EXCEPT ![push.name] = NoMeta] \/ meta' = meta
          /\ UNCHANGED <<local, file, push>>
      BY <1>8 DEF InsertChunk, InPush
    <2> SUFFICES ASSUME file \in Plain, Downloading(file)', chunks' > 0
                 PROVE  Exists(file) /\ chunks' <= Len(local[file].bytes)
      BY <2>1 DEF CountedOnDisk
    <2>2. Downloading(file)
      BY <2>1, NameFacts DEF SavedInv, DownloadTypes
    <2>3. \/ chunks' = chunks
          \/ push.bytes # <<>> /\ chunks' = push.from
      BY <2>1 DEF Inserted
    <2> QED
      BY <2>1, <2>2, <2>3 DEF SavedInv, CountedOnDisk
  <1>9. CASE /\ UNCHANGED <<meta, flen, pulls, file, chunks, push>>
             /\ pc' = pc \/ (pc = "wait" /\ pc' = "spin")
    <2>1. ~WritePush
      BY <1>9 DEF WritePush, InPush
    <2> QED
      BY <1>3, <1>9, <2>1
  <1> QED
    BY <1>2, <1>4, <1>5, <1>6, <1>7, <1>8, <1>9, StepKinds

LEMMA SavedInit == DownloadInit => SavedInv
  <1> SUFFICES ASSUME DownloadInit PROVE SavedInv
    OBVIOUS
  <1>1. Shape
    BY InitShape
  <1>2. /\ pc = "off" /\ pulls = <<>> /\ file = NoName
        /\ meta = [n \in Names |-> NoMeta]
    BY DEF DownloadInit
  <1>3. DirFits /\ PullsFit /\ PushFits
    BY <1>2 DEF DirFits, PullsFit, PushFits
  <1>4. SavedChunksOnDisk /\ CountedOnDisk
    BY <1>2, NameFacts, FileFacts DEF SavedChunksOnDisk, CountedOnDisk
  <1> QED
    BY <1>1, <1>3, <1>4 DEF SavedInv, Shape

LEMMA SavedNext == SavedInv /\ [DownloadNext]_downloadVars => SavedInv'
  <1> SUFFICES ASSUME SavedInv, [DownloadNext]_downloadVars PROVE SavedInv'
    OBVIOUS
  <1>1. CASE DownloadNext
    <2>1. Shape /\ DirFits /\ PullsFit /\ PushFits
      BY DEF SavedInv, Shape
    <2>2. Shape'
      BY <1>1, <2>1, NextShape
    <2>3. PullsFit'
      <3>1. \A i \in DOMAIN pulls' : PullFits(i)'
        BY <1>1, <2>1, <2>2, PullsFitStep
      <3> QED
        BY <3>1 DEF PullsFit, PullFits
    <2>4. DirFits' /\ PushFits' /\ SavedChunksOnDisk' /\ CountedOnDisk'
      BY <1>1, <2>1, <2>2, DirStep, PushFitsStep, SavedStep, CountedStep
    <2> QED
      BY <2>2, <2>3, <2>4 DEF SavedInv, Shape
  <1>2. CASE UNCHANGED downloadVars
    BY <1>2 DEF downloadVars, threadVars, SavedInv, DownloadTypes, WriterInPushes, DirFits,
       Unseen, FromServer, Aside, PullsFit, PushFits, SavedChunksOnDisk, CountedOnDisk
  <1> QED
    BY <1>1, <1>2

\* The state of the download client is the one its code expects, in every
\* session and after every stop.
THEOREM SavedInvariant == DownloadSpec => []SavedInv
  BY SavedInit, SavedNext, PTL DEF DownloadSpec

\* The pieces a .tmydownload file counts are in the local file, wherever
\* setFile, writePush or the program was stopped.
THEOREM SavedOnDiskAlways == DownloadSpec => []SavedChunksOnDisk
  <1>1. SavedInv => SavedChunksOnDisk
    BY DEF SavedInv
  <1> QED
    BY SavedInvariant, <1>1, PTL

\* insertChunk gets no piece that leaves a gap, so its list is one chunk.
THEOREM PiecesInOrderAlways == DownloadSpec => []PiecesInOrder
  <1>1. SavedInv => PiecesInOrder
    BY DEF SavedInv, PushFits, PiecesInOrder
  <1> QED
    BY SavedInvariant, <1>1, PTL

-----------------------------------------------------------------------------
(* While no row changes under a download *)

LEMMA WholeLength ==
    ASSUME NEW r \in Whole
    PROVE  r.bytes \in Versions /\ Len(r.bytes) \in Nat \ {0}
  BY FileFacts, VersionFacts

LEMMA RowLengths ==
    ASSUME Shape, NEW n \in Names, Row(n)
    PROVE  rows[n] \in Whole /\ Len(rows[n].bytes) \in Nat \ {0}
  BY WholeLength DEF Shape, DownloadTypes

\* A row changed: no session is under way, and what is here of it is nothing.
LEMMA WorldSteady ==
    ASSUME SteadyInv, DownloadNext, Shape', rows' # rows
    PROVE  /\ SteadyLengths' /\ PullsArePositive' /\ SteadyAsked'
           /\ SteadyPush' /\ SteadyPrefix'
  <1>1. Shape
    BY DEF SteadyInv, SavedInv, Shape
  <1>2. /\ UNCHANGED <<local, meta, pc, flen, pulls, file, chunks, push, shifted>>
        /\ steady' => Steady /\ steady
        /\ \A n \in Names : Row(n) => Row(n)'
    BY <1>1, RowsStay DEF threadVars
  <1>3. steady' => pc \in {"off", "dial", "sleep"} /\ pulls = <<>> /\ file = NoName
    BY <1>1, <1>2 DEF Steady, Shape, WriterInPushes
  <1>4. ASSUME NEW n \in Names, Row(n)'
        PROVE  Len(rows'[n].bytes) \in Nat \ {0}
    BY <1>4, WholeLength DEF Shape, DownloadTypes
  <1>5. ASSUME steady', NEW n \in Names, Row(n)', Downloading(n), rows'[n] # rows[n]
        PROVE  ~Exists(n) /\ meta[n] = 0
    BY <1>2, <1>5 DEF Steady
  <1>6. SteadyLengths'
    <2> SUFFICES ASSUME steady'
                 PROVE  /\ \A n \in Names : Row(n)' /\ Downloading(n) =>
                                               meta[n] < Len(rows'[n].bytes)
                        /\ ~Row(file)'
      BY <1>2, <1>3 DEF SteadyLengths
    <2>1. ASSUME NEW n \in Names, Row(n)', Downloading(n)
          PROVE  meta[n] < Len(rows'[n].bytes)
      <3>1. CASE rows'[n] # rows[n]
        BY <1>4, <1>5, <2>1, <3>1
      <3>2. CASE rows'[n] = rows[n]
        BY <1>2, <2>1, <3>2 DEF SteadyInv, SteadyLengths
      <3> QED
        BY <3>1, <3>2
    <2>2. ~Row(file)'
      BY <1>2, <1>3, FileFacts, NameFacts
    <2> QED
      BY <2>1, <2>2
  <1>7. PullsArePositive'
    BY <1>2, <1>3 DEF PullsArePositive
  <1>8. SteadyPush'
    BY <1>2, <1>3 DEF SteadyPush
  <1>9. SteadyPrefix'
    <2> SUFFICES ASSUME NEW n \in Plain, Downloading(n)
                 PROVE  /\ Row(n)'
                        /\ steady' /\ Exists(n) =>
                              /\ Len(local[n].bytes) <= Len(rows'[n].bytes)
                              /\ \A i \in DOMAIN local[n].bytes :
                                    local[n].bytes[i] = rows'[n].bytes[i]
      BY <1>2 DEF SteadyPrefix
    <2>1. n \in Names /\ Row(n)'
      BY <1>2, NameFacts DEF SteadyInv, SteadyPrefix
    <2>2. steady' /\ Exists(n) => rows'[n] = rows[n]
      BY <1>5, <2>1
    <2> QED
      BY <1>2, <2>1, <2>2 DEF SteadyInv, SteadyPrefix
  <1>10. SteadyAsked'
    BY <1>2, <1>3 DEF SteadyAsked, SteadyInv
  <1> QED
    BY <1>6, <1>7, <1>8, <1>9, <1>10

\* A Pull asks for what is not recorded of a row that has more.
LEMMA PullsMadePositive ==
    ASSUME SteadyInv, SendPull, steady
    PROVE  \A i \in DOMAIN pulls' : pulls'[i].len > 0
  <1>1. Shape /\ pc = "check" /\ at > Len(dir)
    BY DEF SteadyInv, SavedInv, Shape, SendPull
  <1>2. PICK g \in [DOMAIN pulls' -> DOMAIN dir] :
           \A k \in DOMAIN pulls' :
              /\ Downloading(dir[g[k]].name)
              /\ pulls'[k].len = Len(dir[g[k]].bytes) - meta[dir[g[k]].name]
    BY <1>1, PullFacts
  <1> SUFFICES ASSUME NEW k \in DOMAIN pulls' PROVE pulls'[k].len > 0
    OBVIOUS
  <1> DEFINE i == g[k]
             n == dir[i].name
  <1>3. /\ i \in DOMAIN dir /\ i \in 1..Len(dir) /\ n \in Names
        /\ Downloading(n) /\ Len(dir[i].bytes) \in Nat \ {0}
    BY <1>1, <1>2, DirEntries
  <1>4. meta[n] \in Nat
    BY <1>1, <1>3 DEF Shape, DownloadTypes
  <1>5. Passed
    BY <1>1, DirFitsParts DEF SteadyInv, SavedInv
  <1>6. meta[n] < Len(dir[i].bytes)
    <2>1. CASE FromServer(i)
      BY <1>3, <2>1 DEF FromServer, SteadyInv, SteadyLengths
    <2>2. CASE meta[n] = 0
      BY <1>3, <2>2
    <2>3. i # at
      BY <1>1, <1>3
    <2> QED
      BY <1>3, <1>5, <2>1, <2>2, <2>3 DEF Passed
  <1> QED
    BY <1>2, <1>3, <1>4, <1>6

\* What insertChunk makes of the chunks.
LEMMA InsertFacts ==
    ASSUME SavedInv, InsertChunk
    PROVE  /\ pc = "insert" /\ pc' = "wait" /\ file = push.name /\ push.name \in Names
           /\ UNCHANGED <<rows, steady, local, file, flen, pulls, push>>
           /\ chunks' = Inserted /\ chunks \in Nat /\ push.from \in Nat
           /\ \/ Inserted = chunks
              \/ push.bytes # <<>> /\ Inserted = chunks + 1 /\ Inserted = push.from
           /\ meta' = IF Inserted = flen[push.name]
                      THEN [meta EXCEPT ![push.name] = NoMeta] ELSE meta
           /\ \A n \in Names : Downloading(n)' <=>
                 Downloading(n) /\ ~(n = push.name /\ Inserted = flen[push.name])
           /\ \A n \in Names : Downloading(n)' => meta'[n] = meta[n]
  <1>1. /\ pc = "insert" /\ pc' = "wait" /\ file = push.name /\ push.name \in Names
        /\ UNCHANGED <<rows, steady, local, file, flen, pulls, push>>
        /\ chunks' = Inserted /\ chunks \in Nat /\ push.from \in Nat
        /\ meta' = IF Inserted = flen[push.name]
                   THEN [meta EXCEPT ![push.name] = NoMeta] ELSE meta
    BY DEF InsertChunk, InPush, Full, worldVars, SavedInv, WriterInPushes, DownloadTypes
  <1>2. \/ Inserted = chunks
        \/ push.bytes # <<>> /\ Inserted = chunks + 1 /\ Inserted = push.from
    BY DEF Inserted
  <1>3. meta \in [Names -> Nat \cup {NoMeta}]
    BY DEF SavedInv, DownloadTypes
  <1>4. \A n \in Names : Downloading(n)' <=>
           Downloading(n) /\ ~(n = push.name /\ Inserted = flen[push.name])
    BY <1>1, <1>3
  <1>5. \A n \in Names : Downloading(n)' => meta'[n] = meta[n]
    BY <1>1, <1>3
  <1> QED
    BY <1>1, <1>2, <1>4, <1>5

\* setFile takes over what is recorded of the new file.
LEMMA SetFileFacts ==
    ASSUME SavedInv, SaveAndLoad
    PROVE  /\ pc = "load" /\ pc' = "write" /\ file' = push.name /\ push.name \in Names
           /\ UNCHANGED <<rows, steady, local, flen, pulls, push>>
           /\ \A n \in Names : Downloading(n)' <=> Downloading(n)
           /\ \A n \in Names : Downloading(n) =>
                 meta'[n] = IF n = file THEN chunks ELSE meta[n]
           /\ Downloading(push.name) => chunks' = meta'[push.name]
  <1>1. /\ pc = "load" /\ pc' = "write" /\ file' = push.name /\ push.name \in Names
        /\ UNCHANGED <<rows, steady, local, flen, pulls, push>>
        /\ meta' = IF file # NoName /\ Downloading(file)
                   THEN [meta EXCEPT ![file] = chunks] ELSE meta
        /\ chunks' = IF meta'[push.name] # NoMeta THEN meta'[push.name] ELSE chunks
    BY DEF SaveAndLoad, InPush, worldVars, SavedInv, WriterInPushes
  <1>2. /\ meta \in [Names -> Nat \cup {NoMeta}] /\ chunks \in Nat
        /\ NoName \notin Names /\ NoMeta \notin Nat
    BY FileFacts DEF SavedInv, DownloadTypes
  <1>3. \A n \in Names : Downloading(n)' <=> Downloading(n)
    BY <1>1, <1>2
  <1>4. \A n \in Names : Downloading(n) =>
           meta'[n] = IF n = file THEN chunks ELSE meta[n]
    BY <1>1, <1>2
  <1> QED
    BY <1>1, <1>2, <1>3, <1>4

\* What begins to be a download, and what stops being one.
LEMMA DownloadingSteps ==
    ASSUME Shape, DownloadNext, NEW n \in Names
    PROVE  /\ Downloading(n)' /\ ~Downloading(n) => CreateMeta /\ n = Entry.name
           /\ Downloading(n) /\ ~Downloading(n)' => InsertChunk
           /\ CreateMeta /\ n = Entry.name => meta'[n] = 0
  <1>1. CASE meta' = meta /\ ~CreateMeta
    BY <1>1
  <1>2. CASE CreateMeta
    <2>1. Entry.name \in Names
      BY <1>2, EntryFacts DEF CreateMeta, Shape, WriterInPushes
    <2>2. meta' = [meta EXCEPT ![Entry.name] = 0] /\ 0 # NoMeta
      BY <1>2, FileFacts DEF CreateMeta
    <2> QED
      BY <1>2, <2>1, <2>2 DEF Shape, DownloadTypes
  <1>3. CASE TruncateMeta
    <2>1. meta' = [meta EXCEPT ![file] = 0] /\ 0 # NoMeta /\ Downloading(file) /\ ~CreateMeta
      BY <1>3, FileFacts DEF TruncateMeta, CreateMeta, Shape, WriterInPushes
    <2> QED
      BY <2>1 DEF Shape, DownloadTypes
  <1>4. CASE SaveAndLoad
    <2>1. meta' = [meta EXCEPT ![file] = chunks] \/ meta' = meta
      BY <1>4 DEF SaveAndLoad
    <2>2. chunks # NoMeta /\ ~CreateMeta
      BY <1>4, FileFacts DEF SaveAndLoad, CreateMeta, Shape, DownloadTypes
    <2>3. meta' = [meta EXCEPT ![file] = chunks] => Downloading(file) \/ file \notin Names
                                                       \/ meta' = meta
      BY <1>4, <2>1 DEF SaveAndLoad
    <2> QED
      BY <2>1, <2>2, <2>3 DEF Shape, DownloadTypes
  <1>5. CASE InsertChunk
    <2>1. ~CreateMeta /\ (meta' = [meta EXCEPT ![push.name] = NoMeta] \/ meta' = meta)
      BY <1>5 DEF InsertChunk, CreateMeta
    <2> QED
      BY <1>5, <2>1 DEF Shape, DownloadTypes
  <1>6. CASE ThreadStep /\ ~CreateMeta /\ ~TruncateMeta /\ ~SaveAndLoad /\ ~InsertChunk
    <2>1. meta' = meta
      BY <1>6 DEF ThreadStep, ReadDirInfo, SkipEntry, KeepLocal, TakeOnline, RenameLocal,
         RemoveLocal, SendPull, Done, Starves, Hung, Returns, NegativePieceArrives, WritePush, NextSync
    <2> QED
      BY <1>1, <1>6, <2>1
  <1>7. CASE (Arrives \/ Close \/ CloseInside \/ Stop \/ StopHung) /\ ~CreateMeta
    <2>1. meta' = meta
      BY <1>7 DEF Arrives, PieceArrives, PieceIsCut,
       PieceRunsOver, ShiftedPiece, EmptyPieceArrives, Receive, Close, Returns,
         CloseInside, Hung, Stop, StopHung
    <2> QED
      BY <1>1, <1>7, <2>1
  <1>8. CASE (\E m \in {1, 3} : Start(m)) /\ ~CreateMeta
    <2>1. meta' = meta
      BY <1>8 DEF Start
    <2> QED
      BY <1>1, <1>8, <2>1
  <1>9. CASE (\E x \in Announced, m \in Contents : UserEdits(x, m)) /\ ~CreateMeta
    <2>1. meta' = meta
      BY <1>9 DEF UserEdits
    <2> QED
      BY <1>1, <1>9, <2>1
  <1>10. CASE /\ \E x \in Announced, m \in Contents, t \in 1..MaxClock, r \in BOOLEAN :
                    RowChanges(x, m, t, r)
              /\ ~CreateMeta
    <2>1. meta' = meta
      BY <1>10 DEF RowChanges
    <2> QED
      BY <1>1, <1>10, <2>1
  <1> QED
    BY <1>2, <1>3, <1>4, <1>5, <1>6, <1>7, <1>8, <1>9, <1>10 DEF DownloadNext

LEMMA LengthsKept ==
    ASSUME DownloadNext, pc' \notin {"off", "dial", "sleep"}
    PROVE  ReadDirInfo \/ (flen' = flen /\ pc \notin {"off", "dial", "sleep"})
  <1>1. CASE ThreadStep
    BY <1>1 DEF ThreadStep, SkipEntry, KeepLocal, TakeOnline, RenameLocal,
       RemoveLocal, CreateMeta, SendPull, Done, Starves, Hung, Returns, NegativePieceArrives,
       ThreadEnds, TruncateMeta, SaveAndLoad, WritePush, InsertChunk, NextSync, Step, InPush
  <1>2. CASE Arrives \/ Close \/ CloseInside \/ Stop \/ StopHung
    BY <1>2 DEF Arrives, PieceArrives, PieceIsCut,
       PieceRunsOver, ShiftedPiece, EmptyPieceArrives, Receive, Close, Returns,
       CloseInside, Hung, Stop, StopHung, ThreadEnds
  <1>3. CASE \E m \in {1, 3} : Start(m)
    BY <1>3 DEF Start
  <1>4. CASE \E n \in Announced, m \in Contents : UserEdits(n, m)
    BY <1>4 DEF UserEdits, threadVars
  <1>5. CASE \E n \in Announced, m \in Contents, t \in 1..MaxClock, r \in BOOLEAN :
                RowChanges(n, m, t, r)
    BY <1>5 DEF RowChanges, threadVars
  <1> QED
    BY <1>1, <1>2, <1>3, <1>4, <1>5 DEF DownloadNext

LEMMA LengthsStep ==
    ASSUME SteadyInv, DownloadNext, Shape', rows' = rows
    PROVE  SteadyLengths'
  <1> SUFFICES ASSUME steady' PROVE SteadyLengths'
    BY DEF SteadyLengths
  <1>1. SavedInv /\ Shape /\ DirFits /\ steady
    BY RowsStay DEF SteadyInv, SavedInv, Shape
  <1>2. ASSUME pc' \notin {"off", "dial", "sleep"}, NEW n \in Names
        PROVE  flen'[n] = IF Row(n) THEN Len(rows[n].bytes) ELSE 0
    <2>1. CASE ReadDirInfo
      BY <2>1 DEF ReadDirInfo
    <2>2. CASE flen' = flen /\ pc \notin {"off", "dial", "sleep"}
      BY <1>1, <2>2 DEF SteadyInv, SteadyLengths
    <2> QED
      BY <1>2, <2>1, <2>2, LengthsKept
  <1>3. ASSUME NEW n \in Names, Row(n), Downloading(n)'
        PROVE  meta'[n] < Len(rows[n].bytes)
    <2>1. Len(rows[n].bytes) \in Nat \ {0}
      BY <1>1, <1>3, RowLengths
    <2>2. meta'[n] \in Nat
      BY <1>3 DEF Shape, DownloadTypes
    <2>3. CASE meta'[n] = 0
      BY <2>1, <2>3
    <2>4. CASE meta'[n] > 0
      <3>1. \/ Downloading(n) /\ meta'[n] = meta[n]
            \/ n = file /\ Downloading(n) /\ meta'[n] = chunks
        BY <1>1, <1>3, <2>4, MetaSteps
      <3> QED
        BY <1>1, <1>3, <3>1 DEF SteadyInv, SteadyLengths
    <2> QED
      BY <2>2, <2>3, <2>4
  <1>4. ASSUME NEW f \in Names, f = file', Row(f), Downloading(f)'
        PROVE  chunks' < Len(rows[f].bytes)
    <2>1. CASE SendPull \/ pc' \notin InPushes
      <3>1. file' = NoName
        BY <1>1, <2>1 DEF SendPull, Shape, WriterInPushes
      <3> QED
        BY <1>4, <3>1, FileFacts
    <2>2. CASE UNCHANGED <<meta, file, chunks>>
      BY <1>1, <1>4, <2>2 DEF SteadyInv, SteadyLengths
    <2>3. CASE PieceArrives \/ MixedArrives \/ EmptyPieceArrives \/ WritePush
      BY <1>1, <2>2, <2>3, ArrivesFacts DEF Arrives, MixedArrives, WritePush
    <2>4. CASE TruncateMeta
      BY <1>1, <1>4, <2>4 DEF TruncateMeta, Shape, WriterInPushes, SteadyInv, SteadyLengths
    <2>5. CASE SaveAndLoad
      <3>1. f = push.name /\ Downloading(f) /\ chunks' = meta'[f]
        BY <1>1, <1>4, <2>5, SetFileFacts
      <3> QED
        BY <1>3, <1>4, <3>1
    <2>6. CASE InsertChunk
      <3>1. /\ f = file /\ file = push.name /\ pc = "insert" /\ chunks \in Nat
            /\ chunks' = Inserted /\ Inserted \in {chunks, chunks + 1}
            /\ Downloading(file) /\ Inserted # flen[file]
        BY <1>1, <1>4, <2>6, InsertFacts
      <3>2. flen[file] = Len(rows[file].bytes) /\ chunks < Len(rows[file].bytes)
        BY <1>1, <1>4, <3>1 DEF SteadyInv, SteadyLengths
      <3>3. Len(rows[file].bytes) \in Nat
        BY <1>1, <1>4, <3>1, RowLengths
      <3> QED
        BY <3>1, <3>2, <3>3
    <2> QED
      BY <2>1, <2>2, <2>3, <2>4, <2>5, <2>6, StepKinds
  <1>5. Row(file)' => file' \in Names
    BY NameFacts
  <1>6. Row(file)' /\ Downloading(file)' => chunks' < Len(rows[file'].bytes)
    BY <1>4, <1>5
  <1> QED
    BY <1>2, <1>3, <1>6 DEF SteadyLengths

\* A piece that is none of the row's comes only when a row changed, or was asked
\* for as another.
LEMMA NoMixedPiece ==
    ASSUME SteadyInv, steady
    PROVE  ~MixedArrives
  <1>1. ~shifted
    BY DEF SteadyInv, SteadyAsked
  <1>2. ASSUME pulls # <<>>
        PROVE  ~OfAnother(Ask)
    <2>1. 1 \in DOMAIN pulls /\ Ask = pulls[1]
      BY <1>2, TailItems DEF Ask, SteadyInv, SavedInv, DownloadTypes
    <2> QED
      BY <2>1 DEF SteadyInv, SteadyAsked, OfAnother, HasPiece
  <1> QED
    BY <1>1, <1>2 DEF MixedArrives, PieceIsCut, PieceRunsOver, ShiftedPiece, RunsOut

\* How the client comes to read from the wrong place.
LEMMA ShiftedSteps ==
    ASSUME DownloadNext, shifted'
    PROVE  shifted \/ PieceRunsOver
  <1>1. CASE ThreadStep
    BY <1>1 DEF ThreadStep, ReadDirInfo, SkipEntry, KeepLocal, TakeOnline, RenameLocal,
       RemoveLocal, CreateMeta, SendPull, Done, Starves, Hung, Returns, NegativePieceArrives,
       ThreadEnds, TruncateMeta, SaveAndLoad, WritePush, InsertChunk, NextSync, Step, InPush
  <1>2. CASE Arrives \/ Close \/ CloseInside \/ Stop \/ StopHung
    BY <1>2 DEF Arrives, PieceArrives, PieceIsCut, ShiftedPiece, EmptyPieceArrives,
       Close, Returns, CloseInside, Hung, Stop, StopHung, ThreadEnds
  <1>3. CASE \E m \in {1, 3} : Start(m)
    BY <1>3 DEF Start
  <1>4. CASE \E n \in Announced, m \in Contents : UserEdits(n, m)
    BY <1>4 DEF UserEdits, threadVars
  <1>5. CASE \E n \in Announced, m \in Contents, t \in 1..MaxClock, r \in BOOLEAN :
                RowChanges(n, m, t, r)
    BY <1>5 DEF RowChanges, threadVars
  <1> QED
    BY <1>1, <1>2, <1>3, <1>4, <1>5 DEF DownloadNext

\* A Pull asks for what the DirInfo offered: no entry has the name of another
\* row.
LEMMA PullsMadeOfRows ==
    ASSUME SteadyInv, SendPull, steady
    PROVE  \A i \in DOMAIN pulls' : Row(pulls'[i].name) =>
              pulls'[i].of = rows[pulls'[i].name].bytes
  <1>1. Shape /\ pc = "check" /\ at > Len(dir)
    BY DEF SteadyInv, SavedInv, Shape, SendPull
  <1>2. PICK g \in [DOMAIN pulls' -> DOMAIN dir] :
           \A k \in DOMAIN pulls' :
              /\ pulls'[k].name = dir[g[k]].name
              /\ pulls'[k].of = dir[g[k]].bytes
    BY <1>1, PullFacts
  <1>3. Passed
    BY <1>1, DirFitsParts DEF SteadyInv, SavedInv
  <1>4. ASSUME NEW i \in DOMAIN dir, Row(dir[i].name)
        PROVE  dir[i].bytes = rows[dir[i].name].bytes
    <2>1. i # at
      BY <1>1, DirEntries
    <2> QED
      BY <1>3, <1>4, <2>1 DEF Passed, FromServer, Aside
  <1> QED
    BY <1>2, <1>4

LEMMA AskedStep ==
    ASSUME SteadyInv, DownloadNext, Shape', rows' = rows
    PROVE  SteadyAsked'
  <1> SUFFICES ASSUME steady'
               PROVE  /\ ~shifted'
                      /\ \A i \in DOMAIN pulls' : Row(pulls'[i].name) =>
                            pulls'[i].of = rows[pulls'[i].name].bytes
    BY DEF SteadyAsked
  <1>1. Shape /\ steady
    BY RowsStay DEF SteadyInv, SavedInv, Shape
  <1>2. /\ ~shifted
        /\ \A i \in DOMAIN pulls : Row(pulls[i].name) =>
              pulls[i].of = rows[pulls[i].name].bytes
    BY <1>1 DEF SteadyInv, SteadyAsked
  <1>3. ~MixedArrives
    BY <1>1, NoMixedPiece
  <1>4. ~shifted'
    BY <1>2, <1>3, ShiftedSteps DEF MixedArrives
  <1>5. CASE SendPull
    BY <1>1, <1>4, <1>5, PullsMadeOfRows
  <1>6. CASE PieceArrives
    <2> SUFFICES ASSUME NEW i \in DOMAIN pulls', Row(pulls'[i].name)
                 PROVE  pulls'[i].of = rows[pulls'[i].name].bytes
      BY <1>4
    <2>1. CASE \A k \in DOMAIN pulls' : /\ k \in Nat \ {0} /\ k + 1 \in DOMAIN pulls
                                        /\ pulls'[k] = pulls[k + 1]
      BY <1>2, <2>1
    <2>2. CASE /\ DOMAIN pulls' = DOMAIN pulls /\ 1 \in DOMAIN pulls
               /\ pulls'[1].name = Ask.name /\ pulls'[1].of = Ask.of
               /\ \A k \in DOMAIN pulls : k # 1 => pulls'[k] = pulls[k]
      <3>1. Ask = pulls[1]
        BY <1>1, <1>6, SentFacts
      <3> QED
        BY <1>2, <2>2, <3>1
    <2> QED
      BY <1>1, <1>6, <2>1, <2>2, SentFacts
  <1>7. CASE EmptyPieceArrives \/ pc' \notin InPushes
    <2>1. pulls' = <<>>
      BY <1>7 DEF EmptyPieceArrives, Shape, WriterInPushes
    <2> QED
      BY <1>4, <2>1
  <1>8. CASE UNCHANGED pulls
    BY <1>2, <1>4, <1>8
  <1>9. CASE TruncateMeta \/ SaveAndLoad \/ WritePush \/ InsertChunk
    BY <1>8, <1>9 DEF TruncateMeta, SaveAndLoad, WritePush, InsertChunk, InPush
  <1> QED
    BY <1>3, <1>5, <1>6, <1>7, <1>8, <1>9, StepKinds

LEMMA PositiveStep ==
    ASSUME SteadyInv, DownloadNext, Shape', rows' = rows
    PROVE  PullsArePositive'
  <1> SUFFICES ASSUME steady' PROVE \A i \in DOMAIN pulls' : pulls'[i].len > 0
    BY DEF PullsArePositive
  <1>1. Shape /\ steady
    BY RowsStay DEF SteadyInv, SavedInv, Shape
  <1>2. \A i \in DOMAIN pulls : pulls[i].len > 0
    BY <1>1 DEF SteadyInv, PullsArePositive
  <1>3. CASE SendPull
    BY <1>1, <1>3, PullsMadePositive
  <1>4. CASE PieceArrives
    <2> SUFFICES ASSUME NEW i \in DOMAIN pulls' PROVE pulls'[i].len > 0
      OBVIOUS
    <2>1. CASE \A k \in DOMAIN pulls' : /\ k \in Nat \ {0} /\ k + 1 \in DOMAIN pulls
                                        /\ pulls'[k] = pulls[k + 1]
      BY <1>2, <2>1
    <2>2. CASE /\ Ask.len > 1 /\ DOMAIN pulls' = DOMAIN pulls
               /\ pulls'[1].len = Ask.len - 1
               /\ \A k \in DOMAIN pulls : k # 1 => pulls'[k] = pulls[k]
      <3>1. Ask.len \in Int
        BY <1>1, <1>4, SentFacts DEF Asked
      <3>2. CASE i = 1
        BY <2>2, <3>1, <3>2
      <3>3. CASE i # 1
        BY <1>2, <2>2, <3>3
      <3> QED
        BY <3>2, <3>3
    <2> QED
      BY <1>1, <1>4, <2>1, <2>2, SentFacts
  <1>5. CASE EmptyPieceArrives \/ pc' \notin InPushes
    <2>1. pulls' = <<>>
      BY <1>5 DEF EmptyPieceArrives, Shape, WriterInPushes
    <2> QED
      BY <2>1
  <1>6. CASE UNCHANGED pulls
    BY <1>2, <1>6
  <1>7. CASE TruncateMeta \/ SaveAndLoad \/ WritePush \/ InsertChunk
    BY <1>6, <1>7 DEF TruncateMeta, SaveAndLoad, WritePush, InsertChunk, InPush
  <1>8. ~MixedArrives
    BY <1>1, NoMixedPiece
  <1> QED
    BY <1>3, <1>4, <1>5, <1>6, <1>7, <1>8, StepKinds

LEMMA SteadyPushStep ==
    ASSUME SteadyInv, DownloadNext, Shape', rows' = rows
    PROVE  SteadyPush'
  <1> SUFFICES ASSUME steady', pc' \in WithPush, push'.bytes # <<>>
               PROVE  /\ Row(push'.name) /\ push'.from <= Len(rows[push'.name].bytes)
                      /\ push'.bytes[1] = rows[push'.name].bytes[push'.from]
    BY DEF SteadyPush
  <1>1. Shape /\ steady
    BY RowsStay DEF SteadyInv, SavedInv, Shape
  <1>2. CASE PieceArrives
    <2>1. /\ Row(Ask.name) /\ Ask.from \in 1..Len(rows[Ask.name].bytes)
          /\ push' = [name |-> Ask.name, from |-> Ask.from,
                      bytes |-> <<rows[Ask.name].bytes[Ask.from]>>]
      BY <1>1, <1>2, PieceFacts
    <2>2. /\ push'.name = Ask.name /\ push'.from = Ask.from
          /\ push'.bytes[1] = rows[Ask.name].bytes[Ask.from]
      BY <2>1
    <2> QED
      BY <2>1, <2>2
  <1>3. CASE EmptyPieceArrives
    BY <1>3 DEF EmptyPieceArrives, Receive
  <1>4. CASE UNCHANGED push /\ pc \in WithPush
    BY <1>1, <1>4 DEF SteadyInv, SteadyPush
  <1>5. CASE TruncateMeta \/ SaveAndLoad \/ WritePush
    BY <1>4, <1>5 DEF TruncateMeta, SaveAndLoad, WritePush, InPush
  <1>6. ~SendPull /\ ~InsertChunk /\ pc' \in InPushes
    BY DEF SendPull, InsertChunk, InPush
  <1>7. ~MixedArrives
    BY <1>1, NoMixedPiece
  <1> QED
    BY <1>2, <1>3, <1>4, <1>5, <1>6, <1>7, StepKinds

LEMMA PrefixStep ==
    ASSUME SteadyInv, DownloadNext, Shape', rows' = rows
    PROVE  SteadyPrefix'
  <1>1. SavedInv /\ Shape /\ DirFits
    BY DEF SteadyInv, SavedInv, Shape
  <1> SUFFICES ASSUME NEW n \in Plain, Downloading(n)'
               PROVE  /\ Row(n)
                      /\ steady' /\ Exists(n)' =>
                            /\ Len(local'[n].bytes) <= Len(rows[n].bytes)
                            /\ \A i \in DOMAIN local'[n].bytes :
                                  local'[n].bytes[i] = rows[n].bytes[i]
    BY DEF SteadyPrefix
  <1>2. n \in Names /\ (steady' => steady)
    BY <1>1, NameFacts, RowsStay
  <1>3. CASE ~Downloading(n)
    <2>1. CreateMeta /\ n = Entry.name
      BY <1>1, <1>2, <1>3, DownloadingSteps
    <2>2. pc = "create" /\ at \in DOMAIN dir /\ Entry = dir[at] /\ local' = local
      BY <1>1, <2>1, PlainEntry DEF CreateMeta
    <2>3. Passed /\ Current
      BY <1>1, <2>2, DirFitsParts
    <2>4. ~Exists(n)
      BY <2>1, <2>2, <2>3 DEF Current
    <2>5. at \in Nat /\ ~(at < at)
      BY <1>1 DEF Shape, DownloadTypes
    <2>6. Row(n)
      BY <2>1, <2>2, <2>3, <2>5 DEF Passed, FromServer, Aside
    <2> QED
      BY <2>2, <2>4, <2>6
  <1>4. CASE Downloading(n)
    <2>1. Row(n)
      BY <1>4 DEF SteadyInv, SteadyPrefix
    <2>2. CASE ~(WritePush /\ n = push.name)
      <3>1. local'[n] = local[n]
        BY <1>1, <1>4, <2>2, LocalKept
      <3> QED
        BY <1>2, <1>4, <2>1, <3>1 DEF SteadyInv, SteadyPrefix
    <2>3. CASE WritePush /\ n = push.name
      <3> SUFFICES ASSUME steady'
                   PROVE  /\ Len(local'[n].bytes) <= Len(rows[n].bytes)
                          /\ \A i \in DOMAIN local'[n].bytes :
                                local'[n].bytes[i] = rows[n].bytes[i]
        BY <2>1
      <3> DEFINE b == Before(push.name)
                 w == Written(push.name)
                 c == rows[n].bytes
      <3>1. local'[n].bytes = w /\ pc = "write"
        BY <1>1, <2>3, WriteShape DEF WritePush
      <3>2. /\ b \in Seq(Pieces) /\ w \in Seq(Pieces) /\ push.from \in Nat \ {0}
            /\ push.bytes = <<>> => w = b
            /\ push.bytes # <<>> /\ push.from <= Len(b) =>
                  /\ Len(w) = Len(b) /\ w[push.from] = push.bytes[1]
                  /\ \A i \in 1..Len(b) : i # push.from => w[i] = b[i]
            /\ push.bytes # <<>> /\ push.from > Len(b) =>
                  /\ Len(w) = Len(b) + 1 /\ w[Len(b) + 1] = push.bytes[1]
                  /\ \A i \in 1..Len(b) : w[i] = b[i]
        BY <1>1, <3>1, WrittenFacts
      <3>3. Len(c) \in Nat
        BY <1>1, <1>2, <2>1, RowLengths
      <3>4. Len(b) <= Len(c) /\ \A i \in 1..Len(b) : b[i] = c[i]
        <4>1. CASE Exists(n)
          <5>1. b = local[n].bytes /\ DOMAIN b = 1..Len(b)
            BY <2>3, <3>2, <4>1 DEF Before
          <5> QED
            BY <1>2, <1>4, <4>1, <5>1 DEF SteadyInv, SteadyPrefix
        <4>2. CASE ~Exists(n)
          <5>1. b = <<>>
            BY <2>3, <4>2 DEF Before
          <5> QED
            BY <3>3, <5>1
        <4> QED
          BY <4>1, <4>2
      <3>5. push.bytes # <<>> => push.from <= Len(c) /\ push.bytes[1] = c[push.from]
        BY <1>2, <2>3, <3>1 DEF SteadyInv, SteadyPush
      <3>6. push.from <= Len(b) + 1
        <4>1. push.from <= chunks + 1 /\ file = n /\ chunks \in Nat
          BY <1>1, <2>3, <3>1 DEF SavedInv, PushFits, WriterInPushes, DownloadTypes
        <4>2. CASE chunks > 0
          <5>1. Exists(n) /\ chunks <= Len(local[n].bytes)
            BY <1>1, <1>4, <4>1, <4>2 DEF SavedInv, CountedOnDisk
          <5>2. b = local[n].bytes
            BY <2>3, <5>1 DEF Before
          <5>3. Len(b) \in Nat /\ chunks <= Len(b)
            BY <3>2, <5>1, <5>2
          <5> HIDE DEF b
          <5> QED
            BY <3>2, <4>1, <5>3
        <4>3. CASE chunks = 0
          <5>1. Len(b) \in Nat
            BY <3>2
          <5> HIDE DEF b
          <5> QED
            BY <3>2, <4>1, <4>3, <5>1
        <4> QED
          BY <4>1, <4>2, <4>3
      <3> HIDE DEF b, w, c
      <3>7. Len(b) \in Nat /\ Len(w) \in Nat /\ DOMAIN w = 1..Len(w)
        BY <3>2
      <3>8. CASE push.bytes = <<>>
        BY <3>2, <3>4, <3>7, <3>8, <3>1 DEF c
      <3>9. CASE push.bytes # <<>> /\ push.from <= Len(b)
        <4>1. \A i \in 1..Len(w) : w[i] = c[i]
          BY <3>2, <3>4, <3>5, <3>9
        <4> QED
          BY <3>1, <3>2, <3>4, <3>7, <3>9, <4>1 DEF c
      <3>10. CASE push.bytes # <<>> /\ push.from > Len(b)
        <4>1. push.from = Len(b) + 1 /\ Len(w) = Len(b) + 1
          <5>1. \A x, y \in Nat : x > y /\ x <= y + 1 => x = y + 1
            OBVIOUS
          <5>2. push.from \in Nat
            BY <3>2
          <5> QED
            BY <3>2, <3>6, <3>7, <3>10, <5>1, <5>2
        <4>2. \A i \in 1..Len(w) : w[i] = c[i]
          <5> SUFFICES ASSUME NEW i \in 1..Len(w) PROVE w[i] = c[i]
            OBVIOUS
          <5>1. CASE i = Len(b) + 1
            BY <3>2, <3>5, <3>10, <4>1, <5>1
          <5>2. CASE i # Len(b) + 1
            <6>1. i \in 1..Len(b)
              BY <3>7, <4>1, <5>2
            <6> QED
              BY <3>2, <3>4, <3>10, <6>1
          <5> QED
            BY <5>1, <5>2
        <4> QED
          BY <3>1, <3>5, <3>7, <3>10, <4>1, <4>2 DEF c
      <3>11. push.from \in Nat
        BY <3>2
      <3> QED
        BY <3>7, <3>8, <3>9, <3>10, <3>11
    <2> QED
      BY <2>2, <2>3
  <1> QED
    BY <1>3, <1>4

LEMMA SteadyInit == DownloadInit => SteadyInv
  <1> SUFFICES ASSUME DownloadInit PROVE SteadyInv
    OBVIOUS
  <1>1. SavedInv
    BY SavedInit
  <1>2. /\ pc = "off" /\ pulls = <<>> /\ file = NoName /\ ~shifted
        /\ meta = [n \in Names |-> NoMeta]
    BY DEF DownloadInit
  <1>3. SteadyLengths /\ PullsArePositive /\ SteadyAsked /\ SteadyPush /\ SteadyPrefix
    BY <1>2, NameFacts, FileFacts
       DEF SteadyLengths, PullsArePositive, SteadyAsked, SteadyPush,
           SteadyPrefix
  <1> QED
    BY <1>1, <1>3 DEF SteadyInv

LEMMA SteadyNext == SteadyInv /\ [DownloadNext]_downloadVars => SteadyInv'
  <1> SUFFICES ASSUME SteadyInv, [DownloadNext]_downloadVars PROVE SteadyInv'
    OBVIOUS
  <1>1. SavedInv'
    BY SavedNext DEF SteadyInv
  <1>2. Shape'
    BY <1>1 DEF SavedInv, Shape
  <1>3. CASE DownloadNext
    <2>1. /\ SteadyLengths' /\ PullsArePositive' /\ SteadyAsked'
          /\ SteadyPush' /\ SteadyPrefix'
      <3>1. CASE rows' # rows
        BY <1>2, <1>3, <3>1, WorldSteady
      <3>2. CASE rows' = rows
        BY <1>2, <1>3, <3>2, LengthsStep, PositiveStep, AskedStep, SteadyPushStep, PrefixStep
      <3> QED
        BY <3>1, <3>2
    <2> QED
      BY <1>1, <2>1 DEF SteadyInv
  <1>4. CASE UNCHANGED downloadVars
    <2>1. /\ SteadyLengths' /\ PullsArePositive' /\ SteadyAsked'
          /\ SteadyPush' /\ SteadyPrefix'
      BY <1>4 DEF downloadVars, threadVars, SteadyInv, SteadyLengths, PullsArePositive,
         SteadyAsked, SteadyPush, SteadyPrefix
    <2> QED
      BY <1>1, <2>1 DEF SteadyInv
  <1> QED
    BY <1>3, <1>4

\* Lengths, pieces and the files under download agree with rows that do not
\* change under them.
THEOREM SteadyInvariant == DownloadSpec => []SteadyInv
  BY SteadyInit, SteadyNext, PTL DEF DownloadSpec

\* While no row changes under a download, no Pull asks for nothing or less: a
\* file that is full has no .tmydownload file, whenever the program stopped.
THEOREM PullsArePositiveAlways == DownloadSpec => []PullsArePositive
  <1>1. SteadyInv => PullsArePositive
    BY DEF SteadyInv
  <1> QED
    BY SteadyInvariant, <1>1, PTL

LEMMA FinishedStep ==
    ASSUME SteadyInv, DownloadNext, steady, NEW n \in Plain,
           Downloading(n), ~Downloading(n)'
    PROVE  local'[n].bytes = rows[n].bytes
  <1>1. SavedInv /\ Shape /\ n \in Names
    BY NameFacts DEF SteadyInv, SavedInv, Shape
  <1>2. InsertChunk
    BY <1>1, DownloadingSteps
  <1>3. /\ n = push.name /\ Inserted = flen[n] /\ file = n /\ pc = "insert" /\ local' = local
        /\ chunks \in Nat /\ push.from \in Nat
        /\ \/ Inserted = chunks
           \/ push.bytes # <<>> /\ Inserted = chunks + 1 /\ Inserted = push.from
    BY <1>1, <1>2, InsertFacts
  <1>4. /\ Row(n) /\ Inserted = Len(rows[n].bytes) /\ chunks < Len(rows[n].bytes)
        /\ Exists(n) => /\ Len(local[n].bytes) <= Len(rows[n].bytes)
                        /\ \A i \in DOMAIN local[n].bytes : local[n].bytes[i] = rows[n].bytes[i]
    BY <1>1, <1>3 DEF SteadyInv, SteadyLengths, SteadyPrefix
  <1>5. rows[n] \in Whole /\ Len(rows[n].bytes) \in Nat
    BY <1>1, <1>4, RowLengths
  <1>6. push.bytes # <<>> /\ Inserted = push.from
    BY <1>3, <1>4, <1>5
  <1>7. Exists(n) /\ Inserted <= Len(local[n].bytes)
    BY <1>1, <1>3, <1>6 DEF SavedInv, CountedOnDisk
  <1>8. local[n].bytes \in Seq(Pieces) /\ rows[n].bytes \in Seq(Pieces)
    <2>1. local[n] \in File
      BY <1>1, <1>7 DEF Shape, DownloadTypes
    <2>2. rows[n].bytes \in Versions
      BY <1>5, WholeLength
    <2> QED
      BY <2>1, <2>2, FileFacts, VersionFacts
  <1>9. Len(local[n].bytes) \in Nat /\ DOMAIN local[n].bytes = 1..Len(local[n].bytes)
    BY <1>8
  <1>10. Len(local[n].bytes) = Len(rows[n].bytes)
    <2>1. \A x, y \in Nat : x <= y /\ y <= x => x = y
      OBVIOUS
    <2> QED
      BY <1>4, <1>5, <1>7, <1>9, <2>1
  <1>11. \A i \in 1..Len(local[n].bytes) : local[n].bytes[i] = rows[n].bytes[i]
    BY <1>4, <1>7, <1>9
  <1>12. local[n].bytes = rows[n].bytes
    BY <1>8, <1>10, <1>11, SeqEqual
  <1> QED
    BY <1>3, <1>12

\* A download that ends, in whatever session, leaves the content of the row, if
\* the row did not change under it.
THEOREM FinishedIsOfferedAlways == DownloadSpec => FinishedIsOffered
  <1>1. SteadyInv /\ [DownloadNext]_downloadVars =>
           [steady => \A n \in Plain : Downloading(n) /\ ~Downloading(n)' =>
               local'[n].bytes = rows[n].bytes]_downloadVars
    BY FinishedStep
  <1> QED
    BY SteadyInvariant, <1>1, PTL DEF DownloadSpec, FinishedIsOffered

-----------------------------------------------------------------------------
(* What an initial session keeps *)

\* The Pull of a plain name that is sent next, and those to come.
LEMMA PlainMade ==
    ASSUME SavedInv, SendPull, NEW i \in DOMAIN pulls', pulls'[i].name \in Plain
    PROVE  PlainPull(i)'
  <1>1. /\ Shape /\ DirFits
        /\ pc = "check" /\ at > Len(dir) /\ pc' \in {"wait", "sleep"} /\ file = NoName
        /\ UNCHANGED <<meta, file, flen, chunks, push>>
    BY DEF SavedInv, Shape, SendPull, WriterInPushes, worldVars
  <1>2. PICK g \in [DOMAIN pulls' -> DOMAIN dir] :
           \A k \in DOMAIN pulls' :
              /\ Downloading(dir[g[k]].name)
              /\ pulls'[k].name = dir[g[k]].name
              /\ pulls'[k].from = meta[dir[g[k]].name] + 1
              /\ pulls'[k].len = Len(dir[g[k]].bytes) - meta[dir[g[k]].name]
    BY <1>1, PullFacts
  <1> DEFINE k == g[i]
             n == dir[k].name
  <1>3. /\ k \in DOMAIN dir /\ k \in 1..Len(dir) /\ n \in Names /\ n \in Plain
        /\ Downloading(n) /\ Len(dir[k].bytes) \in Nat
        /\ pulls'[i].name = n /\ pulls'[i].from = meta[n] + 1
        /\ pulls'[i].len = Len(dir[k].bytes) - meta[n]
    BY <1>1, <1>2, DirEntries
  <1>4. meta[n] \in Nat
    BY <1>1, <1>3 DEF Shape, DownloadTypes
  <1>5. Len(dir[k].bytes) = flen[n]
    <2>1. Passed
      BY <1>1, DirFitsParts
    <2>2. k # at
      BY <1>1, <1>3
    <2> QED
      BY <1>3, <2>1, <2>2 DEF Passed, FromServer, Aside
  <1> HIDE DEF n, k
  <1>6. pulls'[i].from + pulls'[i].len = flen[n] + 1
    BY <1>3, <1>4, <1>5
  <1>7. \A j \in DOMAIN pulls' : j # i => pulls'[j].name # pulls'[i].name
    BY <1>1, PullMade
  <1>8. n # file
    BY <1>1, <1>3, FileFacts
  <1> QED
    BY <1>1, <1>3, <1>6, <1>7, <1>8 DEF PlainPull

\* Where only an item's own file matters.
LEMMA PlainKept ==
    ASSUME NEW i \in DOMAIN pulls, PlainPull(i), UNCHANGED <<pulls, flen>>,
           Downloading(pulls[i].name)',
           \/ /\ UNCHANGED <<chunks, file, push>> /\ meta'[pulls[i].name] = meta[pulls[i].name]
              /\ pc \in WithPush <=> pc' \in WithPush
              /\ pc \in {"wait", "spin"} <=> pc' \in {"wait", "spin"}
           \/ /\ pc \in WithPush /\ pc' \in WithPush /\ UNCHANGED push /\ file' \in {file, push.name}
              /\ pulls[i].name # file => meta'[pulls[i].name] = meta[pulls[i].name]
    PROVE  PlainPull(i)'
  BY DEF PlainPull

LEMMA PlainPullsStep ==
    ASSUME KeepsInv, DownloadNext, Shape'
    PROVE  PlainPulls'
  <1> SUFFICES ASSUME NEW i \in DOMAIN pulls', pulls'[i].name \in Plain PROVE PlainPull(i)'
    BY DEF PlainPulls, PlainPull
  <1>1. SavedInv /\ Shape /\ \A k \in DOMAIN pulls : pulls[k].name \in Plain => PlainPull(k)
    BY DEF KeepsInv, SavedInv, Shape, PlainPulls
  <1>2. CASE SendPull
    BY <1>1, <1>2, PlainMade
  <1>3. CASE PieceArrives \/ MixedArrives
    <2>1. /\ pc = "wait" /\ pc' \in {"truncate", "load"}
          /\ UNCHANGED <<meta, flen, file, chunks>>
          /\ push'.name = pulls[1].name /\ push'.from = pulls[1].from
          /\ Ask = pulls[1] /\ Ask \in Asked
      BY <1>1, <1>3, SentFacts
    <2>2. ASSUME NEW k \in DOMAIN pulls, k # 1, pulls[k].name \in Plain
          PROVE  /\ Downloading(pulls[k].name)
                 /\ pulls[k].from + pulls[k].len = flen[pulls[k].name] + 1
                 /\ \A j \in DOMAIN pulls : j # k => pulls[j].name # pulls[k].name
                 /\ pulls[k].from = meta[pulls[k].name] + 1 /\ pulls[k].name # file
                 /\ pulls[k].name # push'.name
      <3>1. 1 \in DOMAIN pulls
        BY <1>1, <2>2, PullItems
      <3> QED
        BY <1>1, <2>1, <2>2, <3>1 DEF PlainPull
    <2>3. CASE \A k \in DOMAIN pulls' : /\ k \in Nat \ {0} /\ k + 1 \in DOMAIN pulls
                                        /\ pulls'[k] = pulls[k + 1]
      <3>1. i \in Nat \ {0} /\ i + 1 \in DOMAIN pulls /\ i + 1 # 1 /\ pulls'[i] = pulls[i + 1]
        BY <2>3
      <3>2. \A j \in DOMAIN pulls' : j # i =>
               j + 1 \in DOMAIN pulls /\ j + 1 # i + 1 /\ pulls'[j] = pulls[j + 1]
        BY <2>3, <3>1
      <3> QED
        BY <2>1, <2>2, <3>1, <3>2 DEF PlainPull
    <2>4. CASE /\ Ask.len > 1 /\ DOMAIN pulls' = DOMAIN pulls /\ 1 \in DOMAIN pulls
               /\ pulls'[1].name = Ask.name /\ pulls'[1].from = Ask.from + 1
               /\ pulls'[1].len = Ask.len - 1
               /\ \A k \in DOMAIN pulls : k # 1 => pulls'[k] = pulls[k]
      <3>1. \A j \in DOMAIN pulls : pulls'[j].name = pulls[j].name
        BY <2>1, <2>4
      <3>2. CASE i = 1
        <4>1. /\ Ask.from \in Nat /\ Ask.len \in Int
              /\ PlainPull(1)
          BY <1>1, <2>1, <2>4, <3>1, <3>2 DEF Asked
        <4>2. pulls'[1].from + pulls'[1].len = Ask.from + Ask.len /\ pulls'[1].len > 0
          BY <2>4, <4>1
        <4> QED
          BY <2>1, <2>4, <3>1, <3>2, <4>1, <4>2 DEF PlainPull
      <3>3. CASE i # 1
        BY <2>1, <2>2, <2>4, <3>1, <3>3 DEF PlainPull
      <3> QED
        BY <3>2, <3>3
    <2> QED
      BY <1>1, <1>3, <2>3, <2>4, SentFacts
  <1>4. CASE EmptyPieceArrives \/ pc' \notin InPushes
    <2>1. pulls' = <<>>
      BY <1>4 DEF EmptyPieceArrives, Shape, WriterInPushes
    <2> QED
      BY <2>1
  <1>5. CASE TruncateMeta
    <2>1. /\ pc = "truncate" /\ pc' = "load" /\ meta' = [meta EXCEPT ![file] = 0]
          /\ UNCHANGED <<pulls, flen, file, chunks, push>>
      BY <1>5 DEF TruncateMeta, InPush
    <2>2. PlainPull(i) /\ pulls[i].name \in Names
      BY <1>1, <2>1, PullItems
    <2>3. pulls[i].name # file => meta'[pulls[i].name] = meta[pulls[i].name]
      BY <1>1, <2>1, <2>2 DEF Shape, DownloadTypes
    <2>4. Downloading(pulls[i].name)'
      <3>1. 0 # NoMeta
        BY FileFacts
      <3> QED
        BY <1>1, <2>1, <2>2, <3>1 DEF PlainPull, Shape, DownloadTypes
    <2> QED
      BY <2>1, <2>2, <2>3, <2>4, PlainKept
  <1>6. CASE SaveAndLoad
    <2>1. /\ pc = "load" /\ pc' = "write" /\ file' = push.name
          /\ UNCHANGED <<pulls, flen, push>>
          /\ \A n \in Names : Downloading(n)' <=> Downloading(n)
          /\ \A n \in Names : Downloading(n) =>
                meta'[n] = IF n = file THEN chunks ELSE meta[n]
      BY <1>1, <1>6, SetFileFacts
    <2>2. PlainPull(i) /\ pulls[i].name \in Names
      BY <1>1, <2>1, PullItems
    <2>3. Downloading(pulls[i].name)
      BY <2>2 DEF PlainPull
    <2>4. Downloading(pulls[i].name)'
      BY <2>1, <2>2, <2>3
    <2> QED
      BY <2>1, <2>2, <2>3, <2>4, PlainKept
  <1>7. CASE WritePush
    <2>1. /\ pc = "write" /\ pc' = "insert"
          /\ UNCHANGED <<meta, pulls, flen, file, chunks, push>>
      BY <1>7 DEF WritePush, InPush
    <2>2. PlainPull(i)
      BY <1>1, <2>1
    <2>3. Downloading(pulls[i].name)'
      BY <2>1, <2>2 DEF PlainPull
    <2> QED
      BY <2>1, <2>2, <2>3, PlainKept
  <1>8. CASE InsertChunk
    <2>1. /\ pc = "insert" /\ pc' = "wait" /\ file = push.name
          /\ UNCHANGED <<pulls, flen, file, push>>
          /\ chunks' = Inserted /\ chunks \in Nat /\ push.from \in Nat
          /\ \A n \in Names : Downloading(n)' <=>
                Downloading(n) /\ ~(n = push.name /\ Inserted = flen[push.name])
          /\ \A n \in Names : Downloading(n)' => meta'[n] = meta[n]
      BY <1>1, <1>8, InsertFacts
    <2>2. /\ PlainPull(i) /\ pulls[i].name \in Names
          /\ pulls[i].from \in Nat /\ pulls[i].len \in Int
      BY <1>1, <2>1, PullItems
    <2>3. CASE pulls[i].name # push.name
      <3>1. Downloading(pulls[i].name)' /\ meta'[pulls[i].name] = meta[pulls[i].name]
        BY <2>1, <2>2, <2>3 DEF PlainPull
      <3> QED
        BY <2>1, <2>2, <2>3, <3>1 DEF PlainPull
    <2>4. CASE pulls[i].name = push.name
      <3>1. i = 1 /\ pulls[i].from = push.from + 1 /\ pulls[i].len > 0
        BY <2>1, <2>2, <2>4 DEF PlainPull
      <3>2. push.bytes # <<>>
        <4>1. pulls # <<>>
          BY <2>1
        <4> QED
          BY <1>1, <2>1, <4>1 DEF Shape, WriterInPushes
      <3>3. push.from = chunks + 1
        BY <2>1, <2>4 DEF KeepsInv, PlainPush
      <3>4. Inserted = push.from
        BY <3>2, <3>3 DEF Inserted
      <3>5. flen[push.name] \in Nat /\ pulls[i].from + pulls[i].len = flen[push.name] + 1
        BY <1>1, <2>2, <2>4 DEF Shape, DownloadTypes, PlainPull
      <3>6. Inserted # flen[push.name]
        BY <2>1, <2>2, <3>1, <3>4, <3>5
      <3>7. Downloading(pulls[i].name)'
        BY <2>1, <2>2, <2>4, <3>6 DEF PlainPull
      <3> QED
        BY <2>1, <2>2, <2>4, <3>1, <3>4, <3>7 DEF PlainPull
    <2> QED
      BY <2>3, <2>4
  <1>9. CASE /\ UNCHANGED <<meta, flen, pulls, file, chunks, push>>
             /\ pc' = pc \/ (pc = "wait" /\ pc' = "spin")
    <2>1. PlainPull(i)
      BY <1>1, <1>9
    <2>2. Downloading(pulls[i].name)'
      BY <1>9, <2>1 DEF PlainPull
    <2> QED
      BY <1>9, <2>1, <2>2, PlainKept
  <1> QED
    BY <1>2, <1>3, <1>4, <1>5, <1>6, <1>7, <1>8, <1>9, StepKinds

LEMMA PlainPushStep ==
    ASSUME KeepsInv, DownloadNext, Shape'
    PROVE  PlainPush'
  <1> SUFFICES ASSUME NEW n \in Plain, n = push'.name, pc' \in WithPush
               PROVE  /\ Downloading(n)'
                      /\ pc' \in {"truncate", "load"} =>
                            push'.from = (IF n = file' THEN chunks' ELSE meta'[n]) + 1
                      /\ pc' \in {"write", "insert"} => push'.from = chunks' + 1
    BY DEF PlainPush
  <1>1. SavedInv /\ Shape /\ n \in Names
    BY NameFacts DEF KeepsInv, SavedInv, Shape
  <1>2. CASE PieceArrives \/ MixedArrives \/ EmptyPieceArrives
    <2>1. /\ pc = "wait" /\ pc' \in {"truncate", "load"}
          /\ UNCHANGED <<meta, file, chunks>>
          /\ push'.name = Ask.name /\ push'.from = Ask.from
          /\ Ask = pulls[1] /\ 1 \in DOMAIN pulls
      BY <1>1, <1>2, ArrivesFacts DEF Arrives, MixedArrives
    <2>2. PlainPull(1)
      BY <2>1 DEF KeepsInv, PlainPulls
    <2> QED
      BY <2>1, <2>2 DEF PlainPull
  <1>3. CASE TruncateMeta
    <2>1. /\ pc = "truncate" /\ pc' = "load" /\ meta' = [meta EXCEPT ![file] = 0]
          /\ UNCHANGED <<file, chunks, push>> /\ 0 # NoMeta
      BY <1>3, FileFacts DEF TruncateMeta, InPush
    <2>2. /\ Downloading(n)
          /\ push.from = (IF n = file THEN chunks ELSE meta[n]) + 1
      BY <2>1 DEF KeepsInv, PlainPush
    <2>3. Downloading(n)' /\ (n # file => meta'[n] = meta[n])
      BY <1>1, <2>1, <2>2 DEF Shape, DownloadTypes
    <2> QED
      BY <2>1, <2>2, <2>3
  <1>4. CASE SaveAndLoad
    <2>1. /\ pc = "load" /\ pc' = "write" /\ UNCHANGED push /\ n = push.name
          /\ \A x \in Names : Downloading(x)' <=> Downloading(x)
          /\ \A x \in Names : Downloading(x) =>
                meta'[x] = IF x = file THEN chunks ELSE meta[x]
          /\ Downloading(push.name) => chunks' = meta'[push.name]
      BY <1>1, <1>4, SetFileFacts
    <2>2. /\ Downloading(n)
          /\ push.from = (IF n = file THEN chunks ELSE meta[n]) + 1
      BY <2>1 DEF KeepsInv, PlainPush
    <2>3. Downloading(n)' /\ push.from = chunks' + 1
      BY <1>1, <2>1, <2>2
    <2> QED
      BY <2>1, <2>3
  <1>5. CASE UNCHANGED <<meta, file, chunks, push>>
             /\ (pc' = pc \/ (pc = "write" /\ pc' = "insert"))
    BY <1>5 DEF KeepsInv, PlainPush
  <1>6. CASE WritePush
    BY <1>5, <1>6 DEF WritePush, InPush
  <1>7. ~SendPull /\ ~InsertChunk /\ pc' \in InPushes /\ pc' # "spin"
    BY DEF SendPull, InsertChunk, InPush
  <1> QED
    BY <1>2, <1>3, <1>4, <1>5, <1>6, <1>7, StepKinds

\* What is about to be removed was moved aside, or its new name is taken.
LEMMA AsideSteps ==
    ASSUME DownloadNext, pc' = "remove"
    PROVE  \/ KeepLocal \/ TakeOnline \/ RenameLocal
           \/ pc = "remove" /\ UNCHANGED <<local, mode, dir, at>>
  <1>1. CASE ThreadStep
    BY <1>1 DEF ThreadStep, ReadDirInfo, SkipEntry, RemoveLocal, CreateMeta, SendPull, Done,
       Starves, Hung, Returns, NegativePieceArrives, ThreadEnds, TruncateMeta, SaveAndLoad,
       WritePush, InsertChunk, NextSync, Step, InPush
  <1>2. CASE Arrives \/ Close \/ CloseInside \/ Stop \/ StopHung
    BY <1>2 DEF Arrives, PieceArrives, PieceIsCut,
       PieceRunsOver, ShiftedPiece, EmptyPieceArrives, Receive, Close, Returns,
       CloseInside, Hung, Stop, StopHung, ThreadEnds
  <1>3. CASE \E m \in {1, 3} : Start(m)
    BY <1>3 DEF Start
  <1>4. CASE \E n \in Announced, m \in Contents : UserEdits(n, m)
    BY <1>4 DEF UserEdits, threadVars
  <1>5. CASE \E n \in Announced, m \in Contents, t \in 1..MaxClock, r \in BOOLEAN :
                RowChanges(n, m, t, r)
    BY <1>5 DEF RowChanges, threadVars
  <1> QED
    BY <1>1, <1>2, <1>3, <1>4, <1>5 DEF DownloadNext

LEMMA AsideStep ==
    ASSUME KeepsInv, DownloadNext, Shape'
    PROVE  MovedAside'
  <1> SUFFICES ASSUME NEW n \in Plain, n = dir'[at'].name, pc' = "remove", mode' = 1,
                      Exists(n)'
               PROVE  Exists(Old[n])'
    BY DEF MovedAside
  <1>1. SavedInv /\ Shape /\ DirFits /\ n \in Names /\ Old[n] \in Names /\ Old[n] # n
    BY NameFacts DEF KeepsInv, SavedInv, Shape
  <1>2. CASE KeepLocal
    <2>1. pc = "check" /\ at \in DOMAIN dir /\ Entry = dir[at] /\ at' = at
      BY <1>1, <1>2, EntryFacts DEF KeepLocal, Step
    <2>2. Entry.name \in Announced
      <3>1. ToCome
        BY <1>1, <2>1, DirFitsParts
      <3> QED
        BY <2>1, <3>1 DEF ToCome, Unseen, FromServer
    <2>3. dir'[at].name = Old[dir[at].name]
      BY <1>1, <1>2, <2>2, KeepLocalFacts
    <2>4. Old[Entry.name] \notin Plain
      BY <2>2, NameFacts
    <2> QED
      BY <2>1, <2>3, <2>4
  <1>3. CASE TakeOnline
    <2>1. /\ ~Skips /\ ~(Differs /\ mode = 1) /\ UNCHANGED <<local, mode, dir, at>>
          /\ n = Entry.name
      BY <1>3 DEF TakeOnline, Step, worldVars, Entry
    <2>2. ~Exists(n)
      BY <2>1 DEF Skips
    <2> QED
      BY <2>1, <2>2
  <1>4. CASE RenameLocal
    <2>1. /\ n = Entry.name
          /\ local' = IF Exists(Old[n]) THEN local
                      ELSE [local EXCEPT ![Old[n]] = local[n], ![n] = NoFile]
      BY <1>4 DEF RenameLocal, Step, worldVars, Entry
    <2>2. ~Exists(Old[n]) => local'[n] = NoFile
      BY <1>1, <2>1 DEF Shape, DownloadTypes
    <2> QED
      BY <2>1, <2>2
  <1>5. CASE pc = "remove" /\ UNCHANGED <<local, mode, dir, at>>
    BY <1>5 DEF KeepsInv, MovedAside
  <1> QED
    BY <1>2, <1>3, <1>4, <1>5, AsideSteps

LEMMA KeepsInit == DownloadInit => KeepsInv
  <1> SUFFICES ASSUME DownloadInit PROVE KeepsInv
    OBVIOUS
  <1>1. SavedInv
    BY SavedInit
  <1>2. pc = "off" /\ pulls = <<>>
    BY DEF DownloadInit
  <1> QED
    BY <1>1, <1>2 DEF KeepsInv, PlainPulls, PlainPush, MovedAside

LEMMA KeepsNext == KeepsInv /\ [DownloadNext]_downloadVars => KeepsInv'
  <1> SUFFICES ASSUME KeepsInv, [DownloadNext]_downloadVars PROVE KeepsInv'
    OBVIOUS
  <1>1. SavedInv'
    BY SavedNext DEF KeepsInv
  <1>2. Shape'
    BY <1>1 DEF SavedInv, Shape
  <1>3. CASE DownloadNext
    BY <1>1, <1>2, <1>3, PlainPullsStep, PlainPushStep, AsideStep DEF KeepsInv
  <1>4. CASE UNCHANGED downloadVars
    <2>1. PlainPulls' /\ PlainPush' /\ MovedAside'
      BY <1>4 DEF downloadVars, threadVars, KeepsInv, PlainPulls, PlainPull, PlainPush, MovedAside
    <2> QED
      BY <1>1, <2>1 DEF KeepsInv
  <1> QED
    BY <1>3, <1>4

LEMMA KeptStep ==
    ASSUME KeepsInv, DownloadNext, mode = 1, NEW n \in Plain, Exists(n), ~Downloading(n),
           ~Exists(Old[n]), edits' = edits
    PROVE  \E x \in Names : local'[x] = local[n]
  <1>1. SavedInv /\ Shape /\ DirFits /\ n \in Names /\ Old[n] \in Names /\ Old[n] # n
    BY NameFacts DEF KeepsInv, SavedInv, Shape
  <1>2. CASE local'[n] = local[n]
    BY <1>1, <1>2
  <1>3. CASE RenameLocal
    <2>1. /\ Entry.name \in Announced
          /\ local' = IF Exists(Old[Entry.name]) THEN local
                      ELSE [local EXCEPT ![Old[Entry.name]] = local[Entry.name],
                                         ![Entry.name] = NoFile]
      BY <1>1, <1>3, PlainEntry DEF RenameLocal
    <2>2. CASE n = Entry.name
      <3>1. local'[Old[n]] = local[n]
        BY <1>1, <2>1, <2>2 DEF Shape, DownloadTypes
      <3> QED
        BY <1>1, <3>1
    <2>3. CASE n # Entry.name
      <3>1. n # Old[Entry.name]
        BY <2>1, NameFacts
      <3>2. local'[n] = local[n]
        BY <1>1, <2>1, <2>3, <3>1 DEF Shape, DownloadTypes
      <3> QED
        BY <1>2, <3>2
    <2> QED
      BY <2>2, <2>3
  <1>4. CASE RemoveLocal
    <2>1. pc = "remove" /\ Entry = dir[at] /\ local' = [local EXCEPT ![Entry.name] = NoFile]
      BY <1>4 DEF RemoveLocal, Entry
    <2>2. n # Entry.name
      BY <2>1 DEF KeepsInv, MovedAside
    <2>3. local'[n] = local[n]
      BY <1>1, <2>1, <2>2 DEF Shape, DownloadTypes
    <2> QED
      BY <1>2, <2>3
  <1>5. CASE WritePush
    <2>1. n # push.name
      BY <1>5 DEF WritePush, KeepsInv, PlainPush
    <2> QED
      BY <1>1, <1>2, <1>5, <2>1, WriteShape
  <1>6. CASE ThreadStep /\ ~RenameLocal /\ ~RemoveLocal /\ ~WritePush
    <2>1. local' = local
      BY <1>6 DEF ThreadStep, ReadDirInfo, SkipEntry, KeepLocal, TakeOnline,
         CreateMeta, SendPull, Done, Starves, Hung, Returns, NegativePieceArrives,
         TruncateMeta, SaveAndLoad, InsertChunk, NextSync
    <2> QED
      BY <1>2, <2>1
  <1>7. CASE Arrives \/ Close \/ CloseInside \/ Stop \/ StopHung
    BY <1>2, <1>7 DEF Arrives, PieceArrives, PieceIsCut,
       PieceRunsOver, ShiftedPiece, EmptyPieceArrives, Receive, Close, Returns,
       CloseInside, Hung, Stop, StopHung
  <1>8. CASE \E m \in {1, 3} : Start(m)
    BY <1>2, <1>8 DEF Start
  <1>9. CASE \E x \in Announced, m \in Contents : UserEdits(x, m)
    <2>1. edits' = edits + 1
      BY <1>9 DEF UserEdits
    <2>2. edits \in Nat
      BY DEF KeepsInv, SavedInv, DownloadTypes
    <2> QED
      BY <2>1, <2>2
  <1>10. CASE \E x \in Announced, m \in Contents, t \in 1..MaxClock, r \in BOOLEAN :
                 RowChanges(x, m, t, r)
    BY <1>2, <1>10 DEF RowChanges
  <1> QED
    BY <1>3, <1>4, <1>5, <1>6, <1>7, <1>8, <1>9, <1>10 DEF DownloadNext

\* An initial session takes no version the user has away, as long as the name
\* it is moved to is free: it removes only what was moved, and writes only
\* into files under download.
THEOREM InitialKeepsLocalAlways == DownloadSpec => InitialKeepsLocal
  <1>1. DownloadSpec => []KeepsInv
    BY KeepsInit, KeepsNext, PTL DEF DownloadSpec
  <1>2. KeepsInv /\ [DownloadNext]_downloadVars =>
           [mode = 1 => \A n \in Plain :
              Exists(n) /\ ~Downloading(n) /\ ~Exists(Old[n]) /\ ~Downloading(Old[n])
                  /\ edits' = edits =>
                \E x \in Names : local'[x] = local[n]]_downloadVars
    BY KeptStep
  <1> QED
    BY <1>1, <1>2, PTL DEF DownloadSpec, InitialKeepsLocal

=============================================================================
