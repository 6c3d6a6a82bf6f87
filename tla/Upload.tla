------------------------------- MODULE Upload -------------------------------
(***************************************************************************)
(* One machine uploads a set of files in as many sessions as it takes.     *)
(* This is the data path that Receiver abstracts to a count of pieces: a   *)
(* session pulls the gaps of every incomplete row, the client cuts and     *)
(* groups them, the server inserts each piece it writes, and the           *)
(* connection may close after any piece.                                   *)
(***************************************************************************)
EXTENDS Chunks, FiniteSets

CONSTANTS
    Files,        \* the files of the folder
    Order,        \* the order of the DirInfo
    MaxLen        \* bound on a file's length

ASSUME FilesAssumption ==
    /\ Order \in Seq(Files)
    /\ \A i, j \in DOMAIN Order : Order[i] = Order[j] => i = j
    /\ {Order[i] : i \in DOMAIN Order} = Files
ASSUME MaxLenAssumption == MaxLen \in Nat \ {0}

VARIABLES
    length,       \* column len
    row,          \* column chunks
    done,         \* column complete
    cache,        \* chunks of the rows in fmap
    disk,         \* bytes written to the store file
    pushes        \* Pushes on the way; the first may be partly read

vars == <<length, row, done, cache, disk, pushes>>

Elements(s) == {s[i] : i \in DOMAIN s}

Entries == [name : Files, offset : 0..MaxLen, len : 1..MaxLen]

TypeOK ==
    /\ length \in [Files -> 1..MaxLen]
    /\ DOMAIN row = Files /\ DOMAIN cache = Files
    /\ \A n \in Files : \A c \in Elements(row[n]) \cup Elements(cache[n]) :
           c.offset \in 0..MaxLen /\ c.len \in 1..MaxLen
    /\ done \in [Files -> BOOLEAN]
    /\ disk \in [Files -> SUBSET (0..MaxLen - 1)]
    /\ \A i \in DOMAIN pushes : Elements(pushes[i]) \subseteq Entries

Init ==
    /\ length \in [Files -> 1..MaxLen]
    /\ row = [n \in Files |-> <<>>]
    /\ done = [n \in Files |-> FALSE]
    /\ cache = [n \in Files |-> <<>>]
    /\ disk = [n \in Files |-> {}]
    /\ pushes = <<>>

\* pullreq for the incomplete rows, in the order of the DirInfo.
Pull ==
    LET Lacks(n) ==
            LET Named(gap) == [name |-> n, offset |-> gap.offset, len |-> gap.len]
            IN  IF done[n] THEN <<>> ELSE Map(Named, PullGaps(row[n], length[n]))
    IN  Concat(Map(Lacks, Order))

\* A session up to the Pushes the client makes of the Pull.
Sync ==
    /\ pushes = <<>>
    /\ Pull # <<>>
    /\ cache' = row
    /\ pushes' = GroupPieces(Pull)
    /\ UNCHANGED <<length, row, done, disk>>

\* The Pushes without their first entry.
Rest ==
    IF Len(Head(pushes)) = 1 THEN Tail(pushes)
    ELSE <<Tail(Head(pushes))>> \o Tail(pushes)

\* One piece: writeToChunks, insertIntoChunks, completeFile or updateChunks.
Receive ==
    /\ pushes # <<>>
    /\ LET e == Head(Head(pushes))
           chunks == insertIntoChunks(cache[e.name], e.offset, e.len)
       IN  /\ disk' = [disk EXCEPT ![e.name] =
                          @ \cup (e.offset .. (e.offset + e.len - 1))]
           /\ IF IsFull(chunks, length[e.name])
              THEN /\ done' = [done EXCEPT ![e.name] = TRUE]
                   /\ row' = [row EXCEPT ![e.name] = <<>>]
                   /\ UNCHANGED cache
              ELSE /\ row' = [row EXCEPT ![e.name] = chunks]
                   /\ cache' = [cache EXCEPT ![e.name] = chunks]
                   /\ UNCHANGED done
    /\ pushes' = Rest
    /\ UNCHANGED length

\* The connection closes: what was on the way is lost.
Close ==
    /\ pushes # <<>>
    /\ pushes' = <<>>
    /\ UNCHANGED <<length, row, done, cache, disk>>

Next == Sync \/ Receive \/ Close

\* Of infinitely many sessions some get on before they are closed.
Spec == Init /\ [][Next]_vars
FairSpec == Spec /\ WF_vars(Sync) /\ SF_vars(Receive)

-----------------------------------------------------------------------------
\* The chunks of a row are the bytes on disk from the start of the file: at
\* most one chunk, with offset 0.  Receiver counts on it.
ChunksArePrefix ==
    \A n \in Files : ~done[n] =>
        \/ row[n] = <<>> /\ disk[n] = {}
        \/ \E k \in 1 .. length[n] - 1 :
               row[n] = <<Chunk(0, k)>> /\ disk[n] = 0 .. k - 1

\* insertIntoChunks reports a full file exactly when its last byte arrives.
DoneIffOnDisk ==
    \A n \in Files : done[n] <=> disk[n] = 0 .. length[n] - 1

\* What is on the way is what the files lack: each missing byte once, in
\* order, so resuming sends nothing twice and leaves nothing out; and no Push
\* carries more than MaxPushBytes, or nothing.
PushesAreMissing ==
    /\ pushes # <<>> => Stream(Concat(pushes)) = Stream(Pull)
    /\ \A i \in DOMAIN pushes :
           pushes[i] # <<>> /\ TotalLen(pushes[i]) <= MaxPushBytes

\* chunkify of the same Pull sends the same bytes in the same order, in
\* Pushes that are neither empty nor over the limit.
ChunkifyAgrees ==
    /\ Stream(Concat(chunkify(Pull))) = Stream(Pull)
    /\ \A push \in Elements(chunkify(Pull)) :
           push # <<>> /\ TotalLen(push) <= MaxPushBytes

\* Sessions that are cut short get every file across in the end.
AllArrive == <>[](\A n \in Files : done[n])

=============================================================================
