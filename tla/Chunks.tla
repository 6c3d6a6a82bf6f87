------------------------------- MODULE Chunks -------------------------------
(***************************************************************************)
(* The arithmetic of an upload, in bytes: lists of chunks, the gaps a Pull *)
(* asks for, the pieces a client reads and the Pushes it groups them in,   *)
(* and the way chunkify of the server cuts and groups the Pulls of a       *)
(* client.                                                                 *)
(***************************************************************************)
EXTENDS Integers, Sequences

CONSTANT MaxPushBytes   \* 1024 * 1024 on both sides

ASSUME MaxPushBytesAssumption == MaxPushBytes \in Nat \ {0}

Chunk(o, l) == [offset |-> o, len |-> l]

\* A loop of the code over a list: step takes what the turns before it left
\* and the next element.  Binding the earlier value with CHOOSE lets TLC
\* compute it once per turn.
Loop(step(_, _), start, s) ==
    LET after[i \in 0..Len(s)] ==
            IF i = 0 THEN start
            ELSE CHOOSE v \in {step(u, s[i]) : u \in {after[i - 1]}} : TRUE
    IN  after[Len(s)]

Map(f(_), s) == [i \in DOMAIN s |-> f(s[i])]

Concat(lists) == Loop(\o, <<>>, lists)

Minimum(x, y) == IF x < y THEN x ELSE y

-----------------------------------------------------------------------------
(* Server, receiving *)

\* sort on pairs: by offset, then by the second component.
Before(x, y) == x.offset < y.offset \/ (x.offset = y.offset /\ x.len < y.len)

\* sort of the chunks in that order: p[i] is the place of the i-th.
Sorted(s) ==
    LET p == CHOOSE q \in [DOMAIN s -> DOMAIN s] :
                 /\ \A i, j \in DOMAIN s : i # j => q[i] # q[j]
                 /\ \A i, j \in DOMAIN s : i < j => ~Before(s[q[j]], s[q[i]])
    IN  [i \in DOMAIN s |-> s[p[i]]]

\* A slip: chunks that touch are not merged.
MergeApart(run, c) ==
    IF c.offset < run.tail
    THEN [run EXCEPT !.tail = c.offset + c.len]
    ELSE [out |-> Append(run.out, Chunk(run.head, run.tail)),
          head |-> c.offset, tail |-> c.offset + c.len]

\* One turn of the merge loop.  "len" of a result is the END of the run, and
\* a new run starts with its length where its end belongs, as in the code.
MergeNext(run, c) ==
    IF c.offset <= run.tail
    THEN [run EXCEPT !.tail = c.offset + c.len]
    ELSE [out |-> Append(run.out, Chunk(run.head, run.tail)),
          head |-> c.offset, tail |-> c.len]

insertIntoChunks(chunks, o, l) ==
    LET vc == Sorted(Append(chunks, Chunk(o, l)))
        first == [out |-> <<>>, head |-> vc[1].offset,
                  tail |-> vc[1].offset + vc[1].len]
        run == Loop(MergeNext, first, Tail(vc))
    IN  Append(run.out, Chunk(run.head, run.tail))

\* Slips: any single chunk at the start is taken for the whole file; the end
\* is expected one byte late.
IsFullAtStart(chunks, totlen) == Len(chunks) = 1 /\ chunks[1].offset = 0
IsFullLate(chunks, totlen) == chunks = <<Chunk(0, totlen + 1)>>

\* The value insertIntoChunks returns.
IsFull(chunks, totlen) == chunks = <<Chunk(0, totlen)>>

\* The loop of receiver() that turns a row's chunks into pullreq entries.
PullGaps(chunks, total) ==
    LET Turn(s, c) ==
            IF s.at >= total THEN s
            ELSE [at |-> c.offset + c.len,
                  gaps |-> IF s.at < c.offset
                           THEN Append(s.gaps, Chunk(s.at, c.offset - s.at))
                           ELSE s.gaps]
        end == Loop(Turn, [at |-> 0, gaps |-> <<>>], chunks)
    IN  IF end.at < total THEN Append(end.gaps, Chunk(end.at, total - end.at))
        ELSE end.gaps

-----------------------------------------------------------------------------
(* Cutting an entry [name, offset, len] into parts of at most MaxPushBytes *)

Parts(e) ==
    [i \in 1 .. (e.len + MaxPushBytes - 1) \div MaxPushBytes |->
        LET o == (i - 1) * MaxPushBytes
        IN  [e EXCEPT !.offset = e.offset + o,
                      !.len = Minimum(MaxPushBytes, e.len - o)]]

\* LocalFileReader::generatePushReqEntry of the client.
generatePushReqEntry(e) == Parts(e)

\* A list of Pushes under construction: the open one and its bytes.
NoPush == [pushes |-> <<>>, push |-> <<>>, bytes |-> 0]
Flush(s) == [pushes |-> Append(s.pushes, s.push), push |-> <<>>, bytes |-> 0]
Put(s, e) == [s EXCEPT !.push = Append(@, e), !.bytes = @ + e.len]

\* SenderThread::sync: a piece that does not fit closes the Push.
GroupPiece(s, e) ==
    IF s.bytes + e.len > MaxPushBytes THEN Put(Flush(s), e) ELSE Put(s, e)

\* A slip: the last Push is not sent.
GroupPiecesNoLast(pull) ==
    Loop(GroupPiece, NoPush, Concat(Map(generatePushReqEntry, pull))).pushes

GroupPieces(pull) ==
    LET pieces == Concat(Map(generatePushReqEntry, pull))
        s == Loop(GroupPiece, NoPush, pieces)
    IN  IF s.bytes > 0 THEN Flush(s).pushes ELSE s.pushes

\* A slip: an entry that is split drops the Push that was open.
ChunkifyDrop(s, e) ==
    LET Alone(part) == <<part>>
    IN  IF e.len >= MaxPushBytes
        THEN [pushes |-> s.pushes \o Map(Alone, Parts(e)),
              push |-> <<>>, bytes |-> 0]
        ELSE Put(IF e.len + s.bytes >= MaxPushBytes THEN Flush(s) ELSE s, e)

\* chunkify of the server: an entry that does not fit closes the Push; an
\* entry of MaxPushBytes or more then makes Pushes of its own.
ChunkifyEntry(s, e) ==
    LET t == IF e.len + s.bytes >= MaxPushBytes /\ s.bytes # 0 THEN Flush(s) ELSE s
        Alone(part) == <<part>>
    IN  IF e.len >= MaxPushBytes
        THEN [pushes |-> t.pushes \o Map(Alone, Parts(e)),
              push |-> <<>>, bytes |-> 0]
        ELSE Put(t, e)

chunkify(pull) ==
    LET s == Loop(ChunkifyEntry, NoPush, pull)
    IN  IF s.push # <<>> THEN Flush(s).pushes ELSE s.pushes

-----------------------------------------------------------------------------
(* Reference definitions *)

\* The places of an entry's bytes, and of a list of entries in order.
BytesOf(e) == [i \in 1..e.len |-> <<e.name, e.offset + i - 1>>]
Stream(entries) == Concat(Map(BytesOf, entries))

TotalLen(push) == Loop(LAMBDA n, e : n + e.len, 0, push)

=============================================================================
