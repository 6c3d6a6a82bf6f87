------------------------------- MODULE Framing -------------------------------
(***************************************************************************)
(* One direction of a connection: messages made of a type line, a header   *)
(* that ends with NUL and binary data whose length the header tells, read  *)
(* with Readbuf (utility.h) and recv from a stream TCP may cut anywhere.   *)
(*                                                                         *)
(* A reader waits for one message after the other.  For some waits it      *)
(* makes a new Readbuf, and what the old one had read ahead is gone; some  *)
(* messages the peer sends only after an answer to the one before.         *)
(***************************************************************************)
EXTENDS Integers, SequencesExt

CONSTANTS
    N,            \* the size of a Readbuf
    Headers,      \* lengths of headers
    Payloads,     \* what may follow the header of a Push
    MaxMessages,  \* bound on the messages of a connection
    MaxTimeouts   \* bound on the times nothing comes for five seconds

ASSUME BufferAssumption == N \in Nat /\ N > 3 /\ MaxMessages \in Nat \ {0, 1}
ASSUME BytesAssumption ==
    /\ Headers \subseteq Nat \ {0} /\ MaxTimeouts \in Nat
    /\ \A d \in Payloads : d \in Seq(ToSet(d))

VARIABLES
    kind,         \* whose connection is read, and by whom
    msgs,         \* the messages the peer sends
    stream,       \* the bytes of those it has sent, one after the other
    ends,         \* where each of these ends
    arrived,      \* bytes of the stream that have arrived
    taken,        \* bytes recv has returned
    buf,          \* the Readbuf, from buf to t
    stage,        \* what the reader reads
    wait,         \* the waits so far, this one included
    type,         \* the type line of this wait
    acc,          \* msg or h.buffer: what has been put together so far
    got,          \* the messages delivered
    cut,          \* history: the waits that began by dropping bytes
    late,         \* history: a wait for a Pull failed
    timeouts

framingVars == <<kind, msgs, stream, ends, arrived, taken, buf, stage, wait,
                 type, acc, got, cut, late, timeouts>>

(* upload    client() and receiver() of the server: Tunnel, DirInfo, Push...
   download  ReceiverThread: DirInfo, Push..., done
   pulls     client() and senderInit() of the server: Tunnel, Pull
   ask       SenderThread: Pull                                            *)
ByClient == kind \in {"download", "ask"}

\* A message is never before its phase; only the last phase repeats.
Phases == CASE kind = "upload" -> 3 [] kind = "ask" -> 1 [] OTHER -> 2
Phase(i) == IF i < Phases THEN i ELSE Phases

Message == [header : Headers, data : Payloads]
Plain == [header : Headers, data : {<<>>}]
DoneMessage == [header |-> 0, data |-> <<>>]
IsDone(m) == m.header = 0

\* A byte: of a type line or header, a newline, NUL; data may be anything.
NL == <<"nl", 0>>
NUL == <<"nul", 0>>
TypeLine(i) == <<<<"type", i>>, NL>>
Header(i) == [j \in 1..msgs[i].header |-> <<"header", i>>]
Bytes(i) == IF IsDone(msgs[i]) THEN TypeLine(i)
            ELSE TypeLine(i) \o Header(i) \o <<NUL>> \o msgs[i].data

sentVars == <<kind, msgs, stream, ends>>
readerVars == <<taken, buf, stage, wait, type, acc, got, cut, late, timeouts>>

FramingTypeOK ==
    /\ \A i \in DOMAIN msgs : msgs[i] \in Message \cup Plain \cup {DoneMessage}
    /\ taken <= arrived /\ arrived <= Len(stream)
    /\ Len(buf) <= N
    /\ stage \in {"between", "again", "type", "header", "data", "rest", "failed"}
    /\ wait \in Len(got) .. Len(got) + 1
    /\ cut \subseteq 1..wait
    /\ late \in BOOLEAN
    /\ timeouts \in 0..MaxTimeouts

Pushes(k) == UNION {[1..j -> Message] : j \in 0..k}

FramingInit ==
    /\ \/ /\ kind = "upload"
          /\ \E s \in [1..2 -> Plain], p \in Pushes(MaxMessages - 2) : msgs = s \o p
       \/ /\ kind = "download"
          /\ \E s \in [1..1 -> Plain], p \in Pushes(MaxMessages - 2) :
                msgs = s \o p \o <<DoneMessage>>
       \/ kind = "pulls" /\ msgs \in [1..2 -> Plain]
       \/ kind = "ask" /\ msgs \in [1..1 -> Plain]
    /\ stream = <<>> /\ ends = <<>>
    /\ arrived = 0 /\ taken = 0 /\ buf = <<>> /\ stage = "between" /\ wait = 0
    /\ type = <<>> /\ acc = <<>> /\ got = <<>>
    /\ cut = {} /\ late = FALSE /\ timeouts = 0

-----------------------------------------------------------------------------
(* The stream *)

\* A Push is sent once the DirInfo was answered by a Pull, a Pull once the
\* Tunnel was answered by a DirInfo; the DirInfo of an upload answers nothing.
AnswersTo(i) == kind # "ask" /\ i = Phases

Delivered(i) == \E g \in DOMAIN got : got[g].msg = i

\* The peer sends the next message; that it waits until all of the last one
\* has arrived excludes nothing, as what has arrived need not be read yet.
Send ==
    LET i == Len(ends) + 1
    IN  /\ i \in DOMAIN msgs /\ arrived = Len(stream)
        /\ AnswersTo(i) => Delivered(i - 1)
        /\ stream' = stream \o Bytes(i)
        /\ ends' = Append(ends, Len(stream'))
        /\ UNCHANGED <<kind, msgs, arrived, readerVars>>

Arrive(n) ==
    /\ arrived' = n
    /\ UNCHANGED <<sentVars, readerVars>>

Peer == Send \/ \E n \in arrived + 1 .. Len(stream) : Arrive(n)

-----------------------------------------------------------------------------
(* The reader *)

Here == UNCHANGED <<sentVars, arrived, wait, timeouts>>

\* A slip: a buffer for every Push, as in the client.
NewBufferEach(w) == TRUE

\* receiver() keeps the buffer it made for the DirInfo.
NewBuffer(w) == kind = "upload" => w <= 2

\* DHeader::read, waitDirInfo, waitPull or waitPush is called (again).
Begin ==
    /\ stage \in {"between", "again"}
    /\ wait' = IF stage = "again" THEN wait ELSE wait + 1
    /\ stage' = "type" /\ type' = <<>> /\ acc' = <<>>
    /\ IF NewBuffer(wait')
       THEN buf' = <<>> /\ cut' = IF buf = <<>> THEN cut ELSE cut \cup {wait'}
       ELSE UNCHANGED <<buf, cut>>
    /\ UNCHANGED <<sentVars, arrived, taken, got, late, timeouts>>

Det == IF stage = "type" THEN NL ELSE NUL
InLine == stage \in {"type", "header"}

\* A slip: recv is called although the line is in the buffer.
FoundLate == Len(buf) >= N \div 2 /\ Det \in ToSet(buf)

\* readto scans what is left in the buffer, then what recv has added.
Found == Det \in ToSet(buf)

\* Half a buffer without the character looked for is returned as it is.
Crowded == Len(buf) >= N \div 2

\* A slip: the room of an empty buffer.
RoomOfEmpty == N

Room == N - Len(buf)

Recv ==
    LET n == IF Room < arrived - taken THEN Room ELSE arrived - taken
    IN  /\ InLine /\ ~Found /\ ~Crowded /\ n > 0
        /\ buf' = buf \o SubSeq(stream, taken + 1, taken + n)
        /\ taken' = taken + n
        /\ UNCHANGED <<stage, type, acc, got, cut, late>> /\ Here

FirstOf(s, c) == SelectInSeq(s, LAMBDA d : d = c)

\* msg += buf takes a C string.
CString(s) == IF NUL \in ToSet(s) THEN SubSeq(s, 1, FirstOf(s, NUL) - 1) ELSE s

Part == IF Found THEN SubSeq(buf, 1, FirstOf(buf, Det)) ELSE buf
ReadTo == buf' = SubSeq(buf, Len(Part) + 1, Len(buf))

AppendPart ==
    /\ InLine /\ ~Found /\ Crowded
    /\ ReadTo
    /\ acc' = acc \o CString(Part)
    /\ UNCHANGED <<taken, stage, type, got, cut, late>> /\ Here

\* The message whose type line this is, if a wait of this phase expects it.
Expected(line) ==
    {i \in DOMAIN msgs : line = TypeLine(i) /\ Phase(i) = Phase(wait)}

Deliver(i, data) ==
    /\ got' = Append(got, [msg |-> i, data |-> data])
    /\ stage' = "between"

\* SenderThread calls waitPull again, on the same connection.
Fail ==
    /\ stage' = IF kind = "ask" THEN "again" ELSE "failed"
    /\ late' = (kind = "ask")
    /\ UNCHANGED got

\* The client looks at the type at once, the server after the header.
EndTypeLine ==
    LET line == acc \o CString(Part)
        m == Expected(line)
    IN  /\ stage = "type" /\ Found
        /\ ReadTo
        /\ type' = line /\ acc' = <<>>
        /\ \/ /\ ByClient /\ m = {} /\ Fail
           \/ /\ \E i \in m : IsDone(msgs[i]) /\ Deliver(i, <<>>)
              /\ UNCHANGED late
           \/ /\ ~ByClient \/ \E i \in m : ~IsDone(msgs[i])
              /\ stage' = "header" /\ UNCHANGED <<got, late>>
        /\ UNCHANGED <<taken, cut>> /\ Here

EndHeader ==
    LET line == acc \o CString(Part)
        m == {i \in Expected(type) : line = Header(i)}
    IN  /\ stage = "header" /\ Found
        /\ ReadTo
        /\ acc' = <<>>
        /\ \/ m = {} /\ Fail
           \/ m # {} /\ stage' = "data" /\ UNCHANGED <<got, late>>
        /\ UNCHANGED <<taken, type, cut>> /\ Here

Msg == CHOOSE i \in Expected(type) : TRUE

\* A slip: what the buffer had does not count.
LeftAll == Len(msgs[Msg].data)

Left == Len(msgs[Msg].data) - Len(acc)

\* readn: the data is in the buffer, or what there is of it is copied and the
\* rest comes from ::readn, past the buffer.
DataInBuffer ==
    /\ stage = "data" /\ Len(buf) >= Left
    /\ buf' = SubSeq(buf, Left + 1, Len(buf))
    /\ Deliver(Msg, SubSeq(buf, 1, Left))
    /\ UNCHANGED <<taken, type, acc, cut, late>> /\ Here

DataBegins ==
    /\ stage = "data" /\ Len(buf) < Left
    /\ acc' = buf /\ buf' = <<>>
    /\ stage' = "rest"
    /\ UNCHANGED <<taken, type, got, cut, late>> /\ Here

\* recv returns what there is, and no more than it is asked for.
RestSize == IF Left < arrived - taken THEN Left ELSE arrived - taken

DataRest ==
    /\ stage = "rest" /\ RestSize > 0
    /\ taken' = taken + RestSize
    /\ acc' = acc \o SubSeq(stream, taken + 1, taken + RestSize)
    /\ IF RestSize = Left THEN Deliver(Msg, acc') ELSE UNCHANGED <<stage, got>>
    /\ UNCHANGED <<buf, type, cut, late>> /\ Here

\* blockt finds nothing for five seconds; the server's buffers block.
Timeout ==
    /\ ByClient /\ timeouts < MaxTimeouts
    /\ timeouts' = timeouts + 1
    /\ InLine /\ ~Found /\ ~Crowded /\ arrived = taken
    /\ Fail
    /\ UNCHANGED <<sentVars, arrived, wait, taken, buf, type, acc, cut>>

Read == \/ Begin \/ Recv \/ AppendPart \/ EndTypeLine \/ EndHeader
        \/ DataInBuffer \/ DataBegins \/ DataRest

FramingNext == Read \/ Timeout \/ Peer

\* The peer sends and TCP delivers what is sent, and the reader runs.
FramingSpec ==
    /\ FramingInit /\ [][FramingNext]_framingVars
    /\ WF_framingVars(Read)
    /\ WF_framingVars(Peer)

-----------------------------------------------------------------------------
(* Properties *)

\* No data holds what a type line begins with.
PlainData == \A i, j \in DOMAIN msgs : <<"type", j>> \notin ToSet(msgs[i].data)

\* However the stream is cut, what is delivered is what was sent, whole, each
\* message once and in order: whatever bytes the data is made of as long as
\* nothing was dropped, and after that if none of it looks like a type line.
DeliversWhole ==
    \A h \in DOMAIN got : cut \cap 1..h = {} \/ PlainData =>
        /\ got[h].data = msgs[got[h].msg].data
        /\ \A g \in 1 .. h - 1 : got[g].msg < got[h].msg

\* Bytes read ahead are dropped in three places only: between the Tunnel and
\* the DirInfo of an upload; after a Push to the client all of whose data
\* was read ahead, which is less than a buffer; when waitPull is repeated.
DropsOnlyReadAhead ==
    \A w \in cut :
        \/ kind = "upload" /\ w = 2
        \/ /\ kind = "download" /\ w > 2
           /\ Len(msgs[got[w - 1].msg].data) < N
        \/ kind = "ask" /\ late

\* Otherwise every message sent is delivered, unless the client gives up.
AllDelivered == <>(cut # {} \/ timeouts > 0 \/ Len(got) = Len(msgs))

=============================================================================
