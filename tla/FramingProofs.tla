--------------------------- MODULE FramingProofs ---------------------------
(***************************************************************************)
(* The safety properties of Framing for any size of the buffer, any        *)
(* messages and any way the stream is cut.                                 *)
(*                                                                         *)
(* The stream is laid out message after message (StreamOK), and the buffer *)
(* holds what recv took of it last (BufferOK), whether or not bytes were   *)
(* dropped.  The reader is in step with the stream (Sync): as long as      *)
(* nothing was dropped because every wait begins where the last message    *)
(* ended, and afterwards, if no data looks like a type line, because a     *)
(* type line is found only where a message begins.                         *)
(***************************************************************************)
EXTENDS Framing, SequenceTheorems, WellFoundedInduction, TLAPS

Byte == {NL, NUL} \cup {<<"type", i>> : i \in Nat} \cup {<<"header", i>> : i \in Nat}
            \cup UNION {ToSet(d) : d \in Payloads}

\* Where a message begins, and where its data does.
Start(i) == IF i = 1 THEN 0 ELSE ends[i - 1]
DataAt(i) == Start(i) + 3 + msgs[i].header

\* The bytes of the stream the reader has used.
Pos == taken - Len(buf)

MessagesOK ==
    /\ kind \in {"upload", "download", "pulls", "ask"}
    /\ Len(msgs) \in Nat /\ DOMAIN msgs = 1..Len(msgs)
    /\ \A i \in DOMAIN msgs :
          /\ msgs[i] \in Message \cup Plain \cup {DoneMessage}
          /\ msgs[i].header \in Nat /\ msgs[i].data \in Seq(Byte)
          /\ IsDone(msgs[i]) => msgs[i].data = <<>> /\ kind = "download"
    /\ kind \in {"pulls", "ask"} =>
          /\ Len(msgs) <= Phases
          /\ \A i \in DOMAIN msgs : msgs[i].data = <<>>
    /\ Len(msgs) <= MaxMessages

Layout(i) ==
    /\ stream[Start(i) + 1] = <<"type", i>> /\ stream[Start(i) + 2] = NL
    /\ IsDone(msgs[i]) => ends[i] = Start(i) + 2
    /\ ~IsDone(msgs[i]) =>
          /\ ends[i] = DataAt(i) + Len(msgs[i].data)
          /\ \A k \in 1..msgs[i].header : stream[Start(i) + 2 + k] = <<"header", i>>
          /\ stream[DataAt(i)] = NUL
          /\ \A k \in 1..Len(msgs[i].data) : stream[DataAt(i) + k] = msgs[i].data[k]

StreamOK ==
    /\ stream \in Seq(Byte) /\ ends \in Seq(Nat) /\ Len(ends) <= Len(msgs)
    /\ Len(stream) = Start(Len(ends) + 1)
    /\ \A i \in 1..Len(ends) : Layout(i)
    /\ \A i, j \in 1..Len(ends) : i < j => ends[i] <= Start(j)
    /\ PlainData =>
          \A p \in 1..Len(stream), j \in DOMAIN msgs :
              stream[p] = <<"type", j>> => j <= Len(ends) /\ p = Start(j) + 1

BufferOK ==
    /\ buf \in Seq(Byte) /\ taken \in Nat /\ arrived \in Nat
    /\ Len(buf) <= taken /\ taken <= arrived /\ arrived <= Len(stream)
    /\ Len(buf) <= N
    /\ \A k \in 1..Len(buf) : buf[k] = stream[Pos + k]

ReaderTypes ==
    /\ stage \in {"between", "again", "type", "header", "data", "rest", "failed"}
    /\ type \in Seq(Byte) /\ acc \in Seq(Byte)
    /\ got \in Seq([msg : Nat, data : Seq(Byte)])
    /\ \A g \in DOMAIN got : got[g].msg \in DOMAIN msgs
    /\ late \in BOOLEAN /\ timeouts \in 0..MaxTimeouts
    /\ wait = (IF stage = "between" THEN Len(got) ELSE Len(got) + 1)
    /\ cut \subseteq 1..wait
    /\ stage = "again" => kind = "ask" /\ late
    /\ stage \in {"data", "rest"} => Expected(type) # {}
    /\ stage = "data" => acc = <<>>
    /\ stage = "rest" => buf = <<>> /\ Len(acc) < Len(msgs[Msg].data)
    /\ stage = "between" /\ buf # <<>> =>
          wait > 0 /\ Len(msgs[got[wait].msg].data) < N

\* The Tunnel and the DirInfo of a download come alone.
FirstAlone ==
    kind \in {"download", "pulls"} =>
        /\ got = <<>> => Len(ends) <= 1
        /\ wait <= 1 => taken <= (IF ends = <<>> THEN 0 ELSE ends[1])

Reliable(w) == cut \cap 1..w = {} /\ kind # "ask"
InStep == Reliable(wait) \/ PlainData

\* The message the reader is in.
In(i) ==
    /\ i <= Len(ends) /\ ~IsDone(msgs[i])
    /\ Reliable(wait) => i = wait
    /\ \A g \in DOMAIN got : got[g].msg < i

Sync ==
    /\ InStep => \A g \in DOMAIN got : got[g].msg <= Len(ends) /\ ends[got[g].msg] <= Pos
    /\ Reliable(wait) => \A g \in DOMAIN got : got[g].msg = g
    /\ stage = "between" /\ Reliable(wait) => Pos = Start(wait + 1)
    /\ stage = "type" =>
          /\ Reliable(wait) => acc = <<>> /\ Pos = Start(wait)
          /\ PlainData => /\ NL \notin ToSet(acc)
                          /\ \A i \in DOMAIN msgs : acc # <<<<"type", i>>>>
    /\ stage = "header" /\ InStep =>
          \A i \in Expected(type) :
              /\ In(i) /\ Pos = Start(i) + 2 + Len(acc) /\ Len(acc) <= msgs[i].header
              /\ \A k \in 1..Len(acc) : acc[k] = <<"header", i>>
    /\ stage = "data" /\ InStep => \A i \in Expected(type) : In(i) /\ Pos = DataAt(i)
    /\ stage = "rest" /\ InStep =>
          \A i \in Expected(type) :
              /\ In(i) /\ taken = DataAt(i) + Len(acc)
              /\ \A k \in 1..Len(acc) : acc[k] = msgs[i].data[k]

\* What was delivered while the reader was in step.
DeliveredOK ==
    \A h \in DOMAIN got : Reliable(h) \/ PlainData =>
        /\ got[h].data = msgs[got[h].msg].data
        /\ \A g \in 1 .. h - 1 : got[g].msg < got[h].msg

FramingInv ==
    /\ MessagesOK /\ StreamOK /\ BufferOK /\ ReaderTypes /\ FirstAlone
    /\ DropsOnlyReadAhead /\ Sync /\ DeliveredOK

-----------------------------------------------------------------------------
(* Bytes and lines *)

LEMMA DifferentBytes ==
    /\ NL # NUL
    /\ \A i \in Nat : <<"type", i>> # NL /\ <<"type", i>> # NUL
    /\ \A i \in Nat : <<"header", i>> # NL /\ <<"header", i>> # NUL
    /\ \A i, j \in Nat : <<"type", i>> # <<"header", j>>
    /\ \A i, j \in Nat : <<"type", i>> = <<"type", j>> => i = j
  BY DEF NL, NUL

LEMMA KnownBytes ==
    /\ NL \in Byte /\ NUL \in Byte
    /\ \A i \in Nat : <<"type", i>> \in Byte /\ <<"header", i>> \in Byte
  BY DEF Byte

LEMMA TypeLineFacts ==
    ASSUME NEW i \in Nat
    PROVE  /\ TypeLine(i) \in Seq(Byte) /\ Len(TypeLine(i)) = 2
           /\ TypeLine(i)[1] = <<"type", i>> /\ TypeLine(i)[2] = NL
  <1>1. \A x, y \in Byte :
            <<x, y>> \in Seq(Byte) /\ Len(<<x, y>>) = 2 /\ <<x, y>>[1] = x /\ <<x, y>>[2] = y
    OBVIOUS
  <1> QED
    BY <1>1, KnownBytes DEF TypeLine

LEMMA OneExpected ==
    ASSUME MessagesOK, NEW line, NEW i \in Expected(line), NEW j \in Expected(line)
    PROVE  i = j
  <1>1. i \in Nat /\ j \in Nat /\ TypeLine(i) = TypeLine(j)
    BY DEF Expected, MessagesOK
  <1>2. <<"type", i>> = <<"type", j>>
    BY <1>1, TypeLineFacts
  <1> QED
    BY <1>1, <1>2, DifferentBytes

LEMMA MsgExpected ==
    ASSUME MessagesOK, Expected(type) # {}
    PROVE  Msg \in Expected(type) /\ Msg \in DOMAIN msgs
  BY DEF Msg, Expected

-----------------------------------------------------------------------------
(* The first of a byte in a list, and the parts of a buffer *)

LEMMA LeastExists ==
    ASSUME NEW I, I \subseteq Nat, I # {}
    PROVE  \E i \in I : \A j \in I : i <= j
  <1> DEFINE R == OpToRel(<, Nat)
  <1>1. IsWellFoundedOn(R, Nat)
    BY NatLessThanWellFounded
  <1>2. PICK x \in I : \A y \in I : ~(<<y, x>> \in R)
    <2> HIDE DEF R
    <2> QED
      BY <1>1, WFMin
  <1>3. \A y \in I : ~(y < x)
    BY <1>2 DEF OpToRel
  <1>4. x \in Nat /\ \A y \in I : x <= y
    <2> HIDE DEF R
    <2> QED
      BY <1>3
  <1> QED
    BY <1>4

LEMMA FirstOfFacts ==
    ASSUME NEW s \in Seq(Byte), NEW c, c \in ToSet(s)
    PROVE  /\ FirstOf(s, c) \in 1..Len(s) /\ s[FirstOf(s, c)] = c
           /\ \A k \in 1 .. FirstOf(s, c) - 1 : s[k] # c
  <1> DEFINE I == {i \in 1..Len(s) : s[i] = c}
  <1>1. FirstOf(s, c) = IF I # {} THEN Min(I) ELSE 0
    BY DEF FirstOf, SelectInSeq
  <1>2. I # {} /\ I \subseteq Nat
    BY DEF ToSet
  <1>3. \E i \in I : \A j \in I : i <= j
    <2> HIDE DEF I
    <2> QED
      BY <1>2, LeastExists
  <1>4. Min(I) \in I /\ \A j \in I : Min(I) <= j
    BY <1>3 DEF Min
  <1>5. FirstOf(s, c) \in I /\ \A j \in I : FirstOf(s, c) <= j
    BY <1>1, <1>2, <1>4
  <1>6. /\ FirstOf(s, c) \in 1..Len(s) /\ s[FirstOf(s, c)] = c
        /\ \A j \in 1..Len(s) : s[j] = c => FirstOf(s, c) <= j
    BY <1>5
  <1> HIDE DEF I
  <1> QED
    BY <1>6

\* A prefix of a list, and what is left of it.
LEMMA CutFacts ==
    ASSUME NEW s \in Seq(Byte), NEW n \in 0..Len(s)
    PROVE  /\ SubSeq(s, 1, n) \in Seq(Byte) /\ Len(SubSeq(s, 1, n)) = n
           /\ \A k \in 1..n : SubSeq(s, 1, n)[k] = s[k]
           /\ SubSeq(s, n + 1, Len(s)) \in Seq(Byte)
           /\ Len(SubSeq(s, n + 1, Len(s))) = Len(s) - n
           /\ \A k \in 1 .. Len(s) - n : SubSeq(s, n + 1, Len(s))[k] = s[n + k]
  <1>1. \A i \in 1..Len(s) : s[i] \in Byte
    OBVIOUS
  <1> QED
    BY <1>1, SubSeqProperties

LEMMA CStringFacts ==
    ASSUME NEW s \in Seq(Byte)
    PROVE  /\ CString(s) \in Seq(Byte) /\ Len(CString(s)) <= Len(s)
           /\ \A k \in 1..Len(CString(s)) : CString(s)[k] = s[k] /\ s[k] # NUL
           /\ \/ Len(CString(s)) = Len(s)
              \/ s[Len(CString(s)) + 1] = NUL
           /\ NUL \notin ToSet(s) => CString(s) = s
  <1>1. CASE NUL \notin ToSet(s)
    BY <1>1 DEF CString, ToSet
  <1>2. CASE NUL \in ToSet(s)
    <2> DEFINE n == FirstOf(s, NUL) - 1
    <2>1. n \in 0..Len(s) /\ n + 1 \in 1..Len(s) /\ s[n + 1] = NUL
          /\ \A k \in 1..n : s[k] # NUL
      BY <1>2, FirstOfFacts
    <2>2. CString(s) = SubSeq(s, 1, n)
      BY <1>2 DEF CString
    <2> HIDE DEF n
    <2> QED
      BY <1>2, <2>1, <2>2, CutFacts
  <1> QED
    BY <1>1, <1>2

LEMMA PartFacts ==
    ASSUME buf \in Seq(Byte)
    PROVE  /\ Part \in Seq(Byte) /\ Len(Part) \in 0..Len(buf)
           /\ \A k \in 1..Len(Part) : Part[k] = buf[k]
           /\ Found => /\ Len(Part) > 0 /\ Part[Len(Part)] = Det
                       /\ \A k \in 1 .. Len(Part) - 1 : buf[k] # Det
           /\ ~Found => Part = buf
  <1>1. CASE Found
    <2> DEFINE n == FirstOf(buf, Det)
    <2>1. n \in 1..Len(buf) /\ buf[n] = Det /\ \A k \in 1 .. n - 1 : buf[k] # Det
      BY <1>1, FirstOfFacts DEF Found
    <2>2. Part = SubSeq(buf, 1, n)
      BY <1>1 DEF Part
    <2> HIDE DEF n
    <2> QED
      BY <1>1, <2>1, <2>2, CutFacts
  <1>2. CASE ~Found
    BY <1>2 DEF Part
  <1> QED
    BY <1>1, <1>2

\* Two lists joined.
LEMMA JoinFacts ==
    ASSUME NEW s \in Seq(Byte), NEW t \in Seq(Byte)
    PROVE  /\ s \o t \in Seq(Byte) /\ Len(s \o t) = Len(s) + Len(t)
           /\ \A k \in 1..Len(s) : (s \o t)[k] = s[k]
           /\ \A k \in 1..Len(t) : (s \o t)[Len(s) + k] = t[k]
  BY ConcatProperties

LEMMA SameList ==
    ASSUME NEW s \in Seq(Byte), NEW t \in Seq(Byte), Len(s) = Len(t),
           \A k \in 1..Len(s) : s[k] = t[k]
    PROVE  s = t
  BY SeqEqual

-----------------------------------------------------------------------------
(* Messages *)

LEMMA MessageFacts ==
    ASSUME NEW m \in Message \cup Plain \cup {DoneMessage}
    PROVE  /\ m.header \in Nat /\ m.data \in Seq(Byte)
           /\ IsDone(m) => m = DoneMessage /\ m.data = <<>>
           /\ m \in Plain => m.data = <<>>
  <1>1. \A d \in Payloads : d \in Seq(Byte)
    <2> SUFFICES ASSUME NEW d \in Payloads PROVE d \in Seq(Byte)
      OBVIOUS
    <2>1. d \in Seq(ToSet(d)) /\ ToSet(d) \subseteq Byte
      BY BytesAssumption DEF Byte
    <2> QED
      BY <2>1
  <1>2. CASE m \in Message
    BY <1>1, <1>2, BytesAssumption DEF Message, Plain, IsDone
  <1>3. CASE m \in Plain
    <2>1. <<>> \in Seq(Byte)
      OBVIOUS
    <2> QED
      BY <1>3, <2>1, BytesAssumption DEF Plain, IsDone
  <1>4. CASE m = DoneMessage
    <2>1. m.header = 0 /\ m.data = <<>> /\ <<>> \in Seq(Byte)
      BY <1>4 DEF DoneMessage
    <2> QED
      BY <1>4, <2>1, BytesAssumption DEF Plain
  <1> QED
    BY <1>2, <1>3, <1>4

LEMMA ListOf ==
    ASSUME NEW S, NEW T, S \subseteq T, NEW n \in Nat, NEW s \in [1..n -> S]
    PROVE  s \in Seq(T) /\ Len(s) = n
  <1>1. s \in Seq(S)
    BY SeqDef
  <1> QED
    BY <1>1, SeqMonotonic, LenProperties

LEMMA PlainMessages ==
    ASSUME NEW s, \A i \in DOMAIN s : s[i] \in Plain, NEW i \in DOMAIN s
    PROVE  ~IsDone(s[i]) /\ s[i].data = <<>>
  BY BytesAssumption DEF Plain, IsDone

LEMMA InitMessages == FramingInit => MessagesOK
  <1> SUFFICES ASSUME FramingInit PROVE MessagesOK
    OBVIOUS
  <1> USE BufferAssumption
  <1>0. Plain \subseteq Message \cup Plain \cup {DoneMessage}
    OBVIOUS
  <1>1. SUFFICES
          /\ kind \in {"upload", "download", "pulls", "ask"}
          /\ Len(msgs) \in Nat /\ DOMAIN msgs = 1..Len(msgs) /\ Len(msgs) <= MaxMessages
          /\ \A i \in DOMAIN msgs :
                /\ msgs[i] \in Message \cup Plain \cup {DoneMessage}
                /\ kind # "download" => msgs[i] # DoneMessage
          /\ kind \in {"pulls", "ask"} =>
                /\ Len(msgs) <= Phases
                /\ \A i \in DOMAIN msgs : msgs[i].data = <<>>
    BY MessageFacts DEF MessagesOK
  <1>a. \A m \in Message \cup Plain : m # DoneMessage
    BY BytesAssumption DEF Message, Plain, DoneMessage
  <1>b. ASSUME NEW p \in Pushes(MaxMessages - 2)
        PROVE  \E b \in 0 .. MaxMessages - 2 : p \in [1..b -> Message]
    BY <1>b DEF Pushes
  <1>2. CASE /\ kind = "upload"
             /\ \E s \in [1..2 -> Plain], p \in Pushes(MaxMessages - 2) : msgs = s \o p
    <2>1. PICK s \in [1..2 -> Plain], p \in Pushes(MaxMessages - 2) : msgs = s \o p
      BY <1>2
    <2>2. PICK b \in 0 .. MaxMessages - 2 : p \in [1..b -> Message]
      BY <1>b
    <2> DEFINE All == Message \cup Plain
    <2>3. s \in Seq(All) /\ Len(s) = 2
      <3>1. 2 \in Nat /\ Plain \subseteq All
        OBVIOUS
      <3> QED
        BY <3>1, ListOf
    <2>4. p \in Seq(All) /\ Len(p) = b
      <3>1. b \in Nat /\ Message \subseteq All
        OBVIOUS
      <3> QED
        BY <2>2, <3>1, ListOf
    <2> HIDE DEF All
    <2>5. msgs \in Seq(All) /\ Len(msgs) = 2 + b
      BY <2>1, <2>3, <2>4, ConcatProperties
    <2>6. DOMAIN msgs = 1..Len(msgs) /\ \A i \in 1..Len(msgs) : msgs[i] \in All
      BY <2>5, LenProperties, ElementOfSeq
    <2> QED
      BY <1>2, <1>a, <2>2, <2>5, <2>6 DEF All
  <1>3. CASE /\ kind = "download"
             /\ \E s \in [1..1 -> Plain], p \in Pushes(MaxMessages - 2) :
                   msgs = s \o p \o <<DoneMessage>>
    <2>1. PICK s \in [1..1 -> Plain], p \in Pushes(MaxMessages - 2) :
                   msgs = s \o p \o <<DoneMessage>>
      BY <1>3
    <2>2. PICK b \in 0 .. MaxMessages - 2 : p \in [1..b -> Message]
      BY <1>b
    <2> DEFINE All == Message \cup Plain \cup {DoneMessage}
    <2>3. s \in Seq(All) /\ Len(s) = 1
      <3>1. 1 \in Nat /\ Plain \subseteq All
        OBVIOUS
      <3> QED
        BY <3>1, ListOf
    <2>4. p \in Seq(All) /\ Len(p) = b
      <3>1. b \in Nat /\ Message \subseteq All
        OBVIOUS
      <3> QED
        BY <2>2, <3>1, ListOf
    <2>a. <<DoneMessage>> \in Seq(All) /\ Len(<<DoneMessage>>) = 1
      OBVIOUS
    <2> HIDE DEF All
    <2>b. s \o p \in Seq(All) /\ Len(s \o p) = 1 + b
      BY <2>3, <2>4, ConcatProperties
    <2>5. msgs \in Seq(All) /\ Len(msgs) = 2 + b
      BY <2>1, <2>a, <2>b, ConcatProperties
    <2>6. DOMAIN msgs = 1..Len(msgs) /\ \A i \in 1..Len(msgs) : msgs[i] \in All
      BY <2>5, LenProperties, ElementOfSeq
    <2> QED
      BY <1>3, <2>2, <2>5, <2>6 DEF All
  <1>4. CASE kind = "pulls" /\ msgs \in [1..2 -> Plain]
    <2>1. Len(msgs) = 2 /\ DOMAIN msgs = 1..2 /\ Phases = 2
      BY <1>4 DEF Phases
    <2>2. \A i \in 1..2 : msgs[i] \in Plain
      BY <1>4
    <2> QED
      BY <1>4, <1>a, <2>1, <2>2, PlainMessages
  <1>5. CASE kind = "ask" /\ msgs \in [1..1 -> Plain]
    <2>1. Len(msgs) = 1 /\ DOMAIN msgs = 1..1 /\ Phases = 1
      BY <1>5 DEF Phases
    <2>2. \A i \in 1..1 : msgs[i] \in Plain
      BY <1>5
    <2> QED
      BY <1>5, <1>a, <2>1, <2>2, PlainMessages
  <1> QED
    BY <1>2, <1>3, <1>4, <1>5 DEF FramingInit

LEMMA InitInv == FramingInit => FramingInv
  <1> SUFFICES ASSUME FramingInit PROVE FramingInv
    OBVIOUS
  <1>1. MessagesOK
    BY InitMessages
  <1>2. /\ stream = <<>> /\ ends = <<>> /\ arrived = 0 /\ taken = 0 /\ buf = <<>>
        /\ stage = "between" /\ wait = 0 /\ type = <<>> /\ acc = <<>> /\ got = <<>>
        /\ cut = {} /\ late = FALSE /\ timeouts = 0
    BY DEF FramingInit
  <1>3. StreamOK
    BY <1>1, <1>2 DEF StreamOK, Start, MessagesOK
  <1>4. BufferOK /\ ReaderTypes
    <2>1. /\ <<>> \in Seq(Byte) /\ <<>> \in Seq([msg : Nat, data : Seq(Byte)])
          /\ Len(<<>>) = 0 /\ DOMAIN <<>> = {}
      OBVIOUS
    <2>2. BufferOK
      BY <1>2, <2>1, BufferAssumption DEF BufferOK
    <2>3. timeouts \in 0..MaxTimeouts /\ cut \subseteq 1..wait
      BY <1>2, BytesAssumption
    <2>4. wait = Len(got)
      BY <1>2, <2>1
    <2>5. \A g \in DOMAIN got : got[g].msg \in DOMAIN msgs
      BY <1>2, <2>1
    <2> QED
      BY <1>2, <2>1, <2>2, <2>3, <2>4, <2>5 DEF ReaderTypes
  <1>5. FirstAlone /\ DropsOnlyReadAhead
    BY <1>2 DEF FirstAlone, DropsOnlyReadAhead
  <1>6. Sync /\ DeliveredOK
    <2>1. Pos = 0 /\ Start(wait + 1) = 0
      <3>1. taken = 0 /\ wait + 1 = 1 /\ Len(buf) = 0
        BY <1>2
      <3> QED
        BY <3>1 DEF Start, Pos
    <2>2. DOMAIN got = {}
      BY <1>2
    <2> QED
      BY <1>2, <2>1, <2>2 DEF Sync, DeliveredOK
  <1> QED
    BY <1>1, <1>3, <1>4, <1>5, <1>6 DEF FramingInv

-----------------------------------------------------------------------------
(* The stream *)

LEMMA HeaderFacts ==
    ASSUME MessagesOK, NEW i \in DOMAIN msgs
    PROVE  /\ Header(i) \in Seq(Byte) /\ Len(Header(i)) = msgs[i].header
           /\ \A k \in 1..msgs[i].header : Header(i)[k] = <<"header", i>>
  <1>1. i \in Nat /\ msgs[i].header \in Nat
    BY DEF MessagesOK
  <1>2. \A n \in Nat, x \in Byte :
            /\ [j \in 1..n |-> x] \in Seq(Byte) /\ Len([j \in 1..n |-> x]) = n
            /\ \A k \in 1..n : [j \in 1..n |-> x][k] = x
    OBVIOUS
  <1>3. <<"header", i>> \in Byte
    BY <1>1, KnownBytes
  <1> QED
    BY <1>1, <1>2, <1>3 DEF Header

\* The bytes of a message: its type line, header, NUL and data.
LEMMA BytesFacts ==
    ASSUME MessagesOK, NEW i \in DOMAIN msgs
    PROVE  /\ Bytes(i) \in Seq(Byte)
           /\ Len(Bytes(i)) = IF IsDone(msgs[i]) THEN 2
                              ELSE 3 + msgs[i].header + Len(msgs[i].data)
           /\ Bytes(i)[1] = <<"type", i>> /\ Bytes(i)[2] = NL
           /\ ~IsDone(msgs[i]) =>
                 /\ \A k \in 1..msgs[i].header : Bytes(i)[2 + k] = <<"header", i>>
                 /\ Bytes(i)[3 + msgs[i].header] = NUL
                 /\ \A k \in 1..Len(msgs[i].data) :
                       Bytes(i)[3 + msgs[i].header + k] = msgs[i].data[k]
  <1>1. i \in Nat /\ msgs[i].header \in Nat /\ msgs[i].data \in Seq(Byte)
    BY DEF MessagesOK
  <1>2. /\ TypeLine(i) \in Seq(Byte) /\ Len(TypeLine(i)) = 2
        /\ TypeLine(i)[1] = <<"type", i>> /\ TypeLine(i)[2] = NL
    BY <1>1, TypeLineFacts
  <1>3. CASE IsDone(msgs[i])
    BY <1>2, <1>3 DEF Bytes
  <1>4. CASE ~IsDone(msgs[i])
    <2> DEFINE s == TypeLine(i) \o Header(i)
               t == s \o <<NUL>>
               h == msgs[i].header
               d == msgs[i].data
    <2>1. /\ s \in Seq(Byte) /\ Len(s) = 2 + h /\ s[1] = <<"type", i>> /\ s[2] = NL
          /\ \A k \in 1..h : s[2 + k] = <<"header", i>>
      <3>1. /\ Header(i) \in Seq(Byte) /\ Len(Header(i)) = h
            /\ \A k \in 1..h : Header(i)[k] = <<"header", i>>
        BY HeaderFacts
      <3>2. /\ s \in Seq(Byte) /\ Len(s) = 2 + h
            /\ \A k \in 1..2 : s[k] = TypeLine(i)[k]
            /\ \A k \in 1..h : s[2 + k] = Header(i)[k]
        <4>1. /\ s \in Seq(Byte) /\ Len(s) = Len(TypeLine(i)) + Len(Header(i))
              /\ \A k \in 1..Len(TypeLine(i)) : s[k] = TypeLine(i)[k]
              /\ \A k \in 1..Len(Header(i)) : s[Len(TypeLine(i)) + k] = Header(i)[k]
          BY <1>2, <3>1, JoinFacts, Zenon
        <4> HIDE DEF s, h
        <4> QED
          BY <1>2, <3>1, <4>1
      <3> QED
        BY <1>2, <3>1, <3>2
    <2>2. <<NUL>> \in Seq(Byte) /\ Len(<<NUL>>) = 1 /\ <<NUL>>[1] = NUL
      BY KnownBytes
    <2> HIDE DEF s
    <2>3. /\ t \in Seq(Byte) /\ Len(t) = 3 + h
          /\ \A k \in 1 .. 2 + h : t[k] = s[k]
          /\ t[3 + h] = NUL
      <3>1. /\ t \in Seq(Byte) /\ Len(t) = (2 + h) + 1
            /\ \A k \in 1 .. 2 + h : t[k] = s[k]
            /\ \A k \in 1..1 : t[(2 + h) + k] = <<NUL>>[k]
        <4> HIDE DEF h
        <4> QED
          BY <2>1, <2>2, JoinFacts
      <3>2. t[(2 + h) + 1] = NUL /\ (2 + h) + 1 = 3 + h
        BY <1>1, <2>2, <3>1
      <3> QED
        BY <3>1, <3>2
    <2> HIDE DEF t
    <2>4. Bytes(i) = t \o d
      BY <1>4 DEF Bytes, t, s
    <2>5. /\ Bytes(i) \in Seq(Byte) /\ Len(Bytes(i)) = Len(t) + Len(d)
          /\ \A k \in 1..Len(t) : Bytes(i)[k] = t[k]
          /\ \A k \in 1..Len(d) : Bytes(i)[Len(t) + k] = d[k]
      <3>1. d \in Seq(Byte)
        BY <1>1
      <3> HIDE DEF d
      <3>2. /\ t \o d \in Seq(Byte) /\ Len(t \o d) = Len(t) + Len(d)
            /\ \A k \in 1..Len(t) : (t \o d)[k] = t[k]
            /\ \A k \in 1..Len(d) : (t \o d)[Len(t) + k] = d[k]
        BY <2>3, <3>1, JoinFacts, Zenon
      <3> QED
        BY <2>4, <3>2
    <2>6. Len(t) = 3 + h /\ \A k \in 1 .. 2 + h : k \in 1..Len(t) /\ Bytes(i)[k] = s[k]
      BY <1>1, <2>3, <2>5
    <2>7. Bytes(i)[3 + h] = NUL
      BY <1>1, <2>3, <2>5
    <2>8. 1 \in 1 .. 2 + h /\ 2 \in 1 .. 2 + h /\ \A k \in 1..h : 2 + k \in 1 .. 2 + h
      BY <1>1
    <2> QED
      BY <1>4, <2>1, <2>5, <2>6, <2>7, <2>8
  <1> QED
    BY <1>3, <1>4

LEMMA StartFacts ==
    ASSUME StreamOK, MessagesOK
    PROVE  /\ Len(ends) \in Nat
           /\ \A i \in 1 .. Len(ends) + 1 :
                 /\ Start(i) \in Nat
                 /\ Start(i) <= Start(Len(ends) + 1)
           /\ \A i \in 1..Len(ends) :
                 /\ i \in DOMAIN msgs
                 /\ ends[i] \in Nat /\ ends[i] = Start(i + 1)
                 /\ ends[i] <= Len(stream)
                 /\ Start(i) + 2 <= ends[i]
                 /\ msgs[i].header \in Nat /\ DataAt(i) \in Nat
                 /\ ~IsDone(msgs[i]) =>
                       /\ Start(i) + 3 <= DataAt(i) /\ DataAt(i) <= ends[i]
                       /\ DataAt(i) = Start(i) + 3 + msgs[i].header
  <1>1. Len(ends) \in Nat /\ \A i \in 1..Len(ends) : ends[i] \in Nat
    BY DEF StreamOK
  <1>2. \A i \in 1 .. Len(ends) + 1 : Start(i) \in Nat
    BY <1>1 DEF Start
  <1>3. \A i \in 1..Len(ends) :
            i \in DOMAIN msgs /\ ends[i] = Start(i + 1) /\ msgs[i].header \in Nat
            /\ msgs[i].data \in Seq(Byte)
    BY <1>1, SMTT(30) DEF StreamOK, MessagesOK, Start
  <1>4. \A i \in 1..Len(ends) :
            /\ DataAt(i) = Start(i) + 3 + msgs[i].header
            /\ IsDone(msgs[i]) => ends[i] = Start(i) + 2
            /\ ~IsDone(msgs[i]) => ends[i] = DataAt(i) + Len(msgs[i].data)
    BY DEF StreamOK, Layout, DataAt
  <1>5. \A i \in 1..Len(ends) :
           /\ Start(i) + 2 <= ends[i] /\ DataAt(i) \in Nat
           /\ ~IsDone(msgs[i]) => Start(i) + 3 <= DataAt(i) /\ DataAt(i) <= ends[i]
    <2> SUFFICES ASSUME NEW i \in 1..Len(ends)
                 PROVE  /\ Start(i) + 2 <= ends[i] /\ DataAt(i) \in Nat
                        /\ ~IsDone(msgs[i]) =>
                              Start(i) + 3 <= DataAt(i) /\ DataAt(i) <= ends[i]
      OBVIOUS
    <2>1. Len(msgs[i].data) \in Nat /\ Start(i) \in Nat /\ msgs[i].header \in Nat
      BY <1>1, <1>2, <1>3
    <2>2. /\ DataAt(i) = Start(i) + 3 + msgs[i].header
          /\ IsDone(msgs[i]) => ends[i] = Start(i) + 2
          /\ ~IsDone(msgs[i]) => ends[i] = DataAt(i) + Len(msgs[i].data)
      BY <1>4
    <2>3. \A a, b, c, d, e \in Nat :
            d = a + 3 + b => /\ d \in Nat /\ a + 3 <= d
                             /\ e = d + c => d <= e /\ a + 2 <= e
                             /\ e = a + 2 => a + 2 <= e
      OBVIOUS
    <2>4. ends[i] \in Nat /\ DataAt(i) \in Nat
      BY <1>1, <2>1, <2>2
    <2> QED
      BY <2>1, <2>2, <2>3, <2>4
  <1>6. \A i \in 1..Len(ends) : ends[i] <= Start(Len(ends) + 1)
    <2> SUFFICES ASSUME NEW i \in 1..Len(ends) PROVE ends[i] <= Start(Len(ends) + 1)
      OBVIOUS
    <2>1. CASE i = Len(ends)
      BY <1>1, <1>3, <2>1
    <2>2. CASE i < Len(ends)
      <3>1. Len(ends) \in 1..Len(ends) /\ ends[i] <= Start(Len(ends))
        BY <1>1, <2>2 DEF StreamOK
      <3>2. Start(Len(ends)) + 2 <= ends[Len(ends)] /\ ends[Len(ends)] = Start(Len(ends) + 1)
        BY <1>3, <1>5, <3>1
      <3>3. Start(Len(ends)) \in Nat /\ ends[i] \in Nat /\ Start(Len(ends) + 1) \in Nat
        BY <1>1, <1>2, <3>1
      <3> QED
        BY <3>1, <3>2, <3>3
    <2> QED
      BY <1>1, <2>1, <2>2
  <1>7. \A i \in 1 .. Len(ends) + 1 : Start(i) <= Start(Len(ends) + 1)
    <2> SUFFICES ASSUME NEW i \in 1..Len(ends) PROVE Start(i) <= Start(Len(ends) + 1)
      BY <1>1, <1>2
    <2>1. Start(i) \in Nat /\ ends[i] \in Nat /\ Start(Len(ends) + 1) \in Nat
      BY <1>1, <1>2
    <2> QED
      BY <1>5, <1>6, <2>1
  <1>8. Len(stream) = Start(Len(ends) + 1)
    BY DEF StreamOK
  <1> QED
    BY <1>1, <1>2, <1>3, <1>4, <1>5, <1>6, <1>7, <1>8

\* A message that ends before another begins comes before it.
LEMMA Order ==
    ASSUME StreamOK, MessagesOK, NEW i \in 1..Len(ends), NEW m \in 1..Len(ends),
           ends[m] <= Start(i)
    PROVE  m < i
  <1>1. /\ Len(ends) \in Nat /\ ends[m] \in Nat /\ ends[i] \in Nat
        /\ Start(i) \in Nat /\ Start(m) \in Nat
        /\ Start(i) + 2 <= ends[i] /\ Start(m) + 2 <= ends[m]
    BY StartFacts, SMTT(30)
  <1>2. i < m => ends[i] <= Start(m)
    BY DEF StreamOK
  <1> QED
    BY <1>1, <1>2


-----------------------------------------------------------------------------
(* The peer *)

\* A message sent leaves the layout of those before it as it was.
LEMMA SendKeeps ==
    ASSUME StreamOK, MessagesOK, Send,
           NEW n \in Nat, n = Len(ends) + 1, NEW L \in Nat, L = Len(stream)
    PROVE  /\ UNCHANGED <<kind, msgs>> /\ n \in DOMAIN msgs
           /\ stream' \in Seq(Byte) /\ Len(stream') = L + Len(Bytes(n))
           /\ \A p \in 1..L : stream'[p] = stream[p]
           /\ \A k \in 1..Len(Bytes(n)) : stream'[L + k] = Bytes(n)[k]
           /\ ends' \in Seq(Nat) /\ Len(ends') = n /\ ends'[n] = Len(stream')
           /\ \A i \in 1 .. n - 1 : ends'[i] = ends[i] /\ DataAt(i)' = DataAt(i)
           /\ \A i \in 1..n : Start(i)' = Start(i)
  <1>1. n \in DOMAIN msgs /\ stream' = stream \o Bytes(n) /\ ends' = Append(ends, Len(stream'))
        /\ UNCHANGED <<kind, msgs>>
    BY DEF Send
  <1>2. Bytes(n) \in Seq(Byte) /\ stream \in Seq(Byte) /\ ends \in Seq(Nat)
    BY <1>1, BytesFacts DEF StreamOK
  <1>3. /\ stream' \in Seq(Byte) /\ Len(stream') = L + Len(Bytes(n))
        /\ \A p \in 1..L : stream'[p] = stream[p]
        /\ \A k \in 1..Len(Bytes(n)) : stream'[L + k] = Bytes(n)[k]
    <2> DEFINE t == Bytes(n)
    <2>1. t \in Seq(Byte) /\ stream' = stream \o t
      BY <1>1, <1>2
    <2> HIDE DEF t
    <2>2. /\ stream \o t \in Seq(Byte) /\ Len(stream \o t) = Len(stream) + Len(t)
          /\ \A k \in 1..Len(stream) : (stream \o t)[k] = stream[k]
          /\ \A k \in 1..Len(t) : (stream \o t)[Len(stream) + k] = t[k]
      BY <1>2, <2>1, JoinFacts, Zenon
    <2>3. /\ stream' \in Seq(Byte) /\ Len(stream') = L + Len(t)
          /\ \A p \in 1..L : stream'[p] = stream[p]
          /\ \A k \in 1..Len(t) : stream'[L + k] = t[k]
      BY <2>1, <2>2
    <2> QED
      BY <2>3 DEF t
  <1>4. Len(stream') \in Nat
    BY <1>3
  <1>5. /\ ends' \in Seq(Nat) /\ Len(ends') = n /\ ends'[n] = Len(stream')
        /\ \A i \in 1 .. n - 1 : ends'[i] = ends[i]
    <2> DEFINE v == Len(stream')
    <2>1. v \in Nat /\ ends' = Append(ends, v)
      BY <1>1, <1>4
    <2> HIDE DEF v
    <2>2. /\ ends' \in Seq(Nat) /\ Len(ends') = n /\ ends'[n] = v
          /\ \A i \in 1 .. n - 1 : ends'[i] = ends[i]
      BY <1>2, <2>1, AppendProperties
    <2> QED
      BY <2>2 DEF v
  <1>7. \A i \in 1..n : Start(i)' = Start(i)
    <2> SUFFICES ASSUME NEW i \in 1..n PROVE Start(i)' = Start(i)
      OBVIOUS
    <2>1. CASE i = 1
      BY <2>1 DEF Start
    <2>2. CASE i # 1
      <3>1. i - 1 \in 1 .. n - 1
        BY <2>2
      <3> QED
        BY <1>5, <2>2, <3>1 DEF Start
    <2> QED
      BY <2>1, <2>2
  <1>8. \A i \in 1 .. n - 1 : DataAt(i)' = DataAt(i)
    BY <1>1, <1>7 DEF DataAt
  <1> QED
    BY <1>1, <1>3, <1>5, <1>7, <1>8

\* Where the layout of a message was, nothing changes.
LEMMA LayoutKept ==
    ASSUME StreamOK, MessagesOK, NEW i \in 1..Len(ends), NEW L \in Nat, L = Len(stream),
           msgs' = msgs, ends'[i] = ends[i], Start(i)' = Start(i),
           \A p \in 1..L : stream'[p] = stream[p]
    PROVE  Layout(i)'
  <1>1. Layout(i)
    BY DEF StreamOK
  <1>2. PICK s \in Nat, e \in Nat, h \in Nat :
           /\ s = Start(i) /\ e = ends[i] /\ h = msgs[i].header
           /\ e <= L /\ s + 2 <= e
           /\ ~IsDone(msgs[i]) => DataAt(i) = s + 3 + h /\ s + 3 + h <= e
    <2>1. /\ i \in 1 .. Len(ends) + 1 /\ ends[i] \in Nat /\ msgs[i].header \in Nat
          /\ ends[i] <= L /\ Start(i) + 2 <= ends[i]
          /\ ~IsDone(msgs[i]) =>
                DataAt(i) <= ends[i] /\ DataAt(i) = Start(i) + 3 + msgs[i].header
      BY StartFacts
    <2>2. Start(i) \in Nat
      BY <2>1, StartFacts
    <2> QED
      BY <2>1, <2>2
  <1>3. DataAt(i)' = DataAt(i)
    BY DEF DataAt
  <1>4. stream'[s + 1] = stream[s + 1] /\ stream'[s + 2] = stream[s + 2]
    BY <1>2
  <1>5. CASE IsDone(msgs[i])
    BY <1>1, <1>2, <1>4, <1>5 DEF Layout, IsDone
  <1>6. CASE ~IsDone(msgs[i])
    <2>1. PICK l \in Nat : l = Len(msgs[i].data)
      <3>1. msgs[i].data \in Seq(Byte)
        BY StartFacts DEF MessagesOK
      <3> QED
        BY <3>1
    <2>2. e = s + 3 + h + l /\ DataAt(i) = s + 3 + h
      BY <1>1, <1>2, <1>6, <2>1 DEF Layout
    <2>a. /\ s + 3 + h \in 1..L /\ \A k \in 1..h : s + 2 + k \in 1..L
          /\ \A k \in 1..l : s + 3 + h + k \in 1..L
      <3>1. s + 3 + h + l <= L
        BY <1>2, <2>2
      <3> QED
        BY <3>1
    <2>3. stream'[s + 3 + h] = stream[s + 3 + h]
      BY <2>a
    <2>4. \A k \in 1..h : stream'[s + 2 + k] = stream[s + 2 + k]
      BY <2>a
    <2>5. \A k \in 1..l : stream'[s + 3 + h + k] = stream[s + 3 + h + k]
      BY <2>a
    <2>6. /\ stream[s + 1] = <<"type", i>> /\ stream[s + 2] = NL
          /\ \A k \in 1..h : stream[s + 2 + k] = <<"header", i>>
          /\ stream[s + 3 + h] = NUL
          /\ \A k \in 1..l : stream[s + 3 + h + k] = msgs[i].data[k]
          /\ ends[i] = s + 3 + h + l
      BY <1>1, <1>2, <1>6, <2>1, <2>2 DEF Layout
    <2>7. /\ Start(i)' = s /\ DataAt(i)' = s + 3 + h /\ ends'[i] = s + 3 + h + l
          /\ h # 0 /\ msgs' = msgs
      BY <1>2, <1>3, <1>6, <2>2, <2>6 DEF IsDone
    <2>8. /\ stream'[s + 1] = <<"type", i>> /\ stream'[s + 2] = NL
          /\ \A k \in 1..h : stream'[s + 2 + k] = <<"header", i>>
          /\ stream'[s + 3 + h] = NUL
          /\ \A k \in 1..l : stream'[s + 3 + h + k] = msgs[i].data[k]
      BY <1>4, <2>3, <2>4, <2>5, <2>6
    <2>9. h = msgs[i].header
      BY <1>2
    <2> QED
      BY <2>1, <2>7, <2>8, <2>9 DEF Layout, IsDone
  <1> QED
    BY <1>5, <1>6

\* Where a byte of a type line is among those of a message whose data has none.
LEMMA TypeByte ==
    ASSUME MessagesOK, PlainData, NEW n \in DOMAIN msgs, NEW j \in DOMAIN msgs,
           NEW q \in 1..Len(Bytes(n)), Bytes(n)[q] = <<"type", j>>
    PROVE  q = 1 /\ j = n
  <1>1. /\ n \in Nat /\ j \in Nat /\ msgs[n].header \in Nat /\ msgs[n].data \in Seq(Byte)
        /\ Len(msgs[n].data) \in Nat
    BY DEF MessagesOK
  <1> DEFINE b == Bytes(n)
             h == msgs[n].header
             d == msgs[n].data
             l == Len(d)
  <1>2. /\ b \in Seq(Byte) /\ Len(b) = IF IsDone(msgs[n]) THEN 2 ELSE 3 + h + l
        /\ b[1] = <<"type", n>> /\ b[2] = NL
        /\ ~IsDone(msgs[n]) =>
              /\ \A k \in 1..h : b[2 + k] = <<"header", n>>
              /\ b[3 + h] = NUL
              /\ \A k \in 1..l : b[3 + h + k] = d[k]
    BY BytesFacts
  <1>3. <<"type", j>> \notin {d[k] : k \in 1..l}
    BY <1>1 DEF PlainData, ToSet
  <1>4. b[q] = <<"type", j>> /\ h \in Nat /\ l \in Nat /\ Len(b) \in Nat /\ q \in 1..Len(b)
    BY <1>1, <1>2
  <1> HIDE DEF b, h, d, l
  <1>5. CASE q = 1
    BY <1>1, <1>2, <1>4, <1>5, DifferentBytes
  <1>6. CASE q = 2
    BY <1>1, <1>2, <1>4, <1>6, DifferentBytes
  <1>7. CASE q > 2
    <2>1. ~IsDone(msgs[n]) /\ Len(b) = 3 + h + l
      BY <1>2, <1>4, <1>7
    <2>2. CASE q <= 2 + h
      <3>1. q - 2 \in 1..h /\ 2 + (q - 2) = q
        BY <1>4, <1>7, <2>2
      <3>2. b[q] = <<"header", n>>
        BY <1>2, <2>1, <3>1
      <3> QED
        BY <1>1, <1>4, <3>2, DifferentBytes
    <2>3. CASE q = 3 + h
      BY <1>1, <1>2, <1>4, <2>1, <2>3, DifferentBytes
    <2>4. CASE q > 3 + h
      <3>1. q - 3 - h \in 1..l /\ 3 + h + (q - 3 - h) = q
        BY <1>4, <2>1, <2>4
      <3>2. d[q - 3 - h] = <<"type", j>>
        BY <1>2, <1>4, <2>1, <3>1
      <3> QED
        BY <1>3, <3>1, <3>2
    <2> QED
      BY <1>4, <2>2, <2>3, <2>4
  <1> QED
    BY <1>4, <1>5, <1>6, <1>7

\* A message put on the stream is laid out there.
LEMMA LayoutNew ==
    ASSUME MessagesOK, NEW n \in DOMAIN msgs, NEW L \in Nat,
           msgs' = msgs, Start(n)' = L, ends'[n] = L + Len(Bytes(n)),
           \A k \in 1..Len(Bytes(n)) : stream'[L + k] = Bytes(n)[k]
    PROVE  Layout(n)'
  <1>1. /\ msgs[n].header \in Nat /\ msgs[n].data \in Seq(Byte) /\ Len(msgs[n].data) \in Nat
    BY DEF MessagesOK
  <1> DEFINE b == Bytes(n)
             h == msgs[n].header
             d == msgs[n].data
             l == Len(d)
  <1>2. /\ b \in Seq(Byte) /\ Len(b) = IF IsDone(msgs[n]) THEN 2 ELSE 3 + h + l
        /\ b[1] = <<"type", n>> /\ b[2] = NL
        /\ ~IsDone(msgs[n]) =>
              /\ \A k \in 1..h : b[2 + k] = <<"header", n>>
              /\ b[3 + h] = NUL
              /\ \A k \in 1..l : b[3 + h + k] = d[k]
    BY BytesFacts
  <1>3. h \in Nat /\ l \in Nat /\ Len(b) \in Nat /\ \A k \in 1..Len(b) : stream'[L + k] = b[k]
    BY <1>1, <1>2
  <1>4. DataAt(n)' = L + 3 + h
    BY DEF DataAt
  <1>5. ends'[n] = L + Len(b)
    OBVIOUS
  <1> HIDE DEF b
  <1>6. stream'[L + 1] = <<"type", n>> /\ stream'[L + 2] = NL
    <2>1. 1 \in 1..Len(b) /\ 2 \in 1..Len(b)
      <3> HIDE DEF h, l
      <3> QED
        BY <1>2, <1>3
    <2> QED
      BY <1>2, <1>3, <2>1
  <1>7. CASE IsDone(msgs[n])
    BY <1>2, <1>5, <1>6, <1>7 DEF Layout, IsDone
  <1>8. CASE ~IsDone(msgs[n])
    <2>1. Len(b) = 3 + h + l
      BY <1>2, <1>8
    <2>2. \A k \in 1..h : stream'[L + 2 + k] = <<"header", n>>
      <3> HIDE DEF h, l
      <3> SUFFICES ASSUME NEW k \in 1..h PROVE stream'[L + 2 + k] = <<"header", n>>
        OBVIOUS
      <3>1. 2 + k \in 1..Len(b) /\ L + (2 + k) = L + 2 + k
        BY <1>3, <2>1
      <3> QED
        BY <1>2, <1>3, <1>8, <3>1
    <2>3. stream'[L + 3 + h] = NUL
      <3> HIDE DEF h, l
      <3>1. 3 + h \in 1..Len(b) /\ L + (3 + h) = L + 3 + h
        BY <1>3, <2>1
      <3> QED
        BY <1>2, <1>3, <1>8, <3>1
    <2>4. \A k \in 1..l : stream'[L + 3 + h + k] = d[k]
      <3> HIDE DEF h, l
      <3> SUFFICES ASSUME NEW k \in 1..l PROVE stream'[L + 3 + h + k] = d[k]
        OBVIOUS
      <3>1. 3 + h + k \in 1..Len(b) /\ L + (3 + h + k) = L + 3 + h + k
        BY <1>3, <2>1
      <3> QED
        BY <1>2, <1>3, <1>8, <3>1
    <2>5. ends'[n] = (L + 3 + h) + l
      <3> HIDE DEF h, l
      <3> QED
        BY <1>3, <1>5, <2>1
    <2> QED
      BY <1>4, <1>6, <1>8, <2>2, <2>3, <2>4, <2>5 DEF Layout, IsDone
  <1> QED
    BY <1>7, <1>8

LEMMA SendStream ==
    ASSUME StreamOK, MessagesOK, Send
    PROVE  StreamOK'
  <1>0. PICK n \in Nat, L \in Nat : n = Len(ends) + 1 /\ L = Len(stream)
    <2>1. Len(ends) \in Nat /\ Len(stream) \in Nat
      BY DEF StreamOK
    <2> QED
      BY <2>1
  <1>1. /\ UNCHANGED <<kind, msgs>> /\ n \in DOMAIN msgs
        /\ stream' \in Seq(Byte) /\ Len(stream') = L + Len(Bytes(n))
        /\ \A p \in 1..L : stream'[p] = stream[p]
        /\ \A k \in 1..Len(Bytes(n)) : stream'[L + k] = Bytes(n)[k]
        /\ ends' \in Seq(Nat) /\ Len(ends') = n /\ ends'[n] = Len(stream')
        /\ \A i \in 1 .. n - 1 : ends'[i] = ends[i] /\ DataAt(i)' = DataAt(i)
        /\ \A i \in 1..n : Start(i)' = Start(i)
    BY <1>0, SendKeeps
  <1>2. PICK l \in Nat : l = Len(Bytes(n))
    BY <1>1, BytesFacts
  <1>3. L = Start(n) /\ Start(n)' = L
    BY <1>0, <1>1 DEF StreamOK
  <1>4. Len(msgs) \in Nat /\ DOMAIN msgs = 1..Len(msgs) /\ Len(ends) = n - 1
    BY <1>0 DEF MessagesOK, StreamOK
  <1>5. \A i \in 1..n : Layout(i)'
    <2> SUFFICES ASSUME NEW i \in 1..n PROVE Layout(i)'
      OBVIOUS
    <2>1. CASE i = n
      BY <1>1, <1>3, <2>1, LayoutNew
    <2>2. CASE i # n
      <3>1. i \in 1 .. n - 1 /\ i \in 1..Len(ends)
        BY <1>4, <2>2
      <3>2. ends'[i] = ends[i] /\ Start(i)' = Start(i)
        BY <1>1, <3>1
      <3> QED
        BY <1>0, <1>1, <3>1, <3>2, LayoutKept
    <2> QED
      BY <2>1, <2>2
  <1>6. ASSUME NEW i \in 1..n, NEW j \in 1..n, i < j PROVE ends'[i] <= Start(j)'
    <2>1. i \in 1 .. n - 1 /\ i \in 1..Len(ends)
      BY <1>4, <1>6
    <2>2. ends'[i] = ends[i] /\ Start(j)' = Start(j)
      BY <1>1, <2>1
    <2>3. CASE j = n
      <3>1. ends[i] <= Len(stream)
        BY <2>1, StartFacts
      <3> QED
        BY <1>0, <1>3, <2>2, <2>3, <3>1
    <2>4. CASE j # n
      <3>1. j \in 1..Len(ends)
        BY <1>4, <2>4
      <3> QED
        BY <1>6, <2>1, <2>2, <3>1 DEF StreamOK
    <2> QED
      BY <2>3, <2>4
  <1>7. ASSUME PlainData, NEW p \in 1..Len(stream'), NEW j \in DOMAIN msgs,
               stream'[p] = <<"type", j>>
        PROVE  j <= n /\ p = Start(j)' + 1
    <2>1. CASE p <= L
      <3>1. p \in 1..L /\ stream[p] = <<"type", j>>
        BY <1>1, <1>2, <1>7, <2>1
      <3>2. j <= Len(ends) /\ p = Start(j) + 1
        BY <1>0, <1>7, <3>1 DEF StreamOK
      <3>3. j \in 1..n
        BY <1>4, <3>2
      <3> QED
        BY <1>1, <1>4, <3>2, <3>3
    <2>2. CASE p > L
      <3>1. p - L \in 1..Len(Bytes(n)) /\ p = L + (p - L)
        BY <1>1, <1>2, <1>7, <2>2
      <3>2. Bytes(n)[p - L] = <<"type", j>>
        BY <1>1, <1>7, <3>1
      <3>3. p - L = 1 /\ j = n
        BY <1>1, <1>7, <3>1, <3>2, TypeByte
      <3>4. p \in Nat
        BY <1>1, <1>2, <1>7
      <3> QED
        BY <1>3, <3>3, <3>4
    <2> QED
      BY <1>1, <1>2, <1>7, <2>1, <2>2
  <1>8. Start(Len(ends) + 1)' = Len(stream')
    <2>1. n + 1 # 1 /\ (n + 1) - 1 = n
      BY <1>0
    <2>2. Start(n + 1)' = ends'[n]
      BY <2>1 DEF Start
    <2> QED
      BY <1>1, <2>2
  <1>9. PlainData' <=> PlainData
    BY <1>1 DEF PlainData
  <1>10. Len(ends') <= Len(msgs')
    BY <1>1, <1>4
  <1>11. \A i, j \in 1..Len(ends') : i < j => ends'[i] <= Start(j)'
    BY <1>1, <1>6
  <1>12. PlainData' =>
           \A p \in 1..Len(stream'), j \in DOMAIN msgs' :
              stream'[p] = <<"type", j>> => j <= Len(ends') /\ p = Start(j)' + 1
    BY <1>1, <1>7, <1>9
  <1>13. \A i \in 1..Len(ends') : Layout(i)'
    BY <1>1, <1>5
  <1> QED
    BY <1>1, <1>8, <1>10, <1>11, <1>12, <1>13 DEF StreamOK

\* What is in step with the stream stays in step when a message is sent.
LEMMA SendSync ==
    ASSUME FramingInv, Send
    PROVE  Sync'
  <1>0. PICK n \in Nat, L \in Nat : n = Len(ends) + 1 /\ L = Len(stream)
    <2>1. Len(ends) \in Nat /\ Len(stream) \in Nat
      BY DEF FramingInv, StreamOK
    <2> QED
      BY <2>1
  <1> USE DEF FramingInv
  <1>1. /\ UNCHANGED <<kind, msgs>> /\ Len(ends') = n
        /\ \A i \in 1 .. n - 1 : ends'[i] = ends[i] /\ DataAt(i)' = DataAt(i)
        /\ \A i \in 1..n : Start(i)' = Start(i)
    BY <1>0, SendKeeps
  <1>2. UNCHANGED readerVars
    BY DEF Send
  <1>3. /\ Pos' = Pos /\ Msg' = Msg /\ (PlainData' <=> PlainData) /\ (InStep' <=> InStep)
        /\ \A w : Reliable(w)' <=> Reliable(w)
        /\ (Reliable(wait)' <=> Reliable(wait))
        /\ Expected(type)' = Expected(type)
    BY <1>1, <1>2 DEF readerVars, Pos, Msg, PlainData, InStep, Reliable, Expected, Phase,
                      Phases, TypeLine, NL
  <1>4. /\ DOMAIN got = 1..Len(got) /\ Len(got) \in Nat
        /\ \A g \in DOMAIN got : got[g].msg \in Nat /\ got[g].msg >= 1
    BY SMTT(30) DEF ReaderTypes, MessagesOK
  <1>5. ASSUME Reliable(wait) PROVE \A i \in 1 .. Len(got) + 1 : Start(i)' = Start(i)
    <2> SUFFICES ASSUME NEW i \in 1 .. Len(got) + 1 PROVE i \in 1..n
      BY <1>1
    <2>1. CASE Len(got) = 0
      BY <1>0, <1>4, <2>1 DEF StreamOK
    <2>2. CASE Len(got) # 0
      <3>1. Len(got) \in DOMAIN got
        BY <1>4, <2>2
      <3>2. got[Len(got)].msg = Len(got) /\ got[Len(got)].msg <= Len(ends)
        BY <1>5, <3>1 DEF Sync, InStep
      <3> QED
        BY <1>0, <1>4, <3>2 DEF StreamOK
    <2> QED
      BY <2>1, <2>2
  <1>6. ASSUME NEW i, In(i), i \in Nat, i >= 1
        PROVE  In(i)' /\ Start(i)' = Start(i) /\ DataAt(i)' = DataAt(i)
    <2>1. i \in 1 .. n - 1
      BY <1>0, <1>6 DEF In, StreamOK
    <2> QED
      BY <1>1, <1>2, <1>3, <1>6, <2>1 DEF In, readerVars, IsDone
  <1>7. \A i \in Expected(type) : i \in Nat /\ i >= 1
    BY DEF Expected, MessagesOK
  <1>8. InStep' => \A g \in DOMAIN got' : got'[g].msg <= Len(ends') /\ ends'[got'[g].msg] <= Pos'
    <2> SUFFICES ASSUME InStep, NEW g \in DOMAIN got
                 PROVE  got[g].msg <= n /\ ends'[got[g].msg] <= Pos
      BY <1>1, <1>2, <1>3 DEF readerVars
    <2>1. got[g].msg <= Len(ends) /\ ends[got[g].msg] <= Pos
      BY DEF Sync
    <2>2. got[g].msg \in 1 .. n - 1
      BY <1>0, <1>4, <2>1 DEF StreamOK
    <2> QED
      BY <1>1, <2>1, <2>2
  <1>9. wait = (IF stage = "between" THEN Len(got) ELSE Len(got) + 1)
    BY DEF ReaderTypes
  <1>10. stage = "between" /\ Reliable(wait) => Start(wait + 1)' = Start(wait + 1)
    <2> SUFFICES ASSUME stage = "between", Reliable(wait) PROVE Start(wait + 1)' = Start(wait + 1)
      OBVIOUS
    <2>1. PICK w \in Nat : w = wait
      BY <1>4, <1>9
    <2>2. Start(w + 1)' = Start(w + 1)
      BY <1>4, <1>5, <1>9, <2>1
    <2> QED
      BY <1>2, <2>1, <2>2 DEF readerVars
  <1>11. stage = "type" /\ Reliable(wait) => Start(wait)' = Start(wait)
    <2> SUFFICES ASSUME stage = "type", Reliable(wait) PROVE Start(wait)' = Start(wait)
      OBVIOUS
    <2>1. PICK w \in Nat : w = wait
      BY <1>4, <1>9
    <2>2. Start(w)' = Start(w)
      BY <1>4, <1>5, <1>9, <2>1
    <2> QED
      BY <1>2, <2>1, <2>2 DEF readerVars
  <1>12. /\ stage' = stage /\ acc' = acc /\ taken' = taken /\ wait' = wait /\ got' = got
         /\ type' = type /\ msgs' = msgs
    BY <1>1, <1>2 DEF readerVars
  <1>13. stage = "type" =>
          /\ Reliable(wait) => acc = <<>> /\ Pos = Start(wait)'
          /\ PlainData => /\ NL \notin ToSet(acc)
                          /\ \A i \in DOMAIN msgs : acc # <<<<"type", i>>>>
    BY <1>11 DEF Sync
  <1>14. stage = "header" /\ InStep =>
          \A i \in Expected(type) :
              /\ In(i)' /\ Pos = Start(i)' + 2 + Len(acc) /\ Len(acc) <= msgs[i].header
              /\ \A k \in 1..Len(acc) : acc[k] = <<"header", i>>
    BY <1>6, <1>7 DEF Sync
  <1>15. stage = "data" /\ InStep => \A i \in Expected(type) : In(i)' /\ Pos = DataAt(i)'
    BY <1>6, <1>7 DEF Sync
  <1>16. stage = "rest" /\ InStep =>
          \A i \in Expected(type) :
              /\ In(i)' /\ taken = DataAt(i)' + Len(acc)
              /\ \A k \in 1..Len(acc) : acc[k] = msgs[i].data[k]
    BY <1>6, <1>7 DEF Sync
  <1>17. Reliable(wait) => \A g \in DOMAIN got : got[g].msg = g
    BY DEF Sync
  <1>18. stage = "between" /\ Reliable(wait) => Pos = Start(wait + 1)'
    BY <1>10 DEF Sync
  <1> QED
    BY <1>3, <1>8, <1>12, <1>13, <1>14, <1>15, <1>16, <1>17, <1>18 DEF Sync

LEMMA SendInv == FramingInv /\ Send => FramingInv'
  <1> SUFFICES ASSUME FramingInv, Send PROVE FramingInv'
    OBVIOUS
  <1>0. PICK n \in Nat, L \in Nat : n = Len(ends) + 1 /\ L = Len(stream)
    <2>1. Len(ends) \in Nat /\ Len(stream) \in Nat
      BY DEF FramingInv, StreamOK
    <2> QED
      BY <2>1
  <1>1. MessagesOK /\ StreamOK /\ BufferOK /\ ReaderTypes /\ FirstAlone
    BY DEF FramingInv
  <1>2. /\ UNCHANGED <<kind, msgs>> /\ n \in DOMAIN msgs /\ Len(ends') = n
        /\ stream' \in Seq(Byte) /\ Len(stream') = L + Len(Bytes(n))
        /\ \A p \in 1..L : stream'[p] = stream[p]
        /\ ends'[n] = Len(stream')
        /\ \A i \in 1 .. n - 1 : ends'[i] = ends[i]
    BY <1>0, <1>1, SendKeeps
  <1>3. UNCHANGED readerVars /\ UNCHANGED arrived /\ arrived = L
    BY <1>0 DEF Send
  <1>4. MessagesOK'
    BY <1>1, <1>2 DEF MessagesOK, Phases, IsDone
  <1>5. StreamOK'
    BY <1>1, SendStream
  <1>6. BufferOK'
    <2>1. taken' = taken /\ buf' = buf /\ arrived' = arrived /\ Pos' = Pos
      BY <1>3 DEF readerVars, Pos
    <2>2. Len(Bytes(n)) \in Nat
      BY <1>1, <1>2, BytesFacts
    <2>3. \A k \in 1..Len(buf) : Pos + k \in 1..L
      <3>1. Len(buf) \in Nat /\ taken \in Nat /\ Len(buf) <= taken /\ taken <= L
        BY <1>1, <1>3 DEF BufferOK
      <3> QED
        BY <3>1 DEF Pos
    <2>4. \A k \in 1..Len(buf) : buf[k] = stream'[Pos + k]
      BY <1>1, <1>2, <2>3 DEF BufferOK
    <2>5. arrived <= Len(stream')
      BY <1>2, <1>3, <2>2
    <2> QED
      BY <1>1, <2>1, <2>4, <2>5 DEF BufferOK
  <1>7. ReaderTypes'
    BY <1>1, <1>2, <1>3 DEF ReaderTypes, readerVars, Expected, Msg, Phase, Phases, TypeLine, NL
  <1>8. FirstAlone'
    <2> SUFFICES ASSUME kind \in {"download", "pulls"}
                 PROVE  /\ got = <<>> => n <= 1
                        /\ wait <= 1 => taken <= ends'[1]
      BY <1>0, <1>2, <1>3 DEF FirstAlone, readerVars
    <2>1. ASSUME got = <<>> PROVE n <= 1
      <3>1. Len(ends) <= 1
        BY <1>1, <2>1 DEF FirstAlone
      <3>2. n = 2 => Delivered(n - 1)
        BY <1>0 DEF Send, AnswersTo, Phases
      <3>3. ~Delivered(n - 1)
        BY <2>1 DEF Delivered
      <3> QED
        BY <1>0, <3>1, <3>2, <3>3
    <2>2. ASSUME wait <= 1 PROVE taken <= ends'[1]
      <3>1. CASE n = 1
        <4>1. Len(stream') \in Nat /\ taken = 0
          <5>1. ends = <<>>
            BY <1>0, <1>1, <3>1 DEF StreamOK
          <5>2. taken \in Nat /\ taken <= 0
            BY <1>1, <2>2, <5>1 DEF FirstAlone, BufferOK
          <5> QED
            BY <1>2, <5>2
        <4> QED
          BY <1>2, <3>1, <4>1
      <3>2. CASE n # 1
        <4>1. ends # <<>> /\ 1 \in 1 .. n - 1
          BY <1>0, <3>2
        <4> QED
          BY <1>1, <1>2, <2>2, <4>1 DEF FirstAlone
      <3> QED
        BY <3>1, <3>2
    <2> QED
      BY <2>1, <2>2
  <1>9. DropsOnlyReadAhead' /\ DeliveredOK'
    <2>1. DropsOnlyReadAhead /\ DeliveredOK
      BY DEF FramingInv
    <2> QED
      BY <1>2, <1>3, <2>1 DEF DropsOnlyReadAhead, DeliveredOK, readerVars, Reliable, PlainData
  <1>10. Sync'
    BY SendSync
  <1> QED
    BY <1>4, <1>5, <1>6, <1>7, <1>8, <1>9, <1>10 DEF FramingInv

\* The reader and TCP change nothing of what is sent.
LEMMA SentSame ==
    ASSUME MessagesOK, StreamOK, UNCHANGED sentVars
    PROVE  /\ MessagesOK' /\ StreamOK' /\ (PlainData' <=> PlainData)
           /\ kind' = kind /\ msgs' = msgs /\ stream' = stream /\ ends' = ends
           /\ \A i : Start(i)' = Start(i) /\ DataAt(i)' = DataAt(i)
  <1>1. kind' = kind /\ msgs' = msgs /\ stream' = stream /\ ends' = ends
    BY DEF sentVars
  <1>2. \A i : Start(i)' = Start(i) /\ DataAt(i)' = DataAt(i)
    BY <1>1 DEF Start, DataAt
  <1>3. MessagesOK'
    BY <1>1 DEF MessagesOK, Phases, IsDone
  <1>4. PlainData' <=> PlainData
    BY <1>1 DEF PlainData
  <1>5. \A i \in 1..Len(ends) : Layout(i)'
    BY <1>1, <1>2 DEF StreamOK, Layout, IsDone
  <1>6. Start(Len(ends) + 1)' = Start(Len(ends) + 1)
    BY <1>1 DEF Start
  <1>7. StreamOK'
    BY <1>1, <1>2, <1>4, <1>5, <1>6 DEF StreamOK
  <1> QED
    BY <1>1, <1>2, <1>3, <1>4, <1>7

\* What arrives changes nothing else.
LEMMA ArrivedInv ==
    ASSUME FramingInv, UNCHANGED sentVars, UNCHANGED readerVars,
           arrived' \in Nat, taken <= arrived', arrived' <= Len(stream)
    PROVE  FramingInv'
  <1>1. /\ MessagesOK /\ StreamOK /\ BufferOK /\ ReaderTypes /\ FirstAlone
        /\ DropsOnlyReadAhead /\ Sync /\ DeliveredOK
    BY DEF FramingInv
  <1>3. /\ MessagesOK' /\ StreamOK' /\ (PlainData' <=> PlainData)
        /\ kind' = kind /\ msgs' = msgs /\ stream' = stream /\ ends' = ends
        /\ \A i : Start(i)' = Start(i) /\ DataAt(i)' = DataAt(i)
    BY <1>1, SentSame
  <1>4. /\ taken' = taken /\ buf' = buf /\ stage' = stage /\ wait' = wait /\ type' = type
        /\ acc' = acc /\ got' = got /\ cut' = cut /\ late' = late /\ timeouts' = timeouts
    BY DEF readerVars
  <1>5. BufferOK'
    BY <1>1, <1>3, <1>4 DEF BufferOK, Pos
  <1>6. ReaderTypes' /\ FirstAlone' /\ DropsOnlyReadAhead' /\ DeliveredOK'
    BY <1>1, <1>3, <1>4, SMTT(30)
       DEF ReaderTypes, FirstAlone, DropsOnlyReadAhead, DeliveredOK, Expected, Msg, Phase, Phases,
           TypeLine, NL, Reliable
  <1>7. Sync'
    <2>1. /\ Pos' = Pos /\ Expected(type)' = Expected(type) /\ (InStep' <=> InStep)
          /\ (Reliable(wait)' <=> Reliable(wait)) /\ \A i : In(i)' <=> In(i)
      BY <1>3, <1>4 DEF Pos, Expected, Phase, Phases, TypeLine, NL, InStep, Reliable, In, IsDone
    <2>2. Start(wait)' = Start(wait) /\ Start(wait + 1)' = Start(wait + 1)
      BY <1>3, <1>4 DEF Start
    <2> QED
      BY <1>1, <1>3, <1>4, <2>1, <2>2 DEF Sync
  <1> QED
    BY <1>3, <1>5, <1>6, <1>7 DEF FramingInv

LEMMA ArriveInv ==
    ASSUME FramingInv, NEW n \in arrived + 1 .. Len(stream), Arrive(n)
    PROVE  FramingInv'
  <1>1. UNCHANGED sentVars /\ UNCHANGED readerVars /\ arrived' = n
    BY DEF Arrive
  <1>2. n \in Nat /\ taken <= n /\ n <= Len(stream)
    BY DEF FramingInv, BufferOK, StreamOK
  <1> QED
    BY <1>1, <1>2, ArrivedInv

LEMMA UnchangedInv ==
    ASSUME FramingInv, UNCHANGED sentVars, UNCHANGED readerVars, arrived' = arrived
    PROVE  FramingInv'
  <1>1. arrived \in Nat /\ taken <= arrived /\ arrived <= Len(stream)
    BY DEF FramingInv, BufferOK
  <1> QED
    BY <1>1, ArrivedInv

-----------------------------------------------------------------------------
(* A wait begins *)

\* Where a reader that is in step with all messages sent has nothing left.
LEMMA NothingAhead ==
    ASSUME MessagesOK, StreamOK, BufferOK, NEW e \in Nat, e <= Pos, taken <= e
    PROVE  buf = <<>>
  <1>1. taken \in Nat /\ Len(buf) \in Nat /\ Len(buf) <= taken /\ buf \in Seq(Byte)
    BY DEF BufferOK
  <1>2. Len(buf) = 0
    BY <1>1 DEF Pos
  <1> QED
    BY <1>1, <1>2

LEMMA BeginDrops ==
    ASSUME FramingInv, stage \in {"between", "again"}, buf # <<>>,
           NEW w, w = (IF stage = "again" THEN wait ELSE wait + 1), NewBuffer(w)
    PROVE  \/ kind = "upload" /\ w = 2
           \/ /\ kind = "download" /\ w > 2
              /\ Len(msgs[got[w - 1].msg].data) < N
           \/ kind = "ask" /\ late
  <1> USE DEF FramingInv
  <1>0. /\ DOMAIN got = 1..Len(got) /\ Len(got) \in Nat /\ Len(ends) \in Nat
        /\ \A g \in DOMAIN got : got[g].msg \in 1..Len(msgs)
        /\ Len(msgs) \in Nat
    BY DEF ReaderTypes, MessagesOK, StreamOK
  <1>1. CASE stage = "again"
    BY <1>1 DEF ReaderTypes
  <1>2. CASE stage = "between"
    <2>1. w = wait + 1 /\ wait = Len(got) /\ wait > 0 /\ Len(msgs[got[wait].msg].data) < N
      BY <1>2 DEF ReaderTypes
    <2>2. wait \in Nat /\ w - 1 = wait /\ wait \in DOMAIN got
      <3>1. \A n \in Nat : n > 0 => n \in 1..n /\ (n + 1) - 1 = n
        OBVIOUS
      <3>2. wait \in Nat
        BY <1>0, <2>1
      <3> QED
        BY <1>0, <2>1, <3>1, <3>2
    <2>3. CASE kind = "upload"
      BY <2>1, <2>2, <2>3 DEF NewBuffer
    <2>4. CASE kind \in {"download", "pulls"} /\ wait = 1
      <3>1. Reliable(wait)
        <4>1. \A x \in cut : x # 1
          BY <2>4 DEF DropsOnlyReadAhead
        <4> QED
          BY <2>4, <4>1 DEF Reliable
      <3>2. got[1].msg = 1 /\ 1 <= Len(ends) /\ Pos = Start(wait + 1)
        BY <1>2, <2>2, <2>4, <3>1 DEF Sync, InStep
      <3>3. ends[1] \in Nat /\ Start(2) = ends[1] /\ ends # <<>>
        BY <3>2 DEF StreamOK, Start
      <3>4. taken <= ends[1] /\ Pos = ends[1]
        BY <2>4, <3>2, <3>3 DEF FirstAlone
      <3> QED
        BY <3>3, <3>4, NothingAhead
    <2>5. CASE kind = "download" /\ wait # 1
      BY <2>1, <2>2, <2>5
    <2>6. CASE (kind = "pulls" /\ wait # 1) \/ kind = "ask"
      <3>1. PlainData
        <4>1. \A i \in DOMAIN msgs : msgs[i].data = <<>>
          BY <2>6 DEF MessagesOK
        <4> QED
          BY <4>1 DEF PlainData, ToSet
      <3>2. \A g \in DOMAIN got : got[g].msg <= Len(ends) /\ ends[got[g].msg] <= Pos
        BY <3>1 DEF Sync, InStep
      <3>3. \E g \in DOMAIN got : got[g].msg = Len(msgs)
        <4>1. CASE kind = "ask"
          <5>1. Len(msgs) <= 1
            BY <4>1 DEF MessagesOK, Phases
          <5> QED
            BY <1>0, <2>2, <5>1
        <4>2. CASE kind = "pulls" /\ wait # 1
          <5>1. Len(msgs) <= 2
            BY <4>2 DEF MessagesOK, Phases
          <5>2. Reliable(wait)
            BY <4>2 DEF Reliable, DropsOnlyReadAhead
          <5>3. got[wait].msg = wait
            BY <2>2, <5>2 DEF Sync
          <5> QED
            BY <1>0, <2>2, <4>2, <5>1, <5>3
        <4> QED
          BY <2>6, <4>1, <4>2
      <3>4. PICK g \in DOMAIN got : got[g].msg = Len(msgs)
        BY <3>3
      <3>5. Len(msgs) = Len(ends) /\ Len(ends) \in 1..Len(ends)
        BY <1>0, <3>2, <3>4 DEF StreamOK
      <3>6. ends[Len(ends)] = Start(Len(ends) + 1) /\ ends[Len(ends)] \in Nat
        BY <3>5, StartFacts
      <3>7. taken <= ends[Len(ends)] /\ ends[Len(ends)] <= Pos
        <4>1. Len(stream) = ends[Len(ends)] /\ Len(stream) \in Nat
          BY <3>6 DEF StreamOK
        <4>2. taken <= Len(stream)
          <5>1. taken \in Nat /\ arrived \in Nat /\ taken <= arrived /\ arrived <= Len(stream)
            BY DEF BufferOK
          <5> QED
            BY <4>1, <5>1
        <4> QED
          BY <3>2, <3>4, <3>5, <4>1, <4>2
      <3> QED
        BY <3>6, <3>7, NothingAhead
    <2> QED
      BY <2>3, <2>4, <2>5, <2>6 DEF MessagesOK
  <1> QED
    BY <1>1, <1>2

LEMMA BeginInv == FramingInv /\ Begin => FramingInv'
  <1> SUFFICES ASSUME FramingInv, Begin PROVE FramingInv'
    OBVIOUS
  <1>1. /\ MessagesOK /\ StreamOK /\ BufferOK /\ ReaderTypes /\ FirstAlone
        /\ DropsOnlyReadAhead /\ Sync /\ DeliveredOK
    BY DEF FramingInv
  <1>2. /\ stage \in {"between", "again"}
        /\ wait' = (IF stage = "again" THEN wait ELSE wait + 1)
        /\ stage' = "type" /\ type' = <<>> /\ acc' = <<>>
        /\ IF NewBuffer(wait')
           THEN buf' = <<>> /\ cut' = IF buf = <<>> THEN cut ELSE cut \cup {wait'}
           ELSE buf' = buf /\ cut' = cut
        /\ UNCHANGED sentVars
        /\ arrived' = arrived /\ taken' = taken /\ got' = got /\ late' = late
        /\ timeouts' = timeouts
    BY DEF Begin
  <1>3. /\ MessagesOK' /\ StreamOK' /\ (PlainData' <=> PlainData)
        /\ kind' = kind /\ msgs' = msgs /\ stream' = stream /\ ends' = ends
        /\ \A i : Start(i)' = Start(i) /\ DataAt(i)' = DataAt(i)
    BY <1>1, <1>2, SentSame
  <1>4. PICK w \in Nat : /\ w = wait' /\ w = Len(got) + 1 /\ w >= 1 /\ wait <= w
                         /\ wait \in Nat /\ Len(got) \in Nat
    <2>1. Len(got) \in Nat /\ wait = (IF stage = "between" THEN Len(got) ELSE Len(got) + 1)
      BY <1>1 DEF ReaderTypes
    <2> QED
      BY <1>2, <2>1
  <1>5. \/ buf' = buf /\ cut' = cut
        \/ buf' = <<>> /\ buf # <<>> /\ cut' = cut \cup {w} /\ NewBuffer(w)
    BY <1>2, <1>4
  <1>6. BufferOK' /\ Pos \in Nat /\ Pos' \in Nat /\ Pos <= Pos'
    <2>1. taken \in Nat /\ Len(buf) \in Nat /\ Len(buf) <= taken
      BY <1>1 DEF BufferOK
    <2>2. CASE buf' = buf
      BY <1>1, <1>2, <1>3, <2>1, <2>2 DEF BufferOK, Pos
    <2>3. CASE buf' = <<>>
      <3>1. Len(buf') = 0 /\ buf' \in Seq(Byte)
        BY <2>3
      <3> QED
        BY <1>1, <1>2, <1>3, <2>1, <3>1, BufferAssumption DEF BufferOK, Pos
    <2> QED
      BY <1>5, <2>2, <2>3
  <1>7. ReaderTypes'
    <2>1. cut' \subseteq 1..w
      <3>1. cut \subseteq 1..wait
        BY <1>1 DEF ReaderTypes
      <3>2. 1..wait \subseteq 1..w /\ w \in 1..w
        BY <1>4
      <3> QED
        BY <1>5, <3>1, <3>2
    <2>2. type' \in Seq(Byte) /\ acc' \in Seq(Byte)
      BY <1>2
    <2> QED
      BY <1>1, <1>2, <1>3, <1>4, <2>1, <2>2 DEF ReaderTypes
  <1>8. FirstAlone'
    BY <1>1, <1>2, <1>3, <1>4 DEF FirstAlone
  <1>9. DropsOnlyReadAhead'
    <2> SUFFICES ASSUME NEW x \in cut'
                 PROVE  \/ kind = "upload" /\ x = 2
                        \/ /\ kind = "download" /\ x > 2
                           /\ Len(msgs[got[x - 1].msg].data) < N
                        \/ kind = "ask" /\ late
      BY <1>2, <1>3 DEF DropsOnlyReadAhead
    <2>1. CASE x \in cut
      BY <1>1, <2>1 DEF DropsOnlyReadAhead
    <2>2. CASE x \notin cut
      <3>1. x = w /\ buf # <<>> /\ NewBuffer(w)
        BY <1>5, <2>2
      <3>2. w = (IF stage = "again" THEN wait ELSE wait + 1)
        BY <1>2, <1>4
      <3> QED
        BY <1>2, <3>1, <3>2, BeginDrops
    <2> QED
      BY <2>1, <2>2
  <1>10. \A h : Reliable(h)' => Reliable(h)
    BY <1>3, <1>5 DEF Reliable
  <1>11. Reliable(wait)' => Reliable(wait) /\ buf' = buf /\ stage = "between" /\ w = wait + 1
    <2> SUFFICES ASSUME Reliable(wait)'
                 PROVE  Reliable(wait) /\ buf' = buf /\ stage = "between" /\ w = wait + 1
      OBVIOUS
    <2>1. cut' \cap 1..w = {} /\ kind # "ask"
      BY <1>3, <1>4 DEF Reliable
    <2>2. buf' = buf /\ cut' = cut
      BY <1>4, <1>5, <2>1
    <2>3. stage = "between"
      BY <1>1, <1>2, <2>1 DEF ReaderTypes
    <2> QED
      BY <1>2, <1>4, <2>1, <2>2, <2>3 DEF Reliable
  <1>12. InStep' => InStep
    BY <1>3, <1>11 DEF InStep
  <1>13. Sync'
    <2>1. InStep' => \A g \in DOMAIN got : got[g].msg <= Len(ends) /\ ends[got[g].msg] <= Pos'
      <3> SUFFICES ASSUME InStep, NEW g \in DOMAIN got
                   PROVE  got[g].msg <= Len(ends) /\ ends[got[g].msg] <= Pos'
        BY <1>12
      <3>1. got[g].msg <= Len(ends) /\ ends[got[g].msg] <= Pos
        BY <1>1 DEF Sync
      <3>2. ends[got[g].msg] \in Nat
        <4>1. got[g].msg \in 1..Len(ends)
          BY <1>1, <3>1, SMTT(30) DEF StreamOK, ReaderTypes, MessagesOK
        <4> QED
          BY <1>1, <4>1 DEF StreamOK
      <3> QED
        BY <1>6, <3>1, <3>2
    <2>2. Reliable(wait)' => \A g \in DOMAIN got : got[g].msg = g
      BY <1>1, <1>11 DEF Sync
    <2>3. Reliable(wait)' => Pos' = Start(wait)'
      <3> SUFFICES ASSUME Reliable(wait)' PROVE Pos' = Start(wait)'
        OBVIOUS
      <3>1. Pos = Start(w) /\ Pos' = Pos
        BY <1>1, <1>2, <1>11 DEF Sync, Pos
      <3>2. Start(w)' = Start(wait)'
        BY <1>4 DEF Start
      <3> QED
        BY <1>3, <3>1, <3>2
    <2>4. NL \notin ToSet(acc') /\ \A i \in DOMAIN msgs : acc' # <<<<"type", i>>>>
      BY <1>2 DEF ToSet
    <2> QED
      BY <1>2, <1>3, <2>1, <2>2, <2>3, <2>4 DEF Sync
  <1>14. DeliveredOK'
    BY <1>1, <1>2, <1>3, <1>10 DEF DeliveredOK
  <1> QED
    BY <1>3, <1>6, <1>7, <1>8, <1>9, <1>13, <1>14 DEF FramingInv

-----------------------------------------------------------------------------
(* The buffer *)

LEMMA BufferNumbers ==
    ASSUME BufferOK
    PROVE  /\ Len(buf) \in Nat /\ taken \in Nat /\ Pos \in Nat /\ arrived \in Nat
           /\ taken = Pos + Len(buf) /\ taken <= arrived /\ Len(buf) <= N
           /\ buf \in Seq(Byte) /\ \A k \in 1..Len(buf) : buf[k] = stream[Pos + k]
  <1>1. Len(buf) \in Nat /\ taken \in Nat /\ Len(buf) <= taken
    BY DEF BufferOK
  <1> QED
    BY <1>1 DEF BufferOK, Pos

\* Bytes leave the buffer at its front.
LEMMA CutBuffer ==
    ASSUME BufferOK, NEW n \in Nat, n <= Len(buf), buf' = SubSeq(buf, n + 1, Len(buf)),
           stream' = stream, taken' = taken, arrived' = arrived
    PROVE  BufferOK' /\ Pos' = Pos + n /\ Len(buf') = Len(buf) - n /\ buf' \in Seq(Byte)
  <1>1. PICK l \in Nat, p \in Nat :
            /\ l = Len(buf) /\ p = Pos /\ taken = p + l /\ taken \in Nat
            /\ l <= N /\ \A k \in 1..l : buf[k] = stream[p + k]
    BY BufferNumbers
  <1>2. /\ buf' \in Seq(Byte) /\ Len(buf') = l - n
        /\ \A k \in 1 .. l - n : buf'[k] = buf[n + k]
    <2>1. buf \in Seq(Byte) /\ n \in 0..Len(buf)
      BY <1>1 DEF BufferOK
    <2> QED
      BY <1>1, <2>1, CutFacts
  <1>3. Pos' = p + n
    <2>1. Pos' = taken - (l - n)
      BY <1>2 DEF Pos
    <2> QED
      BY <1>1, <2>1
  <1>4. \A k \in 1 .. l - n : buf'[k] = stream[(p + n) + k]
    <2> SUFFICES ASSUME NEW k \in 1 .. l - n PROVE buf'[k] = stream[(p + n) + k]
      OBVIOUS
    <2>1. n + k \in 1..l /\ p + (n + k) = (p + n) + k
      BY <1>1
    <2> QED
      BY <1>1, <1>2, <2>1
  <1>5. l - n <= taken' /\ l - n <= N
    BY <1>1, BufferAssumption
  <1> QED
    BY <1>1, <1>2, <1>3, <1>4, <1>5 DEF BufferOK

\* What recv takes while the first message is awaited is of that message.
LEMMA TakeFirst ==
    ASSUME FramingInv, stage # "between", UNCHANGED sentVars, wait' = wait,
           taken' \in Nat, taken' <= arrived, got' = got \/ got' # <<>>
    PROVE  FirstAlone'
  <1>1. MessagesOK /\ StreamOK /\ BufferOK /\ ReaderTypes /\ FirstAlone
    BY DEF FramingInv
  <1>2. ends' = ends /\ kind' = kind /\ Len(ends) \in Nat
    BY <1>1, SentSame DEF StreamOK
  <1>3. ASSUME kind \in {"download", "pulls"}, wait <= 1
        PROVE  taken' <= (IF ends = <<>> THEN 0 ELSE ends[1])
    <2>1. got = <<>>
      <3>1. wait = Len(got) + 1 /\ Len(got) \in Nat
        BY <1>1 DEF ReaderTypes
      <3>2. Len(got) = 0
        BY <1>3, <3>1
      <3> QED
        BY <1>1, <3>2 DEF ReaderTypes
    <2>2. Len(ends) <= 1
      BY <1>1, <1>3, <2>1 DEF FirstAlone
    <2>3. Len(stream) = Start(Len(ends) + 1) /\ Len(stream) \in Nat
      BY <1>1 DEF StreamOK
    <2>4. taken' <= Len(stream)
      <3>1. arrived \in Nat /\ arrived <= Len(stream)
        BY <1>1 DEF BufferOK
      <3> QED
        BY <2>3, <3>1
    <2>5. CASE Len(ends) = 0
      <3>1. ends = <<>>
        BY <1>1, <2>5 DEF StreamOK
      <3>2. Len(stream) = 0
        BY <2>3, <2>5 DEF Start
      <3> QED
        BY <2>4, <3>1, <3>2
    <2>6. CASE Len(ends) = 1
      <3>1. ends # <<>> /\ Start(2) = ends[1] /\ Len(ends) + 1 = 2
        <4>1. ends # <<>> /\ Len(ends) + 1 = 2
          BY <2>6
        <4>2. 2 # 1 /\ 2 - 1 = 1
          OBVIOUS
        <4> QED
          BY <4>1, <4>2 DEF Start
      <3> QED
        BY <2>3, <2>4, <3>1
    <2>7. \A x \in Nat : x <= 1 => x = 0 \/ x = 1
      OBVIOUS
    <2> QED
      BY <1>2, <2>2, <2>5, <2>6, <2>7
  <1> QED
    BY <1>1, <1>2, <1>3 DEF FirstAlone

LEMMA RecvInv == FramingInv /\ Recv => FramingInv'
  <1> SUFFICES ASSUME FramingInv, Recv PROVE FramingInv'
    OBVIOUS
  <1>1. /\ MessagesOK /\ StreamOK /\ BufferOK /\ ReaderTypes /\ FirstAlone
        /\ DropsOnlyReadAhead /\ Sync /\ DeliveredOK
    BY DEF FramingInv
  <1>a. PICK l \in Nat, t \in Nat, a \in Nat, p \in Nat :
            /\ l = Len(buf) /\ t = taken /\ a = arrived /\ t <= a /\ a <= Len(stream)
            /\ l <= N /\ p = Pos /\ t = p + l
    <2>1. arrived <= Len(stream)
      BY <1>1 DEF BufferOK
    <2> QED
      BY <1>1, <2>1, BufferNumbers
  <1>b. PICK n \in Nat :
            /\ n > 0 /\ n <= N - l /\ n <= a - t
            /\ buf' = buf \o SubSeq(stream, t + 1, t + n)
            /\ taken' = t + n
    <2>1. Room = N - l
      BY <1>a DEF Room
    <2> DEFINE n == IF Room < arrived - taken THEN Room ELSE arrived - taken
    <2>2. /\ n > 0 /\ buf' = buf \o SubSeq(stream, taken + 1, taken + n)
          /\ taken' = taken + n
      BY DEF Recv
    <2>3. n \in Nat /\ n <= N - l /\ n <= a - t
      BY <1>a, <2>1, <2>2, BufferAssumption
    <2> HIDE DEF n
    <2> QED
      BY <1>a, <2>2, <2>3
  <1>2. /\ UNCHANGED sentVars /\ arrived' = arrived /\ wait' = wait /\ timeouts' = timeouts
        /\ stage' = stage /\ type' = type /\ acc' = acc /\ got' = got /\ cut' = cut
        /\ late' = late /\ stage \in {"type", "header"}
    BY DEF Recv, Here, InLine
  <1>3. /\ MessagesOK' /\ StreamOK' /\ (PlainData' <=> PlainData)
        /\ kind' = kind /\ msgs' = msgs /\ stream' = stream /\ ends' = ends
        /\ \A i : Start(i)' = Start(i) /\ DataAt(i)' = DataAt(i)
    BY <1>1, <1>2, SentSame
  <1>4. /\ buf' \in Seq(Byte) /\ Len(buf') = l + n
        /\ \A k \in 1..l : buf'[k] = buf[k]
        /\ \A k \in 1..n : buf'[l + k] = stream[t + k]
    <2> DEFINE s == SubSeq(stream, t + 1, t + n)
    <2>1. stream \in Seq(Byte) /\ Len(stream) \in Nat /\ \A i \in 1..Len(stream) : stream[i] \in Byte
      BY <1>1 DEF StreamOK
    <2>2. t + 1 \in 1 .. Len(stream) + 1 /\ t + n \in t .. Len(stream)
      BY <1>a, <1>b, <2>1
    <2>3. /\ s \in Seq(Byte) /\ Len(s) = n /\ \A k \in 1..n : s[k] = stream[t + k]
      <3>1. \A i \in t + 1 .. t + n : stream[i] \in Byte
        BY <2>1, <2>2
      <3>2. /\ s \in Seq(Byte)
            /\ Len(s) = IF t + 1 <= t + n THEN (t + n) - (t + 1) + 1 ELSE 0
            /\ \A i \in 1 .. (t + n) - (t + 1) + 1 : s[i] = stream[t + 1 + i - 1]
        BY <2>1, <3>1, SubSeqProperties
      <3>3. (t + n) - (t + 1) + 1 = n /\ \A k \in 1..n : t + 1 + k - 1 = t + k
        BY <1>a, <1>b
      <3> QED
        BY <1>b, <3>2, <3>3
    <2>4. buf \in Seq(Byte) /\ buf' = buf \o s
      BY <1>1, <1>b DEF BufferOK
    <2> HIDE DEF s
    <2>5. /\ buf \o s \in Seq(Byte) /\ Len(buf \o s) = Len(buf) + Len(s)
          /\ \A k \in 1..Len(buf) : (buf \o s)[k] = buf[k]
          /\ \A k \in 1..Len(s) : (buf \o s)[Len(buf) + k] = s[k]
      BY <2>3, <2>4, JoinFacts, Zenon
    <2> QED
      BY <1>a, <2>3, <2>4, <2>5
  <1>5. Pos' = p
    <2>1. Pos' = (t + n) - (l + n)
      BY <1>b, <1>4 DEF Pos
    <2> QED
      BY <1>a, <1>b, <2>1
  <1>6. BufferOK'
    <2>1. \A k \in 1 .. l + n : buf'[k] = stream[p + k]
      <3> SUFFICES ASSUME NEW k \in 1 .. l + n PROVE buf'[k] = stream[p + k]
        OBVIOUS
      <3>1. CASE k <= l
        <4>1. k \in 1..l
          BY <3>1
        <4> QED
          BY <1>1, <1>4, <1>a, <4>1 DEF BufferOK
      <3>2. CASE k > l
        <4>1. k - l \in 1..n /\ l + (k - l) = k /\ t + (k - l) = p + k
          BY <1>a, <1>b, <3>2
        <4> QED
          BY <1>4, <4>1
      <3> QED
        BY <1>a, <1>b, <3>1, <3>2
    <2>2. /\ l + n <= t + n /\ t + n <= a /\ l + n <= N /\ t + n \in Nat
      BY <1>a, <1>b, BufferAssumption
    <2> QED
      BY <1>2, <1>3, <1>4, <1>5, <1>a, <1>b, <2>1, <2>2 DEF BufferOK
  <1>7. ReaderTypes' /\ DropsOnlyReadAhead' /\ DeliveredOK'
    BY <1>1, <1>2, <1>3
       DEF ReaderTypes, DropsOnlyReadAhead, DeliveredOK, Reliable
  <1>8. FirstAlone'
    <2>1. taken' \in Nat /\ taken' <= arrived
      BY <1>a, <1>b
    <2> QED
      BY <1>2, <2>1, TakeFirst
  <1>9. Sync'
    <2>1. /\ Pos' = Pos /\ Expected(type)' = Expected(type) /\ (InStep' <=> InStep)
          /\ (Reliable(wait)' <=> Reliable(wait)) /\ \A i : In(i)' <=> In(i)
      BY <1>2, <1>3, <1>5, <1>a
         DEF Expected, Phase, Phases, TypeLine, NL, InStep, Reliable, In, IsDone
    <2>2. Start(wait)' = Start(wait)
      BY <1>2, <1>3 DEF Start
    <2> QED
      BY <1>1, <1>2, <1>3, <2>1, <2>2 DEF Sync
  <1> QED
    BY <1>3, <1>6, <1>7, <1>8, <1>9 DEF FramingInv

\* A buffer that begins with a type line has its newline next.
LEMMA LineAhead ==
    ASSUME StreamOK, MessagesOK, BufferOK, NEW i \in 1..Len(ends), Pos = Start(i), buf # <<>>
    PROVE  buf[1] = <<"type", i>> /\ (Len(buf) > 1 => buf[2] = NL)
  <1>1. /\ Len(buf) \in Nat /\ buf \in Seq(Byte) /\ \A k \in 1..Len(buf) : buf[k] = stream[Pos + k]
    BY BufferNumbers
  <1>2. Len(buf) > 0
    BY <1>1
  <1>3. stream[Pos + 1] = <<"type", i>> /\ stream[Pos + 2] = NL
    BY DEF StreamOK, Layout
  <1>4. 1 \in 1..Len(buf) /\ (Len(buf) > 1 => 2 \in 1..Len(buf))
    BY <1>1, <1>2
  <1> QED
    BY <1>1, <1>3, <1>4

\* The reader never goes back: what was delivered stays behind it.
LEMMA StaysBehind ==
    ASSUME FramingInv, InStep, NEW g \in DOMAIN got, NEW q \in Nat, Pos <= q
    PROVE  /\ got[g].msg \in 1..Len(ends) /\ got[g].msg <= Len(ends)
           /\ ends[got[g].msg] \in Nat /\ ends[got[g].msg] <= q
  <1>1. /\ MessagesOK /\ StreamOK /\ BufferOK /\ ReaderTypes /\ Sync
    BY DEF FramingInv
  <1>2. got[g].msg <= Len(ends) /\ ends[got[g].msg] <= Pos
    BY <1>1 DEF Sync
  <1>3. got[g].msg \in 1..Len(ends)
    <2>1. got[g].msg \in 1..Len(msgs) /\ Len(msgs) \in Nat /\ Len(ends) \in Nat
      BY <1>1 DEF ReaderTypes, MessagesOK, StreamOK
    <2> QED
      BY <1>2, <2>1
  <1>4. ends[got[g].msg] \in Nat
    BY <1>1, <1>3 DEF StreamOK
  <1>5. Pos \in Nat
    BY <1>1, BufferNumbers
  <1> QED
    BY <1>2, <1>3, <1>4, <1>5

\* As long as nothing was dropped, a wait begins where its message does.
LEMMA AtStart ==
    ASSUME FramingInv, stage = "type", Reliable(wait), buf # <<>>
    PROVE  wait \in 1..Len(ends) /\ Pos = Start(wait) /\ acc = <<>>
  <1>1. /\ MessagesOK /\ StreamOK /\ BufferOK /\ ReaderTypes /\ Sync
    BY DEF FramingInv
  <1>2. PICK w \in Nat, e \in Nat : w = wait /\ w = Len(got) + 1 /\ e = Len(ends) /\ w >= 1
    <2>1. Len(got) \in Nat /\ wait = Len(got) + 1 /\ Len(ends) \in Nat
      BY <1>1 DEF ReaderTypes, StreamOK
    <2> QED
      BY <2>1
  <1>3. Pos = Start(wait) /\ acc = <<>>
    BY <1>1 DEF Sync
  <1>4. w <= e + 1
    <2>1. CASE w = 1
      BY <1>2, <2>1
    <2>2. CASE w # 1
      <3>1. w - 1 \in DOMAIN got /\ w - 1 = Len(got)
        <4>1. DOMAIN got = 1..Len(got) /\ Len(got) \in Nat
          BY <1>1 DEF ReaderTypes
        <4> QED
          BY <1>2, <2>2, <4>1
      <3>2. got[w - 1].msg = w - 1 /\ got[w - 1].msg <= e
        BY <1>1, <1>2, <3>1 DEF Sync, InStep
      <3> QED
        BY <1>2, <3>2
    <2> QED
      BY <2>1, <2>2
  <1>5. w # e + 1
    <2> SUFFICES ASSUME w = e + 1 PROVE FALSE
      OBVIOUS
    <2>1. Pos = Len(stream) /\ Len(stream) \in Nat
      <3>1. wait = Len(ends) + 1
        BY <1>2
      <3> QED
        BY <1>1, <1>3, <3>1 DEF StreamOK
    <2>2. taken <= Len(stream) /\ Len(stream) <= Pos
      <3>1. taken \in Nat /\ arrived \in Nat /\ taken <= arrived /\ arrived <= Len(stream)
        BY <1>1 DEF BufferOK
      <3> QED
        BY <2>1, <3>1
    <2> QED
      BY <1>1, <2>1, <2>2, NothingAhead
  <1>6. w \in 1..e
    BY <1>2, <1>4, <1>5
  <1> QED
    BY <1>2, <1>3, <1>6

\* If no data looks like a type line, what does is one.
LEMMA TypeAhead ==
    ASSUME StreamOK, MessagesOK, BufferOK, PlainData, NEW i \in DOMAIN msgs,
           buf # <<>>, buf[1] = <<"type", i>>
    PROVE  i \in 1..Len(ends) /\ Pos = Start(i)
  <1>1. /\ Len(buf) \in Nat /\ buf \in Seq(Byte) /\ \A k \in 1..Len(buf) : buf[k] = stream[Pos + k]
        /\ Pos \in Nat /\ taken = Pos + Len(buf) /\ arrived \in Nat /\ taken <= arrived
    BY BufferNumbers
  <1>2. Len(buf) > 0
    BY <1>1
  <1>3. Pos + 1 \in 1..Len(stream)
    <2>1. arrived <= Len(stream) /\ Len(stream) \in Nat
      BY DEF BufferOK, StreamOK
    <2> QED
      BY <1>1, <1>2, <2>1
  <1>4. stream[Pos + 1] = <<"type", i>>
    <2>1. 1 \in 1..Len(buf)
      BY <1>1, <1>2
    <2> QED
      BY <1>1, <2>1
  <1>5. i <= Len(ends) /\ Pos + 1 = Start(i) + 1
    BY <1>3, <1>4 DEF StreamOK
  <1>6. i \in 1..Len(ends)
    BY <1>5 DEF MessagesOK, StreamOK
  <1>7. Start(i) \in Nat
    BY <1>6, StartFacts, SMTT(30) DEF StreamOK
  <1> QED
    BY <1>1, <1>5, <1>6, <1>7

LEMMA HalfBuffer ==
    ASSUME BufferOK, Crowded
    PROVE  Len(buf) > 1 /\ buf # <<>>
  <1>1. N \in Nat /\ N > 3 /\ Len(buf) \in Nat /\ Len(buf) >= N \div 2
    BY BufferAssumption, BufferNumbers DEF Crowded
  <1>2. Len(buf) > 1
    BY <1>1
  <1> QED
    BY <1>2

\* Half a buffer of a header is of the header's bytes.
LEMMA HeaderAhead ==
    ASSUME FramingInv, stage = "header", InStep, NEW i \in Expected(type)
    PROVE  /\ i \in 1..Len(ends) /\ In(i) /\ Start(i) \in Nat
           /\ Len(acc) \in Nat /\ msgs[i].header \in Nat /\ Len(acc) <= msgs[i].header
           /\ Pos = Start(i) + 2 + Len(acc)
           /\ \A k \in 1..Len(acc) : acc[k] = <<"header", i>>
           /\ \A k \in 1..Len(buf) :
                 /\ k <= msgs[i].header - Len(acc) => buf[k] = <<"header", i>>
                 /\ k = msgs[i].header - Len(acc) + 1 => buf[k] = NUL
  <1>1. MessagesOK /\ StreamOK /\ BufferOK /\ ReaderTypes /\ Sync
    BY DEF FramingInv
  <1>2. /\ In(i) /\ Pos = Start(i) + 2 + Len(acc) /\ Len(acc) <= msgs[i].header
        /\ \A k \in 1..Len(acc) : acc[k] = <<"header", i>>
    BY <1>1 DEF Sync
  <1>3. i \in 1..Len(ends) /\ ~IsDone(msgs[i])
    BY <1>1, <1>2 DEF In, Expected, MessagesOK, StreamOK
  <1>4. PICK s \in Nat, h \in Nat, a \in Nat, l \in Nat :
            s = Start(i) /\ h = msgs[i].header /\ a = Len(acc) /\ l = Len(buf)
    <2>1. Start(i) \in Nat
      BY <1>1, <1>3, StartFacts DEF StreamOK
    <2>2. msgs[i].header \in Nat /\ Len(acc) \in Nat
      <3>1. i \in DOMAIN msgs /\ acc \in Seq(Byte)
        BY <1>1 DEF Expected, ReaderTypes
      <3> QED
        BY <1>1, <3>1 DEF MessagesOK
    <2>3. Len(buf) \in Nat
      BY <1>1, BufferNumbers
    <2> QED
      BY <2>1, <2>2, <2>3
  <1>5. /\ \A k \in 1..h : stream[s + 2 + k] = <<"header", i>>
        /\ stream[s + 3 + h] = NUL
    BY <1>1, <1>3, <1>4 DEF StreamOK, Layout, DataAt
  <1>6. \A k \in 1..l : buf[k] = stream[(s + 2 + a) + k]
    BY <1>1, <1>2, <1>4, BufferNumbers
  <1>7. \A k \in 1..l : k <= h - a => buf[k] = <<"header", i>>
    <2> SUFFICES ASSUME NEW k \in 1..l, k <= h - a PROVE buf[k] = <<"header", i>>
      OBVIOUS
    <2>1. a + k \in 1..h /\ (s + 2 + a) + k = s + 2 + (a + k)
      BY <1>4, SMTT(30)
    <2> QED
      BY <1>5, <1>6, <2>1
  <1>8. \A k \in 1..l : k = h - a + 1 => buf[k] = NUL
    <2> SUFFICES ASSUME NEW k \in 1..l, k = h - a + 1 PROVE buf[k] = NUL
      OBVIOUS
    <2>1. (s + 2 + a) + k = s + 3 + h
      <3>1. \A x, y, z \in Nat : (x + 2 + z) + (y - z + 1) = x + 3 + y
        OBVIOUS
      <3>2. s \in Nat /\ h \in Nat /\ a \in Nat
        BY <1>4
      <3> QED
        BY <3>1, <3>2
    <2> QED
      BY <1>5, <1>6, <2>1
  <1> QED
    BY <1>2, <1>3, <1>4, <1>7, <1>8

LEMMA AppendSync ==
    ASSUME FramingInv, AppendPart, Pos' = Pos + Len(buf), acc' = acc \o CString(buf)
    PROVE  Sync'
  <1>1. /\ MessagesOK /\ StreamOK /\ BufferOK /\ ReaderTypes /\ Sync
    BY DEF FramingInv
  <1>2. /\ UNCHANGED sentVars /\ arrived' = arrived /\ wait' = wait /\ timeouts' = timeouts
        /\ stage' = stage /\ type' = type /\ taken' = taken /\ got' = got /\ cut' = cut
        /\ late' = late /\ stage \in {"type", "header"} /\ ~Found /\ Crowded
    BY DEF AppendPart, Here, InLine
  <1>3. /\ (PlainData' <=> PlainData)
        /\ kind' = kind /\ msgs' = msgs /\ stream' = stream /\ ends' = ends
        /\ \A i : Start(i)' = Start(i) /\ DataAt(i)' = DataAt(i)
    BY <1>1, <1>2, SentSame
  <1>4. /\ Expected(type)' = Expected(type) /\ (InStep' <=> InStep)
        /\ (Reliable(wait)' <=> Reliable(wait)) /\ \A i : In(i)' <=> In(i)
    BY <1>2, <1>3 DEF Expected, Phase, Phases, TypeLine, NL, InStep, Reliable, In, IsDone
  <1>5. /\ Len(buf) \in Nat /\ buf \in Seq(Byte) /\ Pos \in Nat /\ Len(buf) > 1 /\ buf # <<>>
    BY <1>1, <1>2, BufferNumbers, HalfBuffer
  <1>6. /\ CString(buf) \in Seq(Byte) /\ Len(CString(buf)) \in Nat
        /\ \A k \in 1..Len(CString(buf)) : CString(buf)[k] = buf[k] /\ k \in 1..Len(buf)
        /\ NUL \notin ToSet(buf) => CString(buf) = buf
    <2>1. CString(buf) \in Seq(Byte) /\ Len(CString(buf)) <= Len(buf)
      BY <1>5, CStringFacts
    <2>2. Len(CString(buf)) \in Nat
      BY <2>1
    <2>3. \A k \in 1..Len(CString(buf)) : k \in 1..Len(buf)
      BY <1>5, <2>1, <2>2
    <2> QED
      BY <1>5, <2>1, <2>2, <2>3, CStringFacts
  <1>7. PICK a \in Nat, c \in Nat :
            /\ a = Len(acc) /\ c = Len(CString(buf)) /\ Len(acc') = a + c
            /\ \A k \in 1..a : acc'[k] = acc[k]
            /\ \A k \in 1..c : acc'[a + k] = CString(buf)[k]
    <2>1. acc \in Seq(Byte) /\ Len(acc) \in Nat
      BY <1>1 DEF ReaderTypes
    <2>2. /\ Len(acc \o CString(buf)) = Len(acc) + Len(CString(buf))
          /\ \A k \in 1..Len(acc) : (acc \o CString(buf))[k] = acc[k]
          /\ \A k \in 1..Len(CString(buf)) :
                (acc \o CString(buf))[Len(acc) + k] = CString(buf)[k]
      BY <1>6, <2>1, JoinFacts, Zenon
    <2> QED
      BY <1>6, <2>1, <2>2
  <1>8. InStep => \A g \in DOMAIN got : got[g].msg <= Len(ends) /\ ends[got[g].msg] <= Pos'
    <2> SUFFICES ASSUME InStep, NEW g \in DOMAIN got
                 PROVE  got[g].msg <= Len(ends) /\ ends[got[g].msg] <= Pos'
      OBVIOUS
    <2>1. Pos' \in Nat /\ Pos <= Pos'
      BY <1>5
    <2> QED
      BY <2>1, StaysBehind
  <1>9. CASE stage = "type"
    <2>1. NL \notin ToSet(buf) /\ \A k \in 1..Len(buf) : buf[k] # NL
      BY <1>2, <1>5, <1>9 DEF Found, Det, ToSet
    <2>2. 2 \in 1..Len(buf) /\ 1 \in 1..Len(buf)
      BY <1>5
    <2>3. ~Reliable(wait)
      <3> SUFFICES ASSUME Reliable(wait) PROVE FALSE
        OBVIOUS
      <3>1. PICK w : w = wait /\ w \in 1..Len(ends) /\ Pos = Start(w)
        BY <1>5, <1>9, AtStart
      <3>2. buf[2] = NL
        BY <1>1, <1>5, <3>1, LineAhead
      <3> QED
        BY <2>1, <2>2, <3>2
    <2>4. ASSUME PlainData PROVE NL \notin ToSet(acc')
      <3>1. \A k \in 1..a : acc[k] # NL
        <4>1. NL \notin ToSet(acc) /\ acc \in Seq(Byte)
          BY <1>1, <1>9, <2>4 DEF Sync, ReaderTypes
        <4> QED
          BY <1>7, <4>1 DEF ToSet
      <3>2. \A k \in 1 .. a + c : acc'[k] # NL
        <4> SUFFICES ASSUME NEW k \in 1 .. a + c PROVE acc'[k] # NL
          OBVIOUS
        <4>1. CASE k <= a
          BY <1>7, <3>1, <4>1
        <4>2. CASE k > a
          <5>1. k - a \in 1..c /\ a + (k - a) = k
            BY <1>7, <4>2
          <5> QED
            BY <1>6, <1>7, <2>1, <5>1, SMTT(30)
        <4> QED
          BY <1>7, <4>1, <4>2
      <3>3. acc' \in Seq(Byte)
        BY <1>1, <1>6, JoinFacts DEF ReaderTypes
      <3> QED
        BY <1>7, <3>2, <3>3 DEF ToSet
    <2>5. ASSUME PlainData, NEW i \in DOMAIN msgs, acc' = <<<<"type", i>>>> PROVE FALSE
      <3>1. a + c = 1 /\ acc'[1] = <<"type", i>>
        BY <1>7, <2>5
      <3>2. CASE a = 0
        <4>1. 1 \in 1..c /\ a + 1 = 1
          <5>1. a \in Nat /\ c \in Nat
            BY <1>7
          <5> QED
            BY <3>1, <3>2, <5>1
        <4>2. buf[1] = <<"type", i>>
          BY <1>6, <1>7, <3>1, <4>1
        <4>3. i \in 1..Len(ends) /\ Pos = Start(i)
          BY <1>1, <1>5, <2>5, <4>2, TypeAhead
        <4>4. buf[2] = NL
          BY <1>1, <1>5, <4>3, LineAhead
        <4> QED
          BY <2>1, <2>2, <4>4
      <3>3. CASE a = 1
        <4>1. acc \in Seq(Byte) /\ Len(acc) = 1 /\ acc[1] = <<"type", i>>
          BY <1>1, <1>7, <3>1, <3>3 DEF ReaderTypes
        <4>2. acc = <<<<"type", i>>>>
          <5> DEFINE x == <<"type", i>>
          <5>1. acc \in Seq(Byte) /\ Len(acc) = 1 /\ acc[1] = x
            BY <4>1
          <5> HIDE DEF x
          <5>2. acc = <<x>>
            BY <5>1
          <5> QED
            BY <5>2 DEF x
        <4> QED
          BY <1>1, <1>9, <2>5, <4>2 DEF Sync
      <3> QED
        BY <1>7, <3>1, <3>2, <3>3
    <2> QED
      BY <1>1, <1>2, <1>3, <1>4, <1>8, <1>9, <2>3, <2>4, <2>5 DEF Sync
  <1>10. CASE stage = "header"
    <2>1. NUL \notin ToSet(buf) /\ \A k \in 1..Len(buf) : buf[k] # NUL
      BY <1>2, <1>5, <1>10 DEF Found, Det, ToSet
    <2>2. CString(buf) = buf /\ c = Len(buf)
      BY <1>6, <1>7, <2>1
    <2>3. ASSUME InStep, NEW i \in Expected(type)
          PROVE  /\ In(i) /\ Pos' = Start(i) + 2 + Len(acc') /\ Len(acc') <= msgs[i].header
                 /\ \A k \in 1..Len(acc') : acc'[k] = <<"header", i>>
      <3>1. PICK s \in Nat, h \in Nat :
               /\ s = Start(i) /\ h = msgs[i].header /\ In(i) /\ a <= h
               /\ Pos = s + 2 + a
               /\ \A k \in 1..a : acc[k] = <<"header", i>>
               /\ \A k \in 1..c : /\ k <= h - a => buf[k] = <<"header", i>>
                                  /\ k = h - a + 1 => buf[k] = NUL
        <4>1. /\ In(i) /\ Start(i) \in Nat
              /\ msgs[i].header \in Nat /\ Len(acc) <= msgs[i].header
              /\ Pos = Start(i) + 2 + Len(acc)
              /\ \A k \in 1..Len(acc) : acc[k] = <<"header", i>>
              /\ \A k \in 1..Len(buf) :
                    /\ k <= msgs[i].header - Len(acc) => buf[k] = <<"header", i>>
                    /\ k = msgs[i].header - Len(acc) + 1 => buf[k] = NUL
          BY <1>10, <2>3, HeaderAhead
        <4>2. a = Len(acc) /\ c = Len(buf)
          BY <1>7, <2>2
        <4> QED
          BY <4>1, <4>2
      <3>a. a \in Nat /\ c \in Nat /\ s \in Nat /\ h \in Nat
        BY <1>7, <3>1
      <3>2. a + c <= h
        <4> SUFFICES ASSUME a + c > h PROVE FALSE
          BY <3>a
        <4>1. h - a + 1 \in 1..c
          <5>1. a <= h
            BY <3>1
          <5> QED
            BY <3>a, <5>1
        <4> QED
          BY <2>1, <2>2, <3>1, <4>1
      <3>3. \A k \in 1 .. a + c : acc'[k] = <<"header", i>>
        <4> SUFFICES ASSUME NEW k \in 1 .. a + c PROVE acc'[k] = <<"header", i>>
          OBVIOUS
        <4>1. CASE k <= a
          BY <1>7, <3>1, <4>1
        <4>2. CASE k > a
          <5>1. k - a \in 1..c /\ a + (k - a) = k /\ k - a <= h - a
            BY <3>a, <3>2, <4>2
          <5>2. acc'[k] = CString(buf)[k - a]
            BY <1>7, <5>1
          <5>3. buf[k - a] = <<"header", i>>
            BY <3>1, <5>1
          <5> QED
            BY <2>2, <5>2, <5>3
        <4> QED
          BY <1>7, <4>1, <4>2
      <3>4. Pos' = s + 2 + (a + c)
        <4>1. Pos' = (s + 2 + a) + c
          BY <2>2, <3>1
        <4> QED
          BY <3>a, <4>1
      <3> QED
        BY <1>7, <3>1, <3>2, <3>3, <3>4
    <2> QED
      BY <1>1, <1>2, <1>3, <1>4, <1>8, <1>10, <2>3 DEF Sync
  <1> QED
    BY <1>2, <1>9, <1>10

LEMMA AppendInv == FramingInv /\ AppendPart => FramingInv'
  <1> SUFFICES ASSUME FramingInv, AppendPart PROVE FramingInv'
    OBVIOUS
  <1>1. /\ MessagesOK /\ StreamOK /\ BufferOK /\ ReaderTypes /\ FirstAlone
        /\ DropsOnlyReadAhead /\ Sync /\ DeliveredOK
    BY DEF FramingInv
  <1>2. /\ UNCHANGED sentVars /\ arrived' = arrived /\ wait' = wait /\ timeouts' = timeouts
        /\ stage' = stage /\ type' = type /\ taken' = taken /\ got' = got /\ cut' = cut
        /\ late' = late /\ stage \in {"type", "header"} /\ ~Found /\ Crowded
    BY DEF AppendPart, Here, InLine
  <1>3. /\ MessagesOK' /\ StreamOK' /\ (PlainData' <=> PlainData)
        /\ kind' = kind /\ msgs' = msgs /\ stream' = stream /\ ends' = ends
    BY <1>1, <1>2, SentSame
  <1>4. /\ Len(buf) \in Nat /\ buf \in Seq(Byte) /\ Part = buf
        /\ taken \in Nat /\ taken <= arrived
    BY <1>1, <1>2, BufferNumbers, PartFacts
  <1>5. buf' = SubSeq(buf, Len(buf) + 1, Len(buf)) /\ acc' = acc \o CString(buf)
    BY <1>4 DEF AppendPart, ReadTo
  <1>6. BufferOK' /\ Pos' = Pos + Len(buf)
    BY <1>1, <1>2, <1>3, <1>4, <1>5, CutBuffer
  <1>7. ReaderTypes'
    <2>1. acc' \in Seq(Byte)
      <3>1. acc \in Seq(Byte) /\ CString(buf) \in Seq(Byte)
        BY <1>1, <1>4, CStringFacts DEF ReaderTypes
      <3> QED
        BY <1>5, <3>1
    <2> QED
      BY <1>1, <1>2, <1>3, <2>1 DEF ReaderTypes
  <1>8. FirstAlone'
    BY <1>2, <1>4, TakeFirst
  <1>9. DropsOnlyReadAhead' /\ DeliveredOK'
    BY <1>1, <1>2, <1>3 DEF DropsOnlyReadAhead, DeliveredOK, Reliable
  <1>10. Sync'
    BY <1>5, <1>6, AppendSync
  <1> QED
    BY <1>3, <1>6, <1>7, <1>8, <1>9, <1>10 DEF FramingInv

-----------------------------------------------------------------------------
(* A wait ends *)

LEMMA FailInv ==
    ASSUME FramingInv, stage \in {"type", "header"}, Fail, UNCHANGED sentVars,
           wait' = wait, cut' = cut, taken' = taken, timeouts' \in 0..MaxTimeouts,
           BufferOK', Pos' \in Nat, Pos <= Pos', type' \in Seq(Byte), acc' \in Seq(Byte)
    PROVE  FramingInv'
  <1>1. /\ MessagesOK /\ StreamOK /\ BufferOK /\ ReaderTypes /\ FirstAlone
        /\ DropsOnlyReadAhead /\ Sync /\ DeliveredOK
    BY DEF FramingInv
  <1>2. /\ stage' = (IF kind = "ask" THEN "again" ELSE "failed")
        /\ late' = (kind = "ask") /\ got' = got
    BY DEF Fail
  <1>3. /\ MessagesOK' /\ StreamOK' /\ (PlainData' <=> PlainData)
        /\ kind' = kind /\ msgs' = msgs /\ stream' = stream /\ ends' = ends
    BY <1>1, SentSame
  <1>4. ReaderTypes'
    <2>1. stage' \in {"again", "failed"} /\ (stage' = "again" => kind' = "ask" /\ late')
      BY <1>2, <1>3
    <2>2. late' \in BOOLEAN
      BY <1>2
    <2> QED
      BY <1>1, <1>2, <1>3, <2>1, <2>2 DEF ReaderTypes
  <1>5. FirstAlone'
    BY <1>1, <1>2, <1>3 DEF FirstAlone
  <1>6. DropsOnlyReadAhead' /\ DeliveredOK'
    BY <1>1, <1>2, <1>3 DEF DropsOnlyReadAhead, DeliveredOK, Reliable
  <1>7. Sync'
    <2>1. (Reliable(wait)' <=> Reliable(wait)) /\ (InStep' <=> InStep)
      BY <1>3 DEF Reliable, InStep
    <2>2. InStep => \A g \in DOMAIN got : got[g].msg <= Len(ends) /\ ends[got[g].msg] <= Pos'
      BY StaysBehind
    <2>3. Reliable(wait) => \A g \in DOMAIN got : got[g].msg = g
      BY <1>1 DEF Sync
    <2>4. stage' \notin {"between", "type", "header", "data", "rest"}
      BY <1>2
    <2> QED
      BY <1>2, <1>3, <2>1, <2>2, <2>3, <2>4 DEF Sync
  <1> QED
    BY <1>3, <1>4, <1>5, <1>6, <1>7 DEF FramingInv

LEMMA DeliverInv ==
    ASSUME FramingInv, stage \in {"type", "data", "rest"},
           NEW i \in DOMAIN msgs, NEW data \in Seq(Byte), Deliver(i, data),
           UNCHANGED sentVars, wait' = wait, cut' = cut, late' = late, timeouts' = timeouts,
           BufferOK', Pos' \in Nat, Pos <= Pos', taken' \in Nat, taken' <= arrived,
           type' \in Seq(Byte), acc' \in Seq(Byte),
           buf' # <<>> => Len(msgs[i].data) < N,
           InStep => /\ i <= Len(ends) /\ Pos' = ends[i] /\ data = msgs[i].data
                     /\ Reliable(wait) => i = wait
                     /\ \A g \in DOMAIN got : got[g].msg < i
    PROVE  FramingInv'
  <1>1. /\ MessagesOK /\ StreamOK /\ BufferOK /\ ReaderTypes /\ FirstAlone
        /\ DropsOnlyReadAhead /\ Sync /\ DeliveredOK
    BY DEF FramingInv
  <1>2. got' = Append(got, [msg |-> i, data |-> data]) /\ stage' = "between"
    BY DEF Deliver
  <1>3. /\ MessagesOK' /\ StreamOK' /\ (PlainData' <=> PlainData)
        /\ kind' = kind /\ msgs' = msgs /\ stream' = stream /\ ends' = ends
        /\ \A j : Start(j)' = Start(j) /\ DataAt(j)' = DataAt(j)
    BY <1>1, SentSame
  <1>4. PICK w \in Nat : w = wait /\ w = Len(got) + 1 /\ w >= 1 /\ Len(got) \in Nat
    <2>1. Len(got) \in Nat /\ wait = Len(got) + 1
      BY <1>1 DEF ReaderTypes
    <2> QED
      BY <2>1
  <1>5. /\ got' \in Seq([msg : Nat, data : Seq(Byte)]) /\ Len(got') = w
        /\ DOMAIN got' = 1..w /\ DOMAIN got = 1 .. w - 1
        /\ \A g \in 1 .. w - 1 : got'[g] = got[g]
        /\ got'[w].msg = i /\ got'[w].data = data
    <2> DEFINE m == [msg |-> i, data |-> data]
               M == [msg : Nat, data : Seq(Byte)]
    <2>1. m \in M /\ m.msg = i /\ m.data = data
      <3>1. i \in Nat
        BY <1>1 DEF MessagesOK
      <3> QED
        BY <3>1
    <2>2. got \in Seq(M) /\ got' = Append(got, m)
      BY <1>1, <1>2 DEF ReaderTypes
    <2> HIDE DEF m, M
    <2>3. /\ got' \in Seq(M) /\ Len(got') = Len(got) + 1 /\ got'[Len(got) + 1] = m
          /\ \A g \in 1..Len(got) : got'[g] = got[g]
          /\ DOMAIN got = 1..Len(got) /\ DOMAIN got' = 1..Len(got')
      BY <2>1, <2>2, AppendProperties
    <2>4. Len(got) = w - 1
      BY <1>4
    <2> QED
      BY <1>4, <2>1, <2>3, <2>4 DEF M
  <1>6. ReaderTypes'
    <2>1. \A g \in DOMAIN got' : got'[g].msg \in DOMAIN msgs
      <3> SUFFICES ASSUME NEW g \in 1..w PROVE got'[g].msg \in DOMAIN msgs
        BY <1>5
      <3>1. CASE g = w
        BY <1>5, <3>1
      <3>2. CASE g # w
        <4>1. g \in 1 .. w - 1
          BY <1>4, <3>2
        <4> QED
          BY <1>1, <1>5, <4>1 DEF ReaderTypes
      <3> QED
        BY <3>1, <3>2
    <2>2. wait' = Len(got') /\ wait' > 0 /\ got'[wait'].msg = i
      BY <1>4, <1>5
    <2> QED
      BY <1>1, <1>2, <1>3, <1>5, <2>1, <2>2 DEF ReaderTypes
  <1>7. FirstAlone'
    <2>1. got' # <<>>
      BY <1>4, <1>5
    <2> QED
      BY <2>1, TakeFirst
  <1>8. DropsOnlyReadAhead'
    <2> SUFFICES ASSUME NEW x \in cut, kind = "download", x > 2,
                        Len(msgs[got[x - 1].msg].data) < N
                 PROVE  Len(msgs[got'[x - 1].msg].data) < N
      BY <1>1, <1>3 DEF DropsOnlyReadAhead
    <2>1. x \in 1..w
      BY <1>1, <1>4 DEF ReaderTypes
    <2>2. x - 1 \in 1 .. w - 1
      BY <1>4, <2>1
    <2> QED
      BY <1>5, <2>2
  <1>9. (Reliable(wait)' <=> Reliable(wait)) /\ (InStep' <=> InStep)
        /\ \A h : Reliable(h)' <=> Reliable(h)
    BY <1>3 DEF Reliable, InStep
  <1>10. Sync'
    <2>1. ASSUME InStep, NEW g \in 1..w
          PROVE  got'[g].msg <= Len(ends) /\ ends[got'[g].msg] <= Pos'
      <3>1. CASE g = w
        <4>1. ends[i] <= Pos'
          BY <2>1
        <4> QED
          BY <1>5, <2>1, <3>1, <4>1
      <3>2. CASE g # w
        <4>1. g \in 1 .. w - 1
          BY <1>4, <3>2
        <4> QED
          BY <1>5, <2>1, <4>1, StaysBehind
      <3> QED
        BY <3>1, <3>2
    <2>2. ASSUME Reliable(wait), NEW g \in 1..w PROVE got'[g].msg = g
      <3>1. CASE g = w
        BY <1>4, <1>5, <2>2, <3>1 DEF InStep
      <3>2. CASE g # w
        <4>1. g \in 1 .. w - 1
          BY <1>4, <3>2
        <4> QED
          BY <1>1, <1>5, <2>2, <4>1 DEF Sync
      <3> QED
        BY <3>1, <3>2
    <2>3. ASSUME Reliable(wait) PROVE Pos' = Start(wait + 1)'
      <3>1. i = w /\ Pos' = ends[w] /\ w \in 1..Len(ends)
        BY <1>1, <1>4, <2>3 DEF InStep, StreamOK
      <3>2. ends[w] = Start(w + 1)
        BY <1>1, <3>1, StartFacts
      <3>3. Start(wait + 1)' = Start(w + 1)'
        BY <1>4 DEF Start
      <3> QED
        BY <1>3, <3>1, <3>2, <3>3
    <2> QED
      BY <1>2, <1>3, <1>5, <1>9, <2>1, <2>2, <2>3 DEF Sync
  <1>11. DeliveredOK'
    <2> SUFFICES ASSUME NEW h \in 1..w, Reliable(h) \/ PlainData
                 PROVE  /\ got'[h].data = msgs[got'[h].msg].data
                        /\ \A g \in 1 .. h - 1 : got'[g].msg < got'[h].msg
      BY <1>3, <1>5, <1>9 DEF DeliveredOK
    <2>1. CASE h = w
      <3>1. InStep
        BY <1>4, <2>1 DEF InStep
      <3>2. \A g \in 1 .. w - 1 : got'[g].msg < i
        BY <1>5, <3>1
      <3> QED
        BY <1>5, <2>1, <3>1, <3>2
    <2>2. CASE h # w
      <3>1. h \in 1 .. w - 1 /\ \A g \in 1 .. h - 1 : g \in 1 .. w - 1
        BY <1>4, <2>2
      <3> QED
        BY <1>1, <1>5, <3>1 DEF DeliveredOK
    <2> QED
      BY <2>1, <2>2
  <1> QED
    BY <1>3, <1>6, <1>7, <1>8, <1>10, <1>11 DEF FramingInv

\* The part of the buffer up to the character looked for.
LEMMA FoundPart ==
    ASSUME BufferOK, Found
    PROVE  /\ Part \in Seq(Byte) /\ Len(Part) \in 1..Len(buf)
           /\ \A k \in 1..Len(Part) : Part[k] = buf[k]
           /\ buf[Len(Part)] = Det
           /\ \A k \in 1 .. Len(Part) - 1 : buf[k] # Det
           /\ CString(Part) \in Seq(Byte) /\ Len(CString(Part)) \in 0..Len(Part)
           /\ \A k \in 1..Len(CString(Part)) : CString(Part)[k] = buf[k]
           /\ stage = "header" => Len(CString(Part)) = Len(Part) - 1
           /\ NUL \notin ToSet(Part) => CString(Part) = Part
  <1>1. /\ Part \in Seq(Byte) /\ Len(Part) \in 0..Len(buf)
        /\ \A k \in 1..Len(Part) : Part[k] = buf[k]
        /\ Len(Part) > 0 /\ Part[Len(Part)] = Det
        /\ \A k \in 1 .. Len(Part) - 1 : buf[k] # Det
    BY BufferNumbers, PartFacts
  <1>2. /\ CString(Part) \in Seq(Byte) /\ Len(CString(Part)) <= Len(Part)
        /\ \A k \in 1..Len(CString(Part)) : CString(Part)[k] = Part[k] /\ Part[k] # NUL
        /\ Len(CString(Part)) = Len(Part) \/ Part[Len(CString(Part)) + 1] = NUL
        /\ NUL \notin ToSet(Part) => CString(Part) = Part
    BY <1>1, CStringFacts
  <1>3. PICK p \in Nat, c \in Nat : /\ p = Len(Part) /\ c = Len(CString(Part)) /\ c <= p /\ p > 0
                                    /\ p \in 1..Len(buf)
    <2>1. Len(CString(Part)) \in Nat /\ Len(Part) \in Nat /\ Len(buf) \in Nat
      BY <1>1, <1>2, BufferNumbers
    <2> QED
      BY <1>1, <1>2, <2>1
  <1>4. \A k \in 1..c : k \in 1..p
    BY <1>3
  <1>5. p \in 1..p
    BY <1>3
  <1>6. buf[p] = Det
    BY <1>1, <1>3, <1>5
  <1>7. stage = "header" => c = p - 1
    <2> SUFFICES ASSUME stage = "header", c # p - 1 PROVE FALSE
      OBVIOUS
    <2>1. Det = NUL
      BY DEF Det
    <2>2. CASE c = p
      BY <1>1, <1>2, <1>3, <1>5, <2>1, <2>2
    <2>3. CASE c < p - 1
      <3>1. c + 1 \in 1 .. p - 1 /\ c + 1 \in 1..p /\ c # p
        BY <1>3, <2>3
      <3>2. Part[c + 1] = NUL
        BY <1>2, <1>3, <3>1
      <3> QED
        BY <1>1, <1>3, <2>1, <3>1, <3>2
    <2> QED
      BY <1>3, <2>2, <2>3
  <1>8. c \in 0..p
    BY <1>3
  <1> QED
    BY <1>1, <1>2, <1>3, <1>4, <1>6, <1>7, <1>8

\* A type line the reader is in step with is that of the message awaited.
LEMMA TypeLineFound ==
    ASSUME FramingInv, stage = "type", Found, InStep, NEW i \in Expected(acc \o CString(Part))
    PROVE  /\ i \in 1..Len(ends) /\ Pos + Len(Part) = Start(i) + 2
           /\ Reliable(wait) => i = wait
           /\ \A g \in DOMAIN got : got[g].msg < i
  <1>1. /\ MessagesOK /\ StreamOK /\ BufferOK /\ ReaderTypes /\ Sync
    BY DEF FramingInv
  <1>2. i \in DOMAIN msgs /\ acc \o CString(Part) = TypeLine(i) /\ i \in Nat
    BY <1>1 DEF Expected, MessagesOK
  <1>3. PICK p \in Nat, b \in Nat, c \in Nat, a \in Nat :
            /\ p = Len(Part) /\ b = Len(buf) /\ c = Len(CString(Part)) /\ a = Len(acc)
            /\ p >= 1 /\ p <= b /\ c <= p
    <2>1. Len(Part) \in 1..Len(buf) /\ Len(buf) \in Nat /\ Len(CString(Part)) \in 0..Len(Part)
      BY <1>1, FoundPart, BufferNumbers
    <2>2. Len(acc) \in Nat
      BY <1>1 DEF ReaderTypes
    <2> QED
      BY <2>1, <2>2
  <1>4. /\ buf[p] = NL /\ \A k \in 1 .. p - 1 : buf[k] # NL
        /\ \A k \in 1..p : Part[k] = buf[k]
        /\ \A k \in 1..c : CString(Part)[k] = buf[k]
    <2>1. Det = NL
      BY DEF Det
    <2> QED
      BY <1>1, <1>3, <2>1, FoundPart
  <1>5. /\ a + c = 2
        /\ \A k \in 1..a : TypeLine(i)[k] = acc[k]
        /\ \A k \in 1..c : TypeLine(i)[a + k] = buf[k]
        /\ TypeLine(i)[1] = <<"type", i>> /\ TypeLine(i)[2] = NL
    <2>1. acc \in Seq(Byte) /\ CString(Part) \in Seq(Byte)
      BY <1>1, FoundPart DEF ReaderTypes
    <2>2. /\ Len(acc \o CString(Part)) = Len(acc) + Len(CString(Part))
          /\ \A k \in 1..Len(acc) : (acc \o CString(Part))[k] = acc[k]
          /\ \A k \in 1..Len(CString(Part)) :
                (acc \o CString(Part))[Len(acc) + k] = CString(Part)[k]
      BY <2>1, JoinFacts, Zenon
    <2>3. Len(TypeLine(i)) = 2 /\ TypeLine(i)[1] = <<"type", i>> /\ TypeLine(i)[2] = NL
      BY <1>2, TypeLineFacts
    <2> QED
      BY <1>2, <1>3, <1>4, <2>2, <2>3
  <1>6. buf # <<>>
    <2>1. b # 0
      BY <1>3
    <2> QED
      BY <1>3, <2>1
  <1>7. CASE Reliable(wait)
    <2>1. PICK w \in 1..Len(ends) : w = wait /\ Pos = Start(w) /\ acc = <<>>
      BY <1>6, <1>7, AtStart
    <2>2. w \in Nat /\ buf[1] = <<"type", w>> /\ (b > 1 => buf[2] = NL)
      BY <1>1, <1>3, <1>6, <2>1, LineAhead DEF StreamOK
    <2>3. p = 2
      <3>1. p # 1
        BY <1>4, <2>2, DifferentBytes
      <3>2. b > 1 /\ buf[2] = NL
        BY <1>3, <2>2, <3>1
      <3>3. ~(p > 2)
        BY <1>3, <1>4, <3>2
      <3> QED
        BY <1>3, <3>1, <3>3
    <2>4. a = 0 /\ c = 2
      <3>1. a = 0
        BY <1>3, <2>1
      <3>2. c \in Nat /\ a + c = 2
        BY <1>3, <1>5
      <3> QED
        BY <3>1, <3>2
    <2>5. i = w
      <3>1. 1 \in 1..c /\ a + 1 = 1
        BY <2>4
      <3>2. TypeLine(i)[1] = buf[1]
        BY <1>5, <3>1
      <3> QED
        BY <1>2, <1>5, <2>2, <3>2, DifferentBytes
    <2>6. \A g \in DOMAIN got : got[g].msg < w
      <3> SUFFICES ASSUME NEW g \in DOMAIN got PROVE got[g].msg < w
        OBVIOUS
      <3>1. got[g].msg = g /\ g \in 1..Len(got) /\ Len(got) \in Nat /\ wait = Len(got) + 1
        BY <1>1, <1>7 DEF Sync, ReaderTypes
      <3> QED
        BY <2>1, <3>1
    <2> QED
      BY <1>3, <2>1, <2>3, <2>5, <2>6
  <1>8. CASE PlainData /\ ~Reliable(wait)
    <2>1. NL \notin ToSet(acc) /\ acc # <<<<"type", i>>>> /\ acc \in Seq(Byte)
      BY <1>1, <1>2, <1>8 DEF Sync, ReaderTypes
    <2>2. a # 2
      <3> SUFFICES ASSUME a = 2 PROVE FALSE
        OBVIOUS
      <3>1. 2 \in 1..a
        OBVIOUS
      <3>2. acc[2] = NL
        BY <1>5, <3>1
      <3> QED
        BY <1>3, <2>1, <3>1, <3>2 DEF ToSet
    <2>3. a # 1
      <3> SUFFICES ASSUME a = 1 PROVE FALSE
        OBVIOUS
      <3>1. 1 \in 1..a
        OBVIOUS
      <3> DEFINE x == <<"type", i>>
      <3>2. acc[1] = x /\ Len(acc) = 1 /\ acc # <<x>>
        BY <1>3, <1>5, <2>1, <3>1
      <3> HIDE DEF x
      <3> QED
        BY <2>1, <3>2
    <2>4. a = 0 /\ c = 2
      BY <1>3, <1>5, <2>2, <2>3
    <2>5. buf[1] = <<"type", i>> /\ buf[2] = NL
      <3>1. 1 \in 1..c /\ a + 1 = 1 /\ 2 \in 1..c /\ a + 2 = 2
        BY <2>4
      <3> QED
        BY <1>5, <3>1
    <2>6. i \in 1..Len(ends) /\ Pos = Start(i)
      BY <1>1, <1>2, <1>6, <1>8, <2>5, TypeAhead
    <2>7. p = 2
      <3>1. p >= 2
        BY <1>3, <2>4
      <3>2. ~(p > 2)
        BY <1>3, <1>4, <2>5
      <3> QED
        BY <1>3, <3>1, <3>2
    <2>8. \A g \in DOMAIN got : got[g].msg < i
      <3> SUFFICES ASSUME NEW g \in DOMAIN got PROVE got[g].msg < i
        OBVIOUS
      <3>1. Pos \in Nat /\ Pos <= Pos
        BY <1>1, BufferNumbers
      <3>2. got[g].msg \in 1..Len(ends) /\ ends[got[g].msg] <= Start(i)
        BY <2>6, <3>1, StaysBehind
      <3> QED
        BY <1>1, <2>6, <3>2, Order
    <2> QED
      BY <1>3, <1>8, <2>6, <2>7, <2>8
  <1> QED
    BY <1>7, <1>8 DEF InStep

\* A header read is followed by the data.
LEMMA HeaderFound ==
    ASSUME FramingInv, stage = "header", Found, InStep, NEW i \in Expected(type),
           acc \o CString(Part) = Header(i)
    PROVE  In(i) /\ Pos + Len(Part) = DataAt(i)
  <1>1. /\ MessagesOK /\ StreamOK /\ BufferOK /\ ReaderTypes /\ Sync
    BY DEF FramingInv
  <1>2. /\ In(i) /\ Start(i) \in Nat
        /\ Len(acc) \in Nat /\ msgs[i].header \in Nat /\ Len(acc) <= msgs[i].header
        /\ Pos = Start(i) + 2 + Len(acc)
    BY HeaderAhead
  <1>3. Len(acc) + Len(CString(Part)) = msgs[i].header
    <2>1. acc \in Seq(Byte) /\ CString(Part) \in Seq(Byte)
      BY <1>1, FoundPart DEF ReaderTypes
    <2>2. Len(acc \o CString(Part)) = Len(acc) + Len(CString(Part))
      BY <2>1, JoinFacts, Zenon
    <2>3. i \in DOMAIN msgs
      BY DEF Expected
    <2>4. Len(Header(i)) = msgs[i].header
      BY <1>1, <2>3, HeaderFacts
    <2> QED
      BY <2>2, <2>4
  <1>4. Len(CString(Part)) = Len(Part) - 1 /\ Len(Part) \in Nat
    <2>1. Len(Part) \in 1..Len(buf) /\ Len(buf) \in Nat /\ Len(CString(Part)) = Len(Part) - 1
      BY <1>1, FoundPart, BufferNumbers
    <2> QED
      BY <2>1
  <1>5. \A s, a, h, p \in Nat : a + (p - 1) = h => (s + 2 + a) + p = s + 3 + h
    OBVIOUS
  <1> QED
    BY <1>2, <1>3, <1>4, <1>5 DEF DataAt

LEMMA EndTypeLineInv == FramingInv /\ EndTypeLine => FramingInv'
  <1> SUFFICES ASSUME FramingInv, EndTypeLine PROVE FramingInv'
    OBVIOUS
  <1>1. /\ MessagesOK /\ StreamOK /\ BufferOK /\ ReaderTypes /\ FirstAlone
        /\ DropsOnlyReadAhead /\ Sync /\ DeliveredOK
    BY DEF FramingInv
  <1> DEFINE line == acc \o CString(Part)
             m == Expected(line)
  <1>2. /\ stage = "type" /\ Found /\ ReadTo /\ type' = line /\ acc' = <<>>
        /\ UNCHANGED sentVars /\ arrived' = arrived /\ wait' = wait /\ timeouts' = timeouts
        /\ taken' = taken /\ cut' = cut
        /\ \/ Fail
           \/ \E i \in m : IsDone(msgs[i]) /\ Deliver(i, <<>>) /\ late' = late
           \/ /\ ~ByClient \/ \E i \in m : ~IsDone(msgs[i])
              /\ stage' = "header" /\ got' = got /\ late' = late
    BY DEF EndTypeLine, Here
  <1>3. /\ MessagesOK' /\ StreamOK' /\ (PlainData' <=> PlainData)
        /\ kind' = kind /\ msgs' = msgs /\ stream' = stream /\ ends' = ends
        /\ \A j : Start(j)' = Start(j) /\ DataAt(j)' = DataAt(j)
    BY <1>1, <1>2, SentSame
  <1>4. /\ Part \in Seq(Byte) /\ Len(Part) \in 1..Len(buf) /\ Len(buf) \in Nat
        /\ CString(Part) \in Seq(Byte) /\ Pos \in Nat /\ taken \in Nat /\ taken <= arrived
    BY <1>1, <1>2, FoundPart, BufferNumbers
  <1>5. BufferOK' /\ Pos' = Pos + Len(Part) /\ Pos' \in Nat /\ Pos <= Pos'
    <2>1. Len(Part) \in Nat /\ Len(Part) <= Len(buf)
      BY <1>4
    <2>2. BufferOK' /\ Pos' = Pos + Len(Part)
      BY <1>1, <1>2, <1>3, <2>1, CutBuffer DEF ReadTo
    <2> QED
      BY <1>4, <2>1, <2>2
  <1>6. type' \in Seq(Byte) /\ acc' \in Seq(Byte)
    <2>1. line \in Seq(Byte)
      BY <1>1, <1>4 DEF ReaderTypes
    <2> QED
      BY <1>2, <2>1
  <1>7. ASSUME InStep, NEW i \in m
        PROVE  /\ i \in 1..Len(ends) /\ Pos' = Start(i) + 2
               /\ Reliable(wait) => i = wait
               /\ \A g \in DOMAIN got : got[g].msg < i
    BY <1>2, <1>5, <1>7, TypeLineFound
  <1>8. CASE Fail
    <2>1. timeouts' \in 0..MaxTimeouts
      BY <1>1, <1>2 DEF ReaderTypes
    <2> QED
      BY <1>2, <1>5, <1>6, <1>8, <2>1, FailInv
  <1>9. CASE \E i \in m : IsDone(msgs[i]) /\ Deliver(i, <<>>) /\ late' = late
    <2>1. PICK i \in m : IsDone(msgs[i]) /\ Deliver(i, <<>>) /\ late' = late
      BY <1>9
    <2>2. /\ i \in DOMAIN msgs /\ msgs[i].data = <<>> /\ Len(msgs[i].data) < N
          /\ <<>> \in Seq(Byte)
      <3>1. i \in DOMAIN msgs /\ msgs[i].data = <<>>
        BY <1>1, <2>1 DEF Expected, MessagesOK
      <3>2. 0 < N /\ Len(<<>>) = 0 /\ <<>> \in Seq(Byte)
        BY BufferAssumption
      <3> QED
        BY <3>1, <3>2
    <2>3. InStep => /\ i <= Len(ends) /\ Pos' = ends[i] /\ <<>> = msgs[i].data
                    /\ Reliable(wait) => i = wait
                    /\ \A g \in DOMAIN got : got[g].msg < i
      <3> SUFFICES ASSUME InStep PROVE i <= Len(ends) /\ Pos' = ends[i]
        BY <1>7, <2>2
      <3>1. i \in 1..Len(ends) /\ Pos' = Start(i) + 2
        BY <1>7
      <3>2. ends[i] = Start(i) + 2
        BY <1>1, <2>1, <3>1 DEF StreamOK, Layout
      <3> QED
        BY <1>1, <3>1, <3>2 DEF StreamOK
    <2> HIDE DEF m
    <2> QED
      BY <1>2, <1>4, <1>5, <1>6, <2>1, <2>2, <2>3, DeliverInv
  <1>10. CASE /\ ~ByClient \/ \E i \in m : ~IsDone(msgs[i])
              /\ stage' = "header" /\ got' = got /\ late' = late
    <2>1. \A i \in m : ~IsDone(msgs[i])
      <3>1. CASE ~ByClient
        BY <1>1, <3>1 DEF ByClient, MessagesOK, Expected
      <3>2. CASE \E i \in m : ~IsDone(msgs[i])
        BY <1>1, <3>2, OneExpected
      <3> QED
        BY <1>10, <3>1, <3>2
    <2>2. ReaderTypes'
      BY <1>1, <1>2, <1>3, <1>6, <1>10 DEF ReaderTypes
    <2>3. FirstAlone' /\ DropsOnlyReadAhead' /\ DeliveredOK'
      BY <1>1, <1>2, <1>3, <1>10 DEF FirstAlone, DropsOnlyReadAhead, DeliveredOK, Reliable
    <2>4. Sync'
      <3>1. /\ Expected(type)' = m /\ (InStep' <=> InStep)
            /\ (Reliable(wait)' <=> Reliable(wait)) /\ \A i : In(i)' <=> In(i)
        BY <1>2, <1>3, <1>10
           DEF Expected, Phase, Phases, TypeLine, NL, InStep, Reliable, In, IsDone
      <3>2. InStep => \A g \in DOMAIN got : got[g].msg <= Len(ends) /\ ends[got[g].msg] <= Pos'
        BY <1>5, StaysBehind
      <3>3. Reliable(wait) => \A g \in DOMAIN got : got[g].msg = g
        BY <1>1 DEF Sync
      <3>4. ASSUME InStep, NEW i \in m
            PROVE  /\ In(i) /\ Pos' = Start(i) + 2 + Len(acc') /\ Len(acc') <= msgs[i].header
                   /\ \A k \in 1..Len(acc') : acc'[k] = <<"header", i>>
        <4>1. In(i)
          BY <1>1, <1>7, <2>1, <3>4 DEF In, StreamOK
        <4>2. Len(acc') = 0 /\ 1..0 = {}
          BY <1>2
        <4>3. msgs[i].header \in Nat /\ Start(i) \in Nat
          <5>1. i \in DOMAIN msgs
            BY DEF Expected
          <5>2. i \in 1..Len(ends)
            BY <1>7, <3>4
          <5>3. Start(i) \in Nat
            BY <1>1, <5>2, StartFacts DEF StreamOK
          <5> QED
            BY <1>1, <5>1, <5>3 DEF MessagesOK
        <4>4. Pos' = Start(i) + 2
          BY <1>7, <3>4
        <4>5. Start(i) + 2 + 0 = Start(i) + 2
          BY <4>3
        <4> QED
          BY <4>1, <4>2, <4>3, <4>4, <4>5
      <3> HIDE DEF m, line
      <3> QED
        BY <1>2, <1>3, <1>10, <3>1, <3>2, <3>3, <3>4 DEF Sync
    <2> QED
      BY <1>3, <1>5, <2>2, <2>3, <2>4 DEF FramingInv
  <1> HIDE DEF m, line
  <1> QED
    BY <1>2, <1>8, <1>9, <1>10

LEMMA EndHeaderInv == FramingInv /\ EndHeader => FramingInv'
  <1> SUFFICES ASSUME FramingInv, EndHeader PROVE FramingInv'
    OBVIOUS
  <1>1. /\ MessagesOK /\ StreamOK /\ BufferOK /\ ReaderTypes /\ FirstAlone
        /\ DropsOnlyReadAhead /\ Sync /\ DeliveredOK
    BY DEF FramingInv
  <1> DEFINE m == {i \in Expected(type) : acc \o CString(Part) = Header(i)}
  <1>2. /\ stage = "header" /\ Found /\ ReadTo /\ type' = type /\ acc' = <<>>
        /\ UNCHANGED sentVars /\ arrived' = arrived /\ wait' = wait /\ timeouts' = timeouts
        /\ taken' = taken /\ cut' = cut
        /\ Fail \/ (m # {} /\ stage' = "data" /\ got' = got /\ late' = late)
    BY DEF EndHeader, Here
  <1>3. /\ MessagesOK' /\ StreamOK' /\ (PlainData' <=> PlainData)
        /\ kind' = kind /\ msgs' = msgs /\ stream' = stream /\ ends' = ends
        /\ \A j : Start(j)' = Start(j) /\ DataAt(j)' = DataAt(j)
    BY <1>1, <1>2, SentSame
  <1>4. BufferOK' /\ Pos' = Pos + Len(Part) /\ Pos' \in Nat /\ Pos <= Pos'
    <2>1. /\ Len(Part) \in Nat /\ Len(Part) <= Len(buf) /\ Pos \in Nat
      <3>1. Len(Part) \in 1..Len(buf) /\ Len(buf) \in Nat /\ Pos \in Nat
        BY <1>1, <1>2, FoundPart, BufferNumbers
      <3> QED
        BY <3>1
    <2>2. BufferOK' /\ Pos' = Pos + Len(Part)
      BY <1>1, <1>2, <1>3, <2>1, CutBuffer DEF ReadTo
    <2> QED
      BY <2>1, <2>2
  <1>5. type' \in Seq(Byte) /\ acc' \in Seq(Byte) /\ timeouts' \in 0..MaxTimeouts
    BY <1>1, <1>2 DEF ReaderTypes
  <1>6. CASE Fail
    BY <1>2, <1>4, <1>5, <1>6, FailInv
  <1>7. CASE m # {} /\ stage' = "data" /\ got' = got /\ late' = late
    <2>1. PICK i \in Expected(type) : acc \o CString(Part) = Header(i)
      BY <1>7
    <2>2. \A j \in Expected(type) : j = i
      BY <1>1, OneExpected
    <2> HIDE DEF m
    <2>3. Expected(type)' = Expected(type)
      BY <1>2, <1>3 DEF Expected, Phase, Phases, TypeLine, NL
    <2>4. ReaderTypes'
      <3>1. Expected(type)' # {}
        BY <2>1, <2>3
      <3> QED
        BY <1>1, <1>2, <1>3, <1>5, <1>7, <3>1 DEF ReaderTypes
    <2>5. FirstAlone' /\ DropsOnlyReadAhead' /\ DeliveredOK'
      BY <1>1, <1>2, <1>3, <1>7 DEF FirstAlone, DropsOnlyReadAhead, DeliveredOK, Reliable
    <2>6. Sync'
      <3>1. /\ (InStep' <=> InStep) /\ (Reliable(wait)' <=> Reliable(wait))
            /\ \A j : In(j)' <=> In(j)
        BY <1>2, <1>3, <1>7 DEF InStep, Reliable, In, IsDone
      <3>2. InStep => \A g \in DOMAIN got : got[g].msg <= Len(ends) /\ ends[got[g].msg] <= Pos'
        BY <1>4, StaysBehind
      <3>3. Reliable(wait) => \A g \in DOMAIN got : got[g].msg = g
        BY <1>1 DEF Sync
      <3>4. InStep => \A j \in Expected(type) : In(j) /\ Pos' = DataAt(j)
        BY <1>2, <1>4, <2>1, <2>2, HeaderFound
      <3> QED
        BY <1>2, <1>3, <1>7, <2>3, <3>1, <3>2, <3>3, <3>4 DEF Sync
    <2> QED
      BY <1>3, <1>4, <2>4, <2>5, <2>6 DEF FramingInv
  <1> HIDE DEF m
  <1> QED
    BY <1>2, <1>6, <1>7

-----------------------------------------------------------------------------
(* The data *)

\* What comes where the data of a message begins.
LEMMA DataHere ==
    ASSUME StreamOK, MessagesOK, NEW i \in DOMAIN msgs, In(i)
    PROVE  /\ i \in 1..Len(ends) /\ DataAt(i) \in Nat /\ Len(msgs[i].data) \in Nat
           /\ msgs[i].data \in Seq(Byte)
           /\ ends[i] = DataAt(i) + Len(msgs[i].data)
           /\ \A k \in 1..Len(msgs[i].data) : stream[DataAt(i) + k] = msgs[i].data[k]
  <1>1. i \in 1..Len(ends) /\ ~IsDone(msgs[i])
    BY DEF In, MessagesOK, StreamOK
  <1>2. DataAt(i) \in Nat /\ msgs[i].data \in Seq(Byte)
    BY <1>1, StartFacts DEF MessagesOK
  <1>3. Layout(i)
    BY <1>1 DEF StreamOK
  <1>4. Len(msgs[i].data) \in Nat
    BY <1>2
  <1> QED
    BY <1>1, <1>2, <1>3, <1>4 DEF Layout

\* The message whose data is read.
LEMMA MsgFacts ==
    ASSUME FramingInv, stage \in {"data", "rest"}
    PROVE  /\ Msg \in DOMAIN msgs /\ Msg \in Expected(type)
           /\ msgs[Msg].data \in Seq(Byte) /\ Len(msgs[Msg].data) \in Nat
           /\ Len(acc) \in Nat /\ acc \in Seq(Byte)
           /\ Left = Len(msgs[Msg].data) - Len(acc)
  <1>1. MessagesOK /\ ReaderTypes
    BY DEF FramingInv
  <1>2. Msg \in DOMAIN msgs /\ Msg \in Expected(type)
    BY <1>1, MsgExpected DEF ReaderTypes
  <1>3. msgs[Msg].data \in Seq(Byte) /\ acc \in Seq(Byte)
    BY <1>1, <1>2 DEF MessagesOK, ReaderTypes
  <1> QED
    BY <1>2, <1>3 DEF Left

LEMMA DataInBufferInv == FramingInv /\ DataInBuffer => FramingInv'
  <1> SUFFICES ASSUME FramingInv, DataInBuffer PROVE FramingInv'
    OBVIOUS
  <1>1. /\ MessagesOK /\ StreamOK /\ BufferOK /\ ReaderTypes /\ Sync
    BY DEF FramingInv
  <1>2. /\ stage = "data" /\ Len(buf) >= Left
        /\ buf' = SubSeq(buf, Left + 1, Len(buf)) /\ Deliver(Msg, SubSeq(buf, 1, Left))
        /\ UNCHANGED sentVars /\ arrived' = arrived /\ wait' = wait /\ timeouts' = timeouts
        /\ taken' = taken /\ type' = type /\ acc' = acc /\ cut' = cut /\ late' = late
    BY DEF DataInBuffer, Here
  <1>3. kind' = kind /\ msgs' = msgs /\ stream' = stream /\ ends' = ends
    BY <1>1, <1>2, SentSame
  <1>4. PICK i \in DOMAIN msgs, l \in Nat :
            /\ i = Msg /\ i \in Expected(type) /\ l = Left
            /\ l = Len(msgs[i].data) /\ msgs[i].data \in Seq(Byte)
    <2>1. acc = <<>> /\ Len(acc) = 0
      <3>1. acc = <<>>
        BY <1>1, <1>2 DEF ReaderTypes
      <3> QED
        BY <3>1
    <2>2. /\ Msg \in DOMAIN msgs /\ Msg \in Expected(type)
          /\ msgs[Msg].data \in Seq(Byte) /\ Len(msgs[Msg].data) \in Nat
          /\ Left = Len(msgs[Msg].data) - Len(acc)
      BY <1>2, MsgFacts
    <2>3. Left = Len(msgs[Msg].data)
      BY <2>1, <2>2
    <2> QED
      BY <2>2, <2>3
  <1>5. PICK b \in Nat, p \in Nat :
            /\ b = Len(buf) /\ p = Pos /\ l <= b /\ b <= N
            /\ taken \in Nat /\ taken <= arrived /\ buf \in Seq(Byte)
            /\ \A k \in 1..b : buf[k] = stream[p + k]
    BY <1>1, <1>2, <1>4, BufferNumbers
  <1> DEFINE data == SubSeq(buf, 1, l)
  <1>6. data \in Seq(Byte) /\ Len(data) = l /\ \A k \in 1..l : data[k] = buf[k]
    <2>1. l \in 0..Len(buf)
      BY <1>5
    <2> QED
      BY <1>5, <2>1, CutFacts
  <1>7. BufferOK' /\ Pos' = p + l /\ Len(buf') = b - l /\ p + l \in Nat /\ p <= p + l
    <2>1. l <= Len(buf) /\ buf' = SubSeq(buf, l + 1, Len(buf))
      BY <1>2, <1>4, <1>5
    <2>2. BufferOK' /\ Pos' = Pos + l /\ Len(buf') = Len(buf) - l
      BY <1>1, <1>2, <1>3, <1>4, <2>1, CutBuffer
    <2> QED
      BY <1>4, <1>5, <2>2
  <1>8. type' \in Seq(Byte) /\ acc' \in Seq(Byte)
    BY <1>1, <1>2 DEF ReaderTypes
  <1>9. buf' # <<>> => Len(msgs[i].data) < N
    <2> SUFFICES ASSUME buf' # <<>> PROVE l < N
      BY <1>4
    <2>1. buf' \in Seq(Byte) /\ Len(buf') # 0
      <3>1. buf' \in Seq(Byte)
        BY <1>7 DEF BufferOK
      <3> QED
        BY <3>1
    <2>2. b - l # 0
      BY <1>7, <2>1
    <2> QED
      BY <1>4, <1>5, <2>2, BufferAssumption
  <1>10. InStep => /\ i <= Len(ends) /\ Pos' = ends[i] /\ data = msgs[i].data
                   /\ Reliable(wait) => i = wait
                   /\ \A g \in DOMAIN got : got[g].msg < i
    <2> SUFFICES ASSUME InStep
                 PROVE  /\ i <= Len(ends) /\ Pos' = ends[i] /\ data = msgs[i].data
                        /\ Reliable(wait) => i = wait
                        /\ \A g \in DOMAIN got : got[g].msg < i
      OBVIOUS
    <2>1. In(i) /\ Pos = DataAt(i)
      BY <1>1, <1>2, <1>4 DEF Sync
    <2>2. ends[i] = DataAt(i) + l /\ \A k \in 1..l : stream[DataAt(i) + k] = msgs[i].data[k]
      BY <1>1, <1>4, <2>1, DataHere
    <2>3. \A k \in 1..l : data[k] = msgs[i].data[k]
      <3>1. \A k \in 1..l : k \in 1..b
        BY <1>5
      <3> HIDE DEF data
      <3> QED
        BY <1>5, <1>6, <2>1, <2>2, <3>1
    <2>4. data = msgs[i].data
      <3> HIDE DEF data
      <3> QED
        BY <1>4, <1>6, <2>3, SameList
    <2> QED
      BY <1>5, <1>7, <2>1, <2>2, <2>4 DEF In
  <1>11. Deliver(i, data)
    BY <1>2, <1>4
  <1> HIDE DEF data
  <1> QED
    BY <1>2, <1>5, <1>6, <1>7, <1>8, <1>9, <1>10, <1>11, DeliverInv

LEMMA DataBeginsInv == FramingInv /\ DataBegins => FramingInv'
  <1> SUFFICES ASSUME FramingInv, DataBegins PROVE FramingInv'
    OBVIOUS
  <1>1. /\ MessagesOK /\ StreamOK /\ BufferOK /\ ReaderTypes /\ FirstAlone
        /\ DropsOnlyReadAhead /\ Sync /\ DeliveredOK
    BY DEF FramingInv
  <1>2. /\ stage = "data" /\ Len(buf) < Left /\ acc' = buf /\ buf' = <<>> /\ stage' = "rest"
        /\ UNCHANGED sentVars /\ arrived' = arrived /\ wait' = wait /\ timeouts' = timeouts
        /\ taken' = taken /\ type' = type /\ got' = got /\ cut' = cut /\ late' = late
    BY DEF DataBegins, Here
  <1>3. /\ MessagesOK' /\ StreamOK' /\ (PlainData' <=> PlainData)
        /\ kind' = kind /\ msgs' = msgs /\ stream' = stream /\ ends' = ends
        /\ \A i : Start(i)' = Start(i) /\ DataAt(i)' = DataAt(i)
    BY <1>1, <1>2, SentSame
  <1>4. /\ Msg \in DOMAIN msgs /\ Msg \in Expected(type)
        /\ msgs[Msg].data \in Seq(Byte) /\ Len(msgs[Msg].data) \in Nat
        /\ Left = Len(msgs[Msg].data)
    <2>1. Len(acc) = 0
      <3>1. acc = <<>>
        BY <1>1, <1>2 DEF ReaderTypes
      <3> QED
        BY <3>1
    <2>2. Left = Len(msgs[Msg].data) - Len(acc) /\ Len(msgs[Msg].data) \in Nat
      BY <1>2, MsgFacts
    <2> QED
      BY <1>2, <2>1, <2>2, MsgFacts
  <1>5. /\ Len(buf) \in Nat /\ taken \in Nat /\ Pos \in Nat
        /\ taken = Pos + Len(buf) /\ taken <= arrived /\ Len(buf) <= N
        /\ buf \in Seq(Byte) /\ \A k \in 1..Len(buf) : buf[k] = stream[Pos + k]
    BY <1>1, BufferNumbers
  <1>6. BufferOK' /\ Pos' = taken
    <2>1. buf' \in Seq(Byte) /\ Len(buf') = 0
      BY <1>2
    <2>2. Pos' = taken
      BY <1>2, <1>5, <2>1 DEF Pos
    <2>3. arrived \in Nat /\ 0 <= taken /\ 0 <= N /\ arrived <= Len(stream)
      BY <1>1, <1>5, BufferAssumption DEF BufferOK
    <2> QED
      BY <1>2, <1>3, <1>5, <2>1, <2>2, <2>3 DEF BufferOK
  <1>7. Expected(type)' = Expected(type) /\ Msg' = Msg
    BY <1>2, <1>3 DEF Msg, Expected, Phase, Phases, TypeLine, NL
  <1>8. ReaderTypes'
    <2>1. Expected(type)' # {} /\ Len(acc') < Len(msgs'[Msg'].data)
      BY <1>2, <1>3, <1>4, <1>7
    <2> QED
      BY <1>1, <1>2, <1>3, <1>5, <2>1 DEF ReaderTypes
  <1>9. FirstAlone' /\ DropsOnlyReadAhead' /\ DeliveredOK'
    BY <1>1, <1>2, <1>3 DEF FirstAlone, DropsOnlyReadAhead, DeliveredOK, Reliable
  <1>10. Sync'
    <2>1. /\ (InStep' <=> InStep) /\ (Reliable(wait)' <=> Reliable(wait))
          /\ \A j : In(j)' <=> In(j)
      BY <1>2, <1>3 DEF InStep, Reliable, In, IsDone
    <2>2. InStep => \A g \in DOMAIN got : got[g].msg <= Len(ends) /\ ends[got[g].msg] <= Pos'
      <3>1. Pos' \in Nat /\ Pos <= Pos'
        BY <1>5, <1>6
      <3> QED
        BY <3>1, StaysBehind
    <2>3. Reliable(wait) => \A g \in DOMAIN got : got[g].msg = g
      BY <1>1 DEF Sync
    <2>4. ASSUME InStep, NEW i \in Expected(type)
          PROVE  /\ In(i) /\ taken = DataAt(i) + Len(buf)
                 /\ \A k \in 1..Len(buf) : buf[k] = msgs[i].data[k]
      <3>1. i = Msg /\ i \in DOMAIN msgs
        BY <1>1, <1>4, OneExpected
      <3>2. In(i) /\ Pos = DataAt(i)
        BY <1>1, <1>2, <2>4 DEF Sync
      <3>3. \A k \in 1..Len(msgs[i].data) : stream[DataAt(i) + k] = msgs[i].data[k]
        BY <1>1, <3>1, <3>2, DataHere
      <3>4. \A k \in 1..Len(buf) : k \in 1..Len(msgs[i].data)
        BY <1>2, <1>4, <1>5, <3>1
      <3> QED
        BY <1>5, <3>2, <3>3, <3>4
    <2> QED
      BY <1>2, <1>3, <1>7, <2>1, <2>2, <2>3, <2>4 DEF Sync
  <1> QED
    BY <1>3, <1>6, <1>8, <1>9, <1>10 DEF FramingInv

LEMMA DataRestInv == FramingInv /\ DataRest => FramingInv'
  <1> SUFFICES ASSUME FramingInv, DataRest PROVE FramingInv'
    OBVIOUS
  <1>1. /\ MessagesOK /\ StreamOK /\ BufferOK /\ ReaderTypes /\ FirstAlone
        /\ DropsOnlyReadAhead /\ Sync /\ DeliveredOK
    BY DEF FramingInv
  <1>2. /\ stage = "rest" /\ RestSize > 0 /\ taken' = taken + RestSize
        /\ acc' = acc \o SubSeq(stream, taken + 1, taken + RestSize)
        /\ IF RestSize = Left THEN Deliver(Msg, acc') ELSE stage' = stage /\ got' = got
        /\ UNCHANGED sentVars /\ arrived' = arrived /\ wait' = wait /\ timeouts' = timeouts
        /\ buf' = buf /\ type' = type /\ cut' = cut /\ late' = late
    BY DEF DataRest, Here
  <1>3. /\ MessagesOK' /\ StreamOK' /\ (PlainData' <=> PlainData)
        /\ kind' = kind /\ msgs' = msgs /\ stream' = stream /\ ends' = ends
        /\ \A i : Start(i)' = Start(i) /\ DataAt(i)' = DataAt(i)
    BY <1>1, <1>2, SentSame
  <1>4. PICK i \in DOMAIN msgs, l \in Nat, c \in Nat :
            /\ i = Msg /\ i \in Expected(type) /\ l = Len(msgs[i].data) /\ c = Len(acc)
            /\ msgs[i].data \in Seq(Byte) /\ acc \in Seq(Byte) /\ Left = l - c /\ c < l
    <2>1. /\ Msg \in DOMAIN msgs /\ Msg \in Expected(type)
          /\ msgs[Msg].data \in Seq(Byte) /\ Len(msgs[Msg].data) \in Nat
          /\ Len(acc) \in Nat /\ acc \in Seq(Byte)
          /\ Left = Len(msgs[Msg].data) - Len(acc)
      BY <1>2, MsgFacts
    <2>2. Len(acc) < Len(msgs[Msg].data)
      BY <1>1, <1>2 DEF ReaderTypes
    <2> QED
      BY <2>1, <2>2
  <1>5. PICK t \in Nat, a \in Nat, n \in Nat :
            /\ t = taken /\ a = arrived /\ n = RestSize /\ n > 0 /\ t + n <= a
            /\ c + n <= l /\ buf = <<>> /\ Pos = t /\ a <= Len(stream)
    <2>1. buf = <<>> /\ Len(buf) = 0
      <3>1. buf = <<>>
        BY <1>1, <1>2 DEF ReaderTypes
      <3> QED
        BY <3>1
    <2>2. taken \in Nat /\ arrived \in Nat /\ taken <= arrived /\ arrived <= Len(stream)
      BY <1>1 DEF BufferOK
    <2>3. Pos = taken
      BY <2>1, <2>2 DEF Pos
    <2>4. RestSize \in Nat /\ RestSize <= Left /\ RestSize <= arrived - taken
      <3>1. RestSize = IF l - c < arrived - taken THEN l - c ELSE arrived - taken
        BY <1>4 DEF RestSize
      <3>2. l - c \in Nat /\ arrived - taken \in Nat
        BY <1>4, <2>2
      <3> QED
        BY <1>4, <3>1, <3>2
    <2>5. c + RestSize <= l /\ taken + RestSize <= arrived
      BY <1>4, <2>2, <2>4
    <2> QED
      BY <1>2, <2>1, <2>2, <2>3, <2>4, <2>5
  <1>6. /\ taken' = t + n /\ acc' = acc \o SubSeq(stream, t + 1, t + n)
    BY <1>2, <1>5
  <1>7. /\ acc' \in Seq(Byte) /\ Len(acc') = c + n
        /\ \A k \in 1..c : acc'[k] = acc[k]
        /\ \A k \in 1..n : acc'[c + k] = stream[t + k]
    <2> DEFINE s == SubSeq(stream, t + 1, t + n)
    <2>1. stream \in Seq(Byte) /\ Len(stream) \in Nat /\ \A j \in 1..Len(stream) : stream[j] \in Byte
      BY <1>1 DEF StreamOK
    <2>2. s \in Seq(Byte) /\ Len(s) = n /\ \A k \in 1..n : s[k] = stream[t + k]
      <3>1. \A j \in t + 1 .. t + n : stream[j] \in Byte
        <4>1. \A j \in t + 1 .. t + n : j \in 1..Len(stream)
          BY <1>5, <2>1
        <4> QED
          BY <2>1, <4>1
      <3>2. /\ s \in Seq(Byte)
            /\ Len(s) = IF t + 1 <= t + n THEN (t + n) - (t + 1) + 1 ELSE 0
            /\ \A j \in 1 .. (t + n) - (t + 1) + 1 : s[j] = stream[t + 1 + j - 1]
        BY <2>1, <3>1, SubSeqProperties
      <3>3. (t + n) - (t + 1) + 1 = n /\ \A k \in 1..n : t + 1 + k - 1 = t + k
        BY <1>5
      <3> QED
        BY <1>5, <3>2, <3>3
    <2>3. acc \in Seq(Byte) /\ acc' = acc \o s
      BY <1>4, <1>6
    <2> HIDE DEF s
    <2>4. /\ acc \o s \in Seq(Byte) /\ Len(acc \o s) = Len(acc) + Len(s)
          /\ \A k \in 1..Len(acc) : (acc \o s)[k] = acc[k]
          /\ \A k \in 1..Len(s) : (acc \o s)[Len(acc) + k] = s[k]
      BY <2>2, <2>3, JoinFacts, Zenon
    <2> QED
      BY <1>4, <2>2, <2>3, <2>4
  <1>8. BufferOK' /\ Pos' = t + n /\ Pos' \in Nat /\ Pos <= Pos'
    <2>1. buf' \in Seq(Byte) /\ Len(buf') = 0
      BY <1>2, <1>5
    <2>2. Pos' = t + n
      BY <1>5, <1>6, <2>1 DEF Pos
    <2>3. t + n \in Nat /\ t <= t + n
      BY <1>5
    <2>4. arrived' \in Nat /\ 0 <= t + n /\ 0 <= N /\ arrived' <= Len(stream)
      BY <1>1, <1>2, <1>5, <2>3, BufferAssumption DEF BufferOK
    <2> QED
      BY <1>1, <1>2, <1>3, <1>5, <1>6, <2>1, <2>2, <2>3, <2>4 DEF BufferOK
  <1>9. taken' \in Nat /\ taken' <= arrived
    BY <1>5, <1>6
  <1>10. type' \in Seq(Byte)
    BY <1>1, <1>2 DEF ReaderTypes
  \* What has been put together is of the data.
  <1>11. ASSUME InStep
         PROVE  /\ In(i) /\ taken' = DataAt(i) + (c + n) /\ ends[i] = DataAt(i) + l
                /\ DataAt(i) \in Nat
                /\ \A k \in 1 .. c + n : acc'[k] = msgs[i].data[k]
    <2>1. In(i) /\ taken = DataAt(i) + c /\ \A k \in 1..c : acc[k] = msgs[i].data[k]
      BY <1>1, <1>2, <1>4, <1>11 DEF Sync
    <2>2. PICK d \in Nat : /\ d = DataAt(i) /\ ends[i] = d + l /\ t = d + c
                           /\ \A k \in 1..l : stream[d + k] = msgs[i].data[k]
      BY <1>1, <1>4, <1>5, <2>1, DataHere
    <2>3. \A k \in 1 .. c + n : acc'[k] = msgs[i].data[k]
      <3> SUFFICES ASSUME NEW k \in 1 .. c + n PROVE acc'[k] = msgs[i].data[k]
        OBVIOUS
      <3>1. CASE k <= c
        <4>1. k \in 1..c
          BY <1>4, <3>1
        <4> QED
          BY <1>7, <2>1, <4>1
      <3>2. CASE k > c
        <4>1. k - c \in 1..n /\ c + (k - c) = k /\ t + (k - c) = d + k /\ k \in 1..l
          <5>1. c \in Nat /\ n \in Nat /\ t \in Nat /\ d \in Nat /\ l \in Nat
            BY <1>4, <1>5, <2>2
          <5>2. t = d + c /\ c + n <= l
            BY <1>5, <2>2
          <5> QED
            BY <3>2, <5>1, <5>2
        <4>2. acc'[c + (k - c)] = stream[t + (k - c)]
          BY <1>7, <4>1
        <4> QED
          BY <2>2, <4>1, <4>2
      <3> QED
        BY <1>4, <1>5, <3>1, <3>2
    <2>4. t + n = d + (c + n)
      BY <1>4, <1>5, <2>2
    <2> QED
      BY <1>6, <2>1, <2>2, <2>3, <2>4
  <1>12. CASE RestSize = Left
    <2>1. c + n = l
      BY <1>4, <1>5, <1>12
    <2>2. Deliver(i, acc')
      BY <1>2, <1>4, <1>12
    <2>3. InStep => /\ i <= Len(ends) /\ Pos' = ends[i] /\ acc' = msgs[i].data
                    /\ Reliable(wait) => i = wait
                    /\ \A g \in DOMAIN got : got[g].msg < i
      <3> SUFFICES ASSUME InStep
                   PROVE  /\ i <= Len(ends) /\ Pos' = ends[i] /\ acc' = msgs[i].data
                          /\ Reliable(wait) => i = wait
                          /\ \A g \in DOMAIN got : got[g].msg < i
        OBVIOUS
      <3>1. acc' = msgs[i].data
        <4>1. Len(acc') = l /\ \A k \in 1..l : acc'[k] = msgs[i].data[k]
          BY <1>7, <1>11, <2>1
        <4> QED
          BY <1>4, <1>7, <4>1, SameList
      <3> QED
        BY <1>6, <1>8, <1>11, <2>1, <3>1 DEF In
    <2>4. buf' = <<>>
      BY <1>2, <1>5
    <2> QED
      BY <1>2, <1>7, <1>8, <1>9, <1>10, <2>2, <2>3, <2>4, DeliverInv
  <1>13. CASE RestSize # Left
    <2>1. c + n < l /\ stage' = stage /\ got' = got
      <3>1. n # l - c
        BY <1>4, <1>5, <1>13
      <3> QED
        BY <1>2, <1>4, <1>5, <1>13, <3>1
    <2>2. Expected(type)' = Expected(type) /\ Msg' = Msg
      BY <1>2, <1>3 DEF Msg, Expected, Phase, Phases, TypeLine, NL
    <2>3. ReaderTypes'
      <3>1. Expected(type)' # {} /\ Len(acc') < Len(msgs'[Msg'].data) /\ buf' = <<>>
        BY <1>2, <1>3, <1>4, <1>5, <1>7, <2>1, <2>2
      <3> QED
        BY <1>1, <1>2, <1>3, <1>7, <2>1, <3>1 DEF ReaderTypes
    <2>4. FirstAlone'
      BY <1>2, <1>9, <2>1, TakeFirst
    <2>5. DropsOnlyReadAhead' /\ DeliveredOK'
      BY <1>1, <1>2, <1>3, <2>1 DEF DropsOnlyReadAhead, DeliveredOK, Reliable
    <2>6. Sync'
      <3>1. /\ (InStep' <=> InStep) /\ (Reliable(wait)' <=> Reliable(wait))
            /\ \A j : In(j)' <=> In(j)
        BY <1>2, <1>3, <2>1 DEF InStep, Reliable, In, IsDone
      <3>2. InStep => \A g \in DOMAIN got : got[g].msg <= Len(ends) /\ ends[got[g].msg] <= Pos'
        BY <1>8, StaysBehind
      <3>3. Reliable(wait) => \A g \in DOMAIN got : got[g].msg = g
        BY <1>1 DEF Sync
      <3>4. ASSUME InStep, NEW j \in Expected(type)
            PROVE  /\ In(j) /\ taken' = DataAt(j) + Len(acc')
                   /\ \A k \in 1..Len(acc') : acc'[k] = msgs[j].data[k]
        <4>1. j = i
          BY <1>1, <1>4, OneExpected
        <4> QED
          BY <1>7, <1>11, <3>4, <4>1
      <3> QED
        BY <1>2, <1>3, <2>1, <2>2, <3>1, <3>2, <3>3, <3>4 DEF Sync
    <2> QED
      BY <1>3, <1>8, <2>3, <2>4, <2>5, <2>6 DEF FramingInv
  <1> QED
    BY <1>12, <1>13

LEMMA TimeoutInv == FramingInv /\ Timeout => FramingInv'
  <1> SUFFICES ASSUME FramingInv, Timeout PROVE FramingInv'
    OBVIOUS
  <1>1. MessagesOK /\ StreamOK /\ BufferOK /\ ReaderTypes
    BY DEF FramingInv
  <1>2. /\ stage \in {"type", "header"} /\ Fail /\ UNCHANGED sentVars /\ arrived' = arrived
        /\ wait' = wait /\ taken' = taken /\ buf' = buf /\ type' = type /\ acc' = acc
        /\ cut' = cut /\ timeouts < MaxTimeouts /\ timeouts' = timeouts + 1
    BY DEF Timeout, InLine
  <1>3. stream' = stream
    BY <1>1, <1>2, SentSame
  <1>4. BufferOK' /\ Pos' = Pos /\ Pos \in Nat
    BY <1>1, <1>2, <1>3, BufferNumbers DEF BufferOK, Pos
  <1>5. timeouts' \in 0..MaxTimeouts /\ type' \in Seq(Byte) /\ acc' \in Seq(Byte)
    BY <1>1, <1>2, BytesAssumption DEF ReaderTypes
  <1>6. Pos <= Pos'
    BY <1>4
  <1> QED
    BY <1>2, <1>4, <1>5, <1>6, FailInv

LEMMA NextInv == FramingInv /\ [FramingNext]_framingVars => FramingInv'
  <1> SUFFICES ASSUME FramingInv, [FramingNext]_framingVars PROVE FramingInv'
    OBVIOUS
  <1>1. CASE Read
    BY <1>1, BeginInv, RecvInv, AppendInv, EndTypeLineInv, EndHeaderInv, DataInBufferInv,
       DataBeginsInv, DataRestInv DEF Read
  <1>2. CASE Timeout
    BY <1>2, TimeoutInv
  <1>3. CASE Peer
    BY <1>3, SendInv, ArriveInv DEF Peer
  <1>4. CASE UNCHANGED framingVars
    <2>1. UNCHANGED sentVars /\ UNCHANGED readerVars /\ arrived' = arrived
      BY <1>4 DEF framingVars, sentVars, readerVars
    <2> QED
      BY <2>1, UnchangedInv
  <1> QED
    BY <1>1, <1>2, <1>3, <1>4 DEF FramingNext

LEMMA AlwaysInv == FramingSpec => []FramingInv
  BY InitInv, NextInv, PTL DEF FramingSpec

-----------------------------------------------------------------------------
(* The theorems *)

\* The variables of a reader keep their types whatever the peer sends: it has
\* taken no more than has arrived, its buffer never holds more than N bytes,
\* and it waits for the message after the last one it delivered.
THEOREM FramingTypeOKAlways == FramingSpec => []FramingTypeOK
  <1>1. FramingInv => FramingTypeOK
    <2> SUFFICES ASSUME FramingInv PROVE FramingTypeOK
      OBVIOUS
    <2>1. MessagesOK /\ BufferOK /\ ReaderTypes
      BY DEF FramingInv
    <2>2. wait \in Len(got) .. Len(got) + 1
      BY <2>1 DEF ReaderTypes
    <2> QED
      BY <2>1, <2>2 DEF MessagesOK, BufferOK, ReaderTypes, FramingTypeOK
  <1> QED
    BY <1>1, AlwaysInv, PTL

\* However the bytes of Readbuf and recv are cut, a message is delivered whole,
\* once and in the order it was sent: as long as no bytes were dropped, and,
\* if no data looks like a type line, after that too.
THEOREM DeliversWholeAlways == FramingSpec => []DeliversWhole
  <1>1. FramingInv => DeliversWhole
    <2> SUFFICES ASSUME FramingInv, NEW h \in DOMAIN got, cut \cap 1..h = {} \/ PlainData
                 PROVE  /\ got[h].data = msgs[got[h].msg].data
                        /\ \A g \in 1 .. h - 1 : got[g].msg < got[h].msg
      BY DEF DeliversWhole
    <2>1. MessagesOK /\ DeliveredOK
      BY DEF FramingInv
    <2>2. kind = "ask" => PlainData
      <3> SUFFICES ASSUME kind = "ask" PROVE PlainData
        OBVIOUS
      <3>1. \A i \in DOMAIN msgs : msgs[i].data = <<>>
        BY <2>1 DEF MessagesOK
      <3> QED
        BY <3>1 DEF PlainData, ToSet
    <2>3. Reliable(h) \/ PlainData
      BY <2>2 DEF Reliable
    <2> QED
      BY <2>1, <2>3 DEF DeliveredOK
  <1> QED
    BY <1>1, AlwaysInv, PTL

\* A Readbuf that is made anew drops bytes in three places only, whatever the
\* size of the buffer: see the property.
THEOREM DropsOnlyReadAheadAlways == FramingSpec => []DropsOnlyReadAhead
  <1>1. FramingInv => DropsOnlyReadAhead
    BY DEF FramingInv
  <1> QED
    BY <1>1, AlwaysInv, PTL

=============================================================================
