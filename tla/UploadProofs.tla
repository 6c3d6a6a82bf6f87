---------------------------- MODULE UploadProofs ----------------------------
(***************************************************************************)
(* The four safety properties of Upload, for any files and lengths and any *)
(* MaxPushBytes.                                                           *)
(*                                                                         *)
(* The loops of the code are recursive functions.  That such a function    *)
(* has values at all is proved once, by induction (LoopRuns); for each     *)
(* loop it follows that its turns are those of the code (GroupRuns,        *)
(* ChunkifyRuns).  Induction is that of a set of numbers, or of lists,     *)
(* from the least number outside it.                                       *)
(*                                                                         *)
(* Then the lists.  Every way of cutting and grouping entries leaves their *)
(* bytes, in order, as they were (PartsStream, GroupPiecesFacts,           *)
(* ChunkifyFacts).                                                         *)
(*                                                                         *)
(* Last the sessions.  UploadInv says how far each file has come: its row  *)
(* is one chunk from 0 to there, or none, so are the bytes on disk, and    *)
(* what is on the way is all that lacks, file after file.  The piece in    *)
(* front can then only be the next one of the first file that lacks        *)
(* something (Advance), and that keeps the invariant.                      *)
(***************************************************************************)
EXTENDS Upload, SequenceTheorems, WellFoundedInduction, TLAPS

-----------------------------------------------------------------------------
(* Induction and recursion *)

\* A set of numbers that is not empty has a least element.
LEMMA LeastExists ==
    ASSUME NEW I, I \subseteq Nat, I # {}
    PROVE  \E i \in I : \A j \in I : i <= j
  <1> DEFINE R == OpToRel(<, Nat)
  <1>1. IsWellFoundedOn(R, Nat)
    BY NatLessThanWellFounded
  <1>2. PICK x \in I : \A y \in I : ~(<<y, x>> \in R)
    <2> HIDE DEF R
    <2> QED
      BY <1>1, WFMin
  <1>3. \A y \in I : ~(y < x)
    BY <1>2 DEF OpToRel
  <1>4. x \in Nat /\ \A y \in I : x <= y
    <2> HIDE DEF R
    <2> QED
      BY <1>3
  <1> QED
    BY <1>4

\* What holds of 0 and goes from a number to the next holds of all of them.
LEMMA Induction ==
    ASSUME NEW I, 0 \in I, \A n \in Nat : n \in I => n + 1 \in I
    PROVE  \A n \in Nat : n \in I
  <1> DEFINE J == {n \in Nat : n \notin I}
  <1>1. SUFFICES ASSUME J # {} PROVE FALSE
    OBVIOUS
  <1>2. J \subseteq Nat
    OBVIOUS
  <1>3. PICK n \in J : \A j \in J : n <= j
    <2> HIDE DEF J
    <2> QED
      BY <1>1, <1>2, LeastExists
  <1>4. n \in Nat /\ n # 0
    BY <1>3
  <1>5. n - 1 \in Nat /\ n - 1 \notin J
    BY <1>3, <1>4
  <1>6. n - 1 \in I /\ (n - 1) + 1 = n
    BY <1>5, <1>4
  <1> QED
    BY <1>3, <1>5, <1>6

\* A loop whose turns are a function runs as often as is asked.
Turns(a, T, start, n) == a[0] = start /\ \A i \in 1..n : a[i] = T[<<a[i - 1], i>>]

LEMMA LoopRuns ==
    ASSUME NEW D, NEW start \in D, NEW n \in Nat, NEW T \in [D \X (1..n) -> D]
    PROVE  \E a \in [0..n -> D] : Turns(a, T, start, n)
  <1> DEFINE Runs(m, a) == a[0] = start /\ \A i \in 1..m : a[i] = T[<<a[i - 1], i>>]
             I == {m \in Nat : m <= n => \E a \in [0..m -> D] : Runs(m, a)}
  <1>1. 0 \in I
    <2>1. [i \in 0..0 |-> start] \in [0..0 -> D] /\ Runs(0, [i \in 0..0 |-> start])
      OBVIOUS
    <2> QED
      BY <2>1
  <1>2. ASSUME NEW m \in Nat, m \in I PROVE m + 1 \in I
    <2> SUFFICES ASSUME m + 1 <= n PROVE \E a \in [0..m + 1 -> D] : Runs(m + 1, a)
      OBVIOUS
    <2>1. PICK a \in [0..m -> D] : Runs(m, a)
      BY <1>2
    <2> DEFINE v == T[<<a[m], m + 1>>]
               b == [i \in 0 .. m + 1 |-> IF i = m + 1 THEN v ELSE a[i]]
    <2>2. v \in D
      OBVIOUS
    <2> HIDE DEF v
    <2>3. b \in [0..m + 1 -> D]
      BY <2>2
    <2>4. b[0] = start
      BY <2>1
    <2>5. \A i \in 1..m : b[i] = a[i] /\ b[i - 1] = a[i - 1]
      OBVIOUS
    <2>6. b[m + 1] = v /\ b[(m + 1) - 1] = a[m]
      OBVIOUS
    <2>7. ASSUME NEW i \in 1..m + 1 PROVE b[i] = T[<<b[i - 1], i>>]
      <3>1. CASE i = m + 1
        BY <3>1, <2>6 DEF v
      <3>2. CASE i # m + 1
        BY <3>2, <2>5, <2>1
      <3> QED
        BY <3>1, <3>2
    <2> HIDE DEF b
    <2> QED
      BY <2>3, <2>4, <2>7
  <1>3. \A m \in Nat : m \in I
    <2> HIDE DEF I
    <2> QED
      BY <1>1, <1>2, Induction
  <1>4. n \in I
    <2> HIDE DEF I
    <2> QED
      BY <1>3
  <1> QED
    BY <1>4 DEF Turns

\* Two loops that agree on each turn agree.
Alike(a, b, n) == a[0] = b[0] /\ \A i \in 1..n : a[i - 1] = b[i - 1] => a[i] = b[i]

\* There is only one such run.
LEMMA SameRuns ==
    ASSUME NEW a, NEW b, NEW n \in Nat, Alike(a, b, n)
    PROVE  \A i \in 0..n : a[i] = b[i]
  <1> DEFINE I == {i \in Nat : i <= n => a[i] = b[i]}
  <1>1. 0 \in I
    BY DEF Alike
  <1>2. ASSUME NEW i \in Nat, i \in I PROVE i + 1 \in I
    <2>1. (i + 1) - 1 = i /\ (i + 1 <= n => i + 1 \in 1..n)
      OBVIOUS
    <2>2. i + 1 <= n => a[i] = b[i]
      BY <1>2
    <2> QED
      BY <2>1, <2>2 DEF Alike
  <1>3. \A i \in Nat : i \in I
    <2> HIDE DEF I
    <2> QED
      BY <1>1, <1>2, Induction
  <1> QED
    BY <1>3

\* Concat puts one list after the other together.
LEMMA ConcatRuns ==
    ASSUME NEW S, NEW lists \in Seq(Seq(S))
    PROVE  \E a \in [0..Len(lists) -> Seq(S)] :
              /\ a[0] = <<>> /\ Concat(lists) = a[Len(lists)]
              /\ \A i \in 1..Len(lists) : a[i] = a[i - 1] \o lists[i]
  <1>1. PICK n \in Nat : n = Len(lists)
    OBVIOUS
  <1> DEFINE D == Seq(S)
             T == [p \in D \X (1..n) |-> p[1] \o lists[p[2]]]
             Turn(g, i) == CHOOSE v \in {u \o lists[i] : u \in {g[i - 1]}} : TRUE
             Body(g) == [i \in 0..Len(lists) |-> IF i = 0 THEN <<>> ELSE Turn(g, i)]
             after == CHOOSE g : g = Body(g)
  <1>2. T \in [D \X (1..n) -> D]
    BY <1>1
  <1>3. <<>> \in D
    OBVIOUS
  <1>4. PICK a \in [0..n -> D] : Turns(a, T, <<>>, n)
    <2> HIDE DEF T, D
    <2> QED
      BY <1>1, <1>2, <1>3, LoopRuns
  <1>5. \A i \in 1..n : a[i] = a[i - 1] \o lists[i]
    <2> TAKE i \in 1..n
    <2>1. a[i - 1] \in D
      BY <1>4
    <2>2. <<a[i - 1], i>> \in D \X (1..n)
      BY <2>1
    <2>3. T[<<a[i - 1], i>>] = a[i - 1] \o lists[i]
      BY <2>2
    <2> QED
      BY <1>4, <2>3 DEF Turns
  <1>6. \A g : /\ DOMAIN Body(g) = 0..n /\ Body(g)[0] = <<>>
              /\ \A i \in 1..n : Body(g)[i] = g[i - 1] \o lists[i]
    <2> TAKE g
    <2>1. ASSUME NEW i \in 1..n PROVE Turn(g, i) = g[i - 1] \o lists[i]
      <3>1. {u \o lists[i] : u \in {g[i - 1]}} = {g[i - 1] \o lists[i]}
        OBVIOUS
      <3>2. \A e : (CHOOSE v \in {e} : TRUE) = e
        OBVIOUS
      <3> QED
        BY <3>1, <3>2
    <2> HIDE DEF Turn
    <2>2. DOMAIN Body(g) = 0..n /\ Body(g)[0] = <<>>
      BY <1>1
    <2>3. \A i \in 1..n : Body(g)[i] = Turn(g, i)
      BY <1>1
    <2> HIDE DEF Body
    <2> QED
      BY <2>1, <2>2, <2>3
  <1>7. a = Body(a)
    <2>1. DOMAIN a = 0..n /\ DOMAIN Body(a) = 0..n /\ a = [i \in 0..n |-> a[i]]
      BY <1>1, <1>4
    <2>2. \A i \in 0..n : a[i] = Body(a)[i]
      <3> HIDE DEF Body
      <3>1. \A i \in 0..n : i = 0 \/ i \in 1..n
        BY <1>1
      <3> QED
        BY <1>4, <1>5, <1>6, <3>1 DEF Turns
    <2>3. Body(a) = [i \in 0..n |-> Body(a)[i]]
      BY <1>1
    <2> HIDE DEF Body
    <2> QED
      BY <2>1, <2>2, <2>3
  <1>8. after = Body(after)
    <2> HIDE DEF Body
    <2> QED
      BY <1>7
  <1>9. after[0] = <<>> /\ \A i \in 1..n : after[i] = after[i - 1] \o lists[i]
    <2> HIDE DEF after, Body
    <2> QED
      BY <1>6, <1>8
  <1>10. Concat(lists) = after[n]
    BY <1>1 DEF Concat, Loop
  <1>11. after[n] = a[n]
    <2> HIDE DEF after
    <2>1. Alike(after, a, n)
      BY <1>4, <1>5, <1>9, ZenonT(30) DEF Turns, Alike
    <2>2. \A i \in 0..n : after[i] = a[i]
      BY <1>1, <2>1, SameRuns
    <2> QED
      BY <1>1, <2>2
  <1> QED
    BY <1>1, <1>4, <1>5, <1>10, <1>11 DEF Turns

-----------------------------------------------------------------------------
(* Lists *)

\* What holds of the empty list and survives Append holds of every list.
LEMMA ListInduction ==
    ASSUME NEW S, NEW I, <<>> \in I,
           \A s \in Seq(S), x \in S : s \in I => Append(s, x) \in I
    PROVE  \A s \in Seq(S) : s \in I
  <1> DEFINE J == {n \in Nat : \A s \in Seq(S) : Len(s) = n => s \in I}
  <1>1. 0 \in J
    BY EmptySeq
  <1>2. ASSUME NEW n \in Nat, n \in J PROVE n + 1 \in J
    <2> SUFFICES ASSUME NEW s \in Seq(S), Len(s) = n + 1 PROVE s \in I
      OBVIOUS
    <2>1. s # <<>>
      BY EmptySeq
    <2>2. PICK t \in Seq(S), x \in S : s = Append(t, x)
      BY <2>1, SequenceEmptyOrAppend
    <2>3. Len(s) = Len(t) + 1 /\ Len(t) \in Nat
      BY <2>2, AppendProperties
    <2>4. t \in I
      BY <1>2, <2>3
    <2> QED
      BY <2>2, <2>4
  <1>3. \A n \in Nat : n \in J
    <2> HIDE DEF J
    <2> QED
      BY <1>1, <1>2, Induction
  <1>4. TAKE s \in Seq(S)
  <1>5. Len(s) \in Nat /\ Len(s) \in J
    <2> HIDE DEF J
    <2> QED
      BY <1>3, LenProperties
  <1> QED
    BY <1>5

LEMMA ConcatEmpty ==
    /\ Concat(<<>>) = <<>>
    /\ \A S : <<>> \in Seq(Seq(S))
  <1>1. \A S : <<>> \in Seq(S) /\ Len(<<>>) = 0
    BY EmptySeq
  <1>2. PICK a \in [0..Len(<<>>) -> Seq(Nat)] : a[0] = <<>> /\ Concat(<<>>) = a[Len(<<>>)]
    BY <1>1, ConcatRuns, ZenonT(30)
  <1> QED
    BY <1>1, <1>2

LEMMA ConcatType ==
    ASSUME NEW S, NEW lists \in Seq(Seq(S))
    PROVE  Concat(lists) \in Seq(S)
  <1>1. PICK n \in Nat : n = Len(lists)
    BY LenProperties
  <1>2. PICK a \in [0..n -> Seq(S)] : Concat(lists) = a[n]
    BY <1>1, ConcatRuns
  <1> QED
    BY <1>2

\* Concat of a longer list of lists.
LEMMA ConcatAppend ==
    ASSUME NEW S, NEW lists \in Seq(Seq(S)), NEW x \in Seq(S)
    PROVE  Concat(Append(lists, x)) = Concat(lists) \o x
  <1>1. PICK n \in Nat : n = Len(lists)
    BY LenProperties
  <1>2. PICK more \in Seq(Seq(S)) : more = Append(lists, x)
    BY AppendProperties
  <1>3. Len(more) = n + 1 /\ more[n + 1] = x /\ \A i \in 1..n : more[i] = lists[i]
    BY <1>1, <1>2, AppendProperties
  <1>4. PICK a \in [0..n -> Seq(S)] :
            /\ a[0] = <<>> /\ Concat(lists) = a[n]
            /\ \A i \in 1..n : a[i] = a[i - 1] \o lists[i]
    BY <1>1, ConcatRuns
  <1>5. PICK b \in [0..Len(more) -> Seq(S)] :
            /\ b[0] = <<>> /\ Concat(more) = b[Len(more)]
            /\ \A i \in 1..Len(more) : b[i] = b[i - 1] \o more[i]
    BY <1>2, ConcatRuns, ZenonT(30)
  <1>6. Alike(a, b, n)
    <2> SUFFICES ASSUME NEW i \in 1..n, a[i - 1] = b[i - 1] PROVE a[i] = b[i]
      BY <1>4, <1>5 DEF Alike
    <2>1. i \in 1..Len(more)
      BY <1>1, <1>3
    <2>2. b[i] = b[i - 1] \o more[i] /\ a[i] = a[i - 1] \o lists[i]
      BY <1>4, <1>5, <2>1
    <2> QED
      BY <1>3, <2>2
  <1>7. a[n] = b[n]
    BY <1>1, <1>6, SameRuns
  <1>8. b[n + 1] = b[n] \o x
    <2>1. n + 1 \in 1..Len(more) /\ (n + 1) - 1 = n
      BY <1>1, <1>3
    <2> QED
      BY <1>3, <1>5, <2>1
  <1> QED
    BY <1>2, <1>3, <1>4, <1>5, <1>7, <1>8

\* Concat of two lists of lists after each other.
LEMMA ConcatJoin ==
    ASSUME NEW S, NEW l \in Seq(Seq(S)), NEW m \in Seq(Seq(S))
    PROVE  Concat(l \o m) = Concat(l) \o Concat(m)
  <1> DEFINE I == {k \in Seq(Seq(S)) : Concat(l \o k) = Concat(l) \o Concat(k)}
  <1>1. <<>> \in I
    <2>1. l \o <<>> = l /\ Concat(l) \in Seq(S) /\ Concat(l) \o <<>> = Concat(l)
      BY ConcatEmptySeq, ConcatType
    <2> QED
      BY <2>1, ConcatEmpty
  <1>2. ASSUME NEW k \in Seq(Seq(S)), NEW x \in Seq(S), k \in I PROVE Append(k, x) \in I
    <2>1. PICK lk \in Seq(Seq(S)) : lk = l \o k
      BY ConcatProperties
    <2>2. l \o Append(k, x) = Append(lk, x)
      <3>1. <<x>> \in Seq(Seq(S))
        OBVIOUS
      <3>2. Append(k, x) = k \o <<x>> /\ Append(lk, x) = lk \o <<x>>
        BY AppendIsConcat
      <3>3. (l \o k) \o <<x>> = l \o (k \o <<x>>)
        BY <3>1, ConcatAssociative, SMTT(30)
      <3> QED
        BY <2>1, <3>2, <3>3
    <2>3. Concat(Append(lk, x)) = Concat(lk) \o x
      BY ConcatAppend
    <2>4. Concat(lk) = Concat(l) \o Concat(k)
      BY <1>2, <2>1
    <2>5. Concat(Append(k, x)) = Concat(k) \o x /\ Append(k, x) \in Seq(Seq(S))
      BY ConcatAppend, AppendProperties
    <2>6. PICK p \in Seq(S), q \in Seq(S) : p = Concat(l) /\ q = Concat(k)
      BY ConcatType
    <2>7. (p \o q) \o x = p \o (q \o x)
      BY <1>2, <2>6, ConcatAssociative, SMTT(30)
    <2> QED
      BY <2>2, <2>3, <2>4, <2>5, <2>6, <2>7
  <1>3. \A k \in Seq(Seq(S)) : k \in I
    <2> HIDE DEF I
    <2> QED
      BY <1>1, <1>2, ListInduction
  <1> QED
    BY <1>3

LEMMA ConcatOne ==
    ASSUME NEW S, NEW x \in Seq(S)
    PROVE  Concat(<<x>>) = x
  <1>1. <<>> \in Seq(Seq(S)) /\ <<x>> = Append(<<>>, x)
    OBVIOUS
  <1>2. Concat(<<x>>) = <<>> \o x
    BY <1>1, ConcatAppend, ConcatEmpty
  <1> QED
    BY <1>2, ConcatEmptySeq

-----------------------------------------------------------------------------
(* Entries of a Pull and the bytes they stand for *)

Span == [name : Files, offset : Nat, len : Nat \ {0}]
Piece == {e \in Span : e.len <= MaxPushBytes}
Places == Files \X Nat

\* An entry has a place for each of its bytes.
LEMMA BytesFacts ==
    ASSUME NEW e \in Span
    PROVE  /\ BytesOf(e) \in Seq(Places) /\ Len(BytesOf(e)) = e.len
           /\ \A i \in 1..e.len : BytesOf(e)[i] = <<e.name, e.offset + i - 1>>
  <1>1. e.name \in Files /\ e.offset \in Nat /\ e.len \in Nat \ {0}
    BY DEF Span
  <1>2. \A i \in 1..e.len : <<e.name, e.offset + i - 1>> \in Places
    BY <1>1 DEF Places
  <1>3. BytesOf(e) \in [1..e.len -> Places]
    BY <1>2 DEF BytesOf
  <1>4. \A i \in 1..e.len : BytesOf(e)[i] = <<e.name, e.offset + i - 1>>
    BY DEF BytesOf
  <1>5. \A s : s \in [1..e.len -> Places] => s \in Seq(Places) /\ Len(s) = e.len
    BY <1>1
  <1> QED
    BY <1>3, <1>4, <1>5

LEMMA MapBytes ==
    ASSUME NEW es \in Seq(Span)
    PROVE  /\ Map(BytesOf, es) \in Seq(Seq(Places)) /\ Stream(es) \in Seq(Places)
           /\ Stream(es) = Concat(Map(BytesOf, es))
           /\ Map(BytesOf, es) = [i \in 1..Len(es) |-> BytesOf(es[i])]
  <1>1. PICK n \in Nat : n = Len(es) /\ DOMAIN es = 1..n
    BY LenProperties
  <1>2. \A i \in 1..n : BytesOf(es[i]) \in Seq(Places)
    BY <1>1, ElementOfSeq, BytesFacts
  <1>3. Map(BytesOf, es) = [i \in 1..n |-> BytesOf(es[i])]
    BY <1>1 DEF Map
  <1>4. Map(BytesOf, es) \in [1..n -> Seq(Places)]
    BY <1>2, <1>3
  <1>5. Map(BytesOf, es) \in Seq(Seq(Places))
    BY <1>1, <1>4
  <1>6. Stream(es) = Concat(Map(BytesOf, es))
    BY DEF Stream
  <1> QED
    BY <1>1, <1>3, <1>5, <1>6, ConcatType

LEMMA StreamEmpty == Stream(<<>>) = <<>>
  <1>1. <<>> \in Seq(Span) /\ Len(<<>>) = 0
    BY EmptySeq
  <1>2. Map(BytesOf, <<>>) = [i \in 1..0 |-> BytesOf(<<>>[i])]
    BY <1>1, MapBytes
  <1>3. Map(BytesOf, <<>>) = <<>>
    BY <1>2
  <1> QED
    BY <1>1, <1>3, MapBytes, ConcatEmpty

\* The bytes of a longer list of entries.
LEMMA StreamAppend ==
    ASSUME NEW es \in Seq(Span), NEW e \in Span
    PROVE  Stream(Append(es, e)) = Stream(es) \o BytesOf(e)
  <1>1. PICK n \in Nat : n = Len(es) /\ DOMAIN es = 1..n
    BY LenProperties
  <1>2. PICK more \in Seq(Span) : more = Append(es, e)
    BY AppendProperties
  <1>3. Len(more) = n + 1 /\ more[n + 1] = e /\ \A i \in 1..n : more[i] = es[i]
    BY <1>1, <1>2, AppendProperties
  <1>4. PICK m \in Seq(Seq(Places)) : m = Map(BytesOf, es)
    BY MapBytes
  <1>5. PICK b \in Seq(Places) : b = BytesOf(e)
    BY BytesFacts
  <1>6. m = [i \in 1..n |-> BytesOf(es[i])]
    BY <1>1, <1>4, MapBytes
  <1>7. Map(BytesOf, more) = [i \in 1..n + 1 |-> BytesOf(more[i])]
    BY <1>3, MapBytes
  <1>8. Append(m, b) = [i \in 1..n + 1 |-> IF i = n + 1 THEN b ELSE m[i]]
    BY <1>1, <1>6
  <1>9. Map(BytesOf, more) = Append(m, b)
    BY <1>1, <1>3, <1>5, <1>6, <1>7, <1>8
  <1>10. Concat(Append(m, b)) = Concat(m) \o b
    BY ConcatAppend
  <1> QED
    BY <1>2, <1>4, <1>5, <1>9, <1>10, MapBytes

LEMMA StreamOne ==
    ASSUME NEW e \in Span
    PROVE  Stream(<<e>>) = BytesOf(e)
  <1>1. <<>> \in Seq(Span) /\ <<e>> = Append(<<>>, e)
    OBVIOUS
  <1>2. Stream(<<e>>) = <<>> \o BytesOf(e)
    BY <1>1, StreamAppend, StreamEmpty
  <1> QED
    BY <1>2, BytesFacts, ConcatEmptySeq

\* The bytes of two lists after each other.
LEMMA StreamJoin ==
    ASSUME NEW es \in Seq(Span), NEW more \in Seq(Span)
    PROVE  Stream(es \o more) = Stream(es) \o Stream(more)
  <1> DEFINE I == {k \in Seq(Span) : Stream(es \o k) = Stream(es) \o Stream(k)}
  <1>1. <<>> \in I
    <2>1. es \o <<>> = es /\ Stream(es) \in Seq(Places) /\ Stream(es) \o <<>> = Stream(es)
      BY ConcatEmptySeq, MapBytes
    <2> QED
      BY <2>1, StreamEmpty, EmptySeq
  <1>2. ASSUME NEW k \in Seq(Span), NEW e \in Span, k \in I PROVE Append(k, e) \in I
    <2>1. PICK ek \in Seq(Span) : ek = es \o k
      BY ConcatProperties
    <2>2. es \o Append(k, e) = Append(ek, e)
      <3>1. <<e>> \in Seq(Span)
        OBVIOUS
      <3>2. Append(k, e) = k \o <<e>> /\ Append(ek, e) = ek \o <<e>>
        BY AppendIsConcat
      <3>3. (es \o k) \o <<e>> = es \o (k \o <<e>>)
        BY <1>2, <3>1, ConcatAssociative, SMTT(30)
      <3> QED
        BY <2>1, <3>2, <3>3
    <2>3. Stream(Append(ek, e)) = Stream(ek) \o BytesOf(e)
      BY StreamAppend
    <2>4. Stream(ek) = Stream(es) \o Stream(k)
      BY <1>2, <2>1
    <2>5. Stream(Append(k, e)) = Stream(k) \o BytesOf(e) /\ Append(k, e) \in Seq(Span)
      BY StreamAppend, AppendProperties
    <2>6. PICK p \in Seq(Places), q \in Seq(Places), x \in Seq(Places) :
              p = Stream(es) /\ q = Stream(k) /\ x = BytesOf(e)
      BY MapBytes, BytesFacts
    <2>7. (p \o q) \o x = p \o (q \o x)
      BY ConcatAssociative, SMTT(30)
    <2> QED
      BY <2>2, <2>3, <2>4, <2>5, <2>6, <2>7
  <1>3. \A k \in Seq(Span) : k \in I
    <2> HIDE DEF I
    <2> QED
      BY <1>1, <1>2, ListInduction
  <1> QED
    BY <1>3

\* The stream of lists put together is the streams put together.
LEMMA StreamConcat ==
    ASSUME NEW lists \in Seq(Seq(Span))
    PROVE  /\ [i \in 1..Len(lists) |-> Stream(lists[i])] \in Seq(Seq(Places))
           /\ Stream(Concat(lists)) = Concat([i \in 1..Len(lists) |-> Stream(lists[i])])
  <1> DEFINE Streams(l) == [i \in 1..Len(l) |-> Stream(l[i])]
             I == {l \in Seq(Seq(Span)) : /\ Streams(l) \in Seq(Seq(Places))
                                          /\ Stream(Concat(l)) = Concat(Streams(l))}
  <1>1. <<>> \in I
    <2>1. <<>> \in Seq(Seq(Span)) /\ Len(<<>>) = 0 /\ <<>> \in Seq(Seq(Places))
      BY EmptySeq
    <2>2. Streams(<<>>) = <<>>
      BY <2>1
    <2> HIDE DEF Streams
    <2> QED
      BY <2>1, <2>2, StreamEmpty, ConcatEmpty
  <1>2. ASSUME NEW l \in Seq(Seq(Span)), NEW x \in Seq(Span), l \in I PROVE Append(l, x) \in I
    <2>1. PICK n \in Nat : n = Len(l)
      BY LenProperties
    <2>2. PICK more \in Seq(Seq(Span)) : more = Append(l, x)
      BY AppendProperties
    <2>3. Len(more) = n + 1 /\ more[n + 1] = x /\ \A i \in 1..n : more[i] = l[i]
      BY <2>1, <2>2, AppendProperties
    <2>4. PICK m \in Seq(Seq(Places)) : m = Streams(l)
      BY <1>2
    <2>5. PICK b \in Seq(Places) : b = Stream(x)
      BY MapBytes
    <2>6. m = [i \in 1..n |-> Stream(l[i])]
      BY <2>1, <2>4
    <2>7. Streams(more) = [i \in 1..n + 1 |-> Stream(more[i])]
      BY <2>3
    <2>8. Append(m, b) = [i \in 1..n + 1 |-> IF i = n + 1 THEN b ELSE m[i]]
      BY <2>1, <2>6
    <2>9. Streams(more) = Append(m, b)
      <3> HIDE DEF Streams
      <3> QED
        BY <2>1, <2>3, <2>5, <2>6, <2>7, <2>8
    <2>10. Concat(Append(m, b)) = Concat(m) \o b /\ Append(m, b) \in Seq(Seq(Places))
      BY ConcatAppend, AppendProperties
    <2>11. PICK c \in Seq(Span) : c = Concat(l)
      BY ConcatType
    <2>12. Concat(more) = c \o x
      BY <2>2, <2>11, ConcatAppend
    <2>13. Stream(c \o x) = Stream(c) \o Stream(x)
      BY StreamJoin
    <2>14. Stream(c) = Concat(m)
      BY <1>2, <2>4, <2>11
    <2>15. Stream(Concat(more)) = Concat(Streams(more)) /\ Streams(more) \in Seq(Seq(Places))
      <3> HIDE DEF Streams
      <3> QED
        BY <2>5, <2>9, <2>10, <2>12, <2>13, <2>14
    <2> HIDE DEF Streams
    <2> QED
      BY <2>2, <2>15
  <1>3. \A l \in Seq(Seq(Span)) : l \in I
    <2> HIDE DEF I
    <2> QED
      BY <1>1, <1>2, ListInduction
  <1> QED
    BY <1>3

-----------------------------------------------------------------------------
(* How long Pushes are *)

\* The beginnings of a list.
LEMMA PrefixFacts ==
    ASSUME NEW S, NEW s \in Seq(S)
    PROVE  /\ SubSeq(s, 1, 0) = <<>> /\ SubSeq(s, 1, Len(s)) = s
           /\ \A i \in 0..Len(s) : SubSeq(s, 1, i) \in Seq(S)
           /\ \A i \in 1..Len(s) : SubSeq(s, 1, i) = Append(SubSeq(s, 1, i - 1), s[i])
  <1>1. \A i \in 1..Len(s) : s[i] \in S
    BY ElementOfSeq
  <1>2. SubSeq(s, 1, 0) = <<>> /\ SubSeq(s, 1, Len(s)) = s
    BY SubSeqEmpty, SubSeqFull
  <1>3. \A i \in 0..Len(s) : SubSeq(s, 1, i) \in Seq(S)
    BY <1>1, SubSeqProperties, LenProperties
  <1>4. ASSUME NEW i \in 1..Len(s) PROVE SubSeq(s, 1, i) = Append(SubSeq(s, 1, i - 1), s[i])
    <2>1. Len(s) \in Nat /\ 1 \in 1..Len(s) /\ i \in 1..Len(s) /\ i - 1 \in 0..Len(s)
      BY LenProperties
    <2>2. SubSeq(s, 1, i) = SubSeq(s, 1, i - 1) \o <<s[i]>>
      BY <2>1, SubSeqRecursiveSecond
    <2>3. SubSeq(s, 1, i - 1) \in Seq(S) /\ s[i] \in S
      BY <1>1, <1>3, <2>1
    <2> QED
      BY <2>2, <2>3, AppendIsConcat
  <1> QED
    BY <1>2, <1>3, <1>4

\* The loop of TotalLen as a function of its turns.
LEMMA TotalRuns ==
    ASSUME NEW push \in Seq(Span)
    PROVE  \E a \in [0..Len(push) -> Nat] :
              /\ a[0] = 0 /\ TotalLen(push) = a[Len(push)]
              /\ \A i \in 1..Len(push) : a[i] = a[i - 1] + push[i].len
  <1>1. PICK n \in Nat : n = Len(push) /\ \A i \in 1..n : push[i].len \in Nat
    <2>1. Len(push) \in Nat /\ \A i \in 1..Len(push) : push[i] \in Span
      BY LenProperties, ElementOfSeq
    <2>2. \A e \in Span : e.len \in Nat
      BY DEF Span
    <2> QED
      BY <2>1, <2>2
  <1> DEFINE T == [p \in Nat \X (1..n) |-> p[1] + push[p[2]].len]
             Turn(g, i) == CHOOSE v \in {u + push[i].len : u \in {g[i - 1]}} : TRUE
             Body(g) == [i \in 0..Len(push) |-> IF i = 0 THEN 0 ELSE Turn(g, i)]
             after == CHOOSE g : g = Body(g)
  <1>2. T \in [Nat \X (1..n) -> Nat]
    BY <1>1
  <1>3. PICK a \in [0..n -> Nat] : Turns(a, T, 0, n)
    <2> HIDE DEF T
    <2> QED
      BY <1>1, <1>2, LoopRuns
  <1>4. \A i \in 1..n : a[i] = a[i - 1] + push[i].len
    <2> TAKE i \in 1..n
    <2>1. a[i - 1] \in Nat
      BY <1>3
    <2>2. <<a[i - 1], i>> \in Nat \X (1..n)
      BY <2>1
    <2>3. T[<<a[i - 1], i>>] = a[i - 1] + push[i].len
      BY <2>2
    <2> QED
      BY <1>3, <2>3 DEF Turns
  <1>5. \A g : /\ DOMAIN Body(g) = 0..n /\ Body(g)[0] = 0
              /\ \A i \in 1..n : Body(g)[i] = g[i - 1] + push[i].len
    <2> TAKE g
    <2>1. ASSUME NEW i \in 1..n PROVE Turn(g, i) = g[i - 1] + push[i].len
      <3>1. {u + push[i].len : u \in {g[i - 1]}} = {g[i - 1] + push[i].len}
        OBVIOUS
      <3>2. \A e : (CHOOSE v \in {e} : TRUE) = e
        OBVIOUS
      <3> QED
        BY <3>1, <3>2
    <2> HIDE DEF Turn
    <2>2. DOMAIN Body(g) = 0..n /\ Body(g)[0] = 0
      BY <1>1
    <2>3. \A i \in 1..n : Body(g)[i] = Turn(g, i)
      BY <1>1
    <2> HIDE DEF Body
    <2> QED
      BY <2>1, <2>2, <2>3
  <1>6. a = Body(a)
    <2>1. DOMAIN a = 0..n /\ a = [i \in 0..n |-> a[i]]
      BY <1>1, <1>3
    <2>2. Body(a) = [i \in 0..n |-> Body(a)[i]]
      BY <1>1
    <2> HIDE DEF Body
    <2>3. \A i \in 0..n : i = 0 \/ i \in 1..n
      BY <1>1
    <2>4. \A i \in 0..n : a[i] = Body(a)[i]
      BY <1>3, <1>4, <1>5, <2>3 DEF Turns
    <2> QED
      BY <2>1, <2>2, <2>4
  <1>7. after = Body(after)
    <2> HIDE DEF Body
    <2> QED
      BY <1>6
  <1>8. Alike(after, a, n)
    <2> HIDE DEF after, Body
    <2> QED
      BY <1>3, <1>4, <1>5, <1>7 DEF Turns, Alike
  <1>9. TotalLen(push) = after[n]
    BY <1>1 DEF TotalLen, Loop
  <1>10. after[n] = a[n]
    <2> HIDE DEF after
    <2> QED
      BY <1>1, <1>8, SameRuns
  <1> QED
    BY <1>1, <1>3, <1>4, <1>9, <1>10 DEF Turns

LEMMA TotalFacts ==
    /\ TotalLen(<<>>) = 0
    /\ \A p \in Seq(Span) : TotalLen(p) \in Nat
    /\ \A p \in Seq(Span), e \in Span : TotalLen(Append(p, e)) = TotalLen(p) + e.len
  <1>1. ASSUME NEW p \in Seq(Span) PROVE TotalLen(p) \in Nat
    <2>1. PICK a \in [0..Len(p) -> Nat] : TotalLen(p) = a[Len(p)]
      BY TotalRuns
    <2> QED
      BY <2>1, LenProperties
  <1>2. TotalLen(<<>>) = 0
    <2>1. <<>> \in Seq(Span) /\ Len(<<>>) = 0
      BY EmptySeq
    <2> QED
      BY <2>1, TotalRuns
  <1>3. ASSUME NEW p \in Seq(Span), NEW e \in Span
        PROVE  TotalLen(Append(p, e)) = TotalLen(p) + e.len
    <2>1. PICK n \in Nat : n = Len(p)
      BY LenProperties
    <2>2. PICK more \in Seq(Span) : more = Append(p, e)
      BY AppendProperties
    <2>3. Len(more) = n + 1 /\ more[n + 1] = e /\ \A i \in 1..n : more[i] = p[i]
      BY <2>1, <2>2, AppendProperties
    <2>4. PICK a \in [0..n -> Nat] :
              /\ a[0] = 0 /\ TotalLen(p) = a[n]
              /\ \A i \in 1..n : a[i] = a[i - 1] + p[i].len
      BY <2>1, TotalRuns
    <2>5. PICK b \in [0..Len(more) -> Nat] :
              /\ b[0] = 0 /\ TotalLen(more) = b[Len(more)]
              /\ \A i \in 1..Len(more) : b[i] = b[i - 1] + more[i].len
      BY <2>2, TotalRuns
    <2>6. Alike(a, b, n)
      <3> SUFFICES ASSUME NEW i \in 1..n, a[i - 1] = b[i - 1] PROVE a[i] = b[i]
        BY <2>4, <2>5 DEF Alike
      <3>1. i \in 1..Len(more)
        BY <2>1, <2>3
      <3>2. b[i] = b[i - 1] + more[i].len /\ a[i] = a[i - 1] + p[i].len
        BY <2>4, <2>5, <3>1
      <3> QED
        BY <2>3, <3>2
    <2>7. a[n] = b[n]
      BY <2>1, <2>6, SameRuns
    <2>8. b[n + 1] = b[n] + e.len
      <3>1. n + 1 \in 1..Len(more) /\ (n + 1) - 1 = n
        BY <2>1, <2>3
      <3> QED
        BY <2>3, <2>5, <3>1
    <2> QED
      BY <2>2, <2>3, <2>4, <2>5, <2>7, <2>8
  <1> QED
    BY <1>1, <1>2, <1>3

-----------------------------------------------------------------------------
(* The loops that group what is sent *)

Groups == [pushes : Seq(Seq(Piece)), push : Seq(Piece), bytes : Nat]

LEMMA PieceFacts ==
    /\ Piece \subseteq Span
    /\ \A e \in Piece : e.len \in Nat /\ e.len > 0 /\ e.len <= MaxPushBytes
  BY DEF Piece, Span

\* What Flush and Put make of a list of Pushes under construction.
LEMMA GroupsFacts ==
    /\ NoPush \in Groups
    /\ NoPush.pushes = <<>> /\ NoPush.push = <<>> /\ NoPush.bytes = 0
    /\ \A s \in Groups :
          /\ s.pushes \in Seq(Seq(Piece)) /\ s.push \in Seq(Piece) /\ s.bytes \in Nat
          /\ Flush(s) \in Groups /\ Flush(s).push = <<>> /\ Flush(s).bytes = 0
          /\ Flush(s).pushes = Append(s.pushes, s.push)
    /\ \A s \in Groups, e \in Piece :
          /\ Put(s, e) \in Groups /\ Put(s, e).pushes = s.pushes
          /\ Put(s, e).push = Append(s.push, e) /\ Put(s, e).bytes = s.bytes + e.len
  <1>1. /\ NoPush \in Groups
        /\ NoPush.pushes = <<>> /\ NoPush.push = <<>> /\ NoPush.bytes = 0
    BY DEF NoPush, Groups
  <1>2. ASSUME NEW s \in Groups
        PROVE  /\ s.pushes \in Seq(Seq(Piece)) /\ s.push \in Seq(Piece) /\ s.bytes \in Nat
               /\ Flush(s) \in Groups /\ Flush(s).push = <<>> /\ Flush(s).bytes = 0
               /\ Flush(s).pushes = Append(s.pushes, s.push)
    <2>1. s.pushes \in Seq(Seq(Piece)) /\ s.push \in Seq(Piece) /\ s.bytes \in Nat
      BY DEF Groups
    <2>2. Append(s.pushes, s.push) \in Seq(Seq(Piece)) /\ <<>> \in Seq(Piece)
      BY <2>1, AppendProperties, EmptySeq
    <2> QED
      BY <2>1, <2>2 DEF Flush, Groups
  <1>3. ASSUME NEW s \in Groups, NEW e \in Piece
        PROVE  /\ Put(s, e) \in Groups /\ Put(s, e).pushes = s.pushes
               /\ Put(s, e).push = Append(s.push, e) /\ Put(s, e).bytes = s.bytes + e.len
    <2>1. s.push \in Seq(Piece) /\ s.bytes \in Nat
      BY DEF Groups
    <2>2. PICK p \in Seq(Piece), b \in Nat : p = Append(s.push, e) /\ b = s.bytes + e.len
      <3>1. Append(s.push, e) \in Seq(Piece)
        BY <2>1, AppendProperties
      <3>2. s.bytes + e.len \in Nat
        BY <2>1, PieceFacts
      <3> QED
        BY <3>1, <3>2
    <2>3. Put(s, e) = [s EXCEPT !.push = p, !.bytes = b]
      BY <2>2 DEF Put
    <2>4. /\ [s EXCEPT !.push = p, !.bytes = b] \in Groups
          /\ [s EXCEPT !.push = p, !.bytes = b].pushes = s.pushes
          /\ [s EXCEPT !.push = p, !.bytes = b].push = p
          /\ [s EXCEPT !.push = p, !.bytes = b].bytes = b
      BY DEF Groups
    <2> QED
      BY <2>2, <2>3, <2>4
  <1> QED
    BY <1>1, <1>2, <1>3

LEMMA GroupPieceType ==
    \A s \in Groups, e \in Piece : GroupPiece(s, e) \in Groups
  BY GroupsFacts DEF GroupPiece

\* The loop of SenderThread::sync as a function of its turns.
LEMMA GroupRuns ==
    ASSUME NEW pieces \in Seq(Piece)
    PROVE  \E a \in [0..Len(pieces) -> Groups] :
              /\ a[0] = NoPush /\ Loop(GroupPiece, NoPush, pieces) = a[Len(pieces)]
              /\ \A i \in 1..Len(pieces) : a[i] = GroupPiece(a[i - 1], pieces[i])
  <1>1. PICK n \in Nat : n = Len(pieces) /\ \A i \in 1..n : pieces[i] \in Piece
    BY LenProperties, ElementOfSeq
  <1> DEFINE T == [p \in Groups \X (1..n) |-> GroupPiece(p[1], pieces[p[2]])]
             Turn(g, i) == CHOOSE v \in {GroupPiece(u, pieces[i]) : u \in {g[i - 1]}} : TRUE
             Body(g) == [i \in 0..Len(pieces) |-> IF i = 0 THEN NoPush ELSE Turn(g, i)]
             after == CHOOSE g : g = Body(g)
  <1>2. T \in [Groups \X (1..n) -> Groups]
    BY <1>1, GroupPieceType
  <1>3. PICK a \in [0..n -> Groups] : Turns(a, T, NoPush, n)
    <2> HIDE DEF T
    <2> QED
      BY <1>1, <1>2, GroupsFacts, LoopRuns
  <1>4. \A i \in 1..n : a[i] = GroupPiece(a[i - 1], pieces[i])
    <2> TAKE i \in 1..n
    <2>1. a[i - 1] \in Groups
      BY <1>3
    <2>2. <<a[i - 1], i>> \in Groups \X (1..n)
      BY <2>1
    <2>3. T[<<a[i - 1], i>>] = GroupPiece(a[i - 1], pieces[i])
      BY <2>2
    <2> QED
      BY <1>3, <2>3 DEF Turns
  <1>5. \A g : /\ DOMAIN Body(g) = 0..n /\ Body(g)[0] = NoPush
              /\ \A i \in 1..n : Body(g)[i] = GroupPiece(g[i - 1], pieces[i])
    <2> TAKE g
    <2>1. ASSUME NEW i \in 1..n PROVE Turn(g, i) = GroupPiece(g[i - 1], pieces[i])
      <3>1. {GroupPiece(u, pieces[i]) : u \in {g[i - 1]}} = {GroupPiece(g[i - 1], pieces[i])}
        OBVIOUS
      <3>2. \A e : (CHOOSE v \in {e} : TRUE) = e
        OBVIOUS
      <3> QED
        BY <3>1, <3>2
    <2> HIDE DEF Turn
    <2>2. DOMAIN Body(g) = 0..n /\ Body(g)[0] = NoPush
      BY <1>1
    <2>3. \A i \in 1..n : Body(g)[i] = Turn(g, i)
      BY <1>1
    <2> HIDE DEF Body
    <2> QED
      BY <2>1, <2>2, <2>3
  <1>6. a = Body(a)
    <2>1. DOMAIN a = 0..n /\ a = [i \in 0..n |-> a[i]]
      BY <1>1, <1>3
    <2>2. Body(a) = [i \in 0..n |-> Body(a)[i]]
      BY <1>1
    <2> HIDE DEF Body
    <2>3. \A i \in 0..n : i = 0 \/ i \in 1..n
      BY <1>1
    <2>4. \A i \in 0..n : a[i] = Body(a)[i]
      BY <1>3, <1>4, <1>5, <2>3 DEF Turns
    <2> QED
      BY <2>1, <2>2, <2>4
  <1>7. after = Body(after)
    <2> HIDE DEF Body
    <2> QED
      BY <1>6
  <1>8. Alike(after, a, n)
    <2> HIDE DEF after, Body
    <2> QED
      BY <1>3, <1>4, <1>5, <1>7 DEF Turns, Alike
  <1>9. Loop(GroupPiece, NoPush, pieces) = after[n]
    BY <1>1 DEF Loop
  <1>10. after[n] = a[n]
    <2> HIDE DEF after
    <2> QED
      BY <1>1, <1>8, SameRuns
  <1> QED
    BY <1>1, <1>3, <1>4, <1>9, <1>10 DEF Turns

\* No Push is empty or over the limit.
WholePushes(ps) == \A i \in DOMAIN ps : ps[i] # <<>> /\ TotalLen(ps[i]) <= MaxPushBytes

\* The pieces so far are in the Pushes and the open Push.
Grouped(s, ps) ==
    /\ Concat(s.pushes) \o s.push = ps
    /\ s.bytes = TotalLen(s.push) /\ s.bytes <= MaxPushBytes
    /\ s.bytes = 0 => s.push = <<>>
    /\ WholePushes(s.pushes)

LEMMA PieceLists ==
    /\ \A s \in Seq(Piece) : s \in Seq(Span)
    /\ \A s \in Seq(Seq(Piece)) : s \in Seq(Seq(Span))
  <1>1. \A s \in Seq(Piece) : s \in Seq(Span)
    BY PieceFacts, SeqMonotonic
  <1>2. \A s \in Seq(Seq(Piece)) : s \in Seq(Seq(Span))
    <2>1. Seq(Piece) \subseteq Seq(Span)
      BY <1>1
    <2> QED
      BY <2>1, SeqMonotonic
  <1> QED
    BY <1>1, <1>2

LEMMA GroupedNothing == Grouped(NoPush, <<>>)
  <1>1. NoPush.pushes = <<>> /\ NoPush.push = <<>> /\ NoPush.bytes = 0
    BY GroupsFacts
  <1>2. <<>> \o <<>> = <<>> /\ DOMAIN <<>> = {}
    OBVIOUS
  <1> QED
    BY <1>1, <1>2, ConcatEmpty, TotalFacts, MaxPushBytesAssumption DEF Grouped, WholePushes

\* A piece that fits goes into the open Push.
LEMMA GroupedPut ==
    ASSUME NEW s \in Groups, NEW ps \in Seq(Piece), Grouped(s, ps),
           NEW e \in Piece, s.bytes + e.len <= MaxPushBytes
    PROVE  Grouped(Put(s, e), Append(ps, e))
  <1>1. PICK c \in Seq(Piece), p \in Seq(Piece), b \in Nat :
            c = Concat(s.pushes) /\ p = s.push /\ b = s.bytes
    BY GroupsFacts, ConcatType
  <1>2. /\ Put(s, e).pushes = s.pushes /\ Put(s, e).push = Append(p, e)
        /\ Put(s, e).bytes = b + e.len
    BY <1>1, GroupsFacts
  <1>3. c \o p = ps
    BY <1>1 DEF Grouped
  <1>4. c \o Append(p, e) = Append(ps, e)
    <2>1. <<e>> \in Seq(Piece)
      OBVIOUS
    <2>2. Append(p, e) = p \o <<e>> /\ Append(ps, e) = ps \o <<e>>
      BY AppendIsConcat
    <2>3. (c \o p) \o <<e>> = c \o (p \o <<e>>)
      BY <2>1, ConcatAssociative, SMTT(30)
    <2> QED
      BY <1>3, <2>2, <2>3
  <1>5. TotalLen(Append(p, e)) = b + e.len
    BY <1>1, PieceLists, PieceFacts, TotalFacts DEF Grouped
  <1>6. e.len \in Nat /\ e.len > 0 /\ b + e.len > 0
    BY <1>1, PieceFacts
  <1>7. b + e.len <= MaxPushBytes /\ WholePushes(s.pushes)
    BY <1>1 DEF Grouped
  <1> QED
    BY <1>1, <1>2, <1>4, <1>5, <1>6, <1>7 DEF Grouped

\* One more Push that is neither empty nor over the limit.
LEMMA WholeAppend ==
    ASSUME NEW ps \in Seq(Seq(Piece)), WholePushes(ps), NEW p \in Seq(Piece),
           p # <<>>, TotalLen(p) <= MaxPushBytes
    PROVE  WholePushes(Append(ps, p))
  <1>1. PICK n \in Nat : n = Len(ps) /\ DOMAIN ps = 1..n
    BY LenProperties
  <1>2. PICK m \in Seq(Seq(Piece)) : m = Append(ps, p)
    BY AppendProperties
  <1>3. DOMAIN m = 1..n + 1 /\ m[n + 1] = p /\ \A i \in 1..n : m[i] = ps[i]
    BY <1>1, <1>2, AppendProperties, LenProperties
  <1>4. ASSUME NEW i \in 1..n + 1 PROVE m[i] # <<>> /\ TotalLen(m[i]) <= MaxPushBytes
    <2>1. CASE i = n + 1
      BY <2>1, <1>3
    <2>2. CASE i # n + 1
      <3>1. i \in 1..n
        BY <2>2, <1>1
      <3> QED
        BY <3>1, <1>1, <1>3 DEF WholePushes
    <2> QED
      BY <2>1, <2>2
  <1> QED
    BY <1>2, <1>3, <1>4 DEF WholePushes

\* An open Push that is not empty may be closed.
LEMMA GroupedFlush ==
    ASSUME NEW s \in Groups, NEW ps \in Seq(Piece), Grouped(s, ps), s.push # <<>>
    PROVE  Grouped(Flush(s), ps) /\ Flush(s).bytes = 0 /\ Flush(s) \in Groups
  <1>1. PICK l \in Seq(Seq(Piece)), p \in Seq(Piece) : l = s.pushes /\ p = s.push
    BY GroupsFacts
  <1>2. PICK c \in Seq(Piece) : c = Concat(l)
    BY ConcatType
  <1>3. Flush(s).pushes = Append(l, p) /\ Flush(s).push = <<>> /\ Flush(s).bytes = 0
    BY <1>1, GroupsFacts
  <1>4. Concat(Append(l, p)) = c \o p
    BY <1>2, ConcatAppend
  <1>5. (c \o p) \o <<>> = c \o p
    BY ConcatProperties, ConcatEmptySeq
  <1>6. WholePushes(Append(l, p))
    BY <1>1, WholeAppend DEF Grouped
  <1>7. c \o p = ps
    BY <1>1, <1>2 DEF Grouped
  <1> QED
    BY <1>3, <1>4, <1>5, <1>6, <1>7, TotalFacts, MaxPushBytesAssumption, GroupsFacts DEF Grouped

\* SenderThread::sync sends the pieces it made, in order.
LEMMA GroupPieceKeeps ==
    ASSUME NEW s \in Groups, NEW ps \in Seq(Piece), Grouped(s, ps), NEW e \in Piece
    PROVE  Grouped(GroupPiece(s, e), Append(ps, e))
  <1>1. s.bytes \in Nat /\ e.len \in Nat /\ e.len <= MaxPushBytes
    BY GroupsFacts, PieceFacts
  <1>2. CASE s.bytes + e.len > MaxPushBytes
    <2>1. s.push # <<>>
      <3>1. SUFFICES ASSUME s.push = <<>> PROVE FALSE
        OBVIOUS
      <3>2. s.bytes = 0
        BY <3>1, TotalFacts DEF Grouped
      <3> QED
        BY <3>2, <1>1, <1>2, MaxPushBytesAssumption
    <2>2. PICK t \in Groups : t = Flush(s) /\ Grouped(t, ps) /\ t.bytes = 0
      BY <2>1, GroupedFlush
    <2>3. t.bytes + e.len <= MaxPushBytes
      BY <2>2, <1>1
    <2>4. Grouped(Put(t, e), Append(ps, e))
      BY <2>2, <2>3, GroupedPut
    <2>5. GroupPiece(s, e) = Put(t, e)
      BY <1>2, <2>2 DEF GroupPiece
    <2> QED
      BY <2>4, <2>5
  <1>3. CASE ~(s.bytes + e.len > MaxPushBytes)
    <2>1. s.bytes + e.len <= MaxPushBytes
      BY <1>1, <1>3, MaxPushBytesAssumption
    <2> QED
      BY <1>3, <2>1, GroupedPut DEF GroupPiece
  <1> QED
    BY <1>2, <1>3

\* The loop of SenderThread::sync sends all pieces, in order.
LEMMA GroupLoop ==
    ASSUME NEW pieces \in Seq(Piece), NEW pushed,
           pushed = LET s == Loop(GroupPiece, NoPush, pieces)
                    IN  IF s.bytes > 0 THEN Flush(s).pushes ELSE s.pushes
    PROVE  /\ pushed \in Seq(Seq(Piece))
           /\ Concat(pushed) = pieces /\ WholePushes(pushed)
  <1>1. PICK n \in Nat : n = Len(pieces)
    BY LenProperties
  <1>2. PICK a \in [0..n -> Groups] :
            /\ a[0] = NoPush /\ Loop(GroupPiece, NoPush, pieces) = a[n]
            /\ \A i \in 1..n : a[i] = GroupPiece(a[i - 1], pieces[i])
    BY <1>1, GroupRuns
  <1> DEFINE I == {i \in Nat : i <= n => Grouped(a[i], SubSeq(pieces, 1, i))}
  <1>3. 0 \in I
    BY <1>2, GroupedNothing, PrefixFacts
  <1>4. ASSUME NEW i \in Nat, i \in I PROVE i + 1 \in I
    <2> SUFFICES ASSUME i + 1 <= n PROVE Grouped(a[i + 1], SubSeq(pieces, 1, i + 1))
      OBVIOUS
    <2>1. i \in 0..n /\ i + 1 \in 1..n /\ (i + 1) - 1 = i
      BY <1>1
    <2>2. a[i] \in Groups /\ pieces[i + 1] \in Piece
      BY <1>1, <1>2, <2>1, ElementOfSeq
    <2>3. SubSeq(pieces, 1, i) \in Seq(Piece)
      BY <1>1, <2>1, PrefixFacts
    <2>4. SubSeq(pieces, 1, i + 1) = Append(SubSeq(pieces, 1, i), pieces[i + 1])
      BY <1>1, <2>1, PrefixFacts
    <2>5. Grouped(a[i], SubSeq(pieces, 1, i))
      BY <1>4, <2>1
    <2>6. a[i + 1] = GroupPiece(a[i], pieces[i + 1])
      BY <1>2, <2>1
    <2> QED
      BY <2>2, <2>3, <2>4, <2>5, <2>6, GroupPieceKeeps
  <1>5. n \in I
    <2> HIDE DEF I
    <2> QED
      BY <1>1, <1>3, <1>4, Induction
  <1>6. PICK s \in Groups : s = Loop(GroupPiece, NoPush, pieces) /\ Grouped(s, pieces)
    <2>1. Grouped(a[n], SubSeq(pieces, 1, n))
      BY <1>1, <1>5
    <2>2. SubSeq(pieces, 1, n) = pieces
      BY <1>1, PrefixFacts
    <2>3. a[n] \in Groups
      BY <1>1, <1>2
    <2> HIDE DEF I
    <2> QED
      BY <1>2, <2>1, <2>2, <2>3
  <1>7. PICK t \in Groups : t.pushes = pushed /\ t.push = <<>> /\ Grouped(t, pieces)
    <2>1. s.bytes \in Nat
      BY GroupsFacts
    <2>2. CASE s.bytes > 0
      <3>1. s.push # <<>>
        BY <2>2, <1>6, TotalFacts DEF Grouped
      <3>2. Flush(s) \in Groups /\ Flush(s).push = <<>> /\ Grouped(Flush(s), pieces)
        BY <1>6, <3>1, GroupedFlush, GroupsFacts
      <3> QED
        BY <1>6, <2>2, <3>2
    <2>3. CASE ~(s.bytes > 0)
      <3>1. s.bytes = 0 /\ s.push = <<>>
        BY <1>6, <2>1, <2>3 DEF Grouped
      <3> QED
        BY <1>6, <2>3, <3>1
    <2> QED
      BY <2>2, <2>3
  <1>8. t.pushes \in Seq(Seq(Piece))
    BY GroupsFacts
  <1>9. Concat(t.pushes) \in Seq(Piece)
    BY <1>8, ConcatType
  <1>10. Concat(t.pushes) \o <<>> = Concat(t.pushes)
    BY <1>9, ConcatEmptySeq
  <1> QED
    BY <1>7, <1>8, <1>10 DEF Grouped

-----------------------------------------------------------------------------
(* Cutting an entry *)

\* The bytes the first k parts of an entry hold.
Cut(e, k) == Minimum(k * MaxPushBytes, e.len)
Count(e) == (e.len + MaxPushBytes - 1) \div MaxPushBytes

\* The cuts of generatePushReqEntry start at 0, grow by at most
\* MaxPushBytes and end at the length.
LEMMA CountFacts ==
    ASSUME NEW e \in Span
    PROVE  /\ Count(e) \in Nat /\ Cut(e, 0) = 0 /\ Cut(e, Count(e)) = e.len
           /\ \A k \in 1..Count(e) :
                 /\ (k - 1) * MaxPushBytes \in Nat /\ (k - 1) * MaxPushBytes < e.len
                 /\ Cut(e, k - 1) = (k - 1) * MaxPushBytes
                 /\ Cut(e, k) \in Nat /\ Cut(e, k) <= e.len
                 /\ Minimum(MaxPushBytes, e.len - (k - 1) * MaxPushBytes) = Cut(e, k) - Cut(e, k - 1)
                 /\ Cut(e, k - 1) < Cut(e, k) /\ Cut(e, k) - Cut(e, k - 1) <= MaxPushBytes
  <1>1. PICK l \in Nat \ {0}, b \in Nat \ {0}, n \in {Count(e)} : l = e.len /\ b = MaxPushBytes /\ n = Count(e)
    BY MaxPushBytesAssumption DEF Span
  <1>2. n \in Nat /\ n > 0 /\ (n - 1) * b < l /\ l <= n * b
    <2>1. n = (l + b - 1) \div b
      BY <1>1 DEF Count
    <2> QED
      BY <2>1, <1>1
  <1>3. ASSUME NEW k \in 1..n
        PROVE  /\ (k - 1) * b \in Nat /\ (k - 1) * b < l /\ k * b = (k - 1) * b + b
    <2>1. k - 1 \in Nat /\ n - 1 \in Nat /\ k - 1 <= n - 1
      BY <1>2
    <2>2. (k - 1) * b \in Nat /\ (k - 1) * b <= (n - 1) * b /\ (n - 1) * b \in Nat
      BY <1>1, <2>1
    <2>3. ((k - 1) + 1) * b = (k - 1) * b + b /\ (k - 1) + 1 = k
      BY <1>1, <2>1
    <2> QED
      BY <1>1, <1>2, <2>2, <2>3
  <1>4. Cut(e, 0) = 0
    BY <1>1 DEF Cut, Minimum
  <1>5. Cut(e, n) = l
    BY <1>1, <1>2 DEF Cut, Minimum
  <1>6. ASSUME NEW k \in 1..n
        PROVE  /\ Cut(e, k - 1) = (k - 1) * b
               /\ Cut(e, k) \in Nat /\ Cut(e, k) <= l
               /\ Minimum(b, l - (k - 1) * b) = Cut(e, k) - Cut(e, k - 1)
               /\ Cut(e, k - 1) < Cut(e, k) /\ Cut(e, k) - Cut(e, k - 1) <= b
    <2>1. PICK x \in Nat, y \in Nat : x = (k - 1) * b /\ y = k * b /\ y = x + b /\ x < l
      BY <1>1, <1>3
    <2>2. Cut(e, k - 1) = Minimum(x, l) /\ Cut(e, k) = Minimum(y, l)
      BY <1>1, <2>1 DEF Cut
    <2>3. Minimum(x, l) = x /\ Minimum(b, l - x) = Minimum(y, l) - x
      BY <1>1, <2>1 DEF Minimum
    <2>4. Minimum(y, l) \in Nat /\ Minimum(y, l) <= l /\ x < Minimum(y, l) /\ Minimum(y, l) - x <= b
      BY <1>1, <2>1 DEF Minimum
    <2> QED
      BY <2>1, <2>2, <2>3, <2>4
  <1> QED
    BY <1>1, <1>2, <1>3, <1>4, <1>5, <1>6

\* Each part lies between two cuts.
LEMMA PartsFacts ==
    ASSUME NEW e \in Span
    PROVE  /\ Parts(e) \in Seq(Piece) /\ Len(Parts(e)) = Count(e)
           /\ \A k \in 1..Count(e) :
                 /\ Parts(e)[k].name = e.name
                 /\ Parts(e)[k].offset = e.offset + Cut(e, k - 1)
                 /\ Parts(e)[k].len = Cut(e, k) - Cut(e, k - 1)
  <1>1. PICK n \in Nat : n = Count(e)
    BY CountFacts
  <1>2. DOMAIN Parts(e) = 1..n
    BY <1>1 DEF Parts, Count
  <1>3. ASSUME NEW k \in 1..n
        PROVE  /\ Parts(e)[k].name = e.name
               /\ Parts(e)[k].offset = e.offset + Cut(e, k - 1)
               /\ Parts(e)[k].len = Cut(e, k) - Cut(e, k - 1)
               /\ Parts(e)[k] \in Piece
    <2>1. PICK o \in Nat, l \in Nat \ {0} :
              /\ o = (k - 1) * MaxPushBytes /\ o = Cut(e, k - 1)
              /\ l = Minimum(MaxPushBytes, e.len - o) /\ l = Cut(e, k) - Cut(e, k - 1)
              /\ l <= MaxPushBytes
      BY <1>1, CountFacts
    <2>2. Parts(e)[k] = [e EXCEPT !.offset = e.offset + o, !.len = l]
      BY <1>1, <2>1 DEF Parts, Count
    <2>3. e.offset + o \in Nat
      BY <2>1 DEF Span
    <2>4. \A p \in Nat : /\ [e EXCEPT !.offset = p, !.len = l].name = e.name
                         /\ [e EXCEPT !.offset = p, !.len = l].offset = p
                         /\ [e EXCEPT !.offset = p, !.len = l].len = l
                         /\ [e EXCEPT !.offset = p, !.len = l] \in Span
      BY <2>1 DEF Span
    <2> QED
      BY <2>1, <2>2, <2>3, <2>4 DEF Piece
  <1>4. Parts(e) = [k \in 1..n |-> Parts(e)[k]]
    BY <1>1 DEF Parts, Count
  <1>5. Parts(e) \in [1..n -> Piece]
    BY <1>3, <1>4
  <1>6. Parts(e) \in Seq(Piece) /\ Len(Parts(e)) = n
    BY <1>1, <1>5
  <1> QED
    BY <1>1, <1>3, <1>6

\* The middle of a list.
LEMMA MiddleFacts ==
    ASSUME NEW S, NEW s \in Seq(S), NEW x \in Nat, NEW y \in Nat, x <= y, y <= Len(s)
    PROVE  /\ SubSeq(s, x + 1, y) \in Seq(S) /\ Len(SubSeq(s, x + 1, y)) = y - x
           /\ \A i \in 1..y - x : SubSeq(s, x + 1, y)[i] = s[x + i]
  <1>1. PICK m \in Int, n \in Int : m = x + 1 /\ n = y /\ n - m + 1 = y - x
    OBVIOUS
  <1>2. \A i \in m..n : s[i] \in S
    <2>1. \A i \in m..n : i \in 1..Len(s)
      BY <1>1, LenProperties
    <2> QED
      BY <2>1, ElementOfSeq
  <1>3. /\ SubSeq(s, m, n) \in Seq(S)
        /\ Len(SubSeq(s, m, n)) = IF m <= n THEN n - m + 1 ELSE 0
        /\ \A i \in 1 .. n - m + 1 : SubSeq(s, m, n)[i] = s[m + i - 1]
    BY <1>1, <1>2, SubSeqProperties
  <1>4. (IF m <= n THEN n - m + 1 ELSE 0) = y - x
    BY <1>1
  <1>5. \A i \in 1..y - x : m + i - 1 = x + i
    BY <1>1
  <1> QED
    BY <1>1, <1>3, <1>4, <1>5

\* The parts of an entry are its bytes.
LEMMA PartsStream ==
    ASSUME NEW e \in Span
    PROVE  Stream(Parts(e)) = BytesOf(e)
  <1>1. PICK n \in Nat, l \in Nat, o \in Nat, P \in Seq(Piece), B \in Seq(Places) :
            n = Count(e) /\ l = e.len /\ o = e.offset /\ P = Parts(e) /\ B = BytesOf(e)
    <2>1. e.len \in Nat /\ e.offset \in Nat
      BY DEF Span
    <2> QED
      BY <2>1, CountFacts, PartsFacts, BytesFacts
  <1>2. /\ Len(P) = n /\ Len(B) = l
        /\ \A i \in 1..l : B[i] = <<e.name, o + i - 1>>
    BY <1>1, PartsFacts, BytesFacts
  <1> DEFINE C == [k \in 0..n |-> Cut(e, k)]
  <1>3. /\ C[0] = 0 /\ C[n] = l
        /\ \A k \in 1..n : /\ C[k - 1] \in Nat /\ C[k] \in Nat
                           /\ C[k - 1] < C[k] /\ C[k] <= l
                           /\ P[k].name = e.name /\ P[k].offset = o + C[k - 1]
                           /\ P[k].len = C[k] - C[k - 1] /\ P[k] \in Piece
    <2>1. Cut(e, 0) = 0 /\ Cut(e, n) = l
      BY <1>1, CountFacts
    <2>2. ASSUME NEW k \in 1..n
          PROVE  /\ C[k] = Cut(e, k) /\ C[k - 1] = Cut(e, k - 1)
                 /\ Cut(e, k - 1) \in Nat /\ Cut(e, k) \in Nat
                 /\ Cut(e, k - 1) < Cut(e, k) /\ Cut(e, k) <= l
                 /\ P[k].name = e.name /\ P[k].offset = o + Cut(e, k - 1)
                 /\ P[k].len = Cut(e, k) - Cut(e, k - 1) /\ P[k] \in Piece
      <3>1. C[k] = Cut(e, k) /\ C[k - 1] = Cut(e, k - 1)
        BY <1>1
      <3>2. P[k] \in Piece
        BY <1>1, <1>2, ElementOfSeq
      <3> QED
        BY <1>1, <3>1, <3>2, CountFacts, PartsFacts
    <2>3. C[0] = Cut(e, 0) /\ C[n] = Cut(e, n)
      BY <1>1
    <2> HIDE DEF C
    <2> QED
      BY <2>1, <2>2, <2>3
  <1> HIDE DEF C
  <1>4. ASSUME NEW k \in 1..n PROVE BytesOf(P[k]) = SubSeq(B, C[k - 1] + 1, C[k])
    <2>1. PICK x \in Nat, y \in Nat, p \in Span :
              x = C[k - 1] /\ y = C[k] /\ p = P[k] /\ x < y /\ y <= l
      BY <1>3, PieceFacts
    <2>2. p.name = e.name /\ p.offset = o + x /\ p.len = y - x
      BY <1>3, <2>1
    <2>3. PICK d \in Seq(Places) : d = BytesOf(p)
      BY BytesFacts
    <2>4. Len(d) = y - x /\ \A i \in 1..y - x : d[i] = <<e.name, o + x + i - 1>>
      BY <2>2, <2>3, BytesFacts
    <2>5. B \in Seq(Places) /\ x <= y /\ y <= Len(B) /\ x \in Nat /\ y \in Nat
      BY <1>1, <1>2, <2>1
    <2>6. PICK s : s = SubSeq(B, x + 1, y)
      OBVIOUS
    <2>7. /\ s \in Seq(Places) /\ Len(s) = y - x
          /\ \A i \in 1..y - x : s[i] = B[x + i]
      BY <2>5, <2>6, MiddleFacts
    <2>8. \A i \in 1..y - x : B[x + i] = <<e.name, o + x + i - 1>>
      <3>1. x \in Nat /\ y \in Nat /\ l \in Nat /\ o \in Nat /\ y <= l
        BY <1>1, <2>1
      <3>2. \A i \in 1..y - x : x + i \in 1..l /\ o + (x + i) - 1 = o + x + i - 1
        BY <3>1
      <3> QED
        BY <1>2, <3>2
    <2>9. \A i \in 1..Len(d) : d[i] = s[i]
      BY <2>4, <2>7, <2>8
    <2>10. d = s
      BY <2>3, <2>4, <2>6, <2>7, <2>9, SeqEqual
    <2> QED
      BY <2>1, <2>3, <2>6, <2>10
  <1> DEFINE I == {k \in Nat : k <= n => Stream(SubSeq(P, 1, k)) = SubSeq(B, 1, C[k])}
  <1>5. 0 \in I
    <2>1. SubSeq(P, 1, 0) = <<>> /\ SubSeq(B, 1, 0) = <<>>
      BY PrefixFacts
    <2> QED
      BY <1>3, <2>1, StreamEmpty
  <1>6. ASSUME NEW j \in Nat, j \in I PROVE j + 1 \in I
    <2> SUFFICES ASSUME j + 1 <= n
                 PROVE  Stream(SubSeq(P, 1, j + 1)) = SubSeq(B, 1, C[j + 1])
      OBVIOUS
    <2>1. j + 1 \in 1..n /\ (j + 1) - 1 = j /\ j \in 0..n
      BY <1>1
    <2>2. PICK s \in Seq(Span), p \in Span : s = SubSeq(P, 1, j) /\ p = P[j + 1]
      BY <1>2, <1>3, <2>1, PrefixFacts, PieceLists, PieceFacts
    <2>3. SubSeq(P, 1, j + 1) = Append(s, p)
      BY <1>2, <2>1, <2>2, PrefixFacts
    <2>4. Stream(Append(s, p)) = Stream(s) \o BytesOf(p)
      BY StreamAppend
    <2>5. PICK x \in Nat, y \in Nat : x = C[j] /\ y = C[j + 1] /\ x < y /\ y <= l
      BY <1>3, <2>1
    <2>6. Stream(s) = SubSeq(B, 1, x)
      BY <1>6, <2>1, <2>2, <2>5
    <2>7. BytesOf(p) = SubSeq(B, x + 1, y)
      BY <1>4, <2>1, <2>2, <2>5
    <2>8. SubSeq(B, 1, x) \o SubSeq(B, x + 1, y) = SubSeq(B, 1, y)
      <3>1. 1 \in 1..Len(B) + 1 /\ x \in 1 - 1 .. Len(B) /\ y \in x..Len(B)
        BY <1>1, <1>2, <2>5, SMTT(30)
      <3> QED
        BY <3>1, ConcatAdjacentSubSeq
    <2> QED
      BY <2>3, <2>4, <2>5, <2>6, <2>7, <2>8
  <1>7. n \in I
    <2> HIDE DEF I
    <2> QED
      BY <1>1, <1>5, <1>6, Induction
  <1>8. Stream(SubSeq(P, 1, n)) = SubSeq(B, 1, l)
    BY <1>1, <1>3, <1>7
  <1>9. SubSeq(P, 1, n) = P /\ SubSeq(B, 1, l) = B
    BY <1>2, PrefixFacts
  <1> QED
    BY <1>1, <1>8, <1>9

-----------------------------------------------------------------------------
(* What is sent of a Pull *)

\* Cutting the entries of a Pull changes none of its bytes.
LEMMA PiecesStream ==
    ASSUME NEW pull \in Seq(Span)
    PROVE  /\ Concat(Map(generatePushReqEntry, pull)) \in Seq(Piece)
           /\ Stream(Concat(Map(generatePushReqEntry, pull))) = Stream(pull)
  <1>1. PICK n \in Nat : n = Len(pull) /\ DOMAIN pull = 1..n
    BY LenProperties
  <1>2. \A i \in 1..n : pull[i] \in Span
    BY <1>1, ElementOfSeq
  <1>3. PICK m : m = [i \in 1..n |-> Parts(pull[i])]
    OBVIOUS
  <1>4. Map(generatePushReqEntry, pull) = m
    BY <1>1, <1>3 DEF Map, generatePushReqEntry
  <1>5. m \in [1..n -> Seq(Piece)]
    BY <1>2, <1>3, PartsFacts
  <1>6. m \in Seq(Seq(Piece)) /\ Len(m) = n
    BY <1>1, <1>5
  <1>7. m \in Seq(Seq(Span)) /\ Concat(m) \in Seq(Piece)
    BY <1>6, PieceLists, ConcatType
  <1>8. Stream(Concat(m)) = Concat([i \in 1..n |-> Stream(m[i])])
    BY <1>6, <1>7, StreamConcat
  <1>9. \A i \in 1..n : Stream(m[i]) = BytesOf(pull[i])
    BY <1>2, <1>3, PartsStream
  <1>10. [i \in 1..n |-> Stream(m[i])] = [i \in 1..n |-> BytesOf(pull[i])]
    BY <1>9
  <1>11. Stream(pull) = Concat([i \in 1..n |-> BytesOf(pull[i])])
    BY <1>1, MapBytes
  <1> QED
    BY <1>4, <1>7, <1>8, <1>10, <1>11

\* The Pushes SenderThread::sync makes of a Pull hold its bytes in order.
LEMMA GroupPiecesFacts ==
    ASSUME NEW pull \in Seq(Span)
    PROVE  /\ GroupPieces(pull) \in Seq(Seq(Piece))
           /\ Stream(Concat(GroupPieces(pull))) = Stream(pull)
           /\ WholePushes(GroupPieces(pull))
  <1>1. PICK pieces \in Seq(Piece) :
            /\ pieces = Concat(Map(generatePushReqEntry, pull))
            /\ Stream(pieces) = Stream(pull)
    BY PiecesStream
  <1>2. GroupPieces(pull) = LET s == Loop(GroupPiece, NoPush, pieces)
                            IN  IF s.bytes > 0 THEN Flush(s).pushes ELSE s.pushes
    BY <1>1 DEF GroupPieces
  <1> QED
    BY <1>1, <1>2, GroupLoop

\* Pieces that make Pushes of their own.
LEMMA AloneFacts ==
    ASSUME NEW ps \in Seq(Piece)
    PROVE  LET alone == [i \in 1..Len(ps) |-> <<ps[i]>>]
           IN  alone \in Seq(Seq(Piece)) /\ Concat(alone) = ps /\ WholePushes(alone)
  <1> DEFINE Alone(l) == [i \in 1..Len(l) |-> <<l[i]>>]
             I == {l \in Seq(Piece) : /\ Alone(l) \in Seq(Seq(Piece)) /\ Concat(Alone(l)) = l
                                      /\ WholePushes(Alone(l))}
  <1>1. <<>> \in I
    <2>1. Alone(<<>>) = <<>> /\ <<>> \in Seq(Piece) /\ <<>> \in Seq(Seq(Piece))
      BY EmptySeq
    <2>2. WholePushes(<<>>)
      <3>1. DOMAIN <<>> = {}
        OBVIOUS
      <3> QED
        BY <3>1 DEF WholePushes
    <2> HIDE DEF Alone
    <2> QED
      BY <2>1, <2>2, ConcatEmpty
  <1>2. ASSUME NEW l \in Seq(Piece), NEW e \in Piece, l \in I PROVE Append(l, e) \in I
    <2>1. PICK n \in Nat : n = Len(l)
      BY LenProperties
    <2>2. PICK more \in Seq(Piece) : more = Append(l, e)
      BY AppendProperties
    <2>3. Len(more) = n + 1 /\ more[n + 1] = e /\ \A i \in 1..n : more[i] = l[i]
      BY <2>1, <2>2, AppendProperties
    <2>4. PICK m \in Seq(Seq(Piece)) : m = Alone(l) /\ Concat(m) = l /\ WholePushes(m)
      BY <1>2
    <2>5. PICK x \in Seq(Piece) : x = <<e>>
      <3>1. <<e>> \in Seq(Piece)
        BY <1>2
      <3> QED
        BY <3>1
    <2>6. m = [i \in 1..n |-> <<l[i]>>]
      BY <2>1, <2>4
    <2>7. Alone(more) = [i \in 1..n + 1 |-> <<more[i]>>]
      BY <2>3
    <2>8. Append(m, x) = [i \in 1..n + 1 |-> IF i = n + 1 THEN x ELSE m[i]]
      BY <2>1, <2>6
    <2>9. Alone(more) = Append(m, x)
      <3> HIDE DEF Alone
      <3> QED
        BY <2>1, <2>3, <2>5, <2>6, <2>7, <2>8
    <2>10. Concat(Append(m, x)) = l \o x /\ Append(m, x) \in Seq(Seq(Piece))
      BY <2>4, ConcatAppend, AppendProperties
    <2>11. l \o x = more
      BY <2>2, <2>5, AppendIsConcat
    <2>12. x # <<>> /\ TotalLen(x) <= MaxPushBytes
      <3>1. x = Append(<<>>, e) /\ <<>> \in Seq(Span)
        BY <2>5
      <3>2. e \in Span /\ e.len \in Nat /\ e.len <= MaxPushBytes
        BY PieceFacts
      <3>3. TotalLen(x) = TotalLen(<<>>) + e.len
        BY <3>1, <3>2, TotalFacts
      <3> QED
        BY <2>5, <3>2, <3>3, TotalFacts
    <2>13. WholePushes(Append(m, x))
      BY <2>4, <2>12, WholeAppend
    <2> HIDE DEF Alone
    <2> QED
      BY <2>2, <2>9, <2>10, <2>11, <2>13
  <1>3. \A l \in Seq(Piece) : l \in I
    <2> HIDE DEF I
    <2> QED
      BY <1>1, <1>2, ListInduction
  <1> QED
    BY <1>3

\* Pushes within the limit, and more of them.
LEMMA WholeJoin ==
    ASSUME NEW l \in Seq(Seq(Piece)), NEW m \in Seq(Seq(Piece)), WholePushes(l), WholePushes(m)
    PROVE  WholePushes(l \o m)
  <1>1. PICK a \in Nat, b \in Nat : a = Len(l) /\ b = Len(m) /\ DOMAIN l = 1..a /\ DOMAIN m = 1..b
    BY LenProperties
  <1>2. PICK j \in Seq(Seq(Piece)) : j = l \o m
    BY ConcatProperties
  <1>3. /\ DOMAIN j = 1 .. a + b
        /\ \A i \in 1 .. a + b : j[i] = IF i <= a THEN l[i] ELSE m[i - a]
    BY <1>1, <1>2, ConcatProperties, LenProperties
  <1>4. ASSUME NEW i \in 1 .. a + b PROVE j[i] # <<>> /\ TotalLen(j[i]) <= MaxPushBytes
    <2>1. CASE i <= a
      <3>1. i \in 1..a
        BY <1>1, <2>1
      <3> QED
        BY <1>1, <1>3, <2>1, <3>1 DEF WholePushes
    <2>2. CASE ~(i <= a)
      <3>1. i - a \in 1..b
        BY <1>1, <2>2
      <3> QED
        BY <1>1, <1>3, <2>2, <3>1 DEF WholePushes
    <2> QED
      BY <2>1, <2>2
  <1> QED
    BY <1>2, <1>3, <1>4 DEF WholePushes

\* One turn of the loop of chunkify: what was open is closed if the entry does
\* not fit, and a long entry makes Pushes of its own.
Closed(s, e) ==
    IF e.len + s.bytes >= MaxPushBytes /\ s.bytes # 0 THEN Flush(s) ELSE s
AloneParts(e) == [i \in 1..Len(Parts(e)) |-> <<Parts(e)[i]>>]

\* The two ways through one turn of the loop of chunkify.
LEMMA ChunkifyEntryFacts ==
    ASSUME NEW s \in Groups, NEW e \in Span
    PROVE  /\ ChunkifyEntry(s, e) \in Groups /\ Closed(s, e) \in Groups
           /\ e.len >= MaxPushBytes =>
                 /\ ChunkifyEntry(s, e).pushes = Closed(s, e).pushes \o AloneParts(e)
                 /\ ChunkifyEntry(s, e).push = <<>> /\ ChunkifyEntry(s, e).bytes = 0
           /\ ~(e.len >= MaxPushBytes) =>
                 e \in Piece /\ ChunkifyEntry(s, e) = Put(Closed(s, e), e)
  <1>1. PICK t \in Groups : t = Closed(s, e)
    BY GroupsFacts DEF Closed
  <1>2. CASE e.len >= MaxPushBytes
    <2>1. DOMAIN Parts(e) = 1..Len(Parts(e))
      BY PartsFacts, LenProperties
    <2>2. ChunkifyEntry(s, e) = [pushes |-> t.pushes \o AloneParts(e), push |-> <<>>, bytes |-> 0]
      BY <1>1, <1>2, <2>1 DEF ChunkifyEntry, Closed, Map, AloneParts
    <2>3. AloneParts(e) \in Seq(Seq(Piece))
      BY PartsFacts, AloneFacts DEF AloneParts
    <2>4. t.pushes \o AloneParts(e) \in Seq(Seq(Piece)) /\ <<>> \in Seq(Piece)
      BY <2>3, GroupsFacts, ConcatProperties, EmptySeq
    <2> QED
      BY <1>1, <1>2, <2>2, <2>4 DEF Groups
  <1>3. CASE ~(e.len >= MaxPushBytes)
    <2>1. e \in Piece
      BY <1>3, MaxPushBytesAssumption DEF Piece, Span
    <2>2. ChunkifyEntry(s, e) = Put(t, e)
      BY <1>1, <1>3 DEF ChunkifyEntry, Closed
    <2> QED
      BY <1>1, <1>3, <2>1, <2>2, GroupsFacts
  <1> QED
    BY <1>2, <1>3

LEMMA ChunkifyEntryType ==
    \A s \in Groups, e \in Span : ChunkifyEntry(s, e) \in Groups
  BY ChunkifyEntryFacts

\* The loop of chunkify as a function of its turns.
LEMMA ChunkifyRuns ==
    ASSUME NEW pull \in Seq(Span)
    PROVE  \E a \in [0..Len(pull) -> Groups] :
              /\ a[0] = NoPush /\ Loop(ChunkifyEntry, NoPush, pull) = a[Len(pull)]
              /\ \A i \in 1..Len(pull) : a[i] = ChunkifyEntry(a[i - 1], pull[i])
  <1>1. PICK n \in Nat : n = Len(pull) /\ \A i \in 1..n : pull[i] \in Span
    BY LenProperties, ElementOfSeq
  <1> DEFINE T == [p \in Groups \X (1..n) |-> ChunkifyEntry(p[1], pull[p[2]])]
             Turn(g, i) == CHOOSE v \in {ChunkifyEntry(u, pull[i]) : u \in {g[i - 1]}} : TRUE
             Body(g) == [i \in 0..Len(pull) |-> IF i = 0 THEN NoPush ELSE Turn(g, i)]
             after == CHOOSE g : g = Body(g)
  <1>2. T \in [Groups \X (1..n) -> Groups]
    BY <1>1, ChunkifyEntryType
  <1>3. PICK a \in [0..n -> Groups] : Turns(a, T, NoPush, n)
    <2> HIDE DEF T
    <2> QED
      BY <1>1, <1>2, GroupsFacts, LoopRuns
  <1>4. \A i \in 1..n : a[i] = ChunkifyEntry(a[i - 1], pull[i])
    <2> TAKE i \in 1..n
    <2>1. a[i - 1] \in Groups
      BY <1>3
    <2>2. <<a[i - 1], i>> \in Groups \X (1..n)
      BY <2>1
    <2>3. T[<<a[i - 1], i>>] = ChunkifyEntry(a[i - 1], pull[i])
      BY <2>2
    <2> QED
      BY <1>3, <2>3 DEF Turns
  <1>5. \A g : /\ DOMAIN Body(g) = 0..n /\ Body(g)[0] = NoPush
              /\ \A i \in 1..n : Body(g)[i] = ChunkifyEntry(g[i - 1], pull[i])
    <2> TAKE g
    <2>1. ASSUME NEW i \in 1..n PROVE Turn(g, i) = ChunkifyEntry(g[i - 1], pull[i])
      <3>1. {ChunkifyEntry(u, pull[i]) : u \in {g[i - 1]}} = {ChunkifyEntry(g[i - 1], pull[i])}
        OBVIOUS
      <3>2. \A e : (CHOOSE v \in {e} : TRUE) = e
        OBVIOUS
      <3> QED
        BY <3>1, <3>2
    <2> HIDE DEF Turn
    <2>2. DOMAIN Body(g) = 0..n /\ Body(g)[0] = NoPush
      BY <1>1
    <2>3. \A i \in 1..n : Body(g)[i] = Turn(g, i)
      BY <1>1
    <2> HIDE DEF Body
    <2> QED
      BY <2>1, <2>2, <2>3
  <1>6. a = Body(a)
    <2>1. DOMAIN a = 0..n /\ a = [i \in 0..n |-> a[i]]
      BY <1>1, <1>3
    <2>2. Body(a) = [i \in 0..n |-> Body(a)[i]]
      BY <1>1
    <2> HIDE DEF Body
    <2>3. \A i \in 0..n : i = 0 \/ i \in 1..n
      BY <1>1
    <2>4. \A i \in 0..n : a[i] = Body(a)[i]
      BY <1>3, <1>4, <1>5, <2>3 DEF Turns
    <2> QED
      BY <2>1, <2>2, <2>4
  <1>7. after = Body(after)
    <2> HIDE DEF Body
    <2> QED
      BY <1>6
  <1>8. Alike(after, a, n)
    <2> HIDE DEF after, Body
    <2> QED
      BY <1>3, <1>4, <1>5, <1>7 DEF Turns, Alike
  <1>9. Loop(ChunkifyEntry, NoPush, pull) = after[n]
    BY <1>1 DEF Loop
  <1>10. after[n] = a[n]
    <2> HIDE DEF after
    <2> QED
      BY <1>1, <1>8, SameRuns
  <1> QED
    BY <1>1, <1>3, <1>4, <1>9, <1>10 DEF Turns

\* The open Push of chunkify has room left.
Chunkified(s, es) ==
    /\ s.bytes < MaxPushBytes
    /\ \E ps \in Seq(Piece) : Grouped(s, ps) /\ Stream(ps) = Stream(es)

\* Closing the open Push loses nothing, and leaves room for a short entry.
LEMMA ClosedKeeps ==
    ASSUME NEW s \in Groups, NEW e \in Span, NEW ps \in Seq(Piece), Grouped(s, ps),
           s.bytes < MaxPushBytes
    PROVE  /\ Grouped(Closed(s, e), ps) /\ Closed(s, e) \in Groups
           /\ Closed(s, e).bytes = 0 \/ Closed(s, e).bytes + e.len < MaxPushBytes
  <1>1. s.bytes \in Nat /\ e.len \in Nat
    BY GroupsFacts DEF Span
  <1>2. CASE e.len + s.bytes >= MaxPushBytes /\ s.bytes # 0
    <2>1. s.push # <<>>
      BY <1>2, TotalFacts DEF Grouped
    <2> QED
      BY <1>2, <2>1, GroupedFlush DEF Closed
  <1>3. CASE ~(e.len + s.bytes >= MaxPushBytes /\ s.bytes # 0)
    <2>1. Closed(s, e) = s
      BY <1>3 DEF Closed
    <2>2. s.bytes = 0 \/ s.bytes + e.len < MaxPushBytes
      BY <1>1, <1>3, MaxPushBytesAssumption
    <2> QED
      BY <2>1, <2>2
  <1> QED
    BY <1>2, <1>3

\* A turn of chunkify adds the bytes of its entry.
LEMMA ChunkifyEntryKeeps ==
    ASSUME NEW s \in Groups, NEW es \in Seq(Span), NEW e \in Span, Chunkified(s, es)
    PROVE  Chunkified(ChunkifyEntry(s, e), Append(es, e))
  <1>1. PICK ps \in Seq(Piece) : Grouped(s, ps) /\ Stream(ps) = Stream(es)
    BY DEF Chunkified
  <1>2. s.bytes < MaxPushBytes
    BY DEF Chunkified
  <1>3. PICK t \in Groups :
            /\ t = Closed(s, e) /\ Grouped(t, ps)
            /\ t.bytes = 0 \/ t.bytes + e.len < MaxPushBytes
    BY <1>1, <1>2, ClosedKeeps
  <1>4. PICK r \in Groups : r = ChunkifyEntry(s, e)
    BY ChunkifyEntryFacts
  <1>5. Stream(Append(es, e)) = Stream(es) \o BytesOf(e)
    BY StreamAppend
  <1>6. ps \in Seq(Span)
    BY PieceLists
  <1>7. CASE e.len >= MaxPushBytes
    <2>1. r.pushes = t.pushes \o AloneParts(e) /\ r.push = <<>> /\ r.bytes = 0
      BY <1>3, <1>4, <1>7, ChunkifyEntryFacts
    <2>2. t.bytes = 0
      <3>1. t.bytes \in Nat /\ e.len \in Nat
        BY GroupsFacts DEF Span
      <3> QED
        BY <1>3, <1>7, <3>1, MaxPushBytesAssumption
    <2>3. t.push = <<>>
      BY <1>3, <2>2 DEF Grouped
    <2>4. PICK l \in Seq(Seq(Piece)), q \in Seq(Piece), m \in Seq(Seq(Piece)) :
              l = t.pushes /\ q = Parts(e) /\ m = AloneParts(e)
      BY GroupsFacts, PartsFacts, AloneFacts DEF AloneParts
    <2>5. Concat(m) = q /\ WholePushes(m)
      BY <2>4, AloneFacts DEF AloneParts
    <2>6. PICK c \in Seq(Piece) : c = Concat(l)
      BY <2>4, ConcatType
    <2>7. c = ps
      <3>1. c \o <<>> = c
        BY <2>6, ConcatEmptySeq
      <3> QED
        BY <1>3, <2>3, <2>4, <2>6, <3>1 DEF Grouped
    <2>8. Concat(l \o m) = ps \o q /\ ps \o q \in Seq(Piece)
      <3>1. Concat(l \o m) = Concat(l) \o Concat(m)
        BY <2>4, ConcatJoin
      <3>2. ps \o q \in Seq(Piece)
        BY <1>1, <2>4, ConcatProperties
      <3> QED
        BY <2>5, <2>6, <2>7, <3>1, <3>2
    <2>9. (ps \o q) \o <<>> = ps \o q
      BY <2>8, ConcatEmptySeq
    <2>10. WholePushes(l \o m)
      BY <1>3, <2>4, <2>5, WholeJoin DEF Grouped
    <2>11. Grouped(r, ps \o q)
      BY <2>1, <2>4, <2>8, <2>9, <2>10, TotalFacts, MaxPushBytesAssumption DEF Grouped
    <2>12. Stream(ps \o q) = Stream(ps) \o Stream(q)
      BY <1>6, <2>4, PieceLists, StreamJoin
    <2>13. Stream(q) = BytesOf(e)
      BY <2>4, PartsStream
    <2>14. Stream(ps \o q) = Stream(Append(es, e))
      BY <1>1, <1>5, <2>12, <2>13
    <2>15. r.bytes < MaxPushBytes
      BY <2>1, MaxPushBytesAssumption
    <2> QED
      BY <1>4, <2>8, <2>11, <2>14, <2>15 DEF Chunkified
  <1>8. CASE ~(e.len >= MaxPushBytes)
    <2>1. e \in Piece /\ r = Put(t, e)
      BY <1>3, <1>4, <1>8, ChunkifyEntryFacts
    <2>2. t.bytes \in Nat /\ e.len \in Nat /\ MaxPushBytes \in Nat
      BY GroupsFacts, MaxPushBytesAssumption DEF Span
    <2>3. t.bytes + e.len < MaxPushBytes
      BY <1>3, <1>8, <2>2
    <2>4. t.bytes + e.len <= MaxPushBytes
      BY <2>2, <2>3
    <2>5. Grouped(r, Append(ps, e))
      BY <1>3, <2>1, <2>4, GroupedPut
    <2>6. r.bytes < MaxPushBytes
      BY <2>1, <2>3, GroupsFacts
    <2>7. Stream(Append(ps, e)) = Stream(ps) \o BytesOf(e)
      BY <1>6, StreamAppend
    <2>8. Append(ps, e) \in Seq(Piece)
      BY <2>1, AppendProperties
    <2> QED
      BY <1>1, <1>4, <1>5, <2>5, <2>6, <2>7, <2>8 DEF Chunkified
  <1> QED
    BY <1>7, <1>8

\* The Pushes chunkify makes of a Pull hold its bytes in order.
LEMMA ChunkifyFacts ==
    ASSUME NEW pull \in Seq(Span)
    PROVE  /\ chunkify(pull) \in Seq(Seq(Piece))
           /\ Stream(Concat(chunkify(pull))) = Stream(pull)
           /\ WholePushes(chunkify(pull))
  <1>1. PICK n \in Nat : n = Len(pull)
    BY LenProperties
  <1>2. PICK a \in [0..n -> Groups] :
            /\ a[0] = NoPush /\ Loop(ChunkifyEntry, NoPush, pull) = a[n]
            /\ \A i \in 1..n : a[i] = ChunkifyEntry(a[i - 1], pull[i])
    BY <1>1, ChunkifyRuns
  <1> DEFINE I == {i \in Nat : i <= n => Chunkified(a[i], SubSeq(pull, 1, i))}
  <1>3. 0 \in I
    <2>1. Chunkified(NoPush, <<>>)
      BY GroupedNothing, GroupsFacts, EmptySeq, MaxPushBytesAssumption DEF Chunkified
    <2> QED
      BY <1>2, <2>1, PrefixFacts
  <1>4. ASSUME NEW i \in Nat, i \in I PROVE i + 1 \in I
    <2> SUFFICES ASSUME i + 1 <= n PROVE Chunkified(a[i + 1], SubSeq(pull, 1, i + 1))
      OBVIOUS
    <2>1. i \in 0..n /\ i + 1 \in 1..n /\ (i + 1) - 1 = i
      BY <1>1
    <2>2. a[i] \in Groups /\ pull[i + 1] \in Span
      BY <1>1, <1>2, <2>1, ElementOfSeq
    <2>3. SubSeq(pull, 1, i) \in Seq(Span)
      BY <1>1, <2>1, PrefixFacts
    <2>4. SubSeq(pull, 1, i + 1) = Append(SubSeq(pull, 1, i), pull[i + 1])
      BY <1>1, <2>1, PrefixFacts
    <2>5. Chunkified(a[i], SubSeq(pull, 1, i))
      BY <1>4, <2>1
    <2>6. a[i + 1] = ChunkifyEntry(a[i], pull[i + 1])
      BY <1>2, <2>1
    <2> QED
      BY <2>2, <2>3, <2>4, <2>5, <2>6, ChunkifyEntryKeeps
  <1>5. n \in I
    <2> HIDE DEF I
    <2> QED
      BY <1>1, <1>3, <1>4, Induction
  <1>6. PICK s \in Groups : s = Loop(ChunkifyEntry, NoPush, pull) /\ Chunkified(s, pull)
    <2>1. Chunkified(a[n], SubSeq(pull, 1, n))
      BY <1>1, <1>5
    <2>2. SubSeq(pull, 1, n) = pull
      BY <1>1, PrefixFacts
    <2>3. a[n] \in Groups
      BY <1>1, <1>2
    <2> HIDE DEF I
    <2> QED
      BY <1>2, <2>1, <2>2, <2>3
  <1>7. PICK ps \in Seq(Piece) : Grouped(s, ps) /\ Stream(ps) = Stream(pull)
    BY <1>6 DEF Chunkified
  <1>8. PICK t \in Groups : t.pushes = chunkify(pull) /\ t.push = <<>> /\ Grouped(t, ps)
    <2>1. chunkify(pull) = IF s.push # <<>> THEN Flush(s).pushes ELSE s.pushes
      BY <1>6 DEF chunkify
    <2>2. CASE s.push # <<>>
      <3>1. Flush(s) \in Groups /\ Flush(s).push = <<>> /\ Grouped(Flush(s), ps)
        BY <1>7, <2>2, GroupedFlush, GroupsFacts
      <3> QED
        BY <2>1, <2>2, <3>1
    <2>3. CASE s.push = <<>>
      BY <1>7, <2>1, <2>3
    <2> QED
      BY <2>2, <2>3
  <1>9. t.pushes \in Seq(Seq(Piece))
    BY GroupsFacts
  <1>10. Concat(t.pushes) \in Seq(Piece)
    BY <1>9, ConcatType
  <1>11. Concat(t.pushes) \o <<>> = Concat(t.pushes)
    BY <1>10, ConcatEmptySeq
  <1> QED
    BY <1>7, <1>8, <1>9, <1>11 DEF Grouped

-----------------------------------------------------------------------------
(* The chunks of a row that is written from its beginning on *)

Prefix(k) == IF k = 0 THEN <<>> ELSE <<Chunk(0, k)>>

MergeRun(first, s) == Loop(MergeNext, first, s)

\* The merge loop over at most one more chunk.
LEMMA MergeLoop ==
    ASSUME NEW first, NEW s
    PROVE  /\ Len(s) = 0 => MergeRun(first, s) = first
           /\ Len(s) = 1 => MergeRun(first, s) = MergeNext(first, s[1])
  <1> SUFFICES ASSUME NEW n \in {0, 1}, n = Len(s)
               PROVE  MergeRun(first, s) = IF n = 0 THEN first ELSE MergeNext(first, s[1])
    OBVIOUS
  <1> DEFINE Turn(g, i) == CHOOSE v \in {MergeNext(u, s[i]) : u \in {g[i - 1]}} : TRUE
             Body(g) == [i \in 0..Len(s) |-> IF i = 0 THEN first ELSE Turn(g, i)]
             after == CHOOSE g : g = Body(g)
             a == [i \in 0..n |-> IF i = 0 THEN first ELSE MergeNext(first, s[1])]
  <1>1. \A g : Turn(g, 1) = MergeNext(g[0], s[1])
    <2> TAKE g
    <2>1. {MergeNext(u, s[1]) : u \in {g[1 - 1]}} = {MergeNext(g[0], s[1])}
      OBVIOUS
    <2>2. \A e : (CHOOSE v \in {e} : TRUE) = e
      OBVIOUS
    <2> QED
      BY <2>1, <2>2
  <1>2. MergeRun(first, s) = after[n]
    BY DEF Loop, MergeRun
  <1> HIDE DEF Turn
  <1>3. \A g : DOMAIN Body(g) = 0..n /\ Body(g)[0] = first
    OBVIOUS
  <1>4. \A g : n = 1 => Body(g)[1] = MergeNext(g[0], s[1])
    BY <1>1
  <1>5. \A g : Body(g) = [i \in 0..n |-> Body(g)[i]]
    OBVIOUS
  <1>6. /\ DOMAIN a = 0..n /\ a[0] = first /\ a = [i \in 0..n |-> a[i]]
        /\ n = 1 => a[1] = MergeNext(a[0], s[1])
    OBVIOUS
  <1> HIDE DEF Body, a
  <1>7. \A i \in 0..n : i = 0 \/ (n = 1 /\ i = 1)
    OBVIOUS
  <1>8. a = Body(a)
    BY <1>3, <1>4, <1>6, <1>7, <1>5
  <1>9. after = Body(after)
    BY <1>8
  <1> HIDE DEF after
  <1>10. after[0] = first /\ (n = 1 => after[1] = MergeNext(first, s[1]))
    BY <1>3, <1>9, <1>4
  <1> QED
    BY <1>2, <1>10

GapTurn(total, s, c) ==
    IF s.at >= total THEN s
    ELSE [at |-> c.offset + c.len,
          gaps |-> IF s.at < c.offset THEN Append(s.gaps, Chunk(s.at, c.offset - s.at))
                   ELSE s.gaps]

GapRun(total, first, s) == Loop(LAMBDA x, c : GapTurn(total, x, c), first, s)

\* The loop of receiver() over at most one chunk.
LEMMA GapLoop ==
    ASSUME NEW total, NEW first, NEW s
    PROVE  /\ Len(s) = 0 => GapRun(total, first, s) = first
           /\ Len(s) = 1 => GapRun(total, first, s) = GapTurn(total, first, s[1])
  <1> SUFFICES ASSUME NEW n \in {0, 1}, n = Len(s)
               PROVE  GapRun(total, first, s) = IF n = 0 THEN first ELSE GapTurn(total, first, s[1])
    OBVIOUS
  <1> DEFINE Turn(g, i) == CHOOSE v \in {GapTurn(total, u, s[i]) : u \in {g[i - 1]}} : TRUE
             Body(g) == [i \in 0..Len(s) |-> IF i = 0 THEN first ELSE Turn(g, i)]
             after == CHOOSE g : g = Body(g)
             a == [i \in 0..n |-> IF i = 0 THEN first ELSE GapTurn(total, first, s[1])]
  <1>1. \A g : Turn(g, 1) = GapTurn(total, g[0], s[1])
    <2> TAKE g
    <2>1. {GapTurn(total, u, s[1]) : u \in {g[1 - 1]}} = {GapTurn(total, g[0], s[1])}
      OBVIOUS
    <2>2. \A e : (CHOOSE v \in {e} : TRUE) = e
      OBVIOUS
    <2> QED
      BY <2>1, <2>2
  <1>2. GapRun(total, first, s) = after[n]
    BY DEF Loop, GapRun
  <1> HIDE DEF Turn
  <1>3. \A g : DOMAIN Body(g) = 0..n /\ Body(g)[0] = first
    OBVIOUS
  <1>4. \A g : n = 1 => Body(g)[1] = GapTurn(total, g[0], s[1])
    BY <1>1
  <1>5. \A g : Body(g) = [i \in 0..n |-> Body(g)[i]]
    OBVIOUS
  <1>6. /\ DOMAIN a = 0..n /\ a[0] = first /\ a = [i \in 0..n |-> a[i]]
        /\ n = 1 => a[1] = GapTurn(total, a[0], s[1])
    OBVIOUS
  <1> HIDE DEF Body, a
  <1>7. \A i \in 0..n : i = 0 \/ (n = 1 /\ i = 1)
    OBVIOUS
  <1>8. a = Body(a)
    BY <1>3, <1>4, <1>6, <1>7, <1>5
  <1>9. after = Body(after)
    BY <1>8
  <1> HIDE DEF after
  <1>10. after[0] = first /\ (n = 1 => after[1] = GapTurn(total, first, s[1]))
    BY <1>3, <1>9, <1>4
  <1> QED
    BY <1>2, <1>10

\* sort leaves a list of two chunks in order as it is.
LEMMA SortedAlready ==
    ASSUME NEW s, NEW n \in {1, 2}, DOMAIN s = 1..n, s = [i \in 1..n |-> s[i]],
           n = 2 => Before(s[1], s[2]) /\ ~Before(s[2], s[1])
    PROVE  Sorted(s) = s
  <1> DEFINE Q == {q \in [1..n -> 1..n] :
                      /\ \A i, j \in 1..n : i # j => q[i] # q[j]
                      /\ \A i, j \in 1..n : i < j => ~Before(s[q[j]], s[q[i]])}
             p == CHOOSE q \in [1..n -> 1..n] :
                      /\ \A i, j \in 1..n : i # j => q[i] # q[j]
                      /\ \A i, j \in 1..n : i < j => ~Before(s[q[j]], s[q[i]])
  <1>1. \A i \in 1..n : i = 1 \/ (n = 2 /\ i = 2)
    OBVIOUS
  <1>2. [i \in 1..n |-> i] \in Q
    BY <1>1
  <1>3. p \in Q
    BY <1>2
  <1>4. Sorted(s) = [i \in 1..n |-> s[p[i]]]
    BY DEF Sorted
  <1>5. ASSUME NEW q \in Q PROVE \A i \in 1..n : q[i] = i
    <2>1. CASE n = 1
      BY <2>1
    <2>2. CASE n = 2
      <3>1. q[1] \in {1, 2} /\ q[2] \in {1, 2} /\ q[1] # q[2]
        BY <2>2
      <3>2. ~Before(s[q[2]], s[q[1]])
        BY <2>2
      <3>3. q[1] = 1 /\ q[2] = 2
        BY <2>2, <3>1, <3>2
      <3> QED
        BY <1>1, <3>3
    <2> QED
      BY <2>1, <2>2
  <1> HIDE DEF p, Q
  <1>6. \A i \in 1..n : s[p[i]] = s[i]
    BY <1>3, <1>5
  <1> QED
    BY <1>4, <1>6

\* A piece that follows the chunk of a row makes it longer.
LEMMA InsertFacts ==
    ASSUME NEW k \in Nat, NEW l \in Nat \ {0}
    PROVE  insertIntoChunks(Prefix(k), k, l) = <<Chunk(0, k + l)>>
  <1>1. CASE k = 0
    <2>1. PICK vc : vc = <<Chunk(0, l)>>
      OBVIOUS
    <2>2. /\ Append(Prefix(k), Chunk(k, l)) = vc /\ DOMAIN vc = 1..1 /\ Tail(vc) = <<>>
          /\ vc = [i \in 1..1 |-> vc[i]] /\ vc[1] = Chunk(0, l)
      BY <1>1, <2>1 DEF Prefix
    <2>3. Sorted(vc) = vc
      BY <2>2, SortedAlready
    <2>4. PICK first : first = [out |-> <<>>, head |-> vc[1].offset,
                                tail |-> vc[1].offset + vc[1].len]
      OBVIOUS
    <2>5. MergeRun(first, Tail(vc)) = first
      BY <2>2, MergeLoop
    <2>6. insertIntoChunks(Prefix(k), k, l) = Append(first.out, Chunk(first.head, first.tail))
      BY <2>2, <2>3, <2>4, <2>5 DEF insertIntoChunks, MergeRun
    <2>7. first.out = <<>> /\ first.head = 0 /\ first.tail = l
      BY <2>2, <2>4 DEF Chunk
    <2> QED
      BY <1>1, <2>6, <2>7
  <1>2. CASE k # 0
    <2>1. PICK vc, c, d : vc = <<c, d>> /\ c = Chunk(0, k) /\ d = Chunk(k, l)
      OBVIOUS
    <2>2. /\ Append(Prefix(k), Chunk(k, l)) = vc /\ DOMAIN vc = 1..2
          /\ vc = [i \in 1..2 |-> vc[i]] /\ vc[1] = c /\ vc[2] = d
          /\ Tail(vc) = <<d>>
      <3>1. Prefix(k) = <<c>>
        BY <1>2, <2>1 DEF Prefix
      <3>2. Append(<<c>>, d) = <<c, d>>
        <4>1. <<c>> \in Seq({c, d}) /\ <<c, d>> \in Seq({c, d}) /\ d \in {c, d}
          OBVIOUS
        <4>2. Len(<<c>>) = 1 /\ <<c>>[1] = c /\ Len(<<c, d>>) = 2 /\ <<c, d>>[1] = c /\ <<c, d>>[2] = d
          OBVIOUS
        <4>3. PICK m \in Seq({c, d}) : m = Append(<<c>>, d)
          BY <4>1, AppendProperties
        <4>4. Len(m) = 2 /\ m[1] = c /\ m[2] = d
          BY <4>1, <4>2, <4>3, AppendProperties
        <4>5. \A i \in 1..2 : i = 1 \/ i = 2
          OBVIOUS
        <4> QED
          BY <4>1, <4>2, <4>3, <4>4, <4>5, SeqEqual
      <3>3. DOMAIN vc = 1..2 /\ vc[1] = c /\ vc[2] = d
        BY <2>1
      <3>4. vc = [i \in 1..2 |-> vc[i]]
        BY <2>1
      <3>5. Tail(vc) = <<d>>
        BY <2>1
      <3> QED
        BY <2>1, <3>1, <3>2, <3>3, <3>4, <3>5
    <2>3. c.offset = 0 /\ c.len = k /\ d.offset = k /\ d.len = l
      BY <2>1 DEF Chunk
    <2>4. Before(vc[1], vc[2]) /\ ~Before(vc[2], vc[1])
      BY <1>2, <2>2, <2>3 DEF Before
    <2>5. Sorted(vc) = vc
      BY <2>2, <2>4, SortedAlready
    <2>6. PICK first : first = [out |-> <<>>, head |-> vc[1].offset,
                                tail |-> vc[1].offset + vc[1].len]
      OBVIOUS
    <2>7. PICK run : run = MergeNext(first, d)
      OBVIOUS
    <2>8. MergeRun(first, Tail(vc)) = run
      <3>1. PICK rest : rest = <<d>>
        OBVIOUS
      <3>2. Len(rest) = 1 /\ rest[1] = d /\ Tail(vc) = rest
        BY <2>2, <3>1
      <3>3. MergeRun(first, rest) = MergeNext(first, d)
        BY <3>2, MergeLoop
      <3> QED
        BY <2>7, <3>2, <3>3
    <2>9. insertIntoChunks(Prefix(k), k, l) = Append(run.out, Chunk(run.head, run.tail))
      BY <2>2, <2>5, <2>6, <2>8 DEF insertIntoChunks, MergeRun
    <2>10. first = [out |-> <<>>, head |-> 0, tail |-> k]
      BY <2>2, <2>3, <2>6
    <2>11. run.out = <<>> /\ run.head = 0 /\ run.tail = k + l
      BY <2>3, <2>7, <2>10 DEF MergeNext
    <2> QED
      BY <2>9, <2>11
  <1> QED
    BY <1>1, <1>2

\* What such a row lacks is one gap.
LEMMA GapFacts ==
    ASSUME NEW total \in Nat, NEW k \in Nat, k < total
    PROVE  PullGaps(Prefix(k), total) = <<Chunk(k, total - k)>>
  <1>1. PICK first : first = [at |-> 0, gaps |-> <<>>]
    OBVIOUS
  <1>2. PICK end : end = GapRun(total, first, Prefix(k))
    OBVIOUS
  <1>3. PullGaps(Prefix(k), total) =
            IF end.at < total THEN Append(end.gaps, Chunk(end.at, total - end.at)) ELSE end.gaps
    BY <1>1, <1>2 DEF PullGaps, GapTurn, GapRun, Loop
  <1>4. end.at = k /\ end.gaps = <<>>
    <2>1. CASE k = 0
      <3>1. Prefix(k) = <<>> /\ Len(<<>>) = 0
        BY <2>1 DEF Prefix
      <3>2. end = first
        BY <1>2, <3>1, GapLoop
      <3> QED
        BY <1>1, <2>1, <3>2
    <2>2. CASE k # 0
      <3>1. PICK c : c = Chunk(0, k) /\ Prefix(k) = <<c>>
        BY <2>2 DEF Prefix
      <3>2. Len(<<c>>) = 1 /\ <<c>>[1] = c /\ c.offset = 0 /\ c.len = k
        BY <3>1 DEF Chunk
      <3>3. end = GapTurn(total, first, c)
        BY <1>2, <3>1, <3>2, GapLoop
      <3> QED
        BY <1>1, <3>2, <3>3 DEF GapTurn
    <2> QED
      BY <2>1, <2>2
  <1> QED
    BY <1>3, <1>4

-----------------------------------------------------------------------------
(* The bytes the files lack, in the order of the DirInfo *)

Missing(n, k, l) == [i \in 1..l - k |-> <<n, k + i - 1>>]
Remaining(at, l) == [i \in 1..Len(Order) |-> Missing(Order[i], at[Order[i]], l[Order[i]])]

\* The bytes from k up to the length of a file.
LEMMA MissingFacts ==
    ASSUME NEW n \in Files, NEW k \in Nat, NEW l \in Nat, k <= l
    PROVE  /\ Missing(n, k, l) \in Seq({n} \X Nat) /\ Missing(n, k, l) \in Seq(Places)
           /\ Len(Missing(n, k, l)) = l - k
           /\ \A i \in 1..l - k : Missing(n, k, l)[i] = <<n, k + i - 1>>
  <1>1. PICK m \in Nat : m = l - k
    OBVIOUS
  <1>2. \A i \in 1..m : <<n, k + i - 1>> \in {n} \X Nat /\ <<n, k + i - 1>> \in Places
    BY <1>1 DEF Places
  <1>3. PICK s : s = [i \in 1..m |-> <<n, k + i - 1>>]
    OBVIOUS
  <1>4. s \in [1..m -> {n} \X Nat] /\ s \in [1..m -> Places] /\ \A i \in 1..m : s[i] = <<n, k + i - 1>>
    BY <1>2, <1>3
  <1>5. s \in Seq({n} \X Nat) /\ s \in Seq(Places) /\ Len(s) = m
    BY <1>4
  <1>6. Missing(n, k, l) = s
    BY <1>1, <1>3 DEF Missing
  <1> QED
    BY <1>1, <1>4, <1>5, <1>6

\* Each file is in the DirInfo once.
LEMMA OrderFacts ==
    /\ Len(Order) \in Nat /\ DOMAIN Order = 1..Len(Order)
    /\ \A i \in 1..Len(Order) : Order[i] \in Files
    /\ \A i \in 1..Len(Order), j \in 1..Len(Order) : Order[i] = Order[j] => i = j
    /\ \A n \in Files : \E i \in 1..Len(Order) : Order[i] = n
  BY FilesAssumption, LenProperties, ElementOfSeq

\* How far each file of the folder has come.
Reached(at, l) ==
    /\ at \in [Files -> Nat] /\ l \in [Files -> Nat]
    /\ \A n \in Files : at[n] <= l[n]

\* What the files lack is a list of lists of places.
LEMMA RemainingFacts ==
    ASSUME NEW at, NEW l, Reached(at, l)
    PROVE  /\ Remaining(at, l) \in Seq(Seq(Places)) /\ Len(Remaining(at, l)) = Len(Order)
           /\ \A i \in 1..Len(Order) :
                 Remaining(at, l)[i] = Missing(Order[i], at[Order[i]], l[Order[i]])
  <1>1. PICK m \in Nat : m = Len(Order)
    BY OrderFacts
  <1>2. \A i \in 1..m : /\ Order[i] \in Files /\ at[Order[i]] \in Nat /\ l[Order[i]] \in Nat
                        /\ at[Order[i]] <= l[Order[i]]
    BY <1>1, OrderFacts DEF Reached
  <1>3. \A i \in 1..m : Missing(Order[i], at[Order[i]], l[Order[i]]) \in Seq(Places)
    BY <1>2, MissingFacts
  <1>4. PICK s : s = [i \in 1..m |-> Missing(Order[i], at[Order[i]], l[Order[i]])]
    OBVIOUS
  <1>5. /\ s \in [1..m -> Seq(Places)]
        /\ \A i \in 1..m : s[i] = Missing(Order[i], at[Order[i]], l[Order[i]])
    BY <1>3, <1>4
  <1>6. s \in Seq(Seq(Places)) /\ Len(s) = m
    BY <1>5
  <1>7. Remaining(at, l) = s
    BY <1>1, <1>4 DEF Remaining
  <1> QED
    BY <1>1, <1>5, <1>6, <1>7

\* A list of lists begins with its first one that is not empty.
LEMMA ConcatSplit ==
    ASSUME NEW S, NEW L \in Seq(Seq(S)), NEW i \in 1..Len(L),
           \A j \in 1..i - 1 : L[j] = <<>>
    PROVE  /\ SubSeq(L, i + 1, Len(L)) \in Seq(Seq(S))
           /\ Concat(L) = L[i] \o Concat(SubSeq(L, i + 1, Len(L)))
  <1>1. PICK n \in Nat : n = Len(L) /\ i \in Nat /\ i <= n /\ i >= 1 /\ DOMAIN L = 1..n
    BY LenProperties
  <1> DEFINE I == {j \in Nat : j < i => Concat(SubSeq(L, 1, j)) = <<>>}
  <1>2. 0 \in I
    BY PrefixFacts, ConcatEmpty
  <1>3. ASSUME NEW j \in Nat, j \in I PROVE j + 1 \in I
    <2> SUFFICES ASSUME j + 1 < i PROVE Concat(SubSeq(L, 1, j + 1)) = <<>>
      OBVIOUS
    <2>1. j \in 0..Len(L)
      BY <1>1
    <2>2. SubSeq(L, 1, j) \in Seq(Seq(S))
      BY <2>1, PrefixFacts
    <2>3. PICK p \in Seq(Seq(S)) : p = SubSeq(L, 1, j)
      BY <2>2
    <2>4. j + 1 \in 1..Len(L) /\ (j + 1) - 1 = j /\ j + 1 \in 1..i - 1
      BY <1>1
    <2>5. SubSeq(L, 1, j + 1) = Append(p, L[j + 1])
      BY <2>3, <2>4, PrefixFacts
    <2>6. L[j + 1] = <<>> /\ <<>> \in Seq(S) /\ Concat(p) = <<>>
      BY <1>3, <2>3, <2>4
    <2>7. Concat(Append(p, <<>>)) = Concat(p) \o <<>>
      BY <2>6, ConcatAppend
    <2>8. <<>> \o <<>> = <<>>
      OBVIOUS
    <2> QED
      BY <2>5, <2>6, <2>7, <2>8
  <1> HIDE DEF I
  <1>4. \A j \in Nat : j \in I
    BY <1>2, <1>3, Induction
  <1>5. PICK x \in Seq(S) : x = L[i]
    BY ElementOfSeq
  <1>6. PICK p \in Seq(Seq(S)), q \in Seq(Seq(S)), r \in Seq(Seq(S)) :
          p = SubSeq(L, 1, i - 1) /\ q = SubSeq(L, 1, i) /\ r = SubSeq(L, i + 1, n)
    <2>1. i - 1 \in 0..Len(L) /\ i \in 0..Len(L)
      BY <1>1
    <2>2. SubSeq(L, 1, i - 1) \in Seq(Seq(S)) /\ SubSeq(L, 1, i) \in Seq(Seq(S))
      BY <2>1, PrefixFacts
    <2>3. SubSeq(L, i + 1, n) \in Seq(Seq(S))
      BY <1>1, MiddleFacts
    <2> QED
      BY <2>2, <2>3
  <1>7. q = Append(p, x)
    BY <1>1, <1>5, <1>6, PrefixFacts
  <1>8. Concat(p) = <<>>
    <2>1. i - 1 \in Nat /\ i - 1 < i
      BY <1>1
    <2> QED
      BY <1>4, <1>6, <2>1 DEF I
  <1>9. Concat(q) = x
    <2>1. Concat(q) = <<>> \o x
      BY <1>7, <1>8, ConcatAppend
    <2> QED
      BY <2>1
  <1>10. L = q \o r
    <2>1. i + 1 \in 1..n + 1 /\ i \in 1 - 1 .. n /\ 1 \in 1..n + 1 /\ n \in i..n
      BY <1>1
    <2>2. SubSeq(L, 1, i) \o SubSeq(L, i + 1, n) = SubSeq(L, 1, n)
      BY <1>1, <2>1, ConcatAdjacentSubSeq
    <2> QED
      BY <1>1, <1>6, <2>2, PrefixFacts
  <1> QED
    BY <1>1, <1>5, <1>6, <1>9, <1>10, ConcatJoin, ZenonT(30)

\* The elements of two lists after each other.
LEMMA JoinFacts ==
    ASSUME NEW S, NEW s \in Seq(S), NEW t \in Seq(S)
    PROVE  /\ s \o t \in Seq(S) /\ Len(s) \in Nat /\ Len(t) \in Nat /\ Len(s \o t) = Len(s) + Len(t)
           /\ \A i \in 1..Len(s) : (s \o t)[i] = s[i]
           /\ \A i \in 1..Len(t) : (s \o t)[Len(s) + i] = t[i]
  <1>1. PICK c \in Seq(S), m \in Nat, n \in Nat : c = s \o t /\ m = Len(s) /\ n = Len(t)
    BY ConcatProperties, LenProperties
  <1>2. Len(c) = m + n /\ \A i \in 1..m + n : c[i] = IF i <= m THEN s[i] ELSE t[i - m]
    BY <1>1, ConcatProperties
  <1>3. \A i \in 1..m : i \in 1..m + n /\ i <= m
    BY <1>1
  <1>4. \A i \in 1..n : m + i \in 1..m + n /\ ~(m + i <= m) /\ (m + i) - m = i
    BY <1>1
  <1>5. \A i \in 1..n : c[m + i] = t[i]
    BY <1>2, <1>4
  <1> QED
    BY <1>1, <1>2, <1>3, <1>5

\* The same for lists of places.
LEMMA JoinPlaces ==
    \A s, t \in Seq(Places) :
        /\ s \o t \in Seq(Places) /\ Len(s \o t) = Len(s) + Len(t)
        /\ \A i \in 1..Len(s) : (s \o t)[i] = s[i]
        /\ \A i \in 1..Len(t) : (s \o t)[Len(s) + i] = t[i]
  BY JoinFacts

LEMMA JoinThree ==
    \A s, t, u \in Seq(Places) : (s \o t) \o u = s \o (t \o u)
  BY ConcatAssociative

LEMMA MissingOf ==
    \A n \in Files, k, l \in Nat : k <= l =>
        /\ Missing(n, k, l) \in Seq(Places) /\ Len(Missing(n, k, l)) = l - k
        /\ \A i \in 1..l - k : Missing(n, k, l)[i] = <<n, k + i - 1>>
  BY MissingFacts

\* The piece in front belongs to the first file that lacks something and
\* begins where that file has come to; what is behind it is what is left then.
LEMMA Advance ==
    ASSUME NEW at, NEW l, Reached(at, l), NEW e \in Span, NEW tail \in Seq(Places),
           BytesOf(e) \o tail = Concat(Remaining(at, l))
    PROVE  LET to == [at EXCEPT ![e.name] = @ + e.len]
           IN  /\ e.offset = at[e.name] /\ at[e.name] + e.len <= l[e.name]
               /\ Reached(to, l) /\ tail = Concat(Remaining(to, l))
  <1>1. PICK m \in Nat : m = Len(Order)
    BY OrderFacts
  <1>2. PICK R \in Seq(Seq(Places)) :
          /\ R = Remaining(at, l) /\ Len(R) = m /\ DOMAIN R = 1..m
          /\ \A i \in 1..m : R[i] = Missing(Order[i], at[Order[i]], l[Order[i]])
    BY <1>1, RemainingFacts, LenProperties
  <1>3. PICK k \in Nat, o \in Nat, f \in Files : k = e.len /\ o = e.offset /\ f = e.name /\ k > 0
    BY DEF Span
  <1>4. PICK B \in Seq(Places) :
          B = BytesOf(e) /\ Len(B) = k /\ \A i \in 1..k : B[i] = <<f, o + i - 1>>
    BY <1>3, BytesFacts
  <1>5. PICK c \in Seq(Places) : c = Concat(R) /\ c = B \o tail
    BY <1>2, <1>4, ConcatType
  <1>6. PICK t \in Nat : t = Len(tail)
    BY LenProperties
  <1>7. Len(c) = k + t /\ \A i \in 1..k : c[i] = <<f, o + i - 1>>
    <2>1. Len(B \o tail) = Len(B) + Len(tail) /\ \A i \in 1..Len(B) : (B \o tail)[i] = B[i]
      BY <1>4, JoinFacts, ZenonT(30)
    <2> QED
      BY <1>4, <1>5, <1>6, <2>1
  <1>8. \E i \in 1..m : R[i] # <<>>
    <2>1. SUFFICES ASSUME \A i \in 1..m : R[i] = <<>> PROVE FALSE
      OBVIOUS
    <2>2. <<>> \in Seq({})
      BY EmptySeq
    <2>3. R \in Seq(Seq({}))
      BY <1>2, <2>1, <2>2, LenProperties
    <2>4. c \in Seq({})
      BY <1>5, <2>3, ConcatType
    <2>5. 1 \in 1..Len(c)
      BY <1>3, <1>7
    <2>6. c[1] \in {}
      BY <2>4, <2>5, ElementOfSeq
    <2> QED
      BY <2>6
  <1>9. PICK i \in 1..m : R[i] # <<>> /\ \A j \in 1..i - 1 : R[j] = <<>>
    <2> DEFINE I == {j \in 1..m : R[j] # <<>>}
    <2>1. I \subseteq Nat /\ I # {}
      BY <1>8
    <2>2. PICK i \in I : \A j \in I : i <= j
      BY <2>1, LeastExists
    <2>3. \A j \in 1..i - 1 : j \in 1..m /\ ~(i <= j)
      OBVIOUS
    <2> QED
      BY <2>2, <2>3
  <1>10. PICK g \in Files, a \in Nat, b \in Nat :
           g = Order[i] /\ a = at[g] /\ b = l[g] /\ a <= b
    BY <1>1, OrderFacts DEF Reached
  <1>11. g \in Files /\ a \in Nat /\ b \in Nat /\ a <= b
    BY <1>10
  <1>12. k \in Nat /\ k > 0
    BY <1>3
  <1>13. m \in Nat /\ R \in Seq(Seq(Places)) /\ Len(R) = m /\ i \in 1..m
    BY <1>1, <1>2
  <1>14. B \in Seq(Places) /\ Len(B) = k
    BY <1>4
  <1>15. PICK q \in Seq({g} \X Nat) :
           /\ q = R[i] /\ q \in Seq(Places) /\ Len(q) = b - a
           /\ \A j \in 1..b - a : q[j] = <<g, a + j - 1>>
    <2>1. R[i] = Missing(g, a, b)
      BY <1>2, <1>10
    <2>2. PICK s \in Seq({g} \X Nat) : s = Missing(g, a, b) /\ s \in Seq(Places)
      BY <1>10, MissingFacts
    <2>3. Len(s) = b - a /\ \A j \in 1..b - a : s[j] = <<g, a + j - 1>>
      BY <1>11, <2>2, MissingFacts, ZenonT(30)
    <2> QED
      BY <2>1, <2>2, <2>3
  <1>16. q \in Seq(Places) /\ Len(q) = b - a
    BY <1>15
  <1>17. b - a \in Nat /\ b - a > 0
    <2>1. q # <<>>
      BY <1>9, <1>15
    <2>2. Len(q) # 0
      BY <2>1, EmptySeq
    <2> QED
      BY <1>10, <1>15, <2>2
  <1>18. PICK r \in Seq(Seq(Places)) :
           /\ r = SubSeq(R, i + 1, m) /\ Len(r) = m - i
           /\ \A j \in 1..m - i : r[j] = R[i + j]
    <2>1. i \in Nat /\ i <= m /\ m \in Nat /\ m <= Len(R)
      BY <1>13
    <2>2. /\ SubSeq(R, i + 1, m) \in Seq(Seq(Places)) /\ Len(SubSeq(R, i + 1, m)) = m - i
          /\ \A j \in 1..m - i : SubSeq(R, i + 1, m)[j] = R[i + j]
      BY <1>13, <2>1, MiddleFacts
    <2> QED
      BY <2>2
  <1> DEFINE S == {p \in Places : p[1] # g}
  <1>19. r \in Seq(Seq(S))
    <2>1. ASSUME NEW j \in 1..m - i PROVE r[j] \in Seq(S)
      <3>1. i + j \in 1..m /\ i + j # i
        OBVIOUS
      <3>2. PICK h \in Files : h = Order[i + j] /\ h # g
        BY <1>1, <1>10, <3>1, OrderFacts
      <3>3. at[h] \in Nat /\ l[h] \in Nat /\ at[h] <= l[h]
        BY DEF Reached
      <3>4. r[j] = Missing(h, at[h], l[h])
        BY <1>2, <1>18, <3>1, <3>2
      <3>5. Missing(h, at[h], l[h]) \in Seq({h} \X Nat)
        BY <3>3, MissingFacts
      <3>6. ({h} \X Nat) \subseteq S
        BY <3>2 DEF Places
      <3> QED
        BY <3>4, <3>5, <3>6, SeqMonotonic
    <2>2. m - i \in Nat
      BY <1>13
    <2>3. PICK d \in Nat : d = m - i /\ Len(r) = d
      BY <1>18, <2>2
    <2>4. r \in [1..d -> Seq(S)]
      BY <1>18, <2>1, <2>3, LenProperties
    <2> QED
      BY <2>3, <2>4
  <1> HIDE DEF S
  <1>20. PICK w \in Seq(S) : w = Concat(r) /\ w \in Seq(Places)
    BY <1>18, <1>19, ConcatType
  <1>21. \A p \in S : p[1] # g
    BY DEF S
  <1>22. S \subseteq Places
    BY DEF S
  <1>23. c = q \o w
    BY <1>2, <1>5, <1>9, <1>15, <1>18, <1>20, ConcatSplit
  <1>24. w \in Seq(S) /\ w \in Seq(Places)
    BY <1>20
  <1>25. PICK x \in Nat : x = Len(w)
    BY LenProperties
  <1>26. /\ Len(c) = (b - a) + x
         /\ \A j \in 1..b - a : c[j] = q[j]
         /\ \A j \in 1..x : c[(b - a) + j] = w[j]
    <2>1. /\ Len(q \o w) = Len(q) + Len(w)
          /\ \A j \in 1..Len(q) : (q \o w)[j] = q[j]
          /\ \A j \in 1..Len(w) : (q \o w)[Len(q) + j] = w[j]
      BY <1>16, <1>24, JoinPlaces
    <2> QED
      BY <1>15, <1>23, <1>25, <2>1
  <1>27. f = g /\ o = a
    <2>1. 1 \in 1..k /\ 1 \in 1..b - a
      BY <1>3, <1>17
    <2>2. c[1] = <<f, o + 1 - 1>> /\ c[1] = <<g, a + 1 - 1>>
      BY <1>7, <1>15, <1>26, <2>1
    <2> QED
      BY <2>2
  <1>28. k <= b - a
    <2>1. SUFFICES ASSUME ~(k <= b - a) PROVE FALSE
      OBVIOUS
    <2>2. PICK j \in Nat : j = b - a + 1
      BY <1>17
    <2>3. j \in 1..k /\ j = (b - a) + 1 /\ 1 \in 1..x
      BY <1>3, <1>6, <1>7, <1>17, <1>25, <1>26, <2>1, <2>2, SMTT(30)
    <2>4. c[j] = <<g, o + j - 1>> /\ c[j] = w[1]
      BY <1>7, <1>26, <1>27, <2>3
    <2>5. w[1] \in S
      BY <1>25, <2>3, ElementOfSeq
    <2>6. w[1][1] # g
      BY <2>5 DEF S
    <2> QED
      BY <2>4, <2>6
  <1> DEFINE to == [at EXCEPT ![e.name] = @ + e.len]
  <1>29. /\ to \in [Files -> Nat] /\ to[g] = a + k
         /\ \A n \in Files : n # g => to[n] = at[n]
    <2>1. at \in [Files -> Nat]
      BY DEF Reached
    <2>2. a + k \in Nat
      BY <1>11, <1>12
    <2>3. at \in [Files -> Nat] /\ a + k \in Nat
      BY <2>1, <2>2
    <2>4. to = [at EXCEPT ![g] = a + k]
      BY <1>3, <1>10, <1>27
    <2> QED
      BY <2>3, <2>4
  <1>30. Reached(to, l)
    <2>1. a + k <= b
      BY <1>11, <1>12, <1>28
    <2>2. ASSUME NEW n \in Files PROVE to[n] <= l[n]
      BY <1>10, <1>29, <2>1 DEF Reached
    <2> QED
      BY <1>29, <2>2 DEF Reached
  <1> HIDE DEF to
  <1>31. PICK Q \in Seq(Seq(Places)) :
           /\ Q = Remaining(to, l) /\ Len(Q) = m
           /\ \A j \in 1..m : Q[j] = Missing(Order[j], to[Order[j]], l[Order[j]])
    BY <1>1, <1>30, RemainingFacts
  <1>32. \A j \in 1..m : j # i => Q[j] = R[j]
    <2>1. \A j \in 1..m : Order[j] \in Files /\ (j # i => Order[j] # g)
      BY <1>1, <1>10, OrderFacts
    <2> QED
      BY <1>2, <1>29, <1>31, <2>1
  <1>33. PICK z \in Seq(Places) :
           /\ z = Q[i] /\ Len(z) = b - (a + k)
           /\ \A j \in 1..b - (a + k) : z[j] = <<g, (a + k) + j - 1>>
    <2>1. a + k \in Nat /\ a + k <= b
      BY <1>11, <1>12, <1>28
    <2>2. PICK d \in Nat : d = a + k /\ d <= b
      BY <2>1
    <2>3. Q[i] = Missing(g, d, b)
      BY <1>10, <1>29, <1>31, <2>2
    <2>4. PICK s \in Seq(Places) : s = Missing(g, d, b)
      BY <1>11, <2>2, MissingFacts
    <2>5. d \in Nat /\ d <= b
      BY <2>2
    <2>6. /\ Len(Missing(g, d, b)) = b - d
          /\ \A j \in 1..b - d : Missing(g, d, b)[j] = <<g, d + j - 1>>
      BY <1>11, <2>5, MissingOf, ZenonT(30)
    <2>7. Len(s) = b - d /\ \A j \in 1..b - d : s[j] = <<g, d + j - 1>>
      BY <2>4, <2>6
    <2> QED
      BY <2>2, <2>3, <2>7, <2>4
  <1>34. z \in Seq(Places)
    BY <1>33
  <1>35. \A j \in 1..i - 1 : Q[j] = <<>>
    <2>1. \A j \in 1..i - 1 : j \in 1..m /\ j # i
      OBVIOUS
    <2> QED
      BY <1>9, <1>32, <2>1
  <1>36. SubSeq(Q, i + 1, m) = r
    <2>1. Q \in Seq(Seq(Places)) /\ Len(Q) = m
      BY <1>31
    <2>2. r \in Seq(Seq(Places)) /\ Len(r) = m - i /\ m - i \in Nat
      BY <1>18, <1>13
    <2>3. i \in Nat /\ i <= m /\ m \in Nat /\ m <= Len(Q)
      BY <1>13, <2>1
    <2>4. /\ SubSeq(Q, i + 1, m) \in Seq(Seq(Places)) /\ Len(SubSeq(Q, i + 1, m)) = m - i
          /\ \A j \in 1..m - i : SubSeq(Q, i + 1, m)[j] = Q[i + j]
      BY <2>1, <2>3, MiddleFacts
    <2>5. \A j \in 1..m - i : i + j \in 1..m /\ i + j # i
      OBVIOUS
    <2>6. \A j \in 1..m - i : SubSeq(Q, i + 1, m)[j] = r[j]
      BY <1>18, <1>32, <2>4, <2>5
    <2> QED
      <3>1. PICK s \in Seq(Seq(Places)) : s = SubSeq(Q, i + 1, m)
        BY <2>4
      <3>2. Len(s) = m - i /\ \A j \in 1..m - i : s[j] = r[j]
        BY <2>4, <2>6, <3>1
      <3>3. s = r
        BY <2>2, <3>2, SeqEqual
      <3> QED
        BY <3>1, <3>3
  <1>37. Concat(Q) = z \o w
    BY <1>20, <1>31, <1>33, <1>35, <1>36, ConcatSplit
  <1>38. q = B \o z
    <2>1. b - (a + k) \in Nat /\ k + (b - (a + k)) = b - a
      BY <1>11, <1>12, <1>28
    <2>2. b - (a + k) = Len(z)
      BY <1>33
    <2>3. PICK d \in Nat : d = b - (a + k) /\ k + d = b - a /\ d = Len(z)
      BY <2>1, <2>2
    <2>4. /\ B \o z \in Seq(Places) /\ Len(B \o z) = Len(B) + Len(z)
          /\ \A j \in 1..Len(B) : (B \o z)[j] = B[j]
          /\ \A j \in 1..Len(z) : (B \o z)[Len(B) + j] = z[j]
      BY <1>14, <1>34, JoinPlaces
    <2>5. /\ B \o z \in Seq(Places) /\ Len(B \o z) = k + d
          /\ \A j \in 1..k : (B \o z)[j] = B[j]
          /\ \A j \in 1..d : (B \o z)[k + j] = z[j]
      BY <1>4, <2>3, <2>4
    <2>6. q \in Seq(Places) /\ Len(q) = b - a
      BY <1>15
    <2>7. B \o z \in Seq(Places) /\ Len(B \o z) = b - a
      BY <2>3, <2>5
    <2>8. ASSUME NEW j \in 1..b - a PROVE (B \o z)[j] = q[j]
      <3>1. q[j] = <<g, a + j - 1>>
        BY <1>15
      <3>2. CASE j <= k
        <4>1. j \in 1..k
          BY <1>3, <3>2
        <4> QED
          BY <1>4, <1>27, <2>5, <3>1, <4>1
      <3>3. CASE ~(j <= k)
        <4>1. d \in Nat /\ k + d = b - a
          BY <2>3
        <4>2. j - k \in 1..d /\ k + (j - k) = j /\ (a + k) + (j - k) - 1 = a + j - 1
          BY <1>11, <1>12, <3>3, <4>1
        <4>3. PICK h \in 1..d : h = j - k /\ k + h = j /\ (a + k) + h - 1 = a + j - 1
          BY <4>2
        <4>4. (B \o z)[j] = z[h] /\ z[h] = <<g, (a + k) + h - 1>>
          BY <1>33, <2>3, <2>5, <4>3
        <4> QED
          BY <3>1, <4>3, <4>4
      <3> QED
        BY <3>2, <3>3
    <2> QED
      BY <2>6, <2>7, <2>8, SeqEqual
  <1>39. tail = z \o w
    <2>1. B \o tail = (B \o z) \o w
      BY <1>5, <1>23, <1>38
    <2>2. (B \o z) \o w = B \o (z \o w)
      BY <1>14, <1>24, <1>34, JoinThree
    <2>3. z \o w \in Seq(Places)
      BY <1>20, <1>33, ConcatProperties
    <2>4. B \o tail = B \o (z \o w)
      BY <2>1, <2>2
    <2> QED
      BY <1>4, <2>3, <2>4, ConcatSimplifications
  <1>40. e.offset = at[e.name] /\ at[e.name] + e.len <= l[e.name]
    <2>1. a + k <= b
      BY <1>11, <1>12, <1>28
    <2> QED
      BY <1>3, <1>10, <1>27, <2>1
  <1>41. tail = Concat(Remaining(to, l))
    BY <1>31, <1>37, <1>39
  <1> QED
    BY <1>30, <1>40, <1>41 DEF to

-----------------------------------------------------------------------------
(* One piece leaves the Pushes on the way *)

\* A list is its head and its tail.
LEMMA HeadTail ==
    ASSUME NEW S, NEW s \in Seq(S), s # <<>>
    PROVE  /\ Head(s) \in S /\ Tail(s) \in Seq(S) /\ <<Head(s)>> \in Seq(S)
           /\ s = <<Head(s)>> \o Tail(s)
  <1>1. PICK n \in Nat : n = Len(s)
    BY LenProperties
  <1>2. n # 0
    BY <1>1, EmptySeq
  <1>3. SubSeq(s, 1, n) = <<s[1]>> \o SubSeq(s, 2, n)
    <2>1. 1 \in 1..Len(s) /\ n \in 1..Len(s) /\ 1 + 1 = 2
      BY <1>1, <1>2
    <2> QED
      BY <2>1, SubSeqRecursiveFirst
  <1>4. SubSeq(s, 1, n) = s /\ Tail(s) = SubSeq(s, 2, n) /\ Head(s) = s[1]
    BY <1>1, PrefixFacts, TailIsSubSeq
  <1>5. Head(s) \in S /\ Tail(s) \in Seq(S)
    BY HeadTailProperties
  <1>6. <<Head(s)>> \in Seq(S)
    BY <1>5
  <1> QED
    BY <1>3, <1>4, <1>5, <1>6

\* A Push without its first entry is not longer.
LEMMA TotalTail ==
    ASSUME NEW e \in Span, NEW s \in Seq(Span)
    PROVE  TotalLen(s) <= TotalLen(<<e>> \o s)
  <1> DEFINE I == {t \in Seq(Span) : TotalLen(t) <= TotalLen(<<e>> \o t)}
  <1>1. <<>> \in Seq(Span) /\ <<e>> \in Seq(Span)
    OBVIOUS
  <1>2. <<>> \in I
    <2>1. <<e>> \o <<>> = <<e>>
      OBVIOUS
    <2>2. TotalLen(<<e>>) \in Nat /\ TotalLen(<<>>) = 0
      BY <1>1, TotalFacts
    <2> QED
      BY <1>1, <2>1, <2>2
  <1>3. ASSUME NEW t \in Seq(Span), NEW x \in Span, t \in I PROVE Append(t, x) \in I
    <2>1. PICK u \in Seq(Span) : u = <<e>> \o t
      BY <1>1, ConcatProperties
    <2>2. <<e>> \o Append(t, x) = Append(u, x)
      <3>1. <<x>> \in Seq(Span)
        OBVIOUS
      <3>2. Append(t, x) = t \o <<x>> /\ Append(u, x) = u \o <<x>>
        BY <2>1, AppendIsConcat
      <3>3. (<<e>> \o t) \o <<x>> = <<e>> \o (t \o <<x>>)
        BY <1>1, <3>1, ConcatAssociative
      <3> QED
        BY <2>1, <3>2, <3>3
    <2>3. TotalLen(Append(t, x)) = TotalLen(t) + x.len /\ TotalLen(Append(u, x)) = TotalLen(u) + x.len
      BY <2>1, TotalFacts
    <2>4. TotalLen(t) \in Nat /\ TotalLen(u) \in Nat /\ x.len \in Nat
      BY <2>1, TotalFacts DEF Span
    <2>5. TotalLen(t) <= TotalLen(u)
      BY <1>3, <2>1
    <2>6. Append(t, x) \in Seq(Span)
      BY AppendProperties
    <2>7. TotalLen(Append(t, x)) <= TotalLen(Append(u, x))
      BY <2>3, <2>4, <2>5
    <2> QED
      BY <2>2, <2>6, <2>7
  <1> HIDE DEF I
  <1>4. s \in I
    BY <1>2, <1>3, ListInduction
  <1> QED
    BY <1>4 DEF I

\* Pushes within the limit, without the first.
LEMMA WholeTail ==
    ASSUME NEW P \in Seq(Seq(Piece)), P # <<>>, WholePushes(P)
    PROVE  WholePushes(Tail(P)) /\ P[1] # <<>> /\ TotalLen(P[1]) <= MaxPushBytes
  <1>1. PICK n \in Nat, t \in Seq(Seq(Piece)) : n = Len(P) /\ t = Tail(P) /\ DOMAIN P = 1..n
    BY LenProperties, HeadTailProperties
  <1>2. n # 0
    BY <1>1, EmptySeq
  <1>3. Len(t) = n - 1 /\ \A i \in 1..Len(t) : t[i] = P[i + 1]
    BY <1>1, HeadTailProperties
  <1>4. DOMAIN t = 1..n - 1
    BY <1>1, <1>3, LenProperties
  <1>5. \A i \in 1..n - 1 : i + 1 \in 1..n
    BY <1>1
  <1>6. 1 \in 1..n
    BY <1>1, <1>2
  <1>7. WholePushes(t)
    BY <1>1, <1>3, <1>4, <1>5 DEF WholePushes
  <1> QED
    BY <1>1, <1>6, <1>7 DEF WholePushes

LEMMA WholeOne ==
    ASSUME NEW p \in Seq(Piece), p # <<>>, TotalLen(p) <= MaxPushBytes
    PROVE  <<p>> \in Seq(Seq(Piece)) /\ WholePushes(<<p>>)
  <1>1. <<p>> \in Seq(Seq(Piece)) /\ DOMAIN <<p>> = 1..1 /\ <<p>>[1] = p
    OBVIOUS
  <1> QED
    BY <1>1 DEF WholePushes

LEMMA ConcatPieces ==
    /\ \A l, m \in Seq(Seq(Piece)) : Concat(l \o m) = Concat(l) \o Concat(m)
    /\ \A p \in Seq(Piece) : Concat(<<p>>) = p
  BY ConcatJoin, ConcatOne

\* The Pushes without their first entry.
Without(P) ==
    IF Len(Head(P)) = 1 THEN Tail(P) ELSE <<Tail(Head(P))>> \o Tail(P)

\* Taking the first entry takes its bytes, and no others, from the front.
LEMMA RestFacts ==
    ASSUME NEW P \in Seq(Seq(Piece)), P # <<>>, WholePushes(P)
    PROVE  /\ Head(Head(P)) \in Piece
           /\ Without(P) \in Seq(Seq(Piece)) /\ WholePushes(Without(P))
           /\ Stream(Concat(P)) = BytesOf(Head(Head(P))) \o Stream(Concat(Without(P)))
  <1>1. PICK p \in Seq(Piece), T \in Seq(Seq(Piece)) :
          p = Head(P) /\ T = Tail(P) /\ P = <<p>> \o T /\ <<p>> \in Seq(Seq(Piece))
    BY HeadTail
  <1>2. WholePushes(T) /\ p # <<>> /\ TotalLen(p) <= MaxPushBytes
    <2>1. Head(P) = P[1]
      OBVIOUS
    <2>2. WholePushes(Tail(P)) /\ P[1] # <<>> /\ TotalLen(P[1]) <= MaxPushBytes
      BY WholeTail
    <2> QED
      BY <1>1, <2>1, <2>2
  <1>3. PICK e \in Piece, t \in Seq(Piece) :
          e = Head(p) /\ t = Tail(p) /\ p = <<e>> \o t /\ <<e>> \in Seq(Piece)
    BY <1>2, HeadTail
  <1>4. PICK c \in Seq(Piece) : c = Concat(T)
    BY ConcatType
  <1>5. Concat(P) = p \o c
    BY <1>1, <1>4, ConcatPieces, ZenonT(30)
  <1>6. /\ Without(P) \in Seq(Seq(Piece)) /\ WholePushes(Without(P))
        /\ Concat(Without(P)) = t \o c
    <2>1. CASE Len(p) = 1
      <3>1. Len(t) = 0
        BY <1>2, <1>3, <2>1, HeadTailProperties
      <3>2. t = <<>>
        BY <3>1, EmptySeq
      <3>3. t \o c = c
        BY <3>2, ConcatEmptySeq
      <3>4. Without(P) = T
        BY <1>1, <2>1 DEF Without
      <3> QED
        BY <1>2, <1>4, <3>3, <3>4
    <2>2. CASE Len(p) # 1
      <3>1. t # <<>>
        <4>1. Len(t) = Len(p) - 1 /\ Len(p) \in Nat
          BY <1>2, <1>3, HeadTailProperties, LenProperties
        <4>2. Len(t) # 0
          BY <2>2, <4>1
        <4> QED
          BY <4>2, EmptySeq
      <3>2. TotalLen(t) <= MaxPushBytes
        <4>1. e \in Span /\ t \in Seq(Span) /\ p \in Seq(Span)
          BY PieceFacts, PieceLists
        <4>2. TotalLen(t) <= TotalLen(p)
          BY <1>3, <4>1, TotalTail
        <4>3. TotalLen(t) \in Nat /\ TotalLen(p) \in Nat
          BY <4>1, TotalFacts
        <4> QED
          BY <1>2, <4>2, <4>3, MaxPushBytesAssumption
      <3>3. <<t>> \in Seq(Seq(Piece)) /\ WholePushes(<<t>>)
        BY <3>1, <3>2, WholeOne
      <3>4. Without(P) = <<t>> \o T
        BY <1>1, <1>3, <2>2 DEF Without
      <3>5. <<t>> \o T \in Seq(Seq(Piece)) /\ WholePushes(<<t>> \o T)
        BY <1>2, <3>3, WholeJoin, ConcatProperties
      <3>6. Concat(<<t>> \o T) = t \o c
        BY <1>1, <1>4, <3>3, ConcatPieces
      <3> QED
        BY <3>4, <3>5, <3>6
    <2> QED
      BY <2>1, <2>2
  <1>7. Stream(Concat(P)) = BytesOf(e) \o Stream(t \o c)
    <2>1. PICK d \in Seq(Piece) : d = t \o c
      BY ConcatProperties
    <2>2. (<<e>> \o t) \o c = <<e>> \o (t \o c)
      BY <1>3, ConcatAssociative, SMTT(30)
    <2>3. Concat(P) = <<e>> \o d
      BY <1>3, <1>5, <2>1, <2>2
    <2>4. <<e>> \in Seq(Span) /\ d \in Seq(Span) /\ e \in Span
      BY <1>3, PieceFacts, PieceLists
    <2> QED
      BY <2>1, <2>3, <2>4, StreamJoin, StreamOne
  <1> QED
    BY <1>1, <1>3, <1>6, <1>7

-----------------------------------------------------------------------------
(* What a Pull asks for *)

Gaps(d, r, l, n) ==
    LET Named(gap) == [name |-> n, offset |-> gap.offset, len |-> gap.len]
    IN  IF d[n] THEN <<>> ELSE Map(Named, PullGaps(r[n], l[n]))
PullOf(d, r, l) == Concat([i \in DOMAIN Order |-> Gaps(d, r, l, Order[i])])

\* The columns and at, how far each file has come, agree.
Held(d, r, l, at) ==
    /\ Reached(at, l)
    /\ \A n \in Files : IF d[n] THEN at[n] = l[n] ELSE at[n] < l[n] /\ r[n] = Prefix(at[n])

\* The Pull as a function of the three columns.
LEMMA PullIs == Pull = PullOf(done, row, length)
  BY DEF Pull, PullOf, Gaps, Map

\* A row lacks what follows its one chunk.
LEMMA GapsFacts ==
    ASSUME NEW d, NEW r, NEW l, NEW at, Held(d, r, l, at), NEW n \in Files
    PROVE  /\ Gaps(d, r, l, n) \in Seq(Span)
           /\ Stream(Gaps(d, r, l, n)) = Missing(n, at[n], l[n])
  <1>1. PICK k \in Nat, t \in Nat : k = at[n] /\ t = l[n] /\ k <= t
    BY DEF Held, Reached
  <1>2. CASE d[n]
    <2>1. Gaps(d, r, l, n) = <<>> /\ <<>> \in Seq(Span)
      BY <1>2 DEF Gaps, Map
    <2>2. k = t
      BY <1>1, <1>2 DEF Held
    <2>3. PICK s \in Seq(Places) : s = Missing(n, k, t) /\ Len(s) = t - k
      BY <1>1, MissingOf, ZenonT(30)
    <2>4. Len(s) = 0
      BY <1>1, <2>2, <2>3
    <2>5. s = <<>>
      BY <2>4, EmptySeq
    <2> QED
      BY <1>1, <2>1, <2>3, <2>5, StreamEmpty
  <1>3. CASE ~d[n]
    <2>1. k < t /\ r[n] = Prefix(k)
      BY <1>1, <1>3 DEF Held
    <2>2. PICK c : c = Chunk(k, t - k)
      OBVIOUS
    <2>3. PullGaps(r[n], l[n]) = <<c>>
      BY <1>1, <2>1, <2>2, GapFacts
    <2>4. PICK e : e = [name |-> n, offset |-> k, len |-> t - k]
      OBVIOUS
    <2>5. e \in Span /\ e.name = n /\ e.offset = k /\ e.len = t - k
      BY <1>1, <2>1, <2>4 DEF Span
    <2>6. c.offset = k /\ c.len = t - k
      BY <2>2 DEF Chunk
    <2>7. Gaps(d, r, l, n) = <<e>>
      <3>1. DOMAIN <<c>> = 1..1 /\ <<c>>[1] = c /\ \A i \in 1..1 : i = 1
        OBVIOUS
      <3>2. Gaps(d, r, l, n) =
              [i \in 1..1 |-> [name |-> n, offset |-> <<c>>[i].offset, len |-> <<c>>[i].len]]
        BY <1>3, <2>3, <3>1 DEF Gaps, Map
      <3>3. \A i \in 1..1 : [name |-> n, offset |-> <<c>>[i].offset, len |-> <<c>>[i].len] = e
        BY <2>4, <2>6, <3>1
      <3>4. <<e>> = [i \in 1..1 |-> e]
        OBVIOUS
      <3> QED
        BY <3>2, <3>3, <3>4
    <2>8. <<e>> \in Seq(Span) /\ Stream(<<e>>) = BytesOf(e)
      BY <2>5, StreamOne
    <2>9. BytesOf(e) = Missing(n, k, t)
      BY <2>5 DEF BytesOf, Missing
    <2> QED
      BY <1>1, <2>7, <2>8, <2>9
  <1> QED
    BY <1>2, <1>3

\* The Pull asks for what the files lack.
LEMMA PullFacts ==
    ASSUME NEW d, NEW r, NEW l, NEW at, Held(d, r, l, at)
    PROVE  /\ PullOf(d, r, l) \in Seq(Span)
           /\ Stream(PullOf(d, r, l)) = Concat(Remaining(at, l))
  <1>1. PICK m \in Nat : m = Len(Order) /\ DOMAIN Order = 1..m
    BY OrderFacts
  <1>2. PICK s : s = [i \in 1..m |-> Gaps(d, r, l, Order[i])]
    OBVIOUS
  <1>3. ASSUME NEW i \in 1..m
        PROVE  /\ s[i] \in Seq(Span)
               /\ Stream(s[i]) = Missing(Order[i], at[Order[i]], l[Order[i]])
    <2>1. Order[i] \in Files
      BY <1>1, OrderFacts
    <2> QED
      BY <1>2, <2>1, GapsFacts
  <1>4. s \in [1..m -> Seq(Span)]
    BY <1>2, <1>3
  <1>5. s \in Seq(Seq(Span)) /\ Len(s) = m
    BY <1>4
  <1>6. PullOf(d, r, l) = Concat(s)
    BY <1>1, <1>2 DEF PullOf
  <1>7. Concat(s) \in Seq(Span)
    BY <1>5, ConcatType
  <1>8. Stream(Concat(s)) = Concat([i \in 1..m |-> Stream(s[i])])
    BY <1>5, StreamConcat
  <1>9. [i \in 1..m |-> Stream(s[i])] = Remaining(at, l)
    BY <1>1, <1>3 DEF Remaining
  <1> QED
    BY <1>6, <1>7, <1>8, <1>9

-----------------------------------------------------------------------------
(* The inductive invariant *)

Columns ==
    /\ length \in [Files -> 1..MaxLen] /\ done \in [Files -> BOOLEAN]
    /\ row = [n \in Files |-> row[n]] /\ cache = [n \in Files |-> cache[n]]
    /\ disk = [n \in Files |-> disk[n]]

\* What is on disk, and, while Pushes are on the way, what is in fmap and in
\* the Pushes, for files that have come as far as at says.
Onward(at) ==
    /\ Held(done, row, length, at)
    /\ \A n \in Files : disk[n] = 0 .. at[n] - 1
    /\ pushes # <<>> =>
          /\ \A n \in Files : ~done[n] => cache[n] = row[n]
          /\ Stream(Concat(pushes)) = Concat(Remaining(at, length))

UploadInv ==
    /\ Columns
    /\ pushes \in Seq(Seq(Piece)) /\ WholePushes(pushes)
    /\ \E at : Onward(at)

LEMMA LengthFacts ==
    ASSUME length \in [Files -> 1..MaxLen]
    PROVE  /\ length \in [Files -> Nat]
           /\ \A n \in Files : length[n] \in Nat /\ length[n] > 0
  BY MaxLenAssumption

LEMMA WholeNothing == <<>> \in Seq(Seq(Piece)) /\ WholePushes(<<>>)
  <1>1. DOMAIN <<>> = {}
    OBVIOUS
  <1> QED
    BY <1>1, ConcatEmpty DEF WholePushes

\* At first nothing has come and nothing is on the way.
LEMMA InitUpload == Init => UploadInv
  <1> SUFFICES ASSUME Init PROVE UploadInv
    OBVIOUS
  <1>1. length \in [Files -> Nat] /\ \A n \in Files : length[n] \in Nat /\ length[n] > 0
    BY LengthFacts DEF Init
  <1>2. PICK at : at = [n \in Files |-> 0]
    OBVIOUS
  <1>3. at \in [Files -> Nat] /\ \A n \in Files : at[n] = 0
    BY <1>2
  <1>4. Reached(at, length)
    BY <1>1, <1>3 DEF Reached
  <1>5. Held(done, row, length, at)
    <2>1. \A n \in Files : ~done[n] /\ row[n] = <<>>
      BY DEF Init
    <2>2. Prefix(0) = <<>>
      BY DEF Prefix
    <2> QED
      BY <1>1, <1>3, <1>4, <2>1, <2>2 DEF Held
  <1>6. \A n \in Files : disk[n] = 0 .. at[n] - 1
    <2>1. \A n \in Files : disk[n] = {}
      BY DEF Init
    <2>2. 0 .. 0 - 1 = {}
      OBVIOUS
    <2> QED
      BY <1>3, <2>1, <2>2
  <1>7. Onward(at)
    BY <1>5, <1>6 DEF Onward, Init
  <1>8. Columns
    BY DEF Columns, Init
  <1> QED
    BY <1>7, <1>8, WholeNothing DEF UploadInv, Init

\* A session sends what its Pull asks for, which is what lacks.
LEMMA SyncUpload == UploadInv /\ Sync => UploadInv'
  <1> SUFFICES ASSUME UploadInv, Sync PROVE UploadInv'
    OBVIOUS
  <1>1. PICK at : Onward(at)
    BY DEF UploadInv
  <1>2. Held(done, row, length, at)
    BY <1>1 DEF Onward
  <1>3. Pull \in Seq(Span) /\ Stream(Pull) = Concat(Remaining(at, length))
    BY <1>2, PullIs, PullFacts
  <1>4. pushes' = GroupPieces(Pull)
    BY DEF Sync
  <1>5. /\ pushes' \in Seq(Seq(Piece)) /\ WholePushes(pushes')
        /\ Stream(Concat(pushes')) = Concat(Remaining(at, length))
    BY <1>3, <1>4, GroupPiecesFacts
  <1>6. Held(done', row', length', at)
    BY <1>2 DEF Sync
  <1>7. /\ Held(done, row, length, at)'
        /\ \A n \in Files : disk'[n] = 0 .. at[n] - 1
        /\ \A n \in Files : cache'[n] = row'[n]
        /\ length' = length
    BY <1>1, <1>6 DEF Onward, Sync, Held
  <1>8. Onward(at)'
    BY <1>5, <1>7 DEF Onward
  <1>9. Columns'
    BY DEF Columns, Sync, UploadInv
  <1>10. WholePushes(pushes)'
    BY <1>5 DEF WholePushes
  <1> QED
    BY <1>5, <1>8, <1>9, <1>10 DEF UploadInv

\* What is lost is not counted in any row.
LEMMA CloseUpload == UploadInv /\ Close => UploadInv'
  <1> SUFFICES ASSUME UploadInv, Close PROVE UploadInv'
    OBVIOUS
  <1>1. PICK at : Onward(at)
    BY DEF UploadInv
  <1>2. Onward(at)'
    BY <1>1 DEF Onward, Close, Held
  <1>3. Columns'
    BY DEF Columns, Close, UploadInv
  <1> QED
    BY <1>2, <1>3, WholeNothing DEF UploadInv, Close, WholePushes

LEMMA IdleUpload == UploadInv /\ UNCHANGED vars => UploadInv'
  <1> SUFFICES ASSUME UploadInv, UNCHANGED vars PROVE UploadInv'
    OBVIOUS
  <1>1. PICK at : Onward(at)
    BY DEF UploadInv
  <1>2. Onward(at)'
    BY <1>1 DEF Onward, vars, Held
  <1>3. Columns'
    BY DEF Columns, vars, UploadInv
  <1> QED
    BY <1>2, <1>3 DEF UploadInv, vars, WholePushes

\* The piece received follows the chunk of the first file that lacks
\* something; the row, the copy in fmap and the disk advance together.
LEMMA ReceiveUpload == UploadInv /\ Receive => UploadInv'
  <1> SUFFICES ASSUME UploadInv, Receive PROVE UploadInv'
    OBVIOUS
  <1>1. PICK at : Onward(at)
    BY DEF UploadInv
  <1>2. Held(done, row, length, at) /\ Reached(at, length)
    BY <1>1 DEF Onward, Held
  <1>3. pushes \in Seq(Seq(Piece)) /\ pushes # <<>> /\ WholePushes(pushes)
    BY DEF UploadInv, Receive
  <1>4. PICK e \in Piece : e = Head(Head(pushes))
    BY <1>3, RestFacts
  <1>5. pushes' = Without(pushes)
    BY DEF Receive, Rest, Without
  <1>6. /\ pushes' \in Seq(Seq(Piece)) /\ WholePushes(pushes')
        /\ Stream(Concat(pushes)) = BytesOf(e) \o Stream(Concat(pushes'))
    BY <1>3, <1>4, <1>5, RestFacts
  <1>7. PICK tail \in Seq(Places) : tail = Stream(Concat(pushes'))
    <2>1. Concat(pushes') \in Seq(Piece)
      BY <1>6, ConcatType
    <2> QED
      BY <2>1, PieceLists, MapBytes
  <1>8. e \in Span
    BY PieceFacts
  <1>9. PICK f \in Files, k \in Nat, b \in Nat : f = e.name /\ k = e.offset /\ b = e.len /\ b > 0
    BY <1>8 DEF Span
  <1>10. PICK to : to = [at EXCEPT ![e.name] = @ + e.len]
    OBVIOUS
  <1>11. /\ e.offset = at[e.name] /\ at[e.name] + e.len <= length[e.name]
         /\ Reached(to, length) /\ tail = Concat(Remaining(to, length))
    <2>1. BytesOf(e) \o tail = Concat(Remaining(at, length))
      BY <1>1, <1>3, <1>6, <1>7 DEF Onward
    <2> QED
      BY <1>2, <1>7, <1>8, <1>10, <2>1, Advance, ZenonT(30)
  <1>12. PICK t \in Nat : t = length[f]
    BY LengthFacts DEF UploadInv, Columns
  <1>13. at[f] = k /\ k + b <= t
    BY <1>9, <1>11, <1>12
  <1>14. to[f] = k + b /\ \A n \in Files : n # f => to[n] = at[n]
    <2>1. at \in [Files -> Nat]
      BY <1>2 DEF Reached
    <2> QED
      BY <1>9, <1>10, <1>13, <2>1
  <1>15. ~done[f] /\ row[f] = Prefix(k) /\ cache[f] = Prefix(k)
    <2>1. k # t
      BY <1>9, <1>12, <1>13
    <2>2. ~done[f] /\ row[f] = Prefix(k)
      BY <1>2, <1>12, <1>13, <2>1 DEF Held
    <2> QED
      BY <1>1, <1>3, <2>2 DEF Onward
  <1>16. PICK chunks : chunks = <<Chunk(0, k + b)>>
    OBVIOUS
  <1>17. insertIntoChunks(cache[e.name], e.offset, e.len) = chunks
    <2>1. b \in Nat \ {0} /\ k \in Nat
      BY <1>9
    <2>2. insertIntoChunks(Prefix(k), k, b) = chunks
      BY <1>16, <2>1, InsertFacts
    <2> QED
      BY <1>9, <1>15, <2>2
  <1>18. IsFull(chunks, length[e.name]) <=> k + b = t
    <2>1. chunks[1].len = k + b /\ <<Chunk(0, t)>>[1].len = t
      BY <1>16 DEF Chunk
    <2>2. IsFull(chunks, length[e.name]) <=> chunks = <<Chunk(0, t)>>
      BY <1>9, <1>12 DEF IsFull
    <2> QED
      BY <1>16, <2>1, <2>2
  <1>19. chunks = Prefix(k + b)
    BY <1>9, <1>16 DEF Prefix
  <1>20. /\ disk' = [disk EXCEPT ![f] = @ \cup (k .. (k + b - 1))]
         /\ length' = length
         /\ IF k + b = t
            THEN /\ done' = [done EXCEPT ![f] = TRUE]
                 /\ row' = [row EXCEPT ![f] = <<>>] /\ cache' = cache
            ELSE /\ row' = [row EXCEPT ![f] = chunks]
                 /\ cache' = [cache EXCEPT ![f] = chunks] /\ done' = done
    BY <1>4, <1>9, <1>17, <1>18 DEF Receive
  <1>21. /\ done \in [Files -> BOOLEAN]
         /\ row = [n \in Files |-> row[n]] /\ cache = [n \in Files |-> cache[n]]
         /\ disk = [n \in Files |-> disk[n]] /\ length \in [Files -> 1..MaxLen]
    BY DEF UploadInv, Columns
  <1>22. Columns'
    BY <1>20, <1>21 DEF Columns
  <1>23. \A n \in Files : disk'[n] = 0 .. to[n] - 1
    <2>1. \A n \in Files : disk[n] = 0 .. at[n] - 1
      BY <1>1 DEF Onward
    <2>2. disk'[f] = (0 .. k - 1) \cup (k .. (k + b - 1))
      BY <1>13, <1>20, <1>21, <2>1
    <2>3. (0 .. k - 1) \cup (k .. (k + b - 1)) = 0 .. k + b - 1
      BY <1>9
    <2>4. \A n \in Files : n # f => disk'[n] = disk[n]
      BY <1>20, <1>21
    <2>5. disk'[f] = 0 .. to[f] - 1
      BY <1>14, <2>2, <2>3
    <2>6. \A n \in Files : n # f => disk'[n] = 0 .. to[n] - 1
      BY <1>14, <2>1, <2>4
    <2> QED
      BY <2>5, <2>6
  <1>24. /\ \A n \in Files : n # f => done'[n] = done[n] /\ row'[n] = row[n] /\ cache'[n] = cache[n]
         /\ IF k + b = t THEN done'[f]
            ELSE ~done'[f] /\ row'[f] = chunks /\ cache'[f] = chunks
    <2>1. CASE k + b = t
      BY <1>20, <1>21, <2>1
    <2>2. CASE k + b # t
      BY <1>15, <1>20, <1>21, <2>2
    <2> QED
      BY <2>1, <2>2
  <1>25. Held(done', row', length', to)
    <2>1. ASSUME NEW n \in Files
          PROVE  IF done'[n] THEN to[n] = length[n]
                 ELSE to[n] < length[n] /\ row'[n] = Prefix(to[n])
      <3>1. CASE n = f
        <4>1. CASE k + b = t
          BY <1>12, <1>14, <1>24, <3>1, <4>1
        <4>2. CASE k + b # t
          <5>1. k + b < t
            BY <1>9, <1>12, <1>13, <4>2
          <5> QED
            BY <1>12, <1>14, <1>19, <1>24, <3>1, <4>2, <5>1
        <4> QED
          BY <4>1, <4>2
      <3>2. CASE n # f
        BY <1>2, <1>14, <1>24, <3>2 DEF Held
      <3> QED
        BY <3>1, <3>2
    <2> QED
      BY <1>11, <1>20, <2>1 DEF Held
  <1>26. \A n \in Files : ~done'[n] => cache'[n] = row'[n]
    <2>1. \A n \in Files : ~done[n] => cache[n] = row[n]
      BY <1>1, <1>3 DEF Onward
    <2> QED
      BY <1>24, <2>1
  <1>27. Onward(to)'
    <2>1. Held(done, row, length, to)'
      BY <1>25 DEF Held
    <2>2. Stream(Concat(pushes')) = Concat(Remaining(to, length'))
      BY <1>7, <1>11, <1>20
    <2> QED
      BY <1>23, <1>26, <2>1, <2>2 DEF Onward
  <1>28. WholePushes(pushes)'
    BY <1>6 DEF WholePushes
  <1> QED
    BY <1>6, <1>22, <1>27, <1>28 DEF UploadInv

LEMMA UploadInvAlways == Spec => []UploadInv
  <1>1. UploadInv /\ [Next]_vars => UploadInv'
    BY SyncUpload, ReceiveUpload, CloseUpload, IdleUpload DEF Next
  <1> QED
    BY InitUpload, <1>1, PTL DEF Spec

-----------------------------------------------------------------------------
(* The properties *)

\* What the invariant says of a row and its file.
LEMMA UploadInvPrefix == UploadInv => ChunksArePrefix /\ DoneIffOnDisk
  <1> SUFFICES ASSUME UploadInv PROVE ChunksArePrefix /\ DoneIffOnDisk
    OBVIOUS
  <1>1. PICK at : Onward(at)
    BY DEF UploadInv
  <1>2. ASSUME NEW n \in Files
        PROVE  /\ ~done[n] =>
                     \/ row[n] = <<>> /\ disk[n] = {}
                     \/ \E k \in 1 .. length[n] - 1 :
                            row[n] = <<Chunk(0, k)>> /\ disk[n] = 0 .. k - 1
               /\ done[n] <=> disk[n] = 0 .. length[n] - 1
    <2>1. PICK k \in Nat, t \in Nat : k = at[n] /\ t = length[n] /\ k <= t
      BY <1>1 DEF Onward, Held, Reached
    <2>2. disk[n] = 0 .. k - 1
      BY <1>1, <2>1 DEF Onward
    <2>3. CASE done[n]
      <3>1. k = t
        BY <1>1, <2>1, <2>3 DEF Onward, Held
      <3> QED
        BY <2>1, <2>2, <2>3, <3>1
    <2>4. CASE ~done[n]
      <3>1. k < t /\ row[n] = Prefix(k)
        BY <1>1, <2>1, <2>4 DEF Onward, Held
      <3>2. t - 1 \in 0 .. t - 1 /\ t - 1 \notin 0 .. k - 1
        BY <2>1, <3>1
      <3>3. disk[n] # 0 .. length[n] - 1
        BY <2>1, <2>2, <3>2
      <3>4. CASE k = 0
        <4>1. row[n] = <<>>
          BY <3>1, <3>4 DEF Prefix
        <4>2. disk[n] = {}
          BY <2>2, <3>4
        <4> QED
          BY <2>4, <3>3, <4>1, <4>2
      <3>5. CASE k # 0
        <4>1. k \in 1 .. length[n] - 1
          BY <2>1, <3>1, <3>5
        <4>2. row[n] = <<Chunk(0, k)>>
          BY <3>1, <3>5 DEF Prefix
        <4> QED
          BY <2>2, <2>4, <3>3, <4>1, <4>2
      <3> QED
        BY <3>4, <3>5
    <2> QED
      BY <2>3, <2>4
  <1> QED
    BY <1>2 DEF ChunksArePrefix, DoneIffOnDisk

\* What it says of the Pushes, and of chunkify.
LEMMA UploadInvMissing == UploadInv => PushesAreMissing /\ ChunkifyAgrees
  <1> SUFFICES ASSUME UploadInv PROVE PushesAreMissing /\ ChunkifyAgrees
    OBVIOUS
  <1>1. PICK at : Onward(at)
    BY DEF UploadInv
  <1>2. Pull \in Seq(Span) /\ Stream(Pull) = Concat(Remaining(at, length))
    BY <1>1, PullIs, PullFacts DEF Onward
  <1>3. PushesAreMissing
    BY <1>1, <1>2 DEF PushesAreMissing, Onward, UploadInv, WholePushes
  <1>4. Stream(Concat(chunkify(Pull))) = Stream(Pull) /\ WholePushes(chunkify(Pull))
    BY <1>2, ChunkifyFacts
  <1>5. \A push \in Elements(chunkify(Pull)) :
           push # <<>> /\ TotalLen(push) <= MaxPushBytes
    BY <1>4 DEF WholePushes, Elements
  <1> QED
    BY <1>3, <1>4, <1>5 DEF ChunkifyAgrees

\* The chunks in the database are at most one, from the start of the file to
\* what is on disk, whenever a connection is cut: what the next Pull of
\* receiver() is computed from is the state of the store.
THEOREM ChunksArePrefixAlways == Spec => []ChunksArePrefix
  <1>1. UploadInv => ChunksArePrefix
    BY UploadInvPrefix
  <1> QED
    BY UploadInvAlways, <1>1, PTL

\* insertIntoChunks reports a full file, and completeFile marks the row, when
\* and only when every byte of the file is on disk.
THEOREM DoneIffOnDiskAlways == Spec => []DoneIffOnDisk
  <1>1. UploadInv => DoneIffOnDisk
    BY UploadInvPrefix
  <1> QED
    BY UploadInvAlways, <1>1, PTL

\* After every piece, what is still on the way is what the files still lack,
\* each byte once and in order, in Pushes within the limit.
THEOREM PushesAreMissingAlways == Spec => []PushesAreMissing
  <1>1. UploadInv => PushesAreMissing
    BY UploadInvMissing
  <1> QED
    BY UploadInvAlways, <1>1, PTL

\* chunkify of the server sends the bytes a Pull asks for, whatever the
\* lengths and the limit, in Pushes that are neither empty nor over it.
THEOREM ChunkifyAgreesAlways == Spec => []ChunkifyAgrees
  <1>1. UploadInv => ChunkifyAgrees
    BY UploadInvMissing
  <1> QED
    BY UploadInvAlways, <1>1, PTL
=============================================================================
