------------------------- MODULE ClientThreadsProofs -------------------------
(***************************************************************************)
(* The safety properties of ClientThreads, for every number of signals,    *)
(* timeouts and broken connections.  ThreadsInv is inductive: it says      *)
(* which descriptors the two threads hold at each of their steps, and that *)
(* those of one thread are never those of the other before R reads "done". *)
(***************************************************************************)
EXTENDS ClientThreads, TLAPS

USE FdsAssumption, BoundsAssumption

\* makeReceiver and makeSender take a descriptor that was free.
LEMMA LowestIsFree ==
    ASSUME Free # {}
    PROVE  Lowest \in Fds /\ conn[Lowest] = "free"
<1>1. \E x \in Free : \A y \in Free : x <= y
  <2>1. Free \subseteq {1, 2, 3, 4}
    BY DEF Free
  <2>2. \E x \in Free : \A y \in Free : x <= y
    <3> DEFINE Least(x) == x \in Free /\ \A y \in Free : x <= y
    <3>1. CASE 1 \in Free
      <4> Least(1) BY <2>1, <3>1
      <4> QED OBVIOUS
    <3>2. CASE 1 \notin Free /\ 2 \in Free
      <4> Least(2) BY <2>1, <3>2
      <4> QED OBVIOUS
    <3>3. CASE 1 \notin Free /\ 2 \notin Free /\ 3 \in Free
      <4> Least(3) BY <2>1, <3>3
      <4> QED OBVIOUS
    <3>4. CASE 1 \notin Free /\ 2 \notin Free /\ 3 \notin Free
      <4>1. PICK x \in Free : TRUE OBVIOUS
      <4>2. x = 4 BY <2>1, <3>4, <4>1
      <4> Least(4) BY <2>1, <3>4, <4>1, <4>2
      <4> QED OBVIOUS
    <3> QED BY <3>1, <3>2, <3>3, <3>4
  <2> QED BY <2>2
<1>2. Lowest \in Free
  BY <1>1 DEF Lowest
<1> QED BY <1>2 DEF Free

LEMMA InitInv == ThreadsInit => ThreadsInv
<1> SUFFICES ASSUME ThreadsInit PROVE ThreadsInv
  OBVIOUS
<1> USE DEF ThreadsInit
<1>1. ThreadsTypeOK
  <2>1. conn \in [Fds -> RConns \cup SConns \cup {"free", "closed"}]
    OBVIOUS
  <2>2. {rfd, sfd, rnew, snew} \subseteq Fds \cup {0}
    OBVIOUS
  <2>3. posted \in 0..MaxPosted /\ timeouts \in 0..MaxTimeouts /\ breaks \in 0..MaxBreaks
    OBVIOUS
  <2> QED BY <2>1, <2>2, <2>3 DEF ThreadsTypeOK
<1>2. NoDescriptorLeaks BY DEF NoDescriptorLeaks
<1>3. Apart BY DEF Apart
<1>4. Holders /\ Signals /\ ScansAfterPass BY DEF Holders, Signals, ScansAfterPass
<1> QED BY <1>1, <1>2, <1>3, <1>4 DEF ThreadsInv

-----------------------------------------------------------------------------
(* The steps *)

LEMMA StepInv == ThreadsInv /\ [ThreadsNext]_threadsVars => ThreadsInv'
<1> SUFFICES ASSUME ThreadsInv, [ThreadsNext]_threadsVars
             PROVE  ThreadsInv'
  OBVIOUS
<1> USE DEF ThreadsInv, ThreadsTypeOK, Holders, NoDescriptorLeaks, Apart,
            Signals, ScansAfterPass, RConns, SConns, ROnly, SOnly,
            receiverVars, senderVars, boundVars
<1>1. CASE ROpen BY <1>1, LowestIsFree DEF ROpen
<1>2. CASE RSwap BY <1>2, ZenonT(60) DEF RSwap, Closed
<1>3. CASE RDirInfo BY <1>3 DEF RDirInfo, Taken
<1>4. CASE RNoDirInfo BY <1>4 DEF RNoDirInfo, Taken, Slow, NotSlow
<1>5. CASE RPass BY <1>5 DEF RPass
<1>6. CASE RAsk BY <1>6 DEF RAsk, Sent
<1>7. CASE RDone BY <1>7 DEF RDone, Closed
<1>8. CASE RDoneDropped BY <1>8 DEF RDoneDropped, Taken
<1>9. CASE RPushEnds BY <1>9 DEF RPushEnds, Taken, Slow, NotSlow
<1>10. CASE RSleep BY <1>10 DEF RSleep
<1>11. CASE SClear BY <1>11 DEF SClear
<1>12. CASE SOpen BY <1>12, LowestIsFree DEF SOpen
<1>13. CASE SSwap BY <1>13, ZenonT(60) DEF SSwap, Closed
<1>14. CASE SReady BY <1>14 DEF SReady
<1>15. CASE SSend BY <1>15 DEF SSend, Sent
<1>16. CASE SSendLost BY <1>16 DEF SSendLost
<1>17. CASE SPull BY <1>17 DEF SPull, Taken
<1>18. CASE SNoPull BY <1>18 DEF SNoPull, Taken
<1>19. CASE SPush BY <1>19 DEF SPush
<1>20. CASE SSleep BY <1>20 DEF SSleep
<1>21. CASE setReady BY <1>21 DEF setReady
<1>22. ASSUME NEW x \in Fds, ServerWorks(x) PROVE ThreadsInv'
  BY <1>22 DEF ServerWorks
<1>23. ASSUME NEW x \in Fds, ServerCloses(x) PROVE ThreadsInv'
  BY <1>23 DEF ServerCloses
<1>24. CASE ServerClosesInside BY <1>24 DEF ServerClosesInside
<1>25. CASE UNCHANGED threadsVars BY <1>25 DEF threadsVars
<1> QED
  BY <1>1, <1>2, <1>3, <1>4, <1>5, <1>6, <1>7, <1>8, <1>9, <1>10, <1>11, <1>12,
     <1>13, <1>14, <1>15, <1>16, <1>17, <1>18, <1>19, <1>20, <1>21, <1>22,
     <1>23, <1>24, <1>25
  DEF ThreadsNext, RStep, SStep

-----------------------------------------------------------------------------
\* The invariant holds in every behaviour, with or without fairness.
THEOREM ThreadsInvariant == ThreadsSpec => []ThreadsInv
BY InitInv, StepInv, PTL DEF ThreadsSpec

\* The two threads never share a connection, leak no descriptor, and no scan
\* comes before the first DirInfo.
THEOREM ThreadsSafe ==
    ThreadsSpec => [](OwnConnections /\ NoDescriptorLeaks /\ ScansAfterPass)
<1>1. ThreadsInv => OwnConnections /\ NoDescriptorLeaks /\ ScansAfterPass
  BY DEF ThreadsInv, Apart, OwnConnections, ThreadsTypeOK
<1> QED BY <1>1, ThreadsInvariant, PTL

\* A scan, which may remove rows, follows a pass of ReceiverThread: the ready
\* flag is up only after one, and whoever scans has taken the flag.
THEOREM ScansAfterPassAlways == ThreadsSpec => []ScansAfterPass
<1>1. ThreadsInv => ScansAfterPass
  BY DEF ThreadsInv
<1> QED BY <1>1, ThreadsInvariant, PTL

=============================================================================
