---------------------------- MODULE ClientThreads ----------------------------
(***************************************************************************)
(* The two threads of a bound client, ReceiverThread (R) and SenderThread  *)
(* (S): each makes a tunnel, syncs over it and begins again five seconds   *)
(* later, for ever.  S waits in every sync for a signal R emits in one of  *)
(* its own, which the main thread delivers.                                *)
(*                                                                         *)
(* A tunnel is a file descriptor, the lowest free number, held by a Sender *)
(* or Receiver whose destructor closes it when the next one is made.       *)
(* Modules Download and Receiver have what the syncs do.  Starting, ending *)
(* and terminating the threads are left out, and a server that is down.    *)
(***************************************************************************)
EXTENDS Integers

CONSTANTS
    Fds,          \* descriptor numbers
    MaxPosted,    \* bound on the signals the main thread has not delivered
    MaxTimeouts,  \* bound on the times the server is slow to answer
    MaxBreaks     \* bound on the connections the server closes

ASSUME FdsAssumption == Fds = 1..4
ASSUME BoundsAssumption ==
    MaxPosted \in Nat /\ MaxTimeouts \in Nat /\ MaxBreaks \in Nat

VARIABLES
    conn,         \* what a descriptor is open for
    rpc, rfd,     \* R: its next step, the descriptor of its Receiver
    spc, sfd,     \* S: its next step, the descriptor of its Sender
    rnew, snew,   \* descriptors opened by makeReceiver, makeSender
    ready,        \* SenderThread::ready
    posted,       \* writeReady signals in the queue of the main thread
    passed,       \* history: R has been through a DirInfo
    faults,       \* history: what a thread does not recover from
    timeouts, breaks

receiverVars == <<rpc, rfd, rnew>>
senderVars == <<spc, sfd, snew>>
boundVars == <<timeouts, breaks>>
threadsVars == <<conn, receiverVars, senderVars, ready, posted, passed, faults,
                 boundVars>>

(* A tunnel of R, by what the server does or has sent: it lists the files,
   the DirInfo is there, it waits for a Pull, pushes, "done" is there, "done"
   was dropped.  A tunnel of S: it reads the Tunnel request, waits for the
   DirInfo, chooses files, the Pull is there, it receives; deaf waits for a
   DirInfo that was dropped.  closed is closed by the server.              *)
RConns == {"listing", "dirinfo", "asking", "pushing", "done", "served"}
SConns == {"greeting", "expecting", "choosing", "pull", "receiving", "deaf"}

ThreadsTypeOK ==
    /\ conn \in [Fds -> RConns \cup SConns \cup {"free", "closed"}]
    /\ rpc \in {"open", "swap", "dirinfo", "pass", "ask", "push", "sleep", "spin"}
    /\ spc \in {"clear", "open", "swap", "ready", "scan", "pull", "push", "sleep"}
    /\ {rfd, sfd, rnew, snew} \subseteq Fds \cup {0}
    /\ ready \in BOOLEAN /\ passed \in BOOLEAN
    /\ posted \in 0..MaxPosted
    /\ faults \subseteq {"done", "spin", "closed", "lost"}
    /\ timeouts \in 0..MaxTimeouts /\ breaks \in 0..MaxBreaks

\* ready has no initial value.
ThreadsInit ==
    /\ conn = [x \in Fds |-> "free"]
    /\ rpc = "open" /\ rfd = 0 /\ rnew = 0
    /\ spc = "clear" /\ sfd = 0 /\ snew = 0
    /\ ready \in BOOLEAN
    /\ posted = 0 /\ passed = FALSE /\ faults = {}
    /\ timeouts = 0 /\ breaks = 0

-----------------------------------------------------------------------------
(* Descriptors *)

Free == {x \in Fds : conn[x] = "free"}
Lowest == CHOOSE x \in Free : \A y \in Free : x <= y

\* tclose of a descriptor that is not open does nothing, and of one that was
\* opened again since, closes that.
Closed(c, x) == IF x = 0 THEN c ELSE [c EXCEPT ![x] = "free"]

\* A message the server does not expect makes it close the connection.
Sent(x, from, to) ==
    IF x = 0 \/ conn[x] = "free" THEN conn
    ELSE [conn EXCEPT ![x] = IF @ = from THEN to ELSE "closed"]

\* A wait takes whatever message has come, and returns an error for another
\* type than it expects.
Taken(x) ==
    [conn EXCEPT ![x] = CASE @ = "dirinfo" -> "asking" [] @ = "pull" -> "receiving"
                          [] @ = "done" -> "served" [] OTHER -> @]

-----------------------------------------------------------------------------
(* ReceiverThread *)

ROnly == UNCHANGED <<senderVars, ready, breaks>>

\* makeReceiver: connectto, and the Tunnel request.
ROpen ==
    /\ rpc = "open" /\ Free # {}
    /\ rnew' = Lowest
    /\ conn' = [conn EXCEPT ![Lowest] = "listing"]
    /\ rpc' = "swap"
    /\ UNCHANGED <<rfd, posted, passed, faults, timeouts>> /\ ROnly

\* The new Receiver takes the place of the old one, whose destructor closes
\* its descriptor, and is given its own only then.
RSwap ==
    /\ rpc = "swap"
    /\ conn' = Closed(conn, rfd)
    /\ rfd' = rnew /\ rnew' = 0
    /\ rpc' = "dirinfo"
    /\ UNCHANGED <<posted, passed, faults, timeouts>> /\ ROnly

RDirInfo ==
    /\ rpc = "dirinfo" /\ conn[rfd] = "dirinfo"
    /\ conn' = Taken(rfd)
    /\ rpc' = "pass"
    /\ UNCHANGED <<rfd, rnew, posted, passed, faults, timeouts>> /\ ROnly

\* A server that is at work may be slow.
Slow(c) == timeouts' = timeouts + 1 /\ timeouts < MaxTimeouts /\ conn[rfd] = c
NotSlow(c) == conn[rfd] # c /\ UNCHANGED timeouts

\* A slip: waitDirInfo is called again on the same connection.
RNoDirInfoSame ==
    /\ rpc = "dirinfo" /\ conn[rfd] # "dirinfo"
    /\ Slow("listing") \/ NotSlow("listing")
    /\ conn' = Taken(rfd)
    /\ UNCHANGED <<receiverVars, posted, passed, faults>> /\ ROnly

\* waitDirInfo fails (a timeout, a closed connection or descriptor, another
\* message): a new tunnel.
RNoDirInfo ==
    /\ rpc = "dirinfo" /\ conn[rfd] # "dirinfo"
    /\ Slow("listing") \/ NotSlow("listing")
    /\ conn' = Taken(rfd)
    /\ rpc' = "open"
    /\ UNCHANGED <<rfd, rnew, posted, passed, faults>> /\ ROnly

\* A slip: in the first sync only.
RPassFirst ==
    /\ rpc = "pass" /\ posted < MaxPosted
    /\ posted' = IF passed THEN posted ELSE posted + 1
    /\ passed' = TRUE
    /\ rpc' = "ask"
    /\ UNCHANGED <<conn, rfd, rnew, faults, timeouts>> /\ ROnly

\* The loop over dirinfo; emit writeReady().
RPass ==
    /\ rpc = "pass" /\ posted < MaxPosted
    /\ posted' = posted + 1
    /\ passed' = TRUE
    /\ rpc' = "ask"
    /\ UNCHANGED <<conn, rfd, rnew, faults, timeouts>> /\ ROnly

\* sendPull; without anything to pull the sync is over.
RAsk ==
    /\ rpc = "ask"
    /\ conn' = Sent(rfd, "asking", "pushing")
    /\ rpc' \in {"push", "sleep"}
    /\ UNCHANGED <<rfd, rnew, posted, passed, faults, timeouts>> /\ ROnly

\* "done": waitPush closes the descriptor, and the Receiver keeps it.
RDone ==
    /\ rpc = "push" /\ conn[rfd] = "done"
    /\ conn' = Closed(conn, rfd)
    /\ faults' = faults \cup {"done"}
    /\ rpc' = "sleep"
    /\ UNCHANGED <<rfd, rnew, posted, passed, timeouts>> /\ ROnly

\* "done" came behind a Push that fits in the buffer, and is dropped with it.
RDoneDropped ==
    /\ rpc = "push" /\ conn[rfd] = "done"
    /\ conn' = Taken(rfd)
    /\ UNCHANGED <<receiverVars, posted, passed, faults, timeouts>> /\ ROnly

\* A slip: the descriptor is closed after any error.
RPushEndsClosing ==
    /\ rpc = "push" /\ conn[rfd] # "done"
    /\ Slow("pushing") \/ NotSlow("pushing")
    /\ conn' = Closed(conn, rfd)
    /\ rpc' = "sleep"
    /\ UNCHANGED <<rfd, rnew, posted, passed, faults>> /\ ROnly

\* waitPush fails otherwise: the sync is over.
RPushEnds ==
    /\ rpc = "push" /\ conn[rfd] # "done"
    /\ Slow("pushing") \/ NotSlow("pushing")
    /\ conn' = Taken(rfd)
    /\ rpc' = "sleep"
    /\ UNCHANGED <<rfd, rnew, posted, passed, faults>> /\ ROnly

RSleep ==
    /\ rpc = "sleep"
    /\ rpc' = "open"
    /\ UNCHANGED <<conn, rfd, rnew, posted, passed, faults, timeouts>> /\ ROnly

-----------------------------------------------------------------------------
(* SenderThread *)

SOnly == UNCHANGED <<receiverVars, posted, passed, boundVars>>

SClear ==
    /\ spc = "clear"
    /\ ready' = FALSE
    /\ spc' = "open"
    /\ UNCHANGED <<conn, sfd, snew, faults>> /\ SOnly

SOpen ==
    /\ spc = "open" /\ Free # {}
    /\ snew' = Lowest
    /\ conn' = [conn EXCEPT ![Lowest] = "greeting"]
    /\ spc' = "swap"
    /\ UNCHANGED <<sfd, ready, faults>> /\ SOnly

SSwap ==
    /\ spc = "swap"
    /\ conn' = Closed(conn, sfd)
    /\ sfd' = snew /\ snew' = 0
    /\ spc' = "ready"
    /\ UNCHANGED <<ready, faults>> /\ SOnly

\* A slip: the scan does not wait.
SReadyAlways ==
    /\ spc = "ready"
    /\ spc' = "scan"
    /\ UNCHANGED <<conn, sfd, snew, ready, faults>> /\ SOnly

SReady ==
    /\ spc = "ready" /\ ready
    /\ spc' = "scan"
    /\ UNCHANGED <<conn, sfd, snew, ready, faults>> /\ SOnly

\* A slip: no DirInfo for a folder without changes.
SSendChanges ==
    /\ spc = "scan" /\ conn[sfd] # "greeting"
    /\ conn' \in {conn, Sent(sfd, "expecting", "choosing")}
    /\ spc' = "pull"
    /\ UNCHANGED <<sfd, snew, ready, faults>> /\ SOnly

\* The scan, and sendDirInfo, whose result nobody looks at.
SSend ==
    /\ spc = "scan" /\ conn[sfd] # "greeting"
    /\ conn' = Sent(sfd, "expecting", "choosing")
    /\ spc' = "pull"
    /\ UNCHANGED <<sfd, snew, ready, faults>> /\ SOnly

\* The server reads the DirInfo with the Tunnel request and drops it.
SSendLost ==
    /\ spc = "scan" /\ conn[sfd] = "greeting"
    /\ conn' = [conn EXCEPT ![sfd] = "deaf"]
    /\ faults' = faults \cup {"lost"}
    /\ spc' = "pull"
    /\ UNCHANGED <<sfd, snew, ready>> /\ SOnly

SPull ==
    /\ spc = "pull" /\ conn[sfd] = "pull"
    /\ conn' = Taken(sfd)
    /\ spc' = "push"
    /\ UNCHANGED <<sfd, snew, ready, faults>> /\ SOnly

\* waitPull fails and is called again, whatever the reason.
SNoPull ==
    /\ spc = "pull" /\ conn[sfd] # "pull"
    /\ conn' = Taken(sfd)
    /\ UNCHANGED <<senderVars, ready, faults>> /\ SOnly

SPush ==
    /\ spc = "push"
    /\ spc' = "sleep"
    /\ UNCHANGED <<conn, sfd, snew, ready, faults>> /\ SOnly

SSleep ==
    /\ spc = "sleep"
    /\ spc' = "clear"
    /\ UNCHANGED <<conn, sfd, snew, ready, faults>> /\ SOnly

-----------------------------------------------------------------------------
(* The main thread, and the server's processes *)

setReady ==
    /\ posted > 0
    /\ posted' = posted - 1
    /\ ready' = TRUE
    /\ UNCHANGED <<conn, receiverVars, senderVars, passed, faults, boundVars>>

ServerWorks(x) ==
    /\ conn[x] \in {"listing", "pushing", "greeting", "choosing"}
    /\ conn' = [conn EXCEPT ![x] = CASE @ = "listing" -> "dirinfo"
                                     [] @ = "pushing" -> "done"
                                     [] @ = "greeting" -> "expecting"
                                     [] @ = "choosing" -> "pull"]
    /\ UNCHANGED <<receiverVars, senderVars, ready, posted, passed, faults, boundVars>>

\* Between two messages: S does not get over it before it has its Pull.
ServerCloses(x) ==
    /\ conn[x] \notin {"free", "closed"}
    /\ breaks < MaxBreaks /\ breaks' = breaks + 1
    /\ conn' = [conn EXCEPT ![x] = "closed"]
    /\ faults' = IF conn[x] \in SConns \ {"receiving"} THEN faults \cup {"closed"}
                 ELSE faults
    /\ UNCHANGED <<receiverVars, senderVars, ready, posted, passed, timeouts>>

\* Inside the data of a Push: readn of R calls recv for ever.
ServerClosesInside ==
    /\ rpc = "push" /\ conn[rfd] = "pushing"
    /\ breaks < MaxBreaks /\ breaks' = breaks + 1
    /\ conn' = [conn EXCEPT ![rfd] = "closed"]
    /\ faults' = faults \cup {"spin"}
    /\ rpc' = "spin"
    /\ UNCHANGED <<rfd, rnew, senderVars, ready, posted, passed, timeouts>>

-----------------------------------------------------------------------------
RStep == \/ ROpen \/ RSwap \/ RDirInfo \/ RNoDirInfo \/ RPass \/ RAsk
         \/ RDone \/ RDoneDropped \/ RPushEnds \/ RSleep
SStep == \/ SClear \/ SOpen \/ SSwap \/ SReady \/ SSend \/ SSendLost
         \/ SPull \/ SNoPull \/ SPush \/ SSleep

ThreadsNext ==
    \/ RStep \/ SStep \/ setReady
    \/ \E x \in Fds : ServerWorks(x) \/ ServerCloses(x)
    \/ ServerClosesInside

\* Threads and the main thread's event loop run, and a server process that
\* does not wait for the client goes on.
ThreadsSpec ==
    /\ ThreadsInit /\ [][ThreadsNext]_threadsVars
    /\ WF_threadsVars(RStep) /\ WF_threadsVars(SStep) /\ WF_threadsVars(setReady)
    /\ \A x \in Fds : WF_threadsVars(ServerWorks(x))

-----------------------------------------------------------------------------
(* Properties *)

\* A folder is not scanned before R has been through a DirInfo once: the files
\* it moved aside or marked as downloads are then not announced as they were.
ScansAfterPass == spc \in {"scan", "pull", "push"} => passed

\* Every descriptor that is open belongs to the Receiver, the Sender, or one
\* that is being made.
NoDescriptorLeaks == \A x \in Fds : conn[x] # "free" => x \in {rfd, sfd, rnew, snew}

\* Unless R read a "done", no thread reads from, writes to or closes the
\* connection of the other.
OwnConnections ==
    "done" \notin faults =>
        /\ rfd # 0 => conn[rfd] \in RConns \cup {"closed"}
        /\ sfd # 0 => conn[sfd] \in SConns \cup {"closed"}
        /\ sfd # 0 => sfd # rfd

\* What makes the above inductive: who holds which descriptor, step by step.
Holders ==
    /\ rnew # 0 <=> rpc = "swap"
    /\ snew # 0 <=> spc = "swap"
    /\ rpc \notin {"open", "swap"} => rfd # 0
    /\ spc \notin {"clear", "open", "swap"} => sfd # 0

Apart ==
    "done" \notin faults =>
        /\ \A x \in {rfd, rnew} \ {0} : conn[x] \in RConns \cup {"closed"}
        /\ \A x \in {sfd, snew} \ {0} : conn[x] \in SConns \cup {"closed"}
        /\ {rfd, rnew} \cap {sfd, snew} \subseteq {0}
        /\ rfd = rnew => rfd = 0
        /\ sfd = snew => sfd = 0

Signals ==
    /\ posted > 0 => passed
    /\ ready /\ spc # "clear" => passed

ThreadsInv ==
    /\ ThreadsTypeOK /\ Holders /\ NoDescriptorLeaks /\ Apart
    /\ Signals /\ ScansAfterPass

\* Timeouts and closed connections do not end the syncs of R.
ReceiverKeepsSyncing ==
    [](faults \cap {"done", "spin"} = {}) => []<>(rpc = "pass")

\* A signal may come before S clears ready and be lost; while R syncs,
\* another one comes.
SignalArrives == []<>(rpc = "pass") => (spc = "ready" ~> spc = "scan")

\* Nothing but these faults ends the syncs of S.
SenderKeepsSyncing == [](faults = {}) => []<>(spc = "sleep")

\* "每5s执行一次" (design, pages 7 and 8): both threads sync again and again.
ThreadsSync == []<>(rpc = "pass") /\ []<>(spc = "sleep")

=============================================================================
