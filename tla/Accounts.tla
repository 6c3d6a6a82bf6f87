------------------------------ MODULE Accounts ------------------------------
(***************************************************************************)
(* Login and signup: the login window of a client machine and login(),     *)
(* signup() of server.cpp, run by a process forked per connection, over    *)
(* tables user and client.  One action is one SQL statement or one message *)
(* with the local code around it.                                          *)
(*                                                                         *)
(* A session (a cid) is drawn by rand() after srand(time(NULL)) in the     *)
(* forked process: it is a function of the second the connection was made, *)
(* and stands for that second here.                                        *)
(***************************************************************************)
EXTENDS Integers, Sequences, FiniteSets

CONSTANTS
    Machines,     \* client machines
    Handlers,     \* server processes that may be running
    UserNames,    \* names users sign up with
    Passwords,    \* passwords users type
    Weak,         \* those signup refuses: shorter than 6 or not under 56
    MaxSeconds,   \* bound on the clock
    MaxPerSecond, \* bound on the connections made within a second
    MaxRequests,  \* bound on the requests of a behaviour
    Nobody        \* no process, no name

ASSUME WeakAssumption == Weak \subseteq Passwords
ASSUME CountAssumption ==
    MaxSeconds \in Nat \ {0} /\ MaxPerSecond \in Nat /\ MaxRequests \in Nat
ASSUME NobodyAssumption == Nobody \notin Handlers /\ Nobody \notin UserNames

VARIABLES
    user,         \* table user: a row's uid is its place
    client,       \* table client: the uid of a cid, 0 when there is no row
    proc,         \* the server processes
    link,         \* the process a machine is connected to, or Nobody
    window,       \* what a machine shows
    as,           \* the name of the last login sent
    saved,        \* the session in tmyuser.txt, 0 when empty
    names,        \* history: the names a machine has logged in with
    now,          \* time(NULL)
    accepted,     \* connections made within this second
    crowded,      \* history: the seconds in which more than one was made
    requests      \* requests sent so far

accountVars == <<user, client, proc, link, window, as, saved, names, now,
                 accepted, crowded, requests>>

Cids == 1..MaxSeconds

\* cid 0 is the empty session; uid 0 is what getUidByName makes of no row.
Process == [pc : {"idle", "request", "login", "session", "signup", "add",
                  "uid", "insert", "reply"},
            seed : 0..MaxSeconds, name : UserNames \cup {Nobody},
            pw : Passwords \cup {Nobody}, session : 0..MaxSeconds, uid : Nat,
            code : 0..3]

Idle == [pc |-> "idle", seed |-> 0, name |-> Nobody, pw |-> Nobody,
         session |-> 0, uid |-> 0, code |-> 0]

AccountsTypeOK ==
    /\ user \in Seq([name : UserNames, pw : Passwords])
    /\ client \in [Cids -> Nat]
    /\ proc \in [Handlers -> Process]
    /\ link \in [Machines -> Handlers \cup {Nobody}]
    /\ window \in [Machines -> {"start", "form", "logging", "signing", "main"}]
    /\ as \in [Machines -> UserNames \cup {Nobody}]
    /\ saved \in [Machines -> 0..MaxSeconds]
    /\ names \in [Machines -> SUBSET UserNames]
    /\ now \in Cids
    /\ accepted \in Nat
    /\ crowded \subseteq Cids
    /\ requests \in Nat

AccountsInit ==
    /\ user = <<>>
    /\ client = [c \in Cids |-> 0]
    /\ proc = [p \in Handlers |-> Idle]
    /\ link = [m \in Machines |-> Nobody]
    /\ window = [m \in Machines |-> "start"]
    /\ as = [m \in Machines |-> Nobody]
    /\ saved = [m \in Machines |-> 0]
    /\ names = [m \in Machines |-> {}]
    /\ now = 1
    /\ accepted = 0
    /\ crowded = {}
    /\ requests = 0

-----------------------------------------------------------------------------
(* The statements *)

\* The uids of the rows of a name.
RowsOf(t, n) == {u \in 1..Len(t) : t[u].name = n}

FirstOf(t, n) ==
    IF RowsOf(t, n) = {} THEN 0
    ELSE CHOOSE u \in RowsOf(t, n) : \A v \in RowsOf(t, n) : u <= v

\* A slip: the newest row of a name.
LastRow(n) ==
    IF RowsOf(user, n) = {} THEN 0
    ELSE CHOOSE u \in RowsOf(user, n) : \A v \in RowsOf(user, n) : v <= u

\* SELECT ... WHERE username finds the rows of the index on username by uid,
\* and the callers look at the first; 0 is atoi of the empty string.
FirstRow(n) == FirstOf(user, n)

\* A slip: sessions drawn in this second only.
getUidBySessionNow(s) ==
    IF s \in Cids /\ s = now /\ client[s] # 0 THEN client[s] ELSE -1

getUidBySession(s) == IF s \in Cids /\ client[s] # 0 THEN client[s] ELSE -1

createNewUser(n, w) == user' = Append(user, [name |-> n, pw |-> w])

\* A duplicate cid, or a uid that is not in table user, makes the INSERT fail;
\* no caller looks at the result.
createNewClient(u, c) ==
    client' = IF client[c] = 0 /\ u \in 1..Len(user)
              THEN [client EXCEPT ![c] = u] ELSE client

-----------------------------------------------------------------------------
(* The server process *)

PGoto(p, l) == proc' = [proc EXCEPT ![p].pc = l]
Answer(p, c, s) ==
    proc' = [proc EXCEPT ![p].pc = "reply", ![p].code = c, ![p].session = s]
ProcOnly == UNCHANGED <<link, window, as, saved, names, now, accepted, crowded,
                   requests>>

\* login(): the password is compared with the first row of the name.
CheckPassword(p) ==
    LET u == FirstRow(proc[p].name)
    IN  /\ proc[p].pc = "login"
        /\ IF u = 0 THEN Answer(p, 1, 0)
           ELSE IF user[u].pw # proc[p].pw THEN Answer(p, 2, 0)
           ELSE PGoto(p, "session")
        /\ UNCHANGED <<user, client>> /\ ProcOnly

\* A session that has a row is kept, whoever it belongs to.
CheckSession(p) ==
    /\ proc[p].pc = "session"
    /\ IF getUidBySession(proc[p].session) < 0 THEN PGoto(p, "uid")
       ELSE Answer(p, 0, proc[p].session)
    /\ UNCHANGED <<user, client>> /\ ProcOnly

\* signup(): the name is looked up, then the lengths are checked.
CheckName(p) ==
    /\ proc[p].pc = "signup"
    /\ IF FirstRow(proc[p].name) # 0 THEN Answer(p, 3, 0)
       ELSE IF proc[p].pw \in Weak THEN \E c \in {1, 2} : Answer(p, c, 0)
       ELSE PGoto(p, "add")
    /\ UNCHANGED <<user, client>> /\ ProcOnly

InsertUser(p) ==
    /\ proc[p].pc = "add"
    /\ createNewUser(proc[p].name, proc[p].pw)
    /\ PGoto(p, "uid")
    /\ UNCHANGED client /\ ProcOnly

\* A slip: the newest user, whose row this process may not have inserted.
FindUidNewest(p) ==
    /\ proc[p].pc = "uid"
    /\ proc' = [proc EXCEPT ![p].pc = "insert", ![p].uid = Len(user)]
    /\ UNCHANGED <<user, client>> /\ ProcOnly

\* newClient and newUser: getUidByName, which is never negative.
FindUid(p) ==
    /\ proc[p].pc = "uid"
    /\ proc' = [proc EXCEPT ![p].pc = "insert", ![p].uid = FirstRow(proc[p].name)]
    /\ UNCHANGED <<user, client>> /\ ProcOnly

\* A slip: the row takes another draw than the answer.
InsertClientLate(p) ==
    /\ proc[p].pc = "insert"
    /\ createNewClient(proc[p].uid, now)
    /\ Answer(p, 0, proc[p].seed)
    /\ UNCHANGED user /\ ProcOnly

InsertClient(p) ==
    /\ proc[p].pc = "insert"
    /\ createNewClient(proc[p].uid, proc[p].seed)
    /\ Answer(p, 0, proc[p].seed)
    /\ UNCHANGED user /\ ProcOnly

\* The process dies, or its answer finds no one.
Die(p) ==
    /\ proc[p].pc # "idle"
    /\ proc' = [proc EXCEPT ![p] = Idle]
    /\ link' = [m \in Machines |-> IF link[m] = p THEN Nobody ELSE link[m]]
    /\ UNCHANGED <<user, client, window, as, saved, names, now, accepted, crowded,
                   requests>>

-----------------------------------------------------------------------------
(* The client machine *)

\* A slip: rand() without srand().
ConnectUnseeded(m, p) ==
    /\ window[m] = "start"
    /\ proc[p].pc = "idle"
    /\ accepted < MaxPerSecond
    /\ accepted' = accepted + 1
    /\ crowded' = IF accepted = 0 THEN crowded ELSE crowded \cup {now}
    /\ proc' = [proc EXCEPT ![p].pc = "request", ![p].seed = 1]
    /\ link' = [link EXCEPT ![m] = p]
    /\ window' = [window EXCEPT ![m] = "form"]
    /\ UNCHANGED <<user, client, as, saved, names, now, requests>>

\* reconnect(): tmyuser.txt is read and a connection made; srand(time(NULL)).
Connect(m, p) ==
    /\ window[m] = "start"
    /\ proc[p].pc = "idle"
    /\ accepted < MaxPerSecond
    /\ accepted' = accepted + 1
    /\ crowded' = IF accepted = 0 THEN crowded ELSE crowded \cup {now}
    /\ proc' = [proc EXCEPT ![p].pc = "request", ![p].seed = now]
    /\ link' = [link EXCEPT ![m] = p]
    /\ window' = [window EXCEPT ![m] = "form"]
    /\ UNCHANGED <<user, client, as, saved, names, now, requests>>

\* The request goes nowhere when the process has died since.
Send(m, n, w, l, s) ==
    /\ window[m] = "form"
    /\ requests < MaxRequests
    /\ requests' = requests + 1
    /\ proc' = IF link[m] = Nobody THEN proc
               ELSE [proc EXCEPT ![link[m]] = [@ EXCEPT !.pc = l,
                        !.name = n, !.pw = w, !.session = s]]

SendLogin(m, n, w) ==
    /\ Send(m, n, w, "login", saved[m])
    /\ window' = [window EXCEPT ![m] = "logging"]
    /\ as' = [as EXCEPT ![m] = n]
    /\ names' = [names EXCEPT ![m] = @ \cup {n}]
    /\ UNCHANGED <<user, client, link, saved, now, accepted, crowded>>

\* Sent also when the dialog was closed without its checks.
SendSignup(m, n, w) ==
    /\ Send(m, n, w, "signup", 0)
    /\ window' = [window EXCEPT ![m] = "signing"]
    /\ UNCHANGED <<user, client, link, as, saved, names, now, accepted, crowded>>

Replied(m) == link[m] # Nobody /\ proc[link[m]].pc = "reply"

Hangup(m) ==
    /\ proc' = [proc EXCEPT ![link[m]] = Idle]
    /\ link' = [link EXCEPT ![m] = Nobody]

\* LoginRes with code 0: the session is saved and the main window opens.
LoggedIn(m) ==
    /\ window[m] = "logging" /\ Replied(m)
    /\ proc[link[m]].code = 0
    /\ saved' = [saved EXCEPT ![m] = proc[link[m]].session]
    /\ window' = [window EXCEPT ![m] = "main"]
    /\ Hangup(m)
    /\ UNCHANGED <<user, client, as, names, now, accepted, crowded,
                   requests>>

\* A refusal, and any SignupRes: reconnect() and the form again.  The session
\* of a SignupRes is kept by a Controller that reconnect() replaces, and not in
\* the file.
BackToForm(m) ==
    /\ Replied(m)
    /\ window[m] = "signing" \/ proc[link[m]].code # 0
    /\ window' = [window EXCEPT ![m] = "start"]
    /\ Hangup(m)
    /\ UNCHANGED <<user, client, as, saved, names, now, accepted, crowded,
                   requests>>

\* login() fails (a timeout, a closed connection) and the result is not looked
\* at: res.code is still 0 and res.session empty.
LoginLost(m) ==
    /\ window[m] = "logging"
    /\ link' = [link EXCEPT ![m] = Nobody]
    /\ saved' = [saved EXCEPT ![m] = 0]
    /\ window' = [window EXCEPT ![m] = "main"]
    /\ UNCHANGED <<user, client, proc, as, names, now, accepted, crowded,
                   requests>>

SignupLost(m) ==
    /\ window[m] = "signing"
    /\ link' = [link EXCEPT ![m] = Nobody]
    /\ window' = [window EXCEPT ![m] = "start"]
    /\ UNCHANGED <<user, client, proc, as, saved, names, now, accepted, crowded,
                   requests>>

\* The client is closed and started again.
Restart(m) ==
    /\ window[m] # "start"
    /\ window' = [window EXCEPT ![m] = "start"]
    /\ link' = [link EXCEPT ![m] = Nobody]
    /\ UNCHANGED <<user, client, proc, as, saved, names, now, accepted, crowded,
                   requests>>

Tick ==
    /\ now < MaxSeconds
    /\ now' = now + 1
    /\ accepted' = 0
    /\ UNCHANGED <<user, client, proc, link, window, as, saved, names, crowded, requests>>

AccountsNext ==
    \/ \E p \in Handlers :
          \/ CheckPassword(p) \/ CheckSession(p) \/ CheckName(p)
          \/ InsertUser(p) \/ FindUid(p) \/ InsertClient(p) \/ Die(p)
    \/ \E m \in Machines :
          \/ \E p \in Handlers : Connect(m, p)
          \/ \E n \in UserNames, w \in Passwords :
                SendLogin(m, n, w) \/ SendSignup(m, n, w)
          \/ LoggedIn(m) \/ BackToForm(m) \/ LoginLost(m) \/ SignupLost(m)
          \/ Restart(m)
    \/ Tick

AccountsSpec == AccountsInit /\ [][AccountsNext]_accountVars

-----------------------------------------------------------------------------
(* Properties *)

\* A session a machine was given has a row in table client, although the
\* INSERT may fail and processes die between the statements: a saved session
\* is never refused by a Tunnel.
SessionKnown == \A m \in Machines : saved[m] # 0 => client[saved[m]] # 0

\* Two signups at once leave two users of one name; every machine is then
\* entered under the first, the one whose password login() compares, and the
\* second user has no machine: no files ever divide over the two.
ClientsOfFirst ==
    \A c \in Cids : client[c] # 0 => client[c] = FirstRow(user[client[c]].name)

\* A machine works for the user who logged in on it, if nobody else ever
\* did: login() does not compare the session's user with the one it checked.
\* A session drawn in a crowded second may be anybody's.
SessionIsOwn ==
    \A m \in Machines :
        window[m] = "main" /\ saved[m] \notin crowded \cup {0}
            /\ Cardinality(names[m]) = 1 =>
                client[saved[m]] = FirstRow(as[m])

\* A session is one machine's ("保证不与已有客户机相同", page 3 of the design),
\* unless it was drawn in a second in which another connection was made: no
\* late insert, lost answer or second login makes two machines share one.
SessionIsUnique ==
    \A m, k \in Machines :
        saved[m] \notin crowded \cup {0} /\ saved[m] = saved[k] => m = k

\* A machine keeps its session, and with it its commitid, from login to login,
\* unless a login breaks off.
KeepsSession ==
    [][\A m \in Machines : saved[m] # 0 /\ saved'[m] # saved[m] =>
            window[m] = "logging" /\ saved'[m] = 0]_accountVars

-----------------------------------------------------------------------------
(* What makes SessionKnown, ClientsOfFirst and KeepsSession inductive *)

\* A process that is past its request knows what was sent to it.
Requested ==
    \A p \in Handlers :
        /\ proc[p].pc # "idle" => proc[p].seed \in Cids
        /\ proc[p].pc \notin {"idle", "request"} =>
              proc[p].name \in UserNames /\ proc[p].pw \in Passwords

\* The uid a process inserts is the first of its name, and stays it.
FindsFirst ==
    \A p \in Handlers :
        /\ proc[p].pc \in {"session", "uid", "insert"} => RowsOf(user, proc[p].name) # {}
        /\ proc[p].pc = "insert" => proc[p].uid = FirstRow(proc[p].name)

\* A session is answered with code 0 once it has a row.
AnswersKnown ==
    \A p \in Handlers :
        proc[p].pc = "reply" /\ proc[p].code = 0 =>
            proc[p].session \in Cids /\ client[proc[p].session] # 0

\* The foreign key of table client.
ClientsAreUsers == \A c \in Cids : client[c] # 0 => client[c] \in 1..Len(user)

\* A process serves one machine.
LinksApart ==
    /\ \A m \in Machines : link[m] # Nobody => proc[link[m]].pc # "idle"
    /\ \A m, k \in Machines : link[m] # Nobody /\ link[m] = link[k] => m = k

\* The login of a machine with a session is answered with that session.
LoginKeeps ==
    \A m \in Machines :
        window[m] = "logging" /\ link[m] # Nobody /\ saved[m] # 0 =>
            \/ /\ proc[link[m]].pc \in {"login", "session"}
               /\ proc[link[m]].session = saved[m]
            \/ /\ proc[link[m]].pc = "reply"
               /\ proc[link[m]].code = 0 => proc[link[m]].session = saved[m]

AccountsInv ==
    /\ AccountsTypeOK /\ Requested /\ FindsFirst /\ AnswersKnown
    /\ ClientsAreUsers /\ ClientsOfFirst /\ SessionKnown
    /\ LinksApart /\ LoginKeeps

=============================================================================
