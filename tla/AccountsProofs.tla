--------------------------- MODULE AccountsProofs ---------------------------
(***************************************************************************)
(* The properties of login and signup for any number of machines,          *)
(* processes, users, seconds and requests.                                 *)
(*                                                                         *)
(* AccountsInv carries SessionKnown, ClientsOfFirst and KeepsSession: rows *)
(* of table user are only added, so the first row of a name stays the      *)
(* first, which is what a process relies on between its look at a name and *)
(* its insert.                                                             *)
(*                                                                         *)
(* SessionIsUnique and SessionIsOwn speak of sessions that were saved;     *)
(* what makes them inductive (second half) is what is known of a session   *)
(* from the second it is drawn in to the answer that carries it to a       *)
(* machine.                                                                *)
(***************************************************************************)
EXTENDS Accounts, WellFoundedInduction, FiniteSetTheorems, TLAPS

LEMMA LeastNatural ==
    ASSUME NEW T, T \subseteq Nat, T # {}
    PROVE  \E x \in T : \A y \in T : x <= y
<1> DEFINE R == OpToRel(<, Nat)
<1>1. IsWellFoundedOn(R, Nat)
  BY NatLessThanWellFounded
<1>2. PICK x \in T : \A y \in T : ~(<<y, x>> \in R)
  <2> HIDE DEF R
  <2> QED BY <1>1, WFMin
<1>3. ASSUME NEW y \in T PROVE x <= y
  <2>1. ~(y < x) BY <1>2 DEF OpToRel
  <2> QED BY <2>1
<1> QED BY <1>3

-----------------------------------------------------------------------------
(* The rows of a name *)

Users == Seq([name : UserNames, pw : Passwords])

LEMMA FirstIs ==
    ASSUME NEW t \in Users, NEW n, RowsOf(t, n) # {}
    PROVE  /\ FirstOf(t, n) \in RowsOf(t, n)
           /\ FirstOf(t, n) \in 1..Len(t)
           /\ t[FirstOf(t, n)].name = n
           /\ \A v \in RowsOf(t, n) : FirstOf(t, n) <= v
<1>1. RowsOf(t, n) \subseteq Nat
  BY DEF RowsOf
<1>2. \E u \in RowsOf(t, n) : \A v \in RowsOf(t, n) : u <= v
  BY <1>1, LeastNatural
<1>3. FirstOf(t, n) \in RowsOf(t, n) /\ \A v \in RowsOf(t, n) : FirstOf(t, n) <= v
  BY <1>2 DEF FirstOf
<1> QED BY <1>3 DEF RowsOf

\* A row that is added comes after those that are there.
LEMMA RowIsAdded ==
    ASSUME NEW t \in Users, NEW r \in [name : UserNames, pw : Passwords]
    PROVE  /\ Append(t, r) \in Users
           /\ Len(t) \in Nat /\ Len(Append(t, r)) = Len(t) + 1
           /\ RowsOf(Append(t, r), r.name) # {}
           /\ \A u \in 1..Len(t) : Append(t, r)[u] = t[u]
<1>1. /\ Append(t, r) \in Users
      /\ Len(t) \in Nat /\ Len(Append(t, r)) = Len(t) + 1
      /\ \A u \in 1..Len(t) : Append(t, r)[u] = t[u]
      /\ Append(t, r)[Len(t) + 1] = r
  BY DEF Users
<1>2. Len(t) + 1 \in RowsOf(Append(t, r), r.name)
  BY <1>1 DEF RowsOf
<1> QED BY <1>1, <1>2

LEMMA FirstStays ==
    ASSUME NEW t \in Users, NEW s \in Users, Len(s) = Len(t) + 1,
           \A u \in 1..Len(t) : s[u] = t[u],
           NEW n, RowsOf(t, n) # {}
    PROVE  RowsOf(s, n) # {} /\ FirstOf(s, n) = FirstOf(t, n)
<1>1. Len(t) \in Nat
  BY DEF Users
<1>2. FirstOf(t, n) \in RowsOf(t, n) /\ \A v \in RowsOf(t, n) : FirstOf(t, n) <= v
  BY FirstIs
<1>3. FirstOf(t, n) \in RowsOf(s, n)
  BY <1>1, <1>2 DEF RowsOf
<1>4. ASSUME NEW v \in RowsOf(s, n) PROVE FirstOf(t, n) <= v
  <2>1. CASE v \in RowsOf(t, n)
    BY <1>2, <2>1
  <2>2. CASE v \notin RowsOf(t, n)
    <3>1. v = Len(t) + 1
      BY <1>1, <2>2 DEF RowsOf
    <3> QED BY <1>1, <1>2, <3>1 DEF RowsOf
  <2> QED BY <2>1, <2>2
<1>5. FirstOf(s, n) \in RowsOf(s, n) /\ \A v \in RowsOf(s, n) : FirstOf(s, n) <= v
  BY <1>3, FirstIs
<1>6. FirstOf(t, n) \in Nat /\ FirstOf(s, n) \in Nat
  BY <1>1, <1>2, <1>5 DEF RowsOf
<1>7. FirstOf(t, n) <= FirstOf(s, n) /\ FirstOf(s, n) <= FirstOf(t, n)
  BY <1>3, <1>4, <1>5
<1> QED BY <1>3, <1>6, <1>7

-----------------------------------------------------------------------------
(* What a step does to the processes *)

LEMMA AnswerProc ==
    ASSUME AccountsTypeOK, NEW p \in Handlers, NEW c \in 0..3,
           NEW s \in 0..MaxSeconds, Answer(p, c, s)
    PROVE  /\ proc' \in [Handlers -> Process]
           /\ \A q \in Handlers : q # p => proc'[q] = proc[q]
           /\ proc'[p].pc = "reply" /\ proc'[p].code = c /\ proc'[p].session = s
           /\ proc'[p].seed = proc[p].seed /\ proc'[p].name = proc[p].name
           /\ proc'[p].pw = proc[p].pw
<1>1. proc \in [Handlers -> Process] /\ proc[p] \in Process
  BY DEF AccountsTypeOK
<1>2. proc' = [proc EXCEPT ![p] = [@ EXCEPT !.pc = "reply", !.code = c, !.session = s]]
  BY <1>1 DEF Answer, Process
<1>3. [proc[p] EXCEPT !.pc = "reply", !.code = c, !.session = s] \in Process
  BY <1>1 DEF Process
<1>4. proc'[p] = [proc[p] EXCEPT !.pc = "reply", !.code = c, !.session = s]
  BY <1>1, <1>2
<1>5. \A q \in Handlers : q # p => proc'[q] = proc[q]
  BY <1>1, <1>2
<1>6. proc' \in [Handlers -> Process]
  BY <1>1, <1>2, <1>3
<1>7. /\ proc'[p].pc = "reply" /\ proc'[p].code = c /\ proc'[p].session = s
      /\ proc'[p].seed = proc[p].seed /\ proc'[p].name = proc[p].name
      /\ proc'[p].pw = proc[p].pw
  BY <1>1, <1>4 DEF Process
<1> QED BY <1>5, <1>6, <1>7

LEMMA GotoProc ==
    ASSUME AccountsTypeOK, NEW p \in Handlers,
           NEW l \in {"session", "add", "uid"}, PGoto(p, l)
    PROVE  /\ proc' \in [Handlers -> Process]
           /\ \A q \in Handlers : q # p => proc'[q] = proc[q]
           /\ proc'[p].pc = l
           /\ proc'[p].session = proc[p].session
           /\ proc'[p].seed = proc[p].seed /\ proc'[p].name = proc[p].name
           /\ proc'[p].pw = proc[p].pw
<1>1. proc \in [Handlers -> Process] /\ proc[p] \in Process
  BY DEF AccountsTypeOK
<1>2. proc' = [proc EXCEPT ![p] = [@ EXCEPT !.pc = l]]
  BY <1>1 DEF PGoto, Process
<1>3. [proc[p] EXCEPT !.pc = l] \in Process
  BY <1>1 DEF Process
<1>4. proc'[p] = [proc[p] EXCEPT !.pc = l]
  BY <1>1, <1>2
<1>5. \A q \in Handlers : q # p => proc'[q] = proc[q]
  BY <1>1, <1>2
<1>6. proc' \in [Handlers -> Process]
  BY <1>1, <1>2, <1>3
<1>7. /\ proc'[p].pc = l
      /\ proc'[p].session = proc[p].session
      /\ proc'[p].seed = proc[p].seed /\ proc'[p].name = proc[p].name
      /\ proc'[p].pw = proc[p].pw
  BY <1>1, <1>4 DEF Process
<1> QED BY <1>5, <1>6, <1>7

-----------------------------------------------------------------------------
(* The steps *)

\* What all steps of a server process have in common: rows are only added, and
\* what the process knows stays true of them.
ProcessStep(p) ==
    /\ ProcOnly
    /\ proc' \in [Handlers -> Process]
    /\ \A q \in Handlers : q # p => proc'[q] = proc[q]
    /\ proc[p].pc \notin {"idle", "request", "reply"}
    /\ proc'[p].pc \notin {"idle", "request"}
    /\ proc'[p].seed = proc[p].seed /\ proc'[p].name = proc[p].name
    /\ proc'[p].pw = proc[p].pw
    /\ user' \in Users
    /\ Len(user') >= Len(user)
    /\ \A u \in 1..Len(user) : user'[u] = user[u]
    /\ \A n : RowsOf(user, n) # {} =>
          RowsOf(user', n) # {} /\ FirstOf(user', n) = FirstOf(user, n)
    /\ client' \in [Cids -> Nat]
    /\ \A c \in Cids : client'[c] # client[c] =>
          /\ client[c] = 0 /\ client'[c] \in 1..Len(user)
          /\ client'[c] = FirstOf(user, user[client'[c]].name)
    /\ proc'[p].pc \in {"session", "uid", "insert"} =>
          RowsOf(user', proc[p].name) # {}
    /\ proc'[p].pc = "insert" => proc'[p].uid = FirstOf(user', proc[p].name)
    /\ proc'[p].pc = "reply" /\ proc'[p].code = 0 =>
          proc'[p].session \in Cids /\ client'[proc'[p].session] # 0
    /\ \A s \in Cids :
          proc[p].pc \in {"login", "session"} /\ proc[p].session = s /\ client[s] # 0 =>
            \/ proc'[p].pc = "session" /\ proc'[p].session = s
            \/ proc'[p].pc = "reply" /\ (proc'[p].code = 0 => proc'[p].session = s)

LEMMA ProcessStepInv ==
    ASSUME AccountsInv, NEW p \in Handlers, ProcessStep(p)
    PROVE  AccountsInv'
<1> USE DEF ProcOnly, ProcessStep
<1>1. AccountsTypeOK'
  BY DEF AccountsInv, AccountsTypeOK, Users
<1>2. Requested'
  BY DEF AccountsInv, Requested
<1>3. FindsFirst'
  <2> SUFFICES ASSUME NEW q \in Handlers
               PROVE  /\ proc'[q].pc \in {"session", "uid", "insert"} =>
                            RowsOf(user', proc'[q].name) # {}
                      /\ proc'[q].pc = "insert" =>
                            proc'[q].uid = FirstOf(user', proc'[q].name)
    BY DEF FindsFirst, FirstRow
  <2>1. CASE q = p
    BY <2>1
  <2>2. CASE q # p
    <3>1. proc'[q] = proc[q]
      BY <2>2
    <3>2. /\ proc[q].pc \in {"session", "uid", "insert"} =>
                RowsOf(user, proc[q].name) # {}
          /\ proc[q].pc = "insert" => proc[q].uid = FirstOf(user, proc[q].name)
      BY DEF AccountsInv, FindsFirst, FirstRow
    <3>3. RowsOf(user, proc[q].name) # {} =>
            /\ RowsOf(user', proc[q].name) # {}
            /\ FirstOf(user', proc[q].name) = FirstOf(user, proc[q].name)
      OBVIOUS
    <3> QED BY <3>1, <3>2, <3>3
  <2> QED BY <2>1, <2>2
<1>4. \A c \in Cids : client[c] # 0 => client'[c] = client[c]
  BY DEF AccountsInv, AccountsTypeOK
<1>5. AnswersKnown'
  BY <1>4 DEF AccountsInv, AnswersKnown
<1>6. ClientsAreUsers'
  BY <1>4 DEF AccountsInv, AccountsTypeOK, ClientsAreUsers
<1>7. ClientsOfFirst'
  <2> SUFFICES ASSUME NEW c \in Cids, client'[c] # 0
               PROVE  client'[c] = FirstOf(user', user'[client'[c]].name)
    BY DEF ClientsOfFirst, FirstRow
  <2>1. client'[c] \in 1..Len(user) /\ client'[c] = FirstOf(user, user[client'[c]].name)
    BY <1>4 DEF AccountsInv, AccountsTypeOK, ClientsAreUsers, ClientsOfFirst, FirstRow
  <2>2. RowsOf(user, user[client'[c]].name) # {}
    BY <2>1 DEF RowsOf
  <2>3. user'[client'[c]] = user[client'[c]]
    BY <2>1
  <2>4. FirstOf(user', user[client'[c]].name) = FirstOf(user, user[client'[c]].name)
    BY <2>2
  <2> QED BY <2>1, <2>3, <2>4
<1>8. SessionKnown'
  BY <1>4 DEF AccountsInv, AccountsTypeOK, SessionKnown, Cids
<1>9. LinksApart'
  BY ZenonT(60) DEF AccountsInv, AccountsTypeOK, LinksApart
<1>10. LoginKeeps'
  <2> SUFFICES ASSUME NEW m \in Machines, window[m] = "logging",
                      link[m] # Nobody, saved[m] # 0
               PROVE  \/ /\ proc'[link[m]].pc \in {"login", "session"}
                         /\ proc'[link[m]].session = saved[m]
                      \/ /\ proc'[link[m]].pc = "reply"
                         /\ proc'[link[m]].code = 0 => proc'[link[m]].session = saved[m]
    BY DEF LoginKeeps
  <2>1. saved[m] \in Cids /\ client[saved[m]] # 0 /\ link[m] \in Handlers
    BY CountAssumption DEF AccountsInv, AccountsTypeOK, SessionKnown, Cids
  <2>2. \/ /\ proc[link[m]].pc \in {"login", "session"}
           /\ proc[link[m]].session = saved[m]
        \/ /\ proc[link[m]].pc = "reply"
           /\ proc[link[m]].code = 0 => proc[link[m]].session = saved[m]
    BY DEF AccountsInv, LoginKeeps
  <2>3. CASE link[m] = p
    BY <2>1, <2>2, <2>3
  <2>4. CASE link[m] # p
    BY <2>1, <2>2, <2>4
  <2> QED BY <2>3, <2>4
<1> QED BY <1>1, <1>2, <1>3, <1>5, <1>6, <1>7, <1>8, <1>9, <1>10 DEF AccountsInv

\* A process that reads the tables, and answers or goes on.
LEMMA ReadStep ==
    ASSUME AccountsInv, NEW p \in Handlers, ProcOnly, UNCHANGED <<user, client>>,
           proc' \in [Handlers -> Process],
           \A q \in Handlers : q # p => proc'[q] = proc[q],
           proc[p].pc \notin {"idle", "request", "reply"},
           proc'[p].pc \notin {"idle", "request"},
           proc'[p].seed = proc[p].seed, proc'[p].name = proc[p].name,
           proc'[p].pw = proc[p].pw,
           proc'[p].pc \in {"session", "uid", "insert"} =>
               RowsOf(user, proc[p].name) # {},
           proc'[p].pc = "insert" => proc'[p].uid = FirstOf(user, proc[p].name),
           proc'[p].pc = "reply" /\ proc'[p].code = 0 =>
               proc'[p].session \in Cids /\ client[proc'[p].session] # 0,
           \A s \in Cids :
               /\ proc[p].pc \in {"login", "session"}
               /\ proc[p].session = s /\ client[s] # 0
               => \/ proc'[p].pc = "session" /\ proc'[p].session = s
                  \/ /\ proc'[p].pc = "reply"
                     /\ proc'[p].code = 0 => proc'[p].session = s
    PROVE  AccountsInv'
<1>1. user \in Users /\ client \in [Cids -> Nat] /\ Len(user) \in Nat
  BY DEF AccountsInv, AccountsTypeOK, Users
<1>2. ProcessStep(p)
  BY <1>1 DEF ProcessStep
<1> QED BY <1>2, ProcessStepInv

LEMMA CheckPasswordInv ==
    ASSUME AccountsInv, NEW p \in Handlers, CheckPassword(p)
    PROVE  AccountsInv'
<1>1. AccountsTypeOK /\ 0 \in 0..MaxSeconds
  BY CountAssumption DEF AccountsInv
<1>2. ProcOnly /\ UNCHANGED <<user, client>> /\ proc[p].pc = "login"
  BY DEF CheckPassword
<1>3. ASSUME NEW c \in {1, 2}, Answer(p, c, 0) PROVE AccountsInv'
  BY <1>1, <1>2, <1>3, AnswerProc, ReadStep
<1>4. CASE PGoto(p, "session") /\ FirstRow(proc[p].name) # 0
  <2>1. RowsOf(user, proc[p].name) # {}
    BY <1>4 DEF FirstRow, FirstOf
  <2> QED BY <1>1, <1>2, <1>4, <2>1, GotoProc, ReadStep
<1> QED BY <1>3, <1>4 DEF CheckPassword

LEMMA CheckSessionInv ==
    ASSUME AccountsInv, NEW p \in Handlers, CheckSession(p)
    PROVE  AccountsInv'
<1>1. AccountsTypeOK /\ proc[p].session \in 0..MaxSeconds
  BY DEF AccountsInv, AccountsTypeOK, Process
<1>2. ProcOnly /\ UNCHANGED <<user, client>> /\ proc[p].pc = "session"
  BY DEF CheckSession
<1>3. RowsOf(user, proc[p].name) # {}
  BY <1>2 DEF AccountsInv, FindsFirst
<1>4. CASE getUidBySession(proc[p].session) < 0 /\ PGoto(p, "uid")
  <2>1. \A s \in Cids : proc[p].session = s => client[s] = 0
    BY <1>1, <1>4 DEF getUidBySession, AccountsTypeOK
  <2> QED BY <1>1, <1>2, <1>3, <1>4, <2>1, GotoProc, ReadStep
<1>5. CASE ~(getUidBySession(proc[p].session) < 0) /\ Answer(p, 0, proc[p].session)
  <2>1. proc[p].session \in Cids /\ client[proc[p].session] # 0
    BY <1>5 DEF getUidBySession
  <2> QED BY <1>1, <1>2, <1>5, <2>1, AnswerProc, ReadStep
<1> QED BY <1>2, <1>4, <1>5 DEF CheckSession

LEMMA CheckNameInv ==
    ASSUME AccountsInv, NEW p \in Handlers, CheckName(p)
    PROVE  AccountsInv'
<1>1. AccountsTypeOK /\ 0 \in 0..MaxSeconds
  BY CountAssumption DEF AccountsInv
<1>2. ProcOnly /\ UNCHANGED <<user, client>> /\ proc[p].pc = "signup"
  BY DEF CheckName
<1>3. ASSUME NEW c \in {1, 2, 3}, Answer(p, c, 0) PROVE AccountsInv'
  BY <1>1, <1>2, <1>3, AnswerProc, ReadStep
<1>4. CASE PGoto(p, "add")
  BY <1>1, <1>2, <1>4, GotoProc, ReadStep
<1> QED BY <1>3, <1>4 DEF CheckName

LEMMA InsertUserInv ==
    ASSUME AccountsInv, NEW p \in Handlers, InsertUser(p)
    PROVE  AccountsInv'
<1>1. AccountsTypeOK /\ proc[p].name \in UserNames /\ proc[p].pw \in Passwords
  BY DEF AccountsInv, InsertUser, Requested
<1>2. /\ ProcOnly /\ client' = client /\ proc[p].pc = "add" /\ PGoto(p, "uid")
      /\ user' = Append(user, [name |-> proc[p].name, pw |-> proc[p].pw])
  BY DEF InsertUser, createNewUser
<1>3. user \in Users /\ client' \in [Cids -> Nat] /\ Len(user) \in Nat
  BY <1>1, <1>2 DEF AccountsTypeOK, Users
<1>4. /\ user' \in Users
      /\ Len(user') >= Len(user)
      /\ \A u \in 1..Len(user) : user'[u] = user[u]
      /\ \A n : RowsOf(user, n) # {} =>
            RowsOf(user', n) # {} /\ FirstOf(user', n) = FirstOf(user, n)
      /\ RowsOf(user', proc[p].name) # {}
  <2>1. /\ user' \in Users
        /\ Len(user) \in Nat /\ Len(user') = Len(user) + 1
        /\ RowsOf(user', proc[p].name) # {}
        /\ \A u \in 1..Len(user) : user'[u] = user[u]
    <3> DEFINE r == [name |-> proc[p].name, pw |-> proc[p].pw]
    <3>1. r \in [name : UserNames, pw : Passwords] /\ r.name = proc[p].name
      BY <1>1
    <3>2. user' = Append(user, r)
      BY <1>2
    <3> HIDE DEF r
    <3> QED BY <1>3, <3>1, <3>2, RowIsAdded
  <2>2. ASSUME NEW n, RowsOf(user, n) # {}
        PROVE  RowsOf(user', n) # {} /\ FirstOf(user', n) = FirstOf(user, n)
    BY <1>3, <2>1, <2>2, FirstStays
  <2>3. Len(user') >= Len(user)
    BY <2>1
  <2> QED BY <2>1, <2>2, <2>3
<1>5. /\ proc' \in [Handlers -> Process]
      /\ \A q \in Handlers : q # p => proc'[q] = proc[q]
      /\ proc'[p].pc = "uid" /\ proc'[p].seed = proc[p].seed
      /\ proc'[p].name = proc[p].name /\ proc'[p].pw = proc[p].pw
  BY <1>1, <1>2, GotoProc
<1>6. ProcessStep(p)
  BY <1>2, <1>3, <1>4, <1>5 DEF ProcessStep
<1> QED BY <1>6, ProcessStepInv

LEMMA FindUidInv ==
    ASSUME AccountsInv, NEW p \in Handlers, FindUid(p)
    PROVE  AccountsInv'
<1>1. user \in Users /\ proc \in [Handlers -> Process] /\ proc[p] \in Process
  BY DEF AccountsInv, AccountsTypeOK, Users
<1>2. ProcOnly /\ UNCHANGED <<user, client>> /\ proc[p].pc = "uid"
  BY DEF FindUid
<1>3. RowsOf(user, proc[p].name) # {}
  BY <1>2 DEF AccountsInv, FindsFirst
<1>4. PICK u \in Nat : u = FirstOf(user, proc[p].name)
  BY <1>1, <1>3, FirstIs
<1>5. proc' = [proc EXCEPT ![p] = [@ EXCEPT !.pc = "insert", !.uid = u]]
  BY <1>1, <1>4 DEF FindUid, Process, FirstRow
<1>6. [proc[p] EXCEPT !.pc = "insert", !.uid = u] \in Process
  BY <1>1, <1>4 DEF Process
<1>7. proc'[p] = [proc[p] EXCEPT !.pc = "insert", !.uid = u]
  BY <1>1, <1>5
<1>8. proc' \in [Handlers -> Process] /\ \A q \in Handlers : q # p => proc'[q] = proc[q]
  BY <1>1, <1>5, <1>6
<1>9. /\ proc'[p].pc = "insert" /\ proc'[p].uid = u
      /\ proc'[p].seed = proc[p].seed /\ proc'[p].name = proc[p].name
      /\ proc'[p].pw = proc[p].pw
  BY <1>1, <1>7 DEF Process
<1> QED BY <1>2, <1>3, <1>4, <1>8, <1>9, ReadStep

LEMMA InsertClientInv ==
    ASSUME AccountsInv, NEW p \in Handlers, InsertClient(p)
    PROVE  AccountsInv'
<1>1. AccountsTypeOK /\ proc[p].seed \in Cids /\ proc[p].seed \in 0..MaxSeconds
  BY DEF AccountsInv, InsertClient, Requested, AccountsTypeOK, Process
<1>2. /\ ProcOnly /\ user' = user /\ proc[p].pc = "insert"
      /\ createNewClient(proc[p].uid, proc[p].seed) /\ Answer(p, 0, proc[p].seed)
  BY DEF InsertClient
<1>3. user \in Users /\ client \in [Cids -> Nat] /\ Len(user) \in Nat
  BY <1>1 DEF AccountsTypeOK, Users
<1>4. /\ proc[p].uid \in 1..Len(user)
      /\ user[proc[p].uid].name = proc[p].name
      /\ proc[p].uid = FirstOf(user, proc[p].name)
  BY <1>2, <1>3, FirstIs DEF AccountsInv, FindsFirst, FirstRow
<1>5. /\ client' \in [Cids -> Nat] /\ client'[proc[p].seed] # 0
      /\ \A c \in Cids : client'[c] # client[c] =>
            /\ client[c] = 0 /\ client'[c] \in 1..Len(user)
            /\ client'[c] = FirstOf(user, user[client'[c]].name)
  BY <1>1, <1>2, <1>3, <1>4 DEF createNewClient
<1>6. /\ proc' \in [Handlers -> Process]
      /\ \A q \in Handlers : q # p => proc'[q] = proc[q]
      /\ proc'[p].pc = "reply" /\ proc'[p].session = proc[p].seed
      /\ proc'[p].seed = proc[p].seed
      /\ proc'[p].name = proc[p].name /\ proc'[p].pw = proc[p].pw
  BY <1>1, <1>2, AnswerProc
<1>7. ProcessStep(p)
  BY <1>1, <1>2, <1>3, <1>5, <1>6 DEF ProcessStep
<1> QED BY <1>7, ProcessStepInv

-----------------------------------------------------------------------------
(* The steps of a machine leave the tables alone *)

LEMMA TablesSame ==
    ASSUME AccountsInv, UNCHANGED <<user, client>>
    PROVE  ClientsAreUsers' /\ ClientsOfFirst'
BY DEF AccountsInv, ClientsAreUsers, ClientsOfFirst, FirstRow

LEMMA DieInv ==
    ASSUME AccountsInv, NEW p \in Handlers, Die(p)
    PROVE  AccountsInv'
<1> USE DEF Die, AccountsInv
<1>1. AccountsTypeOK'
  <2>1. Idle \in Process
    BY CountAssumption, NobodyAssumption DEF Process, Idle
  <2>2. proc' \in [Handlers -> Process]
    BY <2>1, NobodyAssumption DEF AccountsTypeOK
  <2> QED BY <2>1, <2>2 DEF AccountsTypeOK
<1>2. Requested'
  BY NobodyAssumption DEF Requested, AccountsTypeOK, Process, Idle
<1>3. FindsFirst'
  BY NobodyAssumption DEF FindsFirst, AccountsTypeOK, Process, LinksApart, FirstRow, Idle
<1>4. AnswersKnown'
  BY NobodyAssumption DEF AnswersKnown, AccountsTypeOK, Process, LinksApart, Idle
<1>5. ClientsAreUsers' /\ ClientsOfFirst'
  BY TablesSame
<1>6. SessionKnown'
  BY DEF SessionKnown, AccountsTypeOK, AnswersKnown
<1>7. LinksApart'
  BY NobodyAssumption DEF LinksApart, AccountsTypeOK, Process, Idle
<1>8. LoginKeeps'
  BY NobodyAssumption DEF LoginKeeps, AccountsTypeOK, Process, LinksApart, Idle
<1> QED BY <1>1, <1>2, <1>3, <1>4, <1>5, <1>6, <1>7, <1>8

LEMMA ConnectInv ==
    ASSUME AccountsInv, NEW m \in Machines, NEW p \in Handlers, Connect(m, p)
    PROVE  AccountsInv'
<1> USE DEF Connect, AccountsInv
<1>1. AccountsTypeOK'
  <2>1. proc \in [Handlers -> Process] /\ proc[p] \in Process /\ now \in 0..MaxSeconds
    BY DEF AccountsTypeOK, Cids
  <2>2. proc' = [proc EXCEPT ![p] = [@ EXCEPT !.pc = "request", !.seed = now]]
    BY <2>1 DEF Process
  <2>3. [proc[p] EXCEPT !.pc = "request", !.seed = now] \in Process
    BY <2>1 DEF Process
  <2>4. proc' \in [Handlers -> Process]
    BY <2>1, <2>2, <2>3
  <2>8. /\ accepted' \in Nat /\ requests' \in Nat /\ now' \in Cids
        /\ crowded' \subseteq Cids
    BY CountAssumption DEF AccountsTypeOK, Cids
  <2> QED BY <2>4, <2>8 DEF AccountsTypeOK
<1>2. Requested'
  BY NobodyAssumption DEF Requested, AccountsTypeOK, Process
<1>3. FindsFirst'
  BY NobodyAssumption, ZenonT(60) DEF FindsFirst, AccountsTypeOK, Process, LinksApart, FirstRow
<1>4. AnswersKnown'
  BY NobodyAssumption DEF AnswersKnown, AccountsTypeOK, Process, LinksApart
<1>5. ClientsAreUsers' /\ ClientsOfFirst'
  BY TablesSame
<1>6. SessionKnown'
  BY DEF SessionKnown, AccountsTypeOK, AnswersKnown
<1>7. LinksApart'
  BY NobodyAssumption DEF LinksApart, AccountsTypeOK, Process
<1>8. LoginKeeps'
  BY NobodyAssumption DEF LoginKeeps, AccountsTypeOK, Process, LinksApart
<1> QED BY <1>1, <1>2, <1>3, <1>4, <1>5, <1>6, <1>7, <1>8

LEMMA SendLoginInv ==
    ASSUME AccountsInv, NEW m \in Machines, NEW n \in UserNames,
           NEW w \in Passwords, SendLogin(m, n, w)
    PROVE  AccountsInv'
<1> USE DEF SendLogin, Send, AccountsInv
<1>1. AccountsTypeOK'
  <2>1. proc \in [Handlers -> Process] /\ saved[m] \in 0..MaxSeconds
    BY CountAssumption DEF AccountsTypeOK
  <2>2. proc' \in [Handlers -> Process]
    <3>1. CASE link[m] = Nobody
      BY <2>1, <3>1
    <3>2. CASE link[m] # Nobody
      <4>1. link[m] \in Handlers /\ proc[link[m]] \in Process
        BY <2>1, <3>2 DEF AccountsTypeOK
      <4>2. [proc[link[m]] EXCEPT !.pc = "login", !.name = n, !.pw = w,
              !.session = saved[m]] \in Process
        BY <2>1, <4>1 DEF Process
      <4> QED BY <2>1, <3>2, <4>1, <4>2
    <3> QED BY <3>1, <3>2
  <2>8. /\ accepted' \in Nat /\ requests' \in Nat /\ now' \in Cids
        /\ crowded' \subseteq Cids
    BY CountAssumption DEF AccountsTypeOK, Cids
  <2> QED BY <2>2, <2>8 DEF AccountsTypeOK
<1>2. Requested'
  <2> SUFFICES ASSUME NEW p \in Handlers
               PROVE  /\ proc'[p].pc # "idle" => proc'[p].seed \in Cids
                      /\ proc'[p].pc \notin {"idle", "request"} =>
                            proc'[p].name \in UserNames /\ proc'[p].pw \in Passwords
    BY DEF Requested
  <2>1. proc \in [Handlers -> Process] /\ proc[p] \in Process
    BY DEF AccountsTypeOK
  <2>2. CASE link[m] = p /\ link[m] # Nobody
    <3>1. proc[p].pc # "idle"
      BY <2>2 DEF LinksApart
    <3>2. proc'[p] = [proc[p] EXCEPT !.pc = "login", !.name = n, !.pw = w,
                                !.session = saved[m]]
      BY <2>1, <2>2
    <3>3. /\ proc'[p].seed = proc[p].seed /\ proc'[p].name = n /\ proc'[p].pw = w
      BY <2>1, <3>2 DEF Process
    <3> QED BY <3>1, <3>3 DEF Requested
  <2>3. CASE link[m] # p \/ link[m] = Nobody
    <3>1. proc'[p] = proc[p]
      BY <2>1, <2>3
    <3> QED BY <3>1 DEF Requested
  <2> QED BY <2>2, <2>3
<1>3. FindsFirst'
  BY NobodyAssumption DEF FindsFirst, AccountsTypeOK, Process, LinksApart, FirstRow
<1>4. AnswersKnown'
  BY NobodyAssumption DEF AnswersKnown, AccountsTypeOK, Process, LinksApart
<1>5. ClientsAreUsers' /\ ClientsOfFirst'
  BY TablesSame
<1>6. SessionKnown'
  BY DEF SessionKnown, AccountsTypeOK, AnswersKnown
<1>7. LinksApart'
  BY NobodyAssumption DEF LinksApart, AccountsTypeOK, Process
<1>8. LoginKeeps'
  BY NobodyAssumption DEF LoginKeeps, AccountsTypeOK, Process, LinksApart
<1> QED BY <1>1, <1>2, <1>3, <1>4, <1>5, <1>6, <1>7, <1>8

LEMMA SendSignupInv ==
    ASSUME AccountsInv, NEW m \in Machines, NEW n \in UserNames,
           NEW w \in Passwords, SendSignup(m, n, w)
    PROVE  AccountsInv'
<1> USE DEF SendSignup, Send, AccountsInv
<1>1. AccountsTypeOK'
  <2>1. proc \in [Handlers -> Process] /\ 0 \in 0..MaxSeconds
    BY CountAssumption DEF AccountsTypeOK
  <2>2. proc' \in [Handlers -> Process]
    <3>1. CASE link[m] = Nobody
      BY <2>1, <3>1
    <3>2. CASE link[m] # Nobody
      <4>1. link[m] \in Handlers /\ proc[link[m]] \in Process
        BY <2>1, <3>2 DEF AccountsTypeOK
      <4>2. [proc[link[m]] EXCEPT !.pc = "signup", !.name = n, !.pw = w,
              !.session = 0] \in Process
        BY <2>1, <4>1 DEF Process
      <4> QED BY <2>1, <3>2, <4>1, <4>2
    <3> QED BY <3>1, <3>2
  <2>8. /\ accepted' \in Nat /\ requests' \in Nat /\ now' \in Cids
        /\ crowded' \subseteq Cids
    BY CountAssumption DEF AccountsTypeOK, Cids
  <2> QED BY <2>2, <2>8 DEF AccountsTypeOK
<1>2. Requested'
  <2> SUFFICES ASSUME NEW p \in Handlers
               PROVE  /\ proc'[p].pc # "idle" => proc'[p].seed \in Cids
                      /\ proc'[p].pc \notin {"idle", "request"} =>
                            proc'[p].name \in UserNames /\ proc'[p].pw \in Passwords
    BY DEF Requested
  <2>1. proc \in [Handlers -> Process] /\ proc[p] \in Process
    BY DEF AccountsTypeOK
  <2>2. CASE link[m] = p /\ link[m] # Nobody
    <3>1. proc[p].pc # "idle"
      BY <2>2 DEF LinksApart
    <3>2. proc'[p] = [proc[p] EXCEPT !.pc = "signup", !.name = n, !.pw = w, !.session = 0]
      BY <2>1, <2>2
    <3>3. /\ proc'[p].seed = proc[p].seed /\ proc'[p].name = n /\ proc'[p].pw = w
      BY <2>1, <3>2 DEF Process
    <3> QED BY <3>1, <3>3 DEF Requested
  <2>3. CASE link[m] # p \/ link[m] = Nobody
    <3>1. proc'[p] = proc[p]
      BY <2>1, <2>3
    <3> QED BY <3>1 DEF Requested
  <2> QED BY <2>2, <2>3
<1>3. FindsFirst'
  BY NobodyAssumption DEF FindsFirst, AccountsTypeOK, Process, LinksApart, FirstRow
<1>4. AnswersKnown'
  BY NobodyAssumption DEF AnswersKnown, AccountsTypeOK, Process, LinksApart
<1>5. ClientsAreUsers' /\ ClientsOfFirst'
  BY TablesSame
<1>6. SessionKnown'
  BY DEF SessionKnown, AccountsTypeOK, AnswersKnown
<1>7. LinksApart'
  BY NobodyAssumption DEF LinksApart, AccountsTypeOK, Process
<1>8. LoginKeeps'
  BY NobodyAssumption DEF LoginKeeps, AccountsTypeOK, Process, LinksApart
<1> QED BY <1>1, <1>2, <1>3, <1>4, <1>5, <1>6, <1>7, <1>8

LEMMA LoggedInInv ==
    ASSUME AccountsInv, NEW m \in Machines, LoggedIn(m)
    PROVE  AccountsInv'
<1> USE DEF LoggedIn, Hangup, Replied, AccountsInv
<1>1. AccountsTypeOK'
  <2>1. Idle \in Process
    BY CountAssumption, NobodyAssumption DEF Process, Idle
  <2>2. proc' \in [Handlers -> Process]
    BY <2>1, NobodyAssumption DEF AccountsTypeOK
  <2>3. saved' \in [Machines -> 0..MaxSeconds]
    <3>1. proc[link[m]].session \in 0..MaxSeconds
      BY DEF AccountsTypeOK, Process
    <3> QED BY <3>1 DEF AccountsTypeOK
  <2> QED BY <2>1, <2>2, <2>3 DEF AccountsTypeOK
<1>2. Requested'
  BY NobodyAssumption DEF Requested, AccountsTypeOK, Process, Idle
<1>3. FindsFirst'
  BY NobodyAssumption DEF FindsFirst, AccountsTypeOK, Process, LinksApart, FirstRow, Idle
<1>4. AnswersKnown'
  BY NobodyAssumption DEF AnswersKnown, AccountsTypeOK, Process, LinksApart, Idle
<1>5. ClientsAreUsers' /\ ClientsOfFirst'
  BY TablesSame
<1>6. SessionKnown'
  BY DEF SessionKnown, AccountsTypeOK, AnswersKnown
<1>7. LinksApart'
  BY NobodyAssumption DEF LinksApart, AccountsTypeOK, Process, Idle
<1>8. LoginKeeps'
  BY NobodyAssumption DEF LoginKeeps, AccountsTypeOK, Process, LinksApart, Idle
<1> QED BY <1>1, <1>2, <1>3, <1>4, <1>5, <1>6, <1>7, <1>8

LEMMA BackToFormInv ==
    ASSUME AccountsInv, NEW m \in Machines, BackToForm(m)
    PROVE  AccountsInv'
<1> USE DEF BackToForm, Hangup, Replied, AccountsInv
<1>1. AccountsTypeOK'
  <2>1. Idle \in Process
    BY CountAssumption, NobodyAssumption DEF Process, Idle
  <2>2. proc' \in [Handlers -> Process]
    BY <2>1, NobodyAssumption DEF AccountsTypeOK
  <2> QED BY <2>1, <2>2 DEF AccountsTypeOK
<1>2. Requested'
  BY NobodyAssumption DEF Requested, AccountsTypeOK, Process, Idle
<1>3. FindsFirst'
  BY NobodyAssumption DEF FindsFirst, AccountsTypeOK, Process, LinksApart, FirstRow, Idle
<1>4. AnswersKnown'
  BY NobodyAssumption DEF AnswersKnown, AccountsTypeOK, Process, LinksApart, Idle
<1>5. ClientsAreUsers' /\ ClientsOfFirst'
  BY TablesSame
<1>6. SessionKnown'
  BY DEF SessionKnown, AccountsTypeOK, AnswersKnown
<1>7. LinksApart'
  BY NobodyAssumption DEF LinksApart, AccountsTypeOK, Process, Idle
<1>8. LoginKeeps'
  BY NobodyAssumption DEF LoginKeeps, AccountsTypeOK, Process, LinksApart, Idle
<1> QED BY <1>1, <1>2, <1>3, <1>4, <1>5, <1>6, <1>7, <1>8

LEMMA LoginLostInv ==
    ASSUME AccountsInv, NEW m \in Machines, LoginLost(m)
    PROVE  AccountsInv'
<1> USE DEF LoginLost, AccountsInv
<1>1. AccountsTypeOK'
  <2>8. /\ accepted' \in Nat /\ requests' \in Nat /\ now' \in Cids
        /\ crowded' \subseteq Cids
    BY CountAssumption DEF AccountsTypeOK, Cids
  <2>9. saved' \in [Machines -> 0..MaxSeconds]
    BY CountAssumption DEF AccountsTypeOK
  <2> QED BY <2>8, <2>9 DEF AccountsTypeOK
<1>2. Requested'
  BY NobodyAssumption DEF Requested, AccountsTypeOK, Process
<1>3. FindsFirst'
  BY NobodyAssumption DEF FindsFirst, AccountsTypeOK, Process, LinksApart, FirstRow
<1>4. AnswersKnown'
  BY NobodyAssumption DEF AnswersKnown, AccountsTypeOK, Process, LinksApart
<1>5. ClientsAreUsers' /\ ClientsOfFirst'
  BY TablesSame
<1>6. SessionKnown'
  BY DEF SessionKnown, AccountsTypeOK, AnswersKnown
<1>7. LinksApart'
  BY NobodyAssumption DEF LinksApart, AccountsTypeOK, Process
<1>8. LoginKeeps'
  BY NobodyAssumption DEF LoginKeeps, AccountsTypeOK, Process, LinksApart
<1> QED BY <1>1, <1>2, <1>3, <1>4, <1>5, <1>6, <1>7, <1>8

LEMMA SignupLostInv ==
    ASSUME AccountsInv, NEW m \in Machines, SignupLost(m)
    PROVE  AccountsInv'
<1> USE DEF SignupLost, AccountsInv
<1>1. AccountsTypeOK'
  <2>8. /\ accepted' \in Nat /\ requests' \in Nat /\ now' \in Cids
        /\ crowded' \subseteq Cids
    BY CountAssumption DEF AccountsTypeOK, Cids
  <2> QED BY <2>8 DEF AccountsTypeOK
<1>2. Requested'
  BY NobodyAssumption DEF Requested, AccountsTypeOK, Process
<1>3. FindsFirst'
  BY NobodyAssumption DEF FindsFirst, AccountsTypeOK, Process, LinksApart, FirstRow
<1>4. AnswersKnown'
  BY NobodyAssumption DEF AnswersKnown, AccountsTypeOK, Process, LinksApart
<1>5. ClientsAreUsers' /\ ClientsOfFirst'
  BY TablesSame
<1>6. SessionKnown'
  BY DEF SessionKnown, AccountsTypeOK, AnswersKnown
<1>7. LinksApart'
  BY NobodyAssumption DEF LinksApart, AccountsTypeOK, Process
<1>8. LoginKeeps'
  BY NobodyAssumption DEF LoginKeeps, AccountsTypeOK, Process, LinksApart
<1> QED BY <1>1, <1>2, <1>3, <1>4, <1>5, <1>6, <1>7, <1>8

LEMMA RestartInv ==
    ASSUME AccountsInv, NEW m \in Machines, Restart(m)
    PROVE  AccountsInv'
<1> USE DEF Restart, AccountsInv
<1>1. AccountsTypeOK'
  <2>8. /\ accepted' \in Nat /\ requests' \in Nat /\ now' \in Cids
        /\ crowded' \subseteq Cids
    BY CountAssumption DEF AccountsTypeOK, Cids
  <2> QED BY <2>8 DEF AccountsTypeOK
<1>2. Requested'
  BY NobodyAssumption DEF Requested, AccountsTypeOK, Process
<1>3. FindsFirst'
  BY NobodyAssumption DEF FindsFirst, AccountsTypeOK, Process, LinksApart, FirstRow
<1>4. AnswersKnown'
  BY NobodyAssumption DEF AnswersKnown, AccountsTypeOK, Process, LinksApart
<1>5. ClientsAreUsers' /\ ClientsOfFirst'
  BY TablesSame
<1>6. SessionKnown'
  BY DEF SessionKnown, AccountsTypeOK, AnswersKnown
<1>7. LinksApart'
  BY NobodyAssumption DEF LinksApart, AccountsTypeOK, Process
<1>8. LoginKeeps'
  BY NobodyAssumption DEF LoginKeeps, AccountsTypeOK, Process, LinksApart
<1> QED BY <1>1, <1>2, <1>3, <1>4, <1>5, <1>6, <1>7, <1>8

LEMMA TickInv ==
    ASSUME AccountsInv, Tick
    PROVE  AccountsInv'
<1> USE DEF Tick, AccountsInv
<1>1. AccountsTypeOK'
  <2>8. /\ accepted' \in Nat /\ requests' \in Nat /\ now' \in Cids
        /\ crowded' \subseteq Cids
    BY CountAssumption DEF AccountsTypeOK, Cids
  <2> QED BY <2>8 DEF AccountsTypeOK
<1>2. Requested'
  BY NobodyAssumption DEF Requested, AccountsTypeOK, Process
<1>3. FindsFirst'
  BY NobodyAssumption DEF FindsFirst, AccountsTypeOK, Process, LinksApart, FirstRow
<1>4. AnswersKnown'
  BY NobodyAssumption DEF AnswersKnown, AccountsTypeOK, Process, LinksApart
<1>5. ClientsAreUsers' /\ ClientsOfFirst'
  BY TablesSame
<1>6. SessionKnown'
  BY DEF SessionKnown, AccountsTypeOK, AnswersKnown
<1>7. LinksApart'
  BY NobodyAssumption DEF LinksApart, AccountsTypeOK, Process
<1>8. LoginKeeps'
  BY NobodyAssumption DEF LoginKeeps, AccountsTypeOK, Process, LinksApart
<1> QED BY <1>1, <1>2, <1>3, <1>4, <1>5, <1>6, <1>7, <1>8

-----------------------------------------------------------------------------
(* The theorems *)

LEMMA AccountsInitInv == AccountsInit => AccountsInv
<1> SUFFICES ASSUME AccountsInit PROVE AccountsInv
  OBVIOUS
<1> USE DEF AccountsInit
<1>1. AccountsTypeOK
  <2>1. proc \in [Handlers -> Process]
    BY CountAssumption, NobodyAssumption DEF Idle, Process
  <2>2. user \in Seq([name : UserNames, pw : Passwords])
    OBVIOUS
  <2>3. now \in Cids
    BY CountAssumption DEF Cids
  <2>4. saved \in [Machines -> 0..MaxSeconds]
    BY CountAssumption
  <2>5. names \in [Machines -> SUBSET UserNames]
    OBVIOUS
  <2> QED BY <2>1, <2>2, <2>3, <2>4, <2>5 DEF AccountsTypeOK
<1>2. Requested /\ FindsFirst /\ AnswersKnown
  BY DEF Requested, FindsFirst, AnswersKnown, Idle
<1>3. ClientsAreUsers /\ ClientsOfFirst /\ SessionKnown
  BY DEF ClientsAreUsers, ClientsOfFirst, SessionKnown
<1>4. LinksApart /\ LoginKeeps
  BY DEF LinksApart, LoginKeeps
<1> QED BY <1>1, <1>2, <1>3, <1>4 DEF AccountsInv

LEMMA AccountsStepInv == AccountsInv /\ [AccountsNext]_accountVars => AccountsInv'
<1> SUFFICES ASSUME AccountsInv, [AccountsNext]_accountVars PROVE AccountsInv'
  OBVIOUS
<1>1. CASE UNCHANGED accountVars
  BY <1>1 DEF accountVars, AccountsInv, AccountsTypeOK, Requested, FindsFirst,
     AnswersKnown, ClientsAreUsers, ClientsOfFirst, SessionKnown, LinksApart,
     LoginKeeps, FirstRow
<1>2. ASSUME NEW p \in Handlers,
             \/ CheckPassword(p) \/ CheckSession(p) \/ CheckName(p)
             \/ InsertUser(p) \/ FindUid(p) \/ InsertClient(p) \/ Die(p)
      PROVE  AccountsInv'
  BY <1>2, CheckPasswordInv, CheckSessionInv, CheckNameInv, InsertUserInv,
     FindUidInv, InsertClientInv, DieInv
<1>3. ASSUME NEW m \in Machines, NEW p \in Handlers, Connect(m, p)
      PROVE  AccountsInv'
  BY <1>3, ConnectInv
<1>4. ASSUME NEW m \in Machines, NEW n \in UserNames, NEW w \in Passwords,
             SendLogin(m, n, w) \/ SendSignup(m, n, w)
      PROVE  AccountsInv'
  BY <1>4, SendLoginInv, SendSignupInv
<1>5. ASSUME NEW m \in Machines,
             \/ LoggedIn(m) \/ BackToForm(m) \/ LoginLost(m) \/ SignupLost(m)
             \/ Restart(m)
      PROVE  AccountsInv'
  BY <1>5, LoggedInInv, BackToFormInv, LoginLostInv, SignupLostInv, RestartInv
<1>6. CASE Tick
  BY <1>6, TickInv
<1> QED BY <1>1, <1>2, <1>3, <1>4, <1>5, <1>6 DEF AccountsNext

\* A session that a machine has saved has a row in table client, whatever
\* INSERT failed and whatever process died: Tunnel never meets an unknown one.
THEOREM SessionIsKnown == AccountsSpec => []SessionKnown
<1>1. AccountsInv => SessionKnown
  BY DEF AccountsInv
<1> QED BY AccountsInitInv, AccountsStepInv, <1>1, PTL DEF AccountsSpec

\* However many signups of one name run at once, every machine is entered under
\* the first user of the name, the one whose password login() compares.
THEOREM ClientsAreOfFirst == AccountsSpec => [](AccountsTypeOK /\ ClientsOfFirst)
<1>1. AccountsInv => AccountsTypeOK /\ ClientsOfFirst
  BY DEF AccountsInv
<1> QED BY AccountsInitInv, AccountsStepInv, <1>1, PTL DEF AccountsSpec

\* A login on a machine that has a session is answered with that session: a
\* machine loses it only to a login that breaks off.
THEOREM SessionIsKept == AccountsSpec => KeepsSession
<1> DEFINE Kept ==
      \A m \in Machines : saved[m] # 0 /\ saved'[m] # saved[m] =>
          window[m] = "logging" /\ saved'[m] = 0
<1>1. AccountsInv /\ [AccountsNext]_accountVars => [Kept]_accountVars
  <2> SUFFICES ASSUME AccountsInv, AccountsNext PROVE Kept
    OBVIOUS
  <2>1. ASSUME NEW m \in Machines, LoggedIn(m) PROVE Kept
    <3>1. saved[m] # 0 => saved'[m] = saved[m]
      BY <2>1, NobodyAssumption
         DEF LoggedIn, Replied, AccountsInv, AccountsTypeOK, LoginKeeps
    <3>2. \A k \in Machines : k # m => saved'[k] = saved[k]
      BY <2>1 DEF LoggedIn, AccountsInv, AccountsTypeOK
    <3> QED BY <3>1, <3>2
  <2>2. ASSUME NEW m \in Machines, LoginLost(m) PROVE Kept
    BY <2>2 DEF LoginLost, AccountsInv, AccountsTypeOK
  <2>3. CASE saved' = saved
    BY <2>3
  <2> QED BY <2>1, <2>2, <2>3 DEF AccountsNext, CheckPassword, CheckSession,
         CheckName, InsertUser, FindUid, InsertClient, Die, ProcOnly, Connect,
         SendLogin, SendSignup, BackToForm, SignupLost, Restart, Tick
<1>2. AccountsInv /\ [AccountsNext]_accountVars => AccountsInv'
  BY AccountsStepInv
<1> QED BY AccountsInitInv, <1>1, <1>2, PTL DEF AccountsSpec, KeepsSession

-----------------------------------------------------------------------------
(* Sessions *)

Live(p) == proc[p].pc # "idle"

\* Nothing has been drawn for a second to come, nor, until a connection is
\* made in it, for this one.
DrawnByNow ==
    /\ \A p \in Handlers : Live(p) =>
          proc[p].seed <= now /\ (proc[p].seed = now => accepted # 0)
    /\ \A m \in Machines : saved[m] <= now /\ (saved[m] = now => accepted # 0)
    /\ \A c \in Cids : client[c] # 0 => c <= now /\ (c = now => accepted # 0)

\* Two processes draw the same session in a crowded second only, and a process
\* does not draw one that a machine already has.
DrawnApart ==
    /\ \A p, q \in Handlers :
          Live(p) /\ Live(q) /\ proc[p].seed = proc[q].seed =>
              p = q \/ proc[p].seed \in crowded
    /\ \A m \in Machines, p \in Handlers :
          Live(p) /\ saved[m] = proc[p].seed => proc[p].seed \in crowded

\* The insert of a process meets no row of another.
InsertsFirst ==
    \A p \in Handlers :
        Live(p) /\ proc[p].pc # "reply" /\ proc[p].seed \notin crowded =>
            client[proc[p].seed] = 0

\* The process behind a form has not been asked anything.
FormWaits ==
    \A m \in Machines : window[m] = "form" /\ link[m] # Nobody =>
        proc[link[m]].pc = "request"

\* The process works for the name and the session of the machine, and answers
\* with that session, or with the one it drew and entered under that name.
ServesLogin ==
    \A m \in Machines : window[m] = "logging" /\ link[m] # Nobody =>
        LET p == link[m] IN
        /\ proc[p].name = as[m]
        /\ proc[p].pc \in {"login", "session"} => proc[p].session = saved[m]
        /\ proc[p].pc = "reply" /\ proc[p].code = 0 =>
              \/ proc[p].session = saved[m]
              \/ /\ proc[p].session = proc[p].seed
                 /\ \/ proc[p].seed \in crowded
                    \/ client[proc[p].seed] = FirstRow(as[m])

\* A machine has finitely many names, the one it logs in with among them.
NamesItself ==
    \A m \in Machines :
        /\ IsFiniteSet(names[m])
        /\ window[m] \in {"logging", "main"} => as[m] \in names[m]

\* A saved session was entered under a name its machine has used.
SavedIsOwn ==
    \A m \in Machines : saved[m] \notin crowded \cup {0} =>
        \E n \in names[m] : client[saved[m]] = FirstRow(n)

SessionsInv ==
    /\ AccountsInv
    /\ DrawnByNow /\ DrawnApart /\ InsertsFirst /\ FormWaits /\ ServesLogin
    /\ NamesItself /\ SavedIsOwn /\ SessionIsUnique

-----------------------------------------------------------------------------
(* A step of a process *)

\* What the steps of a process have in common: it keeps what it drew and what
\* it was asked, adds no client row but that of its draw, and answers with the
\* session it was sent or with the one it drew.
WorkStep(p) ==
    /\ ProcOnly
    /\ proc[p].pc \notin {"idle", "request", "reply"}
    /\ proc' \in [Handlers -> Process]
    /\ \A q \in Handlers : q # p => proc'[q] = proc[q]
    /\ proc'[p].pc \notin {"idle", "request"}
    /\ proc'[p].seed = proc[p].seed /\ proc'[p].name = proc[p].name
    /\ client' \in [Cids -> Nat]
    /\ \A c \in Cids : client'[c] # client[c] =>
          c = proc[p].seed /\ client[c] = 0 /\ proc'[p].pc = "reply"
    /\ \A n : RowsOf(user, n) # {} => FirstOf(user', n) = FirstOf(user, n)
    /\ proc'[p].pc \in {"login", "session"} =>
          proc[p].pc \in {"login", "session"} /\ proc'[p].session = proc[p].session
    /\ proc'[p].pc = "reply" /\ proc'[p].code = 0 =>
          \/ proc[p].pc = "session" /\ proc'[p].session = proc[p].session
          \/ /\ proc'[p].session = proc[p].seed
             /\ client[proc[p].seed] = 0 =>
                   client'[proc[p].seed] = FirstOf(user', proc[p].name)
             /\ proc[p].pc = "insert"

LEMMA CheckPasswordWorks ==
    ASSUME AccountsInv, NEW p \in Handlers, CheckPassword(p)
    PROVE  WorkStep(p)
<1>1. AccountsTypeOK /\ 0 \in 0..MaxSeconds
  BY CountAssumption DEF AccountsInv
<1> client \in [Cids -> Nat]
  BY <1>1 DEF AccountsTypeOK
<1>2. ProcOnly /\ UNCHANGED <<user, client>> /\ proc[p].pc = "login"
  BY DEF CheckPassword
<1>3. ASSUME NEW c \in {1, 2}, Answer(p, c, 0) PROVE WorkStep(p)
  BY <1>1, <1>2, <1>3, AnswerProc DEF WorkStep
<1>4. CASE PGoto(p, "session")
  BY <1>1, <1>2, <1>4, GotoProc DEF WorkStep
<1> QED BY <1>3, <1>4 DEF CheckPassword

LEMMA CheckSessionWorks ==
    ASSUME AccountsInv, NEW p \in Handlers, CheckSession(p)
    PROVE  WorkStep(p)
<1>1. /\ AccountsTypeOK /\ proc[p].session \in 0..MaxSeconds
      /\ client \in [Cids -> Nat]
  BY DEF AccountsInv, AccountsTypeOK, Process
<1>2. ProcOnly /\ UNCHANGED <<user, client>> /\ proc[p].pc = "session"
  BY DEF CheckSession
<1>3. CASE PGoto(p, "uid")
  BY <1>1, <1>2, <1>3, GotoProc DEF WorkStep
<1>4. CASE Answer(p, 0, proc[p].session)
  BY <1>1, <1>2, <1>4, AnswerProc DEF WorkStep
<1> QED BY <1>3, <1>4 DEF CheckSession

LEMMA CheckNameWorks ==
    ASSUME AccountsInv, NEW p \in Handlers, CheckName(p)
    PROVE  WorkStep(p)
<1>1. AccountsTypeOK /\ 0 \in 0..MaxSeconds
  BY CountAssumption DEF AccountsInv
<1> client \in [Cids -> Nat]
  BY <1>1 DEF AccountsTypeOK
<1>2. ProcOnly /\ UNCHANGED <<user, client>> /\ proc[p].pc = "signup"
  BY DEF CheckName
<1>3. ASSUME NEW c \in {1, 2, 3}, Answer(p, c, 0) PROVE WorkStep(p)
  BY <1>1, <1>2, <1>3, AnswerProc DEF WorkStep
<1>4. CASE PGoto(p, "add")
  BY <1>1, <1>2, <1>4, GotoProc DEF WorkStep
<1> QED BY <1>3, <1>4 DEF CheckName

LEMMA InsertUserWorks ==
    ASSUME AccountsInv, NEW p \in Handlers, InsertUser(p)
    PROVE  WorkStep(p)
<1>1. /\ AccountsTypeOK /\ proc[p].name \in UserNames /\ proc[p].pw \in Passwords
      /\ user \in Users /\ client \in [Cids -> Nat]
  BY DEF AccountsInv, InsertUser, Requested, AccountsTypeOK, Users
<1>2. /\ ProcOnly /\ client' = client /\ proc[p].pc = "add" /\ PGoto(p, "uid")
      /\ user' = Append(user, [name |-> proc[p].name, pw |-> proc[p].pw])
  BY DEF InsertUser, createNewUser
<1>3. /\ user' \in Users /\ Len(user') = Len(user) + 1
      /\ \A u \in 1..Len(user) : user'[u] = user[u]
  <2> DEFINE r == [name |-> proc[p].name, pw |-> proc[p].pw]
  <2>1. r \in [name : UserNames, pw : Passwords] /\ user' = Append(user, r)
    BY <1>1, <1>2
  <2> HIDE DEF r
  <2> QED BY <1>1, <2>1, RowIsAdded
<1>4. ASSUME NEW n, RowsOf(user, n) # {}
      PROVE  FirstOf(user', n) = FirstOf(user, n)
  BY <1>1, <1>3, <1>4, FirstStays
<1> QED BY <1>1, <1>2, <1>4, GotoProc DEF WorkStep

LEMMA FindUidWorks ==
    ASSUME AccountsInv, NEW p \in Handlers, FindUid(p)
    PROVE  WorkStep(p)
<1>1. /\ user \in Users /\ proc \in [Handlers -> Process] /\ proc[p] \in Process
      /\ client \in [Cids -> Nat]
  BY DEF AccountsInv, AccountsTypeOK, Users
<1>2. ProcOnly /\ UNCHANGED <<user, client>> /\ proc[p].pc = "uid"
  BY DEF FindUid
<1>3. RowsOf(user, proc[p].name) # {}
  BY <1>2 DEF AccountsInv, FindsFirst
<1>4. PICK u \in Nat : u = FirstOf(user, proc[p].name)
  BY <1>1, <1>3, FirstIs
<1>5. proc' = [proc EXCEPT ![p] = [@ EXCEPT !.pc = "insert", !.uid = u]]
  BY <1>1, <1>4 DEF FindUid, Process, FirstRow
<1>6. [proc[p] EXCEPT !.pc = "insert", !.uid = u] \in Process
  BY <1>1, <1>4 DEF Process
<1>7. proc'[p] = [proc[p] EXCEPT !.pc = "insert", !.uid = u]
  BY <1>1, <1>5
<1>8. proc' \in [Handlers -> Process] /\ \A q \in Handlers : q # p => proc'[q] = proc[q]
  BY <1>1, <1>5, <1>6
<1>9. /\ proc'[p].pc = "insert"
      /\ proc'[p].seed = proc[p].seed /\ proc'[p].name = proc[p].name
  BY <1>1, <1>7 DEF Process
<1> QED BY <1>1, <1>2, <1>8, <1>9 DEF WorkStep

LEMMA InsertClientWorks ==
    ASSUME AccountsInv, NEW p \in Handlers, InsertClient(p)
    PROVE  WorkStep(p)
<1>1. /\ AccountsTypeOK /\ proc[p].seed \in Cids /\ proc[p].seed \in 0..MaxSeconds
      /\ user \in Users /\ client \in [Cids -> Nat]
  BY DEF AccountsInv, InsertClient, Requested, AccountsTypeOK, Process, Users
<1>2. /\ ProcOnly /\ user' = user /\ proc[p].pc = "insert"
      /\ createNewClient(proc[p].uid, proc[p].seed) /\ Answer(p, 0, proc[p].seed)
  BY DEF InsertClient
<1>3. /\ RowsOf(user, proc[p].name) # {}
      /\ proc[p].uid = FirstOf(user, proc[p].name)
  BY <1>2 DEF AccountsInv, FindsFirst, FirstRow
<1> proc[p].uid \in 1..Len(user) /\ proc[p].uid \in Nat
  <2>1. FirstOf(user, proc[p].name) \in 1..Len(user)
    BY <1>1, <1>3, FirstIs
  <2> QED BY <1>3, <2>1
<1>4. /\ client' \in [Cids -> Nat]
      /\ \A c \in Cids : client'[c] # client[c] =>
            c = proc[p].seed /\ client[c] = 0
      /\ client[proc[p].seed] = 0 => client'[proc[p].seed] = proc[p].uid
  BY <1>1, <1>2, <1>3 DEF createNewClient
<1>5. /\ proc' \in [Handlers -> Process]
      /\ \A q \in Handlers : q # p => proc'[q] = proc[q]
      /\ proc'[p].pc = "reply" /\ proc'[p].session = proc[p].seed
      /\ proc'[p].seed = proc[p].seed /\ proc'[p].name = proc[p].name
  BY <1>1, <1>2, AnswerProc
<1> QED BY <1>2, <1>3, <1>4, <1>5 DEF WorkStep

LEMMA WorkStepInv ==
    ASSUME SessionsInv, AccountsInv', NEW p \in Handlers, WorkStep(p)
    PROVE  SessionsInv'
<1> USE DEF WorkStep, ProcOnly
<1>1. /\ \A q \in Handlers : (Live(q))' = Live(q) /\ proc'[q].seed = proc[q].seed
      /\ \A q \in Handlers : Live(q) => proc[q].seed \in Cids
      /\ \A q \in Handlers : q # p => proc'[q] = proc[q]
      /\ Live(p)
  BY DEF SessionsInv, AccountsInv, Requested, Live
<1>2. DrawnByNow'
  BY <1>1 DEF SessionsInv, DrawnByNow
<1>3. DrawnApart'
  BY <1>1 DEF SessionsInv, DrawnApart
<1>4. InsertsFirst'
  <2> SUFFICES ASSUME NEW q \in Handlers, Live(q), proc'[q].pc # "reply",
                      proc[q].seed \notin crowded
               PROVE  client'[proc[q].seed] = 0
    BY <1>1 DEF InsertsFirst
  <2>1. proc[q].pc # "reply"
    BY <1>1
  <2>2. client[proc[q].seed] = 0 /\ proc[q].seed \in Cids
    BY <1>1, <2>1 DEF SessionsInv, InsertsFirst
  <2>3. CASE q = p
    BY <2>2, <2>3
  <2>4. CASE q # p
    <3>1. proc[q].seed # proc[p].seed
      BY <1>1, <2>4 DEF SessionsInv, DrawnApart
    <3> QED BY <2>2, <3>1
  <2> QED BY <2>3, <2>4
<1>5. FormWaits'
  <2> SUFFICES ASSUME NEW m \in Machines, window[m] = "form", link[m] # Nobody
               PROVE  proc'[link[m]].pc = "request"
    BY DEF FormWaits
  <2>1. link[m] \in Handlers /\ proc[link[m]].pc = "request"
    BY DEF SessionsInv, AccountsInv, AccountsTypeOK, FormWaits
  <2> QED BY <1>1, <2>1
<1>6. \A c \in Cids : client[c] # 0 => client'[c] = client[c]
  OBVIOUS
<1>7. \A n : FirstRow(n) # 0 => FirstOf(user', n) = FirstRow(n)
  BY DEF FirstRow, FirstOf
<1>8. ServesLogin'
  <2> SUFFICES ASSUME NEW m \in Machines, window[m] = "logging", link[m] # Nobody
               PROVE  /\ proc'[link[m]].name = as[m]
                      /\ proc'[link[m]].pc \in {"login", "session"} =>
                            proc'[link[m]].session = saved[m]
                      /\ proc'[link[m]].pc = "reply" /\ proc'[link[m]].code = 0 =>
                            \/ proc'[link[m]].session = saved[m]
                            \/ /\ proc'[link[m]].session = proc'[link[m]].seed
                               /\ \/ proc'[link[m]].seed \in crowded
                                  \/ client'[proc'[link[m]].seed] = FirstOf(user', as[m])
    BY DEF ServesLogin, FirstRow
  <2> DEFINE q == link[m]
  <2>1. q \in Handlers /\ Live(q) /\ q # Nobody
    BY DEF SessionsInv, AccountsInv, AccountsTypeOK, LinksApart, Live
  <2>2. /\ proc[q].name = as[m]
        /\ proc[q].pc \in {"login", "session"} => proc[q].session = saved[m]
        /\ proc[q].pc = "reply" /\ proc[q].code = 0 =>
              \/ proc[q].session = saved[m]
              \/ /\ proc[q].session = proc[q].seed
                 /\ \/ proc[q].seed \in crowded
                    \/ client[proc[q].seed] = FirstRow(as[m])
    BY DEF SessionsInv, ServesLogin
  <2> HIDE DEF q
  <2>3. CASE q # p
    <3>1. proc'[q] = proc[q] /\ proc[q].seed \in Cids
      BY <1>1, <2>1, <2>3
    <3>2. proc[q].pc = "reply" /\ proc[q].code = 0 => client[proc[q].session] # 0
      BY <2>1 DEF SessionsInv, AccountsInv, AnswersKnown
    <3>3. proc[q].pc = "reply" /\ proc[q].code = 0 /\ proc[q].session = proc[q].seed
            /\ client[proc[q].seed] = FirstRow(as[m]) =>
            client'[proc[q].seed] = FirstOf(user', as[m])
      BY <1>6, <1>7, <3>1, <3>2
    <3>4. /\ proc'[q].name = as[m]
          /\ proc'[q].pc \in {"login", "session"} => proc'[q].session = saved[m]
          /\ proc'[q].pc = "reply" /\ proc'[q].code = 0 =>
                \/ proc'[q].session = saved[m]
                \/ /\ proc'[q].session = proc'[q].seed
                   /\ \/ proc'[q].seed \in crowded
                      \/ client'[proc'[q].seed] = FirstOf(user', as[m])
      BY <2>2, <3>1, <3>3
    <3> QED BY <3>4 DEF q
  <2>4. CASE q = p
    <3>1. proc[p].seed \notin crowded => client[proc[p].seed] = 0
      BY <1>1 DEF SessionsInv, InsertsFirst
    <3>2. /\ proc'[q].name = as[m]
          /\ proc'[q].pc \in {"login", "session"} => proc'[q].session = saved[m]
          /\ proc'[q].pc = "reply" /\ proc'[q].code = 0 =>
                \/ proc'[q].session = saved[m]
                \/ /\ proc'[q].session = proc'[q].seed
                   /\ \/ proc'[q].seed \in crowded
                      \/ client'[proc'[q].seed] = FirstOf(user', as[m])
      BY <2>2, <2>4, <3>1
    <3> QED BY <3>2 DEF q
  <2> QED BY <2>3, <2>4
<1>9. NamesItself'
  BY DEF SessionsInv, NamesItself
<1>10. SavedIsOwn'
  <2> SUFFICES ASSUME NEW m \in Machines, saved[m] \notin crowded \cup {0}
               PROVE  \E n \in names[m] : client'[saved[m]] = FirstOf(user', n)
    BY DEF SavedIsOwn, FirstRow
  <2>1. PICK n \in names[m] : client[saved[m]] = FirstRow(n)
    BY DEF SessionsInv, SavedIsOwn
  <2>2. saved[m] \in Cids /\ client[saved[m]] # 0
    BY DEF SessionsInv, AccountsInv, AccountsTypeOK, SessionKnown, Cids
  <2> QED BY <1>6, <1>7, <2>1, <2>2
<1>11. SessionIsUnique'
  BY DEF SessionsInv, SessionIsUnique
<1> QED BY <1>2, <1>3, <1>4, <1>5, <1>8, <1>9, <1>10, <1>11 DEF SessionsInv

-----------------------------------------------------------------------------
(* A step in which a process or a machine leaves *)

\* Nothing is drawn or entered; a process may go, a link be lost, a session be
\* forgotten.
LeaveStep ==
    /\ UNCHANGED <<user, client, as, names, now, accepted, crowded>>
    /\ \A q \in Handlers : proc'[q] = proc[q] \/ proc'[q] = Idle
    /\ \A m \in Machines : link'[m] # Nobody =>
          /\ link'[m] = link[m] /\ proc'[link[m]] = proc[link[m]]
          /\ window'[m] = window[m] /\ saved'[m] = saved[m]
    /\ \A m \in Machines : window'[m] \in {"logging", "main"} =>
          window[m] \in {"logging", "main"}
    /\ \A m \in Machines : saved'[m] \in {saved[m], 0}

LEMMA LeaveStepInv ==
    ASSUME SessionsInv, AccountsInv', LeaveStep
    PROVE  SessionsInv'
<1> USE DEF LeaveStep
<1>1. /\ \A q \in Handlers : (Live(q))' => Live(q) /\ proc'[q] = proc[q]
      /\ \A q \in Handlers : Live(q) => proc[q].seed # 0
      /\ now > 0
      /\ \A m \in Machines : link[m] # Nobody => link[m] \in Handlers
  BY DEF SessionsInv, AccountsInv, AccountsTypeOK, Requested, Live, Idle, Cids
<1>2. DrawnByNow'
  <2>1. DrawnByNow
    BY DEF SessionsInv
  <2>2. \A m \in Machines : saved'[m] <= now /\ (saved'[m] = now => accepted # 0)
    <3> SUFFICES ASSUME NEW m \in Machines
                 PROVE  saved'[m] <= now /\ (saved'[m] = now => accepted # 0)
      OBVIOUS
    <3>1. CASE saved'[m] = saved[m]
      BY <2>1, <3>1 DEF DrawnByNow
    <3>2. CASE saved'[m] = 0
      <4>1. now \in Nat
        BY DEF SessionsInv, AccountsInv, AccountsTypeOK, Cids
      <4> QED BY <1>1, <3>2, <4>1
    <3> QED BY <3>1, <3>2
  <2>3. \A q \in Handlers : (Live(q))' =>
          proc'[q].seed <= now /\ (proc'[q].seed = now => accepted # 0)
    BY <1>1, <2>1 DEF DrawnByNow
  <2> QED BY <2>1, <2>2, <2>3 DEF DrawnByNow
<1>3. DrawnApart'
  BY <1>1 DEF SessionsInv, DrawnApart
<1>4. InsertsFirst'
  BY <1>1 DEF SessionsInv, InsertsFirst
<1>5. FormWaits'
  BY <1>1 DEF SessionsInv, FormWaits
<1>6. ServesLogin'
  <2> SUFFICES ASSUME NEW m \in Machines, window'[m] = "logging", link'[m] # Nobody
               PROVE  LET p == link'[m] IN
                      /\ proc'[p].name = as[m]
                      /\ proc'[p].pc \in {"login", "session"} => proc'[p].session = saved'[m]
                      /\ proc'[p].pc = "reply" /\ proc'[p].code = 0 =>
                            \/ proc'[p].session = saved'[m]
                            \/ /\ proc'[p].session = proc'[p].seed
                               /\ \/ proc'[p].seed \in crowded
                                  \/ client[proc'[p].seed] = FirstOf(user, as[m])
    BY DEF ServesLogin, FirstRow
  <2>1. /\ link'[m] = link[m] /\ proc'[link[m]] = proc[link[m]]
        /\ window[m] = "logging" /\ saved'[m] = saved[m] /\ link[m] # Nobody
    <3>1. window'[m] = window[m] /\ link'[m] = link[m] /\ link'[m] # Nobody
      OBVIOUS
    <3> QED BY <3>1
  <2>2. ServesLogin
    BY DEF SessionsInv
  <2>3. LET p == link[m] IN
        /\ proc[p].name = as[m]
        /\ proc[p].pc \in {"login", "session"} => proc[p].session = saved[m]
        /\ proc[p].pc = "reply" /\ proc[p].code = 0 =>
              \/ proc[p].session = saved[m]
              \/ /\ proc[p].session = proc[p].seed
                 /\ \/ proc[p].seed \in crowded
                    \/ client[proc[p].seed] = FirstOf(user, as[m])
    BY <2>1, <2>2 DEF ServesLogin, FirstRow
  <2> QED BY <2>1, <2>3
<1>7. NamesItself'
  BY DEF SessionsInv, NamesItself
<1>8. SavedIsOwn'
  <2> SUFFICES ASSUME NEW m \in Machines, saved'[m] \notin crowded \cup {0}
               PROVE  \E n \in names[m] : client[saved'[m]] = FirstOf(user, n)
    BY DEF SavedIsOwn, FirstRow
  <2>1. saved'[m] = saved[m]
    OBVIOUS
  <2> QED BY <2>1 DEF SessionsInv, SavedIsOwn, FirstRow
<1>9. SessionIsUnique'
  <2> SUFFICES ASSUME NEW m \in Machines, NEW k \in Machines,
                      saved'[m] \notin crowded \cup {0}, saved'[m] = saved'[k]
               PROVE  m = k
    BY DEF SessionIsUnique
  <2>1. saved'[m] = saved[m] /\ saved'[k] = saved[k]
    OBVIOUS
  <2>2. SessionIsUnique
    BY DEF SessionsInv
  <2> QED BY <2>1, <2>2 DEF SessionIsUnique
<1> QED BY <1>2, <1>3, <1>4, <1>5, <1>6, <1>7, <1>8, <1>9 DEF SessionsInv

\* A process whose machine hangs up serves no other machine.
LEMMA HangupLeaves ==
    ASSUME AccountsInv, NEW m \in Machines, Replied(m), Hangup(m)
    PROVE  /\ \A q \in Handlers : proc'[q] = proc[q] \/ proc'[q] = Idle
           /\ \A k \in Machines : link'[k] # Nobody =>
                 k # m /\ link'[k] = link[k] /\ proc'[link[k]] = proc[link[k]]
<1>1. /\ link \in [Machines -> Handlers \cup {Nobody}]
      /\ proc \in [Handlers -> Process] /\ LinksApart
  BY DEF AccountsInv, AccountsTypeOK
<1>2. link[m] # Nobody
  BY DEF Replied
<1>3. \A q \in Handlers : proc'[q] = IF q = link[m] THEN Idle ELSE proc[q]
  BY <1>1 DEF Hangup
<1>4. \A k \in Machines : link'[k] = IF k = m THEN Nobody ELSE link[k]
  BY <1>1 DEF Hangup
<1>5. \A k \in Machines : link[k] # Nobody /\ link[k] = link[m] => k = m
  BY <1>1 DEF LinksApart
<1> QED BY <1>1, <1>2, <1>3, <1>4, <1>5

LEMMA MachineLeaves ==
    ASSUME AccountsInv, NEW m \in Machines,
           BackToForm(m) \/ LoginLost(m) \/ SignupLost(m) \/ Restart(m)
    PROVE  LeaveStep
<1>1. /\ window \in [Machines -> {"start", "form", "logging", "signing", "main"}]
      /\ link \in [Machines -> Handlers \cup {Nobody}]
      /\ saved \in [Machines -> 0..MaxSeconds]
  BY DEF AccountsInv, AccountsTypeOK
<1>2. CASE BackToForm(m)
  <2>1. Replied(m) /\ Hangup(m)
    BY <1>2 DEF BackToForm
  <2>2. /\ \A q \in Handlers : proc'[q] = proc[q] \/ proc'[q] = Idle
        /\ \A k \in Machines : link'[k] # Nobody =>
              k # m /\ link'[k] = link[k] /\ proc'[link[k]] = proc[link[k]]
    BY <2>1, HangupLeaves
  <2> QED BY <1>1, <1>2, <2>2 DEF BackToForm, LeaveStep
<1>3. CASE LoginLost(m)
  BY <1>1, <1>3 DEF LoginLost, LeaveStep
<1>4. CASE SignupLost(m)
  BY <1>1, <1>4 DEF SignupLost, LeaveStep
<1>5. CASE Restart(m)
  BY <1>1, <1>5 DEF Restart, LeaveStep
<1> QED BY <1>2, <1>3, <1>4, <1>5

LEMMA DieLeaves ==
    ASSUME AccountsInv, NEW p \in Handlers, Die(p)
    PROVE  LeaveStep
<1>1. /\ link \in [Machines -> Handlers \cup {Nobody}]
      /\ proc \in [Handlers -> Process]
  BY DEF AccountsInv, AccountsTypeOK
<1>2. \A q \in Handlers : proc'[q] = IF q = p THEN Idle ELSE proc[q]
  BY <1>1 DEF Die
<1>3. \A k \in Machines : link'[k] = IF link[k] = p THEN Nobody ELSE link[k]
  BY <1>1 DEF Die
<1> QED BY <1>1, <1>2, <1>3 DEF Die, LeaveStep

-----------------------------------------------------------------------------
(* The other steps of a machine, and of the clock *)

\* A session is drawn: nothing has been drawn or entered for this second, or
\* it becomes a crowded one.
LEMMA ConnectSessions ==
    ASSUME SessionsInv, AccountsInv', NEW m \in Machines, NEW p \in Handlers,
           Connect(m, p)
    PROVE  SessionsInv'
<1>1. /\ proc \in [Handlers -> Process] /\ proc[p] \in Process
      /\ link \in [Machines -> Handlers \cup {Nobody}]
      /\ window \in [Machines -> {"start", "form", "logging", "signing", "main"}]
      /\ now \in Nat /\ accepted \in Nat /\ now \in Cids /\ crowded \subseteq Cids
      /\ \A k \in Machines : saved[k] \in Nat
      /\ \A k \in Machines : link[k] # Nobody => Live(link[k])
      /\ \A q \in Handlers : Live(q) => proc[q].seed \in Cids
      /\ proc[p].pc = "idle" /\ p # Nobody
  BY NobodyAssumption DEF SessionsInv, AccountsInv, AccountsTypeOK, Cids, LinksApart,
     Live, Connect, Requested
<1>2. /\ UNCHANGED <<user, client, as, saved, names, now>>
      /\ accepted' # 0 /\ crowded \subseteq crowded'
      /\ accepted # 0 => now \in crowded'
  BY <1>1 DEF Connect
<1>3. /\ \A q \in Handlers : q # p => proc'[q] = proc[q]
      /\ proc'[p].pc = "request" /\ proc'[p].seed = now
  <2>1. proc' = [proc EXCEPT ![p] = [@ EXCEPT !.pc = "request", !.seed = now]]
    BY <1>1 DEF Connect, Process
  <2>2. proc'[p] = [proc[p] EXCEPT !.pc = "request", !.seed = now]
    BY <1>1, <2>1
  <2> QED BY <1>1, <2>1, <2>2 DEF Process
<1>4. /\ \A k \in Machines : k # m => link'[k] = link[k] /\ window'[k] = window[k]
      /\ link'[m] = p /\ window'[m] = "form"
  BY <1>1 DEF Connect
<1>5. \A q \in Handlers : (Live(q))' => q = p \/ Live(q)
  BY <1>3 DEF Live
<1>6. \A k \in Machines : k # m /\ link[k] # Nobody =>
        link[k] \in Handlers /\ link[k] # p /\ proc'[link[k]] = proc[link[k]]
  BY <1>1, <1>3 DEF Live
<1>7. DrawnByNow'
  <2>1. \A q \in Handlers : (Live(q))' => proc'[q].seed <= now
    BY <1>1, <1>3, <1>5 DEF SessionsInv, DrawnByNow
  <2> QED BY <1>2, <2>1 DEF SessionsInv, DrawnByNow
<1>8. DrawnApart'
  <2>1. ASSUME NEW q \in Handlers, Live(q), proc[q].seed = now
        PROVE  now \in crowded'
    BY <1>2, <2>1 DEF SessionsInv, DrawnByNow
  <2>2. ASSUME NEW k \in Machines, saved[k] = now
        PROVE  now \in crowded'
    BY <1>2, <2>2 DEF SessionsInv, DrawnByNow
  <2>3. ASSUME NEW q \in Handlers, NEW r \in Handlers, (Live(q))', (Live(r))',
               proc'[q].seed = proc'[r].seed, q # r
        PROVE  proc'[q].seed \in crowded'
    <3>1. CASE q = p
      BY <1>3, <1>5, <2>1, <2>3, <3>1
    <3>2. CASE r = p
      BY <1>3, <1>5, <2>1, <2>3, <3>2
    <3>3. CASE q # p /\ r # p
      BY <1>2, <1>3, <1>5, <2>3, <3>3 DEF SessionsInv, DrawnApart
    <3> QED BY <3>1, <3>2, <3>3
  <2>4. ASSUME NEW k \in Machines, NEW q \in Handlers, (Live(q))',
               saved[k] = proc'[q].seed
        PROVE  proc'[q].seed \in crowded'
    <3>1. CASE q = p
      BY <1>3, <2>2, <2>4, <3>1
    <3>2. CASE q # p
      BY <1>2, <1>3, <1>5, <2>4, <3>2 DEF SessionsInv, DrawnApart
    <3> QED BY <3>1, <3>2
  <2> QED BY <1>2, <2>3, <2>4 DEF DrawnApart
<1>9. InsertsFirst'
  <2> SUFFICES ASSUME NEW q \in Handlers, (Live(q))', proc'[q].pc # "reply",
                      proc'[q].seed \notin crowded'
               PROVE  client[proc'[q].seed] = 0
    BY <1>2 DEF InsertsFirst
  <2>1. CASE q = p
    BY <1>1, <1>2, <1>3, <2>1 DEF SessionsInv, DrawnByNow
  <2>2. CASE q # p
    BY <1>2, <1>3, <1>5, <2>2 DEF SessionsInv, InsertsFirst
  <2> QED BY <2>1, <2>2
<1>10. FormWaits'
  BY <1>3, <1>4, <1>6 DEF SessionsInv, FormWaits
<1>11. ServesLogin'
  <2> SUFFICES ASSUME NEW k \in Machines, window'[k] = "logging", link'[k] # Nobody
               PROVE  LET q == link'[k] IN
                      /\ proc'[q].name = as[k]
                      /\ proc'[q].pc \in {"login", "session"} => proc'[q].session = saved[k]
                      /\ proc'[q].pc = "reply" /\ proc'[q].code = 0 =>
                            \/ proc'[q].session = saved[k]
                            \/ /\ proc'[q].session = proc'[q].seed
                               /\ \/ proc'[q].seed \in crowded'
                                  \/ client[proc'[q].seed] = FirstOf(user, as[k])
    BY <1>2 DEF ServesLogin, FirstRow
  <2>1. /\ link'[k] = link[k] /\ proc'[link[k]] = proc[link[k]]
        /\ window[k] = "logging" /\ link[k] # Nobody
    BY <1>4, <1>6
  <2>2. ServesLogin
    BY DEF SessionsInv
  <2> QED BY <1>2, <2>1, <2>2 DEF ServesLogin, FirstRow
<1>12. NamesItself'
  BY <1>2, <1>4 DEF SessionsInv, NamesItself
<1>13. SavedIsOwn' /\ SessionIsUnique'
  BY <1>2 DEF SessionsInv, SavedIsOwn, SessionIsUnique, FirstRow
<1> QED BY <1>7, <1>8, <1>9, <1>10, <1>11, <1>12, <1>13 DEF SessionsInv

\* What a request changes of the processes.
LEMMA SendProc ==
    ASSUME SessionsInv, NEW m \in Machines, NEW n \in UserNames,
           NEW w \in Passwords, NEW l \in {"login", "signup"},
           NEW s \in 0..MaxSeconds, Send(m, n, w, l, s)
    PROVE  /\ \A q \in Handlers : (Live(q))' = Live(q) /\ proc'[q].seed = proc[q].seed
           /\ \A q \in Handlers : q # link[m] => proc'[q] = proc[q]
           /\ link[m] # Nobody =>
                 /\ link[m] \in Handlers /\ proc[link[m]].pc = "request"
                 /\ proc'[link[m]].pc = l /\ proc'[link[m]].name = n
                 /\ proc'[link[m]].session = s
           /\ \A k \in Machines : k # m /\ link[k] # Nobody =>
                 link[k] \in Handlers /\ proc'[link[k]] = proc[link[k]]
<1>1. /\ proc \in [Handlers -> Process] /\ link \in [Machines -> Handlers \cup {Nobody}]
      /\ Nobody \notin Handlers /\ LinksApart
      /\ link[m] # Nobody => proc[link[m]].pc = "request"
  BY NobodyAssumption DEF SessionsInv, AccountsInv, AccountsTypeOK, FormWaits, Send
<1>2. CASE link[m] = Nobody
  <2>1. proc' = proc
    BY <1>2 DEF Send
  <2> QED BY <1>1, <1>2, <2>1 DEF Live
<1>3. CASE link[m] # Nobody
  <2>1. link[m] \in Handlers /\ proc[link[m]] \in Process
    BY <1>1, <1>3
  <2>2. proc' = [proc EXCEPT ![link[m]] = [@ EXCEPT !.pc = l,
                    !.name = n, !.pw = w, !.session = s]]
    BY <1>3 DEF Send
  <2>3. proc'[link[m]] = [proc[link[m]] EXCEPT !.pc = l,
                    !.name = n, !.pw = w, !.session = s]
    BY <1>1, <2>1, <2>2
  <2>4. /\ proc'[link[m]].pc = l /\ proc'[link[m]].name = n
        /\ proc'[link[m]].session = s
        /\ proc'[link[m]].seed = proc[link[m]].seed
    BY <2>1, <2>3 DEF Process
  <2>5. \A q \in Handlers : q # link[m] => proc'[q] = proc[q]
    BY <1>1, <2>1, <2>2
  <2>6. \A k \in Machines : k # m /\ link[k] # Nobody =>
          link[k] \in Handlers /\ link[k] # link[m]
    BY <1>1, <1>3 DEF LinksApart
  <2>7. \A q \in Handlers : (Live(q))' = Live(q) /\ proc'[q].seed = proc[q].seed
    BY <1>1, <1>3, <2>4, <2>5 DEF Live
  <2> QED BY <1>1, <1>3, <2>1, <2>4, <2>5, <2>6, <2>7
<1> QED BY <1>2, <1>3

LEMMA SendSessions ==
    ASSUME SessionsInv, AccountsInv', NEW m \in Machines, NEW n \in UserNames,
           NEW w \in Passwords, SendLogin(m, n, w) \/ SendSignup(m, n, w)
    PROVE  SessionsInv'
<1>1. /\ window \in [Machines -> {"start", "form", "logging", "signing", "main"}]
      /\ as \in [Machines -> UserNames \cup {Nobody}]
      /\ names \in [Machines -> SUBSET UserNames]
      /\ saved[m] \in 0..MaxSeconds
  BY DEF SessionsInv, AccountsInv, AccountsTypeOK
<1> 0 \in 0..MaxSeconds
  BY CountAssumption
<1>2. PICK l \in {"login", "signup"}, s \in 0..MaxSeconds :
        /\ Send(m, n, w, l, s)
        /\ SendLogin(m, n, w) => l = "login" /\ s = saved[m]
  BY <1>1 DEF SendLogin, SendSignup
<1>3. UNCHANGED <<user, client, link, saved, now, accepted, crowded>>
  BY DEF SendLogin, SendSignup
<1>4. /\ \A q \in Handlers : (Live(q))' = Live(q) /\ proc'[q].seed = proc[q].seed
      /\ \A q \in Handlers : q # link[m] => proc'[q] = proc[q]
      /\ link[m] # Nobody =>
            /\ link[m] \in Handlers /\ proc[link[m]].pc = "request"
            /\ proc'[link[m]].pc = l /\ proc'[link[m]].name = n
            /\ proc'[link[m]].session = s
      /\ \A k \in Machines : k # m /\ link[k] # Nobody =>
            link[k] \in Handlers /\ proc'[link[k]] = proc[link[k]]
  BY <1>2, SendProc
<1>5. /\ \A k \in Machines : k # m => window'[k] = window[k] /\ as'[k] = as[k]
                                        /\ names'[k] = names[k]
      /\ SendLogin(m, n, w) => window'[m] = "logging" /\ as'[m] = n
                                 /\ names'[m] = names[m] \cup {n}
      /\ SendSignup(m, n, w) => window'[m] = "signing" /\ names'[m] = names[m]
  BY <1>1 DEF SendLogin, SendSignup
<1>6. DrawnByNow' /\ DrawnApart'
  BY <1>3, <1>4 DEF SessionsInv, DrawnByNow, DrawnApart
<1>7. InsertsFirst'
  <2>1. \A q \in Handlers : Live(q) /\ proc'[q].pc # "reply" => proc[q].pc # "reply"
    BY <1>4, NobodyAssumption
  <2> QED BY <1>3, <1>4, <2>1 DEF SessionsInv, InsertsFirst
<1>8. FormWaits'
  BY <1>3, <1>4, <1>5 DEF SessionsInv, FormWaits
<1>9. ServesLogin'
  <2> SUFFICES ASSUME NEW k \in Machines, window'[k] = "logging", link[k] # Nobody
               PROVE  /\ proc'[link[k]].name = as'[k]
                      /\ proc'[link[k]].pc \in {"login", "session"} =>
                            proc'[link[k]].session = saved[k]
                      /\ proc'[link[k]].pc = "reply" /\ proc'[link[k]].code = 0 =>
                            \/ proc'[link[k]].session = saved[k]
                            \/ /\ proc'[link[k]].session = proc'[link[k]].seed
                               /\ \/ proc'[link[k]].seed \in crowded
                                  \/ client[proc'[link[k]].seed] = FirstOf(user, as'[k])
    BY <1>3 DEF ServesLogin, FirstRow
  <2>1. CASE k = m
    BY <1>2, <1>4, <1>5, <2>1
  <2>2. CASE k # m
    BY <1>4, <1>5, <2>2 DEF SessionsInv, ServesLogin, FirstRow
  <2> QED BY <2>1, <2>2
<1>10. NamesItself'
  <2>1. \A k \in Machines : IsFiniteSet(names'[k])
    <3> SUFFICES ASSUME NEW k \in Machines PROVE IsFiniteSet(names'[k])
      OBVIOUS
    <3>1. IsFiniteSet(names[k])
      BY DEF SessionsInv, NamesItself
    <3>2. names'[k] = names[k] \/ names'[k] = names[k] \cup {n}
      BY <1>5
    <3> QED BY <3>1, <3>2, FS_AddElement
  <2> QED BY <1>5, <2>1 DEF SessionsInv, NamesItself
<1>11. SavedIsOwn'
  <2>1. \A k \in Machines : names[k] \subseteq names'[k]
    BY <1>5
  <2> QED BY <1>3, <2>1 DEF SessionsInv, SavedIsOwn, FirstRow
<1>12. SessionIsUnique'
  BY <1>3 DEF SessionsInv, SessionIsUnique
<1> QED BY <1>6, <1>7, <1>8, <1>9, <1>10, <1>11, <1>12 DEF SessionsInv

\* The session that is saved is the machine's own, or the one its process drew
\* for it.
LEMMA LoggedInSessions ==
    ASSUME SessionsInv, AccountsInv', NEW m \in Machines, LoggedIn(m)
    PROVE  SessionsInv'
<1> DEFINE p == link[m]
<1>1. /\ window \in [Machines -> {"start", "form", "logging", "signing", "main"}]
      /\ link \in [Machines -> Handlers \cup {Nobody}]
      /\ saved \in [Machines -> 0..MaxSeconds]
      /\ proc \in [Handlers -> Process]
      /\ p \in Handlers /\ p # Nobody /\ Live(p) /\ proc[p].pc = "reply"
      /\ proc[p].code = 0 /\ window[m] = "logging"
  BY DEF SessionsInv, AccountsInv, AccountsTypeOK, LoggedIn, Replied, Live
<1>2. /\ UNCHANGED <<user, client, as, names, now, accepted, crowded>>
      /\ saved'[m] = proc[p].session /\ window'[m] = "main"
      /\ \A k \in Machines : k # m => saved'[k] = saved[k] /\ window'[k] = window[k]
  BY <1>1 DEF LoggedIn
<1>3. /\ \A q \in Handlers : proc'[q] = proc[q] \/ proc'[q] = Idle
      /\ \A k \in Machines : link'[k] # Nobody =>
            k # m /\ link'[k] = link[k] /\ proc'[link[k]] = proc[link[k]]
      /\ proc'[p] = Idle
  <2>1. Replied(m) /\ Hangup(m) /\ AccountsInv
    BY DEF LoggedIn, SessionsInv
  <2>2. proc'[p] = Idle
    BY <1>1, <2>1 DEF Hangup
  <2> QED BY <2>1, <2>2, HangupLeaves
<1>4. \A q \in Handlers : (Live(q))' => Live(q) /\ proc'[q] = proc[q] /\ q # p
  BY <1>3 DEF Live, Idle
<1>5. as[m] \in names[m]
  BY <1>1 DEF SessionsInv, NamesItself
<1>6. \/ saved'[m] = saved[m]
      \/ /\ saved'[m] = proc[p].seed
         /\ proc[p].seed \in crowded \/ client[proc[p].seed] = FirstRow(as[m])
  BY <1>1, <1>2 DEF SessionsInv, ServesLogin
<1> HIDE DEF p
<1>7. DrawnByNow'
  <2>1. DrawnByNow
    BY DEF SessionsInv
  <2>2. saved'[m] <= now /\ (saved'[m] = now => accepted # 0)
    BY <1>1, <1>6, <2>1 DEF DrawnByNow
  <2>3. \A q \in Handlers : (Live(q))' =>
          proc'[q].seed <= now /\ (proc'[q].seed = now => accepted # 0)
    BY <1>4, <2>1 DEF DrawnByNow
  <2> QED BY <1>2, <2>1, <2>2, <2>3 DEF DrawnByNow
<1>8. DrawnApart'
  <2>1. DrawnApart
    BY DEF SessionsInv
  <2>2. ASSUME NEW q \in Handlers, (Live(q))', saved'[m] = proc'[q].seed
        PROVE  proc'[q].seed \in crowded
    BY <1>1, <1>4, <1>6, <2>1, <2>2 DEF DrawnApart
  <2>3. ASSUME NEW k \in Machines, k # m, NEW q \in Handlers, (Live(q))',
               saved'[k] = proc'[q].seed
        PROVE  proc'[q].seed \in crowded
    BY <1>2, <1>4, <2>1, <2>3 DEF DrawnApart
  <2>4. ASSUME NEW q \in Handlers, NEW r \in Handlers, (Live(q))', (Live(r))',
               proc'[q].seed = proc'[r].seed
        PROVE  q = r \/ proc'[q].seed \in crowded
    BY <1>4, <2>1, <2>4 DEF DrawnApart
  <2> QED BY <1>2, <2>2, <2>3, <2>4 DEF DrawnApart
<1>9. InsertsFirst'
  BY <1>2, <1>4 DEF SessionsInv, InsertsFirst
<1>10. FormWaits'
  BY <1>2, <1>3 DEF SessionsInv, FormWaits
<1>11. ServesLogin'
  <2> SUFFICES ASSUME NEW k \in Machines, window'[k] = "logging", link'[k] # Nobody
               PROVE  LET q == link'[k] IN
                      /\ proc'[q].name = as[k]
                      /\ proc'[q].pc \in {"login", "session"} => proc'[q].session = saved'[k]
                      /\ proc'[q].pc = "reply" /\ proc'[q].code = 0 =>
                            \/ proc'[q].session = saved'[k]
                            \/ /\ proc'[q].session = proc'[q].seed
                               /\ \/ proc'[q].seed \in crowded
                                  \/ client[proc'[q].seed] = FirstOf(user, as[k])
    BY <1>2 DEF ServesLogin, FirstRow
  <2>1. /\ k # m /\ link'[k] = link[k] /\ proc'[link[k]] = proc[link[k]]
        /\ window[k] = "logging" /\ saved'[k] = saved[k] /\ link[k] # Nobody
    BY <1>2, <1>3
  <2>2. ServesLogin
    BY DEF SessionsInv
  <2> QED BY <2>1, <2>2 DEF ServesLogin, FirstRow
<1>12. NamesItself'
  BY <1>1, <1>2, <1>5 DEF SessionsInv, NamesItself
<1>13. SavedIsOwn'
  <2> SUFFICES ASSUME NEW k \in Machines, saved'[k] \notin crowded \cup {0}
               PROVE  \E n \in names[k] : client[saved'[k]] = FirstOf(user, n)
    BY <1>2 DEF SavedIsOwn, FirstRow
  <2>1. CASE saved'[k] = saved[k]
    BY <2>1 DEF SessionsInv, SavedIsOwn, FirstRow
  <2>2. CASE saved'[k] # saved[k]
    <3>1. k = m /\ saved'[m] = proc[p].seed /\ client[proc[p].seed] = FirstRow(as[m])
      BY <1>2, <1>6, <2>2
    <3> QED BY <1>5, <3>1 DEF FirstRow
  <2> QED BY <2>1, <2>2
<1>14. SessionIsUnique'
  <2> SUFFICES ASSUME NEW j \in Machines, NEW k \in Machines,
                      saved'[j] \notin crowded \cup {0}, saved'[j] = saved'[k]
               PROVE  j = k
    BY <1>2 DEF SessionIsUnique
  <2>1. SessionIsUnique /\ DrawnApart
    BY DEF SessionsInv
  <2>2. CASE saved'[m] = saved[m]
    BY <1>2, <2>1, <2>2 DEF SessionIsUnique
  <2>3. CASE saved'[m] = proc[p].seed
    <3>1. \A i \in Machines : saved[i] = proc[p].seed => proc[p].seed \in crowded
      BY <1>1, <2>1 DEF DrawnApart
    <3> QED BY <1>2, <2>1, <2>3, <3>1 DEF SessionIsUnique
  <2> QED BY <1>6, <2>2, <2>3
<1> QED BY <1>7, <1>8, <1>9, <1>10, <1>11, <1>12, <1>13, <1>14 DEF SessionsInv

LEMMA TickSessions ==
    ASSUME SessionsInv, AccountsInv', Tick
    PROVE  SessionsInv'
<1> USE DEF Tick
<1>1. DrawnByNow'
  <2>1. DrawnByNow /\ now \in Nat
    BY DEF SessionsInv, AccountsInv, AccountsTypeOK, Cids
  <2>2. /\ \A p \in Handlers : Live(p) => proc[p].seed \in Nat
        /\ \A m \in Machines : saved[m] \in Nat
    BY DEF SessionsInv, AccountsInv, AccountsTypeOK, Requested, Cids, Live
  <2>3. \A c \in Cids : c \in Nat
    BY DEF Cids
  <2>4. \A x \in Nat : x <= now => x <= now + 1 /\ x # now + 1
    BY <2>1
  <2> QED BY <2>1, <2>2, <2>3, <2>4 DEF DrawnByNow, Live
<1>2. DrawnApart' /\ InsertsFirst' /\ FormWaits'
  BY DEF SessionsInv, DrawnApart, InsertsFirst, FormWaits, Live
<1>3. ServesLogin' /\ NamesItself' /\ SavedIsOwn' /\ SessionIsUnique'
  BY DEF SessionsInv, ServesLogin, NamesItself, SavedIsOwn, SessionIsUnique, FirstRow
<1> QED BY <1>1, <1>2, <1>3 DEF SessionsInv

-----------------------------------------------------------------------------
(* The theorems *)

LEMMA SessionsInitInv == AccountsInit => SessionsInv
<1> SUFFICES ASSUME AccountsInit PROVE SessionsInv
  OBVIOUS
<1>1. AccountsInv
  BY AccountsInitInv
<1>2. DrawnByNow /\ DrawnApart /\ InsertsFirst
  BY DEF AccountsInit, DrawnByNow, DrawnApart, InsertsFirst, Live, Idle
<1>3. FormWaits /\ ServesLogin /\ SavedIsOwn /\ SessionIsUnique
  BY DEF AccountsInit, FormWaits, ServesLogin, SavedIsOwn, SessionIsUnique
<1>4. NamesItself
  BY FS_EmptySet DEF AccountsInit, NamesItself
<1> QED BY <1>1, <1>2, <1>3, <1>4 DEF SessionsInv

LEMMA SessionsStepInv ==
    SessionsInv /\ [AccountsNext]_accountVars => SessionsInv'
<1> SUFFICES ASSUME SessionsInv, [AccountsNext]_accountVars PROVE SessionsInv'
  OBVIOUS
<1>1. AccountsInv /\ AccountsInv'
  BY AccountsStepInv DEF SessionsInv
<1>2. CASE UNCHANGED accountVars
  <2> USE <1>2 DEF accountVars
  <2>1. DrawnByNow' /\ DrawnApart' /\ InsertsFirst' /\ FormWaits'
    BY DEF SessionsInv, DrawnByNow, DrawnApart, InsertsFirst, FormWaits, Live
  <2>2. ServesLogin' /\ NamesItself' /\ SavedIsOwn' /\ SessionIsUnique'
    BY DEF SessionsInv, ServesLogin, NamesItself, SavedIsOwn, SessionIsUnique, FirstRow
  <2> QED BY <1>1, <2>1, <2>2 DEF SessionsInv
<1>3. ASSUME NEW p \in Handlers,
             \/ CheckPassword(p) \/ CheckSession(p) \/ CheckName(p)
             \/ InsertUser(p) \/ FindUid(p) \/ InsertClient(p)
      PROVE  SessionsInv'
  <2>1. WorkStep(p)
    BY <1>1, <1>3, CheckPasswordWorks, CheckSessionWorks, CheckNameWorks,
       InsertUserWorks, FindUidWorks, InsertClientWorks
  <2> QED BY <1>1, <2>1, WorkStepInv
<1>4. ASSUME NEW p \in Handlers, Die(p) PROVE SessionsInv'
  BY <1>1, <1>4, DieLeaves, LeaveStepInv
<1>5. ASSUME NEW m \in Machines, NEW p \in Handlers, Connect(m, p)
      PROVE  SessionsInv'
  BY <1>1, <1>5, ConnectSessions
<1>6. ASSUME NEW m \in Machines, NEW n \in UserNames, NEW w \in Passwords,
             SendLogin(m, n, w) \/ SendSignup(m, n, w)
      PROVE  SessionsInv'
  BY <1>1, <1>6, SendSessions
<1>7. ASSUME NEW m \in Machines, LoggedIn(m) PROVE SessionsInv'
  BY <1>1, <1>7, LoggedInSessions
<1>8. ASSUME NEW m \in Machines,
             BackToForm(m) \/ LoginLost(m) \/ SignupLost(m) \/ Restart(m)
      PROVE  SessionsInv'
  BY <1>1, <1>8, MachineLeaves, LeaveStepInv
<1>9. CASE Tick
  BY <1>1, <1>9, TickSessions
<1> QED BY <1>2, <1>3, <1>4, <1>5, <1>6, <1>7, <1>8, <1>9 DEF AccountsNext

\* Two machines have one session only when it was drawn in a second in which
\* more than one connection was made: not through an insert that fails or comes
\* late, an answer that is lost, or a second login.
THEOREM SessionIsOneMachines == AccountsSpec => []SessionIsUnique
<1>1. SessionsInv => SessionIsUnique
  BY DEF SessionsInv
<1> QED BY SessionsInitInv, SessionsStepInv, <1>1, PTL DEF AccountsSpec

\* A machine on which one name has logged in works for the first user of that
\* name, unless its session was drawn in a crowded second, although login()
\* never compares the user of a session with the user it checked.
THEOREM SessionIsOwnAlways == AccountsSpec => []SessionIsOwn
<1>1. SessionsInv => SessionIsOwn
  <2> SUFFICES ASSUME SessionsInv, NEW m \in Machines, window[m] = "main",
                      saved[m] \notin crowded \cup {0}, Cardinality(names[m]) = 1
               PROVE  client[saved[m]] = FirstRow(as[m])
    BY DEF SessionIsOwn
  <2>1. PICK n \in names[m] : client[saved[m]] = FirstRow(n)
    BY DEF SessionsInv, SavedIsOwn
  <2>2. IsFiniteSet(names[m]) /\ as[m] \in names[m]
    BY DEF SessionsInv, NamesItself
  <2>3. PICK x : names[m] = {x}
    BY <2>2, FS_Singleton
  <2> QED BY <2>1, <2>2, <2>3
<1> QED BY SessionsInitInv, SessionsStepInv, <1>1, PTL DEF AccountsSpec

=============================================================================
