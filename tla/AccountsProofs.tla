--------------------------- MODULE AccountsProofs ---------------------------
(***************************************************************************)
(* Theorems about accounts and sessions, for any number of users, requests *)
(* and clients.                                                            *)
(***************************************************************************)
EXTENDS Accounts, TLAPS

\* The requests in each stage, as TypeOK has them.
Updates == [at : {"count", "write"}, me : Token, user : Accounts,
            target : [admin : BOOLEAN, active : BOOLEAN], body : Bodies]
Revocations == [at : {"revoke"}, me : Token, user : Accounts]

-----------------------------------------------------------------------------
\* Facts about the values the actions build.

\* Requests stay requests when accounts are added.
LEMMA RequestGrows ==
    ASSUME Accounts \subseteq Accounts'
    PROVE  Request \subseteq Request'
  BY DEF Request, Idle

\* What a request holds in each of its stages.
LEMMA Stages ==
    ASSUME NEW r \in Request
    PROVE  /\ r.at = "target" => r.me \in Token
           /\ r.at \in {"count", "write"} => r \in Updates
           /\ r.at = "revoke" => r \in Revocations
           /\ r.at \in {"forget", "verify", "fail"} =>
                 r.client \in Client /\ r = [at |-> r.at, client |-> r.client]
           /\ r.at = "clear" => r.client \in Client /\ r.user \in Accounts /\ r.fresh \in BOOLEAN
           /\ r.at = "session" => r.user \in Accounts /\ r.fresh \in BOOLEAN
  BY DEF Request, Idle, Updates, Revocations

\* What the columns of an update come out as.
LEMMA Values ==
    ASSUME NEW r \in Updates
    PROVE  NewAdmin(r) \in BOOLEAN /\ NewActive(r) \in BOOLEAN
  BY AccountsAssumption DEF NewAdmin, NewActive, Given, Updates

LEMMA NewAccountTyped ==
    ASSUME NEW a \in BOOLEAN, NEW p \in SUBSET Perm
    PROVE  NewAccount(a, p) \in Account
  BY AccountsAssumption DEF NewAccount, Account

LEMMA UpdatedTyped ==
    ASSUME TypeOK, NEW r \in Updates
    PROVE  Updated(r) \in Account
<1> DEFINE old == users[r.user]
<1>1. old \in Account /\ r.body \in Bodies
  BY DEF TypeOK, Updates
<1>2. Given(r.body, "is_admin", old.admin) \in BOOLEAN
  BY <1>1, AccountsAssumption DEF Given, Account
<1>3. Given(r.body, "is_active", old.active) \in BOOLEAN
  BY <1>1, AccountsAssumption DEF Given, Account
<1>4. (IF NewAdmin(r) THEN Perm
       ELSE IF "permissions" \in DOMAIN r.body
            THEN (r.body["permissions"] \ {Manage}) \cup {View}
            ELSE old.perms) \in SUBSET Perm
  BY <1>1, AccountsAssumption DEF Account
<1> QED BY <1>2, <1>3, <1>4 DEF Updated, Account

-----------------------------------------------------------------------------
\* Type correctness.

\* A request that moves on, where no table changes that Request depends on.
LEMMA Moves ==
    ASSUME TypeOK, Accounts \subseteq Accounts', NEW h \in Handler,
           NEW r \in Request', Goto(h, r)
    PROVE  req' \in [Handler -> Request']
  BY RequestGrows DEF Goto, TypeOK

\* What a move does to the requests.
LEMMA Gone ==
    ASSUME TypeOK, NEW h \in Handler, NEW r, Goto(h, r)
    PROVE  req'[h] = r /\ \A g \in Handler \ {h} : req'[g] = req[g]
  BY DEF Goto, TypeOK

LEMMA IdleTyped == Idle \in Request /\ Idle \in Request'
  BY DEF Request

\* What a step does that leaves tables and histories alone.
LEMMA TypeMoves ==
    ASSUME TypeOK, NEW h \in Handler, NEW r \in Request, Goto(h, r),
           UNCHANGED <<users, sessions, founders>>,
           attempts' \in [Client -> [failures : 0 .. MaxFailures,
                                     block : {"none", "on", "over"}]],
           mishaps' \subseteq {"update", "login", "lost"}
    PROVE  TypeOK'
<1>1. Accounts' = Accounts
  BY DEF Accounts
<1>2. r \in Request'
  BY <1>1, RequestGrows
<1>3. req' \in [Handler -> Request']
  BY <1>1, <1>2, Moves
<1> QED BY <1>1, <1>3 DEF TypeOK

LEMMA TypeBootstrap ==
    ASSUME TypeOK, NEW h \in Handler, Bootstrap(h)
    PROVE  TypeOK'
<1>1. PICK u \in User :
        /\ users' = Put(users, u, NewAccount(TRUE, {}))
        /\ founders' = founders \cup {u}
        /\ Goto(h, [at |-> "session", user |-> u, fresh |-> TRUE])
  BY DEF Bootstrap
<1>2. NewAccount(TRUE, {}) \in Account
  BY NewAccountTyped
<1>3. /\ Accounts' = Accounts \cup {u}
      /\ users' \in [Accounts' -> Account]
  BY <1>1, <1>2 DEF TypeOK, Accounts, Put
<1>4. [at |-> "session", user |-> u, fresh |-> TRUE] \in Request'
  BY <1>3 DEF Request
<1>5. req' \in [Handler -> Request']
  BY <1>1, <1>3, <1>4, Moves
<1> QED BY <1>1, <1>3, <1>5 DEF TypeOK, Bootstrap

LEMMA TypeCreate ==
    ASSUME TypeOK, NEW h \in Handler, CreateAccount(h)
    PROVE  TypeOK'
<1>1. PICK u \in User \ Accounts, admin \in BOOLEAN, p \in SUBSET Perm :
        users' = Put(users, u, NewAccount(admin, p))
  BY DEF CreateAccount
<1>2. NewAccount(admin, p) \in Account
  BY NewAccountTyped
<1>3. /\ Accounts' = Accounts \cup {u}
      /\ users' \in [Accounts' -> Account]
  BY <1>1, <1>2 DEF TypeOK, Accounts, Put
<1>4. req' \in [Handler -> Request']
  BY <1>3, IdleTyped, Moves DEF CreateAccount, Done
<1> QED BY <1>1, <1>3, <1>4 DEF TypeOK, CreateAccount

\* The requests after an update: one goes on, the logins are marked.
LEMMA WriteRequests ==
    ASSUME TypeOK, NEW h \in Handler, Write(h)
    PROVE  /\ req' \in [Handler -> Request]
           /\ \A g \in Handler \ {h} :
                 /\ req'[g].at = req[g].at
                 /\ g \notin LoggingIn(req[h].user) => req'[g] = req[g]
           /\ req'[h] = IF Revokes(req[h])
                        THEN [at |-> "revoke", me |-> req[h].me, user |-> req[h].user]
                        ELSE Idle
<1> DEFINE r == req[h]
<1>1. r \in Updates /\ \A g \in Handler : req[g] \in Request
  BY Stages DEF TypeOK, Write, Serving
<1>2. \A g \in LoggingIn(r.user) :
        [req[g] EXCEPT !.fresh = FALSE] \in Request
  <2>1. SUFFICES ASSUME NEW g \in Handler, req[g].at \in {"clear", "session"}
                 PROVE  [req[g] EXCEPT !.fresh = FALSE] \in Request
    BY DEF LoggingIn
  <2>2. CASE req[g].at = "clear"
    <3>1. req[g] \in [at : {"clear"}, client : Client, user : Accounts, fresh : BOOLEAN]
      BY <1>1, <2>2 DEF Request, Idle
    <3> QED BY <3>1 DEF Request
  <2>3. CASE req[g].at = "session"
    <3>1. req[g] \in [at : {"session"}, user : Accounts, fresh : BOOLEAN]
      BY <1>1, <2>3 DEF Request, Idle
    <3> QED BY <3>1 DEF Request
  <2> QED BY <2>1, <2>2, <2>3
<1>3. \A g \in Handler : [req[g] EXCEPT !.fresh = FALSE].at = req[g].at
  BY <1>1 DEF Request, Idle
<1>4. [at |-> "revoke", me |-> r.me, user |-> r.user] \in Request
  BY <1>1 DEF Request, Updates
<1> QED BY <1>1, <1>2, <1>3, <1>4, IdleTyped DEF Write

LEMMA TypeWrite ==
    ASSUME TypeOK, NEW h \in Handler, Write(h)
    PROVE  TypeOK'
<1>1. req[h] \in Updates /\ req[h].user \in Accounts
  BY Stages DEF TypeOK, Write, Serving, Updates
<1>2. Updated(req[h]) \in Account
  BY <1>1, UpdatedTyped
<1>3. Accounts' = Accounts /\ users' \in [Accounts' -> Account]
  BY <1>2 DEF TypeOK, Accounts, Write
<1>4. /\ DOMAIN sessions' = DOMAIN sessions
      /\ \A t \in DOMAIN sessions :
            sessions'[t] \in Session /\ sessions'[t].user = sessions[t].user
  <2>1. \A t \in DOMAIN sessions : sessions[t] \in Session
    BY DEF TypeOK
  <2> QED BY <2>1 DEF Write, Session
<1>5. sessions' \in [DOMAIN sessions' -> Session]
  BY <1>4 DEF Write
<1>6. req' \in [Handler -> Request']
  BY <1>3, RequestGrows, WriteRequests
<1> QED BY <1>3, <1>4, <1>5, <1>6 DEF TypeOK, Write

LEMMA TypeRevoke ==
    ASSUME TypeOK, NEW h \in Handler, Revoke(h)
    PROVE  TypeOK'
<1>1. /\ DOMAIN sessions' \subseteq DOMAIN sessions
      /\ sessions' \in [DOMAIN sessions' -> Session]
      /\ \A t \in DOMAIN sessions' : sessions'[t] = sessions[t]
  BY DEF TypeOK, Revoke, Without
<1>2. Accounts' = Accounts
  BY DEF Revoke, Accounts
<1>3. req' \in [Handler -> Request']
  BY <1>2, IdleTyped, Moves DEF Revoke, Done
<1> QED BY <1>1, <1>2, <1>3 DEF TypeOK, Revoke

LEMMA TypeSession ==
    ASSUME TypeOK, NEW h \in Handler, CreateSession(h)
    PROVE  TypeOK'
<1>1. req[h].user \in Accounts /\ req[h].fresh \in BOOLEAN
  BY Stages DEF TypeOK, CreateSession, Serving
<1>2. PICK t \in Token :
        sessions' = Put(sessions, t, [user |-> req[h].user, fresh |-> req[h].fresh])
  BY DEF CreateSession
<1>3. [user |-> req[h].user, fresh |-> req[h].fresh] \in Session
  BY <1>1 DEF Session, TypeOK
<1>4. /\ DOMAIN sessions' \subseteq Token
      /\ sessions' \in [DOMAIN sessions' -> Session]
      /\ \A s \in DOMAIN sessions' : sessions'[s].user \in Accounts
  BY <1>1, <1>2, <1>3 DEF TypeOK, Put
<1>5. Accounts' = Accounts
  BY DEF CreateSession, Accounts
<1>6. req' \in [Handler -> Request']
  BY <1>5, IdleTyped, Moves DEF CreateSession, Done
<1> QED BY <1>4, <1>5, <1>6 DEF TypeOK, CreateSession

\* The steps that change nothing but the request and the login counter.
LEMMA TypeLogin ==
    ASSUME TypeOK, NEW h \in Handler,
           Enter(h) \/ Forget(h) \/ Verify(h) \/ RecordFailure(h) \/ ClearFailures(h)
    PROVE  TypeOK'
<1> DEFINE Attempt == [failures : 0 .. MaxFailures, block : {"none", "on", "over"}]
<1>1. NoFailures \in Attempt
  BY AccountsAssumption DEF NoFailures
<1>2. req[h] \in Request /\ attempts \in [Client -> Attempt]
  BY DEF TypeOK
<1>3. mishaps \subseteq {"update", "login", "lost"}
  BY DEF TypeOK
<1>4. CASE Enter(h)
  <2>1. PICK c \in Client :
          Goto(h, [at |-> IF attempts[c].block = "over" THEN "forget" ELSE "verify",
                   client |-> c])
    BY <1>4 DEF Enter
  <2>2. [at |-> IF attempts[c].block = "over" THEN "forget" ELSE "verify",
         client |-> c] \in Request
    BY DEF Request
  <2> QED BY <1>2, <1>3, <1>4, <2>1, <2>2, TypeMoves DEF Enter
<1>5. CASE Forget(h)
  <2>1. req[h] \in [at : {"forget"}, client : Client]
    BY <1>2, <1>5, Stages DEF Forget, Serving
  <2>2. [req[h] EXCEPT !.at = "verify"] \in Request
    BY <2>1 DEF Request
  <2>3. attempts' \in [Client -> Attempt]
    BY <1>1, <1>2, <1>5 DEF Forget
  <2> QED BY <1>3, <1>5, <2>2, <2>3, TypeMoves DEF Forget
<1>6. CASE Verify(h)
  <2>1. req[h] \in [at : {"verify"}, client : Client]
    BY <1>2, <1>6, Stages DEF Verify, Serving
  <2>2. [req[h] EXCEPT !.at = "fail"] \in Request
    BY <2>1 DEF Request
  <2>3. \A u \in Accounts : [at |-> "clear", client |-> req[h].client,
                             user |-> u, fresh |-> TRUE] \in Request
    BY <2>1 DEF Request
  <2> QED BY <1>2, <1>3, <1>6, <2>2, <2>3, TypeMoves DEF Verify
<1>7. CASE RecordFailure(h)
  <2>1. req[h].client \in Client
    BY <1>2, <1>7, Stages DEF RecordFailure, Serving
  <2>2. attempts[req[h].client] \in Attempt
    BY <1>2, <2>1
  <2>3. attempts' \in [Client -> Attempt]
    BY <1>2, <1>7, <2>1, <2>2, AccountsAssumption DEF RecordFailure
  <2>4. Goto(h, Idle) /\ Idle \in Request
    BY <1>7, IdleTyped DEF RecordFailure, Done
  <2> QED BY <1>3, <1>7, <2>3, <2>4, TypeMoves DEF RecordFailure
<1>8. CASE ClearFailures(h)
  <2>1. req[h].client \in Client /\ req[h].user \in Accounts /\ req[h].fresh \in BOOLEAN
    BY <1>2, <1>8, Stages DEF ClearFailures, Serving
  <2>2. [at |-> "session", user |-> req[h].user, fresh |-> req[h].fresh] \in Request
    BY <2>1 DEF Request
  <2>3. attempts' \in [Client -> Attempt]
    BY <1>1, <1>2, <1>8 DEF ClearFailures
  <2> QED BY <1>3, <1>8, <2>2, <2>3, TypeMoves DEF ClearFailures
<1> QED BY <1>4, <1>5, <1>6, <1>7, <1>8

\* The steps of a request about accounts that change no table.
LEMMA TypeReads ==
    ASSUME TypeOK, NEW h \in Handler, Authorize(h) \/ ReadTarget(h) \/ CountAdmins(h)
    PROVE  TypeOK'
<1>1. CASE Authorize(h)
  <2>1. PICK t \in DOMAIN sessions : Goto(h, [at |-> "target", me |-> t])
    BY <1>1 DEF Authorize
  <2>2. [at |-> "target", me |-> t] \in Request
    BY DEF Request, TypeOK
  <2> QED BY <1>1, <2>1, <2>2, TypeMoves DEF Authorize, TypeOK
<1>2. CASE ReadTarget(h)
  <2>1. PICK u \in Accounts, b \in Bodies :
          LET r == [at |-> "write", me |-> req[h].me, user |-> u,
                    target |-> [admin |-> users[u].admin, active |-> users[u].active],
                    body |-> b]
          IN Goto(h, IF Demotes(r) THEN [r EXCEPT !.at = "count"] ELSE r)
    BY <1>2 DEF ReadTarget
  <2> DEFINE r == [at |-> "write", me |-> req[h].me, user |-> u,
                   target |-> [admin |-> users[u].admin, active |-> users[u].active],
                   body |-> b]
  <2>2. req[h].me \in Token
    BY <1>2, Stages DEF ReadTarget, Serving, TypeOK
  <2>3. users[u].admin \in BOOLEAN /\ users[u].active \in BOOLEAN
    BY DEF TypeOK, Account
  <2>4. r \in Request /\ [r EXCEPT !.at = "count"] \in Request
    BY <2>2, <2>3 DEF Request
  <2> QED BY <1>2, <2>1, <2>4, TypeMoves DEF ReadTarget, TypeOK
<1>3. CASE CountAdmins(h)
  <2>1. req[h] \in Updates
    BY <1>3, Stages DEF CountAdmins, Serving, TypeOK
  <2>2. [req[h] EXCEPT !.at = "write"] \in Request
    BY <2>1 DEF Request, Updates
  <2> QED BY <1>3, <2>2, IdleTyped, TypeMoves DEF CountAdmins, Done, TypeOK
<1> QED BY <1>1, <1>2, <1>3

LEMMA TypeInit == Init => TypeOK
  BY AccountsAssumption DEF Init, TypeOK, Accounts, NoFailures, Request

LEMMA TypeNext == TypeOK /\ [Next]_vars => TypeOK'
<1> SUFFICES ASSUME TypeOK, [Next]_vars PROVE TypeOK'
  OBVIOUS
<1>1. ASSUME NEW h \in Handler, Step(h) PROVE TypeOK'
  BY <1>1, TypeBootstrap, TypeReads, TypeCreate, TypeWrite, TypeRevoke, TypeLogin,
     TypeSession DEF Step
<1>2. CASE Logout \/ Expire
  <2>1. PICK t \in DOMAIN sessions : sessions' = Without({t})
    BY <1>2 DEF Logout, Expire
  <2>2. UNCHANGED <<users, attempts, req, founders, mishaps>>
    BY <1>2 DEF Logout, Expire
  <2>3. Accounts' = Accounts /\ Request' = Request
    BY <2>2 DEF Accounts, Request
  <2> QED BY <2>1, <2>2, <2>3 DEF TypeOK, Without
<1>3. CASE Unblock
  <2>1. UNCHANGED <<users, sessions, req, founders, mishaps>>
    BY <1>3 DEF Unblock
  <2>2. Accounts' = Accounts /\ Request' = Request
    BY <2>1 DEF Accounts, Request
  <2>3. attempts' \in [Client -> [failures : 0 .. MaxFailures,
                                  block : {"none", "on", "over"}]]
    BY <1>3 DEF Unblock, TypeOK
  <2> QED BY <2>1, <2>2, <2>3 DEF TypeOK
<1>4. CASE Crash
  <2>1. UNCHANGED <<users, sessions, attempts, founders>>
    BY <1>4 DEF Crash
  <2>2. Accounts' = Accounts
    BY <2>1 DEF Accounts
  <2>3. req' \in [Handler -> Request']
    BY <1>4, IdleTyped DEF Crash
  <2> QED BY <1>4, <2>1, <2>2, <2>3 DEF TypeOK, Crash
<1>5. CASE UNCHANGED vars
  <2>1. Accounts' = Accounts /\ Request' = Request
    BY <1>5 DEF vars, Accounts, Request
  <2> QED BY <1>5, <2>1 DEF vars, TypeOK
<1> QED BY <1>1, <1>2, <1>3, <1>4, <1>5 DEF Next

\* Every variable of Accounts keeps its type, and no session and no request is
\* about an account that does not exist.
THEOREM TypeCorrect == Spec => []TypeOK
  BY TypeInit, TypeNext, PTL DEF Spec

-----------------------------------------------------------------------------
\* Where a step leaves its request.

\* The steps that have nothing to do with changing accounts.
Other(h) == \/ Revoke(h) \/ Enter(h) \/ Forget(h) \/ Verify(h) \/ RecordFailure(h)
            \/ ClearFailures(h) \/ CreateSession(h)

LEMMA Elsewhere ==
    ASSUME TypeOK, NEW h \in Handler, Other(h)
    PROVE  /\ UNCHANGED <<users, founders>> /\ mishaps \subseteq mishaps'
           /\ \A g \in Handler \ {h} : req'[g] = req[g]
           /\ req'[h].at \notin {"target", "count", "write"}
<1> USE DEF Other
<1>1. UNCHANGED <<users, founders>> /\ mishaps \subseteq mishaps'
  BY DEF Revoke, Enter, Forget, Verify, RecordFailure, ClearFailures, CreateSession
<1>2. \A g \in Handler \ {h} : req'[g] = req[g]
  BY DEF Revoke, Enter, Forget, Verify, RecordFailure, ClearFailures, CreateSession,
         Goto, Done, TypeOK
<1>3. req'[h].at \notin {"target", "count", "write"}
  <2>1. CASE Enter(h)
    BY <2>1 DEF Enter, Goto, TypeOK
  <2>2. CASE Forget(h) \/ Verify(h)
    <3>1. req[h] \in [at : {"forget", "verify"}, client : Client]
      BY <2>2, Stages DEF Forget, Verify, Serving, TypeOK
    <3>2. /\ [req[h] EXCEPT !.at = "verify"] \in [at : {"verify"}, client : Client]
          /\ [req[h] EXCEPT !.at = "fail"] \in [at : {"fail"}, client : Client]
      BY <3>1
    <3>3. \/ req'[h] = [req[h] EXCEPT !.at = "verify"]
          \/ req'[h] = [req[h] EXCEPT !.at = "fail"]
          \/ \E u \in Accounts : req'[h] = [at |-> "clear", client |-> req[h].client,
                                          user |-> u, fresh |-> TRUE]
      BY <2>2, Gone DEF Forget, Verify
    <3>4. CASE req'[h] = [req[h] EXCEPT !.at = "verify"]
      <4>1. req'[h] \in [at : {"verify"}, client : Client]
        BY <3>2, <3>4, Zenon
      <4> QED BY <4>1
    <3>5. CASE req'[h] = [req[h] EXCEPT !.at = "fail"]
      <4>1. req'[h] \in [at : {"fail"}, client : Client]
        BY <3>2, <3>5, Zenon
      <4> QED BY <4>1
    <3>6. ASSUME NEW u \in Accounts,
                 req'[h] = [at |-> "clear", client |-> req[h].client,
                            user |-> u, fresh |-> TRUE]
          PROVE  req'[h].at \notin {"target", "count", "write"}
      BY <3>6
    <3> QED BY <3>3, <3>4, <3>5, <3>6, Zenon
  <2>3. CASE Revoke(h) \/ RecordFailure(h) \/ ClearFailures(h) \/ CreateSession(h)
    BY <2>3 DEF Revoke, RecordFailure, ClearFailures, CreateSession, Goto, Done, TypeOK,
                Idle
  <2> QED BY <2>1, <2>2, <2>3
<1> QED BY <1>1, <1>2, <1>3

LEMMA Reading ==
    ASSUME TypeOK, NEW h \in Handler, ReadTarget(h) \/ CountAdmins(h)
    PROVE  /\ \A g \in Handler \ {h} : req'[g] = req[g]
           /\ req'[h].at # "target"
<1>1. \A g \in Handler \ {h} : req'[g] = req[g]
  BY DEF ReadTarget, CountAdmins, Goto, Done, TypeOK
<1>2. CASE ReadTarget(h)
  BY <1>1, <1>2 DEF ReadTarget, Goto, TypeOK
<1>3. CASE CountAdmins(h)
  <2>1. req[h] \in Updates
    BY <1>3, Stages DEF CountAdmins, Serving, TypeOK
  <2>2. req'[h] = Idle \/ req'[h] = [req[h] EXCEPT !.at = "write"]
    BY <1>3, Gone DEF CountAdmins, Done
  <2> QED BY <1>1, <2>1, <2>2 DEF Idle, Updates
<1> QED BY <1>2, <1>3

-----------------------------------------------------------------------------
\* Setting the program up.

\* A request that passed the permission check was made from a session, and a
\* session belongs to an account: there is one.
Founded == /\ OneFirstAdmin
           /\ \A h \in Handler : Serving(h, "target") => Accounts # {}

LEMMA FoundedNext ==
    ASSUME TypeOK, TypeOK', Founded, [Next]_vars
    PROVE  Founded'
<1>1. ASSUME NEW h \in Handler, Bootstrap(h) PROVE Founded'
  <2>1. PICK u \in User :
          /\ Accounts = {}
          /\ users' = Put(users, u, NewAccount(TRUE, {}))
          /\ founders' = founders \cup {u}
    BY <1>1 DEF Bootstrap, NobodyYet
  <2>2. founders = {} /\ u \in Accounts'
    BY <2>1 DEF TypeOK, Accounts, Put
  <2> QED BY <2>1, <2>2 DEF Founded, OneFirstAdmin
<1>2. ASSUME NEW h \in Handler, CreateAccount(h) PROVE Founded'
  <2>1. founders # {} /\ founders' = founders
    BY <1>2 DEF CreateAccount, Founded, OneFirstAdmin, Serving
  <2>2. Accounts' # {}
    BY <2>1 DEF TypeOK
  <2> QED BY <2>1, <2>2 DEF Founded, OneFirstAdmin
<1>3. ASSUME NEW h \in Handler, Authorize(h) PROVE Founded'
  <2>1. Accounts # {} /\ Accounts' = Accounts /\ founders' = founders
    BY <1>3 DEF Authorize, TypeOK, Accounts
  <2> QED BY <2>1 DEF Founded, OneFirstAdmin
<1>4. ASSUME NEW h \in Handler, Write(h) PROVE Founded'
  <2>1. Accounts' = Accounts /\ founders' = founders
    BY <1>4 DEF Write, Accounts, TypeOK
  <2>2. /\ \A g \in Handler \ {h} : req'[g].at = req[g].at
        /\ req'[h].at # "target"
    <3>1. \A g \in Handler \ {h} : req'[g].at = req[g].at
      BY <1>4, WriteRequests
    <3>2. req'[h] = IF Revokes(req[h])
                    THEN [at |-> "revoke", me |-> req[h].me, user |-> req[h].user]
                    ELSE Idle
      BY <1>4, WriteRequests
    <3> QED BY <3>1, <3>2 DEF Idle
  <2> QED BY <2>1, <2>2 DEF Founded, OneFirstAdmin, Serving
<1>5. ASSUME UNCHANGED <<users, founders>>,
             \A g \in Handler : req'[g].at = "target" => req[g].at = "target"
      PROVE  Founded'
  BY <1>5 DEF Founded, OneFirstAdmin, Serving, Accounts
<1>6. ASSUME NEW h \in Handler, ReadTarget(h) \/ CountAdmins(h) PROVE Founded'
  BY <1>5, <1>6, Reading DEF ReadTarget, CountAdmins
<1>7. ASSUME NEW h \in Handler, Other(h) PROVE Founded'
  BY <1>5, <1>7, Elsewhere
<1>8. CASE Logout \/ Expire \/ Unblock \/ Crash \/ UNCHANGED vars
  BY <1>5, <1>8 DEF Logout, Expire, Unblock, Crash, vars, Idle
<1> QED BY <1>1, <1>2, <1>3, <1>4, <1>6, <1>7, <1>8 DEF Next, Step, Other

\* However many requests set the program up at once, one account is made that
\* way, before any other (createFirstAdmin).
THEOREM SetUpOnce == Spec => []OneFirstAdmin
<1>1. Init => Founded
  BY DEF Init, Founded, OneFirstAdmin, Serving, Accounts, Idle
<1> QED BY <1>1, FoundedNext, TypeCorrect, PTL DEF Spec, Founded

-----------------------------------------------------------------------------
\* There is an administrator.

\* What updateAccount read of the account is still what the table says.
AsRead(r) == r.target = [admin |-> users[r.user].admin, active |-> users[r.user].active]

\* While updates come one at a time: one that may take an administrator away
\* has counted another.
Undisturbed ==
    "update" \notin mishaps =>
       /\ \A g, h \in Handler : Updating(g) /\ Updating(h) => g = h
       /\ \A h \in Handler : Updating(h) => AsRead(req[h])
       /\ \A h \in Handler : Serving(h, "write") /\ Demotes(req[h])
                               => \E a \in Admins : a # req[h].user
       /\ Accounts # {} => Admins # {}

\* A step that leaves the accounts there are as they are, and begins no update.
LEMMA UndisturbedKept ==
    ASSUME TypeOK, Undisturbed,
           Accounts \subseteq Accounts', \A u \in Accounts : users'[u] = users[u],
           mishaps \subseteq mishaps',
           \A g \in Handler : req'[g] = req[g] \/ req'[g].at \notin {"count", "write"},
           Accounts' # {} => Admins # {} \/ Admins' # {}
    PROVE  Undisturbed'
<1> SUFFICES ASSUME "update" \notin mishaps' PROVE Undisturbed'
  BY DEF Undisturbed
<1>1. Admins \subseteq Admins'
  BY DEF Admins
<1>2. \A g \in Handler : Updating(g)' => Updating(g) /\ req'[g] = req[g]
  BY DEF Updating
<1>3. \A g \in Handler : Updating(g) => req[g].user \in Accounts
  BY Stages DEF Updating, TypeOK, Updates
<1>4. \A g \in Handler : Updating(g)' => AsRead(req[g])'
  BY <1>2, <1>3 DEF AsRead, Undisturbed
<1>5. \A g \in Handler : Serving(g, "write")' => Serving(g, "write") /\ Updating(g)'
  BY <1>2 DEF Serving, Updating
<1>6. \A g \in Handler : Serving(g, "write")' /\ Demotes(req[g])'
                          => \E a \in Admins' : a # req'[g].user
  BY <1>1, <1>2, <1>5 DEF Undisturbed, Demotes, NewAdmin, NewActive, Given
<1>7. \A g, h \in Handler : Updating(g)' /\ Updating(h)' => g = h
  BY <1>2 DEF Undisturbed
<1>8. Accounts' # {} => Admins' # {}
  BY <1>1
<1> QED BY <1>4, <1>6, <1>7, <1>8 DEF Undisturbed

\* A request for an update reads the account.
LEMMA UndisturbedRead ==
    ASSUME TypeOK, TypeOK', Undisturbed, NEW h \in Handler, ReadTarget(h)
    PROVE  Undisturbed'
<1> SUFFICES ASSUME "update" \notin mishaps' PROVE Undisturbed'
  BY DEF Undisturbed
<1>1. "update" \notin mishaps /\ ~Updating(h) /\ \A g \in Handler : ~Updating(g)
  BY DEF ReadTarget
<1>2. PICK u \in Accounts, b \in Bodies :
        LET r == [at |-> "write", me |-> req[h].me, user |-> u,
                  target |-> [admin |-> users[u].admin, active |-> users[u].active],
                  body |-> b]
        IN Goto(h, IF Demotes(r) THEN [r EXCEPT !.at = "count"] ELSE r)
  BY DEF ReadTarget
<1> DEFINE r == [at |-> "write", me |-> req[h].me, user |-> u,
                 target |-> [admin |-> users[u].admin, active |-> users[u].active],
                 body |-> b]
<1>3. UNCHANGED users /\ Accounts' = Accounts /\ Admins' = Admins
  BY DEF ReadTarget, Accounts, Admins
<1>4. \A g \in Handler \ {h} : req'[g] = req[g] /\ ~Updating(g)'
  BY <1>1, Reading DEF Updating
<1>5. req'[h] = IF Demotes(r) THEN [r EXCEPT !.at = "count"] ELSE r
  BY <1>2, Gone
<1>6. AsRead(req[h])'
  BY <1>3, <1>5 DEF AsRead
<1>7. Serving(h, "write")' => ~Demotes(req[h])'
  BY <1>5 DEF Serving, Demotes, NewAdmin, NewActive, Given
<1>8. \A g \in Handler : Serving(g, "write")' => g = h
  BY <1>4 DEF Serving, Updating
<1> QED BY <1>1, <1>3, <1>4, <1>6, <1>7, <1>8 DEF Undisturbed

\* The administrators are counted.
LEMMA UndisturbedCount ==
    ASSUME TypeOK, TypeOK', Undisturbed, NEW h \in Handler, CountAdmins(h)
    PROVE  Undisturbed'
<1> SUFFICES ASSUME "update" \notin mishaps' PROVE Undisturbed'
  BY DEF Undisturbed
<1>1. "update" \notin mishaps /\ UNCHANGED users /\ Accounts' = Accounts /\ Admins' = Admins
  BY DEF CountAdmins, Accounts, Admins
<1>2. Updating(h) /\ req[h] \in Updates
  BY Stages DEF CountAdmins, Serving, Updating, TypeOK
<1>3. \A g \in Handler \ {h} : req'[g] = req[g] /\ ~Updating(g)'
  BY <1>1, <1>2, Reading DEF Updating, Undisturbed
<1>4. CASE req'[h] = Idle
  <2>1. \A g \in Handler : ~Updating(g)' /\ ~Serving(g, "write")'
    BY <1>3, <1>4 DEF Updating, Idle, Serving
  <2> QED BY <1>1, <2>1 DEF Undisturbed
<1>5. CASE ~FewAdmins /\ req'[h] = [req[h] EXCEPT !.at = "write"]
  <2>1. req'[h].user = req[h].user /\ req'[h].target = req[h].target
    BY <1>2, <1>5 DEF Updates
  <2>2. AsRead(req[h])'
    BY <1>1, <1>2, <2>1 DEF AsRead, Undisturbed
  <2>3. \E a \in Admins : a # req[h].user
    BY <1>5 DEF FewAdmins
  <2>4. \A g \in Handler : Updating(g)' \/ Serving(g, "write")' => g = h
    BY <1>3 DEF Updating, Serving
  <2> QED BY <1>1, <2>1, <2>2, <2>3, <2>4 DEF Undisturbed
<1> QED BY <1>4, <1>5, Gone DEF CountAdmins, Done

\* The account is written.
LEMMA UndisturbedWrite ==
    ASSUME TypeOK, TypeOK', Undisturbed, NEW h \in Handler, Write(h)
    PROVE  Undisturbed'
<1> SUFFICES ASSUME "update" \notin mishaps' PROVE Undisturbed'
  BY DEF Undisturbed
<1> DEFINE r == req[h]
<1>1. "update" \notin mishaps
  BY DEF Write
<1>2. Updating(h) /\ r \in Updates /\ r.user \in Accounts
  BY Stages DEF Write, Serving, Updating, TypeOK, Updates
<1>3. \A g \in Handler : ~Updating(g)' /\ ~Serving(g, "write")'
  <2>1. \A g \in Handler \ {h} : req'[g].at = req[g].at /\ ~Updating(g)
    BY <1>1, <1>2, WriteRequests DEF Undisturbed
  <2>2. req'[h].at \notin {"count", "write"}
    <3>1. req'[h] = IF Revokes(r) THEN [at |-> "revoke", me |-> r.me, user |-> r.user]
                                  ELSE Idle
      BY WriteRequests
    <3> QED BY <3>1 DEF Idle
  <2> QED BY <2>1, <2>2 DEF Updating, Serving
<1>4. Accounts' # {} => Admins' # {}
  <2>1. /\ Accounts' = Accounts
        /\ \A u \in Accounts \ {r.user} : users'[u] = users[u]
        /\ users'[r.user] = Updated(r)
    BY <1>2 DEF Write, Accounts, TypeOK
  <2>2. Admins # {}
    BY <1>1, <1>2 DEF Undisturbed
  <2>3. CASE Demotes(r)
    <3>1. PICK a \in Admins : a # r.user
      BY <1>1, <2>3 DEF Undisturbed, Write
    <3>2. a \in Admins'
      BY <2>1, <3>1 DEF Admins
    <3> QED BY <3>2
  <2>4. CASE ~Demotes(r)
    <3>1. r.target.admin = users[r.user].admin /\ r.target.active = users[r.user].active
      <4>1. AsRead(r)
        BY <1>1, <1>2 DEF Undisturbed
      <4> QED BY <4>1 DEF AsRead
    <3>2. PICK a \in Admins : TRUE
      BY <2>2
    <3>3. CASE a # r.user
      BY <2>1, <3>2, <3>3 DEF Admins
    <3>4. CASE a = r.user
      <4>1. r.target.admin /\ NewAdmin(r) /\ NewActive(r)
        BY <2>4, <3>1, <3>2, <3>4 DEF Demotes, Admins
      <4>2. /\ Given(r.body, "is_admin", users[r.user].admin) = NewAdmin(r)
            /\ Given(r.body, "is_active", users[r.user].active) = NewActive(r)
        BY <3>1 DEF NewAdmin, NewActive
      <4>3. users'[a].admin = NewAdmin(r) /\ users'[a].active = NewActive(r)
        BY <2>1, <3>4, <4>2 DEF Updated
      <4>4. a \in Accounts' /\ users'[a].admin /\ users'[a].active
        BY <2>1, <3>2, <4>1, <4>3 DEF Admins
      <4> QED BY <4>4 DEF Admins
    <3> QED BY <3>3, <3>4
  <2> QED BY <2>3, <2>4
<1> QED BY <1>3, <1>4 DEF Undisturbed

LEMMA UndisturbedNext ==
    ASSUME TypeOK, TypeOK', Founded, Undisturbed, [Next]_vars
    PROVE  Undisturbed'
<1>1. ASSUME NEW h \in Handler, Bootstrap(h) PROVE Undisturbed'
  <2>1. PICK u \in User :
          /\ Accounts = {}
          /\ users' = Put(users, u, NewAccount(TRUE, {}))
          /\ Goto(h, [at |-> "session", user |-> u, fresh |-> TRUE])
    BY <1>1 DEF Bootstrap, NobodyYet
  <2>2. u \in Accounts' /\ users'[u] = NewAccount(TRUE, {})
    BY <2>1 DEF Accounts, Put
  <2>3. u \in Admins'
    BY <2>2 DEF Admins, NewAccount
  <2>4. \A g \in Handler : req'[g] = req[g] \/ req'[g].at \notin {"count", "write"}
    BY <2>1, Gone
  <2> QED BY <1>1, <2>1, <2>3, <2>4, UndisturbedKept DEF Bootstrap
<1>2. ASSUME NEW h \in Handler, CreateAccount(h) PROVE Undisturbed'
  <2>1. Accounts # {}
    BY <1>2 DEF CreateAccount, Founded
  <2>2. Accounts \subseteq Accounts' /\ \A u \in Accounts : users'[u] = users[u]
    BY <1>2 DEF CreateAccount, Accounts, Put
  <2>3. \A g \in Handler : req'[g] = req[g] \/ req'[g].at \notin {"count", "write"}
    BY <1>2, Gone DEF CreateAccount, Done, Idle
  <2>4. mishaps' = mishaps
    BY <1>2 DEF CreateAccount
  <2>5. CASE "update" \in mishaps
    BY <2>4, <2>5 DEF Undisturbed
  <2>6. CASE "update" \notin mishaps
    <3>1. Admins # {}
      BY <2>1, <2>6 DEF Undisturbed
    <3> QED BY <2>2, <2>3, <2>4, <3>1, UndisturbedKept
  <2> QED BY <2>5, <2>6
<1>3. ASSUME UNCHANGED users, mishaps \subseteq mishaps',
             \A g \in Handler : req'[g] = req[g] \/ req'[g].at \notin {"count", "write"}
      PROVE  Undisturbed'
  <2>1. Accounts' = Accounts
    BY <1>3 DEF Accounts
  <2>2. CASE "update" \in mishaps'
    BY <2>2 DEF Undisturbed
  <2>3. CASE "update" \notin mishaps'
    <3>1. Accounts' # {} => Admins # {}
      BY <1>3, <2>1, <2>3 DEF Undisturbed
    <3> QED BY <1>3, <2>1, <3>1, UndisturbedKept
  <2> QED BY <2>2, <2>3
<1>4. ASSUME NEW h \in Handler, Authorize(h) PROVE Undisturbed'
  <2>1. \A g \in Handler : req'[g] = req[g] \/ req'[g].at \notin {"count", "write"}
    BY <1>4, Gone DEF Authorize
  <2> QED BY <1>3, <1>4, <2>1 DEF Authorize
<1>5. ASSUME NEW h \in Handler, Other(h) PROVE Undisturbed'
  BY <1>3, <1>5, Elsewhere
<1>6. CASE Logout \/ Expire \/ Unblock \/ Crash \/ UNCHANGED vars
  BY <1>3, <1>6 DEF Logout, Expire, Unblock, Crash, vars, Idle
<1> QED BY <1>1, <1>2, <1>4, <1>5, <1>6, UndisturbedRead, UndisturbedCount,
           UndisturbedWrite DEF Next, Step, Other

\* Once the program has been set up there is an administrator who can log in,
\* as long as no update of an account overlaps another (updateAccount).
THEOREM AdministratorStays == Spec => []AdminRemains
<1>1. Init => Founded /\ Undisturbed
  BY DEF Init, Founded, OneFirstAdmin, Undisturbed, Serving, Updating, Accounts, Idle
<1>2. Undisturbed => AdminRemains
  BY DEF Undisturbed, AdminRemains
<1> QED BY <1>1, <1>2, FoundedNext, UndisturbedNext, TypeCorrect, PTL DEF Spec

-----------------------------------------------------------------------------
\* Sessions that rest on earlier credentials.

\* While nothing is lost and no login is overtaken: every such session is about
\* to be deleted by the request that made it one.
Covered ==
    mishaps \cap {"login", "lost"} = {} =>
       /\ \A h \in Handler : req[h].at \in {"clear", "session"} => req[h].fresh
       /\ \A t \in DOMAIN sessions : ~sessions[t].fresh =>
             \E h \in Handler : /\ Serving(h, "revoke")
                               /\ req[h].user = sessions[t].user
                               /\ req[h].me # t

\* A step that leaves the deletions that are due, and makes no session stale.
LEMMA CoveredKept ==
    ASSUME Covered, mishaps \subseteq mishaps',
           \A h \in Handler : Serving(h, "revoke") => req'[h] = req[h],
           \A h \in Handler :
              req'[h].at \in {"clear", "session"} =>
                 \/ req'[h].fresh
                 \/ req[h].at \in {"clear", "session"} /\ req'[h].fresh = req[h].fresh,
           \A t \in DOMAIN sessions' :
              \/ t \in DOMAIN sessions /\ sessions'[t] = sessions[t]
              \/ \E h \in Handler : /\ Serving(h, "session")
                                    /\ sessions'[t].fresh = req[h].fresh
    PROVE  Covered'
<1> SUFFICES ASSUME mishaps' \cap {"login", "lost"} = {} PROVE Covered'
  BY DEF Covered
<1>1. mishaps \cap {"login", "lost"} = {}
  OBVIOUS
<1>2. \A h \in Handler : req'[h].at \in {"clear", "session"} => req'[h].fresh
  BY <1>1 DEF Covered
<1>3. ASSUME NEW t \in DOMAIN sessions', ~sessions'[t].fresh
      PROVE  \E h \in Handler : /\ Serving(h, "revoke")'
                               /\ req'[h].user = sessions'[t].user
                               /\ req'[h].me # t
  <2>1. t \in DOMAIN sessions /\ sessions'[t] = sessions[t]
    BY <1>1, <1>3 DEF Covered, Serving
  <2>2. PICK h \in Handler : /\ Serving(h, "revoke")
                            /\ req[h].user = sessions[t].user
                            /\ req[h].me # t
    BY <1>1, <1>3, <2>1 DEF Covered
  <2> QED BY <2>1, <2>2 DEF Serving
<1> QED BY <1>2, <1>3 DEF Covered

\* The update that makes sessions stale goes on to delete them.
LEMMA CoveredWrite ==
    ASSUME TypeOK, TypeOK', Covered, NEW h \in Handler, Write(h)
    PROVE  Covered'
<1> SUFFICES ASSUME mishaps' \cap {"login", "lost"} = {} PROVE Covered'
  BY DEF Covered
<1> DEFINE r == req[h]
<1>1. mishaps \cap {"login", "lost"} = {}
  BY DEF Write
<1>2. r.at = "write" /\ r \in Updates
  BY Stages DEF Write, Serving, TypeOK
<1>3. \A g \in Handler \ {h} : req'[g] = req[g]
  <2>1. ~Overturns(r) \/ LoggingIn(r.user) = {}
    BY DEF Write
  <2> QED BY <2>1 DEF Write
<1>4. req'[h] = IF Revokes(r) THEN [at |-> "revoke", me |-> r.me, user |-> r.user]
                              ELSE Idle
  BY WriteRequests
<1>5. Overturns(r) => Revokes(r)
  BY AccountsAssumption, <1>2 DEF Overturns, Revokes, NewActive, Given, Updates
<1>6. \A g \in Handler : req'[g].at \in {"clear", "session"} => req'[g].fresh
  BY <1>1, <1>3, <1>4 DEF Covered, Idle
<1>7. \A t \in DOMAIN sessions :
         /\ sessions'[t].user = sessions[t].user
         /\ sessions'[t].fresh <=>
               sessions[t].fresh /\ (Overturns(r) /\ sessions[t].user = r.user => t = r.me)
  BY DEF Write, TypeOK, Session
<1>8. DOMAIN sessions' = DOMAIN sessions
  BY DEF Write
<1>9. ASSUME NEW t \in DOMAIN sessions, ~sessions'[t].fresh
      PROVE  \E g \in Handler : /\ Serving(g, "revoke")'
                               /\ req'[g].user = sessions'[t].user
                               /\ req'[g].me # t
  <2>1. CASE Overturns(r) /\ sessions[t].user = r.user /\ t # r.me
    <3>1. req'[h] = [at |-> "revoke", me |-> r.me, user |-> r.user]
      BY <1>4, <1>5, <2>1
    <3> QED BY <1>7, <2>1, <3>1 DEF Serving
  <2>2. CASE ~sessions[t].fresh
    <3>1. PICK g \in Handler : /\ Serving(g, "revoke")
                              /\ req[g].user = sessions[t].user
                              /\ req[g].me # t
      BY <1>1, <2>2 DEF Covered
    <3>2. g # h
      BY <1>2, <3>1 DEF Serving
    <3> QED BY <1>3, <1>7, <3>1, <3>2 DEF Serving
  <2> QED BY <1>7, <1>9, <2>1, <2>2
<1> QED BY <1>6, <1>8, <1>9 DEF Covered

\* The deletion takes all that were waiting for it.
LEMMA CoveredRevoke ==
    ASSUME TypeOK, TypeOK', Covered, NEW h \in Handler, Revoke(h)
    PROVE  Covered'
<1> SUFFICES ASSUME mishaps' \cap {"login", "lost"} = {} PROVE Covered'
  BY DEF Covered
<1>1. /\ mishaps \cap {"login", "lost"} = {}
      /\ sessions' = Without({t \in DOMAIN sessions :
                                sessions[t].user = req[h].user /\ t # req[h].me})
  BY DEF Revoke
<1>2. req'[h] = Idle /\ \A g \in Handler \ {h} : req'[g] = req[g]
  BY Gone DEF Revoke, Done
<1>3. \A g \in Handler : req'[g].at \in {"clear", "session"} => req'[g].fresh
  BY <1>1, <1>2 DEF Covered, Idle
<1>4. ASSUME NEW t \in DOMAIN sessions', ~sessions'[t].fresh
      PROVE  \E g \in Handler : /\ Serving(g, "revoke")'
                               /\ req'[g].user = sessions'[t].user
                               /\ req'[g].me # t
  <2>1. /\ t \in DOMAIN sessions /\ sessions'[t] = sessions[t]
        /\ ~(sessions[t].user = req[h].user /\ t # req[h].me)
    BY <1>1 DEF Without
  <2>2. PICK g \in Handler : /\ Serving(g, "revoke")
                            /\ req[g].user = sessions[t].user
                            /\ req[g].me # t
    BY <1>1, <1>4, <2>1 DEF Covered
  <2>3. g # h
    BY <2>1, <2>2
  <2> QED BY <1>2, <2>1, <2>2, <2>3 DEF Serving
<1> QED BY <1>3, <1>4 DEF Covered

LEMMA CoveredNext ==
    ASSUME TypeOK, TypeOK', Covered, [Next]_vars
    PROVE  Covered'
<1>1. ASSUME mishaps \subseteq mishaps', UNCHANGED sessions, NEW h \in Handler,
             ~Serving(h, "revoke"), \A g \in Handler \ {h} : req'[g] = req[g],
             req'[h].at \in {"clear", "session"} =>
                \/ req'[h].fresh
                \/ req[h].at \in {"clear", "session"} /\ req'[h].fresh = req[h].fresh
      PROVE  Covered'
  BY <1>1, CoveredKept
<1>2. ASSUME NEW h \in Handler, Bootstrap(h) \/ Authorize(h) \/ CreateAccount(h)
      PROVE  Covered'
  <2>1. /\ UNCHANGED <<sessions, mishaps>> /\ ~Serving(h, "revoke")
        /\ \A g \in Handler \ {h} : req'[g] = req[g]
    BY <1>2 DEF Bootstrap, Authorize, CreateAccount, Serving, Goto, Done, TypeOK
  <2>2. req'[h].at \in {"clear", "session"} => req'[h].fresh
    <3>1. CASE Bootstrap(h)
      <4>1. PICK u \in User :
               req'[h] = [at |-> "session", user |-> u, fresh |-> TRUE]
        BY <3>1, Gone DEF Bootstrap
      <4> QED BY <4>1
    <3>2. CASE Authorize(h)
      <4>1. PICK t \in DOMAIN sessions : req'[h] = [at |-> "target", me |-> t]
        BY <3>2, Gone DEF Authorize
      <4> QED BY <4>1
    <3>3. CASE CreateAccount(h)
      BY <3>3, Gone DEF CreateAccount, Done, Idle
    <3> QED BY <1>2, <3>1, <3>2, <3>3
  <2> QED BY <1>1, <2>1, <2>2
<1>3. ASSUME NEW h \in Handler, ReadTarget(h) \/ CountAdmins(h) PROVE Covered'
  <2>1. /\ UNCHANGED sessions /\ ~Serving(h, "revoke") /\ mishaps \subseteq mishaps'
        /\ \A g \in Handler \ {h} : req'[g] = req[g]
    BY <1>3, Reading DEF ReadTarget, CountAdmins, Serving
  <2>2. req'[h].at \notin {"clear", "session"}
    <3>1. CASE ReadTarget(h)
      BY <3>1, Gone DEF ReadTarget
    <3>2. CASE CountAdmins(h)
      <4>1. req[h] \in Updates
        BY <3>2, Stages DEF CountAdmins, Serving, TypeOK
      <4>2. req'[h] = Idle \/ req'[h] = [req[h] EXCEPT !.at = "write"]
        BY <3>2, Gone DEF CountAdmins, Done
      <4> QED BY <4>1, <4>2 DEF Idle, Updates
    <3> QED BY <1>3, <3>1, <3>2
  <2> QED BY <1>1, <2>1, <2>2
<1>4. ASSUME NEW h \in Handler,
             Enter(h) \/ Forget(h) \/ Verify(h) \/ RecordFailure(h) \/ ClearFailures(h)
      PROVE  Covered'
  <2>1. /\ UNCHANGED <<sessions, mishaps>> /\ ~Serving(h, "revoke")
        /\ \A g \in Handler \ {h} : req'[g] = req[g]
    BY <1>4 DEF Enter, Forget, Verify, RecordFailure, ClearFailures, Serving, Goto, Done,
                TypeOK
  <2>2. \A x \in {"verify", "fail"} : Serving(h, "forget") \/ Serving(h, "verify")
           => [req[h] EXCEPT !.at = x] \in [at : {x}, client : Client]
    <3>1. Serving(h, "forget") \/ Serving(h, "verify")
             => req[h] \in [at : {"forget", "verify"}, client : Client]
      BY Stages DEF Serving, TypeOK
    <3> QED BY <3>1
  <2>3. req'[h].at \in {"clear", "session"} =>
           \/ req'[h].fresh
           \/ req[h].at \in {"clear", "session"} /\ req'[h].fresh = req[h].fresh
    <3>1. CASE Enter(h)
      <4>1. PICK c \in Client :
               req'[h] = [at |-> IF attempts[c].block = "over" THEN "forget"
                                                               ELSE "verify",
                          client |-> c]
        BY <3>1, Gone DEF Enter
      <4> QED BY <4>1
    <3>2. CASE RecordFailure(h)
      BY <3>2, Gone DEF RecordFailure, Done, Idle
    <3>3. CASE ClearFailures(h)
      <4>1. /\ Serving(h, "clear")
            /\ req'[h] = [at |-> "session", user |-> req[h].user, fresh |-> req[h].fresh]
        BY <3>3, Gone DEF ClearFailures
      <4> QED BY <4>1 DEF Serving
    <3>4. CASE Forget(h) \/ Verify(h)
      <4>1. Serving(h, "forget") \/ Serving(h, "verify")
        BY <3>4 DEF Forget, Verify
      <4>2. \/ \E x \in {"verify", "fail"} : req'[h] = [req[h] EXCEPT !.at = x]
            \/ \E u \in Accounts : req'[h] = [at |-> "clear", client |-> req[h].client,
                                            user |-> u, fresh |-> TRUE]
        BY <3>4, Gone DEF Forget, Verify
      <4>3. ASSUME NEW x \in {"verify", "fail"}, req'[h] = [req[h] EXCEPT !.at = x]
            PROVE  req'[h].at \notin {"clear", "session"}
        <5>1. req'[h] \in [at : {x}, client : Client]
          BY <2>2, <4>1, <4>3, Zenon
        <5> QED BY <5>1
      <4>4. ASSUME NEW u \in Accounts,
                   req'[h] = [at |-> "clear", client |-> req[h].client,
                              user |-> u, fresh |-> TRUE]
            PROVE  req'[h].fresh
        BY <4>4
      <4> QED BY <4>2, <4>3, <4>4, Zenon
    <3> QED BY <1>4, <3>1, <3>2, <3>3, <3>4
  <2> QED BY <1>1, <2>1, <2>3
<1>5. ASSUME NEW h \in Handler, CreateSession(h) PROVE Covered'
  <2>1. UNCHANGED mishaps /\ Serving(h, "session")
    BY <1>5 DEF CreateSession
  <2>2. req'[h] = Idle /\ \A g \in Handler \ {h} : req'[g] = req[g]
    BY <1>5, Gone DEF CreateSession, Done
  <2>3. \A t \in DOMAIN sessions' :
           \/ t \in DOMAIN sessions /\ sessions'[t] = sessions[t]
           \/ sessions'[t].fresh = req[h].fresh
    BY <1>5 DEF CreateSession, Put
  <2> QED BY <2>1, <2>2, <2>3, CoveredKept DEF Serving, Idle
<1>6. CASE Logout \/ Expire \/ Unblock \/ UNCHANGED vars
  <2>1. /\ UNCHANGED <<req, mishaps>>
        /\ \A t \in DOMAIN sessions' : t \in DOMAIN sessions /\ sessions'[t] = sessions[t]
    BY <1>6 DEF Logout, Expire, Unblock, vars, Without
  <2> QED BY <2>1, CoveredKept
<1>7. CASE Crash
  <2>1. CASE \E h \in Handler : Serving(h, "revoke")
    BY <1>7, <2>1 DEF Crash, Covered
  <2>2. CASE \A h \in Handler : ~Serving(h, "revoke")
    BY <1>7, <2>2, CoveredKept DEF Crash, Idle
  <2> QED BY <2>1, <2>2
<1> QED BY <1>2, <1>3, <1>4, <1>5, <1>6, <1>7, CoveredWrite, CoveredRevoke DEF Next, Step

\* When a change of password or a deactivation has been answered, no session
\* that rests on the earlier credentials is left (updateAccount, login).
THEOREM SessionsRevoked == Spec => []RevokedWhenAnswered
<1>1. Init => Covered
  BY DEF Init, Covered, Idle
<1>2. Covered => RevokedWhenAnswered
  BY DEF Covered, RevokedWhenAnswered
<1> QED BY <1>1, <1>2, CoveredNext, TypeCorrect, PTL DEF Spec
=============================================================================
