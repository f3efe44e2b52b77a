------------------------------ MODULE Accounts ------------------------------
(***************************************************************************)
(* Accounts, sessions and the login counter (internal/app/auth.go,         *)
(* auth_store.go).                                                         *)
(*                                                                         *)
(* Every request is served by a handler of its own, and a handler is a     *)
(* sequence of statements on the database, none of which shares a          *)
(* transaction with the next: updateAccount reads the account, counts the  *)
(* administrators, writes the account and deletes its sessions; login      *)
(* checks the counter, reads the account, resets the counter and inserts a *)
(* session.  A step below is one statement.                                *)
(*                                                                         *)
(* Passwords are abstracted to whether they match.  A session token is     *)
(* random: a Token may be drawn again once no row and no request has it.   *)
(* Bug... operators are faulty forms of the definition below them.         *)
(***************************************************************************)
EXTENDS Naturals

CONSTANTS
    User,         \* user names
    Token,        \* session tokens; bounds the sessions that exist at a time
    Handler,      \* requests that are served at a time
    Client,       \* addresses logins come from
    MaxFailures,  \* loginMaxFailures
    Perm,         \* allPermissions
    View, Manage, \* PermView, PermManageUsers
    Bodies        \* bodies of PATCH /api/users/{id}

Fields == {"is_admin", "is_active", "permissions", "password"}

ASSUME AccountsAssumption ==
    /\ MaxFailures \in Nat \ {0}
    /\ {View, Manage} \subseteq Perm /\ View # Manage
    /\ \A b \in Bodies : /\ DOMAIN b \subseteq Fields
                         /\ "is_admin" \in DOMAIN b => b["is_admin"] \in BOOLEAN
                         /\ "is_active" \in DOMAIN b => b["is_active"] \in BOOLEAN
                         /\ "permissions" \in DOMAIN b => b["permissions"] \subseteq Perm

VARIABLES
    users,     \* the users table: user name -> row
    sessions,  \* the sessions table: token -> row
    attempts,  \* the login_attempts table, per address
    req,       \* per handler: where it stands, and its locals
    founders,  \* history: accounts made by bootstrapAdmin
    mishaps    \* history: overlaps and losses the order of statements does
               \* not cater for

vars == <<users, sessions, attempts, req, founders, mishaps>>

Account == [admin : BOOLEAN, active : BOOLEAN, perms : SUBSET Perm]
\* fresh (history): no change of password and no deactivation has been written
\* since the credentials were checked.
Session == [user : User, fresh : BOOLEAN]
NoFailures == [failures |-> 0, block |-> "none"]

Idle == [at |-> "idle"]

\* The table f with the row v inserted under k.
Put(f, k, v) == [x \in DOMAIN f \cup {k} |-> IF x = k THEN v ELSE f[x]]

Accounts == DOMAIN users
Admins == {u \in Accounts : users[u].admin /\ users[u].active}

Serving(h, stage) == req[h].at = stage
Goto(h, r) == req' = [req EXCEPT ![h] = r]
Done(h) == Goto(h, Idle)

\* No row of the table and no request has the token.
Unused(t) == /\ t \notin DOMAIN sessions
             /\ \A h \in Handler : "me" \in DOMAIN req[h] => req[h].me # t

Init == /\ users = <<>> /\ sessions = <<>>
        /\ attempts = [c \in Client |-> NoFailures]
        /\ req = [h \in Handler |-> Idle]
        /\ founders = {} /\ mishaps = {}

-----------------------------------------------------------------------------
\* bootstrapAdmin and createAccount.

\* An account in the given role, as createUser and createFirstAdmin store it.
NewAccount(admin, p) ==
    [admin |-> admin, active |-> TRUE,
     perms |-> IF admin THEN Perm ELSE (p \ {Manage}) \cup {View}]

BugNobodyYet(u) == u \notin Accounts
\* INSERT ... SELECT ... WHERE NOT EXISTS (SELECT 1 FROM users)
NobodyYet(u) == Accounts = {}

\* createFirstAdmin, one statement; then a session is made.
Bootstrap(h) ==
    /\ Serving(h, "idle")
    /\ \E u \in User :
          /\ NobodyYet(u)
          /\ users' = Put(users, u, NewAccount(TRUE, {}))
          /\ founders' = founders \cup {u}
          /\ Goto(h, [at |-> "session", user |-> u, fresh |-> TRUE])
    /\ UNCHANGED <<sessions, attempts, mishaps>>

\* require(PermManageUsers, ...): the session's row and its user's in one
\* query; what it returns is not looked at again.
Authorize(h) ==
    /\ Serving(h, "idle")
    /\ \E t \in DOMAIN sessions :
          LET u == users[sessions[t].user] IN
          /\ u.active
          /\ u.admin \/ Manage \in u.perms
          /\ Goto(h, [at |-> "target", me |-> t])
    /\ UNCHANGED <<users, sessions, attempts, founders, mishaps>>

\* createUser; the name is UNIQUE.
CreateAccount(h) ==
    /\ Serving(h, "target")
    /\ \E u \in User \ Accounts, admin \in BOOLEAN, p \in SUBSET Perm :
          users' = Put(users, u, NewAccount(admin, p))
    /\ Done(h)
    /\ UNCHANGED <<sessions, attempts, founders, mishaps>>

-----------------------------------------------------------------------------
\* updateAccount.

Given(b, field, old) == IF field \in DOMAIN b THEN b[field] ELSE old
NewAdmin(r)  == Given(r.body, "is_admin", r.target.admin)
NewActive(r) == Given(r.body, "is_active", r.target.active)

\* The update may take an administrator away.
Demotes(r) == r.target.admin /\ (~NewAdmin(r) \/ ~NewActive(r))

Updating(h) == req[h].at \in {"count", "write"}

\* target, _, err := s.store.userByID(id)
ReadTarget(h) ==
    /\ Serving(h, "target")
    /\ \E u \in Accounts, b \in Bodies :
          LET r == [at |-> "write", me |-> req[h].me, user |-> u,
                    target |-> [admin |-> users[u].admin, active |-> users[u].active],
                    body |-> b]
          IN Goto(h, IF Demotes(r) THEN [r EXCEPT !.at = "count"] ELSE r)
    /\ mishaps' = IF \E g \in Handler : Updating(g)
                  THEN mishaps \cup {"update"} ELSE mishaps
    /\ UNCHANGED <<users, sessions, attempts, founders>>

BugFewAdmins == Admins = {}
\* SELECT COUNT(*) ... WHERE is_admin=1 AND is_active=1; count <= 1
FewAdmins == \A a, b \in Admins : a = b

CountAdmins(h) ==
    /\ Serving(h, "count")
    /\ IF FewAdmins THEN Done(h) ELSE Goto(h, [req[h] EXCEPT !.at = "write"])
    /\ UNCHANGED <<users, sessions, attempts, founders, mishaps>>

\* The row after the UPDATE.  Only the columns in question are set, from the
\* account as it was read.
Updated(r) ==
    LET old == users[r.user] IN
       [admin  |-> Given(r.body, "is_admin", old.admin),
        active |-> Given(r.body, "is_active", old.active),
        perms  |-> IF NewAdmin(r) THEN Perm
                   ELSE IF "permissions" \in DOMAIN r.body
                        THEN (r.body["permissions"] \ {Manage}) \cup {View}
                        ELSE old.perms]

BugRevokes(r) == "password" \in DOMAIN r.body
\* !newActive || v.Password != nil
Revokes(r) == ~NewActive(r) \/ "password" \in DOMAIN r.body

\* What the UPDATE makes of sessions and logins under way: they rest on
\* credentials that no longer stand.  The session of the request itself goes
\* on.  A password that is the empty string is not stored.
Overturns(r) == \/ "password" \in DOMAIN r.body /\ r.body["password"] = "new"
                \/ "is_active" \in DOMAIN r.body /\ ~r.body["is_active"]
LoggingIn(u) == {h \in Handler : req[h].at \in {"clear", "session"} /\ req[h].user = u}

Write(h) ==
    LET r == req[h] IN
    /\ Serving(h, "write")
    /\ users' = [users EXCEPT ![r.user] = Updated(r)]
    /\ sessions' = [t \in DOMAIN sessions |->
                      [sessions[t] EXCEPT
                         !.fresh = @ /\ (Overturns(r) /\ sessions[t].user = r.user
                                           => t = r.me)]]
    /\ req' = [g \in Handler |->
                 IF g = h
                 THEN IF Revokes(r) THEN [at |-> "revoke", me |-> r.me, user |-> r.user]
                                    ELSE Idle
                 ELSE IF Overturns(r) /\ g \in LoggingIn(r.user)
                 THEN [req[g] EXCEPT !.fresh = FALSE]
                 ELSE req[g]]
    /\ mishaps' = IF Overturns(r) /\ LoggingIn(r.user) # {}
                  THEN mishaps \cup {"login"} ELSE mishaps
    /\ UNCHANGED <<attempts, founders>>

Without(ts) == [t \in DOMAIN sessions \ ts |-> sessions[t]]

\* DELETE FROM sessions WHERE user_id=? AND token_hash<>?; its error is
\* ignored.
Revoke(h) ==
    LET r == req[h] IN
    /\ Serving(h, "revoke")
    /\ \/ /\ sessions' = Without({t \in DOMAIN sessions :
                                    sessions[t].user = r.user /\ t # r.me})
          /\ UNCHANGED mishaps
       \/ /\ mishaps' = mishaps \cup {"lost"}
          /\ UNCHANGED sessions
    /\ Done(h)
    /\ UNCHANGED <<users, attempts, founders>>

-----------------------------------------------------------------------------
\* login and logout.

\* loginBlocked: a block that is over is forgotten by a statement of its own.
Enter(h) ==
    /\ Serving(h, "idle")
    /\ \E c \in Client :
          /\ attempts[c].block # "on"
          /\ Goto(h, [at |-> IF attempts[c].block = "over" THEN "forget" ELSE "verify",
                      client |-> c])
    /\ UNCHANGED <<users, sessions, attempts, founders, mishaps>>

Forget(h) ==
    /\ Serving(h, "forget")
    /\ attempts' = [attempts EXCEPT ![req[h].client] = NoFailures]
    /\ Goto(h, [req[h] EXCEPT !.at = "verify"])
    /\ UNCHANGED <<users, sessions, founders, mishaps>>

\* userByUsername; the password is checked against the row that was read.
\* A wrong password, an inactive or an unknown account are all one failure.
Verify(h) ==
    /\ Serving(h, "verify")
    /\ \/ \E u \in Accounts :
             /\ users[u].active
             /\ Goto(h, [at |-> "clear", client |-> req[h].client,
                         user |-> u, fresh |-> TRUE])
       \/ Goto(h, [req[h] EXCEPT !.at = "fail"])
    /\ UNCHANGED <<users, sessions, attempts, founders, mishaps>>

\* recordLogin(ip, false).  The counter is cut off at MaxFailures: the code
\* only compares it.
RecordFailure(h) ==
    /\ Serving(h, "fail")
    /\ LET c == req[h].client
           n == IF attempts[c].failures = MaxFailures THEN MaxFailures
                ELSE attempts[c].failures + 1
       IN attempts' = [attempts EXCEPT
             ![c] = [failures |-> n,
                     block |-> IF n = MaxFailures THEN "on" ELSE @.block]]
    /\ Done(h)
    /\ UNCHANGED <<users, sessions, founders, mishaps>>

\* recordLogin(ip, true)
ClearFailures(h) ==
    /\ Serving(h, "clear")
    /\ attempts' = [attempts EXCEPT ![req[h].client] = NoFailures]
    /\ Goto(h, [at |-> "session", user |-> req[h].user, fresh |-> req[h].fresh])
    /\ UNCHANGED <<users, sessions, founders, mishaps>>

\* createSession: the row is inserted.  (That it first deletes the expired
\* rows is part of Expire.)
CreateSession(h) ==
    /\ Serving(h, "session")
    /\ \E t \in Token :
          /\ Unused(t)
          /\ sessions' = Put(sessions, t, [user |-> req[h].user, fresh |-> req[h].fresh])
    /\ Done(h)
    /\ UNCHANGED <<users, attempts, founders, mishaps>>

Logout == /\ \E t \in DOMAIN sessions : sessions' = Without({t})
          /\ UNCHANGED <<users, attempts, req, founders, mishaps>>

-----------------------------------------------------------------------------
\* Time and the process.

\* Seven days pass: no query returns the session's row any more, and a later
\* login deletes it.
Expire == /\ \E t \in DOMAIN sessions : sessions' = Without({t})
          /\ UNCHANGED <<users, attempts, req, founders, mishaps>>

\* loginBlockWindow passes.
Unblock == /\ \E c \in Client : /\ attempts[c].block = "on"
                                /\ attempts' = [attempts EXCEPT ![c].block = "over"]
           /\ UNCHANGED <<users, sessions, req, founders, mishaps>>

\* The process ends between two statements; every request is gone.
Crash == /\ req' = [h \in Handler |-> Idle]
         /\ mishaps' = IF \E h \in Handler : Serving(h, "revoke")
                       THEN mishaps \cup {"lost"} ELSE mishaps
         /\ UNCHANGED <<users, sessions, attempts, founders>>

Step(h) == \/ Bootstrap(h) \/ Authorize(h) \/ CreateAccount(h)
           \/ ReadTarget(h) \/ CountAdmins(h) \/ Write(h) \/ Revoke(h)
           \/ Enter(h) \/ Forget(h) \/ Verify(h) \/ RecordFailure(h)
           \/ ClearFailures(h) \/ CreateSession(h)

Next == (\E h \in Handler : Step(h)) \/ Logout \/ Expire \/ Unblock \/ Crash

Spec == Init /\ [][Next]_vars

-----------------------------------------------------------------------------

Request ==
    {Idle}
    \cup [at : {"target"}, me : Token]
    \cup [at : {"count", "write"}, me : Token, user : Accounts,
          target : [admin : BOOLEAN, active : BOOLEAN], body : Bodies]
    \cup [at : {"revoke"}, me : Token, user : Accounts]
    \cup [at : {"forget", "verify", "fail"}, client : Client]
    \cup [at : {"clear"}, client : Client, user : Accounts, fresh : BOOLEAN]
    \cup [at : {"session"}, user : Accounts, fresh : BOOLEAN]

\* Every variable holds a value of its kind, and the foreign key holds: no
\* session and no request is about an account that does not exist.
TypeOK ==
    /\ Accounts \subseteq User /\ users \in [Accounts -> Account]
    /\ DOMAIN sessions \subseteq Token
    /\ sessions \in [DOMAIN sessions -> Session]
    /\ \A t \in DOMAIN sessions : sessions[t].user \in Accounts
    /\ attempts \in [Client -> [failures : 0 .. MaxFailures,
                                block : {"none", "on", "over"}]]
    /\ req \in [Handler -> Request]
    /\ founders \subseteq Accounts
    /\ mishaps \subseteq {"update", "login", "lost"}

\* However many requests try to set the program up at once, one account is
\* made that way, before any other account exists.
OneFirstAdmin ==
    /\ \A a, b \in founders : a = b
    /\ Accounts # {} => founders # {}

\* Once the program has been set up there is always an administrator who can
\* log in, through any number of demotions, deactivations, crashes and lost
\* statements, as long as no update of an account overlaps another.
AdminRemains == "update" \notin mishaps /\ Accounts # {} => Admins # {}

\* When a change of password or a deactivation has been answered, no session
\* that rests on the earlier credentials is left to be used again (after a
\* later reactivation, say) except the one the change was made from, unless a
\* login was under way at that moment or the deletion was lost.
RevokedWhenAnswered ==
    /\ mishaps \cap {"login", "lost"} = {}
    /\ \A h \in Handler : ~Serving(h, "revoke")
    => \A t \in DOMAIN sessions : sessions[t].fresh

-----------------------------------------------------------------------------
\* What the program's words say and the code does not do.

\* README.md:271 and auth.go:311: the last administrator who can log in is
\* neither deactivated nor demoted.
AdminAlways == Accounts # {} => Admins # {}
=============================================================================
