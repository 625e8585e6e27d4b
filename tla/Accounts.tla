------------------------------ MODULE Accounts ------------------------------
(***************************************************************************)
(* The admin's accounts and the records of API keys (src/src/admin.rs):    *)
(* requests that change a password, log in, create a user, create or       *)
(* revoke a key record.  Each is a row of statements, every one a          *)
(* transaction of its own; the middleware's 30 s may drop a request        *)
(* between two or in the middle of one, and the database may still carry   *)
(* out the one that was under way (src/src/main.rs).                       *)
(*                                                                         *)
(* A password stands for its hash: hash_password has no salt of its user,  *)
(* so equal passwords have equal hashes.                                   *)
(***************************************************************************)
EXTENDS Integers, FiniteSets

CONSTANTS
    User,        \* usernames
    Password,    \* passwords, as their hashes
    Nobody,      \* no row
    KeyName,     \* names of key records
    Request,     \* requests
    MaxFailures  \* bound on the failures of the database

ASSUME AccountsAssumption == Nobody \notin Password /\ MaxFailures \in Nat

VARIABLES
    admin_users,  \* password_hash by username
    sessions,     \* admin_sessions: the requests whose token has a row
    last_login,   \* users with a last_login of this run
    keys,         \* api_key_records by name: "none", "active", "revoked"
    request,      \* the requests: what they ask, their next statement
    settled,      \* of a request: the others that were over when it came
    failures      \* for the bound

tables == <<admin_users, sessions, last_login, keys>>
accountsVars == <<tables, request, settled, failures>>

Idle == [what |-> "none", user |-> Nobody, key |-> Nobody, old |-> Nobody, new |-> Nobody,
         at |-> "idle", answer |-> 0]

\* The statements: of the table that they read or write.
Statement == {"select", "update", "session", "stamp", "user", "key", "revoke"}

AccountsTypeOK ==
    /\ admin_users \in [User -> Password \cup {Nobody}]
    /\ sessions \subseteq Request /\ last_login \subseteq User
    /\ keys \in [KeyName -> {"none", "active", "revoked"}]
    /\ \A r \in Request :
          /\ request[r].at \in Statement \cup {"idle", "done"}
          /\ request[r].answer \in {0, 200, 201, 401, 404, 408, 409, 500}
          /\ request[r].at = "done" => request[r].answer # 0
    /\ settled \in [Request -> SUBSET Request]
    /\ failures \in 0..MaxFailures

-----------------------------------------------------------------------------
(* A request comes.                                                        *)

Ask(r, what, user, key, old, new, at) ==
    /\ request[r] = Idle
    /\ request' = [request EXCEPT ![r] =
            [what |-> what, user |-> user, key |-> key, old |-> old, new |-> new,
             at |-> at, answer |-> 0]]
    /\ settled' = [settled EXCEPT ![r] = {q \in Request : request[q].at = "done"}]
    /\ UNCHANGED <<tables, failures>>

ChangePassword(r) ==
    \E u \in User, old, new \in Password :
        old # new /\ Ask(r, "change", u, Nobody, old, new, "select")
Login(r) == \E u \in User, p \in Password : Ask(r, "login", u, Nobody, p, Nobody, "select")
CreateUser(r) == \E u \in User, p \in Password : Ask(r, "create", u, Nobody, Nobody, p, "user")
CreateKey(r) == \E k \in KeyName : Ask(r, "key", Nobody, k, Nobody, Nobody, "key")
RevokeKey(r) == \E k \in KeyName : Ask(r, "revoke", Nobody, k, Nobody, Nobody, "revoke")

-----------------------------------------------------------------------------
(* Its statements.  An answer of 408 was given already, by the middleware. *)

Waits(r) == request[r].at \in Statement /\ request[r].answer = 0
Goes(r, at) == request' = [request EXCEPT ![r].at = at]
Answers(r, status) == request' = [request EXCEPT ![r].at = "done", ![r].answer = status]

\* SELECT password_hash, then verify_password: of change_password and admin_login.
Select(r) ==
    LET hash == admin_users[request[r].user] IN
    /\ Waits(r) /\ request[r].at = "select"
    /\ \/ /\ hash = request[r].old
          /\ Goes(r, IF request[r].what = "change" THEN "update" ELSE "session")
       \/ /\ hash # request[r].old
          /\ Answers(r, IF request[r].what = "change" /\ hash = Nobody THEN 404 ELSE 401)
    /\ UNCHANGED <<tables, settled, failures>>

\* Mutant: the hash of the current password is written back.
NewHashOfCurrent(r) == request[r].old

\* What UPDATE admin_users sets, whatever the hash is by now.
NewHash(r) == request[r].new

\* Mutant: AND is_active = true is left out.
RevocableTwice(k) == keys[k] # "none"

\* WHERE name = $1 AND is_active = true
Revocable(k) == keys[k] = "active"

\* What the next statement does to the tables, if it does anything: usernames
\* and names of keys are unique, those of revoked keys too.
Effect(r) ==
    LET q == request[r] IN
    \/ /\ q.at = "update" /\ admin_users' = [admin_users EXCEPT ![q.user] = NewHash(r)]
       /\ UNCHANGED <<sessions, last_login, keys>>
    \/ /\ q.at = "session" /\ sessions' = sessions \cup {r}
       /\ UNCHANGED <<admin_users, last_login, keys>>
    \/ /\ q.at = "stamp" /\ last_login' = last_login \cup {q.user}
       /\ UNCHANGED <<admin_users, sessions, keys>>
    \/ /\ q.at = "user" /\ admin_users[q.user] = Nobody
       /\ admin_users' = [admin_users EXCEPT ![q.user] = q.new]
       /\ UNCHANGED <<sessions, last_login, keys>>
    \/ /\ q.at = "key" /\ keys[q.key] = "none"
       /\ keys' = [keys EXCEPT ![q.key] = "active"]
       /\ UNCHANGED <<admin_users, sessions, last_login>>
    \/ /\ q.at = "revoke" /\ Revocable(q.key)
       /\ keys' = [keys EXCEPT ![q.key] = "revoked"]
       /\ UNCHANGED <<admin_users, sessions, last_login>>

\* The statement is carried out, and the request goes on or is answered.
Executes(r) ==
    /\ Waits(r) /\ Effect(r)
    /\ IF request[r].at = "session" THEN Goes(r, "stamp")
       ELSE Answers(r, IF request[r].at \in {"user", "key"} THEN 201 ELSE 200)
    /\ UNCHANGED <<settled, failures>>

\* 409 for a "duplicate key"; 404 if rows_affected() is 0.
Refused(r) ==
    LET q == request[r] IN
    /\ Waits(r)
    /\ \/ q.at = "user" /\ admin_users[q.user] # Nobody /\ Answers(r, 409)
       \/ q.at = "key" /\ keys[q.key] # "none" /\ Answers(r, 409)
       \/ q.at = "revoke" /\ ~Revocable(q.key) /\ Answers(r, 404)
    /\ UNCHANGED <<tables, settled, failures>>

\* A statement fails: 500, although it may have been carried out if only the
\* connection was lost.  What earlier ones did stays.
Fails(r) ==
    /\ Waits(r) /\ failures < MaxFailures
    /\ failures' = failures + 1 /\ Answers(r, 500)
    /\ Effect(r) \/ UNCHANGED tables
    /\ UNCHANGED settled

\* The 30 s are over: the request is dropped, its statement is left to the database.
Dropped(r) ==
    /\ Waits(r) /\ failures < MaxFailures
    /\ failures' = failures + 1
    /\ request' = [request EXCEPT ![r].answer = 408]
    /\ UNCHANGED <<tables, settled>>

LateStatement(r) ==
    /\ request[r].at \in Statement /\ request[r].answer = 408
    /\ Effect(r) \/ UNCHANGED tables
    /\ Goes(r, "done")
    /\ UNCHANGED <<settled, failures>>

-----------------------------------------------------------------------------
AccountsInit ==
    /\ admin_users \in [User -> Password \cup {Nobody}]
    /\ sessions = {} /\ last_login = {}
    /\ keys = [k \in KeyName |-> "none"]
    /\ request = [r \in Request |-> Idle]
    /\ settled = [r \in Request |-> {}]
    /\ failures = 0

AccountsNext ==
    \E r \in Request :
        \/ ChangePassword(r) \/ Login(r) \/ CreateUser(r) \/ CreateKey(r) \/ RevokeKey(r)
        \/ Select(r) \/ Executes(r) \/ Refused(r) \/ Fails(r) \/ Dropped(r) \/ LateStatement(r)

AccountsSpec == AccountsInit /\ [][AccountsNext]_accountsVars

-----------------------------------------------------------------------------
(* Properties.                                                             *)

Changes(u) == {r \in Request : request[r].what = "change" /\ request[r].user = u}

\* A change of a password that is answered 200 is in force and stays so, unless
\* another change of that user was still under way when it came, as far as the
\* database goes, or came later, and was not refused (change_password, whose
\* UPDATE is not bound to the hash that it verified).
SucceededChangeHolds ==
    \A u \in User : \A r \in Changes(u) :
        /\ request[r].answer = 200
        /\ \A q \in Changes(u) \ {r} : q \in settled[r] \/ request[q].answer \in {401, 404}
        => admin_users[u] = request[r].new

\* A token that was handed out has its row, and one request at most is told that
\* it revoked a key, however often its name is asked for (admin_login,
\* revoke_api_key, create_api_key).
AnswersAreKept ==
    /\ \A r \in Request : request[r].what = "login" /\ request[r].answer = 200 => r \in sessions
    /\ \A r, s \in Request :
          /\ request[r].what = "revoke" /\ request[s].what = "revoke"
          /\ request[r].key = request[s].key /\ request[r].answer = 200 /\ request[s].answer = 200
          => r = s
=============================================================================
