---------------------------- MODULE RecordsProofs ----------------------------
(***************************************************************************)
(* What is proved of the records that the server keeps beside its cache:   *)
(* the ring of the audit log, the accounts and key records, the           *)
(* subscriptions and the telemetry, for any numbers of what they serve.    *)
(***************************************************************************)
EXTENDS AuditLog, Accounts, PubSub, Telemetry, DataTheorems, SequenceTheorems

-----------------------------------------------------------------------------
(* Accounts.                                                               *)

Hash == Password \cup {Nobody}
Status == {0, 200, 201, 401, 404, 408, 409, 500}
Asking == [what: {"none", "change", "login", "create", "key", "revoke"},
           user: User \cup {Nobody}, key: KeyName \cup {Nobody}, old: Hash, new: Hash,
           at: Statement \cup {"idle", "done"}, answer: Status]

AccountTypes ==
    /\ admin_users \in [User -> Hash]
    /\ sessions \subseteq Request /\ last_login \subseteq User
    /\ keys \in [KeyName -> {"none", "active", "revoked"}]
    /\ request \in [Request -> Asking]
    /\ settled \in [Request -> SUBSET Request]
    /\ failures \in 0..MaxFailures

\* A request is at a statement of what it asks, about rows that there are, and
\* has its answer in the end, or 408 before.
Proper(q) ==
    /\ q.at = "idle" => q.what = "none" /\ q.answer = 0
    /\ q.what = "none" => q.at = "idle"
    /\ q.what = "change" => /\ q.at \in {"select", "update", "done"}
                            /\ q.user \in User /\ q.new \in Password
    /\ q.what = "login" => q.at \in {"select", "session", "stamp", "done"} /\ q.user \in User
    /\ q.what = "create" => q.at \in {"user", "done"} /\ q.user \in User
    /\ q.what = "key" => q.at \in {"key", "done"} /\ q.key \in KeyName
    /\ q.what = "revoke" => q.at \in {"revoke", "done"} /\ q.key \in KeyName
    /\ q.at \in Statement => q.answer \in {0, 408}
    /\ q.at = "done" => q.answer # 0

\* A change of a password that has not written it, and never will if it is over.
Harmless(q) == q.at \in {"select", "update"} \/ q.answer \in {401, 404}

\* What was settled when a request came is over.
SettledIsOver == \A r \in Request : \A q \in settled[r] : request[q].at = "done"

\* SucceededChangeHolds also while the other changes have only not written yet.
InForce ==
    \A u \in User : \A r \in Changes(u) :
        /\ request[r].answer = 200
        /\ \A q \in Changes(u) \ {r} : q \in settled[r] \/ Harmless(request[q])
        => admin_users[u] = request[r].new

\* A session has its row before the login is stamped.
HasSession(r) ==
    request[r].what = "login" /\ (request[r].at = "stamp" \/ request[r].answer = 200) => r \in sessions

\* A revoked key stays revoked.
Revoked(r) ==
    request[r].what = "revoke" /\ request[r].answer = 200 => keys[request[r].key] = "revoked"

OneRevokes ==
    \A r, s \in Request :
        /\ request[r].what = "revoke" /\ request[s].what = "revoke"
        /\ request[r].key = request[s].key /\ request[r].answer = 200 /\ request[s].answer = 200
        => r = s

AccountsInv ==
    /\ AccountTypes
    /\ \A r \in Request : Proper(request[r])
    /\ SettledIsOver
    /\ InForce
    /\ \A r \in Request : HasSession(r) /\ Revoked(r)
    /\ OneRevokes

\* What a step is, whichever statement it is at: one request comes, ...
Comes(r) ==
    /\ request[r].what = "none" /\ request'[r].what # "none"
    /\ request'[r].at \in {"select", "user", "key", "revoke"} /\ request'[r].answer = 0
    /\ settled' = [settled EXCEPT ![r] = {q \in Request : request[q].at = "done"}]
    /\ UNCHANGED tables

\* ... or goes on: what it asks stays, ...
GoesOn(r) ==
    /\ request[r].at \in Statement
    /\ request'[r].what = request[r].what /\ request'[r].user = request[r].user
    /\ request'[r].key = request[r].key /\ request'[r].new = request[r].new
    /\ UNCHANGED settled

\* ... without a change of the tables, which gives no 200 and leads to no stamp, ...
Looks(r) ==
    /\ GoesOn(r) /\ UNCHANGED tables
    /\ request'[r].answer # 200
    /\ request'[r].at = "stamp" => request[r].at = "stamp"

\* ... or with one, after which it is no longer harmless.
Writes(r) ==
    /\ GoesOn(r) /\ Effect(r)
    /\ request'[r].at = "done" \/ (request[r].at = "session" /\ request'[r].at = "stamp")
    /\ request'[r].answer \notin {401, 404}
    /\ request[r].at = "session" => request'[r].answer # 200

-----------------------------------------------------------------------------
\* A request that comes asks for one of five things.
LEMMA AskingOne ==
    ASSUME AccountTypes, NEW r \in Request,
           ChangePassword(r) \/ Login(r) \/ CreateUser(r) \/ CreateKey(r) \/ RevokeKey(r)
    PROVE  /\ request'[r] \in Asking /\ Proper(request'[r])
           /\ request' = [request EXCEPT ![r] = request'[r]]
           /\ Comes(r) /\ UNCHANGED failures
BY AccountsAssumption
   DEF AccountTypes, Asking, Hash, Status, Statement, Proper, ChangePassword, Login, CreateUser,
       CreateKey, RevokeKey, Ask, Idle, Comes, tables

\* A request goes on to a statement or an answer.
Becomes(r, at, answer) ==
    /\ request'[r] \in Asking
    /\ request' = [request EXCEPT ![r] = request'[r]]
    /\ request'[r].at = at /\ request'[r].answer = answer
    /\ request'[r].what = request[r].what /\ request'[r].user = request[r].user
    /\ request'[r].key = request[r].key /\ request'[r].new = request[r].new

\* The three ways in which the code's steps change a request.
LEMMA GoingOne ==
    ASSUME AccountTypes, NEW r \in Request
    PROVE  /\ \A at \in Statement \cup {"done"} : Goes(r, at) => Becomes(r, at, request[r].answer)
           /\ \A answer \in Status : Answers(r, answer) => Becomes(r, "done", answer)
           /\ request' = [request EXCEPT ![r].answer = 408] => Becomes(r, request[r].at, 408)
BY DEF AccountTypes, Asking, Statement, Status, Goes, Answers, Becomes

\* Every step is of one request, which stays proper, and comes, looks or writes.
LEMMA OneStep ==
    ASSUME AccountTypes, \A r \in Request : Proper(request[r]), AccountsNext
    PROVE  \E r \in Request :
              /\ request'[r] \in Asking /\ Proper(request'[r])
              /\ request' = [request EXCEPT ![r] = request'[r]]
              /\ Comes(r) \/ Looks(r) \/ Writes(r)
              /\ failures' \in 0..MaxFailures
<1>1. PICK r \in Request :
        \/ ChangePassword(r) \/ Login(r) \/ CreateUser(r) \/ CreateKey(r) \/ RevokeKey(r)
        \/ Select(r) \/ Executes(r) \/ Refused(r) \/ Fails(r) \/ Dropped(r) \/ LateStatement(r)
  BY DEF AccountsNext
<1> SUFFICES /\ request'[r] \in Asking /\ Proper(request'[r])
             /\ request' = [request EXCEPT ![r] = request'[r]]
             /\ Comes(r) \/ Looks(r) \/ Writes(r)
             /\ failures' \in 0..MaxFailures
  OBVIOUS
<1>0. request[r] \in Asking /\ Proper(request[r]) /\ failures \in 0..MaxFailures /\ MaxFailures \in Nat
  BY AccountsAssumption DEF AccountTypes
<1>2. CASE ChangePassword(r) \/ Login(r) \/ CreateUser(r) \/ CreateKey(r) \/ RevokeKey(r)
  BY <1>0, <1>2, AskingOne
<1>a. ASSUME NEW at \in Statement \cup {"done"}, NEW answer \in Status, Becomes(r, at, answer),
             request[r].at \in Statement,
             \/ at = "done" /\ answer # 0
             \/ at = request[r].at /\ answer = 408
             \/ at = "update" /\ request[r].what = "change" /\ answer = 0
             \/ at \in {"session", "stamp"} /\ request[r].what = "login" /\ answer = 0
      PROVE  /\ request'[r] \in Asking /\ Proper(request'[r])
             /\ request' = [request EXCEPT ![r] = request'[r]]
  BY <1>0, <1>a DEF Becomes, Proper, Statement, Asking
<1>3. CASE Select(r)
  <2>1. request[r].at = "select" /\ request[r].answer = 0 /\ UNCHANGED <<tables, settled, failures>>
    BY <1>3 DEF Select, Waits
  <2>2. \/ request[r].what = "change" /\ Becomes(r, "update", 0)
        \/ request[r].what = "login" /\ Becomes(r, "session", 0)
        \/ Becomes(r, "done", 404) \/ Becomes(r, "done", 401)
    BY <1>0, <1>3, <2>1, GoingOne DEF Select, Statement, Status, Proper, Asking
  <2>3. Looks(r)
    BY <2>1, <2>2 DEF Becomes, Looks, GoesOn, Statement
  <2>4. QED
    BY <1>0, <1>a, <2>1, <2>2, <2>3 DEF Statement, Status
<1>4. CASE Executes(r)
  <2>1. request[r].at \in Statement /\ request[r].answer = 0 /\ Effect(r) /\ UNCHANGED <<settled, failures>>
    BY <1>4 DEF Executes, Waits
  <2>2. \/ request[r].at = "session" /\ request[r].what = "login" /\ Becomes(r, "stamp", 0)
        \/ request[r].at # "session" /\ (Becomes(r, "done", 200) \/ Becomes(r, "done", 201))
    BY <1>0, <1>4, <2>1, GoingOne DEF Executes, Statement, Status, Proper, Asking
  <2>3. Writes(r)
    BY <2>1, <2>2 DEF Becomes, Writes, GoesOn, Statement
  <2>4. QED
    BY <1>0, <1>a, <2>1, <2>2, <2>3 DEF Statement, Status
<1>5. CASE Refused(r)
  <2>1. request[r].at \in Statement /\ UNCHANGED <<tables, settled, failures>>
    BY <1>5 DEF Refused, Waits
  <2>2. Becomes(r, "done", 409) \/ Becomes(r, "done", 404)
    BY <1>5, GoingOne DEF Refused, Status
  <2>3. Looks(r)
    BY <2>1, <2>2 DEF Becomes, Looks, GoesOn
  <2>4. QED
    BY <1>0, <1>a, <2>1, <2>2, <2>3 DEF Status
<1>6. CASE Fails(r)
  <2>1. /\ request[r].at \in Statement
        /\ Effect(r) \/ UNCHANGED tables
        /\ UNCHANGED settled /\ failures' \in 0..MaxFailures
    BY <1>0, <1>6 DEF Fails, Waits
  <2>2. Becomes(r, "done", 500)
    BY <1>6, GoingOne DEF Fails, Status
  <2>3. Looks(r) \/ Writes(r)
    BY <2>1, <2>2 DEF Becomes, Looks, Writes, GoesOn
  <2>4. QED
    BY <1>0, <1>a, <2>1, <2>2, <2>3 DEF Status
<1>7. CASE Dropped(r)
  <2>1. request[r].at \in Statement /\ UNCHANGED <<tables, settled>> /\ failures' \in 0..MaxFailures
    BY <1>0, <1>7 DEF Dropped, Waits
  <2>2. Becomes(r, request[r].at, 408)
    BY <1>7, GoingOne DEF Dropped
  <2>3. Looks(r)
    BY <2>1, <2>2 DEF Becomes, Looks, GoesOn
  <2>4. QED
    BY <1>0, <1>a, <2>1, <2>2, <2>3 DEF Status
<1>8. CASE LateStatement(r)
  <2>1. /\ request[r].at \in Statement /\ request[r].answer = 408
        /\ Effect(r) \/ UNCHANGED tables
        /\ UNCHANGED <<settled, failures>>
    BY <1>8 DEF LateStatement
  <2>2. Becomes(r, "done", 408)
    BY <1>8, <2>1, GoingOne DEF LateStatement
  <2>3. Looks(r) \/ Writes(r)
    BY <2>1, <2>2 DEF Becomes, Looks, Writes, GoesOn
  <2>4. QED
    BY <1>0, <1>a, <2>1, <2>2, <2>3 DEF Status
<1>9. QED
  BY <1>1, <1>2, <1>3, <1>4, <1>5, <1>6, <1>7, <1>8

\* The tables keep their types, and a statement writes the one it is at.
LEMMA EffectOnTables ==
    ASSUME AccountTypes, NEW r \in Request, Proper(request[r]), Effect(r)
    PROVE  /\ admin_users' \in [User -> Hash]
           /\ sessions' \subseteq Request /\ last_login' \subseteq User
           /\ keys' \in [KeyName -> {"none", "active", "revoked"}]
           /\ sessions \subseteq sessions'
           /\ \A u \in User : admin_users'[u] # admin_users[u] =>
                 \/ request[r].at = "update" /\ request[r].what = "change" /\ request[r].user = u
                 \/ admin_users[u] = Nobody
           /\ request[r].at = "update" => admin_users'[request[r].user] = request[r].new
           /\ request[r].at = "session" => r \in sessions'
           /\ \A k \in KeyName : keys[k] = "revoked" => keys'[k] = "revoked"
           /\ request[r].at = "revoke" =>
                 keys[request[r].key] = "active" /\ keys'[request[r].key] = "revoked"
<1>0. request[r] \in Asking
  BY DEF AccountTypes
<1>1. CASE request[r].at = "update"
  BY <1>0, <1>1 DEF AccountTypes, Proper, Effect, Asking, Hash, NewHash
<1>2. CASE request[r].at = "session"
  BY <1>0, <1>2 DEF AccountTypes, Proper, Effect, Asking
<1>3. CASE request[r].at = "stamp"
  BY <1>0, <1>3 DEF AccountTypes, Proper, Effect, Asking
<1>4. CASE request[r].at = "user"
  BY <1>0, <1>4 DEF AccountTypes, Proper, Effect, Asking, Hash
<1>5. CASE request[r].at = "key"
  BY <1>0, <1>5 DEF AccountTypes, Proper, Effect, Asking
<1>6. CASE request[r].at = "revoke"
  BY <1>0, <1>6 DEF AccountTypes, Proper, Effect, Asking, Revocable
<1>7. QED
  BY <1>1, <1>2, <1>3, <1>4, <1>5, <1>6 DEF Effect

\* The invariant at the start.
LEMMA AccountsStart == ASSUME AccountsInit PROVE AccountsInv
<1>1. \A r \in Request : request[r] = Idle
  BY DEF AccountsInit
<1>2. Idle \in Asking
  BY DEF Idle, Asking, Hash, Status
<1>3. AccountTypes
  BY <1>2, AccountsAssumption DEF AccountsInit, AccountTypes, Hash
<1>4. \A r \in Request : Proper(request[r])
  BY <1>1 DEF Proper, Idle, Statement
<1>5. SettledIsOver
  BY DEF AccountsInit, SettledIsOver
<1>6. InForce /\ OneRevokes /\ \A r \in Request : HasSession(r) /\ Revoked(r)
  BY <1>1 DEF InForce, Changes, OneRevokes, HasSession, Revoked, Idle
<1>7. QED
  BY <1>3, <1>4, <1>5, <1>6 DEF AccountsInv

\* Every step keeps it.
LEMMA AccountsStep == ASSUME AccountsInv, [AccountsNext]_accountsVars PROVE AccountsInv'
<1>1. CASE UNCHANGED accountsVars
  <2>1. /\ admin_users' = admin_users /\ sessions' = sessions /\ last_login' = last_login
        /\ keys' = keys /\ request' = request /\ settled' = settled /\ failures' = failures
    BY <1>1 DEF accountsVars, tables
  <2>2. AccountTypes' /\ SettledIsOver' /\ OneRevokes'
        /\ \A r \in Request : Proper(request'[r]) /\ HasSession(r)' /\ Revoked(r)'
    BY <2>1 DEF AccountsInv, AccountTypes, SettledIsOver, OneRevokes, HasSession, Revoked
  <2>3. InForce'
    BY <2>1 DEF AccountsInv, InForce, Changes
  <2>4. QED
    BY <2>2, <2>3 DEF AccountsInv
<1>2. CASE AccountsNext
  <2>0. /\ AccountTypes /\ SettledIsOver /\ InForce /\ OneRevokes
        /\ \A s \in Request : Proper(request[s]) /\ HasSession(s) /\ Revoked(s)
    BY DEF AccountsInv
  <2>1. PICK r \in Request :
          /\ request'[r] \in Asking /\ Proper(request'[r])
          /\ request' = [request EXCEPT ![r] = request'[r]]
          /\ Comes(r) \/ Looks(r) \/ Writes(r)
          /\ failures' \in 0..MaxFailures
    BY <1>2, <2>0, OneStep
  <2>2. request \in [Request -> Asking] /\ settled \in [Request -> SUBSET Request]
    BY <2>0 DEF AccountTypes
  <2>3. \A s \in Request : s # r => request'[s] = request[s]
    BY <2>1, <2>2
  <2>4. \/ /\ request[r].what = "none" /\ request'[r].what # "none"
           /\ request'[r].at \in {"select", "user", "key", "revoke"} /\ request'[r].answer = 0
        \/ /\ request[r].at \in Statement /\ request[r].answer \in {0, 408}
           /\ request'[r].what = request[r].what /\ request'[r].user = request[r].user
           /\ request'[r].key = request[r].key /\ request'[r].new = request[r].new
    BY <2>0, <2>1 DEF Comes, Looks, Writes, GoesOn, Proper
  <2>5. UNCHANGED tables \/ (Effect(r) /\ Writes(r))
    BY <2>1 DEF Comes, Looks, Writes
  <2>6. \A s \in Request : request[s].at = "done" => request'[s] = request[s] /\ s # r
    BY <2>0, <2>3, <2>4 DEF Statement, Proper
  <2>7. \A s \in Request : \/ settled'[s] = settled[s]
                           \/ s = r /\ Comes(r)
                              /\ settled'[s] = {q \in Request : request[q].at = "done"}
    BY <2>1, <2>2 DEF Comes, Looks, Writes, GoesOn
  <2>8. AccountTypes'
    <3>1. request' \in [Request -> Asking]
      BY <2>1, <2>2
    <3>2. settled' \in [Request -> SUBSET Request]
      BY <2>1, <2>2 DEF Comes, Looks, Writes, GoesOn
    <3>3. CASE UNCHANGED tables
      BY <2>0, <2>1, <3>1, <3>2, <3>3 DEF AccountTypes, tables
    <3>4. CASE Effect(r)
      BY <2>0, <2>1, <3>1, <3>2, <3>4, EffectOnTables DEF AccountTypes
    <3>5. QED
      BY <2>5, <3>3, <3>4
  <2>9. \A s \in Request : Proper(request'[s])
    BY <2>0, <2>1, <2>3
  <2>10. SettledIsOver'
    BY <2>0, <2>2, <2>6, <2>7 DEF SettledIsOver
  <2>11. /\ sessions \subseteq sessions'
         /\ \A k \in KeyName : keys[k] = "revoked" => keys'[k] = "revoked"
    <3>1. CASE UNCHANGED tables
      BY <3>1 DEF tables
    <3>2. CASE Effect(r)
      BY <2>0, <3>2, EffectOnTables
    <3>3. QED
      BY <2>5, <3>1, <3>2
  <2>12. \A s \in Request : HasSession(s)'
    <3>1. \A s \in Request \ {r} : HasSession(s)'
      BY <2>0, <2>3, <2>11 DEF HasSession
    <3>2. ASSUME request'[r].what = "login", request'[r].at = "stamp" \/ request'[r].answer = 200
          PROVE  r \in sessions'
      <4>1. request[r].what = "login" /\ (Looks(r) \/ Writes(r))
        BY <2>1, <2>4, <3>2 DEF Comes
      <4>2. CASE request[r].at = "session"
        BY <2>0, <3>2, <4>1, <4>2, EffectOnTables DEF Looks, Writes
      <4>3. CASE request[r].at = "stamp"
        BY <2>0, <2>11, <4>3, <4>1 DEF HasSession
      <4>4. CASE request[r].at = "select"
        BY <2>0, <3>2, <4>1, <4>4 DEF Looks, Writes, Effect
      <4>5. QED
        BY <2>0, <2>4, <4>1, <4>2, <4>3, <4>4 DEF Proper, Statement
    <3>3. QED
      BY <3>1, <3>2 DEF HasSession
  <2>13. ASSUME request'[r].what = "revoke", request'[r].answer = 200
         PROVE  /\ keys[request'[r].key] = "active" /\ keys'[request'[r].key] = "revoked"
                /\ request'[r].key \in KeyName
    <3>1. request[r].what = "revoke" /\ Writes(r)
      BY <2>1, <2>4, <2>13 DEF Comes, Looks
    <3>2. request[r].at = "revoke"
      BY <2>0, <2>4, <3>1 DEF Proper, Statement
    <3>3. QED
      BY <2>0, <2>4, <3>1, <3>2, EffectOnTables DEF Writes, Proper
  <2>14. \A s \in Request : Revoked(s)'
    <3>1. \A s \in Request \ {r} : request[s].what = "revoke" => request[s].key \in KeyName
      BY <2>0 DEF Proper
    <3>2. \A s \in Request \ {r} : Revoked(s)'
      BY <2>0, <2>3, <2>11, <3>1 DEF Revoked
    <3>3. QED
      BY <2>13, <3>2 DEF Revoked
  <2>15. OneRevokes'
    BY <2>0, <2>3, <2>13 DEF OneRevokes, Revoked
  <2>16. ASSUME NEW u \in User, NEW s \in Request,
                request'[s].what = "change", request'[s].user = u, request'[s].answer = 200,
                \A q \in Request \ {s} : request'[q].what = "change" /\ request'[q].user = u =>
                    q \in settled'[s] \/ Harmless(request'[q])
         PROVE  admin_users'[u] = request'[s].new
    <3>1. CASE s = r
      <4>1. request[r].what = "change" /\ request[r].user = u /\ Writes(r)
        BY <2>1, <2>4, <2>16, <3>1 DEF Comes, Looks
      <4>2. request[r].at = "update"
        BY <2>0, <2>4, <4>1 DEF Writes, Effect, Proper, Statement
      <4>3. QED
        BY <2>0, <2>4, <3>1, <4>1, <4>2, EffectOnTables DEF Writes
    <3>2. CASE s # r
      <4>1. request'[s] = request[s] /\ settled'[s] = settled[s]
        BY <2>3, <2>7, <3>2
      <4>2. ASSUME request[r].what = "change"
            PROVE  request'[r].what = "change" /\ request'[r].user = request[r].user
                   /\ request[r].at \in {"select", "update"}
        BY <2>0, <2>4, <4>2 DEF Proper, Statement
      <4>3. \A q \in Request \ {s} : request[q].what = "change" /\ request[q].user = u =>
                q \in settled[s] \/ Harmless(request[q])
        BY <2>3, <2>16, <4>1, <4>2 DEF Harmless
      <4>4. admin_users[u] = request[s].new /\ request[s].new # Nobody
        BY <2>0, <2>16, <4>1, <4>3, AccountsAssumption DEF InForce, Changes, Proper
      <4>5. CASE UNCHANGED tables
        BY <4>1, <4>4, <4>5 DEF tables
      <4>6. CASE Effect(r) /\ Writes(r)
        <5>1. ASSUME admin_users'[u] # admin_users[u] PROVE FALSE
          <6>1. request[r].at = "update" /\ request[r].what = "change" /\ request[r].user = u
            BY <2>0, <4>4, <4>6, <5>1, EffectOnTables
          <6>2. r \notin settled[s]
            BY <2>0, <6>1 DEF SettledIsOver
          <6>3. ~Harmless(request'[r])
            BY <4>6, <6>1 DEF Writes, Harmless
          <6>4. QED
            BY <2>16, <3>2, <4>1, <4>2, <6>1, <6>2, <6>3
        <5>2. QED
          BY <4>1, <4>4, <5>1
      <4>7. QED
        BY <2>5, <4>5, <4>6
    <3>3. QED
      BY <3>1, <3>2
  <2>17. InForce'
    BY <2>16 DEF InForce, Changes
  <2>18. QED
    BY <2>8, <2>9, <2>10, <2>12, <2>14, <2>15, <2>17 DEF AccountsInv
<1>3. QED
  BY <1>1, <1>2

\* The invariant of the accounts, for every number of users, keys and requests, and
\* every order of their statements, drops and failures.
THEOREM AccountsInvariant == AccountsSpec => []AccountsInv
BY AccountsStart, AccountsStep, PTL DEF AccountsSpec

\* The types of the accounts.
THEOREM AccountsTypeCorrect == AccountsSpec => []AccountsTypeOK
<1>1. ASSUME AccountsInv PROVE AccountsTypeOK
  BY <1>1 DEF AccountsInv, AccountTypes, Proper, Hash, Status, Asking, AccountsTypeOK
<1>2. QED
  BY AccountsInvariant, <1>1, PTL

\* A change of a password that is answered 200 is in force, unless another change of
\* that user was under way when it came or came later, and was not refused
\* (change_password).
THEOREM ChangeHolds == AccountsSpec => []SucceededChangeHolds
<1>1. ASSUME AccountsInv PROVE SucceededChangeHolds
  BY <1>1 DEF AccountsInv, InForce, Harmless, SucceededChangeHolds
<1>2. QED
  BY AccountsInvariant, <1>1, PTL

\* A login that is answered 200 has its session, and of all who ask to revoke a key
\* one at most is told that it did (admin_login, revoke_api_key).
THEOREM AnswersKept == AccountsSpec => []AnswersAreKept
<1>1. ASSUME AccountsInv PROVE AnswersAreKept
  BY <1>1 DEF AccountsInv, HasSession, OneRevokes, AnswersAreKept
<1>2. QED
  BY AccountsInvariant, <1>1, PTL

-----------------------------------------------------------------------------
(* Subscriptions.                                                          *)

Owner == Listener \cup Connection
Publishing == [at: {"idle", "domain", "global"}, update: Nat, domain: Topic \cup {Global},
               todo: Seq(Owner)]
Receiving == [channel: Topic \cup {Global, "none"}, queue: Seq(Nat), got: Seq(Nat),
              lagged: SUBSET Nat, owed: SUBSET Nat]
Connected == [open: BOOLEAN, subscriptions: SUBSET Topic]

PubSubTypes ==
    /\ subscribers \in [Topic -> Seq(Owner)]
    /\ updates \in 0..MaxUpdates
    /\ publisher \in [Publisher -> Publishing]
    /\ listener \in [Listener -> Receiving]
    /\ connection \in [Connection -> Connected]

\* What came to a receiver.
Has(r) == Range(r.got) \cup Range(r.queue) \cup r.lagged

\* A receiver has each update once.
Sound(r) ==
    /\ Len(r.queue) <= Capacity
    /\ IsInjective(r.queue) /\ Range(r.queue) \cap r.lagged = {}
    /\ IsFiniteSet(r.lagged) /\ IsFiniteSet(Has(r))
    /\ Cardinality(Has(r)) = Len(r.got) + Len(r.queue) + Cardinality(r.lagged)

\* A listener is at most once among the owners.
Once(s) == \A i, j \in DOMAIN s : s[i] = s[j] /\ s[i] \in Listener => i = j

\* The senders of a domain are those of its listeners, and of connections.
Served(d) ==
    /\ \A l \in Listener : l \in Range(subscribers[d]) <=> listener[l].channel = d
    /\ Once(subscribers[d])
    /\ Cardinality({k \in Listener : listener[k].channel = d}) <= Len(subscribers[d])

\* A publisher that is not idle has a number and, in the loop, owners of its domain.
Publishes(p) ==
    /\ publisher[p].at # "idle" => publisher[p].update \in 1..updates
    /\ publisher[p].at = "domain" =>
          /\ publisher[p].domain \in Topic /\ Once(publisher[p].todo)
          /\ \A l \in Listener : l \in Range(publisher[p].todo) =>
                listener[l].channel = publisher[p].domain

\* No two publishers have one update.
OwnUpdates ==
    \A p, q \in Publisher :
        /\ p # q /\ publisher[p].at # "idle" /\ publisher[q].at # "idle"
        => publisher[p].update # publisher[q].update

\* A publisher will send its update to a listener.
Pending(p, l) ==
    \/ publisher[p].at \in {"domain", "global"} /\ listener[l].channel = Global
    \/ publisher[p].at = "domain" /\ l \in Range(publisher[p].todo)

\* What a listener has, and has not yet: what it is owed and has not is pending, and
\* what is pending it has not.
Due(l) ==
    /\ Sound(listener[l]) /\ Has(listener[l]) \subseteq 1..updates
    /\ \A m \in listener[l].owed : m \in Has(listener[l]) \/
            \E p \in Publisher : publisher[p].update = m /\ Pending(p, l)
    /\ \A p \in Publisher : Pending(p, l) => publisher[p].update \notin Has(listener[l])

PubSubInv ==
    /\ PubSubTypes
    /\ \A d \in Topic : Served(d)
    /\ \A p \in Publisher : Publishes(p)
    /\ OwnUpdates
    /\ \A l \in Listener : Due(l)

\* What Append does to the elements of a sequence.
LEMMA Appending ==
    ASSUME NEW S, NEW s \in Seq(S), NEW x \in S
    PROVE  /\ Append(s, x) \in Seq(S) /\ Len(Append(s, x)) = Len(s) + 1
           /\ Range(Append(s, x)) = Range(s) \cup {x}
           /\ IsInjective(s) /\ x \notin Range(s) => IsInjective(Append(s, x))
           /\ Once(s) /\ x \notin Range(s) \cap Listener => Once(Append(s, x))
<1>1. /\ Append(s, x) \in Seq(S) /\ Len(Append(s, x)) = Len(s) + 1
      /\ \A i \in 1..Len(s) : Append(s, x)[i] = s[i]
      /\ Append(s, x)[Len(s) + 1] = x
      /\ Len(s) \in Nat /\ DOMAIN s = 1..Len(s) /\ DOMAIN Append(s, x) = 1..(Len(s) + 1)
  OBVIOUS
<1>2. Range(Append(s, x)) = Range(s) \cup {x}
  BY <1>1 DEF Range
<1>3. IsInjective(s) /\ x \notin Range(s) => IsInjective(Append(s, x))
  BY <1>1 DEF Range, IsInjective
<1>4. Once(s) /\ x \notin Range(s) \cap Listener => Once(Append(s, x))
  BY <1>1 DEF Range, Once
<1>5. QED
  BY <1>1, <1>2, <1>3, <1>4

\* What Head and Tail do.
LEMMA Taking ==
    ASSUME NEW S, NEW s \in Seq(S), s # <<>>
    PROVE  /\ Head(s) \in S /\ Tail(s) \in Seq(S) /\ Len(Tail(s)) = Len(s) - 1 /\ Len(s) > 0
           /\ Range(s) = Range(Tail(s)) \cup {Head(s)}
           /\ IsInjective(s) => IsInjective(Tail(s)) /\ Head(s) \notin Range(Tail(s))
           /\ Once(s) => Once(Tail(s)) /\ Head(s) \notin Range(Tail(s)) \cap Listener
<1>1. /\ Head(s) \in S /\ Tail(s) \in Seq(S) /\ Len(Tail(s)) = Len(s) - 1
      /\ \A i \in 1..(Len(s) - 1) : Tail(s)[i] = s[i + 1]
      /\ Head(s) = s[1]
      /\ Len(s) \in Nat /\ Len(s) > 0 /\ DOMAIN s = 1..Len(s) /\ DOMAIN Tail(s) = 1..(Len(s) - 1)
  OBVIOUS
<1>2. Range(s) = Range(Tail(s)) \cup {Head(s)}
  <2>1. ASSUME NEW i \in 1..Len(s) PROVE s[i] \in Range(Tail(s)) \cup {Head(s)}
    <3>1. CASE i = 1
      BY <1>1, <3>1
    <3>2. CASE i > 1
      <4>1. i - 1 \in 1..(Len(s) - 1) /\ s[i] = Tail(s)[i - 1]
        BY <1>1, <3>2
      <4>2. QED
        BY <1>1, <4>1 DEF Range
    <3>3. QED
      BY <1>1, <3>1, <3>2
  <2>2. Range(Tail(s)) \cup {Head(s)} \subseteq Range(s)
    BY <1>1 DEF Range
  <2>3. QED
    BY <1>1, <2>1, <2>2 DEF Range
<1>3. IsInjective(s) => IsInjective(Tail(s)) /\ Head(s) \notin Range(Tail(s))
  BY <1>1 DEF Range, IsInjective
<1>4. Once(s) => Once(Tail(s)) /\ Head(s) \notin Range(Tail(s)) \cap Listener
  BY <1>1 DEF Range, Once
<1>5. QED
  BY <1>1, <1>2, <1>3, <1>4

\* A send gives a receiver one update more, and one it had not is one more to count.
LEMMA Sending ==
    ASSUME NEW r \in Receiving, NEW m \in Nat, Sound(r), m \notin Has(r), NEW x, x = Sent(r, m)
    PROVE  /\ x \in Receiving /\ Sound(x)
           /\ Has(x) = Has(r) \cup {m}
           /\ x.channel = r.channel /\ x.owed = r.owed
<1>0. /\ r.queue \in Seq(Nat) /\ r.got \in Seq(Nat) /\ r.lagged \subseteq Nat
      /\ Capacity \in Nat \ {0} /\ Len(r.queue) \in Nat /\ Len(r.got) \in Nat
      /\ m \notin Range(r.queue) /\ m \notin r.lagged
      /\ IsInjective(r.queue) /\ Range(r.queue) \cap r.lagged = {}
      /\ IsFiniteSet(r.lagged) /\ IsFiniteSet(Has(r)) /\ Len(r.queue) <= Capacity
      /\ Cardinality(Has(r)) = Len(r.got) + Len(r.queue) + Cardinality(r.lagged)
  BY PubSubAssumption DEF Receiving, Sound, Has
<1>1. /\ IsFiniteSet(Has(r) \cup {m}) /\ Cardinality(Has(r) \cup {m}) = Cardinality(Has(r)) + 1
  BY <1>0, FS_AddElement
<1>n. /\ Cardinality(r.lagged) \in Nat /\ Cardinality(Has(r)) \in Nat
      /\ Len(r.queue) \in Nat /\ Len(r.got) \in Nat
      /\ Cardinality(Has(r)) = Len(r.got) + Len(r.queue) + Cardinality(r.lagged)
  BY <1>0, FS_CardinalityType
<1>2. CASE Len(r.queue) < Capacity
  <2>1. /\ x \in Receiving /\ x.queue = Append(r.queue, m) /\ x.got = r.got
        /\ x.lagged = r.lagged /\ x.channel = r.channel /\ x.owed = r.owed
    <3>1. Append(r.queue, m) \in Seq(Nat)
      BY <1>0
    <3>2. x = [r EXCEPT !.queue = Append(r.queue, m)]
      BY <1>2 DEF Sent, Receiving
    <3>3. QED
      BY <3>1, <3>2 DEF Receiving
  <2>2. /\ Len(x.queue) = Len(r.queue) + 1 /\ Range(x.queue) = Range(r.queue) \cup {m}
        /\ IsInjective(x.queue)
    BY <1>0, <2>1, Appending
  <2>3. Has(x) = Has(r) \cup {m}
    BY <2>1, <2>2 DEF Has
  <2>4. Range(x.queue) \cap x.lagged = {} /\ Len(x.queue) <= Capacity
    BY <1>0, <1>2, <2>1, <2>2
  <2>5. /\ IsFiniteSet(Has(x))
        /\ Cardinality(Has(x)) = Len(x.got) + Len(x.queue) + Cardinality(x.lagged)
    <3>1. /\ IsFiniteSet(Has(x)) /\ Cardinality(Has(x)) = Cardinality(Has(r)) + 1
          /\ Cardinality(x.lagged) = Cardinality(r.lagged)
      BY <1>1, <2>1, <2>3
    <3>2. Len(x.got) = Len(r.got) /\ Len(x.queue) = Len(r.queue) + 1
      BY <2>1, <2>2
    <3>3. PICK b, c, d \in Nat : b = Len(r.got) /\ c = Len(r.queue) /\ d = Cardinality(r.lagged)
      BY <1>n
    <3>4. Cardinality(Has(x)) = b + c + d + 1
      BY <1>n, <3>1, <3>3
    <3>5. Len(x.got) = b /\ Len(x.queue) = c + 1 /\ Cardinality(x.lagged) = d
      BY <3>1, <3>2, <3>3
    <3>6. b \in Nat /\ c \in Nat /\ d \in Nat /\ IsFiniteSet(Has(x))
      BY <3>1
    <3>7. QED
      BY ONLY <3>4, <3>5, <3>6
  <2>6. Sound(x)
    BY <1>0, <2>1, <2>2, <2>4, <2>5 DEF Sound
  <2>7. QED
    BY <2>1, <2>3, <2>6
<1>3. CASE ~(Len(r.queue) < Capacity)
  <2>0. r.queue # <<>> /\ Len(r.queue) = Capacity
    BY <1>0, <1>3
  <2>1. /\ Head(r.queue) \in Nat /\ Tail(r.queue) \in Seq(Nat)
        /\ Len(Tail(r.queue)) = Len(r.queue) - 1
        /\ Range(r.queue) = Range(Tail(r.queue)) \cup {Head(r.queue)}
        /\ IsInjective(Tail(r.queue)) /\ Head(r.queue) \notin Range(Tail(r.queue))
    BY <1>0, <2>0, Taking
  <2>2. /\ x \in Receiving /\ x.queue = Append(Tail(r.queue), m) /\ x.got = r.got
        /\ x.lagged = r.lagged \cup {Head(r.queue)} /\ x.channel = r.channel /\ x.owed = r.owed
    <3>1. Append(Tail(r.queue), m) \in Seq(Nat) /\ r.lagged \cup {Head(r.queue)} \in SUBSET Nat
      BY <1>0, <2>1
    <3>2. x = [r EXCEPT !.queue = Append(Tail(r.queue), m), !.lagged = r.lagged \cup {Head(r.queue)}]
      BY <1>3 DEF Sent, Receiving
    <3>3. QED
      BY <3>1, <3>2 DEF Receiving
  <2>3. /\ Len(x.queue) = Len(r.queue) /\ Range(x.queue) = Range(Tail(r.queue)) \cup {m}
        /\ IsInjective(x.queue)
    <3>1. m \notin Range(Tail(r.queue))
      BY <1>0, <2>1
    <3>2. PICK t \in Seq(Nat) : t = Tail(r.queue)
      BY <2>1
    <3>3. m \notin Range(t) /\ IsInjective(t)
      BY <2>1, <3>1, <3>2
    <3>4. /\ Len(Append(t, m)) = Len(t) + 1 /\ Range(Append(t, m)) = Range(t) \cup {m}
          /\ IsInjective(Append(t, m))
      BY <3>3, Appending
    <3>5. QED
      BY <1>0, <2>1, <2>2, <3>2, <3>4
  <2>4. Has(x) = Has(r) \cup {m}
    BY <2>1, <2>2, <2>3 DEF Has
  <2>5. Head(r.queue) \notin r.lagged
    BY <1>0, <2>1
  <2>6. IsFiniteSet(x.lagged) /\ Cardinality(x.lagged) = Cardinality(r.lagged) + 1
    <3>1. /\ IsFiniteSet(r.lagged \cup {Head(r.queue)})
          /\ Cardinality(r.lagged \cup {Head(r.queue)}) = Cardinality(r.lagged) + 1
      BY <1>0, <2>5, FS_AddElement
    <3>2. QED
      BY <2>2, <3>1
  <2>7. Range(x.queue) \cap x.lagged = {}
    BY <1>0, <2>1, <2>2, <2>3
  <2>8. /\ IsFiniteSet(Has(x))
        /\ Cardinality(Has(x)) = Len(x.got) + Len(x.queue) + Cardinality(x.lagged)
    <3>1. IsFiniteSet(Has(x)) /\ Cardinality(Has(x)) = Cardinality(Has(r)) + 1
      BY <1>1, <2>4
    <3>2. /\ Len(x.got) = Len(r.got) /\ Len(x.queue) = Len(r.queue)
          /\ Cardinality(x.lagged) = Cardinality(r.lagged) + 1
      BY <2>2, <2>3, <2>6
    <3>3. PICK b, c, d \in Nat : b = Len(r.got) /\ c = Len(r.queue) /\ d = Cardinality(r.lagged)
      BY <1>n
    <3>4. Cardinality(Has(x)) = b + c + d + 1
      BY <1>n, <3>1, <3>3
    <3>5. Len(x.got) = b /\ Len(x.queue) = c /\ Cardinality(x.lagged) = d + 1
      BY <3>2, <3>3
    <3>6. b \in Nat /\ c \in Nat /\ d \in Nat /\ IsFiniteSet(Has(x))
      BY <3>1
    <3>7. QED
      BY ONLY <3>4, <3>5, <3>6
  <2>9. Sound(x)
    BY <1>0, <2>0, <2>3, <2>6, <2>7, <2>8 DEF Sound
  <2>10. QED
    BY <2>2, <2>4, <2>9
<1>4. QED
  BY <1>2, <1>3

\* Receiving moves an update from the queue to what was got.
LEMMA Getting ==
    ASSUME NEW r \in Receiving, Sound(r), r.queue # <<>>, NEW x,
           x = [r EXCEPT !.queue = Tail(@), !.got = Append(@, Head(r.queue))]
    PROVE  /\ x \in Receiving /\ Sound(x) /\ Has(x) = Has(r)
           /\ x.channel = r.channel /\ x.owed = r.owed
<1>0. /\ r.queue \in Seq(Nat) /\ r.got \in Seq(Nat) /\ Len(r.queue) \in Nat /\ Len(r.got) \in Nat
      /\ Capacity \in Nat
  BY PubSubAssumption DEF Receiving
<1>1. /\ Head(r.queue) \in Nat /\ Tail(r.queue) \in Seq(Nat)
      /\ Len(Tail(r.queue)) = Len(r.queue) - 1
      /\ Range(r.queue) = Range(Tail(r.queue)) \cup {Head(r.queue)}
      /\ IsInjective(r.queue) => IsInjective(Tail(r.queue))
  BY <1>0, Taking
<1>2. /\ Append(r.got, Head(r.queue)) \in Seq(Nat)
      /\ Len(Append(r.got, Head(r.queue))) = Len(r.got) + 1
      /\ Range(Append(r.got, Head(r.queue))) = Range(r.got) \cup {Head(r.queue)}
  BY <1>0, <1>1, Appending
<1>3. /\ x \in Receiving /\ x.queue = Tail(r.queue) /\ x.got = Append(r.got, Head(r.queue))
      /\ x.lagged = r.lagged /\ x.channel = r.channel /\ x.owed = r.owed
  BY <1>1, <1>2 DEF Receiving
<1>4. Has(x) = Has(r)
  BY <1>1, <1>2, <1>3 DEF Has
<1>5. /\ Cardinality(r.lagged) \in Nat /\ Cardinality(Has(r)) \in Nat
      /\ Len(r.queue) \in Nat /\ Len(r.got) \in Nat
      /\ Cardinality(Has(r)) = Len(r.got) + Len(r.queue) + Cardinality(r.lagged)
  BY <1>0, FS_CardinalityType DEF Sound
<1>6. Sound(x)
  <2>0. /\ Len(r.queue) <= Capacity /\ IsInjective(r.queue) /\ Range(r.queue) \cap r.lagged = {}
        /\ IsFiniteSet(r.lagged) /\ IsFiniteSet(Has(r))
        /\ Cardinality(Has(r)) = Len(r.got) + Len(r.queue) + Cardinality(r.lagged)
    BY DEF Sound
  <2>1. Len(x.queue) <= Capacity /\ IsInjective(x.queue) /\ Range(x.queue) \cap x.lagged = {}
    BY <1>0, <1>1, <1>3, <2>0
  <2>2. Cardinality(Has(x)) = Len(x.got) + Len(x.queue) + Cardinality(x.lagged)
    <3>1. Cardinality(Has(x)) = Cardinality(Has(r)) /\ Cardinality(x.lagged) = Cardinality(r.lagged)
      BY <1>3, <1>4
    <3>2. Len(x.got) = Len(r.got) + 1 /\ Len(x.queue) = Len(r.queue) - 1
      BY <1>1, <1>2, <1>3
    <3>3. PICK b, c, d \in Nat : b = Len(r.got) /\ c = Len(r.queue) /\ d = Cardinality(r.lagged)
      BY <1>5
    <3>4. Cardinality(Has(x)) = b + c + d
      BY <1>5, <3>1, <3>3
    <3>5. Len(x.got) = b + 1 /\ Len(x.queue) = c - 1 /\ Cardinality(x.lagged) = d
      BY <3>1, <3>2, <3>3
    <3>6. b \in Nat /\ c \in Nat /\ d \in Nat
      OBVIOUS
    <3>7. QED
      BY ONLY <3>4, <3>5, <3>6
  <2>3. QED
    BY <1>3, <1>4, <2>0, <2>1, <2>2 DEF Sound
<1>7. QED
  BY <1>3, <1>4, <1>6

\* A new receiver has nothing, is owed nothing and is of its channel.
LEMMA NewReceiver ==
    ASSUME NEW channel \in Topic \cup {Global, "none"}
    PROVE  /\ Receiver(channel) \in Receiving /\ Sound(Receiver(channel))
           /\ Has(Receiver(channel)) = {}
           /\ Receiver(channel).channel = channel /\ Receiver(channel).owed = {}
<1>1. /\ Receiver(channel) \in Receiving /\ Receiver(channel).channel = channel
      /\ Receiver(channel).owed = {} /\ Receiver(channel).queue = <<>>
      /\ Receiver(channel).got = <<>> /\ Receiver(channel).lagged = {}
  BY DEF Receiver, Receiving
<1>2. Has(Receiver(channel)) = {}
  BY <1>1 DEF Has, Range
<1>3. IsFiniteSet({}) /\ Cardinality({}) = 0
  BY FS_EmptySet
<1>4. Sound(Receiver(channel))
  BY <1>1, <1>2, <1>3, PubSubAssumption DEF Sound, IsInjective, Range
<1>5. QED
  BY <1>1, <1>2, <1>4

\* What the invariant says of a listener, a publisher and a domain.
LEMMA PubSubFacts ==
    ASSUME PubSubInv
    PROVE  /\ subscribers \in [Topic -> Seq(Owner)] /\ updates \in Nat /\ updates <= MaxUpdates
           /\ publisher \in [Publisher -> Publishing] /\ listener \in [Listener -> Receiving]
           /\ connection \in [Connection -> Connected]
           /\ \A p \in Publisher : publisher[p] \in Publishing
           /\ \A l \in Listener : listener[l] \in Receiving /\ Sound(listener[l])
BY PubSubAssumption DEF PubSubInv, PubSubTypes, Due

\* What is had is in the queue, was got or has lagged, and nothing else counts.
LEMMA SameHas ==
    ASSUME NEW r, NEW x, x.queue = r.queue, x.got = r.got, x.lagged = r.lagged
    PROVE  Has(x) = Has(r) /\ (Sound(r) => Sound(x))
BY DEF Has, Sound

\* The invariant at the start.
LEMMA PubSubStart == ASSUME PubSubInit PROVE PubSubInv
<1>1. \A l \in Listener : /\ listener[l] = Receiver("none") /\ listener[l] \in Receiving
                          /\ Sound(listener[l]) /\ Has(listener[l]) = {}
                          /\ listener[l].channel = "none" /\ listener[l].owed = {}
  BY NewReceiver DEF PubSubInit
<1>2. \A p \in Publisher : publisher[p].at = "idle" /\ publisher[p] \in Publishing
  BY DEF PubSubInit, Quiet, Publishing
<1>3. PubSubTypes
  <2>1. subscribers \in [Topic -> Seq(Owner)]
    <3>1. <<>> \in Seq(Owner)
      OBVIOUS
    <3>2. QED
      BY <3>1 DEF PubSubInit
  <2>2. connection \in [Connection -> Connected]
    BY DEF PubSubInit, Connected
  <2>3. QED
    BY <1>1, <1>2, <2>1, <2>2, PubSubAssumption DEF PubSubInit, PubSubTypes
<1>4. ASSUME NEW d \in Topic PROVE Served(d)
  <2>1. subscribers[d] = <<>> /\ Range(subscribers[d]) = {} /\ Once(subscribers[d])
    BY DEF PubSubInit, Range, Once
  <2>2. {k \in Listener : listener[k].channel = d} = {}
    BY <1>1, PubSubAssumption
  <2>3. Cardinality({k \in Listener : listener[k].channel = d}) <= Len(subscribers[d])
    <3>1. Cardinality({k \in Listener : listener[k].channel = d}) = 0
      BY <2>2, FS_EmptySet
    <3>2. Len(subscribers[d]) = 0
      BY <2>1
    <3>3. QED
      BY <3>1, <3>2
  <2>4. QED
    BY <1>1, <2>1, <2>3, PubSubAssumption DEF Served
<1>5. \A p \in Publisher : Publishes(p)
  BY <1>2 DEF Publishes
<1>6. OwnUpdates
  BY <1>2 DEF OwnUpdates
<1>7. \A l \in Listener : Due(l)
  BY <1>1, <1>2 DEF Due, Pending
<1>8. QED
  BY <1>3, <1>4, <1>5, <1>6, <1>7 DEF PubSubInv

\* Every listener keeps what it has: the channels keep their subscribers.
LEMMA SameChannels ==
    ASSUME PubSubInv, UNCHANGED subscribers,
           \A l \in Listener : listener'[l].channel = listener[l].channel
    PROVE  \A d \in Topic : Served(d)'
<1> SUFFICES ASSUME NEW d \in Topic PROVE Served(d)'
  OBVIOUS
<1>1. Served(d)
  BY DEF PubSubInv
<1>2. {k \in Listener : listener'[k].channel = d} = {k \in Listener : listener[k].channel = d}
  OBVIOUS
<1>3. Cardinality({k \in Listener : listener'[k].channel = d})
        = Cardinality({k \in Listener : listener[k].channel = d})
  BY <1>2
<1>4. QED
  BY <1>1, <1>3 DEF Served

\* publish_update takes a number and the senders of its domain.
LEMMA PublishKeeps ==
    ASSUME PubSubInv, NEW p \in Publisher, Publish(p)
    PROVE  PubSubInv'
<1>0. /\ subscribers \in [Topic -> Seq(Owner)] /\ updates \in Nat /\ MaxUpdates \in Nat
      /\ publisher \in [Publisher -> Publishing] /\ listener \in [Listener -> Receiving]
      /\ connection \in [Connection -> Connected]
      /\ \A l \in Listener : Due(l)
      /\ \A q \in Publisher : Publishes(q)
      /\ OwnUpdates
  BY PubSubFacts, PubSubAssumption DEF PubSubInv
<1>1. /\ publisher[p].at = "idle" /\ updates < MaxUpdates /\ updates' = updates + 1
      /\ subscribers' = subscribers /\ connection' = connection
  BY DEF Publish
<1>2. PICK d \in Topic :
        /\ publisher' = [publisher EXCEPT ![p] =
              [at |-> "domain", update |-> updates + 1, domain |-> d, todo |-> subscribers[d]]]
        /\ listener' = [l \in Listener |->
              IF listener[l].channel \in {d, Global}
              THEN [listener[l] EXCEPT !.owed = @ \cup {updates + 1}] ELSE listener[l]]
  BY DEF Publish
<1>3. /\ publisher' \in [Publisher -> Publishing]
      /\ publisher'[p].at = "domain" /\ publisher'[p].update = updates + 1
      /\ publisher'[p].domain = d /\ publisher'[p].todo = subscribers[d]
      /\ \A q \in Publisher : q # p => publisher'[q] = publisher[q]
  <2>1. [at |-> "domain", update |-> updates + 1, domain |-> d, todo |-> subscribers[d]] \in Publishing
    BY <1>0 DEF Publishing
  <2>2. QED
    BY <1>0, <1>2, <2>1
<1>4. ASSUME NEW l \in Listener
      PROVE  /\ listener'[l] \in Receiving /\ listener'[l].channel = listener[l].channel
             /\ listener'[l].queue = listener[l].queue /\ listener'[l].got = listener[l].got
             /\ listener'[l].lagged = listener[l].lagged
             /\ listener'[l].owed = IF listener[l].channel \in {d, Global}
                                    THEN listener[l].owed \cup {updates + 1} ELSE listener[l].owed
  <2>1. PICK r \in Receiving : r = listener[l]
    BY <1>0
  <2>2. r.owed \cup {updates + 1} \in SUBSET Nat
    BY <1>0, <2>1 DEF Receiving
  <2>3. \A owed \in SUBSET Nat :
           /\ [r EXCEPT !.owed = owed] \in Receiving /\ [r EXCEPT !.owed = owed].channel = r.channel
           /\ [r EXCEPT !.owed = owed].queue = r.queue /\ [r EXCEPT !.owed = owed].got = r.got
           /\ [r EXCEPT !.owed = owed].lagged = r.lagged /\ [r EXCEPT !.owed = owed].owed = owed
    BY DEF Receiving
  <2>4. listener'[l] = IF r.channel \in {d, Global} THEN [r EXCEPT !.owed = r.owed \cup {updates + 1}] ELSE r
    BY <1>2, <2>1
  <2>5. CASE r.channel \in {d, Global}
    BY <2>1, <2>2, <2>3, <2>4, <2>5
  <2>6. CASE r.channel \notin {d, Global}
    BY <2>1, <2>4, <2>6
  <2>7. QED
    BY <2>5, <2>6
<1>5. \A l \in Listener : /\ Has(listener'[l]) = Has(listener[l]) /\ Sound(listener'[l])
                          /\ Has(listener[l]) \subseteq 1..updates
  BY <1>0, <1>4, SameHas DEF Due
<1>6. PubSubTypes'
  <2>1. listener' \in [Listener -> Receiving]
    BY <1>2, <1>4
  <2>2. QED
    BY <1>0, <1>1, <1>3, <2>1 DEF PubSubTypes
<1>7. \A e \in Topic : Served(e)'
  BY <1>1, <1>4, SameChannels
<1>8. Served(d)
  BY DEF PubSubInv
<1>9. \A q \in Publisher : Publishes(q)'
  <2>1. Publishes(p)'
    <3>1. Once(subscribers[d]) /\ \A l \in Listener : l \in Range(subscribers[d]) => listener'[l].channel = d
      BY <1>4, <1>8 DEF Served
    <3>2. updates + 1 \in 1..updates'
      BY <1>0, <1>1
    <3>3. QED
      BY <1>3, <3>1, <3>2 DEF Publishes
  <2>2. ASSUME NEW q \in Publisher, q # p PROVE Publishes(q)'
    <3>1. Publishes(q) /\ publisher'[q] = publisher[q]
      BY <1>0, <1>3, <2>2
    <3>2. 1..updates \subseteq 1..updates'
      BY <1>0, <1>1
    <3>3. QED
      BY <1>4, <3>1, <3>2 DEF Publishes
  <2>3. QED
    BY <2>1, <2>2
<1>10. OwnUpdates'
  BY <1>0, <1>1, <1>3 DEF OwnUpdates, Publishes
<1>11. ASSUME NEW l \in Listener PROVE Due(l)'
  <2>1. \A q \in Publisher : q # p => (Pending(q, l)' <=> Pending(q, l))
    BY <1>3, <1>4 DEF Pending
  <2>2. ~Pending(p, l)
    BY <1>1 DEF Pending
  <2>3. listener[l].channel \in {d, Global} => Pending(p, l)'
    BY <1>3, <1>4, <1>8 DEF Pending, Served
  <2>4. Due(l)
    BY <1>0
  <2>5. Has(listener'[l]) \subseteq 1..updates'
    BY <1>0, <1>1, <1>5
  <2>6. ASSUME NEW m \in listener'[l].owed
        PROVE  m \in Has(listener'[l]) \/
                  \E q \in Publisher : publisher'[q].update = m /\ Pending(q, l)'
    <3>1. CASE m \in listener[l].owed
      BY <1>3, <1>5, <2>1, <2>2, <2>4, <3>1 DEF Due
    <3>2. CASE m \notin listener[l].owed
      BY <1>3, <1>4, <2>3, <2>6, <3>2
    <3>3. QED
      BY <3>1, <3>2
  <2>7. ASSUME NEW q \in Publisher, Pending(q, l)' PROVE publisher'[q].update \notin Has(listener'[l])
    <3>1. CASE q = p
      BY <1>0, <1>3, <1>5, <3>1
    <3>2. CASE q # p
      BY <1>3, <1>5, <2>1, <2>4, <2>7, <3>2 DEF Due
    <3>3. QED
      BY <3>1, <3>2
  <2>8. QED
    BY <1>5, <2>5, <2>6, <2>7 DEF Due
<1>12. QED
  BY <1>6, <1>7, <1>9, <1>10, <1>11 DEF PubSubInv

\* A publisher sends its update to some listeners, to which it is then no longer
\* pending, and goes on; the others it is pending to stay the same.
LEMMA Delivering ==
    ASSUME PubSubInv, NEW p \in Publisher, NEW D \in SUBSET Listener,
           publisher[p].at # "idle", UNCHANGED <<subscribers, updates, connection>>,
           publisher' = [publisher EXCEPT ![p] = publisher'[p]], publisher'[p] \in Publishing,
           listener' = [l \in Listener |->
                IF l \in D THEN Sent(listener[l], publisher[p].update) ELSE listener[l]],
           publisher'[p].at # "idle" => publisher'[p].update = publisher[p].update,
           publisher'[p].at = "domain" =>
              /\ publisher[p].at = "domain" /\ publisher'[p].domain = publisher[p].domain
              /\ Once(publisher'[p].todo) /\ Range(publisher'[p].todo) \subseteq Range(publisher[p].todo),
           \A l \in D : Pending(p, l) /\ ~Pending(p, l)',
           \A l \in Listener \ D : Pending(p, l)' <=> Pending(p, l)
    PROVE  PubSubInv'
<1>0. /\ subscribers \in [Topic -> Seq(Owner)] /\ updates \in 0..MaxUpdates
      /\ publisher \in [Publisher -> Publishing] /\ listener \in [Listener -> Receiving]
      /\ connection \in [Connection -> Connected]
      /\ \A l \in Listener : Due(l)
      /\ \A q \in Publisher : Publishes(q)
      /\ OwnUpdates
  BY DEF PubSubInv, PubSubTypes
<1>1. PICK m \in Nat : m = publisher[p].update
  BY <1>0 DEF Publishing
<1>2. \A q \in Publisher : q # p => publisher'[q] = publisher[q]
  BY <1>0
<1>3. m \in 1..updates
  BY <1>0, <1>1 DEF Publishes
<1>4. ASSUME NEW l \in D
      PROVE  /\ listener'[l] \in Receiving /\ Sound(listener'[l])
             /\ Has(listener'[l]) = Has(listener[l]) \cup {m}
             /\ listener'[l].channel = listener[l].channel /\ listener'[l].owed = listener[l].owed
  <2>1. listener[l] \in Receiving /\ Sound(listener[l]) /\ m \notin Has(listener[l])
    BY <1>0, <1>1 DEF Due
  <2>2. listener'[l] = Sent(listener[l], m)
    BY <1>1
  <2>3. QED
    BY <2>1, <2>2, Sending
<1>5. ASSUME NEW l \in Listener \ D PROVE listener'[l] = listener[l]
  OBVIOUS
<1>6. \A l \in Listener :
          /\ listener'[l] \in Receiving /\ Sound(listener'[l])
          /\ listener'[l].channel = listener[l].channel /\ listener'[l].owed = listener[l].owed
          /\ Has(listener[l]) \subseteq Has(listener'[l])
          /\ Has(listener'[l]) \subseteq Has(listener[l]) \cup {m}
  BY <1>0, <1>4, <1>5 DEF Due
<1>7. PubSubTypes'
  <2>1. listener' \in [Listener -> Receiving]
    BY <1>6
  <2>2. publisher' \in [Publisher -> Publishing]
    BY <1>0
  <2>3. QED
    BY <1>0, <2>1, <2>2 DEF PubSubTypes
<1>8. \A d \in Topic : Served(d)'
  BY <1>6, SameChannels
<1>9. \A q \in Publisher : Publishes(q)'
  <2>1. Publishes(p)'
    <3>1. Publishes(p)
      BY <1>0
    <3>2. QED
      BY <1>1, <1>3, <1>6, <3>1 DEF Publishes
  <2>2. ASSUME NEW q \in Publisher, q # p PROVE Publishes(q)'
    <3>1. Publishes(q) /\ publisher'[q] = publisher[q]
      BY <1>0, <1>2, <2>2
    <3>2. QED
      BY <1>6, <3>1 DEF Publishes
  <2>3. QED
    BY <2>1, <2>2
<1>10. OwnUpdates'
  BY <1>0, <1>2 DEF OwnUpdates
<1>11. ASSUME NEW l \in Listener PROVE Due(l)'
  <2>1. \A q \in Publisher : q # p => (Pending(q, l)' <=> Pending(q, l))
    BY <1>2, <1>6 DEF Pending
  <2>2. Due(l)
    BY <1>0
  <2>3. Has(listener'[l]) \subseteq 1..updates'
    BY <1>3, <1>6, <2>2 DEF Due
  <2>4. ASSUME NEW e \in listener'[l].owed, e \notin Has(listener'[l])
        PROVE  \E q \in Publisher : publisher'[q].update = e /\ Pending(q, l)'
    <3>1. PICK q \in Publisher : publisher[q].update = e /\ Pending(q, l)
      BY <1>6, <2>2, <2>4 DEF Due
    <3>2. CASE q # p
      BY <1>2, <2>1, <3>1, <3>2
    <3>3. CASE q = p
      <4>1. l \notin D
        BY <1>1, <1>4, <2>4, <3>1, <3>3
      <4>2. Pending(p, l)'
        BY <3>1, <3>3, <4>1
      <4>3. publisher'[p].at # "idle"
        BY <4>2 DEF Pending
      <4>4. QED
        BY <3>1, <3>3, <4>2, <4>3
    <3>4. QED
      BY <3>2, <3>3
  <2>5. ASSUME NEW q \in Publisher, Pending(q, l)' PROVE publisher'[q].update \notin Has(listener'[l])
    <3>1. CASE q = p
      <4>1. l \notin D /\ Pending(p, l)
        BY <2>5, <3>1
      <4>2. publisher'[p].update = publisher[p].update
        BY <2>5, <3>1 DEF Pending
      <4>3. QED
        BY <1>5, <2>2, <3>1, <4>1, <4>2 DEF Due
    <3>2. CASE q # p
      <4>1. Pending(q, l) /\ publisher'[q] = publisher[q]
        BY <1>2, <2>1, <2>5, <3>2
      <4>2. publisher[q].update # m
        BY <1>0, <1>1, <3>2, <4>1 DEF OwnUpdates, Pending
      <4>3. QED
        BY <1>6, <2>2, <4>1, <4>2 DEF Due
    <3>3. QED
      BY <3>1, <3>2
  <2>6. QED
    BY <1>6, <2>3, <2>4, <2>5 DEF Due
<1>12. QED
  BY <1>7, <1>8, <1>9, <1>10, <1>11 DEF PubSubInv

\* The publishers rest, and each listener keeps what it has or is a new receiver.
LEMMA Resting ==
    ASSUME PubSubInv, UNCHANGED <<updates, publisher>>,
           subscribers' \in [Topic -> Seq(Owner)], connection' \in [Connection -> Connected],
           listener' \in [Listener -> Receiving], \A d \in Topic : Served(d)',
           \A l \in Listener :
              \/ /\ Sound(listener'[l]) /\ Has(listener'[l]) = Has(listener[l])
                 /\ listener'[l].channel = listener[l].channel
                 /\ listener'[l].owed = listener[l].owed
              \/ /\ Sound(listener'[l]) /\ Has(listener'[l]) = {} /\ listener'[l].owed = {}
                 /\ listener[l].channel = "none"
    PROVE  PubSubInv'
<1>0. /\ publisher' = publisher /\ updates' = updates /\ OwnUpdates
      /\ updates \in 0..MaxUpdates /\ publisher \in [Publisher -> Publishing]
      /\ \A l \in Listener : Due(l)
      /\ \A q \in Publisher : Publishes(q)
  BY DEF PubSubInv, PubSubTypes
<1>1. PubSubTypes' /\ OwnUpdates'
  BY <1>0 DEF PubSubTypes, OwnUpdates
<1>2. ASSUME NEW q \in Publisher PROVE Publishes(q)'
  <2>1. Publishes(q)
    BY <1>0
  <2>2. "none" \notin Topic
    BY PubSubAssumption
  <2>3. QED
    BY <1>0, <2>1, <2>2 DEF Publishes
<1>3. ASSUME NEW l \in Listener PROVE Due(l)'
  <2>1. Due(l)
    BY <1>0
  <2>2. CASE Sound(listener'[l]) /\ Has(listener'[l]) = {} /\ listener'[l].owed = {}
    BY <2>2 DEF Due
  <2>3. CASE /\ Sound(listener'[l]) /\ Has(listener'[l]) = Has(listener[l])
             /\ listener'[l].channel = listener[l].channel /\ listener'[l].owed = listener[l].owed
    <3>1. \A q \in Publisher : Pending(q, l)' <=> Pending(q, l)
      BY <1>0, <2>3 DEF Pending
    <3>2. QED
      BY <1>0, <2>1, <2>3, <3>1 DEF Due
  <2>4. QED
    BY <2>2, <2>3
<1>4. QED
  BY <1>1, <1>2, <1>3 DEF PubSubInv

\* The steps of a publisher after its first.
LEMMA PublisherKeeps ==
    ASSUME PubSubInv, NEW p \in Publisher, SendToDomain(p) \/ DomainDone(p) \/ SendToGlobal(p)
    PROVE  PubSubInv'
<1>0. /\ publisher \in [Publisher -> Publishing] /\ listener \in [Listener -> Receiving]
      /\ publisher[p] \in Publishing /\ publisher[p].todo \in Seq(Owner) /\ Publishes(p)
      /\ UNCHANGED <<subscribers, updates, connection>>
  BY PubSubFacts DEF PubSubInv, Publishing, SendToDomain, DomainDone, SendToGlobal
<1>1. CASE SendToDomain(p)
  <2>0. /\ publisher[p].at = "domain" /\ publisher[p].todo # <<>>
        /\ publisher' = [publisher EXCEPT ![p].todo = Tail(publisher[p].todo)]
    BY <1>1 DEF SendToDomain
  <2>1. PICK o \in Owner : o = Head(publisher[p].todo)
    BY <1>0, <2>0, Taking
  <2>2. /\ Tail(publisher[p].todo) \in Seq(Owner)
        /\ Range(publisher[p].todo) = Range(Tail(publisher[p].todo)) \cup {o}
        /\ Once(Tail(publisher[p].todo)) /\ o \notin Range(Tail(publisher[p].todo)) \cap Listener
    BY <1>0, <2>0, <2>1, Taking DEF Publishes
  <2>3. /\ publisher'[p] \in Publishing /\ publisher' = [publisher EXCEPT ![p] = publisher'[p]]
        /\ publisher'[p].at = "domain" /\ publisher'[p].update = publisher[p].update
        /\ publisher'[p].domain = publisher[p].domain
        /\ publisher'[p].todo = Tail(publisher[p].todo)
    BY <1>0, <2>0, <2>2 DEF Publishing
  <2>4. PICK D \in SUBSET Listener : D = {o} \cap Listener
    OBVIOUS
  <2>5. listener' = [l \in Listener |->
                        IF l \in D THEN Sent(listener[l], publisher[p].update) ELSE listener[l]]
    <3>1. o \in Connection => o \notin Listener
      BY PubSubAssumption
    <3>2. listener' = IF o \in Connection THEN listener
                      ELSE [listener EXCEPT ![o] = Sent(listener[o], publisher[p].update)]
      BY <1>1, <2>1 DEF SendToDomain
    <3>3. QED
      BY <1>0, <2>4, <3>1, <3>2 DEF Owner
  <2>6. ASSUME NEW l \in Listener
        PROVE  listener'[l].channel = listener[l].channel
    <3>1. CASE l \in D
      <4>1. publisher[p].update \notin Has(listener[l]) /\ Sound(listener[l]) /\ publisher[p].update \in Nat
        <5>1. Pending(p, l) /\ Due(l)
          BY <2>0, <2>2, <2>4, <3>1 DEF Pending, PubSubInv
        <5>2. QED
          BY <1>0, <5>1 DEF Due, Publishing
      <4>2. listener'[l] = Sent(listener[l], publisher[p].update) /\ listener[l] \in Receiving
        BY <1>0, <2>5, <3>1
      <4>3. QED
        BY <4>1, <4>2, Sending
    <3>2. CASE l \notin D
      BY <2>5, <3>2
    <3>3. QED
      BY <3>1, <3>2
  <2>7. ASSUME NEW l \in D PROVE Pending(p, l) /\ ~Pending(p, l)'
    <3>1. l = o /\ l \in Listener /\ l \in Range(publisher[p].todo)
      BY <2>2, <2>4
    <3>2. listener[l].channel # Global
      BY <1>0, <2>0, <3>1, PubSubAssumption DEF Publishes
    <3>3. QED
      BY <2>0, <2>2, <2>3, <2>6, <3>1, <3>2 DEF Pending
  <2>8. ASSUME NEW l \in Listener \ D PROVE Pending(p, l)' <=> Pending(p, l)
    BY <2>0, <2>2, <2>3, <2>4, <2>6 DEF Pending
  <2>9. Range(publisher'[p].todo) \subseteq Range(publisher[p].todo) /\ Once(publisher'[p].todo)
    BY <2>2, <2>3
  <2>10. QED
    BY <1>0, <2>0, <2>3, <2>5, <2>7, <2>8, <2>9, Delivering
<1>2. CASE DomainDone(p)
  <2>0. /\ publisher[p].at = "domain" /\ publisher[p].todo = <<>>
        /\ publisher' = [publisher EXCEPT ![p].at = "global"] /\ listener' = listener
    BY <1>2 DEF DomainDone
  <2>1. /\ publisher'[p] \in Publishing /\ publisher' = [publisher EXCEPT ![p] = publisher'[p]]
        /\ publisher'[p].at = "global" /\ publisher'[p].update = publisher[p].update
    BY <1>0, <2>0 DEF Publishing
  <2>2. PICK D \in SUBSET Listener : D = {}
    OBVIOUS
  <2>3. listener' = [l \in Listener |->
                        IF l \in D THEN Sent(listener[l], publisher[p].update) ELSE listener[l]]
    BY <1>0, <2>0, <2>2
  <2>4. \A l \in Listener \ D : Pending(p, l)' <=> Pending(p, l)
    BY <2>0, <2>1 DEF Pending, Range
  <2>5. QED
    BY <1>0, <2>0, <2>1, <2>2, <2>3, <2>4, Delivering
<1>3. CASE SendToGlobal(p)
  <2>0. /\ publisher[p].at = "global" /\ publisher' = [publisher EXCEPT ![p] = Quiet]
        /\ listener' = [l \in Listener |->
              IF listener[l].channel = Global THEN Sent(listener[l], publisher[p].update) ELSE listener[l]]
    BY <1>3 DEF SendToGlobal
  <2>1. /\ publisher'[p] \in Publishing /\ publisher' = [publisher EXCEPT ![p] = publisher'[p]]
        /\ publisher'[p].at = "idle"
    BY <1>0, <2>0 DEF Publishing, Quiet
  <2>2. PICK D \in SUBSET Listener : D = {l \in Listener : listener[l].channel = Global}
    OBVIOUS
  <2>3. listener' = [l \in Listener |->
                        IF l \in D THEN Sent(listener[l], publisher[p].update) ELSE listener[l]]
    BY <2>0, <2>2
  <2>4. \A l \in Listener : ~Pending(p, l)' /\ (Pending(p, l) <=> l \in D)
    BY <2>0, <2>1, <2>2 DEF Pending
  <2>5. QED
    BY <1>0, <2>0, <2>1, <2>3, <2>4, Delivering
<1>4. QED
  BY <1>1, <1>2, <1>3

\* A new owner of a sender of a domain: one more of its listeners, or a connection.
LEMMA NewOwner ==
    ASSUME PubSubInv, NEW d \in Topic, NEW o \in Owner,
           subscribers' = [subscribers EXCEPT ![d] = Append(subscribers[d], o)],
           o \in Listener => listener[o].channel = "none" /\ listener'[o].channel = d,
           \A l \in Listener : l # o => listener'[l].channel = listener[l].channel
    PROVE  subscribers' \in [Topic -> Seq(Owner)] /\ \A e \in Topic : Served(e)'
<1>0. /\ subscribers \in [Topic -> Seq(Owner)] /\ subscribers[d] \in Seq(Owner)
      /\ Listener \cap Connection = {} /\ "none" \notin Topic /\ IsFiniteSet(Listener)
      /\ \A e \in Topic : Served(e)
  BY PubSubFacts, PubSubAssumption DEF PubSubInv
<1>1. o \notin Range(subscribers[d]) \cap Listener
  BY <1>0 DEF Served
<1>2. /\ subscribers'[d] \in Seq(Owner) /\ Len(subscribers'[d]) = Len(subscribers[d]) + 1
      /\ Range(subscribers'[d]) = Range(subscribers[d]) \cup {o}
      /\ Once(subscribers'[d])
  <2>1. /\ Append(subscribers[d], o) \in Seq(Owner)
        /\ Len(Append(subscribers[d], o)) = Len(subscribers[d]) + 1
        /\ Range(Append(subscribers[d], o)) = Range(subscribers[d]) \cup {o}
        /\ Once(Append(subscribers[d], o))
    <3>1. PICK s \in Seq(Owner) : s = subscribers[d]
      BY <1>0
    <3>2. Once(s) /\ o \notin Range(s) \cap Listener
      BY <1>0, <1>1, <3>1 DEF Served
    <3>3. /\ Append(s, o) \in Seq(Owner) /\ Len(Append(s, o)) = Len(s) + 1
          /\ Range(Append(s, o)) = Range(s) \cup {o} /\ Once(Append(s, o))
      BY <3>2, Appending
    <3>4. QED
      BY <3>1, <3>3
  <2>2. subscribers'[d] = Append(subscribers[d], o)
    BY <1>0
  <2>3. QED
    BY <2>1, <2>2
<1>3. \A e \in Topic : e # d => subscribers'[e] = subscribers[e]
  BY <1>0
<1>4. subscribers' \in [Topic -> Seq(Owner)]
  BY <1>0, <1>2
<1>5. Served(d)'
  <2>1. Served(d)
    BY <1>0
  <2>2. Cardinality({k \in Listener : listener'[k].channel = d}) <= Len(subscribers'[d])
    <3>1. PICK K \in SUBSET Listener : K = {k \in Listener : listener[k].channel = d}
      OBVIOUS
    <3>2. IsFiniteSet(K) /\ Cardinality(K) \in Nat /\ Cardinality(K) <= Len(subscribers[d])
      BY <1>0, <2>1, <3>1, FS_Subset, FS_CardinalityType DEF Served
    <3>3. Len(subscribers[d]) \in Nat
      BY <1>0
    <3>4. CASE o \in Listener
      <4>1. {k \in Listener : listener'[k].channel = d} = K \cup {o} /\ o \notin K
        BY <1>0, <3>1, <3>4
      <4>2. Cardinality({k \in Listener : listener'[k].channel = d}) = Cardinality(K) + 1
        BY <3>2, <4>1, FS_AddElement
      <4>3. QED
        BY <1>2, <3>2, <3>3, <4>2
    <3>5. CASE o \notin Listener
      <4>1. {k \in Listener : listener'[k].channel = d} = K
        BY <3>1, <3>5
      <4>2. Cardinality({k \in Listener : listener'[k].channel = d}) = Cardinality(K)
        BY <4>1
      <4>3. QED
        BY <1>2, <3>2, <3>3, <4>2
    <3>6. QED
      BY <3>4, <3>5
  <2>3. \A l \in Listener : l \in Range(subscribers'[d]) <=> listener'[l].channel = d
    BY <1>2, <2>1 DEF Served
  <2>4. QED
    BY <1>2, <2>2, <2>3 DEF Served
<1>6. ASSUME NEW e \in Topic, e # d PROVE Served(e)'
  <2>1. Served(e) /\ subscribers'[e] = subscribers[e]
    BY <1>0, <1>3, <1>6
  <2>2. \A l \in Listener : listener'[l].channel = e <=> listener[l].channel = e
    BY <1>0, <1>6
  <2>3. Cardinality({k \in Listener : listener'[k].channel = e})
          = Cardinality({k \in Listener : listener[k].channel = e})
    BY <2>2
  <2>4. QED
    BY <2>1, <2>2, <2>3 DEF Served
<1>7. QED
  BY <1>4, <1>5, <1>6

\* The steps of a listener.
LEMMA ListenerKeeps ==
    ASSUME PubSubInv, NEW l \in Listener,
           SubscribeGlobal(l) \/ Receive(l) \/ \E d \in Topic : SubscribeDomain(l, d)
    PROVE  PubSubInv'
<1>0. /\ listener \in [Listener -> Receiving] /\ subscribers \in [Topic -> Seq(Owner)]
      /\ connection \in [Connection -> Connected]
      /\ \A k \in Listener : listener[k] \in Receiving /\ Sound(listener[k])
      /\ UNCHANGED <<updates, publisher, connection>>
  BY PubSubFacts DEF SubscribeGlobal, Receive, SubscribeDomain
<1>1. CASE Receive(l)
  <2>1. PICK x : x = [listener[l] EXCEPT !.queue = Tail(@), !.got = Append(@, Head(listener[l].queue))]
    OBVIOUS
  <2>2. /\ x \in Receiving /\ Sound(x) /\ Has(x) = Has(listener[l])
        /\ x.channel = listener[l].channel /\ x.owed = listener[l].owed
    BY <1>0, <1>1, <2>1, Getting DEF Receive
  <2>3. listener' = [listener EXCEPT ![l] = x] /\ subscribers' = subscribers
    BY <1>0, <1>1, <2>1 DEF Receive
  <2>4. /\ listener' \in [Listener -> Receiving] /\ listener'[l] = x
        /\ \A k \in Listener : k # l => listener'[k] = listener[k]
    BY <1>0, <2>2, <2>3
  <2>5. \A k \in Listener : /\ Sound(listener'[k]) /\ Has(listener'[k]) = Has(listener[k])
                            /\ listener'[k].channel = listener[k].channel
                            /\ listener'[k].owed = listener[k].owed
    BY <1>0, <2>2, <2>4
  <2>6. \A d \in Topic : Served(d)'
    BY <2>3, <2>5, SameChannels
  <2>7. QED
    BY <1>0, <2>3, <2>4, <2>5, <2>6, Resting
<1>2. ASSUME NEW channel \in Topic \cup {Global}, listener[l].channel = "none",
             listener' = [listener EXCEPT ![l] = Receiver(channel)]
      PROVE  /\ listener' \in [Listener -> Receiving] /\ listener'[l].channel = channel
             /\ Sound(listener'[l]) /\ Has(listener'[l]) = {} /\ listener'[l].owed = {}
             /\ \A k \in Listener : k # l => listener'[k] = listener[k]
  BY <1>0, <1>2, NewReceiver
<1>3. CASE SubscribeGlobal(l)
  <2>1. /\ listener[l].channel = "none" /\ listener' = [listener EXCEPT ![l] = Receiver(Global)]
        /\ subscribers' = subscribers
    BY <1>3 DEF SubscribeGlobal
  <2>2. /\ listener' \in [Listener -> Receiving] /\ listener'[l].channel = Global
        /\ Sound(listener'[l]) /\ Has(listener'[l]) = {} /\ listener'[l].owed = {}
        /\ \A k \in Listener : k # l => listener'[k] = listener[k]
    BY <1>2, <2>1
  <2>3. ASSUME NEW d \in Topic PROVE Served(d)'
    <3>1. \A k \in Listener : listener'[k].channel = d <=> listener[k].channel = d
      BY <2>1, <2>2, PubSubAssumption
    <3>2. Cardinality({k \in Listener : listener'[k].channel = d})
            = Cardinality({k \in Listener : listener[k].channel = d})
      BY <3>1
    <3>3. Served(d)
      BY DEF PubSubInv
    <3>4. QED
      BY <2>1, <3>1, <3>2, <3>3 DEF Served
  <2>4. QED
    BY <1>0, <2>1, <2>2, <2>3, Resting
<1>4. ASSUME NEW d \in Topic, SubscribeDomain(l, d) PROVE PubSubInv'
  <2>1. /\ listener[l].channel = "none" /\ listener' = [listener EXCEPT ![l] = Receiver(d)]
        /\ subscribers' = [subscribers EXCEPT ![d] = Append(subscribers[d], l)]
    BY <1>4 DEF SubscribeDomain, Pushed
  <2>2. /\ listener' \in [Listener -> Receiving] /\ listener'[l].channel = d
        /\ Sound(listener'[l]) /\ Has(listener'[l]) = {} /\ listener'[l].owed = {}
        /\ \A k \in Listener : k # l => listener'[k] = listener[k]
    BY <1>2, <2>1
  <2>3. subscribers' \in [Topic -> Seq(Owner)] /\ \A e \in Topic : Served(e)'
    BY <2>1, <2>2, NewOwner DEF Owner
  <2>4. QED
    BY <1>0, <2>1, <2>2, <2>3, Resting
<1>5. QED
  BY <1>1, <1>3, <1>4

\* The steps of a connection.
LEMMA ConnectionKeeps ==
    ASSUME PubSubInv, NEW c \in Connection,
           WsClose(c) \/ \E d \in Topic : WsSubscribe(c, d) \/ WsUnsubscribe(c, d)
    PROVE  PubSubInv'
<1>0. /\ listener \in [Listener -> Receiving] /\ subscribers \in [Topic -> Seq(Owner)]
      /\ connection \in [Connection -> Connected]
      /\ \A k \in Listener : Sound(listener[k])
      /\ UNCHANGED <<updates, publisher, listener>>
  BY PubSubFacts DEF WsClose, WsSubscribe, WsUnsubscribe
<1>1. connection' \in [Connection -> Connected]
  <2>1. PICK r \in Connected : r = connection[c]
    BY <1>0
  <2>2. /\ [r EXCEPT !.open = FALSE] \in Connected
        /\ \A s \in SUBSET Topic : [r EXCEPT !.subscriptions = s] \in Connected
    BY DEF Connected
  <2>3. \A d \in Topic : r.subscriptions \cup {d} \in SUBSET Topic /\ r.subscriptions \ {d} \in SUBSET Topic
    BY DEF Connected
  <2>4. \/ connection' = [connection EXCEPT ![c] = [r EXCEPT !.open = FALSE]]
        \/ \E d \in Topic :
              \/ connection' = [connection EXCEPT ![c] = [r EXCEPT !.subscriptions = r.subscriptions \cup {d}]]
              \/ connection' = [connection EXCEPT ![c] = [r EXCEPT !.subscriptions = r.subscriptions \ {d}]]
    BY <2>1 DEF WsClose, WsSubscribe, WsUnsubscribe
  <2>5. \A x \in Connected : [connection EXCEPT ![c] = x] \in [Connection -> Connected]
    BY <1>0
  <2>6. QED
    BY <2>2, <2>3, <2>4, <2>5
<1>2. CASE subscribers' = subscribers
  <2>1. \A d \in Topic : Served(d)'
    BY <1>0, <1>2, SameChannels
  <2>2. QED
    BY <1>0, <1>1, <1>2, <2>1, Resting
<1>3. ASSUME NEW d \in Topic, WsSubscribe(c, d) PROVE PubSubInv'
  <2>1. subscribers' = [subscribers EXCEPT ![d] = Append(subscribers[d], c)]
    BY <1>3 DEF WsSubscribe, Pushed
  <2>2. subscribers' \in [Topic -> Seq(Owner)] /\ \A e \in Topic : Served(e)'
    BY <1>0, <2>1, NewOwner, PubSubAssumption DEF Owner
  <2>3. QED
    BY <1>0, <1>1, <2>2, Resting
<1>4. QED
  BY <1>2, <1>3 DEF WsClose, WsUnsubscribe

\* The invariant of the subscriptions, for every number of publishers, listeners,
\* connections, domains and updates, and every capacity of the channels.
THEOREM PubSubInvariant == PubSubSpec => []PubSubInv
<1>1. ASSUME PubSubInv, [PubSubNext]_pubSubVars PROVE PubSubInv'
  <2>1. CASE PubSubNext
    BY <1>1, <2>1, PublishKeeps, PublisherKeeps, ListenerKeeps, ConnectionKeeps DEF PubSubNext
  <2>2. CASE UNCHANGED pubSubVars
    <3>1. /\ subscribers' = subscribers /\ updates' = updates /\ publisher' = publisher
          /\ listener' = listener /\ connection' = connection
      BY <2>2 DEF pubSubVars
    <3>2. \A d \in Topic : Served(d)'
      BY <1>1, <3>1, SameChannels
    <3>3. QED
      BY <1>1, <3>1, <3>2, PubSubFacts, Resting
  <2>3. QED
    BY <1>1, <2>1, <2>2
<1>2. QED
  BY <1>1, PubSubStart, PTL DEF PubSubSpec

\* A receiver is sent every update of its domain, or of all, that begins while it is
\* there, each once, and a subscriber is counted as often as it subscribed
\* (publish_update, subscribe_domain).
THEOREM NoneMissed == PubSubSpec => []NothingMissed
<1>1. ASSUME PubSubInv PROVE NothingMissed
  <2>1. ASSUME NEW l \in Listener
        PROVE  /\ listener[l].owed \subseteq Known(l) \cup UnderWay
               /\ Cardinality(Known(l)) = Len(listener[l].got) + Len(listener[l].queue)
                                            + Cardinality(listener[l].lagged)
    <3>1. Due(l)
      BY <1>1 DEF PubSubInv
    <3>2. Known(l) = Has(listener[l])
      BY DEF Known, Has, Range
    <3>3. QED
      BY <3>1, <3>2 DEF Due, Sound, UnderWay
  <2>2. ASSUME NEW d \in Topic
        PROVE  Cardinality({k \in Listener : listener[k].channel = d}) <= SubscriberCount(d)
    BY <1>1 DEF PubSubInv, Served, SubscriberCount
  <2>3. QED
    BY <2>1, <2>2 DEF NothingMissed
<1>2. QED
  BY <1>1, PubSubInvariant, PTL

\* The types of the channels and connections: no publisher has an update that is not
\* numbered yet.
THEOREM PubSubTypeCorrect == PubSubSpec => []PubSubTypeOK
<1> DEFINE Numbered == \A p \in Publisher : publisher[p].update \in 0..updates
<1>1. ASSUME PubSubInit PROVE Numbered
  BY <1>1 DEF PubSubInit, Quiet
<1>2. ASSUME PubSubInv, Numbered, [PubSubNext]_pubSubVars PROVE Numbered'
  <2>1. /\ updates \in Nat /\ publisher \in [Publisher -> Publishing]
    BY <1>2, PubSubFacts, PubSubAssumption DEF PubSubInv, PubSubTypes
  <2>2. ASSUME NEW p \in Publisher, Publish(p) PROVE Numbered'
    <3>1. PICK d \in Topic : publisher' = [publisher EXCEPT ![p] =
             [at |-> "domain", update |-> updates + 1, domain |-> d, todo |-> subscribers[d]]]
      BY <2>2 DEF Publish
    <3>2. updates' = updates + 1
      BY <2>2 DEF Publish
    <3>3. QED
      BY <1>2, <2>1, <3>1, <3>2
  <2>3. ASSUME NEW p \in Publisher, SendToDomain(p) \/ DomainDone(p) PROVE Numbered'
    <3>1. /\ updates' = updates
          /\ \/ publisher' = [publisher EXCEPT ![p].todo = Tail(@)]
             \/ publisher' = [publisher EXCEPT ![p].at = "global"]
      BY <2>3 DEF SendToDomain, DomainDone
    <3>2. \A r \in Publishing : \A t : /\ [r EXCEPT !.todo = t].update = r.update
                                       /\ [r EXCEPT !.at = t].update = r.update
      BY DEF Publishing
    <3>3. ASSUME NEW q \in Publisher PROVE publisher'[q].update = publisher[q].update
      <4>1. publisher[q] \in Publishing
        BY <2>1
      <4>2. CASE q # p
        BY <2>1, <3>1, <4>2
      <4>3. CASE q = p
        <5>1. CASE publisher' = [publisher EXCEPT ![p].todo = Tail(@)]
          <6>1. publisher'[p] = [publisher[p] EXCEPT !.todo = Tail(publisher[p].todo)]
            BY <2>1, <5>1
          <6>2. QED
            BY <3>2, <4>1, <4>3, <6>1
        <5>2. CASE publisher' = [publisher EXCEPT ![p].at = "global"]
          <6>1. publisher'[p] = [publisher[p] EXCEPT !.at = "global"]
            BY <2>1, <5>2
          <6>2. QED
            BY <3>2, <4>1, <4>3, <6>1
        <5>3. QED
          BY <3>1, <5>1, <5>2
      <4>4. QED
        BY <4>2, <4>3
    <3>4. QED
      BY <1>2, <3>1, <3>3
  <2>4. ASSUME NEW p \in Publisher, SendToGlobal(p) PROVE Numbered'
    BY <1>2, <2>1, <2>4 DEF SendToGlobal, Quiet
  <2>5. CASE UNCHANGED <<updates, publisher>>
    BY <1>2, <2>5
  <2>6. QED
    BY <1>2, <2>2, <2>3, <2>4, <2>5
       DEF PubSubNext, pubSubVars, SubscribeGlobal, SubscribeDomain, Receive, WsClose, WsSubscribe,
           WsUnsubscribe
<1>3. ASSUME PubSubInv, Numbered PROVE PubSubTypeOK
  <2>1. PubSubTypes /\ \A l \in Listener : Len(listener[l].queue) <= Capacity
    BY <1>3 DEF PubSubInv, Due, Sound
  <2>2. \A p \in Publisher : publisher[p] \in Publishing
    BY <2>1 DEF PubSubTypes
  <2>3. \A l \in Listener : listener[l].channel \in Topic \cup {Global, "none"}
    BY <2>1 DEF PubSubTypes, Receiving
  <2>4. \A c \in Connection : connection[c].open \in BOOLEAN /\ connection[c].subscriptions \subseteq Topic
    BY <2>1 DEF PubSubTypes, Connected
  <2>5. QED
    BY <1>3, <2>1, <2>2, <2>3, <2>4 DEF PubSubTypeOK, PubSubTypes, Owner, Publishing
<1>4. QED
  BY <1>1, <1>2, <1>3, PubSubInvariant, PTL DEF PubSubSpec

-----------------------------------------------------------------------------
(* Telemetry.                                                              *)

\* The last scores, at most HistoryCap, of the first n that were recorded.
Kept(r, n) == SubSeq(r, Max({1, n - HistoryCap + 1}), n)

Recording == [at: {"idle", "domain", "score", "count", "done"}, site: Site \cup {0}, score: Score \cup {0}]
\* A report is a record of its fields.
IsReport ==
    report = [at |-> report.at, todo |-> report.todo, trends |-> report.trends,
              counts |-> report.counts, named |-> report.named, scored |-> report.scored]

TelemetryTypes ==
    /\ site_domains \in SUBSET Site
    /\ quality_history \in [Site -> Seq(Score)] /\ recorded \in [Site -> Seq(Score)]
    /\ handshake_counts \in [Site -> Nat]
    /\ recorder \in [Recorder -> Recording]
    /\ \A r \in Recorder : recorder[r].at # "idle" => recorder[r].site \in Site /\ recorder[r].score \in Score
    /\ IsReport

\* The domain of a site is recorded before its first score, which stays.
DomainFirst ==
    /\ \A r \in Recorder : recorder[r].at = "score" => recorder[r].site \in site_domains
    /\ \A s \in Site : recorded[s] # <<>> => s \in site_domains

\* The history of a site is the end of what was recorded for it.
HistoryIsLast ==
    \A s \in Site : quality_history[s] = Kept(recorded[s], Len(recorded[s]))

\* A trend was the end of what was recorded, at a moment of the report, ...
TrendHeld(s) ==
    /\ s \in Site /\ s \in report.named
    /\ report.trends[s].at \in 1..Len(recorded[s])
    /\ report.trends[s].history = Kept(recorded[s], report.trends[s].at)

\* ... and its site is met again with its score.
RankingMeets ==
    /\ report.at \in {"off", "trends"} => report.counts = <<>>
    /\ DOMAIN report.trends \cap DOMAIN report.counts \subseteq report.scored

TelemetryInv ==
    /\ TelemetryTypes /\ DomainFirst /\ HistoryIsLast
    /\ \A s \in DOMAIN report.trends : TrendHeld(s)
    /\ RankingMeets

\* Where the last scores begin.
LEMMA Beginning ==
    ASSUME NEW n \in Nat
    PROVE  Max({1, n - HistoryCap + 1}) = IF n < HistoryCap THEN 1 ELSE n - HistoryCap + 1
<1>1. HistoryCap \in Nat \ {0}
  BY TelemetryAssumption
<1>2. PICK m : m = IF n < HistoryCap THEN 1 ELSE n - HistoryCap + 1
  OBVIOUS
<1>3. m \in {1, n - HistoryCap + 1} /\ \A y \in {1, n - HistoryCap + 1} : m >= y
  BY <1>1, <1>2
<1>4. \A x \in {1, n - HistoryCap + 1} : (\A y \in {1, n - HistoryCap + 1} : x >= y) => x = m
  BY <1>1, <1>2
<1>5. QED
  BY <1>2, <1>3, <1>4 DEF Max

\* How many the last scores are, and which.
LEMMA KeptIs ==
    ASSUME NEW r \in Seq(Score), NEW n \in 0..Len(r),
           NEW k, k = IF n < HistoryCap THEN n ELSE HistoryCap
    PROVE  /\ k \in 0..n /\ Kept(r, n) \in Seq(Score) /\ Len(Kept(r, n)) = k
           /\ \A i \in 1..k : Kept(r, n)[i] = r[n - k + i]
<1>0. HistoryCap \in Nat \ {0} /\ n \in Nat /\ Len(r) \in Nat /\ n <= Len(r)
  BY TelemetryAssumption
<1>1. PICK m : m = IF n < HistoryCap THEN 1 ELSE n - HistoryCap + 1
  OBVIOUS
<1>2. Kept(r, n) = SubSeq(r, m, n)
  BY <1>0, <1>1, Beginning DEF Kept
<1>3. m \in Int /\ m >= 1 /\ m <= n + 1 /\ k = n - m + 1 /\ k \in 0..n
  BY <1>0, <1>1
<1>4. \A i \in m..n : r[i] \in Score
  BY <1>0, <1>3
<1>5. /\ SubSeq(r, m, n) \in Seq(Score)
      /\ Len(SubSeq(r, m, n)) = IF m <= n THEN n - m + 1 ELSE 0
      /\ \A i \in 1..(n - m + 1) : SubSeq(r, m, n)[i] = r[m + i - 1]
  BY <1>0, <1>3, <1>4, SubSeqProperties
<1>6. Len(SubSeq(r, m, n)) = k
  BY <1>0, <1>3, <1>5
<1>7. \A i \in 1..k : SubSeq(r, m, n)[i] = r[n - k + i]
  <2> TAKE i \in 1..k
  <2>1. SubSeq(r, m, n)[i] = r[m + i - 1] /\ m + i - 1 = n - k + i
    BY <1>0, <1>3, <1>5
  <2>2. QED
    BY <2>1
<1>8. QED
  BY <1>2, <1>3, <1>5, <1>6, <1>7

\* A later score leaves the last of the earlier ones as they were.
LEMMA KeptStays ==
    ASSUME NEW r \in Seq(Score), NEW x \in Score, NEW n \in 0..Len(r)
    PROVE  Kept(Append(r, x), n) = Kept(r, n)
<1>0. /\ HistoryCap \in Nat \ {0} /\ Len(r) \in Nat /\ n \in Nat /\ n <= Len(r)
      /\ Append(r, x) \in Seq(Score) /\ Len(Append(r, x)) = Len(r) + 1
      /\ \A i \in 1..Len(r) : Append(r, x)[i] = r[i]
  BY TelemetryAssumption
<1>1. PICK k : k = IF n < HistoryCap THEN n ELSE HistoryCap
  OBVIOUS
<1>2. PICK t \in Seq(Score) : t = Append(r, x)
  BY <1>0
<1>3. n \in 0..Len(t) /\ \A i \in 1..Len(r) : t[i] = r[i]
  <2>1. Len(t) = Len(r) + 1
    BY <1>0, <1>2
  <2>2. QED
    BY <1>0, <1>2, <2>1
<1>4. /\ k \in 0..n /\ Kept(r, n) \in Seq(Score) /\ Len(Kept(r, n)) = k
      /\ \A i \in 1..k : Kept(r, n)[i] = r[n - k + i]
  BY <1>1, KeptIs
<1>5. /\ Kept(t, n) \in Seq(Score) /\ Len(Kept(t, n)) = k
      /\ \A i \in 1..k : Kept(t, n)[i] = t[n - k + i]
  <2>1. t \in Seq(Score) /\ n \in 0..Len(t)
    BY <1>3
  <2>2. QED
    BY ONLY <1>1, <2>1, KeptIs
<1>6. \A i \in 1..k : Kept(t, n)[i] = Kept(r, n)[i]
  <2> TAKE i \in 1..k
  <2>1. n - k + i \in 1..Len(r)
    BY <1>0, <1>4
  <2>2. QED
    BY <1>3, <1>4, <1>5, <2>1
<1>7. Kept(t, n) = Kept(r, n)
  BY <1>4, <1>5, <1>6, SeqEqual
<1>8. QED
  BY <1>2, <1>7

\* drain keeps the last scores, as each is recorded.
LEMMA KeptGrows ==
    ASSUME NEW r \in Seq(Score), NEW x \in Score
    PROVE  Capped(Append(Kept(r, Len(r)), x)) = Kept(Append(r, x), Len(r) + 1)
<1>0. HistoryCap \in Nat \ {0} /\ Len(r) \in Nat
  BY TelemetryAssumption
<1>1. PICK n \in Nat : n = Len(r)
  BY <1>0
<1>2. PICK k : k = IF n < HistoryCap THEN n ELSE HistoryCap
  OBVIOUS
<1>3. PICK k1 : k1 = IF n + 1 < HistoryCap THEN n + 1 ELSE HistoryCap
  OBVIOUS
<1>k. k \in 0..n /\ k1 \in 0..(n + 1) /\ n \in 0..Len(r)
  BY <1>0, <1>1, <1>2, <1>3
<1>h. PICK h : h = Kept(r, n)
  OBVIOUS
<1>4. h \in Seq(Score) /\ Len(h) = k /\ \A i \in 1..k : h[i] = r[n - k + i]
  BY <1>2, <1>k, <1>h, KeptIs
<1>t. PICK t : t = Append(r, x)
  OBVIOUS
<1>5. t \in Seq(Score) /\ Len(t) = n + 1 /\ t[n + 1] = x /\ \A i \in 1..n : t[i] = r[i]
  BY <1>1, <1>t
<1>u. PICK u : u = Kept(t, n + 1)
  OBVIOUS
<1>6. u \in Seq(Score) /\ Len(u) = k1 /\ \A i \in 1..k1 : u[i] = t[n + 1 - k1 + i]
  <2>1. n + 1 \in 0..Len(t)
    BY <1>5
  <2>2. QED
    BY <1>3, <1>5, <1>u, <2>1, KeptIs
<1>g. PICK g : g = Append(h, x)
  OBVIOUS
<1>7. g \in Seq(Score) /\ Len(g) = k + 1 /\ g[k + 1] = x /\ \A i \in 1..k : g[i] = h[i]
  BY <1>4, <1>k, <1>g
<1>8. \A i \in 1..(k + 1) : g[i] = t[n - k + i]
  <2> TAKE i \in 1..(k + 1)
  <2>1. CASE i = k + 1
    <3>1. n - k + i = n + 1
      BY <1>k, <2>1
    <3>2. QED
      BY <1>5, <1>7, <2>1, <3>1
  <2>2. CASE i \in 1..k
    <3>1. n - k + i \in 1..n
      BY <1>k, <2>2
    <3>2. QED
      BY <1>4, <1>5, <1>7, <2>2, <3>1
  <2>3. QED
    BY <1>k, <2>1, <2>2
<1>9. CASE k + 1 <= HistoryCap
  <2>1. k1 = k + 1 /\ Capped(g) = g
    BY <1>0, <1>k, <1>2, <1>3, <1>7, <1>9 DEF Capped
  <2>2. \A i \in 1..k1 : g[i] = u[i]
    <3> TAKE i \in 1..k1
    <3>1. n + 1 - k1 + i = n - k + i
      BY <1>k, <2>1
    <3>2. QED
      BY <1>6, <1>8, <2>1, <3>1
  <2>3. g = u
    BY <1>6, <1>7, <2>1, <2>2, SeqEqual
  <2>4. QED
    BY <1>1, <1>h, <1>t, <1>u, <1>g, <2>1, <2>3
<1>10. CASE k + 1 > HistoryCap
  <2>1. k = HistoryCap /\ k1 = k /\ k >= 1
    BY <1>0, <1>k, <1>2, <1>3, <1>10
  <2>2. Capped(g) = SubSeq(g, 2, k + 1)
    BY <1>0, <1>k, <1>7, <2>1 DEF Capped
  <2>3. \A i \in 2..(k + 1) : g[i] \in Score
    BY <1>7
  <2>4. /\ SubSeq(g, 2, k + 1) \in Seq(Score)
        /\ Len(SubSeq(g, 2, k + 1)) = IF 2 <= k + 1 THEN k + 1 - 2 + 1 ELSE 0
        /\ \A i \in 1..(k + 1 - 2 + 1) : SubSeq(g, 2, k + 1)[i] = g[2 + i - 1]
    BY <1>k, <2>3, SubSeqProperties
  <2>5. PICK w \in Seq(Score) : w = SubSeq(g, 2, k + 1)
    BY <2>4
  <2>6. Len(w) = k1 /\ k + 1 - 2 + 1 = k
    BY <1>k, <2>1, <2>4, <2>5
  <2>7. \A i \in 1..k1 : w[i] = u[i]
    <3> TAKE i \in 1..k1
    <3>1. w[i] = g[2 + i - 1] /\ 2 + i - 1 = i + 1
      BY <2>1, <2>4, <2>5, <2>6
    <3>2. g[i + 1] = t[n - k + (i + 1)] /\ n - k + (i + 1) = n + 1 - k1 + i
      BY <1>8, <1>k, <2>1
    <3>3. QED
      BY <1>6, <3>1, <3>2
  <2>8. w = u
    BY <1>6, <2>6, <2>7, SeqEqual
  <2>9. QED
    BY <1>1, <1>h, <1>t, <1>u, <1>g, <2>2, <2>5, <2>8
<1>11. QED
  BY <1>0, <1>k, <1>9, <1>10

\* The invariant at the start.
LEMMA TelemetryStart == ASSUME TelemetryInit PROVE TelemetryInv
<1>1. <<>> \in Seq(Score) /\ DOMAIN <<>> = {}
  OBVIOUS
<1>2. TelemetryTypes
  BY <1>1 DEF TelemetryInit, TelemetryTypes, Recording, IsReport, NoReport
<1>3. DomainFirst
  BY DEF TelemetryInit, DomainFirst
<1>4. ASSUME NEW s \in Site PROVE quality_history[s] = Kept(recorded[s], Len(recorded[s]))
  <2>1. quality_history[s] = <<>> /\ recorded[s] = <<>>
    BY DEF TelemetryInit
  <2>2. Len(recorded[s]) = 0 /\ recorded[s] \in Seq(Score)
    BY <1>1, <2>1
  <2>3. Kept(recorded[s], 0) \in Seq(Score) /\ Len(Kept(recorded[s], 0)) = 0
    BY <2>2, KeptIs, TelemetryAssumption
  <2>4. Kept(recorded[s], 0) = <<>>
    BY <2>3
  <2>5. QED
    BY <2>1, <2>2, <2>4
<1>5. report.trends = <<>> /\ report.counts = <<>>
  BY DEF TelemetryInit, NoReport
<1>6. QED
  BY <1>1, <1>2, <1>3, <1>4, <1>5 DEF TelemetryInv, HistoryIsLast, RankingMeets

\* A site with a trend has a score and its domain.
LEMMA TrendIsScored ==
    ASSUME TelemetryInv, NEW s \in DOMAIN report.trends
    PROVE  s \in Site /\ s \in Scored /\ s \in site_domains
<1>1. /\ s \in Site /\ recorded[s] \in Seq(Score) /\ Len(recorded[s]) \in Nat
      /\ report.trends[s].at \in 1..Len(recorded[s])
      /\ quality_history[s] = Kept(recorded[s], Len(recorded[s]))
  BY DEF TelemetryInv, TrendHeld, TelemetryTypes, HistoryIsLast
<1>2. Len(recorded[s]) >= 1 /\ recorded[s] # <<>>
  BY <1>1
<1>3. Len(quality_history[s]) >= 1 /\ quality_history[s] \in Seq(Score)
  <2>1. PICK k : k = IF Len(recorded[s]) < HistoryCap THEN Len(recorded[s]) ELSE HistoryCap
    OBVIOUS
  <2>2. k >= 1
    BY <1>1, <1>2, <2>1, TelemetryAssumption
  <2>3. QED
    BY <1>1, <2>1, <2>2, KeptIs
<1>4. quality_history[s] # <<>>
  BY <1>3
<1>5. QED
  BY <1>1, <1>2, <1>4 DEF TelemetryInv, DomainFirst, Scored

\* A handshake records its score: the history drops the oldest, the trends stay true.
LEMMA ScoreKeeps ==
    ASSUME TelemetryInv, NEW r \in Recorder, RecordScore(r)
    PROVE  TelemetryInv'
<1>0. /\ TelemetryTypes /\ DomainFirst /\ HistoryIsLast /\ RankingMeets
      /\ \A t \in DOMAIN report.trends : TrendHeld(t)
  BY DEF TelemetryInv
<1>1. PICK s \in Site, x \in Score : s = recorder[r].site /\ x = recorder[r].score
  BY <1>0 DEF TelemetryTypes, RecordScore
<1>2. /\ quality_history' = [quality_history EXCEPT ![s] = Capped(Append(quality_history[s], x))]
      /\ recorded' = [recorded EXCEPT ![s] = Append(recorded[s], x)]
      /\ recorder' = [recorder EXCEPT ![r].at = "count"]
      /\ site_domains' = site_domains /\ handshake_counts' = handshake_counts /\ report' = report
      /\ recorder[r].at = "score"
  BY <1>1 DEF RecordScore
<1>3. PICK p \in Seq(Score) : p = recorded[s] /\ quality_history[s] = Kept(p, Len(p))
  BY <1>0 DEF TelemetryTypes, HistoryIsLast
<1>4. /\ recorded'[s] = Append(p, x) /\ Append(p, x) \in Seq(Score)
      /\ Len(Append(p, x)) = Len(p) + 1 /\ Len(p) \in Nat
      /\ \A t \in Site : t # s => recorded'[t] = recorded[t] /\ quality_history'[t] = quality_history[t]
  BY <1>0, <1>2, <1>3 DEF TelemetryTypes
<1>5. quality_history'[s] = Kept(Append(p, x), Len(p) + 1)
  BY <1>0, <1>2, <1>3, KeptGrows DEF TelemetryTypes
<1>6. Kept(Append(p, x), Len(p) + 1) \in Seq(Score)
  <2>1. PICK q \in Seq(Score) : q = Append(p, x)
    BY <1>4
  <2>2. Len(p) + 1 \in 0..Len(q)
    BY <1>4, <2>1
  <2>3. Kept(q, Len(p) + 1) \in Seq(Score)
    BY <2>2, KeptIs
  <2>4. QED
    BY <2>1, <2>3
<1>7. TelemetryTypes'
  <2>1. recorded' \in [Site -> Seq(Score)]
    BY <1>0, <1>2, <1>3, <1>4 DEF TelemetryTypes
  <2>2. quality_history' \in [Site -> Seq(Score)]
    <3>1. Capped(Append(quality_history[s], x)) = Kept(Append(p, x), Len(p) + 1)
      BY <1>3, KeptGrows
    <3>2. QED
      BY <1>0, <1>2, <1>6, <3>1 DEF TelemetryTypes
  <2>3. /\ recorder' \in [Recorder -> Recording]
        /\ \A q \in Recorder : recorder'[q].at # "idle" =>
              recorder'[q].site \in Site /\ recorder'[q].score \in Score
    BY <1>0, <1>2 DEF TelemetryTypes, Recording
  <2>4. QED
    BY <1>0, <1>2, <2>1, <2>2, <2>3 DEF TelemetryTypes, IsReport
<1>8. DomainFirst'
  <2>1. s \in site_domains
    BY <1>0, <1>1, <1>2 DEF DomainFirst
  <2>2. \A q \in Recorder : recorder'[q].at = "score" => recorder'[q] = recorder[q]
    BY <1>0, <1>2 DEF TelemetryTypes, Recording
  <2>3. QED
    BY <1>0, <1>2, <1>4, <2>1, <2>2 DEF DomainFirst
<1>9. HistoryIsLast'
  <2>1. quality_history'[s] = Kept(recorded'[s], Len(recorded'[s]))
    BY <1>4, <1>5
  <2>2. \A t \in Site : t # s => quality_history'[t] = Kept(recorded'[t], Len(recorded'[t]))
    BY <1>0, <1>4 DEF HistoryIsLast
  <2>3. QED
    BY <2>1, <2>2 DEF HistoryIsLast
<1>10. ASSUME NEW t \in DOMAIN report'.trends PROVE TrendHeld(t)'
  <2>1. TrendHeld(t)
    BY <1>0, <1>2
  <2>2. CASE t # s
    BY <1>2, <1>4, <2>1, <2>2 DEF TrendHeld
  <2>3. CASE t = s
    <3>1. PICK n \in 1..Len(p) : n = report.trends[s].at
      BY <1>3, <2>1, <2>3 DEF TrendHeld
    <3>2. Kept(Append(p, x), n) = Kept(p, n)
      BY <3>1, KeptStays
    <3>3. n \in 1..Len(recorded'[s])
      BY <1>4, <3>1
    <3>4. QED
      BY <1>2, <1>3, <1>4, <2>1, <2>3, <3>1, <3>2, <3>3 DEF TrendHeld
  <2>4. QED
    BY <2>2, <2>3
<1>11. RankingMeets'
  BY <1>0, <1>2 DEF RankingMeets
<1>12. QED
  BY <1>7, <1>8, <1>9, <1>10, <1>11 DEF TelemetryInv

\* The other steps of a handshake.
LEMMA RecorderKeeps ==
    ASSUME TelemetryInv, NEW r \in Recorder, Begin(r) \/ RecordDomain(r) \/ RecordHandshake(r)
    PROVE  TelemetryInv'
<1>0. /\ TelemetryTypes /\ DomainFirst /\ HistoryIsLast /\ RankingMeets
      /\ \A t \in DOMAIN report.trends : TrendHeld(t)
  BY DEF TelemetryInv
<1>1. /\ quality_history' = quality_history /\ recorded' = recorded /\ report' = report
      /\ site_domains \subseteq site_domains'
  BY DEF Begin, RecordDomain, RecordHandshake
<1>2. /\ recorder' \in [Recorder -> Recording]
      /\ \A q \in Recorder : recorder'[q].at # "idle" =>
            recorder'[q].site \in Site /\ recorder'[q].score \in Score
      /\ \A q \in Recorder : recorder'[q].at = "score" =>
            recorder'[q] = recorder[q] \/ recorder'[q].site \in site_domains'
  <2>1. CASE Begin(r)
    BY <1>0, <2>1 DEF Begin, TelemetryTypes, Recording
  <2>2. CASE RecordDomain(r)
    BY <1>0, <2>2 DEF RecordDomain, TelemetryTypes, Recording
  <2>3. CASE RecordHandshake(r)
    BY <1>0, <2>3 DEF RecordHandshake, TelemetryTypes, Recording
  <2>4. QED
    BY <2>1, <2>2, <2>3
<1>3. site_domains' \in SUBSET Site /\ handshake_counts' \in [Site -> Nat]
  <2>1. CASE Begin(r)
    BY <1>0, <2>1 DEF Begin, TelemetryTypes
  <2>2. CASE RecordDomain(r)
    BY <1>0, <2>2 DEF RecordDomain, TelemetryTypes
  <2>3. CASE RecordHandshake(r)
    BY <1>0, <2>3 DEF RecordHandshake, TelemetryTypes
  <2>4. QED
    BY <2>1, <2>2, <2>3
<1>4. TelemetryTypes'
  BY <1>0, <1>1, <1>2, <1>3 DEF TelemetryTypes, IsReport
<1>5. DomainFirst' /\ HistoryIsLast' /\ RankingMeets'
  BY <1>0, <1>1, <1>2 DEF DomainFirst, HistoryIsLast, RankingMeets
<1>6. \A t \in DOMAIN report'.trends : TrendHeld(t)'
  BY <1>0, <1>1 DEF TrendHeld
<1>7. QED
  BY <1>4, <1>5, <1>6 DEF TelemetryInv

\* The steps of a report.
LEMMA ReportKeeps ==
    ASSUME TelemetryInv,
           StartReport \/ WalkDone \/ \E s \in Site : ReportTrend(s) \/ ReportSite(s) \/ PassOver(s)
    PROVE  TelemetryInv'
<1>0. /\ TelemetryTypes /\ DomainFirst /\ HistoryIsLast /\ RankingMeets /\ IsReport
      /\ \A t \in DOMAIN report.trends : TrendHeld(t)
  BY DEF TelemetryInv, TelemetryTypes
<1>1. UNCHANGED <<site_domains, quality_history, handshake_counts, recorder, recorded>>
  BY DEF StartReport, WalkDone, ReportTrend, ReportSite, PassOver
<1>2. ASSUME IsReport', RankingMeets', \A t \in DOMAIN report'.trends : TrendHeld(t)'
      PROVE  TelemetryInv'
  BY <1>0, <1>1, <1>2 DEF TelemetryInv, TelemetryTypes, DomainFirst, HistoryIsLast
<1>3. CASE StartReport
  <2>1. /\ IsReport' /\ report'.trends = <<>> /\ report'.counts = <<>>
    BY <1>3 DEF StartReport, NoReport, IsReport
  <2>2. QED
    BY <1>2, <2>1 DEF RankingMeets
<1>4. ASSUME IsReport', report'.trends = report.trends, report'.counts = report.counts,
             report'.named = report.named, report'.scored = report.scored,
             report'.at \in {"off", "trends"} => report.at \in {"off", "trends"}
      PROVE  TelemetryInv'
  <2>1. RankingMeets' /\ \A t \in DOMAIN report'.trends : TrendHeld(t)'
    BY <1>0, <1>1, <1>4 DEF RankingMeets, TrendHeld
  <2>2. QED
    BY <1>2, <1>4, <2>1
<1>5. CASE WalkDone
  <2>1. /\ IsReport' /\ report'.trends = report.trends /\ report'.counts = report.counts
        /\ report'.named = report.named /\ report'.scored = report.scored
        /\ report'.at \notin {"off", "trends"}
    BY <1>0, <1>5 DEF WalkDone, IsReport
  <2>2. QED
    BY <1>4, <2>1
<1>6. ASSUME NEW s \in Site, PassOver(s) PROVE TelemetryInv'
  <2>1. /\ IsReport' /\ report'.trends = report.trends /\ report'.counts = report.counts
        /\ report'.named = report.named /\ report'.scored = report.scored
        /\ report'.at = report.at
    BY <1>0, <1>6 DEF PassOver, IsReport
  <2>2. QED
    BY <1>4, <2>1
<1>7. ASSUME NEW s \in Site, ReportTrend(s) PROVE TelemetryInv'
  <2>1. PICK trends : trends =
            [t \in DOMAIN report.trends \cup {s} |->
                IF t = s THEN [history |-> quality_history[s], at |-> Len(recorded[s])]
                ELSE report.trends[t]]
    OBVIOUS
  <2>2. /\ report.at = "trends" /\ s \in Scored
        /\ report' = [report EXCEPT !.todo = report.todo \ {s}, !.trends = trends,
              !.named = IF s \in site_domains THEN report.named \cup {s} ELSE report.named]
    BY <1>7, <2>1 DEF ReportTrend
  <2>3. /\ IsReport' /\ report'.at = report.at /\ report'.counts = report.counts
        /\ report'.scored = report.scored /\ report'.trends = trends
        /\ report'.named = IF s \in site_domains THEN report.named \cup {s} ELSE report.named
    BY <1>0, <2>2 DEF IsReport
  <2>4. RankingMeets'
    BY <1>0, <2>2, <2>3 DEF RankingMeets
  <2>5. /\ DOMAIN trends = DOMAIN report.trends \cup {s}
        /\ trends[s].history = quality_history[s] /\ trends[s].at = Len(recorded[s])
        /\ \A t \in DOMAIN report.trends : t # s => trends[t] = report.trends[t]
    BY <2>1
  <2>6. /\ recorded[s] \in Seq(Score) /\ Len(recorded[s]) \in Nat
        /\ quality_history[s] = Kept(recorded[s], Len(recorded[s])) /\ quality_history[s] # <<>>
    BY <1>0, <2>2 DEF TelemetryTypes, HistoryIsLast, Scored
  <2>7. recorded[s] # <<>>
    <3>1. ASSUME recorded[s] = <<>> PROVE FALSE
      <4>1. Len(recorded[s]) = 0
        BY <3>1
      <4>2. Kept(recorded[s], 0) \in Seq(Score) /\ Len(Kept(recorded[s], 0)) = 0
        BY <2>6, <4>1, KeptIs, TelemetryAssumption
      <4>3. QED
        BY <2>6, <4>1, <4>2
    <3>2. QED
      BY <3>1
  <2>8. s \in site_domains /\ Len(recorded[s]) \in 1..Len(recorded[s])
    BY <1>0, <2>6, <2>7 DEF DomainFirst
  <2>9. \A t \in DOMAIN report'.trends : TrendHeld(t)'
    <3> TAKE t \in DOMAIN report'.trends
    <3>1. CASE t = s
      BY <1>1, <2>3, <2>5, <2>6, <2>8, <3>1 DEF TrendHeld
    <3>2. CASE t # s
      BY <1>0, <1>1, <2>3, <2>5, <3>2 DEF TrendHeld
    <3>3. QED
      BY <3>1, <3>2
  <2>10. QED
    BY <1>2, <2>3, <2>4, <2>9
<1>8. ASSUME NEW s \in Site, ReportSite(s) PROVE TelemetryInv'
  <2>1. PICK counts : counts =
            [t \in DOMAIN report.counts \cup {s} |->
                IF t = s THEN handshake_counts[s] ELSE report.counts[t]]
    OBVIOUS
  <2>2. /\ report.at = "sites"
        /\ report' = [report EXCEPT !.todo = report.todo \ {s}, !.counts = counts,
              !.named = IF s \in site_domains THEN report.named \cup {s} ELSE report.named \ {s},
              !.scored = IF s \in Scored THEN report.scored \cup {s} ELSE report.scored]
    BY <1>8, <2>1 DEF ReportSite
  <2>3. /\ IsReport' /\ report'.at = report.at /\ report'.trends = report.trends
        /\ report'.counts = counts
        /\ report'.named = IF s \in site_domains THEN report.named \cup {s} ELSE report.named \ {s}
        /\ report'.scored = IF s \in Scored THEN report.scored \cup {s} ELSE report.scored
    BY <1>0, <2>2 DEF IsReport
  <2>4. s \in DOMAIN report.trends => s \in Scored /\ s \in site_domains
    BY TrendIsScored
  <2>5. DOMAIN counts = DOMAIN report.counts \cup {s}
    BY <2>1
  <2>6. RankingMeets'
    BY <1>0, <2>2, <2>3, <2>4, <2>5 DEF RankingMeets
  <2>7. \A t \in DOMAIN report'.trends : TrendHeld(t)'
    BY <1>0, <1>1, <2>3, <2>4 DEF TrendHeld
  <2>8. QED
    BY <1>2, <2>3, <2>6, <2>7
<1>9. QED
  BY <1>3, <1>5, <1>6, <1>7, <1>8

\* The invariant of the telemetry, for every number of handshakes and sites, every
\* cap of the history and every order in which a report and the handshakes go on.
THEOREM TelemetryInvariant == TelemetrySpec => []TelemetryInv
<1>1. ASSUME TelemetryInv, [TelemetryNext]_telemetryVars PROVE TelemetryInv'
  <2>1. CASE TelemetryNext
    BY <1>1, <2>1, ScoreKeeps, RecorderKeeps, ReportKeeps DEF TelemetryNext
  <2>2. CASE UNCHANGED telemetryVars
    BY <1>1, <2>2 DEF telemetryVars, TelemetryInv, TelemetryTypes, IsReport, DomainFirst, HistoryIsLast,
                      TrendHeld, RankingMeets
  <2>3. QED
    BY <1>1, <2>1, <2>2
<1>2. QED
  BY <1>1, TelemetryStart, PTL DEF TelemetrySpec

\* A report is of one piece beside the handshakes: its trends are the last scores up
\* to a moment of the report, each with its domain, and the ranking has a domain and a
\* score for every site with a trend (record_quality_score, report).
THEOREM WholeReport == TelemetrySpec => []ReportIsWhole
<1>1. ASSUME TelemetryInv PROVE ReportIsWhole
  <2>1. ASSUME NEW s \in DOMAIN report.trends
        PROVE  /\ s \in report.named
               /\ report.trends[s].history =
                    SubSeq(recorded[s], Max({1, report.trends[s].at - HistoryCap + 1}),
                           report.trends[s].at)
    BY <1>1, <2>1 DEF TelemetryInv, TrendHeld, Kept
  <2>2. ASSUME NEW top \in TopSites
        PROVE  top \cap DOMAIN report.trends \subseteq report.named \cap report.scored
    BY <1>1, <2>1, <2>2 DEF TelemetryInv, RankingMeets, TopSites
  <2>3. QED
    BY <2>1, <2>2 DEF ReportIsWhole
<1>2. QED
  BY <1>1, TelemetryInvariant, PTL

\* The handshakes of a site that have been counted.
CountedFor(s) == {r \in Recorder : recorder[r].at = "done" /\ recorder[r].site = s}

\* Each handshake is counted once for its site, and a report is about sites.
CountsAndSites ==
    /\ \A s \in Site : handshake_counts[s] = Cardinality(CountedFor(s))
    /\ report.at \in {"off", "trends", "sites", "done"}
    /\ report.todo \subseteq Site /\ DOMAIN report.counts \subseteq Site

\* Counting a handshake adds it to those of its site.
LEMMA CountKeeps ==
    ASSUME TelemetryInv, CountsAndSites, NEW r \in Recorder, RecordHandshake(r)
    PROVE  CountsAndSites'
<1>0. /\ recorder \in [Recorder -> Recording] /\ handshake_counts \in [Site -> Nat]
      /\ recorder[r].site \in Site
  BY DEF TelemetryInv, TelemetryTypes, RecordHandshake
<1>1. PICK s \in Site : s = recorder[r].site
  BY <1>0
<1>2. /\ recorder[r].at = "count" /\ recorder' = [recorder EXCEPT ![r].at = "done"]
      /\ handshake_counts' = [handshake_counts EXCEPT ![s] = @ + 1] /\ report' = report
  BY <1>1 DEF RecordHandshake
<1>3. \A q \in Recorder : recorder'[q].site = recorder[q].site
                          /\ (recorder'[q].at = "done" <=> q = r \/ recorder[q].at = "done")
  BY <1>0, <1>2 DEF Recording
<1>4. CountedFor(s)' = CountedFor(s) \cup {r} /\ r \notin CountedFor(s)
  BY <1>1, <1>2, <1>3 DEF CountedFor
<1>5. \A t \in Site : t # s => CountedFor(t)' = CountedFor(t)
  BY <1>1, <1>3 DEF CountedFor
<1>6. CountedFor(s) \in SUBSET Recorder /\ IsFiniteSet(CountedFor(s))
  BY TelemetryAssumption, FS_Subset DEF CountedFor
<1>7. Cardinality(CountedFor(s) \cup {r}) = Cardinality(CountedFor(s)) + 1
  BY <1>4, <1>6, FS_AddElement
<1>8. handshake_counts[s] = Cardinality(CountedFor(s))
      /\ \A t \in Site : t # s => handshake_counts[t] = Cardinality(CountedFor(t))
  BY DEF CountsAndSites
<1>9. handshake_counts'[s] = Cardinality(CountedFor(s)')
  BY <1>0, <1>2, <1>4, <1>7, <1>8
<1>10. \A t \in Site : t # s => handshake_counts'[t] = Cardinality(CountedFor(t)')
  BY <1>0, <1>2, <1>5, <1>8
<1>11. QED
  BY <1>2, <1>9, <1>10 DEF CountsAndSites

\* The types of the telemetry: a count of a site is one of handshakes, and a report names
\* no other sites (record_handshake, report).
THEOREM TelemetryTypeCorrect == TelemetrySpec => []TelemetryTypeOK
<1>1. ASSUME TelemetryInit PROVE CountsAndSites
  <2>1. \A s \in Site : CountedFor(s) = {}
    BY <1>1 DEF TelemetryInit, CountedFor
  <2>2. /\ report = [at |-> "off", todo |-> {}, trends |-> <<>>, counts |-> <<>>, named |-> {},
                     scored |-> {}]
        /\ \A s \in Site : handshake_counts[s] = 0
    BY <1>1 DEF TelemetryInit, NoReport
  <2>3. report.at = "off" /\ report.todo = {} /\ DOMAIN report.counts = {}
    BY <2>2
  <2>4. \A s \in Site : handshake_counts[s] = Cardinality(CountedFor(s))
    BY <2>1, <2>2, FS_EmptySet
  <2>5. QED
    BY <2>3, <2>4 DEF CountsAndSites
<1>2. ASSUME TelemetryInv, CountsAndSites, [TelemetryNext]_telemetryVars PROVE CountsAndSites'
  <2>0. recorder \in [Recorder -> Recording] /\ IsReport
    BY <1>2 DEF TelemetryInv, TelemetryTypes
  <2>1. ASSUME NEW r \in Recorder, Begin(r) \/ RecordDomain(r) \/ RecordScore(r)
        PROVE  CountsAndSites'
    <3>1. /\ handshake_counts' = handshake_counts /\ report' = report
          /\ \A q \in Recorder \ {r} : recorder'[q] = recorder[q]
          /\ recorder[r].at # "done" /\ recorder'[r].at # "done"
      BY <2>0, <2>1 DEF Begin, RecordDomain, RecordScore, Recording
    <3>2. \A s \in Site : CountedFor(s)' = CountedFor(s)
      BY <3>1 DEF CountedFor
    <3>3. QED
      BY <1>2, <3>1, <3>2 DEF CountsAndSites
  <2>2. ASSUME NEW r \in Recorder, RecordHandshake(r) PROVE CountsAndSites'
    BY <1>2, <2>2, CountKeeps
  <2>3. ASSUME UNCHANGED <<handshake_counts, recorder>>,
               report'.at \in {"off", "trends", "sites", "done"}, report'.todo \subseteq Site,
               DOMAIN report'.counts \subseteq Site
        PROVE  CountsAndSites'
    BY <1>2, <2>3 DEF CountsAndSites, CountedFor
  <2>4. CASE StartReport
    BY <2>3, <2>4 DEF StartReport, NoReport
  <2>5. CASE WalkDone
    <3>1. /\ report'.at \in {"sites", "done"} /\ report'.todo \subseteq Site
          /\ report'.counts = report.counts
      BY <1>2, <2>0, <2>5 DEF WalkDone, IsReport, CountsAndSites
    <3>2. QED
      BY <1>2, <2>3, <2>5, <3>1 DEF WalkDone, CountsAndSites
  <2>6. ASSUME NEW s \in Site, ReportTrend(s) \/ PassOver(s) PROVE CountsAndSites'
    <3>1. /\ report'.at = report.at /\ report'.todo \subseteq report.todo
          /\ report'.counts = report.counts
      BY <2>0, <2>6 DEF ReportTrend, PassOver, IsReport
    <3>2. QED
      BY <1>2, <2>3, <2>6, <3>1 DEF ReportTrend, PassOver, CountsAndSites
  <2>7. ASSUME NEW s \in Site, ReportSite(s) PROVE CountsAndSites'
    <3>1. /\ report'.at = report.at /\ report'.todo \subseteq report.todo
          /\ DOMAIN report'.counts = DOMAIN report.counts \cup {s}
      BY <2>0, <2>7 DEF ReportSite, IsReport
    <3>2. QED
      BY <1>2, <2>3, <2>7, <3>1 DEF ReportSite, CountsAndSites
  <2>8. CASE UNCHANGED telemetryVars
    BY <1>2, <2>8 DEF telemetryVars, CountsAndSites, CountedFor
  <2>9. QED
    BY <1>2, <2>1, <2>2, <2>4, <2>5, <2>6, <2>7, <2>8 DEF TelemetryNext
<1>3. ASSUME TelemetryInv, CountsAndSites PROVE TelemetryTypeOK
  <2>1. ASSUME NEW s \in Site PROVE handshake_counts[s] \in 0..Cardinality(Recorder)
    <3>1. CountedFor(s) \in SUBSET Recorder
      BY DEF CountedFor
    <3>2. /\ Cardinality(CountedFor(s)) <= Cardinality(Recorder)
          /\ Cardinality(CountedFor(s)) \in Nat /\ Cardinality(Recorder) \in Nat
      BY <3>1, TelemetryAssumption, FS_Subset, FS_CardinalityType
    <3>3. QED
      BY <1>3, <3>2 DEF CountsAndSites
  <2>2. DOMAIN report.trends \subseteq Site
    BY <1>3 DEF TelemetryInv, TrendHeld
  <2>3. /\ site_domains \subseteq Site
        /\ \A s \in Site : quality_history[s] \in Seq(Score) /\ recorded[s] \in Seq(Score)
        /\ \A r \in Recorder : recorder[r].at \in {"idle", "domain", "score", "count", "done"}
    BY <1>3 DEF TelemetryInv, TelemetryTypes, Recording
  <2>4. QED
    BY <1>3, <2>1, <2>2, <2>3 DEF TelemetryTypeOK, CountsAndSites
<1>4. QED
  BY <1>1, <1>2, <1>3, TelemetryInvariant, PTL DEF TelemetrySpec

-----------------------------------------------------------------------------
(* The ring of the audit log.                                              *)

Slot == 0..(RingSize - 1)

\* A task has numbered the event and not stored it.
Held(e) == \E l \in Logger : holds[l] = e

RingTypes ==
    /\ buffer_index \in 0..MaxEvents
    /\ holds \in [Logger -> Event \cup {NoEvent}]
    /\ lapped \subseteq Event
    /\ DOMAIN buffer \subseteq Slot
    /\ buffer = [i \in DOMAIN buffer |-> buffer[i]]
    /\ \A i \in DOMAIN buffer :
          buffer[i] \in 0..(buffer_index - 1) /\ buffer[i] % RingSize = i

\* Each event is held by one task at most, which has its number.
OneHolds ==
    /\ \A l \in Logger : holds[l] < buffer_index
    /\ \A l, k \in Logger : l # k /\ holds[l] = holds[k] => holds[l] = NoEvent

\* The slot of a stored event has it, a later one, or one that was stored late.
SlotHolds(e) ==
    /\ e % RingSize \in DOMAIN buffer
    /\ buffer[e % RingSize] >= e \/ buffer[e % RingSize] \in lapped

RingInv ==
    /\ RingTypes /\ OneHolds
    /\ \A e \in 0..(buffer_index - 1) : ~Held(e) => SlotHolds(e)

\* Two events of one slot are a lap apart.
LEMMA LapApart ==
    ASSUME NEW a \in Nat, NEW b \in Nat, NEW n \in Nat \ {0}, a % n = b % n, a < b
    PROVE  a + n <= b
<1>1. PICK q \in Nat : q = a \div n
  OBVIOUS
<1>2. PICK r \in Nat : r = b \div n
  OBVIOUS
<1>3. PICK s \in Nat : s = a % n
  OBVIOUS
<1>4. a = n * q + s /\ b = n * r + s
  BY <1>1, <1>2, <1>3
<1>5. n * q < n * r
  BY <1>4
<1>6. q < r
  BY <1>5
<1>7. n * (q + 1) <= n * r
  BY <1>6
<1>8. n * (q + 1) = n * q + n
  OBVIOUS
<1>9. QED
  BY <1>4, <1>7, <1>8

\* A lap later is the same slot.
LEMMA NextLap ==
    ASSUME NEW a \in Nat, NEW n \in Nat \ {0}
    PROVE  (a + n) % n = a % n
<1>1. PICK q \in Nat : q = a \div n
  OBVIOUS
<1>2. PICK s \in 0..(n - 1) : s = a % n
  OBVIOUS
<1>3. PICK p \in Nat : p = (a + n) \div n
  OBVIOUS
<1>4. PICK r \in 0..(n - 1) : r = (a + n) % n
  OBVIOUS
<1>5. a = n * q + s
  BY <1>1, <1>2
<1>6. a + n = n * p + r
  BY <1>3, <1>4
<1>7. n * (q + 1) = n * q + n
  OBVIOUS
<1>8. ~(q + 1 < p)
  <2>1. ASSUME q + 1 < p PROVE FALSE
    <3>1. n * (q + 2) <= n * p /\ n * (q + 2) = n * q + n + n
      BY <2>1
    <3>2. QED
      BY <1>5, <1>6, <3>1
  <2>2. QED
    BY <2>1
<1>9. ~(p < q + 1)
  <2>1. ASSUME p < q + 1 PROVE FALSE
    <3>1. n * p <= n * q
      BY <2>1
    <3>2. QED
      BY <1>5, <1>6, <3>1
  <2>2. QED
    BY <2>1
<1>10. p = q + 1
  BY <1>8, <1>9
<1>11. n * p = n * q + n
  BY <1>7, <1>10
<1>12. r = s
  BY <1>5, <1>6, <1>11
<1>13. QED
  BY <1>2, <1>4, <1>12

\* The slot of an event.
LEMMA SlotOf ==
    ASSUME NEW a \in Nat
    PROVE  a % RingSize \in Slot /\ a % RingSize <= a /\ (a < RingSize => a % RingSize = a)
<1>1. \A n \in Nat \ {0} : a % n \in 0..(n - 1) /\ a % n <= a /\ (a < n => a % n = a)
  OBVIOUS
<1>2. QED
  BY <1>1, AuditAssumption DEF Slot

\* The invariant at the start.
LEMMA RingStart == ASSUME AuditInit PROVE RingInv
<1>1. buffer = <<>> /\ DOMAIN buffer = {} /\ buffer_index = 0 /\ lapped = {}
  BY DEF AuditInit
<1>2. \A l \in Logger : holds[l] = NoEvent
  BY DEF AuditInit
<1>3. buffer = [i \in DOMAIN buffer |-> buffer[i]]
  BY <1>1
<1>4. RingTypes
  BY <1>1, <1>3, AuditAssumption DEF RingTypes, AuditInit
<1>5. OneHolds
  BY <1>1, <1>2 DEF OneHolds, NoEvent
<1>6. QED
  BY <1>1, <1>4, <1>5 DEF RingInv

\* fetch_add: the event is held until it is stored.
LEMMA TakeKeeps ==
    ASSUME RingInv, NEW l \in Logger, TakeIndex(l)
    PROVE  RingInv'
<1>0. /\ RingTypes /\ OneHolds /\ MaxEvents \in Nat /\ buffer_index \in Nat
      /\ \A e \in 0..(buffer_index - 1) : ~Held(e) => SlotHolds(e)
  BY AuditAssumption DEF RingInv, RingTypes
<1>1. /\ holds[l] = NoEvent /\ buffer_index < MaxEvents /\ buffer_index' = buffer_index + 1
      /\ holds' = [holds EXCEPT ![l] = buffer_index] /\ buffer' = buffer /\ lapped' = lapped
  BY DEF TakeIndex
<1>2. holds'[l] = buffer_index /\ \A k \in Logger : k # l => holds'[k] = holds[k]
  BY <1>0, <1>1 DEF RingTypes
<1>3. RingTypes'
  <2>1. holds' \in [Logger -> Event \cup {NoEvent}]
    BY <1>0, <1>1 DEF RingTypes, Event
  <2>2. \A i \in DOMAIN buffer : buffer[i] \in 0..(buffer_index' - 1)
    BY <1>0, <1>1 DEF RingTypes
  <2>3. QED
    BY <1>0, <1>1, <2>1, <2>2 DEF RingTypes
<1>4. OneHolds'
  <2>1. \A k \in Logger : holds[k] < buffer_index /\ holds[k] \in Int
    BY <1>0 DEF OneHolds, RingTypes, Event, NoEvent
  <2>2. QED
    BY <1>0, <1>1, <1>2, <2>1 DEF OneHolds
<1>5. ASSUME NEW e \in 0..(buffer_index' - 1), ~Held(e)' PROVE SlotHolds(e)'
  <2>1. e # buffer_index /\ e \in 0..(buffer_index - 1) /\ e # NoEvent
    BY <1>0, <1>1, <1>2, <1>5 DEF Held, NoEvent
  <2>2. ~Held(e)
    BY <1>1, <1>2, <1>5, <2>1 DEF Held
  <2>3. QED
    BY <1>0, <1>1, <2>1, <2>2 DEF SlotHolds
<1>6. QED
  BY <1>3, <1>4, <1>5 DEF RingInv

\* insert: over an earlier event of the slot, or late.
LEMMA StoreKeeps ==
    ASSUME RingInv, NEW l \in Logger, Store(l)
    PROVE  RingInv'
<1>0. /\ RingTypes /\ OneHolds /\ MaxEvents \in Nat /\ RingSize \in Nat \ {0} /\ buffer_index \in Nat
      /\ \A f \in 0..(buffer_index - 1) : ~Held(f) => SlotHolds(f)
  BY AuditAssumption DEF RingInv, RingTypes
<1>1. PICK e \in Event : e = holds[l]
  BY <1>0 DEF RingTypes, Store
<1>2. e \in Nat /\ e \in 0..(buffer_index - 1)
  BY <1>0, <1>1 DEF Event, OneHolds
<1>3. PICK i \in Slot : i = e % RingSize
  BY <1>2, SlotOf
<1>4. /\ buffer_index' = buffer_index /\ buffer' = Inserted(buffer, i, e)
      /\ lapped' = IF StoredBefore(e) # {} THEN lapped \cup {e} ELSE lapped
      /\ holds' = [holds EXCEPT ![l] = NoEvent]
  BY <1>1, <1>3 DEF Store
<1>5. holds'[l] = NoEvent /\ \A k \in Logger : k # l => holds'[k] = holds[k]
  BY <1>0, <1>4 DEF RingTypes
<1>6. /\ DOMAIN buffer' = DOMAIN buffer \cup {i} /\ buffer'[i] = e
      /\ \A j \in DOMAIN buffer : j # i => buffer'[j] = buffer[j]
      /\ buffer' = [j \in DOMAIN buffer' |-> buffer'[j]]
  <2>1. PICK x : x = Inserted(buffer, i, e)
    OBVIOUS
  <2>2. /\ DOMAIN x = DOMAIN buffer \cup {i} /\ x[i] = e
        /\ \A j \in DOMAIN buffer : j # i => x[j] = buffer[j]
        /\ x = [j \in DOMAIN x |-> x[j]]
    BY ONLY <2>1 DEF Inserted
  <2>3. buffer' = x
    BY <1>4, <2>1
  <2>4. QED
    BY <2>2, <2>3
<1>7. RingTypes'
  <2>1. holds' \in [Logger -> Event \cup {NoEvent}]
    BY <1>0, <1>4 DEF RingTypes
  <2>2. lapped' \subseteq Event
    BY <1>0, <1>4 DEF RingTypes
  <2>3. \A j \in DOMAIN buffer' :
            buffer'[j] \in 0..(buffer_index' - 1) /\ buffer'[j] % RingSize = j
    BY <1>0, <1>2, <1>3, <1>4, <1>6 DEF RingTypes
  <2>4. DOMAIN buffer' \subseteq Slot
    BY <1>0, <1>6 DEF RingTypes
  <2>5. QED
    BY <1>0, <1>4, <1>6, <2>1, <2>2, <2>3, <2>4 DEF RingTypes
<1>8. OneHolds'
  BY <1>0, <1>4, <1>5 DEF OneHolds, NoEvent
<1>9. ASSUME NEW f \in 0..(buffer_index' - 1), ~Held(f)' PROVE SlotHolds(f)'
  <2>0. f \in 0..(buffer_index - 1)
    BY <1>4
  <2>1. CASE f = e
    BY <1>2, <1>3, <1>6, <2>1 DEF SlotHolds
  <2>2. CASE f # e
    <3>1. ~Held(f)
      BY <1>1, <1>5, <1>9, <2>2 DEF Held
    <3>2. SlotHolds(f)
      BY <1>0, <2>0, <3>1
    <3>3. CASE f % RingSize # i
      BY <1>4, <1>6, <3>2, <3>3 DEF SlotHolds
    <3>4. CASE f % RingSize = i /\ f < e
      BY <1>2, <1>6, <2>0, <3>4 DEF SlotHolds
    <3>5. CASE f % RingSize = i /\ f > e
      <4>1. f \in (e + 1)..(buffer_index - 1)
        BY <1>0, <1>2, <2>0, <3>5
      <4>2. f \in StoredBefore(e)
        BY <1>3, <3>1, <3>5, <4>1 DEF StoredBefore, Held
      <4>3. e \in lapped'
        BY <1>4, <4>2
      <4>4. QED
        BY <1>6, <3>5, <4>3 DEF SlotHolds
    <3>6. QED
      BY <1>2, <2>0, <2>2, <3>3, <3>4, <3>5
  <2>3. QED
    BY <2>1, <2>2
<1>10. QED
  BY <1>7, <1>8, <1>9 DEF RingInv

\* The invariant of the ring, for every number of tasks and events and every size.
THEOREM RingInvariant == AuditSpec => []RingInv
<1>1. ASSUME RingInv, [AuditNext]_auditVars PROVE RingInv'
  <2>1. CASE \E l \in Logger : TakeIndex(l) \/ Store(l)
    BY <1>1, <2>1, TakeKeeps, StoreKeeps
  <2>2. CASE UNCHANGED <<buffer_index, buffer, holds, lapped>>
    BY <1>1, <2>2 DEF RingInv, RingTypes, OneHolds, Held, SlotHolds
  <2>3. QED
    BY <1>1, <2>1, <2>2
       DEF AuditNext, auditVars, BeginInsert, CommitInsert, InsertFails, OpenLog, CountRows, QueryFails, ReadRows
<1>2. QED
  BY <1>1, RingStart, PTL DEF AuditSpec

\* Between events the ring is filled from its start, and its events are all different.
LEMMA RingFilled ==
    ASSUME RingInv, \A l \in Logger : holds[l] = NoEvent,
           NEW n, n = IF buffer_index < RingSize THEN buffer_index ELSE RingSize
    PROVE  n \in Nat /\ n <= RingSize /\ DOMAIN buffer = 0..(n - 1) /\ Cardinality(InRing) = n
<1>0. /\ buffer_index \in Nat /\ RingSize \in Nat \ {0} /\ RingTypes
      /\ \A e \in 0..(buffer_index - 1) : SlotHolds(e)
  <2>1. \A e \in 0..(buffer_index - 1) : ~Held(e)
    BY AuditAssumption DEF Held, NoEvent, RingInv, RingTypes
  <2>2. QED
    BY <2>1, AuditAssumption DEF RingInv, RingTypes
<1>1. n \in Nat /\ n <= RingSize /\ n <= buffer_index
  BY <1>0
<1>2. ASSUME NEW i \in 0..(n - 1) PROVE i \in DOMAIN buffer
  <2>1. i \in Nat /\ i < RingSize /\ i \in 0..(buffer_index - 1)
    BY <1>0, <1>1
  <2>2. i % RingSize = i
    BY <2>1, SlotOf
  <2>3. QED
    BY <1>0, <2>1, <2>2 DEF SlotHolds
<1>3. ASSUME NEW i \in DOMAIN buffer PROVE i \in 0..(n - 1)
  <2>1. i \in Slot /\ buffer[i] \in 0..(buffer_index - 1) /\ buffer[i] % RingSize = i
    BY <1>0 DEF RingTypes
  <2>2. i <= buffer[i]
    BY <1>0, <2>1, SlotOf
  <2>3. QED
    BY <1>0, <2>1, <2>2 DEF Slot
<1>4. DOMAIN buffer = 0..(n - 1)
  BY <1>2, <1>3
<1>5. buffer \in Bijection(DOMAIN buffer, InRing)
  <2>1. buffer \in [DOMAIN buffer -> InRing]
    BY <1>0 DEF RingTypes, InRing
  <2>2. \A i, j \in DOMAIN buffer : buffer[i] = buffer[j] => i = j
    BY <1>0 DEF RingTypes
  <2>3. \A e \in InRing : \E i \in DOMAIN buffer : buffer[i] = e
    BY DEF InRing
  <2>4. QED
    BY <2>1, <2>2, <2>3 DEF Bijection, Injection, Surjection, IsInjective
<1>6. IsFiniteSet(DOMAIN buffer) /\ Cardinality(DOMAIN buffer) = n
  <2>1. PICK b \in Int : b = n - 1
    BY <1>1
  <2>2. IsFiniteSet(0..b) /\ Cardinality(0..b) = IF 0 > b THEN 0 ELSE b - 0 + 1
    BY FS_Interval
  <2>3. (IF 0 > b THEN 0 ELSE b - 0 + 1) = n /\ DOMAIN buffer = 0..b
    BY <1>1, <1>4, <2>1
  <2>4. QED
    BY <2>2, <2>3
<1>7. Cardinality(InRing) = n
  BY <1>5, <1>6, FS_Bijection DEF ExistsBijection
<1>8. QED
  BY <1>1, <1>4, <1>7

\* The smaller of two.
LEMMA Smaller ==
    ASSUME NEW a \in Nat, NEW b \in Nat
    PROVE  Min({a, b}) = IF a < b THEN a ELSE b
<1>1. PICK m : m = IF a < b THEN a ELSE b
  OBVIOUS
<1>2. m \in {a, b} /\ \A y \in {a, b} : m <= y
  BY <1>1
<1>3. \A x \in {a, b} : (\A y \in {a, b} : x <= y) => x = m
  BY <1>1
<1>4. QED
  BY <1>1, <1>2, <1>3 DEF Min

\* Between events the ring has the last ones, but for those that an event took the slot
\* of that was stored a lap late, and recent_events returns all of it (log, recent_events).
THEOREM LastInRing == AuditSpec => []RingHoldsLast
<1>1. ASSUME RingInv, \A l \in Logger : holds[l] = NoEvent
      PROVE  /\ \A e \in LastEvents \ InRing : \E d \in lapped : d < e /\ d % RingSize = e % RingSize
             /\ InRing \subseteq LastEvents \cup lapped
             /\ \A s \in RecentEvents(RingSize) : Len(s) = Min({buffer_index, RingSize})
  <2>0. /\ buffer_index \in 0..MaxEvents /\ MaxEvents \in Nat /\ RingSize \in Nat \ {0} /\ RingTypes
        /\ \A e \in 0..(buffer_index - 1) : SlotHolds(e)
    <3>1. \A e \in 0..(buffer_index - 1) : ~Held(e)
      BY <1>1 DEF Held, NoEvent, RingInv, RingTypes
    <3>2. QED
      BY <1>1, <3>1, AuditAssumption DEF RingInv, RingTypes
  <2>1. \A i \in DOMAIN buffer : /\ buffer[i] \in Nat /\ buffer[i] < buffer_index
                                 /\ buffer[i] % RingSize = i /\ buffer[i] \in Event
    BY <2>0 DEF RingTypes, Event
  <2>2. ASSUME NEW e \in LastEvents \ InRing
        PROVE  \E d \in lapped : d < e /\ d % RingSize = e % RingSize
    <3>1. /\ e \in Nat /\ e \in 0..(buffer_index - 1) /\ buffer_index - RingSize <= e
      BY <2>0 DEF LastEvents, Event
    <3>2. PICK i \in DOMAIN buffer : i = e % RingSize /\ (buffer[i] >= e \/ buffer[i] \in lapped)
      BY <2>0, <3>1 DEF SlotHolds
    <3>3. buffer[i] # e
      BY <2>2 DEF InRing
    <3>4. ~(buffer[i] > e)
      <4>1. ASSUME buffer[i] > e PROVE FALSE
        <5>1. e + RingSize <= buffer[i]
          BY <2>0, <2>1, <3>1, <3>2, <4>1, LapApart
        <5>2. QED
          BY <2>0, <2>1, <3>1, <5>1
      <4>2. QED
        BY <4>1
    <3>5. QED
      BY <2>1, <3>1, <3>2, <3>3, <3>4
  <2>3. ASSUME NEW e \in InRing, e \notin LastEvents PROVE e \in lapped
    <3>1. PICK i \in DOMAIN buffer : e = buffer[i]
      BY DEF InRing
    <3>2. e \in Nat /\ e + RingSize < buffer_index /\ e % RingSize = i
      BY <2>0, <2>1, <2>3, <3>1 DEF LastEvents
    <3>3. (e + RingSize) % RingSize = i /\ e + RingSize \in 0..(buffer_index - 1)
      <4>1. (e + RingSize) % RingSize = e % RingSize
        BY <2>0, <3>2, NextLap
      <4>2. QED
        BY <2>0, <3>2, <4>1
    <3>4. SlotHolds(e + RingSize)
      BY <2>0, <3>3
    <3>5. buffer[i] >= e + RingSize \/ buffer[i] \in lapped
      BY <3>3, <3>4 DEF SlotHolds
    <3>6. ~(buffer[i] >= e + RingSize)
      BY <2>0, <3>1, <3>2
    <3>7. QED
      BY <3>1, <3>5, <3>6
  <2>4. ASSUME NEW s \in RecentEvents(RingSize) PROVE Len(s) = Min({buffer_index, RingSize})
    <3>1. PICK n : n = IF buffer_index < RingSize THEN buffer_index ELSE RingSize
      OBVIOUS
    <3>2. n \in Nat /\ n <= RingSize /\ Cardinality(InRing) = n
      BY <1>1, <3>1, RingFilled
    <3>3. PICK t \in SetToSeqs(InRing) : s = SubSeq(t, 1, IF RingSize < Len(t) THEN RingSize ELSE Len(t))
      BY <2>4 DEF RecentEvents, InRing
    <3>4. t \in [1..n -> InRing]
      BY <3>2, <3>3 DEF SetToSeqs
    <3>5. t \in Seq(InRing) /\ Len(t) = n
      BY <3>2, <3>4
    <3>6. s = SubSeq(t, 1, Len(t))
      BY <2>0, <3>2, <3>3, <3>5
    <3>7. s = t
      BY <3>5, <3>6, SubSeqFull
    <3>8. QED
      BY <2>0, <3>1, <3>5, <3>7, Smaller
  <2>5. QED
    BY <2>2, <2>3, <2>4
<1>2. RingInv => RingHoldsLast
  BY <1>1 DEF RingHoldsLast
<1>3. QED
  BY RingInvariant, <1>2, PTL
-----------------------------------------------------------------------------
(* The table of the audit log, and the reader of its pages.                *)

RowTypes ==
    /\ insertion \in [Event -> {"none", "spawned", "open", "row", "lost"}]
    /\ created_at \in [Event -> 0..MaxEvents]

ReaderTypes ==
    reader \in [at: {"off", "count", "rows", "done"}, page: Nat \ {0}, total: Nat,
                floor: SUBSET Event, seen: SUBSET Event, short: BOOLEAN]

\* An event has no stamp before its INSERT begins; it has no insertion before it is
\* stored.
StampsTell ==
    /\ \A e \in Event : e >= buffer_index \/ Held(e) => insertion[e] = "none"
    /\ \A e \in Event : insertion[e] \in {"none", "spawned"} => created_at[e] = 0

\* The rows with a later created_at, which come before e in any order.
Newer(e) == {d \in Rows : created_at[d] > created_at[e]}

\* No row has the created_at of e but e.
Untied(e) == \A d \in Rows \ {e} : created_at[d] # created_at[e]

\* What the reader has still to see is not before the page that comes next, unless it
\* may change places with another row.
ReadsOn ==
    /\ ~reader.short
    /\ reader.at = "off" => reader.page = 1
    /\ reader.at # "off" => reader.floor \subseteq Rows
    /\ reader.at \in {"count", "rows"} =>
          \A e \in reader.floor \ reader.seen :
              Untied(e) => Offset(reader.page) <= Cardinality(Newer(e))
    /\ reader.at = "rows" => reader.total <= Cardinality(Rows)
    /\ reader.at = "done" => \A e \in reader.floor \ reader.seen : ~Untied(e)

PagingInv == RowTypes /\ ReaderTypes /\ StampsTell /\ ReadsOn

\* Any set of events is finite.
LEMMA FiniteEvents == \A S \in SUBSET Event : IsFiniteSet(S) /\ Cardinality(S) \in Nat
<1>1. IsFiniteSet(Event)
  <2>1. MaxEvents - 1 \in Int /\ 0 \in Int
    BY AuditAssumption
  <2>2. QED
    BY <2>1, FS_Interval DEF Event
<1>2. QED
  BY <1>1, FS_Subset, FS_CardinalityType

\* As many rows have their places in an interval as it has places.
LEMMA PlacesFilled ==
    ASSUME NEW place \in Orders, NEW n \in Nat, n = Cardinality(Rows),
           NEW a \in Nat \ {0}, NEW b \in Int, b <= n
    PROVE  Cardinality({e \in Rows : place[e] \in a..b}) = IF a > b THEN 0 ELSE b - a + 1
<1> DEFINE data == {e \in Rows : place[e] \in a..b}
<1>1. place \in Bijection(Rows, 1..n)
  BY DEF Orders
<1>2. a..b \subseteq 1..n
  OBVIOUS
<1>3. [e \in data |-> place[e]] \in Bijection(data, a..b)
  <2>1. [e \in data |-> place[e]] \in [data -> a..b]
    OBVIOUS
  <2>2. \A d, e \in data : place[d] = place[e] => d = e
    BY <1>1 DEF Bijection, Injection, IsInjective
  <2>3. \A i \in a..b : \E e \in data : place[e] = i
    BY <1>1, <1>2 DEF Bijection, Surjection
  <2>4. QED
    BY <2>1, <2>2, <2>3 DEF Bijection, Injection, Surjection, IsInjective
<1>4. IsFiniteSet(data)
  BY FiniteEvents DEF Rows
<1>5. Cardinality(data) = Cardinality(a..b)
  BY <1>3, <1>4, FS_Bijection DEF ExistsBijection
<1>6. Cardinality(a..b) = IF a > b THEN 0 ELSE b - a + 1
  BY FS_Interval
<1>7. QED
  BY <1>5, <1>6

\* A row with a created_at of its own has the place that the newer rows leave it.
LEMMA UntiedPlace ==
    ASSUME RowTypes, NEW place \in Orders, NEW e \in Rows, Untied(e)
    PROVE  /\ Cardinality(Newer(e)) \in Nat
           /\ place[e] = Cardinality(Newer(e)) + 1 /\ place[e] <= Cardinality(Rows)
<1>1. PICK n \in Nat : n = Cardinality(Rows)
  BY FiniteEvents DEF Rows
<1>2. /\ place \in Bijection(Rows, 1..n)
      /\ \A c, d \in Rows : created_at[c] > created_at[d] => place[c] < place[d]
      /\ \A d \in Rows : created_at[d] \in Nat
  BY <1>1 DEF Orders, RowTypes, Rows
<1>3. \A d \in Rows : place[d] \in 1..n
  BY <1>2 DEF Bijection, Injection
<1>4. Newer(e) = {d \in Rows : place[d] \in 1..(place[e] - 1)}
  <2>1. ASSUME NEW d \in Rows
        PROVE  created_at[d] > created_at[e] <=> place[d] \in 1..(place[e] - 1)
    <3>1. CASE d = e
      BY <1>2, <1>3, <3>1
    <3>2. CASE d # e
      <4>1. created_at[d] # created_at[e]
        BY <3>2 DEF Untied
      <4>2. CASE created_at[d] > created_at[e]
        BY <1>2, <1>3, <4>2
      <4>3. CASE created_at[e] > created_at[d]
        BY <1>2, <1>3, <4>3
      <4>4. QED
        BY <1>2, <4>1, <4>2, <4>3
    <3>3. QED
      BY <3>1, <3>2
  <2>2. QED
    BY <2>1 DEF Newer
<1>5. place[e] \in Nat /\ place[e] >= 1 /\ place[e] <= n
  BY <1>3
<1>6. Cardinality(Newer(e)) = IF 1 > place[e] - 1 THEN 0 ELSE place[e] - 1 - 1 + 1
  BY <1>1, <1>4, <1>5, PlacesFilled
<1>7. QED
  BY <1>1, <1>5, <1>6

\* A page has all rows from its offset on, or is full.
LEMMA PageIsFull ==
    ASSUME NEW place \in Orders, NEW a \in Nat, NEW n \in Nat, n = Cardinality(Rows),
           NEW data, data = {e \in Rows : place[e] \in (a + 1)..(a + PerPage)}
    PROVE  /\ Cardinality(data) \in Nat
           /\ Cardinality(data) < PerPage => n < a + PerPage
           /\ a + Cardinality(data) >= n \/ a + Cardinality(data) >= a + PerPage
<1>1. PerPage \in Nat \ {0}
  BY AuditAssumption
<1>2. PICK b \in Int : b = IF a + PerPage < n THEN a + PerPage ELSE n
  BY <1>1
<1>3. place \in Bijection(Rows, 1..n)
  BY DEF Orders
<1>4. data = {e \in Rows : place[e] \in (a + 1)..b}
  BY <1>1, <1>2, <1>3 DEF Bijection, Injection
<1>5. Cardinality(data) = IF a + 1 > b THEN 0 ELSE b - (a + 1) + 1
  <2>1. a + 1 \in Nat \ {0} /\ b <= n
    BY <1>1, <1>2
  <2>2. QED
    BY <1>4, <2>1, PlacesFilled
<1>6. QED
  BY <1>1, <1>2, <1>5

\* As long as rows stay, nobody with a stamp of its own gets less far down.
LEMMA RowsOnlyGrow ==
    ASSUME RowTypes, ReadsOn, ReaderTypes, RowTypes', reader' = reader, Rows \subseteq Rows',
           \A e \in Rows : created_at'[e] = created_at[e]
    PROVE  ReadsOn'
<1>1. ASSUME NEW e \in Rows PROVE Cardinality(Newer(e)) <= Cardinality(Newer(e)')
  <2>1. Newer(e) \subseteq Newer(e)'
    BY DEF Newer
  <2>2. Newer(e)' \subseteq Event
    BY DEF Newer, Rows
  <2>3. QED
    BY <2>1, <2>2, FiniteEvents, FS_Subset
<1>2. Cardinality(Rows) <= Cardinality(Rows')
  <2>1. Rows' \subseteq Event
    BY DEF Rows
  <2>2. QED
    BY <2>1, FiniteEvents, FS_Subset
<1>3. Cardinality(Rows) \in Nat /\ Cardinality(Rows') \in Nat /\ \A e \in Rows :
          Cardinality(Newer(e)) \in Nat /\ Cardinality(Newer(e)') \in Nat
  BY FiniteEvents DEF Rows, Newer
<1>4. \A e \in Rows : Untied(e)' => Untied(e)
  BY DEF Untied
<1>5. Offset(reader.page)' = Offset(reader.page) /\ Offset(reader.page) \in Int
      /\ reader.total \in Nat
  BY AuditAssumption DEF Offset, ReaderTypes
<1>6. reader.at # "off" => reader.floor \subseteq Rows'
  BY DEF ReadsOn
<1>7. reader.at \in {"count", "rows"} =>
          \A e \in reader.floor \ reader.seen :
              Untied(e)' => Offset(reader.page) <= Cardinality(Newer(e)')
  BY <1>1, <1>3, <1>4, <1>5 DEF ReadsOn
<1>8. reader.at = "rows" => reader.total <= Cardinality(Rows')
  BY <1>2, <1>3, <1>5 DEF ReadsOn
<1>9. reader.at = "done" => \A e \in reader.floor \ reader.seen : ~Untied(e)'
  BY <1>4 DEF ReadsOn
<1>10. QED
  BY <1>5, <1>6, <1>7, <1>8, <1>9 DEF ReadsOn

\* fetch_add and the spawn of the insertion give no event a row.
LEMMA LogKeepsRows ==
    ASSUME RingInv, PagingInv, NEW l \in Logger, TakeIndex(l) \/ Store(l)
    PROVE  PagingInv'
<1>0. /\ RowTypes /\ ReaderTypes /\ StampsTell /\ ReadsOn /\ RingTypes /\ OneHolds
      /\ buffer_index \in Nat /\ reader' = reader /\ created_at' = created_at
  BY AuditAssumption DEF PagingInv, RingInv, RingTypes, TakeIndex, Store
<1>1. CASE TakeIndex(l)
  <2>1. /\ insertion' = insertion /\ buffer_index' = buffer_index + 1
        /\ holds' = [holds EXCEPT ![l] = buffer_index]
    BY <1>1 DEF TakeIndex
  <2>2. ASSUME NEW e \in Event, e >= buffer_index' \/ Held(e)' PROVE insertion'[e] = "none"
    <3>1. e >= buffer_index \/ Held(e)
      BY <1>0, <2>1, <2>2 DEF Held, RingTypes, Event
    <3>2. QED
      BY <1>0, <2>1, <3>1 DEF StampsTell
  <2>3. RowTypes' /\ ReaderTypes' /\ ReadsOn'
    BY <1>0, <2>1 DEF RowTypes, ReaderTypes, ReadsOn, Rows, Newer, Untied, Offset
  <2>4. StampsTell'
    BY <1>0, <2>1, <2>2 DEF StampsTell
  <2>5. QED
    BY <2>3, <2>4 DEF PagingInv
<1>2. CASE Store(l)
  <2>1. PICK f \in Event : f = holds[l]
    BY <1>0, <1>2 DEF Store, RingTypes
  <2>2. /\ buffer_index' = buffer_index /\ holds' = [holds EXCEPT ![l] = NoEvent]
        /\ insertion' = insertion \/ insertion' = [insertion EXCEPT ![f] = "spawned"]
    BY <1>2, <2>1 DEF Store
  <2>3. insertion[f] = "none" /\ created_at[f] = 0
    BY <1>0, <2>1 DEF StampsTell, Held
  <2>4. ASSUME NEW e \in Event, e >= buffer_index' \/ Held(e)' PROVE insertion'[e] = "none"
    <3>1. e >= buffer_index \/ Held(e)
      BY <1>0, <2>2, <2>4 DEF Held, RingTypes, Event, NoEvent
    <3>2. e # f
      <4>1. CASE e >= buffer_index
        BY <1>0, <2>1, <4>1 DEF OneHolds, Event
      <4>2. CASE Held(e)'
        <5>1. PICK k \in Logger : holds'[k] = e
          BY <4>2 DEF Held
        <5>2. k # l /\ holds[k] = e
          BY <1>0, <2>2, <5>1 DEF RingTypes, Event, NoEvent
        <5>3. e # NoEvent
          BY DEF Event, NoEvent
        <5>4. QED
          BY <1>0, <2>1, <5>2, <5>3 DEF OneHolds
      <4>3. QED
        BY <2>2, <2>4, <4>1, <4>2
    <3>3. QED
      BY <1>0, <2>2, <3>1, <3>2 DEF StampsTell, RowTypes
  <2>5. RowTypes'
    BY <1>0, <2>2 DEF RowTypes
  <2>6. \A e \in Event : /\ insertion'[e] \in {"none", "spawned"} => insertion[e] \in {"none", "spawned"}
                         /\ insertion'[e] \in {"open", "row"} <=> insertion[e] \in {"open", "row"}
                         /\ insertion'[e] = "row" <=> insertion[e] = "row"
    BY <1>0, <2>2, <2>3 DEF RowTypes
  <2>7. Rows' = Rows
    BY <2>6 DEF Rows
  <2>8. StampsTell'
    BY <1>0, <2>4, <2>6 DEF StampsTell
  <2>9. ReaderTypes' /\ ReadsOn'
    BY <1>0, <2>5, <2>7, RowsOnlyGrow DEF ReaderTypes
  <2>10. QED
    BY <2>5, <2>8, <2>9 DEF PagingInv
<1>3. QED
  BY <1>1, <1>2

\* An insertion begins with a stamp, and ends with its row or without.
LEMMA InsertKeepsRows ==
    ASSUME PagingInv, NEW e \in Event, BeginInsert(e) \/ CommitInsert(e) \/ InsertFails(e)
    PROVE  PagingInv'
<1>0. /\ RowTypes /\ ReaderTypes /\ StampsTell /\ ReadsOn /\ reader' = reader
      /\ buffer_index' = buffer_index /\ holds' = holds
  BY DEF PagingInv, BeginInsert, CommitInsert, InsertFails
<1>1. /\ insertion[e] \in {"spawned", "open"}
      /\ \A d \in Event : d >= buffer_index' \/ Held(d)' => d # e
  BY <1>0 DEF BeginInsert, CommitInsert, InsertFails, StampsTell, Held
<1>2. CASE BeginInsert(e)
  <2>1. PICK t \in 1..MaxEvents : created_at' = [created_at EXCEPT ![e] = t]
    BY <1>2 DEF BeginInsert, Stamps
  <2>2. insertion[e] = "spawned" /\ insertion' = [insertion EXCEPT ![e] = "open"]
    BY <1>2 DEF BeginInsert
  <2>3. RowTypes'
    <3>1. t \in 0..MaxEvents
      BY AuditAssumption
    <3>2. QED
      BY <1>0, <2>1, <2>2, <3>1 DEF RowTypes
  <2>4. /\ insertion'[e] = "open"
        /\ \A d \in Event : d # e => created_at'[d] = created_at[d] /\ insertion'[d] = insertion[d]
    BY <1>0, <2>1, <2>2 DEF RowTypes
  <2>5. Rows' = Rows /\ e \notin Rows
    BY <2>2, <2>4 DEF Rows
  <2>6. StampsTell'
    <3>1. \A d \in Event : insertion'[d] \in {"none", "spawned"} => created_at'[d] = 0
      BY <1>0, <2>4 DEF StampsTell
    <3>2. \A d \in Event : d >= buffer_index' \/ Held(d)' => insertion'[d] = "none"
      BY <1>0, <1>1, <2>4 DEF StampsTell, Held
    <3>3. QED
      BY <3>1, <3>2 DEF StampsTell
  <2>7. ReaderTypes' /\ ReadsOn'
    <3>1. \A d \in Rows : created_at'[d] = created_at[d]
      BY <2>4, <2>5 DEF Rows
    <3>2. QED
      BY <1>0, <2>3, <2>5, <3>1, RowsOnlyGrow DEF ReaderTypes
  <2>8. QED
    BY <2>3, <2>6, <2>7 DEF PagingInv
<1>3. CASE CommitInsert(e) \/ InsertFails(e)
  <2>1. PICK v \in {"row", "lost"} : /\ insertion' = [insertion EXCEPT ![e] = v]
                                     /\ v = "row" => insertion[e] = "open"
    BY <1>3 DEF CommitInsert, InsertFails
  <2>2. created_at' = created_at
    BY <1>3 DEF CommitInsert, InsertFails
  <2>3. insertion'[e] = v /\ \A d \in Event : d # e => insertion'[d] = insertion[d]
    BY <1>0, <2>1 DEF RowTypes
  <2>4. RowTypes'
    BY <1>0, <2>1, <2>2 DEF RowTypes
  <2>5. Rows \subseteq Rows'
    BY <1>1, <2>3 DEF Rows
  <2>6. StampsTell'
    <3>1. \A d \in Event : insertion'[d] \in {"none", "spawned"} => created_at'[d] = 0
      BY <1>0, <2>2, <2>3 DEF StampsTell
    <3>2. \A d \in Event : d >= buffer_index' \/ Held(d)' => insertion'[d] = "none"
      BY <1>0, <1>1, <2>3 DEF StampsTell, Held
    <3>3. QED
      BY <3>1, <3>2 DEF StampsTell
  <2>7. ReaderTypes' /\ ReadsOn'
    BY <1>0, <2>2, <2>4, <2>5, RowsOnlyGrow DEF ReaderTypes
  <2>8. QED
    BY <2>4, <2>6, <2>7 DEF PagingInv
<1>4. QED
  BY <1>2, <1>3

\* The reader of the list, after each of its steps.
LEMMA ReaderRecords ==
    ASSUME ReaderTypes, NEW at \in {"off", "count", "rows", "done"}, NEW p \in Nat \ {0},
           NEW m \in Nat, NEW old \in SUBSET Event, NEW all \in SUBSET Event, NEW b \in BOOLEAN,
           NEW r, \/ r = [reader EXCEPT !.at = at, !.floor = old]
                  \/ r = [reader EXCEPT !.at = at, !.total = m]
                  \/ r = [reader EXCEPT !.at = at]
                  \/ r = [reader EXCEPT !.seen = all, !.short = b, !.at = at, !.page = p]
    PROVE  r \in [at: {"off", "count", "rows", "done"}, page: Nat \ {0}, total: Nat,
                  floor: SUBSET Event, seen: SUBSET Event, short: BOOLEAN]
BY DEF ReaderTypes

\* The reader takes the next page when this one is full, and has all when it is not.
LEMMA ReaderReadsOn ==
    ASSUME PagingInv, OpenLog \/ CountRows \/ QueryFails \/ ReadRows
    PROVE  PagingInv'
<1>0. /\ RowTypes /\ ReaderTypes /\ StampsTell /\ ReadsOn /\ PerPage \in Nat \ {0}
  BY AuditAssumption DEF PagingInv
<1>1. UNCHANGED <<buffer_index, holds, insertion, created_at>>
  BY DEF OpenLog, CountRows, QueryFails, ReadRows
<1>2. RowTypes' /\ StampsTell' /\ Rows' = Rows
      /\ \A e : Newer(e)' = Newer(e) /\ (Untied(e)' <=> Untied(e))
  BY <1>0, <1>1 DEF RowTypes, StampsTell, Held, Rows, Newer, Untied
<1>3. /\ reader.page \in Nat \ {0} /\ reader.total \in Nat /\ reader.short \in BOOLEAN
      /\ reader.floor \subseteq Event /\ reader.seen \subseteq Event
  BY <1>0 DEF ReaderTypes
<1>4. IsFiniteSet(Rows) /\ Cardinality(Rows) \in Nat /\ Rows \subseteq Event
  BY FiniteEvents DEF Rows
<1>5. CASE OpenLog
  <2>1. reader.at = "off" /\ reader.page = 1 /\ reader' = [reader EXCEPT !.at = "count", !.floor = Rows]
    BY <1>0, <1>5 DEF OpenLog, ReadsOn
  <2>2. ReaderTypes'
    BY <1>0, <1>4, <2>1, ReaderRecords DEF ReaderTypes
  <2>3. /\ reader'.at = "count" /\ reader'.floor = Rows /\ reader'.seen = reader.seen
        /\ reader'.page = 1 /\ reader'.short = reader.short
    BY <1>0, <2>1 DEF ReaderTypes
  <2>4. \A e \in Rows : Cardinality(Newer(e)) >= 0
    BY FiniteEvents DEF Newer, Rows
  <2>5. Offset(1) = 0
    BY <1>0 DEF Offset
  <2>6. ReadsOn'
    <3>1. \A e \in reader'.floor \ reader'.seen : Offset(reader'.page) <= Cardinality(Newer(e))
      BY <2>3, <2>4, <2>5
    <3>2. QED
      BY <1>0, <1>2, <2>3, <3>1 DEF ReadsOn, Offset
  <2>7. QED
    BY <1>2, <2>2, <2>6 DEF PagingInv
<1>6. CASE CountRows
  <2>1. reader.at = "count" /\ reader' = [reader EXCEPT !.at = "rows", !.total = Cardinality(Rows)]
    BY <1>6 DEF CountRows
  <2>2. ReaderTypes'
    BY <1>0, <1>4, <2>1, ReaderRecords DEF ReaderTypes
  <2>3. /\ reader'.at = "rows" /\ reader'.floor = reader.floor /\ reader'.seen = reader.seen
        /\ reader'.page = reader.page /\ reader'.short = reader.short
        /\ reader'.total = Cardinality(Rows)
    BY <1>0, <2>1 DEF ReaderTypes
  <2>4. ReadsOn'
    BY <1>0, <1>2, <1>4, <2>1, <2>3 DEF ReadsOn, Offset
  <2>5. QED
    BY <1>2, <2>2, <2>4 DEF PagingInv
<1>7. CASE QueryFails
  <2>1. reader.at = "rows" /\ reader' = [reader EXCEPT !.at = "count"]
    BY <1>7 DEF QueryFails
  <2>2. ReaderTypes'
    BY <1>0, <2>1, ReaderRecords DEF ReaderTypes
  <2>3. /\ reader'.at = "count" /\ reader'.floor = reader.floor /\ reader'.seen = reader.seen
        /\ reader'.page = reader.page /\ reader'.short = reader.short
    BY <1>0, <2>1 DEF ReaderTypes
  <2>4. ReadsOn'
    BY <1>0, <1>2, <2>1, <2>3 DEF ReadsOn, Offset
  <2>5. QED
    BY <1>2, <2>2, <2>4 DEF PagingInv
<1>8. CASE ReadRows
  <2>1. PICK place \in Orders :
           LET data == PageOfRows(place, reader.page) IN
           reader' = [reader EXCEPT
              !.seen = @ \cup data,
              !.short = @ \/ Offset(reader.page) + Cardinality(data)
                                < Min({reader.total, reader.page * PerPage}),
              !.at = IF Cardinality(data) < PerPage THEN "done" ELSE "count",
              !.page = IF Cardinality(data) < PerPage THEN @ ELSE @ + 1]
    BY <1>8 DEF ReadRows
  <2>2. PICK a \in Nat : a = Offset(reader.page)
    BY <1>0, <1>3 DEF Offset
  <2>3. PICK n \in Nat : n = Cardinality(Rows)
    BY <1>4
  <2>4. PICK data : /\ data = PageOfRows(place, reader.page)
                    /\ data = {e \in Rows : place[e] \in (a + 1)..(a + PerPage)}
    BY <2>2 DEF PageOfRows
  <2>5. /\ Cardinality(data) \in Nat
        /\ Cardinality(data) < PerPage => n < a + PerPage
        /\ a + Cardinality(data) >= n \/ a + Cardinality(data) >= a + PerPage
    BY <1>0, <2>3, <2>4, PageIsFull
  <2>6. PICK c \in Nat : c = Cardinality(data)
    BY <2>5
  <2>7. reader.page * PerPage = a + PerPage
    <3>1. \A p \in Nat \ {0} : p * PerPage = (p - 1) * PerPage + PerPage
      BY <1>0
    <3>2. QED
      BY <1>3, <2>2, <3>1 DEF Offset
  <2>8. /\ reader.at = "rows" /\ reader.total <= n /\ ~reader.short
        /\ reader.floor \subseteq Rows
        /\ \A e \in reader.floor \ reader.seen : Untied(e) => a <= Cardinality(Newer(e))
    BY <1>0, <1>8, <2>2, <2>3 DEF ReadRows, ReadsOn
  <2>9. ~(a + c < Min({reader.total, reader.page * PerPage}))
    <3>1. Min({reader.total, a + PerPage}) =
            IF reader.total < a + PerPage THEN reader.total ELSE a + PerPage
      BY <1>0, <1>3, Smaller
    <3>2. PICK m \in Nat : m = reader.total
      BY <1>3
    <3>3. m <= n /\ (a + c >= n \/ a + c >= a + PerPage)
      BY <2>5, <2>6, <2>8, <3>2
    <3>4. ~(a + c < IF m < a + PerPage THEN m ELSE a + PerPage)
      BY ONLY <1>0, <3>3, a \in Nat, c \in Nat, n \in Nat, m \in Nat
    <3>5. QED
      BY <2>7, <3>1, <3>2, <3>4
  <2>10. PICK p \in Nat \ {0} : p = IF c < PerPage THEN reader.page ELSE reader.page + 1
    BY <1>3
  <2>11. PICK at \in {"done", "count"} : at = IF c < PerPage THEN "done" ELSE "count"
    OBVIOUS
  <2>12. reader' = [reader EXCEPT !.seen = reader.seen \cup data, !.short = FALSE, !.at = at, !.page = p]
    <3>1. (reader.short \/ a + c < Min({reader.total, reader.page * PerPage})) = FALSE
      BY <2>8, <2>9
    <3>2. reader' = [reader EXCEPT !.seen = reader.seen \cup data,
                        !.short = reader.short \/ a + c < Min({reader.total, reader.page * PerPage}),
                        !.at = IF c < PerPage THEN "done" ELSE "count",
                        !.page = IF c < PerPage THEN reader.page ELSE reader.page + 1]
      BY <2>1, <2>2, <2>4, <2>6
    <3>3. QED
      BY ONLY <2>10, <2>11, <3>1, <3>2
  <2>13. data \subseteq Event
    BY <1>4, <2>4
  <2>14. ReaderTypes'
    <3>1. reader.seen \cup data \in SUBSET Event
      BY <1>3, <2>13
    <3>2. at \in {"off", "count", "rows", "done"}
      BY <2>11
    <3>3. QED
      BY <1>0, <2>10, <2>12, <3>1, <3>2, ReaderRecords DEF ReaderTypes
  <2>15. /\ reader'.at = at /\ reader'.page = p /\ reader'.seen = reader.seen \cup data
         /\ reader'.floor = reader.floor /\ reader'.short = FALSE
    BY <1>0, <2>12 DEF ReaderTypes
  <2>16. ASSUME NEW e \in reader.floor \ (reader.seen \cup data), Untied(e)
         PROVE  Cardinality(Newer(e)) \in Nat /\ a + PerPage <= Cardinality(Newer(e))
                /\ Cardinality(Newer(e)) < n
    <3>1. e \in Rows /\ a <= Cardinality(Newer(e))
      BY <2>8, <2>16
    <3>2. /\ Cardinality(Newer(e)) \in Nat /\ place[e] = Cardinality(Newer(e)) + 1
          /\ Cardinality(Newer(e)) + 1 <= n
      BY <1>0, <2>3, <2>16, <3>1, UntiedPlace
    <3>3. Cardinality(Newer(e)) + 1 \notin (a + 1)..(a + PerPage)
      BY <2>4, <3>1, <3>2
    <3>4. QED
      BY <1>0, <3>1, <3>2, <3>3
  <2>17. CASE c < PerPage
    <3>1. at = "done" /\ n < a + PerPage
      BY <2>5, <2>6, <2>11, <2>17
    <3>2. \A e \in reader.floor \ (reader.seen \cup data) : ~Untied(e)
      BY <1>0, <2>16, <3>1
    <3>3. ReadsOn'
      BY <1>2, <2>8, <2>15, <3>1, <3>2 DEF ReadsOn
    <3>4. QED
      BY <1>2, <2>14, <3>3 DEF PagingInv
  <2>18. CASE ~(c < PerPage)
    <3>1. at = "count" /\ p = reader.page + 1
      BY <2>10, <2>11, <2>18
    <3>2. Offset(p) = a + PerPage
      <4>1. p - 1 = reader.page
        BY <1>3, <3>1
      <4>2. QED
        BY <2>7, <4>1 DEF Offset
    <3>3. ReadsOn'
      <4>1. \A e \in reader'.floor \ reader'.seen :
               Untied(e) => Offset(reader'.page) <= Cardinality(Newer(e))
        BY <2>15, <2>16, <3>1, <3>2
      <4>2. QED
        BY <1>2, <2>8, <2>15, <3>1, <4>1 DEF ReadsOn, Offset
    <3>4. QED
      BY <1>2, <2>14, <3>3 DEF PagingInv
  <2>19. QED
    BY <2>17, <2>18
<1>9. QED
  BY <1>5, <1>6, <1>7, <1>8

\* The invariant of the table and its reader, for every number of events and tasks and
\* every length of a page.
THEOREM PagingInvariant == AuditSpec => []PagingInv
<1>1. ASSUME AuditInit PROVE PagingInv
  <2>1. /\ insertion = [e \in Event |-> "none"] /\ created_at = [e \in Event |-> 0]
        /\ reader = [at |-> "off", page |-> 1, total |-> 0, floor |-> {}, seen |-> {}, short |-> FALSE]
    BY <1>1 DEF AuditInit
  <2>2. RowTypes
    BY <2>1, AuditAssumption DEF RowTypes
  <2>3. StampsTell
    BY <2>1 DEF StampsTell
  <2>4. ReaderTypes /\ ReadsOn
    BY <2>1 DEF ReaderTypes, ReadsOn
  <2>5. QED
    BY <2>2, <2>3, <2>4 DEF PagingInv
<1>2. ASSUME RingInv, PagingInv, [AuditNext]_auditVars PROVE PagingInv'
  <2>1. CASE AuditNext
    BY <1>2, <2>1, LogKeepsRows, InsertKeepsRows, ReaderReadsOn DEF AuditNext
  <2>2. CASE UNCHANGED auditVars
    BY <1>2, <2>2 DEF auditVars, PagingInv, RowTypes, ReaderTypes, StampsTell, ReadsOn, Held,
                      Rows, Newer, Untied, Offset
  <2>3. QED
    BY <1>2, <2>1, <2>2
<1>3. QED
  BY <1>1, <1>2, RingInvariant, PTL DEF AuditSpec

\* Whoever turns the pages of the audit log until one is not full has seen every row that
\* stood when he opened it and shares its created_at with no other, for any length of a
\* page, however many rows are inserted meanwhile and however each query orders ties; and
\* no page is shorter than its count promises (list_audit_logs).
THEOREM PagesShowAllButTies == AuditSpec => []PagingMissesOnlyTies
<1>1. PagingInv => PagingMissesOnlyTies
  <2>1. ASSUME PagingInv, reader.at = "done", NEW e \in reader.floor \ reader.seen
        PROVE  \E d \in Rows \ {e} : created_at[d] = created_at[e]
    BY <2>1 DEF PagingInv, ReadsOn, Untied
  <2>2. QED
    BY <2>1 DEF PagingInv, ReadsOn, PagingMissesOnlyTies
<1>2. QED
  BY <1>1, PagingInvariant, PTL

\* The types of the audit log, its table and its reader.
THEOREM AuditTypeCorrect == AuditSpec => []AuditTypeOK
<1>1. AuditInit => pool \in BOOLEAN
  BY DEF AuditInit
<1>2. pool \in BOOLEAN /\ [AuditNext]_auditVars => (pool \in BOOLEAN)'
  BY DEF AuditNext, auditVars, TakeIndex, Store, BeginInsert, CommitInsert, InsertFails,
         OpenLog, CountRows, QueryFails, ReadRows
<1>3. ASSUME RingInv, PagingInv, pool \in BOOLEAN PROVE AuditTypeOK
  <2>1. /\ buffer_index \in 0..MaxEvents /\ holds \in [Logger -> Event \cup {NoEvent}]
        /\ lapped \subseteq Event /\ DOMAIN buffer \subseteq 0..(RingSize - 1)
        /\ \A i \in DOMAIN buffer : buffer[i] \in 0..(buffer_index - 1)
    BY <1>3 DEF RingInv, RingTypes, Slot
  <2>2. /\ insertion \in [Event -> {"none", "spawned", "open", "row", "lost"}]
        /\ created_at \in [Event -> 0..MaxEvents]
    BY <1>3 DEF PagingInv, RowTypes
  <2>3. /\ reader.at \in {"off", "count", "rows", "done"} /\ reader.page >= 1
        /\ reader.floor \cup reader.seen \subseteq Event
    BY <1>3 DEF PagingInv, ReaderTypes
  <2>4. QED
    BY <1>3, <2>1, <2>2, <2>3 DEF AuditTypeOK
<1>4. QED
  BY <1>1, <1>2, <1>3, RingInvariant, PagingInvariant, PTL DEF AuditSpec
=============================================================================
