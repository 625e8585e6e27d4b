----------------------------- MODULE MC_Records -----------------------------
(***************************************************************************)
(* A small instance of what the server keeps beside its cache: the audit   *)
(* log, the accounts and key records, the subscriptions, the telemetry.    *)
(* They share nothing, so that each is a scene of its own.                 *)
(***************************************************************************)
EXTENDS AuditLog, Accounts, PubSub, Telemetry

CONSTANTS p1, p2, p3

VARIABLE scene

MCPassword == {p1, p2, p3}

recordsVars == <<auditVars, accountsVars, pubSubVars, telemetryVars, scene>>

\* Requests come in the order of their numbers.
InOrder == \A r \in Request : r > 1 /\ request'[r] # Idle => request'[r - 1] # Idle

\* p2 and p3 are interchangeable (an account has p1 at the start): p2 comes first.
ByTheirNumbers ==
    LET Asked(r) == {request'[r].old, request'[r].new} IN
    \A r \in Request : p3 \in Asked(r) => \E s \in 1..r : p2 \in Asked(s)

\* So are the publishers.
FirstPublisher == publisher'["p2"].update # 1

\* Two tasks meet at the ring without a pool; with one, the insertions of one task run
\* beside each other all the same.
FewLoggers == pool => holds'["l2"] = NoEvent

\* Two subscriptions to a domain at most.
FewSubscribe == \A d \in Topic : Len(subscribers'[d]) <= 2

MCInit ==
    /\ scene \in {"audit", "accounts", "pubsub", "telemetry"}
    /\ AuditInit /\ (scene # "audit" => pool)
    /\ AccountsInit
    /\ \A u \in User : admin_users[u] = p1 \/ (scene = "accounts" /\ admin_users[u] = Nobody)
    /\ PubSubInit /\ TelemetryInit

MCNext ==
    /\ \/ /\ scene = "audit" /\ AuditNext /\ FewLoggers
          /\ UNCHANGED <<accountsVars, pubSubVars, telemetryVars>>
       \/ /\ scene = "accounts" /\ AccountsNext /\ InOrder /\ ByTheirNumbers
          /\ UNCHANGED <<auditVars, pubSubVars, telemetryVars>>
       \/ /\ scene = "pubsub" /\ PubSubNext /\ FirstPublisher /\ FewSubscribe
          /\ UNCHANGED <<auditVars, accountsVars, telemetryVars>>
       \/ /\ scene = "telemetry" /\ TelemetryNext
          /\ UNCHANGED <<auditVars, accountsVars, pubSubVars>>
    /\ UNCHANGED scene

MCSpec == MCInit /\ [][MCNext]_recordsVars
=============================================================================
