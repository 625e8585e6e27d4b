------------------------------- MODULE Client -------------------------------
(***************************************************************************)
(* RfoClient (src/src/client.rs): a batch of calls to an engine, each with *)
(* retries and exponential backoff, over a network that loses answers and  *)
(* to a server that is slow, fails, or works on a request after its client *)
(* has given it up.                                                        *)
(*                                                                         *)
(* Timers go off on time: the clock does not pass a deadline.              *)
(***************************************************************************)
EXTENDS Integers, Sequences, FiniteSets, SequencesExt

CONSTANTS
    Domains,     \* the domains of the batch, in order
    Config,      \* retry configurations: max_attempts, initial_backoff,
                 \* max_backoff, backoff_multiplier
    Timeout,     \* of one attempt (the HTTP client's)
    Window,      \* age that verify_nonce_freshness allows
    MaxStart,    \* bound on the delay of a spawned task
    MaxTime      \* bound on the clock

ASSUME ClientAssumption ==
    /\ Timeout \in Nat \ {0} /\ Window \in Nat /\ MaxStart \in Nat /\ MaxTime \in Nat
    /\ \A r \in Config : /\ r.max_attempts \in Nat /\ r.backoff_multiplier \in Int
                         /\ r.initial_backoff \in Nat /\ r.max_backoff \in Nat

Task == DOMAIN Domains

VARIABLES
    retry,     \* the client's RetryConfig
    task,      \* the spawned calls
    executed,  \* external: how often the server did the work, per call
    joined,    \* how many handles the batch has awaited
    results,   \* the results of the batch so far: [task, result]
    now

clientVars == <<retry, task, executed, joined, results, now>>

LeastOf(a, b) == IF a < b THEN a ELSE b

-----------------------------------------------------------------------------
(* execute_with_retry.  A call is spawned, waits for an answer, sleeps until *)
(* its next attempt, or is done; `sent` are the attempts still under way.    *)

Spawned == [at |-> "spawned", attempt |-> 0, backoff |-> 0, timestamp |-> 0, deadline |-> 0,
            sent |-> {}, result |-> "pending"]

Ended(call, result) == [call EXCEPT !.at = "done", !.deadline = 0, !.result = result]

\* operation(self.http.clone()): the body is that of the first attempt.
Attempted(call) ==
    [call EXCEPT !.at = "waiting", !.attempt = @ + 1, !.deadline = now + Timeout,
                 !.sent = @ \cup {call.attempt + 1}]

\* Mutant: the step is not capped.
NextUncapped(backoff) == backoff * retry.backoff_multiplier

NextBackoff(backoff) == LeastOf(backoff * retry.backoff_multiplier, retry.max_backoff)

\* Mutant: one attempt more.
FailedOneMore(call, result) ==
    IF call.attempt <= retry.max_attempts
    THEN [call EXCEPT !.at = "asleep", !.deadline = now + call.backoff, !.backoff = NextBackoff(@)]
    ELSE Ended(call, result)

\* Sleep, unless this was the last attempt: then its error is the result.
Failed(call, result) ==
    IF call.attempt < retry.max_attempts
    THEN [call EXCEPT !.at = "asleep", !.deadline = now + call.backoff, !.backoff = NextBackoff(@)]
    ELSE Ended(call, result)

\* Nonce and timestamp are made once.  Without attempts the loop is not entered.
Started(call) ==
    IF retry.max_attempts = 0 THEN Ended(call, "exhausted")
    ELSE Attempted([call EXCEPT !.backoff = retry.initial_backoff, !.timestamp = now])

\* Duration::from_secs_f64 panics on a negative product.
Woken(call) == IF call.backoff < 0 THEN Ended(call, "panic") ELSE Attempted(call)

\* What a call makes of an answer: a 5xx is tried again, any other status and a
\* body that breaks off is the result.
Answered(call, status) ==
    CASE status = "500" -> Failed(call, "server")
      [] status = "401" -> Ended(call, "rejected")
      [] status = "200" -> Ended(call, "ok")
      [] status = "cut" -> Ended(call, "network")

Becomes(t, call) ==
    /\ task' = [task EXCEPT ![t] = call]
    /\ UNCHANGED <<retry, joined, results, now>>

Start(t) == task[t].at = "spawned" /\ Becomes(t, Started(task[t])) /\ UNCHANGED executed

Wake(t) ==
    /\ task[t].at = "asleep" /\ now >= task[t].deadline
    /\ Becomes(t, Woken(task[t])) /\ UNCHANGED executed

\* Mutant: an HTTP client without a timeout (with_http_client takes any).
TimesOutNever(t) == FALSE /\ UNCHANGED clientVars

\* The HTTP client gives an attempt up; the request may still reach the server.
TimesOut(t) ==
    /\ task[t].at = "waiting" /\ now >= task[t].deadline
    /\ Becomes(t, Failed(task[t], "timeout")) /\ UNCHANGED executed

\* No connection (is_connect): the request is not sent.
Refused(t) ==
    /\ task[t].at = "waiting" /\ task[t].attempt \in task[t].sent
    /\ Becomes(t, Failed([task[t] EXCEPT !.sent = @ \ {task[t].attempt}], "network"))
    /\ UNCHANGED executed

-----------------------------------------------------------------------------
(* External: the server and the network.                                   *)

\* The server works on a request, if its timestamp is fresh by now.  Its answer
\* is for a client that still waits on this attempt, unless it is lost.
Handle(t, k, status) ==
    LET fresh == now - task[t].timestamp <= Window
        waited == task[t].at = "waiting" /\ task[t].attempt = k /\ status # "lost"
        call == [task[t] EXCEPT !.sent = @ \ {k}]
    IN  /\ k \in task[t].sent
        /\ (status = "401") <=> ~fresh
        /\ executed' = [executed EXCEPT ![t] = IF fresh THEN @ + 1 ELSE @]
        /\ Becomes(t, IF waited THEN Answered(call, status) ELSE call)

\* The clock stands while a timer is due.
Tick ==
    /\ now < MaxTime
    /\ \A t \in Task :
          /\ task[t].at \in {"waiting", "asleep"} => now < task[t].deadline
          /\ task[t].at = "spawned" => now < MaxStart
    /\ now' = now + 1
    /\ UNCHANGED <<retry, task, executed, joined, results>>

-----------------------------------------------------------------------------
(* batch_handshake awaits the tasks in the order of the domains; one that  *)
(* panicked has no result and is passed over.                              *)

Join(t) ==
    /\ t = joined + 1 /\ task[t].at = "done"
    /\ joined' = t
    /\ results' = IF task[t].result = "panic" THEN results
                  ELSE Append(results, [task |-> t, result |-> task[t].result])
    /\ UNCHANGED <<retry, task, executed, now>>

ClientInit ==
    /\ retry \in Config
    /\ task = [t \in Task |-> Spawned]
    /\ executed = [t \in Task |-> 0]
    /\ joined = 0 /\ results = <<>> /\ now = 0

ClientNext ==
    \/ Tick
    \/ \E t \in Task :
          \/ Start(t) \/ Wake(t) \/ TimesOut(t) \/ Refused(t) \/ Join(t)
          \/ \E k \in task[t].sent, status \in {"200", "401", "500", "cut", "lost"} : Handle(t, k, status)

\* Nothing is assumed of the server or the network: the runtime polls its tasks
\* and timers, and time goes on.
ClientFairness ==
    /\ WF_clientVars(Tick)
    /\ \A t \in Task :
          /\ WF_clientVars(Start(t)) /\ WF_clientVars(Wake(t))
          /\ WF_clientVars(TimesOut(t)) /\ WF_clientVars(Join(t))

ClientSpec == ClientInit /\ [][ClientNext]_clientVars /\ ClientFairness

-----------------------------------------------------------------------------
(* Properties.                                                             *)

\* What a call may last, from its RetryConfig: a timeout for each attempt, the
\* first backoff as it is configured and the others up to max_backoff.
Worst ==
    retry.max_attempts * Timeout
    + (IF retry.max_attempts >= 2 THEN retry.initial_backoff ELSE 0)
    + (IF retry.max_attempts > 2 THEN (retry.max_attempts - 2) * retry.max_backoff ELSE 0)

\* Repeating the first attempt's timestamp is harmless as long as the worst
\* duration fits into the server's window: no call is then refused for its age,
\* although the first backoff is not capped (handshake, execute_with_retry,
\* verify_nonce_freshness).
RetriesStayFresh ==
    Worst <= Window => \A t \in Task : task[t].result # "rejected"

\* A retry may repeat work that was done, but never more often than max_attempts,
\* an answer is never made up, and "exhausted" means that nothing was sent
\* (execute_with_retry).
WorkIsBounded ==
    \A t \in Task :
        /\ executed[t] + Cardinality(task[t].sent) <= retry.max_attempts
        /\ task[t].result = "ok" => executed[t] >= 1
        /\ task[t].result = "exhausted" => task[t].attempt = 0

\* A batch that has begun returns, with a server that never answers too
\* (batch_handshake).
BatchReturns ==
    (\E t \in Task : task[t].at # "spawned") ~> joined = Len(Domains)
=============================================================================
