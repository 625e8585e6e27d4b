---------------------------- MODULE RateLimiter -----------------------------
(***************************************************************************)
(* The rate limiter in front of every route (src/src/server/middleware.rs) *)
(* and its cleanup task (src/src/main.rs): a fixed window per client       *)
(* address, in a DashMap.                                                  *)
(*                                                                         *)
(* A request reads the clock and then locks the entry of its address; the  *)
(* cleanup reads the clock and then visits one shard after another.  Any   *)
(* time may pass in between: a thread may lose its processor, or wait for  *)
(* a shard.  Every address stands for a shard of its own.                  *)
(***************************************************************************)
EXTENDS Integers, FiniteSets

CONSTANTS
    Address,       \* client addresses
    Request,       \* requests, one check each
    MaxRequests,   \* RATE_LIMIT_MAX_REQUESTS
    RateWindow,    \* RATE_LIMIT_WINDOW_SECS, in ticks
    MaxInstant,    \* bound on the clock
    NoEntry        \* no entry

Instants == 0..MaxInstant
RateLimitEntry == [count: Nat, window_start: Instants]

ASSUME RateLimiterAssumption ==
    /\ MaxRequests \in Nat \ {0}
    /\ RateWindow \in Nat \ {0}
    /\ MaxInstant \in Nat
    /\ IsFiniteSet(Request)
    /\ NoEntry \notin RateLimitEntry

VARIABLES
    clock,    \* Instant::now()
    inner,    \* RateLimitState::inner
    request,  \* place of each request and the clock it read
    sweep,    \* the cleanup task inside cleanup
    lag       \* history: the longest time between the reading of the clock and
              \* the lock, of the requests of each address counted so far

rateVars == <<clock, inner, request, sweep, lag>>

RateTypeOK ==
    /\ clock \in Instants
    /\ inner \in [Address -> RateLimitEntry \cup {NoEntry}]
    /\ request \in [Request -> [pc: {"new", "read", "passed", "limited"}, ip: Address, at: Instants]]
    /\ sweep \in [at: Instants, todo: SUBSET Address]
    /\ lag \in [Address -> Instants]

RateInit ==
    /\ clock = 0
    /\ inner = [ip \in Address |-> NoEntry]
    /\ \E from \in [Request -> Address] :
          request = [r \in Request |-> [pc |-> "new", ip |-> from[r], at |-> 0]]
    /\ sweep = [at |-> 0, todo |-> {}]
    /\ lag = [ip \in Address |-> 0]

\* duration_since saturates: zero for an instant to come.
Elapsed(t, start) == IF start <= t THEN t - start ELSE 0

-----------------------------------------------------------------------------
\* check_rate_limit reads the clock ...
ReadClock(r) ==
    /\ request[r].pc = "new"
    /\ request' = [request EXCEPT ![r].pc = "read", ![r].at = clock]
    /\ UNCHANGED <<clock, inner, sweep, lag>>

\* Mutant: the count survives the end of its window.
CurrentUnreset(ip, t) ==
    IF inner[ip] = NoEntry THEN [count |-> 0, window_start |-> t]
    ELSE IF Elapsed(t, inner[ip].window_start) >= RateWindow
         THEN [inner[ip] EXCEPT !.window_start = t]
         ELSE inner[ip]

\* The entry as a request finds it: new, or reset when its window is over.
CurrentEntry(ip, t) ==
    IF inner[ip] = NoEntry \/ Elapsed(t, inner[ip].window_start) >= RateWindow
    THEN [count |-> 0, window_start |-> t]
    ELSE inner[ip]

Allowed(n) == n <= MaxRequests

Longer(d, e) == IF e <= d THEN d ELSE e

\* ... and then counts itself under the lock of the entry.
Check(r) ==
    /\ request[r].pc = "read"
    /\ LET ip == request[r].ip
           found == CurrentEntry(ip, request[r].at)
       IN  /\ inner' = [inner EXCEPT ![ip] = [found EXCEPT !.count = @ + 1]]
           /\ request' = [request EXCEPT ![r].pc =
                            IF Allowed(found.count + 1) THEN "passed" ELSE "limited"]
           /\ lag' = [lag EXCEPT ![ip] = Longer(@, Elapsed(clock, request[r].at))]
    /\ UNCHANGED <<clock, sweep>>

SweepBegin ==
    /\ sweep.todo = {}
    /\ sweep' = [at |-> clock, todo |-> Address]
    /\ UNCHANGED <<clock, inner, request, lag>>

\* One shard less to visit; the reading of the clock goes with the last one.
Visited(ip) ==
    [at |-> IF sweep.todo = {ip} THEN 0 ELSE sweep.at, todo |-> sweep.todo \ {ip}]

\* Mutant: entries kept for no time at all.
ForgottenAtOnce(e, t) == Elapsed(t, e.window_start) >= 0

Forgotten(e, t) == Elapsed(t, e.window_start) >= 2 * RateWindow

\* Mutant: retain keeps what it should drop.
SweepShardInverted(ip) ==
    /\ ip \in sweep.todo
    /\ IF inner[ip] # NoEntry /\ ~Forgotten(inner[ip], sweep.at)
       THEN inner' = [inner EXCEPT ![ip] = NoEntry]
       ELSE UNCHANGED inner
    /\ sweep' = Visited(ip)
    /\ UNCHANGED <<clock, request, lag>>

\* retain visits a shard.
SweepShard(ip) ==
    /\ ip \in sweep.todo
    /\ IF inner[ip] # NoEntry /\ Forgotten(inner[ip], sweep.at)
       THEN inner' = [inner EXCEPT ![ip] = NoEntry]
       ELSE UNCHANGED inner
    /\ sweep' = Visited(ip)
    /\ UNCHANGED <<clock, request, lag>>

\* Time passes, whoever is between a reading of the clock and its lock.
RateTick ==
    /\ clock < MaxInstant
    /\ clock' = clock + 1
    /\ UNCHANGED <<inner, request, sweep, lag>>

RateNext ==
    \/ \E r \in Request : ReadClock(r) \/ Check(r)
    \/ SweepBegin \/ (\E ip \in Address : SweepShard(ip))
    \/ RateTick

RateSpec == RateInit /\ [][RateNext]_rateVars

\* The cleanup task is a loop over a timer.
RateFairSpec ==
    /\ RateSpec
    /\ WF_rateVars(SweepBegin)
    /\ \A ip \in Address : WF_rateVars(SweepShard(ip))

-----------------------------------------------------------------------------
(* Properties.                                                             *)

PassedIn(ip, from, to) ==
    {r \in Request : /\ request[r].pc = "passed" /\ request[r].ip = ip
                     /\ from <= request[r].at /\ request[r].at <= to}

\* However requests, resets and the cleanup interleave, what passes in an interval of
\* one window's length is bounded by how late the requests of the address have been.
\* None later than a tick between clock and lock, the interval meets at most two windows
\* and not the opener of one of them; none later than a whole window, at most three, and
\* not the openers of the first and the last.  Later ones lift every bound: what the
\* cleanup has forgotten they open again (check_rate_limit, cleanup).
BoundedBurst ==
    \A ip \in Address, t \in Instants :
        LET burst == Cardinality(PassedIn(ip, t, t + RateWindow - 1))
        IN  /\ lag[ip] <= 1 => burst < 2 * MaxRequests
            /\ lag[ip] <= RateWindow => burst < 3 * MaxRequests - 1

\* A request is turned away only for requests of its own address: a full window of them
\* passed less than a window away from it, give or take the longest lag.
LimitedForCause ==
    \A r \in Request :
        request[r].pc = "limited" =>
            LET ip == request[r].ip
                away == RateWindow - 1 + lag[ip]
            IN  Cardinality(PassedIn(ip, request[r].at - away, request[r].at + away))
                    >= MaxRequests

\* An address that no longer calls does not keep its entry for ever (main.rs,
\* the cleanup task).
IdleForgotten ==
    LET Idle(ip) == inner[ip] # NoEntry /\ Forgotten(inner[ip], clock)
    IN  \A ip \in Address : Idle(ip) ~> ~Idle(ip)
=============================================================================
