-------------------------- MODULE AdmissionProofs ---------------------------
(***************************************************************************)
(* What is proved of what admits a request: the rate limiter, for every    *)
(* limit and window, any addresses, any finite number of requests in any   *)
(* order and with any delay, and a cleanup that runs at any time; and the  *)
(* connection limiter, for every finite set of callers, careless or not,   *)
(* any limits, and a counter wide enough.                                  *)
(***************************************************************************)
EXTENDS RateLimiter, DdosProtection, FiniteSetTheorems, TLAPS

-----------------------------------------------------------------------------
(* The rate limiter.                                                       *)

Counted(r, ip) == request[r].pc \in {"passed", "limited"} /\ request[r].ip = ip

\* w gives each counted request the start of the window it was counted in.
PassedOf(w, ip, v) ==
    {r \in Request : request[r].pc = "passed" /\ request[r].ip = ip /\ w[r] = v}

\* The request that opened a window, which is the instant it read.
Opened(w, ip, v) ==
    \E r \in Request : /\ request[r].pc = "passed" /\ request[r].ip = ip
                       /\ w[r] = v /\ request[r].at = v

\* No request of the address was later than a whole window between clock and lock.
Prompt(ip) == lag[ip] <= RateWindow

\* A counted request read the clock inside its window, or before it by no more than the
\* longest lag: another request may have opened the window in between.
Within(w) ==
    \A ip \in Address, r \in Request : Counted(r, ip) =>
        w[r] <= request[r].at + lag[ip] /\ request[r].at < w[r] + RateWindow

\* The windows of an address do not overlap.
Apart(w) ==
    \A ip \in Address, r \in Request, s \in Request :
        Prompt(ip) /\ Counted(r, ip) /\ Counted(s, ip) =>
            w[r] = w[s] \/ w[r] + RateWindow <= w[s] \/ w[s] + RateWindow <= w[r]

\* A window has an opener, passes the limit before it limits, and no more than that.
Full(w) ==
    \A ip \in Address, r \in Request : Counted(r, ip) =>
        /\ Opened(w, ip, w[r])
        /\ request[r].pc = "limited" => Cardinality(PassedOf(w, ip, w[r])) >= MaxRequests
        /\ Prompt(ip) => Cardinality(PassedOf(w, ip, w[r])) <= MaxRequests

\* The limit, or what has been counted if that is less.
UpToLimit(n) == IF n <= MaxRequests THEN n ELSE MaxRequests

\* The windows of an address have been over for a window.
Over(w, ip) == \A r \in Request : Counted(r, ip) => w[r] + 2 * RateWindow <= clock

\* No window of an address reaches beyond v, and no more than n passed in that of v.
IsLast(w, ip, v, n) ==
    /\ \A r \in Request : Counted(r, ip) => w[r] = v \/ w[r] + RateWindow <= v
    /\ Cardinality(PassedOf(w, ip, v)) <= UpToLimit(n)

\* The window that starts at v is open, and n were counted in it.
IsOpen(w, ip, v, n) ==
    /\ v <= clock /\ Opened(w, ip, v)
    /\ Cardinality(PassedOf(w, ip, v)) >= UpToLimit(n)

\* The entry of an address is its latest window; without one, they are over.  A request
\* later than a window may find forgotten what it belongs to.
Latest(w) ==
    \A ip \in Address :
        IF inner[ip] = NoEntry THEN Prompt(ip) => Over(w, ip)
        ELSE /\ IsOpen(w, ip, inner[ip].window_start, inner[ip].count)
             /\ Prompt(ip) => IsLast(w, ip, inner[ip].window_start, inner[ip].count)

Windows(w) == Within(w) /\ Apart(w) /\ Full(w) /\ Latest(w)

\* No clock was read before it showed the time.
Clocked ==
    /\ sweep.at <= clock
    /\ \A r \in Request : request[r].pc = "read" => request[r].at <= clock

IInv == RateTypeOK /\ Clocked /\ \E w \in [Request -> Instants] : Windows(w)

-----------------------------------------------------------------------------
\* The numbers that the arguments below are about.
LEMMA RateNumbers ==
    /\ MaxRequests \in Nat \ {0} /\ RateWindow \in Nat \ {0}
    /\ Instants \subseteq Nat /\ 0 \in Instants /\ NoEntry \notin RateLimitEntry
    /\ \A t, v \in Instants : Elapsed(t, v) \in Nat
BY RateLimiterAssumption DEF Instants, Elapsed

\* The requests that passed in a window are finitely many.
LEMMA PassedFinite ==
    ASSUME NEW w, NEW ip, NEW v
    PROVE  /\ IsFiniteSet(PassedOf(w, ip, v)) /\ Cardinality(PassedOf(w, ip, v)) \in Nat
           /\ \A S \in SUBSET PassedOf(w, ip, v) :
                 IsFiniteSet(S) /\ Cardinality(S) <= Cardinality(PassedOf(w, ip, v))
<1>1. PassedOf(w, ip, v) \in SUBSET Request
  BY DEF PassedOf
<1>2. IsFiniteSet(PassedOf(w, ip, v))
  BY <1>1, RateLimiterAssumption, FS_Subset
<1> QED
  BY <1>2, FS_Subset, FS_CardinalityType

\* What the actions need of the types.
LEMMA Typed ==
    ASSUME RateTypeOK
    PROVE  /\ clock \in Nat /\ sweep.at \in Nat /\ \A ip \in Address : lag[ip] \in Nat
           /\ \A r \in Request : /\ request[r].at \in Nat /\ request[r].ip \in Address
                                 /\ request[r].pc \in {"new", "read", "passed", "limited"}
           /\ \A ip \in Address : inner[ip] # NoEntry =>
                inner[ip] \in RateLimitEntry /\ inner[ip].count \in Nat
                /\ inner[ip].window_start \in Nat
BY RateNumbers DEF RateTypeOK, RateLimitEntry

\* The entry that a request finds is an entry, and so is it with the request counted.
LEMMA EntryType ==
    ASSUME RateTypeOK, NEW ip \in Address, NEW t \in Instants
    PROVE  /\ CurrentEntry(ip, t) \in RateLimitEntry
           /\ [CurrentEntry(ip, t) EXCEPT !.count = @ + 1] \in RateLimitEntry
<1>1. [count |-> 0, window_start |-> t] \in RateLimitEntry
  BY DEF RateLimitEntry
<1>2. CurrentEntry(ip, t) \in RateLimitEntry
  BY <1>1 DEF CurrentEntry, RateTypeOK
<1> QED
  BY <1>2 DEF RateLimitEntry

\* The limiter starts within the types (RateLimitState::new).
LEMMA InitRateTypeOK == RateInit => RateTypeOK
BY RateNumbers DEF RateInit, RateTypeOK

\* Every step keeps the types.
LEMMA NextRateTypeOK == RateTypeOK /\ [RateNext]_rateVars => RateTypeOK'
<1> SUFFICES ASSUME RateTypeOK, [RateNext]_rateVars PROVE RateTypeOK'
  OBVIOUS
<1>1. ASSUME NEW r \in Request, ReadClock(r) PROVE RateTypeOK'
  BY <1>1 DEF ReadClock, RateTypeOK
<1>2. ASSUME NEW r \in Request, Check(r) PROVE RateTypeOK'
  <2> DEFINE ip == request[r].ip
             e == [CurrentEntry(ip, request[r].at) EXCEPT !.count = @ + 1]
  <2>1. ip \in Address /\ e \in RateLimitEntry
    BY EntryType DEF RateTypeOK
  <2>2. inner' = [inner EXCEPT ![ip] = e]
    BY <1>2 DEF Check
  <2>3. inner' \in [Address -> RateLimitEntry \cup {NoEntry}]
    BY <2>1, <2>2 DEF RateTypeOK
  <2>4. request' \in [Request -> [pc: {"new", "read", "passed", "limited"}, ip: Address, at: Instants]]
    BY <1>2 DEF Check, RateTypeOK
  <2>5. lag' \in [Address -> Instants]
    <3>1. Longer(lag[ip], Elapsed(clock, request[r].at)) \in Instants
      BY <2>1, RateLimiterAssumption DEF RateTypeOK, Longer, Elapsed, Instants
    <3> QED
      BY <1>2, <3>1 DEF Check, RateTypeOK
  <2> QED
    BY <1>2, <2>3, <2>4, <2>5 DEF Check, RateTypeOK
<1>3. ASSUME SweepBegin PROVE RateTypeOK'
  BY <1>3 DEF SweepBegin, RateTypeOK
<1>4. ASSUME NEW ip \in Address, SweepShard(ip) PROVE RateTypeOK'
  <2>1. inner' \in [Address -> RateLimitEntry \cup {NoEntry}]
    BY <1>4 DEF SweepShard, Visited, RateTypeOK
  <2>2. sweep' \in [at: Instants, todo: SUBSET Address]
    BY <1>4, RateNumbers DEF SweepShard, Visited, RateTypeOK
  <2> QED
    BY <1>4, <2>1, <2>2 DEF SweepShard, Visited, RateTypeOK
<1>5. ASSUME RateTick PROVE RateTypeOK'
  BY <1>5, RateLimiterAssumption DEF RateTick, RateTypeOK, Instants
<1>6. ASSUME UNCHANGED rateVars PROVE RateTypeOK'
  BY <1>6 DEF rateVars, RateTypeOK
<1> QED
  BY <1>1, <1>2, <1>3, <1>4, <1>5, <1>6 DEF RateNext

\* Entries, requests and the cleanup have their types in every behaviour.
THEOREM RateTypeCorrect == RateSpec => []RateTypeOK
BY InitRateTypeOK, NextRateTypeOK, PTL DEF RateSpec

\* Every step keeps the readings of the clock behind it.
LEMMA NextClocked == RateTypeOK /\ Clocked /\ [RateNext]_rateVars => Clocked'
<1> SUFFICES ASSUME RateTypeOK, Clocked, [RateNext]_rateVars PROVE Clocked'
  OBVIOUS
<1>1. ASSUME NEW r \in Request, ReadClock(r) PROVE Clocked'
  BY <1>1, Typed DEF ReadClock, Clocked, RateTypeOK
<1>2. ASSUME NEW r \in Request, Check(r) PROVE Clocked'
  BY <1>2 DEF Check, Clocked, RateTypeOK
<1>3. ASSUME SweepBegin PROVE Clocked'
  BY <1>3, Typed DEF SweepBegin, Clocked
<1>4. ASSUME NEW ip \in Address, SweepShard(ip) PROVE Clocked'
  BY <1>4, Typed DEF SweepShard, Visited, Clocked, RateTypeOK
<1>5. ASSUME RateTick PROVE Clocked'
  BY <1>5, Typed DEF RateTick, Clocked
<1>6. ASSUME UNCHANGED rateVars PROVE Clocked'
  BY <1>6 DEF rateVars, Clocked
<1> QED
  BY <1>1, <1>2, <1>3, <1>4, <1>5, <1>6 DEF RateNext

-----------------------------------------------------------------------------
\* A step that counts no request, and drops an entry only two windows after its start,
\* leaves the windows as they are.
LEMMA WindowsQuiet ==
    ASSUME RateTypeOK, RateTypeOK', NEW CONSTANT w \in [Request -> Instants], Windows(w),
           \A r \in Request :
              \/ request'[r] = request[r]
              \/ request[r].pc = "new" /\ request'[r].pc = "read",
           clock <= clock', lag' = lag,
           \A ip \in Address :
              \/ inner'[ip] = inner[ip]
              \/ /\ inner'[ip] = NoEntry /\ inner[ip] # NoEntry
                 /\ inner[ip].window_start + 2 * RateWindow <= clock
    PROVE  Windows(w)'
<1>1. \A r \in Request, ip \in Address :
         /\ Counted(r, ip)' <=> Counted(r, ip)
         /\ Counted(r, ip) => request'[r] = request[r]
  BY DEF Counted
<1>2. \A ip \in Address : \A v : PassedOf(w, ip, v)' = PassedOf(w, ip, v)
  BY DEF PassedOf
<1>3. \A ip \in Address : \A v : Opened(w, ip, v)' <=> Opened(w, ip, v)
  BY DEF Opened
<1>0. \A ip \in Address : Prompt(ip)' <=> Prompt(ip)
  BY DEF Prompt
<1>4. Within(w)'
  BY <1>1 DEF Windows, Within
<1>5. Apart(w)'
  BY <1>0, <1>1 DEF Windows, Apart
<1>6. Full(w)'
  BY <1>0, <1>1, <1>2, <1>3 DEF Windows, Full
<1>7. Latest(w)'
  <2> SUFFICES ASSUME NEW ip \in Address
      PROVE  IF inner'[ip] = NoEntry THEN Prompt(ip)' => Over(w, ip)'
             ELSE /\ IsOpen(w, ip, inner[ip].window_start, inner[ip].count)'
                  /\ Prompt(ip)' => IsLast(w, ip, inner[ip].window_start, inner[ip].count)'
    BY DEF Latest
  <2>0. /\ clock \in Nat /\ clock' \in Nat /\ RateWindow \in Nat
        /\ inner[ip] # NoEntry => inner[ip].window_start \in Nat
        /\ \A r \in Request : w[r] \in Nat
    BY RateNumbers, Typed DEF RateTypeOK
  <2>1. CASE inner'[ip] = inner[ip] /\ inner[ip] = NoEntry
    BY <1>0, <1>1, <2>0, <2>1 DEF Windows, Latest, Over
  <2>2. CASE inner'[ip] = inner[ip] /\ inner[ip] # NoEntry
    BY <1>0, <1>1, <1>2, <1>3, <2>0, <2>2 DEF Windows, Latest, IsOpen, IsLast
  <2>3. CASE inner'[ip] = NoEntry /\ inner[ip] # NoEntry
             /\ inner[ip].window_start + 2 * RateWindow <= clock
    <3>1. Prompt(ip) => \A r \in Request : Counted(r, ip) => w[r] <= inner[ip].window_start
      BY <2>0, <2>3 DEF Windows, Latest, IsLast
    <3> QED
      BY <1>0, <1>1, <2>0, <2>3, <3>1 DEF Over
  <2> QED
    BY <2>1, <2>2, <2>3
<1> QED
  BY <1>4, <1>5, <1>6, <1>7 DEF Windows

-----------------------------------------------------------------------------
(* A request is counted: in the window of the entry it finds, or in one that *)
(* it opens.                                                                 *)

\* The request r is counted in the window that starts at v, and passes or not.
CountedIn(r, v, pc) ==
    /\ request[r].pc = "read"
    /\ request' = [request EXCEPT ![r].pc = pc]
    /\ lag' = [lag EXCEPT ![request[r].ip] = Longer(@, Elapsed(clock, request[r].at))]

Recounted(x, w, r, v) == x = [w EXCEPT ![r] = v]

\* Who passed in which window after it.
LEMMA PassedNext ==
    ASSUME RateTypeOK, NEW CONSTANT r \in Request, NEW CONSTANT v \in Instants,
           NEW CONSTANT pc \in {"passed", "limited"}, CountedIn(r, v, pc),
           NEW CONSTANT w \in [Request -> Instants],
           NEW CONSTANT x \in [Request -> Instants], Recounted(x, w, r, v)
    PROVE  \A ip \in Address, u \in Instants :
              PassedOf(x, ip, u)' = IF pc = "passed" /\ ip = request[r].ip /\ u = v
                                    THEN PassedOf(w, ip, u) \cup {r} ELSE PassedOf(w, ip, u)
<1>1. /\ request \in [Request -> [pc: {"new", "read", "passed", "limited"}, ip: Address, at: Instants]]
      /\ request[r].pc = "read" /\ request' = [request EXCEPT ![r].pc = pc]
  BY DEF RateTypeOK, CountedIn
<1>2. /\ request'[r].pc = pc /\ request'[r].ip = request[r].ip /\ x[r] = v
      /\ \A s \in Request \ {r} : request'[s] = request[s] /\ x[s] = w[s]
  BY <1>1 DEF Recounted
<1> SUFFICES ASSUME NEW CONSTANT ip \in Address, NEW CONSTANT u \in Instants
    PROVE  PassedOf(x, ip, u)' = IF pc = "passed" /\ ip = request[r].ip /\ u = v
                                 THEN PassedOf(w, ip, u) \cup {r} ELSE PassedOf(w, ip, u)
  OBVIOUS
<1>3. PassedOf(x, ip, u)' =
        {s \in Request : request'[s].pc = "passed" /\ request'[s].ip = ip /\ x[s] = u}
  BY DEF PassedOf
<1> QED
  BY <1>1, <1>2, <1>3 DEF PassedOf

\* How many passed in them.
LEMMA PassedCount ==
    ASSUME RateTypeOK, NEW CONSTANT r \in Request, NEW CONSTANT v \in Instants,
           NEW CONSTANT pc \in {"passed", "limited"}, CountedIn(r, v, pc),
           NEW CONSTANT w \in [Request -> Instants],
           NEW CONSTANT x \in [Request -> Instants], Recounted(x, w, r, v),
           NEW CONSTANT ip \in Address, NEW CONSTANT u \in Instants
    PROVE  Cardinality(PassedOf(x, ip, u))' =
              Cardinality(PassedOf(w, ip, u))
              + (IF pc = "passed" /\ ip = request[r].ip /\ u = v THEN 1 ELSE 0)
<1>1. r \notin PassedOf(w, ip, u)
  BY DEF PassedOf, CountedIn
<1>2. IsFiniteSet(PassedOf(w, ip, u)) /\ Cardinality(PassedOf(w, ip, u)) \in Nat
  BY PassedFinite
<1>3. PassedOf(x, ip, u)' = IF pc = "passed" /\ ip = request[r].ip /\ u = v
                            THEN PassedOf(w, ip, u) \cup {r} ELSE PassedOf(w, ip, u)
  BY PassedNext
<1>4. Cardinality(PassedOf(w, ip, u) \cup {r}) = Cardinality(PassedOf(w, ip, u)) + 1
  BY <1>1, <1>2, FS_AddElement
<1> QED
  BY <1>2, <1>3, <1>4

\* Neither this request nor one before it is later than a window.
Timely(r) == Prompt(request[r].ip) /\ clock <= request[r].at + RateWindow

\* A window that a request may be counted in: it started before now and holds the
\* instant the request read, n were counted in it, it has an opener already or gets one,
\* and it is the latest of its address unless a request is late.
Fits(w, r, v, n, pc) ==
    /\ request[r].at < v + RateWindow /\ v <= clock
    /\ Opened(w, request[r].ip, v) \/ (request[r].at = v /\ pc = "passed")
    /\ n \in Nat /\ Cardinality(PassedOf(w, request[r].ip, v)) >= UpToLimit(n)
    /\ Timely(r) => IsLast(w, request[r].ip, v, n)
    /\ pc = IF n + 1 <= MaxRequests THEN "passed" ELSE "limited"

\* The entry that a request finds or makes is such a window.
LEMMA CheckFits ==
    ASSUME RateTypeOK, Clocked, NEW CONSTANT w \in [Request -> Instants], Windows(w),
           NEW CONSTANT r \in Request, request[r].pc = "read"
    PROVE  LET e == CurrentEntry(request[r].ip, request[r].at)
           IN  /\ e.window_start \in Instants
               /\ Fits(w, r, e.window_start, e.count,
                       IF Allowed(e.count + 1) THEN "passed" ELSE "limited")
<1> DEFINE ip == request[r].ip
           t == request[r].at
           e == CurrentEntry(ip, t)
           v == e.window_start
           pc == IF Allowed(e.count + 1) THEN "passed" ELSE "limited"
<1>1. /\ ip \in Address /\ t \in Instants /\ t \in Nat /\ clock \in Nat
      /\ t <= clock /\ RateWindow \in Nat \ {0} /\ MaxRequests \in Nat \ {0}
      /\ \A s \in Request : w[s] \in Nat
  BY RateNumbers, Typed DEF Clocked, RateTypeOK
<1>2. e \in RateLimitEntry /\ e.count \in Nat /\ v \in Instants /\ v \in Nat
  BY <1>1, EntryType, RateNumbers DEF RateLimitEntry
<1>3. pc = IF e.count + 1 <= MaxRequests THEN "passed" ELSE "limited"
  BY DEF Allowed
<1>4. CASE inner[ip] # NoEntry /\ ~(Elapsed(t, inner[ip].window_start) >= RateWindow)
  <2>1. e = inner[ip]
    BY <1>4 DEF CurrentEntry
  <2>2. /\ v <= clock /\ Opened(w, ip, v)
        /\ Cardinality(PassedOf(w, ip, v)) >= UpToLimit(e.count)
        /\ Timely(r) => IsLast(w, ip, v, e.count)
    BY <1>1, <1>4, <2>1 DEF Windows, Latest, IsOpen, Timely
  <2>3. t < v + RateWindow
    BY <1>1, <1>2, <1>4, <2>1, <2>2 DEF Elapsed
  <2> QED
    BY <1>1, <1>2, <1>3, <2>2, <2>3 DEF Fits
<1>5. CASE inner[ip] = NoEntry \/ Elapsed(t, inner[ip].window_start) >= RateWindow
  <2>1. e.count = 0 /\ v = t
    BY <1>5 DEF CurrentEntry
  <2>2. Timely(r) => \A s \in Request : Counted(s, ip) => w[s] + RateWindow <= v
    <3>1. CASE inner[ip] = NoEntry
      BY <1>1, <2>1, <3>1 DEF Windows, Latest, Over, Timely
    <3>2. CASE inner[ip] # NoEntry /\ Elapsed(t, inner[ip].window_start) >= RateWindow
      <4>1. inner[ip].window_start \in Nat
        BY <1>1, <3>2, Typed
      <4>2. inner[ip].window_start + RateWindow <= t
        BY <1>1, <3>2, <4>1 DEF Elapsed
      <4>3. Timely(r) => \A s \in Request : Counted(s, ip) => w[s] <= inner[ip].window_start
        BY <1>1, <3>2, <4>1 DEF Windows, Latest, IsLast, Timely
      <4> QED
        BY <1>1, <2>1, <4>1, <4>2, <4>3
    <3> QED
      BY <1>5, <3>1, <3>2
  <2>3. Cardinality(PassedOf(w, ip, v)) >= UpToLimit(e.count)
    BY <1>1, <2>1, PassedFinite DEF UpToLimit
  <2>4. Timely(r) => IsLast(w, ip, v, e.count)
    <3> SUFFICES ASSUME Timely(r) PROVE IsLast(w, ip, v, e.count)
      OBVIOUS
    <3>1. PassedOf(w, ip, v) = {}
      BY <1>1, <1>2, <2>2 DEF PassedOf, Counted
    <3>2. Cardinality(PassedOf(w, ip, v)) <= UpToLimit(e.count)
      BY <1>1, <2>1, <3>1, FS_EmptySet DEF UpToLimit
    <3> QED
      BY <2>2, <3>2 DEF IsLast
  <2>5. pc = "passed"
    BY <1>1, <1>3, <2>1
  <2> QED
    BY <1>1, <1>2, <1>3, <2>1, <2>3, <2>4, <2>5 DEF Fits
<1> QED
  BY <1>4, <1>5

\* A request counted in a window that fits leaves windows.
LEMMA WindowsCounted ==
    ASSUME RateTypeOK, Clocked, NEW CONSTANT w \in [Request -> Instants], Windows(w),
           NEW CONSTANT r \in Request, NEW CONSTANT v \in Instants, NEW CONSTANT n,
           NEW CONSTANT pc, Fits(w, r, v, n, pc), CountedIn(r, v, pc),
           NEW CONSTANT ip, ip = request[r].ip, clock' = clock,
           inner' = [inner EXCEPT ![ip] = [count |-> n + 1, window_start |-> v]]
    PROVE  \E x \in [Request -> Instants] : Windows(x)'
<1>0. /\ ip \in Address /\ clock \in Nat /\ RateWindow \in Nat \ {0} /\ MaxRequests \in Nat \ {0}
      /\ v \in Nat /\ n \in Nat /\ n + 1 # 0
      /\ inner \in [Address -> RateLimitEntry \cup {NoEntry}]
      /\ \A s \in Request : w[s] \in Nat /\ w[s] \in Instants
      /\ \A s \in Request : request[s].at \in Nat
      /\ pc \in {"passed", "limited"}
  <2>1. n \in Nat /\ pc \in {"passed", "limited"}
    BY DEF Fits
  <2>2. n + 1 # 0
    BY <2>1
  <2> QED
    BY <2>1, <2>2, RateNumbers, Typed DEF RateTypeOK
<1>1. PICK x \in [Request -> Instants] : Recounted(x, w, r, v)
  BY DEF Recounted
<1>2. /\ x[r] = v /\ \A s \in Request \ {r} : x[s] = w[s] /\ request'[s] = request[s]
      /\ request'[r].pc = pc /\ request'[r].ip = ip /\ request'[r].at = request[r].at
      /\ request[r].pc = "read"
  BY <1>1 DEF RateTypeOK, CountedIn, Recounted
<1>3. \A s \in Request, a \in Address :
         Counted(s, a)' <=> IF s = r THEN a = ip ELSE Counted(s, a)
  BY <1>0, <1>2 DEF Counted
<1>4. \A a \in Address, u \in Instants :
         Cardinality(PassedOf(x, a, u))' =
            Cardinality(PassedOf(w, a, u)) + (IF pc = "passed" /\ a = ip /\ u = v THEN 1 ELSE 0)
  <2> SUFFICES ASSUME NEW CONSTANT a \in Address, NEW CONSTANT u \in Instants
               PROVE  Cardinality(PassedOf(x, a, u))'
                      = Cardinality(PassedOf(w, a, u))
                        + (IF pc = "passed" /\ a = ip /\ u = v THEN 1 ELSE 0)
    OBVIOUS
  <2>1. pc \in {"passed", "limited"} /\ a \in Address /\ u \in Instants
        /\ CountedIn(r, v, pc) /\ Recounted(x, w, r, v)
    BY <1>0, <1>1
  <2>2. Cardinality(PassedOf(x, a, u))'
        = Cardinality(PassedOf(w, a, u))
          + (IF pc = "passed" /\ a = request[r].ip /\ u = v THEN 1 ELSE 0)
    BY <2>1, PassedCount
  <2> QED
    BY <2>2
<1>5. \A a \in Address, u \in Instants :
         Opened(w, a, u) \/ (a = ip /\ u = v) => Opened(x, a, u)'
  <2> SUFFICES ASSUME NEW CONSTANT a \in Address, NEW CONSTANT u \in Instants,
                      Opened(w, a, u) \/ (a = ip /\ u = v)
               PROVE  Opened(x, a, u)'
    OBVIOUS
  <2>1. ASSUME Opened(w, a, u) PROVE Opened(x, a, u)'
    <3>1. PICK o \in Request : /\ request[o].pc = "passed" /\ request[o].ip = a
                               /\ w[o] = u /\ request[o].at = u
      BY <2>1 DEF Opened
    <3>2. o # r
      BY <1>2, <3>1
    <3> QED
      BY <1>2, <3>1, <3>2 DEF Opened
  <2>2. ASSUME a = ip, u = v, ~Opened(w, a, u) PROVE Opened(x, a, u)'
    <3>1. request[r].at = v /\ pc = "passed"
      BY <2>2 DEF Fits
    <3> QED
      BY <1>2, <2>2, <3>1 DEF Opened
  <2> QED
    BY <2>1, <2>2
<1>6. /\ \A a \in Address : /\ lag[a] \in Nat /\ lag'[a] \in Nat /\ lag[a] <= lag'[a]
                            /\ a # ip => lag'[a] = lag[a]
                            /\ Prompt(a)' => Prompt(a)
      /\ clock <= request[r].at + lag'[ip]
      /\ Prompt(ip)' => Timely(r)
  <2>1. /\ \A a \in Address : lag[a] \in Nat
        /\ lag' = [lag EXCEPT ![ip] = Longer(lag[ip], Elapsed(clock, request[r].at))]
        /\ request[r].at <= clock /\ Elapsed(clock, request[r].at) = clock - request[r].at
    BY <1>0, <1>2, Typed DEF CountedIn, Clocked, Elapsed
  <2>2. \A a \in Address : lag'[a] = IF a = ip THEN Longer(lag[a], clock - request[r].at) ELSE lag[a]
    BY <1>0, <2>1 DEF RateTypeOK
  <2>3. \A a \in Address : lag'[a] \in Nat /\ lag[a] <= lag'[a]
    BY <1>0, <2>1, <2>2 DEF Longer
  <2>4. clock <= request[r].at + lag'[ip]
    BY <1>0, <2>1, <2>2 DEF Longer
  <2> QED
    BY <1>0, <2>1, <2>2, <2>3, <2>4 DEF Prompt, Timely
<1>7. \A a \in Address : \A s \in Request :
         Counted(s, a)' /\ s # r =>
            Counted(s, a) /\ x[s] = w[s] /\ request'[s] = request[s] /\ w[s] \in Instants
  BY <1>0, <1>2, <1>3
<1>8. Within(x)'
  <2> SUFFICES ASSUME NEW CONSTANT a \in Address, NEW CONSTANT s \in Request, Counted(s, a)'
      PROVE  x[s] <= request'[s].at + lag'[a] /\ request'[s].at < x[s] + RateWindow
    BY DEF Within
  <2>1. CASE s = r
    <3>1. a = ip /\ x[s] = v /\ request'[s].at = request[r].at
      BY <1>2, <1>3, <2>1
    <3>2. v <= clock /\ request[r].at < v + RateWindow
      BY DEF Fits
    <3>3. clock <= request[r].at + lag'[ip] /\ lag'[ip] \in Nat /\ request[r].at \in Nat
      BY <1>0, <1>6
    <3> QED
      BY <1>0, <3>1, <3>2, <3>3
  <2>2. CASE s # r
    <3>1. Counted(s, a) /\ x[s] = w[s] /\ request'[s] = request[s]
      BY <1>7, <2>2
    <3>2. w[s] <= request[s].at + lag[a] /\ request[s].at < w[s] + RateWindow
      BY <3>1 DEF Windows, Within
    <3>3. /\ lag[a] <= lag'[a] /\ lag[a] \in Nat /\ lag'[a] \in Nat
          /\ w[s] \in Nat /\ request[s].at \in Nat
      BY <1>0, <1>6
    <3> QED
      BY <3>1, <3>2, <3>3
  <2> QED
    BY <2>1, <2>2
<1>9. Apart(x)'
  <2> SUFFICES ASSUME NEW CONSTANT a \in Address, NEW CONSTANT q \in Request,
                      NEW CONSTANT s \in Request, Prompt(a)', Counted(q, a)', Counted(s, a)'
      PROVE  x[q] = x[s] \/ x[q] + RateWindow <= x[s] \/ x[s] + RateWindow <= x[q]
    BY DEF Apart
  <2>1. CASE q # r /\ s # r
    <3>1. /\ Counted(q, a) /\ x[q] = w[q] /\ Counted(s, a) /\ x[s] = w[s]
      BY <1>7, <2>1
    <3>2. Prompt(a)
      BY <1>6
    <3> QED
      BY <3>1, <3>2 DEF Windows, Apart
  <2>2. CASE q = r \/ s = r
    <3>1. a = ip /\ Timely(r)
      BY <1>3, <1>6, <2>2
    <3>2. \A o \in Request : Counted(o, ip) => w[o] = v \/ w[o] + RateWindow <= v
      BY <3>1 DEF Fits, IsLast
    <3> QED
      BY <1>0, <1>2, <1>7, <2>2, <3>1, <3>2
  <2> QED
    BY <2>1, <2>2
<1>10. /\ Cardinality(PassedOf(x, ip, v))' \in Nat
       /\ Cardinality(PassedOf(x, ip, v))' >= UpToLimit(n + 1)
       /\ Prompt(ip)' => Cardinality(PassedOf(x, ip, v))' <= UpToLimit(n + 1)
  <2>1. /\ Cardinality(PassedOf(w, ip, v)) \in Nat
        /\ Cardinality(PassedOf(w, ip, v)) >= UpToLimit(n)
        /\ Prompt(ip)' => Cardinality(PassedOf(w, ip, v)) <= UpToLimit(n)
        /\ pc = IF n + 1 <= MaxRequests THEN "passed" ELSE "limited"
    BY <1>6, PassedFinite DEF Fits, IsLast
  <2>2. Cardinality(PassedOf(x, ip, v))' =
           Cardinality(PassedOf(w, ip, v)) + (IF pc = "passed" THEN 1 ELSE 0)
    BY <1>0, <1>4
  <2> QED
    BY <1>0, <2>1, <2>2 DEF UpToLimit
<1>11. Full(x)'
  <2> SUFFICES ASSUME NEW CONSTANT a \in Address, NEW CONSTANT s \in Request, Counted(s, a)'
      PROVE  /\ Opened(x, a, x[s])'
             /\ request'[s].pc = "limited" => Cardinality(PassedOf(x, a, x[s]))' >= MaxRequests
             /\ Prompt(a)' => Cardinality(PassedOf(x, a, x[s]))' <= MaxRequests
    BY DEF Full
  <2>1. CASE s = r
    <3>1. a = ip /\ x[s] = v
      BY <1>2, <1>3, <2>1
    <3>2. Opened(x, a, x[s])'
      BY <1>0, <1>5, <3>1
    <3>3. request'[s].pc = "limited" => UpToLimit(n + 1) = MaxRequests
      BY <1>0, <1>2, <2>1 DEF Fits, UpToLimit
    <3>4. UpToLimit(n + 1) <= MaxRequests
      BY <1>0 DEF UpToLimit
    <3> QED
      BY <1>0, <1>10, <3>1, <3>2, <3>3, <3>4 DEF UpToLimit
  <2>2. CASE s # r
    <3>1. Counted(s, a) /\ x[s] = w[s] /\ request'[s] = request[s] /\ w[s] \in Instants
      BY <1>7, <2>2
    <3>2. /\ Opened(w, a, w[s])
          /\ request[s].pc = "limited" => Cardinality(PassedOf(w, a, w[s])) >= MaxRequests
          /\ Prompt(a) => Cardinality(PassedOf(w, a, w[s])) <= MaxRequests
      BY <3>1 DEF Windows, Full
    <3>3. Opened(x, a, x[s])'
      BY <1>5, <3>1, <3>2
    <3>4. /\ Cardinality(PassedOf(w, a, w[s])) \in Nat
          /\ Cardinality(PassedOf(x, a, x[s]))' =
                Cardinality(PassedOf(w, a, w[s]))
                + (IF pc = "passed" /\ a = ip /\ w[s] = v THEN 1 ELSE 0)
      BY <1>4, <3>1, PassedFinite
    <3>5. CASE a = ip /\ w[s] = v
      <4>1. Prompt(a)' => Cardinality(PassedOf(x, a, x[s]))' <= MaxRequests
        BY <1>0, <1>10, <3>1, <3>5 DEF UpToLimit
      <4>2. request'[s].pc = "limited" => Cardinality(PassedOf(x, a, x[s]))' >= MaxRequests
        BY <1>0, <3>1, <3>2, <3>4
      <4> QED
        BY <3>3, <4>1, <4>2
    <3>6. CASE ~(a = ip /\ w[s] = v)
      <4>1. Cardinality(PassedOf(x, a, x[s]))' = Cardinality(PassedOf(w, a, w[s]))
        BY <3>4, <3>6
      <4>2. Prompt(a)' => Prompt(a)
        BY <1>6
      <4> QED
        BY <3>1, <3>2, <3>3, <4>1, <4>2
    <3> QED
      BY <3>5, <3>6
  <2> QED
    BY <2>1, <2>2
<1>12. Latest(x)'
  <2> SUFFICES ASSUME NEW CONSTANT a \in Address
      PROVE  IF inner'[a] = NoEntry THEN Prompt(a)' => Over(x, a)'
             ELSE /\ IsOpen(x, a, inner[a].window_start, inner[a].count)'
                  /\ Prompt(a)' => IsLast(x, a, inner[a].window_start, inner[a].count)'
    BY DEF Latest
  <2>1. CASE a = ip
    <3>1. inner'[a] = [count |-> n + 1, window_start |-> v] /\ inner'[a] # NoEntry
      <4>1. [count |-> n + 1, window_start |-> v] \in RateLimitEntry
        BY <1>0 DEF RateLimitEntry
      <4> QED
        BY <1>0, <2>1, <4>1, RateNumbers
    <3>2. inner'[a].window_start = v /\ inner'[a].count = n + 1
      BY <3>1
    <3>3. v <= clock'
      BY DEF Fits
    <3>4. ASSUME Prompt(a)'
          PROVE  \A s \in Request : Counted(s, a)' => x[s] = v \/ x[s] + RateWindow <= v
      <4>1. \A o \in Request : Counted(o, ip) => w[o] = v \/ w[o] + RateWindow <= v
        BY <1>6, <2>1, <3>4 DEF Fits, IsLast
      <4> QED
        BY <1>2, <1>7, <2>1, <4>1
    <3>5. Opened(x, a, v)'
      BY <1>0, <1>5, <2>1
    <3>6. IsOpen(x, a, inner[a].window_start, inner[a].count)'
      BY <1>10, <2>1, <3>2, <3>3, <3>5 DEF IsOpen
    <3>7. Prompt(a)' => IsLast(x, a, inner[a].window_start, inner[a].count)'
      BY <1>10, <2>1, <3>2, <3>4 DEF IsLast
    <3> QED
      BY <3>1, <3>6, <3>7
  <2>2. CASE a # ip
    <3>0. Prompt(a)' => Prompt(a)
      BY <1>6
    <3>1. inner'[a] = inner[a] /\ (Prompt(a)' => Prompt(a))
      BY <1>0, <2>2, <3>0
    <3>2. \A s \in Request : Counted(s, a)' => Counted(s, a) /\ x[s] = w[s]
      BY <1>2, <1>3, <2>2
    <3>3. \A u \in Instants : /\ Cardinality(PassedOf(x, a, u))' = Cardinality(PassedOf(w, a, u))
                              /\ Opened(w, a, u) => Opened(x, a, u)'
      <4>1. \A u \in Instants : Cardinality(PassedOf(w, a, u)) \in Nat
        BY PassedFinite
      <4> QED
        BY <1>4, <1>5, <2>2, <4>1
    <3>4. CASE inner[a] = NoEntry
      BY <3>1, <3>2, <3>4 DEF Windows, Latest, Over
    <3>5. CASE inner[a] # NoEntry
      <4>1. inner[a].window_start \in Instants
        BY <1>0, <3>5 DEF RateLimitEntry
      <4>2. /\ IsOpen(w, a, inner[a].window_start, inner[a].count)
            /\ Prompt(a) => IsLast(w, a, inner[a].window_start, inner[a].count)
        BY <3>5 DEF Windows, Latest
      <4>3. IsOpen(x, a, inner[a].window_start, inner[a].count)'
        BY <3>1, <3>3, <4>1, <4>2 DEF IsOpen
      <4>4. Prompt(a)' => IsLast(x, a, inner[a].window_start, inner[a].count)'
        BY <3>1, <3>2, <3>3, <4>1, <4>2 DEF IsLast
      <4> QED
        BY <3>1, <3>5, <4>3, <4>4
    <3> QED
      BY <3>4, <3>5
  <2> QED
    BY <2>1, <2>2
<1>13. Windows(x)'
  BY <1>8, <1>9, <1>11, <1>12 DEF Windows
<1> QED
  BY <1>13

-----------------------------------------------------------------------------
\* Before the first request there are no windows.
LEMMA InitIInv == RateInit => IInv
<1> SUFFICES ASSUME RateInit PROVE IInv
  OBVIOUS
<1>1. RateTypeOK
  BY InitRateTypeOK
<1>2. \A r \in Request, ip \in Address : request[r].pc = "new" /\ inner[ip] = NoEntry
  BY DEF RateInit
<1>3. Clocked
  BY <1>2, RateNumbers DEF RateInit, Clocked
<1>4. PICK w \in [Request -> Instants] : w = [r \in Request |-> 0]
  BY RateNumbers
<1>5. \A r \in Request, ip \in Address : ~Counted(r, ip)
  BY <1>2 DEF Counted
<1>6. Windows(w)
  <2>1. Within(w) /\ Apart(w) /\ Full(w)
    BY <1>5 DEF Within, Apart, Full
  <2>2. Latest(w)
    BY <1>2, <1>5 DEF Latest, Over, RateInit
  <2> QED
    BY <2>1, <2>2 DEF Windows
<1> QED
  BY <1>1, <1>3, <1>6 DEF IInv

\* Every step keeps the windows: a check counts a request, the others are quiet.
LEMMA NextIInv == IInv /\ [RateNext]_rateVars => IInv'
<1> SUFFICES ASSUME IInv, [RateNext]_rateVars PROVE IInv'
  OBVIOUS
<1>1. RateTypeOK /\ Clocked /\ RateTypeOK' /\ Clocked'
  BY NextRateTypeOK, NextClocked DEF IInv
<1>2. PICK w \in [Request -> Instants] : Windows(w)
  BY DEF IInv
<1>3. ASSUME NEW r \in Request, Check(r) PROVE \E x \in [Request -> Instants] : Windows(x)'
  <2> DEFINE ip == request[r].ip
             e == CurrentEntry(ip, request[r].at)
             pc == IF Allowed(e.count + 1) THEN "passed" ELSE "limited"
  <2>1. e.window_start \in Instants /\ Fits(w, r, e.window_start, e.count, pc)
    BY <1>1, <1>2, <1>3, CheckFits DEF Check
  <2>2. CountedIn(r, e.window_start, pc)
    BY <1>3 DEF Check, CountedIn
  <2>3. inner' = [inner EXCEPT ![ip] = [count |-> e.count + 1, window_start |-> e.window_start]]
    <3>1. e \in RateLimitEntry
      BY <1>1, EntryType DEF RateTypeOK
    <3>2. [e EXCEPT !.count = @ + 1] = [count |-> e.count + 1, window_start |-> e.window_start]
      BY <3>1 DEF RateLimitEntry
    <3> QED
      BY <1>3, <3>2 DEF Check
  <2>4. clock' = clock
    BY <1>3 DEF Check
  <2> HIDE DEF ip, e, pc
  <2> QED
    BY <1>1, <1>2, <2>1, <2>2, <2>3, <2>4, WindowsCounted DEF ip
<1>4. ASSUME \/ \E r \in Request : ReadClock(r)
             \/ SweepBegin \/ RateTick \/ UNCHANGED rateVars
      PROVE  \E x \in [Request -> Instants] : Windows(x)'
  <2>1. /\ \A r \in Request : \/ request'[r] = request[r]
                              \/ request[r].pc = "new" /\ request'[r].pc = "read"
        /\ inner' = inner /\ lag' = lag /\ (clock' = clock \/ clock' = clock + 1)
    <3>1. ASSUME NEW s \in Request, ReadClock(s) PROVE <2>1!:
      BY <1>1, <3>1 DEF ReadClock, RateTypeOK
    <3>2. ASSUME SweepBegin \/ RateTick PROVE <2>1!:
      BY <3>2 DEF SweepBegin, RateTick
    <3>3. ASSUME UNCHANGED rateVars PROVE <2>1!:
      BY <3>3 DEF rateVars
    <3> QED
      BY <1>4, <3>1, <3>2, <3>3
  <2>2. clock <= clock'
    BY <1>1, <2>1, Typed
  <2> QED
    BY <1>1, <1>2, <2>1, <2>2, WindowsQuiet
<1>5. ASSUME NEW ip \in Address, SweepShard(ip)
      PROVE  \E x \in [Request -> Instants] : Windows(x)'
  <2>1. UNCHANGED <<clock, request, lag>>
    BY <1>5 DEF SweepShard, Visited
  <2>2. \A a \in Address :
           \/ inner'[a] = inner[a]
           \/ /\ inner'[a] = NoEntry /\ inner[a] # NoEntry
              /\ inner[a].window_start + 2 * RateWindow <= clock
    <3>1. CASE inner[ip] # NoEntry /\ Forgotten(inner[ip], sweep.at)
      <4>1. /\ inner[ip].window_start \in Nat /\ sweep.at \in Nat /\ clock \in Nat
            /\ sweep.at <= clock /\ RateWindow \in Nat \ {0}
        BY <1>1, <3>1, Typed, RateNumbers DEF Clocked
      <4>2. inner[ip].window_start + 2 * RateWindow <= clock
        BY <3>1, <4>1 DEF Forgotten, Elapsed
      <4> QED
        BY <1>1, <1>5, <3>1, <4>2 DEF SweepShard, Visited, RateTypeOK
    <3>2. CASE ~(inner[ip] # NoEntry /\ Forgotten(inner[ip], sweep.at))
      BY <1>5, <3>2 DEF SweepShard, Visited
    <3> QED
      BY <3>1, <3>2
  <2>3. clock <= clock'
    BY <1>1, <2>1, Typed
  <2> QED
    BY <1>1, <1>2, <2>1, <2>2, <2>3, WindowsQuiet
<1>6. \E x \in [Request -> Instants] : Windows(x)'
  BY <1>3, <1>4, <1>5 DEF RateNext
<1> QED
  BY <1>1, <1>6 DEF IInv

\* In every behaviour, counted requests can be assigned to windows.
THEOREM RateInvariant == RateSpec => []IInv
BY InitIInv, NextIInv, PTL DEF RateSpec

-----------------------------------------------------------------------------
\* A set within the union of two has no more elements than both together.
LEMMA UnionAtMost ==
    ASSUME NEW A, NEW B, IsFiniteSet(A), IsFiniteSet(B), NEW S, S \subseteq A \cup B
    PROVE  /\ IsFiniteSet(A \cup B) /\ IsFiniteSet(S)
           /\ Cardinality(S) <= Cardinality(A) + Cardinality(B)
<1>1. /\ IsFiniteSet(A \cup B) /\ IsFiniteSet(A \cap B)
      /\ Cardinality(A \cup B) = Cardinality(A) + Cardinality(B) - Cardinality(A \cap B)
  BY FS_Union, FS_Intersection
<1>2. IsFiniteSet(S) /\ Cardinality(S) <= Cardinality(A \cup B)
  BY <1>1, FS_Subset
<1>3. /\ Cardinality(S) \in Nat /\ Cardinality(A) \in Nat /\ Cardinality(B) \in Nat
      /\ Cardinality(A \cap B) \in Nat
  BY <1>1, <1>2, FS_CardinalityType
<1> QED
  BY <1>1, <1>2, <1>3

\* What a set of at most Max loses with an element of its own.
LEMMA WithoutOne ==
    ASSUME NEW A, IsFiniteSet(A), NEW a \in A, Cardinality(A) <= MaxRequests
    PROVE  IsFiniteSet(A \ {a}) /\ Cardinality(A \ {a}) <= MaxRequests - 1
<1>1. /\ IsFiniteSet(A \ {a}) /\ Cardinality(A \ {a}) = Cardinality(A) - 1
      /\ Cardinality(A) \in Nat
  BY FS_RemoveElement, FS_CardinalityType
<1> QED
  BY <1>1, RateNumbers

\* Two windows, one of which lacks an element.
LEMMA OfTwo ==
    ASSUME NEW A, NEW B, IsFiniteSet(A), IsFiniteSet(B), NEW b \in B,
           Cardinality(A) <= MaxRequests, Cardinality(B) <= MaxRequests,
           NEW S, S \subseteq A \cup (B \ {b})
    PROVE  Cardinality(S) < 2 * MaxRequests
<1>1. IsFiniteSet(B \ {b}) /\ Cardinality(B \ {b}) <= MaxRequests - 1
  BY WithoutOne
<1>2. IsFiniteSet(S) /\ Cardinality(S) <= Cardinality(A) + Cardinality(B \ {b})
  BY <1>1, UnionAtMost
<1>3. Cardinality(S) \in Nat /\ Cardinality(A) \in Nat /\ Cardinality(B \ {b}) \in Nat
  BY <1>1, <1>2, FS_CardinalityType
<1> QED
  BY <1>1, <1>2, <1>3, RateNumbers

\* Three windows, two of which lack an element.
LEMMA OfThree ==
    ASSUME NEW A, NEW B, NEW C, IsFiniteSet(A), IsFiniteSet(B), IsFiniteSet(C),
           NEW a \in A, NEW c \in C,
           Cardinality(A) <= MaxRequests, Cardinality(B) <= MaxRequests,
           Cardinality(C) <= MaxRequests,
           NEW S, S \subseteq ((A \ {a}) \cup B) \cup (C \ {c})
    PROVE  Cardinality(S) < 3 * MaxRequests - 1
<1> DEFINE D == A \ {a}
           E == C \ {c}
<1>1. /\ IsFiniteSet(D) /\ Cardinality(D) <= MaxRequests - 1
      /\ IsFiniteSet(E) /\ Cardinality(E) <= MaxRequests - 1
  BY WithoutOne
<1>2. IsFiniteSet(D \cup B) /\ Cardinality(D \cup B) <= Cardinality(D) + Cardinality(B)
  <2> HIDE DEF D
  <2> QED
    BY <1>1, UnionAtMost
<1>3. IsFiniteSet(S) /\ Cardinality(S) <= Cardinality(D \cup B) + Cardinality(E)
  <2>1. S \subseteq (D \cup B) \cup E
    OBVIOUS
  <2> HIDE DEF D, E
  <2> QED
    BY <1>1, <1>2, <2>1, UnionAtMost
<1>4. /\ Cardinality(S) \in Nat /\ Cardinality(D) \in Nat /\ Cardinality(B) \in Nat
      /\ Cardinality(E) \in Nat /\ Cardinality(D \cup B) \in Nat
  BY <1>1, <1>2, <1>3, FS_CardinalityType
<1> HIDE DEF D, E
<1> QED
  BY <1>1, <1>2, <1>3, <1>4, RateNumbers

\* What passed in an interval of a window's length that starts at t.
Burst(ip, t) == PassedIn(ip, t, t + RateWindow - 1)

\* A request of the burst lies in a window that meets the interval, and the window has
\* an opener and no more than the limit.
LEMMA BurstMember ==
    ASSUME RateTypeOK, NEW w \in [Request -> Instants], Windows(w),
           NEW ip \in Address, Prompt(ip), NEW t \in Instants
    PROVE  /\ t \in Nat /\ RateWindow \in Nat \ {0} /\ lag[ip] \in Nat /\ lag[ip] <= RateWindow
           /\ \A q \in Burst(ip, t) :
                 /\ Counted(q, ip) /\ q \in PassedOf(w, ip, w[q]) /\ w[q] \in Nat
                 /\ t <= request[q].at /\ request[q].at < t + RateWindow
                 /\ w[q] <= request[q].at + lag[ip] /\ request[q].at < w[q] + RateWindow
                 /\ Opened(w, ip, w[q])
                 /\ IsFiniteSet(PassedOf(w, ip, w[q]))
                 /\ Cardinality(PassedOf(w, ip, w[q])) <= MaxRequests
           /\ \A q \in Request : request[q].at \in Nat
           /\ \A q, s \in Burst(ip, t) :
                 w[q] = w[s] \/ w[q] + RateWindow <= w[s] \/ w[s] + RateWindow <= w[q]
<1>1. /\ t \in Nat /\ RateWindow \in Nat \ {0} /\ lag[ip] \in Nat /\ lag[ip] <= RateWindow
      /\ \A q \in Request : request[q].at \in Nat /\ w[q] \in Nat
  BY RateNumbers, Typed DEF Prompt
<1>2. \A q \in Burst(ip, t) : /\ q \in Request /\ Counted(q, ip) /\ q \in PassedOf(w, ip, w[q])
                             /\ t <= request[q].at /\ request[q].at < t + RateWindow
  BY <1>1 DEF Burst, PassedIn, Counted, PassedOf
<1>3. \A q \in Burst(ip, t) :
         /\ w[q] <= request[q].at + lag[ip] /\ request[q].at < w[q] + RateWindow
         /\ Opened(w, ip, w[q])
         /\ Cardinality(PassedOf(w, ip, w[q])) <= MaxRequests
  BY <1>2 DEF Windows, Within, Full
<1>4. \A q \in Burst(ip, t) : IsFiniteSet(PassedOf(w, ip, w[q]))
  BY PassedFinite
<1>5. \A q, s \in Burst(ip, t) :
         w[q] = w[s] \/ w[q] + RateWindow <= w[s] \/ w[s] + RateWindow <= w[q]
  BY <1>2 DEF Windows, Apart
<1> QED
  BY <1>1, <1>2, <1>3, <1>4, <1>5

\* One window passes no more than the limit.
LEMMA OneWindow ==
    ASSUME RateTypeOK, NEW w \in [Request -> Instants], Windows(w),
           NEW ip \in Address, Prompt(ip), NEW t \in Instants,
           \A q, s \in Burst(ip, t) : w[q] = w[s]
    PROVE  Cardinality(Burst(ip, t)) < 2 * MaxRequests
<1>1. CASE Burst(ip, t) = {}
  <2>1. Cardinality(Burst(ip, t)) = 0
    BY <1>1, FS_EmptySet
  <2> QED
    BY <2>1, RateNumbers
<1>2. CASE Burst(ip, t) # {}
  <2>1. PICK r \in Burst(ip, t) : TRUE
    BY <1>2
  <2>2. Burst(ip, t) \subseteq PassedOf(w, ip, w[r])
    <3>1. \A q \in Burst(ip, t) : q \in PassedOf(w, ip, w[q]) /\ w[q] = w[r]
      BY <2>1, BurstMember
    <3> QED
      BY <3>1
  <2>3. /\ IsFiniteSet(PassedOf(w, ip, w[r]))
        /\ Cardinality(PassedOf(w, ip, w[r])) <= MaxRequests
    BY <2>1, BurstMember
  <2>4. /\ Cardinality(Burst(ip, t)) <= Cardinality(PassedOf(w, ip, w[r]))
        /\ Cardinality(Burst(ip, t)) \in Nat /\ Cardinality(PassedOf(w, ip, w[r])) \in Nat
    BY <2>2, <2>3, FS_Subset, FS_CardinalityType
  <2> QED
    BY <2>3, <2>4, RateNumbers
<1> QED
  BY <1>1, <1>2

\* Of two windows, the opener of one is not in the interval.
LEMMA TwoWindows ==
    ASSUME RateTypeOK, NEW w \in [Request -> Instants], Windows(w),
           NEW ip \in Address, Prompt(ip), NEW t \in Instants,
           NEW r \in Burst(ip, t), NEW s \in Burst(ip, t), w[r] < w[s],
           \A q \in Burst(ip, t) : w[q] = w[r] \/ w[q] = w[s]
    PROVE  Cardinality(Burst(ip, t)) < 2 * MaxRequests
<1> DEFINE I == Burst(ip, t)
           A == PassedOf(w, ip, w[r])
           B == PassedOf(w, ip, w[s])
<1>1. /\ t \in Nat /\ RateWindow \in Nat \ {0} /\ w[r] \in Nat /\ w[s] \in Nat
      /\ \A q \in I : t <= request[q].at /\ request[q].at < t + RateWindow
      /\ \A q \in Request : request[q].at \in Nat
  BY BurstMember
<1>2. /\ IsFiniteSet(A) /\ IsFiniteSet(B)
      /\ Cardinality(A) <= MaxRequests /\ Cardinality(B) <= MaxRequests
      /\ Opened(w, ip, w[r]) /\ Opened(w, ip, w[s])
  BY BurstMember
<1>3. w[r] + RateWindow <= w[s]
  <2>1. w[r] = w[s] \/ w[r] + RateWindow <= w[s] \/ w[s] + RateWindow <= w[r]
    BY BurstMember
  <2> QED
    BY <1>1, <2>1
<1>4. I \subseteq A \cup B
  <2>1. \A q \in I : q \in PassedOf(w, ip, w[q])
    BY BurstMember
  <2> QED
    BY <2>1
<1>5. CASE t <= w[r]
  <2>1. PICK o \in Request : o \in B /\ request[o].at = w[s]
    BY <1>2 DEF Opened, PassedOf
  <2>2. o \notin I
    BY <1>1, <1>3, <1>5, <2>1
  <2>3. I \subseteq A \cup (B \ {o})
    BY <1>4, <2>2
  <2> HIDE DEF A, B, I
  <2>4. Cardinality(I) < 2 * MaxRequests
    BY <1>2, <2>1, <2>3, OfTwo
  <2> QED
    BY <2>4 DEF I
<1>6. CASE ~(t <= w[r])
  <2>1. PICK o \in Request : o \in A /\ request[o].at = w[r]
    BY <1>2 DEF Opened, PassedOf
  <2>2. o \notin I
    BY <1>1, <1>6, <2>1
  <2>3. I \subseteq B \cup (A \ {o})
    BY <1>4, <2>2
  <2> HIDE DEF A, B, I
  <2>4. Cardinality(I) < 2 * MaxRequests
    BY <1>2, <2>1, <2>3, OfTwo
  <2> QED
    BY <2>4 DEF I
<1> QED
  BY <1>5, <1>6

\* Three windows meet the interval only if a request was later than a tick; there are no
\* more than three, and the openers of the first and the last are not in it.
LEMMA ThreeWindows ==
    ASSUME RateTypeOK, NEW w \in [Request -> Instants], Windows(w),
           NEW ip \in Address, Prompt(ip), NEW t \in Instants,
           NEW q \in Burst(ip, t), NEW r \in Burst(ip, t), NEW s \in Burst(ip, t),
           w[q] < w[r], w[r] < w[s]
    PROVE  lag[ip] > 1 /\ Cardinality(Burst(ip, t)) < 3 * MaxRequests - 1
<1> DEFINE I == Burst(ip, t)
           A == PassedOf(w, ip, w[q])
           B == PassedOf(w, ip, w[r])
           C == PassedOf(w, ip, w[s])
<1>1. /\ t \in Nat /\ RateWindow \in Nat \ {0} /\ lag[ip] \in Nat /\ lag[ip] <= RateWindow
      /\ \A o \in I : /\ w[o] \in Nat /\ t <= request[o].at /\ request[o].at < t + RateWindow
                      /\ w[o] <= request[o].at + lag[ip] /\ request[o].at < w[o] + RateWindow
      /\ \A o \in Request : request[o].at \in Nat
      /\ I \subseteq Request
  BY BurstMember DEF Burst, PassedIn
<1>2. /\ IsFiniteSet(A) /\ IsFiniteSet(B) /\ IsFiniteSet(C)
      /\ Cardinality(A) <= MaxRequests /\ Cardinality(B) <= MaxRequests
      /\ Cardinality(C) <= MaxRequests /\ Opened(w, ip, w[q]) /\ Opened(w, ip, w[s])
  BY BurstMember
<1>3. \A o, p \in I : w[o] = w[p] \/ w[o] + RateWindow <= w[p] \/ w[p] + RateWindow <= w[o]
  BY BurstMember
<1>4. /\ w[q] + RateWindow <= w[r] /\ w[r] + RateWindow <= w[s]
      /\ \A o \in I : /\ w[o] < t + RateWindow + lag[ip]
                      /\ t < w[o] + RateWindow
  BY <1>1, <1>3
<1>5. lag[ip] > 1 /\ w[q] < t /\ t + RateWindow < w[s] + 1
  BY <1>1, <1>4
<1>6. \A o \in I : w[o] = w[q] \/ w[o] = w[r] \/ w[o] = w[s]
  <2> SUFFICES ASSUME NEW o \in I, w[o] # w[q], w[o] # w[r], w[o] # w[s] PROVE FALSE
    OBVIOUS
  <2>1. /\ w[o] + RateWindow <= w[q] \/ w[q] + RateWindow <= w[o]
        /\ w[o] + RateWindow <= w[r] \/ w[r] + RateWindow <= w[o]
        /\ w[o] + RateWindow <= w[s] \/ w[s] + RateWindow <= w[o]
    BY <1>3
  <2>2. /\ w[o] \in Nat /\ w[q] \in Nat /\ w[r] \in Nat /\ w[s] \in Nat
        /\ w[o] < t + RateWindow + lag[ip] /\ t < w[o] + RateWindow
        /\ w[s] < t + RateWindow + lag[ip] /\ t < w[q] + RateWindow
    BY <1>1, <1>4
  <2> QED
    BY <1>1, <1>4, <2>1, <2>2
<1>7. PICK a \in Request : a \in A /\ request[a].at = w[q]
  BY <1>2 DEF Opened, PassedOf
<1>8. PICK c \in Request : c \in C /\ request[c].at = w[s]
  BY <1>2 DEF Opened, PassedOf
<1>9. a \notin I /\ c \notin I
  BY <1>1, <1>5, <1>7, <1>8
<1>10. I \subseteq ((A \ {a}) \cup B) \cup (C \ {c})
  <2>1. \A o \in I : o \in PassedOf(w, ip, w[o])
    BY BurstMember
  <2>2. I \subseteq (A \cup B) \cup C
    BY <1>6, <2>1
  <2> QED
    BY <1>9, <2>2
<1> HIDE DEF A, B, C, I
<1>11. Cardinality(I) < 3 * MaxRequests - 1
  BY <1>2, <1>7, <1>8, <1>10, OfThree
<1> QED
  BY <1>5, <1>11 DEF I

\* What passes in an interval of a window's length is bounded by how late requests were
\* between clock and lock, in whatever order they lock the entry and whenever the cleanup
\* runs (check_rate_limit, cleanup).
THEOREM Bursts == RateSpec => []BoundedBurst
<1>1. IInv => BoundedBurst
  <2> SUFFICES ASSUME IInv PROVE BoundedBurst
    OBVIOUS
  <2>a. RateTypeOK
    BY DEF IInv
  <2>b. \A a \in Address : lag[a] <= 1 => lag[a] <= RateWindow
    BY <2>a, Typed, RateNumbers
  <2> SUFFICES ASSUME NEW ip \in Address, NEW t \in Instants, Prompt(ip)
               PROVE  /\ lag[ip] <= 1 => Cardinality(Burst(ip, t)) < 2 * MaxRequests
                      /\ Cardinality(Burst(ip, t)) < 3 * MaxRequests - 1
    BY <2>b DEF BoundedBurst, Prompt, Burst
  <2> DEFINE I == Burst(ip, t)
  <2>1. PICK w \in [Request -> Instants] : Windows(w)
    BY DEF IInv
  <2>2. RateTypeOK /\ IsFiniteSet(I) /\ Cardinality(I) \in Nat /\ lag[ip] \in Nat
        /\ \A q \in I : w[q] \in Nat
    <3>1. I \in SUBSET Request
      BY DEF Burst, PassedIn
    <3> QED
      BY <2>a, <3>1, RateNumbers, RateLimiterAssumption, Typed, FS_Subset, FS_CardinalityType
  <2>3. CASE \E q, r, s \in I : w[q] < w[r] /\ w[r] < w[s]
    BY <2>1, <2>2, <2>3, ThreeWindows
  <2>4. CASE ~\E q, r, s \in I : w[q] < w[r] /\ w[r] < w[s]
    <3>1. Cardinality(I) < 2 * MaxRequests
      <4>1. CASE \A q, s \in I : w[q] = w[s]
        BY <2>1, <2>2, <4>1, OneWindow
      <4>2. CASE \E q, s \in I : w[q] # w[s]
        <5>1. PICK r \in I, s \in I : w[r] < w[s]
          BY <2>2, <4>2
        <5>2. \A q \in I : w[q] = w[r] \/ w[q] = w[s]
          BY <2>2, <2>4, <5>1
        <5> QED
          BY <2>1, <2>2, <5>1, <5>2, TwoWindows
      <4> QED
        BY <4>1, <4>2
    <3> QED
      BY <2>2, <3>1, RateNumbers
  <2> QED
    BY <2>3, <2>4
<1> QED
  BY <1>1, RateInvariant, PTL

\* Whoever is turned away is so for a full window of requests of his own address
\* (check_rate_limit, cleanup).
THEOREM ForCause == RateSpec => []LimitedForCause
<1>1. IInv => LimitedForCause
  <2> SUFFICES ASSUME IInv, NEW r \in Request, request[r].pc = "limited"
      PROVE  LET ip == request[r].ip
                 away == RateWindow - 1 + lag[ip]
             IN  Cardinality(PassedIn(ip, request[r].at - away, request[r].at + away))
                     >= MaxRequests
    BY DEF LimitedForCause
  <2> DEFINE ip == request[r].ip
             away == RateWindow - 1 + lag[ip]
             J == PassedIn(ip, request[r].at - away, request[r].at + away)
  <2>1. PICK w \in [Request -> Instants] : Windows(w)
    BY DEF IInv
  <2>2. RateTypeOK /\ ip \in Address /\ Counted(r, ip) /\ w[r] \in Nat /\ request[r].at \in Nat
        /\ RateWindow \in Nat \ {0} /\ lag[ip] \in Nat
    BY RateNumbers, Typed DEF IInv, Counted
  <2>3. Cardinality(PassedOf(w, ip, w[r])) >= MaxRequests
    BY <2>1, <2>2 DEF Windows, Full
  <2>4. PassedOf(w, ip, w[r]) \subseteq J
    <3> SUFFICES ASSUME NEW q \in PassedOf(w, ip, w[r]) PROVE q \in J
      OBVIOUS
    <3>1. /\ q \in Request /\ Counted(q, ip) /\ w[q] = w[r] /\ request[q].at \in Nat
          /\ request[q].pc = "passed" /\ request[q].ip = ip
      BY <2>2, Typed DEF PassedOf, Counted
    <3>2. /\ w[r] <= request[r].at + lag[ip] /\ request[r].at < w[r] + RateWindow
          /\ w[r] <= request[q].at + lag[ip] /\ request[q].at < w[r] + RateWindow
      BY <2>1, <2>2, <3>1 DEF Windows, Within
    <3> QED
      BY <2>2, <3>1, <3>2 DEF PassedIn
  <2>5. /\ IsFiniteSet(J) /\ Cardinality(J) \in Nat
        /\ Cardinality(PassedOf(w, ip, w[r])) \in Nat
    <3>1. J \in SUBSET Request
      BY DEF PassedIn
    <3> QED
      BY <3>1, RateLimiterAssumption, PassedFinite, FS_Subset, FS_CardinalityType
  <2>6. Cardinality(PassedOf(w, ip, w[r])) <= Cardinality(J)
    BY <2>4, <2>5, FS_Subset
  <2> QED
    BY <2>3, <2>5, <2>6, RateNumbers
<1> QED
  BY <1>1, RateInvariant, PTL

-----------------------------------------------------------------------------
(* The connection limiter.                                                 *)

\* The numbers that the arguments below are about.
LEMMA SlotNumbers ==
    /\ Cardinality(Caller) \in Nat
    /\ MaxGlobal \in Nat /\ MaxRelease \in Nat /\ Word \in Nat
    /\ MaxGlobal + Cardinality(Caller) + MaxRelease < Word
BY DdosAssumption, FS_CardinalityType

\* The counter starts within the types (DdosProtection::new).
LEMMA InitSlotTypeOK == Init => TypeOK
<1> SUFFICES ASSUME Init PROVE TypeOK
  OBVIOUS
<1>1. 0 \in Time /\ 0 \in 0..(Word - 1) /\ 0 \in 0..MaxRelease
  BY SlotNumbers, DdosAssumption DEF Time
<1>2. conn \in [Caller -> [pc: ConnPc, since: Time]]
  BY <1>1 DEF Init, ConnPc
<1> QED
  BY <1>1, <1>2 DEF Init, TypeOK

\* A wrapping counter stays within its word (fetch_add, fetch_sub).
LEMMA CounterType ==
    ASSUME NEW n \in 0..(Word - 1)
    PROVE  Up(n) \in 0..(Word - 1) /\ Down(n) \in 0..(Word - 1)
BY SlotNumbers DEF Up, Down

\* Counting a request gives a record again (check_connection).
LEMMA RecordType ==
    ASSUME TypeOK, NEW ip \in Ip, NEW t \in Time
    PROVE  /\ Current(ip, t) \in ConnectionRecord
           /\ [Current(ip, t) EXCEPT !.count = @ + 1] \in ConnectionRecord
<1>1. record[ip] \in ConnectionRecord \cup {Absent}
  BY DEF TypeOK
<1>2. Current(ip, t) \in ConnectionRecord
  <2>1. [count |-> 0, window_start |-> t] \in ConnectionRecord
    BY DEF ConnectionRecord
  <2> QED
    BY <1>1, <2>1 DEF Current
<1>3. [Current(ip, t) EXCEPT !.count = @ + 1] \in ConnectionRecord
  BY <1>2 DEF ConnectionRecord
<1> QED
  BY <1>2, <1>3

\* Every step keeps the types.
LEMMA NextSlotTypeOK == TypeOK /\ [Next]_vars => TypeOK'
<1> SUFFICES ASSUME TypeOK, [Next]_vars PROVE TypeOK'
  OBVIOUS
<1>1. ASSUME NEW c \in Caller, TakeSlot(c) PROVE TypeOK'
  BY <1>1, CounterType DEF TakeSlot, TypeOK, ConnPc
<1>2. ASSUME NEW c \in Caller, ReturnSlot(c) PROVE TypeOK'
  BY <1>2, CounterType DEF ReturnSlot, TypeOK, ConnPc
<1>3. ASSUME NEW c \in Caller, NEW ip \in Ip, NEW t \in Time, CountIp(c, ip, t) PROVE TypeOK'
  <2>1. record' \in [Ip -> ConnectionRecord \cup {Absent}]
    BY <1>3, RecordType DEF CountIp, TypeOK
  <2>2. conn' \in [Caller -> [pc: ConnPc, since: Time]]
    BY <1>3 DEF CountIp, TypeOK, ConnPc
  <2> QED
    BY <1>3, <2>1, <2>2 DEF CountIp, TypeOK
<1>4. ASSUME NEW c \in Caller, Release(c) PROVE TypeOK'
  BY <1>4, CounterType DEF Release, TypeOK, ConnPc
<1>5. ASSUME NEW c \in Caller, ReleaseAnyway(c) PROVE TypeOK'
  <2>1. released' \in 0..MaxRelease
    BY <1>5, SlotNumbers DEF ReleaseAnyway, TypeOK
  <2> QED
    BY <1>5, <2>1, CounterType DEF ReleaseAnyway, TypeOK
<1>6. ASSUME Tick PROVE TypeOK'
  BY <1>6, DdosAssumption DEF Tick, TypeOK, Time
<1>7. ASSUME UNCHANGED vars PROVE TypeOK'
  BY <1>7 DEF vars, TypeOK
<1> QED
  BY <1>1, <1>2, <1>3, <1>4, <1>5, <1>6, <1>7 DEF Next

\* The counter and the records have their types in every behaviour.
THEOREM SlotTypeCorrect == Spec => []TypeOK
BY InitSlotTypeOK, NextSlotTypeOK, PTL DEF Spec

-----------------------------------------------------------------------------
\* The callers at some places are finitely many.
LEMMA AtFinite ==
    ASSUME NEW P
    PROVE  /\ IsFiniteSet(At(P)) /\ Cardinality(At(P)) \in Nat
           /\ Cardinality(At(P)) <= Cardinality(Caller)
BY DdosAssumption, FS_Subset, FS_CardinalityType DEF At

\* One caller moves to the place q, the others stay.
Moves(c, q) ==
    \A d \in Caller : conn'[d].pc = IF d = c THEN q ELSE conn[d].pc

\* What a move does to the number of callers at the places P.
LEMMA AtMoved ==
    ASSUME NEW CONSTANT P, NEW CONSTANT c \in Caller, NEW CONSTANT q, Moves(c, q)
    PROVE  Cardinality(At(P))' =
             IF q \in P
             THEN IF conn[c].pc \in P THEN Cardinality(At(P)) ELSE Cardinality(At(P)) + 1
             ELSE IF conn[c].pc \in P THEN Cardinality(At(P)) - 1 ELSE Cardinality(At(P))
<1>1. c \in At(P) <=> conn[c].pc \in P
  BY DEF At
<1>2. CASE q \in P
  <2>1. At(P)' = At(P) \cup {c}
    BY <1>2 DEF At, Moves
  <2> QED
    BY <1>1, <1>2, <2>1, AtFinite, FS_AddElement
<1>3. CASE q \notin P
  <2>1. At(P)' = At(P) \ {c}
    BY <1>3 DEF At, Moves
  <2> QED
    BY <1>1, <1>3, <2>1, AtFinite, FS_RemoveElement
<1> QED
  BY <1>2, <1>3

\* The two counts that SlotsHeld relates to the counter.
Beyond == Cardinality(At({"over"}))
Held == Cardinality(At({"counted", "in"}))

\* They are counts of callers.
LEMMA CountTypes == Beyond \in Nat /\ Held \in Nat /\ Beyond <= Cardinality(Caller)
BY AtFinite DEF Beyond, Held

\* So are they after a step.
LEMMA NextCountTypes == Beyond' \in Nat /\ Held' \in Nat /\ Beyond' <= Cardinality(Caller)
<1>1. ASSUME NEW S, S \in SUBSET Caller
      PROVE  Cardinality(S) \in Nat /\ Cardinality(S) <= Cardinality(Caller)
  BY <1>1, DdosAssumption, FS_Subset, FS_CardinalityType
<1>2. At({"over"})' \in SUBSET Caller /\ At({"counted", "in"})' \in SUBSET Caller
  BY DEF At
<1> QED
  BY <1>1, <1>2 DEF Beyond, Held

\* What a move does to them, place by place.
LEMMA CountsMoved ==
    ASSUME NEW CONSTANT c \in Caller, NEW CONSTANT q, Moves(c, q)
    PROVE  /\ conn[c].pc = "out" /\ q = "counted" => Beyond' = Beyond /\ Held' = Held + 1
           /\ conn[c].pc = "out" /\ q = "over" => Beyond' = Beyond + 1 /\ Held' = Held
           /\ conn[c].pc = "over" /\ q = "out" => Beyond' = Beyond - 1 /\ Held' = Held
           /\ conn[c].pc = "counted" /\ q = "in" => Beyond' = Beyond /\ Held' = Held
           /\ conn[c].pc \in {"counted", "in"} /\ q = "out" => Beyond' = Beyond /\ Held' = Held - 1
<1>1. Beyond' = IF q = "over"
              THEN IF conn[c].pc = "over" THEN Beyond ELSE Beyond + 1
              ELSE IF conn[c].pc = "over" THEN Beyond - 1 ELSE Beyond
  BY AtMoved DEF Beyond
<1>2. Held' = IF q \in {"counted", "in"}
              THEN IF conn[c].pc \in {"counted", "in"} THEN Held ELSE Held + 1
              ELSE IF conn[c].pc \in {"counted", "in"} THEN Held - 1 ELSE Held
  BY AtMoved DEF Held
<1> QED
  BY <1>1, <1>2

\* How many slots are taken, by the reading of SlotsHeld.
Taken(n) ==
    /\ n \in Nat
    /\ Beyond + Held <= n
    /\ n - released <= MaxGlobal + Beyond
    /\ Shows(global, n, released)

\* The bound on the number is implied by the rest.
LEMMA SlotsHeldTaken == TypeOK => (SlotsHeld <=> \E n \in Nat : Taken(n))
<1> SUFFICES ASSUME TypeOK PROVE SlotsHeld <=> \E n \in Nat : Taken(n)
  OBVIOUS
<1>1. released \in 0..MaxRelease
  BY DEF TypeOK
<1>2. ASSUME NEW n \in Nat, Taken(n)
      PROVE  n \in 0..(MaxGlobal + Cardinality(Caller) + MaxRelease)
  BY <1>1, <1>2, SlotNumbers, CountTypes DEF Taken
<1>3. SlotsHeld <=> \E n \in 0..(MaxGlobal + Cardinality(Caller) + MaxRelease) : Taken(n)
  BY SlotNumbers DEF SlotsHeld, Taken, Beyond, Held
<1> QED
  BY <1>2, <1>3, SlotNumbers

\* So it is after a step.
LEMMA SlotsHeldTakenNext == TypeOK' => ((\E n \in Nat : Taken(n)') => SlotsHeld')
<1> SUFFICES ASSUME TypeOK', NEW CONSTANT n \in Nat, Taken(n)' PROVE SlotsHeld'
  OBVIOUS
<1>1. released' \in 0..MaxRelease
  BY DEF TypeOK
<1>2. /\ Beyond' + Held' <= n
      /\ n - released' <= MaxGlobal + Beyond'
      /\ Shows(global', n, released')
  BY DEF Taken, Shows
<1>3. n \in 0..(MaxGlobal + Cardinality(Caller) + MaxRelease)
  <2>1. n - released' <= MaxGlobal + Beyond'
    BY <1>2
  <2>2. \A o \in Nat, without \in 0..MaxRelease :
           n - without <= MaxGlobal + o /\ o <= Cardinality(Caller)
             => n \in 0..(MaxGlobal + Cardinality(Caller) + MaxRelease)
    BY SlotNumbers
  <2> QED
    BY <1>1, <2>1, <2>2, NextCountTypes
<1> QED
  BY <1>2, <1>3 DEF SlotsHeld, Beyond, Held, Shows

\* With nobody connected, no slot is taken.
LEMMA InitSlots == Init => SlotsHeld
<1> SUFFICES ASSUME Init PROVE SlotsHeld
  OBVIOUS
<1>1. At({"over"}) = {} /\ At({"counted", "in"}) = {}
  BY DEF Init, At
<1>2. Beyond = 0 /\ Held = 0
  BY <1>1, FS_EmptySet DEF Beyond, Held
<1>3. Taken(0)
  BY <1>2, SlotNumbers DEF Taken, Shows, Init
<1> QED
  BY <1>3, InitSlotTypeOK, SlotsHeldTaken

\* fetch_add: one slot more is taken, by a check that goes on if there was
\* room and that will give it back if not.
LEMMA TakeSlots ==
    ASSUME TypeOK, NEW CONSTANT c \in Caller, TakeSlot(c), NEW CONSTANT n, Taken(n)
    PROVE  Taken(n + 1)'
<1> DEFINE q == IF Room(global) THEN "counted" ELSE "over"
<1>1. global \in 0..(Word - 1) /\ released \in 0..MaxRelease /\ released' = released
  BY DEF TypeOK, TakeSlot
<1>2. Moves(c, q) /\ conn[c].pc = "out"
  BY DEF TakeSlot, TypeOK, Moves
<1>3. n \in Nat /\ Beyond + Held <= n /\ n - released <= MaxGlobal + Beyond
      /\ (global = n - released \/ global = n - released + Word)
  BY DEF Taken, Shows
<1>4. CASE Room(global)
  <2>1. Beyond' = Beyond /\ Held' = Held + 1
    BY <1>2, <1>4, CountsMoved
  <2>2. global < MaxGlobal /\ global' = Up(global)
    BY <1>4 DEF Room, TakeSlot
  <2>3. global = n - released /\ global' = n + 1 - released
    BY <1>1, <1>3, <2>2, SlotNumbers, CountTypes DEF Up
  <2> QED
    BY <1>1, <1>3, <2>1, <2>2, <2>3, SlotNumbers, CountTypes DEF Taken, Shows
<1>5. CASE ~Room(global)
  <2>1. Beyond' = Beyond + 1 /\ Held' = Held
    BY <1>2, <1>5, CountsMoved
  <2>2. Beyond + 1 <= Cardinality(Caller)
    BY <2>1, NextCountTypes
  <2>3. global' = n + 1 - released \/ global' = n + 1 - released + Word
    BY <1>1, <1>3, <2>2, SlotNumbers, CountTypes DEF Up, TakeSlot
  <2> QED
    BY <1>1, <1>3, <2>1, <2>3, SlotNumbers, CountTypes DEF Taken, Shows
<1> QED
  BY <1>4, <1>5

\* fetch_sub: a slot that was taken is given back.
LEMMA ReturnSlots ==
    ASSUME TypeOK, NEW CONSTANT c \in Caller, ReturnSlot(c) \/ Release(c),
           NEW CONSTANT n, Taken(n)
    PROVE  \E m \in Nat : Taken(m)'
<1>1. global \in 0..(Word - 1) /\ released \in 0..MaxRelease /\ released' = released
  BY DEF TypeOK, ReturnSlot, Release
<1>2. Moves(c, "out") /\ conn[c].pc \in {"over", "in"}
  BY DEF ReturnSlot, Release, TypeOK, Moves
<1>3. n \in Nat /\ Beyond + Held <= n /\ n - released <= MaxGlobal + Beyond
      /\ (global = n - released \/ global = n - released + Word)
  BY DEF Taken, Shows
<1>4. \/ conn[c].pc = "over" /\ Beyond' = Beyond - 1 /\ Held' = Held
      \/ conn[c].pc = "in" /\ Beyond' = Beyond /\ Held' = Held - 1
  BY <1>2, CountsMoved
<1>5. Beyond' \in Nat /\ Held' \in Nat
  BY NextCountTypes
<1>6. n - 1 \in Nat /\ Beyond' + Held' <= n - 1
  <2>1. Beyond' + Held' = Beyond + Held - 1
    BY <1>4, CountTypes
  <2>2. Beyond \in Nat /\ Held \in Nat
    BY CountTypes
  <2>3. n \in Nat /\ Beyond + Held <= n
    BY <1>3
  <2>4. \A o, h \in Nat : o + h = Beyond + Held - 1 => n - 1 \in Nat /\ o + h <= n - 1
    BY <2>2, <2>3
  <2> QED
    BY <1>5, <2>1, <2>4
<1>7. n - 1 - released <= MaxGlobal + Beyond'
  BY <1>1, <1>3, <1>4, CountTypes, SlotNumbers
<1>8. global' = n - 1 - released \/ global' = n - 1 - released + Word
  BY <1>1, <1>3, <1>6, SlotNumbers, CountTypes DEF Down, ReturnSlot, Release
<1>9. Taken(n - 1)'
  BY <1>1, <1>6, <1>7, <1>8 DEF Taken, Shows
<1> QED
  BY <1>6, <1>9

\* Counting the address takes no slot; a refusal gives up the check and keeps
\* its slot.
LEMMA CountSlots ==
    ASSUME TypeOK, NEW CONSTANT c \in Caller, NEW CONSTANT ip \in Ip, NEW CONSTANT t \in Time,
           CountIp(c, ip, t), NEW CONSTANT n, Taken(n)
    PROVE  Taken(n)'
<1>1. released' = released /\ global' = global
  BY DEF CountIp
<1>2. \/ Moves(c, "in") /\ conn[c].pc = "counted"
      \/ Moves(c, "out") /\ conn[c].pc = "counted"
  BY DEF CountIp, TypeOK, Moves
<1>3. Beyond' = Beyond /\ (Held' = Held \/ Held' = Held - 1)
  BY <1>2, CountsMoved
<1> QED
  BY <1>1, <1>3, CountTypes DEF Taken, Shows

\* A careless release is shown as one slot less.
LEMMA ReleaseSlots ==
    ASSUME TypeOK, NEW CONSTANT c \in Caller, ReleaseAnyway(c), NEW CONSTANT n, Taken(n)
    PROVE  Taken(n)'
<1>1. global \in 0..(Word - 1) /\ released \in 0..MaxRelease /\ released' = released + 1
      /\ released < MaxRelease /\ global' = Down(global)
  BY DEF TypeOK, ReleaseAnyway
<1>2. Beyond' = Beyond /\ Held' = Held
  BY DEF ReleaseAnyway, Beyond, Held, At
<1>3. n \in Nat /\ Beyond + Held <= n /\ n - released <= MaxGlobal + Beyond
      /\ (global = n - released \/ global = n - released + Word)
  BY DEF Taken, Shows
<1>4. global' = n - released' \/ global' = n - released' + Word
  BY <1>1, <1>3, SlotNumbers, CountTypes DEF Down
<1> QED
  BY <1>1, <1>2, <1>3, <1>4, SlotNumbers, CountTypes DEF Taken, Shows

\* Every step keeps the slots in agreement with the counter.
LEMMA NextSlots == TypeOK /\ SlotsHeld /\ [Next]_vars => SlotsHeld'
<1> SUFFICES ASSUME TypeOK, SlotsHeld, [Next]_vars PROVE SlotsHeld'
  OBVIOUS
<1>1. PICK n \in Nat : Taken(n)
  BY SlotsHeldTaken
<1>2. (\E m \in Nat : Taken(m)') => SlotsHeld'
  BY NextSlotTypeOK, SlotsHeldTakenNext
<1>3. ASSUME NEW c \in Caller, TakeSlot(c) PROVE \E m \in Nat : Taken(m)'
  BY <1>1, <1>3, TakeSlots
<1>4. ASSUME NEW c \in Caller, ReturnSlot(c) \/ Release(c) PROVE \E m \in Nat : Taken(m)'
  BY <1>1, <1>4, ReturnSlots
<1>5. ASSUME NEW c \in Caller, NEW ip \in Ip, NEW t \in Time, CountIp(c, ip, t)
      PROVE  \E m \in Nat : Taken(m)'
  BY <1>1, <1>5, CountSlots
<1>6. ASSUME NEW c \in Caller, ReleaseAnyway(c) PROVE \E m \in Nat : Taken(m)'
  BY <1>1, <1>6, ReleaseSlots
<1>7. ASSUME Tick \/ UNCHANGED vars PROVE \E m \in Nat : Taken(m)'
  <2>1. UNCHANGED <<global, conn, released>>
    BY <1>7 DEF Tick, vars
  <2>2. Taken(n)'
    BY <1>1, <2>1 DEF Taken, Beyond, Held, At, Shows
  <2> QED
    BY <2>2
<1> QED
  BY <1>2, <1>3, <1>4, <1>5, <1>6, <1>7 DEF Next

\* The counter shows the slots taken, in every behaviour.
THEOREM Slots == Spec => []SlotsHeld
BY InitSlotTypeOK, NextSlotTypeOK, InitSlots, NextSlots, PTL DEF Spec

\* The limit on open connections holds whatever the order of the checks and
\* returns, and is exceeded at most by the careless releases.
THEOREM Bounded == Spec => []NeverTooMany
<1>1. TypeOK /\ SlotsHeld => NeverTooMany
  <2> SUFFICES ASSUME TypeOK, SlotsHeld PROVE NeverTooMany
    OBVIOUS
  <2>1. PICK n \in Nat : Taken(n)
    BY SlotsHeldTaken
  <2>2. Held <= MaxGlobal + released
    BY <2>1, CountTypes, SlotNumbers DEF Taken, TypeOK
  <2>3. Cardinality(At({"in"})) <= Held
    <3>1. At({"in"}) \in SUBSET At({"counted", "in"})
      BY DEF At
    <3> QED
      BY <3>1, AtFinite, FS_Subset DEF Held
  <2> QED
    BY <2>2, <2>3, AtFinite, CountTypes, SlotNumbers DEF NeverTooMany, TypeOK
<1> QED
  BY <1>1, InitSlotTypeOK, NextSlotTypeOK, InitSlots, NextSlots, PTL DEF Spec
=============================================================================
