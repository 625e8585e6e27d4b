---------------------------- MODULE CacheProofs -----------------------------
(***************************************************************************)
(* What is proved of the TTL cache for every set of URLs and callers, every*)
(* Ttl, and inserts, lookups, purges, sweeps and restarts in any order.    *)
(***************************************************************************)
EXTENDS RfoCache, TLAPS

\* A sweep works from a clock that it read before: no entry is older for it
\* than it is.
SweepIsBehind == sweep.at <= now

IInv == TypeOK /\ SweepIsBehind

\* Times are numbers.
LEMMA Clock == \A t \in Time : t \in Int /\ t \in Nat
BY RfoCacheAssumption DEF Time

\* What a caller is in the middle of.
LEMMA LookupType ==
    /\ Idle \in Lookup
    /\ \A todo \in SUBSET Url, pc \in {"evict", "clear"} : [pc |-> pc, todo |-> todo] \in Lookup
BY DEF Idle, Lookup

\* Every step keeps the types (cache/mod.rs).
LEMMA TypeOKStep == ASSUME TypeOK, Next PROVE TypeOK'
<1>1. ASSUME NEW k \in Url, Remove(k) PROVE TypeOK'
  BY <1>1 DEF TypeOK, Remove, Drop
<1>2. ASSUME NEW k \in Url, SweepShard(k) PROVE TypeOK'
  <2>1. cache' \in [Url -> Entry \cup {Absent}]
    BY <1>2 DEF TypeOK, SweepShard, Drop
  <2>2. sweep' \in [at: Time, todo: SUBSET Url]
    BY <1>2 DEF TypeOK, SweepShard
  <2>3. QED
    BY <1>2, <2>1, <2>2 DEF TypeOK, SweepShard
<1>3. ASSUME NEW k \in Url, NEW e \in Entry, Insert(k, e) PROVE TypeOK'
  BY <1>3 DEF TypeOK, Insert, Put
<1>4. ASSUME NEW c \in Caller, NEW k \in Url, GetExpired(c, k) PROVE TypeOK'
  BY <1>4, LookupType DEF TypeOK, GetExpired
<1>5. ASSUME NEW c \in Caller, NEW k \in Url, GetEvict(c, k) PROVE TypeOK'
  BY <1>5, LookupType DEF TypeOK, GetEvict, Drop
<1>6. ASSUME NEW c \in Caller, NEW k \in Url, ClearShard(c, k) PROVE TypeOK'
  <2>1. [pc |-> "clear", todo |-> lookup[c].todo \ {k}] \in Lookup
    BY LookupType DEF TypeOK, Lookup
  <2>2. lookup' \in [Caller -> Lookup]
    BY <1>6, <2>1, LookupType DEF TypeOK, ClearShard
  <2>3. QED
    BY <1>6, <2>2 DEF TypeOK, ClearShard, Drop
<1>7. ASSUME NEW c \in Caller, ClearBegin(c) PROVE TypeOK'
  BY <1>7, LookupType DEF TypeOK, ClearBegin
<1>8. CASE SweepBegin
  BY <1>8 DEF TypeOK, SweepBegin
<1>9. CASE Tick
  BY <1>9, RfoCacheAssumption DEF TypeOK, Tick, Time
<1>10. CASE Restart
  BY <1>10, LookupType DEF TypeOK, Restart, Empty
<1>11. QED
  BY <1>1, <1>2, <1>3, <1>4, <1>5, <1>6, <1>7, <1>8, <1>9, <1>10 DEF Next

\* The clock only advances, and a sweep reads it once (cleanup_expired).
LEMMA SweepStep == ASSUME IInv, Next PROVE SweepIsBehind'
<1>1. now \in Nat /\ sweep.at \in Nat /\ sweep.at <= now
  BY Clock DEF IInv, TypeOK, SweepIsBehind
<1>2. ASSUME NEW k \in Url, SweepShard(k) PROVE sweep'.at = sweep.at /\ now' = now
  BY <1>2 DEF IInv, TypeOK, SweepShard
<1>3. CASE SweepBegin \/ Restart
  BY <1>1, <1>3 DEF SweepBegin, Restart, SweepIsBehind
<1>4. CASE Tick
  BY <1>1, <1>4 DEF Tick, SweepIsBehind
<1>5. CASE \E k \in Url, e \in Entry : Insert(k, e) \/ Remove(k)
  BY <1>1, <1>5 DEF Insert, Remove, SweepIsBehind
<1>6. CASE \E c \in Caller, k \in Url :
              GetExpired(c, k) \/ GetEvict(c, k) \/ ClearShard(c, k) \/ ClearBegin(c)
  BY <1>1, <1>6 DEF GetExpired, GetEvict, ClearShard, ClearBegin, SweepIsBehind
<1>7. CASE \E k \in Url : Remove(k)
  BY <1>1, <1>7 DEF Remove, SweepIsBehind
<1>8. CASE \E c \in Caller : ClearBegin(c)
  BY <1>1, <1>8 DEF ClearBegin, SweepIsBehind
<1>9. QED
  BY <1>1, <1>2, <1>3, <1>4, <1>5, <1>6, <1>7, <1>8 DEF Next, SweepIsBehind

\* Types, and the sweep behind the clock, hold of every behaviour of the cache.
THEOREM Invariant == Spec => []IInv
<1>1. Init => IInv
  BY Clock, RfoCacheAssumption, LookupType DEF Init, IInv, TypeOK, SweepIsBehind, Empty, Time
<1>2. IInv /\ [Next]_vars => IInv'
  <2>1. ASSUME IInv, UNCHANGED vars PROVE IInv'
    BY <2>1 DEF IInv, TypeOK, SweepIsBehind, vars
  <2>2. ASSUME IInv, Next PROVE IInv'
    BY <2>2, TypeOKStep, SweepStep DEF IInv
  <2>3. QED
    BY <2>1, <2>2
<1>3. QED
  BY <1>1, <1>2, PTL DEF Spec

\* A sweep takes no entry that is still fresh, however long it takes from shard
\* to shard and whatever is inserted meanwhile (cleanup_expired against insert).
THEOREM SweepSpares == Spec => SweepSparesFresh
<1>1. ASSUME IInv, Sweeping, NEW k \in Url, Hit(k) PROVE cache'[k] = cache[k]
  <2>1. CASE SweepBegin
    BY <2>1 DEF SweepBegin
  <2>2. ASSUME NEW j \in Url, SweepShard(j) PROVE cache'[k] = cache[k]
    <3>1. CASE j # k
      BY <1>1, <2>2, <3>1 DEF IInv, TypeOK, SweepShard, Drop
    <3>2. CASE j = k
      <4>1. cache[k] \in Entry /\ now - cache[k].cached_at < Ttl
        BY <1>1 DEF IInv, TypeOK, Hit, Cached, FreshAt
      <4>2. cache[k].cached_at \in Nat /\ now \in Nat /\ sweep.at \in Nat /\ sweep.at <= now /\ Ttl \in Nat
        BY <1>1, <4>1, Clock, RfoCacheAssumption DEF IInv, TypeOK, SweepIsBehind, Entry
      <4>3. FreshAt(cache[k], sweep.at)
        BY <4>1, <4>2 DEF FreshAt
      <4>4. QED
        BY <2>2, <3>2, <4>3 DEF SweepShard
    <3>3. QED
      BY <3>1, <3>2
  <2>3. QED
    BY <1>1, <2>1, <2>2 DEF Sweeping
<1>2. IInv /\ [Next]_vars => [Sweeping => \A k \in Url : Hit(k) => cache'[k] = cache[k]]_vars
  BY <1>1
<1>3. QED
  BY <1>2, Invariant, PTL DEF Spec, SweepSparesFresh
=============================================================================
