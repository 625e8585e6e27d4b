------------------------------ MODULE RfoCache ------------------------------
(***************************************************************************)
(* The TTL cache of compiled pages (src/src/cache/mod.rs): a DashMap from  *)
(* URL to CacheEntry, used without any outer lock by every request, by the *)
(* admin endpoints and by the cleanup task that main.rs spawns.            *)
(*                                                                         *)
(* A step is one critical section of the map.  Looking up an expired key   *)
(* is two of them (the guard is dropped before the key is removed), and    *)
(* `clear` and `retain` lock one shard after another; every URL stands for *)
(* a shard of its own, the finest interleaving the map allows.             *)
(***************************************************************************)
EXTENDS Integers

CONSTANTS
    Url,       \* keys of the cache: the domain_url of a handshake
    Caller,    \* threads that use the cache
    Payload,   \* what an entry holds besides cached_at
    Ttl,       \* ttl_seconds, in ticks of the clock
    MaxTime,   \* bound on the clock
    Absent     \* "no entry", not an entry

Time == 0..MaxTime
Entry == [payload: Payload, cached_at: Time]

ASSUME RfoCacheAssumption ==
    /\ Ttl \in Nat
    /\ MaxTime \in Nat
    /\ Absent \notin Entry

VARIABLES
    now,       \* Utc::now()
    cache,     \* RfoCache::inner
    lookup,    \* what each caller is in the middle of
    sweep      \* the cleanup task: `now` as it read it, shards left to visit

vars == <<now, cache, lookup, sweep>>

Lookup == [pc: {"idle", "evict", "clear"}, todo: SUBSET Url]
Idle == [pc |-> "idle", todo |-> {}]

TypeOK ==
    /\ now \in Time
    /\ cache \in [Url -> Entry \cup {Absent}]
    /\ lookup \in [Caller -> Lookup]
    /\ sweep \in [at: Time, todo: SUBSET Url]

Empty == [k \in Url |-> Absent]

Init ==
    /\ now = 0
    /\ cache = Empty
    /\ lookup = [c \in Caller |-> Idle]
    /\ sweep = [at |-> 0, todo |-> {}]

-----------------------------------------------------------------------------
(* Operators on the map, also used by the modules that embed the cache.    *)

Cached(k) == cache[k] # Absent

\* Mutant: age <= ttl_seconds.
FreshAtInclusive(e, t) == t - e.cached_at <= Ttl

\* age < ttl_seconds, the age taken at time t
FreshAt(e, t) == t - e.cached_at < Ttl

Hit(k) == Cached(k) /\ FreshAt(cache[k], now)
Expired(k) == Cached(k) /\ ~FreshAt(cache[k], now)

Put(k, e) == cache' = [cache EXCEPT ![k] = e]
Drop(k) == cache' = [cache EXCEPT ![k] = Absent]

-----------------------------------------------------------------------------
\* insert: the entry was stamped by the caller, at this time or before.
Insert(k, e) ==
    /\ e.cached_at <= now
    /\ Put(k, e)
    /\ UNCHANGED <<now, lookup, sweep>>

\* get on an expired key: the read guard is dropped with the key still there ...
GetExpired(c, k) ==
    /\ lookup[c] = Idle
    /\ Expired(k)
    /\ lookup' = [lookup EXCEPT ![c] = [pc |-> "evict", todo |-> {k}]]
    /\ UNCHANGED <<now, cache, sweep>>

\* ... and whatever is under the key by then is removed.
GetEvict(c, k) ==
    /\ lookup[c] = [pc |-> "evict", todo |-> {k}]
    /\ Drop(k)
    /\ lookup' = [lookup EXCEPT ![c] = Idle]
    /\ UNCHANGED <<now, sweep>>

Remove(k) ==
    /\ Cached(k)
    /\ Drop(k)
    /\ UNCHANGED <<now, lookup, sweep>>

\* clear: one shard after another.
ClearBegin(c) ==
    /\ lookup[c] = Idle
    /\ lookup' = [lookup EXCEPT ![c] = [pc |-> "clear", todo |-> Url]]
    /\ UNCHANGED <<now, cache, sweep>>

ClearShard(c, k) ==
    /\ lookup[c].pc = "clear"
    /\ k \in lookup[c].todo
    /\ Drop(k)
    /\ lookup' = [lookup EXCEPT ![c] =
                    IF @.todo = {k} THEN Idle ELSE [pc |-> "clear", todo |-> @.todo \ {k}]]
    /\ UNCHANGED <<now, sweep>>

\* cleanup_expired: the clock is read once, then retain visits the shards.
SweepBegin ==
    /\ sweep.todo = {}
    /\ sweep' = [at |-> now, todo |-> Url]
    /\ UNCHANGED <<now, cache, lookup>>

\* Mutants: the age rounded up; the predicate of retain inverted.
SweepShardEarly(k) ==
    /\ k \in sweep.todo
    /\ IF Cached(k) /\ ~FreshAt(cache[k], sweep.at + 1) THEN Drop(k)
                                                         ELSE UNCHANGED cache
    /\ sweep' = [sweep EXCEPT !.todo = @ \ {k}]
    /\ UNCHANGED <<now, lookup>>

SweepShardInverted(k) ==
    /\ k \in sweep.todo
    /\ IF Cached(k) /\ FreshAt(cache[k], sweep.at) THEN Drop(k)
                                                    ELSE UNCHANGED cache
    /\ sweep' = [sweep EXCEPT !.todo = @ \ {k}]
    /\ UNCHANGED <<now, lookup>>

SweepShard(k) ==
    /\ k \in sweep.todo
    /\ IF Cached(k) /\ ~FreshAt(cache[k], sweep.at) THEN Drop(k)
                                                     ELSE UNCHANGED cache
    /\ sweep' = [sweep EXCEPT !.todo = @ \ {k}]
    /\ UNCHANGED <<now, lookup>>

Tick ==
    /\ now < MaxTime
    /\ now' = now + 1
    /\ UNCHANGED <<cache, lookup, sweep>>

\* The process dies and starts again: the cache lives in memory only.
Restart ==
    /\ cache' = Empty
    /\ lookup' = [c \in Caller |-> Idle]
    /\ sweep' = [at |-> now, todo |-> {}]
    /\ UNCHANGED now

Next ==
    \/ \E k \in Url : Remove(k) \/ SweepShard(k)
    \/ \E k \in Url, e \in Entry : Insert(k, e)
    \/ \E c \in Caller, k \in Url :
          GetExpired(c, k) \/ GetEvict(c, k) \/ ClearShard(c, k)
    \/ \E c \in Caller : ClearBegin(c)
    \/ SweepBegin
    \/ Tick
    \/ Restart

Sweeping == SweepBegin \/ \E k \in Url : SweepShard(k)

\* The cleanup task is a loop over a timer: it never stops for good.
Fairness ==
    /\ WF_vars(SweepBegin)
    /\ \A k \in Url : WF_vars(SweepShard(k))

Spec == Init /\ [][Next]_vars
FairSpec == Spec /\ Fairness

-----------------------------------------------------------------------------
(* Properties.                                                             *)

\* A sweep works from a clock it read before its first shard, while other
\* threads keep inserting: it must not take an entry that is still fresh
\* (cleanup_expired against insert).
SweepSparesFresh == [][Sweeping => \A k \in Url : Hit(k) => cache'[k] = cache[k]]_vars

\* No entry stays in the map expired for ever, even when nobody looks it up
\* again (the cleanup task against the lazy eviction of get).
StaleReclaimed == \A k \in Url : Expired(k) ~> ~Expired(k)

\* What get says of its eviction: "Expired - drop it lazily".  Between the
\* dropped guard and the removal another thread may have put a fresh entry.
GetEvictsOnlyExpired ==
    [][\A c \in Caller, k \in Url : GetEvict(c, k) => ~Hit(k)]_vars
=============================================================================
