----------------------------- MODULE Handshake ------------------------------
(***************************************************************************)
(* The handshake engine: POST /rfo/handshake and the tasks spawned by      *)
(* POST /rfo/batch-handshake (src/src/server/handlers.rs), the cache they  *)
(* share, the rows they write in Postgres, the admin endpoints that delete *)
(* a site or purge the cache (src/src/admin.rs), the endpoints that serve  *)
(* a cached document, the cleanup task and the restart of the server.      *)
(*                                                                         *)
(* Each task runs one handshake.  Its steps are the critical sections of   *)
(* the code: an operation on the cache, and the await of the page, of the  *)
(* upsert and of the log row.  A handler that is dropped at an await (the  *)
(* 30 s TimeoutLayer, a client that hangs up, a crash) may leave behind a  *)
(* statement that Postgres still executes: pc "lateUpsert", "lateLog",     *)
(* "lateDelete".                                                           *)
(***************************************************************************)
EXTENDS Integers, FiniteSets

CONSTANTS
    Url,          \* values of domain_url
    Task,         \* handshakes, one each
    Batch,        \* those that a batch spawned
    Admin,        \* calls of delete_site and purge_cache, one each
    Score,        \* quality scores that pages compile to
    MaxScore,     \* CHECK (quality_score BETWEEN 0 AND 100)
    Ttl,          \* life of a cache entry
    HourTicks,    \* length of a replay window, 3600 s
    NonceWindow,  \* 300 s
    MaxTime,      \* bound on the clock
    MaxReads,     \* bound on the requests for documents since a restart
    Faults,       \* what may go wrong: "db", "cancel", "crash"
    Absent        \* no entry, no row

Time == 0..MaxTime

\* replay_window_timestamp
HourOf(t) == t \div HourTicks
Hours == {HourOf(t) : t \in Time}

\* What an entry holds, as far as it is told apart: the window of
\* header.site_id, that of doc.verification_signature, the quality score.
Content == [hour: Hours, sig: Hours, score: Score]
Entry == [payload: Content, cached_at: Time]

ASSUME HandshakeAssumption ==
    /\ Batch \subseteq Task
    /\ Task \cap Admin = {}
    /\ Score \subseteq Nat
    /\ MaxScore \in Nat
    /\ Ttl \in Nat
    /\ HourTicks \in Nat \ {0}
    /\ Ttl <= HourTicks
    /\ NonceWindow \in Nat
    /\ MaxTime \in Nat
    /\ MaxReads \in Nat
    /\ Absent \notin Entry \cup Score

VARIABLES
    now,      \* Utc::now()
    cache,    \* RfoCache::inner
    sweep,    \* the cleanup task inside cleanup_expired
    task,     \* local state of each handshake
    admin,    \* local state of each admin call
    sites,    \* table sites: the score in the row of a URL and a window
    logs,     \* table handshake_logs
    tele      \* counters of TelemetryTracker, and what the documents took of them

vars == <<now, cache, sweep, task, admin, sites, logs, tele>>

TaskPc == {"start", "lookup", "evict", "fetch", "insert", "upsert", "count", "log",
           "done", "lateUpsert", "lateLog"}
AdminPc == {"start", "delete", "deleteRemove", "purgeEvict", "purgeRemove",
            "clear", "done", "lateDelete", "interrupted"}

Upsert == {"none", "done", "lost"}
Status == {0, 200, 401, 404, 408, 500, 502}

\* gen: when generate_site_id read the clock; hour, sig, score: what the
\* response carries; upsert: what became of it; status: the answer, 0 for none.
TaskState == [pc: TaskPc, url: Url, gen: Time, hour: Hours, sig: Hours,
              score: Score \cup {0}, upsert: Upsert, status: Status]
AdminState == [pc: AdminPc, url: Url, todo: SUBSET Url, status: Status]
LogRow == [task: Task, url: Url, hour: Hours]

\* hits and misses are shared by the handshakes and the document endpoints:
\* served and missing, of which the code keeps no count, are the latter's part.
Counters == [hits: Nat, misses: Nat, requests: Nat, scored: Nat, handshakes: Nat,
             served: Nat, missing: Nat]

\* What each thread is in the middle of inside the cache.
CacheCalls ==
    [c \in Task \cup Admin |->
        IF c \in Task
        THEN IF task[c].pc = "evict" THEN [pc |-> "evict", todo |-> {task[c].url}]
             ELSE [pc |-> "idle", todo |-> {}]
        ELSE CASE admin[c].pc = "purgeEvict" -> [pc |-> "evict", todo |-> {admin[c].url}]
               [] admin[c].pc = "clear" -> [pc |-> "clear", todo |-> admin[c].todo]
               [] OTHER -> [pc |-> "idle", todo |-> {}]]

Store == INSTANCE RfoCache WITH
            Caller <- Task \cup Admin, Payload <- Content, lookup <- CacheCalls

TypeOK ==
    /\ now \in Time
    /\ cache \in [Url -> Entry \cup {Absent}]
    /\ sweep \in [at: Time, todo: SUBSET Url]
    /\ task \in [Task -> TaskState]
    /\ admin \in [Admin -> AdminState]
    /\ sites \in [Url -> [Hours -> Score \cup {Absent}]]
    /\ logs \subseteq LogRow
    /\ tele \in Counters

NewTask(u) == [pc |-> "start", url |-> u, gen |-> 0,
               hour |-> HourOf(0), sig |-> HourOf(0),
               score |-> 0, upsert |-> "none", status |-> 0]
NewAdmin(u) == [pc |-> "start", url |-> u, todo |-> {}, status |-> 0]
NoCounts == [hits |-> 0, misses |-> 0, requests |-> 0, scored |-> 0, handshakes |-> 0,
             served |-> 0, missing |-> 0]

Init ==
    /\ now = 0
    /\ cache = [u \in Url |-> Absent]
    /\ sweep = [at |-> 0, todo |-> {}]
    /\ \E target \in [Task -> Url] : task = [t \in Task |-> NewTask(target[t])]
    /\ \E target \in [Admin -> Url] : admin = [a \in Admin |-> NewAdmin(target[a])]
    /\ sites = [u \in Url |-> [h \in Hours |-> Absent]]
    /\ logs = {}
    /\ tele = NoCounts

\* The caller gets its answer.
Answer(r, next, code) == [r EXCEPT !.pc = next, !.status = code]

\* record_request is called by the handler, not by the tasks of a batch.
Request(t) == IF t \in Batch THEN 0 ELSE 1

Registered(u, h) == sites[u][h] # Absent

-----------------------------------------------------------------------------
(* One handshake: handshake and process_handshake_inner.                   *)

\* verify_handshake_nonce.  The timestamp comes with the request; a batch
\* stamps its own tasks.
FreshNonce(ts) ==
    /\ now - ts <= NonceWindow
    /\ ts - now <= NonceWindow

Accept(t, ts) ==
    /\ task[t].pc = "start"
    /\ t \in Batch => ts <= now
    /\ FreshNonce(ts)
    /\ task' = [task EXCEPT ![t].pc = "lookup"]
    /\ UNCHANGED <<now, cache, sweep, admin, sites, logs, tele>>

Refuse(t, ts) ==
    /\ task[t].pc = "start"
    /\ t \in Batch => ts <= now
    /\ ~FreshNonce(ts)
    /\ task' = [task EXCEPT ![t] = Answer(@, "done", 401)]
    /\ tele' = [tele EXCEPT !.misses = @ + Request(t), !.requests = @ + Request(t)]
    /\ UNCHANGED <<now, cache, sweep, admin, sites, logs>>

\* cache.get finds a fresh entry: the answer is its header and payload.
LookupHit(t) ==
    /\ task[t].pc = "lookup"
    /\ Store!Hit(task[t].url)
    /\ LET found == cache[task[t].url].payload IN
       task' = [task EXCEPT ![t].pc = "count", ![t].hour = found.hour,
                            ![t].sig = found.sig, ![t].score = found.score]
    /\ tele' = [tele EXCEPT !.hits = @ + 1]
    /\ UNCHANGED <<now, cache, sweep, admin, sites, logs>>

LookupMiss(t) ==
    /\ task[t].pc = "lookup"
    /\ ~Store!Cached(task[t].url)
    /\ task' = [task EXCEPT ![t].pc = "fetch"]
    /\ tele' = [tele EXCEPT !.misses = @ + 1]
    /\ UNCHANGED <<now, cache, sweep, admin, sites, logs>>

\* cache.get finds an expired entry, and removes the key in a second step.
LookupExpired(t) ==
    /\ task[t].pc = "lookup"
    /\ Store!Expired(task[t].url)
    /\ task' = [task EXCEPT ![t].pc = "evict"]
    /\ UNCHANGED <<now, cache, sweep, admin, sites, logs, tele>>

\* Mutant: an expired entry is not counted as a miss.
EvictUncounted(t) ==
    /\ task[t].pc = "evict"
    /\ Store!Drop(task[t].url)
    /\ task' = [task EXCEPT ![t].pc = "fetch"]
    /\ UNCHANGED <<now, sweep, admin, sites, logs, tele>>

Evict(t) ==
    /\ task[t].pc = "evict"
    /\ Store!Drop(task[t].url)
    /\ task' = [task EXCEPT ![t].pc = "fetch"]
    /\ tele' = [tele EXCEPT !.misses = @ + 1]
    /\ UNCHANGED <<now, sweep, admin, sites, logs>>

\* No answer within the client's 2 s, or an error: 502.
FetchFails(t) ==
    /\ task[t].pc = "fetch"
    /\ task' = [task EXCEPT ![t] = Answer(@, "done", 502)]
    /\ UNCHANGED <<now, cache, sweep, admin, sites, logs, tele>>

\* The page is there; generate_site_id reads the clock.
Fetched(t, s) ==
    /\ task[t].pc = "fetch"
    /\ task' = [task EXCEPT ![t].pc = "insert", ![t].gen = now, ![t].score = s]
    /\ UNCHANGED <<now, cache, sweep, admin, sites, logs, tele>>

\* compile_doc signs with a site id of its own, the entry is stamped and cached.
CacheInsert(t) ==
    /\ task[t].pc = "insert"
    /\ LET page == [hour |-> HourOf(task[t].gen), sig |-> HourOf(now),
                    score |-> task[t].score]
       IN  /\ Store!Put(task[t].url, [payload |-> page, cached_at |-> now])
           /\ task' = [task EXCEPT ![t].pc = "upsert", ![t].hour = page.hour,
                                   ![t].sig = page.sig]
    /\ UNCHANGED <<now, sweep, admin, sites, logs, tele>>

\* record_quality_score, after the upsert.
Scored == tele' = [tele EXCEPT !.scored = @ + 1]

\* Mutant: the row is written under the site id of the signature.
WriteRowUnderSig(t) ==
    /\ task[t].score <= MaxScore
    /\ sites' = [sites EXCEPT ![task[t].url][task[t].sig] = task[t].score]

WriteRow(t) ==
    /\ task[t].score <= MaxScore
    /\ sites' = [sites EXCEPT ![task[t].url][task[t].hour] = task[t].score]

UpsertOk(t) ==
    /\ task[t].pc = "upsert"
    /\ WriteRow(t)
    /\ task' = [task EXCEPT ![t].pc = "count", ![t].upsert = "done"]
    /\ Scored
    /\ UNCHANGED <<now, cache, sweep, admin, logs>>

\* Mutant: a failed upsert starts the handshake over.
UpsertFailsRetries(t) ==
    /\ task[t].pc = "upsert"
    /\ task[t].score > MaxScore \/ "db" \in Faults
    /\ task' = [task EXCEPT ![t].pc = "fetch"]
    /\ UNCHANGED <<now, cache, sweep, admin, sites, logs, tele>>

\* The CHECK of the table, or the database, refuses; the error is only logged.
\* (An error after the statement was executed is, but for the log, UpsertOk.)
UpsertFails(t) ==
    /\ task[t].pc = "upsert"
    /\ task[t].score > MaxScore \/ "db" \in Faults
    /\ task' = [task EXCEPT ![t].pc = "count", ![t].upsert = "lost"]
    /\ Scored
    /\ UNCHANGED <<now, cache, sweep, admin, sites, logs>>

\* record_handshake and record_request, for a hit and for a compiled page.
CountHandshake(t) ==
    /\ task[t].pc = "count"
    /\ task' = [task EXCEPT ![t].pc = "log"]
    /\ tele' = [tele EXCEPT !.handshakes = @ + 1, !.requests = @ + Request(t)]
    /\ UNCHANGED <<now, cache, sweep, admin, sites, logs>>

\* handshake_logs.site_id REFERENCES sites(site_id).
WriteLog(t) ==
    /\ Registered(task[t].url, task[t].hour)
    /\ logs' = logs \cup {[task |-> t, url |-> task[t].url, hour |-> task[t].hour]}

LogOk(t) ==
    /\ task[t].pc = "log"
    /\ WriteLog(t)
    /\ task' = [task EXCEPT ![t] = Answer(@, "done", 200)]
    /\ UNCHANGED <<now, cache, sweep, admin, sites, tele>>

LogFails(t) ==
    /\ task[t].pc = "log"
    /\ ~Registered(task[t].url, task[t].hour) \/ "db" \in Faults
    /\ task' = [task EXCEPT ![t] = Answer(@, "done", 200)]
    /\ UNCHANGED <<now, cache, sweep, admin, sites, logs, tele>>

\* The handler's future is dropped at an await.  The tasks of a batch go on.
Cancel(t) ==
    /\ "cancel" \in Faults
    /\ t \notin Batch
    /\ \/ task[t].pc = "fetch" /\ task' = [task EXCEPT ![t] = Answer(@, "done", 408)]
       \/ task[t].pc = "upsert" /\ task' = [task EXCEPT ![t] = Answer(@, "lateUpsert", 408)]
       \/ task[t].pc = "log" /\ task' = [task EXCEPT ![t] = Answer(@, "lateLog", 408)]
    /\ UNCHANGED <<now, cache, sweep, admin, sites, logs, tele>>

\* A statement whose handler is gone is executed ...
LateUpsert(t) ==
    /\ task[t].pc = "lateUpsert"
    /\ WriteRow(t)
    /\ task' = [task EXCEPT ![t].pc = "done", ![t].upsert = "done"]
    /\ UNCHANGED <<now, cache, sweep, admin, logs, tele>>

LateLog(t) ==
    /\ task[t].pc = "lateLog"
    /\ WriteLog(t)
    /\ task' = [task EXCEPT ![t].pc = "done"]
    /\ UNCHANGED <<now, cache, sweep, admin, sites, tele>>

\* ... or is not: it was never sent, or failed.
LateDropped(t) ==
    /\ task[t].pc \in {"lateUpsert", "lateLog"}
    /\ task' = [task EXCEPT ![t].pc = "done", 
                            ![t].upsert = IF task[t].pc = "lateUpsert" THEN "lost" ELSE @]
    /\ UNCHANGED <<now, cache, sweep, admin, sites, logs, tele>>

-----------------------------------------------------------------------------
(* delete_site and purge_cache.                                            *)

HasRow(u) == \E h \in Hours : Registered(u, h)

\* DELETE FROM sites WHERE domain_url = $1, with the logs that refer to them.
DeleteRows(u) ==
    /\ sites' = [sites EXCEPT ![u] = [h \in Hours |-> Absent]]
    /\ logs' = {row \in logs : row.url # u}

DeleteCall(a) ==
    /\ admin[a].pc = "start"
    /\ admin' = [admin EXCEPT ![a].pc = "delete"]
    /\ UNCHANGED <<now, cache, sweep, task, sites, logs, tele>>

\* Mutant: the answer is sent without removing the cached page.
DeleteRowsOnly(a) ==
    /\ admin[a].pc = "delete"
    /\ HasRow(admin[a].url)
    /\ DeleteRows(admin[a].url)
    /\ admin' = [admin EXCEPT ![a] = Answer(@, "done", 200)]
    /\ UNCHANGED <<now, cache, sweep, task, tele>>

Delete(a) ==
    /\ admin[a].pc = "delete"
    /\ HasRow(admin[a].url)
    /\ DeleteRows(admin[a].url)
    /\ admin' = [admin EXCEPT ![a].pc = "deleteRemove"]
    /\ UNCHANGED <<now, cache, sweep, task, tele>>

\* No row affected: 404, and the cache is left alone.
DeleteNone(a) ==
    /\ admin[a].pc = "delete"
    /\ ~HasRow(admin[a].url)
    /\ admin' = [admin EXCEPT ![a] = Answer(@, "done", 404)]
    /\ UNCHANGED <<now, cache, sweep, task, sites, logs, tele>>

\* The answer is an error, and Postgres may have executed the statement all the
\* same, or still execute it.
DeleteFails(a) ==
    /\ admin[a].pc = "delete"
    /\ "db" \in Faults
    /\ admin' = [admin EXCEPT ![a] = Answer(@, "lateDelete", 500)]
    /\ UNCHANGED <<now, cache, sweep, task, sites, logs, tele>>

DeleteCancel(a) ==
    /\ "cancel" \in Faults
    /\ admin[a].pc = "delete"
    /\ admin' = [admin EXCEPT ![a] = Answer(@, "lateDelete", 408)]
    /\ UNCHANGED <<now, cache, sweep, task, sites, logs, tele>>

\* The rows go, and nobody is left to remove the cached page.
LateDelete(a) ==
    /\ admin[a].pc = "lateDelete"
    /\ DeleteRows(admin[a].url)
    /\ admin' = [admin EXCEPT ![a].pc = "interrupted"]
    /\ UNCHANGED <<now, cache, sweep, task, tele>>

LateDeleteDropped(a) ==
    /\ admin[a].pc = "lateDelete"
    /\ admin' = [admin EXCEPT ![a].pc = "done"]
    /\ UNCHANGED <<now, cache, sweep, task, sites, logs, tele>>

\* cache.remove, the last step of a delete and of the purge of one URL.
RemoveCached(a) ==
    /\ admin[a].pc \in {"deleteRemove", "purgeRemove"}
    /\ Store!Drop(admin[a].url)
    /\ admin' = [admin EXCEPT ![a] = Answer(@, "done", 200)]
    /\ UNCHANGED <<now, sweep, task, sites, logs, tele>>

\* purge_cache asks cache.get first, which may evict on its own.
PurgeUrl(a) ==
    /\ admin[a].pc = "start"
    /\ admin' = [admin EXCEPT ![a].pc = IF Store!Expired(admin[a].url)
                                        THEN "purgeEvict" ELSE "purgeRemove"]
    /\ UNCHANGED <<now, cache, sweep, task, sites, logs, tele>>

PurgeEvict(a) ==
    /\ admin[a].pc = "purgeEvict"
    /\ Store!Drop(admin[a].url)
    /\ admin' = [admin EXCEPT ![a].pc = "purgeRemove"]
    /\ UNCHANGED <<now, sweep, task, sites, logs, tele>>

PurgeAll(a) ==
    /\ admin[a].pc = "start"
    /\ admin' = [admin EXCEPT ![a].pc = "clear", ![a].todo = Url]
    /\ UNCHANGED <<now, cache, sweep, task, sites, logs, tele>>

PurgeShard(a, u) ==
    /\ admin[a].pc = "clear"
    /\ u \in admin[a].todo
    /\ Store!Drop(u)
    /\ admin' = IF admin[a].todo = {u}
                THEN [admin EXCEPT ![a] = [Answer(@, "done", 200) EXCEPT !.todo = {}]]
                ELSE [admin EXCEPT ![a].todo = @ \ {u}]
    /\ UNCHANGED <<now, sweep, task, sites, logs, tele>>

-----------------------------------------------------------------------------
(* stream_doc, stream_mdoc, get_doc and get_mdoc.                          *)

\* get_by_domain finds a fresh entry whose key contains the domain; unlike get
\* it drops no entry.
DocumentServed ==
    /\ tele.served + tele.missing < MaxReads
    /\ \E u \in Url : Store!Hit(u)
    /\ tele' = [tele EXCEPT !.hits = @ + 1, !.served = @ + 1]
    /\ UNCHANGED <<now, cache, sweep, task, admin, sites, logs>>

\* It finds none: no key contains the domain, or the entry is expired, or is
\* inserted into a shard that the walk has passed.
DocumentMissing ==
    /\ tele.served + tele.missing < MaxReads
    /\ tele' = [tele EXCEPT !.misses = @ + 1, !.missing = @ + 1]
    /\ UNCHANGED <<now, cache, sweep, task, admin, sites, logs>>

-----------------------------------------------------------------------------
(* The cleanup task, the clock and the process.                            *)

SweepBegin ==
    /\ sweep.todo = {}
    /\ sweep' = [at |-> now, todo |-> Url]
    /\ UNCHANGED <<now, cache, task, admin, sites, logs, tele>>

\* Mutants: each entry against the current time; the predicate inverted.
SweepShardOwnClock(u) ==
    /\ u \in sweep.todo
    /\ IF Store!Expired(u) THEN Store!Drop(u) ELSE UNCHANGED cache
    /\ sweep' = [sweep EXCEPT !.todo = @ \ {u}]
    /\ UNCHANGED <<now, task, admin, sites, logs, tele>>

SweepShardInverted(u) ==
    /\ u \in sweep.todo
    /\ IF Store!Cached(u) /\ Store!FreshAt(cache[u], sweep.at)
       THEN Store!Drop(u) ELSE UNCHANGED cache
    /\ sweep' = [sweep EXCEPT !.todo = @ \ {u}]
    /\ UNCHANGED <<now, task, admin, sites, logs, tele>>

SweepShard(u) ==
    /\ u \in sweep.todo
    /\ IF Store!Cached(u) /\ ~Store!FreshAt(cache[u], sweep.at)
       THEN Store!Drop(u) ELSE UNCHANGED cache
    /\ sweep' = [sweep EXCEPT !.todo = @ \ {u}]
    /\ UNCHANGED <<now, task, admin, sites, logs, tele>>

\* From generate_site_id to cache.insert a handler only computes: the clock
\* advances at most once meanwhile.
Tick ==
    /\ now < MaxTime
    /\ \A t \in Task : task[t].pc = "insert" => task[t].gen = now
    /\ now' = now + 1
    /\ UNCHANGED <<cache, sweep, task, admin, sites, logs, tele>>

\* The server dies and starts again; what it had sent to Postgres may run.
CrashedTask(r) ==
    CASE r.pc = "upsert" -> [r EXCEPT !.pc = "lateUpsert"]
      [] r.pc = "log" -> [r EXCEPT !.pc = "lateLog"]
      [] r.pc \in {"lookup", "evict", "fetch", "insert", "count"} -> [r EXCEPT !.pc = "done"]
      [] OTHER -> r
CrashedAdmin(r) ==
    CASE r.pc = "delete" -> [r EXCEPT !.pc = "lateDelete"]
      [] r.pc \in {"deleteRemove", "purgeEvict", "purgeRemove", "clear"} ->
            [r EXCEPT !.pc = "done", !.todo = {}]
      [] OTHER -> r

Crash ==
    /\ "crash" \in Faults
    /\ cache' = [u \in Url |-> Absent]
    /\ sweep' = [at |-> now, todo |-> {}]
    /\ task' = [t \in Task |-> CrashedTask(task[t])]
    /\ admin' = [a \in Admin |-> CrashedAdmin(admin[a])]
    /\ tele' = NoCounts
    /\ UNCHANGED <<now, sites, logs>>

-----------------------------------------------------------------------------
\* What the server does for an accepted handshake.
Serve(t) ==
    \/ LookupHit(t) \/ LookupMiss(t) \/ LookupExpired(t) \/ Evict(t)
    \/ FetchFails(t) \/ (\E s \in Score : Fetched(t, s)) \/ CacheInsert(t)
    \/ UpsertOk(t) \/ UpsertFails(t) \/ CountHandshake(t) \/ LogOk(t) \/ LogFails(t)

Late(t) == LateUpsert(t) \/ LateLog(t) \/ LateDropped(t)

AdminStep(a) ==
    \/ Delete(a) \/ DeleteNone(a) \/ DeleteFails(a) \/ RemoveCached(a)
    \/ PurgeEvict(a) \/ (\E u \in Url : PurgeShard(a, u))

AdminCall(a) ==
    \/ DeleteCall(a) \/ DeleteCancel(a) \/ LateDelete(a) \/ LateDeleteDropped(a)
    \/ PurgeUrl(a) \/ PurgeAll(a)

Next ==
    \/ \E t \in Task, ts \in Time : Accept(t, ts) \/ Refuse(t, ts)
    \/ \E t \in Task : Serve(t) \/ Cancel(t) \/ Late(t)
    \/ \E a \in Admin : AdminStep(a) \/ AdminCall(a)
    \/ DocumentServed \/ DocumentMissing
    \/ SweepBegin \/ (\E u \in Url : SweepShard(u))
    \/ Tick
    \/ Crash

Spec == Init /\ [][Next]_vars

\* The runtime polls every task again, the fetch and the statements end or
\* fail by their timeouts, the cleanup task loops and time passes; nothing
\* makes clients call or faults happen.
Fairness ==
    /\ \A t \in Task : WF_vars(Serve(t))
    /\ \A a \in Admin : WF_vars(AdminStep(a))
    /\ WF_vars(SweepBegin)
    /\ \A u \in Url : WF_vars(SweepShard(u))
    /\ WF_vars(Tick)

FairSpec == Spec /\ Fairness

-----------------------------------------------------------------------------
(* Properties.                                                             *)

\* Some handshake cached this page and has yet to write, or failed to write,
\* its row.
Unwritten(u, h) ==
    \E t \in Task :
        /\ task[t].url = u /\ task[t].hour = h
        /\ task[t].pc \in {"upsert", "lateUpsert"} \/ task[t].upsert = "lost"

\* Some delete took the rows of this URL and has not removed the cached page.
HalfDeleted(u) ==
    \E a \in Admin :
        admin[a].url = u /\ admin[a].pc \in {"deleteRemove", "interrupted"}

\* The cache and the table are written one after the other with no common
\* lock, and by handshakes, deletes, sweeps and restarts at once.  A page may be
\* served without a row in sites only while its own upsert is out, or because
\* that upsert failed or was dropped, or because a delete stopped half way
\* (handlers.rs insert then upsert_site; admin.rs DELETE then cache.remove).
CachedIsAccountedFor ==
    \A u \in Url :
        Store!Cached(u) =>
            LET h == cache[u].payload.hour IN
            Registered(u, h) \/ Unwritten(u, h) \/ HalfDeleted(u)

\* A cached page that can still be served carries a site id of the current
\* window or of the one before, and a signature of the same window or of the
\* next one: generate_site_id runs twice and the entry outlives the hour.
RecentSiteId ==
    \A u \in Url :
        Store!Hit(u) =>
            LET page == cache[u].payload IN
            /\ page.hour <= page.sig /\ page.sig <= page.hour + 1
            /\ page.sig <= HourOf(now) /\ HourOf(now) <= page.hour + 1

\* The handshakes that have counted a hit or a score and not yet themselves.
Counting == {t \in Task : task[t].pc = "count"}

\* The hits and misses are counted by handshakes and by document endpoints: once
\* the part of the latter is taken off, every hit and every scored page is that
\* of one handshake, counted or about to be, a page is scored only by a
\* handshake that counted its own miss, and no request is recorded without its
\* hit or miss (TelemetryTracker over hits, errors, cancellations, batches).
TelemetryAccounts ==
    /\ tele.handshakes + Cardinality(Counting) = (tele.hits - tele.served) + tele.scored
    /\ tele.scored <= tele.misses - tele.missing
    /\ tele.requests <= (tele.hits - tele.served) + (tele.misses - tele.missing)

\* Every accepted handshake ends, whatever the page and the database do
\* (the 2 s client, the errors of both statements).
EveryHandshakeEnds ==
    \A t \in Task : task[t].pc = "lookup" ~> task[t].pc \in {"done", "lateUpsert", "lateLog"}

\* A page cached without its row is a passing state: it is written, replaced or
\* swept once its Ttl is over (of the pages whose Ttl ends within the bound of
\* the clock), since no step repairs the table itself.
UnregisteredPageLeaves ==
    \A u \in Url :
        LET stranded == /\ Store!Cached(u)
                        /\ ~Registered(u, cache[u].payload.hour)
                        /\ cache[u].cached_at + Ttl <= MaxTime
        IN stranded ~> ~stranded

\* The interleavings of handshakes, admin calls, cleanup and restarts use the
\* cache only in the ways its own specification allows.
UsesCacheAsSpecified == Store!Spec

\* The sites table "stores the authoritative state of verified RFO nodes":
\* when nothing is under way, the score served from the cache is that of the row.
CacheAgreesWithSites ==
    (\A t \in Task : task[t].pc \in {"start", "done"}) =>
        \A u \in Url :
            Store!Hit(u) /\ Registered(u, cache[u].payload.hour) =>
                sites[u][cache[u].payload.hour] = cache[u].payload.score

\* handshake_logs "tracks transaction history": a handshake answered 200 has
\* its log row.
AnsweredIsLogged ==
    \A t \in Task :
        task[t].status = 200 => \E row \in logs : row.task = t

-----------------------------------------------------------------------------
(* The inductive invariant behind the safety properties.                   *)

\* What the place a handshake has reached says of its local state: it has a
\* score from the page on, an outcome only of an upsert it has come to, and
\* the clock has advanced at most once since generate_site_id.
LocalState ==
    \A t \in Task :
        /\ task[t].pc \in {"insert", "upsert", "lateUpsert"} => task[t].score \in Score
        /\ task[t].upsert # "none" => task[t].pc \in {"count", "log", "lateLog", "done"}
        /\ task[t].pc = "insert" => task[t].gen <= now /\ now <= task[t].gen + 1

\* A cached page was stamped in the past, signed in that instant, and its site
\* id was made then or one tick before.
Stamped ==
    \A u \in Url :
        Store!Cached(u) =>
            /\ cache[u].cached_at <= now
            /\ cache[u].payload.sig = HourOf(cache[u].cached_at)
            /\ \E g \in Time : /\ g <= cache[u].cached_at /\ cache[u].cached_at <= g + 1
                               /\ cache[u].payload.hour = HourOf(g)

\* The four facts that every step of the engine preserves together.
IInv == TypeOK /\ LocalState /\ Stamped /\ CachedIsAccountedFor
=============================================================================
