-------------------------- MODULE HandshakeProofs ---------------------------
(***************************************************************************)
(* What is proved of the handshake engine for every set of URLs, tasks and *)
(* admin calls, every Ttl no longer than the replay window, and all faults.*)
(***************************************************************************)
EXTENDS Handshake, FiniteSetTheorems, TLAPS

\* Instants at most one window apart lie in the same window or in adjacent ones
\* (replay_window_timestamp).
LEMMA WindowStep ==
    ASSUME NEW a \in Nat, NEW b \in Nat, a <= b, b <= a + HourTicks
    PROVE  HourOf(a) <= HourOf(b) /\ HourOf(b) <= HourOf(a) + 1
BY HandshakeAssumption, SMT DEF HourOf

\* Windows are numbers, and the instants of the bounded clock have theirs.
LEMMA WindowType == \A t \in Time : t \in Nat /\ HourOf(t) \in Nat /\ HourOf(t) \in Hours
BY HandshakeAssumption, SMT DEF HourOf, Hours, Time

\* The places, outcomes and answers that the actions name.
LEMMA Labels ==
    /\ "start" \in TaskPc /\ "lookup" \in TaskPc /\ "evict" \in TaskPc /\ "fetch" \in TaskPc
    /\ "insert" \in TaskPc /\ "upsert" \in TaskPc /\ "count" \in TaskPc /\ "log" \in TaskPc /\ "done" \in TaskPc
    /\ "lateUpsert" \in TaskPc /\ "lateLog" \in TaskPc
    /\ "start" \in AdminPc /\ "delete" \in AdminPc /\ "deleteRemove" \in AdminPc /\ "purgeEvict" \in AdminPc
    /\ "purgeRemove" \in AdminPc /\ "clear" \in AdminPc /\ "done" \in AdminPc /\ "lateDelete" \in AdminPc
    /\ "interrupted" \in AdminPc
    /\ "none" \in Upsert /\ "done" \in Upsert /\ "lost" \in Upsert
    /\ 0 \in Status /\ 200 \in Status /\ 401 \in Status /\ 404 \in Status
    /\ 408 \in Status /\ 500 \in Status /\ 502 \in Status
BY DEF TaskPc, AdminPc, Upsert, Status

\* Counters that are bumped stay numbers.
LEMMA CounterType ==
    ASSUME NEW r \in Counters, NEW m \in Nat, NEW n \in Nat
    PROVE  /\ [r EXCEPT !.misses = m] \in Counters
           /\ [r EXCEPT !.misses = m, !.requests = n] \in Counters
           /\ [r EXCEPT !.hits = m] \in Counters
           /\ [r EXCEPT !.scored = m] \in Counters
           /\ [r EXCEPT !.handshakes = m, !.requests = n] \in Counters
BY DEF Counters

\* Counting once more gives a number.
LEMMA CounterValues ==
    ASSUME NEW r \in Counters, NEW t \in Task
    PROVE  /\ r.misses + 1 \in Nat /\ r.hits + 1 \in Nat
           /\ r.scored + 1 \in Nat /\ r.handshakes + 1 \in Nat
           /\ r.misses + Request(t) \in Nat /\ r.requests + Request(t) \in Nat
BY DEF Counters, Request

\* The server starts within the types (Init).
LEMMA InitTypeOK == Init => TypeOK
<1> SUFFICES ASSUME Init PROVE TypeOK
  OBVIOUS
<1>1. 0 \in Time /\ HourOf(0) \in Hours
  BY WindowType, HandshakeAssumption DEF Time
<1>2. PICK target \in [Task -> Url] : task = [t \in Task |-> NewTask(target[t])]
  BY DEF Init
<1>3. task \in [Task -> TaskState]
  BY <1>1, <1>2, Labels DEF NewTask, TaskState
<1>4. PICK subject \in [Admin -> Url] : admin = [a \in Admin |-> NewAdmin(subject[a])]
  BY DEF Init
<1>5. admin \in [Admin -> AdminState]
  BY <1>4, Labels DEF NewAdmin, AdminState
<1>6. QED
  BY <1>1, <1>3, <1>5 DEF Init, TypeOK, NoCounts, Counters

-----------------------------------------------------------------------------
\* The updates of the local state of a handshake stay within its type.
LEMMA TaskMoves ==
    ASSUME NEW r \in TaskState, NEW p \in TaskPc
    PROVE  [r EXCEPT !.pc = p] \in TaskState
BY DEF TaskState

\* A task that answers, writes, generates, signs or finds a page is a task again:
\* it answers ...
LEMMA TaskAnswers ==
    ASSUME NEW r \in TaskState, NEW p \in TaskPc, NEW s \in Status
    PROVE  Answer(r, p, s) \in TaskState
BY DEF Answer, TaskState

\* ... keeping what it knows of its page,
LEMMA AnswerKeeps ==
    ASSUME NEW r \in TaskState, NEW p, NEW s
    PROVE  LET a == Answer(r, p, s) IN
           a.pc = p /\ a.url = r.url /\ a.hour = r.hour /\ a.upsert = r.upsert /\ a.score = r.score
BY DEF Answer, TaskState

\* writes,
LEMMA TaskWrites ==
    ASSUME NEW r \in TaskState, NEW p \in TaskPc, NEW w \in Upsert
    PROVE  [r EXCEPT !.pc = p, !.upsert = w] \in TaskState
BY DEF TaskState

\* generates,
LEMMA TaskGenerates ==
    ASSUME NEW r \in TaskState, NEW p \in TaskPc, NEW g \in Time, NEW s \in Score
    PROVE  [r EXCEPT !.pc = p, !.gen = g, !.score = s] \in TaskState
BY DEF TaskState

\* signs
LEMMA TaskSigns ==
    ASSUME NEW r \in TaskState, NEW p \in TaskPc, NEW h \in Hours, NEW g \in Hours
    PROVE  [r EXCEPT !.pc = p, !.hour = h, !.sig = g] \in TaskState
BY DEF TaskState

\* or finds.
LEMMA TaskFinds ==
    ASSUME NEW r \in TaskState, NEW p \in TaskPc, NEW h \in Hours, NEW g \in Hours,
           NEW s \in Score
    PROVE  [r EXCEPT !.pc = p, !.hour = h, !.sig = g, !.score = s] \in TaskState
BY DEF TaskState

\* What a task is made of.
LEMMA TaskFields ==
    ASSUME TypeOK, NEW t \in Task
    PROVE  /\ task[t] \in TaskState /\ task[t].url \in Url /\ task[t].gen \in Time
           /\ task[t].hour \in Hours /\ task[t].sig \in Hours /\ task[t].upsert \in Upsert
BY DEF TypeOK, TaskState

\* So do those of an admin call.
LEMMA AdminMoves ==
    ASSUME NEW r \in AdminState, NEW p \in AdminPc
    PROVE  [r EXCEPT !.pc = p] \in AdminState
BY DEF AdminState

\* So is an admin call that answers ...
LEMMA AdminAnswers ==
    ASSUME NEW r \in AdminState, NEW p \in AdminPc, NEW s \in Status
    PROVE  Answer(r, p, s) \in AdminState
BY DEF Answer, AdminState

\* What an admin call is made of.
LEMMA AdminFields ==
    ASSUME TypeOK, NEW a \in Admin
    PROVE  admin[a] \in AdminState /\ admin[a].url \in Url /\ admin[a].todo \in SUBSET Url
BY DEF TypeOK, AdminState

\* ... or that has other shards left.
LEMMA AdminTodo ==
    ASSUME NEW r \in AdminState, NEW p \in AdminPc, NEW d \in SUBSET Url
    PROVE  /\ [r EXCEPT !.todo = d] \in AdminState
           /\ [r EXCEPT !.pc = p, !.todo = d] \in AdminState
BY DEF AdminState

-----------------------------------------------------------------------------
\* Each step of a handshake keeps the types, once the local state is known to
\* hold a score where one is cached.
LEMMA TaskTypeOK ==
    ASSUME TypeOK, LocalState, NEW t \in Task,
           Serve(t) \/ Cancel(t) \/ Late(t) \/ \E ts \in Time : Accept(t, ts) \/ Refuse(t, ts)
    PROVE  TypeOK'
<1>a. ASSUME NEW ts \in Time, Accept(t, ts) PROVE TypeOK'
  BY <1>a, Labels, TaskMoves DEF TypeOK, Accept
<1>b. ASSUME NEW ts \in Time, Refuse(t, ts) PROVE TypeOK'
  <2>0. Answer(task[t], "done", 401) \in TaskState
    BY Labels, TaskFields, TaskAnswers
  <2>1. tele' \in Counters
    BY <1>b, CounterType, CounterValues DEF TypeOK, Refuse
  <2>2. QED
    BY <1>b, <2>1, <2>0 DEF TypeOK, Refuse
<1>c. CASE LookupHit(t)
  <2>1. cache[task[t].url].payload \in Content
    BY <1>c, TaskFields DEF TypeOK, LookupHit, Store!Hit, Store!Cached, Entry
  <2>2. task' \in [Task -> TaskState]
    BY <1>c, <2>1, Labels, TaskFinds DEF TypeOK, LookupHit, Content
  <2>3. tele' \in Counters
    BY <1>c, CounterType, CounterValues DEF TypeOK, LookupHit
  <2>4. QED
    BY <1>c, <2>2, <2>3 DEF TypeOK, LookupHit
<1>d. CASE LookupMiss(t)
  BY <1>d, Labels, TaskMoves, CounterType, CounterValues DEF TypeOK, LookupMiss
<1>e. CASE LookupExpired(t)
  BY <1>e, Labels, TaskMoves DEF TypeOK, LookupExpired
<1>f. CASE Evict(t)
  BY <1>f, Labels, TaskMoves, CounterType, CounterValues DEF TypeOK, Evict, Store!Drop
<1>g. CASE FetchFails(t)
  <2>1. Answer(task[t], "done", 502) \in TaskState
    BY Labels, TaskFields, TaskAnswers
  <2>2. QED
    BY <1>g, <2>1 DEF TypeOK, FetchFails
<1>h. ASSUME NEW s \in Score, Fetched(t, s) PROVE TypeOK'
  BY <1>h, Labels, TaskGenerates DEF TypeOK, Fetched
<1>i. CASE CacheInsert(t)
  <2> DEFINE page == [hour |-> HourOf(task[t].gen), sig |-> HourOf(now), score |-> task[t].score]
  <2>1. page \in Content
    BY <1>i, WindowType, TaskFields DEF TypeOK, CacheInsert, LocalState, Content
  <2>2. [payload |-> page, cached_at |-> now] \in Entry
    BY <2>1 DEF TypeOK, Entry
  <2>3. cache' \in [Url -> Entry \cup {Absent}]
    BY <1>i, <2>2 DEF TypeOK, CacheInsert, Store!Put
  <2>4. task' \in [Task -> TaskState]
    BY <1>i, <2>1, Labels, TaskSigns DEF TypeOK, CacheInsert, Content
  <2>5. QED
    BY <1>i, <2>3, <2>4 DEF TypeOK, CacheInsert
<1>j. CASE UpsertOk(t)
  <2>1. task[t].score \in Score
    BY <1>j DEF TypeOK, UpsertOk, LocalState
  <2>2. sites' \in [Url -> [Hours -> Score \cup {Absent}]]
    BY <1>j, <2>1 DEF TypeOK, UpsertOk, WriteRow
  <2>3. tele' \in Counters
    BY <1>j, CounterType, CounterValues DEF TypeOK, UpsertOk, Scored
  <2>4. QED
    BY <1>j, <2>2, <2>3, Labels, TaskWrites DEF TypeOK, UpsertOk
<1>k. CASE UpsertFails(t)
  <2>1. tele' \in Counters
    BY <1>k, CounterType, CounterValues DEF TypeOK, UpsertFails, Scored
  <2>2. QED
    BY <1>k, <2>1, Labels, TaskWrites DEF TypeOK, UpsertFails
<1>s. CASE CountHandshake(t)
  <2>1. tele' \in Counters
    BY <1>s, CounterType, CounterValues DEF TypeOK, CountHandshake
  <2>2. QED
    BY <1>s, <2>1, Labels, TaskMoves DEF TypeOK, CountHandshake
<1>l. CASE LogOk(t)
  <2>1. Answer(task[t], "done", 200) \in TaskState
    BY Labels, TaskFields, TaskAnswers
  <2>2. logs' \subseteq LogRow
    BY <1>l, TaskFields DEF TypeOK, LogOk, WriteLog, LogRow
  <2>3. QED
    BY <1>l, <2>1, <2>2 DEF TypeOK, LogOk
<1>m. CASE LogFails(t)
  <2>1. Answer(task[t], "done", 200) \in TaskState
    BY Labels, TaskFields, TaskAnswers
  <2>2. QED
    BY <1>m, <2>1 DEF TypeOK, LogFails
<1>n. CASE Cancel(t)
  <2>1. Answer(task[t], "done", 408) \in TaskState
    BY Labels, TaskFields, TaskAnswers
  <2>a. Answer(task[t], "lateUpsert", 408) \in TaskState
    BY Labels, TaskFields, TaskAnswers
  <2>b. Answer(task[t], "lateLog", 408) \in TaskState
    BY Labels, TaskFields, TaskAnswers
  <2>2. task' \in [Task -> TaskState]
    <3>1. CASE task' = [task EXCEPT ![t] = Answer(@, "done", 408)]
      BY <3>1, <2>1 DEF TypeOK
    <3>2. CASE task' = [task EXCEPT ![t] = Answer(@, "lateUpsert", 408)]
      BY <3>2, <2>a DEF TypeOK
    <3>3. CASE task' = [task EXCEPT ![t] = Answer(@, "lateLog", 408)]
      BY <3>3, <2>b DEF TypeOK
    <3>4. QED
      BY <1>n, <3>1, <3>2, <3>3 DEF TypeOK, Cancel
  <2>3. QED
    BY <1>n, <2>2 DEF TypeOK, Cancel
<1>o. CASE LateUpsert(t)
  <2>1. task[t].score \in Score
    BY <1>o DEF TypeOK, LateUpsert, LocalState
  <2>2. sites' \in [Url -> [Hours -> Score \cup {Absent}]]
    BY <1>o, <2>1 DEF TypeOK, LateUpsert, WriteRow
  <2>3. QED
    BY <1>o, <2>2, Labels, TaskWrites DEF TypeOK, LateUpsert
<1>p. CASE LateLog(t)
  <2>1. logs' \subseteq LogRow
    BY <1>p, TaskFields DEF TypeOK, LateLog, WriteLog, LogRow
  <2>2. QED
    BY <1>p, <2>1, Labels, TaskMoves DEF TypeOK, LateLog
<1>q. CASE LateDropped(t)
  <2> DEFINE w == IF task[t].pc = "lateUpsert" THEN "lost" ELSE task[t].upsert
  <2>1. w \in Upsert
    BY Labels, TaskFields
  <2> HIDE DEF w
  <2>2. [task[t] EXCEPT !.pc = "done", !.upsert = w] \in TaskState
    <3>1. task[t] \in TaskState
      BY DEF TypeOK
    <3>2. "done" \in TaskPc
      BY Labels
    <3>3. QED
      BY <2>1, <3>1, <3>2 DEF TaskState
  <2>3. QED
    BY <1>q, <2>2 DEF TypeOK, LateDropped, w
<1>r. QED
  BY <1>a, <1>b, <1>c, <1>d, <1>e, <1>f, <1>g, <1>h, <1>i, <1>j, <1>k, <1>l, <1>m,
     <1>n, <1>o, <1>p, <1>q, <1>s DEF Serve, Late

\* So does each step of an admin call.
LEMMA AdminTypeOK ==
    ASSUME TypeOK, NEW a \in Admin, AdminStep(a) \/ AdminCall(a)
    PROVE  TypeOK'
<1>a. CASE Delete(a)
  BY <1>a, Labels, AdminMoves DEF TypeOK, Delete, DeleteRows
<1>b. CASE DeleteNone(a)
  <2>1. Answer(admin[a], "done", 404) \in AdminState
    BY Labels, AdminFields, AdminAnswers
  <2>2. QED
    BY <1>b, <2>1 DEF TypeOK, DeleteNone
<1>c. CASE DeleteFails(a)
  <2>1. Answer(admin[a], "lateDelete", 500) \in AdminState
    BY Labels, AdminFields, AdminAnswers
  <2>2. QED
    BY <1>c, <2>1 DEF TypeOK, DeleteFails
<1>d. CASE RemoveCached(a)
  <2>1. Answer(admin[a], "done", 200) \in AdminState
    BY Labels, AdminFields, AdminAnswers
  <2>2. QED
    BY <1>d, <2>1 DEF TypeOK, RemoveCached, Store!Drop
<1>e. CASE PurgeEvict(a)
  BY <1>e, Labels, AdminMoves DEF TypeOK, PurgeEvict, Store!Drop
<1>f. ASSUME NEW u \in Url, PurgeShard(a, u) PROVE TypeOK'
  <2>1. admin' \in [Admin -> AdminState]
    <3>0. Answer(admin[a], "done", 200) \in AdminState
      BY Labels, AdminFields, AdminAnswers
    <3>1. [Answer(admin[a], "done", 200) EXCEPT !.todo = {}] \in AdminState
      BY <3>0 DEF AdminState
    <3>2. admin[a].todo \ {u} \in SUBSET Url
      BY DEF TypeOK, AdminState
    <3>3. [admin[a] EXCEPT !.todo = admin[a].todo \ {u}] \in AdminState
      BY <3>2, AdminFields DEF AdminState
    <3>4. QED
      BY <1>f, <3>1, <3>3 DEF TypeOK, PurgeShard
  <2>2. QED
    BY <1>f, <2>1 DEF TypeOK, PurgeShard, Store!Drop
<1>g. CASE DeleteCall(a)
  BY <1>g, Labels, AdminMoves DEF TypeOK, DeleteCall
<1>h. CASE DeleteCancel(a)
  <2>1. Answer(admin[a], "lateDelete", 408) \in AdminState
    BY Labels, AdminFields, AdminAnswers
  <2>2. QED
    BY <1>h, <2>1 DEF TypeOK, DeleteCancel
<1>i. CASE LateDelete(a)
  BY <1>i, Labels, AdminMoves DEF TypeOK, LateDelete, DeleteRows
<1>j. CASE LateDeleteDropped(a)
  BY <1>j, Labels, AdminMoves DEF TypeOK, LateDeleteDropped
<1>k. CASE PurgeUrl(a)
  BY <1>k, Labels, AdminMoves DEF TypeOK, PurgeUrl
<1>l. CASE PurgeAll(a)
  BY <1>l, Labels, AdminTodo DEF TypeOK, PurgeAll
<1>m. QED
  BY <1>a, <1>b, <1>c, <1>d, <1>e, <1>f, <1>g, <1>h, <1>i, <1>j, <1>k, <1>l
     DEF AdminStep, AdminCall

\* So do the document endpoints, the cleanup task, the clock and a crash.
LEMMA SystemTypeOK ==
    ASSUME TypeOK,
           \/ DocumentServed \/ DocumentMissing
           \/ SweepBegin \/ (\E u \in Url : SweepShard(u)) \/ Tick \/ Crash
    PROVE  TypeOK'
<1>a. CASE SweepBegin
  BY <1>a DEF TypeOK, SweepBegin
<1>b. ASSUME NEW u \in Url, SweepShard(u) PROVE TypeOK'
  BY <1>b DEF TypeOK, SweepShard, Store!Drop
<1>c. CASE Tick
  BY <1>c, HandshakeAssumption DEF TypeOK, Tick, Time
<1>d. CASE Crash
  <2>1. \A r \in TaskState : CrashedTask(r) \in TaskState
    BY DEF TypeOK, CrashedTask, TaskState, TaskPc
  <2>2. \A r \in AdminState : CrashedAdmin(r) \in AdminState
    BY DEF TypeOK, CrashedAdmin, AdminState, AdminPc
  <2>3. task' \in [Task -> TaskState] /\ admin' \in [Admin -> AdminState]
    BY <1>d, <2>1, <2>2 DEF TypeOK, Crash
  <2>4. tele' \in Counters
    BY <1>d DEF TypeOK, Crash, NoCounts, Counters
  <2>5. QED
    BY <1>d, <2>3, <2>4 DEF TypeOK, Crash
<1>e. CASE DocumentServed \/ DocumentMissing
  <2>1. /\ tele.hits + 1 \in Nat /\ tele.served + 1 \in Nat
        /\ tele.misses + 1 \in Nat /\ tele.missing + 1 \in Nat
    BY DEF TypeOK, Counters
  <2>2. tele' \in Counters
    BY <1>e, <2>1 DEF TypeOK, DocumentServed, DocumentMissing, Counters
  <2>3. QED
    BY <1>e, <2>2 DEF TypeOK, DocumentServed, DocumentMissing
<1>f. QED
  BY <1>a, <1>b, <1>c, <1>d, <1>e

-----------------------------------------------------------------------------
\* The step of a handshake leaves all others where they are, and the clock.
LEMMA TaskLocalState ==
    ASSUME TypeOK, LocalState, NEW t \in Task,
           Serve(t) \/ Cancel(t) \/ Late(t) \/ \E ts \in Time : Accept(t, ts) \/ Refuse(t, ts)
    PROVE  LocalState'
<1> USE DEF TypeOK, LocalState, TaskState, Answer
<1>a. ASSUME NEW ts \in Time, Accept(t, ts) PROVE LocalState'
  BY <1>a DEF Accept
<1>b. ASSUME NEW ts \in Time, Refuse(t, ts) PROVE LocalState'
  BY <1>b DEF Answer, Refuse
<1>c. CASE LookupHit(t)
  <2>1. task'[t].pc = "count" /\ now' = now /\ \A o \in Task \ {t} : task'[o] = task[o]
    BY <1>c DEF LookupHit
  <2>2. QED
    BY <2>1
<1>d. CASE LookupMiss(t)
  BY <1>d DEF LookupMiss
<1>e. CASE LookupExpired(t)
  BY <1>e DEF LookupExpired
<1>f. CASE Evict(t)
  BY <1>f DEF Evict
<1>g. CASE FetchFails(t)
  BY <1>g DEF Answer, FetchFails
<1>h. ASSUME NEW s \in Score, Fetched(t, s) PROVE LocalState'
  BY <1>h, HandshakeAssumption DEF Fetched, Time
<1>i. CASE CacheInsert(t)
  BY <1>i DEF CacheInsert
<1>j. CASE UpsertOk(t)
  BY <1>j DEF UpsertOk
<1>k. CASE UpsertFails(t)
  BY <1>k DEF UpsertFails
<1>s. CASE CountHandshake(t)
  BY <1>s DEF CountHandshake
<1>l. CASE LogOk(t)
  BY <1>l DEF Answer, LogOk
<1>m. CASE LogFails(t)
  BY <1>m DEF Answer, LogFails
<1>n. CASE Cancel(t)
  <2>1. CASE task[t].pc = "fetch" /\ task' = [task EXCEPT ![t] = Answer(@, "done", 408)]
    BY <1>n, <2>1 DEF Answer, Cancel
  <2>2. CASE task[t].pc = "upsert" /\ task' = [task EXCEPT ![t] = Answer(@, "lateUpsert", 408)]
    BY <1>n, <2>2 DEF Answer, Cancel
  <2>3. CASE task[t].pc = "log" /\ task' = [task EXCEPT ![t] = Answer(@, "lateLog", 408)]
    BY <1>n, <2>3 DEF Answer, Cancel
  <2>4. QED
    BY <1>n, <2>1, <2>2, <2>3 DEF Answer, Cancel
<1>o. CASE LateUpsert(t)
  BY <1>o DEF LateUpsert
<1>p. CASE LateLog(t)
  BY <1>p DEF LateLog
<1>q. CASE LateDropped(t)
  BY <1>q DEF LateDropped
<1>r. QED
  BY <1>a, <1>b, <1>c, <1>d, <1>e, <1>f, <1>g, <1>h, <1>i, <1>j, <1>k, <1>l, <1>m,
     <1>n, <1>o, <1>p, <1>q, <1>s DEF Serve, Late

\* Everything else leaves the handshakes alone, but for the clock and a crash.
LEMMA OtherLocalState ==
    ASSUME TypeOK, LocalState,
           \/ \E a \in Admin : AdminStep(a) \/ AdminCall(a)
           \/ DocumentServed \/ DocumentMissing
           \/ SweepBegin \/ (\E u \in Url : SweepShard(u)) \/ Tick \/ Crash
    PROVE  LocalState'
<1> USE DEF LocalState
<1>a. ASSUME NEW a \in Admin, AdminStep(a) \/ AdminCall(a) PROVE UNCHANGED <<task, now>>
  BY <1>a DEF AdminStep, AdminCall, Delete, DeleteNone, DeleteFails, RemoveCached, PurgeEvict,
     PurgeShard, DeleteCall, DeleteCancel, LateDelete, LateDeleteDropped, PurgeUrl, PurgeAll
<1>b. ASSUME \/ DocumentServed \/ DocumentMissing
             \/ SweepBegin \/ \E u \in Url : SweepShard(u)
      PROVE  UNCHANGED <<task, now>>
  BY <1>b DEF DocumentServed, DocumentMissing, SweepBegin, SweepShard
<1>c. CASE UNCHANGED <<task, now>>
  BY <1>c
<1>d. CASE Tick
  BY <1>d, HandshakeAssumption DEF Tick, TypeOK, TaskState, Time
<1>e. CASE Crash
  <2>1. \A t \in Task : task'[t] = CrashedTask(task[t])
    BY <1>e DEF Crash
  <2>2. ASSUME NEW t \in Task
        PROVE  /\ task'[t].score = task[t].score /\ task'[t].upsert = task[t].upsert
               /\ task'[t].pc \in {"start", "lateUpsert", "lateLog", "done"}
               /\ task'[t].pc = "lateUpsert" => task[t].pc \in {"upsert", "lateUpsert"}
               /\ task[t].pc \in {"count", "log", "lateLog", "done"} => task'[t].pc \in {"lateLog", "done"}
    BY <2>1 DEF CrashedTask, TypeOK, TaskState, TaskPc
  <2>3. QED
    BY <2>2
<1>f. QED
  BY <1>a, <1>b, <1>c, <1>d, <1>e

-----------------------------------------------------------------------------
\* Only CacheInsert puts anything into the cache (RfoCache::insert has one
\* caller): every other step keeps or drops what is under a key.
LEMMA CacheKeptOrDropped ==
    ASSUME TypeOK, [Next]_vars, \A t \in Task : ~CacheInsert(t)
    PROVE  /\ \A u \in Url : cache'[u] \in {cache[u], Absent}
           /\ now' \in {now, now + 1}
<1> USE DEF TypeOK
<1>1. CASE UNCHANGED vars
  BY <1>1 DEF vars
<1>2. ASSUME NEW t \in Task, NEW ts \in Time, Accept(t, ts) \/ Refuse(t, ts)
      PROVE  UNCHANGED <<cache, now>>
  BY <1>2 DEF Accept, Refuse
<1>3. ASSUME NEW t \in Task, Evict(t)
      PROVE  (\A u \in Url : cache'[u] \in {cache[u], Absent}) /\ now' = now
  BY <1>3 DEF Evict, Store!Drop
<1>4. ASSUME NEW t \in Task, Serve(t) \/ Cancel(t) \/ Late(t), ~Evict(t)
      PROVE  UNCHANGED <<cache, now>>
  BY <1>4 DEF Serve, LookupHit, LookupMiss, LookupExpired, FetchFails, Fetched, UpsertOk,
     UpsertFails, CountHandshake, LogOk, LogFails, Cancel, Late, LateUpsert, LateLog, LateDropped
<1>5. ASSUME NEW a \in Admin, RemoveCached(a) \/ PurgeEvict(a) \/ \E u \in Url : PurgeShard(a, u)
      PROVE  (\A u \in Url : cache'[u] \in {cache[u], Absent}) /\ now' = now
  BY <1>5 DEF RemoveCached, PurgeEvict, PurgeShard, Store!Drop
<1>6. ASSUME NEW a \in Admin,
             AdminCall(a) \/ Delete(a) \/ DeleteNone(a) \/ DeleteFails(a)
      PROVE  UNCHANGED <<cache, now>>
  BY <1>6 DEF AdminCall, Delete, DeleteNone, DeleteFails, DeleteCall, DeleteCancel,
     LateDelete, LateDeleteDropped, PurgeUrl, PurgeAll
<1>7. CASE SweepBegin
  BY <1>7 DEF SweepBegin
<1>8. ASSUME NEW u \in Url, SweepShard(u)
      PROVE  (\A k \in Url : cache'[k] \in {cache[k], Absent}) /\ now' = now
  BY <1>8 DEF SweepShard, Store!Drop
<1>9. CASE Tick
  BY <1>9 DEF Tick
<1>10. CASE Crash
  BY <1>10 DEF Crash
<1>11. CASE DocumentServed \/ DocumentMissing
  BY <1>11 DEF DocumentServed, DocumentMissing
<1>12. QED
  BY <1>1, <1>2, <1>3, <1>4, <1>5, <1>6, <1>7, <1>8, <1>9, <1>10, <1>11 DEF Next, AdminStep

\* Entries are stamped when they are inserted, and the clock only advances.
LEMMA StampedStep == ASSUME TypeOK, LocalState, Stamped, [Next]_vars PROVE Stamped'
<1>1. ASSUME NEW t \in Task, CacheInsert(t) PROVE Stamped'
  <2> DEFINE url == task[t].url
  <2>1. /\ cache'[url].cached_at = now /\ cache'[url].payload.sig = HourOf(now)
        /\ cache'[url].payload.hour = HourOf(task[t].gen)
        /\ now' = now
        /\ \A u \in Url \ {url} : cache'[u] = cache[u]
    BY <1>1, TaskFields DEF CacheInsert, Store!Put, TypeOK
  <2>2. task[t].gen \in Time /\ task[t].gen <= now /\ now <= task[t].gen + 1 /\ now <= now
    BY <1>1, TaskFields, HandshakeAssumption DEF CacheInsert, LocalState, TypeOK, Time
  <2>3. ASSUME NEW u \in Url, Store!Cached(u)'
        PROVE  /\ cache'[u].cached_at <= now'
               /\ cache'[u].payload.sig = HourOf(cache'[u].cached_at)
               /\ \E g \in Time : /\ g <= cache'[u].cached_at /\ cache'[u].cached_at <= g + 1
                                  /\ cache'[u].payload.hour = HourOf(g)
    <3>1. CASE u = url
      BY <3>1, <2>1, <2>2
    <3>2. CASE u # url
      BY <3>2, <2>1, <2>3 DEF Stamped, Store!Cached
    <3>3. QED
      BY <3>1, <3>2
  <2>4. QED
    BY <2>3 DEF Stamped
<1>2. ASSUME \A t \in Task : ~CacheInsert(t) PROVE Stamped'
  <2>1. (\A u \in Url : cache'[u] \in {cache[u], Absent}) /\ now' \in {now, now + 1}
    BY <1>2, CacheKeptOrDropped
  <2>2. ASSUME NEW u \in Url, Store!Cached(u)'
        PROVE  /\ cache'[u].cached_at <= now'
               /\ cache'[u].payload.sig = HourOf(cache'[u].cached_at)
               /\ \E g \in Time : /\ g <= cache'[u].cached_at /\ cache'[u].cached_at <= g + 1
                                  /\ cache'[u].payload.hour = HourOf(g)
    <3>1. cache'[u] = cache[u] /\ Store!Cached(u)
      BY <2>1, <2>2 DEF Store!Cached
    <3>2. cache[u].cached_at \in Time /\ now \in Time
      BY <3>1 DEF TypeOK, Entry, Store!Cached
    <3>3. cache[u].cached_at <= now'
      BY <3>1, <3>2, <2>1, HandshakeAssumption DEF Stamped, Time
    <3>4. QED
      BY <3>1, <3>3 DEF Stamped
  <2>3. QED
    BY <2>2 DEF Stamped
<1>3. QED
  BY <1>1, <1>2

-----------------------------------------------------------------------------
\* The property of the next state, one URL and one window at a time.
LEMMA AccountedNext ==
    ASSUME \A u \in Url : \A h : cache'[u] # Absent /\ cache'[u].payload.hour = h =>
              Registered(u, h)' \/ Unwritten(u, h)' \/ HalfDeleted(u)'
    PROVE  CachedIsAccountedFor'
BY DEF CachedIsAccountedFor, Store!Cached, Registered, Unwritten, HalfDeleted

\* A cached page of some hour is registered, or its task has still to write, or an
\* admin call has half deleted it.
LEMMA AccountedNow ==
    ASSUME CachedIsAccountedFor, NEW u \in Url, NEW h,
           cache[u] # Absent, cache[u].payload.hour = h
    PROVE  Registered(u, h) \/ Unwritten(u, h) \/ HalfDeleted(u)
BY DEF CachedIsAccountedFor, Store!Cached

\* What a step must do to keep every cached page accounted for, when it caches
\* none: the row, the debt of a handshake and the half-done delete may each
\* give way to another of the three only.
LEMMA AccountedStep ==
    ASSUME CachedIsAccountedFor,
           \A u \in Url : cache'[u] \in {cache[u], Absent},
           \A u \in Url : \A h : Registered(u, h) => Registered(u, h)' \/ HalfDeleted(u)',
           \A u \in Url : \A h : Unwritten(u, h) => Registered(u, h)' \/ Unwritten(u, h)',
           \A u \in Url : HalfDeleted(u) => HalfDeleted(u)' \/ cache'[u] = Absent
    PROVE  CachedIsAccountedFor'
<1>1. ASSUME NEW u \in Url, NEW h, cache'[u] # Absent, cache'[u].payload.hour = h
      PROVE  Registered(u, h)' \/ Unwritten(u, h)' \/ HalfDeleted(u)'
  <2>1. cache'[u] = cache[u]
    BY <1>1
  <2>2. Registered(u, h) \/ Unwritten(u, h) \/ HalfDeleted(u)
    BY <1>1, <2>1, AccountedNow
  <2>3. QED
    BY <1>1, <2>2
<1>2. QED
  BY <1>1, AccountedNext

\* A handshake that has cached a page without its row, or may have.
Owes(t) == task[t].pc \in {"upsert", "lateUpsert"} \/ task[t].upsert = "lost"

\* A handshake keeps that debt until it writes the row: the page it names stays
\* the one it cached (the arguments of upsert_site).
LEMMA DebtKept ==
    ASSUME NEW t \in Task,
           \A o \in Task \ {t} : task'[o] = task[o],
           Owes(t) => /\ task'[t].url = task[t].url /\ task'[t].hour = task[t].hour
                      /\ Owes(t)' \/ Registered(task[t].url, task[t].hour)'
    PROVE  \A u \in Url : \A h : Unwritten(u, h) => Registered(u, h)' \/ Unwritten(u, h)'
<1> SUFFICES ASSUME NEW u \in Url, NEW h, Unwritten(u, h), ~Registered(u, h)'
             PROVE  Unwritten(u, h)'
  OBVIOUS
<1>1. PICK o \in Task : task[o].url = u /\ task[o].hour = h /\ Owes(o)
  BY DEF Unwritten, Owes
<1>2. task'[o].url = u /\ task'[o].hour = h /\ Owes(o)'
  <2>1. CASE o = t
    BY <1>1, <2>1
  <2>2. CASE o # t
    BY <1>1, <2>2 DEF Owes
  <2>3. QED
    BY <2>1, <2>2
<1>3. QED
  BY <1>2 DEF Unwritten, Owes

\* The steps of a handshake other than CacheInsert.
LEMMA TaskAccounted ==
    ASSUME TypeOK, TypeOK', LocalState, CachedIsAccountedFor, NEW t \in Task,
           \A u \in Url : cache'[u] \in {cache[u], Absent},
           Serve(t) \/ Cancel(t) \/ Late(t) \/ \E ts \in Time : Accept(t, ts) \/ Refuse(t, ts),
           ~CacheInsert(t)
    PROVE  CachedIsAccountedFor'
<1>1. admin' = admin /\ \A o \in Task \ {t} : task'[o] = task[o]
  BY DEF TypeOK, Serve, LookupHit, LookupMiss, LookupExpired, Evict, FetchFails, Fetched,
     UpsertOk, UpsertFails, CountHandshake, LogOk, LogFails, Cancel, Late, LateUpsert, LateLog, LateDropped,
     Accept, Refuse
<1>2. \A u \in Url : \A h : Registered(u, h) => Registered(u, h)'
  <2>1. CASE sites' = sites
    BY <2>1 DEF Registered
  <2>2. CASE WriteRow(t) /\ task[t].score \in Score
    BY <2>2, TaskFields, HandshakeAssumption DEF WriteRow, Registered, TypeOK
  <2>3. CASE UpsertOk(t) \/ LateUpsert(t)
    BY <2>2, <2>3 DEF UpsertOk, LateUpsert, LocalState
  <2>4. CASE ~(UpsertOk(t) \/ LateUpsert(t))
    BY <2>1, <2>4 DEF Serve, LookupHit, LookupMiss, LookupExpired, Evict, FetchFails, Fetched,
       UpsertFails, CountHandshake, LogOk, LogFails, Cancel, Late, LateLog, LateDropped, Accept, Refuse
  <2>5. QED
    BY <2>3, <2>4
<1>3. ASSUME Owes(t)
      PROVE  /\ task'[t].url = task[t].url /\ task'[t].hour = task[t].hour
             /\ Owes(t)' \/ Registered(task[t].url, task[t].hour)'
  <2>1. task[t].pc \in {"upsert", "lateUpsert", "count", "log", "lateLog", "done"}
    BY <1>3 DEF Owes, LocalState
  <2>2. \/ UpsertOk(t) \/ UpsertFails(t) \/ CountHandshake(t)
        \/ LogOk(t) \/ LogFails(t) \/ Cancel(t) \/ Late(t)
    BY <2>1 DEF Serve, LookupHit, LookupMiss, LookupExpired, Evict, FetchFails, Fetched,
       CacheInsert, Accept, Refuse
  <2>3. CASE UpsertOk(t) \/ LateUpsert(t)
    <3>1. task[t].score \in Score /\ sites'[task[t].url][task[t].hour] = task[t].score
      BY <2>3, TaskFields DEF UpsertOk, LateUpsert, WriteRow, LocalState, TypeOK
    <3>2. task'[t].url = task[t].url /\ task'[t].hour = task[t].hour
      BY <2>3 DEF UpsertOk, LateUpsert, TypeOK, TaskState
    <3>3. QED
      BY <3>1, <3>2, HandshakeAssumption DEF Registered
  <2>4. CASE UpsertFails(t)
    BY <2>4 DEF UpsertFails, Owes, TypeOK, TaskState
  <2>10. CASE CountHandshake(t)
    BY <1>3, <2>10 DEF CountHandshake, Owes, TypeOK, TaskState
  <2>5. CASE LogOk(t) \/ LogFails(t)
    <3>1. task[t].upsert = "lost" /\ task'[t] = Answer(task[t], "done", 200)
      BY <1>3, <2>5 DEF LogOk, LogFails, Owes, TypeOK
    <3>2. QED
      BY <3>1, TaskFields, AnswerKeeps DEF Owes
  <2>6. CASE LateLog(t)
    BY <1>3, <2>6 DEF LateLog, Owes, TypeOK, TaskState
  <2>9. CASE Cancel(t)
    <3>1. CASE task[t].pc = "fetch"
      BY <2>1, <3>1
    <3>2. CASE task[t].pc = "upsert"
      <4>1. task'[t] = Answer(task[t], "lateUpsert", 408)
        BY <2>9, <3>2 DEF Cancel, TypeOK
      <4>2. QED
        BY <4>1, TaskFields, AnswerKeeps DEF Owes
    <3>3. CASE task[t].pc = "log"
      <4>1. task[t].upsert = "lost" /\ task'[t] = Answer(task[t], "lateLog", 408)
        BY <1>3, <2>9, <3>3 DEF Cancel, Owes, TypeOK
      <4>2. QED
        BY <4>1, TaskFields, AnswerKeeps DEF Owes
    <3>4. QED
      BY <2>9, <3>1, <3>2, <3>3 DEF Cancel
  <2>7. CASE LateDropped(t)
    BY <1>3, <2>7 DEF LateDropped, Owes, TypeOK, TaskState
  <2>8. QED
    BY <2>2, <2>3, <2>4, <2>5, <2>6, <2>7, <2>9, <2>10 DEF Late
<1>4. \A u \in Url : HalfDeleted(u) => HalfDeleted(u)'
  BY <1>1 DEF HalfDeleted
<1>5. QED
  BY <1>1, <1>2, <1>3, <1>4, DebtKept, AccountedStep

\* The page a handshake caches is accounted for by its own upsert, which comes
\* next; a page it replaces no longer is in question.
LEMMA InsertAccounted ==
    ASSUME TypeOK, LocalState, CachedIsAccountedFor, NEW t \in Task, CacheInsert(t)
    PROVE  CachedIsAccountedFor'
<1> DEFINE url == task[t].url
           hour == HourOf(task[t].gen)
<1>1. /\ task'[t].url = url /\ task'[t].hour = hour /\ task'[t].pc = "upsert"
      /\ \A o \in Task \ {t} : task'[o] = task[o]
  BY DEF CacheInsert, TypeOK, TaskState
<1>2. /\ cache'[url].payload.hour = hour
      /\ \A u \in Url \ {url} : cache'[u] = cache[u]
  BY DEF CacheInsert, Store!Put, TypeOK, TaskState
<1>3. ~Owes(t)
  BY DEF CacheInsert, LocalState, Owes
<1>4. sites' = sites /\ admin' = admin
  BY DEF CacheInsert
<1>5. ASSUME NEW u \in Url, NEW h, cache'[u] # Absent, cache'[u].payload.hour = h
      PROVE  Registered(u, h)' \/ Unwritten(u, h)' \/ HalfDeleted(u)'
  <2>1. CASE u = url
    <3>1. task'[t].url = u /\ task'[t].hour = h
      BY <2>1, <1>1, <1>2, <1>5
    <3>2. QED
      BY <3>1, <1>1 DEF Unwritten
  <2>2. CASE u # url
    <3>1. cache'[u] = cache[u]
      BY <2>2, <1>2
    <3>2. Registered(u, h) \/ Unwritten(u, h) \/ HalfDeleted(u)
      BY <3>1, <1>5, AccountedNow
    <3>3. ASSUME NEW o \in Task, task[o].url = u, task[o].hour = h, Owes(o)
          PROVE  Unwritten(u, h)'
      <4>1. o # t
        BY <3>3, <1>3
      <4>2. QED
        BY <3>3, <4>1, <1>1 DEF Unwritten, Owes
    <3>4. Unwritten(u, h) => Unwritten(u, h)'
      BY <3>3 DEF Unwritten, Owes
    <3>5. QED
      BY <3>2, <3>4, <1>4 DEF Registered, HalfDeleted
  <2>3. QED
    BY <2>1, <2>2
<1>6. QED
  BY <1>5, AccountedNext

\* The steps of an admin call: a delete owes the cached page until it removes it.
LEMMA AdminAccounted ==
    ASSUME TypeOK, CachedIsAccountedFor, NEW a \in Admin, AdminStep(a) \/ AdminCall(a),
           \A u \in Url : cache'[u] \in {cache[u], Absent}
    PROVE  CachedIsAccountedFor'
<1>1. task' = task /\ \A o \in Admin \ {a} : admin'[o] = admin[o]
  BY DEF TypeOK, AdminStep, AdminCall, Delete, DeleteNone, DeleteFails, RemoveCached, PurgeEvict,
     PurgeShard, DeleteCall, DeleteCancel, LateDelete, LateDeleteDropped, PurgeUrl, PurgeAll
<1>2. \A u \in Url : \A h : Unwritten(u, h) => Unwritten(u, h)'
  BY <1>1 DEF Unwritten
<1>3. CASE Delete(a) \/ LateDelete(a)
  <2>1. /\ admin'[a].url = admin[a].url /\ admin'[a].pc \in {"deleteRemove", "interrupted"}
        /\ admin[a].pc \in {"delete", "lateDelete"}
        /\ \A u \in Url \ {admin[a].url} : sites'[u] = sites[u]
    BY <1>3 DEF Delete, LateDelete, DeleteRows, TypeOK, AdminState
  <2>2. HalfDeleted(admin[a].url)'
    BY <2>1 DEF HalfDeleted
  <2>3. \A u \in Url : \A h : Registered(u, h) => Registered(u, h)' \/ HalfDeleted(u)'
    BY <2>1, <2>2 DEF Registered
  <2>4. \A u \in Url : HalfDeleted(u) => HalfDeleted(u)'
    BY <1>1, <2>1 DEF HalfDeleted
  <2>5. QED
    BY <1>2, <2>3, <2>4, AccountedStep
<1>4. CASE RemoveCached(a)
  <2>1. sites' = sites /\ cache'[admin[a].url] = Absent
    BY <1>4 DEF RemoveCached, Answer, Store!Drop, TypeOK, AdminState
  <2>2. \A u \in Url : HalfDeleted(u) => HalfDeleted(u)' \/ cache'[u] = Absent
    BY <1>1, <2>1 DEF HalfDeleted
  <2>3. \A u \in Url : \A h : Registered(u, h) => Registered(u, h)'
    BY <2>1 DEF Registered
  <2>4. QED
    BY <1>2, <2>2, <2>3, AccountedStep
<1>5. CASE ~(Delete(a) \/ LateDelete(a) \/ RemoveCached(a))
  <2>1. sites' = sites /\ admin[a].pc \notin {"deleteRemove", "interrupted"}
    BY <1>5 DEF AdminStep, AdminCall, DeleteNone, DeleteFails, PurgeEvict, PurgeShard,
       DeleteCall, DeleteCancel, LateDeleteDropped, PurgeUrl, PurgeAll
  <2>2. \A u \in Url : HalfDeleted(u) => HalfDeleted(u)'
    BY <1>1, <2>1 DEF HalfDeleted
  <2>3. \A u \in Url : \A h : Registered(u, h) => Registered(u, h)'
    BY <2>1 DEF Registered
  <2>4. QED
    BY <1>2, <2>2, <2>3, AccountedStep
<1>6. QED
  BY <1>3, <1>4, <1>5

-----------------------------------------------------------------------------
\* Every step keeps every cached page accounted for.
LEMMA AccountedNextStep ==
    ASSUME TypeOK, TypeOK', LocalState, CachedIsAccountedFor, [Next]_vars
    PROVE  CachedIsAccountedFor'
<1>1. ASSUME NEW t \in Task, CacheInsert(t) PROVE CachedIsAccountedFor'
  BY <1>1, InsertAccounted
<1>2. ASSUME \A t \in Task : ~CacheInsert(t) PROVE CachedIsAccountedFor'
  <2>1. \A u \in Url : cache'[u] \in {cache[u], Absent}
    BY <1>2, CacheKeptOrDropped
  <2>2. CASE UNCHANGED vars
    BY <2>2 DEF vars, CachedIsAccountedFor, Registered, Unwritten, HalfDeleted, Store!Cached
  <2>3. ASSUME NEW t \in Task,
               Serve(t) \/ Cancel(t) \/ Late(t) \/ \E ts \in Time : Accept(t, ts) \/ Refuse(t, ts)
        PROVE  CachedIsAccountedFor'
    BY <1>2, <2>1, <2>3, TaskAccounted
  <2>4. ASSUME NEW a \in Admin, AdminStep(a) \/ AdminCall(a) PROVE CachedIsAccountedFor'
    BY <2>1, <2>4, AdminAccounted
  <2>5. CASE \/ DocumentServed \/ DocumentMissing
             \/ SweepBegin \/ (\E u \in Url : SweepShard(u)) \/ Tick
    <3>1. sites' = sites /\ task' = task /\ admin' = admin
      BY <2>5 DEF DocumentServed, DocumentMissing, SweepBegin, SweepShard, Tick
    <3>2. QED
      BY <2>1, <3>1, AccountedStep DEF Registered, Unwritten, HalfDeleted
  <2>6. CASE Crash
    BY <2>6, AccountedNext DEF Crash
  <2>7. QED
    BY <2>2, <2>3, <2>4, <2>5, <2>6 DEF Next
<1>3. QED
  BY <1>1, <1>2

\* Every step keeps the types ...
LEMMA TypeOKStep == ASSUME TypeOK, LocalState, [Next]_vars PROVE TypeOK'
<1>1. CASE UNCHANGED vars
  BY <1>1 DEF vars, TypeOK
<1>2. CASE Next
  BY <1>2, TaskTypeOK, AdminTypeOK, SystemTypeOK DEF Next
<1>3. QED
  BY <1>1, <1>2

\* ... and the local state of every task and call.
LEMMA LocalStateStep == ASSUME TypeOK, LocalState, [Next]_vars PROVE LocalState'
<1>1. CASE UNCHANGED vars
  BY <1>1 DEF vars, LocalState
<1>2. CASE Next
  BY <1>2, TaskLocalState, OtherLocalState DEF Next
<1>3. QED
  BY <1>1, <1>2

\* The server starts with an empty cache and no handshake under way (Init).
LEMMA InitIInv == Init => IInv
<1> SUFFICES ASSUME Init PROVE IInv
  OBVIOUS
<1>1. \A t \in Task : task[t].pc = "start" /\ task[t].upsert = "none"
  BY DEF Init, NewTask
<1>2. LocalState
  BY <1>1 DEF LocalState
<1>3. \A u \in Url : ~Store!Cached(u)
  BY DEF Init, Store!Cached
<1>4. QED
  BY <1>2, <1>3, InitTypeOK DEF IInv, Stamped, CachedIsAccountedFor

\* The inductive invariant holds of every behaviour of the engine, with any
\* faults: handshakes, batches, admin calls, sweeps, cancellations and crashes
\* interleaved at will (handlers.rs, admin.rs, main.rs).
THEOREM Invariant == Spec => []IInv
<1>1. IInv /\ [Next]_vars => IInv'
  BY TypeOKStep, LocalStateStep, StampedStep, AccountedNextStep DEF IInv
<1>2. QED
  BY <1>1, InitIInv, PTL DEF Spec

\* Every variable keeps its type: no handler caches or writes a score it never
\* compiled, and no answer or counter leaves its domain.
THEOREM TypeCorrect == Spec => []TypeOK
<1>1. IInv => TypeOK
  BY DEF IInv
<1>2. QED
  BY <1>1, Invariant, PTL

\* A page is in the cache without its row in sites only for one of the reasons
\* that CachedIsAccountedFor lists: its upsert is out, failed or was dropped, or
\* a delete stopped between its two writes (handlers.rs handshake, admin.rs
\* delete_site).
THEOREM Accounted == Spec => []CachedIsAccountedFor
<1>1. IInv => CachedIsAccountedFor
  BY DEF IInv
<1>2. QED
  BY <1>1, Invariant, PTL

\* What the cache serves names the current replay window or the one before, as
\* long as Ttl is no longer than the window, and its signature is of the same
\* window or the next (cache::get, generate_site_id, compile_doc).
THEOREM SiteIdsRecent == Spec => []RecentSiteId
<1>1. ASSUME TypeOK, Stamped, NEW u \in Url, Store!Hit(u)
      PROVE  /\ cache[u].payload.hour <= cache[u].payload.sig
             /\ cache[u].payload.sig <= cache[u].payload.hour + 1
             /\ cache[u].payload.sig <= HourOf(now)
             /\ HourOf(now) <= cache[u].payload.hour + 1
  <2> DEFINE at == cache[u].cached_at
  <2>1. /\ Store!Cached(u) /\ now - at < Ttl /\ at <= now
        /\ cache[u].payload.sig = HourOf(at)
    BY <1>1 DEF Store!Hit, Store!FreshAt, Stamped
  <2>2. PICK g \in Time : g <= at /\ at <= g + 1 /\ cache[u].payload.hour = HourOf(g)
    BY <1>1, <2>1 DEF Stamped
  <2>3. at \in Nat /\ now \in Nat /\ g \in Nat
    BY <1>1, <2>1, HandshakeAssumption DEF TypeOK, Entry, Time, Store!Cached
  <2>4. at <= g + HourTicks /\ now <= at + HourTicks /\ now <= g + HourTicks /\ g <= now
    BY <2>1, <2>2, <2>3, HandshakeAssumption
  <2>5. HourOf(g) <= HourOf(at) /\ HourOf(at) <= HourOf(g) + 1
    BY <2>2, <2>3, <2>4, WindowStep
  <2>6. HourOf(at) <= HourOf(now)
    BY <2>1, <2>3, <2>4, WindowStep
  <2>7. HourOf(now) <= HourOf(g) + 1
    BY <2>3, <2>4, WindowStep
  <2>8. QED
    BY <2>1, <2>2, <2>5, <2>6, <2>7
<1>2. IInv => RecentSiteId
  BY <1>1 DEF IInv, RecentSiteId
<1>3. QED
  BY <1>2, Invariant, PTL

-----------------------------------------------------------------------------
(* The counters.                                                           *)

\* The handshakes whose miss is counted and whose page is not scored yet.
Compiling == {t \in Task : task[t].pc \in {"fetch", "insert", "upsert"}}

\* The counters in balance with c handshakes that compile and n that count.
Balanced(r, c, n) ==
    /\ r.handshakes + n = (r.hits - r.served) + r.scored
    /\ r.scored + c <= r.misses - r.missing
    /\ r.requests + c + n <= (r.hits - r.served) + (r.misses - r.missing)

\* Behind TelemetryAccounts: the misses, and the hits and misses together, also
\* cover what the handshakes under way are still going to count.
Counted ==
    /\ IsFiniteSet(Compiling) /\ IsFiniteSet(Counting)
    /\ Balanced(tele, Cardinality(Compiling), Cardinality(Counting))

\* A handshake leaves both sets or joins one, by the place it comes to.
LEMMA UnderWayStep ==
    ASSUME TypeOK, NEW t \in Task, \A s \in Task \ {t} : task'[s] = task[s]
    PROVE  /\ task'[t].pc \in {"fetch", "insert", "upsert"} => Compiling' = Compiling \cup {t}
           /\ task'[t].pc \notin {"fetch", "insert", "upsert"} => Compiling' = Compiling \ {t}
           /\ task'[t].pc = "count" => Counting' = Counting \cup {t}
           /\ task'[t].pc # "count" => Counting' = Counting \ {t}
BY DEF Compiling, Counting

\* One more or one fewer in a finite set.
LEMMA OneMoreOrFewer ==
    ASSUME NEW S, IsFiniteSet(S), NEW x
    PROVE  /\ Cardinality(S) \in Nat
           /\ IsFiniteSet(S \cup {x}) /\ IsFiniteSet(S \ {x})
           /\ Cardinality(S \cup {x}) = IF x \in S THEN Cardinality(S) ELSE Cardinality(S) + 1
           /\ Cardinality(S \ {x}) = IF x \in S THEN Cardinality(S) - 1 ELSE Cardinality(S)
BY FS_CardinalityType, FS_AddElement, FS_RemoveElement

\* What the calls of the tracker add keeps the counters in balance: a refused
\* request, a hit, a miss, a score, a handshake, a document, a page given up.
LEMMA BalanceKept ==
    ASSUME NEW r \in Counters, NEW c \in Nat, NEW n \in Nat, Balanced(r, c, n), NEW q \in {0, 1}
    PROVE  /\ Balanced(r, c - 1, n)
           /\ Balanced([r EXCEPT !.misses = @ + q, !.requests = @ + q], c, n)
           /\ Balanced([r EXCEPT !.hits = @ + 1], c, n + 1)
           /\ Balanced([r EXCEPT !.misses = @ + 1], c + 1, n)
           /\ Balanced([r EXCEPT !.scored = @ + 1], c - 1, n + 1)
           /\ Balanced([r EXCEPT !.handshakes = @ + 1, !.requests = @ + q], c, n - 1)
           /\ Balanced([r EXCEPT !.hits = @ + 1, !.served = @ + 1], c, n)
           /\ Balanced([r EXCEPT !.misses = @ + 1, !.missing = @ + 1], c, n)
BY DEF Balanced, Counters

\* What a step of one handshake may do to the counters: nothing or a miss that
\* will not be scored, a hit, a miss to be scored, a score, a handshake.
LEMMA CountedStep ==
    ASSUME TypeOK, Counted, NEW t \in Task,
           \/ /\ Compiling' \in {Compiling, Compiling \ {t}} /\ Counting' = Counting
              /\ tele' = tele
           \/ /\ Compiling' = Compiling /\ Counting' = Counting
              /\ tele' = [tele EXCEPT !.misses = @ + Request(t), !.requests = @ + Request(t)]
           \/ /\ Compiling' = Compiling
              /\ t \notin Counting /\ Counting' = Counting \cup {t}
              /\ tele' = [tele EXCEPT !.hits = @ + 1]
           \/ /\ t \notin Compiling /\ Compiling' = Compiling \cup {t}
              /\ Counting' = Counting
              /\ tele' = [tele EXCEPT !.misses = @ + 1]
           \/ /\ t \in Compiling /\ Compiling' = Compiling \ {t}
              /\ t \notin Counting /\ Counting' = Counting \cup {t}
              /\ tele' = [tele EXCEPT !.scored = @ + 1]
           \/ /\ Compiling' = Compiling
              /\ t \in Counting /\ Counting' = Counting \ {t}
              /\ tele' = [tele EXCEPT !.handshakes = @ + 1, !.requests = @ + Request(t)]
    PROVE  Counted'
<1> DEFINE c == Cardinality(Compiling)
           n == Cardinality(Counting)
<1>1. /\ IsFiniteSet(Compiling \cup {t}) /\ IsFiniteSet(Compiling \ {t})
      /\ Cardinality(Compiling \cup {t}) = IF t \in Compiling THEN c ELSE c + 1
      /\ Cardinality(Compiling \ {t}) = IF t \in Compiling THEN c - 1 ELSE c
      /\ IsFiniteSet(Counting \cup {t}) /\ IsFiniteSet(Counting \ {t})
      /\ Cardinality(Counting \cup {t}) = IF t \in Counting THEN n ELSE n + 1
      /\ Cardinality(Counting \ {t}) = IF t \in Counting THEN n - 1 ELSE n
      /\ c \in Nat /\ n \in Nat /\ IsFiniteSet(Compiling) /\ IsFiniteSet(Counting)
  BY OneMoreOrFewer DEF Counted
<1>2. Request(t) \in {0, 1} /\ tele \in Counters /\ Balanced(tele, c, n)
  BY DEF Request, TypeOK, Counted
<1>3. IsFiniteSet(Compiling') /\ IsFiniteSet(Counting')
  BY <1>1
<1> DEFINE c2 == Cardinality(Compiling')
           n2 == Cardinality(Counting')
           q == Request(t)
<1>4. \/ c2 \in {c, c - 1} /\ n2 = n /\ tele' = tele
      \/ c2 = c /\ n2 = n /\ tele' = [tele EXCEPT !.misses = @ + q, !.requests = @ + q]
      \/ c2 = c /\ n2 = n + 1 /\ tele' = [tele EXCEPT !.hits = @ + 1]
      \/ c2 = c + 1 /\ n2 = n /\ tele' = [tele EXCEPT !.misses = @ + 1]
      \/ c2 = c - 1 /\ n2 = n + 1 /\ tele' = [tele EXCEPT !.scored = @ + 1]
      \/ c2 = c /\ n2 = n - 1 /\ tele' = [tele EXCEPT !.handshakes = @ + 1, !.requests = @ + q]
  BY <1>1
<1> HIDE DEF c, n, c2, n2, q
<1>5. Balanced(tele', c2, n2)
  <2>1. c \in Nat /\ n \in Nat /\ q \in {0, 1}
    BY <1>1, <1>2 DEF q
  <2>2. tele \in Counters /\ Balanced(tele, c, n)
    BY <1>2 DEF c, n
  <2>3. /\ Balanced(tele, c - 1, n)
        /\ Balanced([tele EXCEPT !.misses = @ + q, !.requests = @ + q], c, n)
        /\ Balanced([tele EXCEPT !.hits = @ + 1], c, n + 1)
        /\ Balanced([tele EXCEPT !.misses = @ + 1], c + 1, n)
        /\ Balanced([tele EXCEPT !.scored = @ + 1], c - 1, n + 1)
        /\ Balanced([tele EXCEPT !.handshakes = @ + 1, !.requests = @ + q], c, n - 1)
    BY ONLY <2>1, <2>2, BalanceKept
  <2>4. QED
    BY ONLY <1>4, <2>2, <2>3
<1>6. QED
  BY <1>3, <1>5 DEF Counted, c2, n2

\* Every step of a handshake is one of those.
LEMMA TaskCounted ==
    ASSUME TypeOK, TypeOK', Counted, NEW t \in Task,
           Serve(t) \/ Cancel(t) \/ Late(t) \/ \E ts \in Time : Accept(t, ts) \/ Refuse(t, ts)
    PROVE  Counted'
<1>0. task \in [Task -> TaskState] /\ task[t] \in TaskState
  BY DEF TypeOK
<1> USE DEF Compiling, Counting
<1>1. CASE (\E ts \in Time : Accept(t, ts)) \/ LookupExpired(t) \/ Late(t)
  <2>1. Compiling' = Compiling /\ Counting' = Counting /\ tele' = tele
    BY <1>0, <1>1 DEF Accept, LookupExpired, Late, LateUpsert, LateLog, LateDropped, TaskState
  <2>2. QED
    BY <2>1, CountedStep
<1>2. CASE \E ts \in Time : Refuse(t, ts)
  <2>1. Compiling' = Compiling /\ Counting' = Counting
    BY <1>0, <1>2 DEF Refuse, TaskState, Answer
  <2>2. QED
    BY <1>2, <2>1, CountedStep DEF Refuse
<1>3. CASE LookupHit(t)
  <2>1. Compiling' = Compiling /\ t \notin Counting /\ Counting' = Counting \cup {t}
    BY <1>0, <1>3 DEF LookupHit, TaskState
  <2>2. QED
    BY <1>3, <2>1, CountedStep DEF LookupHit
<1>4. CASE LookupMiss(t) \/ Evict(t)
  <2>1. t \notin Compiling /\ Compiling' = Compiling \cup {t} /\ Counting' = Counting
    BY <1>0, <1>4 DEF LookupMiss, Evict, TaskState
  <2>2. QED
    BY <1>4, <2>1, CountedStep DEF LookupMiss, Evict
<1>5. CASE CacheInsert(t) \/ \E s \in Score : Fetched(t, s)
  <2>1. Compiling' = Compiling /\ Counting' = Counting /\ tele' = tele
    <3>1. CASE CacheInsert(t)
      BY <1>0, <3>1 DEF CacheInsert, TaskState
    <3>2. CASE \E s \in Score : Fetched(t, s)
      BY <1>0, <3>2 DEF Fetched, TaskState
    <3>3. QED
      BY <1>5, <3>1, <3>2
  <2>2. QED
    BY <2>1, CountedStep
<1>6. CASE FetchFails(t) \/ Cancel(t) \/ LogOk(t) \/ LogFails(t)
  <2>1. /\ tele' = tele /\ task[t].pc # "count"
        /\ \A s \in Task \ {t} : task'[s] = task[s]
    BY <1>0, <1>6 DEF FetchFails, Cancel, LogOk, LogFails
  <2>2. task'[t].pc \in {"done", "lateUpsert", "lateLog"}
    <3>1. \A p, s : Answer(task[t], p, s).pc = p
      BY <1>0, AnswerKeeps
    <3>2. QED
      BY <1>0, <1>6, <3>1 DEF FetchFails, Cancel, LogOk, LogFails
  <2>3. Compiling' = Compiling \ {t} /\ Counting' = Counting
    BY <1>0, <2>1, <2>2
  <2>4. QED
    BY <2>1, <2>3, CountedStep
<1>7. CASE UpsertOk(t) \/ UpsertFails(t)
  <2>1. /\ t \in Compiling /\ Compiling' = Compiling \ {t}
        /\ t \notin Counting /\ Counting' = Counting \cup {t}
    BY <1>0, <1>7 DEF UpsertOk, UpsertFails, TaskState
  <2>2. QED
    BY <1>7, <2>1, CountedStep DEF UpsertOk, UpsertFails, Scored
<1>8. CASE CountHandshake(t)
  <2>1. Compiling' = Compiling /\ t \in Counting /\ Counting' = Counting \ {t}
    BY <1>0, <1>8 DEF CountHandshake, TaskState
  <2>2. QED
    BY <1>8, <2>1, CountedStep DEF CountHandshake
<1>9. QED
  BY <1>1, <1>2, <1>3, <1>4, <1>5, <1>6, <1>7, <1>8 DEF Serve

\* A document counts its own hit or miss; a restart counts from zero, with no page
\* left to be scored; the other steps count nothing.
LEMMA OtherCounted ==
    ASSUME TypeOK, Counted,
           \/ \E a \in Admin : AdminStep(a) \/ AdminCall(a)
           \/ DocumentServed \/ DocumentMissing
           \/ SweepBegin \/ (\E u \in Url : SweepShard(u))
           \/ Tick \/ Crash
    PROVE  Counted'
<1>1. CASE Crash
  <2>1. Compiling' = {} /\ Counting' = {}
    BY <1>1 DEF Crash, CrashedTask, Compiling, Counting, TypeOK, TaskState, TaskPc
  <2>2. IsFiniteSet({}) /\ Cardinality({}) = 0
    BY FS_EmptySet
  <2>3. QED
    BY <1>1, <2>1, <2>2 DEF Crash, Counted, Balanced, NoCounts
<1>2. CASE UNCHANGED <<task, tele>>
  BY <1>2 DEF Counted, Compiling, Counting
<1>3. CASE DocumentServed \/ DocumentMissing
  <2>1. Compiling' = Compiling /\ Counting' = Counting
    BY <1>3 DEF DocumentServed, DocumentMissing, Compiling, Counting
  <2>2. PICK c \in Nat, n \in Nat : c = Cardinality(Compiling) /\ n = Cardinality(Counting)
    BY FS_CardinalityType DEF Counted
  <2>3. tele \in Counters /\ Balanced(tele, c, n)
    BY <2>2 DEF TypeOK, Counted
  <2>4. Balanced(tele', c, n)
    BY <1>3, <2>2, <2>3, BalanceKept DEF DocumentServed, DocumentMissing
  <2>5. QED
    BY <2>1, <2>2, <2>4 DEF Counted
<1>4. QED
  BY <1>1, <1>2, <1>3 DEF AdminStep, AdminCall, Delete, DeleteNone, DeleteFails, RemoveCached, PurgeEvict,
     PurgeShard, DeleteCall, DeleteCancel, LateDelete, LateDeleteDropped, PurgeUrl, PurgeAll,
     SweepBegin, SweepShard, Tick

\* TelemetryTracker: whatever requests, batches, documents, errors, cancellations
\* and restarts interleave, the hits and scores that are not the documents' are
\* those of handshakes, and a page is scored only by a handshake that counted its
\* own miss (handlers.rs handshake, process_handshake_inner, stream_doc, get_doc).
THEOREM CountersAccount == Spec => []TelemetryAccounts
<1>1. Init => Counted
  <2> SUFFICES ASSUME Init PROVE Counted
    OBVIOUS
  <2>1. Compiling = {} /\ Counting = {}
    BY DEF Init, NewTask, Compiling, Counting
  <2>2. IsFiniteSet({}) /\ Cardinality({}) = 0
    BY FS_EmptySet
  <2>3. QED
    BY <2>1, <2>2 DEF Init, NoCounts, Counted, Balanced
<1>2. IInv /\ IInv' /\ Counted /\ [Next]_vars => Counted'
  <2> SUFFICES ASSUME TypeOK, TypeOK', Counted, [Next]_vars PROVE Counted'
    BY DEF IInv
  <2>1. CASE UNCHANGED vars
    BY <2>1 DEF vars, Counted, Compiling, Counting
  <2>2. CASE Next
    BY <2>2, TaskCounted, OtherCounted DEF Next
  <2>3. QED
    BY <2>1, <2>2
<1>3. IInv /\ Counted => TelemetryAccounts
  <2> SUFFICES ASSUME TypeOK, Counted PROVE TelemetryAccounts
    BY DEF IInv
  <2>1. PICK c \in Nat, n \in Nat : c = Cardinality(Compiling) /\ n = Cardinality(Counting)
    BY FS_CardinalityType DEF Counted
  <2>2. tele \in Counters /\ Balanced(tele, c, n)
    BY <2>1 DEF TypeOK, Counted
  <2>3. QED
    BY <2>1, <2>2 DEF Balanced, TelemetryAccounts, Counters
<1>4. QED
  BY <1>1, <1>2, <1>3, Invariant, PTL DEF Spec

-----------------------------------------------------------------------------
(* The engine implements the specification of its cache (RfoCache), with   *)
(* CacheCalls for what each caller is in the middle of.                    *)

\* What a handshake, and an admin call, is in the middle of.
TaskCall(r) == IF r.pc = "evict" THEN [pc |-> "evict", todo |-> {r.url}] ELSE Store!Idle
AdminCallOf(r) == CASE r.pc = "purgeEvict" -> [pc |-> "evict", todo |-> {r.url}]
                    [] r.pc = "clear" -> [pc |-> "clear", todo |-> r.todo]
                    [] OTHER -> Store!Idle

\* The calls of the cache that the tasks and the admin calls are, now and after a step.
LEMMA CallOf ==
    /\ CacheCalls = [c \in Task \cup Admin |->
                        IF c \in Task THEN TaskCall(task[c]) ELSE AdminCallOf(admin[c])]
    /\ CacheCalls' = [c \in Task \cup Admin |->
                        IF c \in Task THEN TaskCall(task'[c]) ELSE AdminCallOf(admin'[c])]
<1>1. \A r : AdminCallOf(r) = CASE r.pc = "purgeEvict" -> [pc |-> "evict", todo |-> {r.url}]
                                [] r.pc = "clear" -> [pc |-> "clear", todo |-> r.todo]
                                [] OTHER -> [pc |-> "idle", todo |-> {}]
  BY DEF AdminCallOf, Store!Idle
<1>2. \A r : TaskCall(r) = IF r.pc = "evict" THEN [pc |-> "evict", todo |-> {r.url}]
                           ELSE [pc |-> "idle", todo |-> {}]
  BY DEF TaskCall, Store!Idle
<1>3. QED
  BY <1>1, <1>2, Zenon DEF CacheCalls

\* A step of one handshake moves its own call only.
LEMMA TaskMovesCall ==
    ASSUME NEW t \in Task, \A s \in Task \ {t} : task'[s] = task[s], admin' = admin
    PROVE  /\ CacheCalls' = [CacheCalls EXCEPT ![t] = TaskCall(task'[t])]
           /\ CacheCalls[t] = TaskCall(task[t])
           /\ TaskCall(task'[t]) = TaskCall(task[t]) => CacheCalls' = CacheCalls
BY CallOf

\* An admin call moves only its own call of the cache.
LEMMA AdminMovesCall ==
    ASSUME NEW a \in Admin, \A b \in Admin \ {a} : admin'[b] = admin[b], task' = task
    PROVE  /\ CacheCalls' = [CacheCalls EXCEPT ![a] = AdminCallOf(admin'[a])]
           /\ CacheCalls[a] = AdminCallOf(admin[a])
           /\ AdminCallOf(admin'[a]) = AdminCallOf(admin[a]) => CacheCalls' = CacheCalls
BY CallOf, HandshakeAssumption

\* Removing a key that is not there changes nothing.
LEMMA DropIsRemove ==
    ASSUME TypeOK, NEW u \in Url, Store!Drop(u), UNCHANGED <<now, CacheCalls, sweep>>
    PROVE  [Store!Next]_(Store!vars)
<1>1. CASE Store!Cached(u)
  BY <1>1 DEF Store!Next, Store!Remove
<1>2. CASE ~Store!Cached(u)
  <2>1. cache' = cache
    BY <1>2 DEF TypeOK, Store!Drop, Store!Cached
  <2>2. QED
    BY <2>1 DEF Store!vars
<1>3. QED
  BY <1>1, <1>2

\* Every step of a handshake is a call of the cache, or a part of one, or
\* leaves the cache alone (cache.get and cache.insert in handlers.rs).
LEMMA TaskUsesStore ==
    ASSUME TypeOK, TypeOK', LocalState, NEW t \in Task,
           Serve(t) \/ Cancel(t) \/ Late(t) \/ \E ts \in Time : Accept(t, ts) \/ Refuse(t, ts)
    PROVE  [Store!Next]_(Store!vars)
<1>0. task \in [Task -> TaskState] /\ task[t].url \in Url /\ task[t] \in TaskState
  BY TaskFields DEF TypeOK
<1>a. \A p, s : Answer(task[t], p, s).pc = p
  BY <1>0, AnswerKeeps
<1>1. CASE LookupExpired(t)
  <2>1. task'[t].pc = "evict" /\ task'[t].url = task[t].url /\ task[t].pc = "lookup"
        /\ (\A s \in Task \ {t} : task'[s] = task[s]) /\ admin' = admin
    BY <1>0, <1>1 DEF LookupExpired, TaskState
  <2>2. CacheCalls[t] = Store!Idle
        /\ CacheCalls' = [CacheCalls EXCEPT ![t] = [pc |-> "evict", todo |-> {task[t].url}]]
    BY <2>1, TaskMovesCall DEF TaskCall
  <2>3. Store!GetExpired(t, task[t].url)
    BY <1>1, <2>2 DEF LookupExpired, Store!GetExpired
  <2>4. QED
    BY <1>0, <2>3 DEF Store!Next
<1>2. CASE Evict(t)
  <2>1. task'[t].pc = "fetch" /\ task[t].pc = "evict"
        /\ (\A s \in Task \ {t} : task'[s] = task[s]) /\ admin' = admin
    BY <1>0, <1>2 DEF Evict, TaskState
  <2>2. CacheCalls[t] = [pc |-> "evict", todo |-> {task[t].url}]
        /\ CacheCalls' = [CacheCalls EXCEPT ![t] = Store!Idle]
    BY <2>1, TaskMovesCall DEF TaskCall
  <2>3. Store!GetEvict(t, task[t].url)
    BY <1>2, <2>2 DEF Evict, Store!GetEvict
  <2>4. QED
    BY <1>0, <2>3 DEF Store!Next
<1>3. CASE CacheInsert(t)
  <2>1. task'[t].pc = "upsert" /\ task[t].pc = "insert"
        /\ (\A s \in Task \ {t} : task'[s] = task[s]) /\ admin' = admin
    BY <1>0, <1>3 DEF CacheInsert, TaskState
  <2>2. CacheCalls' = CacheCalls
    BY <2>1, TaskMovesCall DEF TaskCall
  <2> DEFINE page == [hour |-> HourOf(task[t].gen), sig |-> HourOf(now), score |-> task[t].score]
             e == [payload |-> page, cached_at |-> now]
  <2>3. e \in Entry
    BY <1>3, WindowType, TaskFields DEF TypeOK, CacheInsert, LocalState, Content, Entry
  <2>4. e.cached_at <= now
    BY HandshakeAssumption DEF TypeOK, Time
  <2>5. Store!Put(task[t].url, e) /\ UNCHANGED <<now, sweep>>
    BY <1>3 DEF CacheInsert
  <2>6. Store!Insert(task[t].url, e)
    BY <2>2, <2>4, <2>5 DEF Store!Insert
  <2>7. e \in Store!Entry
    BY <2>3 DEF Store!Entry, Entry, Store!Time, Time
  <2> HIDE DEF e
  <2>8. QED
    BY <1>0, <2>6, <2>7 DEF Store!Next
<1>4. CASE \/ \E ts \in Time : Accept(t, ts) \/ Refuse(t, ts)
           \/ LookupHit(t) \/ LookupMiss(t) \/ FetchFails(t) \/ (\E s \in Score : Fetched(t, s))
           \/ UpsertOk(t) \/ UpsertFails(t) \/ CountHandshake(t) \/ LogOk(t) \/ LogFails(t)
           \/ Cancel(t) \/ Late(t)
  <2>1. task[t].pc # "evict" /\ UNCHANGED <<now, cache, sweep, admin>>
        /\ \A s \in Task \ {t} : task'[s] = task[s]
    BY <1>0, <1>4 DEF Accept, Refuse, LookupHit, LookupMiss, FetchFails, Fetched, UpsertOk, UpsertFails,
       CountHandshake, LogOk, LogFails, Cancel, Late, LateUpsert, LateLog, LateDropped
  <2>2. task'[t].pc # "evict"
    <3>1. CASE \/ \E ts \in Time : Refuse(t, ts)
               \/ FetchFails(t) \/ LogOk(t) \/ LogFails(t) \/ Cancel(t)
      BY <1>0, <1>a, <3>1 DEF Refuse, FetchFails, LogOk, LogFails, Cancel
    <3>2. CASE \/ \E ts \in Time : Accept(t, ts)
               \/ LookupHit(t) \/ LookupMiss(t) \/ (\E s \in Score : Fetched(t, s))
               \/ UpsertOk(t) \/ UpsertFails(t) \/ CountHandshake(t) \/ Late(t)
      BY <1>0, <3>2 DEF Accept, LookupHit, LookupMiss, Fetched, UpsertOk, UpsertFails, CountHandshake,
         Late, LateUpsert, LateLog, LateDropped, TaskState
    <3>3. QED
      BY <1>4, <3>1, <3>2
  <2>3. CacheCalls' = CacheCalls
    BY <2>1, <2>2, TaskMovesCall DEF TaskCall
  <2>4. QED
    BY <2>1, <2>3 DEF Store!vars
<1>5. QED
  BY <1>1, <1>2, <1>3, <1>4 DEF Serve

\* So is every step of an admin call (cache.get, cache.remove and cache.clear in
\* admin.rs).
LEMMA AdminUsesStore ==
    ASSUME TypeOK, NEW a \in Admin, AdminStep(a) \/ AdminCall(a)
    PROVE  [Store!Next]_(Store!vars)
<1>0. admin \in [Admin -> AdminState] /\ admin[a].url \in Url /\ admin[a].todo \in SUBSET Url
      /\ admin[a] \in AdminState
  BY AdminFields DEF TypeOK
<1>a. \A p, s : /\ Answer(admin[a], p, s).pc = p
                /\ [Answer(admin[a], p, s) EXCEPT !.todo = {}].pc = p
  BY <1>0 DEF Answer, AdminState
<1>1. CASE PurgeUrl(a) /\ Store!Expired(admin[a].url)
  <2>1. admin'[a].pc = "purgeEvict" /\ admin'[a].url = admin[a].url /\ admin[a].pc = "start"
        /\ (\A b \in Admin \ {a} : admin'[b] = admin[b]) /\ task' = task
    BY <1>0, <1>1 DEF PurgeUrl, AdminState
  <2>2. CacheCalls[a] = Store!Idle
        /\ CacheCalls' = [CacheCalls EXCEPT ![a] = [pc |-> "evict", todo |-> {admin[a].url}]]
    BY <2>1, AdminMovesCall DEF AdminCallOf
  <2>3. Store!GetExpired(a, admin[a].url)
    BY <1>1, <2>2 DEF PurgeUrl, Store!GetExpired
  <2>4. QED
    BY <1>0, <2>3 DEF Store!Next
<1>2. CASE PurgeEvict(a)
  <2>1. admin'[a].pc = "purgeRemove" /\ admin[a].pc = "purgeEvict"
        /\ (\A b \in Admin \ {a} : admin'[b] = admin[b]) /\ task' = task
    BY <1>0, <1>2 DEF PurgeEvict, AdminState
  <2>2. CacheCalls[a] = [pc |-> "evict", todo |-> {admin[a].url}]
        /\ CacheCalls' = [CacheCalls EXCEPT ![a] = Store!Idle]
    BY <2>1, AdminMovesCall DEF AdminCallOf
  <2>3. Store!GetEvict(a, admin[a].url)
    BY <1>2, <2>2 DEF PurgeEvict, Store!GetEvict
  <2>4. QED
    BY <1>0, <2>3 DEF Store!Next
<1>3. CASE PurgeAll(a)
  <2>1. admin'[a].pc = "clear" /\ admin'[a].todo = Url /\ admin[a].pc = "start"
        /\ (\A b \in Admin \ {a} : admin'[b] = admin[b]) /\ task' = task
    BY <1>0, <1>3 DEF PurgeAll, AdminState
  <2>2. CacheCalls[a] = Store!Idle
        /\ CacheCalls' = [CacheCalls EXCEPT ![a] = [pc |-> "clear", todo |-> Url]]
    BY <2>1, AdminMovesCall DEF AdminCallOf
  <2>3. Store!ClearBegin(a)
    BY <1>3, <2>2 DEF PurgeAll, Store!ClearBegin
  <2>4. QED
    BY <1>0, <2>3 DEF Store!Next
<1>4. ASSUME NEW u \in Url, PurgeShard(a, u) PROVE Store!Next
  <2>1. admin[a].pc = "clear" /\ u \in admin[a].todo /\ Store!Drop(u) /\ UNCHANGED <<now, sweep, task>>
        /\ \A b \in Admin \ {a} : admin'[b] = admin[b]
    BY <1>0, <1>4 DEF PurgeShard
  <2>2. CacheCalls[a] = [pc |-> "clear", todo |-> admin[a].todo]
    BY <2>1, AdminMovesCall DEF AdminCallOf
  <2>3. AdminCallOf(admin'[a]) = IF admin[a].todo = {u} THEN Store!Idle
                                 ELSE [pc |-> "clear", todo |-> admin[a].todo \ {u}]
    <3>1. CASE admin[a].todo = {u}
      <4>1. admin'[a].pc = "done"
        BY <1>0, <1>a, <1>4, <3>1 DEF PurgeShard
      <4>2. QED
        BY <4>1, <3>1 DEF AdminCallOf
    <3>2. CASE admin[a].todo # {u}
      <4>1. admin'[a].pc = "clear" /\ admin'[a].todo = admin[a].todo \ {u}
        BY <1>0, <1>4, <2>1, <3>2 DEF PurgeShard, AdminState
      <4>2. QED
        BY <4>1, <3>2 DEF AdminCallOf
    <3>3. QED
      BY <3>1, <3>2
  <2>4. CacheCalls' = [CacheCalls EXCEPT ![a] = AdminCallOf(admin'[a])]
    BY <2>1, AdminMovesCall
  <2>5. CacheCalls' = [CacheCalls EXCEPT ![a] = IF CacheCalls[a].todo = {u} THEN Store!Idle
                                                ELSE [pc |-> "clear", todo |-> CacheCalls[a].todo \ {u}]]
    <3>1. CacheCalls[a].todo = admin[a].todo
      BY <2>2
    <3>2. QED
      BY <2>3, <2>4, <3>1
  <2>6. Store!ClearShard(a, u)
    BY <2>1, <2>2, <2>5 DEF Store!ClearShard
  <2>7. QED
    BY <2>6 DEF Store!Next
<1>5. CASE RemoveCached(a)
  <2>1. admin[a].pc \in {"deleteRemove", "purgeRemove"} /\ admin'[a].pc = "done"
        /\ (\A b \in Admin \ {a} : admin'[b] = admin[b]) /\ task' = task
    BY <1>0, <1>a, <1>5 DEF RemoveCached
  <2>2. CacheCalls' = CacheCalls
    BY <2>1, AdminMovesCall DEF AdminCallOf
  <2>3. QED
    BY <1>0, <1>5, <2>2, DropIsRemove DEF RemoveCached
<1>6. CASE \/ PurgeUrl(a) /\ ~Store!Expired(admin[a].url)
           \/ Delete(a) \/ DeleteNone(a) \/ DeleteFails(a)
           \/ DeleteCall(a) \/ DeleteCancel(a) \/ LateDelete(a) \/ LateDeleteDropped(a)
  <2>1. admin[a].pc \notin {"purgeEvict", "clear"} /\ UNCHANGED <<now, cache, sweep, task>>
        /\ \A b \in Admin \ {a} : admin'[b] = admin[b]
    BY <1>0, <1>6 DEF PurgeUrl, Delete, DeleteNone, DeleteFails, DeleteCall, DeleteCancel, LateDelete,
       LateDeleteDropped
  <2>2. admin'[a].pc \notin {"purgeEvict", "clear"}
    <3>1. CASE DeleteNone(a) \/ DeleteFails(a) \/ DeleteCancel(a)
      BY <1>0, <1>a, <3>1 DEF DeleteNone, DeleteFails, DeleteCancel
    <3>2. CASE \/ PurgeUrl(a) /\ ~Store!Expired(admin[a].url)
               \/ Delete(a) \/ DeleteCall(a) \/ LateDelete(a) \/ LateDeleteDropped(a)
      BY <1>0, <3>2 DEF PurgeUrl, Delete, DeleteCall, LateDelete, LateDeleteDropped, AdminState
    <3>3. QED
      BY <1>6, <3>1, <3>2
  <2>3. CacheCalls' = CacheCalls
    BY <2>1, <2>2, AdminMovesCall DEF AdminCallOf
  <2>4. QED
    BY <2>1, <2>3 DEF Store!vars
<1>7. QED
  BY <1>1, <1>2, <1>3, <1>4, <1>5, <1>6 DEF AdminStep, AdminCall

\* And the steps of the cleanup task, of the clock and of a restart are those of
\* the cache's own specification; a document is read without touching it.
LEMMA SystemUsesStore ==
    ASSUME TypeOK,
           \/ DocumentServed \/ DocumentMissing
           \/ SweepBegin \/ (\E u \in Url : SweepShard(u)) \/ Tick \/ Crash
    PROVE  [Store!Next]_(Store!vars)
<1>1. CASE SweepBegin \/ (\E u \in Url : SweepShard(u)) \/ Tick
  <2>1. CacheCalls' = CacheCalls
    BY <1>1, CallOf DEF SweepBegin, SweepShard, Tick
  <2>2. CASE SweepBegin
    BY <2>1, <2>2 DEF SweepBegin, Store!SweepBegin, Store!Next
  <2>3. ASSUME NEW u \in Url, SweepShard(u) PROVE Store!Next
    <3>1. Store!SweepShard(u)
      BY <2>1, <2>3 DEF SweepShard, Store!SweepShard
    <3>2. QED
      BY <3>1 DEF Store!Next
  <2>4. CASE Tick
    BY <2>1, <2>4 DEF Tick, Store!Tick, Store!Next
  <2>5. QED
    BY <1>1, <2>2, <2>3, <2>4
<1>2. CASE Crash
  <2>1. \A t \in Task : TaskCall(task'[t]) = Store!Idle
    <3>1. ASSUME NEW t \in Task PROVE CrashedTask(task[t]).pc # "evict"
      BY DEF CrashedTask, TypeOK, TaskState
    <3>2. QED
      BY <1>2, <3>1 DEF Crash, TaskCall
  <2>2. \A a \in Admin : AdminCallOf(admin'[a]) = Store!Idle
    <3>1. ASSUME NEW a \in Admin PROVE CrashedAdmin(admin[a]).pc \notin {"purgeEvict", "clear"}
      BY DEF CrashedAdmin, TypeOK, AdminState
    <3>2. QED
      BY <1>2, <3>1 DEF Crash, AdminCallOf
  <2>3. CacheCalls' = [c \in Task \cup Admin |-> Store!Idle]
    BY <2>1, <2>2, CallOf
  <2>4. Store!Restart
    BY <1>2, <2>3 DEF Crash, Store!Restart, Store!Empty
  <2>5. QED
    BY <2>4 DEF Store!Next
<1>3. CASE DocumentServed \/ DocumentMissing
  <2>1. UNCHANGED <<now, cache, sweep, task, admin>>
    BY <1>3 DEF DocumentServed, DocumentMissing
  <2>2. CacheCalls' = CacheCalls
    BY <2>1, CallOf
  <2>3. QED
    BY <2>1, <2>2 DEF Store!vars
<1>4. QED
  BY <1>1, <1>2, <1>3

\* The engine implements RfoCache: whatever handshakes, batches, admin calls,
\* cleanup, cancellations and restarts interleave, the cache sees only the calls,
\* and the halves of calls, that its own specification allows (cache/mod.rs as
\* handlers.rs, admin.rs and main.rs use it).
THEOREM ImplementsStore == Spec => UsesCacheAsSpecified
<1>1. Init => Store!Init
  <2> SUFFICES ASSUME Init PROVE Store!Init
    OBVIOUS
  <2>1. /\ \A t \in Task : task[t].pc = "start"
        /\ \A a \in Admin : admin[a].pc = "start"
    BY DEF Init, NewTask, NewAdmin
  <2>2. CacheCalls = [c \in Task \cup Admin |-> Store!Idle]
    BY <2>1, CallOf DEF TaskCall, AdminCallOf
  <2>3. QED
    BY <2>2 DEF Init, Store!Init, Store!Empty
<1>2. IInv /\ IInv' /\ [Next]_vars => [Store!Next]_(Store!vars)
  <2> SUFFICES ASSUME TypeOK, TypeOK', LocalState, [Next]_vars PROVE [Store!Next]_(Store!vars)
    BY DEF IInv
  <2>1. CASE UNCHANGED vars
    <3>1. CacheCalls' = CacheCalls
      BY <2>1, CallOf DEF vars
    <3>2. QED
      BY <2>1, <3>1 DEF vars, Store!vars
  <2>2. CASE Next
    BY <2>2, TaskUsesStore, AdminUsesStore, SystemUsesStore DEF Next
  <2>3. QED
    BY <2>1, <2>2
<1>3. QED
  BY <1>1, <1>2, Invariant, PTL DEF Spec, UsesCacheAsSpecified, Store!Spec
=============================================================================
