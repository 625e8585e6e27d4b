# Verification of rfo-protocol

TLA+ models of the RFO engine, its clients and its tools (`src/src`, Rust: axum,
tokio, sqlx, dashmap), the TLC runs that check them on small instances, and TLAPS
proofs, for every instance, of every property of the passing runs that is not a liveness property.

## The system

A client asks the server for a handshake on a URL. The server answers from an
in-memory cache, or fetches the page, compiles it to a document with a quality
score, caches it, writes a row of the table `sites` and a row of
`handshake_logs`, counts what it did, and answers. Everything runs on a
multi-threaded tokio runtime; the shared structures are concurrent maps without
an outer lock, and Postgres. Beside the server, a command compiles pages and whole
sites to files and watches a directory; a registry maps `.opt` domains to compiled
sites and is served over a binary transport.

| part | state | operations | what must be right | module |
|---|---|---|---|---|
| TTL cache (`cache/mod.rs`) | a DashMap from URL to entry | `insert`, `get` (evicts in a second step), `remove`, `clear` and `cleanup_expired` (shard by shard) | fresh entries survive the sweep, expired ones leave | `RfoCache` |
| Handshake engine (`server/handlers.rs`, `crypto/site_id.rs`) | local state of each handler, the tables | one handshake; a batch spawns up to 20; serving a cached document | cache and table agree up to named exceptions; site ids are recent; every handshake ends | `Handshake` |
| Admin: sites, cache (`admin.rs`) | the same cache and tables | `delete_site`, `purge_cache` | no page is left behind a deleted site | `Handshake` |
| Process (`main.rs`) | - | cleanup task every 60 s, 30 s timeout layer, restart | what a dropped handler or a crash leaves behind is bounded | `Handshake`, `RfoCache`, `RateLimiter` |
| Telemetry (`telemetry.rs`) | atomic counters, three maps by site | `record_*`, `report` | the counters add up; a report is of one piece | `Handshake`, `Telemetry` |
| Rate limiter (`server/middleware.rs`) | a window and a count per client | `check_rate_limit`, `cleanup` | no more than the limit in a window, whatever time a request takes to its lock | `RateLimiter` |
| Connection limiter (`audit.rs`) | a global counter, a count per client | `check_connection`, `release_connection` | the counter is the number of connections | `DdosProtection` |
| Parser, quality score (`parser.rs`, `compiler.rs`) | none | `parse_html`, `parse_markdown`, `generate_qa_pairs`, `compile_mdoc`, `compile_doc`, `calculate_quality_score` | answers go with their questions; more content never scores less | `Document` |
| Site compilers (`core_file.rs`, `pipeline.rs`, `domain.rs`) | a directory and a clock that both go on | `compile_from_directory`, `compile_from_pages`, `compile_site` | the result depends on the files only, and is of one hour | `CoreFile` |
| Command line (`cli.rs`) | output files, a map of what is compiled | `watch` | what is written under the watcher gets out | `Watch` |
| WebSocket (`server/websocket.rs`) | senders per domain | subscribe, unsubscribe, publish | an update reaches whoever is subscribed | `PubSub` |
| Binary frames (`binary.rs`) | position in a stream | serialize, deserialize, read by chunks, validate | what is accepted is what was sent | `BinaryStream` |
| Native transport (`transport.rs`) | two byte streams per connection | one connection loop, calls of a client | an answer belongs to its request and is current | `Transport` |
| Opt resolver (`opt_resolver.rs`, `ffi.rs`) | a map under a lock, a JSON file | register, update, resolve, unregister, save, load | what is registered is found; the file is readable and current | `OptRegistry` |
| Client (`client.rs`) | attempts, backoff | retry, batch | a retry is still acceptable to the server; work is bounded | `Client` |
| Audit log (`audit.rs`, `admin.rs`) | 500 slots and an index, a table | `log`, `recent_events`, `list_audit_logs` | the ring holds the latest events; a listing misses nothing but ties | `AuditLog` |
| Accounts, key records (`admin.rs`) | tables | login, create, revoke, change password | what was answered is so | `Accounts` |
| API keys in memory (`auth.rs`), primitives (`crypto/mod.rs`), SDKs (`js`, `python`) | a map; none | | | not modelled |

How they interact: every request passes the rate limiter and the API-key check
and then runs its handler; handlers, admin endpoints and the cleanup task share
the cache; handlers and admin endpoints share the tables, with one statement per
await and no transaction around several; the timeout layer drops a handler at
whichever await it is in, but the tasks of a batch were spawned and go on. The
transport reads the registry that other threads and the C interface change, and
`save_to_file` holds its lock. The site compilers call the page compiler for each file. The
remaining parts share nothing with each other.

Hard to test: the two-step eviction of `get`; sweeps, reports and listings over
what changes meanwhile; cache and table written one after the other; a statement
that Postgres executes after its handler is gone; a crash between two writes or in the middle of one;
the hour that turns between two readings of the clock, or a request that waits between its reading and its lock; answers paired with
requests by order alone; a retry with an old timestamp; a file that is being
written while it is compiled. `PROJECT.json` lists these hazards with their lines.

## Modules

The server's core:

* `RfoCache` - the cache alone, and what it promises: the abstract specification
  for the modules that embed it. A step is one critical section of the map. An
  expired `get` is `GetExpired`, which drops the guard, and `GetEvict`, which
  removes the key; `clear` and `cleanup_expired` visit one shard per step, and
  each URL is a shard of its own, the finest interleaving the map allows.
  `cached_at` is stamped by the caller, so `Insert` accepts entries of the past.
  `get_by_domain` drops no entry, and has no step here.
* `Handshake` - the engine, its tables, the admin calls and the process. `task`
  holds each handshake's place (`pc`) and what its answer will carry; a
  step ends at a cache operation, an await, or (`count`) between the counters. `handshake` and
  `process_handshake_inner` are the same steps, except that a task of a batch
  (set `Batch`) counts no request and cannot be cancelled. The page is any
  member of `Score`. A row of `sites` is indexed by URL and replay window,
  because `site_id` is the HMAC of these two. `LogRow` keeps the foreign key
  with its cascade. `Faults` switches failing statements, cancelled handlers and
  crashes; after the last two, a statement already sent is in `lateUpsert`,
  `lateLog` or `lateDelete`, and may be executed at any later time or never; so may a DELETE that
  was answered by an error (`DeleteFails`). The four endpoints that serve a cached document are
  `DocumentServed` and `DocumentMissing`: they count into the same `hits` and `misses` as the
  handshakes, and `served` and `missing`, of which the code keeps no record, are their part.
* `RateLimiter` - the limiter in front of every route. A request reads the clock
  (`ReadClock`) and then counts itself under the lock of its entry (`Check`), so
  an older reading may come after a newer; `SweepShard` is one shard of the
  cleanup. Any time may pass between the two steps, as a thread may lose its processor or wait for a
  shard; the history variable `lag` is the longest such time of an address, and the properties
  say what holds up to it.
* `DdosProtection` - the connection limiter. `check_connection` is `TakeSlot`, then
  `ReturnSlot` or `CountIp`; the counter wraps (`Up`, `Down`). No handler of the server
  calls it: its callers are those of the tests, of whom the set `Careless`
  releases connections it does not have.

What admits, records and notifies:

* `AuditLog` - `log` numbers an event (`TakeIndex`), stores it in its slot (`Store`) and spawns
  its insertion, which the table stamps when it begins; so rows may appear in another order than
  their stamps, and share them (`Stamps`: the clock of the database does not go back, but may stand). A page is
  read in any of the orders that `ORDER BY created_at DESC` allows (`Orders`), another for each query. `lapped` remembers the events that were stored after a later one of their slot
  (`StoredBefore`). The reader of `list_audit_logs` is an admin who turns pages until one is
  not full, each page a count and a select of their own.
* `Accounts` - a request is a row of statements, each atomic; a failed one may have been carried
  out, and the 30 s layer drops a request whose statement may still run
  (`Dropped`, `LateStatement`). A password stands for its hash, because
  `hash_password` has no salt per user.
* `PubSub` - `publish_update` step by step: the senders of the domain under the
  lock of the entry, then the global channel; receivers are bounded queues with
  lag. A `Connection` drops each receiver at once, as the handler does, and
  leaves its sender in the list.
* `Telemetry` - what a handshake records for its site, in the order of the code, and
  a report that walks the maps entry by entry.

What a caller of an engine meets:

* `OptRegistry` - the registry in each process, and the file. A step is one
  critical section of the RwLock; `save_to_file` is `SaveSnapshot`, `SaveTruncate`, `SaveWrite`
  under the read lock, which no call that counts or changes can enter (`Writable`). Processes lock
  nothing between them (`overlap`), a crash or an error may cut a save short.
  The return codes are those of the C interface.
* `Transport` - EXTENDS `OptRegistry`: one server over its registry, connections as streams of frames. A
  caller may drop a call after its request is written (`Drop`) or in the middle
  of it (`DropInWrite`), after which server and client may wait for each other.
* `BinaryStream` - a frame, a medium that damages it, and both ways to read it. A
  slice past the end is a panic, a verdict of the model.
* `Client` - `execute_with_retry` in real time (timers are due when they are due), the
  batch that joins its calls in order, and, as external, a server that works on requests also after
  their client gave them up.

What the tools do with files:

* `Document` - a page as runs of like blocks; `Parse` gives the lists that the two
  parsers fill. HTML is sanitised element by element, and an element that is then empty is passed over
  (`Shown`); a Markdown file is sanitised before it is split, so that a pattern may run over the end of a line,
  and `Lines` has the two lines as one (`Joined` and `Swallows` say which texts do so). `QaPairs`, `Summary`, `Tokens` and `MarkdownLen` what the compiler makes of
  them, `QualityScore` the score in integer arithmetic (tenths of the multiplier). The author continues the
  page, one run per step.
* `CoreFile` - EXTENDS `Document`: the walk reads one file per step, in any order, while the
  author changes files and the hour turns; the rest is functions of the list of
  pages; sorting, the best and the worst page are by rank, what a stable sort gives. A file may be unreadable, or
  `Unlisted`: `WalkDir` cannot reach it and it is passed over. `FinishPanics` is the cut of the summary inside
  a character. `CompileSite` and `SiteStats` are the pipeline's.
* `Watch` - the scan and the event loop of `rfo watch`, step by step, with the
  author's truncations, writes, deletions and renames and the channel of events. The scan keeps
  its entries under names, the loop under paths; `scanned` remembers what the scan found.

What is proved stands in modules of its own:

* `CacheProofs` (EXTENDS `RfoCache`), `HandshakeProofs` (`Handshake`), `AdmissionProofs` (`RateLimiter`,
  `DdosProtection`), `CallsProofs` (`Transport` with `OptRegistry`, `BinaryStream`, `Client`),
  `RecordsProofs` (`AuditLog`, `Accounts`, `PubSub`, `Telemetry`), `CoreProofs` (`CoreFile` with
  `Document`) and `WatchProofs` (`Watch`);
* `DataTheorems` - the lemmas about numbers, orders, ranks and folds that `CoreProofs` and `RecordsProofs` share.

`MC_RfoCache`, `MC_Handshake` and `MC_DdosProtection` instantiate one module each. `MC_Admission`,
`MC_Calls`, `MC_Files` and `MC_Records` instantiate several that share nothing: a variable
`scene`, chosen at the start, says which of them moves, so that one run explores
them one beside the other and not their product.

A definition whose comment starts with `Mutant` is a variant of the next
definition with a bug in it; nothing uses it, and each shows which property
would catch that bug.

## Runs

| run | what it asks | states |
|---|---|---|
| `cache_store` | `SweepSparesFresh`: the sweep, which read its clock before its first shard, never takes an entry that is fresh. `StaleReclaimed`: no entry stays expired for ever. | 24 160 |
| `cache_evict` | refuted: `GetEvictsOnlyExpired`. `get` may remove the fresh entry that another thread put between its two steps. | |
| `hs_faults` | `IInv` and `CachedIsAccountedFor` with two handshakes, one of a batch, an admin call, a score that the table refuses, and all faults | 3 860 000 |
| `hs_window` | Two handshakes, one of a batch, and all faults. `RecentSiteId` with Ttl and window both 2 ticks over two turns of the window. `TelemetryAccounts`: the counters, which a request for a document, one between restarts, also adds to | 1 199 000 |
| `hs_live` | `UsesCacheAsSpecified`: the engine implements `RfoCache` under the mapping `CacheCalls`. `EveryHandshakeEnds`, `UnregisteredPageLeaves`, with all faults | 456 000 |
| `hs_agree` | refuted: `CacheAgreesWithSites`. Two handshakes insert and upsert in opposite orders. | |
| `hs_logged` | refuted: `AnsweredIsLogged`. A score above 100 fails the CHECK, the log row fails its foreign key, the answer is 200. | |
| `admission` | `BoundedBurst`: whatever the order at the lock and whatever the cleanup removes, less than twice the limit passes in one window's length if no request was more than a tick between clock and lock, and less than three times the limit less one if none was longer than a window. `LimitedForCause`: nobody is turned away unless a full window of his own requests passed near by. `IdleForgotten`: the map does not keep those who left. `NeverTooMany`: overshoots, leaks and the wrap of the counter never let more connections in than the limit and the careless releases. `SlotsHeld`: what the counter means. | 1 118 000 |
| `ddos_leak` | refuted: `ActiveIsOpen`. A refusal for the address keeps the global slot. | |
| `calls` | `KeysAreFound`, `SavedIsCurrent`, `ReadableUnlessCutShort`: the registry and its file. `AnswersItsRequest`, `AnswerWasCurrent`, `EveryCallEnds`: the transport, with the exceptions that dropped calls make. `AcceptedIsSent`, `ChunksAreThePayload`: frames. `RetriesStayFresh`: from which configurations on a retry can be refused for its age. `WorkIsBounded`, `BatchReturns`: what retries may cost, and that they end. | 291 000 |
| `files` | `AnswersFollowQuestions`, `GrowthNeverLowersScore`: pages. `WalkOrderIrrelevant`, `SignedInOneHour`, `AllOrNothing`, `PipelineAgrees`: sites. `QuiescentFresh`, `DeletedLeavesItsScan`, `ChangeGetsOut`: the watcher. | 291 000 |
| `records` | `RingHoldsLast`, `PagingMissesOnlyTies`: the audit log. `SucceededChangeHolds`, `AnswersAreKept`: accounts and keys. `NothingMissed`: updates. `ReportIsWhole`: the telemetry report. | 2 420 000 |

`CachedIsAccountedFor` is the property to read first. Cache and table are not
kept equal by this code; the property says exactly when a page may be
served without its row: its own upsert is still out, or failed, or was dropped,
or a delete stopped between its two writes. It rules out that interleavings of
evictions, purges, deletes and re-insertions produce the state in any other way.
Many others are of this kind: where the code gives no guarantee outright
(`SucceededChangeHolds`, `RingHoldsLast`, `ReadableUnlessCutShort`, `EveryCallEnds`, `AllOrNothing`,
`PagingMissesOnlyTies`, `GrowthNeverLowersScore`), the property names the ways in which it can fail, and claims
that there is no other.

### Bounds

One URL suffices for the safety of the engine, whose state is per URL
(the cache alone is checked with two, because a sweep spans them). Two
handshakes show every order of their writes. The clock is bounded by `MaxTime`,
chosen to pass the Ttl in each run and two windows in `hs_window`. The scores are
one in range and one refused (40, 150), or two in range (40, 90) when the
question is which of them wins. `Ttl <= HourTicks` is the deployment's 300 s
against 3600 s, taken to its limit. Of the counters only the requests for documents need a bound (`MaxReads`, zero where no property is about
counters): a task counts a bounded number of times. The rate limiter needs six
requests against a limit of two (the property allows three or four, by the lag), and a clock of five instants, for
windows of two and the cleanup; entries of several addresses share nothing but the cleanup, whose walk over
several is that of `cache_store`, so one suffices. Requests are interchangeable, and so are callers: of those in the same state
the one with the lowest number moves (`InTurn`), which leaves every reachable state up to a renaming. The connection limiter needs four callers
against two slots, so that two can overshoot together; `Word` stands for 2^64
and only has to exceed what the counter reaches from either side.

`calls`: three spellings of which two are one name, two cores of which one is too large for a frame,
two processes, one connection with at most one dropped call; frames of up to three
units read in chunks of up to three; a batch of two calls and a clock of 11, past
the worst duration of each of the four configurations: within the window, above the cap, no attempt,
negative multiplier. `files`: pages of up to four runs of one or
seven blocks, with texts of six kinds: two plain ones, a command that is redacted and takes the white space after it, what
replaces it, half a command, and none; they reach every multiplier that can be reached, the caps of the pairs and of the length; three paths, which is enough for ties at both ends and a summary that is cut; one
change by the author and one turn of the hour, because two readings of a clock that goes on agree only if none lies between them; two watched files that share name and stem, two texts
and one deletion or rename, two starts of the command. `records`: four events and two
loggers on a ring of two, so that one task can be lapped (two lapped tasks need a third logger; the proof has them); a listing with one row per page, whose stamps may all be equal; three
requests, one failure, one user, one key, three passwords; two updates for channels of
one message, of two domains with two subscriptions each; three handshakes on two sites with a history of two.

Deadlock is tested except in `calls`, `files` and `records`, whose scenes end: a batch that has
returned, a file that is compiled, a bound that is reached.

### Fairness

A handshake that was accepted goes on (`WF` on `Serve`): the runtime
polls every ready task, the HTTP client gives up after 2 s and a statement ends or
fails. The same for an admin call that began. The cleanup task is a loop over a
timer (`WF` on its steps) and time passes. No fairness for calls that clients
may make, for faults, or for statements whose handler is gone. Without the fairness of
the clock an entry would never expire; without that of the sweep an entry nobody
looks up would stay.

In `calls`, a save that has begun runs on, a waiting client is woken, and the server's
reads are strongly fair (`SF` on `Serve`): the registry's lock is released between saves and std hands it
to waiting threads, so that saves cannot keep the server out for ever. Of the HTTP client
only timers and polling are fair; nothing is assumed of its server. In `files`, the
event loop of the watcher goes on; the author owes nothing.

## Proofs

Every invariant, action property and refinement of the passing runs is a theorem, for every value of
the constants that satisfies the assumption of its module (`HandshakeAssumption` and so on; TLC evaluates
each on its instance). Most of the assumptions only type the constants; those with substance are named
below. None of the properties is inductive alone: each section says what its invariant adds and why.
TLC checked the type invariants and the candidates for the other invariants before their proofs.

**The cache** (`CacheProofs`). `SweepSpares`: `Spec => SweepSparesFresh`. It needs that a sweep is behind
the clock (`SweepIsBehind`): what looks expired to it is expired.

**The engine** (`HandshakeProofs`), for any URLs, handshakes, admin calls, scores, and all faults. The
substance of the assumption is `Ttl <= HourTicks`.

* `Invariant` is `IInv`, which `hs_faults` checks. `LocalState` says what a handshake's place says of
  its local data, in particular that a handshake with a lost upsert no longer changes the page it names
  (`Accounted` relies on it for every step after the loss), and that it has a score from the page on.
  `Stamped` says that an entry's signature is of the window of `cached_at`, and its site id was made
  at that instant or one tick before.
* `TypeCorrect`; `Accounted`: `CachedIsAccountedFor`. Only `CacheInsert` fills the cache, so every other
  step keeps or drops (`CacheKeptOrDropped`), and it is enough that it preserves the three excuses of
  a missing row (`AccountedStep`, `DebtKept`).
* `SiteIdsRecent`: `RecentSiteId`, from `Stamped` and the arithmetic of windows (`WindowStep`): the entry's
  age is below Ttl and its id at most one tick older, so no more than one window lies between.
* `CountersAccount`: `TelemetryAccounts`. `Balanced` is the equality with the handshakes that have counted a hit
  or a score and not yet themselves (`Counting`); `Counted` adds those in flight (`Compiling`): a miss
  is counted before the page is scored, so the misses also cover those that are still going to count. Requests for
  documents change `hits` and `served`, or `misses` and `missing`, together (`BalanceKept`).
* `ImplementsStore`: `UsesCacheAsSpecified`, the refinement of `RfoCache` under the mapping `CacheCalls`.
  One lemma for each action says which action of the cache it is, or that it is a stutter; cancellation
  and restart drop a half call, which the cache allows.

**Admission** (`AdmissionProofs`).

* `RateInvariant`: the requests that were counted can be assigned to windows (`w`, which the code does not
  store): each opened by a request, at most the limit passing in it, the entry of an address its latest window, and
  a request at most the longest lag of its address before the window it was counted in (`Within`). As long as
  no lag was longer than a window, the cleanup forgets only what no request comes back to, and windows of
  one address are a window's length apart (`Apart`). `Bursts` is then counting: an
  interval of a window's length meets two windows at lag one and three at a lag of a window (`TwoWindows`,
  `ThreeWindows`), without the opener of one, or of the first and the last; `ForCause`: a refusal has
  a full window of its own address. Nothing is assumed of the time between clock and lock.
* `Slots`: `SlotsHeld`, which is inductive with `TypeOK`: some number of slots is taken, of which the
  open connections and the checks under way hold one each, and the counter shows it up to its wrap.
  The number is what the induction carries (`Taken`). `Bounded`: `NeverTooMany`, its corollary.
  The assumption of substance is a counter wide enough for all callers (2^64 in the code).

**What a caller of an engine meets** (`CallsProofs`).

* The registry: `Keyed`, `Readable` and the action property `Saved`. `RegistryInv` says that every entry,
  also of a snapshot and of the file, is under its lower-case key (`KeyedEverywhere`: a load makes a registry of
  a file that another process wrote), and that no registry changes while it is saved (`SnapshotHolds`).
* The transport: `AnswersMatch` and `AnsweredCurrently`. `WireInv` says what the two streams
  of a connection can hold if none of its calls was dropped (`Paired`): nothing, the request of the call, its
  answer, or the rest of a payload that the client refused; and what the call has seen is what the name has (`SeesCurrent`).
* Frames: `AcceptedWhole` and `ChunksWhole`, from what an open reader holds (`Delivered`).
* Retries: `Bounded` (`WorkIsBounded`) counts attempts and the work that a server may still do for them; `StayFresh`
  (`RetriesStayFresh`) bounds the time spent after k attempts by the timers (`Spent`, `OnTime`). It holds also
  for a first backoff above the cap, and for no other sleep above it.

**Records** (`RecordsProofs`).

* The ring: `LastInRing`. `RingInvariant` says of each slot that it has the event, a later one, or one that was stored late
  (`SlotHolds`). Two tasks can be lapped in one slot: of its events 0, 1 and 2, stored in the order 2, 0, 1, the last
  overwrites an older one and is late all the same. So an event counts as late in `lapped` if *some* later event of its slot
  was stored before (`StoredBefore`), whatever the slot holds by then.
* The listing: `PagesShowAllButTies`. A row that shares its stamp with no other has the same place in every order that a query
  may take, after the newer rows (`UntiedPlace`); rows only come, so a place only grows, and
  what the reader has still to see is not before the page that comes next (`ReadsOn`). Pages are full or the last. What the model
  assumes of the database is that its clock does not go back.
* Accounts: `ChangeHolds` and `AnswersKept`. `InForce` is `SucceededChangeHolds` also while the other changes have only not
  written yet; sessions have their rows (`HasSession`), revoked keys stay revoked.
* Subscriptions: `NoneMissed`. `Due` splits what a receiver is owed into what it has and what some publisher in its loop
  will still send (`Pending`), and no update is in both.
* Telemetry: `WholeReport`. A trend was the end of the recorded scores at a moment of the report (`TrendHeld`), and the domain of a site
  comes before its first score (`DomainFirst`).

**Files** (`CoreProofs`, `WatchProofs`).

* Sites: `CoreInvariant` says that a file is read once, one left alone as it stands, and every page compiled
  in an hour since the site id was made. `WholeSite`, with the excuses of a compile without result (an unreadable or edited file, a
  domain without TLD, a text cut inside wide characters), `OneHour`; `JudgedByFiles`: sorting, the best and the worst page are ranks,
  and ranks are a bijection (`Ranked`), whatever the walk; `CompilersAgree`: a sum is counted as cells
  (`Cells`), so that its order does not matter.
* Pages: `AnswersFollow`, `GrowthKeepsScore`: as long as the lines that are read only grow (`LinesAppend` says when: a new block is a
  line of its own or joins the last), so does each list that a parser fills, hence each term of the
  score, except the length of a title. Both properties speak of the page as it is read (`AsRead`).
* The watcher: `QuietIsFresh` and `DeletedLeavesScan` (under a name there is what the scan found, `NamesStep`). `WrittenIsKept` says of a file written under the loop that its last event is queued,
  or the loop holds its text, or outputs and map have it; the second read of an event closes the gap.

The other theorems are the type invariants. Types do not suffice for some of them: that a count of a
site is one of handshakes needs that each is counted once (`CountsAndSites`), that a text in the map
is one that was written needs the hands of the command (`WrittenTexts`).

Induction over data is used in the form of sets: a set of numbers without a least member is empty
(`LeastNumber`, `Upwards`), and a recursive function of a library operator, such as that of `FoldLeft` and
`FlattenSeq`, is shown to exist (`FoldExists`, `Recursion`) and then computed from one position to the next (`TotalSteps`, `KeptSteps`, `EachSteps`).

Only model-checked: the liveness properties (`StaleReclaimed`, `IdleForgotten`, `EveryHandshakeEnds`, `UnregisteredPageLeaves`,
`EveryCallEnds`, `BatchReturns`, `ChangeGetsOut`), which are out of the prover's reach, as is ENABLED. Of the `.core` file
`CoreTypeCorrect` does not say the type of `root`, the texts that a `SelectSeq` keeps.

## Where the code and its documents disagree

* `cache/mod.rs:45`: "Expired - drop it lazily"; it may drop a fresh entry (`cache_evict`).
* `001_initial.sql:4`: the table holds "the authoritative state"; the cache may serve another score (`hs_agree`).
* `001_initial.sql:15`, `PROTOCOL.md:258`: history of transactions, scores of 0 to 100; a page may score
  above 100 and leaves no trace although the answer is 200 (`hs_logged`).
* `audit.rs:118`: "Current global connection count"; it also counts every refusal for an address (`ddos_leak`).
* `cli.rs:307`: "Re-compile full entry for cache"; the loop of `rfo watch` makes its entries under paths, and what the scan put
  under the file's name is never replaced, nor removed with the file (`DeletedLeavesItsScan`).
* Not about a run: `ARCHITECTURE.md` gives the cache a Ttl of 1 hour and no background thread; the code has
  300 s and a task every 60 s. `PROTOCOL.md:760` promises at most 100 requests per minute and address; the
  window is fixed, and `BoundedBurst` says how many may pass around its end and for how late requests. The global limit of
  `PROTOCOL.md:761` has no code. `tests/concurrency.rs:299` says "After releases, should have room" of ten
  releases of five connections; if they all come first, the counter wraps and there is none, which is the
  wrap that `SlotsHeld` describes.
* Observed while modelling, not about a run: `README.md:143` gives scores of 0 to 100, `compiler.rs` has no upper end.
  A comment there counts every 100 characters as a point, the code every 10; the
  multiplier for more than 20 pairs is never reached, because `generate_qa_pairs` keeps 20.
* A `.markdown` file is Markdown for `rfo compile` and HTML for the compile of a site. `compile_directory`
  of `cli.rs`, the scan of `rfo watch`, ignores its output directory. The site summary, `&all_text[..1000]`, panics inside a character
  (`FinishPanics`), and a directory that cannot be listed is left out of a site without a word.
* An entry of `rfo watch` whose file is renamed away stays.
* `sanitize_for_injection` takes line breaks for white space: in a Markdown file a line can complete what the one before began, and
  both become one line, redacted; a heading that ends in a command takes the paragraph after it into itself.
* `RetryExhausted` is returned only when `max_attempts` is 0; a last attempt returns its own error.
* `rfo opt register` and `unregister` change a registry that they never save.
* A revoked key keeps its name: creating it again is answered 409. The key records and the map the
  middleware reads are unconnected: creating or revoking a record does not change the map.
* A client that pages `list_audit_logs` by `total_pages` instead of to the last short page can miss a row that was
  inserted between the count and the select; and whoever pages can miss a row that shares its `created_at`, because
  nothing orders such rows; `per_page=0` gives an enormous `total_pages`.
* `main.rs:280` announces real-time updates; nothing in the server calls `publish_update`,
  and the handler drops the receivers it would read from. `total_subscribers` counts every
  subscription ever made.
* A handshake that is served from the cache counts itself for its site without naming the domain; if the one that compiled
  the page was dropped before it recorded, the report ranks a site without domain and score. `ReportIsWhole` is about sites with a trend.

## Not modelled

What has no state that two actors share, or is input and output: cryptographic primitives, SQL listings
without pages, CORS and routing, the SDKs, the commands of the tool that call one
function and print. Of the compilers: links, coordinates, structured data, topics and sitemaps, which no score
reads. Of the server: the result list of a batch, the ring of request sizes and its averages, the map of API keys in
memory, which nothing but its own single-step operations changes. Of a page: a command
over more than two lines, texts with a "# " or a fence of their own, marks of a line that stand in the middle of a heading after
a redaction.

## Plan

What is left, in this order:

1. What stands behind the liveness properties and is a safety property: that each step of an accepted handshake, of a save
   and of a batch brings it nearer to its end, whatever the others do.
2. Abstract specifications for the connection limiter (a bounded number of slots) and the transport (a call and its answer), and that
   the modules implement them under the exceptions their properties name.
3. Which entry `get_by_domain` returns when several keys contain the domain, and the result list of a batch.
