------------------------------ MODULE AuditLog ------------------------------
(***************************************************************************)
(* The audit log: AuditLogger (src/src/audit.rs) keeps the last events in  *)
(* a ring and writes each to the table, and the admin page                 *)
(* (list_audit_logs, src/src/admin.rs) reads the table page by page while  *)
(* it grows.                                                               *)
(*                                                                         *)
(* An event is the number that buffer_index gives it.                      *)
(***************************************************************************)
EXTENDS Integers, FiniteSets, Sequences, FiniteSetsExt, SequencesExt

CONSTANTS
    Logger,      \* tasks that log events
    MaxEvents,   \* bound on the events
    RingSize,    \* slots of the ring: 500
    PerPage      \* per_page: 20, or what the reader asks for up to 100

ASSUME AuditAssumption ==
    MaxEvents \in Nat /\ RingSize \in Nat \ {0} /\ PerPage \in Nat \ {0}

Event == 0..(MaxEvents - 1)
NoEvent == -1

VARIABLES
    pool,          \* db: Some or None
    buffer_index,
    buffer,        \* the ring, as far as it is filled
    holds,         \* the event a task has numbered and not yet stored
    lapped,        \* events stored after a later one of their slot
    insertion,     \* of each event: "none", "spawned", "open", "row", "lost"
    created_at,    \* of each insertion that has begun
    reader         \* a client of list_audit_logs

auditVars == <<pool, buffer_index, buffer, holds, lapped, insertion, created_at, reader>>

AuditTypeOK ==
    /\ pool \in BOOLEAN
    /\ buffer_index \in 0..MaxEvents
    /\ DOMAIN buffer \subseteq 0..(RingSize - 1)
    /\ \A i \in DOMAIN buffer : buffer[i] \in 0..(buffer_index - 1)
    /\ holds \in [Logger -> Event \cup {NoEvent}]
    /\ lapped \subseteq Event
    /\ insertion \in [Event -> {"none", "spawned", "open", "row", "lost"}]
    /\ created_at \in [Event -> 0..MaxEvents]
    /\ reader.at \in {"off", "count", "rows", "done"} /\ reader.page >= 1
    /\ reader.floor \cup reader.seen \subseteq Event

-----------------------------------------------------------------------------
(* log: the two steps on the ring, then a task of its own for the table.   *)

\* buffer_index.fetch_add(1)
TakeIndex(l) ==
    /\ holds[l] = NoEvent /\ buffer_index < MaxEvents
    /\ holds' = [holds EXCEPT ![l] = buffer_index]
    /\ buffer_index' = buffer_index + 1
    /\ UNCHANGED <<pool, buffer, lapped, insertion, created_at, reader>>

\* Mutant: an event that is there is kept.
InsertedOnce(ring, i, e) == IF i \in DOMAIN ring THEN ring ELSE ring @@ (i :> e)

\* buffer.insert(idx, event)
Inserted(ring, i, e) == [j \in DOMAIN ring \cup {i} |-> IF j = i THEN e ELSE ring[j]]

\* The later events of its slot that are stored already.
StoredBefore(e) ==
    {d \in (e + 1)..(buffer_index - 1) :
        d % RingSize = e % RingSize /\ \A l \in Logger : holds[l] # d}

\* ... and the spawn of its insertion, if there is a pool.
Store(l) ==
    LET e == holds[l]  i == e % RingSize IN
    /\ e # NoEvent
    /\ buffer' = Inserted(buffer, i, e)
    /\ lapped' = IF StoredBefore(e) # {} THEN lapped \cup {e} ELSE lapped
    /\ holds' = [holds EXCEPT ![l] = NoEvent]
    /\ insertion' = IF pool THEN [insertion EXCEPT ![e] = "spawned"] ELSE insertion
    /\ UNCHANGED <<pool, buffer_index, created_at, reader>>

\* The time that the table's default may give to an insertion: the clock does not go
\* back, and may not have moved since the last one (an instant counts once it is used).
Stamps ==
    {t \in 1..MaxEvents : /\ \A d \in Event : created_at[d] <= t
                          /\ t = 1 \/ \E d \in Event : created_at[d] >= t - 1}

\* The INSERT begins: created_at is the time of its transaction.
BeginInsert(e) ==
    /\ insertion[e] = "spawned"
    /\ insertion' = [insertion EXCEPT ![e] = "open"]
    /\ \E t \in Stamps : created_at' = [created_at EXCEPT ![e] = t]
    /\ UNCHANGED <<pool, buffer_index, buffer, holds, lapped, reader>>

\* Its row is there, whether or not the pool hears of it.
CommitInsert(e) ==
    /\ insertion[e] = "open"
    /\ insertion' = [insertion EXCEPT ![e] = "row"]
    /\ UNCHANGED <<pool, buffer_index, buffer, holds, lapped, created_at, reader>>

\* "Failed to write audit log": the event stays in the ring only.
InsertFails(e) ==
    /\ insertion[e] \in {"spawned", "open"}
    /\ insertion' = [insertion EXCEPT ![e] = "lost"]
    /\ UNCHANGED <<pool, buffer_index, buffer, holds, lapped, created_at, reader>>

\* recent_events(count): the ring in whatever order the map iterates, cut.
RecentEvents(count) ==
    {SubSeq(s, 1, IF count < Len(s) THEN count ELSE Len(s)) :
        s \in SetToSeqs({buffer[i] : i \in DOMAIN buffer})}

-----------------------------------------------------------------------------
(* list_audit_logs without filters: two queries for each page.             *)

Rows == {e \in Event : insertion[e] = "row"}

\* Mutant: the offset of a page that is numbered from zero.
OffsetFromZero(n) == n * PerPage

Offset(n) == (n - 1) * PerPage

\* The places that ORDER BY created_at DESC may give to the rows: it leaves those of one
\* created_at in any order, and in another for another query.
Orders ==
    {place \in Bijection(Rows, 1..Cardinality(Rows)) :
        \A d, e \in Rows : created_at[d] > created_at[e] => place[d] < place[e]}

\* LIMIT per_page OFFSET offset
PageOfRows(place, n) == {e \in Rows : place[e] \in (Offset(n) + 1)..(Offset(n) + PerPage)}

\* External: someone opens the first page.
OpenLog ==
    /\ reader.at = "off"
    /\ reader' = [reader EXCEPT !.at = "count", !.floor = Rows]
    /\ UNCHANGED <<pool, buffer_index, buffer, holds, lapped, insertion, created_at>>

CountRows ==
    /\ reader.at = "count"
    /\ reader' = [reader EXCEPT !.at = "rows", !.total = Cardinality(Rows)]
    /\ UNCHANGED <<pool, buffer_index, buffer, holds, lapped, insertion, created_at>>

\* Either query fails: 500, and the reader asks for the page again.
QueryFails ==
    /\ reader.at = "rows"
    /\ reader' = [reader EXCEPT !.at = "count"]
    /\ UNCHANGED <<pool, buffer_index, buffer, holds, lapped, insertion, created_at>>

\* The reader goes on until a page is not full.
ReadRows ==
    /\ reader.at = "rows"
    /\ \E place \in Orders :
        LET data == PageOfRows(place, reader.page) IN
        reader' = [reader EXCEPT
            !.seen = @ \cup data,
            !.short = @ \/ Offset(reader.page) + Cardinality(data)
                              < Min({reader.total, reader.page * PerPage}),
            !.at = IF Cardinality(data) < PerPage THEN "done" ELSE "count",
            !.page = IF Cardinality(data) < PerPage THEN @ ELSE @ + 1]
    /\ UNCHANGED <<pool, buffer_index, buffer, holds, lapped, insertion, created_at>>

-----------------------------------------------------------------------------
AuditInit ==
    /\ pool \in BOOLEAN
    /\ buffer_index = 0 /\ buffer = <<>> /\ lapped = {}
    /\ holds = [l \in Logger |-> NoEvent]
    /\ insertion = [e \in Event |-> "none"] /\ created_at = [e \in Event |-> 0]
    /\ reader = [at |-> "off", page |-> 1, total |-> 0, floor |-> {}, seen |-> {}, short |-> FALSE]

AuditNext ==
    \/ \E l \in Logger : TakeIndex(l) \/ Store(l)
    \/ \E e \in Event : BeginInsert(e) \/ CommitInsert(e) \/ InsertFails(e)
    \/ OpenLog \/ CountRows \/ QueryFails \/ ReadRows

AuditSpec == AuditInit /\ [][AuditNext]_auditVars

-----------------------------------------------------------------------------
(* Properties.                                                             *)

InRing == {buffer[i] : i \in DOMAIN buffer}
LastEvents == {e \in Event : buffer_index - RingSize <= e /\ e < buffer_index}

\* Between events, recent_events has the last ones, all of them: each one it
\* misses was overwritten by a task that took its number a whole lap earlier
\* and stored its event late (log, recent_events).
RingHoldsLast ==
    (\A l \in Logger : holds[l] = NoEvent) =>
        /\ \A e \in LastEvents \ InRing : \E d \in lapped : d < e /\ d % RingSize = e % RingSize
        /\ InRing \subseteq LastEvents \cup lapped
        /\ \A s \in RecentEvents(RingSize) : Len(s) = Min({buffer_index, RingSize})

\* Reading page after page until one is not full shows every row that stood at the start
\* and has a created_at of its own, although rows go in before and between them meanwhile
\* and no page is read in the transaction of another; what is missed shares its created_at
\* with a row, which may have taken its place on a page.  And no page has fewer rows than
\* the count that was taken for it promises (list_audit_logs).
PagingMissesOnlyTies ==
    /\ reader.at = "done" =>
          \A e \in reader.floor \ reader.seen :
              \E d \in Rows \ {e} : created_at[d] = created_at[e]
    /\ ~reader.short
=============================================================================
