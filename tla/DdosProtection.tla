--------------------------- MODULE DdosProtection ---------------------------
(***************************************************************************)
(* The connection limiter (DdosProtection of src/src/audit.rs): one atomic *)
(* counter of all connections and a count per address and minute.          *)
(*                                                                         *)
(* check_connection takes three steps: it takes a slot (fetch_add), gives  *)
(* it back if there was none left (fetch_sub), and otherwise counts itself *)
(* under the lock of its address.  No handler of the server calls it yet:  *)
(* the callers here are those of the tests, which release a connection     *)
(* that was admitted, or (set Careless) release without looking.           *)
(***************************************************************************)
EXTENDS Integers, FiniteSets

CONSTANTS
    Caller,     \* threads that open and close connections
    Careless,   \* those that call release_connection without a connection
    Ip,         \* addresses
    MaxPerIp,   \* max_per_ip
    MaxGlobal,  \* max_global
    Word,       \* size of the u64 counter
    Window,     \* 60 s, in ticks
    MaxTime,    \* bound on the clock
    MaxRelease, \* bound on careless releases
    Absent      \* no record

Time == 0..MaxTime
ConnectionRecord == [count: Nat, window_start: Time]

ASSUME DdosAssumption ==
    /\ IsFiniteSet(Caller)
    /\ Careless \subseteq Caller
    /\ MaxPerIp \in Nat
    /\ MaxGlobal \in Nat
    /\ Word \in Nat
    /\ MaxGlobal + Cardinality(Caller) + MaxRelease < Word
    /\ Window \in Nat \ {0}
    /\ MaxTime \in Nat
    /\ MaxRelease \in Nat
    /\ Absent \notin ConnectionRecord

VARIABLES
    now,       \* Instant::now()
    global,    \* global_connections
    record,    \* connections_per_ip
    conn,      \* place of each caller
    released   \* careless releases so far

vars == <<now, global, record, conn, released>>

ConnPc == {"out", "over", "counted", "in"}

TypeOK ==
    /\ now \in Time
    /\ global \in 0..(Word - 1)
    /\ record \in [Ip -> ConnectionRecord \cup {Absent}]
    /\ conn \in [Caller -> [pc: ConnPc, since: Time]]
    /\ released \in 0..MaxRelease

Init ==
    /\ now = 0
    /\ global = 0
    /\ record = [ip \in Ip |-> Absent]
    /\ conn = [c \in Caller |-> [pc |-> "out", since |-> 0]]
    /\ released = 0

-----------------------------------------------------------------------------
\* fetch_add and fetch_sub wrap around.
Up(n) == IF n = Word - 1 THEN 0 ELSE n + 1
Down(n) == IF n = 0 THEN Word - 1 ELSE n - 1

\* Mutant: the counter is compared after the slot was added.
RoomAfter(n) == n <= MaxGlobal

Room(n) == n < MaxGlobal

\* fetch_add, and the comparison with the value before it.
TakeSlot(c) ==
    /\ conn[c].pc = "out"
    /\ global' = Up(global)
    /\ conn' = [conn EXCEPT ![c] = [pc |-> IF Room(global) THEN "counted" ELSE "over",
                                    since |-> now]]
    /\ UNCHANGED <<now, record, released>>

\* Mutant: the slot of a refused connection is not given back.
KeepSlot(c) ==
    /\ conn[c].pc = "over"
    /\ conn' = [conn EXCEPT ![c].pc = "out"]
    /\ UNCHANGED <<now, global, record, released>>

\* fetch_sub: there was no slot left.
ReturnSlot(c) ==
    /\ conn[c].pc = "over"
    /\ global' = Down(global)
    /\ conn' = [conn EXCEPT ![c].pc = "out"]
    /\ UNCHANGED <<now, record, released>>

\* duration_since saturates: zero for an instant to come.
Since(t, start) == IF start <= t THEN t - start ELSE 0

Current(ip, t) ==
    IF record[ip] = Absent \/ Since(t, record[ip].window_start) >= Window
    THEN [count |-> 0, window_start |-> t]
    ELSE record[ip]

\* The clock was read at some time since the slot was taken.  A refusal keeps
\* the slot.
CountIp(c, ip, t) ==
    /\ conn[c].pc = "counted"
    /\ conn[c].since <= t /\ t <= now
    /\ LET found == Current(ip, t) IN
       /\ record' = [record EXCEPT ![ip] = [found EXCEPT !.count = @ + 1]]
       /\ conn' = [conn EXCEPT ![c].pc = IF found.count + 1 <= MaxPerIp THEN "in" ELSE "out"]
    /\ UNCHANGED <<now, global, released>>

\* release_connection, by a caller that was admitted ...
Release(c) ==
    /\ conn[c].pc = "in"
    /\ global' = Down(global)
    /\ conn' = [conn EXCEPT ![c].pc = "out"]
    /\ UNCHANGED <<now, record, released>>

\* ... and by one that was not.
ReleaseAnyway(c) ==
    /\ c \in Careless
    /\ conn[c].pc = "out"
    /\ released < MaxRelease
    /\ global' = Down(global)
    /\ released' = released + 1
    /\ UNCHANGED <<now, record, conn>>

Tick ==
    /\ now < MaxTime
    /\ now' = now + 1
    /\ UNCHANGED <<global, record, conn, released>>

Next ==
    \/ \E c \in Caller : TakeSlot(c) \/ ReturnSlot(c) \/ Release(c) \/ ReleaseAnyway(c)
    \/ \E c \in Caller, ip \in Ip, t \in Time : CountIp(c, ip, t)
    \/ Tick

Spec == Init /\ [][Next]_vars

-----------------------------------------------------------------------------
(* Properties.                                                             *)

At(pcs) == {c \in Caller : conn[c].pc \in pcs}

\* Callers overshoot the counter and take it back while others compare with
\* it, slots leak, and the counter wraps below zero; yet no more connections
\* are open than the limit and the releases of connections nobody had
\* (check_connection).
NeverTooMany == Cardinality(At({"in"})) <= MaxGlobal + released

\* The counter shows the slots taken less the careless releases, up to its wrap.
Shows(counter, taken, without) == counter \in {taken - without, taken - without + Word}

\* Some number of slots is taken: one by every open connection and every check
\* under way, the rest leaked.  The counter shows them, and exceeds the limit
\* only by the checks that will give theirs back (check_connection,
\* release_connection).
SlotsHeld ==
    LET over == Cardinality(At({"over"}))
        held == Cardinality(At({"counted", "in"}))
    IN  \E taken \in 0..(MaxGlobal + Cardinality(Caller) + MaxRelease) :
            /\ over + held <= taken
            /\ taken - released <= MaxGlobal + over
            /\ Shows(global, taken, released)

\* "Current global connection count": with no check under way, the counter is
\* the number of open connections.
ActiveIsOpen ==
    (\A c \in Caller : conn[c].pc \in {"out", "in"}) =>
        global = Cardinality(At({"in"}))
================================================================================
