----------------------------- MODULE WatchProofs -----------------------------
(***************************************************************************)
(* What is proved of what the command line does with files: `rfo watch`,   *)
(* for any files, names and stems, any author beside it and any number of  *)
(* starts and interruptions.                                               *)
(***************************************************************************)
EXTENDS Watch, FiniteSetTheorems, SequenceTheorems, TLAPS

-----------------------------------------------------------------------------
(* The queue of events.                                                    *)

\* An event is about the paths that it names.
About(e, f) == \E n \in DOMAIN e.paths : e.paths[n] = f
Among(f, todo) == \E n \in DOMAIN todo : todo[n] = f
Queued(q, f) == \E i \in DOMAIN q : About(q[i], f)

\* The last event about a file that is still queued, if any is, is of this kind.
EndsIn(q, f, kind) ==
    \A i \in DOMAIN q : About(q[i], f) =>
        \E j \in DOMAIN q : i <= j /\ About(q[j], f) /\ q[j].kind = kind

Event == [kind: {"modify", "remove"}, paths: Seq(File)]

-----------------------------------------------------------------------------
(* The inductive invariant.                                                *)

Steps == {"idle", "next", "doc", "mdoc", "again"}
Busy(f) == watcher.at \in {"doc", "mdoc", "again"} /\ watcher.path = f
Waits(f) == watcher.at \in {"next", "doc", "mdoc", "again"} /\ Among(f, watcher.todo)

\* Nothing in the queue or in the event at hand is still to make the loop read f.
Settled(f) == ~Queued(events, f) /\ ~Waits(f)

WatchTypes ==
    /\ written \in Nat
    /\ disk \in [File -> Nat \cup {Gone}]
    /\ author \in File \cup {Gone}
    /\ out \in [Stems -> [doc: Nat \cup {Gone}, mdoc: Nat \cup {Gone}]]
    /\ watcher \in [at: {"off", "scan", "setup"} \cup Steps, todo: Seq(File),
                    path: File \cup {Gone}, read: Nat \cup {Gone} \cup SUBSET File]
    /\ watcher.at = "scan" => watcher.read \subseteq File
    /\ watcher.at \in {"doc", "mdoc", "again"} => watcher.path \in File /\ watcher.read \in Nat
    /\ events \in Seq(Event)
    /\ \A i \in DOMAIN events : events[i].kind = "remove" => Len(events[i].paths) = 1
    /\ touched \in [File -> {"no", "written", "deleted", "renamed"}]

\* Before the command watches nothing is queued and nothing counts as touched;
\* what the loop has to do with is touched.
OnlyTouched ==
    /\ ~Watches => events = <<>> /\ \A f \in File : touched[f] = "no"
    /\ \A f \in File : Queued(events, f) \/ Waits(f) \/ Busy(f) => touched[f] # "no"

\* A file written under the loop is there, a last event of it is queued, or the
\* loop holds its text: on the way to the outputs, or in them and in the map.
WrittenIsKept ==
    \A f \in File : touched[f] = "written" =>
        /\ disk[f] \in Nat
        /\ EndsIn(events, f, "modify")
        /\ Settled(f) /\ Busy(f) =>
              /\ watcher.read = disk[f]
              /\ Alone(f) /\ watcher.at \in {"mdoc", "again"} => out[Stem[f]].doc = disk[f]
              /\ Alone(f) /\ watcher.at = "again" => out[Stem[f]].mdoc = disk[f]
        /\ Settled(f) /\ ~Busy(f) =>
              /\ f \in DOMAIN compiled /\ compiled[f] = [text |-> disk[f], quality |-> disk[f]]
              /\ Alone(f) => out[Stem[f]].doc = disk[f] /\ out[Stem[f]].mdoc = disk[f]

\* Of a deleted file the removal is queued, or the loop has nothing left.
DeletedIsDropped ==
    \A f \in File : touched[f] = "deleted" =>
        /\ EndsIn(events, f, "remove")
        /\ ~Queued(events, f) => ~Waits(f) /\ ~Busy(f) /\ f \notin DOMAIN compiled

WatchInv == WatchTypes /\ OnlyTouched /\ WrittenIsKept /\ DeletedIsDropped

-----------------------------------------------------------------------------
(* Lemmas about the queue.                                                 *)

\* An event that is added is the last about the files it names.
LEMMA Added ==
    ASSUME NEW q \in Seq(Event), NEW e \in Event, NEW f, NEW kind
    PROVE  /\ Append(q, e) \in Seq(Event)
           /\ Queued(Append(q, e), f) <=> Queued(q, f) \/ About(e, f)
           /\ ~About(e, f) /\ EndsIn(q, f, kind) => EndsIn(Append(q, e), f, kind)
           /\ About(e, f) /\ e.kind = kind => EndsIn(Append(q, e), f, kind)
<1>1. /\ Append(q, e) \in Seq(Event) /\ Len(q) \in Nat
      /\ DOMAIN q = 1..Len(q) /\ DOMAIN Append(q, e) = 1..(Len(q) + 1)
      /\ Append(q, e)[Len(q) + 1] = e /\ \A i \in 1..Len(q) : Append(q, e)[i] = q[i]
  BY AppendProperties, LenProperties
<1>2. PICK r, n : n \in Nat /\ r = Append(q, e) /\ n = Len(q)
  BY <1>1
<1>3. /\ n \in Nat /\ DOMAIN q = 1..n /\ DOMAIN r = 1..(n + 1)
      /\ r[n + 1] = e /\ \A i \in 1..n : r[i] = q[i]
  BY <1>1, <1>2
<1>4. Queued(r, f) <=> Queued(q, f) \/ About(e, f)
  BY <1>3 DEF Queued
<1>5. ASSUME ~About(e, f), EndsIn(q, f, kind) PROVE EndsIn(r, f, kind)
  <2> SUFFICES ASSUME NEW i \in DOMAIN r, About(r[i], f)
               PROVE  \E j \in DOMAIN r : i <= j /\ About(r[j], f) /\ r[j].kind = kind
    BY DEF EndsIn
  <2>1. i \in DOMAIN q /\ About(q[i], f)
    BY <1>3, <1>5
  <2>2. PICK j \in DOMAIN q : i <= j /\ About(q[j], f) /\ q[j].kind = kind
    BY <1>5, <2>1 DEF EndsIn
  <2>3. QED
    BY <1>3, <2>2
<1>6. ASSUME About(e, f), e.kind = kind PROVE EndsIn(r, f, kind)
  BY <1>3, <1>6 DEF EndsIn
<1>7. QED
  BY <1>1, <1>2, <1>4, <1>5, <1>6

\* When the first event is taken, the last one about a file is still queued
\* unless it was the first.
LEMMA Taken ==
    ASSUME NEW q \in Seq(Event), q # <<>>, NEW f, NEW kind
    PROVE  /\ Tail(q) \in Seq(Event) /\ Head(q) \in Event
           /\ Queued(q, f) <=> About(Head(q), f) \/ Queued(Tail(q), f)
           /\ EndsIn(q, f, kind) => EndsIn(Tail(q), f, kind)
           /\ EndsIn(q, f, kind) /\ About(Head(q), f) /\ Head(q).kind # kind => Queued(Tail(q), f)
<1>1. /\ Tail(q) \in Seq(Event) /\ Head(q) \in Event /\ Head(q) = q[1]
      /\ Len(q) \in Nat /\ Len(q) >= 1
      /\ DOMAIN q = 1..Len(q) /\ DOMAIN Tail(q) = 1..(Len(q) - 1)
      /\ \A i \in 1..(Len(q) - 1) : Tail(q)[i] = q[i + 1]
  BY HeadTailProperties, LenProperties, EmptySeq
<1>2. PICK r, n : n \in Nat /\ r = Tail(q) /\ n = Len(q)
  BY <1>1
<1>3. /\ n \in Nat /\ n >= 1 /\ DOMAIN q = 1..n /\ DOMAIN r = 1..(n - 1) /\ Head(q) = q[1]
      /\ \A i \in 1..(n - 1) : r[i] = q[i + 1]
  BY <1>1, <1>2
<1>a. ASSUME NEW i \in DOMAIN q, i # 1 PROVE i - 1 \in DOMAIN r /\ r[i - 1] = q[i]
  BY <1>3, <1>a
<1>b. ASSUME NEW i \in DOMAIN r PROVE i + 1 \in DOMAIN q /\ r[i] = q[i + 1] /\ i \in Int
  BY <1>3
<1>4. Queued(q, f) <=> About(q[1], f) \/ Queued(r, f)
  <2>1. 1 \in DOMAIN q
    BY <1>3
  <2>2. QED
    BY ONLY <2>1, <1>a, <1>b DEF Queued
<1>5. ASSUME EndsIn(q, f, kind) PROVE EndsIn(r, f, kind)
  <2> SUFFICES ASSUME NEW i \in DOMAIN r, About(r[i], f)
               PROVE  \E j \in DOMAIN r : i <= j /\ About(r[j], f) /\ r[j].kind = kind
    BY DEF EndsIn
  <2>1. PICK j \in DOMAIN q : i + 1 <= j /\ About(q[j], f) /\ q[j].kind = kind
    BY <1>5, <1>b DEF EndsIn
  <2>2. j \in Int /\ i \in Int /\ i >= 1
    BY <1>3
  <2>3. j # 1 /\ i <= j - 1
    BY <2>1, <2>2
  <2>4. QED
    BY <1>a, <2>1, <2>3
<1>6. ASSUME EndsIn(q, f, kind), About(q[1], f), q[1].kind # kind PROVE Queued(r, f)
  <2>1. PICK j \in DOMAIN q : About(q[j], f) /\ q[j].kind = kind
    BY <1>3, <1>6 DEF EndsIn
  <2>2. j # 1
    BY <1>6, <2>1
  <2>3. QED
    BY <1>a, <2>1, <2>2 DEF Queued
<1>7. QED
  BY <1>1, <1>2, <1>3, <1>4, <1>5, <1>6

\* The same of the paths of the event at hand.
LEMMA NextPath ==
    ASSUME NEW todo \in Seq(File), todo # <<>>
    PROVE  /\ Tail(todo) \in Seq(File) /\ Head(todo) \in File
           /\ \A f : Among(f, todo) <=> f = Head(todo) \/ Among(f, Tail(todo))
<1>1. /\ Tail(todo) \in Seq(File) /\ Head(todo) \in File /\ Head(todo) = todo[1]
      /\ Len(todo) \in Nat /\ Len(todo) >= 1
      /\ DOMAIN todo = 1..Len(todo) /\ DOMAIN Tail(todo) = 1..(Len(todo) - 1)
      /\ \A i \in 1..(Len(todo) - 1) : Tail(todo)[i] = todo[i + 1]
  BY HeadTailProperties, LenProperties, EmptySeq
<1>2. ASSUME NEW f PROVE Among(f, todo) <=> f = Head(todo) \/ Among(f, Tail(todo))
  <2>1. ASSUME NEW i \in DOMAIN todo, i # 1
        PROVE  i - 1 \in DOMAIN Tail(todo) /\ Tail(todo)[i - 1] = todo[i]
    BY <1>1, <2>1
  <2>2. ASSUME NEW i \in DOMAIN Tail(todo) PROVE i + 1 \in DOMAIN todo /\ Tail(todo)[i] = todo[i + 1]
    BY <1>1
  <2>3. 1 \in DOMAIN todo /\ Head(todo) = todo[1]
    BY <1>1
  <2>4. QED
    BY ONLY <2>1, <2>2, <2>3 DEF Among
<1>3. QED
  BY <1>1, <1>2

-----------------------------------------------------------------------------
(* The author.                                                             *)

\* Something happens to files under the loop and is reported: the files it names
\* are queued, with an event of the right kind, and the others stay as they are.
LEMMA Happens ==
    ASSUME WatchInv, Watches, NEW e \in Event, events' = Append(events, e),
           UNCHANGED <<watcher, out, compiled>>,
           \A f \in File : ~About(e, f) => disk'[f] = disk[f] /\ touched'[f] = touched[f],
           \A f \in File : About(e, f) => touched'[f] # "no",
           \A f \in File : About(e, f) /\ touched'[f] = "written" => e.kind = "modify" /\ disk'[f] \in Nat,
           \A f \in File : About(e, f) /\ touched'[f] = "deleted" => e.kind = "remove"
    PROVE  OnlyTouched' /\ WrittenIsKept' /\ DeletedIsDropped'
<1>1. events \in Seq(Event)
  BY DEF WatchInv, WatchTypes
<1>2. \A f \in File : /\ Busy(f)' = Busy(f) /\ Waits(f)' = Waits(f)
                      /\ Queued(events, f)' <=> Queued(events, f) \/ About(e, f)
                      /\ Settled(f)' <=> Settled(f) /\ ~About(e, f)
  BY <1>1, Added DEF Busy, Waits, Settled, Queued, About
<1>3. ASSUME NEW f \in File, Alone(f)' PROVE Alone(f)
  BY <1>3 DEF Alone
<1>4. OnlyTouched'
  <2>1. Watches'
    BY DEF Watches
  <2>2. QED
    BY <1>2, <2>1 DEF OnlyTouched, WatchInv
<1>5. WrittenIsKept'
  <2> SUFFICES ASSUME NEW f \in File, touched'[f] = "written"
               PROVE  /\ disk'[f] \in Nat
                      /\ EndsIn(events', f, "modify")
                      /\ Settled(f)' /\ Busy(f)' =>
                            /\ watcher'.read = disk'[f]
                            /\ Alone(f)' /\ watcher'.at \in {"mdoc", "again"} => out'[Stem[f]].doc = disk'[f]
                            /\ Alone(f)' /\ watcher'.at = "again" => out'[Stem[f]].mdoc = disk'[f]
                      /\ Settled(f)' /\ ~Busy(f)' =>
                            /\ f \in DOMAIN compiled' /\ compiled'[f] = [text |-> disk'[f], quality |-> disk'[f]]
                            /\ Alone(f)' => out'[Stem[f]].doc = disk'[f] /\ out'[Stem[f]].mdoc = disk'[f]
    BY DEF WrittenIsKept, EndsIn, About
  <2>1. CASE About(e, f)
    BY <1>1, <1>2, <2>1, Added
  <2>2. CASE ~About(e, f)
    BY <1>1, <1>2, <1>3, <2>2, Added DEF WatchInv, WrittenIsKept
  <2>3. QED
    BY <2>1, <2>2
<1>6. DeletedIsDropped'
  <2> SUFFICES ASSUME NEW f \in File, touched'[f] = "deleted"
               PROVE  /\ EndsIn(events', f, "remove")
                      /\ ~Queued(events, f)' => ~Waits(f)' /\ ~Busy(f)' /\ f \notin DOMAIN compiled'
    BY DEF DeletedIsDropped, EndsIn, About
  <2>1. CASE About(e, f)
    BY <1>1, <1>2, <2>1, Added
  <2>2. CASE ~About(e, f)
    BY <1>1, <1>2, <2>2, Added DEF WatchInv, DeletedIsDropped
  <2>3. QED
    BY <2>1, <2>2
<1>7. QED
  BY <1>4, <1>5, <1>6

\* Without a watching command nothing is queued and nothing is touched.
LEMMA Untouched ==
    ASSUME ~Watches', events' = <<>>, \A f \in File : touched'[f] = "no"
    PROVE  OnlyTouched' /\ WrittenIsKept' /\ DeletedIsDropped'
<1>1. \A f \in File : ~Queued(events, f)' /\ ~Waits(f)' /\ ~Busy(f)'
  BY DEF Queued, Waits, Busy, Watches
<1>2. QED
  BY <1>1 DEF OnlyTouched, WrittenIsKept, DeletedIsDropped

\* An event about one file.
LEMMA OneFile ==
    ASSUME NEW f \in File, NEW kind \in {"modify", "remove"}
    PROVE  /\ [kind |-> kind, paths |-> <<f>>] \in Event
           /\ \A g : About([kind |-> kind, paths |-> <<f>>], g) <=> g = f
BY DEF Event, About

\* An event about two, as a rename gives.
LEMMA TwoFiles ==
    ASSUME NEW f \in File, NEW g \in File, NEW kind \in {"modify", "remove"}
    PROVE  /\ [kind |-> kind, paths |-> <<f, g>>] \in Event
           /\ \A h : About([kind |-> kind, paths |-> <<f, g>>], h) <=> h \in {f, g}
<1>1. [kind |-> kind, paths |-> <<f, g>>] \in Event
  BY DEF Event
<1>2. ASSUME NEW h PROVE About([kind |-> kind, paths |-> <<f, g>>], h) <=> h \in {f, g}
  <2>1. DOMAIN <<f, g>> = {1, 2} /\ <<f, g>>[1] = f /\ <<f, g>>[2] = g
    OBVIOUS
  <2>2. QED
    BY <2>1 DEF About
<1>3. QED
  BY <1>1, <1>2

\* What the author does keeps the invariant (external: an editor, and notify).
LEMMA AuthorStep ==
    ASSUME WatchInv, NEW f \in File,
           Open(f) \/ Write \/ Delete(f) \/ \E g \in File : Rename(f, g)
    PROVE  WatchInv'
<1>1. WatchTypes /\ 0 \in Nat /\ Gone \notin Nat /\ Gone \notin File
  BY WatchAssumption DEF WatchInv
<1>w. CASE ~Watches
  <2>1. events' = events /\ touched' = touched /\ watcher' = watcher /\ UNCHANGED <<out, compiled>>
    BY <1>w DEF Open, Write, Delete, Rename, Report, Touch
  <2>2. OnlyTouched' /\ WrittenIsKept' /\ DeletedIsDropped'
    <3>1. ~Watches'
      BY <1>w, <2>1 DEF Watches
    <3>2. QED
      BY <1>w, <2>1, <3>1, Untouched DEF WatchInv, OnlyTouched
  <2>3. written' \in Nat /\ disk' \in [File -> Nat \cup {Gone}] /\ author' \in File \cup {Gone}
    <3>1. CASE Open(f)
      BY <1>1, <3>1 DEF WatchTypes, Open
    <3>a. CASE Delete(f)
      BY <1>1, <3>a DEF WatchTypes, Delete
    <3>2. CASE Write
      BY <1>1, <3>2 DEF WatchTypes, Write
    <3>3. ASSUME NEW g \in File, Rename(f, g)
          PROVE  written' = written /\ disk' \in [File -> Nat \cup {Gone}] /\ author' = author
      BY <1>1, <3>3 DEF WatchTypes, Rename
    <3>4. QED
      BY <1>1, <3>1, <3>a, <3>2, <3>3 DEF WatchTypes
  <2>4. QED
    BY <1>1, <2>1, <2>2, <2>3 DEF WatchInv, WatchTypes
<1>x. ASSUME Watches,
             NEW e \in Event, events' = Append(events, e), e.kind = "remove" => Len(e.paths) = 1,
             UNCHANGED <<watcher, out, compiled>>,
             OnlyTouched' /\ WrittenIsKept' /\ DeletedIsDropped',
             written' \in Nat /\ disk' \in [File -> Nat \cup {Gone}] /\ author' \in File \cup {Gone},
             touched' \in [File -> {"no", "written", "deleted", "renamed"}]
      PROVE  WatchInv'
  <2>1. events' \in Seq(Event) /\ \A i \in DOMAIN events' : events'[i].kind = "remove" => Len(events'[i].paths) = 1
    BY <1>1, <1>x, AppendProperties, LenProperties DEF WatchTypes
  <2>2. QED
    BY <1>1, <1>x, <2>1 DEF WatchInv, WatchTypes
<1>a. CASE Watches /\ Open(f)
  <2> DEFINE e == [kind |-> "modify", paths |-> <<f>>]
  <2>1. events' = Append(events, e) /\ disk' = [disk EXCEPT ![f] = 0]
        /\ touched' = [touched EXCEPT ![f] = "written"] /\ author' = f
        /\ UNCHANGED <<watcher, out, compiled, written>>
    BY <1>a DEF Open, Report, Touch
  <2>2. e \in Event /\ e.kind = "modify" /\ \A g : About(e, g) <=> g = f
    BY OneFile
  <2> HIDE DEF e
  <2>3. /\ \A g \in File \ {f} : disk'[g] = disk[g] /\ touched'[g] = touched[g]
        /\ disk'[f] = 0 /\ touched'[f] = "written"
    BY <1>1, <2>1 DEF WatchTypes
  <2>4. OnlyTouched' /\ WrittenIsKept' /\ DeletedIsDropped'
    BY <1>1, <1>a, <2>1, <2>2, <2>3, Happens
  <2>5. written' \in Nat /\ disk' \in [File -> Nat \cup {Gone}] /\ author' \in File \cup {Gone}
        /\ touched' \in [File -> {"no", "written", "deleted", "renamed"}]
    BY <1>1, <2>1 DEF WatchTypes
  <2>6. QED
    BY <1>a, <1>x, <2>1, <2>2, <2>4, <2>5
<1>b. CASE Watches /\ Write
  <2> DEFINE e == [kind |-> "modify", paths |-> <<author>>]
  <2>0. author \in File /\ written + 1 \in Nat
    BY <1>1, <1>b DEF Write, WatchTypes
  <2>1. events' = Append(events, e) /\ disk' = [disk EXCEPT ![author] = written + 1]
        /\ touched' = [touched EXCEPT ![author] = "written"] /\ author' = Gone
        /\ UNCHANGED <<watcher, out, compiled>> /\ written' = written + 1
    BY <1>b DEF Write, Report, Touch
  <2>2. e \in Event /\ e.kind = "modify" /\ \A g : About(e, g) <=> g = author
    BY <2>0, OneFile
  <2> HIDE DEF e
  <2>3. /\ \A g \in File \ {author} : disk'[g] = disk[g] /\ touched'[g] = touched[g]
        /\ disk'[author] = written + 1 /\ touched'[author] = "written"
    BY <1>1, <2>0, <2>1 DEF WatchTypes
  <2>4. OnlyTouched' /\ WrittenIsKept' /\ DeletedIsDropped'
    BY <1>1, <1>b, <2>0, <2>1, <2>2, <2>3, Happens
  <2>5. written' \in Nat /\ disk' \in [File -> Nat \cup {Gone}] /\ author' \in File \cup {Gone}
        /\ touched' \in [File -> {"no", "written", "deleted", "renamed"}]
    BY <1>1, <2>0, <2>1 DEF WatchTypes
  <2>6. QED
    BY <1>b, <1>x, <2>1, <2>2, <2>4, <2>5
<1>c. CASE Watches /\ Delete(f)
  <2> DEFINE e == [kind |-> "remove", paths |-> <<f>>]
  <2>1. events' = Append(events, e) /\ disk' = [disk EXCEPT ![f] = Gone]
        /\ touched' = [touched EXCEPT ![f] = "deleted"] /\ author' = author
        /\ UNCHANGED <<watcher, out, compiled, written>>
    BY <1>c DEF Delete, Report, Touch
  <2>2. e \in Event /\ e.kind = "remove" /\ Len(e.paths) = 1 /\ \A g : About(e, g) <=> g = f
    BY OneFile
  <2> HIDE DEF e
  <2>3. /\ \A g \in File \ {f} : disk'[g] = disk[g] /\ touched'[g] = touched[g]
        /\ touched'[f] = "deleted"
    BY <1>1, <2>1 DEF WatchTypes
  <2>4. OnlyTouched' /\ WrittenIsKept' /\ DeletedIsDropped'
    BY <1>1, <1>c, <2>1, <2>2, <2>3, Happens
  <2>5. written' \in Nat /\ disk' \in [File -> Nat \cup {Gone}] /\ author' \in File \cup {Gone}
        /\ touched' \in [File -> {"no", "written", "deleted", "renamed"}]
    BY <1>1, <2>1 DEF WatchTypes
  <2>6. QED
    BY <1>c, <1>x, <2>1, <2>2, <2>4, <2>5
<1>d. ASSUME Watches, NEW g \in File, Rename(f, g) PROVE WatchInv'
  <2> DEFINE e == [kind |-> "modify", paths |-> <<f, g>>]
  <2>0. f # g /\ disk[f] \in Nat
    BY <1>1, <1>d DEF Rename, WatchTypes
  <2>1. events' = Append(events, e) /\ disk' = [disk EXCEPT ![g] = disk[f], ![f] = Gone]
        /\ touched' = [touched EXCEPT ![f] = "renamed", ![g] = "written"] /\ author' = author
        /\ UNCHANGED <<watcher, out, compiled, written>>
    BY <1>d DEF Rename, Report, Touch
  <2>2. e \in Event /\ e.kind = "modify" /\ \A h : About(e, h) <=> h \in {f, g}
    BY TwoFiles
  <2> HIDE DEF e
  <2>3. /\ \A h \in File \ {f, g} : disk'[h] = disk[h] /\ touched'[h] = touched[h]
        /\ touched'[f] = "renamed" /\ touched'[g] = "written" /\ disk'[g] = disk[f]
    BY <1>1, <2>0, <2>1 DEF WatchTypes
  <2>4. OnlyTouched' /\ WrittenIsKept' /\ DeletedIsDropped'
    <3>1. /\ \A h \in File : ~About(e, h) => disk'[h] = disk[h] /\ touched'[h] = touched[h]
          /\ \A h \in File : About(e, h) => touched'[h] \in {"renamed", "written"}
          /\ \A h \in File : About(e, h) /\ touched'[h] = "written" => disk'[h] \in Nat
      BY <2>0, <2>2, <2>3
    <3>2. /\ \A h \in File : About(e, h) => touched'[h] # "no"
          /\ \A h \in File : About(e, h) /\ touched'[h] = "written" => e.kind = "modify" /\ disk'[h] \in Nat
          /\ \A h \in File : About(e, h) /\ touched'[h] = "deleted" => e.kind = "remove"
      BY <2>2, <3>1
    <3>3. QED
      BY <1>d, <2>1, <2>2, <3>1, <3>2, Happens
  <2>5. written' \in Nat /\ disk' \in [File -> Nat \cup {Gone}] /\ author' \in File \cup {Gone}
        /\ touched' \in [File -> {"no", "written", "deleted", "renamed"}]
    BY <1>1, <2>0, <2>1 DEF WatchTypes
  <2>6. QED
    BY <1>d, <1>x, <2>1, <2>2, <2>4, <2>5
<1>e. QED
  BY <1>w, <1>a, <1>b, <1>c, <1>d

-----------------------------------------------------------------------------
(* The command.                                                            *)

\* Starting, scanning and setting up, and the end of the command, leave nothing
\* queued and nothing touched (cmd_watch before its loop).
LEMMA AroundTheLoop ==
    ASSUME WatchInv,
           StartWatch \/ ScanEnd \/ SetUp \/ Interrupt \/ \E f \in File : ScanFile(f)
    PROVE  WatchInv'
<1>1. WatchTypes /\ OnlyTouched
  BY DEF WatchInv
<1>2. UNCHANGED <<written, disk, author, out>>
  BY DEF StartWatch, ScanEnd, SetUp, Interrupt, ScanFile, authorVars
<1>3. events' = <<>> /\ touched' \in [File -> {"no", "written", "deleted", "renamed"}]
      /\ \A f \in File : touched'[f] = "no"
  <2>1. CASE Interrupt
    BY <2>1 DEF Interrupt
  <2>2. CASE StartWatch \/ ScanEnd \/ SetUp \/ \E f \in File : ScanFile(f)
    <3>1. ~Watches /\ events' = events /\ touched' = touched
      BY <2>2 DEF StartWatch, ScanEnd, SetUp, ScanFile, Watches
    <3>2. QED
      BY <1>1, <3>1 DEF OnlyTouched, WatchTypes
  <2>3. QED
    BY <2>1, <2>2
<1>4. /\ watcher' \in [at: {"off", "scan", "setup"} \cup Steps, todo: Seq(File),
                       path: File \cup {Gone}, read: Nat \cup {Gone} \cup SUBSET File]
      /\ watcher'.at \in {"off", "scan", "setup", "idle"}
      /\ watcher'.at = "scan" => watcher'.read \subseteq File
  <2>1. <<>> \in Seq(File)
    OBVIOUS
  <2>2. CASE Interrupt
    BY <2>1, <2>2 DEF Interrupt, Off
  <2>3. CASE StartWatch
    BY <2>1, <2>3 DEF StartWatch, Command
  <2>4. CASE ScanEnd \/ SetUp
    <3>1. CASE watcher' = Command("setup", <<>>, Gone, Gone)
      BY <2>1, <3>1 DEF Command
    <3>2. CASE watcher' = Command("idle", <<>>, Gone, Gone)
      BY <2>1, <3>2 DEF Command, Steps
    <3>3. QED
      BY <2>4, <3>1, <3>2 DEF ScanEnd, SetUp
  <2>5. ASSUME NEW f \in File, ScanFile(f)
        PROVE  /\ watcher' \in [at: {"off", "scan", "setup"} \cup Steps, todo: Seq(File),
                                path: File \cup {Gone}, read: Nat \cup {Gone} \cup SUBSET File]
               /\ watcher'.at \in {"off", "scan"}
               /\ watcher'.at = "scan" => watcher'.read \subseteq File
    <3>1. CASE watcher' = Off
      BY <2>1, <3>1 DEF Off
    <3>2. CASE watcher' = [watcher EXCEPT !.read = @ \ {f}] /\ watcher.at = "scan"
      BY <1>1, <3>2 DEF WatchTypes
    <3>3. QED
      BY <2>5, <3>1, <3>2 DEF ScanFile
  <2>6. QED
    BY <2>2, <2>3, <2>4, <2>5
<1>5. OnlyTouched' /\ WrittenIsKept' /\ DeletedIsDropped'
  <2>1. CASE ~Watches'
    BY <1>3, <2>1, Untouched
  <2>2. CASE Watches'
    <3>1. watcher'.at = "idle"
      BY <1>4, <2>2 DEF Watches
    <3>2. \A f \in File : ~Queued(events, f)' /\ ~Waits(f)' /\ ~Busy(f)'
      BY <1>3, <3>1 DEF Queued, Waits, Busy
    <3>3. QED
      BY <1>3, <2>2, <3>2 DEF OnlyTouched, WrittenIsKept, DeletedIsDropped
  <2>3. QED
    BY <2>1, <2>2
<1>6. QED
  <2>1. events' \in Seq(Event) /\ \A i \in DOMAIN events' : events'[i].kind = "remove" => Len(events'[i].paths) = 1
    BY <1>3
  <2>2. QED
    BY <1>1, <1>2, <1>3, <1>4, <1>5, <2>1 DEF WatchInv, WatchTypes

\* What every step of the loop leaves alone.
Outside == UNCHANGED <<disk, author, written, touched>>

\* What the loop does changes no file and no queue of the author's.
LEMMA LoopOutside ==
    ASSUME Loop
    PROVE  Outside /\ Watches /\ \A f : Alone(f)' = Alone(f)
BY DEF Loop, TakeEvent, ReadOnce, EventDone, WriteDoc, WriteMdoc, ReadAgain, Outside, Watches, Alone,
   authorVars

\* A step of the loop that takes no event keeps the invariant when what it did to
\* the files that are settled, or become so, is right.
LEMMA LoopKeeps ==
    ASSUME WatchInv, Outside, Watches, Watches', events' = events,
           \A f \in File : Waits(f)' \/ Busy(f)' => Waits(f) \/ Busy(f),
           \A f \in File : touched[f] = "written" /\ Settled(f)' =>
              /\ Busy(f)' =>
                    /\ watcher'.read = disk[f]
                    /\ Alone(f) /\ watcher'.at \in {"mdoc", "again"} => out'[Stem[f]].doc = disk[f]
                    /\ Alone(f) /\ watcher'.at = "again" => out'[Stem[f]].mdoc = disk[f]
              /\ ~Busy(f)' =>
                    /\ f \in DOMAIN compiled' /\ compiled'[f] = [text |-> disk[f], quality |-> disk[f]]
                    /\ Alone(f) => out'[Stem[f]].doc = disk[f] /\ out'[Stem[f]].mdoc = disk[f],
           \A f \in File : ~Busy(f) /\ f \notin DOMAIN compiled => f \notin DOMAIN compiled'
    PROVE  OnlyTouched' /\ WrittenIsKept' /\ DeletedIsDropped'
<1>1. \A f \in File : Queued(events, f)' = Queued(events, f) /\ Alone(f)' = Alone(f)
  BY DEF Queued, About, Alone, Outside
<1>2. OnlyTouched'
  BY <1>1 DEF OnlyTouched, WatchInv, Outside
<1>3. WrittenIsKept'
  <2> SUFFICES ASSUME NEW f \in File, touched'[f] = "written"
               PROVE  /\ disk'[f] \in Nat
                      /\ EndsIn(events', f, "modify")
                      /\ Settled(f)' /\ Busy(f)' =>
                            /\ watcher'.read = disk'[f]
                            /\ Alone(f)' /\ watcher'.at \in {"mdoc", "again"} => out'[Stem[f]].doc = disk'[f]
                            /\ Alone(f)' /\ watcher'.at = "again" => out'[Stem[f]].mdoc = disk'[f]
                      /\ Settled(f)' /\ ~Busy(f)' =>
                            /\ f \in DOMAIN compiled' /\ compiled'[f] = [text |-> disk'[f], quality |-> disk'[f]]
                            /\ Alone(f)' => out'[Stem[f]].doc = disk'[f] /\ out'[Stem[f]].mdoc = disk'[f]
    BY DEF WrittenIsKept, EndsIn, About
  <2>1. touched[f] = "written" /\ disk' = disk
    BY DEF Outside
  <2>2. disk[f] \in Nat /\ EndsIn(events, f, "modify")
    BY <2>1 DEF WatchInv, WrittenIsKept
  <2>3. QED
    BY <1>1, <2>1, <2>2
<1>4. DeletedIsDropped'
  <2> SUFFICES ASSUME NEW f \in File, touched'[f] = "deleted"
               PROVE  /\ EndsIn(events', f, "remove")
                      /\ ~Queued(events, f)' => ~Waits(f)' /\ ~Busy(f)' /\ f \notin DOMAIN compiled'
    BY DEF DeletedIsDropped, EndsIn, About
  <2>1. touched[f] = "deleted"
    BY DEF Outside
  <2>2. QED
    BY <1>1, <2>1 DEF WatchInv, DeletedIsDropped
<1>5. QED
  BY <1>2, <1>3, <1>4

\* Taking an event makes its files wait, or drops the entry of the file that is
\* gone (rx.recv in cmd_watch).
LEMMA TakeEventStep == ASSUME WatchInv, TakeEvent PROVE WatchInv'
<1>1. WatchTypes /\ Outside /\ Watches /\ (\A f : Alone(f)' = Alone(f)) /\ out' = out
      /\ watcher.at = "idle" /\ events # <<>> /\ events' = Tail(events)
  BY LoopOutside DEF WatchInv, Loop, TakeEvent
<1>2. events \in Seq(Event) /\ Head(events) \in Event /\ Tail(events) \in Seq(Event)
  BY <1>1, Taken DEF WatchTypes
<1>3. \A f \in File : /\ Queued(events, f)' <=> Queued(Tail(events), f)
                      /\ Queued(events, f) <=> About(Head(events), f) \/ Queued(Tail(events), f)
                      /\ ~Waits(f) /\ ~Busy(f)
  BY <1>1, <1>2, Taken DEF Queued, About, Waits, Busy
<1>4. events' \in Seq(Event) /\ \A i \in DOMAIN events' : events'[i].kind = "remove" => Len(events'[i].paths) = 1
  <2>1. \A i \in DOMAIN Tail(events) : i + 1 \in DOMAIN events /\ Tail(events)[i] = events[i + 1]
    BY <1>1, <1>2, HeadTailProperties, LenProperties
  <2>2. QED
    BY <1>1, <1>2, <2>1 DEF WatchTypes
<1>5. \A f \in File : touched[f] = "written" =>
         /\ disk[f] \in Nat /\ EndsIn(events, f, "modify") /\ EndsIn(Tail(events), f, "modify")
         /\ Head(events).kind = "remove" /\ About(Head(events), f) => Queued(Tail(events), f)
  BY <1>1, <1>2, Taken DEF WatchInv, WrittenIsKept
<1>6. \A f \in File : touched[f] = "deleted" =>
         /\ EndsIn(events, f, "remove") /\ EndsIn(Tail(events), f, "remove")
         /\ Head(events).kind = "modify" /\ About(Head(events), f) => Queued(Tail(events), f)
  BY <1>1, <1>2, Taken DEF WatchInv, DeletedIsDropped
<1>7. ASSUME NEW f \in File PROVE EndsIn(events', f, "modify") = EndsIn(events, f, "modify")'
                                   /\ EndsIn(events', f, "remove") = EndsIn(events, f, "remove")'
  BY DEF EndsIn, About
<1>a. CASE Head(events).kind = "remove"
  <2>1. /\ watcher' = watcher /\ compiled' = Discard(Head(events).paths[1])
    BY <1>1, <1>a DEF TakeEvent
  <2>2. \A f \in File : About(Head(events), f) <=> f = Head(events).paths[1]
    <3>1. Head(events) = events[1] /\ 1 \in DOMAIN events
      BY <1>1, <1>2, HeadTailProperties, LenProperties, EmptySeq
    <3>2. Len(Head(events).paths) = 1 /\ Head(events).paths \in Seq(File)
      BY <1>1, <1>2, <1>a, <3>1 DEF WatchTypes, Event
    <3>3. DOMAIN Head(events).paths = {1}
      BY <3>2
    <3>4. QED
      BY <3>3 DEF About
  <2>3. \A f \in File : Waits(f)' = Waits(f) /\ Busy(f)' = Busy(f)
    BY <2>1 DEF Waits, Busy
  <2>4. \A f \in File : /\ f \in DOMAIN compiled' <=> f \in DOMAIN compiled /\ ~About(Head(events), f)
                        /\ ~About(Head(events), f) /\ f \in DOMAIN compiled => compiled'[f] = compiled[f]
    BY <2>1, <2>2 DEF Discard
  <2>5. OnlyTouched'
    <3>1. Watches'
      BY <1>1, <2>1 DEF Watches
    <3>2. QED
      BY <1>1, <1>3, <2>3, <3>1 DEF WatchInv, OnlyTouched, Outside
  <2>6. ASSUME NEW f \in File, touched[f] = "written", Settled(f)'
        PROVE  /\ f \in DOMAIN compiled' /\ compiled'[f] = [text |-> disk[f], quality |-> disk[f]]
               /\ Alone(f) => out[Stem[f]].doc = disk[f] /\ out[Stem[f]].mdoc = disk[f]
    <3>1. ~Queued(Tail(events), f)
      BY <1>3, <2>6 DEF Settled
    <3>2. ~About(Head(events), f)
      BY <1>5, <1>a, <2>6, <3>1
    <3>3. Settled(f) /\ ~Busy(f)
      BY <1>3, <3>1, <3>2 DEF Settled
    <3>4. QED
      BY <2>4, <2>6, <3>2, <3>3 DEF WatchInv, WrittenIsKept
  <2>7. WrittenIsKept'
    BY <1>1, <1>3, <1>5, <1>7, <2>3, <2>6 DEF WrittenIsKept, Outside
  <2>8. ASSUME NEW f \in File, touched[f] = "deleted", ~Queued(Tail(events), f)
        PROVE  f \notin DOMAIN compiled'
    BY <1>3, <2>4, <2>8 DEF WatchInv, DeletedIsDropped
  <2>9. DeletedIsDropped'
    BY <1>1, <1>3, <1>6, <1>7, <2>3, <2>8 DEF DeletedIsDropped, Outside
  <2>10. QED
    BY <1>1, <1>4, <2>1, <2>5, <2>7, <2>9 DEF WatchInv, WatchTypes, Outside
<1>b. CASE Head(events).kind # "remove"
  <2>1. /\ watcher' = Command("next", Head(events).paths, Gone, Gone) /\ compiled' = compiled
        /\ Head(events).kind = "modify" /\ Head(events).paths \in Seq(File)
    BY <1>1, <1>2, <1>b DEF TakeEvent, Event
  <2>2. \A f \in File : (Waits(f)' <=> About(Head(events), f)) /\ ~Busy(f)'
    BY <2>1 DEF Waits, Busy, Command, About, Among
  <2>3. OnlyTouched'
    <3>1. Watches'
      BY <2>1 DEF Watches, Command
    <3>2. QED
      BY <1>1, <1>3, <2>2, <3>1 DEF WatchInv, OnlyTouched, Outside
  <2>4. ASSUME NEW f \in File, touched[f] = "written", Settled(f)'
        PROVE  /\ f \in DOMAIN compiled' /\ compiled'[f] = [text |-> disk[f], quality |-> disk[f]]
               /\ Alone(f) => out[Stem[f]].doc = disk[f] /\ out[Stem[f]].mdoc = disk[f]
    <3>1. Settled(f) /\ ~Busy(f)
      BY <1>3, <2>2, <2>4 DEF Settled
    <3>2. QED
      BY <2>1, <2>4, <3>1 DEF WatchInv, WrittenIsKept
  <2>5. WrittenIsKept'
    BY <1>1, <1>3, <1>5, <1>7, <2>2, <2>4 DEF WrittenIsKept, Outside
  <2>6. ASSUME NEW f \in File, touched[f] = "deleted", ~Queued(Tail(events), f)
        PROVE  f \notin DOMAIN compiled' /\ ~Waits(f)'
    BY <1>3, <1>6, <2>1, <2>2, <2>6 DEF WatchInv, DeletedIsDropped
  <2>7. DeletedIsDropped'
    BY <1>1, <1>3, <1>6, <1>7, <2>2, <2>6 DEF DeletedIsDropped, Outside
  <2>8. watcher' \in [at: {"off", "scan", "setup"} \cup Steps, todo: Seq(File),
                      path: File \cup {Gone}, read: Nat \cup {Gone} \cup SUBSET File]
        /\ watcher'.at = "next"
    BY <2>1 DEF Command, Steps
  <2>9. QED
    BY <1>1, <1>4, <2>3, <2>5, <2>7, <2>8 DEF WatchInv, WatchTypes, Outside
<1>c. QED
  BY <1>a, <1>b

\* The command's place and what it holds there.
LEMMA CommandType ==
    ASSUME NEW at \in Steps, NEW todo \in Seq(File), NEW f \in File \cup {Gone}, NEW read \in Nat \cup {Gone}
    PROVE  Command(at, todo, f, read) \in [at: {"off", "scan", "setup"} \cup Steps, todo: Seq(File),
                path: File \cup {Gone}, read: Nat \cup {Gone} \cup SUBSET File]
BY DEF Command

\* The steps of the loop that read, or are done with an event: what is read is
\* what is on the disk (compile_single).
LEMMA ReadStep == ASSUME WatchInv, ReadOnce \/ EventDone PROVE WatchInv'
<1>1. WatchTypes /\ Outside /\ Watches /\ (\A f : Alone(f)' = Alone(f))
      /\ UNCHANGED <<events, out, compiled>> /\ watcher.at = "next" /\ watcher.todo \in Seq(File)
      /\ Gone \notin Nat
  BY LoopOutside, WatchAssumption DEF WatchInv, WatchTypes, Loop, ReadOnce, EventDone
<1>2. \A f \in File : ~Busy(f)
  BY <1>1 DEF Busy
<1>3. \A f \in File : Queued(events, f)' = Queued(events, f)
  BY <1>1 DEF Queued, About
<1>a. CASE EventDone
  <2>1. watcher' = Command("idle", <<>>, Gone, Gone) /\ watcher.todo = <<>>
    BY <1>a DEF EventDone
  <2>2. \A f \in File : ~Waits(f) /\ ~Waits(f)' /\ ~Busy(f)' /\ Settled(f)' = Settled(f)
    BY <1>1, <1>3, <2>1 DEF Waits, Busy, Among, Command, Settled
  <2>3. Watches'
    BY <2>1 DEF Watches, Command
  <2>4. OnlyTouched' /\ WrittenIsKept' /\ DeletedIsDropped'
    <3>1. \A f \in File : touched[f] = "written" /\ Settled(f)' =>
              /\ f \in DOMAIN compiled' /\ compiled'[f] = [text |-> disk[f], quality |-> disk[f]]
              /\ Alone(f) => out'[Stem[f]].doc = disk[f] /\ out'[Stem[f]].mdoc = disk[f]
      BY <1>1, <1>2, <2>2 DEF WatchInv, WrittenIsKept
    <3>2. QED
      BY <1>1, <2>2, <2>3, <3>1, LoopKeeps
  <2>5. watcher' \in [at: {"off", "scan", "setup"} \cup Steps, todo: Seq(File),
                      path: File \cup {Gone}, read: Nat \cup {Gone} \cup SUBSET File]
        /\ watcher'.at = "idle"
    BY <2>1, CommandType DEF Command, Steps
  <2>6. QED
    BY <1>1, <2>4, <2>5 DEF WatchInv, WatchTypes, Outside
<1>b. CASE ReadOnce
  <2> DEFINE g == Head(watcher.todo)
  <2>1. watcher.todo # <<>>
        /\ watcher' = IF disk[g] = Gone THEN [watcher EXCEPT !.todo = Tail(@)]
                      ELSE Command("doc", Tail(watcher.todo), g, disk[g])
    BY <1>b DEF ReadOnce
  <2>2. g \in File /\ Tail(watcher.todo) \in Seq(File)
        /\ \A f : Among(f, watcher.todo) <=> f = g \/ Among(f, Tail(watcher.todo))
    BY <1>1, <2>1, NextPath
  <2> HIDE DEF g
  <2>a. CASE disk[g] = Gone
    <3>1. watcher' = [watcher EXCEPT !.todo = Tail(watcher.todo)]
      BY <2>1, <2>a
    <3>2. watcher'.at = "next" /\ watcher'.todo = Tail(watcher.todo)
          /\ watcher' \in [at: {"off", "scan", "setup"} \cup Steps, todo: Seq(File),
                           path: File \cup {Gone}, read: Nat \cup {Gone} \cup SUBSET File]
      BY <1>1, <2>2, <3>1 DEF WatchTypes
    <3>3. \A f \in File : (Waits(f) <=> f = g \/ Waits(f)') /\ ~Busy(f)'
      BY <1>1, <2>2, <3>2 DEF Waits, Busy
    <3>4. Watches'
      BY <3>2 DEF Watches
    <3>5. \A f \in File : touched[f] = "written" /\ Settled(f)' =>
              /\ f \in DOMAIN compiled' /\ compiled'[f] = [text |-> disk[f], quality |-> disk[f]]
              /\ Alone(f) => out'[Stem[f]].doc = disk[f] /\ out'[Stem[f]].mdoc = disk[f]
      <4> SUFFICES ASSUME NEW f \in File, touched[f] = "written", Settled(f)'
                   PROVE  /\ f \in DOMAIN compiled /\ compiled[f] = [text |-> disk[f], quality |-> disk[f]]
                          /\ Alone(f) => out[Stem[f]].doc = disk[f] /\ out[Stem[f]].mdoc = disk[f]
        BY <1>1
      <4>1. disk[f] \in Nat
        BY DEF WatchInv, WrittenIsKept
      <4>2. Settled(f)
        BY <1>1, <1>3, <2>a, <3>3, <4>1 DEF Settled
      <4>3. QED
        BY <1>2, <4>2 DEF WatchInv, WrittenIsKept
    <3>6. OnlyTouched' /\ WrittenIsKept' /\ DeletedIsDropped'
      BY <1>1, <3>3, <3>4, <3>5, LoopKeeps
    <3>7. QED
      BY <1>1, <3>2, <3>6 DEF WatchInv, WatchTypes, Outside
  <2>b. CASE disk[g] # Gone
    <3>1. watcher' = Command("doc", Tail(watcher.todo), g, disk[g]) /\ disk[g] \in Nat
      BY <1>1, <2>1, <2>2, <2>b DEF WatchTypes
    <3>2. watcher'.at = "doc" /\ watcher'.todo = Tail(watcher.todo) /\ watcher'.path = g
          /\ watcher'.read = disk[g]
      BY <3>1 DEF Command
    <3>3. \A f \in File : /\ Waits(f) <=> f = g \/ Waits(f)'
                          /\ Busy(f)' <=> f = g
      BY <1>1, <2>2, <3>2 DEF Waits, Busy
    <3>4. Watches'
      BY <3>2 DEF Watches
    <3>5. \A f \in File : touched[f] = "written" /\ Settled(f)' /\ f # g =>
              /\ f \in DOMAIN compiled' /\ compiled'[f] = [text |-> disk[f], quality |-> disk[f]]
              /\ Alone(f) => out'[Stem[f]].doc = disk[f] /\ out'[Stem[f]].mdoc = disk[f]
      <4> SUFFICES ASSUME NEW f \in File, touched[f] = "written", Settled(f)', f # g
                   PROVE  /\ f \in DOMAIN compiled /\ compiled[f] = [text |-> disk[f], quality |-> disk[f]]
                          /\ Alone(f) => out[Stem[f]].doc = disk[f] /\ out[Stem[f]].mdoc = disk[f]
        BY <1>1
      <4>1. Settled(f)
        BY <1>1, <1>3, <3>3 DEF Settled
      <4>2. QED
        BY <1>2, <4>1 DEF WatchInv, WrittenIsKept
    <3>6. OnlyTouched' /\ WrittenIsKept' /\ DeletedIsDropped'
      BY <1>1, <3>2, <3>3, <3>4, <3>5, LoopKeeps
    <3>7. watcher' \in [at: {"off", "scan", "setup"} \cup Steps, todo: Seq(File),
                        path: File \cup {Gone}, read: Nat \cup {Gone} \cup SUBSET File]
      BY <2>2, <3>1, CommandType DEF Steps
    <3>8. QED
      BY <1>1, <2>2, <3>1, <3>2, <3>6, <3>7 DEF WatchInv, WatchTypes, Outside
  <2>c. QED
    BY <2>a, <2>b
<1>c. QED
  BY <1>a, <1>b

\* Writing an output keeps the outputs of the files with other stems, and the
\* file at hand is on its way (compile_single).
LEMMA WriteOutStep == ASSUME WatchInv, WriteDoc \/ WriteMdoc PROVE WatchInv'
<1> DEFINE g == watcher.path
<1>1. WatchTypes /\ Outside /\ Watches /\ (\A f : Alone(f)' = Alone(f))
      /\ UNCHANGED <<events, compiled>> /\ watcher.at \in {"doc", "mdoc"}
      /\ g \in File /\ watcher.read \in Nat /\ Stem[g] \in Stems
  BY LoopOutside DEF WatchInv, WatchTypes, Loop, WriteDoc, WriteMdoc, Stems
<1>2. touched[g] # "no"
  BY <1>1 DEF WatchInv, OnlyTouched, Busy
<1>3. \A f \in File : Queued(events, f)' = Queued(events, f)
  BY <1>1 DEF Queued, About
<1>4. /\ watcher' = [watcher EXCEPT !.at = IF watcher.at = "doc" THEN "mdoc" ELSE "again"]
      /\ out' = IF watcher.at = "doc" THEN [out EXCEPT ![Stem[g]].doc = watcher.read]
                ELSE [out EXCEPT ![Stem[g]].mdoc = watcher.read]
  BY DEF WriteDoc, WriteMdoc
<1> HIDE DEF g
<1>5. /\ watcher'.at = (IF watcher.at = "doc" THEN "mdoc" ELSE "again")
      /\ watcher'.todo = watcher.todo /\ watcher'.path = g /\ watcher'.read = watcher.read
      /\ watcher' \in [at: {"off", "scan", "setup"} \cup Steps, todo: Seq(File),
                       path: File \cup {Gone}, read: Nat \cup {Gone} \cup SUBSET File]
  <2>1. (IF watcher.at = "doc" THEN "mdoc" ELSE "again") \in Steps
    BY DEF Steps
  <2>2. PICK a : a = IF watcher.at = "doc" THEN "mdoc" ELSE "again"
    OBVIOUS
  <2>3. watcher' = [watcher EXCEPT !.at = a] /\ a \in Steps
    BY <1>4, <2>1, <2>2
  <2>4. /\ watcher'.at = a /\ watcher'.todo = watcher.todo /\ watcher'.path = watcher.path
        /\ watcher'.read = watcher.read
        /\ watcher' \in [at: {"off", "scan", "setup"} \cup Steps, todo: Seq(File),
                         path: File \cup {Gone}, read: Nat \cup {Gone} \cup SUBSET File]
    BY <1>1, <2>3 DEF WatchTypes
  <2>5. QED
    BY <2>2, <2>4 DEF g
<1>6. /\ out' \in [Stems -> [doc: Nat \cup {Gone}, mdoc: Nat \cup {Gone}]]
      /\ \A s \in Stems \ {Stem[g]} : out'[s] = out[s]
      /\ watcher.at = "doc" => out'[Stem[g]].doc = watcher.read
      /\ watcher.at = "mdoc" => out'[Stem[g]].mdoc = watcher.read /\ out'[Stem[g]].doc = out[Stem[g]].doc
  BY <1>1, <1>4 DEF WatchTypes
<1>7. \A f \in File : /\ Waits(f)' = Waits(f) /\ Settled(f)' = Settled(f)
                      /\ Busy(f) <=> f = g
                      /\ Busy(f)' <=> f = g
  BY <1>1, <1>3, <1>5 DEF Waits, Busy, Settled, g
<1>8. Watches'
  BY <1>1, <1>5 DEF Watches
<1>9. ASSUME NEW f \in File, touched[f] = "written", Settled(f)
      PROVE  /\ f = g =>
                /\ watcher'.read = disk[f]
                /\ Alone(f) /\ watcher'.at \in {"mdoc", "again"} => out'[Stem[f]].doc = disk[f]
                /\ Alone(f) /\ watcher'.at = "again" => out'[Stem[f]].mdoc = disk[f]
             /\ f # g =>
                /\ f \in DOMAIN compiled' /\ compiled'[f] = [text |-> disk[f], quality |-> disk[f]]
                /\ Alone(f) => out'[Stem[f]].doc = disk[f] /\ out'[Stem[f]].mdoc = disk[f]
  <2>1. CASE f = g
    <3>1. /\ watcher.read = disk[f]
          /\ Alone(f) /\ watcher.at \in {"mdoc", "again"} => out[Stem[f]].doc = disk[f]
      BY <1>7, <1>9, <2>1 DEF WatchInv, WrittenIsKept
    <3>2. CASE watcher.at = "doc"
      BY <1>5, <1>6, <2>1, <3>1, <3>2
    <3>3. CASE watcher.at = "mdoc"
      BY <1>5, <1>6, <2>1, <3>1, <3>3
    <3>4. QED
      BY <1>1, <2>1, <3>2, <3>3
  <2>2. CASE f # g
    <3>1. /\ f \in DOMAIN compiled /\ compiled[f] = [text |-> disk[f], quality |-> disk[f]]
          /\ Alone(f) => out[Stem[f]].doc = disk[f] /\ out[Stem[f]].mdoc = disk[f]
      BY <1>7, <1>9, <2>2 DEF WatchInv, WrittenIsKept
    <3>2. Alone(f) => Stem[g] # Stem[f]
      BY <1>1, <1>2, <2>2 DEF Alone
    <3>3. Stem[f] \in Stems
      BY DEF Stems
    <3>4. QED
      BY <1>1, <1>6, <2>2, <3>1, <3>2, <3>3
  <2>3. QED
    BY <2>1, <2>2
<1>10. OnlyTouched' /\ WrittenIsKept' /\ DeletedIsDropped'
  BY <1>1, <1>7, <1>8, <1>9, LoopKeeps
<1>11. QED
  BY <1>1, <1>5, <1>6, <1>10 DEF WatchInv, WatchTypes, Outside

\* The second read puts the text that is on the disk by then under the path: if
\* nothing is queued, it is the text of the first read.
LEMMA ReadAgainStep == ASSUME WatchInv, ReadAgain PROVE WatchInv'
<1> DEFINE g == watcher.path
           text == IF disk[g] = Gone THEN 0 ELSE disk[g]
<1>1. WatchTypes /\ Outside /\ Watches /\ (\A f : Alone(f)' = Alone(f))
      /\ UNCHANGED <<events, out>> /\ watcher.at = "again"
      /\ g \in File /\ watcher.read \in Nat /\ watcher.todo \in Seq(File) /\ Gone \notin Nat
  BY LoopOutside, WatchAssumption DEF WatchInv, WatchTypes, Loop, ReadAgain
<1>2. /\ watcher' = Command("next", watcher.todo, Gone, Gone)
      /\ compiled' = Keep(g, [text |-> text, quality |-> watcher.read])
  BY DEF ReadAgain
<1>3. \A f \in File : Queued(events, f)' = Queued(events, f)
  BY <1>1 DEF Queued, About
<1>4. \A f \in File : /\ Waits(f)' = Waits(f) /\ Settled(f)' = Settled(f)
                      /\ Busy(f) <=> f = g
                      /\ ~Busy(f)'
  BY <1>1, <1>2, <1>3 DEF Waits, Busy, Settled, Command
<1>5. Watches'
  BY <1>2 DEF Watches, Command
<1>6. /\ g \in DOMAIN compiled' /\ compiled'[g] = [text |-> text, quality |-> watcher.read]
      /\ \A f \in File \ {g} : /\ f \in DOMAIN compiled' <=> f \in DOMAIN compiled
                               /\ f \in DOMAIN compiled => compiled'[f] = compiled[f]
  BY <1>2 DEF Keep
<1>7. ASSUME NEW f \in File, touched[f] = "written", Settled(f)
      PROVE  /\ f \in DOMAIN compiled' /\ compiled'[f] = [text |-> disk[f], quality |-> disk[f]]
             /\ Alone(f) => out'[Stem[f]].doc = disk[f] /\ out'[Stem[f]].mdoc = disk[f]
  <2>1. CASE f = g
    <3>1. /\ disk[f] \in Nat /\ watcher.read = disk[f]
          /\ Alone(f) => out[Stem[f]].doc = disk[f] /\ out[Stem[f]].mdoc = disk[f]
      BY <1>1, <1>4, <1>7, <2>1 DEF WatchInv, WrittenIsKept
    <3>2. QED
      BY <1>1, <1>6, <2>1, <3>1
  <2>2. CASE f # g
    <3>1. /\ f \in DOMAIN compiled /\ compiled[f] = [text |-> disk[f], quality |-> disk[f]]
          /\ Alone(f) => out[Stem[f]].doc = disk[f] /\ out[Stem[f]].mdoc = disk[f]
      BY <1>4, <1>7, <2>2 DEF WatchInv, WrittenIsKept
    <3>2. QED
      BY <1>1, <1>6, <2>2, <3>1
  <2>3. QED
    BY <2>1, <2>2
<1>8. \A f \in File : ~Busy(f) /\ f \notin DOMAIN compiled => f \notin DOMAIN compiled'
  BY <1>4, <1>6
<1>9. OnlyTouched' /\ WrittenIsKept' /\ DeletedIsDropped'
  BY <1>1, <1>4, <1>5, <1>7, <1>8, LoopKeeps
<1>10. watcher' \in [at: {"off", "scan", "setup"} \cup Steps, todo: Seq(File),
                     path: File \cup {Gone}, read: Nat \cup {Gone} \cup SUBSET File]
       /\ watcher'.at = "next"
  BY <1>1, <1>2, CommandType DEF Command, Steps
<1>11. QED
  BY <1>1, <1>9, <1>10 DEF WatchInv, WatchTypes, Outside

-----------------------------------------------------------------------------
\* The inductive invariant of the command holds whatever the author writes,
\* deletes or renames between any two of its steps, and whenever it is stopped
\* and started again (cmd_watch, compile_directory, compile_single).
THEOREM WatchInvariant == WatchSpec => []WatchInv
<1>1. WatchInit => WatchInv
  <2> SUFFICES ASSUME WatchInit PROVE WatchInv
    OBVIOUS
  <2>1. \A f \in File : ~Queued(events, f) /\ ~Waits(f) /\ ~Busy(f)
    BY DEF WatchInit, Off, Queued, Waits, Busy
  <2>2. OnlyTouched /\ WrittenIsKept /\ DeletedIsDropped
    BY <2>1 DEF WatchInit, OnlyTouched, WrittenIsKept, DeletedIsDropped
  <2>3. written \in Nat /\ disk \in [File -> Nat \cup {Gone}] /\ author \in File \cup {Gone}
        /\ out \in [Stems -> [doc: Nat \cup {Gone}, mdoc: Nat \cup {Gone}]]
    BY DEF WatchInit
  <2>4. /\ watcher \in [at: {"off", "scan", "setup"} \cup Steps, todo: Seq(File),
                        path: File \cup {Gone}, read: Nat \cup {Gone} \cup SUBSET File]
        /\ watcher.at = "off" /\ events = <<>>
        /\ touched \in [File -> {"no", "written", "deleted", "renamed"}]
    BY DEF WatchInit, Off
  <2>5. QED
    BY <2>2, <2>3, <2>4 DEF WatchInv, WatchTypes
<1>2. WatchInv /\ [WatchNext]_watchVars => WatchInv'
  <2> SUFFICES ASSUME WatchInv, [WatchNext]_watchVars PROVE WatchInv'
    OBVIOUS
  <2>1. CASE UNCHANGED watchVars
    <3>1. WatchTypes'
      BY <2>1 DEF watchVars, WatchInv, WatchTypes
    <3>2. OnlyTouched'
      BY <2>1 DEF watchVars, WatchInv, OnlyTouched, Watches, Queued, Waits, Busy, About, Among
    <3>3. WrittenIsKept'
      BY <2>1 DEF watchVars, WatchInv, WrittenIsKept, Settled, Queued, Waits, Busy, EndsIn, About, Among, Alone
    <3>4. DeletedIsDropped'
      BY <2>1 DEF watchVars, WatchInv, DeletedIsDropped, Queued, Waits, Busy, EndsIn, About, Among
    <3>5. QED
      BY <3>1, <3>2, <3>3, <3>4 DEF WatchInv
  <2>2. CASE Write
    <3>1. author \in File
      BY <2>2 DEF Write, WatchInv, WatchTypes
    <3>2. QED
      BY <2>2, <3>1, AuthorStep
  <2>3. CASE Loop
    BY <2>3, TakeEventStep, ReadStep, WriteOutStep, ReadAgainStep DEF Loop
  <2>4. CASE \E f \in File : ScanFile(f) \/ Open(f) \/ Delete(f) \/ \E g \in File : Rename(f, g)
    BY <2>4, AroundTheLoop, AuthorStep
  <2>5. CASE StartWatch \/ ScanEnd \/ SetUp \/ Interrupt
    BY <2>5, AroundTheLoop
  <2>6. QED
    BY <2>1, <2>2, <2>3, <2>4, <2>5 DEF WatchNext
<1>3. QED
  BY <1>1, <1>2, PTL DEF WatchSpec

\* When the loop has nothing left to do, every file written under it is compiled
\* as it stands, map and outputs: no change is lost between the two reads of an
\* event, whatever the author does meanwhile (cmd_watch, compile_single).
THEOREM QuietIsFresh == WatchSpec => []QuiescentFresh
<1>1. WatchInv => QuiescentFresh
  <2> SUFFICES ASSUME WatchInv, Quiet, NEW f \in File, touched[f] = "written"
               PROVE  /\ f \in DOMAIN compiled /\ compiled[f] = [text |-> disk[f], quality |-> disk[f]]
                      /\ Alone(f) => out[Stem[f]] = [doc |-> disk[f], mdoc |-> disk[f]]
    BY DEF QuiescentFresh
  <2>1. Settled(f) /\ ~Busy(f)
    BY DEF Quiet, Settled, Queued, Waits, Busy
  <2>2. out[Stem[f]] \in [doc: Nat \cup {Gone}, mdoc: Nat \cup {Gone}]
    BY DEF WatchInv, WatchTypes, Stems
  <2>3. QED
    BY <2>1, <2>2 DEF WatchInv, WrittenIsKept
<1>2. QED
  BY <1>1, WatchInvariant, PTL

\* An entry under a name is one that the scan made, of a text that it found, and the
\* scan's entries stay: the loop inserts and removes under paths only.
NamesAreScanned ==
    /\ scanned \in [File -> Nat \cup {Gone}]
    /\ \A f \in File :
          /\ (Name[f] \in DOMAIN compiled <=> FoundByScan(Name[f]) # {})
          /\ Name[f] \in DOMAIN compiled =>
                \E g \in FoundByScan(Name[f]) : compiled[Name[f]] = EntryOf(scanned[g])

\* The entries under names are left alone.
LEMMA NamesLeft ==
    ASSUME NamesAreScanned, scanned' = scanned,
           \A k : k \notin File => (k \in DOMAIN compiled' <=> k \in DOMAIN compiled),
           \A k : k \notin File /\ k \in DOMAIN compiled => compiled'[k] = compiled[k]
    PROVE  NamesAreScanned'
<1>1. \A f \in File : Name[f] \notin File /\ FoundByScan(Name[f])' = FoundByScan(Name[f])
  BY WatchAssumption DEF FoundByScan
<1>2. QED
  BY <1>1 DEF NamesAreScanned, EntryOf

\* Without entries nothing is scanned.
LEMMA NothingScanned ==
    ASSUME scanned' = Unscanned, DOMAIN compiled' = {}
    PROVE  NamesAreScanned'
<1>1. \A n : FoundByScan(n)' = {}
  BY DEF FoundByScan, Unscanned
<1>2. QED
  BY <1>1 DEF NamesAreScanned, Unscanned

\* Only the scan makes entries under names (compile_directory).
LEMMA ScanStep ==
    ASSUME WatchTypes, NamesAreScanned, NEW f \in File, ScanFile(f)
    PROVE  NamesAreScanned'
<1>1. CASE disk[f] = Gone
  <2>1. scanned' = Unscanned /\ DOMAIN compiled' = {}
    BY <1>1 DEF ScanFile
  <2>2. QED
    BY <2>1, NothingScanned
<1>2. CASE disk[f] # Gone
  <2>1. /\ scanned' = [scanned EXCEPT ![f] = disk[f]]
        /\ DOMAIN compiled' = DOMAIN compiled \cup {Name[f]}
        /\ \A k \in DOMAIN compiled' :
              compiled'[k] = IF k = Name[f] THEN EntryOf(disk[f]) ELSE compiled[k]
    BY <1>2 DEF ScanFile, EntryOf
  <2>2. scanned' \in [File -> Nat \cup {Gone}] /\ scanned'[f] = disk[f]
        /\ \A g \in File \ {f} : scanned'[g] = scanned[g]
    BY <2>1 DEF NamesAreScanned, WatchTypes
  <2>3. f \in FoundByScan(Name[f])'
    BY <1>2, <2>2 DEF FoundByScan
  <2>4. ASSUME NEW g \in File, Name[g] # Name[f] PROVE FoundByScan(Name[g])' = FoundByScan(Name[g])
    BY <2>2, <2>4 DEF FoundByScan
  <2>5. ASSUME NEW g \in File
        PROVE  /\ (Name[g] \in DOMAIN compiled' <=> FoundByScan(Name[g])' # {})
               /\ Name[g] \in DOMAIN compiled' =>
                     \E h \in FoundByScan(Name[g])' : compiled'[Name[g]] = EntryOf(scanned'[h])
    <3>1. CASE Name[g] = Name[f]
      <4>1. Name[g] \in DOMAIN compiled' /\ compiled'[Name[g]] = EntryOf(scanned'[f])
        BY <2>1, <2>2, <3>1
      <4>2. f \in FoundByScan(Name[g])'
        BY <2>3, <3>1
      <4>3. QED
        BY <4>1, <4>2
    <3>2. CASE Name[g] # Name[f]
      <4>1. /\ Name[g] \in DOMAIN compiled' <=> Name[g] \in DOMAIN compiled
            /\ Name[g] \in DOMAIN compiled => compiled'[Name[g]] = compiled[Name[g]]
        BY <2>1, <3>2
      <4>2. \A h \in FoundByScan(Name[g]) : scanned'[h] = scanned[h]
        BY <2>2, <3>2 DEF FoundByScan
      <4>3. QED
        BY <2>4, <3>2, <4>1, <4>2 DEF NamesAreScanned
    <3>3. QED
      BY <3>1, <3>2
  <2>6. QED
    BY <2>2, <2>5 DEF NamesAreScanned, EntryOf
<1>3. QED
  BY <1>1, <1>2

\* Every step keeps the scan's entries, or ends the command.
LEMMA NamesStep ==
    ASSUME WatchInv, NamesAreScanned, [WatchNext]_watchVars
    PROVE  NamesAreScanned'
<1>1. CASE UNCHANGED <<compiled, scanned>>
  BY <1>1, NamesLeft
<1>2. CASE TakeEvent
  <2>1. CASE Head(events).kind = "remove"
    <3>1. scanned' = scanned /\ compiled' = Discard(Head(events).paths[1]) /\ events # <<>>
      BY <1>2, <2>1 DEF TakeEvent
    <3>2. Head(events).paths[1] \in File
      <4>1. events \in Seq(Event) /\ Head(events) = events[1] /\ 1 \in DOMAIN events
        BY <3>1, HeadTailProperties, LenProperties, EmptySeq DEF WatchInv, WatchTypes
      <4>2. events[1] \in Event /\ Len(events[1].paths) = 1
        BY <2>1, <4>1, ElementOfSeq, LenProperties DEF WatchInv, WatchTypes
      <4>3. events[1].paths \in Seq(File)
        BY <4>2 DEF Event
      <4>4. QED
        BY <4>1, <4>2, <4>3, ElementOfSeq
    <3>3. QED
      BY <3>1, <3>2, NamesLeft DEF Discard
  <2>2. QED
    BY <1>1, <1>2, <2>1 DEF TakeEvent
<1>3. CASE ReadAgain
  <2>1. PICK entry : compiled' = Keep(watcher.path, entry)
    BY <1>3 DEF ReadAgain
  <2>2. watcher.path \in File /\ scanned' = scanned
    BY <1>3 DEF ReadAgain, WatchInv, WatchTypes
  <2>3. QED
    BY <2>1, <2>2, NamesLeft DEF Keep
<1>4. CASE Interrupt
  BY <1>4, NothingScanned DEF Interrupt
<1>5. CASE \E f \in File : ScanFile(f)
  BY <1>5, ScanStep DEF WatchInv
<1>6. CASE ReadOnce \/ EventDone \/ WriteDoc \/ WriteMdoc \/ StartWatch \/ ScanEnd \/ SetUp \/ Write
  BY <1>1, <1>6 DEF ReadOnce, EventDone, WriteDoc, WriteMdoc, StartWatch, ScanEnd, SetUp, Write
<1>7. CASE \E f \in File : Open(f) \/ Delete(f) \/ \E g \in File : Rename(f, g)
  BY <1>1, <1>7 DEF Open, Delete, Rename
<1>8. CASE UNCHANGED watchVars
  BY <1>1, <1>8 DEF watchVars
<1>9. QED
  BY <1>2, <1>3, <1>4, <1>5, <1>6, <1>7, <1>8 DEF WatchNext, Loop

\* ... and of a file deleted under it the map keeps the scan's entry, which is never
\* removed, and nothing else, even when the file went between the two reads
\* (cmd_watch, compile_directory).
THEOREM DeletedLeavesScan == WatchSpec => []DeletedLeavesItsScan
<1>1. WatchInit => NamesAreScanned
  <2> SUFFICES ASSUME WatchInit PROVE NamesAreScanned
    OBVIOUS
  <2>1. \A n : FoundByScan(n) = {}
    BY DEF WatchInit, FoundByScan, Unscanned
  <2>2. QED
    BY <2>1 DEF WatchInit, NamesAreScanned, Unscanned
<1>2. WatchInv /\ NamesAreScanned /\ [WatchNext]_watchVars => NamesAreScanned'
  BY NamesStep
<1>3. WatchInv /\ NamesAreScanned => DeletedLeavesItsScan
  BY DEF WatchInv, DeletedIsDropped, NamesAreScanned, DeletedLeavesItsScan, Quiet, Queued
<1>4. QED
  BY <1>1, <1>2, <1>3, WatchInvariant, PTL DEF WatchSpec

\* A text in a file, an output, an entry of the map or the hands of the command is one
\* that was written, and the map has no other keys than paths and names.
WrittenTexts ==
    /\ \A f \in File : disk[f] \in (0..written) \cup {Gone}
    /\ \A s \in Stems : out[s].doc \in (0..written) \cup {Gone} /\ out[s].mdoc \in (0..written) \cup {Gone}
    /\ watcher.at \in {"doc", "mdoc", "again"} => watcher.read \in 0..written
    /\ DOMAIN compiled \subseteq File \cup {Name[f] : f \in File}
    /\ \A k \in DOMAIN compiled : compiled[k].text \in 0..written /\ compiled[k].quality \in 0..written

\* The author numbers the texts one after the other.
LEMMA AuthorTexts ==
    ASSUME WatchInv, WrittenTexts,
           Write \/ \E f \in File : Open(f) \/ Delete(f) \/ \E g \in File : Rename(f, g)
    PROVE  WrittenTexts'
<1>1. /\ written \in Nat /\ disk \in [File -> Nat \cup {Gone}] /\ author \in File \cup {Gone}
      /\ 0 \in 0..written /\ 0..written \subseteq 0..(written + 1) /\ written + 1 \in 0..(written + 1)
  BY DEF WatchInv, WatchTypes
<1>2. UNCHANGED <<out, watcher, compiled>>
  BY DEF Write, Open, Delete, Rename
<1>3. /\ written' \in {written, written + 1}
      /\ \A f \in File : disk'[f] \in (0..written') \cup {Gone}
  <2>1. CASE Write
    BY <1>1, <2>1 DEF Write, WrittenTexts
  <2>2. ASSUME NEW f \in File, Open(f) \/ Delete(f) PROVE /\ written' \in {written, written + 1}
                      /\ \A h \in File : disk'[h] \in (0..written') \cup {Gone}
    BY <1>1, <2>2 DEF Open, Delete, WrittenTexts
  <2>3. ASSUME NEW f \in File, NEW g \in File, Rename(f, g) PROVE /\ written' \in {written, written + 1}
                      /\ \A h \in File : disk'[h] \in (0..written') \cup {Gone}
    BY <1>1, <2>3 DEF Rename, WrittenTexts
  <2>4. QED
    BY <2>1, <2>2, <2>3
<1>4. 0..written \subseteq 0..written'
  BY <1>1, <1>3
<1>5. QED
  BY <1>2, <1>3, <1>4 DEF WrittenTexts

\* The command copies texts that it has read.
LEMMA CommandTexts ==
    ASSUME WatchInv, WrittenTexts,
           Loop \/ StartWatch \/ ScanEnd \/ SetUp \/ Interrupt \/ \E f \in File : ScanFile(f)
    PROVE  WrittenTexts'
<1>1. /\ written \in Nat /\ 0 \in 0..written
      /\ disk' = disk /\ written' = written
      /\ out \in [Stems -> [doc: Nat \cup {Gone}, mdoc: Nat \cup {Gone}]]
      /\ watcher.at \in {"doc", "mdoc", "again"} => watcher.path \in File
  <2>1. disk' = disk /\ written' = written
    BY DEF Loop, TakeEvent, ReadOnce, EventDone, WriteDoc, WriteMdoc, ReadAgain,
           StartWatch, ScanEnd, SetUp, Interrupt, ScanFile, authorVars
  <2>2. QED
    BY <2>1 DEF WatchInv, WatchTypes
<1>2. ASSUME UNCHANGED <<out, compiled>>, watcher'.at \in {"doc", "mdoc", "again"} => watcher'.read \in 0..written
      PROVE  WrittenTexts'
  BY <1>1, <1>2 DEF WrittenTexts
<1>3. ASSUME UNCHANGED out, watcher'.at \notin {"doc", "mdoc", "again"},
             DOMAIN compiled' \subseteq File \cup {Name[f] : f \in File},
             \A k \in DOMAIN compiled' : compiled'[k].text \in 0..written /\ compiled'[k].quality \in 0..written
      PROVE  WrittenTexts'
  BY <1>1, <1>3 DEF WrittenTexts
<1>4. CASE TakeEvent
  <2>1. CASE Head(events).kind = "remove"
    <3>1. watcher' = watcher /\ watcher.at = "idle" /\ compiled' = Discard(Head(events).paths[1])
          /\ out' = out
      BY <1>4, <2>1 DEF TakeEvent
    <3>2. /\ DOMAIN compiled' \subseteq DOMAIN compiled
          /\ \A k \in DOMAIN compiled' : compiled'[k] = compiled[k]
      BY <3>1 DEF Discard
    <3>3. QED
      BY <1>3, <3>1, <3>2 DEF WrittenTexts
  <2>2. CASE Head(events).kind # "remove"
    BY <1>2, <1>4, <2>2 DEF TakeEvent, Command
  <2>3. QED
    BY <2>1, <2>2
<1>5. CASE ReadOnce
  <2> DEFINE g == Head(watcher.todo)
  <2>1. /\ watcher.at = "next" /\ watcher.todo # <<>> /\ UNCHANGED <<out, compiled>>
        /\ watcher' = IF disk[g] = Gone THEN [watcher EXCEPT !.todo = Tail(@)]
                      ELSE Command("doc", Tail(watcher.todo), g, disk[g])
    BY <1>5 DEF ReadOnce
  <2>2. watcher.todo \in Seq(File) /\ g \in File
    BY <2>1 DEF WatchInv, WatchTypes
  <2> HIDE DEF g
  <2>3. CASE disk[g] = Gone
    <3>1. watcher' = [watcher EXCEPT !.todo = Tail(watcher.todo)]
      BY <2>1, <2>3
    <3>2. watcher'.at = "next"
      BY <2>1, <3>1 DEF WatchInv, WatchTypes
    <3>3. QED
      BY <1>2, <2>1, <3>2
  <2>4. CASE disk[g] # Gone
    <3>1. watcher'.read = disk[g] /\ disk[g] \in 0..written
      BY <2>1, <2>2, <2>4 DEF Command, WrittenTexts
    <3>2. QED
      BY <1>2, <2>1, <3>1
  <2>5. QED
    BY <2>3, <2>4
<1>6. CASE WriteDoc \/ WriteMdoc
  <2>1. watcher.at \in {"doc", "mdoc"} /\ watcher.read \in 0..written /\ Stem[watcher.path] \in Stems
    BY <1>1, <1>6 DEF WriteDoc, WriteMdoc, WrittenTexts, Stems
  <2>2. PICK u \in Stems : u = Stem[watcher.path]
    BY <2>1
  <2>3. /\ \/ out' = [out EXCEPT ![u].doc = watcher.read]
           \/ out' = [out EXCEPT ![u].mdoc = watcher.read]
        /\ watcher'.read = watcher.read /\ compiled' = compiled
    BY <1>6, <2>2 DEF WriteDoc, WriteMdoc, WatchInv, WatchTypes
  <2>4. \A s \in Stems : out'[s].doc \in (0..written) \cup {Gone} /\ out'[s].mdoc \in (0..written) \cup {Gone}
    BY <1>1, <2>1, <2>3 DEF WrittenTexts
  <2>5. QED
    BY <1>1, <2>1, <2>3, <2>4 DEF WrittenTexts
<1>7. CASE ReadAgain
  <2>1. /\ watcher.path \in File /\ watcher.read \in 0..written /\ out' = out
        /\ watcher'.at = "next"
    BY <1>1, <1>7 DEF ReadAgain, Command, WrittenTexts
  <2>2. PICK text \in 0..written : compiled' = Keep(watcher.path, [text |-> text, quality |-> watcher.read])
    BY <1>1, <1>7, <2>1 DEF ReadAgain, WrittenTexts
  <2>3. /\ DOMAIN compiled' = DOMAIN compiled \cup {watcher.path}
        /\ \A k \in DOMAIN compiled' :
              compiled'[k] = IF k = watcher.path THEN [text |-> text, quality |-> watcher.read]
                             ELSE compiled[k]
    BY <2>2 DEF Keep
  <2>4. QED
    BY <1>3, <2>1, <2>3 DEF WrittenTexts
<1>8. ASSUME NEW f \in File, ScanFile(f) PROVE WrittenTexts'
  <2>1. watcher.at = "scan" /\ out' = out
    BY <1>8 DEF ScanFile
  <2>2. CASE disk[f] = Gone
    <3>1. watcher' = Off /\ DOMAIN compiled' = {}
      BY <1>8, <2>2 DEF ScanFile
    <3>2. QED
      BY <1>3, <2>1, <3>1 DEF Off
  <2>3. CASE disk[f] # Gone
    <3>1. /\ disk[f] \in 0..written
          /\ watcher' = [watcher EXCEPT !.read = @ \ {f}]
          /\ compiled' = [k \in DOMAIN compiled \cup {Name[f]} |->
                             IF k = Name[f] THEN [text |-> disk[f], quality |-> disk[f]] ELSE compiled[k]]
      BY <1>8, <2>3 DEF ScanFile, WrittenTexts
    <3>2. watcher'.at = "scan"
      BY <2>1, <3>1 DEF WatchInv, WatchTypes
    <3>3. /\ DOMAIN compiled' = DOMAIN compiled \cup {Name[f]}
          /\ \A k \in DOMAIN compiled' :
                compiled'[k] = IF k = Name[f] THEN [text |-> disk[f], quality |-> disk[f]] ELSE compiled[k]
      BY <3>1
    <3>4. QED
      BY <1>3, <2>1, <3>1, <3>2, <3>3 DEF WrittenTexts
  <2>4. QED
    BY <2>2, <2>3
<1>9. CASE Interrupt
  <2>1. watcher'.at = "off" /\ DOMAIN compiled' = {} /\ out' = out
    BY <1>9 DEF Interrupt, Off
  <2>2. QED
    BY <1>3, <2>1
<1>10. CASE EventDone \/ StartWatch \/ ScanEnd \/ SetUp
  BY <1>2, <1>10 DEF EventDone, StartWatch, ScanEnd, SetUp, Command
<1>11. QED
  BY <1>4, <1>5, <1>6, <1>7, <1>8, <1>9, <1>10 DEF Loop

\* The types of the command and its files; a text in an entry or an output is one that
\* was written (cmd_watch, compile_single).
THEOREM WatchTypeCorrect == WatchSpec => []WatchTypeOK
<1>1. WatchInit => WrittenTexts
  BY DEF WatchInit, WrittenTexts, Off
<1>2. WatchInv /\ WrittenTexts /\ [WatchNext]_watchVars => WrittenTexts'
  <2>1. ASSUME WrittenTexts, UNCHANGED watchVars PROVE WrittenTexts'
    BY <2>1 DEF watchVars, WrittenTexts
  <2>2. ASSUME WatchInv, WrittenTexts, WatchNext PROVE WrittenTexts'
    BY <2>2, AuthorTexts, CommandTexts DEF WatchNext
  <2>3. QED
    BY <2>1, <2>2
<1>3. WatchInv /\ WrittenTexts => WatchTypeOK
  <2> SUFFICES ASSUME WatchInv, WrittenTexts PROVE WatchTypeOK
    OBVIOUS
  <2>1. disk \in [File -> (0..written) \cup {Gone}]
    BY DEF WatchInv, WatchTypes, WrittenTexts
  <2>2. watcher.at \in {"off", "scan", "setup", "idle", "next", "doc", "mdoc", "again"}
    BY DEF WatchInv, WatchTypes, Steps
  <2>3. QED
    BY <2>1, <2>2 DEF WatchInv, WatchTypes, WrittenTexts, WatchTypeOK
<1>4. QED
  BY <1>1, <1>2, <1>3, WatchInvariant, PTL DEF WatchSpec
=============================================================================
