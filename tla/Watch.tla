-------------------------------- MODULE Watch --------------------------------
(***************************************************************************)
(* `rfo watch` (src/src/cli.rs): an initial scan, then a loop over the     *)
(* events of the file system, beside an author who writes, deletes and     *)
(* renames files.  A file on its way to its new text is empty for a while. *)
(* Texts are numbered in the order in which they are written; 0 is empty.  *)
(***************************************************************************)
EXTENDS Integers, Sequences, FiniteSets, SequencesExt

CONSTANTS
    File,        \* compilable paths under the directory
    Name,        \* file_name of a path: the keys of the scan
    Stem,        \* file_stem of a path: the names of the outputs
    Gone,        \* no file, no output, no entry
    MaxWrites,   \* bound on the texts written
    MaxMoves,    \* bound on deletions and renames
    MaxStarts    \* bound on the starts of the command

ASSUME WatchAssumption ==
    /\ Name \in [File -> STRING] /\ Stem \in [File -> STRING]
    /\ \A f \in File : Name[f] \notin File      \* a path has the directory before its name
    /\ Gone \notin Nat \cup File
    /\ MaxWrites \in Nat /\ MaxMoves \in Nat /\ MaxStarts \in Nat

Stems == {Stem[f] : f \in File}
Texts == 0..MaxWrites

VARIABLES
    disk,      \* the files
    author,    \* the file the author is writing, or Gone
    written, moves, starts,   \* counters, for the bounds
    out,       \* the outputs by stem: .doc.json and .mdoc.json
    watcher,   \* the command: at, its event's other paths, its path, its first read
    events,    \* the channel from notify
    compiled,  \* the map of the command: by name or by path, [text, quality]
    touched,   \* files whose events the running command was to see: how they went
    scanned    \* files that its scan read: the text it found

watchVars == <<disk, author, written, moves, starts, out, watcher, events, compiled, touched, scanned>>
authorVars == <<author, written, moves>>

Off == [at |-> "off", todo |-> <<>>, path |-> Gone, read |-> Gone]
Unscanned == [f \in File |-> Gone]
Watches == watcher.at \notin {"off", "scan", "setup"}

-----------------------------------------------------------------------------
(* The command.                                                            *)

Command(at, todo, path, read) == [at |-> at, todo |-> todo, path |-> path, read |-> read]

StartWatch ==
    /\ watcher.at = "off" /\ starts < MaxStarts
    /\ starts' = starts + 1
    /\ watcher' = Command("scan", <<>>, Gone, {f \in File : disk[f] # Gone})
    /\ UNCHANGED <<disk, out, events, compiled, touched, scanned>> /\ UNCHANGED authorVars

\* compile_directory: read, compile, keep under the name.  Nothing is written,
\* and a file that is gone since it was listed ends the command.
ScanFile(f) ==
    /\ watcher.at = "scan" /\ f \in watcher.read
    /\ IF disk[f] = Gone
       THEN watcher' = Off /\ compiled' = [k \in {} |-> Gone] /\ scanned' = Unscanned
       ELSE /\ watcher' = [watcher EXCEPT !.read = @ \ {f}]
            /\ scanned' = [scanned EXCEPT ![f] = disk[f]]
            /\ compiled' = [k \in DOMAIN compiled \cup {Name[f]} |->
                              IF k = Name[f] THEN [text |-> disk[f], quality |-> disk[f]]
                              ELSE compiled[k]]
    /\ UNCHANGED <<disk, starts, out, events, touched>> /\ UNCHANGED authorVars

ScanEnd ==
    /\ watcher.at = "scan" /\ watcher.read = {}
    /\ watcher' = Command("setup", <<>>, Gone, Gone)
    /\ UNCHANGED <<disk, starts, out, events, compiled, touched, scanned>> /\ UNCHANGED authorVars

\* watcher.watch(dir): events from now on.
SetUp ==
    /\ watcher.at = "setup"
    /\ watcher' = Command("idle", <<>>, Gone, Gone)
    /\ UNCHANGED <<disk, starts, out, events, compiled, touched, scanned>> /\ UNCHANGED authorVars

Keep(k, entry) == [j \in DOMAIN compiled \cup {k} |-> IF j = k THEN entry ELSE compiled[j]]

\* Mutant: removed under the name, inserted under the path.
DiscardByName(k) == [j \in DOMAIN compiled \ {Name[k]} |-> compiled[j]]

Discard(k) == [j \in DOMAIN compiled \ {k} |-> compiled[j]]

\* rx.recv(): a removal takes its path's entry; it leaves the outputs.
TakeEvent ==
    /\ watcher.at = "idle" /\ events # <<>>
    /\ events' = Tail(events)
    /\ IF Head(events).kind = "remove"
       THEN /\ compiled' = Discard(Head(events).paths[1])
            /\ UNCHANGED watcher
       ELSE /\ watcher' = Command("next", Head(events).paths, Gone, Gone)
            /\ UNCHANGED compiled
    /\ UNCHANGED <<disk, starts, out, touched, scanned>> /\ UNCHANGED authorVars

\* compile_single reads the next path of the event, or fails: the loop goes on.
ReadOnce ==
    /\ watcher.at = "next" /\ watcher.todo # <<>>
    /\ LET f == Head(watcher.todo) IN
       watcher' = IF disk[f] = Gone THEN [watcher EXCEPT !.todo = Tail(@)]
                  ELSE Command("doc", Tail(watcher.todo), f, disk[f])
    /\ UNCHANGED <<disk, starts, out, events, compiled, touched, scanned>> /\ UNCHANGED authorVars

EventDone ==
    /\ watcher.at = "next" /\ watcher.todo = <<>>
    /\ watcher' = Command("idle", <<>>, Gone, Gone)
    /\ UNCHANGED <<disk, starts, out, events, compiled, touched, scanned>> /\ UNCHANGED authorVars

WriteDoc ==
    /\ watcher.at = "doc"
    /\ out' = [out EXCEPT ![Stem[watcher.path]].doc = watcher.read]
    /\ watcher' = [watcher EXCEPT !.at = "mdoc"]
    /\ UNCHANGED <<disk, starts, events, compiled, touched, scanned>> /\ UNCHANGED authorVars

\* Mutant: the .mdoc is only written once.
WriteMdocOnce ==
    /\ watcher.at = "mdoc"
    /\ out' = [out EXCEPT ![Stem[watcher.path]].mdoc = IF @ = Gone THEN watcher.read ELSE @]
    /\ watcher' = [watcher EXCEPT !.at = "again"]
    /\ UNCHANGED <<disk, starts, events, compiled, touched, scanned>> /\ UNCHANGED authorVars

WriteMdoc ==
    /\ watcher.at = "mdoc"
    /\ out' = [out EXCEPT ![Stem[watcher.path]].mdoc = watcher.read]
    /\ watcher' = [watcher EXCEPT !.at = "again"]
    /\ UNCHANGED <<disk, starts, events, compiled, touched, scanned>> /\ UNCHANGED authorVars

\* Mutant: the entry is only made, never replaced.
ReadTwiceOnce ==
    /\ watcher.at = "again"
    /\ compiled' = IF watcher.path \in DOMAIN compiled THEN compiled
                   ELSE Keep(watcher.path, [text |-> disk[watcher.path], quality |-> watcher.read])
    /\ watcher' = Command("next", watcher.todo, Gone, Gone)
    /\ UNCHANGED <<disk, starts, out, events, touched, scanned>> /\ UNCHANGED authorVars

\* The second read, with unwrap_or_default: its texts, the quality of the first.
ReadAgain ==
    /\ watcher.at = "again"
    /\ compiled' = Keep(watcher.path,
                        [text |-> IF disk[watcher.path] = Gone THEN 0 ELSE disk[watcher.path],
                         quality |-> watcher.read])
    /\ watcher' = Command("next", watcher.todo, Gone, Gone)
    /\ UNCHANGED <<disk, starts, out, events, touched, scanned>> /\ UNCHANGED authorVars

\* The command is stopped, at any moment; its outputs stay.
Interrupt ==
    /\ watcher.at # "off"
    /\ watcher' = Off /\ events' = <<>> /\ compiled' = [k \in {} |-> Gone]
    /\ touched' = [f \in File |-> "no"]
    /\ scanned' = Unscanned
    /\ UNCHANGED <<disk, starts, out>> /\ UNCHANGED authorVars

-----------------------------------------------------------------------------
(* External: the author, and notify, which reports what happens to a       *)
(* watched directory in its order.                                         *)

Report(kind, paths) ==
    events' = IF Watches THEN Append(events, [kind |-> kind, paths |-> paths]) ELSE events
Touch(how) == touched' = IF Watches THEN how ELSE touched

\* Opening for writing creates or empties the file ...
Open(f) ==
    /\ author = Gone /\ written < MaxWrites
    /\ author' = f /\ disk' = [disk EXCEPT ![f] = 0]
    /\ Report("modify", <<f>>) /\ Touch([touched EXCEPT ![f] = "written"])
    /\ UNCHANGED <<written, moves, starts, out, watcher, compiled, scanned>>

\* ... and then the text comes.
Write ==
    /\ author # Gone
    /\ author' = Gone /\ written' = written + 1
    /\ disk' = [disk EXCEPT ![author] = written + 1]
    /\ Report("modify", <<author>>) /\ Touch([touched EXCEPT ![author] = "written"])
    /\ UNCHANGED <<moves, starts, out, watcher, compiled, scanned>>

Delete(f) ==
    /\ author = Gone /\ disk[f] # Gone /\ moves < MaxMoves
    /\ moves' = moves + 1 /\ disk' = [disk EXCEPT ![f] = Gone]
    /\ Report("remove", <<f>>) /\ Touch([touched EXCEPT ![f] = "deleted"])
    /\ UNCHANGED <<author, written, starts, out, watcher, compiled, scanned>>

\* A rename is a modification of both paths.
Rename(f, g) ==
    /\ author = Gone /\ f # g /\ disk[f] # Gone /\ moves < MaxMoves
    /\ moves' = moves + 1 /\ disk' = [disk EXCEPT ![g] = disk[f], ![f] = Gone]
    /\ Report("modify", <<f, g>>) /\ Touch([touched EXCEPT ![f] = "renamed", ![g] = "written"])
    /\ UNCHANGED <<author, written, starts, out, watcher, compiled, scanned>>

-----------------------------------------------------------------------------
WatchInit ==
    /\ disk \in [File -> {0, Gone}]
    /\ author = Gone /\ written = 0 /\ moves = 0 /\ starts = 0
    /\ out = [s \in Stems |-> [doc |-> Gone, mdoc |-> Gone]]
    /\ watcher = Off /\ events = <<>> /\ compiled = [k \in {} |-> Gone]
    /\ touched = [f \in File |-> "no"] /\ scanned = Unscanned

Loop == TakeEvent \/ ReadOnce \/ EventDone \/ WriteDoc \/ WriteMdoc \/ ReadAgain

WatchNext ==
    \/ StartWatch \/ ScanEnd \/ SetUp \/ Loop \/ Interrupt \/ Write
    \/ \E f \in File : ScanFile(f) \/ Open(f) \/ Delete(f) \/ \E g \in File : Rename(f, g)

\* The loop takes every event and goes on.
WatchFairness == WF_watchVars(Loop)

WatchSpec == WatchInit /\ [][WatchNext]_watchVars /\ WatchFairness

-----------------------------------------------------------------------------
(* Properties.                                                             *)

Alone(f) == \A g \in File \ {f} : Stem[g] = Stem[f] => touched[g] = "no"
Quiet == watcher.at = "idle" /\ events = <<>>

\* The command and its files are of their types; a text in an entry or an output
\* is one that was written (cmd_watch, compile_single).
WatchTypeOK ==
    /\ disk \in [File -> (0..written) \cup {Gone}]
    /\ author \in File \cup {Gone}
    /\ \A s \in Stems : out[s].doc \in (0..written) \cup {Gone} /\ out[s].mdoc \in (0..written) \cup {Gone}
    /\ watcher.at \in {"off", "scan", "setup", "idle", "next", "doc", "mdoc", "again"}
    /\ DOMAIN compiled \subseteq File \cup {Name[f] : f \in File}
    /\ \A k \in DOMAIN compiled : compiled[k].text \in 0..written /\ compiled[k].quality \in 0..written
    /\ touched \in [File -> {"no", "written", "deleted", "renamed"}]

\* When the loop has nothing left to do, what changed under it is compiled as it
\* stands: the entry under its path, with its quality, and both outputs are of the
\* last text, although each event is read twice and a read may find a file that is
\* being written.  The scan's entry, under the name, is outside this.
QuiescentFresh ==
    Quiet => \A f \in File : touched[f] = "written" =>
        /\ f \in DOMAIN compiled /\ compiled[f] = [text |-> disk[f], quality |-> disk[f]]
        /\ Alone(f) => out[Stem[f]] = [doc |-> disk[f], mdoc |-> disk[f]]

FoundByScan(n) == {g \in File : Name[g] = n /\ scanned[g] # Gone}
EntryOf(text) == [text |-> text, quality |-> text]

\* ... and of a deleted file the map keeps what the scan put there and nothing else,
\* even if it was deleted between the reads: no entry under its path, and under its
\* name one of a text that the scan found, whatever was written since.  That one is
\* never removed: the loop removes by path what the scan inserted by name.  (A
\* renamed file keeps both: the loop only removes on Remove events.)
DeletedLeavesItsScan ==
    Quiet => \A f \in File : touched[f] = "deleted" =>
        /\ f \notin DOMAIN compiled
        /\ (Name[f] \in DOMAIN compiled <=> FoundByScan(Name[f]) # {})
        /\ Name[f] \in DOMAIN compiled =>
              \E g \in FoundByScan(Name[f]) : compiled[Name[f]] = EntryOf(scanned[g])

\* A text that is written under the command reaches both outputs, unless it is
\* overtaken by another or the command is interrupted (cmd_watch).
ChangeGetsOut ==
    \A f \in File : \A v \in Texts :
        (Watches /\ touched[f] = "written" /\ disk[f] = v /\ Alone(f)) ~>
            \/ out[Stem[f]] = [doc |-> v, mdoc |-> v]
            \/ ~Watches \/ disk[f] # v \/ ~Alone(f)
=============================================================================
