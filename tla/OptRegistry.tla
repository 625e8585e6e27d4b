---------------------------- MODULE OptRegistry -----------------------------
(***************************************************************************)
(* The registry of .opt domains (src/src/opt_resolver.rs), as the C        *)
(* interface (src/src/ffi.rs) and the native transport use it: a map under *)
(* a RwLock in each process, and a file that processes save it to and      *)
(* load it from.                                                           *)
(*                                                                         *)
(* A step is one critical section of the lock.  save_to_file holds the     *)
(* read lock from the snapshot to the end of fs::write, which truncates    *)
(* the file first and fills it after; nothing locks the file.              *)
(***************************************************************************)
EXTENDS Integers

CONSTANTS
    Process,   \* processes that have a registry
    Name,      \* names as callers spell them
    Lower,     \* trim and to_lowercase: the spelling that is the key
    OptName,   \* the spellings that end with ".opt"
    Core,      \* .core files
    BadText,   \* a null or non-UTF-8 argument of the C interface
    BadJson,   \* text that is no .core file
    MaxCount,  \* bound on resolve_count
    Absent,    \* no entry
    NoFile, Torn   \* no registry file; one that does not parse

ResolvedOpt == [core_file: Core, resolve_count: 0..MaxCount]
Registry == [Name -> ResolvedOpt \cup {Absent}]
Empty == [n \in Name |-> Absent]

ASSUME OptRegistryAssumption ==
    /\ MaxCount \in Nat
    /\ OptName \subseteq Name
    /\ Lower \in [Name -> Name]
    /\ \A n \in Name : /\ Lower[Lower[n]] = Lower[n]
                       /\ n \in OptName => Lower[n] \in OptName
    /\ Absent \notin ResolvedOpt
    /\ {BadText, BadJson} \cap (Name \cup Core) = {}
    /\ NoFile # Torn /\ {NoFile, Torn} \cap Registry = {}

VARIABLES
    registry,  \* OptResolver::registry of each process
    saving,    \* save_to_file: place, snapshot, whether another write overlaps
    file,      \* what the registry file holds
    cutShort   \* whether the last write of the file may have been spoilt

registryVars == <<registry, saving, file, cutShort>>

Saving == [pc: {"no", "open", "write"}, entries: Registry, overlap: BOOLEAN]
NotSaving == [pc |-> "no", entries |-> Empty, overlap |-> FALSE]

RegistryTypeOK ==
    /\ registry \in [Process -> Registry]
    /\ saving \in [Process -> Saving]
    /\ file \in Registry \cup {NoFile, Torn}
    /\ cutShort \in BOOLEAN

RegistryInit ==
    /\ registry = [p \in Process |-> Empty]
    /\ saving = [p \in Process |-> NotSaving]
    /\ file = NoFile
    /\ cutShort = FALSE

\* Mutant: the snapshot is taken under the lock, the file written without it.
WritableAlways(p) == TRUE

\* The write lock is free: no save of the process holds the read lock.
Writable(p) == saving[p].pc = "no"

Found(p, n) == registry[p][Lower[n]] # Absent

\* The codes of rfo_opt_register, rfo_opt_register_or_update, rfo_opt_unregister.
RegisterCode(p, n, c) ==
    CASE n = BadText -> -2
      [] n # BadText /\ c = BadText -> -3
      [] n # BadText /\ c = BadJson -> -4
      [] OTHER -> IF Lower[n] \notin OptName THEN -5 ELSE IF Found(p, n) THEN 1 ELSE 0
UpdateCode(p, n, c) ==
    LET code == RegisterCode(p, n, c) IN IF code = 1 THEN 0 ELSE code
UnregisterCode(p, n) == IF n = BadText THEN -2 ELSE IF Found(p, n) THEN 0 ELSE -3

\* Mutant: the entry is kept under the name as it was spelled.
PutAsSpelled(p, n, e) == registry' = [registry EXCEPT ![p][n] = e]

Put(p, n, e) == registry' = [registry EXCEPT ![p][Lower[n]] = e]

-----------------------------------------------------------------------------
Register(p, n, c) ==
    /\ Writable(p)
    /\ RegisterCode(p, n, c) = 0
    /\ Put(p, n, [core_file |-> c, resolve_count |-> 0])
    /\ UNCHANGED <<saving, file, cutShort>>

\* An update keeps the counter of the entry.
RegisterOrUpdate(p, n, c) ==
    /\ Writable(p)
    /\ UpdateCode(p, n, c) = 0
    /\ Put(p, n, IF Found(p, n)
                 THEN [registry[p][Lower[n]] EXCEPT !.core_file = c]
                 ELSE [core_file |-> c, resolve_count |-> 0])
    /\ UNCHANGED <<saving, file, cutShort>>

\* resolve and resolve_metadata take the write lock to count the call (the
\* count saturates at MaxCount).
Resolve(p, n) ==
    /\ Writable(p)
    /\ registry' = IF Found(p, n) /\ registry[p][Lower[n]].resolve_count < MaxCount
                   THEN [registry EXCEPT ![p][Lower[n]].resolve_count = @ + 1]
                   ELSE registry
    /\ UNCHANGED <<saving, file, cutShort>>

Unregister(p, n) ==
    /\ Writable(p)
    /\ UnregisterCode(p, n) = 0
    /\ Put(p, n, Absent)
    /\ UNCHANGED <<saving, file, cutShort>>

-----------------------------------------------------------------------------
\* Mutant: the file is opened before the registry is serialised.
SaveSnapshotOpens(p) ==
    /\ saving[p].pc = "no"
    /\ saving' = [saving EXCEPT ![p] =
                    [pc |-> "open", entries |-> registry[p], overlap |-> FALSE]]
    /\ file' = Torn
    /\ UNCHANGED <<registry, cutShort>>

\* save_to_file takes the read lock and the snapshot ...
SaveSnapshot(p) ==
    /\ saving[p].pc = "no"
    /\ saving' = [saving EXCEPT ![p] =
                    [pc |-> "open", entries |-> registry[p], overlap |-> FALSE]]
    /\ UNCHANGED <<registry, file, cutShort>>

Writing == {p \in Process : saving[p].pc = "write"}

\* ... fs::write opens and truncates the file, in the middle of whatever
\* other processes write ...
SaveTruncate(p) ==
    /\ saving[p].pc = "open"
    /\ file' = Torn
    /\ saving' = [q \in Process |->
          IF q = p THEN [saving[q] EXCEPT !.pc = "write", !.overlap = Writing # {}]
          ELSE IF q \in Writing THEN [saving[q] EXCEPT !.overlap = TRUE]
          ELSE saving[q]]
    /\ UNCHANGED <<registry, cutShort>>

\* ... and fills it; overlapping writes may leave a mixture.
SaveWrite(p) ==
    /\ saving[p].pc = "write"
    /\ \/ file' = saving[p].entries
       \/ saving[p].overlap /\ file' = Torn
    /\ cutShort' = saving[p].overlap
    /\ saving' = [saving EXCEPT ![p] = NotSaving]
    /\ UNCHANGED registry

\* fs::write fails, before or after it has truncated the file.
SaveFails(p) ==
    /\ saving[p].pc # "no"
    /\ cutShort' = (cutShort \/ saving[p].pc = "write")
    /\ saving' = [saving EXCEPT ![p] = NotSaving]
    /\ UNCHANGED <<registry, file>>

\* The process stops, in the middle of a save or not, and comes back empty.
Crash(p) ==
    /\ registry' = [registry EXCEPT ![p] = Empty]
    /\ saving' = [saving EXCEPT ![p] = NotSaving]
    /\ cutShort' = (cutShort \/ saving[p].pc = "write")
    /\ UNCHANGED file

\* load_from_file makes a new resolver; a file that does not parse is refused.
Load(p) ==
    /\ Writable(p) /\ registry[p] = Empty
    /\ file \in Registry
    /\ registry' = [registry EXCEPT ![p] = file]
    /\ UNCHANGED <<saving, file, cutShort>>

RegistryCalls(p) ==
    \/ \E n \in Name \cup {BadText}, c \in Core \cup {BadText, BadJson} :
          Register(p, n, c) \/ RegisterOrUpdate(p, n, c)
    \/ \E n \in Name \cup {BadText} : Unregister(p, n)
    \/ \E n \in Name : Resolve(p, n)

FileCalls(p) ==
    SaveSnapshot(p) \/ SaveTruncate(p) \/ SaveWrite(p) \/ SaveFails(p) \/ Load(p)

-----------------------------------------------------------------------------
(* Properties.                                                             *)

\* Whatever is in a registry can be found, resolved and unregistered by name,
\* in every spelling, and carries the suffix: what register, contains, list and
\* a snapshot rely on (cmd_opt resolves every listed key with unreachable!()).
KeysAreFound ==
    \A p \in Process, n \in Name :
        registry[p][n] # Absent => n \in OptName /\ Lower[n] = n

\* A save whose write was not disturbed leaves exactly the registry as it is at
\* that moment, calls and counters included: no call of the process falls
\* between the snapshot and the end of the write (save_to_file).
SavedIsCurrent ==
    [][\A p \in Process :
          /\ saving[p].pc = "write" /\ saving'[p].pc = "no"
          /\ file' # file /\ ~saving[p].overlap
          => file' = registry'[p]]_registryVars

\* The file is unreadable only while a save is under way, or after a save that
\* a crash, an error or another process cut short (save_to_file).
ReadableUnlessCutShort == file = Torn => cutShort \/ Writing # {}
=============================================================================
