----------------------------- MODULE CallsProofs ----------------------------
(***************************************************************************)
(* What is proved of what a caller of an engine meets.                     *)
(*                                                                         *)
(* The registry of .opt domains, its file and the native transport: for    *)
(* any names, processes that share the file and connections, any order of  *)
(* calls, saves, crashes and dropped calls.  The frames of the binary      *)
(* format and their readers, for any payload.  And RfoClient, for every    *)
(* batch, retry configuration, timeout and window, with answers that are   *)
(* lost, late, failures or cut off, and a server that works on requests    *)
(* their client has given up.                                              *)
(***************************************************************************)
EXTENDS Transport, BinaryStream, Client, SequenceTheorems, FiniteSetTheorems, TLAPS

-----------------------------------------------------------------------------
(* The registry and its transport.                                         *)

\* What the induction adds to the types of the connections: they are streams.
StreamsOfFrames ==
    /\ requests \in [Client -> Seq(Request)]
    /\ answers \in [Client -> Seq(Answer \cup {Torn})]

Types == TypeOK /\ StreamsOfFrames

\* Every entry of a registry is under the key that finds it.
UnderItsKey(r) == \A n \in Name : r[n] # Absent => n \in OptName /\ Lower[n] = n

\* A registry, what is being saved of it and what is in the file are all keyed
\* so: a load makes a registry of the file.
KeyedEverywhere ==
    /\ \A p \in Process : UnderItsKey(registry[p]) /\ UnderItsKey(saving[p].entries)
    /\ file \in Registry => UnderItsKey(file)

\* No call changes a registry that is being saved (the read lock of save_to_file).
SnapshotHolds == \A p \in Process : saving[p].pc # "no" => saving[p].entries = registry[p]

RegistryInv == KeyedEverywhere /\ SnapshotHolds /\ ReadableUnlessCutShort

\* The frame that answers a request, with a .core file the name had meanwhile.
Answers(a, q, cores) ==
    /\ a.name = q.name
    /\ (a.kind = "handshake") = (q.kind = "handshake")
    /\ a.kind = "core_file" => a.core \in cores

\* A connection none of whose calls was dropped: its stream is spoilt by a payload the
\* client refused, or carries the request of the call, or its answer, or nothing.
Paired(c) ==
    \/ answers[c] = <<Torn>>
    \/ answers[c] = <<>> /\ requests[c] = <<>>
    \/ answers[c] = <<>> /\ requests[c] = <<call[c]>> /\ call[c] # NoCall
    \/ /\ requests[c] = <<>> /\ call[c] # NoCall
       /\ \E a \in Answer : answers[c] = <<a>> /\ Answers(a, call[c], seen[c])

\* What a call may be answered with is among what it has seen.
SeesCurrent(c) == call[c] # NoCall => CoreOf(call[c].name) \subseteq seen[c]

\* No request waits where nobody reads.
NoneUnread(c) == ~alive[c] => requests[c] = <<>>

WireInv ==
    \A c \in Client :
        /\ SeesCurrent(c) /\ NoneUnread(c)
        /\ dropped[c] = NoneDropped => Paired(c)

IInv == Types /\ RegistryInv /\ WireInv

-----------------------------------------------------------------------------
(* The registry and its file.                                              *)

\* The steps of the registry, whatever the connections do.
RegistryStep ==
    \/ \E p \in Process : RegistryCalls(p) \/ FileCalls(p) \/ Crash(p)
    \/ \E n \in Name : Resolve(Server, n)
    \/ UNCHANGED registryVars

\* Every step of the transport is one of them.
LEMMA StepsOfRegistry == Types /\ [Next]_vars => RegistryStep
<1> SUFFICES ASSUME Types, [Next]_vars PROVE RegistryStep
  OBVIOUS
<1>1. ASSUME NEW c \in Client,
             (\E q \in Question : Ask(c, q)) \/ Drop(c) \/ DropInWrite(c) \/ Connect(c)
               \/ ServeTorn(c) \/ Receive(c) \/ ReceiveEnd(c)
      PROVE  RegistryStep
  BY <1>1 DEF Ask, Drop, DropInWrite, Connect, ServeTorn, Receive, ReceiveEnd, RegistryStep
<1>2. ASSUME NEW c \in Client, Serve(c) PROVE RegistryStep
  <2>1. Head(requests[c]) \in Question
    <3>1. requests[c] \in Seq(Request) /\ requests[c] # <<>>
      BY <1>2 DEF Types, StreamsOfFrames, Serve
    <3>2. Head(requests[c]) \in Request /\ Head(requests[c]) # Torn
      BY <1>2, <3>1, HeadTailProperties DEF Serve
    <3> QED
      BY <3>2 DEF Request
  <2> QED
    BY <1>2, <2>1 DEF Serve, RegistryStep, Question
<1>3. ASSUME NEW p \in Process, Stop(p) \/ Others(p) PROVE RegistryStep
  BY <1>3 DEF Stop, Others, RegistryStep
<1>4. ASSUME UNCHANGED vars PROVE RegistryStep
  BY <1>4 DEF vars, RegistryStep
<1> QED
  BY <1>1, <1>2, <1>3, <1>4 DEF Next

\* Putting an entry, or none, under a name's key keeps a registry one.
LEMMA PutType ==
    ASSUME RegistryTypeOK, NEW p \in Process, NEW n \in Name,
           NEW e \in ResolvedOpt \cup {Absent}, Put(p, n, e)
    PROVE  registry' \in [Process -> Registry]
BY OptRegistryAssumption DEF RegistryTypeOK, Registry, Put

\* The entries that the calls put are entries.
LEMMA EntryTypes ==
    /\ \A c \in Core : [core_file |-> c, resolve_count |-> 0] \in ResolvedOpt
    /\ \A e \in ResolvedOpt : /\ \A c \in Core : [e EXCEPT !.core_file = c] \in ResolvedOpt
                              /\ e.core_file \in Core
                              /\ e.resolve_count < MaxCount =>
                                   [e EXCEPT !.resolve_count = @ + 1] \in ResolvedOpt
BY OptRegistryAssumption DEF ResolvedOpt

\* What the call that succeeds was given: a name with the suffix and a .core file.
LEMMA Accepted ==
    ASSUME NEW p, NEW n \in Name \cup {BadText}, NEW c \in Core \cup {BadText, BadJson},
           RegisterCode(p, n, c) \in {0, 1}
    PROVE  n \in Name /\ c \in Core /\ Lower[n] \in OptName
BY OptRegistryAssumption DEF RegisterCode

\* A call of the registry puts one entry, under the key of a name that has the suffix,
\* while nothing is saved, or removes or counts one.
LEMMA CallsPut ==
    ASSUME RegistryTypeOK, NEW p \in Process,
           RegistryCalls(p) \/ \E n \in Name : Resolve(p, n)
    PROVE  /\ saving[p].pc = "no" /\ UNCHANGED <<saving, file, cutShort>>
           /\ \/ UNCHANGED registry
              \/ \E n \in Name, e \in ResolvedOpt \cup {Absent} :
                    /\ Put(p, n, e)
                    /\ e # Absent => Lower[n] \in OptName \/ Found(p, n)
<1>1. ASSUME NEW n \in Name \cup {BadText}, NEW c \in Core \cup {BadText, BadJson},
             Register(p, n, c)
      PROVE  \E m \in Name, e \in ResolvedOpt \cup {Absent} :
                Put(p, m, e) /\ (e # Absent => Lower[m] \in OptName \/ Found(p, m))
  BY <1>1, Accepted, EntryTypes DEF Register
<1>2. ASSUME NEW n \in Name \cup {BadText}, NEW c \in Core \cup {BadText, BadJson},
             RegisterOrUpdate(p, n, c)
      PROVE  \E m \in Name, e \in ResolvedOpt \cup {Absent} :
                Put(p, m, e) /\ (e # Absent => Lower[m] \in OptName \/ Found(p, m))
  <2>1. n \in Name /\ c \in Core /\ Lower[n] \in OptName
    <3>1. RegisterCode(p, n, c) \in {0, 1}
      BY <1>2 DEF RegisterOrUpdate, UpdateCode
    <3> QED
      BY <3>1, Accepted
  <2>2. registry[p][Lower[n]] \in ResolvedOpt \cup {Absent}
    BY <2>1, OptRegistryAssumption DEF RegistryTypeOK, Registry
  <2> QED
    BY <1>2, <2>1, <2>2, EntryTypes DEF RegisterOrUpdate, Found
<1>3. ASSUME NEW n \in Name \cup {BadText}, Unregister(p, n)
      PROVE  \E m \in Name, e \in ResolvedOpt \cup {Absent} :
                Put(p, m, e) /\ (e # Absent => Lower[m] \in OptName \/ Found(p, m))
  <2>1. n \in Name
    BY <1>3 DEF Unregister, UnregisterCode
  <2> QED
    BY <1>3, <2>1 DEF Unregister
<1>4. ASSUME NEW n \in Name, Resolve(p, n)
      PROVE  \/ UNCHANGED registry
             \/ \E m \in Name, e \in ResolvedOpt \cup {Absent} :
                   Put(p, m, e) /\ (e # Absent => Lower[m] \in OptName \/ Found(p, m))
  <2>1. CASE Found(p, n) /\ registry[p][Lower[n]].resolve_count < MaxCount
    <3> DEFINE e == [registry[p][Lower[n]] EXCEPT !.resolve_count = @ + 1]
    <3>1. registry[p][Lower[n]] \in ResolvedOpt
      BY <2>1, OptRegistryAssumption DEF RegistryTypeOK, Registry, Found
    <3>2. e \in ResolvedOpt
      BY <2>1, <3>1, EntryTypes
    <3>3. Put(p, n, e)
      BY <1>4, <2>1 DEF Resolve, Put
    <3> QED
      BY <2>1, <3>2, <3>3
  <2>2. CASE ~(Found(p, n) /\ registry[p][Lower[n]].resolve_count < MaxCount)
    BY <1>4, <2>2 DEF Resolve
  <2> QED
    BY <2>1, <2>2
<1>5. saving[p].pc = "no" /\ UNCHANGED <<saving, file, cutShort>>
  BY DEF RegistryCalls, Register, RegisterOrUpdate, Unregister, Resolve, Writable
<1> QED
  BY <1>1, <1>2, <1>3, <1>4, <1>5 DEF RegistryCalls

\* A save is under way with a registry of its own.
LEMMA SavingType ==
    /\ NotSaving \in Saving /\ Empty \in Registry /\ UnderItsKey(Empty)
    /\ \A r \in Registry : [pc |-> "open", entries |-> r, overlap |-> FALSE] \in Saving
    /\ \A s \in Saving : /\ s.entries \in Registry /\ s.pc \in {"no", "open", "write"}
                         /\ \A o \in BOOLEAN : [s EXCEPT !.pc = "write", !.overlap = o] \in Saving
                         /\ [s EXCEPT !.overlap = TRUE] \in Saving
BY DEF NotSaving, Saving, Empty, Registry, UnderItsKey

\* Every step keeps the types of the registries and the file.
LEMMA RegistryTypeStep == RegistryTypeOK /\ RegistryStep => RegistryTypeOK'
<1> SUFFICES ASSUME RegistryTypeOK, RegistryStep PROVE RegistryTypeOK'
  OBVIOUS
<1>1. ASSUME NEW p \in Process, RegistryCalls(p) \/ \E n \in Name : Resolve(p, n)
      PROVE  RegistryTypeOK'
  BY <1>1, CallsPut, PutType DEF RegistryTypeOK
<1>2. ASSUME NEW p \in Process, SaveSnapshot(p) PROVE RegistryTypeOK'
  BY <1>2, SavingType DEF SaveSnapshot, RegistryTypeOK
<1>3. ASSUME NEW p \in Process, SaveTruncate(p) PROVE RegistryTypeOK'
  <2>1. \A q \in Process : saving[q] \in Saving /\ (Writing # {}) \in BOOLEAN
    BY DEF RegistryTypeOK
  <2>2. saving' \in [Process -> Saving]
    BY <1>3, <2>1, SavingType DEF SaveTruncate
  <2> QED
    BY <1>3, <2>2 DEF SaveTruncate, RegistryTypeOK
<1>4. ASSUME NEW p \in Process, SaveWrite(p) PROVE RegistryTypeOK'
  <2>1. saving[p].entries \in Registry /\ saving[p].overlap \in BOOLEAN
    BY DEF RegistryTypeOK, Saving
  <2>2. saving' \in [Process -> Saving]
    BY <1>4, SavingType DEF SaveWrite, RegistryTypeOK
  <2>3. file' \in Registry \cup {NoFile, Torn} /\ cutShort' \in BOOLEAN
    BY <1>4, <2>1, Zenon DEF SaveWrite
  <2> QED
    BY <1>4, <2>2, <2>3 DEF SaveWrite, RegistryTypeOK
<1>5. ASSUME NEW p \in Process, SaveFails(p) PROVE RegistryTypeOK'
  BY <1>5, SavingType DEF SaveFails, RegistryTypeOK
<1>6. ASSUME NEW p \in Process, Crash(p) PROVE RegistryTypeOK'
  BY <1>6, SavingType DEF Crash, RegistryTypeOK
<1>7. ASSUME NEW p \in Process, Load(p) PROVE RegistryTypeOK'
  BY <1>7 DEF Load, RegistryTypeOK
<1>8. ASSUME UNCHANGED registryVars PROVE RegistryTypeOK'
  BY <1>8 DEF registryVars, RegistryTypeOK
<1> QED
  BY <1>1, <1>2, <1>3, <1>4, <1>5, <1>6, <1>7, <1>8, TransportAssumption
  DEF RegistryStep, FileCalls

\* A new resolver has no entry, nothing is saved and there is no file.
LEMMA InitRegistry == RegistryInit => RegistryTypeOK /\ RegistryInv
<1> SUFFICES ASSUME RegistryInit PROVE RegistryTypeOK /\ RegistryInv
  OBVIOUS
<1>1. RegistryTypeOK
  BY SavingType DEF RegistryInit, RegistryTypeOK
<1>2. KeyedEverywhere
  BY SavingType, OptRegistryAssumption DEF RegistryInit, KeyedEverywhere, NotSaving
<1>3. SnapshotHolds /\ ReadableUnlessCutShort
  BY OptRegistryAssumption DEF RegistryInit, SnapshotHolds, ReadableUnlessCutShort, NotSaving
<1> QED
  BY <1>1, <1>2, <1>3 DEF RegistryInv

\* Every step keeps the entries under their keys: a call puts one under the key of its
\* name, a save copies them to the file, a load to a new registry.
LEMMA KeysStep ==
    ASSUME RegistryTypeOK, KeyedEverywhere, RegistryStep
    PROVE  KeyedEverywhere'
<1>1. ASSUME NEW p \in Process, RegistryCalls(p) \/ \E n \in Name : Resolve(p, n)
      PROVE  KeyedEverywhere'
  <2>1. UNCHANGED <<saving, file>>
    BY <1>1, CallsPut
  <2>2. CASE UNCHANGED registry
    BY <2>1, <2>2 DEF KeyedEverywhere
  <2>3. ASSUME NEW n \in Name, NEW e \in ResolvedOpt \cup {Absent}, Put(p, n, e),
               e # Absent => Lower[n] \in OptName \/ Found(p, n)
        PROVE  \A q \in Process : UnderItsKey(registry'[q])
    <3>1. Lower[n] \in Name /\ Lower[Lower[n]] = Lower[n]
      BY OptRegistryAssumption
    <3>2. e # Absent => Lower[n] \in OptName
      BY <2>3, <3>1 DEF Found, KeyedEverywhere, UnderItsKey
    <3>3. registry' = [registry EXCEPT ![p] = [registry[p] EXCEPT ![Lower[n]] = e]]
      BY <2>3 DEF Put
    <3>4. registry \in [Process -> Registry] /\ registry[p] \in [Name -> ResolvedOpt \cup {Absent}]
      BY DEF RegistryTypeOK, Registry
    <3>5. UnderItsKey([registry[p] EXCEPT ![Lower[n]] = e])
      BY <3>1, <3>2, <3>4 DEF UnderItsKey, KeyedEverywhere
    <3> QED
      BY <3>3, <3>4, <3>5 DEF KeyedEverywhere
  <2> QED
    BY <1>1, <2>1, <2>2, <2>3, CallsPut DEF KeyedEverywhere
<1>2. ASSUME NEW p \in Process, SaveSnapshot(p) PROVE KeyedEverywhere'
  BY <1>2 DEF SaveSnapshot, KeyedEverywhere, RegistryTypeOK
<1>3. ASSUME NEW p \in Process, SaveTruncate(p) PROVE KeyedEverywhere'
  <2>1. \A q \in Process : saving'[q].entries = saving[q].entries
    BY <1>3 DEF SaveTruncate, RegistryTypeOK, Saving
  <2> QED
    BY <1>3, <2>1, OptRegistryAssumption DEF SaveTruncate, KeyedEverywhere
<1>4. ASSUME NEW p \in Process, SaveWrite(p) PROVE KeyedEverywhere'
  BY <1>4, SavingType, OptRegistryAssumption
  DEF SaveWrite, KeyedEverywhere, NotSaving, RegistryTypeOK
<1>5. ASSUME NEW p \in Process, SaveFails(p) PROVE KeyedEverywhere'
  BY <1>5, SavingType DEF SaveFails, KeyedEverywhere, NotSaving, RegistryTypeOK
<1>6. ASSUME NEW p \in Process, Crash(p) PROVE KeyedEverywhere'
  BY <1>6, SavingType DEF Crash, KeyedEverywhere, NotSaving, RegistryTypeOK
<1>7. ASSUME NEW p \in Process, Load(p) PROVE KeyedEverywhere'
  BY <1>7 DEF Load, KeyedEverywhere, RegistryTypeOK
<1>8. ASSUME UNCHANGED registryVars PROVE KeyedEverywhere'
  BY <1>8 DEF registryVars, KeyedEverywhere
<1> QED
  BY <1>1, <1>2, <1>3, <1>4, <1>5, <1>6, <1>7, <1>8, TransportAssumption
  DEF RegistryStep, FileCalls

\* Every step keeps a snapshot equal to the registry it was taken of, and the file
\* readable unless it is being written or its last write was cut short.
LEMMA FileStep ==
    ASSUME RegistryTypeOK, SnapshotHolds, ReadableUnlessCutShort, RegistryStep
    PROVE  SnapshotHolds' /\ ReadableUnlessCutShort'
<1>1. ASSUME NEW p \in Process, RegistryCalls(p) \/ \E n \in Name : Resolve(p, n)
      PROVE  SnapshotHolds' /\ ReadableUnlessCutShort'
  <2>1. saving[p].pc = "no" /\ UNCHANGED <<saving, file, cutShort>>
    BY <1>1, CallsPut
  <2>2. \A q \in Process \ {p} : registry'[q] = registry[q]
    BY <1>1, CallsPut DEF Put, RegistryTypeOK
  <2> QED
    BY <2>1, <2>2 DEF SnapshotHolds, ReadableUnlessCutShort, Writing
<1>2. ASSUME NEW p \in Process, SaveSnapshot(p) PROVE SnapshotHolds' /\ ReadableUnlessCutShort'
  BY <1>2 DEF SaveSnapshot, SnapshotHolds, ReadableUnlessCutShort, Writing, RegistryTypeOK
<1>3. ASSUME NEW p \in Process, SaveTruncate(p) PROVE SnapshotHolds' /\ ReadableUnlessCutShort'
  <2>1. /\ \A q \in Process : saving'[q].entries = saving[q].entries
        /\ \A q \in Process \ {p} : saving'[q].pc = saving[q].pc
        /\ saving'[p].pc = "write" /\ saving[p].pc = "open"
    BY <1>3 DEF SaveTruncate, RegistryTypeOK, Saving
  <2> QED
    BY <1>3, <2>1 DEF SaveTruncate, SnapshotHolds, ReadableUnlessCutShort, Writing
<1>4. ASSUME NEW p \in Process, SaveWrite(p) PROVE SnapshotHolds' /\ ReadableUnlessCutShort'
  <2>1. SnapshotHolds'
    BY <1>4 DEF SaveWrite, SnapshotHolds, NotSaving, RegistryTypeOK
  <2>2. saving[p].entries # Torn
    BY SavingType, OptRegistryAssumption DEF RegistryTypeOK
  <2> QED
    BY <1>4, <2>1, <2>2 DEF SaveWrite, ReadableUnlessCutShort
<1>5. ASSUME NEW p \in Process, SaveFails(p) \/ Crash(p)
      PROVE  SnapshotHolds' /\ ReadableUnlessCutShort'
  <2>1. /\ saving' = [saving EXCEPT ![p] = NotSaving]
        /\ \A q \in Process \ {p} : registry'[q] = registry[q]
        /\ cutShort' = (cutShort \/ saving[p].pc = "write")
        /\ file' = file
    BY <1>5 DEF SaveFails, Crash, RegistryTypeOK
  <2> QED
    BY <2>1 DEF SnapshotHolds, ReadableUnlessCutShort, Writing, NotSaving, RegistryTypeOK
<1>6. ASSUME NEW p \in Process, Load(p) PROVE SnapshotHolds' /\ ReadableUnlessCutShort'
  BY <1>6 DEF Load, Writable, SnapshotHolds, ReadableUnlessCutShort, Writing, RegistryTypeOK
<1>7. ASSUME UNCHANGED registryVars PROVE SnapshotHolds' /\ ReadableUnlessCutShort'
  BY <1>7 DEF registryVars, SnapshotHolds, ReadableUnlessCutShort, Writing
<1> QED
  BY <1>1, <1>2, <1>3, <1>4, <1>5, <1>6, <1>7, TransportAssumption
  DEF RegistryStep, FileCalls

-----------------------------------------------------------------------------
(* The connections.                                                        *)

\* Streams of frames have frames.
LEMMA StreamElements ==
    ASSUME NEW S, NEW T, NEW f \in [T -> Seq(S)]
    PROVE  \A c \in T : \A i \in DOMAIN f[c] : f[c][i] \in S
BY ElementOfSeq, LenProperties

\* The answer to a request is a frame, with the .core file that the name has now.
LEMMA AnswerType ==
    ASSUME RegistryTypeOK, NEW q \in Question
    PROVE  AnswerTo(q) \in Answer /\ Answers(AnswerTo(q), q, CoreOf(q.name))
<1>1. q.name \in Name /\ Lower[q.name] \in Name
  BY OptRegistryAssumption DEF Question
<1>2. registry[Server][Lower[q.name]] \in ResolvedOpt \cup {Absent}
  BY <1>1, TransportAssumption DEF RegistryTypeOK, Registry
<1>3. Found(Server, q.name) => registry[Server][Lower[q.name]].core_file \in Core
  BY <1>2, EntryTypes DEF Found
<1>4. AnswerTo(q) \in Answer
  BY <1>1, <1>3 DEF AnswerTo, Reply, Answer
<1>5. Answers(AnswerTo(q), q, CoreOf(q.name))
  BY DEF Answers, AnswerTo, Reply, CoreOf
<1> QED
  BY <1>4, <1>5

\* The names a server has .core files for.
LEMMA CoreOfType ==
    ASSUME RegistryTypeOK, NEW n \in Name
    PROVE  CoreOf(n) \subseteq Core
<1>1. registry[Server][Lower[n]] \in ResolvedOpt \cup {Absent}
  BY OptRegistryAssumption, TransportAssumption DEF RegistryTypeOK, Registry
<1> QED
  BY <1>1, EntryTypes DEF CoreOf, Found

\* A new connection carries nothing.
LEMMA InitTypes == Init => Types
<1> SUFFICES ASSUME Init PROVE Types
  OBVIOUS
<1>1. RegistryTypeOK
  BY InitRegistry DEF Init
<1>2. StreamsOfFrames
  BY DEF Init, StreamsOfFrames
<1>3. dropped \in [Client -> [calls: 0..MaxUnread, inWrite: BOOLEAN]]
  BY TransportAssumption DEF Init, NoneDropped
<1>4. \A c \in Client : /\ \A i \in DOMAIN requests[c] : requests[c][i] \in Request
                         /\ \A j \in DOMAIN answers[c] : answers[c][j] \in Answer \cup {Torn}
  BY <1>2, StreamElements DEF StreamsOfFrames
<1> QED
  BY <1>1, <1>2, <1>3, <1>4 DEF Init, Types, TypeOK

\* Every step keeps the streams ones of frames.
LEMMA StreamsStep == Types /\ [Next]_vars => StreamsOfFrames'
<1> SUFFICES ASSUME Types, [Next]_vars PROVE StreamsOfFrames'
  OBVIOUS
<1> USE DEF Types, StreamsOfFrames
<1>1. ASSUME NEW c \in Client, NEW q \in Question, Ask(c, q) PROVE StreamsOfFrames'
  BY <1>1 DEF Ask, Request
<1>2. ASSUME NEW c \in Client, DropInWrite(c) PROVE StreamsOfFrames'
  BY <1>2 DEF DropInWrite, Request
<1>3. ASSUME NEW c \in Client, Connect(c) PROVE StreamsOfFrames'
  BY <1>3 DEF Connect
<1>4. ASSUME NEW c \in Client, Serve(c) PROVE StreamsOfFrames'
  <2>1. Head(requests[c]) \in Question /\ Tail(requests[c]) \in Seq(Request)
    BY <1>4, HeadTailProperties DEF Serve, Request
  <2>2. AnswerTo(Head(requests[c])) \in Answer
    BY <2>1, AnswerType DEF TypeOK
  <2>3. answers' \in [Client -> Seq(Answer \cup {Torn})]
    BY <1>4, <2>2 DEF Serve
  <2>4. requests' \in [Client -> Seq(Request)]
    BY <1>4, <2>1 DEF Serve
  <2> QED
    BY <2>3, <2>4
<1>5. ASSUME NEW c \in Client, ServeTorn(c) PROVE StreamsOfFrames'
  <2> DEFINE s == requests[c]
  <2>1. s \in Seq(Request) /\ \A i \in 3..Len(s) : s[i] \in Request
    BY LenProperties, ElementOfSeq
  <2>2. SubSeq(s, 3, Len(s)) \in Seq(Request)
    BY <2>1, SubSeqProperties, LenProperties
  <2>3. <<Torn>> \o SubSeq(s, 3, Len(s)) \in Seq(Request)
    BY <2>2, ConcatProperties DEF Request
  <2>4. [requests EXCEPT ![c] = <<Torn>> \o SubSeq(@, 3, Len(@))] \in [Client -> Seq(Request)]
    BY <2>3
  <2>5. [requests EXCEPT ![c] = <<>>] \in [Client -> Seq(Request)]
    OBVIOUS
  <2>6. requests' \in [Client -> Seq(Request)]
    BY <1>5, <2>4, <2>5, Zenon DEF ServeTorn
  <2> QED
    BY <1>5, <2>6 DEF ServeTorn
<1>6. ASSUME NEW c \in Client, Receive(c) PROVE StreamsOfFrames'
  <2>1. Tail(answers[c]) \in Seq(Answer \cup {Torn})
    BY <1>6, HeadTailProperties DEF Receive
  <2>2. <<Torn>> \in Seq(Answer \cup {Torn})
    OBVIOUS
  <2>3. \E t \in Seq(Answer \cup {Torn}) : answers' = [answers EXCEPT ![c] = t]
    BY <1>6, <2>1, <2>2 DEF Receive
  <2> QED
    BY <1>6, <2>3 DEF Receive
<1>7. ASSUME NEW p \in Process, Stop(p) PROVE StreamsOfFrames'
  <2>1. CASE p = Server
    <3>1. answers' = answers /\ requests' = [c \in Client |-> <<>>]
      BY <1>7, <2>1 DEF Stop
    <3>2. [c \in Client |-> <<>>] \in [Client -> Seq(Request)]
      OBVIOUS
    <3> QED
      BY <3>1, <3>2
  <2>2. CASE p # Server
    BY <1>7, <2>2 DEF Stop, wireVars
  <2> QED
    BY <2>1, <2>2
<1>8. ASSUME NEW c \in Client, Drop(c) \/ ReceiveEnd(c) PROVE StreamsOfFrames'
  BY <1>8 DEF Drop, ReceiveEnd
<1>9. ASSUME NEW p \in Process, Others(p) PROVE StreamsOfFrames'
  BY <1>9 DEF Others
<1>10. ASSUME UNCHANGED vars PROVE StreamsOfFrames'
  BY <1>10 DEF vars, wireVars
<1> QED
  BY <1>1, <1>2, <1>3, <1>4, <1>5, <1>6, <1>7, <1>8, <1>9, <1>10 DEF Next

\* Every step keeps the types of the clients' calls.
LEMMA CallsStep ==
    Types /\ [Next]_vars =>
        /\ alive' \in [Client -> BOOLEAN]
        /\ call' \in [Client -> Question \cup {NoCall}]
        /\ seen' \in [Client -> SUBSET Core]
        /\ dropped' \in [Client -> [calls: 0..MaxUnread, inWrite: BOOLEAN]]
<1> DEFINE CallTypes ==
      /\ alive \in [Client -> BOOLEAN]
      /\ call \in [Client -> Question \cup {NoCall}]
      /\ seen \in [Client -> SUBSET Core]
      /\ dropped \in [Client -> [calls: 0..MaxUnread, inWrite: BOOLEAN]]
<1> SUFFICES ASSUME Types, [Next]_vars PROVE CallTypes'
  OBVIOUS
<1>0. CallTypes /\ RegistryTypeOK /\ RegistryTypeOK'
  BY StepsOfRegistry, RegistryTypeStep DEF Types, TypeOK
<1>1. ASSUME NEW c \in Client, NEW q \in Question, Ask(c, q) PROVE CallTypes'
  <2>1. CoreOf(q.name) \subseteq Core
    BY <1>0, CoreOfType DEF Question
  <2> QED
    BY <1>0, <1>1, <2>1 DEF Ask
<1>2. ASSUME NEW c \in Client, Drop(c) PROVE CallTypes'
  <2>1. dropped' \in [Client -> [calls: 0..MaxUnread, inWrite: BOOLEAN]]
    BY <1>0, <1>2, TransportAssumption DEF Drop
  <2> QED
    BY <1>0, <1>2, <2>1 DEF Drop
<1>3. ASSUME NEW c \in Client, DropInWrite(c) PROVE CallTypes'
  <2>1. dropped' \in [Client -> [calls: 0..MaxUnread, inWrite: BOOLEAN]]
    BY <1>0, <1>3, TransportAssumption DEF DropInWrite
  <2> QED
    BY <1>0, <1>3, <2>1 DEF DropInWrite
<1>4. ASSUME NEW c \in Client, Connect(c) PROVE CallTypes'
  BY <1>0, <1>4, TransportAssumption DEF Connect, NoneDropped
<1>5. ASSUME NEW c \in Client, Serve(c) PROVE CallTypes'
  BY <1>0, <1>5 DEF Serve
<1>6. ASSUME NEW c \in Client, ServeTorn(c) PROVE CallTypes'
  BY <1>0, <1>6 DEF ServeTorn
<1>7. ASSUME NEW c \in Client, Receive(c) \/ ReceiveEnd(c) PROVE CallTypes'
  BY <1>0, <1>7 DEF Receive, ReceiveEnd
<1>8. ASSUME NEW p \in Process, Stop(p) PROVE CallTypes'
  BY <1>0, <1>8 DEF Stop, wireVars
<1>9. ASSUME NEW p \in Process, Others(p) PROVE CallTypes'
  <2>1. \A n \in Name : CoreOfNext(n) \subseteq Core
    <3> SUFFICES ASSUME NEW n \in Name PROVE CoreOfNext(n) \subseteq Core
      OBVIOUS
    <3>1. registry'[Server][Lower[n]] \in ResolvedOpt \cup {Absent}
      BY <1>0, OptRegistryAssumption, TransportAssumption DEF RegistryTypeOK, Registry
    <3> QED
      BY <3>1, EntryTypes DEF CoreOfNext
  <2>2. \A c \in Client : call[c] # NoCall => call[c].name \in Name
    BY <1>0 DEF Question
  <2>3. seen' \in [Client -> SUBSET Core]
    BY <1>0, <1>9, <2>1, <2>2 DEF Others, Watched
  <2> QED
    BY <1>0, <1>9, <2>3 DEF Others
<1>10. ASSUME UNCHANGED vars PROVE CallTypes'
  BY <1>0, <1>10 DEF vars, wireVars
<1> QED
  BY <1>1, <1>2, <1>3, <1>4, <1>5, <1>6, <1>7, <1>8, <1>9, <1>10 DEF Next

\* Every step keeps all the types.
LEMMA TypesStep == Types /\ [Next]_vars => Types'
<1> SUFFICES ASSUME Types, [Next]_vars PROVE Types'
  OBVIOUS
<1>1. RegistryTypeOK'
  BY StepsOfRegistry, RegistryTypeStep DEF Types, TypeOK
<1>2. StreamsOfFrames'
  BY StreamsStep
<1>3. \A c \in Client : /\ \A i \in DOMAIN requests'[c] : requests'[c][i] \in Request
                        /\ \A i \in DOMAIN answers'[c] : answers'[c][i] \in Answer \cup {Torn}
  BY <1>2, StreamElements DEF StreamsOfFrames
<1> QED
  BY <1>1, <1>2, <1>3, CallsStep DEF Types, TypeOK

\* Every step keeps the invariant of the registries and the file.
LEMMA RegistryInvStep == Types /\ RegistryInv /\ [Next]_vars => RegistryInv'
BY StepsOfRegistry, KeysStep, FileStep DEF Types, TypeOK, RegistryInv

-----------------------------------------------------------------------------
\* Resolving a name counts it and changes no .core file.
LEMMA ResolveKeepsCores ==
    ASSUME RegistryTypeOK, NEW n \in Name, Resolve(Server, n), NEW m \in Name
    PROVE  CoreOf(m)' = CoreOf(m)
<1>1. Lower[m] \in Name /\ Lower[n] \in Name /\ Server \in Process
  BY OptRegistryAssumption, TransportAssumption
<1>2. registry[Server] \in [Name -> ResolvedOpt \cup {Absent}]
  BY <1>1 DEF RegistryTypeOK, Registry
<1>3. CASE Found(Server, n) /\ registry[Server][Lower[n]].resolve_count < MaxCount
  <2> DEFINE e == [registry[Server][Lower[n]] EXCEPT !.resolve_count = @ + 1]
  <2>1. registry[Server][Lower[n]] \in ResolvedOpt
    BY <1>1, <1>2, <1>3 DEF Found
  <2>2. e \in ResolvedOpt /\ e.core_file = registry[Server][Lower[n]].core_file
    BY <1>3, <2>1, EntryTypes DEF ResolvedOpt
  <2>3. registry'[Server][Lower[m]] = IF Lower[m] = Lower[n] THEN e ELSE registry[Server][Lower[m]]
    BY <1>1, <1>2, <1>3 DEF Resolve, RegistryTypeOK
  <2>4. CASE Lower[m] = Lower[n]
    BY <2>1, <2>2, <2>3, <2>4, OptRegistryAssumption DEF CoreOf, Found
  <2>5. CASE Lower[m] # Lower[n]
    BY <2>3, <2>5 DEF CoreOf, Found
  <2> QED
    BY <2>4, <2>5
<1>4. CASE ~(Found(Server, n) /\ registry[Server][Lower[n]].resolve_count < MaxCount)
  BY <1>4 DEF Resolve, CoreOf, Found
<1> QED
  BY <1>3, <1>4

\* Every step keeps what a waiting call may be answered with among what it has seen.
LEMMA SeesStep ==
    ASSUME Types, [Next]_vars, NEW c \in Client, SeesCurrent(c)
    PROVE  SeesCurrent(c)'
<1> USE DEF SeesCurrent
<1>0. /\ RegistryTypeOK
      /\ call \in [Client -> Question \cup {NoCall}] /\ seen \in [Client -> SUBSET Core]
      /\ call[c] # NoCall => call[c].name \in Name
  BY DEF Types, TypeOK, Question
<1>1. ASSUME NEW d \in Client, NEW q \in Question, Ask(d, q) PROVE SeesCurrent(c)'
  BY <1>0, <1>1 DEF Ask, CoreOf, Found, registryVars
<1>2. ASSUME NEW d \in Client, Drop(d) \/ Receive(d) \/ ReceiveEnd(d) PROVE SeesCurrent(c)'
  BY <1>0, <1>2 DEF Drop, Receive, ReceiveEnd, CoreOf, Found, registryVars
<1>3. ASSUME NEW d \in Client, DropInWrite(d) \/ Connect(d) \/ ServeTorn(d)
      PROVE  SeesCurrent(c)'
  BY <1>0, <1>3 DEF DropInWrite, Connect, ServeTorn, CoreOf, Found, registryVars
<1>4. ASSUME NEW d \in Client, Serve(d) PROVE SeesCurrent(c)'
  <2>1. Head(requests[d]) \in Question
    BY <1>4, HeadTailProperties DEF Types, StreamsOfFrames, Serve, Request
  <2>2. Head(requests[d]).name \in Name /\ UNCHANGED <<call, seen>>
    BY <1>4, <2>1 DEF Serve, Question
  <2>3. UNCHANGED registryVars \/ Resolve(Server, Head(requests[d]).name)
    BY <1>4 DEF Serve
  <2>4. \A n \in Name : CoreOf(n)' = CoreOf(n)
    BY <1>0, <2>2, <2>3, ResolveKeepsCores DEF CoreOf, Found, registryVars
  <2>5. call[c] # NoCall => CoreOf(call[c].name)' = CoreOf(call[c].name)
    BY <1>0, <2>2, <2>4 DEF CoreOf, Found
  <2> QED
    BY <2>2, <2>5 DEF CoreOf, Found
<1>5. ASSUME NEW p \in Process, Stop(p) PROVE SeesCurrent(c)'
  <2>1. UNCHANGED <<call, seen>>
    BY <1>5 DEF Stop, wireVars
  <2>2. registry' = [registry EXCEPT ![p] = Empty]
    BY <1>5 DEF Stop, Crash
  <2>3. CASE p = Server
    <3>1. registry'[Server] = Empty
      BY <1>0, <2>2, <2>3 DEF RegistryTypeOK
    <3> QED
      BY <1>0, <2>1, <3>1, OptRegistryAssumption DEF CoreOf, Found, Empty
  <2>4. CASE p # Server
    BY <2>1, <2>2, <2>4, <1>0, TransportAssumption DEF CoreOf, Found, RegistryTypeOK
  <2> QED
    BY <2>3, <2>4
<1>6. ASSUME NEW p \in Process, Others(p) PROVE SeesCurrent(c)'
  BY <1>0, <1>6 DEF Others, Watched, CoreOf, CoreOfNext, Found
<1>7. ASSUME UNCHANGED vars PROVE SeesCurrent(c)'
  BY <1>7 DEF vars, wireVars, registryVars, CoreOf, Found
<1> QED
  BY <1>1, <1>2, <1>3, <1>4, <1>5, <1>6, <1>7 DEF Next

\* A step that leaves the streams of a connection and its call alone, and takes nothing
\* away from what the call has seen, leaves them paired.
LEMMA PairedKept ==
    ASSUME NEW c \in Client, Paired(c),
           answers'[c] = answers[c], requests'[c] = requests[c], call'[c] = call[c],
           call[c] # NoCall => seen[c] \subseteq seen'[c]
    PROVE  Paired(c)'
<1>1. CASE answers[c] = <<Torn>> \/ answers[c] = <<>>
  BY <1>1 DEF Paired
<1>2. ASSUME NEW a \in Answer, answers[c] = <<a>>, Answers(a, call[c], seen[c]),
             requests[c] = <<>>, call[c] # NoCall
      PROVE  Paired(c)'
  <2>1. Answers(a, call'[c], seen'[c])
    BY <1>2 DEF Answers
  <2> QED
    BY <1>2, <2>1 DEF Paired
<1> QED
  BY <1>1, <1>2 DEF Paired

\* An answer that is read ends a call on a stream that is then empty or spoilt.
LEMMA PairedRead ==
    ASSUME Types, NEW c \in Client, Paired(c), Receive(c)
    PROVE  Paired(c)'
<1>1. /\ answers \in [Client -> Seq(Answer \cup {Torn})]
      /\ call[c] # NoCall /\ answers[c] # <<>> /\ requests' = requests
      /\ call' = [call EXCEPT ![c] = NoCall]
      /\ answers' = [answers EXCEPT ![c] =
            IF Unreadable(c) \/ Head(@).core \in Oversized THEN <<Torn>> ELSE Tail(@)]
  BY DEF Types, StreamsOfFrames, Receive
<1>2. CASE answers[c] = <<Torn>>
  BY <1>1, <1>2 DEF Paired, Unreadable
<1>3. ASSUME NEW a \in Answer, answers[c] = <<a>>, requests[c] = <<>>
      PROVE  Paired(c)'
  <2>1. Tail(<<a>>) = <<>>
    OBVIOUS
  <2>2. answers'[c] = <<Torn>> \/ answers'[c] = <<>>
    BY <1>1, <1>3, <2>1
  <2> QED
    BY <1>1, <1>3, <2>2 DEF Paired
<1> QED
  BY <1>1, <1>2, <1>3 DEF Paired

\* The request that is served is that of the call, and gets its own answer.
LEMMA PairedServed ==
    ASSUME Types, NEW c \in Client, Paired(c), SeesCurrent(c), Serve(c)
    PROVE  Paired(c)'
<1>1. /\ requests \in [Client -> Seq(Request)] /\ answers \in [Client -> Seq(Answer \cup {Torn})]
      /\ RegistryTypeOK /\ call \in [Client -> Question \cup {NoCall}]
  BY DEF Types, StreamsOfFrames, TypeOK
<1>2. requests[c] # <<>> /\ UNCHANGED <<call, seen>>
  BY DEF Serve
<1>3. CASE answers[c] = <<Torn>>
  <2>1. answers' = answers
    BY <1>3 DEF Serve, Unreadable
  <2> QED
    BY <1>3, <2>1 DEF Paired
<1>4. CASE answers[c] = <<>> /\ requests[c] = <<call[c]>> /\ call[c] # NoCall
  <2> DEFINE q == call[c]
  <2>1. Head(requests[c]) = q /\ Tail(requests[c]) = <<>> /\ q \in Question
    BY <1>1, <1>4
  <2>2. ~Unreadable(c)
    BY <1>4 DEF Unreadable
  <2>3. answers'[c] = Append(<<>>, AnswerTo(q)) /\ requests'[c] = <<>>
    BY <1>1, <1>4, <2>1, <2>2 DEF Serve
  <2>4. answers'[c] = <<AnswerTo(q)>>
    BY <2>3
  <2>5. AnswerTo(q) \in Answer /\ Answers(AnswerTo(q), q, seen[c])
    <3>1. AnswerTo(q) \in Answer /\ Answers(AnswerTo(q), q, CoreOf(q.name))
      BY <1>1, <2>1, AnswerType
    <3>2. CoreOf(q.name) \subseteq seen[c]
      BY <1>4 DEF SeesCurrent
    <3> QED
      BY <3>1, <3>2 DEF Answers
  <2> QED
    BY <1>2, <1>4, <2>3, <2>4, <2>5 DEF Paired
<1> QED
  BY <1>2, <1>3, <1>4 DEF Paired

\* Every step keeps requests and answers paired, on a connection none of whose calls
\* was dropped.
LEMMA PairedStep ==
    ASSUME Types, [Next]_vars, NEW c \in Client, SeesCurrent(c), NoneUnread(c),
           dropped[c] = NoneDropped => Paired(c), dropped'[c] = NoneDropped
    PROVE  Paired(c)'
<1>0. /\ RegistryTypeOK
      /\ requests \in [Client -> Seq(Request)] /\ answers \in [Client -> Seq(Answer \cup {Torn})]
      /\ call \in [Client -> Question \cup {NoCall}] /\ seen \in [Client -> SUBSET Core]
      /\ dropped \in [Client -> [calls: 0..MaxUnread, inWrite: BOOLEAN]]
  BY DEF Types, StreamsOfFrames, TypeOK
<1>1. ASSUME NEW d \in Client, NEW q \in Question, Ask(d, q) PROVE Paired(c)'
  <2>1. CASE d = c
    <3>1. call[c] = NoCall /\ answers' = answers /\ call'[c] = q /\ q # NoCall /\ Paired(c)
      BY <1>0, <1>1, <2>1, TransportAssumption DEF Ask
    <3>2. CASE answers[c] = <<Torn>>
      BY <3>1, <3>2 DEF Paired
    <3>3. CASE answers[c] = <<>> /\ requests[c] = <<>>
      <4>1. Append(<<>>, q) = <<q>>
        OBVIOUS
      <4>2. requests'[c] = <<q>> \/ requests'[c] = <<>>
        BY <1>0, <1>1, <2>1, <3>3, <4>1 DEF Ask
      <4> QED
        BY <3>1, <3>3, <4>2 DEF Paired
    <3> QED
      BY <3>1, <3>2, <3>3 DEF Paired
  <2>2. CASE d # c
    BY <1>0, <1>1, <2>2, PairedKept DEF Ask
  <2> QED
    BY <2>1, <2>2
<1>2. ASSUME NEW d \in Client, Drop(d) \/ DropInWrite(d) PROVE Paired(c)'
  <2>1. d # c
    <3> SUFFICES ASSUME d = c PROVE FALSE
      OBVIOUS
    <3>1. dropped[c].calls \in Nat
      BY <1>0
    <3>2. dropped'[c].calls = dropped[c].calls + 1
      BY <1>0, <1>2 DEF Drop, DropInWrite
    <3> QED
      BY <3>1, <3>2 DEF NoneDropped
  <2> QED
    BY <1>0, <1>2, <2>1, PairedKept DEF Drop, DropInWrite
<1>3. ASSUME NEW d \in Client, Connect(d) PROVE Paired(c)'
  <2>1. CASE d = c
    BY <1>0, <1>3, <2>1 DEF Connect, Paired
  <2>2. CASE d # c
    BY <1>0, <1>3, <2>2, PairedKept DEF Connect
  <2> QED
    BY <2>1, <2>2
<1>4. ASSUME NEW d \in Client, Serve(d) PROVE Paired(c)'
  <2>1. Paired(c)
    BY <1>4 DEF Serve
  <2>2. CASE d = c
    BY <1>4, <2>1, <2>2, PairedServed
  <2>3. CASE d # c
    <3>1. answers'[c] = answers[c] /\ requests'[c] = requests[c]
      BY <1>0, <1>4, <2>3 DEF Serve
    <3> QED
      BY <1>4, <2>1, <3>1, PairedKept DEF Serve
  <2> QED
    BY <2>2, <2>3
<1>5. ASSUME NEW d \in Client, ServeTorn(d) PROVE Paired(c)'
  <2>1. Paired(c) /\ answers' = answers /\ UNCHANGED <<call, seen>>
    BY <1>5 DEF ServeTorn
  <2>2. CASE d = c
    <3>1. Len(requests[c]) > 1
      BY <1>5, <2>2 DEF ServeTorn
    <3>2. ASSUME requests[c] = <<>> PROVE FALSE
      BY <3>1, <3>2
    <3>3. ASSUME requests[c] = <<call[c]>> PROVE FALSE
      <4>1. Len(<<call[c]>>) = 1
        OBVIOUS
      <4> QED
        BY <3>1, <3>3, <4>1
    <3> QED
      BY <2>1, <3>2, <3>3 DEF Paired
  <2>3. CASE d # c
    <3>1. requests'[c] = requests[c]
      BY <1>0, <1>5, <2>3 DEF ServeTorn
    <3> QED
      BY <2>1, <3>1, PairedKept
  <2> QED
    BY <2>2, <2>3
<1>6. ASSUME NEW d \in Client, Receive(d) PROVE Paired(c)'
  <2>1. Paired(c)
    BY <1>6 DEF Receive
  <2>2. CASE d = c
    BY <1>6, <2>1, <2>2, PairedRead
  <2>3. CASE d # c
    <3>1. answers'[c] = answers[c] /\ call'[c] = call[c] /\ seen'[c] = seen[c]
      BY <1>0, <1>6, <2>3 DEF Receive
    <3> QED
      BY <1>6, <2>1, <3>1, PairedKept DEF Receive
  <2> QED
    BY <2>2, <2>3
<1>7. ASSUME NEW d \in Client, ReceiveEnd(d) PROVE Paired(c)'
  <2>1. Paired(c) /\ UNCHANGED <<answers, requests>>
    BY <1>7 DEF ReceiveEnd
  <2>2. CASE d = c
    <3>1. answers[c] = <<>> /\ requests[c] = <<>>
      BY <1>7, <2>2 DEF ReceiveEnd, NoneUnread
    <3> QED
      BY <1>0, <1>7, <2>1, <2>2, <3>1 DEF Paired
  <2>3. CASE d # c
    BY <1>0, <1>7, <2>1, <2>3, PairedKept DEF ReceiveEnd
  <2> QED
    BY <2>2, <2>3
<1>8. ASSUME NEW p \in Process, Stop(p) PROVE Paired(c)'
  <2>1. Paired(c) /\ UNCHANGED <<answers, call, seen>>
    BY <1>8 DEF Stop, wireVars
  <2>2. requests'[c] = requests[c] \/ requests'[c] = <<>>
    BY <1>8 DEF Stop, wireVars
  <2>3. CASE requests'[c] = requests[c]
    BY <2>1, <2>3, PairedKept
  <2>4. CASE requests'[c] = <<>>
    BY <2>1, <2>4 DEF Paired
  <2> QED
    BY <2>2, <2>3, <2>4
<1>9. ASSUME NEW p \in Process, Others(p) PROVE Paired(c)'
  <2>1. call[c] # NoCall => seen[c] \subseteq seen'[c]
    BY <1>0, <1>9 DEF Others, Watched
  <2> QED
    BY <1>9, <2>1, PairedKept DEF Others
<1>10. ASSUME UNCHANGED vars PROVE Paired(c)'
  BY <1>10, PairedKept DEF vars, wireVars
<1> QED
  BY <1>1, <1>2, <1>3, <1>4, <1>5, <1>6, <1>7, <1>8, <1>9, <1>10 DEF Next

\* Whatever ends a connection at the server takes the unread requests with it.
LEMMA NoneUnreadStep ==
    ASSUME Types, [Next]_vars, NEW c \in Client, NoneUnread(c)
    PROVE  NoneUnread(c)'
<1> USE DEF NoneUnread
<1>0. requests \in [Client -> Seq(Request)] /\ alive \in [Client -> BOOLEAN]
  BY DEF Types, StreamsOfFrames, TypeOK
<1>1. ASSUME NEW d \in Client, NEW q \in Question, Ask(d, q) PROVE NoneUnread(c)'
  BY <1>0, <1>1 DEF Ask
<1>2. ASSUME NEW d \in Client, DropInWrite(d) \/ Connect(d) PROVE NoneUnread(c)'
  BY <1>0, <1>2 DEF DropInWrite, Connect
<1>3. ASSUME NEW d \in Client, Serve(d) PROVE NoneUnread(c)'
  <2>1. /\ alive' = [alive EXCEPT ![d] = Head(requests[d]).kind # "other"]
        /\ requests' = [requests EXCEPT ![d] =
              IF Head(requests[d]).kind = "other" THEN <<>> ELSE Tail(@)]
    BY <1>3 DEF Serve
  <2> QED
    BY <1>0, <2>1
<1>4. ASSUME NEW d \in Client, ServeTorn(d) PROVE NoneUnread(c)'
  <2>1. CASE c = d
    BY <1>0, <1>4, <2>1 DEF ServeTorn
  <2>2. CASE c # d
    <3>1. alive'[c] = alive[c] /\ requests'[c] = requests[c]
      BY <1>0, <1>4, <2>2 DEF ServeTorn
    <3> QED
      BY <3>1
  <2> QED
    BY <2>1, <2>2
<1>5. ASSUME NEW p \in Process, Stop(p) PROVE NoneUnread(c)'
  BY <1>5 DEF Stop, wireVars
<1>6. ASSUME \/ \E d \in Client : Drop(d) \/ Receive(d) \/ ReceiveEnd(d)
             \/ \E p \in Process : Others(p)
             \/ UNCHANGED vars
      PROVE  NoneUnread(c)'
  BY <1>6 DEF Drop, Receive, ReceiveEnd, Others, vars, wireVars
<1> QED
  BY <1>1, <1>2, <1>3, <1>4, <1>5, <1>6 DEF Next

-----------------------------------------------------------------------------
\* The invariant holds at the start ...
LEMMA InitIInv == Init => IInv
<1> SUFFICES ASSUME Init PROVE IInv
  OBVIOUS
<1>1. RegistryInv
  BY InitRegistry DEF Init
<1>2. WireInv
  BY DEF Init, WireInv, SeesCurrent, NoneUnread, Paired
<1> QED
  BY <1>1, <1>2, InitTypes DEF IInv

\* ... and is kept by every step.
LEMMA NextIInv == IInv /\ [Next]_vars => IInv'
<1> SUFFICES ASSUME IInv, [Next]_vars PROVE IInv'
  OBVIOUS
<1>1. Types' /\ RegistryInv'
  BY TypesStep, RegistryInvStep DEF IInv
<1>2. ASSUME NEW c \in Client
      PROVE  SeesCurrent(c)' /\ NoneUnread(c)' /\ (dropped'[c] = NoneDropped => Paired(c)')
  <2>1. SeesCurrent(c) /\ NoneUnread(c) /\ (dropped[c] = NoneDropped => Paired(c))
    BY DEF IInv, WireInv
  <2> QED
    BY <2>1, SeesStep, NoneUnreadStep, PairedStep DEF IInv
<1>3. WireInv'
  BY <1>2 DEF WireInv
<1> QED
  BY <1>1, <1>3 DEF IInv

\* The registries, the file and the connections are as IInv says in every behaviour.
THEOREM Invariant == Spec => []IInv
BY InitIInv, NextIInv, PTL DEF Spec

\* Registries, file, streams and calls have their types in every behaviour.
THEOREM TypeCorrect == Spec => []TypeOK
<1>1. IInv => TypeOK
  BY DEF IInv, Types
<1> QED
  BY <1>1, Invariant, PTL

\* Whatever is in a registry can be found by name, however it came there: by a call, or
\* by way of a file that any process wrote (register, load_from_file).
THEOREM Keyed == Spec => []KeysAreFound
<1>1. IInv => KeysAreFound
  BY DEF IInv, RegistryInv, KeyedEverywhere, UnderItsKey, KeysAreFound
<1> QED
  BY <1>1, Invariant, PTL

\* The file is unreadable only during a save or after one that was cut short, with any
\* number of processes that write it (save_to_file).
THEOREM Readable == Spec => []ReadableUnlessCutShort
<1>1. IInv => ReadableUnlessCutShort
  BY DEF IInv, RegistryInv
<1> QED
  BY <1>1, Invariant, PTL

\* What an undisturbed save leaves is the registry as it is at that moment: the read lock
\* keeps every call of the process out (save_to_file).
THEOREM Saved == Spec => SavedIsCurrent
<1> DEFINE Current(p) ==
      /\ saving[p].pc = "write" /\ saving'[p].pc = "no"
      /\ file' # file /\ ~saving[p].overlap
      => file' = registry'[p]
<1>1. IInv /\ [Next]_vars => [\A p \in Process : Current(p)]_registryVars
  <2> SUFFICES ASSUME IInv, [Next]_vars, NEW p \in Process,
                      saving[p].pc = "write", file' # file, ~saving[p].overlap,
                      saving'[p].pc = "no"
               PROVE  file' = registry'[p]
    OBVIOUS
  <2>0. saving \in [Process -> Saving] /\ saving[p].entries = registry[p]
    BY DEF IInv, Types, TypeOK, RegistryTypeOK, RegistryInv, SnapshotHolds
  <2>1. RegistryStep
    BY StepsOfRegistry DEF IInv
  <2>2. ASSUME NEW q \in Process, RegistryCalls(q) \/ \E n \in Name : Resolve(q, n) PROVE FALSE
    BY <2>2, CallsPut DEF IInv, Types, TypeOK
  <2>3. ASSUME NEW q \in Process, SaveTruncate(q) PROVE FALSE
    BY <2>0, <2>3 DEF SaveTruncate, Saving
  <2>4. ASSUME NEW q \in Process,
               SaveSnapshot(q) \/ SaveFails(q) \/ Crash(q) \/ Load(q) PROVE FALSE
    BY <2>4 DEF SaveSnapshot, SaveFails, Crash, Load
  <2>5. ASSUME NEW q \in Process, SaveWrite(q) PROVE file' = registry'[p]
    <3>1. q = p
      BY <2>0, <2>5 DEF SaveWrite
    <3> QED
      BY <2>0, <2>5, <3>1 DEF SaveWrite
  <2>6. ~UNCHANGED registryVars
    BY DEF registryVars
  <2> QED
    BY <2>1, <2>2, <2>3, <2>4, <2>5, <2>6, TransportAssumption DEF RegistryStep, FileCalls
<1> QED
  BY <1>1, Invariant, PTL DEF Spec, SavedIsCurrent

\* Whatever other connections, the registry and refused payloads do, a call on a
\* connection that never had one dropped reads the answer to its own request: order
\* alone pairs them (NativeClient, handle_connection).
THEOREM AnswersMatch == Spec => []AnswersItsRequest
<1>1. IInv => AnswersItsRequest
  <2> SUFFICES ASSUME IInv, NEW c \in Client, Reads(c)
               PROVE  \E a \in Answer : NextAnswer(c) = a /\ Answers(a, call[c], seen[c])
    BY DEF AnswersItsRequest, Answers
  <2>1. Paired(c) /\ answers[c] # <<>> /\ Head(answers[c]) # Torn
    BY DEF IInv, WireInv, Reads, NextAnswer
  <2> QED
    BY <2>1 DEF Paired, NextAnswer
<1> QED
  BY <1>1, Invariant, PTL

\* A .core file that answers such a call is one that the name had while the call waited
\* (handle_resolve_opt).
THEOREM AnsweredCurrently == Spec => []AnswerWasCurrent
<1>1. IInv => AnswerWasCurrent
  <2> SUFFICES ASSUME IInv, NEW c \in Client, Reads(c)
               PROVE  \E a \in Answer : NextAnswer(c) = a /\ Answers(a, call[c], seen[c])
    BY DEF AnswerWasCurrent, Answers
  <2>1. Paired(c) /\ answers[c] # <<>> /\ Head(answers[c]) # Torn
    BY DEF IInv, WireInv, Reads, NextAnswer
  <2> QED
    BY <2>1 DEF Paired, NextAnswer
<1> QED
  BY <1>1, Invariant, PTL

-----------------------------------------------------------------------------
(* The frames of the format and their readers.                             *)

Units == {Unit(i) : i \in Nat} \cup {Crc(Payload(n)) : n \in Nat}

\* A frame of n units as it was made, or with one damage.
FrameOf(n) ==
    /\ sent.length = n /\ sent.body = Append(Payload(n), Crc(Payload(n)))
    /\ got.length \in Nat /\ got.body \in Seq(Units)
    /\ \/ got.body = sent.body
       \/ got.length = n /\ Len(got.body) <= n
       \/ got.length = n /\ \E i \in 1..(n + 1) : got.body = [sent.body EXCEPT ![i] = Altered]

Arrived == \E n \in Nat : FrameOf(n)

ReaderType ==
    [pc: {"none", "open", "panicked"}, position: Nat, chunks: Seq(Units),
     checksum_validated: BOOLEAN, verdict: {"none", "good", "bad", "bad, then good"}]

\* An open reader holds the first units of what arrived, and what it found good
\* is good.
Delivered ==
    /\ reader.position <= got.length /\ reader.position <= Len(got.body)
    /\ reader.chunks = SubSeq(got.body, 1, reader.position)
    /\ reader.verdict = "good" => ~Overrun /\ got.body[got.length + 1] = Crc(Claimed)

\* Before a reader is opened it has read nothing.
ReaderHolds ==
    /\ reader \in ReaderType
    /\ reader.pc = "none" => reader = NoReader
    /\ reader.pc = "open" => Delivered

StreamInv == Arrived /\ ReaderHolds

\* A payload of n units and its frame.
LEMMA PayloadType ==
    ASSUME NEW n \in Nat
    PROVE  /\ Payload(n) \in Seq(Units) /\ Len(Payload(n)) = n /\ Crc(Payload(n)) \in Units
           /\ LET body == Append(Payload(n), Crc(Payload(n))) IN
              /\ body \in Seq(Units) /\ Len(body) = n + 1 /\ DOMAIN body = 1..(n + 1)
              /\ body[n + 1] = Crc(Payload(n)) /\ \A i \in 1..n : body[i] = Unit(i)
           /\ Altered \in Units
<1>1. \A i \in 1..n : Unit(i) \in Units
  BY DEF Units
<1>2. Payload(n) \in [1..n -> Units]
  BY <1>1 DEF Payload
<1>3. Payload(n) \in Seq(Units) /\ Len(Payload(n)) = n
  BY <1>2
<1>4. Crc(Payload(n)) \in Units
  BY DEF Units
<1>5. Altered \in Units
  BY DEF Units, Altered, Unit
<1>6. \A i \in 1..n : Payload(n)[i] = Unit(i)
  BY DEF Payload
<1>7. QED
  BY <1>3, <1>4, <1>5, <1>6, AppendProperties

\* A checksum is no unit of a payload, and it is that of one sequence only.
LEMMA CrcTells ==
    /\ \A i, units : Unit(i) # Crc(units)
    /\ \A u, v : Crc(u) = Crc(v) => u = v
    /\ \A i, j : Unit(i) = Unit(j) => i = j
    /\ Altered = Unit(0)
BY DEF Unit, Crc, Altered

\* What passes the check of the length and of the checksum is what was sent: a
\* frame cut short is too short for its length, a changed unit is not what the
\* checksum is of, and another length puts the checksum elsewhere (binary.rs,
\* deserialize_* and validate_checksum).
LEMMA GoodIsSent ==
    ASSUME Arrived, ~Overrun, got.body[got.length + 1] = Crc(Claimed)
    PROVE  Append(Claimed, Crc(Claimed)) = sent.body
<1>1. PICK n \in Nat : FrameOf(n)
  BY DEF Arrived
<1> DEFINE pay == Payload(n)
           m == got.length
<1>2. /\ sent.body = Append(pay, Crc(pay)) /\ pay \in Seq(Units) /\ Len(pay) = n
      /\ sent.body \in Seq(Units) /\ Len(sent.body) = n + 1 /\ DOMAIN sent.body = 1..(n + 1)
      /\ sent.body[n + 1] = Crc(pay) /\ \A i \in 1..n : sent.body[i] = Unit(i)
  BY <1>1, PayloadType DEF FrameOf
<1>3. \A i \in 1..n : pay[i] = Unit(i)
  BY DEF Payload
<1>4. m \in Nat /\ got.body \in Seq(Units) /\ m < Len(got.body) /\ Claimed = SubSeq(got.body, 1, m)
      /\ Len(got.body) \in Nat
  BY <1>1 DEF FrameOf, Overrun, Claimed
<1>5. /\ Claimed \in Seq(Units) /\ Len(Claimed) = m
      /\ \A i \in 1..m : Claimed[i] = got.body[i]
  <2>1. \A i \in 1..m : got.body[i] \in Units
    BY <1>4, ElementOfSeq
  <2>2. QED
    BY <1>4, <2>1, SubSeqProperties
<1> HIDE DEF pay, m
<1>6. CASE got.body = sent.body
  <2>1. m <= n
    BY <1>2, <1>4, <1>6
  <2>2. CASE m < n
    <3>1. got.body[m + 1] = Unit(m + 1)
      BY <1>2, <1>4, <1>6, <2>2
    <3>2. QED
      BY <3>1, CrcTells DEF m
  <2>3. CASE m = n
    <3>1. Claimed = pay
      BY <1>2, <1>3, <1>5, <1>6, <2>3, SeqEqual
    <3>2. QED
      BY <1>2, <3>1
  <2>4. QED
    BY <1>4, <2>1, <2>2, <2>3
<1>7. CASE m = n /\ Len(got.body) <= n
  BY <1>4, <1>7
<1>8. ASSUME m = n, NEW i \in 1..(n + 1), got.body = [sent.body EXCEPT ![i] = Altered]
      PROVE  FALSE
  <2>1. got.body[i] = Altered /\ \A j \in 1..(n + 1) : j # i => got.body[j] = sent.body[j]
    BY <1>2, <1>8
  <2>2. CASE i = n + 1
    BY <1>8, <2>1, <2>2, CrcTells DEF m
  <2>3. CASE i \in 1..n
    <3>1. got.body[n + 1] = Crc(pay)
      BY <1>2, <2>1, <2>3
    <3>2. Claimed = pay
      BY <1>8, <3>1, CrcTells DEF m
    <3>3. Claimed[i] = Unit(0) /\ pay[i] = Unit(i)
      BY <1>3, <1>5, <1>8, <2>1, <2>3, CrcTells
    <3>4. QED
      BY <2>3, <3>2, <3>3, CrcTells
  <2>4. QED
    BY <2>2, <2>3
<1>9. QED
  BY <1>1, <1>6, <1>7, <1>8 DEF FrameOf, m

\* The medium does one damage (external), and only before the frame is read.
LEMMA DamageStep == ASSUME StreamInv, Damage PROVE StreamInv'
<1>1. PICK n \in Nat : FrameOf(n)
  BY DEF StreamInv, Arrived
<1>2. /\ got = sent /\ sent' = sent /\ reader' = reader /\ reader.pc = "none"
  BY DEF Damage
<1>3. /\ sent.length = n /\ sent.body \in Seq(Units) /\ Len(sent.body) = n + 1
      /\ DOMAIN sent.body = 1..(n + 1) /\ Altered \in Units
  BY <1>1, PayloadType DEF FrameOf
<1>4. ReaderHolds'
  BY <1>2 DEF StreamInv, ReaderHolds, NoReader
<1>5. FrameOf(n)'
  <2> SUFFICES /\ got'.length \in Nat /\ got'.body \in Seq(Units)
               /\ \/ got'.body = sent.body
                  \/ got'.length = n /\ Len(got'.body) <= n
                  \/ got'.length = n /\ \E i \in 1..(n + 1) : got'.body = [sent.body EXCEPT ![i] = Altered]
    BY <1>1, <1>2 DEF FrameOf
  <2>1. ASSUME NEW k \in 0..Len(sent.body) - 1, got' = [sent EXCEPT !.body = SubSeq(@, 1, k)]
        PROVE  got'.length = n /\ got'.body \in Seq(Units) /\ Len(got'.body) <= n
    <3>1. \A i \in 1..k : sent.body[i] \in Units
      BY <1>3, ElementOfSeq
    <3>2. SubSeq(sent.body, 1, k) \in Seq(Units) /\ Len(SubSeq(sent.body, 1, k)) = k
      BY <1>3, <3>1, SubSeqProperties
    <3>3. got'.length = sent.length /\ got'.body = SubSeq(sent.body, 1, k)
      BY <2>1
    <3>4. QED
      BY <1>3, <3>2, <3>3
  <2>2. ASSUME NEW i \in DOMAIN sent.body, got' = [sent EXCEPT !.body[i] = Altered]
        PROVE  /\ got'.length = n /\ got'.body \in Seq(Units)
               /\ i \in 1..(n + 1) /\ got'.body = [sent.body EXCEPT ![i] = Altered]
    <3>1. got'.length = sent.length /\ got'.body = [sent.body EXCEPT ![i] = Altered]
      BY <2>2
    <3>2. [sent.body EXCEPT ![i] = Altered] \in Seq(Units)
      BY <1>3, ExceptSeq
    <3>3. QED
      BY <1>3, <3>1, <3>2
  <2>3. ASSUME NEW k \in 0..MaxUnits, got' = [sent EXCEPT !.length = k]
        PROVE  got'.length \in Nat /\ got'.body = sent.body
    BY <2>3
  <2>4. ASSUME NEW kind \in Kinds, got' = [sent EXCEPT !.payload_type = kind]
        PROVE  got'.length = n /\ got'.body = sent.body
    BY <1>3, <2>4
  <2>5. QED
    BY <1>1, <1>3, <2>1, <2>2, <2>3, <2>4 DEF Damage
<1>6. QED
  BY <1>4, <1>5 DEF StreamInv, Arrived

\* What a reader is made of.
LEMMA ReaderFields ==
    ASSUME NEW r \in ReaderType
    PROVE  r.position \in Nat /\ r.verdict \in {"none", "good", "bad", "bad, then good"}
BY DEF ReaderType

\* A reader delivers the next units, or stops (BinaryStreamReader).
LEMMA ReaderStep ==
    ASSUME StreamInv, Open \/ (\E max \in 1..MaxUnits : ReadChunk(max)) \/ ValidateChecksum
    PROVE  StreamInv'
<1>1. sent' = sent /\ got' = got
  BY DEF Open, ReadChunk, ValidateChecksum
<1>2. Arrived'
  BY <1>1 DEF StreamInv, Arrived, FrameOf
<1>3. /\ got.length \in Nat /\ got.body \in Seq(Units) /\ Len(got.body) \in Nat
  BY DEF StreamInv, Arrived, FrameOf
<1>4. Overrun' = Overrun /\ Claimed' = Claimed
  BY <1>1 DEF Overrun, Claimed
<1>5. /\ reader \in ReaderType /\ reader.position \in Nat
      /\ reader.verdict \in {"none", "good", "bad", "bad, then good"}
  BY ReaderFields DEF StreamInv, ReaderHolds
<1>r. reader \in ReaderType
  BY <1>5
<1>6. reader.pc = "open" => Delivered
  BY DEF StreamInv, ReaderHolds
\* It is enough that a reader that is open still holds what it should.
<1>7. ASSUME reader' \in ReaderType, reader'.pc \in {"open", "panicked"},
             reader'.pc = "open" => Delivered'
      PROVE  ReaderHolds'
  BY <1>7 DEF ReaderHolds
<1>8. ASSUME reader' = [reader EXCEPT !.pc = "panicked"] PROVE ReaderHolds'
  <2>1. [reader EXCEPT !.pc = "panicked"] \in ReaderType /\ [reader EXCEPT !.pc = "panicked"].pc = "panicked"
    BY <1>5 DEF ReaderType
  <2>2. reader' \in ReaderType /\ reader'.pc = "panicked"
    BY <1>8, <2>1
  <2>3. QED
    BY <1>7, <2>2
<1>a. ASSUME Open PROVE ReaderHolds'
  <2>1. reader' = [reader EXCEPT !.pc = "open"] /\ reader = NoReader
    BY <1>a DEF Open, StreamInv, ReaderHolds
  <2>2. reader' = [pc |-> "open", position |-> 0, chunks |-> <<>>, checksum_validated |-> FALSE,
                   verdict |-> "none"]
    BY <2>1 DEF NoReader
  <2>3. /\ reader' \in ReaderType /\ reader'.pc = "open" /\ reader'.position = 0
        /\ reader'.chunks = <<>> /\ reader'.verdict = "none"
    BY <2>2 DEF ReaderType
  <2>4. SubSeq(got.body, 1, 0) = <<>>
    BY SubSeqEmpty
  <2>5. Delivered'
    BY <1>1, <1>3, <2>3, <2>4 DEF Delivered
  <2>6. QED
    BY <1>7, <2>3, <2>5
<1>b. ASSUME NEW max \in 1..MaxUnits, ReadChunk(max) PROVE ReaderHolds'
  <2>1. PICK n : n = IF max < got.length - reader.position THEN max ELSE got.length - reader.position
    OBVIOUS
  <2>2. reader.pc = "open" /\ n > 0
    BY <1>b, <2>1 DEF ReadChunk
  <2>3. /\ reader.position <= got.length /\ reader.position <= Len(got.body)
        /\ reader.chunks = SubSeq(got.body, 1, reader.position)
        /\ reader.verdict = "good" => ~Overrun /\ got.body[got.length + 1] = Crc(Claimed)
    BY <1>6, <2>2 DEF Delivered
  <2> DEFINE p == reader.position
             l == got.length
             bytes == Len(got.body)
  <2>x. /\ p \in Nat /\ l \in Nat /\ bytes \in Nat /\ p <= l /\ n > 0
        /\ n = IF max < l - p THEN max ELSE l - p
    BY <1>3, <1>5, <2>1, <2>2, <2>3
  <2> HIDE DEF p, l, bytes
  <2>y. /\ n \in Nat /\ p + n \in Nat /\ p + n <= l
        /\ ~(p + n > bytes) =>
              /\ p + n <= bytes /\ 1 \in 1..bytes + 1
              /\ p \in 1 - 1..bytes /\ p + n \in p..bytes
    BY <2>x
  <2>4. /\ n \in Nat /\ reader.position + n \in Nat /\ reader.position + n <= got.length
        /\ ~(reader.position + n > Len(got.body)) =>
              /\ reader.position + n <= Len(got.body) /\ 1 \in 1..Len(got.body) + 1
              /\ reader.position \in 1 - 1..Len(got.body)
              /\ reader.position + n \in reader.position..Len(got.body)
    BY <2>y DEF p, l, bytes
  <2>5. CASE reader.position + n > Len(got.body)
    BY <1>8, <1>b, <2>1, <2>5 DEF ReadChunk
  <2>6. CASE ~(reader.position + n > Len(got.body))
    <3> DEFINE k == reader.position + n
               u == reader.chunks \o SubSeq(got.body, reader.position + 1, reader.position + n)
    <3>1. reader' = [reader EXCEPT !.position = k, !.chunks = u]
      BY <1>b, <2>1, <2>6 DEF ReadChunk
    <3>2. k \in Nat /\ k <= got.length /\ k <= Len(got.body)
      BY <2>4, <2>6
    <3>3. u = SubSeq(got.body, 1, k)
      <4>1. /\ 1 \in 1..Len(got.body) + 1 /\ reader.position \in 1 - 1..Len(got.body)
            /\ k \in reader.position..Len(got.body)
        BY <2>4, <2>6
      <4>2. QED
        BY <1>3, <2>3, <4>1, ConcatAdjacentSubSeq
    <3>4. SubSeq(got.body, 1, k) \in Seq(Units)
      <4>1. \A i \in 1..k : got.body[i] \in Units
        BY <1>3, <3>2, ElementOfSeq
      <4>2. QED
        BY <3>2, <4>1, SubSeqProperties
    <3> HIDE DEF k, u
    <3>5. u \in Seq(Units)
      BY <3>3, <3>4
    <3>k. k \in Nat
      BY <3>2
    <3>6. /\ reader' \in ReaderType /\ reader'.pc = reader.pc /\ reader'.position = k
          /\ reader'.chunks = u /\ reader'.verdict = reader.verdict
      BY ONLY <1>r, <3>1, <3>k, <3>5 DEF ReaderType
    <3>7. reader'.pc = "open"
      BY <2>2, <3>6
    <3>8. Delivered'
      BY <1>1, <1>4, <2>3, <3>2, <3>3, <3>6 DEF Delivered
    <3>9. QED
      BY <1>7, <3>6, <3>7, <3>8
  <2>7. QED
    BY <2>5, <2>6
<1>c. ASSUME ValidateChecksum PROVE ReaderHolds'
  <2>1. reader.pc = "open"
    BY <1>c DEF ValidateChecksum
  <2>2. /\ reader.position <= got.length /\ reader.position <= Len(got.body)
        /\ reader.chunks = SubSeq(got.body, 1, reader.position)
        /\ reader.verdict = "good" => ~Overrun /\ got.body[got.length + 1] = Crc(Claimed)
    BY <1>6, <2>1 DEF Delivered
  \* A validation changes the verdict at most.
  <2>3. ASSUME reader' \in ReaderType, reader'.pc = reader.pc, reader'.position = reader.position,
               reader'.chunks = reader.chunks,
               reader'.verdict = "good" => ~Overrun /\ got.body[got.length + 1] = Crc(Claimed)
        PROVE  ReaderHolds'
    <3>1. Delivered'
      BY <1>1, <1>4, <2>2, <2>3 DEF Delivered
    <3>2. QED
      BY <1>7, <2>1, <2>3, <3>1
  <2>4. CASE reader.checksum_validated
    <3>1. PICK v : v = IF reader.verdict = "bad" THEN "bad, then good" ELSE reader.verdict
      OBVIOUS
    <3>2. reader' = [reader EXCEPT !.verdict = v]
      BY <1>c, <2>4, <3>1 DEF ValidateChecksum
    <3>3. v \in {"none", "good", "bad", "bad, then good"} /\ (v = "good" => reader.verdict = "good")
      BY <1>5, <3>1
    <3>4. /\ reader' \in ReaderType /\ reader'.pc = reader.pc
          /\ reader'.position = reader.position /\ reader'.chunks = reader.chunks
          /\ reader'.verdict = v
      BY ONLY <1>r, <3>2, <3>3 DEF ReaderType
    <3>5. reader'.verdict = "good" => ~Overrun /\ got.body[got.length + 1] = Crc(Claimed)
      BY <2>2, <3>3, <3>4
    <3>6. QED
      BY <2>3, <3>4, <3>5
  <2>5. CASE ~reader.checksum_validated /\ Overrun
    BY <1>8, <1>c, <2>5 DEF ValidateChecksum
  <2>6. CASE ~reader.checksum_validated /\ ~Overrun
    <3>1. PICK v : v = IF got.body[got.length + 1] = Crc(Claimed) THEN "good" ELSE "bad"
      OBVIOUS
    <3>2. reader' = [reader EXCEPT !.checksum_validated = TRUE, !.verdict = v]
      BY <1>c, <2>6, <3>1 DEF ValidateChecksum
    <3>3. v \in {"none", "good", "bad", "bad, then good"}
          /\ (v = "good" => got.body[got.length + 1] = Crc(Claimed))
      BY <3>1
    <3>4. /\ reader' \in ReaderType /\ reader'.pc = reader.pc
          /\ reader'.position = reader.position /\ reader'.chunks = reader.chunks
          /\ reader'.verdict = v
      BY ONLY <1>r, <3>2, <3>3 DEF ReaderType
    <3>5. reader'.verdict = "good" => ~Overrun /\ got.body[got.length + 1] = Crc(Claimed)
      BY <2>6, <3>3, <3>4
    <3>6. QED
      BY <2>3, <3>4, <3>5
  <2>7. QED
    BY <2>4, <2>5, <2>6
<1>d. QED
  BY <1>2, <1>a, <1>b, <1>c DEF StreamInv

\* A frame has at most one damage, and its reader holds the first units of it,
\* for payloads of any size (binary.rs).
THEOREM StreamInvariant == StreamSpec => []StreamInv
<1>1. StreamInit => StreamInv
  <2> SUFFICES ASSUME StreamInit PROVE StreamInv
    OBVIOUS
  <2>1. PICK kind \in Kinds, n \in 0..MaxUnits : sent = Frame(kind, Payload(n))
    BY DEF StreamInit
  <2>2. n \in Nat
    OBVIOUS
  <2>3. FrameOf(n)
    BY <2>1, <2>2, PayloadType DEF StreamInit, Frame, FrameOf
  <2>4. ReaderHolds
    BY DEF StreamInit, NoReader, ReaderHolds, ReaderType
  <2>5. QED
    BY <2>2, <2>3, <2>4 DEF StreamInv, Arrived
<1>2. StreamInv /\ [StreamNext]_streamVars => StreamInv'
  <2>1. ASSUME StreamInv, UNCHANGED streamVars PROVE StreamInv'
    BY <2>1 DEF streamVars, StreamInv, Arrived, FrameOf, ReaderHolds, Delivered, Overrun, Claimed
  <2>2. ASSUME StreamInv, StreamNext PROVE StreamInv'
    BY <2>2, DamageStep, ReaderStep DEF StreamNext
  <2>3. QED
    BY <2>1, <2>2
<1>3. QED
  BY <1>1, <1>2, PTL DEF StreamSpec

\* What deserialize_* accepts is what was serialised, and it panics only on a
\* frame that lost its end or whose length was changed (binary.rs).
THEOREM AcceptedWhole == StreamSpec => []AcceptedIsSent
<1>1. StreamInv => AcceptedIsSent
  <2> SUFFICES ASSUME StreamInv, NEW kind \in Kinds
               PROVE  /\ Deserialize(kind) = "accepted" => Append(Claimed, Crc(Claimed)) = sent.body
                      /\ Deserialize(kind) = "panic" =>
                            got.length # sent.length \/ Len(got.body) < Len(sent.body)
    BY DEF AcceptedIsSent
  <2>1. Deserialize(kind) = "accepted" => ~Overrun /\ got.body[got.length + 1] = Crc(Claimed)
    BY DEF Deserialize
  <2>2. Deserialize(kind) = "panic" => Overrun
    BY DEF Deserialize
  <2>3. PICK n \in Nat : FrameOf(n)
    BY DEF StreamInv, Arrived
  <2>4. sent.length = n /\ Len(sent.body) = n + 1 /\ Len(got.body) \in Nat /\ got.length \in Nat
    <3>1. Len(Append(Payload(n), Crc(Payload(n)))) = n + 1
      BY PayloadType
    <3>2. sent.length = n /\ sent.body = Append(Payload(n), Crc(Payload(n)))
          /\ got.length \in Nat /\ got.body \in Seq(Units)
      BY <2>3 DEF FrameOf
    <3>3. QED
      BY <3>1, <3>2
  <2>5. Overrun => got.length # sent.length \/ Len(got.body) < Len(sent.body)
    BY <2>4 DEF Overrun
  <2>6. QED
    BY <2>1, <2>2, <2>5, GoodIsSent DEF StreamInv
<1>2. QED
  BY <1>1, StreamInvariant, PTL

\* A reader delivers a prefix of what arrived, whatever the sizes of its chunks,
\* and when it is complete with a good verdict, all of what was sent
\* (BinaryStreamReader).
THEOREM ChunksWhole == StreamSpec => []ChunksAreThePayload
<1>1. StreamInv => ChunksAreThePayload
  <2> SUFFICES ASSUME StreamInv, reader.pc = "open"
               PROVE  /\ IsPrefix(reader.chunks, Claimed)
                      /\ IsComplete /\ reader.verdict = "good" =>
                            Append(reader.chunks, Crc(reader.chunks)) = sent.body
    BY DEF ChunksAreThePayload
  <2>1. PICK k : k = reader.position
    OBVIOUS
  <2>2. /\ k \in Nat /\ k <= got.length /\ k <= Len(got.body) /\ reader.chunks = SubSeq(got.body, 1, k)
        /\ reader.verdict = "good" => ~Overrun /\ got.body[got.length + 1] = Crc(Claimed)
        /\ got.length \in Nat /\ got.body \in Seq(Units) /\ Len(got.body) \in Nat
    <3>1. k \in Nat /\ Delivered
      BY <2>1, ReaderFields DEF StreamInv, ReaderHolds
    <3>2. got.length \in Nat /\ got.body \in Seq(Units) /\ Len(got.body) \in Nat
      BY DEF StreamInv, Arrived, FrameOf
    <3>3. QED
      BY <2>1, <3>1, <3>2 DEF Delivered
  <2>3. \A i \in 1..Len(got.body) : got.body[i] \in Units
    BY <2>2, ElementOfSeq
  <2>4. /\ SubSeq(got.body, 1, k) \in Seq(Units) /\ Len(SubSeq(got.body, 1, k)) = k
        /\ \A i \in 1..k : SubSeq(got.body, 1, k)[i] = got.body[i]
    BY <2>2, <2>3, SubSeqProperties
  <2>5. /\ Claimed \in Seq(Units) /\ k <= Len(Claimed) /\ Len(Claimed) \in Nat
        /\ \A i \in 1..k : Claimed[i] = got.body[i]
    <3>1. CASE Overrun
      BY <2>2, <3>1 DEF Claimed
    <3>2. CASE ~Overrun
      <4>1. Claimed = SubSeq(got.body, 1, got.length) /\ got.length <= Len(got.body)
        BY <2>2, <3>2 DEF Claimed, Overrun
      <4>2. /\ SubSeq(got.body, 1, got.length) \in Seq(Units)
            /\ Len(SubSeq(got.body, 1, got.length)) = got.length
            /\ \A i \in 1..got.length : SubSeq(got.body, 1, got.length)[i] = got.body[i]
        BY <2>2, <2>3, <4>1, SubSeqProperties
      <4>3. QED
        BY <2>2, <4>1, <4>2
    <3>3. QED
      BY <3>1, <3>2
  <2>6. /\ SubSeq(Claimed, 1, k) \in Seq(Units) /\ Len(SubSeq(Claimed, 1, k)) = k
        /\ \A i \in 1..k : SubSeq(Claimed, 1, k)[i] = Claimed[i]
    <3>1. \A i \in 1..k : Claimed[i] \in Units
      BY <2>2, <2>5, ElementOfSeq
    <3>2. QED
      BY <2>2, <3>1, SubSeqProperties
  <2>7. SubSeq(got.body, 1, k) = SubSeq(Claimed, 1, k)
    BY <2>4, <2>5, <2>6, SeqEqual
  <2>8. IsPrefix(reader.chunks, Claimed)
    <3>1. SubSeq(reader.chunks, 1, Len(reader.chunks)) = reader.chunks /\ Len(reader.chunks) = k
      BY <2>2, <2>4, SubSeqFull
    <3>2. QED
      BY <2>2, <2>5, <2>7, <3>1 DEF IsPrefix
  <2>9. ASSUME IsComplete, reader.verdict = "good"
        PROVE  Append(reader.chunks, Crc(reader.chunks)) = sent.body
    <3>1. k = got.length /\ ~Overrun
      BY <2>1, <2>2, <2>9 DEF IsComplete
    <3>2. reader.chunks = Claimed
      BY <2>2, <3>1 DEF Claimed
    <3>3. QED
      BY <2>2, <2>9, <3>2, GoodIsSent DEF StreamInv
  <2>10. QED
    BY <2>8, <2>9
<1>2. QED
  BY <1>1, StreamInvariant, PTL

-----------------------------------------------------------------------------
(* The client's retries and batches.                                       *)

Place == {"spawned", "waiting", "asleep", "done"}
Result == {"pending", "exhausted", "panic", "server", "rejected", "ok", "network", "timeout"}
Call == [at: Place, attempt: Nat, backoff: Int, timestamp: Nat, deadline: Int,
         sent: SUBSET Nat, result: Result]

CallTypes ==
    /\ retry \in Config
    /\ task \in [Task -> Call]
    /\ executed \in [Task -> Nat]
    /\ now \in Nat

\* The attempts of a call: each that is under way is one it has made, it has another
\* only within max_attempts, and it has no result until it is done.
Attempts(job) ==
    /\ IsFiniteSet(job.sent)
    /\ job.sent \subseteq 1..job.attempt
    /\ job.attempt <= retry.max_attempts
    /\ job.at = "spawned" => job.attempt = 0
    /\ job.at = "asleep" => job.attempt < retry.max_attempts
    /\ job.at \in {"waiting", "asleep"} => job.attempt >= 1
    /\ job.at # "done" => job.result = "pending"

\* The work a server did for a call and may still do.
Work(job, n) ==
    /\ n + Cardinality(job.sent) <= job.attempt
    /\ job.result = "ok" => n >= 1
    /\ job.result = "exhausted" => job.attempt = 0

\* The longest sleep after the k-th attempt: only the first backoff may be above the cap.
Sleep(k) == IF k = 1 THEN retry.initial_backoff ELSE retry.max_backoff

\* The longest that k attempts take, with the sleeps between them.
Spent(k) ==
    k * Timeout
    + (IF k >= 2 THEN retry.initial_backoff ELSE 0)
    + (IF k > 2 THEN (k - 2) * retry.max_backoff ELSE 0)

\* How far a call is from the instant of its timestamp: no timer is late.
OnTime(job) ==
    /\ job.at = "waiting" =>
         /\ job.backoff <= Sleep(job.attempt)
         /\ now <= job.deadline
         /\ job.deadline <= job.timestamp + Spent(job.attempt)
    /\ job.at = "asleep" =>
         /\ job.backoff <= retry.max_backoff
         /\ now <= job.timestamp + Spent(job.attempt) + Sleep(job.attempt)
         /\ job.deadline <= job.timestamp + Spent(job.attempt) + Sleep(job.attempt)

\* A call is refused for its age only if its worst duration does not fit into the window.
Fresh(job) == Worst <= Window => job.result # "rejected"

\* A call for which the server has worked n times.
Good(job, n) ==
    /\ job \in Call /\ n \in Nat
    /\ Attempts(job) /\ Work(job, n) /\ OnTime(job) /\ Fresh(job)

CallInv == CallTypes /\ \A t \in Task : Good(task[t], executed[t])

-----------------------------------------------------------------------------
\* The numbers of a configuration.
LEMMA Numbers ==
    ASSUME CallTypes
    PROVE  /\ retry.max_attempts \in Nat /\ retry.backoff_multiplier \in Int
           /\ retry.initial_backoff \in Nat /\ retry.max_backoff \in Nat
           /\ Timeout \in Nat /\ Window \in Nat /\ now \in Nat
BY ClientAssumption DEF CallTypes

\* More of a positive number is more.
LEMMA Multiples ==
    ASSUME NEW a \in Nat, NEW b \in Nat, NEW c \in Nat, a <= b
    PROVE  a * c \in Nat /\ a * c <= b * c /\ (a + 1) * c = a * c + c
OBVIOUS

\* Products of whole numbers are whole numbers.
LEMMA Products == \A a, b \in Int : a * b \in Int
OBVIOUS

\* One attempt more lasts a sleep and a timeout more; all attempts last the worst
\* duration.
LEMMA SpentStep ==
    ASSUME CallTypes, NEW k \in Nat \ {0}
    PROVE  /\ Spent(k) \in Nat /\ Sleep(k) \in Nat
           /\ Spent(1) = Timeout
           /\ Spent(k + 1) = Spent(k) + Sleep(k) + Timeout
           /\ k <= retry.max_attempts => Spent(k) <= Worst
           /\ Worst \in Nat
<1> DEFINE m == retry.max_attempts
           T == Timeout
           i == retry.initial_backoff
           c == retry.max_backoff
<1>1. m \in Nat /\ T \in Nat /\ i \in Nat /\ c \in Nat
  BY Numbers
<1>2. k * T \in Nat /\ (k + 1) * T = k * T + T /\ (k <= m => k * T <= m * T) /\ m * T \in Nat
  BY <1>1, Multiples
<1>3. CASE k = 1
  <2>1. Spent(1) = T /\ Spent(2) = 2 * T + i /\ Sleep(1) = i
    BY <1>1 DEF Spent, Sleep
  <2>2. (Spent(1) <= Worst /\ Worst \in Nat) \/ m < 1
    <3>1. m > 2 => (m - 2) * c \in Nat
      BY <1>1, Multiples
    <3> QED
      BY <1>1, <1>2, <1>3, <2>1, <3>1 DEF Worst
  <2>3. m < 1 => Worst \in Nat
    BY <1>1, <1>2 DEF Worst
  <2> QED
    BY <1>1, <1>2, <1>3, <2>1, <2>2, <2>3
<1>4. CASE k >= 2
  <2>1. k - 2 \in Nat /\ (k - 2) * c \in Nat /\ (k - 1) * c = (k - 2) * c + c
    <3>1. k - 2 \in Nat /\ (k - 2) + 1 = k - 1
      BY <1>4
    <3> QED
      BY <1>1, <3>1, Multiples
  <2>2. Spent(k) = k * T + i + (k - 2) * c
    <3>1. k = 2 => (k - 2) * c = 0
      BY <1>1
    <3> QED
      BY <1>1, <1>2, <1>4, <2>1, <3>1 DEF Spent
  <2>3. Spent(k + 1) = (k + 1) * T + i + (k - 1) * c /\ Sleep(k) = c
    BY <1>1, <1>4 DEF Spent, Sleep
  <2>4. k <= m => Worst = m * T + i + (m - 2) * c /\ (k - 2) * c <= (m - 2) * c
    <3> SUFFICES ASSUME k <= m
                 PROVE  Worst = m * T + i + (m - 2) * c /\ (k - 2) * c <= (m - 2) * c
      OBVIOUS
    <3>1. m - 2 \in Nat /\ k - 2 <= m - 2
      BY <1>1, <1>4
    <3>2. (k - 2) * c <= (m - 2) * c /\ (m - 2) * c \in Nat
      BY <1>1, <2>1, <3>1, Multiples
    <3>3. m = 2 => (m - 2) * c = 0
      BY <1>1
    <3> QED
      BY <1>1, <1>2, <1>4, <3>1, <3>2, <3>3 DEF Worst
  <2>5. Worst \in Nat
    <3>1. m > 2 => (m - 2) * c \in Nat
      BY <1>1, Multiples
    <3> QED
      BY <1>1, <1>2, <3>1 DEF Worst
  <2>6. Spent(1) = T
    BY <1>1 DEF Spent
  <2> QED
    BY <1>1, <1>2, <2>1, <2>2, <2>3, <2>4, <2>5, <2>6
<1> QED
  BY <1>3, <1>4

-----------------------------------------------------------------------------
(* What execute_with_retry makes of a job.                                *)

\* The updates of a call keep it one.
LEMMA CallUpdates ==
    ASSUME NEW job \in Call
    PROVE  /\ \A at \in Place, d \in Int, result \in Result :
                 [job EXCEPT !.at = at, !.deadline = d, !.result = result] \in Call
           /\ \A at \in Place, k \in Nat, d \in Int, on \in SUBSET Nat :
                 [job EXCEPT !.at = at, !.attempt = k, !.deadline = d, !.sent = on] \in Call
           /\ \A at \in Place, d \in Int, b \in Int :
                 [job EXCEPT !.at = at, !.deadline = d, !.backoff = b] \in Call
           /\ \A b \in Int, t \in Nat : [job EXCEPT !.backoff = b, !.timestamp = t] \in Call
BY DEF Call

\* A call that ends keeps its work; only an answer makes it "ok", and only a window
\* that is too short for its configuration "rejected".
LEMMA EndedGood ==
    ASSUME NEW job, NEW n, Good(job, n), job.at # "done",
           NEW result \in Result,
           result = "ok" => n >= 1,
           result = "exhausted" => job.attempt = 0,
           result = "rejected" => ~(Worst <= Window)
    PROVE  Good(Ended(job, result), n)
<1> DEFINE next == Ended(job, result)
<1>1. /\ next \in Call
      /\ next.at = "done" /\ next.result = result
      /\ next.attempt = job.attempt /\ next.sent = job.sent
  <2>1. job \in Call /\ "done" \in Place /\ 0 \in Int
    BY DEF Good, Place
  <2>2. next \in Call
    BY <2>1, CallUpdates DEF Ended
  <2> QED
    BY <2>1, <2>2 DEF Call, Ended
<1>2. Attempts(next)
  BY <1>1 DEF Good, Attempts
<1>3. Work(next, n)
  BY <1>1 DEF Good, Work
<1>4. OnTime(next) /\ Fresh(next)
  BY <1>1 DEF OnTime, Fresh
<1> QED
  BY <1>1, <1>2, <1>3, <1>4 DEF Good

\* One attempt more is under way, and its deadline is in time if the call is.
LEMMA AttemptedGood ==
    ASSUME CallTypes, NEW job, NEW n, Good(job, n),
           job.at \in {"spawned", "asleep"}, job.attempt < retry.max_attempts,
           job.backoff <= Sleep(job.attempt + 1),
           now + Timeout <= job.timestamp + Spent(job.attempt + 1)
    PROVE  Good(Attempted(job), n)
<1> DEFINE next == Attempted(job)
           k == job.attempt + 1
<1>0. job \in Call /\ n \in Nat /\ Attempts(job) /\ Work(job, n) /\ Fresh(job)
  BY DEF Good
<1>1. job.attempt \in Nat /\ job.sent \in SUBSET Nat
  BY <1>0 DEF Call
<1>2. /\ next \in Call
      /\ next.at = "waiting" /\ next.attempt = k /\ next.deadline = now + Timeout
      /\ next.backoff = job.backoff /\ next.timestamp = job.timestamp
      /\ next.result = job.result /\ next.sent = job.sent \cup {k}
  <2>1. "waiting" \in Place /\ k \in Nat /\ now + Timeout \in Int /\ job.sent \cup {k} \in SUBSET Nat
    BY <1>1, Numbers DEF Place
  <2>2. next \in Call
    BY <1>0, <2>1, CallUpdates DEF Attempted
  <2> QED
    BY <1>0, <2>2 DEF Call, Attempted
<1>3. /\ IsFiniteSet(next.sent) /\ Cardinality(next.sent) = Cardinality(job.sent) + 1
      /\ Cardinality(job.sent) \in Nat
  <2>1. IsFiniteSet(job.sent) /\ k \notin job.sent
    BY <1>0, <1>1 DEF Attempts
  <2> QED
    BY <1>2, <2>1, FS_AddElement, FS_CardinalityType
<1>4. Attempts(next)
  <2>1. job.result = "pending" /\ job.sent \subseteq 1..job.attempt
    BY <1>0 DEF Attempts
  <2> QED
    BY <1>1, <1>2, <1>3, <2>1, Numbers DEF Attempts
<1>5. Work(next, n)
  <2>1. job.result = "pending"
    BY <1>0 DEF Attempts
  <2> QED
    BY <1>0, <1>1, <1>2, <1>3, <2>1 DEF Work
<1>6. OnTime(next)
  BY <1>2, Numbers, ClientAssumption DEF OnTime
<1>7. Fresh(next)
  BY <1>0, <1>2 DEF Fresh
<1> QED
  BY <1>0, <1>2, <1>4, <1>5, <1>6, <1>7 DEF Good

\* The next backoff is a number, and under the cap.
LEMMA BackoffCapped ==
    ASSUME CallTypes, NEW b \in Int
    PROVE  NextBackoff(b) \in Int /\ NextBackoff(b) <= retry.max_backoff
<1>1. b * retry.backoff_multiplier \in Int /\ retry.max_backoff \in Int
  BY Numbers, Products
<1> QED
  BY <1>1 DEF NextBackoff, LeastOf

\* A failed attempt ends the call or lets it sleep, in time if the attempt was.
LEMMA FailedGood ==
    ASSUME CallTypes, NEW job, NEW n, Good(job, n), job.at = "waiting",
           NEW result \in {"server", "network", "timeout"}
    PROVE  Good(Failed(job, result), n)
<1>0. job \in Call /\ n \in Nat /\ Attempts(job) /\ Work(job, n) /\ OnTime(job) /\ Fresh(job)
  BY DEF Good
<1>1. CASE ~(job.attempt < retry.max_attempts)
  BY <1>1, EndedGood DEF Failed, Result
<1>2. CASE job.attempt < retry.max_attempts
  <2> DEFINE next == [job EXCEPT !.at = "asleep", !.deadline = now + job.backoff,
                                  !.backoff = NextBackoff(@)]
  <2>1. /\ job.attempt \in Nat \ {0} /\ job.backoff \in Int /\ job.timestamp \in Nat
        /\ job.deadline \in Int
    BY <1>0 DEF Call, Attempts
  <2>2. /\ next \in Call
        /\ next.at = "asleep" /\ next.attempt = job.attempt
        /\ next.deadline = now + job.backoff /\ next.backoff = NextBackoff(job.backoff)
        /\ next.timestamp = job.timestamp /\ next.result = job.result /\ next.sent = job.sent
    <3>1. "asleep" \in Place /\ now + job.backoff \in Int /\ NextBackoff(job.backoff) \in Int
      BY <2>1, BackoffCapped, Numbers DEF Place
    <3>2. next \in Call
      BY <1>0, <3>1, CallUpdates
    <3> QED
      BY <1>0, <3>2 DEF Call
  <2>3. Attempts(next)
    BY <1>0, <1>2, <2>2 DEF Attempts
  <2>4. Work(next, n)
    BY <1>0, <2>2 DEF Work
  <2>5. Spent(job.attempt) \in Nat /\ Sleep(job.attempt) \in Nat
    BY <2>1, SpentStep
  <2>6. OnTime(next)
    <3>1. /\ job.backoff <= Sleep(job.attempt) /\ now <= job.deadline
          /\ job.deadline <= job.timestamp + Spent(job.attempt)
      BY <1>0 DEF OnTime
    <3>2. /\ now <= job.timestamp + Spent(job.attempt) + Sleep(job.attempt)
          /\ now + job.backoff <= job.timestamp + Spent(job.attempt) + Sleep(job.attempt)
      BY <2>1, <2>5, <3>1, Numbers
    <3> QED
      BY <2>1, <2>2, <3>2, BackoffCapped DEF OnTime
  <2>7. Fresh(next)
    BY <1>0, <2>2 DEF Fresh
  <2>8. Failed(job, result) = next
    BY <1>2 DEF Failed
  <2> QED
    BY <1>0, <2>2, <2>3, <2>4, <2>6, <2>7, <2>8 DEF Good
<1> QED
  BY <1>1, <1>2

\* An attempt that is no longer under way may have been worked on, once.
LEMMA SettledGood ==
    ASSUME NEW job, NEW n, Good(job, n), NEW k \in job.sent
    PROVE  LET next == [job EXCEPT !.sent = @ \ {k}]
           IN  Good(next, n) /\ Good(next, n + 1)
<1> DEFINE next == [job EXCEPT !.sent = @ \ {k}]
<1>0. job \in Call /\ n \in Nat /\ Attempts(job) /\ Work(job, n) /\ OnTime(job) /\ Fresh(job)
  BY DEF Good
<1>1. /\ next \in Call
      /\ next.at = job.at /\ next.attempt = job.attempt /\ next.deadline = job.deadline
      /\ next.backoff = job.backoff /\ next.timestamp = job.timestamp
      /\ next.result = job.result /\ next.sent = job.sent \ {k}
  BY <1>0 DEF Call
<1>2. /\ IsFiniteSet(next.sent) /\ Cardinality(next.sent) = Cardinality(job.sent) - 1
      /\ Cardinality(job.sent) \in Nat /\ Cardinality(next.sent) \in Nat
  <2>1. IsFiniteSet(job.sent)
    BY <1>0 DEF Attempts
  <2> QED
    BY <1>1, <2>1, FS_RemoveElement, FS_CardinalityType
<1>3. Attempts(next)
  BY <1>0, <1>1, <1>2 DEF Attempts
<1>4. Work(next, n) /\ Work(next, n + 1)
  <2>1. job.attempt \in Nat
    BY <1>0 DEF Call
  <2> QED
    BY <1>0, <1>1, <1>2, <2>1 DEF Work
<1>5. OnTime(next) /\ Fresh(next)
  BY <1>0, <1>1 DEF OnTime, Fresh
<1> QED
  BY <1>0, <1>1, <1>3, <1>4, <1>5 DEF Good

\* A call that starts makes its first attempt, or none if it may make none.
LEMMA StartedGood ==
    ASSUME CallTypes, NEW job, NEW n, Good(job, n), job.at = "spawned"
    PROVE  Good(Started(job), n)
<1>0. job \in Call /\ n \in Nat /\ Attempts(job) /\ Work(job, n) /\ Fresh(job)
  BY DEF Good
<1>1. CASE retry.max_attempts = 0
  BY <1>0, <1>1, EndedGood DEF Started, Attempts, Result
<1>2. CASE retry.max_attempts # 0
  <2> DEFINE next == [job EXCEPT !.backoff = retry.initial_backoff, !.timestamp = now]
  <2>1. /\ next \in Call
        /\ next.at = "spawned" /\ next.attempt = 0 /\ next.sent = job.sent
        /\ next.backoff = retry.initial_backoff /\ next.timestamp = now
        /\ next.result = job.result /\ job.attempt = 0
    <3>1. next \in Call
      <4>1. retry.initial_backoff \in Int /\ now \in Nat
        BY Numbers
      <4> QED
        BY <1>0, <4>1, CallUpdates
    <3> QED
      BY <1>0, <3>1 DEF Call, Attempts
  <2>2. Good(next, n)
    <3>1. Attempts(next)
      BY <1>0, <2>1 DEF Attempts
    <3>2. Work(next, n)
      BY <1>0, <2>1 DEF Work
    <3>3. OnTime(next) /\ Fresh(next)
      BY <1>0, <2>1 DEF OnTime, Fresh
    <3> QED
      BY <1>0, <2>1, <3>1, <3>2, <3>3 DEF Good
  <2>3. next.attempt < retry.max_attempts
    BY <1>2, <2>1, Numbers
  <2>4. Sleep(1) = retry.initial_backoff /\ Spent(1) = Timeout
    BY SpentStep DEF Sleep
  <2>5. /\ next.backoff <= Sleep(next.attempt + 1)
        /\ now + Timeout <= next.timestamp + Spent(next.attempt + 1)
    BY <2>1, <2>4, Numbers
  <2>6. Good(Attempted(next), n)
    BY <2>1, <2>2, <2>3, <2>5, AttemptedGood
  <2> QED
    BY <1>2, <2>6 DEF Started
<1> QED
  BY <1>1, <1>2

\* A call that wakes makes its next attempt, or panics over its backoff.
LEMMA WokenGood ==
    ASSUME CallTypes, NEW job, NEW n, Good(job, n), job.at = "asleep"
    PROVE  Good(Woken(job), n)
<1>0. job \in Call /\ n \in Nat /\ Attempts(job) /\ Work(job, n) /\ OnTime(job)
  BY DEF Good
<1>1. CASE job.backoff < 0
  BY <1>1, EndedGood DEF Woken, Result
<1>2. CASE ~(job.backoff < 0)
  <2>1. /\ job.attempt \in Nat \ {0} /\ job.attempt < retry.max_attempts
        /\ job.timestamp \in Nat
        /\ job.backoff <= retry.max_backoff
        /\ now <= job.timestamp + Spent(job.attempt) + Sleep(job.attempt)
    BY <1>0 DEF Call, Attempts, OnTime
  <2>2. /\ Spent(job.attempt) \in Nat /\ Sleep(job.attempt) \in Nat
        /\ Spent(job.attempt + 1) = Spent(job.attempt) + Sleep(job.attempt) + Timeout
    BY <2>1, SpentStep
  <2>3. Sleep(job.attempt + 1) = retry.max_backoff
    BY <2>1 DEF Sleep
  <2>4. now + Timeout <= job.timestamp + Spent(job.attempt + 1)
    BY <2>1, <2>2, Numbers
  <2>5. Good(Attempted(job), n)
    BY <2>1, <2>3, <2>4, AttemptedGood
  <2> QED
    BY <1>2, <2>5 DEF Woken
<1> QED
  BY <1>1, <1>2

-----------------------------------------------------------------------------
\* One call changes, and what is true of it is true of all.
LEMMA CallStep ==
    ASSUME CallInv, NEW t \in Task, NEW job, NEW n, Good(job, n),
           task' = [task EXCEPT ![t] = job], executed' = [executed EXCEPT ![t] = n],
           UNCHANGED <<retry, now>>
    PROVE  CallInv'
<1>1. CallTypes'
  BY DEF CallInv, CallTypes, Good
<1>2. ASSUME NEW u \in Task PROVE Good(task[u], executed[u])'
  <2>1. Good(task'[u], executed'[u])
    BY DEF CallInv, CallTypes
  <2> QED
    BY <2>1 DEF Good, Attempts, Work, OnTime, Fresh, Worst, Sleep, Spent
<1> QED
  BY <1>1, <1>2 DEF CallInv

\* The same where the server does nothing.
LEMMA ClientStep ==
    ASSUME CallInv, NEW t \in Task, NEW job, Good(job, executed[t]),
           Becomes(t, job), UNCHANGED executed
    PROVE  CallInv'
<1>1. executed' = [executed EXCEPT ![t] = executed[t]]
  BY DEF CallInv, CallTypes
<1> QED
  BY <1>1, CallStep DEF Becomes

\* The clock leaves a call in time: it does not pass a deadline.
LEMMA TickStep == CallInv /\ Tick => CallInv'
<1> SUFFICES ASSUME CallInv, Tick PROVE CallInv'
  OBVIOUS
<1>1. CallTypes'
  BY DEF CallInv, CallTypes, Tick
<1>2. ASSUME NEW t \in Task PROVE Good(task[t], executed[t])'
  <2>1. Good(task[t], executed[t]) /\ now' = now + 1 /\ now \in Nat
    BY DEF CallInv, CallTypes, Tick
  <2>2. /\ task[t].at \in {"waiting", "asleep"} => now < task[t].deadline
        /\ task[t].deadline \in Int /\ task[t].timestamp \in Nat
        /\ UNCHANGED <<task, executed, retry>>
    BY <2>1 DEF Tick, Good, Call
  <2>3. OnTime(task[t])'
    <3> DEFINE k == task[t].attempt
    <3>1. task[t].at \in {"waiting", "asleep"} =>
            k \in Nat \ {0} /\ Spent(k) \in Nat /\ Sleep(k) \in Nat
      <4>1. task[t].at \in {"waiting", "asleep"} => k \in Nat \ {0}
        BY <2>1 DEF Good, Call, Attempts
      <4> QED
        BY <4>1, SpentStep DEF CallInv
    <3>2. Spent(k)' = Spent(k) /\ Sleep(k)' = Sleep(k)
      BY <2>2 DEF Spent, Sleep
    <3>3. CASE task[t].at = "waiting"
      BY <2>1, <2>2, <3>1, <3>2, <3>3 DEF Good, OnTime
    <3>4. CASE task[t].at = "asleep"
      BY <2>1, <2>2, <3>1, <3>2, <3>4 DEF Good, OnTime
    <3>5. CASE task[t].at \notin {"waiting", "asleep"}
      BY <2>2, <3>5 DEF OnTime
    <3> QED
      BY <3>3, <3>4, <3>5
  <2> QED
    BY <2>1, <2>2, <2>3 DEF Good, Attempts, Work, Fresh, Worst
<1> QED
  BY <1>1, <1>2 DEF CallInv

\* The answer to an attempt that a call waits for: it is refused for its age only if the
\* window is too short for the configuration.
LEMMA AnsweredGood ==
    ASSUME CallTypes, NEW job, NEW n, Good(job, n), job.at = "waiting",
           NEW status \in {"200", "401", "500", "cut"},
           status = "401" => now - job.timestamp > Window,
           status = "200" => n >= 1
    PROVE  Good(Answered(job, status), n)
<1>1. CASE status = "401"
  <2>1. ~(Worst <= Window)
    <3>1. /\ job.attempt \in Nat \ {0} /\ job.attempt <= retry.max_attempts
          /\ now <= job.deadline /\ job.deadline <= job.timestamp + Spent(job.attempt)
          /\ job.deadline \in Int /\ job.timestamp \in Nat
      BY DEF Good, Call, Attempts, OnTime
    <3>2. Spent(job.attempt) \in Nat /\ Spent(job.attempt) <= Worst /\ Worst \in Nat
      BY <3>1, SpentStep
    <3> QED
      BY <1>1, <3>1, <3>2, Numbers
  <2> QED
    BY <1>1, <2>1, EndedGood DEF Answered, Result
<1>2. CASE status = "500"
  BY <1>2, FailedGood DEF Answered
<1>3. CASE status = "200"
  BY <1>3, EndedGood DEF Answered, Result
<1>4. CASE status = "cut"
  BY <1>4, EndedGood DEF Answered, Result
<1> QED
  BY <1>1, <1>2, <1>3, <1>4

\* The server's step, whether its client still waits or not.
LEMMA HandleStep ==
    ASSUME CallInv, NEW t \in Task, NEW k \in task[t].sent,
           NEW status \in {"200", "401", "500", "cut", "lost"}, Handle(t, k, status)
    PROVE  CallInv'
<1> DEFINE fresh == now - task[t].timestamp <= Window
           waited == task[t].at = "waiting" /\ task[t].attempt = k /\ status # "lost"
           job == [task[t] EXCEPT !.sent = @ \ {k}]
           next == IF waited THEN Answered(job, status) ELSE job
           n == IF fresh THEN executed[t] + 1 ELSE executed[t]
<1>1. /\ (status = "401") <=> ~fresh
      /\ executed' = [executed EXCEPT ![t] = n]
      /\ task' = [task EXCEPT ![t] = next] /\ UNCHANGED <<retry, now>>
  <2>1. (status = "401") <=> ~fresh
    BY DEF Handle
  <2>2. executed' = [executed EXCEPT ![t] = n]
    BY DEF Handle
  <2>3. task' = [task EXCEPT ![t] = next] /\ UNCHANGED <<retry, now>>
    BY DEF Handle, Becomes
  <2> QED
    BY <2>1, <2>2, <2>3
<1>2. CallTypes /\ Good(task[t], executed[t]) /\ executed[t] \in Nat
  BY DEF CallInv, CallTypes
<1>3. Good(job, executed[t]) /\ Good(job, executed[t] + 1)
  BY <1>2, SettledGood
<1>4. Good(job, n)
  BY <1>3
<1>5. job.at = task[t].at /\ job.timestamp = task[t].timestamp /\ task[t].timestamp \in Nat
  BY <1>2 DEF Good, Call
<1>6. Good(next, n)
  <2>1. CASE waited
    <3>1. status = "401" => now - job.timestamp > Window
      BY <1>1, <1>2, <1>5, Numbers
    <3>2. status = "200" => n >= 1
      BY <1>1, <1>2
    <3>3. Good(Answered(job, status), n)
      BY <1>2, <1>4, <1>5, <2>1, <3>1, <3>2, AnsweredGood
    <3> QED
      BY <2>1, <3>3
  <2>2. CASE ~waited
    BY <1>4, <2>2
  <2> QED
    BY <2>1, <2>2
<1> QED
  BY <1>1, <1>6, CallStep

\* The invariant holds of calls that are spawned ...
LEMMA InitCallInv == ClientInit => CallInv
<1> SUFFICES ASSUME ClientInit PROVE CallInv
  OBVIOUS
<1>1. /\ Spawned \in Call /\ Spawned.at = "spawned" /\ Spawned.attempt = 0
      /\ Spawned.sent = {} /\ Spawned.result = "pending"
  BY DEF Spawned, Call, Place, Result
<1>2. CallTypes
  BY <1>1 DEF ClientInit, CallTypes
<1>3. Good(Spawned, 0)
  BY <1>1, <1>2, Numbers, FS_EmptySet DEF Good, Attempts, Work, OnTime, Fresh
<1> QED
  BY <1>2, <1>3 DEF CallInv, ClientInit

\* ... and is kept by every step.
LEMMA NextCallInv == CallInv /\ [ClientNext]_clientVars => CallInv'
<1> SUFFICES ASSUME CallInv, [ClientNext]_clientVars PROVE CallInv'
  OBVIOUS
<1>0. CallTypes /\ \A t \in Task : Good(task[t], executed[t])
  BY DEF CallInv
<1>1. ASSUME NEW t \in Task, Start(t) PROVE CallInv'
  BY <1>0, <1>1, StartedGood, ClientStep DEF Start
<1>2. ASSUME NEW t \in Task, Wake(t) PROVE CallInv'
  BY <1>0, <1>2, WokenGood, ClientStep DEF Wake
<1>3. ASSUME NEW t \in Task, TimesOut(t) PROVE CallInv'
  BY <1>0, <1>3, FailedGood, ClientStep DEF TimesOut
<1>4. ASSUME NEW t \in Task, Refused(t) PROVE CallInv'
  <2> DEFINE job == [task[t] EXCEPT !.sent = @ \ {task[t].attempt}]
  <2>1. Good(job, executed[t])
    BY <1>0, <1>4, SettledGood DEF Refused
  <2>2. job.at = "waiting"
    BY <1>0, <1>4 DEF Refused, Good, Call
  <2>3. Good(Failed(job, "network"), executed[t])
    BY <1>0, <2>1, <2>2, FailedGood
  <2> QED
    BY <1>4, <2>3, ClientStep DEF Refused
<1>5. ASSUME NEW t \in Task, Join(t) PROVE CallInv'
  BY <1>0, <1>5 DEF Join, CallInv, CallTypes, Good, Attempts, Work, OnTime, Fresh, Worst, Sleep, Spent
<1>6. ASSUME NEW t \in Task, NEW k \in task[t].sent,
             NEW status \in {"200", "401", "500", "cut", "lost"}, Handle(t, k, status)
      PROVE  CallInv'
  BY <1>6, HandleStep
<1>7. CASE UNCHANGED clientVars
  BY <1>0, <1>7 DEF clientVars, CallInv, CallTypes, Good, Attempts, Work, OnTime, Fresh, Worst, Sleep, Spent
<1> QED
  BY <1>1, <1>2, <1>3, <1>4, <1>5, <1>6, <1>7, TickStep DEF ClientNext

\* Calls are as CallInv says in every behaviour.
THEOREM CallInvariant == ClientSpec => []CallInv
BY InitCallInv, NextCallInv, PTL DEF ClientSpec

\* Work may be repeated, never more often than max_attempts, and an answer is never made
\* up, whatever the server does and whenever it does it (execute_with_retry).
THEOREM Bounded == ClientSpec => []WorkIsBounded
<1>1. CallInv => WorkIsBounded
  <2> SUFFICES ASSUME CallInv, NEW t \in Task
               PROVE  /\ executed[t] + Cardinality(task[t].sent) <= retry.max_attempts
                      /\ task[t].result = "ok" => executed[t] >= 1
                      /\ task[t].result = "exhausted" => task[t].attempt = 0
    BY DEF WorkIsBounded
  <2>1. Good(task[t], executed[t]) /\ CallTypes
    BY DEF CallInv
  <2>2. /\ task[t].attempt \in Nat /\ executed[t] \in Nat /\ Cardinality(task[t].sent) \in Nat
        /\ task[t].attempt <= retry.max_attempts /\ Work(task[t], executed[t])
    BY <2>1, FS_CardinalityType DEF Good, Call, Attempts
  <2> QED
    BY <2>1, <2>2, Numbers DEF Work
<1> QED
  BY <1>1, CallInvariant, PTL

\* A configuration whose worst duration fits into the server's window never sees a call
\* refused for the age of its first attempt's timestamp (handshake, execute_with_retry).
THEOREM StayFresh == ClientSpec => []RetriesStayFresh
<1>1. CallInv => RetriesStayFresh
  BY DEF CallInv, Good, Fresh, RetriesStayFresh
<1> QED
  BY <1>1, CallInvariant, PTL
=============================================================================
