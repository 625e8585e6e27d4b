----------------------------- MODULE Transport ------------------------------
(***************************************************************************)
(* The native binary transport (src/src/transport.rs): NativeTransport     *)
(* answers frames from one registry of .opt domains, NativeClient writes a *)
(* request and reads the next frame as its answer.                         *)
(*                                                                         *)
(* A connection is a stream of frames each way.  The caller of a client    *)
(* may drop a call at any await (a timeout around it): after the request   *)
(* is written the answer stays in the stream, in the middle of writing it  *)
(* the server is left with part of a frame.                                *)
(***************************************************************************)
EXTENDS OptRegistry, Sequences, FiniteSets

CONSTANTS
    Client,    \* connected NativeClients
    Server,    \* the process whose registry the transport serves
    Oversized, \* .core files longer than MAX_PAYLOAD_SIZE
    MaxUnread, \* bound on the calls dropped and the requests unread on a connection
    NoCall     \* the client is not in a call

\* "other" is a frame of another known type, that no NativeClient sends.
Question == [kind: {"handshake", "resolve", "other"}, name: Name]
Request == Question \cup {Torn}
Answer == [kind: {"handshake", "core_file", "error"}, name: Name, core: Core \cup {Absent}]

ASSUME TransportAssumption ==
    /\ Server \in Process
    /\ Oversized \subseteq Core
    /\ MaxUnread \in Nat
    /\ NoCall \notin Question /\ Torn \notin Question /\ Torn \notin Answer
    /\ Absent \notin Core

VARIABLES
    alive,     \* handle_connection runs for the client
    requests,  \* bytes to the server, a frame at a time
    answers,   \* bytes to the client; Torn is the rest of a frame it refused
    call,      \* the call each client is in, waiting in read_frame
    seen,      \* .core files the name had while the call waited
    dropped    \* calls given up, and whether one was cut in its write

wireVars == <<alive, requests, answers, call, seen, dropped>>
vars == <<registryVars, wireVars>>

TypeOK ==
    /\ RegistryTypeOK
    /\ alive \in [Client -> BOOLEAN]
    /\ \A c \in Client : /\ \A i \in DOMAIN requests[c] : requests[c][i] \in Request
                         /\ \A i \in DOMAIN answers[c] : answers[c][i] \in Answer \cup {Torn}
    /\ call \in [Client -> Question \cup {NoCall}]
    /\ seen \in [Client -> SUBSET Core]
    /\ dropped \in [Client -> [calls: 0..MaxUnread, inWrite: BOOLEAN]]

NoneDropped == [calls |-> 0, inWrite |-> FALSE]

Init ==
    /\ RegistryInit
    /\ alive = [c \in Client |-> TRUE]
    /\ requests = [c \in Client |-> <<>>]
    /\ answers = [c \in Client |-> <<>>]
    /\ call = [c \in Client |-> NoCall]
    /\ seen = [c \in Client |-> {}]
    /\ dropped = [c \in Client |-> NoneDropped]

\* The .core file the server has for a name, as a set.
CoreOf(n) == IF Found(Server, n) THEN {registry[Server][Lower[n]].core_file} ELSE {}
CoreOfNext(n) == LET e == registry'[Server][Lower[n]] IN IF e = Absent THEN {} ELSE {e.core_file}

Watched == seen' = [c \in Client |->
    IF call[c] # NoCall THEN seen[c] \cup CoreOfNext(call[c].name) ELSE {}]

-----------------------------------------------------------------------------
\* resolve_opt and handshake write their request; a socket the server has
\* closed may still accept it.
Ask(c, q) ==
    /\ call[c] = NoCall
    /\ Len(requests[c]) <= MaxUnread
    /\ call' = [call EXCEPT ![c] = q]
    /\ requests' = IF alive[c] THEN [requests EXCEPT ![c] = Append(@, q)] ELSE requests
    /\ seen' = [seen EXCEPT ![c] = CoreOf(q.name)]
    /\ UNCHANGED <<registryVars, alive, answers, dropped>>

\* The caller drops the future while it waits for the answer ...
Drop(c) ==
    /\ call[c] # NoCall
    /\ dropped[c].calls < MaxUnread
    /\ call' = [call EXCEPT ![c] = NoCall]
    /\ seen' = [seen EXCEPT ![c] = {}]
    /\ dropped' = [dropped EXCEPT ![c].calls = @ + 1]
    /\ UNCHANGED <<registryVars, alive, requests, answers>>

\* ... or in the middle of write_all.
DropInWrite(c) ==
    /\ call[c] = NoCall /\ alive[c]
    /\ dropped[c].calls < MaxUnread
    /\ requests' = [requests EXCEPT ![c] = Append(@, Torn)]
    /\ dropped' = [dropped EXCEPT ![c] = [calls |-> @.calls + 1, inWrite |-> TRUE]]
    /\ UNCHANGED <<registryVars, alive, answers, call, seen>>

\* Mutant: the bytes of the old connection are kept.
ConnectKeepsBytes(c) ==
    /\ call[c] = NoCall
    /\ alive' = [alive EXCEPT ![c] = TRUE]
    /\ dropped' = [dropped EXCEPT ![c] = NoneDropped]
    /\ UNCHANGED <<registryVars, requests, answers, call, seen>>

\* A new NativeClient in place of the old one, with a connection of its own.
Connect(c) ==
    /\ call[c] = NoCall
    /\ alive' = [alive EXCEPT ![c] = TRUE]
    /\ requests' = [requests EXCEPT ![c] = <<>>]
    /\ answers' = [answers EXCEPT ![c] = <<>>]
    /\ dropped' = [dropped EXCEPT ![c] = NoneDropped]
    /\ UNCHANGED <<registryVars, call, seen>>

Reply(kind, n, core) == [kind |-> kind, name |-> n, core |-> core]

\* Mutant: the resolution reads the registry file.
AnswerToSaved(q) ==
    IF q.kind = "handshake" THEN Reply("handshake", q.name, Absent)
    ELSE IF file \in Registry /\ file[Lower[q.name]] # Absent
         THEN Reply("core_file", q.name, file[Lower[q.name]].core_file)
         ELSE Reply("error", q.name, Absent)

\* handle_handshake, handle_resolve_opt: the frame they give back.
AnswerTo(q) ==
    IF q.kind = "handshake" THEN Reply("handshake", q.name, Absent)
    ELSE IF q.kind = "resolve" /\ Found(Server, q.name)
         THEN Reply("core_file", q.name, registry[Server][Lower[q.name]].core_file)
         ELSE Reply("error", q.name, Absent)

\* A payload the client refused is still in the stream: no frame is found after.
Unreadable(c) == answers[c] = <<Torn>>

\* Mutant: a failed request is logged and not answered.
ServeSilently(c) ==
    /\ alive[c] /\ requests[c] # <<>>
    /\ LET q == Head(requests[c]) IN
          /\ q # Torn
          /\ IF q.kind = "resolve" THEN Resolve(Server, q.name) ELSE UNCHANGED registryVars
          /\ answers' = IF Unreadable(c) \/ AnswerTo(q).kind = "error" THEN answers
                        ELSE [answers EXCEPT ![c] = Append(@, AnswerTo(q))]
    /\ requests' = [requests EXCEPT ![c] = Tail(@)]
    /\ UNCHANGED <<alive, call, seen, dropped>>

\* handle_connection: a whole frame is read, handled and answered; one of a type
\* it does not handle is answered and ends the connection.
Serve(c) ==
    /\ alive[c] /\ requests[c] # <<>>
    /\ LET q == Head(requests[c]) IN
          /\ q # Torn
          /\ IF q.kind = "resolve" THEN Resolve(Server, q.name) ELSE UNCHANGED registryVars
          /\ answers' = IF Unreadable(c) THEN answers
                        ELSE [answers EXCEPT ![c] = Append(@, AnswerTo(q))]
          /\ alive' = [alive EXCEPT ![c] = q.kind # "other"]
          /\ requests' = [requests EXCEPT ![c] = IF q.kind = "other" THEN <<>> ELSE Tail(@)]
    /\ UNCHANGED <<call, seen, dropped>>

\* The bytes after part of a frame are read as the rest of it: read_frame waits
\* for more, or refuses the frame, which ends the connection without an answer.
ServeTorn(c) ==
    /\ alive[c] /\ Len(requests[c]) > 1 /\ Head(requests[c]) = Torn
    /\ \/ /\ requests' = [requests EXCEPT ![c] = <<Torn>> \o SubSeq(@, 3, Len(@))]
          /\ UNCHANGED alive
       \/ /\ alive' = [alive EXCEPT ![c] = FALSE]
          /\ requests' = [requests EXCEPT ![c] = <<>>]
    /\ UNCHANGED <<registryVars, answers, call, seen, dropped>>

NextAnswer(c) == Head(answers[c])

\* read_frame at the client: the next answer ends the call, whatever it
\* answers.  A payload over the limit is refused after its header and stays
\* in the stream, where no later read finds a header again.
Receive(c) ==
    /\ call[c] # NoCall /\ answers[c] # <<>>
    /\ answers' = [answers EXCEPT ![c] =
          IF Unreadable(c) \/ Head(@).core \in Oversized THEN <<Torn>> ELSE Tail(@)]
    /\ call' = [call EXCEPT ![c] = NoCall]
    /\ seen' = [seen EXCEPT ![c] = {}]
    /\ UNCHANGED <<registryVars, alive, requests, dropped>>

\* The server has gone: read_exact fails.
ReceiveEnd(c) ==
    /\ call[c] # NoCall /\ answers[c] = <<>> /\ ~alive[c]
    /\ call' = [call EXCEPT ![c] = NoCall]
    /\ seen' = [seen EXCEPT ![c] = {}]
    /\ UNCHANGED <<registryVars, alive, requests, answers, dropped>>

\* A process stops; the server takes its connections with it.
Stop(p) ==
    /\ Crash(p)
    /\ IF p = Server
       THEN /\ alive' = [c \in Client |-> FALSE]
            /\ requests' = [c \in Client |-> <<>>]
            /\ UNCHANGED <<answers, call, seen, dropped>>
       ELSE UNCHANGED wireVars

\* Whoever shares the resolver with the transport, and the other processes.
Others(p) ==
    /\ RegistryCalls(p) \/ FileCalls(p)
    /\ Watched
    /\ UNCHANGED <<alive, requests, answers, call, dropped>>

Next ==
    \/ \E c \in Client :
          \/ \E q \in Question : Ask(c, q)
          \/ Drop(c) \/ DropInWrite(c) \/ Connect(c)
          \/ Serve(c) \/ ServeTorn(c) \/ Receive(c) \/ ReceiveEnd(c)
    \/ \E p \in Process : Stop(p) \/ Others(p)

\* A save that has begun runs on; the lock of std is handed to waiting writers
\* (SF on the server's reads); clients that wait are woken.
Fairness ==
    /\ \A p \in Process : WF_vars((SaveTruncate(p) \/ SaveWrite(p)) /\ Watched
                                  /\ UNCHANGED <<alive, requests, answers, call, dropped>>)
    /\ \A c \in Client : /\ SF_vars(Serve(c)) /\ WF_vars(ServeTorn(c))
                         /\ WF_vars(Receive(c) \/ ReceiveEnd(c))

Spec == Init /\ [][Next]_vars
FairSpec == Spec /\ Fairness

-----------------------------------------------------------------------------
(* Properties.                                                             *)

\* A client in a call whose next frame is an answer, on a connection none of
\* whose calls was dropped.
Reads(c) ==
    /\ call[c] # NoCall /\ answers[c] # <<>> /\ NextAnswer(c) # Torn
    /\ dropped[c] = NoneDropped

\* On a connection none of whose calls was dropped, the frame a call reads is
\* the answer to its own request, whatever the other connections, the registry
\* and refused payloads do (NativeClient pairs them by order alone).
AnswersItsRequest ==
    \A c \in Client : Reads(c) =>
        /\ NextAnswer(c).name = call[c].name
        /\ (NextAnswer(c).kind = "handshake") = (call[c].kind = "handshake")

\* A .core file that answers a call is one the name had while the call waited,
\* never an older one (handle_resolve_opt).
AnswerWasCurrent ==
    \A c \in Client : Reads(c) /\ NextAnswer(c).kind = "core_file" =>
        NextAnswer(c).core \in seen[c]

\* A call ends, with an answer or an error, although it has no timeout: unless
\* a request was cut short on its connection, which can leave server and client
\* waiting for each other (read_frame).
EveryCallEnds ==
    \A c \in Client : call[c] # NoCall ~> call[c] = NoCall \/ dropped[c].inWrite
=============================================================================
