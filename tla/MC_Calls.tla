------------------------------ MODULE MC_Calls ------------------------------
(***************************************************************************)
(* A small instance of what a caller of an engine meets: the native        *)
(* transport, the registry it serves and the frames of its format, or the  *)
(* HTTP client with a batch of two calls, under configurations that fit    *)
(* into the window, do not, start above the cap, never try, or panic.      *)
(***************************************************************************)
EXTENDS Transport, BinaryStream, Client

CONSTANTS srv, tool, x, X, com, core, big, c1, d1, d2

MCProcess == {srv, tool}
MCName == {x, X, com}
MCLower == [n \in MCName |-> IF n = X THEN x ELSE n]
MCOptName == {x, X}
MCCore == {core, big}
MCOversized == {big}
MCClient == {c1}
MCDomains == <<d1, d2>>

Configured(attempts, initial, cap, multiplier) ==
    [max_attempts |-> attempts, initial_backoff |-> initial,
     max_backoff |-> cap, backoff_multiplier |-> multiplier]

MCConfig ==
    {Configured(3, 1, 2, 4), Configured(3, 3, 1, 2), Configured(0, 1, 2, 2), Configured(2, 1, 2, -1)}

VARIABLE scene  \* what the run is about: chosen once

callsVars == <<vars, streamVars, clientVars, scene>>

\* Two processes that share the file, no connection ...
FileScene == \E p \in Process : Stop(p) \/ Others(p)

\* ... or the connections of the server, with its own calls and saves ...
WireScene == Stop(Server) \/ (Others(Server) /\ ~Load(Server)) \/ \E c \in Client :
    \/ \E q \in Question : q.name \in OptName /\ Ask(c, q)
    \/ Drop(c) \/ DropInWrite(c) \/ Connect(c)
    \/ Serve(c) \/ ServeTorn(c) \/ Receive(c) \/ ReceiveEnd(c)

\* ... or one frame of the format, or the HTTP client.
MCNext ==
    /\ \/ scene = "file" /\ FileScene /\ UNCHANGED <<streamVars, clientVars>>
       \/ scene = "wire" /\ WireScene /\ UNCHANGED <<streamVars, clientVars>>
       \/ scene = "frame" /\ StreamNext /\ UNCHANGED <<vars, clientVars>>
       \/ scene = "retry" /\ ClientNext /\ UNCHANGED <<vars, streamVars>>
    /\ UNCHANGED scene

MCInit ==
    /\ Init /\ StreamInit /\ ClientInit
    /\ scene \in {"file", "wire", "frame", "retry"}
    /\ scene # "frame" => Len(sent.body) = 1 /\ sent.payload_type = "doc"
    /\ scene # "retry" => retry = Configured(0, 1, 2, 2)

InRetry(A) == scene = "retry" /\ A /\ UNCHANGED <<vars, streamVars, scene>>

MCSpec ==
    /\ MCInit /\ [][MCNext]_callsVars
    /\ Fairness
    /\ WF_callsVars(InRetry(Tick))
    /\ \A t \in Task :
          /\ WF_callsVars(InRetry(Start(t))) /\ WF_callsVars(InRetry(Wake(t)))
          /\ WF_callsVars(InRetry(TimesOut(t))) /\ WF_callsVars(InRetry(Join(t)))
=============================================================================
