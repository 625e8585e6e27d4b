---------------------------- MODULE MC_Admission ----------------------------
(***************************************************************************)
(* A small instance of what admits a request: six requests of one address  *)
(* at the rate limiter, enough to fill one window and reach into two more, *)
(* or four callers at the connection limiter.  The two share nothing, so   *)
(* that each is a scene of its own.                                        *)
(***************************************************************************)
EXTENDS RateLimiter, DdosProtection

CONSTANTS i1, i2

VARIABLE scene

Requests == 1..6
FourCallers == 1..4
OneIp == {i1}
TwoIps == {i1, i2}

admissionVars == <<rateVars, vars, scene>>

MCInit == scene \in {"rate", "connections"} /\ RateInit /\ Init

\* Requests are interchangeable, and so are callers: of those in the same state the
\* first one moves.
InTurn(before, after) ==
    \A k \in DOMAIN before : after[k] # before[k] => \A j \in 1..(k - 1) : before[j] # before[k]

MCNext ==
    /\ \/ scene = "rate" /\ RateNext /\ InTurn(request, request') /\ UNCHANGED vars
       \/ scene = "connections" /\ Next /\ InTurn(conn, conn') /\ UNCHANGED rateVars
    /\ UNCHANGED scene

InRate(A) == scene = "rate" /\ A /\ UNCHANGED <<vars, scene>>

MCSpec ==
    /\ MCInit /\ [][MCNext]_admissionVars
    /\ WF_admissionVars(InRate(SweepBegin))
    /\ \A ip \in Address : WF_admissionVars(InRate(SweepShard(ip)))
=============================================================================
