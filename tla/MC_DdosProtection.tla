------------------------- MODULE MC_DdosProtection --------------------------
(***************************************************************************)
(* Small instances of the connection limiter.                              *)
(***************************************************************************)
EXTENDS DdosProtection, TLC

CONSTANTS c1, c2, i1, i2

TwoCallers == {c1, c2}
TwoIps == {i1, i2}
Nobody == {}

\* Callers and addresses are interchangeable.
Symmetric == Permutations(Caller) \cup Permutations(Ip)
=============================================================================
