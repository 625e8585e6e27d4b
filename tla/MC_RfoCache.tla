---------------------------- MODULE MC_RfoCache ----------------------------
(***************************************************************************)
(* The cache alone, used by two threads and the cleanup task.              *)
(***************************************************************************)
EXTENDS RfoCache, TLC

CONSTANTS u1, u2, c1, c2, page

MCUrl == {u1, u2}
MCCaller == {c1, c2}
MCPayload == {page}

\* The URLs and the callers are interchangeable (safety runs only).
Symmetric == Permutations(MCUrl) \cup Permutations(MCCaller)
=============================================================================
