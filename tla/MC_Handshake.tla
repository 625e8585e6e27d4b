---------------------------- MODULE MC_Handshake ----------------------------
(***************************************************************************)
(* Small instances of the handshake engine.  Scores: 40 and 90 fit the     *)
(* CHECK of the sites table, 150 does not.                                 *)
(***************************************************************************)
EXTENDS Handshake, TLC

CONSTANTS t1, t2, a1, u1, u2

OneUrl == {u1}
OneTask == {t1}
TwoTasks == {t1, t2}
OneAdmin == {a1}
NoAdmin == {}
NoBatch == {}
OneBatch == {t2}
InRange == {40, 90}
OneInRange == {40}
WithOverflow == {40, 150}
NoFaults == {}
AllFaults == {"db", "cancel", "crash"}
=============================================================================
