---------------------------- MODULE MCFleetQueue ----------------------------
(* Instance of FleetQueue, and through it of its abstract lane, for TLC. *)
EXTENDS FleetQueue

CONSTANTS t1, t2, t3, t4, t5

FiveTasks == {t1, t2, t3, t4, t5}
TwoRanks == {0, 1}
=============================================================================
