----------------------------- MODULE MCSwarmGate -----------------------------
(* Instance of SwarmGate for TLC. *)
EXTENDS SwarmGate

CONSTANTS i1, i2, p1, p2

TwoIds == {i1, i2}
TwoSpawners == {p1, p2}
ShortAndLong == {3, 9}
=============================================================================
