--------------------------- MODULE MCHermesWatcher ---------------------------
(* Instances of HermesWatcher for TLC. *)
EXTENDS HermesWatcher, TLC

CONSTANTS p, q, r1

TwoProfiles == {p, q}
OneRequest == {r1}
=============================================================================
