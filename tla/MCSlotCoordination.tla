------------------------- MODULE MCSlotCoordination -------------------------
(* Instances of SlotCoordination for TLC. *)
EXTENDS SlotCoordination, TLC

CONSTANTS s1, s2, r1, r2, c1, c2

OneSlot == {s1}
TwoSlots == {s1, s2}
NoRequests == {}
OneRequest == {r1}
TwoRequests == {r1, r2}
OneCaller == {c1}
TwoCallers == {c1, c2}

SlotsAndCallers == Permutations(TwoSlots) \cup Permutations(TwoCallers)
=============================================================================
