-------------------------- MODULE MCModelProcesses --------------------------
(* A service with a GPU slot, which it adopts, and a utility slot.         *)
EXTENDS ModelProcesses

TwoSlots == {"gpu", "util"}
OnlyGpu == {"gpu"}
PortOfSlot == [s \in TwoSlots |-> IF s = "gpu" THEN 1 ELSE 2]
ModelOfSlot == [s \in TwoSlots |-> s]
TwoPorts == {1, 2}
=============================================================================
