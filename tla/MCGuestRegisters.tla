--------------------------- MODULE MCGuestRegisters ---------------------------
(* A small ITS: one device with two ITTs, of which the second is not in memory,  *)
(* and two collections; the largest distributor, whose last interrupts fill no   *)
(* whole word of a register; and the system registers of two VCPUs.              *)
EXTENDS GuestRegisters

IttMC == Dev \X {1, 2}
UnbackedMC == Dev \X {2}
TargetMC == [c \in Icid |-> c - 1]
WatchedMC == (0 .. 40) \cup (968 .. 1019)
ValuesMC == {0 .. 31, {0, 9, 17, 26}}
NearMC == 0 .. 3
===============================================================================
