-------------------------------- MODULE MCGicD --------------------------------
(* Small instances of GicD: private interrupts belong to VCPU 0, and the *)
(* interrupts with the larger numbers have the larger values of _prio.   *)
EXTENDS GicD

HomeMC == [i \in Private |-> 0]
PrioMC == [i \in Irq |-> i]
===============================================================================
