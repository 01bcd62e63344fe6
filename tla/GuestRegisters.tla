---------------------------- MODULE GuestRegisters ----------------------------
(***************************************************************************)
(* The registers that a guest reaches by an exit: the frames of the        *)
(* distributor and the redistributors (GicRegs), that of the ITS (Gits)    *)
(* and the system registers (Msr).  The three share no state, so a         *)
(* behaviour uses one of them, chosen at the start.                        *)
(***************************************************************************)
EXTENDS Gits, GicRegs, Msr

VARIABLE chosen  \* the one this behaviour uses

registersVars == <<gitsVars, regsVars, msrVars, chosen>>

RegistersInit ==
  /\ chosen \in {"GITS", "GICD and GICR", "MSR"}
  /\ GitsInit /\ RegsInit /\ MsrInit
  /\ chosen # "GITS" => gap = NoSlot
  /\ chosen # "GICD and GICR" => ARE \in ctlr /\ \A f \in Field : irq[f] = {}
  /\ chosen # "MSR" => ~platform.aarch32 /\ ~platform.gic_v3

RegistersNext ==
  \/ chosen = "GITS" /\ GitsNext /\ UNCHANGED <<regsVars, msrVars, chosen>>
  \/ chosen = "GICD and GICR" /\ RegsNext /\ UNCHANGED <<gitsVars, msrVars, chosen>>
  \/ chosen = "MSR" /\ MsrNext /\ UNCHANGED <<gitsVars, regsVars, chosen>>

RegistersSpec == RegistersInit /\ [][RegistersNext]_registersVars
===============================================================================
