--------------------------------- MODULE Msr ----------------------------------
(***************************************************************************)
(* The system registers of a guest: the bus that finds a register by its   *)
(* id, how it is populated for a platform, and the registers behind which  *)
(* there is a protocol: cache maintenance by set and way and the control   *)
(* register SCTLR_EL1.                                                     *)
(*                                                                         *)
(* A set/way operation is not executed.  It makes the VMM trap the VCPU's  *)
(* writes to SCTLR_EL1 (feature TVM) and flush guest memory whenever such  *)
(* a write turns the caches on or off, until they are on.  VM              *)
(* introspection may request the same trap for reasons of its own.         *)
(*                                                                         *)
(* The values of registers without a protocol are left out, and so is what *)
(* stands behind the timer and interrupt registers (Timer, GicD).          *)
(***************************************************************************)
EXTENDS Naturals, FiniteSets

CONSTANTS
  Cpu,          \* the VCPUs
  Memory,       \* the address spaces on the bus that the guest can write
  FlushOnReset  \* those of them with _flush_on_reset

ASSUME MsrAssumption == FlushOnReset \subseteq Memory

VARIABLES
  platform,  \* whether it runs AArch32, and whether its GIC has system registers
  called,    \* the calls whose registers are on the bus: BaseBus::_devices
  aborted,   \* register_system_reg has found an id taken
  sctlr,     \* SCTLR_EL1 of each VCPU: its bits M and C
  tvm,       \* the requestors of its feature TVM
  trapped,   \* the VCPU runs with that trap
  dirty,     \* address spaces that have lines in a cache
  pending    \* ghost: it has used set/way since its caches were last turned on

busVars == <<platform, called, aborted>>
cacheVars == <<sctlr, tvm, trapped, dirty, pending>>
msrVars == <<busVars, cacheVars>>

-----------------------------------------------------------------------------
(* The id of a register: five fields in one word, of which crn (4 bits from bit
   7) and op1 (3 bits from bit 10) share a bit. *)
build_msr_id(op0, crn, op1, crm, op2) ==
  LET shared == IF crn % 16 >= 8 \/ op1 % 2 = 1 THEN 1 ELSE 0
  IN  8 * (crm % 16) + 128 * (crn % 8) + 1024 * shared + 2048 * ((op1 \div 2) % 4)
        + 8192 * (op2 % 8) + 65536 * (op0 % 256)

Sys(crn, op1, crm, op2) == build_msr_id(3, crn, op1, crm, op2)
Id3(crm, op2) == Sys(0, 0, crm, op2)
Dbg(crn, crm, op2) == build_msr_id(2, crn, 0, crm, op2)
OP0_AARCH32_ONLY_MSR == 255

MemoryId ==
  [ CTR_A64 |-> Sys(0, 3, 0, 1),    DCISW_A64 |-> build_msr_id(1, 7, 0, 6, 2),
    DCCSW_A64 |-> build_msr_id(1, 7, 0, 10, 2), DCCISW_A64 |-> build_msr_id(1, 7, 0, 14, 2),
    MVFR0 |-> Id3(3, 0),            MVFR1 |-> Id3(3, 1),          MVFR2 |-> Id3(3, 2),
    CONTEXTIDR_EL1 |-> Sys(13, 0, 0, 1), SCTLR_EL1 |-> Sys(1, 0, 0, 0),
    TTBR0_EL1 |-> Sys(2, 0, 0, 0),  TTBR1_EL1 |-> Sys(2, 0, 0, 1), TCR_EL1 |-> Sys(2, 0, 0, 2),
    AFSR0_EL1 |-> Sys(5, 0, 1, 0),  AFSR1_EL1 |-> Sys(5, 0, 1, 1), ESR_EL1 |-> Sys(5, 0, 2, 0),
    FAR_EL1 |-> Sys(6, 0, 0, 0),    MAIR_EL1 |-> Sys(10, 0, 2, 0), AMAIR_EL1 |-> Sys(10, 0, 3, 0),
    CNTPCT_EL0 |-> Sys(14, 3, 0, 1),    CNTP_CVAL_EL0 |-> Sys(14, 3, 2, 2),
    CNTP_CTL_EL0 |-> Sys(14, 3, 2, 1),  CNTP_TVAL_EL0 |-> Sys(14, 3, 2, 0),
    ID_AA64MMFR0_EL1 |-> Id3(7, 0), ID_AA64PFR0_EL1 |-> Id3(4, 0), ID_AA64SMFR0_EL1 |-> Id3(4, 5),
    CCSIDR_EL1 |-> Sys(0, 1, 0, 0), ID_PFR0_EL1 |-> Id3(1, 0),    ID_PFR1_EL1 |-> Id3(1, 1),
    ID_AA64DFR0_EL1 |-> Id3(5, 0),  ID_AA64DFR1_EL1 |-> Id3(5, 1), MDSCR_EL1 |-> Dbg(0, 2, 2) ]

FeatureId ==
  [ MDRAR_EL1 |-> Dbg(1, 0, 0),     ID_DFR0_EL1 |-> Id3(1, 2),    ID_DFR1_EL1 |-> Id3(3, 5),
    DBGDIDR |-> Dbg(0, 0, 0),       ID_AA64PFR1_EL1 |-> Id3(4, 1), ID_AA64PFR2_EL1 |-> Id3(4, 2),
    ID_AA64ZFR0_EL1 |-> Id3(4, 4),  ID_AA64FPFR0_EL1 |-> Id3(4, 7), ID_AA64ISAR0_EL1 |-> Id3(6, 0),
    ID_AA64ISAR1_EL1 |-> Id3(6, 1), ID_AA64ISAR2_EL1 |-> Id3(6, 2), ID_AA64ISAR3_EL1 |-> Id3(6, 3),
    ID_AA64AFR0_EL1 |-> Id3(5, 4),  ID_AA64AFR1_EL1 |-> Id3(5, 5), ID_PFR2_EL1 |-> Id3(3, 4),
    ID_ISAR0_EL1 |-> Id3(2, 0),     ID_ISAR1_EL1 |-> Id3(2, 1),   ID_ISAR2_EL1 |-> Id3(2, 2),
    ID_ISAR3_EL1 |-> Id3(2, 3),     ID_ISAR4_EL1 |-> Id3(2, 4),   ID_ISAR5_EL1 |-> Id3(2, 5),
    ID_ISAR6_EL1 |-> Id3(2, 7),     ID_AA64MMFR1_EL1 |-> Id3(7, 1), ID_AA64MMFR2_EL1 |-> Id3(7, 2),
    ID_AA64MMFR3_EL1 |-> Id3(7, 3), ID_AA64MMFR4_EL1 |-> Id3(7, 4), ID_MMFR0_EL1 |-> Id3(1, 4),
    ID_MMFR1_EL1 |-> Id3(1, 5),     ID_MMFR2_EL1 |-> Id3(1, 6),   ID_MMFR3_EL1 |-> Id3(1, 7),
    ID_MMFR4_EL1 |-> Id3(2, 6),     ID_MMFR5_EL1 |-> Id3(3, 6),   CLIDR_EL1 |-> Sys(0, 1, 0, 1),
    CSSELR_EL1 |-> Sys(0, 2, 0, 0), AIDR_EL1 |-> Sys(0, 1, 0, 7), REVIDR_EL1 |-> Id3(0, 6),
    OSDLR_EL1 |-> Dbg(1, 3, 4),     OSLAR_EL1 |-> Dbg(1, 0, 4),   OSLSR_EL1 |-> Dbg(1, 1, 4),
    ID_AFR0_EL1 |-> Id3(1, 3),      ICC_SGI1R_EL1 |-> Sys(12, 0, 11, 5) ]

(* Error records, statistical profiling and performance monitors.  (The ids of
   PMSIDR, PMSICR, PMSIRR and PMSLATFR are those of the code; the architecture
   has them at CRn 9, CRm 9.) *)
MonitorId ==
  [ ERRIDR_EL1 |-> Sys(5, 0, 3, 0),   ERRSELR_EL1 |-> Sys(5, 0, 3, 1),   ERXADDR_EL1 |-> Sys(5, 0, 4, 3),
    ERXCTLR_EL1 |-> Sys(5, 0, 4, 1),  ERXFR_EL1 |-> Sys(5, 0, 4, 0),     ERXMISC0_EL1 |-> Sys(5, 0, 5, 0),
    ERXMISC1_EL1 |-> Sys(5, 0, 5, 1), ERXSTATUS_EL1 |-> Sys(5, 0, 4, 2), PMSCR_EL1 |-> Sys(9, 0, 9, 0),
    PMSEVFR_EL1 |-> Sys(9, 0, 9, 5),  PMSICR_EL1 |-> Sys(9, 0, 4, 2),    PMSIDR_EL1 |-> Sys(9, 0, 4, 7),
    PMSIRR_EL1 |-> Sys(9, 0, 5, 3),   PMSLATFR_EL1 |-> Sys(5, 0, 5, 6),  PMCR_EL0 |-> Sys(9, 3, 12, 0),
    PMCNTENSET_EL0 |-> Sys(9, 3, 12, 1), PMCNTENCLR_EL0 |-> Sys(9, 3, 12, 2),
    PMOVSCLR_EL0 |-> Sys(9, 3, 12, 3), PMSWINC_EL0 |-> Sys(9, 3, 12, 4),  PMSELR_EL0 |-> Sys(9, 3, 12, 5),
    PMCEID0_EL0 |-> Sys(9, 3, 12, 6), PMCEID1_EL0 |-> Sys(9, 3, 12, 7),  PMCCNTR_EL0 |-> Sys(9, 3, 13, 0),
    PMXEVTYPER_EL0 |-> Sys(9, 3, 13, 1), PMXEVCNTR_EL0 |-> Sys(9, 3, 13, 2),
    PMUSERENR_EL0 |-> Sys(9, 3, 14, 0), PMOVSSET_EL0 |-> Sys(9, 3, 14, 3),
    PMCCFILTR_EL0 |-> Sys(14, 3, 15, 7), PMINTENSET_EL1 |-> Sys(9, 0, 14, 1),
    PMINTENCLR_EL1 |-> Sys(9, 0, 14, 2) ]

Aarch32Id ==
  LET Only(crn, op1, op2) == build_msr_id(OP0_AARCH32_ONLY_MSR, crn, op1, 0, op2)
  IN [ FPSID |-> build_msr_id(OP0_AARCH32_ONLY_MSR, 0, 0, 3, 0), DACR |-> Only(3, 0, 0),
       MAIR1_A32 |-> Sys(10, 0, 2, 1), IFSR |-> Only(5, 0, 1), JIDR |-> Only(0, 7, 0),
       FCSEIDR |-> Only(13, 0, 0),     TCMTR |-> Only(0, 0, 2), TLBTR |-> Only(0, 0, 3) ]

RegisterId ==
  [name \in DOMAIN MemoryId \cup DOMAIN FeatureId \cup DOMAIN MonitorId \cup DOMAIN Aarch32Id |->
     IF name \in DOMAIN MemoryId THEN MemoryId[name]
     ELSE IF name \in DOMAIN FeatureId THEN FeatureId[name]
     ELSE IF name \in DOMAIN MonitorId THEN MonitorId[name] ELSE Aarch32Id[name]]

(* Registers of which there are several: 16 of each kind for the debugger, *)
DebugBank == [DBGBVR_EL1 |-> 4, DBGBCR_EL1 |-> 5, DBGWVR_EL1 |-> 6, DBGWCR_EL1 |-> 7]
DebugId(name, i) == Dbg(0, i, DebugBank[name])

(* Mutant: one for each of the 32 counters. *)
MutNUM_PMEVTYPER_REGS == 32

(* and one for each event counter but the last, whose place is taken by the
   cycle counter. *)
NUM_PMEVTYPER_REGS == 31
NUM_PMEVCNTR_REGS == 31
pmevcntrn_el0(i) == Sys(14, 3, 8 + i \div 8, i % 8)
pmevtypern_el0(i) == Sys(14, 3, 12 + i \div 8, i % 8)

IdOf(d) ==
  CASE d[1] \in DOMAIN RegisterId -> RegisterId[d[1]]
    [] d[1] \in DOMAIN DebugBank -> DebugId(d[1], d[2])
    [] d[1] = "PMEVCNTRN_EL0" -> pmevcntrn_el0(d[2])
    [] d[1] = "PMEVTYPERN_EL0" -> pmevtypern_el0(d[2])

-----------------------------------------------------------------------------
(* The registers that each function of the bus sets up *)
One(names) == names \X {0}

setup_aarch64_features == One(
  {"ID_AA64PFR0_EL1", "ID_AA64PFR1_EL1", "ID_AA64PFR2_EL1", "ID_AA64SMFR0_EL1", "ID_AA64ZFR0_EL1",
   "ID_AA64FPFR0_EL1", "ID_AA64ISAR0_EL1", "ID_AA64ISAR1_EL1", "ID_AA64ISAR2_EL1",
   "ID_AA64ISAR3_EL1", "ID_AA64AFR0_EL1", "ID_AA64AFR1_EL1"})

setup_aarch64_memory_model == One(
  {"ID_AA64MMFR0_EL1", "ID_AA64MMFR1_EL1", "ID_AA64MMFR2_EL1", "ID_AA64MMFR3_EL1", "ID_AA64MMFR4_EL1"})

SetWayRegister == {"DCISW_A64", "DCCSW_A64", "DCCISW_A64"}
setup_aarch64_setway_flushes == One(SetWayRegister)

setup_aarch64_debug ==
  One({"ID_AA64DFR0_EL1", "ID_AA64DFR1_EL1", "MDSCR_EL1", "MDRAR_EL1"})
    \cup ((DOMAIN DebugBank) \X (0 .. 15))

setup_page_table_regs == One({"TCR_EL1", "TTBR0_EL1", "TTBR1_EL1", "SCTLR_EL1"})
setup_tvm == setup_page_table_regs \cup One(
  {"AFSR0_EL1", "AFSR1_EL1", "ESR_EL1", "FAR_EL1", "MAIR_EL1", "MAIR1_A32", "AMAIR_EL1", "DACR",
   "IFSR", "CONTEXTIDR_EL1"})

setup_aarch64_ras == One(
  {"ERRIDR_EL1", "ERRSELR_EL1", "ERXADDR_EL1", "ERXCTLR_EL1", "ERXFR_EL1", "ERXSTATUS_EL1",
   "ERXMISC0_EL1", "ERXMISC1_EL1"})

setup_aarch64_pm ==
  One({"PMCR_EL0", "PMCNTENSET_EL0", "PMCNTENCLR_EL0", "PMOVSCLR_EL0", "PMSWINC_EL0", "PMSELR_EL0",
       "PMCEID0_EL0", "PMCEID1_EL0", "PMCCNTR_EL0", "PMXEVTYPER_EL0", "PMXEVCNTR_EL0",
       "PMUSERENR_EL0", "PMOVSSET_EL0", "PMCCFILTR_EL0", "PMINTENSET_EL1", "PMINTENCLR_EL1"})
    \cup ({"PMEVCNTRN_EL0"} \X (0 .. NUM_PMEVCNTR_REGS - 1))
    \cup ({"PMEVTYPERN_EL0"} \X (0 .. NUM_PMEVTYPER_REGS - 1))

setup_aarch64_pms == One(
  {"PMSIDR_EL1", "PMSCR_EL1", "PMSEVFR_EL1", "PMSICR_EL1", "PMSIRR_EL1", "PMSLATFR_EL1"})

setup_gic_registers == One({"ICC_SGI1R_EL1"})

setup_aarch32_features == One(
  {"ID_PFR0_EL1", "ID_PFR1_EL1", "ID_PFR2_EL1", "ID_ISAR0_EL1", "ID_ISAR1_EL1", "ID_ISAR2_EL1",
   "ID_ISAR3_EL1", "ID_ISAR4_EL1", "ID_ISAR5_EL1", "ID_ISAR6_EL1"})

setup_aarch32_memory_model == One(
  {"ID_MMFR0_EL1", "ID_MMFR1_EL1", "ID_MMFR2_EL1", "ID_MMFR3_EL1", "ID_MMFR4_EL1", "ID_MMFR5_EL1"})

setup_aarch32_media_vfp == One({"FPSID", "MVFR0", "MVFR1", "MVFR2"})
setup_aarch32_debug == One({"ID_DFR0_EL1", "ID_DFR1_EL1", "DBGDIDR"})

setup_aarch64_caching_info == One({"CLIDR_EL1", "CSSELR_EL1", "CTR_A64", "CCSIDR_EL1"})

setup_aarch64_physical_timer == One(
  {"CNTP_TVAL_EL0", "CNTP_CTL_EL0", "CNTP_CVAL_EL0", "CNTPCT_EL0"})

setup_aarch32_msr ==
  setup_aarch32_features \cup setup_aarch32_memory_model \cup setup_aarch32_media_vfp
    \cup setup_aarch32_debug \cup One({"JIDR", "FCSEIDR", "TCMTR", "TLBTR", "ID_AFR0_EL1"})

Platform == [aarch32 : BOOLEAN, gic_v3 : BOOLEAN]
setup_arch_msr(p) ==
  setup_aarch64_features \cup setup_aarch64_memory_model \cup setup_aarch64_setway_flushes
    \cup setup_aarch64_debug \cup setup_tvm \cup setup_aarch64_ras \cup setup_aarch64_pm
    \cup setup_aarch64_pms
    \cup One({"AIDR_EL1", "REVIDR_EL1", "OSDLR_EL1", "OSLAR_EL1", "OSLSR_EL1"})
    \cup (IF p.gic_v3 THEN setup_gic_registers ELSE {})
    \cup (IF p.aarch32 THEN setup_aarch32_msr ELSE {})

(* The calls of a VMM that starts up, the registers of each, and their ids. *)
Call == {"setup_arch_msr", "setup_aarch64_caching_info", "setup_aarch64_physical_timer"}
SetUpBy(c, p) == CASE c = "setup_arch_msr" -> setup_arch_msr(p)
                   [] c = "setup_aarch64_caching_info" -> setup_aarch64_caching_info
                   [] c = "setup_aarch64_physical_timer" -> setup_aarch64_physical_timer
Ids == [c \in Call |-> [p \in Platform |-> {IdOf(d) : d \in SetUpBy(c, p)}]]

MsrInit ==
  /\ platform \in Platform
  /\ called = {} /\ aborted = FALSE
  /\ sctlr = [v \in Cpu |-> {}]
  /\ tvm = [v \in Cpu |-> {}]
  /\ trapped = [v \in Cpu |-> FALSE]
  /\ dirty = {}
  /\ pending = [v \in Cpu |-> FALSE]

(* register_system_reg for the registers of a call: ABORT_WITH if an id is in
   use, by one of them or by one of an earlier call. *)
SetUp(c) ==
  /\ c \notin called /\ ~aborted
  /\ called' = called \cup {c}
  /\ aborted' = \/ Cardinality(Ids[c][platform]) # Cardinality(SetUpBy(c, platform))
                \/ \E other \in called : Ids[other][platform] \cap Ids[c][platform] # {}
  /\ UNCHANGED <<platform, cacheVars>>

-----------------------------------------------------------------------------
(* The guest.  BaseBus::access finds a register by its id. *)
Runs == called = Call /\ ~aborted
OnBus(name) == \E c \in called : RegisterId[name] \in Ids[c][platform]

(* Mutant: no request if the VMI has one already. *)
MutSetWay(v, name) ==
  /\ Runs /\ OnBus(name)
  /\ tvm' = [tvm EXCEPT ![v] = IF @ = {} THEN {"VMM"} ELSE @]
  /\ pending' = [pending EXCEPT ![v] = TRUE]
  /\ UNCHANGED <<busVars, sctlr, trapped, dirty>>

(* SetWayFlushReg::flush: no flush yet, but a request for the trap, whether or
   not the VMI has one. *)
SetWay(v, name) ==
  /\ Runs /\ OnBus(name)
  /\ tvm' = [tvm EXCEPT ![v] = @ \cup {"VMM"}]
  /\ pending' = [pending EXCEPT ![v] = TRUE]
  /\ UNCHANGED <<busVars, sctlr, trapped, dirty>>

(* The VMI requests the trap of a VCPU, or no longer does. *)
ControlTvm(v) ==
  /\ Runs
  /\ tvm' = [tvm EXCEPT ![v] = IF "VMI" \in @ THEN @ \ {"VMI"} ELSE @ \cup {"VMI"}]
  /\ UNCHANGED <<busVars, sctlr, trapped, dirty, pending>>

(* The VCPU takes over what is requested of it (CpuControl). *)
Apply(v) ==
  /\ trapped[v] # (tvm[v] # {})
  /\ trapped' = [trapped EXCEPT ![v] = tvm[v] # {}]
  /\ UNCHANGED <<busVars, sctlr, tvm, dirty, pending>>

cache_enabled(bits) == {"C", "M"} \subseteq bits

(* flush_callback for each device: all that is flushed on reset. *)
flush_guest_as == dirty' = dirty \ FlushOnReset

flush_on_cache_toggle(v, bits) ==
  IF "VMM" \notin tvm[v] THEN UNCHANGED <<dirty, tvm>>
  ELSE /\ IF cache_enabled(sctlr[v]) # cache_enabled(bits) THEN flush_guest_as ELSE UNCHANGED dirty
       /\ tvm' = [tvm EXCEPT ![v] = IF cache_enabled(bits) THEN @ \ {"VMM"} ELSE @]

(* SctlrEl1::access, after which the VCPU gets the value it wrote. *)
TrappedWrite(v, bits) ==
  /\ Runs /\ trapped[v] /\ OnBus("SCTLR_EL1")
  /\ flush_on_cache_toggle(v, bits)
  /\ sctlr' = [sctlr EXCEPT ![v] = bits]
  /\ pending' = [pending EXCEPT ![v] = @ /\ ~cache_enabled(bits)]
  /\ UNCHANGED <<busVars, trapped>>

DirectWrite(v, bits) ==
  /\ Runs /\ ~trapped[v]
  /\ sctlr' = [sctlr EXCEPT ![v] = bits]
  /\ UNCHANGED <<busVars, tvm, trapped, dirty, pending>>

(* The guest writes to memory through its cache. *)
Store(v, a) ==
  /\ Runs /\ cache_enabled(sctlr[v])
  /\ dirty' = dirty \cup {a}
  /\ UNCHANGED <<busVars, sctlr, tvm, trapped, pending>>

MsrNext ==
  \/ \E c \in Call : SetUp(c)
  \/ \E v \in Cpu :
       \/ \E name \in SetWayRegister : SetWay(v, name)
       \/ ControlTvm(v) \/ Apply(v)
       \/ \E bits \in SUBSET {"C", "M"} : TrappedWrite(v, bits) \/ DirectWrite(v, bits)
       \/ \E a \in Memory : Store(v, a)

MsrSpec == MsrInit /\ [][MsrNext]_msrVars

-----------------------------------------------------------------------------
(* No two registers of a platform have the same id, in whatever order the
   VMM sets them up: the VMM would end at start-up with "ID is used by"
   (register_system_reg), and on some platforms only. *)
NoIdTwice == ~aborted

(* A VCPU that has used set/way operations finds guest memory flushed when it
   turns its caches on or off next by a write that is trapped, whatever the VMI
   has requested or withdrawn in the meantime. *)
TogglesFlush ==
  [][\A v \in Cpu :
       (pending[v] /\ trapped[v] /\ cache_enabled(sctlr'[v]) # cache_enabled(sctlr[v]))
         => dirty' \cap FlushOnReset = {}]_msrVars
===============================================================================
