-------------------------- MODULE RegisterTheorems --------------------------
(***************************************************************************)
(* Proofs about what a guest reaches through registers.  The timer of a    *)
(* VCPU, for any bound on the clock and the deadlines: what timer_loop     *)
(* sleeps on is what the registers say.  The system registers, for any     *)
(* VCPUs and address spaces: a set/way operation is made good when the     *)
(* caches are toggled.  The ITS, for any devices, tables and size of its   *)
(* ring: it executes commands in order, and MSIs go where commands said.   *)
(* The frames of the GIC, for any VCPUs and interrupts: an access writes   *)
(* the fields of its bytes and no other, and reads them back.              *)
(***************************************************************************)
EXTENDS GuestRegisters, Timer, FiniteSetTheorems, TLAPS

-----------------------------------------------------------------------------
(* The timer: the inductive invariant *)

TimerType ==
  /\ now \in Nat /\ cval \in Nat /\ timeout \in Nat
  /\ ctl \in Ctl /\ value \in Ctl /\ byte \in Ctl
  /\ signaled \in BOOLEAN /\ line \in BOOLEAN /\ torn \in BOOLEAN

(* No change of the deadline is under way to the loop. *)
Current == ~signaled /\ vpc # "signal"

(* While no two stores of the control register have overlapped, its STATUS
   bit and the line are what the place of the loop says. *)
StatusTrue ==
  ~torn =>
    /\ pc \in {"top", "can_fire", "status", "wait", "clear"} => (ctl.status <=> line)
    /\ pc \in {"deadline", "timed_wait", "sleep", "fire", "assert"} => ~ctl.status /\ ~line
    /\ pc = "write_clear" => ~byte.status
    /\ pc = "deassert" => ~ctl.status
    /\ pc \in {"set_status", "write_set"} => line
    /\ pc = "write_set" => byte.status

(* The loop sleeps until the deadline that is set, and fires after it. *)
DeadlineTrue ==
  /\ pc \in {"timed_wait", "sleep"} /\ Current => timeout = cval
  /\ pc \in {"fire", "assert", "set_status", "write_set"} /\ Current => now >= cval
  /\ ~torn /\ pc \in {"top", "can_fire", "status", "wait"} /\ line /\ Current => now >= cval

(* A loop that waits for a register has fired, or cannot fire, or is about
   to be signaled. *)
WaitTrue ==
  ~torn /\ pc = "wait" /\ ~signaled /\ vpc \notin {"signal", "wakeup"} /\ CanFire(ctl)
    => ctl.status

IInv == TimerType /\ StatusTrue /\ DeadlineTrue /\ WaitTrue

(* Every variable has its type. *)
LEMMA TimerTypeStep ==
  ASSUME IInv, Next
  PROVE  TimerType'
<1> USE MaxTimeAssumption DEF IInv, TimerType, Ctl, Time, Untouched, At, loopVars, vcpuVars
<1>1. ASSUME NEW c \in Time, SetCval(c) PROVE TimerType'
  BY <1>1 DEF SetCval
<1>2. ASSUME NEW e \in BOOLEAN, NEW m \in BOOLEAN, ReadCtl(e, m) PROVE TimerType'
  BY <1>2 DEF ReadCtl
<1>3. CASE TimerWakeup
  BY <1>3 DEF TimerWakeup
<1>4. CASE SetCtl
  BY <1>4 DEF SetCtl
<1>5. CASE WakeupIfArmed
  BY <1>5 DEF WakeupIfArmed
<1>6. CASE Terminate
  BY <1>6 DEF Terminate
<1>7. CASE Tick
  BY <1>7 DEF Tick
<1>8. CASE CheckTerminate
  BY <1>8 DEF CheckTerminate
<1>9. CASE CheckCanFire
  BY <1>9 DEF CheckCanFire
<1>10. CASE CheckStatus
  BY <1>10 DEF CheckStatus
<1>11. CASE TimerWait
  BY <1>11 DEF TimerWait
<1>12. CASE ClearIrqStatus
  BY <1>12 DEF ClearIrqStatus
<1>13. CASE SetIrqStatus
  BY <1>13 DEF SetIrqStatus
<1>14. CASE WriteBack
  BY <1>14 DEF WriteBack
<1>15. CASE DeassertIrq
  BY <1>15 DEF DeassertIrq
<1>16. CASE GetTimeout
  BY <1>16 DEF GetTimeout
<1>17. CASE Released
  BY <1>17 DEF Released
<1>18. CASE FallAsleep
  BY <1>18 DEF FallAsleep
<1>19. CASE TimedOut
  BY <1>19 DEF TimedOut
<1>20. CASE CheckFire
  BY <1>20 DEF CheckFire
<1>21. CASE AssertIrq
  BY <1>21 DEF AssertIrq
<1>. QED
  BY <1>1, <1>2, <1>3, <1>4, <1>5, <1>6, <1>7, <1>8, <1>9, <1>10, <1>11, <1>12,
     <1>13, <1>14, <1>15, <1>16, <1>17, <1>18, <1>19, <1>20, <1>21
     DEF Next, VcpuStep, LoopStep

(* The VCPU preserves the STATUS bit that it has read, or its store is torn. *)
LEMMA StatusTrueStep ==
  ASSUME IInv, Next
  PROVE  StatusTrue'
<1> USE MaxTimeAssumption DEF IInv, TimerType, Ctl, StatusTrue, Untouched, At, loopVars, vcpuVars
<1>1. ASSUME NEW c \in Time, SetCval(c) PROVE StatusTrue'
  BY <1>1 DEF SetCval
<1>2. ASSUME NEW e \in BOOLEAN, NEW m \in BOOLEAN, ReadCtl(e, m) PROVE StatusTrue'
  BY <1>2 DEF ReadCtl
<1>3. CASE TimerWakeup
  BY <1>3 DEF TimerWakeup
<1>4. CASE SetCtl
  BY <1>4 DEF SetCtl
<1>5. CASE WakeupIfArmed
  BY <1>5 DEF WakeupIfArmed
<1>6. CASE Terminate
  BY <1>6 DEF Terminate
<1>7. CASE Tick
  BY <1>7 DEF Tick
<1>8. CASE CheckTerminate
  BY <1>8 DEF CheckTerminate
<1>9. CASE CheckCanFire
  BY <1>9 DEF CheckCanFire
<1>10. CASE CheckStatus
  BY <1>10 DEF CheckStatus
<1>11. CASE TimerWait
  BY <1>11 DEF TimerWait
<1>12. CASE ClearIrqStatus
  BY <1>12 DEF ClearIrqStatus
<1>13. CASE SetIrqStatus
  BY <1>13 DEF SetIrqStatus
<1>14. CASE WriteBack
  BY <1>14 DEF WriteBack
<1>15. CASE DeassertIrq
  BY <1>15 DEF DeassertIrq
<1>16. CASE GetTimeout
  BY <1>16 DEF GetTimeout
<1>17. CASE Released
  BY <1>17 DEF Released
<1>18. CASE FallAsleep
  BY <1>18 DEF FallAsleep
<1>19. CASE TimedOut
  BY <1>19 DEF TimedOut
<1>20. CASE CheckFire
  BY <1>20 DEF CheckFire
<1>21. CASE AssertIrq
  BY <1>21 DEF AssertIrq
<1>. QED
  BY <1>1, <1>2, <1>3, <1>4, <1>5, <1>6, <1>7, <1>8, <1>9, <1>10, <1>11, <1>12,
     <1>13, <1>14, <1>15, <1>16, <1>17, <1>18, <1>19, <1>20, <1>21
     DEF Next, VcpuStep, LoopStep

(* A new deadline is signaled, and the signal takes the loop back to where it
   reads the deadline, with the line down. *)
LEMMA DeadlineTrueStep ==
  ASSUME IInv, Next
  PROVE  DeadlineTrue'
<1> USE MaxTimeAssumption
    DEF IInv, TimerType, Ctl, StatusTrue, DeadlineTrue, Current, Time, Untouched, At,
        loopVars, vcpuVars
<1>1. ASSUME NEW c \in Time, SetCval(c) PROVE DeadlineTrue'
  BY <1>1 DEF SetCval
<1>2. ASSUME NEW e \in BOOLEAN, NEW m \in BOOLEAN, ReadCtl(e, m) PROVE DeadlineTrue'
  BY <1>2 DEF ReadCtl
<1>3. CASE TimerWakeup
  BY <1>3 DEF TimerWakeup
<1>4. CASE SetCtl
  BY <1>4 DEF SetCtl
<1>5. CASE WakeupIfArmed
  BY <1>5 DEF WakeupIfArmed
<1>6. CASE Terminate
  BY <1>6 DEF Terminate
<1>7. CASE Tick
  BY <1>7 DEF Tick
<1>8. CASE CheckTerminate
  BY <1>8 DEF CheckTerminate
<1>9. CASE CheckCanFire
  BY <1>9 DEF CheckCanFire
<1>10. CASE CheckStatus
  BY <1>10 DEF CheckStatus
<1>11. CASE TimerWait
  BY <1>11 DEF TimerWait
<1>12. CASE ClearIrqStatus
  BY <1>12 DEF ClearIrqStatus
<1>13. CASE SetIrqStatus
  BY <1>13 DEF SetIrqStatus
<1>14. CASE WriteBack
  BY <1>14 DEF WriteBack
<1>15. CASE DeassertIrq
  BY <1>15 DEF DeassertIrq
<1>16. CASE GetTimeout
  BY <1>16 DEF GetTimeout
<1>17. CASE Released
  BY <1>17 DEF Released
<1>18. CASE FallAsleep
  BY <1>18 DEF FallAsleep
<1>19. CASE TimedOut
  BY <1>19 DEF TimedOut
<1>20. CASE CheckFire
  BY <1>20 DEF CheckFire
<1>21. CASE AssertIrq
  BY <1>21 DEF AssertIrq
<1>. QED
  BY <1>1, <1>2, <1>3, <1>4, <1>5, <1>6, <1>7, <1>8, <1>9, <1>10, <1>11, <1>12,
     <1>13, <1>14, <1>15, <1>16, <1>17, <1>18, <1>19, <1>20, <1>21
     DEF Next, VcpuStep, LoopStep

(* A store that arms the timer is signaled. *)
LEMMA WaitTrueStep ==
  ASSUME IInv, Next
  PROVE  WaitTrue'
<1> USE MaxTimeAssumption
    DEF IInv, TimerType, Ctl, StatusTrue, WaitTrue, CanFire, Untouched, At,
        loopVars, vcpuVars
<1>1. ASSUME NEW c \in Time, SetCval(c) PROVE WaitTrue'
  BY <1>1 DEF SetCval
<1>2. ASSUME NEW e \in BOOLEAN, NEW m \in BOOLEAN, ReadCtl(e, m) PROVE WaitTrue'
  BY <1>2 DEF ReadCtl
<1>3. CASE TimerWakeup
  BY <1>3 DEF TimerWakeup
<1>4. CASE SetCtl
  BY <1>4 DEF SetCtl
<1>5. CASE WakeupIfArmed
  BY <1>5 DEF WakeupIfArmed
<1>6. CASE Terminate
  BY <1>6 DEF Terminate
<1>7. CASE Tick
  BY <1>7 DEF Tick
<1>8. CASE CheckTerminate
  BY <1>8 DEF CheckTerminate
<1>9. CASE CheckCanFire
  BY <1>9 DEF CheckCanFire
<1>10. CASE CheckStatus
  BY <1>10 DEF CheckStatus
<1>11. CASE TimerWait
  BY <1>11 DEF TimerWait
<1>12. CASE ClearIrqStatus
  BY <1>12 DEF ClearIrqStatus
<1>13. CASE SetIrqStatus
  BY <1>13 DEF SetIrqStatus
<1>14. CASE WriteBack
  BY <1>14 DEF WriteBack
<1>15. CASE DeassertIrq
  BY <1>15 DEF DeassertIrq
<1>16. CASE GetTimeout
  BY <1>16 DEF GetTimeout
<1>17. CASE Released
  BY <1>17 DEF Released
<1>18. CASE FallAsleep
  BY <1>18 DEF FallAsleep
<1>19. CASE TimedOut
  BY <1>19 DEF TimedOut
<1>20. CASE CheckFire
  BY <1>20 DEF CheckFire
<1>21. CASE AssertIrq
  BY <1>21 DEF AssertIrq
<1>. QED
  BY <1>1, <1>2, <1>3, <1>4, <1>5, <1>6, <1>7, <1>8, <1>9, <1>10, <1>11, <1>12,
     <1>13, <1>14, <1>15, <1>16, <1>17, <1>18, <1>19, <1>20, <1>21
     DEF Next, VcpuStep, LoopStep

(* IInv is an invariant of the timer. *)
THEOREM Invariance == Spec => []IInv
<1>1. Init => IInv
  <2> SUFFICES ASSUME Init PROVE IInv
    OBVIOUS
  <2>1. TimerType
    BY DEF Init, TimerType, Ctl
  <2>2. StatusTrue /\ DeadlineTrue /\ WaitTrue
    BY DEF Init, StatusTrue, DeadlineTrue, Current, WaitTrue
  <2>. QED BY <2>1, <2>2 DEF IInv
<1>2. IInv /\ [Next]_vars => IInv'
  <2>1. CASE UNCHANGED vars
    BY <2>1 DEF vars, loopVars, vcpuVars, IInv, TimerType, StatusTrue, DeadlineTrue,
                Current, WaitTrue, CanFire
  <2>2. CASE Next
    BY <2>2, TimerTypeStep, StatusTrueStep, DeadlineTrueStep, WaitTrueStep DEF IInv
  <2>. QED BY <2>1, <2>2
<1>. QED BY <1>1, <1>2, PTL DEF Spec

(* A loop at rest sleeps until the deadline of the registers with the line
   down, or has fired (timer_loop, set_cval, set_ctl). *)
THEOREM SleepsRight == Spec => []SleepsOnDeadline
<1>1. IInv => SleepsOnDeadline
  BY DEF IInv, TimerType, StatusTrue, DeadlineTrue, WaitTrue, Current, SleepsOnDeadline, Settled
<1>. QED BY <1>1, Invariance, PTL

-----------------------------------------------------------------------------
(* The system registers.  A VCPU that has used set/way has the VMM's request
   for the trap, whatever the VMI requests. *)

FlushInv ==
  /\ sctlr \in [Cpu -> SUBSET {"C", "M"}]
  /\ tvm \in [Cpu -> SUBSET {"VMM", "VMI"}]
  /\ pending \in [Cpu -> BOOLEAN]
  /\ \A v \in Cpu : pending[v] => "VMM" \in tvm[v]

LEMMA FlushKeeps ==
  ASSUME FlushInv, MsrNext
  PROVE  FlushInv'
<1> USE DEF FlushInv, busVars, cacheVars
<1>1. ASSUME NEW c \in Call, SetUp(c)
      PROVE  FlushInv'
  BY <1>1 DEF SetUp
<1>2. ASSUME NEW v \in Cpu, NEW name \in SetWayRegister, SetWay(v, name)
      PROVE  FlushInv'
  BY <1>2 DEF SetWay
<1>3. ASSUME NEW v \in Cpu, ControlTvm(v) \/ Apply(v)
      PROVE  FlushInv'
  BY <1>3 DEF ControlTvm, Apply
<1>4. ASSUME NEW v \in Cpu, NEW bits \in SUBSET {"C", "M"}, TrappedWrite(v, bits)
      PROVE  FlushInv'
  <2>1. tvm'[v] = (IF cache_enabled(bits) THEN tvm[v] \ {"VMM"} ELSE tvm[v])
        /\ \A u \in Cpu \ {v} : tvm'[u] = tvm[u]
    BY <1>4 DEF TrappedWrite, flush_on_cache_toggle
  <2>2. tvm' \in [Cpu -> SUBSET {"VMM", "VMI"}]
    BY <1>4 DEF TrappedWrite, flush_on_cache_toggle
  <2>3. pending' \in [Cpu -> BOOLEAN] /\ (pending'[v] <=> pending[v] /\ ~cache_enabled(bits))
        /\ \A u \in Cpu \ {v} : pending'[u] = pending[u]
    BY <1>4 DEF TrappedWrite, cache_enabled
  <2>4. sctlr' \in [Cpu -> SUBSET {"C", "M"}]
    BY <1>4 DEF TrappedWrite
  <2> QED
    BY <2>1, <2>2, <2>3, <2>4
<1>5. ASSUME NEW v \in Cpu, NEW bits \in SUBSET {"C", "M"}, DirectWrite(v, bits)
      PROVE  FlushInv'
  BY <1>5 DEF DirectWrite
<1>6. ASSUME NEW v \in Cpu, NEW a \in Memory, Store(v, a)
      PROVE  FlushInv'
  BY <1>6 DEF Store
<1> QED
  BY <1>1, <1>2, <1>3, <1>4, <1>5, <1>6 DEF MsrNext

Flushes ==
  \A v \in Cpu :
    (pending[v] /\ trapped[v] /\ cache_enabled(sctlr'[v]) # cache_enabled(sctlr[v]))
      => dirty' \cap FlushOnReset = {}

LEMMA ToggleFlushes ==
  ASSUME FlushInv, MsrNext
  PROVE  Flushes
<1> SUFFICES ASSUME NEW v \in Cpu, pending[v], trapped[v],
                    cache_enabled(sctlr'[v]) # cache_enabled(sctlr[v])
             PROVE  dirty' \cap FlushOnReset = {}
  BY DEF Flushes
<1>1. sctlr' # sctlr
  OBVIOUS
<1>2. PICK w \in Cpu, bits \in SUBSET {"C", "M"} : TrappedWrite(w, bits) \/ DirectWrite(w, bits)
  BY <1>1 DEF MsrNext, SetUp, SetWay, ControlTvm, Apply, Store, cacheVars
<1>3. w = v /\ sctlr'[v] = bits
  BY <1>2 DEF FlushInv, TrappedWrite, DirectWrite
<1>4. TrappedWrite(v, bits)
  BY <1>2, <1>3 DEF DirectWrite
<1>5. flush_guest_as
  BY <1>3, <1>4 DEF FlushInv, TrappedWrite, flush_on_cache_toggle
<1> QED
  BY <1>5 DEF flush_guest_as

(* SetWayFlushReg::flush, flush_on_cache_toggle: guest memory is flushed when a
   VCPU that has used set/way turns its caches on or off by a trapped write,
   whatever the VMI requests of the trap. *)
THEOREM SetWayMadeGood == RegistersSpec => TogglesFlush
<1>1. RegistersInit => FlushInv
  BY DEF RegistersInit, MsrInit, FlushInv
<1>2. FlushInv /\ [RegistersNext]_registersVars => FlushInv' /\ [Flushes]_msrVars
  <2> SUFFICES ASSUME FlushInv, [RegistersNext]_registersVars
               PROVE  FlushInv' /\ [Flushes]_msrVars
    OBVIOUS
  <2>1. CASE MsrNext
    BY <2>1, FlushKeeps, ToggleFlushes
  <2>2. CASE UNCHANGED msrVars
    BY <2>2 DEF msrVars, cacheVars, FlushInv
  <2> QED
    BY <2>1, <2>2 DEF RegistersNext, registersVars
<1> QED
  BY <1>1, <1>2, PTL DEF RegistersSpec, TogglesFlush, Flushes

-----------------------------------------------------------------------------
(* The bus of system registers: no two of them have one id. *)

LEMMA SingleInjective ==
  ASSUME NEW m \in DOMAIN RegisterId, NEW n \in DOMAIN RegisterId, RegisterId[m] = RegisterId[n]
  PROVE  m = n
<1> USE DEF Sys, Id3, Dbg, build_msr_id, OP0_AARCH32_ONLY_MSR
<1>1. \A x, y \in DOMAIN MemoryId : MemoryId[x] = MemoryId[y] => x = y
  BY DEF MemoryId
<1>2. \A x, y \in DOMAIN FeatureId : FeatureId[x] = FeatureId[y] => x = y
  BY DEF FeatureId
<1>3. \A x, y \in DOMAIN MonitorId : MonitorId[x] = MonitorId[y] => x = y
  BY DEF MonitorId
<1>4. \A x, y \in DOMAIN Aarch32Id : Aarch32Id[x] = Aarch32Id[y] => x = y
  BY DEF Aarch32Id
<1>5. \A x \in DOMAIN MemoryId, y \in DOMAIN FeatureId : MemoryId[x] # FeatureId[y]
  BY DEF MemoryId, FeatureId
<1>6. \A x \in DOMAIN MemoryId, y \in DOMAIN MonitorId : MemoryId[x] # MonitorId[y]
  BY DEF MemoryId, MonitorId
<1>7. \A x \in DOMAIN FeatureId, y \in DOMAIN MonitorId : FeatureId[x] # MonitorId[y]
  BY DEF FeatureId, MonitorId
<1>8. \A x \in DOMAIN MemoryId, y \in DOMAIN Aarch32Id : MemoryId[x] # Aarch32Id[y]
  BY DEF MemoryId, Aarch32Id
<1>9. \A x \in DOMAIN FeatureId, y \in DOMAIN Aarch32Id : FeatureId[x] # Aarch32Id[y]
  BY DEF FeatureId, Aarch32Id
<1>10. \A x \in DOMAIN MonitorId, y \in DOMAIN Aarch32Id : MonitorId[x] # Aarch32Id[y]
  BY DEF MonitorId, Aarch32Id
<1> QED
  BY <1>1, <1>2, <1>3, <1>4, <1>5, <1>6, <1>7, <1>8, <1>9, <1>10 DEF RegisterId
(* The ids of the registers of which there are several, as numbers: of register i of
   bank k, and of the counter (c = 0) or the type (c = 1) of event i. *)
DebugNumber(k, i) == 131072 + 8192 * k + 8 * i
EventNumber(c, i) == 200512 + 32 * c + 8 * (i \div 8) + 8192 * (i % 8)

LEMMA DebugIds ==
  ASSUME NEW i \in 0 .. 15, NEW k \in 4 .. 7
  PROVE  Dbg(0, i, k) = DebugNumber(k, i)
<1>1. i % 16 = i /\ k % 8 = k
  OBVIOUS
<1> QED
  BY <1>1, SMT DEF Dbg, build_msr_id, DebugNumber

LEMMA EventFields ==
  ASSUME NEW i \in 0 .. 30
  PROVE  /\ i \div 8 \in 0 .. 3 /\ i % 8 \in 0 .. 7 /\ i = 8 * (i \div 8) + (i % 8)
         /\ i \div 8 = 3 => i % 8 # 7
  OBVIOUS

LEMMA EventIds ==
  ASSUME NEW i \in 0 .. 30
  PROVE  pmevcntrn_el0(i) = EventNumber(0, i) /\ pmevtypern_el0(i) = EventNumber(1, i)
<1> DEFINE q == i \div 8
           m == i % 8
<1>1. q \in 0 .. 3 /\ m \in 0 .. 7
  OBVIOUS
<1> HIDE DEF q, m
<1>2. (8 + q) % 16 = 8 + q /\ (12 + q) % 16 = 12 + q /\ m % 8 = m
  BY <1>1
<1>3. /\ Sys(14, 3, 8 + q, m) = 200512 + 8 * q + 8192 * m
      /\ Sys(14, 3, 12 + q, m) = 200544 + 8 * q + 8192 * m
  BY <1>1, <1>2, SMT DEF Sys, build_msr_id
<1> QED
  BY <1>1, <1>3, SMT DEF pmevcntrn_el0, pmevtypern_el0, EventNumber, q, m

MaxId == 16777215

(* No single register has the id of one of them: an id with op0 = 2 and op2 > 3 has
   crn = 1, one with op0 = 3 has other fields, but for that of the cycle counter. *)
Apart(id) ==
  /\ id \in Nat /\ id <= MaxId
  /\ id < 163840 \/ id >= 196608 \/ (id \div 128) % 2 = 1
  /\ id < 196608 \/ id >= 262144 \/ id % 8192 < 3904 \/ id % 8192 > 3960 \/ id = 257912

LEMMA SinglesApart ==
  ASSUME NEW x \in DOMAIN RegisterId
  PROVE  Apart(RegisterId[x])
<1> USE DEF Sys, Id3, Dbg, build_msr_id, OP0_AARCH32_ONLY_MSR
<1>1. ASSUME NEW y \in DOMAIN MemoryId PROVE Apart(MemoryId[y])
  <2>1. MemoryId[y] \in Nat /\ MemoryId[y] <= MaxId
    BY <1>1, SMT DEF MemoryId, MaxId
  <2>2. MemoryId[y] < 163840 \/ MemoryId[y] >= 196608
    BY <1>1, SMT DEF MemoryId
  <2>3. MemoryId[y] % 8192 < 3904
    BY <1>1, SMT DEF MemoryId
  <2> QED
    BY <2>1, <2>2, <2>3, SMT DEF Apart, MaxId
<1>2. ASSUME NEW y \in DOMAIN FeatureId PROVE Apart(FeatureId[y])
  <2>1. FeatureId[y] \in Nat /\ FeatureId[y] <= MaxId
    BY <1>2, SMT DEF FeatureId, MaxId
  <2>2. FeatureId[y] < 163840 \/ FeatureId[y] >= 196608 \/ y \in {"OSDLR_EL1", "OSLAR_EL1", "OSLSR_EL1"}
    BY <1>2, SMT DEF FeatureId
  <2>3. \A z \in {"OSDLR_EL1", "OSLAR_EL1", "OSLSR_EL1"} : (FeatureId[z] \div 128) % 2 = 1
    BY DEF FeatureId
  <2>4. FeatureId[y] % 8192 < 3904
    BY <1>2, SMT DEF FeatureId
  <2> QED
    BY <2>1, <2>2, <2>3, <2>4, SMT DEF Apart, MaxId
<1>3. ASSUME NEW y \in DOMAIN MonitorId PROVE Apart(MonitorId[y])
  <2>1. MonitorId[y] \in Nat /\ MonitorId[y] <= MaxId
    BY <1>3, SMT DEF MonitorId, MaxId
  <2>2. MonitorId[y] >= 196608
    BY <1>3, SMT DEF MonitorId
  <2>3. MonitorId[y] % 8192 < 3904 \/ y = "PMCCFILTR_EL0"
    BY <1>3, SMT DEF MonitorId
  <2>4. MonitorId["PMCCFILTR_EL0"] = 257912
    BY DEF MonitorId
  <2> QED
    BY <2>1, <2>2, <2>3, <2>4, SMT DEF Apart, MaxId
<1>4. ASSUME NEW y \in DOMAIN Aarch32Id PROVE Apart(Aarch32Id[y])
  BY SMT DEF Aarch32Id, Apart, MaxId
<1> QED
  BY <1>1, <1>2, <1>3, <1>4 DEF RegisterId

(* No id of the one kind is one of another, *)
LEMMA NumbersApart ==
  ASSUME NEW k \in 4 .. 7, NEW j \in 0 .. 15, NEW c \in {0, 1}, NEW i \in 0 .. 30
  PROVE  /\ ~Apart(DebugNumber(k, j)) /\ ~Apart(EventNumber(c, i))
         /\ DebugNumber(k, j) # EventNumber(c, i)
<1>1. ASSUME NEW d \in Nat, d = DebugNumber(k, j) PROVE ~Apart(d) /\ d < 196608
  <2>1. d = 131072 + 8192 * k + 8 * j
    BY <1>1, SMT DEF DebugNumber
  <2>2. d \div 128 = 1024 + 64 * k
    BY <2>1, SMT
  <2>3. (d \div 128) % 2 = 0
    BY <2>2, SMT
  <2> QED
    BY <2>1, <2>3, SMT DEF Apart, MaxId
<1>2. ASSUME NEW d \in Nat, d = EventNumber(c, i) PROVE ~Apart(d) /\ d >= 196608
  <2> DEFINE q == i \div 8
             m == i % 8
  <2>1. d = 200512 + 32 * c + 8 * q + 8192 * m
    BY <1>2, SMT DEF EventNumber
  <2>2. q \in 0 .. 3 /\ m \in 0 .. 7 /\ (q = 3 => m # 7)
    BY EventFields, Zenon
  <2> HIDE DEF q, m
  <2>3. d % 8192 = 3904 + 32 * c + 8 * q
    BY <2>1, <2>2, SMT
  <2> QED
    BY <2>1, <2>2, <2>3, SMT DEF Apart, MaxId
<1>3. DebugNumber(k, j) \in Nat /\ EventNumber(c, i) \in Nat
  BY SMT DEF DebugNumber, EventNumber
<1>4. ~Apart(DebugNumber(k, j)) /\ DebugNumber(k, j) < 196608
  BY <1>1, <1>3, SMT
<1>5. ~Apart(EventNumber(c, i)) /\ EventNumber(c, i) >= 196608
  BY <1>2, <1>3, SMT
<1>6. DebugNumber(k, j) # EventNumber(c, i)
  BY <1>3, <1>4, <1>5, SMT
<1> QED
  BY <1>4, <1>5, <1>6, SMT

(* and none of its kind is used twice. *)
LEMMA DebugUnique ==
  ASSUME NEW k \in 4 .. 7, NEW l \in 4 .. 7, NEW i \in 0 .. 15, NEW j \in 0 .. 15,
         DebugNumber(k, i) = DebugNumber(l, j)
  PROVE  k = l /\ i = j
  BY SMT DEF DebugNumber

LEMMA EventUnique ==
  ASSUME NEW b \in {0, 1}, NEW c \in {0, 1}, NEW i \in 0 .. 30, NEW j \in 0 .. 30,
         EventNumber(b, i) = EventNumber(c, j)
  PROVE  b = c /\ i = j
<1> DEFINE qi == i \div 8
           mi == i % 8
           qj == j \div 8
           mj == j % 8
<1>1. 200512 + 32 * b + 8 * qi + 8192 * mi = 200512 + 32 * c + 8 * qj + 8192 * mj
  BY SMT DEF EventNumber
<1>2. /\ qi \in 0 .. 3 /\ mi \in 0 .. 7 /\ i = 8 * qi + mi
      /\ qj \in 0 .. 3 /\ mj \in 0 .. 7 /\ j = 8 * qj + mj
  BY EventFields, Zenon
<1> HIDE DEF qi, mi, qj, mj
<1>3. b = c /\ qi = qj /\ mi = mj
  BY <1>1, <1>2, SMT
<1> QED
  BY <1>2, <1>3, SMT

Several == (DOMAIN DebugBank) \cup {"PMEVCNTRN_EL0", "PMEVTYPERN_EL0"}

LEMMA SeveralApart == Several \cap DOMAIN RegisterId = {}
<1>1. Several = {"DBGBVR_EL1", "DBGBCR_EL1", "DBGWVR_EL1", "DBGWCR_EL1", "PMEVCNTRN_EL0", "PMEVTYPERN_EL0"}
  BY DEF Several, DebugBank
<1>2. Several \cap DOMAIN MemoryId = {}
  BY <1>1 DEF MemoryId
<1>3. Several \cap DOMAIN FeatureId = {}
  BY <1>1 DEF FeatureId
<1>4. Several \cap DOMAIN MonitorId = {}
  BY <1>1 DEF MonitorId
<1>5. Several \cap DOMAIN Aarch32Id = {}
  BY <1>1 DEF Aarch32Id
<1> QED
  BY <1>2, <1>3, <1>4, <1>5 DEF RegisterId

(* All registers of all platforms. *)
BusRegisters ==
  ((DOMAIN RegisterId) \X {0}) \cup ((DOMAIN DebugBank) \X (0 .. 15))
    \cup ({"PMEVCNTRN_EL0", "PMEVTYPERN_EL0"} \X (0 .. 30))

(* A register is one of four kinds, and its id is that of its kind. *)
IsSingle(x) == x[1] \in DOMAIN RegisterId /\ x[2] = 0 /\ IdOf(x) = RegisterId[x[1]]
IsDebug(x) ==
  /\ x[1] \in DOMAIN DebugBank /\ x[2] \in 0 .. 15 /\ DebugBank[x[1]] \in 4 .. 7
  /\ IdOf(x) = DebugNumber(DebugBank[x[1]], x[2])
EventName == <<"PMEVCNTRN_EL0", "PMEVTYPERN_EL0">>
IsEvent(c, x) ==
  /\ x[1] = EventName[c + 1] /\ x[2] \in 0 .. 30
  /\ IdOf(x) = EventNumber(c, x[2])

LEMMA Kinds ==
  ASSUME NEW x \in BusRegisters
  PROVE  x = <<x[1], x[2]>> /\ (IsSingle(x) \/ IsDebug(x) \/ IsEvent(0, x) \/ IsEvent(1, x))
<1>1. x = <<x[1], x[2]>>
  BY DEF BusRegisters
<1>2. CASE x[1] \in DOMAIN RegisterId
  <2>1. x[1] \notin Several
    BY <1>2, SeveralApart
  <2>2. x[2] = 0
    BY <2>1 DEF BusRegisters, Several
  <2>3. IdOf(x) = RegisterId[x[1]]
    BY <1>2, <2>1 DEF IdOf, Several
  <2> QED
    BY <1>1, <1>2, <2>2, <2>3, Zenon DEF IsSingle
<1>3. CASE x[1] \in DOMAIN DebugBank
  <2>1. x[1] \notin DOMAIN RegisterId
    BY <1>3, SeveralApart DEF Several
  <2>2. x[1] \notin {"PMEVCNTRN_EL0", "PMEVTYPERN_EL0"} /\ DebugBank[x[1]] \in 4 .. 7
    BY <1>3 DEF DebugBank
  <2>3. x[2] \in 0 .. 15
    BY <2>1, <2>2 DEF BusRegisters
  <2>4. IdOf(x) = DebugId(x[1], x[2])
    BY <1>3, <2>1, <2>2 DEF IdOf
  <2>5. IdOf(x) = DebugNumber(DebugBank[x[1]], x[2])
    BY <2>2, <2>3, <2>4, DebugIds, Zenon DEF DebugId
  <2> QED
    BY <1>1, <1>3, <2>2, <2>3, <2>5, Zenon DEF IsDebug
<1>4. CASE x[1] \in {"PMEVCNTRN_EL0", "PMEVTYPERN_EL0"}
  <2>1. x[1] \notin DOMAIN RegisterId
    BY <1>4, SeveralApart DEF Several
  <2>2. x[1] \notin DOMAIN DebugBank
    BY <1>4 DEF DebugBank
  <2>3. x[2] \in 0 .. 30
    BY <2>1, <2>2 DEF BusRegisters
  <2>4. CASE x[1] = "PMEVCNTRN_EL0"
    <3>1. IdOf(x) = pmevcntrn_el0(x[2])
      BY <2>1, <2>2, <2>4 DEF IdOf
    <3>2. IdOf(x) = EventNumber(0, x[2])
      BY <2>3, <3>1, EventIds, Zenon
    <3>3. x[1] = EventName[0 + 1]
      BY <2>4 DEF EventName
    <3> QED
      BY <1>1, <2>3, <3>2, <3>3, Zenon DEF IsEvent
  <2>5. CASE x[1] = "PMEVTYPERN_EL0"
    <3>1. IdOf(x) = pmevtypern_el0(x[2])
      BY <2>1, <2>2, <2>5 DEF IdOf
    <3>2. IdOf(x) = EventNumber(1, x[2])
      BY <2>3, <3>1, EventIds, Zenon
    <3>3. x[1] = EventName[1 + 1]
      BY <2>5 DEF EventName
    <3> QED
      BY <1>1, <2>3, <3>2, <3>3, Zenon DEF IsEvent
  <2> QED
    BY <1>4, <2>4, <2>5
<1> QED
  BY <1>2, <1>3, <1>4 DEF BusRegisters

LEMMA KindsApart ==
  ASSUME NEW x \in BusRegisters, NEW y \in BusRegisters, IdOf(x) = IdOf(y)
  PROVE  /\ ~(IsSingle(x) /\ IsDebug(y))
         /\ \A c \in {0, 1} : ~(IsSingle(x) /\ IsEvent(c, y)) /\ ~(IsDebug(x) /\ IsEvent(c, y))
<1>1. IsSingle(x) => Apart(IdOf(y))
  BY SinglesApart, Zenon DEF IsSingle
<1>2. IsDebug(y) => ~Apart(IdOf(y))
  <2>1. 0 \in {0, 1} /\ 0 \in 0 .. 30
    OBVIOUS
  <2> QED
    BY <2>1, NumbersApart, Zenon DEF IsDebug
<1>3. ASSUME NEW c \in {0, 1}, IsEvent(c, y)
      PROVE  ~Apart(IdOf(y)) /\ ~IsDebug(x)
  <2>1. 4 \in 4 .. 7 /\ 0 \in 0 .. 15
    OBVIOUS
  <2>2. ~Apart(IdOf(y))
    BY <1>3, <2>1, NumbersApart, Zenon DEF IsEvent
  <2>3. ~IsDebug(x)
    BY <1>3, NumbersApart, Zenon DEF IsDebug, IsEvent
  <2> QED
    BY <2>2, <2>3
<1> QED
  BY <1>1, <1>2, <1>3, Zenon

LEMMA KindInjective ==
  ASSUME NEW x \in BusRegisters, NEW y \in BusRegisters, IdOf(x) = IdOf(y)
  PROVE  /\ IsSingle(x) /\ IsSingle(y) => x[1] = y[1] /\ x[2] = y[2]
         /\ IsDebug(x) /\ IsDebug(y) => x[1] = y[1] /\ x[2] = y[2]
         /\ \A b, c \in {0, 1} : IsEvent(b, x) /\ IsEvent(c, y) => x[1] = y[1] /\ x[2] = y[2]
<1>1. IsSingle(x) /\ IsSingle(y) => x[1] = y[1] /\ x[2] = y[2]
  BY SingleInjective, Zenon DEF IsSingle
<1>2. ASSUME IsDebug(x), IsDebug(y)
      PROVE  x[1] = y[1] /\ x[2] = y[2]
  <2> DEFINE k == DebugBank[x[1]]
             l == DebugBank[y[1]]
             i == x[2]
             j == y[2]
  <2>1. k \in 4 .. 7 /\ i \in 0 .. 15 /\ x[1] \in DOMAIN DebugBank /\ IdOf(x) = DebugNumber(k, i)
    BY <1>2, Zenon DEF IsDebug
  <2>2. l \in 4 .. 7 /\ j \in 0 .. 15 /\ y[1] \in DOMAIN DebugBank /\ IdOf(y) = DebugNumber(l, j)
    BY <1>2, Zenon DEF IsDebug
  <2>3. \A a, b \in DOMAIN DebugBank : DebugBank[a] = DebugBank[b] => a = b
    BY DEF DebugBank
  <2> HIDE DEF k, l, i, j
  <2>4. DebugNumber(k, i) = DebugNumber(l, j)
    BY <2>1, <2>2, Zenon
  <2>5. k = l /\ i = j
    BY <2>1, <2>2, <2>4, DebugUnique, SMT
  <2> QED
    BY <2>1, <2>2, <2>3, <2>5, Zenon DEF k, l, i, j
<1>3. ASSUME NEW b \in {0, 1}, NEW c \in {0, 1}, IsEvent(b, x), IsEvent(c, y)
      PROVE  x[1] = y[1] /\ x[2] = y[2]
  <2> DEFINE i == x[2]
             j == y[2]
  <2>1. i \in 0 .. 30 /\ IdOf(x) = EventNumber(b, i) /\ x[1] = EventName[b + 1]
    BY <1>3, Zenon DEF IsEvent
  <2>2. j \in 0 .. 30 /\ IdOf(y) = EventNumber(c, j) /\ y[1] = EventName[c + 1]
    BY <1>3, Zenon DEF IsEvent
  <2> HIDE DEF i, j
  <2>3. EventNumber(b, i) = EventNumber(c, j)
    BY <2>1, <2>2, Zenon
  <2>4. b = c /\ i = j
    BY <2>1, <2>2, <2>3, EventUnique, Zenon
  <2> QED
    BY <2>1, <2>2, <2>4, Zenon DEF i, j
<1> QED
  BY <1>1, <1>2, <1>3, Zenon

(* No two registers have one id. *)
LEMMA IdInjective ==
  ASSUME NEW d \in BusRegisters, NEW e \in BusRegisters, IdOf(d) = IdOf(e)
  PROVE  d = e
<1>1. d = <<d[1], d[2]>> /\ (IsSingle(d) \/ IsDebug(d) \/ IsEvent(0, d) \/ IsEvent(1, d))
  BY Kinds, Zenon
<1>2. e = <<e[1], e[2]>> /\ (IsSingle(e) \/ IsDebug(e) \/ IsEvent(0, e) \/ IsEvent(1, e))
  BY Kinds, Zenon
<1>3. 0 \in {0, 1} /\ 1 \in {0, 1}
  OBVIOUS
<1>4. d[1] = e[1] /\ d[2] = e[2]
  BY <1>1, <1>2, <1>3, KindsApart, KindInjective, Zenon
<1> QED
  BY <1>1, <1>2, <1>4, Zenon

(* The ids are numbers of three bytes. *)
LEMMA IdBound ==
  ASSUME NEW d \in BusRegisters
  PROVE  IdOf(d) \in Nat /\ IdOf(d) <= MaxId
<1>1. IsSingle(d) => IdOf(d) \in Nat /\ IdOf(d) <= MaxId
  <2> SUFFICES ASSUME IsSingle(d) PROVE IdOf(d) \in Nat /\ IdOf(d) <= MaxId
    OBVIOUS
  <2>1. Apart(RegisterId[d[1]]) /\ IdOf(d) = RegisterId[d[1]]
    BY SinglesApart, Zenon DEF IsSingle
  <2> QED
    BY <2>1, SMT DEF Apart
<1>2. ASSUME NEW k \in 4 .. 7, NEW j \in 0 .. 15 PROVE DebugNumber(k, j) \in Nat /\ DebugNumber(k, j) <= MaxId
  BY SMT DEF DebugNumber, MaxId
<1>3. ASSUME NEW c \in {0, 1}, NEW i \in 0 .. 30 PROVE EventNumber(c, i) \in Nat /\ EventNumber(c, i) <= MaxId
  <2> DEFINE q == i \div 8
             m == i % 8
  <2>1. q \in 0 .. 3 /\ m \in 0 .. 7
    BY EventFields, Zenon
  <2>2. EventNumber(c, i) = 200512 + 32 * c + 8 * q + 8192 * m
    BY SMT DEF EventNumber
  <2> HIDE DEF q, m
  <2> QED
    BY <2>1, <2>2, SMT DEF MaxId
<1> DEFINE Small(n) == n \in Nat /\ n <= MaxId
<1>4. (\A k \in 4 .. 7, j \in 0 .. 15 : Small(DebugNumber(k, j)))
      /\ (\A c \in {0, 1}, i \in 0 .. 30 : Small(EventNumber(c, i)))
      /\ (IsSingle(d) => Small(IdOf(d)))
  BY <1>1, <1>2, <1>3, SMT
<1> HIDE DEF Small
<1>5. IsDebug(d) => Small(IdOf(d))
  BY <1>4, Zenon DEF IsDebug
<1>6. \A c \in {0, 1} : IsEvent(c, d) => Small(IdOf(d))
  BY <1>4, Zenon DEF IsEvent
<1>7. Small(IdOf(d))
  BY <1>4, <1>5, <1>6, Kinds, Zenon
<1> QED
  BY <1>7, SMT DEF Small

(* The names of the two smaller calls; a set of registers without them. *)
CallNames == {"CLIDR_EL1", "CSSELR_EL1", "CTR_A64", "CCSIDR_EL1",
              "CNTP_TVAL_EL0", "CNTP_CTL_EL0", "CNTP_CVAL_EL0", "CNTPCT_EL0"}
Others(S) == S \subseteq BusRegisters /\ \A d \in S : d[1] \notin CallNames

LEMMA PlainOthers ==
  ASSUME NEW S, \A d \in S : d = <<d[1], 0>>,
         \A n : <<n, 0>> \in S => n \in DOMAIN RegisterId /\ n \notin CallNames
  PROVE  Others(S)
<1> SUFFICES ASSUME NEW d \in S PROVE d \in BusRegisters /\ d[1] \notin CallNames
  BY DEF Others
<1>1. d = <<d[1], 0>>
  OBVIOUS
<1>2. d[1] \in DOMAIN RegisterId /\ d[1] \notin CallNames
  BY <1>1
<1> QED
  BY <1>1, <1>2 DEF BusRegisters

LEMMA OthersUnion ==
  ASSUME NEW S, NEW T, Others(S), Others(T)
  PROVE  Others(S \cup T)
  BY DEF Others

LEMMA TableNames ==
  /\ DOMAIN MemoryId \subseteq DOMAIN RegisterId /\ DOMAIN FeatureId \subseteq DOMAIN RegisterId
  /\ DOMAIN MonitorId \subseteq DOMAIN RegisterId /\ DOMAIN Aarch32Id \subseteq DOMAIN RegisterId
  BY DEF RegisterId

LEMMA FunctionsOthers ==
  /\ Others(setup_aarch64_features)
  /\ Others(setup_aarch64_memory_model)
  /\ Others(setup_aarch64_setway_flushes)
  /\ Others(setup_page_table_regs)
  /\ Others(setup_aarch64_ras)
  /\ Others(setup_aarch64_pms)
  /\ Others(setup_gic_registers)
  /\ Others(setup_aarch32_features)
  /\ Others(setup_aarch32_memory_model)
  /\ Others(setup_aarch32_media_vfp)
  /\ Others(setup_aarch32_debug)
<1>1. Others(setup_aarch64_features)
  <2>1. \A n : <<n, 0>> \in setup_aarch64_features => n \in DOMAIN FeatureId \cup DOMAIN MemoryId
    BY DEF setup_aarch64_features, One, FeatureId, MemoryId
  <2>2. \A n : <<n, 0>> \in setup_aarch64_features => n \notin CallNames
    BY DEF setup_aarch64_features, One, CallNames
  <2>3. \A d \in setup_aarch64_features : d = <<d[1], 0>>
    BY DEF setup_aarch64_features, One
  <2> QED
    BY <2>1, <2>2, <2>3, TableNames, PlainOthers
<1>2. Others(setup_aarch64_memory_model)
  <2>1. \A n : <<n, 0>> \in setup_aarch64_memory_model => n \in DOMAIN FeatureId \cup DOMAIN MemoryId
    BY DEF setup_aarch64_memory_model, One, FeatureId, MemoryId
  <2>2. \A n : <<n, 0>> \in setup_aarch64_memory_model => n \notin CallNames
    BY DEF setup_aarch64_memory_model, One, CallNames
  <2>3. \A d \in setup_aarch64_memory_model : d = <<d[1], 0>>
    BY DEF setup_aarch64_memory_model, One
  <2> QED
    BY <2>1, <2>2, <2>3, TableNames, PlainOthers
<1>3. Others(setup_aarch64_setway_flushes)
  <2>1. \A n : <<n, 0>> \in setup_aarch64_setway_flushes => n \in DOMAIN MemoryId
    BY DEF setup_aarch64_setway_flushes, One, SetWayRegister, MemoryId
  <2>2. \A n : <<n, 0>> \in setup_aarch64_setway_flushes => n \notin CallNames
    BY DEF setup_aarch64_setway_flushes, One, SetWayRegister, CallNames
  <2>3. \A d \in setup_aarch64_setway_flushes : d = <<d[1], 0>>
    BY DEF setup_aarch64_setway_flushes, One, SetWayRegister
  <2> QED
    BY <2>1, <2>2, <2>3, TableNames, PlainOthers
<1>4. Others(setup_page_table_regs)
  <2>1. \A n : <<n, 0>> \in setup_page_table_regs => n \in DOMAIN MemoryId
    BY DEF setup_page_table_regs, One, MemoryId
  <2>2. \A n : <<n, 0>> \in setup_page_table_regs => n \notin CallNames
    BY DEF setup_page_table_regs, One, CallNames
  <2>3. \A d \in setup_page_table_regs : d = <<d[1], 0>>
    BY DEF setup_page_table_regs, One
  <2> QED
    BY <2>1, <2>2, <2>3, TableNames, PlainOthers
<1>5. Others(setup_aarch64_ras)
  <2>1. \A n : <<n, 0>> \in setup_aarch64_ras => n \in DOMAIN MonitorId
    BY DEF setup_aarch64_ras, One, MonitorId
  <2>2. \A n : <<n, 0>> \in setup_aarch64_ras => n \notin CallNames
    BY DEF setup_aarch64_ras, One, CallNames
  <2>3. \A d \in setup_aarch64_ras : d = <<d[1], 0>>
    BY DEF setup_aarch64_ras, One
  <2> QED
    BY <2>1, <2>2, <2>3, TableNames, PlainOthers
<1>6. Others(setup_aarch64_pms)
  <2>1. \A n : <<n, 0>> \in setup_aarch64_pms => n \in DOMAIN MonitorId
    BY DEF setup_aarch64_pms, One, MonitorId
  <2>2. \A n : <<n, 0>> \in setup_aarch64_pms => n \notin CallNames
    BY DEF setup_aarch64_pms, One, CallNames
  <2>3. \A d \in setup_aarch64_pms : d = <<d[1], 0>>
    BY DEF setup_aarch64_pms, One
  <2> QED
    BY <2>1, <2>2, <2>3, TableNames, PlainOthers
<1>7. Others(setup_gic_registers)
  <2>1. \A n : <<n, 0>> \in setup_gic_registers => n \in DOMAIN FeatureId
    BY DEF setup_gic_registers, One, FeatureId
  <2>2. \A n : <<n, 0>> \in setup_gic_registers => n \notin CallNames
    BY DEF setup_gic_registers, One, CallNames
  <2>3. \A d \in setup_gic_registers : d = <<d[1], 0>>
    BY DEF setup_gic_registers, One
  <2> QED
    BY <2>1, <2>2, <2>3, TableNames, PlainOthers
<1>8. Others(setup_aarch32_features)
  <2>1. \A n : <<n, 0>> \in setup_aarch32_features => n \in DOMAIN FeatureId \cup DOMAIN MemoryId
    BY DEF setup_aarch32_features, One, FeatureId, MemoryId
  <2>2. \A n : <<n, 0>> \in setup_aarch32_features => n \notin CallNames
    BY DEF setup_aarch32_features, One, CallNames
  <2>3. \A d \in setup_aarch32_features : d = <<d[1], 0>>
    BY DEF setup_aarch32_features, One
  <2> QED
    BY <2>1, <2>2, <2>3, TableNames, PlainOthers
<1>9. Others(setup_aarch32_memory_model)
  <2>1. \A n : <<n, 0>> \in setup_aarch32_memory_model => n \in DOMAIN FeatureId
    BY DEF setup_aarch32_memory_model, One, FeatureId
  <2>2. \A n : <<n, 0>> \in setup_aarch32_memory_model => n \notin CallNames
    BY DEF setup_aarch32_memory_model, One, CallNames
  <2>3. \A d \in setup_aarch32_memory_model : d = <<d[1], 0>>
    BY DEF setup_aarch32_memory_model, One
  <2> QED
    BY <2>1, <2>2, <2>3, TableNames, PlainOthers
<1>10. Others(setup_aarch32_media_vfp)
  <2>1. \A n : <<n, 0>> \in setup_aarch32_media_vfp => n \in DOMAIN Aarch32Id \cup DOMAIN MemoryId
    BY DEF setup_aarch32_media_vfp, One, Aarch32Id, MemoryId
  <2>2. \A n : <<n, 0>> \in setup_aarch32_media_vfp => n \notin CallNames
    BY DEF setup_aarch32_media_vfp, One, CallNames
  <2>3. \A d \in setup_aarch32_media_vfp : d = <<d[1], 0>>
    BY DEF setup_aarch32_media_vfp, One
  <2> QED
    BY <2>1, <2>2, <2>3, TableNames, PlainOthers
<1>11. Others(setup_aarch32_debug)
  <2>1. \A n : <<n, 0>> \in setup_aarch32_debug => n \in DOMAIN FeatureId
    BY DEF setup_aarch32_debug, One, FeatureId
  <2>2. \A n : <<n, 0>> \in setup_aarch32_debug => n \notin CallNames
    BY DEF setup_aarch32_debug, One, CallNames
  <2>3. \A d \in setup_aarch32_debug : d = <<d[1], 0>>
    BY DEF setup_aarch32_debug, One
  <2> QED
    BY <2>1, <2>2, <2>3, TableNames, PlainOthers
<1> QED
  BY <1>1, <1>2, <1>3, <1>4, <1>5, <1>6, <1>7, <1>8, <1>9, <1>10, <1>11

LEMMA OneOthers ==
  ASSUME NEW names, \A n \in names : n \in DOMAIN RegisterId /\ n \notin CallNames
  PROVE  Others(One(names))
<1>1. \A d \in One(names) : d = <<d[1], 0>>
  BY DEF One
<1>2. \A n : <<n, 0>> \in One(names) => n \in names
  BY DEF One
<1> QED
  BY <1>1, <1>2, PlainOthers

LEMMA TvmOthers == Others(setup_tvm)
<1> DEFINE names == {"AFSR0_EL1", "AFSR1_EL1", "ESR_EL1", "FAR_EL1", "MAIR_EL1", "MAIR1_A32", "AMAIR_EL1",
                     "DACR", "IFSR", "CONTEXTIDR_EL1"}
<1>1. \A n \in names : n \in DOMAIN MemoryId \cup DOMAIN Aarch32Id
  BY DEF MemoryId, Aarch32Id
<1>2. \A n \in names : n \notin CallNames
  BY DEF CallNames
<1>3. setup_tvm = setup_page_table_regs \cup One(names)
  BY DEF setup_tvm
<1> HIDE DEF names
<1>4. Others(One(names))
  BY <1>1, <1>2, TableNames, OneOthers
<1> QED
  BY <1>3, <1>4, FunctionsOthers, OthersUnion

LEMMA DebugOthers == Others(setup_aarch64_debug)
<1> DEFINE names == {"ID_AA64DFR0_EL1", "ID_AA64DFR1_EL1", "MDSCR_EL1", "MDRAR_EL1"}
           banks == (DOMAIN DebugBank) \X (0 .. 15)
<1>1. \A n \in names : n \in DOMAIN MemoryId \cup DOMAIN FeatureId
  BY DEF MemoryId, FeatureId
<1>2. \A n \in names : n \notin CallNames
  BY DEF CallNames
<1>3. \A n \in DOMAIN DebugBank : n \notin CallNames
  BY DEF DebugBank, CallNames
<1>4. setup_aarch64_debug = One(names) \cup banks
  BY DEF setup_aarch64_debug
<1>5. Others(banks)
  BY <1>3 DEF Others, BusRegisters
<1> HIDE DEF names, banks
<1>6. Others(One(names))
  BY <1>1, <1>2, TableNames, OneOthers
<1> QED
  BY <1>4, <1>5, <1>6, OthersUnion

LEMMA PmOthers == Others(setup_aarch64_pm)
<1> DEFINE names == {"PMCR_EL0", "PMCNTENSET_EL0", "PMCNTENCLR_EL0", "PMOVSCLR_EL0", "PMSWINC_EL0",
                     "PMSELR_EL0", "PMCEID0_EL0", "PMCEID1_EL0", "PMCCNTR_EL0", "PMXEVTYPER_EL0",
                     "PMXEVCNTR_EL0", "PMUSERENR_EL0", "PMOVSSET_EL0", "PMCCFILTR_EL0",
                     "PMINTENSET_EL1", "PMINTENCLR_EL1"}
           counters == {"PMEVCNTRN_EL0"} \X (0 .. 30)
           types == {"PMEVTYPERN_EL0"} \X (0 .. 30)
<1>1. \A n \in names : n \in DOMAIN MonitorId
  BY DEF MonitorId
<1>2. \A n \in names : n \notin CallNames
  BY DEF CallNames
<1>3. setup_aarch64_pm = One(names) \cup counters \cup types
  <2>1. NUM_PMEVCNTR_REGS - 1 = 30 /\ NUM_PMEVTYPER_REGS - 1 = 30
    BY DEF NUM_PMEVCNTR_REGS, NUM_PMEVTYPER_REGS
  <2> QED
    BY <2>1, Zenon DEF setup_aarch64_pm
<1>4. Others(counters)
  BY DEF Others, BusRegisters, CallNames
<1>5. Others(types)
  BY DEF Others, BusRegisters, CallNames
<1> HIDE DEF names, counters, types
<1>6. Others(One(names))
  BY <1>1, <1>2, TableNames, OneOthers
<1> QED
  BY <1>3, <1>4, <1>5, <1>6, OthersUnion

LEMMA Aarch32Others == Others(setup_aarch32_msr)
<1> DEFINE names == {"JIDR", "FCSEIDR", "TCMTR", "TLBTR", "ID_AFR0_EL1"}
<1>1. \A n \in names : n \in DOMAIN FeatureId \cup DOMAIN Aarch32Id
  BY DEF FeatureId, Aarch32Id
<1>2. \A n \in names : n \notin CallNames
  BY DEF CallNames
<1>3. setup_aarch32_msr = setup_aarch32_features \cup setup_aarch32_memory_model
        \cup setup_aarch32_media_vfp \cup setup_aarch32_debug \cup One(names)
  BY DEF setup_aarch32_msr
<1> HIDE DEF names
<1>4. Others(One(names))
  BY <1>1, <1>2, TableNames, OneOthers
<1> QED
  BY <1>3, <1>4, FunctionsOthers, OthersUnion

LEMMA ArchOthers ==
  ASSUME NEW p
  PROVE  Others(setup_arch_msr(p))
<1> DEFINE names == {"AIDR_EL1", "REVIDR_EL1", "OSDLR_EL1", "OSLAR_EL1", "OSLSR_EL1"}
           gic == IF p.gic_v3 THEN setup_gic_registers ELSE {}
           msr == IF p.aarch32 THEN setup_aarch32_msr ELSE {}
<1>1. \A n \in names : n \in DOMAIN FeatureId
  BY DEF FeatureId
<1>2. \A n \in names : n \notin CallNames
  BY DEF CallNames
<1>3. setup_arch_msr(p) =
        setup_aarch64_features \cup setup_aarch64_memory_model \cup setup_aarch64_setway_flushes
          \cup setup_aarch64_debug \cup setup_tvm \cup setup_aarch64_ras \cup setup_aarch64_pm
          \cup setup_aarch64_pms \cup One(names) \cup gic \cup msr
  BY DEF setup_arch_msr
<1>4. Others({})
  BY DEF Others
<1>5. Others(gic) /\ Others(msr)
  BY <1>4, FunctionsOthers, Aarch32Others
<1> HIDE DEF names, gic, msr
<1>6. Others(One(names))
  BY <1>1, <1>2, TableNames, OneOthers
<1>7. Others(setup_aarch64_features \cup setup_aarch64_memory_model \cup setup_aarch64_setway_flushes
              \cup setup_aarch64_debug)
  BY FunctionsOthers, DebugOthers, OthersUnion
<1>8. Others(setup_aarch64_features \cup setup_aarch64_memory_model \cup setup_aarch64_setway_flushes
              \cup setup_aarch64_debug \cup setup_tvm \cup setup_aarch64_ras \cup setup_aarch64_pm
              \cup setup_aarch64_pms)
  BY <1>7, FunctionsOthers, TvmOthers, PmOthers, OthersUnion
<1> QED
  BY <1>3, <1>5, <1>6, <1>8, OthersUnion

(* The registers of a call are registers with an id, and no two calls set up one. *)
LEMMA CallsApart ==
  ASSUME NEW p, NEW c \in Call
  PROVE  /\ SetUpBy(c, p) \subseteq BusRegisters
         /\ \A o \in Call : o # c => SetUpBy(o, p) \cap SetUpBy(c, p) = {}
<1> DEFINE arch == setup_arch_msr(p)
           caching == setup_aarch64_caching_info
           timer == setup_aarch64_physical_timer
<1>1. /\ SetUpBy("setup_arch_msr", p) = arch
      /\ SetUpBy("setup_aarch64_caching_info", p) = caching
      /\ SetUpBy("setup_aarch64_physical_timer", p) = timer
  BY DEF SetUpBy
<1>2. Others(arch)
  BY ArchOthers
<1>3. \A d \in caching :
        d[1] \in CallNames /\ d[1] \in DOMAIN MemoryId \cup DOMAIN FeatureId /\ d = <<d[1], 0>>
  BY DEF setup_aarch64_caching_info, One, CallNames, MemoryId, FeatureId
<1>4. \A d \in timer : d[1] \in CallNames /\ d[1] \in DOMAIN MemoryId /\ d = <<d[1], 0>>
  BY DEF setup_aarch64_physical_timer, One, CallNames, MemoryId
<1>5. caching \cap timer = {}
  BY DEF setup_aarch64_caching_info, setup_aarch64_physical_timer, One
<1> HIDE DEF arch, caching, timer
<1>6. arch \subseteq BusRegisters /\ caching \subseteq BusRegisters /\ timer \subseteq BusRegisters
  BY <1>2, <1>3, <1>4, TableNames DEF Others, BusRegisters
<1>7. arch \cap caching = {} /\ arch \cap timer = {}
  BY <1>2, <1>3, <1>4 DEF Others
<1> QED
  BY <1>1, <1>5, <1>6, <1>7 DEF Call

(* So many registers, so many ids. *)
LEMMA AsManyIds ==
  ASSUME NEW S \in SUBSET BusRegisters
  PROVE  Cardinality({IdOf(d) : d \in S}) = Cardinality(S)
<1> DEFINE T == {IdOf(d) : d \in S}
           f == [d \in S |-> IdOf(d)]
<1>1. MaxId \in Nat
  BY SMT DEF MaxId
<1>2. f \in [S -> 0 .. MaxId]
  BY <1>1, IdBound
<1>3. \A d, e \in S : f[d] = f[e] => d = e
  BY IdInjective
<1>4. IsFiniteSet(0 .. MaxId)
  <2>1. 0 \in Int /\ MaxId \in Int
    BY <1>1
  <2> QED
    BY <2>1, FS_Interval, Zenon
<1>5. IsFiniteSet(S)
  <2>1. f \in Injection(S, 0 .. MaxId)
    BY <1>2, <1>3 DEF Injection, IsInjective
  <2> QED
    BY <1>4, <2>1, FS_Injection
<1>6. f \in Bijection(S, T)
  <2>1. f \in [S -> T]
    OBVIOUS
  <2>2. f \in Injection(S, T)
    BY <1>3, <2>1 DEF Injection, IsInjective
  <2>3. f \in Surjection(S, T)
    BY <2>1 DEF Surjection
  <2> QED
    BY <2>2, <2>3 DEF Bijection
<1>7. Cardinality(T) = Cardinality(S)
  BY <1>5, <1>6, FS_Bijection DEF ExistsBijection
<1> QED
  BY <1>7

BusInv == platform \in Platform /\ called \subseteq Call /\ ~aborted

LEMMA SetUpKeeps ==
  ASSUME BusInv, NEW c \in Call, SetUp(c)
  PROVE  BusInv'
<1>1. /\ platform \in Platform /\ called \subseteq Call /\ c \notin called
      /\ called' = called \cup {c} /\ platform' = platform
      /\ aborted' = \/ Cardinality(Ids[c][platform]) # Cardinality(SetUpBy(c, platform))
                    \/ \E other \in called : Ids[other][platform] \cap Ids[c][platform] # {}
  BY DEF BusInv, SetUp
<1>2. \A o \in Call : Ids[o][platform] = {IdOf(d) : d \in SetUpBy(o, platform)}
  BY <1>1, Zenon DEF Ids
<1>3. \A o \in Call : SetUpBy(o, platform) \subseteq BusRegisters
  BY CallsApart
<1>4. Cardinality(Ids[c][platform]) = Cardinality(SetUpBy(c, platform))
  BY <1>2, <1>3, AsManyIds
<1>5. ASSUME NEW other \in called, NEW id \in Ids[other][platform] \cap Ids[c][platform]
      PROVE  FALSE
  <2>1. other \in Call /\ other # c
    BY <1>1
  <2>2. PICK d \in SetUpBy(other, platform) : id = IdOf(d)
    BY <1>2, <2>1
  <2>3. PICK e \in SetUpBy(c, platform) : id = IdOf(e)
    BY <1>2
  <2>4. d = e
    BY <1>3, <2>1, <2>2, <2>3, IdInjective
  <2> QED
    BY <2>1, <2>2, <2>3, <2>4, CallsApart
<1>6. ~aborted'
  BY <1>1, <1>4, <1>5
<1> QED
  BY <1>1, <1>6 DEF BusInv

(* register_system_reg: on every platform the ids of the registers a VMM sets up are
   all different, in whatever order it makes its calls, so that it does not end
   with "ID is used by". *)
THEOREM NoIdIsTwice == RegistersSpec => []NoIdTwice
<1>1. RegistersInit => BusInv
  BY DEF RegistersInit, MsrInit, BusInv
<1>2. BusInv /\ [RegistersNext]_registersVars => BusInv'
  <2> SUFFICES ASSUME BusInv, [RegistersNext]_registersVars
               PROVE  BusInv'
    OBVIOUS
  <2>1. CASE MsrNext
    <3>1. CASE \E c \in Call : SetUp(c)
      BY <3>1, SetUpKeeps
    <3>2. CASE UNCHANGED busVars
      BY <3>2 DEF busVars, BusInv
    <3> QED
      BY <2>1, <3>1, <3>2 DEF MsrNext, SetWay, ControlTvm, Apply, TrappedWrite, DirectWrite, Store,
                              busVars
  <2>2. CASE UNCHANGED msrVars
    BY <2>2 DEF msrVars, busVars, BusInv
  <2> QED
    BY <2>1, <2>2 DEF RegistersNext, registersVars
<1>3. BusInv => NoIdTwice
  BY DEF BusInv, NoIdTwice
<1> QED
  BY <1>1, <1>2, <1>3, PTL DEF RegistersSpec

-----------------------------------------------------------------------------
(* The ITS: its command queue.  Commands are counted from creadr: those up to
   cwriter are fetched, and the guest has issued those up to tail. *)

EntryType == [pintid : Pintid, icid : Icid] \cup {NoEntry}

Dist(a, b) == IF a <= b THEN b - a ELSE b - a + Size

GitsTypeOK ==
  /\ enabled \in BOOLEAN /\ valid \in BOOLEAN /\ stalled \in BOOLEAN
  /\ fetching \in BOOLEAN /\ wild \in BOOLEAN
  /\ cwriter \in 0 .. Size /\ creadr \in Slot /\ tail \in Slot
  /\ iterations \in 0 .. Size /\ issued \in Nat /\ executed \in Nat
  /\ ring \in [Slot -> {c \in Command : Sane(c)}]

QueueInv ==
  /\ fetching => valid
  /\ valid => programmed = {"device", "collection"}
  /\ stalled => creadr = gap
  /\ ~wild =>
       /\ cwriter \in Slot
       /\ Dist(creadr, tail) = issued - executed
       /\ Dist(creadr, cwriter) <= Dist(creadr, tail)
       /\ fetching => Dist(creadr, cwriter) <= iterations

LEMMA DistMod ==
  ASSUME NEW a \in Slot, NEW b \in Slot
  PROVE  (b - a) % Size = Dist(a, b) /\ Dist(a, b) \in Slot /\ (Dist(a, b) = 0 <=> a = b)
BY GitsAssumption DEF Dist, Slot

LEMMA AdvanceMod ==
  ASSUME NEW a \in Slot
  PROVE  (a + 1) % Size = Advance(a) /\ Advance(a) \in Slot
BY GitsAssumption DEF Advance, Slot

LEMMA DistAdvance ==
  ASSUME NEW a \in Slot, NEW b \in Slot
  PROVE  /\ a # b => Dist(Advance(a), b) = Dist(a, b) - 1
         /\ Advance(b) # a => Dist(a, Advance(b)) = Dist(a, b) + 1
BY GitsAssumption DEF Dist, Advance, Slot

LEMMA GitsTypeKeeps ==
  ASSUME GitsTypeOK, GitsNext
  PROVE  GitsTypeOK'
<1> USE DEF GitsTypeOK, regVars, guestVars, msiVars
<1>1. ASSUME NEW c \in Command, Issue(c)
      PROVE  GitsTypeOK'
  <2>1. tail' \in Slot
    BY <1>1, AdvanceMod DEF Issue
  <2>2. ring' \in [Slot -> {o \in Command : Sane(o)}]
    BY <1>1 DEF Issue
  <2> QED
    BY <1>1, <2>1, <2>2 DEF Issue
<1>2. CASE WriteCtlr
  BY <1>2 DEF WriteCtlr
<1>3. ASSUME NEW table, WriteBaser(table)
      PROVE  GitsTypeOK'
  BY <1>3 DEF WriteBaser
<1>4. CASE WriteCbaser
  BY <1>4 DEF WriteCbaser
<1>5. ASSUME NEW offset \in 0 .. Size, WriteCwriter(offset)
      PROVE  GitsTypeOK'
  <2>1. cwriter' \in 0 .. Size /\ fetching' \in BOOLEAN /\ iterations' \in 0 .. Size
    BY <1>5, GitsAssumption DEF WriteCwriter, MaxIterations
  <2>2. wild' \in BOOLEAN
    BY <1>5 DEF WriteCwriter
  <2> QED
    BY <1>5, <2>1, <2>2 DEF WriteCwriter
<1>6. CASE Fetch
  <2>1. iterations' \in 0 .. Size
    BY <1>6, GitsAssumption DEF Fetch, More
  <2>2. creadr' \in Slot /\ executed' \in Nat /\ stalled' \in BOOLEAN /\ fetching' \in BOOLEAN
    <3>1. Advance(creadr) \in Slot /\ executed + 1 \in Nat
      BY AdvanceMod
    <3>2. CASE creadr = gap
      BY <1>6, <3>2 DEF Fetch
    <3>3. CASE creadr # gap
      <4>1. creadr' = Advance(creadr) /\ UNCHANGED <<stalled, fetching>>
            /\ executed' = IF wild THEN executed ELSE executed + 1
        BY <1>6, <3>3 DEF Fetch
      <4> QED
        BY <3>1, <4>1
    <3> QED
      BY <3>2, <3>3
  <2>3. UNCHANGED <<enabled, valid, cwriter, tail, ring, issued, wild>>
    BY <1>6 DEF Fetch
  <2> QED
    BY <2>1, <2>2, <2>3
<1>7. CASE FetchEnd
  <2>1. UNCHANGED <<enabled, valid, stalled, cwriter, creadr, tail, ring, issued, executed, wild>>
        /\ fetching' \in BOOLEAN /\ iterations' = 0
    BY <1>7 DEF FetchEnd
  <2>2. 0 \in 0 .. Size
    BY GitsAssumption
  <2> QED
    BY <2>1, <2>2
<1>8. CASE Reset
  <2>1. UNCHANGED <<fetching, iterations, ring, issued>> /\ cwriter' = 0 /\ creadr' = 0 /\ tail' = 0
        /\ executed' = issued
    BY <1>8 DEF Reset
  <2>2. enabled' \in BOOLEAN /\ valid' \in BOOLEAN /\ stalled' \in BOOLEAN /\ wild' \in BOOLEAN
    BY <1>8 DEF Reset
  <2>3. 0 \in 0 .. Size /\ 0 \in Slot
    BY GitsAssumption DEF Slot
  <2> QED
    BY <2>1, <2>2, <2>3
<1>9. ASSUME NEW d \in Dev, NEW e \in Event,
             ReadDeviceTable(d, e) \/ ReadTranslationTable(d) \/ ReadCollectionTable(d)
      PROVE  GitsTypeOK'
  BY <1>9 DEF ReadDeviceTable, ReadTranslationTable, ReadCollectionTable
<1>10. tail \in 0 .. Size /\ Size \in 0 .. Size
  BY GitsAssumption DEF Slot
<1>11. ASSUME NEW d \in Dev, ReadTranslationTable(d) \/ ReadCollectionTable(d)
       PROVE  GitsTypeOK'
  BY <1>11 DEF ReadTranslationTable, ReadCollectionTable
<1> QED
  BY <1>1, <1>2, <1>3, <1>4, <1>5, <1>6, <1>7, <1>8, <1>9, <1>10, <1>11 DEF GitsNext

LEMMA QueueKeeps ==
  ASSUME GitsTypeOK, QueueInv, GitsNext
  PROVE  QueueInv'
<1> USE DEF GitsTypeOK, QueueInv, regVars, guestVars, msiVars
<1>1. ASSUME NEW c \in Command, Issue(c)
      PROVE  QueueInv'
  <2>1. tail' = Advance(tail) /\ Advance(tail) # creadr
    BY <1>1, AdvanceMod DEF Issue
  <2>2. Dist(creadr, tail') = Dist(creadr, tail) + 1
    BY <2>1, DistAdvance
  <2>3. Dist(creadr, tail) \in Nat /\ (cwriter \in Slot => Dist(creadr, cwriter) \in Nat)
    BY DistMod DEF Slot
  <2>4. UNCHANGED <<fetching, valid, programmed, stalled, creadr, gap, cwriter, iterations,
                    executed, wild>>
    BY <1>1 DEF Issue
  <2>5. ~wild /\ issued' = issued + 1
    BY <1>1 DEF Issue
  <2>6. Dist(creadr, cwriter)' = Dist(creadr, cwriter)
    BY <2>4 DEF Dist
  <2>7. Dist(creadr, tail)' = issued' - executed' /\ Dist(creadr, cwriter)' <= Dist(creadr, tail)'
    BY <2>2, <2>3, <2>4, <2>5, <2>6 DEF Dist
  <2> QED
    BY <2>4, <2>5, <2>6, <2>7
<1>2. CASE WriteCtlr
  BY <1>2 DEF WriteCtlr, Dist
<1>3. ASSUME NEW table \in {"device", "collection"}, WriteBaser(table)
      PROVE  QueueInv'
  <2>1. ~valid
    BY <1>3 DEF WriteBaser
  <2> QED
    BY <1>3, <2>1 DEF WriteBaser, Dist, Idle
<1>4. CASE WriteCbaser
  BY <1>4 DEF WriteCbaser, Dist
<1>5. ASSUME NEW offset \in {tail, Size}, WriteCwriter(offset)
      PROVE  QueueInv'
  <2>1. UNCHANGED <<valid, programmed, stalled, creadr, gap, tail, issued, executed>>
        /\ cwriter' = offset /\ (fetching' => valid /\ iterations' = Size)
        /\ (wild' <=> wild \/ offset \notin Slot)
    BY <1>5 DEF WriteCwriter, MaxIterations
  <2>2. ~wild' => ~wild /\ cwriter' = tail /\ cwriter' \in Slot
    BY <2>1, GitsAssumption DEF Slot
  <2>3. Dist(creadr, tail) \in Slot
    BY DistMod
  <2>4. ~wild' => Dist(creadr', cwriter') = Dist(creadr, tail)
    BY <2>1, <2>2
  <2>5. Dist(creadr', tail') = Dist(creadr, tail)
    BY <2>1
  <2> QED
    BY <2>1, <2>2, <2>3, <2>4, <2>5, GitsAssumption DEF Slot
<1>6. CASE Fetch
  <2>1. UNCHANGED <<valid, programmed, cwriter, tail, gap, issued, wild>>
        /\ iterations' = iterations - 1 /\ fetching /\ iterations # 0
        /\ (cwriter # creadr \/ stalled)
    BY <1>6 DEF Fetch, More
  <2>2. CASE creadr = gap
    <3>1. stalled' = TRUE /\ fetching' = FALSE /\ UNCHANGED <<creadr, executed>>
      BY <1>6, <2>2 DEF Fetch
    <3> QED
      BY <2>1, <2>2, <3>1 DEF Dist
  <2>3. CASE creadr # gap
    <3>1. ~stalled /\ cwriter # creadr
      BY <2>1, <2>3
    <3>2. creadr' = Advance(creadr) /\ UNCHANGED <<stalled, fetching>>
          /\ executed' = IF wild THEN executed ELSE executed + 1
      BY <1>6, <2>3 DEF Fetch
    <3>3. ASSUME ~wild
          PROVE  /\ cwriter' \in Slot
                 /\ Dist(creadr', tail') = issued' - executed'
                 /\ Dist(creadr', cwriter') <= Dist(creadr', tail')
                 /\ Dist(creadr', cwriter') <= iterations'
      <4>1. Dist(creadr, cwriter) \in Slot /\ Dist(creadr, cwriter) # 0 /\ cwriter \in Slot
            /\ Dist(creadr, tail) \in Slot
        BY <3>1, <3>3, DistMod
      <4>2. tail # creadr
        BY <3>3, <4>1, DistMod DEF Slot
      <4>3. Dist(creadr', cwriter') = Dist(creadr, cwriter) - 1
            /\ Dist(creadr', tail') = Dist(creadr, tail) - 1
        BY <2>1, <3>1, <3>2, <3>3, <4>2, DistAdvance
      <4> QED
        BY <2>1, <3>2, <3>3, <4>1, <4>3 DEF Slot
    <3>4. Dist(creadr, tail)' = Dist(creadr', tail')
          /\ Dist(creadr, cwriter)' = Dist(creadr', cwriter')
      BY DEF Dist
    <3> QED
      BY <2>1, <3>1, <3>2, <3>3, <3>4
  <2> QED
    BY <2>2, <2>3
<1>7. CASE FetchEnd
  BY <1>7 DEF FetchEnd, Dist
<1>8. CASE Reset
  BY <1>8, GitsAssumption DEF Reset, Dist, Idle, Slot
<1>9. ASSUME UNCHANGED <<regVars, fetching, iterations, guestVars, executed>>
      PROVE  QueueInv'
  BY <1>9 DEF Dist
<1>10. ASSUME NEW d \in Dev, \/ \E e \in Event : ReadDeviceTable(d, e)
                             \/ ReadTranslationTable(d) \/ ReadCollectionTable(d)
       PROVE  QueueInv'
  BY <1>9, <1>10 DEF ReadDeviceTable, ReadTranslationTable, ReadCollectionTable
<1> QED
  BY <1>1, <1>2, <1>3, <1>4, <1>5, <1>6, <1>7, <1>8, <1>10 DEF GitsNext

(* fetch_commands ends at cwriter unless it stalls. *)
Fetched == fetching /\ ~fetching' /\ ~stalled' /\ ~wild => creadr = cwriter

LEMMA FetchesAll ==
  ASSUME GitsTypeOK, QueueInv, GitsNext
  PROVE  Fetched
<1> SUFFICES ASSUME fetching, ~fetching', ~stalled', ~wild
             PROVE  creadr = cwriter
  BY DEF Fetched
<1>1. CASE FetchEnd
  <2>1. CASE iterations = 0
    <3>1. Dist(creadr, cwriter) \in Slot /\ Dist(creadr, cwriter) <= iterations
      BY DistMod DEF QueueInv, GitsTypeOK
    <3>2. Dist(creadr, cwriter) = 0
      BY <2>1, <3>1 DEF Slot
    <3> QED
      BY <3>2, DistMod DEF QueueInv, GitsTypeOK
  <2>2. CASE iterations # 0
    BY <1>1, <2>2 DEF FetchEnd, More
  <2> QED
    BY <2>1, <2>2
<1>2. CASE Fetch
  BY <1>2 DEF Fetch
<1> QED
  BY <1>1, <1>2 DEF GitsNext, Issue, WriteCtlr, WriteBaser, WriteCbaser, WriteCwriter, Reset, Idle,
       ReadDeviceTable, ReadTranslationTable, ReadCollectionTable, regVars

LEMMA QueueInitial == GitsInit => GitsTypeOK /\ QueueInv
<1> SUFFICES ASSUME GitsInit PROVE GitsTypeOK /\ QueueInv
  OBVIOUS
<1>1. [op |-> "SYNC"] \in {c \in Command : Sane(c)}
  BY DEF Command, Sane
<1>2. GitsTypeOK
  <2>1. ring \in [Slot -> {c \in Command : Sane(c)}]
    BY <1>1 DEF GitsInit
  <2>2. 0 \in 0 .. Size /\ 0 \in Slot
    BY GitsAssumption DEF Slot
  <2>3. enabled \in BOOLEAN /\ valid \in BOOLEAN /\ stalled \in BOOLEAN
        /\ fetching \in BOOLEAN /\ wild \in BOOLEAN
    BY DEF GitsInit
  <2> QED
    BY <2>1, <2>2, <2>3 DEF GitsInit, GitsTypeOK
<1> QED
  BY <1>2, GitsAssumption DEF GitsInit, QueueInv, Dist, Slot

(* fetch_commands executes each command of the ring once and in turn, and
   leaves none behind that was kicked, unless it stalls. *)
THEOREM CommandsFetched == RegistersSpec => CommandsInOrder
<1>1. RegistersInit => GitsTypeOK /\ QueueInv
  BY QueueInitial DEF RegistersInit
<1>2. GitsTypeOK /\ QueueInv /\ [RegistersNext]_registersVars
        => GitsTypeOK' /\ QueueInv' /\ [Fetched]_gitsVars
  <2> SUFFICES ASSUME GitsTypeOK, QueueInv, [RegistersNext]_registersVars
               PROVE  GitsTypeOK' /\ QueueInv' /\ [Fetched]_gitsVars
    OBVIOUS
  <2>1. CASE GitsNext
    BY <2>1, GitsTypeKeeps, QueueKeeps, FetchesAll
  <2>2. CASE UNCHANGED gitsVars
    BY <2>2 DEF gitsVars, regVars, guestVars, GitsTypeOK, QueueInv, Dist
  <2> QED
    BY <2>1, <2>2 DEF RegistersNext, registersVars
<1>3. GitsTypeOK /\ QueueInv =>
        (~wild => /\ (tail - creadr) % Size = issued - executed
                  /\ stalled => creadr = gap)
  BY DistMod DEF GitsTypeOK, QueueInv
<1> QED
  BY <1>1, <1>2, <1>3, PTL DEF RegistersSpec, CommandsInOrder, Fetched
-----------------------------------------------------------------------------
(* The ITS: its tables hold what the commands asked for, but for interrupts that
   stay in a collection with the same target. *)

PromiseType ==
  [itt : [Dev -> Itt \cup {NoItt}], entry : [Itt -> [Event -> EntryType]], lawful : BOOLEAN]

TableTypeOK ==
  /\ device_table \in [Dev -> Itt \cup {NoItt}]
  /\ translation_table \in [Itt -> [Event -> EntryType]]
  /\ collection_table \in [Icid -> Vcpu \cup {NoVcpu}]
  /\ promise \in PromiseType

Agree(t, p, lawful) ==
  /\ t = NoEntry <=> p = NoEntry
  /\ p # NoEntry => t.pintid = p.pintid
  /\ p # NoEntry /\ lawful => InitTarget[t.icid] = InitTarget[p.icid]

TableInv ==
  /\ device_table = promise.itt
  /\ \A d \in Dev : promise.itt[d] \in OwnItt(d) \cup {NoItt}
  /\ \A c \in Icid : collection_table[c] \in {InitTarget[c], NoVcpu}
  /\ \A k \in Itt \ UnbackedItt : \A e \in Event :
       Agree(translation_table[k][e], promise.entry[k][e], promise.lawful)

LEMMA EntryIsNone ==
  ASSUME NEW t \in EntryType, t # NoEntry
  PROVE  t \in [pintid : Pintid, icid : Icid] /\ t.pintid \in Pintid /\ t.icid \in Icid
BY DEF EntryType

LEMMA EntryIsSome ==
  ASSUME NEW p \in Pintid, NEW i \in Icid
  PROVE  Entry(p, i) \in EntryType /\ Entry(p, i) # NoEntry
         /\ Entry(p, i).pintid = p /\ Entry(p, i).icid = i
<1>1. Entry(p, i).pintid # NoEntry.pintid
  BY GitsAssumption DEF Entry, NoEntry
<1> QED
  BY <1>1 DEF Entry, EntryType

LEMMA MapdKeeps ==
  ASSUME TableTypeOK, TableInv, programmed = {"device", "collection"},
         NEW c \in Command, Sane(c), handle_command(c), promise' = Keep(c, promise),
         c.op = "MAPD"
  PROVE  TableTypeOK' /\ TableInv'
<1>1. c.dev \in Dev /\ c.itt \in OwnItt(c.dev) \cup {NoItt} /\ c.itt \in Itt \cup {NoItt}
  BY DEF Command, Sane, OwnItt
<1>2. device_table' = [device_table EXCEPT ![c.dev] = c.itt]
      /\ UNCHANGED <<translation_table, collection_table>>
  BY DEF handle_command, handle_mapd, WriteDevice
<1>3. promise' = [promise EXCEPT !.itt[c.dev] = c.itt]
  BY DEF Keep
<1>4. promise'.itt = [promise.itt EXCEPT ![c.dev] = c.itt] /\ promise'.entry = promise.entry
      /\ promise'.lawful = promise.lawful
      /\ promise' = [itt |-> promise'.itt, entry |-> promise'.entry, lawful |-> promise'.lawful]
  BY <1>3 DEF TableTypeOK, PromiseType
<1>5. TableTypeOK'
  <2>1. promise'.itt \in [Dev -> Itt \cup {NoItt}]
    BY <1>1, <1>4 DEF TableTypeOK, PromiseType
  <2>2. device_table' \in [Dev -> Itt \cup {NoItt}]
    BY <1>1, <1>2 DEF TableTypeOK, PromiseType
  <2> QED
    BY <1>2, <1>4, <2>1, <2>2 DEF TableTypeOK, PromiseType
<1>6. \A d \in Dev : promise'.itt[d] \in OwnItt(d) \cup {NoItt}
  BY <1>1, <1>4 DEF TableTypeOK, PromiseType, TableInv
<1> QED
  BY <1>2, <1>4, <1>5, <1>6 DEF TableInv, Agree

LEMMA MapcKeeps ==
  ASSUME TableTypeOK, TableInv, programmed = {"device", "collection"},
         NEW c \in Command, Sane(c), handle_command(c), promise' = Keep(c, promise),
         c.op = "MAPC"
  PROVE  TableTypeOK' /\ TableInv'
<1>1. c.icid \in Icid /\ c.vcpu \in {InitTarget[c.icid], NoVcpu} /\ c.vcpu \in Vcpu \cup {NoVcpu}
  BY DEF Command, Sane
<1>2. collection_table' = [collection_table EXCEPT ![c.icid] = c.vcpu]
      /\ UNCHANGED <<device_table, translation_table, promise>>
  BY DEF handle_command, handle_mapc, WriteCollection, Keep
<1>3. TableTypeOK'
  BY <1>1, <1>2 DEF TableTypeOK, PromiseType
<1>4. \A i \in Icid : collection_table'[i] \in {InitTarget[i], NoVcpu}
  BY <1>1, <1>2 DEF TableTypeOK, PromiseType, TableInv
<1> QED
  BY <1>2, <1>3, <1>4 DEF TableInv, Agree

(* An entry that is written for an event, in the tables and in the promise. *)
LEMMA WriteKeeps ==
  ASSUME TableTypeOK, TableInv, NEW k \in Itt, NEW e \in Event,
         NEW t \in EntryType, NEW p \in EntryType,
         UNCHANGED <<device_table, collection_table>>,
         translation_table' = IF k \in UnbackedItt THEN translation_table
                              ELSE [translation_table EXCEPT ![k][e] = t],
         promise'.itt = promise.itt,
         promise'.lawful \in BOOLEAN, promise'.lawful => promise.lawful,
         promise'.entry = [promise.entry EXCEPT ![k][e] = p],
         promise' = [itt |-> promise'.itt, entry |-> promise'.entry, lawful |-> promise'.lawful],
         k \notin UnbackedItt => Agree(t, p, promise'.lawful)
  PROVE  TableTypeOK' /\ TableInv'
<1>1. promise'.entry \in [Itt -> [Event -> EntryType]]
  BY DEF TableTypeOK, PromiseType
<1>2. translation_table' \in [Itt -> [Event -> EntryType]]
  BY DEF TableTypeOK, PromiseType
<1>3. promise.itt \in [Dev -> Itt \cup {NoItt}]
  BY DEF TableTypeOK, PromiseType
<1>4. TableTypeOK'
  BY <1>1, <1>2, <1>3 DEF TableTypeOK, PromiseType
<1>5. ASSUME NEW j \in Itt \ UnbackedItt, NEW v \in Event
      PROVE  Agree(translation_table[j][v], promise.entry[j][v], promise.lawful)'
  <2>1. CASE j = k /\ v = e
    <3>1. translation_table'[j][v] = t /\ promise'.entry[j][v] = p
      BY <2>1 DEF TableTypeOK, PromiseType
    <3> QED
      BY <2>1, <3>1 DEF Agree
  <2>2. CASE ~(j = k /\ v = e)
    <3>1. translation_table'[j][v] = translation_table[j][v]
          /\ promise'.entry[j][v] = promise.entry[j][v]
      BY <2>2 DEF TableTypeOK, PromiseType
    <3>2. Agree(translation_table[j][v], promise.entry[j][v], promise.lawful)
      BY DEF TableInv
    <3> QED
      BY <3>1, <3>2 DEF Agree
  <2> QED
    BY <2>1, <2>2
<1>6. \A j \in Itt \ UnbackedItt : \A v \in Event :
        Agree(translation_table[j][v], promise.entry[j][v], promise.lawful)'
  BY <1>5
<1> QED
  BY <1>4, <1>6 DEF TableInv, Agree

LEMMA MaptiKeeps ==
  ASSUME TableTypeOK, TableInv, programmed = {"device", "collection"},
         NEW c \in Command, Sane(c), handle_command(c), promise' = Keep(c, promise),
         c.op = "MAPTI"
  PROVE  TableTypeOK' /\ TableInv'
<1> DEFINE k == promise.itt[c.dev]
           new == Entry(c.pintid, c.icid)
<1>1. c.dev \in Dev /\ c.event \in Event /\ c.pintid \in Pintid /\ c.icid \in Icid
  BY DEF Command
<1>2. k \in Itt \cup {NoItt} /\ ReadDevice(c.dev) = k
  BY <1>1 DEF TableTypeOK, PromiseType, TableInv, ReadDevice
<1>3. UNCHANGED <<device_table, collection_table>>
  BY DEF handle_command, handle_mapti
<1>4. CASE k = NoItt
  <2>1. UNCHANGED <<translation_table, promise>>
    BY <1>2, <1>4 DEF handle_command, handle_mapti, Keep
  <2> QED
    BY <1>3, <2>1 DEF TableTypeOK, PromiseType, TableInv, Agree
<1>5. CASE k # NoItt
  <2>1. translation_table' = IF k \in UnbackedItt THEN translation_table
                             ELSE [translation_table EXCEPT ![k][c.event] = new]
    BY <1>2, <1>5 DEF handle_command, handle_mapti, WriteEntry
  <2>2. promise' = [promise EXCEPT !.entry[k][c.event] = new]
    BY <1>5 DEF Keep
  <2>3. promise'.itt = promise.itt /\ promise'.lawful = promise.lawful
        /\ promise'.entry = [promise.entry EXCEPT ![k][c.event] = new]
        /\ promise' = [itt |-> promise'.itt, entry |-> promise'.entry, lawful |-> promise'.lawful]
    BY <2>2 DEF TableTypeOK, PromiseType
  <2>4. new \in EntryType /\ k \in Itt /\ promise.lawful \in BOOLEAN
    BY <1>1, <1>2, <1>5, EntryIsSome DEF TableTypeOK, PromiseType
  <2>5. Agree(new, new, promise'.lawful)
    BY DEF Agree
  <2> HIDE DEF k, new
  <2> QED
    BY <1>1, <1>3, <2>1, <2>3, <2>4, <2>5, WriteKeeps
<1> QED
  BY <1>4, <1>5

LEMMA MoviKeeps ==
  ASSUME TableTypeOK, TableInv, programmed = {"device", "collection"},
         NEW c \in Command, Sane(c), handle_command(c), promise' = Keep(c, promise),
         c.op = "MOVI"
  PROVE  TableTypeOK' /\ TableInv'
<1> DEFINE k == promise.itt[c.dev]
           p == promise.entry[k][c.event]
           t == translation_table[k][c.event]
           moves == collection_table[t.icid] # collection_table[c.icid]
           lawful == promise.lawful /\ collection_table[c.icid] # NoVcpu
<1>1. c.dev \in Dev /\ c.event \in Event /\ c.icid \in Icid
  BY DEF Command
<1>2. k \in Itt \cup {NoItt} /\ ReadDevice(c.dev) = k
  BY <1>1 DEF TableTypeOK, PromiseType, TableInv, ReadDevice
<1>3. UNCHANGED <<device_table, collection_table>>
  BY DEF handle_command, handle_movi
<1>4. CASE k \notin Itt \ UnbackedItt \/ p = NoEntry
  <2>1. Promised(promise, c.dev, c.event) = NoEntry
    BY <1>4 DEF Promised
  <2>2. k = NoItt \/ ReadEntry(k, c.event) = NoEntry
    BY <1>1, <1>2, <1>4 DEF ReadEntry, TableInv, Agree
  <2>3. UNCHANGED <<translation_table, promise>>
    BY <1>2, <2>1, <2>2 DEF handle_command, handle_movi, Keep
  <2> QED
    BY <1>3, <2>3 DEF TableTypeOK, PromiseType, TableInv, Agree
<1>5. CASE k \in Itt \ UnbackedItt /\ p # NoEntry
  <2>1. k # NoItt /\ Promised(promise, c.dev, c.event) = p /\ ReadEntry(k, c.event) = t
    BY <1>5, GitsAssumption DEF Promised, ReadEntry
  <2>2. p \in EntryType /\ t \in EntryType
    BY <1>1, <1>5 DEF TableTypeOK, PromiseType
  <2>3. t # NoEntry /\ t.pintid = p.pintid
        /\ (promise.lawful => InitTarget[t.icid] = InitTarget[p.icid])
    BY <1>1, <1>5 DEF TableInv, Agree
  <2>4. p.pintid \in Pintid /\ t.icid \in Icid /\ p \in [pintid : Pintid, icid : Icid]
    BY <1>5, <2>2, <2>3, EntryIsNone
  <2>5. promise' = [promise EXCEPT !.entry[k][c.event].icid = c.icid,
                                   !.lawful = @ /\ collection_table[c.icid] # NoVcpu]
    BY <1>5, <2>1 DEF Keep
  <2>6. [p EXCEPT !.icid = c.icid] = Entry(p.pintid, c.icid)
    <3>1. p = [pintid |-> p.pintid, icid |-> p.icid]
      BY <2>4, Zenon
    <3>2. \A a, b : [[pintid |-> a, icid |-> b] EXCEPT !.icid = c.icid] = [pintid |-> a, icid |-> c.icid]
      OBVIOUS
    <3> QED
      BY <3>1, <3>2, Zenon DEF Entry
  <2>7. promise'.itt = promise.itt /\ promise'.lawful = lawful
        /\ promise'.entry = [promise.entry EXCEPT ![k][c.event] = Entry(p.pintid, c.icid)]
        /\ promise' = [itt |-> promise'.itt, entry |-> promise'.entry, lawful |-> promise'.lawful]
    BY <1>1, <1>5, <2>5, <2>6 DEF TableTypeOK, PromiseType
  <2>8. ReadCollection(t.icid) = collection_table[t.icid]
        /\ ReadCollection(c.icid) = collection_table[c.icid]
    BY DEF ReadCollection
  <2>9. Entry(p.pintid, c.icid) \in EntryType /\ Entry(p.pintid, c.icid) # NoEntry
        /\ Entry(p.pintid, c.icid).pintid = p.pintid /\ Entry(p.pintid, c.icid).icid = c.icid
    BY <1>1, <2>4, EntryIsSome
  <2>10. CASE moves
    <3>1. translation_table' = [translation_table EXCEPT ![k][c.event] = Entry(t.pintid, c.icid)]
      BY <1>2, <1>5, <2>1, <2>3, <2>8, <2>10
         DEF handle_command, handle_movi, WriteEntry
    <3>2. translation_table' = [translation_table EXCEPT ![k][c.event] = Entry(p.pintid, c.icid)]
      BY <2>3, <3>1
    <3>3. Agree(Entry(p.pintid, c.icid), Entry(p.pintid, c.icid), promise'.lawful)
      BY DEF Agree
    <3>4. promise'.lawful \in BOOLEAN /\ (promise'.lawful => promise.lawful)
      BY <2>7 DEF TableTypeOK, PromiseType
    <3> HIDE DEF k, p, t, moves, lawful
    <3> QED
      BY <1>1, <1>3, <1>5, <2>7, <2>9, <3>2, <3>3, <3>4, WriteKeeps
  <2>11. CASE ~moves
    <3>1. UNCHANGED translation_table
      BY <1>2, <2>1, <2>3, <2>8, <2>11 DEF handle_command, handle_movi
    <3>2. translation_table' = [translation_table EXCEPT ![k][c.event] = t]
      BY <1>1, <1>5, <3>1 DEF TableTypeOK, PromiseType
    <3>3. lawful => InitTarget[t.icid] = InitTarget[c.icid]
      BY <1>1, <2>4, <2>11 DEF TableInv
    <3>4. t.pintid = Entry(p.pintid, c.icid).pintid
      BY <2>3, <2>9
    <3> DEFINE new == Entry(p.pintid, c.icid)
    <3>5. promise'.lawful \in BOOLEAN /\ (promise'.lawful => promise.lawful)
      BY <2>7 DEF TableTypeOK, PromiseType
    <3>6. Agree(t, new, promise'.lawful)
      BY <2>3, <2>7, <2>9, <3>3, <3>4 DEF Agree
    <3>7. translation_table' = IF k \in UnbackedItt THEN translation_table
                               ELSE [translation_table EXCEPT ![k][c.event] = t]
      BY <1>5, <3>2
    <3>8. new \in EntryType /\ promise'.entry = [promise.entry EXCEPT ![k][c.event] = new]
      BY <2>7, <2>9
    <3> HIDE DEF k, p, t, moves, lawful, new
    <3> QED
      BY <1>1, <1>3, <1>5, <2>2, <2>7, <3>5, <3>6, <3>7, <3>8, WriteKeeps
  <2> QED
    BY <2>10, <2>11
<1> QED
  BY <1>1, <1>2, <1>4, <1>5

LEMMA CommandKeepsTables ==
  ASSUME TableTypeOK, TableInv, programmed = {"device", "collection"},
         NEW c \in Command, Sane(c), handle_command(c), promise' = Keep(c, promise)
  PROVE  TableTypeOK' /\ TableInv'
<1>1. CASE c.op = "SYNC"
  BY <1>1 DEF handle_command, tableVars, Keep, TableTypeOK, PromiseType, TableInv, Agree
<1>2. c.op \in {"MAPD", "MAPC", "MAPTI", "MOVI", "SYNC"}
  BY DEF Command
<1> QED
  BY <1>1, <1>2, MapdKeeps, MapcKeeps, MaptiKeeps, MoviKeeps

-----------------------------------------------------------------------------
(* The ITS: a call of handle_msi.  The entry it reads next is among those it may
   raise, and is there if it has to raise one. *)

MsiRecord ==
  [pc : {"idle", "itt", "collection"}, event : Event \cup {0}, itt : Itt \cup {NoItt},
   entry : EntryType, may : SUBSET (Pintid \X Vcpu), sure : BOOLEAN]

MsiTypeOK == msi \in [Dev -> MsiRecord]

Raised(t) == <<t.pintid, InitTarget[t.icid]>>

AtItt(d) ==
  LET k == msi[d].itt
      e == msi[d].event
  IN  /\ k \in OwnItt(d) /\ e \in Event
      /\ promise.lawful /\ k \notin UnbackedItt /\ translation_table[k][e] # NoEntry =>
           Raised(translation_table[k][e]) \in msi[d].may
      /\ msi[d].sure =>
           k = promise.itt[d] /\ k \notin UnbackedItt /\ translation_table[k][e] # NoEntry

AtCollection(d) ==
  /\ msi[d].event \in Event /\ msi[d].entry # NoEntry
  /\ promise.lawful => Raised(msi[d].entry) \in msi[d].may

InFlight(d) ==
  /\ msi[d].pc = "itt" => AtItt(d)
  /\ msi[d].pc = "collection" => AtCollection(d)
  /\ msi[d].pc # "idle" /\ msi[d].sure =>
       /\ programmed = {"device", "collection"}
       /\ \A c \in Icid : collection_table[c] # NoVcpu

MsiInv == MsiTypeOK /\ \A d \in Dev : InFlight(d)

(* An entry that agrees with what is promised raises it, and is there when an
   entry is promised. *)
LEMMA AgreeRaises ==
  ASSUME NEW pr, NEW t, NEW d \in Dev, NEW e \in Event,
         pr.itt[d] \in Itt \ UnbackedItt, Agree(t, pr.entry[pr.itt[d]][e], pr.lawful)
  PROVE  /\ t = NoEntry <=> Promised(pr, d, e) = NoEntry
         /\ t # NoEntry /\ pr.lawful => Raised(t) \in Outcomes(pr, d, e)
<1> DEFINE p == pr.entry[pr.itt[d]][e]
<1>1. Promised(pr, d, e) = p
  BY DEF Promised
<1>2. ASSUME t # NoEntry, pr.lawful
      PROVE  Raised(t) \in Outcomes(pr, d, e)
  <2>1. p # NoEntry /\ t.pintid = p.pintid /\ InitTarget[t.icid] = InitTarget[p.icid]
    BY <1>2 DEF Agree
  <2> HIDE DEF p
  <2> QED
    BY <1>1, <2>1 DEF Outcomes, Raised
<1> QED
  BY <1>1, <1>2 DEF Agree

LEMMA OutcomesType ==
  ASSUME NEW pr \in PromiseType, NEW d \in Dev, NEW e \in Event
  PROVE  Outcomes(pr, d, e) \in SUBSET (Pintid \X Vcpu)
<1> DEFINE p == Promised(pr, d, e)
<1>1. p \in EntryType
  BY DEF PromiseType, Promised, EntryType
<1>2. ASSUME p # NoEntry
      PROVE  p.pintid \in Pintid /\ InitTarget[p.icid] \in Vcpu
  BY <1>1, <1>2, EntryIsNone, GitsAssumption
<1> HIDE DEF p
<1>3. Outcomes(pr, d, e) = IF p = NoEntry THEN {} ELSE {<<p.pintid, InitTarget[p.icid]>>}
  BY DEF Outcomes, p
<1> QED
  BY <1>2, <1>3

(* A command changes entries of the ITT that is its device's, and no other. *)
LEMMA OtherIttsKeep ==
  ASSUME TableTypeOK, TableInv, programmed = {"device", "collection"},
         NEW c \in Command, Sane(c), handle_command(c), promise' = Keep(c, promise),
         NEW d \in Dev, NEW k \in OwnItt(d), k # promise'.itt[d]
  PROVE  translation_table'[k] = translation_table[k]
<1>1. c.op \in {"MAPD", "MAPC", "MAPTI", "MOVI", "SYNC"}
  BY DEF Command
<1>2. CASE c.op \in {"MAPD", "MAPC", "SYNC"}
  BY <1>2 DEF handle_command, handle_mapd, handle_mapc, tableVars
<1>3. CASE c.op \in {"MAPTI", "MOVI"}
  <2>1. c.dev \in Dev /\ c.event \in Event
    BY <1>3 DEF Command
  <2>2. promise'.itt = promise.itt
    <3>1. TableTypeOK => [promise EXCEPT !.entry[promise.itt[c.dev]][c.event]
                            = Entry(c.pintid, c.icid)].itt = promise.itt
      BY DEF TableTypeOK, PromiseType
    <3>2. [promise EXCEPT !.entry[promise.itt[c.dev]][c.event].icid = c.icid,
                          !.lawful = @ /\ collection_table[c.icid] # NoVcpu].itt = promise.itt
      BY DEF TableTypeOK, PromiseType
    <3>3. CASE c.op = "MAPTI"
      <4>1. CASE promise.itt[c.dev] = NoItt
        BY <3>3, <4>1 DEF Keep
      <4>2. CASE promise.itt[c.dev] # NoItt
        <5>1. promise' = [promise EXCEPT !.entry[promise.itt[c.dev]][c.event]
                                           = Entry(c.pintid, c.icid)]
          BY <3>3, <4>2 DEF Keep
        <5> QED
          BY <3>1, <5>1
      <4> QED
        BY <4>1, <4>2
    <3>4. CASE c.op = "MOVI"
      <4>1. CASE Promised(promise, c.dev, c.event) = NoEntry
        BY <3>4, <4>1 DEF Keep
      <4>2. CASE Promised(promise, c.dev, c.event) # NoEntry
        <5>1. promise' = [promise EXCEPT !.entry[promise.itt[c.dev]][c.event].icid = c.icid,
                                         !.lawful = @ /\ collection_table[c.icid] # NoVcpu]
          BY <3>4, <4>2 DEF Keep
        <5> QED
          BY <3>2, <5>1
      <4> QED
        BY <4>1, <4>2
    <3> QED
      BY <1>3, <3>3, <3>4
  <2>3. ReadDevice(c.dev) = promise.itt[c.dev]
    BY DEF ReadDevice, TableInv
  <2>4. ReadDevice(c.dev) # k
    <3>1. promise.itt[c.dev] \in OwnItt(c.dev) \cup {NoItt}
      BY <2>1 DEF TableInv
    <3>2. k # NoItt /\ k[1] = d
      BY GitsAssumption DEF OwnItt
    <3>3. c.dev # d => promise.itt[c.dev] # k
      BY <3>1, <3>2 DEF OwnItt
    <3> QED
      BY <2>2, <2>3, <3>3
  <2>5. translation_table' = translation_table
        \/ \E t : translation_table' = [translation_table EXCEPT ![ReadDevice(c.dev)][c.event] = t]
    BY <1>3 DEF handle_command, handle_mapti, handle_movi, WriteEntry
  <2>6. k \in Itt
    BY DEF OwnItt
  <2> QED
    BY <2>4, <2>5, <2>6 DEF TableTypeOK, PromiseType
<1> QED
  BY <1>1, <1>2, <1>3

LEMMA CommandKeepsMsi ==
  ASSUME TableTypeOK, TableInv, MsiInv, programmed = {"device", "collection"},
         UNCHANGED programmed,
         NEW c \in Command, Sane(c), handle_command(c), Observe(c)
  PROVE  MsiInv'
<1>1. promise' = Keep(c, promise)
  BY DEF Observe
<1>2. TableTypeOK' /\ TableInv'
  BY <1>1, CommandKeepsTables
<1>3. promise'.lawful => promise.lawful
  <2>1. promise'.lawful \in {promise.lawful, promise.lawful /\ collection_table[c.icid] # NoVcpu}
    <3>1. CASE c.op = "MAPD"
      BY <1>1, <3>1 DEF Keep, TableTypeOK, PromiseType
    <3>2. CASE c.op = "MAPTI" /\ promise.itt[c.dev] # NoItt
      <4>1. promise' = [promise EXCEPT !.entry[promise.itt[c.dev]][c.event]
                                         = Entry(c.pintid, c.icid)]
        BY <1>1, <3>2 DEF Keep
      <4> QED
        BY <4>1 DEF TableTypeOK, PromiseType
    <3>3. CASE c.op = "MOVI" /\ Promised(promise, c.dev, c.event) # NoEntry
      <4>1. promise' = [promise EXCEPT !.entry[promise.itt[c.dev]][c.event].icid = c.icid,
                                       !.lawful = @ /\ collection_table[c.icid] # NoVcpu]
        BY <1>1, <3>3 DEF Keep
      <4> QED
        BY <4>1 DEF TableTypeOK, PromiseType
    <3>4. CASE /\ c.op # "MAPD" /\ ~(c.op = "MAPTI" /\ promise.itt[c.dev] # NoItt)
               /\ ~(c.op = "MOVI" /\ Promised(promise, c.dev, c.event) # NoEntry)
      BY <1>1, <3>4 DEF Keep
    <3> QED
      BY <3>1, <3>2, <3>3, <3>4
  <2> QED
    BY <2>1
<1>4. ASSUME NEW d \in Dev
      PROVE  /\ msi[d].pc = "idle" => msi'[d] = msi[d]
             /\ msi[d].pc # "idle" =>
                  msi'[d] = [msi[d] EXCEPT
                    !.may = @ \cup Outcomes(promise', d, msi[d].event),
                    !.sure = @ /\ Sure(promise', d, msi[d].event)
                               /\ c.op # "MAPC" /\ (c.op = "MAPD" => c.dev # d)]
  BY DEF Observe
<1>5. ASSUME NEW d \in Dev, msi[d].pc # "idle"
      PROVE  /\ msi'[d].pc = msi[d].pc /\ msi'[d].event = msi[d].event
             /\ msi'[d].itt = msi[d].itt /\ msi'[d].entry = msi[d].entry
             /\ msi'[d].may = msi[d].may \cup Outcomes(promise', d, msi[d].event)
             /\ msi'[d].sure => /\ msi[d].sure /\ Sure(promise', d, msi[d].event)
                                /\ c.op # "MAPC" /\ (c.op = "MAPD" => c.dev # d)
  <2>1. msi[d] \in MsiRecord
    BY DEF MsiInv, MsiTypeOK
  <2>2. msi'[d] = [msi[d] EXCEPT
                    !.may = @ \cup Outcomes(promise', d, msi[d].event),
                    !.sure = @ /\ Sure(promise', d, msi[d].event)
                               /\ c.op # "MAPC" /\ (c.op = "MAPD" => c.dev # d)]
    BY <1>4, <1>5
  <2> QED
    BY <2>1, <2>2 DEF MsiRecord
<1>6. MsiTypeOK'
  <2>1. ASSUME NEW d \in Dev
        PROVE  msi'[d] \in MsiRecord
    <3>1. CASE msi[d].pc = "idle"
      BY <1>4, <3>1 DEF MsiInv, MsiTypeOK, MsiRecord
    <3>2. CASE msi[d].pc # "idle"
      <4>1. Outcomes(promise', d, msi[d].event) \in SUBSET (Pintid \X Vcpu)
        <5>1. msi[d].event \in Event
          BY <3>2 DEF MsiInv, MsiTypeOK, MsiRecord, InFlight, AtItt, AtCollection
        <5> QED
          BY <1>2, <5>1, OutcomesType DEF TableTypeOK, PromiseType
      <4>2. msi[d] \in MsiRecord
        BY DEF MsiInv, MsiTypeOK, MsiRecord
      <4> DEFINE may == msi[d].may \cup Outcomes(promise', d, msi[d].event)
                 sure == msi[d].sure /\ Sure(promise', d, msi[d].event)
                           /\ c.op # "MAPC" /\ (c.op = "MAPD" => c.dev # d)
      <4>3. msi'[d] = [msi[d] EXCEPT !.may = may, !.sure = sure]
        BY <1>4, <3>2
      <4>4. may \in SUBSET (Pintid \X Vcpu) /\ sure \in BOOLEAN
        BY <4>1, <4>2 DEF MsiRecord
      <4> HIDE DEF may, sure
      <4> QED
        BY <4>2, <4>3, <4>4 DEF MsiRecord
    <3> QED
      BY <3>1, <3>2
  <2>2. DOMAIN msi' = Dev /\ msi' = [d \in Dev |-> msi'[d]]
    BY DEF Observe
  <2> QED
    BY <2>1, <2>2 DEF MsiTypeOK, MsiRecord
<1>7. ASSUME NEW d \in Dev
      PROVE  InFlight(d)'
  <2>1. CASE msi[d].pc = "idle"
    BY <1>4, <2>1 DEF InFlight
  <2>2. CASE msi[d].pc # "idle"
    <3> DEFINE k == msi[d].itt
               e == msi[d].event
    <3>1. InFlight(d)
      BY DEF MsiInv
    <3>2. ASSUME msi'[d].sure
          PROVE  /\ programmed' = {"device", "collection"}
                 /\ \A i \in Icid : collection_table'[i] # NoVcpu
      <4>1. c.op # "MAPC" /\ Sure(promise', d, e)
        BY <1>5, <2>2, <3>2
      <4>2. collection_table' = collection_table
        BY <4>1 DEF Command, handle_command, handle_mapd, handle_mapti, handle_movi, tableVars
      <4> QED
        BY <4>1, <4>2 DEF Sure
    <3>3. CASE msi[d].pc = "itt"
      <4> DEFINE t == translation_table'[k][e]
      <4>1. AtItt(d)
        BY <3>1, <3>3 DEF InFlight
      <4>2. k \in OwnItt(d) /\ e \in Event /\ k \in Itt
        BY <4>1 DEF AtItt, OwnItt
      <4>3. ASSUME promise'.lawful, k \notin UnbackedItt, t # NoEntry
            PROVE  Raised(t) \in msi'[d].may
        <5>1. CASE k = promise'.itt[d]
          <6>1. promise'.itt[d] \in Itt \ UnbackedItt
            BY <4>2, <4>3, <5>1
          <6>2. Agree(t, promise'.entry[promise'.itt[d]][e], promise'.lawful)
            BY <1>2, <4>2, <4>3, <5>1 DEF TableInv
          <6>3. Raised(t) \in Outcomes(promise', d, e)
            <7> HIDE DEF k, e, t
            <7>1. e \in Event /\ t # NoEntry /\ promise'.lawful
              BY <4>2, <4>3
            <7> QED
              BY <6>1, <6>2, <7>1, AgreeRaises, ZenonT(60)
          <6> QED
            BY <1>5, <2>2, <6>3
        <5>2. CASE k # promise'.itt[d]
          <6>1. t = translation_table[k][e]
            BY <1>1, <4>2, <5>2, OtherIttsKeep
          <6>2. Raised(t) \in msi[d].may
            BY <1>3, <4>1, <4>3, <6>1 DEF AtItt
          <6> QED
            BY <1>5, <2>2, <6>2
        <5> QED
          BY <5>1, <5>2
      <4>4. ASSUME msi'[d].sure
            PROVE  k = promise'.itt[d] /\ k \notin UnbackedItt /\ t # NoEntry
        <5>1. msi[d].sure /\ Sure(promise', d, e) /\ (c.op = "MAPD" => c.dev # d)
          BY <1>5, <2>2, <4>4
        <5>2. k = promise.itt[d]
          BY <4>1, <5>1 DEF AtItt
        <5>3. device_table'[d] = device_table[d]
          BY <5>1 DEF Command, handle_command, handle_mapd, handle_mapc, handle_mapti, handle_movi,
                      tableVars, WriteDevice, TableTypeOK
        <5>4. k = promise'.itt[d]
          BY <1>2, <5>2, <5>3 DEF TableInv
        <5>5. Promised(promise', d, e) # NoEntry
          BY <5>1 DEF Sure
        <5>6. k \in Itt \ UnbackedItt
          BY <5>4, <5>5 DEF Promised
        <5>7. Agree(t, promise'.entry[promise'.itt[d]][e], promise'.lawful)
          BY <1>2, <4>2, <5>4, <5>6 DEF TableInv
        <5>8. t # NoEntry
          BY <4>2, <5>4, <5>5, <5>6, <5>7, AgreeRaises
        <5> QED
          BY <5>4, <5>6, <5>8
      <4>5. AtItt(d)'
        <5>1. msi'[d].itt = k /\ msi'[d].event = e
          BY <1>5, <2>2
        <5> HIDE DEF k, e
        <5> QED
          BY <4>2, <4>3, <4>4, <5>1 DEF AtItt, OwnItt
      <4> QED
        BY <1>5, <3>2, <3>3, <4>5 DEF InFlight
    <3>4. CASE msi[d].pc = "collection"
      <4>1. AtCollection(d)'
        BY <1>3, <1>5, <3>1, <3>4 DEF InFlight, AtCollection, Raised
      <4> QED
        BY <1>5, <3>2, <3>4, <4>1 DEF InFlight
    <3> QED
      BY <2>2, <3>3, <3>4 DEF MsiInv, MsiTypeOK, MsiRecord
  <2> QED
    BY <2>1, <2>2
<1>8. \A d \in Dev : InFlight(d)'
  BY <1>7
<1> QED
  BY <1>6, <1>8 DEF MsiInv

(* The tables' part of an action that executes no command. *)
LEMMA TablesStay ==
  ASSUME TableTypeOK, TableInv, UNCHANGED <<tableVars, promise>>
  PROVE  TableTypeOK' /\ TableInv'
BY DEF TableTypeOK, TableInv, tableVars

LEMMA CallStays ==
  ASSUME MsiInv, UNCHANGED <<tableVars, promise>>,
         programmed \subseteq programmed', programmed' \subseteq {"device", "collection"},
         NEW d \in Dev, msi'[d] = msi[d]
  PROVE  InFlight(d)'
BY DEF MsiInv, InFlight, AtItt, AtCollection, tableVars

LEMMA NoMsiType == NoMsi \in MsiRecord /\ NoMsi.pc = "idle"
BY DEF NoMsi, MsiRecord, EntryType

(* What a step of one call leaves to prove. *)
LEMMA CallSteps ==
  ASSUME MsiInv, UNCHANGED <<tableVars, promise, programmed>>,
         programmed \subseteq {"device", "collection"},
         NEW d \in Dev, NEW m \in MsiRecord, msi' = [msi EXCEPT ![d] = m], InFlight(d)'
  PROVE  MsiInv'
<1>1. MsiTypeOK'
  BY DEF MsiInv, MsiTypeOK, MsiRecord
<1>2. \A o \in Dev \ {d} : msi'[o] = msi[o]
  BY DEF MsiInv, MsiTypeOK, MsiRecord
<1>3. \A o \in Dev \ {d} : InFlight(o)'
  BY <1>2, CallStays
<1> QED
  BY <1>1, <1>3 DEF MsiInv

LEMMA ReadDeviceKeeps ==
  ASSUME TableTypeOK, TableInv, MsiInv, programmed \subseteq {"device", "collection"},
         NEW d \in Dev, NEW e \in Event, ReadDeviceTable(d, e)
  PROVE  MsiInv'
<1>1. UNCHANGED <<tableVars, promise, programmed>>
  BY DEF ReadDeviceTable, regVars
<1>2. CASE ReadDevice(d) = NoItt
  <2>1. msi' = [msi EXCEPT ![d] = NoMsi]
    BY <1>2 DEF ReadDeviceTable
  <2>2. InFlight(d)'
    BY <2>1, NoMsiType DEF InFlight, MsiInv, MsiTypeOK, MsiRecord
  <2> QED
    BY <1>1, <2>1, <2>2, CallSteps, NoMsiType
<1>3. CASE ReadDevice(d) # NoItt
  <2> DEFINE k == promise.itt[d]
             t == translation_table[k][e]
             m == [pc |-> "itt", event |-> e, itt |-> k, entry |-> NoEntry,
                   may |-> Outcomes(promise, d, e), sure |-> Sure(promise, d, e)]
  <2>1. ReadDevice(d) = k /\ k \in OwnItt(d) /\ k \in Itt
    BY <1>3 DEF ReadDevice, TableInv, OwnItt
  <2>2. msi' = [msi EXCEPT ![d] = m]
    BY <1>3, <2>1 DEF ReadDeviceTable
  <2>3. m \in MsiRecord
    <3>1. Outcomes(promise, d, e) \in SUBSET (Pintid \X Vcpu)
      BY OutcomesType DEF TableTypeOK
    <3>2. Sure(promise, d, e) \in BOOLEAN
      BY DEF Sure
    <3> QED
      BY <2>1, <3>1, <3>2 DEF MsiRecord, EntryType
  <2>4. k \notin UnbackedItt =>
          /\ t = NoEntry <=> Promised(promise, d, e) = NoEntry
          /\ t # NoEntry /\ promise.lawful => Raised(t) \in Outcomes(promise, d, e)
    <3>1. ASSUME k \notin UnbackedItt
          PROVE  promise.itt[d] \in Itt \ UnbackedItt
                 /\ Agree(translation_table[promise.itt[d]][e], promise.entry[promise.itt[d]][e],
                          promise.lawful)
      BY <2>1, <3>1 DEF TableInv
    <3> QED
      BY <3>1, AgreeRaises
  <2>5. Sure(promise, d, e) => /\ k \notin UnbackedItt /\ Promised(promise, d, e) # NoEntry
                               /\ programmed = {"device", "collection"}
                               /\ \A c \in Icid : collection_table[c] # NoVcpu
    BY DEF Sure, Promised
  <2>6. msi'[d] = m
    BY <2>2 DEF MsiInv, MsiTypeOK, MsiRecord
  <2>7. AtItt(d)'
    <3>1. /\ promise.lawful /\ k \notin UnbackedItt /\ t # NoEntry => Raised(t) \in m.may
          /\ m.sure => k = promise.itt[d] /\ k \notin UnbackedItt /\ t # NoEntry
      BY <2>4, <2>5
    <3> QED
      BY <1>1, <2>1, <2>6, <3>1 DEF AtItt, tableVars, OwnItt
  <2>8. InFlight(d)'
    BY <1>1, <2>5, <2>6, <2>7 DEF InFlight, tableVars
  <2> QED
    BY <1>1, <2>2, <2>3, <2>8, CallSteps
<1> QED
  BY <1>2, <1>3

LEMMA ReadTranslationKeeps ==
  ASSUME TableTypeOK, TableInv, MsiInv, programmed \subseteq {"device", "collection"},
         NEW d \in Dev, ReadTranslationTable(d)
  PROVE  MsiInv' /\ (msi[d].sure => msi'[d].pc # "idle")
<1> DEFINE t == ReadEntry(msi[d].itt, msi[d].event)
           m == [msi[d] EXCEPT !.pc = "collection", !.entry = t]
<1>1. UNCHANGED <<tableVars, promise, programmed>>
  BY DEF ReadTranslationTable, regVars
<1>2. AtItt(d) /\ msi[d].pc = "itt" /\ InFlight(d)
  BY DEF ReadTranslationTable, MsiInv, InFlight
<1>3. msi[d].itt \in Itt /\ msi[d].event \in Event /\ t \in EntryType
  BY <1>2 DEF AtItt, OwnItt, ReadEntry, TableTypeOK, EntryType
<1>4. CASE t = NoEntry
  <2>1. msi' = [msi EXCEPT ![d] = NoMsi]
    BY <1>4 DEF ReadTranslationTable
  <2>2. InFlight(d)'
    BY <2>1, NoMsiType DEF InFlight, MsiInv, MsiTypeOK, MsiRecord
  <2>3. ~msi[d].sure
    BY <1>2, <1>4 DEF AtItt, ReadEntry
  <2> QED
    BY <1>1, <2>1, <2>2, <2>3, CallSteps, NoMsiType
<1>5. CASE t # NoEntry
  <2>1. msi' = [msi EXCEPT ![d] = m]
    BY <1>5 DEF ReadTranslationTable
  <2>2. msi[d] \in MsiRecord
    BY DEF MsiInv, MsiTypeOK, MsiRecord
  <2>3. m \in MsiRecord /\ m.pc = "collection" /\ m.entry = t /\ m.may = msi[d].may
        /\ m.sure = msi[d].sure /\ m.event = msi[d].event
    BY <1>3, <2>2 DEF MsiRecord
  <2>4. msi'[d] = m
    BY <2>1 DEF MsiInv, MsiTypeOK, MsiRecord
  <2>5. msi[d].itt \notin UnbackedItt /\ t = translation_table[msi[d].itt][msi[d].event]
    BY <1>5 DEF ReadEntry
  <2>6. promise.lawful => Raised(t) \in msi[d].may
    BY <1>2, <1>5, <2>5 DEF AtItt
  <2> HIDE DEF m, t
  <2>7. AtCollection(d)'
    BY <1>1, <1>3, <1>5, <2>3, <2>4, <2>6 DEF AtCollection, Raised
  <2>8. InFlight(d)'
    BY <1>1, <1>2, <2>3, <2>4, <2>7 DEF InFlight, tableVars
  <2> QED
    BY <1>1, <2>1, <2>3, <2>4, <2>8, CallSteps
<1> QED
  BY <1>4, <1>5

LEMMA ReadCollectionKeeps ==
  ASSUME TableTypeOK, TableInv, MsiInv, programmed \subseteq {"device", "collection"},
         NEW d \in Dev, ReadCollectionTable(d)
  PROVE  /\ MsiInv'
         /\ Asserts(d) /\ promise.lawful => Asserted(d) \in msi[d].may
         /\ msi[d].sure => Asserts(d)
<1>1. UNCHANGED <<tableVars, promise, programmed>> /\ msi' = [msi EXCEPT ![d] = NoMsi]
      /\ msi[d].pc = "collection"
  BY DEF ReadCollectionTable, regVars
<1>2. InFlight(d)'
  BY <1>1, NoMsiType DEF InFlight, MsiInv, MsiTypeOK, MsiRecord
<1>3. MsiInv'
  BY <1>1, <1>2, CallSteps, NoMsiType
<1>4. InFlight(d) /\ AtCollection(d)
  BY <1>1 DEF MsiInv, InFlight
<1>5. msi[d].entry.icid \in Icid
  <2>1. msi[d].entry \in EntryType /\ msi[d].entry # NoEntry
    BY <1>4 DEF MsiInv, MsiTypeOK, MsiRecord, AtCollection
  <2> QED
    BY <2>1, EntryIsNone
<1>6. ASSUME Asserts(d), promise.lawful
      PROVE  Asserted(d) \in msi[d].may
  <2>1. ReadCollection(msi[d].entry.icid) = InitTarget[msi[d].entry.icid]
    BY <1>5, <1>6 DEF Asserts, ReadCollection, TableInv
  <2> QED
    BY <1>4, <1>6, <2>1 DEF Asserted, AtCollection, Raised
<1>7. ASSUME msi[d].sure
      PROVE  Asserts(d)
  BY <1>1, <1>4, <1>5, <1>7 DEF InFlight, Asserts, ReadCollection
<1> QED
  BY <1>3, <1>6, <1>7

Tables == programmed \subseteq {"device", "collection"} /\ TableTypeOK /\ TableInv /\ MsiInv

Translated ==
  \A d \in Dev : msi[d].pc # "idle" /\ msi'[d].pc = "idle" =>
    /\ Asserts(d) /\ promise.lawful => Asserted(d) \in msi[d].may
    /\ msi[d].sure => Asserts(d)

(* An action that runs no command and is not a device's. *)
LEMMA GuestKeeps ==
  ASSUME Tables, UNCHANGED <<tableVars, promise, msi>>,
         programmed \subseteq programmed', programmed' \subseteq {"device", "collection"}
  PROVE  Tables' /\ Translated
<1>1. \A d \in Dev : InFlight(d)'
  BY CallStays DEF Tables
<1> QED
  BY <1>1, TablesStay DEF Tables, Translated, MsiInv, MsiTypeOK, MsiRecord

LEMMA TablesKeep ==
  ASSUME GitsTypeOK, QueueInv, Tables, GitsNext
  PROVE  Tables' /\ Translated
<1>1. ASSUME NEW c \in Command, Issue(c)
      PROVE  Tables' /\ Translated
  BY <1>1, GuestKeeps DEF Issue, regVars, msiVars, Tables
<1>2. CASE WriteCtlr \/ WriteCbaser \/ FetchEnd \/ Reset \/ WriteCwriter(tail) \/ WriteCwriter(Size)
  <2>1. UNCHANGED <<tableVars, promise, msi, programmed>>
    BY <1>2 DEF WriteCtlr, WriteCbaser, FetchEnd, Reset, WriteCwriter, regVars, msiVars
  <2> QED
    BY <2>1, GuestKeeps DEF Tables
<1>3. ASSUME NEW table \in {"device", "collection"}, WriteBaser(table)
      PROVE  Tables' /\ Translated
  BY <1>3, GuestKeeps DEF WriteBaser, msiVars, Tables
<1>4. CASE Fetch
  <2>1. CASE creadr = gap
    <3>1. UNCHANGED <<tableVars, promise, msi, programmed>>
      BY <1>4, <2>1 DEF Fetch
    <3> QED
      BY <3>1, GuestKeeps DEF Tables
  <2>2. CASE creadr # gap
    <3> DEFINE c == ring[creadr]
    <3>1. handle_command(c) /\ Observe(c) /\ UNCHANGED programmed
          /\ programmed = {"device", "collection"}
      BY <1>4, <2>2 DEF Fetch, QueueInv
    <3>2. c \in Command /\ Sane(c)
      BY DEF GitsTypeOK
    <3>3. promise' = Keep(c, promise)
      BY <3>1 DEF Observe
    <3>4. \A d \in Dev : msi'[d].pc = msi[d].pc
      BY <3>1 DEF Observe, Tables, MsiInv, MsiTypeOK, MsiRecord
    <3> HIDE DEF c
    <3>5. TableTypeOK' /\ TableInv'
      BY <3>1, <3>2, <3>3, CommandKeepsTables DEF Tables
    <3>6. MsiInv'
      BY <3>1, <3>2, CommandKeepsMsi DEF Tables
    <3> QED
      BY <3>1, <3>4, <3>5, <3>6 DEF Tables, Translated
  <2> QED
    BY <2>1, <2>2
<1>5. ASSUME NEW d \in Dev, NEW e \in Event, ReadDeviceTable(d, e)
      PROVE  Tables' /\ Translated
  <2>1. UNCHANGED <<tableVars, promise, programmed>> /\ msi[d].pc = "idle"
        /\ \A o \in Dev \ {d} : msi'[o] = msi[o]
    BY <1>5 DEF ReadDeviceTable, regVars, Tables, MsiInv, MsiTypeOK, MsiRecord
  <2>2. MsiInv'
    BY <1>5, ReadDeviceKeeps DEF Tables
  <2> QED
    BY <2>1, <2>2, TablesStay DEF Tables, Translated
<1>6. ASSUME NEW d \in Dev, ReadTranslationTable(d)
      PROVE  Tables' /\ Translated
  <2>1. UNCHANGED <<tableVars, promise, programmed>> /\ msi[d].pc = "itt"
        /\ \A o \in Dev \ {d} : msi'[o] = msi[o]
    BY <1>6 DEF ReadTranslationTable, regVars, Tables, MsiInv, MsiTypeOK, MsiRecord
  <2>2. MsiInv' /\ (msi[d].sure => msi'[d].pc # "idle")
    BY <1>6, ReadTranslationKeeps DEF Tables
  <2>3. ~Asserts(d)
    BY <2>1 DEF Asserts
  <2> QED
    BY <2>1, <2>2, <2>3, TablesStay DEF Tables, Translated
<1>7. ASSUME NEW d \in Dev, ReadCollectionTable(d)
      PROVE  Tables' /\ Translated
  <2>1. UNCHANGED <<tableVars, promise, programmed>> /\ \A o \in Dev \ {d} : msi'[o] = msi[o]
    BY <1>7 DEF ReadCollectionTable, regVars, Tables, MsiInv, MsiTypeOK, MsiRecord
  <2>2. /\ MsiInv'
        /\ Asserts(d) /\ promise.lawful => Asserted(d) \in msi[d].may
        /\ msi[d].sure => Asserts(d)
    BY <1>7, ReadCollectionKeeps DEF Tables
  <2> QED
    BY <2>1, <2>2, TablesStay DEF Tables, Translated
<1> QED
  BY <1>1, <1>2, <1>3, <1>4, <1>5, <1>6, <1>7 DEF GitsNext

LEMMA TablesInitial == GitsInit => Tables
<1> SUFFICES ASSUME GitsInit PROVE Tables
  OBVIOUS
<1>1. NoEntry \in EntryType /\ NoItt \in Itt \cup {NoItt}
  BY DEF EntryType
<1>2. device_table \in [Dev -> Itt \cup {NoItt}]
      /\ translation_table \in [Itt -> [Event -> EntryType]]
      /\ collection_table \in [Icid -> Vcpu \cup {NoVcpu}]
  BY <1>1, GitsAssumption DEF GitsInit
<1>3. promise \in PromiseType /\ promise.itt = device_table /\ promise.entry = translation_table
  BY <1>2 DEF GitsInit, PromiseType
<1>4. \A k \in Itt, e \in Event : translation_table[k][e] = NoEntry
  BY DEF GitsInit
<1>5. TableInv
  BY <1>3, <1>4, GitsAssumption DEF GitsInit, TableInv, Agree
<1>6. MsiInv
  BY NoMsiType DEF GitsInit, MsiInv, MsiTypeOK, MsiRecord, InFlight
<1> QED
  BY <1>2, <1>3, <1>5, <1>6 DEF GitsInit, Tables, TableTypeOK

(* handle_msi, which reads the device table, an ITT and the collection table
   without a lock while commands change them: the interrupt it asserts is one that
   its event was mapped to during the call, at the VCPU of that mapping's
   collection; and a call whose event stays mapped asserts one. *)
THEOREM MsiRaisesMapped == RegistersSpec => MsiTranslated
<1>1. RegistersInit => GitsTypeOK /\ QueueInv /\ Tables
  BY QueueInitial, TablesInitial DEF RegistersInit
<1>2. GitsTypeOK /\ QueueInv /\ Tables /\ [RegistersNext]_registersVars
        => GitsTypeOK' /\ QueueInv' /\ Tables' /\ [Translated]_gitsVars
  <2> SUFFICES ASSUME GitsTypeOK, QueueInv, Tables, [RegistersNext]_registersVars
               PROVE  GitsTypeOK' /\ QueueInv' /\ Tables' /\ [Translated]_gitsVars
    OBVIOUS
  <2>1. CASE GitsNext
    BY <2>1, GitsTypeKeeps, QueueKeeps, TablesKeep
  <2>2. CASE UNCHANGED gitsVars
    <3>1. GitsTypeOK' /\ QueueInv'
      BY <2>2 DEF gitsVars, regVars, guestVars, GitsTypeOK, QueueInv, Dist
    <3>2. UNCHANGED <<tableVars, promise, msi, programmed>>
      BY <2>2 DEF gitsVars, regVars, msiVars
    <3>3. Tables'
      BY <3>2, GuestKeeps DEF Tables
    <3> QED
      BY <2>2, <3>1, <3>3
  <2> QED
    BY <2>1, <2>2 DEF RegistersNext, registersVars
<1> QED
  BY <1>1, <1>2, PTL DEF RegistersSpec, MsiTranslated, Translated

-----------------------------------------------------------------------------
Row(r, first, last, per, type, field, effect) ==
  /\ r.first = first /\ r.last = last /\ r.per = per
  /\ r.type = type /\ r.field = field /\ r.effect = effect

(* The frames of the GIC: the registers of the distributor's switch that hold
   fields of interrupts, their offsets computed. *)
DistributorRow(r) ==
  \/ Row(r, 128, 255, 8, "ALL", "group1", "store")
  \/ Row(r, 256, 383, 8, "ALL", "enable", "set")
  \/ Row(r, 384, 511, 8, "ALL", "enable", "clear")
  \/ Row(r, 512, 639, 8, "ALL", "pending", "set")
  \/ Row(r, 640, 767, 8, "ALL", "pending", "clear")
  \/ Row(r, 768, 889, 8, "ALL", "active", "set")
  \/ Row(r, 896, 1023, 8, "ALL", "active", "clear")
  \/ Row(r, 1024, 2047, 1, "ALL", "prio", "store")
  \/ Row(r, 2048, 2079, 1, "PRIVATE_ONLY", "target", "ignore")
  \/ Row(r, 2080, 3071, 1, "SPI", "target", "store")
  \/ Row(r, 3072, 3075, 4, "SGI", "edge", "ignore")
  \/ Row(r, 3076, 3079, 4, "PPI", "edge", "store")
  \/ Row(r, 3080, 3327, 4, "SPI", "edge", "store")

(* Those of a redistributor's frame. *)
RedistributorRow(r) ==
  \/ Row(r, 65664, 65667, 8, "PRIVATE_ONLY", "group1", "store")
  \/ Row(r, 65792, 65795, 8, "PRIVATE_ONLY", "enable", "set")
  \/ Row(r, 65920, 65923, 8, "PRIVATE_ONLY", "enable", "clear")
  \/ Row(r, 66048, 66051, 8, "PRIVATE_ONLY", "pending", "set")
  \/ Row(r, 66176, 66179, 8, "PRIVATE_ONLY", "pending", "clear")
  \/ Row(r, 66304, 66307, 8, "PRIVATE_ONLY", "active", "set")
  \/ Row(r, 66432, 66435, 8, "PRIVATE_ONLY", "active", "clear")
  \/ Row(r, 66560, 66591, 1, "PRIVATE_ONLY", "prio", "store")
  \/ Row(r, 68608, 68611, 4, "SGI", "edge", "store")
  \/ Row(r, 68612, 68615, 4, "PPI", "edge", "store")

Frame == {"GICD", "GICR"}

(* The register of the architecture that r of the code is, or is a part of. *)
ArchOf(r) ==
  [first |-> r.first - (IrqBase(r) * Width(r.field)) \div 8, field |-> r.field,
   effect |-> IF r.effect = "ignore" THEN "store" ELSE r.effect]

(* What the table says of a register of the code: as many interrupts per byte as
   fields of its width, its place in a, and its end. *)
Decoded(frame, r, a) ==
  /\ a \in Architecture(frame) /\ a.field = r.field /\ r.field \in Field
  /\ r.first \in Nat /\ r.last \in Nat /\ a.first \in Nat
  /\ \/ Width(r.field) = 1 /\ r.per = 8
     \/ Width(r.field) = 2 /\ r.per = 4
     \/ Width(r.field) = 8 /\ r.per = 1
  /\ IrqBase(r) \in {0, 16, 32}
  /\ 8 * r.first = 8 * a.first + IrqBase(r) * Width(r.field)
  /\ r.first .. r.last \subseteq Extent(a, frame)
  /\ r.first % 4 = 0 /\ r.first + 3 <= r.last

Ends(frame, r, a) ==
  /\ IrqMax(r) \in IrqBase(r) + 1 .. Configured
  /\ \/ IrqMax(r) = Configured /\ frame = "GICD"
     \/ /\ IrqMax(r) \in {16, 32}
        /\ 8 * (r.last + 1) = 8 * a.first + IrqMax(r) * Width(r.field)
        /\ r.last % 4 = 3

LEMMA DistributorRows ==
  ASSUME NEW r \in Distributor
  PROVE  DistributorRow(r)
  BY DEF Distributor, GICD, Register, DistributorRow, Row

LEMMA RedistributorRows ==
  ASSUME NEW r \in Redistributor
  PROVE  RedistributorRow(r)
  BY DEF Redistributor, GICR, Register, RedistributorRow, Row, RD

LEMMA DistributorDecoded ==
  ASSUME NEW r \in Distributor
  PROVE  Decoded("GICD", r, ArchOf(r)) /\ Ends("GICD", r, ArchOf(r))
<1>1. ArchOf(r) \in Architecture("GICD")
  BY DEF Distributor, GICD, Register, ArchOf, Architecture, IrqBase, Width, MAX_SGI, SPI_BASE, MAX_PPI
<1>2. DistributorRow(r)
  BY DistributorRows
<1>3. ArchOf(r).field = r.field /\ r.field \in Field
  BY <1>2 DEF ArchOf, DistributorRow, Row, Field
<1>4. /\ \/ Width(r.field) = 1 /\ r.per = 8
         \/ Width(r.field) = 2 /\ r.per = 4
         \/ Width(r.field) = 8 /\ r.per = 1
      /\ r.first \in Nat /\ r.last \in Nat /\ r.first % 4 = 0 /\ r.first + 3 <= r.last
      /\ IrqBase(r) \in {0, 16, 32}
  BY <1>2 DEF DistributorRow, Row, Width, IrqBase, MAX_SGI, SPI_BASE, MAX_PPI
<1>5. ArchOf(r).first \in Nat /\ 8 * r.first = 8 * ArchOf(r).first + IrqBase(r) * Width(r.field)
  BY <1>2 DEF DistributorRow, Row, Width, IrqBase, MAX_SGI, SPI_BASE, MAX_PPI, ArchOf
<1> DEFINE w == Width(r.field)
           base == IrqBase(r)
           first == ArchOf(r).first
<1>6. r.first .. r.last \subseteq Extent(ArchOf(r), "GICD")
  <2>1. Extent(ArchOf(r), "GICD") = first .. first + (1024 * w) \div 8 - 1
    BY <1>3 DEF Extent
  <2>2. (1024 * w) \div 8 = 128 * w
    BY <1>4
  <2>3. r.last < first + 128 * w
    <3>1. \/ w = 1 /\ r.field \in {"group1", "enable", "pending", "active"}
          \/ w = 8 /\ r.field \in {"prio", "target"}
          \/ w = 2 /\ r.field = "edge"
      BY <1>2 DEF DistributorRow, Row, Width
    <3>2. base = IF r.type = "PPI" THEN 16 ELSE IF r.type = "SPI" THEN 32 ELSE 0
      BY DEF IrqBase, MAX_SGI, SPI_BASE, MAX_PPI
    <3> HIDE DEF w, base, first
    <3>3. 8 * r.first = 8 * first + base * w
      BY <1>5 DEF first, base, w
    <3>4. first \in Nat
      BY <1>5 DEF first
    <3> QED
      BY <1>2, <3>1, <3>2, <3>3, <3>4 DEF DistributorRow, Row
  <2>4. first <= r.first
    BY <1>4, <1>5
  <2> HIDE DEF first, w
  <2>5. first \in Nat /\ r.first \in Nat /\ r.last \in Nat /\ w \in Nat
    BY <1>4, <1>5 DEF first, w
  <2> QED
    BY <2>1, <2>2, <2>3, <2>4, <2>5
<1>7. Ends("GICD", r, ArchOf(r))
  <2>1. \/ w = 1 /\ r.field \in {"group1", "enable", "pending", "active"}
        \/ w = 8 /\ r.field \in {"prio", "target"}
        \/ w = 2 /\ r.field = "edge"
    BY <1>2 DEF DistributorRow, Row, Width
  <2>2. /\ base = IF r.type = "PPI" THEN 16 ELSE IF r.type = "SPI" THEN 32 ELSE 0
        /\ IrqMax(r) = IF r.type = "SGI" THEN 16 ELSE IF r.type \in {"PPI", "PRIVATE_ONLY"} THEN 32
                       ELSE Configured
    BY DEF IrqBase, IrqMax, MAX_SGI, SPI_BASE, MAX_PPI
  <2>3. 8 * r.first = 8 * first + base * w /\ first \in Nat
    BY <1>5
  <2>4. Configured \in Nat /\ Configured > 32
    BY GicRegsAssumption DEF SPI_BASE, MAX_SGI, MAX_PPI
  <2> HIDE DEF w, base, first
  <2>5. IrqMax(r) \in base + 1 .. Configured
    BY <1>2, <2>2, <2>4 DEF DistributorRow, Row
  <2>6. \/ IrqMax(r) = Configured /\ "GICD" = "GICD"
        \/ /\ IrqMax(r) \in {16, 32}
           /\ 8 * (r.last + 1) = 8 * first + IrqMax(r) * w
           /\ r.last % 4 = 3
    BY <1>2, <2>1, <2>2, <2>3 DEF DistributorRow, Row
  <2> QED
    BY <2>5, <2>6 DEF Ends, w, base, first
<1> QED
  BY <1>1, <1>3, <1>4, <1>5, <1>6, <1>7 DEF Decoded

LEMMA RedistributorDecoded ==
  ASSUME NEW r \in Redistributor
  PROVE  Decoded("GICR", r, ArchOf(r)) /\ Ends("GICR", r, ArchOf(r))
<1>1. ArchOf(r) \in Architecture("GICR")
  BY DEF Redistributor, GICR, Register, ArchOf, Architecture, IrqBase, Width, MAX_SGI, SPI_BASE, MAX_PPI, RD
<1>2. RedistributorRow(r)
  BY RedistributorRows
<1>3. ArchOf(r).field = r.field /\ r.field \in Field
  BY <1>2 DEF ArchOf, RedistributorRow, Row, Field
<1>4. /\ \/ Width(r.field) = 1 /\ r.per = 8
         \/ Width(r.field) = 2 /\ r.per = 4
         \/ Width(r.field) = 8 /\ r.per = 1
      /\ r.first \in Nat /\ r.last \in Nat /\ r.first % 4 = 0 /\ r.first + 3 <= r.last
      /\ IrqBase(r) \in {0, 16, 32}
  BY <1>2 DEF RedistributorRow, Row, Width, IrqBase, MAX_SGI, SPI_BASE, MAX_PPI
<1>5. ArchOf(r).first \in Nat /\ 8 * r.first = 8 * ArchOf(r).first + IrqBase(r) * Width(r.field)
  BY <1>2 DEF RedistributorRow, Row, Width, IrqBase, MAX_SGI, SPI_BASE, MAX_PPI, ArchOf
<1> DEFINE w == Width(r.field)
           base == IrqBase(r)
           first == ArchOf(r).first
<1>6. r.first .. r.last \subseteq Extent(ArchOf(r), "GICR")
  <2>1. Extent(ArchOf(r), "GICR") = first .. first + (32 * w) \div 8 - 1
    BY <1>3 DEF Extent
  <2>2. (32 * w) \div 8 = 4 * w
    BY <1>4
  <2>3. r.last < first + 4 * w
    <3>1. \/ w = 1 /\ r.field \in {"group1", "enable", "pending", "active"}
          \/ w = 8 /\ r.field \in {"prio", "target"}
          \/ w = 2 /\ r.field = "edge"
      BY <1>2 DEF RedistributorRow, Row, Width
    <3>2. base = IF r.type = "PPI" THEN 16 ELSE IF r.type = "SPI" THEN 32 ELSE 0
      BY DEF IrqBase, MAX_SGI, SPI_BASE, MAX_PPI
    <3> HIDE DEF w, base, first
    <3>3. 8 * r.first = 8 * first + base * w
      BY <1>5 DEF first, base, w
    <3>4. first \in Nat
      BY <1>5 DEF first
    <3> QED
      BY <1>2, <3>1, <3>2, <3>3, <3>4 DEF RedistributorRow, Row
  <2>4. first <= r.first
    BY <1>4, <1>5
  <2> HIDE DEF first, w
  <2>5. first \in Nat /\ r.first \in Nat /\ r.last \in Nat /\ w \in Nat
    BY <1>4, <1>5 DEF first, w
  <2> QED
    BY <2>1, <2>2, <2>3, <2>4, <2>5
<1>7. Ends("GICR", r, ArchOf(r))
  <2>1. \/ w = 1 /\ r.field \in {"group1", "enable", "pending", "active"}
        \/ w = 8 /\ r.field \in {"prio", "target"}
        \/ w = 2 /\ r.field = "edge"
    BY <1>2 DEF RedistributorRow, Row, Width
  <2>2. /\ base = IF r.type = "PPI" THEN 16 ELSE IF r.type = "SPI" THEN 32 ELSE 0
        /\ IrqMax(r) = IF r.type = "SGI" THEN 16 ELSE IF r.type \in {"PPI", "PRIVATE_ONLY"} THEN 32
                       ELSE Configured
    BY DEF IrqBase, IrqMax, MAX_SGI, SPI_BASE, MAX_PPI
  <2>3. 8 * r.first = 8 * first + base * w /\ first \in Nat
    BY <1>5
  <2>4. Configured \in Nat /\ Configured > 32
    BY GicRegsAssumption DEF SPI_BASE, MAX_SGI, MAX_PPI
  <2> HIDE DEF w, base, first
  <2>5. IrqMax(r) \in base + 1 .. Configured
    BY <1>2, <2>2, <2>4 DEF RedistributorRow, Row
  <2>6. \/ IrqMax(r) = Configured /\ "GICR" = "GICD"
        \/ /\ IrqMax(r) \in {16, 32}
           /\ 8 * (r.last + 1) = 8 * first + IrqMax(r) * w
           /\ r.last % 4 = 3
    BY <1>2, <2>1, <2>2, <2>3 DEF RedistributorRow, Row
  <2> QED
    BY <2>5, <2>6 DEF Ends, w, base, first
<1> QED
  BY <1>1, <1>3, <1>4, <1>5, <1>6, <1>7 DEF Decoded

LEMMA RegisterDecoded ==
  ASSUME NEW frame \in Frame, NEW r \in RegistersOf(frame)
  PROVE  Decoded(frame, r, ArchOf(r)) /\ Ends(frame, r, ArchOf(r))
  BY DistributorDecoded, RedistributorDecoded DEF RegistersOf, Frame

(* No two registers of the architecture share an offset. *)
LEMMA ExtentsApart ==
  ASSUME NEW frame \in Frame, NEW a \in Architecture(frame), NEW b \in Architecture(frame),
         NEW o \in Extent(a, frame), o \in Extent(b, frame)
  PROVE  a = b
<1> DEFINE Rows(c, base) ==
      \/ c = [first |-> base + 128, field |-> "group1", effect |-> "store"]
      \/ c = [first |-> base + 256, field |-> "enable", effect |-> "set"]
      \/ c = [first |-> base + 384, field |-> "enable", effect |-> "clear"]
      \/ c = [first |-> base + 512, field |-> "pending", effect |-> "set"]
      \/ c = [first |-> base + 640, field |-> "pending", effect |-> "clear"]
      \/ c = [first |-> base + 768, field |-> "active", effect |-> "set"]
      \/ c = [first |-> base + 896, field |-> "active", effect |-> "clear"]
      \/ c = [first |-> base + 1024, field |-> "prio", effect |-> "store"]
      \/ c = [first |-> base + 3072, field |-> "edge", effect |-> "store"]
      \/ c = [first |-> base + 2048, field |-> "target", effect |-> "store"]
    N == IF frame = "GICD" THEN 1024 ELSE 32
    base == IF frame = "GICD" THEN 0 ELSE RD
<1>1. \A c \in Architecture(frame) : Rows(c, base)
  BY DEF Architecture
<1>2. \A c \in Architecture(frame) :
         /\ \/ Width(c.field) = 1 /\ c.field \in {"group1", "enable", "pending", "active"}
            \/ Width(c.field) = 8 /\ c.field \in {"prio", "target"}
            \/ Width(c.field) = 2 /\ c.field = "edge"
         /\ Extent(c, frame) = c.first .. c.first + (N * Width(c.field)) \div 8 - 1
  BY <1>1 DEF Width, Extent
<1>3. \A w \in {1, 2, 8} : (N * w) \div 8 = IF frame = "GICD" THEN 128 * w ELSE 4 * w
  OBVIOUS
<1>4. base \in Nat /\ o \in Int
  <2>1. a.first \in Nat
    BY <1>1 DEF RD
  <2>2. (N * Width(a.field)) \div 8 \in Int
    BY <1>2, <1>3
  <2> QED
    BY <1>2, <2>1, <2>2 DEF RD
<1> DEFINE e == o - base
<1> DEFINE Sits(c) ==
      \/ 128 <= e /\ e <= 255 /\ c.first = base + 128 /\ c.field = "group1" /\ c.effect = "store"
      \/ 256 <= e /\ e <= 383 /\ c.first = base + 256 /\ c.field = "enable" /\ c.effect = "set"
      \/ 384 <= e /\ e <= 511 /\ c.first = base + 384 /\ c.field = "enable" /\ c.effect = "clear"
      \/ 512 <= e /\ e <= 639 /\ c.first = base + 512 /\ c.field = "pending" /\ c.effect = "set"
      \/ 640 <= e /\ e <= 767 /\ c.first = base + 640 /\ c.field = "pending" /\ c.effect = "clear"
      \/ 768 <= e /\ e <= 895 /\ c.first = base + 768 /\ c.field = "active" /\ c.effect = "set"
      \/ 896 <= e /\ e <= 1023 /\ c.first = base + 896 /\ c.field = "active" /\ c.effect = "clear"
      \/ 1024 <= e /\ e <= 2047 /\ c.first = base + 1024 /\ c.field = "prio" /\ c.effect = "store"
      \/ 3072 <= e /\ e <= 3327 /\ c.first = base + 3072 /\ c.field = "edge" /\ c.effect = "store"
      \/ 2048 <= e /\ e <= 3071 /\ c.first = base + 2048 /\ c.field = "target" /\ c.effect = "store"
<1>5. \A c \in Architecture(frame) : o \in Extent(c, frame) => Sits(c)
  <2> SUFFICES ASSUME NEW c \in Architecture(frame), o \in Extent(c, frame)
               PROVE  Sits(c)
    OBVIOUS
  <2>1. o >= c.first /\ \/ Width(c.field) = 1 /\ c.field \in {"group1", "enable", "pending", "active"} /\ o < c.first + 128
                        \/ Width(c.field) = 8 /\ c.field \in {"prio", "target"} /\ o < c.first + 1024
                        \/ Width(c.field) = 2 /\ c.field = "edge" /\ o < c.first + 256
    <3>1. c.first \in Nat
      BY <1>1, <1>4
    <3> DEFINE end == (N * Width(c.field)) \div 8
    <3>2. end <= 128 * Width(c.field) /\ end \in Nat
      BY <1>2, <1>3
    <3>3. o \in c.first .. c.first + end - 1
      BY <1>2
    <3> HIDE DEF N, end
    <3>4. c.first <= o /\ o < c.first + 128 * Width(c.field)
      <4>1. Width(c.field) \in Nat
        BY <1>2
      <4> QED
        BY <1>4, <3>1, <3>2, <3>3, <4>1
    <3> QED
      BY <1>2, <3>4
  <2>2. Rows(c, base)
    BY <1>1
  <2> HIDE DEF base, N
  <2> QED
    BY <1>4, <2>1, <2>2
<1>6. \E x, y, z : a = [first |-> x, field |-> y, effect |-> z]
  BY <1>1
<1>7. \E x, y, z : b = [first |-> x, field |-> y, effect |-> z]
  BY <1>1
<1> HIDE DEF base
<1>8. a.first = b.first /\ a.field = b.field /\ a.effect = b.effect
  <2>1. Sits(a) /\ Sits(b)
    BY <1>5
  <2>2. e \in Int
    BY <1>4
  <2> HIDE DEF e
  <2>3. a.first = b.first
    BY <2>1, <2>2
  <2>4. a.field = b.field /\ a.effect = b.effect
    BY <2>1, <2>2
  <2> QED
    BY <2>3, <2>4
<1> QED
  BY <1>6, <1>7, <1>8

(* Where the interrupts of an access begin, counted from the start of the
   architecture's register, whatever the width of a field. *)
LEMMA AccessStart ==
  ASSUME NEW rf \in Nat, NEW af \in Nat, NEW base \in Nat, NEW offset \in Nat, NEW first \in Nat,
         NEW w, NEW per,
         \/ w = 1 /\ per = 8
         \/ w = 2 /\ per = 4
         \/ w = 8 /\ per = 1,
         8 * rf = 8 * af + base * w, first = (offset - rf) * per + base
  PROVE  8 * af + first * w = 8 * offset
<1>1. CASE w = 1 /\ per = 8
  BY <1>1
<1>2. CASE w = 2 /\ per = 4
  BY <1>2
<1>3. CASE w = 8 /\ per = 1
  BY <1>3
<1> QED
  BY <1>1, <1>2, <1>3

LEMMA DivMod ==
  ASSUME NEW w, w = 1 \/ w = 2 \/ w = 8, NEW p \in Nat
  PROVE  p \div w \in Nat /\ p % w \in 0 .. w - 1 /\ p = (p \div w) * w + (p % w)
<1>1. CASE w = 1
  BY <1>1
<1>2. CASE w = 2
  BY <1>2
<1>3. CASE w = 8
  BY <1>3
<1> QED
  BY <1>1, <1>2, <1>3

LEMMA DivModUnique ==
  ASSUME NEW w, w = 1 \/ w = 2 \/ w = 8, NEW d \in Nat, NEW b \in 0 .. w - 1,
         NEW p, p = d * w + b
  PROVE  p \div w = d /\ p % w = b
<1>1. CASE w = 1
  BY <1>1
<1>2. CASE w = 2
  BY <1>2
<1>3. CASE w = 8
  BY <1>3
<1> QED
  BY <1>1, <1>2, <1>3

(* A position in the value of an access and the bit of an interrupt's field that
   it stands for: the bit's place in the architecture's register. *)
LEMMA PositionPlace ==
  ASSUME NEW frame, NEW r, NEW a, Decoded(frame, r, a), Ends(frame, r, a),
         NEW offset \in r.first .. r.last, NEW bytes \in {1, 2, 4},
         NEW p \in Positions(r, offset, bytes)
  PROVE  /\ IrqAt(r, offset, p) \in IrqBase(r) .. IrqMax(r) - 1
         /\ p % Width(r.field) \in 0 .. Width(r.field) - 1
         /\ Place(a, IrqAt(r, offset, p), p % Width(r.field)) = 8 * offset + p
         /\ p \in 0 .. 8 * bytes - 1
<1> DEFINE w == Width(r.field)
           base == IrqBase(r)
           per == r.per
           rf == r.first
           rl == r.last
           af == a.first
           max == IrqMax(r)
           first == first_irq_accessed(r, offset)
           num == num_irqs(r, offset, bytes)
           q == p \div w
<1>1. /\ rf \in Nat /\ rl \in Nat /\ af \in Nat /\ base \in Nat /\ max \in Nat
      /\ 8 * rf = 8 * af + base * w /\ a.field = r.field /\ offset \in rf .. rl
  BY GicRegsAssumption, SMTT(30) DEF Decoded, Ends
<1>2. \/ w = 1 /\ per = 8
      \/ w = 2 /\ per = 4
      \/ w = 8 /\ per = 1
  BY DEF Decoded
<1>3. p \in 0 .. 8 * bytes - 1 /\ q < num
  BY DEF Positions
<1>4. p \in Nat /\ q \in Nat /\ p % w \in 0 .. w - 1 /\ p = q * w + (p % w)
  <2>1. p \in Nat
    BY <1>3
  <2> QED
    BY <1>2, <2>1, DivMod
<1>5. first = (offset - rf) * per + base /\ first \in Nat /\ offset \in Nat
  BY <1>1, <1>2 DEF first_irq_accessed
<1>6. num = IF first >= max THEN 0
            ELSE IF first + bytes * per > max THEN max - first ELSE bytes * per
  BY DEF num_irqs
<1>7. IrqAt(r, offset, p) = first + q
  BY DEF IrqAt
<1>8. Place(a, first + q, p % w) = 8 * af + (first + q) * w + (p % w)
  <2>1. Width(a.field) = w
    BY <1>1
  <2> HIDE DEF w, first, q, af
  <2> QED
    BY <2>1 DEF Place, af
<1> HIDE DEF w, base, max, first, num, q, per, rf, rl, af
<1>9. first + q \in base .. max - 1
  <2>1. first >= base
    BY <1>1, <1>2, <1>5
  <2>2. first + q < max
    BY <1>1, <1>2, <1>3, <1>4, <1>5, <1>6
  <2> QED
    BY <1>1, <1>4, <1>5, <2>1, <2>2
<1>10. 8 * af + (first + q) * w + (p % w) = 8 * offset + p
  <2>1. p % w \in Int
    BY <1>2, <1>4
  <2> DEFINE m == p % w
  <2>2. m \in Int /\ p = q * w + m
    BY <2>1, <1>4
  <2>3. 8 * af + first * w = 8 * offset
    <3>1. rf \in Nat /\ af \in Nat /\ base \in Nat /\ 8 * rf = 8 * af + base * w
      BY <1>1
    <3> QED
      BY <1>2, <1>5, <3>1, AccessStart
  <2>4. 8 * af + (first + q) * w + m = 8 * offset + p
    <3>1. (first + q) * w = first * w + q * w
      BY <1>2, <1>4, <1>5
    <3>2. first * w \in Nat /\ q * w \in Nat /\ af \in Nat
      BY <1>1, <1>2, <1>4, <1>5
    <3> DEFINE fw == first * w
               qw == q * w
    <3>3. /\ 8 * af + fw = 8 * offset /\ p = qw + m
          /\ fw \in Nat /\ qw \in Nat /\ m \in Int /\ af \in Nat /\ offset \in Nat
      BY <1>5, <2>2, <2>3, <3>2
    <3> HIDE DEF fw, qw
    <3>4. 8 * af + (fw + qw) + m = 8 * offset + p
      BY <3>3
    <3> QED
      BY <3>1, <3>4 DEF fw, qw
  <2> QED
    BY <2>4 DEF m
<1> QED
  BY <1>3, <1>4, <1>7, <1>8, <1>9, <1>10 DEF w, base, max

(* The other way: every bit in the accessed bytes has a position. *)
LEMMA PlacePosition ==
  ASSUME NEW frame \in Frame, NEW r, NEW a, Decoded(frame, r, a), Ends(frame, r, a),
         NEW offset \in r.first .. r.last, NEW bytes \in {1, 2, 4}, offset % bytes = 0,
         NEW n \in Number(frame), NEW b \in 0 .. Width(r.field) - 1,
         Place(a, n, b) \in 8 * offset .. 8 * (offset + bytes) - 1,
         NEW p, p = Place(a, n, b) - 8 * offset
  PROVE  /\ p \in Positions(r, offset, bytes) /\ IrqAt(r, offset, p) = n
         /\ p % Width(r.field) = b /\ n \in IrqBase(r) .. IrqMax(r) - 1
<1> DEFINE w == Width(r.field)
           base == IrqBase(r)
           per == r.per
           rf == r.first
           rl == r.last
           af == a.first
           max == IrqMax(r)
           first == first_irq_accessed(r, offset)
           num == num_irqs(r, offset, bytes)
<1>1. /\ rf \in Nat /\ rl \in Nat /\ af \in Nat /\ base \in Nat /\ max \in Nat
      /\ 8 * rf = 8 * af + base * w /\ a.field = r.field /\ offset \in rf .. rl
  BY GicRegsAssumption, SMTT(30) DEF Decoded, Ends
<1>2. \/ w = 1 /\ per = 8
      \/ w = 2 /\ per = 4
      \/ w = 8 /\ per = 1
  BY DEF Decoded
<1>3. n \in Nat
  BY DEF Number
<1>4. first = (offset - rf) * per + base /\ first \in Nat /\ offset \in Nat
  BY <1>1, <1>2 DEF first_irq_accessed
<1>5. num = IF first >= max THEN 0
            ELSE IF first + bytes * per > max THEN max - first ELSE bytes * per
  BY DEF num_irqs
<1>6. Place(a, n, b) = 8 * af + n * w + b
  <2>1. Width(a.field) = w
    BY <1>1
  <2> HIDE DEF w, af
  <2> QED
    BY <2>1 DEF Place, af
<1>7. \/ max = Configured /\ frame = "GICD"
      \/ 8 * (rl + 1) = 8 * af + max * w /\ rl % 4 = 3
  BY DEF Ends
<1>8. b \in 0 .. w - 1
  OBVIOUS
<1> HIDE DEF w, base, max, first, num, per, rf, rl, af
<1>9. p \in 0 .. 8 * bytes - 1 /\ 8 * af + n * w + b = 8 * offset + p
  <2>1. n * w \in Nat /\ b \in Nat
    BY <1>2, <1>3, <1>8
  <2> DEFINE nw == n * w
  <2>2. 8 * af + nw + b \in 8 * offset .. 8 * (offset + bytes) - 1
    BY <1>6
  <2>3. p = (8 * af + nw + b) - 8 * offset
    BY <1>6
  <2> HIDE DEF nw
  <2>4. p \in 0 .. 8 * bytes - 1 /\ 8 * af + nw + b = 8 * offset + p
    BY <1>1, <1>4, <2>1, <2>2, <2>3 DEF nw
  <2> QED
    BY <2>4 DEF nw
<1>10. n >= first /\ p = (n - first) * w + b
  <2>1. 8 * af + first * w = 8 * offset
    <3>1. rf \in Nat /\ af \in Nat /\ base \in Nat /\ 8 * rf = 8 * af + base * w
      BY <1>1
    <3> QED
      <4>1. CASE w = 1 /\ per = 8
        BY <1>4, <3>1, <4>1
      <4>2. CASE w = 2 /\ per = 4
        BY <1>4, <3>1, <4>2
      <4>3. CASE w = 8 /\ per = 1
        BY <1>4, <3>1, <4>3
      <4> QED
        BY <1>2, <4>1, <4>2, <4>3
  <2>2. n * w + b = first * w + p /\ b \in 0 .. w - 1 /\ p \in Nat /\ b \in Nat
    BY <1>1, <1>2, <1>3, <1>4, <1>8, <1>9, <2>1
  <2> QED
    BY <1>2, <1>3, <1>4, <2>2
<1>11. p \div w = n - first /\ p % w = b
  <2> DEFINE d == n - first
  <2>1. d \in Nat /\ p = d * w + b /\ p \in Nat
    BY <1>3, <1>4, <1>9, <1>10
  <2> HIDE DEF d
  <2>2. p \div w = d /\ p % w = b
    BY <1>2, <1>8, <2>1, DivModUnique
  <2> QED
    BY <2>2 DEF d
<1>12. n < max
  <2>1. CASE max = Configured /\ frame = "GICD"
    BY <1>3, <2>1, GicRegsAssumption DEF Number
  <2>2. CASE 8 * (rl + 1) = 8 * af + max * w /\ rl % 4 = 3
    <3>1. offset + bytes <= rl + 1
      BY <1>1, <1>4, <2>2
    <3>2. n * w + b < max * w
      <4>1. 8 * af + n * w + b < 8 * (rl + 1)
        BY <1>1, <1>3, <1>4, <1>6, <1>8, <1>2, <3>1
      <4> QED
        BY <1>1, <1>2, <1>3, <1>8, <2>2, <4>1
    <3> QED
      BY <1>1, <1>2, <1>3, <1>8, <3>2
  <2> QED
    BY <1>7, <2>1, <2>2
<1>13. n - first < num
  <2>1. n - first < bytes * per
    BY <1>2, <1>3, <1>4, <1>8, <1>9, <1>10
  <2> QED
    BY <1>1, <1>2, <1>3, <1>4, <1>5, <1>10, <1>12, <2>1
<1>14. p \in Positions(r, offset, bytes)
  BY <1>9, <1>11, <1>13 DEF Positions, w, num
<1>15. IrqAt(r, offset, p) = n
  <2>1. IrqAt(r, offset, p) = first + (n - first)
    BY <1>11 DEF IrqAt, w, first
  <2> QED
    BY <1>3, <1>4, <2>1
<1>16. n \in base .. max - 1
  <2>1. first >= base
    BY <1>1, <1>2, <1>4
  <2> QED
    BY <1>1, <1>3, <1>4, <1>10, <1>12, <2>1
<1> QED
  BY <1>11, <1>14, <1>15, <1>16 DEF w, base, max

(* What else the table says: which registers the distributor ignores, and where
   those of the same field begin that it does not. *)
LEMMA RegisterRows ==
  ASSUME NEW frame \in Frame, NEW r \in RegistersOf(frame)
  PROVE  /\ r.effect \in {"store", "set", "clear", "ignore"}
         /\ r.effect = "ignore" =>
              /\ frame = "GICD"
              /\ \/ r.field = "edge" /\ IrqMax(r) = 16
                 \/ r.field = "target" /\ IrqMax(r) = 32
         /\ frame = "GICD" /\ r.field = "edge" /\ r.effect # "ignore" => IrqBase(r) \in {16, 32}
         /\ r.field = "target" /\ r.effect # "ignore" => IrqBase(r) = 32
         /\ r.field = "pending" => IrqBase(r) = 0 /\ r.effect \in {"set", "clear"}
         /\ frame = "GICD" /\ r.field = "active" /\ r.effect = "set" => r.last = 889
         /\ frame = "GICR" => IrqMax(r) \in {16, 32}
<1> USE DEF IrqMax, IrqBase, MAX_SGI, SPI_BASE, MAX_PPI
<1>1. CASE frame = "GICD"
  <2>1. DistributorRow(r)
    BY <1>1, DistributorRows DEF RegistersOf
  <2> QED
    BY <1>1, <2>1 DEF DistributorRow, Row
<1>2. CASE frame = "GICR"
  <2>1. RedistributorRow(r)
    BY <1>2, RedistributorRows DEF RegistersOf
  <2> QED
    BY <1>2, <2>1 DEF RedistributorRow, Row
<1> QED
  BY <1>1, <1>2 DEF Frame

(* Every bit of an interrupt has one name. *)
IrqBits(f) ==
  {c \in (0 .. NumVcpus) \X (0 .. Configured - 1) \X BitsOf(f) :
     \E v \in Owner : c[1] = Bank(v, c[2])}

FramesType ==
  /\ irq \in [Field -> SUBSET ((0 .. NumVcpus) \X (0 .. Configured - 1) \X (0 .. 7))]
  /\ \A f \in Field : irq[f] \subseteq IrqBits(f)
  /\ access.kind = "irq" =>
       /\ access.vcpu \in Owner /\ access.bytes \in {1, 2, 4}
       /\ access.offset \in Nat /\ access.offset % access.bytes = 0

(* The bit at a position, as the property sees it. *)
LEMMA PositionBit ==
  ASSUME NEW frame \in Frame, NEW r \in RegistersOf(frame), NEW v \in Owner,
         NEW offset \in r.first .. r.last, NEW bytes \in {1, 2, 4},
         NEW p \in Positions(r, offset, bytes)
  PROVE  \E n \in Number(frame), b \in 0 .. Width(r.field) - 1 :
           /\ BitAt(r, v, offset, p) = <<Bank(v, n), n, b>>
           /\ n = IrqAt(r, offset, p) /\ b = p % Width(r.field)
           /\ n \in IrqBase(r) .. IrqMax(r) - 1
           /\ Place(ArchOf(r), n, b) = 8 * offset + p /\ p \in 0 .. 8 * bytes - 1
<1> DEFINE n == IrqAt(r, offset, p)
           b == p % Width(r.field)
           a == ArchOf(r)
<1>1. Decoded(frame, r, a) /\ Ends(frame, r, a)
  BY RegisterDecoded
<1>2. /\ n \in IrqBase(r) .. IrqMax(r) - 1 /\ b \in 0 .. Width(r.field) - 1
      /\ Place(a, n, b) = 8 * offset + p /\ p \in 0 .. 8 * bytes - 1
  <2> HIDE DEF a
  <2> QED
    BY <1>1, PositionPlace
<1>3. n \in Number(frame)
  <2>1. IrqBase(r) \in Nat
    BY <1>1 DEF Decoded
  <2>2. IrqMax(r) \in Nat /\ IrqMax(r) <= Configured
    BY <1>1, <2>1, GicRegsAssumption DEF Ends
  <2>3. frame = "GICR" => IrqMax(r) <= 32
    BY RegisterRows
  <2> HIDE DEF n
  <2> QED
    BY <1>2, <2>1, <2>2, <2>3, GicRegsAssumption DEF Number, Frame, SPI_BASE, MAX_SGI, MAX_PPI
<1>4. BitAt(r, v, offset, p) = <<Bank(v, n), n, b>>
  BY DEF BitAt
<1> QED
  BY <1>2, <1>3, <1>4

LEMMA BitPosition ==
  ASSUME NEW frame \in Frame, NEW r \in RegistersOf(frame), NEW v \in Owner,
         NEW offset \in r.first .. r.last, NEW bytes \in {1, 2, 4}, offset % bytes = 0,
         NEW n \in Number(frame), NEW b \in 0 .. Width(r.field) - 1,
         Place(ArchOf(r), n, b) \in 8 * offset .. 8 * (offset + bytes) - 1,
         NEW p, p = Place(ArchOf(r), n, b) - 8 * offset
  PROVE  /\ p \in Positions(r, offset, bytes) /\ BitAt(r, v, offset, p) = <<Bank(v, n), n, b>>
         /\ p % Width(r.field) = b /\ n \in IrqBase(r) .. IrqMax(r) - 1
<1> DEFINE a == ArchOf(r)
<1>1. Decoded(frame, r, a) /\ Ends(frame, r, a)
  BY RegisterDecoded
<1> HIDE DEF a
<1>2. Place(a, n, b) \in 8 * offset .. 8 * (offset + bytes) - 1 /\ p = Place(a, n, b) - 8 * offset
  BY DEF a
<1>3. /\ p \in Positions(r, offset, bytes) /\ IrqAt(r, offset, p) = n
      /\ p % Width(r.field) = b /\ n \in IrqBase(r) .. IrqMax(r) - 1
  BY <1>1, <1>2, PlacePosition
<1> QED
  BY <1>3 DEF BitAt

(* The register of the architecture behind an accessed register of the code is
   the only one at that offset. *)
LEMMA ActsOnOne ==
  ASSUME NEW frame \in Frame, NEW r \in RegistersOf(frame), NEW v, NEW bytes, NEW x,
         NEW offset \in r.first .. r.last
  PROVE  LET acc == Access("irq", frame, v, offset, bytes, x)
         IN  /\ \A f \in Field : Acted(f, acc) = IF f = r.field /\ Allowed(frame, r) THEN {ArchOf(r)} ELSE {}
             /\ ~Allowed(frame, r) => r.field = "pending"
<1> DEFINE a == ArchOf(r)
           acc == Access("irq", frame, v, offset, bytes, x)
<1>1. /\ a \in Architecture(frame) /\ a.field = r.field /\ offset \in Extent(a, frame)
  BY RegisterDecoded DEF Decoded
<1>2. acc.frame = frame /\ acc.offset = offset
  BY DEF Access
<1>3. a.effect = IF r.effect = "ignore" THEN "store" ELSE r.effect
  BY DEF ArchOf
<1> HIDE DEF a, acc
<1>4. ASSUME NEW b \in Architecture(frame), offset \in Extent(b, frame)
      PROVE  b = a
  BY <1>1, <1>4, ExtentsApart
<1>5. Hole(a, acc) <=> ~Allowed(frame, r)
  <2>1. ~(frame = "GICD" /\ a.field = "active" /\ a.effect = "set" /\ offset > 889)
    <3> SUFFICES ASSUME frame = "GICD", a.field = "active", a.effect = "set"
                 PROVE  ~(offset > 889)
      OBVIOUS
    <3>1. r.effect = "set"
      BY <1>3
    <3>2. r.last = 889
      BY <1>1, <3>1, RegisterRows
    <3>3. r.first \in Nat
      BY RegisterDecoded DEF Decoded
    <3> QED
      BY <3>2, <3>3
  <2> QED
    BY <1>1, <1>2, <2>1 DEF Hole, Allowed
<1>6. \A f \in Field : Acted(f, acc) = IF f = r.field /\ Allowed(frame, r) THEN {a} ELSE {}
  BY <1>1, <1>2, <1>4, <1>5 DEF Acted
<1> QED
  BY <1>6 DEF Allowed, a, acc

LEMMA BitsOfWidth ==
  ASSUME NEW f \in Field
  PROVE  /\ BitsOf(f) = {b \in 0 .. Width(f) - 1 : f = "edge" => b % 2 = 1}
         /\ BitsOf(f) \subseteq 0 .. 7
<1>1. CASE f = "edge"
  <2>1. Width(f) = 2
    BY <1>1 DEF Width
  <2>2. {b \in 0 .. 1 : b % 2 = 1} = {1}
    OBVIOUS
  <2> QED
    BY <1>1, <2>1, <2>2 DEF BitsOf
<1>2. CASE f # "edge"
  <2>1. Width(f) \in {1, 8}
    BY <1>2 DEF Width, Field
  <2> QED
    BY <1>2, <2>1 DEF BitsOf
<1> QED
  BY <1>1, <1>2

LEMMA KeptBit ==
  ASSUME NEW frame \in Frame, NEW r \in RegistersOf(frame), NEW p \in Nat
  PROVE  /\ Kept(r, p) <=> p % Width(r.field) \in BitsOf(r.field)
         /\ r.field \in Field /\ Width(r.field) \in {1, 2, 8}
<1>1. r.field \in Field
  BY RegisterDecoded DEF Decoded
<1>2. Width(r.field) \in {1, 2, 8} /\ (r.field = "edge" <=> Width(r.field) = 2)
  BY <1>1 DEF Field, Width
<1>3. p % Width(r.field) \in 0 .. Width(r.field) - 1
  BY <1>2, DivMod
<1>4. CASE r.field = "edge"
  <2>1. p % 2 \in {0, 1}
    OBVIOUS
  <2> QED
    BY <1>1, <1>2, <1>4, <2>1 DEF Kept, BitsOf
<1>5. CASE r.field # "edge"
  BY <1>1, <1>2, <1>3, <1>5 DEF Kept, BitsOf
<1> QED
  BY <1>1, <1>2, <1>4, <1>5

(* The bits that an access to r may write, all of them and those of the 1s. *)
AllBits(r, v, offset, bytes) ==
  {BitAt(r, v, offset, p) : p \in {q \in Positions(r, offset, bytes) : Kept(r, q)}}
OneBits(frame, r, v, offset, bytes, x) ==
  {BitAt(r, v, offset, p) :
     p \in {q \in Positions(r, offset, bytes) : Kept(r, q)} \cap (x \ Dropped(frame, r, offset))}

(* Of the bits in its bytes, an access reaches each, and sets those of its 1s. *)
LEMMA TouchedWritten ==
  ASSUME NEW frame \in Frame, NEW r \in RegistersOf(frame), NEW v \in Owner,
         NEW offset \in r.first .. r.last, NEW bytes \in {1, 2, 4}, offset % bytes = 0, NEW x,
         Allowed(frame, r),
         NEW c \in Touched(r.field, Access("irq", frame, v, offset, bytes, x))
  PROVE  LET acc == Access("irq", frame, v, offset, bytes, x)
         IN  /\ c \in AllBits(r, v, offset, bytes)
             /\ c \in OneBits(frame, r, v, offset, bytes, x) <=> Ones(ArchOf(r), acc, c[2], c[3])
             /\ r.effect # "ignore"
<1> DEFINE acc == Access("irq", frame, v, offset, bytes, x)
           a == ArchOf(r)
           w == Width(r.field)
<1>1. /\ acc.frame = frame /\ acc.vcpu = v /\ acc.offset = offset /\ acc.bytes = bytes
      /\ acc.value = x
  BY DEF Access
<1>2. a.field = r.field /\ r.field \in Field
  BY RegisterDecoded DEF Decoded
<1>3. Acted(r.field, acc) = {a}
  BY <1>2, ActsOnOne
<1> HIDE DEF acc
<1>4. PICK n \in Number(frame), b \in BitsOf(r.field) :
        ~ReadOnly(a, acc, n) /\ Hit(a, acc, n, b) /\ c = <<Bank(v, n), n, b>>
  <2>1. c \in Touched(r.field, acc)
    BY DEF acc
  <2> HIDE DEF a
  <2> QED
    BY <1>1, <1>3, <2>1 DEF Touched
<1>5. Place(a, n, b) \in 8 * offset .. 8 * (offset + bytes) - 1 /\ b \in 0 .. w - 1
  BY <1>1, <1>2, <1>4, BitsOfWidth DEF Hit
<1> DEFINE p == Place(a, n, b) - 8 * offset
<1>6. /\ p \in Positions(r, offset, bytes) /\ BitAt(r, v, offset, p) = c
      /\ p % w = b /\ n \in IrqBase(r) .. IrqMax(r) - 1
  BY <1>4, <1>5, BitPosition
<1>7. p \in Nat
  BY <1>6 DEF Positions
<1>8. Kept(r, p)
  BY <1>4, <1>6, <1>7, KeptBit
<1>9. ASSUME NEW q \in Positions(r, offset, bytes), BitAt(r, v, offset, q) = c
      PROVE  q = p
  <2>1. PICK m \in Number(frame), e \in 0 .. w - 1 :
          BitAt(r, v, offset, q) = <<Bank(v, m), m, e>> /\ Place(a, m, e) = 8 * offset + q
    BY PositionBit
  <2>2. m = n /\ e = b
    BY <1>4, <1>9, <2>1
  <2>3. q \in Nat
    BY DEF Positions
  <2>4. offset \in Int
    BY RegisterDecoded DEF Decoded
  <2> QED
    BY <2>1, <2>2, <2>3, <2>4
<1>10. r.effect # "ignore"
  <2> SUFFICES ASSUME r.effect = "ignore"
               PROVE  FALSE
    OBVIOUS
  <2>1. frame = "GICD" /\ ((r.field = "edge" /\ IrqMax(r) = 16) \/ (r.field = "target" /\ IrqMax(r) = 32))
    BY RegisterRows
  <2>2. IrqBase(r) \in Nat
    BY RegisterDecoded DEF Decoded
  <2> QED
    BY <1>1, <1>2, <1>4, <1>6, <2>1, <2>2 DEF ReadOnly, MAX_SGI, MAX_PPI, SPI_BASE
<1>11. p \notin Dropped(frame, r, offset)
  <2> SUFFICES ASSUME frame = "GICD", r.field = "pending", offset = r.first, p \in 0 .. MAX_SGI - 1
               PROVE  FALSE
    BY DEF Dropped
  <2>1. Width(r.field) = 1 /\ IrqBase(r) = 0
    BY RegisterRows DEF Width
  <2>2. 8 * r.first = 8 * a.first + IrqBase(r) * Width(r.field) /\ a.first \in Nat /\ r.first \in Nat
    BY RegisterDecoded DEF Decoded
  <2>3. r.first = a.first
    <3> DEFINE rf == r.first
               af == a.first
    <3>1. 8 * rf = 8 * af + 0 * 1 /\ rf \in Nat /\ af \in Nat
      BY <2>1, <2>2
    <3> HIDE DEF rf, af
    <3>2. rf = af
      BY <3>1
    <3> QED
      BY <3>2 DEF rf, af
  <2>4. b = 0
    BY <1>5, <2>1
  <2>5. Place(a, n, b) = 8 * a.first + n * 1 + 0
    BY <1>2, <2>1, <2>4 DEF Place
  <2>6. n < 16
    <3> DEFINE af == a.first
    <3>1. p = (8 * af + n * 1 + 0) - 8 * af
      BY <2>3, <2>5
    <3>2. af \in Nat /\ n \in Nat /\ p \in 0 .. 15
      BY <2>2 DEF Number, MAX_SGI
    <3> HIDE DEF af, p
    <3> QED
      BY <3>1, <3>2
  <2> QED
    BY <1>1, <1>2, <1>4, <2>3, <2>6 DEF ReadOnly, MAX_SGI
<1>12. c[2] = n /\ c[3] = b
  BY <1>4
<1>13. Ones(a, acc, c[2], c[3]) <=> p \in x
  BY <1>1, <1>12 DEF Ones
<1> HIDE DEF a, p, w
<1>14. c \in AllBits(r, v, offset, bytes)
  BY <1>6, <1>8 DEF AllBits
<1>15. c \in OneBits(frame, r, v, offset, bytes, x) <=> p \in x
  BY <1>6, <1>8, <1>9, <1>11 DEF OneBits
<1> QED
  BY <1>10, <1>13, <1>14, <1>15 DEF acc, a

(* and it reaches nothing else. *)
LEMMA WrittenTouched ==
  ASSUME NEW frame \in Frame, NEW r \in RegistersOf(frame), NEW v \in Owner,
         NEW offset \in r.first .. r.last, NEW bytes \in {1, 2, 4}, NEW x,
         Allowed(frame, r), r.effect # "ignore", NEW c
  PROVE  LET acc == Access("irq", frame, v, offset, bytes, x)
         IN  /\ c \in OneBits(frame, r, v, offset, bytes, x) => c \in Touched(r.field, acc)
             /\ c \in AllBits(r, v, offset, bytes) /\ r.effect = "store" => c \in Touched(r.field, acc)
<1> DEFINE acc == Access("irq", frame, v, offset, bytes, x)
           a == ArchOf(r)
           w == Width(r.field)
<1>1. /\ acc.frame = frame /\ acc.vcpu = v /\ acc.offset = offset /\ acc.bytes = bytes
      /\ acc.value = x
  BY DEF Access
<1>2. a.field = r.field /\ r.field \in Field
  BY RegisterDecoded DEF Decoded
<1>3. Acted(r.field, acc) = {a}
  BY <1>2, ActsOnOne
<1> HIDE DEF acc
<1>4. ASSUME NEW p \in Positions(r, offset, bytes), Kept(r, p), BitAt(r, v, offset, p) = c,
             p \notin Dropped(frame, r, offset) \/ r.effect = "store"
      PROVE  c \in Touched(r.field, acc)
  <2>1. PICK n \in Number(frame), b \in 0 .. w - 1 :
          /\ BitAt(r, v, offset, p) = <<Bank(v, n), n, b>> /\ b = p % w
          /\ n \in IrqBase(r) .. IrqMax(r) - 1
          /\ Place(a, n, b) = 8 * offset + p /\ p \in 0 .. 8 * bytes - 1
    BY PositionBit
  <2>2. b \in BitsOf(r.field)
    BY <1>4, <2>1, KeptBit
  <2>3. offset \in Nat
    BY RegisterDecoded DEF Decoded
  <2>4. Hit(a, acc, n, b)
    <3>1. 8 * offset + p \in 8 * offset .. 8 * (offset + bytes) - 1
      BY <2>1, <2>3
    <3> QED
      BY <1>1, <2>1, <3>1 DEF Hit
  <2>5. ~ReadOnly(a, acc, n)
    <3>1. CASE frame = "GICD" /\ r.field = "edge"
      <4>1. IrqBase(r) \in {16, 32}
        BY <3>1, RegisterRows
      <4> QED
        BY <1>1, <1>2, <2>1, <3>1, <4>1 DEF ReadOnly, MAX_SGI
    <3>2. CASE r.field = "target"
      <4>1. IrqBase(r) = 32
        BY <3>2, RegisterRows
      <4> QED
        BY <1>1, <1>2, <2>1, <3>2, <4>1 DEF ReadOnly, SPI_BASE, MAX_SGI, MAX_PPI
    <3>3. CASE frame = "GICD" /\ r.field = "pending"
      <4> SUFFICES ASSUME n < MAX_SGI, offset = a.first
                   PROVE  FALSE
        BY <1>1, <1>2, <3>3 DEF ReadOnly
      <4>1. IrqBase(r) = 0 /\ r.effect # "store" /\ Width(r.field) = 1
        BY <3>3, RegisterRows DEF Width
      <4>2. 8 * r.first = 8 * a.first + IrqBase(r) * Width(r.field) /\ a.first \in Nat /\ r.first \in Nat
        BY RegisterDecoded DEF Decoded
      <4> DEFINE rf == r.first
                 af == a.first
      <4>3. 8 * rf = 8 * af + 0 * 1 /\ rf \in Nat /\ af \in Nat
        BY <4>1, <4>2
      <4>4. Place(a, n, b) = 8 * af + n * 1 + b
        BY <1>2, <4>1 DEF Place
      <4>5. b = 0 /\ n \in Nat /\ n < 16 /\ p \in Nat
        BY <2>1, <4>1 DEF Number, MAX_SGI
      <4>6. 8 * af + n * 1 + b = 8 * af + p
        BY <2>1, <4>4
      <4> HIDE DEF rf, af
      <4>7. rf = af /\ p \in 0 .. 15
        BY <4>3, <4>5, <4>6
      <4>8. p \in Dropped(frame, r, offset)
        BY <3>3, <4>7 DEF Dropped, MAX_SGI, rf, af
      <4> QED
        BY <1>4, <4>1, <4>8
    <3> QED
      BY <1>1, <1>2, <3>1, <3>2, <3>3 DEF ReadOnly
  <2> HIDE DEF a
  <2> DEFINE at(e, k) == {<<Bank(acc.vcpu, m), m, k>> :
                            m \in {i \in Number(acc.frame) : ~ReadOnly(e, acc, i) /\ Hit(e, acc, i, k)}}
  <2>6. c \in at(a, b)
    BY <1>1, <1>4, <2>1, <2>4, <2>5
  <2>7. a \in Acted(r.field, acc)
    BY <1>3
  <2>8. Touched(r.field, acc) = UNION {at(e, k) : e \in Acted(r.field, acc), k \in BitsOf(r.field)}
    BY DEF Touched
  <2> HIDE DEF at
  <2> QED
    BY <2>2, <2>6, <2>7, <2>8
<1> QED
  BY <1>4 DEF OneBits, AllBits, acc

LEMMA OnesTyped ==
  ASSUME NEW frame \in Frame, NEW r \in RegistersOf(frame), NEW v \in Owner,
         NEW offset \in r.first .. r.last, NEW bytes \in {1, 2, 4}, NEW x
  PROVE  OneBits(frame, r, v, offset, bytes, x) \subseteq IrqBits(r.field)
<1> SUFFICES ASSUME NEW p \in Positions(r, offset, bytes), Kept(r, p)
             PROVE  BitAt(r, v, offset, p) \in IrqBits(r.field)
  BY DEF OneBits
<1>1. PICK n \in Number(frame), b \in 0 .. Width(r.field) - 1 :
        BitAt(r, v, offset, p) = <<Bank(v, n), n, b>> /\ b = p % Width(r.field)
  BY PositionBit
<1>2. p \in Nat
  BY DEF Positions
<1>3. b \in BitsOf(r.field)
  BY <1>1, <1>2, KeptBit
<1>4. n \in 0 .. Configured - 1
  BY GicRegsAssumption DEF Number, SPI_BASE, MAX_SGI, MAX_PPI
<1>5. Bank(v, n) \in 0 .. NumVcpus
  BY GicRegsAssumption DEF Bank, Owner, Shared
<1> QED
  BY <1>1, <1>3, <1>4, <1>5 DEF IrqBits

(* One write, of any size at any offset. *)
LEMMA WriteExact ==
  ASSUME FramesType, NEW frame \in Frame, NEW v \in Owner, NEW offset \in Int, NEW bytes \in {1, 2, 4},
         NEW x, offset % bytes = 0, Write(frame, v, offset, bytes, x)
  PROVE  FramesType' /\ OwnFieldsOnly
<1> DEFINE acc == Access("irq", frame, v, offset, bytes, x)
<1>1. PICK r \in RegistersAt(frame, offset) :
        IF Allowed(frame, r) THEN WriteIrqs(frame, v, r, offset, bytes, x) ELSE UNCHANGED irq
  BY DEF Write
<1>2. access' = acc /\ UNCHANGED ctlr
  BY DEF Write
<1>3. r \in RegistersOf(frame) /\ r.first <= offset /\ offset <= r.last
  BY DEF RegistersAt
<1>4. /\ r.field \in Field /\ r.first \in Nat /\ r.last \in Nat
  BY <1>3, RegisterDecoded DEF Decoded
<1>5. offset \in r.first .. r.last /\ offset \in Nat
  BY <1>3, <1>4
<1> DEFINE ones == OneBits(frame, r, v, offset, bytes, x)
           all == AllBits(r, v, offset, bytes)
<1>6. \A f \in Field : Acted(f, acc) = IF f = r.field /\ Allowed(frame, r) THEN {ArchOf(r)} ELSE {}
  BY <1>3, <1>5, ActsOnOne
<1>7. ASSUME NEW f \in Field, ~(f = r.field /\ Allowed(frame, r))
      PROVE  Acted(f, acc) = {} /\ Touched(f, acc) = {}
  BY <1>6, <1>7 DEF Touched
<1>8. \A f \in Field : f # r.field => irq'[f] = irq[f]
  BY <1>1 DEF FramesType, WriteIrqs
<1>9. ~Allowed(frame, r) => irq' = irq
  BY <1>1
<1>10. Allowed(frame, r) =>
         irq'[r.field] = CASE r.effect = "store" -> (irq[r.field] \ all) \cup ones
                           [] r.effect = "set" -> irq[r.field] \cup ones
                           [] r.effect = "clear" -> irq[r.field] \ ones
                           [] r.effect = "ignore" -> irq[r.field]
  BY <1>1, <1>4 DEF FramesType, WriteIrqs, OneBits, AllBits
<1>11. r.effect \in {"store", "set", "clear", "ignore"}
  BY <1>3, RegisterRows
<1> HIDE DEF ones, all
<1>12. FramesType'
  <2>1. ones \subseteq IrqBits(r.field)
    BY <1>3, <1>5, OnesTyped DEF ones
  <2>2. \A f \in Field : irq'[f] \subseteq IrqBits(f)
    BY <1>8, <1>9, <1>10, <1>11, <2>1 DEF FramesType
  <2>3. \A f \in Field : IrqBits(f) \subseteq (0 .. NumVcpus) \X (0 .. Configured - 1) \X (0 .. 7)
    BY BitsOfWidth DEF IrqBits
  <2>4. irq' = [f \in Field |-> irq'[f]]
    BY <1>1, <1>9 DEF FramesType, WriteIrqs
  <2>5. irq' \in [Field -> SUBSET ((0 .. NumVcpus) \X (0 .. Configured - 1) \X (0 .. 7))]
    BY <2>2, <2>3, <2>4
  <2>6. /\ access'.vcpu = v /\ access'.bytes = bytes /\ access'.offset = offset
    BY <1>2 DEF Access
  <2> QED
    BY <1>5, <2>2, <2>5, <2>6 DEF FramesType, IrqBits
<1>13. OwnFieldsOnly
  <2> SUFFICES ASSUME NEW f \in Field
               PROVE  /\ (irq[f] \ irq'[f]) \cup (irq'[f] \ irq[f]) \subseteq Touched(f, acc)
                      /\ \A a \in Acted(f, acc), c \in Touched(f, acc) :
                           LET one == Ones(a, acc, c[2], c[3])
                           IN  c \in irq'[f] <=> \/ one /\ a.effect # "clear"
                                                 \/ c \in irq[f] /\ ~one /\ a.effect # "store"
                                                 \/ c \in irq[f] /\ one /\ a.effect = "set"
    BY <1>2 DEF OwnFieldsOnly
  <2> HIDE DEF acc
  <2>1. CASE ~(f = r.field /\ Allowed(frame, r))
    BY <1>7, <1>8, <1>9, <2>1
  <2>2. CASE f = r.field /\ Allowed(frame, r)
    <3>1. Acted(f, acc) = {ArchOf(r)}
      BY <1>6, <2>2
    <3>2. ArchOf(r).effect = IF r.effect = "ignore" THEN "store" ELSE r.effect
      BY DEF ArchOf
    <3>3. ASSUME NEW c \in Touched(f, acc)
          PROVE  /\ c \in all /\ (c \in ones <=> Ones(ArchOf(r), acc, c[2], c[3]))
                 /\ r.effect # "ignore"
      BY <1>3, <1>5, <2>2, TouchedWritten DEF acc, ones, all
    <3>4. ASSUME NEW c, r.effect # "ignore"
          PROVE  /\ c \in ones => c \in Touched(f, acc)
                 /\ c \in all /\ r.effect = "store" => c \in Touched(f, acc)
      BY <1>3, <1>5, <2>2, <3>4, WrittenTouched DEF acc, ones, all
    <3> HIDE DEF acc
    <3>5. (irq[f] \ irq'[f]) \cup (irq'[f] \ irq[f]) \subseteq Touched(f, acc)
      BY <1>10, <1>11, <2>2, <3>4
    <3>6. ASSUME NEW c \in Touched(f, acc)
          PROVE  LET one == Ones(ArchOf(r), acc, c[2], c[3])
                 IN  c \in irq'[f] <=> \/ one /\ ArchOf(r).effect # "clear"
                                       \/ c \in irq[f] /\ ~one /\ ArchOf(r).effect # "store"
                                       \/ c \in irq[f] /\ one /\ ArchOf(r).effect = "set"
      BY <1>10, <1>11, <2>2, <3>2, <3>3
    <3> QED
      BY <3>1, <3>5, <3>6
  <2> QED
    BY <2>1, <2>2
<1> QED
  BY <1>12, <1>13

LEMMA ProbesAreOffsets ==
  ASSUME NEW frame \in Frame
  PROVE  Probes(frame) \subseteq Int
<1> SUFFICES ASSUME NEW r \in RegistersOf(frame)
             PROVE  /\ {r.first + d : d \in {e \in Near : r.first + e <= r.last}} \subseteq Int
                    /\ {r.last - d : d \in {e \in Near : r.first + e <= r.last}} \subseteq Int
  BY DEF Probes
<1>1. r.first \in Int /\ r.last \in Int
  BY RegisterDecoded DEF Decoded
<1>2. \A d \in Near : r.first + d \in Int /\ r.last - d \in Int
  BY <1>1, GicRegsAssumption
<1> QED
  BY <1>2

LEMMA FramesInitial == RegsInit => FramesType
<1> SUFFICES ASSUME RegsInit
             PROVE  FramesType
  OBVIOUS
<1>1. access.kind # "irq"
  BY DEF RegsInit, NoAccess
<1>2. \A f \in Field : Marked(f) \subseteq IrqBits(f)
  <2> SUFFICES ASSUME NEW f \in Field, NEW v \in Owner, NEW n \in Watched,
                      NEW b \in 0 .. Width(f) - 1, f = "edge" => b = 1
               PROVE  <<Bank(v, n), n, b>> \in IrqBits(f)
    BY DEF Marked
  <2>1. b \in BitsOf(f)
    BY DEF BitsOf
  <2>2. Bank(v, n) \in 0 .. NumVcpus /\ n \in 0 .. Configured - 1
    BY GicRegsAssumption DEF Bank, Owner, Shared
  <2> QED
    BY <2>1, <2>2 DEF IrqBits
<1>3. \A f \in Field : IrqBits(f) \subseteq (0 .. NumVcpus) \X (0 .. Configured - 1) \X (0 .. 7)
  BY BitsOfWidth DEF IrqBits
<1>4. irq = [f \in Field |-> {}] \/ irq = [f \in Field |-> Marked(f)]
  BY DEF RegsInit
<1>5. \A f \in Field : irq[f] \subseteq IrqBits(f)
  BY <1>2, <1>4
<1>6. irq \in [Field -> SUBSET ((0 .. NumVcpus) \X (0 .. Configured - 1) \X (0 .. 7))]
  BY <1>3, <1>4, <1>5
<1> QED
  BY <1>1, <1>5, <1>6 DEF FramesType

LEMMA ResetExact ==
  ASSUME FramesType, ResetD
  PROVE  FramesType' /\ OwnFieldsOnly
<1>1. access'.kind = "reset"
  BY DEF ResetD, NoAccess
<1>2. \A f \in Field : irq'[f] =
        ResetIrq(f) \cup (IF f = "enable" THEN Owner \X (0 .. MAX_SGI - 1) \X {0} ELSE {})
  BY DEF ResetD
<1>3. \A f \in Field : irq'[f] \subseteq IrqBits(f)
  <2> SUFFICES ASSUME NEW f \in Field
               PROVE  irq'[f] \subseteq IrqBits(f)
    OBVIOUS
  <2> USE DEF Bank, Owner, Shared, SPI_BASE, MAX_SGI, MAX_PPI
  <2>1. Configured \in 33 .. 1020 /\ NumVcpus \in Nat \ {0}
    BY GicRegsAssumption
  <2>2. CASE f = "enable"
    <3>1. irq'[f] = Owner \X (0 .. 15) \X {0}
      BY <1>2, <2>2 DEF ResetIrq
    <3>2. 0 \in BitsOf(f)
      BY <2>2 DEF BitsOf, Width
    <3> QED
      BY <2>1, <3>1, <3>2 DEF IrqBits
  <2>3. CASE f = "target"
    <3>1. irq'[f] = {NumVcpus} \X (32 .. Configured - 1) \X {0}
      BY <1>2, <2>3 DEF ResetIrq
    <3>2. 0 \in BitsOf(f)
      BY <2>3 DEF BitsOf, Width
    <3>3. 0 \in Owner
      BY <2>1
    <3> QED
      BY <2>1, <3>1, <3>2, <3>3 DEF IrqBits
  <2>4. CASE f \notin {"enable", "target"}
    BY <1>2, <2>4 DEF ResetIrq, FramesType
  <2> QED
    BY <2>2, <2>3, <2>4
<1>4. \A f \in Field : IrqBits(f) \subseteq (0 .. NumVcpus) \X (0 .. Configured - 1) \X (0 .. 7)
  BY BitsOfWidth DEF IrqBits
<1>5. irq' = [f \in Field |-> irq'[f]]
  BY DEF ResetD
<1>6. irq' \in [Field -> SUBSET ((0 .. NumVcpus) \X (0 .. Configured - 1) \X (0 .. 7))]
  BY <1>3, <1>4, <1>5
<1> QED
  BY <1>1, <1>3, <1>6 DEF FramesType, OwnFieldsOnly, IrqBits

LEMMA FramesStep ==
  ASSUME FramesType, RegsNext
  PROVE  FramesType' /\ OwnFieldsOnly
<1>1. ASSUME NEW frame \in Frame, NEW v \in Owner, NEW bytes \in {1, 2, 4}, NEW x,
             NEW offset \in Probes(frame), offset % bytes = 0, Write(frame, v, offset, bytes, x)
      PROVE  FramesType' /\ OwnFieldsOnly
  BY <1>1, ProbesAreOffsets, WriteExact
<1>2. ASSUME UNCHANGED irq, access'.kind # "irq"
      PROVE  FramesType' /\ OwnFieldsOnly
  BY <1>2 DEF FramesType, OwnFieldsOnly, IrqBits
<1>3. ASSUME NEW v, NEW bytes, NEW x, NEW offset,
             WriteCtlrD(v, offset, bytes, x) \/ WriteWakerR(v, offset, bytes, x)
      PROVE  FramesType' /\ OwnFieldsOnly
  <2>1. UNCHANGED irq /\ access'.kind # "irq"
    BY <1>3 DEF WriteCtlrD, WriteWakerR, Access
  <2> QED
    BY <1>2, <2>1
<1>4. CASE ResetD
  BY <1>4, ResetExact
<1> QED
  BY <1>1, <1>3, <1>4 DEF RegsNext, Frame

(* What a VCPU reads of a register is what the bits at its place say. *)
LEMMA ReadExact ==
  ASSUME FramesType, access.kind = "irq", NEW frame \in Frame, NEW r \in RegistersOf(frame)
  PROVE  LET offset == r.first + (access.offset % 4)
             a == CHOOSE b \in Architecture(frame) :
                    b.field = r.field /\ offset \in Extent(b, frame)
             acc == [access EXCEPT !.offset = offset, !.frame = frame]
         IN  ReadBits(frame, access.vcpu, r, offset, access.bytes) =
               {Place(a, c[2], c[3]) - 8 * offset :
                  c \in {d \in irq[r.field] : d[1] \in {access.vcpu, Shared} /\ d[2] \in Number(frame)
                                              /\ Hit(a, acc, d[2], d[3])}}
<1> DEFINE offset == r.first + (access.offset % 4)
           v == access.vcpu
           bytes == access.bytes
           a == CHOOSE b \in Architecture(frame) :
                  b.field = r.field /\ offset \in Extent(b, frame)
           acc == [access EXCEPT !.offset = offset, !.frame = frame]
           seen == {d \in irq[r.field] : d[1] \in {v, Shared} /\ d[2] \in Number(frame)
                                         /\ Hit(a, acc, d[2], d[3])}
<1>1. v \in Owner /\ bytes \in {1, 2, 4} /\ access.offset \in Nat /\ access.offset % bytes = 0
  BY DEF FramesType
<1>2. /\ r.first \in Nat /\ r.last \in Nat /\ r.first % 4 = 0 /\ r.first + 3 <= r.last
      /\ r.field \in Field /\ ArchOf(r) \in Architecture(frame) /\ ArchOf(r).field = r.field
      /\ r.first .. r.last \subseteq Extent(ArchOf(r), frame)
  BY RegisterDecoded DEF Decoded
<1>3. offset \in r.first .. r.last /\ offset \in Nat /\ offset % bytes = 0
  <2> DEFINE o == access.offset
             rf == r.first
             rl == r.last
  <2>1. /\ o \in Nat /\ bytes \in {1, 2, 4} /\ o % bytes = 0
        /\ rf \in Nat /\ rl \in Nat /\ rf % 4 = 0 /\ rf + 3 <= rl
    BY <1>1, <1>2
  <2> HIDE DEF o, rf, rl, bytes
  <2>2. o % 4 \in 0 .. 3
    BY <2>1
  <2>3. rf + (o % 4) \in rf .. rl /\ rf + (o % 4) \in Nat
    BY <2>1, <2>2
  <2>4. (rf + (o % 4)) % bytes = 0
    BY <2>1
  <2> QED
    BY <2>3, <2>4 DEF o, rf, rl
<1>4. acc.offset = offset /\ acc.frame = frame /\ acc.bytes = bytes
  OBVIOUS
<1> HIDE DEF offset, acc
<1>5. a = ArchOf(r)
  <2>1. ArchOf(r).field = r.field /\ offset \in Extent(ArchOf(r), frame)
    BY <1>2, <1>3
  <2>2. a \in Architecture(frame) /\ offset \in Extent(a, frame)
    BY <1>2, <2>1
  <2> HIDE DEF a
  <2> QED
    BY <1>2, <2>1, <2>2, ExtentsApart
<1> HIDE DEF a, v, bytes
<1>6. ASSUME NEW p \in Positions(r, offset, bytes), BitAt(r, v, offset, p) \in irq[r.field]
      PROVE  \E c \in seen : p = Place(a, c[2], c[3]) - 8 * offset
  <2>1. PICK n \in Number(frame), b \in 0 .. Width(r.field) - 1 :
          /\ BitAt(r, v, offset, p) = <<Bank(v, n), n, b>>
          /\ Place(ArchOf(r), n, b) = 8 * offset + p /\ p \in 0 .. 8 * bytes - 1
    BY <1>1, <1>3, PositionBit
  <2> DEFINE c == <<Bank(v, n), n, b>>
  <2>2. c[1] \in {v, Shared} /\ c[2] = n /\ c[3] = b
    BY DEF Bank
  <2>3. Place(a, n, b) = 8 * offset + p
    BY <1>5, <2>1
  <2>4. Place(a, n, b) \in 8 * offset .. 8 * (offset + bytes) - 1
    BY <1>1, <1>3, <2>1, <2>3
  <2>5. Hit(a, acc, n, b)
    BY <1>4, <2>4 DEF Hit
  <2>6. c \in seen
    BY <1>6, <2>1, <2>2, <2>5
  <2>7. p = Place(a, n, b) - 8 * offset
    BY <1>3, <2>1, <2>3
  <2> HIDE DEF seen
  <2> QED
    BY <2>2, <2>6, <2>7
<1>7. ASSUME NEW c \in seen
      PROVE  LET p == Place(a, c[2], c[3]) - 8 * offset
             IN  p \in Positions(r, offset, bytes) /\ BitAt(r, v, offset, p) \in irq[r.field]
  <2>1. c \in IrqBits(r.field) /\ c \in irq[r.field] /\ c[1] \in {v, Shared} /\ c[2] \in Number(frame)
        /\ Hit(a, acc, c[2], c[3])
    BY <1>2 DEF FramesType
  <2>2. PICK u \in Owner : c[1] = Bank(u, c[2])
    BY <2>1 DEF IrqBits
  <2>3. c = <<c[1], c[2], c[3]>> /\ c[3] \in 0 .. Width(r.field) - 1
    BY <1>2, <2>1, BitsOfWidth DEF IrqBits
  <2>4. c[1] = Bank(v, c[2])
    BY <1>1, <2>1, <2>2, GicRegsAssumption DEF Bank, Owner, Shared
  <2>5. Place(ArchOf(r), c[2], c[3]) \in 8 * offset .. 8 * (offset + bytes) - 1
    BY <1>4, <1>5, <2>1 DEF Hit
  <2> DEFINE p == Place(ArchOf(r), c[2], c[3]) - 8 * offset
  <2>6. p \in Positions(r, offset, bytes) /\ BitAt(r, v, offset, p) = <<Bank(v, c[2]), c[2], c[3]>>
    BY <1>1, <1>3, <2>1, <2>3, <2>5, BitPosition
  <2> QED
    BY <1>5, <2>1, <2>3, <2>4, <2>6
<1>8. ReadBits(frame, v, r, offset, bytes) = {Place(a, c[2], c[3]) - 8 * offset : c \in seen}
  <2> HIDE DEF seen
  <2> QED
    BY <1>6, <1>7 DEF ReadBits
<1> QED
  BY <1>8 DEF offset, a, acc, v, bytes

(* GIC::mmio_write, mmio_read, for any number of interrupts and VCPUs, any values and
   any offset in the frames: an access writes the fields of interrupts that lie
   in its bytes and no other, and a VCPU reads back through either frame what
   its interrupts are configured to. *)
THEOREM FramesAreExact == RegistersSpec => FramesExact
<1>1. RegistersInit => FramesType
  BY FramesInitial DEF RegistersInit
<1>2. FramesType /\ [RegistersNext]_registersVars => FramesType' /\ [OwnFieldsOnly]_regsVars
  <2> SUFFICES ASSUME FramesType, [RegistersNext]_registersVars
               PROVE  FramesType' /\ [OwnFieldsOnly]_regsVars
    OBVIOUS
  <2>1. CASE RegsNext
    BY <2>1, FramesStep
  <2>2. CASE UNCHANGED regsVars
    BY <2>2 DEF regsVars, FramesType, IrqBits
  <2> QED
    BY <2>1, <2>2 DEF RegistersNext, registersVars
<1>3. FramesType => ReadsBack
  <2> SUFFICES ASSUME FramesType, access.kind = "irq", NEW frame \in Frame, NEW r \in Readable(frame)
               PROVE  LET offset == r.first + (access.offset % 4)
                          a == CHOOSE b \in Architecture(frame) :
                                 b.field = r.field /\ offset \in Extent(b, frame)
                          acc == [access EXCEPT !.offset = offset, !.frame = frame]
                      IN  ReadBits(frame, access.vcpu, r, offset, access.bytes) =
                            {Place(a, c[2], c[3]) - 8 * offset :
                               c \in {d \in irq[r.field] : d[1] \in {access.vcpu, Shared} /\ d[2] \in Number(frame)
                                                           /\ Hit(a, acc, d[2], d[3])}}
    BY DEF ReadsBack, Frame
  <2>1. r \in RegistersOf(frame)
    BY DEF Readable, ReadableD, ReadableR, RegistersOf
  <2> QED
    BY <2>1, ReadExact
<1> QED
  BY <1>1, <1>2, <1>3, PTL DEF RegistersSpec, FramesExact, WritesOwnFields

=============================================================================
