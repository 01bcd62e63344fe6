---------------------------- MODULE RoundupTheorems ----------------------------
(***************************************************************************)
(* The theorems about Roundup, for any number of VCPUs and other threads.  *)
(* The first part says what each kind of step preserves of the inductive   *)
(* invariant IInv.  The second adds the counters and puts the steps        *)
(* together: IInv is an invariant, and with it hold the type invariant,    *)
(* the ASSERTs, the exactness of the counters and the promise of           *)
(* roundup(), that no VCPU makes progress while it is held.                *)
(*                                                                         *)
(* The last part shows that Roundup implements StopTheWorld: a step of the *)
(* protocol starts or stops one VCPU at most, none that the roundup has    *)
(* recalled starts again before it is resumed, and a roundup returns when  *)
(* no VCPU makes progress.  And no wakeup of a VCPU is lost: what ends its *)
(* wait is still true, or its signal is set or about to be set by the      *)
(* thread that made it true.                                               *)
(***************************************************************************)
EXTENDS Roundup, FiniteSetTheorems, TLAPS

-----------------------------------------------------------------------------
(* The inductive invariant *)

OffLabel == {"off", "turn_on"}
OnLabel == {"check_paused", "turn_off", "be_read", "be_cas", "wait_resume",
            "vmm", "guest"}
DevLabel == {"idle", "ctl_recall", "ctl_switch_on", "irq_notify", "irq_recall",
             "irq_unblock"}

(* The state word of a VCPU says which part of its loop its thread is in. *)
VcpuLocal(v) ==
  \/ /\ pc[v] \in OffLabel
     /\ state[v] \in {"OFF", "OFF_ROUNDEDUP"}
  \/ /\ pc[v] \in OnLabel \/ ReturnsTo(v, "vmm")
     /\ state[v] \in {"ON", "ON_ROUNDEDUP"}
  \/ /\ \/ pc[v] \in EmulatingLabel \cup {"yield", "lock"}
        \/ ReturnsTo(v, "lock")
        \/ Critical(v)
     /\ state[v] \in {"EMULATE", "EMULATE_ROUNDEDUP"}

Local(t) ==
  /\ t \in VCPU => VcpuLocal(t)
  /\ t \in Ext => pc[t] \in {"idle", "lock"} \/ Critical(t)
  /\ t \in Dev => pc[t] \in DevLabel

LocalInv == \A t \in Thread : Local(t)

(* The part of TypeOK that the steps below need. *)
Ret == {"none", "check_paused", "vmm", "lock", "ru_cas"}

ControlType ==
  /\ pc \in [Thread -> Label]
  /\ ret \in [Thread -> Ret]
  /\ state \in [VCPU -> State]
  /\ i \in [Thread -> Nat]

(* The locals of the loops of roundup_all and resume_all. *)
Loop(t) ==
  /\ ~Rounding(t) /\ ~Resuming(t) => i[t] = 0
  /\ pc[t] \in {"ru_recall", "ru_unblock", "rs_sig"} => i[t] < N
  /\ ReturnsTo(t, "ru_cas") => i[t] >= 1
  /\ At(t, "er_store") => num_waiters[t] = vcpu_waiters

LoopInv == \A t \in Thread : Loop(t)

(* The owner of the mutex holds v in a ROUNDEDUP state (Marked, with the
   thread that does it named). *)
OwnerMarks(v) == owner \in Thread /\ MarkedBy(owner, v)

MarkInv == \A v \in VCPU : Roundedup(state[v]) <=> OwnerMarks(v)

(* A VCPU that the roundup has recalled is not in the guest, and is recalled
   again on its way there. *)
RecallDone(v) == OwnerMarks(v) /\ ~(At(owner, "ru_recall") /\ v = i[owner])

OnItsWayToGuest(v) == pc[v] \in EmulatingLabel \cup {"vmm"} \/ ReturnsTo(v, "vmm")

RecallInv ==
  \A v \in VCPU : RecallDone(v) => ~At(v, "guest") /\ (OnItsWayToGuest(v) => recalled[v])

(* Who reports that v has stopped: a VCPU that reports itself is marked, and
   one that the roundup reports is not emulating. *)
SelfReport(v) == At(v, "notify_sub") /\ ret[v] = "vmm"

OwnerReports(v) ==
  /\ owner \in Thread
  /\ \/ pc[owner] \in {"ru_recall", "ru_unblock"} /\ v = i[owner] /\ ~emulating[owner]
     \/ At(owner, "notify_sub") /\ ret[owner] = "ru_cas" /\ v + 1 = i[owner]

Report(v) ==
  /\ SelfReport(v) => OwnerMarks(v) /\ Stopping(owner)
  /\ OwnerReports(v) => ~Emulating(state[v]) /\ ~SelfReport(v)

ReportInv == \A v \in VCPU : Report(v)

(* A VCPU with nothing left to report, from the return of the roundup until
   the VCPU is resumed. *)
Quiet(v) ==
  /\ ~Progressing(v)
  /\ ~At(v, "yield")
  /\ ~(At(v, "notify_sub") /\ ret[v] \in {"lock", "vmm"})

QuietInv ==
  \A v \in VCPU :
    OwnerMarks(v) /\ (Holding(owner) \/ Resuming(owner)) => Quiet(v)

IInv ==
  /\ TypeOK
  /\ LocalInv
  /\ LoopInv
  /\ OneRoundup
  /\ MarkInv
  /\ RecallInv
  /\ ReportInv
  /\ QuietInv
  /\ CountersExact

-----------------------------------------------------------------------------
(* Steps.  A step outside the roundup leaves the owner of the mutex where it
   is; the others are Lock, which takes the mutex, and those of its owner. *)

OutsideStep(t) ==
  \/ NotifyStep(t) /\ ~Critical(t)
  \/ CallRoundup(t)
  \/ t \in VCPU /\ (VcpuStep(t) \/ VcpuChoice(t))
  \/ t \in Dev /\ (DevStep(t) \/ DevChoice(t))

OwnerStep(t) ==
  \/ NotifyStep(t) /\ Critical(t)
  \/ RoundupCas(t) \/ RoundupRecall(t) \/ RoundupUnblock(t)
  \/ RoundupAllDone(t) \/ RoundupTest(t) \/ RoundupWait(t)
  \/ ResumeStep(t) \/ Resume(t) \/ SignalNextWaiter(t)

OwnerSame ==
  /\ owner' = owner
  /\ owner \in Thread => /\ pc'[owner] = pc[owner]
                         /\ ret'[owner] = ret[owner]
                         /\ i'[owner] = i[owner]
                         /\ emulating'[owner] = emulating[owner]

-----------------------------------------------------------------------------
(* The steps *)

(* What a step that leaves the owner of _waiter_mutex where it is cannot
   change: the VCPUs it has marked and recalled, the reports it still owes,
   and the part of the roundup it is in. *)
LEMMA OwnerFrame ==
  ASSUME OwnerSame
  PROVE  /\ \A v \in VCPU : (OwnerMarks(v))' <=> OwnerMarks(v)
         /\ \A v \in VCPU : (RecallDone(v))' <=> RecallDone(v)
         /\ \A v \in VCPU : (OwnerReports(v))' <=> OwnerReports(v)
         /\ owner \in Thread => /\ (Stopping(owner))' <=> Stopping(owner)
                                /\ (Holding(owner))' <=> Holding(owner)
                                /\ (Resuming(owner))' <=> Resuming(owner)
BY DEF OwnerSame, OwnerMarks, MarkedBy, RecallDone, OwnerReports, Stopping,
       Rounding, Gathering, Holding, Resuming, ReturnsTo, At

(* How what the owner has done fits together: it reports only VCPUs it
   marked, marks them only between roundup_all and the end of resume_all,
   and has recalled all of them when the roundup returns. *)
LEMMA OwnerFacts ==
  ASSUME NEW v \in VCPU
  PROVE  /\ OwnerReports(v) => OwnerMarks(v) /\ Stopping(owner)
         /\ OwnerMarks(v) => owner \in Thread /\ (Stopping(owner) \/ Resuming(owner))
         /\ OwnerMarks(v) /\ (Holding(owner) \/ Resuming(owner)) => RecallDone(v)
BY NAssumption DEF OwnerReports, OwnerMarks, MarkedBy, RecallDone, Stopping,
                   Rounding, Gathering, Holding, Resuming, ReturnsTo, At, VCPU

(* A step outside the roundup is not a step of the thread that holds
   _waiter_mutex, and does not touch its locals. *)
LEMMA OwnerSameOutside ==
  ASSUME NEW t \in Thread, OutsideStep(t), ControlType,
         emulating \in [Thread -> BOOLEAN], OneRoundup
  PROVE  OwnerSame
<1> USE NAssumption, ThreadAssumption
    DEF Thread, ControlType, OneRoundup, OwnerSame, At, Goto, CallNotify,
        Clear, Sig, RecallBy, WeakRecallBy, Unyield, Unlock, cpuVars, countVars, loopVars,
        ReturnsTo, Critical, Stopping, Rounding, Gathering, Holding, Resuming,
        Label
<1>1. ASSUME NotifySub(t), ~Critical(t) PROVE OwnerSame
  BY <1>1 DEF NotifySub
<1>2. ASSUME NotifySig(t), ~Critical(t) PROVE OwnerSame
  BY <1>2 DEF NotifySig
<1>3. ASSUME t \in VCPU, WaitForSwitchOn(t) PROVE OwnerSame
  BY <1>3 DEF WaitForSwitchOn
<1>4. ASSUME t \in VCPU, TurnOn(t) PROVE OwnerSame
  BY <1>4 DEF TurnOn
<1>5. ASSUME t \in VCPU, CheckPaused(t) PROVE OwnerSame
  BY <1>5 DEF CheckPaused
<1>6. ASSUME t \in VCPU, TurnOff(t) PROVE OwnerSame
  BY <1>6 DEF TurnOff
<1>7. ASSUME t \in VCPU, BeginEmulationRead(t) PROVE OwnerSame
  BY <1>7 DEF BeginEmulationRead
<1>8. ASSUME t \in VCPU, BeginEmulationCas(t) PROVE OwnerSame
  BY <1>8 DEF BeginEmulationCas
<1>9. ASSUME t \in VCPU, WaitForResume(t) PROVE OwnerSame
  BY <1>9 DEF WaitForResume
<1>10. ASSUME t \in VCPU, EndEmulation(t) PROVE OwnerSame
  BY <1>10 DEF EndEmulation
<1>11. ASSUME t \in VCPU, EnterGuest(t) PROVE OwnerSame
  BY <1>11 DEF EnterGuest
<1>12. ASSUME t \in VCPU, WfiTest(t) PROVE OwnerSame
  BY <1>12 DEF WfiTest
<1>13. ASSUME t \in VCPU, Block(t) PROVE OwnerSame
  BY <1>13 DEF Block
<1>14. ASSUME t \in VCPU, BlockTimeout(t) PROVE OwnerSame
  BY <1>14 DEF BlockTimeout
<1>15. ASSUME t \in VCPU, Yield(t) PROVE OwnerSame
  BY <1>15 DEF Yield
<1>16. ASSUME t \in Dev, CtrlRecall(t) PROVE OwnerSame
  BY <1>16 DEF CtrlRecall
<1>17. ASSUME t \in Dev, CtrlSwitchOn(t) PROVE OwnerSame
  BY <1>17 DEF CtrlSwitchOn
<1>18. ASSUME t \in Dev, IrqNotify(t) PROVE OwnerSame
  BY <1>18 DEF IrqNotify
<1>19. ASSUME t \in Dev, IrqRecall(t) PROVE OwnerSame
  BY <1>19 DEF IrqRecall
<1>20. ASSUME t \in Dev, IrqUnblock(t) PROVE OwnerSame
  BY <1>20 DEF IrqUnblock
<1>21. ASSUME CallRoundup(t) PROVE OwnerSame
  BY <1>21 DEF CallRoundup
<1>22. ASSUME t \in VCPU, GuestExit(t) PROVE OwnerSame
  BY <1>22 DEF GuestExit
<1>23. ASSUME t \in VCPU, GuestAck(t) PROVE OwnerSame
  BY <1>23 DEF GuestAck
<1>24. ASSUME t \in VCPU, CallWaitForInterrupt(t) PROVE OwnerSame
  <2>1. PICK l \in {"wfi", "emulate_end", "wfi_timed"} : Goto(t, l)
    BY <1>24 DEF CallWaitForInterrupt
  <2>. QED BY <1>24, <2>1 DEF CallWaitForInterrupt
<1>25. ASSUME t \in VCPU, CallRoundupFromVcpu(t) PROVE OwnerSame
  BY <1>25 DEF CallRoundupFromVcpu
<1>26. ASSUME t \in Dev, CtrlFeatureOff(t) PROVE OwnerSame
  BY <1>26 DEF CtrlFeatureOff
<1>27. ASSUME t \in Dev, CtrlFeatureOn(t) PROVE OwnerSame
  BY <1>27 DEF CtrlFeatureOn
<1>28. ASSUME t \in Dev, RaiseInterrupt(t) PROVE OwnerSame
  BY <1>28 DEF RaiseInterrupt
<1>. QED
  BY <1>1, <1>2, <1>3, <1>4, <1>5, <1>6, <1>7, <1>8, <1>9, <1>10, <1>11, <1>12,
     <1>13, <1>14, <1>15, <1>16, <1>17, <1>18, <1>19, <1>20, <1>21, <1>22,
     <1>23, <1>24, <1>25, <1>26, <1>27, <1>28
     DEF OutsideStep, NotifyStep, VcpuStep, DevStep, VcpuChoice, DevChoice

(* The state word of a VCPU keeps naming the part of its loop its thread is
   in: steps outside the roundup. *)
LEMMA LocalOutside ==
  ASSUME NEW t \in Thread, OutsideStep(t), ControlType, LocalInv
  PROVE  LocalInv'
<1> USE NAssumption, ThreadAssumption
    DEF Thread, VCPU, ControlType, Ret, LocalInv, Local, VcpuLocal, At, Goto,
        CallNotify, Clear, Sig, RecallBy, WeakRecallBy, Unyield, Unlock, cpuVars, countVars,
        loopVars, ReturnsTo, Critical, Stopping, Rounding, Gathering, Holding,
        Resuming, EmulatingLabel, OffLabel, OnLabel, DevLabel, Label,
        Emulating, CanSwitchOn, CanSwitchOff, switch_state_to_on,
        switch_state_to_off, CanRoundup, switch_state_to_roundedup, CanResume,
        resume, Roundedup, State
<1>1. ASSUME NotifySub(t), ~Critical(t) PROVE LocalInv'
  <2> SUFFICES ASSUME NEW u \in Thread PROVE (Local(u))'
    OBVIOUS
  <2>1. CASE vcpus_progressing = 1 /\ u = t
    BY <1>1, <2>1 DEF NotifySub
  <2>2. CASE vcpus_progressing = 1 /\ u # t
    BY <1>1, <2>2 DEF NotifySub
  <2>3. CASE vcpus_progressing # 1 /\ u = t
    BY <1>1, <2>3 DEF NotifySub
  <2>4. CASE vcpus_progressing # 1 /\ u # t
    BY <1>1, <2>4 DEF NotifySub
  <2>. QED BY <2>1, <2>2, <2>3, <2>4
<1>2. ASSUME NotifySig(t), ~Critical(t) PROVE LocalInv'
  <2> SUFFICES ASSUME NEW u \in Thread PROVE (Local(u))'
    OBVIOUS
  <2>1. CASE u = t
    BY <1>2, <2>1 DEF NotifySig
  <2>2. CASE u # t
    BY <1>2, <2>2 DEF NotifySig
  <2>. QED BY <2>1, <2>2
<1>3. ASSUME t \in VCPU, WaitForSwitchOn(t) PROVE LocalInv'
  BY <1>3 DEF WaitForSwitchOn
<1>4. ASSUME t \in VCPU, TurnOn(t) PROVE LocalInv'
  BY <1>4 DEF TurnOn
<1>5. ASSUME t \in VCPU, CheckPaused(t) PROVE LocalInv'
  BY <1>5 DEF CheckPaused
<1>6. ASSUME t \in VCPU, TurnOff(t) PROVE LocalInv'
  BY <1>6 DEF TurnOff
<1>7. ASSUME t \in VCPU, BeginEmulationRead(t) PROVE LocalInv'
  BY <1>7 DEF BeginEmulationRead
<1>8. ASSUME t \in VCPU, BeginEmulationCas(t) PROVE LocalInv'
  <2> SUFFICES ASSUME NEW u \in Thread PROVE (Local(u))'
    OBVIOUS
  <2>1. CASE state[t] = "ON" /\ u = t
    BY <1>8, <2>1 DEF BeginEmulationCas
  <2>2. CASE state[t] = "ON" /\ u # t
    BY <1>8, <2>2 DEF BeginEmulationCas
  <2>3. CASE ~(state[t] = "ON") /\ u = t
    BY <1>8, <2>3 DEF BeginEmulationCas
  <2>4. CASE ~(state[t] = "ON") /\ u # t
    BY <1>8, <2>4 DEF BeginEmulationCas
  <2>. QED BY <2>1, <2>2, <2>3, <2>4
<1>9. ASSUME t \in VCPU, WaitForResume(t) PROVE LocalInv'
  BY <1>9 DEF WaitForResume
<1>10. ASSUME t \in VCPU, EndEmulation(t) PROVE LocalInv'
  BY <1>10 DEF EndEmulation
<1>11. ASSUME t \in VCPU, EnterGuest(t) PROVE LocalInv'
  BY <1>11 DEF EnterGuest
<1>12. ASSUME t \in VCPU, WfiTest(t) PROVE LocalInv'
  BY <1>12 DEF WfiTest
<1>13. ASSUME t \in VCPU, Block(t) PROVE LocalInv'
  <2> SUFFICES ASSUME NEW u \in Thread PROVE (Local(u))'
    OBVIOUS
  <2>1. CASE u = t
    BY <1>13, <2>1 DEF Block
  <2>2. CASE u # t
    BY <1>13, <2>2 DEF Block
  <2>. QED BY <2>1, <2>2
<1>14. ASSUME t \in VCPU, BlockTimeout(t) PROVE LocalInv'
  BY <1>14 DEF BlockTimeout
<1>15. ASSUME t \in VCPU, Yield(t) PROVE LocalInv'
  BY <1>15 DEF Yield
<1>16. ASSUME t \in Dev, CtrlRecall(t) PROVE LocalInv'
  <2> SUFFICES ASSUME NEW u \in Thread PROVE (Local(u))'
    OBVIOUS
  <2>1. CASE u = t
    BY <1>16, <2>1 DEF CtrlRecall
  <2>2. CASE u # t
    BY <1>16, <2>2 DEF CtrlRecall
  <2>. QED BY <2>1, <2>2
<1>17. ASSUME t \in Dev, CtrlSwitchOn(t) PROVE LocalInv'
  BY <1>17 DEF CtrlSwitchOn
<1>18. ASSUME t \in Dev, IrqNotify(t) PROVE LocalInv'
  BY <1>18 DEF IrqNotify
<1>19. ASSUME t \in Dev, IrqRecall(t) PROVE LocalInv'
  <2> SUFFICES ASSUME NEW u \in Thread PROVE (Local(u))'
    OBVIOUS
  <2>1. CASE u = t
    BY <1>19, <2>1 DEF IrqRecall
  <2>2. CASE u # t
    BY <1>19, <2>2 DEF IrqRecall
  <2>. QED BY <2>1, <2>2
<1>20. ASSUME t \in Dev, IrqUnblock(t) PROVE LocalInv'
  BY <1>20 DEF IrqUnblock
<1>21. ASSUME CallRoundup(t) PROVE LocalInv'
  BY <1>21 DEF CallRoundup
<1>22. ASSUME t \in VCPU, GuestExit(t) PROVE LocalInv'
  BY <1>22 DEF GuestExit
<1>23. ASSUME t \in VCPU, GuestAck(t) PROVE LocalInv'
  BY <1>23 DEF GuestAck
<1>24. ASSUME t \in VCPU, CallWaitForInterrupt(t) PROVE LocalInv'
  <2>1. PICK l \in {"wfi", "emulate_end", "wfi_timed"} : Goto(t, l)
    BY <1>24 DEF CallWaitForInterrupt
  <2>. QED BY SMTT(60), <1>24, <2>1 DEF CallWaitForInterrupt
<1>25. ASSUME t \in VCPU, CallRoundupFromVcpu(t) PROVE LocalInv'
  BY <1>25 DEF CallRoundupFromVcpu
<1>26. ASSUME t \in Dev, CtrlFeatureOff(t) PROVE LocalInv'
  BY <1>26 DEF CtrlFeatureOff
<1>27. ASSUME t \in Dev, CtrlFeatureOn(t) PROVE LocalInv'
  BY <1>27 DEF CtrlFeatureOn
<1>28. ASSUME t \in Dev, RaiseInterrupt(t) PROVE LocalInv'
  BY <1>28 DEF RaiseInterrupt
<1>. QED
  BY <1>1, <1>2, <1>3, <1>4, <1>5, <1>6, <1>7, <1>8, <1>9, <1>10, <1>11, <1>12,
     <1>13, <1>14, <1>15, <1>16, <1>17, <1>18, <1>19, <1>20, <1>21, <1>22,
     <1>23, <1>24, <1>25, <1>26, <1>27, <1>28
     DEF OutsideStep, NotifyStep, VcpuStep, DevStep, VcpuChoice, DevChoice

(* The same for the steps of the owner of _waiter_mutex, which change the
   state words of all VCPUs. *)
LEMMA LocalOwner ==
  ASSUME NEW t \in Thread, OwnerStep(t), owner = t, ControlType, LocalInv,
         LoopInv
  PROVE  LocalInv'
<1> USE NAssumption, ThreadAssumption
    DEF Thread, VCPU, ControlType, Ret, LocalInv, Local, VcpuLocal, At, Goto,
        CallNotify, Clear, Sig, RecallBy, WeakRecallBy, Unyield, Unlock, cpuVars, countVars,
        loopVars, ReturnsTo, Critical, Stopping, Rounding, Gathering, Holding,
        Resuming, EmulatingLabel, OffLabel, OnLabel, DevLabel, Label, LoopInv,
        Loop, Emulating, CanSwitchOn, CanSwitchOff, switch_state_to_on,
        switch_state_to_off, CanRoundup, switch_state_to_roundedup, CanResume,
        resume, Roundedup, State
<1>1. ASSUME NotifySub(t), Critical(t) PROVE LocalInv'
  <2> SUFFICES ASSUME NEW u \in Thread PROVE (Local(u))'
    OBVIOUS
  <2>1. CASE u = t
    BY <1>1, <2>1 DEF NotifySub
  <2>2. CASE u # t
    BY ZenonT(90), <1>1, <2>2 DEF NotifySub
  <2>. QED BY <2>1, <2>2
<1>2. ASSUME NotifySig(t), Critical(t) PROVE LocalInv'
  BY <1>2 DEF NotifySig
<1>3. ASSUME RoundupCas(t) PROVE LocalInv'
  <2> SUFFICES ASSUME NEW u \in Thread PROVE (Local(u))'
    OBVIOUS
  <2>1. CASE u = t
    BY <1>3, <2>1 DEF RoundupCas
  <2>2. CASE u # t
    BY <1>3, <2>2 DEF RoundupCas
  <2>. QED BY <2>1, <2>2
<1>4. ASSUME RoundupRecall(t) PROVE LocalInv'
  <2> SUFFICES ASSUME NEW u \in Thread PROVE (Local(u))'
    OBVIOUS
  <2>1. CASE u = t
    BY <1>4, <2>1 DEF RoundupRecall
  <2>2. CASE u # t
    BY <1>4, <2>2 DEF RoundupRecall
  <2>. QED BY <2>1, <2>2
<1>5. ASSUME RoundupUnblock(t) PROVE LocalInv'
  <2> SUFFICES ASSUME NEW u \in Thread PROVE (Local(u))'
    OBVIOUS
  <2>1. CASE emulating[t] /\ u = t
    BY <1>5, <2>1 DEF RoundupUnblock
  <2>2. CASE emulating[t] /\ u # t
    BY ZenonT(90), <1>5, <2>2 DEF RoundupUnblock
  <2>3. CASE ~(emulating[t]) /\ u = t
    BY <1>5, <2>3 DEF RoundupUnblock
  <2>4. CASE ~(emulating[t]) /\ u # t
    BY <1>5, <2>4 DEF RoundupUnblock
  <2>. QED BY <2>1, <2>2, <2>3, <2>4
<1>6. ASSUME RoundupAllDone(t) PROVE LocalInv'
  <2> SUFFICES ASSUME NEW u \in Thread PROVE (Local(u))'
    OBVIOUS
  <2>1. CASE u = t
    BY <1>6, <2>1 DEF RoundupAllDone
  <2>2. CASE u # t
    BY <1>6, <2>2 DEF RoundupAllDone
  <2>. QED BY <2>1, <2>2
<1>7. ASSUME RoundupTest(t) PROVE LocalInv'
  <2> SUFFICES ASSUME NEW u \in Thread PROVE (Local(u))'
    OBVIOUS
  <2>1. CASE u = t
    BY <1>7, <2>1 DEF RoundupTest
  <2>2. CASE u # t
    BY <1>7, <2>2 DEF RoundupTest
  <2>. QED BY <2>1, <2>2
<1>8. ASSUME RoundupWait(t) PROVE LocalInv'
  BY <1>8 DEF RoundupWait
<1>9. ASSUME EndRoundupRead(t) PROVE LocalInv'
  <2> SUFFICES ASSUME NEW u \in Thread PROVE (Local(u))'
    OBVIOUS
  <2>1. CASE u = t
    BY <1>9, <2>1 DEF EndRoundupRead
  <2>2. CASE u # t
    BY <1>9, <2>2 DEF EndRoundupRead
  <2>. QED BY <2>1, <2>2
<1>10. ASSUME EndRoundupStore(t) PROVE LocalInv'
  <2> SUFFICES ASSUME NEW u \in Thread PROVE (Local(u))'
    OBVIOUS
  <2>1. CASE u = t
    BY <1>10, <2>1 DEF EndRoundupStore
  <2>2. CASE u # t
    BY <1>10, <2>2 DEF EndRoundupStore
  <2>. QED BY <2>1, <2>2
<1>11. ASSUME ResumeCas(t) PROVE LocalInv'
  <2> SUFFICES ASSUME NEW u \in Thread PROVE (Local(u))'
    OBVIOUS
  <2>1. CASE u = t
    BY <1>11, <2>1 DEF ResumeCas
  <2>2. CASE u # t
    BY <1>11, <2>2 DEF ResumeCas
  <2>. QED BY <2>1, <2>2
<1>12. ASSUME ResumeSig(t) PROVE LocalInv'
  <2> SUFFICES ASSUME NEW u \in Thread PROVE (Local(u))'
    OBVIOUS
  <2>1. CASE u = t
    BY <1>12, <2>1 DEF ResumeSig
  <2>2. CASE u # t
    BY <1>12, <2>2 DEF ResumeSig
  <2>. QED BY <2>1, <2>2
<1>13. ASSUME ResumeAllDone(t) PROVE LocalInv'
  <2> SUFFICES ASSUME NEW u \in Thread PROVE (Local(u))'
    OBVIOUS
  <2>1. CASE u = t
    BY <1>13, <2>1 DEF ResumeAllDone
  <2>2. CASE u # t
    BY <1>13, <2>2 DEF ResumeAllDone
  <2>. QED BY <2>1, <2>2
<1>14. ASSUME Resume(t) PROVE LocalInv'
  <2> SUFFICES ASSUME NEW u \in Thread PROVE (Local(u))'
    OBVIOUS
  <2>1. CASE t \in VCPU /\ u = t
    BY <1>14, <2>1 DEF Resume
  <2>2. CASE t \in VCPU /\ u # t
    BY <1>14, <2>2 DEF Resume
  <2>3. CASE ~(t \in VCPU) /\ u = t
    BY <1>14, <2>3 DEF Resume
  <2>4. CASE ~(t \in VCPU) /\ u # t
    BY <1>14, <2>4 DEF Resume
  <2>. QED BY <2>1, <2>2, <2>3, <2>4
<1>15. ASSUME SignalNextWaiter(t) PROVE LocalInv'
  <2> SUFFICES ASSUME NEW u \in Thread PROVE (Local(u))'
    OBVIOUS
  <2>1. CASE t \in VCPU /\ u = t
    BY <1>15, <2>1 DEF SignalNextWaiter
  <2>2. CASE t \in VCPU /\ u # t
    BY <1>15, <2>2 DEF SignalNextWaiter
  <2>3. CASE ~(t \in VCPU) /\ u = t
    BY <1>15, <2>3 DEF SignalNextWaiter
  <2>4. CASE ~(t \in VCPU) /\ u # t
    BY <1>15, <2>4 DEF SignalNextWaiter
  <2>. QED BY <2>1, <2>2, <2>3, <2>4
<1>. QED
  BY <1>1, <1>2, <1>3, <1>4, <1>5, <1>6, <1>7, <1>8, <1>9, <1>10, <1>11, <1>12,
     <1>13, <1>14, <1>15
     DEF OwnerStep, NotifyStep, ResumeStep

(* The same for the step that takes _waiter_mutex. *)
LEMMA LocalLock ==
  ASSUME NEW t \in Thread, Lock(t), ControlType, LocalInv
  PROVE  LocalInv'
BY NAssumption, ThreadAssumption
   DEF Lock, Thread, VCPU, ControlType, Ret, LocalInv, Local, VcpuLocal, At,
       Goto, CallNotify, Clear, Sig, RecallBy, WeakRecallBy, Unyield, Unlock, cpuVars,
       countVars, loopVars, ReturnsTo, Critical, Stopping, Rounding, Gathering,
       Holding, Resuming, EmulatingLabel, OffLabel, OnLabel, DevLabel, Label

(* _waiter_mutex keeps roundups apart: a step outside the roundup does not
   enter it. *)
LEMMA OneRoundupOutside ==
  ASSUME NEW t \in Thread, OutsideStep(t), ControlType, LocalInv, OneRoundup
  PROVE  OneRoundup'
<1> USE NAssumption, ThreadAssumption
    DEF Thread, VCPU, ControlType, Ret, LocalInv, Local, VcpuLocal, At, Goto,
        CallNotify, Clear, Sig, RecallBy, WeakRecallBy, Unyield, Unlock, cpuVars, countVars,
        loopVars, ReturnsTo, Critical, Stopping, Rounding, Gathering, Holding,
        Resuming, EmulatingLabel, OffLabel, OnLabel, DevLabel, Label,
        OneRoundup
<1>1. ASSUME NotifySub(t), ~Critical(t) PROVE OneRoundup'
  <2> SUFFICES ASSUME NEW u \in Thread PROVE (Critical(u) <=> owner = u)'
    OBVIOUS
  <2>1. CASE vcpus_progressing = 1 /\ u = t
    BY <1>1, <2>1 DEF NotifySub
  <2>2. CASE vcpus_progressing = 1 /\ u # t
    BY ZenonT(90), <1>1, <2>2 DEF NotifySub
  <2>3. CASE vcpus_progressing # 1 /\ u = t
    BY <1>1, <2>3 DEF NotifySub
  <2>4. CASE vcpus_progressing # 1 /\ u # t
    BY ZenonT(90), <1>1, <2>4 DEF NotifySub
  <2>. QED BY <2>1, <2>2, <2>3, <2>4
<1>2. ASSUME NotifySig(t), ~Critical(t) PROVE OneRoundup'
  BY <1>2 DEF NotifySig
<1>3. ASSUME t \in VCPU, WaitForSwitchOn(t) PROVE OneRoundup'
  BY <1>3 DEF WaitForSwitchOn
<1>4. ASSUME t \in VCPU, TurnOn(t) PROVE OneRoundup'
  <2> SUFFICES ASSUME NEW u \in Thread PROVE (Critical(u) <=> owner = u)'
    OBVIOUS
  <2>1. CASE state[t] = "EMULATE_ROUNDEDUP" /\ u = t
    BY <1>4, <2>1 DEF TurnOn
  <2>2. CASE state[t] = "EMULATE_ROUNDEDUP" /\ u # t
    BY <1>4, <2>2 DEF TurnOn
  <2>3. CASE ~(state[t] = "EMULATE_ROUNDEDUP") /\ u = t
    BY <1>4, <2>3 DEF TurnOn
  <2>4. CASE ~(state[t] = "EMULATE_ROUNDEDUP") /\ u # t
    BY <1>4, <2>4 DEF TurnOn
  <2>. QED BY <2>1, <2>2, <2>3, <2>4
<1>5. ASSUME t \in VCPU, CheckPaused(t) PROVE OneRoundup'
  BY <1>5 DEF CheckPaused
<1>6. ASSUME t \in VCPU, TurnOff(t) PROVE OneRoundup'
  BY <1>6 DEF TurnOff
<1>7. ASSUME t \in VCPU, BeginEmulationRead(t) PROVE OneRoundup'
  BY <1>7 DEF BeginEmulationRead
<1>8. ASSUME t \in VCPU, BeginEmulationCas(t) PROVE OneRoundup'
  <2> SUFFICES ASSUME NEW u \in Thread PROVE (Critical(u) <=> owner = u)'
    OBVIOUS
  <2>1. CASE state[t] = "ON" /\ u = t
    BY SMTT(60), <1>8, <2>1 DEF BeginEmulationCas
  <2>2. CASE state[t] = "ON" /\ u # t
    BY <1>8, <2>2 DEF BeginEmulationCas
  <2>3. CASE ~(state[t] = "ON") /\ u = t
    BY <1>8, <2>3 DEF BeginEmulationCas
  <2>4. CASE ~(state[t] = "ON") /\ u # t
    BY <1>8, <2>4 DEF BeginEmulationCas
  <2>. QED BY <2>1, <2>2, <2>3, <2>4
<1>9. ASSUME t \in VCPU, WaitForResume(t) PROVE OneRoundup'
  BY <1>9 DEF WaitForResume
<1>10. ASSUME t \in VCPU, EndEmulation(t) PROVE OneRoundup'
  <2> SUFFICES ASSUME NEW u \in Thread PROVE (Critical(u) <=> owner = u)'
    OBVIOUS
  <2>1. CASE state[t] = "EMULATE_ROUNDEDUP" /\ u = t
    BY <1>10, <2>1 DEF EndEmulation
  <2>2. CASE state[t] = "EMULATE_ROUNDEDUP" /\ u # t
    BY <1>10, <2>2 DEF EndEmulation
  <2>3. CASE ~(state[t] = "EMULATE_ROUNDEDUP") /\ u = t
    BY <1>10, <2>3 DEF EndEmulation
  <2>4. CASE ~(state[t] = "EMULATE_ROUNDEDUP") /\ u # t
    BY <1>10, <2>4 DEF EndEmulation
  <2>. QED BY <2>1, <2>2, <2>3, <2>4
<1>11. ASSUME t \in VCPU, EnterGuest(t) PROVE OneRoundup'
  BY <1>11 DEF EnterGuest
<1>12. ASSUME t \in VCPU, WfiTest(t) PROVE OneRoundup'
  BY <1>12 DEF WfiTest
<1>13. ASSUME t \in VCPU, Block(t) PROVE OneRoundup'
  BY <1>13 DEF Block
<1>14. ASSUME t \in VCPU, BlockTimeout(t) PROVE OneRoundup'
  BY <1>14 DEF BlockTimeout
<1>15. ASSUME t \in VCPU, Yield(t) PROVE OneRoundup'
  BY <1>15 DEF Yield
<1>16. ASSUME t \in Dev, CtrlRecall(t) PROVE OneRoundup'
  BY <1>16 DEF CtrlRecall
<1>17. ASSUME t \in Dev, CtrlSwitchOn(t) PROVE OneRoundup'
  BY <1>17 DEF CtrlSwitchOn
<1>18. ASSUME t \in Dev, IrqNotify(t) PROVE OneRoundup'
  BY <1>18 DEF IrqNotify
<1>19. ASSUME t \in Dev, IrqRecall(t) PROVE OneRoundup'
  BY <1>19 DEF IrqRecall
<1>20. ASSUME t \in Dev, IrqUnblock(t) PROVE OneRoundup'
  BY <1>20 DEF IrqUnblock
<1>21. ASSUME CallRoundup(t) PROVE OneRoundup'
  BY <1>21 DEF CallRoundup
<1>22. ASSUME t \in VCPU, GuestExit(t) PROVE OneRoundup'
  BY <1>22 DEF GuestExit
<1>23. ASSUME t \in VCPU, GuestAck(t) PROVE OneRoundup'
  BY <1>23 DEF GuestAck
<1>24. ASSUME t \in VCPU, CallWaitForInterrupt(t) PROVE OneRoundup'
  <2>1. PICK l \in {"wfi", "emulate_end", "wfi_timed"} : Goto(t, l)
    BY <1>24 DEF CallWaitForInterrupt
  <2>. QED BY <1>24, <2>1 DEF CallWaitForInterrupt
<1>25. ASSUME t \in VCPU, CallRoundupFromVcpu(t) PROVE OneRoundup'
  BY <1>25 DEF CallRoundupFromVcpu
<1>26. ASSUME t \in Dev, CtrlFeatureOff(t) PROVE OneRoundup'
  BY <1>26 DEF CtrlFeatureOff
<1>27. ASSUME t \in Dev, CtrlFeatureOn(t) PROVE OneRoundup'
  BY <1>27 DEF CtrlFeatureOn
<1>28. ASSUME t \in Dev, RaiseInterrupt(t) PROVE OneRoundup'
  BY <1>28 DEF RaiseInterrupt
<1>. QED
  BY <1>1, <1>2, <1>3, <1>4, <1>5, <1>6, <1>7, <1>8, <1>9, <1>10, <1>11, <1>12,
     <1>13, <1>14, <1>15, <1>16, <1>17, <1>18, <1>19, <1>20, <1>21, <1>22,
     <1>23, <1>24, <1>25, <1>26, <1>27, <1>28
     DEF OutsideStep, NotifyStep, VcpuStep, DevStep, VcpuChoice, DevChoice

(* The steps of the owner of _waiter_mutex stay inside, up to
   signal_next_waiter. *)
LEMMA OneRoundupOwner ==
  ASSUME NEW t \in Thread, OwnerStep(t), owner = t, ControlType, LocalInv,
         OneRoundup
  PROVE  OneRoundup'
<1> USE NAssumption, ThreadAssumption
    DEF Thread, VCPU, ControlType, Ret, LocalInv, Local, VcpuLocal, At, Goto,
        CallNotify, Clear, Sig, RecallBy, WeakRecallBy, Unyield, Unlock, cpuVars, countVars,
        loopVars, ReturnsTo, Critical, Stopping, Rounding, Gathering, Holding,
        Resuming, EmulatingLabel, OffLabel, OnLabel, DevLabel, Label,
        OneRoundup
<1>1. ASSUME NotifySub(t), Critical(t) PROVE OneRoundup'
  BY SMTT(60), <1>1 DEF NotifySub
<1>2. ASSUME NotifySig(t), Critical(t) PROVE OneRoundup'
  BY <1>2 DEF NotifySig
<1>3. ASSUME RoundupCas(t) PROVE OneRoundup'
  BY <1>3 DEF RoundupCas
<1>4. ASSUME RoundupRecall(t) PROVE OneRoundup'
  BY <1>4 DEF RoundupRecall
<1>5. ASSUME RoundupUnblock(t) PROVE OneRoundup'
  <2> SUFFICES ASSUME NEW u \in Thread PROVE (Critical(u) <=> owner = u)'
    OBVIOUS
  <2>1. CASE emulating[t] /\ u = t
    BY <1>5, <2>1 DEF RoundupUnblock
  <2>2. CASE emulating[t] /\ u # t
    BY <1>5, <2>2 DEF RoundupUnblock
  <2>3. CASE ~(emulating[t]) /\ u = t
    BY <1>5, <2>3 DEF RoundupUnblock
  <2>4. CASE ~(emulating[t]) /\ u # t
    BY <1>5, <2>4 DEF RoundupUnblock
  <2>. QED BY <2>1, <2>2, <2>3, <2>4
<1>6. ASSUME RoundupAllDone(t) PROVE OneRoundup'
  BY <1>6 DEF RoundupAllDone
<1>7. ASSUME RoundupTest(t) PROVE OneRoundup'
  BY <1>7 DEF RoundupTest
<1>8. ASSUME RoundupWait(t) PROVE OneRoundup'
  BY <1>8 DEF RoundupWait
<1>9. ASSUME EndRoundupRead(t) PROVE OneRoundup'
  BY <1>9 DEF EndRoundupRead
<1>10. ASSUME EndRoundupStore(t) PROVE OneRoundup'
  BY <1>10 DEF EndRoundupStore
<1>11. ASSUME ResumeCas(t) PROVE OneRoundup'
  BY <1>11 DEF ResumeCas
<1>12. ASSUME ResumeSig(t) PROVE OneRoundup'
  BY <1>12 DEF ResumeSig
<1>13. ASSUME ResumeAllDone(t) PROVE OneRoundup'
  BY <1>13 DEF ResumeAllDone
<1>14. ASSUME Resume(t) PROVE OneRoundup'
  <2> SUFFICES ASSUME NEW u \in Thread PROVE (Critical(u) <=> owner = u)'
    OBVIOUS
  <2>1. CASE t \in VCPU /\ u = t
    BY <1>14, <2>1 DEF Resume
  <2>2. CASE t \in VCPU /\ u # t
    BY <1>14, <2>2 DEF Resume
  <2>3. CASE ~(t \in VCPU) /\ u = t
    BY <1>14, <2>3 DEF Resume
  <2>4. CASE ~(t \in VCPU) /\ u # t
    BY <1>14, <2>4 DEF Resume
  <2>. QED BY <2>1, <2>2, <2>3, <2>4
<1>15. ASSUME SignalNextWaiter(t) PROVE OneRoundup'
  BY <1>15 DEF SignalNextWaiter
<1>. QED
  BY <1>1, <1>2, <1>3, <1>4, <1>5, <1>6, <1>7, <1>8, <1>9, <1>10, <1>11, <1>12,
     <1>13, <1>14, <1>15
     DEF OwnerStep, NotifyStep, ResumeStep

(* Only one thread takes _waiter_mutex. *)
LEMMA OneRoundupLock ==
  ASSUME NEW t \in Thread, Lock(t), ControlType, LocalInv, OneRoundup
  PROVE  OneRoundup'
BY NAssumption, ThreadAssumption
   DEF Lock, Thread, VCPU, ControlType, Ret, LocalInv, Local, VcpuLocal, At,
       Goto, CallNotify, Clear, Sig, RecallBy, WeakRecallBy, Unyield, Unlock, cpuVars,
       countVars, loopVars, ReturnsTo, Critical, Stopping, Rounding, Gathering,
       Holding, Resuming, EmulatingLabel, OffLabel, OnLabel, DevLabel, Label,
       OneRoundup

(* The locals of roundup_all, resume_all and end_roundup_core: no step
   outside the roundup disturbs them; in particular no VCPU calls yield
   between the read of _vcpu_waiters and the store that uses it. *)
LEMMA LoopOutside ==
  ASSUME NEW t \in Thread, OutsideStep(t), ControlType, LocalInv, LoopInv,
         QuietInv, OneRoundup
  PROVE  LoopInv'
<1> USE NAssumption, ThreadAssumption
    DEF Thread, VCPU, ControlType, Ret, LocalInv, Local, VcpuLocal, At, Goto,
        CallNotify, Clear, Sig, RecallBy, WeakRecallBy, Unyield, Unlock, cpuVars, countVars,
        loopVars, ReturnsTo, Critical, Stopping, Rounding, Gathering, Holding,
        Resuming, EmulatingLabel, OffLabel, OnLabel, DevLabel, Label, QuietInv,
        Quiet, LoopInv, Loop, OwnerMarks, MarkedBy, OneRoundup
<1>1. ASSUME NotifySub(t), ~Critical(t) PROVE LoopInv'
  <2> SUFFICES ASSUME NEW u \in Thread PROVE (Loop(u))'
    OBVIOUS
  <2>1. CASE vcpus_progressing = 1 /\ u = t
    BY <1>1, <2>1 DEF NotifySub
  <2>2. CASE vcpus_progressing = 1 /\ u # t
    BY <1>1, <2>2 DEF NotifySub
  <2>3. CASE vcpus_progressing # 1 /\ u = t
    BY <1>1, <2>3 DEF NotifySub
  <2>4. CASE vcpus_progressing # 1 /\ u # t
    BY <1>1, <2>4 DEF NotifySub
  <2>. QED BY <2>1, <2>2, <2>3, <2>4
<1>2. ASSUME NotifySig(t), ~Critical(t) PROVE LoopInv'
  BY <1>2 DEF NotifySig
<1>3. ASSUME t \in VCPU, WaitForSwitchOn(t) PROVE LoopInv'
  BY <1>3 DEF WaitForSwitchOn
<1>4. ASSUME t \in VCPU, TurnOn(t) PROVE LoopInv'
  BY <1>4 DEF TurnOn
<1>5. ASSUME t \in VCPU, CheckPaused(t) PROVE LoopInv'
  BY <1>5 DEF CheckPaused
<1>6. ASSUME t \in VCPU, TurnOff(t) PROVE LoopInv'
  BY <1>6 DEF TurnOff
<1>7. ASSUME t \in VCPU, BeginEmulationRead(t) PROVE LoopInv'
  BY <1>7 DEF BeginEmulationRead
<1>8. ASSUME t \in VCPU, BeginEmulationCas(t) PROVE LoopInv'
  BY <1>8 DEF BeginEmulationCas
<1>9. ASSUME t \in VCPU, WaitForResume(t) PROVE LoopInv'
  BY <1>9 DEF WaitForResume
<1>10. ASSUME t \in VCPU, EndEmulation(t) PROVE LoopInv'
  <2> SUFFICES ASSUME NEW u \in Thread PROVE (Loop(u))'
    OBVIOUS
  <2>1. CASE state[t] = "EMULATE_ROUNDEDUP" /\ u = t
    BY ZenonT(90), <1>10, <2>1 DEF EndEmulation
  <2>2. CASE state[t] = "EMULATE_ROUNDEDUP" /\ u # t
    BY ZenonT(90), <1>10, <2>2 DEF EndEmulation
  <2>3. CASE ~(state[t] = "EMULATE_ROUNDEDUP") /\ u = t
    BY ZenonT(90), <1>10, <2>3 DEF EndEmulation
  <2>4. CASE ~(state[t] = "EMULATE_ROUNDEDUP") /\ u # t
    BY <1>10, <2>4 DEF EndEmulation
  <2>. QED BY <2>1, <2>2, <2>3, <2>4
<1>11. ASSUME t \in VCPU, EnterGuest(t) PROVE LoopInv'
  BY <1>11 DEF EnterGuest
<1>12. ASSUME t \in VCPU, WfiTest(t) PROVE LoopInv'
  BY <1>12 DEF WfiTest
<1>13. ASSUME t \in VCPU, Block(t) PROVE LoopInv'
  BY <1>13 DEF Block
<1>14. ASSUME t \in VCPU, BlockTimeout(t) PROVE LoopInv'
  BY <1>14 DEF BlockTimeout
<1>15. ASSUME t \in VCPU, Yield(t) PROVE LoopInv'
  <2> SUFFICES ASSUME NEW u \in Thread PROVE (Loop(u))'
    OBVIOUS
  <2>1. CASE u = t
    BY <1>15, <2>1 DEF Yield
  <2>2. CASE u # t
    BY SMTT(60), <1>15, <2>2 DEF Yield
  <2>. QED BY <2>1, <2>2
<1>16. ASSUME t \in Dev, CtrlRecall(t) PROVE LoopInv'
  BY <1>16 DEF CtrlRecall
<1>17. ASSUME t \in Dev, CtrlSwitchOn(t) PROVE LoopInv'
  BY <1>17 DEF CtrlSwitchOn
<1>18. ASSUME t \in Dev, IrqNotify(t) PROVE LoopInv'
  BY <1>18 DEF IrqNotify
<1>19. ASSUME t \in Dev, IrqRecall(t) PROVE LoopInv'
  BY <1>19 DEF IrqRecall
<1>20. ASSUME t \in Dev, IrqUnblock(t) PROVE LoopInv'
  BY <1>20 DEF IrqUnblock
<1>21. ASSUME CallRoundup(t) PROVE LoopInv'
  BY <1>21 DEF CallRoundup
<1>22. ASSUME t \in VCPU, GuestExit(t) PROVE LoopInv'
  BY <1>22 DEF GuestExit
<1>23. ASSUME t \in VCPU, GuestAck(t) PROVE LoopInv'
  BY <1>23 DEF GuestAck
<1>24. ASSUME t \in VCPU, CallWaitForInterrupt(t) PROVE LoopInv'
  <2>1. PICK l \in {"wfi", "emulate_end", "wfi_timed"} : Goto(t, l)
    BY <1>24 DEF CallWaitForInterrupt
  <2>. QED BY <1>24, <2>1 DEF CallWaitForInterrupt
<1>25. ASSUME t \in VCPU, CallRoundupFromVcpu(t) PROVE LoopInv'
  BY <1>25 DEF CallRoundupFromVcpu
<1>26. ASSUME t \in Dev, CtrlFeatureOff(t) PROVE LoopInv'
  BY <1>26 DEF CtrlFeatureOff
<1>27. ASSUME t \in Dev, CtrlFeatureOn(t) PROVE LoopInv'
  BY <1>27 DEF CtrlFeatureOn
<1>28. ASSUME t \in Dev, RaiseInterrupt(t) PROVE LoopInv'
  BY <1>28 DEF RaiseInterrupt
<1>. QED
  BY <1>1, <1>2, <1>3, <1>4, <1>5, <1>6, <1>7, <1>8, <1>9, <1>10, <1>11, <1>12,
     <1>13, <1>14, <1>15, <1>16, <1>17, <1>18, <1>19, <1>20, <1>21, <1>22,
     <1>23, <1>24, <1>25, <1>26, <1>27, <1>28
     DEF OutsideStep, NotifyStep, VcpuStep, DevStep, VcpuChoice, DevChoice

(* The same for the steps of the owner of _waiter_mutex. *)
LEMMA LoopOwner ==
  ASSUME NEW t \in Thread, OwnerStep(t), owner = t, ControlType,
         num_waiters \in [Thread -> Int], LocalInv, LoopInv, OneRoundup
  PROVE  LoopInv'
<1> USE NAssumption, ThreadAssumption
    DEF Thread, VCPU, ControlType, Ret, LocalInv, Local, VcpuLocal, At, Goto,
        CallNotify, Clear, Sig, RecallBy, WeakRecallBy, Unyield, Unlock, cpuVars, countVars,
        loopVars, ReturnsTo, Critical, Stopping, Rounding, Gathering, Holding,
        Resuming, EmulatingLabel, OffLabel, OnLabel, DevLabel, Label, LoopInv,
        Loop, OneRoundup
<1>1. ASSUME NotifySub(t), Critical(t) PROVE LoopInv'
  <2> SUFFICES ASSUME NEW u \in Thread PROVE (Loop(u))'
    OBVIOUS
  <2>1. CASE u = t
    BY <1>1, <2>1 DEF NotifySub
  <2>2. CASE u # t
    BY <1>1, <2>2 DEF NotifySub
  <2>. QED BY <2>1, <2>2
<1>2. ASSUME NotifySig(t), Critical(t) PROVE LoopInv'
  BY <1>2 DEF NotifySig
<1>3. ASSUME RoundupCas(t) PROVE LoopInv'
  BY <1>3 DEF RoundupCas
<1>4. ASSUME RoundupRecall(t) PROVE LoopInv'
  BY <1>4 DEF RoundupRecall
<1>5. ASSUME RoundupUnblock(t) PROVE LoopInv'
  <2> SUFFICES ASSUME NEW u \in Thread PROVE (Loop(u))'
    OBVIOUS
  <2>1. CASE emulating[t] /\ u = t
    BY <1>5, <2>1 DEF RoundupUnblock
  <2>2. CASE emulating[t] /\ u # t
    BY <1>5, <2>2 DEF RoundupUnblock
  <2>3. CASE ~(emulating[t]) /\ u = t
    BY <1>5, <2>3 DEF RoundupUnblock
  <2>4. CASE ~(emulating[t]) /\ u # t
    BY <1>5, <2>4 DEF RoundupUnblock
  <2>. QED BY <2>1, <2>2, <2>3, <2>4
<1>6. ASSUME RoundupAllDone(t) PROVE LoopInv'
  BY <1>6 DEF RoundupAllDone
<1>7. ASSUME RoundupTest(t) PROVE LoopInv'
  BY <1>7 DEF RoundupTest
<1>8. ASSUME RoundupWait(t) PROVE LoopInv'
  BY <1>8 DEF RoundupWait
<1>9. ASSUME EndRoundupRead(t) PROVE LoopInv'
  BY <1>9 DEF EndRoundupRead
<1>10. ASSUME EndRoundupStore(t) PROVE LoopInv'
  BY <1>10 DEF EndRoundupStore
<1>11. ASSUME ResumeCas(t) PROVE LoopInv'
  BY <1>11 DEF ResumeCas
<1>12. ASSUME ResumeSig(t) PROVE LoopInv'
  BY <1>12 DEF ResumeSig
<1>13. ASSUME ResumeAllDone(t) PROVE LoopInv'
  BY <1>13 DEF ResumeAllDone
<1>14. ASSUME Resume(t) PROVE LoopInv'
  BY ZenonT(90), <1>14 DEF Resume
<1>15. ASSUME SignalNextWaiter(t) PROVE LoopInv'
  BY <1>15 DEF SignalNextWaiter
<1>. QED
  BY <1>1, <1>2, <1>3, <1>4, <1>5, <1>6, <1>7, <1>8, <1>9, <1>10, <1>11, <1>12,
     <1>13, <1>14, <1>15
     DEF OwnerStep, NotifyStep, ResumeStep

(* The same for the step that takes _waiter_mutex. *)
LEMMA LoopLock ==
  ASSUME NEW t \in Thread, Lock(t), ControlType, LocalInv, LoopInv, OneRoundup
  PROVE  LoopInv'
BY NAssumption, ThreadAssumption
   DEF Lock, Thread, VCPU, ControlType, Ret, LocalInv, Local, VcpuLocal, At,
       Goto, CallNotify, Clear, Sig, RecallBy, WeakRecallBy, Unyield, Unlock, cpuVars,
       countVars, loopVars, ReturnsTo, Critical, Stopping, Rounding, Gathering,
       Holding, Resuming, EmulatingLabel, OffLabel, OnLabel, DevLabel, Label,
       LoopInv, Loop, OneRoundup

(* unblock, the last step of roundup_impl, and the increment of the loop of
   roundup_all leave the VCPUs that are marked, recalled and to be reported
   as they are. *)
LEMMA UnblockFrame ==
  ASSUME NEW t \in Thread, RoundupUnblock(t), owner = t, ControlType, emulating \in [Thread -> BOOLEAN]
  PROVE \A u \in VCPU : /\ (OwnerMarks(u))' <=> OwnerMarks(u)
                        /\ (OwnerReports(u))' <=> OwnerReports(u)
                        /\ (RecallDone(u))' <=> RecallDone(u)
<1> SUFFICES ASSUME NEW u \in VCPU
             PROVE  /\ (OwnerMarks(u))' <=> OwnerMarks(u)
                    /\ (OwnerReports(u))' <=> OwnerReports(u)
                    /\ (RecallDone(u))' <=> RecallDone(u)
  OBVIOUS
<1>1. u \in Nat
  BY NAssumption DEF VCPU
<1>2. i[t] \in Nat /\ i'[t] = i[t] + 1
  BY DEF ControlType, RoundupUnblock
<1>3. owner' = t /\ pc[t] = "ru_unblock"
  BY DEF RoundupUnblock, At, countVars
<1>4. \/ emulating[t] /\ pc'[t] = "ru_cas"
      \/ ~emulating[t] /\ pc'[t] = "notify_sub" /\ ret'[t] = "ru_cas"
  BY DEF RoundupUnblock, CallNotify, Goto, ControlType
<1>5. u < i[t] + 1 <=> u < i[t] \/ u = i[t]
  BY <1>1, <1>2
<1>6. u + 1 = i[t] + 1 <=> u = i[t]
  BY <1>1, <1>2
<1>7. (OwnerMarks(u))' <=> u < i[t] + 1
  BY <1>2, <1>3, <1>4 DEF OwnerMarks, MarkedBy, Rounding, Gathering, Holding, At, ReturnsTo
<1>8. OwnerMarks(u) <=> u < i[t] \/ u = i[t]
  BY <1>3 DEF OwnerMarks, MarkedBy, Rounding, Gathering, Holding, At, ReturnsTo
<1>9. (OwnerReports(u))' <=> ~emulating[t] /\ u + 1 = i[t] + 1
  BY <1>2, <1>3, <1>4 DEF OwnerReports, At
<1>10. OwnerReports(u) <=> ~emulating[t] /\ u = i[t]
  BY <1>3 DEF OwnerReports, At
<1>11. (RecallDone(u))' <=> (OwnerMarks(u))'
  BY <1>3, <1>4 DEF RecallDone, At
<1>12. RecallDone(u) <=> OwnerMarks(u)
  BY <1>3 DEF RecallDone, At
<1>. QED
  BY <1>5, <1>6, <1>7, <1>8, <1>9, <1>10, <1>11, <1>12

(* A VCPU is in a ROUNDEDUP state exactly while the roundup holds it there:
   the transitions of the VCPUs themselves preserve it. *)
LEMMA MarkOutside ==
  ASSUME NEW t \in Thread, OutsideStep(t), ControlType, MarkInv, OwnerSame
  PROVE  MarkInv'
<1>a. \A v \in VCPU : (OwnerMarks(v))' <=> OwnerMarks(v)
  BY OwnerFrame
<1> USE NAssumption, ThreadAssumption, <1>a
    DEF Thread, VCPU, ControlType, MarkInv, At, Goto, CallNotify, Clear, Sig,
        RecallBy, WeakRecallBy, Unyield, Unlock, cpuVars, countVars, loopVars, Emulating,
        CanSwitchOn, CanSwitchOff, switch_state_to_on, switch_state_to_off,
        CanRoundup, switch_state_to_roundedup, CanResume, resume, Roundedup,
        State
<1>1. ASSUME NotifySub(t), ~Critical(t) PROVE MarkInv'
  BY <1>1 DEF NotifySub
<1>2. ASSUME NotifySig(t), ~Critical(t) PROVE MarkInv'
  BY <1>2 DEF NotifySig
<1>3. ASSUME t \in VCPU, WaitForSwitchOn(t) PROVE MarkInv'
  BY <1>3 DEF WaitForSwitchOn
<1>4. ASSUME t \in VCPU, TurnOn(t) PROVE MarkInv'
  BY <1>4 DEF TurnOn
<1>5. ASSUME t \in VCPU, CheckPaused(t) PROVE MarkInv'
  BY <1>5 DEF CheckPaused
<1>6. ASSUME t \in VCPU, TurnOff(t) PROVE MarkInv'
  BY <1>6 DEF TurnOff
<1>7. ASSUME t \in VCPU, BeginEmulationRead(t) PROVE MarkInv'
  BY <1>7 DEF BeginEmulationRead
<1>8. ASSUME t \in VCPU, BeginEmulationCas(t) PROVE MarkInv'
  BY <1>8 DEF BeginEmulationCas
<1>9. ASSUME t \in VCPU, WaitForResume(t) PROVE MarkInv'
  BY <1>9 DEF WaitForResume
<1>10. ASSUME t \in VCPU, EndEmulation(t) PROVE MarkInv'
  BY <1>10 DEF EndEmulation
<1>11. ASSUME t \in VCPU, EnterGuest(t) PROVE MarkInv'
  BY <1>11 DEF EnterGuest
<1>12. ASSUME t \in VCPU, WfiTest(t) PROVE MarkInv'
  BY <1>12 DEF WfiTest
<1>13. ASSUME t \in VCPU, Block(t) PROVE MarkInv'
  BY <1>13 DEF Block
<1>14. ASSUME t \in VCPU, BlockTimeout(t) PROVE MarkInv'
  BY <1>14 DEF BlockTimeout
<1>15. ASSUME t \in VCPU, Yield(t) PROVE MarkInv'
  BY <1>15 DEF Yield
<1>16. ASSUME t \in Dev, CtrlRecall(t) PROVE MarkInv'
  BY <1>16 DEF CtrlRecall
<1>17. ASSUME t \in Dev, CtrlSwitchOn(t) PROVE MarkInv'
  BY <1>17 DEF CtrlSwitchOn
<1>18. ASSUME t \in Dev, IrqNotify(t) PROVE MarkInv'
  BY <1>18 DEF IrqNotify
<1>19. ASSUME t \in Dev, IrqRecall(t) PROVE MarkInv'
  BY <1>19 DEF IrqRecall
<1>20. ASSUME t \in Dev, IrqUnblock(t) PROVE MarkInv'
  BY <1>20 DEF IrqUnblock
<1>21. ASSUME CallRoundup(t) PROVE MarkInv'
  BY <1>21 DEF CallRoundup
<1>22. ASSUME t \in VCPU, GuestExit(t) PROVE MarkInv'
  BY <1>22 DEF GuestExit
<1>23. ASSUME t \in VCPU, GuestAck(t) PROVE MarkInv'
  BY <1>23 DEF GuestAck
<1>24. ASSUME t \in VCPU, CallWaitForInterrupt(t) PROVE MarkInv'
  <2>1. PICK l \in {"wfi", "emulate_end", "wfi_timed"} : Goto(t, l)
    BY <1>24 DEF CallWaitForInterrupt
  <2>. QED BY <1>24, <2>1 DEF CallWaitForInterrupt
<1>25. ASSUME t \in VCPU, CallRoundupFromVcpu(t) PROVE MarkInv'
  BY <1>25 DEF CallRoundupFromVcpu
<1>26. ASSUME t \in Dev, CtrlFeatureOff(t) PROVE MarkInv'
  BY <1>26 DEF CtrlFeatureOff
<1>27. ASSUME t \in Dev, CtrlFeatureOn(t) PROVE MarkInv'
  BY <1>27 DEF CtrlFeatureOn
<1>28. ASSUME t \in Dev, RaiseInterrupt(t) PROVE MarkInv'
  BY <1>28 DEF RaiseInterrupt
<1>. QED
  BY <1>1, <1>2, <1>3, <1>4, <1>5, <1>6, <1>7, <1>8, <1>9, <1>10, <1>11, <1>12,
     <1>13, <1>14, <1>15, <1>16, <1>17, <1>18, <1>19, <1>20, <1>21, <1>22,
     <1>23, <1>24, <1>25, <1>26, <1>27, <1>28
     DEF OutsideStep, NotifyStep, VcpuStep, DevStep, VcpuChoice, DevChoice

(* The same for the owner: roundup_all and resume_all mark and unmark one
   VCPU after the other. *)
LEMMA MarkOwner ==
  ASSUME NEW t \in Thread, OwnerStep(t), owner = t, ControlType,
         emulating \in [Thread -> BOOLEAN], LocalInv, LoopInv, MarkInv
  PROVE  MarkInv'
<1> USE NAssumption, ThreadAssumption
    DEF Thread, VCPU, ControlType, Ret, LocalInv, Local, VcpuLocal, At, Goto,
        CallNotify, Clear, Sig, RecallBy, WeakRecallBy, Unyield, Unlock, cpuVars, countVars,
        loopVars, ReturnsTo, Critical, Stopping, Rounding, Gathering, Holding,
        Resuming, EmulatingLabel, OffLabel, OnLabel, DevLabel, Label, LoopInv,
        Loop, MarkInv, OwnerMarks, MarkedBy, Emulating, CanSwitchOn,
        CanSwitchOff, switch_state_to_on, switch_state_to_off, CanRoundup,
        switch_state_to_roundedup, CanResume, resume, Roundedup, State
<1>1. ASSUME NotifySub(t), Critical(t) PROVE MarkInv'
  <2> SUFFICES ASSUME NEW u \in VCPU PROVE (Roundedup(state[u]) <=> OwnerMarks(u))'
    OBVIOUS
  <2>. QED BY ZenonT(90), <1>1 DEF NotifySub
<1>2. ASSUME NotifySig(t), Critical(t) PROVE MarkInv'
  BY <1>2 DEF NotifySig
<1>3. ASSUME RoundupCas(t) PROVE MarkInv'
  BY <1>3 DEF RoundupCas
<1>4. ASSUME RoundupRecall(t) PROVE MarkInv'
  BY <1>4 DEF RoundupRecall
<1>5. ASSUME RoundupUnblock(t) PROVE MarkInv'
  <2>1. \A u \in VCPU : (OwnerMarks(u))' <=> OwnerMarks(u)
    BY <1>5, UnblockFrame
  <2>2. state' = state
    BY <1>5 DEF RoundupUnblock
  <2> HIDE DEF OwnerMarks
  <2>. QED BY <2>1, <2>2
<1>6. ASSUME RoundupAllDone(t) PROVE MarkInv'
  BY <1>6 DEF RoundupAllDone
<1>7. ASSUME RoundupTest(t) PROVE MarkInv'
  BY <1>7 DEF RoundupTest
<1>8. ASSUME RoundupWait(t) PROVE MarkInv'
  BY <1>8 DEF RoundupWait
<1>9. ASSUME EndRoundupRead(t) PROVE MarkInv'
  BY <1>9 DEF EndRoundupRead
<1>10. ASSUME EndRoundupStore(t) PROVE MarkInv'
  <2> SUFFICES ASSUME NEW u \in VCPU PROVE (Roundedup(state[u]) <=> OwnerMarks(u))'
    OBVIOUS
  <2>. QED BY SMTT(60), <1>10 DEF EndRoundupStore
<1>11. ASSUME ResumeCas(t) PROVE MarkInv'
  BY <1>11 DEF ResumeCas
<1>12. ASSUME ResumeSig(t) PROVE MarkInv'
  <2> SUFFICES ASSUME NEW u \in VCPU PROVE (Roundedup(state[u]) <=> OwnerMarks(u))'
    OBVIOUS
  <2>1. CASE u = i[t]
    BY <1>12, <2>1 DEF ResumeSig
  <2>2. CASE u # i[t]
    BY <1>12, <2>2 DEF ResumeSig
  <2>. QED BY <2>1, <2>2
<1>13. ASSUME ResumeAllDone(t) PROVE MarkInv'
  BY <1>13 DEF ResumeAllDone
<1>14. ASSUME Resume(t) PROVE MarkInv'
  BY <1>14 DEF Resume
<1>15. ASSUME SignalNextWaiter(t) PROVE MarkInv'
  BY <1>15 DEF SignalNextWaiter
<1>. QED
  BY <1>1, <1>2, <1>3, <1>4, <1>5, <1>6, <1>7, <1>8, <1>9, <1>10, <1>11, <1>12,
     <1>13, <1>14, <1>15
     DEF OwnerStep, NotifyStep, ResumeStep

(* The same for the step that takes _waiter_mutex: no VCPU is marked then. *)
LEMMA MarkLock ==
  ASSUME NEW t \in Thread, Lock(t), ControlType, LocalInv, LoopInv, MarkInv
  PROVE  MarkInv'
BY NAssumption, ThreadAssumption
   DEF Lock, Thread, VCPU, ControlType, Ret, LocalInv, Local, VcpuLocal, At,
       Goto, CallNotify, Clear, Sig, RecallBy, WeakRecallBy, Unyield, Unlock, cpuVars,
       countVars, loopVars, ReturnsTo, Critical, Stopping, Rounding, Gathering,
       Holding, Resuming, EmulatingLabel, OffLabel, OnLabel, DevLabel, Label,
       LoopInv, Loop, MarkInv, OwnerMarks, MarkedBy, Emulating, CanSwitchOn,
       CanSwitchOff, switch_state_to_on, switch_state_to_off, CanRoundup,
       switch_state_to_roundedup, CanResume, resume, Roundedup, State

(* The owner never takes back a recall: other than by the recall itself, no
   VCPU becomes a recalled one. *)
LEMMA RecallDoneOwner ==
  ASSUME NEW t \in Thread, OwnerStep(t), owner = t, ControlType,
         emulating \in [Thread -> BOOLEAN], LoopInv, ControlType'
  PROVE  (\A u \in VCPU : (RecallDone(u))' => RecallDone(u)) \/ At(t, "ru_recall")
<1> USE NAssumption, ThreadAssumption
    DEF Thread, VCPU, ControlType, LoopInv, Loop, RecallDone, OwnerMarks,
        MarkedBy, OwnerReports, At, Goto, CallNotify, Clear, Sig, RecallBy, WeakRecallBy,
        Unyield, Unlock, cpuVars, countVars, loopVars, ReturnsTo, Critical,
        Stopping, Rounding, Gathering, Holding, Resuming
<1>1. ASSUME NotifySub(t), Critical(t)
      PROVE  (\A u \in VCPU : (RecallDone(u))' => RecallDone(u)) \/ At(t, "ru_recall")
  BY <1>1 DEF NotifySub
<1>2. ASSUME NotifySig(t), Critical(t)
      PROVE  (\A u \in VCPU : (RecallDone(u))' => RecallDone(u)) \/ At(t, "ru_recall")
  BY <1>2 DEF NotifySig
<1>3. ASSUME RoundupCas(t)
      PROVE  (\A u \in VCPU : (RecallDone(u))' => RecallDone(u)) \/ At(t, "ru_recall")
  BY <1>3 DEF RoundupCas
<1>4. ASSUME RoundupRecall(t)
      PROVE  (\A u \in VCPU : (RecallDone(u))' => RecallDone(u)) \/ At(t, "ru_recall")
  BY <1>4 DEF RoundupRecall
<1>5. ASSUME RoundupUnblock(t)
      PROVE  (\A u \in VCPU : (RecallDone(u))' => RecallDone(u)) \/ At(t, "ru_recall")
  BY <1>5, UnblockFrame
<1>6. ASSUME RoundupAllDone(t)
      PROVE  (\A u \in VCPU : (RecallDone(u))' => RecallDone(u)) \/ At(t, "ru_recall")
  BY <1>6 DEF RoundupAllDone
<1>7. ASSUME RoundupTest(t)
      PROVE  (\A u \in VCPU : (RecallDone(u))' => RecallDone(u)) \/ At(t, "ru_recall")
  BY <1>7 DEF RoundupTest
<1>8. ASSUME RoundupWait(t)
      PROVE  (\A u \in VCPU : (RecallDone(u))' => RecallDone(u)) \/ At(t, "ru_recall")
  BY <1>8 DEF RoundupWait
<1>9. ASSUME EndRoundupRead(t)
      PROVE  (\A u \in VCPU : (RecallDone(u))' => RecallDone(u)) \/ At(t, "ru_recall")
  BY <1>9 DEF EndRoundupRead
<1>10. ASSUME EndRoundupStore(t)
      PROVE  (\A u \in VCPU : (RecallDone(u))' => RecallDone(u)) \/ At(t, "ru_recall")
  BY <1>10 DEF EndRoundupStore
<1>11. ASSUME ResumeCas(t)
      PROVE  (\A u \in VCPU : (RecallDone(u))' => RecallDone(u)) \/ At(t, "ru_recall")
  BY <1>11 DEF ResumeCas
<1>12. ASSUME ResumeSig(t)
      PROVE  (\A u \in VCPU : (RecallDone(u))' => RecallDone(u)) \/ At(t, "ru_recall")
  <2>1. i'[t] = i[t] + 1 /\ owner' = t /\ pc[t] = "rs_sig" /\ pc'[t] = "rs_cas"
    BY <1>12 DEF ResumeSig
  <2>2. ASSUME NEW u \in VCPU, (RecallDone(u))' PROVE RecallDone(u)
    <3>1. u \in Nat
      <4> HIDE DEF LoopInv
      <4>. QED OBVIOUS
    <3>2. i[t] \in Nat
      <4> HIDE DEF LoopInv
      <4>. QED OBVIOUS
    <3>3. u >= i[t] + 1
      BY <2>1, <2>2
    <3>4. u > i[t]
      BY <3>1, <3>2, <3>3
    <3>. QED BY <2>1, <3>4
  <2>. QED BY <2>2
<1>13. ASSUME ResumeAllDone(t)
      PROVE  (\A u \in VCPU : (RecallDone(u))' => RecallDone(u)) \/ At(t, "ru_recall")
  BY <1>13 DEF ResumeAllDone
<1>14. ASSUME Resume(t)
      PROVE  (\A u \in VCPU : (RecallDone(u))' => RecallDone(u)) \/ At(t, "ru_recall")
  BY <1>14 DEF Resume
<1>15. ASSUME SignalNextWaiter(t)
      PROVE  (\A u \in VCPU : (RecallDone(u))' => RecallDone(u)) \/ At(t, "ru_recall")
  BY <1>15 DEF SignalNextWaiter
<1>. QED
  BY <1>1, <1>2, <1>3, <1>4, <1>5, <1>6, <1>7, <1>8, <1>9, <1>10, <1>11, <1>12,
     <1>13, <1>14, <1>15
     DEF OwnerStep, NotifyStep, ResumeStep

(* A VCPU that was recalled does not reach the guest: steps outside the
   roundup. *)
LEMMA RecallOutside ==
  ASSUME NEW t \in Thread, OutsideStep(t), ControlType,
         recalled \in [VCPU -> BOOLEAN], LocalInv, MarkInv, RecallInv,
         OwnerSame
  PROVE  RecallInv'
<1>a. \A v \in VCPU : (RecallDone(v))' <=> RecallDone(v)
  BY OwnerFrame
<1>b. \A v \in VCPU : RecallDone(v) => OwnerMarks(v)
  BY DEF RecallDone
<1> USE NAssumption, ThreadAssumption, <1>a, <1>b
    DEF Thread, VCPU, ControlType, Ret, LocalInv, Local, VcpuLocal, RecallInv,
        MarkInv, OnItsWayToGuest, Roundedup, At, Goto, CallNotify, Clear, Sig,
        RecallBy, WeakRecallBy, Unyield, Unlock, cpuVars, countVars, loopVars, ReturnsTo,
        EmulatingLabel, OffLabel, OnLabel, DevLabel, Label
<1>1. ASSUME NotifySub(t), ~Critical(t) PROVE RecallInv'
  BY <1>1 DEF NotifySub
<1>2. ASSUME NotifySig(t), ~Critical(t) PROVE RecallInv'
  BY <1>2 DEF NotifySig
<1>3. ASSUME t \in VCPU, WaitForSwitchOn(t) PROVE RecallInv'
  BY <1>3 DEF WaitForSwitchOn
<1>4. ASSUME t \in VCPU, TurnOn(t) PROVE RecallInv'
  <2> SUFFICES ASSUME NEW u \in VCPU, (RecallDone(u))' PROVE (~At(u, "guest") /\ (OnItsWayToGuest(u) => recalled[u]))'
    OBVIOUS
  <2>1. CASE state[t] = "EMULATE_ROUNDEDUP" /\ u = t
    BY <1>4, <2>1 DEF TurnOn
  <2>2. CASE state[t] = "EMULATE_ROUNDEDUP" /\ u # t
    BY <1>4, <2>2 DEF TurnOn
  <2>3. CASE ~(state[t] = "EMULATE_ROUNDEDUP") /\ u = t
    BY <1>4, <2>3 DEF TurnOn
  <2>4. CASE ~(state[t] = "EMULATE_ROUNDEDUP") /\ u # t
    BY <1>4, <2>4 DEF TurnOn
  <2>. QED BY <2>1, <2>2, <2>3, <2>4
<1>5. ASSUME t \in VCPU, CheckPaused(t) PROVE RecallInv'
  BY <1>5 DEF CheckPaused
<1>6. ASSUME t \in VCPU, TurnOff(t) PROVE RecallInv'
  BY <1>6 DEF TurnOff
<1>7. ASSUME t \in VCPU, BeginEmulationRead(t) PROVE RecallInv'
  BY <1>7 DEF BeginEmulationRead
<1>8. ASSUME t \in VCPU, BeginEmulationCas(t) PROVE RecallInv'
  BY ZenonT(90), <1>8 DEF BeginEmulationCas
<1>9. ASSUME t \in VCPU, WaitForResume(t) PROVE RecallInv'
  BY <1>9 DEF WaitForResume
<1>10. ASSUME t \in VCPU, EndEmulation(t) PROVE RecallInv'
  <2> SUFFICES ASSUME NEW u \in VCPU, (RecallDone(u))' PROVE (~At(u, "guest") /\ (OnItsWayToGuest(u) => recalled[u]))'
    OBVIOUS
  <2>1. CASE state[t] = "EMULATE_ROUNDEDUP" /\ u = t
    BY <1>10, <2>1 DEF EndEmulation
  <2>2. CASE state[t] = "EMULATE_ROUNDEDUP" /\ u # t
    BY <1>10, <2>2 DEF EndEmulation
  <2>3. CASE ~(state[t] = "EMULATE_ROUNDEDUP") /\ u = t
    BY <1>10, <2>3 DEF EndEmulation
  <2>4. CASE ~(state[t] = "EMULATE_ROUNDEDUP") /\ u # t
    BY <1>10, <2>4 DEF EndEmulation
  <2>. QED BY <2>1, <2>2, <2>3, <2>4
<1>11. ASSUME t \in VCPU, EnterGuest(t) PROVE RecallInv'
  BY <1>11 DEF EnterGuest
<1>12. ASSUME t \in VCPU, WfiTest(t) PROVE RecallInv'
  BY <1>12 DEF WfiTest
<1>13. ASSUME t \in VCPU, Block(t) PROVE RecallInv'
  BY <1>13 DEF Block
<1>14. ASSUME t \in VCPU, BlockTimeout(t) PROVE RecallInv'
  BY <1>14 DEF BlockTimeout
<1>15. ASSUME t \in VCPU, Yield(t) PROVE RecallInv'
  BY <1>15 DEF Yield
<1>16. ASSUME t \in Dev, CtrlRecall(t) PROVE RecallInv'
  BY <1>16 DEF CtrlRecall
<1>17. ASSUME t \in Dev, CtrlSwitchOn(t) PROVE RecallInv'
  BY <1>17 DEF CtrlSwitchOn
<1>18. ASSUME t \in Dev, IrqNotify(t) PROVE RecallInv'
  BY <1>18 DEF IrqNotify
<1>19. ASSUME t \in Dev, IrqRecall(t) PROVE RecallInv'
  BY <1>19 DEF IrqRecall
<1>20. ASSUME t \in Dev, IrqUnblock(t) PROVE RecallInv'
  BY <1>20 DEF IrqUnblock
<1>21. ASSUME CallRoundup(t) PROVE RecallInv'
  BY <1>21 DEF CallRoundup
<1>22. ASSUME t \in VCPU, GuestExit(t) PROVE RecallInv'
  BY <1>22 DEF GuestExit
<1>23. ASSUME t \in VCPU, GuestAck(t) PROVE RecallInv'
  BY <1>23 DEF GuestAck
<1>24. ASSUME t \in VCPU, CallWaitForInterrupt(t) PROVE RecallInv'
  <2>1. PICK l \in {"wfi", "emulate_end", "wfi_timed"} : Goto(t, l)
    BY <1>24 DEF CallWaitForInterrupt
  <2>. QED BY <1>24, <2>1 DEF CallWaitForInterrupt
<1>25. ASSUME t \in VCPU, CallRoundupFromVcpu(t) PROVE RecallInv'
  BY <1>25 DEF CallRoundupFromVcpu
<1>26. ASSUME t \in Dev, CtrlFeatureOff(t) PROVE RecallInv'
  BY <1>26 DEF CtrlFeatureOff
<1>27. ASSUME t \in Dev, CtrlFeatureOn(t) PROVE RecallInv'
  BY <1>27 DEF CtrlFeatureOn
<1>28. ASSUME t \in Dev, RaiseInterrupt(t) PROVE RecallInv'
  BY <1>28 DEF RaiseInterrupt
<1>. QED
  BY <1>1, <1>2, <1>3, <1>4, <1>5, <1>6, <1>7, <1>8, <1>9, <1>10, <1>11, <1>12,
     <1>13, <1>14, <1>15, <1>16, <1>17, <1>18, <1>19, <1>20, <1>21, <1>22,
     <1>23, <1>24, <1>25, <1>26, <1>27, <1>28
     DEF OutsideStep, NotifyStep, VcpuStep, DevStep, VcpuChoice, DevChoice

(* The same for the owner, which recalls them. *)
LEMMA RecallOwner ==
  ASSUME NEW t \in Thread, OwnerStep(t), owner = t, ControlType,
         recalled \in [VCPU -> BOOLEAN], LocalInv, RecallInv,
         (\A u \in VCPU : (RecallDone(u))' => RecallDone(u)) \/ At(t, "ru_recall")
  PROVE  RecallInv'
<1> USE NAssumption, ThreadAssumption
    DEF Thread, VCPU, ControlType, Ret, LocalInv, Local, VcpuLocal, At, Goto,
        CallNotify, Clear, Sig, RecallBy, WeakRecallBy, Unyield, Unlock, cpuVars, countVars,
        loopVars, ReturnsTo, Critical, Stopping, Rounding, Gathering, Holding,
        Resuming, EmulatingLabel, OffLabel, OnLabel, DevLabel, Label,
        OnItsWayToGuest, RecallInv
<1>1. ASSUME NotifySub(t), Critical(t) PROVE RecallInv'
  BY ZenonT(90), <1>1 DEF NotifySub
<1>2. ASSUME NotifySig(t), Critical(t) PROVE RecallInv'
  BY <1>2 DEF NotifySig
<1>3. ASSUME RoundupCas(t) PROVE RecallInv'
  BY <1>3 DEF RoundupCas
<1>4. ASSUME RoundupRecall(t) PROVE RecallInv'
  <2> SUFFICES ASSUME NEW u \in VCPU, (RecallDone(u))'
               PROVE  (~At(u, "guest") /\ (OnItsWayToGuest(u) => recalled[u]))'
    OBVIOUS
  <2>1. CASE u = i[t]
    BY <1>4, <2>1 DEF RoundupRecall
  <2>2. CASE u # i[t]
    <3>1. RecallDone(u)
      BY <1>4, <2>2 DEF RoundupRecall, RecallDone, OwnerMarks, MarkedBy
    <3>. QED BY <1>4, <2>2, <3>1 DEF RoundupRecall
  <2>. QED BY <2>1, <2>2
<1>5. ASSUME RoundupUnblock(t) PROVE RecallInv'
  <2> SUFFICES ASSUME NEW u \in VCPU, (RecallDone(u))' PROVE (~At(u, "guest") /\ (OnItsWayToGuest(u) => recalled[u]))'
    OBVIOUS
  <2>1. CASE u = t
    BY ZenonT(90), <1>5, <2>1 DEF RoundupUnblock
  <2>2. CASE u # t
    BY <1>5, <2>2 DEF RoundupUnblock
  <2>. QED BY <2>1, <2>2
<1>6. ASSUME RoundupAllDone(t) PROVE RecallInv'
  BY <1>6 DEF RoundupAllDone
<1>7. ASSUME RoundupTest(t) PROVE RecallInv'
  BY <1>7 DEF RoundupTest
<1>8. ASSUME RoundupWait(t) PROVE RecallInv'
  BY <1>8 DEF RoundupWait
<1>9. ASSUME EndRoundupRead(t) PROVE RecallInv'
  BY <1>9 DEF EndRoundupRead
<1>10. ASSUME EndRoundupStore(t) PROVE RecallInv'
  BY <1>10 DEF EndRoundupStore
<1>11. ASSUME ResumeCas(t) PROVE RecallInv'
  BY <1>11 DEF ResumeCas
<1>12. ASSUME ResumeSig(t) PROVE RecallInv'
  BY <1>12 DEF ResumeSig
<1>13. ASSUME ResumeAllDone(t) PROVE RecallInv'
  BY <1>13 DEF ResumeAllDone
<1>14. ASSUME Resume(t) PROVE RecallInv'
  BY <1>14 DEF Resume
<1>15. ASSUME SignalNextWaiter(t) PROVE RecallInv'
  <2>1. ASSUME NEW u \in VCPU PROVE ~(RecallDone(u))'
    BY <1>15 DEF SignalNextWaiter, RecallDone, OwnerMarks
  <2>. QED BY <2>1
<1>. QED
  BY <1>1, <1>2, <1>3, <1>4, <1>5, <1>6, <1>7, <1>8, <1>9, <1>10, <1>11, <1>12,
     <1>13, <1>14, <1>15
     DEF OwnerStep, NotifyStep, ResumeStep

(* The same for the step that takes _waiter_mutex: nobody is recalled then. *)
LEMMA RecallLock ==
  ASSUME NEW t \in Thread, Lock(t), ControlType, LoopInv
  PROVE  RecallInv'
BY NAssumption, ThreadAssumption
   DEF Lock, RecallInv, Thread, VCPU, ControlType, LoopInv, Loop, RecallDone,
       OwnerMarks, MarkedBy, OwnerReports, At, Goto, CallNotify, Clear, Sig,
       RecallBy, Unyield, Unlock, cpuVars, countVars, loopVars, ReturnsTo,
       Critical, Stopping, Rounding, Gathering, Holding, Resuming

(* Who reports that a VCPU has stopped: end_emulation owes a report only for
   a VCPU that was marked while the roundup is not over, and no VCPU that
   the roundup reports starts to emulate. *)
LEMMA ReportOutside ==
  ASSUME NEW t \in Thread, OutsideStep(t), ControlType, LocalInv, MarkInv,
         ReportInv, QuietInv, OwnerSame
  PROVE  ReportInv'
<1>a. \A v \in VCPU : (OwnerMarks(v))' <=> OwnerMarks(v)
  BY OwnerFrame
<1>b. \A v \in VCPU : (OwnerReports(v))' <=> OwnerReports(v)
  BY OwnerFrame
<1>c. \A v \in VCPU : OwnerMarks(v) => ((Stopping(owner))' <=> Stopping(owner))
  BY OwnerFrame, OwnerFacts
<1>d. \A v \in VCPU : (OwnerReports(v) => OwnerMarks(v))
                     /\ (OwnerMarks(v) => Stopping(owner) \/ Resuming(owner))
  BY OwnerFacts
<1> USE NAssumption, ThreadAssumption, <1>a, <1>b, <1>c, <1>d
    DEF Thread, VCPU, ControlType, Ret, LocalInv, Local, VcpuLocal, ReportInv,
        Report, SelfReport, MarkInv, Progressing, Quiet, QuietInv, Roundedup,
        Emulating, At, Goto, CallNotify, Clear, Sig, RecallBy, WeakRecallBy, Unyield, Unlock,
        cpuVars, countVars, loopVars, ReturnsTo, EmulatingLabel, OffLabel,
        OnLabel, DevLabel, Label, switch_state_to_on, switch_state_to_off,
        State
<1>1. ASSUME NotifySub(t), ~Critical(t) PROVE ReportInv'
  BY <1>1 DEF NotifySub
<1>2. ASSUME NotifySig(t), ~Critical(t) PROVE ReportInv'
  BY <1>2 DEF NotifySig
<1>3. ASSUME t \in VCPU, WaitForSwitchOn(t) PROVE ReportInv'
  BY <1>3 DEF WaitForSwitchOn
<1>4. ASSUME t \in VCPU, TurnOn(t) PROVE ReportInv'
  <2> SUFFICES ASSUME NEW u \in VCPU PROVE (Report(u))'
    OBVIOUS
  <2>1. CASE state[t] = "EMULATE_ROUNDEDUP" /\ u = t
    BY <1>4, <2>1 DEF TurnOn
  <2>2. CASE state[t] = "EMULATE_ROUNDEDUP" /\ u # t
    BY <1>4, <2>2 DEF TurnOn
  <2>3. CASE ~(state[t] = "EMULATE_ROUNDEDUP") /\ u = t
    BY <1>4, <2>3 DEF TurnOn
  <2>4. CASE ~(state[t] = "EMULATE_ROUNDEDUP") /\ u # t
    BY <1>4, <2>4 DEF TurnOn
  <2>. QED BY <2>1, <2>2, <2>3, <2>4
<1>5. ASSUME t \in VCPU, CheckPaused(t) PROVE ReportInv'
  BY <1>5 DEF CheckPaused
<1>6. ASSUME t \in VCPU, TurnOff(t) PROVE ReportInv'
  BY <1>6 DEF TurnOff
<1>7. ASSUME t \in VCPU, BeginEmulationRead(t) PROVE ReportInv'
  BY <1>7 DEF BeginEmulationRead
<1>8. ASSUME t \in VCPU, BeginEmulationCas(t) PROVE ReportInv'
  BY SMTT(60), <1>8 DEF BeginEmulationCas
<1>9. ASSUME t \in VCPU, WaitForResume(t) PROVE ReportInv'
  BY <1>9 DEF WaitForResume
<1>10. ASSUME t \in VCPU, EndEmulation(t) PROVE ReportInv'
  BY ZenonT(90), <1>10 DEF EndEmulation
<1>11. ASSUME t \in VCPU, EnterGuest(t) PROVE ReportInv'
  BY <1>11 DEF EnterGuest
<1>12. ASSUME t \in VCPU, WfiTest(t) PROVE ReportInv'
  BY <1>12 DEF WfiTest
<1>13. ASSUME t \in VCPU, Block(t) PROVE ReportInv'
  BY <1>13 DEF Block
<1>14. ASSUME t \in VCPU, BlockTimeout(t) PROVE ReportInv'
  BY <1>14 DEF BlockTimeout
<1>15. ASSUME t \in VCPU, Yield(t) PROVE ReportInv'
  BY <1>15 DEF Yield
<1>16. ASSUME t \in Dev, CtrlRecall(t) PROVE ReportInv'
  BY <1>16 DEF CtrlRecall
<1>17. ASSUME t \in Dev, CtrlSwitchOn(t) PROVE ReportInv'
  BY <1>17 DEF CtrlSwitchOn
<1>18. ASSUME t \in Dev, IrqNotify(t) PROVE ReportInv'
  BY <1>18 DEF IrqNotify
<1>19. ASSUME t \in Dev, IrqRecall(t) PROVE ReportInv'
  BY <1>19 DEF IrqRecall
<1>20. ASSUME t \in Dev, IrqUnblock(t) PROVE ReportInv'
  BY <1>20 DEF IrqUnblock
<1>21. ASSUME CallRoundup(t) PROVE ReportInv'
  BY <1>21 DEF CallRoundup
<1>22. ASSUME t \in VCPU, GuestExit(t) PROVE ReportInv'
  BY <1>22 DEF GuestExit
<1>23. ASSUME t \in VCPU, GuestAck(t) PROVE ReportInv'
  BY <1>23 DEF GuestAck
<1>24. ASSUME t \in VCPU, CallWaitForInterrupt(t) PROVE ReportInv'
  <2>1. PICK l \in {"wfi", "emulate_end", "wfi_timed"} : Goto(t, l)
    BY <1>24 DEF CallWaitForInterrupt
  <2>. QED BY <1>24, <2>1 DEF CallWaitForInterrupt
<1>25. ASSUME t \in VCPU, CallRoundupFromVcpu(t) PROVE ReportInv'
  BY <1>25 DEF CallRoundupFromVcpu
<1>26. ASSUME t \in Dev, CtrlFeatureOff(t) PROVE ReportInv'
  BY <1>26 DEF CtrlFeatureOff
<1>27. ASSUME t \in Dev, CtrlFeatureOn(t) PROVE ReportInv'
  BY <1>27 DEF CtrlFeatureOn
<1>28. ASSUME t \in Dev, RaiseInterrupt(t) PROVE ReportInv'
  BY <1>28 DEF RaiseInterrupt
<1>. QED
  BY <1>1, <1>2, <1>3, <1>4, <1>5, <1>6, <1>7, <1>8, <1>9, <1>10, <1>11, <1>12,
     <1>13, <1>14, <1>15, <1>16, <1>17, <1>18, <1>19, <1>20, <1>21, <1>22,
     <1>23, <1>24, <1>25, <1>26, <1>27, <1>28
     DEF OutsideStep, NotifyStep, VcpuStep, DevStep, VcpuChoice, DevChoice

(* What the owner has marked stays marked until end_roundup_core. *)
LEMMA OwnerMarksOwner ==
  ASSUME NEW t \in Thread, OwnerStep(t), owner = t, ControlType,
         emulating \in [Thread -> BOOLEAN], LoopInv, ControlType', LocalInv
  PROVE  (\A u \in VCPU : OwnerMarks(u) /\ Stopping(owner) => (OwnerMarks(u) /\ Stopping(owner))')
         \/ At(t, "er_store")
<1> USE NAssumption, ThreadAssumption
    DEF Thread, VCPU, ControlType, LoopInv, Loop, RecallDone, OwnerMarks,
        MarkedBy, OwnerReports, At, Goto, CallNotify, Clear, Sig, RecallBy, WeakRecallBy,
        Unyield, Unlock, cpuVars, countVars, loopVars, ReturnsTo, Critical,
        Stopping, Rounding, Gathering, Holding, Resuming
<1>1. ASSUME NotifySub(t), Critical(t)
      PROVE  (\A u \in VCPU : OwnerMarks(u) /\ Stopping(owner) => (OwnerMarks(u) /\ Stopping(owner))')
         \/ At(t, "er_store")
  BY <1>1 DEF NotifySub
<1>2. ASSUME NotifySig(t), Critical(t)
      PROVE  (\A u \in VCPU : OwnerMarks(u) /\ Stopping(owner) => (OwnerMarks(u) /\ Stopping(owner))')
         \/ At(t, "er_store")
  BY <1>2 DEF NotifySig
<1>3. ASSUME RoundupCas(t)
      PROVE  (\A u \in VCPU : OwnerMarks(u) /\ Stopping(owner) => (OwnerMarks(u) /\ Stopping(owner))')
         \/ At(t, "er_store")
  BY <1>3 DEF RoundupCas
<1>4. ASSUME RoundupRecall(t)
      PROVE  (\A u \in VCPU : OwnerMarks(u) /\ Stopping(owner) => (OwnerMarks(u) /\ Stopping(owner))')
         \/ At(t, "er_store")
  BY <1>4 DEF RoundupRecall
<1>5. ASSUME RoundupUnblock(t)
      PROVE  (\A u \in VCPU : OwnerMarks(u) /\ Stopping(owner) => (OwnerMarks(u) /\ Stopping(owner))')
         \/ At(t, "er_store")
  <2>1. \A u \in VCPU : (OwnerMarks(u))' <=> OwnerMarks(u)
    BY <1>5, UnblockFrame
  <2>2. owner' = t /\ (Rounding(t))'
    BY <1>5 DEF RoundupUnblock
  <2> HIDE DEF OwnerMarks
  <2>. QED BY <2>1, <2>2
<1>6. ASSUME RoundupAllDone(t)
      PROVE  (\A u \in VCPU : OwnerMarks(u) /\ Stopping(owner) => (OwnerMarks(u) /\ Stopping(owner))')
         \/ At(t, "er_store")
  BY <1>6 DEF RoundupAllDone
<1>7. ASSUME RoundupTest(t)
      PROVE  (\A u \in VCPU : OwnerMarks(u) /\ Stopping(owner) => (OwnerMarks(u) /\ Stopping(owner))')
         \/ At(t, "er_store")
  BY <1>7 DEF RoundupTest
<1>8. ASSUME RoundupWait(t)
      PROVE  (\A u \in VCPU : OwnerMarks(u) /\ Stopping(owner) => (OwnerMarks(u) /\ Stopping(owner))')
         \/ At(t, "er_store")
  BY <1>8 DEF RoundupWait
<1>9. ASSUME EndRoundupRead(t)
      PROVE  (\A u \in VCPU : OwnerMarks(u) /\ Stopping(owner) => (OwnerMarks(u) /\ Stopping(owner))')
         \/ At(t, "er_store")
  BY <1>9 DEF EndRoundupRead
<1>10. ASSUME EndRoundupStore(t)
      PROVE  (\A u \in VCPU : OwnerMarks(u) /\ Stopping(owner) => (OwnerMarks(u) /\ Stopping(owner))')
         \/ At(t, "er_store")
  BY <1>10 DEF EndRoundupStore
<1>11. ASSUME ResumeCas(t)
      PROVE  (\A u \in VCPU : OwnerMarks(u) /\ Stopping(owner) => (OwnerMarks(u) /\ Stopping(owner))')
         \/ At(t, "er_store")
  BY <1>11 DEF ResumeCas
<1>12. ASSUME ResumeSig(t)
      PROVE  (\A u \in VCPU : OwnerMarks(u) /\ Stopping(owner) => (OwnerMarks(u) /\ Stopping(owner))')
         \/ At(t, "er_store")
  <2>1. /\ i'[t] = i[t] + 1 /\ owner' = t /\ pc[t] = "rs_sig" /\ pc'[t] = "rs_cas"
    BY <1>12 DEF ResumeSig
  <2>2. ASSUME NEW u \in VCPU PROVE OwnerMarks(u) /\ Stopping(owner) => (OwnerMarks(u) /\ Stopping(owner))'
    BY <2>1
  <2>. QED BY <2>2
<1>13. ASSUME ResumeAllDone(t)
      PROVE  (\A u \in VCPU : OwnerMarks(u) /\ Stopping(owner) => (OwnerMarks(u) /\ Stopping(owner))')
         \/ At(t, "er_store")
  BY <1>13 DEF ResumeAllDone
<1>14. ASSUME Resume(t)
      PROVE  (\A u \in VCPU : OwnerMarks(u) /\ Stopping(owner) => (OwnerMarks(u) /\ Stopping(owner))')
         \/ At(t, "er_store")
  BY <1>14 DEF Resume
<1>15. ASSUME SignalNextWaiter(t)
      PROVE  (\A u \in VCPU : OwnerMarks(u) /\ Stopping(owner) => (OwnerMarks(u) /\ Stopping(owner))')
         \/ At(t, "er_store")
  BY <1>15 DEF SignalNextWaiter
<1>. QED
  BY <1>1, <1>2, <1>3, <1>4, <1>5, <1>6, <1>7, <1>8, <1>9, <1>10, <1>11, <1>12,
     <1>13, <1>14, <1>15
     DEF OwnerStep, NotifyStep, ResumeStep

(* The owner owes a report only for the VCPU whose state it has just
   changed. *)
LEMMA OwnerReportsOwner ==
  ASSUME NEW t \in Thread, OwnerStep(t), owner = t, ControlType,
         emulating \in [Thread -> BOOLEAN], LoopInv, ControlType', LocalInv
  PROVE  (\A u \in VCPU : (OwnerReports(u))' => OwnerReports(u)) \/ (At(t, "ru_cas") /\ i[t] < N)
<1> USE NAssumption, ThreadAssumption
    DEF Thread, VCPU, ControlType, LoopInv, Loop, RecallDone, OwnerMarks,
        MarkedBy, OwnerReports, At, Goto, CallNotify, Clear, Sig, RecallBy, WeakRecallBy,
        Unyield, Unlock, cpuVars, countVars, loopVars, ReturnsTo, Critical,
        Stopping, Rounding, Gathering, Holding, Resuming
<1>1. ASSUME NotifySub(t), Critical(t)
      PROVE  (\A u \in VCPU : (OwnerReports(u))' => OwnerReports(u)) \/ (At(t, "ru_cas") /\ i[t] < N)
  BY <1>1 DEF NotifySub
<1>2. ASSUME NotifySig(t), Critical(t)
      PROVE  (\A u \in VCPU : (OwnerReports(u))' => OwnerReports(u)) \/ (At(t, "ru_cas") /\ i[t] < N)
  BY <1>2 DEF NotifySig
<1>3. ASSUME RoundupCas(t)
      PROVE  (\A u \in VCPU : (OwnerReports(u))' => OwnerReports(u)) \/ (At(t, "ru_cas") /\ i[t] < N)
  BY <1>3 DEF RoundupCas
<1>4. ASSUME RoundupRecall(t)
      PROVE  (\A u \in VCPU : (OwnerReports(u))' => OwnerReports(u)) \/ (At(t, "ru_cas") /\ i[t] < N)
  BY <1>4 DEF RoundupRecall
<1>5. ASSUME RoundupUnblock(t)
      PROVE  (\A u \in VCPU : (OwnerReports(u))' => OwnerReports(u)) \/ (At(t, "ru_cas") /\ i[t] < N)
  BY <1>5, UnblockFrame
<1>6. ASSUME RoundupAllDone(t)
      PROVE  (\A u \in VCPU : (OwnerReports(u))' => OwnerReports(u)) \/ (At(t, "ru_cas") /\ i[t] < N)
  BY <1>6 DEF RoundupAllDone
<1>7. ASSUME RoundupTest(t)
      PROVE  (\A u \in VCPU : (OwnerReports(u))' => OwnerReports(u)) \/ (At(t, "ru_cas") /\ i[t] < N)
  BY <1>7 DEF RoundupTest
<1>8. ASSUME RoundupWait(t)
      PROVE  (\A u \in VCPU : (OwnerReports(u))' => OwnerReports(u)) \/ (At(t, "ru_cas") /\ i[t] < N)
  BY <1>8 DEF RoundupWait
<1>9. ASSUME EndRoundupRead(t)
      PROVE  (\A u \in VCPU : (OwnerReports(u))' => OwnerReports(u)) \/ (At(t, "ru_cas") /\ i[t] < N)
  BY <1>9 DEF EndRoundupRead
<1>10. ASSUME EndRoundupStore(t)
      PROVE  (\A u \in VCPU : (OwnerReports(u))' => OwnerReports(u)) \/ (At(t, "ru_cas") /\ i[t] < N)
  BY <1>10 DEF EndRoundupStore
<1>11. ASSUME ResumeCas(t)
      PROVE  (\A u \in VCPU : (OwnerReports(u))' => OwnerReports(u)) \/ (At(t, "ru_cas") /\ i[t] < N)
  BY <1>11 DEF ResumeCas
<1>12. ASSUME ResumeSig(t)
      PROVE  (\A u \in VCPU : (OwnerReports(u))' => OwnerReports(u)) \/ (At(t, "ru_cas") /\ i[t] < N)
  <2>1. /\ i'[t] = i[t] + 1 /\ owner' = t /\ pc[t] = "rs_sig" /\ pc'[t] = "rs_cas"
    BY <1>12 DEF ResumeSig
  <2>2. ASSUME NEW u \in VCPU PROVE (OwnerReports(u))' => OwnerReports(u)
    BY <2>1
  <2>. QED BY <2>2
<1>13. ASSUME ResumeAllDone(t)
      PROVE  (\A u \in VCPU : (OwnerReports(u))' => OwnerReports(u)) \/ (At(t, "ru_cas") /\ i[t] < N)
  BY <1>13 DEF ResumeAllDone
<1>14. ASSUME Resume(t)
      PROVE  (\A u \in VCPU : (OwnerReports(u))' => OwnerReports(u)) \/ (At(t, "ru_cas") /\ i[t] < N)
  BY <1>14 DEF Resume
<1>15. ASSUME SignalNextWaiter(t)
      PROVE  (\A u \in VCPU : (OwnerReports(u))' => OwnerReports(u)) \/ (At(t, "ru_cas") /\ i[t] < N)
  BY <1>15 DEF SignalNextWaiter
<1>. QED
  BY <1>1, <1>2, <1>3, <1>4, <1>5, <1>6, <1>7, <1>8, <1>9, <1>10, <1>11, <1>12,
     <1>13, <1>14, <1>15
     DEF OwnerStep, NotifyStep, ResumeStep

(* The same as ReportOutside for the steps of the owner. *)
LEMMA ReportOwner ==
  ASSUME NEW t \in Thread, OwnerStep(t), owner = t, ControlType,
         emulating \in [Thread -> BOOLEAN], LocalInv, ReportInv, MarkInv,
         QuietInv,
         (\A u \in VCPU : OwnerMarks(u) /\ Stopping(owner) => (OwnerMarks(u) /\ Stopping(owner))') \/ At(t, "er_store"),
         (\A u \in VCPU : (OwnerReports(u))' => OwnerReports(u)) \/ (At(t, "ru_cas") /\ i[t] < N)
  PROVE  ReportInv'
<1> USE NAssumption, ThreadAssumption
    DEF Thread, VCPU, ControlType, Ret, LocalInv, Local, VcpuLocal, At, Goto,
        CallNotify, Clear, Sig, RecallBy, WeakRecallBy, Unyield, Unlock, cpuVars, countVars,
        loopVars, ReturnsTo, Critical, Stopping, Rounding, Gathering, Holding,
        Resuming, EmulatingLabel, OffLabel, OnLabel, DevLabel, Label,
        ReportInv, Report, SelfReport, Emulating, switch_state_to_roundedup,
        resume, State
<1>1. ASSUME NotifySub(t), Critical(t) PROVE ReportInv'
  BY ZenonT(90), <1>1 DEF NotifySub
<1>2. ASSUME NotifySig(t), Critical(t) PROVE ReportInv'
  BY <1>2 DEF NotifySig
<1>3. ASSUME RoundupCas(t) PROVE ReportInv'
  <2> SUFFICES ASSUME NEW u \in VCPU PROVE (Report(u))'
    OBVIOUS
  <2>1. owner' = t /\ pc' = [pc EXCEPT ![t] = "ru_recall"] /\ ret' = ret /\ pc[t] = "ru_cas"
    BY <1>3 DEF RoundupCas
  <2>2. (SelfReport(u))' => SelfReport(u) /\ u # t
    BY <2>1
  <2>3. SelfReport(u) => (OwnerMarks(u) /\ Stopping(owner))'
    BY <1>3 DEF RoundupCas
  <2>4. ASSUME (OwnerReports(u))' PROVE ~Emulating(state'[u]) /\ ~SelfReport(u)
    <3>1. u = i[t] /\ ~emulating'[t]
      BY <2>1, <2>4, <1>3 DEF OwnerReports, RoundupCas
    <3>2. state[u] # "EMULATE"
      BY <1>3, <3>1 DEF RoundupCas
    <3>3. ~OwnerMarks(u)
      BY <2>1, <3>1 DEF OwnerMarks, MarkedBy, VCPU
    <3>. QED BY <1>3, <3>1, <3>2, <3>3 DEF RoundupCas, CanRoundup
  <2>. QED BY <2>2, <2>3, <2>4
<1>4. ASSUME RoundupRecall(t) PROVE ReportInv'
  BY <1>4 DEF RoundupRecall
<1>5. ASSUME RoundupUnblock(t) PROVE ReportInv'
  <2> SUFFICES ASSUME NEW u \in VCPU PROVE (Report(u))'
    OBVIOUS
  <2>1. CASE u = t
    BY ZenonT(90), <1>5, <2>1 DEF RoundupUnblock
  <2>2. CASE u # t
    BY ZenonT(90), <1>5, <2>2 DEF RoundupUnblock
  <2>. QED BY <2>1, <2>2
<1>6. ASSUME RoundupAllDone(t) PROVE ReportInv'
  BY <1>6 DEF RoundupAllDone
<1>7. ASSUME RoundupTest(t) PROVE ReportInv'
  BY <1>7 DEF RoundupTest
<1>8. ASSUME RoundupWait(t) PROVE ReportInv'
  BY <1>8 DEF RoundupWait
<1>9. ASSUME EndRoundupRead(t) PROVE ReportInv'
  BY <1>9 DEF EndRoundupRead
<1>10. ASSUME EndRoundupStore(t) PROVE ReportInv'
  <2> SUFFICES ASSUME NEW u \in VCPU PROVE (Report(u))'
    OBVIOUS
  <2>1. owner' = t /\ pc' = [pc EXCEPT ![t] = "rs_cas"] /\ ret' = ret /\ pc[t] = "er_store" /\ state' = state
    BY <1>10 DEF EndRoundupStore
  <2>2. (SelfReport(u))' => SelfReport(u) /\ u # t
    BY <2>1
  <2>3. ~SelfReport(u)
    BY <2>1 DEF QuietInv, Quiet
  <2>4. ~(OwnerReports(u))'
    BY <2>1 DEF OwnerReports
  <2>. QED BY <2>2, <2>3, <2>4
<1>11. ASSUME ResumeCas(t) PROVE ReportInv'
  <2> SUFFICES ASSUME NEW u \in VCPU PROVE (Report(u))'
    OBVIOUS
  <2>1. owner' = t /\ pc' = [pc EXCEPT ![t] = "rs_sig"] /\ ret' = ret /\ pc[t] = "rs_cas"
    BY <1>11 DEF ResumeCas
  <2>2. (SelfReport(u))' => SelfReport(u) /\ ~Stopping(owner)
    BY <2>1
  <2>3. ~(OwnerReports(u))'
    BY <2>1 DEF OwnerReports
  <2>. QED BY <2>2, <2>3
<1>12. ASSUME ResumeSig(t) PROVE ReportInv'
  BY <1>12 DEF ResumeSig
<1>13. ASSUME ResumeAllDone(t) PROVE ReportInv'
  BY <1>13 DEF ResumeAllDone
<1>14. ASSUME Resume(t) PROVE ReportInv'
  BY <1>14 DEF Resume
<1>15. ASSUME SignalNextWaiter(t) PROVE ReportInv'
  BY <1>15 DEF SignalNextWaiter
<1>. QED
  BY <1>1, <1>2, <1>3, <1>4, <1>5, <1>6, <1>7, <1>8, <1>9, <1>10, <1>11, <1>12,
     <1>13, <1>14, <1>15
     DEF OwnerStep, NotifyStep, ResumeStep

(* The same for the step that takes _waiter_mutex: the roundup owes no
   report yet. *)
LEMMA ReportLock ==
  ASSUME NEW t \in Thread, Lock(t), ControlType, LocalInv, ReportInv
  PROVE  ReportInv'
BY NAssumption, ThreadAssumption
   DEF Lock, Thread, VCPU, ControlType, Ret, LocalInv, Local, VcpuLocal, At,
       Goto, CallNotify, Clear, Sig, RecallBy, WeakRecallBy, Unyield, Unlock, cpuVars,
       countVars, loopVars, ReturnsTo, Critical, Stopping, Rounding, Gathering,
       Holding, Resuming, EmulatingLabel, OffLabel, OnLabel, DevLabel, Label,
       ReportInv, Report, SelfReport, OwnerReports, OwnerMarks

(* A VCPU that has stopped for a roundup stays quiet until it is resumed,
   whatever the other threads do. *)
LEMMA QuietOutside ==
  ASSUME NEW t \in Thread, OutsideStep(t), ControlType,
         recalled \in [VCPU -> BOOLEAN], LocalInv, MarkInv, RecallInv,
         QuietInv, OwnerSame
  PROVE  QuietInv'
<1>a. \A v \in VCPU : (OwnerMarks(v))' <=> OwnerMarks(v)
  BY OwnerFrame
<1>b. \A v \in VCPU : OwnerMarks(v) => ((Holding(owner) \/ Resuming(owner))'
                                         <=> Holding(owner) \/ Resuming(owner))
  BY OwnerFrame, OwnerFacts
<1>c. \A v \in VCPU : OwnerMarks(v) /\ (Holding(owner) \/ Resuming(owner)) => RecallDone(v)
  BY OwnerFacts
<1> USE NAssumption, ThreadAssumption, <1>a, <1>b, <1>c
    DEF Thread, VCPU, ControlType, Ret, LocalInv, Local, VcpuLocal, RecallInv,
        OnItsWayToGuest, MarkInv, Progressing, Quiet, QuietInv, Roundedup, At,
        Goto, CallNotify, Clear, Sig, RecallBy, WeakRecallBy, Unyield, Unlock, cpuVars,
        countVars, loopVars, ReturnsTo, EmulatingLabel, OffLabel, OnLabel,
        DevLabel, Label, State
<1>1. ASSUME NotifySub(t), ~Critical(t) PROVE QuietInv'
  <2> SUFFICES ASSUME NEW u \in VCPU, (OwnerMarks(u) /\ (Holding(owner) \/ Resuming(owner)))' PROVE (Quiet(u))'
    OBVIOUS
  <2>1. CASE vcpus_progressing = 1 /\ u = t
    BY <1>1, <2>1 DEF NotifySub
  <2>2. CASE vcpus_progressing = 1 /\ u # t
    BY <1>1, <2>2 DEF NotifySub
  <2>3. CASE vcpus_progressing # 1 /\ u = t
    BY <1>1, <2>3 DEF NotifySub
  <2>4. CASE vcpus_progressing # 1 /\ u # t
    BY <1>1, <2>4 DEF NotifySub
  <2>. QED BY <2>1, <2>2, <2>3, <2>4
<1>2. ASSUME NotifySig(t), ~Critical(t) PROVE QuietInv'
  BY <1>2 DEF NotifySig
<1>3. ASSUME t \in VCPU, WaitForSwitchOn(t) PROVE QuietInv'
  BY <1>3 DEF WaitForSwitchOn
<1>4. ASSUME t \in VCPU, TurnOn(t) PROVE QuietInv'
  <2> SUFFICES ASSUME NEW u \in VCPU, (OwnerMarks(u) /\ (Holding(owner) \/ Resuming(owner)))' PROVE (Quiet(u))'
    OBVIOUS
  <2>1. CASE state[t] = "EMULATE_ROUNDEDUP" /\ u = t
    BY <1>4, <2>1 DEF TurnOn
  <2>2. CASE state[t] = "EMULATE_ROUNDEDUP" /\ u # t
    BY <1>4, <2>2 DEF TurnOn
  <2>3. CASE ~(state[t] = "EMULATE_ROUNDEDUP") /\ u = t
    BY <1>4, <2>3 DEF TurnOn
  <2>4. CASE ~(state[t] = "EMULATE_ROUNDEDUP") /\ u # t
    BY <1>4, <2>4 DEF TurnOn
  <2>. QED BY <2>1, <2>2, <2>3, <2>4
<1>5. ASSUME t \in VCPU, CheckPaused(t) PROVE QuietInv'
  BY <1>5 DEF CheckPaused
<1>6. ASSUME t \in VCPU, TurnOff(t) PROVE QuietInv'
  BY <1>6 DEF TurnOff
<1>7. ASSUME t \in VCPU, BeginEmulationRead(t) PROVE QuietInv'
  BY <1>7 DEF BeginEmulationRead
<1>8. ASSUME t \in VCPU, BeginEmulationCas(t) PROVE QuietInv'
  <2> SUFFICES ASSUME NEW u \in VCPU, (OwnerMarks(u) /\ (Holding(owner) \/ Resuming(owner)))' PROVE (Quiet(u))'
    OBVIOUS
  <2>1. CASE state[t] = "ON" /\ u = t
    BY <1>8, <2>1 DEF BeginEmulationCas
  <2>2. CASE state[t] = "ON" /\ u # t
    BY <1>8, <2>2 DEF BeginEmulationCas
  <2>3. CASE ~(state[t] = "ON") /\ u = t
    BY <1>8, <2>3 DEF BeginEmulationCas
  <2>4. CASE ~(state[t] = "ON") /\ u # t
    BY <1>8, <2>4 DEF BeginEmulationCas
  <2>. QED BY <2>1, <2>2, <2>3, <2>4
<1>9. ASSUME t \in VCPU, WaitForResume(t) PROVE QuietInv'
  BY <1>9 DEF WaitForResume
<1>10. ASSUME t \in VCPU, EndEmulation(t) PROVE QuietInv'
  BY <1>10 DEF EndEmulation
<1>11. ASSUME t \in VCPU, EnterGuest(t) PROVE QuietInv'
  BY <1>11 DEF EnterGuest
<1>12. ASSUME t \in VCPU, WfiTest(t) PROVE QuietInv'
  BY <1>12 DEF WfiTest
<1>13. ASSUME t \in VCPU, Block(t) PROVE QuietInv'
  BY <1>13 DEF Block
<1>14. ASSUME t \in VCPU, BlockTimeout(t) PROVE QuietInv'
  BY <1>14 DEF BlockTimeout
<1>15. ASSUME t \in VCPU, Yield(t) PROVE QuietInv'
  BY <1>15 DEF Yield
<1>16. ASSUME t \in Dev, CtrlRecall(t) PROVE QuietInv'
  BY <1>16 DEF CtrlRecall
<1>17. ASSUME t \in Dev, CtrlSwitchOn(t) PROVE QuietInv'
  BY <1>17 DEF CtrlSwitchOn
<1>18. ASSUME t \in Dev, IrqNotify(t) PROVE QuietInv'
  BY <1>18 DEF IrqNotify
<1>19. ASSUME t \in Dev, IrqRecall(t) PROVE QuietInv'
  BY <1>19 DEF IrqRecall
<1>20. ASSUME t \in Dev, IrqUnblock(t) PROVE QuietInv'
  BY <1>20 DEF IrqUnblock
<1>21. ASSUME CallRoundup(t) PROVE QuietInv'
  BY <1>21 DEF CallRoundup
<1>22. ASSUME t \in VCPU, GuestExit(t) PROVE QuietInv'
  BY <1>22 DEF GuestExit
<1>23. ASSUME t \in VCPU, GuestAck(t) PROVE QuietInv'
  BY <1>23 DEF GuestAck
<1>24. ASSUME t \in VCPU, CallWaitForInterrupt(t) PROVE QuietInv'
  <2>1. PICK l \in {"wfi", "emulate_end", "wfi_timed"} : Goto(t, l)
    BY <1>24 DEF CallWaitForInterrupt
  <2>. QED BY <1>24, <2>1 DEF CallWaitForInterrupt
<1>25. ASSUME t \in VCPU, CallRoundupFromVcpu(t) PROVE QuietInv'
  BY <1>25 DEF CallRoundupFromVcpu
<1>26. ASSUME t \in Dev, CtrlFeatureOff(t) PROVE QuietInv'
  BY <1>26 DEF CtrlFeatureOff
<1>27. ASSUME t \in Dev, CtrlFeatureOn(t) PROVE QuietInv'
  BY <1>27 DEF CtrlFeatureOn
<1>28. ASSUME t \in Dev, RaiseInterrupt(t) PROVE QuietInv'
  BY <1>28 DEF RaiseInterrupt
<1>. QED
  BY <1>1, <1>2, <1>3, <1>4, <1>5, <1>6, <1>7, <1>8, <1>9, <1>10, <1>11, <1>12,
     <1>13, <1>14, <1>15, <1>16, <1>17, <1>18, <1>19, <1>20, <1>21, <1>22,
     <1>23, <1>24, <1>25, <1>26, <1>27, <1>28
     DEF OutsideStep, NotifyStep, VcpuStep, DevStep, VcpuChoice, DevChoice

(* The roundup returns when vcpus_progressing is 0, which is when every VCPU
   is quiet; nothing the owner does before it resumes a VCPU changes that. *)
LEMMA QuietOwner ==
  ASSUME NEW t \in Thread, OwnerStep(t), owner = t, ControlType, LocalInv,
         QuietInv, OneRoundup,
         vcpus_progressing = 0 /\ At(t, "ru_test") => \A u \in VCPU : Quiet(u)
  PROVE  QuietInv'
<1> USE NAssumption, ThreadAssumption
    DEF Thread, VCPU, ControlType, Ret, LocalInv, Local, VcpuLocal, At, Goto,
        CallNotify, Clear, Sig, RecallBy, WeakRecallBy, Unyield, Unlock, cpuVars, countVars,
        loopVars, ReturnsTo, Critical, Stopping, Rounding, Gathering, Holding,
        Resuming, EmulatingLabel, OffLabel, OnLabel, DevLabel, Label, QuietInv,
        Quiet, Progressing, OwnerMarks, MarkedBy
<1>1. ASSUME NotifySub(t), Critical(t) PROVE QuietInv'
  BY ZenonT(90), <1>1 DEF NotifySub
<1>2. ASSUME NotifySig(t), Critical(t) PROVE QuietInv'
  BY <1>2 DEF NotifySig
<1>3. ASSUME RoundupCas(t) PROVE QuietInv'
  BY <1>3 DEF RoundupCas
<1>4. ASSUME RoundupRecall(t) PROVE QuietInv'
  BY <1>4 DEF RoundupRecall
<1>5. ASSUME RoundupUnblock(t) PROVE QuietInv'
  <2>1. owner' = t /\ pc'[t] \in {"ru_cas", "notify_sub"}
    BY <1>5 DEF RoundupUnblock
  <2>. QED BY <2>1
<1>6. ASSUME RoundupAllDone(t) PROVE QuietInv'
  BY <1>6 DEF RoundupAllDone
<1>7. ASSUME RoundupTest(t) PROVE QuietInv'
  <2>1. CASE vcpus_progressing # 0
    BY <1>7, <2>1 DEF RoundupTest
  <2>2. CASE vcpus_progressing = 0
    <3>1. pc' = [pc EXCEPT ![t] = "held"] /\ owner' = t /\ pc[t] = "ru_test" /\ ret' = ret
      BY <1>7, <2>2 DEF RoundupTest
    <3>2. ASSUME NEW u \in VCPU PROVE Quiet(u)
      BY <2>2, <3>1
    <3>. QED BY <3>1, <3>2
  <2>. QED BY <2>1, <2>2
<1>8. ASSUME RoundupWait(t) PROVE QuietInv'
  BY <1>8 DEF RoundupWait
<1>9. ASSUME EndRoundupRead(t) PROVE QuietInv'
  BY <1>9 DEF EndRoundupRead
<1>10. ASSUME EndRoundupStore(t) PROVE QuietInv'
  BY <1>10 DEF EndRoundupStore
<1>11. ASSUME ResumeCas(t) PROVE QuietInv'
  <2> SUFFICES ASSUME NEW u \in VCPU, (OwnerMarks(u) /\ (Holding(owner) \/ Resuming(owner)))' PROVE (Quiet(u))'
    OBVIOUS
  <2>1. CASE u = t
    BY <1>11, <2>1 DEF ResumeCas
  <2>2. CASE u # t
    BY <1>11, <2>2 DEF ResumeCas
  <2>. QED BY <2>1, <2>2
<1>12. ASSUME ResumeSig(t) PROVE QuietInv'
  <2> SUFFICES ASSUME NEW u \in VCPU, (OwnerMarks(u) /\ (Holding(owner) \/ Resuming(owner)))' PROVE (Quiet(u))'
    OBVIOUS
  <2>1. CASE u = t
    BY <1>12, <2>1 DEF ResumeSig
  <2>2. CASE u # t
    BY SMTT(60), <1>12, <2>2 DEF ResumeSig
  <2>. QED BY <2>1, <2>2
<1>13. ASSUME ResumeAllDone(t) PROVE QuietInv'
  BY <1>13 DEF ResumeAllDone
<1>14. ASSUME Resume(t) PROVE QuietInv'
  BY ZenonT(90), <1>14 DEF Resume
<1>15. ASSUME SignalNextWaiter(t) PROVE QuietInv'
  BY <1>15 DEF SignalNextWaiter
<1>. QED
  BY <1>1, <1>2, <1>3, <1>4, <1>5, <1>6, <1>7, <1>8, <1>9, <1>10, <1>11, <1>12,
     <1>13, <1>14, <1>15
     DEF OwnerStep, NotifyStep, ResumeStep

(* The same for the step that takes _waiter_mutex: the roundup has not
   returned. *)
LEMMA QuietLock ==
  ASSUME NEW t \in Thread, Lock(t), ControlType, LocalInv, QuietInv, OneRoundup
  PROVE  QuietInv'
BY NAssumption, ThreadAssumption
   DEF Lock, Thread, VCPU, ControlType, Ret, LocalInv, Local, VcpuLocal, At,
       Goto, CallNotify, Clear, Sig, RecallBy, WeakRecallBy, Unyield, Unlock, cpuVars,
       countVars, loopVars, ReturnsTo, Critical, Stopping, Rounding, Gathering,
       Holding, Resuming, EmulatingLabel, OffLabel, OnLabel, DevLabel, Label,
       QuietInv, Quiet, Progressing, OwnerMarks, MarkedBy

-----------------------------------------------------------------------------
(* The counters *)

(* Stopped, with the thread that stops v named. *)
OwnerStops(v) ==
  /\ OwnerMarks(v)
  /\ Stopping(owner)
  /\ ~Emulating(state[v])
  /\ ~SelfReport(v)
  /\ ~OwnerReports(v)

Stops(v) == Queued(v) \/ Stopping(v) \/ OwnerStops(v)

Running == {v \in VCPU : ~Stops(v)}
Waiting == {v \in VCPU : Waiter(v)}

(* CountersExact, said of these. *)
Counted == /\ vcpus_progressing = Cardinality(Running)
           /\ vcpu_waiters = Cardinality(Waiting)

(* TypeOK without the counters, whose bounds follow from Counted. *)
DataType ==
  /\ state \in [VCPU -> State]
  /\ paused \in [VCPU -> SUBSET Requestor]
  /\ off_sm \in [VCPU -> BOOLEAN]
  /\ resume_sig \in [VCPU -> BOOLEAN]
  /\ irq \in [VCPU -> BOOLEAN]
  /\ irq_sig \in [VCPU -> BOOLEAN]
  /\ recalled \in [VCPU -> BOOLEAN]
  /\ owner \in Thread \cup {NoThread}
  /\ sig_emulating \in BOOLEAN
  /\ pc \in [Thread -> Label]
  /\ ret \in [Thread -> Ret]
  /\ i \in [Thread -> 0 .. N]
  /\ emulating \in [Thread -> BOOLEAN]
  /\ num_waiters \in [Thread -> 0 .. N]
  /\ target \in [Dev -> VCPU]

(* The VCPU whose stop a call of vcpu_notify_done_progressing reports: the
   caller itself, or the one roundup_all has just dealt with. *)
Reported(t) == IF Critical(t) THEN i[t] - 1 ELSE t

(* TypeOK is DataType and the bounds of the counters. *)
LEMMA TypeSplit ==
  TypeOK <=> DataType /\ vcpus_progressing \in 0 .. N /\ vcpu_waiters \in 0 .. N
BY DEF TypeOK, DataType, Ret

(* The typing facts that the lemmas of the first part assume. *)
LEMMA TypeFacts ==
  DataType => /\ ControlType
              /\ recalled \in [VCPU -> BOOLEAN]
              /\ emulating \in [Thread -> BOOLEAN]
              /\ num_waiters \in [Thread -> Int]
              /\ i \in [Thread -> 0 .. N]
BY NAssumption DEF DataType, ControlType

(* Every step outside the roundup preserves the types; in particular
   vcpu_notify_done_progressing always has a place to return to. *)
LEMMA TypeOutside ==
  ASSUME NEW t \in Thread, OutsideStep(t), DataType, LocalInv
  PROVE  DataType'
<1> USE NAssumption, ThreadAssumption
    DEF Thread, DataType, LocalInv, Local, VcpuLocal, At, Goto, CallNotify,
        Clear, Sig, RecallBy, WeakRecallBy, Unyield, Unlock, cpuVars, countVars, loopVars,
        ReturnsTo, EmulatingLabel, OffLabel, OnLabel, DevLabel, Label, Ret,
        Emulating, CanSwitchOn, CanSwitchOff, switch_state_to_on,
        switch_state_to_off, CanRoundup, switch_state_to_roundedup, CanResume,
        resume, Roundedup, State
<1>1. ASSUME NotifySub(t), ~Critical(t) PROVE DataType'
  <2>1. ret[t] \in Label
    BY <1>1 DEF NotifySub
  <2>2. CASE vcpus_progressing = 1
    BY SMTT(60), <1>1, <2>2 DEF NotifySub
  <2>3. CASE vcpus_progressing # 1
    BY ZenonT(90), <1>1, <2>1, <2>3 DEF NotifySub
  <2>. QED BY <2>2, <2>3
<1>2. ASSUME NotifySig(t), ~Critical(t) PROVE DataType'
  BY <1>2 DEF NotifySig
<1>3. ASSUME t \in VCPU, WaitForSwitchOn(t) PROVE DataType'
  BY <1>3 DEF WaitForSwitchOn
<1>4. ASSUME t \in VCPU, TurnOn(t) PROVE DataType'
  <2>1. state' \in [VCPU -> State]
    BY <1>4 DEF TurnOn
  <2>2. pc' \in [Thread -> Label]
    BY <1>4 DEF TurnOn
  <2>3. ret' \in [Thread -> Ret]
    BY <1>4 DEF TurnOn
  <2>4. UNCHANGED <<countVars, loopVars, target, paused, off_sm, resume_sig, irq, irq_sig, recalled>>
    BY <1>4 DEF TurnOn
  <2>. QED BY <2>1, <2>2, <2>3, <2>4
<1>5. ASSUME t \in VCPU, CheckPaused(t) PROVE DataType'
  BY <1>5 DEF CheckPaused
<1>6. ASSUME t \in VCPU, TurnOff(t) PROVE DataType'
  BY <1>6 DEF TurnOff
<1>7. ASSUME t \in VCPU, BeginEmulationRead(t) PROVE DataType'
  BY <1>7 DEF BeginEmulationRead
<1>8. ASSUME t \in VCPU, BeginEmulationCas(t) PROVE DataType'
  BY <1>8 DEF BeginEmulationCas
<1>9. ASSUME t \in VCPU, WaitForResume(t) PROVE DataType'
  BY <1>9 DEF WaitForResume
<1>10. ASSUME t \in VCPU, EndEmulation(t) PROVE DataType'
  <2>1. state' \in [VCPU -> State]
    BY <1>10 DEF EndEmulation
  <2>2. pc' \in [Thread -> Label]
    BY <1>10 DEF EndEmulation
  <2>3. ret' \in [Thread -> Ret]
    BY <1>10 DEF EndEmulation
  <2>4. UNCHANGED <<countVars, loopVars, target, paused, off_sm, resume_sig, irq, irq_sig, recalled>>
    BY <1>10 DEF EndEmulation
  <2>. QED BY <2>1, <2>2, <2>3, <2>4
<1>11. ASSUME t \in VCPU, EnterGuest(t) PROVE DataType'
  BY <1>11 DEF EnterGuest
<1>12. ASSUME t \in VCPU, WfiTest(t) PROVE DataType'
  BY <1>12 DEF WfiTest
<1>13. ASSUME t \in VCPU, Block(t) PROVE DataType'
  BY <1>13 DEF Block
<1>14. ASSUME t \in VCPU, BlockTimeout(t) PROVE DataType'
  BY <1>14 DEF BlockTimeout
<1>15. ASSUME t \in VCPU, Yield(t) PROVE DataType'
  BY <1>15 DEF Yield
<1>16. ASSUME t \in Dev, CtrlRecall(t) PROVE DataType'
  BY <1>16 DEF CtrlRecall
<1>17. ASSUME t \in Dev, CtrlSwitchOn(t) PROVE DataType'
  BY <1>17 DEF CtrlSwitchOn
<1>18. ASSUME t \in Dev, IrqNotify(t) PROVE DataType'
  BY <1>18 DEF IrqNotify
<1>19. ASSUME t \in Dev, IrqRecall(t) PROVE DataType'
  BY <1>19 DEF IrqRecall
<1>20. ASSUME t \in Dev, IrqUnblock(t) PROVE DataType'
  BY <1>20 DEF IrqUnblock
<1>21. ASSUME CallRoundup(t) PROVE DataType'
  BY <1>21 DEF CallRoundup
<1>22. ASSUME t \in VCPU, GuestExit(t) PROVE DataType'
  BY <1>22 DEF GuestExit
<1>23. ASSUME t \in VCPU, GuestAck(t) PROVE DataType'
  BY <1>23 DEF GuestAck
<1>24. ASSUME t \in VCPU, CallWaitForInterrupt(t) PROVE DataType'
  <2>1. PICK l \in {"wfi", "emulate_end", "wfi_timed"} : Goto(t, l)
    BY <1>24 DEF CallWaitForInterrupt
  <2>. QED BY <1>24, <2>1 DEF CallWaitForInterrupt
<1>25. ASSUME t \in VCPU, CallRoundupFromVcpu(t) PROVE DataType'
  BY <1>25 DEF CallRoundupFromVcpu
<1>26. ASSUME t \in Dev, CtrlFeatureOff(t) PROVE DataType'
  BY <1>26 DEF CtrlFeatureOff
<1>27. ASSUME t \in Dev, CtrlFeatureOn(t) PROVE DataType'
  BY <1>27 DEF CtrlFeatureOn
<1>28. ASSUME t \in Dev, RaiseInterrupt(t) PROVE DataType'
  BY <1>28 DEF RaiseInterrupt
<1>. QED
  BY <1>1, <1>2, <1>3, <1>4, <1>5, <1>6, <1>7, <1>8, <1>9, <1>10, <1>11, <1>12,
     <1>13, <1>14, <1>15, <1>16, <1>17, <1>18, <1>19, <1>20, <1>21, <1>22,
     <1>23, <1>24, <1>25, <1>26, <1>27, <1>28
     DEF OutsideStep, NotifyStep, VcpuStep, DevStep, VcpuChoice, DevChoice

(* The same for the owner, whose loop variable does not pass N. *)
LEMMA TypeOwner ==
  ASSUME NEW t \in Thread, OwnerStep(t), owner = t, DataType, LocalInv,
         vcpu_waiters \in 0 .. N,
         \A u \in Thread : pc[u] \in {"ru_unblock", "rs_sig"} => i[u] < N
  PROVE  DataType'
<1> USE NAssumption, ThreadAssumption
    DEF Thread, DataType, LocalInv, Local, VcpuLocal, At, Goto, CallNotify,
        Clear, Sig, RecallBy, WeakRecallBy, Unyield, Unlock, cpuVars, countVars, loopVars,
        ReturnsTo, EmulatingLabel, OffLabel, OnLabel, DevLabel, Label, Ret,
        Emulating, CanSwitchOn, CanSwitchOff, switch_state_to_on,
        switch_state_to_off, CanRoundup, switch_state_to_roundedup, CanResume,
        resume, Roundedup, State, Critical, Stopping, Resuming, Rounding,
        Gathering, Holding
<1>1. ASSUME NotifySub(t), Critical(t) PROVE DataType'
  <2>1. ret[t] \in Label
    BY <1>1 DEF NotifySub
  <2>2. CASE vcpus_progressing = 1
    BY <1>1, <2>2 DEF NotifySub
  <2>3. CASE vcpus_progressing # 1
    BY <1>1, <2>1, <2>3 DEF NotifySub
  <2>. QED BY <2>2, <2>3
<1>2. ASSUME NotifySig(t), Critical(t) PROVE DataType'
  BY <1>2 DEF NotifySig
<1>3. ASSUME RoundupCas(t) PROVE DataType'
  BY <1>3 DEF RoundupCas
<1>4. ASSUME RoundupRecall(t) PROVE DataType'
  BY <1>4 DEF RoundupRecall
<1>5. ASSUME RoundupUnblock(t) PROVE DataType'
  <2>1. i[t] \in 0 .. N /\ i[t] < N
    BY <1>5 DEF RoundupUnblock
  <2>2. i[t] + 1 \in 0 .. N
    BY <2>1, NAssumption
  <2>3. i' \in [Thread -> 0 .. N]
    BY <1>5, <2>2 DEF RoundupUnblock
  <2>4. CASE emulating[t]
    <3>1. pc' \in [Thread -> Label]
      BY <1>5, <2>4 DEF RoundupUnblock
    <3>2. ret' \in [Thread -> Ret]
      BY <1>5, <2>4 DEF RoundupUnblock
    <3>3. emulating' \in [Thread -> BOOLEAN] /\ irq_sig' \in [VCPU -> BOOLEAN]
      BY <1>5 DEF RoundupUnblock
    <3>4. UNCHANGED <<countVars, num_waiters, target, state, paused, off_sm, resume_sig, irq, recalled>>
      BY <1>5 DEF RoundupUnblock
    <3>. QED BY <2>3, <3>1, <3>2, <3>3, <3>4
  <2>5. CASE ~emulating[t]
    <3>1. pc' \in [Thread -> Label]
      BY <1>5, <2>5 DEF RoundupUnblock
    <3>2. ret' \in [Thread -> Ret]
      BY <1>5, <2>5 DEF RoundupUnblock
    <3>3. emulating' \in [Thread -> BOOLEAN] /\ irq_sig' \in [VCPU -> BOOLEAN]
      BY <1>5 DEF RoundupUnblock
    <3>4. UNCHANGED <<countVars, num_waiters, target, state, paused, off_sm, resume_sig, irq, recalled>>
      BY <1>5 DEF RoundupUnblock
    <3>. QED BY <2>3, <3>1, <3>2, <3>3, <3>4
  <2>. QED BY <2>4, <2>5
<1>6. ASSUME RoundupAllDone(t) PROVE DataType'
  BY <1>6 DEF RoundupAllDone
<1>7. ASSUME RoundupTest(t) PROVE DataType'
  BY <1>7 DEF RoundupTest
<1>8. ASSUME RoundupWait(t) PROVE DataType'
  BY <1>8 DEF RoundupWait
<1>9. ASSUME EndRoundupRead(t) PROVE DataType'
  BY <1>9 DEF EndRoundupRead
<1>10. ASSUME EndRoundupStore(t) PROVE DataType'
  BY <1>10 DEF EndRoundupStore
<1>11. ASSUME ResumeCas(t) PROVE DataType'
  BY <1>11 DEF ResumeCas
<1>12. ASSUME ResumeSig(t) PROVE DataType'
  <2>1. i[t] \in 0 .. N /\ i[t] < N
    BY <1>12 DEF ResumeSig
  <2>2. i[t] + 1 \in 0 .. N
    BY <2>1, NAssumption
  <2>3. i' \in [Thread -> 0 .. N]
    BY <1>12, <2>2 DEF ResumeSig
  <2>. QED BY <1>12, <2>3 DEF ResumeSig
<1>13. ASSUME ResumeAllDone(t) PROVE DataType'
  BY <1>13 DEF ResumeAllDone
<1>14. ASSUME Resume(t) PROVE DataType'
  <2>1. CASE t \in VCPU
    BY <1>14, <2>1 DEF Resume
  <2>2. CASE ~(t \in VCPU)
    BY <1>14, <2>2 DEF Resume
  <2>. QED BY <2>1, <2>2
<1>15. ASSUME SignalNextWaiter(t) PROVE DataType'
  BY <1>15 DEF SignalNextWaiter
<1>. QED
  BY <1>1, <1>2, <1>3, <1>4, <1>5, <1>6, <1>7, <1>8, <1>9, <1>10, <1>11, <1>12,
     <1>13, <1>14, <1>15
     DEF OwnerStep, NotifyStep, ResumeStep

(* The same for the step that takes _waiter_mutex. *)
LEMMA TypeLock ==
  ASSUME NEW t \in Thread, Lock(t), DataType, LocalInv
  PROVE  DataType'
BY NAssumption, ThreadAssumption
   DEF Lock, Thread, DataType, LocalInv, Local, VcpuLocal, At, Goto,
       CallNotify, Clear, Sig, RecallBy, WeakRecallBy, Unyield, Unlock, cpuVars, countVars,
       loopVars, ReturnsTo, EmulatingLabel, OffLabel, OnLabel, DevLabel, Label,
       Ret, Emulating, CanSwitchOn, CanSwitchOff, switch_state_to_on,
       switch_state_to_off, CanRoundup, switch_state_to_roundedup, CanResume,
       resume, Roundedup, State

(* The number of VCPUs bounds what can be counted. *)
LEMMA VcpuFinite ==
  /\ IsFiniteSet(VCPU) /\ Cardinality(VCPU) = N
  /\ \A S \in SUBSET VCPU : IsFiniteSet(S) /\ Cardinality(S) \in 0 .. N
<1>1. IsFiniteSet(VCPU) /\ Cardinality(VCPU) = N
  BY FS_Interval, NAssumption DEF VCPU
<1>2. ASSUME NEW S \in SUBSET VCPU PROVE IsFiniteSet(S) /\ Cardinality(S) \in 0 .. N
  BY <1>1, FS_Subset, FS_CardinalityType, NAssumption
<1>. QED BY <1>1, <1>2

(* With one roundup at a time, Stopped and Stops are the same. *)
LEMMA StoppedIsStops ==
  ASSUME OneRoundup, NoThread \notin Thread
  PROVE \A v \in VCPU : Stopped(v) <=> Stops(v)
<1> SUFFICES ASSUME NEW v \in VCPU PROVE Stopped(v) <=> Stops(v)
  OBVIOUS
<1>1. Marked(v) <=> OwnerMarks(v)
  <2>1. ASSUME NEW t \in Thread PROVE MarkedBy(t, v) => owner = t
    BY DEF MarkedBy, OneRoundup, Critical, Stopping, Resuming, At
  <2>. QED BY <2>1 DEF Marked, OwnerMarks
<1>2. (\E t \in Thread : Stopping(t)) <=> owner \in Thread /\ Stopping(owner)
  BY DEF OneRoundup, Critical
<1>3. ReportPending(v) <=> SelfReport(v) \/ OwnerReports(v)
  <2>1. ASSUME NEW t \in Thread PROVE pc[t] \in {"ru_recall", "ru_unblock"} \/ (At(t, "notify_sub") /\ ret[t] = "ru_cas") => owner = t
    BY DEF OneRoundup, Critical, Stopping, Rounding, ReturnsTo, At
  <2>. QED BY <2>1 DEF ReportPending, SelfReport, OwnerReports
<1>. QED BY <1>1, <1>2, <1>3 DEF Stopped, Stops, OwnerStops, OwnerMarks

(* CountersExact can be proved as Counted. *)
LEMMA CountedIff == OneRoundup => (CountersExact <=> Counted)
<1> SUFFICES ASSUME OneRoundup PROVE CountersExact <=> Counted
  OBVIOUS
<1>1. {v \in VCPU : ~Stopped(v)} = Running
  BY StoppedIsStops, ThreadAssumption DEF Running, Thread
<1>. QED BY <1>1 DEF CountersExact, Counted, Waiting

(* vcpu_notify_done_progressing is called once per VCPU that stops: the VCPU
   that is about to be reported is not counted as stopped yet. *)
LEMMA Unreported ==
  ASSUME NEW t \in Thread, At(t, "notify_sub"), ControlType, LocalInv, LoopInv,
         ReportInv, OneRoundup, i[t] <= N
  PROVE  Reported(t) \in VCPU /\ ~Stops(Reported(t))
<1>1. CASE ~Critical(t)
  <2>1. t \in VCPU /\ ret[t] \in {"vmm", "lock"}
    BY <1>1 DEF LocalInv, Local, VcpuLocal, Thread, OffLabel, OnLabel, DevLabel,
                EmulatingLabel, ReturnsTo, At
  <2>2. ~Stopping(t) /\ ~Queued(t)
    BY <1>1 DEF Critical, Queued, At
  <2>3. CASE ret[t] = "lock"
    BY <1>1, <2>1, <2>2, <2>3
       DEF Reported, Stops, OwnerStops, LocalInv, Local, VcpuLocal, ReturnsTo, OffLabel,
           OnLabel, EmulatingLabel, Emulating, Thread, At
  <2>4. CASE ret[t] = "vmm"
    BY <1>1, <2>1, <2>2, <2>4 DEF Reported, Stops, OwnerStops, SelfReport
  <2>. QED BY <2>1, <2>3, <2>4
<1>2. CASE Critical(t)
  <2>1. owner = t /\ ret[t] = "ru_cas" /\ i[t] >= 1
    BY <1>2 DEF OneRoundup, Critical, Stopping, Resuming, Rounding, Gathering, Holding,
                ReturnsTo, At, LoopInv, Loop
  <2>2. i[t] - 1 \in VCPU /\ (i[t] - 1) + 1 = i[t]
    <3>1. i[t] \in Nat
      BY DEF ControlType
    <3>. QED BY <2>1, <3>1, NAssumption DEF VCPU
  <2> DEFINE w == i[t] - 1
  <2>3. OwnerReports(w)
    BY <2>1, <2>2 DEF OwnerReports
  <2> HIDE DEF w
  <2>4. w \in VCPU /\ ~Emulating(state[w])
    BY <2>2, <2>3 DEF ReportInv, Report, w
  <2>5. ~Critical(w) /\ ~Queued(w)
    BY <2>4 DEF LocalInv, Local, VcpuLocal, ReturnsTo, OffLabel, OnLabel, EmulatingLabel,
                Emulating, Thread, Queued, Critical, Stopping, Resuming, Rounding,
                Gathering, Holding, At
  <2>6. ~Stops(w)
    BY <2>3, <2>5 DEF Stops, OwnerStops, Critical
  <2>. QED BY <1>2, <2>4, <2>6 DEF Reported, w
<1>. QED BY <1>1, <1>2

(* Its decrement stands for exactly that VCPU. *)
LEMMA NotifySubStops ==
  ASSUME NEW t \in Thread, NotifySub(t), ControlType, LocalInv, LoopInv,
         ReportInv, OneRoundup, i[t] <= N
  PROVE  \E w \in VCPU : /\ w = Reported(t)
                         /\ (Stops(w))'
                         /\ \A u \in VCPU \ {w} : (Stops(u))' <=> Stops(u)
<1>1. /\ pc[t] = "notify_sub"
      /\ pc' = [pc EXCEPT ![t] = IF vcpus_progressing = 1 THEN "notify_sig" ELSE ret[t]]
      /\ ret' = IF vcpus_progressing = 1 THEN ret ELSE [ret EXCEPT ![t] = "none"]
      /\ state' = state /\ owner' = owner /\ i' = i /\ emulating' = emulating
  BY DEF NotifySub, At, Goto, cpuVars, loopVars
<1>2. CASE ~Critical(t)
  <2>1. t \in VCPU /\ ret[t] \in {"vmm", "lock"}
    BY <1>1, <1>2 DEF LocalInv, Local, VcpuLocal, Thread, OffLabel, OnLabel, DevLabel,
                      EmulatingLabel, ReturnsTo
  <2>2. OwnerSame
    BY <1>1, <1>2 DEF OwnerSame, OneRoundup, ControlType
  <2>3. ASSUME NEW u \in VCPU
        PROVE  /\ (OwnerMarks(u))' <=> OwnerMarks(u)
               /\ (OwnerReports(u))' <=> OwnerReports(u)
               /\ OwnerMarks(u) => ((Stopping(owner))' <=> Stopping(owner))
    BY <2>2, OwnerFrame, OwnerFacts
  <2>4. ASSUME NEW u \in VCPU, u # t PROVE (Stops(u))' <=> Stops(u)
    <3>1. pc'[u] = pc[u] /\ ret'[u] = ret[u]
      BY <1>1, <2>4 DEF ControlType, Thread
    <3>2. /\ (Queued(u))' <=> Queued(u)
          /\ (Stopping(u))' <=> Stopping(u)
          /\ (SelfReport(u))' <=> SelfReport(u)
      BY <3>1 DEF Queued, At, Stopping, Rounding, Gathering, Holding, ReturnsTo, SelfReport
    <3>3. (OwnerStops(u))' <=> OwnerStops(u)
      BY <1>1, <2>3, <3>2 DEF OwnerStops
    <3>. QED BY <3>2, <3>3 DEF Stops
  <2>5. (Stops(t))'
    <3>1. CASE ret[t] = "lock"
      BY <1>1, <3>1 DEF Stops, Queued, At, ControlType
    <3>2. CASE ret[t] = "vmm"
      <4>1. SelfReport(t)
        BY <1>1, <3>2 DEF SelfReport, At
      <4>2. OwnerMarks(t) /\ Stopping(owner) /\ ~OwnerReports(t)
        BY <2>1, <4>1 DEF ReportInv, Report
      <4>3. ~Emulating(state[t])
        BY <1>1, <1>2, <2>1, <3>2
           DEF LocalInv, Local, VcpuLocal, ReturnsTo, OffLabel, OnLabel, EmulatingLabel,
               Emulating, Thread
      <4>4. ~(SelfReport(t))'
        BY <1>1, <3>2 DEF SelfReport, At, ControlType
      <4>. QED BY <1>1, <2>1, <2>3, <4>2, <4>3, <4>4 DEF Stops, OwnerStops
    <3>. QED BY <2>1, <3>1, <3>2
  <2>. QED BY <1>2, <2>1, <2>4, <2>5 DEF Reported
<1>3. CASE Critical(t)
  <2>1. owner = t /\ ret[t] = "ru_cas" /\ i[t] >= 1 /\ Rounding(t)
    BY <1>1, <1>3 DEF OneRoundup, Critical, Stopping, Resuming, Rounding, Gathering,
                      Holding, ReturnsTo, At, LoopInv, Loop
  <2>2. i[t] - 1 \in VCPU /\ i[t] - 1 < i[t] /\ (i[t] - 1) + 1 = i[t]
    <3>1. i[t] \in Nat
      BY DEF ControlType
    <3>. QED BY <2>1, <3>1, NAssumption DEF VCPU
  <2>3. (Rounding(t))' /\ (Stopping(t))' /\ Stopping(t)
    BY <1>1, <2>1 DEF Rounding, Stopping, ReturnsTo, At, ControlType
  <2>4. ASSUME NEW u \in VCPU
        PROVE  /\ OwnerMarks(u) <=> u < i[t]
               /\ (OwnerMarks(u))' <=> u < i[t]
               /\ OwnerReports(u) <=> u + 1 = i[t]
               /\ ~(OwnerReports(u))'
    BY <1>1, <2>1, <2>3 DEF OwnerMarks, OwnerReports, MarkedBy, Gathering, Holding, At,
                            ControlType
  <2>5. ASSUME NEW u \in VCPU
        PROVE  /\ (Queued(u))' <=> Queued(u)
               /\ (Stopping(u))' <=> Stopping(u)
               /\ (SelfReport(u))' <=> SelfReport(u)
    <3>1. CASE u = t
      BY <1>1, <2>1, <2>3, <3>1 DEF Queued, At, SelfReport, ControlType
    <3>2. CASE u # t
      <4>1. pc'[u] = pc[u] /\ ret'[u] = ret[u]
        BY <1>1, <3>2 DEF ControlType, Thread
      <4>. QED BY <4>1 DEF Queued, At, Stopping, Rounding, Gathering, Holding, ReturnsTo,
                           SelfReport
    <3>. QED BY <3>1, <3>2
  <2>6. ASSUME NEW u \in VCPU, u # i[t] - 1 PROVE (Stops(u))' <=> Stops(u)
    <3>1. u + 1 # i[t]
      <4>1. i[t] \in Nat
        BY DEF ControlType
      <4>. QED BY <2>6, <4>1, NAssumption DEF VCPU
    <3>. QED BY <1>1, <2>1, <2>3, <2>4, <2>5, <3>1 DEF Stops, OwnerStops
  <2>7. ASSUME NEW w \in VCPU, w = i[t] - 1 PROVE (Stops(w))'
    <3>1. OwnerReports(w) /\ (OwnerMarks(w))' /\ ~(OwnerReports(w))'
      BY <2>2, <2>4, <2>7
    <3>2. ~Emulating(state[w]) /\ ~SelfReport(w)
      BY <3>1 DEF ReportInv, Report
    <3>. QED BY <1>1, <2>1, <2>3, <2>5, <3>1, <3>2 DEF Stops, OwnerStops
  <2>. QED BY <1>3, <2>2, <2>6, <2>7 DEF Reported
<1>. QED BY <1>2, <1>3

(* end_roundup_core stores num_vcpus minus the waiters: the VCPUs that wait
   for their own roundup are the only ones that do not make progress then. *)
LEMMA StoreStops ==
  ASSUME NEW t \in Thread, EndRoundupStore(t), owner = t, ControlType, LocalInv, OneRoundup, QuietInv
  PROVE \A u \in VCPU : (Stops(u))' <=> Waiter(u)
<1> SUFFICES ASSUME NEW u \in VCPU PROVE (Stops(u))' <=> Waiter(u)
  OBVIOUS
<1>1. pc[t] = "er_store" /\ pc' = [pc EXCEPT ![t] = "rs_cas"] /\ ret' = ret /\ owner' = t
  BY DEF EndRoundupStore, At, Goto
<1>2. ~(OwnerStops(u))'
  BY <1>1 DEF OwnerStops, Stopping, Rounding, Gathering, Holding, ReturnsTo, At, ControlType
<1>3. CASE u = t
  BY <1>1, <1>2, <1>3 DEF Stops, Queued, Waiter, Stopping, Rounding, Gathering, Holding, ReturnsTo, At, ControlType
<1>4. CASE u # t
  <2>1. pc'[u] = pc[u] /\ ret'[u] = ret[u]
    BY <1>1, <1>4 DEF ControlType, Thread
  <2>2. Quiet(u)
    BY <1>1 DEF QuietInv, OwnerMarks, MarkedBy, Holding
  <2>3. ~Critical(u)
    BY <1>4 DEF OneRoundup, Thread
  <2>. QED
    BY <1>2, <2>1, <2>2, <2>3 DEF Stops, Queued, Waiter, Critical, Stopping, Rounding, Gathering, Holding, ReturnsTo, At, Quiet
<1>. QED BY <1>3, <1>4

(* No other step outside the roundup changes which VCPUs count as stopped. *)
LEMMA StopsOutside ==
  ASSUME NEW t \in Thread, OutsideStep(t), ControlType, LocalInv, MarkInv,
         OwnerSame
  PROVE  (\A u \in VCPU : (Stops(u))' <=> Stops(u)) \/ NotifySub(t)
<1>a. \A v \in VCPU : (OwnerMarks(v))' <=> OwnerMarks(v)
  BY OwnerFrame
<1>b. \A v \in VCPU : (OwnerReports(v))' <=> OwnerReports(v)
  BY OwnerFrame
<1>c. \A v \in VCPU : OwnerMarks(v) => ((Stopping(owner))' <=> Stopping(owner))
  BY OwnerFrame, OwnerFacts
<1> USE NAssumption, ThreadAssumption, <1>a, <1>b, <1>c
    DEF Thread, VCPU, ControlType, Ret, LocalInv, Local, VcpuLocal, At, Goto,
        CallNotify, Clear, Sig, RecallBy, WeakRecallBy, Unyield, Unlock, cpuVars, countVars,
        loopVars, ReturnsTo, Critical, Stopping, Rounding, Gathering, Holding,
        Resuming, EmulatingLabel, OffLabel, OnLabel, DevLabel, Label, MarkInv,
        Queued, OwnerStops, Stops, SelfReport, Emulating, Roundedup,
        switch_state_to_on, switch_state_to_off, State
<1>1. ASSUME NotifySub(t), ~Critical(t)
      PROVE  (\A u \in VCPU : (Stops(u))' <=> Stops(u)) \/ NotifySub(t)
  BY <1>1 DEF NotifySub
<1>2. ASSUME NotifySig(t), ~Critical(t)
      PROVE  (\A u \in VCPU : (Stops(u))' <=> Stops(u)) \/ NotifySub(t)
  BY <1>2 DEF NotifySig
<1>3. ASSUME t \in VCPU, WaitForSwitchOn(t)
      PROVE  (\A u \in VCPU : (Stops(u))' <=> Stops(u)) \/ NotifySub(t)
  BY <1>3 DEF WaitForSwitchOn
<1>4. ASSUME t \in VCPU, TurnOn(t)
      PROVE  (\A u \in VCPU : (Stops(u))' <=> Stops(u)) \/ NotifySub(t)
  <2> SUFFICES ASSUME NEW u \in VCPU PROVE (Stops(u))' <=> Stops(u)
    OBVIOUS
  <2>1. CASE state[t] = "EMULATE_ROUNDEDUP" /\ u = t
    BY <1>4, <2>1 DEF TurnOn
  <2>2. CASE state[t] = "EMULATE_ROUNDEDUP" /\ u # t
    BY <1>4, <2>2 DEF TurnOn
  <2>3. CASE ~(state[t] = "EMULATE_ROUNDEDUP") /\ u = t
    BY SMTT(60), <1>4, <2>3 DEF TurnOn
  <2>4. CASE ~(state[t] = "EMULATE_ROUNDEDUP") /\ u # t
    BY <1>4, <2>4 DEF TurnOn
  <2>. QED BY <2>1, <2>2, <2>3, <2>4
<1>5. ASSUME t \in VCPU, CheckPaused(t)
      PROVE  (\A u \in VCPU : (Stops(u))' <=> Stops(u)) \/ NotifySub(t)
  BY <1>5 DEF CheckPaused
<1>6. ASSUME t \in VCPU, TurnOff(t)
      PROVE  (\A u \in VCPU : (Stops(u))' <=> Stops(u)) \/ NotifySub(t)
  BY <1>6 DEF TurnOff
<1>7. ASSUME t \in VCPU, BeginEmulationRead(t)
      PROVE  (\A u \in VCPU : (Stops(u))' <=> Stops(u)) \/ NotifySub(t)
  BY <1>7 DEF BeginEmulationRead
<1>8. ASSUME t \in VCPU, BeginEmulationCas(t)
      PROVE  (\A u \in VCPU : (Stops(u))' <=> Stops(u)) \/ NotifySub(t)
  <2> SUFFICES ASSUME NEW u \in VCPU PROVE (Stops(u))' <=> Stops(u)
    OBVIOUS
  <2>1. CASE state[t] = "ON" /\ u = t
    BY ZenonT(90), <1>8, <2>1 DEF BeginEmulationCas
  <2>2. CASE state[t] = "ON" /\ u # t
    BY ZenonT(90), <1>8, <2>2 DEF BeginEmulationCas
  <2>3. CASE ~(state[t] = "ON") /\ u = t
    BY <1>8, <2>3 DEF BeginEmulationCas
  <2>4. CASE ~(state[t] = "ON") /\ u # t
    BY <1>8, <2>4 DEF BeginEmulationCas
  <2>. QED BY <2>1, <2>2, <2>3, <2>4
<1>9. ASSUME t \in VCPU, WaitForResume(t)
      PROVE  (\A u \in VCPU : (Stops(u))' <=> Stops(u)) \/ NotifySub(t)
  BY <1>9 DEF WaitForResume
<1>10. ASSUME t \in VCPU, EndEmulation(t)
      PROVE  (\A u \in VCPU : (Stops(u))' <=> Stops(u)) \/ NotifySub(t)
  BY SMTT(60), <1>10 DEF EndEmulation
<1>11. ASSUME t \in VCPU, EnterGuest(t)
      PROVE  (\A u \in VCPU : (Stops(u))' <=> Stops(u)) \/ NotifySub(t)
  BY <1>11 DEF EnterGuest
<1>12. ASSUME t \in VCPU, WfiTest(t)
      PROVE  (\A u \in VCPU : (Stops(u))' <=> Stops(u)) \/ NotifySub(t)
  BY <1>12 DEF WfiTest
<1>13. ASSUME t \in VCPU, Block(t)
      PROVE  (\A u \in VCPU : (Stops(u))' <=> Stops(u)) \/ NotifySub(t)
  BY <1>13 DEF Block
<1>14. ASSUME t \in VCPU, BlockTimeout(t)
      PROVE  (\A u \in VCPU : (Stops(u))' <=> Stops(u)) \/ NotifySub(t)
  BY <1>14 DEF BlockTimeout
<1>15. ASSUME t \in VCPU, Yield(t)
      PROVE  (\A u \in VCPU : (Stops(u))' <=> Stops(u)) \/ NotifySub(t)
  BY <1>15 DEF Yield
<1>16. ASSUME t \in Dev, CtrlRecall(t)
      PROVE  (\A u \in VCPU : (Stops(u))' <=> Stops(u)) \/ NotifySub(t)
  BY ZenonT(90), <1>16 DEF CtrlRecall
<1>17. ASSUME t \in Dev, CtrlSwitchOn(t)
      PROVE  (\A u \in VCPU : (Stops(u))' <=> Stops(u)) \/ NotifySub(t)
  BY <1>17 DEF CtrlSwitchOn
<1>18. ASSUME t \in Dev, IrqNotify(t)
      PROVE  (\A u \in VCPU : (Stops(u))' <=> Stops(u)) \/ NotifySub(t)
  BY <1>18 DEF IrqNotify
<1>19. ASSUME t \in Dev, IrqRecall(t)
      PROVE  (\A u \in VCPU : (Stops(u))' <=> Stops(u)) \/ NotifySub(t)
  BY ZenonT(90), <1>19 DEF IrqRecall
<1>20. ASSUME t \in Dev, IrqUnblock(t)
      PROVE  (\A u \in VCPU : (Stops(u))' <=> Stops(u)) \/ NotifySub(t)
  BY <1>20 DEF IrqUnblock
<1>21. ASSUME CallRoundup(t)
      PROVE  (\A u \in VCPU : (Stops(u))' <=> Stops(u)) \/ NotifySub(t)
  BY <1>21 DEF CallRoundup
<1>22. ASSUME t \in VCPU, GuestExit(t)
      PROVE  (\A u \in VCPU : (Stops(u))' <=> Stops(u)) \/ NotifySub(t)
  BY <1>22 DEF GuestExit
<1>23. ASSUME t \in VCPU, GuestAck(t)
      PROVE  (\A u \in VCPU : (Stops(u))' <=> Stops(u)) \/ NotifySub(t)
  BY <1>23 DEF GuestAck
<1>24. ASSUME t \in VCPU, CallWaitForInterrupt(t)
      PROVE  (\A u \in VCPU : (Stops(u))' <=> Stops(u)) \/ NotifySub(t)
  <2>1. PICK l \in {"wfi", "emulate_end", "wfi_timed"} : Goto(t, l)
    BY <1>24 DEF CallWaitForInterrupt
  <2>. QED BY <1>24, <2>1 DEF CallWaitForInterrupt
<1>25. ASSUME t \in VCPU, CallRoundupFromVcpu(t)
      PROVE  (\A u \in VCPU : (Stops(u))' <=> Stops(u)) \/ NotifySub(t)
  BY <1>25 DEF CallRoundupFromVcpu
<1>26. ASSUME t \in Dev, CtrlFeatureOff(t)
      PROVE  (\A u \in VCPU : (Stops(u))' <=> Stops(u)) \/ NotifySub(t)
  BY <1>26 DEF CtrlFeatureOff
<1>27. ASSUME t \in Dev, CtrlFeatureOn(t)
      PROVE  (\A u \in VCPU : (Stops(u))' <=> Stops(u)) \/ NotifySub(t)
  BY <1>27 DEF CtrlFeatureOn
<1>28. ASSUME t \in Dev, RaiseInterrupt(t)
      PROVE  (\A u \in VCPU : (Stops(u))' <=> Stops(u)) \/ NotifySub(t)
  BY <1>28 DEF RaiseInterrupt
<1>. QED
  BY <1>1, <1>2, <1>3, <1>4, <1>5, <1>6, <1>7, <1>8, <1>9, <1>10, <1>11, <1>12,
     <1>13, <1>14, <1>15, <1>16, <1>17, <1>18, <1>19, <1>20, <1>21, <1>22,
     <1>23, <1>24, <1>25, <1>26, <1>27, <1>28
     DEF OutsideStep, NotifyStep, VcpuStep, DevStep, VcpuChoice, DevChoice

(* Nor does another step of the owner. *)
LEMMA StopsOwner ==
  ASSUME NEW t \in Thread, OwnerStep(t), owner = t, ControlType,
         emulating \in [Thread -> BOOLEAN], LocalInv, LoopInv, MarkInv
  PROVE  (\A u \in VCPU : (Stops(u))' <=> Stops(u)) \/ NotifySub(t) \/ EndRoundupStore(t)
<1> USE NAssumption, ThreadAssumption
    DEF Thread, VCPU, ControlType, Ret, LocalInv, Local, VcpuLocal, At, Goto,
        CallNotify, Clear, Sig, RecallBy, WeakRecallBy, Unyield, Unlock, cpuVars, countVars,
        loopVars, ReturnsTo, Critical, Stopping, Rounding, Gathering, Holding,
        Resuming, EmulatingLabel, OffLabel, OnLabel, DevLabel, Label, LoopInv,
        Loop, MarkInv, Queued, OwnerStops, Stops, SelfReport, OwnerMarks,
        MarkedBy, OwnerReports, Emulating, CanSwitchOn, CanSwitchOff,
        switch_state_to_on, switch_state_to_off, CanRoundup,
        switch_state_to_roundedup, CanResume, resume, Roundedup, State
<1>1. ASSUME NotifySub(t), Critical(t)
      PROVE  (\A u \in VCPU : (Stops(u))' <=> Stops(u)) \/ NotifySub(t) \/ EndRoundupStore(t)
  BY <1>1 DEF NotifySub
<1>2. ASSUME NotifySig(t), Critical(t)
      PROVE  (\A u \in VCPU : (Stops(u))' <=> Stops(u)) \/ NotifySub(t) \/ EndRoundupStore(t)
  BY <1>2 DEF NotifySig
<1>3. ASSUME RoundupCas(t)
      PROVE  (\A u \in VCPU : (Stops(u))' <=> Stops(u)) \/ NotifySub(t) \/ EndRoundupStore(t)
  <2> SUFFICES ASSUME NEW u \in VCPU PROVE (Stops(u))' <=> Stops(u)
    OBVIOUS
  <2>1. CASE u = t
    BY <1>3, <2>1 DEF RoundupCas
  <2>2. CASE u # t
    BY ZenonT(90), <1>3, <2>2 DEF RoundupCas
  <2>. QED BY <2>1, <2>2
<1>4. ASSUME RoundupRecall(t)
      PROVE  (\A u \in VCPU : (Stops(u))' <=> Stops(u)) \/ NotifySub(t) \/ EndRoundupStore(t)
  BY <1>4 DEF RoundupRecall
<1>5. ASSUME RoundupUnblock(t)
      PROVE  (\A u \in VCPU : (Stops(u))' <=> Stops(u)) \/ NotifySub(t) \/ EndRoundupStore(t)
  <2> SUFFICES ASSUME NEW u \in VCPU PROVE (Stops(u))' <=> Stops(u)
    OBVIOUS
  <2>1. ((OwnerMarks(u))' <=> OwnerMarks(u)) /\ ((OwnerReports(u))' <=> OwnerReports(u))
    BY <1>5, UnblockFrame
  <2>2. (Stopping(t))' /\ Stopping(t) /\ owner' = t /\ state' = state
    BY <1>5 DEF RoundupUnblock
  <2>3. CASE u = t
    <3> HIDE DEF Stopping
    <3>. QED BY <2>2, <2>3
  <2>4. CASE u # t
    <3>1. pc'[u] = pc[u] /\ ret'[u] = ret[u]
      BY <1>5, <2>4 DEF RoundupUnblock
    <3> HIDE DEF OwnerMarks, OwnerReports
    <3>. QED BY <2>1, <2>2, <3>1
  <2>. QED BY <2>3, <2>4
<1>6. ASSUME RoundupAllDone(t)
      PROVE  (\A u \in VCPU : (Stops(u))' <=> Stops(u)) \/ NotifySub(t) \/ EndRoundupStore(t)
  BY <1>6 DEF RoundupAllDone
<1>7. ASSUME RoundupTest(t)
      PROVE  (\A u \in VCPU : (Stops(u))' <=> Stops(u)) \/ NotifySub(t) \/ EndRoundupStore(t)
  BY <1>7 DEF RoundupTest
<1>8. ASSUME RoundupWait(t)
      PROVE  (\A u \in VCPU : (Stops(u))' <=> Stops(u)) \/ NotifySub(t) \/ EndRoundupStore(t)
  BY <1>8 DEF RoundupWait
<1>9. ASSUME EndRoundupRead(t)
      PROVE  (\A u \in VCPU : (Stops(u))' <=> Stops(u)) \/ NotifySub(t) \/ EndRoundupStore(t)
  BY <1>9 DEF EndRoundupRead
<1>10. ASSUME EndRoundupStore(t)
      PROVE  (\A u \in VCPU : (Stops(u))' <=> Stops(u)) \/ NotifySub(t) \/ EndRoundupStore(t)
  BY <1>10 DEF EndRoundupStore
<1>11. ASSUME ResumeCas(t)
      PROVE  (\A u \in VCPU : (Stops(u))' <=> Stops(u)) \/ NotifySub(t) \/ EndRoundupStore(t)
  BY <1>11 DEF ResumeCas
<1>12. ASSUME ResumeSig(t)
      PROVE  (\A u \in VCPU : (Stops(u))' <=> Stops(u)) \/ NotifySub(t) \/ EndRoundupStore(t)
  BY <1>12 DEF ResumeSig
<1>13. ASSUME ResumeAllDone(t)
      PROVE  (\A u \in VCPU : (Stops(u))' <=> Stops(u)) \/ NotifySub(t) \/ EndRoundupStore(t)
  BY <1>13 DEF ResumeAllDone
<1>14. ASSUME Resume(t)
      PROVE  (\A u \in VCPU : (Stops(u))' <=> Stops(u)) \/ NotifySub(t) \/ EndRoundupStore(t)
  <2> SUFFICES ASSUME NEW u \in VCPU PROVE (Stops(u))' <=> Stops(u)
    OBVIOUS
  <2>1. CASE t \in VCPU /\ u = t
    BY <1>14, <2>1 DEF Resume
  <2>2. CASE t \in VCPU /\ u # t
    BY <1>14, <2>2 DEF Resume
  <2>3. CASE ~(t \in VCPU) /\ u = t
    BY <1>14, <2>3 DEF Resume
  <2>4. CASE ~(t \in VCPU) /\ u # t
    BY SMTT(60), <1>14, <2>4 DEF Resume
  <2>. QED BY <2>1, <2>2, <2>3, <2>4
<1>15. ASSUME SignalNextWaiter(t)
      PROVE  (\A u \in VCPU : (Stops(u))' <=> Stops(u)) \/ NotifySub(t) \/ EndRoundupStore(t)
  BY <1>15 DEF SignalNextWaiter
<1>. QED
  BY <1>1, <1>2, <1>3, <1>4, <1>5, <1>6, <1>7, <1>8, <1>9, <1>10, <1>11, <1>12,
     <1>13, <1>14, <1>15
     DEF OwnerStep, NotifyStep, ResumeStep

(* Nor does the step that takes _waiter_mutex: a VCPU that was queued now
   rounds up. *)
LEMMA StopsLock ==
  ASSUME NEW t \in Thread, Lock(t), ControlType, LocalInv, LoopInv, MarkInv
  PROVE  \A u \in VCPU : (Stops(u))' <=> Stops(u)
BY NAssumption, ThreadAssumption
   DEF Lock, Thread, VCPU, ControlType, Ret, LocalInv, Local, VcpuLocal, At,
       Goto, CallNotify, Clear, Sig, RecallBy, WeakRecallBy, Unyield, Unlock, cpuVars,
       countVars, loopVars, ReturnsTo, Critical, Stopping, Rounding, Gathering,
       Holding, Resuming, EmulatingLabel, OffLabel, OnLabel, DevLabel, Label,
       LoopInv, Loop, MarkInv, Queued, OwnerStops, Stops, SelfReport,
       OwnerMarks, MarkedBy, OwnerReports, Emulating, CanSwitchOn,
       CanSwitchOff, switch_state_to_on, switch_state_to_off, CanRoundup,
       switch_state_to_roundedup, CanResume, resume, Roundedup, State

(* yield is the only step outside the roundup that makes a waiter. *)
LEMMA WaiterOutside ==
  ASSUME NEW t \in Thread, OutsideStep(t), ControlType, LocalInv
  PROVE  (\A u \in VCPU : (Waiter(u))' <=> Waiter(u)) \/ (t \in VCPU /\ Yield(t))
<1> USE NAssumption, ThreadAssumption
    DEF Thread, VCPU, ControlType, Ret, LocalInv, Local, VcpuLocal, At, Goto,
        CallNotify, Clear, Sig, RecallBy, WeakRecallBy, Unyield, Unlock, cpuVars, countVars,
        loopVars, ReturnsTo, Critical, Stopping, Rounding, Gathering, Holding,
        Resuming, EmulatingLabel, OffLabel, OnLabel, DevLabel, Label, Waiter
<1>1. ASSUME NotifySub(t), ~Critical(t)
      PROVE  (\A u \in VCPU : (Waiter(u))' <=> Waiter(u)) \/ (t \in VCPU /\ Yield(t))
  <2> SUFFICES ASSUME NEW u \in VCPU PROVE (Waiter(u))' <=> Waiter(u)
    OBVIOUS
  <2>1. CASE vcpus_progressing = 1 /\ u = t
    BY <1>1, <2>1 DEF NotifySub
  <2>2. CASE vcpus_progressing = 1 /\ u # t
    BY <1>1, <2>2 DEF NotifySub
  <2>3. CASE vcpus_progressing # 1 /\ u = t
    BY <1>1, <2>3 DEF NotifySub
  <2>4. CASE vcpus_progressing # 1 /\ u # t
    BY <1>1, <2>4 DEF NotifySub
  <2>. QED BY <2>1, <2>2, <2>3, <2>4
<1>2. ASSUME NotifySig(t), ~Critical(t)
      PROVE  (\A u \in VCPU : (Waiter(u))' <=> Waiter(u)) \/ (t \in VCPU /\ Yield(t))
  BY <1>2 DEF NotifySig
<1>3. ASSUME t \in VCPU, WaitForSwitchOn(t)
      PROVE  (\A u \in VCPU : (Waiter(u))' <=> Waiter(u)) \/ (t \in VCPU /\ Yield(t))
  BY <1>3 DEF WaitForSwitchOn
<1>4. ASSUME t \in VCPU, TurnOn(t)
      PROVE  (\A u \in VCPU : (Waiter(u))' <=> Waiter(u)) \/ (t \in VCPU /\ Yield(t))
  BY ZenonT(90), <1>4 DEF TurnOn
<1>5. ASSUME t \in VCPU, CheckPaused(t)
      PROVE  (\A u \in VCPU : (Waiter(u))' <=> Waiter(u)) \/ (t \in VCPU /\ Yield(t))
  BY <1>5 DEF CheckPaused
<1>6. ASSUME t \in VCPU, TurnOff(t)
      PROVE  (\A u \in VCPU : (Waiter(u))' <=> Waiter(u)) \/ (t \in VCPU /\ Yield(t))
  BY <1>6 DEF TurnOff
<1>7. ASSUME t \in VCPU, BeginEmulationRead(t)
      PROVE  (\A u \in VCPU : (Waiter(u))' <=> Waiter(u)) \/ (t \in VCPU /\ Yield(t))
  BY <1>7 DEF BeginEmulationRead
<1>8. ASSUME t \in VCPU, BeginEmulationCas(t)
      PROVE  (\A u \in VCPU : (Waiter(u))' <=> Waiter(u)) \/ (t \in VCPU /\ Yield(t))
  BY SMTT(60), <1>8 DEF BeginEmulationCas
<1>9. ASSUME t \in VCPU, WaitForResume(t)
      PROVE  (\A u \in VCPU : (Waiter(u))' <=> Waiter(u)) \/ (t \in VCPU /\ Yield(t))
  BY <1>9 DEF WaitForResume
<1>10. ASSUME t \in VCPU, EndEmulation(t)
      PROVE  (\A u \in VCPU : (Waiter(u))' <=> Waiter(u)) \/ (t \in VCPU /\ Yield(t))
  BY <1>10 DEF EndEmulation
<1>11. ASSUME t \in VCPU, EnterGuest(t)
      PROVE  (\A u \in VCPU : (Waiter(u))' <=> Waiter(u)) \/ (t \in VCPU /\ Yield(t))
  BY <1>11 DEF EnterGuest
<1>12. ASSUME t \in VCPU, WfiTest(t)
      PROVE  (\A u \in VCPU : (Waiter(u))' <=> Waiter(u)) \/ (t \in VCPU /\ Yield(t))
  BY <1>12 DEF WfiTest
<1>13. ASSUME t \in VCPU, Block(t)
      PROVE  (\A u \in VCPU : (Waiter(u))' <=> Waiter(u)) \/ (t \in VCPU /\ Yield(t))
  BY <1>13 DEF Block
<1>14. ASSUME t \in VCPU, BlockTimeout(t)
      PROVE  (\A u \in VCPU : (Waiter(u))' <=> Waiter(u)) \/ (t \in VCPU /\ Yield(t))
  BY <1>14 DEF BlockTimeout
<1>15. ASSUME t \in VCPU, Yield(t)
      PROVE  (\A u \in VCPU : (Waiter(u))' <=> Waiter(u)) \/ (t \in VCPU /\ Yield(t))
  BY <1>15 DEF Yield
<1>16. ASSUME t \in Dev, CtrlRecall(t)
      PROVE  (\A u \in VCPU : (Waiter(u))' <=> Waiter(u)) \/ (t \in VCPU /\ Yield(t))
  BY <1>16 DEF CtrlRecall
<1>17. ASSUME t \in Dev, CtrlSwitchOn(t)
      PROVE  (\A u \in VCPU : (Waiter(u))' <=> Waiter(u)) \/ (t \in VCPU /\ Yield(t))
  BY <1>17 DEF CtrlSwitchOn
<1>18. ASSUME t \in Dev, IrqNotify(t)
      PROVE  (\A u \in VCPU : (Waiter(u))' <=> Waiter(u)) \/ (t \in VCPU /\ Yield(t))
  BY <1>18 DEF IrqNotify
<1>19. ASSUME t \in Dev, IrqRecall(t)
      PROVE  (\A u \in VCPU : (Waiter(u))' <=> Waiter(u)) \/ (t \in VCPU /\ Yield(t))
  BY <1>19 DEF IrqRecall
<1>20. ASSUME t \in Dev, IrqUnblock(t)
      PROVE  (\A u \in VCPU : (Waiter(u))' <=> Waiter(u)) \/ (t \in VCPU /\ Yield(t))
  BY <1>20 DEF IrqUnblock
<1>21. ASSUME CallRoundup(t)
      PROVE  (\A u \in VCPU : (Waiter(u))' <=> Waiter(u)) \/ (t \in VCPU /\ Yield(t))
  BY <1>21 DEF CallRoundup
<1>22. ASSUME t \in VCPU, GuestExit(t)
      PROVE  (\A u \in VCPU : (Waiter(u))' <=> Waiter(u)) \/ (t \in VCPU /\ Yield(t))
  BY <1>22 DEF GuestExit
<1>23. ASSUME t \in VCPU, GuestAck(t)
      PROVE  (\A u \in VCPU : (Waiter(u))' <=> Waiter(u)) \/ (t \in VCPU /\ Yield(t))
  BY <1>23 DEF GuestAck
<1>24. ASSUME t \in VCPU, CallWaitForInterrupt(t)
      PROVE  (\A u \in VCPU : (Waiter(u))' <=> Waiter(u)) \/ (t \in VCPU /\ Yield(t))
  <2>1. PICK l \in {"wfi", "emulate_end", "wfi_timed"} : Goto(t, l)
    BY <1>24 DEF CallWaitForInterrupt
  <2>. QED BY <1>24, <2>1 DEF CallWaitForInterrupt
<1>25. ASSUME t \in VCPU, CallRoundupFromVcpu(t)
      PROVE  (\A u \in VCPU : (Waiter(u))' <=> Waiter(u)) \/ (t \in VCPU /\ Yield(t))
  BY <1>25 DEF CallRoundupFromVcpu
<1>26. ASSUME t \in Dev, CtrlFeatureOff(t)
      PROVE  (\A u \in VCPU : (Waiter(u))' <=> Waiter(u)) \/ (t \in VCPU /\ Yield(t))
  BY <1>26 DEF CtrlFeatureOff
<1>27. ASSUME t \in Dev, CtrlFeatureOn(t)
      PROVE  (\A u \in VCPU : (Waiter(u))' <=> Waiter(u)) \/ (t \in VCPU /\ Yield(t))
  BY <1>27 DEF CtrlFeatureOn
<1>28. ASSUME t \in Dev, RaiseInterrupt(t)
      PROVE  (\A u \in VCPU : (Waiter(u))' <=> Waiter(u)) \/ (t \in VCPU /\ Yield(t))
  BY <1>28 DEF RaiseInterrupt
<1>. QED
  BY <1>1, <1>2, <1>3, <1>4, <1>5, <1>6, <1>7, <1>8, <1>9, <1>10, <1>11, <1>12,
     <1>13, <1>14, <1>15, <1>16, <1>17, <1>18, <1>19, <1>20, <1>21, <1>22,
     <1>23, <1>24, <1>25, <1>26, <1>27, <1>28
     DEF OutsideStep, NotifyStep, VcpuStep, DevStep, VcpuChoice, DevChoice

(* unyield is the only step of the owner that takes one back. *)
LEMMA WaiterOwner ==
  ASSUME NEW t \in Thread, OwnerStep(t), owner = t, ControlType, LocalInv
  PROVE  (\A u \in VCPU : (Waiter(u))' <=> Waiter(u)) \/ Resume(t)
<1> USE NAssumption, ThreadAssumption
    DEF Thread, VCPU, ControlType, Ret, LocalInv, Local, VcpuLocal, At, Goto,
        CallNotify, Clear, Sig, RecallBy, WeakRecallBy, Unyield, Unlock, cpuVars, countVars,
        loopVars, ReturnsTo, Critical, Stopping, Rounding, Gathering, Holding,
        Resuming, EmulatingLabel, OffLabel, OnLabel, DevLabel, Label, Waiter,
        State
<1>1. ASSUME NotifySub(t), Critical(t)
      PROVE  (\A u \in VCPU : (Waiter(u))' <=> Waiter(u)) \/ Resume(t)
  BY ZenonT(90), <1>1 DEF NotifySub
<1>2. ASSUME NotifySig(t), Critical(t)
      PROVE  (\A u \in VCPU : (Waiter(u))' <=> Waiter(u)) \/ Resume(t)
  BY <1>2 DEF NotifySig
<1>3. ASSUME RoundupCas(t)
      PROVE  (\A u \in VCPU : (Waiter(u))' <=> Waiter(u)) \/ Resume(t)
  BY <1>3 DEF RoundupCas
<1>4. ASSUME RoundupRecall(t)
      PROVE  (\A u \in VCPU : (Waiter(u))' <=> Waiter(u)) \/ Resume(t)
  BY <1>4 DEF RoundupRecall
<1>5. ASSUME RoundupUnblock(t)
      PROVE  (\A u \in VCPU : (Waiter(u))' <=> Waiter(u)) \/ Resume(t)
  <2> SUFFICES ASSUME NEW u \in VCPU PROVE (Waiter(u))' <=> Waiter(u)
    OBVIOUS
  <2>1. CASE u = t
    BY <1>5, <2>1 DEF RoundupUnblock
  <2>2. CASE u # t
    BY <1>5, <2>2 DEF RoundupUnblock
  <2>. QED BY <2>1, <2>2
<1>6. ASSUME RoundupAllDone(t)
      PROVE  (\A u \in VCPU : (Waiter(u))' <=> Waiter(u)) \/ Resume(t)
  BY <1>6 DEF RoundupAllDone
<1>7. ASSUME RoundupTest(t)
      PROVE  (\A u \in VCPU : (Waiter(u))' <=> Waiter(u)) \/ Resume(t)
  BY <1>7 DEF RoundupTest
<1>8. ASSUME RoundupWait(t)
      PROVE  (\A u \in VCPU : (Waiter(u))' <=> Waiter(u)) \/ Resume(t)
  BY <1>8 DEF RoundupWait
<1>9. ASSUME EndRoundupRead(t)
      PROVE  (\A u \in VCPU : (Waiter(u))' <=> Waiter(u)) \/ Resume(t)
  BY <1>9 DEF EndRoundupRead
<1>10. ASSUME EndRoundupStore(t)
      PROVE  (\A u \in VCPU : (Waiter(u))' <=> Waiter(u)) \/ Resume(t)
  BY <1>10 DEF EndRoundupStore
<1>11. ASSUME ResumeCas(t)
      PROVE  (\A u \in VCPU : (Waiter(u))' <=> Waiter(u)) \/ Resume(t)
  BY <1>11 DEF ResumeCas
<1>12. ASSUME ResumeSig(t)
      PROVE  (\A u \in VCPU : (Waiter(u))' <=> Waiter(u)) \/ Resume(t)
  BY <1>12 DEF ResumeSig
<1>13. ASSUME ResumeAllDone(t)
      PROVE  (\A u \in VCPU : (Waiter(u))' <=> Waiter(u)) \/ Resume(t)
  BY <1>13 DEF ResumeAllDone
<1>14. ASSUME Resume(t)
      PROVE  (\A u \in VCPU : (Waiter(u))' <=> Waiter(u)) \/ Resume(t)
  BY <1>14 DEF Resume
<1>15. ASSUME SignalNextWaiter(t)
      PROVE  (\A u \in VCPU : (Waiter(u))' <=> Waiter(u)) \/ Resume(t)
  BY <1>15 DEF SignalNextWaiter
<1>. QED
  BY <1>1, <1>2, <1>3, <1>4, <1>5, <1>6, <1>7, <1>8, <1>9, <1>10, <1>11, <1>12,
     <1>13, <1>14, <1>15
     DEF OwnerStep, NotifyStep, ResumeStep

(* A waiter stays one when it takes _waiter_mutex. *)
LEMMA WaiterLock ==
  ASSUME NEW t \in Thread, Lock(t), ControlType, LocalInv
  PROVE  \A u \in VCPU : (Waiter(u))' <=> Waiter(u)
BY NAssumption, ThreadAssumption
   DEF Lock, Thread, VCPU, ControlType, Ret, LocalInv, Local, VcpuLocal, At,
       Goto, CallNotify, Clear, Sig, RecallBy, WeakRecallBy, Unyield, Unlock, cpuVars,
       countVars, loopVars, ReturnsTo, Critical, Stopping, Rounding, Gathering,
       Holding, Resuming, EmulatingLabel, OffLabel, OnLabel, DevLabel, Label,
       Waiter

(* The steps that write the counters. *)
LEMMA CountsSame ==
  ASSUME NEW t \in Thread, OutsideStep(t) \/ Lock(t) \/ OwnerStep(t)
  PROVE /\ vcpus_progressing' = vcpus_progressing \/ NotifySub(t) \/ EndRoundupStore(t)
        /\ vcpu_waiters' = vcpu_waiters \/ (t \in VCPU /\ Yield(t)) \/ Resume(t)
<1> USE DEF cpuVars, countVars, loopVars
<1>1. CASE OutsideStep(t)
  BY <1>1 DEF OutsideStep, NotifyStep, VcpuStep, DevStep, VcpuChoice, DevChoice, NotifySub, NotifySig, CallRoundup, WaitForSwitchOn, TurnOn, CheckPaused, TurnOff, BeginEmulationRead, BeginEmulationCas, WaitForResume, EndEmulation, EnterGuest, WfiTest, Block, BlockTimeout, GuestExit, GuestAck, CallWaitForInterrupt, CallRoundupFromVcpu, CtrlRecall, CtrlSwitchOn, IrqNotify, IrqRecall, IrqUnblock, CtrlFeatureOff, CtrlFeatureOn, RaiseInterrupt, Yield
<1>2. CASE Lock(t)
  BY <1>2 DEF Lock
<1>3. CASE OwnerStep(t)
  <2>1. CASE Resume(t)
    BY <2>1 DEF Resume, Unyield
  <2>2. CASE ~Resume(t)
    BY <1>3, <2>2 DEF OwnerStep, NotifyStep, NotifySub, NotifySig, RoundupCas, RoundupRecall, RoundupUnblock, RoundupAllDone, RoundupTest, RoundupWait, ResumeStep, EndRoundupRead, ResumeCas, ResumeSig, ResumeAllDone, EndRoundupStore, SignalNextWaiter, Unlock
  <2>. QED BY <2>1, <2>2
<1>. QED BY <1>1, <1>2, <1>3

(* vcpus_progressing counts the VCPUs that have not stopped. *)
LEMMA RunningStep ==
  ASSUME NEW t \in Thread, OutsideStep(t) \/ Lock(t) \/ OwnerStep(t), TypeOK, Counted,
         \/ \A u \in VCPU : (Stops(u))' <=> Stops(u)
         \/ NotifySub(t) \/ EndRoundupStore(t),
         NotifySub(t) => \E w \in VCPU : /\ ~Stops(w) /\ (Stops(w))'
                                         /\ \A u \in VCPU \ {w} : (Stops(u))' <=> Stops(u),
         EndRoundupStore(t) => /\ \A u \in VCPU : (Stops(u))' <=> Waiter(u)
                               /\ num_waiters[t] = vcpu_waiters
  PROVE vcpus_progressing' = Cardinality(Running')
<1>1. CASE NotifySub(t)
  <2>1. PICK w \in VCPU : /\ ~Stops(w) /\ (Stops(w))'
                          /\ \A u \in VCPU \ {w} : (Stops(u))' <=> Stops(u)
    BY <1>1
  <2>2. Running' = Running \ {w} /\ w \in Running
    BY <2>1 DEF Running
  <2>3. Cardinality(Running') = Cardinality(Running) - 1
    BY <2>2, VcpuFinite, FS_RemoveElement DEF Running
  <2>. QED BY <1>1, <2>3 DEF NotifySub, Counted
<1>2. CASE EndRoundupStore(t)
  <2>1. Running' = VCPU \ Waiting /\ VCPU \cap Waiting = Waiting
    BY <1>2 DEF Running, Waiting
  <2>2. Cardinality(Running') = N - Cardinality(Waiting)
    BY ZenonT(90), <2>1, VcpuFinite, FS_Difference
  <2>. QED BY <1>2, <2>2 DEF EndRoundupStore, Counted
<1>3. CASE ~NotifySub(t) /\ ~EndRoundupStore(t)
  <2>1. Running' = Running
    BY <1>3 DEF Running
  <2>. QED BY <1>3, <2>1, CountsSame DEF Counted
<1>. QED BY <1>1, <1>2, <1>3

(* _vcpu_waiters counts the waiters. *)
LEMMA WaitingStep ==
  ASSUME NEW t \in Thread, OutsideStep(t) \/ Lock(t) \/ OwnerStep(t), TypeOK, Counted,
         \/ \A u \in VCPU : (Waiter(u))' <=> Waiter(u)
         \/ (t \in VCPU /\ Yield(t)) \/ Resume(t)
  PROVE vcpu_waiters' = Cardinality(Waiting')
<1>1. CASE t \in VCPU /\ Yield(t)
  <2>1. ASSUME NEW u \in VCPU PROVE (Waiter(u))' <=> (u = t \/ Waiter(u))
    BY <1>1 DEF Yield, CallNotify, Goto, At, Waiter, ReturnsTo, Rounding, Gathering, TypeOK, Thread
  <2>2. ~Waiter(t)
    BY <1>1 DEF Yield, At, Waiter, ReturnsTo, Rounding, Gathering
  <2>3. Waiting' = Waiting \cup {t} /\ t \notin Waiting
    BY <1>1, <2>1, <2>2 DEF Waiting
  <2>4. Cardinality(Waiting') = Cardinality(Waiting) + 1
    BY <2>3, VcpuFinite, FS_AddElement DEF Waiting
  <2>. QED BY <1>1, <2>4 DEF Yield, Counted
<1>2. CASE t \in VCPU /\ Resume(t)
  <2>1. ASSUME NEW u \in VCPU PROVE (Waiter(u))' <=> (u # t /\ Waiter(u))
    BY <1>2 DEF Resume, Unyield, Goto, At, Waiter, ReturnsTo, Rounding, Gathering, TypeOK, Thread, loopVars
  <2>2. Waiter(t)
    BY <1>2 DEF Resume, At, Waiter
  <2>3. Waiting' = Waiting \ {t} /\ t \in Waiting
    BY <1>2, <2>1, <2>2 DEF Waiting
  <2>4. Cardinality(Waiting') = Cardinality(Waiting) - 1
    BY <2>3, VcpuFinite, FS_RemoveElement DEF Waiting
  <2>. QED BY <1>2, <2>4 DEF Resume, Unyield, Counted
<1>3. CASE t \notin VCPU /\ Resume(t)
  <2>1. \A u \in VCPU : (Waiter(u))' <=> Waiter(u)
    BY <1>3 DEF Resume, Goto, At, Waiter, ReturnsTo, Rounding, Gathering, TypeOK, Thread
  <2>2. Waiting' = Waiting
    BY <2>1 DEF Waiting
  <2>. QED BY <1>3, <2>2 DEF Resume, countVars, Counted
<1>4. CASE ~(t \in VCPU /\ Yield(t)) /\ ~Resume(t)
  <2>1. Waiting' = Waiting
    BY <1>4 DEF Waiting
  <2>. QED BY <1>4, <2>1, CountsSame DEF Counted
<1>. QED BY <1>1, <1>2, <1>3, <1>4

(* The roundup has seen vcpus_progressing = 0: then every VCPU is quiet, be
   it queued for its own roundup or stopped by this one. *)
LEMMA QuietReached ==
  ASSUME NEW t \in Thread, At(t, "ru_test"), vcpus_progressing = 0, Counted,
         ControlType, LocalInv, OneRoundup, MarkInv, RecallInv
  PROVE  \A u \in VCPU : Quiet(u)
<1> SUFFICES ASSUME NEW u \in VCPU PROVE Quiet(u)
  OBVIOUS
<1>1. Stops(u)
  <2>1. Running = {}
    BY VcpuFinite, FS_EmptySet DEF Counted, Running
  <2>. QED BY <2>1 DEF Running
<1>2. owner = t
  BY DEF OneRoundup, Critical, Stopping, Gathering, At
<1>3. CASE Queued(u)
  BY <1>3 DEF Queued, Quiet, Progressing, EmulatingLabel, At
<1>4. CASE Stopping(u)
  <2>1. u = t
    BY <1>2, <1>4 DEF OneRoundup, Critical, Thread
  <2>. QED BY <2>1 DEF Quiet, Progressing, EmulatingLabel, At
<1>5. CASE OwnerStops(u) /\ ~Queued(u) /\ ~Stopping(u)
  <2>1. ~Emulating(state[u]) /\ ~SelfReport(u) /\ RecallDone(u)
    BY <1>2, <1>5 DEF OwnerStops, RecallDone, At
  <2>2. ~At(u, "guest")
    BY <2>1 DEF RecallInv
  <2>. QED
    BY <2>1, <2>2 DEF Quiet, Progressing, SelfReport, LocalInv, Local, VcpuLocal, ReturnsTo,
                      OffLabel, OnLabel, EmulatingLabel, Emulating, Thread, At
<1>. QED BY <1>1, <1>3, <1>4, <1>5 DEF Stops

(* Every step is one outside the roundup, takes _waiter_mutex, or is its
   owner's. *)
LEMMA NextIsStep ==
  ASSUME Next, OneRoundup
  PROVE  \E t \in Thread : OutsideStep(t) \/ Lock(t) \/ (owner = t /\ OwnerStep(t))
<1>1. CASE \E t \in Thread : ThreadStep(t) \/ CallRoundup(t)
  <2>1. PICK t \in Thread : ThreadStep(t) \/ CallRoundup(t)
    BY <1>1
  <2>2. CASE CallRoundup(t)
    BY <2>2 DEF OutsideStep
  <2>3. CASE NotifyStep(t)
    BY <2>3 DEF OutsideStep, OwnerStep, OneRoundup
  <2>4. CASE t \in VCPU /\ VcpuStep(t)
    BY <2>4 DEF OutsideStep
  <2>5. CASE t \in Dev /\ DevStep(t)
    BY <2>5 DEF OutsideStep
  <2>6. CASE RoundupStep(t) \/ ResumeStep(t) \/ Resume(t) \/ SignalNextWaiter(t)
    <3>1. Lock(t) \/ OwnerStep(t)
      BY <2>6 DEF RoundupStep, OwnerStep
    <3>2. Lock(t) \/ Critical(t)
      BY <2>6 DEF RoundupStep, RoundupCas, RoundupRecall, RoundupUnblock, RoundupAllDone,
                  RoundupTest, RoundupWait, ResumeStep, EndRoundupRead, EndRoundupStore,
                  ResumeCas, ResumeSig, ResumeAllDone, Resume, SignalNextWaiter, Unlock,
                  Critical, Stopping, Resuming, Rounding, Gathering, Holding, At
    <3>. QED BY <3>1, <3>2 DEF OneRoundup
  <2>. QED BY <2>1, <2>2, <2>3, <2>4, <2>5, <2>6 DEF ThreadStep
<1>2. CASE \E v \in VCPU : VcpuChoice(v)
  BY <1>2 DEF OutsideStep, Thread
<1>3. CASE \E d \in Dev : DevChoice(d)
  BY <1>3 DEF OutsideStep, Thread
<1>. QED BY <1>1, <1>2, <1>3 DEF Next

(* A step outside the roundup preserves the invariant. *)
LEMMA StepOutside ==
  ASSUME IInv, NEW t \in Thread, OutsideStep(t)
  PROVE  IInv'
<1>1. DataType /\ vcpu_waiters \in 0 .. N
  BY TypeSplit DEF IInv
<1>2. /\ ControlType
      /\ recalled \in [VCPU -> BOOLEAN]
      /\ emulating \in [Thread -> BOOLEAN]
      /\ num_waiters \in [Thread -> Int]
      /\ i[t] <= N
  BY <1>1, TypeFacts, NAssumption
<1>3. Counted
  BY CountedIff DEF IInv
<1> USE <1>1, <1>2, <1>3 DEF IInv
<1>4. OwnerSame
  BY OwnerSameOutside
<1>10. DataType'
  BY TypeOutside
<1>11. LocalInv'
  BY LocalOutside
<1>12. LoopInv'
  BY LoopOutside
<1>13. OneRoundup'
  BY OneRoundupOutside
<1>14. MarkInv'
  BY <1>4, MarkOutside
<1>15. RecallInv'
  BY <1>4, RecallOutside
<1>16. ReportInv'
  BY <1>4, ReportOutside
<1>17. QuietInv'
  BY <1>4, QuietOutside
<1>18. NotifySub(t) => \E w \in VCPU : /\ ~Stops(w) /\ (Stops(w))'
                                       /\ \A u \in VCPU \ {w} : (Stops(u))' <=> Stops(u)
  BY Unreported, NotifySubStops DEF NotifySub
<1>19. Counted'
  <2>1. ~EndRoundupStore(t) \/ owner = t
    BY DEF OneRoundup, EndRoundupStore, Critical, Stopping, Holding, At
  <2>2. EndRoundupStore(t) => /\ \A u \in VCPU : (Stops(u))' <=> Waiter(u)
                              /\ num_waiters[t] = vcpu_waiters
    BY <2>1, StoreStops DEF LoopInv, Loop, EndRoundupStore
  <2>3. vcpus_progressing' = Cardinality(Running')
    BY <1>4, <1>18, <2>2, StopsOutside, RunningStep
  <2>4. vcpu_waiters' = Cardinality(Waiting')
    BY WaiterOutside, WaitingStep
  <2>. QED BY <2>3, <2>4 DEF Counted
<1>20. TypeOK'
  <2>1. vcpus_progressing' \in 0 .. N /\ vcpu_waiters' \in 0 .. N
    BY <1>19, VcpuFinite DEF Counted, Running, Waiting
  <2>2. (TypeOK <=> DataType /\ vcpus_progressing \in 0 .. N /\ vcpu_waiters \in 0 .. N)'
    BY TypeSplit, PTL
  <2>. QED BY <1>10, <2>1, <2>2
<1>21. CountersExact'
  <2>1. (OneRoundup => (CountersExact <=> Counted))'
    BY CountedIff, PTL
  <2>. QED BY <1>13, <1>19, <2>1
<1>. QED
  BY <1>11, <1>12, <1>13, <1>14, <1>15, <1>16, <1>17, <1>20, <1>21

(* Taking _waiter_mutex preserves the invariant. *)
LEMMA StepLock ==
  ASSUME IInv, NEW t \in Thread, Lock(t)
  PROVE  IInv'
<1>1. DataType /\ vcpu_waiters \in 0 .. N
  BY TypeSplit DEF IInv
<1>2. /\ ControlType
      /\ recalled \in [VCPU -> BOOLEAN]
      /\ emulating \in [Thread -> BOOLEAN]
      /\ num_waiters \in [Thread -> Int]
      /\ i[t] <= N
  BY <1>1, TypeFacts, NAssumption
<1>3. Counted
  BY CountedIff DEF IInv
<1> USE <1>1, <1>2, <1>3 DEF IInv
<1>10. DataType'
  BY TypeLock
<1>11. LocalInv'
  BY LocalLock
<1>12. LoopInv'
  BY LoopLock
<1>13. OneRoundup'
  BY OneRoundupLock
<1>14. MarkInv'
  BY MarkLock
<1>15. RecallInv'
  BY RecallLock
<1>16. ReportInv'
  BY ReportLock
<1>17. QuietInv'
  BY QuietLock
<1>19. Counted'
  <2>1. ~NotifySub(t) /\ ~EndRoundupStore(t)
    BY DEF Lock, NotifySub, EndRoundupStore, At
  <2>2. vcpus_progressing' = Cardinality(Running')
    BY <2>1, StopsLock, RunningStep
  <2>3. vcpu_waiters' = Cardinality(Waiting')
    BY WaiterLock, WaitingStep
  <2>. QED BY <2>2, <2>3 DEF Counted
<1>20. TypeOK'
  <2>1. vcpus_progressing' \in 0 .. N /\ vcpu_waiters' \in 0 .. N
    BY <1>19, VcpuFinite DEF Counted, Running, Waiting
  <2>2. (TypeOK <=> DataType /\ vcpus_progressing \in 0 .. N /\ vcpu_waiters \in 0 .. N)'
    BY TypeSplit, PTL
  <2>. QED BY <1>10, <2>1, <2>2
<1>21. CountersExact'
  <2>1. (OneRoundup => (CountersExact <=> Counted))'
    BY CountedIff, PTL
  <2>. QED BY <1>13, <1>19, <2>1
<1>. QED
  BY <1>11, <1>12, <1>13, <1>14, <1>15, <1>16, <1>17, <1>20, <1>21

(* A step of the owner of _waiter_mutex preserves the invariant. *)
LEMMA StepOwner ==
  ASSUME IInv, NEW t \in Thread, owner = t, OwnerStep(t)
  PROVE  IInv'
<1>1. DataType /\ vcpu_waiters \in 0 .. N
  BY TypeSplit DEF IInv
<1>2. /\ ControlType
      /\ recalled \in [VCPU -> BOOLEAN]
      /\ emulating \in [Thread -> BOOLEAN]
      /\ num_waiters \in [Thread -> Int]
      /\ i[t] <= N
  BY <1>1, TypeFacts, NAssumption
<1>3. Counted
  BY CountedIff DEF IInv
<1> USE <1>1, <1>2, <1>3 DEF IInv
<1>4. \A u \in Thread : pc[u] \in {"ru_unblock", "rs_sig"} => i[u] < N
  BY DEF LoopInv, Loop
<1>5. vcpus_progressing = 0 /\ At(t, "ru_test") => \A u \in VCPU : Quiet(u)
  BY QuietReached
<1>10. DataType'
  BY <1>4, TypeOwner
<1>6. ControlType'
  <2>1. (DataType => ControlType)'
    BY TypeFacts, PTL
  <2>. QED BY <1>10, <2>1
<1>7. (\A u \in VCPU : (RecallDone(u))' => RecallDone(u)) \/ At(t, "ru_recall")
  BY <1>6, RecallDoneOwner
<1>8. (\A u \in VCPU : OwnerMarks(u) /\ Stopping(owner) => (OwnerMarks(u) /\ Stopping(owner))')
         \/ At(t, "er_store")
  BY <1>6, OwnerMarksOwner
<1>9. (\A u \in VCPU : (OwnerReports(u))' => OwnerReports(u)) \/ (At(t, "ru_cas") /\ i[t] < N)
  BY <1>6, OwnerReportsOwner
<1>11. LocalInv'
  BY LocalOwner
<1>12. LoopInv'
  BY LoopOwner
<1>13. OneRoundup'
  BY OneRoundupOwner
<1>14. MarkInv'
  BY MarkOwner
<1>15. RecallInv'
  BY <1>7, RecallOwner
<1>16. ReportInv'
  BY <1>8, <1>9, ReportOwner
<1>17. QuietInv'
  BY <1>5, QuietOwner
<1>18. NotifySub(t) => \E w \in VCPU : /\ ~Stops(w) /\ (Stops(w))'
                                       /\ \A u \in VCPU \ {w} : (Stops(u))' <=> Stops(u)
  BY Unreported, NotifySubStops DEF NotifySub
<1>19. Counted'
  <2>1. EndRoundupStore(t) => /\ \A u \in VCPU : (Stops(u))' <=> Waiter(u)
                              /\ num_waiters[t] = vcpu_waiters
    BY StoreStops DEF LoopInv, Loop, EndRoundupStore
  <2>2. vcpus_progressing' = Cardinality(Running')
    BY <1>18, <2>1, StopsOwner, RunningStep
  <2>3. vcpu_waiters' = Cardinality(Waiting')
    BY WaiterOwner, WaitingStep
  <2>. QED BY <2>2, <2>3 DEF Counted
<1>20. TypeOK'
  <2>1. vcpus_progressing' \in 0 .. N /\ vcpu_waiters' \in 0 .. N
    BY <1>19, VcpuFinite DEF Counted, Running, Waiting
  <2>2. (TypeOK <=> DataType /\ vcpus_progressing \in 0 .. N /\ vcpu_waiters \in 0 .. N)'
    BY TypeSplit, PTL
  <2>. QED BY <1>10, <2>1, <2>2
<1>21. CountersExact'
  <2>1. (OneRoundup => (CountersExact <=> Counted))'
    BY CountedIff, PTL
  <2>. QED BY <1>13, <1>19, <2>1
<1>. QED
  BY <1>11, <1>12, <1>13, <1>14, <1>15, <1>16, <1>17, <1>20, <1>21

(* The invariant holds when the VMM starts. *)
LEMMA InitIInv ==
  ASSUME Init
  PROVE  IInv
<1>1. \A t \in Thread : /\ pc[t] = IF t \in VCPU THEN "off" ELSE "idle"
                        /\ ret[t] = "none" /\ i[t] = 0
  BY DEF Init
<1>2. \A t \in Thread : ~Critical(t) /\ ~Stopping(t) /\ ~Resuming(t) /\ ~Rounding(t)
  BY <1>1 DEF Critical, Stopping, Resuming, Rounding, Gathering, Holding, ReturnsTo, At
<1>3. owner \notin Thread
  BY ThreadAssumption DEF Init, Thread
<1>4. \A v \in VCPU : ~OwnerMarks(v) /\ ~OwnerReports(v)
  BY <1>3 DEF OwnerMarks, OwnerReports
<1>5. TypeOK
  <2> USE DEF Init
  <2>1. /\ state \in [VCPU -> State]
        /\ paused \in [VCPU -> SUBSET Requestor]
    BY DEF State
  <2>2. /\ off_sm \in [VCPU -> BOOLEAN]
        /\ resume_sig \in [VCPU -> BOOLEAN]
        /\ irq \in [VCPU -> BOOLEAN]
        /\ irq_sig \in [VCPU -> BOOLEAN]
        /\ recalled \in [VCPU -> BOOLEAN]
    OBVIOUS
  <2>3. /\ vcpus_progressing \in 0 .. N
        /\ vcpu_waiters \in 0 .. N
        /\ i \in [Thread -> 0 .. N]
        /\ num_waiters \in [Thread -> 0 .. N]
    BY NAssumption
  <2>4. /\ owner \in Thread \cup {NoThread}
        /\ sig_emulating \in BOOLEAN
        /\ emulating \in [Thread -> BOOLEAN]
        /\ ret \in [Thread -> {"none", "check_paused", "vmm", "lock", "ru_cas"}]
    OBVIOUS
  <2>5. pc \in [Thread -> Label]
    BY DEF Label
  <2>6. target \in [Dev -> VCPU]
    BY NAssumption DEF VCPU
  <2>. QED BY <2>1, <2>2, <2>3, <2>4, <2>5, <2>6 DEF TypeOK
<1>6. LocalInv
  BY <1>1, ThreadAssumption DEF LocalInv, Local, VcpuLocal, OffLabel, DevLabel, Thread, Init
<1>7. LoopInv
  BY <1>1 DEF LoopInv, Loop, ReturnsTo, At
<1>8. OneRoundup
  BY <1>2, <1>3 DEF OneRoundup
<1>9. MarkInv
  BY <1>4 DEF MarkInv, Roundedup, Init
<1>10. RecallInv
  BY <1>4 DEF RecallInv, RecallDone
<1>11. ReportInv
  BY <1>1, <1>4 DEF ReportInv, Report, SelfReport, At, Thread
<1>12. QuietInv
  BY <1>4 DEF QuietInv
<1>13. Counted
  <2>1. Running = VCPU
    BY <1>1, <1>2, <1>4 DEF Running, Stops, Queued, OwnerStops, At, Thread
  <2>2. Waiting = {}
    BY <1>1, <1>2 DEF Waiting, Waiter, ReturnsTo, At, Thread, Gathering
  <2>. QED BY <2>1, <2>2, VcpuFinite, FS_EmptySet DEF Counted, Init
<1>14. CountersExact
  BY <1>8, <1>13, CountedIff
<1>. QED
  BY <1>5, <1>6, <1>7, <1>8, <1>9, <1>10, <1>11, <1>12, <1>14 DEF IInv

(* A step that changes nothing preserves the invariant. *)
LEMMA Stutter ==
  ASSUME IInv, UNCHANGED vars
  PROVE  IInv'
<1> USE DEF vars, cpuVars, countVars, loopVars, At, ReturnsTo, Critical, Stopping, Rounding,
            Gathering, Holding, Resuming
<1>1. TypeOK'
  BY DEF IInv, TypeOK
<1>2. LocalInv' /\ LoopInv'
  BY DEF IInv, LocalInv, Local, VcpuLocal, LoopInv, Loop
<1>3. OneRoundup'
  BY DEF IInv, OneRoundup
<1>4. MarkInv'
  BY DEF IInv, MarkInv, OwnerMarks, MarkedBy
<1>5. RecallInv'
  BY DEF IInv, RecallInv, RecallDone, OwnerMarks, MarkedBy, OnItsWayToGuest
<1>6. ReportInv'
  BY DEF IInv, ReportInv, Report, OwnerMarks, MarkedBy, SelfReport, OwnerReports
<1>7. QuietInv'
  BY DEF IInv, QuietInv, Quiet, Progressing, OwnerMarks, MarkedBy
<1>8. CountersExact'
  BY DEF IInv, CountersExact, Stopped, Queued, Marked, MarkedBy, ReportPending, Waiter
<1>. QED BY <1>1, <1>2, <1>3, <1>4, <1>5, <1>6, <1>7, <1>8 DEF IInv

(* IInv is an invariant of the roundup protocol. *)
THEOREM Invariance == Spec => []IInv
<1>1. Init => IInv
  BY InitIInv
<1>2. IInv /\ [Next]_vars => IInv'
  <2> SUFFICES ASSUME IInv, [Next]_vars PROVE IInv'
    OBVIOUS
  <2>1. CASE Next
    <3>1. PICK t \in Thread : OutsideStep(t) \/ Lock(t) \/ (owner = t /\ OwnerStep(t))
      BY <2>1, NextIsStep DEF IInv
    <3>. QED BY <3>1, StepOutside, StepLock, StepOwner
  <2>2. CASE UNCHANGED vars
    BY <2>2, Stutter
  <2>. QED BY <2>1, <2>2
<1>. QED BY <1>1, <1>2, PTL DEF Spec

(* Every variable has its type, and the uint16 counters of the roundup never
   wrap (vcpu_roundup.cpp: vcpus_progressing, _vcpu_waiters). *)
THEOREM TypeCorrect == Spec => []TypeOK
<1>1. IInv => TypeOK
  BY DEF IInv
<1>. QED BY <1>1, Invariance, PTL

(* The counters say at every instant which VCPUs progress and which wait
   (vcpu_notify_done_progressing, yield, unyield, end_roundup_core). *)
THEOREM CountersCorrect == Spec => []CountersExact
<1>1. IInv => CountersExact
  BY DEF IInv
<1>. QED BY <1>1, Invariance, PTL

(* _waiter_mutex is held from begin_roundup to the end of resume by one
   thread at a time. *)
THEOREM MutualExclusion == Spec => []OneRoundup
<1>1. IInv => OneRoundup
  BY DEF IInv
<1>. QED BY <1>1, Invariance, PTL

(* After roundup() has returned and until the caller resumes, no VCPU makes
   progress. *)
THEOREM NoProgressWhileHeld == Spec => []RoundupStopsGuest
<1>1. IInv => RoundupStopsGuest
  <2> SUFFICES ASSUME IInv, NEW t \in Thread, NEW v \in VCPU, Holding(t)
               PROVE  ~Progressing(v)
    BY DEF RoundupStopsGuest
  <2>1. owner = t
    BY DEF IInv, OneRoundup, Critical, Stopping
  <2>2. OwnerMarks(v)
    BY <2>1 DEF OwnerMarks, MarkedBy
  <2>. QED BY <2>1, <2>2 DEF IInv, QuietInv, Quiet
<1>. QED BY <1>1, Invariance, PTL

(* No ASSERT or ABORT_WITH of the roundup and of the state machine it drives
   can fail (vcpu_roundup.cpp, cpu_model.cpp). *)
THEOREM AssertsNeverFail == Spec => []AssertsHold
<1>1. IInv => AssertsHold
  <2> SUFFICES ASSUME IInv, NEW t \in Thread
               PROVE  /\ At(t, "notify_sub") => vcpus_progressing # 0
                      /\ At(t, "held") /\ t \in VCPU => vcpu_waiters >= 1
                      /\ At(t, "er_store") => num_waiters[t] <= N
                      /\ At(t, "ru_cas") /\ i[t] < N => CanRoundup(state[i[t]])
                      /\ At(t, "rs_cas") /\ i[t] < N => CanResume(state[i[t]])
                      /\ pc[t] \in {"turn_on", "emulate", "emulate_end"} => CanSwitchOn(state[t])
                      /\ At(t, "turn_off") => CanSwitchOff(state[t])
                      /\ pc[t] \in {"be_read", "be_cas"} => state[t] \in {"ON", "ON_ROUNDEDUP"}
    BY DEF AssertsHold
  <2> USE DEF IInv
  <2>1. Counted /\ DataType
    BY CountedIff, TypeSplit
  <2>2. ControlType /\ i[t] <= N /\ i[t] \in Nat /\ num_waiters[t] <= N
    BY <2>1, TypeFacts, NAssumption DEF DataType
  <2>3. At(t, "notify_sub") => vcpus_progressing # 0
    <3> SUFFICES ASSUME At(t, "notify_sub") PROVE vcpus_progressing # 0
      OBVIOUS
    <3>1. Running # {}
      BY <2>2, Unreported DEF Running
    <3>. QED BY <2>1, <3>1, VcpuFinite, FS_EmptySet DEF Counted, Running
  <2>4. At(t, "held") /\ t \in VCPU => vcpu_waiters >= 1
    <3> SUFFICES ASSUME At(t, "held"), t \in VCPU PROVE vcpu_waiters >= 1
      OBVIOUS
    <3>1. Waiting # {}
      BY DEF Waiting, Waiter
    <3>2. Cardinality(Waiting) # 0 /\ Cardinality(Waiting) \in Nat
      BY <3>1, VcpuFinite, FS_EmptySet, NAssumption DEF Waiting
    <3>. QED BY <2>1, <3>2 DEF Counted
  <2>5. At(t, "ru_cas") /\ i[t] < N => CanRoundup(state[i[t]])
    <3> SUFFICES ASSUME At(t, "ru_cas"), i[t] < N PROVE CanRoundup(state[i[t]])
      OBVIOUS
    <3>1. i[t] \in VCPU
      BY <2>2, NAssumption DEF VCPU
    <3>2. owner = t
      BY DEF OneRoundup, Critical, Stopping, Rounding, At
    <3>3. ~OwnerMarks(i[t])
      BY <2>2, <3>2 DEF OwnerMarks, MarkedBy, Rounding, Gathering, Holding, At
    <3>. QED BY <2>2, <3>1, <3>3 DEF MarkInv, Roundedup, CanRoundup, ControlType, State
  <2>6. At(t, "rs_cas") /\ i[t] < N => CanResume(state[i[t]])
    <3> SUFFICES ASSUME At(t, "rs_cas"), i[t] < N PROVE CanResume(state[i[t]])
      OBVIOUS
    <3>1. i[t] \in VCPU
      BY <2>2, NAssumption DEF VCPU
    <3>2. owner = t
      BY DEF OneRoundup, Critical, Resuming, At
    <3>3. OwnerMarks(i[t])
      BY <2>2, <3>2 DEF OwnerMarks, MarkedBy
    <3>. QED BY <3>1, <3>3 DEF MarkInv, CanResume
  <2>7. /\ pc[t] \in {"turn_on", "emulate", "emulate_end"} => CanSwitchOn(state[t])
        /\ At(t, "turn_off") => CanSwitchOff(state[t])
        /\ pc[t] \in {"be_read", "be_cas"} => state[t] \in {"ON", "ON_ROUNDEDUP"}
    BY DEF LocalInv, Local, VcpuLocal, OffLabel, OnLabel, DevLabel, EmulatingLabel, ReturnsTo,
           Critical, Stopping, Rounding, Gathering, Holding, Resuming, At, CanSwitchOn,
           CanSwitchOff, Thread
  <2>. QED BY <2>2, <2>3, <2>4, <2>5, <2>6, <2>7
<1>. QED BY <1>1, Invariance, PTL

-----------------------------------------------------------------------------
(* Who starts and who stops *)

(* A step starts or stops w alone, and no VCPU that the roundup has recalled
   starts. *)
Moves(w) ==
  \A u \in VCPU :
    /\ u # w => ((Progressing(u))' <=> Progressing(u))
    /\ RecallDone(u) /\ ~Progressing(u) => ~(Progressing(u))'

(* A VCPU thread starts or stops itself, and a Dev thread stops the VCPU it
   pauses: begin_emulation fails against a ROUNDEDUP state and the recall is
   delivered before the guest is entered. *)
LEMMA MovesOutside ==
  ASSUME NEW t \in Thread, OutsideStep(t), ControlType, LocalInv, MarkInv,
         RecallInv, OneRoundup, recalled \in [VCPU -> BOOLEAN],
         target \in [Dev -> VCPU]
  PROVE  \E w \in VCPU : Moves(w)
<1>0. 0 \in VCPU
  BY NAssumption DEF VCPU
<1>m. \A u \in VCPU : RecallDone(u) => Roundedup(state[u])
  BY DEF MarkInv, RecallDone
<1> USE ThreadAssumption, <1>m
    DEF Thread, ControlType, Ret, LocalInv, Local, VcpuLocal, RecallInv,
        OnItsWayToGuest, Moves, Progressing, Roundedup, At, Goto, CallNotify,
        Clear, Sig, RecallBy, WeakRecallBy, cpuVars, countVars, loopVars, ReturnsTo,
        EmulatingLabel, OffLabel, OnLabel, DevLabel
<1>1. ASSUME NotifySub(t), ~Critical(t) PROVE t \in VCPU /\ Moves(t)
  BY <1>1 DEF NotifySub
<1>2. ASSUME NotifySig(t), ~Critical(t) PROVE t \in VCPU /\ Moves(t)
  BY <1>2 DEF NotifySig
<1>3. ASSUME t \in VCPU, WaitForSwitchOn(t) PROVE Moves(t)
  BY <1>3 DEF WaitForSwitchOn
<1>4. ASSUME t \in VCPU, TurnOn(t) PROVE Moves(t)
  BY <1>4 DEF TurnOn
<1>5. ASSUME t \in VCPU, CheckPaused(t) PROVE Moves(t)
  BY <1>5 DEF CheckPaused
<1>6. ASSUME t \in VCPU, TurnOff(t) PROVE Moves(t)
  BY <1>6 DEF TurnOff
<1>7. ASSUME t \in VCPU, BeginEmulationRead(t) PROVE Moves(t)
  BY <1>7 DEF BeginEmulationRead
<1>8. ASSUME t \in VCPU, BeginEmulationCas(t) PROVE Moves(t)
  BY <1>8 DEF BeginEmulationCas
<1>9. ASSUME t \in VCPU, WaitForResume(t) PROVE Moves(t)
  BY <1>9 DEF WaitForResume
<1>10. ASSUME t \in VCPU, EndEmulation(t) PROVE Moves(t)
  BY <1>10 DEF EndEmulation
<1>11. ASSUME t \in VCPU, EnterGuest(t) PROVE Moves(t)
  BY <1>11 DEF EnterGuest
<1>12. ASSUME t \in VCPU, WfiTest(t) PROVE Moves(t)
  BY <1>12 DEF WfiTest
<1>13. ASSUME t \in VCPU, Block(t) PROVE Moves(t)
  BY <1>13 DEF Block
<1>14. ASSUME t \in VCPU, BlockTimeout(t) PROVE Moves(t)
  BY <1>14 DEF BlockTimeout
<1>15. ASSUME t \in VCPU, Yield(t) PROVE Moves(t)
  BY <1>15 DEF Yield
<1>16. ASSUME t \in Dev, CtrlRecall(t) PROVE Moves(target[t])
  BY <1>16 DEF CtrlRecall
<1>17. ASSUME t \in Dev, CtrlSwitchOn(t) PROVE Moves(0)
  BY <1>17 DEF CtrlSwitchOn
<1>18. ASSUME t \in Dev, IrqNotify(t) PROVE Moves(0)
  BY <1>18 DEF IrqNotify
<1>19. ASSUME t \in Dev, IrqRecall(t) PROVE Moves(0)
  BY <1>19 DEF IrqRecall
<1>20. ASSUME t \in Dev, IrqUnblock(t) PROVE Moves(0)
  BY <1>20 DEF IrqUnblock
<1>21. ASSUME CallRoundup(t) PROVE Moves(0)
  BY <1>21 DEF CallRoundup
<1>22. ASSUME t \in VCPU, GuestExit(t) PROVE Moves(t)
  BY <1>22 DEF GuestExit
<1>23. ASSUME t \in VCPU, GuestAck(t) PROVE Moves(t)
  BY <1>23 DEF GuestAck
<1>24. ASSUME t \in VCPU, CallWaitForInterrupt(t) PROVE Moves(t)
  <2>1. PICK l \in {"wfi", "emulate_end", "wfi_timed"} : Goto(t, l)
    BY <1>24 DEF CallWaitForInterrupt
  <2>. QED BY <1>24, <2>1 DEF CallWaitForInterrupt
<1>25. ASSUME t \in VCPU, CallRoundupFromVcpu(t) PROVE Moves(t)
  BY <1>25 DEF CallRoundupFromVcpu
<1>26. ASSUME t \in Dev, CtrlFeatureOff(t) PROVE Moves(0)
  BY <1>26 DEF CtrlFeatureOff
<1>27. ASSUME t \in Dev, CtrlFeatureOn(t) PROVE Moves(0)
  BY <1>27 DEF CtrlFeatureOn
<1>28. ASSUME t \in Dev, RaiseInterrupt(t) PROVE Moves(0)
  BY <1>28 DEF RaiseInterrupt
<1>. QED
  BY <1>0, <1>1, <1>2, <1>3, <1>4, <1>5, <1>6, <1>7, <1>8, <1>9, <1>10, <1>11,
     <1>12, <1>13, <1>14, <1>15, <1>16, <1>17, <1>18, <1>19, <1>20, <1>21,
     <1>22, <1>23, <1>24, <1>25, <1>26, <1>27, <1>28
     DEF OutsideStep, NotifyStep, VcpuStep, DevStep, VcpuChoice, DevChoice

(* The thread that holds _waiter_mutex stops at most the VCPU it recalls; as
   a VCPU it starts itself again when it unlocks the mutex, and has resumed
   every VCPU before. *)
LEMMA MovesOwner ==
  ASSUME NEW t \in Thread, OwnerStep(t), owner = t, ControlType, LocalInv,
         LoopInv, OneRoundup
  PROVE  \E w \in VCPU : Moves(w)
<1>0. 0 \in VCPU /\ (\A u \in VCPU : u \in Thread)
  BY NAssumption DEF VCPU, Thread
<1> USE ThreadAssumption, <1>0
    DEF ControlType, At, Goto, CallNotify, RecallBy, Unyield, Unlock, cpuVars,
        countVars, loopVars, ReturnsTo, EmulatingLabel, Moves, Progressing
<1>1. ASSUME NotifySub(t), Critical(t) PROVE Moves(0)
  BY <1>1 DEF NotifySub, Critical, Stopping, Rounding, Gathering, Holding, Resuming
<1>2. ASSUME NotifySig(t), Critical(t) PROVE Moves(0)
  BY <1>2 DEF NotifySig, Critical, Stopping, Rounding, Gathering, Holding, Resuming
<1>3. ASSUME RoundupCas(t) PROVE Moves(0)
  BY <1>3 DEF RoundupCas
<1>4. ASSUME RoundupRecall(t) PROVE i[t] \in VCPU /\ Moves(i[t])
  <2>1. i[t] \in VCPU
    BY <1>4, NAssumption DEF RoundupRecall, LoopInv, Loop, VCPU
  <2>. QED BY <1>4, <2>1 DEF RoundupRecall
<1>5. ASSUME RoundupUnblock(t) PROVE Moves(0)
  BY <1>5 DEF RoundupUnblock
<1>6. ASSUME RoundupAllDone(t) PROVE Moves(0)
  BY <1>6 DEF RoundupAllDone
<1>7. ASSUME RoundupTest(t) PROVE Moves(0)
  BY <1>7 DEF RoundupTest
<1>8. ASSUME RoundupWait(t) PROVE Moves(0)
  BY <1>8 DEF RoundupWait
<1>9. ASSUME EndRoundupRead(t) PROVE Moves(0)
  BY <1>9 DEF EndRoundupRead
<1>10. ASSUME EndRoundupStore(t) PROVE Moves(0)
  BY <1>10 DEF EndRoundupStore
<1>11. ASSUME ResumeCas(t) PROVE Moves(0)
  BY <1>11 DEF ResumeCas
<1>12. ASSUME ResumeSig(t) PROVE Moves(0)
  BY <1>12 DEF ResumeSig
<1>13. ASSUME ResumeAllDone(t) PROVE Moves(0)
  BY <1>13 DEF ResumeAllDone
<1>14. ASSUME Resume(t) PROVE Moves(0)
  BY <1>14 DEF Resume
<1>15. ASSUME SignalNextWaiter(t) PROVE \E w \in VCPU : Moves(w)
  <2>1. At(t, "unlock") /\ pc' = [pc EXCEPT ![t] = IF t \in VCPU THEN "emulate" ELSE "idle"]
    BY <1>15 DEF SignalNextWaiter
  <2>2. \A u \in VCPU : ~RecallDone(u)
    BY <2>1 DEF RecallDone, OwnerMarks, MarkedBy, Rounding, Gathering, Holding
  <2>3. CASE t \in VCPU
    BY <2>1, <2>2, <2>3
  <2>4. CASE t \notin VCPU
    BY <2>1, <2>2, <2>4
  <2>. QED BY <2>3, <2>4
<1>. QED
  BY <1>1, <1>2, <1>3, <1>4, <1>5, <1>6, <1>7, <1>8, <1>9, <1>10, <1>11, <1>12,
     <1>13, <1>14, <1>15
     DEF OwnerStep, NotifyStep, ResumeStep

(* Every step starts or stops at most one VCPU, and none that the roundup has
   recalled starts. *)
LEMMA OneMoves ==
  ASSUME IInv, [Next]_vars
  PROVE  \E w \in VCPU : Moves(w)
<1>0. 0 \in VCPU
  BY NAssumption DEF VCPU
<1>1. DataType
  BY TypeSplit DEF IInv
<1>2. /\ ControlType
      /\ recalled \in [VCPU -> BOOLEAN]
      /\ target \in [Dev -> VCPU]
  BY <1>1, TypeFacts DEF DataType
<1>3. CASE UNCHANGED vars
  BY <1>0, <1>3 DEF Moves, Progressing, vars
<1>4. CASE Next
  <2>1. PICK t \in Thread : OutsideStep(t) \/ Lock(t) \/ (owner = t /\ OwnerStep(t))
    BY <1>4, NextIsStep DEF IInv
  <2>2. CASE OutsideStep(t)
    BY <1>2, <2>2, MovesOutside DEF IInv
  <2>3. CASE Lock(t)
    <3>1. At(t, "lock") /\ pc' = [pc EXCEPT ![t] = "ru_cas"] /\ pc \in [Thread -> Label]
      BY <1>2, <2>3 DEF Lock, Goto, ControlType
    <3>2. Moves(0)
      BY <3>1 DEF Moves, Progressing, EmulatingLabel, At, Thread
    <3>. QED BY <1>0, <3>2
  <2>4. CASE owner = t /\ OwnerStep(t)
    BY <1>2, <2>4, MovesOwner DEF IInv
  <2>. QED BY <2>1, <2>2, <2>3, <2>4
<1>. QED BY <1>3, <1>4

(* A VCPU that the roundup of t has recalled is one that the owner of
   _waiter_mutex has. *)
LEMMA RecalledIsDone ==
  ASSUME IInv, NEW t \in Thread, NEW v \in VCPU, RecalledBy(t, v)
  PROVE  RecallDone(v)
<1>1. owner = t
  BY DEF IInv, OneRoundup, Critical, Stopping, Resuming, RecalledBy, MarkedBy, At
<1>. QED BY <1>1 DEF RecalledBy, RecallDone, OwnerMarks

(* A VCPU that a held roundup has stopped is recalled. *)
LEMMA PassedIsRecalled ==
  ASSUME IInv, NEW t \in Thread, NEW v \in VCPU, Holding(t)
  PROVE  RecallDone(v)
BY RecalledIsDone DEF RecalledBy, MarkedBy, Holding, At

(* From the return of the roundup's recall of a VCPU until its resume, the
   VCPU neither starts to emulate nor reaches the guest (vcpu_roundup.cpp:
   roundup_impl, cpu_model.cpp: switch_state_to_emulating). *)
THEOREM NoStart == Spec => NoStartOnceRecalled
<1> DEFINE A == \A v \in VCPU, t \in Thread :
                  RecalledBy(t, v) /\ ~Progressing(v) => ~(Progressing(v))'
<1>1. IInv /\ [Next]_vars => A
  <2> SUFFICES ASSUME IInv, [Next]_vars, NEW v \in VCPU, NEW t \in Thread,
                      RecalledBy(t, v), ~Progressing(v)
               PROVE  ~(Progressing(v))'
    OBVIOUS
  <2>1. RecallDone(v)
    BY RecalledIsDone
  <2>. QED BY <2>1, OneMoves DEF Moves
<1>. QED BY <1>1, Invariance, PTL DEF Spec, NoStartOnceRecalled

-----------------------------------------------------------------------------
(* Refinement *)

(* The abstract variables: the VCPUs that make progress, and whether a roundup
   has returned and is not being resumed. *)
Progress == {v \in VCPU : Progressing(v)}
Held == \E t \in Thread : Holding(t)

(* While a roundup is held every VCPU is recalled and none makes progress. *)
LEMMA HeldFacts ==
  IInv /\ Held => Progress = {} /\ \A v \in VCPU : RecallDone(v)
<1> SUFFICES ASSUME IInv, Held
             PROVE  Progress = {} /\ \A v \in VCPU : RecallDone(v)
  OBVIOUS
<1>1. PICK t \in Thread : Holding(t)
  BY DEF Held
<1>2. \A v \in VCPU : RecallDone(v)
  BY <1>1, PassedIsRecalled
<1>3. owner = t
  BY <1>1 DEF IInv, OneRoundup, Critical, Stopping
<1>4. \A v \in VCPU : ~Progressing(v)
  BY <1>1, <1>2, <1>3 DEF RecallDone, IInv, QuietInv, Quiet
<1>. QED BY <1>2, <1>4 DEF Progress

(* A step that does not start a recalled VCPU and leaves it open whether a
   roundup is held maps to Start, Stop or a stutter. *)
LEMMA MoveMaps ==
  ASSUME IInv, [Next]_vars, Held' <=> Held
  PROVE  [Promise!Next]_(Promise!vars)
<1>1. PICK w \in VCPU : Moves(w)
  BY OneMoves
<1>2. CASE (Progressing(w))' <=> Progressing(w)
  <2>1. Progress' = Progress
    BY <1>1, <1>2 DEF Progress, Moves, VCPU
  <2>. QED BY <2>1 DEF Promise!vars, Progress, Held
<1>3. CASE Progressing(w) /\ ~(Progressing(w))'
  <2>1. Progress' = Progress \ {w}
    BY <1>1, <1>3 DEF Progress, Moves, VCPU
  <2>2. Promise!Stop(w)
    BY <1>3, <2>1 DEF Promise!Stop, Progress, Held
  <2>. QED BY <2>2 DEF Promise!Next
<1>4. CASE ~Progressing(w) /\ (Progressing(w))'
  <2>1. Progress' = Progress \cup {w}
    BY <1>1, <1>4 DEF Progress, Moves, VCPU
  <2>2. ~Held
    BY <1>1, <1>4, HeldFacts DEF Moves
  <2>3. Promise!Start(w)
    BY <2>1, <2>2 DEF Promise!Start, Progress, Held
  <2>. QED BY <2>3 DEF Promise!Next
<1>. QED BY <1>2, <1>3, <1>4

(* The thread that holds a roundup is the one that locked _waiter_mutex. *)
LEMMA HeldByOwner == OneRoundup => (Held <=> owner \in Thread /\ Holding(owner))
BY DEF OneRoundup, Held, Critical, Stopping

(* The roundup is held from the test that sees vcpus_progressing = 0 to the
   store of end_roundup_core, and no other step begins or ends that. *)
LEMMA HeldChanges ==
  ASSUME IInv, IInv', [Next]_vars, ~(Held' <=> Held)
  PROVE  \E t \in Thread : /\ owner = t
                           /\ RoundupTest(t) \/ EndRoundupStore(t)
<1>1. DataType
  BY TypeSplit DEF IInv
<1>2. ControlType /\ emulating \in [Thread -> BOOLEAN]
  BY <1>1, TypeFacts
<1>3. Held <=> owner \in Thread /\ Holding(owner)
  BY HeldByOwner DEF IInv
<1>4. Held' <=> (owner \in Thread /\ Holding(owner))'
  <2>1. (OneRoundup => (Held <=> owner \in Thread /\ Holding(owner)))'
    BY HeldByOwner, PTL
  <2>. QED BY <2>1 DEF IInv
<1>5. CASE UNCHANGED vars
  BY <1>5 DEF vars, Held, Holding
<1>6. CASE Next
  <2>1. PICK t \in Thread : OutsideStep(t) \/ Lock(t) \/ (owner = t /\ OwnerStep(t))
    BY <1>6, NextIsStep DEF IInv
  <2>2. CASE OutsideStep(t)
    <3>1. OwnerSame
      BY <1>2, <2>2, OwnerSameOutside DEF IInv
    <3>. QED BY <1>3, <1>4, <3>1, OwnerFrame DEF OwnerSame
  <2>3. CASE Lock(t)
    <3>1. owner \notin Thread /\ owner' = t /\ pc'[t] = "ru_cas"
      BY <1>2, <2>3, ThreadAssumption DEF Lock, Goto, ControlType, Thread
    <3>. QED BY <1>3, <1>4, <3>1 DEF Holding
  <2>4. CASE owner = t /\ OwnerStep(t)
    <3> USE <1>2, <1>3, <1>4, <2>4
        DEF ControlType, At, Goto, CallNotify, RecallBy, Unyield, Unlock, countVars, Holding
    <3> SUFFICES ASSUME ~RoundupTest(t), ~EndRoundupStore(t) PROVE FALSE
      OBVIOUS
    <3>1. ASSUME NotifySub(t), Critical(t) PROVE FALSE
      BY <3>1 DEF NotifySub, Critical, Stopping, Rounding, Gathering, Resuming, ReturnsTo
    <3>2. ASSUME NotifySig(t), Critical(t) PROVE FALSE
      BY <3>2 DEF NotifySig, Critical, Stopping, Rounding, Gathering, Resuming, ReturnsTo
    <3>3. ASSUME RoundupCas(t) PROVE FALSE
      BY <3>3 DEF RoundupCas
    <3>4. ASSUME RoundupRecall(t) PROVE FALSE
      BY <3>4 DEF RoundupRecall
    <3>5. ASSUME RoundupUnblock(t) PROVE FALSE
      BY <3>5 DEF RoundupUnblock
    <3>6. ASSUME RoundupAllDone(t) PROVE FALSE
      BY <3>6 DEF RoundupAllDone
    <3>7. ASSUME RoundupWait(t) PROVE FALSE
      BY <3>7 DEF RoundupWait
    <3>8. ASSUME EndRoundupRead(t) PROVE FALSE
      BY <3>8 DEF EndRoundupRead
    <3>9. ASSUME ResumeCas(t) PROVE FALSE
      BY <3>9 DEF ResumeCas
    <3>10. ASSUME ResumeSig(t) PROVE FALSE
      BY <3>10 DEF ResumeSig
    <3>11. ASSUME ResumeAllDone(t) PROVE FALSE
      BY <3>11 DEF ResumeAllDone
    <3>12. ASSUME Resume(t) PROVE FALSE
      BY <3>12 DEF Resume
    <3>13. ASSUME SignalNextWaiter(t) PROVE FALSE
      BY <3>13, ThreadAssumption DEF SignalNextWaiter, Thread
    <3>. QED
      BY <3>1, <3>2, <3>3, <3>4, <3>5, <3>6, <3>7, <3>8, <3>9, <3>10, <3>11, <3>12, <3>13
         DEF OwnerStep, NotifyStep, ResumeStep
  <2>. QED BY <2>1, <2>2, <2>3, <2>4
<1>. QED BY <1>5, <1>6

(* The protocol implements the promise of roundup(): it returns when no VCPU
   makes progress, and none does before resume(). *)
THEOREM KeepsPromise == Spec => ImplementsStopTheWorld
<1>1. Init => Promise!Init
  <2> SUFFICES ASSUME Init PROVE Promise!Init
    OBVIOUS
  <2>1. \A t \in Thread : pc[t] \in {"off", "idle"}
    BY DEF Init
  <2>2. Progress = {}
    BY <2>1 DEF Progress, Progressing, EmulatingLabel, Thread
  <2>3. ~Held
    BY <2>1 DEF Held, Holding
  <2>. QED BY <2>2, <2>3 DEF Promise!Init, Progress, Held
<1>2. IInv /\ IInv' /\ [Next]_vars => [Promise!Next]_(Promise!vars)
  <2> SUFFICES ASSUME IInv, IInv', [Next]_vars
               PROVE  [Promise!Next]_(Promise!vars)
    OBVIOUS
  <2>1. CASE Held' <=> Held
    BY <2>1, MoveMaps
  <2>2. CASE ~(Held' <=> Held)
    <3>1. PICK t \in Thread : owner = t /\ (RoundupTest(t) \/ EndRoundupStore(t))
      BY <2>2, HeldChanges
    <3>2. /\ At(t, "ru_test") \/ At(t, "er_store")
          /\ \E l \in {"ru_wait", "held", "rs_cas"} : Goto(t, l)
      BY <3>1 DEF RoundupTest, EndRoundupStore
    <3>3. Progress' = Progress
      <4>1. PICK l \in {"ru_wait", "held", "rs_cas"} : Goto(t, l)
        BY <3>2
      <4>2. pc \in [Thread -> Label]
        BY DEF IInv, TypeOK
      <4>. QED BY <3>2, <4>1, <4>2 DEF Progress, Progressing, EmulatingLabel, At, Goto, Thread
    <3>4. CASE ~Held
      <4>1. Progress' = {}
        <5>1. (IInv /\ Held => Progress = {} /\ \A v \in VCPU : RecallDone(v))'
          BY HeldFacts, PTL
        <5>. QED BY <2>2, <3>4, <5>1
      <4>2. Promise!RoundupReturn
        BY <2>2, <3>3, <3>4, <4>1 DEF Promise!RoundupReturn, Progress, Held
      <4>. QED BY <4>2 DEF Promise!Next
    <3>5. CASE Held
      <4>1. Promise!Resume
        BY <2>2, <3>3, <3>5 DEF Promise!Resume, Progress, Held
      <4>. QED BY <4>1 DEF Promise!Next
    <3>. QED BY <3>4, <3>5
  <2>. QED BY <2>1, <2>2
<1>. QED BY <1>1, <1>2, Invariance, PTL DEF Spec, ImplementsStopTheWorld, Promise!Spec


-----------------------------------------------------------------------------
(* Wakeups.  The inductive invariant is NoLostWakeup in its parts, and that a
   VCPU on its way to wait_for_switch_on does not miss the signal either. *)

ResumeWakes(v) ==
  At(v, "wait_resume") =>
    \/ Roundedup(state[v])
    \/ resume_sig[v]
    \/ \E t \in Thread : At(t, "rs_sig") /\ i[t] = v

RoundupWakes(v) ==
  At(v, "wfi_block") /\ state[v] = "EMULATE_ROUNDEDUP" =>
    \/ irq_sig[v]
    \/ \E t \in Thread : pc[t] \in {"ru_recall", "ru_unblock"} /\ i[t] = v

IrqWakes(v) ==
  At(v, "wfi_block") /\ irq[v] =>
    \/ irq_sig[v]
    \/ \E d \in Dev : /\ pc[d] \in {"irq_notify", "irq_recall", "irq_unblock"}
                      /\ target[d] = v

OnWakes(v) ==
  pc[v] \in {"off", "turn_off"} /\ paused[v] = {} =>
    \/ off_sm[v]
    \/ \E d \in Dev : At(d, "ctl_switch_on") /\ target[d] = v

WakeInv ==
  \A v \in VCPU : ResumeWakes(v) /\ RoundupWakes(v) /\ IrqWakes(v) /\ OnWakes(v)

(* The part of TypeOK that the steps need. *)
WakeType ==
  /\ ControlType
  /\ resume_sig \in [VCPU -> BOOLEAN]
  /\ irq_sig \in [VCPU -> BOOLEAN]
  /\ off_sm \in [VCPU -> BOOLEAN]
  /\ irq \in [VCPU -> BOOLEAN]
  /\ paused \in [VCPU -> SUBSET Requestor]
  /\ target \in [Dev -> VCPU]

(* A VCPU clears its signals only where it goes on to test again what it
   waits for, and a Dev thread signals after every change. *)
LEMMA WakeOutside ==
  ASSUME NEW t \in Thread, OutsideStep(t), WakeType, WakeInv
  PROVE  WakeInv'
<1> USE ThreadAssumption
    DEF Thread, ControlType, Ret, WakeType, WakeInv, ResumeWakes, RoundupWakes,
        IrqWakes, OnWakes, WfiDone, Roundedup, At, Goto, CallNotify, Clear, Sig,
        RecallBy, WeakRecallBy, Unyield, Unlock, cpuVars, countVars, loopVars
<1>1. ASSUME NotifySub(t), ~Critical(t) PROVE WakeInv'
  BY <1>1 DEF NotifySub
<1>2. ASSUME NotifySig(t), ~Critical(t) PROVE WakeInv'
  BY <1>2 DEF NotifySig
<1>3. ASSUME t \in VCPU, WaitForSwitchOn(t) PROVE WakeInv'
  BY <1>3 DEF WaitForSwitchOn
<1>4. ASSUME t \in VCPU, TurnOn(t) PROVE WakeInv'
  BY <1>4 DEF TurnOn
<1>5. ASSUME t \in VCPU, CheckPaused(t) PROVE WakeInv'
  BY <1>5 DEF CheckPaused
<1>6. ASSUME t \in VCPU, TurnOff(t) PROVE WakeInv'
  BY <1>6 DEF TurnOff
<1>7. ASSUME t \in VCPU, BeginEmulationRead(t) PROVE WakeInv'
  BY <1>7 DEF BeginEmulationRead
<1>8. ASSUME t \in VCPU, BeginEmulationCas(t) PROVE WakeInv'
  BY <1>8 DEF BeginEmulationCas
<1>9. ASSUME t \in VCPU, WaitForResume(t) PROVE WakeInv'
  BY <1>9 DEF WaitForResume
<1>10. ASSUME t \in VCPU, EndEmulation(t) PROVE WakeInv'
  BY <1>10 DEF EndEmulation
<1>11. ASSUME t \in VCPU, EnterGuest(t) PROVE WakeInv'
  BY <1>11 DEF EnterGuest
<1>12. ASSUME t \in VCPU, WfiTest(t) PROVE WakeInv'
  BY <1>12 DEF WfiTest
<1>13. ASSUME t \in VCPU, Block(t) PROVE WakeInv'
  BY <1>13 DEF Block
<1>14. ASSUME t \in VCPU, BlockTimeout(t) PROVE WakeInv'
  BY <1>14 DEF BlockTimeout
<1>15. ASSUME t \in VCPU, Yield(t) PROVE WakeInv'
  BY <1>15 DEF Yield
<1>16. ASSUME t \in Dev, CtrlRecall(t) PROVE WakeInv'
  <2>0. RecallBy(t, target[t], "idle")
    BY <1>16 DEF CtrlRecall
  <2>1. /\ pc'[t] = "idle"
        /\ \A u \in Thread \ {t} : IF u = target[t] /\ pc[u] = "guest"
                                     THEN pc'[u] = "check_paused"
                                     ELSE pc'[u] = pc[u]
    BY <2>0
  <2> SUFFICES ASSUME NEW v \in VCPU
               PROVE  (ResumeWakes(v) /\ RoundupWakes(v) /\ IrqWakes(v) /\ OnWakes(v))'
    OBVIOUS
  <2>2. ResumeWakes(v)'
    BY <1>16, <2>1 DEF CtrlRecall
  <2>3. RoundupWakes(v)'
    <3>1. UNCHANGED <<state, irq_sig, i>>
      BY <1>16 DEF CtrlRecall
    <3>2. ASSUME NEW u \in Thread, pc[u] \in {"ru_recall", "ru_unblock"}
          PROVE  pc'[u] = pc[u]
      BY <1>16, <2>1, <3>2 DEF CtrlRecall
    <3>3. At(v, "wfi_block")' => At(v, "wfi_block")
      BY <1>16, <2>1 DEF CtrlRecall
    <3>. QED BY <3>1, <3>2, <3>3
  <2>4. IrqWakes(v)'
    BY <1>16, <2>1 DEF CtrlRecall
  <2>5. OnWakes(v)'
    BY <1>16, <2>1 DEF CtrlRecall
  <2>. QED BY <2>2, <2>3, <2>4, <2>5
<1>17. ASSUME t \in Dev, CtrlSwitchOn(t) PROVE WakeInv'
  BY <1>17 DEF CtrlSwitchOn
<1>18. ASSUME t \in Dev, IrqNotify(t) PROVE WakeInv'
  BY <1>18 DEF IrqNotify
<1>19. ASSUME t \in Dev, IrqRecall(t) PROVE WakeInv'
  BY <1>19 DEF IrqRecall
<1>20. ASSUME t \in Dev, IrqUnblock(t) PROVE WakeInv'
  BY <1>20 DEF IrqUnblock
<1>21. ASSUME CallRoundup(t) PROVE WakeInv'
  BY <1>21 DEF CallRoundup
<1>22. ASSUME t \in VCPU, GuestExit(t) PROVE WakeInv'
  BY <1>22 DEF GuestExit
<1>23. ASSUME t \in VCPU, GuestAck(t) PROVE WakeInv'
  BY <1>23 DEF GuestAck
<1>24. ASSUME t \in VCPU, CallWaitForInterrupt(t) PROVE WakeInv'
  BY <1>24 DEF CallWaitForInterrupt
<1>25. ASSUME t \in VCPU, CallRoundupFromVcpu(t) PROVE WakeInv'
  BY <1>25 DEF CallRoundupFromVcpu
<1>26. ASSUME t \in Dev, CtrlFeatureOff(t) PROVE WakeInv'
  BY <1>26 DEF CtrlFeatureOff
<1>27. ASSUME t \in Dev, CtrlFeatureOn(t) PROVE WakeInv'
  BY <1>27 DEF CtrlFeatureOn
<1>28. ASSUME t \in Dev, RaiseInterrupt(t) PROVE WakeInv'
  BY <1>28 DEF RaiseInterrupt
<1>. QED
  BY <1>1, <1>2, <1>3, <1>4, <1>5, <1>6, <1>7, <1>8, <1>9, <1>10, <1>11, <1>12,
     <1>13, <1>14, <1>15, <1>16, <1>17, <1>18, <1>19, <1>20, <1>21, <1>22,
     <1>23, <1>24, <1>25, <1>26, <1>27, <1>28
     DEF OutsideStep, NotifyStep, VcpuStep, DevStep, VcpuChoice, DevChoice

(* The roundup unblocks every VCPU it marks, and signals every VCPU that it
   takes out of a ROUNDEDUP state. *)
LEMMA WakeOwner ==
  ASSUME NEW t \in Thread, OwnerStep(t), WakeType, WakeInv
  PROVE  WakeInv'
<1> USE ThreadAssumption
    DEF Thread, ControlType, Ret, WakeType, WakeInv, ResumeWakes, RoundupWakes,
        IrqWakes, OnWakes, WfiDone, Roundedup, At, Goto, CallNotify, Clear, Sig,
        RecallBy, WeakRecallBy, Unyield, Unlock, cpuVars, countVars, loopVars
<1>1. ASSUME NotifySub(t), Critical(t) PROVE WakeInv'
  BY <1>1 DEF NotifySub
<1>2. ASSUME NotifySig(t), Critical(t) PROVE WakeInv'
  BY <1>2 DEF NotifySig
<1>3. ASSUME RoundupCas(t) PROVE WakeInv'
  <2> SUFFICES ASSUME NEW v \in VCPU
               PROVE  (ResumeWakes(v) /\ RoundupWakes(v) /\ IrqWakes(v) /\ OnWakes(v))'
    OBVIOUS
  <2>2. ResumeWakes(v)'
    BY <1>3 DEF RoundupCas, CanRoundup, switch_state_to_roundedup
  <2>3. RoundupWakes(v)'
    BY <1>3 DEF RoundupCas, CanRoundup, switch_state_to_roundedup
  <2>4. IrqWakes(v)'
    BY <1>3 DEF RoundupCas
  <2>5. OnWakes(v)'
    BY <1>3 DEF RoundupCas
  <2>. QED BY <2>2, <2>3, <2>4, <2>5
<1>4. ASSUME RoundupRecall(t) PROVE WakeInv'
  <2> SUFFICES ASSUME NEW v \in VCPU
               PROVE  (ResumeWakes(v) /\ RoundupWakes(v) /\ IrqWakes(v) /\ OnWakes(v))'
    OBVIOUS
  <2>2. ResumeWakes(v)'
    BY <1>4 DEF RoundupRecall
  <2>3. RoundupWakes(v)'
    <3>1. /\ UNCHANGED <<state, irq_sig, i>>
          /\ pc' = [u \in Thread |->
                      CASE u = t -> "ru_unblock"
                        [] u = i[t] /\ u # t /\ pc[i[t]] = "guest" -> "check_paused"
                        [] OTHER -> pc[u]]
      BY <1>4 DEF RoundupRecall
    <3>2. ASSUME NEW u \in Thread, pc[u] \in {"ru_recall", "ru_unblock"}
          PROVE  pc'[u] \in {"ru_recall", "ru_unblock"}
      <4>1. CASE u = t
        BY <3>1, <4>1
      <4>2. CASE u # t
        BY <3>1, <3>2, <4>2
      <4>. QED BY <4>1, <4>2
    <3>3. v \in Thread /\ (pc'[v] = "wfi_block" => pc[v] = "wfi_block")
      <4>1. CASE v = t
        BY <3>1, <4>1
      <4>2. CASE v # t
        BY <3>1, <4>2
      <4>. QED BY <4>1, <4>2
    <3>4. SUFFICES ASSUME pc'[v] = "wfi_block", state'[v] = "EMULATE_ROUNDEDUP", ~irq_sig'[v]
                   PROVE  \E u \in Thread : pc'[u] \in {"ru_recall", "ru_unblock"} /\ i'[u] = v
      OBVIOUS
    <3>5. PICK u \in Thread : pc[u] \in {"ru_recall", "ru_unblock"} /\ i[u] = v
      BY <3>1, <3>3, <3>4
    <3>. QED BY <3>1, <3>2, <3>5
  <2>4. IrqWakes(v)'
    BY <1>4 DEF RoundupRecall
  <2>5. OnWakes(v)'
    BY <1>4 DEF RoundupRecall
  <2>. QED BY <2>2, <2>3, <2>4, <2>5
<1>5. ASSUME RoundupUnblock(t) PROVE WakeInv'
  BY <1>5 DEF RoundupUnblock
<1>6. ASSUME RoundupAllDone(t) PROVE WakeInv'
  BY <1>6 DEF RoundupAllDone
<1>7. ASSUME RoundupTest(t) PROVE WakeInv'
  BY <1>7 DEF RoundupTest
<1>8. ASSUME RoundupWait(t) PROVE WakeInv'
  BY <1>8 DEF RoundupWait
<1>9. ASSUME EndRoundupRead(t) PROVE WakeInv'
  BY <1>9 DEF EndRoundupRead
<1>10. ASSUME EndRoundupStore(t) PROVE WakeInv'
  BY <1>10 DEF EndRoundupStore
<1>11. ASSUME ResumeCas(t) PROVE WakeInv'
  <2> SUFFICES ASSUME NEW v \in VCPU
               PROVE  (ResumeWakes(v) /\ RoundupWakes(v) /\ IrqWakes(v) /\ OnWakes(v))'
    OBVIOUS
  <2>2. ResumeWakes(v)'
    BY <1>11 DEF ResumeCas, CanResume, resume
  <2>3. RoundupWakes(v)'
    BY <1>11 DEF ResumeCas, CanResume, resume
  <2>4. IrqWakes(v)'
    BY <1>11 DEF ResumeCas
  <2>5. OnWakes(v)'
    BY <1>11 DEF ResumeCas
  <2>. QED BY <2>2, <2>3, <2>4, <2>5
<1>12. ASSUME ResumeSig(t) PROVE WakeInv'
  BY <1>12 DEF ResumeSig
<1>13. ASSUME ResumeAllDone(t) PROVE WakeInv'
  BY <1>13 DEF ResumeAllDone
<1>14. ASSUME Resume(t) PROVE WakeInv'
  BY <1>14 DEF Resume
<1>15. ASSUME SignalNextWaiter(t) PROVE WakeInv'
  BY <1>15 DEF SignalNextWaiter
<1>. QED
  BY <1>1, <1>2, <1>3, <1>4, <1>5, <1>6, <1>7, <1>8, <1>9, <1>10, <1>11, <1>12,
     <1>13, <1>14, <1>15
     DEF OwnerStep, NotifyStep, ResumeStep
(* Taking _waiter_mutex sends and awaits no signal. *)
LEMMA WakeLock ==
  ASSUME NEW t \in Thread, Lock(t), WakeType, WakeInv
  PROVE  WakeInv'
BY ThreadAssumption
   DEF Lock, Thread, ControlType, WakeType, WakeInv, ResumeWakes, RoundupWakes,
       IrqWakes, OnWakes, At, Goto, cpuVars, loopVars

(* VCPUs that start switched on have _off_sm set, and the others are paused. *)
LEMMA WakeInit ==
  ASSUME Init
  PROVE  WakeInv
BY DEF Init, WakeInv, ResumeWakes, RoundupWakes, IrqWakes, OnWakes, At, Thread

(* No signal is lost between a change of what a VCPU waits for and its test
   (wait_for_resume, wait_for_interrupt, wait_for_switch_on). *)
THEOREM WakeupsArrive == Spec => []NoLostWakeup
<1>1. Init => WakeInv
  BY WakeInit
<1>2. IInv /\ WakeInv /\ [Next]_vars => WakeInv'
  <2> SUFFICES ASSUME IInv, WakeInv, [Next]_vars PROVE WakeInv'
    OBVIOUS
  <2>1. WakeType
    <3>1. DataType
      BY TypeSplit DEF IInv
    <3>. QED BY <3>1, TypeFacts DEF WakeType, DataType
  <2>2. CASE UNCHANGED vars
    BY <2>2 DEF vars, cpuVars, countVars, loopVars, WakeInv, ResumeWakes,
                RoundupWakes, IrqWakes, OnWakes, At
  <2>3. CASE Next
    <3>1. PICK t \in Thread : OutsideStep(t) \/ Lock(t) \/ (owner = t /\ OwnerStep(t))
      BY <2>3, NextIsStep DEF IInv
    <3>. QED BY <2>1, <3>1, WakeOutside, WakeLock, WakeOwner
  <2>. QED BY <2>2, <2>3
<1>3. WakeInv => NoLostWakeup
  BY DEF WakeInv, ResumeWakes, RoundupWakes, IrqWakes, OnWakes, NoLostWakeup, At
<1>. QED BY <1>1, <1>2, <1>3, Invariance, PTL DEF Spec

-----------------------------------------------------------------------------
(* Two more steps.  The VCPUs that share a roundup (RoundupParallel) take
   steps of Roundup but for these: one that has queued leaves the queue while the
   roundup it waited for is held, as if it had been switched off, and the roundup
   puts it back into its emulation when it resumes it. *)

LeaveQueue(v) ==
  /\ v \in VCPU /\ At(v, "lock")
  /\ owner \in Thread \ {v} /\ At(owner, "held")
  /\ vcpu_waiters' = vcpu_waiters - 1
  /\ Goto(v, "off")
  /\ state' = [state EXCEPT ![v] = "OFF_ROUNDEDUP"]
  /\ UNCHANGED <<loopVars, vcpus_progressing, owner, sig_emulating, ret, target,
                 paused, off_sm, resume_sig, irq, irq_sig, recalled>>

ResumeInside(v) ==
  /\ v \in VCPU /\ At(v, "off") /\ state[v] = "OFF_ROUNDEDUP"
  /\ owner \in Thread \ {v} /\ At(owner, "rs_cas") /\ i[owner] = v
  /\ state' = [state EXCEPT ![v] = "EMULATE"]
  /\ pc' = [pc EXCEPT ![owner] = "rs_sig", ![v] = "emulate"]
  /\ UNCHANGED <<countVars, loopVars, ret, target,
                 paused, off_sm, resume_sig, irq, irq_sig, recalled>>

(* What either step leaves alone, said of the threads. *)
LEMMA LeaveQueueFrame ==
  ASSUME IInv, NEW v, LeaveQueue(v)
  PROVE  /\ v \in VCPU /\ v \in Thread /\ v # owner /\ owner \in Thread /\ owner' = owner
         /\ pc[v] = "lock" /\ pc'[v] = "off" /\ pc[owner] = "held"
         /\ \A t \in Thread : t # v => pc'[t] = pc[t]
         /\ ret' = ret /\ i' = i /\ emulating' = emulating /\ num_waiters' = num_waiters
         /\ state'[v] = "OFF_ROUNDEDUP" /\ \A u \in VCPU : u # v => state'[u] = state[u]
BY DEF LeaveQueue, IInv, TypeOK, Goto, At, Thread, loopVars

LEMMA LeaveQueueStep ==
  ASSUME IInv, NEW v, LeaveQueue(v)
  PROVE  IInv'
<1> USE LeaveQueueFrame
<1>1. OwnerSame
  BY DEF OwnerSame
<1>2. OwnerMarks(v) /\ Holding(owner) /\ Roundedup(state[v]) /\ Emulating(state[v])
  <2>1. OwnerMarks(v) /\ Holding(owner)
    BY DEF OwnerMarks, MarkedBy, Holding, At
  <2>2. VcpuLocal(v)
    BY DEF IInv, LocalInv, Local
  <2> QED
    BY <2>1, <2>2 DEF IInv, MarkInv, VcpuLocal, Roundedup, Emulating, OffLabel, OnLabel, ReturnsTo
<1>3. \A t \in Thread : /\ (Rounding(t))' <=> Rounding(t)
                        /\ (Gathering(t))' <=> Gathering(t)
                        /\ (Holding(t))' <=> Holding(t)
                        /\ (Resuming(t))' <=> Resuming(t)
                        /\ (Stopping(t))' <=> Stopping(t)
                        /\ (Critical(t))' <=> Critical(t)
  BY DEF Critical, Stopping, Rounding, Gathering, Holding, Resuming, ReturnsTo, At
<1>4. ~Critical(v)
  BY DEF Critical, Stopping, Rounding, Gathering, Holding, Resuming, ReturnsTo, At
<1>5. LocalInv'
  <2> SUFFICES ASSUME NEW t \in Thread PROVE (Local(t))'
    BY DEF LocalInv
  <2>1. CASE t = v
    BY <2>1, ThreadAssumption DEF Local, VcpuLocal, OffLabel
  <2>2. CASE t # v
    BY <1>3, <2>2 DEF IInv, LocalInv, Local, VcpuLocal, ReturnsTo
  <2> QED
    BY <2>1, <2>2
<1>6. LoopInv'
  <2> SUFFICES ASSUME NEW t \in Thread PROVE (Loop(t))'
    BY DEF LoopInv
  <2>1. ~At(t, "er_store")
    BY <1>3 DEF IInv, OneRoundup, Critical, Stopping, Holding, At
  <2> QED
    BY <1>3, <2>1 DEF IInv, LoopInv, Loop, ReturnsTo, At
<1>7. OneRoundup'
  BY <1>3 DEF IInv, OneRoundup
<1>8. MarkInv'
  BY <1>1, <1>2, OwnerFrame DEF IInv, MarkInv, Roundedup
<1>9. RecallInv'
  <2>1. ~At(v, "guest") /\ ~(OnItsWayToGuest(v))'
    BY DEF OnItsWayToGuest, EmulatingLabel, ReturnsTo, At
  <2>2. \A u \in VCPU : u # v => /\ (At(u, "guest"))' <=> At(u, "guest")
                                 /\ (OnItsWayToGuest(u))' <=> OnItsWayToGuest(u)
    BY DEF OnItsWayToGuest, ReturnsTo, At, Thread
  <2>3. (~At(v, "guest"))' /\ recalled' = recalled
    BY DEF At, LeaveQueue
  <2> QED
    BY <1>1, <2>1, <2>2, <2>3, OwnerFrame DEF IInv, RecallInv
<1>10. ~SelfReport(v) /\ ~(SelfReport(v))' /\ ~OwnerReports(v)
  BY DEF SelfReport, OwnerReports, At
<1>11. \A u \in VCPU : (SelfReport(u))' <=> SelfReport(u)
  BY <1>10 DEF SelfReport, At, Thread
<1>12. ReportInv'
  BY <1>1, <1>10, <1>11, OwnerFrame DEF IInv, ReportInv, Report
<1>13. QuietInv'
  <2>1. (Quiet(v))'
    BY DEF Quiet, Progressing, EmulatingLabel, At
  <2>2. \A u \in VCPU : u # v => ((Quiet(u))' <=> Quiet(u))
    BY DEF Quiet, Progressing, At, Thread
  <2> QED
    BY <1>1, <2>1, <2>2, OwnerFrame DEF IInv, QuietInv
<1>14. Counted
  BY CountedIff DEF IInv
<1>15. \A u \in VCPU : (Stops(u))' <=> Stops(u)
  <2>1. \A u \in VCPU : u # v => ((Queued(u))' <=> Queued(u))
    BY DEF Queued, At, Thread
  <2>2. \A u \in VCPU : u # v => ((OwnerStops(u))' <=> OwnerStops(u))
    BY <1>1, <1>11, OwnerFrame DEF OwnerStops, Thread
  <2>3. Stops(v)
    BY DEF Stops, Queued, At
  <2>4. (OwnerStops(v))'
    BY <1>1, <1>2, <1>10, OwnerFrame DEF OwnerStops, Emulating, Stopping
  <2> QED
    BY <1>3, <2>1, <2>2, <2>3, <2>4 DEF Stops, Thread
<1>16. \A u \in VCPU : (Waiter(u))' <=> (u # v /\ Waiter(u))
  <2>1. ~(Waiter(v))'
    BY <1>3, <1>4 DEF Waiter, ReturnsTo, At, Critical, Stopping
  <2>2. \A u \in VCPU : u # v => ((Waiter(u))' <=> Waiter(u))
    BY <1>3 DEF Waiter, ReturnsTo, At, Thread
  <2> QED
    BY <2>1, <2>2
<1>17. Counted'
  <2>1. Running' = Running
    BY <1>15 DEF Running
  <2>2. Waiting' = Waiting \ {v} /\ v \in Waiting
    BY <1>16 DEF Waiting, Waiter, At
  <2>3. Cardinality(Waiting') = Cardinality(Waiting) - 1
    BY <2>2, VcpuFinite, FS_RemoveElement DEF Waiting
  <2> QED
    BY <1>14, <2>1, <2>3 DEF Counted, LeaveQueue
<1>18. CountersExact'
  <2>1. (OneRoundup => (CountersExact <=> Counted))'
    BY CountedIff, PTL
  <2> QED
    BY <1>7, <1>17, <2>1
<1>19. TypeOK'
  <2>1. vcpus_progressing' \in 0 .. N /\ vcpu_waiters' \in 0 .. N
    BY <1>17, VcpuFinite DEF Counted, Running, Waiting
  <2>2. pc' \in [Thread -> Label] /\ state' \in [VCPU -> State]
    BY DEF LeaveQueue, IInv, TypeOK, Goto, Label, State
  <2> QED
    BY <2>1, <2>2 DEF IInv, TypeOK, LeaveQueue, loopVars
<1> QED
  BY <1>5, <1>6, <1>7, <1>8, <1>9, <1>12, <1>13, <1>18, <1>19 DEF IInv

LEMMA ResumeInsideFrame ==
  ASSUME IInv, NEW v, ResumeInside(v)
  PROVE  /\ v \in VCPU /\ v \in Thread /\ v # owner /\ owner \in Thread /\ owner' = owner
         /\ pc[v] = "off" /\ pc'[v] = "emulate"
         /\ pc[owner] = "rs_cas" /\ pc'[owner] = "rs_sig" /\ i[owner] = v
         /\ \A t \in Thread : t # v /\ t # owner => pc'[t] = pc[t]
         /\ ret' = ret /\ i' = i /\ emulating' = emulating /\ num_waiters' = num_waiters
         /\ state[v] = "OFF_ROUNDEDUP" /\ state'[v] = "EMULATE"
         /\ \A u \in VCPU : u # v => state'[u] = state[u]
BY DEF ResumeInside, IInv, TypeOK, At, Thread, loopVars, countVars

LEMMA ResumeInsideStep ==
  ASSUME IInv, NEW v, ResumeInside(v)
  PROVE  IInv'
<1> USE ResumeInsideFrame
<1>1. \A t \in Thread : /\ (Rounding(t))' <=> Rounding(t)
                        /\ (Gathering(t))' <=> Gathering(t)
                        /\ (Holding(t))' <=> Holding(t)
                        /\ (Resuming(t))' <=> Resuming(t)
                        /\ (Stopping(t))' <=> Stopping(t)
                        /\ (Critical(t))' <=> Critical(t)
  BY DEF Critical, Stopping, Rounding, Gathering, Holding, Resuming, ReturnsTo, At
<1>2. \A t \in Thread : Critical(t) => t = owner
  BY DEF IInv, OneRoundup
<1>3. Resuming(owner) /\ ~Stopping(owner) /\ ~Rounding(owner) /\ ~Holding(owner) /\ ~Gathering(owner)
  BY DEF Stopping, Rounding, Gathering, Holding, Resuming, ReturnsTo, At
<1>4. v \in Nat
  BY NAssumption DEF VCPU
<1>5. /\ \A u \in VCPU : OwnerMarks(u) <=> u >= v
      /\ \A u \in VCPU : (OwnerMarks(u))' <=> u > v
  BY <1>1, <1>3 DEF OwnerMarks, MarkedBy, Rounding, At
<1>6. LocalInv'
  <2> SUFFICES ASSUME NEW t \in Thread PROVE (Local(t))'
    BY DEF LocalInv
  <2>1. CASE t = v
    BY <2>1, ThreadAssumption DEF Local, VcpuLocal, EmulatingLabel
  <2>2. CASE t = owner
    <3>1. (Critical(t))' /\ Critical(t)
      BY <1>1, <1>3, <2>2 DEF Critical
    <3>2. t \notin Dev
      BY <2>2 DEF IInv, LocalInv, Local, DevLabel
    <3>3. t \in VCPU => state'[t] \in {"EMULATE", "EMULATE_ROUNDEDUP"}
      BY <2>2 DEF IInv, LocalInv, Local, VcpuLocal, OffLabel, OnLabel, ReturnsTo
    <3> QED
      BY <3>1, <3>2, <3>3 DEF Local, VcpuLocal
  <2>3. CASE t # v /\ t # owner
    BY <1>1, <2>3 DEF IInv, LocalInv, Local, VcpuLocal, ReturnsTo
  <2> QED
    BY <2>1, <2>2, <2>3
<1>7. LoopInv'
  <2> SUFFICES ASSUME NEW t \in Thread PROVE (Loop(t))'
    BY DEF LoopInv
  <2>1. CASE t = owner
    BY <1>1, <1>3, <1>4, <2>1, NAssumption DEF Loop, ReturnsTo, At, VCPU
  <2>2. CASE t # owner
    <3>1. ~At(t, "er_store") /\ pc'[t] # "er_store"
      BY <1>1, <1>2, <2>2 DEF Critical, Stopping, Holding, At
    <3> QED
      BY <1>1, <2>2, <3>1 DEF IInv, LoopInv, Loop, ReturnsTo, At
  <2> QED
    BY <2>1, <2>2
<1>8. OneRoundup'
  BY <1>1 DEF IInv, OneRoundup
<1>9. MarkInv'
  <2>1. \A u \in VCPU : u # v => (u > v <=> u >= v)
    BY NAssumption DEF VCPU
  <2>2. ~(v > v)
    BY <1>4
  <2> QED
    BY <1>5, <2>1, <2>2 DEF IInv, MarkInv, Roundedup
<1>10. RecallInv'
  <2>1. \A u \in VCPU : (RecallDone(u))' => RecallDone(u) /\ u # v
    BY <1>4, <1>5, NAssumption DEF RecallDone, At, VCPU
  <2>2. \A u \in VCPU : OwnerMarks(u) => u # owner \/ ~OnItsWayToGuest(u)
    BY DEF OnItsWayToGuest, EmulatingLabel, ReturnsTo
  <2>3. \A u \in VCPU : u # v => /\ (At(u, "guest"))' => At(u, "guest")
                                 /\ (OnItsWayToGuest(u))' => OnItsWayToGuest(u)
    BY DEF OnItsWayToGuest, EmulatingLabel, ReturnsTo, At, Thread
  <2>4. recalled' = recalled
    BY DEF ResumeInside
  <2> QED
    BY <2>1, <2>3, <2>4 DEF IInv, RecallInv
<1>11. \A u \in VCPU : ~OwnerReports(u) /\ ~(OwnerReports(u))'
  BY DEF OwnerReports, At
<1>12. \A u \in VCPU : ~SelfReport(u) /\ ~(SelfReport(u))'
  <2> SUFFICES ASSUME NEW u \in VCPU PROVE ~SelfReport(u) /\ ~(SelfReport(u))'
    OBVIOUS
  <2>1. ~SelfReport(u)
    BY <1>3 DEF IInv, ReportInv, Report
  <2> QED
    BY <2>1 DEF SelfReport, At, Thread
<1>13. ReportInv'
  BY <1>11, <1>12 DEF ReportInv, Report
<1>14. QuietInv'
  <2> SUFFICES ASSUME NEW u \in VCPU, (OwnerMarks(u))' PROVE (Quiet(u))'
    BY DEF QuietInv
  <2>1. u # v /\ Quiet(u)
    BY <1>3, <1>4, <1>5 DEF IInv, QuietInv, VCPU
  <2> QED
    BY <2>1 DEF Quiet, Progressing, EmulatingLabel, At, Thread
<1>15. Counted
  BY CountedIff DEF IInv
<1>16. \A u \in VCPU : /\ (Queued(u))' <=> Queued(u)
                       /\ (Waiter(u))' <=> Waiter(u)
  BY <1>1 DEF Queued, Waiter, ReturnsTo, At, Thread
<1>17. \A u \in VCPU : (Stops(u))' <=> Stops(u)
  BY <1>1, <1>3, <1>16 DEF Stops, OwnerStops, Thread
<1>18. Counted'
  <2>1. Running' = Running /\ Waiting' = Waiting
    BY <1>16, <1>17 DEF Running, Waiting
  <2>2. vcpus_progressing' = vcpus_progressing /\ vcpu_waiters' = vcpu_waiters
    BY DEF ResumeInside, countVars
  <2> QED
    BY <1>15, <2>1, <2>2 DEF Counted
<1>19. CountersExact'
  <2>1. (OneRoundup => (CountersExact <=> Counted))'
    BY CountedIff, PTL
  <2> QED
    BY <1>8, <1>18, <2>1
<1>20. TypeOK'
  <2>1. pc' \in [Thread -> Label] /\ state' \in [VCPU -> State]
    BY DEF ResumeInside, IInv, TypeOK, Label, State
  <2> QED
    BY <2>1 DEF IInv, TypeOK, ResumeInside, loopVars, countVars
<1> QED
  BY <1>6, <1>7, <1>8, <1>9, <1>10, <1>13, <1>14, <1>19, <1>20 DEF IInv
===============================================================================
