------------------------------- MODULE Roundup -------------------------------
(***************************************************************************)
(* The roundup protocol: how a thread of the VMM stops every virtual CPU   *)
(* and lets them run again (Vcpu::Roundup), together with the VCPU state   *)
(* machine it drives (Model::Cpu).                                         *)
(*                                                                         *)
(* One process per VCPU thread, per thread outside the VCPUs that calls    *)
(* roundup() / resume() (Ext), and per device or VMM thread that switches  *)
(* VCPUs on and off or raises interrupts (Dev).  pc[t] names the point a   *)
(* thread has reached; every access to a shared variable is a step.        *)
(* A failed ASSERT or ABORT_WITH ends the program: it is a guard of the    *)
(* action that runs it, and AssertsHold says that no guard of this kind    *)
(* ever blocks a thread.                                                   *)
(***************************************************************************)
EXTENDS Naturals, FiniteSets, CpuState

CONSTANTS
  N,          \* num_vcpus / configured_vcpus
  Ext,        \* threads that call roundup() and resume(), not VCPUs
  NoThread,   \* the owner of an unlocked mutex
  Dev,        \* threads that call ctrl_feature_off or notify_interrupt_pending
  Requestor,  \* who may ask for a VCPU to be paused (Request::Requestor)
  Started,    \* VCPUs that are not paused when their threads start
  VcpuOps,    \* what emulated code may do: "roundup", "wfi", "wfi_timeout"
  DevOps      \* what a Dev thread may do: "off", "on", "irq"

VCPU == 0 .. N - 1

ASSUME NAssumption == N \in Nat \ {0}
ASSUME ThreadAssumption ==
  /\ VCPU \cap Ext = {} /\ VCPU \cap Dev = {} /\ Ext \cap Dev = {}
  /\ NoThread \notin VCPU \cup Ext \cup Dev

Thread == VCPU \cup Ext \cup Dev

VARIABLES
  state,              \* Model::Cpu::_state of each VCPU
  paused,             \* requestors whose bit is set in _execution_paused
  off_sm,             \* signal: _off_sm
  resume_sig,         \* signal: _resume_sig
  irq,                \* int_pending or _dump_regs of the VCPU (Arm has no NMI)
  irq_sig,            \* signal: _irq_sig
  recalled,           \* external: a recall the hypervisor has still to deliver
  vcpus_progressing,  \* GlobalRoundupInfo::vcpus_progressing
  vcpu_waiters,       \* GlobalRoundupInfo::_vcpu_waiters
  owner,              \* _waiter_mutex: the thread that locked it
  sig_emulating,      \* signal: _sig_emulating
  pc,                 \* where each thread is
  ret,                \* where vcpu_notify_done_progressing returns to
  i,                  \* loop variable of roundup_all and resume_all
  emulating,          \* local of roundup_impl
  num_waiters,        \* local of end_roundup_core
  target              \* the VCPU a Dev thread acts on

cpuVars   == <<state, paused, off_sm, resume_sig, irq, irq_sig, recalled>>
countVars == <<vcpus_progressing, vcpu_waiters, owner, sig_emulating>>
loopVars  == <<i, emulating, num_waiters>>
vars == <<cpuVars, countVars, loopVars, pc, ret, target>>

Label ==
  {"idle", "off", "turn_on", "check_paused", "turn_off", "be_read", "be_cas",
   "wait_resume", "emulate", "emulate_end", "wfi", "wfi_block", "wfi_timed",
   "vmm", "guest", "yield", "notify_sub", "notify_sig", "lock", "ru_cas",
   "ru_recall", "ru_unblock", "ru_test", "ru_wait", "held", "er_read",
   "er_store", "rs_cas", "rs_sig", "unlock", "ctl_recall", "ctl_switch_on",
   "irq_notify", "irq_recall", "irq_unblock"}

Init ==
  /\ state = [v \in VCPU |-> "OFF"]
  /\ paused \in [VCPU -> SUBSET Requestor]
  /\ \A v \in VCPU : paused[v] = {} <=> v \in Started
  /\ off_sm = [v \in VCPU |-> v \in Started]
  /\ resume_sig = [v \in VCPU |-> FALSE]
  /\ irq = [v \in VCPU |-> FALSE]
  /\ irq_sig = [v \in VCPU |-> FALSE]
  /\ recalled = [v \in VCPU |-> FALSE]
  /\ vcpus_progressing = N
  /\ vcpu_waiters = 0
  /\ owner = NoThread
  /\ sig_emulating = FALSE
  /\ pc = [t \in Thread |-> IF t \in VCPU THEN "off" ELSE "idle"]
  /\ ret = [t \in Thread |-> "none"]
  /\ i = [t \in Thread |-> 0]
  /\ emulating = [t \in Thread |-> FALSE]
  /\ num_waiters = [t \in Thread |-> 0]
  /\ target = [d \in Dev |-> 0]

-----------------------------------------------------------------------------
(* Helpers *)

At(t, l) == pc[t] = l
Goto(t, l) == pc' = [pc EXCEPT ![t] = l]

(* Platform::Signal is binary: sig sets it, wait blocks until it is set and
   clears it. *)
Sig(s, v) == [s EXCEPT ![v] = TRUE]
Clear(s, v) == [s EXCEPT ![v] = FALSE]

(* Thread t calls vcpu_notify_done_progressing and continues at l. *)
CallNotify(t, l) == /\ Goto(t, "notify_sub")
                    /\ ret' = [ret EXCEPT ![t] = l]

(* recall(true, ...), external: a VCPU in the guest is brought out of it before
   the hypercall returns; for one that is not, the next entry exits at once. *)
RecallBy(t, v, l) ==
  /\ recalled' = [recalled EXCEPT ![v] = ~At(v, "guest")]
  /\ pc' = [u \in Thread |-> CASE u = t -> l
                               [] u = v /\ u # t /\ At(v, "guest") -> "check_paused"
                               [] OTHER -> pc[u]]

(* recall(false, ...), external: the call does not wait for a VCPU that is in
   the guest, which leaves it some time later. *)
WeakRecallBy(t, v, l) ==
  /\ recalled' = [recalled EXCEPT ![v] = TRUE]
  /\ Goto(t, l)

-----------------------------------------------------------------------------
(* vcpu_notify_done_progressing: the last VCPU to stop wakes the roundup. *)

NotifySub(t) ==
  /\ At(t, "notify_sub")
  /\ vcpus_progressing # 0
  /\ vcpus_progressing' = vcpus_progressing - 1
  /\ \/ vcpus_progressing = 1 /\ Goto(t, "notify_sig") /\ UNCHANGED ret
     \/ vcpus_progressing # 1 /\ Goto(t, ret[t]) /\ ret' = [ret EXCEPT ![t] = "none"]
  /\ UNCHANGED <<cpuVars, loopVars, vcpu_waiters, owner, sig_emulating, target>>

NotifySig(t) ==
  /\ At(t, "notify_sig")
  /\ sig_emulating' = TRUE
  /\ Goto(t, ret[t])
  /\ ret' = [ret EXCEPT ![t] = "none"]
  /\ UNCHANGED <<cpuVars, loopVars, vcpus_progressing, vcpu_waiters, owner, target>>

-----------------------------------------------------------------------------
(* The VCPU thread.  The loop guest -> exit -> begin_emulation -> emulation  *)
(* -> end_emulation -> guest belongs to the portals that use this code; the  *)
(* steps of each of those calls are this code's.                             *)

(* wait_for_switch_on *)
WaitForSwitchOn(v) ==
  /\ At(v, "off")
  /\ off_sm[v]
  /\ off_sm' = Clear(off_sm, v)
  /\ Goto(v, "turn_on")
  /\ UNCHANGED <<countVars, loopVars, ret, target,
                 state, paused, resume_sig, irq, irq_sig, recalled>>

(* switch_state_to_on by a VCPU that was off: it has nothing to notify. *)
TurnOn(v) ==
  /\ At(v, "turn_on")
  /\ CanSwitchOn(state[v])
  /\ state' = [state EXCEPT ![v] = switch_state_to_on(@)]
  /\ \/ state[v] = "EMULATE_ROUNDEDUP" /\ CallNotify(v, "check_paused")
     \/ state[v] # "EMULATE_ROUNDEDUP" /\ Goto(v, "check_paused") /\ UNCHANGED ret
  /\ UNCHANGED <<countVars, loopVars, target,
                 paused, off_sm, resume_sig, irq, irq_sig, recalled>>

(* wait_if_exec_paused: the test of its loop *)
CheckPaused(v) ==
  /\ At(v, "check_paused")
  /\ Goto(v, IF paused[v] # {} THEN "turn_off" ELSE "be_read")
  /\ UNCHANGED <<cpuVars, countVars, loopVars, ret, target>>

TurnOff(v) ==
  /\ At(v, "turn_off")
  /\ CanSwitchOff(state[v])
  /\ state' = [state EXCEPT ![v] = switch_state_to_off(@)]
  /\ Goto(v, "off")
  /\ UNCHANGED <<countVars, loopVars, ret, target,
                 paused, off_sm, resume_sig, irq, irq_sig, recalled>>

(* switch_state_to_emulating: the state is read, then a single CAS from ON. *)
BeginEmulationRead(v) ==
  /\ At(v, "be_read")
  /\ state[v] \in {"ON", "ON_ROUNDEDUP"}
  /\ Goto(v, IF state[v] = "ON" THEN "be_cas" ELSE "wait_resume")
  /\ UNCHANGED <<cpuVars, countVars, loopVars, ret, target>>

(* Mutant: a plain store in place of the CAS. *)
MutBeginEmulationStore(v) ==
  /\ At(v, "be_cas")
  /\ state' = [state EXCEPT ![v] = "EMULATE"]
  /\ Goto(v, "emulate")
  /\ UNCHANGED <<countVars, loopVars, ret, target,
                 paused, off_sm, resume_sig, irq, irq_sig, recalled>>


BeginEmulationCas(v) ==
  /\ At(v, "be_cas")
  /\ \/ /\ state[v] = "ON"
        /\ state' = [state EXCEPT ![v] = "EMULATE"]
        /\ Goto(v, "emulate")
     \/ /\ state[v] = "ON_ROUNDEDUP"
        /\ Goto(v, "wait_resume")
        /\ UNCHANGED state
  /\ UNCHANGED <<countVars, loopVars, ret, target,
                 paused, off_sm, resume_sig, irq, irq_sig, recalled>>

(* wait_for_resume, then begin_emulation tries again. *)
WaitForResume(v) ==
  /\ At(v, "wait_resume")
  /\ resume_sig[v]
  /\ resume_sig' = Clear(resume_sig, v)
  /\ Goto(v, "check_paused")
  /\ UNCHANGED <<countVars, loopVars, ret, target,
                 state, paused, off_sm, irq, irq_sig, recalled>>

(* Mutant: the roundup that waits for this VCPU is not told. *)
MutEndEmulationSilent(v) ==
  /\ pc[v] \in {"emulate", "emulate_end"}
  /\ CanSwitchOn(state[v])
  /\ state' = [state EXCEPT ![v] = switch_state_to_on(@)]
  /\ Goto(v, "vmm")
  /\ UNCHANGED <<countVars, loopVars, ret, target,
                 paused, off_sm, resume_sig, irq, irq_sig, recalled>>

(* end_emulation: a VCPU that was rounded up meanwhile reports it is done. *)
EndEmulation(v) ==
  /\ pc[v] \in {"emulate", "emulate_end"}
  /\ CanSwitchOn(state[v])
  /\ state' = [state EXCEPT ![v] = switch_state_to_on(@)]
  /\ \/ state[v] = "EMULATE_ROUNDEDUP" /\ CallNotify(v, "vmm")
     \/ state[v] # "EMULATE_ROUNDEDUP" /\ Goto(v, "vmm") /\ UNCHANGED ret
  /\ UNCHANGED <<countVars, loopVars, target,
                 paused, off_sm, resume_sig, irq, irq_sig, recalled>>

(* External: back to the guest, unless a recall is to be delivered first. *)
EnterGuest(v) ==
  /\ At(v, "vmm")
  /\ recalled' = Clear(recalled, v)
  /\ Goto(v, IF recalled[v] THEN "check_paused" ELSE "guest")
  /\ UNCHANGED <<countVars, loopVars, ret, target,
                 state, paused, off_sm, resume_sig, irq, irq_sig>>

(* External: the guest runs; it may take its interrupts or exit, by itself
   or for the recall that is pending. *)
GuestExit(v) ==
  /\ At(v, "guest")
  /\ recalled' \in {recalled, Clear(recalled, v)}
  /\ Goto(v, "check_paused")
  /\ UNCHANGED <<countVars, loopVars, ret, target,
                 state, paused, off_sm, resume_sig, irq, irq_sig>>

GuestAck(v) ==
  /\ At(v, "guest")
  /\ irq[v]
  /\ irq' = Clear(irq, v)
  /\ UNCHANGED <<countVars, loopVars, pc, ret, target,
                 state, paused, off_sm, resume_sig, irq_sig, recalled>>

-----------------------------------------------------------------------------
(* wait_for_interrupt, called while a WFI of the guest is emulated. *)

(* The condition that ends the wait; is_roundup_pending is the comparison of
   the state with EMULATE_ROUNDEDUP. *)
WfiDone(v) == irq[v] \/ state[v] = "EMULATE_ROUNDEDUP"

CallWaitForInterrupt(v) ==
  /\ At(v, "emulate")
  /\ \/ "wfi" \in VcpuOps /\ Goto(v, "wfi")
     \/ "wfi_timeout" \in VcpuOps /\ WfiDone(v) /\ Goto(v, "emulate_end")
     \/ "wfi_timeout" \in VcpuOps /\ ~WfiDone(v) /\ Goto(v, "wfi_timed")
  /\ UNCHANGED <<cpuVars, countVars, loopVars, ret, target>>

(* The loop test of the call without a timeout. *)
WfiTest(v) ==
  /\ At(v, "wfi")
  /\ Goto(v, IF WfiDone(v) THEN "emulate_end" ELSE "wfi_block")
  /\ UNCHANGED <<cpuVars, countVars, loopVars, ret, target>>

Block(v) ==
  /\ pc[v] \in {"wfi_block", "wfi_timed"}
  /\ irq_sig[v]
  /\ irq_sig' = Clear(irq_sig, v)
  /\ Goto(v, IF At(v, "wfi_block") THEN "wfi" ELSE "emulate_end")
  /\ UNCHANGED <<countVars, loopVars, ret, target,
                 state, paused, off_sm, resume_sig, irq, recalled>>

BlockTimeout(v) ==
  /\ At(v, "wfi_timed")
  /\ Goto(v, "emulate_end")
  /\ UNCHANGED <<cpuVars, countVars, loopVars, ret, target>>

-----------------------------------------------------------------------------
(* do_roundup *)

(* roundup(): begin_roundup(false) *)
CallRoundup(t) ==
  /\ t \in Ext
  /\ At(t, "idle")
  /\ Goto(t, "lock")
  /\ UNCHANGED <<cpuVars, countVars, loopVars, ret, target>>

(* roundup_from_vcpu(), called by a VCPU that is emulating. *)
CallRoundupFromVcpu(v) ==
  /\ "roundup" \in VcpuOps
  /\ At(v, "emulate")
  /\ Goto(v, "yield")
  /\ UNCHANGED <<cpuVars, countVars, loopVars, ret, target>>

(* yield: count this VCPU as a waiter, then as stopped. *)
Yield(v) ==
  /\ At(v, "yield")
  /\ vcpu_waiters' = vcpu_waiters + 1
  /\ CallNotify(v, "lock")
  /\ UNCHANGED <<cpuVars, loopVars, vcpus_progressing, owner, sig_emulating, target>>

Lock(t) ==
  /\ At(t, "lock")
  /\ owner = NoThread
  /\ owner' = t
  /\ Goto(t, "ru_cas")
  /\ UNCHANGED <<cpuVars, loopVars, vcpus_progressing, vcpu_waiters,
                 sig_emulating, ret, target>>

(* roundup_all: roundup_impl of VCPU i[t], in three shared steps and a call. *)
RoundupCas(t) ==
  /\ At(t, "ru_cas")
  /\ i[t] < N
  /\ CanRoundup(state[i[t]])
  /\ state' = [state EXCEPT ![i[t]] = switch_state_to_roundedup(@)]
  /\ emulating' = [emulating EXCEPT ![t] = (state[i[t]] = "EMULATE")]
  /\ Goto(t, "ru_recall")
  /\ UNCHANGED <<countVars, i, num_waiters, ret, target,
                 paused, off_sm, resume_sig, irq, irq_sig, recalled>>

(* Mutant: the state is changed but the VCPU is not recalled. *)
MutNoRecall(t) ==
  /\ At(t, "ru_recall")
  /\ Goto(t, "ru_unblock")
  /\ UNCHANGED <<cpuVars, countVars, loopVars, ret, target>>


RoundupRecall(t) ==
  /\ At(t, "ru_recall")
  /\ RecallBy(t, i[t], "ru_unblock")
  /\ UNCHANGED <<countVars, loopVars, ret, target,
                 state, paused, off_sm, resume_sig, irq, irq_sig>>

(* Mutant: a VCPU that is emulating is reported as stopped, too. *)
MutAlwaysNotify(t) ==
  /\ At(t, "ru_unblock")
  /\ irq_sig' = Sig(irq_sig, i[t])
  /\ i' = [i EXCEPT ![t] = @ + 1]
  /\ emulating' = [emulating EXCEPT ![t] = FALSE]
  /\ CallNotify(t, "ru_cas")
  /\ UNCHANGED <<countVars, num_waiters, target,
                 state, paused, off_sm, resume_sig, irq, recalled>>

(* Mutant: a VCPU in a WFI is not unblocked. *)
MutNoUnblock(t) ==
  /\ At(t, "ru_unblock")
  /\ i' = [i EXCEPT ![t] = @ + 1]
  /\ emulating' = [emulating EXCEPT ![t] = FALSE]
  /\ \/ emulating[t] /\ Goto(t, "ru_cas") /\ UNCHANGED ret
     \/ ~emulating[t] /\ CallNotify(t, "ru_cas")
  /\ UNCHANGED <<countVars, num_waiters, target,
                 state, paused, off_sm, resume_sig, irq, irq_sig, recalled>>


RoundupUnblock(t) ==
  /\ At(t, "ru_unblock")
  /\ irq_sig' = Sig(irq_sig, i[t])
  /\ i' = [i EXCEPT ![t] = @ + 1]
  /\ emulating' = [emulating EXCEPT ![t] = FALSE]  \* out of scope
  /\ \/ emulating[t] /\ Goto(t, "ru_cas") /\ UNCHANGED ret
     \/ ~emulating[t] /\ CallNotify(t, "ru_cas")
  /\ UNCHANGED <<countVars, num_waiters, target,
                 state, paused, off_sm, resume_sig, irq, recalled>>

RoundupAllDone(t) ==
  /\ At(t, "ru_cas")
  /\ i[t] = N
  /\ i' = [i EXCEPT ![t] = 0]
  /\ Goto(t, "ru_test")
  /\ UNCHANGED <<cpuVars, countVars, emulating, num_waiters, ret, target>>

(* while (vcpus_progressing != 0) wait_for_emulation_end(); *)
RoundupTest(t) ==
  /\ At(t, "ru_test")
  /\ Goto(t, IF vcpus_progressing # 0 THEN "ru_wait" ELSE "held")
  /\ UNCHANGED <<cpuVars, countVars, loopVars, ret, target>>

(* Mutant: an if in place of the while, so a stale signal ends the wait. *)
MutWaitOnce(t) ==
  /\ At(t, "ru_wait")
  /\ sig_emulating
  /\ sig_emulating' = FALSE
  /\ Goto(t, "held")
  /\ UNCHANGED <<cpuVars, loopVars, vcpus_progressing, vcpu_waiters, owner, ret, target>>


RoundupWait(t) ==
  /\ At(t, "ru_wait")
  /\ sig_emulating
  /\ sig_emulating' = FALSE
  /\ Goto(t, "ru_test")
  /\ UNCHANGED <<cpuVars, loopVars, vcpus_progressing, vcpu_waiters, owner, ret, target>>

-----------------------------------------------------------------------------
(* resume and resume_from_vcpu *)

(* unyield, the first step of end_roundup(true). *)
Unyield(t, l) ==
  /\ vcpu_waiters >= 1
  /\ vcpu_waiters' = vcpu_waiters - 1
  /\ Goto(t, l)
  /\ UNCHANGED <<cpuVars, loopVars, vcpus_progressing, owner, sig_emulating, ret, target>>

Resume(t) ==
  /\ At(t, "held")
  /\ \/ t \in VCPU /\ Unyield(t, "er_read")
     \/ /\ t \notin VCPU
        /\ Goto(t, "er_read")
        /\ UNCHANGED <<cpuVars, countVars, loopVars, ret, target>>

(* end_roundup_core: the waiters are read, then the counter is stored. *)
EndRoundupRead(t) ==
  /\ At(t, "er_read")
  /\ num_waiters' = [num_waiters EXCEPT ![t] = vcpu_waiters]
  /\ Goto(t, "er_store")
  /\ UNCHANGED <<cpuVars, countVars, i, emulating, ret, target>>

(* Mutant: the counter is reset to num_vcpus, whoever waits. *)
MutStoreAll(t) ==
  /\ At(t, "er_store")
  /\ vcpus_progressing' = N
  /\ num_waiters' = [num_waiters EXCEPT ![t] = 0]
  /\ Goto(t, "rs_cas")
  /\ UNCHANGED <<cpuVars, vcpu_waiters, owner, sig_emulating, i, emulating, ret, target>>


EndRoundupStore(t) ==
  /\ At(t, "er_store")
  /\ num_waiters[t] <= N
  /\ vcpus_progressing' = N - num_waiters[t]
  /\ num_waiters' = [num_waiters EXCEPT ![t] = 0]  \* out of scope
  /\ Goto(t, "rs_cas")
  /\ UNCHANGED <<cpuVars, vcpu_waiters, owner, sig_emulating, i, emulating, ret, target>>

(* resume_all: Model::Cpu::resume of VCPU i[t]. *)
ResumeCas(t) ==
  /\ At(t, "rs_cas")
  /\ i[t] < N
  /\ CanResume(state[i[t]])
  /\ state' = [state EXCEPT ![i[t]] = resume(@)]
  /\ Goto(t, "rs_sig")
  /\ UNCHANGED <<countVars, loopVars, ret, target,
                 paused, off_sm, resume_sig, irq, irq_sig, recalled>>

ResumeSig(t) ==
  /\ At(t, "rs_sig")
  /\ resume_sig' = Sig(resume_sig, i[t])
  /\ i' = [i EXCEPT ![t] = @ + 1]
  /\ Goto(t, "rs_cas")
  /\ UNCHANGED <<countVars, emulating, num_waiters, ret, target,
                 state, paused, off_sm, irq, irq_sig, recalled>>

ResumeAllDone(t) ==
  /\ At(t, "rs_cas")
  /\ i[t] = N
  /\ i' = [i EXCEPT ![t] = 0]
  /\ Goto(t, "unlock")
  /\ UNCHANGED <<cpuVars, countVars, emulating, num_waiters, ret, target>>

(* signal_next_waiter *)
Unlock(t, l) ==
  /\ At(t, "unlock")
  /\ owner' = NoThread
  /\ Goto(t, l)
  /\ UNCHANGED <<cpuVars, loopVars, vcpus_progressing, vcpu_waiters,
                 sig_emulating, ret, target>>

SignalNextWaiter(t) == Unlock(t, IF t \in VCPU THEN "emulate" ELSE "idle")

-----------------------------------------------------------------------------
(* Threads outside the roundup that act on a VCPU. *)

(* ctrl_feature_off(vcpu, true, r) *)
CtrlFeatureOff(d) ==
  /\ "off" \in DevOps
  /\ At(d, "idle")
  /\ \E v \in VCPU, r \in Requestor :
       /\ paused' = [paused EXCEPT ![v] = @ \cup {r}]
       /\ target' = [target EXCEPT ![d] = v]
  /\ Goto(d, "ctl_recall")
  /\ UNCHANGED <<countVars, loopVars, ret,
                 state, off_sm, resume_sig, irq, irq_sig, recalled>>

CtrlRecall(d) ==
  /\ At(d, "ctl_recall")
  /\ RecallBy(d, target[d], "idle")
  /\ UNCHANGED <<countVars, loopVars, ret, target,
                 state, paused, off_sm, resume_sig, irq, irq_sig>>

(* ctrl_feature_off(vcpu, false, r), which is also how a CPU is started. *)
CtrlFeatureOn(d) ==
  /\ "on" \in DevOps
  /\ At(d, "idle")
  /\ \E v \in VCPU, r \in Requestor :
       /\ paused' = [paused EXCEPT ![v] = @ \ {r}]
       /\ target' = [target EXCEPT ![d] = v]
  /\ Goto(d, "ctl_switch_on")
  /\ UNCHANGED <<countVars, loopVars, ret,
                 state, off_sm, resume_sig, irq, irq_sig, recalled>>

CtrlSwitchOn(d) ==
  /\ At(d, "ctl_switch_on")
  /\ off_sm' = Sig(off_sm, target[d])
  /\ Goto(d, "idle")
  /\ UNCHANGED <<countVars, loopVars, ret, target,
                 state, paused, resume_sig, irq, irq_sig, recalled>>

(* External: an interrupt becomes pending, then notify_interrupt_pending. *)
RaiseInterrupt(d) ==
  /\ "irq" \in DevOps
  /\ At(d, "idle")
  /\ \E v \in VCPU :
       /\ irq' = Sig(irq, v)
       /\ target' = [target EXCEPT ![d] = v]
  /\ Goto(d, "irq_notify")
  /\ UNCHANGED <<countVars, loopVars, ret,
                 state, paused, off_sm, resume_sig, irq_sig, recalled>>

IrqNotify(d) ==
  /\ At(d, "irq_notify")
  /\ Goto(d, IF HasOnBit(state[target[d]]) THEN "irq_recall" ELSE "irq_unblock")
  /\ UNCHANGED <<cpuVars, countVars, loopVars, ret, target>>

IrqRecall(d) ==
  /\ At(d, "irq_recall")
  /\ WeakRecallBy(d, target[d], "irq_unblock")
  /\ UNCHANGED <<countVars, loopVars, ret, target,
                 state, paused, off_sm, resume_sig, irq, irq_sig>>

IrqUnblock(d) ==
  /\ At(d, "irq_unblock")
  /\ irq_sig' = Sig(irq_sig, target[d])
  /\ Goto(d, "idle")
  /\ UNCHANGED <<countVars, loopVars, ret, target,
                 state, paused, off_sm, resume_sig, irq, recalled>>

-----------------------------------------------------------------------------
(* Specification *)

NotifyStep(t) == NotifySub(t) \/ NotifySig(t)

VcpuStep(v) ==
  \/ WaitForSwitchOn(v) \/ TurnOn(v) \/ CheckPaused(v) \/ TurnOff(v)
  \/ BeginEmulationRead(v) \/ BeginEmulationCas(v) \/ WaitForResume(v)
  \/ EndEmulation(v) \/ EnterGuest(v) \/ WfiTest(v) \/ Block(v)
  \/ BlockTimeout(v) \/ Yield(v)

(* What guest code does of its own accord: it may never do it. *)
VcpuChoice(v) ==
  GuestExit(v) \/ GuestAck(v) \/ CallWaitForInterrupt(v) \/ CallRoundupFromVcpu(v)

RoundupStep(t) ==
  \/ Lock(t) \/ RoundupCas(t) \/ RoundupRecall(t) \/ RoundupUnblock(t)
  \/ RoundupAllDone(t) \/ RoundupTest(t) \/ RoundupWait(t)

ResumeStep(t) ==
  \/ EndRoundupRead(t) \/ EndRoundupStore(t) \/ ResumeCas(t) \/ ResumeSig(t)
  \/ ResumeAllDone(t)

DevStep(d) == CtrlRecall(d) \/ CtrlSwitchOn(d) \/ IrqNotify(d) \/ IrqRecall(d) \/ IrqUnblock(d)

DevChoice(d) == CtrlFeatureOff(d) \/ CtrlFeatureOn(d) \/ RaiseInterrupt(d)

(* The steps a thread takes without being asked: a VCPU thread, a roundup
   and its caller, who resumes after a while, and a call of a Dev thread. *)
ThreadStep(t) ==
  \/ NotifyStep(t) \/ RoundupStep(t) \/ ResumeStep(t)
  \/ Resume(t) \/ SignalNextWaiter(t)
  \/ t \in VCPU /\ VcpuStep(t)
  \/ t \in Dev /\ DevStep(t)

Next ==
  \/ \E t \in Thread : ThreadStep(t) \/ CallRoundup(t)
  \/ \E v \in VCPU : VcpuChoice(v)
  \/ \E d \in Dev : DevChoice(d)

Spec == Init /\ [][Next]_vars

(* The scheduler runs every thread that can run. *)
FairSpec == Spec /\ \A t \in Thread : WF_vars(ThreadStep(t))

-----------------------------------------------------------------------------
(* Where the roundup is.  Marked(v): the roundup has moved v to a ROUNDEDUP
   state and not yet back.  RecalledBy(t, v): and t's recall of v returned. *)

ReturnsTo(t, l) == pc[t] \in {"notify_sub", "notify_sig"} /\ ret[t] = l

Rounding(t) == pc[t] \in {"ru_cas", "ru_recall", "ru_unblock"} \/ ReturnsTo(t, "ru_cas")
Gathering(t) == pc[t] \in {"ru_test", "ru_wait"}
Holding(t) == pc[t] \in {"held", "er_read", "er_store"}
Resuming(t) == pc[t] \in {"rs_cas", "rs_sig"}
Stopping(t) == Rounding(t) \/ Gathering(t) \/ Holding(t)
Critical(t) == Stopping(t) \/ Resuming(t) \/ At(t, "unlock")

MarkedBy(t, v) ==
  \/ Rounding(t) /\ (v < i[t] \/ (v = i[t] /\ pc[t] \in {"ru_recall", "ru_unblock"}))
  \/ Gathering(t) \/ Holding(t)
  \/ At(t, "rs_cas") /\ v >= i[t]
  \/ At(t, "rs_sig") /\ v > i[t]
Marked(v) == \E t \in Thread : MarkedBy(t, v)
RecalledBy(t, v) == MarkedBy(t, v) /\ ~(At(t, "ru_recall") /\ v = i[t])

(* External code and this code's emulation are where the guest advances. *)
EmulatingLabel == {"emulate", "emulate_end", "wfi", "wfi_block", "wfi_timed"}
Progressing(v) == pc[v] \in EmulatingLabel \cup {"guest"}

-----------------------------------------------------------------------------
(* Properties *)

(* Every variable has its type; the atomic<uint16> counters stay within the
   number of VCPUs, so they never wrap. *)
TypeOK ==
  /\ state \in [VCPU -> State]
  /\ paused \in [VCPU -> SUBSET Requestor]
  /\ off_sm \in [VCPU -> BOOLEAN]
  /\ resume_sig \in [VCPU -> BOOLEAN]
  /\ irq \in [VCPU -> BOOLEAN]
  /\ irq_sig \in [VCPU -> BOOLEAN]
  /\ recalled \in [VCPU -> BOOLEAN]
  /\ vcpus_progressing \in 0 .. N
  /\ vcpu_waiters \in 0 .. N
  /\ owner \in Thread \cup {NoThread}
  /\ sig_emulating \in BOOLEAN
  /\ pc \in [Thread -> Label]
  /\ ret \in [Thread -> {"none", "check_paused", "vmm", "lock", "ru_cas"}]
  /\ i \in [Thread -> 0 .. N]
  /\ emulating \in [Thread -> BOOLEAN]
  /\ num_waiters \in [Thread -> 0 .. N]
  /\ target \in [Dev -> VCPU]

(* No ASSERT or ABORT_WITH of the roundup code or of the state machine can
   fail: a VCPU is never rounded up twice, resumed when it is not rounded
   up, switched on when it is on or off when it is not, and the counters of
   progressing and waiting VCPUs are never decremented below zero. *)
AssertsHold ==
  \A t \in Thread :
    /\ At(t, "notify_sub") => vcpus_progressing # 0
    /\ At(t, "held") /\ t \in VCPU => vcpu_waiters >= 1
    /\ At(t, "er_store") => num_waiters[t] <= N
    /\ At(t, "ru_cas") /\ i[t] < N => CanRoundup(state[i[t]])
    /\ At(t, "rs_cas") /\ i[t] < N => CanResume(state[i[t]])
    /\ pc[t] \in {"turn_on", "emulate", "emulate_end"} => CanSwitchOn(state[t])
    /\ At(t, "turn_off") => CanSwitchOff(state[t])
    /\ pc[t] \in {"be_read", "be_cas"} => state[t] \in {"ON", "ON_ROUNDEDUP"}

(* The file comment of vcpu_roundup.cpp: "roundup ensures that no VCPU will
   make progress in the guest execution after the call returns", neither in
   the guest nor by emulation, until the caller resumes. *)
RoundupStopsGuest ==
  \A t \in Thread, v \in VCPU : Holding(t) => ~Progressing(v)

(* _waiter_mutex makes roundups exclusive from begin_roundup to the end of
   resume: one thread at a time is inside. *)
OneRoundup == \A t \in Thread : Critical(t) <=> owner = t

(* A VCPU that has yielded to another roundup and waits for its turn. *)
Queued(v) == At(v, "lock") \/ (At(v, "notify_sig") /\ ret[v] = "lock")

(* A VCPU whose count in _vcpu_waiters has not been taken back. *)
Waiter(v) ==
  \/ ReturnsTo(v, "lock") \/ At(v, "lock")
  \/ Rounding(v) \/ Gathering(v) \/ At(v, "held")

(* Some thread has still to report that v stopped: v itself, as it was
   emulating when it was rounded up, or the roundup as it was not. *)
ReportPending(v) ==
  \/ At(v, "notify_sub") /\ ret[v] = "vmm"
  \/ \E t \in Thread :
       \/ pc[t] \in {"ru_recall", "ru_unblock"} /\ v = i[t] /\ ~emulating[t]
       \/ At(t, "notify_sub") /\ ret[t] = "ru_cas" /\ v + 1 = i[t]

Stopped(v) ==
  \/ Queued(v)
  \/ Stopping(v)
  \/ /\ \E t \in Thread : Stopping(t)
     /\ Marked(v) /\ ~Emulating(state[v]) /\ ~ReportPending(v)

(* "vcpus_progressing: VCPU(s) currently making progress (emulation or
   not)" and _vcpu_waiters say exactly that at every instant, so a roundup
   neither returns while a VCPU runs nor waits for one that has stopped. *)
CountersExact ==
  /\ vcpus_progressing = Cardinality({v \in VCPU : ~Stopped(v)})
  /\ vcpu_waiters = Cardinality({v \in VCPU : Waiter(v)})

(* A VCPU is in a ROUNDEDUP state exactly while a roundup holds it there. *)
RoundedupIffMarked == \A v \in VCPU : Roundedup(state[v]) <=> Marked(v)

(* No wakeup is lost between the state and the signals.  A VCPU that sleeps
   in wait_for_resume is still rounded up, or _resume_sig is set or about to
   be; one that sleeps in wait_for_interrupt with an interrupt pending or a
   roundup asking for it has _irq_sig set or about to be; and a paused VCPU
   that everybody released has _off_sm set or about to be. *)
NoLostWakeup ==
  \A v \in VCPU :
    /\ At(v, "wait_resume") =>
         \/ Roundedup(state[v])
         \/ resume_sig[v]
         \/ \E t \in Thread : At(t, "rs_sig") /\ i[t] = v
    /\ At(v, "wfi_block") /\ state[v] = "EMULATE_ROUNDEDUP" =>
         \/ irq_sig[v]
         \/ \E t \in Thread : pc[t] \in {"ru_recall", "ru_unblock"} /\ i[t] = v
    /\ At(v, "wfi_block") /\ irq[v] =>
         \/ irq_sig[v]
         \/ \E d \in Dev : /\ pc[d] \in {"irq_notify", "irq_recall", "irq_unblock"}
                           /\ target[d] = v
    /\ At(v, "off") /\ paused[v] = {} =>
         \/ off_sm[v]
         \/ \E d \in Dev : At(d, "ctl_switch_on") /\ target[d] = v

(* The comment of enum State: a VCPU cannot start emulating, nor can it
   reach the guest, from the return of the roundup's recall of it until its
   resume: while the others are rounded up, while the roundup waits for its
   counter, while it is held, and while the VCPUs before it are resumed. *)
NoStartOnceRecalled ==
  [][\A v \in VCPU, t \in Thread :
       RecalledBy(t, v) /\ ~Progressing(v) => ~Progressing(v)']_vars

(* The protocol implements the promise of roundup(). *)
Promise == INSTANCE StopTheWorld
             WITH running <- {v \in VCPU : Progressing(v)},
                  stopped <- \E t \in Thread : Holding(t)

ImplementsStopTheWorld == Promise!Spec

(* Every roundup that has begun returns to its caller: the VCPUs it waits
   for all stop, even one that sleeps in a WFI, and its signal arrives. *)
RoundupReturns == \A t \in Ext \cup VCPU : Rounding(t) ~> At(t, "held")

=============================================================================
