------------------------------- MODULE Timer -------------------------------
(***************************************************************************)
(* The timer of a VCPU (AA64Timer on PerCpuTimer) between three parties:   *)
(* the VCPU, which traps on its registers CNTP_CVAL / CNTP_TVAL and        *)
(* CNTP_CTL; the timer's own thread (timer_loop), which sleeps on a signal *)
(* until the deadline and drives the interrupt line; and the VMM, which    *)
(* terminates the thread.                                                  *)
(*                                                                         *)
(* The control register is one byte that two threads write without a lock: *)
(* the VCPU stores the whole byte, the loop reads it, changes STATUS and   *)
(* writes it back.  Each of these accesses is a step here.                 *)
(***************************************************************************)
EXTENDS Naturals

CONSTANTS
  MaxTime     \* bound on the clock and on the deadlines the guest programs

ASSUME MaxTimeAssumption == MaxTime \in Nat

VARIABLES
  now,        \* the system counter
  ctl,        \* _cntv_ctl
  cval,       \* _cval
  signaled,   \* _wait_timer._signaled
  line,       \* the PPI, as assert_ppi and deassert_line_ppi leave it
  terminate,  \* _terminate
  pc,         \* where timer_loop is
  timeout,    \* its local variable timeout, the deadline it sleeps until
  byte,       \* the byte it is about to write back
  vpc,        \* where the VCPU is in the handler of a register
  value,      \* Msr::Register::_value of CNTP_CTL during a write
  torn        \* ghost: a store of the VCPU and one of the loop overlapped

loopVars == <<pc, timeout, byte>>
vcpuVars == <<vpc, value>>
vars == <<now, ctl, cval, signaled, line, terminate, loopVars, vcpuVars, torn>>

Ctl == [enabled : BOOLEAN, masked : BOOLEAN, status : BOOLEAN]
Time == 0 .. MaxTime

CanFire(c) == c.enabled /\ ~c.masked

Init ==
  /\ now = 0
  /\ ctl = [enabled |-> FALSE, masked |-> FALSE, status |-> FALSE]
  /\ cval = 0
  /\ signaled = FALSE /\ line = FALSE /\ terminate = FALSE
  /\ pc = "top" /\ timeout = 0 /\ byte = ctl
  /\ vpc = "idle" /\ value = ctl
  /\ torn = FALSE

-----------------------------------------------------------------------------
(* The VCPU *)

(* A write of CNTP_CVAL, or of CNTP_TVAL, which adds the clock. *)
SetCval(c) ==
  /\ vpc = "idle"
  /\ cval' = c
  /\ vpc' = "signal"
  /\ UNCHANGED <<now, ctl, signaled, line, terminate, loopVars, value, torn>>

TimerWakeup ==
  /\ vpc = "signal"
  /\ signaled' = TRUE
  /\ vpc' = "idle"
  /\ UNCHANGED <<now, ctl, cval, line, terminate, loopVars, value, torn>>

(* A write of CNTP_CTL merges the two bits the guest may write into the    *)
(* byte it read from the timer, STATUS included...                         *)
ReadCtl(enabled, masked) ==
  /\ vpc = "idle"
  /\ value' = [enabled |-> enabled, masked |-> masked, status |-> ctl.status]
  /\ vpc' = "store"
  /\ UNCHANGED <<now, ctl, cval, signaled, line, terminate, loopVars, torn>>

(* ...and stores that. *)
SetCtl ==
  /\ vpc = "store"
  /\ ctl' = value
  /\ torn' = (torn \/ pc \in {"write_clear", "write_set"} \/ value.status # ctl.status)
  /\ vpc' = "wakeup"
  /\ UNCHANGED <<now, cval, signaled, line, terminate, loopVars, value>>

MutWakeupIfArmed ==
  /\ vpc = "wakeup"
  /\ signaled' = (signaled \/ (ctl.enabled /\ ctl.status))
  /\ vpc' = "idle"
  /\ UNCHANGED <<now, ctl, cval, line, terminate, loopVars, value, torn>>

WakeupIfArmed ==
  /\ vpc = "wakeup"
  /\ signaled' = (signaled \/ CanFire(ctl))
  /\ vpc' = "idle"
  /\ UNCHANGED <<now, ctl, cval, line, terminate, loopVars, value, torn>>

VcpuStep == TimerWakeup \/ SetCtl \/ WakeupIfArmed

Terminate ==
  /\ ~terminate
  /\ terminate' = TRUE
  /\ signaled' = TRUE
  /\ UNCHANGED <<now, ctl, cval, line, loopVars, vcpuVars, torn>>

Tick ==
  /\ now < MaxTime
  /\ now' = now + 1
  /\ UNCHANGED <<ctl, cval, signaled, line, terminate, loopVars, vcpuVars, torn>>

-----------------------------------------------------------------------------
(* timer_loop *)

(* What a step of the loop leaves to the VCPU, the VMM and the clock. *)
Untouched == UNCHANGED <<now, cval, terminate, vcpuVars, torn>>

At(label) == pc = label /\ Untouched

CheckTerminate ==
  /\ At("top")
  /\ pc' = IF terminate THEN "done" ELSE "can_fire"
  /\ UNCHANGED <<ctl, signaled, line, timeout, byte>>

CheckCanFire ==
  /\ At("can_fire")
  /\ pc' = IF CanFire(ctl) THEN "status" ELSE "wait"
  /\ UNCHANGED <<ctl, signaled, line, timeout, byte>>

CheckStatus ==
  /\ At("status")
  /\ pc' = IF ctl.status THEN "wait" ELSE "deadline"
  /\ UNCHANGED <<ctl, signaled, line, timeout, byte>>

(* Nothing to wait for but a register. *)
TimerWait ==
  /\ At("wait") /\ signaled
  /\ signaled' = FALSE
  /\ pc' = "clear"
  /\ UNCHANGED <<ctl, line, timeout, byte>>

(* clear_irq_status: read the byte, write it back without STATUS, lower the
   line. *)
ClearIrqStatus ==
  /\ At("clear")
  /\ byte' = [ctl EXCEPT !.status = FALSE]
  /\ pc' = "write_clear"
  /\ UNCHANGED <<ctl, signaled, line, timeout>>

SetIrqStatus ==
  /\ At("set_status")
  /\ byte' = [ctl EXCEPT !.status = TRUE]
  /\ pc' = "write_set"
  /\ UNCHANGED <<ctl, signaled, line, timeout>>

WriteBack ==
  /\ \/ At("write_clear") /\ pc' = "deassert"
     \/ At("write_set") /\ pc' = "top"
  /\ ctl' = byte
  /\ UNCHANGED <<signaled, line, timeout, byte>>

MutDeassertIrq ==
  /\ At("deassert")
  /\ pc' = "top"
  /\ UNCHANGED <<ctl, signaled, line, timeout, byte>>

DeassertIrq ==
  /\ At("deassert")
  /\ line' = FALSE
  /\ pc' = "top"
  /\ UNCHANGED <<ctl, signaled, timeout, byte>>

GetTimeout ==
  /\ At("deadline")
  /\ timeout' = cval
  /\ pc' = "timed_wait"
  /\ UNCHANGED <<ctl, signaled, line, byte>>

(* Signal::wait(abs_ticks): a signal that is already there, or one that wakes
   it, is consumed; at the deadline a sleeper reports the timeout, whatever
   else has happened. *)
Released ==
  /\ At("timed_wait") \/ At("sleep")
  /\ signaled
  /\ signaled' = FALSE
  /\ pc' = "top"
  /\ UNCHANGED <<ctl, line, timeout, byte>>

FallAsleep ==
  /\ At("timed_wait") /\ ~signaled
  /\ pc' = "sleep"
  /\ UNCHANGED <<ctl, signaled, line, timeout, byte>>

TimedOut ==
  /\ At("sleep") /\ now >= timeout
  /\ pc' = "fire"
  /\ UNCHANGED <<ctl, signaled, line, timeout, byte>>

CheckFire ==
  /\ At("fire")
  /\ pc' = IF CanFire(ctl) THEN "assert" ELSE "top"
  /\ UNCHANGED <<ctl, signaled, line, timeout, byte>>

(* assert_ppi, which succeeds for a PPI of an existing VCPU. *)
AssertIrq ==
  /\ At("assert")
  /\ line' = TRUE
  /\ pc' = "set_status"
  /\ UNCHANGED <<ctl, signaled, timeout, byte>>

LoopStep ==
  \/ CheckTerminate \/ CheckCanFire \/ CheckStatus \/ TimerWait
  \/ ClearIrqStatus \/ SetIrqStatus \/ WriteBack \/ DeassertIrq
  \/ GetTimeout \/ Released \/ FallAsleep \/ TimedOut
  \/ CheckFire \/ AssertIrq

-----------------------------------------------------------------------------
(* Specification *)

Next ==
  \/ \E c \in Time : SetCval(c)
  \/ \E enabled, masked \in BOOLEAN : ReadCtl(enabled, masked)
  \/ VcpuStep
  \/ Terminate
  \/ Tick
  \/ LoopStep

Spec == Init /\ [][Next]_vars

(* The thread is scheduled, a handler of the VCPU that has begun ends, and
   time passes. *)
FairSpec == Spec /\ WF_vars(LoopStep) /\ WF_vars(VcpuStep) /\ WF_vars(Tick)

-----------------------------------------------------------------------------
(* Properties *)

(* When the VCPU is not in a handler and no signal is under way, the loop
   sleeps on the registers as they are: until the deadline of cval, with the
   line down, if the timer has yet to fire; without a deadline, with the line
   up, once it has fired, which it does not do before cval.  (As long as no
   store of the VCPU has overlapped one of the loop.) *)
Settled == vpc = "idle" /\ ~signaled /\ ~torn /\ CanFire(ctl)

SleepsOnDeadline ==
  Settled =>
    /\ pc \in {"timed_wait", "sleep"} => timeout = cval /\ ~line
    /\ pc = "wait" => ctl.status /\ line /\ now >= cval

(* A timer that is armed when its deadline has passed, and is left alone,
   raises its interrupt: neither the signal of set_cval nor that of set_ctl
   is lost to a loop that is just going to sleep.  (Again, as long as no
   store of the VCPU has overlapped one of the loop.) *)
ExpiredTimerFires ==
  (vpc = "idle" /\ CanFire(ctl) /\ now >= cval /\ ~torn)
    ~> (line \/ vpc # "idle" \/ terminate)

=============================================================================
