------------------------------ MODULE CpuState ------------------------------
(***************************************************************************)
(* The state word of a virtual CPU (Model::Cpu::State) and the transition  *)
(* tables of the switch_state_* functions.  Each function is a CAS loop:   *)
(*     do { switch (cur_state) ... } while (!_state.cas(cur_state, new))   *)
(* so its effect is one atomic step, the CAS that succeeds.  The default   *)
(* branch of each switch is ABORT_WITH: the Can* operators are the states  *)
(* the switch accepts, and a thread about to run the loop in any other     *)
(* state aborts the VMM.                                                   *)
(***************************************************************************)

State == {"OFF", "OFF_ROUNDEDUP", "ON", "ON_ROUNDEDUP",
          "EMULATE", "EMULATE_ROUNDEDUP"}

(* A roundup asked this VCPU to stop making progress. *)
Roundedup(s) == s \in {"OFF_ROUNDEDUP", "ON_ROUNDEDUP", "EMULATE_ROUNDEDUP"}

(* The test (_state & ON) != 0 of notify_interrupt_pending: ON is 2 and
   ON_ROUNDEDUP is 3; no other encoding has that bit. *)
HasOnBit(s) == s \in {"ON", "ON_ROUNDEDUP"}

Emulating(s) == s \in {"EMULATE", "EMULATE_ROUNDEDUP"}

CanRoundup(s) == s \in {"ON", "OFF", "EMULATE"}

switch_state_to_roundedup(s) ==
  CASE s = "ON"      -> "ON_ROUNDEDUP"
    [] s = "OFF"     -> "OFF_ROUNDEDUP"
    [] s = "EMULATE" -> "EMULATE_ROUNDEDUP"

CanResume(s) == Roundedup(s)

resume(s) ==
  CASE s = "ON_ROUNDEDUP"      -> "ON"
    [] s = "OFF_ROUNDEDUP"     -> "OFF"
    [] s = "EMULATE_ROUNDEDUP" -> "EMULATE"

CanSwitchOn(s) == s \in {"OFF", "OFF_ROUNDEDUP", "EMULATE", "EMULATE_ROUNDEDUP"}

switch_state_to_on(s) ==
  CASE s \in {"OFF_ROUNDEDUP", "EMULATE_ROUNDEDUP"} -> "ON_ROUNDEDUP"
    [] s \in {"OFF", "EMULATE"}                     -> "ON"

CanSwitchOff(s) == s \in {"ON", "ON_ROUNDEDUP"}

switch_state_to_off(s) ==
  CASE s = "ON_ROUNDEDUP" -> "OFF_ROUNDEDUP"
    [] s = "ON"           -> "OFF"
=============================================================================
