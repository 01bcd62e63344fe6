---------------------------- MODULE StopTheWorld ----------------------------
(***************************************************************************)
(* What Vcpu::Roundup promises: VCPUs start and stop making progress as    *)
(* they like, a roundup returns at an instant when none does, and none     *)
(* starts again before the roundup is resumed.                             *)
(***************************************************************************)
CONSTANT VCPU

VARIABLES running,  \* the VCPUs that make progress in the guest execution
          stopped   \* some roundup has returned and is not being resumed

vars == <<running, stopped>>

Init == running = {} /\ stopped = FALSE

Start(v) == /\ ~stopped
            /\ running' = running \cup {v}
            /\ UNCHANGED stopped

Stop(v) == /\ v \in running
           /\ running' = running \ {v}
           /\ UNCHANGED stopped

RoundupReturn == /\ running = {}
                 /\ ~stopped
                 /\ stopped' = TRUE
                 /\ UNCHANGED running

Resume == /\ stopped
          /\ stopped' = FALSE
          /\ UNCHANGED running

Next == RoundupReturn \/ Resume \/ \E v \in VCPU : Start(v) \/ Stop(v)

Spec == Init /\ [][Next]_vars
=============================================================================
