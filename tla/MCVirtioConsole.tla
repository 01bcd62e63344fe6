---------------------------- MODULE MCVirtioConsole ----------------------------
EXTENDS VirtioConsole, TLC

TxLenMC == [h \in TxHead |-> 2]

(* Nothing tells the VCPUs apart. *)
VcpuSymmetry == Permutations(Vcpu)

Busy == {v \in Vcpu : pc[v] # "idle" \/ guest[v] # "run"}

(* Two VCPUs have something to do with the device at a time only around an *)
(* acknowledgement, while a client waits and before the first fault; what  *)
(* follows an overtaken acknowledgement, where the system may stop, is not *)
(* explored.  A failed copy is followed until the driver has collected all *)
(* that was returned, a reset until the next chain is.                     *)
Explored ==
  /\ ~late
  /\ Cardinality(Busy) > 1 =>
       /\ resets + errors = 0 /\ "wait" \in {in.pc, out.pc}
       /\ \E v \in Vcpu : guest[v] = "scanRX" /\ pc[v] \in {"ack", "lower", "clear"}
  /\ resets > 0 => \A q \in Q : vq[q].used = <<>>
  /\ errors > 0 => \E q \in Q : vq[q].used # <<>>
===============================================================================
