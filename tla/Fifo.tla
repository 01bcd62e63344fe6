-------------------------------- MODULE Fifo --------------------------------
(***************************************************************************)
(* What the receive path of a UART promises: the guest takes characters    *)
(* out in the order in which they were put in, each of them once, and what *)
(* is lost is lost when the device is flushed.                             *)
(***************************************************************************)
EXTENDS Naturals, Sequences

CONSTANTS Char, Max

VARIABLE q  \* the characters the guest has still to read

Put(c) == /\ Len(q) < Max
          /\ q' = Append(q, c)

Get == /\ q # <<>>
       /\ q' = Tail(q)

Flush == q' = <<>>

Spec == q = <<>> /\ [][Get \/ Flush \/ \E c \in Char : Put(c)]_q
=============================================================================
