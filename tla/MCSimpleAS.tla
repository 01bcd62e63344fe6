----------------------------- MODULE MCSimpleAS -----------------------------
(* A UART and an interrupt controller come and go below guest memory, and    *)
(* a second guest memory, with a view of its own, in the place of the first. *)
EXTENDS SimpleAS, TLC

CONSTANTS uart, gic, ram, view, vcpu1, vcpu2, client

R(b, n) == [begin |-> b, size |-> n]
At(d, b, n) == [dev |-> d, begin |-> b, size |-> n]

MCRegion == ram :> R(2, 2) @@ view :> R(2, 2)
MCPlace == {At(uart, 0, 2), At(gic, 1, 1), At(ram, 2, 2), At(view, 2, 2)}
MCTarget == {R(0, 1), R(1, 2), R(3, 1)}
MCRemoval == {R(0, 1), R(1, 2)}
Addresses == Permutations(EntryId)
=============================================================================
