----------------------------- MODULE MCVirtioSg -----------------------------
(* Instances of VirtioSg: the buffers are interchangeable. *)
EXTENDS VirtioSg, TLC

Symmetry == Permutations(Buf)
=============================================================================
