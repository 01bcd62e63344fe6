------------------------------ MODULE MCVirtqueue ------------------------------
(* Instances of Virtqueue.  After the recv of a stale entry, which ends what *)
(* the rings promise, nothing is explored.                                   *)
EXTENDS Virtqueue

Explored == ~stale
================================================================================
