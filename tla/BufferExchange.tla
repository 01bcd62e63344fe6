---------------------------- MODULE BufferExchange ----------------------------
(***************************************************************************)
(* What a virtqueue promises: the driver offers the heads of buffers, the  *)
(* device takes them in that order, returns each of them once, in any      *)
(* order, and the driver collects them in the order of their return.       *)
(***************************************************************************)
EXTENDS Sequences

CONSTANT Head0  \* the heads that the driver starts with

VARIABLES
  offered,   \* made available, and not taken yet
  held,      \* taken by the device
  returned   \* used, and not collected yet

exchange == <<offered, held, returned>>

Elements(s) == {s[i] : i \in DOMAIN s}
Busy == Elements(offered) \cup held \cup Elements(returned)

XInit == offered = <<>> /\ held = {} /\ returned = <<>>

Offer ==
  /\ \E h \in Head0 \ Busy : offered' = Append(offered, h)
  /\ UNCHANGED <<held, returned>>

Take ==
  /\ offered # <<>>
  /\ held' = held \cup {Head(offered)} /\ offered' = Tail(offered)
  /\ UNCHANGED returned

Return ==
  /\ \E h \in held : held' = held \ {h} /\ returned' = Append(returned, h)
  /\ UNCHANGED offered

Collect ==
  /\ returned # <<>> /\ returned' = Tail(returned)
  /\ UNCHANGED <<offered, held>>

XNext == Offer \/ Take \/ Return \/ Collect

(* A reset of the device takes every buffer out of the queue. *)
Forget == offered' = <<>> /\ held' = {} /\ returned' = <<>>
===============================================================================
