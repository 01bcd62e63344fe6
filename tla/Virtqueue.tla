------------------------------- MODULE Virtqueue -------------------------------
(***************************************************************************)
(* A split virtqueue: Virtio::DriverQueue and Virtio::DeviceQueue, the two *)
(* ends of a pair of rings in shared memory, run by one thread each and    *)
(* without a lock.  An action is one access to the shared memory, with the *)
(* private computation before it.                                          *)
(*                                                                         *)
(* Around the queues, two clients that use all of their interface: each    *)
(* suppresses notifications while it runs, and before it sleeps enables    *)
(* them again and looks once more.                                         *)
(***************************************************************************)
EXTENDS Integers, Sequences

CONSTANTS
  Size,  \* _size
  W,     \* the counters are uint16: they wrap at W
  Arch   \* the builds: subset of {"x86", "aarch64"}

ASSUME VirtqueueAssumption ==
  /\ Size \in Nat \ {0} /\ W \in Nat
  /\ W % Size = 0 /\ W > Size  \* is_size_valid: a power of two, at most 32768
  /\ Arch # {} /\ Arch \subseteq {"x86", "aarch64"}

Desc == 0 .. Size - 1
Index == 0 .. W - 1

VARIABLES
  arch,              \* the build
  avail, used,       \* the shared regions: flags, index, ring and event
  drv, dev,          \* _idx, _prev and _driven_idx of either queue
  drvOwns, devOwns,  \* the Descriptor objects that either client holds
  drvPc, devPc,      \* where either thread is
  drvSaw,    \* the index that recv has read, else 0
  drvStore, devStore,\* a store that the other processor does not see yet
  drvAhead, devAhead,\* the entry that recv has loaded ahead of the index, if any
  stale,             \* ghost: recv has used an entry from before the index
  kick, irq          \* external: a latched notification, a latched interrupt

ring == <<avail, used>>
drvVars == <<drv, drvOwns, drvPc, drvSaw, drvStore>>
devVars == <<dev, devOwns, devPc, devStore>>
loads == <<drvAhead, devAhead, stale>>
vars == <<arch, ring, drvVars, devVars, loads, kick, irq>>

(* The regions are zeroed when the queue is made (allocz). *)
Zero == [suppress |-> FALSE, idx |-> 0, ring |-> [i \in Desc |-> 0], event |-> 0]
NewQueue == [idx |-> 0, prev |-> 0, driven |-> 0]

Init ==
  /\ arch \in Arch
  /\ avail = Zero /\ used = Zero
  /\ drv = NewQueue /\ dev = NewQueue
  /\ drvOwns = Desc /\ devOwns = {}
  /\ drvPc = "run" /\ devPc = "run"
  /\ drvSaw = 0
  /\ drvStore = <<>> /\ devStore = <<>>
  /\ drvAhead = <<>> /\ devAhead = <<>> /\ stale = FALSE
  /\ kick = FALSE /\ irq = FALSE

-----------------------------------------------------------------------------
Inc(i) == (i + 1) % W

(* Mutant: the difference without the wrap of the counter. *)
MutCount(q, idx) == IF idx >= q.idx THEN idx - q.idx ELSE 0

(* Queue::count_available: how far the other end is ahead of _idx. *)
count_available(q, idx) == IF idx >= q.idx THEN idx - q.idx ELSE (W - 1 - q.idx) + 1 + idx

(* _prev = _driven_idx++ *)
BumpDriven(q) == [q EXCEPT !.prev = q.driven, !.driven = Inc(q.driven)]

(* Mutant: the entry itself is not counted. *)
MutUsedEventNotify ==
  (dev.driven - avail.event) % W < (dev.driven - dev.prev) % W

(* DeviceQueue::used_event_notify *)
used_event_notify ==
  (dev.driven - avail.event - 1) % W < (dev.driven - dev.prev) % W

(* The end of a store: w_before_w.  On aarch64 it is a DSB, behind which   *)
(* nothing starts before the store is complete.  On x86 it is an SFENCE,   *)
(* which orders stores and lets a later load pass the store.               *)
Delayed == arch = "x86"

SetAvail(field, v) ==
  /\ drvStore = <<>>
  /\ IF Delayed THEN drvStore' = <<field, v>> /\ UNCHANGED avail
                ELSE avail' = [avail EXCEPT ![field] = v] /\ UNCHANGED drvStore

SetUsed(field, v) ==
  /\ devStore = <<>>
  /\ IF Delayed THEN devStore' = <<field, v>> /\ UNCHANGED used
                ELSE used' = [used EXCEPT ![field] = v] /\ UNCHANGED devStore

(* A recv loads the index of a ring, behind a w_before_w, and then the     *)
(* entry.  No barrier keeps the two loads in order: on aarch64 the entry   *)
(* may be the older one.                                                   *)
LoadsAhead(pc, ahead) == arch = "aarch64" /\ pc = "run" /\ ahead = <<>>

(* What recv takes for the entry that it finds at this place now. *)
Loaded(ahead, now) == IF ahead = <<>> THEN now ELSE ahead[1]

(* The store buffer of a processor is drained. *)
DriverDrains ==
  /\ drvStore # <<>> /\ drvStore' = <<>>
  /\ avail' = [avail EXCEPT ![drvStore[1]] = drvStore[2]]
  /\ UNCHANGED <<arch, used, drv, drvOwns, drvPc, drvSaw, devVars, loads, kick, irq>>

DeviceDrains ==
  /\ devStore # <<>> /\ devStore' = <<>>
  /\ used' = [used EXCEPT ![devStore[1]] = devStore[2]]
  /\ UNCHANGED <<arch, avail, dev, devOwns, devPc, drvVars, loads, kick, irq>>

-----------------------------------------------------------------------------
(* The driver. *)

(* Mutant: the index is stored before the entry. *)
MutDriverSend(h) ==
  /\ drvPc = "run" /\ drvAhead = <<>> /\ drvStore = <<>> /\ h \in drvOwns
  /\ drv' = BumpDriven(drv)
  /\ avail' = [avail EXCEPT !.idx = drv'.driven]
  /\ drvOwns' = drvOwns \ {h}
  /\ drvPc' = "index"
  /\ UNCHANGED <<arch, used, drvSaw, drvStore, devVars, loads, kick, irq>>

(* DriverQueue::send: the entry of the ring, *)
DriverSend(h) ==
  /\ drvPc = "run" /\ drvAhead = <<>> /\ drvStore = <<>> /\ h \in drvOwns
  /\ drv' = BumpDriven(drv)
  /\ avail' = [avail EXCEPT !.ring[drv.driven % Size] = h]
  /\ drvOwns' = drvOwns \ {h}
  /\ drvPc' = "index"
  /\ UNCHANGED <<arch, used, drvSaw, drvStore, devVars, loads, kick, irq>>

(* and its index. *)
DriverIndex ==
  /\ drvPc = "index" /\ SetAvail("idx", drv.driven)
  /\ drvPc' = "sent"
  /\ UNCHANGED <<arch, used, drv, drvOwns, drvSaw, devVars, loads, kick, irq>>

(* notifications_disabled, and the notification if they are not. *)
DriverNotify ==
  /\ drvPc = "sent" /\ kick' = (kick \/ ~used.suppress)
  /\ drvPc' = "run"
  /\ UNCHANGED <<arch, ring, drv, drvOwns, drvSaw, drvStore, devVars, loads, irq>>

(* DriverQueue::recv: the entry, where it is loaded ahead, *)
DriverAhead ==
  /\ LoadsAhead(drvPc, drvAhead) /\ drvAhead' = <<used.ring[drv.idx % Size]>>
  /\ UNCHANGED <<arch, ring, drvVars, devVars, devAhead, stale, kick, irq>>

(* the index of the used ring, *)
DriverRecv ==
  /\ drvPc = "run"
  /\ IF count_available(drv, used.idx) = 0
       THEN drvPc' = "idle" /\ drvAhead' = <<>> /\ UNCHANGED drvSaw
       ELSE drvPc' = "entry" /\ drvSaw' = used.idx /\ UNCHANGED drvAhead
  /\ UNCHANGED <<arch, ring, drv, drvOwns, drvStore, devVars, devAhead, stale, kick, irq>>

(* set_used_event, and the entry. *)
DriverEntry ==
  /\ drvPc = "entry" /\ drvStore = <<>>
  /\ avail' = [avail EXCEPT !.event = drvSaw]
  /\ LET now == used.ring[drv.idx % Size]
         id  == Loaded(drvAhead, now)
     IN drvOwns' = drvOwns \cup {id % Size} /\ stale' = (stale \/ id # now)
  /\ drvAhead' = <<>> /\ drvSaw' = 0
  /\ drv' = [drv EXCEPT !.idx = Inc(@)]
  /\ drvPc' = "run"
  /\ UNCHANGED <<arch, used, drvStore, devVars, devAhead, kick, irq>>

(* A driver that has found nothing (NOENT): enable_interrupts, *)
DriverEnables ==
  /\ drvPc = "idle" /\ SetAvail("suppress", FALSE) /\ drvPc' = "look"
  /\ UNCHANGED <<arch, used, drv, drvOwns, drvSaw, devVars, loads, kick, irq>>

(* one more look (get_available), *)
DriverLooks ==
  /\ drvPc = "look"
  /\ drvPc' = IF count_available(drv, used.idx) = 0 THEN "wait" ELSE "wake"
  /\ UNCHANGED <<arch, ring, drv, drvOwns, drvSaw, drvStore, devVars, loads, kick, irq>>

(* and the wait for an interrupt, which it may leave to send a buffer. *)
DriverWakes ==
  /\ drvPc = "wait" /\ irq' = FALSE
  /\ irq \/ drvOwns # {}
  /\ drvPc' = "wake"
  /\ UNCHANGED <<arch, ring, drv, drvOwns, drvSaw, drvStore, devVars, loads, kick>>

(* disable_interrupts *)
DriverDisables ==
  /\ drvPc = "wake" /\ SetAvail("suppress", TRUE)
  /\ drvPc' = "run"
  /\ UNCHANGED <<arch, used, drv, drvOwns, drvSaw, devVars, loads, kick, irq>>

-----------------------------------------------------------------------------
(* The device. *)

(* DeviceQueue::recv: the entry, where it is loaded ahead, *)
DeviceAhead ==
  /\ LoadsAhead(devPc, devAhead) /\ devAhead' = <<avail.ring[dev.idx % Size]>>
  /\ UNCHANGED <<arch, ring, drvVars, devVars, drvAhead, stale, kick, irq>>

(* the index of the available ring, *)
DeviceRecv ==
  /\ devPc = "run"
  /\ IF count_available(dev, avail.idx) = 0
       THEN devPc' = "idle" /\ devAhead' = <<>>
       ELSE devPc' = "entry" /\ UNCHANGED devAhead
  /\ UNCHANGED <<arch, ring, dev, devOwns, devStore, drvVars, drvAhead, stale, kick, irq>>

(* and the entry.  No driver reads the event that set_avail_event stores. *)
DeviceEntry ==
  /\ devPc = "entry" /\ devStore = <<>>
  /\ LET now == avail.ring[dev.idx % Size]
         head == Loaded(devAhead, now)
     IN devOwns' = devOwns \cup {head} /\ stale' = (stale \/ head # now)
  /\ devAhead' = <<>>
  /\ dev' = [dev EXCEPT !.idx = Inc(@)]
  /\ devPc' = "run"
  /\ UNCHANGED <<arch, ring, devStore, drvVars, drvAhead, kick, irq>>

(* DeviceQueue::send: the entry of the ring, *)
DeviceSend(h) ==
  /\ devPc = "run" /\ devAhead = <<>> /\ devStore = <<>> /\ h \in devOwns
  /\ dev' = BumpDriven(dev)
  /\ used' = [used EXCEPT !.ring[dev.driven % Size] = h]
  /\ devOwns' = devOwns \ {h}
  /\ devPc' = "index"
  /\ UNCHANGED <<arch, avail, devStore, drvVars, loads, kick, irq>>

(* and its index. *)
DeviceIndex ==
  /\ devPc = "index" /\ SetUsed("idx", dev.driven)
  /\ devPc' = "sent"
  /\ UNCHANGED <<arch, avail, dev, devOwns, drvVars, loads, kick, irq>>

(* interrupts_disabled, and the interrupt if they are not. *)
DeviceInterrupts ==
  /\ devPc = "sent" /\ irq' = (irq \/ ~avail.suppress)
  /\ devPc' = "run"
  /\ UNCHANGED <<arch, ring, dev, devOwns, devStore, drvVars, loads, kick>>

(* A device that has found nothing (NOENT): enable_notifications, *)
DeviceEnables ==
  /\ devPc = "idle" /\ SetUsed("suppress", FALSE) /\ devPc' = "look"
  /\ UNCHANGED <<arch, avail, dev, devOwns, drvVars, loads, kick, irq>>

(* one more look (get_available), *)
DeviceLooks ==
  /\ devPc = "look"
  /\ devPc' = IF count_available(dev, avail.idx) = 0 THEN "wait" ELSE "wake"
  /\ UNCHANGED <<arch, ring, dev, devOwns, devStore, drvVars, loads, kick, irq>>

(* and the wait for a notification, or until it has a buffer to return. *)
DeviceWakes ==
  /\ devPc = "wait" /\ kick' = FALSE
  /\ kick \/ devOwns # {}
  /\ devPc' = "wake"
  /\ UNCHANGED <<arch, ring, dev, devOwns, devStore, drvVars, loads, irq>>

(* disable_notifications *)
DeviceDisables ==
  /\ devPc = "wake" /\ SetUsed("suppress", TRUE)
  /\ devPc' = "run"
  /\ UNCHANGED <<arch, avail, dev, devOwns, drvVars, loads, kick, irq>>

-----------------------------------------------------------------------------
DriverStep ==
  \/ \E h \in Desc : DriverSend(h)
  \/ DriverIndex \/ DriverNotify \/ DriverAhead \/ DriverRecv \/ DriverEntry
  \/ DriverEnables \/ DriverLooks \/ DriverWakes \/ DriverDisables

DeviceStep ==
  \/ \E h \in Desc : DeviceSend(h)
  \/ DeviceAhead \/ DeviceRecv \/ DeviceEntry \/ DeviceIndex \/ DeviceInterrupts
  \/ DeviceEnables \/ DeviceLooks \/ DeviceWakes \/ DeviceDisables

Next == DriverStep \/ DeviceStep \/ DriverDrains \/ DeviceDrains

Spec == Init /\ [][Next]_vars

(* Both threads run, a store buffer drains, and a device that holds a      *)
(* buffer gets to returning it: the order is its own.                      *)
FairSpec ==
  /\ Spec /\ WF_vars(DriverStep) /\ WF_vars(DeviceStep)
  /\ WF_vars(DriverDrains) /\ WF_vars(DeviceDrains)
  /\ \A h \in Desc : SF_vars(DeviceSend(h))

-----------------------------------------------------------------------------
(* With VIRTIO_EVENT_IDX, used_event_notify tells the device to interrupt  *)
(* for the first buffer that it returns after the driver went to sleep:    *)
(* the last recv of the driver left the index of that buffer in            *)
(* used_event.                                                             *)
EventReachesWaiter ==
  arch = "aarch64" /\ drvPc = "wait" /\ devPc = "sent" /\ drv.idx = dev.prev =>
    used_event_notify

(* The entries of a ring from index a up to index b. *)
Entries(r, a, b) == [i \in 1 .. (b - a) % W |-> r.ring[(a + i - 1) % Size]]

Exchange ==
  INSTANCE BufferExchange WITH
    Head0 <- Desc,
    offered <- Entries(avail, dev.idx, avail.idx),
    held <- devOwns \cup {used.ring[(used.idx + i) % Size] :
                            i \in 0 .. ((dev.driven - used.idx) % W) - 1},
    returned <- Entries(used, drv.idx, used.idx)

(* The two rings exchange buffers: none is lost, duplicated or overtaken,  *)
(* at any interleaving of the accesses and across the wrap of the          *)
(* counters, up to the recv of an entry that was loaded before the index   *)
(* and has changed since, which the missing read barrier allows on aarch64 *)
(* and nothing on x86.                                                     *)
ImplementsExchange ==
  /\ Exchange!XInit
  /\ [][stale' \/ Exchange!XNext]_(Exchange!exchange)

(* Every buffer that the driver gives away comes back, unless an end has   *)
(* received a stale entry.                                                 *)
Served ==
  \A h \in Desc : (arch = "aarch64" /\ h \notin drvOwns) ~> (h \in drvOwns \/ stale)
===============================================================================
