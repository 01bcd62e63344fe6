----------------------------- MODULE VirtioConsole -----------------------------
(***************************************************************************)
(* The virtio console on the MMIO transport: VCPUs in exits to the         *)
(* registers of the device (Virtio::Device::access and handle_events), one *)
(* client thread in to_guest and one in from_guest, and the interrupt line *)
(* between them.  Nothing of it is under a lock.                           *)
(*                                                                         *)
(* A virtqueue is what module BufferExchange promises of it.  The driver   *)
(* in the guest is external: it sets the queues up, offers buffers, kicks, *)
(* acknowledges interrupts and resets the device, whatever the clients do. *)
(***************************************************************************)
EXTENDS Integers, Sequences, FiniteSets

CONSTANTS
  Vcpu,       \* the VCPUs
  RxHead,     \* the descriptor chains of the receive queue: one byte each
  TxHead,     \* the descriptor chains of the transmit queue
  TxLen,      \* the bytes in each
  Chunk,      \* the size of the buffers that the clients pass
  MaxFault    \* bound: resets, and copies whose address is not translated

ASSUME ConsoleAssumption ==
  /\ Vcpu # {} /\ RxHead \cup TxHead \subseteq Nat /\ RxHead \cap TxHead = {}
  /\ TxLen \in [TxHead -> Nat \ {0}] /\ Chunk \in Nat \ {0}
  /\ MaxFault \in Nat

Q == {"RX", "TX"}
Heads(q) == IF q = "RX" THEN RxHead ELSE TxHead
None == -1
KickOf(q) == IF q = "RX" THEN "kickRX" ELSE "kickTX"
ScanOf(q) == IF q = "RX" THEN "scanRX" ELSE "scanTX"

VARIABLES
  dev,        \* DeviceState: the registers, and the flags for handle_events
  constructed,\* QueueState::_constructed
  driver_initialized,
  vq,         \* the rings of either queue
  line,       \* the interrupt line
  sig,        \* _sig_notify_event is signalled
  space,      \* _sig_notify_empty_space is signalled
  pc,         \* where each VCPU is in access
  guest,      \* external: what each VCPU is about to do in the guest
  owns,       \* external: the chains that the driver has to offer
  in,         \* the client in to_guest
  out,        \* the client in from_guest
  resets, errors,
  late,       \* ghost: see Notify
  stray       \* ghost: a reset has taken the rings from a client that uses them

ghosts == <<late, stray>>
vars == <<dev, constructed, driver_initialized, vq, line, sig, space, pc, guest,
          owns, in, out, resets, errors, ghosts>>
device == <<dev, constructed, driver_initialized>>
clients == <<in, out, errors>>
wires == <<line, sig, space, ghosts>>
driver == <<guest, owns, resets>>

(* data is TRUE for a queue whose addresses the driver has written.        *)
ResetState ==
  [sel_queue |-> "RX", status |-> 0, irq_status |-> FALSE,
   data |-> [q \in Q |-> FALSE], construct_queue |-> FALSE,
   status_changed |-> FALSE, irq_acknowledged |-> FALSE, notify |-> FALSE]

EmptyRings == [q \in Q |-> [avail |-> <<>>, used |-> <<>>]]

Init ==
  /\ dev = ResetState
  /\ constructed = [q \in Q |-> FALSE] /\ driver_initialized = FALSE
  /\ vq = EmptyRings
  /\ line = FALSE /\ sig = FALSE /\ space = FALSE
  /\ pc = [v \in Vcpu |-> "idle"]
  /\ guest = [v \in Vcpu |-> "run"]
  /\ owns = [q \in Q |-> Heads(q)]
  /\ in = [pc |-> "call", back |-> "call", left |-> 0, head |-> None]
  /\ out = [pc |-> "wait", back |-> "call", left |-> 0, head |-> None, progress |-> 0]
  /\ resets = 0 /\ errors = 0 /\ late = FALSE /\ stray = FALSE

-----------------------------------------------------------------------------
(* Registers: MMIOTransport::write sets a flag and handle_events follows.  *)

DRIVER_OK == 15  \* with ACKNOWLEDGE, DRIVER and FEATURES_OK

(* is_driver_ok_state compares with the one bit. *)
is_driver_ok_state == dev.status = 4

(* handle_events begins with the two flags of the set-up.  They are set    *)
(* while no other VCPU is in an exit, and can be tested with the write.    *)
FirstEvent(d) ==
  CASE d.construct_queue -> "construct" [] d.status_changed -> "status" [] OTHER -> "ack"

Enter(v, d) ==
  /\ pc[v] = "idle" /\ pc' = [pc EXCEPT ![v] = FirstEvent(d)]
  /\ dev' = d
  /\ UNCHANGED <<constructed, driver_initialized, vq, wires, clients>>

Booting == dev.status = 0

(* One thread of the driver sets the device up.                            *)
SetsUp(v) == Booting /\ guest[v] = "run" /\ \A w \in Vcpu : pc[w] = "idle"

WriteQueueSel(v, q) ==
  /\ SetsUp(v) /\ dev.sel_queue # q
  /\ Enter(v, [dev EXCEPT !.sel_queue = q])
  /\ UNCHANGED driver

WriteQueueAddress(v) ==
  /\ SetsUp(v) /\ ~dev.data[dev.sel_queue]
  /\ Enter(v, IF is_driver_ok_state THEN dev
                                    ELSE [dev EXCEPT !.data[dev.sel_queue] = TRUE])
  /\ UNCHANGED driver

(* The value is stored and not looked at. *)
WriteQueueReady(v) ==
  /\ SetsUp(v) /\ ~constructed[dev.sel_queue]
  /\ Enter(v, [dev EXCEPT !.construct_queue = TRUE])
  /\ UNCHANGED driver

WriteDriverOk(v) ==
  /\ SetsUp(v) /\ \A q \in Q : constructed[q]
  /\ Enter(v, [dev EXCEPT !.status_changed = TRUE, !.status = DRIVER_OK])
  /\ UNCHANGED driver

WriteQueueNotify(v, q) ==
  /\ guest[v] = KickOf(q)
  /\ Enter(v, [dev EXCEPT !.notify = TRUE])
  /\ guest' = [guest EXCEPT ![v] = "run"]
  /\ UNCHANGED <<owns, resets>>

(* The value is not looked at either. *)
WriteInterruptAck(v) ==
  /\ guest[v] = "interrupt"
  /\ Enter(v, [dev EXCEPT !.irq_acknowledged = TRUE])
  /\ guest' = [guest EXCEPT ![v] = "scanRX"]
  /\ UNCHANGED <<owns, resets>>

Resetting == dev.status_changed /\ dev.status = 0

(* The driver stops using the device first; it cannot stop the clients.    *)
WriteReset(v) ==
  /\ guest[v] = "run" /\ ~Booting /\ resets + errors < MaxFault
  /\ \A w \in Vcpu : pc[w] = "idle" /\ guest[w] = "run"
  /\ Enter(v, [dev EXCEPT !.status_changed = TRUE, !.status = 0])
  /\ resets' = resets + 1
  /\ UNCHANGED <<guest, owns>>

-----------------------------------------------------------------------------
(* handle_events, one flag after the other: tested, cleared and acted upon *)
(* in one step, but for the acknowledgement.                               *)

At(v, here, there) == pc[v] = here /\ pc' = [pc EXCEPT ![v] = there]

(* construct_selected: QueueState::construct, unless it is already. *)
ConstructQueue(v) ==
  /\ At(v, "construct", "status")
  /\ dev' = [dev EXCEPT !.construct_queue = FALSE]
  /\ constructed' = [constructed EXCEPT
       ![dev.sel_queue] = @ \/ (dev.construct_queue /\ dev.data[dev.sel_queue])]
  /\ UNCHANGED <<driver_initialized, vq, wires, driver, clients>>

Inside(t) == t.pc \notin {"call", "wait"}

(* DeviceState::reset leaves sel_queue and the other flags, the line and   *)
(* _driver_initialized.  It unmaps the rings and knows of no client: one   *)
(* that is inside a call goes on, and a chain that is held stays so.       *)
Cleared == [ResetState EXCEPT !.sel_queue = dev.sel_queue,
                              !.construct_queue = dev.construct_queue,
                              !.irq_acknowledged = dev.irq_acknowledged,
                              !.notify = dev.notify]

StatusChanged(v) ==
  /\ At(v, "status", "ack")
  /\ IF Resetting
       THEN /\ dev' = Cleared
            /\ constructed' = [q \in Q |-> FALSE] /\ vq' = EmptyRings
            /\ owns' = [q \in Q |-> Heads(q)]
            /\ stray' = (stray \/ Inside(in) \/ Inside(out) \/ out.head # None)
            /\ UNCHANGED driver_initialized
       ELSE /\ dev' = [dev EXCEPT !.status_changed = FALSE]
            /\ driver_initialized' = (driver_initialized \/ dev.status_changed)
            /\ UNCHANGED <<constructed, vq, owns, stray>>
  /\ UNCHANGED <<line, sig, space, late, guest, resets, clients>>

(* The flag need not be of this VCPU's own acknowledgement. *)
TestAcknowledged(v) ==
  /\ At(v, "ack", IF dev.irq_acknowledged THEN "lower" ELSE "notify")
  /\ UNCHANGED <<device, vq, wires, driver, clients>>

(* deassert_queue_interrupt: the line first, *)
DeassertLine(v) ==
  /\ At(v, "lower", "clear")
  /\ dev' = [dev EXCEPT !.irq_acknowledged = FALSE]
  /\ line' = FALSE
  /\ UNCHANGED <<constructed, driver_initialized, vq, sig, space, ghosts, driver, clients>>

(* Mutant: the bit stays. *)
MutClearStatus(v) ==
  /\ At(v, "clear", "notify")
  /\ UNCHANGED <<device, vq, wires, driver, clients>>

(* then the bit. *)
ClearStatus(v) ==
  /\ At(v, "clear", "notify")
  /\ dev' = [dev EXCEPT !.irq_status = FALSE]
  /\ UNCHANGED <<constructed, driver_initialized, vq, wires, driver, clients>>

get_free(q) == Cardinality(Heads(q)) - Len(vq[q].avail)

(* Mutant: the producer is woken only when its ring is empty. *)
MutWakes == get_free("RX") = Cardinality(RxHead)

(* The condition under which notify wakes the producer. *)
Wakes == constructed["RX"] /\ driver_initialized /\ get_free("RX") # 0

(* The acknowledgement of VCPU v was taken by another one, which is still  *)
(* inside deassert_queue_interrupt when v returns to its handler.          *)
Overtakes(v) == guest[v] = "scanRX" /\ \E w \in Vcpu : pc[w] \in {"lower", "clear"}

(* Mutant: both signals depend on the receive queue. *)
MutNotify(v) ==
  /\ At(v, "notify", "idle")
  /\ dev' = [dev EXCEPT !.notify = FALSE]
  /\ sig' = (sig \/ (dev.notify /\ Wakes))
  /\ space' = (space \/ (dev.notify /\ Wakes))
  /\ late' = (late \/ Overtakes(v))
  /\ UNCHANGED <<constructed, driver_initialized, vq, line, stray, driver, clients>>

(* VirtioConsole::notify *)
Notify(v) ==
  /\ At(v, "notify", "idle")
  /\ dev' = [dev EXCEPT !.notify = FALSE]
  /\ sig' = (sig \/ dev.notify)
  /\ space' = (space \/ (dev.notify /\ Wakes))
  /\ late' = (late \/ Overtakes(v))
  /\ UNCHANGED <<constructed, driver_initialized, vq, line, stray, driver, clients>>

(* Mutant: the chain that from_guest holds is not concluded. *)
MutMachineReset ==
  /\ resets + errors < MaxFault /\ resets' = resets + 1
  /\ \A v \in Vcpu : pc[v] = "idle"
  /\ in' = [in EXCEPT !.head = None] /\ space' = TRUE
  /\ dev' = Cleared
  /\ constructed' = [q \in Q |-> FALSE] /\ vq' = EmptyRings
  /\ guest' = [v \in Vcpu |-> "run"] /\ owns' = [q \in Q |-> Heads(q)]
  /\ stray' = (stray \/ Inside(in) \/ Inside(out))
  /\ UNCHANGED <<driver_initialized, line, sig, late, pc, out, errors>>

(* VirtioConsole::reset, of the whole machine: the chains are concluded    *)
(* first, the guest starts over with fresh memory.                         *)
MachineReset ==
  /\ resets + errors < MaxFault /\ resets' = resets + 1
  /\ \A v \in Vcpu : pc[v] = "idle"
  /\ in' = [in EXCEPT !.head = None] /\ out' = [out EXCEPT !.head = None]
  /\ space' = TRUE
  /\ dev' = Cleared
  /\ constructed' = [q \in Q |-> FALSE] /\ vq' = EmptyRings
  /\ guest' = [v \in Vcpu |-> "run"] /\ owns' = [q \in Q |-> Heads(q)]
  /\ stray' = (stray \/ Inside(in) \/ Inside(out))
  /\ UNCHANGED <<driver_initialized, line, sig, late, pc, errors>>

-----------------------------------------------------------------------------
(* The driver in the guest, between exits. *)

(* It offers one buffer or several, with interrupts masked until the kick. *)
Offer(v, q) ==
  /\ pc[v] = "idle" /\ guest[v] \in {"run", KickOf(q)}
  /\ dev.status = DRIVER_OK /\ ~dev.status_changed
  /\ \E h \in owns[q] :
       /\ \A g \in owns[q] : h <= g
       /\ vq' = [vq EXCEPT ![q].avail = Append(@, h)]
       /\ owns' = [owns EXCEPT ![q] = @ \ {h}]
  /\ guest' = [guest EXCEPT ![v] = KickOf(q)]
  /\ UNCHANGED <<device, wires, pc, resets, clients>>

(* The interrupt controller delivers a level; one VCPU at a time takes it. *)
TakeInterrupt(v) ==
  /\ pc[v] = "idle" /\ guest[v] = "run" /\ line /\ ~Booting
  /\ \A w \in Vcpu : guest[w] \notin {"interrupt", "scanRX", "scanTX"}
  /\ guest' = [guest EXCEPT ![v] = "interrupt"]
  /\ UNCHANGED <<device, vq, wires, pc, owns, resets, clients>>

(* After the acknowledgement the handler empties the used rings. *)
Scan(v, q, next) ==
  /\ pc[v] = "idle" /\ guest[v] = ScanOf(q)
  /\ IF vq[q].used = <<>>
       THEN guest' = [guest EXCEPT ![v] = next] /\ UNCHANGED <<vq, owns>>
       ELSE /\ vq' = [vq EXCEPT ![q].used = Tail(@)]
            /\ owns' = [owns EXCEPT ![q] = @ \cup {Head(vq[q].used)}]
            /\ UNCHANGED guest
  /\ UNCHANGED <<device, wires, pc, resets, clients>>

ScanUsed(v) == Scan(v, "RX", "scanTX") \/ Scan(v, "TX", "run")

-----------------------------------------------------------------------------
(* assert_queue_interrupt, in the client whose record is t. *)

Ready(q) == constructed[q] /\ driver_initialized

Back(t) == [t EXCEPT !.pc = t.back, !.back = "call",
                     !.left = IF t.back = "wait" THEN 0 ELSE @]

AssertIrq(t, next) ==
  \/ /\ t.pc = "assert"
     /\ next = IF dev.irq_status THEN Back(t) ELSE [t EXCEPT !.pc = "or"]
     /\ UNCHANGED <<dev, line>>
  \/ /\ t.pc = "or" /\ next = [t EXCEPT !.pc = "line"]
     /\ dev' = [dev EXCEPT !.irq_status = TRUE] /\ UNCHANGED line
  \/ /\ t.pc = "line" /\ next = Back(t)
     /\ line' = TRUE /\ UNCHANGED dev

(* The rings of a queue that is not constructed are at address null: the   *)
(* client that accesses them takes no step.                                *)

(* walk_chain: the next chain of the available ring, *)
Take(q) ==
  /\ constructed[q] /\ vq[q].avail # <<>>
  /\ vq' = [vq EXCEPT ![q].avail = Tail(@)]

(* or none. *)
NoChain(q) == constructed[q] /\ vq[q].avail = <<>>

(* conclude_chain_use: the chain, if one is held, goes into the used ring. *)
Conclude(q, h) ==
  IF h = None THEN UNCHANGED vq
              ELSE constructed[q] /\ vq' = [vq EXCEPT ![q].used = Append(@, h)]

KeepAll == UNCHANGED <<vq, errors>>

(* to_guest: Chunk bytes, a chain for each; false when it runs out of      *)
(* chains or a copy fails, and the client waits for available buffers.     *)
ToGuest ==
  \/ /\ in.pc = "call"
     /\ in' = IF Ready("RX") THEN [in EXCEPT !.pc = "walk", !.left = Chunk]
                             ELSE [in EXCEPT !.pc = "wait"]
     /\ KeepAll /\ UNCHANGED <<dev, line, space>>
  \/ /\ in.pc = "walk" /\ in.left = 0
     /\ in' = [in EXCEPT !.pc = "call"]
     /\ KeepAll /\ UNCHANGED <<dev, line, space>>
  \/ /\ in.pc = "walk" /\ in.left > 0 /\ NoChain("RX")
     /\ in' = [in EXCEPT !.pc = "assert", !.back = "wait"]
     /\ KeepAll /\ UNCHANGED <<dev, line, space>>
  \/ /\ in.pc = "walk" /\ in.left > 0 /\ Take("RX")
     /\ in' = [in EXCEPT !.pc = "copy", !.head = Head(vq["RX"].avail)]
     /\ UNCHANGED <<dev, line, space, errors>>
  \/ /\ in.pc = "copy" /\ Conclude("RX", in.head)
     /\ \/ /\ in' = [in EXCEPT !.pc = "assert", !.back = "walk", !.head = None,
                               !.left = @ - 1]
           /\ UNCHANGED errors
        \/ /\ resets + errors < MaxFault /\ errors' = errors + 1
           /\ in' = [in EXCEPT !.pc = "assert", !.back = "wait", !.head = None]
     /\ UNCHANGED <<dev, line, space>>
  \/ AssertIrq(in, in') /\ KeepAll /\ UNCHANGED space
  \/ /\ in.pc = "wait" /\ space /\ space' = FALSE
     /\ in' = [in EXCEPT !.pc = "call"]
     /\ KeepAll /\ UNCHANGED <<dev, line>>

Producer ==
  /\ ToGuest
  /\ UNCHANGED <<constructed, driver_initialized, sig, ghosts, pc, driver, out>>

Min2(a, b) == IF a < b THEN a ELSE b

(* The bytes that from_guest copies next.                                  *)
n_copy == Min2(out.left, TxLen[out.head] - out.progress)

(* from_guest: up to Chunk bytes.  A chain is concluded when the call that *)
(* wants the byte behind its end finds none, so that the chain of a full   *)
(* buffer is held until the next call.  A client that got less than it     *)
(* asked for waits for a kick.                                             *)
FromGuest ==
  \/ /\ out.pc = "call"
     /\ out' = IF Ready("TX") THEN [out EXCEPT !.pc = "loop", !.left = Chunk]
                              ELSE [out EXCEPT !.pc = "wait"]
     /\ KeepAll /\ UNCHANGED <<dev, line, sig>>
  \/ /\ out.pc = "loop" /\ out.left = 0
     /\ out' = [out EXCEPT !.pc = "call"]
     /\ KeepAll /\ UNCHANGED <<dev, line, sig>>
  \/ /\ out.pc = "loop" /\ out.left > 0 /\ out.head = None /\ NoChain("TX")
     /\ out' = [out EXCEPT !.pc = "wait", !.left = 0, !.progress = 0]
     /\ KeepAll /\ UNCHANGED <<dev, line, sig>>
  \/ /\ out.pc = "loop" /\ out.left > 0 /\ out.head = None /\ Take("TX")
     /\ out' = [out EXCEPT !.head = Head(vq["TX"].avail), !.progress = 0]
     /\ UNCHANGED <<dev, line, sig, errors>>
  \/ /\ out.pc = "loop" /\ out.left > 0 /\ out.head # None /\ n_copy > 0
     /\ out' = [out EXCEPT !.progress = @ + n_copy, !.left = @ - n_copy]
     /\ KeepAll /\ UNCHANGED <<dev, line, sig>>
  \/ /\ out.pc = "loop" /\ out.left > 0 /\ out.head # None
     /\ Conclude("TX", out.head)
     /\ \/ /\ n_copy = 0
           /\ out' = [out EXCEPT !.pc = "assert", !.back = "loop", !.head = None]
           /\ UNCHANGED errors
        \/ /\ n_copy > 0 /\ resets + errors < MaxFault /\ errors' = errors + 1
           /\ out' = [out EXCEPT !.pc = "assert", !.back = "wait", !.head = None]
     /\ UNCHANGED <<dev, line, sig>>
  \/ AssertIrq(out, out') /\ KeepAll /\ UNCHANGED sig
  \/ /\ out.pc = "wait" /\ sig /\ sig' = FALSE
     /\ out' = [out EXCEPT !.pc = "call"]
     /\ KeepAll /\ UNCHANGED <<dev, line>>

Consumer ==
  /\ FromGuest
  /\ UNCHANGED <<constructed, driver_initialized, space, ghosts, pc, driver, in>>

-----------------------------------------------------------------------------
(* What a VCPU does without the driver's choice. *)
Runs(v) ==
  \/ ConstructQueue(v) \/ StatusChanged(v) \/ TestAcknowledged(v)
  \/ DeassertLine(v) \/ ClearStatus(v) \/ Notify(v) \/ WriteInterruptAck(v) \/ ScanUsed(v)

Kick(q) == \E v \in Vcpu : WriteQueueNotify(v, q)

Next ==
  \/ \E v \in Vcpu :
       \/ Runs(v)
       \/ \E q \in Q : WriteQueueSel(v, q) \/ Offer(v, q)
       \/ WriteQueueAddress(v) \/ WriteQueueReady(v) \/ WriteDriverOk(v)
       \/ WriteReset(v) \/ TakeInterrupt(v)
  \/ \E q \in Q : Kick(q)
  \/ MachineReset \/ Producer \/ Consumer

Spec == Init /\ [][Next]_vars

-----------------------------------------------------------------------------
Asserting(t) == t.pc \in {"assert", "or", "line"}

(* A used buffer that the driver has not collected has the line up, unless *)
(* a client is about to raise it or a VCPU is in the device or in the      *)
(* handler.  assert_queue_interrupt skips the line while the status bit is *)
(* set, since whoever is deasserting it "still needs to process the        *)
(* queues": not so once an acknowledgement that another VCPU took was      *)
(* overtaken by its handler (late), and an interrupt can be lost then.     *)
NoLostInterrupt ==
  (/\ ~late /\ ~Asserting(in) /\ ~Asserting(out)
   /\ \A v \in Vcpu : pc[v] = "idle" /\ guest[v] = "run"
   /\ \E q \in Q : vq[q].used # <<>>)
  => line

(* As long as no copy of to_guest or from_guest has failed (errors), a     *)
(* client that waits for space while chains are available is signalled, or *)
(* the driver still owes the kick, or the ring is completely filled:       *)
(* notify asks for free entries of the ring, not for available ones.       *)
(* After a failed copy the client waits beside the chains that are left    *)
(* until the driver's next kick.                                           *)
ProducerWoken ==
  (/\ in.pc = "wait" /\ ~space /\ vq["RX"].avail # <<>> /\ errors = 0
   /\ \A v \in Vcpu : pc[v] = "idle" /\ guest[v] # "kickRX")
  => get_free("RX") = 0

RxExchange ==
  INSTANCE BufferExchange WITH
    Head0 <- RxHead, offered <- vq["RX"].avail, returned <- vq["RX"].used,
    held <- {in.head} \ {None}

TxExchange ==
  INSTANCE BufferExchange WITH
    Head0 <- TxHead, offered <- vq["TX"].avail, returned <- vq["TX"].used,
    held <- {out.head} \ {None}

(* Either queue is an exchange of buffers, across calls, failed copies and *)
(* resets: a chain that a client holds is returned once and to the rings   *)
(* that it came from.  So until a reset takes the rings from a client that *)
(* is inside a call or, written as a status of 0, holds a chain: it would  *)
(* return that chain to the rings that are set up next.                    *)
ImplementsExchange ==
  /\ RxExchange!XInit
  /\ [][stray' \/ RxExchange!XNext \/ RxExchange!Forget]_(RxExchange!exchange)
  /\ TxExchange!XInit
  /\ [][stray' \/ TxExchange!XNext \/ TxExchange!Forget]_(TxExchange!exchange)

(* A client that waits for a kick has left nothing behind, as long as no   *)
(* copy failed: every buffer offered for transmission was read to its end  *)
(* and returned, or a signal or a kick is on its way.  The chain of rings  *)
(* that a reset took away while the client was using them may stay held.   *)
ConsumerNotStuck ==
  (/\ out.pc = "wait" /\ ~sig /\ errors = 0
   /\ \A v \in Vcpu : pc[v] = "idle" /\ guest[v] # "kickTX")
  => vq["TX"].avail = <<>> /\ (out.head = None \/ stray)
===============================================================================
