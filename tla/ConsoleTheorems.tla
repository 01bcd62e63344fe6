---------------------------- MODULE ConsoleTheorems ----------------------------
(***************************************************************************)
(* The virtio console, for every number of VCPUs and every size of its     *)
(* queues, with resets at any time: no used buffer waits without its       *)
(* interrupt, neither client sleeps beside work, and either queue is an    *)
(* exchange of buffers, each with the exceptions that its property names.  *)
(*                                                                         *)
(* The inductive invariant IInv says who still owes what: a VCPU that is   *)
(* handling an acknowledgement or a kick, a client that is raising the     *)
(* line, the driver that has a kick to write or rings to empty.            *)
(***************************************************************************)
EXTENDS VirtioConsole, SequenceTheorems, TLAPS

-----------------------------------------------------------------------------
(* The inductive invariant. *)

Steps == {"idle", "construct", "status", "ack", "lower", "clear", "notify"}
Plans == {"run", "kickRX", "kickTX", "interrupt", "scanRX", "scanTX"}

Registers ==
  [sel_queue : Q, status : {0, DRIVER_OK}, irq_status : BOOLEAN, data : [Q -> BOOLEAN],
   construct_queue : BOOLEAN, status_changed : BOOLEAN, irq_acknowledged : BOOLEAN,
   notify : BOOLEAN]

Rings == [Q -> [avail : Seq(Nat), used : Seq(Nat)]]

InType ==
  [pc : {"call", "walk", "copy", "assert", "or", "line", "wait"},
   back : {"call", "walk", "wait"}, left : Int, head : RxHead \cup {None}]

OutType ==
  [pc : {"call", "loop", "assert", "or", "line", "wait"},
   back : {"call", "loop", "wait"}, left : Int, head : TxHead \cup {None}, progress : Int]

TypeOK ==
  /\ dev \in Registers
  /\ constructed \in [Q -> BOOLEAN] /\ driver_initialized \in BOOLEAN
  /\ vq \in Rings /\ owns \in [Q -> SUBSET Nat]
  /\ line \in BOOLEAN /\ sig \in BOOLEAN /\ space \in BOOLEAN
  /\ late \in BOOLEAN /\ stray \in BOOLEAN
  /\ pc \in [Vcpu -> Steps] /\ guest \in [Vcpu -> Plans]
  /\ in \in InType /\ out \in OutType
  /\ resets \in Nat /\ errors \in Nat

(* The rings are offered to between the set-up and the reset only. *)
SetUpInv ==
  /\ dev.status = DRIVER_OK =>
       /\ \A q \in Q : constructed[q]
       /\ dev.status_changed \/ driver_initialized
  /\ \A q \in Q : vq[q].avail # <<>> => Ready(q)
  /\ in.head # None => in.pc = "copy"
  /\ out.head # None => Ready("TX") \/ stray

(* Who empties the used rings, when the line is down: the handler, or the  *)
(* one whom the line is about to wake.                                     *)
Deasserts(v) == pc[v] \in {"lower", "clear"}
Acknowledges(v) == guest[v] = "scanRX" /\ pc[v] # "idle"
Scans(q) == \E v \in Vcpu : guest[v] \in IF q = "RX" THEN {"interrupt", "scanRX"}
                                         ELSE {"interrupt", "scanRX", "scanTX"}

IrqInv ==
  /\ dev.irq_acknowledged =>
       \E v \in Vcpu : Acknowledges(v) /\ pc[v] \notin {"clear", "notify"}
  /\ late \/ \A w \in Vcpu : Deasserts(w) => \E v \in Vcpu : Acknowledges(v)
  /\ dev.irq_status => line \/ in.pc = "line" \/ out.pc = "line"
                            \/ \E w \in Vcpu : pc[w] = "clear"
  /\ \A q \in Q : vq[q].used # <<>> =>
       late \/ line \/ Asserting(in) \/ Asserting(out) \/ Scans(q)

(* Who wakes the clients: a kick that is written, or one that is not yet.  *)
Kicked(q) == dev.notify \/ \E v \in Vcpu : guest[v] = KickOf(q)
Sleeps(t) == t.pc = "wait" \/ (Asserting(t) /\ t.back = "wait")

WakeInv ==
  /\ dev.notify => \E v \in Vcpu : pc[v] # "idle"
  /\ Sleeps(in) /\ ~space /\ errors = 0 /\ vq["RX"].avail # <<>>
       => get_free("RX") = 0 \/ Kicked("RX")
  /\ out.back = "wait" => errors > 0
  /\ out.pc = "wait" /\ errors = 0 => out.head = None \/ stray
  /\ out.pc = "wait" /\ ~sig /\ errors = 0 => vq["TX"].avail = <<>> \/ Kicked("TX")

(* The chains of the two queues are theirs, *)
ChainType ==
  \A q \in Q : /\ vq[q].avail \in Seq(Heads(q)) /\ vq[q].used \in Seq(Heads(q))
               /\ owns[q] \subseteq Heads(q)

(* and a chain is in one place, and there once: until a reset takes the    *)
(* rings from a client that has yet to return a chain.                     *)
Apart(a, u, o, h) ==
  /\ \A i, j \in 1..Len(a) : a[i] = a[j] => i = j
  /\ \A i, j \in 1..Len(u) : u[i] = u[j] => i = j
  /\ \A i \in 1..Len(a), j \in 1..Len(u) : a[i] # u[j]
  /\ \A i \in 1..Len(a) : a[i] \notin o /\ a[i] # h
  /\ \A j \in 1..Len(u) : u[j] \notin o /\ u[j] # h
  /\ h \notin o

Holds(q) == IF q = "RX" THEN in.head ELSE out.head

ChainInv == \A q \in Q : Apart(vq[q].avail, vq[q].used, owns[q], Holds(q))

IInv ==
  /\ TypeOK /\ SetUpInv /\ IrqInv /\ WakeInv
  /\ ChainType /\ (stray \/ ChainInv)

-----------------------------------------------------------------------------
(* Types. *)

LEMMA Names ==
  /\ "RX" \in Q /\ "TX" \in Q /\ \A q \in Q : q = "RX" \/ q = "TX"
  /\ Heads("RX") = RxHead /\ Heads("TX") = TxHead
  /\ \A q \in Q : None \notin Heads(q) /\ Heads(q) \subseteq Nat
BY ConsoleAssumption DEF Q, Heads, None

LEMMA ResetType == ResetState \in Registers
BY DEF ResetState, Registers, Q

LEMMA InitTypes == Init => TypeOK
<1> SUFFICES ASSUME Init PROVE TypeOK
  OBVIOUS
<1>1. vq \in Rings
  BY DEF Init, EmptyRings, Rings
<1>2. pc \in [Vcpu -> Steps] /\ guest \in [Vcpu -> Plans]
  BY DEF Init, Steps, Plans
<1>3. owns \in [Q -> SUBSET Nat]
  BY Names DEF Init
<1>4. in \in InType
  BY DEF Init, InType
<1>5. out \in OutType
  BY DEF Init, OutType
<1>6. constructed \in [Q -> BOOLEAN] /\ driver_initialized \in BOOLEAN
      /\ line \in BOOLEAN /\ sig \in BOOLEAN /\ space \in BOOLEAN
      /\ late \in BOOLEAN /\ stray \in BOOLEAN
      /\ resets \in Nat /\ errors \in Nat
  BY DEF Init
<1>7. dev = ResetState
  BY DEF Init
<1> QED
  BY <1>1, <1>2, <1>3, <1>4, <1>5, <1>6, <1>7, ResetType DEF TypeOK

(* An exit begins: a register is written, and a flag set. *)
LEMMA EnterTypes ==
  ASSUME TypeOK, NEW v \in Vcpu, NEW d \in Registers, Enter(v, d),
         guest' \in [Vcpu -> Plans], resets' \in Nat, owns' = owns
  PROVE  TypeOK'
<1>1. pc' \in [Vcpu -> Steps]
  <2>1. FirstEvent(d) \in Steps
    BY DEF FirstEvent, Steps
  <2> QED
    BY <2>1 DEF Enter, TypeOK
<1> QED
  BY <1>1 DEF Enter, TypeOK, wires, ghosts, clients


LEMMA RingTypes ==
  ASSUME TypeOK, NEW q \in Q
  PROVE  /\ vq[q].avail \in Seq(Nat) /\ vq[q].used \in Seq(Nat)
         /\ \A h \in Nat :
              /\ [vq EXCEPT ![q].avail = Append(@, h)] \in Rings
              /\ [vq EXCEPT ![q].used = Append(@, h)] \in Rings
         /\ vq[q].avail # <<>> =>
              /\ Head(vq[q].avail) \in Nat
              /\ [vq EXCEPT ![q].avail = Tail(@)] \in Rings
         /\ vq[q].used # <<>> =>
              /\ Head(vq[q].used) \in Nat
              /\ [vq EXCEPT ![q].used = Tail(@)] \in Rings
         /\ EmptyRings \in Rings
<1>1. vq[q].avail \in Seq(Nat) /\ vq[q].used \in Seq(Nat)
  BY DEF TypeOK, Rings
<1>2. \A h \in Nat : Append(vq[q].avail, h) \in Seq(Nat) /\ Append(vq[q].used, h) \in Seq(Nat)
  BY <1>1
<1>3. /\ vq[q].avail # <<>> => Head(vq[q].avail) \in Nat /\ Tail(vq[q].avail) \in Seq(Nat)
      /\ vq[q].used # <<>> => Head(vq[q].used) \in Nat /\ Tail(vq[q].used) \in Seq(Nat)
  BY <1>1
<1>4. EmptyRings \in Rings
  BY DEF EmptyRings, Rings
<1> QED
  BY <1>1, <1>2, <1>3, <1>4 DEF TypeOK, Rings

(* A step changes one ring of one queue. *)
LEMMA OneRing ==
  ASSUME TypeOK, NEW q \in Q, NEW s
  PROVE  /\ \A p \in Q :
              /\ [vq EXCEPT ![q].avail = s][p].avail = IF p = q THEN s ELSE vq[p].avail
              /\ [vq EXCEPT ![q].avail = s][p].used = vq[p].used
         /\ \A p \in Q :
              /\ [vq EXCEPT ![q].used = s][p].used = IF p = q THEN s ELSE vq[p].used
              /\ [vq EXCEPT ![q].used = s][p].avail = vq[p].avail
BY DEF TypeOK, Rings

(* The registers and the rings of a device that was reset. *)
LEMMA ClearedType ==
  ASSUME TypeOK
  PROVE  /\ Cleared \in Registers
         /\ [q \in Q |-> Heads(q)] \in [Q -> SUBSET Nat]
BY Names, ConsoleAssumption DEF TypeOK, Cleared, ResetState, Registers

LEMMA ClearedFields ==
  /\ Cleared.irq_acknowledged = dev.irq_acknowledged
  /\ Cleared.irq_status = FALSE
  /\ Cleared.notify = dev.notify
<1>1. Cleared.irq_acknowledged = dev.irq_acknowledged
  BY DEF Cleared, ResetState
<1>2. Cleared.irq_status = FALSE
  BY DEF Cleared, ResetState
<1>3. Cleared.notify = dev.notify
  BY DEF Cleared, ResetState
<1> QED
  BY <1>1, <1>2, <1>3

LEMMA DriverTypes ==
  ASSUME TypeOK, NEW v \in Vcpu, NEW q \in Q,
         \/ WriteQueueSel(v, q) \/ WriteQueueAddress(v) \/ WriteQueueReady(v)
         \/ WriteDriverOk(v) \/ WriteReset(v)
         \/ WriteQueueNotify(v, q) \/ WriteInterruptAck(v)
         \/ Offer(v, q) \/ TakeInterrupt(v) \/ ScanUsed(v)
  PROVE  TypeOK'
<1>1. CASE WriteQueueSel(v, q)
  <2>1. PICK d \in Registers : Enter(v, d)
    BY <1>1 DEF WriteQueueSel, TypeOK, Registers
  <2> QED
    BY <2>1, <1>1, EnterTypes DEF WriteQueueSel, TypeOK, driver
<1>2. CASE WriteQueueAddress(v)
  <2>1. PICK d \in Registers : Enter(v, d)
    BY <1>2 DEF WriteQueueAddress, TypeOK, Registers
  <2> QED
    BY <2>1, <1>2, EnterTypes DEF WriteQueueAddress, TypeOK, driver
<1>3. CASE WriteQueueReady(v)
  <2>1. PICK d \in Registers : Enter(v, d)
    BY <1>3 DEF WriteQueueReady, TypeOK, Registers
  <2> QED
    BY <2>1, <1>3, EnterTypes DEF WriteQueueReady, TypeOK, driver
<1>4. CASE WriteDriverOk(v)
  <2>1. PICK d \in Registers : Enter(v, d)
    BY <1>4 DEF WriteDriverOk, TypeOK, Registers
  <2> QED
    BY <2>1, <1>4, EnterTypes DEF WriteDriverOk, TypeOK, driver
<1>5. CASE WriteReset(v)
  <2>1. PICK d \in Registers : Enter(v, d)
    BY <1>5 DEF WriteReset, TypeOK, Registers
  <2> QED
    BY <2>1, <1>5, EnterTypes DEF WriteReset, TypeOK, driver
<1>6. CASE WriteQueueNotify(v, q)
  <2>1. PICK d \in Registers : Enter(v, d)
    BY <1>6 DEF WriteQueueNotify, TypeOK, Registers
  <2> QED
    BY <2>1, <1>6, EnterTypes DEF WriteQueueNotify, TypeOK, driver, Plans
<1>7. CASE WriteInterruptAck(v)
  <2>1. PICK d \in Registers : Enter(v, d)
    BY <1>7 DEF WriteInterruptAck, TypeOK, Registers
  <2> QED
    BY <2>1, <1>7, EnterTypes DEF WriteInterruptAck, TypeOK, driver, Plans
<1>8. CASE Offer(v, q)
  <2>1. PICK h \in owns[q] :
          /\ vq' = [vq EXCEPT ![q].avail = Append(@, h)]
          /\ owns' = [owns EXCEPT ![q] = @ \ {h}]
    BY <1>8 DEF Offer
  <2>2. h \in Nat /\ owns' \in [Q -> SUBSET Nat]
    BY <2>1 DEF TypeOK
  <2>3. vq' \in Rings
    BY <2>1, <2>2, RingTypes
  <2>4. guest' \in [Vcpu -> Plans]
    BY <1>8, Names DEF Offer, KickOf, TypeOK, Plans
  <2> QED
    BY <1>8, <2>2, <2>3, <2>4 DEF Offer, TypeOK, device, wires, ghosts, clients
<1>9. CASE TakeInterrupt(v)
  BY <1>9 DEF TakeInterrupt, TypeOK, Plans, device, wires, ghosts, clients
<1>10. CASE ScanUsed(v)
  <2> SUFFICES ASSUME NEW p \in Q, NEW n \in Plans, Scan(v, p, n)
               PROVE  TypeOK'
    BY <1>10, Names DEF ScanUsed, Plans
  <2>1. CASE vq[p].used = <<>>
    BY <2>1 DEF Scan, TypeOK, device, wires, ghosts, clients
  <2>2. CASE vq[p].used # <<>>
    <3>1. vq' \in Rings /\ Head(vq[p].used) \in Nat
      BY <2>2, RingTypes DEF Scan
    <3>2. owns' \in [Q -> SUBSET Nat] /\ guest' = guest
      BY <2>2, <3>1 DEF Scan, TypeOK
    <3> QED
      BY <3>1, <3>2 DEF Scan, TypeOK, device, wires, ghosts, clients
  <2> QED
    BY <2>1, <2>2
<1> QED
  BY <1>1, <1>2, <1>3, <1>4, <1>5, <1>6, <1>7, <1>8, <1>9, <1>10

LEMMA ExitTypes ==
  ASSUME TypeOK, NEW v \in Vcpu,
         \/ ConstructQueue(v) \/ StatusChanged(v) \/ TestAcknowledged(v)
         \/ DeassertLine(v) \/ ClearStatus(v) \/ Notify(v)
  PROVE  TypeOK'
<1>1. CASE ConstructQueue(v)
  <2>1. dev' \in Registers /\ constructed' \in [Q -> BOOLEAN]
    BY <1>1 DEF ConstructQueue, TypeOK, Registers
  <2> QED
    BY <1>1, <2>1 DEF ConstructQueue, At, TypeOK, Steps, wires, ghosts, driver, clients
<1>2. CASE StatusChanged(v)
  <2>1. pc' \in [Vcpu -> Steps] /\ UNCHANGED <<line, sig, space, late, guest, resets, in, out, errors>>
    BY <1>2 DEF StatusChanged, At, TypeOK, Steps, clients
  <2>2. CASE Resetting
    <3>1. stray' \in BOOLEAN
      BY <1>2, <2>2 DEF StatusChanged, TypeOK, Inside
    <3> QED
      BY <1>2, <2>1, <2>2, <3>1, ClearedType, RingTypes, Names DEF StatusChanged, TypeOK
  <2>3. CASE ~Resetting
    BY <1>2, <2>1, <2>3 DEF StatusChanged, TypeOK, Registers
  <2> QED
    BY <2>2, <2>3
<1>3. CASE TestAcknowledged(v)
  BY <1>3 DEF TestAcknowledged, At, TypeOK, Steps, device, wires, ghosts, driver, clients
<1>4. CASE DeassertLine(v)
  BY <1>4 DEF DeassertLine, At, TypeOK, Steps, Registers, ghosts, driver, clients
<1>5. CASE ClearStatus(v)
  BY <1>5 DEF ClearStatus, At, TypeOK, Steps, Registers, wires, ghosts, driver, clients
<1>6. CASE Notify(v)
  <2>1. space' \in BOOLEAN /\ sig' \in BOOLEAN /\ late' \in BOOLEAN
    BY <1>6 DEF Notify, TypeOK, Wakes, Overtakes, Registers
  <2>2. dev' \in Registers
    BY <1>6 DEF Notify, TypeOK, Registers
  <2> QED
    BY <1>6, <2>1, <2>2 DEF Notify, At, TypeOK, Steps, driver, clients
<1> QED
  BY <1>1, <1>2, <1>3, <1>4, <1>5, <1>6

LEMMA MachineResetTypes == TypeOK /\ MachineReset => TypeOK'
<1> SUFFICES ASSUME TypeOK, MachineReset PROVE TypeOK'
  OBVIOUS
<1>1. guest' \in [Vcpu -> Plans] /\ constructed' \in [Q -> BOOLEAN]
  BY DEF MachineReset, Plans
<1>2. in' \in InType /\ out' \in OutType
  BY DEF MachineReset, TypeOK, InType, OutType
<1>3. resets' \in Nat /\ stray' \in BOOLEAN
  BY DEF MachineReset, TypeOK, Inside
<1> QED
  BY <1>1, <1>2, <1>3, ClearedType, RingTypes, Names DEF MachineReset, TypeOK

(* A client takes a chain of its own queue. *)
LEMMA NextChain ==
  ASSUME ChainType, NEW q \in Q, vq[q].avail # <<>>
  PROVE  Head(vq[q].avail) \in Heads(q)
BY DEF ChainType

(* The steps of to_guest, *)
RxMoves ==
  /\ in.pc \in {"call", "walk"} /\ UNCHANGED <<dev, line, space, vq, errors>>
  /\ \/ in.pc = "call" /\ Ready("RX") /\ in' = [in EXCEPT !.pc = "walk", !.left = Chunk]
     \/ in.pc = "call" /\ ~Ready("RX") /\ in' = [in EXCEPT !.pc = "wait"]
     \/ in.pc = "walk" /\ in' = [in EXCEPT !.pc = "call"]
     \/ /\ in.pc = "walk" /\ vq["RX"].avail = <<>>
        /\ in' = [in EXCEPT !.pc = "assert", !.back = "wait"]

RxTakes ==
  /\ in.pc = "walk" /\ vq["RX"].avail # <<>>
  /\ vq' = [vq EXCEPT !["RX"].avail = Tail(@)]
  /\ in' = [in EXCEPT !.pc = "copy", !.head = Head(vq["RX"].avail)]
  /\ UNCHANGED <<dev, line, space, errors>>

RxReturns ==
  /\ in.pc = "copy"
  /\ vq' = IF in.head = None THEN vq ELSE [vq EXCEPT !["RX"].used = Append(@, in.head)]
  /\ \/ /\ in' = [in EXCEPT !.pc = "assert", !.back = "walk", !.head = None, !.left = @ - 1]
        /\ UNCHANGED errors
     \/ /\ in' = [in EXCEPT !.pc = "assert", !.back = "wait", !.head = None]
        /\ errors' = errors + 1
  /\ UNCHANGED <<dev, line, space>>

RxAsserts == AssertIrq(in, in') /\ UNCHANGED <<space, vq, errors>>

RxWakes ==
  /\ in.pc = "wait" /\ space /\ space' = FALSE
  /\ in' = [in EXCEPT !.pc = "call"] /\ UNCHANGED <<dev, line, vq, errors>>

LEMMA ProducerSteps ==
  ASSUME Producer
  PROVE  /\ UNCHANGED <<constructed, driver_initialized, owns, sig, late, stray, pc,
                        guest, resets, out>>
         /\ RxMoves \/ RxTakes \/ RxReturns \/ RxAsserts \/ RxWakes
<1>1. ToGuest => RxMoves \/ RxTakes \/ RxReturns \/ RxAsserts \/ RxWakes
  BY DEF ToGuest, KeepAll, Take, NoChain, Conclude, RxMoves, RxTakes, RxReturns, RxAsserts, RxWakes
<1> QED
  BY <1>1 DEF Producer, driver, ghosts

(* and those of from_guest. *)
TxMoves ==
  /\ out.pc \in {"call", "loop"} /\ UNCHANGED <<dev, line, sig, vq, errors>>
  /\ \/ out.pc = "call" /\ Ready("TX") /\ out' = [out EXCEPT !.pc = "loop", !.left = Chunk]
     \/ out.pc = "call" /\ ~Ready("TX") /\ out' = [out EXCEPT !.pc = "wait"]
     \/ out.pc = "loop" /\ out' = [out EXCEPT !.pc = "call"]
     \/ /\ out.pc = "loop" /\ out.head = None /\ vq["TX"].avail = <<>>
        /\ out' = [out EXCEPT !.pc = "wait", !.left = 0, !.progress = 0]
     \/ /\ out.pc = "loop" /\ out.head # None
        /\ out' = [out EXCEPT !.progress = @ + n_copy, !.left = @ - n_copy]

TxTakes ==
  /\ out.pc = "loop" /\ out.head = None /\ vq["TX"].avail # <<>>
  /\ vq' = [vq EXCEPT !["TX"].avail = Tail(@)]
  /\ out' = [out EXCEPT !.head = Head(vq["TX"].avail), !.progress = 0]
  /\ UNCHANGED <<dev, line, sig, errors>>

TxReturns ==
  /\ out.pc = "loop" /\ out.head # None
  /\ vq' = [vq EXCEPT !["TX"].used = Append(@, out.head)]
  /\ \/ /\ out' = [out EXCEPT !.pc = "assert", !.back = "loop", !.head = None]
        /\ UNCHANGED errors
     \/ /\ out' = [out EXCEPT !.pc = "assert", !.back = "wait", !.head = None]
        /\ errors' = errors + 1
  /\ UNCHANGED <<dev, line, sig>>

TxAsserts == AssertIrq(out, out') /\ UNCHANGED <<sig, vq, errors>>

TxWakes ==
  /\ out.pc = "wait" /\ sig /\ sig' = FALSE
  /\ out' = [out EXCEPT !.pc = "call"] /\ UNCHANGED <<dev, line, vq, errors>>

LEMMA ConsumerSteps ==
  ASSUME Consumer
  PROVE  /\ UNCHANGED <<constructed, driver_initialized, owns, space, late, stray, pc,
                        guest, resets, in>>
         /\ TxMoves \/ TxTakes \/ TxReturns \/ TxAsserts \/ TxWakes
<1>1. FromGuest => TxMoves \/ TxTakes \/ TxReturns \/ TxAsserts \/ TxWakes
  BY DEF FromGuest, KeepAll, Take, NoChain, Conclude, TxMoves, TxTakes, TxReturns, TxAsserts, TxWakes
<1> QED
  BY <1>1 DEF Consumer, driver, ghosts

LEMMA ProducerTypes == TypeOK /\ ChainType /\ Producer => TypeOK'
<1> SUFFICES ASSUME TypeOK, ChainType, Producer PROVE TypeOK'
  OBVIOUS
<1>0. in \in InType /\ 0 \in Int /\ in.left \in Int /\ in.left - 1 \in Int /\ Chunk \in Int
  BY ConsoleAssumption DEF TypeOK, InType
<1>1. CASE RxMoves
  <2>1. in' \in InType
    <3>1. CASE in' = [in EXCEPT !.pc = "walk", !.left = Chunk]
      BY <1>0, <3>1 DEF InType
    <3>2. CASE in' = [in EXCEPT !.pc = "wait"]
      BY <1>0, <3>2 DEF InType
    <3>3. CASE in' = [in EXCEPT !.pc = "call"]
      BY <1>0, <3>3 DEF InType
    <3>4. CASE in' = [in EXCEPT !.pc = "assert", !.back = "wait"]
      BY <1>0, <3>4 DEF InType
    <3> QED
      BY <1>1, <3>1, <3>2, <3>3, <3>4 DEF RxMoves
  <2> QED
    BY <1>1, <2>1, ProducerSteps DEF RxMoves, TypeOK
<1>2. CASE RxTakes
  <2>1. in' \in InType
    BY <1>0, <1>2, NextChain, Names DEF RxTakes, InType
  <2>2. vq' \in Rings
    BY <1>2, RingTypes, Names DEF RxTakes
  <2> QED
    BY <1>2, <2>1, <2>2, ProducerSteps DEF RxTakes, TypeOK
<1>3. CASE RxReturns
  <2>1. in' \in InType
    <3>1. CASE in' = [in EXCEPT !.pc = "assert", !.back = "walk", !.head = None, !.left = @ - 1]
      BY <1>0, <3>1 DEF InType
    <3>2. CASE in' = [in EXCEPT !.pc = "assert", !.back = "wait", !.head = None]
      BY <1>0, <3>2 DEF InType
    <3> QED
      BY <1>3, <3>1, <3>2 DEF RxReturns
  <2>3. errors' \in Nat
    BY <1>3 DEF RxReturns, TypeOK
  <2>2. vq' \in Rings
    <3>1. CASE in.head = None
      BY <1>3, <3>1 DEF RxReturns, TypeOK
    <3>2. CASE in.head # None
      <4>1. in.head \in Nat
        BY <1>0, <3>2, ConsoleAssumption DEF InType
      <4> QED
        BY <1>3, <3>2, <4>1, RingTypes, Names DEF RxReturns
    <3> QED
      BY <3>1, <3>2
  <2> QED
    BY <1>3, <2>1, <2>2, <2>3, ProducerSteps DEF RxReturns, TypeOK
<1>4. CASE RxAsserts
  <2>1. dev' \in Registers /\ line' \in BOOLEAN
    BY <1>4 DEF RxAsserts, AssertIrq, TypeOK, Registers
  <2>2. in' \in InType
    <3>1. Back(in) \in InType
      <4>1. CASE in.back = "wait"
        <5>1. Back(in) = [in EXCEPT !.pc = "wait", !.back = "call", !.left = 0]
          BY <4>1 DEF Back
        <5> QED
          BY <1>0, <5>1 DEF InType
      <4>2. CASE in.back # "wait"
        <5>1. Back(in) = [in EXCEPT !.pc = in.back, !.back = "call"]
          BY <1>0, <4>2 DEF Back, InType
        <5> QED
          BY <1>0, <5>1 DEF InType
      <4> QED
        BY <4>1, <4>2
    <3>2. [in EXCEPT !.pc = "or"] \in InType /\ [in EXCEPT !.pc = "line"] \in InType
      BY <1>0 DEF InType
    <3> QED
      BY <1>4, <3>1, <3>2 DEF RxAsserts, AssertIrq, TypeOK
  <2> QED
    BY <1>4, <2>1, <2>2, ProducerSteps DEF RxAsserts, TypeOK
<1>5. CASE RxWakes
  <2>1. in' \in InType
    BY <1>0, <1>5 DEF RxWakes, InType
  <2> QED
    BY <1>5, <2>1, ProducerSteps DEF RxWakes, TypeOK
<1> QED
  BY <1>1, <1>2, <1>3, <1>4, <1>5, ProducerSteps

LEMMA ConsumerTypes == TypeOK /\ ChainType /\ Consumer => TypeOK'
<1> SUFFICES ASSUME TypeOK, ChainType, Consumer PROVE TypeOK'
  OBVIOUS
<1>0. out \in OutType /\ Chunk \in Int /\ 0 \in Int
  BY ConsoleAssumption DEF TypeOK, OutType
<1>1. CASE TxMoves
  <2>1. out.head # None => n_copy \in Int
    BY <1>0, ConsoleAssumption DEF n_copy, Min2, OutType
  <2>2. out' \in OutType
    <3>1. CASE out' = [out EXCEPT !.pc = "loop", !.left = Chunk]
      BY <1>0, <3>1 DEF OutType
    <3>2. CASE out' = [out EXCEPT !.pc = "wait"]
      BY <1>0, <3>2 DEF OutType
    <3>3. CASE out' = [out EXCEPT !.pc = "call"]
      BY <1>0, <3>3 DEF OutType
    <3>4. CASE out' = [out EXCEPT !.pc = "wait", !.left = 0, !.progress = 0]
      BY <1>0, <3>4 DEF OutType
    <3>5. CASE out.head # None /\ out' = [out EXCEPT !.progress = @ + n_copy, !.left = @ - n_copy]
      <4>1. out.progress + n_copy \in Int /\ out.left - n_copy \in Int
        BY <1>0, <3>5, <2>1 DEF OutType
      <4> QED
        BY <1>0, <3>5, <4>1 DEF OutType
    <3> QED
      BY <1>1, <3>1, <3>2, <3>3, <3>4, <3>5 DEF TxMoves
  <2> QED
    BY <1>1, <2>2, ConsumerSteps DEF TxMoves, TypeOK
<1>2. CASE TxTakes
  <2>1. out' \in OutType
    <3>1. Head(vq["TX"].avail) \in TxHead
      BY <1>2, NextChain, Names DEF TxTakes
    <3> QED
      BY <1>0, <1>2, <3>1 DEF TxTakes, OutType
  <2>2. vq' \in Rings
    BY <1>2, RingTypes, Names DEF TxTakes
  <2> QED
    BY <1>2, <2>1, <2>2, ConsumerSteps DEF TxTakes, TypeOK
<1>3. CASE TxReturns
  <2>1. out' \in OutType
    <3>1. CASE out' = [out EXCEPT !.pc = "assert", !.back = "loop", !.head = None]
      BY <1>0, <3>1 DEF OutType
    <3>2. CASE out' = [out EXCEPT !.pc = "assert", !.back = "wait", !.head = None]
      BY <1>0, <3>2 DEF OutType
    <3> QED
      BY <1>3, <3>1, <3>2 DEF TxReturns
  <2>3. errors' \in Nat
    BY <1>3 DEF TxReturns, TypeOK
  <2>2. vq' \in Rings
    <3>1. out.head \in Nat
      BY <1>0, <1>3, ConsoleAssumption DEF TxReturns, OutType
    <3> QED
      BY <1>3, <3>1, RingTypes, Names DEF TxReturns
  <2> QED
    BY <1>3, <2>1, <2>2, <2>3, ConsumerSteps DEF TxReturns, TypeOK
<1>4. CASE TxAsserts
  <2>1. dev' \in Registers /\ line' \in BOOLEAN
    BY <1>4 DEF TxAsserts, AssertIrq, TypeOK, Registers
  <2>2. out' \in OutType
    <3>1. Back(out) \in OutType
      <4>1. CASE out.back = "wait"
        <5>1. Back(out) = [out EXCEPT !.pc = "wait", !.back = "call", !.left = 0]
          BY <4>1 DEF Back
        <5> QED
          BY <1>0, <5>1 DEF OutType
      <4>2. CASE out.back # "wait"
        <5>1. Back(out) = [out EXCEPT !.pc = out.back, !.back = "call"]
          BY <1>0, <4>2 DEF Back, OutType
        <5> QED
          BY <1>0, <5>1 DEF OutType
      <4> QED
        BY <4>1, <4>2
    <3>2. [out EXCEPT !.pc = "or"] \in OutType /\ [out EXCEPT !.pc = "line"] \in OutType
      BY <1>0 DEF OutType
    <3> QED
      BY <1>4, <3>1, <3>2 DEF TxAsserts, AssertIrq, TypeOK
  <2> QED
    BY <1>4, <2>1, <2>2, ConsumerSteps DEF TxAsserts, TypeOK
<1>5. CASE TxWakes
  <2>1. out' \in OutType
    BY <1>0, <1>5 DEF TxWakes, OutType
  <2> QED
    BY <1>5, <2>1, ConsumerSteps DEF TxWakes, TypeOK
<1> QED
  BY <1>1, <1>2, <1>3, <1>4, <1>5, ConsumerSteps

LEMMA StepTypes == TypeOK /\ ChainType /\ [Next]_vars => TypeOK'
<1> SUFFICES ASSUME TypeOK, ChainType, [Next]_vars PROVE TypeOK'
  OBVIOUS
<1>1. ASSUME NEW v \in Vcpu, Runs(v) PROVE TypeOK'
  BY <1>1, ExitTypes, DriverTypes, Names DEF Runs
<1>2. ASSUME NEW v \in Vcpu, NEW q \in Q,
             \/ WriteQueueSel(v, q) \/ Offer(v, q) \/ WriteQueueAddress(v)
             \/ WriteQueueReady(v) \/ WriteDriverOk(v) \/ WriteReset(v)
             \/ TakeInterrupt(v) \/ WriteQueueNotify(v, q)
      PROVE  TypeOK'
  BY <1>2, DriverTypes
<1>3. CASE UNCHANGED vars
  BY <1>3 DEF TypeOK, vars, ghosts
<1> QED
  BY <1>1, <1>2, <1>3, MachineResetTypes, ProducerTypes, ConsumerTypes, Names DEF Next, Kick

(* What a reset has taken from a client is not given back. *)
LEMMA StrayStays == [Next]_vars /\ stray => stray'
<1> SUFFICES ASSUME [Next]_vars, stray PROVE stray'
  OBVIOUS
<1>1. ASSUME NEW v \in Vcpu, Runs(v) PROVE stray'
  BY <1>1
  DEF Runs, ConstructQueue, StatusChanged, TestAcknowledged, DeassertLine, ClearStatus,
      Notify, WriteInterruptAck, ScanUsed, Scan, Enter, wires, ghosts
<1>2. ASSUME NEW v \in Vcpu, NEW q \in Q,
             \/ WriteQueueSel(v, q) \/ Offer(v, q) \/ WriteQueueAddress(v)
             \/ WriteQueueReady(v) \/ WriteDriverOk(v) \/ WriteReset(v)
             \/ TakeInterrupt(v) \/ WriteQueueNotify(v, q)
      PROVE  stray'
  BY <1>2
  DEF WriteQueueSel, Offer, WriteQueueAddress, WriteQueueReady, WriteDriverOk, WriteReset,
      TakeInterrupt, WriteQueueNotify, Enter, wires, ghosts
<1>3. CASE MachineReset \/ UNCHANGED vars
  BY <1>3 DEF MachineReset, vars, ghosts
<1> QED
  BY <1>1, <1>2, <1>3, ProducerSteps, ConsumerSteps, Names DEF Next, Kick

-----------------------------------------------------------------------------
(* The set-up. *)

(* What a step leaves alone that does not touch the set-up. *)
LEMMA SetUpFrame ==
  ASSUME SetUpInv, TypeOK',
         dev'.status = dev.status, dev'.status_changed = dev.status_changed,
         \A q \in Q : constructed[q] => constructed'[q],
         driver_initialized' = driver_initialized,
         \A q \in Q : vq'[q].avail = vq[q].avail,
         in'.pc = in.pc, in'.head = in.head, out'.pc = out.pc, out'.head = out.head,
         stray => stray'
  PROVE  SetUpInv'
BY Names DEF SetUpInv, Ready

LEMMA ExitSetUp ==
  ASSUME TypeOK, TypeOK', SetUpInv, NEW v \in Vcpu,
         \/ ConstructQueue(v) \/ StatusChanged(v) \/ TestAcknowledged(v)
         \/ DeassertLine(v) \/ ClearStatus(v) \/ Notify(v)
  PROVE  SetUpInv'
<1>1. CASE ConstructQueue(v)
  <2>1. dev'.status = dev.status /\ dev'.status_changed = dev.status_changed
    BY <1>1 DEF ConstructQueue, TypeOK, Registers
  <2>2. \A q \in Q : constructed[q] => constructed'[q]
    BY <1>1 DEF ConstructQueue, TypeOK, Registers
  <2> QED
    BY <1>1, <2>1, <2>2, SetUpFrame DEF ConstructQueue, clients, wires, ghosts
<1>2. CASE StatusChanged(v)
  <2>1. UNCHANGED <<in, out>>
    BY <1>2 DEF StatusChanged, clients
  <2>2. CASE Resetting
    <3>1. dev' = Cleared /\ constructed' = [q \in Q |-> FALSE] /\ vq' = EmptyRings
      BY <1>2, <2>2 DEF StatusChanged
    <3>2. dev'.status = 0 /\ ~dev'.status_changed
      BY <3>1 DEF Cleared, ResetState
    <3>3. \A q \in Q : vq'[q].avail = <<>>
      BY <3>1 DEF EmptyRings
    <3>4. out.head = None \/ stray'
      BY <1>2, <2>2 DEF StatusChanged
    <3> QED
      BY <2>1, <3>2, <3>3, <3>4 DEF SetUpInv, DRIVER_OK
  <2>3. CASE ~Resetting
    <3>1. /\ dev'.status = dev.status /\ ~dev'.status_changed
          /\ driver_initialized' = (driver_initialized \/ dev.status_changed)
          /\ UNCHANGED <<constructed, vq, stray>>
      BY <1>2, <2>3 DEF StatusChanged, TypeOK, Registers
    <3> QED
      BY <2>1, <2>3, <3>1, Names DEF SetUpInv, Ready, TypeOK
  <2> QED
    BY <2>2, <2>3
<1>3. CASE TestAcknowledged(v)
  BY <1>3, SetUpFrame DEF TestAcknowledged, device, clients, wires, ghosts
<1>4. CASE DeassertLine(v)
  <2>1. dev'.status = dev.status /\ dev'.status_changed = dev.status_changed
    BY <1>4 DEF DeassertLine, TypeOK, Registers
  <2> QED
    BY <1>4, <2>1, SetUpFrame DEF DeassertLine, clients, ghosts
<1>5. CASE ClearStatus(v)
  <2>1. dev'.status = dev.status /\ dev'.status_changed = dev.status_changed
    BY <1>5 DEF ClearStatus, TypeOK, Registers
  <2> QED
    BY <1>5, <2>1, SetUpFrame DEF ClearStatus, clients, wires, ghosts
<1>6. CASE Notify(v)
  <2>1. dev'.status = dev.status /\ dev'.status_changed = dev.status_changed
    BY <1>6 DEF Notify, TypeOK, Registers
  <2> QED
    BY <1>6, <2>1, SetUpFrame DEF Notify, clients
<1> QED
  BY <1>1, <1>2, <1>3, <1>4, <1>5, <1>6

LEMMA DriverSetUp ==
  ASSUME TypeOK, TypeOK', SetUpInv, NEW v \in Vcpu, NEW q \in Q,
         \/ WriteQueueSel(v, q) \/ WriteQueueAddress(v) \/ WriteQueueReady(v)
         \/ WriteDriverOk(v) \/ WriteReset(v)
         \/ WriteQueueNotify(v, q) \/ WriteInterruptAck(v)
         \/ Offer(v, q) \/ TakeInterrupt(v) \/ ScanUsed(v)
  PROVE  SetUpInv'
<1>1. CASE WriteQueueSel(v, q) \/ WriteQueueAddress(v) \/ WriteQueueReady(v)
           \/ WriteQueueNotify(v, q) \/ WriteInterruptAck(v)
  <2>1. dev'.status = dev.status /\ dev'.status_changed = dev.status_changed
    BY <1>1 DEF WriteQueueSel, WriteQueueAddress, WriteQueueReady, WriteQueueNotify,
                WriteInterruptAck, Enter, TypeOK, Registers
  <2> QED
    BY <1>1, <2>1, SetUpFrame
    DEF WriteQueueSel, WriteQueueAddress, WriteQueueReady, WriteQueueNotify,
        WriteInterruptAck, Enter, clients, wires, ghosts
<1>2. CASE WriteDriverOk(v)
  <2>1. dev'.status = DRIVER_OK /\ dev'.status_changed /\ \A p \in Q : constructed[p]
    BY <1>2 DEF WriteDriverOk, Enter, TypeOK, Registers
  <2> QED
    BY <1>2, <2>1 DEF WriteDriverOk, Enter, clients, wires, ghosts, SetUpInv, Ready
<1>3. CASE WriteReset(v)
  <2>1. dev'.status = 0
    BY <1>3 DEF WriteReset, Enter, TypeOK, Registers
  <2> QED
    BY <1>3, <2>1 DEF WriteReset, Enter, clients, wires, ghosts, SetUpInv, Ready, DRIVER_OK
<1>4. CASE Offer(v, q)
  <2>1. \A p \in Q : Ready(p)
    BY <1>4 DEF Offer, SetUpInv, Ready
  <2> QED
    BY <1>4, <2>1 DEF Offer, device, clients, wires, ghosts, SetUpInv, Ready
<1>5. CASE TakeInterrupt(v)
  BY <1>5, SetUpFrame DEF TakeInterrupt, device, clients, wires, ghosts
<1>6. CASE ScanUsed(v)
  <2> SUFFICES ASSUME NEW p \in Q, NEW n, Scan(v, p, n) PROVE SetUpInv'
    BY <1>6, Names DEF ScanUsed
  <2>1. \A r \in Q : vq'[r].avail = vq[r].avail
    <3>1. vq' = vq \/ vq' = [vq EXCEPT ![p].used = Tail(vq[p].used)]
      BY DEF Scan
    <3>2. ASSUME vq' = [vq EXCEPT ![p].used = Tail(vq[p].used)], NEW r \in Q
          PROVE  vq'[r].avail = vq[r].avail
      BY <3>2, OneRing
    <3> QED
      BY <3>1, <3>2
  <2> QED
    BY <2>1, SetUpFrame DEF Scan, device, clients, wires, ghosts
<1> QED
  BY <1>1, <1>2, <1>3, <1>4, <1>5, <1>6

LEMMA MachineResetSetUp == TypeOK /\ SetUpInv /\ MachineReset => SetUpInv'
<1> SUFFICES ASSUME TypeOK, SetUpInv, MachineReset PROVE SetUpInv'
  OBVIOUS
<1>1. dev'.status = 0 /\ ~dev'.status_changed
  BY DEF MachineReset, Cleared, ResetState
<1>2. \A q \in Q : vq'[q].avail = <<>>
  BY DEF MachineReset, EmptyRings
<1>3. in'.head = None /\ out'.head = None
  BY DEF MachineReset, TypeOK, InType, OutType
<1> QED
  BY <1>1, <1>2, <1>3 DEF SetUpInv, DRIVER_OK

LEMMA ProducerSetUp == TypeOK /\ TypeOK' /\ SetUpInv /\ Producer => SetUpInv'
<1> SUFFICES ASSUME TypeOK, TypeOK', SetUpInv, Producer PROVE SetUpInv'
  OBVIOUS
<1>1. UNCHANGED <<constructed, driver_initialized, stray, out>>
  BY ProducerSteps
<1>2. dev'.status = dev.status /\ dev'.status_changed = dev.status_changed
  BY ProducerSteps
  DEF RxMoves, RxTakes, RxReturns, RxAsserts, RxWakes, AssertIrq, TypeOK, Registers
<1>3. \A q \in Q : vq'[q].avail # <<>> => vq[q].avail # <<>>
  <2>1. CASE RxTakes
    BY <2>1, RingTypes, Names DEF RxTakes, TypeOK, Rings
  <2>2. CASE RxReturns
    BY <2>2 DEF RxReturns, TypeOK, Rings
  <2> QED
    BY <2>1, <2>2, ProducerSteps DEF RxMoves, RxAsserts, RxWakes
<1>4. in'.head # None => in'.pc = "copy"
  <2>0. in \in InType
    BY DEF TypeOK
  <2>1. CASE RxMoves
    BY <2>0, <2>1 DEF RxMoves, InType, SetUpInv
  <2>2. CASE RxTakes
    BY <2>0, <2>2 DEF RxTakes, InType
  <2>3. CASE RxReturns
    BY <2>0, <2>3 DEF RxReturns, InType
  <2>4. CASE RxAsserts
    BY <2>0, <2>4 DEF RxAsserts, AssertIrq, Back, InType, SetUpInv
  <2>5. CASE RxWakes
    BY <2>0, <2>5 DEF RxWakes, InType, SetUpInv
  <2> QED
    BY <2>1, <2>2, <2>3, <2>4, <2>5, ProducerSteps
<1> QED
  BY <1>1, <1>2, <1>3, <1>4, Names DEF SetUpInv, Ready

LEMMA ConsumerSetUp == TypeOK /\ TypeOK' /\ SetUpInv /\ Consumer => SetUpInv'
<1> SUFFICES ASSUME TypeOK, TypeOK', SetUpInv, Consumer PROVE SetUpInv'
  OBVIOUS
<1>1. UNCHANGED <<constructed, driver_initialized, stray, in>>
  BY ConsumerSteps
<1>2. dev'.status = dev.status /\ dev'.status_changed = dev.status_changed
  BY ConsumerSteps
  DEF TxMoves, TxTakes, TxReturns, TxAsserts, TxWakes, AssertIrq, TypeOK, Registers
<1>3. \A q \in Q : vq'[q].avail # <<>> => vq[q].avail # <<>>
  <2>1. CASE TxTakes
    BY <2>1, RingTypes, Names DEF TxTakes, TypeOK, Rings
  <2>2. CASE TxReturns
    BY <2>2 DEF TxReturns, TypeOK, Rings
  <2> QED
    BY <2>1, <2>2, ConsumerSteps DEF TxMoves, TxAsserts, TxWakes
<1>4. out'.head # None => Ready("TX") \/ stray
  <2>0. out \in OutType
    BY DEF TypeOK
  <2>1. CASE TxMoves
    BY <2>0, <2>1 DEF TxMoves, OutType, SetUpInv
  <2>2. CASE TxTakes
    BY <2>2, Names DEF TxTakes, SetUpInv
  <2>3. CASE TxReturns
    BY <2>0, <2>3 DEF TxReturns, OutType
  <2>4. CASE TxAsserts
    BY <2>0, <2>4 DEF TxAsserts, AssertIrq, Back, OutType, SetUpInv
  <2>5. CASE TxWakes
    BY <2>0, <2>5 DEF TxWakes, OutType, SetUpInv
  <2> QED
    BY <2>1, <2>2, <2>3, <2>4, <2>5, ConsumerSteps
<1> QED
  BY <1>1, <1>2, <1>3, <1>4, Names DEF SetUpInv, Ready

LEMMA StepSetUp == TypeOK /\ TypeOK' /\ SetUpInv /\ [Next]_vars => SetUpInv'
<1> SUFFICES ASSUME TypeOK, TypeOK', SetUpInv, [Next]_vars PROVE SetUpInv'
  OBVIOUS
<1>1. ASSUME NEW v \in Vcpu, Runs(v) PROVE SetUpInv'
  BY <1>1, ExitSetUp, DriverSetUp, Names DEF Runs
<1>2. ASSUME NEW v \in Vcpu, NEW q \in Q,
             \/ WriteQueueSel(v, q) \/ Offer(v, q) \/ WriteQueueAddress(v)
             \/ WriteQueueReady(v) \/ WriteDriverOk(v) \/ WriteReset(v)
             \/ TakeInterrupt(v) \/ WriteQueueNotify(v, q)
      PROVE  SetUpInv'
  BY <1>2, DriverSetUp
<1>3. CASE UNCHANGED vars
  BY <1>3, SetUpFrame DEF vars, ghosts
<1> QED
  BY <1>1, <1>2, <1>3, MachineResetSetUp, ProducerSetUp, ConsumerSetUp, Names
  DEF Next, Kick

-----------------------------------------------------------------------------
(* The chains: those of a queue stay its own, *)

LEMMA RingKeeps ==
  ASSUME TypeOK, ChainType, NEW q \in Q, NEW s \in Seq(Heads(q)),
         \/ vq' = [vq EXCEPT ![q].avail = s]
         \/ vq' = [vq EXCEPT ![q].used = s],
         \A p \in Q : owns'[p] \subseteq Heads(p)
  PROVE  ChainType'
<1>1. \A p \in Q : /\ vq'[p].avail = vq[p].avail \/ (p = q /\ vq'[p].avail = s)
                   /\ vq'[p].used = vq[p].used \/ (p = q /\ vq'[p].used = s)
  <2>1. CASE vq' = [vq EXCEPT ![q].avail = s]
    BY <2>1, OneRing
  <2>2. CASE vq' = [vq EXCEPT ![q].used = s]
    BY <2>2, OneRing
  <2> QED
    BY <2>1, <2>2
<1> QED
  BY <1>1 DEF ChainType

LEMMA StepChainType == TypeOK /\ ChainType /\ [Next]_vars => ChainType'
<1> SUFFICES ASSUME TypeOK, ChainType, [Next]_vars PROVE ChainType'
  OBVIOUS
<1>1. ASSUME UNCHANGED <<vq, owns>> PROVE ChainType'
  BY <1>1 DEF ChainType
<1>2. ASSUME vq' = EmptyRings, owns' = [q \in Q |-> Heads(q)] PROVE ChainType'
  <2>1. \A q \in Q : vq'[q].avail = <<>> /\ vq'[q].used = <<>> /\ owns'[q] = Heads(q)
    BY <1>2 DEF EmptyRings
  <2>2. \A q \in Q : <<>> \in Seq(Heads(q))
    OBVIOUS
  <2> QED
    BY <2>1, <2>2 DEF ChainType
<1>3. ASSUME NEW v \in Vcpu, NEW q \in Q, Offer(v, q) PROVE ChainType'
  <2>1. PICK h \in owns[q] : /\ vq' = [vq EXCEPT ![q].avail = Append(vq[q].avail, h)]
                             /\ owns' = [owns EXCEPT ![q] = @ \ {h}]
    BY <1>3 DEF Offer
  <2>2. Append(vq[q].avail, h) \in Seq(Heads(q))
    BY DEF ChainType
  <2>3. \A p \in Q : owns'[p] \subseteq Heads(p)
    BY <2>1 DEF ChainType, TypeOK
  <2> QED
    BY <2>1, <2>2, <2>3, RingKeeps
<1>4. ASSUME NEW v \in Vcpu, NEW q \in Q, NEW n, Scan(v, q, n) PROVE ChainType'
  <2>1. CASE vq[q].used = <<>>
    BY <1>1, <1>4, <2>1 DEF Scan
  <2>2. CASE vq[q].used # <<>>
    <3>1. /\ vq' = [vq EXCEPT ![q].used = Tail(vq[q].used)]
          /\ owns' = [owns EXCEPT ![q] = @ \cup {Head(vq[q].used)}]
      BY <1>4, <2>2 DEF Scan
    <3>2. Tail(vq[q].used) \in Seq(Heads(q)) /\ Head(vq[q].used) \in Heads(q)
      BY <2>2 DEF ChainType
    <3>3. \A p \in Q : owns'[p] \subseteq Heads(p)
      BY <3>1, <3>2 DEF ChainType, TypeOK
    <3> QED
      BY <3>1, <3>2, <3>3, RingKeeps
  <2> QED
    BY <2>1, <2>2
<1>5. ASSUME NEW v \in Vcpu, Runs(v) PROVE ChainType'
  <2>1. CASE ScanUsed(v)
    BY <1>4, <2>1, Names DEF ScanUsed
  <2>2. CASE StatusChanged(v)
    BY <1>1, <1>2, <2>2 DEF StatusChanged
  <2> QED
    BY <1>1, <1>5, <2>1, <2>2
    DEF Runs, ConstructQueue, TestAcknowledged, DeassertLine, ClearStatus, Notify,
        WriteInterruptAck, Enter, driver
<1>6. ASSUME NEW v \in Vcpu, NEW q \in Q,
             \/ WriteQueueSel(v, q) \/ WriteQueueAddress(v)
             \/ WriteQueueReady(v) \/ WriteDriverOk(v) \/ WriteReset(v)
             \/ TakeInterrupt(v) \/ WriteQueueNotify(v, q)
      PROVE  ChainType'
  BY <1>1, <1>6
  DEF WriteQueueSel, WriteQueueAddress, WriteQueueReady, WriteDriverOk, WriteReset,
      TakeInterrupt, WriteQueueNotify, Enter, driver
<1>7. ASSUME NEW q \in Q, owns' = owns, vq[q].avail # <<>>,
             vq' = [vq EXCEPT ![q].avail = Tail(vq[q].avail)]
      PROVE  ChainType'
  <2>1. Tail(vq[q].avail) \in Seq(Heads(q)) /\ \A p \in Q : owns'[p] \subseteq Heads(p)
    BY <1>7 DEF ChainType
  <2> QED
    BY <1>7, <2>1, RingKeeps
<1>8. ASSUME NEW q \in Q, owns' = owns, NEW h \in Heads(q),
             vq' = [vq EXCEPT ![q].used = Append(vq[q].used, h)]
      PROVE  ChainType'
  <2>1. Append(vq[q].used, h) \in Seq(Heads(q)) /\ \A p \in Q : owns'[p] \subseteq Heads(p)
    BY <1>8 DEF ChainType
  <2> QED
    BY <1>8, <2>1, RingKeeps
<1>9. CASE Producer
  <2>0. owns' = owns /\ (in.head = None \/ in.head \in Heads("RX"))
    BY <1>9, ProducerSteps, Names DEF TypeOK, InType
  <2>1. CASE RxTakes
    BY <1>7, <2>0, <2>1, Names DEF RxTakes
  <2>2. CASE RxReturns
    BY <1>1, <1>8, <2>0, <2>2, Names DEF RxReturns
  <2> QED
    BY <1>1, <1>9, <2>0, <2>1, <2>2, ProducerSteps DEF RxMoves, RxAsserts, RxWakes
<1>10. CASE Consumer
  <2>0. owns' = owns /\ (out.head = None \/ out.head \in Heads("TX"))
    BY <1>10, ConsumerSteps, Names DEF TypeOK, OutType
  <2>1. CASE TxTakes
    BY <1>7, <2>0, <2>1, Names DEF TxTakes
  <2>2. CASE TxReturns
    BY <1>8, <2>0, <2>2, Names DEF TxReturns
  <2> QED
    BY <1>1, <1>10, <2>0, <2>1, <2>2, ConsumerSteps DEF TxMoves, TxAsserts, TxWakes
<1>11. CASE MachineReset
  BY <1>2, <1>11 DEF MachineReset
<1>12. CASE UNCHANGED vars
  BY <1>1, <1>12 DEF vars
<1> QED
  BY <1>3, <1>5, <1>6, <1>9, <1>10, <1>11, <1>12, Names DEF Next, Kick

(* and each of them is in one place. *)

LEMMA Appended ==
  ASSUME NEW S, NEW s \in Seq(S), NEW x \in S
  PROVE  /\ Append(s, x) \in Seq(S) /\ Len(Append(s, x)) = Len(s) + 1
         /\ \A i \in 1..(Len(s) + 1) : Append(s, x)[i] = IF i = Len(s) + 1 THEN x ELSE s[i]
OBVIOUS

LEMMA Beheaded ==
  ASSUME NEW S, NEW s \in Seq(S), s # <<>>
  PROVE  /\ Len(s) \in Nat /\ Len(s) >= 1 /\ Head(s) = s[1] /\ Head(s) \in S
         /\ Tail(s) \in Seq(S) /\ Len(Tail(s)) = Len(s) - 1
         /\ \A i \in 1..(Len(s) - 1) : Tail(s)[i] = s[i + 1]
OBVIOUS

LEMMA Offered ==
  ASSUME NEW S, NEW a \in Seq(S), NEW u \in Seq(S), NEW o \in SUBSET S, NEW h,
         Apart(a, u, o, h), NEW x \in o
  PROVE  Apart(Append(a, x), u, o \ {x}, h)
<1>1. x \in S
  OBVIOUS
<1> DEFINE b == Append(a, x)
<1>2. Len(b) = Len(a) + 1 /\ Len(a) \in Nat
  BY <1>1, Appended
<1>3. \A i \in 1..Len(b) : (i \in 1..Len(a) /\ b[i] = a[i]) \/ (i = Len(a) + 1 /\ b[i] = x)
  BY <1>1, <1>2, Appended
<1>4. \A i, j \in 1..Len(b) : b[i] = b[j] => i = j
  BY <1>3 DEF Apart
<1>5. \A i \in 1..Len(b), j \in 1..Len(u) : b[i] # u[j]
  BY <1>3 DEF Apart
<1>6. \A i \in 1..Len(b) : b[i] \notin o \ {x} /\ b[i] # h
  BY <1>3 DEF Apart
<1> QED
  BY <1>4, <1>5, <1>6 DEF Apart

LEMMA Taken ==
  ASSUME NEW S, NEW a \in Seq(S), NEW u \in Seq(S), NEW o \in SUBSET S,
         Apart(a, u, o, None), a # <<>>
  PROVE  Apart(Tail(a), u, o, Head(a))
<1> DEFINE b == Tail(a)
<1>1. Len(a) \in Nat /\ Len(b) = Len(a) - 1 /\ Len(a) >= 1 /\ Head(a) = a[1]
  BY Beheaded
<1>2. \A i \in 1..Len(b) : i + 1 \in 1..Len(a) /\ i + 1 # 1 /\ b[i] = a[i + 1]
  BY <1>1, Beheaded
<1>3. 1 \in 1..Len(a)
  BY <1>1
<1>4. \A i, j \in 1..Len(b) : b[i] = b[j] => i = j
  <2> SUFFICES ASSUME NEW i \in 1..Len(b), NEW j \in 1..Len(b), b[i] = b[j] PROVE i = j
    OBVIOUS
  <2>1. i + 1 = j + 1
    BY <1>2 DEF Apart
  <2> QED
    BY <2>1
<1>5. \A i \in 1..Len(b) : b[i] \notin o /\ b[i] # Head(a)
  BY <1>1, <1>2, <1>3 DEF Apart
<1>6. \A i \in 1..Len(b), j \in 1..Len(u) : b[i] # u[j]
  BY <1>2 DEF Apart
<1>7. (\A j \in 1..Len(u) : u[j] # Head(a)) /\ Head(a) \notin o
  BY <1>1, <1>3 DEF Apart
<1> QED
  BY <1>4, <1>5, <1>6, <1>7 DEF Apart

LEMMA Returned ==
  ASSUME NEW S, NEW a \in Seq(S), NEW u \in Seq(S), NEW o \in SUBSET S, NEW h \in S,
         Apart(a, u, o, h), None \notin S
  PROVE  Apart(a, Append(u, h), o, None)
<1> DEFINE b == Append(u, h)
<1>1. Len(b) = Len(u) + 1 /\ Len(u) \in Nat
  BY Appended
<1>2. \A i \in 1..Len(b) : (i \in 1..Len(u) /\ b[i] = u[i]) \/ (i = Len(u) + 1 /\ b[i] = h)
  BY <1>1, Appended
<1>3. \A i, j \in 1..Len(b) : b[i] = b[j] => i = j
  BY <1>2 DEF Apart
<1>4. \A i \in 1..Len(a), j \in 1..Len(b) : a[i] # b[j]
  BY <1>2 DEF Apart
<1>5. \A i \in 1..Len(b) : b[i] \notin o /\ b[i] # None
  <2>1. \A i \in 1..Len(u) : u[i] \in S
    OBVIOUS
  <2> QED
    BY <1>2, <2>1 DEF Apart
<1>6. \A i \in 1..Len(a) : a[i] # None
  OBVIOUS
<1> QED
  BY <1>3, <1>4, <1>5, <1>6 DEF Apart

LEMMA Collected ==
  ASSUME NEW S, NEW a \in Seq(S), NEW u \in Seq(S), NEW o \in SUBSET S, NEW h,
         Apart(a, u, o, h), u # <<>>
  PROVE  Apart(a, Tail(u), o \cup {Head(u)}, h)
<1> DEFINE b == Tail(u)
<1>1. Len(u) \in Nat /\ Len(b) = Len(u) - 1 /\ Len(u) >= 1 /\ Head(u) = u[1]
  BY Beheaded
<1>2. \A i \in 1..Len(b) : i + 1 \in 1..Len(u) /\ i + 1 # 1 /\ b[i] = u[i + 1]
  BY <1>1, Beheaded
<1>3. 1 \in 1..Len(u)
  BY <1>1
<1>4. \A i, j \in 1..Len(b) : b[i] = b[j] => i = j
  <2> SUFFICES ASSUME NEW i \in 1..Len(b), NEW j \in 1..Len(b), b[i] = b[j] PROVE i = j
    OBVIOUS
  <2>1. i + 1 = j + 1
    BY <1>2 DEF Apart
  <2> QED
    BY <2>1
<1>5. \A i \in 1..Len(b) : b[i] \notin o \cup {Head(u)} /\ b[i] # h
  BY <1>1, <1>2, <1>3 DEF Apart
<1>6. \A i \in 1..Len(a), j \in 1..Len(b) : a[i] # b[j]
  BY <1>2 DEF Apart
<1>7. (\A i \in 1..Len(a) : a[i] \notin o \cup {Head(u)}) /\ h \notin o \cup {Head(u)}
  BY <1>1, <1>3 DEF Apart
<1> QED
  BY <1>4, <1>5, <1>6, <1>7 DEF Apart

LEMMA Emptied ==
  ASSUME NEW S, NEW h, h \notin S
  PROVE  Apart(<<>>, <<>>, S, h)
BY DEF Apart

LEMMA ChainTypes ==
  ASSUME TypeOK, ChainType, ChainInv, NEW q \in Q
  PROVE  /\ vq[q].avail \in Seq(Heads(q)) /\ vq[q].used \in Seq(Heads(q))
         /\ owns[q] \in SUBSET Heads(q) /\ Holds(q) \in Heads(q) \cup {None}
         /\ Apart(vq[q].avail, vq[q].used, owns[q], Holds(q)) /\ None \notin Heads(q)
<1>1. Holds(q) \in Heads(q) \cup {None}
  BY Names DEF Holds, TypeOK, InType, OutType
<1> QED
  BY <1>1, Names DEF ChainType, ChainInv

LEMMA ChainFrame ==
  ASSUME ChainInv, UNCHANGED <<vq, owns>>, in'.head = in.head, out'.head = out.head
  PROVE  ChainInv'
BY DEF ChainInv, Holds

(* The driver offers a chain of its own. *)
LEMMA OfferChains ==
  ASSUME TypeOK, ChainType, ChainInv, NEW v \in Vcpu, NEW q \in Q, Offer(v, q)
  PROVE  ChainInv'
<1>1. PICK h \in owns[q] :
        /\ vq' = [vq EXCEPT ![q].avail = Append(vq[q].avail, h)]
        /\ owns' = [owns EXCEPT ![q] = @ \ {h}]
  BY DEF Offer
<1>2. UNCHANGED <<in, out>>
  BY DEF Offer, clients
<1> SUFFICES ASSUME NEW p \in Q
             PROVE  Apart(vq'[p].avail, vq'[p].used, owns'[p], Holds(p)')
  BY DEF ChainInv
<1>3. Holds(p)' = Holds(p)
  BY <1>2 DEF Holds
<1>4. vq'[p].used = vq[p].used
  BY <1>1, OneRing
<1>5. CASE p = q
  <2>1. vq'[p].avail = Append(vq[p].avail, h) /\ owns'[p] = owns[p] \ {h}
    BY <1>1, <1>5 DEF TypeOK, Rings
  <2>2. Apart(Append(vq[p].avail, h), vq[p].used, owns[p] \ {h}, Holds(p))
    BY <1>5, ChainTypes, Offered
  <2> QED
    BY <1>3, <1>4, <2>1, <2>2
<1>6. CASE p # q
  <2>1. vq'[p].avail = vq[p].avail /\ owns'[p] = owns[p]
    BY <1>1, <1>6, OneRing DEF TypeOK
  <2> QED
    BY <1>3, <1>4, <2>1 DEF ChainInv
<1> QED
  BY <1>5, <1>6

(* It collects one. *)
LEMMA CollectChains ==
  ASSUME TypeOK, ChainType, ChainInv, NEW v \in Vcpu, NEW q \in Q, NEW n, Scan(v, q, n)
  PROVE  ChainInv'
<1>1. UNCHANGED <<in, out>>
  BY DEF Scan, clients
<1>2. CASE vq[q].used = <<>>
  BY <1>1, <1>2, ChainFrame DEF Scan
<1>3. CASE vq[q].used # <<>>
  <2>1. /\ vq' = [vq EXCEPT ![q].used = Tail(vq[q].used)]
        /\ owns' = [owns EXCEPT ![q] = @ \cup {Head(vq[q].used)}]
    BY <1>3 DEF Scan
  <2> SUFFICES ASSUME NEW p \in Q
               PROVE  Apart(vq'[p].avail, vq'[p].used, owns'[p], Holds(p)')
    BY DEF ChainInv
  <2>2. Holds(p)' = Holds(p)
    BY <1>1 DEF Holds
  <2>3. vq'[p].avail = vq[p].avail
    BY <2>1, OneRing
  <2>4. CASE p = q
    <3>1. vq'[p].used = Tail(vq[p].used) /\ owns'[p] = owns[p] \cup {Head(vq[p].used)}
      BY <2>1, <2>4 DEF TypeOK, Rings
    <3>2. Apart(vq[p].avail, Tail(vq[p].used), owns[p] \cup {Head(vq[p].used)}, Holds(p))
      BY <1>3, <2>4, ChainTypes, Collected
    <3> QED
      BY <2>2, <2>3, <3>1, <3>2
  <2>5. CASE p # q
    <3>1. vq'[p].used = vq[p].used /\ owns'[p] = owns[p]
      BY <2>1, <2>5, OneRing DEF TypeOK
    <3> QED
      BY <2>2, <2>3, <3>1 DEF ChainInv
  <2> QED
    BY <2>4, <2>5
<1> QED
  BY <1>2, <1>3

(* A reset gives every chain back. *)
LEMMA ResetChains ==
  ASSUME vq' = EmptyRings, owns' = [q \in Q |-> Heads(q)],
         in'.head = None, out'.head = None
  PROVE  ChainInv'
<1> SUFFICES ASSUME NEW q \in Q
             PROVE  Apart(vq'[q].avail, vq'[q].used, owns'[q], Holds(q)')
  BY DEF ChainInv
<1>1. vq'[q].avail = <<>> /\ vq'[q].used = <<>> /\ owns'[q] = Heads(q)
  BY DEF EmptyRings
<1>2. Holds(q)' = None /\ None \notin Heads(q)
  BY Names DEF Holds
<1> QED
  BY <1>1, <1>2, Emptied

(* A client takes the next chain, and returns the one it holds. *)
LEMMA TakeChains ==
  ASSUME TypeOK, ChainType, ChainInv, NEW q \in Q, vq[q].avail # <<>>, Holds(q) = None,
         vq' = [vq EXCEPT ![q].avail = Tail(vq[q].avail)], owns' = owns,
         Holds(q)' = Head(vq[q].avail), \A p \in Q : p # q => Holds(p)' = Holds(p)
  PROVE  ChainInv'
<1> SUFFICES ASSUME NEW p \in Q
             PROVE  Apart(vq'[p].avail, vq'[p].used, owns'[p], Holds(p)')
  BY DEF ChainInv
<1>1. vq'[p].used = vq[p].used
  BY OneRing
<1>2. CASE p = q
  <2>1. vq'[p].avail = Tail(vq[p].avail)
    BY <1>2 DEF TypeOK, Rings
  <2>2. Apart(Tail(vq[p].avail), vq[p].used, owns[p], Head(vq[p].avail))
    BY <1>2, ChainTypes, Taken
  <2> QED
    BY <1>1, <1>2, <2>1, <2>2
<1>3. CASE p # q
  <2>1. vq'[p].avail = vq[p].avail /\ Holds(p)' = Holds(p)
    BY <1>3, OneRing
  <2> QED
    BY <1>1, <2>1 DEF ChainInv
<1> QED
  BY <1>2, <1>3

LEMMA ReturnChains ==
  ASSUME TypeOK, ChainType, ChainInv, NEW q \in Q, Holds(q) # None,
         vq' = [vq EXCEPT ![q].used = Append(vq[q].used, Holds(q))], owns' = owns,
         Holds(q)' = None, \A p \in Q : p # q => Holds(p)' = Holds(p)
  PROVE  ChainInv'
<1> SUFFICES ASSUME NEW p \in Q
             PROVE  Apart(vq'[p].avail, vq'[p].used, owns'[p], Holds(p)')
  BY DEF ChainInv
<1>1. vq'[p].avail = vq[p].avail
  BY OneRing
<1>2. CASE p = q
  <2>1. vq'[p].used = Append(vq[p].used, Holds(p)) /\ Holds(p) \in Heads(p)
    BY <1>2, ChainTypes DEF TypeOK, Rings
  <2>2. Apart(vq[p].avail, Append(vq[p].used, Holds(p)), owns[p], None)
    BY <1>2, <2>1, ChainTypes, Returned
  <2> QED
    BY <1>1, <1>2, <2>1, <2>2
<1>3. CASE p # q
  <2>1. vq'[p].used = vq[p].used /\ Holds(p)' = Holds(p)
    BY <1>3, OneRing
  <2> QED
    BY <1>1, <2>1 DEF ChainInv
<1> QED
  BY <1>2, <1>3

LEMMA StepChains ==
  ASSUME TypeOK, ChainType, SetUpInv, ChainInv, [Next]_vars, ~stray'
  PROVE  ChainInv'
<1>1. ASSUME NEW v \in Vcpu, StatusChanged(v) PROVE ChainInv'
  <2>1. UNCHANGED <<in, out>>
    BY <1>1 DEF StatusChanged, clients
  <2>2. CASE Resetting
    <3>1. in.head = None /\ out.head = None
      BY <1>1, <2>2 DEF StatusChanged, Inside, SetUpInv
    <3> QED
      BY <1>1, <2>1, <2>2, <3>1, ResetChains DEF StatusChanged
  <2>3. CASE ~Resetting
    BY <1>1, <2>1, <2>3, ChainFrame DEF StatusChanged
  <2> QED
    BY <2>2, <2>3
<1>2. ASSUME NEW v \in Vcpu, ScanUsed(v) PROVE ChainInv'
  BY <1>2, CollectChains, Names DEF ScanUsed
<1>3. ASSUME NEW v \in Vcpu, Runs(v), ~StatusChanged(v), ~ScanUsed(v) PROVE ChainInv'
  BY <1>3, ChainFrame
  DEF Runs, ConstructQueue, TestAcknowledged, DeassertLine, ClearStatus, Notify,
      WriteInterruptAck, Enter, driver, clients
<1>4. ASSUME NEW v \in Vcpu, NEW q \in Q, Offer(v, q) PROVE ChainInv'
  BY <1>4, OfferChains
<1>5. ASSUME NEW v \in Vcpu, NEW q \in Q,
             \/ WriteQueueSel(v, q) \/ WriteQueueAddress(v)
             \/ WriteQueueReady(v) \/ WriteDriverOk(v) \/ WriteReset(v)
             \/ TakeInterrupt(v) \/ WriteQueueNotify(v, q)
      PROVE  ChainInv'
  BY <1>5, ChainFrame
  DEF WriteQueueSel, WriteQueueAddress, WriteQueueReady, WriteDriverOk, WriteReset,
      TakeInterrupt, WriteQueueNotify, Enter, driver, clients
<1>6. CASE MachineReset
  <2>1. in'.head = None
    BY <1>6 DEF MachineReset, TypeOK, InType
  <2>2. out'.head = None
    BY <1>6 DEF MachineReset, TypeOK, OutType
  <2> QED
    BY <1>6, <2>1, <2>2, ResetChains DEF MachineReset
<1>7. CASE Producer
  <2>0. in \in InType /\ owns' = owns /\ out' = out
    BY <1>7, ProducerSteps DEF TypeOK
  <2>1. Holds("RX") = in.head /\ Holds("RX")' = in'.head /\ Holds("TX")' = Holds("TX")
    BY <2>0 DEF Holds
  <2>2. CASE RxTakes
    <3>1. in'.head = Head(vq["RX"].avail) /\ in.head = None
      BY <2>0, <2>2 DEF RxTakes, InType, SetUpInv
    <3> QED
      BY <2>0, <2>1, <2>2, <3>1, TakeChains, Names DEF RxTakes
  <2>3. CASE RxReturns
    <3>1. in'.head = None
      BY <2>0, <2>3 DEF RxReturns, InType
    <3>2. CASE in.head = None
      BY <2>0, <2>3, <3>1, <3>2, ChainFrame DEF RxReturns
    <3>3. CASE in.head # None
      BY <2>0, <2>1, <2>3, <3>1, <3>3, ReturnChains, Names DEF RxReturns
    <3> QED
      BY <3>2, <3>3
  <2>4. CASE RxMoves \/ RxAsserts \/ RxWakes
    <3>1. in'.head = in.head
      BY <2>0, <2>4 DEF RxMoves, RxAsserts, RxWakes, AssertIrq, Back, InType
    <3> QED
      BY <2>0, <2>4, <3>1, ChainFrame DEF RxMoves, RxAsserts, RxWakes
  <2> QED
    BY <1>7, <2>2, <2>3, <2>4, ProducerSteps
<1>8. CASE Consumer
  <2>0. out \in OutType /\ owns' = owns /\ in' = in
    BY <1>8, ConsumerSteps DEF TypeOK
  <2>1. Holds("TX") = out.head /\ Holds("TX")' = out'.head /\ Holds("RX")' = Holds("RX")
    BY <2>0 DEF Holds
  <2>2. CASE TxTakes
    <3>1. out'.head = Head(vq["TX"].avail) /\ out.head = None
      BY <2>0, <2>2 DEF TxTakes, OutType
    <3> QED
      BY <2>0, <2>1, <2>2, <3>1, TakeChains, Names DEF TxTakes
  <2>3. CASE TxReturns
    <3>1. out'.head = None /\ out.head # None
      BY <2>0, <2>3 DEF TxReturns, OutType
    <3> QED
      BY <2>0, <2>1, <2>3, <3>1, ReturnChains, Names DEF TxReturns
  <2>4. CASE TxMoves \/ TxAsserts \/ TxWakes
    <3>1. out'.head = out.head
      BY <2>0, <2>4 DEF TxMoves, TxAsserts, TxWakes, AssertIrq, Back, OutType
    <3> QED
      BY <2>0, <2>4, <3>1, ChainFrame DEF TxMoves, TxAsserts, TxWakes
  <2> QED
    BY <1>8, <2>2, <2>3, <2>4, ConsumerSteps
<1>9. CASE UNCHANGED vars
  BY <1>9, ChainFrame DEF vars
<1>10. ASSUME NEW v \in Vcpu, Runs(v) PROVE ChainInv'
  BY <1>1, <1>2, <1>3, <1>10
<1> QED
  BY <1>4, <1>5, <1>6, <1>7, <1>8, <1>9, <1>10, Names DEF Next, Kick

-----------------------------------------------------------------------------
(* The interrupt line. *)

IrqFlag == dev.irq_acknowledged =>
  \E v \in Vcpu : Acknowledges(v) /\ pc[v] \notin {"clear", "notify"}
IrqTaken == late \/ \A w \in Vcpu : Deasserts(w) => \E v \in Vcpu : Acknowledges(v)
IrqStatus == dev.irq_status => \/ line \/ in.pc = "line" \/ out.pc = "line"
                               \/ \E w \in Vcpu : pc[w] = "clear"
IrqUsed == \A q \in Q : vq[q].used # <<>> =>
  late \/ line \/ Asserting(in) \/ Asserting(out) \/ Scans(q)

LEMMA IrqParts == IrqInv <=> IrqFlag /\ IrqTaken /\ IrqStatus /\ IrqUsed
BY DEF IrqInv, IrqFlag, IrqTaken, IrqStatus, IrqUsed

(* A VCPU goes on in handle_events: the acknowledgement stays its own. *)
LEMMA ExitFlag ==
  ASSUME TypeOK, IrqInv, NEW v \in Vcpu, NEW p, pc' = [pc EXCEPT ![v] = p],
         p \notin {"idle", "clear", "notify"}, guest' = guest,
         dev'.irq_acknowledged => dev.irq_acknowledged
  PROVE  IrqFlag'
BY DEF IrqFlag, IrqInv, Acknowledges, TypeOK

LEMMA ExitTaken ==
  ASSUME TypeOK, IrqInv, NEW v \in Vcpu, NEW p, pc' = [pc EXCEPT ![v] = p],
         p # "idle", pc[v] # "idle", guest' = guest, late' = late,
         p \in {"lower", "clear"} => Deasserts(v) \/ dev.irq_acknowledged
  PROVE  IrqTaken'
<1> SUFFICES ASSUME ~late, NEW w \in Vcpu, Deasserts(w)'
             PROVE  \E u \in Vcpu : Acknowledges(u)'
  BY DEF IrqTaken
<1>1. \E u \in Vcpu : Acknowledges(u)
  <2>1. CASE w = v
    BY <2>1 DEF IrqInv, Deasserts, TypeOK
  <2>2. CASE w # v
    BY <2>2 DEF IrqInv, Deasserts, TypeOK
  <2> QED
    BY <2>1, <2>2
<1> QED
  BY <1>1 DEF Acknowledges, TypeOK

(* Exits begin: none of the registers of the interrupt is written but the  *)
(* acknowledgement.                                                        *)
LEMMA EnterPc ==
  ASSUME TypeOK, NEW v \in Vcpu, NEW d, Enter(v, d)
  PROVE  /\ pc[v] = "idle" /\ pc'[v] \in {"construct", "status", "ack"}
         /\ \A w \in Vcpu : w # v => pc'[w] = pc[w]
         /\ dev' = d /\ UNCHANGED <<vq, line, late, in, out>>
<1>1. FirstEvent(d) \in {"construct", "status", "ack"}
  BY DEF FirstEvent
<1> QED
  BY <1>1 DEF Enter, TypeOK, wires, ghosts, ghosts, clients

LEMMA EnterIrq ==
  ASSUME TypeOK, IrqInv, NEW v \in Vcpu, Enter(v, dev'),
         dev'.irq_acknowledged = dev.irq_acknowledged, dev'.irq_status = dev.irq_status,
         guest[v] \in {"run", "kickRX", "kickTX"},
         \A w \in Vcpu : guest'[w] = guest[w] \/ guest[w] \in {"kickRX", "kickTX"}
  PROVE  IrqInv'
<1>1. /\ pc[v] = "idle" /\ pc'[v] \in {"construct", "status", "ack"}
      /\ \A w \in Vcpu : w # v => pc'[w] = pc[w]
      /\ UNCHANGED <<vq, line, late, in, out>>
  BY EnterPc
<1>2. \A w \in Vcpu : Acknowledges(w) => Acknowledges(w)' /\ pc'[w] = pc[w]
  BY <1>1 DEF Acknowledges
<1>3. \A w \in Vcpu : Deasserts(w)' => Deasserts(w)
  BY <1>1 DEF Deasserts
<1>4. IrqFlag'
  BY <1>2, IrqParts DEF IrqFlag
<1>5. IrqTaken'
  BY <1>1, <1>2, <1>3, IrqParts DEF IrqTaken
<1>6. IrqStatus'
  BY <1>1, IrqParts DEF IrqStatus
<1>7. \A q \in Q : Scans(q) => Scans(q)'
  BY DEF Scans
<1>8. IrqUsed'
  BY <1>1, <1>7, IrqParts DEF IrqUsed, Asserting
<1> QED
  BY <1>4, <1>5, <1>6, <1>8, IrqParts DEF IrqInv, IrqFlag, IrqTaken, IrqStatus, IrqUsed

LEMMA AckIrq ==
  ASSUME TypeOK, IrqInv, NEW v \in Vcpu, WriteInterruptAck(v)
  PROVE  IrqInv'
<1>1. /\ pc[v] = "idle" /\ pc'[v] \in {"construct", "status", "ack"}
      /\ \A w \in Vcpu : w # v => pc'[w] = pc[w]
      /\ UNCHANGED <<vq, line, late, in, out>>
      /\ dev' = [dev EXCEPT !.irq_acknowledged = TRUE]
  BY EnterPc DEF WriteInterruptAck
<1>2. dev'.irq_status = dev.irq_status
  BY <1>1 DEF TypeOK, Registers
<1>3. guest'[v] = "scanRX" /\ \A w \in Vcpu : w # v => guest'[w] = guest[w]
  BY DEF WriteInterruptAck, TypeOK
<1>4. Acknowledges(v)' /\ pc'[v] \notin {"clear", "notify"}
  BY <1>1, <1>3 DEF Acknowledges
<1>5. IrqStatus'
  BY <1>1, <1>2, IrqParts DEF IrqStatus
<1>6. \A q \in Q : Scans(q)'
  BY <1>3 DEF Scans
<1> QED
  BY <1>4, <1>5, <1>6 DEF IrqInv, IrqStatus

(* handle_events. *)
LEMMA ExitIrq ==
  ASSUME TypeOK, IrqInv, NEW v \in Vcpu,
         \/ ConstructQueue(v) \/ StatusChanged(v) \/ TestAcknowledged(v)
         \/ DeassertLine(v) \/ ClearStatus(v) \/ Notify(v)
  PROVE  IrqInv'
<1> USE DEF At
<1>0. /\ UNCHANGED <<guest, in, out>>
      /\ \A w \in Vcpu : w # v => pc'[w] = pc[w]
  BY DEF ConstructQueue, StatusChanged, TestAcknowledged, DeassertLine, ClearStatus,
         Notify, driver, clients, TypeOK
<1>1. CASE ConstructQueue(v) \/ StatusChanged(v)
  <2>1. /\ UNCHANGED <<late, line>> /\ pc[v] \in {"construct", "status"}
        /\ \E p \in {"status", "ack"} : pc' = [pc EXCEPT ![v] = p]
    BY <1>1 DEF ConstructQueue, StatusChanged, wires, ghosts
  <2>2. /\ dev'.irq_acknowledged = dev.irq_acknowledged
        /\ dev'.irq_status => dev.irq_status
        /\ \A q \in Q : vq'[q].used # <<>> => vq[q].used # <<>>
    <3>1. CASE ConstructQueue(v)
      BY <3>1 DEF ConstructQueue, TypeOK, Registers
    <3>2. CASE StatusChanged(v) /\ Resetting
      BY <3>2, ClearedFields DEF StatusChanged, EmptyRings
    <3>3. CASE StatusChanged(v) /\ ~Resetting
      BY <3>3 DEF StatusChanged, TypeOK, Registers
    <3> QED
      BY <1>1, <3>1, <3>2, <3>3
  <2>3. IrqFlag'
    BY <1>0, <2>1, <2>2, ExitFlag
  <2>4. IrqTaken'
    BY <1>0, <2>1, ExitTaken
  <2>5. IrqStatus'
    <3>1. \A w \in Vcpu : pc[w] = "clear" => pc'[w] = "clear"
      BY <1>0, <2>1
    <3> QED
      BY <1>0, <2>1, <2>2, <3>1, IrqParts DEF IrqStatus
  <2>6. IrqUsed'
    BY <1>0, <2>1, <2>2, IrqParts DEF IrqUsed, Asserting, Scans
  <2> QED
    BY <2>3, <2>4, <2>5, <2>6 DEF IrqInv, IrqFlag, IrqTaken, IrqStatus, IrqUsed
<1>2. CASE TestAcknowledged(v)
  <2>1. UNCHANGED <<dev, vq, late, line>> /\ pc[v] = "ack"
    BY <1>2 DEF TestAcknowledged, device, wires, ghosts
  <2>2. IrqFlag'
    <3>1. CASE dev.irq_acknowledged
      BY <1>0, <1>2, <2>1, <3>1, ExitFlag DEF TestAcknowledged
    <3>2. CASE ~dev.irq_acknowledged
      BY <2>1, <3>2 DEF IrqFlag
    <3> QED
      BY <3>1, <3>2
  <2>3. IrqTaken'
    <3>1. CASE dev.irq_acknowledged
      BY <1>0, <1>2, <2>1, <3>1, ExitTaken DEF TestAcknowledged
    <3>2. CASE ~dev.irq_acknowledged
      BY <1>0, <1>2, <2>1, <3>2, ExitTaken DEF TestAcknowledged
    <3> QED
      BY <3>1, <3>2
  <2>4. IrqStatus'
    <3>1. \A w \in Vcpu : pc[w] = "clear" => pc'[w] = "clear"
      BY <1>0, <2>1
    <3> QED
      BY <1>0, <2>1, <3>1, IrqParts DEF IrqStatus
  <2>5. IrqUsed'
    BY <1>0, <2>1, IrqParts DEF IrqUsed, Asserting, Scans
  <2> QED
    BY <2>2, <2>3, <2>4, <2>5 DEF IrqInv, IrqFlag, IrqTaken, IrqStatus, IrqUsed
<1>3. CASE DeassertLine(v)
  <2>1. /\ UNCHANGED <<vq, late>> /\ pc[v] = "lower" /\ pc' = [pc EXCEPT ![v] = "clear"]
        /\ ~dev'.irq_acknowledged
    BY <1>3 DEF DeassertLine, ghosts, TypeOK, Registers
  <2>2. IrqTaken'
    BY <1>0, <2>1, ExitTaken DEF Deasserts
  <2>3. pc'[v] = "clear"
    BY <2>1 DEF TypeOK
  <2>4. late \/ \A q \in Q : Scans(q)
    BY <2>1 DEF IrqInv, Deasserts, Acknowledges, Scans
  <2>5. IrqUsed'
    BY <1>0, <2>1, <2>4 DEF IrqUsed, Scans
  <2> QED
    BY <2>1, <2>2, <2>3, <2>5 DEF IrqInv, IrqTaken, IrqUsed
<1>4. CASE ClearStatus(v)
  <2>1. /\ UNCHANGED <<vq, late, line>> /\ pc[v] = "clear" /\ pc' = [pc EXCEPT ![v] = "notify"]
        /\ ~dev'.irq_status /\ dev'.irq_acknowledged = dev.irq_acknowledged
    BY <1>4 DEF ClearStatus, wires, ghosts, TypeOK, Registers
  <2>2. IrqFlag'
    BY <1>0, <2>1 DEF IrqInv, IrqFlag, Acknowledges
  <2>3. IrqTaken'
    BY <1>0, <2>1, ExitTaken
  <2>4. IrqUsed'
    BY <1>0, <2>1, IrqParts DEF IrqUsed, Asserting, Scans
  <2> QED
    BY <2>1, <2>2, <2>3, <2>4 DEF IrqInv, IrqFlag, IrqTaken, IrqUsed
<1>5. CASE Notify(v)
  <2>1. /\ UNCHANGED <<vq, line>> /\ pc[v] = "notify" /\ pc'[v] = "idle"
        /\ late' = (late \/ Overtakes(v))
        /\ dev'.irq_status = dev.irq_status /\ dev'.irq_acknowledged = dev.irq_acknowledged
    BY <1>5 DEF Notify, TypeOK, Registers
  <2>2. IrqFlag'
    BY <1>0, <2>1 DEF IrqInv, IrqFlag, Acknowledges
  <2>3. IrqTaken'
    <3> SUFFICES ASSUME ~late', NEW w \in Vcpu, Deasserts(w)'
                 PROVE  \E u \in Vcpu : Acknowledges(u)'
      BY DEF IrqTaken
    <3>1. Deasserts(w)
      BY <1>0, <2>1 DEF Deasserts
    <3>2. PICK u \in Vcpu : Acknowledges(u)
      BY <2>1, <3>1 DEF IrqInv
    <3>3. u # v
      BY <2>1, <3>1, <3>2 DEF Overtakes, Deasserts, Acknowledges
    <3> QED
      BY <1>0, <3>2, <3>3 DEF Acknowledges
  <2>4. IrqStatus'
    <3>1. \A w \in Vcpu : pc[w] = "clear" => pc'[w] = "clear"
      BY <1>0, <2>1
    <3> QED
      BY <1>0, <2>1, <3>1, IrqParts DEF IrqStatus
  <2>5. IrqUsed'
    BY <1>0, <2>1, IrqParts DEF IrqUsed, Asserting, Scans
  <2> QED
    BY <2>2, <2>3, <2>4, <2>5 DEF IrqInv, IrqFlag, IrqTaken, IrqStatus, IrqUsed
<1> QED
  BY <1>1, <1>2, <1>3, <1>4, <1>5

LEMMA DriverIrq ==
  ASSUME TypeOK, IrqInv, NEW v \in Vcpu, NEW q \in Q,
         \/ WriteQueueSel(v, q) \/ WriteQueueAddress(v) \/ WriteQueueReady(v)
         \/ WriteDriverOk(v) \/ WriteReset(v) \/ WriteQueueNotify(v, q)
         \/ Offer(v, q) \/ TakeInterrupt(v) \/ ScanUsed(v)
  PROVE  IrqInv'
<1>1. CASE WriteQueueSel(v, q) \/ WriteQueueAddress(v) \/ WriteQueueReady(v)
           \/ WriteDriverOk(v) \/ WriteReset(v)
  <2>1. Enter(v, dev') /\ guest' = guest /\ guest[v] = "run"
    BY <1>1 DEF WriteQueueSel, WriteQueueAddress, WriteQueueReady, WriteDriverOk,
                WriteReset, SetsUp, Enter, driver
  <2>2. /\ dev'.irq_acknowledged = dev.irq_acknowledged
        /\ dev'.irq_status = dev.irq_status
    BY <1>1 DEF WriteQueueSel, WriteQueueAddress, WriteQueueReady, WriteDriverOk,
                WriteReset, Enter, TypeOK, Registers
  <2> QED
    BY <2>1, <2>2, EnterIrq
<1>2. CASE WriteQueueNotify(v, q)
  <2>1. Enter(v, dev') /\ guest[v] \in {"kickRX", "kickTX"}
        /\ \A w \in Vcpu : guest'[w] = guest[w] \/ guest[w] \in {"kickRX", "kickTX"}
    BY <1>2 DEF WriteQueueNotify, Enter, KickOf, TypeOK
  <2>2. /\ dev'.irq_acknowledged = dev.irq_acknowledged
        /\ dev'.irq_status = dev.irq_status
    BY <1>2 DEF WriteQueueNotify, Enter, TypeOK, Registers
  <2> QED
    BY <2>1, <2>2, EnterIrq
<1>3. CASE Offer(v, q) \/ TakeInterrupt(v)
  <2>1. /\ UNCHANGED <<dev, line, late, pc, in, out>>
        /\ \A p \in Q : vq'[p].used = vq[p].used
    <3>1. CASE Offer(v, q)
      <4>1. PICK h \in owns[q] : vq' = [vq EXCEPT ![q].avail = Append(vq[q].avail, h)]
        BY <3>1 DEF Offer
      <4> QED
        BY <3>1, <4>1, OneRing DEF Offer, device, wires, ghosts, clients
    <3>2. CASE TakeInterrupt(v)
      BY <3>2 DEF TakeInterrupt, device, wires, ghosts, clients
    <3> QED
      BY <1>3, <3>1, <3>2
  <2>2. \A w \in Vcpu : guest[w] \in {"interrupt", "scanRX", "scanTX"} => guest'[w] = guest[w]
    BY <1>3 DEF Offer, TakeInterrupt, KickOf, TypeOK
  <2>3. \A w \in Vcpu : Acknowledges(w) => Acknowledges(w)'
    BY <2>1, <2>2 DEF Acknowledges
  <2>4. \A p \in Q : Scans(p) => Scans(p)'
    BY <2>2 DEF Scans
  <2>5. IrqFlag' /\ IrqTaken' /\ IrqStatus'
    BY <2>1, <2>3, IrqParts DEF IrqFlag, IrqTaken, IrqStatus, Deasserts
  <2>6. IrqUsed'
    BY <2>1, <2>4, IrqParts DEF IrqUsed, Asserting
  <2> QED
    BY <2>5, <2>6 DEF IrqInv, IrqFlag, IrqTaken, IrqStatus, IrqUsed
<1>4. ASSUME NEW r \in Q, NEW n, Scan(v, r, n),
             (r = "RX" /\ n = "scanTX") \/ (r = "TX" /\ n = "run")
      PROVE  IrqInv'
  <2>1. /\ UNCHANGED <<dev, line, late, pc, in, out>>
        /\ pc[v] = "idle" /\ guest[v] = ScanOf(r)
    BY <1>4 DEF Scan, device, wires, ghosts, clients
  <2>2. \A w \in Vcpu : w # v => guest'[w] = guest[w]
    BY <1>4 DEF Scan, TypeOK
  <2>3. \A w \in Vcpu : Acknowledges(w) => Acknowledges(w)'
    BY <2>1, <2>2 DEF Acknowledges
  <2>4. IrqFlag' /\ IrqTaken' /\ IrqStatus'
    BY <2>1, <2>3, IrqParts DEF IrqFlag, IrqTaken, IrqStatus, Deasserts
  <2>5. CASE vq[r].used = <<>>
    <3>1. vq' = vq /\ guest'[v] = n
      BY <1>4, <2>5 DEF Scan, TypeOK
    <3>2. \A p \in Q : vq[p].used # <<>> /\ Scans(p) => Scans(p)'
      BY <1>4, <2>1, <2>2, <2>5, <3>1, Names DEF Scans, ScanOf
    <3>3. IrqUsed'
      BY <2>1, <3>1, <3>2, IrqParts DEF IrqUsed, Asserting
    <3> QED
      BY <2>4, <3>3 DEF IrqInv, IrqFlag, IrqTaken, IrqStatus, IrqUsed
  <2>6. CASE vq[r].used # <<>>
    <3>1. vq' = [vq EXCEPT ![r].used = Tail(vq[r].used)] /\ guest' = guest
      BY <1>4, <2>6 DEF Scan
    <3>2. \A p \in Q : vq'[p].used # <<>> => vq[p].used # <<>>
      BY <2>6, <3>1, OneRing
    <3>3. IrqUsed'
      BY <2>1, <3>1, <3>2, IrqParts DEF IrqUsed, Asserting, Scans
    <3> QED
      BY <2>4, <3>3 DEF IrqInv, IrqFlag, IrqTaken, IrqStatus, IrqUsed
  <2> QED
    BY <2>5, <2>6
<1>5. CASE ScanUsed(v)
  <2>1. CASE Scan(v, "RX", "scanTX")
    BY <1>4, <2>1, Names
  <2>2. CASE Scan(v, "TX", "run")
    BY <1>4, <2>2, Names
  <2> QED
    BY <1>5, <2>1, <2>2 DEF ScanUsed
<1> QED
  BY <1>1, <1>2, <1>3, <1>5

LEMMA MachineResetIrq == TypeOK /\ IrqInv /\ MachineReset => IrqInv'
<1> SUFFICES ASSUME TypeOK, IrqInv, MachineReset PROVE IrqInv'
  OBVIOUS
<1>1. \A v \in Vcpu : pc[v] = "idle"
  BY DEF MachineReset
<1>2. pc' = pc /\ \A q \in Q : vq'[q].used = <<>>
  BY DEF MachineReset, EmptyRings
<1>3. ~dev'.irq_acknowledged /\ ~dev'.irq_status
  BY <1>1, ClearedFields DEF MachineReset, IrqInv, Acknowledges
<1> QED
  BY <1>1, <1>2, <1>3 DEF IrqInv, Deasserts

(* A client: t is its record, and the other client does not move. *)
LEMMA ClientIrq ==
  ASSUME IrqInv, UNCHANGED <<late, pc, guest>>,
         dev'.irq_acknowledged = dev.irq_acknowledged, IrqStatus', IrqUsed'
  PROVE  IrqInv'
<1>1. IrqFlag' /\ IrqTaken'
  BY IrqParts DEF IrqFlag, IrqTaken, Acknowledges, Deasserts
<1> QED
  BY <1>1 DEF IrqInv, IrqFlag, IrqTaken, IrqStatus, IrqUsed

(* With the status bit up, the line is up, or about to be, or its handler  *)
(* still to come.                                                          *)
LEMMA StatusHolds ==
  ASSUME IrqInv, dev.irq_status, NEW q \in Q
  PROVE  late \/ line \/ in.pc = "line" \/ out.pc = "line" \/ Scans(q)
BY DEF IrqInv, Deasserts, Acknowledges, Scans

LEMMA ProducerIrq == TypeOK /\ IrqInv /\ Producer => IrqInv'
<1> SUFFICES ASSUME TypeOK, IrqInv, Producer PROVE IrqInv'
  OBVIOUS
<1>0. UNCHANGED <<late, pc, guest, out>> /\ in \in InType
  BY ProducerSteps DEF TypeOK
<1>1. dev'.irq_acknowledged = dev.irq_acknowledged
  BY ProducerSteps
  DEF RxMoves, RxTakes, RxReturns, RxAsserts, RxWakes, AssertIrq, TypeOK, Registers
<1>2. \A q \in Q : Scans(q)' = Scans(q)
  BY <1>0 DEF Scans
<1>3. CASE RxMoves \/ RxTakes \/ RxWakes
  <2>1. UNCHANGED <<dev, line>> /\ ~Asserting(in)
    BY <1>3 DEF RxMoves, RxTakes, RxWakes, Asserting
  <2>2. \A q \in Q : vq'[q].used = vq[q].used
    <3>1. CASE RxTakes
      BY <3>1, OneRing, Names DEF RxTakes
    <3> QED
      BY <1>3, <3>1 DEF RxMoves, RxWakes
  <2>3. IrqStatus' /\ IrqUsed'
    BY <1>0, <1>2, <2>1, <2>2, IrqParts DEF IrqStatus, IrqUsed, Asserting
  <2> QED
    BY <1>0, <1>1, <2>3, ClientIrq
<1>4. CASE RxReturns
  <2>1. UNCHANGED <<dev, line>> /\ in.pc = "copy" /\ in'.pc = "assert"
    BY <1>0, <1>4 DEF RxReturns, InType
  <2>2. IrqStatus' /\ IrqUsed'
    BY <1>0, <2>1, IrqParts DEF IrqStatus, IrqUsed, Asserting
  <2> QED
    BY <1>0, <1>1, <2>2, ClientIrq
<1>5. CASE RxAsserts
  <2>0. vq' = vq /\ AssertIrq(in, in')
    BY <1>5 DEF RxAsserts
  <2>1. CASE in.pc = "assert" /\ dev.irq_status
    <3>1. UNCHANGED <<dev, line>>
      BY <2>0, <2>1 DEF AssertIrq
    <3> QED
      BY <1>0, <1>1, <1>2, <2>0, <2>1, <3>1, StatusHolds, ClientIrq, IrqParts
      DEF IrqStatus, IrqUsed, Asserting
  <2>2. CASE in.pc = "assert" /\ ~dev.irq_status
    <3>1. UNCHANGED <<dev, line>> /\ in'.pc = "or"
      BY <1>0, <2>0, <2>2 DEF AssertIrq, InType
    <3> QED
      BY <1>0, <1>1, <2>2, <3>1, ClientIrq DEF IrqStatus, IrqUsed, Asserting
  <2>3. CASE in.pc = "or"
    <3>1. in'.pc = "line"
      BY <1>0, <2>0, <2>3 DEF AssertIrq, InType
    <3> QED
      BY <1>0, <1>1, <3>1, ClientIrq DEF IrqStatus, IrqUsed, Asserting
  <2>4. CASE in.pc = "line"
    <3>1. line'
      BY <2>0, <2>4 DEF AssertIrq
    <3> QED
      BY <1>0, <1>1, <3>1, ClientIrq DEF IrqStatus, IrqUsed
  <2> QED
    BY <2>0, <2>1, <2>2, <2>3, <2>4 DEF AssertIrq
<1> QED
  BY <1>3, <1>4, <1>5, ProducerSteps

LEMMA ConsumerIrq == TypeOK /\ IrqInv /\ Consumer => IrqInv'
<1> SUFFICES ASSUME TypeOK, IrqInv, Consumer PROVE IrqInv'
  OBVIOUS
<1>0. UNCHANGED <<late, pc, guest, in>> /\ out \in OutType
  BY ConsumerSteps DEF TypeOK
<1>1. dev'.irq_acknowledged = dev.irq_acknowledged
  BY ConsumerSteps
  DEF TxMoves, TxTakes, TxReturns, TxAsserts, TxWakes, AssertIrq, TypeOK, Registers
<1>2. \A q \in Q : Scans(q)' = Scans(q)
  BY <1>0 DEF Scans
<1>3. CASE TxMoves \/ TxTakes \/ TxWakes
  <2>1. UNCHANGED <<dev, line>> /\ ~Asserting(out)
    BY <1>3 DEF TxMoves, TxTakes, TxWakes, Asserting
  <2>2. \A q \in Q : vq'[q].used = vq[q].used
    <3>1. CASE TxTakes
      BY <3>1, OneRing, Names DEF TxTakes
    <3> QED
      BY <1>3, <3>1 DEF TxMoves, TxWakes
  <2>3. IrqStatus' /\ IrqUsed'
    BY <1>0, <1>2, <2>1, <2>2, IrqParts DEF IrqStatus, IrqUsed, Asserting
  <2> QED
    BY <1>0, <1>1, <2>3, ClientIrq
<1>4. CASE TxReturns
  <2>1. UNCHANGED <<dev, line>> /\ out.pc = "loop" /\ out'.pc = "assert"
    BY <1>0, <1>4 DEF TxReturns, OutType
  <2>2. IrqStatus' /\ IrqUsed'
    BY <1>0, <2>1, IrqParts DEF IrqStatus, IrqUsed, Asserting
  <2> QED
    BY <1>0, <1>1, <2>2, ClientIrq
<1>5. CASE TxAsserts
  <2>0. vq' = vq /\ AssertIrq(out, out')
    BY <1>5 DEF TxAsserts
  <2>1. CASE out.pc = "assert" /\ dev.irq_status
    <3>1. UNCHANGED <<dev, line>>
      BY <2>0, <2>1 DEF AssertIrq
    <3> QED
      BY <1>0, <1>1, <1>2, <2>0, <2>1, <3>1, StatusHolds, ClientIrq, IrqParts
      DEF IrqStatus, IrqUsed, Asserting
  <2>2. CASE out.pc = "assert" /\ ~dev.irq_status
    <3>1. UNCHANGED <<dev, line>> /\ out'.pc = "or"
      BY <1>0, <2>0, <2>2 DEF AssertIrq, OutType
    <3> QED
      BY <1>0, <1>1, <2>2, <3>1, ClientIrq DEF IrqStatus, IrqUsed, Asserting
  <2>3. CASE out.pc = "or"
    <3>1. out'.pc = "line"
      BY <1>0, <2>0, <2>3 DEF AssertIrq, OutType
    <3> QED
      BY <1>0, <1>1, <3>1, ClientIrq DEF IrqStatus, IrqUsed, Asserting
  <2>4. CASE out.pc = "line"
    <3>1. line'
      BY <2>0, <2>4 DEF AssertIrq
    <3> QED
      BY <1>0, <1>1, <3>1, ClientIrq DEF IrqStatus, IrqUsed
  <2> QED
    BY <2>0, <2>1, <2>2, <2>3, <2>4 DEF AssertIrq
<1> QED
  BY <1>3, <1>4, <1>5, ConsumerSteps

LEMMA StepIrq == TypeOK /\ IrqInv /\ [Next]_vars => IrqInv'
<1> SUFFICES ASSUME TypeOK, IrqInv, [Next]_vars PROVE IrqInv'
  OBVIOUS
<1>1. ASSUME NEW v \in Vcpu, Runs(v) PROVE IrqInv'
  BY <1>1, ExitIrq, AckIrq, DriverIrq, Names DEF Runs
<1>2. ASSUME NEW v \in Vcpu, NEW q \in Q,
             \/ WriteQueueSel(v, q) \/ Offer(v, q) \/ WriteQueueAddress(v)
             \/ WriteQueueReady(v) \/ WriteDriverOk(v) \/ WriteReset(v)
             \/ TakeInterrupt(v) \/ WriteQueueNotify(v, q)
      PROVE  IrqInv'
  BY <1>2, DriverIrq
<1>3. CASE UNCHANGED vars
  BY <1>3 DEF vars, ghosts, IrqInv, Acknowledges, Deasserts, Scans, Asserting
<1> QED
  BY <1>1, <1>2, <1>3, MachineResetIrq, ProducerIrq, ConsumerIrq, Names DEF Next, Kick

-----------------------------------------------------------------------------
(* The clients that sleep. *)

WakeNotify == dev.notify => \E v \in Vcpu : pc[v] # "idle"
WakeIn == Sleeps(in) /\ ~space /\ errors = 0 /\ vq["RX"].avail # <<>>
  => get_free("RX") = 0 \/ Kicked("RX")
WakeOut ==
  /\ out.back = "wait" => errors > 0
  /\ out.pc = "wait" /\ errors = 0 => out.head = None \/ stray
  /\ out.pc = "wait" /\ ~sig /\ errors = 0 => vq["TX"].avail = <<>> \/ Kicked("TX")

LEMMA WakeParts == WakeInv <=> WakeNotify /\ WakeIn /\ WakeOut
BY DEF WakeInv, WakeNotify, WakeIn, WakeOut

(* Nothing about the sleepers changes, and every kick is still coming. *)
LEMMA WakeFrame ==
  ASSUME WakeIn, WakeOut, UNCHANGED <<in, out, errors>>,
         space => space', sig => sig', stray => stray',
         \A q \in Q : vq'[q].avail = vq[q].avail,
         \A q \in Q : Kicked(q) => Kicked(q)'
  PROVE  WakeIn' /\ WakeOut'
<1>1. get_free("RX")' = get_free("RX")
  BY Names DEF get_free, Heads
<1> QED
  BY <1>1, Names DEF WakeIn, WakeOut, Sleeps, Asserting

(* Between exits nobody has a kick to carry out. *)
LEMMA ExitWake ==
  ASSUME TypeOK, SetUpInv, WakeInv, NEW v \in Vcpu,
         \/ ConstructQueue(v) \/ StatusChanged(v) \/ TestAcknowledged(v)
         \/ DeassertLine(v) \/ ClearStatus(v) \/ Notify(v)
  PROVE  WakeInv'
<1> USE DEF At
<1>0. UNCHANGED <<guest, in, out, errors>>
  BY DEF ConstructQueue, StatusChanged, TestAcknowledged, DeassertLine, ClearStatus,
         Notify, driver, clients
<1>9. stray => stray'
  BY DEF ConstructQueue, StatusChanged, TestAcknowledged, DeassertLine, ClearStatus,
         Notify, wires, ghosts
<1>1. CASE Notify(v)
  <2>1. /\ UNCHANGED <<vq, constructed, driver_initialized>> /\ ~dev'.notify
        /\ sig' = (sig \/ dev.notify) /\ space' = (space \/ (dev.notify /\ Wakes))
    BY <1>1 DEF Notify, TypeOK, Registers
  <2>2. get_free("RX")' = get_free("RX")
    BY <2>1 DEF get_free, Heads
  <2>3. WakeIn'
    <3>1. CASE dev.notify
      <4>1. vq["RX"].avail # <<>> => space' \/ get_free("RX") = 0
        BY <2>1, <3>1, Names DEF SetUpInv, Ready, Wakes
      <4> QED
        BY <2>1, <2>2, <4>1 DEF WakeIn
    <3>2. CASE ~dev.notify
      <4>1. Kicked("RX") => Kicked("RX")'
        BY <1>0, <3>2 DEF Kicked
      <4> QED
        BY <1>0, <2>1, <2>2, <4>1, WakeParts DEF WakeIn, Sleeps, Asserting
    <3> QED
      BY <3>1, <3>2
  <2>4. WakeOut'
    <3>1. Kicked("TX") => sig' \/ Kicked("TX")'
      BY <1>0, <2>1 DEF Kicked
    <3> QED
      BY <1>0, <1>9, <2>1, <3>1, WakeParts DEF WakeOut
  <2> QED
    BY <2>1, <2>3, <2>4 DEF WakeInv, WakeIn, WakeOut
<1>2. CASE ~Notify(v)
  <2>1. pc'[v] # "idle" /\ UNCHANGED <<space, sig>>
    BY <1>2 DEF ConstructQueue, StatusChanged, TestAcknowledged, DeassertLine, ClearStatus,
                TypeOK, wires, ghosts
  <2>2. dev'.notify = dev.notify
    <3>1. CASE StatusChanged(v) /\ Resetting
      BY <3>1, ClearedFields DEF StatusChanged
    <3>2. CASE StatusChanged(v) /\ ~Resetting
      BY <3>2 DEF StatusChanged, TypeOK, Registers
    <3> QED
      BY <1>2, <3>1, <3>2 DEF ConstructQueue, TestAcknowledged, DeassertLine, ClearStatus,
                              device, TypeOK, Registers
  <2>3. \A q \in Q : Kicked(q)' = Kicked(q)
    BY <1>0, <2>2 DEF Kicked
  <2>4. CASE StatusChanged(v) /\ Resetting
    <3>1. \A q \in Q : vq'[q].avail = <<>>
      BY <2>4 DEF StatusChanged, EmptyRings
    <3>2. WakeIn' /\ WakeOut'
      BY <1>0, <1>9, <3>1, Names, WakeParts DEF WakeIn, WakeOut
    <3> QED
      BY <2>1, <3>2 DEF WakeInv, WakeIn, WakeOut
  <2>5. CASE ~(StatusChanged(v) /\ Resetting)
    <3>1. vq' = vq
      BY <1>2, <2>5 DEF ConstructQueue, StatusChanged, TestAcknowledged, DeassertLine,
                        ClearStatus
    <3>2. WakeIn' /\ WakeOut'
      BY <1>0, <1>9, <2>1, <2>3, <3>1, WakeFrame, WakeParts
    <3> QED
      BY <2>1, <3>2 DEF WakeInv, WakeIn, WakeOut
  <2> QED
    BY <2>4, <2>5
<1> QED
  BY <1>1, <1>2

LEMMA DriverWake ==
  ASSUME TypeOK, WakeInv, NEW v \in Vcpu, NEW q \in Q,
         \/ WriteQueueSel(v, q) \/ WriteQueueAddress(v) \/ WriteQueueReady(v)
         \/ WriteDriverOk(v) \/ WriteReset(v)
         \/ WriteQueueNotify(v, q) \/ WriteInterruptAck(v)
         \/ Offer(v, q) \/ TakeInterrupt(v) \/ ScanUsed(v)
  PROVE  WakeInv'
<1>0. UNCHANGED <<in, out, errors, space, sig, stray>>
  BY DEF WriteQueueSel, WriteQueueAddress, WriteQueueReady, WriteDriverOk, WriteReset,
         WriteQueueNotify, WriteInterruptAck, Offer, TakeInterrupt, ScanUsed, Scan, Enter,
         clients, wires, ghosts
<1>1. CASE \/ WriteQueueSel(v, q) \/ WriteQueueAddress(v) \/ WriteQueueReady(v)
           \/ WriteDriverOk(v) \/ WriteReset(v)
           \/ WriteQueueNotify(v, q) \/ WriteInterruptAck(v)
  <2>1. Enter(v, dev')
    BY <1>1 DEF WriteQueueSel, WriteQueueAddress, WriteQueueReady, WriteDriverOk,
                WriteReset, WriteQueueNotify, WriteInterruptAck, Enter
  <2>2. pc'[v] # "idle" /\ vq' = vq
    BY <2>1, EnterPc
  <2>3. \A p \in Q : Kicked(p) => Kicked(p)'
    <3>1. CASE WriteQueueNotify(v, q)
      <4>1. dev'.notify
        BY <3>1 DEF WriteQueueNotify, Enter, TypeOK, Registers
      <4> QED
        BY <4>1 DEF Kicked
    <3>2. CASE ~WriteQueueNotify(v, q)
      <4>1. dev'.notify = dev.notify
        BY <1>1, <3>2 DEF WriteQueueSel, WriteQueueAddress, WriteQueueReady, WriteDriverOk,
                          WriteReset, WriteInterruptAck, Enter, TypeOK, Registers
      <4>2. \A w \in Vcpu : guest[w] \in {"kickRX", "kickTX"} => guest'[w] = guest[w]
        BY <1>1, <3>2 DEF WriteQueueSel, WriteQueueAddress, WriteQueueReady, WriteDriverOk,
                          WriteReset, WriteInterruptAck, driver, TypeOK
      <4> QED
        BY <4>1, <4>2 DEF Kicked, KickOf
    <3> QED
      BY <3>1, <3>2
  <2>4. WakeIn' /\ WakeOut'
    BY <1>0, <2>2, <2>3, WakeFrame, WakeParts
  <2> QED
    BY <2>2, <2>4 DEF WakeInv, WakeIn, WakeOut
<1>2. CASE TakeInterrupt(v) \/ ScanUsed(v)
  <2>1. UNCHANGED <<dev, pc>>
    BY <1>2 DEF TakeInterrupt, ScanUsed, Scan, device
  <2>2. \A w \in Vcpu : guest[w] \in {"kickRX", "kickTX"} => guest'[w] = guest[w]
    BY <1>2 DEF TakeInterrupt, ScanUsed, Scan, ScanOf, TypeOK
  <2>3. \A p \in Q : Kicked(p) => Kicked(p)'
    BY <2>1, <2>2 DEF Kicked, KickOf
  <2>4. \A p \in Q : vq'[p].avail = vq[p].avail
    <3>1. ASSUME NEW r \in Q, NEW n, Scan(v, r, n)
          PROVE  \A p \in Q : vq'[p].avail = vq[p].avail
      <4>1. CASE vq' = vq
        BY <4>1
      <4>2. CASE vq' = [vq EXCEPT ![r].used = Tail(vq[r].used)]
        BY <4>2, OneRing
      <4> QED
        BY <3>1, <4>1, <4>2 DEF Scan
    <3> QED
      BY <1>2, <3>1, Names DEF TakeInterrupt, ScanUsed
  <2>5. WakeIn' /\ WakeOut'
    BY <1>0, <2>3, <2>4, WakeFrame, WakeParts
  <2>6. WakeNotify'
    BY <2>1, WakeParts DEF WakeNotify
  <2> QED
    BY <2>5, <2>6 DEF WakeInv, WakeNotify, WakeIn, WakeOut
<1>3. CASE Offer(v, q)
  <2>1. UNCHANGED <<dev, pc>> /\ guest'[v] = KickOf(q) /\ guest[v] \in {"run", KickOf(q)}
        /\ \A w \in Vcpu : w # v => guest'[w] = guest[w]
    BY <1>3 DEF Offer, device, TypeOK
  <2>2. PICK h \in owns[q] : vq' = [vq EXCEPT ![q].avail = Append(vq[q].avail, h)]
    BY <1>3 DEF Offer
  <2>3. \A p \in Q : p # q => vq'[p].avail = vq[p].avail
    BY <2>2, OneRing
  <2>4. Kicked(q)'
    BY <2>1 DEF Kicked
  <2>5. \A p \in Q : Kicked(p) => Kicked(p)'
    BY <2>1, Names DEF Kicked, KickOf
  <2>6. WakeIn'
    <3>1. CASE q = "RX"
      BY <2>4, <3>1 DEF WakeIn
    <3>2. CASE q # "RX"
      <4>1. vq'["RX"].avail = vq["RX"].avail
        BY <2>3, <3>2, Names
      <4>2. get_free("RX")' = get_free("RX")
        BY <4>1 DEF get_free, Heads
      <4> QED
        BY <1>0, <2>5, <4>1, <4>2, Names, WakeParts DEF WakeIn, Sleeps, Asserting
    <3> QED
      BY <3>1, <3>2
  <2>7. WakeOut'
    <3>1. CASE q = "TX"
      BY <1>0, <2>4, <3>1, WakeParts DEF WakeOut
    <3>2. CASE q # "TX"
      BY <1>0, <2>3, <2>5, <3>2, Names, WakeParts DEF WakeOut
    <3> QED
      BY <3>1, <3>2
  <2>8. WakeNotify'
    BY <2>1, WakeParts DEF WakeNotify
  <2> QED
    BY <2>6, <2>7, <2>8 DEF WakeInv, WakeNotify, WakeIn, WakeOut
<1> QED
  BY <1>1, <1>2, <1>3

LEMMA MachineResetWake == TypeOK /\ WakeInv /\ MachineReset => WakeInv'
<1> SUFFICES ASSUME TypeOK, WakeInv, MachineReset PROVE WakeInv'
  OBVIOUS
<1>1. ~dev'.notify
  BY ClearedFields DEF MachineReset, WakeInv
<1>2. space' /\ \A q \in Q : vq'[q].avail = <<>>
  BY DEF MachineReset, EmptyRings
<1>3. out'.head = None /\ out'.back = out.back /\ errors' = errors
  BY DEF MachineReset, TypeOK, OutType
<1>4. WakeIn' /\ WakeNotify' /\ WakeOut'
  BY <1>1, <1>2, <1>3, Names, WakeParts DEF WakeIn, WakeNotify, WakeOut
<1> QED
  BY <1>4 DEF WakeInv, WakeIn, WakeNotify, WakeOut

(* The client that waits for space has found the ring empty. *)
LEMMA ProducerWake == TypeOK /\ TypeOK' /\ SetUpInv /\ WakeInv /\ Producer => WakeInv'
<1> SUFFICES ASSUME TypeOK, TypeOK', SetUpInv, WakeInv, Producer PROVE WakeInv'
  OBVIOUS
<1>0. UNCHANGED <<pc, guest, out, sig, stray>> /\ in \in InType /\ errors \in Nat
  BY ProducerSteps DEF TypeOK
<1>1. dev'.notify = dev.notify
  BY ProducerSteps
  DEF RxMoves, RxTakes, RxReturns, RxAsserts, RxWakes, AssertIrq, TypeOK, Registers
<1>2. \A q \in Q : Kicked(q)' = Kicked(q)
  BY <1>0, <1>1 DEF Kicked
<1>3. WakeNotify'
  BY <1>0, <1>1, WakeParts DEF WakeNotify
<1>4. vq'["TX"].avail = vq["TX"].avail
  <2>1. CASE RxTakes
    BY <2>1, OneRing, Names DEF RxTakes
  <2>2. CASE RxReturns
    <3>1. vq' = vq \/ vq' = [vq EXCEPT !["RX"].used = Append(vq["RX"].used, in.head)]
      BY <2>2 DEF RxReturns
    <3>2. ASSUME vq' = [vq EXCEPT !["RX"].used = Append(vq["RX"].used, in.head)]
          PROVE  vq'["TX"].avail = vq["TX"].avail
      BY <3>2, OneRing, Names
    <3> QED
      BY <3>1, <3>2
  <2> QED
    BY <2>1, <2>2, ProducerSteps DEF RxMoves, RxAsserts, RxWakes
<1>5. errors' \in Nat /\ errors' >= errors
  <2>1. errors' = errors \/ errors' = errors + 1
    BY ProducerSteps DEF RxMoves, RxTakes, RxReturns, RxAsserts, RxWakes
  <2> QED
    BY <1>0, <2>1
<1>6. WakeOut'
  BY <1>0, <1>2, <1>4, <1>5, Names, WakeParts DEF WakeOut
<1>7. WakeIn'
  <2>1. CASE RxMoves
    <3>1. UNCHANGED <<space, errors, vq>>
      BY <2>1 DEF RxMoves
    <3>2. Sleeps(in)' => vq["RX"].avail = <<>>
      BY <1>0, <2>1, Names DEF RxMoves, SetUpInv, Sleeps, Asserting, InType
    <3> QED
      BY <3>1, <3>2 DEF WakeIn
  <2>2. CASE RxTakes
    <3>1. ~Sleeps(in)'
      BY <1>0, <2>2 DEF RxTakes, Sleeps, Asserting, InType
    <3> QED
      BY <3>1 DEF WakeIn
  <2>3. CASE RxReturns
    <3>1. Sleeps(in)' => errors' # 0
      <4>1. CASE in' = [in EXCEPT !.pc = "assert", !.back = "wait", !.head = None]
                 /\ errors' = errors + 1
        BY <1>0, <4>1
      <4>2. CASE in' = [in EXCEPT !.pc = "assert", !.back = "walk", !.head = None,
                                  !.left = in.left - 1]
        <5>1. in'.pc = "assert" /\ in'.back = "walk"
          BY <1>0, <4>2 DEF InType
        <5> QED
          BY <5>1 DEF Sleeps
      <4> QED
        BY <2>3, <4>1, <4>2 DEF RxReturns
    <3> QED
      BY <3>1 DEF WakeIn
  <2>4. CASE RxAsserts
    <3>1. UNCHANGED <<space, errors, vq>>
      BY <2>4 DEF RxAsserts
    <3>2. Sleeps(in)' => Sleeps(in)
      <4>1. CASE in' = Back(in)
        BY <1>0, <2>4, <4>1 DEF RxAsserts, AssertIrq, Back, Sleeps, Asserting, InType
      <4>2. CASE in' = [in EXCEPT !.pc = "or"]
        BY <1>0, <2>4, <4>2 DEF RxAsserts, AssertIrq, Sleeps, Asserting, InType
      <4>3. CASE in' = [in EXCEPT !.pc = "line"]
        BY <1>0, <2>4, <4>3 DEF RxAsserts, AssertIrq, Sleeps, Asserting, InType
      <4> QED
        BY <2>4, <4>1, <4>2, <4>3 DEF RxAsserts, AssertIrq
    <3>3. get_free("RX")' = get_free("RX")
      BY <3>1 DEF get_free, Heads
    <3> QED
      BY <1>2, <3>1, <3>2, <3>3, Names, WakeParts DEF WakeIn
  <2>5. CASE RxWakes
    <3>1. ~Sleeps(in)'
      BY <1>0, <2>5 DEF RxWakes, Sleeps, Asserting, InType
    <3> QED
      BY <3>1 DEF WakeIn
  <2> QED
    BY <2>1, <2>2, <2>3, <2>4, <2>5, ProducerSteps
<1> QED
  BY <1>3, <1>6, <1>7 DEF WakeInv, WakeNotify, WakeIn, WakeOut

(* The client that waits for a kick has read everything. *)
LEMMA ConsumerWake == TypeOK /\ TypeOK' /\ SetUpInv /\ WakeInv /\ Consumer => WakeInv'
<1> SUFFICES ASSUME TypeOK, TypeOK', SetUpInv, WakeInv, Consumer PROVE WakeInv'
  OBVIOUS
<1>0. UNCHANGED <<pc, guest, in, space, stray>> /\ out \in OutType /\ errors \in Nat
  BY ConsumerSteps DEF TypeOK
<1>1. dev'.notify = dev.notify
  BY ConsumerSteps
  DEF TxMoves, TxTakes, TxReturns, TxAsserts, TxWakes, AssertIrq, TypeOK, Registers
<1>2. \A q \in Q : Kicked(q)' = Kicked(q)
  BY <1>0, <1>1 DEF Kicked
<1>3. WakeNotify'
  BY <1>0, <1>1, WakeParts DEF WakeNotify
<1>4. vq'["RX"].avail = vq["RX"].avail
  <2>1. CASE TxTakes
    BY <2>1, OneRing, Names DEF TxTakes
  <2>2. CASE TxReturns
    BY <2>2, OneRing, Names DEF TxReturns
  <2> QED
    BY <2>1, <2>2, ConsumerSteps DEF TxMoves, TxAsserts, TxWakes
<1>5. errors' \in Nat /\ errors' >= errors
  <2>1. errors' = errors \/ errors' = errors + 1
    BY ConsumerSteps DEF TxMoves, TxTakes, TxReturns, TxAsserts, TxWakes
  <2> QED
    BY <1>0, <2>1
<1>6. WakeIn'
  <2>1. get_free("RX")' = get_free("RX")
    BY <1>4 DEF get_free, Heads
  <2>2. Sleeps(in)' = Sleeps(in)
    BY <1>0 DEF Sleeps, Asserting
  <2> QED
    BY <1>0, <1>2, <1>4, <1>5, <2>1, <2>2, Names, WakeParts DEF WakeIn
<1>7. WakeOut'
  <2>1. CASE TxMoves
    <3>1. UNCHANGED <<sig, errors, vq>> /\ out'.back = out.back /\ out'.head = out.head
      BY <1>0, <2>1 DEF TxMoves, OutType
    <3>2. out'.pc = "wait" => (out.head = None \/ stray) /\ vq["TX"].avail = <<>>
      BY <1>0, <2>1, Names DEF TxMoves, OutType, SetUpInv
    <3> QED
      BY <1>0, <3>1, <3>2, WakeParts DEF WakeOut
  <2>2. CASE TxTakes
    <3>1. out'.pc = "loop" /\ out'.back = out.back
      BY <1>0, <2>2 DEF TxTakes, OutType
    <3> QED
      BY <1>0, <1>5, <3>1, WakeParts DEF WakeOut
  <2>3. CASE TxReturns
    <3>1. out'.pc = "assert" /\ (out'.back = "wait" => errors' = errors + 1)
      BY <1>0, <2>3 DEF TxReturns, OutType
    <3> QED
      BY <1>0, <3>1 DEF WakeOut
  <2>4. CASE TxAsserts
    <3>1. UNCHANGED <<sig, errors, vq>>
      BY <2>4 DEF TxAsserts
    <3>2. (out'.pc = "wait" => out.back = "wait") /\ (out'.back = "wait" => out.back = "wait")
      <4>1. CASE out' = Back(out)
        BY <1>0, <4>1 DEF Back, OutType
      <4>2. CASE out' = [out EXCEPT !.pc = "or"]
        BY <1>0, <4>2 DEF OutType
      <4>3. CASE out' = [out EXCEPT !.pc = "line"]
        BY <1>0, <4>3 DEF OutType
      <4> QED
        BY <2>4, <4>1, <4>2, <4>3 DEF TxAsserts, AssertIrq
    <3> QED
      BY <1>0, <3>1, <3>2, WakeParts DEF WakeOut
  <2>5. CASE TxWakes
    <3>1. out'.pc = "call" /\ out'.back = out.back /\ errors' = errors
      BY <1>0, <2>5 DEF TxWakes, OutType
    <3> QED
      BY <1>0, <3>1, WakeParts DEF WakeOut
  <2> QED
    BY <2>1, <2>2, <2>3, <2>4, <2>5, ConsumerSteps
<1> QED
  BY <1>3, <1>6, <1>7 DEF WakeInv, WakeNotify, WakeIn, WakeOut

LEMMA StepWake == TypeOK /\ TypeOK' /\ SetUpInv /\ WakeInv /\ [Next]_vars => WakeInv'
<1> SUFFICES ASSUME TypeOK, TypeOK', SetUpInv, WakeInv, [Next]_vars PROVE WakeInv'
  OBVIOUS
<1>1. ASSUME NEW v \in Vcpu, Runs(v) PROVE WakeInv'
  BY <1>1, ExitWake, DriverWake, Names DEF Runs
<1>2. ASSUME NEW v \in Vcpu, NEW q \in Q,
             \/ WriteQueueSel(v, q) \/ Offer(v, q) \/ WriteQueueAddress(v)
             \/ WriteQueueReady(v) \/ WriteDriverOk(v) \/ WriteReset(v)
             \/ TakeInterrupt(v) \/ WriteQueueNotify(v, q)
      PROVE  WakeInv'
  BY <1>2, DriverWake
<1>3. CASE UNCHANGED vars
  BY <1>3 DEF vars, ghosts, WakeInv, Sleeps, Asserting, Kicked, get_free, Heads
<1> QED
  BY <1>1, <1>2, <1>3, MachineResetWake, ProducerWake, ConsumerWake, Names DEF Next, Kick

-----------------------------------------------------------------------------
(* The theorems. *)

LEMMA InitInvariant == Init => IInv
<1> SUFFICES ASSUME Init PROVE IInv
  OBVIOUS
<1>1. TypeOK
  BY InitTypes
<1>2. \A q \in Q : vq[q].avail = <<>> /\ vq[q].used = <<>>
  BY DEF Init, EmptyRings
<1>3. dev.status = 0 /\ ~dev.status_changed /\ ~dev.irq_acknowledged /\ ~dev.irq_status
      /\ ~dev.notify
  BY DEF Init, ResetState
<1>4. SetUpInv
  BY <1>2, <1>3 DEF Init, SetUpInv, DRIVER_OK
<1>5. IrqInv
  BY <1>2, <1>3 DEF Init, IrqInv, Deasserts
<1>6. WakeInv
  BY <1>2, <1>3, Names DEF Init, WakeInv
<1>7. ChainType /\ ChainInv
  <2> SUFFICES ASSUME NEW q \in Q
               PROVE  /\ vq[q].avail \in Seq(Heads(q)) /\ vq[q].used \in Seq(Heads(q))
                      /\ owns[q] \subseteq Heads(q)
                      /\ Apart(vq[q].avail, vq[q].used, owns[q], Holds(q))
    BY DEF ChainType, ChainInv
  <2>1. owns[q] = Heads(q) /\ Holds(q) = None /\ None \notin Heads(q)
    BY Names DEF Init, Holds
  <2> QED
    <3>1. <<>> \in Seq(Heads(q))
      OBVIOUS
    <3>2. Apart(<<>>, <<>>, Heads(q), None)
      BY <2>1, Emptied
    <3> QED
      BY <1>2, <2>1, <3>1, <3>2
<1> QED
  BY <1>1, <1>4, <1>5, <1>6, <1>7 DEF IInv

(* Whoever still owes an interrupt, a kick or a signal is on its way: the  *)
(* flags of the device, the line, the clients and the driver agree at      *)
(* every step of access, handle_events, to_guest and from_guest.           *)
THEOREM Invariance == Spec => []IInv
<1>1. ASSUME IInv, [Next]_vars PROVE IInv'
  <2>1. TypeOK' /\ ChainType'
    BY <1>1, StepTypes, StepChainType DEF IInv
  <2>2. SetUpInv' /\ IrqInv' /\ WakeInv'
    BY <1>1, <2>1, StepSetUp, StepIrq, StepWake DEF IInv
  <2>3. stray' \/ ChainInv'
    BY <1>1, StepChains, StrayStays DEF IInv
  <2> QED
    BY <2>1, <2>2, <2>3 DEF IInv
<1> QED
  BY <1>1, InitInvariant, PTL DEF Spec

(* assert_queue_interrupt and deassert_queue_interrupt lose no interrupt   *)
(* between them, for every number of VCPUs, as long as no acknowledgement  *)
(* was overtaken.                                                          *)
THEOREM InterruptsArrive == Spec => []NoLostInterrupt
<1>1. IInv => NoLostInterrupt
  BY DEF IInv, IrqInv, Scans, NoLostInterrupt
<1> QED
  BY <1>1, Invariance, PTL

(* VirtioConsole::notify wakes the client in to_guest as long as none of   *)
(* its copies has failed, unless the ring is filled to its last entry.     *)
THEOREM ProducerIsWoken == Spec => []ProducerWoken
<1>1. IInv => ProducerWoken
  BY DEF IInv, WakeInv, Sleeps, Kicked, KickOf, ProducerWoken
<1> QED
  BY <1>1, Invariance, PTL

(* As long as no copy failed, from_guest leaves no offered chain behind    *)
(* when its client goes to sleep, nor a held one unless a reset took the   *)
(* rings away from it.                                                     *)
THEOREM ConsumerIsDone == Spec => []ConsumerNotStuck
<1>1. IInv => ConsumerNotStuck
  BY DEF IInv, WakeInv, Kicked, KickOf, ConsumerNotStuck
<1> QED
  BY <1>1, Invariance, PTL

-----------------------------------------------------------------------------
(* The refinement: what a step does to a queue. *)

Same(q) == /\ vq'[q].avail = vq[q].avail /\ vq'[q].used = vq[q].used
           /\ Holds(q)' = Holds(q)

Offers(q) ==
  /\ \E h \in owns[q] : vq'[q].avail = Append(vq[q].avail, h)
  /\ vq'[q].used = vq[q].used /\ Holds(q)' = Holds(q)

Collects(q) ==
  /\ vq[q].used # <<>> /\ vq'[q].used = Tail(vq[q].used)
  /\ vq'[q].avail = vq[q].avail /\ Holds(q)' = Holds(q)

Takes(q) ==
  /\ vq[q].avail # <<>> /\ vq'[q].avail = Tail(vq[q].avail)
  /\ Holds(q) = None /\ Holds(q)' = Head(vq[q].avail)
  /\ vq'[q].used = vq[q].used

Returns(q) ==
  /\ Holds(q) # None /\ Holds(q)' = None
  /\ vq'[q].used = Append(vq[q].used, Holds(q))
  /\ vq'[q].avail = vq[q].avail

Forgets(q) == vq'[q].avail = <<>> /\ vq'[q].used = <<>> /\ Holds(q)' = None

Moves(q) == Same(q) \/ Offers(q) \/ Collects(q) \/ Takes(q) \/ Returns(q) \/ Forgets(q)

LEMMA SameMoves ==
  ASSUME vq' = vq, in'.head = in.head, out'.head = out.head, NEW q \in Q
  PROVE  Moves(q)
BY DEF Moves, Same, Holds

LEMMA ForgetsAll ==
  ASSUME vq' = EmptyRings, in'.head = None, out'.head = None, NEW q \in Q
  PROVE  Moves(q)
BY DEF Moves, Forgets, EmptyRings, Holds

LEMMA OfferMoves ==
  ASSUME TypeOK, NEW v \in Vcpu, NEW p \in Q, Offer(v, p), NEW q \in Q
  PROVE  Moves(q)
<1>1. PICK h \in owns[p] : vq' = [vq EXCEPT ![p].avail = Append(vq[p].avail, h)]
  BY DEF Offer
<1>2. Holds(q)' = Holds(q)
  BY DEF Offer, clients, Holds
<1>3. CASE q = p
  <2>1. vq'[q].avail = Append(vq[q].avail, h) /\ vq'[q].used = vq[q].used
    BY <1>1, <1>3 DEF TypeOK, Rings
  <2> QED
    BY <1>2, <1>3, <2>1 DEF Moves, Offers
<1>4. CASE q # p
  BY <1>1, <1>2, <1>4, OneRing DEF Moves, Same
<1> QED
  BY <1>3, <1>4

LEMMA CollectMoves ==
  ASSUME TypeOK, NEW v \in Vcpu, NEW p \in Q, NEW n, Scan(v, p, n), NEW q \in Q
  PROVE  Moves(q)
<1>1. UNCHANGED <<in, out>>
  BY DEF Scan, clients
<1>2. CASE vq[p].used = <<>>
  BY <1>1, <1>2, SameMoves DEF Scan
<1>3. CASE vq[p].used # <<>>
  <2>1. vq' = [vq EXCEPT ![p].used = Tail(vq[p].used)]
    BY <1>3 DEF Scan
  <2>2. Holds(q)' = Holds(q)
    BY <1>1 DEF Holds
  <2>3. CASE q = p
    <3>1. vq'[q].used = Tail(vq[q].used) /\ vq'[q].avail = vq[q].avail
      BY <2>1, <2>3 DEF TypeOK, Rings
    <3> QED
      BY <1>3, <2>2, <2>3, <3>1 DEF Moves, Collects
  <2>4. CASE q # p
    BY <2>1, <2>2, <2>4, OneRing DEF Moves, Same
  <2> QED
    BY <2>3, <2>4
<1> QED
  BY <1>2, <1>3

(* A client moves a chain of its queue p, or none. *)
LEMMA TakeMoves ==
  ASSUME TypeOK, NEW p \in Q, NEW q \in Q, vq[p].avail # <<>>, Holds(p) = None,
         vq' = [vq EXCEPT ![p].avail = Tail(vq[p].avail)],
         Holds(p)' = Head(vq[p].avail), \A r \in Q : r # p => Holds(r)' = Holds(r)
  PROVE  Moves(q)
<1>1. CASE q = p
  <2>1. vq'[q].avail = Tail(vq[q].avail) /\ vq'[q].used = vq[q].used
    BY <1>1 DEF TypeOK, Rings
  <2> QED
    BY <1>1, <2>1 DEF Moves, Takes
<1>2. CASE q # p
  BY <1>2, OneRing DEF Moves, Same
<1> QED
  BY <1>1, <1>2

LEMMA ReturnMoves ==
  ASSUME TypeOK, NEW p \in Q, NEW q \in Q, Holds(p) # None, Holds(p)' = None,
         vq' = [vq EXCEPT ![p].used = Append(vq[p].used, Holds(p))],
         \A r \in Q : r # p => Holds(r)' = Holds(r)
  PROVE  Moves(q)
<1>1. CASE q = p
  <2>1. vq'[q].used = Append(vq[q].used, Holds(q)) /\ vq'[q].avail = vq[q].avail
    BY <1>1 DEF TypeOK, Rings
  <2> QED
    BY <1>1, <2>1 DEF Moves, Returns
<1>2. CASE q # p
  BY <1>2, OneRing DEF Moves, Same
<1> QED
  BY <1>1, <1>2

LEMMA QueueMoves ==
  ASSUME TypeOK, SetUpInv, [Next]_vars, ~stray', NEW q \in Q
  PROVE  Moves(q)
<1>1. ASSUME NEW v \in Vcpu, StatusChanged(v) PROVE Moves(q)
  <2>1. UNCHANGED <<in, out>>
    BY <1>1 DEF StatusChanged, clients
  <2>2. CASE Resetting
    <3>1. in.head = None /\ out.head = None
      BY <1>1, <2>2 DEF StatusChanged, Inside, SetUpInv
    <3> QED
      BY <1>1, <2>1, <2>2, <3>1, ForgetsAll DEF StatusChanged
  <2>3. CASE ~Resetting
    BY <1>1, <2>1, <2>3, SameMoves DEF StatusChanged
  <2> QED
    BY <2>2, <2>3
<1>2. ASSUME NEW v \in Vcpu, ScanUsed(v) PROVE Moves(q)
  BY <1>2, CollectMoves, Names DEF ScanUsed
<1>3. ASSUME NEW v \in Vcpu, Runs(v), ~StatusChanged(v), ~ScanUsed(v) PROVE Moves(q)
  BY <1>3, SameMoves
  DEF Runs, ConstructQueue, TestAcknowledged, DeassertLine, ClearStatus, Notify,
      WriteInterruptAck, Enter, clients
<1>4. ASSUME NEW v \in Vcpu, NEW p \in Q, Offer(v, p) PROVE Moves(q)
  BY <1>4, OfferMoves
<1>5. ASSUME NEW v \in Vcpu, NEW p \in Q,
             \/ WriteQueueSel(v, p) \/ WriteQueueAddress(v)
             \/ WriteQueueReady(v) \/ WriteDriverOk(v) \/ WriteReset(v)
             \/ TakeInterrupt(v) \/ WriteQueueNotify(v, p)
      PROVE  Moves(q)
  BY <1>5, SameMoves
  DEF WriteQueueSel, WriteQueueAddress, WriteQueueReady, WriteDriverOk, WriteReset,
      TakeInterrupt, WriteQueueNotify, Enter, clients
<1>6. CASE MachineReset
  <2>1. in'.head = None
    BY <1>6 DEF MachineReset, TypeOK, InType
  <2>2. out'.head = None
    BY <1>6 DEF MachineReset, TypeOK, OutType
  <2> QED
    BY <1>6, <2>1, <2>2, ForgetsAll DEF MachineReset
<1>7. CASE Producer
  <2>0. in \in InType /\ out' = out
    BY <1>7, ProducerSteps DEF TypeOK
  <2>1. Holds("RX") = in.head /\ Holds("RX")' = in'.head /\ Holds("TX")' = Holds("TX")
    BY <2>0 DEF Holds
  <2>2. CASE RxTakes
    <3>1. in'.head = Head(vq["RX"].avail) /\ in.head = None
      BY <2>0, <2>2 DEF RxTakes, InType, SetUpInv
    <3> QED
      BY <2>1, <2>2, <3>1, TakeMoves, Names DEF RxTakes
  <2>3. CASE RxReturns
    <3>1. in'.head = None
      BY <2>0, <2>3 DEF RxReturns, InType
    <3>2. CASE in.head = None
      BY <2>0, <2>3, <3>1, <3>2, SameMoves DEF RxReturns
    <3>3. CASE in.head # None
      BY <2>1, <2>3, <3>1, <3>3, ReturnMoves, Names DEF RxReturns
    <3> QED
      BY <3>2, <3>3
  <2>4. CASE RxMoves \/ RxAsserts \/ RxWakes
    <3>1. in'.head = in.head
      BY <2>0, <2>4 DEF RxMoves, RxAsserts, RxWakes, AssertIrq, Back, InType
    <3> QED
      BY <2>0, <2>4, <3>1, SameMoves DEF RxMoves, RxAsserts, RxWakes
  <2> QED
    BY <1>7, <2>2, <2>3, <2>4, ProducerSteps
<1>8. CASE Consumer
  <2>0. out \in OutType /\ in' = in
    BY <1>8, ConsumerSteps DEF TypeOK
  <2>1. Holds("TX") = out.head /\ Holds("TX")' = out'.head /\ Holds("RX")' = Holds("RX")
    BY <2>0 DEF Holds
  <2>2. CASE TxTakes
    <3>1. out'.head = Head(vq["TX"].avail) /\ out.head = None
      BY <2>0, <2>2 DEF TxTakes, OutType
    <3> QED
      BY <2>1, <2>2, <3>1, TakeMoves, Names DEF TxTakes
  <2>3. CASE TxReturns
    <3>1. out'.head = None /\ out.head # None
      BY <2>0, <2>3 DEF TxReturns, OutType
    <3> QED
      BY <2>1, <2>3, <3>1, ReturnMoves, Names DEF TxReturns
  <2>4. CASE TxMoves \/ TxAsserts \/ TxWakes
    <3>1. out'.head = out.head
      BY <2>0, <2>4 DEF TxMoves, TxAsserts, TxWakes, AssertIrq, Back, OutType
    <3> QED
      BY <2>0, <2>4, <3>1, SameMoves DEF TxMoves, TxAsserts, TxWakes
  <2> QED
    BY <1>8, <2>2, <2>3, <2>4, ConsumerSteps
<1>9. CASE UNCHANGED vars
  BY <1>9, SameMoves DEF vars
<1>10. ASSUME NEW v \in Vcpu, Runs(v) PROVE Moves(q)
  BY <1>1, <1>2, <1>3, <1>10
<1> QED
  BY <1>4, <1>5, <1>6, <1>7, <1>8, <1>9, <1>10, Names DEF Next, Kick

(* A chain that the driver owns is in neither ring and with no client. *)
LEMMA OwnedIsFree ==
  ASSUME TypeOK, ChainType, ChainInv, NEW q \in Q, NEW h \in owns[q]
  PROVE  /\ h \in Heads(q) /\ h # Holds(q)
         /\ \A i \in DOMAIN vq[q].avail : vq[q].avail[i] # h
         /\ \A i \in DOMAIN vq[q].used : vq[q].used[i] # h
<1>1. DOMAIN vq[q].avail = 1..Len(vq[q].avail) /\ DOMAIN vq[q].used = 1..Len(vq[q].used)
  BY RingTypes
<1> QED
  BY <1>1 DEF ChainType, ChainInv, Apart

LEMMA RxStep ==
  ASSUME TypeOK, ChainType, ChainInv, Moves("RX")
  PROVE  [RxExchange!XNext \/ RxExchange!Forget]_(RxExchange!exchange)
<1> DEFINE a == vq["RX"].avail
           u == vq["RX"].used
<1>0. Holds("RX") = in.head /\ Holds("RX")' = in'.head
  BY DEF Holds
<1>1. CASE Same("RX")
  BY <1>0, <1>1 DEF Same, RxExchange!exchange
<1>2. CASE Offers("RX")
  <2>1. PICK h \in owns["RX"] : a' = Append(a, h)
    BY <1>2 DEF Offers
  <2>2. h \in RxHead \ RxExchange!Busy
    BY <1>0, OwnedIsFree, Names DEF RxExchange!Busy, RxExchange!Elements
  <2> QED
    BY <1>0, <1>2, <2>1, <2>2 DEF Offers, RxExchange!XNext, RxExchange!Offer
<1>3. CASE Collects("RX")
  BY <1>0, <1>3 DEF Collects, RxExchange!XNext, RxExchange!Collect
<1>4. CASE Takes("RX")
  <2>1. Head(a) # None
    BY <1>4, NextChain, Names DEF Takes
  <2> QED
    BY <1>0, <1>4, <2>1 DEF Takes, RxExchange!XNext, RxExchange!Take
<1>5. CASE Returns("RX")
  BY <1>0, <1>5 DEF Returns, RxExchange!XNext, RxExchange!Return
<1>6. CASE Forgets("RX")
  BY <1>0, <1>6 DEF Forgets, RxExchange!Forget
<1> QED
  BY <1>1, <1>2, <1>3, <1>4, <1>5, <1>6 DEF Moves

LEMMA TxStep ==
  ASSUME TypeOK, ChainType, ChainInv, Moves("TX")
  PROVE  [TxExchange!XNext \/ TxExchange!Forget]_(TxExchange!exchange)
<1> DEFINE a == vq["TX"].avail
           u == vq["TX"].used
<1>0. Holds("TX") = out.head /\ Holds("TX")' = out'.head
  BY DEF Holds
<1>1. CASE Same("TX")
  BY <1>0, <1>1 DEF Same, TxExchange!exchange
<1>2. CASE Offers("TX")
  <2>1. PICK h \in owns["TX"] : a' = Append(a, h)
    BY <1>2 DEF Offers
  <2>2. h \in TxHead \ TxExchange!Busy
    BY <1>0, OwnedIsFree, Names DEF TxExchange!Busy, TxExchange!Elements
  <2> QED
    BY <1>0, <1>2, <2>1, <2>2 DEF Offers, TxExchange!XNext, TxExchange!Offer
<1>3. CASE Collects("TX")
  BY <1>0, <1>3 DEF Collects, TxExchange!XNext, TxExchange!Collect
<1>4. CASE Takes("TX")
  <2>1. Head(a) # None
    BY <1>4, NextChain, Names DEF Takes
  <2> QED
    BY <1>0, <1>4, <2>1 DEF Takes, TxExchange!XNext, TxExchange!Take
<1>5. CASE Returns("TX")
  BY <1>0, <1>5 DEF Returns, TxExchange!XNext, TxExchange!Return
<1>6. CASE Forgets("TX")
  BY <1>0, <1>6 DEF Forgets, TxExchange!Forget
<1> QED
  BY <1>1, <1>2, <1>3, <1>4, <1>5, <1>6 DEF Moves

(* walk_chain and conclude_chain_use take every chain once and return it   *)
(* once, to the queue that it came from, across failed copies, chains held *)
(* between calls and resets of device and machine, until a reset takes the *)
(* rings from a client that is inside a call or, written as a status of 0, *)
(* holds a chain.                                                          *)
THEOREM QueuesExchange == Spec => ImplementsExchange
<1>1. Init => RxExchange!XInit /\ TxExchange!XInit
  <2> SUFFICES ASSUME Init PROVE RxExchange!XInit /\ TxExchange!XInit
    OBVIOUS
  <2>1. \A q \in Q : vq[q].avail = <<>> /\ vq[q].used = <<>>
    BY DEF Init, EmptyRings
  <2>2. in.head = None /\ out.head = None
    BY DEF Init
  <2> QED
    BY <2>1, <2>2, Names DEF RxExchange!XInit, TxExchange!XInit
<1>2. ASSUME IInv, [Next]_vars, ~stray'
      PROVE  /\ [RxExchange!XNext \/ RxExchange!Forget]_(RxExchange!exchange)
             /\ [TxExchange!XNext \/ TxExchange!Forget]_(TxExchange!exchange)
  <2>1. TypeOK /\ SetUpInv /\ ChainType /\ ChainInv
    BY <1>2, StrayStays DEF IInv
  <2> QED
    BY <1>2, <2>1, QueueMoves, RxStep, TxStep, Names
<1>3. IInv /\ [Next]_vars =>
        [stray' \/ RxExchange!XNext \/ RxExchange!Forget]_(RxExchange!exchange)
  BY <1>2
<1>4. IInv /\ [Next]_vars =>
        [stray' \/ TxExchange!XNext \/ TxExchange!Forget]_(TxExchange!exchange)
  BY <1>2
<1> QED
  BY <1>1, <1>3, <1>4, Invariance, PTL DEF Spec, ImplementsExchange
===============================================================================
