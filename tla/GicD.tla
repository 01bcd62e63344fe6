--------------------------------- MODULE GicD ---------------------------------
(***************************************************************************)
(* The interrupt distributor (Model::GicD) with affinity routing, and the  *)
(* part of the redistributors (Model::GicR) that puts a VCPU to sleep.     *)
(* Nothing in it takes a lock: devices assert and deassert lines, VCPUs    *)
(* write its registers, and the thread of each VCPU moves interrupts into  *)
(* and out of its list registers, all at once.  An action is one access to *)
(* shared state (a store, a CAS loop, a bit of an AtomicBitset) with the   *)
(* private computation around it.                                          *)
(***************************************************************************)
EXTENDS Integers

CONSTANTS
  N,        \* _num_vcpus
  Sgi, Ppi, \* private interrupts, an element for each banked object
  Spi,      \* shared interrupts
  Lpi,      \* message-signalled interrupts
  Home,     \* the VCPU of a private interrupt
  Level,    \* interrupts configured as level-triggered (_hw_edge, _sw_edge)
  Hw,       \* hardware interrupts (_hw)
  Prio,     \* _prio
  MAX_IRQ,
  InitAsleep, \* VCPUs whose redistributor the guest has not woken yet
  MaxStimuli \* bound: calls of devices and register writes

Vcpu == 0 .. N - 1
Private == Sgi \cup Ppi
Irq == Private \cup Spi \cup Lpi
Thread == Vcpu \cup Irq  \* a device is named by the interrupt it drives
NoIrq == -1
Invalid == N             \* INVALID_TARGET
AnyVcpu == N + 1         \* routing.any()
NoCluster == N + 2       \* an affinity that no VCPU has

(* Interrupts are numbered as the scan of highest_irq visits them. *)
ASSUME GicAssumption ==
  /\ N \in Nat \ {0}
  /\ MAX_IRQ \in Nat /\ Irq \subseteq 0 .. MAX_IRQ - 1 /\ Irq \cap Vcpu = {}
  /\ \A p \in Private, s \in Spi, l \in Lpi : p < s /\ p < l /\ s < l
  /\ Home \in [Private -> Vcpu] /\ Prio \in [Irq -> Nat]
  /\ Sgi \cap Ppi = {} /\ MaxStimuli \in Nat
  /\ Level \cup Hw \subseteq Ppi \cup Spi
  /\ InitAsleep \subseteq Vcpu

VARIABLES
  info,              \* injection_info: target, pending and injected bits
  line,              \* _line_asserted
  sw,                \* _sw_asserted
  enabled,           \* _enable
  active,            \* _active
  routing,           \* routing; an LPI has affinity 0, which only redirect_spi uses
  asleep,            \* _waker.sleeping()
  pending_irqs,
  in_injection_irqs,
  lr,                \* external: the list registers, "none" if not in one
  pc,                \* where the thread of a VCPU is
  cur,               \* the interrupt it is handling
  pos,               \* where its scan of pending_irqs is
  clears,            \* the bits that its update of injection_info clears
  notify,            \* the target a thread is about to notify
  dev,               \* where the device of an interrupt is
  stimuli            \* calls and writes so far

irqVars == <<info, line, sw, enabled, active, routing>>
bits == <<pending_irqs, in_injection_irqs>>
vcpuVars == <<pc, cur, pos, clears>>
vars == <<irqVars, bits, vcpuVars, asleep, lr, notify, dev, stimuli>>

Info == [target : Vcpu \cup {Invalid}, pending : BOOLEAN, injected : BOOLEAN]
ZeroInfo == [target |-> 0, pending |-> FALSE, injected |-> FALSE]
PendingAt(t) == [target |-> t, pending |-> TRUE, injected |-> FALSE]

(* The distributor as a guest that has configured it finds it: groups and
   affinity routing on, shared interrupts for any VCPU.  A redistributor sleeps
   until the guest brings its VCPU up. *)
Init ==
  /\ info = [i \in Irq |-> ZeroInfo]
  /\ line = {} /\ sw = {} /\ active = {} /\ enabled = Irq
  /\ routing = [i \in Spi \cup Lpi |-> IF i \in Spi THEN AnyVcpu ELSE 0]
  /\ asleep = InitAsleep
  /\ pending_irqs = [v \in Vcpu |-> {}]
  /\ in_injection_irqs = [v \in Vcpu |-> {}]
  /\ lr = [v \in Vcpu |-> [i \in Irq |-> "none"]]
  /\ pc = [v \in Vcpu |-> "idle"]
  /\ cur = [v \in Vcpu |-> NoIrq]
  /\ pos = [v \in Vcpu |-> 0]
  /\ clears = [v \in Vcpu |-> {}]
  /\ notify = [t \in Thread |-> {}]
  /\ dev = [i \in Irq |-> "idle"]
  /\ stimuli = 0

-----------------------------------------------------------------------------
(* Irq::pending *)
IrqPending(i) == (i \in Level /\ i \in line) \/ i \in sw \/ info[i].pending

(* is_targeting_cpu: the invalid target has every bit of a CPU set.  The
   assertion that a set is asked about VCPUs below 8 only is left out. *)
Targeting(i, v) == info[i].target \in {v, Invalid}

vcpu_can_receive_irq(v, i) == i \in Spi \cup Lpi => v \notin asleep

(* route_spi, from hint h on: the next VCPU that is awake, or else h itself. *)
NextAwake(v, h) ==
  LET distance(u) == (u - h) % N
  IN  v \notin asleep /\ \A u \in Vcpu \ asleep : distance(v) <= distance(u)

Awake(h) == IF \E v \in Vcpu : NextAwake(v, h) THEN CHOOSE v \in Vcpu : NextAwake(v, h)
                                              ELSE h

RouteBy(r, h) == IF r = AnyVcpu THEN Awake(h)
                 ELSE IF r = NoCluster THEN Invalid ELSE r

route_spi(i, h) == RouteBy(routing[i], h)

(* The store of assert_pi by thread t: what was pending or injected is
   forgotten. *)
assert_pi(t, i, target) ==
  /\ info' = [info EXCEPT ![i] = PendingAt(target)]
  /\ notify' = [notify EXCEPT ![t] = IF target = Invalid THEN {} ELSE {<<i, target>>}]

(* deassert_pi: a hardware interrupt stays pending. *)
deassert_pi(i) == info' = IF i \in Hw THEN info ELSE [info EXCEPT ![i] = ZeroInfo]

(* Mutant: an injected interrupt is redirected as well. *)
MutRedirect(t, i, target) ==
  IF info[i].pending THEN assert_pi(t, i, target)
  ELSE UNCHANGED <<info, notify>>

(* The CAS loop of redirect_spi by thread t. *)
redirect_spi(t, i, target) ==
  IF info[i].pending /\ ~info[i].injected THEN assert_pi(t, i, target)
  ELSE UNCHANGED <<info, notify>>

(* notify_target: the bit of the target; waking it is the VCPU's affair. *)
NotifyTarget(t) ==
  \E n \in notify[t] :
    /\ pending_irqs' = [pending_irqs EXCEPT ![n[2]] = @ \cup {n[1]}]
    /\ notify' = [notify EXCEPT ![t] = @ \ {n}]
    /\ UNCHANGED <<irqVars, in_injection_irqs, vcpuVars, asleep, lr, dev, stimuli>>

-----------------------------------------------------------------------------
(* Devices *)
Stimulus == stimuli < MaxStimuli /\ stimuli' = stimuli + 1

DeviceIdle(i) == dev[i] = "idle" /\ notify[i] = {}

(* assert_global_line, assert_ppi; h is the value of _vcpu_global_hint. *)
AssertLine(i, h) ==
  /\ Stimulus /\ DeviceIdle(i) /\ i \in Ppi \cup Spi
  /\ line' = IF i \in Level THEN line \cup {i} ELSE line
  /\ assert_pi(i, i, IF i \in Spi THEN route_spi(i, h) ELSE Home[i])
  /\ UNCHANGED <<sw, enabled, active, routing, bits, vcpuVars, asleep, lr, dev>>

(* assert_lpi, for the VCPU v that the ITS found. *)
AssertLpi(i, v) ==
  /\ Stimulus /\ DeviceIdle(i) /\ i \in Lpi
  /\ ~IrqPending(i)
  /\ assert_pi(i, i, v)
  /\ UNCHANGED <<line, sw, enabled, active, routing, bits, vcpuVars, asleep, lr, dev>>

(* deassert_global_line, deassert_line_ppi: deassert_line turns every shared
   interrupt away.  The line and the test that guards deassert_pi ... *)
DeassertLine(i) ==
  /\ Stimulus /\ DeviceIdle(i) /\ i \in Ppi \cup Spi
  /\ IF i \in Spi THEN UNCHANGED <<line, dev>>
     ELSE /\ line' = line \ {i}
          /\ dev' = IF i \in Level /\ i \notin sw THEN [dev EXCEPT ![i] = "deassert"] ELSE dev
  /\ UNCHANGED <<info, sw, enabled, active, routing, bits, vcpuVars, asleep, lr, notify>>

(* ... and deassert_pi. *)
DeassertPi(i) ==
  /\ dev[i] = "deassert"
  /\ deassert_pi(i)
  /\ dev' = [dev EXCEPT ![i] = "idle"]
  /\ UNCHANGED <<line, sw, enabled, active, routing, bits, vcpuVars, asleep, lr, notify, stimuli>>

-----------------------------------------------------------------------------
(* Registers, written by the VCPU v.  A VCPU is idle when its thread is outside
   the GIC: in the guest or in the VMM. *)
Idle(v) == pc[v] = "idle" /\ notify[v] = {}

(* Private interrupts are reached in the frame of their redistributor.  The bits
   of SGIs, which a guest has no reason to write, are left out. *)
Accessible(i) == i \in Ppi \cup Spi

(* A write that changes nothing is left out. *)
Toggle(s, i) == IF i \in s THEN s \ {i} ELSE s \cup {i}

(* ISENABLER, ICENABLER *)
WriteEnable(v, i) ==
  /\ Stimulus /\ Idle(v) /\ Accessible(i)
  /\ enabled' = Toggle(enabled, i)
  /\ UNCHANGED <<info, line, sw, active, routing, bits, vcpuVars, asleep, lr, notify, dev>>

(* ISPENDR: assert_pi_sw *)
WriteIspendr(v, i, h) ==
  /\ Stimulus /\ Idle(v) /\ Accessible(i)
  /\ sw' = sw \cup {i}
  /\ assert_pi(v, i, IF i \in Spi THEN route_spi(i, h) ELSE Home[i])
  /\ UNCHANGED <<line, enabled, active, routing, bits, vcpuVars, asleep, lr, dev>>

(* ICPENDR: deassert_pi_sw *)
WriteIcpendr(v, i) ==
  /\ Stimulus /\ Idle(v) /\ Accessible(i)
  /\ sw' = sw \ {i}
  /\ deassert_pi(i)
  /\ UNCHANGED <<line, enabled, active, routing, bits, vcpuVars, asleep, lr, notify, dev>>

(* ISACTIVER, ICACTIVER *)
WriteActive(v, i) ==
  /\ Stimulus /\ Idle(v) /\ Accessible(i)
  /\ active' = Toggle(active, i)
  /\ UNCHANGED <<info, line, sw, enabled, routing, bits, vcpuVars, asleep, lr, notify, dev>>

(* icc_sgi1r_el1: assert_sgi of each target is an assert_pi. *)
SendSgi(v, i) ==
  /\ Stimulus /\ Idle(v) /\ i \in Sgi
  /\ assert_pi(v, i, Home[i])
  /\ UNCHANGED <<line, sw, enabled, active, routing, bits, vcpuVars, asleep, lr, dev>>

(* IROUTER: write_irouter *)
WriteIrouter(v, i, r, h) ==
  /\ Stimulus /\ Idle(v) /\ i \in Spi
  /\ routing' = [routing EXCEPT ![i] = r]
  /\ IF IrqPending(i) THEN redirect_spi(v, i, RouteBy(r, h))
                      ELSE UNCHANGED <<info, notify>>
  /\ UNCHANGED <<line, sw, enabled, active, bits, vcpuVars, asleep, lr, dev>>

(* GICR_WAKER.  The masks SLEEP_BIT and CHILDREN_ASLEEP_BIT (2 and 4) serve as
   shift counts: a write of ProcessorSleep puts bits 2 and 4 into the register,
   of which RESV_ZERO leaves ChildrenAsleep.  So sleeping() is false after every
   write, and the scan that a write of ProcessorSleep starts, which is to
   redirect the interrupts of the VCPU, finds that it may receive them. *)
WriteWaker(v, sleeping) ==
  /\ Stimulus /\ Idle(v)
  /\ sleeping \/ v \in asleep
  /\ asleep' = asleep \ {v}
  /\ pc' = IF sleeping THEN [pc EXCEPT ![v] = "waker"] ELSE pc
  /\ UNCHANGED <<irqVars, bits, cur, pos, clears, lr, notify, dev>>

-----------------------------------------------------------------------------
(* highest_irq and pending_irq: the thread of VCPU v looks for the interrupt to
   inject, and injects it. *)
Scanning(v) == pc[v] \in {"scan", "waker"} /\ notify[v] = {}

(* get_next_pending_irq *)
Ahead(v) == {i \in pending_irqs[v] : i >= pos[v]}
NextPending(v, i) == i \in Ahead(v) /\ \A j \in Ahead(v) : i <= j

(* The scan ends behind the first LPI it meets. *)
After(i) == IF i \in Lpi THEN MAX_IRQ ELSE i + 1

(* Mutant: in_injection_irqs is not consulted. *)
MutInjectable(v, i) ==
  /\ Targeting(i, v) /\ info[i].pending
  /\ i \in enabled
  /\ vcpu_can_receive_irq(v, i)

(* Group enables apart, what makes an interrupt a candidate. *)
Injectable(v, i) ==
  /\ Targeting(i, v) /\ info[i].pending
  /\ i \in enabled
  /\ i \notin in_injection_irqs[v]
  /\ vcpu_can_receive_irq(v, i)

(* A scan that finds no bit set changes nothing and is left out. *)
PendingIrq(v) ==
  /\ Idle(v) /\ pending_irqs[v] # {}
  /\ pc' = [pc EXCEPT ![v] = "scan"]
  /\ UNCHANGED <<irqVars, bits, cur, pos, clears, asleep, lr, notify, dev, stimuli>>

VisitCandidate(v, i) ==
  /\ Scanning(v) /\ NextPending(v, i) /\ Injectable(v, i)
  /\ cur' = IF cur[v] = NoIrq \/ Prio[i] > Prio[cur[v]] THEN [cur EXCEPT ![v] = i] ELSE cur
  /\ pos' = [pos EXCEPT ![v] = After(i)]
  /\ UNCHANGED <<irqVars, bits, pc, clears, asleep, lr, notify, dev, stimuli>>

(* A VCPU that may not receive the interrupt kicks it to the next one. *)
VisitOther(v, i) ==
  /\ Scanning(v) /\ NextPending(v, i) /\ ~Injectable(v, i)
  /\ IF vcpu_can_receive_irq(v, i) THEN UNCHANGED <<info, notify>>
     ELSE redirect_spi(v, i, route_spi(i, (v + 1) % N))
  /\ pos' = [pos EXCEPT ![v] = After(i)]
  /\ UNCHANGED <<line, sw, enabled, active, routing, bits, pc, cur, clears, asleep, lr, dev, stimuli>>

(* The end of highest_irq.  pending_irq works on its result, unless the guest
   masks its priority (min_priority). *)
EndScan(v, masked) ==
  /\ Scanning(v) /\ Ahead(v) = {}
  /\ LET inject == pc[v] = "scan" /\ cur[v] # NoIrq /\ ~masked
     IN  /\ pc' = [pc EXCEPT ![v] = IF inject THEN "cas" ELSE "idle"]
         /\ cur' = IF inject THEN cur ELSE [cur EXCEPT ![v] = NoIrq]
  /\ pos' = [pos EXCEPT ![v] = 0]
  /\ UNCHANGED <<irqVars, bits, clears, asleep, lr, notify, dev, stimuli>>

(* The CAS loop of pending_irq gives up an interrupt that went away. *)
InjectCas(v) ==
  /\ pc[v] = "cas"
  /\ LET i == cur[v]
         taken == info[i].pending /\ Targeting(i, v)
     IN  /\ info' = IF taken THEN [info EXCEPT ![i].injected = TRUE] ELSE info
         /\ pc' = [pc EXCEPT ![v] = IF taken THEN "publish" ELSE "idle"]
         /\ cur' = IF taken THEN cur ELSE [cur EXCEPT ![v] = NoIrq]
  /\ UNCHANGED <<line, sw, enabled, active, routing, bits, pos, clears, asleep, lr, notify, dev, stimuli>>

(* Only the thread of v looks at in_injection_irqs[v], so its bit and the bit
   of pending_irqs change at once. *)
Publish(v) ==
  /\ pc[v] = "publish"
  /\ LET i == cur[v]
         state == IF i \in active \ Hw THEN "ACTIVE_PENDING" ELSE "PENDING"
     IN  /\ in_injection_irqs' = [in_injection_irqs EXCEPT ![v] = @ \cup {i}]
         /\ pending_irqs' = [pending_irqs EXCEPT ![v] = @ \ {i}]
         /\ lr' = [lr EXCEPT ![v][i] = state]
  /\ pc' = [pc EXCEPT ![v] = "idle"]
  /\ cur' = [cur EXCEPT ![v] = NoIrq]
  /\ UNCHANGED <<irqVars, pos, clears, asleep, notify, dev, stimuli>>

-----------------------------------------------------------------------------
(* update_inj_status: the VMM hands back the state of a list register and
   keeps it or not.  An interrupt that is pending again is queued again. *)
Update(v, i, keep) ==
  LET state == lr[v][i]
  IN  /\ Idle(v) /\ state # "none"
      /\ IF keep THEN state # "INACTIVE" ELSE state \in {"PENDING", "INACTIVE"}
      /\ active' = IF state \in {"PENDING", "INACTIVE"} THEN active \ {i} ELSE active \cup {i}
      /\ clears' = [clears EXCEPT ![v] =
                      (IF keep THEN {} ELSE {"injected"})
                        \cup (IF state \in {"ACTIVE", "INACTIVE"} THEN {"pending"} ELSE {})]
      /\ IF keep THEN UNCHANGED <<in_injection_irqs, lr>>
         ELSE /\ in_injection_irqs' = [in_injection_irqs EXCEPT ![v] = @ \ {i}]
              /\ lr' = [lr EXCEPT ![v][i] = "none"]
      /\ cur' = [cur EXCEPT ![v] = i]
      /\ pc' = [pc EXCEPT ![v] = "update"]
      /\ UNCHANGED <<info, line, sw, enabled, routing, pending_irqs, pos, asleep, notify, dev, stimuli>>

(* Mutant: an interrupt that is no longer pending is not the one. *)
MutMinePending(v, i) == info[i].injected /\ info[i].pending /\ Targeting(i, v)

(* The CAS loop leaves alone what another VCPU or a new assertion owns. *)
Mine(v, i) == info[i].injected /\ Targeting(i, v)

Clear(x, bit) == [target |-> x.target,
                  pending |-> x.pending /\ "pending" \notin bit,
                  injected |-> x.injected /\ "injected" \notin bit]

UpdateCas(v) ==
  /\ pc[v] = "update"
  /\ LET i == cur[v]
     IN  info' = IF Mine(v, i) THEN [info EXCEPT ![i] = Clear(@, clears[v])] ELSE info
  /\ pc' = [pc EXCEPT ![v] = "repend"]
  /\ clears' = [clears EXCEPT ![v] = {}]
  /\ UNCHANGED <<line, sw, enabled, active, routing, bits, cur, pos, asleep, lr, notify, dev, stimuli>>

(* Mutant: a pending interrupt is not queued again. *)
MutRepend(v) ==
  /\ pc[v] = "repend"
  /\ pc' = [pc EXCEPT ![v] = "idle"]
  /\ cur' = [cur EXCEPT ![v] = NoIrq]
  /\ UNCHANGED <<irqVars, bits, pos, clears, asleep, lr, notify, dev, stimuli>>

Repend(v) ==
  /\ pc[v] = "repend"
  /\ pending_irqs' = IF IrqPending(cur[v]) THEN [pending_irqs EXCEPT ![v] = @ \cup {cur[v]}]
                                           ELSE pending_irqs
  /\ pc' = [pc EXCEPT ![v] = "idle"]
  /\ cur' = [cur EXCEPT ![v] = NoIrq]
  /\ UNCHANGED <<irqVars, in_injection_irqs, pos, clears, asleep, lr, notify, dev, stimuli>>

-----------------------------------------------------------------------------
(* External: between two calls of the GIC the VMM runs the guest, which
   acknowledges and completes the interrupts in its list registers; an LPI has
   no active state. *)
GuestMove(i) ==
  IF i \in Lpi THEN {<<"PENDING", "INACTIVE">>}
  ELSE {<<"PENDING", "ACTIVE">>, <<"ACTIVE", "INACTIVE">>, <<"ACTIVE_PENDING", "PENDING">>}

Guest(v, i) ==
  /\ Idle(v)
  /\ \E m \in GuestMove(i) : lr[v][i] = m[1] /\ lr' = [lr EXCEPT ![v][i] = m[2]]
  /\ UNCHANGED <<irqVars, bits, vcpuVars, asleep, notify, dev, stimuli>>

Device(i) ==
  \/ \E h \in Vcpu : AssertLine(i, h) \/ AssertLpi(i, h)
  \/ DeassertLine(i) \/ DeassertPi(i)

Registers(v) ==
  \/ \E i \in Irq : \/ WriteEnable(v, i) \/ WriteActive(v, i)
                    \/ WriteIcpendr(v, i) \/ SendSgi(v, i)
                    \/ \E h \in Vcpu : \/ WriteIspendr(v, i, h)
                                       \/ \E r \in Vcpu \cup {AnyVcpu, NoCluster} :
                                            WriteIrouter(v, i, r, h)
  \/ \E s \in BOOLEAN : WriteWaker(v, s)

Injection(v) ==
  \/ PendingIrq(v) \/ InjectCas(v) \/ Publish(v) \/ UpdateCas(v) \/ Repend(v)
  \/ \E masked \in BOOLEAN : EndScan(v, masked)
  \/ \E i \in Irq : \/ VisitCandidate(v, i) \/ VisitOther(v, i)
                    \/ \E keep \in BOOLEAN : Update(v, i, keep)

Next ==
  \/ \E t \in Thread : NotifyTarget(t)
  \/ \E i \in Irq : Device(i)
  \/ \E v \in Vcpu : \/ Registers(v) \/ Injection(v)
                     \/ \E i \in Irq : Guest(v, i)

Spec == Init /\ [][Next]_vars

-----------------------------------------------------------------------------
Pc == {"idle", "scan", "waker", "cas", "publish", "update", "repend"}
LrState == {"none", "PENDING", "ACTIVE", "ACTIVE_PENDING", "INACTIVE"}

(* Every variable has its type. *)
TypeOK ==
  /\ info \in [Irq -> Info]
  /\ line \subseteq Irq /\ sw \subseteq Irq /\ enabled \subseteq Irq /\ active \subseteq Irq
  /\ routing \in [Spi \cup Lpi -> Vcpu \cup {AnyVcpu, NoCluster}]
  /\ asleep \subseteq Vcpu
  /\ pending_irqs \in [Vcpu -> SUBSET Irq]
  /\ in_injection_irqs \in [Vcpu -> SUBSET Irq]
  /\ lr \in [Vcpu -> [Irq -> LrState]]
  /\ pc \in [Vcpu -> Pc]
  /\ cur \in [Vcpu -> Irq \cup {NoIrq}]
  /\ pos \in [Vcpu -> 0 .. MAX_IRQ]
  /\ clears \in [Vcpu -> SUBSET {"injected", "pending"}]
  /\ notify \in [Thread -> SUBSET (Irq \X Vcpu)]
  /\ dev \in [Irq -> {"idle", "deassert"}]
  /\ stimuli \in 0 .. MaxStimuli

Busy(v, i, where) == pc[v] \in where /\ cur[v] = i

(* v knows of i: it is queued, or some thread is about to queue it, or v holds
   an earlier instance and queues i again when that one is done. *)
Tracked(i, v) ==
  \/ i \in pending_irqs[v] \cup in_injection_irqs[v]
  \/ \E t \in Thread : <<i, v>> \in notify[t]
  \/ Busy(v, i, {"publish", "update", "repend"})

(* An interrupt that awaits injection is not forgotten: its target knows of it. *)
PendingIsQueued ==
  \A i \in Irq : \A v \in Vcpu :
    info[i].pending /\ ~info[i].injected /\ info[i].target = v => Tracked(i, v)

(* The injected bit, which keeps an interrupt from being redirected, is never
   left behind: the target has the interrupt in a list register or in hand. *)
InjectedIsHeld ==
  \A i \in Irq : info[i].injected =>
    \E v \in Vcpu : /\ Targeting(i, v)
                    /\ i \in in_injection_irqs[v] \/ Busy(v, i, {"publish", "update"})

(* pending_irq never fills a list register for an interrupt that the VCPU
   already has in one. *)
OneListRegister ==
  \A v \in Vcpu : pc[v] = "publish" => lr[v][cur[v]] = "none"

(* An interrupt that awaits injection is withdrawn only by its device or by the
   guest: handing back a list register or redirecting does not lose it. *)
NotDropped ==
  [][\A i \in Irq : info[i].pending /\ ~info[i].injected /\ ~info[i].pending' =>
       DeassertPi(i) \/ \E v \in Vcpu : WriteIcpendr(v, i)]_vars

(* "Prevent injecting the IRQ twice, we just want to reroute here"
   (redirect_spi): a scan or a write to IROUTER leaves an injected interrupt
   where it is. *)
NoRerouteOfInjected ==
  [][\A i \in Irq :
       /\ info[i].injected
       /\ routing' # routing \/ \E v \in Vcpu : pc[v] \in {"scan", "waker"} /\ pos'[v] # pos[v]
       => info'[i] = info[i]]_vars

(* Both: an interrupt stays pending, or injected where it is, until its device,
   its guest or its completion ends that. *)
InjectionStable == NotDropped /\ NoRerouteOfInjected
===============================================================================
