----------------------------- MODULE GicDTheorems -----------------------------
(***************************************************************************)
(* What is proved of GicD for any number of VCPUs and any interrupts.      *)
(***************************************************************************)
EXTENDS GicD, TLAPS

(* The thread of a VCPU and its list registers agree with in_injection_irqs. *)
ThreadOK ==
  \A v \in Vcpu :
    /\ pc[v] = "idle" => cur[v] = NoIrq
    /\ pc[v] \in {"cas", "publish", "update", "repend"} => cur[v] \in Irq
    /\ pc[v] \in {"scan", "waker", "cas", "publish"} => cur[v] \notin in_injection_irqs[v]
    /\ pc[v] = "update" /\ "injected" \notin clears[v] => cur[v] \in in_injection_irqs[v]
    /\ \A i \in Irq : lr[v][i] # "none" => i \in in_injection_irqs[v]

(* The inductive invariant. *)
IInv == TypeOK /\ ThreadOK /\ PendingIsQueued /\ InjectedIsHeld

-----------------------------------------------------------------------------
(* A route is a VCPU or the invalid target. *)
LEMMA RouteType ==
  ASSUME NEW h \in Vcpu, NEW r \in Vcpu \cup {AnyVcpu, NoCluster}
  PROVE  RouteBy(r, h) \in Vcpu \cup {Invalid}
<1>1. Awake(h) \in Vcpu
  BY DEF Awake
<1>2. QED
  BY <1>1 DEF RouteBy

(* Publishing an interrupt keeps injection_info and the notifications well
   formed. *)
LEMMA AssertType ==
  ASSUME TypeOK, NEW t \in Thread, NEW i \in Irq, NEW target \in Vcpu \cup {Invalid},
         assert_pi(t, i, target)
  PROVE  info' \in [Irq -> Info] /\ notify' \in [Thread -> SUBSET (Irq \X Vcpu)]
<1>1. info' \in [Irq -> Info]
  BY DEF TypeOK, assert_pi, PendingAt, Info
<1>2. notify' \in [Thread -> SUBSET (Irq \X Vcpu)]
  BY DEF TypeOK, assert_pi
<1> QED
  BY <1>1, <1>2

(* So does withdrawing it. *)
LEMMA DeassertType ==
  ASSUME TypeOK, NEW i \in Irq, deassert_pi(i)
  PROVE  info' \in [Irq -> Info]
<1>1. ZeroInfo \in Info
  BY GicAssumption DEF ZeroInfo, Info, Vcpu
<1> QED
  BY <1>1 DEF TypeOK, deassert_pi

(* The bound on the calls of devices and the writes to registers is kept. *)
LEMMA StimulusType ==
  ASSUME TypeOK, Stimulus
  PROVE  stimuli' \in 0 .. MaxStimuli
  BY GicAssumption DEF TypeOK, Stimulus

(* So does clearing bits of it. *)
LEMMA ClearType ==
  ASSUME NEW x \in Info, NEW b
  PROVE  Clear(x, b) \in Info
  BY DEF Clear, Info

(* Every step keeps the types. *)
LEMMA TypeStep ==
  ASSUME TypeOK, ThreadOK, [Next]_vars
  PROVE  TypeOK'
<1>1. ASSUME NEW t \in Thread, NotifyTarget(t)
      PROVE  TypeOK'
  BY <1>1 DEF TypeOK, irqVars, bits, vcpuVars, NotifyTarget, Thread
<1>2. ASSUME NEW i \in Irq, NEW h \in Vcpu, AssertLine(i, h)
      PROVE  TypeOK'
  <2>1. (IF i \in Spi THEN route_spi(i, h) ELSE Home[i]) \in Vcpu \cup {Invalid}
    BY <1>2, RouteType, GicAssumption DEF TypeOK, route_spi, AssertLine, Private
  <2>2. assert_pi(i, i, (IF i \in Spi THEN route_spi(i, h) ELSE Home[i]))
    BY <1>2 DEF AssertLine
  <2>3. info' \in [Irq -> Info] /\ notify' \in [Thread -> SUBSET (Irq \X Vcpu)]
    BY <2>1, <2>2, AssertType DEF Thread
  <2> QED
    BY <1>2, <2>3, StimulusType DEF TypeOK, irqVars, bits, vcpuVars, AssertLine
<1>3. ASSUME NEW i \in Irq, NEW v \in Vcpu, AssertLpi(i, v)
      PROVE  TypeOK'
  <2>1. v \in Vcpu \cup {Invalid}
    OBVIOUS
  <2>2. assert_pi(i, i, v)
    BY <1>3 DEF AssertLpi
  <2>3. info' \in [Irq -> Info] /\ notify' \in [Thread -> SUBSET (Irq \X Vcpu)]
    BY <2>1, <2>2, AssertType DEF Thread
  <2> QED
    BY <1>3, <2>3, StimulusType DEF TypeOK, irqVars, bits, vcpuVars, AssertLpi
<1>4. ASSUME NEW i \in Irq, DeassertLine(i)
      PROVE  TypeOK'
  BY <1>4, StimulusType DEF TypeOK, irqVars, bits, vcpuVars, DeassertLine
<1>5. ASSUME NEW i \in Irq, DeassertPi(i)
      PROVE  TypeOK'
  BY <1>5, DeassertType DEF TypeOK, irqVars, bits, vcpuVars, DeassertPi
<1>6. ASSUME NEW v \in Vcpu, NEW i \in Irq, WriteEnable(v, i)
      PROVE  TypeOK'
  BY <1>6, StimulusType DEF TypeOK, irqVars, bits, vcpuVars, WriteEnable, Toggle
<1>7. ASSUME NEW v \in Vcpu, NEW i \in Irq, WriteActive(v, i)
      PROVE  TypeOK'
  BY <1>7, StimulusType DEF TypeOK, irqVars, bits, vcpuVars, WriteActive, Toggle
<1>8. ASSUME NEW v \in Vcpu, NEW i \in Irq, WriteIcpendr(v, i)
      PROVE  TypeOK'
  BY <1>8, StimulusType, DeassertType DEF TypeOK, irqVars, bits, vcpuVars, WriteIcpendr
<1>9. ASSUME NEW v \in Vcpu, NEW i \in Irq, SendSgi(v, i)
      PROVE  TypeOK'
  <2>1. Home[i] \in Vcpu \cup {Invalid}
    BY <1>9, GicAssumption DEF SendSgi, Private
  <2>2. assert_pi(v, i, Home[i])
    BY <1>9 DEF SendSgi
  <2>3. info' \in [Irq -> Info] /\ notify' \in [Thread -> SUBSET (Irq \X Vcpu)]
    BY <2>1, <2>2, AssertType DEF Thread
  <2> QED
    BY <1>9, <2>3, StimulusType DEF TypeOK, irqVars, bits, vcpuVars, SendSgi
<1>10. ASSUME NEW v \in Vcpu, NEW i \in Irq, NEW h \in Vcpu, WriteIspendr(v, i, h)
      PROVE  TypeOK'
  <2>1. (IF i \in Spi THEN route_spi(i, h) ELSE Home[i]) \in Vcpu \cup {Invalid}
    BY <1>10, RouteType, GicAssumption
    DEF TypeOK, route_spi, WriteIspendr, Accessible, Private
  <2>2. assert_pi(v, i, (IF i \in Spi THEN route_spi(i, h) ELSE Home[i]))
    BY <1>10 DEF WriteIspendr
  <2>3. info' \in [Irq -> Info] /\ notify' \in [Thread -> SUBSET (Irq \X Vcpu)]
    BY <2>1, <2>2, AssertType DEF Thread
  <2> QED
    BY <1>10, <2>3, StimulusType DEF TypeOK, irqVars, bits, vcpuVars, WriteIspendr
<1>11. ASSUME NEW v \in Vcpu, NEW i \in Irq, NEW h \in Vcpu,
              NEW r \in Vcpu \cup {AnyVcpu, NoCluster},
              WriteIrouter(v, i, r, h)
      PROVE  TypeOK'
  <2>1. RouteBy(r, h) \in Vcpu \cup {Invalid}
    BY RouteType
  <2>2. UNCHANGED <<info, notify>> \/ assert_pi(v, i, RouteBy(r, h))
    BY <1>11 DEF WriteIrouter, redirect_spi
  <2>3. info' \in [Irq -> Info] /\ notify' \in [Thread -> SUBSET (Irq \X Vcpu)]
    BY <2>1, <2>2, AssertType DEF Thread, TypeOK
  <2> QED
    BY <1>11, <2>3, StimulusType DEF TypeOK, irqVars, bits, vcpuVars, WriteIrouter
<1>12. ASSUME NEW v \in Vcpu, NEW s \in BOOLEAN, WriteWaker(v, s)
      PROVE  TypeOK'
  BY <1>12, StimulusType DEF TypeOK, irqVars, bits, vcpuVars, WriteWaker, Pc
<1>13. ASSUME NEW v \in Vcpu, PendingIrq(v)
      PROVE  TypeOK'
  BY <1>13 DEF TypeOK, irqVars, bits, vcpuVars, PendingIrq, Pc
<1>14. ASSUME NEW v \in Vcpu, NEW masked \in BOOLEAN, EndScan(v, masked)
      PROVE  TypeOK'
  BY <1>14, GicAssumption DEF TypeOK, irqVars, bits, vcpuVars, EndScan, Pc
<1>15. ASSUME NEW v \in Vcpu, InjectCas(v)
      PROVE  TypeOK'
  <2>1. [info[cur[v]] EXCEPT !.injected = TRUE] \in Info
    <3>1. info[cur[v]] \in Info
      BY <1>15 DEF ThreadOK, TypeOK, InjectCas
    <3> QED
      BY <3>1 DEF Info
  <2>2. info' \in [Irq -> Info]
    BY <1>15, <2>1 DEF TypeOK, InjectCas
  <2> QED
    BY <1>15, <2>2 DEF TypeOK, irqVars, bits, vcpuVars, InjectCas, Pc
<1>16. ASSUME NEW v \in Vcpu, Publish(v)
      PROVE  TypeOK'
  BY <1>16 DEF TypeOK, irqVars, bits, vcpuVars, Publish, LrState, Pc, ThreadOK
<1>17. ASSUME NEW v \in Vcpu, UpdateCas(v)
      PROVE  TypeOK'
  BY <1>17, ClearType DEF TypeOK, irqVars, bits, vcpuVars, UpdateCas, Pc, ThreadOK
<1>18. ASSUME NEW v \in Vcpu, Repend(v)
      PROVE  TypeOK'
  BY <1>18 DEF TypeOK, irqVars, bits, vcpuVars, Repend, Pc, ThreadOK
<1>19. ASSUME NEW v \in Vcpu, NEW i \in Irq, VisitCandidate(v, i)
      PROVE  TypeOK'
  BY <1>19, GicAssumption DEF TypeOK, irqVars, bits, vcpuVars, VisitCandidate, After
<1>20. ASSUME NEW v \in Vcpu, NEW i \in Irq, VisitOther(v, i)
      PROVE  TypeOK'
  <2>1. CASE vcpu_can_receive_irq(v, i)
    <3>1. UNCHANGED <<info, notify>>
      BY <1>20, <2>1 DEF VisitOther
    <3>2. pos' \in [Vcpu -> 0 .. MAX_IRQ]
      BY <1>20, GicAssumption DEF TypeOK, VisitOther, After
    <3> QED
      BY <1>20, <3>1, <3>2 DEF TypeOK, irqVars, bits, vcpuVars, VisitOther
  <2>2. CASE ~vcpu_can_receive_irq(v, i)
    <3>1. i \in Spi \cup Lpi /\ (v + 1) % N \in Vcpu
      BY <2>2, GicAssumption DEF vcpu_can_receive_irq, Vcpu
    <3>2. route_spi(i, (v + 1) % N) \in Vcpu \cup {Invalid}
      BY <3>1, RouteType DEF TypeOK, route_spi
    <3>3. UNCHANGED <<info, notify>> \/ assert_pi(v, i, route_spi(i, (v + 1) % N))
      BY <1>20, <2>2 DEF VisitOther, redirect_spi
    <3>4. info' \in [Irq -> Info] /\ notify' \in [Thread -> SUBSET (Irq \X Vcpu)]
      BY <3>2, <3>3, AssertType DEF Thread, TypeOK
    <3>5. pos' \in [Vcpu -> 0 .. MAX_IRQ]
      BY <1>20, GicAssumption DEF TypeOK, VisitOther, After
    <3> QED
      BY <1>20, <3>4, <3>5 DEF TypeOK, irqVars, bits, vcpuVars, VisitOther
  <2> QED
    BY <2>1, <2>2
<1>21. ASSUME NEW v \in Vcpu, NEW i \in Irq, NEW keep \in BOOLEAN, Update(v, i, keep)
      PROVE  TypeOK'
  <2>1. lr' \in [Vcpu -> [Irq -> LrState]]
    <3>1. CASE keep
      BY <1>21, <3>1 DEF TypeOK, Update
    <3>2. CASE ~keep
      <4>1. lr' = [lr EXCEPT ![v][i] = "none"]
        BY <1>21, <3>2 DEF Update
      <4> QED
        BY <4>1 DEF TypeOK, LrState
    <3> QED
      BY <3>1, <3>2
  <2>2. clears' \in [Vcpu -> SUBSET {"injected", "pending"}]
    BY <1>21 DEF TypeOK, Update
  <2>3. in_injection_irqs' \in [Vcpu -> SUBSET Irq]
    BY <1>21 DEF TypeOK, Update
  <2>4. pc' \in [Vcpu -> Pc] /\ cur' \in [Vcpu -> Irq \cup {NoIrq}] /\ active' \subseteq Irq
    BY <1>21 DEF TypeOK, Update, Pc
  <2> QED
    BY <1>21, <2>1, <2>2, <2>3, <2>4 DEF TypeOK, Update
<1>22. ASSUME NEW v \in Vcpu, NEW i \in Irq, Guest(v, i)
      PROVE  TypeOK'
  BY <1>22 DEF TypeOK, irqVars, bits, vcpuVars, Guest, GuestMove, LrState
<1>23. CASE UNCHANGED vars
  BY <1>23 DEF TypeOK, irqVars, bits, vcpuVars, vars
<1> QED
  BY <1>1, <1>2, <1>3, <1>4, <1>5, <1>6, <1>7, <1>8, <1>9, <1>10, <1>11, <1>12, <1>13,
     <1>14, <1>15, <1>16, <1>17, <1>18, <1>19, <1>20, <1>21, <1>22, <1>23
  DEF Next, Device, Registers, Injection

(* A thread without an interrupt in hand is distinguished from all others. *)
LEMMA NoIrqIsNone == NoIrq \notin Irq
  BY GicAssumption DEF NoIrq

(* Every step keeps a thread and its list registers in agreement. *)
LEMMA ThreadStep ==
  ASSUME TypeOK, ThreadOK, [Next]_vars
  PROVE  ThreadOK'
<1>1. ASSUME NEW t \in Thread, NotifyTarget(t)
      PROVE  ThreadOK'
  BY <1>1 DEF TypeOK, ThreadOK, irqVars, bits, vcpuVars, NotifyTarget
<1>2. ASSUME NEW i \in Irq, NEW h \in Vcpu, AssertLine(i, h)
      PROVE  ThreadOK'
  BY <1>2 DEF TypeOK, ThreadOK, irqVars, bits, vcpuVars, AssertLine
<1>3. ASSUME NEW i \in Irq, NEW v \in Vcpu, AssertLpi(i, v)
      PROVE  ThreadOK'
  BY <1>3 DEF TypeOK, ThreadOK, irqVars, bits, vcpuVars, AssertLpi
<1>4. ASSUME NEW i \in Irq, DeassertLine(i)
      PROVE  ThreadOK'
  BY <1>4 DEF TypeOK, ThreadOK, irqVars, bits, vcpuVars, DeassertLine
<1>5. ASSUME NEW i \in Irq, DeassertPi(i)
      PROVE  ThreadOK'
  BY <1>5 DEF TypeOK, ThreadOK, irqVars, bits, vcpuVars, DeassertPi
<1>6. ASSUME NEW v \in Vcpu, NEW i \in Irq, WriteEnable(v, i)
      PROVE  ThreadOK'
  BY <1>6 DEF TypeOK, ThreadOK, irqVars, bits, vcpuVars, WriteEnable, Idle
<1>7. ASSUME NEW v \in Vcpu, NEW i \in Irq, WriteActive(v, i)
      PROVE  ThreadOK'
  BY <1>7 DEF TypeOK, ThreadOK, irqVars, bits, vcpuVars, WriteActive, Idle
<1>8. ASSUME NEW v \in Vcpu, NEW i \in Irq, WriteIcpendr(v, i)
      PROVE  ThreadOK'
  BY <1>8 DEF TypeOK, ThreadOK, irqVars, bits, vcpuVars, WriteIcpendr, Idle
<1>9. ASSUME NEW v \in Vcpu, NEW i \in Irq, SendSgi(v, i)
      PROVE  ThreadOK'
  BY <1>9 DEF TypeOK, ThreadOK, irqVars, bits, vcpuVars, SendSgi, Idle
<1>10. ASSUME NEW v \in Vcpu, NEW i \in Irq, NEW h \in Vcpu, WriteIspendr(v, i, h)
      PROVE  ThreadOK'
  BY <1>10 DEF TypeOK, ThreadOK, irqVars, bits, vcpuVars, WriteIspendr, Idle
<1>11. ASSUME NEW v \in Vcpu, NEW i \in Irq, NEW h \in Vcpu,
              NEW r \in Vcpu \cup {AnyVcpu, NoCluster},
              WriteIrouter(v, i, r, h)
      PROVE  ThreadOK'
  BY <1>11 DEF TypeOK, ThreadOK, irqVars, bits, vcpuVars, WriteIrouter, Idle
<1>12. ASSUME NEW v \in Vcpu, NEW s \in BOOLEAN, WriteWaker(v, s)
      PROVE  ThreadOK'
  BY <1>12, NoIrqIsNone DEF TypeOK, ThreadOK, irqVars, bits, vcpuVars, WriteWaker, Idle
<1>13. ASSUME NEW v \in Vcpu, PendingIrq(v)
      PROVE  ThreadOK'
  BY <1>13, NoIrqIsNone DEF TypeOK, ThreadOK, irqVars, bits, vcpuVars, PendingIrq, Idle
<1>14. ASSUME NEW v \in Vcpu, NEW masked \in BOOLEAN, EndScan(v, masked)
      PROVE  ThreadOK'
  BY <1>14 DEF TypeOK, ThreadOK, irqVars, bits, vcpuVars, EndScan, Scanning
<1>15. ASSUME NEW v \in Vcpu, InjectCas(v)
      PROVE  ThreadOK'
  BY <1>15 DEF TypeOK, ThreadOK, irqVars, bits, vcpuVars, InjectCas
<1>16. ASSUME NEW v \in Vcpu, Publish(v)
      PROVE  ThreadOK'
  BY <1>16 DEF TypeOK, ThreadOK, irqVars, bits, vcpuVars, Publish
<1>17. ASSUME NEW v \in Vcpu, UpdateCas(v)
      PROVE  ThreadOK'
  BY <1>17 DEF TypeOK, ThreadOK, irqVars, bits, vcpuVars, UpdateCas
<1>18. ASSUME NEW v \in Vcpu, Repend(v)
      PROVE  ThreadOK'
  BY <1>18 DEF TypeOK, ThreadOK, irqVars, bits, vcpuVars, Repend
<1>19. ASSUME NEW v \in Vcpu, NEW i \in Irq, VisitCandidate(v, i)
      PROVE  ThreadOK'
  BY <1>19
  DEF TypeOK, ThreadOK, irqVars, bits, vcpuVars, VisitCandidate, Scanning, Injectable
<1>20. ASSUME NEW v \in Vcpu, NEW i \in Irq, VisitOther(v, i)
      PROVE  ThreadOK'
  BY <1>20 DEF TypeOK, ThreadOK, irqVars, bits, vcpuVars, VisitOther, Scanning
<1>21. ASSUME NEW v \in Vcpu, NEW i \in Irq, NEW keep \in BOOLEAN, Update(v, i, keep)
      PROVE  ThreadOK'
  BY <1>21 DEF TypeOK, ThreadOK, irqVars, bits, vcpuVars, Update, Idle
<1>22. ASSUME NEW v \in Vcpu, NEW i \in Irq, Guest(v, i)
      PROVE  ThreadOK'
  BY <1>22 DEF TypeOK, ThreadOK, irqVars, bits, vcpuVars, Guest, GuestMove, Idle
<1>23. CASE UNCHANGED vars
  BY <1>23 DEF TypeOK, ThreadOK, irqVars, bits, vcpuVars, vars
<1> QED
  BY <1>1, <1>2, <1>3, <1>4, <1>5, <1>6, <1>7, <1>8, <1>9, <1>10, <1>11, <1>12, <1>13,
     <1>14, <1>15, <1>16, <1>17, <1>18, <1>19, <1>20, <1>21, <1>22, <1>23
  DEF Next, Device, Registers, Injection

(* An interrupt that is asserted or redirected is about to be queued, and the
   others are where they were. *)
LEMMA AssertQueued ==
  ASSUME TypeOK, PendingIsQueued,
         NEW t \in Thread, NEW i \in Irq, NEW target \in Vcpu \cup {Invalid},
         notify[t] = {}, assert_pi(t, i, target), UNCHANGED <<bits, pc, cur>>
  PROVE  PendingIsQueued'
<1> SUFFICES ASSUME NEW j \in Irq, NEW v \in Vcpu,
                    info'[j].pending, ~info'[j].injected, info'[j].target = v
             PROVE  Tracked(j, v)'
  BY DEF PendingIsQueued
<1>1. CASE j = i
  <2>1. info'[i].target = target
    BY DEF TypeOK, assert_pi, PendingAt
  <2>2. target = v /\ target # Invalid
    BY <1>1, <2>1, GicAssumption DEF Vcpu, Invalid
  <2>3. <<i, v>> \in notify'[t]
    BY <2>2 DEF TypeOK, assert_pi
  <2> QED
    BY <1>1, <2>3 DEF Tracked
<1>2. CASE j # i
  <2>1. info'[j] = info[j]
    BY <1>2 DEF TypeOK, assert_pi
  <2>2. Tracked(j, v)
    BY <2>1 DEF PendingIsQueued
  <2>3. \A s \in Thread : notify[s] \subseteq notify'[s]
    BY DEF TypeOK, assert_pi
  <2> QED
    BY <2>2, <2>3 DEF Tracked, Busy, bits
<1> QED
  BY <1>1, <1>2

(* No step loses an interrupt that awaits injection. *)
LEMMA QueuedStep ==
  ASSUME TypeOK, ThreadOK, PendingIsQueued, [Next]_vars
  PROVE  PendingIsQueued'
<1>1. ASSUME NEW t \in Thread, NotifyTarget(t)
      PROVE  PendingIsQueued'
  <2> SUFFICES ASSUME NEW j \in Irq, NEW v \in Vcpu,
                      info'[j].pending, ~info'[j].injected, info'[j].target = v
               PROVE  Tracked(j, v)'
    BY DEF PendingIsQueued
  <2>1. PICK n \in notify[t] : /\ pending_irqs' = [pending_irqs EXCEPT ![n[2]] = @ \cup {n[1]}]
                              /\ notify' = [notify EXCEPT ![t] = @ \ {n}]
                              /\ n \in Irq \X Vcpu
    BY <1>1 DEF NotifyTarget, TypeOK
  <2>2. Tracked(j, v) /\ UNCHANGED <<in_injection_irqs, pc, cur>>
    BY <1>1 DEF NotifyTarget, PendingIsQueued, irqVars, vcpuVars
  <2>3. CASE n = <<j, v>>
    <3>1. j \in pending_irqs'[v]
      BY <2>1, <2>3 DEF TypeOK
    <3> QED
      BY <3>1 DEF Tracked
  <2>4. CASE n # <<j, v>>
    <3>1. pending_irqs[v] \subseteq pending_irqs'[v]
      BY <2>1 DEF TypeOK
    <3>2. \A s \in Thread : <<j, v>> \in notify[s] => <<j, v>> \in notify'[s]
      BY <2>1, <2>4 DEF TypeOK
    <3> QED
      BY <2>2, <3>1, <3>2 DEF Tracked, Busy
  <2> QED
    BY <2>3, <2>4
<1>2. ASSUME NEW i \in Irq, NEW h \in Vcpu, AssertLine(i, h)
      PROVE  PendingIsQueued'
  <2>1. (IF i \in Spi THEN route_spi(i, h) ELSE Home[i]) \in Vcpu \cup {Invalid}
    BY <1>2, RouteType, GicAssumption DEF TypeOK, route_spi, AssertLine, Private
  <2>2. /\ assert_pi(i, i, (IF i \in Spi THEN route_spi(i, h) ELSE Home[i]))
        /\ notify[i] = {}
        /\ UNCHANGED <<bits, pc, cur>>
    BY <1>2 DEF AssertLine, DeviceIdle, vcpuVars
  <2> QED
    BY <2>1, <2>2, AssertQueued DEF Thread
<1>3. ASSUME NEW i \in Irq, NEW v \in Vcpu, AssertLpi(i, v)
      PROVE  PendingIsQueued'
  <2>1. v \in Vcpu \cup {Invalid}
    OBVIOUS
  <2>2. assert_pi(i, i, v) /\ notify[i] = {} /\ UNCHANGED <<bits, pc, cur>>
    BY <1>3 DEF AssertLpi, DeviceIdle, vcpuVars
  <2> QED
    BY <2>1, <2>2, AssertQueued DEF Thread
<1>4. ASSUME NEW i \in Irq, DeassertLine(i)
      PROVE  PendingIsQueued'
  BY <1>4
  DEF TypeOK, ThreadOK, PendingIsQueued, Tracked, Busy, Info, irqVars, bits, vcpuVars,
      DeassertLine, DeviceIdle
<1>5. ASSUME NEW i \in Irq, DeassertPi(i)
      PROVE  PendingIsQueued'
  BY <1>5
  DEF TypeOK, ThreadOK, PendingIsQueued, Tracked, Busy, Info, irqVars, bits, vcpuVars,
      DeassertPi, deassert_pi, ZeroInfo
<1>6. ASSUME NEW v \in Vcpu, NEW i \in Irq, WriteEnable(v, i)
      PROVE  PendingIsQueued'
  BY <1>6
  DEF TypeOK, ThreadOK, PendingIsQueued, Tracked, Busy, Info, irqVars, bits, vcpuVars,
      WriteEnable, Idle
<1>7. ASSUME NEW v \in Vcpu, NEW i \in Irq, WriteActive(v, i)
      PROVE  PendingIsQueued'
  BY <1>7
  DEF TypeOK, ThreadOK, PendingIsQueued, Tracked, Busy, Info, irqVars, bits, vcpuVars,
      WriteActive, Idle
<1>8. ASSUME NEW v \in Vcpu, NEW i \in Irq, WriteIcpendr(v, i)
      PROVE  PendingIsQueued'
  BY <1>8
  DEF TypeOK, ThreadOK, PendingIsQueued, Tracked, Busy, Info, irqVars, bits, vcpuVars,
      WriteIcpendr, Idle, deassert_pi, ZeroInfo
<1>9. ASSUME NEW v \in Vcpu, NEW i \in Irq, SendSgi(v, i)
      PROVE  PendingIsQueued'
  <2>1. Home[i] \in Vcpu \cup {Invalid}
    BY <1>9, GicAssumption DEF SendSgi, Private
  <2>2. assert_pi(v, i, Home[i]) /\ notify[v] = {} /\ UNCHANGED <<bits, pc, cur>>
    BY <1>9 DEF SendSgi, Idle, vcpuVars
  <2> QED
    BY <2>1, <2>2, AssertQueued DEF Thread
<1>10. ASSUME NEW v \in Vcpu, NEW i \in Irq, NEW h \in Vcpu, WriteIspendr(v, i, h)
      PROVE  PendingIsQueued'
  <2>1. (IF i \in Spi THEN route_spi(i, h) ELSE Home[i]) \in Vcpu \cup {Invalid}
    BY <1>10, RouteType, GicAssumption
    DEF TypeOK, route_spi, WriteIspendr, Accessible, Private
  <2>2. /\ assert_pi(v, i, (IF i \in Spi THEN route_spi(i, h) ELSE Home[i]))
        /\ notify[v] = {}
        /\ UNCHANGED <<bits, pc, cur>>
    BY <1>10 DEF WriteIspendr, Idle, vcpuVars
  <2> QED
    BY <2>1, <2>2, AssertQueued DEF Thread
<1>11. ASSUME NEW v \in Vcpu, NEW i \in Irq, NEW h \in Vcpu,
              NEW r \in Vcpu \cup {AnyVcpu, NoCluster},
              WriteIrouter(v, i, r, h)
      PROVE  PendingIsQueued'
  <2>1. RouteBy(r, h) \in Vcpu \cup {Invalid}
    BY RouteType
  <2>2. notify[v] = {} /\ UNCHANGED <<bits, pc, cur>>
    BY <1>11 DEF WriteIrouter, Idle, vcpuVars
  <2>3. UNCHANGED <<info, notify>> \/ assert_pi(v, i, RouteBy(r, h))
    BY <1>11 DEF WriteIrouter, redirect_spi
  <2>4. CASE UNCHANGED <<info, notify>>
    BY <2>2, <2>4 DEF PendingIsQueued, Tracked, Busy, bits
  <2> QED
    BY <2>1, <2>2, <2>3, <2>4, AssertQueued DEF Thread
<1>12. ASSUME NEW v \in Vcpu, NEW s \in BOOLEAN, WriteWaker(v, s)
      PROVE  PendingIsQueued'
  BY <1>12
  DEF TypeOK, ThreadOK, PendingIsQueued, Tracked, Busy, Info, irqVars, bits, vcpuVars,
      WriteWaker, Idle
<1>13. ASSUME NEW v \in Vcpu, PendingIrq(v)
      PROVE  PendingIsQueued'
  BY <1>13
  DEF TypeOK, ThreadOK, PendingIsQueued, Tracked, Busy, Info, irqVars, bits, vcpuVars,
      PendingIrq, Idle
<1>14. ASSUME NEW v \in Vcpu, NEW masked \in BOOLEAN, EndScan(v, masked)
      PROVE  PendingIsQueued'
  BY <1>14
  DEF TypeOK, ThreadOK, PendingIsQueued, Tracked, Busy, Info, irqVars, bits, vcpuVars,
      EndScan, Scanning
<1>15. ASSUME NEW v \in Vcpu, InjectCas(v)
      PROVE  PendingIsQueued'
  BY <1>15
  DEF TypeOK, ThreadOK, PendingIsQueued, Tracked, Busy, Info, irqVars, bits, vcpuVars,
      InjectCas
<1>16. ASSUME NEW v \in Vcpu, Publish(v)
      PROVE  PendingIsQueued'
  BY <1>16
  DEF TypeOK, ThreadOK, PendingIsQueued, Tracked, Busy, Info, irqVars, bits, vcpuVars,
      Publish
<1>17. ASSUME NEW v \in Vcpu, UpdateCas(v)
      PROVE  PendingIsQueued'
  <2> SUFFICES ASSUME NEW j \in Irq, NEW u \in Vcpu,
                      info'[j].pending, ~info'[j].injected, info'[j].target = u
               PROVE  Tracked(j, u)'
    BY DEF PendingIsQueued
  <2>1. UNCHANGED <<bits, cur, notify>> /\ cur[v] \in Irq
    BY <1>17 DEF UpdateCas, ThreadOK
  <2>2. CASE u = v /\ j = cur[v]
    <3>1. pc'[v] = "repend"
      BY <1>17 DEF UpdateCas, TypeOK
    <3> QED
      BY <2>1, <2>2, <3>1 DEF Tracked, Busy
  <2>3. CASE ~(u = v /\ j = cur[v])
    <3>1. info'[j].target = info[j].target
      BY <1>17, <2>1 DEF UpdateCas, TypeOK, Clear
    <3>2. info[j].pending /\ ~info[j].injected
      <4>1. CASE info'[j] = info[j]
        BY <4>1
      <4>2. CASE info'[j] # info[j]
        <5>1. j = cur[v] /\ Mine(v, j)
          BY <1>17, <2>1, <4>2 DEF UpdateCas, TypeOK
        <5>2. info[j].target = Invalid
          BY <2>3, <5>1, <3>1 DEF Mine, Targeting
        <5> QED
          BY <5>2, <3>1, GicAssumption DEF Vcpu, Invalid
      <4> QED
        BY <4>1, <4>2
    <3>3. Tracked(j, u)
      BY <3>1, <3>2 DEF PendingIsQueued
    <3>4. \A where : ~Busy(v, j, where) \/ u # v
      BY <2>3 DEF Busy
    <3> QED
      BY <1>17, <2>1, <3>3, <3>4 DEF Tracked, Busy, UpdateCas, TypeOK, bits
  <2> QED
    BY <2>2, <2>3
<1>18. ASSUME NEW v \in Vcpu, Repend(v)
      PROVE  PendingIsQueued'
  <2> SUFFICES ASSUME NEW j \in Irq, NEW u \in Vcpu,
                      info'[j].pending, ~info'[j].injected, info'[j].target = u
               PROVE  Tracked(j, u)'
    BY DEF PendingIsQueued
  <2>1. UNCHANGED <<info, in_injection_irqs, notify>> /\ cur[v] \in Irq
    BY <1>18 DEF Repend, irqVars, ThreadOK
  <2>2. Tracked(j, u)
    BY <2>1 DEF PendingIsQueued
  <2>3. CASE u = v /\ j = cur[v]
    <3>1. j \in pending_irqs'[v]
      BY <1>18, <2>1, <2>3 DEF Repend, TypeOK, IrqPending
    <3> QED
      BY <2>3, <3>1 DEF Tracked
  <2>4. CASE ~(u = v /\ j = cur[v])
    <3>1. pending_irqs[u] \subseteq pending_irqs'[u]
      BY <1>18 DEF Repend, TypeOK
    <3>2. Busy(u, j, {"publish", "update", "repend"}) => Busy(u, j, {"publish", "update", "repend"})'
      BY <1>18, <2>4 DEF Repend, TypeOK, Busy
    <3> QED
      BY <2>1, <2>2, <3>1, <3>2 DEF Tracked
  <2> QED
    BY <2>3, <2>4
<1>19. ASSUME NEW v \in Vcpu, NEW i \in Irq, VisitCandidate(v, i)
      PROVE  PendingIsQueued'
  BY <1>19
  DEF TypeOK, ThreadOK, PendingIsQueued, Tracked, Busy, Info, irqVars, bits, vcpuVars,
      VisitCandidate, Scanning
<1>20. ASSUME NEW v \in Vcpu, NEW i \in Irq, VisitOther(v, i)
      PROVE  PendingIsQueued'
  <2>1. notify[v] = {} /\ UNCHANGED <<bits, pc, cur>>
    BY <1>20 DEF VisitOther, Scanning
  <2>2. CASE UNCHANGED <<info, notify>>
    BY <2>1, <2>2 DEF PendingIsQueued, Tracked, Busy, bits
  <2>3. CASE ~UNCHANGED <<info, notify>>
    <3>1. ~vcpu_can_receive_irq(v, i) /\ assert_pi(v, i, route_spi(i, (v + 1) % N))
      BY <1>20, <2>3 DEF VisitOther, redirect_spi
    <3>2. i \in Spi \cup Lpi /\ (v + 1) % N \in Vcpu
      BY <3>1, GicAssumption DEF vcpu_can_receive_irq, Vcpu
    <3>3. route_spi(i, (v + 1) % N) \in Vcpu \cup {Invalid}
      BY <3>2, RouteType DEF TypeOK, route_spi
    <3> QED
      BY <2>1, <3>1, <3>3, AssertQueued DEF Thread
  <2> QED
    BY <2>2, <2>3
<1>21. ASSUME NEW v \in Vcpu, NEW i \in Irq, NEW keep \in BOOLEAN, Update(v, i, keep)
      PROVE  PendingIsQueued'
  BY <1>21
  DEF TypeOK, ThreadOK, PendingIsQueued, Tracked, Busy, Info, irqVars, bits, vcpuVars,
      Update, Idle
<1>22. ASSUME NEW v \in Vcpu, NEW i \in Irq, Guest(v, i)
      PROVE  PendingIsQueued'
  BY <1>22
  DEF TypeOK, ThreadOK, PendingIsQueued, Tracked, Busy, Info, irqVars, bits, vcpuVars,
      Guest, GuestMove, Idle
<1>23. CASE UNCHANGED vars
  BY <1>23
  DEF TypeOK, ThreadOK, PendingIsQueued, Tracked, Busy, Info, irqVars, bits, vcpuVars,
      vars
<1> QED
  BY <1>1, <1>2, <1>3, <1>4, <1>5, <1>6, <1>7, <1>8, <1>9, <1>10, <1>11, <1>12, <1>13,
     <1>14, <1>15, <1>16, <1>17, <1>18, <1>19, <1>20, <1>21, <1>22, <1>23
  DEF Next, Device, Registers, Injection

(* An interrupt that is asserted or redirected is not injected. *)
LEMMA AssertHeld ==
  ASSUME TypeOK, InjectedIsHeld,
         NEW t \in Thread, NEW i \in Irq, NEW target \in Vcpu \cup {Invalid},
         assert_pi(t, i, target), UNCHANGED <<bits, pc, cur>>
  PROVE  InjectedIsHeld'
  BY DEF TypeOK, InjectedIsHeld, Busy, Targeting, assert_pi, PendingAt, bits

(* No step leaves an injected bit behind. *)
LEMMA HeldStep ==
  ASSUME TypeOK, ThreadOK, InjectedIsHeld, [Next]_vars
  PROVE  InjectedIsHeld'
<1>1. ASSUME NEW t \in Thread, NotifyTarget(t)
      PROVE  InjectedIsHeld'
  BY <1>1
  DEF TypeOK, ThreadOK, InjectedIsHeld, Busy, Targeting, PendingAt, Info, irqVars,
      bits, vcpuVars, NotifyTarget
<1>2. ASSUME NEW i \in Irq, NEW h \in Vcpu, AssertLine(i, h)
      PROVE  InjectedIsHeld'
  BY <1>2
  DEF TypeOK, ThreadOK, InjectedIsHeld, Busy, Targeting, PendingAt, Info, irqVars,
      bits, vcpuVars, AssertLine, DeviceIdle, assert_pi
<1>3. ASSUME NEW i \in Irq, NEW v \in Vcpu, AssertLpi(i, v)
      PROVE  InjectedIsHeld'
  BY <1>3
  DEF TypeOK, ThreadOK, InjectedIsHeld, Busy, Targeting, PendingAt, Info, irqVars,
      bits, vcpuVars, AssertLpi, DeviceIdle, assert_pi
<1>4. ASSUME NEW i \in Irq, DeassertLine(i)
      PROVE  InjectedIsHeld'
  BY <1>4
  DEF TypeOK, ThreadOK, InjectedIsHeld, Busy, Targeting, PendingAt, Info, irqVars,
      bits, vcpuVars, DeassertLine, DeviceIdle
<1>5. ASSUME NEW i \in Irq, DeassertPi(i)
      PROVE  InjectedIsHeld'
  BY <1>5
  DEF TypeOK, ThreadOK, InjectedIsHeld, Busy, Targeting, PendingAt, Info, irqVars,
      bits, vcpuVars, DeassertPi, deassert_pi, ZeroInfo
<1>6. ASSUME NEW v \in Vcpu, NEW i \in Irq, WriteEnable(v, i)
      PROVE  InjectedIsHeld'
  BY <1>6
  DEF TypeOK, ThreadOK, InjectedIsHeld, Busy, Targeting, PendingAt, Info, irqVars,
      bits, vcpuVars, WriteEnable, Idle
<1>7. ASSUME NEW v \in Vcpu, NEW i \in Irq, WriteActive(v, i)
      PROVE  InjectedIsHeld'
  BY <1>7
  DEF TypeOK, ThreadOK, InjectedIsHeld, Busy, Targeting, PendingAt, Info, irqVars,
      bits, vcpuVars, WriteActive, Idle
<1>8. ASSUME NEW v \in Vcpu, NEW i \in Irq, WriteIcpendr(v, i)
      PROVE  InjectedIsHeld'
  BY <1>8
  DEF TypeOK, ThreadOK, InjectedIsHeld, Busy, Targeting, PendingAt, Info, irqVars,
      bits, vcpuVars, WriteIcpendr, Idle, deassert_pi, ZeroInfo
<1>9. ASSUME NEW v \in Vcpu, NEW i \in Irq, SendSgi(v, i)
      PROVE  InjectedIsHeld'
  BY <1>9
  DEF TypeOK, ThreadOK, InjectedIsHeld, Busy, Targeting, PendingAt, Info, irqVars,
      bits, vcpuVars, SendSgi, Idle, assert_pi
<1>10. ASSUME NEW v \in Vcpu, NEW i \in Irq, NEW h \in Vcpu, WriteIspendr(v, i, h)
      PROVE  InjectedIsHeld'
  BY <1>10
  DEF TypeOK, ThreadOK, InjectedIsHeld, Busy, Targeting, PendingAt, Info, irqVars,
      bits, vcpuVars, WriteIspendr, Idle, assert_pi
<1>11. ASSUME NEW v \in Vcpu, NEW i \in Irq, NEW h \in Vcpu,
              NEW r \in Vcpu \cup {AnyVcpu, NoCluster},
              WriteIrouter(v, i, r, h)
      PROVE  InjectedIsHeld'
  <2>1. RouteBy(r, h) \in Vcpu \cup {Invalid}
    BY RouteType
  <2>2. notify[v] = {} /\ UNCHANGED <<bits, pc, cur>>
    BY <1>11 DEF WriteIrouter, Idle, vcpuVars
  <2>3. UNCHANGED <<info, notify>> \/ assert_pi(v, i, RouteBy(r, h))
    BY <1>11 DEF WriteIrouter, redirect_spi
  <2>4. CASE UNCHANGED <<info, notify>>
    BY <2>2, <2>4 DEF InjectedIsHeld, Targeting, Busy, bits
  <2> QED
    BY <2>1, <2>2, <2>3, <2>4, AssertHeld DEF Thread
<1>12. ASSUME NEW v \in Vcpu, NEW s \in BOOLEAN, WriteWaker(v, s)
      PROVE  InjectedIsHeld'
  BY <1>12
  DEF TypeOK, ThreadOK, InjectedIsHeld, Busy, Targeting, PendingAt, Info, irqVars,
      bits, vcpuVars, WriteWaker, Idle
<1>13. ASSUME NEW v \in Vcpu, PendingIrq(v)
      PROVE  InjectedIsHeld'
  BY <1>13
  DEF TypeOK, ThreadOK, InjectedIsHeld, Busy, Targeting, PendingAt, Info, irqVars,
      bits, vcpuVars, PendingIrq, Idle
<1>14. ASSUME NEW v \in Vcpu, NEW masked \in BOOLEAN, EndScan(v, masked)
      PROVE  InjectedIsHeld'
  <2>1. UNCHANGED <<info, bits>>
    BY <1>14 DEF EndScan, irqVars
  <2>2. ASSUME NEW j \in Irq, NEW u \in Vcpu, Busy(u, j, {"publish", "update"})
        PROVE  Busy(u, j, {"publish", "update"})'
    <3>1. u # v
      BY <1>14, <2>2 DEF EndScan, Scanning, Busy
    <3> QED
      BY <1>14, <2>2, <3>1 DEF EndScan, Busy, TypeOK
  <2>3. ASSUME NEW j \in Irq, info'[j].injected
        PROVE  \E u \in Vcpu : /\ info'[j].target \in {u, Invalid}
                               /\ j \in in_injection_irqs'[u] \/ Busy(u, j, {"publish", "update"})'
    <3>1. PICK u \in Vcpu : /\ Targeting(j, u)
                            /\ j \in in_injection_irqs[u] \/ Busy(u, j, {"publish", "update"})
      <4>1. info[j].injected
        BY <2>1, <2>3
      <4> QED
        BY <4>1 DEF InjectedIsHeld
    <3>2. info'[j].target \in {u, Invalid}
      BY <2>1, <3>1 DEF Targeting
    <3>3. j \in in_injection_irqs'[u] \/ Busy(u, j, {"publish", "update"})'
      BY <2>1, <2>2, <3>1 DEF bits
    <3> QED
      BY <3>2, <3>3
  <2> QED
    BY <2>3 DEF InjectedIsHeld, Targeting
<1>15. ASSUME NEW v \in Vcpu, InjectCas(v)
      PROVE  InjectedIsHeld'
  <2>1. CASE info[cur[v]].pending /\ Targeting(cur[v], v)
    <3>1. UNCHANGED <<bits, cur>> /\ pc' = [pc EXCEPT ![v] = "publish"] /\ cur[v] \in Irq
      BY <1>15, <2>1 DEF InjectCas, ThreadOK
    <3>2. info' = [info EXCEPT ![cur[v]].injected = TRUE]
      BY <1>15, <2>1 DEF InjectCas
    <3>3. \A j \in Irq : info'[j].target = info[j].target
      BY <3>1, <3>2 DEF TypeOK, Info
    <3>4. ASSUME NEW j \in Irq, info'[j].injected
          PROVE  \E u \in Vcpu : /\ info'[j].target \in {u, Invalid}
                                 /\ j \in in_injection_irqs'[u] \/ Busy(u, j, {"publish", "update"})'
      <4>1. CASE j = cur[v]
        BY <2>1, <3>1, <3>3, <4>1 DEF Busy, Targeting, TypeOK
      <4>2. CASE j # cur[v]
        <5>1. info'[j] = info[j]
          BY <3>1, <3>2, <4>2 DEF TypeOK
        <5>2. PICK u \in Vcpu : /\ Targeting(j, u)
                                /\ j \in in_injection_irqs[u] \/ Busy(u, j, {"publish", "update"})
          BY <3>4, <5>1 DEF InjectedIsHeld
        <5>3. info'[j].target \in {u, Invalid}
          BY <5>1, <5>2 DEF Targeting
        <5>4. Busy(u, j, {"publish", "update"}) => Busy(u, j, {"publish", "update"})'
          BY <1>15, <3>1, <4>2 DEF Busy, TypeOK, InjectCas
        <5> QED
          BY <3>1, <5>2, <5>3, <5>4 DEF bits
      <4> QED
        BY <4>1, <4>2
    <3> QED
      BY <3>4 DEF InjectedIsHeld, Targeting
  <2>2. CASE ~(info[cur[v]].pending /\ Targeting(cur[v], v))
    BY <1>15, <2>2 DEF TypeOK, InjectedIsHeld, Busy, Targeting, InjectCas, bits
  <2> QED
    BY <2>1, <2>2
<1>16. ASSUME NEW v \in Vcpu, Publish(v)
      PROVE  InjectedIsHeld'
  BY <1>16
  DEF TypeOK, ThreadOK, InjectedIsHeld, Busy, Targeting, PendingAt, Info, irqVars,
      bits, vcpuVars, Publish
<1>17. ASSUME NEW v \in Vcpu, UpdateCas(v)
      PROVE  InjectedIsHeld'
  <2>1. UNCHANGED <<bits, cur>> /\ cur[v] \in Irq /\ pc[v] = "update"
    BY <1>17 DEF UpdateCas, ThreadOK
  <2>2. ASSUME NEW j \in Irq, info'[j].injected
        PROVE  \E u \in Vcpu : /\ info'[j].target \in {u, Invalid}
                               /\ j \in in_injection_irqs'[u] \/ Busy(u, j, {"publish", "update"})'
    <3>1. info'[j].target = info[j].target /\ info[j].injected
      BY <1>17, <2>1, <2>2 DEF UpdateCas, TypeOK, Clear
    <3>2. CASE j = cur[v] /\ Targeting(j, v)
      <4>1. "injected" \notin clears[v]
        BY <1>17, <2>1, <2>2, <3>1, <3>2 DEF UpdateCas, TypeOK, Mine, Clear
      <4>2. j \in in_injection_irqs[v]
        BY <2>1, <3>2, <4>1 DEF ThreadOK
      <4> QED
        BY <2>1, <3>1, <3>2, <4>2 DEF bits, Targeting
    <3>3. CASE ~(j = cur[v] /\ Targeting(j, v))
      <4>1. PICK u \in Vcpu : /\ Targeting(j, u)
                              /\ j \in in_injection_irqs[u] \/ Busy(u, j, {"publish", "update"})
        BY <3>1 DEF InjectedIsHeld
      <4>2. CASE u = v
        <5>1. j # cur[v]
          BY <3>3, <4>1, <4>2 DEF Targeting
        <5>2. j \in in_injection_irqs[v]
          BY <4>1, <4>2, <5>1 DEF Busy
        <5>3. info'[j].target \in {v, Invalid} /\ j \in in_injection_irqs'[v]
          BY <2>1, <3>1, <4>1, <4>2, <5>2 DEF Targeting, bits
        <5> QED
          BY <5>3
      <4>3. CASE u # v
        <5>1. pc'[u] = pc[u]
          BY <1>17, <4>3 DEF UpdateCas, TypeOK
        <5>2. info'[j].target \in {u, Invalid}
          BY <3>1, <4>1 DEF Targeting
        <5>3. j \in in_injection_irqs'[u] \/ Busy(u, j, {"publish", "update"})'
          BY <2>1, <4>1, <5>1 DEF Busy, bits
        <5> QED
          BY <5>2, <5>3
      <4> QED
        BY <4>2, <4>3
    <3> QED
      BY <3>2, <3>3
  <2> QED
    BY <2>2 DEF InjectedIsHeld, Targeting
<1>18. ASSUME NEW v \in Vcpu, Repend(v)
      PROVE  InjectedIsHeld'
  BY <1>18
  DEF TypeOK, ThreadOK, InjectedIsHeld, Busy, Targeting, PendingAt, Info, irqVars,
      bits, vcpuVars, Repend
<1>19. ASSUME NEW v \in Vcpu, NEW i \in Irq, VisitCandidate(v, i)
      PROVE  InjectedIsHeld'
  BY <1>19
  DEF TypeOK, ThreadOK, InjectedIsHeld, Busy, Targeting, PendingAt, Info, irqVars,
      bits, vcpuVars, VisitCandidate, Scanning
<1>20. ASSUME NEW v \in Vcpu, NEW i \in Irq, VisitOther(v, i)
      PROVE  InjectedIsHeld'
  <2>1. notify[v] = {} /\ UNCHANGED <<bits, pc, cur>>
    BY <1>20 DEF VisitOther, Scanning
  <2>2. CASE UNCHANGED <<info, notify>>
    BY <2>1, <2>2 DEF InjectedIsHeld, Targeting, Busy, bits
  <2>3. CASE ~UNCHANGED <<info, notify>>
    <3>1. ~vcpu_can_receive_irq(v, i) /\ assert_pi(v, i, route_spi(i, (v + 1) % N))
      BY <1>20, <2>3 DEF VisitOther, redirect_spi
    <3>2. i \in Spi \cup Lpi /\ (v + 1) % N \in Vcpu
      BY <3>1, GicAssumption DEF vcpu_can_receive_irq, Vcpu
    <3>3. route_spi(i, (v + 1) % N) \in Vcpu \cup {Invalid}
      BY <3>2, RouteType DEF TypeOK, route_spi
    <3> QED
      BY <2>1, <3>1, <3>3, AssertHeld DEF Thread
  <2> QED
    BY <2>2, <2>3
<1>21. ASSUME NEW v \in Vcpu, NEW i \in Irq, NEW keep \in BOOLEAN, Update(v, i, keep)
      PROVE  InjectedIsHeld'
  BY <1>21
  DEF TypeOK, ThreadOK, InjectedIsHeld, Busy, Targeting, PendingAt, Info, irqVars,
      bits, vcpuVars, Update, Idle
<1>22. ASSUME NEW v \in Vcpu, NEW i \in Irq, Guest(v, i)
      PROVE  InjectedIsHeld'
  BY <1>22
  DEF TypeOK, ThreadOK, InjectedIsHeld, Busy, Targeting, PendingAt, Info, irqVars,
      bits, vcpuVars, Guest, GuestMove, Idle
<1>23. CASE UNCHANGED vars
  BY <1>23
  DEF TypeOK, ThreadOK, InjectedIsHeld, Busy, Targeting, PendingAt, Info, irqVars,
      bits, vcpuVars, vars
<1> QED
  BY <1>1, <1>2, <1>3, <1>4, <1>5, <1>6, <1>7, <1>8, <1>9, <1>10, <1>11, <1>12, <1>13,
     <1>14, <1>15, <1>16, <1>17, <1>18, <1>19, <1>20, <1>21, <1>22, <1>23
  DEF Next, Device, Registers, Injection

(* Only the device or the guest withdraws an interrupt that awaits injection. *)
LEMMA DropStep ==
  ASSUME TypeOK, [Next]_vars
  PROVE  \A j \in Irq : info[j].pending /\ ~info[j].injected /\ ~info'[j].pending =>
           DeassertPi(j) \/ \E u \in Vcpu : WriteIcpendr(u, j)
<1> DEFINE NothingDropped ==
           \A j \in Irq : info[j].pending /\ ~info[j].injected /\ ~info'[j].pending =>
           DeassertPi(j) \/ \E u \in Vcpu : WriteIcpendr(u, j)
<1>1. ASSUME NEW t \in Thread, NotifyTarget(t)
      PROVE  NothingDropped
  BY <1>1 DEF irqVars, vars, NotifyTarget
<1>2. ASSUME NEW i \in Irq, NEW h \in Vcpu, AssertLine(i, h)
      PROVE  NothingDropped
  BY <1>2 DEF TypeOK, AssertLine, redirect_spi, assert_pi, PendingAt
<1>3. ASSUME NEW i \in Irq, NEW v \in Vcpu, AssertLpi(i, v)
      PROVE  NothingDropped
  BY <1>3 DEF TypeOK, AssertLpi, redirect_spi, assert_pi, PendingAt
<1>4. ASSUME NEW i \in Irq, DeassertLine(i)
      PROVE  NothingDropped
  BY <1>4 DEF irqVars, vars, DeassertLine
<1>5. ASSUME NEW i \in Irq, DeassertPi(i)
      PROVE  NothingDropped
  <2>1. DeassertPi(i)
    BY <1>5
  <2>2. \A j \in Irq : j # i => info'[j] = info[j]
    BY <1>5 DEF TypeOK, DeassertPi, deassert_pi
  <2> QED
    BY <2>1, <2>2
<1>6. ASSUME NEW v \in Vcpu, NEW i \in Irq, WriteEnable(v, i)
      PROVE  NothingDropped
  BY <1>6 DEF irqVars, vars, WriteEnable
<1>7. ASSUME NEW v \in Vcpu, NEW i \in Irq, WriteActive(v, i)
      PROVE  NothingDropped
  BY <1>7 DEF irqVars, vars, WriteActive
<1>8. ASSUME NEW v \in Vcpu, NEW i \in Irq, WriteIcpendr(v, i)
      PROVE  NothingDropped
  <2>1. \E u \in Vcpu : WriteIcpendr(u, i)
    BY <1>8
  <2>2. \A j \in Irq : j # i => info'[j] = info[j]
    BY <1>8 DEF TypeOK, WriteIcpendr, deassert_pi
  <2> QED
    BY <2>1, <2>2
<1>9. ASSUME NEW v \in Vcpu, NEW i \in Irq, SendSgi(v, i)
      PROVE  NothingDropped
  BY <1>9 DEF TypeOK, SendSgi, redirect_spi, assert_pi, PendingAt
<1>10. ASSUME NEW v \in Vcpu, NEW i \in Irq, NEW h \in Vcpu, WriteIspendr(v, i, h)
      PROVE  NothingDropped
  BY <1>10 DEF TypeOK, WriteIspendr, redirect_spi, assert_pi, PendingAt
<1>11. ASSUME NEW v \in Vcpu, NEW i \in Irq, NEW h \in Vcpu,
              NEW r \in Vcpu \cup {AnyVcpu, NoCluster},
              WriteIrouter(v, i, r, h)
      PROVE  NothingDropped
  <2>1. info' = info \/ info' = [info EXCEPT ![i] = PendingAt(RouteBy(r, h))]
    BY <1>11 DEF WriteIrouter, redirect_spi, assert_pi
  <2>2. \A j \in Irq : info'[j].pending \/ info'[j] = info[j]
    BY <2>1 DEF TypeOK, PendingAt
  <2> QED
    BY <2>2
<1>12. ASSUME NEW v \in Vcpu, NEW s \in BOOLEAN, WriteWaker(v, s)
      PROVE  NothingDropped
  BY <1>12 DEF irqVars, vars, WriteWaker
<1>13. ASSUME NEW v \in Vcpu, PendingIrq(v)
      PROVE  NothingDropped
  BY <1>13 DEF irqVars, vars, PendingIrq
<1>14. ASSUME NEW v \in Vcpu, NEW masked \in BOOLEAN, EndScan(v, masked)
      PROVE  NothingDropped
  BY <1>14 DEF irqVars, vars, EndScan
<1>15. ASSUME NEW v \in Vcpu, InjectCas(v)
      PROVE  NothingDropped
  BY <1>15 DEF TypeOK, Info, InjectCas
<1>16. ASSUME NEW v \in Vcpu, Publish(v)
      PROVE  NothingDropped
  BY <1>16 DEF irqVars, vars, Publish
<1>17. ASSUME NEW v \in Vcpu, UpdateCas(v)
      PROVE  NothingDropped
  <2>1. \A j \in Irq : ~info[j].injected => info'[j] = info[j]
    BY <1>17 DEF TypeOK, UpdateCas, Mine
  <2> QED
    BY <2>1
<1>18. ASSUME NEW v \in Vcpu, Repend(v)
      PROVE  NothingDropped
  BY <1>18 DEF irqVars, vars, Repend
<1>19. ASSUME NEW v \in Vcpu, NEW i \in Irq, VisitCandidate(v, i)
      PROVE  NothingDropped
  BY <1>19 DEF irqVars, vars, VisitCandidate
<1>20. ASSUME NEW v \in Vcpu, NEW i \in Irq, VisitOther(v, i)
      PROVE  NothingDropped
  <2>1. info' = info \/ info' = [info EXCEPT ![i] = PendingAt(route_spi(i, (v + 1) % N))]
    BY <1>20 DEF VisitOther, redirect_spi, assert_pi
  <2>2. \A j \in Irq : info'[j].pending \/ info'[j] = info[j]
    BY <2>1 DEF TypeOK, PendingAt
  <2> QED
    BY <2>2
<1>21. ASSUME NEW v \in Vcpu, NEW i \in Irq, NEW keep \in BOOLEAN, Update(v, i, keep)
      PROVE  NothingDropped
  BY <1>21 DEF irqVars, vars, Update
<1>22. ASSUME NEW v \in Vcpu, NEW i \in Irq, Guest(v, i)
      PROVE  NothingDropped
  BY <1>22 DEF irqVars, vars, Guest
<1>23. CASE UNCHANGED vars
  BY <1>23 DEF irqVars, vars
<1> QED
  BY <1>1, <1>2, <1>3, <1>4, <1>5, <1>6, <1>7, <1>8, <1>9, <1>10, <1>11, <1>12, <1>13,
     <1>14, <1>15, <1>16, <1>17, <1>18, <1>19, <1>20, <1>21, <1>22, <1>23
  DEF Next, Device, Registers, Injection

(* A scan or a new route moves no injected interrupt. *)
LEMMA RerouteStep ==
  ASSUME TypeOK, [Next]_vars
  PROVE  \A j \in Irq :
           /\ info[j].injected
           /\ routing' # routing \/ \E u \in Vcpu : pc[u] \in {"scan", "waker"} /\ pos'[u] # pos[u]
           => info'[j] = info[j]
<1> DEFINE NothingRerouted ==
           \A j \in Irq :
           /\ info[j].injected
           /\ routing' # routing \/ \E u \in Vcpu : pc[u] \in {"scan", "waker"} /\ pos'[u] # pos[u]
           => info'[j] = info[j]
<1>1. ASSUME NEW t \in Thread, NotifyTarget(t)
      PROVE  NothingRerouted
  BY <1>1 DEF irqVars, vcpuVars, vars, NotifyTarget
<1>2. ASSUME NEW i \in Irq, NEW h \in Vcpu, AssertLine(i, h)
      PROVE  NothingRerouted
  BY <1>2 DEF irqVars, vcpuVars, vars, AssertLine
<1>3. ASSUME NEW i \in Irq, NEW v \in Vcpu, AssertLpi(i, v)
      PROVE  NothingRerouted
  BY <1>3 DEF irqVars, vcpuVars, vars, AssertLpi
<1>4. ASSUME NEW i \in Irq, DeassertLine(i)
      PROVE  NothingRerouted
  BY <1>4 DEF irqVars, vcpuVars, vars, DeassertLine
<1>5. ASSUME NEW i \in Irq, DeassertPi(i)
      PROVE  NothingRerouted
  BY <1>5 DEF irqVars, vcpuVars, vars, DeassertPi
<1>6. ASSUME NEW v \in Vcpu, NEW i \in Irq, WriteEnable(v, i)
      PROVE  NothingRerouted
  BY <1>6 DEF irqVars, vcpuVars, vars, WriteEnable
<1>7. ASSUME NEW v \in Vcpu, NEW i \in Irq, WriteActive(v, i)
      PROVE  NothingRerouted
  BY <1>7 DEF irqVars, vcpuVars, vars, WriteActive
<1>8. ASSUME NEW v \in Vcpu, NEW i \in Irq, WriteIcpendr(v, i)
      PROVE  NothingRerouted
  BY <1>8 DEF irqVars, vcpuVars, vars, WriteIcpendr
<1>9. ASSUME NEW v \in Vcpu, NEW i \in Irq, SendSgi(v, i)
      PROVE  NothingRerouted
  BY <1>9 DEF irqVars, vcpuVars, vars, SendSgi
<1>10. ASSUME NEW v \in Vcpu, NEW i \in Irq, NEW h \in Vcpu, WriteIspendr(v, i, h)
      PROVE  NothingRerouted
  BY <1>10 DEF irqVars, vcpuVars, vars, WriteIspendr
<1>11. ASSUME NEW v \in Vcpu, NEW i \in Irq, NEW h \in Vcpu,
              NEW r \in Vcpu \cup {AnyVcpu, NoCluster},
              WriteIrouter(v, i, r, h)
      PROVE  NothingRerouted
  BY <1>11 DEF TypeOK, WriteIrouter, redirect_spi, assert_pi
<1>12. ASSUME NEW v \in Vcpu, NEW s \in BOOLEAN, WriteWaker(v, s)
      PROVE  NothingRerouted
  BY <1>12 DEF irqVars, vcpuVars, vars, WriteWaker
<1>13. ASSUME NEW v \in Vcpu, PendingIrq(v)
      PROVE  NothingRerouted
  BY <1>13 DEF irqVars, vcpuVars, vars, PendingIrq
<1>14. ASSUME NEW v \in Vcpu, NEW masked \in BOOLEAN, EndScan(v, masked)
      PROVE  NothingRerouted
  BY <1>14 DEF irqVars, vcpuVars, vars, EndScan
<1>15. ASSUME NEW v \in Vcpu, InjectCas(v)
      PROVE  NothingRerouted
  BY <1>15 DEF irqVars, vcpuVars, vars, InjectCas
<1>16. ASSUME NEW v \in Vcpu, Publish(v)
      PROVE  NothingRerouted
  BY <1>16 DEF irqVars, vcpuVars, vars, Publish
<1>17. ASSUME NEW v \in Vcpu, UpdateCas(v)
      PROVE  NothingRerouted
  BY <1>17 DEF irqVars, vcpuVars, vars, UpdateCas
<1>18. ASSUME NEW v \in Vcpu, Repend(v)
      PROVE  NothingRerouted
  BY <1>18 DEF irqVars, vcpuVars, vars, Repend
<1>19. ASSUME NEW v \in Vcpu, NEW i \in Irq, VisitCandidate(v, i)
      PROVE  NothingRerouted
  BY <1>19 DEF irqVars, vcpuVars, vars, VisitCandidate
<1>20. ASSUME NEW v \in Vcpu, NEW i \in Irq, VisitOther(v, i)
      PROVE  NothingRerouted
  BY <1>20 DEF TypeOK, VisitOther, redirect_spi, assert_pi
<1>21. ASSUME NEW v \in Vcpu, NEW i \in Irq, NEW keep \in BOOLEAN, Update(v, i, keep)
      PROVE  NothingRerouted
  BY <1>21 DEF irqVars, vcpuVars, vars, Update
<1>22. ASSUME NEW v \in Vcpu, NEW i \in Irq, Guest(v, i)
      PROVE  NothingRerouted
  BY <1>22 DEF irqVars, vcpuVars, vars, Guest
<1>23. CASE UNCHANGED vars
  BY <1>23 DEF irqVars, vcpuVars, vars
<1> QED
  BY <1>1, <1>2, <1>3, <1>4, <1>5, <1>6, <1>7, <1>8, <1>9, <1>10, <1>11, <1>12, <1>13,
     <1>14, <1>15, <1>16, <1>17, <1>18, <1>19, <1>20, <1>21, <1>22, <1>23
  DEF Next, Device, Registers, Injection

-----------------------------------------------------------------------------
(* The distributor starts with nothing pending. *)
LEMMA InitInv == Init => IInv
<1> SUFFICES ASSUME Init
             PROVE  IInv
  OBVIOUS
<1>1. TypeOK
  <2>1. ZeroInfo \in Info
    BY GicAssumption DEF ZeroInfo, Info, Vcpu
  <2>2. routing \in [Spi \cup Lpi -> Vcpu \cup {AnyVcpu, NoCluster}]
    BY GicAssumption DEF Init, Vcpu
  <2>3. lr \in [Vcpu -> [Irq -> LrState]]
    BY DEF Init, LrState
  <2>4. pos \in [Vcpu -> 0 .. MAX_IRQ] /\ stimuli \in 0 .. MaxStimuli
    BY GicAssumption DEF Init
  <2> QED
    BY GicAssumption, <2>1, <2>2, <2>3, <2>4 DEF Init, TypeOK, Pc
<1>2. ThreadOK
  BY DEF Init, ThreadOK
<1>3. PendingIsQueued /\ InjectedIsHeld
  BY DEF Init, PendingIsQueued, InjectedIsHeld, ZeroInfo
<1> QED
  BY <1>1, <1>2, <1>3 DEF IInv

(* The inductive invariant holds of every behaviour of the distributor. *)
THEOREM Invariance == Spec => []IInv
<1>1. IInv /\ [Next]_vars => IInv'
  BY TypeStep, ThreadStep, QueuedStep, HeldStep DEF IInv
<1> QED
  BY InitInv, <1>1, PTL DEF Spec

(* What is kept of an interrupt, in the distributor and for each VCPU, has its
   type. *)
THEOREM TypeCorrect == Spec => []TypeOK
<1>1. IInv => TypeOK
  BY DEF IInv
<1> QED
  BY Invariance, <1>1, PTL

(* However devices, register writes and the threads of the VCPUs interleave in
   assert_pi, redirect_spi, pending_irq and update_inj_status, an interrupt
   that awaits injection is in pending_irqs of its target, or on its way there. *)
THEOREM PendingNeverLost == Spec => []PendingIsQueued
<1>1. IInv => PendingIsQueued
  BY DEF IInv
<1> QED
  BY Invariance, <1>1, PTL

(* The injected bit that pending_irq sets is cleared when the interrupt leaves
   the list registers, unless a new assertion has forgotten it before. *)
THEOREM InjectedAlwaysHeld == Spec => []InjectedIsHeld
<1>1. IInv => InjectedIsHeld
  BY DEF IInv
<1> QED
  BY Invariance, <1>1, PTL

(* in_injection_irqs keeps highest_irq from injecting into a VCPU what it
   already has in a list register. *)
THEOREM OneListRegisterEach == Spec => []OneListRegister
<1>1. IInv => OneListRegister
  BY DEF IInv, ThreadOK, OneListRegister
<1> QED
  BY Invariance, <1>1, PTL

(* The CAS loops of update_inj_status_inactive and redirect_spi take back no
   interrupt that awaits injection; only deassert_line and ICPENDR do. *)
THEOREM WithdrawnByOwner == Spec => NotDropped
<1>1. TypeOK /\ [Next]_vars =>
        [\A i \in Irq : info[i].pending /\ ~info[i].injected /\ ~info[i].pending' =>
           DeassertPi(i) \/ \E v \in Vcpu : WriteIcpendr(v, i)]_vars
  BY DropStep
<1> QED
  BY TypeCorrect, <1>1, PTL DEF Spec, NotDropped

(* redirect_spi leaves an injected interrupt alone, whoever calls it. *)
THEOREM InjectedStays == Spec => NoRerouteOfInjected
<1>1. TypeOK /\ [Next]_vars =>
        [\A i \in Irq :
           /\ info[i].injected
           /\ routing' # routing \/ \E v \in Vcpu : pc[v] \in {"scan", "waker"} /\ pos'[v] # pos[v]
           => info'[i] = info[i]]_vars
  BY RerouteStep
<1> QED
  BY TypeCorrect, <1>1, PTL DEF Spec, NoRerouteOfInjected

(* Both at once. *)
THEOREM InjectionIsStable == Spec => InjectionStable
  BY WithdrawnByOwner, InjectedStays, PTL DEF InjectionStable
===============================================================================
