--------------------------- MODULE ParallelTheorems ---------------------------
(***************************************************************************)
(* Proofs about the parallel roundup, for any number of VCPUs and device   *)
(* threads: nothing runs from the return of roundup_parallel in any VCPU   *)
(* until the last of them resumes, the count the leader reads is stable,   *)
(* and no token of a semaphore outlives a round.                           *)
(*                                                                         *)
(* The argument lets RoundupParallel take steps of Roundup.  The VCPUs     *)
(* that share a roundup are to Roundup one thread, the owner of the mutex, *)
(* which holds the roundup and later resumes it: the thread that resumes   *)
(* lends its label and its locals to the owner.  A follower that is past   *)
(* its semaphore is to Roundup a VCPU that has been switched off; module   *)
(* RoundupTheorems has the two steps by which it leaves the queue and      *)
(* comes back.  So the invariant of Roundup holds of the image, and a      *)
(* second one, PInv, says who takes part and where the tokens are.         *)
(***************************************************************************)
EXTENDS RoundupParallel, FiniteSetTheorems, TLAPS

-----------------------------------------------------------------------------
(* The image in Roundup.  EndLabel: where the last caller of resume_parallel
   is in resume_from_vcpu.  Inside: where a VCPU is while it shares a roundup
   that has been handed out. *)

EndLabel == {"er_read", "er_store", "rs_cas", "rs_sig", "unlock"}
Inside == {"par_held", "par_end", "resume_sem"} \cup EndLabel

(* The owner of the mutex has handed its roundup to those that take part. *)
Shared ==
  /\ owner \in Thread /\ role[owner] # "none"
  /\ pc[owner] \in {"par_post"} \cup Inside

(* The last caller of resume_parallel, in resume_from_vcpu. *)
Ends(w) == role[w] # "none" /\ pc[w] \in EndLabel
Ending == \E w \in VCPU : Ends(w)
Ender == CHOOSE w \in VCPU : Ends(w)

(* Another that takes part and has unyielded while the roundup is held. *)
Folded(v) ==
  /\ Shared /\ v # owner
  /\ role[v] # "none" /\ pc[v] \in Inside
  /\ state[v] = "EMULATE_ROUNDEDUP"

(* Base(l): what label l stands for in Roundup, outside the part that is
   shared. *)
Base(l) ==
  IF l = "par_yield" THEN "yield"
  ELSE IF l \in {"count_sem", "par_unyield"} THEN "lock" ELSE l

(* The label of a thread's image: the owner's is that of the thread that ends. *)
LabelOf(t) ==
  IF Shared /\ t = owner THEN (IF Ending THEN pc[Ender] ELSE "held")
  ELSE IF Folded(t) THEN "off"
  ELSE IF role[t] # "none" /\ pc[t] \in Inside \cup {"resume_post"} THEN "emulate"
  ELSE Base(pc[t])

(* The locals go with the label. *)
Handed(t, f) == IF Ending /\ t = owner THEN f[Ender] ELSE IF Ends(t) THEN 0 ELSE f[t]

pcBar == [t \in Thread |-> LabelOf(t)]
stateBar == [v \in VCPU |-> IF Folded(v) THEN "OFF_ROUNDEDUP" ELSE state[v]]
retBar == [t \in Thread |-> Base(ret[t])]
iBar == [t \in Thread |-> Handed(t, i)]
numBar == [t \in Thread |-> Handed(t, num_waiters)]

(* A leader calls roundup, so "roundup" is among the calls of the image. *)
R == INSTANCE RoundupTheorems
       WITH VcpuOps <- VcpuOps \cup {"roundup"}, pc <- pcBar, state <- stateBar, ret <- retBar,
            i <- iBar, num_waiters <- numBar

-----------------------------------------------------------------------------
(* Who takes part *)

LeaderLabel == {"yield", "lock", "ru_cas", "ru_recall", "ru_unblock", "ru_test", "ru_wait", "held"}
(* The leader while its roundup is under way, for itself and the followers. *)
Forming(v) ==
  role[v] = "leader" /\ (pc[v] \in LeaderLabel \/ ReturnsTo(v, "lock") \/ ReturnsTo(v, "ru_cas"))

(* The caller that left 0, until it is through. *)
Last(w) == role[w] # "none" /\ pc[w] \in {"par_end", "resume_post"} \cup EndLabel
(* The callers that count counts. *)
Member(v) == role[v] # "none" /\ pc[v] \notin {"par_end", "resume_sem", "resume_post"} \cup EndLabel
Members == {v \in VCPU : Member(v)}
(* The followers that have yet to take a token of count_sem. *)
Sleeps(v) == pc[v] \in {"par_yield", "count_sem"} \/ ReturnsTo(v, "count_sem")
ToWake == {v \in VCPU : Sleeps(v)}
(* The callers that have yet to take a token of resume_waiter_sem. *)
Done == {v \in VCPU : pc[v] = "resume_sem"}
(* From the leader's read of count until the last caller leaves it at 0. *)
HoldPhase == Shared /\ \A w \in VCPU : ~Last(w)

-----------------------------------------------------------------------------
(* The invariant of the parallel part *)

ParType ==
  /\ DOMAIN pc = Thread /\ DOMAIN ret = Thread /\ DOMAIN state = VCPU
  /\ DOMAIN i = Thread /\ DOMAIN num_waiters = Thread
  /\ role \in [Thread -> {"none", "leader", "follower"}]
  /\ par_count \in Nat /\ par_num_waiters \in Nat /\ count_sem \in Nat /\ resume_waiter_sem \in Nat
  /\ parallel_callers \in [Thread -> Nat]

(* What the role says about the place of the thread. *)
RoleOf(t) ==
  /\ role[t] = "none" => pc[t] \notin ParallelLabel /\ ~ReturnsTo(t, "count_sem")
  /\ role[t] # "none" => t \in VCPU
  /\ ret[t] \notin {"par_yield", "par_unyield"}
  /\ role[t] = "leader" =>
       Forming(t) \/ pc[t] \in {"par_post", "resume_post"} \cup Inside
  /\ role[t] = "follower" =>
       \/ ReturnsTo(t, "count_sem")
       \/ pc[t] \in {"par_yield", "count_sem", "par_unyield", "resume_post"} \cup Inside

RoleInv == \A t \in Thread : RoleOf(t)

(* The owner of a shared roundup leads it, and one caller is the last. *)
SharedInv ==
  /\ Shared => role[owner] = "leader" /\ resume_waiter_sem = 0
  /\ \A v \in VCPU :
       /\ pc[v] = "par_post" => Shared /\ owner = v
       /\ pc[v] = "resume_post" => ~Shared
       /\ role[v] # "none" /\ pc[v] \in {"par_end"} \cup EndLabel => Shared
       /\ pc[v] \in {"par_unyield", "par_held", "par_post"} => HoldPhase
       /\ role[v] = "leader" /\ pc[v] = "par_held" => owner = v
  /\ \A v, w \in VCPU : Last(v) /\ Last(w) => v = w

(* count is exact, and whoever has called has a leader, one, to wait for. *)
LeaderInv ==
  /\ par_count = Cardinality(Members)
  /\ \A v, w \in VCPU : Forming(v) /\ Forming(w) => v = w
  /\ \A v \in VCPU : Forming(v) => ~HoldPhase
  /\ \A v \in VCPU : Member(v) => HoldPhase \/ \E w \in VCPU : Forming(w)

(* While the roundup is held, the tokens given and those the leader has yet
   to give are as many as the followers that wait for one. *)
TokenInv ==
  IF HoldPhase
  THEN count_sem + (IF pc[owner] = "par_post" THEN parallel_callers[owner] ELSE 0)
         = Cardinality(ToWake)
  ELSE count_sem = 0

(* The same for those that wait to be resumed. *)
ResumeInv ==
  /\ IF HoldPhase
     THEN par_num_waiters + resume_waiter_sem + 1 = Cardinality(Done) + par_count
     ELSE par_num_waiters + resume_waiter_sem = Cardinality(Done)
  /\ par_num_waiters > 0 => HoldPhase \/ \E w \in VCPU : Last(w)

(* The locals of a thread that is in none of the loops. *)
Scoped(t) ==
  /\ pc[t] = "er_store" \/ num_waiters[t] = 0
  /\ \/ pc[t] \in {"ru_cas", "ru_recall", "ru_unblock", "rs_cas", "rs_sig"}
     \/ ReturnsTo(t, "ru_cas")
     \/ i[t] = 0

LocalsInv == \A t \in Thread : Scoped(t)

PInv == ParType /\ LocalsInv /\ RoleInv /\ SharedInv /\ LeaderInv /\ TokenInv /\ ResumeInv

-----------------------------------------------------------------------------
(* Outside the part that is shared. *)
Alone(t) ==
  pc[t] \notin {"par_post", "par_held", "par_end", "resume_sem", "resume_post"} /\ ~Ends(t)

(* The image has the same threads. *)
LEMMA Names ==
  /\ R!VCPU = VCPU /\ R!Thread = Thread
  /\ VCPU \subseteq Thread
BY DEF VCPU, Thread, R!VCPU, R!Thread

(* One thread ends a roundup, and it is shared. *)
LEMMA EnderFacts ==
  ASSUME PInv
  PROVE  /\ Ending => Ender \in VCPU /\ Ends(Ender) /\ Shared
         /\ \A w \in VCPU : Ends(w) => Ending /\ Ender = w
<1>1. \A v, w \in VCPU : Ends(v) /\ Ends(w) => v = w
  BY DEF PInv, SharedInv, Ends, Last
<1>2. Ending => Ender \in VCPU /\ Ends(Ender)
  BY DEF Ending, Ender
<1> QED
  BY <1>1, <1>2 DEF Ending, PInv, SharedInv, Ends

LEMMA OnlyVcpusEnd ==
  ASSUME PInv, NEW t \in Thread, Ends(t)
  PROVE  t \in VCPU
BY DEF PInv, RoleInv, RoleOf, Ends

(* A step of a thread outside the shared part. *)
Beside(t) ==
  /\ Alone(t) /\ (Alone(t))'
  /\ \A u \in Thread : u # t =>
       /\ role'[u] = role[u]
       /\ pc'[u] = pc[u] \/ (pc[u] = "guest" /\ pc'[u] = "check_paused")
       /\ i'[u] = i[u] /\ num_waiters'[u] = num_waiters[u]
  /\ owner' = owner \/ (~Shared /\ ~Shared')
  /\ \A v \in VCPU : v # t /\ Shared => state'[v] = state[v]

(* Such a step changes nothing about who shares the roundup. *)
LEMMA BesideShared ==
  ASSUME PInv, NEW t \in Thread, Beside(t)
  PROVE  /\ Shared' <=> Shared
         /\ \A u \in Thread : (Ends(u))' <=> Ends(u)
         /\ Ending' <=> Ending
         /\ Ending => Ender' = Ender /\ Ender # t /\ Ender \in VCPU
         /\ ~Folded(t) /\ ~(Folded(t))' /\ ~(Shared /\ t = owner)
         /\ \A u \in VCPU : (Folded(u))' <=> Folded(u)
<1>1. ~(Shared /\ t = owner) /\ ~(Shared' /\ t = owner')
  BY DEF Beside, Alone, Shared, Ends, Inside
<1>2. Shared' <=> Shared
  BY <1>1 DEF Beside, Shared, Inside, EndLabel
<1>3. \A u \in Thread : (Ends(u))' <=> Ends(u)
  BY DEF Beside, Alone, Ends, EndLabel
<1>4. Ending' <=> Ending
  BY <1>3, Names DEF Ending
<1>5. Ending => Ender' = Ender /\ Ender # t /\ Ender \in VCPU
  <2> SUFFICES ASSUME Ending PROVE Ender' = Ender /\ Ender # t /\ Ender \in VCPU
    OBVIOUS
  <2>1. Ender \in VCPU /\ Ends(Ender)
    BY EnderFacts
  <2>2. Ender' \in VCPU /\ (Ends(Ender))'
    <3>1. \E w \in VCPU : (Ends(w))'
      BY <1>4 DEF Ending
    <3> QED
      BY <3>1 DEF Ender
  <2>3. \A w \in VCPU : (Ends(w))' => w = Ender
    BY <1>3, EnderFacts, Names
  <2> QED
    BY <2>1, <2>2, <2>3 DEF Beside, Alone
<1>6. ~Folded(t) /\ ~(Folded(t))'
  BY DEF Beside, Alone, Folded, Ends, Inside
<1>7. \A u \in VCPU : (Folded(u))' <=> Folded(u)
  <2> SUFFICES ASSUME NEW u \in VCPU, u # t PROVE (Folded(u))' <=> Folded(u)
    BY <1>6
  <2>1. role'[u] = role[u] /\ (pc'[u] \in Inside <=> pc[u] \in Inside)
    BY Names DEF Beside, Inside, EndLabel
  <2>2. CASE Shared
    BY <1>2, <2>1, <2>2 DEF Beside, Folded
  <2>3. CASE ~Shared
    BY <1>2, <2>3 DEF Folded
  <2> QED
    BY <2>2, <2>3
<1> QED
  BY <1>1, <1>2, <1>3, <1>4, <1>5, <1>6, <1>7

(* What such a step is for Roundup. *)
LEMMA BesideLabels ==
  ASSUME PInv, NEW t \in Thread, Beside(t)
  PROVE  /\ LabelOf(t) = Base(pc[t]) /\ (LabelOf(t))' = Base(pc'[t])
         /\ \A u \in Thread : u # t =>
              /\ pc'[u] = pc[u] => (LabelOf(u))' = LabelOf(u)
              /\ pc'[u] # pc[u] => LabelOf(u) = "guest" /\ (LabelOf(u))' = "check_paused"
              /\ LabelOf(u) = "guest" => pc[u] = "guest"
<1>1. LabelOf(t) = Base(pc[t]) /\ (LabelOf(t))' = Base(pc'[t])
  <2>1. LabelOf(t) = Base(pc[t])
    BY BesideShared DEF Beside, Alone, LabelOf, Base, Ends, Inside
  <2>2. ~(Shared' /\ t = owner')
    BY BesideShared DEF Beside
  <2>3. ~((role[t] # "none" /\ pc[t] \in Inside \cup {"resume_post"})')
    BY DEF Beside, Alone, Ends, Inside
  <2> QED
    BY <2>1, <2>2, <2>3, BesideShared DEF LabelOf, Base
<1>2. ASSUME NEW u \in Thread, u # t, pc'[u] = pc[u] PROVE (LabelOf(u))' = LabelOf(u)
  <2>1. role'[u] = role[u]
    BY <1>2 DEF Beside
  <2>2. (Shared /\ u = owner)' <=> (Shared /\ u = owner)
    BY BesideShared DEF Beside
  <2>3. CASE Shared /\ u = owner
    <3>1. Ending => pc'[Ender] = pc[Ender]
      BY Names, EnderFacts, BesideShared DEF Beside, Ends, EndLabel
    <3> QED
      BY <2>2, <2>3, <3>1, BesideShared DEF LabelOf
  <2>4. CASE ~(Shared /\ u = owner)
    <3>1. (Folded(u))' <=> Folded(u)
      <4>1. CASE u \in VCPU
        BY <4>1, BesideShared
      <4>2. CASE u \notin VCPU
        <5>1. role[u] = "none"
          BY <4>2 DEF PInv, RoleInv, RoleOf
        <5> QED
          BY <2>1, <5>1 DEF Folded
      <4> QED
        BY <4>1, <4>2
    <3> QED
      BY <1>2, <2>1, <2>2, <2>4, <3>1 DEF LabelOf
  <2> QED
    BY <2>3, <2>4
<1>3. ASSUME NEW u \in Thread, u # t, pc'[u] # pc[u]
      PROVE  LabelOf(u) = "guest" /\ (LabelOf(u))' = "check_paused"
  <2>1. pc[u] = "guest" /\ pc'[u] = "check_paused"
    BY <1>3 DEF Beside
  <2>2. ~(Shared /\ u = owner) /\ ~Folded(u)
    BY <2>1 DEF Shared, Folded, Inside, EndLabel
  <2>3. ~(Shared /\ u = owner)' /\ ~(Folded(u))'
    BY <2>1 DEF Shared, Folded, Inside, EndLabel
  <2> QED
    BY <2>1, <2>2, <2>3 DEF LabelOf, Base, Inside, EndLabel
<1>4. ASSUME NEW u \in Thread, LabelOf(u) = "guest" PROVE pc[u] = "guest"
  BY <1>4, EnderFacts DEF LabelOf, Base, Ends, EndLabel
<1> QED
  BY <1>1, <1>2, <1>3, <1>4

LEMMA BesideLocals ==
  ASSUME PInv, NEW t \in Thread, Beside(t)
  PROVE  /\ Handed(t, i) = i[t] /\ (Handed(t, i))' = i'[t]
         /\ Handed(t, num_waiters) = num_waiters[t] /\ (Handed(t, num_waiters))' = num_waiters'[t]
         /\ \A u \in Thread : u # t => /\ (Handed(u, i))' = Handed(u, i)
                                       /\ (Handed(u, num_waiters))' = Handed(u, num_waiters)
<1>1. Ending => i'[Ender] = i[Ender] /\ num_waiters'[Ender] = num_waiters[Ender]
  BY BesideShared, Names DEF Beside
<1>2. Ending => Shared
  BY EnderFacts
<1>3. ~(Ending /\ t = owner) /\ ~(Ending' /\ t = owner')
  BY <1>2, BesideShared DEF Beside
<1>4. ~Ends(t) /\ ~(Ends(t))'
  BY DEF Beside, Alone
<1>5. \A u \in Thread : (Ending /\ u = owner)' <=> (Ending /\ u = owner)
  BY <1>2, BesideShared DEF Beside
<1>6. \A u \in Thread : u # t => /\ (Handed(u, i))' = Handed(u, i)
                                 /\ (Handed(u, num_waiters))' = Handed(u, num_waiters)
  <2> SUFFICES ASSUME NEW u \in Thread, u # t
               PROVE  /\ (Handed(u, i))' = Handed(u, i)
                      /\ (Handed(u, num_waiters))' = Handed(u, num_waiters)
    OBVIOUS
  <2>1. i'[u] = i[u] /\ num_waiters'[u] = num_waiters[u]
    BY DEF Beside
  <2>2. (Ends(u))' <=> Ends(u)
    BY BesideShared
  <2>3. Ending => Ender' = Ender
    BY BesideShared
  <2> QED
    BY <1>1, <1>5, <2>1, <2>2, <2>3 DEF Handed
<1> QED
  BY <1>3, <1>4, <1>6 DEF Handed

(* What the step does to the variables of Roundup. *)
Maps(t) ==
  /\ pcBar[t] = Base(pc[t]) /\ retBar[t] = Base(ret[t])
  /\ iBar[t] = i[t] /\ numBar[t] = num_waiters[t]
  /\ \A v \in VCPU : v = t \/ ~Shared => stateBar[v] = state[v]
  /\ \A l : pc' = [pc EXCEPT ![t] = l] => pcBar' = [pcBar EXCEPT ![t] = Base(l)]
  /\ pc' = pc => pcBar' = pcBar
  /\ ret' = ret => retBar' = retBar
  /\ \A l : ret' = [ret EXCEPT ![t] = l] => retBar' = [retBar EXCEPT ![t] = Base(l)]
  /\ i' = i => iBar' = iBar
  /\ num_waiters' = num_waiters => numBar' = numBar
  /\ \A x : i' = [i EXCEPT ![t] = x] => iBar' = [iBar EXCEPT ![t] = x]
  /\ \A x : num_waiters' = [num_waiters EXCEPT ![t] = x] => numBar' = [numBar EXCEPT ![t] = x]
  /\ state' = state => stateBar' = stateBar
  /\ \A v \in VCPU : \A x : state' = [state EXCEPT ![v] = x] /\ (v = t \/ ~Shared)
                        => stateBar' = [stateBar EXCEPT ![v] = x]

LEMMA BesideMaps ==
  ASSUME PInv, NEW t \in Thread, Beside(t)
  PROVE  Maps(t)
<1> USE DEF pcBar, retBar, iBar, numBar, stateBar
<1>1. DOMAIN pc = Thread /\ DOMAIN ret = Thread /\ DOMAIN i = Thread /\ DOMAIN num_waiters = Thread
      /\ DOMAIN state = VCPU
  BY DEF PInv, ParType
<1>2. pcBar[t] = Base(pc[t])
  BY BesideLabels
<1>3. retBar[t] = Base(ret[t])
  OBVIOUS
<1>4. iBar[t] = i[t] /\ numBar[t] = num_waiters[t]
  BY BesideLocals
<1>5. \A v \in VCPU : v = t \/ ~Shared => stateBar[v] = state[v]
  BY BesideShared DEF Folded
<1>6. ASSUME NEW l, pc' = [pc EXCEPT ![t] = l] PROVE pcBar' = [pcBar EXCEPT ![t] = Base(l)]
  <2>1. pc'[t] = l /\ \A u \in Thread : u # t => pc'[u] = pc[u]
    BY <1>1, <1>6
  <2>2. \A u \in Thread : (LabelOf(u))' = IF u = t THEN Base(l) ELSE LabelOf(u)
    BY <2>1, BesideLabels
  <2> QED
    BY <2>2
<1>7. ASSUME pc' = pc PROVE pcBar' = pcBar
  <2>1. \A u \in Thread : (LabelOf(u))' = LabelOf(u)
    BY <1>7, BesideLabels
  <2> QED
    BY <2>1
<1>8. ASSUME NEW l, ret' = [ret EXCEPT ![t] = l] PROVE retBar' = [retBar EXCEPT ![t] = Base(l)]
  <2>1. \A u \in Thread : ret'[u] = IF u = t THEN l ELSE ret[u]
    BY <1>1, <1>8
  <2>2. retBar' = [u \in Thread |-> Base(ret'[u])]
    BY DEF Base
  <2> QED
    BY <2>1, <2>2
<1>9. ret' = ret => retBar' = retBar
  BY DEF Base
<1>10. i' = i => iBar' = iBar
  <2> SUFFICES ASSUME i' = i PROVE iBar' = iBar
    OBVIOUS
  <2>1. \A u \in Thread : (Handed(u, i))' = Handed(u, i)
    BY BesideLocals
  <2> QED
    BY <2>1
<1>11. num_waiters' = num_waiters => numBar' = numBar
  <2> SUFFICES ASSUME num_waiters' = num_waiters PROVE numBar' = numBar
    OBVIOUS
  <2>1. \A u \in Thread : (Handed(u, num_waiters))' = Handed(u, num_waiters)
    BY BesideLocals
  <2> QED
    BY <2>1
<1>12. ASSUME NEW x, i' = [i EXCEPT ![t] = x] PROVE iBar' = [iBar EXCEPT ![t] = x]
  <2>1. \A u \in Thread : (Handed(u, i))' = IF u = t THEN x ELSE Handed(u, i)
    BY <1>1, <1>12, BesideLocals
  <2> QED
    BY <2>1
<1>13. ASSUME NEW x, num_waiters' = [num_waiters EXCEPT ![t] = x]
       PROVE  numBar' = [numBar EXCEPT ![t] = x]
  <2>1. \A u \in Thread : (Handed(u, num_waiters))' = IF u = t THEN x ELSE Handed(u, num_waiters)
    BY <1>1, <1>13, BesideLocals
  <2> QED
    BY <2>1
<1>14. \A u \in VCPU : (Folded(u))' <=> Folded(u)
  BY BesideShared
<1>15. state' = state => stateBar' = stateBar
  BY <1>14
<1>16. ASSUME NEW v \in VCPU, NEW x, state' = [state EXCEPT ![v] = x], v = t \/ ~Shared
       PROVE  stateBar' = [stateBar EXCEPT ![v] = x]
  <2>1. \A u \in VCPU : state'[u] = IF u = v THEN x ELSE state[u]
    BY <1>1, <1>16
  <2>2. ~Folded(v)
    BY <1>16, BesideShared DEF Folded
  <2> QED
    BY <1>14, <2>1, <2>2
<1> QED
  BY <1>2, <1>3, <1>4, <1>5, <1>6, <1>7, <1>8, <1>9, <1>10, <1>11, <1>12, <1>13, <1>15, <1>16
  DEF Maps

-----------------------------------------------------------------------------
(* The steps of Roundup's own threads, and of those that have not reached the
   shared part. *)

(* Where such a step takes the thread. *)
Walks(t) ==
  /\ role[t] = "none" => pc'[t] \notin ParallelLabel /\ ~(ReturnsTo(t, "count_sem"))'
  /\ role[t] = "leader" => Forming(t) /\ (Forming(t))'
  /\ role[t] = "follower" =>
       /\ pc[t] = "par_yield" \/ ReturnsTo(t, "count_sem")
       /\ pc'[t] = "count_sem" \/ (ReturnsTo(t, "count_sem"))'
  /\ (Scoped(t))'
  /\ ret'[t] \notin {"par_yield", "par_unyield"}
  /\ \A u \in Thread : u # t => ret'[u] = ret[u]
  /\ DOMAIN pc' = Thread /\ DOMAIN ret' = Thread /\ DOMAIN state' = VCPU
  /\ DOMAIN i' = Thread /\ DOMAIN num_waiters' = Thread

(* The inductive invariant: that of Roundup, of the image, and PInv. *)
BInv == PInv /\ R!IInv

LEMMA AloneLabel ==
  ASSUME PInv, NEW t \in Thread, Alone(t)
  PROVE  LabelOf(t) = Base(pc[t]) /\ ~(Shared /\ t = owner) /\ ~Folded(t)
BY DEF Alone, LabelOf, Base, Shared, Folded, Ends, Inside

(* The owner, while its image has the labels of roundup_from_vcpu. *)
LEMMA OwnerAlone ==
  ASSUME BInv, NEW t \in Thread, Alone(t), Critical(t)
  PROVE  owner = t /\ ~Shared
<1>1. R!Critical(t)
  BY AloneLabel
  DEF BInv, Critical, Stopping, Rounding, Gathering, Holding, Resuming, ReturnsTo, At, Base,
      pcBar, retBar, R!Critical, R!Stopping, R!Rounding, R!Gathering, R!Holding, R!Resuming,
      R!ReturnsTo, R!At
<1>2. owner = t
  BY <1>1, Names DEF BInv, R!IInv, R!OneRoundup
<1> QED
  BY <1>2, AloneLabel DEF BInv

LEMMA VcpuMoves ==
  ASSUME BInv, UNCHANGED parVars, NEW t \in VCPU, VcpuStep(t) \/ VcpuChoice(t)
  PROVE  Beside(t) /\ Walks(t) /\ R!OutsideStep(t)
<1> USE Names
<1>1. ASSUME Beside(t) PROVE Maps(t)
  BY <1>1, BesideMaps DEF BInv
<1>2. ASSUME WaitForSwitchOn(t) PROVE Beside(t) /\ Walks(t) /\ R!WaitForSwitchOn(t)
  <2>1. Beside(t) /\ Walks(t)
    BY <1>2
    DEF WaitForSwitchOn, BInv, PInv, ParType, parVars, RoleInv, RoleOf, LocalsInv, Scoped,
      Beside, Walks, Alone, Ends, Inside, EndLabel, Forming,
        LeaderLabel, ParallelLabel, ReturnsTo, At, Goto, CallNotify, loopVars, countVars, cpuVars
  <2>2. Maps(t)
    BY <1>1, <2>1
  <2>3. R!WaitForSwitchOn(t)
    BY <1>2, <2>2
    DEF Maps, WaitForSwitchOn, R!WaitForSwitchOn, At, Goto, CallNotify, Sig, Clear, loopVars,
      countVars, cpuVars, Base, WfiDone,
        CanSwitchOn, CanSwitchOff, switch_state_to_on, switch_state_to_off,
        R!At, R!Goto, R!CallNotify, R!Sig, R!Clear, R!loopVars, R!countVars, R!cpuVars,
        R!WfiDone,
        R!CanSwitchOn, R!CanSwitchOff, R!switch_state_to_on, R!switch_state_to_off
  <2> QED
    BY <2>1, <2>3
<1>3. ASSUME TurnOn(t) PROVE Beside(t) /\ Walks(t) /\ R!TurnOn(t)
  <2>1. Beside(t) /\ Walks(t)
    BY <1>3
    DEF TurnOn, BInv, PInv, ParType, parVars, RoleInv, RoleOf, LocalsInv, Scoped, Beside,
      Walks, Alone, Ends, Inside, EndLabel, Forming,
        LeaderLabel, ParallelLabel, ReturnsTo, At, Goto, CallNotify, loopVars, countVars, cpuVars
  <2>2. Maps(t)
    BY <1>1, <2>1
  <2>3. R!TurnOn(t)
    BY <1>3, <2>2
    DEF Maps, TurnOn, R!TurnOn, At, Goto, CallNotify, Sig, Clear, loopVars, countVars,
      cpuVars, Base, WfiDone,
        CanSwitchOn, CanSwitchOff, switch_state_to_on, switch_state_to_off,
        R!At, R!Goto, R!CallNotify, R!Sig, R!Clear, R!loopVars, R!countVars, R!cpuVars,
        R!WfiDone,
        R!CanSwitchOn, R!CanSwitchOff, R!switch_state_to_on, R!switch_state_to_off
  <2> QED
    BY <2>1, <2>3
<1>4. ASSUME CheckPaused(t) PROVE Beside(t) /\ Walks(t) /\ R!CheckPaused(t)
  <2>1. Beside(t) /\ Walks(t)
    BY <1>4
    DEF CheckPaused, BInv, PInv, ParType, parVars, RoleInv, RoleOf, LocalsInv, Scoped, Beside,
      Walks, Alone, Ends, Inside, EndLabel, Forming,
        LeaderLabel, ParallelLabel, ReturnsTo, At, Goto, CallNotify, loopVars, countVars, cpuVars
  <2>2. Maps(t)
    BY <1>1, <2>1
  <2>3. R!CheckPaused(t)
    BY <1>4, <2>2
    DEF Maps, CheckPaused, R!CheckPaused, At, Goto, CallNotify, Sig, Clear, loopVars,
      countVars, cpuVars, Base, WfiDone,
        CanSwitchOn, CanSwitchOff, switch_state_to_on, switch_state_to_off,
        R!At, R!Goto, R!CallNotify, R!Sig, R!Clear, R!loopVars, R!countVars, R!cpuVars,
        R!WfiDone,
        R!CanSwitchOn, R!CanSwitchOff, R!switch_state_to_on, R!switch_state_to_off
  <2> QED
    BY <2>1, <2>3
<1>5. ASSUME TurnOff(t) PROVE Beside(t) /\ Walks(t) /\ R!TurnOff(t)
  <2>1. Beside(t) /\ Walks(t)
    BY <1>5
    DEF TurnOff, BInv, PInv, ParType, parVars, RoleInv, RoleOf, LocalsInv, Scoped, Beside,
      Walks, Alone, Ends, Inside, EndLabel, Forming,
        LeaderLabel, ParallelLabel, ReturnsTo, At, Goto, CallNotify, loopVars, countVars, cpuVars
  <2>2. Maps(t)
    BY <1>1, <2>1
  <2>3. R!TurnOff(t)
    BY <1>5, <2>2
    DEF Maps, TurnOff, R!TurnOff, At, Goto, CallNotify, Sig, Clear, loopVars, countVars,
      cpuVars, Base, WfiDone,
        CanSwitchOn, CanSwitchOff, switch_state_to_on, switch_state_to_off,
        R!At, R!Goto, R!CallNotify, R!Sig, R!Clear, R!loopVars, R!countVars, R!cpuVars,
        R!WfiDone,
        R!CanSwitchOn, R!CanSwitchOff, R!switch_state_to_on, R!switch_state_to_off
  <2> QED
    BY <2>1, <2>3
<1>6. ASSUME BeginEmulationRead(t) PROVE Beside(t) /\ Walks(t) /\ R!BeginEmulationRead(t)
  <2>1. Beside(t) /\ Walks(t)
    BY <1>6
    DEF BeginEmulationRead, BInv, PInv, ParType, parVars, RoleInv, RoleOf, LocalsInv, Scoped,
      Beside, Walks, Alone, Ends, Inside, EndLabel, Forming,
        LeaderLabel, ParallelLabel, ReturnsTo, At, Goto, CallNotify, loopVars, countVars, cpuVars
  <2>2. Maps(t)
    BY <1>1, <2>1
  <2>3. R!BeginEmulationRead(t)
    BY <1>6, <2>2
    DEF Maps, BeginEmulationRead, R!BeginEmulationRead, At, Goto, CallNotify, Sig, Clear,
      loopVars, countVars, cpuVars, Base, WfiDone,
        CanSwitchOn, CanSwitchOff, switch_state_to_on, switch_state_to_off,
        R!At, R!Goto, R!CallNotify, R!Sig, R!Clear, R!loopVars, R!countVars, R!cpuVars,
        R!WfiDone,
        R!CanSwitchOn, R!CanSwitchOff, R!switch_state_to_on, R!switch_state_to_off
  <2> QED
    BY <2>1, <2>3
<1>7. ASSUME BeginEmulationCas(t) PROVE Beside(t) /\ Walks(t) /\ R!BeginEmulationCas(t)
  <2>1. Beside(t) /\ Walks(t)
    BY <1>7
    DEF BeginEmulationCas, BInv, PInv, ParType, parVars, RoleInv, RoleOf, LocalsInv, Scoped,
      Beside, Walks, Alone, Ends, Inside, EndLabel, Forming,
        LeaderLabel, ParallelLabel, ReturnsTo, At, Goto, CallNotify, loopVars, countVars, cpuVars
  <2>2. Maps(t)
    BY <1>1, <2>1
  <2>3. R!BeginEmulationCas(t)
    BY <1>7, <2>2
    DEF Maps, BeginEmulationCas, R!BeginEmulationCas, At, Goto, CallNotify, Sig, Clear,
      loopVars, countVars, cpuVars, Base, WfiDone,
        CanSwitchOn, CanSwitchOff, switch_state_to_on, switch_state_to_off,
        R!At, R!Goto, R!CallNotify, R!Sig, R!Clear, R!loopVars, R!countVars, R!cpuVars,
        R!WfiDone,
        R!CanSwitchOn, R!CanSwitchOff, R!switch_state_to_on, R!switch_state_to_off
  <2> QED
    BY <2>1, <2>3
<1>8. ASSUME WaitForResume(t) PROVE Beside(t) /\ Walks(t) /\ R!WaitForResume(t)
  <2>1. Beside(t) /\ Walks(t)
    BY <1>8
    DEF WaitForResume, BInv, PInv, ParType, parVars, RoleInv, RoleOf, LocalsInv, Scoped,
      Beside, Walks, Alone, Ends, Inside, EndLabel, Forming,
        LeaderLabel, ParallelLabel, ReturnsTo, At, Goto, CallNotify, loopVars, countVars, cpuVars
  <2>2. Maps(t)
    BY <1>1, <2>1
  <2>3. R!WaitForResume(t)
    BY <1>8, <2>2
    DEF Maps, WaitForResume, R!WaitForResume, At, Goto, CallNotify, Sig, Clear, loopVars,
      countVars, cpuVars, Base, WfiDone,
        CanSwitchOn, CanSwitchOff, switch_state_to_on, switch_state_to_off,
        R!At, R!Goto, R!CallNotify, R!Sig, R!Clear, R!loopVars, R!countVars, R!cpuVars,
        R!WfiDone,
        R!CanSwitchOn, R!CanSwitchOff, R!switch_state_to_on, R!switch_state_to_off
  <2> QED
    BY <2>1, <2>3
<1>9. ASSUME EndEmulation(t) PROVE Beside(t) /\ Walks(t) /\ R!EndEmulation(t)
  <2>1. Beside(t) /\ Walks(t)
    BY <1>9
    DEF EndEmulation, BInv, PInv, ParType, parVars, RoleInv, RoleOf, LocalsInv, Scoped,
      Beside, Walks, Alone, Ends, Inside, EndLabel, Forming,
        LeaderLabel, ParallelLabel, ReturnsTo, At, Goto, CallNotify, loopVars, countVars, cpuVars
  <2>2. Maps(t)
    BY <1>1, <2>1
  <2>3. R!EndEmulation(t)
    BY <1>9, <2>2
    DEF Maps, EndEmulation, R!EndEmulation, At, Goto, CallNotify, Sig, Clear, loopVars,
      countVars, cpuVars, Base, WfiDone,
        CanSwitchOn, CanSwitchOff, switch_state_to_on, switch_state_to_off,
        R!At, R!Goto, R!CallNotify, R!Sig, R!Clear, R!loopVars, R!countVars, R!cpuVars,
        R!WfiDone,
        R!CanSwitchOn, R!CanSwitchOff, R!switch_state_to_on, R!switch_state_to_off
  <2> QED
    BY <2>1, <2>3
<1>10. ASSUME EnterGuest(t) PROVE Beside(t) /\ Walks(t) /\ R!EnterGuest(t)
  <2>1. Beside(t) /\ Walks(t)
    BY <1>10
    DEF EnterGuest, BInv, PInv, ParType, parVars, RoleInv, RoleOf, LocalsInv, Scoped, Beside,
      Walks, Alone, Ends, Inside, EndLabel, Forming,
        LeaderLabel, ParallelLabel, ReturnsTo, At, Goto, CallNotify, loopVars, countVars, cpuVars
  <2>2. Maps(t)
    BY <1>1, <2>1
  <2>3. R!EnterGuest(t)
    BY <1>10, <2>2
    DEF Maps, EnterGuest, R!EnterGuest, At, Goto, CallNotify, Sig, Clear, loopVars, countVars,
      cpuVars, Base, WfiDone,
        CanSwitchOn, CanSwitchOff, switch_state_to_on, switch_state_to_off,
        R!At, R!Goto, R!CallNotify, R!Sig, R!Clear, R!loopVars, R!countVars, R!cpuVars,
        R!WfiDone,
        R!CanSwitchOn, R!CanSwitchOff, R!switch_state_to_on, R!switch_state_to_off
  <2> QED
    BY <2>1, <2>3
<1>11. ASSUME WfiTest(t) PROVE Beside(t) /\ Walks(t) /\ R!WfiTest(t)
  <2>1. Beside(t) /\ Walks(t)
    BY <1>11
    DEF WfiTest, BInv, PInv, ParType, parVars, RoleInv, RoleOf, LocalsInv, Scoped, Beside,
      Walks, Alone, Ends, Inside, EndLabel, Forming,
        LeaderLabel, ParallelLabel, ReturnsTo, At, Goto, CallNotify, loopVars, countVars, cpuVars
  <2>2. Maps(t)
    BY <1>1, <2>1
  <2>3. R!WfiTest(t)
    BY <1>11, <2>2
    DEF Maps, WfiTest, R!WfiTest, At, Goto, CallNotify, Sig, Clear, loopVars, countVars,
      cpuVars, Base, WfiDone,
        CanSwitchOn, CanSwitchOff, switch_state_to_on, switch_state_to_off,
        R!At, R!Goto, R!CallNotify, R!Sig, R!Clear, R!loopVars, R!countVars, R!cpuVars,
        R!WfiDone,
        R!CanSwitchOn, R!CanSwitchOff, R!switch_state_to_on, R!switch_state_to_off
  <2> QED
    BY <2>1, <2>3
<1>12. ASSUME Block(t) PROVE Beside(t) /\ Walks(t) /\ R!Block(t)
  <2>1. Beside(t) /\ Walks(t)
    BY <1>12
    DEF Block, BInv, PInv, ParType, parVars, RoleInv, RoleOf, LocalsInv, Scoped, Beside,
      Walks, Alone, Ends, Inside, EndLabel, Forming,
        LeaderLabel, ParallelLabel, ReturnsTo, At, Goto, CallNotify, loopVars, countVars, cpuVars
  <2>2. Maps(t)
    BY <1>1, <2>1
  <2>3. R!Block(t)
    BY <1>12, <2>2
    DEF Maps, Block, R!Block, At, Goto, CallNotify, Sig, Clear, loopVars, countVars, cpuVars,
      Base, WfiDone,
        CanSwitchOn, CanSwitchOff, switch_state_to_on, switch_state_to_off,
        R!At, R!Goto, R!CallNotify, R!Sig, R!Clear, R!loopVars, R!countVars, R!cpuVars,
        R!WfiDone,
        R!CanSwitchOn, R!CanSwitchOff, R!switch_state_to_on, R!switch_state_to_off
  <2> QED
    BY <2>1, <2>3
<1>13. ASSUME BlockTimeout(t) PROVE Beside(t) /\ Walks(t) /\ R!BlockTimeout(t)
  <2>1. Beside(t) /\ Walks(t)
    BY <1>13
    DEF BlockTimeout, BInv, PInv, ParType, parVars, RoleInv, RoleOf, LocalsInv, Scoped,
      Beside, Walks, Alone, Ends, Inside, EndLabel, Forming,
        LeaderLabel, ParallelLabel, ReturnsTo, At, Goto, CallNotify, loopVars, countVars, cpuVars
  <2>2. Maps(t)
    BY <1>1, <2>1
  <2>3. R!BlockTimeout(t)
    BY <1>13, <2>2
    DEF Maps, BlockTimeout, R!BlockTimeout, At, Goto, CallNotify, Sig, Clear, loopVars,
      countVars, cpuVars, Base, WfiDone,
        CanSwitchOn, CanSwitchOff, switch_state_to_on, switch_state_to_off,
        R!At, R!Goto, R!CallNotify, R!Sig, R!Clear, R!loopVars, R!countVars, R!cpuVars,
        R!WfiDone,
        R!CanSwitchOn, R!CanSwitchOff, R!switch_state_to_on, R!switch_state_to_off
  <2> QED
    BY <2>1, <2>3
<1>14. ASSUME Yield(t) PROVE Beside(t) /\ Walks(t) /\ R!Yield(t)
  <2>1. Beside(t) /\ Walks(t)
    BY <1>14
    DEF Yield, BInv, PInv, ParType, parVars, RoleInv, RoleOf, LocalsInv, Scoped, Beside,
      Walks, Alone, Ends, Inside, EndLabel, Forming,
        LeaderLabel, ParallelLabel, ReturnsTo, At, Goto, CallNotify, loopVars, countVars, cpuVars
  <2>2. Maps(t)
    BY <1>1, <2>1
  <2>3. R!Yield(t)
    BY <1>14, <2>2
    DEF Maps, Yield, R!Yield, At, Goto, CallNotify, Sig, Clear, loopVars, countVars, cpuVars,
      Base, WfiDone,
        CanSwitchOn, CanSwitchOff, switch_state_to_on, switch_state_to_off,
        R!At, R!Goto, R!CallNotify, R!Sig, R!Clear, R!loopVars, R!countVars, R!cpuVars,
        R!WfiDone,
        R!CanSwitchOn, R!CanSwitchOff, R!switch_state_to_on, R!switch_state_to_off
  <2> QED
    BY <2>1, <2>3
<1>15. ASSUME GuestExit(t) PROVE Beside(t) /\ Walks(t) /\ R!GuestExit(t)
  <2>1. Beside(t) /\ Walks(t)
    BY <1>15
    DEF GuestExit, BInv, PInv, ParType, parVars, RoleInv, RoleOf, LocalsInv, Scoped, Beside,
      Walks, Alone, Ends, Inside, EndLabel, Forming,
        LeaderLabel, ParallelLabel, ReturnsTo, At, Goto, CallNotify, loopVars, countVars, cpuVars
  <2>2. Maps(t)
    BY <1>1, <2>1
  <2>3. R!GuestExit(t)
    BY <1>15, <2>2
    DEF Maps, GuestExit, R!GuestExit, At, Goto, CallNotify, Sig, Clear, loopVars, countVars,
      cpuVars, Base, WfiDone,
        CanSwitchOn, CanSwitchOff, switch_state_to_on, switch_state_to_off,
        R!At, R!Goto, R!CallNotify, R!Sig, R!Clear, R!loopVars, R!countVars, R!cpuVars,
        R!WfiDone,
        R!CanSwitchOn, R!CanSwitchOff, R!switch_state_to_on, R!switch_state_to_off
  <2> QED
    BY <2>1, <2>3
<1>16. ASSUME GuestAck(t) PROVE Beside(t) /\ Walks(t) /\ R!GuestAck(t)
  <2>1. Beside(t) /\ Walks(t)
    BY <1>16
    DEF GuestAck, BInv, PInv, ParType, parVars, RoleInv, RoleOf, LocalsInv, Scoped, Beside,
      Walks, Alone, Ends, Inside, EndLabel, Forming,
        LeaderLabel, ParallelLabel, ReturnsTo, At, Goto, CallNotify, loopVars, countVars, cpuVars
  <2>2. Maps(t)
    BY <1>1, <2>1
  <2>3. R!GuestAck(t)
    BY <1>16, <2>2
    DEF Maps, GuestAck, R!GuestAck, At, Goto, CallNotify, Sig, Clear, loopVars, countVars,
      cpuVars, Base, WfiDone,
        CanSwitchOn, CanSwitchOff, switch_state_to_on, switch_state_to_off,
        R!At, R!Goto, R!CallNotify, R!Sig, R!Clear, R!loopVars, R!countVars, R!cpuVars,
        R!WfiDone,
        R!CanSwitchOn, R!CanSwitchOff, R!switch_state_to_on, R!switch_state_to_off
  <2> QED
    BY <2>1, <2>3
<1>17. ASSUME CallWaitForInterrupt(t) PROVE Beside(t) /\ Walks(t) /\ R!CallWaitForInterrupt(t)
  <2>1. Beside(t) /\ Walks(t)
    BY <1>17
    DEF CallWaitForInterrupt, BInv, PInv, ParType, parVars, RoleInv, RoleOf, LocalsInv,
      Scoped, Beside, Walks, Alone, Ends, Inside, EndLabel, Forming,
        LeaderLabel, ParallelLabel, ReturnsTo, At, Goto, CallNotify, loopVars, countVars, cpuVars
  <2>2. Maps(t)
    BY <1>1, <2>1
  <2>3. R!CallWaitForInterrupt(t)
    BY <1>17, <2>2
    DEF Maps, CallWaitForInterrupt, R!CallWaitForInterrupt, At, Goto, CallNotify, Sig, Clear,
      loopVars, countVars, cpuVars, Base, WfiDone,
        CanSwitchOn, CanSwitchOff, switch_state_to_on, switch_state_to_off,
        R!At, R!Goto, R!CallNotify, R!Sig, R!Clear, R!loopVars, R!countVars, R!cpuVars,
        R!WfiDone,
        R!CanSwitchOn, R!CanSwitchOff, R!switch_state_to_on, R!switch_state_to_off
  <2> QED
    BY <2>1, <2>3
<1>18. ASSUME CallRoundupFromVcpu(t) PROVE Beside(t) /\ Walks(t) /\ R!CallRoundupFromVcpu(t)
  <2>1. Beside(t) /\ Walks(t)
    BY <1>18
    DEF CallRoundupFromVcpu, BInv, PInv, ParType, parVars, RoleInv, RoleOf, LocalsInv, Scoped,
      Beside, Walks, Alone, Ends, Inside, EndLabel, Forming,
        LeaderLabel, ParallelLabel, ReturnsTo, At, Goto, CallNotify, loopVars, countVars, cpuVars
  <2>2. Maps(t)
    BY <1>1, <2>1
  <2>3. R!CallRoundupFromVcpu(t)
    BY <1>18, <2>2
    DEF Maps, CallRoundupFromVcpu, R!CallRoundupFromVcpu, At, Goto, CallNotify, Sig, Clear,
      loopVars, countVars, cpuVars, Base, WfiDone,
        CanSwitchOn, CanSwitchOff, switch_state_to_on, switch_state_to_off,
        R!At, R!Goto, R!CallNotify, R!Sig, R!Clear, R!loopVars, R!countVars, R!cpuVars,
        R!WfiDone,
        R!CanSwitchOn, R!CanSwitchOff, R!switch_state_to_on, R!switch_state_to_off
  <2> QED
    BY <2>1, <2>3
<1> QED
  BY <1>2, <1>3, <1>4, <1>5, <1>6, <1>7, <1>8, <1>9, <1>10, <1>11, <1>12, <1>13, <1>14, <1>15,
    <1>16, <1>17, <1>18
  DEF VcpuStep, VcpuChoice, R!OutsideStep, R!VcpuStep, R!VcpuChoice

LEMMA RecallMaps ==
  ASSUME PInv, NEW t \in Thread, Beside(t), NEW v \in Thread, NEW l, Base(l) = l,
         RecallBy(t, v, l)
  PROVE  R!RecallBy(t, v, l)
<1>1. At(v, "guest") <=> R!At(v, "guest")
  <2>1. CASE v = t
    BY <2>1, BesideMaps DEF At, R!At, Maps, Base
  <2>2. CASE v # t
    <3>1. ~(Shared /\ v = owner) /\ ~Folded(v) =>
            LabelOf(v) = Base(pc[v]) \/ pc[v] \in Inside \cup {"resume_post"}
      BY DEF LabelOf
    <3>2. pc[v] = "guest" => LabelOf(v) = "guest"
      BY <3>1 DEF Shared, Folded, Inside, EndLabel, Base
    <3>3. LabelOf(v) = "guest" => pc[v] = "guest"
      BY <2>2, BesideLabels
    <3> QED
      BY <3>2, <3>3 DEF At, R!At, pcBar
  <2> QED
    BY <2>1, <2>2
<1>2. pc' = [u \in Thread |-> IF u = t THEN l
                             ELSE IF u = v /\ At(v, "guest") THEN "check_paused" ELSE pc[u]]
  BY DEF RecallBy
<1>3. \A u \in Thread : (LabelOf(u))' = IF u = t THEN l
                                         ELSE IF u = v /\ At(v, "guest") THEN "check_paused"
                                         ELSE LabelOf(u)
  BY <1>2, BesideLabels DEF At
<1>4. pcBar' = [u \in Thread |-> IF u = t THEN l
                                ELSE IF u = v /\ R!At(v, "guest") THEN "check_paused"
                                ELSE pcBar[u]]
  BY <1>1, <1>3 DEF pcBar
<1>5. pcBar' = [u \in R!Thread |-> CASE u = t -> l
                                     [] u = v /\ u # t /\ R!At(v, "guest") -> "check_paused"
                                     [] OTHER -> pcBar[u]]
  BY <1>4, Names
<1> QED
  BY <1>1, <1>5 DEF RecallBy, R!RecallBy

LEMMA DevMoves ==
  ASSUME BInv, UNCHANGED parVars, NEW t \in Dev, DevStep(t) \/ DevChoice(t)
  PROVE  Beside(t) /\ Walks(t) /\ R!OutsideStep(t)
<1> USE Names
<1>1. t \in Thread /\ t \notin VCPU
  BY ThreadAssumption DEF Thread
<1>2. target[t] \in VCPU /\ target[t] \in Thread
  BY DEF BInv, R!IInv, R!TypeOK
<1>3. ASSUME Beside(t) PROVE Maps(t)
  BY <1>1, <1>3, BesideMaps DEF BInv
<1>4. ASSUME CtrlRecall(t) PROVE Beside(t) /\ Walks(t) /\ R!CtrlRecall(t)
  <2>1. Beside(t) /\ Walks(t)
    BY <1>1, <1>2, <1>4
    DEF CtrlRecall, RecallBy, BInv, PInv, ParType, parVars, RoleInv, RoleOf, LocalsInv,
      Scoped, Beside, Walks, Alone, Ends, Inside, EndLabel, Forming,
        LeaderLabel, ParallelLabel, ReturnsTo, At, Goto, CallNotify, loopVars, countVars, cpuVars
  <2>2. Maps(t)
    BY <1>3, <2>1
  <2>3. R!RecallBy(t, target[t], "idle")
    BY <1>1, <1>2, <1>4, <2>1, RecallMaps DEF CtrlRecall, BInv, Base
  <2>4. R!CtrlRecall(t)
    BY <1>4, <2>2, <2>3
    DEF Maps, CtrlRecall, R!CtrlRecall, At, Goto, CallNotify, Sig, Clear, loopVars, countVars,
      cpuVars, Base,
        R!At, R!Goto, R!CallNotify, R!Sig, R!Clear, R!loopVars, R!countVars, R!cpuVars
  <2> QED
    BY <2>1, <2>4
<1>5. ASSUME CtrlSwitchOn(t) PROVE Beside(t) /\ Walks(t) /\ R!CtrlSwitchOn(t)
  <2>1. Beside(t) /\ Walks(t)
    BY <1>1, <1>2, <1>5
    DEF CtrlSwitchOn, BInv, PInv, ParType, parVars, RoleInv, RoleOf, LocalsInv, Scoped,
      Beside, Walks, Alone, Ends, Inside, EndLabel, Forming,
        LeaderLabel, ParallelLabel, ReturnsTo, At, Goto, CallNotify, loopVars, countVars, cpuVars
  <2>2. Maps(t)
    BY <1>3, <2>1
  <2>3. R!CtrlSwitchOn(t)
    BY <1>5, <2>2
    DEF Maps, CtrlSwitchOn, R!CtrlSwitchOn, At, Goto, CallNotify, Sig, Clear, loopVars,
      countVars, cpuVars, Base,
        R!At, R!Goto, R!CallNotify, R!Sig, R!Clear, R!loopVars, R!countVars, R!cpuVars
  <2> QED
    BY <2>1, <2>3
<1>6. ASSUME IrqNotify(t) PROVE Beside(t) /\ Walks(t) /\ R!IrqNotify(t)
  <2>1. Beside(t) /\ Walks(t)
    BY <1>1, <1>2, <1>6
    DEF IrqNotify, BInv, PInv, ParType, parVars, RoleInv, RoleOf, LocalsInv, Scoped, Beside,
      Walks, Alone, Ends, Inside, EndLabel, Forming,
        LeaderLabel, ParallelLabel, ReturnsTo, At, Goto, CallNotify, loopVars, countVars, cpuVars
  <2>2. Maps(t)
    BY <1>3, <2>1
  <2>3. HasOnBit(state[target[t]]) <=> R!HasOnBit(stateBar[target[t]])
    BY <1>2 DEF stateBar, Folded, HasOnBit, R!HasOnBit
  <2>4. R!IrqNotify(t)
    BY <1>6, <2>2, <2>3
    DEF Maps, IrqNotify, R!IrqNotify, At, Goto, CallNotify, Sig, Clear, loopVars, countVars,
      cpuVars, Base,
        R!At, R!Goto, R!CallNotify, R!Sig, R!Clear, R!loopVars, R!countVars, R!cpuVars
  <2> QED
    BY <2>1, <2>4
<1>7. ASSUME IrqRecall(t) PROVE Beside(t) /\ Walks(t) /\ R!IrqRecall(t)
  <2>1. Beside(t) /\ Walks(t)
    BY <1>1, <1>2, <1>7
    DEF IrqRecall, WeakRecallBy, BInv, PInv, ParType, parVars, RoleInv, RoleOf, LocalsInv,
      Scoped, Beside, Walks, Alone, Ends, Inside, EndLabel, Forming,
        LeaderLabel, ParallelLabel, ReturnsTo, At, Goto, CallNotify, loopVars, countVars, cpuVars
  <2>2. Maps(t)
    BY <1>3, <2>1
  <2>3. R!IrqRecall(t)
    BY <1>7, <2>2
    DEF Maps, IrqRecall, R!IrqRecall, WeakRecallBy, R!WeakRecallBy, At, Goto, CallNotify,
      Sig, Clear, loopVars, countVars, cpuVars, Base,
        R!At, R!Goto, R!CallNotify, R!Sig, R!Clear, R!loopVars, R!countVars, R!cpuVars
  <2> QED
    BY <2>1, <2>3
<1>8. ASSUME IrqUnblock(t) PROVE Beside(t) /\ Walks(t) /\ R!IrqUnblock(t)
  <2>1. Beside(t) /\ Walks(t)
    BY <1>1, <1>2, <1>8
    DEF IrqUnblock, BInv, PInv, ParType, parVars, RoleInv, RoleOf, LocalsInv, Scoped, Beside,
      Walks, Alone, Ends, Inside, EndLabel, Forming,
        LeaderLabel, ParallelLabel, ReturnsTo, At, Goto, CallNotify, loopVars, countVars, cpuVars
  <2>2. Maps(t)
    BY <1>3, <2>1
  <2>3. R!IrqUnblock(t)
    BY <1>8, <2>2
    DEF Maps, IrqUnblock, R!IrqUnblock, At, Goto, CallNotify, Sig, Clear, loopVars, countVars,
      cpuVars, Base,
        R!At, R!Goto, R!CallNotify, R!Sig, R!Clear, R!loopVars, R!countVars, R!cpuVars
  <2> QED
    BY <2>1, <2>3
<1>9. ASSUME CtrlFeatureOff(t) PROVE Beside(t) /\ Walks(t) /\ R!CtrlFeatureOff(t)
  <2>1. Beside(t) /\ Walks(t)
    BY <1>1, <1>2, <1>9
    DEF CtrlFeatureOff, BInv, PInv, ParType, parVars, RoleInv, RoleOf, LocalsInv, Scoped,
      Beside, Walks, Alone, Ends, Inside, EndLabel, Forming,
        LeaderLabel, ParallelLabel, ReturnsTo, At, Goto, CallNotify, loopVars, countVars, cpuVars
  <2>2. Maps(t)
    BY <1>3, <2>1
  <2>3. R!CtrlFeatureOff(t)
    BY <1>9, <2>2
    DEF Maps, CtrlFeatureOff, R!CtrlFeatureOff, At, Goto, CallNotify, Sig, Clear, loopVars,
      countVars, cpuVars, Base,
        R!At, R!Goto, R!CallNotify, R!Sig, R!Clear, R!loopVars, R!countVars, R!cpuVars
  <2> QED
    BY <2>1, <2>3
<1>10. ASSUME CtrlFeatureOn(t) PROVE Beside(t) /\ Walks(t) /\ R!CtrlFeatureOn(t)
  <2>1. Beside(t) /\ Walks(t)
    BY <1>1, <1>2, <1>10
    DEF CtrlFeatureOn, BInv, PInv, ParType, parVars, RoleInv, RoleOf, LocalsInv, Scoped,
      Beside, Walks, Alone, Ends, Inside, EndLabel, Forming,
        LeaderLabel, ParallelLabel, ReturnsTo, At, Goto, CallNotify, loopVars, countVars, cpuVars
  <2>2. Maps(t)
    BY <1>3, <2>1
  <2>3. R!CtrlFeatureOn(t)
    BY <1>10, <2>2
    DEF Maps, CtrlFeatureOn, R!CtrlFeatureOn, At, Goto, CallNotify, Sig, Clear, loopVars,
      countVars, cpuVars, Base,
        R!At, R!Goto, R!CallNotify, R!Sig, R!Clear, R!loopVars, R!countVars, R!cpuVars
  <2> QED
    BY <2>1, <2>3
<1>11. ASSUME RaiseInterrupt(t) PROVE Beside(t) /\ Walks(t) /\ R!RaiseInterrupt(t)
  <2>1. Beside(t) /\ Walks(t)
    BY <1>1, <1>2, <1>11
    DEF RaiseInterrupt, BInv, PInv, ParType, parVars, RoleInv, RoleOf, LocalsInv, Scoped,
      Beside, Walks, Alone, Ends, Inside, EndLabel, Forming,
        LeaderLabel, ParallelLabel, ReturnsTo, At, Goto, CallNotify, loopVars, countVars, cpuVars
  <2>2. Maps(t)
    BY <1>3, <2>1
  <2>3. R!RaiseInterrupt(t)
    BY <1>11, <2>2
    DEF Maps, RaiseInterrupt, R!RaiseInterrupt, At, Goto, CallNotify, Sig, Clear, loopVars,
      countVars, cpuVars, Base,
        R!At, R!Goto, R!CallNotify, R!Sig, R!Clear, R!loopVars, R!countVars, R!cpuVars
  <2> QED
    BY <2>1, <2>3
<1> QED
  BY <1>1, <1>4, <1>5, <1>6, <1>7, <1>8, <1>9, <1>10, <1>11
  DEF DevStep, DevChoice, R!OutsideStep, R!DevStep, R!DevChoice

LEMMA NotifyMoves ==
  ASSUME BInv, UNCHANGED parVars, NEW t \in Thread, NotifyStep(t)
  PROVE  /\ Beside(t) /\ Walks(t) /\ R!NotifyStep(t)
         /\ pc'[t] = "notify_sig" \/ (pc'[t] = ret[t] /\ ret'[t] = "none")
<1> USE Names
<1>1. pc[t] \in {"notify_sub", "notify_sig"} /\ (pc[t] = "notify_sub" => vcpus_progressing # 0)
  BY DEF NotifyStep, NotifySub, NotifySig, At
<1>2. ret[t] \in {"none", "check_paused", "vmm", "lock", "ru_cas", "count_sem"}
  <2>1. Base(ret[t]) \in {"none", "check_paused", "vmm", "lock", "ru_cas"}
    BY DEF BInv, R!IInv, R!TypeOK, retBar
  <2> QED
    BY <2>1 DEF Base, BInv, PInv, RoleInv, RoleOf
<1>3. \/ pc' = [pc EXCEPT ![t] = "notify_sig"] /\ ret' = ret
      \/ pc' = [pc EXCEPT ![t] = ret[t]] /\ ret' = [ret EXCEPT ![t] = "none"]
  BY DEF NotifyStep, NotifySub, NotifySig, Goto
<1>4. UNCHANGED <<cpuVars, loopVars, owner>>
  BY DEF NotifyStep, NotifySub, NotifySig
<1>5. /\ role[t] = "leader" => Forming(t)
      /\ role[t] = "follower" => ret[t] = "count_sem"
      /\ role[t] = "none" => ret[t] # "count_sem"
  BY <1>1 DEF BInv, PInv, RoleInv, RoleOf, ReturnsTo, Inside, EndLabel
<1>6. role[t] = "leader" => ret[t] \in {"lock", "ru_cas"}
  BY <1>1, <1>5 DEF Forming, LeaderLabel, ReturnsTo
<1>7. role' = role /\ role[t] \in {"none", "leader", "follower"}
  BY DEF BInv, PInv, ParType, parVars
<1>8. pc'[t] = "notify_sig" \/ (pc'[t] = ret[t] /\ ret'[t] = "none")
  BY <1>3 DEF BInv, PInv, ParType
<1>9. Beside(t)
  <2>1. Alone(t) /\ (Alone(t))'
    BY <1>1, <1>2, <1>8 DEF Alone, Ends, EndLabel
  <2> QED
    BY <1>3, <1>4, <1>7, <2>1 DEF Beside, cpuVars, loopVars, BInv, PInv, ParType
<1>10. Walks(t)
  BY <1>1, <1>2, <1>3, <1>4, <1>5, <1>6, <1>7
  DEF Walks, LocalsInv, Scoped, BInv, PInv, ParType, cpuVars, loopVars, Forming, LeaderLabel,
    ReturnsTo, ParallelLabel
<1>11. Maps(t)
  BY <1>9, BesideMaps DEF BInv
<1>12. R!NotifyStep(t)
  <2>1. Base(pc[t]) = pc[t] /\ Base("notify_sig") = "notify_sig" /\ Base("none") = "none"
    BY <1>1 DEF Base
  <2>2. CASE NotifySub(t)
    BY <1>11, <2>1, <2>2
    DEF Maps, NotifySub, R!NotifySub, R!NotifyStep, At, Goto, R!At, R!Goto, cpuVars, loopVars,
        R!cpuVars, R!loopVars
  <2>3. CASE NotifySig(t)
    <3>1. pcBar[t] = "notify_sig" /\ pcBar' = [pcBar EXCEPT ![t] = retBar[t]]
          /\ retBar' = [retBar EXCEPT ![t] = "none"]
      <4>1. /\ pc' = [pc EXCEPT ![t] = ret[t]] /\ ret' = [ret EXCEPT ![t] = "none"]
            /\ pc[t] = "notify_sig"
        BY <2>3 DEF NotifySig, At, Goto
      <4>2. \A l : pc' = [pc EXCEPT ![t] = l] => pcBar' = [pcBar EXCEPT ![t] = Base(l)]
        BY <1>11 DEF Maps
      <4>3. pcBar' = [pcBar EXCEPT ![t] = Base(ret[t])]
        BY <4>1, <4>2
      <4>4. \A l : ret' = [ret EXCEPT ![t] = l] => retBar' = [retBar EXCEPT ![t] = Base(l)]
        BY <1>11 DEF Maps
      <4>5. retBar' = [retBar EXCEPT ![t] = Base("none")]
        BY <4>1, <4>4
      <4>6. pcBar[t] = Base(pc[t]) /\ retBar[t] = Base(ret[t])
        BY <1>11 DEF Maps
      <4> QED
        BY <2>1, <4>1, <4>3, <4>5, <4>6
    <3>2. UNCHANGED <<stateBar, iBar, numBar>>
      BY <1>4, <1>11 DEF Maps, cpuVars, loopVars
    <3> QED
      BY <2>3, <3>1, <3>2
      DEF NotifySig, R!NotifySig, R!NotifyStep, R!At, R!Goto, cpuVars, loopVars, R!cpuVars,
          R!loopVars
  <2> QED
    BY <2>2, <2>3 DEF NotifyStep
<1> QED
  BY <1>8, <1>9, <1>10, <1>12

LEMMA CallMoves ==
  ASSUME BInv, UNCHANGED parVars, NEW t \in Thread, CallRoundup(t)
  PROVE  Beside(t) /\ Walks(t) /\ R!OutsideStep(t)
<1> USE Names
<1>1. Beside(t) /\ Walks(t)
  BY DEF CallRoundup, BInv, PInv, ParType, parVars, RoleInv, RoleOf, LocalsInv, Scoped,
    Beside, Walks, Alone, Ends, Inside, EndLabel, Forming,
        LeaderLabel, ParallelLabel, ReturnsTo, At, Goto, CallNotify, loopVars, countVars, cpuVars
<1>2. Maps(t)
  BY <1>1, BesideMaps DEF BInv
<1> QED
  BY <1>1, <1>2 DEF Maps, CallRoundup, R!CallRoundup, R!OutsideStep, At, Goto, CallNotify,
    Sig, Clear, loopVars, countVars, cpuVars, Base,
        R!At, R!Goto, R!CallNotify, R!Sig, R!Clear, R!loopVars, R!countVars, R!cpuVars

LEMMA LockMoves ==
  ASSUME BInv, UNCHANGED parVars, NEW t \in Thread, Lock(t)
  PROVE  Beside(t) /\ Walks(t) /\ R!Lock(t)
<1> USE Names
<1>1. ~Shared /\ ~Shared'
  <2>1. owner \notin Thread
    BY ThreadAssumption DEF Lock, Thread
  <2>2. owner' = t /\ pc'[t] = "ru_cas"
    BY DEF Lock, Goto, BInv, PInv, ParType
  <2> QED
    BY <2>1, <2>2 DEF Shared, Inside, EndLabel
<1>2. Beside(t) /\ Walks(t)
  BY <1>1 DEF Lock, BInv, PInv, ParType, parVars, RoleInv, RoleOf, LocalsInv, Scoped, Beside,
    Walks, Alone, Ends, Inside, EndLabel, Forming,
        LeaderLabel, ParallelLabel, ReturnsTo, At, Goto, CallNotify, loopVars, countVars, cpuVars
<1>3. Maps(t)
  BY <1>2, BesideMaps DEF BInv
<1> QED
  BY <1>2, <1>3 DEF Maps, Lock, R!Lock, At, Goto, CallNotify, Sig, Clear, loopVars, countVars,
    cpuVars, Base,
        R!At, R!Goto, R!CallNotify, R!Sig, R!Clear, R!loopVars, R!countVars, R!cpuVars

(* The owner, before it shares its roundup and when it does not. *)
LEMMA OwnerMoves ==
  ASSUME BInv, UNCHANGED parVars, NEW t \in Thread, ~Ends(t),
         \/ RoundupStep(t) /\ ~Lock(t)
         \/ ResumeStep(t)
         \/ role[t] = "none" /\ (Resume(t) \/ SignalNextWaiter(t))
  PROVE  Beside(t) /\ Walks(t) /\ R!OwnerStep(t) /\ owner = t
<1> USE Names
<1>1. /\ pc[t] \in {"ru_cas", "ru_recall", "ru_unblock", "ru_test", "ru_wait", "held", "er_read",
                   "er_store", "rs_cas", "rs_sig", "unlock"}
      /\ pc[t] \in EndLabel \cup {"held"} /\ ~RoundupStep(t) => role[t] = "none"
  BY DEF RoundupStep, RoundupCas, RoundupRecall, RoundupUnblock, RoundupAllDone, RoundupTest,
         RoundupWait, ResumeStep, EndRoundupRead, EndRoundupStore, ResumeCas, ResumeSig,
         ResumeAllDone, Resume, SignalNextWaiter, Unlock, At, Ends
<1>2. Alone(t) /\ Critical(t)
  BY <1>1 DEF Alone, Critical, Stopping, Rounding, Gathering, Holding, Resuming, At
<1>3. owner = t /\ ~Shared
  BY <1>2, OwnerAlone
<1>4. role[t] = "leader" \/ role[t] = "none"
  BY <1>1, <1>2 DEF BInv, PInv, ParType, RoleInv, RoleOf, ReturnsTo, Inside, Alone, Ends
<1>5. iBar[t] = i[t] /\ iBar[t] \in 0 .. N
  <2>1. Ending => Shared
    BY EnderFacts DEF BInv
  <2>2. iBar[t] = i[t]
    BY <1>2, <1>3, <2>1 DEF iBar, Handed, Alone
  <2> QED
    BY <2>2 DEF BInv, R!IInv, R!TypeOK
<1>6. pc[t] \in {"ru_recall", "ru_unblock", "rs_sig"} => i[t] < N
  <2>1. pcBar[t] = pc[t]
    BY <1>1, <1>2, AloneLabel DEF BInv, pcBar, Base
  <2> QED
    BY <1>5, <2>1 DEF BInv, R!IInv, R!LoopInv, R!Loop
<1>7. i[t] < N => i[t] \in VCPU
  BY <1>5, NAssumption DEF VCPU
<1>8. ASSUME Beside(t) PROVE Maps(t)
  BY <1>8, BesideMaps DEF BInv
<1>9. ASSUME RoundupCas(t) PROVE Beside(t) /\ Walks(t) /\ R!RoundupCas(t)
  <2>1. Beside(t) /\ Walks(t)
    BY <1>1, <1>3, <1>4, <1>6, <1>7, <1>9
    DEF RoundupCas, BInv, PInv, ParType, parVars, RoleInv, RoleOf, LocalsInv, Scoped, Beside,
      Walks, Alone, Ends, Inside, EndLabel, Forming,
        LeaderLabel, ParallelLabel, ReturnsTo, At, Goto, CallNotify, loopVars, countVars, cpuVars
  <2>2. Maps(t)
    BY <1>8, <2>1
  <2>3. R!RoundupCas(t)
    <3>1. i[t] < N /\ i[t] \in VCPU
      BY <1>7, <1>9 DEF RoundupCas
    <3>2. /\ stateBar[i[t]] = state[i[t]]
          /\ stateBar' = [stateBar EXCEPT ![i[t]] = switch_state_to_roundedup(@)]
      BY <1>3, <1>9, <2>2, <3>1 DEF RoundupCas, Maps
    <3>3. /\ R!CanRoundup(state[i[t]]) <=> CanRoundup(state[i[t]])
          /\ R!switch_state_to_roundedup(state[i[t]]) = switch_state_to_roundedup(state[i[t]])
      BY DEF R!CanRoundup, CanRoundup, R!switch_state_to_roundedup, switch_state_to_roundedup
    <3>4. /\ pcBar[t] = "ru_cas" /\ pcBar' = [pcBar EXCEPT ![t] = "ru_recall"]
          /\ iBar[t] = i[t] /\ UNCHANGED <<iBar, numBar, retBar>>
      BY <1>9, <2>2 DEF Maps, RoundupCas, At, Goto, Base
    <3>5. emulating' = [emulating EXCEPT ![t] = (stateBar[iBar[t]] = "EMULATE")]
      BY <1>9, <3>2, <3>4 DEF RoundupCas
    <3>6. stateBar' = [stateBar EXCEPT ![iBar[t]] = R!switch_state_to_roundedup(@)]
      BY <3>2, <3>3, <3>4
    <3>7. UNCHANGED <<countVars, target, paused, off_sm, resume_sig, irq, irq_sig, recalled>>
      BY <1>9 DEF RoundupCas
    <3>8. CanRoundup(state[i[t]])
      BY <1>9 DEF RoundupCas
    <3> QED
      BY <3>1, <3>2, <3>3, <3>4, <3>5, <3>6, <3>7, <3>8
      DEF R!RoundupCas, R!At, R!Goto, countVars, R!countVars
  <2> QED
    BY <2>1, <2>3
<1>10. ASSUME RoundupRecall(t) PROVE Beside(t) /\ Walks(t) /\ R!RoundupRecall(t)
  <2>1. Beside(t) /\ Walks(t)
    BY <1>1, <1>3, <1>4, <1>6, <1>7, <1>10
    DEF RoundupRecall, RecallBy, BInv, PInv, ParType, parVars, RoleInv, RoleOf, LocalsInv,
      Scoped, Beside, Walks, Alone, Ends, Inside, EndLabel, Forming,
        LeaderLabel, ParallelLabel, ReturnsTo, At, Goto, CallNotify, loopVars, countVars, cpuVars
  <2>2. Maps(t)
    BY <1>8, <2>1
  <2>3. R!RecallBy(t, i[t], "ru_unblock")
    <3>1. i[t] \in Thread
      BY <1>6, <1>7, <1>10 DEF RoundupRecall, At
    <3> QED
      BY <1>10, <2>1, <3>1, RecallMaps DEF RoundupRecall, BInv, Base
  <2>4. R!RoundupRecall(t)
    BY <1>10, <2>2, <2>3
    DEF Maps, RoundupRecall, R!RoundupRecall, At, Goto, CallNotify, Sig, Clear, loopVars,
      countVars, cpuVars, Base,
        R!At, R!Goto, R!CallNotify, R!Sig, R!Clear, R!loopVars, R!countVars, R!cpuVars
  <2> QED
    BY <2>1, <2>4
<1>11. ASSUME RoundupUnblock(t) PROVE Beside(t) /\ Walks(t) /\ R!RoundupUnblock(t)
  <2>1. Beside(t) /\ Walks(t)
    BY <1>1, <1>3, <1>4, <1>6, <1>7, <1>11
    DEF RoundupUnblock, BInv, PInv, ParType, parVars, RoleInv, RoleOf, LocalsInv, Scoped,
      Beside, Walks, Alone, Ends, Inside, EndLabel, Forming,
        LeaderLabel, ParallelLabel, ReturnsTo, At, Goto, CallNotify, loopVars, countVars, cpuVars
  <2>2. Maps(t)
    BY <1>8, <2>1
  <2>3. R!RoundupUnblock(t)
    BY <1>3, <1>7, <1>11, <2>2
    DEF Maps, RoundupUnblock, R!RoundupUnblock, At, Goto, CallNotify, Sig, Clear, loopVars,
      countVars, cpuVars, Base,
        R!At, R!Goto, R!CallNotify, R!Sig, R!Clear, R!loopVars, R!countVars, R!cpuVars
  <2> QED
    BY <2>1, <2>3
<1>12. ASSUME RoundupAllDone(t) PROVE Beside(t) /\ Walks(t) /\ R!RoundupAllDone(t)
  <2>1. Beside(t) /\ Walks(t)
    BY <1>1, <1>3, <1>4, <1>6, <1>7, <1>12
    DEF RoundupAllDone, BInv, PInv, ParType, parVars, RoleInv, RoleOf, LocalsInv, Scoped,
      Beside, Walks, Alone, Ends, Inside, EndLabel, Forming,
        LeaderLabel, ParallelLabel, ReturnsTo, At, Goto, CallNotify, loopVars, countVars, cpuVars
  <2>2. Maps(t)
    BY <1>8, <2>1
  <2>3. R!RoundupAllDone(t)
    BY <1>3, <1>7, <1>12, <2>2
    DEF Maps, RoundupAllDone, R!RoundupAllDone, At, Goto, CallNotify, Sig, Clear, loopVars,
      countVars, cpuVars, Base,
        R!At, R!Goto, R!CallNotify, R!Sig, R!Clear, R!loopVars, R!countVars, R!cpuVars
  <2> QED
    BY <2>1, <2>3
<1>13. ASSUME RoundupTest(t) PROVE Beside(t) /\ Walks(t) /\ R!RoundupTest(t)
  <2>1. Beside(t) /\ Walks(t)
    BY <1>1, <1>3, <1>4, <1>6, <1>7, <1>13
    DEF RoundupTest, BInv, PInv, ParType, parVars, RoleInv, RoleOf, LocalsInv, Scoped, Beside,
      Walks, Alone, Ends, Inside, EndLabel, Forming,
        LeaderLabel, ParallelLabel, ReturnsTo, At, Goto, CallNotify, loopVars, countVars, cpuVars
  <2>2. Maps(t)
    BY <1>8, <2>1
  <2>3. R!RoundupTest(t)
    BY <1>3, <1>7, <1>13, <2>2
    DEF Maps, RoundupTest, R!RoundupTest, At, Goto, CallNotify, Sig, Clear, loopVars,
      countVars, cpuVars, Base,
        R!At, R!Goto, R!CallNotify, R!Sig, R!Clear, R!loopVars, R!countVars, R!cpuVars
  <2> QED
    BY <2>1, <2>3
<1>14. ASSUME RoundupWait(t) PROVE Beside(t) /\ Walks(t) /\ R!RoundupWait(t)
  <2>1. Beside(t) /\ Walks(t)
    BY <1>1, <1>3, <1>4, <1>6, <1>7, <1>14
    DEF RoundupWait, BInv, PInv, ParType, parVars, RoleInv, RoleOf, LocalsInv, Scoped, Beside,
      Walks, Alone, Ends, Inside, EndLabel, Forming,
        LeaderLabel, ParallelLabel, ReturnsTo, At, Goto, CallNotify, loopVars, countVars, cpuVars
  <2>2. Maps(t)
    BY <1>8, <2>1
  <2>3. R!RoundupWait(t)
    BY <1>3, <1>7, <1>14, <2>2
    DEF Maps, RoundupWait, R!RoundupWait, At, Goto, CallNotify, Sig, Clear, loopVars,
      countVars, cpuVars, Base,
        R!At, R!Goto, R!CallNotify, R!Sig, R!Clear, R!loopVars, R!countVars, R!cpuVars
  <2> QED
    BY <2>1, <2>3
<1>15. ASSUME EndRoundupRead(t) PROVE Beside(t) /\ Walks(t) /\ R!EndRoundupRead(t)
  <2>1. Beside(t) /\ Walks(t)
    BY <1>1, <1>3, <1>4, <1>6, <1>7, <1>15
    DEF EndRoundupRead, BInv, PInv, ParType, parVars, RoleInv, RoleOf, LocalsInv, Scoped,
      Beside, Walks, Alone, Ends, Inside, EndLabel, Forming,
        LeaderLabel, ParallelLabel, ReturnsTo, At, Goto, CallNotify, loopVars, countVars, cpuVars
  <2>2. Maps(t)
    BY <1>8, <2>1
  <2>3. R!EndRoundupRead(t)
    BY <1>3, <1>7, <1>15, <2>2
    DEF Maps, EndRoundupRead, R!EndRoundupRead, At, Goto, CallNotify, Sig, Clear, loopVars,
      countVars, cpuVars, Base,
        R!At, R!Goto, R!CallNotify, R!Sig, R!Clear, R!loopVars, R!countVars, R!cpuVars
  <2> QED
    BY <2>1, <2>3
<1>16. ASSUME EndRoundupStore(t) PROVE Beside(t) /\ Walks(t) /\ R!EndRoundupStore(t)
  <2>1. Beside(t) /\ Walks(t)
    BY <1>1, <1>3, <1>4, <1>6, <1>7, <1>16
    DEF EndRoundupStore, BInv, PInv, ParType, parVars, RoleInv, RoleOf, LocalsInv, Scoped,
      Beside, Walks, Alone, Ends, Inside, EndLabel, Forming,
        LeaderLabel, ParallelLabel, ReturnsTo, At, Goto, CallNotify, loopVars, countVars, cpuVars
  <2>2. Maps(t)
    BY <1>8, <2>1
  <2>3. R!EndRoundupStore(t)
    BY <1>3, <1>7, <1>16, <2>2
    DEF Maps, EndRoundupStore, R!EndRoundupStore, At, Goto, CallNotify, Sig, Clear, loopVars,
      countVars, cpuVars, Base,
        R!At, R!Goto, R!CallNotify, R!Sig, R!Clear, R!loopVars, R!countVars, R!cpuVars
  <2> QED
    BY <2>1, <2>3
<1>17. ASSUME ResumeCas(t) PROVE Beside(t) /\ Walks(t) /\ R!ResumeCas(t)
  <2>1. Beside(t) /\ Walks(t)
    BY <1>1, <1>3, <1>4, <1>6, <1>7, <1>17
    DEF ResumeCas, BInv, PInv, ParType, parVars, RoleInv, RoleOf, LocalsInv, Scoped, Beside,
      Walks, Alone, Ends, Inside, EndLabel, Forming,
        LeaderLabel, ParallelLabel, ReturnsTo, At, Goto, CallNotify, loopVars, countVars, cpuVars
  <2>2. Maps(t)
    BY <1>8, <2>1
  <2>3. R!ResumeCas(t)
    <3>1. i[t] < N /\ i[t] \in VCPU /\ CanResume(state[i[t]])
      BY <1>7, <1>17 DEF ResumeCas
    <3>2. /\ stateBar[i[t]] = state[i[t]]
          /\ stateBar' = [stateBar EXCEPT ![i[t]] = resume(@)]
      BY <1>3, <1>17, <2>2, <3>1 DEF ResumeCas, Maps
    <3>3. /\ R!CanResume(state[i[t]]) <=> CanResume(state[i[t]])
          /\ R!resume(state[i[t]]) = resume(state[i[t]])
      BY DEF R!CanResume, CanResume, R!Roundedup, Roundedup, R!resume, resume
    <3>4. /\ pcBar[t] = "rs_cas" /\ pcBar' = [pcBar EXCEPT ![t] = "rs_sig"]
          /\ iBar[t] = i[t] /\ UNCHANGED <<iBar, numBar, retBar>>
      BY <1>17, <2>2 DEF Maps, ResumeCas, At, Goto, Base, loopVars
    <3>5. stateBar' = [stateBar EXCEPT ![iBar[t]] = R!resume(@)]
      BY <3>2, <3>3, <3>4
    <3>6. UNCHANGED <<countVars, emulating, target, paused, off_sm, resume_sig, irq, irq_sig,
                      recalled>>
      BY <1>17 DEF ResumeCas, loopVars
    <3> QED
      BY <3>1, <3>2, <3>3, <3>4, <3>5, <3>6
      DEF R!ResumeCas, R!At, R!Goto, countVars, R!countVars, R!loopVars
  <2> QED
    BY <2>1, <2>3
<1>18. ASSUME ResumeSig(t) PROVE Beside(t) /\ Walks(t) /\ R!ResumeSig(t)
  <2>1. Beside(t) /\ Walks(t)
    BY <1>1, <1>3, <1>4, <1>6, <1>7, <1>18
    DEF ResumeSig, BInv, PInv, ParType, parVars, RoleInv, RoleOf, LocalsInv, Scoped, Beside,
      Walks, Alone, Ends, Inside, EndLabel, Forming,
        LeaderLabel, ParallelLabel, ReturnsTo, At, Goto, CallNotify, loopVars, countVars, cpuVars
  <2>2. Maps(t)
    BY <1>8, <2>1
  <2>3. R!ResumeSig(t)
    BY <1>3, <1>7, <1>18, <2>2
    DEF Maps, ResumeSig, R!ResumeSig, At, Goto, CallNotify, Sig, Clear, loopVars, countVars,
      cpuVars, Base,
        R!At, R!Goto, R!CallNotify, R!Sig, R!Clear, R!loopVars, R!countVars, R!cpuVars
  <2> QED
    BY <2>1, <2>3
<1>19. ASSUME ResumeAllDone(t) PROVE Beside(t) /\ Walks(t) /\ R!ResumeAllDone(t)
  <2>1. Beside(t) /\ Walks(t)
    BY <1>1, <1>3, <1>4, <1>6, <1>7, <1>19
    DEF ResumeAllDone, BInv, PInv, ParType, parVars, RoleInv, RoleOf, LocalsInv, Scoped,
      Beside, Walks, Alone, Ends, Inside, EndLabel, Forming,
        LeaderLabel, ParallelLabel, ReturnsTo, At, Goto, CallNotify, loopVars, countVars, cpuVars
  <2>2. Maps(t)
    BY <1>8, <2>1
  <2>3. R!ResumeAllDone(t)
    BY <1>3, <1>7, <1>19, <2>2
    DEF Maps, ResumeAllDone, R!ResumeAllDone, At, Goto, CallNotify, Sig, Clear, loopVars,
      countVars, cpuVars, Base,
        R!At, R!Goto, R!CallNotify, R!Sig, R!Clear, R!loopVars, R!countVars, R!cpuVars
  <2> QED
    BY <2>1, <2>3
<1>20. ASSUME role[t] = "none", Resume(t) PROVE Beside(t) /\ Walks(t) /\ R!Resume(t)
  <2>1. Beside(t) /\ Walks(t)
    BY <1>3, <1>20
    DEF Resume, Unyield, BInv, PInv, ParType, parVars, RoleInv, RoleOf, LocalsInv, Scoped,
      Beside, Walks, Alone, Ends, Inside, EndLabel, Forming,
        LeaderLabel, ParallelLabel, ReturnsTo, At, Goto, CallNotify, loopVars, countVars, cpuVars
  <2>2. Maps(t)
    BY <1>8, <2>1
  <2>3. R!Resume(t)
    BY <1>20, <2>2
    DEF Maps, Resume, Unyield, R!Resume, R!Unyield, At, Goto, CallNotify, Sig, Clear,
      loopVars, countVars, cpuVars, Base,
        R!At, R!Goto, R!CallNotify, R!Sig, R!Clear, R!loopVars, R!countVars, R!cpuVars
  <2> QED
    BY <2>1, <2>3
<1>21. ASSUME role[t] = "none", SignalNextWaiter(t)
       PROVE  Beside(t) /\ Walks(t) /\ R!SignalNextWaiter(t)
  <2>1. ~Shared'
    BY <1>21, ThreadAssumption DEF SignalNextWaiter, Unlock, Shared, Thread
  <2>2. Beside(t) /\ Walks(t)
    BY <1>3, <1>21, <2>1
    DEF SignalNextWaiter, Unlock, BInv, PInv, ParType, parVars, RoleInv, RoleOf, LocalsInv,
      Scoped, Beside, Walks, Alone, Ends, Inside, EndLabel, Forming,
        LeaderLabel, ParallelLabel, ReturnsTo, At, Goto, CallNotify, loopVars, countVars, cpuVars
  <2>3. Maps(t)
    BY <1>8, <2>2
  <2>4. R!SignalNextWaiter(t)
    BY <1>21, <2>3
    DEF Maps, SignalNextWaiter, Unlock, R!SignalNextWaiter, R!Unlock, At, Goto, CallNotify,
      Sig, Clear, loopVars, countVars, cpuVars, Base,
        R!At, R!Goto, R!CallNotify, R!Sig, R!Clear, R!loopVars, R!countVars, R!cpuVars
  <2> QED
    BY <2>2, <2>4
<1> QED
  BY <1>3, <1>9, <1>10, <1>11, <1>12, <1>13, <1>14, <1>15, <1>16, <1>17, <1>18, <1>19, <1>20,
    <1>21
  DEF RoundupStep, ResumeStep, R!OwnerStep, R!ResumeStep

-----------------------------------------------------------------------------
(* The steps of the thread that ends a shared roundup: to Roundup they are
   steps of the owner of the mutex. *)

EndsStep(w) ==
  /\ Ends(w) /\ pc'[w] \in EndLabel
  /\ \A u \in Thread : u # w => /\ pc'[u] = pc[u]
                                /\ i'[u] = i[u] /\ num_waiters'[u] = num_waiters[u]
  /\ UNCHANGED <<owner, role, ret>>
  /\ DOMAIN pc' = Thread /\ DOMAIN state' = VCPU
  /\ DOMAIN i' = Thread /\ DOMAIN num_waiters' = Thread

LEMMA EnderShared ==
  ASSUME PInv, NEW w \in Thread, EndsStep(w)
  PROVE  /\ w \in VCPU /\ owner \in VCPU /\ owner \in Thread
         /\ Shared /\ Shared' /\ Ending /\ Ending' /\ Ender = w /\ Ender' = w
         /\ \A u \in Thread : (Ends(u))' <=> Ends(u)
         /\ \A u \in Thread : pc'[u] \in Inside <=> pc[u] \in Inside
<1>1. w \in VCPU /\ Shared /\ Ending /\ Ender = w
  BY OnlyVcpusEnd, EnderFacts DEF EndsStep
<1>2. owner \in VCPU /\ owner \in Thread
  BY <1>1 DEF Shared, PInv, RoleInv, RoleOf
<1>3. \A u \in Thread : pc'[u] \in Inside <=> pc[u] \in Inside
  BY DEF EndsStep, Ends, Inside
<1>4. Shared'
  BY <1>1, <1>3 DEF EndsStep, Shared, Ends, Inside
<1>5. \A u \in Thread : (Ends(u))' <=> Ends(u)
  BY DEF EndsStep, Ends
<1>6. \A u \in VCPU : (Ends(u))' <=> u = w
  BY <1>1, <1>5, Names, EnderFacts DEF EndsStep
<1>7. Ending' /\ Ender' = w
  BY <1>1, <1>6 DEF Ending, Ender
<1> QED
  BY <1>1, <1>2, <1>3, <1>4, <1>5, <1>7

LEMMA EnderMaps ==
  ASSUME PInv, NEW w \in Thread, EndsStep(w)
  PROVE  /\ pcBar[owner] = pc[w] /\ iBar[owner] = i[w] /\ numBar[owner] = num_waiters[w]
         /\ iBar' = [iBar EXCEPT ![owner] = i'[w]]
         /\ numBar' = [numBar EXCEPT ![owner] = num_waiters'[w]]
         /\ retBar' = retBar
         /\ \A u \in Thread \ {owner} :
              u \in VCPU /\ ((Folded(u))' <=> Folded(u)) => (LabelOf(u))' = LabelOf(u)
         /\ \A u \in Thread : u = owner => (LabelOf(u))' = pc'[w]
         /\ \A u \in Thread \ VCPU : (LabelOf(u))' = LabelOf(u)
         /\ state' = state => /\ pcBar' = [pcBar EXCEPT ![owner] = pc'[w]]
                              /\ stateBar' = stateBar
<1> USE EnderShared
<1>1. pcBar[owner] = pc[w] /\ \A u \in Thread : u = owner => (LabelOf(u))' = pc'[w]
  BY DEF pcBar, LabelOf, EndsStep
<1>2. iBar[owner] = i[w] /\ numBar[owner] = num_waiters[w]
  BY DEF iBar, numBar, Handed
<1>3. \A u \in Thread : (Handed(u, i))' = IF u = owner THEN i'[w] ELSE Handed(u, i)
  BY DEF Handed, EndsStep
<1>4. \A u \in Thread :
        (Handed(u, num_waiters))' = IF u = owner THEN num_waiters'[w] ELSE Handed(u, num_waiters)
  BY DEF Handed, EndsStep
<1>5. iBar' = [iBar EXCEPT ![owner] = i'[w]] /\ numBar' = [numBar EXCEPT ![owner] = num_waiters'[w]]
  BY <1>3, <1>4 DEF iBar, numBar
<1>6. retBar' = retBar
  BY DEF retBar, EndsStep, Base
<1>7. ASSUME NEW u \in Thread, u # owner, (Folded(u))' <=> Folded(u)
      PROVE  (LabelOf(u))' = LabelOf(u)
  <2>1. role'[u] = role[u] /\ owner' = owner
    BY DEF EndsStep
  <2>2. CASE u # w
    BY <1>7, <2>1, <2>2 DEF LabelOf, EndsStep
  <2>3. CASE u = w
    BY <1>7, <2>1, <2>3 DEF LabelOf, EndsStep, Ends, Inside
  <2> QED
    BY <2>2, <2>3
<1>8. \A u \in Thread \ VCPU : ~Folded(u) /\ ~(Folded(u))' /\ u # owner
  BY DEF Folded, PInv, RoleInv, RoleOf, EndsStep
<1>9. \A u \in Thread \ VCPU : (LabelOf(u))' = LabelOf(u)
  BY <1>7, <1>8
<1>10. ASSUME state' = state
       PROVE  /\ pcBar' = [pcBar EXCEPT ![owner] = pc'[w]]
              /\ stateBar' = stateBar
  <2>1. \A u \in VCPU : (Folded(u))' <=> Folded(u)
    BY <1>10, Names DEF Folded, EndsStep
  <2>2. \A u \in Thread : u # owner => (LabelOf(u))' = LabelOf(u)
    BY <1>7, <1>9, <2>1
  <2>3. \A u \in Thread : (LabelOf(u))' = IF u = owner THEN pc'[w] ELSE LabelOf(u)
    BY <1>1, <2>2
  <2>4. pcBar' = [pcBar EXCEPT ![owner] = pc'[w]]
    BY <2>3 DEF pcBar
  <2> QED
    BY <1>10, <2>1, <2>4 DEF stateBar
<1> QED
  BY <1>1, <1>2, <1>5, <1>6, <1>7, <1>9, <1>10

LEMMA EnderFrame ==
  ASSUME BInv, UNCHANGED parVars, NEW w \in Thread, Ends(w), ResumeStep(w)
  PROVE  EndsStep(w) /\ (Scoped(w))'
<1>1. Scoped(w) /\ role' = role
  BY DEF BInv, PInv, LocalsInv, parVars
<1>2. CASE EndRoundupRead(w)
  BY <1>1, <1>2
  DEF EndsStep, EndRoundupRead, At, Goto, BInv, PInv, ParType, EndLabel, Scoped, ReturnsTo,
      cpuVars, countVars
<1>3. CASE EndRoundupStore(w)
  BY <1>1, <1>3
  DEF EndsStep, EndRoundupStore, At, Goto, BInv, PInv, ParType, EndLabel, Scoped, ReturnsTo,
      cpuVars
<1>4. CASE ResumeCas(w)
  BY <1>1, <1>4
  DEF EndsStep, ResumeCas, At, Goto, BInv, PInv, ParType, EndLabel, Scoped, ReturnsTo,
      countVars, loopVars
<1>5. CASE ResumeSig(w)
  BY <1>1, <1>5
  DEF EndsStep, ResumeSig, At, Goto, BInv, PInv, ParType, EndLabel, Scoped, ReturnsTo,
      countVars
<1>6. CASE ResumeAllDone(w)
  BY <1>1, <1>6
  DEF EndsStep, ResumeAllDone, At, Goto, BInv, PInv, ParType, EndLabel, Scoped, ReturnsTo,
      cpuVars, countVars
<1> QED
  BY <1>2, <1>3, <1>4, <1>5, <1>6 DEF ResumeStep

LEMMA EnderMoves ==
  ASSUME BInv, UNCHANGED parVars, NEW w \in Thread, Ends(w), ResumeStep(w)
  PROVE  /\ EndsStep(w) /\ (Scoped(w))' /\ owner \in Thread
         /\ R!ResumeStep(owner) \/ \E v \in VCPU : R!ResumeInside(v)
<1> USE Names
<1>1. EndsStep(w) /\ (Scoped(w))' /\ PInv
  BY EnderFrame DEF BInv
<1>2. /\ pcBar[owner] = pc[w] /\ iBar[owner] = i[w] /\ numBar[owner] = num_waiters[w]
      /\ iBar' = [iBar EXCEPT ![owner] = i'[w]]
      /\ numBar' = [numBar EXCEPT ![owner] = num_waiters'[w]]
      /\ retBar' = retBar
      /\ state' = state => /\ pcBar' = [pcBar EXCEPT ![owner] = pc'[w]]
                           /\ stateBar' = stateBar
  BY <1>1, EnderMaps
<1>3. /\ owner \in VCPU /\ owner \in Thread /\ Shared /\ Shared' /\ owner' = owner
      /\ \A u \in Thread : pc'[u] \in Inside <=> pc[u] \in Inside
  BY <1>1, EnderShared DEF EndsStep
<1>4. /\ DOMAIN pc = Thread /\ DOMAIN i = Thread /\ DOMAIN num_waiters = Thread
      /\ DOMAIN state = VCPU
  BY <1>1 DEF PInv, ParType
<1>5. i[w] < N => i[w] \in VCPU
  <2>1. iBar[owner] \in 0 .. N
    BY <1>3 DEF BInv, R!IInv, R!TypeOK
  <2> QED
    BY <1>2, <2>1, NAssumption DEF VCPU
<1>6. iBar' = [iBar EXCEPT ![owner] = i'[w]] /\ (i' = i => iBar' = iBar)
  BY <1>2 DEF iBar
<1>7. num_waiters' = num_waiters => numBar' = numBar
  BY <1>2 DEF numBar
<1>8. ASSUME EndRoundupRead(w) PROVE R!EndRoundupRead(owner)
  <2>1. /\ pc[w] = "er_read" /\ pc'[w] = "er_store" /\ state' = state /\ i' = i
        /\ num_waiters'[w] = vcpu_waiters
    BY <1>8, <1>4 DEF EndRoundupRead, At, Goto, cpuVars
  <2> QED
    BY <1>8, <1>2, <1>6, <2>1
    DEF EndRoundupRead, R!EndRoundupRead, R!At, R!Goto, cpuVars, countVars, R!cpuVars,
      R!countVars
<1>9. ASSUME EndRoundupStore(w) PROVE R!EndRoundupStore(owner)
  <2>1. /\ pc[w] = "er_store" /\ pc'[w] = "rs_cas" /\ state' = state /\ i' = i
        /\ num_waiters'[w] = 0
    BY <1>9, <1>4 DEF EndRoundupStore, At, Goto, cpuVars
  <2> QED
    BY <1>9, <1>2, <1>6, <2>1
    DEF EndRoundupStore, R!EndRoundupStore, R!At, R!Goto, cpuVars, R!cpuVars
<1>10. ASSUME ResumeSig(w) PROVE R!ResumeSig(owner)
  <2>1. /\ pc[w] = "rs_sig" /\ pc'[w] = "rs_cas" /\ state' = state
        /\ i'[w] = i[w] + 1 /\ num_waiters' = num_waiters
    BY <1>10, <1>4 DEF ResumeSig, At, Goto
  <2>2. iBar' = [iBar EXCEPT ![owner] = @ + 1]
    BY <1>2, <2>1
  <2> QED
    BY <1>10, <1>2, <1>7, <2>1, <2>2
    DEF ResumeSig, R!ResumeSig, R!At, R!Goto, Sig, R!Sig, countVars, R!countVars
<1>11. ASSUME ResumeAllDone(w) PROVE R!ResumeAllDone(owner)
  <2>1. /\ pc[w] = "rs_cas" /\ pc'[w] = "unlock" /\ state' = state /\ i[w] = N
        /\ i'[w] = 0 /\ num_waiters' = num_waiters
    BY <1>11, <1>4 DEF ResumeAllDone, At, Goto, cpuVars
  <2> QED
    BY <1>11, <1>2, <1>7, <2>1
    DEF ResumeAllDone, R!ResumeAllDone, R!At, R!Goto, cpuVars, R!cpuVars, countVars, R!countVars
<1>12. ASSUME ResumeCas(w)
       PROVE  R!ResumeCas(owner) \/ \E v \in VCPU : R!ResumeInside(v)
  <2>1. PICK v \in VCPU :
        /\ v = i[w] /\ v < N /\ pc[w] = "rs_cas" /\ pc'[w] = "rs_sig" /\ i' = i
        /\ num_waiters' = num_waiters
        /\ state[v] \in {"OFF_ROUNDEDUP", "ON_ROUNDEDUP", "EMULATE_ROUNDEDUP"}
        /\ \A u \in VCPU : state'[u] = IF u = v THEN resume(state[v]) ELSE state[u]
        /\ UNCHANGED <<countVars, emulating, target, paused, off_sm, resume_sig, irq, irq_sig,
                       recalled>>
    BY <1>12, <1>4, <1>5 DEF ResumeCas, At, Goto, loopVars, CanResume, Roundedup
  <2>2. UNCHANGED <<iBar, numBar, retBar>>
    BY <1>2, <1>6, <1>7, <2>1
  <2>3. /\ \A u \in VCPU : u # v => ((Folded(u))' <=> Folded(u))
        /\ ~(Folded(v))'
    <3>1. resume(state[v]) # "EMULATE_ROUNDEDUP"
      BY <2>1 DEF resume
    <3> QED
      BY <1>1, <1>3, <2>1, <3>1 DEF Folded, EndsStep
  <2>4. /\ \A u \in Thread : u = owner => (LabelOf(u))' = "rs_sig"
        /\ \A u \in Thread : u # owner /\ u # v => (LabelOf(u))' = LabelOf(u)
    BY <1>1, <2>1, <2>3, EnderMaps
  <2>5. CASE Folded(v)
    <3>1. v # owner /\ state[v] = "EMULATE_ROUNDEDUP" /\ role[v] # "none" /\ pc[v] \in Inside
      BY <2>5 DEF Folded
    <3>2. LabelOf(v) = "off" /\ (LabelOf(v))' = "emulate"
      <4>1. role'[v] = role[v] /\ pc'[v] \in Inside
        BY <1>1, <1>3, <2>1, <3>1 DEF EndsStep
      <4>2. LabelOf(v) = "off"
        BY <2>5, <3>1 DEF LabelOf
      <4>3. owner' = owner /\ role'[v] # "none" /\ ~(Folded(v))'
        BY <1>3, <2>3, <3>1, <4>1
      <4>4. (LabelOf(v))' = "emulate"
        BY <3>1, <4>1, <4>3 DEF LabelOf
      <4> QED
        BY <4>2, <4>4
    <3>3. pcBar' = [pcBar EXCEPT ![owner] = "rs_sig", ![v] = "emulate"]
      BY <1>3, <2>1, <2>4, <3>1, <3>2 DEF pcBar
    <3>4. stateBar[v] = "OFF_ROUNDEDUP" /\ pcBar[v] = "off"
      BY <2>1, <2>5, <3>2 DEF stateBar, pcBar
    <3>5. stateBar' = [stateBar EXCEPT ![v] = "EMULATE"]
      <4>1. \A u \in VCPU : stateBar'[u] = IF u = v THEN "EMULATE" ELSE stateBar[u]
        BY <2>1, <2>3, <3>1 DEF stateBar, resume
      <4> QED
        BY <4>1 DEF stateBar
    <3>6. R!ResumeInside(v)
      BY <1>2, <1>3, <2>1, <2>2, <3>1, <3>3, <3>4, <3>5
      DEF R!ResumeInside, R!At, R!countVars, countVars, R!loopVars
    <3> QED
      BY <2>1, <3>6
  <2>6. CASE ~Folded(v)
    <3>1. pcBar' = [pcBar EXCEPT ![owner] = "rs_sig"]
      <4>1. v # owner => (LabelOf(v))' = LabelOf(v)
        BY <1>1, <2>1, <2>3, <2>6, EnderMaps
      <4>2. \A u \in Thread : (LabelOf(u))' = IF u = owner THEN "rs_sig" ELSE LabelOf(u)
        BY <1>3, <2>4, <4>1
      <4> QED
        BY <4>2 DEF pcBar
    <3>2. stateBar[v] = state[v]
      BY <2>1, <2>6 DEF stateBar
    <3>3. stateBar' = [stateBar EXCEPT ![v] = R!resume(@)]
      <4>1. \A u \in VCPU : stateBar'[u] = IF u = v THEN resume(state[v]) ELSE stateBar[u]
        BY <2>1, <2>3, <2>6 DEF stateBar
      <4>2. R!resume(stateBar[v]) = resume(state[v])
        BY <3>2 DEF R!resume, resume
      <4> QED
        BY <4>1, <4>2 DEF stateBar
    <3>4. R!CanResume(stateBar[v])
      BY <2>1, <3>2 DEF R!CanResume, R!Roundedup
    <3> QED
      BY <1>2, <2>1, <2>2, <3>1, <3>3, <3>4
      DEF R!ResumeCas, R!At, R!Goto, countVars, R!countVars, R!loopVars
  <2> QED
    BY <2>5, <2>6
<1> QED
  BY <1>1, <1>3, <1>8, <1>9, <1>10, <1>11, <1>12 DEF ResumeStep, R!ResumeStep

-----------------------------------------------------------------------------
(* The parallel part of the invariant, across the steps of Roundup. *)

Same(v) ==
  /\ role'[v] = role[v]
  /\ (Last(v))' <=> Last(v)
  /\ (Member(v))' <=> Member(v)
  /\ (Forming(v))' <=> Forming(v)
  /\ (Sleeps(v))' <=> Sleeps(v)
  /\ \A l \in {"par_post", "par_held", "par_unyield", "resume_post", "resume_sem"} :
       pc'[v] = l <=> pc[v] = l

LEMMA SameKeeps ==
  ASSUME PInv, UNCHANGED parVars, \A v \in VCPU : Same(v),
         Shared' <=> Shared, Shared => owner' = owner
  PROVE  SharedInv' /\ LeaderInv' /\ TokenInv' /\ ResumeInv'
<1> USE Names
<1>1. Shared => owner \in VCPU
  BY DEF PInv, RoleInv, RoleOf, Shared
<1>2. HoldPhase' <=> HoldPhase
  BY DEF HoldPhase, Same
<1>3. Members' = Members /\ ToWake' = ToWake /\ Done' = Done
  BY DEF Members, ToWake, Done, Same
<1>4. SharedInv'
  <2>1. \A v \in VCPU : (role[v] # "none" /\ pc[v] \in {"par_end"} \cup EndLabel)'
                         => role[v] # "none" /\ pc[v] \in {"par_end"} \cup EndLabel
    <3> SUFFICES ASSUME NEW v \in VCPU, (role[v] # "none" /\ pc[v] \in {"par_end"} \cup EndLabel)'
                 PROVE  role[v] # "none" /\ pc[v] \in {"par_end"} \cup EndLabel
      OBVIOUS
    <3>1. Last(v) /\ pc'[v] # "resume_post"
      BY DEF Same, Last, EndLabel
    <3> QED
      BY <3>1 DEF Same, Last
  <2>2. Shared' => (role[owner])' = "leader" /\ resume_waiter_sem' = 0
    BY <1>1 DEF PInv, SharedInv, Same, parVars
  <2>3. \A v \in VCPU :
          /\ pc'[v] = "par_post" => Shared' /\ owner' = v
          /\ pc'[v] = "resume_post" => ~Shared'
          /\ pc'[v] \in {"par_unyield", "par_held", "par_post"} => HoldPhase'
    BY <1>2 DEF PInv, SharedInv, Same
  <2>4. \A v \in VCPU : role'[v] = "leader" /\ pc'[v] = "par_held" => owner' = v
    <3> SUFFICES ASSUME NEW v \in VCPU, role'[v] = "leader", pc'[v] = "par_held"
                 PROVE  owner' = v
      OBVIOUS
    <3>1. role[v] = "leader" /\ pc[v] = "par_held"
      BY DEF Same
    <3> QED
      BY <3>1 DEF PInv, SharedInv, HoldPhase
  <2>5. \A v, u \in VCPU : (Last(v))' /\ (Last(u))' => v = u
    BY DEF PInv, SharedInv, Same
  <2>6. \A v \in VCPU : (role[v] # "none" /\ pc[v] \in {"par_end"} \cup EndLabel)' => Shared'
    BY <2>1 DEF PInv, SharedInv
  <2> QED
    BY <2>2, <2>3, <2>4, <2>5, <2>6 DEF SharedInv
<1>5. LeaderInv'
  BY <1>2, <1>3 DEF PInv, LeaderInv, Same, parVars
<1>6. TokenInv'
  <2>1. HoldPhase => (owner' = owner /\ (pc'[owner] = "par_post" <=> pc[owner] = "par_post"))
    BY <1>1 DEF HoldPhase, Same
  <2>2. count_sem' = count_sem /\ parallel_callers' = parallel_callers
    BY DEF parVars
  <2>3. CASE HoldPhase
    BY <1>2, <1>3, <2>1, <2>2, <2>3 DEF PInv, TokenInv
  <2>4. CASE ~HoldPhase
    BY <1>2, <2>2, <2>4 DEF PInv, TokenInv
  <2> QED
    BY <2>3, <2>4
<1>7. ResumeInv'
  BY <1>2, <1>3 DEF PInv, ResumeInv, Same, parVars
<1> QED
  BY <1>4, <1>5, <1>6, <1>7

LEMMA BesideKeeps ==
  ASSUME PInv, UNCHANGED parVars, NEW t \in Thread, Beside(t), Walks(t)
  PROVE  PInv'
<1> USE Names
<1>1. role' = role /\ (role[t] = "none" \/ role[t] = "leader" \/ role[t] = "follower")
  BY DEF PInv, ParType, parVars
<1>2. Shared' <=> Shared
  BY BesideShared
<1>3. Shared => owner' = owner
  BY <1>2 DEF Beside
<1>4. ASSUME NEW u \in Thread, u # t
      PROVE  /\ ret'[u] = ret[u] /\ i'[u] = i[u] /\ num_waiters'[u] = num_waiters[u]
             /\ \/ pc'[u] = pc[u]
                \/ role[u] = "none" /\ pc[u] = "guest" /\ pc'[u] = "check_paused"
  <2>1. pc[u] = "guest" => role[u] = "none"
    BY DEF PInv, ParType, RoleInv, RoleOf, Forming, LeaderLabel, ReturnsTo, Inside, EndLabel
  <2> QED
    BY <1>4, <2>1 DEF Beside, Walks
<1>5. ASSUME NEW v \in VCPU, v # t PROVE Same(v)
  <2>1. CASE pc'[v] = pc[v]
    BY <1>1, <1>4, <1>5, <2>1 DEF Same, Last, Member, Forming, Sleeps, ReturnsTo
  <2>2. CASE role[v] = "none" /\ pc[v] = "guest" /\ pc'[v] = "check_paused"
    BY <1>1, <1>4, <1>5, <2>2 DEF Same, Last, Member, Forming, Sleeps, ReturnsTo
  <2> QED
    BY <1>4, <1>5, <2>1, <2>2
<1>6. t \in VCPU => Same(t)
  <2>1. /\ ~Last(t) /\ ~(Last(t))'
        /\ \A l \in {"par_post", "par_held", "resume_post", "resume_sem"} : pc[t] # l /\ pc'[t] # l
    BY DEF Beside, Alone, Last, Ends
  <2>2. CASE role[t] = "none"
    <3>1. /\ pc[t] \notin ParallelLabel /\ ~ReturnsTo(t, "count_sem")
          /\ pc'[t] \notin ParallelLabel /\ ~(ReturnsTo(t, "count_sem"))'
      BY <2>2 DEF PInv, RoleInv, RoleOf, Walks
    <3> QED
      BY <1>1, <2>1, <2>2, <3>1 DEF Same, Member, Forming, Sleeps, ParallelLabel
  <2>3. CASE role[t] = "leader"
    <3>1. Forming(t) /\ (Forming(t))'
      BY <2>3 DEF Walks
    <3>2. pc[t] \in LeaderLabel \cup {"notify_sub", "notify_sig"} /\ ~ReturnsTo(t, "count_sem")
      BY <3>1 DEF Forming, ReturnsTo, LeaderLabel
    <3>3. /\ pc'[t] \in LeaderLabel \cup {"notify_sub", "notify_sig"}
          /\ ~(ReturnsTo(t, "count_sem"))'
      BY <3>1 DEF Forming, ReturnsTo, LeaderLabel
    <3> QED
      BY <1>1, <2>1, <2>3, <3>1, <3>2, <3>3 DEF Same, Member, Sleeps, LeaderLabel, EndLabel
  <2>4. CASE role[t] = "follower"
    <3>1. Sleeps(t) /\ (Sleeps(t))'
      BY <2>4 DEF Walks, Sleeps
    <3>2. pc[t] \in {"par_yield", "count_sem", "notify_sub", "notify_sig"}
      BY <3>1 DEF Sleeps, ReturnsTo
    <3>3. pc'[t] \in {"par_yield", "count_sem", "notify_sub", "notify_sig"}
      BY <3>1 DEF Sleeps, ReturnsTo
    <3> QED
      BY <1>1, <2>1, <2>4, <3>1, <3>2, <3>3 DEF Same, Member, Forming, EndLabel
  <2> QED
    BY <1>1, <2>2, <2>3, <2>4
<1>7. SharedInv' /\ LeaderInv' /\ TokenInv' /\ ResumeInv'
  BY <1>2, <1>3, <1>5, <1>6, SameKeeps
<1>8. ParType'
  BY DEF PInv, ParType, Walks, parVars
<1>9. LocalsInv'
  <2>1. \A u \in Thread : u # t => (Scoped(u))'
    BY <1>4 DEF PInv, LocalsInv, Scoped, ReturnsTo
  <2> QED
    BY <2>1 DEF LocalsInv, Walks
<1>10. RoleInv'
  <2>1. ASSUME NEW u \in Thread, u # t PROVE (RoleOf(u))'
    <3>1. RoleOf(u)
      BY DEF PInv, RoleInv, RoleOf
    <3>2. CASE pc'[u] = pc[u]
      BY <1>1, <1>4, <2>1, <3>1, <3>2 DEF RoleOf, Forming, ReturnsTo
    <3>3. CASE role[u] = "none" /\ pc[u] = "guest" /\ pc'[u] = "check_paused"
      BY <1>1, <1>4, <2>1, <3>1, <3>3 DEF RoleOf, ParallelLabel, ReturnsTo
    <3> QED
      BY <1>4, <2>1, <3>2, <3>3
  <2>2. (RoleOf(t))'
    <3>1. RoleOf(t)
      BY DEF PInv, RoleInv, RoleOf
    <3> QED
      BY <1>1, <3>1 DEF RoleOf, Walks
  <2>3. \A u \in Thread : (RoleOf(u))'
    BY <2>1, <2>2
  <2> QED
    BY <2>3 DEF RoleInv, RoleOf
<1> QED
  BY <1>7, <1>8, <1>9, <1>10 DEF PInv

LEMMA EnderKeeps ==
  ASSUME PInv, UNCHANGED parVars, NEW w \in Thread, EndsStep(w), (Scoped(w))'
  PROVE  PInv'
<1> USE Names
<1>1. /\ Shared' <=> Shared
      /\ owner' = owner /\ role' = role /\ ret' = ret
      /\ pc[w] \in EndLabel /\ pc'[w] \in EndLabel /\ role[w] # "none" /\ w \in VCPU
  BY EnderShared DEF EndsStep, Ends
<1>2. \A u \in Thread : u # w => pc'[u] = pc[u] /\ i'[u] = i[u] /\ num_waiters'[u] = num_waiters[u]
  BY DEF EndsStep
<1>3. ASSUME NEW v \in VCPU PROVE Same(v)
  <2>1. CASE v # w
    BY <1>1, <1>2, <2>1 DEF Same, Last, Member, Forming, Sleeps, ReturnsTo
  <2>2. CASE v = w
    BY <1>1, <2>2 DEF Same, Last, Member, Forming, Sleeps, ReturnsTo, EndLabel, LeaderLabel
  <2> QED
    BY <2>1, <2>2
<1>4. SharedInv' /\ LeaderInv' /\ TokenInv' /\ ResumeInv'
  BY <1>1, <1>3, SameKeeps
<1>5. ParType'
  BY DEF PInv, ParType, EndsStep, parVars
<1>6. LocalsInv'
  BY <1>1, <1>2 DEF PInv, LocalsInv, Scoped, ReturnsTo
<1>7. RoleInv'
  <2>1. ASSUME NEW u \in Thread, u # w
        PROVE  pc'[u] = pc[u] /\ role'[u] = role[u] /\ ret'[u] = ret[u]
    BY <1>1, <1>2, <2>1
  <2>2. pc'[w] \in Inside /\ pc'[w] \notin {"notify_sub", "notify_sig"}
    BY <1>1 DEF Inside, EndLabel
  <2> QED
    BY <1>1, <2>1, <2>2 DEF PInv, RoleInv, RoleOf, Forming, ReturnsTo
<1> QED
  BY <1>4, <1>5, <1>6, <1>7 DEF PInv

-----------------------------------------------------------------------------
(* The steps of roundup_parallel and resume_parallel. *)

LEMMA Finite ==
  /\ IsFiniteSet(VCPU)
  /\ IsFiniteSet(Members) /\ IsFiniteSet(ToWake) /\ IsFiniteSet(Done)
<1>1. IsFiniteSet(VCPU)
  BY NAssumption, FS_Interval DEF VCPU
<1> QED
  BY <1>1, FS_Subset DEF Members, ToWake, Done

(* To Roundup, no VCPU makes progress while the roundup is held. *)
LEMMA HeldQuiet ==
  ASSUME BInv, NEW t \in Thread, pcBar[t] \in {"held", "er_read", "er_store"}
  PROVE  owner = t /\ \A v \in VCPU : R!Quiet(v)
<1>1. R!Holding(t) /\ R!Critical(t)
  BY DEF R!Holding, R!Critical, R!Stopping
<1>2. owner = t
  BY <1>1, Names DEF BInv, R!IInv, R!OneRoundup
<1>3. \A v \in VCPU : R!OwnerMarks(v)
  BY <1>1, <1>2, Names DEF R!OwnerMarks, R!MarkedBy
<1> QED
  BY <1>1, <1>2, <1>3, Names DEF BInv, R!IInv, R!QuietInv

LEMMA HoldPhaseFacts ==
  ASSUME PInv, HoldPhase
  PROVE  /\ Shared /\ owner \in VCPU /\ owner \in Thread /\ ~Ending
         /\ pcBar[owner] = "held"
         /\ \A v \in VCPU : ~Forming(v)
<1>1. Shared /\ owner \in Thread /\ owner \in VCPU
  BY DEF HoldPhase, Shared, PInv, RoleInv, RoleOf
<1>2. ~Ending
  BY EnderFacts DEF HoldPhase, Ends, Last
<1> QED
  BY <1>1, <1>2 DEF pcBar, LabelOf, PInv, LeaderInv

(* A step of VCPU v that changes no variable of Roundup but its label and the
   counters. *)
Stepped(v) ==
  /\ \A u \in Thread : u # v => pc'[u] = pc[u] /\ role'[u] = role[u]
  /\ UNCHANGED <<ret, i, num_waiters, state>>
  /\ DOMAIN pc' = Thread

LEMMA SteppedSame ==
  ASSUME PInv, NEW v \in VCPU, Stepped(v)
  PROVE  \A u \in VCPU : u # v => Same(u) /\ ((Ends(u))' <=> Ends(u))
BY Names DEF Stepped, Same, Ends, Last, Member, Forming, Sleeps, ReturnsTo

LEMMA SteppedRoles ==
  ASSUME PInv, NEW v \in VCPU, Stepped(v), (Scoped(v))', (RoleOf(v))'
  PROVE  LocalsInv' /\ RoleInv'
<1>1. \A u \in Thread : u # v => (Scoped(u))' /\ (RoleOf(u))'
  BY DEF PInv, LocalsInv, RoleInv, Stepped, Scoped, RoleOf, Forming, ReturnsTo
<1> QED
  BY <1>1 DEF LocalsInv, RoleInv

LEMMA SteppedBars ==
  ASSUME PInv, NEW v \in VCPU, Stepped(v), ~Ends(v), ~(Ends(v))',
         Shared' <=> Shared, Shared => owner' = owner
  PROVE  /\ iBar' = iBar /\ numBar' = numBar /\ retBar' = retBar
         /\ Ending' <=> Ending
         /\ \A u \in Thread : u # v => (LabelOf(u))' = LabelOf(u) /\ ((Folded(u))' <=> Folded(u))
         /\ ((Folded(v))' <=> Folded(v)) => stateBar' = stateBar
         /\ (LabelOf(v))' = LabelOf(v) => pcBar' = pcBar
<1> USE Names
<1>1. \A u \in Thread : (Ends(u))' <=> Ends(u)
  <2>1. \A u \in Thread : u # v => pc'[u] = pc[u] /\ role'[u] = role[u]
    BY DEF Stepped
  <2> QED
    BY <2>1 DEF Ends
<1>2. Ending' <=> Ending
  BY <1>1 DEF Ending
<1>3. Ending => Ender' = Ender /\ Ender \in VCPU /\ Ender # v
  <2> SUFFICES ASSUME Ending PROVE Ender' = Ender /\ Ender \in VCPU /\ Ender # v
    OBVIOUS
  <2>1. Ender \in VCPU /\ Ends(Ender) /\ \A w \in VCPU : Ends(w) => Ender = w
    BY EnderFacts
  <2>2. Ender' \in VCPU /\ (Ends(Ender))'
    <3>1. \E w \in VCPU : (Ends(w))'
      BY <1>2 DEF Ending
    <3> QED
      BY <3>1 DEF Ender
  <2> QED
    BY <1>1, <2>1, <2>2
<1>4. Ending => Shared
  BY EnderFacts
<1>5. \A u \in Thread : (Ending /\ u = owner)' <=> (Ending /\ u = owner)
  BY <1>2, <1>4
<1>6. \A u \in Thread : /\ (Handed(u, i))' = Handed(u, i)
                        /\ (Handed(u, num_waiters))' = Handed(u, num_waiters)
  BY <1>1, <1>3, <1>5 DEF Handed, Stepped
<1>7. retBar' = retBar
  BY DEF retBar, Base, Stepped
<1>8. ASSUME NEW u \in Thread, u # v
      PROVE  (LabelOf(u))' = LabelOf(u) /\ ((Folded(u))' <=> Folded(u))
  <2>1. pc'[u] = pc[u] /\ role'[u] = role[u] /\ state' = state
    BY <1>8 DEF Stepped
  <2>2. (Shared /\ u = owner)' <=> (Shared /\ u = owner)
    OBVIOUS
  <2>3. (Folded(u))' <=> Folded(u)
    BY <2>1 DEF Folded
  <2>4. CASE Shared /\ u = owner
    <3>1. Ending => pc'[Ender] = pc[Ender]
      BY <1>3 DEF Stepped
    <3> QED
      BY <1>2, <1>3, <2>2, <2>3, <2>4, <3>1 DEF LabelOf
  <2>5. CASE ~(Shared /\ u = owner)
    BY <2>1, <2>2, <2>3, <2>5 DEF LabelOf
  <2> QED
    BY <2>3, <2>4, <2>5
<1>9. ((Folded(v))' <=> Folded(v)) => stateBar' = stateBar
  BY <1>8 DEF stateBar, Stepped
<1>10. (LabelOf(v))' = LabelOf(v) => pcBar' = pcBar
  BY <1>8 DEF pcBar
<1> QED
  BY <1>2, <1>6, <1>7, <1>8, <1>9, <1>10 DEF iBar, numBar

(* The first caller finds 0 and leads; nobody calls while the guest is held. *)
LEMMA CallParallelMoves ==
  ASSUME BInv, NEW v \in VCPU, CallRoundupParallel(v)
  PROVE  PInv' /\ R!VcpuChoice(v)
<1> USE Names
<1>1. PInv /\ v \in Thread
  BY DEF BInv
<1>2. /\ pc[v] = "emulate" /\ par_count' = par_count + 1
      /\ pc'[v] = IF par_count = 0 THEN "yield" ELSE "par_yield"
      /\ role'[v] = IF par_count = 0 THEN "leader" ELSE "follower"
      /\ pc' = [pc EXCEPT ![v] = IF par_count = 0 THEN "yield" ELSE "par_yield"]
      /\ UNCHANGED <<cpuVars, countVars, loopVars, ret, target, par_num_waiters, count_sem,
                     resume_waiter_sem, parallel_callers>>
  BY <1>1 DEF CallRoundupParallel, At, Goto, PInv, ParType
<1>3. Stepped(v)
  BY <1>1, <1>2 DEF CallRoundupParallel, Goto, Stepped, PInv, ParType, cpuVars, loopVars
<1>4. role[v] = "none"
  BY <1>1, <1>2 DEF PInv, ParType, RoleInv, RoleOf, Forming, LeaderLabel, ReturnsTo, Inside,
    EndLabel
<1>5. Beside(v)
  <2>1. Alone(v) /\ (Alone(v))'
    BY <1>2, <1>4 DEF Alone, Ends, EndLabel
  <2> QED
    BY <1>2, <1>3, <2>1 DEF Beside, Stepped, countVars
<1>6. R!VcpuChoice(v)
  <2>1. Maps(v)
    BY <1>1, <1>5, BesideMaps
  <2>2. pcBar[v] = "emulate" /\ pcBar' = [pcBar EXCEPT ![v] = "yield"]
    BY <1>2, <2>1 DEF Maps, Base
  <2>3. UNCHANGED <<stateBar, retBar, iBar, numBar>>
    BY <1>2, <2>1 DEF Maps, cpuVars, loopVars
  <2> QED
    BY <1>2, <2>2, <2>3
    DEF R!VcpuChoice, R!CallRoundupFromVcpu, R!At, R!Goto, cpuVars, R!cpuVars, countVars,
        R!countVars, loopVars, R!loopVars
<1>7. ~HoldPhase
  <2> SUFFICES ASSUME HoldPhase PROVE FALSE
    OBVIOUS
  <2>1. R!Quiet(v)
    BY <1>1, HoldPhaseFacts, HeldQuiet
  <2>2. pcBar[v] = "emulate"
    BY <1>1, <1>2, <1>5, BesideLabels DEF pcBar, Base
  <2> QED
    BY <2>1, <2>2 DEF R!Quiet, R!Progressing, R!EmulatingLabel
<1>8. Shared' <=> Shared
  BY <1>1, <1>5, BesideShared
<1>9. \A u \in VCPU : u # v => Same(u)
  BY <1>1, <1>3, SteppedSame
<1>10. ~Last(v) /\ ~(Last(v))' /\ ~Member(v) /\ (Member(v))' /\ ~Forming(v)
       /\ ((Forming(v))' <=> par_count = 0) /\ v \notin Done /\ v \notin Done'
  BY <1>2, <1>4 DEF Last, Member, Forming, Done, EndLabel, LeaderLabel, ReturnsTo
<1>11. ~HoldPhase' /\ \A u \in VCPU : (Last(u))' <=> Last(u)
  BY <1>7, <1>8, <1>9, <1>10 DEF HoldPhase, Same
<1>12. ParType'
  BY <1>1, <1>2, <1>3 DEF PInv, ParType, Stepped, CallRoundupParallel, cpuVars, loopVars
<1>13. LocalsInv' /\ RoleInv'
  <2>1. (Scoped(v))'
    BY <1>1, <1>2, <1>3 DEF PInv, LocalsInv, Scoped, ReturnsTo, Stepped
  <2>2. (RoleOf(v))'
    BY <1>1, <1>2, <1>3, <1>10 DEF PInv, RoleInv, RoleOf, Stepped, ParallelLabel
  <2> QED
    BY <1>1, <1>3, <2>1, <2>2, SteppedRoles
<1>14. SharedInv'
  <2>1. \A u \in VCPU : (pc'[u] = "par_post" <=> pc[u] = "par_post")
                     /\ (pc'[u] = "resume_post" <=> pc[u] = "resume_post")
                     /\ (pc'[u] = "par_held" <=> pc[u] = "par_held")
                     /\ (pc'[u] = "par_unyield" <=> pc[u] = "par_unyield")
    BY <1>2, <1>3 DEF Stepped
  <2>2. \A u \in VCPU : (role[u] # "none" /\ pc[u] \in {"par_end"} \cup EndLabel)'
                        => role[u] # "none" /\ pc[u] \in {"par_end"} \cup EndLabel
    BY <1>2, <1>3 DEF Stepped, EndLabel
  <2>3. \A u \in VCPU : role'[u] = "leader" /\ pc'[u] = "par_held"
                        => role[u] = "leader" /\ pc[u] = "par_held"
    BY <1>2, <1>3 DEF Stepped
  <2>4. owner' = owner /\ resume_waiter_sem' = resume_waiter_sem
    BY <1>2 DEF countVars
  <2>5. Shared => owner \in Thread /\ owner # v
    BY <1>2, <1>4 DEF Shared
  <2>6. Shared' => (role[owner])' = "leader" /\ resume_waiter_sem' = 0
    BY <1>1, <1>8, <1>3, <2>4, <2>5 DEF PInv, SharedInv, Stepped
  <2>7. \A u \in VCPU : pc[u] \notin {"par_unyield", "par_held", "par_post"}
    BY <1>1, <1>7 DEF PInv, SharedInv
  <2>8. \A u, w \in VCPU : (Last(u))' /\ (Last(w))' => u = w
    BY <1>1, <1>11 DEF PInv, SharedInv
  <2> QED
    BY <1>1, <1>8, <2>1, <2>2, <2>3, <2>4, <2>6, <2>7, <2>8 DEF PInv, SharedInv
<1>15. LeaderInv'
  <2>1. par_count = Cardinality(Members) /\ IsFiniteSet(Members)
    BY <1>1, Finite DEF PInv, LeaderInv
  <2>2. Members' = Members \cup {v} /\ v \notin Members
    BY <1>9, <1>10 DEF Members, Same
  <2>3. par_count' = Cardinality(Members')
    BY <1>2, <2>1, <2>2, FS_AddElement
  <2>4. CASE par_count = 0
    <3>1. Members = {}
      BY <2>1, <2>4, FS_EmptySet
    <3>2. \A u \in VCPU : ~Forming(u)
      <4>1. \A u \in VCPU : Forming(u) => Member(u)
        BY DEF Forming, Member, LeaderLabel, EndLabel, ReturnsTo
      <4> QED
        BY <3>1, <4>1 DEF Members
    <3>3. \A u \in VCPU : (Forming(u))' <=> u = v
      BY <1>9, <1>10, <2>4, <3>2 DEF Same
    <3> QED
      BY <1>11, <2>3, <3>3 DEF LeaderInv
  <2>5. CASE par_count # 0
    <3>1. \E u \in VCPU : Member(u)
      BY <2>1, <2>5, FS_EmptySet DEF Members
    <3>2. \E u \in VCPU : Forming(u)
      BY <1>1, <1>7, <3>1 DEF PInv, LeaderInv
    <3>3. \A u \in VCPU : (Forming(u))' <=> Forming(u)
      BY <1>9, <1>10, <2>5 DEF Same
    <3> QED
      BY <1>1, <1>11, <2>3, <3>2, <3>3 DEF PInv, LeaderInv
  <2> QED
    BY <2>4, <2>5
<1>16. TokenInv'
  BY <1>1, <1>2, <1>7, <1>11 DEF PInv, TokenInv
<1>17. ResumeInv'
  <2>1. Done' = Done
    BY <1>9, <1>10 DEF Done, Same
  <2> QED
    BY <1>1, <1>2, <1>7, <1>11, <2>1 DEF PInv, ResumeInv
<1> QED
  BY <1>6, <1>12, <1>13, <1>14, <1>15, <1>16, <1>17 DEF PInv

LEMMA FollowerYieldMoves ==
  ASSUME BInv, NEW v \in VCPU, FollowerYield(v)
  PROVE  PInv' /\ R!Yield(v)
<1> USE Names
<1>1. PInv /\ v \in Thread
  BY DEF BInv
<1>2. /\ pc[v] = "par_yield" /\ vcpu_waiters' = vcpu_waiters + 1
      /\ pc' = [pc EXCEPT ![v] = "notify_sub"] /\ ret' = [ret EXCEPT ![v] = "count_sem"]
      /\ UNCHANGED <<cpuVars, loopVars, vcpus_progressing, owner, sig_emulating, target, parVars>>
  BY DEF FollowerYield, At, CallNotify, Goto
<1>3. pc'[v] = "notify_sub" /\ ret'[v] = "count_sem" /\ role'[v] = role[v]
  BY <1>1, <1>2 DEF PInv, ParType, parVars
<1>4. role[v] = "follower"
  BY <1>1, <1>2
  DEF PInv, ParType, RoleInv, RoleOf, Forming, LeaderLabel, ReturnsTo, Inside, EndLabel,
    ParallelLabel
<1>5. Beside(v)
  <2>1. Alone(v) /\ (Alone(v))'
    BY <1>2, <1>3 DEF Alone, Ends, EndLabel
  <2> QED
    BY <1>1, <1>2, <2>1 DEF Beside, PInv, ParType, cpuVars, loopVars, parVars
<1>6. Walks(v)
  BY <1>1, <1>2, <1>3, <1>4
  DEF Walks, PInv, ParType, LocalsInv, Scoped, ReturnsTo, cpuVars, loopVars
<1>7. R!Yield(v)
  <2>1. Maps(v)
    BY <1>1, <1>5, BesideMaps
  <2>2. pcBar[v] = "yield" /\ pcBar' = [pcBar EXCEPT ![v] = "notify_sub"]
    BY <1>2, <2>1 DEF Maps, Base
  <2>3. retBar' = [retBar EXCEPT ![v] = "lock"]
    <3>1. retBar' = [retBar EXCEPT ![v] = Base("count_sem")]
      BY <1>2, <2>1 DEF Maps
    <3> QED
      BY <3>1 DEF Base
  <2>4. UNCHANGED <<stateBar, iBar, numBar>>
    BY <1>2, <2>1 DEF Maps, cpuVars, loopVars
  <2> QED
    BY <1>2, <2>2, <2>3, <2>4
    DEF R!Yield, R!CallNotify, R!At, R!Goto, cpuVars, R!cpuVars, loopVars, R!loopVars
<1> QED
  BY <1>1, <1>2, <1>5, <1>6, <1>7, BesideKeeps

(* A step that no variable of Roundup notices. *)
Unnoticed ==
  /\ UNCHANGED <<pcBar, stateBar, retBar, iBar, numBar>>
  /\ UNCHANGED <<paused, off_sm, resume_sig, irq, irq_sig, recalled, countVars, emulating, target>>

LEMMA UnnoticedStutters ==
  ASSUME Unnoticed
  PROVE  UNCHANGED R!vars
BY DEF Unnoticed, countVars, R!vars, R!cpuVars, R!countVars, R!loopVars

LEMMA FollowerAcquireMoves ==
  ASSUME BInv, NEW v \in VCPU, FollowerAcquire(v)
  PROVE  PInv' /\ Unnoticed
<1> USE Names
<1>1. PInv /\ v \in Thread
  BY DEF BInv
<1>2. /\ pc[v] = "count_sem" /\ pc' = [pc EXCEPT ![v] = "par_unyield"]
      /\ count_sem > 0 /\ count_sem' = count_sem - 1
      /\ UNCHANGED <<cpuVars, countVars, loopVars, ret, target, par_count,
                     par_num_waiters, resume_waiter_sem, role, parallel_callers>>
  BY DEF FollowerAcquire, At, Goto
<1>3. pc'[v] = "par_unyield" /\ Stepped(v)
  BY <1>1, <1>2 DEF PInv, ParType, Stepped, cpuVars, loopVars
<1>4. role[v] = "follower"
  BY <1>1, <1>2
  DEF PInv, ParType, RoleInv, RoleOf, Forming, LeaderLabel, ReturnsTo, Inside, EndLabel,
    ParallelLabel
<1>5. Beside(v)
  <2>1. Alone(v) /\ (Alone(v))'
    BY <1>2, <1>3 DEF Alone, Ends, EndLabel
  <2> QED
    BY <1>2, <1>3, <2>1 DEF Beside, Stepped, countVars
<1>6. Unnoticed
  <2>1. Maps(v)
    BY <1>1, <1>5, BesideMaps
  <2>2. pcBar' = [pcBar EXCEPT ![v] = Base("par_unyield")] /\ pcBar[v] = Base("count_sem")
    BY <1>2, <2>1 DEF Maps
  <2>3. pcBar' = pcBar
    BY <2>2 DEF Base, pcBar
  <2> QED
    BY <1>2, <2>1, <2>3 DEF Unnoticed, Maps, cpuVars, loopVars
<1>7. HoldPhase /\ Shared /\ Shared'
  <2>1. HoldPhase
    BY <1>1, <1>2 DEF PInv, TokenInv
  <2> QED
    BY <1>1, <1>5, <2>1, BesideShared DEF HoldPhase
<1>8. \A u \in VCPU : u # v => Same(u)
  BY <1>1, <1>3, SteppedSame
<1>9. /\ ~Last(v) /\ ~(Last(v))' /\ Member(v) /\ (Member(v))' /\ ~Forming(v) /\ ~(Forming(v))'
      /\ v \notin Done /\ v \notin Done' /\ v \in ToWake /\ v \notin ToWake'
  BY <1>2, <1>3, <1>4 DEF Last, Member, Forming, Done, ToWake, Sleeps, EndLabel, ReturnsTo
<1>10. HoldPhase' /\ \A u \in VCPU : (Last(u))' <=> Last(u)
  BY <1>7, <1>8, <1>9 DEF HoldPhase, Same
<1>11. ParType'
  BY <1>1, <1>2, <1>3 DEF PInv, ParType, cpuVars, loopVars
<1>12. LocalsInv' /\ RoleInv'
  <2>1. (Scoped(v))'
    BY <1>1, <1>2, <1>3 DEF PInv, LocalsInv, Scoped, ReturnsTo, Stepped
  <2>2. (RoleOf(v))'
    BY <1>1, <1>2, <1>3, <1>4 DEF PInv, RoleInv, RoleOf, Stepped
  <2> QED
    BY <1>1, <1>3, <2>1, <2>2, SteppedRoles
<1>13. owner' = owner /\ owner \in VCPU /\ owner # v
  BY <1>1, <1>2, <1>7, HoldPhaseFacts DEF countVars, Shared, Inside, EndLabel
<1>14. SharedInv'
  <2>1. \A u \in VCPU : u # v => pc'[u] = pc[u] /\ role'[u] = role[u]
    BY <1>3 DEF Stepped
  <2> QED
    BY <1>1, <1>2, <1>3, <1>4, <1>7, <1>10, <1>13, <2>1 DEF PInv, SharedInv, EndLabel
<1>15. LeaderInv'
  <2>1. Members' = Members
    BY <1>8, <1>9 DEF Members, Same
  <2>2. \A u \in VCPU : (Forming(u))' <=> Forming(u)
    BY <1>8, <1>9 DEF Same
  <2> QED
    BY <1>1, <1>2, <1>7, <1>10, <2>1, <2>2 DEF PInv, LeaderInv
<1>16. TokenInv'
  <2>1. ToWake' = ToWake \ {v}
    BY <1>8, <1>9 DEF ToWake, Same
  <2>2. Cardinality(ToWake') = Cardinality(ToWake) - 1
    BY <1>9, <2>1, Finite, FS_RemoveElement
  <2>3. pc'[owner] = pc[owner]
    BY <1>3, <1>13 DEF Stepped
  <2>4. count_sem \in Nat /\ parallel_callers[owner] \in Nat /\ Cardinality(ToWake) \in Nat
    BY <1>1, <1>13, Finite, FS_CardinalityType DEF PInv, ParType
  <2> QED
    BY <1>1, <1>2, <1>7, <1>10, <1>13, <2>2, <2>3, <2>4 DEF PInv, TokenInv
<1>17. ResumeInv'
  <2>1. Done' = Done
    BY <1>8, <1>9 DEF Done, Same
  <2> QED
    BY <1>1, <1>2, <1>7, <1>10, <2>1 DEF PInv, ResumeInv
<1> QED
  BY <1>6, <1>11, <1>12, <1>14, <1>15, <1>16, <1>17 DEF PInv

(* A follower unyields while the roundup is held: to Roundup it leaves the
   queue for the mutex. *)
LEMMA FollowerUnyieldMoves ==
  ASSUME BInv, NEW v \in VCPU, FollowerUnyield(v)
  PROVE  PInv' /\ R!LeaveQueue(v)
<1> USE Names
<1>1. PInv /\ v \in Thread
  BY DEF BInv
<1>2. /\ pc[v] = "par_unyield" /\ pc' = [pc EXCEPT ![v] = "par_held"]
      /\ vcpu_waiters' = vcpu_waiters - 1
      /\ UNCHANGED <<cpuVars, loopVars, vcpus_progressing, owner, sig_emulating, ret, target,
                     parVars>>
  BY DEF FollowerUnyield, Unyield, At, Goto
<1>3. pc'[v] = "par_held" /\ Stepped(v)
  BY <1>1, <1>2 DEF PInv, ParType, Stepped, cpuVars, loopVars, parVars
<1>4. role[v] = "follower" /\ role' = role
  BY <1>1, <1>2
  DEF PInv, ParType, RoleInv, RoleOf, Forming, LeaderLabel, ReturnsTo, Inside, EndLabel,
    ParallelLabel,
      parVars
<1>5. HoldPhase
  BY <1>1, <1>2 DEF PInv, SharedInv
<1>6. /\ Shared /\ owner \in VCPU /\ owner # v /\ pcBar[owner] = "held" /\ ~Ending
      /\ owner' = owner
  BY <1>1, <1>2, <1>5, HoldPhaseFacts DEF Shared, Inside, EndLabel
<1>7. Shared'
  BY <1>3, <1>4, <1>6 DEF Shared, Stepped
<1>8. \A u \in VCPU : u # v => Same(u)
  BY <1>1, <1>3, SteppedSame
<1>9. ~Ends(v) /\ ~(Ends(v))'
  BY <1>2, <1>3 DEF Ends, EndLabel
<1>10. /\ ~Last(v) /\ ~(Last(v))' /\ Member(v) /\ (Member(v))' /\ ~Forming(v) /\ ~(Forming(v))'
       /\ v \notin Done /\ v \notin Done' /\ v \notin ToWake /\ v \notin ToWake'
  BY <1>2, <1>3, <1>4 DEF Last, Member, Forming, Done, ToWake, Sleeps, EndLabel, ReturnsTo
<1>11. HoldPhase' /\ \A u \in VCPU : (Last(u))' <=> Last(u)
  BY <1>5, <1>6, <1>7, <1>8, <1>10 DEF HoldPhase, Same
<1>12. R!LeaveQueue(v)
  <2>1. /\ iBar' = iBar /\ numBar' = numBar /\ retBar' = retBar
        /\ \A u \in Thread : u # v => (LabelOf(u))' = LabelOf(u) /\ ((Folded(u))' <=> Folded(u))
    BY <1>1, <1>3, <1>6, <1>7, <1>9, SteppedBars
  <2>2. LabelOf(v) = "lock" /\ ~Folded(v)
    BY <1>2, <1>6 DEF LabelOf, Folded, Inside, EndLabel, Base
  <2>3. state[v] = "EMULATE_ROUNDEDUP"
    <3>1. pcBar[v] = "lock" /\ stateBar[v] = state[v]
      BY <1>1, <2>2 DEF pcBar, stateBar
    <3>2. R!VcpuLocal(v) /\ ~R!ReturnsTo(v, "vmm") /\ R!Roundedup(stateBar[v])
      <4>1. R!OwnerMarks(v)
        BY <1>6 DEF R!OwnerMarks, R!MarkedBy, R!Holding
      <4> QED
        BY <1>1, <3>1, <4>1 DEF BInv, R!IInv, R!LocalInv, R!Local, R!MarkInv, R!ReturnsTo
    <3> QED
      BY <3>1, <3>2 DEF R!VcpuLocal, R!OffLabel, R!OnLabel, R!Roundedup
  <2>4. (Folded(v))' /\ (LabelOf(v))' = "off"
    <3>1. (Folded(v))'
      BY <1>3, <1>4, <1>6, <1>7, <2>3 DEF Folded, Stepped, Inside
    <3> QED
      BY <1>6, <3>1 DEF LabelOf
  <2>5. pcBar[v] = "lock" /\ pcBar' = [pcBar EXCEPT ![v] = "off"]
    BY <1>1, <2>1, <2>2, <2>4 DEF pcBar
  <2>6. stateBar' = [stateBar EXCEPT ![v] = "OFF_ROUNDEDUP"]
    BY <1>3, <2>1, <2>4 DEF stateBar, Stepped
  <2> QED
    BY <1>2, <1>6, <2>1, <2>5, <2>6
    DEF R!LeaveQueue, R!At, R!Goto, cpuVars, loopVars, R!loopVars
<1>13. ParType'
  BY <1>1, <1>2, <1>3 DEF PInv, ParType, cpuVars, loopVars, parVars
<1>14. LocalsInv' /\ RoleInv'
  <2>1. (Scoped(v))'
    BY <1>1, <1>2, <1>3 DEF PInv, LocalsInv, Scoped, ReturnsTo, Stepped
  <2>2. (RoleOf(v))'
    BY <1>1, <1>2, <1>3, <1>4 DEF PInv, RoleInv, RoleOf, Stepped, Inside
  <2> QED
    BY <1>1, <1>3, <2>1, <2>2, SteppedRoles
<1>15. SharedInv'
  <2>1. \A u \in VCPU : u # v => pc'[u] = pc[u] /\ role'[u] = role[u]
    BY <1>3 DEF Stepped
  <2>2. resume_waiter_sem' = resume_waiter_sem
    BY <1>2 DEF parVars
  <2> QED
    BY <1>1, <1>3, <1>4, <1>6, <1>7, <1>11, <2>1, <2>2 DEF PInv, SharedInv, EndLabel
<1>16. LeaderInv'
  <2>1. Members' = Members
    BY <1>8, <1>10 DEF Members, Same
  <2>2. \A u \in VCPU : (Forming(u))' <=> Forming(u)
    BY <1>8, <1>10 DEF Same
  <2> QED
    BY <1>1, <1>2, <1>5, <1>11, <2>1, <2>2 DEF PInv, LeaderInv, parVars
<1>17. TokenInv'
  <2>1. ToWake' = ToWake /\ pc'[owner] = pc[owner]
    BY <1>8, <1>10, <1>3, <1>6 DEF ToWake, Same, Stepped
  <2> QED
    BY <1>1, <1>2, <1>5, <1>6, <1>11, <2>1 DEF PInv, TokenInv, parVars
<1>18. ResumeInv'
  <2>1. Done' = Done
    BY <1>8, <1>10 DEF Done, Same
  <2> QED
    BY <1>1, <1>2, <1>5, <1>11, <2>1 DEF PInv, ResumeInv, parVars
<1> QED
  BY <1>12, <1>13, <1>14, <1>15, <1>16, <1>17, <1>18 DEF PInv

(* When the roundup returns to the leader, every other VCPU that takes part
   sleeps on count_sem, or has only to wake the roundup before it does. *)
LEMMA LeaderAlone ==
  ASSUME BInv, NEW v \in VCPU, pc[v] = "held", role[v] = "leader"
  PROVE  /\ owner = v /\ ~Shared /\ Forming(v)
         /\ \A u \in VCPU : u # v /\ role[u] # "none" =>
              /\ role[u] = "follower"
              /\ pc[u] = "count_sem" \/ (pc[u] = "notify_sig" /\ ret[u] = "count_sem")
<1> USE Names
<1>1. PInv /\ v \in Thread
  BY DEF BInv
<1>2. Alone(v) /\ Critical(v) /\ Forming(v)
  BY DEF Alone, Ends, EndLabel, Critical, Stopping, Holding, Forming, LeaderLabel
<1>3. owner = v /\ ~Shared /\ ~HoldPhase
  BY <1>1, <1>2, OwnerAlone DEF HoldPhase
<1>4. pcBar[v] = "held"
  BY <1>1, <1>2, AloneLabel DEF pcBar, Base
<1>5. ASSUME NEW u \in VCPU, u # v, role[u] # "none"
      PROVE  /\ role[u] = "follower"
             /\ pc[u] = "count_sem" \/ (pc[u] = "notify_sig" /\ ret[u] = "count_sem")
  <2>1. R!Quiet(u)
    BY <1>1, <1>4, HeldQuiet
  <2>2. /\ pcBar[u] \notin {"emulate", "yield"}
        /\ ~(pcBar[u] = "notify_sub" /\ retBar[u] = "lock")
    BY <2>1 DEF R!Quiet, R!Progressing, R!EmulatingLabel, R!At
  <2>3. pc[u] \notin {"par_unyield", "par_held", "par_post", "par_end"} \cup EndLabel
    BY <1>1, <1>3, <1>5 DEF PInv, SharedInv
  <2>4. pc[u] \notin {"resume_sem", "resume_post"}
    BY <1>3, <1>5, <2>2 DEF pcBar, LabelOf, Folded, Inside
  <2>5. ~Forming(u)
    BY <1>1, <1>2, <1>5 DEF PInv, LeaderInv
  <2>6. /\ role[u] = "follower"
        /\ ReturnsTo(u, "count_sem") \/ pc[u] \in {"par_yield", "count_sem"}
    BY <1>1, <1>5, <2>3, <2>4, <2>5 DEF PInv, ParType, RoleInv, RoleOf, Inside
  <2>7. pcBar[u] = Base(pc[u]) /\ retBar[u] = Base(ret[u])
    <3>1. Alone(u)
      BY <2>3, <2>4 DEF Alone, Ends
    <3> QED
      BY <1>1, <3>1, AloneLabel DEF pcBar, retBar
  <2> QED
    BY <2>2, <2>6, <2>7 DEF ReturnsTo, Base
<1> QED
  BY <1>2, <1>3, <1>5

LEMMA LeaderCountMoves ==
  ASSUME BInv, NEW v \in VCPU, LeaderCount(v)
  PROVE  PInv' /\ Unnoticed
<1> USE Names
<1>1. PInv /\ v \in Thread
  BY DEF BInv
<1>2. /\ pc[v] = "held" /\ role[v] = "leader" /\ pc' = [pc EXCEPT ![v] = "par_post"]
      /\ parallel_callers' = [parallel_callers EXCEPT ![v] = par_count - 1]
      /\ par_num_waiters' = par_count - 1
      /\ UNCHANGED <<cpuVars, countVars, loopVars, ret, target,
                     par_count, count_sem, resume_waiter_sem, role>>
  BY DEF LeaderCount, At, Goto
<1>3. pc'[v] = "par_post" /\ Stepped(v)
  BY <1>1, <1>2 DEF PInv, ParType, Stepped, cpuVars, loopVars
<1>4. /\ owner = v /\ owner' = v /\ ~Shared /\ Forming(v)
      /\ \A u \in VCPU : u # v /\ role[u] # "none" =>
           /\ role[u] = "follower"
           /\ pc[u] = "count_sem" \/ (pc[u] = "notify_sig" /\ ret[u] = "count_sem")
  BY <1>2, LeaderAlone DEF countVars
<1>5. \A u \in VCPU : u # v => /\ pc'[u] = pc[u] /\ role'[u] = role[u] /\ ret'[u] = ret[u]
                               /\ Same(u)
  BY <1>1, <1>3, SteppedSame DEF Stepped
<1>6. Shared' /\ role' = role
  BY <1>1, <1>2, <1>3, <1>4 DEF Shared
<1>7. \A u \in VCPU : ~Last(u) /\ ~(Last(u))' /\ ~Ends(u) /\ ~(Ends(u))'
  BY <1>2, <1>3, <1>4, <1>5, <1>6 DEF Last, Ends, EndLabel
<1>8. HoldPhase' /\ ~HoldPhase /\ ~Ending /\ ~Ending'
  BY <1>4, <1>6, <1>7 DEF HoldPhase, Ending
<1>9. Unnoticed
  <2>1. \A u \in Thread : ~Ends(u) /\ ~(Ends(u))'
    BY <1>1, <1>7, <1>6 DEF PInv, RoleInv, RoleOf, Ends
  <2>2. iBar' = iBar /\ numBar' = numBar /\ retBar' = retBar
    BY <1>2, <1>8, <2>1 DEF iBar, numBar, retBar, Handed, Base, loopVars
  <2>3. \A u \in Thread : ~Folded(u) /\ ~(Folded(u))'
    <3>1. \A u \in VCPU \ {v} : role[u] # "none" => pc'[u] \notin Inside
      BY <1>4, <1>5 DEF Inside, EndLabel
    <3>2. \A u \in Thread \ VCPU : role[u] = "none"
      BY <1>1 DEF PInv, RoleInv, RoleOf
    <3> QED
      BY <1>4, <1>6, <3>1, <3>2 DEF Folded
  <2>4. stateBar' = stateBar
    BY <1>2, <2>3 DEF stateBar, cpuVars
  <2>5. (LabelOf(v))' = "held" /\ LabelOf(v) = "held"
    BY <1>2, <1>4, <1>6, <1>8, <2>3 DEF LabelOf, Base, Inside, EndLabel
  <2>6. ASSUME NEW u \in Thread, u # v PROVE (LabelOf(u))' = LabelOf(u)
    <3>1. pc'[u] = pc[u] /\ role'[u] = role[u]
      BY <1>3, <2>6 DEF Stepped
    <3> QED
      BY <1>4, <1>6, <2>3, <2>6, <3>1 DEF LabelOf
  <2>7. pcBar' = pcBar
    BY <2>5, <2>6 DEF pcBar
  <2> QED
    BY <1>2, <2>2, <2>4, <2>7 DEF Unnoticed, cpuVars, loopVars
<1>10. /\ Member(v) /\ (Member(v))' /\ ~(Forming(v))'
       /\ v \notin ToWake /\ v \notin ToWake' /\ v \notin Done /\ v \notin Done'
  BY <1>2, <1>3 DEF Member, Forming, ToWake, Sleeps, Done, EndLabel, LeaderLabel, ReturnsTo
<1>11. Members' = Members /\ ToWake' = ToWake /\ Done' = Done
  BY <1>5, <1>10 DEF Members, ToWake, Done, Same
<1>12. Members = ToWake \cup {v}
  <2>1. \A u \in VCPU : u # v => (Member(u) <=> Sleeps(u))
    <3> SUFFICES ASSUME NEW u \in VCPU, u # v PROVE Member(u) <=> Sleeps(u)
      OBVIOUS
    <3>1. CASE role[u] = "none"
      BY <1>1, <3>1 DEF PInv, RoleInv, RoleOf, Member, Sleeps, ParallelLabel
    <3>2. CASE role[u] # "none"
      BY <1>4, <3>2 DEF Member, Sleeps, ReturnsTo, EndLabel
    <3> QED
      BY <3>1, <3>2
  <2> QED
    BY <1>10, <2>1 DEF Members, ToWake
<1>13. Done = {}
  BY <1>1, <1>2, <1>4 DEF Done, PInv, RoleInv, RoleOf, ParallelLabel
<1>14. /\ par_count = Cardinality(ToWake) + 1 /\ Cardinality(ToWake) \in Nat
       /\ par_count - 1 \in Nat
       /\ par_count - 1 = Cardinality(ToWake)
  <2>1. Cardinality(Members) = Cardinality(ToWake) + 1 /\ Cardinality(ToWake) \in Nat
    BY <1>10, <1>12, Finite, FS_AddElement, FS_CardinalityType
  <2> QED
    BY <1>1, <2>1 DEF PInv, LeaderInv
<1>15. count_sem = 0 /\ resume_waiter_sem = 0
  <2>1. par_num_waiters + resume_waiter_sem = 0
    BY <1>1, <1>8, <1>13, FS_EmptySet DEF PInv, ResumeInv
  <2> QED
    BY <1>1, <1>8, <2>1 DEF PInv, TokenInv, ParType
<1>16. ParType'
  <2>1. parallel_callers' \in [Thread -> Nat] /\ par_num_waiters' \in Nat
    BY <1>1, <1>2, <1>14 DEF PInv, ParType
  <2> QED
    BY <1>1, <1>2, <1>3, <2>1 DEF PInv, ParType, cpuVars, loopVars, Stepped
<1>17. LocalsInv' /\ RoleInv'
  <2>1. (Scoped(v))'
    BY <1>1, <1>2, <1>3 DEF PInv, LocalsInv, Scoped, ReturnsTo, Stepped
  <2>2. (RoleOf(v))'
    BY <1>1, <1>2, <1>3, <1>6 DEF PInv, RoleInv, RoleOf, Stepped
  <2> QED
    BY <1>1, <1>3, <2>1, <2>2, SteppedRoles
<1>18. SharedInv'
  <2>1. \A u \in VCPU : u # v => (role'[u] = "none" \/ role'[u] = "follower")
    BY <1>4, <1>5
  <2>2. \A u \in VCPU : u # v => pc'[u] \notin {"par_post", "resume_post"}
    BY <1>1, <1>4, <1>5 DEF PInv, RoleInv, RoleOf, ParallelLabel
  <2>3. (role[owner])' = "leader" /\ resume_waiter_sem' = 0
    BY <1>2, <1>4, <1>6, <1>15
  <2> QED
    BY <1>3, <1>4, <1>6, <1>7, <1>8, <2>1, <2>2, <2>3 DEF SharedInv
<1>19. LeaderInv'
  <2>1. \A u \in VCPU : ~(Forming(u))'
    <3>1. \A u \in VCPU : Forming(u) => u = v
      BY <1>1, <1>4 DEF PInv, LeaderInv
    <3> QED
      BY <1>5, <1>10, <3>1 DEF Same
  <2> QED
    BY <1>1, <1>2, <1>8, <1>11, <2>1 DEF PInv, LeaderInv
<1>20. TokenInv'
  <2>1. parallel_callers'[v] = par_count - 1
    BY <1>1, <1>2 DEF PInv, ParType
  <2> QED
    BY <1>2, <1>3, <1>4, <1>8, <1>11, <1>14, <1>15, <2>1 DEF TokenInv
<1>21. ResumeInv'
  <2>1. Cardinality(Done') = 0
    BY <1>11, <1>13, FS_EmptySet
  <2> QED
    BY <1>2, <1>8, <1>14, <1>15, <2>1 DEF ResumeInv
<1> QED
  BY <1>9, <1>16, <1>17, <1>18, <1>19, <1>20, <1>21 DEF PInv

LEMMA LeaderReleaseMoves ==
  ASSUME BInv, NEW v \in VCPU, LeaderRelease(v)
  PROVE  PInv' /\ Unnoticed
<1> USE Names
<1>1. PInv /\ v \in Thread
  BY DEF BInv
<1>2. /\ pc[v] = "par_post"
      /\ \/ /\ parallel_callers[v] > 0 /\ count_sem' = count_sem + 1
            /\ parallel_callers' = [parallel_callers EXCEPT ![v] = @ - 1]
            /\ pc' = pc
         \/ /\ ~(parallel_callers[v] > 0) /\ pc' = [pc EXCEPT ![v] = "par_held"]
            /\ count_sem' = count_sem /\ parallel_callers' = parallel_callers
      /\ UNCHANGED <<cpuVars, countVars, loopVars, ret, target, par_count,
                     par_num_waiters, resume_waiter_sem, role>>
  BY DEF LeaderRelease, At, Goto
<1>3. pc'[v] \in {"par_post", "par_held"} /\ Stepped(v)
  BY <1>1, <1>2 DEF PInv, ParType, Stepped, cpuVars, loopVars
<1>4. Shared /\ HoldPhase /\ owner = v /\ role[v] = "leader" /\ role' = role /\ owner' = owner
  BY <1>1, <1>2 DEF PInv, SharedInv, countVars
<1>5. Shared'
  BY <1>1, <1>3, <1>4 DEF Shared, Inside
<1>6. \A u \in VCPU : u # v => Same(u)
  BY <1>1, <1>3, SteppedSame
<1>7. ~Ends(v) /\ ~(Ends(v))'
  BY <1>2, <1>3 DEF Ends, EndLabel
<1>8. /\ ~Last(v) /\ ~(Last(v))' /\ Member(v) /\ (Member(v))' /\ ~Forming(v) /\ ~(Forming(v))'
      /\ v \notin Done /\ v \notin Done' /\ v \notin ToWake /\ v \notin ToWake'
  BY <1>2, <1>3, <1>4 DEF Last, Member, Forming, Done, ToWake, Sleeps, EndLabel, LeaderLabel,
    ReturnsTo
<1>9. HoldPhase' /\ \A u \in VCPU : (Last(u))' <=> Last(u)
  BY <1>4, <1>5, <1>6, <1>8 DEF HoldPhase, Same
<1>10. Unnoticed
  <2>1. ~Folded(v) /\ ~(Folded(v))'
    BY <1>4 DEF Folded
  <2>2. (LabelOf(v))' = LabelOf(v)
    <3>1. ~Ending /\ ~Ending'
      BY <1>1, <1>3, <1>4, <1>5, <1>7, HoldPhaseFacts, SteppedBars
    <3> QED
      BY <1>4, <1>5, <3>1 DEF LabelOf
  <2> QED
    BY <1>1, <1>2, <1>3, <1>4, <1>5, <1>7, <2>1, <2>2, SteppedBars DEF Unnoticed, cpuVars,
      loopVars
<1>11. Members' = Members /\ ToWake' = ToWake /\ Done' = Done
  BY <1>6, <1>8 DEF Members, ToWake, Done, Same
<1>12. ParType'
  <2>1. parallel_callers' \in [Thread -> Nat] /\ count_sem' \in Nat
    BY <1>1, <1>2 DEF PInv, ParType
  <2> QED
    BY <1>1, <1>2, <1>3, <2>1 DEF PInv, ParType, cpuVars, loopVars, Stepped
<1>13. LocalsInv' /\ RoleInv'
  <2>1. (Scoped(v))'
    BY <1>1, <1>2, <1>3 DEF PInv, LocalsInv, Scoped, ReturnsTo, Stepped
  <2>2. (RoleOf(v))'
    BY <1>1, <1>2, <1>3, <1>4 DEF PInv, RoleInv, RoleOf, Stepped, Inside
  <2> QED
    BY <1>1, <1>3, <2>1, <2>2, SteppedRoles
<1>14. SharedInv'
  <2>1. \A u \in VCPU : u # v => pc'[u] = pc[u] /\ role'[u] = role[u]
    BY <1>3 DEF Stepped
  <2>2. resume_waiter_sem' = resume_waiter_sem
    BY <1>2
  <2> QED
    BY <1>1, <1>3, <1>4, <1>5, <1>9, <2>1, <2>2 DEF PInv, SharedInv, EndLabel
<1>15. LeaderInv'
  <2>1. \A u \in VCPU : (Forming(u))' <=> Forming(u)
    BY <1>6, <1>8 DEF Same
  <2> QED
    BY <1>1, <1>2, <1>4, <1>9, <1>11, <2>1 DEF PInv, LeaderInv
<1>16. TokenInv'
  <2>1. count_sem + parallel_callers[v] = Cardinality(ToWake)
    BY <1>1, <1>2, <1>4 DEF PInv, TokenInv
  <2>2. count_sem \in Nat /\ parallel_callers[v] \in Nat /\ Cardinality(ToWake) \in Nat
    BY <1>1, Finite, FS_CardinalityType DEF PInv, ParType
  <2>3. CASE pc' = pc
    <3>1. parallel_callers'[v] = parallel_callers[v] - 1 /\ count_sem' = count_sem + 1
      BY <1>1, <1>2, <2>3 DEF PInv, ParType
    <3> QED
      BY <1>2, <1>4, <1>9, <1>11, <2>1, <2>2, <2>3, <3>1 DEF TokenInv
  <2>4. CASE pc' = [pc EXCEPT ![v] = "par_held"]
    <3>1. pc'[v] = "par_held" /\ parallel_callers[v] = 0 /\ count_sem' = count_sem
      BY <1>1, <1>2, <2>2, <2>4 DEF PInv, ParType
    <3> QED
      BY <1>4, <1>9, <1>11, <2>1, <2>2, <3>1 DEF TokenInv
  <2> QED
    BY <1>2, <2>3, <2>4
<1>17. ResumeInv'
  BY <1>1, <1>2, <1>4, <1>9, <1>11 DEF PInv, ResumeInv
<1> QED
  BY <1>10, <1>12, <1>13, <1>14, <1>15, <1>16, <1>17 DEF PInv

(* A caller of resume_parallel that leaves others goes to sleep; the last one
   is to end the roundup. *)
LEMMA CallResumeParallelMoves ==
  ASSUME BInv, NEW v \in VCPU, CallResumeParallel(v)
  PROVE  PInv' /\ Unnoticed
<1> USE Names
<1>1. PInv /\ v \in Thread
  BY DEF BInv
<1>2. /\ pc[v] = "par_held" /\ par_count # 0 /\ par_count' = par_count - 1
      /\ pc' = [pc EXCEPT ![v] = IF par_count = 1 THEN "par_end" ELSE "resume_sem"]
      /\ UNCHANGED <<cpuVars, countVars, loopVars, ret, target, par_num_waiters,
                     count_sem, resume_waiter_sem, role, parallel_callers>>
  BY DEF CallResumeParallel, At, Goto
<1>3. /\ pc'[v] = IF par_count = 1 THEN "par_end" ELSE "resume_sem"
      /\ Stepped(v)
  BY <1>1, <1>2 DEF PInv, ParType, Stepped, cpuVars, loopVars
<1>4. role[v] # "none" /\ role' = role
  BY <1>1, <1>2 DEF PInv, RoleInv, RoleOf, ParallelLabel
<1>5. HoldPhase /\ Shared /\ owner \in VCPU /\ ~Ending /\ owner' = owner
      /\ \A u \in VCPU : ~Forming(u)
  BY <1>1, <1>2, HoldPhaseFacts DEF PInv, SharedInv, countVars
<1>6. Shared'
  BY <1>3, <1>4, <1>5 DEF Shared, Stepped, Inside
<1>7. \A u \in VCPU : u # v => Same(u)
  BY <1>1, <1>3, SteppedSame
<1>8. ~Ends(v) /\ ~(Ends(v))'
  BY <1>2, <1>3 DEF Ends, EndLabel
<1>9. /\ ~Last(v) /\ ((Last(v))' <=> par_count = 1)
      /\ Member(v) /\ ~(Member(v))' /\ ~(Forming(v))'
      /\ v \notin Done /\ (v \in Done' <=> par_count # 1)
      /\ v \notin ToWake /\ v \notin ToWake'
  BY <1>2, <1>3, <1>4 DEF Last, Member, Forming, Done, ToWake, Sleeps, EndLabel, LeaderLabel,
    ReturnsTo
<1>10. \A u \in VCPU : ~Last(u)
  BY <1>5 DEF HoldPhase
<1>11. \A u \in VCPU : u # v => ~(Last(u))'
  BY <1>7, <1>10 DEF Same
<1>12. HoldPhase' <=> par_count # 1
  BY <1>6, <1>9, <1>11 DEF HoldPhase
<1>13. Members' = Members \ {v} /\ v \in Members
  BY <1>7, <1>9 DEF Members, Same
<1>14. /\ par_count = Cardinality(Members) /\ par_count' = Cardinality(Members')
       /\ par_count = 1 => Members' = {}
  <2>1. par_count = Cardinality(Members)
    BY <1>1 DEF PInv, LeaderInv
  <2>2. Cardinality(Members') = Cardinality(Members) - 1
    BY <1>13, Finite, FS_RemoveElement
  <2>3. IsFiniteSet(Members')
    BY <1>13, Finite, FS_RemoveElement
  <2> QED
    BY <1>2, <2>1, <2>2, <2>3, FS_EmptySet
<1>15. Unnoticed
  <2>1. (Folded(v))' <=> Folded(v)
    BY <1>2, <1>3, <1>4, <1>5, <1>6 DEF Folded, Stepped, Inside
  <2>2. (LabelOf(v))' = LabelOf(v)
    <3>1. ~Ending'
      BY <1>1, <1>3, <1>5, <1>6, <1>8, SteppedBars
    <3> QED
      BY <1>2, <1>3, <1>4, <1>5, <1>6, <2>1, <3>1 DEF LabelOf, Inside
  <2> QED
    BY <1>1, <1>2, <1>3, <1>5, <1>6, <1>8, <2>1, <2>2, SteppedBars DEF Unnoticed, cpuVars,
      loopVars
<1>16. ParType'
  <2>1. par_count' \in Nat
    BY <1>1, <1>2 DEF PInv, ParType
  <2> QED
    BY <1>1, <1>2, <1>3, <2>1 DEF PInv, ParType, cpuVars, loopVars, Stepped
<1>17. LocalsInv' /\ RoleInv'
  <2>1. (Scoped(v))'
    BY <1>1, <1>2, <1>3 DEF PInv, LocalsInv, Scoped, ReturnsTo, Stepped
  <2>2. (RoleOf(v))'
    BY <1>1, <1>2, <1>3, <1>4 DEF PInv, RoleInv, RoleOf, Stepped, Inside
  <2> QED
    BY <1>1, <1>3, <2>1, <2>2, SteppedRoles
<1>18. SharedInv'
  <2>1. \A u \in VCPU : u # v => pc'[u] = pc[u] /\ role'[u] = role[u]
    BY <1>3 DEF Stepped
  <2>2. resume_waiter_sem' = resume_waiter_sem
    BY <1>2
  <2>3. ASSUME NEW u \in VCPU, pc'[u] \in {"par_unyield", "par_held", "par_post"}
        PROVE  HoldPhase'
    <3>1. u # v /\ pc'[u] = pc[u]
      BY <1>3, <2>1, <2>3
    <3>2. role'[u] # "none"
      BY <1>1, <1>4, <2>3, <3>1 DEF PInv, RoleInv, RoleOf, ParallelLabel
    <3>3. (Member(u))'
      BY <2>3, <3>2 DEF Member, EndLabel
    <3>4. Members' # {}
      BY <3>3 DEF Members
    <3> QED
      BY <1>12, <1>14, <3>4
  <2>4. \A u, w \in VCPU : (Last(u))' /\ (Last(w))' => u = w
    BY <1>11
  <2>5. Shared => role[owner] = "leader" /\ resume_waiter_sem = 0
    BY <1>1 DEF PInv, SharedInv
  <2>6. \A u \in VCPU : /\ pc'[u] = "par_post" => owner' = u
                        /\ pc'[u] # "resume_post"
                        /\ role'[u] = "leader" /\ pc'[u] = "par_held" => owner' = u
    BY <1>1, <1>3, <1>5, <2>1 DEF PInv, SharedInv
  <2> QED
    BY <1>4, <1>5, <1>6, <2>2, <2>3, <2>4, <2>5, <2>6 DEF SharedInv
<1>19. LeaderInv'
  <2>1. \A u \in VCPU : ~(Forming(u))'
    BY <1>5, <1>7, <1>9 DEF Same
  <2>2. par_count = 1 => \A u \in VCPU : ~(Member(u))'
    BY <1>14 DEF Members
  <2> QED
    BY <1>12, <1>14, <2>1, <2>2 DEF LeaderInv
<1>20. TokenInv'
  <2>1. ToWake' = ToWake
    BY <1>7, <1>9 DEF ToWake, Same
  <2>2. ToWake \subseteq Members \ {v}
    <3> SUFFICES ASSUME NEW u \in VCPU, Sleeps(u) PROVE Member(u) /\ u # v
      BY DEF ToWake, Members
    <3>1. role[u] # "none"
      BY <1>1 DEF Sleeps, PInv, RoleInv, RoleOf, ParallelLabel
    <3> QED
      BY <1>9, <3>1 DEF ToWake, Sleeps, Member, ReturnsTo, EndLabel
  <2>3. count_sem + (IF pc[owner] = "par_post" THEN parallel_callers[owner] ELSE 0)
          = Cardinality(ToWake)
    BY <1>1, <1>5 DEF PInv, TokenInv
  <2>4. CASE par_count = 1
    <3>1. Cardinality(ToWake) = 0
      BY <1>13, <1>14, <2>2, <2>4, FS_EmptySet
    <3>2. count_sem \in Nat /\ parallel_callers[owner] \in Nat
      BY <1>1, <1>5 DEF PInv, ParType
    <3>3. count_sem' = 0
      BY <1>2, <2>3, <3>1, <3>2
    <3> QED
      BY <1>12, <2>4, <3>3 DEF TokenInv
  <2>5. CASE par_count # 1
    <3>1. pc'[owner] = "par_post" <=> pc[owner] = "par_post"
      BY <1>2, <1>3, <1>5 DEF Stepped
    <3> QED
      BY <1>2, <1>5, <1>12, <2>1, <2>3, <2>5, <3>1 DEF TokenInv
  <2> QED
    BY <2>4, <2>5
<1>21. ResumeInv'
  <2>1. /\ par_num_waiters + resume_waiter_sem + 1 = Cardinality(Done) + par_count
        /\ par_num_waiters \in Nat /\ resume_waiter_sem \in Nat /\ par_count \in Nat
        /\ Cardinality(Done) \in Nat
    BY <1>1, <1>5, Finite, FS_CardinalityType DEF PInv, ResumeInv, ParType
  <2>2. CASE par_count = 1
    <3>1. Done' = Done
      BY <1>7, <1>9, <2>2 DEF Done, Same
    <3> QED
      BY <1>2, <1>9, <1>12, <2>1, <2>2, <3>1 DEF ResumeInv
  <2>3. CASE par_count # 1
    <3>1. Done' = Done \cup {v}
      BY <1>7, <1>9, <2>3 DEF Done, Same
    <3>2. Cardinality(Done') = Cardinality(Done) + 1
      BY <1>9, <3>1, Finite, FS_AddElement
    <3> QED
      BY <1>2, <1>12, <2>1, <2>3, <3>2 DEF ResumeInv
  <2> QED
    BY <2>2, <2>3
<1> QED
  BY <1>15, <1>16, <1>17, <1>18, <1>19, <1>20, <1>21 DEF PInv

(* The last one unyields: to Roundup the owner resumes. *)
LEMMA LastUnyieldMoves ==
  ASSUME BInv, NEW v \in VCPU, LastUnyield(v)
  PROVE  PInv' /\ owner \in Thread /\ R!Resume(owner)
<1> USE Names
<1>1. PInv /\ v \in Thread
  BY DEF BInv
<1>2. /\ pc[v] = "par_end" /\ pc' = [pc EXCEPT ![v] = "er_read"]
      /\ vcpu_waiters >= 1 /\ vcpu_waiters' = vcpu_waiters - 1
      /\ UNCHANGED <<cpuVars, loopVars, vcpus_progressing, owner, sig_emulating, ret, target,
                     parVars>>
  BY DEF LastUnyield, Unyield, At, Goto
<1>3. pc'[v] = "er_read" /\ Stepped(v)
  BY <1>1, <1>2 DEF PInv, ParType, Stepped, cpuVars, loopVars, parVars
<1>4. role[v] # "none" /\ role' = role
  BY <1>1, <1>2 DEF PInv, RoleInv, RoleOf, ParallelLabel, parVars
<1>5. Last(v) /\ Shared /\ owner \in VCPU /\ owner \in Thread /\ owner' = owner
  <2>1. Last(v) /\ Shared
    BY <1>1, <1>2, <1>4 DEF Last, PInv, SharedInv
  <2> QED
    BY <1>1, <1>2, <2>1 DEF Shared, PInv, RoleInv, RoleOf
<1>6. Shared'
  BY <1>3, <1>4, <1>5 DEF Shared, Stepped, Inside, EndLabel
<1>7. \A u \in VCPU : u # v => ~Last(u)
  BY <1>1, <1>5 DEF PInv, SharedInv
<1>8. \A u \in Thread : ~Ends(u) /\ ((Ends(u))' <=> u = v)
  <2>1. ~Ends(v) /\ (Ends(v))'
    BY <1>2, <1>3, <1>4 DEF Ends, EndLabel
  <2>2. ASSUME NEW u \in Thread, u # v PROVE ~Ends(u) /\ ~(Ends(u))'
    <3>1. pc'[u] = pc[u] /\ role'[u] = role[u]
      BY <1>3, <2>2 DEF Stepped
    <3>2. ~Ends(u)
      BY <1>1, <1>7, <2>2, OnlyVcpusEnd DEF Ends, Last
    <3> QED
      BY <3>1, <3>2 DEF Ends
  <2> QED
    BY <2>1, <2>2
<1>9. ~Ending /\ Ending' /\ Ender' = v
  BY <1>8 DEF Ending, Ender
<1>10. \A u \in Thread : (Folded(u))' <=> Folded(u)
  <2>1. ASSUME NEW u \in Thread PROVE (Folded(u))' <=> Folded(u)
    <3>1. role'[u] = role[u] /\ (pc'[u] \in Inside <=> pc[u] \in Inside) /\ state' = state
      BY <1>2, <1>3, <1>4 DEF Stepped, Inside, EndLabel
    <3> QED
      BY <1>5, <1>6, <3>1 DEF Folded
  <2> QED
    BY <2>1
<1>11. R!Resume(owner)
  <2>1. LabelOf(owner) = "held"
    BY <1>5, <1>9 DEF LabelOf
  <2>2. \A u \in Thread : (LabelOf(u))' = IF u = owner THEN "er_read" ELSE LabelOf(u)
    <3>1. ASSUME NEW u \in Thread, u = owner PROVE (LabelOf(u))' = "er_read"
      BY <1>3, <1>5, <1>6, <1>9, <3>1 DEF LabelOf
    <3>2. ASSUME NEW u \in Thread, u # owner PROVE (LabelOf(u))' = LabelOf(u)
      <4>1. (Folded(u))' <=> Folded(u)
        BY <1>10
      <4>2. CASE u # v
        <5>1. pc'[u] = pc[u] /\ role'[u] = role[u]
          BY <1>3, <4>2 DEF Stepped
        <5> QED
          BY <1>5, <3>2, <4>1, <5>1 DEF LabelOf
      <4>3. CASE u = v
        BY <1>2, <1>3, <1>4, <1>5, <3>2, <4>1, <4>3 DEF LabelOf, Inside, EndLabel
      <4> QED
        BY <4>2, <4>3
    <3> QED
      BY <3>1, <3>2
  <2>3. pcBar[owner] = "held" /\ pcBar' = [pcBar EXCEPT ![owner] = "er_read"]
    BY <1>5, <2>1, <2>2 DEF pcBar
  <2>4. stateBar' = stateBar
    BY <1>3, <1>10 DEF stateBar, Stepped
  <2>5. /\ i[v] = 0 /\ i[owner] = 0 /\ num_waiters[v] = 0 /\ num_waiters[owner] = 0
        /\ i' = i /\ num_waiters' = num_waiters
    <3>1. pc[owner] \in {"par_post", "par_held", "par_end", "resume_sem"}
      BY <1>5, <1>8 DEF Shared, Inside, Ends
    <3> QED
      BY <1>1, <1>2, <1>3, <1>5, <3>1 DEF PInv, LocalsInv, Scoped, ReturnsTo, Stepped
  <2>6. /\ \A u \in Thread : (Handed(u, i))' = Handed(u, i)
        /\ \A u \in Thread : (Handed(u, num_waiters))' = Handed(u, num_waiters)
    BY <1>8, <1>9, <1>5, <2>5 DEF Handed
  <2>7. iBar' = iBar /\ numBar' = numBar /\ retBar' = retBar
    BY <1>2, <2>6 DEF iBar, numBar, retBar, Base
  <2> QED
    BY <1>2, <1>5, <2>3, <2>4, <2>7
    DEF R!Resume, R!Unyield, R!At, R!Goto, cpuVars, R!cpuVars, loopVars, R!loopVars
<1>12. \A u \in VCPU : Same(u)
  <2>1. Same(v)
    BY <1>2, <1>3, <1>4 DEF Same, Last, Member, Forming, Sleeps, ReturnsTo, EndLabel,
      LeaderLabel
  <2> QED
    BY <1>1, <1>3, <2>1, SteppedSame
<1>13. SharedInv' /\ LeaderInv' /\ TokenInv' /\ ResumeInv'
  BY <1>1, <1>2, <1>5, <1>6, <1>12, SameKeeps
<1>14. ParType'
  BY <1>1, <1>2, <1>3 DEF PInv, ParType, cpuVars, loopVars, parVars
<1>15. LocalsInv' /\ RoleInv'
  <2>1. (Scoped(v))'
    BY <1>1, <1>2, <1>3 DEF PInv, LocalsInv, Scoped, ReturnsTo, Stepped
  <2>2. (RoleOf(v))'
    BY <1>1, <1>2, <1>3, <1>4 DEF PInv, RoleInv, RoleOf, Stepped, Inside, EndLabel
  <2> QED
    BY <1>1, <1>3, <2>1, <2>2, SteppedRoles
<1> QED
  BY <1>5, <1>11, <1>13, <1>14, <1>15 DEF PInv

(* The steps of the last caller once it is past the roundup, and of those it
   wakes: nobody holds the VM. *)
LEMMA AfterKeeps ==
  ASSUME PInv, NEW v \in VCPU, ~HoldPhase, Last(v) \/ ~Shared, ~Shared',
         \A u \in VCPU : u # v => Same(u),
         role[v] # "none" /\ pc[v] \in {"unlock", "resume_post", "resume_sem"},
         \/ role'[v] # "none" /\ pc'[v] = "resume_post"
            /\ pc[v] \in {"unlock", "resume_post"}
         \/ role'[v] = "none" /\ pc'[v] = "emulate",
         par_count' = par_count, count_sem' = count_sem
  PROVE  /\ SharedInv' /\ LeaderInv' /\ TokenInv' /\ ~HoldPhase'
         /\ Done' = Done \ {v}
         /\ \A u \in VCPU : u # v => ((Last(u))' <=> Last(u))
<1>1. ~HoldPhase'
  BY DEF HoldPhase
<1>2. \A u \in VCPU : u # v => /\ (Last(u))' <=> Last(u)
                               /\ (Forming(u))' <=> Forming(u)
                               /\ (Member(u))' <=> Member(u)
                               /\ pc'[u] = "resume_sem" <=> pc[u] = "resume_sem"
  BY DEF Same
<1>3. /\ ~Member(v) /\ ~(Member(v))' /\ ~Forming(v) /\ ~(Forming(v))'
      /\ (Last(v))' => Last(v)
      /\ v \notin Done'
  BY DEF Member, Forming, Last, Done, EndLabel, LeaderLabel, ReturnsTo
<1>4. SharedInv'
  <2>1. \A u \in VCPU : pc'[u] \notin {"par_unyield", "par_held", "par_post"}
    <3>1. \A u \in VCPU : pc[u] \notin {"par_unyield", "par_held", "par_post"}
      BY DEF PInv, SharedInv
    <3> QED
      BY <3>1 DEF Same
  <2>2. \A u, w \in VCPU : (Last(u))' /\ (Last(w))' => u = w
    BY <1>2, <1>3 DEF PInv, SharedInv
  <2>3. ASSUME NEW u \in VCPU, role'[u] # "none", pc'[u] \in {"par_end"} \cup EndLabel
        PROVE  FALSE
    <3>1. u # v
      BY <2>3 DEF EndLabel
    <3>2. (Last(u))' /\ pc'[u] # "resume_post"
      BY <2>3 DEF Last, EndLabel
    <3>3. Last(u) /\ pc[u] # "resume_post"
      BY <3>1, <3>2 DEF Same
    <3>4. Shared
      BY <3>3 DEF Last, PInv, SharedInv
    <3> QED
      BY <3>1, <3>3, <3>4 DEF PInv, SharedInv
  <2> QED
    BY <2>1, <2>2, <2>3 DEF SharedInv
<1>5. LeaderInv'
  <2>1. Members' = Members
    BY <1>2, <1>3 DEF Members
  <2>2. \A u \in VCPU : (Forming(u))' <=> Forming(u)
    BY <1>2, <1>3
  <2>3. \A u \in VCPU : (Member(u))' <=> Member(u)
    BY <1>2, <1>3
  <2> QED
    BY <1>1, <2>1, <2>2, <2>3 DEF PInv, LeaderInv
<1>6. TokenInv'
  BY <1>1 DEF PInv, TokenInv
<1>7. Done' = Done \ {v}
  BY <1>2, <1>3 DEF Done
<1> QED
  BY <1>1, <1>2, <1>4, <1>5, <1>6, <1>7

(* The last one unlocks the mutex, for the owner. *)
LEMMA LastSignalNextWaiterMoves ==
  ASSUME BInv, NEW v \in VCPU, LastSignalNextWaiter(v)
  PROVE  PInv' /\ owner \in Thread /\ R!SignalNextWaiter(owner)
<1> USE Names
<1>1. PInv /\ v \in Thread
  BY DEF BInv
<1>2. /\ pc[v] = "unlock" /\ role[v] # "none" /\ pc' = [pc EXCEPT ![v] = "resume_post"]
      /\ owner' = NoThread
      /\ UNCHANGED <<cpuVars, loopVars, vcpus_progressing, vcpu_waiters, sig_emulating, ret,
                     target, parVars>>
  BY DEF LastSignalNextWaiter, Unlock, At, Goto
<1>3. pc'[v] = "resume_post" /\ Stepped(v)
  BY <1>1, <1>2 DEF PInv, ParType, Stepped, cpuVars, loopVars, parVars
<1>4. role' = role /\ Ends(v) /\ Last(v)
  BY <1>2 DEF parVars, Ends, Last, EndLabel
<1>5. /\ Shared /\ Ending /\ Ender = v /\ owner \in VCPU /\ owner \in Thread
      /\ \A u \in Thread : Ends(u) <=> u = v
  <2>1. Shared /\ Ending /\ Ender = v
    BY <1>1, <1>4, EnderFacts
  <2>2. owner \in VCPU /\ owner \in Thread
    BY <1>1, <2>1 DEF Shared, PInv, RoleInv, RoleOf
  <2>3. \A u \in Thread : Ends(u) => u = v
    BY <1>1, <2>1, OnlyVcpusEnd, EnderFacts
  <2> QED
    BY <1>4, <2>1, <2>2, <2>3
<1>6. ~Shared' /\ ~HoldPhase
  BY <1>2, <1>4, ThreadAssumption DEF Shared, HoldPhase, Thread
<1>7. \A u \in Thread : ~(Ends(u))'
  <2>1. ~(Ends(v))'
    BY <1>3 DEF Ends, EndLabel
  <2>2. \A u \in Thread : u # v => ~(Ends(u))'
    BY <1>3, <1>5 DEF Ends, Stepped
  <2> QED
    BY <2>1, <2>2
<1>8. ~Ending'
  BY <1>7 DEF Ending
<1>9. R!SignalNextWaiter(owner)
  <2>1. pcBar[owner] = "unlock"
    BY <1>2, <1>5 DEF pcBar, LabelOf
  <2>2. \A u \in VCPU : ~Folded(u)
    <3> SUFFICES ASSUME NEW u \in VCPU, Folded(u) PROVE FALSE
      OBVIOUS
    <3>1. stateBar[u] = "OFF_ROUNDEDUP"
      BY DEF stateBar
    <3>2. ~R!OwnerMarks(u)
      BY <2>1 DEF R!OwnerMarks, R!MarkedBy, R!Rounding, R!Gathering, R!Holding, R!ReturnsTo,
        R!At
    <3> QED
      BY <3>1, <3>2 DEF BInv, R!IInv, R!MarkInv, R!Roundedup
  <2>3. \A u \in Thread : ~Folded(u) /\ ~(Folded(u))'
    BY <1>1, <1>6, <2>2 DEF Folded, PInv, RoleInv, RoleOf
  <2>4. stateBar' = stateBar
    BY <1>3, <2>3 DEF stateBar, Stepped
  <2>5. pc[owner] \in Inside /\ role[owner] # "none"
    <3>1. pc[owner] # "par_post"
      BY <1>1, <1>5, <1>6 DEF PInv, SharedInv
    <3> QED
      BY <1>5, <3>1 DEF Shared
  <2>6. ASSUME NEW u \in Thread
        PROVE  (LabelOf(u))' = IF u = owner THEN "emulate" ELSE LabelOf(u)
    <3>1. CASE u = v
      BY <1>2, <1>3, <1>4, <1>5, <1>6, <2>3, <3>1 DEF LabelOf, Inside, EndLabel
    <3>2. CASE u # v
      <4>1. pc'[u] = pc[u] /\ role'[u] = role[u]
        BY <1>3, <3>2 DEF Stepped
      <4> QED
        BY <1>5, <1>6, <2>3, <2>5, <4>1 DEF LabelOf
    <3> QED
      BY <3>1, <3>2
  <2>7. pcBar' = [pcBar EXCEPT ![owner] = "emulate"]
    BY <2>6 DEF pcBar
  <2>8. /\ i[v] = 0 /\ i[owner] = 0 /\ num_waiters[v] = 0 /\ num_waiters[owner] = 0
        /\ i' = i /\ num_waiters' = num_waiters
    <3>1. pc[owner] \in {"par_held", "par_end", "resume_sem", "unlock"}
      BY <1>2, <1>5, <2>5 DEF Inside, Ends
    <3> QED
      BY <1>1, <1>2, <1>3, <1>5, <3>1 DEF PInv, LocalsInv, Scoped, ReturnsTo, Stepped
  <2>9. /\ \A u \in Thread : (Handed(u, i))' = Handed(u, i)
        /\ \A u \in Thread : (Handed(u, num_waiters))' = Handed(u, num_waiters)
    BY <1>7, <1>8, <1>5, <2>8 DEF Handed
  <2>10. iBar' = iBar /\ numBar' = numBar /\ retBar' = retBar
    BY <1>2, <2>9 DEF iBar, numBar, retBar, Base
  <2> QED
    BY <1>2, <1>5, <2>1, <2>4, <2>7, <2>10
    DEF R!SignalNextWaiter, R!Unlock, R!At, R!Goto, cpuVars, R!cpuVars, loopVars, R!loopVars
<1>10. /\ SharedInv' /\ LeaderInv' /\ TokenInv' /\ ~HoldPhase'
       /\ Done' = Done \ {v}
       /\ \A u \in VCPU : u # v => ((Last(u))' <=> Last(u))
  BY <1>1, <1>2, <1>3, <1>4, <1>6, SteppedSame, AfterKeeps DEF parVars
<1>11. ParType'
  BY <1>1, <1>2, <1>3 DEF PInv, ParType, cpuVars, loopVars, parVars
<1>12. LocalsInv' /\ RoleInv'
  <2>1. (Scoped(v))'
    BY <1>1, <1>2, <1>3 DEF PInv, LocalsInv, Scoped, ReturnsTo, Stepped
  <2>2. (RoleOf(v))'
    BY <1>1, <1>2, <1>3, <1>4 DEF PInv, RoleInv, RoleOf, Stepped
  <2> QED
    BY <1>1, <1>3, <2>1, <2>2, SteppedRoles
<1>13. ResumeInv'
  <2>1. Done' = Done
    BY <1>2, <1>10 DEF Done
  <2>2. (Last(v))'
    BY <1>2, <1>3, <1>4 DEF Last
  <2> QED
    BY <1>1, <1>2, <1>6, <1>10, <2>1, <2>2 DEF PInv, ResumeInv, parVars
<1> QED
  BY <1>5, <1>9, <1>10, <1>11, <1>12, <1>13 DEF PInv

(* The last caller wakes the others one by one and leaves. *)
LEMMA LastReleaseMoves ==
  ASSUME BInv, NEW v \in VCPU, LastRelease(v)
  PROVE  PInv' /\ Unnoticed
<1> USE Names
<1>1. PInv /\ v \in Thread
  BY DEF BInv
<1>2. /\ pc[v] = "resume_post"
      /\ \/ /\ par_num_waiters > 0
            /\ resume_waiter_sem' = resume_waiter_sem + 1
            /\ par_num_waiters' = par_num_waiters - 1
            /\ pc' = pc /\ role' = role
         \/ /\ ~(par_num_waiters > 0)
            /\ pc' = [pc EXCEPT ![v] = "emulate"] /\ role' = [role EXCEPT ![v] = "none"]
            /\ resume_waiter_sem' = resume_waiter_sem /\ par_num_waiters' = par_num_waiters
      /\ UNCHANGED <<cpuVars, countVars, loopVars, ret, target, par_count, count_sem,
                     parallel_callers>>
  BY DEF LastRelease, At, Goto
<1>3. /\ Stepped(v) /\ role' \in [Thread -> {"none", "leader", "follower"}]
      /\ \/ pc'[v] = "resume_post" /\ role'[v] = role[v]
         \/ pc'[v] = "emulate" /\ role'[v] = "none"
  BY <1>1, <1>2 DEF PInv, ParType, Stepped, cpuVars, loopVars
<1>4. role[v] # "none" /\ Last(v)
  BY <1>1, <1>2 DEF PInv, RoleInv, RoleOf, ParallelLabel, Last
<1>5. ~Shared /\ owner' = owner
  BY <1>1, <1>2 DEF PInv, SharedInv, countVars
<1>6. ~Shared' /\ ~HoldPhase
  <2>1. v = owner => ~Shared'
    BY <1>3, <1>5 DEF Shared, Inside, EndLabel
  <2>2. v # owner => ~Shared'
    BY <1>3, <1>5 DEF Shared, Stepped
  <2> QED
    BY <1>5, <2>1, <2>2 DEF HoldPhase
<1>7. ~Ends(v) /\ ~(Ends(v))'
  BY <1>2, <1>3 DEF Ends, EndLabel
<1>8. Unnoticed
  <2>1. ~Folded(v) /\ ~(Folded(v))'
    BY <1>5, <1>6 DEF Folded
  <2>2. (LabelOf(v))' = LabelOf(v)
    BY <1>2, <1>3, <1>4, <1>5, <1>6, <2>1 DEF LabelOf, Base, Inside, EndLabel
  <2> QED
    BY <1>1, <1>2, <1>3, <1>5, <1>6, <1>7, <2>1, <2>2, SteppedBars DEF Unnoticed, cpuVars,
      loopVars
<1>9. /\ SharedInv' /\ LeaderInv' /\ TokenInv' /\ ~HoldPhase'
      /\ Done' = Done \ {v}
      /\ \A u \in VCPU : u # v => ((Last(u))' <=> Last(u))
  BY <1>1, <1>2, <1>3, <1>4, <1>6, SteppedSame, AfterKeeps
<1>10. ParType'
  <2>1. resume_waiter_sem' \in Nat /\ par_num_waiters' \in Nat
    BY <1>1, <1>2 DEF PInv, ParType
  <2> QED
    BY <1>1, <1>2, <1>3, <2>1 DEF PInv, ParType, cpuVars, loopVars, Stepped
<1>11. LocalsInv' /\ RoleInv'
  <2>1. (Scoped(v))'
    BY <1>1, <1>2, <1>3 DEF PInv, LocalsInv, Scoped, ReturnsTo, Stepped
  <2>2. (RoleOf(v))'
    BY <1>1, <1>2, <1>3, <1>4 DEF PInv, RoleInv, RoleOf, Stepped, ParallelLabel, ReturnsTo
  <2> QED
    BY <1>1, <1>3, <2>1, <2>2, SteppedRoles
<1>12. ResumeInv'
  <2>1. Done' = Done
    BY <1>2, <1>9 DEF Done
  <2>2. par_num_waiters + resume_waiter_sem = Cardinality(Done)
    BY <1>1, <1>6 DEF PInv, ResumeInv
  <2>3. par_num_waiters \in Nat /\ resume_waiter_sem \in Nat
    BY <1>1 DEF PInv, ParType
  <2>4. par_num_waiters' + resume_waiter_sem' = Cardinality(Done')
    BY <1>2, <2>1, <2>2, <2>3
  <2>5. par_num_waiters' > 0 => (Last(v))'
    <3> SUFFICES ASSUME par_num_waiters' > 0 PROVE (Last(v))'
      OBVIOUS
    <3>1. pc' = pc /\ role' = role
      BY <1>2
    <3> QED
      BY <1>4, <3>1 DEF Last
  <2> QED
    BY <1>9, <2>4, <2>5 DEF ResumeInv
<1> QED
  BY <1>8, <1>9, <1>10, <1>11, <1>12 DEF PInv

(* One that slept is awake. *)
LEMMA WaiterAcquireMoves ==
  ASSUME BInv, NEW v \in VCPU, WaiterAcquire(v)
  PROVE  PInv' /\ Unnoticed
<1> USE Names
<1>1. PInv /\ v \in Thread
  BY DEF BInv
<1>2. /\ pc[v] = "resume_sem" /\ resume_waiter_sem > 0
      /\ resume_waiter_sem' = resume_waiter_sem - 1
      /\ role' = [role EXCEPT ![v] = "none"] /\ pc' = [pc EXCEPT ![v] = "emulate"]
      /\ UNCHANGED <<cpuVars, countVars, loopVars, ret, target, par_count, par_num_waiters,
                     count_sem, parallel_callers>>
  BY DEF WaiterAcquire, At, Goto
<1>3. /\ Stepped(v) /\ role' \in [Thread -> {"none", "leader", "follower"}]
      /\ pc'[v] = "emulate" /\ role'[v] = "none"
  BY <1>1, <1>2 DEF PInv, ParType, Stepped, cpuVars, loopVars
<1>4. role[v] # "none" /\ ~Last(v) /\ ~(Last(v))' /\ v \in Done
  BY <1>1, <1>2, <1>3 DEF PInv, RoleInv, RoleOf, ParallelLabel, Last, Done, EndLabel
<1>5. ~Shared /\ owner' = owner
  BY <1>1, <1>2 DEF PInv, SharedInv, countVars
<1>6. ~Shared' /\ ~HoldPhase
  <2>1. v = owner => ~Shared'
    BY <1>3, <1>5 DEF Shared, Inside, EndLabel
  <2>2. v # owner => ~Shared'
    BY <1>3, <1>5 DEF Shared, Stepped
  <2> QED
    BY <1>5, <2>1, <2>2 DEF HoldPhase
<1>7. ~Ends(v) /\ ~(Ends(v))'
  BY <1>2, <1>3 DEF Ends, EndLabel
<1>8. Unnoticed
  <2>1. ~Folded(v) /\ ~(Folded(v))'
    BY <1>5, <1>6 DEF Folded
  <2>2. (LabelOf(v))' = LabelOf(v)
    BY <1>2, <1>3, <1>4, <1>5, <1>6, <2>1 DEF LabelOf, Base, Inside, EndLabel
  <2> QED
    BY <1>1, <1>2, <1>3, <1>5, <1>6, <1>7, <2>1, <2>2, SteppedBars DEF Unnoticed, cpuVars,
      loopVars
<1>9. /\ SharedInv' /\ LeaderInv' /\ TokenInv' /\ ~HoldPhase'
      /\ Done' = Done \ {v}
      /\ \A u \in VCPU : u # v => ((Last(u))' <=> Last(u))
  BY <1>1, <1>2, <1>3, <1>4, <1>5, <1>6, SteppedSame, AfterKeeps
<1>10. ParType'
  <2>1. resume_waiter_sem' \in Nat
    BY <1>1, <1>2 DEF PInv, ParType
  <2> QED
    BY <1>1, <1>2, <1>3, <2>1 DEF PInv, ParType, cpuVars, loopVars, Stepped
<1>11. LocalsInv' /\ RoleInv'
  <2>1. (Scoped(v))'
    BY <1>1, <1>2, <1>3 DEF PInv, LocalsInv, Scoped, ReturnsTo, Stepped
  <2>2. (RoleOf(v))'
    BY <1>1, <1>2, <1>3, <1>4 DEF PInv, RoleInv, RoleOf, Stepped, ParallelLabel, ReturnsTo
  <2> QED
    BY <1>1, <1>3, <2>1, <2>2, SteppedRoles
<1>12. ResumeInv'
  <2>1. par_num_waiters + resume_waiter_sem = Cardinality(Done)
    BY <1>1, <1>6 DEF PInv, ResumeInv
  <2>2. Cardinality(Done') = Cardinality(Done) - 1
    BY <1>4, <1>9, Finite, FS_RemoveElement
  <2>3. par_num_waiters \in Nat /\ resume_waiter_sem \in Nat
    BY <1>1 DEF PInv, ParType
  <2>4. \A u \in VCPU : (Last(u))' <=> Last(u)
    BY <1>4, <1>9
  <2> QED
    BY <1>1, <1>2, <1>6, <1>9, <2>1, <2>2, <2>3, <2>4 DEF PInv, ResumeInv
<1> QED
  BY <1>8, <1>9, <1>10, <1>11, <1>12 DEF PInv

-----------------------------------------------------------------------------
(* The invariant *)

LEMMA OutsidePreserves ==
  ASSUME BInv, UNCHANGED parVars, NEW t \in Thread, Beside(t), Walks(t), R!OutsideStep(t)
  PROVE  BInv'
<1>1. PInv'
  BY BesideKeeps DEF BInv
<1>2. (R!IInv)'
  BY Names, R!StepOutside, NAssumption, ThreadAssumption DEF BInv
<1> QED
  BY <1>1, <1>2 DEF BInv

LEMMA OwnerPreserves ==
  ASSUME BInv, UNCHANGED parVars, NEW t \in Thread, Beside(t), Walks(t), owner = t, R!OwnerStep(t)
  PROVE  BInv'
<1>1. PInv'
  BY BesideKeeps DEF BInv
<1>2. (R!IInv)'
  BY Names, R!StepOwner, NAssumption, ThreadAssumption DEF BInv
<1> QED
  BY <1>1, <1>2 DEF BInv

LEMMA SerialPreserves ==
  ASSUME BInv, NEW t \in Thread, SerialStep(t) \/ SerialChoice(t)
  PROVE  BInv'
<1> USE Names
<1>1. UNCHANGED parVars
  BY DEF SerialStep, SerialChoice
<1>2. CASE NotifyStep(t)
  <2>1. Beside(t) /\ Walks(t) /\ R!NotifyStep(t)
    BY <1>1, <1>2, NotifyMoves
  <2>2. CASE R!Critical(t)
    <3>1. owner = t
      BY <2>2 DEF BInv, R!IInv, R!OneRoundup
    <3> QED
      BY <1>1, <2>1, <2>2, <3>1, OwnerPreserves DEF R!OwnerStep
  <2>3. CASE ~R!Critical(t)
    BY <1>1, <2>1, <2>3, OutsidePreserves DEF R!OutsideStep
  <2> QED
    BY <2>2, <2>3
<1>3. CASE Lock(t)
  <2>1. Beside(t) /\ Walks(t) /\ R!Lock(t)
    BY <1>1, <1>3, LockMoves
  <2>2. PInv'
    BY <1>1, <2>1, BesideKeeps DEF BInv
  <2>3. (R!IInv)'
    BY <2>1, R!StepLock, NAssumption, ThreadAssumption DEF BInv
  <2> QED
    BY <2>2, <2>3 DEF BInv
<1>4. CASE ResumeStep(t) /\ Ends(t)
  <2>1. /\ EndsStep(t) /\ (Scoped(t))' /\ owner \in Thread
        /\ R!ResumeStep(owner) \/ \E v \in VCPU : R!ResumeInside(v)
    BY <1>1, <1>4, EnderMoves
  <2>2. PInv'
    BY <1>1, <2>1, EnderKeeps DEF BInv
  <2>3. (R!IInv)'
    <3>1. CASE R!ResumeStep(owner)
      BY <2>1, <3>1, R!StepOwner, NAssumption, ThreadAssumption DEF BInv, R!OwnerStep
    <3>2. CASE \E v \in VCPU : R!ResumeInside(v)
      BY <3>2, R!ResumeInsideStep, NAssumption, ThreadAssumption DEF BInv
    <3> QED
      BY <2>1, <3>1, <3>2
  <2> QED
    BY <2>2, <2>3 DEF BInv
<1>5. CASE /\ ~Lock(t) /\ ~(ResumeStep(t) /\ Ends(t))
           /\ \/ RoundupStep(t) \/ ResumeStep(t)
              \/ role[t] = "none" /\ (Resume(t) \/ SignalNextWaiter(t))
  <2>1. ~Ends(t)
    BY <1>5
    DEF Ends, EndLabel, RoundupStep, RoundupCas, RoundupRecall, RoundupUnblock, RoundupAllDone,
        RoundupTest, RoundupWait, At
  <2> QED
    BY <1>1, <1>5, <2>1, OwnerMoves, OwnerPreserves
<1>6. CASE t \in VCPU /\ (VcpuStep(t) \/ VcpuChoice(t))
  BY <1>1, <1>6, VcpuMoves, OutsidePreserves
<1>7. CASE t \in Dev /\ (DevStep(t) \/ DevChoice(t))
  BY <1>1, <1>7, DevMoves, OutsidePreserves
<1>8. CASE CallRoundup(t)
  BY <1>1, <1>8, CallMoves, OutsidePreserves
<1> QED
  BY <1>2, <1>3, <1>4, <1>5, <1>6, <1>7, <1>8 DEF SerialStep, SerialChoice

LEMMA ParallelPreserves ==
  ASSUME BInv, NEW v \in VCPU, ParallelStep(v) \/ CallRoundupParallel(v)
  PROVE  BInv'
<1> USE Names
<1>1. ASSUME Unnoticed PROVE (R!IInv)'
  BY <1>1, UnnoticedStutters, R!Stutter, NAssumption, ThreadAssumption DEF BInv
<1>2. CASE CallRoundupParallel(v)
  <2>1. PInv' /\ R!OutsideStep(v)
    BY <1>2, CallParallelMoves DEF R!OutsideStep
  <2> QED
    BY <2>1, R!StepOutside, NAssumption, ThreadAssumption DEF BInv
<1>3. CASE FollowerYield(v)
  <2>1. PInv' /\ R!OutsideStep(v)
    BY <1>3, FollowerYieldMoves DEF R!OutsideStep, R!VcpuStep
  <2> QED
    BY <2>1, R!StepOutside, NAssumption, ThreadAssumption DEF BInv
<1>4. CASE FollowerAcquire(v)
  BY <1>1, <1>4, FollowerAcquireMoves DEF BInv
<1>5. CASE FollowerUnyield(v)
  BY <1>5, FollowerUnyieldMoves, R!LeaveQueueStep, NAssumption, ThreadAssumption DEF BInv
<1>6. CASE LeaderCount(v)
  BY <1>1, <1>6, LeaderCountMoves DEF BInv
<1>7. CASE LeaderRelease(v)
  BY <1>1, <1>7, LeaderReleaseMoves DEF BInv
<1>8. CASE CallResumeParallel(v)
  BY <1>1, <1>8, CallResumeParallelMoves DEF BInv
<1>9. CASE LastUnyield(v)
  BY <1>9, LastUnyieldMoves, R!StepOwner, NAssumption, ThreadAssumption DEF BInv, R!OwnerStep
<1>10. CASE LastSignalNextWaiter(v)
  BY <1>10, LastSignalNextWaiterMoves, R!StepOwner, NAssumption, ThreadAssumption DEF BInv,
    R!OwnerStep
<1>11. CASE LastRelease(v)
  BY <1>1, <1>11, LastReleaseMoves DEF BInv
<1>12. CASE WaiterAcquire(v)
  BY <1>1, <1>12, WaiterAcquireMoves DEF BInv
<1> QED
  BY <1>2, <1>3, <1>4, <1>5, <1>6, <1>7, <1>8, <1>9, <1>10, <1>11, <1>12 DEF ParallelStep

LEMMA IdlePreserves ==
  ASSUME BInv, UNCHANGED allVars
  PROVE  BInv'
<1> USE Names DEF allVars, vars, parVars, cpuVars, countVars, loopVars
<1>1. PInv'
  <2>1. \A u \in VCPU : Same(u)
    BY DEF Same, Last, Member, Forming, Sleeps, ReturnsTo
  <2>2. Shared' <=> Shared
    BY DEF Shared
  <2>3. SharedInv' /\ LeaderInv' /\ TokenInv' /\ ResumeInv'
    BY <2>1, <2>2, SameKeeps DEF BInv
  <2>4. ParType' /\ LocalsInv' /\ RoleInv'
    BY DEF BInv, PInv, ParType, LocalsInv, Scoped, RoleInv, RoleOf, Forming, ReturnsTo
  <2> QED
    BY <2>3, <2>4 DEF PInv
<1>2. UNCHANGED R!vars
  BY DEF R!vars, R!cpuVars, R!countVars, R!loopVars, pcBar, stateBar, retBar, iBar, numBar,
         LabelOf, Handed, Folded, Shared, Ending, Ender, Ends
<1>3. (R!IInv)'
  BY <1>2, R!Stutter, NAssumption, ThreadAssumption DEF BInv
<1> QED
  BY <1>1, <1>3 DEF BInv

LEMMA InitBInv ==
  ASSUME ParallelInit
  PROVE  BInv
<1> USE Names
<1>1. /\ \A t \in Thread : /\ pc[t] \in {"off", "idle"} /\ ret[t] = "none" /\ i[t] = 0
                           /\ num_waiters[t] = 0 /\ role[t] = "none"
      /\ owner \notin Thread
      /\ par_count = 0 /\ par_num_waiters = 0 /\ count_sem = 0 /\ resume_waiter_sem = 0
  BY ThreadAssumption DEF ParallelInit, Init, Thread
<1>2. ~Shared /\ ~HoldPhase /\ \A v \in VCPU : ~Last(v) /\ ~Member(v) /\ ~Forming(v)
  BY <1>1 DEF Shared, HoldPhase, Last, Member, Forming
<1>3. Members = {} /\ Done = {}
  BY <1>1, <1>2 DEF Members, Done
<1>4. ParType /\ LocalsInv
  BY <1>1 DEF ParallelInit, Init, ParType, LocalsInv, Scoped
<1>5. RoleInv
  BY <1>1 DEF RoleInv, RoleOf, ParallelLabel, ReturnsTo
<1>6. SharedInv
  BY <1>1, <1>2 DEF SharedInv
<1>7. LeaderInv /\ TokenInv /\ ResumeInv
  BY <1>1, <1>2, <1>3, FS_EmptySet DEF LeaderInv, TokenInv, ResumeInv
<1>8. R!Init
  <2>1. \A t \in Thread : ~Ends(t) /\ ~Folded(t)
    BY <1>1 DEF Ends, Folded
  <2>2. ~Ending
    BY <2>1 DEF Ending
  <2>3. \A t \in Thread : /\ LabelOf(t) = pc[t] /\ Handed(t, i) = i[t]
                          /\ Handed(t, num_waiters) = num_waiters[t]
                          /\ Base(ret[t]) = ret[t]
    BY <1>1, <1>2, <2>1, <2>2 DEF LabelOf, Handed, Base
  <2>4. /\ pcBar = pc /\ iBar = i /\ numBar = num_waiters /\ retBar = ret /\ stateBar = state
    BY <2>1, <2>3 DEF pcBar, iBar, numBar, retBar, stateBar, ParallelInit, Init
  <2> QED
    BY <2>4 DEF R!Init, ParallelInit, Init
<1> QED
  BY <1>4, <1>5, <1>6, <1>7, <1>8, R!InitIInv, NAssumption, ThreadAssumption DEF BInv, PInv

(* The VCPUs that share a roundup are, to Roundup, one thread that holds it. *)
THEOREM ParallelInvariance == ParallelSpec => []BInv
<1>1. ParallelInit => BInv
  BY InitBInv
<1>2. BInv /\ [ParallelNext]_allVars => BInv'
  <2> SUFFICES ASSUME BInv, [ParallelNext]_allVars PROVE BInv'
    OBVIOUS
  <2>1. CASE \E t \in Thread : SerialStep(t) \/ SerialChoice(t)
    BY <2>1, SerialPreserves
  <2>2. CASE \E v \in VCPU : ParallelStep(v) \/ CallRoundupParallel(v)
    BY <2>2, ParallelPreserves
  <2>3. CASE UNCHANGED allVars
    BY <2>3, IdlePreserves
  <2> QED
    BY <2>1, <2>2, <2>3 DEF ParallelNext
<1> QED
  BY <1>1, <1>2, PTL DEF ParallelSpec

(* From the return of roundup_parallel in any VCPU until the last of them
   resumes, and while anyone else holds a roundup, no VCPU makes progress. *)
THEOREM ParallelNoProgress == ParallelSpec => []ParallelStopsGuest
<1>1. BInv => ParallelStopsGuest
  <2> SUFFICES ASSUME BInv, NEW v \in VCPU, NEW u \in VCPU, ParallelHold(v) \/ Holding(v)
               PROVE  ~Progressing(u)
    BY DEF ParallelStopsGuest
  <2> USE Names
  <2>1. PInv
    BY DEF BInv
  <2>2. \E t \in Thread : pcBar[t] \in {"held", "er_read", "er_store"}
    <3>1. CASE pc[v] \in {"par_post", "par_held"}
      <4>1. HoldPhase
        BY <2>1, <3>1 DEF PInv, SharedInv
      <4> QED
        BY <2>1, <4>1, HoldPhaseFacts
    <3>2. CASE pc[v] = "par_end"
      <4>1. Last(v) /\ Shared /\ owner \in Thread
        BY <2>1, <3>2 DEF PInv, SharedInv, RoleInv, RoleOf, ParallelLabel, Last, Shared
      <4>2. ~Ending
        BY <2>1, <3>2, <4>1, EnderFacts DEF PInv, SharedInv, Ends, Last, EndLabel
      <4> QED
        BY <4>1, <4>2 DEF pcBar, LabelOf
    <3>3. CASE Holding(v) /\ Ends(v)
      <4>1. Ending /\ Ender = v /\ Shared /\ owner \in Thread
        BY <2>1, <3>3, EnderFacts DEF Shared
      <4> QED
        BY <3>3, <4>1 DEF pcBar, LabelOf, Holding
    <3>4. CASE Holding(v) /\ ~Ends(v)
      <4>1. LabelOf(v) = Base(pc[v])
        BY <2>1, <3>4, AloneLabel DEF Alone, Holding
      <4> QED
        BY <3>4, <4>1 DEF pcBar, Base, Holding
    <3> QED
      BY <3>1, <3>2, <3>3, <3>4 DEF ParallelHold
  <2>3. R!Quiet(u)
    BY <2>2, HeldQuiet
  <2>4. Progressing(u) => pcBar[u] = pc[u]
    <3> SUFFICES ASSUME Progressing(u) PROVE pcBar[u] = pc[u]
      OBVIOUS
    <3>1. Alone(u) /\ Base(pc[u]) = pc[u]
      BY DEF Progressing, EmulatingLabel, Alone, Ends, EndLabel, Base
    <3> QED
      BY <2>1, <3>1, AloneLabel DEF pcBar
  <2> QED
    BY <2>3, <2>4 DEF R!Quiet, R!Progressing, R!EmulatingLabel, Progressing, EmulatingLabel
<1> QED
  BY <1>1, ParallelInvariance, PTL

(* "This is stable now": the count that the leader reads once its roundup has
   returned is the number of VCPUs that sleep on count_sem. *)
THEOREM CountStable == ParallelSpec => []CountIsStable
<1>1. BInv => CountIsStable
  <2> SUFFICES ASSUME BInv, NEW v \in VCPU, pc[v] = "held", role[v] = "leader"
               PROVE  /\ par_count - 1 = Cardinality({u \in VCPU : role[u] = "follower"})
                      /\ \A u \in VCPU : role[u] = "follower" =>
                           At(u, "count_sem") \/ At(u, "notify_sig")
    BY DEF CountIsStable, At
  <2>1. \A u \in VCPU : u # v /\ role[u] # "none" =>
          /\ role[u] = "follower"
          /\ pc[u] = "count_sem" \/ (pc[u] = "notify_sig" /\ ret[u] = "count_sem")
    BY LeaderAlone
  <2>2. {u \in VCPU : role[u] = "follower"} = Members \ {v} /\ v \in Members
    BY <2>1 DEF Members, Member, EndLabel
  <2>3. Cardinality(Members \ {v}) = Cardinality(Members) - 1
    BY <2>2, Finite, FS_RemoveElement
  <2>4. par_count = Cardinality(Members)
    BY DEF BInv, PInv, LeaderInv
  <2> QED
    BY <2>1, <2>2, <2>3, <2>4 DEF At
<1> QED
  BY <1>1, ParallelInvariance, PTL

(* A round gives each follower one token of each semaphore and leaves none to
   the followers of the next. *)
THEOREM TokensSpent == ParallelSpec => []NoTokenLeft
<1>1. BInv => NoTokenLeft
  <2> SUFFICES ASSUME BInv, \A v \in VCPU : role[v] = "none"
               PROVE  count_sem = 0 /\ resume_waiter_sem = 0 /\ par_num_waiters = 0 /\ par_count = 0
    BY DEF NoTokenLeft
  <2>1. PInv
    BY DEF BInv
  <2>2. ~HoldPhase
    BY <2>1 DEF HoldPhase, Shared, PInv, RoleInv, RoleOf
  <2>3. Members = {} /\ Done = {}
    BY <2>1, Names DEF Members, Member, Done, PInv, RoleInv, RoleOf, ParallelLabel
  <2>4. par_count = 0 /\ count_sem = 0 /\ par_num_waiters + resume_waiter_sem = 0
    BY <2>1, <2>2, <2>3, FS_EmptySet DEF PInv, LeaderInv, TokenInv, ResumeInv
  <2> QED
    BY <2>1, <2>4 DEF PInv, ParType
<1> QED
  BY <1>1, ParallelInvariance, PTL

==============================================================================
