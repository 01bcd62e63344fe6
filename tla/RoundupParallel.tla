--------------------------- MODULE RoundupParallel ---------------------------
(***************************************************************************)
(* roundup_parallel and resume_parallel: several VCPUs that round the VM   *)
(* up at the same time share one roundup.  The first to call (the leader)  *)
(* runs roundup_from_vcpu for all of them; the others (followers) yield    *)
(* and wait on count_sem; the last to resume ends the roundup, which need  *)
(* not be the one that began it.  The module adds the parallel calls to    *)
(* Roundup, whose callers keep competing for the mutex.                    *)
(***************************************************************************)
EXTENDS Roundup

VARIABLES
  par_count,          \* ParallelRoundupInfo::count
  par_num_waiters,    \* ParallelRoundupInfo::num_waiters
  count_sem,          \* semaphore: count_sem
  resume_waiter_sem,  \* semaphore: resume_waiter_sem
  role,               \* which branch of roundup_parallel the thread is in
  parallel_callers    \* local of roundup_parallel

parVars == <<par_count, par_num_waiters, count_sem, resume_waiter_sem, role,
             parallel_callers>>
allVars == <<vars, parVars>>

ParallelLabel == {"par_yield", "count_sem", "par_unyield", "par_post",
                  "par_held", "par_end", "resume_post", "resume_sem"}

ParallelInit ==
  /\ Init
  /\ par_count = 0
  /\ par_num_waiters = 0
  /\ count_sem = 0
  /\ resume_waiter_sem = 0
  /\ role = [t \in Thread |-> "none"]
  /\ parallel_callers = [t \in Thread |-> 0]

-----------------------------------------------------------------------------
(* roundup_parallel *)

(* count.fetch_add(1): the caller that finds 0 leads. *)
CallRoundupParallel(v) ==
  /\ "parallel" \in VcpuOps
  /\ At(v, "emulate")
  /\ par_count' = par_count + 1
  /\ role' = [role EXCEPT ![v] = IF par_count = 0 THEN "leader" ELSE "follower"]
  /\ Goto(v, IF par_count = 0 THEN "yield" ELSE "par_yield")
  /\ UNCHANGED <<cpuVars, countVars, loopVars, ret, target,
                 par_num_waiters, count_sem, resume_waiter_sem, parallel_callers>>

FollowerYield(v) ==
  /\ At(v, "par_yield")
  /\ vcpu_waiters' = vcpu_waiters + 1
  /\ CallNotify(v, "count_sem")
  /\ UNCHANGED <<cpuVars, loopVars, vcpus_progressing, owner, sig_emulating, target,
                 parVars>>

(* Mutant: the semaphore keeps the token it gave. *)
MutKeepToken(v) ==
  /\ At(v, "count_sem")
  /\ count_sem > 0
  /\ Goto(v, "par_unyield")
  /\ UNCHANGED <<cpuVars, countVars, loopVars, ret, target, parVars>>

FollowerAcquire(v) ==
  /\ At(v, "count_sem")
  /\ count_sem > 0
  /\ count_sem' = count_sem - 1
  /\ Goto(v, "par_unyield")
  /\ UNCHANGED <<cpuVars, countVars, loopVars, ret, target, par_count,
                 par_num_waiters, resume_waiter_sem, role, parallel_callers>>

FollowerUnyield(v) ==
  /\ At(v, "par_unyield")
  /\ Unyield(v, "par_held")
  /\ UNCHANGED parVars

(* roundup_from_vcpu returned to the leader: the number of followers is read
   from count and published in num_waiters, which no other thread reads
   before the leader has released it. *)
LeaderCount(v) ==
  /\ At(v, "held")
  /\ role[v] = "leader"
  /\ parallel_callers' = [parallel_callers EXCEPT ![v] = par_count - 1]
  /\ par_num_waiters' = par_count - 1
  /\ Goto(v, "par_post")
  /\ UNCHANGED <<cpuVars, countVars, loopVars, ret, target,
                 par_count, count_sem, resume_waiter_sem, role>>

LeaderRelease(v) ==
  /\ At(v, "par_post")
  /\ IF parallel_callers[v] > 0
     THEN /\ count_sem' = count_sem + 1
          /\ parallel_callers' = [parallel_callers EXCEPT ![v] = @ - 1]
          /\ UNCHANGED pc
     ELSE /\ Goto(v, "par_held")
          /\ UNCHANGED <<count_sem, parallel_callers>>
  /\ UNCHANGED <<cpuVars, countVars, loopVars, ret, target, par_count,
                 par_num_waiters, resume_waiter_sem, role>>

-----------------------------------------------------------------------------
(* resume_parallel *)

(* Mutant: the leader ends the roundup it began, whoever still holds it. *)
MutLeaderEnds(v) ==
  /\ At(v, "par_held")
  /\ par_count # 0
  /\ par_count' = par_count - 1
  /\ Goto(v, IF role[v] = "leader" THEN "par_end" ELSE "resume_sem")
  /\ UNCHANGED <<cpuVars, countVars, loopVars, ret, target, par_num_waiters,
                 count_sem, resume_waiter_sem, role, parallel_callers>>

(* count.sub_fetch(1): the caller that leaves 0 ends the roundup. *)
CallResumeParallel(v) ==
  /\ At(v, "par_held")
  /\ par_count # 0
  /\ par_count' = par_count - 1
  /\ Goto(v, IF par_count = 1 THEN "par_end" ELSE "resume_sem")
  /\ UNCHANGED <<cpuVars, countVars, loopVars, ret, target, par_num_waiters,
                 count_sem, resume_waiter_sem, role, parallel_callers>>

(* resume_from_vcpu of the last caller, up to the shared steps of Roundup. *)
LastUnyield(v) ==
  /\ At(v, "par_end")
  /\ Unyield(v, "er_read")
  /\ UNCHANGED parVars

LastSignalNextWaiter(v) ==
  /\ role[v] # "none"
  /\ Unlock(v, "resume_post")
  /\ UNCHANGED parVars

LastRelease(v) ==
  /\ At(v, "resume_post")
  /\ IF par_num_waiters > 0
     THEN /\ resume_waiter_sem' = resume_waiter_sem + 1
          /\ par_num_waiters' = par_num_waiters - 1
          /\ UNCHANGED <<pc, role>>
     ELSE /\ Goto(v, "emulate")
          /\ role' = [role EXCEPT ![v] = "none"]
          /\ UNCHANGED <<resume_waiter_sem, par_num_waiters>>
  /\ UNCHANGED <<cpuVars, countVars, loopVars, ret, target,
                 par_count, count_sem, parallel_callers>>

WaiterAcquire(v) ==
  /\ At(v, "resume_sem")
  /\ resume_waiter_sem > 0
  /\ resume_waiter_sem' = resume_waiter_sem - 1
  /\ role' = [role EXCEPT ![v] = "none"]
  /\ Goto(v, "emulate")
  /\ UNCHANGED <<cpuVars, countVars, loopVars, ret, target,
                 par_count, par_num_waiters, count_sem, parallel_callers>>

-----------------------------------------------------------------------------
(* Specification *)

(* The steps of Roundup; the two that continue in its own callers are taken
   by threads that are not in a parallel roundup. *)
SerialStep(t) ==
  /\ \/ NotifyStep(t) \/ RoundupStep(t) \/ ResumeStep(t)
     \/ role[t] = "none" /\ (Resume(t) \/ SignalNextWaiter(t))
     \/ t \in VCPU /\ VcpuStep(t)
     \/ t \in Dev /\ DevStep(t)
  /\ UNCHANGED parVars

SerialChoice(t) ==
  /\ \/ CallRoundup(t)
     \/ t \in VCPU /\ VcpuChoice(t)
     \/ t \in Dev /\ DevChoice(t)
  /\ UNCHANGED parVars

ParallelStep(v) ==
  \/ FollowerYield(v) \/ FollowerAcquire(v) \/ FollowerUnyield(v)
  \/ LeaderCount(v) \/ LeaderRelease(v)
  \/ CallResumeParallel(v) \/ LastUnyield(v) \/ LastSignalNextWaiter(v)
  \/ LastRelease(v) \/ WaiterAcquire(v)

ParallelNext ==
  \/ \E t \in Thread : SerialStep(t) \/ SerialChoice(t)
  \/ \E v \in VCPU : ParallelStep(v) \/ CallRoundupParallel(v)

ParallelSpec == ParallelInit /\ [][ParallelNext]_allVars

-----------------------------------------------------------------------------
(* Properties *)

(* From the return of roundup_parallel in any of the VCPUs that called it
   until the last of them resumes, no VCPU makes progress. *)
ParallelHold(v) == pc[v] \in {"par_post", "par_held", "par_end"}
ParallelStopsGuest ==
  \A v, u \in VCPU : ParallelHold(v) \/ Holding(v) => ~Progressing(u)

(* "This is stable now": when the leader reads count, every VCPU that is in
   roundup_parallel has been counted and sleeps on count_sem, and none joins
   until the roundup has been resumed. *)
CountIsStable ==
  \A v \in VCPU : At(v, "held") /\ role[v] = "leader" =>
    /\ par_count - 1 = Cardinality({u \in VCPU : role[u] = "follower"})
    /\ \A u \in VCPU : role[u] = "follower" =>
         At(u, "count_sem") \/ At(u, "notify_sig")

(* Each follower gets exactly one token of each semaphore: none is left for
   the followers of the next round to run through. *)
NoTokenLeft ==
  (\A v \in VCPU : role[v] = "none") =>
    count_sem = 0 /\ resume_waiter_sem = 0 /\ par_num_waiters = 0 /\ par_count = 0

=============================================================================
