---------------------------- MODULE CpuControl ----------------------------
(***************************************************************************)
(* How VCPUs are turned on, turned off and reconfigured while they run:    *)
(* the PSCI calls CPU_ON and CPU_OFF of the guest, the requests of the VMM *)
(* and of VM introspection (VMI) for a feature of a VCPU (CpuFeature), and *)
(* the exit handler of each VCPU, which alone applies them.                *)
(*                                                                         *)
(* Nothing here holds a lock but _reset_mutex, around the boot parameters. *)
(* Each access to an atomic variable is a step of its own: start_cpu tests *)
(* the target before it writes, reset_cpu makes four writes, and a request *)
(* is a value and then a dirty bit, which the VCPU clears and then reads.  *)
(*                                                                         *)
(* The exit handler is outside this repository; it follows the contract of *)
(* its callees: it parks a paused VCPU first (the comment at               *)
(* ctrl_feature_off), then resets it, then takes over its configuration    *)
(* with check_clean_read, then serves the exit.                            *)
(***************************************************************************)
EXTENDS Naturals, FiniteSetsExt

CONSTANTS
  N,            \* number of VCPUs
  Started,      \* those that are running at first
  Registers,    \* the register selections a client may ask for
  Ranges,       \* the sets of VCPUs a client may ask
  MaxCalls      \* bound on the CPU_ON calls and the requests, together

ASSUME BoundsAssumption ==
  /\ N \in Nat \ {0} /\ Started \subseteq 0 .. N - 1 /\ MaxCalls \in Nat
  /\ Ranges \subseteq (SUBSET (0 .. N - 1)) \ {{}}

VCPU == 0 .. N - 1
Requestor == {"VMM", "VMI"}

(* What a requestor asks of a CpuFeature: the set bits of the word it
   stores, ENABLE_MASK among them unless it is zero. *)
Selection == {{}} \union {{"ENABLE"} \union s : s \in Registers}

VARIABLES
  paused,       \* _execution_paused: the requestors of each VCPU's pause
  parameters,   \* the boot parameters, as the number of the call they are from
  reset,        \* _reset: requested by the VMM, and dirty
  feature,      \* a CpuFeature of each VCPU: its requests, and dirty
  signaled,     \* _off_sm
  recalled,     \* a recall the VCPU has not answered
  pc, fresh,    \* where the VCPU is; its exit may be a call, not answered yet
  target,       \* the VCPU it is turning on; itself otherwise
  seen,         \* the part of the configuration it has read
  booted,       \* the parameters its guest started from; 0 once turned off
  config,       \* the configuration its guest runs with
  client,       \* a thread of each requestor: where it is, what it asks, of whom
  calls,        \* the CPU_ON calls and requests so far
  overlapped    \* ghost: CPU_ON calls for this VCPU went on at the same time

controls == <<paused, parameters, reset, feature, signaled, recalled>>
portal == <<pc, fresh, target, seen, booted, config>>
vars == <<controls, portal, client, calls, overlapped>>

(* A client that asks nothing. *)
Idle == [pc |-> "idle", op |-> "feature", value |-> {}, todo |-> {}]

(* The VCPUs in Started have been booted; the others wait for CPU_ON. *)
Init ==
  /\ paused = [v \in VCPU |-> IF v \in Started THEN {} ELSE {"VMM"}]
  /\ parameters = [v \in VCPU |-> IF v \in Started THEN 1 ELSE 0]
  /\ booted = parameters
  /\ reset = [v \in VCPU |-> [requested |-> v \in Started, dirty |-> FALSE]]
  /\ feature = [v \in VCPU |-> [requests |-> [r \in Requestor |-> {}], dirty |-> FALSE]]
  /\ signaled = [v \in VCPU |-> FALSE]
  /\ recalled = [v \in VCPU |-> FALSE]
  /\ pc = [v \in VCPU |-> IF v \in Started THEN "guest" ELSE "parked"]
  /\ fresh = [v \in VCPU |-> FALSE]
  /\ target = [v \in VCPU |-> v]
  /\ seen = [v \in VCPU |-> {}]
  /\ config = [v \in VCPU |-> {}]
  /\ client = [r \in Requestor |-> Idle]
  /\ calls = 1
  /\ overlapped = [v \in VCPU |-> FALSE]

Goto(v, from, to) == pc[v] = from /\ pc' = [pc EXCEPT ![v] = to]

(* CpuFeature::read: the bits of either requestor, none unless enabled. *)
Enabled(bits) == IF "ENABLE" \in bits THEN bits ELSE {}

Requested(v) == Enabled(UNION {feature[v].requests[r] : r \in Requestor})

-----------------------------------------------------------------------------
(* The exit handler of a VCPU *)

(* After a recall the guest leaves before it executes anything. *)
Exit(v) ==
  /\ Goto(v, "guest", "begin")
  /\ fresh' = [fresh EXCEPT ![v] = ~recalled[v]]
  /\ recalled' = [recalled EXCEPT ![v] = FALSE]
  /\ UNCHANGED <<paused, parameters, reset, feature, signaled, target,
                   seen, booted, config, client, calls, overlapped>>

(* wait_if_exec_paused tests again each time the VCPU is woken. *)
Begin(v) ==
  /\ Goto(v, "begin", IF paused[v] = {} THEN "reset" ELSE "parked")
  /\ UNCHANGED <<controls, fresh, target, seen, booted, config, client,
                   calls, overlapped>>

SwitchedOn(v) ==
  /\ Goto(v, "parked", "begin")
  /\ signaled[v]
  /\ signaled' = [signaled EXCEPT ![v] = FALSE]
  /\ UNCHANGED <<paused, parameters, reset, feature, recalled, fresh,
                   target, seen, booted, config, client, calls,
                   overlapped>>

(* _reset.check_clean_read; a VCPU that is reset forgets the call it made. *)
Reset(v) ==
  /\ Goto(v, "reset", "check")
  /\ reset' = [reset EXCEPT ![v].dirty = FALSE]
  /\ IF reset[v].dirty /\ reset[v].requested
       THEN booted' = [booted EXCEPT ![v] = parameters[v]] /\ fresh' = [fresh EXCEPT ![v] = FALSE]
       ELSE UNCHANGED <<booted, fresh>>
  /\ UNCHANGED <<paused, parameters, feature, signaled, recalled, target,
                   seen, config, client, calls, overlapped>>

(* check_clean stores FALSE only where it loaded TRUE, and nobody else
   clears the bit between the two. *)
Check(v) ==
  /\ Goto(v, "check", IF feature[v].dirty THEN "read" ELSE "serve")
  /\ feature' = [feature EXCEPT ![v].dirty = FALSE]
  /\ UNCHANGED <<paused, parameters, reset, signaled, recalled, fresh,
                   target, seen, booted, config, client, calls,
                   overlapped>>

(* read loads the word of the VMM, then that of the VMI. *)
ReadFirst(v) ==
  /\ Goto(v, "read", "read_vmi")
  /\ seen' = [seen EXCEPT ![v] = feature[v].requests["VMM"]]
  /\ UNCHANGED <<controls, fresh, target, booted, config, client, calls,
                   overlapped>>

MutReadSecond(v) ==
  /\ Goto(v, "read_vmi", "serve")
  /\ config' = [config EXCEPT ![v] = Enabled(seen[v] \union feature[v].requests["VMI"])]
  /\ seen' = [seen EXCEPT ![v] = {}]
  /\ feature' = [feature EXCEPT ![v].dirty = FALSE]
  /\ UNCHANGED <<paused, parameters, reset, signaled, recalled, fresh,
                   target, booted, client, calls, overlapped>>

ReadSecond(v) ==
  /\ Goto(v, "read_vmi", "serve")
  /\ config' = [config EXCEPT ![v] = Enabled(seen[v] \union feature[v].requests["VMI"])]
  /\ seen' = [seen EXCEPT ![v] = {}]
  /\ UNCHANGED <<controls, fresh, target, booted, client, calls,
                   overlapped>>

(* CPU_ON goes on if a VCPU is configured at the affinity it names. *)
start_cpu(v) ==
  /\ Goto(v, "serve", "on_test")
  /\ \E u \in VCPU : target' = [target EXCEPT ![v] = u]

(* smc_call_service.  The exits and the calls that are not CPU_ON or CPU_OFF
   change nothing here: the handler goes on to Enter. *)
Serve(v) ==
  /\ fresh[v]
  /\ start_cpu(v) \/ (Goto(v, "serve", "off_pause") /\ UNCHANGED target)
  /\ fresh' = [fresh EXCEPT ![v] = FALSE]
  /\ UNCHANGED <<controls, seen, booted, config, client, calls, overlapped>>

(* A recall that came before the entry keeps the guest from executing. *)
Enter(v) ==
  /\ pc[v] = "serve" /\ pc' = [pc EXCEPT ![v] = IF recalled[v] THEN "begin" ELSE "guest"]
  /\ recalled' = [recalled EXCEPT ![v] = FALSE]
  /\ fresh' = [fresh EXCEPT ![v] = FALSE]
  /\ target' = [target EXCEPT ![v] = v]
  /\ UNCHANGED <<paused, parameters, reset, feature, signaled, seen, booted,
                 config, client, calls, overlapped>>

-----------------------------------------------------------------------------
(* CPU_ON: Model::Cpu::start_cpu and reset_cpu *)

(* The VCPUs in reset_cpu for target u, before their last write to it. *)
Resetting(u) ==
  {v \in VCPU : pc[v] \in {"on_parameters", "on_reset", "on_dirty", "on_unpause"} /\ target[v] = u}

(* ALREADY_ON, or INVALID_ADDRESS where there is no memory to boot from. *)
OnRefused(v) ==
  /\ Goto(v, "on_test", "serve")
  /\ UNCHANGED <<controls, fresh, target, seen, booted, config, client,
                   calls, overlapped>>

OnTest(v) ==
  LET u == target[v] IN
  /\ Goto(v, "on_test", "on_parameters")
  /\ "VMM" \in paused[u]
  /\ calls < MaxCalls /\ calls' = calls + 1
  /\ overlapped' = [overlapped EXCEPT ![u] = Resetting(u) # {}]
  /\ UNCHANGED <<controls, fresh, target, seen, booted, config, client>>

OnParameters(v) ==
  /\ Goto(v, "on_parameters", "on_reset")
  /\ parameters' = [parameters EXCEPT ![target[v]] = calls]
  /\ UNCHANGED <<paused, reset, feature, signaled, recalled, fresh,
                   target, seen, booted, config, client, calls,
                   overlapped>>

MutOnReset(v) ==
  /\ Goto(v, "on_reset", IF reset[target[v]].requested THEN "on_unpause" ELSE "on_dirty")
  /\ reset' = [reset EXCEPT ![target[v]].requested = TRUE]
  /\ UNCHANGED <<paused, parameters, feature, signaled, recalled, fresh,
                   target, seen, booted, config, client, calls,
                   overlapped>>

(* CpuFlag::request sets the bit of the requestor, then DIRTY, even if the
   bit was set before. *)
OnReset(v) ==
  /\ Goto(v, "on_reset", "on_dirty")
  /\ reset' = [reset EXCEPT ![target[v]].requested = TRUE]
  /\ UNCHANGED <<paused, parameters, feature, signaled, recalled, fresh,
                   target, seen, booted, config, client, calls,
                   overlapped>>

OnDirty(v) ==
  /\ Goto(v, "on_dirty", "on_unpause")
  /\ reset' = [reset EXCEPT ![target[v]].dirty = TRUE]
  /\ UNCHANGED <<paused, parameters, feature, signaled, recalled, fresh,
                   target, seen, booted, config, client, calls,
                   overlapped>>

(* The request of a pause sets DIRTY too, which nobody reads. *)
OnUnpause(v) ==
  /\ Goto(v, "on_unpause", "on_switch")
  /\ paused' = [paused EXCEPT ![target[v]] = @ \ {"VMM"}]
  /\ UNCHANGED <<parameters, reset, feature, signaled, recalled, fresh,
                   target, seen, booted, config, client, calls,
                   overlapped>>

OnSwitch(v) ==
  /\ Goto(v, "on_switch", "serve")
  /\ signaled' = [signaled EXCEPT ![target[v]] = TRUE]
  /\ UNCHANGED <<paused, parameters, reset, feature, recalled, fresh,
                   target, seen, booted, config, client, calls,
                   overlapped>>

-----------------------------------------------------------------------------
(* CPU_OFF: the VCPU pauses itself.  What it ran is over from here on. *)

OffPause(v) ==
  /\ Goto(v, "off_pause", "off_recall")
  /\ paused' = [paused EXCEPT ![v] = @ \union {"VMM"}]
  /\ booted' = [booted EXCEPT ![v] = 0]
  /\ UNCHANGED <<parameters, reset, feature, signaled, recalled, fresh,
                   target, seen, config, client, calls, overlapped>>

OffRecall(v) ==
  /\ Goto(v, "off_recall", "serve")
  /\ recalled' = [recalled EXCEPT ![v] = TRUE]
  /\ UNCHANGED <<paused, parameters, reset, feature, signaled, fresh,
                   target, seen, booted, config, client, calls,
                   overlapped>>

-----------------------------------------------------------------------------
(* The threads of the requestors.  The VMM and the VMI change a feature;
   the VMI also pauses VCPUs and lets them go on. *)

Ops(r) == {"feature"} \union (IF r = "VMI" THEN {"pause", "unpause"} ELSE {})

(* One request for each VCPU of a range: one VCPU (ctrl_feature_on_vcpu), all
   but one (ctrl_feature_on_all_but_vcpu), or all (ctrl_feature_on_all_vcpus). *)
Call(r) ==
  /\ client[r].pc = "idle"
  /\ calls < MaxCalls /\ calls' = calls + 1
  /\ \E op \in Ops(r), s \in Selection, range \in Ranges :
       /\ op # "feature" => s = {}
       /\ client' = [client EXCEPT ![r] =
            [pc |-> "value", op |-> op, value |-> s, todo |-> range]]
  /\ UNCHANGED <<controls, portal, overlapped>>

(* The client moves to the second write of a request, or to the next VCPU. *)
Second(r) == client' = [client EXCEPT ![r].pc = "dirty"]
Advance(r) ==
  LET rest == client[r].todo \ {Min(client[r].todo)} IN
  client' = [client EXCEPT ![r] =
    IF rest = {} THEN Idle ELSE [@ EXCEPT !.todo = rest, !.pc = "value"]]

(* CpuFeature::request: the value first, "it is necessary that setting the
   dirty bits happens after updating the value". *)
StoreValue(r) ==
  LET v == Min(client[r].todo) IN
  /\ client[r].pc = "value" /\ client[r].op = "feature"
  /\ feature' = [feature EXCEPT ![v].requests[r] = client[r].value]
  /\ Second(r)
  /\ UNCHANGED <<paused, parameters, reset, signaled, recalled, portal,
                   calls, overlapped>>

StoreDirty(r) ==
  LET v == Min(client[r].todo) IN
  /\ client[r].pc = "dirty" /\ client[r].op = "feature"
  /\ feature' = [feature EXCEPT ![v].dirty = TRUE]
  /\ Advance(r)
  /\ UNCHANGED <<paused, parameters, reset, signaled, recalled, portal,
                   calls, overlapped>>

(* ctrl_feature_off: the flag, then a recall or a switch on. *)
StorePaused(r) ==
  LET v == Min(client[r].todo) IN
  /\ client[r].pc = "value" /\ client[r].op # "feature"
  /\ paused' = [paused EXCEPT ![v] = IF client[r].op = "pause" THEN @ \union {r} ELSE @ \ {r}]
  /\ Second(r)
  /\ UNCHANGED <<parameters, reset, feature, signaled, recalled, portal,
                   calls, overlapped>>

Notify(r) ==
  LET v == Min(client[r].todo) IN
  /\ client[r].pc = "dirty" /\ client[r].op # "feature"
  /\ IF client[r].op = "pause"
       THEN recalled' = [recalled EXCEPT ![v] = TRUE] /\ UNCHANGED signaled
       ELSE signaled' = [signaled EXCEPT ![v] = TRUE] /\ UNCHANGED recalled
  /\ Advance(r)
  /\ UNCHANGED <<paused, parameters, reset, feature, portal, calls,
                   overlapped>>

-----------------------------------------------------------------------------

VcpuStep(v) ==
  \/ Exit(v) \/ Begin(v) \/ SwitchedOn(v) \/ Reset(v)
  \/ Check(v) \/ ReadFirst(v) \/ ReadSecond(v) \/ Serve(v) \/ Enter(v)
  \/ OnRefused(v) \/ OnTest(v) \/ OnParameters(v) \/ OnReset(v) \/ OnDirty(v)
  \/ OnUnpause(v) \/ OnSwitch(v) \/ OffPause(v) \/ OffRecall(v)

ClientStep(r) ==
  Call(r) \/ StoreValue(r) \/ StoreDirty(r) \/ StorePaused(r) \/ Notify(r)

Next == (\E v \in VCPU : VcpuStep(v)) \/ (\E r \in Requestor : ClientStep(r))

Spec == Init /\ [][Next]_vars

-----------------------------------------------------------------------------

(* No reconfiguration is missed: once a requestor has set the dirty bit, the
   VCPU runs with what is requested of it or will read it again before it
   does, whatever the order in which two requests and the two loads of
   CpuFeature::read fall. *)
NothingMissed ==
  \A v \in VCPU :
    \/ feature[v].dirty
    \/ pc[v] \in {"read", "read_vmi"}
    \/ \E r \in Requestor : /\ client[r].pc = "dirty" /\ client[r].op = "feature"
                            /\ v = Min(client[r].todo)
    \/ config[v] = Requested(v)

(* A VCPU the guest turned off runs again only from the boot parameters of
   the CPU_ON that turned it on: no pause and resume of the VMI, no late
   signal and no second cycle of CPU_OFF and CPU_ON brings back what it ran
   before.  Two CPU_ON calls that overlap are excluded: start_cpu holds no
   lock between its test and its writes. *)
StartsFromReset ==
  \A v \in VCPU : pc[v] = "guest" /\ ~overlapped[v] =>
    booted[v] # 0 /\ booted[v] = parameters[v]
=============================================================================
