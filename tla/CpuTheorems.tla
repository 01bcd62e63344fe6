----------------------------- MODULE CpuTheorems -----------------------------
(***************************************************************************)
(* What is proved of CpuControl, for any number of VCPUs, any selections   *)
(* and any ranges that requestors may ask.                                 *)
(***************************************************************************)
EXTENDS CpuControl, TLAPS

Label == {"guest", "begin", "parked", "reset", "check", "read", "read_vmi", "serve", "on_test",
          "on_parameters", "on_reset", "on_dirty", "on_unpause", "on_switch", "off_pause",
          "off_recall"}

Bits == UNION Selection

Client == [pc : {"idle", "value", "dirty"}, op : {"feature", "pause", "unpause"},
           value : SUBSET Bits, todo : SUBSET VCPU]

TypeOK ==
  /\ paused \in [VCPU -> SUBSET Requestor]
  /\ parameters \in [VCPU -> Nat] /\ booted \in [VCPU -> Nat]
  /\ reset \in [VCPU -> [requested : BOOLEAN, dirty : BOOLEAN]]
  /\ feature \in [VCPU -> [requests : [Requestor -> SUBSET Bits], dirty : BOOLEAN]]
  /\ signaled \in [VCPU -> BOOLEAN] /\ recalled \in [VCPU -> BOOLEAN]
  /\ pc \in [VCPU -> Label] /\ fresh \in [VCPU -> BOOLEAN]
  /\ target \in [VCPU -> VCPU]
  /\ seen \in [VCPU -> SUBSET Bits] /\ config \in [VCPU -> SUBSET Bits]
  /\ client \in [Requestor -> Client]
  /\ client["VMM"].op = "feature"   \* only the VMI pauses VCPUs
  /\ calls \in Nat \ {0}
  /\ overlapped \in [VCPU -> BOOLEAN]

(* A requestor has stored what it asks of v and not yet the dirty bit. *)
Announced(v) == \E r \in Requestor : /\ client[r].pc = "dirty" /\ client[r].op = "feature"
                                     /\ v = Min(client[r].todo)

(* What a VCPU has not taken over is marked dirty or about to be, and if it
   is about to take it over, the part it has read is up to date. *)
ConfigInv ==
  \A v \in VCPU :
    \/ feature[v].dirty
    \/ pc[v] = "read"
    \/ Announced(v)
    \/ pc[v] = "read_vmi" /\ seen[v] = feature[v].requests["VMM"]
    \/ pc[v] # "read_vmi" /\ config[v] = Requested(v)

(* Where a VCPU is that tests its pause before its guest runs again. *)
Outside(v) == \/ pc[v] \in {"parked", "begin", "off_recall"}
              \/ pc[v] = "serve" /\ recalled[v]

(* A VCPU that is off does nothing for its guest. *)
OffInv ==
  \A v \in VCPU :
    /\ "VMM" \in paused[v] => ~fresh[v] /\ Outside(v)
    /\ pc[v] \in {"off_pause", "off_recall"} => ~fresh[v]

(* A CPU_ON call that no other overlaps has the VCPU off until its last
   write but one, and what it has written stays. *)
OnInv ==
  \A v \in VCPU : ~overlapped[v] =>
    /\ \A c, d \in Resetting(v) : c = d
    /\ \A c \in Resetting(v) :
         /\ "VMM" \in paused[v]
         /\ pc[c] # "on_parameters" => parameters[v] # 0
         /\ pc[c] \in {"on_dirty", "on_unpause"} => reset[v].requested
         /\ pc[c] = "on_unpause" => reset[v].dirty

(* A VCPU that is on runs from its parameters, or will be reset first. *)
StartInv ==
  \A v \in VCPU : ~overlapped[v] /\ "VMM" \notin paused[v] =>
    /\ parameters[v] # 0
    /\ \/ booted[v] = parameters[v]
       \/ /\ reset[v].dirty /\ reset[v].requested /\ ~fresh[v]
          /\ pc[v] = "reset" \/ Outside(v)

IInv == TypeOK /\ ConfigInv /\ OffInv /\ OnInv /\ StartInv

-----------------------------------------------------------------------------
(* The bits that the two requestors ask for. *)
LEMMA RequestedByTwo ==
  ASSUME NEW v, NEW f
  PROVE  UNION {f[v].requests[r] : r \in Requestor}
           = f[v].requests["VMM"] \union f[v].requests["VMI"]
BY DEF Requestor

LEMMA EnabledBits == ASSUME NEW bits PROVE Enabled(bits) \subseteq bits
BY DEF Enabled

(* A client that moves on announces nothing, and concerns no other. *)
LEMMA Advancing ==
  ASSUME TypeOK, NEW r \in Requestor, Advance(r)
  PROVE  /\ client' \in [Requestor -> Client] /\ client'["VMM"].op = "feature"
         /\ client'[r].pc # "dirty"
         /\ \A q \in Requestor \ {r} : client'[q] = client[q]
<1> DEFINE rest == client[r].todo \ {Min(client[r].todo)}
<1>1. rest \subseteq VCPU
  BY DEF TypeOK, Client
<1> HIDE DEF rest
<1>2. client' = [client EXCEPT ![r] =
    IF rest = {} THEN Idle ELSE [@ EXCEPT !.todo = rest, !.pc = "value"]]
  BY DEF Advance, rest
<1>3. Idle \in Client /\ client[r] \in Client
  BY DEF TypeOK, Idle, Client
<1>4. /\ [client[r] EXCEPT !.todo = rest, !.pc = "value"] \in Client
      /\ [client[r] EXCEPT !.todo = rest, !.pc = "value"].pc = "value"
      /\ [client[r] EXCEPT !.todo = rest, !.pc = "value"].op = client[r].op
  BY <1>1, <1>3 DEF Client
<1>5. Idle.pc = "idle" /\ Idle.op = "feature"
  BY DEF Idle
<1> QED
  BY <1>2, <1>3, <1>4, <1>5 DEF TypeOK, Requestor

(* The types. *)
LEMMA TypeStep ==
  ASSUME TypeOK, [Next]_vars
  PROVE  TypeOK'
<1>1. ASSUME NEW v \in VCPU, Exit(v)
      PROVE  TypeOK'
  BY <1>1 DEF Exit, Goto, controls, portal, TypeOK, Label
<1>2. ASSUME NEW v \in VCPU, Begin(v)
      PROVE  TypeOK'
  BY <1>2 DEF Begin, Goto, controls, portal, TypeOK, Label
<1>3. ASSUME NEW v \in VCPU, SwitchedOn(v)
      PROVE  TypeOK'
  BY <1>3 DEF SwitchedOn, Goto, controls, portal, TypeOK, Label
<1>4. ASSUME NEW v \in VCPU, Reset(v)
      PROVE  TypeOK'
  BY <1>4 DEF Reset, Goto, controls, portal, TypeOK, Label
<1>5. ASSUME NEW v \in VCPU, Check(v)
      PROVE  TypeOK'
  BY <1>5 DEF Check, Goto, controls, portal, TypeOK, Label, Requestor
<1>6. ASSUME NEW v \in VCPU, ReadFirst(v)
      PROVE  TypeOK'
  BY <1>6 DEF ReadFirst, Goto, controls, portal, TypeOK, Label, Requestor
<1>7. ASSUME NEW v \in VCPU, ReadSecond(v)
      PROVE  TypeOK'
  BY <1>7, EnabledBits DEF ReadSecond, Goto, controls, portal, TypeOK, Label, Requestor
<1>8. ASSUME NEW v \in VCPU, Serve(v)
      PROVE  TypeOK'
  <2>1. CASE start_cpu(v)
    BY <1>8, <2>1 DEF Serve, start_cpu, Goto, controls, portal, TypeOK, Label
  <2>2. CASE Goto(v, "serve", "off_pause") /\ UNCHANGED target
    BY <1>8, <2>2 DEF Serve, Goto, controls, portal, TypeOK, Label
  <2> QED BY <1>8, <2>1, <2>2 DEF Serve
<1>9. ASSUME NEW v \in VCPU, Enter(v)
      PROVE  TypeOK'
  BY <1>9 DEF Enter, Goto, controls, portal, TypeOK, Label
<1>10. ASSUME NEW v \in VCPU, OnRefused(v)
      PROVE  TypeOK'
  BY <1>10 DEF OnRefused, Goto, controls, portal, TypeOK, Label
<1>11. ASSUME NEW v \in VCPU, OnTest(v)
      PROVE  TypeOK'
  BY <1>11 DEF OnTest, Goto, controls, portal, TypeOK, Label, Resetting
<1>12. ASSUME NEW v \in VCPU, OnParameters(v)
      PROVE  TypeOK'
  BY <1>12 DEF OnParameters, Goto, controls, portal, TypeOK, Label
<1>13. ASSUME NEW v \in VCPU, OnReset(v)
      PROVE  TypeOK'
  BY <1>13 DEF OnReset, Goto, controls, portal, TypeOK, Label
<1>14. ASSUME NEW v \in VCPU, OnDirty(v)
      PROVE  TypeOK'
  BY <1>14 DEF OnDirty, Goto, controls, portal, TypeOK, Label
<1>15. ASSUME NEW v \in VCPU, OnUnpause(v)
      PROVE  TypeOK'
  BY <1>15 DEF OnUnpause, Goto, controls, portal, TypeOK, Label, Requestor
<1>16. ASSUME NEW v \in VCPU, OnSwitch(v)
      PROVE  TypeOK'
  BY <1>16 DEF OnSwitch, Goto, controls, portal, TypeOK, Label, Requestor
<1>17. ASSUME NEW v \in VCPU, OffPause(v)
      PROVE  TypeOK'
  BY <1>17 DEF OffPause, Goto, controls, portal, TypeOK, Label, Requestor
<1>18. ASSUME NEW v \in VCPU, OffRecall(v)
      PROVE  TypeOK'
  BY <1>18 DEF OffRecall, Goto, controls, portal, TypeOK, Label, Requestor
<1>19. ASSUME NEW r \in Requestor, Call(r)
      PROVE  TypeOK'
  <2>1. PICK op \in Ops(r), s \in Selection, range \in Ranges :
          client' = [client EXCEPT ![r] = [pc |-> "value", op |-> op, value |-> s, todo |-> range]]
    BY <1>19 DEF Call
  <2>2. /\ [pc |-> "value", op |-> op, value |-> s, todo |-> range] \in Client
        /\ [pc |-> "value", op |-> op, value |-> s, todo |-> range].op = op
        /\ r = "VMM" => op = "feature"
    BY BoundsAssumption DEF Client, Bits, Ops, VCPU
  <2>3. client' \in [Requestor -> Client] /\ client'["VMM"].op = "feature"
    BY <2>1, <2>2 DEF TypeOK, Requestor
  <2> QED BY <1>19, <2>3 DEF Call, controls, portal, TypeOK
<1>20. ASSUME NEW r \in Requestor, StoreValue(r)
      PROVE  TypeOK'
  <2>1. client[r] \in Client
    BY DEF TypeOK
  <2>2. /\ [client[r] EXCEPT !.pc = "dirty"] \in Client
        /\ [client[r] EXCEPT !.pc = "dirty"].op = client[r].op
    BY <2>1 DEF Client
  <2>3. client' \in [Requestor -> Client] /\ client'["VMM"].op = "feature"
    BY <1>20, <2>2 DEF StoreValue, Second, TypeOK, Requestor
  <2>4. client[r].value \in SUBSET Bits
    BY <2>1 DEF Client
  <2>5. feature' \in [VCPU -> [requests : [Requestor -> SUBSET Bits], dirty : BOOLEAN]]
    BY <1>20, <2>4 DEF StoreValue, TypeOK
  <2> QED BY <1>20, <2>3, <2>5 DEF StoreValue, portal, TypeOK
<1>21. ASSUME NEW r \in Requestor, StorePaused(r)
      PROVE  TypeOK'
  BY <1>21 DEF StorePaused, Second, controls, portal, TypeOK, Label, Client, Requestor
<1>22. ASSUME NEW r \in Requestor, StoreDirty(r)
      PROVE  TypeOK'
  BY <1>22, Advancing DEF StoreDirty, controls, portal, TypeOK, Label
<1>23. ASSUME NEW r \in Requestor, Notify(r)
      PROVE  TypeOK'
  BY <1>23, Advancing DEF Notify, controls, portal, TypeOK, Label
<1>24. CASE UNCHANGED vars
  BY <1>24 DEF vars, controls, portal, TypeOK, Label
<1> QED BY <1>1, <1>2, <1>3, <1>4, <1>5, <1>6, <1>7, <1>8, <1>9, <1>10, <1>11, <1>12, <1>13,
      <1>14, <1>15, <1>16, <1>17, <1>18, <1>19, <1>20, <1>21, <1>22, <1>23, <1>24
   DEF Next, VcpuStep, ClientStep

(* No reconfiguration is missed. *)
LEMMA ConfigStep ==
  ASSUME TypeOK, ConfigInv, [Next]_vars
  PROVE  ConfigInv'
<1>1. ASSUME NEW v \in VCPU,
            Exit(v) \/ Begin(v) \/ SwitchedOn(v) \/ Reset(v) \/ Serve(v) \/ Enter(v)
      PROVE  ConfigInv'
  <2>1. feature' = feature /\ seen' = seen /\ config' = config /\ client' = client
    BY <1>1 DEF Exit, Begin, SwitchedOn, Reset, Serve, start_cpu, Enter, controls, portal
  <2>2. /\ \A w \in VCPU \ {v} : pc'[w] = pc[w]
        /\ pc[v] \notin {"read", "read_vmi"} /\ pc'[v] \notin {"read", "read_vmi"}
    BY <1>1 DEF Exit, Begin, SwitchedOn, Reset, Serve, start_cpu, Enter, Goto, TypeOK
  <2> QED BY <2>1, <2>2 DEF ConfigInv, Announced, Requested
<1>2. ASSUME NEW v \in VCPU,
            OnRefused(v) \/ OnTest(v) \/ OnParameters(v) \/ OnReset(v) \/ OnDirty(v) \/
            OnUnpause(v) \/ OnSwitch(v) \/ OffPause(v) \/ OffRecall(v)
      PROVE  ConfigInv'
  <2>1. feature' = feature /\ seen' = seen /\ config' = config /\ client' = client
    BY <1>2 DEF OnRefused, OnTest, OnParameters, OnReset, OnDirty, OnUnpause,
        OnSwitch, OffPause, OffRecall, controls, portal
  <2>2. /\ \A w \in VCPU \ {v} : pc'[w] = pc[w]
        /\ pc[v] \notin {"read", "read_vmi"} /\ pc'[v] \notin {"read", "read_vmi"}
    BY <1>2 DEF OnRefused, OnTest, OnParameters, OnReset, OnDirty, OnUnpause,
        OnSwitch, OffPause, OffRecall, Goto, TypeOK
  <2> QED BY <2>1, <2>2 DEF ConfigInv, Announced, Requested
<1>3. ASSUME NEW v \in VCPU, Check(v)
      PROVE  ConfigInv'
  <2>1. /\ config' = config /\ client' = client
        /\ \A w \in VCPU : feature'[w].requests = feature[w].requests
        /\ \A w \in VCPU \ {v} : pc'[w] = pc[w] /\ seen'[w] = seen[w] /\ config'[w] = config[w]
                                /\ feature'[w].dirty = feature[w].dirty
    BY <1>3 DEF Check, Goto, controls, TypeOK
  <2>2. \A w \in VCPU : Requested(w)' = Requested(w)
    BY <2>1 DEF Requested
  <2>3. \A w \in VCPU : Announced(w) <=> (Announced(w))'
    BY <2>1 DEF Announced
  <2>4. \/ feature[v].dirty /\ pc'[v] = "read"
        \/ ~feature[v].dirty /\ pc[v] = "check" /\ pc'[v] = "serve"
    BY <1>3 DEF Check, Goto, TypeOK
  <2> QED BY <2>1, <2>2, <2>3, <2>4 DEF ConfigInv
<1>4. ASSUME NEW v \in VCPU, ReadFirst(v)
      PROVE  ConfigInv'
  <2>1. /\ feature' = feature /\ client' = client
        /\ \A w \in VCPU : feature'[w].requests = feature[w].requests
        /\ \A w \in VCPU \ {v} : pc'[w] = pc[w] /\ seen'[w] = seen[w] /\ config'[w] = config[w]
                                /\ feature'[w].dirty = feature[w].dirty
    BY <1>4 DEF ReadFirst, Goto, controls, TypeOK
  <2>2. \A w \in VCPU : Requested(w)' = Requested(w)
    BY <2>1 DEF Requested
  <2>3. \A w \in VCPU : Announced(w) <=> (Announced(w))'
    BY <2>1 DEF Announced
  <2>4. pc'[v] = "read_vmi" /\ seen'[v] = feature[v].requests["VMM"]
    BY <1>4 DEF ReadFirst, Goto, TypeOK
  <2> QED BY <2>1, <2>2, <2>3, <2>4 DEF ConfigInv
<1>5. ASSUME NEW v \in VCPU, ReadSecond(v)
      PROVE  ConfigInv'
  <2>1. /\ feature' = feature /\ client' = client
        /\ \A w \in VCPU : feature'[w].requests = feature[w].requests
        /\ \A w \in VCPU \ {v} : pc'[w] = pc[w] /\ seen'[w] = seen[w] /\ config'[w] = config[w]
                                /\ feature'[w].dirty = feature[w].dirty
    BY <1>5 DEF ReadSecond, Goto, controls, TypeOK
  <2>2. \A w \in VCPU : Requested(w)' = Requested(w)
    BY <2>1 DEF Requested
  <2>3. \A w \in VCPU : Announced(w) <=> (Announced(w))'
    BY <2>1 DEF Announced
  <2>4. /\ pc[v] = "read_vmi" /\ pc'[v] = "serve"
        /\ config'[v] = Enabled(seen[v] \union feature[v].requests["VMI"])
    BY <1>5 DEF ReadSecond, Goto, TypeOK
  <2>5. Requested(v) = Enabled(feature[v].requests["VMM"] \union feature[v].requests["VMI"])
    BY RequestedByTwo DEF Requested
  <2> QED BY <2>1, <2>2, <2>3, <2>4, <2>5 DEF ConfigInv
<1>6. ASSUME NEW r \in Requestor, Call(r)
      PROVE  ConfigInv'
  <2>1. \A w \in VCPU : Announced(w) => (Announced(w))'
    BY <1>6 DEF Call, TypeOK, Client, Announced
  <2>2. feature' = feature /\ pc' = pc /\ seen' = seen /\ config' = config
    BY <1>6 DEF Call, controls, portal
  <2> QED BY <2>1, <2>2 DEF ConfigInv, Requested
<1>7. ASSUME NEW r \in Requestor, StoreValue(r)
      PROVE  ConfigInv'
  <2> DEFINE u == Min(client[r].todo)
  <2>1. /\ client'[r].pc = "dirty" /\ client'[r].op = "feature" /\ client'[r].todo = client[r].todo
        /\ \A q \in Requestor \ {r} : client'[q] = client[q]
    BY <1>7 DEF StoreValue, Second, TypeOK, Client
  <2>2. \A w \in VCPU : w = u \/ Announced(w) => (Announced(w))'
    BY <1>7, <2>1 DEF StoreValue, Announced
  <2>3. \A w \in VCPU \ {u} : feature'[w] = feature[w]
    BY <1>7 DEF StoreValue, TypeOK
  <2>4. pc' = pc /\ seen' = seen /\ config' = config
    BY <1>7 DEF StoreValue, portal
  <2> HIDE DEF u
  <2>5. \A w \in VCPU \ {u} : Requested(w)' = Requested(w)
    BY <2>3 DEF Requested
  <2>6. \A w \in VCPU \ {u} : feature'[w].dirty = feature[w].dirty
                              /\ feature'[w].requests = feature[w].requests
    BY <2>3
  <2> QED BY <2>2, <2>4, <2>5, <2>6 DEF ConfigInv
<1>8. ASSUME NEW r \in Requestor, StoreDirty(r)
      PROVE  ConfigInv'
  <2> DEFINE u == Min(client[r].todo)
  <2>1. \A w \in VCPU \ {u} : Announced(w) => (Announced(w))'
    BY <1>8, Advancing DEF StoreDirty, Announced
  <2>2. \A w \in VCPU \ {u} : feature'[w] = feature[w]
    BY <1>8 DEF StoreDirty, TypeOK
  <2>3. u \in VCPU => feature'[u].dirty
    BY <1>8 DEF StoreDirty, TypeOK
  <2>4. pc' = pc /\ seen' = seen /\ config' = config
    BY <1>8 DEF StoreDirty, portal
  <2> HIDE DEF u
  <2> QED BY <2>1, <2>2, <2>3, <2>4 DEF ConfigInv, Requested
<1>9. ASSUME NEW r \in Requestor, StorePaused(r)
      PROVE  ConfigInv'
  <2>1. \A w \in VCPU : Announced(w) => (Announced(w))'
    BY <1>9 DEF StorePaused, Second, TypeOK, Client, Announced
  <2>2. feature' = feature /\ pc' = pc /\ seen' = seen /\ config' = config
    BY <1>9 DEF StorePaused, controls, portal
  <2> QED BY <2>1, <2>2 DEF ConfigInv, Requested
<1>10. ASSUME NEW r \in Requestor, Notify(r)
      PROVE  ConfigInv'
  <2>1. \A w \in VCPU : Announced(w) => (Announced(w))'
    BY <1>10, Advancing DEF Notify, Announced
  <2>2. feature' = feature /\ pc' = pc /\ seen' = seen /\ config' = config
    BY <1>10 DEF Notify, controls, portal
  <2> QED BY <2>1, <2>2 DEF ConfigInv, Requested
<1>11. CASE UNCHANGED vars
  BY <1>11 DEF vars, controls, portal, ConfigInv, Announced, Requested
<1> QED BY <1>1, <1>2, <1>3, <1>4, <1>5, <1>6, <1>7, <1>8, <1>9, <1>10, <1>11
   DEF Next, VcpuStep, ClientStep

(* A VCPU that is off stays off for its guest. *)
LEMMA OffStep ==
  ASSUME TypeOK, OffInv, [Next]_vars
  PROVE  OffInv'
<1>1. ASSUME NEW v \in VCPU, Exit(v)
      PROVE  OffInv'
  BY <1>1 DEF Exit, Goto, controls, portal, OffInv, Outside, TypeOK
<1>2. ASSUME NEW v \in VCPU, Begin(v)
      PROVE  OffInv'
  BY <1>2 DEF Begin, Goto, controls, portal, OffInv, Outside, TypeOK
<1>3. ASSUME NEW v \in VCPU, SwitchedOn(v)
      PROVE  OffInv'
  BY <1>3 DEF SwitchedOn, Goto, controls, portal, OffInv, Outside, TypeOK
<1>4. ASSUME NEW v \in VCPU, Reset(v)
      PROVE  OffInv'
  BY <1>4 DEF Reset, Goto, controls, portal, OffInv, Outside, TypeOK
<1>5. ASSUME NEW v \in VCPU, Check(v)
      PROVE  OffInv'
  BY <1>5 DEF Check, Goto, controls, portal, OffInv, Outside, TypeOK
<1>6. ASSUME NEW v \in VCPU, ReadFirst(v)
      PROVE  OffInv'
  BY <1>6 DEF ReadFirst, Goto, controls, portal, OffInv, Outside, TypeOK
<1>7. ASSUME NEW v \in VCPU, ReadSecond(v)
      PROVE  OffInv'
  BY <1>7 DEF ReadSecond, Goto, controls, portal, OffInv, Outside, TypeOK
<1>8. ASSUME NEW v \in VCPU, Serve(v)
      PROVE  OffInv'
  BY <1>8 DEF Serve, start_cpu, Goto, controls, portal, OffInv, Outside, TypeOK
<1>9. ASSUME NEW v \in VCPU, Enter(v)
      PROVE  OffInv'
  BY <1>9 DEF Enter, Goto, controls, portal, OffInv, Outside, TypeOK
<1>10. ASSUME NEW v \in VCPU, OnRefused(v)
      PROVE  OffInv'
  BY <1>10 DEF OnRefused, Goto, controls, portal, OffInv, Outside, TypeOK
<1>11. ASSUME NEW v \in VCPU, OnTest(v)
      PROVE  OffInv'
  BY <1>11 DEF OnTest, Goto, controls, portal, OffInv, Outside, TypeOK
<1>12. ASSUME NEW v \in VCPU, OnParameters(v)
      PROVE  OffInv'
  BY <1>12 DEF OnParameters, Goto, controls, portal, OffInv, Outside, TypeOK
<1>13. ASSUME NEW v \in VCPU, OnReset(v)
      PROVE  OffInv'
  BY <1>13 DEF OnReset, Goto, controls, portal, OffInv, Outside, TypeOK
<1>14. ASSUME NEW v \in VCPU, OnDirty(v)
      PROVE  OffInv'
  BY <1>14 DEF OnDirty, Goto, controls, portal, OffInv, Outside, TypeOK
<1>15. ASSUME NEW v \in VCPU, OnUnpause(v)
      PROVE  OffInv'
  BY <1>15 DEF OnUnpause, Goto, controls, portal, OffInv, Outside, TypeOK
<1>16. ASSUME NEW v \in VCPU, OnSwitch(v)
      PROVE  OffInv'
  BY <1>16 DEF OnSwitch, Goto, controls, portal, OffInv, Outside, TypeOK
<1>17. ASSUME NEW v \in VCPU, OffPause(v)
      PROVE  OffInv'
  BY <1>17 DEF OffPause, Goto, controls, portal, OffInv, Outside, TypeOK
<1>18. ASSUME NEW v \in VCPU, OffRecall(v)
      PROVE  OffInv'
  BY <1>18 DEF OffRecall, Goto, controls, portal, OffInv, Outside, TypeOK
<1>19. ASSUME NEW r \in Requestor, Call(r) \/ StoreValue(r) \/ StoreDirty(r)
      PROVE  OffInv'
  BY <1>19
  DEF Call, Ops, StoreValue, Second, StoreDirty, controls, portal, OffInv, Outside, TypeOK
<1>20. ASSUME NEW r \in Requestor, StorePaused(r)
      PROVE  OffInv'
  BY <1>20 DEF StorePaused, Second, controls, portal, OffInv, Outside, TypeOK, Requestor
<1>21. ASSUME NEW r \in Requestor, Notify(r)
      PROVE  OffInv'
  BY <1>21 DEF Notify, controls, portal, OffInv, Outside, TypeOK
<1>22. CASE UNCHANGED vars
  BY <1>22 DEF vars, controls, portal, OffInv, Outside
<1> QED BY <1>1, <1>2, <1>3, <1>4, <1>5, <1>6, <1>7, <1>8, <1>9, <1>10, <1>11, <1>12, <1>13,
      <1>14, <1>15, <1>16, <1>17, <1>18, <1>19, <1>20, <1>21, <1>22
   DEF Next, VcpuStep, ClientStep

(* The writes of a CPU_ON call that no other overlaps stay. *)
LEMMA OnStep ==
  ASSUME TypeOK, OffInv, OnInv, [Next]_vars
  PROVE  OnInv'
<1>1. ASSUME NEW v \in VCPU, Exit(v)
      PROVE  OnInv'
  BY <1>1 DEF Exit, Goto, controls, portal, OnInv, Resetting, TypeOK
<1>2. ASSUME NEW v \in VCPU, Begin(v)
      PROVE  OnInv'
  BY <1>2 DEF Begin, Goto, controls, portal, OnInv, Resetting, TypeOK
<1>3. ASSUME NEW v \in VCPU, SwitchedOn(v)
      PROVE  OnInv'
  BY <1>3 DEF SwitchedOn, Goto, controls, portal, OnInv, Resetting, TypeOK
<1>4. ASSUME NEW v \in VCPU, Reset(v)
      PROVE  OnInv'
  <2>1. /\ UNCHANGED <<paused, parameters, target, overlapped>>
        /\ pc[v] = "reset" /\ pc'[v] = "check" /\ \A w \in VCPU \ {v} : pc'[w] = pc[w]
        /\ \A w \in VCPU : reset'[w].requested = reset[w].requested
        /\ \A w \in VCPU \ {v} : reset'[w].dirty = reset[w].dirty
    BY <1>4 DEF Reset, Goto, TypeOK
  <2>2. \A w \in VCPU : (Resetting(w))' = Resetting(w)
    BY <2>1 DEF Resetting
  <2>3. ~overlapped[v] => Resetting(v) = {}
    BY <2>1 DEF OnInv, OffInv, Outside
  <2>4. \A w \in VCPU : \A c \in Resetting(w) : pc'[c] = pc[c]
    BY <2>1 DEF Resetting
  <2> QED BY <2>1, <2>2, <2>3, <2>4 DEF OnInv
<1>5. ASSUME NEW v \in VCPU, Check(v)
      PROVE  OnInv'
  BY <1>5 DEF Check, Goto, controls, portal, OnInv, Resetting, TypeOK
<1>6. ASSUME NEW v \in VCPU, ReadFirst(v)
      PROVE  OnInv'
  BY <1>6 DEF ReadFirst, Goto, controls, portal, OnInv, Resetting, TypeOK
<1>7. ASSUME NEW v \in VCPU, ReadSecond(v)
      PROVE  OnInv'
  BY <1>7 DEF ReadSecond, Goto, controls, portal, OnInv, Resetting, TypeOK
<1>8. ASSUME NEW v \in VCPU, Serve(v)
      PROVE  OnInv'
  <2>1. /\ UNCHANGED <<paused, parameters, reset, overlapped>>
        /\ \A w \in VCPU \ {v} : pc'[w] = pc[w] /\ target'[w] = target[w]
        /\ pc[v] = "serve" /\ pc'[v] \in {"on_test", "off_pause"}
    BY <1>8 DEF Serve, start_cpu, Goto, controls, TypeOK
  <2>2. \A w \in VCPU : (Resetting(w))' = Resetting(w)
    BY <2>1 DEF Resetting
  <2> QED BY <2>1, <2>2 DEF OnInv, Resetting
<1>9. ASSUME NEW v \in VCPU, Enter(v)
      PROVE  OnInv'
  BY <1>9 DEF Enter, Goto, controls, portal, OnInv, Resetting, TypeOK
<1>10. ASSUME NEW v \in VCPU, OnRefused(v)
      PROVE  OnInv'
  BY <1>10 DEF OnRefused, Goto, controls, portal, OnInv, Resetting, TypeOK
<1>11. ASSUME NEW v \in VCPU, OnTest(v)
      PROVE  OnInv'
  <2>0. PICK u \in VCPU : u = target[v]
    BY DEF TypeOK
  <2>1. /\ UNCHANGED <<paused, parameters, reset, target>>
        /\ pc[v] = "on_test" /\ pc' = [pc EXCEPT ![v] = "on_parameters"]
        /\ "VMM" \in paused[u] /\ u \in VCPU
        /\ overlapped'[u] = (Resetting(u) # {})
        /\ \A w \in VCPU \ {u} : overlapped'[w] = overlapped[w]
    BY <1>11, <2>0 DEF OnTest, Goto, controls, portal, TypeOK
  <2>2. \A w \in VCPU \ {u} : (Resetting(w))' = Resetting(w) /\ v \notin Resetting(w)
    BY <2>0, <2>1 DEF Resetting, TypeOK
  <2>3. ~overlapped'[u] => (Resetting(u))' = {v}
    <3> SUFFICES ASSUME Resetting(u) = {}
                 PROVE  (Resetting(u))' = {v}
      BY <2>1
    <3>1. \A c \in VCPU \ {v} : target[c] # u \/ pc'[c] \notin
            {"on_parameters", "on_reset", "on_dirty", "on_unpause"}
      BY <2>1 DEF Resetting, TypeOK
    <3>2. pc'[v] = "on_parameters" /\ target'[v] = u
      BY <2>0, <2>1 DEF TypeOK
    <3> QED BY <2>1, <3>1, <3>2 DEF Resetting
  <2>4. \A c \in VCPU \ {v} : pc'[c] = pc[c]
    BY <2>1 DEF TypeOK
  <2>5. pc'[v] = "on_parameters"
    BY <2>1 DEF TypeOK
  <2>6. ASSUME NEW w \in VCPU, w # u, ~overlapped'[w]
        PROVE  /\ \A c, d \in (Resetting(w))' : c = d
               /\ \A c \in (Resetting(w))' : pc'[c] = pc[c]
    <3>1. (Resetting(w))' \subseteq VCPU /\ (Resetting(w))' = Resetting(w) /\ v \notin Resetting(w)
      BY <2>2, <2>6 DEF Resetting
    <3> QED BY <2>1, <2>4, <2>6, <3>1 DEF OnInv
  <2>7. ASSUME NEW w \in VCPU, w # u, ~overlapped'[w], NEW c \in (Resetting(w))'
        PROVE  /\ "VMM" \in paused'[w]
               /\ pc'[c] # "on_parameters" => parameters'[w] # 0
               /\ pc'[c] \in {"on_dirty", "on_unpause"} => reset'[w].requested
               /\ pc'[c] = "on_unpause" => reset'[w].dirty
    BY <2>1, <2>2, <2>6, <2>7 DEF OnInv
  <2>8. "VMM" \in paused'[u]
    BY <2>1
  <2>9. ASSUME NEW w \in VCPU, w = u, ~overlapped'[w]
        PROVE  (Resetting(w))' = {v} /\ "VMM" \in paused'[w]
    BY <2>3, <2>8, <2>9
  <2>10. "on_parameters" \notin {"on_dirty", "on_unpause"} /\ "on_parameters" # "on_unpause"
    OBVIOUS
  <2> SUFFICES ASSUME NEW w \in VCPU, ~overlapped'[w]
               PROVE  /\ \A c, d \in (Resetting(w))' : c = d
                      /\ \A c \in (Resetting(w))' :
                           /\ "VMM" \in paused'[w]
                           /\ pc'[c] # "on_parameters" => parameters'[w] # 0
                           /\ pc'[c] \in {"on_dirty", "on_unpause"} => reset'[w].requested
                           /\ pc'[c] = "on_unpause" => reset'[w].dirty
    BY DEF OnInv
  <2>11. CASE w = u
    BY <2>5, <2>9, <2>10, <2>11
  <2> QED BY <2>6, <2>7, <2>11
<1>12. ASSUME NEW v \in VCPU, OnParameters(v)
      PROVE  OnInv'
  BY <1>12 DEF OnParameters, Goto, controls, portal, OnInv, Resetting, TypeOK
<1>13. ASSUME NEW v \in VCPU, OnReset(v)
      PROVE  OnInv'
  BY <1>13 DEF OnReset, Goto, controls, portal, OnInv, Resetting, TypeOK
<1>14. ASSUME NEW v \in VCPU, OnDirty(v)
      PROVE  OnInv'
  BY <1>14 DEF OnDirty, Goto, controls, portal, OnInv, Resetting, TypeOK
<1>15. ASSUME NEW v \in VCPU, OnUnpause(v)
      PROVE  OnInv'
  BY <1>15 DEF OnUnpause, Goto, controls, portal, OnInv, Resetting, TypeOK
<1>16. ASSUME NEW v \in VCPU, OnSwitch(v)
      PROVE  OnInv'
  BY <1>16 DEF OnSwitch, Goto, controls, portal, OnInv, Resetting, TypeOK
<1>17. ASSUME NEW v \in VCPU, OffPause(v)
      PROVE  OnInv'
  BY <1>17 DEF OffPause, Goto, controls, portal, OnInv, Resetting, TypeOK
<1>18. ASSUME NEW v \in VCPU, OffRecall(v)
      PROVE  OnInv'
  BY <1>18 DEF OffRecall, Goto, controls, portal, OnInv, Resetting, TypeOK
<1>19. ASSUME NEW r \in Requestor, Call(r) \/ StoreValue(r) \/ StoreDirty(r)
      PROVE  OnInv'
  BY <1>19
  DEF Call, Ops, StoreValue, Second, StoreDirty, controls, portal, OnInv, Resetting, TypeOK
<1>20. ASSUME NEW r \in Requestor, StorePaused(r)
      PROVE  OnInv'
  BY <1>20 DEF StorePaused, Second, controls, portal, OnInv, Resetting, TypeOK, Requestor
<1>21. ASSUME NEW r \in Requestor, Notify(r)
      PROVE  OnInv'
  BY <1>21 DEF Notify, controls, portal, OnInv, Resetting, TypeOK
<1>22. CASE UNCHANGED vars
  BY <1>22 DEF vars, controls, portal, OnInv, Resetting
<1> QED BY <1>1, <1>2, <1>3, <1>4, <1>5, <1>6, <1>7, <1>8, <1>9, <1>10, <1>11, <1>12, <1>13,
      <1>14, <1>15, <1>16, <1>17, <1>18, <1>19, <1>20, <1>21, <1>22
   DEF Next, VcpuStep, ClientStep

(* A VCPU that is on has been reset, or will be before its guest runs. *)
LEMMA StartStep ==
  ASSUME TypeOK, OffInv, OnInv, StartInv, [Next]_vars
  PROVE  StartInv'
<1>1. ASSUME NEW v \in VCPU, Exit(v)
      PROVE  StartInv'
  BY <1>1 DEF Exit, Goto, controls, portal, StartInv, Outside, TypeOK
<1>2. ASSUME NEW v \in VCPU, Begin(v)
      PROVE  StartInv'
  BY <1>2 DEF Begin, Goto, controls, portal, StartInv, Outside, TypeOK
<1>3. ASSUME NEW v \in VCPU, SwitchedOn(v)
      PROVE  StartInv'
  BY <1>3 DEF SwitchedOn, Goto, controls, portal, StartInv, Outside, TypeOK
<1>4. ASSUME NEW v \in VCPU, Reset(v)
      PROVE  StartInv'
  BY <1>4 DEF Reset, Goto, controls, portal, StartInv, Outside, TypeOK
<1>5. ASSUME NEW v \in VCPU, Check(v)
      PROVE  StartInv'
  BY <1>5 DEF Check, Goto, controls, portal, StartInv, Outside, TypeOK
<1>6. ASSUME NEW v \in VCPU, ReadFirst(v)
      PROVE  StartInv'
  BY <1>6 DEF ReadFirst, Goto, controls, portal, StartInv, Outside, TypeOK
<1>7. ASSUME NEW v \in VCPU, ReadSecond(v)
      PROVE  StartInv'
  BY <1>7 DEF ReadSecond, Goto, controls, portal, StartInv, Outside, TypeOK
<1>8. ASSUME NEW v \in VCPU, Serve(v)
      PROVE  StartInv'
  BY <1>8 DEF Serve, start_cpu, Goto, controls, portal, StartInv, Outside, TypeOK
<1>9. ASSUME NEW v \in VCPU, Enter(v)
      PROVE  StartInv'
  BY <1>9 DEF Enter, Goto, controls, portal, StartInv, Outside, TypeOK
<1>10. ASSUME NEW v \in VCPU, OnRefused(v)
      PROVE  StartInv'
  BY <1>10
  DEF OnRefused, Goto, controls, portal, StartInv, Outside, TypeOK, OffInv, OnInv, Resetting
<1>11. ASSUME NEW v \in VCPU, OnTest(v)
      PROVE  StartInv'
  BY <1>11
  DEF OnTest, Goto, controls, portal, StartInv, Outside, TypeOK, OffInv, OnInv, Resetting
<1>12. ASSUME NEW v \in VCPU, OnParameters(v)
      PROVE  StartInv'
  BY <1>12
  DEF OnParameters, Goto, controls, portal, StartInv, Outside, TypeOK, OffInv, OnInv, Resetting
<1>13. ASSUME NEW v \in VCPU, OnReset(v)
      PROVE  StartInv'
  BY <1>13
  DEF OnReset, Goto, controls, portal, StartInv, Outside, TypeOK, OffInv, OnInv, Resetting
<1>14. ASSUME NEW v \in VCPU, OnDirty(v)
      PROVE  StartInv'
  BY <1>14
  DEF OnDirty, Goto, controls, portal, StartInv, Outside, TypeOK, OffInv, OnInv, Resetting
<1>15. ASSUME NEW v \in VCPU, OnUnpause(v)
      PROVE  StartInv'
  BY <1>15
  DEF OnUnpause, Goto, controls, portal, StartInv, Outside, TypeOK, OffInv, OnInv, Resetting
<1>16. ASSUME NEW v \in VCPU, OnSwitch(v)
      PROVE  StartInv'
  BY <1>16
  DEF OnSwitch, Goto, controls, portal, StartInv, Outside, TypeOK, OffInv, OnInv, Resetting
<1>17. ASSUME NEW v \in VCPU, OffPause(v)
      PROVE  StartInv'
  BY <1>17 DEF OffPause, Goto, controls, portal, StartInv, Outside, TypeOK
<1>18. ASSUME NEW v \in VCPU, OffRecall(v)
      PROVE  StartInv'
  BY <1>18 DEF OffRecall, Goto, controls, portal, StartInv, Outside, TypeOK
<1>19. ASSUME NEW r \in Requestor, Call(r) \/ StoreValue(r) \/ StoreDirty(r)
      PROVE  StartInv'
  BY <1>19
  DEF Call, Ops, StoreValue, Second, StoreDirty, controls, portal, StartInv, Outside, TypeOK
<1>20. ASSUME NEW r \in Requestor, StorePaused(r)
      PROVE  StartInv'
  BY <1>20 DEF StorePaused, Second, controls, portal, StartInv, Outside, TypeOK, Requestor
<1>21. ASSUME NEW r \in Requestor, Notify(r)
      PROVE  StartInv'
  <2>1. \A w \in VCPU : recalled[w] => recalled'[w]
    BY <1>21 DEF Notify, TypeOK
  <2>2. UNCHANGED <<paused, parameters, reset, pc, fresh, booted, overlapped>>
    BY <1>21 DEF Notify, portal
  <2> QED BY <2>1, <2>2 DEF StartInv, Outside
<1>22. CASE UNCHANGED vars
  BY <1>22 DEF vars, controls, portal, StartInv, Outside
<1> QED BY <1>1, <1>2, <1>3, <1>4, <1>5, <1>6, <1>7, <1>8, <1>9, <1>10, <1>11, <1>12, <1>13,
      <1>14, <1>15, <1>16, <1>17, <1>18, <1>19, <1>20, <1>21, <1>22
   DEF Next, VcpuStep, ClientStep

LEMMA Initial == Init => IInv
<1> SUFFICES ASSUME Init PROVE IInv
  OBVIOUS
<1>2. TypeOK
  <2>1. Idle \in Client /\ Idle.op = "feature"
    BY DEF Idle, Client
  <2>2. client \in [Requestor -> Client] /\ client["VMM"].op = "feature"
    BY <2>1 DEF Init, Requestor
  <2>3. paused \in [VCPU -> SUBSET Requestor]
    BY DEF Init, Requestor
  <2>4. parameters \in [VCPU -> Nat] /\ booted \in [VCPU -> Nat] /\ calls \in Nat \ {0}
    BY DEF Init
  <2>5. reset \in [VCPU -> [requested : BOOLEAN, dirty : BOOLEAN]]
    BY DEF Init
  <2>6. feature \in [VCPU -> [requests : [Requestor -> SUBSET Bits], dirty : BOOLEAN]]
    BY DEF Init
  <2>7. pc \in [VCPU -> Label] /\ target \in [VCPU -> VCPU]
    BY DEF Init, Label
  <2>8. /\ signaled \in [VCPU -> BOOLEAN] /\ recalled \in [VCPU -> BOOLEAN]
        /\ fresh \in [VCPU -> BOOLEAN] /\ overlapped \in [VCPU -> BOOLEAN]
        /\ seen \in [VCPU -> SUBSET Bits] /\ config \in [VCPU -> SUBSET Bits]
    BY DEF Init
  <2> QED BY <2>2, <2>3, <2>4, <2>5, <2>6, <2>7, <2>8 DEF TypeOK
<1>3. ConfigInv
  <2>1. ASSUME NEW v \in VCPU PROVE Requested(v) = {}
    BY RequestedByTwo DEF Init, Requested, Enabled, Requestor
  <2> QED BY <2>1 DEF Init, ConfigInv
<1>4. OffInv
  BY DEF Init, OffInv, Outside
<1>5. OnInv
  BY DEF Init, OnInv, Resetting
<1>6. StartInv
  BY DEF Init, StartInv
<1> QED BY <1>2, <1>3, <1>4, <1>5, <1>6 DEF IInv

-----------------------------------------------------------------------------
(* The inductive invariant holds in every reachable state. *)
THEOREM Invariance == Spec => []IInv
<1>1. IInv /\ [Next]_vars => IInv'
  BY TypeStep, ConfigStep, OffStep, OnStep, StartStep DEF IInv
<1> QED BY Initial, <1>1, PTL DEF Spec

(* Whatever the order of the requests of the VMM and the VMI and of the
   loads of CpuFeature::read: a VCPU runs with what is requested of it, or
   the dirty bit will have it read again. *)
THEOREM NoReconfigurationMissed == Spec => []NothingMissed
<1>1. IInv => NothingMissed
  BY DEF IInv, ConfigInv, NothingMissed, Announced
<1> QED BY Invariance, <1>1, PTL

(* Of start_cpu, reset_cpu and the exit handler: if no CPU_ON of a VCPU
   overlaps another, it runs only with the parameters of the last. *)
THEOREM StartsOnlyFromReset == Spec => []StartsFromReset
<1>1. IInv => StartsFromReset
  <2> SUFFICES ASSUME IInv, NEW v \in VCPU, pc[v] = "guest", ~overlapped[v]
               PROVE  booted[v] # 0 /\ booted[v] = parameters[v]
    BY DEF StartsFromReset
  <2>1. ~Outside(v)
    BY DEF Outside
  <2>2. "VMM" \notin paused[v]
    BY <2>1 DEF IInv, OffInv
  <2> QED BY <2>1, <2>2 DEF IInv, StartInv
<1> QED BY Invariance, <1>1, PTL
=============================================================================
