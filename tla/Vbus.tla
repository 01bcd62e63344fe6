-------------------------------- MODULE Vbus --------------------------------
(***************************************************************************)
(* The virtual bus: a RangeMap of DeviceEntries behind a readers-writer    *)
(* lock, and a cached pointer to the entry of the last access.  VCPUs look *)
(* devices up and reset them as readers; clients register and unregister   *)
(* devices as writers.                                                     *)
(*                                                                         *)
(* A DeviceEntry is allocated and freed: EntryId are the addresses it can  *)
(* have, heap what is there.                                               *)
(***************************************************************************)
EXTENDS RWLock

CONSTANTS
  EntryId,        \* addresses of DeviceEntries
  Device,         \* the devices, of which
  IrqController,  \* these are of type IRQ_CONTROLLER
  Place,          \* what clients register: a device and its range
  Target,         \* the ranges VCPUs access
  Removal,        \* the ranges clients unregister
  Client,         \* the threads that register and unregister
  NoEntry         \* nullptr

(* Register and access refuse a range that is empty (or wraps). *)
ASSUME VbusAssumption ==
  /\ None \notin EntryId /\ NoEntry \notin Place
  /\ IrqController \subseteq Device
  /\ Client \subseteq Thread
  /\ Place \subseteq [dev : Device, begin : Nat, size : Nat \ {0}]
  /\ Target \cup Removal \subseteq [begin : Nat, size : Nat \ {0}]

VARIABLES
  devices,      \* _devices: the entries in the map
  heap,         \* the DeviceEntry at each address, or NoEntry
  last_access,  \* _last_access
  pc,           \* what each thread does on the bus
  arg,          \* the range it was called with
  entry,        \* its local variable entry, de, rm_dev, or its iterator
  dev,          \* the result of its get_device_at
  reached       \* ghost: the devices its iteration has called

busVars == <<devices, heap, last_access>>
threadVars == <<pc, arg, entry, dev, reached>>
vars == <<lockVars, busVars, threadVars>>

-----------------------------------------------------------------------------
(* Ranges, and the order by which std::set finds its elements *)

End(r) == r.begin + r.size

Intersect(a, b) == b.begin < End(a) /\ a.begin < End(b)

Contains(a, b) == a.begin <= b.begin /\ End(b) <= End(a)

(* Range_compare *)
Before(a, b) == ~Intersect(a, b) /\ End(a) <= b.begin

(* std::set::find: the first element that is not before the key, unless the
   key is before that one. *)
LowerBound(r) ==
  {e \in devices : /\ ~Before(heap[e], r)
                   /\ \A o \in devices : ~Before(heap[o], r) =>
                        heap[e].begin <= heap[o].begin}

Found(r) == {e \in LowerBound(r) : ~Before(r, heap[e])}

lookup(r) == IF Found(r) = {} THEN None ELSE CHOOSE e \in Found(r) : TRUE

(* std::set::insert refuses a key that is equivalent to an element. *)
Free(r) == \A e \in devices : Before(heap[e], r) \/ Before(r, heap[e])

-----------------------------------------------------------------------------
BusInit ==
  /\ devices = {}
  /\ heap = [e \in EntryId |-> NoEntry]
  /\ last_access = None
  /\ pc = [t \in Thread |-> "idle"]
  /\ arg = [t \in Thread |-> None]
  /\ entry = [t \in Thread |-> None]
  /\ dev = [t \in Thread |-> None]
  /\ reached = [t \in Thread |-> {}]

Goto(t, label) == pc' = [pc EXCEPT ![t] = label]

(* A step of thread t at label, which holds the lock as "reader" or "writer". *)
Inside(t, label, mode) == pc[t] = label /\ lpc[t] = mode /\ UNCHANGED lockVars

Call(t, label, range, e) ==
  /\ Goto(t, label)
  /\ arg' = [arg EXCEPT ![t] = range]
  /\ entry' = [entry EXCEPT ![t] = e]
  /\ UNCHANGED <<dev, reached>>

(* A call begins by asking for the lock. *)
Read(t, label, range) == pc[t] = "idle" /\ renter(t) /\ Call(t, label, range, None)
Write(t, label, range, e) == pc[t] = "idle" /\ wenter(t) /\ Call(t, label, range, e)

(* It ends with its locals gone. *)
Return(t) ==
  /\ Goto(t, "idle")
  /\ arg' = [arg EXCEPT ![t] = None]
  /\ entry' = [entry EXCEPT ![t] = None]
  /\ dev' = [dev EXCEPT ![t] = None]
  /\ reached' = [reached EXCEPT ![t] = {}]

(* The read lock is given up before the device is used, or on the way out. *)
Leave(t) ==
  /\ rexit(t)
  /\ \/ pc[t] = "return" /\ Return(t)
     \/ pc[t] = "leave" /\ Goto(t, "device") /\ UNCHANGED <<arg, entry, dev, reached>>
  /\ UNCHANGED busVars

-----------------------------------------------------------------------------
(* access *)

CallAccess(t, r) == Read(t, "access", r) /\ UNCHANGED busVars

(* The entry of the last access if it contains the range, else a lookup. *)
AccessFind(t) ==
  /\ Inside(t, "access", "reader")
  /\ LET cached == last_access # None /\ Contains(heap[last_access], arg[t])
     IN  entry' = [entry EXCEPT ![t] = IF cached THEN last_access ELSE lookup(arg[t])]
  /\ Goto(t, IF entry'[t] = None THEN "return" ELSE "cache")
  /\ UNCHANGED <<busVars, arg, dev, reached>>

AccessCache(t) ==
  /\ Inside(t, "cache", "reader")
  /\ last_access' = entry[t]
  /\ Goto(t, "leave")
  /\ UNCHANGED <<devices, heap, arg, entry, dev, reached>>

(* access_with_dev on entry->device, wherever the entry is by now. *)
AccessDevice(t) ==
  /\ pc[t] = "device" /\ lpc[t] = "out"
  /\ Return(t)
  /\ UNCHANGED <<lockVars, busVars>>

-----------------------------------------------------------------------------
(* register_device and unregister_device *)

CallRegister(t, p, e) ==
  /\ heap[e] = NoEntry
  /\ Write(t, "insert", p, e)
  /\ heap' = [heap EXCEPT ![e] = p]
  /\ UNCHANGED <<devices, last_access>>

(* An entry that is refused is freed once the lock is released. *)
Insert(t) ==
  /\ Inside(t, "insert", "writer")
  /\ devices' = IF Free(arg[t]) THEN devices \cup {entry[t]} ELSE devices
  /\ entry' = [entry EXCEPT ![t] = IF Free(arg[t]) THEN None ELSE @]
  /\ Goto(t, "unlock")
  /\ UNCHANGED <<heap, last_access, arg, dev, reached>>

CallUnregister(t, r) == Write(t, "remove", r, None) /\ UNCHANGED busVars

Remove(t) ==
  /\ Inside(t, "remove", "writer")
  /\ entry' = [entry EXCEPT ![t] = lookup(arg[t])]
  /\ devices' = devices \ {lookup(arg[t])}
  /\ Goto(t, "uncache")
  /\ UNCHANGED <<heap, last_access, arg, dev, reached>>

MutUncache(t) ==
  /\ Inside(t, "uncache", "writer")
  /\ Goto(t, "unlock")
  /\ UNCHANGED <<busVars, arg, entry, dev, reached>>

Uncache(t) ==
  /\ Inside(t, "uncache", "writer")
  /\ last_access' = IF last_access = entry[t] THEN None ELSE last_access
  /\ Goto(t, "unlock")
  /\ UNCHANGED <<devices, heap, arg, entry, dev, reached>>

Unlock(t) ==
  /\ pc[t] = "unlock"
  /\ wexit(t)
  /\ Goto(t, "delete")
  /\ UNCHANGED <<busVars, arg, entry, dev, reached>>

(* delete de, or delete rm_dev; either may be nullptr. *)
Delete(t) ==
  /\ pc[t] = "delete" /\ lpc[t] = "out"
  /\ heap' = [e \in EntryId |-> IF e = entry[t] THEN NoEntry ELSE heap[e]]
  /\ Return(t)
  /\ UNCHANGED <<lockVars, devices, last_access>>

-----------------------------------------------------------------------------
(* reset and shutdown: RangeMap::iter goes through the map in order. *)

CallReset(t) == Read(t, "reset", None) /\ UNCHANGED busVars

CallShutdown(t) == Read(t, "shutdown", None) /\ UNCHANGED busVars

(* reset_device_cb, reset_irq_ctlr_cb and shutdown_device_cb *)
Called(d, pass) ==
  CASE pass = "reset"      -> d \notin IrqController
    [] pass = "reset_irq"  -> d \in IrqController
    [] pass = "shutdown"   -> TRUE

Ahead(t) ==
  {e \in devices : entry[t] = None \/ heap[entry[t]].begin < heap[e].begin}

Iterate(t, pass) ==
  /\ Inside(t, pass, "reader")
  /\ \E e \in Ahead(t) :
       /\ \A o \in Ahead(t) : heap[e].begin <= heap[o].begin
       /\ entry' = [entry EXCEPT ![t] = e]
       /\ reached' = [reached EXCEPT ![t] =
                        IF Called(heap[e].dev, pass) THEN @ \cup {heap[e].dev} ELSE @]
  /\ UNCHANGED <<busVars, pc, arg, dev>>

MutPassEnds(t, pass, next) ==
  /\ Inside(t, pass, "reader")
  /\ Ahead(t) = {}
  /\ Goto(t, next)
  /\ UNCHANGED <<busVars, arg, entry, dev, reached>>

PassEnds(t, pass, next) ==
  /\ Inside(t, pass, "reader")
  /\ Ahead(t) = {}
  /\ entry' = [entry EXCEPT ![t] = None]
  /\ Goto(t, next)
  /\ UNCHANGED <<busVars, arg, dev, reached>>

IterStep(t) ==
  \/ \E pass \in {"reset", "reset_irq", "shutdown"} : Iterate(t, pass)
  \/ PassEnds(t, "reset", "reset_irq")
  \/ PassEnds(t, "reset_irq", "iterated")
  \/ PassEnds(t, "shutdown", "iterated")

IterLeave(t) ==
  /\ pc[t] = "iterated"
  /\ rexit(t)
  /\ Return(t)
  /\ UNCHANGED busVars

-----------------------------------------------------------------------------
(* get_device_at, called from label by code that goes on at next. *)
get_device_at(t, label, leave) ==
  /\ Inside(t, label, "reader")
  /\ LET e == lookup(arg[t])
     IN  dev' = [dev EXCEPT ![t] = IF e = None THEN None ELSE heap[e].dev]
  /\ Goto(t, leave)
  /\ UNCHANGED <<busVars, arg, entry, reached>>

GotDevice(t, leave, next) ==
  /\ pc[t] = leave
  /\ rexit(t)
  /\ Goto(t, next)
  /\ UNCHANGED <<busVars, arg, entry, dev, reached>>

-----------------------------------------------------------------------------
(* The calls of the bus a thread can begin, and the steps inside them. *)
BusCall(t) ==
  \/ \E r \in Target : CallAccess(t, r)
  \/ CallReset(t)
  \/ CallShutdown(t)

ClientCall(t) ==
  \/ \E p \in Place, e \in EntryId : CallRegister(t, p, e)
  \/ \E r \in Removal : CallUnregister(t, r)

BusStep(t) ==
  \/ LockStep(t) /\ UNCHANGED <<busVars, threadVars>>
  \/ AccessFind(t) \/ AccessCache(t) \/ Leave(t) \/ AccessDevice(t)
  \/ Insert(t) \/ Remove(t) \/ Uncache(t) \/ Unlock(t) \/ Delete(t)
  \/ IterStep(t) \/ IterLeave(t)

-----------------------------------------------------------------------------
(* The devices in the map do not overlap. *)
Disjoint ==
  \A a, b \in devices : a # b => ~Intersect(heap[a], heap[b])

(* As long as no writer is inside, the pointer to the last entry is one a
   lookup could have returned: the entry is in the map, no other overlaps
   it, and so a range it contains is found there with the cache or without.
   Bus::deinit, with which the VMM ends, is not an action here: it clears the
   map under the read lock and leaves the pointer. *)
CacheIsRegistered ==
  (\A t \in Thread : ~Writing(t)) /\ last_access # None =>
    /\ last_access \in devices
    /\ \A e \in devices \ {last_access} : ~Intersect(heap[e], heap[last_access])

(* "All devices must have transitioned": when an iteration is through it has
   called every device of the map, and no interrupt controller is reset
   before all the others have been, whoever registers and unregisters in the
   meantime. *)
ResetReachesAll ==
  \A t \in Thread :
    /\ pc[t] = "reset_irq" =>
         {heap[e].dev : e \in devices} \ IrqController \subseteq reached[t]
    /\ pc[t] = "iterated" => {heap[e].dev : e \in devices} \subseteq reached[t]
=============================================================================
