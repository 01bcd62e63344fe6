------------------------------ MODULE SimpleAS ------------------------------
(***************************************************************************)
(* Guest memory (SimpleAS) as the devices use it: a range of guest-        *)
(* physical addresses is looked up on the bus, mapped into the VMM, used,  *)
(* and unmapped.  A MappingGuard looks the device up a second time to      *)
(* unmap; read_bus and write_bus keep the one they found.                  *)
(***************************************************************************)
EXTENDS Vbus

CONSTANTS
  Region,       \* the guest-physical range of each memory device
  HostMapped,   \* memory devices with a view of their own (map_host)
  ReadOnly,     \* those neither guest nor VMM may write
  Reader        \* the threads that use guest memory

Ram == DOMAIN Region

ASSUME SimpleASAssumption ==
  /\ Ram \subseteq Device /\ None \notin Ram /\ None \notin Ram \X Target
  /\ Region \in [Ram -> [begin : Nat, size : Nat \ {0}]]
  /\ HostMapped \subseteq Ram /\ ReadOnly \subseteq Ram
  /\ Reader \subseteq Thread

(* Guest memory is registered at its range. *)
ASSUME GuestMemoryAssumption ==
  \A p \in Place : p.dev \in Ram =>
    p.begin = Region[p.dev].begin /\ p.size = Region[p.dev].size

VARIABLES
  mapping,      \* what each thread has mapped: of which memory, which range
  gone          \* ghost: the threads whose memory has left the bus since

allVars == <<vars, mapping, gone>>

Init == LockInit /\ BusInit /\ mapping = [t \in Thread |-> None] /\ gone = {}

-----------------------------------------------------------------------------
(* is_gpa_valid *)
MutInRegion(d, r) == Intersect(Region[d], r)

InRegion(d, r) == Contains(Region[d], r)

(* get_as_device_at: the device, if it is guest memory. *)
Find(t) == get_device_at(t, "find", "found") /\ UNCHANGED mapping

FindAgain(t) == get_device_at(t, "find_again", "found_again") /\ UNCHANGED mapping

(* MappingGuard::map, read_bus and write_bus: nothing is mapped yet. *)
CallMap(t, r) ==
  /\ Read(t, "find", r)
  /\ mapping' = [mapping EXCEPT ![t] = None]
  /\ UNCHANGED busVars

LeaveFound(t) ==
  /\ GotDevice(t, "found", "map") \/ GotDevice(t, "found_again", "unmap")
  /\ UNCHANGED mapping

Mappable(t, write) ==
  dev[t] \in Ram /\ InRegion(dev[t], arg[t]) /\ ~(write /\ dev[t] \in ReadOnly)

(* demand_map.  A memory with a view of its own (mapped()) gives that, the
   others have the range mapped for them, which may fail. *)
DemandMap(t) ==
  /\ pc[t] = "map" /\ lpc[t] = "out"
  /\ \E write \in BOOLEAN :
       \/ /\ Mappable(t, write)
          /\ mapping' = [mapping EXCEPT ![t] = <<dev[t], arg[t]>>]
          /\ Goto(t, "guard") \/ Goto(t, "copy")
          /\ UNCHANGED <<arg, entry, dev, reached>>
       \/ /\ ~(Mappable(t, write) /\ dev[t] \in HostMapped)
          /\ Return(t)
          /\ UNCHANGED mapping
  /\ UNCHANGED <<lockVars, busVars>>

(* demand_unmap and demand_unmap_clean: nothing to do for a device that has
   a view of its own, or when none was found. *)
demand_unmap(t) ==
  mapping' = [mapping EXCEPT ![t] = IF dev[t] \in Ram \ HostMapped THEN None ELSE @]

(* The end of read and write: the device is the one that was mapped. *)
UnmapCopied(t) ==
  /\ pc[t] = "copy"
  /\ demand_unmap(t)
  /\ Return(t)
  /\ UNCHANGED <<lockVars, busVars>>

(* MappingGuard::unmap finds the device again; if it does not, the error is
   ignored and the mapping stays. *)
CallUnmap(t) ==
  /\ pc[t] = "guard"
  /\ renter(t)
  /\ Goto(t, "find_again")
  /\ dev' = [dev EXCEPT ![t] = None]
  /\ UNCHANGED <<busVars, arg, entry, reached, mapping>>

Unmap(t) ==
  /\ pc[t] = "unmap" /\ lpc[t] = "out"
  /\ demand_unmap(t)
  /\ Return(t)
  /\ UNCHANGED <<lockVars, busVars>>

-----------------------------------------------------------------------------
(* Specification *)

MemoryStep ==
  \/ \E t \in Thread \ Client : BusCall(t) /\ UNCHANGED mapping
  \/ \E t \in Client : ClientCall(t) /\ UNCHANGED mapping
  \/ \E t \in Reader : \E r \in Target : CallMap(t, r)
  \/ \E t \in Thread :
       \/ BusStep(t) /\ UNCHANGED mapping
       \/ Find(t) \/ LeaveFound(t) \/ DemandMap(t) \/ UnmapCopied(t)
       \/ CallUnmap(t) \/ FindAgain(t) \/ Unmap(t)

Registered(d) == \E e \in devices : heap[e].dev = d

Outlives(t) == mapping[t] # None /\ ~Registered(mapping[t][1])

Next ==
  /\ MemoryStep
  /\ gone' = {t \in Thread : Outlives(t)' \/ (t \in gone /\ mapping'[t] # None)}

Spec == Init /\ [][Next]_allVars

-----------------------------------------------------------------------------
(* Properties *)

(* As long as the memory that a thread has mapped stays on the bus, the
   second lookup finds that memory and no other, whatever is registered and
   removed next to it in between, and a thread that has returned has nothing
   mapped, but for the view that a memory has of its own.  If the memory was
   unregistered in the meantime the mapping is left, or another memory is
   asked to unmap it. *)
MappingsReturned ==
  \A t \in Thread \ gone :
    /\ pc[t] = "unmap" => dev[t] = mapping[t][1]
    /\ pc[t] = "idle" => mapping[t] = None \/ mapping[t][1] \in HostMapped
=============================================================================
