---------------------------- MODULE DeviceTheorems ----------------------------
(***************************************************************************)
(* Proofs about the bus and about the virtual UART, a device behind it.    *)
(* Of the readers-writer lock and the bus, for any threads, devices and    *)
(* ranges: exclusion, the cached access, the order of a reset, what is     *)
(* mapped.  Of the UART, for any capacity of its queues: what the          *)
(* operations of SeqQueue do to the contents of a queue, that no character *)
(* for the guest is lost, duplicated or overtaken, and that neither the    *)
(* guest nor the producer misses the other's action.                       *)
(***************************************************************************)
EXTENDS SimpleAS, Pl011, FiniteSetTheorems, SequenceTheorems, TLAPS

-----------------------------------------------------------------------------
(* The readers-writer lock *)

(* The readers the word counts, and the writer whose bit is set. *)
Counted == {t \in Thread : Reading(t)}
Flagged == {t \in Thread : lpc[t] \in {"w_wait", "w_clear", "writer"}}

LockTypeOK ==
  /\ rq \in Thread \cup {None}
  /\ rw \in Nat
  /\ rwlock_signal \in BOOLEAN
  /\ lpc \in [Thread -> LockLabel]

(* Who is in the section of _rq, and that a writer stays in it. *)
RqLabel == {"r_add", "r_exit", "w_or", "w_wait", "w_clear", "writer", "w_exit"}
RqHeld == \A t \in Thread : lpc[t] \in RqLabel <=> rq = t

WordExact == rw = 2 * Cardinality(Counted) + (IF Flagged = {} THEN 0 ELSE 1)

(* The flag is set, or about to be, once: by the last reader, for a writer
   that waits. *)
SignalSound ==
  /\ rwlock_signal =>
       /\ Counted = {}
       /\ \A t \in Thread : lpc[t] # "r_signal"
       /\ \E w \in Thread : lpc[w] \in {"w_wait", "w_clear"}
  /\ \A t \in Thread : lpc[t] = "r_signal" =>
       /\ Counted = {}
       /\ \A u \in Thread : lpc[u] = "r_signal" => u = t
       /\ \E w \in Thread : lpc[w] = "w_wait"

WriterAlone ==
  \A t \in Thread :
    /\ lpc[t] = "w_clear" => rwlock_signal
    /\ lpc[t] \in {"w_clear", "writer"} => Counted = {}

LockInv == LockTypeOK /\ RqHeld /\ WordExact /\ SignalSound /\ WriterAlone

-----------------------------------------------------------------------------
LEMMA CountedFinite == IsFiniteSet(Counted) /\ Cardinality(Counted) \in Nat
BY ThreadAssumption, FS_Subset, FS_CardinalityType DEF Counted

LEMMA LockInitial == LockInit => LockInv
<1> SUFFICES ASSUME LockInit PROVE LockInv
  OBVIOUS
<1>1. Counted = {} /\ Flagged = {}
  BY DEF LockInit, Counted, Flagged, Reading
<1>2. WordExact
  BY <1>1, FS_EmptySet DEF WordExact, LockInit
<1>3. LockTypeOK /\ RqHeld /\ SignalSound /\ WriterAlone
  BY <1>1, ThreadAssumption
  DEF LockInit, LockTypeOK, RqHeld, RqLabel, SignalSound, WriterAlone, LockLabel
<1> QED
  BY <1>2, <1>3 DEF LockInv

(* A step that changes neither the readers nor the writer's bit, nor the
   word, keeps what the word says. *)
LEMMA WordKept ==
  ASSUME WordExact, rw' = rw, Counted' = Counted, (Flagged = {}) <=> (Flagged' = {})
  PROVE  WordExact'
BY DEF WordExact

LEMMA EnterKeeps ==
  ASSUME LockInv, NEW t \in Thread, NEW label \in {"r_add", "w_or"}, EnterRq(t, label)
  PROVE  LockInv'
<1>1. Counted' = Counted /\ Flagged' = Flagged
  BY DEF LockInv, LockTypeOK, EnterRq, LockGoto, Counted, Flagged, Reading
<1>2. WordExact'
  BY <1>1, WordKept DEF LockInv, EnterRq
<1>3. LockTypeOK' /\ RqHeld'
  BY ThreadAssumption DEF LockInv, LockTypeOK, EnterRq, LockGoto, RqHeld, RqLabel, LockLabel
<1>4. SignalSound' /\ WriterAlone'
  BY <1>1 DEF LockInv, LockTypeOK, EnterRq, LockGoto, SignalSound, WriterAlone
<1> QED
  BY <1>2, <1>3, <1>4 DEF LockInv

LEMMA ReaderAddKeeps ==
  ASSUME LockInv, NEW t \in Thread, ReaderAdd(t)
  PROVE  LockInv'
<1>1. Counted' = Counted \cup {t} /\ t \notin Counted
  BY DEF LockInv, LockTypeOK, ReaderAdd, LockGoto, Counted, Reading
<1>2. Flagged = {} /\ Flagged' = {}
  BY DEF LockInv, LockTypeOK, RqHeld, RqLabel, ReaderAdd, LockGoto, Flagged
<1>3. Cardinality(Counted') = Cardinality(Counted) + 1
  BY <1>1, CountedFinite, FS_AddElement
<1>4. WordExact'
  BY <1>2, <1>3, CountedFinite DEF LockInv, WordExact, ReaderAdd
<1>5. LockTypeOK' /\ RqHeld'
  BY DEF LockInv, LockTypeOK, ReaderAdd, LockGoto, RqHeld, RqLabel, LockLabel
<1>6. \A w \in Thread : lpc[w] \notin {"w_wait", "w_clear", "writer"}
  BY <1>2 DEF Flagged
<1>7. SignalSound' /\ WriterAlone'
  BY <1>6 DEF LockInv, LockTypeOK, ReaderAdd, LockGoto, SignalSound, WriterAlone
<1> QED
  BY <1>4, <1>5, <1>7 DEF LockInv

LEMMA ReaderExitRqKeeps ==
  ASSUME LockInv, NEW t \in Thread, ReaderExitRq(t)
  PROVE  LockInv'
<1>1. Counted' = Counted /\ Flagged' = Flagged
  BY DEF LockInv, LockTypeOK, ReaderExitRq, ExitRq, LockGoto, Counted, Flagged, Reading
<1>2. WordExact'
  BY <1>1, WordKept DEF LockInv, ReaderExitRq, ExitRq
<1>3. LockTypeOK' /\ RqHeld'
  BY ThreadAssumption
  DEF LockInv, LockTypeOK, ReaderExitRq, ExitRq, LockGoto, RqHeld, RqLabel, LockLabel
<1>4. SignalSound' /\ WriterAlone'
  BY <1>1 DEF LockInv, LockTypeOK, ReaderExitRq, ExitRq, LockGoto, SignalSound, WriterAlone
<1> QED
  BY <1>2, <1>3, <1>4 DEF LockInv

LEMMA RexitKeeps ==
  ASSUME LockInv, NEW t \in Thread, rexit(t)
  PROVE  LockInv'
<1>1. Counted' = Counted \ {t} /\ t \in Counted
  BY DEF LockInv, LockTypeOK, rexit, LockGoto, Counted, Reading
<1>2. Flagged' = Flagged
  BY DEF LockInv, LockTypeOK, rexit, LockGoto, Flagged
<1>3. /\ Cardinality(Counted') = Cardinality(Counted) - 1
      /\ Cardinality(Counted') \in Nat
  <2>1. Cardinality(Counted') = Cardinality(Counted) - 1
    BY <1>1, CountedFinite, FS_RemoveElement
  <2>2. IsFiniteSet(Counted')
    BY <1>1, CountedFinite, FS_Subset
  <2> QED
    BY <2>1, <2>2, FS_CardinalityType
<1>4. WordExact' /\ rw' \in Nat
  BY <1>2, <1>3, CountedFinite DEF LockInv, WordExact, rexit
<1>5. LockTypeOK'
  BY <1>4 DEF LockInv, LockTypeOK, rexit, LockGoto, LockLabel
<1>6. RqHeld'
  BY DEF LockInv, LockTypeOK, rexit, LockGoto, RqHeld, RqLabel
<1>7. /\ ~rwlock_signal
      /\ \A u \in Thread : lpc[u] \notin {"r_signal", "w_clear", "writer"}
  BY <1>1 DEF LockInv, SignalSound, WriterAlone
<1>8. WriterAlone'
  BY <1>7 DEF LockInv, LockTypeOK, rexit, LockGoto, WriterAlone
<1>9. CASE rw' = 1
  <2>1. Cardinality(Counted') = 0 /\ Flagged # {}
    <3> DEFINE c == Cardinality(Counted')
    <3>1. 1 = 2 * c + (IF Flagged = {} THEN 0 ELSE 1)
      BY <1>2, <1>4, <1>9 DEF WordExact
    <3>2. c \in Nat
      BY <1>3
    <3> HIDE DEF c
    <3>3. c = 0 /\ Flagged # {}
      BY <3>1, <3>2
    <3> QED
      BY <3>3 DEF c
  <2>2. Counted' = {}
    <3>1. IsFiniteSet(Counted')
      BY <1>1, CountedFinite, FS_Subset
    <3> QED
      BY <2>1, <3>1, FS_EmptySet
  <2>3. PICK w \in Thread : lpc[w] = "w_wait"
    BY <2>1, <1>7 DEF Flagged
  <2>4. lpc'[w] = "w_wait" /\ lpc' = [lpc EXCEPT ![t] = "r_signal"]
    BY <1>9, <2>3 DEF LockInv, LockTypeOK, rexit, LockGoto
  <2>5. SignalSound'
    BY <1>7, <2>2, <2>4 DEF LockInv, LockTypeOK, rexit, SignalSound
  <2> QED
    BY <1>4, <1>5, <1>6, <1>8, <2>5 DEF LockInv
<1>10. CASE rw' # 1
  <2>1. SignalSound'
    BY <1>7, <1>10 DEF LockInv, LockTypeOK, rexit, LockGoto, SignalSound
  <2> QED
    BY <1>4, <1>5, <1>6, <1>8, <2>1 DEF LockInv
<1> QED
  BY <1>9, <1>10

LEMMA ReaderSignalKeeps ==
  ASSUME LockInv, NEW t \in Thread, ReaderSignal(t)
  PROVE  LockInv'
<1>1. Counted' = Counted /\ Flagged' = Flagged
  BY DEF LockInv, LockTypeOK, ReaderSignal, LockGoto, Counted, Flagged, Reading
<1>2. WordExact'
  BY <1>1, WordKept DEF LockInv, ReaderSignal
<1>3. LockTypeOK' /\ RqHeld'
  BY DEF LockInv, LockTypeOK, ReaderSignal, LockGoto, RqHeld, RqLabel, LockLabel
<1>4. WriterAlone'
  BY <1>1 DEF LockInv, LockTypeOK, ReaderSignal, LockGoto, WriterAlone
<1>5. SignalSound'
  <2>1. PICK w \in Thread : lpc[w] = "w_wait"
    BY DEF LockInv, ReaderSignal, SignalSound
  <2>2. lpc'[w] = "w_wait"
    BY <2>1 DEF LockInv, LockTypeOK, ReaderSignal, LockGoto
  <2>3. \A u \in Thread : lpc'[u] # "r_signal"
    BY DEF LockInv, LockTypeOK, ReaderSignal, LockGoto, SignalSound
  <2>4. Counted' = {}
    BY <1>1 DEF LockInv, ReaderSignal, SignalSound
  <2> QED
    BY <2>2, <2>3, <2>4 DEF SignalSound
<1> QED
  BY <1>2, <1>3, <1>4, <1>5 DEF LockInv

LEMMA WriterOrKeeps ==
  ASSUME LockInv, NEW t \in Thread, WriterOr(t)
  PROVE  LockInv'
<1>1. Counted' = Counted
  BY DEF LockInv, LockTypeOK, WriterOr, LockGoto, Counted, Reading
<1>2. Flagged = {} /\ Flagged' = {t}
  BY DEF LockInv, LockTypeOK, RqHeld, RqLabel, WriterOr, LockGoto, Flagged
<1>3. rw = 2 * Cardinality(Counted)
  <2> DEFINE c == Cardinality(Counted)
  <2>1. rw = 2 * c + 0
    BY <1>2 DEF LockInv, WordExact
  <2>2. c \in Nat
    BY CountedFinite
  <2> HIDE DEF c
  <2>3. rw = 2 * c
    BY <2>1, <2>2
  <2> QED
    BY <2>3 DEF c
<1>4. rw' = rw + 1
  <2> DEFINE c == Cardinality(Counted)
  <2>1. rw = 2 * c /\ c \in Nat
    BY <1>3, CountedFinite
  <2> HIDE DEF c
  <2>2. rw % 2 = 0
    BY <2>1
  <2> QED
    BY <2>2 DEF WriterOr, SetWriterBit
<1>5. WordExact'
  BY <1>1, <1>2, <1>3, <1>4 DEF WordExact
<1>6. LockTypeOK' /\ RqHeld'
  BY <1>4 DEF LockInv, LockTypeOK, WriterOr, LockGoto, RqHeld, RqLabel, LockLabel
<1>7. \A w \in Thread : lpc[w] \notin {"w_wait", "w_clear", "writer"}
  BY <1>2 DEF Flagged
<1>8. SignalSound'
  BY <1>7 DEF LockInv, LockTypeOK, WriterOr, LockGoto, SignalSound
<1>9. WriterAlone'
  <2>1. CASE lpc'[t] = "writer"
    <3>1. Cardinality(Counted) = 0
      <4> DEFINE c == Cardinality(Counted)
      <4>1. rw = 2 * c /\ c \in Nat /\ ~(rw + 1 > 1)
        BY <1>3, <1>4, <2>1, CountedFinite DEF LockInv, LockTypeOK, WriterOr, LockGoto
      <4> HIDE DEF c
      <4>2. c = 0
        BY <4>1
      <4> QED
        BY <4>2 DEF c
    <3>2. Counted' = {}
      BY <1>1, <3>1, CountedFinite, FS_EmptySet
    <3> QED
      BY <1>7, <2>1, <3>2 DEF LockInv, LockTypeOK, WriterOr, LockGoto, WriterAlone
  <2>2. CASE lpc'[t] # "writer"
    BY <1>7, <2>2 DEF LockInv, LockTypeOK, WriterOr, LockGoto, WriterAlone
  <2> QED
    BY <2>1, <2>2
<1> QED
  BY <1>5, <1>6, <1>8, <1>9 DEF LockInv

LEMMA WriterWaitKeeps ==
  ASSUME LockInv, NEW t \in Thread, WriterWait(t)
  PROVE  LockInv'
<1>1. Counted' = Counted
  BY DEF LockInv, LockTypeOK, WriterWait, LockGoto, Counted, Reading
<1>2. t \in Flagged /\ t \in Flagged'
  BY DEF LockInv, LockTypeOK, WriterWait, LockGoto, Flagged
<1>3. WordExact'
  BY <1>1, <1>2, WordKept DEF LockInv, WriterWait
<1>4. LockTypeOK' /\ RqHeld'
  BY DEF LockInv, LockTypeOK, WriterWait, LockGoto, RqHeld, RqLabel, LockLabel
<1>5. lpc'[t] = "w_clear"
  BY DEF LockInv, LockTypeOK, WriterWait, LockGoto
<1>6. SignalSound' /\ WriterAlone'
  BY <1>1, <1>5 DEF LockInv, LockTypeOK, WriterWait, LockGoto, SignalSound, WriterAlone
<1> QED
  BY <1>3, <1>4, <1>6 DEF LockInv

LEMMA WriterClearKeeps ==
  ASSUME LockInv, NEW t \in Thread, WriterClear(t)
  PROVE  LockInv'
<1>1. Counted' = Counted
  BY DEF LockInv, LockTypeOK, WriterClear, LockGoto, Counted, Reading
<1>2. t \in Flagged /\ t \in Flagged'
  BY DEF LockInv, LockTypeOK, WriterClear, LockGoto, Flagged
<1>3. WordExact'
  BY <1>1, <1>2, WordKept DEF LockInv, WriterClear
<1>4. LockTypeOK' /\ RqHeld'
  BY DEF LockInv, LockTypeOK, WriterClear, LockGoto, RqHeld, RqLabel, LockLabel
<1>5. rwlock_signal /\ Counted = {}
  BY DEF LockInv, WriterClear, WriterAlone
<1>6. \A u \in Thread : lpc'[u] # "r_signal" /\ (lpc'[u] = "w_clear" => u = t)
  BY <1>5 DEF LockInv, LockTypeOK, WriterClear, LockGoto, SignalSound, RqHeld, RqLabel
<1>7. lpc'[t] = "writer" /\ ~rwlock_signal'
  BY DEF LockInv, LockTypeOK, WriterClear, LockGoto
<1>8. SignalSound' /\ WriterAlone'
  BY <1>1, <1>5, <1>6, <1>7 DEF SignalSound, WriterAlone
<1> QED
  BY <1>3, <1>4, <1>8 DEF LockInv

(* What a writer inside knows. *)
LEMMA InsideAlone ==
  ASSUME LockInv, NEW t \in Thread, lpc[t] \in {"writer", "w_exit"}
  PROVE  /\ \A u \in Thread : u # t => lpc[u] \in {"out", "reader", "r_signal"}
         /\ ~rwlock_signal
         /\ \A u \in Thread : lpc[u] # "r_signal"
<1>1. \A u \in Thread : u # t => lpc[u] \in {"out", "reader", "r_signal"}
  BY DEF LockInv, LockTypeOK, RqHeld, RqLabel, LockLabel
<1>2. \A w \in Thread : lpc[w] \notin {"w_wait", "w_clear"}
  BY <1>1
<1> QED
  BY <1>1, <1>2 DEF LockInv, LockTypeOK, SignalSound

LEMMA WexitKeeps ==
  ASSUME LockInv, NEW t \in Thread, wexit(t)
  PROVE  LockInv'
<1>1. Counted = {} /\ Counted' = {}
  BY DEF LockInv, LockTypeOK, WriterAlone, wexit, LockGoto, Counted, Reading
<1>2. Flagged' = {}
  BY InsideAlone DEF LockInv, LockTypeOK, wexit, LockGoto, Flagged
<1>3. WordExact'
  BY <1>1, <1>2, FS_EmptySet DEF WordExact, wexit
<1>4. LockTypeOK' /\ RqHeld'
  BY DEF LockInv, LockTypeOK, wexit, LockGoto, RqHeld, RqLabel, LockLabel
<1>5. SignalSound' /\ WriterAlone'
  BY <1>1, InsideAlone DEF LockInv, LockTypeOK, wexit, LockGoto, SignalSound, WriterAlone
<1> QED
  BY <1>3, <1>4, <1>5 DEF LockInv

LEMMA WriterExitRqKeeps ==
  ASSUME LockInv, NEW t \in Thread, WriterExitRq(t)
  PROVE  LockInv'
<1>1. Counted' = Counted /\ Flagged' = Flagged
  BY DEF LockInv, LockTypeOK, WriterExitRq, ExitRq, LockGoto, Counted, Flagged, Reading
<1>2. WordExact'
  BY <1>1, WordKept DEF LockInv, WriterExitRq, ExitRq
<1>3. LockTypeOK' /\ RqHeld'
  BY ThreadAssumption
  DEF LockInv, LockTypeOK, WriterExitRq, ExitRq, LockGoto, RqHeld, RqLabel, LockLabel
<1>4. SignalSound' /\ WriterAlone'
  BY <1>1, InsideAlone
  DEF LockInv, LockTypeOK, WriterExitRq, ExitRq, LockGoto, SignalSound, WriterAlone
<1> QED
  BY <1>2, <1>3, <1>4 DEF LockInv

LEMMA LockKeeps ==
  ASSUME LockInv, [LockNext]_lockVars
  PROVE  LockInv'
<1>1. CASE LockNext
  <2>1. PICK t \in Thread :
          renter(t) \/ rexit(t) \/ wenter(t) \/ wexit(t) \/ LockStep(t)
    BY <1>1 DEF LockNext
  <2> QED
    BY <2>1, EnterKeeps, RexitKeeps, WexitKeeps, ReaderAddKeeps, ReaderExitRqKeeps,
       ReaderSignalKeeps, WriterOrKeeps, WriterWaitKeeps, WriterClearKeeps,
       WriterExitRqKeeps DEF renter, wenter, LockStep
<1>2. CASE UNCHANGED lockVars
  <2>1. Counted' = Counted /\ Flagged' = Flagged
    BY <1>2 DEF lockVars, Counted, Flagged, Reading
  <2> QED
    BY <1>2, <2>1 DEF lockVars, LockInv, LockTypeOK, RqHeld, WordExact, SignalSound, WriterAlone
<1> QED
  BY <1>1, <1>2

LEMMA LockExclusion == LockInv => Exclusion
<1> SUFFICES ASSUME LockInv, NEW t \in Thread, NEW u \in Thread, Writing(t), t # u
             PROVE  ~Reading(u) /\ ~Writing(u)
  BY DEF Exclusion
<1>1. Counted = {}
  BY DEF LockInv, WriterAlone, Writing
<1> QED
  BY <1>1, InsideAlone DEF Counted, Writing, Reading

-----------------------------------------------------------------------------
(* Every step of the system is a step of the lock or leaves it alone. *)
LEMMA StepsOfTheLock == [Next]_allVars => [LockNext]_lockVars
<1> SUFFICES ASSUME Next PROVE [LockNext]_lockVars
  BY DEF allVars, vars, lockVars
<1>1. ASSUME NEW t \in Thread, BusCall(t) \/ ClientCall(t)
      PROVE  LockNext
  BY <1>1 DEF BusCall, ClientCall, CallAccess, CallReset, CallShutdown, CallRegister,
              CallUnregister, Read, Write, LockNext
<1>2. ASSUME NEW t \in Thread, BusStep(t)
      PROVE  [LockNext]_lockVars
  BY <1>2 DEF BusStep, AccessFind, AccessCache, Leave, AccessDevice, Insert, Remove, Uncache,
              Unlock, Delete, IterStep, Iterate, PassEnds, IterLeave, Inside, LockNext
<1>3. ASSUME NEW t \in Thread,
             \/ \E r \in Target : CallMap(t, r)
             \/ Find(t) \/ LeaveFound(t) \/ DemandMap(t) \/ UnmapCopied(t)
             \/ CallUnmap(t) \/ FindAgain(t) \/ Unmap(t)
      PROVE  [LockNext]_lockVars
  BY <1>3 DEF CallMap, Read, Find, FindAgain, get_device_at, LeaveFound, GotDevice, DemandMap,
              UnmapCopied, CallUnmap, Unmap, Inside, LockNext
<1> QED
  BY <1>1, <1>2, <1>3, VbusAssumption, SimpleASAssumption DEF Next, MemoryStep

(* A writer on the bus is alone: Vbus::Bus may change its map and its cached
   pointer without a thought for the threads that look devices up. *)
THEOREM ReadersWriterLock == Spec => []Exclusion
<1>1. Init => LockInv
  BY LockInitial DEF Init
<1>2. LockInv /\ [Next]_allVars => LockInv'
  BY StepsOfTheLock, LockKeeps
<1> QED
  BY <1>1, <1>2, LockExclusion, PTL DEF Spec

-----------------------------------------------------------------------------
(* The bus.  An entry is in the map, or belongs to one thread that has
   allocated or removed it, or is free. *)

BusLabel ==
  {"idle", "access", "cache", "leave", "return", "device", "insert", "remove",
   "uncache", "unlock", "delete", "reset", "reset_irq", "shutdown", "iterated",
   "find", "found", "map", "copy", "guard", "find_again", "found_again", "unmap"}

OwnerLabel == {"insert", "uncache", "unlock", "delete"}

BusTypeOK ==
  /\ devices \subseteq EntryId
  /\ heap \in [EntryId -> Place \cup {NoEntry}]
  /\ \A e \in devices : heap[e] # NoEntry
  /\ pc \in [Thread -> BusLabel]
  /\ arg \in [Thread -> Place \cup Target \cup Removal \cup {None}]
  /\ entry \in [Thread -> EntryId \cup {None}]

Owns(t) == pc[t] \in OwnerLabel /\ entry[t] # None

EntriesOwned ==
  /\ \A t \in Thread : Owns(t) => entry[t] \notin devices /\ heap[entry[t]] # NoEntry
  /\ \A t, u \in Thread : Owns(t) /\ Owns(u) /\ t # u => entry[t] # entry[u]
  /\ \A t \in Thread : pc[t] = "insert" => entry[t] # None /\ heap[entry[t]] = arg[t]

CacheSound ==
  /\ \A t \in Thread : pc[t] = "cache" => lpc[t] = "reader" /\ entry[t] \in devices
  /\ \A t \in Thread : pc[t] \in {"uncache", "unlock"} => lpc[t] = "writer"
  /\ \/ last_access = None
     \/ last_access \in devices
     \/ \E t \in Thread : pc[t] = "uncache" /\ entry[t] = last_access

BusInv == BusTypeOK /\ EntriesOwned /\ CacheSound /\ Disjoint

LEMMA LookupInMap == ASSUME NEW r PROVE lookup(r) \in devices \cup {None}
BY DEF lookup, Found, LowerBound

LEMMA BusInitial == BusInit => BusInv
BY VbusAssumption
DEF BusInit, BusInv, BusTypeOK, BusLabel, EntriesOwned, Owns, OwnerLabel, CacheSound, Disjoint

(* Steps by which a thread that holds nothing goes on holding nothing. *)
Quiet == BusLabel \ {"cache", "insert", "uncache", "unlock", "delete"}

QuietStep(t) ==
  /\ UNCHANGED busVars
  /\ pc[t] \in Quiet \cup {"cache"}
  /\ pc' \in [Thread -> BusLabel] /\ pc'[t] \in Quiet
  /\ arg' \in [Thread -> Place \cup Target \cup Removal \cup {None}]
  /\ entry' \in [Thread -> EntryId \cup {None}]
  /\ \A u \in Thread : u # t =>
       pc'[u] = pc[u] /\ lpc'[u] = lpc[u] /\ entry'[u] = entry[u] /\ arg'[u] = arg[u]

LEMMA QuietKeeps ==
  ASSUME BusInv, NEW t \in Thread, QuietStep(t)
  PROVE  BusInv'
<1>1. BusTypeOK'
  BY DEF BusInv, BusTypeOK, QuietStep, busVars
<1>2. \A u \in Thread : Owns(u)' => u # t /\ Owns(u) /\ entry'[u] = entry[u]
  BY DEF QuietStep, Quiet, Owns, OwnerLabel
<1>3. \A u \in Thread : pc'[u] \in {"insert", "cache", "uncache", "unlock"} => u # t
  BY DEF QuietStep, Quiet
<1>4. EntriesOwned'
  BY <1>2, <1>3 DEF BusInv, EntriesOwned, QuietStep, busVars
<1>5. CacheSound'
  <2>1. \A u \in Thread : pc[u] = "uncache" => u # t
    BY DEF QuietStep, Quiet
  <2> QED
    BY <1>3, <2>1 DEF BusInv, CacheSound, QuietStep, busVars
<1>6. Disjoint'
  BY DEF BusInv, Disjoint, QuietStep, busVars, Intersect, End
<1> QED
  BY <1>1, <1>4, <1>5, <1>6 DEF BusInv

LEMMA ReadQuiet ==
  ASSUME LockInv, BusInv, NEW t \in Thread, NEW label \in Quiet,
         NEW r \in Target \cup {None}, Read(t, label, r), UNCHANGED busVars
  PROVE  QuietStep(t)
BY DEF LockInv, LockTypeOK, BusInv, BusTypeOK, Read, renter, EnterRq, LockGoto, Call, Goto,
       QuietStep, Quiet, BusLabel

LEMMA ReturnQuiet ==
  ASSUME BusInv, NEW t \in Thread, pc[t] \in Quiet, Return(t), UNCHANGED busVars,
         \A u \in Thread : u # t => lpc'[u] = lpc[u]
  PROVE  QuietStep(t)
BY DEF BusInv, BusTypeOK, Return, Goto, QuietStep, Quiet, BusLabel

LEMMA GotoQuiet ==
  ASSUME BusInv, NEW t \in Thread, NEW label \in Quiet, pc[t] \in Quiet, Goto(t, label),
         UNCHANGED <<busVars, arg, entry>>,
         \A u \in Thread : u # t => lpc'[u] = lpc[u]
  PROVE  QuietStep(t)
BY DEF BusInv, BusTypeOK, Goto, QuietStep, Quiet, BusLabel

(* A step of the lock moves no thread that is inside. *)
LEMMA LockStepKeeps ==
  ASSUME LockInv, BusInv, NEW t \in Thread, LockStep(t), UNCHANGED <<busVars, threadVars>>
  PROVE  BusInv'
<1>1. \A u \in Thread : lpc[u] \in {"reader", "writer"} => lpc'[u] = lpc[u]
  BY DEF LockInv, LockTypeOK, LockStep, ReaderAdd, ReaderExitRq, ReaderSignal, WriterOr,
         WriterWait, WriterClear, WriterExitRq, ExitRq, LockGoto
<1>2. BusTypeOK' /\ Disjoint'
  BY DEF BusInv, BusTypeOK, Disjoint, busVars, threadVars, Intersect, End
<1>3. EntriesOwned'
  BY DEF BusInv, EntriesOwned, Owns, busVars, threadVars
<1>4. CacheSound'
  BY <1>1 DEF BusInv, CacheSound, busVars, threadVars
<1> QED
  BY <1>2, <1>3, <1>4 DEF BusInv

(* While a thread reads no entry leaves the map; while one writes none is
   looked at. *)
LEMMA NoWriterWhileReading ==
  ASSUME LockInv, BusInv, NEW t \in Thread, lpc[t] = "reader"
  PROVE  /\ \A u \in Thread : pc[u] \notin {"uncache", "unlock"}
         /\ last_access = None \/ last_access \in devices
<1>1. \A u \in Thread : lpc[u] # "writer"
  BY LockExclusion DEF Exclusion, Writing, Reading
<1> QED
  BY <1>1 DEF BusInv, CacheSound

LEMMA NoReaderWhileWriting ==
  ASSUME LockInv, BusInv, NEW t \in Thread, lpc[t] = "writer"
  PROVE  /\ \A u \in Thread : pc[u] # "cache"
         /\ \A u \in Thread : pc[u] \in {"uncache", "unlock"} => u = t
BY LockExclusion DEF Exclusion, Writing, Reading, BusInv, CacheSound

LEMMA AccessFindKeeps ==
  ASSUME LockInv, BusInv, NEW t \in Thread, AccessFind(t)
  PROVE  BusInv'
<1>1. entry'[t] \in devices \cup {None}
  BY NoWriterWhileReading, LookupInMap DEF BusInv, BusTypeOK, AccessFind, Inside
<1>2. entry' = [entry EXCEPT ![t] = entry'[t]] /\ pc' = [pc EXCEPT ![t] = pc'[t]]
  BY DEF BusInv, BusTypeOK, AccessFind, Goto
<1>3. pc'[t] = IF entry'[t] = None THEN "return" ELSE "cache"
  BY DEF BusInv, BusTypeOK, AccessFind, Goto
<1>4. BusTypeOK'
  BY <1>1, <1>2, <1>3 DEF BusInv, BusTypeOK, BusLabel, AccessFind, busVars
<1>5. \A u \in Thread : pc'[u] \in OwnerLabel => u # t /\ pc[u] = pc'[u] /\ entry'[u] = entry[u]
  BY <1>2, <1>3 DEF OwnerLabel, BusInv, BusTypeOK
<1>6. EntriesOwned'
  BY <1>5 DEF BusInv, EntriesOwned, Owns, OwnerLabel, AccessFind, busVars
<1>7. lpc[t] = "reader" /\ lpc' = lpc
  BY DEF AccessFind, Inside, lockVars
<1>8. CacheSound'
  <2>1. \A u \in Thread : pc'[u] = "cache" => lpc'[u] = "reader" /\ entry'[u] \in devices'
    BY <1>1, <1>2, <1>3, <1>7 DEF BusInv, BusTypeOK, CacheSound, AccessFind, busVars
  <2>2. \A u \in Thread : pc'[u] \in {"uncache", "unlock"} => lpc'[u] = "writer"
    BY <1>2, <1>3, <1>7 DEF BusInv, BusTypeOK, CacheSound
  <2>3. last_access' = None \/ last_access' \in devices'
    BY <1>7, NoWriterWhileReading DEF AccessFind, busVars
  <2> QED
    BY <2>1, <2>2, <2>3 DEF CacheSound
<1>9. Disjoint'
  BY DEF BusInv, Disjoint, AccessFind, busVars, Intersect, End
<1> QED
  BY <1>4, <1>6, <1>8, <1>9 DEF BusInv

LEMMA AccessCacheKeeps ==
  ASSUME LockInv, BusInv, NEW t \in Thread, AccessCache(t)
  PROVE  BusInv'
<1>1. last_access' \in devices'
  BY DEF BusInv, CacheSound, AccessCache, Inside
<1>2. BusTypeOK'
  BY DEF BusInv, BusTypeOK, BusLabel, AccessCache, Goto
<1>3. \A u \in Thread : pc'[u] # "leave" => u # t /\ pc[u] = pc'[u]
  BY DEF BusInv, BusTypeOK, AccessCache, Goto
<1>4. EntriesOwned'
  BY <1>3 DEF BusInv, EntriesOwned, Owns, OwnerLabel, AccessCache
<1>5. CacheSound'
  BY <1>1, <1>3 DEF BusInv, CacheSound, AccessCache, Inside, lockVars
<1>6. Disjoint'
  BY DEF BusInv, Disjoint, AccessCache, Intersect, End
<1> QED
  BY <1>2, <1>4, <1>5, <1>6 DEF BusInv

LEMMA CallRegisterKeeps ==
  ASSUME LockInv, BusInv, NEW t \in Thread, NEW p \in Place, NEW e \in EntryId,
         CallRegister(t, p, e)
  PROVE  BusInv'
<1>1. /\ heap[e] = NoEntry /\ heap' = [heap EXCEPT ![e] = p] /\ p # NoEntry
      /\ devices' = devices /\ last_access' = last_access
  BY VbusAssumption DEF CallRegister
<1>2. /\ pc[t] = "idle" /\ pc' = [pc EXCEPT ![t] = "insert"]
      /\ arg' = [arg EXCEPT ![t] = p] /\ entry' = [entry EXCEPT ![t] = e]
  BY DEF CallRegister, Write, Call, Goto
<1>3. e \notin devices /\ e # None
  BY <1>1, VbusAssumption DEF BusInv, BusTypeOK
<1>4. \A u \in Thread : u # t => lpc'[u] = lpc[u]
  BY DEF CallRegister, Write, wenter, EnterRq, LockGoto, LockInv, LockTypeOK
<1>5. BusTypeOK'
  BY <1>1, <1>2 DEF BusInv, BusTypeOK, BusLabel
<1>6. \A u \in Thread : Owns(u)' => u = t \/ (Owns(u) /\ entry'[u] = entry[u] /\ entry[u] # e)
  BY <1>1, <1>2 DEF BusInv, BusTypeOK, EntriesOwned, Owns, OwnerLabel
<1>7. entry'[t] = e /\ heap'[e] = p /\ arg'[t] = p
  BY <1>1, <1>2 DEF BusInv, BusTypeOK
<1>8. EntriesOwned'
  <2>1. \A u \in Thread : Owns(u)' => entry'[u] \notin devices' /\ heap'[entry'[u]] # NoEntry
    BY <1>1, <1>3, <1>6, <1>7 DEF BusInv, BusTypeOK, EntriesOwned, Owns
  <2>2. \A u, v \in Thread : Owns(u)' /\ Owns(v)' /\ u # v => entry'[u] # entry'[v]
    BY <1>6, <1>7 DEF BusInv, EntriesOwned
  <2>3. \A u \in Thread : pc'[u] = "insert" => entry'[u] # None /\ heap'[entry'[u]] = arg'[u]
    <3>1. \A u \in Thread : u # t /\ pc[u] = "insert" =>
             entry[u] # e /\ entry[u] # None /\ heap[entry[u]] = arg[u] /\ entry[u] \in EntryId
      BY <1>1 DEF BusInv, BusTypeOK, EntriesOwned, Owns, OwnerLabel
    <3> QED
      BY <1>1, <1>2, <1>3, <1>7, <3>1 DEF BusInv, BusTypeOK
  <2> QED
    BY <2>1, <2>2, <2>3 DEF EntriesOwned
<1>9. CacheSound'
  BY <1>1, <1>2, <1>4 DEF BusInv, BusTypeOK, CacheSound
<1>10. Disjoint'
  BY <1>1, <1>3 DEF BusInv, BusTypeOK, Disjoint, Intersect, End
<1> QED
  BY <1>5, <1>8, <1>9, <1>10 DEF BusInv

LEMMA InsertKeeps ==
  ASSUME LockInv, BusInv, NEW t \in Thread, Insert(t)
  PROVE  BusInv'
<1>1. /\ pc[t] = "insert" /\ lpc[t] = "writer" /\ lpc' = lpc
      /\ pc' = [pc EXCEPT ![t] = "unlock"]
      /\ heap' = heap /\ arg' = arg /\ last_access' = last_access
  BY DEF Insert, Inside, Goto, lockVars
<1>2. /\ entry[t] \in EntryId /\ entry[t] \notin devices
      /\ heap[entry[t]] = arg[t] /\ heap[entry[t]] # NoEntry /\ Owns(t)
  BY <1>1 DEF BusInv, BusTypeOK, EntriesOwned, Owns, OwnerLabel
<1>3. \/ /\ Free(arg[t])
         /\ devices' = devices \cup {entry[t]}
         /\ entry' = [entry EXCEPT ![t] = None]
      \/ devices' = devices /\ entry' = entry
  BY DEF Insert, BusInv, BusTypeOK
<1>4. BusTypeOK'
  BY <1>1, <1>2, <1>3 DEF BusInv, BusTypeOK, BusLabel
<1>5. \A u \in Thread : Owns(u)' => Owns(u) /\ entry'[u] = entry[u]
  BY <1>1, <1>3 DEF BusInv, BusTypeOK, Owns, OwnerLabel
<1>6. EntriesOwned'
  <2>1. \A u \in Thread : Owns(u)' => entry'[u] \notin devices'
    BY <1>2, <1>3, <1>5 DEF BusInv, BusTypeOK, EntriesOwned, Owns
  <2>2. \A u \in Thread : pc'[u] = "insert" => u # t /\ pc[u] = "insert" /\ entry'[u] = entry[u]
    BY <1>1, <1>3 DEF BusInv, BusTypeOK
  <2> QED
    BY <1>1, <1>5, <2>1, <2>2 DEF BusInv, EntriesOwned
<1>7. CacheSound'
  <2>1. \A u \in Thread : pc'[u] \notin {"cache", "uncache"}
    BY <1>1, NoReaderWhileWriting DEF BusInv, BusTypeOK
  <2>2. \A u \in Thread : pc'[u] = "unlock" => lpc'[u] = "writer"
    BY <1>1 DEF BusInv, BusTypeOK, CacheSound
  <2>3. last_access' = None \/ last_access' \in devices'
    BY <1>1, <1>3, NoReaderWhileWriting DEF BusInv, CacheSound
  <2> QED
    BY <2>1, <2>2, <2>3 DEF CacheSound
<1>8. Disjoint'
  <2>1. CASE Free(arg[t]) /\ devices' = devices \cup {entry[t]}
    <3>1. \A e \in devices : heap[e] \in Place /\ heap[entry[t]] \in Place
      BY <1>2 DEF BusInv, BusTypeOK
    <3>2. \A e \in devices : Before(heap[e], heap[entry[t]]) \/ Before(heap[entry[t]], heap[e])
      BY <1>2, <2>1 DEF Free
    <3>3. \A e \in devices : ~Intersect(heap[e], heap[entry[t]]) /\ ~Intersect(heap[entry[t]], heap[e])
      BY <3>2 DEF Before, Intersect
    <3> QED
      BY <1>1, <2>1, <3>3 DEF BusInv, Disjoint, Intersect, End
  <2>2. CASE devices' = devices
    BY <1>1, <2>2 DEF BusInv, Disjoint, Intersect, End
  <2> QED
    BY <1>3, <2>1, <2>2
<1> QED
  BY <1>4, <1>6, <1>7, <1>8 DEF BusInv

LEMMA RemoveKeeps ==
  ASSUME LockInv, BusInv, NEW t \in Thread, Remove(t)
  PROVE  BusInv'
<1> DEFINE l == lookup(arg[t])
<1>0. l \in devices \cup {None}
  BY LookupInMap
<1> HIDE DEF l
<1>1. /\ pc[t] = "remove" /\ lpc[t] = "writer" /\ lpc' = lpc
      /\ pc' = [pc EXCEPT ![t] = "uncache"] /\ entry' = [entry EXCEPT ![t] = l]
      /\ devices' = devices \ {l}
      /\ heap' = heap /\ arg' = arg /\ last_access' = last_access
  BY DEF Remove, Inside, Goto, lockVars, l
<1>2. entry'[t] = l /\ l \notin devices'
  BY <1>1 DEF BusInv, BusTypeOK
<1>3. BusTypeOK'
  BY <1>0, <1>1 DEF BusInv, BusTypeOK, BusLabel
<1>4. \A u \in Thread : u # t => pc'[u] = pc[u] /\ entry'[u] = entry[u]
  BY <1>1 DEF BusInv, BusTypeOK
<1>5. \A u \in Thread : Owns(u)' => (u = t /\ l \in devices) \/ (u # t /\ Owns(u))
  BY <1>0, <1>2, <1>4 DEF Owns
<1>6. EntriesOwned'
  <2>1. \A u \in Thread : Owns(u)' => entry'[u] \notin devices' /\ heap'[entry'[u]] # NoEntry
    BY <1>1, <1>2, <1>4, <1>5 DEF BusInv, BusTypeOK, EntriesOwned
  <2>2. \A u, v \in Thread : Owns(u)' /\ Owns(v)' /\ u # v => entry'[u] # entry'[v]
    BY <1>2, <1>4, <1>5 DEF BusInv, EntriesOwned
  <2>3. \A u \in Thread : pc'[u] = "insert" => u # t /\ pc[u] = "insert" /\ entry'[u] = entry[u]
    BY <1>1 DEF BusInv, BusTypeOK
  <2> QED
    BY <1>1, <2>1, <2>2, <2>3 DEF BusInv, EntriesOwned
<1>7. CacheSound'
  <2>1. \A u \in Thread : pc'[u] # "cache"
    BY <1>1, NoReaderWhileWriting DEF BusInv, BusTypeOK
  <2>2. \A u \in Thread : pc'[u] \in {"uncache", "unlock"} => lpc'[u] = "writer"
    BY <1>1 DEF BusInv, BusTypeOK, CacheSound
  <2>3. last_access' \in devices' \cup {None, l}
    BY <1>1, NoReaderWhileWriting DEF BusInv, CacheSound
  <2>4. pc'[t] = "uncache"
    BY <1>1 DEF BusInv, BusTypeOK
  <2> QED
    BY <1>2, <2>1, <2>2, <2>3, <2>4 DEF CacheSound
<1>8. Disjoint'
  BY <1>1 DEF BusInv, Disjoint, Intersect, End
<1> QED
  BY <1>3, <1>6, <1>7, <1>8 DEF BusInv

LEMMA UncacheKeeps ==
  ASSUME LockInv, BusInv, NEW t \in Thread, Uncache(t)
  PROVE  BusInv'
<1>1. /\ pc[t] = "uncache" /\ lpc[t] = "writer" /\ lpc' = lpc
      /\ pc' = [pc EXCEPT ![t] = "unlock"]
      /\ last_access' = IF last_access = entry[t] THEN None ELSE last_access
      /\ heap' = heap /\ arg' = arg /\ entry' = entry /\ devices' = devices
  BY DEF Uncache, Inside, Goto, lockVars
<1>2. BusTypeOK'
  BY <1>1 DEF BusInv, BusTypeOK, BusLabel
<1>3. \A u \in Thread : (Owns(u)' => Owns(u)) /\ (pc'[u] = "insert" => pc[u] = "insert")
  BY <1>1 DEF BusInv, BusTypeOK, Owns, OwnerLabel
<1>4. EntriesOwned'
  BY <1>1, <1>3 DEF BusInv, EntriesOwned
<1>5. CacheSound'
  <2>1. \A u \in Thread : pc'[u] # "cache"
    BY <1>1, NoReaderWhileWriting DEF BusInv, BusTypeOK
  <2>2. \A u \in Thread : pc'[u] \in {"uncache", "unlock"} => lpc'[u] = "writer"
    BY <1>1 DEF BusInv, BusTypeOK, CacheSound
  <2>3. last_access' = None \/ last_access' \in devices'
    BY <1>1, NoReaderWhileWriting DEF BusInv, CacheSound
  <2> QED
    BY <2>1, <2>2, <2>3 DEF CacheSound
<1>6. Disjoint'
  BY <1>1 DEF BusInv, Disjoint, Intersect, End
<1> QED
  BY <1>2, <1>4, <1>5, <1>6 DEF BusInv

LEMMA UnlockKeeps ==
  ASSUME LockInv, BusInv, NEW t \in Thread, Unlock(t)
  PROVE  BusInv'
<1>1. /\ pc[t] = "unlock" /\ lpc[t] = "writer"
      /\ pc' = [pc EXCEPT ![t] = "delete"]
      /\ heap' = heap /\ arg' = arg /\ entry' = entry /\ devices' = devices
      /\ last_access' = last_access
  BY DEF Unlock, wexit, Goto, busVars
<1>2. BusTypeOK'
  BY <1>1 DEF BusInv, BusTypeOK, BusLabel
<1>3. \A u \in Thread : (Owns(u)' => Owns(u)) /\ (pc'[u] = "insert" => pc[u] = "insert")
  BY <1>1 DEF BusInv, BusTypeOK, Owns, OwnerLabel
<1>4. EntriesOwned'
  BY <1>1, <1>3 DEF BusInv, EntriesOwned
<1>5. CacheSound'
  <2>1. \A u \in Thread : pc'[u] \notin {"cache", "uncache", "unlock"}
    BY <1>1, NoReaderWhileWriting DEF BusInv, BusTypeOK
  <2>2. last_access' = None \/ last_access' \in devices'
    BY <1>1, NoReaderWhileWriting DEF BusInv, CacheSound
  <2> QED
    BY <2>1, <2>2 DEF CacheSound
<1>6. Disjoint'
  BY <1>1 DEF BusInv, Disjoint, Intersect, End
<1> QED
  BY <1>2, <1>4, <1>5, <1>6 DEF BusInv

LEMMA DeleteKeeps ==
  ASSUME LockInv, BusInv, NEW t \in Thread, Delete(t)
  PROVE  BusInv'
<1>1. /\ pc[t] = "delete" /\ lpc' = lpc /\ devices' = devices /\ last_access' = last_access
      /\ pc' = [pc EXCEPT ![t] = "idle"] /\ arg' = [arg EXCEPT ![t] = None]
      /\ entry' = [entry EXCEPT ![t] = None]
      /\ heap' = [e \in EntryId |-> IF e = entry[t] THEN NoEntry ELSE heap[e]]
  BY DEF Delete, Return, Goto, lockVars
<1>2. entry[t] \notin devices
  BY <1>1, VbusAssumption DEF BusInv, BusTypeOK, EntriesOwned, Owns, OwnerLabel
<1>3. \A e \in EntryId : e # entry[t] => heap'[e] = heap[e]
  BY <1>1
<1>4. \A e \in devices : e \in EntryId /\ heap'[e] = heap[e]
  BY <1>2, <1>3 DEF BusInv, BusTypeOK
<1>5. BusTypeOK'
  <2>1. heap' \in [EntryId -> Place \cup {NoEntry}]
    BY <1>1 DEF BusInv, BusTypeOK
  <2> QED
    BY <1>1, <1>4, <2>1 DEF BusInv, BusTypeOK, BusLabel
<1>6. \A u \in Thread : u # t => pc'[u] = pc[u] /\ entry'[u] = entry[u] /\ arg'[u] = arg[u]
  BY <1>1 DEF BusInv, BusTypeOK
<1>7. pc'[t] = "idle"
  BY <1>1 DEF BusInv, BusTypeOK
<1>8. \A u \in Thread : Owns(u)' => u # t /\ Owns(u)
  BY <1>6, <1>7 DEF Owns, OwnerLabel
<1>9. \A u \in Thread : u # t /\ Owns(u) => entry[u] # entry[t] /\ entry[u] \in EntryId
  BY <1>1 DEF BusInv, BusTypeOK, EntriesOwned, Owns, OwnerLabel
<1>10. EntriesOwned'
  <2>1. \A u \in Thread : Owns(u)' => heap'[entry'[u]] = heap[entry[u]] /\ entry'[u] = entry[u]
    BY <1>3, <1>6, <1>8, <1>9
  <2>2. \A u \in Thread : pc'[u] = "insert" =>
           entry'[u] # None /\ heap'[entry'[u]] = arg'[u]
    <3> SUFFICES ASSUME NEW u \in Thread, pc'[u] = "insert"
                 PROVE  entry'[u] # None /\ heap'[entry'[u]] = arg'[u]
      OBVIOUS
    <3>1. u # t /\ pc[u] = "insert" /\ entry[u] # None /\ heap[entry[u]] = arg[u]
      BY <1>6, <1>7 DEF BusInv, EntriesOwned
    <3>2. Owns(u)'
      BY <1>6, <3>1 DEF Owns, OwnerLabel
    <3> QED
      BY <1>6, <2>1, <3>1, <3>2
  <2> QED
    BY <1>1, <1>8, <2>1, <2>2 DEF BusInv, EntriesOwned
<1>11. CacheSound'
  BY <1>1, <1>6, <1>7 DEF BusInv, CacheSound
<1>12. Disjoint'
  BY <1>1, <1>4 DEF BusInv, Disjoint, Intersect, End
<1> QED
  BY <1>5, <1>10, <1>11, <1>12 DEF BusInv

-----------------------------------------------------------------------------
(* The remaining steps are quiet: what they find, they keep in locals. *)
LEMMA CallQuiet ==
  ASSUME LockInv, BusInv, NEW t \in Thread,
         \/ \E r \in Target : CallAccess(t, r) \/ CallMap(t, r)
         \/ CallReset(t) \/ CallShutdown(t)
  PROVE  QuietStep(t)
<1> USE DEF Quiet, BusLabel
<1>1. ASSUME NEW r \in Target, CallAccess(t, r)
      PROVE  QuietStep(t)
  BY <1>1, ReadQuiet DEF CallAccess
<1>2. ASSUME NEW r \in Target, CallMap(t, r)
      PROVE  QuietStep(t)
  BY <1>2, ReadQuiet DEF CallMap
<1>3. CASE CallReset(t)
  BY <1>3, ReadQuiet DEF CallReset
<1>4. CASE CallShutdown(t)
  BY <1>4, ReadQuiet DEF CallShutdown
<1> QED
  BY <1>1, <1>2, <1>3, <1>4

LEMMA CallUnregisterQuiet ==
  ASSUME LockInv, BusInv, NEW t \in Thread, NEW r \in Removal, CallUnregister(t, r)
  PROVE  QuietStep(t)
BY DEF LockInv, LockTypeOK, BusInv, BusTypeOK, CallUnregister, Write, wenter, EnterRq, LockGoto,
       Call, Goto, QuietStep, Quiet, BusLabel

LEMMA LeaveQuiet ==
  ASSUME LockInv, BusInv, NEW t \in Thread, Leave(t) \/ IterLeave(t) \/ AccessDevice(t)
  PROVE  QuietStep(t)
<1>1. \A u \in Thread : u # t => lpc'[u] = lpc[u]
  BY DEF LockInv, LockTypeOK, Leave, IterLeave, AccessDevice, rexit, LockGoto, lockVars
<1>2. CASE Return(t)
  <2>1. pc[t] \in Quiet /\ UNCHANGED busVars
    BY <1>2 DEF Leave, IterLeave, AccessDevice, Return, Quiet, BusLabel
  <2> QED
    BY <1>1, <1>2, <2>1, ReturnQuiet
<1>3. CASE ~Return(t)
  <2>1. pc[t] = "leave" /\ Goto(t, "device") /\ UNCHANGED <<busVars, arg, entry>>
    BY <1>3 DEF Leave, IterLeave, AccessDevice
  <2>2. "device" \in Quiet /\ "leave" \in Quiet
    BY DEF Quiet, BusLabel
  <2> QED
    BY <1>1, <2>1, <2>2, GotoQuiet
<1> QED
  BY <1>2, <1>3

LEMMA IterQuiet ==
  ASSUME LockInv, BusInv, NEW t \in Thread, IterStep(t)
  PROVE  QuietStep(t)
<1>1. ASSUME NEW pass \in {"reset", "reset_irq", "shutdown"}, Iterate(t, pass)
      PROVE  QuietStep(t)
  <2>1. PICK e \in Ahead(t) : entry' = [entry EXCEPT ![t] = e]
    BY <1>1 DEF Iterate
  <2>2. e \in EntryId
    BY DEF Ahead, BusInv, BusTypeOK
  <2> QED
    BY <1>1, <2>1, <2>2
    DEF Iterate, Inside, lockVars, BusInv, BusTypeOK, QuietStep, Quiet, BusLabel
<1>2. ASSUME NEW pass \in Quiet, NEW next \in Quiet, PassEnds(t, pass, next)
      PROVE  QuietStep(t)
  BY <1>2 DEF PassEnds, Inside, Goto, lockVars, BusInv, BusTypeOK, QuietStep, Quiet
<1>3. {"reset", "reset_irq", "shutdown", "iterated"} \subseteq Quiet
  BY DEF Quiet, BusLabel
<1> QED
  BY <1>1, <1>2, <1>3 DEF IterStep

LEMMA GuestMemoryQuiet ==
  ASSUME LockInv, BusInv, NEW t \in Thread,
         \/ Find(t) \/ FindAgain(t) \/ LeaveFound(t) \/ DemandMap(t)
         \/ UnmapCopied(t) \/ CallUnmap(t) \/ Unmap(t)
  PROVE  QuietStep(t)
<1>1. \A u \in Thread : u # t => lpc'[u] = lpc[u]
  BY DEF LockInv, LockTypeOK, Find, FindAgain, get_device_at, LeaveFound, GotDevice, DemandMap,
         UnmapCopied, CallUnmap, Unmap, Inside, renter, EnterRq, rexit, LockGoto, lockVars
<1>2. UNCHANGED busVars
  BY DEF Find, FindAgain, get_device_at, LeaveFound, GotDevice, DemandMap, UnmapCopied,
         CallUnmap, Unmap
<1>3. pc[t] \in Quiet
  BY DEF Find, FindAgain, get_device_at, LeaveFound, GotDevice, DemandMap, UnmapCopied,
         CallUnmap, Unmap, Inside, Quiet, BusLabel
<1>4. \/ Return(t)
      \/ \E label \in Quiet : Goto(t, label) /\ UNCHANGED <<arg, entry>>
  BY DEF Find, FindAgain, get_device_at, LeaveFound, GotDevice, DemandMap, UnmapCopied,
         CallUnmap, Unmap, Quiet, BusLabel
<1> QED
  BY <1>1, <1>2, <1>3, <1>4, ReturnQuiet, GotoQuiet

LEMMA BusKeeps ==
  ASSUME LockInv, BusInv, [Next]_allVars
  PROVE  BusInv'
<1>1. ASSUME NEW t \in Thread, BusCall(t)
      PROVE  BusInv'
  BY <1>1, CallQuiet, QuietKeeps DEF BusCall
<1>2. ASSUME NEW t \in Thread, ClientCall(t)
      PROVE  BusInv'
  BY <1>2, CallRegisterKeeps, CallUnregisterQuiet, QuietKeeps DEF ClientCall
<1>3. ASSUME NEW t \in Thread, \E r \in Target : CallMap(t, r)
      PROVE  BusInv'
  BY <1>3, CallQuiet, QuietKeeps
<1>4. ASSUME NEW t \in Thread, BusStep(t)
      PROVE  BusInv'
  <2>1. CASE Leave(t) \/ IterLeave(t) \/ AccessDevice(t) \/ IterStep(t)
    BY <2>1, LeaveQuiet, IterQuiet, QuietKeeps
  <2> QED
    BY <1>4, <2>1, LockStepKeeps, AccessFindKeeps, AccessCacheKeeps, InsertKeeps, RemoveKeeps,
       UncacheKeeps, UnlockKeeps, DeleteKeeps DEF BusStep
<1>5. ASSUME NEW t \in Thread,
             \/ Find(t) \/ FindAgain(t) \/ LeaveFound(t) \/ DemandMap(t)
             \/ UnmapCopied(t) \/ CallUnmap(t) \/ Unmap(t)
      PROVE  BusInv'
  BY <1>5, GuestMemoryQuiet, QuietKeeps
<1>6. CASE UNCHANGED allVars
  <2>1. UNCHANGED <<lpc, devices, heap, last_access, pc, arg, entry>>
    BY <1>6 DEF allVars, vars, lockVars, busVars, threadVars
  <2> QED
    BY <2>1 DEF BusInv, BusTypeOK, EntriesOwned, Owns, CacheSound, Disjoint, Intersect, End
<1> QED
  BY <1>1, <1>2, <1>3, <1>4, <1>5, <1>6, VbusAssumption, SimpleASAssumption DEF Next, MemoryStep

LEMMA CacheInMap == LockInv /\ BusInv => CacheIsRegistered
<1> SUFFICES ASSUME LockInv, BusInv, \A t \in Thread : ~Writing(t), last_access # None
             PROVE  /\ last_access \in devices
                    /\ \A e \in devices \ {last_access} :
                         ~Intersect(heap[e], heap[last_access])
  BY DEF CacheIsRegistered
<1>1. last_access \in devices
  BY DEF BusInv, CacheSound, Writing
<1> QED
  BY <1>1 DEF BusInv, Disjoint

LEMMA SystemInductive == Spec => [](LockInv /\ BusInv)
<1>1. Init => LockInv /\ BusInv
  BY LockInitial, BusInitial DEF Init
<1>2. LockInv /\ BusInv /\ [Next]_allVars => LockInv' /\ BusInv'
  BY StepsOfTheLock, LockKeeps, BusKeeps
<1> QED
  BY <1>1, <1>2, PTL DEF Spec

(* Whenever no writer is inside, the entry Vbus::access has cached is one a
   lookup could return: it is in the map, and no other entry overlaps it. *)
THEOREM CacheRegistered == Spec => []CacheIsRegistered
BY SystemInductive, CacheInMap, PTL

(* register_device keeps the ranges of the map apart, so the order by which
   the map finds its entries is one. *)
THEOREM DevicesDisjoint == Spec => []Disjoint
<1>1. BusInv => Disjoint
  BY DEF BusInv
<1> QED
  BY <1>1, SystemInductive, PTL

-----------------------------------------------------------------------------
(* Resets.  A thread that iterates has called what lies behind it; before it
   is in, it has not begun. *)

Pass == {"reset", "reset_irq", "shutdown"}

ReachedTypeOK == reached \in [Thread -> SUBSET Device]

Progress(t) ==
  /\ pc[t] \in Pass \cup {"iterated"} =>
       \/ Reading(t)
       \/ lpc[t] = "r_add" /\ entry[t] = None /\ pc[t] \in {"reset", "shutdown"}
  /\ pc[t] \in Pass /\ entry[t] # None =>
       /\ entry[t] \in devices
       /\ \A e \in devices :
            heap[e].begin <= heap[entry[t]].begin /\ Called(heap[e].dev, pc[t]) =>
              heap[e].dev \in reached[t]
  /\ pc[t] = "reset_irq" =>
       \A e \in devices : heap[e].dev \in IrqController \/ heap[e].dev \in reached[t]
  /\ pc[t] = "iterated" => \A e \in devices : heap[e].dev \in reached[t]

ResetInv == ReachedTypeOK /\ \A t \in Thread : Progress(t)

ThreadStep(t) ==
  \/ BusCall(t) \/ ClientCall(t) \/ BusStep(t)
  \/ \E r \in Target : CallMap(t, r)
  \/ Find(t) \/ FindAgain(t) \/ LeaveFound(t) \/ DemandMap(t)
  \/ UnmapCopied(t) \/ CallUnmap(t) \/ Unmap(t)

LEMMA StepsOfThreads == Next => \E t \in Thread : ThreadStep(t)
BY VbusAssumption, SimpleASAssumption DEF Next, MemoryStep, ThreadStep

(* A step of one thread leaves the locals of the others alone. *)
Confined(t) ==
  \A u \in Thread : u # t =>
    pc'[u] = pc[u] /\ lpc'[u] = lpc[u] /\ entry'[u] = entry[u] /\ reached'[u] = reached[u]

LEMMA StepConfined ==
  ASSUME LockInv, BusInv, ReachedTypeOK, NEW t \in Thread, ThreadStep(t)
  PROVE  Confined(t)
<1> USE DEF LockInv, LockTypeOK, BusInv, BusTypeOK, ReachedTypeOK, Confined
<1>1. CASE BusCall(t) \/ ClientCall(t) \/ \E r \in Target : CallMap(t, r)
  BY <1>1 DEF BusCall, ClientCall, CallMap, CallAccess, CallReset, CallShutdown, CallRegister,
              CallUnregister, Read, Write, renter, wenter, EnterRq, LockGoto, Call, Goto
<1>2. CASE LockStep(t) /\ UNCHANGED <<busVars, threadVars>>
  BY <1>2 DEF LockStep, ReaderAdd, ReaderExitRq, ReaderSignal, WriterOr, WriterWait,
              WriterClear, WriterExitRq, ExitRq, LockGoto, threadVars
<1>3. CASE AccessFind(t) \/ AccessCache(t) \/ Leave(t) \/ AccessDevice(t)
  BY <1>3 DEF AccessFind, AccessCache, Leave, AccessDevice, Inside, Goto, Return, rexit,
              LockGoto, lockVars
<1>4. CASE Insert(t) \/ Remove(t) \/ Uncache(t) \/ Unlock(t) \/ Delete(t)
  BY <1>4 DEF Insert, Remove, Uncache, Unlock, Delete, Inside, Goto, Return, wexit, LockGoto,
              lockVars
<1>5. CASE IterStep(t) \/ IterLeave(t)
  BY <1>5 DEF IterStep, Iterate, PassEnds, IterLeave, Inside, Goto, Return, rexit, LockGoto,
              lockVars
<1>6. CASE \/ Find(t) \/ FindAgain(t) \/ LeaveFound(t) \/ DemandMap(t)
           \/ UnmapCopied(t) \/ CallUnmap(t) \/ Unmap(t)
  BY <1>6 DEF Find, FindAgain, get_device_at, LeaveFound, GotDevice, DemandMap, UnmapCopied,
              CallUnmap, Unmap, Inside, Goto, Return, renter, EnterRq, rexit, LockGoto, lockVars
<1> QED
  BY <1>1, <1>2, <1>3, <1>4, <1>5, <1>6 DEF ThreadStep, BusStep

(* While a thread reads, the others change no entry of the map. *)
LEMMA MapSteady ==
  ASSUME LockInv, BusInv, NEW t \in Thread, NEW u \in Thread, u # t, Reading(u), ThreadStep(t)
  PROVE  devices' = devices /\ \A e \in devices : heap'[e] = heap[e]
<1>1. CASE UNCHANGED <<devices, heap>>
  BY <1>1
<1>2. ASSUME NEW p \in Place, NEW e \in EntryId, CallRegister(t, p, e)
      PROVE  devices' = devices /\ \A o \in devices : heap'[o] = heap[o]
  BY <1>2 DEF CallRegister, BusInv, BusTypeOK
<1>3. CASE Delete(t)
  <2>1. entry[t] \notin devices
    BY <1>3, VbusAssumption DEF Delete, BusInv, BusTypeOK, EntriesOwned, Owns, OwnerLabel
  <2> QED
    BY <1>3, <2>1 DEF Delete, BusInv, BusTypeOK
<1>4. CASE Insert(t) \/ Remove(t)
  BY <1>4, LockExclusion DEF Insert, Remove, Inside, Exclusion, Writing
<1>5. CASE ClientCall(t)
  BY <1>1, <1>2, <1>5 DEF ClientCall, CallUnregister, busVars
<1>6. CASE BusCall(t) \/ \E r \in Target : CallMap(t, r)
  BY <1>6 DEF BusCall, CallAccess, CallReset, CallShutdown, CallMap, busVars
<1>7. CASE BusStep(t)
  BY <1>3, <1>4, <1>7 DEF BusStep, AccessFind, AccessCache, Leave, AccessDevice, Uncache, Unlock,
       IterStep, Iterate, PassEnds, IterLeave, busVars
<1>8. CASE \/ Find(t) \/ FindAgain(t) \/ LeaveFound(t) \/ DemandMap(t)
           \/ UnmapCopied(t) \/ CallUnmap(t) \/ Unmap(t)
  BY <1>8 DEF Find, FindAgain, get_device_at, LeaveFound, GotDevice, DemandMap, UnmapCopied,
              CallUnmap, Unmap, busVars
<1> QED
  BY <1>5, <1>6, <1>7, <1>8 DEF ThreadStep

LEMMA OthersProgress ==
  ASSUME LockInv, BusInv, ResetInv, NEW t \in Thread, NEW u \in Thread, u # t, ThreadStep(t)
  PROVE  Progress(u)'
<1>1. /\ pc'[u] = pc[u] /\ lpc'[u] = lpc[u]
      /\ entry'[u] = entry[u] /\ reached'[u] = reached[u]
  BY StepConfined DEF Confined, ResetInv
<1>2. Progress(u)
  BY DEF ResetInv
<1>3. CASE Reading(u)
  <2>1. devices' = devices /\ \A e \in devices : heap'[e] = heap[e]
    BY <1>3, MapSteady
  <2>2. Reading(u)'
    BY <1>1, <1>3 DEF Reading
  <2>3. pc[u] \in Pass /\ entry[u] # None =>
          /\ entry[u] \in devices'
          /\ \A e \in devices' :
               heap'[e].begin <= heap'[entry[u]].begin /\ Called(heap'[e].dev, pc[u]) =>
                 heap'[e].dev \in reached[u]
    BY <1>2, <2>1 DEF Progress
  <2>4. pc[u] = "reset_irq" =>
          \A e \in devices' : heap'[e].dev \in IrqController \/ heap'[e].dev \in reached[u]
    BY <1>2, <2>1 DEF Progress
  <2>5. pc[u] = "iterated" => \A e \in devices' : heap'[e].dev \in reached[u]
    BY <1>2, <2>1 DEF Progress
  <2> QED
    BY <1>1, <2>2, <2>3, <2>4, <2>5 DEF Progress
<1>4. CASE ~Reading(u)
  BY <1>1, <1>2, <1>4 DEF Progress, Reading, Pass
<1> QED
  BY <1>3, <1>4

(* The steps of the thread itself. *)
LEMMA IterateProgress ==
  ASSUME LockInv, BusInv, ResetInv, NEW t \in Thread, NEW pass \in Pass, Iterate(t, pass)
  PROVE  ReachedTypeOK' /\ Progress(t)'
<1>1. /\ pc[t] = pass /\ lpc[t] = "reader"
      /\ pc' = pc /\ lpc' = lpc /\ devices' = devices /\ heap' = heap
  BY DEF Iterate, Inside, lockVars, busVars
<1>2. PICK e \in Ahead(t) :
        /\ \A o \in Ahead(t) : heap[e].begin <= heap[o].begin
        /\ entry' = [entry EXCEPT ![t] = e]
        /\ reached' = [reached EXCEPT ![t] =
                         IF Called(heap[e].dev, pass) THEN @ \cup {heap[e].dev} ELSE @]
  BY DEF Iterate
<1>3. /\ e \in devices /\ e # None
      /\ \A o \in devices : heap[o] \in Place
  BY VbusAssumption DEF Ahead, BusInv, BusTypeOK
<1>4. \A o \in devices : heap[o].dev \in Device /\ heap[o].begin \in Nat /\ heap[o].size \in Nat \ {0}
  BY <1>3, VbusAssumption
<1>5. ReachedTypeOK' /\ entry'[t] = e
  BY <1>2, <1>3, <1>4 DEF ResetInv, ReachedTypeOK, BusInv, BusTypeOK
<1>6. /\ reached[t] \subseteq reached'[t]
      /\ Called(heap[e].dev, pass) => heap[e].dev \in reached'[t]
  BY <1>2 DEF ResetInv, ReachedTypeOK
<1>7. ASSUME NEW o \in devices, heap[o].begin <= heap[e].begin, Called(heap[o].dev, pass)
      PROVE  heap[o].dev \in reached'[t]
  <2>1. CASE o \in Ahead(t)
    <3>1. heap[o].begin = heap[e].begin
      BY <1>2, <1>3, <1>4, <1>7, <2>1
    <3>2. Intersect(heap[o], heap[e])
      BY <1>3, <1>4, <3>1 DEF Intersect, End
    <3> QED
      BY <1>3, <1>6, <1>7, <3>2 DEF BusInv, Disjoint
  <2>2. CASE o \notin Ahead(t)
    <3>1. entry[t] # None /\ ~(heap[entry[t]].begin < heap[o].begin)
      BY <2>2 DEF Ahead
    <3>2. entry[t] \in devices
      BY <1>1, <3>1 DEF ResetInv, Progress
    <3>3. heap[o].begin <= heap[entry[t]].begin
      BY <1>4, <3>1, <3>2
    <3> QED
      BY <1>1, <1>6, <1>7, <3>1, <3>3 DEF ResetInv, Progress
  <2> QED
    BY <2>1, <2>2
<1>8. pass = "reset_irq" =>
        \A o \in devices : heap[o].dev \in IrqController \/ heap[o].dev \in reached'[t]
  BY <1>1, <1>6 DEF ResetInv, Progress
<1> QED
  BY <1>1, <1>3, <1>5, <1>7, <1>8 DEF Progress, Reading, Pass

LEMMA PassEndsProgress ==
  ASSUME LockInv, BusInv, ResetInv, NEW t \in Thread,
         \/ PassEnds(t, "reset", "reset_irq")
         \/ PassEnds(t, "reset_irq", "iterated")
         \/ PassEnds(t, "shutdown", "iterated")
  PROVE  ReachedTypeOK' /\ Progress(t)'
<1>1. /\ lpc[t] = "reader" /\ lpc' = lpc /\ devices' = devices /\ heap' = heap
      /\ reached' = reached /\ Ahead(t) = {} /\ pc[t] \in Pass
      /\ entry' = [entry EXCEPT ![t] = None]
      /\ \/ pc[t] = "reset" /\ pc' = [pc EXCEPT ![t] = "reset_irq"]
         \/ pc[t] \in {"reset_irq", "shutdown"} /\ pc' = [pc EXCEPT ![t] = "iterated"]
  BY DEF PassEnds, Inside, Goto, lockVars, busVars, Pass
<1>2. \A e \in devices : Called(heap[e].dev, pc[t]) => heap[e].dev \in reached[t]
  <2> SUFFICES ASSUME NEW e \in devices, Called(heap[e].dev, pc[t])
               PROVE  heap[e].dev \in reached[t]
    OBVIOUS
  <2>1. entry[t] # None /\ ~(heap[entry[t]].begin < heap[e].begin)
    BY <1>1 DEF Ahead
  <2>2. entry[t] \in devices
    BY <1>1, <2>1 DEF ResetInv, Progress
  <2>3. heap[e].begin \in Nat /\ heap[entry[t]].begin \in Nat
    BY <2>2, VbusAssumption DEF BusInv, BusTypeOK
  <2>4. heap[e].begin <= heap[entry[t]].begin
    BY <2>1, <2>3
  <2> QED
    BY <1>1, <2>1, <2>4 DEF ResetInv, Progress
<1>3. entry'[t] = None
  BY <1>1 DEF BusInv, BusTypeOK
<1>4. pc[t] = "reset" =>
        \A e \in devices : heap[e].dev \in IrqController \/ heap[e].dev \in reached[t]
  BY <1>2 DEF Called
<1>5. pc[t] = "reset_irq" => \A e \in devices : heap[e].dev \in reached[t]
  BY <1>1, <1>2 DEF Called, ResetInv, Progress
<1>6. pc[t] = "shutdown" => \A e \in devices : heap[e].dev \in reached[t]
  BY <1>2 DEF Called
<1>7. \/ pc[t] = "reset" /\ pc'[t] = "reset_irq"
      \/ pc[t] \in {"reset_irq", "shutdown"} /\ pc'[t] = "iterated"
  BY <1>1 DEF BusInv, BusTypeOK
<1> QED
  BY <1>1, <1>3, <1>4, <1>5, <1>6, <1>7 DEF Progress, Reading, Pass, ResetInv, ReachedTypeOK

LEMMA LockStepProgress ==
  ASSUME LockInv, BusInv, ResetInv, NEW t \in Thread, LockStep(t),
         UNCHANGED <<busVars, threadVars>>
  PROVE  ReachedTypeOK' /\ Progress(t)'
<1>1. Reading(t) => Reading(t)'
  BY DEF LockInv, LockTypeOK, LockStep, ReaderAdd, ReaderExitRq, ReaderSignal, WriterOr,
         WriterWait, WriterClear, WriterExitRq, ExitRq, LockGoto, Reading
<1>2. lpc[t] = "r_add" => Reading(t)'
  BY DEF LockInv, LockTypeOK, LockStep, ReaderAdd, ReaderExitRq, ReaderSignal, WriterOr,
         WriterWait, WriterClear, WriterExitRq, ExitRq, LockGoto, Reading
<1>3. UNCHANGED <<devices, heap, pc, entry, reached>>
  BY DEF busVars, threadVars
<1> QED
  BY <1>1, <1>2, <1>3 DEF ResetInv, ReachedTypeOK, Progress

LEMMA CallProgress ==
  ASSUME LockInv, BusInv, ResetInv, NEW t \in Thread,
         BusCall(t) \/ ClientCall(t) \/ \E r \in Target : CallMap(t, r)
  PROVE  ReachedTypeOK' /\ Progress(t)'
<1>1. ASSUME NEW label, NEW range, label \in {"access", "reset", "shutdown", "find"},
             Read(t, label, range)
      PROVE  ReachedTypeOK' /\ Progress(t)'
  <2>1. /\ reached' = reached /\ lpc'[t] = "r_add" /\ pc'[t] = label /\ entry'[t] = None
    BY <1>1 DEF Read, renter, EnterRq, LockGoto, Call, Goto, LockInv, LockTypeOK, BusInv, BusTypeOK
  <2> QED
    BY <1>1, <2>1 DEF ResetInv, ReachedTypeOK, Progress, Pass
<1>2. ASSUME NEW label, NEW range, NEW e, label \in {"insert", "remove"},
             Write(t, label, range, e)
      PROVE  ReachedTypeOK' /\ Progress(t)'
  <2>1. reached' = reached /\ pc'[t] = label
    BY <1>2 DEF Write, Call, Goto, BusInv, BusTypeOK
  <2> QED
    BY <1>2, <2>1 DEF ResetInv, ReachedTypeOK, Progress, Pass
<1> QED
  BY <1>1, <1>2 DEF BusCall, ClientCall, CallAccess, CallReset, CallShutdown, CallRegister,
                    CallUnregister, CallMap

(* Any other step leaves the thread outside of an iteration. *)
LEMMA OutsideProgress ==
  ASSUME LockInv, BusInv, ResetInv, NEW t \in Thread,
         \/ AccessFind(t) \/ AccessCache(t) \/ Leave(t) \/ AccessDevice(t)
         \/ Insert(t) \/ Remove(t) \/ Uncache(t) \/ Unlock(t) \/ Delete(t) \/ IterLeave(t)
         \/ Find(t) \/ FindAgain(t) \/ LeaveFound(t) \/ DemandMap(t)
         \/ UnmapCopied(t) \/ CallUnmap(t) \/ Unmap(t)
  PROVE  ReachedTypeOK' /\ Progress(t)'
<1>1. pc'[t] \notin Pass \cup {"iterated"}
  BY DEF AccessFind, AccessCache, Leave, AccessDevice, Insert, Remove, Uncache, Unlock, Delete,
         IterLeave, Find, FindAgain, get_device_at, LeaveFound, GotDevice, DemandMap,
         UnmapCopied, CallUnmap, Unmap, Return, Goto, BusInv, BusTypeOK, Pass
<1>2. reached' = reached \/ reached' = [reached EXCEPT ![t] = {}]
  BY DEF AccessFind, AccessCache, Leave, AccessDevice, Insert, Remove, Uncache, Unlock, Delete,
         IterLeave, Find, FindAgain, get_device_at, LeaveFound, GotDevice, DemandMap,
         UnmapCopied, CallUnmap, Unmap, Return
<1>3. ReachedTypeOK'
  BY <1>2 DEF ResetInv, ReachedTypeOK
<1> QED
  BY <1>1, <1>3 DEF Progress, Pass

LEMMA ResetKeeps ==
  ASSUME LockInv, BusInv, ResetInv, [Next]_allVars
  PROVE  ResetInv'
<1>1. ASSUME NEW t \in Thread, ThreadStep(t)
      PROVE  ResetInv'
  <2>1. CASE BusCall(t) \/ ClientCall(t) \/ \E r \in Target : CallMap(t, r)
    BY <1>1, <2>1, CallProgress, OthersProgress DEF ResetInv
  <2>2. CASE LockStep(t) /\ UNCHANGED <<busVars, threadVars>>
    BY <1>1, <2>2, LockStepProgress, OthersProgress DEF ResetInv
  <2>3. CASE IterStep(t)
    <3>1. ReachedTypeOK' /\ Progress(t)'
      BY <2>3, IterateProgress, PassEndsProgress DEF IterStep, Pass
    <3> QED
      BY <1>1, <3>1, OthersProgress DEF ResetInv
  <2>4. CASE \/ AccessFind(t) \/ AccessCache(t) \/ Leave(t) \/ AccessDevice(t)
             \/ Insert(t) \/ Remove(t) \/ Uncache(t) \/ Unlock(t) \/ Delete(t) \/ IterLeave(t)
             \/ Find(t) \/ FindAgain(t) \/ LeaveFound(t) \/ DemandMap(t)
             \/ UnmapCopied(t) \/ CallUnmap(t) \/ Unmap(t)
    <3>1. ReachedTypeOK' /\ Progress(t)'
      BY <2>4, OutsideProgress
    <3> QED
      BY <1>1, <3>1, OthersProgress DEF ResetInv
  <2> QED
    BY <1>1, <2>1, <2>2, <2>3, <2>4 DEF ThreadStep, BusStep
<1>2. CASE UNCHANGED allVars
  <2>1. UNCHANGED <<lpc, devices, heap, pc, entry, reached>>
    BY <1>2 DEF allVars, vars, lockVars, busVars, threadVars
  <2> QED
    BY <2>1 DEF ResetInv, ReachedTypeOK, Progress, Reading
<1> QED
  BY <1>1, <1>2, StepsOfThreads

LEMMA ResetInitial == BusInit => ResetInv
BY DEF BusInit, ResetInv, ReachedTypeOK, Progress, Pass

LEMMA ProgressReaches == ResetInv => ResetReachesAll
BY DEF ResetInv, Progress, ResetReachesAll

(* "All devices must have transitioned": a reset that is through has called
   every device of the map, and the interrupt controllers after all others,
   however clients register and unregister in the meantime. *)
THEOREM ResetComplete == Spec => []ResetReachesAll
<1>1. Init => LockInv /\ BusInv /\ ResetInv
  BY LockInitial, BusInitial, ResetInitial DEF Init
<1>2. LockInv /\ BusInv /\ ResetInv /\ [Next]_allVars => LockInv' /\ BusInv' /\ ResetInv'
  BY StepsOfTheLock, LockKeeps, BusKeeps, ResetKeeps
<1> QED
  BY <1>1, <1>2, ProgressReaches, PTL DEF Spec

-----------------------------------------------------------------------------
(* Guest memory.  As long as the memory a thread has mapped stays on the bus,
   the lookup before the unmap finds it again. *)

MemoryTypeOK ==
  /\ dev \in [Thread -> Device \cup {None}]
  /\ mapping \in [Thread -> (Ram \X Target) \cup {None}]

Using == {"copy", "guard", "find_again", "found_again", "unmap"}

Calls(t) == pc[t] \in {"find", "found", "map"} \cup Using => arg[t] \in Target

(* A thread that uses memory has mapped the range it was asked for, from a
   memory that contains it. *)
Mapped(t) ==
  /\ pc[t] \in Using =>
       /\ mapping[t] # None /\ mapping[t][2] = arg[t]
       /\ Contains(Region[mapping[t][1]], arg[t])
  /\ pc[t] = "copy" => dev[t] = mapping[t][1]

(* Its memory has stayed on the bus. *)
Stayed(t) ==
  /\ mapping[t] # None => Registered(mapping[t][1])
  /\ pc[t] \in {"found_again", "unmap"} => dev[t] = mapping[t][1]
  /\ pc[t] \notin Using => mapping[t] = None \/ mapping[t][1] \in HostMapped

MemoryInv ==
  /\ MemoryTypeOK
  /\ \A t \in Thread : Calls(t) /\ Mapped(t) /\ (t \notin gone => Stayed(t))

(* Whoever has nothing gone after a step had nothing gone before it, or has
   nothing mapped any more. *)
Watched ==
  \A t \in Thread : t \notin gone' =>
    /\ mapping'[t] # None => Registered(mapping[t][1])'
    /\ t \notin gone \/ mapping'[t] = None

LEMMA StepsWatch == Next => Watched
BY DEF Next, Watched, Outlives

(* A lookup finds the entry that contains what is looked for. *)
LEMMA LookupContains ==
  ASSUME BusInv, NEW r \in Target, NEW e \in devices, Contains(heap[e], r)
  PROVE  lookup(r) = e
<1>1. \A o \in devices : heap[o] \in Place
  BY DEF BusInv, BusTypeOK
<1>2. /\ \A o \in devices : heap[o].begin \in Nat /\ heap[o].size \in Nat \ {0}
      /\ r.begin \in Nat /\ r.size \in Nat \ {0}
  BY <1>1, VbusAssumption
<1>3. ~Before(heap[e], r) /\ ~Before(r, heap[e])
  BY <1>2 DEF Contains, Before, Intersect, End
<1>4. \A o \in devices \ {e} : ~Before(heap[o], r) => heap[e].begin < heap[o].begin
  <2> SUFFICES ASSUME NEW o \in devices \ {e}, ~Before(heap[o], r)
               PROVE  heap[e].begin < heap[o].begin
    OBVIOUS
  <2>1. ~Intersect(heap[o], heap[e])
    BY DEF BusInv, Disjoint
  <2> QED
    BY <1>2, <2>1 DEF Contains, Before, Intersect, End
<1>5. LowerBound(r) = {e}
  <2>1. e \in LowerBound(r)
    BY <1>2, <1>3, <1>4 DEF LowerBound
  <2>2. \A o \in LowerBound(r) : o = e
    BY <1>2, <1>3, <1>4 DEF LowerBound
  <2> QED
    BY <2>1, <2>2
<1>6. Found(r) = {e}
  BY <1>3, <1>5 DEF Found
<1> QED
  BY <1>6 DEF lookup

(* A thread other than the one that steps. *)
LEMMA OthersMapped ==
  ASSUME LockInv, BusInv, MemoryInv, Watched, NEW u \in Thread,
         dev'[u] = dev[u], mapping'[u] = mapping[u], arg'[u] = arg[u], pc'[u] = pc[u]
  PROVE  Calls(u)' /\ Mapped(u)' /\ (u \notin gone' => Stayed(u)')
<1>1. Calls(u)' /\ Mapped(u)'
  BY DEF MemoryInv, Calls, Mapped
<1>2. ASSUME u \notin gone', u \notin gone PROVE Stayed(u)'
  BY <1>2 DEF MemoryInv, Watched, Stayed
<1>3. ASSUME u \notin gone', mapping'[u] = None PROVE Stayed(u)'
  BY <1>3 DEF MemoryInv, Stayed, Mapped, Using
<1> QED
  BY <1>1, <1>2, <1>3 DEF Watched

(* A step of the bus: the thread does not use memory. *)
LEMMA BusMapped ==
  ASSUME LockInv, BusInv, MemoryInv, Watched, NEW t \in Thread,
         \/ BusCall(t) \/ ClientCall(t)
         \/ BusStep(t) /\ ~(LockStep(t) /\ UNCHANGED <<busVars, threadVars>>),
         UNCHANGED mapping
  PROVE  /\ MemoryTypeOK' /\ Calls(t)' /\ Mapped(t)' /\ (t \notin gone' => Stayed(t)')
         /\ \A u \in Thread \ {t} :
              /\ dev'[u] = dev[u] /\ mapping'[u] = mapping[u]
              /\ arg'[u] = arg[u] /\ pc'[u] = pc[u]
<1>1. /\ pc[t] \notin Using
      /\ pc'[t] \notin {"find", "found", "map"} \cup Using
      /\ dev' \in [Thread -> Device \cup {None}]
      /\ \A u \in Thread \ {t} : dev'[u] = dev[u] /\ arg'[u] = arg[u] /\ pc'[u] = pc[u]
  <2> USE DEF MemoryInv, MemoryTypeOK, BusInv, BusTypeOK, Using
  <2>1. CASE BusCall(t) \/ ClientCall(t)
    BY <2>1 DEF BusCall, ClientCall, CallAccess, CallReset, CallShutdown, CallRegister,
                CallUnregister, Read, Write, Call, Goto
  <2>2. CASE AccessFind(t) \/ AccessCache(t) \/ Leave(t) \/ AccessDevice(t)
    BY <2>2 DEF AccessFind, AccessCache, Leave, AccessDevice, Inside, Goto, Return
  <2>3. CASE Insert(t) \/ Remove(t) \/ Uncache(t) \/ Unlock(t) \/ Delete(t)
    BY <2>3 DEF Insert, Remove, Uncache, Unlock, Delete, Inside, Goto, Return
  <2>4. CASE IterStep(t) \/ IterLeave(t)
    BY <2>4 DEF IterStep, Iterate, PassEnds, IterLeave, Inside, Goto, Return
  <2> QED
    BY <2>1, <2>2, <2>3, <2>4 DEF BusStep
<1>2. Calls(t)' /\ Mapped(t)'
  BY <1>1 DEF Calls, Mapped, Using
<1>3. ASSUME t \notin gone' PROVE Stayed(t)'
  <2>1. mapping'[t] # None => Registered(mapping[t][1])'
    BY <1>3 DEF Watched
  <2>2. mapping'[t] = None \/ mapping'[t][1] \in HostMapped
    BY <1>1, <1>3 DEF Watched, MemoryInv, Stayed
  <2> QED
    BY <1>1, <2>1, <2>2 DEF Stayed, Using
<1> QED
  BY <1>1, <1>2, <1>3 DEF MemoryInv, MemoryTypeOK

(* A step of a user of guest memory. *)
LEMMA MemoryMapped ==
  ASSUME LockInv, BusInv, MemoryInv, Watched, NEW t \in Thread,
         \/ \E r \in Target : CallMap(t, r)
         \/ Find(t) \/ FindAgain(t) \/ LeaveFound(t) \/ DemandMap(t)
         \/ UnmapCopied(t) \/ CallUnmap(t) \/ Unmap(t)
  PROVE  /\ MemoryTypeOK' /\ Calls(t)' /\ Mapped(t)' /\ (t \notin gone' => Stayed(t)')
         /\ \A u \in Thread \ {t} :
              /\ dev'[u] = dev[u] /\ mapping'[u] = mapping[u]
              /\ arg'[u] = arg[u] /\ pc'[u] = pc[u]
<1> DEFINE Goal ==
      /\ MemoryTypeOK' /\ Calls(t)' /\ Mapped(t)' /\ (t \notin gone' => Stayed(t)')
      /\ \A u \in Thread \ {t} :
           /\ dev'[u] = dev[u] /\ mapping'[u] = mapping[u]
           /\ arg'[u] = arg[u] /\ pc'[u] = pc[u]
<1> USE DEF MemoryInv, MemoryTypeOK, BusInv, BusTypeOK, Using
<1>1. ASSUME t \notin gone'
      PROVE  /\ mapping'[t] # None => Registered(mapping[t][1])'
             /\ mapping'[t] # None => Stayed(t)
  BY <1>1 DEF Watched
<1>2. \A e \in devices : heap[e].dev \in Device
  BY VbusAssumption
<1>3. ASSUME NEW r \in Target, CallMap(t, r) PROVE Goal
  BY <1>3 DEF CallMap, Read, Call, Goto, Calls, Mapped, Stayed
<1>4. ASSUME Find(t) \/ FindAgain(t)
      PROVE  /\ dev'[t] = IF lookup(arg[t]) = None THEN None ELSE heap[lookup(arg[t])].dev
             /\ dev'[t] \in Device \cup {None}
             /\ UNCHANGED <<devices, heap, arg, mapping>>
             /\ pc' \in {[pc EXCEPT ![t] = "found"], [pc EXCEPT ![t] = "found_again"]}
             /\ \A u \in Thread \ {t} : dev'[u] = dev[u] /\ pc'[u] = pc[u]
             /\ dev' \in [Thread -> Device \cup {None}]
  <2>1. lookup(arg[t]) # None => lookup(arg[t]) \in devices
    BY LookupInMap
  <2> QED
    BY <1>2, <1>4, <2>1 DEF Find, FindAgain, get_device_at, Inside, Goto, busVars
<1>5. CASE Find(t)
  <2>1. pc[t] = "find" /\ pc'[t] = "found"
    BY <1>5 DEF Find, get_device_at, Inside, Goto
  <2>2. Stayed(t) /\ t \notin gone' => Stayed(t)'
    BY <1>1, <1>4, <1>5, <2>1 DEF Stayed
  <2>3. mapping'[t] = None => Stayed(t)'
    BY <2>1 DEF Stayed
  <2> QED
    BY <1>1, <1>4, <1>5, <2>1, <2>2, <2>3 DEF Calls, Mapped
<1>6. CASE FindAgain(t)
  <2>1. pc[t] = "find_again" /\ pc'[t] = "found_again"
    BY <1>6 DEF FindAgain, get_device_at, Inside, Goto
  <2>2. Calls(t)' /\ Mapped(t)'
    BY <1>4, <1>6, <2>1 DEF Calls, Mapped
  <2>3. ASSUME t \notin gone' PROVE Stayed(t)'
    <3> DEFINE d == mapping[t][1]
    <3>1. mapping[t] # None /\ d \in Ram /\ Contains(Region[d], arg[t])
      BY <2>1 DEF Mapped
    <3>2. Registered(d) /\ Registered(d)'
      BY <1>1, <1>4, <1>6, <2>3, <3>1 DEF Stayed
    <3>3. PICK e \in devices : heap[e].dev = d
      BY <3>2 DEF Registered
    <3>4. heap[e].begin = Region[d].begin /\ heap[e].size = Region[d].size
      BY <3>1, <3>3, GuestMemoryAssumption
    <3>5. Contains(heap[e], arg[t])
      BY <3>1, <3>4 DEF Contains, End
    <3>6. lookup(arg[t]) = e
      BY <2>1, <3>5, LookupContains DEF Calls
    <3>7. e # None
      BY VbusAssumption
    <3>8. dev'[t] = d /\ mapping'[t] = mapping[t]
      BY <1>4, <1>6, <3>3, <3>6, <3>7
    <3> HIDE DEF d
    <3> QED
      BY <1>1, <2>1, <2>3, <3>8 DEF Stayed, d
  <2> QED
    BY <1>4, <1>6, <2>2, <2>3
<1>7. CASE LeaveFound(t)
  <2>1. /\ \/ pc[t] = "found" /\ pc' = [pc EXCEPT ![t] = "map"]
           \/ pc[t] = "found_again" /\ pc' = [pc EXCEPT ![t] = "unmap"]
        /\ UNCHANGED <<arg, dev, mapping>>
    BY <1>7 DEF LeaveFound, GotDevice, Goto
  <2>2. pc'[t] \in {"map", "unmap"} /\ \A u \in Thread \ {t} : pc'[u] = pc[u]
    BY <2>1
  <2>3. Calls(t)' /\ Mapped(t)'
    BY <2>1, <2>2 DEF Calls, Mapped
  <2>4. ASSUME t \notin gone' PROVE Stayed(t)'
    <3>1. CASE mapping[t] = None
      BY <2>1, <3>1 DEF Stayed, Mapped
    <3>2. CASE mapping[t] # None
      BY <1>1, <2>1, <2>4, <3>2 DEF Stayed
    <3> QED
      BY <3>1, <3>2
  <2> QED
    BY <2>1, <2>2, <2>3, <2>4
<1>8. CASE DemandMap(t)
  <2>1. /\ pc[t] = "map" /\ arg[t] \in Target
        /\ \A u \in Thread \ {t} : mapping'[u] = mapping[u]
    BY <1>8 DEF DemandMap, Calls
  <2>2. CASE Return(t) /\ UNCHANGED mapping
    <3>1. /\ pc'[t] = "idle"
          /\ dev' \in [Thread -> Device \cup {None}]
          /\ \A u \in Thread \ {t} : dev'[u] = dev[u] /\ arg'[u] = arg[u] /\ pc'[u] = pc[u]
      BY <2>2 DEF Return, Goto
    <3>2. t \notin gone' => Stayed(t)'
      BY <1>1, <2>1, <2>2, <3>1 DEF Stayed
    <3> QED
      BY <2>2, <3>1, <3>2 DEF Calls, Mapped
  <2>3. CASE /\ dev[t] \in Ram /\ Contains(Region[dev[t]], arg[t])
             /\ mapping' = [mapping EXCEPT ![t] = <<dev[t], arg[t]>>]
             /\ Goto(t, "guard") \/ Goto(t, "copy")
             /\ UNCHANGED <<arg, dev>>
    <3>1. mapping' \in [Thread -> (Ram \X Target) \cup {None}]
      BY <2>1, <2>3
    <3>2. mapping'[t] = <<dev[t], arg[t]>> /\ <<dev[t], arg[t]>> # None
      BY <2>1, <2>3, SimpleASAssumption
    <3>3. pc'[t] \in {"guard", "copy"} /\ \A u \in Thread \ {t} : pc'[u] = pc[u]
      BY <2>3 DEF Goto
    <3>4. Calls(t)' /\ Mapped(t)'
      BY <2>1, <2>3, <3>2, <3>3 DEF Calls, Mapped
    <3>5. t \notin gone' => Stayed(t)'
      BY <1>1, <3>3 DEF Stayed
    <3> QED
      BY <2>1, <2>3, <3>1, <3>3, <3>4, <3>5
  <2> QED
    BY <1>8, <2>2, <2>3 DEF DemandMap, Mappable, InRegion
<1>9. CASE UnmapCopied(t) \/ Unmap(t)
  <2>1. /\ pc[t] \in {"copy", "unmap"} /\ pc'[t] = "idle"
        /\ dev' \in [Thread -> Device \cup {None}]
        /\ \A u \in Thread \ {t} :
             dev'[u] = dev[u] /\ arg'[u] = arg[u] /\ pc'[u] = pc[u]
    BY <1>9 DEF UnmapCopied, Unmap, Return, Goto
  <2>2. mapping' = [mapping EXCEPT ![t] = IF dev[t] \in Ram \ HostMapped THEN None ELSE @]
    BY <1>9 DEF UnmapCopied, Unmap, demand_unmap
  <2>3. mapping' \in [Thread -> (Ram \X Target) \cup {None}]
    BY <2>2
  <2>4. ASSUME t \notin gone' PROVE Stayed(t)'
    <3>1. CASE mapping'[t] = None
      BY <2>1, <3>1 DEF Stayed
    <3>2. CASE mapping'[t] # None
      <4>1. mapping'[t] = mapping[t] /\ dev[t] \notin Ram \ HostMapped
        BY <2>2, <3>2
      <4>2. mapping[t] # None /\ dev[t] = mapping[t][1]
        BY <1>1, <2>1, <2>4, <3>2, <4>1 DEF Stayed, Mapped
      <4>3. mapping[t][1] \in HostMapped
        BY <4>1, <4>2
      <4> QED
        BY <1>1, <2>1, <2>4, <4>1, <4>3 DEF Stayed
    <3> QED
      BY <3>1, <3>2
  <2> QED
    BY <2>1, <2>2, <2>3, <2>4 DEF Calls, Mapped
<1>10. CASE CallUnmap(t)
  <2>1. /\ pc[t] = "guard" /\ pc' = [pc EXCEPT ![t] = "find_again"]
        /\ dev' = [dev EXCEPT ![t] = None] /\ UNCHANGED <<arg, mapping>>
    BY <1>10 DEF CallUnmap, Goto
  <2>2. Calls(t)' /\ Mapped(t)'
    BY <2>1 DEF Calls, Mapped
  <2>3. t \notin gone' => Stayed(t)'
    BY <1>1, <2>1 DEF Stayed
  <2> QED
    BY <2>1, <2>2, <2>3
<1> QED
  BY <1>3, <1>5, <1>6, <1>7, <1>8, <1>9, <1>10

LEMMA MemoryKeeps ==
  ASSUME LockInv, BusInv, MemoryInv, [Next]_allVars
  PROVE  MemoryInv'
<1>1. CASE UNCHANGED allVars
  BY <1>1 DEF allVars, vars, busVars, threadVars, MemoryInv, MemoryTypeOK, Calls, Mapped,
              Stayed, Registered
<1>2. CASE Next
  <2>1. PICK t \in Thread :
          \/ (BusCall(t) \/ ClientCall(t) \/ BusStep(t)) /\ UNCHANGED mapping
          \/ \E r \in Target : CallMap(t, r)
          \/ Find(t) \/ FindAgain(t) \/ LeaveFound(t) \/ DemandMap(t)
          \/ UnmapCopied(t) \/ CallUnmap(t) \/ Unmap(t)
    BY <1>2, VbusAssumption, SimpleASAssumption DEF Next, MemoryStep
  <2>2. Watched
    BY <1>2, StepsWatch
  <2>3. CASE LockStep(t) /\ UNCHANGED <<busVars, threadVars>> /\ UNCHANGED mapping
    <3>1. MemoryTypeOK'
      BY <2>3 DEF threadVars, MemoryInv, MemoryTypeOK
    <3>2. \A u \in Thread : Calls(u)' /\ Mapped(u)' /\ (u \notin gone' => Stayed(u)')
      BY <2>2, <2>3, OthersMapped DEF threadVars
    <3> QED
      BY <3>1, <3>2 DEF MemoryInv
  <2>4. CASE ~(LockStep(t) /\ UNCHANGED <<busVars, threadVars>> /\ UNCHANGED mapping)
    <3>1. /\ MemoryTypeOK' /\ Calls(t)' /\ Mapped(t)' /\ (t \notin gone' => Stayed(t)')
          /\ \A u \in Thread \ {t} :
               /\ dev'[u] = dev[u] /\ mapping'[u] = mapping[u]
               /\ arg'[u] = arg[u] /\ pc'[u] = pc[u]
      BY <2>1, <2>2, <2>4, BusMapped, MemoryMapped
    <3>2. \A u \in Thread \ {t} :
            Calls(u)' /\ Mapped(u)' /\ (u \notin gone' => Stayed(u)')
      BY <2>2, <3>1, OthersMapped
    <3> QED
      BY <3>1, <3>2 DEF MemoryInv
  <2> QED
    BY <2>3, <2>4
<1> QED
  BY <1>1, <1>2

(* MappingGuard: as long as the memory a thread has mapped stays on the bus,
   the lookup of the unmap finds that memory, however other devices and
   memories come and go between the two lookups, and a thread that has
   returned has nothing mapped that it should have unmapped. *)
THEOREM MappingsGivenBack == Spec => []MappingsReturned
<1>1. Init => LockInv /\ BusInv /\ MemoryInv
  <2>1. Init => MemoryInv
    BY DEF Init, BusInit, MemoryInv, MemoryTypeOK, Calls, Mapped, Stayed, Using
  <2> QED
    BY <2>1, LockInitial, BusInitial DEF Init
<1>2. LockInv /\ BusInv /\ MemoryInv /\ [Next]_allVars => LockInv' /\ BusInv' /\ MemoryInv'
  BY StepsOfTheLock, LockKeeps, BusKeeps, MemoryKeeps
<1>3. MemoryInv => MappingsReturned
  BY DEF MemoryInv, Stayed, MappingsReturned, Using
<1> QED
  BY <1>1, <1>2, <1>3, PTL DEF Spec

-----------------------------------------------------------------------------
(* The virtual UART: the ring buffer *)

Element == Char \cup {Nul}

Queue == [widx : 0 .. FIFO_MAX_SIZE - 1, ridx : 0 .. FIFO_MAX_SIZE,
          cap : 1 .. FIFO_MAX_SIZE, data : [0 .. FIFO_MAX_SIZE - 1 -> Element]]

(* The indices stay below the capacity, and a queue that is empty starts
   again at 0. *)
Sound(q) == /\ q \in Queue
            /\ q.widx < q.cap
            /\ q.ridx <= q.cap
            /\ is_empty(q) => q.widx = 0

(* The remainders that occur wrap once. *)
LEMMA WrapOnce ==
  ASSUME NEW c \in Nat \ {0}, NEW n \in 0 .. 2 * c - 1
  PROVE  n % c = IF n < c THEN n ELSE n - c
OBVIOUS

(* The slot of element k of a ring whose read index is r. *)
Slot(c, r, k) == IF r + k - 1 < c THEN r + k - 1 ELSE r + k - 1 - c

LEMMA SlotFacts ==
  ASSUME NEW c \in Nat \ {0}, NEW r \in 0 .. c - 1, NEW k \in 1 .. c
  PROVE  /\ (r + k - 1) % c = Slot(c, r, k)
         /\ Slot(c, r, k) \in 0 .. c - 1
<1> DEFINE n == r + k - 1
<1>1. n \in 0 .. 2 * c - 1
  OBVIOUS
<1>2. n % c = IF n < c THEN n ELSE n - c
  <2> HIDE DEF n
  <2>. QED BY <1>1, WrapOnce
<1>. QED BY <1>1, <1>2 DEF Slot

(* The size of a ring that is not empty, from its read and write index. *)
Distance(c, r, w) == IF r < w THEN w - r ELSE w + c - r

(* The write index is behind the last element and meets none of them, and
   element k is element k + 1 once the read index has moved. *)
LEMMA DistanceFacts ==
  ASSUME NEW c \in Nat \ {0}, NEW r \in 0 .. c - 1, NEW w \in 0 .. c - 1
  PROVE  /\ Distance(c, r, w) \in 1 .. c
         /\ Slot(c, r, Distance(c, r, w) + 1) = w
         /\ r # w => \A k \in 1 .. Distance(c, r, w) : Slot(c, r, k) # w
         /\ \A k \in 1 .. c - 1 :
              Slot(c, IF r + 1 < c THEN r + 1 ELSE 0, k) = Slot(c, r, k + 1)
BY DEF Distance, Slot

(* The distance from the read to the write index. *)
LEMMA Size ==
  ASSUME NEW q, Sound(q)
  PROVE  /\ cur_size(q) = IF is_empty(q) THEN 0
                          ELSE Distance(q.cap, q.ridx, q.widx)
         /\ cur_size(q) \in 0 .. q.cap
         /\ cur_size(q) = 0 <=> is_empty(q)
         /\ cur_size(q) = q.cap <=> is_full(q)
<1>1. /\ q.cap \in Nat \ {0} /\ q.widx \in Nat /\ q.ridx \in Nat
      /\ q.widx < q.cap /\ q.ridx <= q.cap
  BY FifoAssumption DEF Sound, Queue
<1>2. CASE is_empty(q)
  BY <1>1, <1>2 DEF cur_size, is_empty, is_full
<1>3. CASE ~is_empty(q) /\ is_full(q)
  BY <1>1, <1>3 DEF cur_size, is_empty, is_full, Distance
<1>4. CASE ~is_empty(q) /\ ~is_full(q)
  <2> DEFINE n == (q.widx + q.cap) - q.ridx
  <2>1. q.ridx < q.cap /\ q.widx # q.ridx
    BY <1>1, <1>4 DEF is_empty, is_full
  <2>2. n \in 0 .. 2 * q.cap - 1
    BY <1>1, <2>1
  <2>3. n % q.cap = IF n < q.cap THEN n ELSE n - q.cap
    <3> HIDE DEF n
    <3>. QED BY <1>1, <2>2, WrapOnce
  <2>4. n % q.cap = Distance(q.cap, q.ridx, q.widx)
    BY <1>1, <2>1, <2>3 DEF Distance
  <2>5. cur_size(q) = Distance(q.cap, q.ridx, q.widx)
    BY <1>4, <2>4 DEF cur_size
  <2>. QED BY <1>1, <1>4, <2>1, <2>5 DEF Distance
<1>. QED BY <1>2, <1>3, <1>4

(* The contents are a sequence of the size of the queue. *)
LEMMA ContentsFacts ==
  ASSUME NEW q, Sound(q)
  PROVE  /\ Contents(q) \in Seq(Element)
         /\ Len(Contents(q)) = cur_size(q)
         /\ \A k \in 1 .. cur_size(q) : Contents(q)[k] = q.data[Slot(q.cap, q.ridx, k)]
<1>1. /\ q.cap \in Nat \ {0} /\ q.cap <= FIFO_MAX_SIZE
      /\ q.ridx \in Nat /\ q.ridx <= q.cap
      /\ q.data \in [0 .. FIFO_MAX_SIZE - 1 -> Element]
  BY FifoAssumption DEF Sound, Queue
<1>2. cur_size(q) \in 0 .. q.cap
  BY Size
<1>3. ASSUME NEW k \in 1 .. cur_size(q)
      PROVE  /\ (q.ridx + k - 1) % q.cap = Slot(q.cap, q.ridx, k)
             /\ Slot(q.cap, q.ridx, k) \in 0 .. FIFO_MAX_SIZE - 1
  <2>1. k \in 1 .. q.cap /\ ~is_empty(q)
    BY <1>1, <1>2, Size
  <2>2. q.ridx \in 0 .. q.cap - 1
    BY <1>1, <2>1 DEF is_empty
  <2>3. /\ (q.ridx + k - 1) % q.cap = Slot(q.cap, q.ridx, k)
        /\ Slot(q.cap, q.ridx, k) \in 0 .. q.cap - 1
    BY <1>1, <2>1, <2>2, SlotFacts
  <2>. QED BY <1>1, <2>3, FifoAssumption
<1>4. Contents(q) = [k \in 1 .. cur_size(q) |-> q.data[Slot(q.cap, q.ridx, k)]]
  BY <1>3 DEF Contents
<1>5. Contents(q) \in [1 .. cur_size(q) -> Element]
  BY <1>1, <1>3, <1>4
<1>6. Contents(q) \in Seq(Element)
  BY <1>1, <1>2, <1>5, SeqDef
<1>7. Len(Contents(q)) = cur_size(q)
  <2>1. DOMAIN Contents(q) = 1 .. cur_size(q) /\ cur_size(q) \in Nat
    BY <1>1, <1>2, <1>5
  <2>. QED BY <1>6, <2>1
<1>. QED BY <1>4, <1>6, <1>7

(* enqueue appends to the contents of a queue that has room. *)
LEMMA EnqueueFacts ==
  ASSUME NEW q, Sound(q), NEW c \in Element, ~is_full(q)
  PROVE  /\ Sound(enqueue(q, c))
         /\ ~is_empty(enqueue(q, c))
         /\ Contents(enqueue(q, c)) = Append(Contents(q), c)
<1>1. /\ q.cap \in Nat \ {0} /\ q.cap <= FIFO_MAX_SIZE
      /\ q.widx \in 0 .. q.cap - 1 /\ q.ridx \in 0 .. q.cap
      /\ q.data \in [0 .. FIFO_MAX_SIZE - 1 -> Element]
      /\ is_empty(q) => q.widx = 0
      /\ q \in Queue
  BY FifoAssumption DEF Sound, Queue
<1> DEFINE next == IF q.widx + 1 < q.cap THEN q.widx + 1 ELSE 0
           p == enqueue(q, c)
<1>2. (q.widx + 1) % q.cap = next
  <2> DEFINE n == q.widx + 1
  <2>1. n \in 0 .. 2 * q.cap - 1
    BY <1>1
  <2>2. n % q.cap = IF n < q.cap THEN n ELSE n - q.cap
    <3> HIDE DEF n
    <3>. QED BY <1>1, <2>1, WrapOnce
  <2>. QED BY <1>1, <2>2
<1>3. next \in 0 .. q.cap - 1
  BY <1>1
<1>4. /\ p.cap = q.cap
      /\ p.widx = next
      /\ p.ridx = IF is_empty(q) THEN 0 ELSE q.ridx
      /\ p.data = [q.data EXCEPT ![q.widx] = c]
      /\ p \in Queue
  <2> HIDE DEF next
  <2>1. p = [q EXCEPT !.data[q.widx] = c, !.widx = next,
                      !.ridx = IF is_empty(q) THEN 0 ELSE q.ridx]
    BY <1>2 DEF enqueue
  <2>2. next \in 0 .. FIFO_MAX_SIZE - 1
    BY <1>1, <1>3, FifoAssumption
  <2> HIDE DEF p
  <2>3. p = [widx |-> next, ridx |-> IF is_empty(q) THEN 0 ELSE q.ridx,
             cap |-> q.cap, data |-> [q.data EXCEPT ![q.widx] = c]]
    BY <1>1, <2>1 DEF Queue
  <2>4. [q.data EXCEPT ![q.widx] = c] \in [0 .. FIFO_MAX_SIZE - 1 -> Element]
    BY <1>1
  <2>5. (IF is_empty(q) THEN 0 ELSE q.ridx) \in 0 .. FIFO_MAX_SIZE
    BY <1>1, FifoAssumption
  <2>6. q.cap \in 1 .. FIFO_MAX_SIZE
    BY <1>1, FifoAssumption
  <2>. QED BY <2>2, <2>3, <2>4, <2>5, <2>6 DEF Queue
<1> HIDE DEF p, next
<1>5. ~is_empty(p) /\ Sound(p)
  BY <1>1, <1>3, <1>4 DEF is_empty, Sound
<1>6. /\ p.ridx \in 0 .. q.cap - 1
      /\ cur_size(p) = cur_size(q) + 1
      /\ Slot(q.cap, p.ridx, cur_size(q) + 1) = q.widx
      /\ \A k \in 1 .. cur_size(q) : /\ p.ridx = q.ridx
                                     /\ Slot(q.cap, q.ridx, k) # q.widx
  <2>1. cur_size(p) = Distance(q.cap, p.ridx, p.widx)
    BY <1>4, <1>5, Size
  <2>2. CASE is_empty(q)
    <3>1. cur_size(q) = 0 /\ p.ridx = 0 /\ q.widx = 0
      BY <1>1, <1>4, <2>2, Size
    <3>2. Distance(q.cap, 0, next) = 1 /\ Slot(q.cap, 0, 1) = 0
      BY <1>1 , <3>1 DEF Distance, Slot, next
    <3>3. \A k \in 1 .. cur_size(q) : FALSE
      BY <3>1
    <3>4. cur_size(p) = 1 /\ p.ridx \in 0 .. q.cap - 1
      BY <1>1, <1>4, <2>1, <3>1, <3>2
    <3>. QED BY <3>1, <3>2, <3>3, <3>4
  <2>3. CASE ~is_empty(q)
    <3>1. p.ridx = q.ridx /\ q.ridx \in 0 .. q.cap - 1 /\ q.ridx # q.widx
      BY <1>1, <1>4, <2>3 DEF is_empty, is_full
    <3>2. cur_size(q) = Distance(q.cap, q.ridx, q.widx)
      BY <2>3, Size
    <3>3. Distance(q.cap, q.ridx, next) = Distance(q.cap, q.ridx, q.widx) + 1
      BY <1>1, <3>1 DEF Distance, next
    <3>4. /\ Slot(q.cap, q.ridx, Distance(q.cap, q.ridx, q.widx) + 1) = q.widx
          /\ \A k \in 1 .. Distance(q.cap, q.ridx, q.widx) : Slot(q.cap, q.ridx, k) # q.widx
      BY <1>1, <3>1, DistanceFacts
    <3>. QED BY <1>4, <2>1, <3>1, <3>2, <3>3, <3>4
  <2>. QED BY <2>2, <2>3
<1>7. Contents(p) = Append(Contents(q), c)
  <2>1. cur_size(q) \in 0 .. q.cap /\ cur_size(q) \in Nat
    BY <1>1, Size
  <2>2. /\ Append(Contents(q), c) \in Seq(Element)
        /\ Len(Append(Contents(q), c)) = cur_size(q) + 1
    BY ContentsFacts
  <2>3. Contents(p) \in Seq(Element) /\ Len(Contents(p)) = cur_size(q) + 1
    BY <1>5, <1>6, ContentsFacts
  <2>4. ASSUME NEW k \in 1 .. cur_size(q) + 1
        PROVE  Contents(p)[k] = Append(Contents(q), c)[k]
    <3>1. Contents(p)[k] = p.data[Slot(q.cap, p.ridx, k)]
      <4>1. \A j \in 1 .. cur_size(p) : Contents(p)[j] = p.data[Slot(p.cap, p.ridx, j)]
        BY <1>5, ContentsFacts
      <4>. QED BY <1>4, <1>6, <4>1
    <3>2. CASE k = cur_size(q) + 1
      <4>1. Append(Contents(q), c)[k] = c
        BY <3>2, ContentsFacts
      <4>2. p.data[q.widx] = c
        BY <1>1, <1>4, FifoAssumption
      <4>. QED BY <1>6, <3>1, <3>2, <4>1, <4>2
    <3>3. CASE k \in 1 .. cur_size(q)
      <4>1. /\ Append(Contents(q), c)[k] = Contents(q)[k]
            /\ Contents(q)[k] = q.data[Slot(q.cap, q.ridx, k)]
        BY <3>3, ContentsFacts
      <4>2. p.ridx = q.ridx /\ Slot(q.cap, q.ridx, k) # q.widx
        BY <1>6, <3>3
      <4>3. Slot(q.cap, q.ridx, k) \in 0 .. q.cap - 1
        <5>1. k \in 1 .. q.cap /\ q.ridx \in 0 .. q.cap - 1
          BY <1>1, <1>6, <2>1, <3>3, <4>2
        <5>. QED BY <1>1, <5>1, SlotFacts
      <4>4. p.data[Slot(q.cap, q.ridx, k)] = q.data[Slot(q.cap, q.ridx, k)]
        BY <1>1, <1>4, <4>2, <4>3, FifoAssumption
      <4>. QED BY <3>1, <4>1, <4>2, <4>4
    <3>4. k = cur_size(q) + 1 \/ k \in 1 .. cur_size(q)
      BY <2>1
    <3>. QED BY <3>2, <3>3, <3>4
  <2>. QED BY <2>1, <2>2, <2>3, <2>4, SeqEqual
<1>. QED BY <1>5, <1>7 DEF p

(* An empty queue has no contents, and only an empty one has none. *)
LEMMA EmptyFacts ==
  ASSUME NEW q, Sound(q)
  PROVE  Contents(q) = <<>> <=> is_empty(q)
<1>1. Contents(q) \in Seq(Element) /\ Len(Contents(q)) = cur_size(q)
  BY ContentsFacts
<1>2. cur_size(q) = 0 <=> is_empty(q)
  BY Size
<1>. QED BY <1>1, <1>2, EmptySeq

(* dequeue removes the oldest element. *)
LEMMA DequeueFacts ==
  ASSUME NEW q, Sound(q), ~is_empty(q)
  PROVE  /\ Sound(dequeue(q))
         /\ Contents(dequeue(q)) = Tail(Contents(q))
<1>1. /\ q.cap \in Nat \ {0} /\ q.cap \in 1 .. FIFO_MAX_SIZE
      /\ q.widx \in 0 .. q.cap - 1 /\ q.ridx \in 0 .. q.cap - 1
      /\ q.data \in [0 .. FIFO_MAX_SIZE - 1 -> Element]
      /\ q \in Queue
  BY FifoAssumption DEF Sound, Queue, is_empty
<1> DEFINE next == IF q.ridx + 1 < q.cap THEN q.ridx + 1 ELSE 0
           p == dequeue(q)
<1>2. (q.ridx + 1) % q.cap = next
  <2> DEFINE n == q.ridx + 1
  <2>1. n \in 0 .. 2 * q.cap - 1
    BY <1>1
  <2>2. n % q.cap = IF n < q.cap THEN n ELSE n - q.cap
    <3> HIDE DEF n
    <3>. QED BY <1>1, <2>1, WrapOnce
  <2>. QED BY <1>1, <2>2
<1>3. next \in 0 .. q.cap - 1
  BY <1>1
<1>4. p = IF next = q.widx THEN [q EXCEPT !.widx = 0, !.ridx = q.cap]
                           ELSE [q EXCEPT !.ridx = next]
  BY <1>2 DEF dequeue
<1>5. cur_size(q) = Distance(q.cap, q.ridx, q.widx)
  BY Size
<1>6. /\ Contents(q) \in Seq(Element) /\ Len(Contents(q)) = cur_size(q)
      /\ \A k \in 1 .. cur_size(q) : Contents(q)[k] = q.data[Slot(q.cap, q.ridx, k)]
  BY ContentsFacts
<1>7. Contents(q) # <<>>
  BY EmptyFacts
<1>8. /\ Tail(Contents(q)) \in Seq(Element)
      /\ Len(Tail(Contents(q))) = cur_size(q) - 1
      /\ \A k \in 1 .. cur_size(q) - 1 : Tail(Contents(q))[k] = Contents(q)[k + 1]
  BY <1>6, <1>7, HeadTailProperties
<1>9. cur_size(q) \in 1 .. q.cap /\ cur_size(q) \in Nat
  <2>1. Distance(q.cap, q.ridx, q.widx) \in 1 .. q.cap
    BY <1>1, DistanceFacts
  <2>. QED BY <1>1, <1>5, <2>1
<1>10. CASE next = q.widx
  <2> HIDE DEF p
  <2>1. p = [widx |-> 0, ridx |-> q.cap, cap |-> q.cap, data |-> q.data]
    <3> HIDE DEF next
    <3>. QED BY <1>1, <1>4, <1>10 DEF Queue
  <2>2. p.widx = 0 /\ p.ridx = q.cap /\ p.cap = q.cap
    BY <2>1
  <2>3. p \in Queue
    BY <1>1, <2>1, FifoAssumption DEF Queue
  <2>4. Sound(p) /\ is_empty(p)
    BY <1>1, <2>2, <2>3 DEF Sound, is_empty
  <2>5. cur_size(q) = 1
    BY <1>1, <1>5, <1>10 DEF Distance
  <2>6. Tail(Contents(q)) = <<>>
    <3>1. Len(Tail(Contents(q))) = 0
      BY <1>8, <2>5
    <3>. QED BY <1>8, <3>1, EmptySeq
  <2>7. Contents(p) = <<>>
    BY <2>4, EmptyFacts
  <2>. QED BY <2>4, <2>6, <2>7 DEF p
<1>11. CASE next # q.widx
  <2> HIDE DEF p
  <2>1. p = [widx |-> q.widx, ridx |-> next, cap |-> q.cap, data |-> q.data]
    <3> HIDE DEF next
    <3>. QED BY <1>1, <1>4, <1>11 DEF Queue
  <2>2. p.widx = q.widx /\ p.ridx = next /\ p.cap = q.cap /\ p.data = q.data
    <3> HIDE DEF next
    <3>. QED BY <2>1
  <2>3. next \in 0 .. FIFO_MAX_SIZE
    BY <1>1, <1>3, FifoAssumption
  <2>4. p \in Queue
    <3> HIDE DEF next
    <3>1. q.widx \in 0 .. FIFO_MAX_SIZE - 1
      BY <1>1, FifoAssumption
    <3>. QED BY <1>1, <2>1, <2>3, <3>1 DEF Queue
  <2>5. Sound(p) /\ ~is_empty(p)
    <3> HIDE DEF next
    <3>. QED BY <1>1, <1>3, <2>2, <2>4 DEF Sound, is_empty
  <2>6. cur_size(p) = cur_size(q) - 1
    <3>1. cur_size(p) = Distance(q.cap, next, q.widx)
      BY <2>2, <2>5, Size
    <3>2. Distance(q.cap, next, q.widx) = Distance(q.cap, q.ridx, q.widx) - 1
      BY <1>1, <1>11 DEF Distance
    <3>. QED BY <1>5, <3>1, <3>2
  <2>7. /\ Contents(p) \in Seq(Element) /\ Len(Contents(p)) = cur_size(q) - 1
        /\ \A k \in 1 .. cur_size(p) : Contents(p)[k] = p.data[Slot(p.cap, p.ridx, k)]
    BY <2>5, <2>6, ContentsFacts
  <2>8. ASSUME NEW k \in 1 .. cur_size(q) - 1
        PROVE  Contents(p)[k] = Tail(Contents(q))[k]
    <3>1. Contents(p)[k] = q.data[Slot(q.cap, next, k)]
      <4> HIDE DEF next
      <4>. QED BY <2>2, <2>6, <2>7
    <3>2. k \in 1 .. q.cap - 1 /\ k + 1 \in 1 .. cur_size(q)
      BY <1>1, <1>9
    <3>3. Slot(q.cap, next, k) = Slot(q.cap, q.ridx, k + 1)
      BY <1>1, <3>2, DistanceFacts
    <3>4. Tail(Contents(q))[k] = q.data[Slot(q.cap, q.ridx, k + 1)]
      BY <1>6, <1>8, <3>2
    <3>. QED BY <3>1, <3>3, <3>4
  <2>9. Contents(p) = Tail(Contents(q))
    BY <1>8, <1>9, <2>7, <2>8, SeqEqual
  <2>. QED BY <2>5, <2>9 DEF p
<1>. QED BY <1>10, <1>11

(* reset leaves nothing in a queue. *)
LEMMA ResetFacts ==
  ASSUME NEW q, q \in Queue, NEW new_cap \in 1 .. FIFO_MAX_SIZE
  PROVE  /\ Sound(reset(q, new_cap))
         /\ is_empty(reset(q, new_cap))
         /\ Contents(reset(q, new_cap)) = <<>>
<1> DEFINE p == reset(q, new_cap)
<1>1. p = [widx |-> 0, ridx |-> new_cap, cap |-> new_cap, data |-> q.data]
  <2>1. p = [q EXCEPT !.cap = new_cap, !.widx = 0, !.ridx = new_cap]
    BY DEF reset
  <2> HIDE DEF p
  <2>. QED BY <2>1 DEF Queue
<1>2. Sound(p) /\ is_empty(p)
  BY <1>1, FifoAssumption DEF Sound, Queue, is_empty
<1>. QED BY <1>2, EmptyFacts

-----------------------------------------------------------------------------
(* The UART *)

RxSound == Sound(rx_fifo)

(* A write of UARTLCR_H and a reset empty the receive queue. *)
LEMMA Flushes ==
  ASSUME RxSound, WriteLCR_H \/ Reset
  PROVE  /\ RxSound'
         /\ is_empty(rx_fifo')
         /\ Contents(rx_fifo)' = <<>>
<1>1. PICK n \in {1, FIFO_MAX_SIZE} : rx_fifo' = reset(rx_fifo, n)
  <2>1. CASE WriteLCR_H
    BY <2>1 DEF WriteLCR_H, reset_maximize_capacity
  <2>2. CASE Reset
    BY <2>2 DEF Reset
  <2>. QED BY <2>1, <2>2
<1>2. n \in 1 .. FIFO_MAX_SIZE
  BY FifoAssumption
<1>. QED BY <1>1, <1>2, ResetFacts DEF RxSound, Sound

(* Whatever a step does to the receive queue is one of the operations above. *)
LEMMA RxStep ==
  ASSUME RxSound, [UartNext]_uartVars
  PROVE  /\ RxSound'
         /\ \/ UNCHANGED rx_fifo
            \/ /\ WriteToRxQueue
               /\ \E c \in Char : Contents(rx_fifo)' = Append(Contents(rx_fifo), c)
               /\ ~is_empty(rx_fifo')
            \/ ReadDR /\ Contents(rx_fifo)' = Tail(Contents(rx_fifo))
            \/ /\ WriteLCR_H \/ Reset
               /\ Contents(rx_fifo)' = <<>>
               /\ is_empty(rx_fifo')
<1>1. CASE UNCHANGED rx_fifo
  BY <1>1 DEF RxSound
<1>2. CASE WriteToRxQueue
  <2>1. PICK c \in Char : rx_fifo' = enqueue(rx_fifo, c)
    BY <1>2 DEF WriteToRxQueue
  <2>2. ~is_full(rx_fifo)
    BY <1>2 DEF WriteToRxQueue, wait_to_receive
  <2>3. c \in Element
    BY DEF Element
  <2>4. /\ Sound(enqueue(rx_fifo, c)) /\ ~is_empty(enqueue(rx_fifo, c))
        /\ Contents(enqueue(rx_fifo, c)) = Append(Contents(rx_fifo), c)
    BY <2>2, <2>3, EnqueueFacts DEF RxSound
  <2>5. Contents(rx_fifo)' = Contents(rx_fifo') /\ RxSound' <=> Sound(rx_fifo')
    BY DEF RxSound
  <2>. QED BY <1>2, <2>1, <2>4, <2>5 DEF RxSound
<1>3. CASE ReadDR
  <2>1. rx_fifo' = dequeue(rx_fifo) /\ ~is_empty(rx_fifo)
    BY <1>3 DEF ReadDR
  <2>. QED BY <1>3, <2>1, DequeueFacts DEF RxSound
<1>4. CASE WriteLCR_H \/ Reset
  BY <1>4, Flushes
<1>5. CASE \/ WriteDR \/ WriteCR \/ WriteIFLS \/ WriteIMSC \/ WriteICR
           \/ CallToGuest \/ FindNoSpace \/ WaitForAvailableBuffer
           \/ UNCHANGED uartVars
  BY <1>1, <1>5 DEF WriteDR, WriteCR, WriteIFLS, WriteIMSC, WriteICR, CallToGuest,
                    FindNoSpace, WaitForAvailableBuffer, queues, uartVars
<1>. QED BY <1>2, <1>3, <1>4, <1>5 DEF UartNext, Guest, Producer

(* The receive queue is sound and empty when the UART is made. *)
LEMMA RxInit ==
  ASSUME UartInit
  PROVE  RxSound /\ is_empty(rx_fifo) /\ Contents(rx_fifo) = <<>>
<1>1. InitQueue \in Queue
  BY FifoAssumption DEF InitQueue, Queue, Element
<1>2. Sound(InitQueue) /\ is_empty(InitQueue)
  BY <1>1 DEF Sound, is_empty, InitQueue
<1>. QED BY <1>2, EmptyFacts DEF UartInit, RxSound

(* The receive queue of the UART stays sound. *)
THEOREM QueueSound == UartSpec => []RxSound
<1>1. UartInit => RxSound
  BY RxInit
<1>2. RxSound /\ [UartNext]_uartVars => RxSound'
  BY RxStep
<1>. QED BY <1>1, <1>2, PTL DEF UartSpec

(* A character in the receive FIFO has its raw status set, unless the guest
   has cleared it (write_to_rx_queue, mmio_read of UARTDR, mmio_write_ifls). *)
THEOREM NoCharacterUnseen == UartSpec => []RxNotLost
<1>1. UartInit => RxNotLost
  BY RxInit DEF RxNotLost
<1>2. RxSound /\ RxNotLost /\ [UartNext]_uartVars => RxNotLost'
  <2> SUFFICES ASSUME RxSound, RxNotLost, [UartNext]_uartVars
               PROVE  RxNotLost'
    OBVIOUS
  <2>1. /\ rx_irq_cond <=> ~is_empty(rx_fifo)
        /\ (rx_irq_cond <=> ~is_empty(rx_fifo))'
    <3>1. RxSound'
      BY RxStep
    <3>2. cur_size(rx_fifo) \in 0 .. rx_fifo.cap /\ rx_fifo.cap \in Int
      BY Size, FifoAssumption DEF RxSound, Sound, Queue
    <3>3. cur_size(rx_fifo') \in 0 .. rx_fifo'.cap /\ rx_fifo'.cap \in Int
      BY <3>1, Size, FifoAssumption DEF RxSound, Sound, Queue
    <3>. QED BY <3>1, <3>2, <3>3, Size DEF rx_irq_cond, RxSound
  <2> USE DEF RxNotLost
  <2>2. CASE WriteToRxQueue
    BY <2>2 DEF WriteToRxQueue, set_rxris
  <2>3. CASE ReadDR
    BY <2>1, <2>3 DEF ReadDR, set_rxris
  <2>4. CASE WriteDR
    BY <2>4 DEF WriteDR, set_txris
  <2>5. CASE WriteLCR_H \/ Reset
    <3>1. is_empty(rx_fifo')
      BY <2>5, Flushes
    <3>. QED BY <3>1
  <2>6. CASE WriteCR
    BY <2>6 DEF WriteCR, set_txris
  <2>7. CASE WriteIFLS
    BY <2>1, <2>7 DEF WriteIFLS, queues
  <2>8. CASE WriteIMSC
    BY <2>8 DEF WriteIMSC, queues
  <2>9. CASE WriteICR
    BY <2>9 DEF WriteICR, queues
  <2>10. CASE CallToGuest \/ FindNoSpace \/ WaitForAvailableBuffer \/ UNCHANGED uartVars
    BY <2>10 DEF CallToGuest, FindNoSpace, WaitForAvailableBuffer, queues, irqVars, uartVars
  <2>. QED BY <2>2, <2>3, <2>4, <2>5, <2>6, <2>7, <2>8, <2>9, <2>10 DEF UartNext, Guest, Producer
<1>. QED BY <1>1, <1>2, QueueSound, PTL DEF UartSpec

(* A producer that sleeps while the queue has room has its wakeup pending, or
   the guest has emptied the queue (wait_for_available_buffer). *)
THEOREM ProducerWoken == UartSpec => []ProducerNotStuck
<1>1. UartInit => ProducerNotStuck
  BY DEF UartInit, ProducerNotStuck
<1>2. RxSound /\ ProducerNotStuck /\ [UartNext]_uartVars => ProducerNotStuck'
  <2> SUFFICES ASSUME RxSound, ProducerNotStuck, [UartNext]_uartVars
               PROVE  ProducerNotStuck'
    OBVIOUS
  <2> USE DEF ProducerNotStuck, wait_to_receive, can_rx
  <2>1. CASE WriteToRxQueue
    BY <2>1 DEF WriteToRxQueue
  <2>2. CASE ReadDR
    BY <2>2 DEF ReadDR
  <2>3. CASE WriteDR
    BY <2>3 DEF WriteDR
  <2>4. CASE WriteLCR_H
    BY <2>4, Flushes
  <2>5. CASE Reset
    BY <2>5 DEF Reset
  <2>6. CASE WriteCR
    BY <2>6 DEF WriteCR
  <2>7. CASE WriteIFLS
    BY <2>7 DEF WriteIFLS, queues
  <2>8. CASE WriteIMSC
    BY <2>8 DEF WriteIMSC, queues
  <2>9. CASE WriteICR
    BY <2>9 DEF WriteICR, queues
  <2>10. CASE CallToGuest \/ FindNoSpace \/ WaitForAvailableBuffer \/ UNCHANGED uartVars
    BY <2>10 DEF CallToGuest, FindNoSpace, WaitForAvailableBuffer, queues, irqVars, uartVars
  <2>. QED BY <2>1, <2>2, <2>3, <2>4, <2>5, <2>6, <2>7, <2>8, <2>9, <2>10 DEF UartNext, Guest, Producer
<1>. QED BY <1>1, <1>2, QueueSound, PTL DEF UartSpec

(* The receive path is a queue: nothing is lost but by a flush, nothing is
   read twice, and the order is kept. *)
THEOREM ReceivesInOrder == UartSpec => ImplementsFifo
<1>1. UartInit => Contents(rx_fifo) = <<>>
  BY RxInit
<1>2. RxSound /\ [UartNext]_uartVars =>
        [Rx!Get \/ Rx!Flush \/ \E c \in Char : Rx!Put(c)]_(Contents(rx_fifo))
  <2> SUFFICES ASSUME RxSound, [UartNext]_uartVars
               PROVE  [Rx!Get \/ Rx!Flush \/ \E c \in Char : Rx!Put(c)]_(Contents(rx_fifo))
    OBVIOUS
  <2>1. CASE UNCHANGED rx_fifo
    BY <2>1 DEF Contents
  <2>2. CASE \E c \in Char : /\ WriteToRxQueue
                             /\ Contents(rx_fifo)' = Append(Contents(rx_fifo), c)
    <3>1. ~is_full(rx_fifo)
      BY <2>2 DEF WriteToRxQueue, wait_to_receive
    <3>2. Len(Contents(rx_fifo)) < FIFO_MAX_SIZE
      <4>1. /\ Len(Contents(rx_fifo)) \in 0 .. rx_fifo.cap
            /\ Len(Contents(rx_fifo)) # rx_fifo.cap
            /\ rx_fifo.cap \in 1 .. FIFO_MAX_SIZE
        BY <3>1, ContentsFacts, Size DEF RxSound, Sound, Queue
      <4>. QED BY <4>1, FifoAssumption
    <3>. QED BY <2>2, <3>2 DEF Rx!Put
  <2>3. CASE ReadDR /\ Contents(rx_fifo)' = Tail(Contents(rx_fifo))
    <3>1. Contents(rx_fifo) # <<>>
      BY <2>3, EmptyFacts DEF ReadDR, RxSound
    <3>. QED BY <2>3, <3>1 DEF Rx!Get
  <2>4. CASE Contents(rx_fifo)' = <<>>
    BY <2>4 DEF Rx!Flush
  <2>. QED BY <2>1, <2>2, <2>3, <2>4, RxStep
<1>. QED BY <1>1, <1>2, QueueSound, PTL DEF UartSpec, ImplementsFifo, Rx!Spec
=============================================================================
