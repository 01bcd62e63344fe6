--------------------------- MODULE VirtqueueTheorems ---------------------------
(***************************************************************************)
(* What module Virtqueue promises, proved for every size of the rings and  *)
(* every width of the counters, and, at the end, that the buffers made of  *)
(* its chains (VirtioSg) conclude every copy between them once, that a     *)
(* copy nothing stops moves every byte of its request, and that the length *)
(* given back to the driver is not more than what was written.             *)
(***************************************************************************)
EXTENDS Virtqueue, VirtioSg, FiniteSetTheorems, SequenceTheorems, WellFoundedInduction,
        TLAPS

-----------------------------------------------------------------------------
(* Counters that wrap at W, and the slots of the rings that they name. *)

Slot(p) == p % Size

(* How far counter b is ahead of counter a, and the counters from a up to b. *)
Ahead(a, b) == IF a <= b THEN b - a ELSE b - a + W
Live(a, b) == {p \in Index : Ahead(a, p) < Ahead(a, b)}

LEMMA Division ==
  ASSUME NEW n \in Nat \ {0}, NEW x \in Nat
  PROVE  x = n * (x \div n) + (x % n) /\ x \div n \in Nat /\ x % n \in 0 .. n - 1
OBVIOUS

LEMMA Remainder ==
  ASSUME NEW n \in Nat \ {0}, NEW q \in Nat, NEW r \in 0 .. n - 1
  PROVE  (n * q + r) % n = r
OBVIOUS

LEMMA SlotInDesc ==
  ASSUME NEW x \in Nat
  PROVE  Slot(x) \in Desc
BY VirtqueueAssumption, Division DEF Slot, Desc

LEMMA SlotOfHead ==
  ASSUME NEW h \in Desc
  PROVE  h % Size = h
BY VirtqueueAssumption DEF Desc

LEMMA SlotWraps ==
  ASSUME NEW x \in Nat
  PROVE  Slot(x + W) = Slot(x)
<1> DEFINE n == Size
           q == x \div n
           k == W \div n
           r == x % n
<1>1. n \in Nat \ {0} /\ W \in Nat /\ W % n = 0
  BY VirtqueueAssumption
<1> HIDE DEF n
<1>2. x = n * q + r /\ q \in Nat /\ r \in 0 .. n - 1
  BY <1>1, Division
<1>3. W = n * k /\ k \in Nat
  BY <1>1, Division
<1> HIDE DEF q, k, r
<1>4. x + W = n * (q + k) + r /\ q + k \in Nat
  BY <1>1, <1>2, <1>3
<1>5. (x + W) % n = r
  BY <1>1, <1>2, <1>4, Remainder
<1>6. x % n = r
  BY <1>1, <1>2, Remainder
<1> QED
  BY <1>5, <1>6 DEF Slot, n

LEMMA SlotsDiffer ==
  ASSUME NEW x \in Nat, NEW y \in Nat, x < y, y < x + Size
  PROVE  Slot(x) # Slot(y)
<1> DEFINE n == Size
           q == x \div n
           k == y \div n
<1>1. n \in Nat \ {0} /\ y < x + n
  BY VirtqueueAssumption
<1> HIDE DEF n
<1>2. /\ x = n * q + (x % n) /\ q \in Nat /\ x % n \in Nat
      /\ y = n * k + (y % n) /\ k \in Nat /\ y % n \in Nat
  <2>1. x = n * q + (x % n) /\ q \in Nat /\ x % n \in 0 .. n - 1
    BY <1>1, Division
  <2>2. y = n * k + (y % n) /\ k \in Nat /\ y % n \in 0 .. n - 1
    BY <1>1, Division
  <2> HIDE DEF q, k
  <2> QED
    BY <1>1, <2>1, <2>2
<1> HIDE DEF q, k
<1> SUFFICES ASSUME x % n = y % n
             PROVE  FALSE
  BY DEF Slot, n
<1>3. y - x = n * (k - q)
  BY <1>1, <1>2
<1>4. k - q >= 1
  BY <1>1, <1>2, <1>3
<1>5. n * (k - q) >= n
  BY <1>1, <1>2, <1>4
<1> QED
  BY <1>1, <1>3, <1>5

LEMMA AheadType ==
  ASSUME NEW a \in Index, NEW b \in Index
  PROVE  /\ Ahead(a, b) \in Index /\ Ahead(a, b) \in Nat /\ (b - a) % W = Ahead(a, b)
         /\ (Ahead(a, b) = 0 <=> a = b) /\ Ahead(a, a) = 0
BY VirtqueueAssumption DEF Ahead, Index

LEMMA IncType ==
  ASSUME NEW a \in Index
  PROVE  Inc(a) \in Index /\ Inc(a) = (IF a + 1 = W THEN 0 ELSE a + 1) /\ Inc(a) # a
         /\ Ahead(a, Inc(a)) = 1
<1>1. W \in Nat /\ W > 1
  BY VirtqueueAssumption
<1>2. Inc(a) = IF a + 1 = W THEN 0 ELSE a + 1
  BY <1>1 DEF Inc, Index
<1> QED
  BY <1>1, <1>2 DEF Index, Ahead

LEMMA AheadInc ==
  ASSUME NEW a \in Index, NEW b \in Index
  PROVE  /\ Ahead(a, b) < W - 1 => Ahead(a, Inc(b)) = Ahead(a, b) + 1
         /\ a # b => Ahead(Inc(a), b) = Ahead(a, b) - 1
<1>1. W \in Nat /\ W > 1
  BY VirtqueueAssumption
<1> QED
  BY <1>1, IncType DEF Index, Ahead

LEMMA LiveExtends ==
  ASSUME NEW a \in Index, NEW b \in Index, Ahead(a, b) < W - 1
  PROVE  Live(a, Inc(b)) = Live(a, b) \cup {b} /\ b \notin Live(a, b)
<1>1. W \in Nat /\ W > 1 /\ Ahead(a, Inc(b)) = Ahead(a, b) + 1
  BY VirtqueueAssumption, AheadInc
<1>2. \A p \in Index : Ahead(a, p) = Ahead(a, b) => p = b
  BY <1>1 DEF Ahead, Index
<1>3. \A p \in Index : Ahead(a, p) \in Nat
  BY AheadType
<1> QED
  BY <1>1, <1>2, <1>3 DEF Live

LEMMA LiveShrinks ==
  ASSUME NEW a \in Index, NEW b \in Index, a # b
  PROVE  Live(Inc(a), b) = Live(a, b) \ {a} /\ a \in Live(a, b)
<1>1. W \in Nat /\ W > 1 /\ Ahead(Inc(a), b) = Ahead(a, b) - 1
  BY VirtqueueAssumption, AheadInc
<1>2. \A p \in Index : Ahead(a, p) \in Nat /\ (p # a => Ahead(Inc(a), p) = Ahead(a, p) - 1)
  BY AheadType, AheadInc
<1>3. Ahead(Inc(a), a) = W - 1 /\ Ahead(a, b) < W /\ Ahead(a, a) = 0 /\ Ahead(a, b) # 0
  BY <1>1, IncType DEF Ahead, Index
<1>4. \A p \in Index : p \in Live(Inc(a), b) <=> p \in Live(a, b) /\ p # a
  BY <1>1, <1>2, <1>3 DEF Live
<1>5. a \in Live(a, b)
  BY <1>2, <1>3 DEF Live
<1> QED
  BY <1>4, <1>5 DEF Live

(* No more than Size counters name as many slots. *)
LEMMA LiveSlots ==
  ASSUME NEW a \in Index, NEW n \in Nat, n <= Size,
         NEW p \in Index, NEW q \in Index, p # q, Ahead(a, p) < n, Ahead(a, q) < n
  PROVE  Slot(p) # Slot(q)
<1>1. W \in Nat /\ Size \in Nat
  BY VirtqueueAssumption
<1>2. \A o \in Index : Ahead(a, o) \in Nat /\ Slot(a + Ahead(a, o)) = Slot(o)
  <2> TAKE o \in Index
  <2>1. Ahead(a, o) \in Nat /\ a + Ahead(a, o) \in {o, o + W} /\ o \in Nat
    BY <1>1, AheadType DEF Ahead, Index
  <2> QED
    BY <2>1, SlotWraps
<1>3. Ahead(a, p) # Ahead(a, q) /\ a \in Nat
  BY <1>1 DEF Ahead, Index
<1>4. Slot(a + Ahead(a, p)) # Slot(a + Ahead(a, q))
  <2>1. CASE Ahead(a, p) < Ahead(a, q)
    BY <1>1, <1>2, <1>3, <2>1, SlotsDiffer
  <2>2. CASE Ahead(a, q) < Ahead(a, p)
    BY <1>1, <1>2, <1>3, <2>2, SlotsDiffer
  <2> QED
    BY <1>2, <1>3, <2>1, <2>2
<1> QED
  BY <1>2, <1>4

-----------------------------------------------------------------------------
(* The entries of a ring between two counters, as a sequence. *)

LEMMA EntriesFacts ==
  ASSUME NEW r, r.ring \in [Desc -> Desc], NEW a \in Index, NEW b \in Index
  PROVE  /\ Entries(r, a, b) \in Seq(Desc) /\ Len(Entries(r, a, b)) = Ahead(a, b)
         /\ \A i \in 1 .. Ahead(a, b) : Entries(r, a, b)[i] = r.ring[Slot(a + i - 1)]
<1>1. Ahead(a, b) \in Nat /\ (b - a) % W = Ahead(a, b) /\ a \in Nat
  BY AheadType, VirtqueueAssumption DEF Index
<1>2. Entries(r, a, b) = [i \in 1 .. Ahead(a, b) |-> r.ring[Slot(a + i - 1)]]
  BY <1>1 DEF Entries, Slot
<1>3. \A i \in 1 .. Ahead(a, b) : a + i - 1 \in Nat
  BY <1>1
<1>4. \A i \in 1 .. Ahead(a, b) : r.ring[Slot(a + i - 1)] \in Desc
  BY <1>3, SlotInDesc
<1>5. Entries(r, a, b) \in [1 .. Ahead(a, b) -> Desc]
  BY <1>2, <1>4
<1>6. Entries(r, a, b) \in Seq(Desc)
  BY <1>1, <1>5, SeqDef
<1>7. Len(Entries(r, a, b)) = Ahead(a, b)
  BY <1>1, <1>5, <1>6, LenProperties
<1> QED
  BY <1>2, <1>6, <1>7

(* The place i of the sequence is that of one counter, and every one has a place. *)
LEMMA Places ==
  ASSUME NEW a \in Index, NEW b \in Index
  PROVE  /\ \A i \in 1 .. Ahead(a, b) : \E p \in Live(a, b) : Slot(a + i - 1) = Slot(p)
         /\ \A p \in Live(a, b) : \E i \in 1 .. Ahead(a, b) : Slot(a + i - 1) = Slot(p)
<1>1. W \in Nat /\ W > 1 /\ Ahead(a, b) \in Nat /\ Ahead(a, b) < W /\ a \in 0 .. W - 1
  <2>1. W \in Nat /\ W > 1
    BY VirtqueueAssumption
  <2>2. Ahead(a, b) \in 0 .. W - 1 /\ a \in 0 .. W - 1
    BY AheadType DEF Index
  <2> QED
    BY <2>1, <2>2
<1>2. ASSUME NEW i \in 1 .. Ahead(a, b)
      PROVE  \E p \in Live(a, b) : Slot(a + i - 1) = Slot(p)
  <2>1. CASE a + i - 1 < W
    <3>1. a + i - 1 \in Live(a, b)
      BY <1>1, <2>1 DEF Live, Ahead, Index
    <3> QED
      BY <3>1
  <2>2. CASE a + i - 1 >= W
    <3>1. a + i - 1 - W \in Index /\ Ahead(a, a + i - 1 - W) = i - 1
      BY <1>1, <2>2 DEF Ahead, Index
    <3>2. a + i - 1 - W \in Live(a, b)
      BY <1>1, <3>1 DEF Live
    <3>3. a + i - 1 - W \in Nat /\ (a + i - 1 - W) + W = a + i - 1
      BY <1>1, <2>2
    <3>4. Slot(a + i - 1) = Slot(a + i - 1 - W)
      BY <3>3, SlotWraps
    <3> QED
      BY <3>2, <3>4
  <2> QED
    BY <1>1, <2>1, <2>2
<1>3. ASSUME NEW p \in Live(a, b)
      PROVE  \E i \in 1 .. Ahead(a, b) : Slot(a + i - 1) = Slot(p)
  <2>1. p \in Index /\ p \in Nat /\ Ahead(a, p) < Ahead(a, b) /\ Ahead(a, p) \in Nat
    BY <1>1, AheadType DEF Live, Index
  <2> DEFINE i == Ahead(a, p) + 1
  <2>2. i \in 1 .. Ahead(a, b) /\ a + i - 1 \in {p, p + W}
    BY <1>1, <2>1 DEF Ahead
  <2>3. Slot(a + i - 1) = Slot(p)
    BY <2>1, <2>2, SlotWraps
  <2> QED
    BY <2>2, <2>3
<1> QED
  BY <1>2, <1>3

LEMMA EntriesKeep ==
  ASSUME NEW r, r.ring \in [Desc -> Desc], NEW s, s.ring \in [Desc -> Desc],
         NEW a \in Index, NEW b \in Index,
         \A p \in Live(a, b) : s.ring[Slot(p)] = r.ring[Slot(p)]
  PROVE  Entries(s, a, b) = Entries(r, a, b)
<1>1. \A i \in 1 .. Ahead(a, b) : s.ring[Slot(a + i - 1)] = r.ring[Slot(a + i - 1)]
  BY Places
<1>2. Ahead(a, b) = (b - a) % W
  BY AheadType
<1> QED
  BY <1>1, <1>2 DEF Entries, Slot

LEMMA EntriesAppend ==
  ASSUME NEW r, r.ring \in [Desc -> Desc], NEW a \in Index, NEW b \in Index,
         Ahead(a, b) < W - 1
  PROVE  Entries(r, a, Inc(b)) = Append(Entries(r, a, b), r.ring[Slot(b)])
<1> DEFINE n == Ahead(a, b)
           s == Entries(r, a, b)
           t == Entries(r, a, Inc(b))
           h == r.ring[Slot(b)]
<1>1. n \in Nat /\ Ahead(a, Inc(b)) = n + 1 /\ Inc(b) \in Index
  BY AheadType, AheadInc, IncType
<1>2. /\ s \in Seq(Desc) /\ Len(s) = n
      /\ \A i \in 1 .. n : s[i] = r.ring[Slot(a + i - 1)]
  BY EntriesFacts
<1>3. /\ t \in Seq(Desc) /\ Len(t) = n + 1
      /\ \A i \in 1 .. n + 1 : t[i] = r.ring[Slot(a + i - 1)]
  BY <1>1, EntriesFacts
<1>4. h \in Desc
  <2>1. b \in Nat
    BY VirtqueueAssumption DEF Index
  <2> QED
    BY <2>1, SlotInDesc
<1>5. Slot(a + n) = Slot(b)
  <2>1. a + n \in {b, b + W} /\ b \in Nat
    BY VirtqueueAssumption DEF Ahead, Index
  <2> QED
    BY <2>1, SlotWraps
<1>6. a \in Nat
  BY VirtqueueAssumption DEF Index
<1> HIDE DEF n, s, t, h
<1>7. Append(s, h) \in Seq(Desc) /\ Len(Append(s, h)) = n + 1 /\ Append(s, h)[n + 1] = h
      /\ \A i \in 1 .. n : Append(s, h)[i] = s[i]
  BY <1>1, <1>2, <1>4, AppendProperties
<1>8. ASSUME NEW i \in 1 .. n + 1
      PROVE  t[i] = Append(s, h)[i]
  <2>1. CASE i = n + 1
    BY <1>1, <1>3, <1>5, <1>6, <1>7, <2>1 DEF h
  <2>2. CASE i \in 1 .. n
    BY <1>2, <1>3, <1>7, <2>2
  <2>3. i = n + 1 \/ i \in 1 .. n
    BY <1>1
  <2> QED
    BY <2>1, <2>2, <2>3
<1>9. t = Append(s, h)
  BY <1>3, <1>7, <1>8, SeqEqual
<1> QED
  BY <1>9 DEF s, t, h

LEMMA EntriesTail ==
  ASSUME NEW r, r.ring \in [Desc -> Desc], NEW a \in Index, NEW b \in Index, a # b
  PROVE  /\ Entries(r, Inc(a), b) = Tail(Entries(r, a, b))
         /\ Head(Entries(r, a, b)) = r.ring[Slot(a)] /\ Entries(r, a, b) # <<>>
<1> DEFINE n == Ahead(a, b)
           s == Entries(r, a, b)
           t == Entries(r, Inc(a), b)
<1>1. n \in Nat /\ n # 0 /\ Ahead(Inc(a), b) = n - 1 /\ Inc(a) \in Index
  BY AheadType, AheadInc, IncType
<1>2. /\ s \in Seq(Desc) /\ Len(s) = n
      /\ \A i \in 1 .. n : s[i] = r.ring[Slot(a + i - 1)]
  BY EntriesFacts
<1>3. /\ t \in Seq(Desc) /\ Len(t) = n - 1
      /\ \A i \in 1 .. n - 1 : t[i] = r.ring[Slot(Inc(a) + i - 1)]
  BY <1>1, EntriesFacts
<1>4. a \in Nat /\ W \in Nat
  BY VirtqueueAssumption DEF Index
<1> HIDE DEF n, s, t
<1>5. ASSUME NEW i \in 1 .. n - 1
      PROVE  Slot(Inc(a) + i - 1) = Slot(a + i)
  <2>1. Inc(a) + i - 1 \in Nat /\ (a + i = Inc(a) + i - 1 \/ a + i = (Inc(a) + i - 1) + W)
    BY <1>1, <1>4, IncType
  <2> QED
    BY <2>1, SlotWraps
<1>6. s # <<>>
  BY <1>1, <1>2
<1>7. Tail(s) \in Seq(Desc) /\ Len(Tail(s)) = n - 1 /\ Head(s) = s[1]
      /\ \A i \in 1 .. n - 1 : Tail(s)[i] = s[i + 1]
  BY <1>1, <1>2, <1>6, HeadTailProperties
<1>8. ASSUME NEW i \in 1 .. n - 1
      PROVE  t[i] = Tail(s)[i]
  <2>1. i + 1 \in 1 .. n /\ a + (i + 1) - 1 = a + i
    BY <1>1, <1>4
  <2> QED
    BY <1>2, <1>3, <1>5, <1>7, <2>1
<1>9. t = Tail(s)
  BY <1>1, <1>3, <1>7, <1>8, SeqEqual
<1>10. s[1] = r.ring[Slot(a)]
  <2>1. 1 \in 1 .. n /\ a + 1 - 1 = a
    BY <1>1, <1>4
  <2> QED
    BY <1>2, <2>1
<1> QED
  BY <1>6, <1>7, <1>9, <1>10 DEF s, t

LEMMA DescFinite == IsFiniteSet(Desc) /\ Size \in Nat /\ W \in Nat /\ W > Size
<1>1. Size \in Nat /\ W \in Nat /\ W > Size
  BY VirtqueueAssumption
<1>2. 0 \in Int /\ Size - 1 \in Int
  BY <1>1
<1> QED
  BY <1>1, <1>2, FS_Interval DEF Desc

-----------------------------------------------------------------------------
(* The inductive invariant. *)

Region == [suppress : BOOLEAN, idx : Index, ring : [Desc -> Desc], event : Index]
Counters == [idx : Index, prev : Index, driven : Index]
Store == {<<>>} \cup ({"idx"} \X Index) \cup ({"suppress"} \X BOOLEAN)
Early == {<<>>} \cup {<<h>> : h \in Desc}

TypeOK ==
  /\ arch \in Arch
  /\ avail \in Region /\ used \in Region
  /\ drv \in Counters /\ dev \in Counters
  /\ drvOwns \in SUBSET Desc /\ devOwns \in SUBSET Desc
  /\ drvSaw \in Index
  /\ drvStore \in Store /\ devStore \in Store
  /\ drvAhead \in Early /\ devAhead \in Early

(* An entry has been written of which the other end cannot see the index. *)
StoresIndex(store) == store # <<>> /\ store[1] = "idx"
Pending(pc, store) == pc = "index" \/ StoresIndex(store)

(* The index that is visible, and the one that the queue has reached. *)
Follows(idx, driven, pc, store) ==
  /\ pc = "index" => store = <<>>
  /\ StoresIndex(store) => store[2] = driven
  /\ IF Pending(pc, store) THEN Inc(idx) = driven ELSE idx = driven

IndexInv ==
  /\ Follows(avail.idx, drv.driven, drvPc, drvStore)
  /\ Follows(used.idx, dev.driven, devPc, devStore)
  /\ Pending(drvPc, drvStore) => dev.idx # drv.driven
  /\ Pending(devPc, devStore) => drv.idx # dev.driven
  /\ drvPc = "entry" => drv.idx # used.idx
  /\ devPc = "entry" => dev.idx # avail.idx

(* No buffer is counted twice, whatever entry a recv has used. *)
BalanceInv ==
  Ahead(drv.idx, dev.driven) + Cardinality(devOwns)
    + Ahead(dev.idx, drv.driven) + Cardinality(drvOwns) <= Size

(* Every buffer is in one place, until a recv has used a stale entry. *)
AvailLive == Live(dev.idx, drv.driven)
UsedLive == Live(drv.idx, dev.driven)

HeadInv ==
  /\ \A p, q \in AvailLive : p # q => avail.ring[Slot(p)] # avail.ring[Slot(q)]
  /\ \A p, q \in UsedLive : p # q => used.ring[Slot(p)] # used.ring[Slot(q)]
  /\ \A p \in AvailLive, q \in UsedLive : avail.ring[Slot(p)] # used.ring[Slot(q)]
  /\ \A p \in AvailLive : avail.ring[Slot(p)] \notin drvOwns \cup devOwns
  /\ \A p \in UsedLive : used.ring[Slot(p)] \notin drvOwns \cup devOwns
  /\ drvOwns \cap devOwns = {}

(* The used_event of a driver that has collected everything is its _idx. *)
EventInv ==
  /\ Ahead(drv.idx, avail.event) <= Ahead(drv.idx, used.idx)
  /\ drvPc = "entry" => drvSaw # drv.idx /\ Ahead(drv.idx, drvSaw) <= Ahead(drv.idx, used.idx)
  /\ drvPc \in {"idle", "look", "wait", "wake"} => avail.event = drv.idx
  /\ devPc \in {"index", "sent"} => dev.driven = Inc(dev.prev)

IInv == TypeOK /\ IndexInv /\ BalanceInv /\ (stale \/ HeadInv) /\ EventInv

(* What a store leaves: a field of the region, at once or in the store buffer. *)
LEMMA AvailStores ==
  ASSUME TypeOK, NEW field \in {"idx", "suppress"}, NEW v, SetAvail(field, v),
         IF field = "idx" THEN v \in Index ELSE v \in BOOLEAN
  PROVE  /\ drvStore = <<>> /\ drvStore' \in {<<>>, <<field, v>>}
         /\ avail' \in Region /\ drvStore' \in Store
         /\ avail'.ring = avail.ring /\ avail'.event = avail.event
         /\ field = "suppress" => avail'.idx = avail.idx /\ ~StoresIndex(drvStore')
         /\ field = "idx" => IF drvStore' = <<>> THEN avail'.idx = v
                                                 ELSE avail'.idx = avail.idx
<1>1. <<field, v>> \in Store /\ <<field, v>> # <<>>
  BY DEF Store
<1>2. CASE Delayed
  <2>1. drvStore = <<>> /\ drvStore' = <<field, v>> /\ avail' = avail
    BY <1>2 DEF SetAvail
  <2>2. field = "suppress" => ~StoresIndex(<<field, v>>)
    BY DEF StoresIndex
  <2> QED
    BY <1>1, <2>1, <2>2 DEF TypeOK
<1>3. CASE ~Delayed
  BY <1>3 DEF SetAvail, TypeOK, StoresIndex, Region
<1> QED
  BY <1>2, <1>3

LEMMA UsedStores ==
  ASSUME TypeOK, NEW field \in {"idx", "suppress"}, NEW v, SetUsed(field, v),
         IF field = "idx" THEN v \in Index ELSE v \in BOOLEAN
  PROVE  /\ devStore = <<>> /\ devStore' \in {<<>>, <<field, v>>}
         /\ used' \in Region /\ devStore' \in Store
         /\ used'.ring = used.ring /\ used'.event = used.event
         /\ field = "suppress" => used'.idx = used.idx /\ ~StoresIndex(devStore')
         /\ field = "idx" => IF devStore' = <<>> THEN used'.idx = v
                                                 ELSE used'.idx = used.idx
<1>1. <<field, v>> \in Store /\ <<field, v>> # <<>>
  BY DEF Store
<1>2. CASE Delayed
  <2>1. devStore = <<>> /\ devStore' = <<field, v>> /\ used' = used
    BY <1>2 DEF SetUsed
  <2>2. field = "suppress" => ~StoresIndex(<<field, v>>)
    BY DEF StoresIndex
  <2> QED
    BY <1>1, <2>1, <2>2 DEF TypeOK
<1>3. CASE ~Delayed
  BY <1>3 DEF SetUsed, TypeOK, StoresIndex, Region
<1> QED
  BY <1>2, <1>3

(* A store buffer is drained. *)
LEMMA Drains ==
  ASSUME NEW r \in Region, NEW s \in Region, NEW store \in Store, store # <<>>,
         s = [r EXCEPT ![store[1]] = store[2]]
  PROVE  /\ s.ring = r.ring /\ s.event = r.event
         /\ StoresIndex(store) => s.idx = store[2]
         /\ ~StoresIndex(store) => s.idx = r.idx
<1>1. CASE store \in {"idx"} \X Index
  BY <1>1 DEF StoresIndex, Region
<1>2. CASE store \in {"suppress"} \X BOOLEAN
  BY <1>2 DEF StoresIndex, Region
<1> QED
  BY <1>1, <1>2 DEF Store

LEMMA DrainType ==
  ASSUME NEW r \in Region, NEW store \in Store, store # <<>>
  PROVE  [r EXCEPT ![store[1]] = store[2]] \in Region
<1>1. CASE store \in {"idx"} \X Index
  BY <1>1 DEF Region
<1>2. CASE store \in {"suppress"} \X BOOLEAN
  <2>1. store[1] = "suppress" /\ store[2] \in BOOLEAN
    BY <1>2
  <2>2. [r EXCEPT !["suppress"] = store[2]] \in Region
    BY <2>1 DEF Region
  <2> QED
    BY <2>1, <2>2
<1> QED
  BY <1>1, <1>2 DEF Store

(* What the steps of the driver do to the rings and the queues. *)
LEMMA DriverSends ==
  ASSUME TypeOK, NEW h \in Desc, DriverSend(h)
  PROVE  /\ drv' \in Counters /\ drv'.idx = drv.idx /\ drv'.driven = Inc(drv.driven)
         /\ avail' \in Region /\ avail'.idx = avail.idx /\ avail'.event = avail.event
         /\ avail'.ring = [avail.ring EXCEPT ![Slot(drv.driven)] = h]
         /\ drvOwns' = drvOwns \ {h} /\ h \in drvOwns /\ drvPc = "run" /\ drvPc' = "index"
         /\ drvStore = <<>> /\ UNCHANGED <<arch, used, drvSaw, drvStore, devVars>>
<1>1. drv' = [drv EXCEPT !.prev = drv.driven, !.driven = Inc(drv.driven)]
  BY DEF DriverSend, BumpDriven
<1>2. drv.driven \in Index /\ Inc(drv.driven) \in Index /\ drv \in Counters
  BY IncType DEF TypeOK, Counters
<1>3. drv' \in Counters /\ drv'.idx = drv.idx /\ drv'.driven = Inc(drv.driven)
  BY <1>1, <1>2 DEF Counters
<1>4. avail' = [avail EXCEPT !.ring[Slot(drv.driven)] = h] /\ avail \in Region
  BY DEF DriverSend, TypeOK, Slot
<1>5. avail' \in Region /\ avail'.idx = avail.idx /\ avail'.event = avail.event
      /\ avail'.ring = [avail.ring EXCEPT ![Slot(drv.driven)] = h]
  BY <1>4 DEF Region
<1> QED
  BY <1>3, <1>5 DEF DriverSend

LEMMA DeviceSends ==
  ASSUME TypeOK, NEW h \in Desc, DeviceSend(h)
  PROVE  /\ dev' \in Counters /\ dev'.idx = dev.idx /\ dev'.driven = Inc(dev.driven)
         /\ dev'.prev = dev.driven
         /\ used' \in Region /\ used'.idx = used.idx
         /\ used'.ring = [used.ring EXCEPT ![Slot(dev.driven)] = h]
         /\ devOwns' = devOwns \ {h} /\ h \in devOwns /\ devPc = "run" /\ devPc' = "index"
         /\ devStore = <<>> /\ UNCHANGED <<arch, avail, devStore, drvVars>>
<1>1. dev' = [dev EXCEPT !.prev = dev.driven, !.driven = Inc(dev.driven)]
  BY DEF DeviceSend, BumpDriven
<1>2. dev.driven \in Index /\ Inc(dev.driven) \in Index /\ dev \in Counters
  BY IncType DEF TypeOK, Counters
<1>3. dev' \in Counters /\ dev'.idx = dev.idx /\ dev'.driven = Inc(dev.driven)
      /\ dev'.prev = dev.driven
  BY <1>1, <1>2 DEF Counters
<1>4. used' = [used EXCEPT !.ring[Slot(dev.driven)] = h] /\ used \in Region
  BY DEF DeviceSend, TypeOK, Slot
<1>5. used' \in Region /\ used'.idx = used.idx
      /\ used'.ring = [used.ring EXCEPT ![Slot(dev.driven)] = h]
  BY <1>4 DEF Region
<1> QED
  BY <1>3, <1>5 DEF DeviceSend

LEMMA DriverCollects ==
  ASSUME TypeOK, DriverEntry
  PROVE  /\ drv' \in Counters /\ drv'.idx = Inc(drv.idx) /\ drv'.driven = drv.driven
         /\ avail' \in Region /\ avail'.idx = avail.idx /\ avail'.event = drvSaw
         /\ avail'.ring = avail.ring
         /\ \E h \in Desc : /\ drvOwns' = drvOwns \cup {h}
                            /\ stale' \/ h = used.ring[Slot(drv.idx)]
         /\ drvPc = "entry" /\ drvPc' = "run" /\ drvSaw' = 0
         /\ drvStore = <<>> /\ UNCHANGED <<arch, used, drvStore, devVars>>
<1>1. drv' = [drv EXCEPT !.idx = Inc(drv.idx)]
  BY DEF DriverEntry
<1>2. drv.idx \in Index /\ Inc(drv.idx) \in Index /\ drv \in Counters
  BY IncType DEF TypeOK, Counters
<1>3. drv' \in Counters /\ drv'.idx = Inc(drv.idx) /\ drv'.driven = drv.driven
  BY <1>1, <1>2 DEF Counters
<1>4. avail' = [avail EXCEPT !.event = drvSaw] /\ avail \in Region /\ drvSaw \in Index
  BY DEF DriverEntry, TypeOK
<1>5. avail' \in Region /\ avail'.idx = avail.idx /\ avail'.event = drvSaw
      /\ avail'.ring = avail.ring
  BY <1>4 DEF Region
<1> DEFINE now == used.ring[Slot(drv.idx)]
           id == Loaded(drvAhead, now)
<1>6. now \in Desc
  <2>1. Slot(drv.idx) \in Desc
    BY <1>2, SlotInDesc, VirtqueueAssumption DEF Index
  <2> QED
    BY <2>1 DEF TypeOK, Region
<1>7. id \in Desc
  BY <1>6 DEF TypeOK, Early, Loaded
<1>8. drvOwns' = drvOwns \cup {id} /\ (stale' \/ id = now)
  <2>1. drvOwns' = drvOwns \cup {id % Size} /\ stale' = (stale \/ id # now)
    BY DEF DriverEntry, Slot
  <2> HIDE DEF id, now
  <2> QED
    BY <1>7, <2>1, SlotOfHead DEF Slot
<1> HIDE DEF id
<1> QED
  BY <1>3, <1>5, <1>7, <1>8 DEF DriverEntry

LEMMA DeviceTakes ==
  ASSUME TypeOK, DeviceEntry
  PROVE  /\ dev' \in Counters /\ dev'.idx = Inc(dev.idx) /\ dev'.driven = dev.driven
         /\ \E h \in Desc : /\ devOwns' = devOwns \cup {h}
                            /\ stale' \/ h = avail.ring[Slot(dev.idx)]
         /\ devPc = "entry" /\ devPc' = "run"
         /\ devStore = <<>> /\ UNCHANGED <<arch, ring, devStore, drvVars>>
<1>1. dev' = [dev EXCEPT !.idx = Inc(dev.idx)]
  BY DEF DeviceEntry
<1>2. dev.idx \in Index /\ Inc(dev.idx) \in Index /\ dev \in Counters
  BY IncType DEF TypeOK, Counters
<1>3. dev' \in Counters /\ dev'.idx = Inc(dev.idx) /\ dev'.driven = dev.driven
  BY <1>1, <1>2 DEF Counters
<1> DEFINE now == avail.ring[Slot(dev.idx)]
           head == Loaded(devAhead, now)
<1>4. now \in Desc
  <2>1. Slot(dev.idx) \in Desc
    BY <1>2, SlotInDesc, VirtqueueAssumption DEF Index
  <2> QED
    BY <2>1 DEF TypeOK, Region
<1>5. head \in Desc
  BY <1>4 DEF TypeOK, Early, Loaded
<1>6. devOwns' = devOwns \cup {head} /\ (stale' \/ head = now)
  BY DEF DeviceEntry, Slot
<1> HIDE DEF head
<1> QED
  BY <1>3, <1>5, <1>6 DEF DeviceEntry

-----------------------------------------------------------------------------
(* The steps that keep it.  Those that move no index and no buffer: *)

DriverQuiet ==
  \/ DriverNotify \/ DriverAhead \/ DriverRecv
  \/ DriverEnables \/ DriverLooks \/ DriverWakes \/ DriverDisables
DeviceQuiet ==
  \/ DeviceInterrupts \/ DeviceAhead \/ DeviceRecv
  \/ DeviceEnables \/ DeviceLooks \/ DeviceWakes \/ DeviceDisables

LEMMA DriverQuiets ==
  ASSUME TypeOK, DriverQuiet
  PROVE  /\ avail' \in Region /\ avail'.idx = avail.idx /\ avail'.ring = avail.ring
         /\ avail'.event = avail.event
         /\ drvStore' \in Store /\ (StoresIndex(drvStore') => drvStore' = drvStore)
         /\ (StoresIndex(drvStore) => drvStore' = drvStore)
         /\ drvPc # "index" /\ drvPc' # "index" /\ drvPc # "entry"
         /\ UNCHANGED <<arch, used, drv, drvOwns, devVars>>
<1>1. CASE DriverNotify \/ DriverAhead \/ DriverRecv \/ DriverLooks \/ DriverWakes
  BY <1>1 DEF DriverNotify, DriverAhead, LoadsAhead, DriverRecv, DriverLooks, DriverWakes,
              ring, drvVars, TypeOK
<1>2. CASE DriverEnables \/ DriverDisables
  <2>1. \E v \in BOOLEAN : SetAvail("suppress", v)
    BY <1>2 DEF DriverEnables, DriverDisables
  <2>2. ~StoresIndex(<<>>)
    BY DEF StoresIndex
  <2>3. /\ avail' \in Region /\ avail'.idx = avail.idx /\ avail'.ring = avail.ring
        /\ avail'.event = avail.event /\ drvStore' \in Store /\ ~StoresIndex(drvStore')
        /\ drvStore = <<>>
    BY <2>1, AvailStores
  <2> QED
    BY <1>2, <2>2, <2>3 DEF DriverEnables, DriverDisables
<1> QED
  BY <1>1, <1>2 DEF DriverQuiet

LEMMA DeviceQuiets ==
  ASSUME TypeOK, DeviceQuiet
  PROVE  /\ used' \in Region /\ used'.idx = used.idx /\ used'.ring = used.ring
         /\ devStore' \in Store /\ (StoresIndex(devStore') => devStore' = devStore)
         /\ (StoresIndex(devStore) => devStore' = devStore)
         /\ devPc # "index" /\ devPc' \notin {"index", "sent"} /\ devPc # "entry"
         /\ UNCHANGED <<arch, avail, dev, devOwns, drvVars>>
<1>1. CASE DeviceInterrupts \/ DeviceAhead \/ DeviceRecv \/ DeviceLooks \/ DeviceWakes
  BY <1>1 DEF DeviceInterrupts, DeviceAhead, LoadsAhead, DeviceRecv, DeviceLooks, DeviceWakes,
              ring, devVars, TypeOK
<1>2. CASE DeviceEnables \/ DeviceDisables
  <2>1. \E v \in BOOLEAN : SetUsed("suppress", v)
    BY <1>2 DEF DeviceEnables, DeviceDisables
  <2>2. ~StoresIndex(<<>>)
    BY DEF StoresIndex
  <2>3. /\ used' \in Region /\ used'.idx = used.idx /\ used'.ring = used.ring
        /\ devStore' \in Store /\ ~StoresIndex(devStore') /\ devStore = <<>>
    BY <2>1, UsedStores
  <2> QED
    BY <1>2, <2>2, <2>3 DEF DeviceEnables, DeviceDisables
<1> QED
  BY <1>1, <1>2 DEF DeviceQuiet

(* The index of an entry that has been written becomes visible, at once or when
   the store buffer is drained. *)
LEMMA DriverStoresIndex ==
  ASSUME TypeOK, IndexInv, DriverIndex \/ DriverDrains
  PROVE  /\ avail' \in Region /\ avail'.ring = avail.ring /\ avail'.event = avail.event
         /\ drvStore' \in Store /\ drvPc' # "index" /\ drvPc' \in {"sent", drvPc}
         /\ Pending(drvPc', drvStore') =>
              Pending(drvPc, drvStore) /\ drvStore'[2] = drv.driven /\ avail'.idx = avail.idx
         /\ ~Pending(drvPc', drvStore') => avail'.idx = drv.driven
         /\ UNCHANGED <<arch, used, drv, drvOwns, drvSaw, devVars>>
<1>1. CASE DriverIndex
  <2>1. SetAvail("idx", drv.driven) /\ drv.driven \in Index
    BY <1>1 DEF DriverIndex, TypeOK, Counters
  <2>2. /\ drvStore' \in {<<>>, <<"idx", drv.driven>>}
        /\ avail' \in Region /\ drvStore' \in Store
        /\ avail'.ring = avail.ring /\ avail'.event = avail.event
        /\ IF drvStore' = <<>> THEN avail'.idx = drv.driven ELSE avail'.idx = avail.idx
    BY <2>1, AvailStores
  <2>3. drvPc = "index" /\ drvPc' = "sent"
        /\ UNCHANGED <<arch, used, drv, drvOwns, drvSaw, devVars>>
    BY <1>1 DEF DriverIndex
  <2> QED
    BY <2>2, <2>3 DEF Pending, StoresIndex
<1>2. CASE DriverDrains
  <2>1. drvStore # <<>> /\ drvStore' = <<>> /\ avail' = [avail EXCEPT ![drvStore[1]] = drvStore[2]]
        /\ UNCHANGED <<arch, used, drv, drvOwns, drvPc, drvSaw, devVars>>
        /\ avail \in Region /\ drvStore \in Store
    BY <1>2 DEF DriverDrains, TypeOK
  <2>2. avail' \in Region
    BY <2>1, DrainType
  <2>3. /\ avail'.ring = avail.ring /\ avail'.event = avail.event
        /\ StoresIndex(drvStore) => avail'.idx = drvStore[2]
        /\ ~StoresIndex(drvStore) => avail'.idx = avail.idx
    BY <2>1, <2>2, Drains
  <2>4. drvPc # "index" /\ ~Pending(drvPc', drvStore')
    BY <2>1 DEF IndexInv, Follows, Pending, StoresIndex
  <2>5. avail'.idx = drv.driven
    BY <2>1, <2>3, <2>4 DEF IndexInv, Follows, Pending
  <2>6. <<>> \in Store
    BY DEF Store
  <2> QED
    BY <2>1, <2>2, <2>3, <2>4, <2>5, <2>6
<1> QED
  BY <1>1, <1>2

LEMMA DeviceStoresIndex ==
  ASSUME TypeOK, IndexInv, DeviceIndex \/ DeviceDrains
  PROVE  /\ used' \in Region /\ used'.ring = used.ring
         /\ devStore' \in Store /\ devPc' # "index" /\ devPc' \in {"sent", devPc}
         /\ devPc' = "sent" => devPc \in {"index", "sent"}
         /\ Pending(devPc', devStore') =>
              Pending(devPc, devStore) /\ devStore'[2] = dev.driven /\ used'.idx = used.idx
         /\ ~Pending(devPc', devStore') => used'.idx = dev.driven
         /\ UNCHANGED <<arch, avail, dev, devOwns, drvVars>>
<1>1. CASE DeviceIndex
  <2>1. SetUsed("idx", dev.driven) /\ dev.driven \in Index
    BY <1>1 DEF DeviceIndex, TypeOK, Counters
  <2>2. /\ devStore' \in {<<>>, <<"idx", dev.driven>>}
        /\ used' \in Region /\ devStore' \in Store /\ used'.ring = used.ring
        /\ IF devStore' = <<>> THEN used'.idx = dev.driven ELSE used'.idx = used.idx
    BY <2>1, UsedStores
  <2>3. devPc = "index" /\ devPc' = "sent" /\ UNCHANGED <<arch, avail, dev, devOwns, drvVars>>
    BY <1>1 DEF DeviceIndex
  <2> QED
    BY <2>2, <2>3 DEF Pending, StoresIndex
<1>2. CASE DeviceDrains
  <2>1. devStore # <<>> /\ devStore' = <<>> /\ used' = [used EXCEPT ![devStore[1]] = devStore[2]]
        /\ UNCHANGED <<arch, avail, dev, devOwns, devPc, drvVars>>
        /\ used \in Region /\ devStore \in Store
    BY <1>2 DEF DeviceDrains, TypeOK
  <2>2. used' \in Region
    BY <2>1, DrainType
  <2>3. /\ used'.ring = used.ring
        /\ StoresIndex(devStore) => used'.idx = devStore[2]
        /\ ~StoresIndex(devStore) => used'.idx = used.idx
    BY <2>1, <2>2, Drains
  <2>4. devPc # "index" /\ ~Pending(devPc', devStore')
    BY <2>1 DEF IndexInv, Follows, Pending, StoresIndex
  <2>5. used'.idx = dev.driven
    BY <2>1, <2>3, <2>4 DEF IndexInv, Follows, Pending
  <2>6. <<>> \in Store
    BY DEF Store
  <2> QED
    BY <2>1, <2>2, <2>3, <2>4, <2>5, <2>6
<1> QED
  BY <1>1, <1>2

LEMMA Steps ==
  ASSUME Next
  PROVE  \/ \E h \in Desc : DriverSend(h)
         \/ \E h \in Desc : DeviceSend(h)
         \/ DriverQuiet \/ DeviceQuiet \/ DriverEntry \/ DeviceEntry
         \/ DriverIndex \/ DriverDrains \/ DeviceIndex \/ DeviceDrains
BY DEF Next, DriverStep, DeviceStep, DriverQuiet, DeviceQuiet

(* Entries are loaded ahead from the rings, and a stale one stays one. *)
LEMMA LoadsKeep ==
  ASSUME TypeOK, Next
  PROVE  drvAhead' \in Early /\ devAhead' \in Early /\ (stale => stale')
<1>0. <<>> \in Early /\ drvAhead \in Early /\ devAhead \in Early
  BY DEF Early, TypeOK
<1>1. CASE DriverAhead
  <2>1. used.ring[drv.idx % Size] \in Desc
    BY SlotInDesc, DescFinite DEF TypeOK, Region, Counters, Index, Slot
  <2>2. drvAhead' = <<used.ring[drv.idx % Size]>> /\ UNCHANGED <<devAhead, stale>>
    BY <1>1 DEF DriverAhead
  <2> QED
    BY <1>0, <2>1, <2>2 DEF Early
<1>2. CASE DeviceAhead
  <2>1. avail.ring[dev.idx % Size] \in Desc
    BY SlotInDesc, DescFinite DEF TypeOK, Region, Counters, Index, Slot
  <2>2. devAhead' = <<avail.ring[dev.idx % Size]>> /\ UNCHANGED <<drvAhead, stale>>
    BY <1>2 DEF DeviceAhead
  <2> QED
    BY <1>0, <2>1, <2>2 DEF Early
<1>3. CASE DriverRecv \/ DeviceRecv
  <2>1. drvAhead' \in {<<>>, drvAhead} /\ devAhead' \in {<<>>, devAhead} /\ UNCHANGED stale
    BY <1>3 DEF DriverRecv, DeviceRecv
  <2> QED
    BY <1>0, <2>1
<1>4. CASE DriverEntry \/ DeviceEntry
  <2>1. drvAhead' \in {<<>>, drvAhead} /\ devAhead' \in {<<>>, devAhead}
    BY <1>4 DEF DriverEntry, DeviceEntry
  <2>2. stale => stale'
    BY <1>4, Zenon DEF DriverEntry, DeviceEntry
  <2> QED
    BY <1>0, <2>1, <2>2
<1>5. CASE \/ \E h \in Desc : DriverSend(h) \/ DeviceSend(h)
           \/ DriverNotify \/ DriverEnables \/ DriverLooks \/ DriverWakes \/ DriverDisables
           \/ DeviceInterrupts \/ DeviceEnables \/ DeviceLooks \/ DeviceWakes \/ DeviceDisables
           \/ DriverIndex \/ DriverDrains \/ DeviceIndex \/ DeviceDrains
  <2>1. UNCHANGED loads
    BY <1>5, Zenon DEF DriverSend, DriverIndex, DriverDrains, DriverNotify, DriverEnables,
          DriverLooks, DriverWakes, DriverDisables, DeviceSend, DeviceIndex, DeviceDrains,
          DeviceInterrupts, DeviceEnables, DeviceLooks, DeviceWakes, DeviceDisables
  <2> QED
    BY <1>0, <2>1 DEF loads
<1> QED
  BY <1>1, <1>2, <1>3, <1>4, <1>5, Steps DEF DriverQuiet, DeviceQuiet

LEMMA TypeKeeps ==
  ASSUME TypeOK, IndexInv, Next
  PROVE  TypeOK'
<1> USE LoadsKeep
<1>1. ASSUME NEW h \in Desc, DriverSend(h)
      PROVE  TypeOK'
  BY <1>1, DriverSends DEF TypeOK, devVars
<1>2. ASSUME NEW h \in Desc, DeviceSend(h)
      PROVE  TypeOK'
  BY <1>2, DeviceSends DEF TypeOK, drvVars
<1>3. CASE DriverQuiet
  <2>1. drvSaw' \in Index
    BY <1>3 DEF DriverQuiet, DriverNotify, DriverAhead, DriverRecv, DriverEnables, DriverLooks,
                DriverWakes, DriverDisables, drvVars, TypeOK, Region
  <2> QED
    BY <1>3, <2>1, DriverQuiets DEF TypeOK, devVars
<1>4. CASE DeviceQuiet
  BY <1>4, DeviceQuiets DEF TypeOK, drvVars
<1>5. CASE DriverEntry
  <2>1. 0 \in Index
    BY VirtqueueAssumption DEF Index
  <2> QED
    BY <1>5, <2>1, DriverCollects DEF TypeOK, devVars
<1>6. CASE DeviceEntry
  BY <1>6, DeviceTakes DEF TypeOK, drvVars, ring
<1>7. CASE DriverIndex \/ DriverDrains
  BY <1>7, DriverStoresIndex DEF TypeOK, devVars
<1>8. CASE DeviceIndex \/ DeviceDrains
  BY <1>8, DeviceStoresIndex DEF TypeOK, drvVars
<1> QED
  BY <1>1, <1>2, <1>3, <1>4, <1>5, <1>6, <1>7, <1>8, Steps

LEMMA AheadGrows ==
  ASSUME NEW a \in Index, NEW b \in Index, Inc(b) # a
  PROVE  Ahead(a, Inc(b)) = Ahead(a, b) + 1
<1>1. W \in Nat /\ W > 1 /\ a \in 0 .. W - 1 /\ b \in 0 .. W - 1
  BY VirtqueueAssumption DEF Index
<1>2. Inc(b) = IF b + 1 = W THEN 0 ELSE b + 1
  BY IncType
<1> QED
  BY <1>1, <1>2 DEF Ahead

LEMMA IncInjective ==
  ASSUME NEW a \in Index, NEW b \in Index, Inc(a) = Inc(b)
  PROVE  a = b
<1>1. W \in Nat /\ W > 1 /\ a \in 0 .. W - 1 /\ b \in 0 .. W - 1
  BY VirtqueueAssumption DEF Index
<1>2. (IF a + 1 = W THEN 0 ELSE a + 1) = (IF b + 1 = W THEN 0 ELSE b + 1)
  BY IncType
<1> QED
  BY <1>1, <1>2

LEMMA CountIsAhead ==
  ASSUME NEW q \in Counters, NEW i \in Index
  PROVE  count_available(q, i) = 0 <=> q.idx = i
<1>1. W \in Nat /\ W > 1 /\ q.idx \in 0 .. W - 1 /\ i \in 0 .. W - 1
  BY VirtqueueAssumption DEF Counters, Index
<1>2. count_available(q, i) = IF i >= q.idx THEN i - q.idx ELSE (W - 1 - q.idx) + 1 + i
  BY DEF count_available
<1> QED
  BY <1>1, <1>2

LEMMA OwnsCount ==
  ASSUME NEW S \in SUBSET Desc
  PROVE  /\ Cardinality(S) \in Nat
         /\ \A h \in S : Cardinality(S \ {h}) = Cardinality(S) - 1 /\ Cardinality(S) >= 1
         /\ \A h \in Desc \ S : Cardinality(S \cup {h}) = Cardinality(S) + 1
<1>1. IsFiniteSet(S) /\ Cardinality(S) \in Nat
  BY DescFinite, FS_Subset, FS_CardinalityType
<1>2. ASSUME NEW h \in S
      PROVE  Cardinality(S \ {h}) = Cardinality(S) - 1 /\ Cardinality(S) >= 1
  <2>1. Cardinality(S \ {h}) = Cardinality(S) - 1
    BY <1>1, FS_RemoveElement
  <2>2. S # {}
    OBVIOUS
  <2>3. Cardinality(S) # 0
    BY <1>1, <2>2, FS_EmptySet
  <2> QED
    BY <1>1, <2>1, <2>3
<1>3. ASSUME NEW h \in Desc \ S
      PROVE  Cardinality(S \cup {h}) = Cardinality(S) + 1
  BY <1>1, FS_AddElement
<1> QED
  BY <1>1, <1>2, <1>3

LEMMA JoinsAtMostOne ==
  ASSUME NEW S \in SUBSET Desc, NEW h \in Desc
  PROVE  /\ Cardinality(S \cup {h}) \in Nat
         /\ Cardinality(S \cup {h}) <= Cardinality(S) + 1
<1>1. Cardinality(S) \in Nat
  BY OwnsCount
<1>2. CASE h \in S
  <2>1. S \cup {h} = S
    BY <1>2
  <2> QED
    BY <1>1, <2>1
<1>3. CASE h \notin S
  <2>1. Cardinality(S \cup {h}) = Cardinality(S) + 1
    BY <1>3, OwnsCount
  <2> QED
    BY <1>1, <2>1
<1> QED
  BY <1>2, <1>3

(* The counters of a state of the invariant. *)
LEMMA CounterTypes ==
  ASSUME TypeOK
  PROVE  /\ avail.idx \in Index /\ avail.event \in Index /\ avail.ring \in [Desc -> Desc]
         /\ used.idx \in Index /\ used.ring \in [Desc -> Desc]
         /\ drv.idx \in Index /\ drv.driven \in Index
         /\ dev.idx \in Index /\ dev.driven \in Index /\ dev.prev \in Index
BY DEF TypeOK, Region, Counters

(* A client that holds a buffer finds room for it in its ring. *)
LEMMA Room ==
  ASSUME TypeOK, BalanceInv
  PROVE  /\ Ahead(dev.idx, drv.driven) \in Nat /\ Ahead(dev.idx, drv.driven) <= Size
         /\ Ahead(drv.idx, dev.driven) \in Nat /\ Ahead(drv.idx, dev.driven) <= Size
         /\ drvOwns # {} => Ahead(dev.idx, drv.driven) < Size
         /\ devOwns # {} => Ahead(drv.idx, dev.driven) < Size
<1>1. Ahead(dev.idx, drv.driven) \in Nat /\ Ahead(drv.idx, dev.driven) \in Nat
  BY CounterTypes, AheadType
<1>2. /\ Cardinality(drvOwns) \in Nat /\ Cardinality(devOwns) \in Nat
      /\ drvOwns # {} => Cardinality(drvOwns) >= 1
      /\ devOwns # {} => Cardinality(devOwns) >= 1
  BY OwnsCount DEF TypeOK
<1> QED
  BY <1>1, <1>2, DescFinite DEF BalanceInv

LEMMA IndexKeeps ==
  ASSUME TypeOK, IndexInv, BalanceInv, Next
  PROVE  IndexInv'
<1> USE CounterTypes
<1>1. ASSUME NEW h \in Desc, DriverSend(h)
      PROVE  IndexInv'
  <2>1. avail.idx = drv.driven /\ ~StoresIndex(drvStore)
    BY <1>1, DriverSends DEF IndexInv, Follows, Pending, StoresIndex
  <2>2. Ahead(dev.idx, drv.driven) < W - 1 /\ Ahead(dev.idx, drv.driven) \in Nat
    <3>1. drvOwns # {}
      BY <1>1, DriverSends
    <3> QED
      BY <3>1, Room, DescFinite
  <2>3. Ahead(dev.idx, Inc(drv.driven)) # 0
    BY <2>2, AheadInc
  <2>4. dev.idx # Inc(drv.driven)
    BY <2>3, AheadType
  <2> QED
    BY <1>1, <2>1, <2>4, DriverSends DEF IndexInv, Follows, Pending, devVars
<1>2. ASSUME NEW h \in Desc, DeviceSend(h)
      PROVE  IndexInv'
  <2>1. used.idx = dev.driven /\ ~StoresIndex(devStore)
    BY <1>2, DeviceSends DEF IndexInv, Follows, Pending, StoresIndex
  <2>2. Ahead(drv.idx, dev.driven) < W - 1 /\ Ahead(drv.idx, dev.driven) \in Nat
    <3>1. devOwns # {}
      BY <1>2, DeviceSends
    <3> QED
      BY <3>1, Room, DescFinite
  <2>3. Ahead(drv.idx, Inc(dev.driven)) # 0
    BY <2>2, AheadInc
  <2>4. drv.idx # Inc(dev.driven)
    BY <2>3, AheadType
  <2> QED
    BY <1>2, <2>1, <2>4, DeviceSends DEF IndexInv, Follows, Pending, drvVars
<1>3. CASE DriverQuiet
  <2>1. drvPc' = "entry" => drv.idx # used.idx
    <3>1. CASE DriverRecv
      <4>1. drvPc' = "entry" => count_available(drv, used.idx) # 0
        BY <3>1 DEF DriverRecv
      <4> QED
        BY <4>1, CountIsAhead DEF TypeOK
    <3>2. CASE ~DriverRecv
      BY <1>3, <3>2 DEF DriverQuiet, DriverNotify, DriverAhead, LoadsAhead, DriverEnables,
                        DriverLooks, DriverWakes, DriverDisables, drvVars
    <3> QED
      BY <3>1, <3>2
  <2>2. Pending(drvPc', drvStore') <=> Pending(drvPc, drvStore)
    BY <1>3, DriverQuiets DEF Pending
  <2>3. Follows(avail.idx, drv.driven, drvPc, drvStore)'
    BY <1>3, <2>2, DriverQuiets DEF IndexInv, Follows
  <2> QED
    BY <1>3, <2>1, <2>2, <2>3, DriverQuiets DEF IndexInv, devVars
<1>4. CASE DeviceQuiet
  <2>1. devPc' = "entry" => dev.idx # avail.idx
    <3>1. CASE DeviceRecv
      <4>1. devPc' = "entry" => count_available(dev, avail.idx) # 0
        BY <3>1 DEF DeviceRecv
      <4> QED
        BY <4>1, CountIsAhead DEF TypeOK
    <3>2. CASE ~DeviceRecv
      BY <1>4, <3>2 DEF DeviceQuiet, DeviceInterrupts, DeviceAhead, LoadsAhead, DeviceEnables,
                        DeviceLooks, DeviceWakes, DeviceDisables, devVars
    <3> QED
      BY <3>1, <3>2
  <2>2. Pending(devPc', devStore') <=> Pending(devPc, devStore)
    BY <1>4, DeviceQuiets DEF Pending
  <2>3. Follows(used.idx, dev.driven, devPc, devStore)'
    BY <1>4, <2>2, DeviceQuiets DEF IndexInv, Follows
  <2> QED
    BY <1>4, <2>1, <2>2, <2>3, DeviceQuiets DEF IndexInv, drvVars
<1>5. CASE DriverEntry
  <2>1. ~Pending(drvPc, drvStore) /\ ~Pending(drvPc', drvStore')
    BY <1>5, DriverCollects DEF Pending, StoresIndex
  <2>2. Pending(devPc, devStore) => Inc(drv.idx) # dev.driven
    <3> SUFFICES ASSUME Pending(devPc, devStore), Inc(drv.idx) = dev.driven
                 PROVE  FALSE
      OBVIOUS
    <3>1. Inc(used.idx) = dev.driven /\ drv.idx # used.idx
      BY <1>5, DriverCollects DEF IndexInv, Follows
    <3> QED
      BY <3>1, IncInjective
  <2> QED
    BY <1>5, <2>1, <2>2, DriverCollects DEF IndexInv, Follows, devVars
<1>6. CASE DeviceEntry
  <2>1. ~Pending(devPc, devStore) /\ ~Pending(devPc', devStore')
    BY <1>6, DeviceTakes DEF Pending, StoresIndex
  <2>2. Pending(drvPc, drvStore) => Inc(dev.idx) # drv.driven
    <3> SUFFICES ASSUME Pending(drvPc, drvStore), Inc(dev.idx) = drv.driven
                 PROVE  FALSE
      OBVIOUS
    <3>1. Inc(avail.idx) = drv.driven /\ dev.idx # avail.idx
      BY <1>6, DeviceTakes DEF IndexInv, Follows
    <3> QED
      BY <3>1, IncInjective
  <2> QED
    BY <1>6, <2>1, <2>2, DeviceTakes DEF IndexInv, Follows, drvVars, ring
<1>7. CASE DriverIndex \/ DriverDrains
  <2>1. Follows(avail.idx, drv.driven, drvPc, drvStore)'
    BY <1>7, DriverStoresIndex DEF IndexInv, Follows, Pending
  <2>2. devPc = "entry" => dev.idx # avail'.idx
    BY <1>7, DriverStoresIndex DEF IndexInv, Follows
  <2>3. drvPc' = "entry" => drvPc = "entry"
    BY <1>7, DriverStoresIndex
  <2> QED
    BY <1>7, <2>1, <2>2, <2>3, DriverStoresIndex DEF IndexInv, devVars
<1>8. CASE DeviceIndex \/ DeviceDrains
  <2>1. Follows(used.idx, dev.driven, devPc, devStore)'
    BY <1>8, DeviceStoresIndex DEF IndexInv, Follows, Pending
  <2>2. drvPc = "entry" => drv.idx # used'.idx
    BY <1>8, DeviceStoresIndex DEF IndexInv, Follows
  <2>3. devPc' = "entry" => devPc = "entry"
    BY <1>8, DeviceStoresIndex
  <2> QED
    BY <1>8, <2>1, <2>2, <2>3, DeviceStoresIndex DEF IndexInv, drvVars
<1> QED
  BY <1>1, <1>2, <1>3, <1>4, <1>5, <1>6, <1>7, <1>8, Steps

LEMMA EventKeeps ==
  ASSUME TypeOK, IndexInv, BalanceInv, EventInv, Next
  PROVE  EventInv'
<1> USE CounterTypes
<1>1. ASSUME NEW h \in Desc, DriverSend(h)
      PROVE  EventInv'
  BY <1>1, DriverSends DEF EventInv, devVars
<1>2. ASSUME NEW h \in Desc, DeviceSend(h)
      PROVE  EventInv'
  <2>1. dev'.driven = Inc(dev'.prev) /\ used'.idx = used.idx
    BY <1>2, DeviceSends
  <2>2. UNCHANGED <<avail, drv, drvPc, drvSaw>>
    BY <1>2, DeviceSends DEF drvVars
  <2> QED
    BY <2>1, <2>2 DEF EventInv
<1>3. CASE DriverQuiet
  <2>1. drvPc' = "entry" => drvSaw' # drv.idx /\ Ahead(drv.idx, drvSaw') <= Ahead(drv.idx, used.idx)
    <3> SUFFICES ASSUME drvPc' = "entry"
                 PROVE  drvSaw' # drv.idx /\ Ahead(drv.idx, drvSaw') <= Ahead(drv.idx, used.idx)
      OBVIOUS
    <3>1. drvSaw' = used.idx /\ count_available(drv, used.idx) # 0
      BY <1>3 DEF DriverQuiet, DriverNotify, DriverAhead, LoadsAhead, DriverRecv,
                  DriverEnables, DriverLooks, DriverWakes, DriverDisables, drvVars
    <3>2. Ahead(drv.idx, used.idx) \in Nat
      BY AheadType
    <3> QED
      BY <3>1, <3>2, CountIsAhead DEF TypeOK
  <2>2. drvPc' \in {"idle", "look", "wait", "wake"} => avail.event = drv.idx
    <3>1. CASE DriverRecv /\ drvPc' = "idle"
      <4>1. count_available(drv, used.idx) = 0
        BY <3>1 DEF DriverRecv
      <4>2. Ahead(drv.idx, used.idx) = 0 /\ Ahead(drv.idx, avail.event) \in Nat
        BY <4>1, CountIsAhead, AheadType DEF TypeOK
      <4>3. Ahead(drv.idx, avail.event) = 0
        BY <4>2 DEF EventInv
      <4> QED
        BY <4>3, AheadType
    <3>2. CASE ~(DriverRecv /\ drvPc' = "idle")
      BY <1>3, <3>2 DEF DriverQuiet, DriverNotify, DriverAhead, LoadsAhead, DriverRecv,
                        DriverEnables, DriverLooks, DriverWakes, DriverDisables, drvVars, EventInv
    <3> QED
      BY <3>1, <3>2
  <2> QED
    BY <1>3, <2>1, <2>2, DriverQuiets DEF EventInv, devVars
<1>4. CASE DeviceQuiet
  BY <1>4, DeviceQuiets DEF EventInv, drvVars
<1>5. CASE DriverEntry
  <2>1. /\ Ahead(drv.idx, drvSaw) <= Ahead(drv.idx, used.idx)
        /\ drvSaw # drv.idx /\ drv.idx # used.idx /\ drvSaw \in Index
    BY <1>5, DriverCollects DEF EventInv, IndexInv, TypeOK
  <2>2. /\ Ahead(Inc(drv.idx), drvSaw) = Ahead(drv.idx, drvSaw) - 1
        /\ Ahead(Inc(drv.idx), used.idx) = Ahead(drv.idx, used.idx) - 1
        /\ Ahead(drv.idx, drvSaw) \in Nat /\ Ahead(drv.idx, used.idx) \in Nat
    BY <2>1, AheadInc, AheadType
  <2> QED
    BY <1>5, <2>1, <2>2, DriverCollects DEF EventInv, devVars
<1>6. CASE DeviceEntry
  BY <1>6, DeviceTakes DEF EventInv, drvVars, ring
<1>7. CASE DriverIndex \/ DriverDrains
  BY <1>7, DriverStoresIndex DEF EventInv, devVars
<1>8. CASE DeviceIndex \/ DeviceDrains
  <2>1. Ahead(drv.idx, used.idx) <= Ahead(drv.idx, used'.idx)
    <3>1. Ahead(drv.idx, used.idx) \in Nat
      BY AheadType
    <3>2. CASE Pending(devPc, devStore)
      <4>1. Inc(used.idx) = dev.driven /\ drv.idx # dev.driven
        BY <3>2 DEF IndexInv, Follows
      <4>2. Ahead(drv.idx, dev.driven) = Ahead(drv.idx, used.idx) + 1
        BY <4>1, AheadGrows
      <4> QED
        BY <1>8, <3>1, <4>2, DeviceStoresIndex
    <3>3. CASE ~Pending(devPc, devStore)
      BY <1>8, <3>1, <3>3, DeviceStoresIndex DEF IndexInv, Follows
    <3> QED
      BY <3>2, <3>3
  <2>2. \A e \in Index : Ahead(drv.idx, e) \in Nat
    BY AheadType
  <2>3. used'.idx \in Index
    BY <1>8, DeviceStoresIndex DEF Region
  <2> QED
    BY <1>8, <2>1, <2>2, <2>3, DeviceStoresIndex DEF EventInv, drvVars, TypeOK
<1> QED
  BY <1>1, <1>2, <1>3, <1>4, <1>5, <1>6, <1>7, <1>8, Steps

(* A buffer that a client sends or takes is one that the rings do not hold yet,
   or do hold. *)
LEMMA Entering ==
  ASSUME IndexInv
  PROVE  /\ drvPc = "entry" => drv.idx # dev.driven
         /\ devPc = "entry" => dev.idx # drv.driven
BY DEF IndexInv, Follows

(* The entry that a client writes overwrites none that the other has to read. *)
LEMMA EntryWritten ==
  ASSUME NEW r \in [Desc -> Desc], NEW a \in Index, NEW b \in Index,
         Ahead(a, b) \in Nat, Ahead(a, b) < Size, NEW h \in Desc,
         NEW s, s = [r EXCEPT ![Slot(b)] = h]
  PROVE  /\ Live(a, Inc(b)) = Live(a, b) \cup {b} /\ b \notin Live(a, b)
         /\ s[Slot(b)] = h
         /\ \A p \in Live(a, b) : s[Slot(p)] = r[Slot(p)]
<1>1. Ahead(a, b) < W - 1 /\ b \in Nat
  BY DescFinite DEF Index
<1>2. Slot(b) \in Desc
  BY <1>1, SlotInDesc
<1>3. Live(a, Inc(b)) = Live(a, b) \cup {b} /\ b \notin Live(a, b)
  BY <1>1, LiveExtends
<1>4. ASSUME NEW p \in Live(a, b)
      PROVE  s[Slot(p)] = r[Slot(p)]
  <2>1. p \in Index /\ p # b /\ Ahead(a, p) < Ahead(a, b) /\ Ahead(a, p) \in Nat
    BY <1>3, <1>4, AheadType DEF Live
  <2>2. Ahead(a, p) < Ahead(a, b) + 1 /\ Ahead(a, b) < Ahead(a, b) + 1
        /\ Ahead(a, b) + 1 \in Nat /\ Ahead(a, b) + 1 <= Size
    BY <2>1, DescFinite
  <2>3. Slot(p) # Slot(b)
    BY <2>1, <2>2, LiveSlots
  <2>4. Slot(p) \in Desc
    BY <2>1, SlotInDesc, DescFinite DEF Index
  <2> QED
    BY <2>3, <2>4
<1> QED
  BY <1>2, <1>3, <1>4

LEMMA BalanceKeeps ==
  ASSUME TypeOK, IndexInv, BalanceInv, Next
  PROVE  BalanceInv'
<1> USE CounterTypes
<1> DEFINE A == Ahead(dev.idx, drv.driven)
           U == Ahead(drv.idx, dev.driven)
<1>0. /\ A \in Nat /\ U \in Nat /\ Size \in Nat /\ W \in Nat /\ W > Size
      /\ U + Cardinality(devOwns) + A + Cardinality(drvOwns) <= Size
      /\ Cardinality(devOwns) \in Nat /\ Cardinality(drvOwns) \in Nat
  BY Room, DescFinite, OwnsCount DEF BalanceInv, TypeOK
<1>1. ASSUME NEW h \in Desc, DriverSend(h)
      PROVE  BalanceInv'
  <2>1. drvOwns' = drvOwns \ {h} /\ h \in drvOwns /\ drv'.driven = Inc(drv.driven)
        /\ drv'.idx = drv.idx /\ UNCHANGED <<dev, devOwns>>
    BY <1>1, DriverSends DEF devVars
  <2>2. A < W - 1
    BY <1>0, <2>1, Room
  <2>3. Ahead(dev.idx, Inc(drv.driven)) = A + 1
    BY <2>2, AheadInc
  <2>4. Cardinality(drvOwns \ {h}) = Cardinality(drvOwns) - 1
    BY <2>1, OwnsCount DEF TypeOK
  <2> HIDE DEF A, U
  <2>5. U + Cardinality(devOwns) + (A + 1) + (Cardinality(drvOwns) - 1) <= Size
    BY <1>0
  <2> QED
    BY <2>1, <2>3, <2>4, <2>5 DEF BalanceInv, U
<1>2. ASSUME NEW h \in Desc, DeviceSend(h)
      PROVE  BalanceInv'
  <2>1. devOwns' = devOwns \ {h} /\ h \in devOwns /\ dev'.driven = Inc(dev.driven)
        /\ dev'.idx = dev.idx /\ UNCHANGED <<drv, drvOwns>>
    BY <1>2, DeviceSends DEF drvVars
  <2>2. U < W - 1
    BY <1>0, <2>1, Room
  <2>3. Ahead(drv.idx, Inc(dev.driven)) = U + 1
    BY <2>2, AheadInc
  <2>4. Cardinality(devOwns \ {h}) = Cardinality(devOwns) - 1
    BY <2>1, OwnsCount DEF TypeOK
  <2> HIDE DEF A, U
  <2>5. (U + 1) + (Cardinality(devOwns) - 1) + A + Cardinality(drvOwns) <= Size
    BY <1>0
  <2> QED
    BY <2>1, <2>3, <2>4, <2>5 DEF BalanceInv, A
<1>3. CASE DriverQuiet \/ DeviceQuiet
  <2>1. UNCHANGED <<drv, dev, drvOwns, devOwns>>
    BY <1>3, DriverQuiets, DeviceQuiets DEF drvVars, devVars
  <2> QED
    BY <2>1 DEF BalanceInv
<1>4. CASE DriverEntry
  <2>1. drv'.idx = Inc(drv.idx) /\ drv'.driven = drv.driven /\ drv.idx # dev.driven
        /\ UNCHANGED <<dev, devOwns>>
    BY <1>4, DriverCollects, Entering DEF devVars
  <2>2. PICK h \in Desc : drvOwns' = drvOwns \cup {h}
    BY <1>4, DriverCollects
  <2>3. Ahead(Inc(drv.idx), dev.driven) = U - 1
    BY <2>1, AheadInc
  <2>4. Cardinality(drvOwns') \in Nat /\ Cardinality(drvOwns') <= Cardinality(drvOwns) + 1
    BY <2>2, JoinsAtMostOne DEF TypeOK
  <2> HIDE DEF A, U
  <2>5. (U - 1) + Cardinality(devOwns) + A + Cardinality(drvOwns') <= Size
    BY <1>0, <2>4
  <2> QED
    BY <2>1, <2>3, <2>4, <2>5 DEF BalanceInv, A
<1>5. CASE DeviceEntry
  <2>1. dev'.idx = Inc(dev.idx) /\ dev'.driven = dev.driven /\ dev.idx # drv.driven
        /\ UNCHANGED <<drv, drvOwns>>
    BY <1>5, DeviceTakes, Entering DEF drvVars
  <2>2. PICK h \in Desc : devOwns' = devOwns \cup {h}
    BY <1>5, DeviceTakes
  <2>3. Ahead(Inc(dev.idx), drv.driven) = A - 1
    BY <2>1, AheadInc
  <2>4. Cardinality(devOwns') \in Nat /\ Cardinality(devOwns') <= Cardinality(devOwns) + 1
    BY <2>2, JoinsAtMostOne DEF TypeOK
  <2> HIDE DEF A, U
  <2>5. U + Cardinality(devOwns') + (A - 1) + Cardinality(drvOwns) <= Size
    BY <1>0, <2>4
  <2> QED
    BY <2>1, <2>3, <2>4, <2>5 DEF BalanceInv, U
<1>6. CASE DriverIndex \/ DriverDrains \/ DeviceIndex \/ DeviceDrains
  <2>1. UNCHANGED <<drv, dev, drvOwns, devOwns>>
    BY <1>6, DriverStoresIndex, DeviceStoresIndex DEF drvVars, devVars
  <2> QED
    BY <2>1 DEF BalanceInv
<1> QED
  BY <1>1, <1>2, <1>3, <1>4, <1>5, <1>6, Steps

LEMMA HeadKeeps ==
  ASSUME TypeOK, IndexInv, BalanceInv, HeadInv, Next, ~stale'
  PROVE  HeadInv'
<1> USE CounterTypes
<1>1. ASSUME NEW h \in Desc, DriverSend(h)
      PROVE  HeadInv'
  <2>1. drvOwns' = drvOwns \ {h} /\ h \in drvOwns /\ drv'.driven = Inc(drv.driven)
        /\ drv'.idx = drv.idx /\ UNCHANGED <<used, dev, devOwns>>
        /\ avail'.ring = [avail.ring EXCEPT ![Slot(drv.driven)] = h]
    BY <1>1, DriverSends DEF devVars
  <2>2. Ahead(dev.idx, drv.driven) \in Nat /\ Ahead(dev.idx, drv.driven) < Size
    BY <2>1, Room
  <2>3. /\ AvailLive' = AvailLive \cup {drv.driven} /\ drv.driven \notin AvailLive
        /\ avail'.ring[Slot(drv.driven)] = h
        /\ \A p \in AvailLive : avail'.ring[Slot(p)] = avail.ring[Slot(p)]
    BY <2>1, <2>2, EntryWritten DEF AvailLive
  <2>4. UsedLive' = UsedLive
    BY <2>1 DEF UsedLive
  <2> QED
    BY <2>1, <2>3, <2>4 DEF HeadInv
<1>2. ASSUME NEW h \in Desc, DeviceSend(h)
      PROVE  HeadInv'
  <2>1. devOwns' = devOwns \ {h} /\ h \in devOwns /\ dev'.driven = Inc(dev.driven)
        /\ dev'.idx = dev.idx /\ UNCHANGED <<avail, drv, drvOwns>>
        /\ used'.ring = [used.ring EXCEPT ![Slot(dev.driven)] = h]
    BY <1>2, DeviceSends DEF drvVars
  <2>2. Ahead(drv.idx, dev.driven) \in Nat /\ Ahead(drv.idx, dev.driven) < Size
    BY <2>1, Room
  <2>3. /\ UsedLive' = UsedLive \cup {dev.driven} /\ dev.driven \notin UsedLive
        /\ used'.ring[Slot(dev.driven)] = h
        /\ \A p \in UsedLive : used'.ring[Slot(p)] = used.ring[Slot(p)]
    BY <2>1, <2>2, EntryWritten DEF UsedLive
  <2>4. AvailLive' = AvailLive
    BY <2>1 DEF AvailLive
  <2> QED
    BY <2>1, <2>3, <2>4 DEF HeadInv
<1>3. CASE DriverEntry
  <2>1. drvOwns' = drvOwns \cup {used.ring[Slot(drv.idx)]} /\ drv'.idx = Inc(drv.idx)
        /\ drv'.driven = drv.driven /\ drv.idx # dev.driven
        /\ avail'.ring = avail.ring /\ UNCHANGED <<used, dev, devOwns>>
    BY <1>3, DriverCollects, Entering DEF devVars
  <2>2. UsedLive' = UsedLive \ {drv.idx} /\ drv.idx \in UsedLive /\ AvailLive' = AvailLive
    BY <2>1, LiveShrinks DEF UsedLive, AvailLive
  <2> QED
    BY <2>1, <2>2 DEF HeadInv
<1>4. CASE DeviceEntry
  <2>1. devOwns' = devOwns \cup {avail.ring[Slot(dev.idx)]} /\ dev'.idx = Inc(dev.idx)
        /\ dev'.driven = dev.driven /\ dev.idx # drv.driven
        /\ UNCHANGED <<avail, used, drv, drvOwns>>
    BY <1>4, DeviceTakes, Entering DEF drvVars, ring
  <2>2. AvailLive' = AvailLive \ {dev.idx} /\ dev.idx \in AvailLive /\ UsedLive' = UsedLive
    BY <2>1, LiveShrinks DEF UsedLive, AvailLive
  <2> QED
    BY <2>1, <2>2 DEF HeadInv
<1>5. CASE DriverQuiet \/ DeviceQuiet \/ DriverIndex \/ DriverDrains \/ DeviceIndex \/ DeviceDrains
  <2>1. UNCHANGED <<drv, dev, drvOwns, devOwns>> /\ avail'.ring = avail.ring
        /\ used'.ring = used.ring
    BY <1>5, DriverQuiets, DeviceQuiets, DriverStoresIndex, DeviceStoresIndex DEF drvVars, devVars
  <2> QED
    BY <2>1 DEF HeadInv, AvailLive, UsedLive
<1> QED
  BY <1>1, <1>2, <1>3, <1>4, <1>5, Steps

LEMMA Start == Init => IInv
<1> SUFFICES ASSUME Init
             PROVE  IInv
  OBVIOUS
<1>1. /\ 0 \in Index /\ 0 \in Desc /\ Desc \in SUBSET Desc /\ {} \in SUBSET Desc
      /\ <<>> \in Store
  BY VirtqueueAssumption DEF Index, Desc, Store
<1>2. TypeOK
  BY <1>1 DEF Init, TypeOK, Zero, NewQueue, Region, Counters, Early
<1>3. IndexInv
  BY DEF Init, IndexInv, Follows, Pending, StoresIndex, Zero, NewQueue
<1>4. Ahead(0, 0) = 0 /\ Live(0, 0) = {}
  <2>1. Ahead(0, 0) = 0 /\ \A p \in Index : Ahead(0, p) \in Nat
    BY <1>1, AheadType
  <2> QED
    BY <2>1 DEF Live
<1>5. Cardinality(Desc) = Size /\ Cardinality({}) = 0
  <2>1. 0 \in Int /\ Size - 1 \in Int /\ Size \in Nat \ {0}
    BY VirtqueueAssumption
  <2>2. Cardinality(0 .. Size - 1) = IF 0 > Size - 1 THEN 0 ELSE (Size - 1) - 0 + 1
    BY <2>1, FS_Interval
  <2> QED
    BY <2>1, <2>2, FS_EmptySet DEF Desc
<1>6. BalanceInv
  BY <1>4, <1>5, DescFinite DEF Init, BalanceInv, NewQueue
<1>7. HeadInv
  BY <1>4 DEF Init, HeadInv, AvailLive, UsedLive, NewQueue
<1>8. EventInv
  BY <1>4 DEF Init, EventInv, Zero, NewQueue
<1> QED
  BY <1>2, <1>3, <1>6, <1>7, <1>8 DEF IInv

LEMMA StepKeeps == IInv /\ [Next]_vars => IInv'
<1> SUFFICES ASSUME IInv, [Next]_vars
             PROVE  IInv'
  OBVIOUS
<1>1. CASE Next
  BY <1>1, LoadsKeep, TypeKeeps, IndexKeeps, BalanceKeeps, HeadKeeps, EventKeeps DEF IInv
<1>2. CASE UNCHANGED vars
  BY <1>2 DEF IInv, TypeOK, IndexInv, Follows, Pending, StoresIndex, BalanceInv, HeadInv,
              AvailLive, UsedLive, EventInv, vars, ring, drvVars, devVars, loads
<1> QED
  BY <1>1, <1>2

(* In every reachable state the rings hold at most as many entries as they     *)
(* have room for, and the indices that are visible tell how many; and until a  *)
(* recv has used a stale entry each buffer is in one place: with a client, or  *)
(* in the entries of one ring that the other end has not read.                 *)
THEOREM Invariance == Spec => []IInv
BY Start, StepKeeps, PTL DEF Spec

(* DeviceQueue::used_event_notify says yes for the first buffer that returns   *)
(* after a driver that has collected everything went to sleep.                 *)
THEOREM WaiterIsNotified == Spec => []EventReachesWaiter
<1>1. IInv => EventReachesWaiter
  <2> SUFFICES ASSUME IInv, drvPc = "wait", devPc = "sent", drv.idx = dev.prev
               PROVE  used_event_notify
    BY DEF EventReachesWaiter
  <2>1. avail.event = dev.prev /\ dev.driven = Inc(dev.prev) /\ dev.prev \in Index
    BY CounterTypes DEF IInv, EventInv
  <2>2. W \in Nat /\ W > 1 /\ dev.prev \in 0 .. W - 1
        /\ dev.driven = IF dev.prev + 1 = W THEN 0 ELSE dev.prev + 1
    BY <2>1, IncType, VirtqueueAssumption DEF Index
  <2>3. (dev.driven - dev.prev) % W = 1
    BY <2>1, IncType, AheadType
  <2>4. (dev.driven - avail.event - 1) % W = 0
    BY <2>1, <2>2
  <2> QED
    BY <2>3, <2>4 DEF used_event_notify
<1> QED
  BY <1>1, Invariance, PTL

-----------------------------------------------------------------------------
(* The two rings implement the exchange of buffers. *)

Offered == Entries(avail, dev.idx, avail.idx)
HeadsOf(r, a, b) == {r[(a + i) % Size] : i \in 0 .. ((b - a) % W) - 1}
Unseen == HeadsOf(used.ring, used.idx, dev.driven)
Held == devOwns \cup Unseen
Returned == Entries(used, drv.idx, used.idx)

LEMMA UnseenEntries ==
  ASSUME NEW r, NEW a \in Index
  PROVE  HeadsOf(r, a, a) = {} /\ HeadsOf(r, a, Inc(a)) = {r[Slot(a)]}
<1>1. (a - a) % W = 0 /\ (Inc(a) - a) % W = 1 /\ a \in Nat
  <2>1. Inc(a) \in Index /\ Ahead(a, Inc(a)) = 1 /\ a \in Nat
    BY IncType, DescFinite DEF Index
  <2>2. (Inc(a) - a) % W = 1
    BY <2>1, AheadType
  <2>3. (a - a) % W = 0
    BY AheadType
  <2> QED
    BY <2>1, <2>2, <2>3
<1>2. 0 .. 0 - 1 = {} /\ 0 .. 1 - 1 = {0} /\ a + 0 = a
  BY <1>1
<1> QED
  BY <1>1, <1>2 DEF HeadsOf, Slot

LEMMA SameRing ==
  ASSUME NEW r, NEW s, s.ring = r.ring, NEW a, NEW b
  PROVE  Entries(s, a, b) = Entries(r, a, b)
BY DEF Entries

(* What is unseen of the used ring: the entry whose index is still to be stored. *)
LEMMA UnseenHead ==
  ASSUME TypeOK, IndexInv
  PROVE  Unseen = IF Pending(devPc, devStore) THEN {used.ring[Slot(used.idx)]} ELSE {}
<1>1. used.idx \in Index
  BY CounterTypes
<1>2. dev.driven = IF Pending(devPc, devStore) THEN Inc(used.idx) ELSE used.idx
  BY DEF IndexInv, Follows
<1> QED
  BY <1>1, <1>2, UnseenEntries DEF Unseen

LEMMA NotAnEntry ==
  ASSUME NEW r, r.ring \in [Desc -> Desc], NEW a \in Index, NEW b \in Index, NEW h,
         \A p \in Live(a, b) : r.ring[Slot(p)] # h
  PROVE  h \notin Exchange!Elements(Entries(r, a, b))
<1>1. DOMAIN Entries(r, a, b) = 1 .. Ahead(a, b)
  BY EntriesFacts, AheadType
<1>2. ASSUME NEW i \in 1 .. Ahead(a, b)
      PROVE  Entries(r, a, b)[i] # h
  <2>1. PICK p \in Live(a, b) : Slot(a + i - 1) = Slot(p)
    BY Places
  <2>2. Entries(r, a, b)[i] = r.ring[Slot(a + i - 1)]
    BY EntriesFacts
  <2> QED
    BY <2>1, <2>2
<1> QED
  BY <1>1, <1>2 DEF Exchange!Elements

LEMMA Stutters ==
  ASSUME Offered' = Offered, Held' = Held, Returned' = Returned
  PROVE  UNCHANGED Exchange!exchange
BY DEF Exchange!exchange, Offered, Held, Unseen, HeadsOf, Returned

LEMMA DriverSendStutters ==
  ASSUME IInv, NEW h \in Desc, DriverSend(h)
  PROVE  Offered' = Offered /\ Held' = Held /\ Returned' = Returned
<1> USE CounterTypes DEF IInv
<1>1. /\ avail.idx = drv.driven /\ avail'.idx = avail.idx /\ avail' \in Region
      /\ avail'.ring = [avail.ring EXCEPT ![Slot(drv.driven)] = h]
      /\ h \in drvOwns /\ UNCHANGED <<used, dev, devOwns>> /\ drv'.idx = drv.idx
  BY DriverSends DEF devVars, IndexInv, Follows, Pending, StoresIndex
<1>2. Ahead(dev.idx, drv.driven) \in Nat /\ Ahead(dev.idx, drv.driven) < Size
  BY <1>1, Room
<1>3. \A p \in Live(dev.idx, avail.idx) : avail'.ring[Slot(p)] = avail.ring[Slot(p)]
  BY <1>1, <1>2, EntryWritten
<1>4. avail'.ring \in [Desc -> Desc]
  BY <1>1 DEF Region
<1>5. Entries(avail', dev.idx, avail.idx) = Entries(avail, dev.idx, avail.idx)
  BY <1>3, <1>4, EntriesKeep
<1> QED
  BY <1>1, <1>5 DEF Offered, Held, Unseen, Returned

LEMMA DeviceSendStutters ==
  ASSUME IInv, NEW h \in Desc, DeviceSend(h)
  PROVE  Offered' = Offered /\ Held' = Held /\ Returned' = Returned
<1> USE CounterTypes DEF IInv
<1>1. /\ used.idx = dev.driven /\ used'.idx = used.idx /\ used' \in Region
      /\ used'.ring = [used.ring EXCEPT ![Slot(dev.driven)] = h]
      /\ h \in devOwns /\ devOwns' = devOwns \ {h} /\ dev'.driven = Inc(dev.driven)
      /\ dev'.idx = dev.idx /\ UNCHANGED <<avail, drv>>
  BY DeviceSends DEF drvVars, IndexInv, Follows, Pending, StoresIndex
<1>2. Ahead(drv.idx, dev.driven) \in Nat /\ Ahead(drv.idx, dev.driven) < Size
  BY <1>1, Room
<1>3. /\ \A p \in Live(drv.idx, used.idx) : used'.ring[Slot(p)] = used.ring[Slot(p)]
      /\ used'.ring[Slot(used.idx)] = h
  BY <1>1, <1>2, EntryWritten
<1>4. used'.ring \in [Desc -> Desc] /\ Inc(dev.driven) \in Index
  BY <1>1, IncType DEF Region
<1>5. Entries(used', drv.idx, used.idx) = Entries(used, drv.idx, used.idx)
  BY <1>3, <1>4, EntriesKeep
<1>6. Unseen = {}
  BY <1>1, UnseenEntries DEF Unseen
<1>7. Unseen' = {h}
  BY <1>1, <1>3, <1>4, UnseenEntries DEF Unseen
<1>8. Held' = Held
  BY <1>1, <1>6, <1>7 DEF Held
<1> QED
  BY <1>1, <1>5, <1>8 DEF Offered, Returned

LEMMA QuietStutters ==
  ASSUME IInv, DriverQuiet \/ DeviceQuiet
  PROVE  Offered' = Offered /\ Held' = Held /\ Returned' = Returned
<1>1. /\ avail'.ring = avail.ring /\ avail'.idx = avail.idx
      /\ used'.ring = used.ring /\ used'.idx = used.idx
      /\ UNCHANGED <<drv, dev, devOwns>>
  BY DriverQuiets, DeviceQuiets DEF IInv, drvVars, devVars
<1> QED
  BY <1>1, SameRing DEF Offered, Held, Unseen, Returned

LEMMA DriverCollectsOne ==
  ASSUME IInv, DriverEntry, ~stale'
  PROVE  Exchange!Collect
<1> USE CounterTypes DEF IInv
<1>1. /\ avail'.ring = avail.ring /\ avail'.idx = avail.idx /\ drv'.idx = Inc(drv.idx)
      /\ drv.idx # used.idx /\ UNCHANGED <<used, dev, devOwns>>
  BY DriverCollects DEF devVars, IndexInv
<1>2. Returned' = Tail(Returned) /\ Returned # <<>>
  BY <1>1, EntriesTail DEF Returned
<1>3. Offered' = Offered /\ Held' = Held
  BY <1>1, SameRing DEF Offered, Held, Unseen
<1> QED
  BY <1>2, <1>3 DEF Exchange!Collect, Offered, Held, Unseen, HeadsOf, Returned

LEMMA DeviceTakesOne ==
  ASSUME IInv, DeviceEntry, ~stale'
  PROVE  Exchange!Take
<1> USE CounterTypes DEF IInv
<1>1. /\ devOwns' = devOwns \cup {avail.ring[Slot(dev.idx)]} /\ dev'.idx = Inc(dev.idx)
      /\ dev'.driven = dev.driven /\ dev.idx # avail.idx /\ UNCHANGED <<avail, used, drv>>
  BY DeviceTakes DEF drvVars, ring, IndexInv
<1>2. /\ Offered' = Tail(Offered) /\ Offered # <<>>
      /\ Head(Offered) = avail.ring[Slot(dev.idx)]
  BY <1>1, EntriesTail DEF Offered
<1>3. Held' = Held \cup {Head(Offered)}
  BY <1>1, <1>2 DEF Held, Unseen
<1>4. Returned' = Returned
  BY <1>1 DEF Returned
<1> QED
  BY <1>2, <1>3, <1>4 DEF Exchange!Take, Offered, Held, Unseen, HeadsOf, Returned

(* The entry whose index is to be stored is the last of those that the other  *)
(* end has to read.                                                           *)
LEMMA LastLive ==
  ASSUME NEW a \in Index, NEW b \in Index, a # Inc(b)
  PROVE  /\ Ahead(a, b) < W - 1
         /\ Live(a, Inc(b)) = Live(a, b) \cup {b} /\ b \notin Live(a, b)
<1>1. Ahead(a, Inc(b)) = Ahead(a, b) + 1 /\ Ahead(a, Inc(b)) \in Index /\ Ahead(a, b) \in Nat
  BY AheadGrows, AheadType, IncType
<1>2. Ahead(a, b) < W - 1
  BY <1>1, DescFinite DEF Index
<1> QED
  BY <1>2, LiveExtends

LEMMA DriverOffers ==
  ASSUME IInv, HeadInv, DriverIndex \/ DriverDrains
  PROVE  \/ Exchange!Offer
         \/ Offered' = Offered /\ Held' = Held /\ Returned' = Returned
<1> USE CounterTypes DEF IInv
<1>1. avail'.ring = avail.ring /\ UNCHANGED <<used, drv, dev, devOwns>>
  BY DriverStoresIndex DEF devVars
<1>2. Held' = Held /\ Returned' = Returned
  BY <1>1 DEF Held, Unseen, Returned
<1>3. CASE avail'.idx = avail.idx
  BY <1>1, <1>2, <1>3, SameRing DEF Offered
<1>4. CASE avail'.idx # avail.idx
  <2> DEFINE h == avail.ring[Slot(avail.idx)]
  <2>1. Pending(drvPc, drvStore) /\ avail'.idx = drv.driven
    BY <1>4, DriverStoresIndex DEF IndexInv, Follows
  <2>2. drv.driven = Inc(avail.idx) /\ dev.idx # Inc(avail.idx)
    BY <2>1 DEF IndexInv, Follows
  <2>3. /\ Ahead(dev.idx, avail.idx) < W - 1
        /\ AvailLive = Live(dev.idx, avail.idx) \cup {avail.idx}
        /\ avail.idx \notin Live(dev.idx, avail.idx)
    BY <2>2, LastLive DEF AvailLive
  <2>4. Offered' = Append(Offered, h)
    BY <1>1, <2>1, <2>2, <2>3, EntriesAppend, SameRing DEF Offered
  <2>5. h \in Desc
    BY SlotInDesc, DescFinite DEF Index
  <2>6. h \notin Exchange!Elements(Offered)
    BY <2>3, NotAnEntry DEF HeadInv, Offered
  <2>7. UsedLive = Live(drv.idx, used.idx)
                     \cup (IF Pending(devPc, devStore) THEN {used.idx} ELSE {})
    <3>1. CASE Pending(devPc, devStore)
      <4>1. dev.driven = Inc(used.idx) /\ drv.idx # Inc(used.idx)
        BY <3>1 DEF IndexInv, Follows
      <4> QED
        BY <3>1, <4>1, LastLive DEF UsedLive
    <3>2. CASE ~Pending(devPc, devStore)
      BY <3>2 DEF UsedLive, IndexInv, Follows
    <3> QED
      BY <3>1, <3>2
  <2>8. h \notin Exchange!Elements(Returned)
    BY <2>3, <2>7, NotAnEntry DEF HeadInv, Returned
  <2>9. h \notin Held
    BY <2>3, <2>7, UnseenHead DEF HeadInv, Held
  <2>10. h \in Desc \ Exchange!Busy
    BY <2>5, <2>6, <2>8, <2>9 DEF Exchange!Busy, Offered, Held, Unseen, HeadsOf, Returned
  <2> HIDE DEF h
  <2> QED
    BY <1>2, <2>4, <2>10 DEF Exchange!Offer, Offered, Held, Unseen, HeadsOf, Returned
<1> QED
  BY <1>3, <1>4

LEMMA DeviceReturns ==
  ASSUME IInv, HeadInv, DeviceIndex \/ DeviceDrains
  PROVE  \/ Exchange!Return
         \/ Offered' = Offered /\ Held' = Held /\ Returned' = Returned
<1> USE CounterTypes DEF IInv
<1>1. used'.ring = used.ring /\ UNCHANGED <<avail, drv, dev, devOwns>>
  BY DeviceStoresIndex DEF drvVars
<1>2. Offered' = Offered
  BY <1>1 DEF Offered
<1>3. CASE used'.idx = used.idx
  BY <1>1, <1>2, <1>3, SameRing DEF Held, Unseen, Returned
<1>4. CASE used'.idx # used.idx
  <2> DEFINE h == used.ring[Slot(used.idx)]
  <2>1. Pending(devPc, devStore) /\ used'.idx = dev.driven
    BY <1>4, DeviceStoresIndex DEF IndexInv, Follows
  <2>2. dev.driven = Inc(used.idx) /\ drv.idx # Inc(used.idx)
    BY <2>1 DEF IndexInv, Follows
  <2>3. /\ Ahead(drv.idx, used.idx) < W - 1
        /\ used.idx \in UsedLive
    BY <2>2, LastLive DEF UsedLive
  <2>4. Returned' = Append(Returned, h)
    BY <1>1, <2>1, <2>2, <2>3, EntriesAppend, SameRing DEF Returned
  <2>5. Held = devOwns \cup {h} /\ h \notin devOwns
    BY <2>1, <2>3, UnseenHead DEF Held, HeadInv
  <2>6. Held' = devOwns
    BY <1>1, <2>1, UnseenEntries DEF Held, Unseen
  <2>7. h \in Held /\ Held' = Held \ {h}
    BY <2>5, <2>6
  <2> HIDE DEF h
  <2> QED
    BY <1>2, <2>4, <2>7 DEF Exchange!Return, Offered, Held, Unseen, HeadsOf, Returned
<1> QED
  BY <1>3, <1>4

(* The rings lose, duplicate and overtake no buffer: at any interleaving of    *)
(* the accesses of the two threads, with the stores delayed or not, and across *)
(* the wrap of the counters they do what BufferExchange promises, up to the    *)
(* recv of an entry that was loaded before the index and has changed since.    *)
THEOREM RingsExchange == Spec => ImplementsExchange
<1>1. Init => Exchange!XInit
  <2> SUFFICES ASSUME Init
               PROVE  Exchange!XInit
    OBVIOUS
  <2>1. 0 \in Index /\ IInv
    BY Start, VirtqueueAssumption DEF Index
  <2>2. avail.idx = 0 /\ used.idx = 0 /\ dev.idx = 0 /\ drv.idx = 0 /\ dev.driven = 0
        /\ devOwns = {}
    BY DEF Init, Zero, NewQueue
  <2>3. Len(Offered) = 0 /\ Len(Returned) = 0 /\ Offered \in Seq(Desc) /\ Returned \in Seq(Desc)
    <3>1. avail.ring \in [Desc -> Desc] /\ used.ring \in [Desc -> Desc] /\ Ahead(0, 0) = 0
      BY <2>1, CounterTypes, AheadType DEF IInv
    <3> QED
      BY <2>1, <2>2, <3>1, EntriesFacts DEF Offered, Returned
  <2>4. Offered = <<>> /\ Returned = <<>>
    BY <2>3, EmptySeq
  <2>5. Held = {}
    BY <2>1, <2>2, UnseenEntries DEF Held, Unseen
  <2> QED
    BY <2>4, <2>5 DEF Exchange!XInit, Offered, Held, Unseen, HeadsOf, Returned
<1>2. IInv /\ [Next]_vars => [stale' \/ Exchange!XNext]_(Exchange!exchange)
  <2> SUFFICES ASSUME IInv, [Next]_vars, ~stale'
               PROVE  Exchange!XNext \/ UNCHANGED Exchange!exchange
    OBVIOUS
  <2>0. HeadInv
    BY LoadsKeep DEF IInv, vars, loads
  <2>1. ASSUME NEW h \in Desc, DriverSend(h)
        PROVE  UNCHANGED Exchange!exchange
    BY <2>1, DriverSendStutters, Stutters
  <2>2. ASSUME NEW h \in Desc, DeviceSend(h)
        PROVE  UNCHANGED Exchange!exchange
    BY <2>2, DeviceSendStutters, Stutters
  <2>3. CASE DriverQuiet \/ DeviceQuiet
    BY <2>3, QuietStutters, Stutters
  <2>4. CASE DriverEntry
    BY <2>4, DriverCollectsOne DEF Exchange!XNext
  <2>5. CASE DeviceEntry
    BY <2>5, DeviceTakesOne DEF Exchange!XNext
  <2>6. CASE DriverIndex \/ DriverDrains
    BY <2>0, <2>6, DriverOffers, Stutters DEF Exchange!XNext
  <2>7. CASE DeviceIndex \/ DeviceDrains
    BY <2>0, <2>7, DeviceReturns, Stutters DEF Exchange!XNext
  <2>8. CASE UNCHANGED vars
    BY <2>8, Stutters DEF vars, ring, drvVars, devVars, Offered, Held, Unseen, Returned
  <2> QED
    BY <2>1, <2>2, <2>3, <2>4, <2>5, <2>6, <2>7, <2>8, Steps
<1> QED
  BY <1>1, <1>2, Invariance, PTL DEF Spec, ImplementsExchange

-----------------------------------------------------------------------------
(* The copies between scatter-gather buffers.  What a copy needs of its
   cookies, and that the clients' copies and the cookies count each other. *)

IsCookie(c) ==
  /\ DOMAIN c = {"started", "sg", "src", "pending", "sz", "d", "s", "from", "linSrc", "linDst"}
  /\ c.started \in BOOLEAN /\ c.sg \in BOOLEAN /\ c.src \in BOOLEAN /\ c.pending \in Nat
  /\ c.linSrc \in BOOLEAN /\ c.linDst \in BOOLEAN

Copies == [s : Buf \cup {Linear}, d : Buf \cup {Linear}, again : BOOLEAN]

Matches(c) ==
  IF c.d = Linear THEN is_src_to_linear(c.s)
  ELSE IF c.s = Linear THEN is_dst_from_linear(c.d)
  ELSE is_src_to_matching_sg(c.s, c.d)

From(b) == {c \in copies : c.s = b}

SgTypeOK ==
  /\ DOMAIN cookie = Buf /\ \A b \in Buf : IsCookie(cookie[b])
  /\ copies \in SUBSET Copies /\ IsFiniteSet(copies)
  /\ \A c \in copies : ~(c.s = Linear /\ c.d = Linear)
  /\ \A c, e \in copies : c.s = e.s /\ c.d = e.d => c = e

PairInv ==
  /\ \A c \in copies : Matches(c)
  /\ \A b \in Buf : /\ InUse(b) => \E c \in copies : b \in {c.s, c.d}
                    /\ cookie[b].pending = Cardinality(From(b))

SgInv == SgTypeOK /\ PairInv

(* The cookies that InitStatus, InitMetadata, ConcludeSrc and Recorded make. *)
LEMMA StatusFields ==
  ASSUME NEW c, IsCookie(c)
  PROVE  LET k == InitStatus(c, TRUE, TRUE)
         IN  IsCookie(k) /\ k.started /\ k.sg /\ k.src /\ k.pending = c.pending + 1
BY DEF InitStatus, IsCookie

LEMMA DstOfSgFields ==
  ASSUME NEW c, IsCookie(c), NEW sz, NEW dOff, NEW sOff,
         NEW k, k = InitMetadata(c, FALSE, TRUE, sz, dOff, sOff)
  PROVE  IsCookie(k) /\ k.started /\ k.sg /\ ~k.src /\ k.pending = 0
BY DEF InitMetadata, InitStatus, IsCookie

LEMMA SrcOfLinearFields ==
  ASSUME NEW c, IsCookie(c), NEW sz, NEW dOff, NEW sOff,
         NEW k, k = InitMetadata(c, TRUE, FALSE, sz, dOff, sOff)
  PROVE  IsCookie(k) /\ k.started /\ ~k.sg /\ k.src /\ k.pending = 1
BY DEF InitMetadata, InitStatus, IsCookie

LEMMA NoCopyFields ==
  IsCookie(NoCopy) /\ ~NoCopy.started /\ NoCopy.pending = 0
BY DEF NoCopy, IsCookie

LEMMA ConcludeFields ==
  ASSUME NEW c, IsCookie(c), c.pending > 0
  PROVE  LET k == ConcludeSrc(c)
         IN  /\ IsCookie(k) /\ k.pending = c.pending - 1
             /\ c.pending = 1 => ~k.started
             /\ c.pending # 1 => /\ k.started = c.started /\ k.sg = c.sg /\ k.src = c.src
                                 /\ k.linSrc = c.linSrc /\ k.linDst = c.linDst
                                 /\ k.from = c.from
<1>1. CASE c.pending = 1
  BY <1>1, NoCopyFields DEF ConcludeSrc
<1>2. CASE c.pending # 1
  BY <1>2 DEF ConcludeSrc, IsCookie
<1> QED
  BY <1>1, <1>2

LEMMA RecordedFields ==
  ASSUME NEW c, IsCookie(c), NEW n
  PROVE  LET k == Recorded(c, n)
         IN  /\ IsCookie(k) /\ k.started = c.started /\ k.sg = c.sg /\ k.src = c.src
             /\ k.pending = c.pending /\ k.linSrc = c.linSrc /\ k.linDst = c.linDst
             /\ k.from = c.from
BY DEF Recorded, IsCookie

LEMMA FromFinite ==
  ASSUME SgTypeOK, NEW b
  PROVE  IsFiniteSet(From(b)) /\ Cardinality(From(b)) \in Nat
BY FS_Subset, FS_CardinalityType DEF SgTypeOK, From

(* A cookie that is not in use belongs to no copy. *)
LEMMA IdleEnd ==
  ASSUME SgInv, NEW b \in Buf, ~InUse(b)
  PROVE  (\A c \in copies : c.s # b /\ c.d # b) /\ cookie[b].pending = 0
<1>1. \A c \in copies : c.s # b /\ c.d # b
  BY SgAssumption
  DEF SgInv, PairInv, SgTypeOK, Copies, Matches, is_src_to_linear, is_dst_from_linear,
      is_src_to_matching_sg, is_src_to_sg, InUse
<1>2. From(b) = {}
  BY <1>1 DEF From
<1> QED
  BY <1>1, <1>2, FS_EmptySet DEF SgInv, PairInv

(* Buffers that pass the tests at the start of a copy. *)
LEMMA CanStart ==
  ASSUME SgInv, NEW b \in Buf, ~is_src_to_linear(b), ~is_dst(b)
  PROVE  /\ \A c \in copies : c.d # b /\ (c.s = b => c.d \in Buf)
         /\ InUse(b) => is_src_to_sg(b)
<1>1. \A c \in copies : c.d # b /\ (c.s = b => c.d \in Buf /\ is_src_to_sg(b))
  <2> SUFFICES ASSUME NEW c \in copies
               PROVE  c.d # b /\ (c.s = b => c.d \in Buf /\ is_src_to_sg(b))
    OBVIOUS
  <2>1. Matches(c) /\ c \in Copies
    BY DEF SgInv, PairInv, SgTypeOK
  <2> QED
    BY <2>1, SgAssumption
    DEF Copies, Matches, is_dst, is_dst_from_linear, is_src_to_matching_sg
<1> QED
  BY <1>1 DEF SgInv, PairInv

LEMMA Joins ==
  ASSUME SgInv, NEW n \in Copies, n \notin copies, copies' = copies \cup {n}, NEW b \in Buf
  PROVE  /\ IsFiniteSet(copies')
         /\ Cardinality(From(b)') = Cardinality(From(b)) + (IF n.s = b THEN 1 ELSE 0)
<1>1. IsFiniteSet(copies')
  BY FS_AddElement DEF SgInv, SgTypeOK
<1>2. CASE n.s = b
  <2>1. From(b)' = From(b) \cup {n} /\ n \notin From(b)
    BY <1>2 DEF From
  <2> QED
    BY <1>1, <1>2, <2>1, FromFinite, FS_AddElement DEF SgInv
<1>3. CASE n.s # b
  <2>1. From(b)' = From(b)
    BY <1>3 DEF From
  <2> QED
    BY <1>1, <1>3, <2>1, FromFinite DEF SgInv
<1> QED
  BY <1>2, <1>3


(* A copy whose cookies do not change keeps what it needs. *)
LEMMA OthersMatch ==
  ASSUME SgInv, NEW c \in copies, c.s \in Buf => cookie'[c.s] = cookie[c.s],
         c.d \in Buf => cookie'[c.d] = cookie[c.d]
  PROVE  Matches(c)'
<1>1. Matches(c) /\ c.s \in Buf \cup {Linear} /\ c.d \in Buf \cup {Linear}
      /\ ~(c.s = Linear /\ c.d = Linear)
  BY DEF SgInv, PairInv, SgTypeOK, Copies
<1> QED
  BY <1>1
  DEF Matches, is_src_to_linear, is_dst_from_linear, is_src_to_matching_sg, is_src_to_sg, InUse

(* start_copy_to_sg *)
LEMMA StartToSgPairs ==
  ASSUME SgInv, NEW s \in Buf, NEW d \in Buf, StartToSg(s, d)
  PROVE  SgInv'
<1> DEFINE n == Copy(s, d)
<1>1. PICK sz \in CopySize, dOff \in Offset, sOff \in Offset :
        cookie' = [cookie EXCEPT
            ![s] = InitStatus(@, TRUE, TRUE),
            ![d] = [InitMetadata(@, FALSE, TRUE, sz, dOff, sOff) EXCEPT !.from = s]]
  BY DEF StartToSg
<1>2. s # d /\ ~is_src_to_linear(s) /\ ~is_dst(s) /\ ~InUse(d) /\ copies' = copies \cup {n}
  BY DEF StartToSg
<1>3. /\ \A c \in copies : c.d # s /\ (c.s = s => c.d \in Buf)
      /\ InUse(s) => is_src_to_sg(s)
  BY <1>2, CanStart
<1>4. (\A c \in copies : c.s # d /\ c.d # d) /\ cookie[d].pending = 0
  BY <1>2, IdleEnd
<1>5. n \in Copies /\ n \notin copies /\ n.s = s /\ n.d = d
  BY <1>4 DEF Copy, Copies
<1>6. s # Linear /\ d # Linear
  BY SgAssumption
<1>7. DOMAIN cookie = Buf /\ IsCookie(cookie[s]) /\ IsCookie(cookie[d])
  BY DEF SgInv, SgTypeOK
<1> DEFINE e == InitMetadata(cookie[d], FALSE, TRUE, sz, dOff, sOff)
<1>8. /\ DOMAIN cookie' = Buf
      /\ cookie'[s] = InitStatus(cookie[s], TRUE, TRUE)
      /\ cookie'[d] = [e EXCEPT !.from = s]
      /\ \A b \in Buf \ {s, d} : cookie'[b] = cookie[b]
  BY <1>1, <1>2, <1>7
<1>9. /\ IsCookie(cookie'[s]) /\ cookie'[s].started /\ cookie'[s].sg /\ cookie'[s].src
      /\ cookie'[s].pending = cookie[s].pending + 1
  BY <1>7, <1>8, StatusFields
<1>10. IsCookie(e) /\ e.started /\ e.sg /\ ~e.src /\ e.pending = 0
  BY <1>7, DstOfSgFields
<1>11. /\ IsCookie(cookie'[d]) /\ cookie'[d].started /\ cookie'[d].sg /\ ~cookie'[d].src
       /\ cookie'[d].pending = 0 /\ cookie'[d].from = s
  <2> HIDE DEF e
  <2> QED
    BY <1>8, <1>10 DEF IsCookie
<1> HIDE DEF n, e
<1>12. SgTypeOK'
  <2>1. \A b \in Buf : IsCookie(cookie'[b])
    BY <1>8, <1>9, <1>11 DEF SgInv, SgTypeOK
  <2>2. IsFiniteSet(copies')
    BY <1>2, <1>5, Joins
  <2>3. \A c, k \in copies' : c.s = k.s /\ c.d = k.d => c = k
    BY <1>2, <1>4, <1>5 DEF SgInv, SgTypeOK
  <2> QED
    BY <1>2, <1>5, <1>6, <1>8, <2>1, <2>2, <2>3 DEF SgInv, SgTypeOK
<1>13. is_src_to_sg(s)'
  BY <1>7, <1>9 DEF is_src_to_sg, InUse, IsCookie
<1>14. ASSUME NEW c \in copies'
       PROVE  Matches(c)'
  <2>1. CASE c = n
    BY <1>5, <1>6, <1>11, <1>13, <2>1 DEF Matches, is_src_to_matching_sg, InUse
  <2>2. CASE c \in copies /\ c.s # s
    BY <1>3, <1>4, <1>8, <2>2, OthersMatch
  <2>3. CASE c \in copies /\ c.s = s
    <3>1. Matches(c) /\ c.d \in Buf \ {s, d}
      BY <1>3, <1>4, <2>3 DEF SgInv, PairInv
    <3>2. cookie'[c.d] = cookie[c.d] /\ c.d # Linear
      BY <1>8, <3>1, SgAssumption
    <3> QED
      BY <1>6, <1>13, <2>3, <3>1, <3>2 DEF Matches, is_src_to_matching_sg, InUse
  <2> QED
    BY <1>2, <2>1, <2>2, <2>3
<1>15. ASSUME NEW b \in Buf
       PROVE  InUse(b)' => \E c \in copies' : b \in {c.s, c.d}
  <2>1. CASE b \in {s, d}
    BY <1>2, <1>5, <2>1
  <2>2. CASE b \notin {s, d}
    BY <1>2, <1>8, <2>2 DEF InUse, SgInv, PairInv
  <2> QED
    BY <2>1, <2>2
<1>16. ASSUME NEW b \in Buf
       PROVE  cookie'[b].pending = Cardinality(From(b)')
  <2>1. Cardinality(From(b)') = Cardinality(From(b)) + (IF s = b THEN 1 ELSE 0)
    BY <1>2, <1>5, Joins
  <2>2. cookie[b].pending = Cardinality(From(b)) /\ cookie[b].pending \in Nat
    BY DEF SgInv, PairInv, SgTypeOK, IsCookie
  <2>3. CASE b = s
    BY <1>9, <2>1, <2>2, <2>3
  <2>4. CASE b = d
    BY <1>2, <1>4, <1>11, <2>1, <2>2, <2>4
  <2>5. CASE b \notin {s, d}
    BY <1>8, <2>1, <2>2, <2>5
  <2> QED
    BY <2>3, <2>4, <2>5
<1> QED
  BY <1>12, <1>14, <1>15, <1>16 DEF SgInv, PairInv

(* start_copy_to_linear and start_copy_from_linear *)
LEMMA StartLinearPairs ==
  ASSUME SgInv, NEW b \in Buf, StartToLinear(b) \/ StartFromLinear(b)
  PROVE  SgInv'
<1>1. ~is_src_to_sg(b) /\ ~is_src_to_linear(b) /\ ~is_dst(b)
  BY DEF StartToLinear, StartFromLinear
<1>2. ~InUse(b)
  BY <1>1, CanStart
<1>3. (\A c \in copies : c.s # b /\ c.d # b) /\ cookie[b].pending = 0
  BY <1>2, IdleEnd
<1>4. b # Linear /\ DOMAIN cookie = Buf /\ IsCookie(cookie[b])
  BY SgAssumption DEF SgInv, SgTypeOK
<1>5. PICK n \in Copies :
        /\ copies' = copies \cup {n} /\ {n.s, n.d} = {b, Linear}
        /\ DOMAIN cookie' = Buf /\ \A o \in Buf \ {b} : cookie'[o] = cookie[o]
        /\ IsCookie(cookie'[b]) /\ cookie'[b].started
        /\ cookie'[b].pending = (IF n.s = b THEN 1 ELSE 0)
        /\ Matches(n)'
  <2>1. CASE StartToLinear(b)
    <3> DEFINE n == Copy(b, Linear)
    <3>1. PICK sz \in CopySize, sOff \in Offset :
            cookie' = [cookie EXCEPT ![b] =
              [InitMetadata(@, TRUE, FALSE, sz, 0, sOff) EXCEPT !.linDst = TRUE]]
      BY <2>1 DEF StartToLinear
    <3> DEFINE e == InitMetadata(cookie[b], TRUE, FALSE, sz, 0, sOff)
    <3>2. IsCookie(e) /\ e.started /\ ~e.sg /\ e.src /\ e.pending = 1
      BY <1>4, SrcOfLinearFields
    <3>3. /\ DOMAIN cookie' = Buf /\ \A o \in Buf \ {b} : cookie'[o] = cookie[o]
          /\ cookie'[b] = [e EXCEPT !.linDst = TRUE]
      BY <1>4, <3>1
    <3> HIDE DEF e
    <3>4. /\ IsCookie(cookie'[b]) /\ cookie'[b].started /\ ~cookie'[b].sg /\ cookie'[b].src
          /\ cookie'[b].pending = 1 /\ cookie'[b].linDst
      BY <3>2, <3>3 DEF IsCookie
    <3>5. n \in Copies /\ n.s = b /\ n.d = Linear /\ copies' = copies \cup {n}
      BY <2>1 DEF StartToLinear, Copy, Copies
    <3>6. Matches(n)'
      BY <3>4, <3>5 DEF Matches, is_src_to_linear, InUse
    <3> HIDE DEF n
    <3> QED
      BY <3>3, <3>4, <3>5, <3>6
  <2>2. CASE StartFromLinear(b)
    <3> DEFINE n == Copy(Linear, b)
    <3>1. PICK sz \in CopySize, dOff \in Offset :
            cookie' = [cookie EXCEPT ![b] =
              [InitMetadata(@, FALSE, FALSE, sz, dOff, 0) EXCEPT !.linSrc = TRUE]]
      BY <2>2 DEF StartFromLinear
    <3> DEFINE e == InitMetadata(cookie[b], FALSE, FALSE, sz, dOff, 0)
    <3>2. IsCookie(e) /\ e.started /\ ~e.sg /\ ~e.src /\ e.pending = 0
      BY <1>4 DEF InitMetadata, InitStatus, IsCookie
    <3>3. /\ DOMAIN cookie' = Buf /\ \A o \in Buf \ {b} : cookie'[o] = cookie[o]
          /\ cookie'[b] = [e EXCEPT !.linSrc = TRUE]
      BY <1>4, <3>1
    <3> HIDE DEF e
    <3>4. /\ IsCookie(cookie'[b]) /\ cookie'[b].started /\ ~cookie'[b].sg /\ ~cookie'[b].src
          /\ cookie'[b].pending = 0 /\ cookie'[b].linSrc
      BY <3>2, <3>3 DEF IsCookie
    <3>5. n \in Copies /\ n.s = Linear /\ n.d = b /\ copies' = copies \cup {n}
      BY <2>2 DEF StartFromLinear, Copy, Copies
    <3>6. Matches(n)'
      BY <1>4, <3>4, <3>5 DEF Matches, is_dst_from_linear, InUse
    <3> HIDE DEF n
    <3> QED
      BY <1>4, <3>3, <3>4, <3>5, <3>6
  <2> QED
    BY <2>1, <2>2
<1>6. n \notin copies
  BY <1>3, <1>5
<1>7. SgTypeOK'
  <2>1. \A o \in Buf : IsCookie(cookie'[o])
    BY <1>5 DEF SgInv, SgTypeOK
  <2>2. IsFiniteSet(copies')
    BY <1>5, <1>6, Joins
  <2>3. \A c, k \in copies' : c.s = k.s /\ c.d = k.d => c = k
    BY <1>3, <1>5 DEF SgInv, SgTypeOK
  <2>4. \A c \in copies' : ~(c.s = Linear /\ c.d = Linear)
    BY <1>4, <1>5 DEF SgInv, SgTypeOK
  <2> QED
    BY <1>5, <2>1, <2>2, <2>3, <2>4 DEF SgInv, SgTypeOK
<1>8. ASSUME NEW c \in copies'
      PROVE  Matches(c)'
  <2>1. CASE c \in copies
    BY <1>3, <1>5, <2>1, OthersMatch
  <2> QED
    BY <1>5, <2>1
<1>9. ASSUME NEW o \in Buf
      PROVE  InUse(o)' => \E c \in copies' : o \in {c.s, c.d}
  <2>1. CASE o = b
    BY <1>5, <2>1
  <2>2. CASE o # b
    BY <1>5, <2>2 DEF InUse, SgInv, PairInv
  <2> QED
    BY <2>1, <2>2
<1>10. ASSUME NEW o \in Buf
       PROVE  cookie'[o].pending = Cardinality(From(o)')
  <2>1. Cardinality(From(o)') = Cardinality(From(o)) + (IF n.s = o THEN 1 ELSE 0)
    BY <1>5, <1>6, Joins
  <2>2. cookie[o].pending = Cardinality(From(o)) /\ cookie[o].pending \in Nat
    BY DEF SgInv, PairInv, SgTypeOK, IsCookie
  <2>3. o # b => n.s # o
    BY <1>5, SgAssumption
  <2> QED
    BY <1>3, <1>5, <2>1, <2>2, <2>3
<1> QED
  BY <1>7, <1>8, <1>9, <1>10 DEF SgInv, PairInv


(* A copy that goes on (AGAIN) is the same to all that counts it. *)
LEMMA GoesOn ==
  ASSUME SgInv, NEW c \in copies, NEW b \in Buf,
         b = (IF c.d = Linear THEN c.s ELSE c.d),
         NEW n, cookie' = [cookie EXCEPT ![b] = Recorded(@, n)], Left(c.s, c.d, TRUE)
  PROVE  SgInv'
<1> DEFINE k == [Copy(c.s, c.d) EXCEPT !.again = TRUE]
<1>1. c \in Copies /\ Matches(c)
  BY DEF SgInv, SgTypeOK, PairInv
<1>2. k \in Copies /\ k.s = c.s /\ k.d = c.d
  BY <1>1 DEF Copy, Copies
<1>3. copies' = (copies \ {c}) \cup {k}
  <2>1. {o \in copies : ~(o.s = c.s /\ o.d = c.d)} = copies \ {c}
    BY DEF SgInv, SgTypeOK
  <2>2. {o \in {k} : TRUE} = {k}
    OBVIOUS
  <2> QED
    BY <2>1, <2>2 DEF Left
<1> HIDE DEF k
<1>4. /\ DOMAIN cookie' = Buf /\ \A o \in Buf \ {b} : cookie'[o] = cookie[o]
      /\ cookie'[b] = Recorded(cookie[b], n)
  BY DEF SgInv, SgTypeOK
<1>5. \A o \in Buf :
        /\ IsCookie(cookie'[o]) /\ cookie'[o].started = cookie[o].started
        /\ cookie'[o].sg = cookie[o].sg /\ cookie'[o].src = cookie[o].src
        /\ cookie'[o].pending = cookie[o].pending /\ cookie'[o].from = cookie[o].from
        /\ cookie'[o].linSrc = cookie[o].linSrc /\ cookie'[o].linDst = cookie[o].linDst
  BY <1>4, RecordedFields DEF SgInv, SgTypeOK
<1>6. ASSUME NEW o \in Copies, ~(o.s = Linear /\ o.d = Linear), Matches(o)
      PROVE  Matches(o)'
  <2>1. o.s \in Buf \cup {Linear} /\ o.d \in Buf \cup {Linear}
    BY DEF Copies
  <2> QED
    BY <1>5, <1>6, <2>1
    DEF Matches, is_src_to_linear, is_dst_from_linear, is_src_to_matching_sg, is_src_to_sg,
        InUse
<1>7. Matches(k)
  BY <1>1, <1>2 DEF Matches
<1>8. \A o \in copies' : Matches(o)'
  BY <1>2, <1>3, <1>6, <1>7 DEF SgInv, SgTypeOK, PairInv
<1>9. SgTypeOK'
  <2>1. IsFiniteSet(copies')
    BY <1>3, FS_RemoveElement, FS_AddElement DEF SgInv, SgTypeOK
  <2>2. \A o, e \in copies' : o.s = e.s /\ o.d = e.d => o = e
    BY <1>2, <1>3 DEF SgInv, SgTypeOK
  <2> QED
    BY <1>2, <1>3, <1>4, <1>5, <2>1, <2>2 DEF SgInv, SgTypeOK
<1>10. ASSUME NEW o \in Buf
       PROVE  InUse(o)' => \E e \in copies' : o \in {e.s, e.d}
  BY <1>2, <1>3, <1>5 DEF SgInv, PairInv, InUse
<1>11. ASSUME NEW o \in Buf
       PROVE  cookie'[o].pending = Cardinality(From(o)')
  <2>1. IsFiniteSet(From(o)) /\ Cardinality(From(o)) \in Nat
    BY FromFinite DEF SgInv
  <2>2. CASE c.s = o
    <3>1. From(o)' = (From(o) \ {c}) \cup {k} /\ c \in From(o)
      BY <1>2, <1>3, <2>2 DEF From
    <3>2. k \notin From(o) \ {c}
      BY <1>2 DEF From, SgInv, SgTypeOK
    <3>3. IsFiniteSet(From(o) \ {c}) /\ Cardinality(From(o) \ {c}) = Cardinality(From(o)) - 1
      BY <2>1, <3>1, FS_RemoveElement
    <3>4. Cardinality(From(o)') = Cardinality(From(o) \ {c}) + 1
      BY <3>1, <3>2, <3>3, FS_AddElement
    <3> QED
      BY <1>5, <2>1, <3>3, <3>4 DEF SgInv, PairInv
  <2>3. CASE c.s # o
    <3>1. From(o)' = From(o)
      BY <1>2, <1>3, <2>3 DEF From
    <3> QED
      BY <1>5, <3>1 DEF SgInv, PairInv
  <2> QED
    BY <2>2, <2>3
<1> QED
  BY <1>8, <1>9, <1>10, <1>11 DEF SgInv, PairInv

(* The end of a copy: its destination is free, and its source if this was
   the last one. *)
LEMMA Ends ==
  ASSUME SgInv, NEW c \in copies, copies' = copies \ {c},
         DOMAIN cookie' = Buf,
         c.d \in Buf => cookie'[c.d] = NoCopy,
         c.s \in Buf => cookie'[c.s] = ConcludeSrc(cookie[c.s]),
         \A o \in Buf \ {c.s, c.d} : cookie'[o] = cookie[o]
  PROVE  SgInv'
<1>1. c \in Copies /\ Matches(c) /\ ~(c.s = Linear /\ c.d = Linear)
  BY DEF SgInv, SgTypeOK, PairInv
<1>2. c.s \in Buf =>
        /\ cookie[c.s].pending > 0 /\ c.s # c.d
        /\ cookie[c.s].src /\ cookie[c.s].started /\ IsCookie(cookie[c.s])
  BY <1>1, SgAssumption
  DEF Matches, is_src_to_linear, is_src_to_matching_sg, is_src_to_sg, InUse, SgInv, SgTypeOK
<1>3. c.s \in Buf =>
        /\ IsCookie(cookie'[c.s]) /\ cookie'[c.s].pending = cookie[c.s].pending - 1
        /\ cookie[c.s].pending = 1 => ~cookie'[c.s].started
        /\ cookie[c.s].pending # 1 =>
             /\ cookie'[c.s].started = cookie[c.s].started
             /\ cookie'[c.s].sg = cookie[c.s].sg /\ cookie'[c.s].src = cookie[c.s].src
             /\ cookie'[c.s].linSrc = cookie[c.s].linSrc
             /\ cookie'[c.s].linDst = cookie[c.s].linDst
             /\ cookie'[c.s].from = cookie[c.s].from
  BY <1>2, ConcludeFields
<1>4. ASSUME NEW o \in Buf
      PROVE  /\ IsFiniteSet(From(o)) /\ Cardinality(From(o)) \in Nat
             /\ IsFiniteSet(From(o)')
             /\ Cardinality(From(o)') = Cardinality(From(o)) - (IF c.s = o THEN 1 ELSE 0)
  <2>1. IsFiniteSet(From(o)) /\ Cardinality(From(o)) \in Nat
    BY FromFinite DEF SgInv
  <2>2. CASE c.s = o
    <3>1. From(o)' = From(o) \ {c} /\ c \in From(o)
      BY <2>2 DEF From
    <3> QED
      BY <2>1, <2>2, <3>1, FS_RemoveElement
  <2>3. CASE c.s # o
    <3>1. From(o)' = From(o)
      BY <2>3 DEF From
    <3> QED
      BY <2>1, <2>3, <3>1
  <2> QED
    BY <2>2, <2>3
<1>5. \A o \in Buf : cookie[o].pending = Cardinality(From(o)) /\ cookie[o].pending \in Nat
  BY DEF SgInv, PairInv, SgTypeOK, IsCookie
<1>6. SgTypeOK'
  <2>1. IsFiniteSet(copies')
    BY FS_RemoveElement DEF SgInv, SgTypeOK
  <2>2. \A o \in Buf : IsCookie(cookie'[o])
    BY <1>3, NoCopyFields DEF SgInv, SgTypeOK
  <2> QED
    BY <2>1, <2>2 DEF SgInv, SgTypeOK
(* The other copies have other destinations. *)
<1>7. ASSUME NEW e \in copies'
      PROVE  /\ e \in Copies /\ Matches(e) /\ (c.d \in Buf => e.s # c.d)
             /\ e.d \in Buf => e.d # c.d /\ e.d # c.s
             /\ e.s \in Buf /\ e.s = c.s => e.d # Linear /\ cookie[c.s].pending > 1
  <2>1. e \in copies /\ e \in Copies /\ Matches(e) /\ e # c /\ ~(e.s = c.s /\ e.d = c.d)
    BY DEF SgInv, SgTypeOK, PairInv
  <2>2. c.d \in Buf => e.s # c.d
    BY <1>1, <2>1, SgAssumption
    DEF Copies, Matches, is_src_to_linear, is_dst_from_linear, is_src_to_matching_sg,
        is_src_to_sg, SgInv, SgTypeOK
  <2>3. e.d \in Buf => e.d # c.s
    BY <1>1, <2>1, SgAssumption
    DEF Copies, Matches, is_src_to_linear, is_dst_from_linear, is_src_to_matching_sg,
        is_src_to_sg, SgInv, SgTypeOK
  <2>4. e.d \in Buf => e.d # c.d
    BY <1>1, <2>1, SgAssumption
    DEF Copies, Matches, is_dst_from_linear, is_src_to_matching_sg, SgInv, SgTypeOK
  <2>5. e.s \in Buf /\ e.s = c.s => e.d # Linear
    BY <1>1, <2>1, SgAssumption
    DEF Copies, Matches, is_src_to_linear, is_src_to_matching_sg, is_src_to_sg
  <2>6. e.s \in Buf /\ e.s = c.s => cookie[c.s].pending > 1
    <3> SUFFICES ASSUME e.s \in Buf, e.s = c.s PROVE cookie[c.s].pending > 1
      OBVIOUS
    <3>1. From(c.s)' # {}
      BY DEF From
    <3>2. Cardinality(From(c.s)') # 0
      BY <1>4, <3>1, FS_EmptySet
    <3>3. Cardinality(From(c.s)') \in Nat
      BY <1>4, FS_CardinalityType
    <3> QED
      BY <1>4, <1>5, <3>2, <3>3
  <2> QED
    BY <2>1, <2>2, <2>3, <2>4, <2>5, <2>6
<1>8. ASSUME NEW e \in copies'
      PROVE  Matches(e)'
  <2>1. CASE e.s = c.s /\ e.s \in Buf
    <3>1. /\ e.d \in Buf /\ cookie'[e.d] = cookie[e.d] /\ cookie[c.s].pending > 1
          /\ Matches(e) /\ e.d # Linear /\ e.s # Linear
      BY <1>7, <2>1, SgAssumption DEF Copies
    <3>2. cookie[c.s].pending \in Nat
      BY <1>5, <2>1
    <3> QED
      BY <1>3, <2>1, <3>1, <3>2 DEF Matches, is_src_to_matching_sg, is_src_to_sg, InUse
  <2>2. CASE e.s # c.s \/ e.s \notin Buf
    <3>1. e.s \in Buf => cookie'[e.s] = cookie[e.s]
      BY <1>7, <2>2
    <3>2. e.d \in Buf => cookie'[e.d] = cookie[e.d]
      BY <1>7
    <3>3. e \in copies
      OBVIOUS
    <3> QED
      BY <3>1, <3>2, <3>3, OthersMatch
  <2> QED
    BY <2>1, <2>2
<1>9. ASSUME NEW o \in Buf
      PROVE  InUse(o)' => \E e \in copies' : o \in {e.s, e.d}
  <2>1. CASE o = c.d
    BY <2>1, NoCopyFields DEF InUse
  <2>2. CASE o = c.s
    <3> SUFFICES ASSUME InUse(o)' PROVE From(o)' # {}
      BY DEF From
    <3>1. cookie[o].pending # 1 /\ cookie[o].pending > 0
      BY <1>2, <1>3, <2>2 DEF InUse
    <3>2. Cardinality(From(o)') # 0
      BY <1>4, <1>5, <2>2, <3>1
    <3> QED
      BY <3>2, FS_EmptySet
  <2>3. CASE o \notin {c.s, c.d}
    BY <2>3 DEF InUse, SgInv, PairInv
  <2> QED
    BY <2>1, <2>2, <2>3
<1>10. ASSUME NEW o \in Buf
       PROVE  cookie'[o].pending = Cardinality(From(o)')
  <2>1. CASE o = c.s
    BY <1>3, <1>4, <1>5, <2>1
  <2>2. CASE o = c.d
    <3>1. c.s # o
      BY <1>2, <2>2
    <3>2. From(o) = {}
      <4>1. \A e \in copies : e.s # o
        BY <1>7, <3>1, <2>2
      <4> QED
        BY <4>1 DEF From
    <3> QED
      BY <1>4, <2>2, <3>1, <3>2, FS_EmptySet, NoCopyFields
  <2>3. CASE o \notin {c.s, c.d}
    BY <1>4, <1>5, <2>3
  <2> QED
    BY <2>1, <2>2, <2>3
<1> QED
  BY <1>6, <1>8, <1>9, <1>10 DEF SgInv, PairInv


(* What Left and Tired leave of a copy that ends. *)
LEMMA LeftOne ==
  ASSUME SgInv, NEW c \in copies, Left(c.s, c.d, FALSE)
  PROVE  copies' = copies \ {c}
BY DEF Left, SgInv, SgTypeOK

(* try_end_copy_to_sg, and copy_to_sg when it gives up *)
LEMMA EndToSgPairs ==
  ASSUME SgInv, NEW s \in Buf, NEW d \in Buf, TryEndToSg(s, d) \/ GiveUpToSg(s, d)
  PROVE  SgInv'
<1>1. PICK c \in copies : c.s = s /\ c.d = d
  BY DEF TryEndToSg, GiveUpToSg, Busy, Tired
<1>2. d # Linear /\ DOMAIN cookie = Buf /\ Matches(c)
  BY SgAssumption DEF SgInv, SgTypeOK, PairInv
<1>3. s # d
  BY <1>1, <1>2, SgAssumption DEF Matches, is_src_to_matching_sg, is_src_to_sg
<1>4. CASE Left(s, d, FALSE) /\ cookie' = [cookie EXCEPT ![d] = NoCopy, ![s] = ConcludeSrc(@)]
  <2>1. copies' = copies \ {c}
    BY <1>1, <1>4, LeftOne
  <2>2. /\ DOMAIN cookie' = Buf /\ cookie'[d] = NoCopy /\ cookie'[s] = ConcludeSrc(cookie[s])
        /\ \A o \in Buf \ {s, d} : cookie'[o] = cookie[o]
    BY <1>2, <1>3, <1>4
  <2> QED
    BY <1>1, <2>1, <2>2, Ends
<1>5. CASE Left(s, d, TRUE) /\ \E n : cookie' = [cookie EXCEPT ![d] = Recorded(@, n)]
  BY <1>1, <1>2, <1>5, GoesOn
<1>6. CASE GiveUpToSg(s, d)
  BY <1>4, <1>6 DEF GiveUpToSg, Tired
<1>7. CASE TryEndToSg(s, d)
  <2>1. PICK at, ending :
          LET r == SgImpl(buf[d], buf[s], cookie[d].sz, cookie[d].d, cookie[d].s, at, ending)
          IN /\ Left(s, d, r.err = "AGAIN")
             /\ cookie' = IF r.err = "AGAIN"
                  THEN [cookie EXCEPT ![d] = Recorded(@, r.n)]
                  ELSE [cookie EXCEPT ![d] = NoCopy, ![s] = ConcludeSrc(@)]
    BY <1>7 DEF TryEndToSg
  <2> DEFINE r == SgImpl(buf[d], buf[s], cookie[d].sz, cookie[d].d, cookie[d].s, at, ending)
  <2>2. /\ Left(s, d, r.err = "AGAIN")
        /\ cookie' = IF r.err = "AGAIN"
             THEN [cookie EXCEPT ![d] = Recorded(@, r.n)]
             ELSE [cookie EXCEPT ![d] = NoCopy, ![s] = ConcludeSrc(@)]
    BY <2>1
  <2> HIDE DEF r
  <2>3. CASE r.err = "AGAIN"
    <3>1. Left(s, d, TRUE) /\ cookie' = [cookie EXCEPT ![d] = Recorded(@, r.n)]
      BY <2>2, <2>3 DEF Left
    <3> QED
      BY <1>5, <3>1
  <2>4. CASE r.err # "AGAIN"
    <3>1. Left(s, d, FALSE) /\ cookie' = [cookie EXCEPT ![d] = NoCopy, ![s] = ConcludeSrc(@)]
      BY <2>2, <2>4 DEF Left
    <3> QED
      BY <1>4, <3>1
  <2> QED
    BY <2>3, <2>4
<1> QED
  BY <1>6, <1>7

(* try_end_copy_to_linear, and copy_to_linear when it gives up *)
LEMMA EndToLinearPairs ==
  ASSUME SgInv, NEW s \in Buf, TryEndToLinear(s) \/ GiveUpToLinear(s)
  PROVE  SgInv'
<1>1. PICK c \in copies : c.s = s /\ c.d = Linear
  BY DEF TryEndToLinear, GiveUpToLinear, Busy, Tired
<1>2. DOMAIN cookie = Buf /\ Linear \notin Buf
  BY SgAssumption DEF SgInv, SgTypeOK
<1>3. CASE Left(s, Linear, FALSE) /\ cookie' = [cookie EXCEPT ![s] = ConcludeSrc(@)]
  <2>1. copies' = copies \ {c}
    BY <1>1, <1>3, LeftOne
  <2>2. /\ DOMAIN cookie' = Buf /\ cookie'[s] = ConcludeSrc(cookie[s])
        /\ \A o \in Buf \ {s, Linear} : cookie'[o] = cookie[o]
    BY <1>2, <1>3
  <2> QED
    BY <1>1, <1>2, <2>1, <2>2, Ends
<1>4. CASE Left(s, Linear, TRUE) /\ \E n : cookie' = [cookie EXCEPT ![s] = Recorded(@, n)]
  BY <1>1, <1>4, GoesOn
<1>5. CASE GiveUpToLinear(s)
  BY <1>3, <1>5 DEF GiveUpToLinear, Tired
<1>6. CASE TryEndToLinear(s)
  <2>1. PICK at, ending :
          LET r == LinearImpl(buf[s], FALSE, cookie[s].sz, cookie[s].s, cookie[s].d, at, ending)
          IN /\ Left(s, Linear, r.err = "AGAIN")
             /\ cookie' = [cookie EXCEPT ![s] =
                  IF r.err = "AGAIN" THEN Recorded(@, r.n) ELSE ConcludeSrc(@)]
    BY <1>6 DEF TryEndToLinear
  <2> DEFINE r == LinearImpl(buf[s], FALSE, cookie[s].sz, cookie[s].s, cookie[s].d, at, ending)
  <2>2. /\ Left(s, Linear, r.err = "AGAIN")
        /\ cookie' = [cookie EXCEPT ![s] =
             IF r.err = "AGAIN" THEN Recorded(@, r.n) ELSE ConcludeSrc(@)]
    BY <2>1
  <2> HIDE DEF r
  <2>3. CASE r.err = "AGAIN"
    <3>1. Left(s, Linear, TRUE) /\ cookie' = [cookie EXCEPT ![s] = Recorded(@, r.n)]
      BY <2>2, <2>3 DEF Left
    <3> QED
      BY <1>4, <3>1
  <2>4. CASE r.err # "AGAIN"
    <3>1. Left(s, Linear, FALSE) /\ cookie' = [cookie EXCEPT ![s] = ConcludeSrc(@)]
      BY <2>2, <2>4 DEF Left
    <3> QED
      BY <1>3, <3>1
  <2> QED
    BY <2>3, <2>4
<1> QED
  BY <1>5, <1>6

(* try_end_copy_from_linear, and copy_from_linear when it gives up *)
LEMMA EndFromLinearPairs ==
  ASSUME SgInv, NEW d \in Buf, TryEndFromLinear(d) \/ GiveUpFromLinear(d)
  PROVE  SgInv'
<1>1. PICK c \in copies : c.s = Linear /\ c.d = d
  BY DEF TryEndFromLinear, GiveUpFromLinear, Busy, Tired
<1>2. DOMAIN cookie = Buf /\ Linear \notin Buf /\ d # Linear
  BY SgAssumption DEF SgInv, SgTypeOK
<1>3. CASE Left(Linear, d, FALSE) /\ cookie' = [cookie EXCEPT ![d] = NoCopy]
  <2>1. copies' = copies \ {c}
    BY <1>1, <1>3, LeftOne
  <2>2. /\ DOMAIN cookie' = Buf /\ cookie'[d] = NoCopy
        /\ \A o \in Buf \ {Linear, d} : cookie'[o] = cookie[o]
    BY <1>2, <1>3
  <2> QED
    BY <1>1, <1>2, <2>1, <2>2, Ends
<1>4. CASE Left(Linear, d, TRUE) /\ \E n : cookie' = [cookie EXCEPT ![d] = Recorded(@, n)]
  BY <1>1, <1>2, <1>4, GoesOn
<1>5. CASE GiveUpFromLinear(d)
  BY <1>3, <1>5 DEF GiveUpFromLinear, Tired
<1>6. CASE TryEndFromLinear(d)
  <2>1. PICK at, ending :
          LET r == LinearImpl(buf[d], TRUE, cookie[d].sz, cookie[d].d, cookie[d].s, at, ending)
          IN /\ Left(Linear, d, r.err = "AGAIN")
             /\ cookie' = [cookie EXCEPT ![d] =
                  IF r.err = "AGAIN" THEN Recorded(@, r.n) ELSE NoCopy]
    BY <1>6 DEF TryEndFromLinear
  <2> DEFINE r == LinearImpl(buf[d], TRUE, cookie[d].sz, cookie[d].d, cookie[d].s, at, ending)
  <2>2. /\ Left(Linear, d, r.err = "AGAIN")
        /\ cookie' = [cookie EXCEPT ![d] =
             IF r.err = "AGAIN" THEN Recorded(@, r.n) ELSE NoCopy]
    BY <2>1
  <2> HIDE DEF r
  <2>3. CASE r.err = "AGAIN"
    <3>1. Left(Linear, d, TRUE) /\ cookie' = [cookie EXCEPT ![d] = Recorded(@, r.n)]
      BY <2>2, <2>3 DEF Left
    <3> QED
      BY <1>4, <3>1
  <2>4. CASE r.err # "AGAIN"
    <3>1. Left(Linear, d, FALSE) /\ cookie' = [cookie EXCEPT ![d] = NoCopy]
      BY <2>2, <2>4 DEF Left
    <3> QED
      BY <1>3, <3>1
  <2> QED
    BY <2>3, <2>4
<1> QED
  BY <1>5, <1>6

LEMMA UntouchedPairs ==
  ASSUME SgInv, UNCHANGED <<cookie, copies>>
  PROVE  SgInv'
<1>1. \A c : Matches(c)' <=> Matches(c)
  BY DEF Matches, is_src_to_linear, is_dst_from_linear, is_src_to_matching_sg, is_src_to_sg,
         InUse
<1>2. \A b : From(b)' = From(b)
  BY DEF From
<1> QED
  BY <1>1, <1>2 DEF SgInv, SgTypeOK, PairInv, InUse

LEMMA SgInvariant == SgSpec => []SgInv
<1>1. SgInit => SgInv
  <2> SUFFICES ASSUME SgInit PROVE SgInv
    OBVIOUS
  <2>1. DOMAIN cookie = Buf /\ \A b \in Buf : cookie[b] = NoCopy
    BY DEF SgInit
  <2>2. copies = {} /\ \A b \in Buf : From(b) = {}
    BY DEF SgInit, From
  <2> QED
    BY <2>1, <2>2, NoCopyFields, FS_EmptySet DEF SgInv, SgTypeOK, PairInv, InUse
<1>2. SgInv /\ [SgNext]_sgVars => SgInv'
  <2> SUFFICES ASSUME SgInv, [SgNext]_sgVars PROVE SgInv'
    OBVIOUS
  <2>1. ASSUME NEW b \in Buf,
               WalkChain(b) \/ WalkFails(b) \/ AddLink(b) \/ ModifyLink(b) \/ Conclude(b)
        PROVE  SgInv'
    BY <2>1, UntouchedPairs DEF WalkChain, WalkFails, AddLink, ModifyLink, Conclude
  <2>2. CASE UNCHANGED sgVars
    BY <2>2, UntouchedPairs DEF sgVars
  <2> QED
    BY <2>1, <2>2, StartToSgPairs, StartLinearPairs, EndToSgPairs, EndToLinearPairs,
       EndFromLinearPairs
    DEF SgNext
<1> QED
  BY <1>1, <1>2, PTL DEF SgSpec

(* The start, retry, end and abandonment of copies between buffers and linear
   memory, over any sequence of calls: a copy that was started can be ended, and a
   cookie is in use as long as a copy needs it. *)
THEOREM CopiesConcludeOnce == SgSpec => []CopiesPaired
<1>1. SgInv => CopiesPaired
  BY DEF SgInv, PairInv, CopiesPaired, Matches, From
<1> QED
  BY <1>1, SgInvariant, PTL
-----------------------------------------------------------------------------
(* Induction over the natural numbers, for what a recursive function computes:
   a statement about n is the set of the n of which it holds. *)

LEMMA Least ==
  ASSUME NEW S \in SUBSET Nat, S # {}
  PROVE  \E x \in S : \A y \in S : x <= y
<1>1. PICK x \in S : \A y \in S : ~(<<y, x>> \in OpToRel(<, Nat))
  BY NatLessThanWellFounded, WFMin, Zenon
<1>2. \A y \in S : ~(y < x)
  BY <1>1, Zenon DEF OpToRel
<1> QED
  BY <1>2

LEMMA Counted ==
  ASSUME NEW S \in SUBSET Nat, 0 \in S, \A n \in S : n + 1 \in S
  PROVE  S = Nat
<1> SUFFICES ASSUME S # Nat PROVE FALSE
  OBVIOUS
<1>1. PICK x \in Nat \ S : \A y \in Nat \ S : x <= y
  <2>1. Nat \ S # {} /\ Nat \ S \in SUBSET Nat
    OBVIOUS
  <2> QED
    BY <2>1, Least
<1>2. x # 0 /\ x - 1 \in Nat
  BY <1>1
<1>3. x - 1 \in S
  BY <1>1, <1>2
<1>4. x - 1 + 1 \in S
  BY <1>3
<1> QED
  BY <1>1, <1>4

LEMMA MinIsLeast ==
  ASSUME NEW S \in SUBSET Nat, S # {}
  PROVE  Min(S) \in S /\ \A y \in S : Min(S) <= y
BY Least DEF Min

-----------------------------------------------------------------------------
(* The offsets at which descriptors start. *)

LEMMA SumsExist ==
  ASSUME NEW c, NEW n \in Nat
  PROVE  \E g : g = [j \in 0 .. n |-> IF j = 0 THEN 0 ELSE g[j - 1] + c[j].len]
<1> DEFINE S == {m \in Nat :
                   \E g : g = [j \in 0 .. m |-> IF j = 0 THEN 0 ELSE g[j - 1] + c[j].len]}
<1>1. 0 \in S
  <2> DEFINE g == [j \in 0 .. 0 |-> 0]
  <2>1. g = [j \in 0 .. 0 |-> IF j = 0 THEN 0 ELSE g[j - 1] + c[j].len]
    OBVIOUS
  <2> HIDE DEF g
  <2> QED
    BY <2>1
<1>2. ASSUME NEW m \in S
      PROVE  m + 1 \in S
  <2>1. PICK g : g = [j \in 0 .. m |-> IF j = 0 THEN 0 ELSE g[j - 1] + c[j].len]
    OBVIOUS
  <2> DEFINE h == [j \in 0 .. m + 1 |-> IF j = m + 1 THEN g[m] + c[m + 1].len ELSE g[j]]
  <2>2. \A j \in 0 .. m : g[j] = IF j = 0 THEN 0 ELSE g[j - 1] + c[j].len
    BY <2>1
  <2>3. \A j \in 0 .. m + 1 : h[j] = IF j = 0 THEN 0 ELSE h[j - 1] + c[j].len
    BY <2>2
  <2>4. h = [j \in 0 .. m + 1 |-> h[j]]
    OBVIOUS
  <2> HIDE DEF h
  <2>5. h = [j \in 0 .. m + 1 |-> IF j = 0 THEN 0 ELSE h[j - 1] + c[j].len]
    BY <2>3, <2>4
  <2> QED
    BY <2>5
<1> HIDE DEF S
<1>3. S = Nat
  <2>1. S \in SUBSET Nat
    BY DEF S
  <2> QED
    BY <1>1, <1>2, <2>1, Counted
<1> QED
  BY <1>3 DEF S

(* The equations of StartOf, *)
LEMMA Starts ==
  ASSUME NEW c, Len(c) \in Nat
  PROVE  /\ StartOf(c, 1) = 0
         /\ \A i \in 1 .. Len(c) : StartOf(c, i + 1) = StartOf(c, i) + c[i].len
<1> DEFINE g == CHOOSE f : f = [j \in 0 .. Len(c) |-> IF j = 0 THEN 0 ELSE f[j - 1] + c[j].len]
<1>1. \A i : StartOf(c, i) = g[i - 1]
  BY DEF StartOf
<1>2. g = [j \in 0 .. Len(c) |-> IF j = 0 THEN 0 ELSE g[j - 1] + c[j].len]
  BY SumsExist
<1> HIDE DEF g
<1>3. StartOf(c, 1) = 0
  <2>1. StartOf(c, 1) = g[1 - 1]
    BY <1>1
  <2> QED
    BY <1>2, <2>1
<1>4. ASSUME NEW i \in 1 .. Len(c)
      PROVE  StartOf(c, i + 1) = StartOf(c, i) + c[i].len
  <2>1. g[i] = g[i - 1] + c[i].len
    <3>1. i \in 0 .. Len(c) /\ i # 0
      OBVIOUS
    <3>2. g[i] = IF i = 0 THEN 0 ELSE g[i - 1] + c[i].len
      BY ONLY <1>2, <3>1
    <3> QED
      BY <3>1, <3>2
  <2>2. StartOf(c, i + 1) = g[i + 1 - 1]
    BY <1>1
  <2> QED
    BY <1>1, <2>1, <2>2
<1> QED
  BY <1>3, <1>4

(* and what follows of chains whose descriptors all hold bytes. *)
IsChain(c) ==
  /\ Len(c) \in Nat /\ DOMAIN c = 1 .. Len(c)
  /\ \A i \in 1 .. Len(c) : c[i].len \in 1 .. MaxBytes

LEMMA StartsAscend ==
  ASSUME NEW c, IsChain(c)
  PROVE  /\ \A i \in 1 .. Len(c) + 1 : StartOf(c, i) \in Nat
         /\ \A i, j \in 1 .. Len(c) + 1 : i <= j => StartOf(c, i) <= StartOf(c, j)
<1> DEFINE T(n) == \A i \in 1 .. n + 1 :
                     StartOf(c, i) \in Nat /\ StartOf(c, i) <= StartOf(c, n + 1)
           S == {n \in Nat : n <= Len(c) => T(n)}
<1>1. Len(c) \in Nat /\ \A i \in 1 .. Len(c) : c[i].len \in Nat
  BY SgAssumption DEF IsChain
<1>2. 0 \in S
  BY <1>1, Starts
<1>3. ASSUME NEW n \in S
      PROVE  n + 1 \in S
  <2> SUFFICES ASSUME n + 1 <= Len(c)
               PROVE  T(n + 1)
    BY <1>1
  <2>1. T(n) /\ n \in Nat
    BY <1>1
  <2>2. StartOf(c, n + 1 + 1) = StartOf(c, n + 1) + c[n + 1].len /\ c[n + 1].len \in Nat
    BY <1>1, <2>1, Starts
  <2>3. ASSUME NEW i \in 1 .. n + 1 + 1
        PROVE  StartOf(c, i) \in Nat /\ StartOf(c, i) <= StartOf(c, n + 1 + 1)
    <3>1. StartOf(c, n + 1) \in Nat /\ StartOf(c, n + 1 + 1) \in Nat
      BY <2>1, <2>2
    <3>2. CASE i = n + 1 + 1
      BY <3>1, <3>2
    <3>3. CASE i \in 1 .. n + 1
      BY <2>1, <2>2, <3>1, <3>3
    <3> QED
      BY <2>1, <3>2, <3>3
  <2> QED
    BY <2>3
<1> HIDE DEF T
<1>4. S = Nat
  <2> HIDE DEF S
  <2>1. S \in SUBSET Nat
    BY DEF S
  <2> QED
    BY <1>2, <1>3, <2>1, Counted
<1>5. ASSUME NEW j \in 1 .. Len(c) + 1
      PROVE  StartOf(c, j) \in Nat /\ \A i \in 1 .. j : StartOf(c, i) <= StartOf(c, j)
  <2>1. j - 1 \in Nat /\ j - 1 <= Len(c) /\ j - 1 + 1 = j
    BY <1>1
  <2>2. T(j - 1)
    BY <1>4, <2>1
  <2> QED
    BY <2>1, <2>2 DEF T
<1> QED
  BY <1>1, <1>5

LEMMA BytesType ==
  ASSUME NEW c, IsChain(c)
  PROVE  Len(c) \in Nat /\ Bytes(c) \in Nat
<1>1. Len(c) \in Nat /\ Len(c) + 1 \in 1 .. Len(c) + 1
  BY DEF IsChain
<1> QED
  BY <1>1, StartsAscend DEF Bytes

(* Bytes that lie in descriptors of different chains are counted alike if the
   descriptors are of the same lengths. *)
LEMMA StartsSame ==
  ASSUME NEW c, NEW e, Len(c) \in Nat, Len(e) = Len(c),
         \A i \in 1 .. Len(c) : e[i].len = c[i].len
  PROVE  (\A i \in 1 .. Len(c) + 1 : StartOf(e, i) = StartOf(c, i)) /\ Bytes(e) = Bytes(c)
<1> DEFINE S == {n \in Nat : n <= Len(c) => StartOf(e, n + 1) = StartOf(c, n + 1)}
<1>1. 0 \in S
  BY Starts
<1>2. ASSUME NEW n \in S
      PROVE  n + 1 \in S
  <2> SUFFICES ASSUME n + 1 <= Len(c)
               PROVE  StartOf(e, n + 1 + 1) = StartOf(c, n + 1 + 1)
    OBVIOUS
  <2>1. n \in Nat /\ n <= Len(c) /\ n + 1 \in 1 .. Len(c)
    OBVIOUS
  <2>2. /\ StartOf(c, n + 1 + 1) = StartOf(c, n + 1) + c[n + 1].len
        /\ StartOf(e, n + 1 + 1) = StartOf(e, n + 1) + e[n + 1].len
    BY <2>1, Starts
  <2>3. StartOf(e, n + 1) = StartOf(c, n + 1)
    BY <2>1
  <2> QED
    BY <2>1, <2>2, <2>3
<1>3. S = Nat
  <2> HIDE DEF S
  <2>1. S \in SUBSET Nat
    BY DEF S
  <2> QED
    BY <1>1, <1>2, <2>1, Counted
<1>4. ASSUME NEW i \in 1 .. Len(c) + 1
      PROVE  StartOf(e, i) = StartOf(c, i)
  <2>1. i - 1 \in Nat /\ i - 1 <= Len(c) /\ i - 1 + 1 = i
    OBVIOUS
  <2> QED
    BY <1>3, <2>1
<1> QED
  BY <1>4 DEF Bytes

(* find, of an offset that the chain has *)
LEMMA Finds ==
  ASSUME NEW x, IsChain(x.chain), x.size \in Nat,
         NEW off \in Nat, off <= x.size, off < Bytes(x.chain)
  PROVE  LET i == find(x, off)[1]
             o == find(x, off)[2]
         IN  /\ i \in 1 .. Len(x.chain) /\ o \in 0 .. x.chain[i].len - 1
             /\ StartOf(x.chain, i) + o = off
<1> DEFINE c == x.chain
           I == {i \in DOMAIN c : StartOf(c, i + 1) > off}
<1>1. Len(c) \in Nat /\ DOMAIN c = 1 .. Len(c) /\ \A i \in 1 .. Len(c) : c[i].len \in Nat \ {0}
  BY SgAssumption DEF IsChain
<1>2. /\ StartOf(c, 1) = 0 /\ StartOf(c, Len(c) + 1) > off
      /\ \A i \in 1 .. Len(c) : StartOf(c, i + 1) = StartOf(c, i) + c[i].len
  BY Starts DEF IsChain, Bytes
<1>3. Len(c) >= 1
  BY <1>1, <1>2
<1>4. CASE off = 0
  <2>1. find(x, off)[1] = 1 /\ find(x, off)[2] = 0
    BY <1>4 DEF find
  <2> QED
    BY <1>1, <1>2, <1>3, <1>4, <2>1
<1>5. CASE off # 0
  <2>1. I # {} /\ I \in SUBSET Nat
    BY <1>1, <1>2, <1>3
  <2>2. Min(I) \in I /\ \A i \in I : Min(I) <= i
    BY <2>1, MinIsLeast
  <2>3. find(x, off)[1] = Min(I) /\ find(x, off)[2] = off - StartOf(c, Min(I))
    BY <1>5, <2>1 DEF find
  <2> DEFINE m == Min(I)
  <2>4. m \in 1 .. Len(c) /\ StartOf(c, m + 1) > off /\ \A i \in I : m <= i
    BY <1>1, <2>2
  <2> HIDE DEF m
  <2>5. StartOf(c, m) <= off
    <3>1. CASE m = 1
      BY <1>2, <3>1
    <3>2. CASE m # 1
      <4>1. m - 1 \in 1 .. Len(c) /\ m - 1 + 1 = m /\ m \in Nat
        BY <1>1, <2>4, <3>2
      <4>2. ~(StartOf(c, m) > off)
        <5> SUFFICES ASSUME StartOf(c, m) > off
                     PROVE  FALSE
          OBVIOUS
        <5>1. m - 1 \in I
          BY <1>1, <4>1
        <5> HIDE DEF I
        <5> QED
          BY <2>4, <4>1, <5>1
      <4>3. StartOf(c, m) \in Nat
        BY <1>1, <2>4, StartsAscend
      <4> QED
        BY <4>2, <4>3
    <3> QED
      BY <3>1, <3>2
  <2>6. StartOf(c, m) \in Nat /\ StartOf(c, m + 1) = StartOf(c, m) + c[m].len /\ c[m].len \in Nat
    <3>1. m \in 1 .. Len(c) + 1
      BY <1>1, <2>4
    <3>2. StartOf(c, m) \in Nat
      BY <1>1, <3>1, StartsAscend
    <3>3. StartOf(c, m + 1) = StartOf(c, m) + c[m].len /\ c[m].len \in Nat
      BY <1>1, <1>2, <2>4
    <3> QED
      BY <3>2, <3>3
  <2> HIDE DEF c, I
  <2>7. /\ m \in 1 .. Len(c) /\ off - StartOf(c, m) \in 0 .. c[m].len - 1
        /\ StartOf(c, m) + (off - StartOf(c, m)) = off
    BY <2>4, <2>5, <2>6
  <2> QED
    BY <2>3, <2>7 DEF c, m
<1> QED
  BY <1>4, <1>5

-----------------------------------------------------------------------------
(* The loops of the copies.  A copy of sz bytes from offset s to offset d, as far
   as a loop has come with it: what it counts is what has moved, in order. *)

Fields == {"rem", "d", "dOff", "s", "sOff", "n", "moved", "err"}
Ends4 == {"NONE", "BADR", "BADR written", "AGAIN"}

Reached(c, sz, d, s) ==
  /\ DOMAIN c = Fields /\ c.n \in 0 .. sz /\ c.rem = sz - c.n
  /\ c.err \in {"NONE", "PERM", "BADR", "AGAIN"}
  /\ Pairs(d, s, c.n) \subseteq c.moved /\ c.moved \subseteq Pairs(d, s, sz)
  /\ c.err \in {"NONE", "PERM"} => c.moved = Pairs(d, s, c.n)

(* Offset off is byte o of descriptor i. *)
IsAt(c, i, o, off) ==
  i \in 1 .. Len(c) /\ o \in 0 .. c[i].len - 1 /\ StartOf(c, i) + o = off

LEMMA AtTypes ==
  ASSUME NEW c, IsChain(c), NEW i, NEW o, NEW off, IsAt(c, i, o, off)
  PROVE  /\ i \in Nat \ {0} /\ i <= Len(c) /\ Len(c) \in Nat /\ Bytes(c) \in Nat
         /\ o \in Nat /\ c[i].len \in Nat /\ o < c[i].len
<1>1. Len(c) \in Nat /\ i \in 1 .. Len(c) /\ c[i].len \in 1 .. MaxBytes /\ MaxBytes \in Nat
  BY SgAssumption DEF IsChain, IsAt
<1>2. o \in 0 .. c[i].len - 1
  BY DEF IsAt
<1>3. Bytes(c) \in Nat
  BY <1>1, StartsAscend DEF Bytes
<1> QED
  BY <1>1, <1>2, <1>3

LEMMA PairsJoin ==
  ASSUME NEW a \in Nat, NEW b \in Nat, NEW m \in Nat, NEW n \in Nat
  PROVE  \A p : p \in Pairs(a, b, m + n) <=>
                  p \in Pairs(a, b, m) \/ p \in Pairs(a + m, b + m, n)
<1>1. ASSUME NEW i \in 0 .. m + n - 1
      PROVE  <<a + i, b + i>> \in Pairs(a, b, m) \cup Pairs(a + m, b + m, n)
  <2>1. CASE i < m
    BY <2>1 DEF Pairs
  <2>2. CASE i >= m
    <3>1. i - m \in 0 .. n - 1 /\ a + i = a + m + (i - m) /\ b + i = b + m + (i - m)
      BY <2>2
    <3> QED
      BY <3>1 DEF Pairs
  <2> QED
    BY <2>1, <2>2
<1>2. ASSUME NEW i \in 0 .. n - 1
      PROVE  <<a + m + i, b + m + i>> \in Pairs(a, b, m + n)
  <2>1. m + i \in 0 .. m + n - 1 /\ a + m + i = a + (m + i) /\ b + m + i = b + (m + i)
    OBVIOUS
  <2> QED
    BY <2>1 DEF Pairs
<1>3. \A i \in 0 .. m - 1 : <<a + i, b + i>> \in Pairs(a, b, m + n)
  BY DEF Pairs
<1>4. Pairs(a, b, m + n) \subseteq Pairs(a, b, m) \cup Pairs(a + m, b + m, n)
  <2> SUFFICES ASSUME NEW p \in Pairs(a, b, m + n)
               PROVE  p \in Pairs(a, b, m) \cup Pairs(a + m, b + m, n)
    OBVIOUS
  <2>1. PICK i \in 0 .. m + n - 1 : p = <<a + i, b + i>>
    BY DEF Pairs
  <2> QED
    BY <1>1, <2>1, Zenon
<1>5. Pairs(a, b, m) \subseteq Pairs(a, b, m + n)
  BY <1>3, Zenon DEF Pairs
<1>6. Pairs(a + m, b + m, n) \subseteq Pairs(a, b, m + n)
  BY <1>2, Zenon DEF Pairs
<1> QED
  BY <1>4, <1>5, <1>6

LEMMA PairsGrow ==
  ASSUME NEW a \in Nat, NEW b \in Nat, NEW n \in Nat, NEW m \in 0 .. n
  PROVE  Pairs(a, b, m) \subseteq Pairs(a, b, n)
<1>1. PICK k \in Nat : n = m + k
  <2>1. n - m \in Nat /\ n = m + (n - m)
    OBVIOUS
  <2> QED
    BY <2>1
<1>2. m \in Nat
  OBVIOUS
<1>3. \A p : p \in Pairs(a, b, m) => p \in Pairs(a, b, m + k)
  BY <1>2, PairsJoin
<1> QED
  BY <1>1, <1>3

LEMMA ChunkFields ==
  ASSUME NEW c, DOMAIN c = Fields, NEW n, NEW pairs, NEW ending \in Ends4
  PROVE  LET t == Chunk(c, n, pairs, ending)
         IN  /\ DOMAIN t = Fields /\ t.d = c.d /\ t.dOff = c.dOff /\ t.s = c.s /\ t.sOff = c.sOff
             /\ ending = "NONE" => /\ t.err = "NONE" /\ t.n = c.n + n /\ t.rem = c.rem - n
                                   /\ t.moved = c.moved \cup pairs
             /\ ending # "NONE" => /\ t.err \in {"BADR", "AGAIN"} /\ t.n = c.n /\ t.rem = c.rem
                                   /\ t.moved \in {c.moved, c.moved \cup pairs}
BY DEF Chunk, Fields, Ends4

(* A chunk of n bytes that goes on where the copy is. *)
LEMMA ChunkReaches ==
  ASSUME NEW sz \in Nat, NEW d \in Nat, NEW s \in Nat,
         NEW c, Reached(c, sz, d, s), c.err = "NONE",
         NEW n \in 0 .. c.rem, NEW ending \in Ends4
  PROVE  LET t == Chunk(c, n, Pairs(d + c.n, s + c.n, n), ending)
         IN  Reached(t, sz, d, s) /\ (ending = "NONE" => t.err = "NONE")
<1> DEFINE pairs == Pairs(d + c.n, s + c.n, n)
           t == Chunk(c, n, pairs, ending)
<1>1. c.n \in Nat /\ n \in Nat /\ c.n + n \in 0 .. sz /\ c.rem = sz - c.n /\ c.rem \in Nat
      /\ DOMAIN c = Fields /\ c.moved = Pairs(d, s, c.n)
  BY DEF Reached
<1>2. c.moved \cup pairs = Pairs(d, s, c.n + n)
  <2>1. \A p : p \in Pairs(d, s, c.n + n) <=> p \in Pairs(d, s, c.n) \/ p \in pairs
    BY <1>1, PairsJoin
  <2> HIDE DEF pairs
  <2> QED
    BY <1>1, <2>1
<1>3. /\ Pairs(d, s, c.n) \subseteq Pairs(d, s, c.n + n)
      /\ Pairs(d, s, c.n + n) \subseteq Pairs(d, s, sz)
  BY <1>1, PairsGrow
<1> HIDE DEF pairs
<1>4. /\ DOMAIN t = Fields
      /\ ending = "NONE" => /\ t.err = "NONE" /\ t.n = c.n + n /\ t.rem = c.rem - n
                            /\ t.moved = c.moved \cup pairs
      /\ ending # "NONE" => /\ t.err \in {"BADR", "AGAIN"} /\ t.n = c.n /\ t.rem = c.rem
                            /\ t.moved \in {c.moved, c.moved \cup pairs}
  BY <1>1, ChunkFields
<1> HIDE DEF t
<1>5. ASSUME ending = "NONE"
      PROVE  Reached(t, sz, d, s) /\ t.err = "NONE"
  <2>1. t.n = c.n + n /\ t.rem = c.rem - n /\ t.moved = c.moved \cup pairs /\ t.err = "NONE"
    BY <1>4, <1>5
  <2>3. t.n \in 0 .. sz /\ t.rem = sz - t.n
    BY <1>1, <2>1
  <2>4. t.moved = Pairs(d, s, t.n)
    BY <1>2, <2>1
  <2>2. Pairs(d, s, t.n) \subseteq Pairs(d, s, sz)
    BY <1>3, <2>1
  <2> QED
    BY <1>4, <2>1, <2>2, <2>3, <2>4, Zenon DEF Reached
<1>6. ASSUME ending # "NONE"
      PROVE  Reached(t, sz, d, s)
  <2>1. t.n = c.n /\ t.rem = sz - t.n /\ t.err \in {"BADR", "AGAIN"}
    BY <1>1, <1>4, <1>6
  <2>4. t.n \in 0 .. sz /\ t.err \in {"NONE", "PERM", "BADR", "AGAIN"} /\ t.err \notin {"NONE", "PERM"}
    BY <1>1, <2>1
  <2>2. t.moved = Pairs(d, s, c.n) \/ t.moved = Pairs(d, s, c.n + n)
    BY <1>1, <1>2, <1>4, <1>6
  <2>3. Pairs(d, s, t.n) \subseteq t.moved /\ t.moved \subseteq Pairs(d, s, sz)
    BY <1>3, <2>1, <2>2
  <2> QED
    BY <1>1, <1>4, <2>1, <2>3, <2>4, Zenon DEF Reached
<1> QED
  BY <1>5, <1>6 DEF t, pairs

(* Where a copy goes on: at offset off of the chain, or behind all of it. *)
Goes(c, i, o, off) == IsAt(c, i, o, off) \/ (i = Len(c) + 1 /\ off >= Bytes(c))

(* What follows byte o of descriptor i after n bytes that this descriptor has. *)
LEMMA Advances ==
  ASSUME NEW c, IsChain(c), NEW i, NEW o, NEW off \in Nat, IsAt(c, i, o, off),
         NEW n \in Nat \ {0}, n <= c[i].len - o
  PROVE  Goes(c, IF o + n = c[i].len THEN i + 1 ELSE i,
                 IF o + n = c[i].len THEN 0 ELSE o + n, off + n)
<1>1. /\ i \in 1 .. Len(c) /\ Len(c) \in Nat /\ c[i].len \in Nat \ {0} /\ o \in Nat /\ o < c[i].len
      /\ StartOf(c, i) + o = off /\ StartOf(c, i) \in Nat
  BY StartsAscend, SgAssumption DEF IsAt, IsChain
<1>2. StartOf(c, i + 1) = StartOf(c, i) + c[i].len
  BY <1>1, Starts
<1>3. CASE o + n = c[i].len
  <2>1. StartOf(c, i + 1) = off + n
    BY <1>1, <1>2, <1>3
  <2>2. CASE i # Len(c)
    <3>1. i + 1 \in 1 .. Len(c)
      BY <1>1, <2>2
    <3>2. c[i + 1].len \in Nat \ {0}
      BY <3>1, SgAssumption DEF IsChain
    <3> QED
      BY <1>3, <2>1, <3>1, <3>2 DEF IsAt, Goes
  <2>3. CASE i = Len(c)
    <3>1. off + n = Bytes(c) /\ off + n \in Nat
      BY <2>1, <2>3 DEF Bytes
    <3> QED
      BY <1>3, <2>3, <3>1 DEF Goes
  <2> QED
    BY <2>2, <2>3
<1>4. CASE o + n # c[i].len
  <2>1. o + n \in 0 .. c[i].len - 1 /\ StartOf(c, i) + (o + n) = off + n
    BY <1>1, <1>4
  <2> QED
    BY <1>1, <1>4, <2>1 DEF IsAt, Goes
<1> QED
  BY <1>3, <1>4

(* The loop of try_end_copy_to_sg_impl after k turns: each of them ends a
   descriptor of one of the chains, or the copy. *)
SgReached(c, k, dst, src, sz, d, s) ==
  /\ Reached(c, sz, d, s)
  /\ c.rem > 0 /\ c.err = "NONE" =>
       /\ Goes(dst.chain, c.d, c.dOff, d + c.n) /\ Goes(src.chain, c.s, c.sOff, s + c.n)
       /\ c.d + c.s >= k + 2 \/ c.d = End(dst) \/ c.s = End(src)

SgStep(dst, src, c, ending) ==
  IF c.rem = 0 \/ c.err # "NONE" \/ c.d = End(dst) \/ c.s = End(src) THEN c
  ELSE SgTurn(dst, src, c, ending)

LEMMA LesserOf ==
  ASSUME NEW a \in Nat \ {0}, NEW b \in Nat \ {0}
  PROVE  /\ Lesser(a, b) \in Nat \ {0} /\ Lesser(a, b) <= a /\ Lesser(a, b) <= b
         /\ Lesser(a, b) = a \/ Lesser(a, b) = b
BY DEF Lesser

LEMMA SomeEnds ==
  ASSUME NEW i \in Nat, NEW j \in Nat, NEW p \in BOOLEAN, NEW q \in BOOLEAN, p \/ q, NEW k \in Nat,
         i + j >= k + 2
  PROVE  (IF p THEN i + 1 ELSE i) + (IF q THEN j + 1 ELSE j) >= k + 1 + 2
OBVIOUS

LEMMA SgTurns ==
  ASSUME NEW dst, IsChain(dst.chain), NEW src, IsChain(src.chain),
         NEW sz \in Nat, NEW d \in Nat, NEW s \in Nat,
         NEW k \in Nat, NEW c, SgReached(c, k, dst, src, sz, d, s), NEW ending \in Ends4
  PROVE  LET t == SgStep(dst, src, c, ending)
         IN  /\ SgReached(t, k + 1, dst, src, sz, d, s)
             /\ ending = "NONE" /\ c.err \in {"NONE", "PERM"} => t.err \in {"NONE", "PERM"}
<1>1. /\ Reached(c, sz, d, s) /\ c.n \in Nat /\ c.rem \in Nat /\ c.n + c.rem = sz
      /\ DOMAIN c = Fields
  BY DEF SgReached, Reached
<1>2. CASE c.rem = 0 \/ c.err # "NONE"
  BY <1>1, <1>2 DEF SgStep, SgReached
<1>4. CASE c.d = End(dst) \/ c.s = End(src)
  BY <1>1, <1>4 DEF SgStep, SgReached
<1>3. CASE c.rem > 0 /\ c.err = "NONE" /\ c.d # End(dst) /\ c.s # End(src)
  <2> DEFINE dl == dst.chain[c.d].len
             sl == src.chain[c.s].len
             n == Lesser(c.rem, Lesser(sl - c.sOff, dl - c.dOff))
             pairs == Pairs(StartOf(dst.chain, c.d) + c.dOff, StartOf(src.chain, c.s) + c.sOff, n)
             next == Chunk(c, n, pairs, ending)
  <2>1. /\ IsAt(dst.chain, c.d, c.dOff, d + c.n) /\ IsAt(src.chain, c.s, c.sOff, s + c.n)
        /\ c.d + c.s >= k + 2
    BY <1>3 DEF SgReached, Goes, End
  <2>2. /\ c.d \in Nat /\ c.d <= Len(dst.chain) /\ c.dOff \in Nat /\ dl \in Nat /\ c.dOff < dl
        /\ c.s \in Nat /\ c.s <= Len(src.chain) /\ c.sOff \in Nat /\ sl \in Nat /\ c.sOff < sl
        /\ Len(dst.chain) \in Nat /\ Len(src.chain) \in Nat
    BY <2>1, AtTypes
  <2> HIDE DEF dl, sl
  <2>4. SgStep(dst, src, c, ending) = SgTurn(dst, src, c, ending)
    BY <1>3 DEF SgStep
  <2>5. /\ n \in Nat \ {0} /\ n <= c.rem /\ n <= dl - c.dOff /\ n <= sl - c.sOff
        /\ n = c.rem \/ c.dOff + n = dl \/ c.sOff + n = sl
    <3> DEFINE a == sl - c.sOff
               b == dl - c.dOff
               m == Lesser(a, b)
    <3>1. c.rem \in Nat \ {0} /\ a \in Nat \ {0} /\ b \in Nat \ {0}
      <4>1. c.rem \in Nat \ {0}
        BY <1>1, <1>3
      <4>2. c.sOff \in Nat /\ sl \in Nat /\ c.sOff < sl /\ c.dOff \in Nat /\ dl \in Nat /\ c.dOff < dl
        BY <2>2
      <4>3. a \in Nat \ {0} /\ b \in Nat \ {0}
        BY <4>2
      <4> QED
        BY <4>1, <4>3
    <3>2. n = Lesser(c.rem, m)
      OBVIOUS
    <3> HIDE DEF a, b, n
    <3>3. m \in Nat \ {0} /\ m <= a /\ m <= b /\ (m = a \/ m = b)
      BY <3>1, LesserOf
    <3> HIDE DEF m
    <3>4. n \in Nat \ {0} /\ n <= c.rem /\ n <= m /\ (n = c.rem \/ n = m)
      BY <3>1, <3>2, <3>3, LesserOf
    <3>5. n <= a /\ n <= b /\ (n = c.rem \/ n = a \/ n = b)
      BY <3>1, <3>3, <3>4
    <3> QED
      BY <2>2, <3>4, <3>5 DEF a, b
  <2>6. pairs = Pairs(d + c.n, s + c.n, n)
    BY <2>1 DEF IsAt
  <2> HIDE DEF n, pairs
  <2>7. Reached(next, sz, d, s) /\ (ending = "NONE" => next.err = "NONE")
    BY <1>1, <1>3, <2>5, <2>6, ChunkReaches
  <2>8. /\ DOMAIN next = Fields /\ next.d = c.d /\ next.dOff = c.dOff
        /\ next.s = c.s /\ next.sOff = c.sOff
        /\ ending = "NONE" => next.n = c.n + n /\ next.rem = c.rem - n
    BY <1>1, ChunkFields
  <2>9. ending # "NONE" => next.err # "NONE"
    BY <1>1, ChunkFields
  <2> HIDE DEF next
  <2>10. CASE should_only_read(dst, c.d)
    <3>1. SgTurn(dst, src, c, ending) = [c EXCEPT !.err = "PERM"]
      BY <2>10 DEF SgTurn
    <3> DEFINE t == [c EXCEPT !.err = "PERM"]
    <3>2. t.err = "PERM" /\ DOMAIN t = Fields /\ t.n = c.n /\ t.rem = c.rem /\ t.moved = c.moved
      BY <1>1 DEF Fields
    <3> HIDE DEF t
    <3>3. Reached(t, sz, d, s)
      BY <1>1, <1>3, <3>2 DEF Reached
    <3>4. SgReached(t, k + 1, dst, src, sz, d, s)
      BY <3>2, <3>3 DEF SgReached
    <3> QED
      BY <2>4, <3>1, <3>2, <3>4 DEF t
  <2>11. CASE ~should_only_read(dst, c.d) /\ next.err # "NONE"
    <3>1. SgTurn(dst, src, c, ending) = next
      BY <2>11 DEF SgTurn, next, n, pairs, dl, sl
    <3>2. SgReached(next, k + 1, dst, src, sz, d, s)
      BY <2>7, <2>11 DEF SgReached
    <3> QED
      BY <2>4, <2>7, <2>11, <3>1, <3>2
  <2>12. CASE ~should_only_read(dst, c.d) /\ next.err = "NONE"
    <3> DEFINE t == SgTurn(dst, src, c, ending)
    <3>1. t = [next EXCEPT !.d = IF c.dOff + n = dl THEN @ + 1 ELSE @,
                           !.dOff = IF c.dOff + n = dl THEN 0 ELSE @ + n,
                           !.s = IF c.sOff + n = sl THEN @ + 1 ELSE @,
                           !.sOff = IF c.sOff + n = sl THEN 0 ELSE @ + n]
      BY <2>12 DEF SgTurn, next, n, pairs, dl, sl
    <3>2. ending = "NONE" /\ next.n = c.n + n /\ next.rem = c.rem - n
      BY <2>8, <2>9, <2>12
    <3>3. /\ DOMAIN t = Fields /\ t.err = "NONE" /\ t.n = next.n /\ t.rem = next.rem
          /\ t.moved = next.moved
          /\ t.d = IF c.dOff + n = dl THEN c.d + 1 ELSE c.d
          /\ t.dOff = IF c.dOff + n = dl THEN 0 ELSE c.dOff + n
          /\ t.s = IF c.sOff + n = sl THEN c.s + 1 ELSE c.s
          /\ t.sOff = IF c.sOff + n = sl THEN 0 ELSE c.sOff + n
      BY <2>8, <2>12, <3>1 DEF Fields
    <3> HIDE DEF t
    <3>4. Reached(t, sz, d, s)
      BY <2>7, <3>3, <2>12 DEF Reached
    <3>5. ASSUME t.rem > 0
          PROVE  /\ Goes(dst.chain, t.d, t.dOff, d + t.n) /\ Goes(src.chain, t.s, t.sOff, s + t.n)
                 /\ t.d + t.s >= k + 1 + 2
      <4>1. /\ d + c.n \in Nat /\ s + c.n \in Nat
            /\ d + t.n = d + c.n + n /\ s + t.n = s + c.n + n
        BY <1>1, <2>5, <3>2, <3>3, <3>5
      <4>2. Goes(dst.chain, t.d, t.dOff, d + c.n + n)
        BY <2>1, <2>5, <3>3, <4>1, Advances DEF dl, sl
      <4>3. Goes(src.chain, t.s, t.sOff, s + c.n + n)
        BY <2>1, <2>5, <3>3, <4>1, Advances DEF dl, sl
      <4>4. n # c.rem
        BY <1>1, <2>5, <3>2, <3>3, <3>5
      <4>5. c.dOff + n = dl \/ c.sOff + n = sl
        BY <2>5, <4>4
      <4>6. t.d + t.s >= k + 1 + 2
        BY <2>1, <2>2, <3>3, <4>5, SomeEnds
      <4> QED
        BY <4>1, <4>2, <4>3, <4>6
    <3> QED
      BY <2>4, <3>2, <3>3, <3>4, <3>5 DEF SgReached, t
  <2> QED
    BY <2>10, <2>11, <2>12
<1> QED
  BY <1>1, <1>2, <1>3, <1>4

SgStart(dst, src, sz, dOff, sOff) == At(sz, find(dst, dOff), find(src, sOff))

SgLoop(dst, src, c, at, ending, n) ==
  CHOOSE g : g = [k \in 0 .. n |->
                    IF k = 0 THEN c
                    ELSE SgStep(dst, src, g[k - 1], IF k = at THEN ending ELSE "NONE")]

LEMMA SgLoops ==
  ASSUME NEW dst, NEW src, NEW c, NEW at, NEW ending, NEW n \in Nat
  PROVE  \A k \in 0 .. n :
           SgLoop(dst, src, c, at, ending, n)[k] =
             IF k = 0 THEN c
             ELSE SgStep(dst, src, SgLoop(dst, src, c, at, ending, n)[k - 1],
                         IF k = at THEN ending ELSE "NONE")
<1> DEFINE Step(k, e) == SgStep(dst, src, e, IF k = at THEN ending ELSE "NONE")
           S == {m \in Nat :
                   \E g : g = [k \in 0 .. m |-> IF k = 0 THEN c ELSE Step(k, g[k - 1])]}
<1> HIDE DEF Step
<1>1. 0 \in S
  <2> DEFINE g == [k \in 0 .. 0 |-> c]
  <2>1. g = [k \in 0 .. 0 |-> IF k = 0 THEN c ELSE Step(k, g[k - 1])]
    OBVIOUS
  <2> HIDE DEF g
  <2> QED
    BY <2>1
<1>2. ASSUME NEW m \in S
      PROVE  m + 1 \in S
  <2>1. PICK g : g = [k \in 0 .. m |-> IF k = 0 THEN c ELSE Step(k, g[k - 1])]
    OBVIOUS
  <2> DEFINE h == [k \in 0 .. m + 1 |-> IF k = m + 1 THEN Step(k, g[m]) ELSE g[k]]
  <2>2. \A k \in 0 .. m : g[k] = IF k = 0 THEN c ELSE Step(k, g[k - 1])
    BY <2>1
  <2>3. \A k \in 0 .. m + 1 : h[k] = IF k = 0 THEN c ELSE Step(k, h[k - 1])
    BY <2>2
  <2>4. h = [k \in 0 .. m + 1 |-> h[k]]
    OBVIOUS
  <2> HIDE DEF h
  <2>5. h = [k \in 0 .. m + 1 |-> IF k = 0 THEN c ELSE Step(k, h[k - 1])]
    BY <2>3, <2>4
  <2> QED
    BY <2>5
<1> HIDE DEF S
<1>3. S = Nat
  <2>1. S \in SUBSET Nat
    BY DEF S
  <2> QED
    BY <1>1, <1>2, <2>1, Counted
<1> DEFINE l == SgLoop(dst, src, c, at, ending, n)
<1>4. \E g : g = [k \in 0 .. n |-> IF k = 0 THEN c ELSE Step(k, g[k - 1])]
  BY <1>3 DEF S
<1>5. l = [k \in 0 .. n |-> IF k = 0 THEN c ELSE Step(k, l[k - 1])]
  BY <1>4 DEF SgLoop, Step
<1> HIDE DEF l
<1>6. \A k \in 0 .. n : l[k] = IF k = 0 THEN c ELSE Step(k, l[k - 1])
  BY <1>5
<1> QED
  BY <1>6 DEF l, Step

LEMMA Begins ==
  ASSUME NEW x, IsChain(x.chain), x.size \in Nat,
         NEW sz \in Nat, NEW off \in Nat, off + sz <= x.size
  PROVE  Goes(x.chain, find(x, off)[1], find(x, off)[2], off)
<1>1. Bytes(x.chain) \in Nat /\ Len(x.chain) \in Nat
  BY BytesType
<1>2. off <= x.size
  OBVIOUS
<1>3. CASE off < Bytes(x.chain)
  BY <1>2, <1>3, Finds DEF IsAt, Goes
<1>4. CASE ~(off < Bytes(x.chain))
  <2>1. find(x, off)[1] = Len(x.chain) + 1
    <3>1. CASE off = 0
      <4>1. find(x, off)[1] = 1
        BY <3>1 DEF find
      <4>2. Len(x.chain) = 0
        <5> SUFFICES ASSUME Len(x.chain) >= 1
                     PROVE  FALSE
          BY <1>1
        <5> DEFINE c == x.chain
        <5>1. StartOf(c, 1 + 1) = 0 + c[1].len /\ 1 \in 1 .. Len(c)
          BY <1>1, Starts
        <5>2. 1 + 1 \in 1 .. Len(c) + 1 /\ Len(c) + 1 \in 1 .. Len(c) + 1 /\ 1 + 1 <= Len(c) + 1
          BY <1>1
        <5>3. StartOf(c, 1 + 1) <= Bytes(c)
          BY <5>2, StartsAscend DEF Bytes
        <5>4. c[1].len \in 1 .. MaxBytes /\ MaxBytes \in Nat
          BY <5>1, SgAssumption DEF IsChain
        <5> QED
          BY <1>1, <1>4, <3>1, <5>1, <5>3, <5>4
      <4> QED
        BY <4>1, <4>2
    <3>2. CASE off # 0
      <4>1. \A k \in DOMAIN x.chain : ~(StartOf(x.chain, k + 1) > off)
        <5> SUFFICES ASSUME NEW k \in 1 .. Len(x.chain)
                     PROVE  ~(StartOf(x.chain, k + 1) > off)
          BY DEF IsChain
        <5>1. k + 1 \in 1 .. Len(x.chain) + 1 /\ Len(x.chain) + 1 \in 1 .. Len(x.chain) + 1
              /\ k + 1 <= Len(x.chain) + 1
          BY <1>1
        <5>2. StartOf(x.chain, k + 1) <= Bytes(x.chain) /\ StartOf(x.chain, k + 1) \in Nat
          BY <5>1, StartsAscend DEF Bytes
        <5> QED
          BY <1>1, <1>4, <5>2
      <4>2. {k \in DOMAIN x.chain : StartOf(x.chain, k + 1) > off} = {}
        BY <4>1
      <4> QED
        BY <3>2, <4>2 DEF find, End
    <3> QED
      BY <3>1, <3>2
  <2> QED
    BY <1>1, <1>4, <2>1 DEF Goes
<1> QED
  BY <1>3, <1>4

(* try_end_copy_to_sg_impl moves what it says, and all of it if the bytes are
   there and nothing stops it. *)
LEMMA SgMoves ==
  ASSUME NEW dst, IsChain(dst.chain), dst.size \in Nat, NEW src, IsChain(src.chain), src.size \in Nat,
         NEW sz \in Nat, NEW d \in Nat, NEW s \in Nat, d + sz <= dst.size, s + sz <= src.size,
         NEW at, NEW ending \in Ends4
  PROVE  LET r == SgImpl(dst, src, sz, d, s, at, ending)
         IN  /\ Reached(r, sz, d, s)
             /\ at = 0 /\ d + sz <= Bytes(dst.chain) /\ s + sz <= Bytes(src.chain) =>
                  \/ r.n = sz /\ r.moved = Pairs(d, s, sz)
                  \/ r.err = "PERM"
<1> DEFINE N == Len(dst.chain) + Len(src.chain)
           c == SgStart(dst, src, sz, d, s)
           g == SgLoop(dst, src, c, at, ending, N)
<1>1. Len(dst.chain) \in Nat /\ Len(src.chain) \in Nat /\ N \in Nat
      /\ Bytes(dst.chain) \in Nat /\ Bytes(src.chain) \in Nat
  <2>1. /\ Len(dst.chain) \in Nat /\ Len(src.chain) \in Nat
        /\ Bytes(dst.chain) \in Nat /\ Bytes(src.chain) \in Nat
    BY BytesType
  <2>2. \A a, b \in Nat : a + b \in Nat
    OBVIOUS
  <2>3. N \in Nat
    BY <2>1, <2>2, Zenon
  <2> QED
    BY <2>1, <2>3
<1>2. SgImpl(dst, src, sz, d, s, at, ending) = g[N]
  BY DEF SgImpl, SgStep, SgStart, SgLoop
<1>3. \A k \in 0 .. N : g[k] = IF k = 0 THEN c ELSE
             SgStep(dst, src, g[k - 1], IF k = at THEN ending ELSE "NONE")
  <2>1. N \in Nat
    BY <1>1
  <2> HIDE DEF c, N
  <2> QED
    BY <2>1, SgLoops
<1> HIDE DEF g
<1>4. SgReached(c, 0, dst, src, sz, d, s) /\ c.err = "NONE"
  <2>1. /\ DOMAIN c = Fields /\ c.rem = sz /\ c.n = 0 /\ c.moved = {} /\ c.err = "NONE"
        /\ c.d = find(dst, d)[1] /\ c.dOff = find(dst, d)[2]
        /\ c.s = find(src, s)[1] /\ c.sOff = find(src, s)[2]
    BY DEF SgStart, At, Fields
  <2> HIDE DEF c
  <2>2. Pairs(d, s, 0) = {}
    BY DEF Pairs
  <2>3. Reached(c, sz, d, s)
    BY <2>1, <2>2 DEF Reached
  <2>4. /\ Goes(dst.chain, c.d, c.dOff, d + 0) /\ Goes(src.chain, c.s, c.sOff, s + 0)
        /\ c.d + c.s >= 0 + 2
    <3>1. Goes(dst.chain, c.d, c.dOff, d) /\ Goes(src.chain, c.s, c.sOff, s)
      BY <2>1, Begins
    <3>2. c.d \in Nat \ {0} /\ c.s \in Nat \ {0}
      <4>1. \A e, i, o, off : IsChain(e) /\ Goes(e, i, o, off) => i \in Nat \ {0}
        BY AtTypes, BytesType DEF Goes
      <4> QED
        BY <3>1, <4>1
    <3> QED
      BY <3>1, <3>2
  <2> QED
    BY <2>1, <2>3, <2>4 DEF SgReached
<1> HIDE DEF c
<1> DEFINE P(k) == /\ SgReached(g[k], k, dst, src, sz, d, s)
                   /\ at = 0 => g[k].err \in {"NONE", "PERM"}
           S == {k \in Nat : k <= N => P(k)}
<1> HIDE DEF N
<1>5. 0 \in S
  BY <1>1, <1>3, <1>4
<1>6. ASSUME NEW k \in S
      PROVE  k + 1 \in S
  <2> SUFFICES ASSUME k + 1 <= N
               PROVE  P(k + 1)
    OBVIOUS
  <2>1. k \in Nat /\ P(k) /\ k + 1 \in 0 .. N /\ k + 1 # 0 /\ k + 1 - 1 = k
    BY <1>1
  <2> DEFINE how == IF k + 1 = at THEN ending ELSE "NONE"
  <2>2. g[k + 1] = SgStep(dst, src, g[k], how)
    <3>1. g[k + 1] = SgStep(dst, src, g[k + 1 - 1], how)
      BY <1>3, <2>1
    <3> QED
      BY <2>1, <3>1
  <2>3. how \in Ends4 /\ (at = 0 => how = "NONE")
    BY <2>1 DEF Ends4
  <2> HIDE DEF how
  <2>5. /\ SgReached(g[k + 1], k + 1, dst, src, sz, d, s)
        /\ how = "NONE" /\ g[k].err \in {"NONE", "PERM"} => g[k + 1].err \in {"NONE", "PERM"}
    <3> DEFINE u == g[k]
    <3>1. SgReached(u, k, dst, src, sz, d, s) /\ k \in Nat /\ g[k + 1] = SgStep(dst, src, u, how)
      BY <2>1, <2>2
    <3> HIDE DEF u, P, S
    <3>2. /\ SgReached(SgStep(dst, src, u, how), k + 1, dst, src, sz, d, s)
          /\ how = "NONE" /\ u.err \in {"NONE", "PERM"} => SgStep(dst, src, u, how).err \in {"NONE", "PERM"}
      BY <2>3, <3>1, SgTurns
    <3> QED
      BY <3>1, <3>2 DEF u
  <2> QED
    BY <2>1, <2>3, <2>5
<1>7. S = Nat
  <2>1. S \in SUBSET Nat
    OBVIOUS
  <2> HIDE DEF S
  <2> QED
    BY <1>5, <1>6, <2>1, Counted
<1>8. P(N)
  <2> HIDE DEF P
  <2>1. N \in S /\ N <= N
    BY <1>1, <1>7
  <2> QED
    BY <2>1
<1> DEFINE r == g[N]
<1>9. Reached(r, sz, d, s)
  BY <1>8 DEF SgReached
<1>10. ASSUME d + sz <= Bytes(dst.chain), s + sz <= Bytes(src.chain)
       PROVE  r.rem = 0 \/ r.err # "NONE"
  <2> SUFFICES ASSUME r.rem # 0, r.err = "NONE"
               PROVE  FALSE
    OBVIOUS
  <2>1. r.rem > 0 /\ r.rem = sz - r.n /\ r.n \in 0 .. sz
    <3>1. r.rem = sz - r.n /\ r.n \in 0 .. sz
      BY <1>9 DEF Reached
    <3> QED
      BY <3>1
  <2>2. /\ Goes(dst.chain, r.d, r.dOff, d + r.n) /\ Goes(src.chain, r.s, r.sOff, s + r.n)
        /\ r.d + r.s >= N + 2 \/ r.d = End(dst) \/ r.s = End(src)
    BY <1>8, <2>1 DEF SgReached
  <2>5. ~(d + r.n >= Bytes(dst.chain)) /\ ~(s + r.n >= Bytes(src.chain))
    <3> HIDE DEF r
    <3> QED
      BY <1>1, <1>10, <2>1
  <2>6. IsAt(dst.chain, r.d, r.dOff, d + r.n) /\ IsAt(src.chain, r.s, r.sOff, s + r.n)
    BY <2>2, <2>5 DEF Goes
  <2>3. r.d \in Nat /\ r.d <= Len(dst.chain) /\ r.s \in Nat /\ r.s <= Len(src.chain)
    BY <2>6, AtTypes
  <2>4. \A a, b, m, n \in Nat : a <= m /\ b <= n => ~(a + b >= m + n + 2)
    OBVIOUS
  <2> HIDE DEF r
  <2>7. ~(r.d + r.s >= Len(dst.chain) + Len(src.chain) + 2)
    BY <1>1, <2>3, <2>4
  <2>8. r.d # End(dst) /\ r.s # End(src)
    BY <1>1, <2>3 DEF End
  <2> QED
    BY <2>2, <2>7, <2>8 DEF N
<1>11. ASSUME at = 0, d + sz <= Bytes(dst.chain), s + sz <= Bytes(src.chain)
       PROVE  (r.n = sz /\ r.moved = Pairs(d, s, sz)) \/ r.err = "PERM"
  <2>1. r.err \in {"NONE", "PERM"}
    BY <1>8, <1>11
  <2>2. CASE r.err = "NONE"
    <3>1. r.rem = 0 /\ r.rem = sz - r.n /\ r.n \in 0 .. sz /\ r.moved = Pairs(d, s, r.n)
      BY <1>9, <1>10, <1>11, <2>2 DEF Reached
    <3> HIDE DEF r
    <3>2. r.n = sz
      BY <3>1
    <3> QED
      BY <3>1, <3>2
  <2> QED
    BY <2>1, <2>2
<1> HIDE DEF P, S
<1> QED
  BY <1>2, <1>9, <1>11

(* The loop of copy_fromto_linear_impl: each turn ends a descriptor, or the copy. *)
LinearReached(c, k, x, toSg, sz, off, l) ==
  /\ IF toSg THEN Reached(c, sz, off, l) ELSE Reached(c, sz, l, off)
  /\ c.rem > 0 /\ c.err = "NONE" =>
       Goes(x.chain, c.d, c.dOff, off + c.n) /\ (c.d >= k + 1 \/ c.d = End(x))

LinearStep(x, toSg, c, l, ending) ==
  IF c.rem = 0 \/ c.err # "NONE" \/ c.d = End(x) THEN c
  ELSE LinearTurn(x, toSg, c, l, ending)

LEMMA LinearTurns ==
  ASSUME NEW x, IsChain(x.chain), NEW toSg \in BOOLEAN,
         NEW sz \in Nat, NEW off \in Nat, NEW l \in Nat,
         NEW k \in Nat, NEW c, LinearReached(c, k, x, toSg, sz, off, l), NEW ending \in Ends4
  PROVE  LET t == LinearStep(x, toSg, c, l, ending)
         IN  /\ LinearReached(t, k + 1, x, toSg, sz, off, l)
             /\ ending = "NONE" /\ c.err \in {"NONE", "PERM"} => t.err \in {"NONE", "PERM"}
<1> DEFINE Moved(e) == IF toSg THEN Reached(e, sz, off, l) ELSE Reached(e, sz, l, off)
<1>1. /\ Moved(c) /\ c.n \in Nat /\ c.rem \in Nat /\ c.n + c.rem = sz /\ DOMAIN c = Fields
  BY DEF LinearReached, Reached
<1>2. CASE c.rem = 0 \/ c.err # "NONE"
  <2>1. LinearStep(x, toSg, c, l, ending) = c
    BY <1>2 DEF LinearStep
  <2>2. ~(c.rem > 0 /\ c.err = "NONE")
    BY <1>1, <1>2
  <2> QED
    BY <1>1, <2>1, <2>2 DEF LinearReached
<1>4. CASE c.d = End(x)
  <2>1. LinearStep(x, toSg, c, l, ending) = c
    BY <1>4 DEF LinearStep
  <2> QED
    BY <1>1, <1>4, <2>1 DEF LinearReached
<1>3. CASE c.rem > 0 /\ c.err = "NONE" /\ c.d # End(x)
  <2> DEFINE len == x.chain[c.d].len
             n == Lesser(len - c.dOff, c.rem)
             start == StartOf(x.chain, c.d) + c.dOff
             pairs == IF toSg THEN Pairs(start, l + c.n, n) ELSE Pairs(l + c.n, start, n)
             next == Chunk(c, n, pairs, ending)
  <2>1. IsAt(x.chain, c.d, c.dOff, off + c.n) /\ c.d >= k + 1
    BY <1>3 DEF LinearReached, Goes, End
  <2>2. /\ c.d \in Nat /\ c.d <= Len(x.chain) /\ Len(x.chain) \in Nat /\ Bytes(x.chain) \in Nat
        /\ c.dOff \in Nat /\ len \in Nat /\ c.dOff < len
    BY <2>1, AtTypes
  <2>3. start = off + c.n
    BY <2>1 DEF IsAt
  <2> HIDE DEF len, start
  <2>4. LinearStep(x, toSg, c, l, ending) = LinearTurn(x, toSg, c, l, ending)
    BY <1>3 DEF LinearStep
  <2>5. n \in Nat \ {0} /\ n <= c.rem /\ n <= len - c.dOff /\ (n = c.rem \/ c.dOff + n = len)
    <3> DEFINE a == len - c.dOff
    <3>1. c.rem \in Nat \ {0}
      BY <1>1, <1>3
    <3>2. a \in Nat \ {0}
      BY <2>2
    <3> HIDE DEF a
    <3>3. /\ Lesser(a, c.rem) \in Nat \ {0} /\ Lesser(a, c.rem) <= a /\ Lesser(a, c.rem) <= c.rem
          /\ Lesser(a, c.rem) = a \/ Lesser(a, c.rem) = c.rem
      BY <3>1, <3>2, LesserOf
    <3> QED
      BY <2>2, <3>3 DEF a
  <2>6. pairs = IF toSg THEN Pairs(off + c.n, l + c.n, n) ELSE Pairs(l + c.n, off + c.n, n)
    BY <2>3
  <2> HIDE DEF n, pairs
  <2>7. Moved(next) /\ (ending = "NONE" => next.err = "NONE")
    <3>1. CASE toSg
      <4>1. Reached(c, sz, off, l) /\ pairs = Pairs(off + c.n, l + c.n, n)
        BY <1>1, <2>6, <3>1
      <4>2. n \in 0 .. c.rem
        BY <1>1, <2>5
      <4>3. Reached(next, sz, off, l) /\ (ending = "NONE" => next.err = "NONE")
        BY <1>3, <4>1, <4>2, ChunkReaches
      <4> QED
        BY <3>1, <4>3
    <3>2. CASE ~toSg
      <4>1. Reached(c, sz, l, off) /\ pairs = Pairs(l + c.n, off + c.n, n)
        BY <1>1, <2>6, <3>2
      <4>2. n \in 0 .. c.rem
        BY <1>1, <2>5
      <4>3. Reached(next, sz, l, off) /\ (ending = "NONE" => next.err = "NONE")
        BY <1>3, <4>1, <4>2, ChunkReaches
      <4> QED
        BY <3>2, <4>3
    <3> QED
      BY <3>1, <3>2
  <2>8. /\ DOMAIN next = Fields /\ next.d = c.d
        /\ ending = "NONE" => next.n = c.n + n /\ next.rem = c.rem - n
        /\ ending # "NONE" => next.err # "NONE"
    BY <1>1, ChunkFields
  <2>9. LinearTurn(x, toSg, c, l, ending) =
          IF toSg /\ should_only_read(x, c.d) THEN [c EXCEPT !.err = "PERM"]
          ELSE IF next.err # "NONE" THEN next
          ELSE [next EXCEPT !.d = @ + 1, !.dOff = 0]
    BY DEF LinearTurn, next, pairs, n, start, len
  <2> HIDE DEF next
  <2>10. CASE toSg /\ should_only_read(x, c.d)
    <3> DEFINE t == [c EXCEPT !.err = "PERM"]
    <3>1. LinearStep(x, toSg, c, l, ending) = t
      BY <2>4, <2>9, <2>10
    <3>2. t.err = "PERM" /\ DOMAIN t = Fields /\ t.n = c.n /\ t.rem = c.rem /\ t.moved = c.moved
      BY <1>1 DEF Fields
    <3> HIDE DEF t
    <3>3. Moved(t)
      BY <1>1, <1>3, <3>2 DEF Reached
    <3>4. LinearReached(t, k + 1, x, toSg, sz, off, l)
      BY <3>2, <3>3 DEF LinearReached
    <3> QED
      BY <3>1, <3>2, <3>4
  <2>11. CASE ~(toSg /\ should_only_read(x, c.d)) /\ next.err # "NONE"
    <3>1. LinearStep(x, toSg, c, l, ending) = next
      BY <2>4, <2>9, <2>11
    <3>2. LinearReached(next, k + 1, x, toSg, sz, off, l)
      BY <2>7, <2>11 DEF LinearReached
    <3> QED
      BY <2>7, <2>11, <3>1, <3>2
  <2>12. CASE ~(toSg /\ should_only_read(x, c.d)) /\ next.err = "NONE"
    <3> DEFINE t == [next EXCEPT !.d = @ + 1, !.dOff = 0]
    <3>1. LinearStep(x, toSg, c, l, ending) = t
      BY <2>4, <2>9, <2>12
    <3>2. ending = "NONE" /\ next.n = c.n + n /\ next.rem = c.rem - n
      BY <2>8, <2>12
    <3>3. /\ DOMAIN t = Fields /\ t.err = "NONE" /\ t.n = next.n /\ t.rem = next.rem
          /\ t.moved = next.moved /\ t.d = c.d + 1 /\ t.dOff = 0
      BY <2>8, <2>12 DEF Fields
    <3> HIDE DEF t
    <3>4. Moved(t)
      BY <2>7, <3>3, <2>12 DEF Reached
    <3>5. ASSUME t.rem > 0
          PROVE  Goes(x.chain, t.d, t.dOff, off + t.n) /\ t.d >= k + 1 + 1
      <4>1. /\ off + c.n \in Nat /\ off + t.n = off + c.n + n
        BY <1>1, <2>5, <3>2, <3>3, <3>5
      <4>2. c.dOff + n = len
        BY <1>1, <2>5, <3>2, <3>3, <3>5
      <4>3. Goes(x.chain, t.d, t.dOff, off + c.n + n)
        BY <2>1, <2>5, <3>3, <4>1, <4>2, Advances DEF len
      <4>4. t.d >= k + 1 + 1
        BY <2>1, <2>2, <3>3
      <4> QED
        BY <4>1, <4>3, <4>4
    <3>6. LinearReached(t, k + 1, x, toSg, sz, off, l)
      BY <3>4, <3>5 DEF LinearReached
    <3> QED
      BY <3>1, <3>3, <3>6
  <2> QED
    BY <2>10, <2>11, <2>12
<1> QED
  BY <1>1, <1>2, <1>3, <1>4

LinearLoop(x, toSg, c, l, at, ending, n) ==
  CHOOSE g : g = [k \in 0 .. n |->
                    IF k = 0 THEN c
                    ELSE LinearStep(x, toSg, g[k - 1], l, IF k = at THEN ending ELSE "NONE")]

LEMMA LinearLoops ==
  ASSUME NEW x, NEW toSg, NEW c, NEW l, NEW at, NEW ending, NEW n \in Nat
  PROVE  \A k \in 0 .. n :
           LinearLoop(x, toSg, c, l, at, ending, n)[k] =
             IF k = 0 THEN c
             ELSE LinearStep(x, toSg, LinearLoop(x, toSg, c, l, at, ending, n)[k - 1], l,
                             IF k = at THEN ending ELSE "NONE")
<1> DEFINE Step(k, e) == LinearStep(x, toSg, e, l, IF k = at THEN ending ELSE "NONE")
           S == {m \in Nat :
                   \E g : g = [k \in 0 .. m |-> IF k = 0 THEN c ELSE Step(k, g[k - 1])]}
<1> HIDE DEF Step
<1>1. 0 \in S
  <2> DEFINE g == [k \in 0 .. 0 |-> c]
  <2>1. g = [k \in 0 .. 0 |-> IF k = 0 THEN c ELSE Step(k, g[k - 1])]
    OBVIOUS
  <2> HIDE DEF g
  <2> QED
    BY <2>1
<1>2. ASSUME NEW m \in S
      PROVE  m + 1 \in S
  <2>1. PICK g : g = [k \in 0 .. m |-> IF k = 0 THEN c ELSE Step(k, g[k - 1])]
    OBVIOUS
  <2> DEFINE h == [k \in 0 .. m + 1 |-> IF k = m + 1 THEN Step(k, g[m]) ELSE g[k]]
  <2>2. \A k \in 0 .. m : g[k] = IF k = 0 THEN c ELSE Step(k, g[k - 1])
    BY <2>1
  <2>3. \A k \in 0 .. m + 1 : h[k] = IF k = 0 THEN c ELSE Step(k, h[k - 1])
    BY <2>2
  <2>4. h = [k \in 0 .. m + 1 |-> h[k]]
    OBVIOUS
  <2> HIDE DEF h
  <2>5. h = [k \in 0 .. m + 1 |-> IF k = 0 THEN c ELSE Step(k, h[k - 1])]
    BY <2>3, <2>4
  <2> QED
    BY <2>5
<1> HIDE DEF S
<1>3. S = Nat
  <2>1. S \in SUBSET Nat
    BY DEF S
  <2> QED
    BY <1>1, <1>2, <2>1, Counted
<1> DEFINE f == LinearLoop(x, toSg, c, l, at, ending, n)
<1>4. \E g : g = [k \in 0 .. n |-> IF k = 0 THEN c ELSE Step(k, g[k - 1])]
  BY <1>3 DEF S
<1>5. f = [k \in 0 .. n |-> IF k = 0 THEN c ELSE Step(k, f[k - 1])]
  BY <1>4 DEF LinearLoop, Step
<1> HIDE DEF f
<1>6. \A k \in 0 .. n : f[k] = IF k = 0 THEN c ELSE Step(k, f[k - 1])
  BY <1>5
<1> QED
  BY <1>6 DEF f, Step

LinearStart(x, sz, off) == At(sz, find(x, off), <<0, 0>>)

(* copy_fromto_linear_impl moves what it says, and all of it if the bytes are
   there and nothing stops it. *)
LEMMA LinearMoves ==
  ASSUME NEW x, IsChain(x.chain), x.size \in Nat, NEW toSg \in BOOLEAN,
         NEW sz \in Nat, NEW off \in Nat, NEW l \in Nat, off + sz <= x.size,
         NEW at, NEW ending \in Ends4,
         NEW d, NEW s, IF toSg THEN d = off /\ s = l ELSE d = l /\ s = off
  PROVE  LET r == LinearImpl(x, toSg, sz, off, l, at, ending)
         IN  /\ Reached(r, sz, d, s)
             /\ at = 0 /\ off + sz <= Bytes(x.chain) =>
                  \/ r.n = sz /\ r.moved = Pairs(d, s, sz)
                  \/ r.err = "PERM"
<1> DEFINE N == Len(x.chain)
           c == LinearStart(x, sz, off)
           g == LinearLoop(x, toSg, c, l, at, ending, N)
<1>1. N \in Nat /\ Bytes(x.chain) \in Nat
  BY BytesType
<1>2. LinearImpl(x, toSg, sz, off, l, at, ending) = g[N]
  BY DEF LinearImpl, LinearStep, LinearStart, LinearLoop
<1>3. \A k \in 0 .. N : g[k] = IF k = 0 THEN c ELSE
             LinearStep(x, toSg, g[k - 1], l, IF k = at THEN ending ELSE "NONE")
  <2> HIDE DEF c, N
  <2> QED
    BY <1>1, LinearLoops
<1> HIDE DEF g
<1>4. LinearReached(c, 0, x, toSg, sz, off, l) /\ c.err = "NONE"
  <2>1. /\ DOMAIN c = Fields /\ c.rem = sz /\ c.n = 0 /\ c.moved = {} /\ c.err = "NONE"
        /\ c.d = find(x, off)[1] /\ c.dOff = find(x, off)[2]
    BY DEF LinearStart, At, Fields
  <2> HIDE DEF c
  <2>2. Pairs(off, l, 0) = {} /\ Pairs(l, off, 0) = {}
    BY DEF Pairs
  <2>3. Reached(c, sz, off, l) /\ Reached(c, sz, l, off)
    BY <2>1, <2>2 DEF Reached
  <2>4. Goes(x.chain, c.d, c.dOff, off + 0) /\ c.d >= 0 + 1
    <3>1. Goes(x.chain, c.d, c.dOff, off)
      BY <2>1, Begins
    <3>2. c.d \in Nat \ {0}
      <4>1. \A e, i, o, p : IsChain(e) /\ Goes(e, i, o, p) => i \in Nat \ {0}
        BY AtTypes, BytesType DEF Goes
      <4> QED
        BY <3>1, <4>1
    <3> QED
      BY <3>1, <3>2
  <2> QED
    BY <2>1, <2>3, <2>4 DEF LinearReached
<1> HIDE DEF c
<1> DEFINE P(k) == /\ LinearReached(g[k], k, x, toSg, sz, off, l)
                   /\ at = 0 => g[k].err \in {"NONE", "PERM"}
           S == {k \in Nat : k <= N => P(k)}
<1> HIDE DEF N
<1>5. 0 \in S
  BY <1>1, <1>3, <1>4
<1>6. ASSUME NEW k \in S
      PROVE  k + 1 \in S
  <2> SUFFICES ASSUME k + 1 <= N
               PROVE  P(k + 1)
    OBVIOUS
  <2>1. k \in Nat /\ P(k) /\ k + 1 \in 0 .. N /\ k + 1 # 0 /\ k + 1 - 1 = k
    BY <1>1
  <2> DEFINE how == IF k + 1 = at THEN ending ELSE "NONE"
  <2>2. g[k + 1] = LinearStep(x, toSg, g[k], l, how)
    <3>1. g[k + 1] = LinearStep(x, toSg, g[k + 1 - 1], l, how)
      BY <1>3, <2>1
    <3> QED
      BY <2>1, <3>1
  <2>3. how \in Ends4 /\ (at = 0 => how = "NONE")
    BY <2>1 DEF Ends4
  <2> HIDE DEF how
  <2>5. /\ LinearReached(g[k + 1], k + 1, x, toSg, sz, off, l)
        /\ how = "NONE" /\ g[k].err \in {"NONE", "PERM"} => g[k + 1].err \in {"NONE", "PERM"}
    BY <2>1, <2>2, <2>3, LinearTurns
  <2> QED
    BY <2>1, <2>3, <2>5
<1>7. S = Nat
  <2>1. S \in SUBSET Nat
    OBVIOUS
  <2> HIDE DEF S
  <2> QED
    BY <1>5, <1>6, <2>1, Counted
<1>8. P(N)
  <2> HIDE DEF P
  <2>1. N \in S /\ N <= N
    BY <1>1, <1>7
  <2> QED
    BY <2>1
<1> DEFINE r == g[N]
<1>9. Reached(r, sz, d, s)
  BY <1>8 DEF LinearReached
<1>10. ASSUME off + sz <= Bytes(x.chain)
       PROVE  r.rem = 0 \/ r.err # "NONE"
  <2> SUFFICES ASSUME r.rem # 0, r.err = "NONE"
               PROVE  FALSE
    OBVIOUS
  <2>1. r.rem > 0 /\ r.rem = sz - r.n /\ r.n \in 0 .. sz
    <3>1. r.rem = sz - r.n /\ r.n \in 0 .. sz
      BY <1>9 DEF Reached
    <3> QED
      BY <3>1
  <2>2. Goes(x.chain, r.d, r.dOff, off + r.n) /\ (r.d >= N + 1 \/ r.d = End(x))
    BY <1>8, <2>1 DEF LinearReached
  <2>4. ~(off + r.n >= Bytes(x.chain))
    <3> HIDE DEF r
    <3> QED
      BY <1>1, <1>10, <2>1
  <2>5. IsAt(x.chain, r.d, r.dOff, off + r.n)
    BY <2>2, <2>4 DEF Goes
  <2>3. r.d \in Nat /\ r.d <= N
    BY <2>5, AtTypes DEF N
  <2>6. r.d # End(x)
    BY <1>1, <2>3 DEF End, N
  <2> HIDE DEF r
  <2> QED
    BY <1>1, <2>2, <2>3, <2>6
<1>11. ASSUME at = 0, off + sz <= Bytes(x.chain)
       PROVE  (r.n = sz /\ r.moved = Pairs(d, s, sz)) \/ r.err = "PERM"
  <2>1. r.err \in {"NONE", "PERM"}
    BY <1>8, <1>11
  <2>2. CASE r.err = "NONE"
    <3>1. r.rem = 0 /\ r.rem = sz - r.n /\ r.n \in 0 .. sz /\ r.moved = Pairs(d, s, r.n)
      BY <1>9, <1>10, <1>11, <2>2 DEF Reached
    <3> HIDE DEF r
    <3>2. r.n = sz
      BY <3>1
    <3> QED
      BY <3>1, <3>2
  <2> QED
    BY <2>1, <2>2
<1> HIDE DEF P, S
<1> QED
  BY <1>2, <1>9, <1>11

-----------------------------------------------------------------------------
(* The tracking of written bytes. *)

SgDesc == [len : 1 .. MaxBytes, w : BOOLEAN, prefix : 0 .. MaxBytes]

LEMMA SeqIsChain ==
  ASSUME NEW c \in Seq(SgDesc)
  PROVE  /\ IsChain(c) /\ Len(c) \in Nat /\ DOMAIN c = 1 .. Len(c)
         /\ \A i \in 1 .. Len(c) : c[i] \in SgDesc
<1>1. Len(c) \in Nat /\ DOMAIN c = 1 .. Len(c) /\ \A i \in 1 .. Len(c) : c[i] \in SgDesc
  OBVIOUS
<1>2. \A i \in 1 .. Len(c) : c[i].len \in 1 .. MaxBytes
  BY <1>1 DEF SgDesc
<1> QED
  BY <1>1, <1>2 DEF IsChain

(* The prefix of descriptor e, which starts at s, holds bytes that were written. *)
PrefixIn(s, e, bytes) ==
  e.prefix <= e.len /\ \A j \in 0 .. e.prefix - 1 : s + j \in bytes

Backed(x, i, bytes) == PrefixIn(StartOf(x.chain, i), x.chain[i], bytes)

(* Every prefix does, or it is saturated, and that of the first writable descriptor
   is not before a copy has ended within it. *)
Covered(x, g) ==
  /\ \A i \in 1 .. Len(x.chain) : x.chain[i].prefix = MaxBytes \/ Backed(x, i, g.bytes)
  /\ x.seenW => Backed(x, x.firstW, g.bytes) \/ g.rewritten

(* The ghost of a buffer. *)
Ghost == [bytes : SUBSET Nat, rewritten : BOOLEAN]

(* A copy of n bytes at off ends within the prefix of a descriptor that starts at s. *)
EndsWithin(s, prefix, off, n) == n > 0 /\ off + n \in s + 1 .. s + prefix - 1

(* The prefix of one descriptor never shrinks. *)
LEMMA TracksOne ==
  ASSUME NEW e \in SgDesc, NEW o \in Nat, NEW m \in Nat, o + m <= e.len
  PROVE  LET t == Tracked(e, o, m)
         IN  /\ t \in SgDesc /\ t.len = e.len /\ t.w = e.w /\ t.prefix >= e.prefix
             /\ \/ t.prefix = e.prefix
                \/ o <= e.prefix /\ t.prefix = o + m
                \/ o + m < e.prefix /\ t.prefix = MaxBytes
<1>1. e.len \in 1 .. MaxBytes /\ e.prefix \in 0 .. MaxBytes /\ e.w \in BOOLEAN /\ MaxBytes \in Nat
  BY SgAssumption DEF SgDesc
<1>2. CASE o > e.prefix
  BY <1>1, <1>2 DEF Tracked
<1>3. CASE o <= e.prefix /\ o + m < e.prefix
  <2> DEFINE t == [e EXCEPT !.prefix = MaxBytes]
  <2>1. Tracked(e, o, m) = t
    BY <1>1, <1>3 DEF Tracked
  <2>2. t \in SgDesc /\ t.len = e.len /\ t.w = e.w /\ t.prefix = MaxBytes
    BY <1>1 DEF SgDesc
  <2> QED
    BY <1>1, <1>3, <2>1, <2>2
<1>4. CASE o <= e.prefix /\ ~(o + m < e.prefix)
  <2> DEFINE t == [e EXCEPT !.prefix = o + m]
  <2>1. Tracked(e, o, m) = t
    BY <1>1, <1>4 DEF Tracked
  <2>2. t \in SgDesc /\ t.len = e.len /\ t.w = e.w /\ t.prefix = o + m
    BY <1>1 DEF SgDesc
  <2> QED
    BY <1>1, <1>4, <2>1, <2>2
<1> QED
  BY <1>1, <1>2, <1>3, <1>4

(* Descriptor e, which starts at s, has become t: it is as it was, or it has
   tracked a part of the bytes from off to off + n, up to its end or to theirs. *)
Part(t, e, s, off, n) ==
  \/ t = e
  \/ \E o, m \in Nat : /\ t = Tracked(e, o, m) /\ o + m <= e.len
                       /\ off <= s + o /\ s + o + m <= off + n
                       /\ o + m = e.len \/ (m > 0 /\ s + o + m = off + n)

LEMMA PartOf ==
  ASSUME NEW e, NEW s \in Nat, NEW off \in Nat, NEW n \in Nat, NEW o \in Nat, NEW r \in Nat,
         e.len \in Nat, o <= e.len, off <= s + o, s + o + r = off + n, r > 0
  PROVE  Part(Tracked(e, o, Lesser(e.len - o, r)), e, s, off, n)
<1> DEFINE m == Lesser(e.len - o, r)
<1>1. m \in Nat /\ m <= e.len - o /\ m <= r /\ (m = e.len - o \/ m = r)
  BY DEF Lesser
<1> HIDE DEF m
<1>2. /\ o + m <= e.len /\ s + o + m <= off + n
      /\ o + m = e.len \/ (m > 0 /\ s + o + m = off + n)
  BY <1>1
<1>3. Tracked(e, o, m) = Tracked(e, o, m) /\ o \in Nat /\ m \in Nat
  BY <1>1
<1>4. Part(Tracked(e, o, m), e, s, off, n)
  BY <1>2, <1>3 DEF Part
<1> QED
  BY <1>4 DEF m

LEMMA TracksEach ==
  ASSUME NEW x, x.chain \in Seq(SgDesc), x.size \in Nat, x.size <= Bytes(x.chain),
         NEW off \in Nat, NEW n \in Nat, off + n <= x.size,
         NEW i \in 1 .. Len(x.chain), DOMAIN x = DOMAIN Empty
  PROVE  Part(TrackedChain(x, off, n).chain[i], x.chain[i], StartOf(x.chain, i), off, n)
<1> DEFINE c == x.chain
           at == find(x, off)
           From_(k) == IF k = at[1] THEN at[2] ELSE 0
           Remain(k) == IF k = at[1] THEN n ELSE n - (StartOf(c, k) - off)
           s == StartOf(c, i)
           e == c[i]
           t == TrackedChain(x, off, n).chain[i]
<1>1. IsChain(c) /\ Len(c) \in Nat /\ DOMAIN c = 1 .. Len(c) /\ e \in SgDesc /\ Bytes(c) \in Nat
  BY SeqIsChain, BytesType
<1>2. e.len \in Nat \ {0} /\ s \in Nat
  BY <1>1, SgAssumption, StartsAscend DEF SgDesc
<1>3. t = IF i < at[1] \/ Remain(i) <= 0 THEN e
          ELSE Tracked(e, From_(i), Lesser(e.len - From_(i), Remain(i)))
  BY <1>1 DEF TrackedChain, Empty
<1> HIDE DEF t, s, e
<1>4. CASE off < Bytes(c)
  <2>1. IsAt(c, at[1], at[2], off)
    <3>1. off <= x.size
      OBVIOUS
    <3> QED
      BY <1>1, <1>4, <3>1, Finds DEF IsAt
  <2>2. /\ at[1] \in 1 .. Len(c) /\ at[2] \in Nat /\ at[2] < c[at[1]].len
        /\ StartOf(c, at[1]) + at[2] = off
    BY <1>1, <2>1, AtTypes DEF IsAt
  <2> HIDE DEF at
  <2>3. CASE i < at[1]
    <3>1. t = e
      BY <1>3, <2>3
    <3> QED
      BY <3>1 DEF Part, t, e, s, c
  <2>4. CASE i = at[1]
    <3>1. t = IF n <= 0 THEN e ELSE Tracked(e, at[2], Lesser(e.len - at[2], n))
      BY <1>3, <2>2, <2>4
    <3>2. CASE n > 0
      <4>1. at[2] <= e.len /\ off <= s + at[2] /\ s + at[2] + n = off + n
        <5>1. at[2] < e.len /\ s + at[2] = off
          BY <2>2, <2>4 DEF e, s
        <5> QED
          BY <1>2, <2>2, <5>1
      <4>2. Part(Tracked(e, at[2], Lesser(e.len - at[2], n)), e, s, off, n)
        BY <1>2, <2>2, <3>2, <4>1, PartOf
      <4> QED
        BY <3>1, <3>2, <4>2 DEF t, e, s, c
    <3>3. CASE ~(n > 0)
      <4>1. t = e
        BY <3>1, <3>3
      <4> QED
        BY <4>1 DEF Part, t, e, s, c
    <3> QED
      BY <3>2, <3>3
  <2>5. CASE i > at[1]
    <3>1. s > off
      <4>1. StartOf(c, at[1] + 1) = StartOf(c, at[1]) + c[at[1]].len
        BY <1>1, <2>2, Starts
      <4>2. StartOf(c, at[1] + 1) <= s /\ StartOf(c, at[1] + 1) \in Nat /\ StartOf(c, at[1]) \in Nat
        <5>1. at[1] + 1 \in 1 .. Len(c) + 1 /\ i \in 1 .. Len(c) + 1 /\ at[1] + 1 <= i
              /\ at[1] \in 1 .. Len(c) + 1
          BY <1>1, <2>2, <2>5
        <5> QED
          BY <1>1, <5>1, StartsAscend DEF s
      <4>3. c[at[1]].len \in Nat
        BY <1>1, <2>1, AtTypes
      <4> DEFINE p == StartOf(c, at[1])
                 q == StartOf(c, at[1] + 1)
                 l == c[at[1]].len
                 o == at[2]
      <4>4. o < l /\ p + o = off /\ q = p + l /\ q <= s /\ q \in Nat /\ p \in Nat /\ l \in Nat /\ o \in Nat
        BY <2>2, <4>1, <4>2, <4>3
      <4> HIDE DEF p, q, l, o
      <4> QED
        BY <1>2, <4>4
    <3> DEFINE r == n - (s - off)
    <3>2. t = IF r <= 0 THEN e ELSE Tracked(e, 0, Lesser(e.len - 0, r))
      <4>1. ~(i < at[1]) /\ i # at[1]
        BY <1>1, <2>2, <2>5
      <4> QED
        BY <1>3, <4>1 DEF s, c
    <3>3. r \in Int /\ s + 0 + r = off + n /\ off <= s + 0
      BY <1>2, <3>1
    <3> HIDE DEF r
    <3>4. CASE r > 0
      <4>1. r \in Nat /\ 0 \in Nat /\ 0 <= e.len
        BY <1>2, <3>3, <3>4
      <4>2. Part(Tracked(e, 0, Lesser(e.len - 0, r)), e, s, off, n)
        BY <1>2, <3>3, <3>4, <4>1, PartOf
      <4> QED
        BY <3>2, <3>3, <3>4, <4>2 DEF t, e, s, c
    <3>5. CASE ~(r > 0)
      <4>1. t = e
        BY <3>2, <3>3, <3>5
      <4> QED
        BY <4>1 DEF Part, t, e, s, c
    <3> QED
      BY <3>4, <3>5
  <2> QED
    BY <1>1, <2>2, <2>3, <2>4, <2>5
<1>5. CASE ~(off < Bytes(c))
  <2>1. off = Bytes(c) /\ n = 0
    BY <1>1, <1>5
  <2>2. off # 0
    <3>1. StartOf(c, i + 1) = s + e.len
      BY <1>1, Starts DEF s, e
    <3>2. i + 1 \in 1 .. Len(c) + 1 /\ Len(c) + 1 \in 1 .. Len(c) + 1 /\ i + 1 <= Len(c) + 1
      BY <1>1
    <3>3. StartOf(c, i + 1) <= Bytes(c)
      BY <1>1, <3>2, StartsAscend DEF Bytes
    <3> DEFINE q == StartOf(c, i + 1)
               l == e.len
               b == Bytes(c)
    <3>4. q = s + l /\ q <= b /\ off = b /\ l \in Nat \ {0} /\ s \in Nat
      BY <1>2, <2>1, <3>1, <3>3
    <3> HIDE DEF q, l, b
    <3> QED
      BY <3>4
  <2>3. at[1] = Len(c) + 1
    <3>1. \A k \in 1 .. Len(c) : ~(StartOf(c, k + 1) > off)
      <4> SUFFICES ASSUME NEW k \in 1 .. Len(c)
                   PROVE  ~(StartOf(c, k + 1) > off)
        OBVIOUS
      <4>1. k + 1 \in 1 .. Len(c) + 1 /\ Len(c) + 1 \in 1 .. Len(c) + 1 /\ k + 1 <= Len(c) + 1
        BY <1>1
      <4>2. StartOf(c, k + 1) <= Bytes(c) /\ StartOf(c, k + 1) \in Nat
        BY <1>1, <4>1, StartsAscend DEF Bytes
      <4> QED
        BY <1>1, <2>1, <4>2
    <3>2. {k \in DOMAIN c : StartOf(c, k + 1) > off} = {}
      BY <1>1, <3>1
    <3> QED
      BY <2>2, <3>2 DEF find, End
  <2> HIDE DEF at
  <2>4. i < at[1]
    BY <1>1, <2>3
  <2>5. t = e
    BY <1>3, <2>4
  <2> QED
    BY <2>5 DEF Part, t, e, s, c
<1> QED
  BY <1>4, <1>5

(* Tracking changes the prefixes and nothing else, and none of them shrinks. *)
LEMMA TracksPrefixes ==
  ASSUME NEW x, x.chain \in Seq(SgDesc), x.size \in Nat, x.size <= Bytes(x.chain),
         NEW off \in Nat, NEW n \in Nat, off + n <= x.size, DOMAIN x = DOMAIN Empty
  PROVE  /\ TrackedChain(x, off, n) = [x EXCEPT !.chain = TrackedChain(x, off, n).chain]
         /\ TrackedChain(x, off, n).chain \in Seq(SgDesc)
         /\ Len(TrackedChain(x, off, n).chain) = Len(x.chain)
         /\ \A i \in 1 .. Len(x.chain) :
              /\ TrackedChain(x, off, n).chain[i].len = x.chain[i].len
              /\ TrackedChain(x, off, n).chain[i].prefix >= x.chain[i].prefix
<1> DEFINE c == x.chain
           y == TrackedChain(x, off, n)
<1>1. Len(c) \in Nat /\ DOMAIN c = 1 .. Len(c) /\ \A i \in 1 .. Len(c) : c[i] \in SgDesc
  BY SeqIsChain
<1>2. y = [x EXCEPT !.chain = y.chain] /\ DOMAIN y.chain = DOMAIN c
  BY DEF TrackedChain, Empty
<1>3. \E f : y.chain = [i \in DOMAIN c |-> f[i]]
  <2> DEFINE f == y.chain
  <2>1. y.chain = [i \in DOMAIN c |-> f[i]]
    BY DEF TrackedChain, Empty
  <2> QED
    BY <2>1
<1>4. ASSUME NEW i \in 1 .. Len(c)
      PROVE  /\ y.chain[i] \in SgDesc /\ y.chain[i].len = c[i].len
             /\ y.chain[i].prefix >= c[i].prefix
  <2> DEFINE e == c[i]
             t == y.chain[i]
             s == StartOf(c, i)
  <2>1. Part(t, e, s, off, n)
    BY TracksEach
  <2>2. e \in SgDesc
    BY <1>1
  <2> HIDE DEF t, e, s
  <2>3. t \in SgDesc /\ t.len = e.len /\ t.prefix >= e.prefix
    <3>1. CASE t = e
      BY <2>2, <3>1, SgAssumption DEF SgDesc
    <3>2. ASSUME NEW o \in Nat, NEW m \in Nat, t = Tracked(e, o, m), o + m <= e.len
          PROVE  t \in SgDesc /\ t.len = e.len /\ t.prefix >= e.prefix
      BY <2>2, <3>2, TracksOne
    <3> QED
      BY <2>1, <3>1, <3>2 DEF Part
  <2> QED
    BY <2>3 DEF t, e
<1> HIDE DEF y
<1>5. y.chain \in Seq(SgDesc) /\ Len(y.chain) = Len(c)
  <2>1. PICK f : y.chain = [i \in DOMAIN c |-> f[i]]
    BY <1>3
  <2>2. y.chain = [i \in 1 .. Len(c) |-> f[i]] /\ \A i \in 1 .. Len(c) : y.chain[i] = f[i]
    BY <1>1, <2>1
  <2>3. \A i \in 1 .. Len(c) : f[i] \in SgDesc
    BY <1>4, <2>2
  <2>4. y.chain \in [1 .. Len(c) -> SgDesc]
    BY <2>2, <2>3
  <2>5. y.chain \in Seq(SgDesc)
    BY <1>1, <2>4, SeqDef
  <2> QED
    BY <1>1, <2>2, <2>5, LenProperties
<1> QED
  BY <1>2, <1>4, <1>5 DEF y

(* A prefix that holds written bytes goes on to hold them, unless the copy has
   ended within it: then it is saturated. *)
LEMMA TracksBacked ==
  ASSUME NEW e \in SgDesc, NEW t \in SgDesc, NEW s \in Nat, NEW off \in Nat, NEW n \in Nat,
         Part(t, e, s, off, n), NEW old, NEW bytes,
         old \subseteq bytes, off .. off + n - 1 \subseteq bytes,
         PrefixIn(s, e, old)
  PROVE  \/ PrefixIn(s, t, bytes)
         \/ t.prefix = MaxBytes /\ EndsWithin(s, e.prefix, off, n)
<1>1. e.prefix \in Nat /\ e.len \in Nat /\ t.prefix \in Nat
  BY SgAssumption DEF SgDesc
<1>6. e.prefix <= e.len /\ \A j \in 0 .. e.prefix - 1 : s + j \in bytes
  BY DEF PrefixIn
<1>2. ASSUME t.prefix = e.prefix, t.len = e.len
      PROVE  PrefixIn(s, t, bytes)
  BY <1>2, <1>6 DEF PrefixIn
<1>3. ASSUME NEW o \in Nat, NEW m \in Nat, o <= e.prefix, t.prefix = o + m, o + m <= e.len,
             t.len = e.len, off <= s + o, s + o + m <= off + n
      PROVE  PrefixIn(s, t, bytes)
  <2>1. ASSUME NEW j \in 0 .. t.prefix - 1
        PROVE  s + j \in bytes
    <3>1. CASE j < e.prefix
      <4>1. j \in 0 .. e.prefix - 1
        BY <1>1, <2>1, <3>1
      <4> QED
        BY <1>6, <4>1
    <3>2. CASE ~(j < e.prefix)
      <4>1. s + j \in off .. off + n - 1
        <5> DEFINE p == e.prefix
                   q == t.prefix
        <5>1. /\ p \in Nat /\ q = o + m /\ o <= p /\ j \in 0 .. q - 1 /\ ~(j < p)
              /\ off <= s + o /\ s + o + m <= off + n
          BY <1>1, <1>3, <2>1, <3>2
        <5> HIDE DEF p, q
        <5> QED
          BY <5>1
      <4> QED
        BY <4>1
    <3> QED
      BY <3>1, <3>2
  <2>2. t.prefix <= t.len
    BY <1>3
  <2> QED
    BY <2>1, <2>2 DEF PrefixIn
<1>4. ASSUME NEW o \in Nat, NEW m \in Nat, t = Tracked(e, o, m), o + m <= e.len,
             off <= s + o, s + o + m <= off + n,
             o + m = e.len \/ (m > 0 /\ s + o + m = off + n)
      PROVE  \/ PrefixIn(s, t, bytes)
             \/ t.prefix = MaxBytes /\ EndsWithin(s, e.prefix, off, n)
  <2>1. /\ t.len = e.len
        /\ \/ t.prefix = e.prefix
           \/ o <= e.prefix /\ t.prefix = o + m
           \/ o + m < e.prefix /\ t.prefix = MaxBytes
    BY <1>4, TracksOne
  <2>2. CASE t.prefix = e.prefix
    BY <1>2, <2>1, <2>2
  <2>3. CASE o <= e.prefix /\ t.prefix = o + m
    BY <1>3, <1>4, <2>1, <2>3
  <2>4. CASE o + m < e.prefix /\ t.prefix = MaxBytes
    <3> DEFINE p == e.prefix
               l == e.len
    <3>1. p \in Nat /\ l \in Nat /\ p <= l /\ o + m < p /\ (o + m = l \/ (m > 0 /\ s + o + m = off + n))
      BY <1>1, <1>4, <1>6, <2>4
    <3> HIDE DEF p, l
    <3>2. m > 0 /\ s + o + m = off + n /\ o + m < p
      BY <3>1
    <3>3. n > 0 /\ off + n \in s + 1 .. s + p - 1
      BY <1>4, <3>1, <3>2
    <3> QED
      BY <2>4, <3>3 DEF EndsWithin, p
  <2> QED
    BY <2>1, <2>2, <2>3, <2>4
<1>5. CASE t = e
  BY <1>2, <1>5
<1> QED
  BY <1>4, <1>5 DEF Part

(* The chain that has tracked a copy, and the bytes that are written then. *)
LEMMA TracksWritten ==
  ASSUME NEW x, x.chain \in Seq(SgDesc), x.size \in Nat, x.size <= Bytes(x.chain),
         NEW off \in Nat, NEW n \in Nat, off + n <= x.size, DOMAIN x = DOMAIN Empty,
         NEW old \in Ghost, NEW new \in Ghost,
         old.bytes \subseteq new.bytes, off .. off + n - 1 \subseteq new.bytes,
         old.rewritten \/ Rewrites(x, off, n) => new.rewritten,
         x.seenW => x.firstW \in 1 .. Len(x.chain), Covered(x, old)
  PROVE  Covered(TrackedChain(x, off, n), new)
<1> DEFINE c == x.chain
           y == TrackedChain(x, off, n)
<1>1. IsChain(c) /\ Len(c) \in Nat /\ DOMAIN c = 1 .. Len(c) /\ \A i \in 1 .. Len(c) : c[i] \in SgDesc
  BY SeqIsChain
<1>2. /\ y.chain \in Seq(SgDesc) /\ Len(y.chain) = Len(c)
      /\ \A i \in 1 .. Len(c) : /\ y.chain[i].len = c[i].len /\ y.chain[i].prefix >= c[i].prefix
                                /\ Part(y.chain[i], c[i], StartOf(c, i), off, n)
  BY TracksPrefixes, TracksEach
<1>3. y.seenW = x.seenW /\ y.firstW = x.firstW
  BY DEF TrackedChain, Empty
<1> HIDE DEF y
<1>4. DOMAIN y.chain = 1 .. Len(c) /\ \A i \in 1 .. Len(c) : y.chain[i] \in SgDesc
  BY <1>2, SeqIsChain
<1>5. \A i \in 1 .. Len(c) : StartOf(y.chain, i) = StartOf(c, i) /\ StartOf(c, i) \in Nat
  <2>1. /\ \A i \in 1 .. Len(c) + 1 : StartOf(c, i) \in Nat
        /\ \A i \in 1 .. Len(c) : i \in 1 .. Len(c) + 1
    BY <1>1, StartsAscend
  <2>2. \A i \in 1 .. Len(c) + 1 : StartOf(y.chain, i) = StartOf(c, i)
    <3>1. \A i \in 1 .. Len(c) : y.chain[i].len = c[i].len
      BY <1>2
    <3> QED
      BY <1>1, <1>2, <3>1, StartsSame
  <2> QED
    BY <2>1, <2>2
<1>6. ASSUME NEW i \in 1 .. Len(c), Backed(x, i, old.bytes)
      PROVE  \/ Backed(y, i, new.bytes)
             \/ y.chain[i].prefix = MaxBytes /\ EndsWithin(StartOf(c, i), c[i].prefix, off, n)
  <2> DEFINE e == c[i]
             t == y.chain[i]
             s == StartOf(c, i)
  <2>1. Part(t, e, s, off, n) /\ s \in Nat /\ s = StartOf(y.chain, i) /\ e \in SgDesc /\ t \in SgDesc
    BY <1>1, <1>2, <1>4, <1>5
  <2> DEFINE ob == old.bytes
             nb == new.bytes
  <2>2. PrefixIn(s, e, ob) /\ ob \subseteq nb /\ off .. off + n - 1 \subseteq nb
    BY <1>6 DEF Backed
  <2> HIDE DEF e, t, s, ob, nb
  <2>3. PrefixIn(s, t, nb) \/ (t.prefix = MaxBytes /\ EndsWithin(s, e.prefix, off, n))
    BY <2>1, <2>2, TracksBacked
  <2> QED
    BY <2>1, <2>3 DEF Backed, t, e, s, nb
<1>7. ASSUME NEW i \in 1 .. Len(c)
      PROVE  y.chain[i].prefix = MaxBytes \/ Backed(y, i, new.bytes)
  <2>1. CASE Backed(x, i, old.bytes)
    BY <1>6, <2>1
  <2>2. CASE c[i].prefix = MaxBytes
    <3>1. y.chain[i].prefix >= MaxBytes /\ y.chain[i].prefix \in 0 .. MaxBytes
      BY <1>2, <1>4, <2>2 DEF SgDesc
    <3> QED
      BY <3>1, SgAssumption
  <2> QED
    BY <2>1, <2>2 DEF Covered
<1>8. ASSUME x.seenW, ~new.rewritten
      PROVE  Backed(y, x.firstW, new.bytes)
  <2>1. x.firstW \in 1 .. Len(c) /\ Backed(x, x.firstW, old.bytes) /\ ~Rewrites(x, off, n)
    BY <1>8 DEF Covered
  <2>2. ~EndsWithin(StartOf(c, x.firstW), c[x.firstW].prefix, off, n)
    BY <1>8, <2>1 DEF Rewrites, EndsWithin
  <2> QED
    BY <1>6, <2>1, <2>2
<1> QED
  BY <1>2, <1>3, <1>7, <1>8 DEF Covered, y

-----------------------------------------------------------------------------
(* The used length. *)

(* The first position of the bytes from first on that is not among them. *)
Missing(first, bound, bytes) ==
  CHOOSE k \in 0 .. bound : first .. first + k - 1 \subseteq bytes /\ first + k \notin bytes

LEMMA FirstMissing ==
  ASSUME NEW first \in Nat, NEW bound \in Nat, NEW bytes, bytes \subseteq 0 .. bound - 1,
         NEW n \in Nat, \A m \in first .. first + n - 1 : m \in bytes
  PROVE  n <= Missing(first, bound, bytes) /\ Missing(first, bound, bytes) \in Nat
<1> DEFINE P(k) == first .. first + k - 1 \subseteq bytes /\ first + k \notin bytes
           S == {k \in Nat : first + k \notin bytes}
           p == CHOOSE k \in 0 .. bound : P(k)
<1>1. bound \in S /\ S \in SUBSET Nat
  BY SMT
<1>2. PICK k \in S : \A j \in S : k <= j
  BY <1>1, Least
<1>3. k \in 0 .. bound /\ first + k \notin bytes
  BY <1>1, <1>2
<1>4. first .. first + k - 1 \subseteq bytes
  <2> SUFFICES ASSUME NEW m \in first .. first + k - 1, m \notin bytes
               PROVE  FALSE
    OBVIOUS
  <2>1. m - first \in Nat /\ first + (m - first) = m /\ m - first < k
    BY <1>3
  <2>2. m - first \in S
    BY <2>1
  <2> QED
    BY <1>2, <1>3, <2>1, <2>2
<1>5. P(k)
  BY <1>3, <1>4
<1> HIDE DEF P
<1>6. p \in 0 .. bound /\ P(p)
  BY <1>3, <1>5
<1> HIDE DEF p
<1>7. first + p \notin bytes /\ p \in Nat
  BY <1>6 DEF P
<1>8. n <= p
  <2> SUFFICES ASSUME p < n
               PROVE  FALSE
    BY <1>7
  <2>1. first + p \in first .. first + n - 1
    BY <1>7
  <2> QED
    BY <1>7, <2>1
<1> QED
  BY <1>7, <1>8 DEF Missing, p, P

LEMMA DescFields ==
  ASSUME NEW e \in SgDesc
  PROVE  e.len \in Nat /\ e.prefix \in Nat
BY SgAssumption DEF SgDesc

(* Descriptors that are full hold written bytes alone. *)
LEMMA FullPrefix ==
  ASSUME NEW x, x.chain \in Seq(SgDesc), NEW bytes,
         NEW f \in 1 .. Len(x.chain), NEW l \in 1 .. Len(x.chain), f <= l,
         \A i \in f .. l - 1 : x.chain[i].prefix = x.chain[i].len /\ Backed(x, i, bytes),
         NEW m \in Nat, StartOf(x.chain, f) <= m, m < StartOf(x.chain, l)
  PROVE  m \in bytes
<1> DEFINE c == x.chain
<1>1. IsChain(c) /\ Len(c) \in Nat /\ DOMAIN c = 1 .. Len(c) /\ \A i \in 1 .. Len(c) : c[i] \in SgDesc
  BY SeqIsChain
<1>2. \A i \in 1 .. Len(c) : c[i].len \in Nat /\ c[i].prefix \in Nat
  BY <1>1, DescFields
<1>3. StartOf(c, l) \in Nat /\ StartOf(c, f) \in Nat
  BY <1>1, StartsAscend
<1>5. m \in bytes
  <2>1. m < Bytes(c)
    <3>1. l \in 1 .. Len(c) + 1 /\ Len(c) + 1 \in 1 .. Len(c) + 1 /\ l <= Len(c) + 1
      BY <1>1
    <3>2. StartOf(c, l) <= Bytes(c) /\ Bytes(c) \in Nat
      BY <1>1, <3>1, StartsAscend, BytesType DEF Bytes
    <3> QED
      BY <1>3, <3>2
  <2> DEFINE y == [chain |-> c, size |-> Bytes(c)]
             i == find(y, m)[1]
             o == find(y, m)[2]
  <2>2. y.chain = c /\ y.size = Bytes(c) /\ Bytes(c) \in Nat
    BY <1>1, BytesType
  <2> HIDE DEF y
  <2>3. i \in 1 .. Len(c) /\ o \in 0 .. c[i].len - 1 /\ StartOf(c, i) + o = m
    <3>1. m <= y.size
      BY <2>1, <2>2
    <3> QED
      BY <1>1, <2>1, <2>2, <3>1, Finds
  <2> HIDE DEF i, o
  <2>4. StartOf(c, i) \in Nat /\ StartOf(c, i + 1) = StartOf(c, i) + c[i].len
    <3>1. i \in 1 .. Len(c) + 1
      BY <1>1, <2>3
    <3>2. StartOf(c, i) \in Nat
      BY <1>1, <3>1, StartsAscend
    <3> QED
      BY <1>1, <2>3, <3>2, Starts
  <2>5. i < l
    <3> SUFFICES ASSUME l <= i
                 PROVE  FALSE
      BY <2>3
    <3>1. i \in 1 .. Len(c) + 1 /\ l \in 1 .. Len(c) + 1
      BY <1>1, <2>3
    <3>2. StartOf(c, l) <= StartOf(c, i)
      BY <1>1, <3>1, StartsAscend
    <3> DEFINE p == StartOf(c, i)
               q == StartOf(c, l)
    <3>3. q <= p /\ p + o = m /\ m < q /\ o \in Nat /\ p \in Nat /\ q \in Nat
      BY <1>2, <1>3, <2>3, <2>4, <3>2
    <3> HIDE DEF p, q
    <3> QED
      BY <3>3
  <2>6. f <= i
    <3> SUFFICES ASSUME i < f
                 PROVE  FALSE
      BY <2>3
    <3>1. i + 1 \in 1 .. Len(c) + 1 /\ f \in 1 .. Len(c) + 1 /\ i + 1 <= f
      BY <1>1, <2>3
    <3>2. StartOf(c, i + 1) <= StartOf(c, f)
      BY <1>1, <3>1, StartsAscend
    <3> DEFINE p == StartOf(c, i)
               q == StartOf(c, i + 1)
               s == StartOf(c, f)
               n == c[i].len
    <3>3. q <= s /\ q = p + n /\ p + o = m /\ s <= m /\ o \in 0 .. n - 1 /\ p \in Nat /\ n \in Nat /\ s \in Nat
      BY <1>2, <1>3, <2>3, <2>4, <3>2
    <3> HIDE DEF p, q, s, n
    <3> QED
      BY <3>3
  <2>7. c[i].prefix = c[i].len /\ Backed(x, i, bytes)
    <3>1. i \in f .. l - 1
      BY <1>1, <2>3, <2>5, <2>6
    <3> QED
      BY <3>1
  <2>8. o \in 0 .. c[i].prefix - 1
    BY <2>3, <2>7
  <2> QED
    BY <2>3, <2>7, <2>8 DEF Backed, PrefixIn
<1> QED
  BY <1>5

LEMMA Keeps ==
  ASSUME NEW k \in 0 .. MaxBytes
  PROVE  k % (MaxBytes + 1) = k
BY SgAssumption

(* A sum that passes UINT32_MAX by less than its modulus wraps. *)
LEMMA Wraps ==
  ASSUME NEW k \in 1 .. MaxBytes
  PROVE  (k + MaxBytes) % (MaxBytes + 1) = k - 1
<1>1. MaxBytes + 1 \in Nat \ {0} /\ k - 1 \in 0 .. (MaxBytes + 1) - 1
  BY SgAssumption
<1>2. ((MaxBytes + 1) * 1 + (k - 1)) % (MaxBytes + 1) = k - 1
  BY <1>1, Remainder
<1>3. (MaxBytes + 1) * 1 + (k - 1) = k + MaxBytes
  BY SgAssumption
<1> QED
  BY <1>2, <1>3

(* The positions of the prefix, and what a walk over full descriptors finds. *)
LEMMA PrefixHolds ==
  ASSUME NEW b, buf[b].chain \in Seq(SgDesc), buf[b].firstW \in 1 .. Len(buf[b].chain),
         written[b].bytes \subseteq 0 .. Bytes(buf[b].chain) - 1, NEW n \in Nat,
         \A m \in 0 .. n - 1 : StartOf(buf[b].chain, buf[b].firstW) + m \in written[b].bytes
  PROVE  n <= PrefixWritten(b) /\ PrefixWritten(b) \in Nat
<1> DEFINE c == buf[b].chain
           first == StartOf(c, buf[b].firstW)
           size == Bytes(c)
           w == written[b].bytes
           p == Missing(first, size, w)
<1>1. first \in Nat /\ size \in Nat
  <2>1. IsChain(c) /\ Len(c) \in Nat /\ buf[b].firstW \in 1 .. Len(c) + 1
    BY SeqIsChain
  <2> QED
    BY <2>1, StartsAscend, BytesType
<1>2. PrefixWritten(b) = p
  BY DEF PrefixWritten, Missing
<1>3. w \subseteq 0 .. size - 1 /\ \A m \in 0 .. n - 1 : first + m \in w
  OBVIOUS
<1> HIDE DEF w, first, size
<1>4. \A m \in first .. first + n - 1 : m \in w
  <2> SUFFICES ASSUME NEW m \in first .. first + n - 1
               PROVE  m \in w
    OBVIOUS
  <2>1. m - first \in 0 .. n - 1 /\ first + (m - first) = m
    BY <1>1
  <2> QED
    BY <1>3, <2>1
<1>5. first \in Nat /\ size \in Nat /\ w \subseteq 0 .. size - 1 /\ n \in Nat
      /\ \A m \in first .. first + n - 1 : m \in w
  BY <1>1, <1>3, <1>4
<1>6. n <= p /\ p \in Nat
  BY <1>5, FirstMissing
<1> QED
  BY <1>2, <1>6

(* The used length, before it is cut to 32 bits, and what it counts. *)
LEMMA LowerBound ==
  ASSUME NEW b, buf[b].chain \in Seq(SgDesc), Bytes(buf[b].chain) <= MaxBytes,
         buf[b].firstW \in 1 .. Len(buf[b].chain), buf[b].seenW,
         Covered(buf[b], written[b]), written[b].bytes \subseteq 0 .. Bytes(buf[b].chain) - 1
  PROVE  LET claim == written_bytes_lowerbound(buf[b])
         IN  claim <= PrefixWritten(b) \/ (written[b].rewritten /\ claim = MaxBytes)
<1> DEFINE x == buf[b]
           c == x.chain
           f == x.firstW
           bytes == written[b].bytes
           gaps == {i \in f .. Len(c) : c[i].prefix # c[i].len}
           last == IF gaps = {} THEN Len(c) ELSE Min(gaps)
           first == StartOf(c, f)
           p == StartOf(c, last)
           r == c[last].prefix
           l == c[last].len
           size == Bytes(c)
           claim == written_bytes_lowerbound(x)
<1>1. IsChain(c) /\ Len(c) \in Nat /\ DOMAIN c = 1 .. Len(c) /\ \A i \in 1 .. Len(c) : c[i] \in SgDesc
  BY SeqIsChain
<1>2. \A i \in 1 .. Len(c) : /\ c[i].len \in 1 .. MaxBytes /\ c[i].prefix \in Nat
                              /\ (c[i].prefix = MaxBytes \/ Backed(x, i, bytes))
  BY <1>1, DescFields DEF Covered, SgDesc
<1>3. f \in 1 .. Len(c)
  OBVIOUS
<1>4. last \in f .. Len(c) /\ \A i \in f .. last - 1 : c[i].prefix = c[i].len
  <2>1. CASE gaps = {}
    BY <1>1, <1>3, <2>1
  <2>2. CASE gaps # {}
    <3>1. gaps \in SUBSET Nat
      BY <1>1, <1>3
    <3>2. Min(gaps) \in gaps /\ \A i \in gaps : Min(gaps) <= i
      BY <2>2, <3>1, MinIsLeast
    <3> DEFINE g == Min(gaps)
    <3>3. g \in f .. Len(c) /\ last = g
      BY <2>2, <3>2
    <3>4. \A i \in f .. g - 1 : c[i].prefix = c[i].len
      <4> SUFFICES ASSUME NEW i \in f .. g - 1, c[i].prefix # c[i].len
                   PROVE  FALSE
        OBVIOUS
      <4> HIDE DEF g
      <4>1. i \in f .. Len(c) /\ i < g
        BY <1>1, <1>3, <3>3
      <4>2. i \in gaps
        BY <4>1
      <4>3. g <= i
        BY <3>2, <4>2 DEF g
      <4> QED
        BY <1>3, <3>3, <4>1, <4>3
    <3> HIDE DEF g
    <3> QED
      BY <3>3, <3>4
  <2> QED
    BY <2>1, <2>2
<1>5. claim = (p - first + r) % (MaxBytes + 1)
  BY DEF written_bytes_lowerbound
<1> HIDE DEF gaps, last, claim
<1>6. last \in 1 .. Len(c) /\ f <= last
  BY <1>3, <1>4
<1>7. /\ \A i, j \in 1 .. Len(c) + 1 : i <= j => StartOf(c, i) <= StartOf(c, j)
      /\ \A i \in 1 .. Len(c) + 1 : StartOf(c, i) \in Nat
      /\ \A i \in 1 .. Len(c) : StartOf(c, i + 1) = StartOf(c, i) + c[i].len
  BY <1>1, StartsAscend, Starts
<1>8. /\ first \in Nat /\ p \in Nat /\ first <= p /\ p + l <= size /\ size \in Nat
      /\ l \in 1 .. MaxBytes /\ r \in Nat /\ size <= MaxBytes
  <2>1. /\ f \in 1 .. Len(c) + 1 /\ last \in 1 .. Len(c) + 1 /\ last + 1 \in 1 .. Len(c) + 1
        /\ Len(c) + 1 \in 1 .. Len(c) + 1 /\ last + 1 <= Len(c) + 1
    BY <1>1, <1>3, <1>6
  <2>2. StartOf(c, last + 1) = p + l /\ size = StartOf(c, Len(c) + 1)
    BY <1>6, <1>7 DEF Bytes
  <2>3. p + l <= size
    BY <1>7, <2>1, <2>2
  <2> QED
    BY <1>2, <1>6, <1>7, <2>1, <2>2, <2>3
(* A full descriptor before the last is not saturated: there is no room for it. *)
<1>9. \A i \in f .. last - 1 : c[i].prefix = c[i].len /\ Backed(x, i, bytes)
  <2> SUFFICES ASSUME NEW i \in f .. last - 1, c[i].len = MaxBytes
               PROVE  FALSE
    BY <1>2, <1>3, <1>4, <1>6
  <2>1. i \in 1 .. Len(c) /\ i + 1 \in 1 .. Len(c) + 1 /\ i + 1 <= last /\ last \in 1 .. Len(c) + 1
        /\ i \in 1 .. Len(c) + 1
    BY <1>3, <1>6
  <2>2. StartOf(c, i + 1) = StartOf(c, i) + MaxBytes /\ StartOf(c, i + 1) <= p /\ StartOf(c, i) \in Nat
    BY <1>7, <2>1
  <2> DEFINE q == StartOf(c, i)
             z == StartOf(c, i + 1)
  <2>3. z = q + MaxBytes /\ z <= p /\ q \in Nat
    BY <2>2
  <2> HIDE DEF q, z, p, l, size
  <2> QED
    BY <1>8, <2>3, SgAssumption
<1>10. \A m \in 0 .. p - first - 1 : first + m \in bytes
  <2> SUFFICES ASSUME NEW m \in 0 .. p - first - 1
               PROVE  first + m \in bytes
    OBVIOUS
  <2>1. first + m \in Nat /\ first <= first + m /\ first + m < p
    <3> HIDE DEF first, p
    <3> QED
      BY <1>8
  <2> QED
    BY <1>1, <1>3, <1>6, <1>9, <2>1, FullPrefix
<1>11. CASE Backed(x, last, bytes)
  <2>1. r <= l /\ \A j \in 0 .. r - 1 : p + j \in bytes
    BY <1>11 DEF Backed, PrefixIn
  <2> DEFINE n == p - first + r
  <2>2. n \in 0 .. MaxBytes
    <3>1. r <= l
      BY <2>1
    <3> HIDE DEF first, p, l, r, size
    <3> QED
      BY <1>8, <3>1, SgAssumption
  <2>3. claim = n
    <3> HIDE DEF n
    <3> QED
      BY <1>5, <2>2, SgAssumption DEF n
  <2>4. \A m \in 0 .. n - 1 : first + m \in bytes
    <3> SUFFICES ASSUME NEW m \in 0 .. n - 1
                 PROVE  first + m \in bytes
      OBVIOUS
    <3> HIDE DEF first, p, l, r, size, bytes
    <3>1. CASE m < p - first
      BY <1>8, <1>10, <3>1
    <3>2. CASE ~(m < p - first)
      <4>1. m - (p - first) \in 0 .. r - 1 /\ p + (m - (p - first)) = first + m
        BY <1>8, <3>2
      <4> QED
        BY <2>1, <4>1
    <3> QED
      BY <3>1, <3>2
  <2>5. n <= PrefixWritten(b)
    <3> HIDE DEF n
    <3> QED
      BY <1>3, <2>2, <2>4, PrefixHolds
  <2> QED
    BY <2>3, <2>5 DEF claim
<1>12. CASE ~Backed(x, last, bytes) /\ last = f
  <2>1. written[b].rewritten
    BY <1>12 DEF Covered
  <2>2. r = MaxBytes /\ p = first
    BY <1>2, <1>6, <1>12
  <2>3. claim = MaxBytes
    <3>1. p - first + r = MaxBytes /\ MaxBytes \in Nat
      <4> HIDE DEF first, p, r
      <4> QED
        BY <1>8, <2>2, SgAssumption
    <3>2. MaxBytes % (MaxBytes + 1) = MaxBytes
      BY <3>1, Keeps
    <3> QED
      BY <1>5, <3>1, <3>2
  <2> QED
    BY <2>1, <2>3 DEF claim
<1>13. CASE ~Backed(x, last, bytes) /\ last # f
  <2> DEFINE k == p - first
  <2>1. r = MaxBytes
    BY <1>2, <1>6, <1>13
  <2>2. first < p
    <3>1. f + 1 <= last /\ f + 1 \in 1 .. Len(c) + 1 /\ last \in 1 .. Len(c) + 1
      BY <1>3, <1>6, <1>13
    <3>2. StartOf(c, f + 1) = first + c[f].len /\ StartOf(c, f + 1) <= p /\ c[f].len \in 1 .. MaxBytes
      BY <1>2, <1>3, <1>7, <3>1
    <3> DEFINE q == StartOf(c, f + 1)
               h == c[f].len
    <3>3. q = first + h /\ q <= p /\ h \in 1 .. MaxBytes
      BY <3>2
    <3> HIDE DEF q, h, first, p
    <3> QED
      BY <1>8, <3>3
  <2>3. k \in 1 .. MaxBytes
    <3> HIDE DEF first, p, l, size
    <3> QED
      BY <1>8, <2>2, SgAssumption
  <2>4. claim = k - 1
    <3>1. claim = (k + MaxBytes) % (MaxBytes + 1)
      BY <1>5, <2>1
    <3> HIDE DEF k
    <3> QED
      BY <2>3, <3>1, Wraps
  <2>5. k <= PrefixWritten(b) /\ PrefixWritten(b) \in Nat
    <3>1. k \in Nat /\ \A m \in 0 .. k - 1 : first + m \in bytes
      BY <1>10, <2>3
    <3> HIDE DEF k
    <3> QED
      BY <1>3, <3>1, PrefixHolds
  <2>6. claim <= PrefixWritten(b)
    <3> HIDE DEF k
    <3> QED
      BY <2>3, <2>4, <2>5
  <2> QED
    BY <2>6 DEF claim
<1> QED
  BY <1>11, <1>12, <1>13

-----------------------------------------------------------------------------
(* What the buffers, the ghost of the written bytes and the cookies of the copies
   under way say of each other. *)

SgBuffer ==
  [chain : Seq(SgDesc), size : Nat, complete : BOOLEAN, forDevice : BOOLEAN,
   seenR : BOOLEAN, seenW : BOOLEAN, firstW : Nat]

(* The chain of a guest is as long as its descriptors are, what was written lies
   in it, and its prefixes hold written bytes unless they are saturated.  Of a chain
   that a client has built nobody tracks the written bytes. *)
Sound(x, g) ==
  IF x.forDevice
    THEN /\ x.complete /\ Len(x.chain) > 0
         /\ x.size = Bytes(x.chain) /\ x.size <= MaxBytes
         /\ g \in Ghost /\ g.bytes \subseteq 0 .. x.size - 1
         /\ x.seenW => x.firstW \in 1 .. Len(x.chain)
         /\ Covered(x, g)
    ELSE g = NoBytes

(* The buffer whose cookie has the size and the offsets of copy c: they lie in the
   chains on both sides. *)
Keeper(c) == IF c.d = Linear THEN c.s ELSE c.d

InChain(b, sz, off) == b = Linear \/ off + sz <= buf[b].size

Fits(c) ==
  LET k == cookie[Keeper(c)]
  IN  /\ k.sz \in Nat /\ k.d \in Nat /\ k.s \in Nat
      /\ InChain(c.d, k.sz, k.d) /\ InChain(c.s, k.sz, k.s)

SgData ==
  /\ buf \in [Buf -> SgBuffer] /\ written \in [Buf -> Ghost]
  /\ \A b \in Buf : Sound(buf[b], written[b])
  /\ \A c \in copies : Fits(c)

(* The fields of a buffer record. *)
LEMMA BufferFields ==
  ASSUME NEW x \in SgBuffer
  PROVE  /\ DOMAIN x = DOMAIN Empty /\ x.chain \in Seq(SgDesc) /\ x.size \in Nat
         /\ IsChain(x.chain) /\ Len(x.chain) \in Nat /\ Bytes(x.chain) \in Nat
<1>1. DOMAIN x = DOMAIN Empty /\ x.chain \in Seq(SgDesc) /\ x.size \in Nat
  BY DEF SgBuffer, Empty
<1> QED
  BY <1>1, SeqIsChain, BytesType

LEMMA SoundFields ==
  ASSUME NEW x, NEW y, NEW g, Sound(x, g),
         y.forDevice = x.forDevice, y.complete = x.complete, y.chain = x.chain, y.size = x.size,
         y.seenW = x.seenW, y.firstW = x.firstW
  PROVE  Sound(y, g)
BY DEF Sound, Covered, Backed

LEMMA NothingWritten == NoBytes \in Ghost /\ NoBytes.bytes = {}
BY DEF NoBytes, Ghost

LEMMA SoundGhost ==
  ASSUME NEW x, NEW g, Sound(x, g)
  PROVE  g \in Ghost
<1>1. x.forDevice => g \in Ghost
  BY DEF Sound
<1>2. ~x.forDevice => g = NoBytes
  BY DEF Sound
<1> QED
  BY <1>1, <1>2, NothingWritten

(* An empty chain, before walk_chain and after conclude_chain_use. *)
LEMMA EmptyIsSound ==
  Empty \in SgBuffer /\ Sound(Empty, NoBytes)
BY DEF Empty, SgBuffer, Sound

LEMMA EmptyWrites ==
  ASSUME SgData, NEW b \in Buf, buf[b].chain = <<>>
  PROVE  written[b] = NoBytes
<1>1. Sound(buf[b], written[b]) /\ Len(buf[b].chain) = 0
  BY DEF SgData
<1> QED
  BY <1>1 DEF Sound

(* What walk_chain makes of a chain that it accepts. *)
LEMMA WalkedIsSound ==
  ASSUME NEW g \in Accepted
  PROVE  Walked(g.ds) \in SgBuffer /\ Sound(Walked(g.ds), NoBytes)
<1> DEFINE ds == g.ds
           x == Walked(ds)
           writable == {i \in DOMAIN ds : ds[i].w}
<1>1. ds \in Seq([len : GuestLength, w : BOOLEAN]) /\ ds # <<>>
  <2> DEFINE T == [len : GuestLength, w : BOOLEAN]
             D == BoundedSeq(T, MaxLen + 1)
  <2>1. g \in GuestChain
    BY DEF Accepted
  <2>2. ds \in D /\ ds # <<>>
    BY <2>1 DEF GuestChain
  <2> HIDE DEF T, ds
  <2>6. D = UNION {[1 .. m -> T] : m \in 0 .. MaxLen + 1}
    BY DEF BoundedSeq, SeqOf
  <2>3. PICK m \in 0 .. MaxLen + 1 : ds \in [1 .. m -> T]
    BY <2>2, <2>6
  <2>4. m \in Nat
    BY <2>3, SgAssumption
  <2>5. ds \in Seq(T)
    BY <2>3, <2>4, SeqDef
  <2> QED
    BY <2>2, <2>5 DEF T, ds
<1>2. /\ \A i \in DOMAIN ds : ds[i].len # 0
      /\ Bytes(ds) <= MaxBytes
  BY DEF Accepted, Walks
<1>3. Len(ds) \in Nat \ {0} /\ DOMAIN ds = 1 .. Len(ds)
      /\ \A i \in 1 .. Len(ds) : ds[i] \in [len : GuestLength, w : BOOLEAN]
  <2>1. Len(ds) \in Nat /\ DOMAIN ds = 1 .. Len(ds)
        /\ \A i \in 1 .. Len(ds) : ds[i] \in [len : GuestLength, w : BOOLEAN]
    <3> DEFINE T == [len : GuestLength, w : BOOLEAN]
    <3>1. ds \in Seq(T)
      BY <1>1
    <3> HIDE DEF T, ds
    <3>2. Len(ds) \in Nat /\ DOMAIN ds = 1 .. Len(ds) /\ \A i \in 1 .. Len(ds) : ds[i] \in T
      BY <3>1
    <3> QED
      BY <3>2 DEF T, ds
  <2>2. Len(ds) # 0
    BY <1>1, EmptySeq
  <2> QED
    BY <2>1, <2>2
<1>4. \A i \in 1 .. Len(ds) : ds[i].len \in 1 .. MaxBytes /\ ds[i].w \in BOOLEAN
  BY <1>2, <1>3, SgAssumption
<1>5. /\ x.chain = [i \in 1 .. Len(ds) |-> [len |-> ds[i].len, w |-> ds[i].w, prefix |-> 0]]
      /\ x.size = Bytes(ds) /\ x.complete = TRUE /\ x.forDevice = TRUE
      /\ x.seenR = (writable # DOMAIN ds) /\ x.seenW = (writable # {})
      /\ x.firstW = IF writable = {} THEN 0 ELSE Min(writable)
      /\ x = [chain |-> x.chain, size |-> x.size, complete |-> x.complete, forDevice |-> x.forDevice,
              seenR |-> x.seenR, seenW |-> x.seenW, firstW |-> x.firstW]
  BY <1>3 DEF Walked
<1> HIDE DEF x
<1>6. /\ x.chain \in Seq(SgDesc) /\ Len(x.chain) = Len(ds)
      /\ \A i \in 1 .. Len(ds) : x.chain[i].len = ds[i].len /\ x.chain[i].prefix = 0
  <2>1. \A i \in 1 .. Len(ds) : [len |-> ds[i].len, w |-> ds[i].w, prefix |-> 0] \in SgDesc
    BY <1>4, SgAssumption DEF SgDesc
  <2>2. x.chain \in [1 .. Len(ds) -> SgDesc]
    BY <1>5, <2>1
  <2>3. x.chain \in Seq(SgDesc)
    BY <1>3, <2>2, SeqDef
  <2> QED
    BY <1>3, <1>5, <2>2, <2>3, LenProperties
<1>7. Bytes(x.chain) = Bytes(ds) /\ Bytes(x.chain) \in Nat
  BY <1>3, <1>6, StartsSame, SeqIsChain, BytesType
<1>8. writable # {} => x.firstW \in 1 .. Len(x.chain)
  <2> SUFFICES ASSUME writable # {}
               PROVE  x.firstW \in 1 .. Len(x.chain)
    OBVIOUS
  <2>1. writable \in SUBSET Nat
    BY <1>3
  <2>2. Min(writable) \in writable
    BY <2>1, MinIsLeast
  <2> QED
    BY <1>3, <1>5, <1>6, <2>2
<1>9. x.firstW \in Nat
  BY <1>3, <1>5, <1>6, <1>8
<1> HIDE DEF writable
<1>10. x \in SgBuffer
  <2>1. x.size \in Nat /\ x.complete \in BOOLEAN /\ x.forDevice \in BOOLEAN
        /\ x.seenR \in BOOLEAN /\ x.seenW \in BOOLEAN
    BY <1>5, <1>7
  <2> QED
    BY <1>5, <1>6, <1>9, <2>1 DEF SgBuffer
<1>11. Covered(x, NoBytes)
  <2>1. \A i \in 1 .. Len(x.chain) : x.chain[i].prefix = 0 /\ x.chain[i].len \in Nat
    BY <1>4, <1>6, SgAssumption
  <2>2. \A i \in 1 .. Len(x.chain) : Backed(x, i, NoBytes.bytes)
    BY <2>1 DEF Backed, PrefixIn
  <2>3. x.seenW => x.firstW \in 1 .. Len(x.chain)
    BY <1>5, <1>8, Zenon DEF writable
  <2> QED
    BY <2>2, <2>3 DEF Covered
<1>12. Sound(x, NoBytes)
  <2>1. Len(x.chain) > 0 /\ x.size = Bytes(x.chain) /\ x.size <= MaxBytes
    BY <1>2, <1>3, <1>5, <1>6, <1>7
  <2>3. x.complete /\ x.forDevice
    BY <1>5, Zenon
  <2>4. x.seenW => x.firstW \in 1 .. Len(x.chain)
    BY <1>5, <1>8, Zenon DEF writable
  <2>2. NoBytes \in Ghost /\ NoBytes.bytes \subseteq 0 .. x.size - 1
    BY NothingWritten
  <2> QED
    BY <1>11, <2>1, <2>2, <2>3, <2>4, Zenon DEF Sound
<1> QED
  BY <1>10, <1>12 DEF x

(* What add_link and modify_link make of a chain that a client builds. *)
LEMMA JoinedIsBuffer ==
  ASSUME NEW x \in SgBuffer, NEW len \in 1 .. MaxBytes, NEW w \in BOOLEAN, NEW final \in BOOLEAN
  PROVE  LET y == [Joined(x, len, w) EXCEPT !.complete = final]
         IN  y \in SgBuffer /\ y.forDevice = x.forDevice /\ y.size = x.size + len
<1> DEFINE e == [len |-> len, w |-> w, prefix |-> 0]
           y == [Joined(x, len, w) EXCEPT !.complete = final]
<1>1. e \in SgDesc
  BY SgAssumption DEF SgDesc
<1>2. x.chain \in Seq(SgDesc) /\ Len(x.chain) \in Nat
  BY BufferFields
<1>3. Append(x.chain, e) \in Seq(SgDesc)
  BY <1>1, <1>2, AppendProperties
<1> DEFINE c == Append(x.chain, e)
           f == IF w /\ ~x.seenW THEN Len(x.chain) + 1 ELSE x.firstW
<1>4. f \in Nat
  BY <1>2 DEF SgBuffer
<1> DEFINE n == x.size + len
           p == x.seenR \/ ~w
           q == x.seenW \/ w
           z == [x EXCEPT !.chain = c, !.size = n, !.seenR = p, !.firstW = f, !.seenW = q,
                          !.complete = final]
<1>5. y = z
  BY DEF Joined, SgBuffer
<1>6. c \in Seq(SgDesc) /\ n \in Nat /\ p \in BOOLEAN /\ q \in BOOLEAN
  BY <1>3, SgAssumption DEF SgBuffer
<1>7. z.forDevice = x.forDevice /\ z.size = x.size + len
  BY DEF SgBuffer
<1> HIDE DEF y, c, f, n, p, q
<1>8. z \in SgBuffer
  BY <1>4, <1>6 DEF SgBuffer
<1> HIDE DEF z
<1> QED
  BY <1>5, <1>7, <1>8 DEF y

LEMMA ModifiedIsChain ==
  ASSUME NEW c \in Seq(SgDesc), NEW i \in DOMAIN c, NEW len \in 1 .. MaxBytes
  PROVE  [c EXCEPT ![i].len = len] \in Seq(SgDesc)
<1> DEFINE e == [c EXCEPT ![i].len = len]
<1>1. [c[i] EXCEPT !.len = len] \in SgDesc
  <2>1. c[i] \in SgDesc
    BY SeqIsChain
  <2> QED
    BY <2>1 DEF SgDesc
<1>2. Len(c) \in Nat /\ c \in [1 .. Len(c) -> SgDesc]
  BY LenProperties
<1>3. e \in [1 .. Len(c) -> SgDesc]
  BY <1>1, <1>2
<1> QED
  BY <1>2, <1>3, SeqDef

(* The cookie with the size and the offsets of a copy is its own, and no other copy
   has them in the cookie of its source. *)
LEMMA KeepersDiffer ==
  ASSUME SgInv, NEW c \in copies, NEW e \in copies, e # c
  PROVE  Keeper(e) # Keeper(c) /\ (c.d # Linear => Keeper(e) # c.s)
<1>1. Matches(c) /\ Matches(e) /\ c \in Copies /\ e \in Copies
  BY DEF SgInv, PairInv, SgTypeOK
<1>2. ~(c.s = Linear /\ c.d = Linear) /\ ~(e.s = Linear /\ e.d = Linear)
  BY DEF SgInv, SgTypeOK
<1>3. ~(c.s = e.s /\ c.d = e.d)
  BY DEF SgInv, SgTypeOK
<1>4. CASE c.d = Linear /\ e.d = Linear
  BY <1>3, <1>4 DEF Keeper
<1>5. CASE c.d = Linear /\ e.d # Linear
  BY <1>1, <1>5
  DEF Keeper, Matches, is_src_to_linear, is_dst_from_linear, is_src_to_matching_sg
<1>6. CASE c.d # Linear /\ e.d = Linear
  <2>1. Keeper(e) = e.s /\ cookie[e.s].src /\ ~cookie[e.s].sg /\ e.s # Linear
    BY <1>1, <1>2, <1>6 DEF Keeper, Matches, is_src_to_linear
  <2>2. ~cookie[c.d].src /\ Keeper(c) = c.d
    BY <1>1, <1>6 DEF Keeper, Matches, is_dst_from_linear, is_src_to_matching_sg
  <2>3. c.s # Linear => cookie[c.s].sg
    BY <1>1, <1>6 DEF Matches, is_src_to_matching_sg, is_src_to_sg
  <2> QED
    BY <2>1, <2>2, <2>3
<1>7. CASE c.d # Linear /\ e.d # Linear
  <2>1. Keeper(e) = e.d /\ Keeper(c) = c.d
    BY <1>7 DEF Keeper
  <2>2. e.d # c.d
    BY <1>1, <1>3, <1>7 DEF Matches, is_dst_from_linear, is_src_to_matching_sg
  <2>3. e.d # c.s
    <3>1. ~cookie[e.d].src
      BY <1>1, <1>7 DEF Matches, is_dst_from_linear, is_src_to_matching_sg
    <3>2. c.s # Linear => cookie[c.s].src
      BY <1>1, <1>7 DEF Matches, is_src_to_matching_sg, is_src_to_sg
    <3> QED
      BY <1>7, <3>1, <3>2
  <2> QED
    BY <2>1, <2>2, <2>3
<1> QED
  BY <1>4, <1>5, <1>6, <1>7

(* A copy keeps its place when its cookie does not change and no chain shrinks. *)
LEMMA FitKept ==
  ASSUME NEW c \in Copies, NEW e, c.s = e.s, c.d = e.d, Fits(c),
         cookie'[Keeper(c)] = cookie[Keeper(c)],
         \A b \in Buf : buf[b].size \in Nat /\ buf'[b].size \in Nat,
         \A b \in Buf \cap {c.s, c.d} : buf[b].size <= buf'[b].size
  PROVE  Fits(e)'
<1> DEFINE k == cookie[Keeper(c)]
<1>1. Keeper(e) = Keeper(c)
  BY DEF Keeper
<1>2. k.sz \in Nat /\ k.d \in Nat /\ k.s \in Nat /\ InChain(c.d, k.sz, k.d) /\ InChain(c.s, k.sz, k.s)
  BY DEF Fits
<1>3. ASSUME NEW b \in {c.s, c.d}, NEW sz \in Nat, NEW off \in Nat, InChain(b, sz, off)
      PROVE  InChain(b, sz, off)'
  <2>1. CASE b = Linear
    BY <2>1 DEF InChain
  <2>2. CASE b # Linear
    <3>1. b \in Buf /\ buf[b].size \in Nat /\ buf'[b].size \in Nat /\ buf[b].size <= buf'[b].size
      BY <1>3, <2>2 DEF Copies
    <3>2. off + sz <= buf[b].size
      BY <1>3, <2>2 DEF InChain
    <3>3. off + sz <= buf'[b].size
      BY <1>3, <3>1, <3>2
    <3> QED
      BY <3>3 DEF InChain
  <2> QED
    BY <2>1, <2>2
<1>4. InChain(c.d, k.sz, k.d)' /\ InChain(c.s, k.sz, k.s)'
  <2>1. k' = k
    OBVIOUS
  <2> HIDE DEF k
  <2>2. \A b \in {c.s, c.d}, sz, off \in Nat : InChain(b, sz, off) => (off + sz <= buf'[b].size \/ b = Linear)
    BY <1>3 DEF InChain
  <2> QED
    BY <1>2, <2>1, <2>2 DEF InChain
<1> QED
  BY <1>1, <1>2, <1>4 DEF Fits

(* A call that changes the record of one buffer, on which no copy is under way or
   the chain of which only grows. *)
LEMMA OneBuffer ==
  ASSUME SgInv, SgData, NEW b \in Buf, UNCHANGED <<cookie, copies>>,
         NEW x \in SgBuffer, buf' = [buf EXCEPT ![b] = x],
         NEW g, Sound(x, g), written' = [written EXCEPT ![b] = g],
         ~InUse(b) \/ x.size >= buf[b].size
  PROVE  SgData'
<1>1. buf \in [Buf -> SgBuffer] /\ written \in [Buf -> Ghost]
      /\ \A o \in Buf : Sound(buf[o], written[o])
  BY DEF SgData
<1>2. buf' \in [Buf -> SgBuffer] /\ buf'[b] = x /\ \A o \in Buf \ {b} : buf'[o] = buf[o]
  BY <1>1
<1>3. /\ written' \in [Buf -> Ghost] /\ written'[b] = g
      /\ \A o \in Buf \ {b} : written'[o] = written[o]
  <2>1. g \in Ghost
    BY SoundGhost
  <2> QED
    BY <1>1, <2>1
<1>4. ASSUME NEW o \in Buf
      PROVE  Sound(buf'[o], written'[o])
  BY <1>1, <1>2, <1>3
<1>5. ASSUME NEW c \in copies'
      PROVE  Fits(c)'
  <2>1. c \in copies /\ c \in Copies /\ Fits(c) /\ cookie'[Keeper(c)] = cookie[Keeper(c)]
    BY DEF SgInv, SgTypeOK, SgData
  <2>2. \A o \in Buf : buf[o].size \in Nat /\ buf'[o].size \in Nat
    BY <1>1, <1>2, BufferFields
  <2>3. ASSUME NEW o \in Buf \cap {c.s, c.d}
        PROVE  buf[o].size <= buf'[o].size
    <3>1. CASE o = b
      <4>1. InUse(b)
        BY <2>1, <3>1, IdleEnd
      <4> QED
        BY <1>2, <3>1, <4>1
    <3>2. CASE o # b
      BY <1>2, <2>2, <3>2
    <3> QED
      BY <3>1, <3>2
  <2> QED
    BY <2>1, <2>2, <2>3, FitKept
<1>6. (\A o \in Buf : Sound(buf[o], written[o]))'
  BY <1>4
<1> QED
  BY <1>2, <1>3, <1>5, <1>6 DEF SgData

LEMMA ChainsKeepData ==
  ASSUME SgInv, SgData, NEW b \in Buf,
         WalkChain(b) \/ WalkFails(b) \/ AddLink(b) \/ ModifyLink(b) \/ Conclude(b)
  PROVE  SgData'
<1>1. buf[b] \in SgBuffer /\ Sound(buf[b], written[b]) /\ written \in [Buf -> Ghost]
      /\ buf \in [Buf -> SgBuffer]
  BY DEF SgData
<1>2. written = [written EXCEPT ![b] = written[b]]
  BY <1>1
<1>3. CASE WalkChain(b)
  <2>1. PICK g \in Accepted : buf' = [buf EXCEPT ![b] = Walked(g.ds)]
    BY <1>3 DEF WalkChain
  <2>2. ~InUse(b) /\ UNCHANGED <<cookie, copies>> /\ written' = written /\ buf[b].chain = <<>>
    BY <1>3 DEF WalkChain
  <2>3. written[b] = NoBytes
    BY <2>2, EmptyWrites
  <2>4. Walked(g.ds) \in SgBuffer /\ Sound(Walked(g.ds), NoBytes)
    BY WalkedIsSound
  <2>5. written' = [written EXCEPT ![b] = NoBytes]
    BY <1>2, <2>2, <2>3
  <2> QED
    BY <2>1, <2>2, <2>4, <2>5, OneBuffer
<1>4. CASE WalkFails(b)
  <2>1. /\ buf' = [buf EXCEPT ![b] = Empty] /\ ~InUse(b) /\ UNCHANGED <<cookie, copies>>
        /\ written' = written /\ buf[b].chain = <<>>
    BY <1>4 DEF WalkFails
  <2>2. written' = [written EXCEPT ![b] = NoBytes]
    BY <1>2, <2>1, EmptyWrites
  <2> QED
    BY <2>1, <2>2, EmptyIsSound, OneBuffer
<1>5. CASE Conclude(b)
  <2>1. /\ buf' = [buf EXCEPT ![b] = Empty] /\ ~InUse(b) /\ UNCHANGED <<cookie, copies>>
        /\ written' = [written EXCEPT ![b] = NoBytes]
    BY <1>5 DEF Conclude
  <2> QED
    BY <2>1, EmptyIsSound, OneBuffer
<1>6. CASE AddLink(b)
  <2>1. PICK len \in LinkLength, w \in BOOLEAN, final \in BOOLEAN :
          /\ Accepts(buf[b], len, w)
          /\ buf' = [buf EXCEPT ![b] = [Joined(@, len, w) EXCEPT !.complete = final]]
    BY <1>6 DEF AddLink
  <2> DEFINE y == [Joined(buf[b], len, w) EXCEPT !.complete = final]
  <2>2. ~buf[b].complete /\ UNCHANGED <<cookie, copies>> /\ written' = written
    BY <1>6 DEF AddLink
  <2>3. buf' = [buf EXCEPT ![b] = y]
    BY <2>1
  <2>4. len \in 1 .. MaxBytes
    BY <2>1, SgAssumption DEF Accepts
  <2>5. y \in SgBuffer /\ y.forDevice = buf[b].forDevice /\ y.size = buf[b].size + len
    BY <1>1, <2>4, JoinedIsBuffer
  <2> HIDE DEF y
  <2>6. ~buf[b].forDevice /\ written[b] = NoBytes
    BY <1>1, <2>2 DEF Sound
  <2>7. Sound(y, NoBytes) /\ written' = [written EXCEPT ![b] = NoBytes]
    BY <1>2, <2>2, <2>5, <2>6 DEF Sound
  <2>8. y.size >= buf[b].size
    BY <1>1, <2>4, <2>5, BufferFields, SgAssumption
  <2> QED
    BY <2>2, <2>3, <2>5, <2>7, <2>8, OneBuffer
<1>7. CASE ModifyLink(b)
  <2>1. PICK i \in DOMAIN buf[b].chain, len \in LinkLength \ {0} :
          LET rest == (buf[b].size - buf[b].chain[i].len) % SizeModulus
          IN buf' = [buf EXCEPT ![b] =
               IF rest > MaxBytes \/ rest + len > MaxBytes
                 THEN [@ EXCEPT !.size = rest]
                 ELSE [@ EXCEPT !.size = rest + len, !.chain[i].len = len]]
    BY <1>7 DEF ModifyLink
  <2> DEFINE rest == (buf[b].size - buf[b].chain[i].len) % SizeModulus
             more == [buf[b] EXCEPT !.size = rest + len, !.chain[i].len = len]
             less == [buf[b] EXCEPT !.size = rest]
             y == IF rest > MaxBytes \/ rest + len > MaxBytes THEN less ELSE more
  <2>2. ~buf[b].forDevice /\ ~InUse(b) /\ UNCHANGED <<cookie, copies>> /\ written' = written
    BY <1>7 DEF ModifyLink
  <2>3. buf' = [buf EXCEPT ![b] = y]
    BY <2>1
  <2>4. len \in 1 .. MaxBytes
    BY <2>1, SgAssumption
  <2>5. rest \in Nat /\ rest + len \in Nat
    <3>1. buf[b].chain[i] \in SgDesc /\ buf[b].size \in Nat
      BY <1>1, <2>1, SeqIsChain, BufferFields
    <3>2. buf[b].size - buf[b].chain[i].len \in Int
      BY <3>1, DescFields
    <3> DEFINE n == buf[b].size - buf[b].chain[i].len
    <3>3. SizeModulus \in Nat \ {0}
      BY SgAssumption
    <3> HIDE DEF n
    <3>4. n % SizeModulus \in Nat
      BY <3>2, <3>3 DEF n
    <3> QED
      BY <2>4, <3>4, SgAssumption DEF n
  <2> HIDE DEF rest
  <2>6. /\ more \in SgBuffer /\ more.forDevice = buf[b].forDevice
        /\ less \in SgBuffer /\ less.forDevice = buf[b].forDevice
    <3> DEFINE x == buf[b]
    <3>1. x \in SgBuffer /\ i \in DOMAIN x.chain
      BY <1>1, <2>1
    <3>2. x.chain \in Seq(SgDesc)
      BY <3>1, BufferFields
    <3> DEFINE c == [x.chain EXCEPT ![i].len = len]
               n == rest + len
    <3>5. c \in Seq(SgDesc)
      BY <2>4, <3>1, <3>2, ModifiedIsChain
    <3>6. more = [x EXCEPT !.size = n, !.chain = c]
      BY <3>1 DEF SgBuffer
    <3>7. n \in Nat
      BY <2>5
    <3> HIDE DEF more, c, n, x
    <3>3. more \in SgBuffer /\ more.forDevice = x.forDevice
      BY <3>1, <3>5, <3>6, <3>7 DEF SgBuffer
    <3>4. less \in SgBuffer /\ less.forDevice = x.forDevice
      BY <2>5, <3>1 DEF SgBuffer, x
    <3> HIDE DEF more, less
    <3> QED
      BY <3>3, <3>4 DEF x
  <2> HIDE DEF more, less
  <2>7. y \in SgBuffer /\ y.forDevice = buf[b].forDevice
    BY <2>6
  <2> HIDE DEF y
  <2>8. written[b] = NoBytes
    BY <1>1, <2>2 DEF Sound
  <2>9. Sound(y, NoBytes) /\ written' = [written EXCEPT ![b] = NoBytes]
    BY <1>2, <2>2, <2>7, <2>8 DEF Sound
  <2> QED
    BY <2>2, <2>3, <2>7, <2>9, OneBuffer
<1> QED
  BY <1>3, <1>4, <1>5, <1>6, <1>7

(* A copy starts: its offsets lie in the chains, and it takes a cookie that is not
   in use. *)
LEMMA StartKeepsData ==
  ASSUME SgInv, SgData, UNCHANGED <<buf, written>>,
         NEW n, copies' = copies \cup {n}, Fits(n)',
         \A c \in copies : cookie'[Keeper(c)] = cookie[Keeper(c)]
  PROVE  SgData'
<1>1. buf \in [Buf -> SgBuffer]
  BY DEF SgData
<1>2. \A b \in Buf : buf[b].size \in Nat /\ buf'[b].size = buf[b].size
  BY <1>1, BufferFields
<1>3. ASSUME NEW c \in copies
      PROVE  Fits(c)'
  <2>1. c \in Copies /\ Fits(c)
    BY DEF SgInv, SgTypeOK, SgData
  <2>2. \A b \in Buf : buf[b].size \in Nat /\ buf'[b].size \in Nat /\ buf[b].size <= buf'[b].size
    BY <1>2
  <2> QED
    BY <2>1, <2>2, FitKept
<1>4. \A c \in copies' : Fits(c)'
  BY <1>3
<1> QED
  BY <1>4 DEF SgData

LEMMA StartToSgData ==
  ASSUME SgInv, SgData, NEW s \in Buf, NEW d \in Buf, StartToSg(s, d)
  PROVE  SgData'
<1>1. PICK sz \in CopySize, dOff \in Offset, sOff \in Offset :
        /\ InBounds(buf[d], sz, dOff) /\ InBounds(buf[s], sz, sOff)
        /\ cookie' = [cookie EXCEPT
            ![s] = InitStatus(@, TRUE, TRUE),
            ![d] = [InitMetadata(@, FALSE, TRUE, sz, dOff, sOff) EXCEPT !.from = s]]
  BY DEF StartToSg
<1>2. /\ s # d /\ ~is_src_to_linear(s) /\ ~is_dst(s) /\ ~InUse(d) /\ copies' = copies \cup {Copy(s, d)}
      /\ UNCHANGED <<buf, written>>
  BY DEF StartToSg
<1>3. DOMAIN cookie = Buf /\ IsCookie(cookie[d]) /\ s # Linear /\ d # Linear
  BY SgAssumption DEF SgInv, SgTypeOK
<1>4. \A c \in copies : Keeper(c) # s /\ Keeper(c) # d
  <2>1. \A c \in copies : c.d # s /\ (c.s = s => c.d \in Buf)
    BY <1>2, CanStart
  <2>2. \A c \in copies : c.s # d /\ c.d # d
    BY <1>2, IdleEnd
  <2> QED
    BY <2>1, <2>2, SgAssumption DEF Keeper
<1>5. \A c \in copies : cookie'[Keeper(c)] = cookie[Keeper(c)]
  <2>1. \A o \in Buf : o # s /\ o # d => cookie'[o] = cookie[o]
    BY <1>1, <1>3
  <2>2. \A c \in copies : Keeper(c) \in Buf
    BY DEF SgInv, SgTypeOK, Copies, Keeper
  <2> QED
    BY <1>4, <2>1, <2>2
<1> DEFINE k == InitMetadata(cookie[d], FALSE, TRUE, sz, dOff, sOff)
<1>6. k.sz = sz /\ k.d = dOff /\ k.s = sOff
  BY <1>3 DEF InitMetadata, InitStatus, IsCookie
<1>7. cookie'[d] = [k EXCEPT !.from = s]
  BY <1>1, <1>2, <1>3
<1> HIDE DEF k
<1>8. cookie'[d].sz = sz /\ cookie'[d].d = dOff /\ cookie'[d].s = sOff
  BY <1>6, <1>7
<1>9. sz \in Nat /\ dOff \in Nat /\ sOff \in Nat
      /\ dOff + sz <= buf[d].size /\ sOff + sz <= buf[s].size
  BY <1>1, SgAssumption DEF CopySize, Offset, InBounds
<1> DEFINE n == Copy(s, d)
<1>10. n.s = s /\ n.d = d
  BY DEF Copy
<1> HIDE DEF n
<1>11. Fits(n)'
  BY <1>2, <1>3, <1>8, <1>9, <1>10 DEF Fits, Keeper, InChain
<1>12. copies' = copies \cup {n}
  BY <1>2 DEF n
<1> QED
  BY <1>2, <1>5, <1>11, <1>12, StartKeepsData

LEMMA StartLinearData ==
  ASSUME SgInv, SgData, NEW b \in Buf, StartToLinear(b) \/ StartFromLinear(b)
  PROVE  SgData'
<1>1. ~is_src_to_sg(b) /\ ~is_src_to_linear(b) /\ ~is_dst(b) /\ UNCHANGED <<buf, written>>
  BY DEF StartToLinear, StartFromLinear
<1>2. ~InUse(b)
  BY <1>1, CanStart
<1>3. DOMAIN cookie = Buf /\ IsCookie(cookie[b]) /\ b # Linear
  BY SgAssumption DEF SgInv, SgTypeOK
<1>4. \A c \in copies : Keeper(c) # b
  BY <1>2, IdleEnd DEF Keeper
<1>5. CASE StartToLinear(b)
  <2> DEFINE n == Copy(b, Linear)
  <2>1. PICK sz \in CopySize, sOff \in Offset :
          /\ InBounds(buf[b], sz, sOff)
          /\ cookie' = [cookie EXCEPT ![b] =
               [InitMetadata(@, TRUE, FALSE, sz, 0, sOff) EXCEPT !.linDst = TRUE]]
    BY <1>5 DEF StartToLinear
  <2> DEFINE k == InitMetadata(cookie[b], TRUE, FALSE, sz, 0, sOff)
  <2>2. k.sz = sz /\ k.d = 0 /\ k.s = sOff
    BY <1>3 DEF InitMetadata, InitStatus, IsCookie
  <2>3. cookie'[b] = [k EXCEPT !.linDst = TRUE] /\ \A o : o # b => cookie'[o] = cookie[o]
    BY <1>3, <2>1
  <2> HIDE DEF k
  <2>4. cookie'[b].sz = sz /\ cookie'[b].d = 0 /\ cookie'[b].s = sOff
    BY <2>2, <2>3
  <2>5. sz \in Nat /\ sOff \in Nat /\ sOff + sz <= buf[b].size
    BY <2>1, SgAssumption DEF CopySize, Offset, InBounds
  <2>6. n.s = b /\ n.d = Linear /\ copies' = copies \cup {n}
    BY <1>5 DEF Copy, StartToLinear
  <2> HIDE DEF n
  <2>7. Fits(n)'
    BY <1>1, <1>3, <2>4, <2>5, <2>6 DEF Fits, Keeper, InChain
  <2>8. \A c \in copies : cookie'[Keeper(c)] = cookie[Keeper(c)]
    BY <1>4, <2>3
  <2> QED
    BY <1>1, <2>6, <2>7, <2>8, StartKeepsData
<1>6. CASE StartFromLinear(b)
  <2> DEFINE n == Copy(Linear, b)
  <2>1. PICK sz \in CopySize, dOff \in Offset :
          /\ InBounds(buf[b], sz, dOff)
          /\ cookie' = [cookie EXCEPT ![b] =
               [InitMetadata(@, FALSE, FALSE, sz, dOff, 0) EXCEPT !.linSrc = TRUE]]
    BY <1>6 DEF StartFromLinear
  <2> DEFINE k == InitMetadata(cookie[b], FALSE, FALSE, sz, dOff, 0)
  <2>2. k.sz = sz /\ k.d = dOff /\ k.s = 0
    BY <1>3 DEF InitMetadata, InitStatus, IsCookie
  <2>3. cookie'[b] = [k EXCEPT !.linSrc = TRUE] /\ \A o : o # b => cookie'[o] = cookie[o]
    BY <1>3, <2>1
  <2> HIDE DEF k
  <2>4. cookie'[b].sz = sz /\ cookie'[b].d = dOff /\ cookie'[b].s = 0
    BY <2>2, <2>3
  <2>5. sz \in Nat /\ dOff \in Nat /\ dOff + sz <= buf[b].size
    BY <2>1, SgAssumption DEF CopySize, Offset, InBounds
  <2>6. n.s = Linear /\ n.d = b /\ copies' = copies \cup {n}
    BY <1>6 DEF Copy, StartFromLinear
  <2> HIDE DEF n
  <2>7. Fits(n)'
    BY <1>1, <1>3, <2>4, <2>5, <2>6 DEF Fits, Keeper, InChain
  <2>8. \A c \in copies : cookie'[Keeper(c)] = cookie[Keeper(c)]
    BY <1>4, <2>3
  <2> QED
    BY <1>1, <2>6, <2>7, <2>8, StartKeepsData
<1> QED
  BY <1>5, <1>6

(* What is left of copy c after a try that ended n bytes of it. *)
Shifted(c, n) ==
  LET k == cookie[Keeper(c)]
      t == cookie'[Keeper(c)]
  IN  t.sz = k.sz - n /\ t.d = k.d + n /\ t.s = k.s + n

LEMMA ShiftFits ==
  ASSUME NEW c, Fits(c), NEW n \in 0 .. cookie[Keeper(c)].sz, Shifted(c, n),
         c.d # Linear => buf[c.d].size \in Nat /\ buf'[c.d].size = buf[c.d].size,
         c.s # Linear => buf[c.s].size \in Nat /\ buf'[c.s].size = buf[c.s].size,
         NEW e, e.s = c.s, e.d = c.d
  PROVE  Fits(e)'
<1> DEFINE k == cookie[Keeper(c)]
           t == cookie'[Keeper(c)]
<1>1. k.sz \in Nat /\ k.d \in Nat /\ k.s \in Nat
      /\ (c.d = Linear \/ k.d + k.sz <= buf[c.d].size) /\ (c.s = Linear \/ k.s + k.sz <= buf[c.s].size)
  BY DEF Fits, InChain
<1>2. t.sz = k.sz - n /\ t.d = k.d + n /\ t.s = k.s + n
  BY DEF Shifted
<1>3. n \in 0 .. k.sz
  OBVIOUS
<1>4. Keeper(e) = Keeper(c)
  BY DEF Keeper
<1> HIDE DEF k, t
<1>5. /\ t.sz \in Nat /\ t.d \in Nat /\ t.s \in Nat
      /\ t.d + t.sz = k.d + k.sz /\ t.s + t.sz = k.s + k.sz
  BY <1>1, <1>2, <1>3
<1>6. (e.d = Linear \/ t.d + t.sz <= buf'[e.d].size) /\ (e.s = Linear \/ t.s + t.sz <= buf'[e.s].size)
  BY <1>1, <1>5
<1>7. t = cookie'[Keeper(e)]
  BY <1>4 DEF t
<1>8. t.sz \in Nat /\ t.d \in Nat /\ t.s \in Nat
  BY <1>5
<1> HIDE DEF t
<1> QED
  BY <1>6, <1>7, <1>8 DEF Fits, InChain

(* The others do not notice that copy c ends or is tried. *)
LEMMA EndKeepsFits ==
  ASSUME SgInv, SgData, NEW c \in copies, NEW again \in BOOLEAN, Left(c.s, c.d, again),
         again => \E n \in 0 .. cookie[Keeper(c)].sz : Shifted(c, n),
         \A o \in Buf \ {Keeper(c), c.s} : cookie'[o] = cookie[o],
         \A b \in Buf : buf[b].size \in Nat /\ buf'[b].size = buf[b].size
  PROVE  \A e \in copies' : Fits(e)'
<1> SUFFICES ASSUME NEW e \in copies'
             PROVE  Fits(e)'
  OBVIOUS
<1>1. c \in Copies /\ Fits(c) /\ ~(c.s = Linear /\ c.d = Linear)
  BY DEF SgInv, SgTypeOK, SgData
<1>2. \/ e \in copies /\ e # c
      \/ again /\ e.s = c.s /\ e.d = c.d
  BY DEF Left, Copy
<1>3. CASE e \in copies /\ e # c
  <2>1. e \in Copies /\ Fits(e) /\ ~(e.s = Linear /\ e.d = Linear)
    BY <1>3 DEF SgInv, SgTypeOK, SgData
  <2>2. Keeper(e) # Keeper(c) /\ (c.d # Linear => Keeper(e) # c.s)
    BY <1>3, KeepersDiffer
  <2>3. Keeper(e) \in Buf \ {Keeper(c), c.s}
    <3>1. Keeper(e) \in Buf
      BY <2>1 DEF Copies, Keeper
    <3>2. c.d = Linear => Keeper(c) = c.s
      BY DEF Keeper
    <3> QED
      BY <2>2, <3>1, <3>2
  <2>4. cookie'[Keeper(e)] = cookie[Keeper(e)]
    BY <2>3
  <2>5. \A b \in Buf : buf[b].size \in Nat /\ buf'[b].size \in Nat /\ buf[b].size <= buf'[b].size
    OBVIOUS
  <2> QED
    BY <2>1, <2>4, <2>5, FitKept
<1>4. CASE again /\ e.s = c.s /\ e.d = c.d
  <2>1. PICK n \in 0 .. cookie[Keeper(c)].sz : Shifted(c, n)
    BY <1>4
  <2>2. /\ c.d # Linear => buf[c.d].size \in Nat /\ buf'[c.d].size = buf[c.d].size
        /\ c.s # Linear => buf[c.s].size \in Nat /\ buf'[c.s].size = buf[c.s].size
    BY <1>1 DEF Copies
  <2> QED
    BY <1>1, <1>4, <2>1, <2>2, ShiftFits
<1> QED
  BY <1>2, <1>3, <1>4

(* A chain tracks what a try has written into it. *)
LEMMA TracksSound ==
  ASSUME NEW x \in SgBuffer, x.forDevice, NEW old, Sound(x, old),
         NEW sz \in Nat, NEW d \in Nat, NEW s \in Nat, d + sz <= x.size,
         NEW r, Reached(r, sz, d, s)
  PROVE  /\ TrackedChain(x, d, r.n) \in SgBuffer /\ TrackedChain(x, d, r.n).size = x.size
         /\ Sound(TrackedChain(x, d, r.n),
                  [bytes |-> old.bytes \cup {p[1] : p \in r.moved},
                   rewritten |-> old.rewritten \/ Rewrites(x, d, r.n)])
<1> DEFINE y == TrackedChain(x, d, r.n)
           new == {p[1] : p \in r.moved}
           bytes == old.bytes \cup new
           again == old.rewritten \/ Rewrites(x, d, r.n)
           g == [bytes |-> bytes, rewritten |-> again]
<1>1. r.n \in Nat /\ r.n <= sz /\ Pairs(d, s, r.n) \subseteq r.moved /\ r.moved \subseteq Pairs(d, s, sz)
  BY DEF Reached
<1>2. /\ DOMAIN x = DOMAIN Empty /\ x.chain \in Seq(SgDesc) /\ x.size \in Nat
      /\ IsChain(x.chain) /\ Len(x.chain) \in Nat
  BY BufferFields
<1>3. /\ x.complete /\ Len(x.chain) > 0 /\ x.size = Bytes(x.chain) /\ x.size <= MaxBytes
      /\ old \in Ghost /\ old.bytes \subseteq 0 .. x.size - 1
      /\ x.seenW => x.firstW \in 1 .. Len(x.chain)
      /\ Covered(x, old)
  BY DEF Sound
<1>4. d + r.n <= x.size /\ x.size <= Bytes(x.chain)
  BY <1>1, <1>2, <1>3
<1>5. /\ y = [x EXCEPT !.chain = y.chain] /\ y.chain \in Seq(SgDesc) /\ Len(y.chain) = Len(x.chain)
      /\ \A i \in 1 .. Len(x.chain) : y.chain[i].len = x.chain[i].len
  <2> DEFINE n == r.n
  <2>1. n \in Nat /\ d + n <= x.size
    BY <1>1, <1>4
  <2> HIDE DEF n
  <2>2. /\ TrackedChain(x, d, n) = [x EXCEPT !.chain = TrackedChain(x, d, n).chain]
        /\ TrackedChain(x, d, n).chain \in Seq(SgDesc)
        /\ Len(TrackedChain(x, d, n).chain) = Len(x.chain)
        /\ \A i \in 1 .. Len(x.chain) : TrackedChain(x, d, n).chain[i].len = x.chain[i].len
    BY <1>2, <1>4, <2>1, TracksPrefixes
  <2> QED
    BY <2>2 DEF n
<1>6. d .. d + r.n - 1 \subseteq new
  <2> SUFFICES ASSUME NEW j \in d .. d + r.n - 1
               PROVE  j \in new
    OBVIOUS
  <2>1. j - d \in 0 .. r.n - 1 /\ d + (j - d) = j
    BY <1>1
  <2>2. <<d + (j - d), s + (j - d)>> \in Pairs(d, s, r.n)
    BY <2>1 DEF Pairs
  <2> DEFINE p == <<d + (j - d), s + (j - d)>>
  <2>3. p \in r.moved /\ p[1] = j
    BY <1>1, <2>1, <2>2
  <2> HIDE DEF p
  <2> QED
    BY <2>3
<1>7. new \subseteq 0 .. x.size - 1
  <2> SUFFICES ASSUME NEW p \in r.moved
               PROVE  p[1] \in 0 .. x.size - 1
    OBVIOUS
  <2>1. PICK i \in 0 .. sz - 1 : p = <<d + i, s + i>>
    BY <1>1 DEF Pairs
  <2> QED
    BY <1>2, <2>1
<1> HIDE DEF new
<1>8. old.bytes \subseteq bytes /\ d .. d + r.n - 1 \subseteq bytes /\ bytes \subseteq 0 .. x.size - 1
  BY <1>3, <1>6, <1>7
<1> HIDE DEF bytes
<1>9. g \in Ghost /\ g.bytes = bytes /\ g.rewritten = again /\ Covered(y, g)
  <2>1. again \in BOOLEAN
    BY <1>3 DEF Ghost, Rewrites
  <2> HIDE DEF again
  <2>2. bytes \in SUBSET Nat
    BY <1>2, <1>8
  <2>3. g \in Ghost /\ g.bytes = bytes /\ g.rewritten = again
    BY <2>1, <2>2 DEF Ghost
  <2> HIDE DEF g
  <2>4. old.rewritten \/ Rewrites(x, d, r.n) => g.rewritten
    BY <2>3 DEF again
  <2> QED
    BY <1>1, <1>2, <1>3, <1>4, <1>8, <2>3, <2>4, TracksWritten
<1> HIDE DEF g, again
<1>10. Bytes(y.chain) = Bytes(x.chain)
  BY <1>2, <1>5, StartsSame
<1> HIDE DEF y
<1>11. y \in SgBuffer
  BY <1>5 DEF SgBuffer
<1>12. /\ y.size = x.size /\ y.complete = x.complete /\ y.forDevice = x.forDevice
       /\ y.seenW = x.seenW /\ y.firstW = x.firstW
  BY <1>5 DEF SgBuffer
<1>13. Sound(y, g)
  <2>1. y.size = Bytes(y.chain) /\ y.size <= MaxBytes /\ Len(y.chain) > 0 /\ g.bytes \subseteq 0 .. y.size - 1
    BY <1>3, <1>5, <1>8, <1>9, <1>10, <1>12
  <2>2. y.seenW => y.firstW \in 1 .. Len(y.chain)
    <3> SUFFICES ASSUME y.seenW
                 PROVE  y.firstW \in 1 .. Len(y.chain)
      OBVIOUS
    <3>1. x.firstW \in 1 .. Len(x.chain)
      BY <1>3, <1>12, Zenon
    <3> QED
      BY <1>5, <1>12, <3>1
  <2>3. y.complete /\ y.forDevice
    BY <1>3, <1>12, Zenon
  <2> QED
    BY <1>9, <2>1, <2>2, <2>3, Zenon DEF Sound
<1> QED
  BY <1>11, <1>12, <1>13 DEF y, g, again, bytes, new

LEMMA WroteKeeps ==
  ASSUME SgData, NEW d \in Buf, NEW sz \in Nat, NEW dOff \in Nat, NEW sOff \in Nat,
         dOff + sz <= buf[d].size, NEW r, Reached(r, sz, dOff, sOff), Wrote(d, dOff, r)
  PROVE  /\ buf' \in [Buf -> SgBuffer] /\ written' \in [Buf -> Ghost]
         /\ \A b \in Buf : /\ Sound(buf'[b], written'[b])
                           /\ buf[b].size \in Nat /\ buf'[b].size = buf[b].size
<1>1. /\ buf \in [Buf -> SgBuffer] /\ written \in [Buf -> Ghost]
      /\ \A b \in Buf : Sound(buf[b], written[b]) /\ buf[b].size \in Nat
  BY BufferFields DEF SgData
<1>2. CASE ~buf[d].forDevice
  BY <1>1, <1>2 DEF Wrote
<1>3. CASE buf[d].forDevice
  <2> DEFINE y == TrackedChain(buf[d], dOff, r.n)
             g == [bytes |-> written[d].bytes \cup {p[1] : p \in r.moved},
                   rewritten |-> written[d].rewritten \/ Rewrites(buf[d], dOff, r.n)]
  <2>1. y \in SgBuffer /\ y.size = buf[d].size /\ Sound(y, g)
    BY <1>1, <1>3, TracksSound
  <2>2. buf' = [buf EXCEPT ![d] = y] /\ written' = [written EXCEPT ![d] = g]
    BY <1>3 DEF Wrote
  <2> HIDE DEF y, g
  <2>3. g \in Ghost
    BY <2>1, SoundGhost
  <2>4. buf'[d] = y /\ \A b \in Buf \ {d} : buf'[b] = buf[b]
    BY <1>1, <2>2
  <2>5. written'[d] = g /\ \A b \in Buf \ {d} : written'[b] = written[b]
    BY <1>1, <2>2
  <2>6. buf' \in [Buf -> SgBuffer] /\ written' \in [Buf -> Ghost]
    BY <1>1, <2>1, <2>2, <2>3
  <2> QED
    BY <1>1, <2>1, <2>4, <2>5, <2>6
<1> QED
  BY <1>2, <1>3

(* What the cookie of copy c says of it. *)
LEMMA KeptFits ==
  ASSUME SgInv, SgData, NEW c \in copies
  PROVE  LET k == cookie[Keeper(c)]
         IN  /\ k.sz \in Nat /\ k.d \in Nat /\ k.s \in Nat
             /\ c.d \in Buf => k.d + k.sz <= buf[c.d].size
             /\ c.s \in Buf => k.s + k.sz <= buf[c.s].size
<1>1. Fits(c) /\ Linear \notin Buf
  BY SgAssumption DEF SgData
<1> QED
  BY <1>1 DEF Fits, InChain

LEMMA RecordedShifts ==
  ASSUME NEW k, IsCookie(k), NEW n
  PROVE  LET t == Recorded(k, n)
         IN  t.sz = k.sz - n /\ t.d = k.d + n /\ t.s = k.s + n
BY DEF Recorded, IsCookie

(* A copy ends, or is given up. *)
LEMMA GiveUpKeeps ==
  ASSUME SgInv, SgData, NEW c \in copies, Left(c.s, c.d, FALSE),
         \A o \in Buf \ {Keeper(c), c.s} : cookie'[o] = cookie[o],
         buf' \in [Buf -> SgBuffer], written' \in [Buf -> Ghost],
         \A b \in Buf : /\ Sound(buf'[b], written'[b])
                        /\ buf[b].size \in Nat /\ buf'[b].size = buf[b].size
  PROVE  SgData'
<1>1. \A e \in copies' : Fits(e)'
  BY EndKeepsFits
<1> QED
  BY <1>1 DEF SgData

LEMMA GoesOnKeeps ==
  ASSUME SgInv, SgData, NEW c \in copies, Left(c.s, c.d, TRUE),
         NEW n \in 0 .. cookie[Keeper(c)].sz,
         cookie' = [cookie EXCEPT ![Keeper(c)] = Recorded(@, n)],
         buf' \in [Buf -> SgBuffer], written' \in [Buf -> Ghost],
         \A b \in Buf : /\ Sound(buf'[b], written'[b])
                        /\ buf[b].size \in Nat /\ buf'[b].size = buf[b].size
  PROVE  SgData'
<1>1. Keeper(c) \in Buf /\ DOMAIN cookie = Buf /\ \A b \in Buf : IsCookie(cookie[b])
  BY DEF SgInv, SgTypeOK, Copies, Keeper
<1>2. /\ cookie'[Keeper(c)] = Recorded(cookie[Keeper(c)], n)
      /\ \A o \in Buf \ {Keeper(c), c.s} : cookie'[o] = cookie[o]
  BY <1>1
<1>3. Shifted(c, n)
  BY <1>1, <1>2, RecordedShifts DEF Shifted
<1>4. \A e \in copies' : Fits(e)'
  BY <1>2, <1>3, EndKeepsFits
<1> QED
  BY <1>4 DEF SgData

LEMMA UnchangedSound ==
  ASSUME SgData, UNCHANGED <<buf, written>>
  PROVE  /\ buf' \in [Buf -> SgBuffer] /\ written' \in [Buf -> Ghost]
         /\ \A b \in Buf : /\ Sound(buf'[b], written'[b])
                           /\ buf[b].size \in Nat /\ buf'[b].size = buf[b].size
BY BufferFields DEF SgData

(* try_end_copy_to_sg, and copy_to_sg when it gives up *)
LEMMA EndToSgData ==
  ASSUME SgInv, SgData, NEW s \in Buf, NEW d \in Buf, TryEndToSg(s, d) \/ GiveUpToSg(s, d)
  PROVE  SgData'
<1>1. PICK c \in copies : c.s = s /\ c.d = d
  BY DEF TryEndToSg, GiveUpToSg, Busy, Tired
<1>2. Keeper(c) = d /\ DOMAIN cookie = Buf
  BY <1>1, SgAssumption DEF Keeper, SgInv, SgTypeOK
<1>3. \A n : cookie' = [cookie EXCEPT ![d] = NoCopy, ![s] = n] =>
        \A o \in Buf \ {Keeper(c), c.s} : cookie'[o] = cookie[o]
  BY <1>1, <1>2
<1>4. CASE GiveUpToSg(s, d)
  <2>1. Left(c.s, c.d, FALSE) /\ UNCHANGED <<buf, written>>
    BY <1>1, <1>4 DEF GiveUpToSg, Tired
  <2>2. \A o \in Buf \ {Keeper(c), c.s} : cookie'[o] = cookie[o]
    BY <1>3, <1>4 DEF GiveUpToSg
  <2> QED
    BY <2>1, <2>2, UnchangedSound, GiveUpKeeps
<1>5. CASE TryEndToSg(s, d)
  <2> DEFINE k == cookie[d]
             R(at, ending) == SgImpl(buf[d], buf[s], k.sz, k.d, k.s, at, ending)
  <2>1. PICK at, ending :
          /\ ending \in Ends4
          /\ Wrote(d, k.d, R(at, ending))
          /\ Left(s, d, R(at, ending).err = "AGAIN")
          /\ cookie' = IF R(at, ending).err = "AGAIN"
               THEN [cookie EXCEPT ![d] = Recorded(@, R(at, ending).n)]
               ELSE [cookie EXCEPT ![d] = NoCopy, ![s] = ConcludeSrc(@)]
    BY <1>5 DEF TryEndToSg, Ending, Ends4
  <2> DEFINE r == R(at, ending)
  <2>2. /\ k.sz \in Nat /\ k.d \in Nat /\ k.s \in Nat
        /\ k.d + k.sz <= buf[d].size /\ k.s + k.sz <= buf[s].size
    BY <1>1, <1>2, KeptFits
  <2>3. Reached(r, k.sz, k.d, k.s)
    <3>1. buf[d] \in SgBuffer /\ buf[s] \in SgBuffer
      BY DEF SgData
    <3>2. /\ IsChain(buf[d].chain) /\ buf[d].size \in Nat
          /\ IsChain(buf[s].chain) /\ buf[s].size \in Nat
      BY <3>1, BufferFields
    <3> DEFINE x == buf[d]
               y == buf[s]
               sz == k.sz
               dOff == k.d
               sOff == k.s
    <3> HIDE DEF x, y, sz, dOff, sOff, k
    <3>3. Reached(SgImpl(x, y, sz, dOff, sOff, at, ending), sz, dOff, sOff)
      BY <2>1, <2>2, <3>2, SgMoves DEF x, y, sz, dOff, sOff
    <3> QED
      BY <3>3 DEF x, y, sz, dOff, sOff
  <2>4. /\ Wrote(d, k.d, r) /\ Left(c.s, c.d, r.err = "AGAIN")
        /\ r.err = "AGAIN" => cookie' = [cookie EXCEPT ![d] = Recorded(@, r.n)]
        /\ r.err # "AGAIN" => cookie' = [cookie EXCEPT ![d] = NoCopy, ![s] = ConcludeSrc(@)]
    BY <1>1, <2>1
  <2> HIDE DEF r, k
  <2>5. /\ buf' \in [Buf -> SgBuffer] /\ written' \in [Buf -> Ghost]
        /\ \A b \in Buf : /\ Sound(buf'[b], written'[b])
                          /\ buf[b].size \in Nat /\ buf'[b].size = buf[b].size
    BY <2>2, <2>3, <2>4, WroteKeeps
  <2>6. CASE r.err = "AGAIN"
    <3>1. Left(c.s, c.d, TRUE)
      BY <2>4, <2>6 DEF Left
    <3>2. r.n \in 0 .. cookie[Keeper(c)].sz
      BY <1>2, <2>3 DEF Reached, k
    <3>3. cookie' = [cookie EXCEPT ![Keeper(c)] = Recorded(@, r.n)]
      BY <1>2, <2>4, <2>6
    <3> QED
      BY <2>5, <3>1, <3>2, <3>3, GoesOnKeeps
  <2>7. CASE r.err # "AGAIN"
    <3>1. Left(c.s, c.d, FALSE)
      BY <2>4, <2>7 DEF Left
    <3>2. \A o \in Buf \ {Keeper(c), c.s} : cookie'[o] = cookie[o]
      BY <1>3, <2>4, <2>7
    <3> QED
      BY <2>5, <3>1, <3>2, GiveUpKeeps
  <2> QED
    BY <2>6, <2>7
<1> QED
  BY <1>4, <1>5

(* try_end_copy_to_linear, and copy_to_linear when it gives up *)
LEMMA EndToLinearData ==
  ASSUME SgInv, SgData, NEW s \in Buf, TryEndToLinear(s) \/ GiveUpToLinear(s)
  PROVE  SgData'
<1>1. PICK c \in copies : c.s = s /\ c.d = Linear
  BY DEF TryEndToLinear, GiveUpToLinear, Busy, Tired
<1>2. Keeper(c) = s /\ DOMAIN cookie = Buf
  BY <1>1 DEF Keeper, SgInv, SgTypeOK
<1>3. \A n : cookie' = [cookie EXCEPT ![s] = n] =>
        \A o \in Buf \ {Keeper(c), c.s} : cookie'[o] = cookie[o]
  BY <1>1, <1>2
<1>6. UNCHANGED <<buf, written>>
  BY DEF TryEndToLinear, GiveUpToLinear, Tired
<1>4. CASE GiveUpToLinear(s)
  <2>1. Left(c.s, c.d, FALSE)
    BY <1>1, <1>4 DEF GiveUpToLinear, Tired
  <2>2. \A o \in Buf \ {Keeper(c), c.s} : cookie'[o] = cookie[o]
    BY <1>3, <1>4 DEF GiveUpToLinear
  <2> QED
    BY <1>6, <2>1, <2>2, UnchangedSound, GiveUpKeeps
<1>5. CASE TryEndToLinear(s)
  <2> DEFINE k == cookie[s]
             R(at, ending) == LinearImpl(buf[s], FALSE, k.sz, k.s, k.d, at, ending)
  <2>1. PICK at, ending :
          /\ ending \in Ends4
          /\ Left(s, Linear, R(at, ending).err = "AGAIN")
          /\ cookie' = [cookie EXCEPT ![s] =
               IF R(at, ending).err = "AGAIN" THEN Recorded(@, R(at, ending).n) ELSE ConcludeSrc(@)]
    BY <1>5 DEF TryEndToLinear, Ending, Ends4
  <2> DEFINE r == R(at, ending)
  <2>2. k.sz \in Nat /\ k.d \in Nat /\ k.s \in Nat /\ k.s + k.sz <= buf[s].size
    BY <1>1, <1>2, KeptFits
  <2>3. Reached(r, k.sz, k.d, k.s)
    <3>1. buf[s] \in SgBuffer
      BY DEF SgData
    <3>2. IsChain(buf[s].chain) /\ buf[s].size \in Nat
      BY <3>1, BufferFields
    <3> DEFINE x == buf[s]
               sz == k.sz
               dOff == k.d
               sOff == k.s
    <3> HIDE DEF x, sz, dOff, sOff, k
    <3>3. Reached(LinearImpl(x, FALSE, sz, sOff, dOff, at, ending), sz, dOff, sOff)
      BY <2>1, <2>2, <3>2, LinearMoves DEF x, sz, dOff, sOff
    <3> QED
      BY <3>3 DEF x, sz, dOff, sOff
  <2>4. /\ Left(c.s, c.d, r.err = "AGAIN")
        /\ r.err = "AGAIN" => cookie' = [cookie EXCEPT ![s] = Recorded(@, r.n)]
        /\ r.err # "AGAIN" => cookie' = [cookie EXCEPT ![s] = ConcludeSrc(@)]
    BY <1>1, <2>1
  <2> HIDE DEF r, k
  <2>6. CASE r.err = "AGAIN"
    <3>1. Left(c.s, c.d, TRUE)
      BY <2>4, <2>6 DEF Left
    <3>2. r.n \in 0 .. cookie[Keeper(c)].sz
      BY <1>2, <2>3 DEF Reached, k
    <3>3. cookie' = [cookie EXCEPT ![Keeper(c)] = Recorded(@, r.n)]
      BY <1>2, <2>4, <2>6
    <3> QED
      BY <1>6, <3>1, <3>2, <3>3, UnchangedSound, GoesOnKeeps
  <2>7. CASE r.err # "AGAIN"
    <3>1. Left(c.s, c.d, FALSE)
      BY <2>4, <2>7 DEF Left
    <3>2. \A o \in Buf \ {Keeper(c), c.s} : cookie'[o] = cookie[o]
      BY <1>3, <2>4, <2>7
    <3> QED
      BY <1>6, <3>1, <3>2, UnchangedSound, GiveUpKeeps
  <2> QED
    BY <2>6, <2>7
<1> QED
  BY <1>4, <1>5

(* try_end_copy_from_linear, and copy_from_linear when it gives up *)
LEMMA EndFromLinearData ==
  ASSUME SgInv, SgData, NEW d \in Buf, TryEndFromLinear(d) \/ GiveUpFromLinear(d)
  PROVE  SgData'
<1>1. PICK c \in copies : c.s = Linear /\ c.d = d
  BY DEF TryEndFromLinear, GiveUpFromLinear, Busy, Tired
<1>2. Keeper(c) = d /\ DOMAIN cookie = Buf
  BY <1>1, SgAssumption DEF Keeper, SgInv, SgTypeOK
<1>3. \A n : cookie' = [cookie EXCEPT ![d] = n] =>
        \A o \in Buf \ {Keeper(c), c.s} : cookie'[o] = cookie[o]
  BY <1>1, <1>2
<1>4. CASE GiveUpFromLinear(d)
  <2>1. Left(c.s, c.d, FALSE) /\ UNCHANGED <<buf, written>>
    BY <1>1, <1>4 DEF GiveUpFromLinear, Tired
  <2>2. \A o \in Buf \ {Keeper(c), c.s} : cookie'[o] = cookie[o]
    BY <1>3, <1>4 DEF GiveUpFromLinear
  <2> QED
    BY <2>1, <2>2, UnchangedSound, GiveUpKeeps
<1>5. CASE TryEndFromLinear(d)
  <2> DEFINE k == cookie[d]
             R(at, ending) == LinearImpl(buf[d], TRUE, k.sz, k.d, k.s, at, ending)
  <2>1. PICK at, ending :
          /\ ending \in Ends4
          /\ Wrote(d, k.d, R(at, ending))
          /\ Left(Linear, d, R(at, ending).err = "AGAIN")
          /\ cookie' = [cookie EXCEPT ![d] =
               IF R(at, ending).err = "AGAIN" THEN Recorded(@, R(at, ending).n) ELSE NoCopy]
    BY <1>5 DEF TryEndFromLinear, Ending, Ends4
  <2> DEFINE r == R(at, ending)
  <2>2. k.sz \in Nat /\ k.d \in Nat /\ k.s \in Nat /\ k.d + k.sz <= buf[d].size
    BY <1>1, <1>2, KeptFits
  <2>3. Reached(r, k.sz, k.d, k.s)
    <3>1. buf[d] \in SgBuffer
      BY DEF SgData
    <3>2. IsChain(buf[d].chain) /\ buf[d].size \in Nat
      BY <3>1, BufferFields
    <3> DEFINE x == buf[d]
               sz == k.sz
               dOff == k.d
               sOff == k.s
    <3> HIDE DEF x, sz, dOff, sOff, k
    <3>3. Reached(LinearImpl(x, TRUE, sz, dOff, sOff, at, ending), sz, dOff, sOff)
      BY <2>1, <2>2, <3>2, LinearMoves DEF x, sz, dOff, sOff
    <3> QED
      BY <3>3 DEF x, sz, dOff, sOff
  <2>4. /\ Wrote(d, k.d, r) /\ Left(c.s, c.d, r.err = "AGAIN")
        /\ r.err = "AGAIN" => cookie' = [cookie EXCEPT ![d] = Recorded(@, r.n)]
        /\ r.err # "AGAIN" => cookie' = [cookie EXCEPT ![d] = NoCopy]
    BY <1>1, <2>1
  <2> HIDE DEF r, k
  <2>5. /\ buf' \in [Buf -> SgBuffer] /\ written' \in [Buf -> Ghost]
        /\ \A b \in Buf : /\ Sound(buf'[b], written'[b])
                          /\ buf[b].size \in Nat /\ buf'[b].size = buf[b].size
    BY <2>2, <2>3, <2>4, WroteKeeps
  <2>6. CASE r.err = "AGAIN"
    <3>1. Left(c.s, c.d, TRUE)
      BY <2>4, <2>6 DEF Left
    <3>2. r.n \in 0 .. cookie[Keeper(c)].sz
      BY <1>2, <2>3 DEF Reached, k
    <3>3. cookie' = [cookie EXCEPT ![Keeper(c)] = Recorded(@, r.n)]
      BY <1>2, <2>4, <2>6
    <3> QED
      BY <2>5, <3>1, <3>2, <3>3, GoesOnKeeps
  <2>7. CASE r.err # "AGAIN"
    <3>1. Left(c.s, c.d, FALSE)
      BY <2>4, <2>7 DEF Left
    <3>2. \A o \in Buf \ {Keeper(c), c.s} : cookie'[o] = cookie[o]
      BY <1>3, <2>4, <2>7
    <3> QED
      BY <2>5, <3>1, <3>2, GiveUpKeeps
  <2> QED
    BY <2>6, <2>7
<1> QED
  BY <1>4, <1>5

LEMMA UntouchedData ==
  ASSUME SgData, UNCHANGED sgVars
  PROVE  SgData'
BY DEF sgVars, SgData, Fits, Keeper, InChain

LEMMA SgStart0 == SgInit => SgData
<1> SUFFICES ASSUME SgInit
             PROVE  SgData
  OBVIOUS
<1>1. buf = [b \in Buf |-> Empty] /\ written = [b \in Buf |-> NoBytes] /\ copies = {}
  BY DEF SgInit
<1> QED
  BY <1>1, EmptyIsSound, NothingWritten DEF SgData

LEMMA SgStepKeepsData ==
  ASSUME SgInv, SgData, [SgNext]_sgVars
  PROVE  SgData'
<1>1. ASSUME NEW b \in Buf,
             WalkChain(b) \/ WalkFails(b) \/ AddLink(b) \/ ModifyLink(b) \/ Conclude(b)
      PROVE  SgData'
  BY <1>1, ChainsKeepData
<1>2. ASSUME NEW b \in Buf, StartToLinear(b) \/ StartFromLinear(b)
      PROVE  SgData'
  BY <1>2, StartLinearData
<1>3. ASSUME NEW b \in Buf, TryEndToLinear(b) \/ GiveUpToLinear(b)
      PROVE  SgData'
  BY <1>3, EndToLinearData
<1>4. ASSUME NEW b \in Buf, TryEndFromLinear(b) \/ GiveUpFromLinear(b)
      PROVE  SgData'
  BY <1>4, EndFromLinearData
<1>5. ASSUME NEW s \in Buf, NEW d \in Buf, StartToSg(s, d)
      PROVE  SgData'
  BY <1>5, StartToSgData
<1>6. ASSUME NEW s \in Buf, NEW d \in Buf, TryEndToSg(s, d) \/ GiveUpToSg(s, d)
      PROVE  SgData'
  BY <1>6, EndToSgData
<1>7. CASE UNCHANGED sgVars
  BY <1>7, UntouchedData
<1> QED
  BY <1>1, <1>2, <1>3, <1>4, <1>5, <1>6, <1>7 DEF SgNext

LEMMA SgDataInvariant == SgSpec => [](SgInv /\ SgData)
<1>1. SgInv /\ SgData /\ [SgNext]_sgVars => SgData'
  BY SgStepKeepsData
<1> QED
  BY <1>1, SgStart0, SgInvariant, PTL DEF SgSpec

(* LinearMoves for the two directions a copy runs in to its end: out of a chain
   into linear memory, and from linear memory into a chain. *)
LEMMA MovesFromSg ==
  ASSUME NEW x, IsChain(x.chain), x.size \in Nat, NEW sz \in Nat, NEW d \in Nat, NEW s \in Nat,
         s + sz <= x.size, s + sz <= Bytes(x.chain)
  PROVE  LET r == LinearImpl(x, FALSE, sz, s, d, 0, "NONE")
         IN  (r.n = sz /\ r.moved = Pairs(d, s, sz)) \/ r.err = "PERM"
<1>1. "NONE" \in Ends4
  BY DEF Ends4
<1>2. PICK toSg \in BOOLEAN : toSg = FALSE
  OBVIOUS
<1>3. LET r == LinearImpl(x, toSg, sz, s, d, 0, "NONE")
      IN  /\ Reached(r, sz, d, s)
          /\ 0 = 0 /\ s + sz <= Bytes(x.chain) =>
               \/ r.n = sz /\ r.moved = Pairs(d, s, sz)
               \/ r.err = "PERM"
  BY <1>1, <1>2, LinearMoves, SMTT(60)
<1> QED
  BY <1>2, <1>3

LEMMA MovesToSg ==
  ASSUME NEW x, IsChain(x.chain), x.size \in Nat, NEW sz \in Nat, NEW d \in Nat, NEW s \in Nat,
         d + sz <= x.size, d + sz <= Bytes(x.chain)
  PROVE  LET r == LinearImpl(x, TRUE, sz, d, s, 0, "NONE")
         IN  (r.n = sz /\ r.moved = Pairs(d, s, sz)) \/ r.err = "PERM"
<1>1. "NONE" \in Ends4
  BY DEF Ends4
<1>2. PICK toSg \in BOOLEAN : toSg = TRUE
  OBVIOUS
<1>3. LET r == LinearImpl(x, toSg, sz, d, s, 0, "NONE")
      IN  /\ Reached(r, sz, d, s)
          /\ 0 = 0 /\ d + sz <= Bytes(x.chain) =>
               \/ r.n = sz /\ r.moved = Pairs(d, s, sz)
               \/ r.err = "PERM"
  <2>1. IF toSg THEN d = d /\ s = s ELSE d = s /\ s = d
    BY <1>2
  <2> QED
    BY <1>1, <2>1, LinearMoves
<1> QED
  BY <1>2, <1>3

(* try_end_copy_to_sg_impl and copy_fromto_linear_impl, over chains of any number
   of descriptors of any lengths and from wherever earlier tries have left off: a
   copy that nothing stops moves every byte of the request to its place and no
   other, unless a descriptor of the destination must not be written. *)
THEOREM CopiesMoveEveryByte == SgSpec => []CopyExact
<1>1. SgInv /\ SgData => CopyExact
  <2> SUFFICES ASSUME SgInv, SgData, NEW c \in copies, \A b \in {c.s, c.d} \ {Linear} : Sized(b)
               PROVE  LET k == cookie[IF c.d = Linear THEN c.s ELSE c.d]
                          r == IF c.d = Linear THEN LinearImpl(buf[c.s], FALSE, k.sz, k.s, k.d, 0, "NONE")
                               ELSE IF c.s = Linear
                                 THEN LinearImpl(buf[c.d], TRUE, k.sz, k.d, k.s, 0, "NONE")
                               ELSE SgImpl(buf[c.d], buf[c.s], k.sz, k.d, k.s, 0, "NONE")
                      IN /\ r.n = k.sz /\ r.moved = Pairs(k.d, k.s, k.sz)
                         \/ r.err = "PERM"
    BY DEF CopyExact
  <2> DEFINE k == cookie[IF c.d = Linear THEN c.s ELSE c.d]
             sz == k.sz
             d == k.d
             s == k.s
  <2>1. k = cookie[Keeper(c)]
    BY DEF Keeper
  <2>2. c.s \in Buf \cup {Linear} /\ c.d \in Buf \cup {Linear} /\ ~(c.s = Linear /\ c.d = Linear)
    BY DEF SgInv, SgTypeOK, Copies
  <2>3. /\ sz \in Nat /\ d \in Nat /\ s \in Nat
        /\ c.d \in Buf => d + sz <= buf[c.d].size
        /\ c.s \in Buf => s + sz <= buf[c.s].size
    BY <2>1, KeptFits
  <2>4. ASSUME NEW b \in Buf, b \in {c.s, c.d}
        PROVE  /\ IsChain(buf[b].chain) /\ buf[b].size \in Nat
               /\ buf[b].size <= Bytes(buf[b].chain) /\ Bytes(buf[b].chain) \in Nat
    <3>1. buf[b] \in SgBuffer
      BY DEF SgData
    <3>2. Sized(b)
      BY <2>4, SgAssumption
    <3> QED
      BY <3>1, <3>2, BufferFields DEF Sized
  <2>5. "NONE" \in Ends4
    BY DEF Ends4
  <2> HIDE DEF k
  <2>6. CASE c.d = Linear
    <3>1. c.s \in Buf /\ c.s \in {c.s, c.d}
      BY <2>2, <2>6
    <3> DEFINE x == buf[c.s]
               r == LinearImpl(x, FALSE, sz, s, d, 0, "NONE")
    <3>2. /\ IsChain(x.chain) /\ x.size \in Nat /\ x.size <= Bytes(x.chain)
          /\ s + sz <= x.size /\ s + sz <= Bytes(x.chain)
      BY <2>3, <2>4, <3>1
    <3> HIDE DEF x, sz, d, s
    <3>3. (r.n = sz /\ r.moved = Pairs(d, s, sz)) \/ r.err = "PERM"
      <4>1. sz \in Nat /\ d \in Nat /\ s \in Nat
        BY <2>3
      <4>2. /\ s + sz <= x.size /\ s + sz <= Bytes(x.chain) /\ IsChain(x.chain)
            /\ x.size \in Nat
        BY <3>2
      <4> QED
        BY <4>1, <4>2, MovesFromSg
    <3> QED
      BY <2>6, <3>3 DEF x, sz, d, s, k
  <2>7. CASE c.d # Linear /\ c.s = Linear
    <3>1. c.d \in Buf /\ c.d \in {c.s, c.d}
      BY <2>2, <2>7
    <3> DEFINE x == buf[c.d]
               r == LinearImpl(x, TRUE, sz, d, s, 0, "NONE")
    <3>2. /\ IsChain(x.chain) /\ x.size \in Nat /\ x.size <= Bytes(x.chain)
          /\ d + sz <= x.size /\ d + sz <= Bytes(x.chain)
      BY <2>3, <2>4, <3>1
    <3> HIDE DEF x, sz, d, s
    <3>3. (r.n = sz /\ r.moved = Pairs(d, s, sz)) \/ r.err = "PERM"
      <4>1. sz \in Nat /\ d \in Nat /\ s \in Nat
        BY <2>3
      <4>2. /\ d + sz <= x.size /\ d + sz <= Bytes(x.chain) /\ IsChain(x.chain)
            /\ x.size \in Nat
        BY <3>2
      <4> QED
        BY <4>1, <4>2, MovesToSg
    <3> QED
      BY <2>7, <3>3 DEF x, sz, d, s, k
  <2>8. CASE c.d # Linear /\ c.s # Linear
    <3>1. c.d \in Buf /\ c.s \in Buf
      BY <2>2, <2>8
    <3> DEFINE x == buf[c.d]
               y == buf[c.s]
               r == SgImpl(x, y, sz, d, s, 0, "NONE")
    <3>2. /\ IsChain(x.chain) /\ x.size \in Nat /\ x.size <= Bytes(x.chain)
          /\ d + sz <= x.size /\ d + sz <= Bytes(x.chain)
      BY <2>3, <2>4, <3>1
    <3>3. /\ IsChain(y.chain) /\ y.size \in Nat /\ y.size <= Bytes(y.chain)
          /\ s + sz <= y.size /\ s + sz <= Bytes(y.chain)
      BY <2>3, <2>4, <3>1
    <3> HIDE DEF x, y, sz, d, s
    <3>4. (r.n = sz /\ r.moved = Pairs(d, s, sz)) \/ r.err = "PERM"
      BY <2>3, <2>5, <3>2, <3>3, SgMoves
    <3> QED
      BY <2>8, <3>4 DEF x, y, sz, d, s, k
  <2> QED
    BY <2>6, <2>7, <2>8
<1> QED
  BY <1>1, SgDataInvariant, PTL

(* written_bytes_lowerbound_heuristic, over any sequence of copies that fail, are
   continued and overlap: the used length that goes back to the driver is not more
   than the bytes that were written from the start of the writable part on, or it is
   UINT32_MAX and a copy has ended within what the first writable descriptor had
   tracked. *)
THEOREM UsedLengthIsWritten == SgSpec => []WrittenIsLowerBound
<1>1. SgInv /\ SgData => WrittenIsLowerBound
  <2> SUFFICES ASSUME SgData, NEW b \in Buf, buf[b].forDevice, buf[b].seenW
               PROVE  LET claim == written_bytes_lowerbound(buf[b])
                      IN  claim <= PrefixWritten(b) \/ (written[b].rewritten /\ claim = MaxBytes)
    BY DEF WrittenIsLowerBound
  <2>1. Sound(buf[b], written[b]) /\ buf[b] \in SgBuffer
    BY DEF SgData
  <2>2. /\ buf[b].size = Bytes(buf[b].chain) /\ buf[b].size <= MaxBytes
        /\ written[b].bytes \subseteq 0 .. buf[b].size - 1
        /\ buf[b].firstW \in 1 .. Len(buf[b].chain) /\ Covered(buf[b], written[b])
    BY <2>1 DEF Sound
  <2>3. buf[b].chain \in Seq(SgDesc)
    BY <2>1, BufferFields
  <2> QED
    BY <2>2, <2>3, LowerBound
<1> QED
  BY <1>1, SgDataInvariant, PTL
===============================================================================
