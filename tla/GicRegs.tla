------------------------------- MODULE GicRegs --------------------------------
(***************************************************************************)
(* How a guest's accesses to the frames of the distributor (GICD) and of   *)
(* its VCPU's redistributor (GICR) reach the interrupts: the decoding of   *)
(* offset and size (IrqMmioAccess), the banked and the shared interrupts   *)
(* behind it (irq_object), and the bits of each.  What an interrupt that   *)
(* turns pending does next is the subject of GicD.                         *)
(*                                                                         *)
(* The value of an access and of a field is the set of its bits that are   *)
(* set.  The registers of GICv2 that affinity routing disables (SGIR,      *)
(* SPENDSGIR, CPENDSGIR) and the read-only identification registers are    *)
(* left out.                                                               *)
(***************************************************************************)
EXTENDS Integers

CONSTANTS
  NumVcpus,
  Configured,  \* configured_irqs()
  Watched,     \* the interrupts that carry configuration in the initial state
  Values,      \* what the guest writes, cut to the size of the access
  Near         \* bound: distances from the ends of a register that it probes

MAX_SGI == 16
MAX_PPI == 16
SPI_BASE == MAX_SGI + MAX_PPI
Owner == 0 .. NumVcpus - 1
Shared == NumVcpus   \* the bank of the shared interrupts
SLEEP_BIT == 2       \* the masks of GICR_WAKER
CHILDREN_ASLEEP_BIT == 4
ARE == 4             \* bits of GICD_CTLR
DS == 6

ASSUME GicRegsAssumption ==
  /\ NumVcpus \in Nat \ {0} /\ Configured \in SPI_BASE + 1 .. 1020
  /\ Watched \subseteq 0 .. Configured - 1 /\ Near \subseteq Nat
  /\ \A x \in Values : x \subseteq 0 .. 31

VARIABLES
  ctlr,     \* the bits of GicD::_ctlr
  waker,    \* those of _waker, of the redistributor of each VCPU
  irq,      \* the bits of each field of Irq that are set: <<bank, number, bit>>
  access    \* the last access of the guest
regsVars == <<ctlr, waker, irq, access>>

Field == {"group1", "enable", "pending", "active", "prio", "target", "edge"}
Width(f) == CASE f \in {"prio", "target"} -> 8 [] f = "edge" -> 2 [] OTHER -> 1

(* irq_object: private interrupts are banked. *)
Bank(v, n) == IF n < SPI_BASE THEN v ELSE Shared

-----------------------------------------------------------------------------
(* The registers of interrupts: the offsets where they start and end, *)
GICD ==
  [ IGROUP |-> <<128, 255>>, ISENABLER |-> <<256, 383>>, ICENABLER |-> <<384, 511>>,
    ISPENDR |-> <<512, 639>>, ICPENDR |-> <<640, 767>>, ISACTIVER |-> <<768, 889>>,
    ICACTIVER |-> <<896, 1023>>, IPRIORITYR |-> <<1024, 2047>>,
    ITARGETSR0 |-> <<2048, 2079>>, ITARGETSR8 |-> <<2080, 3071>>,
    ICFGR0 |-> <<3072, 3075>>, ICFGR1 |-> <<3076, 3079>>, ICFGR |-> <<3080, 3327>> ]

RD == 65536 \* the SGI frame of a redistributor

GICR ==
  [ IGROUP0 |-> <<RD + 128, RD + 131>>, ISENABLER0 |-> <<RD + 256, RD + 259>>,
    ICENABLER0 |-> <<RD + 384, RD + 387>>, ISPENDR0 |-> <<RD + 512, RD + 515>>,
    ICPENDR0 |-> <<RD + 640, RD + 643>>, ISACTIVER0 |-> <<RD + 768, RD + 771>>,
    ICACTIVER0 |-> <<RD + 896, RD + 899>>, IPRIORITYR0 |-> <<RD + 1024, RD + 1055>>,
    ICFGR0 |-> <<RD + 3072, RD + 3075>>, ICFGR1 |-> <<RD + 3076, RD + 3079>> ]

(* and, as mmio_write_32_or_less and GicR::mmio_write tell them apart,
   interrupts per byte, the range of interrupts, their field and what a written
   1 does to it. *)
Register(range, per, type, field, effect) ==
  [first |-> range[1], last |-> range[2],
   per |-> per, type |-> type, field |-> field, effect |-> effect]

Distributor ==
  { Register(GICD.IGROUP,     8, "ALL", "group1",  "store"),
    Register(GICD.ISENABLER,  8, "ALL", "enable",  "set"),
    Register(GICD.ICENABLER,  8, "ALL", "enable",  "clear"),
    Register(GICD.ISPENDR,    8, "ALL", "pending", "set"),
    Register(GICD.ICPENDR,    8, "ALL", "pending", "clear"),
    Register(GICD.ISACTIVER,  8, "ALL", "active",  "set"),
    Register(GICD.ICACTIVER,  8, "ALL", "active",  "clear"),
    Register(GICD.IPRIORITYR, 1, "ALL", "prio",    "store"),
    Register(GICD.ITARGETSR0, 1, "PRIVATE_ONLY", "target", "ignore"),
    Register(GICD.ITARGETSR8, 1, "SPI", "target",  "store"),
    Register(GICD.ICFGR0,     4, "SGI", "edge",    "ignore"),
    Register(GICD.ICFGR1,     4, "PPI", "edge",    "store"),
    Register(GICD.ICFGR,      4, "SPI", "edge",    "store") }

Redistributor ==
  { Register(GICR.IGROUP0,     8, "PRIVATE_ONLY", "group1",  "store"),
    Register(GICR.ISENABLER0,  8, "PRIVATE_ONLY", "enable",  "set"),
    Register(GICR.ICENABLER0,  8, "PRIVATE_ONLY", "enable",  "clear"),
    Register(GICR.ISPENDR0,    8, "PRIVATE_ONLY", "pending", "set"),
    Register(GICR.ICPENDR0,    8, "PRIVATE_ONLY", "pending", "clear"),
    Register(GICR.ISACTIVER0,  8, "PRIVATE_ONLY", "active",  "set"),
    Register(GICR.ICACTIVER0,  8, "PRIVATE_ONLY", "active",  "clear"),
    Register(GICR.IPRIORITYR0, 1, "PRIVATE_ONLY", "prio",    "store"),
    Register(GICR.ICFGR0,      4, "SGI", "edge", "store"),
    Register(GICR.ICFGR1,      4, "PPI", "edge", "store") }

RegistersOf(frame) == IF frame = "GICD" THEN Distributor ELSE Redistributor
RegistersAt(frame, offset) == {r \in RegistersOf(frame) : r.first <= offset /\ offset <= r.last}

-----------------------------------------------------------------------------
(* IrqMmioAccess *)
IrqBase(r) == CASE r.type = "PPI" -> MAX_SGI [] r.type = "SPI" -> SPI_BASE [] OTHER -> 0

(* Mutant: the range of the shared interrupts is taken for that of all. *)
MutIrqMax(r) == CASE r.type = "SGI" -> MAX_SGI
                  [] r.type \in {"PPI", "PRIVATE_ONLY"} -> SPI_BASE
                  [] r.type = "SPI" -> Configured - SPI_BASE
                  [] OTHER -> Configured

IrqMax(r) == CASE r.type = "SGI" -> MAX_SGI
               [] r.type \in {"PPI", "PRIVATE_ONLY"} -> SPI_BASE
               [] OTHER -> Configured

first_irq_accessed(r, offset) == (offset - r.first) * r.per + IrqBase(r)

num_irqs(r, offset, bytes) ==
  LET first == first_irq_accessed(r, offset)
      n == bytes * r.per
  IN  IF first >= IrqMax(r) THEN 0
      ELSE IF first + n > IrqMax(r) THEN IrqMax(r) - first ELSE n

(* The positions in the value of an access, with the interrupt and the bit of
   its field that each stands for. *)
Positions(r, offset, bytes) ==
  {p \in 0 .. 8 * bytes - 1 : p \div Width(r.field) < num_irqs(r, offset, bytes)}
IrqAt(r, offset, p) == first_irq_accessed(r, offset) + p \div Width(r.field)
BitAt(r, v, offset, p) == <<Bank(v, IrqAt(r, offset, p)), IrqAt(r, offset, p), p % Width(r.field)>>

(* set_encoded_edge and edge_encoded know one of the two bits of a field. *)
Kept(r, p) == r.field = "edge" => p % 2 = 1

(* "SGIs are WI": their bits of a write to the first offset of GICD_ISPENDR and
   GICD_ICPENDR are dropped. *)
Dropped(frame, r, offset) ==
  IF frame = "GICD" /\ r.field = "pending" /\ offset = r.first THEN 0 .. MAX_SGI - 1 ELSE {}

-----------------------------------------------------------------------------
(* Accesses *)
NoAccess == [kind |-> "none", frame |-> "GICD", vcpu |-> 0, offset |-> 0, bytes |-> 1, value |-> {}]
Access(kind, frame, v, offset, bytes, x) ==
  [kind |-> kind, frame |-> frame, vcpu |-> v, offset |-> offset, bytes |-> bytes, value |-> x]

(* mmio_write: what GIC accepts. *)
Allowed(frame, r) == frame = "GICR" /\ r.field = "pending" => ARE \in ctlr

(* write, change_target and mmio_assert: a field is stored, or its 1s are set
   or cleared. *)
WriteIrqs(frame, v, r, offset, bytes, x) ==
  LET hit == {p \in Positions(r, offset, bytes) : Kept(r, p)}
      ones == {BitAt(r, v, offset, p) : p \in hit \cap (x \ Dropped(frame, r, offset))}
      all == {BitAt(r, v, offset, p) : p \in hit}
  IN  irq' = [irq EXCEPT ![r.field] =
                CASE r.effect = "store" -> (@ \ all) \cup ones
                  [] r.effect = "set" -> @ \cup ones
                  [] r.effect = "clear" -> @ \ ones
                  [] r.effect = "ignore" -> @]

(* The assertion in assert_pi_sw: without affinity routing no SGI gets there. *)
AssertHolds(frame, v, r, offset, bytes, x) ==
  r.field # "pending" \/ ARE \in ctlr \/
    \A p \in Positions(r, offset, bytes) \cap (x \ Dropped(frame, r, offset)) :
      IrqAt(r, offset, p) >= MAX_SGI

Write(frame, v, offset, bytes, x) ==
  /\ access = NoAccess
  /\ \E r \in RegistersAt(frame, offset) :
       /\ AssertHolds(frame, v, r, offset, bytes, x)
       /\ IF Allowed(frame, r) THEN WriteIrqs(frame, v, r, offset, bytes, x) ELSE UNCHANGED irq
  /\ access' = Access("irq", frame, v, offset, bytes, x)
  /\ UNCHANGED <<ctlr, waker>>

(* write_register: the accessed bytes of old become those of x, then the bits
   that are fixed.  A write beyond the end is refused. *)
Fits(first, last, offset, bytes) ==
  first <= offset /\ offset <= last /\ bytes <= 4 /\ offset + bytes <= last + 1
write_register(old, first, offset, bytes, x, fixed_clear, fixed_set) ==
  LET base == 8 * (offset - first)
      window == base .. base + 8 * bytes - 1
  IN  (((old \ window) \cup {base + p : p \in x \cap 0 .. 8 * bytes - 1}) \ fixed_clear)
        \cup fixed_set

WriteCtlrD(v, offset, bytes, x) ==
  /\ access = NoAccess /\ Fits(0, 3, offset, bytes)
  /\ ctlr' = write_register(ctlr, 0, offset, bytes, x, 0 .. 31 \ {0, 1, ARE}, {DS})
  /\ access' = Access("ctlr", "GICD", v, offset, bytes, x)
  /\ UNCHANGED <<waker, irq>>

(* GICR_WAKER, whose masks serve as shift counts; the scan that a write of
   ProcessorSleep starts is WriteWaker of GicD. *)
WriteWakerR(v, offset, bytes, x) ==
  /\ access = NoAccess /\ Fits(20, 23, offset, bytes)
  /\ LET sleeping == 1 \in x
         new_w == IF sleeping THEN {CHILDREN_ASLEEP_BIT, SLEEP_BIT} ELSE {}
     IN  waker' = [waker EXCEPT ![v] =
                     write_register(@, 20, offset, bytes, new_w, 0 .. 31 \ {1, 2}, {})]
  /\ access' = Access("waker", "GICR", v, offset, bytes, x)
  /\ UNCHANGED <<ctlr, irq>>

(* mmio_read: all of them can be read, the set and the clear register of a field
   alike, *)
ReadableD == Distributor
ReadableR == Redistributor
Readable(frame) == IF frame = "GICD" THEN ReadableD ELSE ReadableR

(* by position. *)
ReadBits(frame, v, r, offset, bytes) ==
  {p \in Positions(r, offset, bytes) : BitAt(r, v, offset, p) \in irq[r.field]}

(* Irq::reset of all interrupts: everything is off, the target of an SPI is
   VCPU 0, and what the guest has set pending stays so (_sw_asserted). *)
ResetIrq(f) ==
  CASE f = "pending" -> irq[f]
    [] f = "target" -> {Shared} \X (SPI_BASE .. Configured - 1) \X {0}
    [] OTHER -> {}

(* GicD::reset, which enables the SGIs. *)
ResetD ==
  /\ access = NoAccess
  /\ ctlr' = {}
  /\ irq' = [f \in Field |->
       ResetIrq(f) \cup (IF f = "enable" THEN Owner \X (0 .. MAX_SGI - 1) \X {0} ELSE {})]
  /\ access' = [NoAccess EXCEPT !.kind = "reset"]
  /\ UNCHANGED waker

-----------------------------------------------------------------------------
(* A guest that has configured every other bit of the watched interrupts, or
   none; with and without affinity routing. *)
Marked(f) ==
  {<<Bank(v, n), n, b>> : v \in Owner, n \in {m \in Watched : m % 3 # 0},
                          b \in {k \in 0 .. Width(f) - 1 : f = "edge" => k = 1}}

RegsInit ==
  /\ ctlr \in {{DS, 1}, {DS, 1, ARE}}
  /\ waker = [v \in Owner |-> {1, 2}]
  /\ irq \in {[f \in Field |-> {}], [f \in Field |-> Marked(f)]}
  /\ access = NoAccess

Probes(frame) ==
  UNION {{r.first + d : d \in {e \in Near : r.first + e <= r.last}}
           \cup {r.last - d : d \in {e \in Near : r.first + e <= r.last}} : r \in RegistersOf(frame)}

Cut(x, bytes) == x \cap 0 .. 8 * bytes - 1

RegsNext ==
  \/ \E frame \in {"GICD", "GICR"}, v \in Owner, bytes \in {1, 2, 4}, x \in Values :
       \/ \E offset \in Probes(frame) :
            offset % bytes = 0 /\ Write(frame, v, offset, bytes, Cut(x, bytes))
       \/ \E offset \in 0 .. 3 :
            WriteCtlrD(v, offset, bytes, Cut(x, bytes)) \/ WriteWakerR(v, 20 + offset, bytes, Cut(x, bytes))
  \/ ResetD

RegsSpec == RegsInit /\ [][RegsNext]_regsVars

-----------------------------------------------------------------------------
(* The architecture's view: in each register, the field of interrupt n lies at
   bit n * width, counted from the register's offset for interrupt 0. *)
Architecture(frame) ==
  LET base == IF frame = "GICD" THEN 0 ELSE RD
      Reg(o, f, e) == [first |-> base + o, field |-> f, effect |-> e]
  IN  { Reg(128, "group1", "store"), Reg(256, "enable", "set"), Reg(384, "enable", "clear"),
        Reg(512, "pending", "set"), Reg(640, "pending", "clear"), Reg(768, "active", "set"),
        Reg(896, "active", "clear"), Reg(1024, "prio", "store"), Reg(3072, "edge", "store") }
      \cup (IF frame = "GICD" THEN {Reg(2048, "target", "store")} ELSE {})

Number(frame) == IF frame = "GICD" THEN 0 .. Configured - 1 ELSE 0 .. SPI_BASE - 1
Place(a, n, b) == 8 * a.first + n * Width(a.field) + b
Extent(a, frame) == a.first .. a.first + ((IF frame = "GICD" THEN 1024 ELSE 32) * Width(a.field)) \div 8 - 1
Hit(a, acc, n, b) == Place(a, n, b) \in 8 * acc.offset .. 8 * (acc.offset + acc.bytes) - 1
Ones(a, acc, n, b) == Place(a, n, b) - 8 * acc.offset \in acc.value
BitsOf(f) == IF f = "edge" THEN {1} ELSE 0 .. Width(f) - 1

(* Read-only for the guest: the trigger of an SGI and the target of a private
   interrupt in the distributor, and there, at the first offset, the pending bit
   of an SGI. *)
ReadOnly(a, acc, n) ==
  acc.frame = "GICD" /\ \/ a.field = "edge" /\ n < MAX_SGI
                        \/ a.field = "target" /\ n < SPI_BASE
                        \/ a.field = "pending" /\ n < MAX_SGI /\ acc.offset = a.first

(* Two holes of the code, which the README describes: GICD_ISACTIVER ends at the
   wrong offset, and GICR_IS/ICPENDR0 are refused without affinity routing. *)
Hole(a, acc) ==
  \/ acc.frame = "GICD" /\ a.field = "active" /\ a.effect = "set" /\ acc.offset > 889
  \/ acc.frame = "GICR" /\ a.field = "pending" /\ ARE \notin ctlr

(* The registers of field f that an access acts on, and the bits in its bytes. *)
Acted(f, acc) ==
  {a \in Architecture(acc.frame) :
     a.field = f /\ acc.offset \in Extent(a, acc.frame) /\ ~Hole(a, acc)}
Touched(f, acc) ==
  UNION {{<<Bank(acc.vcpu, n), n, b>> :
            n \in {m \in Number(acc.frame) : ~ReadOnly(a, acc, m) /\ Hit(a, acc, m, b)}} :
           a \in Acted(f, acc), b \in BitsOf(f)}

(* An access of any size at any offset changes the fields whose bits lie in the
   accessed bytes, those of the VCPU that makes the access if the interrupt is
   private, and nothing else: no neighbour, no bank of another VCPU, no interrupt
   beyond the configured ones. *)
OwnFieldsOnly ==
  \A f \in Field : access'.kind = "irq" =>
    /\ (irq[f] \ irq'[f]) \cup (irq'[f] \ irq[f]) \subseteq Touched(f, access')
    /\ \A a \in Acted(f, access'), c \in Touched(f, access') :
         LET one == Ones(a, access', c[2], c[3])
         IN  c \in irq'[f] <=> \/ one /\ a.effect # "clear"
                               \/ c \in irq[f] /\ ~one /\ a.effect # "store"
                               \/ c \in irq[f] /\ one /\ a.effect = "set"
WritesOwnFields == [][OwnFieldsOnly]_regsVars

(* A guest reads back what its interrupts are configured to, through either
   frame and through the set and the clear register of a field alike. *)
ReadsBack ==
  access.kind = "irq" =>
    \A frame \in {"GICD", "GICR"} : \A r \in Readable(frame) :
      LET offset == r.first + (access.offset % 4)
          a == CHOOSE b \in Architecture(frame) :
                 b.field = r.field /\ offset \in Extent(b, frame)
          acc == [access EXCEPT !.offset = offset, !.frame = frame]
      IN  ReadBits(frame, access.vcpu, r, offset, access.bytes) =
            {Place(a, c[2], c[3]) - 8 * offset :
               c \in {d \in irq[r.field] : d[1] \in {access.vcpu, Shared} /\ d[2] \in Number(frame)
                                           /\ Hit(a, acc, d[2], d[3])}}

(* Both: what a guest has written to the frames is what its interrupts are
   configured to, and what it reads. *)
FramesExact == []ReadsBack /\ WritesOwnFields
===============================================================================
