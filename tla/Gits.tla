-------------------------------- MODULE Gits ----------------------------------
(***************************************************************************)
(* The interrupt translation service (Model::Gits).  The guest writes      *)
(* commands into a ring in its memory and kicks the ITS through            *)
(* GITS_CWRITER; the VCPU that traps executes them, one after the other.   *)
(* They fill three tables, in guest memory too: device -> ITT,             *)
(* ITT entry -> (pintid, collection), collection -> VCPU.  Meanwhile       *)
(* devices raise MSIs, and their threads walk the same tables without a    *)
(* lock (handle_msi): each table read is a step of its own.                *)
(*                                                                         *)
(* The guest has one VCPU at a time at the registers of the ITS and gives  *)
(* every device ITTs of its own.                                           *)
(***************************************************************************)
EXTENDS Integers

CONSTANTS
  Dev, Event, Pintid, Icid, Vcpu, \* what commands name
  Itt,          \* addresses of interrupt translation tables: <<device, index>>
  UnbackedItt,  \* those that are not in guest memory
  Gaps,         \* slots of the command queue of which one may not be in memory
  Size,         \* commands in the ring, cbaser_size / COMMAND_SIZE
  InitTarget,   \* the VCPU of each collection
  MaxCommands,  \* bound: commands of the guest
  MaxMsi        \* bound: MSIs of each device

NoItt == <<0, 0>> \* an empty entry of the device table
NoEntry == [pintid |-> 0, icid |-> 0] \* an empty entry of an ITT
NoVcpu == -1      \* the entry of an invalid collection
NoSlot == -1
Slot == 0 .. Size - 1
OwnItt(d) == {k \in Itt : k[1] = d}

ASSUME GitsAssumption ==
  /\ Size \in Nat \ {0, 1} /\ MaxCommands \in Nat /\ MaxMsi \in Nat
  /\ 0 \notin Pintid /\ NoVcpu \notin Vcpu /\ NoItt \notin Itt
  /\ UnbackedItt \subseteq Itt /\ Gaps \subseteq Slot
  /\ InitTarget \in [Icid -> Vcpu]

Command ==
       [op : {"MAPD"}, dev : Dev, itt : Itt \cup {NoItt}]
  \cup [op : {"MAPC"}, icid : Icid, vcpu : Vcpu \cup {NoVcpu}]
  \cup [op : {"MAPTI"}, dev : Dev, event : Event, pintid : Pintid, icid : Icid]
  \cup [op : {"MOVI"}, dev : Dev, event : Event, icid : Icid]
  \cup [op : {"SYNC"}]   \* also INV, INVALL, and INT, which only reads the tables

(* The commands of a guest that gives a device only its own ITTs and, when it
   boots again, a collection the VCPU it had; the ITS asserts that CLEAR, MAPI,
   MOVALL and DISCARD are not among them. *)
Sane(c) == /\ c.op = "MAPD" => c.itt \in OwnItt(c.dev) \cup {NoItt}
           /\ c.op = "MAPC" => c.vcpu \in {InitTarget[c.icid], NoVcpu}

VARIABLES
  enabled,        \* _ctlr, bit 0
  valid,          \* _cbaser, bit 63
  programmed,     \* the tables of which the guest has written the address to _baser
  cwriter,        \* _cwriter; Size stands for every offset beyond the ring
  creadr,         \* _creadr
  stalled,        \* its bit 0
  fetching,       \* fetch_commands runs
  iterations,     \* its local variable max_iterations
  device_table, translation_table, collection_table,
  ring, gap,      \* guest memory: the command queue, the slot that is missing
  tail,           \* where the guest writes its next command
  issued, executed, \* numbers of commands; a reset drops those in the ring
  wild,           \* the guest has written an offset beyond the ring
  msi,            \* the call of handle_msi by each device
  msis,           \* their number
  promise         \* ghost: the mapping that the executed commands ask for, and
                  \* whether they moved interrupts to valid collections only

regVars == <<enabled, valid, programmed, cwriter, creadr, stalled>>
tableVars == <<device_table, translation_table, collection_table>>
guestVars == <<ring, gap, tail, issued, wild>>
msiVars == <<msi, msis>>
gitsVars == <<regVars, fetching, iterations, tableVars, guestVars, executed, msiVars, promise>>

NoMsi == [pc |-> "idle", event |-> 0, itt |-> NoItt, entry |-> NoEntry,
          may |-> {}, sure |-> FALSE]

(* A guest that boots: the registers as reset leaves them, and the collection
   table as it was before. *)
GitsInit ==
  /\ enabled = FALSE /\ valid = FALSE /\ programmed = {}
  /\ cwriter = 0 /\ creadr = 0 /\ stalled = FALSE
  /\ fetching = FALSE /\ iterations = 0
  /\ device_table = [d \in Dev |-> NoItt]
  /\ translation_table = [k \in Itt |-> [e \in Event |-> NoEntry]]
  /\ collection_table = InitTarget
  /\ ring = [s \in Slot |-> [op |-> "SYNC"]] /\ gap \in Gaps \cup {NoSlot}
  /\ tail = 0 /\ issued = 0 /\ executed = 0 /\ wild = FALSE
  /\ msi = [d \in Dev |-> NoMsi] /\ msis = [d \in Dev |-> 0]
  /\ promise = [itt |-> device_table, entry |-> translation_table, lawful |-> TRUE]

-----------------------------------------------------------------------------
(* The tables.  An address that is not in guest memory is read as an empty
   entry, and a write to it is lost; so are those of a table whose address the
   guest has not programmed. *)
ReadDevice(d) == IF "device" \in programmed THEN device_table[d] ELSE NoItt
ReadEntry(k, e) == IF k \in UnbackedItt THEN NoEntry ELSE translation_table[k][e]

(* Mutant: VCPU 0 is taken for an empty entry. *)
MutReadCollection(c) ==
  IF "collection" \in programmed /\ collection_table[c] # 0 THEN collection_table[c] ELSE NoVcpu

ReadCollection(c) == IF "collection" \in programmed THEN collection_table[c] ELSE NoVcpu

WriteDevice(d, k) ==
  device_table' = IF "device" \in programmed THEN [device_table EXCEPT ![d] = k]
                                             ELSE device_table
WriteEntry(k, e, entry) ==
  translation_table' = IF k \in UnbackedItt THEN translation_table
                       ELSE [translation_table EXCEPT ![k][e] = entry]
WriteCollection(c, v) ==
  collection_table' = IF "collection" \in programmed THEN [collection_table EXCEPT ![c] = v]
                                                     ELSE collection_table

Entry(p, c) == [pintid |-> p, icid |-> c]

-----------------------------------------------------------------------------
(* What a translation by the executed commands alone gives: where the ITT of
   the last MAPD maps the event. *)
Promised(pr, d, e) ==
  IF pr.itt[d] \in Itt \ UnbackedItt THEN pr.entry[pr.itt[d]][e] ELSE NoEntry

Keep(c, pr) ==
  CASE c.op = "MAPD" -> [pr EXCEPT !.itt[c.dev] = c.itt]
    [] c.op = "MAPTI" /\ pr.itt[c.dev] # NoItt ->
         [pr EXCEPT !.entry[pr.itt[c.dev]][c.event] = Entry(c.pintid, c.icid)]
    [] c.op = "MOVI" /\ Promised(pr, c.dev, c.event) # NoEntry ->
         [pr EXCEPT !.entry[pr.itt[c.dev]][c.event].icid = c.icid,
                    !.lawful = @ /\ collection_table[c.icid] # NoVcpu]
    [] OTHER -> pr

(* The interrupts an MSI may raise, and whether it has to raise one: a call
   during which the event stays mapped while no collection is invalid. *)
Outcomes(pr, d, e) ==
  IF Promised(pr, d, e) = NoEntry THEN {}
  ELSE {<<Promised(pr, d, e).pintid, InitTarget[Promised(pr, d, e).icid]>>}

Sure(pr, d, e) ==
  /\ programmed = {"device", "collection"}
  /\ Promised(pr, d, e) # NoEntry /\ \A c \in Icid : collection_table[c] # NoVcpu

(* The calls in flight see the effect of a command. *)
Observe(c) ==
  /\ promise' = Keep(c, promise)
  /\ msi' = [d \in Dev |->
       IF msi[d].pc = "idle" THEN msi[d]
       ELSE [msi[d] EXCEPT !.may = @ \cup Outcomes(promise', d, msi[d].event),
                           !.sure = @ /\ Sure(promise', d, msi[d].event)
                                      /\ c.op # "MAPC" /\ (c.op = "MAPD" => c.dev # d)]]

-----------------------------------------------------------------------------
(* handle_command *)
handle_mapd(c) ==
  /\ WriteDevice(c.dev, c.itt)
  /\ UNCHANGED <<translation_table, collection_table>>

handle_mapc(c) ==
  /\ WriteCollection(c.icid, c.vcpu)
  /\ UNCHANGED <<device_table, translation_table>>

handle_mapti(c) ==
  /\ LET k == ReadDevice(c.dev)
     IN  IF k # NoItt THEN WriteEntry(k, c.event, Entry(c.pintid, c.icid))
                      ELSE UNCHANGED translation_table
  /\ UNCHANGED <<device_table, collection_table>>

(* An interrupt whose old and new collection have the same target now stays in
   the old one. *)
handle_movi(c) ==
  /\ LET k == ReadDevice(c.dev)
         old == IF k = NoItt THEN NoEntry ELSE ReadEntry(k, c.event)
     IN  IF old # NoEntry /\ ReadCollection(old.icid) # ReadCollection(c.icid)
         THEN WriteEntry(k, c.event, Entry(old.pintid, c.icid))
         ELSE UNCHANGED translation_table
  /\ UNCHANGED <<device_table, collection_table>>

handle_command(c) ==
  /\ c.op = "MAPD" => handle_mapd(c)
  /\ c.op = "MAPC" => handle_mapc(c)
  /\ c.op = "MAPTI" => handle_mapti(c)
  /\ c.op = "MOVI" => handle_movi(c)
  /\ c.op = "SYNC" => UNCHANGED tableVars

-----------------------------------------------------------------------------
(* The registers *)
Idle == ~fetching

(* The ring holds one command less than it has slots. *)
Issue(c) ==
  /\ Idle /\ valid /\ Sane(c) /\ issued < MaxCommands /\ ~wild
  /\ (tail + 1) % Size # creadr
  /\ ring' = IF tail = gap THEN ring ELSE [ring EXCEPT ![tail] = c]
  /\ tail' = (tail + 1) % Size
  /\ issued' = issued + 1
  /\ UNCHANGED <<regVars, fetching, iterations, tableVars, gap, wild, executed, msiVars, promise>>

WriteCtlr ==
  /\ Idle /\ ~enabled
  /\ enabled' = TRUE
  /\ UNCHANGED <<valid, programmed, cwriter, creadr, stalled, fetching, iterations, tableVars,
                 guestVars, executed, msiVars, promise>>

WriteBaser(table) ==
  /\ Idle /\ ~enabled
  /\ programmed' = programmed \cup {table}
  /\ programmed' # programmed /\ (table = "collection" => "device" \in programmed)
  /\ UNCHANGED <<enabled, valid, cwriter, creadr, stalled, fetching, iterations, tableVars,
                 guestVars, executed, msiVars, promise>>

(* The guest sets up its tables and the queue, which it then uses. *)
WriteCbaser ==
  /\ Idle /\ ~valid /\ programmed = {"device", "collection"}
  /\ valid' = TRUE
  /\ UNCHANGED <<enabled, programmed, cwriter, creadr, stalled, fetching, iterations, tableVars,
                 guestVars, executed, msiVars, promise>>

(* Mutant: only half of the ring is fetched at a time. *)
MutMaxIterations == Size \div 2

MaxIterations == Size

(* A write to GITS_CWRITER fetches if the ITS is on and its queue valid. *)
WriteCwriter(offset) ==
  /\ Idle /\ (offset \in Slot \/ (valid /\ enabled)) /\ cwriter' = offset
  /\ fetching' = (enabled /\ valid)
  /\ iterations' = IF fetching' THEN MaxIterations ELSE iterations
  /\ wild' = (wild \/ offset \notin Slot)
  /\ UNCHANGED <<enabled, valid, programmed, creadr, stalled, tableVars, ring, gap, tail, issued,
                 executed, msiVars, promise>>

Advance(r) == IF r + 1 >= Size THEN 0 ELSE r + 1

(* The condition of the loop: an odd _creadr never equals _cwriter. *)
More == (cwriter # creadr \/ stalled) /\ iterations # 0

(* A command that is not in guest memory stalls the queue for good. *)
Fetch ==
  /\ fetching /\ More
  /\ iterations' = iterations - 1
  /\ IF creadr = gap
     THEN /\ stalled' = TRUE /\ fetching' = FALSE
          /\ UNCHANGED <<creadr, executed, tableVars, msi, promise>>
     ELSE /\ handle_command(ring[creadr]) /\ Observe(ring[creadr])
          /\ creadr' = Advance(creadr) /\ executed' = IF wild THEN executed ELSE executed + 1
          /\ UNCHANGED <<stalled, fetching>>
  /\ UNCHANGED <<enabled, valid, programmed, cwriter, guestVars, msis>>

FetchEnd ==
  /\ fetching /\ ~More
  /\ fetching' = FALSE /\ iterations' = 0
  /\ UNCHANGED <<regVars, tableVars, guestVars, executed, msiVars, promise>>

(* reset keeps _baser, and with it the tables. *)
Reset ==
  /\ Idle /\ (issued > 0 \/ wild)
  /\ enabled' = FALSE /\ valid' = FALSE
  /\ cwriter' = 0 /\ creadr' = 0 /\ stalled' = FALSE
  /\ tail' = 0 /\ wild' = FALSE
  /\ executed' = issued
  /\ UNCHANGED <<programmed, fetching, iterations, tableVars, ring, gap, issued, msiVars, promise>>

-----------------------------------------------------------------------------
(* handle_msi in the thread of device d: three reads, then assert_lpi.  An MSI
   is translated whether or not the ITS is on. *)
ReadDeviceTable(d, e) ==
  /\ msi[d].pc = "idle" /\ msis[d] < MaxMsi
  /\ msis' = [msis EXCEPT ![d] = @ + 1]
  /\ msi' = [msi EXCEPT ![d] =
       IF ReadDevice(d) = NoItt THEN NoMsi
       ELSE [pc |-> "itt", event |-> e, itt |-> ReadDevice(d), entry |-> NoEntry,
             may |-> Outcomes(promise, d, e), sure |-> Sure(promise, d, e)]]
  /\ UNCHANGED <<regVars, fetching, iterations, tableVars, guestVars, executed, promise>>

ReadTranslationTable(d) ==
  /\ msi[d].pc = "itt"
  /\ LET entry == ReadEntry(msi[d].itt, msi[d].event)
     IN  msi' = [msi EXCEPT ![d] = IF entry = NoEntry THEN NoMsi
                                   ELSE [@ EXCEPT !.pc = "collection", !.entry = entry]]
  /\ UNCHANGED <<regVars, fetching, iterations, tableVars, guestVars, executed, msis, promise>>

(* assert_lpi is called unless the collection is invalid. *)
Asserts(d) == msi[d].pc = "collection" /\ ReadCollection(msi[d].entry.icid) # NoVcpu
Asserted(d) == <<msi[d].entry.pintid, ReadCollection(msi[d].entry.icid)>>

ReadCollectionTable(d) ==
  /\ msi[d].pc = "collection"
  /\ msi' = [msi EXCEPT ![d] = NoMsi]
  /\ UNCHANGED <<regVars, fetching, iterations, tableVars, guestVars, executed, msis, promise>>

-----------------------------------------------------------------------------
GitsNext ==
  \/ \E c \in Command : Issue(c)
  \/ WriteCtlr \/ WriteCbaser \/ Fetch \/ FetchEnd \/ Reset
  \/ \E t \in {"device", "collection"} : WriteBaser(t)
  \/ WriteCwriter(tail) \/ WriteCwriter(Size)
  \/ \E d \in Dev : \/ \E e \in Event : ReadDeviceTable(d, e)
                    \/ ReadTranslationTable(d) \/ ReadCollectionTable(d)

GitsSpec == GitsInit /\ [][GitsNext]_gitsVars

-----------------------------------------------------------------------------
(* fetch_commands executes the commands of the ring in turn, none twice and none
   left out, however the ring has wrapped; and a kick that is fetched leaves none
   behind, unless the queue is stalled at a command that is not in memory. *)
CommandsInOrder ==
  /\ [](~wild => /\ (tail - creadr) % Size = issued - executed
                 /\ stalled => creadr = gap)
  /\ [][fetching /\ ~fetching' /\ ~stalled' /\ ~wild => creadr = cwriter]_gitsVars

(* An MSI that races the commands of the guest raises an interrupt that its
   event was mapped to at some time during the call, at a VCPU that this mapping
   named; and it raises one if the event stays mapped, although the guest moves it
   to another collection or maps it again between the reads of the tables.  (An
   interrupt that was moved between two invalid collections stays in the old one
   and is raised where that is mapped later.) *)
MsiTranslated ==
  [][\A d \in Dev : msi[d].pc # "idle" /\ msi'[d].pc = "idle" =>
       /\ Asserts(d) /\ promise.lawful => Asserted(d) \in msi[d].may
       /\ msi[d].sure => Asserts(d)]_gitsVars
===============================================================================
