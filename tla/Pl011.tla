-------------------------------- MODULE Pl011 --------------------------------
(***************************************************************************)
(* The virtual UART (Model::Pl011).  The guest reads and writes its        *)
(* registers, a thread of the VMM sends characters to the guest (to_guest) *)
(* and the VM may be reset.  Every access and every attempt of to_guest to *)
(* write holds _state_lock for its whole length, so each is one action.    *)
(* The errors, speeds and modem lines that the device does not emulate and *)
(* the registers that only return what was written are left out.           *)
(***************************************************************************)
EXTENDS SeqQueue

CONSTANTS
  Char,      \* characters sent to the guest
  Watermark, \* levels of the transmit FIFO that UARTIFLS selects
  InitWatermark,
  Sbsa       \* _sbsa_uart

ASSUME WatermarkAssumption == /\ Watermark \subseteq Nat /\ InitWatermark \in Watermark
                              /\ Sbsa \in BOOLEAN

CrBit == {"UARTEN", "TXE", "RXE"}
Irq == {"RX", "TX"}

VARIABLES
  rx_fifo,      \* _rx_fifo
  tx_fifo,      \* _tx_fifo
  cr,           \* _cr: the bits that are set
  imsc,         \* _imsc: RXIM, TXIM
  ris,          \* _ris: RXRIS, TXRIS
  ifls,         \* the watermark that _ifls selects for transmission
  rx_disabled,  \* _rx_irq_disabled_by_icr (its twin for TX is never read)
  line,         \* external: the line of _irq_id at the interrupt controller
  space_sig,    \* signal: _sig_notify_empty_space
  producer      \* where the caller of to_guest is

queues == <<rx_fifo, tx_fifo>>
irqVars == <<imsc, ris, ifls, rx_disabled, line>>
uartVars == <<queues, irqVars, cr, space_sig, producer>>

ResetCr == {"RXE", "TXE"} \cup (IF Sbsa THEN {"UARTEN"} ELSE {})

UartInit ==
  /\ rx_fifo = InitQueue /\ tx_fifo = InitQueue
  /\ cr = ResetCr
  /\ imsc = {} /\ ris = {} /\ ifls = InitWatermark
  /\ rx_disabled = FALSE
  /\ line = FALSE
  /\ space_sig = TRUE
  /\ producer = "idle"

-----------------------------------------------------------------------------
can_tx == {"UARTEN", "TXE"} \subseteq cr
can_rx == {"UARTEN", "RXE"} \subseteq cr
wait_to_receive == is_full(rx_fifo) \/ ~can_rx

rx_irq_cond == cur_size(rx_fifo) > 0
tx_irq_cond == cur_size(tx_fifo) <= ifls

is_irq_asserted == ris \cap imsc # {}

(* set_rxris, set_txris: a raw status that is cleared may be set again. *)
set_rxris(b) == /\ ris' = IF b THEN ris \cup {"RX"} ELSE ris \ {"RX"}
                /\ rx_disabled' = (b /\ rx_disabled)
set_txris(b) == ris' = IF b THEN ris \cup {"TX"} ELSE ris \ {"TX"}

(* updated_irq_lvl_to_gicd_if_needed *)
update_line == line' = IF is_irq_asserted # is_irq_asserted' THEN is_irq_asserted' ELSE line

-----------------------------------------------------------------------------
(* to_guest: while (!write_to_rx_queue(c)) wait_for_available_buffer(); *)

CallToGuest ==
  /\ producer = "idle"
  /\ producer' = "write"
  /\ UNCHANGED <<queues, irqVars, cr, space_sig>>

WriteToRxQueue ==
  /\ producer = "write"
  /\ ~wait_to_receive
  /\ \E c \in Char : rx_fifo' = enqueue(rx_fifo, c)
  /\ UNCHANGED <<tx_fifo, cr, imsc, ifls, space_sig>>
  /\ \/ /\ ~rx_disabled
        /\ set_rxris(TRUE)
        /\ update_line
     \/ rx_disabled /\ UNCHANGED <<ris, rx_disabled, line>>
  /\ producer' = "idle"

FindNoSpace ==
  /\ producer = "write"
  /\ wait_to_receive
  /\ producer' = "wait"
  /\ UNCHANGED <<queues, irqVars, cr, space_sig>>

WaitForAvailableBuffer ==
  /\ producer = "wait"
  /\ space_sig
  /\ space_sig' = FALSE
  /\ producer' = "write"
  /\ UNCHANGED <<queues, irqVars, cr>>

-----------------------------------------------------------------------------
(* Reads and writes of the guest.  Reads of other registers change nothing. *)

(* Mutant: the producer is told when the queue is empty, not when it has
   room again. *)
MutReadDR ==
  /\ ~is_empty(rx_fifo) /\ can_rx
  /\ rx_fifo' = dequeue(rx_fifo)
  /\ space_sig' = (space_sig \/ is_empty(rx_fifo'))
  /\ \/ ~rx_irq_cond' /\ set_rxris(FALSE) /\ line' = FALSE
     \/ rx_irq_cond' /\ UNCHANGED <<ris, rx_disabled, line>>
  /\ UNCHANGED <<tx_fifo, cr, imsc, ifls, producer>>

(* Mutant: the status is cleared though characters remain. *)
MutReadClears ==
  /\ ~is_empty(rx_fifo) /\ can_rx
  /\ rx_fifo' = dequeue(rx_fifo)
  /\ space_sig' = (space_sig \/ is_full(rx_fifo))
  /\ set_rxris(FALSE) /\ line' = FALSE
  /\ UNCHANGED <<tx_fifo, cr, imsc, ifls, producer>>

(* UARTDR: a read that empties the FIFO clears the status and the line; one
   that makes room wakes the producer. *)
ReadDR ==
  /\ ~is_empty(rx_fifo) /\ can_rx
  /\ rx_fifo' = dequeue(rx_fifo)
  /\ space_sig' = (space_sig \/ is_full(rx_fifo))
  /\ \/ ~rx_irq_cond' /\ set_rxris(FALSE) /\ line' = FALSE
     \/ rx_irq_cond' /\ UNCHANGED <<ris, rx_disabled, line>>
  /\ UNCHANGED <<tx_fifo, cr, imsc, ifls, producer>>

(* mmio_write_dr: sent at once if transmission is enabled, else queued.  Only
   the number of queued characters matters to what follows, so all are Nul. *)
WriteDR ==
  /\ "UARTEN" \in cr
  /\ \/ can_tx /\ UNCHANGED tx_fifo
     \/ ~can_tx /\ tx_fifo' = enqueue(tx_fifo, Nul)
  /\ UNCHANGED <<rx_fifo, cr, imsc, ifls, rx_disabled, space_sig, producer>>
  /\ set_txris(tx_irq_cond')
  /\ update_line

(* UARTLCR_H: the FIFOs are enabled or disabled, and emptied. *)
WriteLCR_H ==
  /\ \E fen \in BOOLEAN :
       LET resize(q) == IF fen THEN reset_maximize_capacity(q) ELSE reset(q, 1)
       IN  rx_fifo' = resize(rx_fifo) /\ tx_fifo' = resize(tx_fifo)
  /\ UNCHANGED <<irqVars, cr, space_sig, producer>>

(* mmio_write_cr: what was queued is sent when transmission is enabled. *)
WriteCR ==
  /\ cr' \in SUBSET CrBit
  /\ space_sig' = (space_sig \/ (~can_rx /\ can_rx'))
  /\ IF ~can_tx /\ can_tx'
     THEN /\ tx_fifo' = reset(tx_fifo, tx_fifo.cap)
          /\ IF tx_irq_cond THEN UNCHANGED ris ELSE set_txris(TRUE)
     ELSE UNCHANGED <<tx_fifo, ris>>
  /\ UNCHANGED <<rx_fifo, imsc, ifls, rx_disabled, producer>>
  /\ update_line

(* mmio_write_ifls.  The code takes the old condition of the receive side
   from the transmit FIFO. *)
WriteIFLS ==
  /\ ifls' \in Watermark
  /\ UNCHANGED <<queues, cr, imsc, space_sig, producer>>
  /\ LET old_tx_cond == tx_irq_cond
         old_rx_cond == tx_irq_cond
         tx == CASE ~tx_irq_cond' -> {}
                 [] tx_irq_cond' /\ ~old_tx_cond -> {"TX"}
                 [] OTHER -> ris \cap {"TX"}
         rx == CASE ~rx_irq_cond -> {}
                 [] rx_irq_cond /\ ~old_rx_cond -> {"RX"}
                 [] OTHER -> ris \cap {"RX"}
     IN  ris' = tx \cup rx
  /\ rx_disabled' = (rx_irq_cond /\ rx_disabled)
  /\ update_line

(* UARTIMSC *)
WriteIMSC ==
  /\ imsc' \in SUBSET Irq
  /\ UNCHANGED <<ris, ifls, rx_disabled>>
  /\ update_line
  /\ UNCHANGED <<queues, cr, space_sig, producer>>

(* mmio_write_icr *)
WriteICR ==
  /\ \E clear \in SUBSET Irq :
       /\ ris' = ris \ clear
       /\ rx_disabled' = (rx_disabled \/ "RX" \in clear \cap ris)
  /\ UNCHANGED <<imsc, ifls>>
  /\ update_line
  /\ UNCHANGED <<queues, cr, space_sig, producer>>

(* reset(): neither the transmit FIFO nor the line is touched. *)
Reset ==
  /\ rx_fifo' = reset(rx_fifo, 1)
  /\ cr' = ResetCr
  /\ imsc' = {} /\ ris' = {} /\ ifls' = InitWatermark
  /\ rx_disabled' = FALSE
  /\ space_sig' = TRUE
  /\ UNCHANGED <<tx_fifo, line, producer>>

Guest == \/ ReadDR \/ WriteDR \/ WriteLCR_H \/ WriteCR \/ WriteIFLS
         \/ WriteIMSC \/ WriteICR

Producer == CallToGuest \/ WriteToRxQueue \/ FindNoSpace \/ WaitForAvailableBuffer

UartNext == Guest \/ Producer \/ Reset

UartSpec == UartInit /\ [][UartNext]_uartVars

-----------------------------------------------------------------------------
(* Properties *)

(* No character waits unseen: if the receive FIFO holds one, its raw status
   is set, or the guest has cleared it by UARTICR since the last read of
   UARTDR that emptied the FIFO, write of UARTIFLS that found it empty, or
   reset.  A write of UARTLCR_H that empties it is none of these: the flag
   survives it, so a character that comes after it may wait without status
   though the guest has cleared nothing since the FIFO was empty. *)
RxNotLost == ~is_empty(rx_fifo) => "RX" \in ris \/ rx_disabled

(* A producer sleeps in to_guest only while there is no room for it, or its
   wakeup is pending; but for the FIFO that a write of UARTLCR_H emptied
   under it, which wakes nobody. *)
ProducerNotStuck ==
  producer = "wait" /\ ~wait_to_receive => space_sig \/ is_empty(rx_fifo)

(* The receive path is a queue of characters. *)
Rx == INSTANCE Fifo WITH q <- Contents(rx_fifo), Max <- FIFO_MAX_SIZE
ImplementsFifo == Rx!Spec

=============================================================================
