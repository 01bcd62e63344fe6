------------------------------ MODULE SeqQueue ------------------------------
(***************************************************************************)
(* The ring buffer of the virtual UART (SeqQueue): a write index, a read   *)
(* index that equals the capacity when the queue is empty, and a capacity  *)
(* that a reset may change.  A queue is a record; an operation is a        *)
(* function of it.  Its abstraction, the sequence Contents(q), is what     *)
(* Fifo specifies.                                                         *)
(***************************************************************************)
EXTENDS Integers, Sequences

CONSTANTS FIFO_MAX_SIZE,  \* size of _data
          Nul             \* what _data holds at first

ASSUME FifoAssumption == FIFO_MAX_SIZE \in Nat \ {0}

(* reset: empty, with a new capacity. *)
reset(q, new_cap) == [q EXCEPT !.cap = new_cap, !.widx = 0, !.ridx = new_cap]

reset_maximize_capacity(q) == reset(q, FIFO_MAX_SIZE)

InitQueue == [widx |-> 0, ridx |-> 1, cap |-> 1,
              data |-> [k \in 0 .. FIFO_MAX_SIZE - 1 |-> Nul]]

is_empty(q) == q.ridx = q.cap

is_full(q) == q.widx = q.ridx

cur_size(q) == CASE is_empty(q) -> 0
                 [] is_full(q) -> q.cap
                 [] OTHER -> ((q.widx + q.cap) - q.ridx) % q.cap

(* enqueue: the caller also learns whether the queue had room. *)
enqueue(q, c) ==
  IF is_full(q) THEN q
  ELSE [q EXCEPT !.data[q.widx] = c,
                 !.widx = (@ + 1) % q.cap,
                 !.ridx = IF is_empty(q) THEN 0 ELSE @]

(* Mutant: the queue that runs empty keeps its indices. *)
MutDequeue(q) == [q EXCEPT !.ridx = (@ + 1) % q.cap]

(* dequeue, of a queue that is not empty: an index that meets the write index
   empties the queue. *)
dequeue(q) ==
  LET ridx == (q.ridx + 1) % q.cap
  IN  IF ridx = q.widx THEN [q EXCEPT !.widx = 0, !.ridx = q.cap]
                       ELSE [q EXCEPT !.ridx = ridx]

(* The elements of the queue, oldest first. *)
Contents(q) == [k \in 1 .. cur_size(q) |-> q.data[(q.ridx + k - 1) % q.cap]]

=============================================================================
