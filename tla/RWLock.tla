------------------------------- MODULE RWLock -------------------------------
(***************************************************************************)
(* The readers-writer lock of the POSIX platform (Platform::RWLock): a     *)
(* mutex that every entry goes through and that a writer keeps, a word     *)
(* that counts the readers in steps of two and holds the writer in bit 0,  *)
(* and a flag with a condition variable by which the last reader to leave  *)
(* lets a waiting writer in.                                               *)
(***************************************************************************)
EXTENDS Integers, FiniteSets

CONSTANTS
  Thread,     \* the threads that use the lock
  None        \* no thread

ASSUME ThreadAssumption == IsFiniteSet(Thread) /\ None \notin Thread

VARIABLES
  rq,             \* the holder of _rq, or None
  rw,             \* _rw
  rwlock_signal,  \* _rwlock_signal
  lpc             \* where each thread is in the calls of the lock

lockVars == <<rq, rw, rwlock_signal, lpc>>

LockLabel == {"out",
              "r_add", "r_exit", "reader", "r_signal",
              "w_or", "w_wait", "w_clear", "writer", "w_exit"}

LockInit ==
  /\ rq = None
  /\ rw = 0
  /\ rwlock_signal = FALSE
  /\ lpc = [t \in Thread |-> "out"]

LockGoto(t, label) == lpc' = [lpc EXCEPT ![t] = label]

(* Mutex::enter on _rq; both renter and wenter begin with it. *)
EnterRq(t, label) ==
  /\ lpc[t] = "out" /\ rq = None
  /\ rq' = t
  /\ LockGoto(t, label)
  /\ UNCHANGED <<rw, rwlock_signal>>

ExitRq(t, label) ==
  /\ rq' = None
  /\ LockGoto(t, label)
  /\ UNCHANGED <<rw, rwlock_signal>>

-----------------------------------------------------------------------------
(* renter: _rq.enter(); _rw += 2; _rq.exit() *)

renter(t) == EnterRq(t, "r_add")

ReaderAdd(t) ==
  /\ lpc[t] = "r_add"
  /\ rw' = rw + 2
  /\ LockGoto(t, "r_exit")
  /\ UNCHANGED <<rq, rwlock_signal>>

ReaderExitRq(t) == lpc[t] = "r_exit" /\ ExitRq(t, "reader")

(* rexit: the reader that leaves only the writer's bit behind signals. *)
rexit(t) ==
  /\ lpc[t] = "reader"
  /\ rw' = rw - 2
  /\ LockGoto(t, IF rw' = 1 THEN "r_signal" ELSE "out")
  /\ UNCHANGED <<rq, rwlock_signal>>

ReaderSignal(t) ==
  /\ lpc[t] = "r_signal"
  /\ rwlock_signal' = TRUE
  /\ LockGoto(t, "out")
  /\ UNCHANGED <<rq, rw>>

-----------------------------------------------------------------------------
(* wenter keeps _rq; (_rw |= 1) >> 1 is the number of readers inside. *)

wenter(t) == EnterRq(t, "w_or")

SetWriterBit == IF rw % 2 = 0 THEN rw + 1 ELSE rw

MutWriterOr(t) ==
  /\ lpc[t] = "w_or"
  /\ rw' = SetWriterBit
  /\ LockGoto(t, IF rw' > 3 THEN "w_wait" ELSE "writer")
  /\ UNCHANGED <<rq, rwlock_signal>>

WriterOr(t) ==
  /\ lpc[t] = "w_or"
  /\ rw' = SetWriterBit
  /\ LockGoto(t, IF rw' > 1 THEN "w_wait" ELSE "writer")
  /\ UNCHANGED <<rq, rwlock_signal>>

(* The condition variable: the predicate is tested under _m, under which the
   signal is given, so a wait ends exactly when the flag is set. *)
WriterWait(t) ==
  /\ lpc[t] = "w_wait" /\ rwlock_signal
  /\ LockGoto(t, "w_clear")
  /\ UNCHANGED <<rq, rw, rwlock_signal>>

WriterClear(t) ==
  /\ lpc[t] = "w_clear"
  /\ rwlock_signal' = FALSE
  /\ LockGoto(t, "writer")
  /\ UNCHANGED <<rq, rw>>

(* wexit: _rw = 0; _rq.exit() *)
wexit(t) ==
  /\ lpc[t] = "writer"
  /\ rw' = 0
  /\ LockGoto(t, "w_exit")
  /\ UNCHANGED <<rq, rwlock_signal>>

WriterExitRq(t) == lpc[t] = "w_exit" /\ ExitRq(t, "out")

-----------------------------------------------------------------------------
(* The steps a thread takes on its own once it has called; renter, wenter,
   rexit and wexit are taken by the code that uses the lock. *)
LockStep(t) ==
  \/ ReaderAdd(t) \/ ReaderExitRq(t) \/ ReaderSignal(t)
  \/ WriterOr(t) \/ WriterWait(t) \/ WriterClear(t) \/ WriterExitRq(t)

LockNext ==
  \E t \in Thread : renter(t) \/ rexit(t) \/ wenter(t) \/ wexit(t) \/ LockStep(t)

LockSpec == LockInit /\ [][LockNext]_lockVars

-----------------------------------------------------------------------------
Reading(t) == lpc[t] \in {"r_exit", "reader"}
Writing(t) == lpc[t] = "writer"

(* From the return of wenter to the call of wexit a writer is alone: no
   thread is between renter and rexit and no other writer is inside. *)
Exclusion ==
  \A t, u \in Thread : Writing(t) /\ t # u => ~Reading(u) /\ ~Writing(u)
=============================================================================
