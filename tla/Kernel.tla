------------------------------- MODULE Kernel -------------------------------
(***************************************************************************)
(* What the character drivers use of the kernel: one semaphore, wait       *)
(* queues and signals, for processes that have the device open.  None of   *)
(* it is code of the repository; it is modelled from the calls the drivers *)
(* make.                                                                   *)
(*                                                                         *)
(* A process in a wait_event_interruptible is at x_wait when it is about   *)
(* to evaluate the condition and at x_sleep when it is on the queue.       *)
(***************************************************************************)
EXTENDS Integers, FiniteSets

CONSTANTS
  Writers,     (* files opened O_WRONLY                                    *)
  Readers,     (* files opened O_RDONLY                                    *)
  MaxSignals   (* bound: signals delivered to blocked processes            *)

ASSUME KernelAssumption ==
  /\ IsFiniteSet(Writers)
  /\ IsFiniteSet(Readers)
  /\ Writers \cap Readers = {}
  /\ MaxSignals \in Nat

VARIABLES
  pc,          (* where each process is                                    *)
  sem,         (* the semaphore's count                                    *)
  signalled,   (* processes with a signal pending                          *)
  signals      (* signals delivered so far                                 *)

Procs == Writers \cup Readers

Move(p, from, to) == pc[p] = from /\ pc' = [pc EXCEPT ![p] = to]

(* down_interruptible takes a free semaphore at once, whatever signals are *)
(* pending; it fails only when it would have to wait.                      *)
Down(p, from, to) ==
  /\ sem = 1
  /\ sem' = 0
  /\ Move(p, from, to)
  /\ UNCHANGED <<signalled, signals>>

Interrupted(p, from, to) ==
  /\ sem = 0
  /\ p \in signalled
  /\ Move(p, from, to)
  /\ UNCHANGED sem

(* Seeded bug: a return path without up.                                   *)
UpForgotten == sem' = sem

up == sem' = 1

(* On the way back to the program a pending signal is delivered.           *)
Delivered(p) == signalled' = signalled \ {p} /\ UNCHANGED signals

Resumed(state) ==
  CASE state = "w_sleep" -> "w_wait"
    [] state = "r_sleep" -> "r_wait"
    [] OTHER -> state

(* Seeded bug: the queue is not woken.                                     *)
NobodyWoken(queue) == pc

(* wake_up_interruptible makes every sleeper evaluate its condition again. *)
Woken(queue) == [p \in Procs |-> IF p \in queue THEN Resumed(pc[p]) ELSE pc[p]]

Blocking == {"open_sem", "w_wait", "w_sleep", "w_sem", "r_wait", "r_sleep", "r_sem", "seek_sem"}

(* A signal reaches a process that is blocked or about to block.           *)
Signal(p) ==
  /\ signals < MaxSignals
  /\ pc[p] \in Blocking
  /\ p \notin signalled
  /\ signalled' = signalled \cup {p}
  /\ signals' = signals + 1
  /\ pc' = [pc EXCEPT ![p] = Resumed(pc[p])]
  /\ UNCHANGED sem
=============================================================================
