------------------------------ MODULE PipeByte ------------------------------
(***************************************************************************)
(* The one-byte-per-call pipe device of char_driver/pipe-byte.             *)
(*                                                                         *)
(* A device is a ring of max_pipe_size bytes with a write pointer wp, a    *)
(* read pointer rp, a count buffer_size, a semaphore sem and two wait      *)
(* queues.  Every open file is a process here.  A process is preempted     *)
(* between any two steps below; inside the semaphore only the steps that   *)
(* another process can tell apart are kept separate.                       *)
(*                                                                         *)
(* Pointers are offsets from buffer; NULL is the offset 0 of a device that *)
(* is not allocated.  A byte is named by its position in the sequence of   *)
(* writes since the pipe was last trimmed, so the ring holds write numbers *)
(* and 0 is a byte never written.                                          *)
(***************************************************************************)
EXTENDS Kernel

CONSTANTS
  max_pipe_size,  (* bytes in the ring, MAX_BUFFER_SIZE in header.h        *)
  MaxWritten      (* bound: no write starts once this many were stored     *)

ASSUME PipeAssumption ==
  /\ max_pipe_size \in Nat \ {0, 1}
  /\ MaxWritten \in Nat

VARIABLES
  allocated,    (* buffer # NULL                                           *)
  ring,         (* the bytes at buffer                                     *)
  wp, rp,       (* write and read pointers                                 *)
  buffer_size,  (* the number of unread bytes, as the device counts them   *)
  num_bytes,    (* write_pipe's local copy of buffer_size                  *)
  written,      (* history: bytes stored since the last trim               *)
  taken,        (* history: bytes handed out since the last trim           *)
  last,         (* history: the byte handed out last, 0 for none           *)
  clean         (* history: since the last trim no write found the ring    *)
                (* full and no read found it empty                         *)

device  == <<allocated, ring, wp, rp, buffer_size>>
history == <<written, taken, last, clean>>
vars    == <<pc, sem, device, num_bytes, signalled, signals, history>>

(* Bytes the ring really uses: open_pipe sets end one short of the buffer. *)
Capacity == max_pipe_size - 1

(* A system call returns, and write_pipe's local goes out of scope.        *)
Leave(p) ==
  /\ Delivered(p)
  /\ num_bytes' = [num_bytes EXCEPT ![p] = 0]

DownInterruptible(p, from, to) ==
  /\ Down(p, from, to)
  /\ UNCHANGED <<device, num_bytes, history>>

DownFails(p, from, to) ==
  /\ Interrupted(p, from, to)
  /\ Leave(p)
  /\ UNCHANGED <<device, history>>

-----------------------------------------------------------------------------
(* open_pipe.  A writer empties the device and gets a fresh buffer; a      *)
(* reader only stores private_data.                                        *)

OpenForWrite(w) ==
  /\ Move(w, "closed", "open_sem")
  /\ UNCHANGED <<sem, device, num_bytes, signalled, signals, history>>

OpenForRead(r) ==
  /\ Move(r, "closed", "idle")
  /\ UNCHANGED <<sem, device, num_bytes, signalled, signals, history>>

(* Seeded bug: the read pointer keeps its old offset.                      *)
ResetWritePointerOnly == wp' = 0 /\ UNCHANGED rp

ResetPointers == wp' = 0 /\ rp' = 0

trim_pipe ==
  /\ allocated' = FALSE
  /\ ring' = [i \in 0 .. max_pipe_size - 1 |-> 0]
  /\ ResetPointers
  /\ buffer_size' = 0
  /\ written' = 0
  /\ taken' = 0
  /\ last' = 0
  /\ clean' = TRUE

OpenTrim(w) ==
  /\ Move(w, "open_trim", "open_create")
  /\ trim_pipe
  /\ UNCHANGED <<sem, num_bytes, signalled, signals>>

(* kmalloc may fail: the open then fails and leaves the device without a   *)
(* buffer, also for the files opened before.                               *)
OpenCreate(w) ==
  \E ok \in BOOLEAN :
    /\ Move(w, "open_create", IF ok THEN "idle" ELSE "closed")
    /\ allocated' = ok
    /\ up
    /\ Leave(w)
    /\ UNCHANGED <<ring, wp, rp, buffer_size, history>>

close_pipe(p) ==
  /\ Move(p, "idle", "closed")
  /\ UNCHANGED <<sem, device, num_bytes, signalled, signals, history>>

-----------------------------------------------------------------------------
(* write_pipe                                                              *)

end == IF allocated THEN Capacity ELSE 0

(* Seeded bug: > for >=.                                                   *)
WrappedLate(pointer) == IF pointer > end THEN 0 ELSE pointer

Wrapped(pointer) == IF pointer >= end THEN 0 ELSE pointer

(* Seeded bugs: a pointer that stays, and one that goes the wrong way.     *)
Kept(pointer) == pointer
Retreated(pointer) == pointer - 1

Advanced(pointer) == pointer + 1

WriteStart(w) ==
  /\ written < MaxWritten
  /\ Move(w, "idle", "w_wait")
  /\ num_bytes' = [num_bytes EXCEPT ![w] = buffer_size]
  /\ UNCHANGED <<sem, device, signalled, signals, history>>

(* Seeded bug: <= for <.                                                   *)
HasRoomWhenFull(w) == num_bytes[w] <= max_pipe_size

(* The wait's condition reads the local copy, never buffer_size.           *)
HasRoom(w) == num_bytes[w] < max_pipe_size

(* wait_event_interruptible ends when the condition holds or a signal is   *)
(* pending; write_pipe does not look at which.                             *)
WriteWait(w) ==
  /\ Move(w, "w_wait", IF HasRoom(w) \/ w \in signalled THEN "w_sem" ELSE "w_sleep")
  /\ UNCHANGED <<sem, device, num_bytes, signalled, signals, history>>

(* Without a buffer wp is NULL: nothing is stored and the failed copy is   *)
(* only logged.                                                            *)
WriteCopy(w) ==
  /\ Move(w, "w_copy", "w_up")
  /\ wp' = Wrapped(wp)
  /\ ring' = IF allocated THEN [ring EXCEPT ![wp'] = written + 1] ELSE ring
  /\ clean' = (clean /\ allocated /\ buffer_size < Capacity)
  /\ UNCHANGED <<sem, allocated, rp, buffer_size, num_bytes, signalled, signals,
                 written, taken, last>>

WriteAdvance(w) ==
  /\ Move(w, "w_up", "w_wake")
  /\ wp' = Advanced(wp)
  /\ buffer_size' = buffer_size + 1
  /\ written' = written + 1
  /\ up
  /\ UNCHANGED <<allocated, ring, rp, num_bytes, signalled, signals, taken, last, clean>>

WriteWake(w) ==
  /\ pc[w] = "w_wake"
  /\ pc' = [Woken(Readers) EXCEPT ![w] = "idle"]
  /\ Leave(w)
  /\ UNCHANGED <<sem, device, history>>

-----------------------------------------------------------------------------
(* read_pipe                                                               *)

ReadStart(r) ==
  /\ Move(r, "idle", "r_wait")
  /\ UNCHANGED <<sem, device, num_bytes, signalled, signals, history>>

(* Seeded bug: the count itself is the condition, and it may be negative.  *)
HasDataWhenNonzero == buffer_size # 0

HasData == buffer_size > 0

ReadWait(r) ==
  /\ Move(r, "r_wait", IF HasData \/ r \in signalled THEN "r_sem" ELSE "r_sleep")
  /\ UNCHANGED <<sem, device, num_bytes, signalled, signals, history>>

(* buffer_size is not looked at again under the semaphore.                 *)
ReadCopy(r) ==
  /\ Move(r, "r_copy", "r_up")
  /\ rp' = Wrapped(rp)
  /\ last' = IF allocated THEN ring[rp'] ELSE last
  /\ clean' = (clean /\ allocated /\ buffer_size > 0)
  /\ UNCHANGED <<sem, allocated, ring, wp, buffer_size, num_bytes, signalled, signals,
                 written, taken>>

ReadAdvance(r) ==
  /\ Move(r, "r_up", "r_wake")
  /\ rp' = Advanced(rp)
  /\ buffer_size' = buffer_size - 1
  /\ taken' = taken + 1
  /\ up
  /\ UNCHANGED <<allocated, ring, wp, num_bytes, signalled, signals, written, last, clean>>

ReadWake(r) ==
  /\ pc[r] = "r_wake"
  /\ pc' = [Woken(Writers) EXCEPT ![r] = "idle"]
  /\ Leave(r)
  /\ UNCHANGED <<sem, device, history>>

-----------------------------------------------------------------------------
SignalArrives(p) == Signal(p) /\ UNCHANGED <<device, num_bytes, history>>

init_func ==
  /\ pc = [p \in Procs |-> "closed"]
  /\ sem = 1
  /\ allocated = FALSE
  /\ ring = [i \in 0 .. max_pipe_size - 1 |-> 0]
  /\ wp = 0
  /\ rp = 0
  /\ buffer_size = 0
  /\ num_bytes = [p \in Procs |-> 0]
  /\ signalled = {}
  /\ signals = 0
  /\ written = 0
  /\ taken = 0
  /\ last = 0
  /\ clean = TRUE

Init == init_func

WriterDown(w) ==
  \/ DownInterruptible(w, "open_sem", "open_trim")
  \/ DownInterruptible(w, "w_sem", "w_copy")

WriterDownFails(w) ==
  \/ DownFails(w, "open_sem", "closed")
  \/ DownFails(w, "w_sem", "idle")

WriterRuns(w) ==
  \/ WriterDownFails(w)
  \/ OpenTrim(w)
  \/ OpenCreate(w)
  \/ WriteWait(w)
  \/ WriteCopy(w)
  \/ WriteAdvance(w)
  \/ WriteWake(w)

ReaderDown(r) == DownInterruptible(r, "r_sem", "r_copy")

ReaderRuns(r) ==
  \/ DownFails(r, "r_sem", "idle")
  \/ ReadWait(r)
  \/ ReadCopy(r)
  \/ ReadAdvance(r)
  \/ ReadWake(r)

Writer(w) == OpenForWrite(w) \/ close_pipe(w) \/ WriteStart(w) \/ WriterDown(w) \/ WriterRuns(w)

Reader(r) == OpenForRead(r) \/ close_pipe(r) \/ ReadStart(r) \/ ReaderDown(r) \/ ReaderRuns(r)

Next ==
  \/ \E w \in Writers : Writer(w)
  \/ \E r \in Readers : Reader(r)
  \/ \E p \in Procs : SignalArrives(p)

Spec == Init /\ [][Next]_vars

-----------------------------------------------------------------------------

WriterPC == {"closed", "open_sem", "open_trim", "open_create", "idle",
             "w_wait", "w_sleep", "w_sem", "w_copy", "w_up", "w_wake"}
ReaderPC == {"closed", "idle", "r_wait", "r_sleep", "r_sem", "r_copy", "r_up", "r_wake"}

ControlOK ==
  /\ pc \in [Procs -> WriterPC \cup ReaderPC]
  /\ \A w \in Writers : pc[w] \in WriterPC
  /\ \A r \in Readers : pc[r] \in ReaderPC

(* Every variable has its type; the counters are integers of either sign.  *)
TypeOK ==
  /\ ControlOK
  /\ sem \in {0, 1}
  /\ allocated \in BOOLEAN
  /\ ring \in [0 .. max_pipe_size - 1 -> Nat]
  /\ wp \in Nat
  /\ rp \in Nat
  /\ buffer_size \in Int
  /\ num_bytes \in [Procs -> Int]
  /\ signalled \subseteq Procs
  /\ signals \in Nat
  /\ written \in Nat
  /\ taken \in Nat
  /\ last \in Nat
  /\ clean \in BOOLEAN

Holding(p) ==
  pc[p] \in {"open_trim", "open_create", "w_copy", "w_up", "r_copy", "r_up"}

(* The semaphore is free exactly when nobody is inside it, on every return *)
(* path of open_pipe, write_pipe and read_pipe, and one process at most is *)
(* inside.                                                                 *)
SemExclusive ==
  /\ sem = 1 <=> \A p \in Procs : ~Holding(p)
  /\ \A p, q \in Procs : Holding(p) /\ Holding(q) => p = q

(* Whatever the count says after races and signals, a pointer never passes *)
(* end and a byte is only stored or fetched strictly before it.            *)
PointersInRing ==
  allocated =>
    /\ wp \in 0 .. end
    /\ rp \in 0 .. end
    /\ \A w \in Writers : pc[w] = "w_up" => wp < end
    /\ \A r \in Readers : pc[r] = "r_up" => rp < end

(* As long as no write found the ring full and no read found it empty      *)
(* since the last trim, the ring holds the unread bytes, oldest first from *)
(* rp on, and wp is the slot behind the newest.                            *)
Fold(offset) == IF offset >= Capacity THEN offset - Capacity ELSE offset

(* Under the semaphore a byte may be stored and not counted yet.           *)
Stored == IF \E w \in Writers : pc[w] = "w_up" THEN buffer_size + 1 ELSE buffer_size

RingHoldsUnread ==
  allocated /\ clean =>
    /\ buffer_size \in 0 .. Capacity
    /\ Fold(wp) = Fold(Fold(rp) + buffer_size)
    /\ \A i \in 0 .. Stored - 1 : ring[Fold(Fold(rp) + i)] = taken + 1 + i

(* Until a write finds the ring full or a read finds it empty, readers get *)
(* the bytes in the order of the writes, each one once.                    *)
DeliversOldest ==
  clean /\ (\A r \in Readers : pc[r] # "r_up") => last = taken

(* The strengthening that makes the three facts above inductive: a device  *)
(* being opened is pristine, the count is the difference of the histories, *)
(* and clean says what it means inside the semaphore too.                  *)
Pristine ==
  /\ wp = 0 /\ rp = 0 /\ buffer_size = 0
  /\ written = 0 /\ taken = 0 /\ last = 0

OpeningIsPristine == \A w \in Writers : pc[w] = "open_create" => Pristine /\ ~allocated

CountsAgree == buffer_size = written - taken

CleanInside ==
  clean =>
    /\ ~allocated => Pristine
    /\ \A w \in Writers : pc[w] = "w_up" => allocated /\ buffer_size < Capacity
    /\ \A r \in Readers : pc[r] = "r_up" =>
          allocated /\ buffer_size > 0 /\ last = taken + 1

RingInv ==
  /\ OpeningIsPristine
  /\ CountsAgree
  /\ CleanInside
  /\ PointersInRing
  /\ RingHoldsUnread
  /\ DeliversOldest

(* The unread bytes: from rp on, without the one that a reader has but did *)
(* not count yet, and with the one that a writer stored.                   *)
Handed == IF \E r \in Readers : pc[r] = "r_up" THEN 1 ELSE 0

Unread ==
  IF clean
  THEN [i \in 1 .. Stored - Handed |-> ring[Fold(Fold(rp) + Handed + i - 1)]]
  ELSE <<>>

Puts == IF clean THEN taken + Stored ELSE 0

Pipe == INSTANCE BoundedPipe
  WITH size <- Capacity, queue <- Unread, puts <- Puts,
       got <- IF clean THEN last ELSE 0, broken <- ~clean

(* Split into steps and interleaved, with failed opens and signals, the    *)
(* calls implement the pipe: a byte goes in when it is stored and comes    *)
(* out when it is copied, and only a write into the full ring or a read    *)
(* from the empty one ends that, until the next trim.                      *)
ImplementsPipe == Pipe!Spec

(* A writer whose sample allows it to go on, or that a signal will free.   *)
Admitted(w) ==
  /\ pc[w] \in {"w_wait", "w_sleep", "w_sem", "w_copy", "w_up"}
  /\ HasRoom(w) \/ w \in signalled

AdmittedSet == {w \in Writers : Admitted(w)}

(* write_pipe checks for room before it takes the semaphore and never      *)
(* again, so writers admitted together overrun the count - but by no more  *)
(* than one byte each, and one for every signal that freed a sleeper.      *)
OverrunBound ==
  buffer_size + Cardinality(AdmittedSet)
    <= max_pipe_size - 1 + Cardinality(Writers) + signals

(* What makes the bound inductive: nobody reaches the copy unadmitted, and *)
(* no signal outlives the call it interrupted.                             *)
EntryOK(w) ==
  /\ pc[w] \in {"w_sem", "w_copy", "w_up"} => Admitted(w)
  /\ w \in signalled => pc[w] \notin {"closed", "idle"}

AdmissionInv == OverrunBound /\ \A w \in Writers : EntryOK(w)

(* A reader that saw data, or that a signal will free.                     *)
Claimed(r) ==
  \/ pc[r] \in {"r_sem", "r_copy", "r_up"}
  \/ pc[r] \in {"r_wait", "r_sleep"} /\ r \in signalled

ClaimedSet == {r \in Readers : Claimed(r)}

(* read_pipe has the same gap, and an open for writing may empty the pipe  *)
(* inside it: the count goes negative by at most one for every reader and  *)
(* every signal.                                                           *)
UnderrunBound ==
  buffer_size - Cardinality(ClaimedSet)
    >= -(Cardinality(Readers) + signals)

(* A writer sleeps only while its sample refuses it and no signal is       *)
(* pending, a reader only while there is no signal and no data, or data    *)
(* that a writer counted and is about to wake it for.                      *)
NoLostWakeup ==
  /\ \A w \in Writers : pc[w] = "w_sleep" => ~Admitted(w)
  /\ \A r \in Readers : pc[r] = "r_sleep" =>
       /\ r \notin signalled
       /\ HasData => \E w \in Writers : pc[w] = "w_wake"
=============================================================================
