----------------------------- MODULE PipeMulti -----------------------------
(***************************************************************************)
(* The pipe device of char_driver/pipe-multibyte: one call moves up to     *)
(* count bytes, in two parts when they pass the end of the ring.           *)
(*                                                                         *)
(* Every open file is a process.  Pointers are offsets from buffer and may *)
(* leave the ring, because the code lets them; NULL is the offset 0 of a   *)
(* device without a buffer.  A byte is named by its position in the stream *)
(* that the writers queued, and 0 is a byte never stored.  num_writer and  *)
(* num_reader are only ever logged and are left out.                       *)
(***************************************************************************)
EXTENDS Kernel

CONSTANTS
  max_pipe_size,  (* bytes in the ring                                     *)
  Counts,         (* the sizes programs ask for                            *)
  MaxWritten,     (* bound: no write starts once this many were queued     *)
  MaxFaults       (* bound: copies that fail on a bad user address         *)

ASSUME PipeMultiAssumption ==
  /\ max_pipe_size \in Nat \ {0}
  /\ Counts \subseteq Nat \ {0}
  /\ MaxWritten \in Nat
  /\ MaxFaults \in Nat

VARIABLES
  allocated,    (* buffer # NULL                                           *)
  ring,         (* the bytes at buffer                                     *)
  wp, rp,       (* write and read pointers                                 *)
  buffer_size,  (* unread bytes, as the device counts them                 *)
  num_bytes,    (* local: write_pipe's sample of buffer_size, then the     *)
                (* length of the part before end                           *)
  wrapped,      (* local: wbtw or wbtr, the length of the part behind end  *)
  faults,       (* failed copies so far                                    *)
  written,      (* history: bytes queued                                   *)
  taken,        (* history: bytes that reads returned                      *)
  last,         (* history: the byte returned last                         *)
  clean,        (* history: no call was split around end                   *)
  torn          (* history: since the last wakeup a write failed after     *)
                (* queueing its first part                                 *)

device  == <<allocated, ring, wp, rp, buffer_size>>
locals  == <<num_bytes, wrapped>>
history == <<written, taken, last, clean, torn>>
vars    == <<pc, sem, device, locals, signalled, signals, faults, history>>

Leave(p) ==
  /\ Delivered(p)
  /\ num_bytes' = [num_bytes EXCEPT ![p] = 0]
  /\ wrapped' = [wrapped EXCEPT ![p] = 0]

Stay == UNCHANGED <<signalled, signals, locals>>

DownInterruptible(p, from, to) ==
  /\ Down(p, from, to)
  /\ UNCHANGED <<device, locals, faults, history>>

DownFails(p, from, to) ==
  /\ Interrupted(p, from, to)
  /\ Leave(p)
  /\ UNCHANGED <<device, faults, history>>

-----------------------------------------------------------------------------
(* open_pipe and close_pipe.                                               *)

OpenStart(p) ==
  /\ Move(p, "closed", "open_sem")
  /\ Stay
  /\ UNCHANGED <<sem, device, faults, history>>

OpenForRead(r) ==
  /\ Move(r, "open", "idle")
  /\ Leave(r)
  /\ up
  /\ UNCHANGED <<device, faults, history>>

(* Only the first open for writing allocates, and kmalloc may fail.        *)
OpenForWrite(w) ==
  /\ Leave(w)
  /\ up
  /\ \/ /\ Move(w, "open", "idle")
        /\ allocated' = TRUE
     \/ /\ Move(w, "open", "closed")
        /\ ~allocated
        /\ UNCHANGED allocated
  /\ wp' = IF allocated THEN wp ELSE 0
  /\ rp' = IF allocated THEN rp ELSE 0
  /\ UNCHANGED <<ring, buffer_size, faults, history>>

close_pipe(p) ==
  /\ Move(p, "idle", "closed")
  /\ Stay
  /\ UNCHANGED <<sem, device, faults, history>>

-----------------------------------------------------------------------------
(* What both directions share.                                             *)

end == IF allocated THEN max_pipe_size ELSE 0

Slot(pointer) == IF pointer >= end THEN 0 ELSE pointer

Splits(pointer, n) == pointer + n > end

(* The part before end; negative when the pointer has left the ring.       *)
FirstPart(pointer, n) == IF Splits(pointer, n) THEN end - pointer ELSE n

(* After the first part the call goes on behind end, or is done.           *)
Copied(p, first, rest, from, more, done) ==
  /\ \/ rest > 0 /\ Move(p, from, more) /\ UNCHANGED sem
     \/ rest = 0 /\ Move(p, from, done) /\ up
  /\ num_bytes' = [num_bytes EXCEPT ![p] = first]
  /\ wrapped' = [wrapped EXCEPT ![p] = rest]
  /\ UNCHANGED <<signalled, signals, faults>>

(* A failed copy: only a copy of some bytes can fail.                      *)
Fault(p, from, n) ==
  /\ n > 0
  /\ faults < MaxFaults
  /\ faults' = faults + 1
  /\ Move(p, from, "idle")
  /\ Leave(p)
  /\ up

-----------------------------------------------------------------------------
(* write_pipe                                                              *)

WriteStart(w) ==
  /\ written < MaxWritten
  /\ Move(w, "idle", "w_wait")
  /\ num_bytes' = [num_bytes EXCEPT ![w] = buffer_size]
  /\ UNCHANGED <<sem, device, wrapped, signalled, signals, faults, history>>

(* The condition reads the local copy, also after a wakeup.                *)
HasRoom(w) == num_bytes[w] < max_pipe_size

WriteWait(w) ==
  /\ Move(w, "w_wait", IF HasRoom(w) \/ w \in signalled THEN "w_sem" ELSE "w_sleep")
  /\ Stay
  /\ UNCHANGED <<sem, device, faults, history>>

(* Seeded bug: the caller's count is not clamped to the room left.         *)
ToWriteUnclamped(count) == count

ToWrite(count) ==
  IF buffer_size + count > max_pipe_size THEN max_pipe_size - buffer_size ELSE count

(* Seeded bug: every byte lands one slot late.                             *)
StoredLate(slot, n, first) ==
  [i \in 0 .. max_pipe_size - 1 |->
     IF i > slot /\ i <= slot + n THEN first + (i - slot - 1) ELSE ring[i]]

(* n bytes of the caller's buffer, from its start, go to the ring at slot. *)
Stored(slot, n, first) ==
  [i \in 0 .. max_pipe_size - 1 |->
     IF i >= slot /\ i < slot + n THEN first + (i - slot) ELSE ring[i]]

WriteCopy(w) ==
  \E count \in Counts :
    LET n == ToWrite(count)
        first == FirstPart(wp, n)
    IN /\ first >= 0
       /\ ring' = Stored(Slot(wp), first, written + 1)
       /\ wp' = Slot(wp) + first
       /\ buffer_size' = buffer_size + first
       /\ written' = written + first
       /\ clean' = (clean /\ first \in {0, n})
       /\ Copied(w, first, n - first, "w_copy", "w_wrap", "w_wake")
       /\ UNCHANGED <<allocated, rp, taken, last, torn>>

WriteFault(w) ==
  /\ \E count \in Counts : Fault(w, "w_copy", FirstPart(wp, ToWrite(count)))
  /\ wp' = Slot(wp)
  /\ UNCHANGED <<allocated, ring, rp, buffer_size, history>>

(* A negative length is a huge size_t to copy_from_user: it either refuses *)
(* the address range or writes past the ring and kills the process, which  *)
(* keeps the semaphore.                                                    *)
WriteNegative(w) ==
  /\ \E count \in Counts : FirstPart(wp, ToWrite(count)) < 0
  /\ wp' = Slot(wp)
  /\ \/ Move(w, "w_copy", "idle") /\ Leave(w) /\ up
     \/ Move(w, "w_copy", "oops") /\ Stay /\ UNCHANGED sem
  /\ UNCHANGED <<allocated, ring, rp, buffer_size, faults, history>>

(* The second part starts at the front of the caller's buffer again.       *)
WriteWrap(w) ==
  /\ Move(w, "w_wrap", "w_wake")
  /\ ring' = Stored(Slot(wp), wrapped[w], written - num_bytes[w] + 1)
  /\ wp' = Slot(wp) + wrapped[w]
  /\ buffer_size' = buffer_size + wrapped[w]
  /\ written' = written + wrapped[w]
  /\ up
  /\ Stay
  /\ UNCHANGED <<allocated, rp, faults, taken, last, clean, torn>>

(* The call reports failure, but its first part stays queued and nobody is *)
(* woken for it.                                                           *)
WriteWrapFault(w) ==
  /\ Fault(w, "w_wrap", wrapped[w])
  /\ wp' = Slot(wp)
  /\ torn' = (torn \/ num_bytes[w] > 0)
  /\ UNCHANGED <<allocated, ring, rp, buffer_size, written, taken, last, clean>>

WriteWake(w) ==
  /\ pc[w] = "w_wake"
  /\ pc' = [Woken(Readers) EXCEPT ![w] = "idle"]
  /\ torn' = FALSE
  /\ Leave(w)
  /\ UNCHANGED <<sem, device, faults, written, taken, last, clean>>

-----------------------------------------------------------------------------
(* read_pipe                                                               *)

ReadStart(r) ==
  /\ Move(r, "idle", "r_wait")
  /\ Stay
  /\ UNCHANGED <<sem, device, faults, history>>

ReadWait(r) ==
  /\ Move(r, "r_wait", IF buffer_size > 0 \/ r \in signalled THEN "r_sem" ELSE "r_sleep")
  /\ Stay
  /\ UNCHANGED <<sem, device, faults, history>>

(* Seeded bug: the caller's count is not clamped to the unread bytes.      *)
ToReadUnclamped(count) == count

ToRead(count) == IF count > buffer_size THEN buffer_size ELSE count

ReadCopy(r) ==
  \E count \in Counts :
    LET n == ToRead(count)
        first == FirstPart(rp, n)
    IN /\ rp' = Slot(rp) + first
       /\ buffer_size' = buffer_size - first
       /\ taken' = taken + first
       /\ last' = IF first = 0 THEN last ELSE ring[Slot(rp) + first - 1]
       /\ clean' = (clean /\ first = n)
       /\ Copied(r, first, n - first, "r_copy", "r_wrap", "r_wake")
       /\ UNCHANGED <<allocated, ring, wp, written, torn>>

ReadFault(r) ==
  /\ \E count \in Counts : Fault(r, "r_copy", FirstPart(rp, ToRead(count)))
  /\ rp' = Slot(rp)
  /\ UNCHANGED <<allocated, ring, wp, buffer_size, history>>

(* The second part is counted but not delivered: the copy writes the first *)
(* num_bytes of the caller's buffer again, and wp moves instead of rp.     *)
ReadWrap(r) ==
  /\ Move(r, "r_wrap", "r_wake")
  /\ rp' = Slot(rp)
  /\ wp' = wp + wrapped[r]
  /\ buffer_size' = buffer_size - wrapped[r]
  /\ taken' = taken + wrapped[r]
  /\ last' = 0
  /\ up
  /\ Stay
  /\ UNCHANGED <<allocated, ring, faults, written, clean, torn>>

ReadWrapFault(r) ==
  /\ Fault(r, "r_wrap", num_bytes[r])
  /\ rp' = Slot(rp)
  /\ UNCHANGED <<allocated, ring, wp, buffer_size, history>>

ReadWake(r) ==
  /\ pc[r] = "r_wake"
  /\ pc' = [Woken(Writers) EXCEPT ![r] = "idle"]
  /\ Leave(r)
  /\ UNCHANGED <<sem, device, faults, history>>

-----------------------------------------------------------------------------

SignalArrives(p) == Signal(p) /\ UNCHANGED <<device, locals, faults, history>>

initialization ==
  /\ pc = [p \in Procs |-> "closed"]
  /\ sem = 1
  /\ allocated = FALSE
  /\ ring = [i \in 0 .. max_pipe_size - 1 |-> 0]
  /\ wp = 0
  /\ rp = 0
  /\ buffer_size = 0
  /\ num_bytes = [p \in Procs |-> 0]
  /\ wrapped = [p \in Procs |-> 0]
  /\ signalled = {}
  /\ signals = 0
  /\ faults = 0
  /\ written = 0
  /\ taken = 0
  /\ last = 0
  /\ clean = TRUE
  /\ torn = FALSE

Init == initialization

WriterDown(w) ==
  \/ DownInterruptible(w, "open_sem", "open")
  \/ DownInterruptible(w, "w_sem", "w_copy")

WriterRuns(w) ==
  \/ DownFails(w, "open_sem", "closed")
  \/ DownFails(w, "w_sem", "idle")
  \/ OpenForWrite(w)
  \/ WriteWait(w)
  \/ WriteCopy(w) \/ WriteFault(w) \/ WriteNegative(w)
  \/ WriteWrap(w) \/ WriteWrapFault(w)
  \/ WriteWake(w)

ReaderDown(r) ==
  \/ DownInterruptible(r, "open_sem", "open")
  \/ DownInterruptible(r, "r_sem", "r_copy")

ReaderRuns(r) ==
  \/ DownFails(r, "open_sem", "closed")
  \/ DownFails(r, "r_sem", "idle")
  \/ OpenForRead(r)
  \/ ReadWait(r)
  \/ ReadCopy(r) \/ ReadFault(r)
  \/ ReadWrap(r) \/ ReadWrapFault(r)
  \/ ReadWake(r)

Writer(w) == OpenStart(w) \/ close_pipe(w) \/ WriteStart(w) \/ WriterDown(w) \/ WriterRuns(w)

Reader(r) == OpenStart(r) \/ close_pipe(r) \/ ReadStart(r) \/ ReaderDown(r) \/ ReaderRuns(r)

Next ==
  \/ \E w \in Writers : Writer(w)
  \/ \E r \in Readers : Reader(r)
  \/ \E p \in Procs : SignalArrives(p)

Spec == Init /\ [][Next]_vars

(* The programs of the test, writer.c and reader.c: calls that can run do, *)
(* and the reader reads again and again.                                   *)
Fairness ==
  /\ \A w \in Writers : WF_vars(WriterRuns(w)) /\ SF_vars(WriterDown(w))
  /\ \A r \in Readers : /\ WF_vars(ReaderRuns(r)) /\ SF_vars(ReaderDown(r))
                        /\ WF_vars(ReadStart(r)) /\ WF_vars(pc[r] = "closed" /\ OpenStart(r))

FairSpec == Spec /\ Fairness

-----------------------------------------------------------------------------

WriterPC == {"closed", "open_sem", "open", "idle", "w_wait", "w_sleep", "w_sem", "w_copy",
             "w_wrap", "w_wake", "oops"}
ReaderPC == {"closed", "open_sem", "open", "idle", "r_wait", "r_sleep", "r_sem", "r_copy",
             "r_wrap", "r_wake"}

TypeOK ==
  /\ pc \in [Procs -> WriterPC \cup ReaderPC]
  /\ \A w \in Writers : pc[w] \in WriterPC
  /\ \A r \in Readers : pc[r] \in ReaderPC
  /\ sem \in {0, 1}
  /\ allocated \in BOOLEAN
  /\ ring \in [0 .. max_pipe_size - 1 -> Nat]
  /\ wp \in Nat
  /\ rp \in Nat
  /\ buffer_size \in Int
  /\ num_bytes \in [Procs -> Nat]
  /\ wrapped \in [Procs -> Nat]
  /\ signalled \subseteq Procs
  /\ signals \in 0 .. MaxSignals
  /\ faults \in 0 .. MaxFaults
  /\ written \in Nat /\ taken \in Nat /\ last \in Nat
  /\ clean \in BOOLEAN /\ torn \in BOOLEAN

(* Writers wait on a stale sample and readers on an unlocked look, but the *)
(* clamps under the semaphore keep the count within the ring and equal to  *)
(* what was queued and not returned, split and failed calls included.      *)
CountInBounds ==
  /\ buffer_size \in 0 .. max_pipe_size
  /\ buffer_size = written - taken

(* Reads never leave the ring, even after wp did: rp stays within it and   *)
(* what is left of a split read is unread data.                            *)
ReadsStayInRing ==
  /\ rp \in 0 .. end
  /\ \A r \in Readers : pc[r] = "r_wrap" =>
       rp \in {0, end} /\ wrapped[r] \in 1 .. buffer_size

(* Until a call is split around end, reads return every byte once and in   *)
(* order, and what is unread lies oldest first from rp on, up to wp.       *)
RingIsQueue ==
  clean =>
    /\ last = taken
    /\ allocated /\ (\A w \in Writers : pc[w] # "w_wrap") =>
         /\ (rp + buffer_size - wp) % max_pipe_size = 0
         /\ \A i \in 0 .. buffer_size - 1 : ring[(rp + i) % max_pipe_size] = taken + 1 + i

(* A reader sleeps while there is data only when a writer is about to wake *)
(* it, or a write failed after it had queued its first part: write_pipe's  *)
(* error path wakes nobody.                                                *)
SleepingReaderWillBeWoken ==
  \A r \in Readers : pc[r] = "r_sleep" /\ buffer_size > 0 =>
    torn \/ \E w \in Writers : pc[w] \in {"w_wrap", "w_wake"}

(* write_pipe.c:40 says that the lines below it check the wrap around: so  *)
(* the writer's pointer stays between buffer and end.                      *)
WritePointerInRing == wp \in 0 .. end

(* writer.c fills the pipe three times while reader.c keeps draining it:   *)
(* a writer that waits for room goes on when there is room.                *)
SleepingWriterResumes ==
  \A w \in Writers : pc[w] = "w_sleep" ~> pc[w] = "idle"
=============================================================================
