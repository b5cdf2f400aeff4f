-------------------------- MODULE PipeMultiProofs ---------------------------
(***************************************************************************)
(* Safety of the pipe that moves count bytes per call, for any number of   *)
(* readers and writers, any pipe and call sizes, any signals and faults.   *)
(***************************************************************************)
EXTENDS PipeMulti, TLAPS

Holding(p) == pc[p] \in {"open", "w_copy", "w_wrap", "r_copy", "r_wrap", "oops"}

(* The semaphore is free exactly when nobody is inside it.                 *)
SemInv ==
  /\ sem = 1 <=> \A p \in Procs : ~Holding(p)
  /\ \A p, q \in Procs : Holding(p) /\ Holding(q) => p = q

(* Nothing was ever queued on a device without a buffer, and nobody writes *)
(* to it; the part of a call that is left fits the ring, or is unread.     *)
CountInv ==
  /\ buffer_size \in 0 .. max_pipe_size
  /\ buffer_size = written - taken
  /\ rp \in 0 .. end
  /\ ~allocated => wp = 0 /\ written = 0
  /\ \A w \in Writers : pc[w] \notin {"closed", "open_sem", "open"} => allocated
  /\ \A w \in Writers : pc[w] = "w_wrap" =>
       /\ wrapped[w] >= 1
       /\ buffer_size + wrapped[w] <= max_pipe_size
       /\ num_bytes[w] <= written
       /\ wp = end \/ (wp = 0 /\ num_bytes[w] = 0)
  /\ \A r \in Readers : pc[r] = "r_wrap" =>
       rp \in {0, end} /\ wrapped[r] \in 1 .. buffer_size

(* The slot of a pointer or of one past it, without a division.            *)
Fold(offset) == IF offset >= max_pipe_size THEN offset - max_pipe_size ELSE offset

(* Until a call is split the ring is a queue, also between the parts of a  *)
(* write that found wp at end and put all of it behind.                    *)
QueueInv ==
  clean =>
    /\ last = taken
    /\ wp <= max_pipe_size
    /\ allocated =>
         /\ rp + buffer_size - wp \in {-max_pipe_size, 0, max_pipe_size, 2 * max_pipe_size}
         /\ \A i \in 0 .. buffer_size - 1 : ring[Fold(rp + i)] = taken + 1 + i
    /\ \A w \in Writers : pc[w] = "w_wrap" => num_bytes[w] = 0 /\ wp = 0
    /\ \A r \in Readers : pc[r] # "r_wrap"

(* Only a writer that did queue something is about to wake the sleepers.   *)
Waker(w) == pc[w] = "w_wake" \/ (pc[w] = "w_wrap" /\ num_bytes[w] > 0)

WakeInv ==
  \A r \in Readers : pc[r] = "r_sleep" /\ buffer_size > 0 =>
    torn \/ \E w \in Writers : Waker(w)

ControlOK ==
  /\ pc \in [Procs -> WriterPC \cup ReaderPC]
  /\ \A w \in Writers : pc[w] \in WriterPC
  /\ \A r \in Readers : pc[r] \in ReaderPC

-----------------------------------------------------------------------------
(* Moves, and the semaphore                                                *)

LEMMA WriterMoves ==
  ASSUME TypeOK, NEW w \in Writers, NEW from, NEW to \in WriterPC, Move(w, from, to)
  PROVE  /\ ControlOK' /\ w \in Procs /\ pc[w] = from /\ pc'[w] = to
         /\ \A q \in Procs : q # w => pc'[q] = pc[q]
BY KernelAssumption DEF TypeOK, ControlOK, Move, Procs

LEMMA ReaderMoves ==
  ASSUME TypeOK, NEW r \in Readers, NEW from, NEW to \in ReaderPC, Move(r, from, to)
  PROVE  /\ ControlOK' /\ r \in Procs /\ pc[r] = from /\ pc'[r] = to
         /\ \A q \in Procs : q # r => pc'[q] = pc[q]
BY KernelAssumption DEF TypeOK, ControlOK, Move, Procs

(* A wakeup moves the sleepers of one queue, and the caller returns.       *)
LEMMA WakeMoves ==
  ASSUME TypeOK, NEW p \in Procs, NEW queue \in {Readers, Writers}, p \notin queue,
         pc[p] \in {"w_wake", "r_wake"}, pc' = [Woken(queue) EXCEPT ![p] = "idle"]
  PROVE  /\ ControlOK' /\ pc'[p] = "idle"
         /\ \A q \in Procs : q # p =>
              \/ pc'[q] = pc[q] /\ (q \in queue => pc[q] \notin {"w_sleep", "r_sleep"})
              \/ q \in queue /\ pc[q] = "w_sleep" /\ pc'[q] = "w_wait"
              \/ q \in queue /\ pc[q] = "r_sleep" /\ pc'[q] = "r_wait"
<1>1. /\ pc \in [Procs -> WriterPC \cup ReaderPC]
      /\ \A w \in Writers : pc[w] \in WriterPC
      /\ \A r \in Readers : pc[r] \in ReaderPC
  BY DEF TypeOK
<1>2. /\ pc'[p] = "idle" /\ pc' \in [Procs -> WriterPC \cup ReaderPC]
      /\ \A q \in Procs : q # p => pc'[q] = IF q \in queue THEN Resumed(pc[q]) ELSE pc[q]
  <2>1. Woken(queue) \in [Procs -> WriterPC \cup ReaderPC]
    BY <1>1 DEF Woken, Resumed, WriterPC, ReaderPC
  <2>2. QED
    BY <2>1 DEF Woken, WriterPC
<1>3. \A q \in Procs : q # p =>
        \/ pc'[q] = pc[q] /\ (q \in queue => pc[q] \notin {"w_sleep", "r_sleep"})
        \/ q \in queue /\ pc[q] = "w_sleep" /\ pc'[q] = "w_wait"
        \/ q \in queue /\ pc[q] = "r_sleep" /\ pc'[q] = "r_wait"
  BY <1>2 DEF Resumed
<1>4. ControlOK'
  BY <1>1, <1>2, <1>3 DEF ControlOK, WriterPC, ReaderPC, Procs
<1>5. QED
  BY <1>2, <1>3, <1>4

LEMMA SignalMoves ==
  ASSUME TypeOK, NEW p \in Procs, Signal(p)
  PROVE  /\ ControlOK'
         /\ \A q \in Procs : q # p => pc'[q] = pc[q]
         /\ \/ pc'[p] = pc[p] /\ pc[p] \notin {"w_sleep", "r_sleep"}
            \/ pc[p] = "w_sleep" /\ pc'[p] = "w_wait"
            \/ pc[p] = "r_sleep" /\ pc'[p] = "r_wait"
<1>1. /\ pc \in [Procs -> WriterPC \cup ReaderPC]
      /\ \A w \in Writers : pc[w] \in WriterPC
      /\ \A r \in Readers : pc[r] \in ReaderPC
      /\ pc' = [pc EXCEPT ![p] = Resumed(pc[p])]
  BY DEF TypeOK, Signal
<1>2. Resumed(pc[p]) \in WriterPC \cup ReaderPC
  BY <1>1 DEF Resumed, WriterPC, ReaderPC
<1>3. /\ \A q \in Procs : q # p => pc'[q] = pc[q]
      /\ \/ pc'[p] = pc[p] /\ pc[p] \notin {"w_sleep", "r_sleep"}
         \/ pc[p] = "w_sleep" /\ pc'[p] = "w_wait"
         \/ pc[p] = "r_sleep" /\ pc'[p] = "r_wait"
      /\ pc' \in [Procs -> WriterPC \cup ReaderPC]
  BY <1>1, <1>2 DEF Resumed
<1>4. ControlOK'
  BY <1>1, <1>3 DEF ControlOK, WriterPC, ReaderPC, Procs
<1>5. QED
  BY <1>3, <1>4

(* One process is inside at most, so what the others are about to do there *)
(* is nothing.                                                             *)
LEMMA Alone ==
  ASSUME SemInv, NEW p \in Procs, Holding(p)
  PROVE  \A q \in Procs : q # p => pc[q] \notin {"open", "w_copy", "w_wrap", "r_copy", "r_wrap"}
BY DEF SemInv, Holding

(* Into the semaphore one goes when it is free, and out with an up.        *)
LEMMA SemKept ==
  ASSUME TypeOK, SemInv, NEW p \in Procs,
         \A q \in Procs : q # p => (Holding(q)' <=> Holding(q)),
         \/ (Holding(p)' <=> Holding(p)) /\ sem' = sem
         \/ ~Holding(p) /\ Holding(p)' /\ sem = 1 /\ sem' = 0
         \/ Holding(p) /\ ~Holding(p)' /\ sem' = 1
  PROVE  SemInv'
<1>1. sem \in {0, 1}
  BY DEF TypeOK
<1>2. SemInv
  OBVIOUS
<1>3. \A q, r \in Procs : Holding(q)' /\ Holding(r)' => q = r
  BY <1>2 DEF SemInv
<1>4. sem' = 1 <=> \A q \in Procs : ~Holding(q)'
  BY <1>1, <1>2 DEF SemInv
<1>5. QED
  BY <1>3, <1>4 DEF SemInv

LEMMA SemStep == TypeOK /\ SemInv /\ [Next]_vars => SemInv'
<1> SUFFICES ASSUME TypeOK, SemInv, [Next]_vars PROVE SemInv'
  OBVIOUS
<1> USE DEF WriterPC, ReaderPC, Holding
<1>1. ASSUME NEW w \in Writers, Writer(w) PROVE SemInv'
  <2>1. CASE OpenStart(w) \/ close_pipe(w) \/ WriteStart(w) \/ WriteWait(w)
    BY <2>1, WriterMoves, SemKept DEF OpenStart, close_pipe, WriteStart, WriteWait
  <2>2. CASE WriterDown(w)
    BY <2>2, WriterMoves, SemKept DEF WriterDown, DownInterruptible, Down
  <2>3. CASE DownFails(w, "open_sem", "closed") \/ DownFails(w, "w_sem", "idle")
    BY <2>3, WriterMoves, SemKept DEF DownFails, Interrupted
  <2>4. CASE OpenForWrite(w)
    BY <2>4, WriterMoves, SemKept DEF OpenForWrite, up
  <2>5. CASE WriteCopy(w)
    <3>1. \/ Move(w, "w_copy", "w_wrap") /\ UNCHANGED sem
          \/ Move(w, "w_copy", "w_wake") /\ up
      BY <2>5 DEF WriteCopy, Copied
    <3>2. QED
      BY <3>1, WriterMoves, SemKept DEF up
  <2>6. CASE WriteFault(w) \/ WriteWrapFault(w)
    BY <2>6, WriterMoves, SemKept DEF WriteFault, WriteWrapFault, Fault, up
  <2>7. CASE WriteNegative(w)
    <3>1. \/ Move(w, "w_copy", "oops") /\ UNCHANGED sem
          \/ Move(w, "w_copy", "idle") /\ up
      BY <2>7 DEF WriteNegative
    <3>2. QED
      BY <3>1, WriterMoves, SemKept DEF up
  <2>8. CASE WriteWrap(w)
    BY <2>8, WriterMoves, SemKept DEF WriteWrap, up
  <2>9. CASE WriteWake(w)
    <3>1. pc' = [Woken(Readers) EXCEPT ![w] = "idle"] /\ pc[w] = "w_wake" /\ UNCHANGED sem
      BY <2>9 DEF WriteWake
    <3>2. w \in Procs /\ w \notin Readers
      BY KernelAssumption DEF Procs
    <3>3. QED
      BY <3>1, <3>2, WakeMoves, SemKept, ZenonT(60)
  <2>10. QED
    BY <1>1, <2>1, <2>2, <2>3, <2>4, <2>5, <2>6, <2>7, <2>8, <2>9 DEF Writer, WriterRuns
<1>2. ASSUME NEW r \in Readers, Reader(r) PROVE SemInv'
  <2>1. CASE OpenStart(r) \/ close_pipe(r) \/ ReadStart(r) \/ ReadWait(r)
    BY <2>1, ReaderMoves, SemKept DEF OpenStart, close_pipe, ReadStart, ReadWait
  <2>2. CASE ReaderDown(r)
    BY <2>2, ReaderMoves, SemKept DEF ReaderDown, DownInterruptible, Down
  <2>3. CASE DownFails(r, "open_sem", "closed") \/ DownFails(r, "r_sem", "idle")
    BY <2>3, ReaderMoves, SemKept DEF DownFails, Interrupted
  <2>4. CASE OpenForRead(r)
    BY <2>4, ReaderMoves, SemKept DEF OpenForRead, up
  <2>5. CASE ReadCopy(r)
    <3>1. \/ Move(r, "r_copy", "r_wrap") /\ UNCHANGED sem
          \/ Move(r, "r_copy", "r_wake") /\ up
      BY <2>5 DEF ReadCopy, Copied
    <3>2. QED
      BY <3>1, ReaderMoves, SemKept DEF up
  <2>6. CASE ReadFault(r) \/ ReadWrapFault(r)
    BY <2>6, ReaderMoves, SemKept DEF ReadFault, ReadWrapFault, Fault, up
  <2>7. CASE ReadWrap(r)
    BY <2>7, ReaderMoves, SemKept DEF ReadWrap, up
  <2>8. CASE ReadWake(r)
    <3>1. pc' = [Woken(Writers) EXCEPT ![r] = "idle"] /\ pc[r] = "r_wake" /\ UNCHANGED sem
      BY <2>8 DEF ReadWake
    <3>2. r \in Procs /\ r \notin Writers
      BY KernelAssumption DEF Procs
    <3>3. QED
      BY <3>1, <3>2, WakeMoves, SemKept, ZenonT(60)
  <2>9. QED
    BY <1>2, <2>1, <2>2, <2>3, <2>4, <2>5, <2>6, <2>7, <2>8 DEF Reader, ReaderRuns
<1>3. ASSUME NEW p \in Procs, SignalArrives(p) PROVE SemInv'
  <2>1. Signal(p) /\ UNCHANGED sem
    BY <1>3 DEF SignalArrives, Signal
  <2>2. QED
    BY <2>1, SignalMoves, SemKept
<1>4. CASE UNCHANGED vars
  BY <1>4 DEF vars, SemInv
<1>5. QED
  BY <1>1, <1>2, <1>3, <1>4 DEF Next

-----------------------------------------------------------------------------
(* The two parts of a call                                                 *)

(* What a pointer that is still in the ring gives: a first part that fits, *)
(* and a second one only when the first reached end or was nothing.        *)
LEMMA FirstFits ==
  ASSUME NEW pointer \in Nat, NEW n \in Nat, FirstPart(pointer, n) >= 0
  PROVE  /\ end \in Nat /\ end <= max_pipe_size
         /\ FirstPart(pointer, n) \in 0 .. n
         /\ Slot(pointer) + FirstPart(pointer, n) \in 0 .. end
         /\ FirstPart(pointer, n) # n =>
              \/ Slot(pointer) + FirstPart(pointer, n) = end
              \/ Slot(pointer) + FirstPart(pointer, n) = 0 /\ FirstPart(pointer, n) = 0
         /\ FirstPart(pointer, n) > 0 => pointer < end /\ Slot(pointer) = pointer
<1>1. end \in Nat /\ end <= max_pipe_size
  BY PipeMultiAssumption DEF end
<1>2. QED
  BY <1>1 DEF FirstPart, Splits, Slot

LEMMA SlotFits ==
  ASSUME NEW pointer \in Nat
  PROVE  /\ end \in Nat /\ end <= max_pipe_size /\ max_pipe_size \in Nat \ {0}
         /\ Slot(pointer) \in 0 .. end /\ (allocated => Slot(pointer) < end)
         /\ ~allocated => Slot(pointer) = 0 /\ end = 0
         /\ allocated => end = max_pipe_size
BY PipeMultiAssumption DEF Slot, end

(* The bytes a call may ask for under the semaphore.                       *)
LEMMA Clamped ==
  ASSUME TypeOK, CountInv, NEW count \in Counts
  PROVE  /\ ToWrite(count) \in Nat /\ buffer_size + ToWrite(count) <= max_pipe_size
         /\ ToRead(count) \in 0 .. buffer_size
<1>1. buffer_size \in 0 .. max_pipe_size /\ count \in Nat /\ max_pipe_size \in Nat
  BY PipeMultiAssumption DEF CountInv
<1>2. QED
  BY <1>1 DEF ToWrite, ToRead

(* Whatever is stored, the ring holds numbers of bytes.                    *)
LEMMA StoredType ==
  ASSUME TypeOK, NEW slot \in Nat, NEW n \in Nat, NEW first \in Nat
  PROVE  Stored(slot, n, first) \in [0 .. max_pipe_size - 1 -> Nat]
BY PipeMultiAssumption DEF TypeOK, Stored

-----------------------------------------------------------------------------
(* Types and the count                                                     *)

(* What a step is that touches neither the device nor the histories of the *)
(* data, and begins no second part.                                        *)
Quiet ==
  /\ UNCHANGED <<device, written, taken, last, clean>>
  /\ \A p \in Procs : pc'[p] \in {"w_wrap", "r_wrap"} =>
       pc'[p] = pc[p] /\ num_bytes'[p] = num_bytes[p] /\ wrapped'[p] = wrapped[p]
  /\ \A w \in Writers : pc'[w] \notin {"closed", "open_sem", "open"} =>
       pc[w] \notin {"closed", "open_sem", "open"}

LEMMA QuietKeeps ==
  ASSUME Quiet
  PROVE  (CountInv => CountInv') /\ (QueueInv => QueueInv')
<1>1. UNCHANGED <<allocated, ring, wp, rp, buffer_size, written, taken, last, clean>>
  BY DEF Quiet, device
<1>2. end' = end
  BY <1>1 DEF end
<1>3. Writers \subseteq Procs /\ Readers \subseteq Procs
  BY DEF Procs
<1>4. CountInv => CountInv'
  BY <1>1, <1>2, <1>3 DEF CountInv, Quiet
<1>5. QueueInv => QueueInv'
  BY <1>1, <1>3 DEF QueueInv, Quiet
<1>6. QED
  BY <1>4, <1>5

(* A step that keeps the device keeps the types if those of the process    *)
(* are kept.                                                               *)
LEMMA QuietTypes ==
  ASSUME TypeOK, ControlOK', Quiet, sem' \in {0, 1},
         num_bytes' \in [Procs -> Nat], wrapped' \in [Procs -> Nat],
         signalled' \subseteq Procs, signals' \in 0 .. MaxSignals,
         UNCHANGED faults, torn' \in BOOLEAN
  PROVE  TypeOK'
<1>1. UNCHANGED <<allocated, ring, wp, rp, buffer_size, written, taken, last, clean>>
  BY DEF Quiet, device
<1>2. allocated' \in BOOLEAN /\ clean' \in BOOLEAN
  BY <1>1 DEF TypeOK
<1>3. QED
  BY <1>1, <1>2 DEF TypeOK, ControlOK

LEMMA LeaveTypes ==
  ASSUME TypeOK, NEW p \in Procs
  PROVE  /\ Leave(p) => /\ num_bytes' \in [Procs -> Nat] /\ wrapped' \in [Procs -> Nat]
                        /\ signalled' \subseteq Procs /\ signals' \in 0 .. MaxSignals
                        /\ \A q \in Procs : q # p =>
                             num_bytes'[q] = num_bytes[q] /\ wrapped'[q] = wrapped[q]
         /\ UNCHANGED locals => /\ num_bytes' \in [Procs -> Nat] /\ wrapped' \in [Procs -> Nat]
                                /\ num_bytes' = num_bytes /\ wrapped' = wrapped
         /\ UNCHANGED <<signalled, signals>> =>
              signalled' \subseteq Procs /\ signals' \in 0 .. MaxSignals
         /\ UNCHANGED torn => torn' \in BOOLEAN
         /\ sem \in {0, 1}
<1>1. num_bytes \in [Procs -> Nat] /\ wrapped \in [Procs -> Nat]
  BY DEF TypeOK
<1>2. signalled \subseteq Procs /\ signals \in 0 .. MaxSignals /\ sem \in {0, 1}
  BY DEF TypeOK
<1>3. UNCHANGED torn => torn' \in BOOLEAN
  BY DEF TypeOK
<1>4. QED
  BY <1>1, <1>2, <1>3 DEF Leave, Delivered, locals

QuietWrite(w) ==
  \/ OpenStart(w) \/ close_pipe(w) \/ WriteStart(w) \/ WriterDown(w) \/ WriteWait(w)
  \/ DownFails(w, "open_sem", "closed") \/ DownFails(w, "w_sem", "idle") \/ WriteWake(w)

QuietRead(r) ==
  \/ OpenStart(r) \/ close_pipe(r) \/ ReadStart(r) \/ ReaderDown(r) \/ ReadWait(r)
  \/ DownFails(r, "open_sem", "closed") \/ DownFails(r, "r_sem", "idle") \/ ReadWake(r)
  \/ OpenForRead(r)

(* One program's move to a place that is no second part.                   *)
LEMMA QuietMove ==
  ASSUME TypeOK, NEW p \in Procs, ControlOK',
         pc'[p] \notin {"w_wrap", "r_wrap"},
         \A q \in Procs : q # p => pc'[q] = pc[q],
         \A q \in Procs : q # p => num_bytes'[q] = num_bytes[q] /\ wrapped'[q] = wrapped[q],
         UNCHANGED <<device, written, taken, last, clean>>,
         p \in Writers /\ pc[p] \in {"closed", "open_sem", "open"} =>
           pc'[p] \in {"closed", "open_sem", "open"}
  PROVE  Quiet
BY DEF Quiet, Procs

LEMMA QuietWrites ==
  ASSUME TypeOK, CountInv, NEW w \in Writers, QuietWrite(w)
  PROVE  Quiet /\ TypeOK'
<1> USE DEF WriterPC
<1>0. w \in Procs /\ w \notin Readers
  BY KernelAssumption DEF Procs
<1>1. CASE OpenStart(w) \/ close_pipe(w) \/ WriteWait(w)
  <2>1. PICK from \in WriterPC, to \in WriterPC :
          /\ Move(w, from, to) /\ to \notin {"w_wrap", "r_wrap"}
          /\ from \in {"closed", "open_sem", "open"} => to \in {"closed", "open_sem", "open"}
    BY <1>1 DEF OpenStart, close_pipe, WriteWait
  <2>2. UNCHANGED <<device, history, locals, signalled, signals, faults, sem>>
    BY <1>1 DEF OpenStart, close_pipe, WriteWait, Stay
  <2>3. Quiet
    BY <2>1, <2>2, WriterMoves, QuietMove DEF history, locals
  <2>4. QED
    BY <1>0, <2>1, <2>2, <2>3, WriterMoves, QuietTypes, LeaveTypes DEF history
<1>2. CASE WriteStart(w)
  <2>1. /\ Move(w, "idle", "w_wait") /\ num_bytes' = [num_bytes EXCEPT ![w] = buffer_size]
        /\ UNCHANGED <<sem, device, wrapped, signalled, signals, faults, history>>
    BY <1>2 DEF WriteStart
  <2>2. /\ num_bytes' \in [Procs -> Nat] /\ wrapped' \in [Procs -> Nat]
        /\ \A q \in Procs : q # w => num_bytes'[q] = num_bytes[q] /\ wrapped'[q] = wrapped[q]
    BY <1>0, <2>1, PipeMultiAssumption DEF TypeOK, CountInv
  <2>3. Quiet
    BY <2>1, <2>2, WriterMoves, QuietMove DEF history
  <2>4. QED
    BY <1>0, <2>1, <2>2, <2>3, WriterMoves, QuietTypes, LeaveTypes DEF history
<1>3. CASE WriterDown(w)
  <2>1. PICK from \in WriterPC, to \in WriterPC :
          /\ Move(w, from, to) /\ to \notin {"w_wrap", "r_wrap"}
          /\ from \in {"closed", "open_sem", "open"} => to \in {"closed", "open_sem", "open"}
    BY <1>3 DEF WriterDown, DownInterruptible, Down
  <2>2. UNCHANGED <<device, history, locals, signalled, signals, faults>> /\ sem' \in {0, 1}
    BY <1>3 DEF WriterDown, DownInterruptible, Down
  <2>3. Quiet
    BY <2>1, <2>2, WriterMoves, QuietMove DEF history, locals
  <2>4. QED
    BY <1>0, <2>1, <2>2, <2>3, WriterMoves, QuietTypes, LeaveTypes DEF history
<1>4. CASE DownFails(w, "open_sem", "closed") \/ DownFails(w, "w_sem", "idle")
  <2>1. PICK from \in WriterPC, to \in WriterPC :
          /\ Move(w, from, to) /\ to \notin {"w_wrap", "r_wrap"}
          /\ from \in {"closed", "open_sem", "open"} => to \in {"closed", "open_sem", "open"}
    BY <1>4 DEF DownFails, Interrupted
  <2>2. UNCHANGED <<device, history, faults, sem>> /\ Leave(w)
    BY <1>4 DEF DownFails, Interrupted
  <2>3. Quiet
    BY <1>0, <2>1, <2>2, WriterMoves, QuietMove, LeaveTypes DEF history
  <2>4. QED
    BY <1>0, <2>1, <2>2, <2>3, WriterMoves, QuietTypes, LeaveTypes DEF history
<1>5. CASE WriteWake(w)
  <2>1. /\ pc[w] = "w_wake" /\ pc' = [Woken(Readers) EXCEPT ![w] = "idle"] /\ Leave(w)
        /\ torn' = FALSE /\ UNCHANGED <<sem, device, faults, written, taken, last, clean>>
    BY <1>5 DEF WriteWake
  <2>2. ControlOK' /\ pc'[w] = "idle"
        /\ \A q \in Procs : q # w =>
             pc'[q] = pc[q] \/ (q \in Readers /\ pc'[q] \in {"w_wait", "r_wait"})
    BY <1>0, <2>1, WakeMoves
  <2>3. Quiet
    BY <1>0, <2>1, <2>2, LeaveTypes, KernelAssumption DEF Quiet, Procs
  <2>4. FALSE \in BOOLEAN
    OBVIOUS
  <2>5. QED
    BY <1>0, <2>1, <2>2, <2>3, <2>4, QuietTypes, LeaveTypes
<1>6. QED
  BY <1>1, <1>2, <1>3, <1>4, <1>5 DEF QuietWrite

LEMMA QuietReads ==
  ASSUME TypeOK, CountInv, NEW r \in Readers, QuietRead(r)
  PROVE  Quiet /\ TypeOK'
<1> USE DEF ReaderPC
<1>0. r \in Procs /\ r \notin Writers
  BY KernelAssumption DEF Procs
<1>1. CASE OpenStart(r) \/ close_pipe(r) \/ ReadStart(r) \/ ReadWait(r)
  <2>1. PICK from \in ReaderPC, to \in ReaderPC :
          Move(r, from, to) /\ to \notin {"w_wrap", "r_wrap"}
    BY <1>1 DEF OpenStart, close_pipe, ReadStart, ReadWait
  <2>2. UNCHANGED <<device, history, locals, signalled, signals, faults, sem>>
    BY <1>1 DEF OpenStart, close_pipe, ReadStart, ReadWait, Stay
  <2>3. Quiet
    BY <1>0, <2>1, <2>2, ReaderMoves, QuietMove DEF history, locals
  <2>4. QED
    BY <1>0, <2>1, <2>2, <2>3, ReaderMoves, QuietTypes, LeaveTypes DEF history
<1>2. CASE ReaderDown(r)
  <2>1. PICK from \in ReaderPC, to \in ReaderPC :
          Move(r, from, to) /\ to \notin {"w_wrap", "r_wrap"}
    BY <1>2 DEF ReaderDown, DownInterruptible, Down
  <2>2. UNCHANGED <<device, history, locals, signalled, signals, faults>> /\ sem' \in {0, 1}
    BY <1>2 DEF ReaderDown, DownInterruptible, Down
  <2>3. Quiet
    BY <1>0, <2>1, <2>2, ReaderMoves, QuietMove DEF history, locals
  <2>4. QED
    BY <1>0, <2>1, <2>2, <2>3, ReaderMoves, QuietTypes, LeaveTypes DEF history
<1>3. CASE DownFails(r, "open_sem", "closed") \/ DownFails(r, "r_sem", "idle") \/ OpenForRead(r)
  <2>1. PICK from \in ReaderPC, to \in ReaderPC :
          Move(r, from, to) /\ to \notin {"w_wrap", "r_wrap"}
    BY <1>3 DEF DownFails, Interrupted, OpenForRead
  <2>2. UNCHANGED <<device, history, faults>> /\ Leave(r) /\ (sem' = sem \/ sem' = 1)
    BY <1>3 DEF DownFails, Interrupted, OpenForRead, up
  <2>3. Quiet
    BY <1>0, <2>1, <2>2, ReaderMoves, QuietMove, LeaveTypes DEF history
  <2>4. QED
    BY <1>0, <2>1, <2>2, <2>3, ReaderMoves, QuietTypes, LeaveTypes DEF history
<1>4. CASE ReadWake(r)
  <2>1. /\ pc[r] = "r_wake" /\ pc' = [Woken(Writers) EXCEPT ![r] = "idle"] /\ Leave(r)
        /\ UNCHANGED <<sem, device, faults, history>>
    BY <1>4 DEF ReadWake
  <2>2. ControlOK' /\ pc'[r] = "idle"
        /\ \A q \in Procs : q # r =>
             \/ pc'[q] = pc[q]
             \/ pc[q] \in {"w_sleep", "r_sleep"} /\ pc'[q] \in {"w_wait", "r_wait"}
    BY <1>0, <2>1, WakeMoves
  <2>3. Quiet
    BY <1>0, <2>1, <2>2, LeaveTypes DEF Quiet, Procs, history
  <2>4. QED
    BY <1>0, <2>1, <2>2, <2>3, QuietTypes, LeaveTypes DEF history
<1>5. QED
  BY <1>1, <1>2, <1>3, <1>4 DEF QuietRead

LEMMA QuietSignals ==
  ASSUME TypeOK, NEW p \in Procs, SignalArrives(p)
  PROVE  Quiet /\ TypeOK'
<1>1. /\ Signal(p) /\ UNCHANGED <<device, locals, faults, history, sem>>
      /\ signalled' = signalled \cup {p} /\ signals' = signals + 1 /\ signals < MaxSignals
  BY DEF SignalArrives, Signal
<1>2. /\ ControlOK' /\ \A q \in Procs : q # p => pc'[q] = pc[q]
      /\ \/ pc'[p] = pc[p]
         \/ pc[p] \in {"w_sleep", "r_sleep"} /\ pc'[p] \in {"w_wait", "r_wait"}
  BY <1>1, SignalMoves
<1>3. UNCHANGED <<num_bytes, wrapped, device, written, taken, last, clean>>
  BY <1>1 DEF history, locals
<1>4. \A q \in Procs :
        pc'[q] = pc[q] \/ (pc'[q] \in {"w_wait", "r_wait"} /\ pc[q] \in {"w_sleep", "r_sleep"})
  BY <1>2
<1>5. Writers \subseteq Procs
  BY DEF Procs
<1>6. Quiet
  BY <1>3, <1>4, <1>5 DEF Quiet
<1>7. signalled' \subseteq Procs /\ signals' \in 0 .. MaxSignals
  BY <1>1, KernelAssumption DEF TypeOK
<1>8. QED
  BY <1>1, <1>2, <1>6, <1>7, QuietTypes, LeaveTypes DEF history

-----------------------------------------------------------------------------
(* The steps that move bytes or pointers                                   *)

(* What holds of the others while one process is inside.                   *)
LEMMA OthersOutside ==
  ASSUME TypeOK, SemInv, CountInv, NEW p \in Procs, Holding(p),
         \A q \in Procs : q # p => pc'[q] = pc[q]
  PROVE  /\ \A q \in Procs : q # p =>
              /\ pc[q] \notin {"w_wrap", "r_wrap"} /\ pc'[q] \notin {"w_wrap", "r_wrap"}
         /\ \A w \in Writers : w # p /\ pc'[w] \notin {"closed", "open_sem", "open"} => allocated
<1>1. \A q \in Procs : q # p => pc[q] \notin {"w_wrap", "r_wrap"}
  BY Alone
<1>2. \A w \in Writers : w # p /\ pc'[w] \notin {"closed", "open_sem", "open"} => allocated
  BY DEF CountInv, Procs
<1>3. QED
  BY <1>1, <1>2

(* The types, from those of what changed.                                  *)
LEMMA TypesFrom ==
  ASSUME ControlOK', sem' \in {0, 1}, allocated' \in BOOLEAN,
         ring' \in [0 .. max_pipe_size - 1 -> Nat], wp' \in Nat, rp' \in Nat,
         buffer_size' \in Int, num_bytes' \in [Procs -> Nat], wrapped' \in [Procs -> Nat],
         signalled' \subseteq Procs, signals' \in 0 .. MaxSignals, faults' \in 0 .. MaxFaults,
         written' \in Nat, taken' \in Nat, last' \in Nat, clean' \in BOOLEAN, torn' \in BOOLEAN
  PROVE  TypeOK'
BY DEF TypeOK, ControlOK

(* The types of what a step leaves alone.                                  *)
LEMMA TypesKept ==
  ASSUME TypeOK
  PROVE  /\ UNCHANGED allocated => allocated' \in BOOLEAN
         /\ UNCHANGED ring => ring' \in [0 .. max_pipe_size - 1 -> Nat]
         /\ UNCHANGED wp => wp' \in Nat
         /\ UNCHANGED rp => rp' \in Nat
         /\ UNCHANGED buffer_size => buffer_size' \in Int
         /\ UNCHANGED faults => faults' \in 0 .. MaxFaults
         /\ UNCHANGED written => written' \in Nat
         /\ UNCHANGED taken => taken' \in Nat
         /\ UNCHANGED last => last' \in Nat
         /\ UNCHANGED clean => clean' \in BOOLEAN
BY DEF TypeOK

LEMMA CopiedTypes ==
  ASSUME TypeOK, NEW p \in Procs, NEW first \in Nat, NEW rest \in Nat, NEW from, NEW more, NEW done,
         Copied(p, first, rest, from, more, done)
  PROVE  /\ sem' \in {0, 1}
         /\ num_bytes' \in [Procs -> Nat] /\ wrapped' \in [Procs -> Nat]
         /\ num_bytes'[p] = first /\ wrapped'[p] = rest
         /\ \A q \in Procs : q # p => num_bytes'[q] = num_bytes[q] /\ wrapped'[q] = wrapped[q]
         /\ signalled' \subseteq Procs /\ signals' \in 0 .. MaxSignals
         /\ faults' \in 0 .. MaxFaults
         /\ \/ rest > 0 /\ Move(p, from, more)
            \/ rest = 0 /\ Move(p, from, done)
<1>1. num_bytes \in [Procs -> Nat] /\ wrapped \in [Procs -> Nat]
  BY DEF TypeOK
<1>2. signalled \subseteq Procs /\ signals \in 0 .. MaxSignals /\ faults \in 0 .. MaxFaults /\ sem \in {0, 1}
  BY DEF TypeOK
<1>3. QED
  BY <1>1, <1>2 DEF Copied, up

(* A copy that fails leaves through up.                                    *)
LEMMA FaultTypes ==
  ASSUME TypeOK, NEW p \in Procs, NEW from, NEW n, Fault(p, from, n)
  PROVE  /\ sem' \in {0, 1} /\ Leave(p) /\ Move(p, from, "idle") /\ n > 0
         /\ faults' \in 0 .. MaxFaults
         /\ num_bytes' \in [Procs -> Nat] /\ wrapped' \in [Procs -> Nat]
         /\ \A q \in Procs : q # p => num_bytes'[q] = num_bytes[q] /\ wrapped'[q] = wrapped[q]
         /\ signalled' \subseteq Procs /\ signals' \in 0 .. MaxSignals
<1>1. faults' = faults + 1 /\ faults < MaxFaults /\ Leave(p) /\ Move(p, from, "idle") /\ sem' = 1 /\ n > 0
  BY DEF Fault, up
<1>2. faults' \in 0 .. MaxFaults
  BY <1>1, PipeMultiAssumption DEF TypeOK
<1>3. QED
  BY <1>1, <1>2, LeaveTypes

(* The first part of a write, in the ring and within the room.             *)
LEMMA WriteCopySteps ==
  ASSUME TypeOK, SemInv, CountInv, NEW w \in Writers, WriteCopy(w)
  PROVE  \E n \in Nat, first \in Nat :
           /\ first <= n /\ buffer_size + n <= max_pipe_size
           /\ Slot(wp) \in 0 .. max_pipe_size - 1 /\ Slot(wp) + first <= max_pipe_size
           /\ first # n => \/ Slot(wp) + first = max_pipe_size
                           \/ Slot(wp) = 0 /\ first = 0
           /\ ring' = Stored(Slot(wp), first, written + 1)
           /\ wp' = Slot(wp) + first
           /\ buffer_size' = buffer_size + first
           /\ written' = written + first
           /\ clean' = (clean /\ first \in {0, n})
           /\ Copied(w, first, n - first, "w_copy", "w_wrap", "w_wake")
           /\ UNCHANGED <<allocated, rp, taken, last, torn>>
           /\ allocated /\ pc[w] = "w_copy"
<1>1. PICK count \in Counts :
        /\ FirstPart(wp, ToWrite(count)) >= 0
        /\ ring' = Stored(Slot(wp), FirstPart(wp, ToWrite(count)), written + 1)
        /\ wp' = Slot(wp) + FirstPart(wp, ToWrite(count))
        /\ buffer_size' = buffer_size + FirstPart(wp, ToWrite(count))
        /\ written' = written + FirstPart(wp, ToWrite(count))
        /\ clean' = (clean /\ FirstPart(wp, ToWrite(count)) \in {0, ToWrite(count)})
        /\ Copied(w, FirstPart(wp, ToWrite(count)), ToWrite(count) - FirstPart(wp, ToWrite(count)),
                  "w_copy", "w_wrap", "w_wake")
        /\ UNCHANGED <<allocated, rp, taken, last, torn>>
  BY DEF WriteCopy
<1>2. wp \in Nat
  BY DEF TypeOK
<1>3. ToWrite(count) \in Nat /\ buffer_size + ToWrite(count) <= max_pipe_size
  BY Clamped
<1>4. pc[w] = "w_copy"
  BY <1>1 DEF Copied, Move
<1>5. allocated
  BY <1>4 DEF CountInv
<1>6. Slot(wp) \in 0 .. max_pipe_size - 1 /\ end = max_pipe_size
  BY <1>2, <1>5, SlotFits
<1>7. /\ FirstPart(wp, ToWrite(count)) \in 0 .. ToWrite(count)
      /\ Slot(wp) + FirstPart(wp, ToWrite(count)) <= max_pipe_size
      /\ FirstPart(wp, ToWrite(count)) # ToWrite(count) =>
           \/ Slot(wp) + FirstPart(wp, ToWrite(count)) = max_pipe_size
           \/ Slot(wp) = 0 /\ FirstPart(wp, ToWrite(count)) = 0
  <2>1. FirstPart(wp, ToWrite(count)) \in 0 .. ToWrite(count)
    BY <1>1, <1>2, <1>3, FirstFits
  <2>2. QED
    BY <1>1, <1>2, <1>3, <1>6, <2>1, FirstFits
<1>8. FirstPart(wp, ToWrite(count)) \in Nat /\ FirstPart(wp, ToWrite(count)) <= ToWrite(count)
  BY <1>3, <1>7
<1>9. QED
  BY <1>1, <1>3, <1>4, <1>5, <1>6, <1>7, <1>8

LEMMA WriteCopyKeeps ==
  ASSUME TypeOK, SemInv, CountInv, NEW w \in Writers, WriteCopy(w)
  PROVE  TypeOK' /\ CountInv'
<1>1. PICK n \in Nat, first \in Nat :
        /\ first <= n /\ buffer_size + n <= max_pipe_size
        /\ Slot(wp) \in 0 .. max_pipe_size - 1 /\ Slot(wp) + first <= max_pipe_size
        /\ first # n => \/ Slot(wp) + first = max_pipe_size
                        \/ Slot(wp) = 0 /\ first = 0
        /\ ring' = Stored(Slot(wp), first, written + 1)
        /\ wp' = Slot(wp) + first
        /\ buffer_size' = buffer_size + first
        /\ written' = written + first
        /\ clean' = (clean /\ first \in {0, n})
        /\ Copied(w, first, n - first, "w_copy", "w_wrap", "w_wake")
        /\ UNCHANGED <<allocated, rp, taken, last, torn>>
        /\ allocated /\ pc[w] = "w_copy"
  BY WriteCopySteps
<1>2. w \in Procs /\ w \notin Readers /\ Holding(w)
  BY <1>1, KernelAssumption DEF Procs, Holding
<1>3. n - first \in Nat /\ max_pipe_size \in Nat \ {0} /\ Slot(wp) \in Nat
  BY <1>1, PipeMultiAssumption
<1>4. /\ sem' \in {0, 1}
      /\ num_bytes' \in [Procs -> Nat] /\ wrapped' \in [Procs -> Nat]
      /\ num_bytes'[w] = first /\ wrapped'[w] = n - first
      /\ signalled' \subseteq Procs /\ signals' \in 0 .. MaxSignals
      /\ faults' \in 0 .. MaxFaults
      /\ \/ n - first > 0 /\ Move(w, "w_copy", "w_wrap")
         \/ n - first = 0 /\ Move(w, "w_copy", "w_wake")
  BY <1>1, <1>2, <1>3, CopiedTypes
<1>5. /\ ControlOK' /\ \A q \in Procs : q # w => pc'[q] = pc[q]
      /\ (pc'[w] = "w_wrap" /\ n - first > 0) \/ pc'[w] = "w_wake"
  BY <1>4, WriterMoves DEF WriterPC
<1>6. /\ buffer_size \in 0 .. max_pipe_size /\ buffer_size = written - taken /\ rp \in 0 .. end
      /\ written \in Nat /\ taken \in Nat
  BY DEF CountInv, TypeOK
<1>7. /\ buffer_size' \in 0 .. max_pipe_size /\ buffer_size' = written' - taken'
      /\ written' \in Nat /\ wp' \in Nat
  BY <1>1, <1>3, <1>6
<1>8. ring' \in [0 .. max_pipe_size - 1 -> Nat]
  <2>1. written + 1 \in Nat
    BY <1>6
  <2>2. QED
    BY <1>1, <1>3, <2>1, StoredType
<1>9. clean' \in BOOLEAN /\ torn' \in BOOLEAN /\ allocated' \in BOOLEAN
  <2>1. torn \in BOOLEAN /\ allocated \in BOOLEAN
    BY DEF TypeOK
  <2>2. clean' = (clean /\ first \in {0, n}) /\ torn' = torn /\ allocated' = allocated
    BY <1>1
  <2>3. QED
    BY <2>1, <2>2, Zenon
<1>10. TypeOK'
  BY <1>1, <1>4, <1>5, <1>7, <1>8, <1>9, TypesFrom, TypesKept, SMTT(60)
<1>11. end' = max_pipe_size /\ end = max_pipe_size
  BY <1>1 DEF end
<1>12. pc'[w] = "w_wrap" =>
         /\ wrapped'[w] >= 1 /\ buffer_size' + wrapped'[w] <= max_pipe_size
         /\ num_bytes'[w] <= written'
         /\ wp' = max_pipe_size \/ (wp' = 0 /\ num_bytes'[w] = 0)
  BY <1>1, <1>3, <1>4, <1>5, <1>6
<1>13. /\ \A q \in Procs : q # w => pc'[q] \notin {"w_wrap", "r_wrap"}
  BY <1>2, <1>5, OthersOutside
<1>14. QED
  BY <1>1, <1>2, <1>5, <1>6, <1>7, <1>10, <1>11, <1>12, <1>13 DEF CountInv, Procs

(* A step that leaves no second part to do keeps what CountInv says of the *)
(* processes.                                                              *)
LEMMA CountKept ==
  ASSUME TypeOK, SemInv, CountInv, NEW p \in Procs, Holding(p),
         \A q \in Procs : q # p => pc'[q] = pc[q],
         pc'[p] \notin {"w_wrap", "r_wrap"},
         p \in Writers /\ pc'[p] \notin {"closed", "open_sem", "open"} => allocated,
         UNCHANGED allocated,
         buffer_size' \in 0 .. max_pipe_size, buffer_size' = written' - taken',
         rp' \in 0 .. end, ~allocated => wp' = 0 /\ written' = 0
  PROVE  CountInv'
<1>1. end' = end
  BY DEF end
<1>2. /\ \A q \in Procs : pc'[q] \notin {"w_wrap", "r_wrap"}
      /\ \A w \in Writers : pc'[w] \notin {"closed", "open_sem", "open"} => allocated
  BY OthersOutside
<1>3. QED
  BY <1>1, <1>2 DEF CountInv, Procs

LEMMA WriteWrapKeeps ==
  ASSUME TypeOK, SemInv, CountInv, NEW w \in Writers, WriteWrap(w)
  PROVE  TypeOK' /\ CountInv'
<1>1. /\ Move(w, "w_wrap", "w_wake")
      /\ ring' = Stored(Slot(wp), wrapped[w], written - num_bytes[w] + 1)
      /\ wp' = Slot(wp) + wrapped[w]
      /\ buffer_size' = buffer_size + wrapped[w]
      /\ written' = written + wrapped[w]
      /\ sem' = 1
      /\ UNCHANGED <<num_bytes, wrapped, signalled, signals, allocated, rp, faults, taken, last, clean, torn>>
  BY DEF WriteWrap, up, Stay, locals
<1>2. /\ w \in Procs /\ ControlOK' /\ pc[w] = "w_wrap" /\ pc'[w] = "w_wake"
      /\ \A q \in Procs : q # w => pc'[q] = pc[q]
  BY <1>1, WriterMoves DEF WriterPC
<1>3. /\ buffer_size \in 0 .. max_pipe_size /\ buffer_size = written - taken /\ rp \in 0 .. end
      /\ wrapped[w] >= 1 /\ buffer_size + wrapped[w] <= max_pipe_size
      /\ num_bytes[w] <= written /\ allocated
  BY <1>2 DEF CountInv
<1>4. /\ wrapped[w] \in Nat /\ num_bytes[w] \in Nat /\ written \in Nat /\ taken \in Nat
      /\ wp \in Nat /\ torn \in BOOLEAN
      /\ num_bytes \in [Procs -> Nat] /\ wrapped \in [Procs -> Nat]
      /\ signalled \subseteq Procs /\ signals \in 0 .. MaxSignals
  BY <1>2 DEF TypeOK
<1>5. Slot(wp) \in Nat /\ max_pipe_size \in Nat
  BY <1>4, SlotFits
<1>6. written - num_bytes[w] + 1 \in Nat
  BY <1>3, <1>4
<1>7. ring' \in [0 .. max_pipe_size - 1 -> Nat]
  BY <1>1, <1>4, <1>5, <1>6, StoredType
<1>8. /\ buffer_size' \in 0 .. max_pipe_size /\ buffer_size' = written' - taken'
      /\ written' \in Nat /\ wp' \in Nat
  BY <1>1, <1>3, <1>4, <1>5
<1>9. torn' \in BOOLEAN
  BY <1>1, <1>4, Zenon
<1>10. TypeOK'
  <2>1. /\ num_bytes' \in [Procs -> Nat] /\ wrapped' \in [Procs -> Nat] /\ sem' \in {0, 1}
        /\ signalled' \subseteq Procs /\ signals' \in 0 .. MaxSignals
    BY <1>1, <1>4
  <2>2. buffer_size' \in Int
    BY <1>8, <1>5
  <2>3. QED
    BY <1>1, <1>2, <1>7, <1>8, <1>9, <2>1, <2>2, TypesFrom, TypesKept
<1>11. CountInv'
  BY <1>1, <1>2, <1>3, <1>8, CountKept DEF Holding
<1>12. QED
  BY <1>10, <1>11

(* The three ways in which a copy of write_pipe fails.                     *)
LEMMA WriteFailureKeeps ==
  ASSUME TypeOK, SemInv, CountInv, NEW w \in Writers,
         WriteFault(w) \/ WriteNegative(w) \/ WriteWrapFault(w)
  PROVE  TypeOK' /\ CountInv'
<1>1. /\ wp' = Slot(wp)
      /\ UNCHANGED <<allocated, ring, rp, buffer_size, written, taken, last, clean>>
  BY DEF WriteFault, WriteNegative, WriteWrapFault, history
<1>2. torn' \in BOOLEAN
  <2>1. torn \in BOOLEAN
    BY DEF TypeOK
  <2>2. (torn \/ num_bytes[w] > 0) \in BOOLEAN
    OBVIOUS
  <2>3. torn' = torn \/ torn' = (torn \/ num_bytes[w] > 0)
    BY DEF WriteFault, WriteNegative, WriteWrapFault, history
  <2>4. QED
    BY <2>1, <2>2, <2>3, Zenon
<1>3. /\ sem' \in {0, 1} /\ faults' \in 0 .. MaxFaults
      /\ num_bytes' \in [Procs -> Nat] /\ wrapped' \in [Procs -> Nat]
      /\ signalled' \subseteq Procs /\ signals' \in 0 .. MaxSignals
      /\ \E from \in {"w_copy", "w_wrap"}, to \in {"idle", "oops"} : Move(w, from, to)
  <2>0. w \in Procs
    BY DEF Procs
  <2>1. CASE WriteFault(w)
    BY <2>0, <2>1, FaultTypes DEF WriteFault
  <2>2. CASE WriteWrapFault(w)
    BY <2>0, <2>2, FaultTypes DEF WriteWrapFault
  <2>3. CASE WriteNegative(w)
    <3>1. /\ UNCHANGED faults
          /\ \/ Move(w, "w_copy", "idle") /\ Leave(w) /\ sem' = 1
             \/ Move(w, "w_copy", "oops") /\ UNCHANGED <<sem, signalled, signals, locals>>
      BY <2>3 DEF WriteNegative, up, Stay
    <3>2. QED
      BY <2>0, <3>1, LeaveTypes, TypesKept
  <2>4. QED
    BY <2>1, <2>2, <2>3
<1>4. /\ w \in Procs /\ ControlOK' /\ pc[w] \in {"w_copy", "w_wrap"} /\ pc'[w] \in {"idle", "oops"}
      /\ \A q \in Procs : q # w => pc'[q] = pc[q]
  BY <1>3, WriterMoves DEF WriterPC
<1>5. wp \in Nat
  BY DEF TypeOK
<1>6. wp' \in Nat /\ (~allocated => wp' = 0)
  BY <1>1, <1>5, SlotFits
<1>7. TypeOK'
  BY <1>1, <1>2, <1>3, <1>4, <1>6, TypesFrom, TypesKept
<1>8. /\ buffer_size \in 0 .. max_pipe_size /\ buffer_size = written - taken /\ rp \in 0 .. end
      /\ (~allocated => written = 0) /\ allocated
  BY <1>4 DEF CountInv
<1>9. CountInv'
  BY <1>1, <1>4, <1>6, <1>8, CountKept DEF Holding
<1>10. QED
  BY <1>7, <1>9

LEMMA OpenForWriteKeeps ==
  ASSUME TypeOK, SemInv, CountInv, NEW w \in Writers, OpenForWrite(w)
  PROVE  TypeOK' /\ CountInv'
<1>1. /\ Leave(w) /\ sem' = 1
      /\ UNCHANGED <<ring, buffer_size, faults, written, taken, last, clean, torn>>
      /\ wp' = IF allocated THEN wp ELSE 0
      /\ rp' = IF allocated THEN rp ELSE 0
  BY DEF OpenForWrite, up, history
<1>2. \/ Move(w, "open", "idle") /\ allocated' = TRUE
      \/ Move(w, "open", "closed") /\ ~allocated /\ UNCHANGED allocated
  BY DEF OpenForWrite
<1>3. /\ w \in Procs /\ ControlOK' /\ pc[w] = "open" /\ pc'[w] \in {"idle", "closed"}
      /\ \A q \in Procs : q # w => pc'[q] = pc[q]
  BY <1>2, WriterMoves DEF WriterPC
<1>4. \/ pc'[w] = "idle" /\ allocated' = TRUE
      \/ pc'[w] = "closed" /\ ~allocated /\ UNCHANGED allocated
  BY <1>2, WriterMoves DEF WriterPC
<1>5. allocated' \in BOOLEAN
  BY <1>2 DEF TypeOK
<1>6. /\ buffer_size \in 0 .. max_pipe_size /\ buffer_size = written - taken /\ rp \in 0 .. end
      /\ (~allocated => wp = 0 /\ written = 0) /\ max_pipe_size \in Nat \ {0}
      /\ wp \in Nat /\ rp \in Nat
  BY PipeMultiAssumption DEF CountInv, TypeOK
<1>7. wp' \in Nat /\ rp' \in Nat
  BY <1>1, <1>6
<1>8. torn' \in BOOLEAN
  BY <1>1 DEF TypeOK
<1>9. TypeOK'
  BY <1>1, <1>3, <1>5, <1>7, <1>8, LeaveTypes, TypesFrom, TypesKept
<1>10. \A q \in Procs : pc'[q] \notin {"w_wrap", "r_wrap"}
  BY <1>3, OthersOutside DEF Holding
<1>11. \A v \in Writers : pc'[v] \notin {"closed", "open_sem", "open"} => allocated'
  BY <1>3, <1>4 DEF CountInv, Procs
<1>12. rp' \in 0 .. end'
  BY <1>1, <1>4, <1>6 DEF end
<1>13. ~allocated' => wp' = 0 /\ written' = 0
  BY <1>1, <1>4, <1>6
<1>14. QED
  BY <1>1, <1>6, <1>9, <1>10, <1>11, <1>12, <1>13 DEF CountInv, Procs

(* The first part of a read, in the ring and of unread bytes.              *)
LEMMA ReadCopySteps ==
  ASSUME TypeOK, SemInv, CountInv, NEW r \in Readers, ReadCopy(r)
  PROVE  \E n \in Nat, first \in Nat :
           /\ first <= n /\ n <= buffer_size
           /\ Slot(rp) \in 0 .. end /\ Slot(rp) + first \in 0 .. end
           /\ first > 0 => Slot(rp) = rp
           /\ first # n => Slot(rp) + first \in {0, end}
           /\ rp' = Slot(rp) + first
           /\ buffer_size' = buffer_size - first
           /\ taken' = taken + first
           /\ last' = IF first = 0 THEN last ELSE ring[Slot(rp) + first - 1]
           /\ clean' = (clean /\ first = n)
           /\ Copied(r, first, n - first, "r_copy", "r_wrap", "r_wake")
           /\ UNCHANGED <<allocated, ring, wp, written, torn>>
           /\ pc[r] = "r_copy"
<1>1. PICK count \in Counts :
        /\ rp' = Slot(rp) + FirstPart(rp, ToRead(count))
        /\ buffer_size' = buffer_size - FirstPart(rp, ToRead(count))
        /\ taken' = taken + FirstPart(rp, ToRead(count))
        /\ last' = IF FirstPart(rp, ToRead(count)) = 0 THEN last
                   ELSE ring[Slot(rp) + FirstPart(rp, ToRead(count)) - 1]
        /\ clean' = (clean /\ FirstPart(rp, ToRead(count)) = ToRead(count))
        /\ Copied(r, FirstPart(rp, ToRead(count)), ToRead(count) - FirstPart(rp, ToRead(count)),
                  "r_copy", "r_wrap", "r_wake")
        /\ UNCHANGED <<allocated, ring, wp, written, torn>>
  BY DEF ReadCopy
<1>2. rp \in Nat /\ rp <= end /\ end \in Nat
  BY SlotFits DEF TypeOK, CountInv
<1>3. ToRead(count) \in Nat /\ ToRead(count) <= buffer_size
  <2>1. ToRead(count) \in 0 .. buffer_size /\ buffer_size \in Int
    BY Clamped DEF TypeOK
  <2>2. QED
    BY <2>1
<1>4. pc[r] = "r_copy"
  BY <1>1 DEF Copied, Move
<1>5. Slot(rp) \in 0 .. end
  BY <1>2, SlotFits
<1>6. FirstPart(rp, ToRead(count)) >= 0
  BY <1>2, <1>3 DEF FirstPart, Splits
<1>7. /\ FirstPart(rp, ToRead(count)) \in 0 .. ToRead(count)
      /\ Slot(rp) + FirstPart(rp, ToRead(count)) \in 0 .. end
      /\ FirstPart(rp, ToRead(count)) # ToRead(count) =>
           Slot(rp) + FirstPart(rp, ToRead(count)) \in {0, end}
      /\ FirstPart(rp, ToRead(count)) > 0 => Slot(rp) = rp
  BY <1>2, <1>3, <1>6, FirstFits
<1>8. FirstPart(rp, ToRead(count)) \in Nat /\ FirstPart(rp, ToRead(count)) <= ToRead(count)
  BY <1>3, <1>7
<1>9. QED
  BY <1>1, <1>3, <1>4, <1>5, <1>7, <1>8

LEMMA ReadCopyKeeps ==
  ASSUME TypeOK, SemInv, CountInv, NEW r \in Readers, ReadCopy(r)
  PROVE  TypeOK' /\ CountInv'
<1>1. PICK n \in Nat, first \in Nat :
        /\ first <= n /\ n <= buffer_size
        /\ Slot(rp) \in 0 .. end /\ Slot(rp) + first \in 0 .. end
        /\ first > 0 => Slot(rp) = rp
        /\ first # n => Slot(rp) + first \in {0, end}
        /\ rp' = Slot(rp) + first
        /\ buffer_size' = buffer_size - first
        /\ taken' = taken + first
        /\ last' = IF first = 0 THEN last ELSE ring[Slot(rp) + first - 1]
        /\ clean' = (clean /\ first = n)
        /\ Copied(r, first, n - first, "r_copy", "r_wrap", "r_wake")
        /\ UNCHANGED <<allocated, ring, wp, written, torn>>
        /\ pc[r] = "r_copy"
  BY ReadCopySteps
<1>2. r \in Procs /\ r \notin Writers /\ Holding(r)
  BY <1>1, KernelAssumption DEF Procs, Holding
<1>3. n - first \in Nat /\ max_pipe_size \in Nat \ {0} /\ end \in Nat /\ end <= max_pipe_size
  BY <1>1, PipeMultiAssumption DEF end
<1>4. /\ sem' \in {0, 1}
      /\ num_bytes' \in [Procs -> Nat] /\ wrapped' \in [Procs -> Nat]
      /\ num_bytes'[r] = first /\ wrapped'[r] = n - first
      /\ signalled' \subseteq Procs /\ signals' \in 0 .. MaxSignals
      /\ faults' \in 0 .. MaxFaults
      /\ \/ n - first > 0 /\ Move(r, "r_copy", "r_wrap")
         \/ n - first = 0 /\ Move(r, "r_copy", "r_wake")
  <2>1. Copied(r, first, n - first, "r_copy", "r_wrap", "r_wake")
    BY <1>1
  <2>2. QED
    BY <1>2, <1>3, <2>1, CopiedTypes
<1>5. /\ ControlOK' /\ \A q \in Procs : q # r => pc'[q] = pc[q]
      /\ (pc'[r] = "r_wrap" /\ n - first > 0) \/ pc'[r] = "r_wake"
  BY <1>4, ReaderMoves DEF ReaderPC
<1>6. /\ buffer_size \in 0 .. max_pipe_size /\ buffer_size = written - taken /\ rp \in 0 .. end
      /\ written \in Nat /\ taken \in Nat /\ last \in Nat
      /\ ring \in [0 .. max_pipe_size - 1 -> Nat]
  BY DEF CountInv, TypeOK
<1>7. /\ buffer_size' \in 0 .. max_pipe_size /\ buffer_size' = written' - taken'
      /\ taken' \in Nat /\ rp' \in Nat /\ rp' \in 0 .. end
  BY <1>1, <1>3, <1>6
<1>8. last' \in Nat
  <2>1. CASE first = 0
    BY <1>1, <1>6, <2>1
  <2>2. CASE first # 0
    <3>1. Slot(rp) + first - 1 \in 0 .. max_pipe_size - 1
      BY <1>1, <1>3, <2>2
    <3>2. QED
      BY <1>1, <1>6, <2>2, <3>1
  <2>3. QED
    BY <2>1, <2>2
<1>9. clean' \in BOOLEAN /\ torn' \in BOOLEAN /\ allocated' \in BOOLEAN
  <2>1. torn \in BOOLEAN /\ allocated \in BOOLEAN
    BY DEF TypeOK
  <2>2. (clean /\ first = n) \in BOOLEAN
    OBVIOUS
  <2>3. QED
    BY <1>1, <2>1, <2>2
<1>10. TypeOK'
  <2>1. buffer_size' \in Int
    BY <1>7, <1>3
  <2>2. QED
    BY <1>1, <1>4, <1>5, <1>7, <1>8, <1>9, <2>1, TypesFrom, TypesKept
<1>11. end' = end
  BY <1>1 DEF end
<1>12. pc'[r] = "r_wrap" => rp' \in {0, end} /\ wrapped'[r] \in 1 .. buffer_size'
  BY <1>1, <1>3, <1>4, <1>5, <1>6
<1>13. \A q \in Procs : q # r => pc'[q] \notin {"w_wrap", "r_wrap"}
  BY <1>2, <1>5, OthersOutside
<1>14. \A w \in Writers : pc'[w] \notin {"closed", "open_sem", "open"} => allocated
  BY <1>2, <1>5, OthersOutside DEF Procs
<1>15. ~allocated => wp = 0 /\ written = 0
  BY DEF CountInv
<1>16. QED
  BY <1>1, <1>2, <1>7, <1>10, <1>11, <1>12, <1>13, <1>14, <1>15 DEF CountInv, Procs

LEMMA ReadWrapKeeps ==
  ASSUME TypeOK, SemInv, CountInv, NEW r \in Readers, ReadWrap(r)
  PROVE  TypeOK' /\ CountInv'
<1>1. /\ Move(r, "r_wrap", "r_wake")
      /\ rp' = Slot(rp)
      /\ wp' = wp + wrapped[r]
      /\ buffer_size' = buffer_size - wrapped[r]
      /\ taken' = taken + wrapped[r]
      /\ last' = 0 /\ sem' = 1
      /\ UNCHANGED <<num_bytes, wrapped, signalled, signals, allocated, ring, faults, written, clean, torn>>
  BY DEF ReadWrap, up, Stay, locals
<1>2. /\ r \in Procs /\ r \notin Writers /\ ControlOK' /\ pc[r] = "r_wrap" /\ pc'[r] = "r_wake"
      /\ \A q \in Procs : q # r => pc'[q] = pc[q]
  BY <1>1, ReaderMoves, KernelAssumption DEF ReaderPC
<1>3. /\ buffer_size \in 0 .. max_pipe_size /\ buffer_size = written - taken /\ rp \in 0 .. end
      /\ wrapped[r] \in 1 .. buffer_size /\ (~allocated => written = 0)
  BY <1>2 DEF CountInv
<1>4. /\ written \in Nat /\ taken \in Nat
      /\ wp \in Nat /\ rp \in Nat /\ torn \in BOOLEAN
      /\ num_bytes \in [Procs -> Nat] /\ wrapped \in [Procs -> Nat]
      /\ signalled \subseteq Procs /\ signals \in 0 .. MaxSignals
  BY <1>2 DEF TypeOK
<1>5. Slot(rp) \in Nat /\ Slot(rp) \in 0 .. end /\ max_pipe_size \in Nat
  BY <1>4, SlotFits
<1>6. allocated
  BY <1>3, <1>4, <1>5
<1>7. /\ buffer_size' \in 0 .. max_pipe_size /\ buffer_size' = written' - taken'
      /\ taken' \in Nat /\ wp' \in Nat /\ rp' \in Nat /\ rp' \in 0 .. end
  BY <1>1, <1>3, <1>4, <1>5
<1>8. torn' \in BOOLEAN
  BY <1>1, <1>4, Zenon
<1>9. TypeOK'
  <2>1. /\ num_bytes' \in [Procs -> Nat] /\ wrapped' \in [Procs -> Nat] /\ sem' \in {0, 1}
        /\ signalled' \subseteq Procs /\ signals' \in 0 .. MaxSignals /\ last' \in Nat
    BY <1>1, <1>4
  <2>2. buffer_size' \in Int
    BY <1>7, <1>5
  <2>3. QED
    BY <1>1, <1>2, <1>7, <1>8, <2>1, <2>2, TypesFrom, TypesKept
<1>10. CountInv'
  BY <1>1, <1>2, <1>6, <1>7, CountKept DEF Holding
<1>11. QED
  BY <1>9, <1>10

LEMMA ReadFailureKeeps ==
  ASSUME TypeOK, SemInv, CountInv, NEW r \in Readers, ReadFault(r) \/ ReadWrapFault(r)
  PROVE  TypeOK' /\ CountInv'
<1>1. /\ rp' = Slot(rp)
      /\ UNCHANGED <<allocated, ring, wp, buffer_size, written, taken, last, clean, torn>>
  BY DEF ReadFault, ReadWrapFault, history
<1>2. r \in Procs /\ r \notin Writers
  BY KernelAssumption DEF Procs
<1>3. /\ sem' \in {0, 1} /\ faults' \in 0 .. MaxFaults
      /\ num_bytes' \in [Procs -> Nat] /\ wrapped' \in [Procs -> Nat]
      /\ signalled' \subseteq Procs /\ signals' \in 0 .. MaxSignals
      /\ \E from \in {"r_copy", "r_wrap"} : Move(r, from, "idle")
  BY <1>2, FaultTypes DEF ReadFault, ReadWrapFault
<1>4. /\ ControlOK' /\ pc[r] \in {"r_copy", "r_wrap"} /\ pc'[r] = "idle"
      /\ \A q \in Procs : q # r => pc'[q] = pc[q]
  BY <1>3, ReaderMoves DEF ReaderPC
<1>5. rp \in Nat /\ torn \in BOOLEAN
  BY DEF TypeOK
<1>6. rp' \in Nat /\ rp' \in 0 .. end
  BY <1>1, <1>5, SlotFits
<1>7. torn' \in BOOLEAN
  BY <1>1, <1>5, Zenon
<1>8. TypeOK'
  BY <1>1, <1>3, <1>4, <1>6, <1>7, TypesFrom, TypesKept
<1>9. /\ buffer_size \in 0 .. max_pipe_size /\ buffer_size = written - taken
      /\ (~allocated => wp = 0 /\ written = 0)
  BY DEF CountInv
<1>10. CountInv'
  BY <1>1, <1>2, <1>4, <1>6, <1>9, CountKept DEF Holding
<1>11. QED
  BY <1>8, <1>10

LEMMA CountInit == Init => TypeOK /\ SemInv /\ CountInv /\ QueueInv /\ WakeInv
<1> SUFFICES ASSUME Init PROVE TypeOK /\ SemInv /\ CountInv /\ QueueInv /\ WakeInv
  OBVIOUS
<1>1. /\ pc = [p \in Procs |-> "closed"] /\ sem = 1 /\ allocated = FALSE
      /\ ring = [i \in 0 .. max_pipe_size - 1 |-> 0]
      /\ wp = 0 /\ rp = 0 /\ buffer_size = 0
      /\ num_bytes = [p \in Procs |-> 0] /\ wrapped = [p \in Procs |-> 0]
      /\ signalled = {} /\ signals = 0 /\ faults = 0
      /\ written = 0 /\ taken = 0 /\ last = 0 /\ clean = TRUE /\ torn = FALSE
  BY DEF Init, initialization
<1>2. /\ max_pipe_size \in Nat \ {0} /\ MaxSignals \in Nat /\ MaxFaults \in Nat
      /\ Writers \subseteq Procs /\ Readers \subseteq Procs
  BY KernelAssumption, PipeMultiAssumption DEF Procs
<1>3. TypeOK
  <2>1. allocated \in BOOLEAN /\ clean \in BOOLEAN /\ torn \in BOOLEAN
    BY <1>1, Zenon
  <2>2. /\ pc \in [Procs -> WriterPC \cup ReaderPC]
        /\ \A w \in Writers : pc[w] \in WriterPC
        /\ \A r \in Readers : pc[r] \in ReaderPC
    BY <1>1, <1>2 DEF WriterPC, ReaderPC
  <2>3. /\ ring \in [0 .. max_pipe_size - 1 -> Nat]
        /\ num_bytes \in [Procs -> Nat] /\ wrapped \in [Procs -> Nat]
    BY <1>1
  <2>4. QED
    BY <1>1, <1>2, <2>1, <2>2, <2>3 DEF TypeOK
<1>4. SemInv
  BY <1>1 DEF SemInv, Holding
<1>5. CountInv
  BY <1>1, <1>2 DEF CountInv, end
<1>6. QueueInv
  BY <1>1, <1>2 DEF QueueInv
<1>7. WakeInv
  BY <1>1, <1>2 DEF WakeInv
<1>8. QED
  BY <1>3, <1>4, <1>5, <1>6, <1>7

LEMMA CountStep == TypeOK /\ SemInv /\ CountInv /\ [Next]_vars => TypeOK' /\ CountInv'
<1> SUFFICES ASSUME TypeOK, SemInv, CountInv, [Next]_vars PROVE TypeOK' /\ CountInv'
  OBVIOUS
<1>1. ASSUME NEW w \in Writers, Writer(w) PROVE TypeOK' /\ CountInv'
  <2>1. \/ QuietWrite(w) \/ OpenForWrite(w) \/ WriteCopy(w) \/ WriteWrap(w)
        \/ WriteFault(w) \/ WriteNegative(w) \/ WriteWrapFault(w)
    BY <1>1 DEF Writer, WriterRuns, QuietWrite
  <2>2. QED
    BY <2>1, QuietWrites, QuietKeeps, OpenForWriteKeeps, WriteCopyKeeps, WriteWrapKeeps,
       WriteFailureKeeps
<1>2. ASSUME NEW r \in Readers, Reader(r) PROVE TypeOK' /\ CountInv'
  <2>1. \/ QuietRead(r) \/ ReadCopy(r) \/ ReadWrap(r)
        \/ ReadFault(r) \/ ReadWrapFault(r)
    BY <1>2 DEF Reader, ReaderRuns, QuietRead
  <2>2. QED
    BY <2>1, QuietReads, QuietKeeps, ReadCopyKeeps, ReadWrapKeeps, ReadFailureKeeps
<1>3. ASSUME NEW p \in Procs, SignalArrives(p) PROVE TypeOK' /\ CountInv'
  BY <1>3, QuietSignals, QuietKeeps
<1>4. CASE UNCHANGED vars
  <2>1. Quiet
    BY <1>4 DEF vars, locals, history, Quiet
  <2>2. TypeOK'
    BY <1>4 DEF vars, device, locals, history, TypeOK
  <2>3. QED
    BY <2>1, <2>2, QuietKeeps
<1>5. QED
  BY <1>1, <1>2, <1>3, <1>4 DEF Next

-----------------------------------------------------------------------------
(* The queue                                                               *)

(* n bytes stored where the queue ends extend it.                          *)
LEMMA QueueWritten ==
  ASSUME max_pipe_size \in Nat \ {0}, rp \in 0 .. max_pipe_size,
         buffer_size \in 0 .. max_pipe_size, taken \in Nat, written = taken + buffer_size,
         NEW slot \in 0 .. max_pipe_size - 1, NEW n \in Nat,
         slot + n <= max_pipe_size, buffer_size + n <= max_pipe_size,
         rp + buffer_size - slot \in {-max_pipe_size, 0, max_pipe_size, 2 * max_pipe_size},
         \A i \in 0 .. buffer_size - 1 : ring[Fold(rp + i)] = taken + 1 + i
  PROVE  \A i \in 0 .. buffer_size + n - 1 :
           Stored(slot, n, written + 1)[Fold(rp + i)] = taken + 1 + i
<1> SUFFICES ASSUME NEW i \in 0 .. buffer_size + n - 1
             PROVE  Stored(slot, n, written + 1)[Fold(rp + i)] = taken + 1 + i
  OBVIOUS
<1>1. Fold(rp + i) \in 0 .. max_pipe_size - 1
  BY DEF Fold
<1>2. Stored(slot, n, written + 1)[Fold(rp + i)] =
        IF Fold(rp + i) >= slot /\ Fold(rp + i) < slot + n
        THEN written + 1 + (Fold(rp + i) - slot) ELSE ring[Fold(rp + i)]
  BY <1>1 DEF Stored
<1>3. CASE i < buffer_size
  <2>1. ~(Fold(rp + i) >= slot /\ Fold(rp + i) < slot + n)
    BY <1>3 DEF Fold
  <2>2. ring[Fold(rp + i)] = taken + 1 + i
    BY <1>3
  <2>3. QED
    BY <1>2, <2>1, <2>2
<1>4. CASE i >= buffer_size
  <2>1. Fold(rp + i) = slot + (i - buffer_size)
    BY <1>4 DEF Fold
  <2>2. QED
    BY <1>2, <1>4, <2>1
<1>5. QED
  BY <1>3, <1>4

(* n bytes read where the queue begins: the last of them is byte taken + n *)
(* and the rest is the queue.                                              *)
LEMMA QueueRead ==
  ASSUME max_pipe_size \in Nat \ {0}, rp \in 0 .. max_pipe_size,
         buffer_size \in 0 .. max_pipe_size, taken \in Nat,
         NEW slot \in 0 .. max_pipe_size - 1, slot = Fold(rp), NEW n \in Nat,
         slot + n <= max_pipe_size, n <= buffer_size,
         \A i \in 0 .. buffer_size - 1 : ring[Fold(rp + i)] = taken + 1 + i
  PROVE  /\ \A i \in 0 .. buffer_size - n - 1 : ring[Fold(slot + n + i)] = taken + n + 1 + i
         /\ n > 0 => ring[slot + n - 1] = taken + n
<1>1. ASSUME NEW i \in 0 .. buffer_size - n - 1
      PROVE  ring[Fold(slot + n + i)] = taken + n + 1 + i
  <2>1. n + i \in 0 .. buffer_size - 1
    OBVIOUS
  <2>2. ring[Fold(rp + (n + i))] = taken + 1 + (n + i)
    BY <2>1
  <2>3. Fold(rp + (n + i)) = Fold(slot + n + i)
    BY <2>1 DEF Fold
  <2>4. QED
    BY <2>2, <2>3
<1>2. ASSUME n > 0 PROVE ring[slot + n - 1] = taken + n
  <2>1. n - 1 \in 0 .. buffer_size - 1
    BY <1>2
  <2>2. ring[Fold(rp + (n - 1))] = taken + 1 + (n - 1)
    BY <2>1
  <2>3. Fold(rp + (n - 1)) = slot + n - 1
    BY <2>1 DEF Fold
  <2>4. QED
    BY <2>2, <2>3
<1>3. QED
  BY <1>1, <1>2

(* A step that leaves no second part to do and keeps the unread bytes.     *)
LEMMA QueueKept ==
  ASSUME TypeOK, SemInv, CountInv, QueueInv, NEW p \in Procs, Holding(p),
         \A q \in Procs : q # p => pc'[q] = pc[q],
         pc'[p] \notin {"w_wrap", "r_wrap"},
         clean' => /\ last' = taken' /\ wp' <= max_pipe_size
                   /\ allocated' =>
                        /\ rp' + buffer_size' - wp' \in
                             {-max_pipe_size, 0, max_pipe_size, 2 * max_pipe_size}
                        /\ \A i \in 0 .. buffer_size' - 1 : ring'[Fold(rp' + i)] = taken' + 1 + i
  PROVE  QueueInv'
<1>1. \A q \in Procs : pc'[q] \notin {"w_wrap", "r_wrap"}
  BY OthersOutside
<1>2. Writers \subseteq Procs /\ Readers \subseteq Procs
  BY DEF Procs
<1>3. QED
  BY <1>1, <1>2 DEF QueueInv, Fold

(* What is known of a queue that nothing was split from.                   *)
LEMMA QueueFacts ==
  ASSUME TypeOK, CountInv, QueueInv, clean, allocated
  PROVE  /\ max_pipe_size \in Nat \ {0} /\ rp \in 0 .. max_pipe_size /\ wp \in 0 .. max_pipe_size
         /\ buffer_size \in 0 .. max_pipe_size /\ taken \in Nat /\ written = taken + buffer_size
         /\ last = taken
         /\ rp + buffer_size - wp \in {-max_pipe_size, 0, max_pipe_size, 2 * max_pipe_size}
         /\ \A i \in 0 .. buffer_size - 1 : ring[Fold(rp + i)] = taken + 1 + i
<1>1. /\ buffer_size \in 0 .. max_pipe_size /\ buffer_size = written - taken
      /\ wp \in Nat /\ written \in Nat /\ taken \in Nat /\ rp \in 0 .. max_pipe_size
      /\ max_pipe_size \in Nat \ {0}
  BY PipeMultiAssumption DEF CountInv, TypeOK, end
<1>2. /\ last = taken /\ wp <= max_pipe_size
      /\ rp + buffer_size - wp \in {-max_pipe_size, 0, max_pipe_size, 2 * max_pipe_size}
      /\ \A i \in 0 .. buffer_size - 1 : ring[Fold(rp + i)] = taken + 1 + i
  BY DEF QueueInv
<1>3. QED
  BY <1>1, <1>2

(* On a device with a buffer a pointer in the ring folds to its slot, and  *)
(* the end of the queue is as far from the slot.                           *)
LEMMA SlotFolds ==
  ASSUME max_pipe_size \in Nat \ {0}, allocated, NEW pointer \in 0 .. max_pipe_size
  PROVE  /\ Slot(pointer) = Fold(pointer) /\ Slot(pointer) \in 0 .. max_pipe_size - 1
         /\ Slot(pointer) = pointer \/ (pointer = max_pipe_size /\ Slot(pointer) = 0)
BY DEF Slot, Fold, end

LEMMA DistanceKept ==
  ASSUME TypeOK, CountInv, QueueInv, clean, allocated
  PROVE  /\ rp + buffer_size - Slot(wp) \in {-max_pipe_size, 0, max_pipe_size, 2 * max_pipe_size}
         /\ Slot(rp) + buffer_size - wp \in {-max_pipe_size, 0, max_pipe_size, 2 * max_pipe_size}
         /\ Slot(wp) \in 0 .. max_pipe_size - 1 /\ Slot(rp) \in 0 .. max_pipe_size - 1
         /\ Slot(rp) = Fold(rp)
<1>1. /\ max_pipe_size \in Nat \ {0} /\ rp \in 0 .. max_pipe_size /\ wp \in 0 .. max_pipe_size
      /\ buffer_size \in 0 .. max_pipe_size
      /\ rp + buffer_size - wp \in {-max_pipe_size, 0, max_pipe_size, 2 * max_pipe_size}
  BY QueueFacts
<1>2. /\ Slot(wp) \in 0 .. max_pipe_size - 1
      /\ Slot(wp) = wp \/ (wp = max_pipe_size /\ Slot(wp) = 0)
  BY <1>1, SlotFolds
<1>3. /\ Slot(rp) = Fold(rp) /\ Slot(rp) \in 0 .. max_pipe_size - 1
      /\ Slot(rp) = rp \/ (rp = max_pipe_size /\ Slot(rp) = 0)
  BY <1>1, SlotFolds
<1>4. rp + buffer_size - Slot(wp) \in {-max_pipe_size, 0, max_pipe_size, 2 * max_pipe_size}
  BY <1>1, <1>2
<1>5. Slot(rp) + buffer_size - wp \in {-max_pipe_size, 0, max_pipe_size, 2 * max_pipe_size}
  BY <1>1, <1>3
<1>6. QED
  BY <1>2, <1>3, <1>4, <1>5

LEMMA WriteCopyQueue ==
  ASSUME TypeOK, SemInv, CountInv, QueueInv, NEW w \in Writers, WriteCopy(w)
  PROVE  QueueInv'
<1>1. PICK n \in Nat, first \in Nat :
        /\ first <= n /\ buffer_size + n <= max_pipe_size
        /\ Slot(wp) \in 0 .. max_pipe_size - 1 /\ Slot(wp) + first <= max_pipe_size
        /\ first # n => \/ Slot(wp) + first = max_pipe_size
                        \/ Slot(wp) = 0 /\ first = 0
        /\ ring' = Stored(Slot(wp), first, written + 1)
        /\ wp' = Slot(wp) + first
        /\ buffer_size' = buffer_size + first
        /\ written' = written + first
        /\ clean' = (clean /\ first \in {0, n})
        /\ Copied(w, first, n - first, "w_copy", "w_wrap", "w_wake")
        /\ UNCHANGED <<allocated, rp, taken, last, torn>>
        /\ allocated /\ pc[w] = "w_copy"
  BY WriteCopySteps
<1> SUFFICES ASSUME clean' PROVE QueueInv'
  BY DEF QueueInv
<1>2. clean /\ first \in {0, n}
  BY <1>1
<1>3. w \in Procs /\ Holding(w)
  BY <1>1 DEF Procs, Holding
<1>4. /\ max_pipe_size \in Nat \ {0} /\ rp \in 0 .. max_pipe_size /\ wp \in 0 .. max_pipe_size
      /\ buffer_size \in 0 .. max_pipe_size /\ taken \in Nat /\ written = taken + buffer_size
      /\ last = taken
      /\ \A i \in 0 .. buffer_size - 1 : ring[Fold(rp + i)] = taken + 1 + i
  BY <1>1, <1>2, QueueFacts
<1>5. /\ rp + buffer_size - Slot(wp) \in {-max_pipe_size, 0, max_pipe_size, 2 * max_pipe_size}
  BY <1>1, <1>2, DistanceKept
<1>6. \A i \in 0 .. buffer_size' - 1 : ring'[Fold(rp' + i)] = taken' + 1 + i
  <2>1. \A i \in 0 .. buffer_size + first - 1 :
          Stored(Slot(wp), first, written + 1)[Fold(rp + i)] = taken + 1 + i
    <3>1. buffer_size + first <= max_pipe_size
      BY <1>1, <1>4
    <3>2. QED
      BY <1>1, <1>4, <1>5, <3>1, QueueWritten
  <2>2. rp' = rp /\ taken' = taken /\ buffer_size' = buffer_size + first
        /\ ring' = Stored(Slot(wp), first, written + 1)
    BY <1>1
  <2>3. 0 .. buffer_size' - 1 = 0 .. buffer_size + first - 1
    <3>1. buffer_size' - 1 = buffer_size + first - 1
      BY <1>4, <2>2
    <3>2. QED
      BY <3>1, Zenon
  <2>4. QED
    BY <2>1, <2>2, <2>3, Zenon
<1>7. rp' + buffer_size' - wp' \in {-max_pipe_size, 0, max_pipe_size, 2 * max_pipe_size}
  <2>1. rp' + buffer_size' - wp' = rp + buffer_size - Slot(wp)
    BY <1>1, <1>4
  <2>2. QED
    BY <1>5, <2>1
<1>8. last' = taken' /\ wp' <= max_pipe_size
  BY <1>1, <1>4
<1>9. n - first \in Nat
  BY <1>1
<1>10. /\ num_bytes'[w] = first /\ wrapped'[w] = n - first
       /\ \/ n - first > 0 /\ Move(w, "w_copy", "w_wrap")
          \/ n - first = 0 /\ Move(w, "w_copy", "w_wake")
  <2>1. Copied(w, first, n - first, "w_copy", "w_wrap", "w_wake")
    BY <1>1
  <2>2. QED
    BY <1>3, <1>9, <2>1, CopiedTypes
<1>11. /\ \A q \in Procs : q # w => pc'[q] = pc[q]
       /\ (pc'[w] = "w_wrap" /\ n - first > 0) \/ pc'[w] = "w_wake"
  BY <1>10, WriterMoves DEF WriterPC
<1>12. \A q \in Procs : q # w => pc'[q] \notin {"w_wrap", "r_wrap"}
  BY <1>3, <1>11, OthersOutside
<1>13. pc'[w] = "w_wrap" => num_bytes'[w] = 0 /\ wp' = 0
  BY <1>1, <1>2, <1>4, <1>10, <1>11
<1>14. QED
  BY <1>6, <1>7, <1>8, <1>11, <1>12, <1>13 DEF QueueInv, Procs, Fold

LEMMA WriteWrapQueue ==
  ASSUME TypeOK, SemInv, CountInv, QueueInv, NEW w \in Writers, WriteWrap(w)
  PROVE  QueueInv'
<1>1. /\ Move(w, "w_wrap", "w_wake")
      /\ ring' = Stored(Slot(wp), wrapped[w], written - num_bytes[w] + 1)
      /\ wp' = Slot(wp) + wrapped[w]
      /\ buffer_size' = buffer_size + wrapped[w]
      /\ UNCHANGED <<allocated, rp, taken, last, clean>>
  BY DEF WriteWrap
<1>2. /\ w \in Procs /\ pc[w] = "w_wrap" /\ pc'[w] = "w_wake"
      /\ \A q \in Procs : q # w => pc'[q] = pc[q]
  BY <1>1, WriterMoves DEF WriterPC
<1>3. ASSUME clean
      PROVE  /\ last' = taken' /\ wp' <= max_pipe_size
             /\ rp' + buffer_size' - wp' \in {-max_pipe_size, 0, max_pipe_size, 2 * max_pipe_size}
             /\ \A i \in 0 .. buffer_size' - 1 : ring'[Fold(rp' + i)] = taken' + 1 + i
  <2>1. /\ num_bytes[w] = 0 /\ wp = 0 /\ allocated
        /\ wrapped[w] \in Nat /\ buffer_size + wrapped[w] <= max_pipe_size
    BY <1>2, <1>3 DEF QueueInv, CountInv, TypeOK
  <2>2. /\ max_pipe_size \in Nat \ {0} /\ rp \in 0 .. max_pipe_size
        /\ buffer_size \in 0 .. max_pipe_size /\ taken \in Nat /\ written = taken + buffer_size
        /\ last = taken
        /\ rp + buffer_size - 0 \in {-max_pipe_size, 0, max_pipe_size, 2 * max_pipe_size}
        /\ \A i \in 0 .. buffer_size - 1 : ring[Fold(rp + i)] = taken + 1 + i
    BY <1>3, <2>1, QueueFacts
  <2>3. /\ Slot(wp) = 0 /\ 0 \in 0 .. max_pipe_size - 1
        /\ wrapped[w] <= max_pipe_size /\ 0 + wrapped[w] <= max_pipe_size
    BY <2>1, <2>2, SlotFolds
  <2>4. \A i \in 0 .. buffer_size + wrapped[w] - 1 :
          Stored(0, wrapped[w], written + 1)[Fold(rp + i)] = taken + 1 + i
    <3>1. wrapped[w] \in Nat /\ buffer_size + wrapped[w] <= max_pipe_size
      BY <2>1
    <3>2. QED
      BY <2>2, <2>3, <3>1, QueueWritten
  <2>5. ring' = Stored(0, wrapped[w], written + 1)
    BY <1>1, <2>1, <2>2, <2>3
  <2>6. wp' = wrapped[w] /\ buffer_size' = buffer_size + wrapped[w]
        /\ rp' = rp /\ taken' = taken /\ last' = last
    BY <1>1, <2>1, <2>3
  <2>7. \A i \in 0 .. buffer_size' - 1 : ring'[Fold(rp' + i)] = taken' + 1 + i
    <3>1. 0 .. buffer_size' - 1 = 0 .. buffer_size + wrapped[w] - 1
      <4>1. buffer_size' - 1 = buffer_size + wrapped[w] - 1
        BY <2>1, <2>2, <2>6
      <4>2. QED
        BY <4>1, Zenon
    <3>2. QED
      BY <2>4, <2>5, <2>6, <3>1, Zenon
  <2>8. rp' + buffer_size' - wp' = rp + buffer_size - 0
    BY <2>1, <2>2, <2>6
  <2>9. QED
    BY <2>2, <2>3, <2>6, <2>7, <2>8
<1>4. QED
  BY <1>1, <1>2, <1>3, QueueKept DEF Holding

LEMMA ReadCopyQueue ==
  ASSUME TypeOK, SemInv, CountInv, QueueInv, NEW r \in Readers, ReadCopy(r)
  PROVE  QueueInv'
<1>1. PICK n \in Nat, first \in Nat :
        /\ first <= n /\ n <= buffer_size
        /\ Slot(rp) \in 0 .. end /\ Slot(rp) + first \in 0 .. end
        /\ first > 0 => Slot(rp) = rp
        /\ first # n => Slot(rp) + first \in {0, end}
        /\ rp' = Slot(rp) + first
        /\ buffer_size' = buffer_size - first
        /\ taken' = taken + first
        /\ last' = IF first = 0 THEN last ELSE ring[Slot(rp) + first - 1]
        /\ clean' = (clean /\ first = n)
        /\ Copied(r, first, n - first, "r_copy", "r_wrap", "r_wake")
        /\ UNCHANGED <<allocated, ring, wp, written, torn>>
        /\ pc[r] = "r_copy"
  BY ReadCopySteps
<1> SUFFICES ASSUME clean' PROVE QueueInv'
  BY DEF QueueInv
<1>2. clean /\ first = n
  BY <1>1
<1>3. r \in Procs /\ Holding(r)
  BY <1>1 DEF Procs, Holding
<1>4. /\ \A q \in Procs : q # r => pc'[q] = pc[q]
      /\ pc'[r] = "r_wake"
  <2>1. n - first = 0 /\ Copied(r, first, n - first, "r_copy", "r_wrap", "r_wake")
    BY <1>1, <1>2
  <2>2. Move(r, "r_copy", "r_wake")
    BY <2>1 DEF Copied
  <2>3. QED
    BY <2>2, ReaderMoves DEF ReaderPC
<1>5. CASE ~allocated
  <2>1. end = 0 /\ written = 0 /\ buffer_size = written - taken /\ buffer_size \in 0 .. max_pipe_size
        /\ taken \in Nat /\ last = taken /\ wp = 0
    BY <1>2, <1>5 DEF end, CountInv, QueueInv, TypeOK
  <2>2. max_pipe_size \in Nat
    BY PipeMultiAssumption
  <2>3. first = 0
    BY <1>1, <2>1, <2>2
  <2>4. last' = taken' /\ wp' <= max_pipe_size /\ ~allocated'
    BY <1>1, <1>5, <2>1, <2>2, <2>3
  <2>5. QED
    BY <1>3, <1>4, <2>4, QueueKept
<1>6. CASE allocated
  <2>1. /\ max_pipe_size \in Nat \ {0} /\ rp \in 0 .. max_pipe_size /\ wp \in 0 .. max_pipe_size
        /\ buffer_size \in 0 .. max_pipe_size /\ taken \in Nat
        /\ last = taken
        /\ \A i \in 0 .. buffer_size - 1 : ring[Fold(rp + i)] = taken + 1 + i
    BY <1>2, <1>6, QueueFacts
  <2>2. /\ Slot(rp) + buffer_size - wp \in {-max_pipe_size, 0, max_pipe_size, 2 * max_pipe_size}
        /\ Slot(rp) \in 0 .. max_pipe_size - 1 /\ Slot(rp) = Fold(rp)
    BY <1>2, <1>6, DistanceKept
  <2>3. Slot(rp) + first <= max_pipe_size /\ first <= buffer_size
    BY <1>1, <1>6, <2>1, <2>2 DEF end
  <2>4. /\ \A i \in 0 .. buffer_size - first - 1 : ring[Fold(Slot(rp) + first + i)] = taken + first + 1 + i
        /\ first > 0 => ring[Slot(rp) + first - 1] = taken + first
    BY <2>1, <2>2, <2>3, QueueRead
  <2>5. /\ rp' = Slot(rp) + first /\ buffer_size' = buffer_size - first /\ taken' = taken + first
        /\ ring' = ring /\ wp' = wp
        /\ last' = IF first = 0 THEN last ELSE ring[Slot(rp) + first - 1]
    BY <1>1
  <2>6. \A i \in 0 .. buffer_size' - 1 : ring'[Fold(rp' + i)] = taken' + 1 + i
    BY <2>4, <2>5
  <2>7. rp' + buffer_size' - wp' = Slot(rp) + buffer_size - wp
    BY <2>1, <2>2, <2>5
  <2>8. last' = taken' /\ wp' <= max_pipe_size
    BY <2>1, <2>4, <2>5
  <2>9. QED
    BY <1>3, <1>4, <2>2, <2>6, <2>7, <2>8, QueueKept
<1>7. QED
  BY <1>5, <1>6

(* A call that fails leaves the queue as it was.                           *)
LEMMA WriteFailureQueue ==
  ASSUME TypeOK, SemInv, CountInv, QueueInv, NEW w \in Writers,
         WriteFault(w) \/ WriteNegative(w) \/ WriteWrapFault(w)
  PROVE  QueueInv'
<1>1. /\ wp' = Slot(wp)
      /\ UNCHANGED <<allocated, ring, rp, buffer_size, written, taken, last, clean>>
  BY DEF WriteFault, WriteNegative, WriteWrapFault, history
<1>2. \E from \in {"w_copy", "w_wrap"}, to \in {"idle", "oops"} : Move(w, from, to)
  BY DEF WriteFault, WriteNegative, WriteWrapFault, Fault
<1>3. /\ w \in Procs /\ pc[w] \in {"w_copy", "w_wrap"} /\ pc'[w] \in {"idle", "oops"}
      /\ \A q \in Procs : q # w => pc'[q] = pc[q]
  BY <1>2, WriterMoves DEF WriterPC
<1>4. allocated
  BY <1>3 DEF CountInv
<1>5. ASSUME clean
      PROVE  /\ last' = taken' /\ wp' <= max_pipe_size
             /\ rp' + buffer_size' - wp' \in {-max_pipe_size, 0, max_pipe_size, 2 * max_pipe_size}
             /\ \A i \in 0 .. buffer_size' - 1 : ring'[Fold(rp' + i)] = taken' + 1 + i
  <2>1. /\ max_pipe_size \in Nat \ {0} /\ last = taken
        /\ \A i \in 0 .. buffer_size - 1 : ring[Fold(rp + i)] = taken + 1 + i
    BY <1>4, <1>5, QueueFacts
  <2>2. /\ rp + buffer_size - Slot(wp) \in {-max_pipe_size, 0, max_pipe_size, 2 * max_pipe_size}
        /\ Slot(wp) \in 0 .. max_pipe_size - 1
    BY <1>4, <1>5, DistanceKept
  <2>3. Slot(wp) <= max_pipe_size
    BY <2>1, <2>2
  <2>4. QED
    BY <1>1, <2>1, <2>2, <2>3, Zenon
<1>6. QED
  BY <1>1, <1>3, <1>5, QueueKept DEF Holding

LEMMA ReadFailureQueue ==
  ASSUME TypeOK, SemInv, CountInv, QueueInv, NEW r \in Readers, ReadFault(r) \/ ReadWrapFault(r)
  PROVE  QueueInv'
<1>1. /\ rp' = Slot(rp)
      /\ UNCHANGED <<allocated, ring, wp, buffer_size, written, taken, last, clean>>
  BY DEF ReadFault, ReadWrapFault, history
<1>2. \E from \in {"r_copy", "r_wrap"} : Move(r, from, "idle")
  BY DEF ReadFault, ReadWrapFault, Fault
<1>3. /\ r \in Procs /\ pc[r] \in {"r_copy", "r_wrap"} /\ pc'[r] = "idle"
      /\ \A q \in Procs : q # r => pc'[q] = pc[q]
  BY <1>2, ReaderMoves DEF ReaderPC
<1>4. ASSUME clean, allocated
      PROVE  /\ rp' + buffer_size' - wp' \in {-max_pipe_size, 0, max_pipe_size, 2 * max_pipe_size}
             /\ \A i \in 0 .. buffer_size' - 1 : ring'[Fold(rp' + i)] = taken' + 1 + i
  <2>1. /\ max_pipe_size \in Nat \ {0} /\ rp \in 0 .. max_pipe_size
        /\ buffer_size \in 0 .. max_pipe_size /\ taken \in Nat
        /\ \A i \in 0 .. buffer_size - 1 : ring[Fold(rp + i)] = taken + 1 + i
    BY <1>4, QueueFacts
  <2>2. /\ Slot(rp) + buffer_size - wp \in {-max_pipe_size, 0, max_pipe_size, 2 * max_pipe_size}
        /\ Slot(rp) \in 0 .. max_pipe_size - 1 /\ Slot(rp) = Fold(rp)
    BY <1>4, DistanceKept
  <2>3. \A i \in 0 .. buffer_size - 1 : ring[Fold(Slot(rp) + i)] = taken + 1 + i
    <3>1. ASSUME NEW i \in 0 .. buffer_size - 1 PROVE ring[Fold(Slot(rp) + i)] = taken + 1 + i
      <4>1. Fold(rp + i) = Fold(Slot(rp) + i)
        BY <2>1, <2>2 DEF Fold
      <4>2. ring[Fold(rp + i)] = taken + 1 + i
        BY <2>1
      <4>3. QED
        BY <4>1, <4>2
    <3>2. QED
      BY <3>1
  <2>4. QED
    BY <1>1, <2>2, <2>3, Zenon
<1>5. ASSUME clean PROVE last' = taken' /\ wp' <= max_pipe_size
  BY <1>1, <1>5 DEF QueueInv
<1>6. QED
  BY <1>1, <1>3, <1>4, <1>5, QueueKept DEF Holding

(* The second part of a read spoils the queue, but there is none yet.      *)
LEMMA ReadWrapQueue ==
  ASSUME TypeOK, QueueInv, NEW r \in Readers, ReadWrap(r)
  PROVE  QueueInv'
<1>1. pc[r] = "r_wrap" /\ clean' = clean
  BY DEF ReadWrap, Move
<1>2. QED
  BY <1>1 DEF QueueInv

LEMMA OpenForWriteQueue ==
  ASSUME TypeOK, SemInv, CountInv, QueueInv, NEW w \in Writers, OpenForWrite(w)
  PROVE  QueueInv'
<1>1. /\ UNCHANGED <<ring, buffer_size, written, taken, last, clean>>
      /\ wp' = IF allocated THEN wp ELSE 0
      /\ rp' = IF allocated THEN rp ELSE 0
  BY DEF OpenForWrite, history
<1>2. \E to \in {"idle", "closed"} : Move(w, "open", to)
  BY DEF OpenForWrite
<1>3. /\ w \in Procs /\ pc[w] = "open" /\ pc'[w] \in {"idle", "closed"}
      /\ \A q \in Procs : q # w => pc'[q] = pc[q]
  BY <1>2, WriterMoves DEF WriterPC
<1>4. \A q \in Procs : pc'[q] \notin {"w_wrap", "r_wrap"}
  BY <1>3, OthersOutside DEF Holding
<1>5. CASE allocated
  BY <1>1, <1>4, <1>5 DEF QueueInv, Fold, Procs
<1>6. CASE ~allocated
  <2>1. /\ max_pipe_size \in Nat \ {0} /\ buffer_size = 0
    BY <1>6, PipeMultiAssumption DEF CountInv, TypeOK
  <2>2. QED
    BY <1>1, <1>4, <1>6, <2>1 DEF QueueInv, Procs
<1>7. QED
  BY <1>5, <1>6

LEMMA QueueStep == TypeOK /\ SemInv /\ CountInv /\ QueueInv /\ [Next]_vars => QueueInv'
<1> SUFFICES ASSUME TypeOK, SemInv, CountInv, QueueInv, [Next]_vars PROVE QueueInv'
  OBVIOUS
<1>1. ASSUME NEW w \in Writers, Writer(w) PROVE QueueInv'
  <2>1. \/ QuietWrite(w) \/ OpenForWrite(w) \/ WriteCopy(w) \/ WriteWrap(w)
        \/ WriteFault(w) \/ WriteNegative(w) \/ WriteWrapFault(w)
    BY <1>1 DEF Writer, WriterRuns, QuietWrite
  <2>2. QED
    BY <2>1, QuietWrites, QuietKeeps, OpenForWriteQueue, WriteCopyQueue, WriteWrapQueue,
       WriteFailureQueue
<1>2. ASSUME NEW r \in Readers, Reader(r) PROVE QueueInv'
  <2>1. \/ QuietRead(r) \/ ReadCopy(r) \/ ReadWrap(r)
        \/ ReadFault(r) \/ ReadWrapFault(r)
    BY <1>2 DEF Reader, ReaderRuns, QuietRead
  <2>2. QED
    BY <2>1, QuietReads, QuietKeeps, ReadCopyQueue, ReadWrapQueue, ReadFailureQueue
<1>3. ASSUME NEW p \in Procs, SignalArrives(p) PROVE QueueInv'
  BY <1>3, QuietSignals, QuietKeeps
<1>4. CASE UNCHANGED vars
  <2>1. Quiet
    BY <1>4 DEF vars, locals, history, Quiet
  <2>2. QED
    BY <2>1, QuietKeeps
<1>5. QED
  BY <1>1, <1>2, <1>3, <1>4 DEF Next

-----------------------------------------------------------------------------
(* The sleepers                                                            *)

(* A step that adds no byte, puts nobody to sleep and keeps those that are *)
(* about to wake.                                                          *)
LEMMA WakeKept ==
  ASSUME TypeOK, TypeOK', WakeInv, buffer_size' <= buffer_size, torn => torn',
         \A r \in Readers : pc'[r] = "r_sleep" => pc[r] = "r_sleep",
         \A w \in Writers : Waker(w) => Waker(w)'
  PROVE  WakeInv'
<1>1. buffer_size \in Int /\ buffer_size' \in Int
  BY DEF TypeOK
<1>2. ASSUME NEW r \in Readers, pc'[r] = "r_sleep" /\ buffer_size' > 0
      PROVE  torn' \/ \E w \in Writers : Waker(w)'
  BY <1>1, <1>2 DEF WakeInv, Waker
<1>3. QED
  BY <1>2 DEF WakeInv, Waker

LEMMA QuietWritesWake ==
  ASSUME TypeOK, SemInv, CountInv, WakeInv, NEW w \in Writers, QuietWrite(w)
  PROVE  WakeInv'
<1>1. TypeOK' /\ Quiet
  BY QuietWrites
<1>2. w \in Procs /\ w \notin Readers /\ Readers \subseteq Procs /\ Writers \subseteq Procs
  BY KernelAssumption DEF Procs
<1>3. CASE WriteWake(w)
  <2>1. pc[w] = "w_wake" /\ pc' = [Woken(Readers) EXCEPT ![w] = "idle"]
    BY <1>3 DEF WriteWake
  <2>2. \A q \in Procs : q # w =>
          \/ pc'[q] = pc[q] /\ (q \in Readers => pc[q] \notin {"w_sleep", "r_sleep"})
          \/ q \in Readers /\ pc[q] = "w_sleep" /\ pc'[q] = "w_wait"
          \/ q \in Readers /\ pc[q] = "r_sleep" /\ pc'[q] = "r_wait"
    BY <1>2, <2>1, WakeMoves
  <2>3. \A r \in Readers : pc'[r] # "r_sleep"
    BY <1>2, <2>2
  <2>4. QED
    BY <2>3 DEF WakeInv
<1>4. CASE ~WriteWake(w)
  <2>1. PICK from \in WriterPC, to \in WriterPC :
          Move(w, from, to) /\ from \notin {"w_wake", "w_wrap"} /\ UNCHANGED torn
    BY <1>4 DEF QuietWrite, OpenStart, close_pipe, WriteStart, WriterDown, DownInterruptible, Down,
                WriteWait, DownFails, Interrupted, WriterPC, history
  <2>2. pc[w] = from /\ \A q \in Procs : q # w => pc'[q] = pc[q]
    BY <2>1, WriterMoves
  <2>3. buffer_size' = buffer_size
    BY <1>1 DEF Quiet, device
  <2>4. buffer_size' <= buffer_size
    BY <1>1, <2>3 DEF TypeOK
  <2>5. \A r \in Readers : pc'[r] = "r_sleep" => pc[r] = "r_sleep"
    BY <1>2, <2>2
  <2>6. \A v \in Writers : Waker(v) => Waker(v)'
    <3>1. ASSUME NEW v \in Writers, Waker(v) PROVE Waker(v)'
      <4>1. v # w /\ pc'[v] = pc[v]
        BY <1>2, <2>1, <2>2, <3>1 DEF Waker
      <4>2. QED
        BY <1>1, <1>2, <3>1, <4>1 DEF Waker, Quiet
    <3>2. QED
      BY <3>1
  <2>7. QED
    BY <1>1, <2>1, <2>4, <2>5, <2>6, WakeKept
<1>5. QED
  BY <1>3, <1>4

LEMMA QuietReadsWake ==
  ASSUME TypeOK, SemInv, CountInv, WakeInv, NEW r \in Readers, QuietRead(r)
  PROVE  WakeInv'
<1>1. TypeOK' /\ Quiet
  BY QuietReads
<1>2. r \in Procs /\ r \notin Writers /\ Readers \subseteq Procs /\ Writers \subseteq Procs
  BY KernelAssumption DEF Procs
<1>3. buffer_size' = buffer_size /\ buffer_size \in Int
  BY DEF TypeOK, QuietRead, OpenStart, close_pipe, ReadStart, ReaderDown, DownInterruptible, ReadWait,
         DownFails, ReadWake, OpenForRead, device
<1>4. UNCHANGED torn
  BY DEF QuietRead, OpenStart, close_pipe, ReadStart, ReaderDown, DownInterruptible, ReadWait,
         DownFails, ReadWake, OpenForRead, history
<1>5. CASE ReadWait(r) /\ buffer_size <= 0
  BY <1>3, <1>5 DEF WakeInv
<1>6. CASE ~(ReadWait(r) /\ buffer_size <= 0)
  <2>1. /\ \A q \in Readers : pc'[q] = "r_sleep" => pc[q] = "r_sleep"
        /\ \A v \in Writers : pc[v] \in {"w_wake", "w_wrap"} => pc'[v] = pc[v]
    <3>1. CASE ReadWake(r)
      <4>1. pc[r] = "r_wake" /\ pc' = [Woken(Writers) EXCEPT ![r] = "idle"]
        BY <3>1 DEF ReadWake
      <4>2. /\ pc'[r] = "idle"
            /\ \A q \in Procs : q # r =>
                 \/ pc'[q] = pc[q]
                 \/ pc[q] \in {"w_sleep", "r_sleep"} /\ pc'[q] \in {"w_wait", "r_wait"}
        BY <1>2, <4>1, WakeMoves
      <4>3. QED
        BY <1>2, <4>2
    <3>2. CASE ~ReadWake(r)
      <4>1. PICK from \in ReaderPC, to \in ReaderPC : Move(r, from, to) /\ to # "r_sleep"
        BY <1>3, <1>6, <3>2 DEF QuietRead, OpenStart, close_pipe, ReadStart, ReaderDown,
           DownInterruptible, Down, ReadWait, DownFails, Interrupted, OpenForRead, ReaderPC
      <4>2. pc'[r] = to /\ \A q \in Procs : q # r => pc'[q] = pc[q]
        BY <4>1, ReaderMoves
      <4>3. QED
        BY <1>2, <4>1, <4>2
    <3>3. QED
      BY <3>1, <3>2
  <2>2. \A v \in Writers : Waker(v) => Waker(v)'
    <3>1. ASSUME NEW v \in Writers, Waker(v) PROVE Waker(v)'
      BY <1>1, <1>2, <2>1, <3>1 DEF Waker, Quiet
    <3>2. QED
      BY <3>1
  <2>3. buffer_size' <= buffer_size
    BY <1>3
  <2>4. QED
    BY <1>1, <1>4, <2>1, <2>2, <2>3, WakeKept
<1>7. QED
  BY <1>5, <1>6

LEMMA SignalsWake ==
  ASSUME TypeOK, WakeInv, NEW p \in Procs, SignalArrives(p)
  PROVE  WakeInv'
<1>1. TypeOK' /\ Quiet
  BY QuietSignals
<1>2. Readers \subseteq Procs /\ Writers \subseteq Procs
  BY DEF Procs
<1>3. buffer_size' = buffer_size /\ buffer_size \in Int /\ UNCHANGED torn /\ Signal(p)
  BY DEF TypeOK, SignalArrives, device, history
<1>4. /\ \A q \in Procs : q # p => pc'[q] = pc[q]
      /\ \/ pc'[p] = pc[p]
         \/ pc[p] \in {"w_sleep", "r_sleep"} /\ pc'[p] \in {"w_wait", "r_wait"}
  BY <1>3, SignalMoves
<1>5. \A q \in Readers : pc'[q] = "r_sleep" => pc[q] = "r_sleep"
  BY <1>2, <1>4
<1>6. \A v \in Writers : Waker(v) => Waker(v)'
  <2>1. ASSUME NEW v \in Writers, Waker(v) PROVE Waker(v)'
    <3>1. pc'[v] = pc[v]
      BY <1>2, <1>4, <2>1 DEF Waker
    <3>2. QED
      BY <1>1, <1>2, <2>1, <3>1 DEF Waker, Quiet
  <2>2. QED
    BY <2>1
<1>7. buffer_size' <= buffer_size
  BY <1>3
<1>8. QED
  BY <1>1, <1>3, <1>5, <1>6, <1>7, WakeKept

(* One process inside: the others that wake somebody still do.             *)
LEMMA WakersStay ==
  ASSUME NEW p \in Procs, ~(p \in Writers /\ Waker(p)),
         \A q \in Procs : q # p => pc'[q] = pc[q],
         \A q \in Procs : q # p => num_bytes'[q] = num_bytes[q]
  PROVE  \A v \in Writers : Waker(v) => Waker(v)'
<1>1. ASSUME NEW v \in Writers, Waker(v) PROVE Waker(v)'
  <2>1. v # p /\ v \in Procs
    BY <1>1 DEF Procs
  <2>2. QED
    BY <1>1, <2>1 DEF Waker
<1>2. QED
  BY <1>1

(* A write that queues bytes is about to wake the readers.                 *)
LEMMA WriteCopyWake ==
  ASSUME TypeOK, TypeOK', SemInv, CountInv, WakeInv, NEW w \in Writers, WriteCopy(w)
  PROVE  WakeInv'
<1>1. PICK n \in Nat, first \in Nat :
        /\ first <= n
        /\ buffer_size' = buffer_size + first
        /\ Copied(w, first, n - first, "w_copy", "w_wrap", "w_wake")
        /\ UNCHANGED torn
        /\ pc[w] = "w_copy"
  BY WriteCopySteps
<1>2. w \in Procs /\ w \notin Readers /\ Readers \subseteq Procs
  BY KernelAssumption DEF Procs
<1>3. n - first \in Nat
  BY <1>1
<1>4. /\ num_bytes'[w] = first
      /\ \A q \in Procs : q # w => num_bytes'[q] = num_bytes[q]
      /\ Move(w, "w_copy", "w_wrap") \/ Move(w, "w_copy", "w_wake")
  <2>1. Copied(w, first, n - first, "w_copy", "w_wrap", "w_wake")
    BY <1>1
  <2>2. QED
    BY <1>2, <1>3, <2>1, CopiedTypes
<1>5. /\ \A q \in Procs : q # w => pc'[q] = pc[q]
      /\ pc'[w] \in {"w_wrap", "w_wake"}
  BY <1>4, WriterMoves DEF WriterPC
<1>6. CASE first = 0
  <2>1. buffer_size' <= buffer_size
    BY <1>1, <1>6 DEF TypeOK
  <2>2. \A r \in Readers : pc'[r] = "r_sleep" => pc[r] = "r_sleep"
    BY <1>2, <1>5
  <2>3. \A v \in Writers : Waker(v) => Waker(v)'
    BY <1>1, <1>2, <1>4, <1>5, WakersStay DEF Waker
  <2>4. QED
    BY <1>1, <2>1, <2>2, <2>3, WakeKept
<1>7. CASE first # 0
  <2>1. Waker(w)'
    BY <1>4, <1>5, <1>7 DEF Waker
  <2>2. QED
    BY <2>1 DEF WakeInv, Waker
<1>8. QED
  BY <1>6, <1>7

LEMMA WriteWrapWake ==
  ASSUME TypeOK, NEW w \in Writers, WriteWrap(w)
  PROVE  WakeInv'
<1>1. pc'[w] = "w_wake"
  BY WriterMoves DEF WriteWrap, WriterPC
<1>2. QED
  BY <1>1 DEF WakeInv, Waker

LEMMA WriteFailureWake ==
  ASSUME TypeOK, TypeOK', WakeInv, NEW w \in Writers,
         WriteFault(w) \/ WriteNegative(w) \/ WriteWrapFault(w)
  PROVE  WakeInv'
<1>1. w \in Procs /\ w \notin Readers /\ Readers \subseteq Procs
  BY KernelAssumption DEF Procs
<1>2. /\ buffer_size' = buffer_size
      /\ \E from \in {"w_copy", "w_wrap"}, to \in {"idle", "oops"} : Move(w, from, to)
  BY DEF WriteFault, WriteNegative, WriteWrapFault, Fault
<1>3. /\ \A q \in Procs : q # w => pc'[q] = pc[q]
      /\ pc'[w] \in {"idle", "oops"}
  BY <1>2, WriterMoves DEF WriterPC
<1>4. \A q \in Procs : q # w => num_bytes'[q] = num_bytes[q]
  <2>1. Leave(w) \/ UNCHANGED locals
    BY DEF WriteFault, WriteNegative, WriteWrapFault, Fault, Stay
  <2>2. QED
    BY <1>1, <2>1, LeaveTypes
<1>5. torn' = torn \/ torn' = (torn \/ num_bytes[w] > 0)
  BY DEF WriteFault, WriteNegative, WriteWrapFault, history
<1>6. CASE Waker(w)
  <2>1. WriteWrapFault(w) /\ num_bytes[w] > 0
    BY <1>6 DEF Waker, WriteFault, WriteNegative, WriteWrapFault, Fault, Move
  <2>2. torn'
    BY <2>1 DEF WriteWrapFault
  <2>3. QED
    BY <2>2 DEF WakeInv
<1>7. CASE ~Waker(w)
  <2>1. buffer_size' <= buffer_size
    BY <1>2 DEF TypeOK
  <2>2. \A r \in Readers : pc'[r] = "r_sleep" => pc[r] = "r_sleep"
    BY <1>1, <1>3
  <2>3. \A v \in Writers : Waker(v) => Waker(v)'
    BY <1>1, <1>3, <1>4, <1>7, WakersStay
  <2>4. torn => torn'
    BY <1>5
  <2>5. QED
    BY <2>1, <2>2, <2>3, <2>4, WakeKept
<1>8. QED
  BY <1>6, <1>7

LEMMA OpenForWriteWake ==
  ASSUME TypeOK, TypeOK', WakeInv, NEW w \in Writers, OpenForWrite(w)
  PROVE  WakeInv'
<1>1. w \in Procs /\ w \notin Readers /\ Readers \subseteq Procs
  BY KernelAssumption DEF Procs
<1>2. /\ buffer_size' = buffer_size /\ torn' = torn /\ Leave(w)
      /\ \E to \in {"idle", "closed"} : Move(w, "open", to)
  BY DEF OpenForWrite, history
<1>3. /\ \A q \in Procs : q # w => pc'[q] = pc[q]
      /\ pc[w] = "open"
  BY <1>2, WriterMoves DEF WriterPC
<1>4. \A q \in Procs : q # w => num_bytes'[q] = num_bytes[q]
  BY <1>1, <1>2, LeaveTypes
<1>5. buffer_size' <= buffer_size
  BY <1>2 DEF TypeOK
<1>6. \A r \in Readers : pc'[r] = "r_sleep" => pc[r] = "r_sleep"
  BY <1>1, <1>3
<1>7. \A v \in Writers : Waker(v) => Waker(v)'
  BY <1>1, <1>3, <1>4, WakersStay DEF Waker
<1>8. QED
  BY <1>2, <1>5, <1>6, <1>7, WakeKept

(* A read only takes bytes away.                                           *)
LEMMA ReadsWake ==
  ASSUME TypeOK, TypeOK', SemInv, CountInv, WakeInv, NEW r \in Readers,
         ReadCopy(r) \/ ReadWrap(r) \/ ReadFault(r) \/ ReadWrapFault(r)
  PROVE  WakeInv'
<1>1. r \in Procs /\ r \notin Writers /\ Readers \subseteq Procs
  BY KernelAssumption DEF Procs
<1>2. /\ buffer_size' <= buffer_size
      /\ \E from \in {"r_copy", "r_wrap"}, to \in {"r_wrap", "r_wake", "idle"} : Move(r, from, to)
      /\ \A q \in Procs : q # r => num_bytes'[q] = num_bytes[q]
      /\ torn' = torn
  <2>0. buffer_size \in Int /\ wrapped[r] \in Nat
    BY <1>1 DEF TypeOK
  <2>1. CASE ReadCopy(r)
    <3>1. PICK n \in Nat, first \in Nat :
            /\ first <= n
            /\ buffer_size' = buffer_size - first
            /\ Copied(r, first, n - first, "r_copy", "r_wrap", "r_wake")
            /\ UNCHANGED torn
      BY <2>1, ReadCopySteps
    <3>2. n - first \in Nat /\ buffer_size' <= buffer_size
      BY <2>0, <3>1
    <3>3. Copied(r, first, n - first, "r_copy", "r_wrap", "r_wake")
      BY <3>1
    <3>4. /\ \A q \in Procs : q # r => num_bytes'[q] = num_bytes[q]
          /\ Move(r, "r_copy", "r_wrap") \/ Move(r, "r_copy", "r_wake")
      BY <1>1, <3>2, <3>3, CopiedTypes
    <3>5. QED
      BY <3>1, <3>2, <3>4
  <2>2. CASE ReadWrap(r)
    <3>1. /\ Move(r, "r_wrap", "r_wake") /\ buffer_size' = buffer_size - wrapped[r]
          /\ num_bytes' = num_bytes /\ torn' = torn
      BY <2>2 DEF ReadWrap, Stay, locals
    <3>2. buffer_size' <= buffer_size
      BY <2>0, <3>1
    <3>3. QED
      BY <3>1, <3>2
  <2>3. CASE ReadFault(r) \/ ReadWrapFault(r)
    <3>1. /\ buffer_size' = buffer_size /\ torn' = torn
          /\ \E from \in {"r_copy", "r_wrap"} : \E n : Fault(r, from, n)
      BY <2>3 DEF ReadFault, ReadWrapFault, history
    <3>2. buffer_size' <= buffer_size
      BY <2>0, <3>1
    <3>3. /\ \E from \in {"r_copy", "r_wrap"} : Move(r, from, "idle")
          /\ \A q \in Procs : q # r => num_bytes'[q] = num_bytes[q]
      BY <1>1, <3>1, FaultTypes
    <3>4. QED
      BY <3>1, <3>2, <3>3
  <2>4. QED
    BY <2>1, <2>2, <2>3
<1>3. /\ \A q \in Procs : q # r => pc'[q] = pc[q]
      /\ pc'[r] # "r_sleep"
  BY <1>2, ReaderMoves DEF ReaderPC
<1>4. \A q \in Readers : pc'[q] = "r_sleep" => pc[q] = "r_sleep"
  BY <1>1, <1>3
<1>5. \A v \in Writers : Waker(v) => Waker(v)'
  BY <1>1, <1>2, <1>3, WakersStay
<1>6. QED
  BY <1>2, <1>4, <1>5, WakeKept

LEMMA WakeStep ==
  TypeOK /\ SemInv /\ CountInv /\ WakeInv /\ [Next]_vars => WakeInv'
<1> SUFFICES ASSUME TypeOK, SemInv, CountInv, WakeInv, [Next]_vars PROVE WakeInv'
  OBVIOUS
<1>0. TypeOK'
  BY CountStep
<1>1. ASSUME NEW w \in Writers, Writer(w) PROVE WakeInv'
  <2>1. \/ QuietWrite(w) \/ OpenForWrite(w) \/ WriteCopy(w) \/ WriteWrap(w)
        \/ WriteFault(w) \/ WriteNegative(w) \/ WriteWrapFault(w)
    BY <1>1 DEF Writer, WriterRuns, QuietWrite
  <2>2. QED
    BY <1>0, <2>1, QuietWritesWake, OpenForWriteWake, WriteCopyWake, WriteWrapWake, WriteFailureWake
<1>2. ASSUME NEW r \in Readers, Reader(r) PROVE WakeInv'
  <2>1. \/ QuietRead(r) \/ ReadCopy(r) \/ ReadWrap(r)
        \/ ReadFault(r) \/ ReadWrapFault(r)
    BY <1>2 DEF Reader, ReaderRuns, QuietRead
  <2>2. QED
    BY <1>0, <2>1, QuietReadsWake, ReadsWake
<1>3. ASSUME NEW p \in Procs, SignalArrives(p) PROVE WakeInv'
  BY <1>3, SignalsWake
<1>4. CASE UNCHANGED vars
  BY <1>4 DEF vars, device, locals, history, WakeInv, Waker
<1>5. QED
  BY <1>1, <1>2, <1>3, <1>4 DEF Next

-----------------------------------------------------------------------------
(* Theorems                                                                *)

PipeInv == TypeOK /\ SemInv /\ CountInv /\ QueueInv /\ WakeInv

(* The invariant in which every theorem below is a conjunct: who is inside *)
(* the semaphore, what a split call has left to do, where the queue lies   *)
(* and who will wake the sleeping readers.                                 *)
THEOREM Inductive == Spec => []PipeInv
<1>1. Init => PipeInv
  BY CountInit DEF PipeInv
<1>2. PipeInv /\ [Next]_vars => PipeInv'
  BY SemStep, CountStep, QueueStep, WakeStep DEF PipeInv
<1>3. QED
  BY <1>1, <1>2, PTL DEF Spec

(* The pointers are offsets that never go below the buffer, every count is *)
(* a number and nobody is where its kind of file has no code: write_pipe   *)
(* and read_pipe keep the types of all they touch.                         *)
THEOREM TypeCorrect == Spec => []TypeOK
<1>1. PipeInv => TypeOK
  BY DEF PipeInv
<1>2. QED
  BY <1>1, Inductive, PTL

(* buffer_size of write_pipe and read_pipe stays between 0 and             *)
(* max_pipe_size and is what was queued and not returned, whatever calls   *)
(* are split, fail or are interrupted.                                     *)
THEOREM CountStaysInBounds == Spec => []CountInBounds
<1>1. PipeInv => CountInBounds
  BY DEF PipeInv, CountInv, CountInBounds
<1>2. QED
  BY <1>1, Inductive, PTL

(* read_pipe keeps rp inside the ring, and the second part of a split read *)
(* is no longer than what is unread, although write_pipe loses wp.         *)
THEOREM ReadsInRing == Spec => []ReadsStayInRing
<1>1. PipeInv => ReadsStayInRing
  BY DEF PipeInv, CountInv, ReadsStayInRing
<1>2. QED
  BY <1>1, Inductive, PTL

(* Dividing by the ring's size an offset that is less than twice as large, *)
(* and the distances that QueueInv allows.                                 *)
LEMMA SmallRemainder ==
  ASSUME NEW m \in Nat \ {0}, NEW x \in 0 .. 2 * m - 1
  PROVE  x % m = IF x >= m THEN x - m ELSE x
OBVIOUS

LEMMA NoRemainder ==
  ASSUME NEW m \in Nat \ {0}, NEW x \in {-m, 0, m, 2 * m}
  PROVE  x % m = 0
OBVIOUS

(* As long as no call of write_pipe or read_pipe is split around end, the  *)
(* ring is a queue: reads return the bytes in order, and wp is where the   *)
(* unread ones end.                                                        *)
THEOREM QueueInRing == Spec => []RingIsQueue
<1>1. ASSUME PipeInv PROVE RingIsQueue
  <2>1. TypeOK /\ CountInv /\ QueueInv
    BY <1>1 DEF PipeInv
  <2>2. ASSUME clean PROVE last = taken
    BY <2>1, <2>2 DEF QueueInv
  <2>3. ASSUME clean, allocated
        PROVE  /\ (rp + buffer_size - wp) % max_pipe_size = 0
               /\ \A i \in 0 .. buffer_size - 1 : ring[(rp + i) % max_pipe_size] = taken + 1 + i
    <3>1. /\ max_pipe_size \in Nat \ {0} /\ rp \in 0 .. max_pipe_size
          /\ buffer_size \in 0 .. max_pipe_size
          /\ rp + buffer_size - wp \in {-max_pipe_size, 0, max_pipe_size, 2 * max_pipe_size}
          /\ \A i \in 0 .. buffer_size - 1 : ring[Fold(rp + i)] = taken + 1 + i
      BY <2>1, <2>3, QueueFacts
    <3>2. (rp + buffer_size - wp) % max_pipe_size = 0
      BY <3>1, NoRemainder
    <3>3. ASSUME NEW i \in 0 .. buffer_size - 1
          PROVE  ring[(rp + i) % max_pipe_size] = taken + 1 + i
      <4>1. rp + i \in 0 .. 2 * max_pipe_size - 1
        BY <3>1
      <4>2. (rp + i) % max_pipe_size = Fold(rp + i)
        BY <3>1, <4>1, SmallRemainder DEF Fold
      <4>3. QED
        BY <3>1, <4>2
    <3>4. QED
      BY <3>2, <3>3
  <2>4. QED
    BY <2>2, <2>3 DEF RingIsQueue
<1>2. QED
  BY <1>1, Inductive, PTL

(* A reader that sleeps in read_pipe while there is data has a writer on   *)
(* its way to wake_up_interruptible, unless a write failed between its     *)
(* parts: the one error path that queues bytes and wakes nobody.           *)
THEOREM SleeperIsWoken == Spec => []SleepingReaderWillBeWoken
<1>1. PipeInv => SleepingReaderWillBeWoken
  BY DEF PipeInv, WakeInv, Waker, SleepingReaderWillBeWoken
<1>2. QED
  BY <1>1, Inductive, PTL
=============================================================================
