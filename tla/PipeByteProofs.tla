--------------------------- MODULE PipeByteProofs ---------------------------
(***************************************************************************)
(* Safety of the one-byte pipe for any number of readers and writers, any  *)
(* pipe size of at least two, and any number of calls and signals.         *)
(***************************************************************************)
EXTENDS PipeByte, FiniteSetTheorems, SequenceTheorems, TLAPS

LEMMA WriterMoves ==
  ASSUME ControlOK, NEW w \in Writers, NEW from, NEW to \in WriterPC, Move(w, from, to)
  PROVE  ControlOK'
BY KernelAssumption DEF ControlOK, Move, Procs

LEMMA ReaderMoves ==
  ASSUME ControlOK, NEW r \in Readers, NEW from, NEW to \in ReaderPC, Move(r, from, to)
  PROVE  ControlOK'
BY KernelAssumption DEF ControlOK, Move, Procs

LEMMA InitTypes == Init => TypeOK
<1> SUFFICES ASSUME Init PROVE TypeOK
  OBVIOUS
<1> USE DEF Init, init_func
<1>1. ControlOK
  BY DEF ControlOK, Procs, WriterPC, ReaderPC
<1>2. allocated \in BOOLEAN /\ clean \in BOOLEAN
  OBVIOUS
<1> QED
  BY <1>1, <1>2, PipeAssumption DEF TypeOK

LEMMA WriterTypes ==
  ASSUME TypeOK, NEW w \in Writers, Writer(w)
  PROVE  TypeOK'
<1> USE DEF TypeOK, device, history
<1> w \in Procs
  BY DEF Procs
<1>1. CASE OpenForWrite(w)
  BY <1>1, WriterMoves DEF OpenForWrite, WriterPC
<1>2. CASE close_pipe(w)
  BY <1>2, WriterMoves DEF close_pipe, WriterPC
<1>3. CASE WriteStart(w)
  BY <1>3, WriterMoves DEF WriteStart, WriterPC
<1>4. CASE WriterDown(w)
  BY <1>4, WriterMoves DEF WriterDown, DownInterruptible, Down, WriterPC
<1>5. CASE WriterDownFails(w)
  BY <1>5, WriterMoves DEF WriterDownFails, DownFails, Interrupted, Leave, Delivered, WriterPC
<1>6. CASE OpenTrim(w)
  <2>1. ControlOK'
    BY <1>6, WriterMoves DEF OpenTrim, WriterPC
  <2>2. (allocated \in BOOLEAN /\ clean \in BOOLEAN)'
    BY <1>6 DEF OpenTrim, trim_pipe, ResetPointers
  <2>3. (ring \in [0 .. max_pipe_size - 1 -> Nat])'
    BY <1>6 DEF OpenTrim, trim_pipe, ResetPointers
  <2> QED
    BY <1>6, <2>1, <2>2, <2>3 DEF OpenTrim, trim_pipe, ResetPointers
<1>7. CASE OpenCreate(w)
  <2>1. PICK ok \in BOOLEAN :
          /\ Move(w, "open_create", IF ok THEN "idle" ELSE "closed")
          /\ allocated' = ok
          /\ sem' = 1
          /\ Leave(w)
          /\ UNCHANGED <<ring, wp, rp, buffer_size, history>>
    BY <1>7 DEF OpenCreate, up
  <2>2. ControlOK'
    BY <2>1, WriterMoves DEF WriterPC
  <2> QED
    BY <2>1, <2>2 DEF Leave, Delivered
<1>8. CASE WriteWait(w)
  BY <1>8, WriterMoves DEF WriteWait, WriterPC
<1>9. CASE WriteCopy(w)
  <2>1. ControlOK'
    BY <1>9, WriterMoves DEF WriteCopy, WriterPC
  <2>2. wp' \in Nat
    BY <1>9 DEF WriteCopy, Wrapped
  <2>3. ring' \in [0 .. max_pipe_size - 1 -> Nat]
    <3>1. ring' = ring \/ ring' = [ring EXCEPT ![wp'] = written + 1]
      BY <1>9 DEF WriteCopy
    <3>2. written + 1 \in Nat /\ ring \in [0 .. max_pipe_size - 1 -> Nat]
      OBVIOUS
    <3> QED
      BY ONLY <3>1, <3>2
  <2>4. clean' \in BOOLEAN
    BY <1>9 DEF WriteCopy
  <2> QED
    BY <1>9, <2>1, <2>2, <2>3, <2>4 DEF WriteCopy
<1>10. CASE WriteAdvance(w)
  BY <1>10, WriterMoves DEF WriteAdvance, Advanced, up, WriterPC
<1>11. CASE WriteWake(w)
  <2>1. ControlOK'
    BY <1>11, KernelAssumption DEF WriteWake, Woken, Resumed, ControlOK, Procs, WriterPC, ReaderPC
  <2> QED
    BY <1>11, <2>1 DEF WriteWake, Leave, Delivered
<1> QED
  BY <1>1, <1>2, <1>3, <1>4, <1>5, <1>6, <1>7, <1>8, <1>9, <1>10, <1>11
     DEF Writer, WriterRuns

LEMMA ReaderTypes ==
  ASSUME TypeOK, NEW r \in Readers, Reader(r)
  PROVE  TypeOK'
<1> USE DEF TypeOK, device, history
<1> r \in Procs
  BY DEF Procs
<1>1. CASE OpenForRead(r)
  BY <1>1, ReaderMoves DEF OpenForRead, ReaderPC
<1>2. CASE close_pipe(r)
  BY <1>2, ReaderMoves DEF close_pipe, ReaderPC
<1>3. CASE ReadStart(r)
  BY <1>3, ReaderMoves DEF ReadStart, ReaderPC
<1>4. CASE ReaderDown(r)
  BY <1>4, ReaderMoves DEF ReaderDown, DownInterruptible, Down, ReaderPC
<1>5. CASE DownFails(r, "r_sem", "idle")
  BY <1>5, ReaderMoves DEF DownFails, Interrupted, Leave, Delivered, ReaderPC
<1>6. CASE ReadWait(r)
  BY <1>6, ReaderMoves DEF ReadWait, ReaderPC
<1>7. CASE ReadCopy(r)
  <2>1. ControlOK'
    BY <1>7, ReaderMoves DEF ReadCopy, ReaderPC
  <2>2. rp' \in Nat /\ (allocated => rp' \in 0 .. max_pipe_size - 1)
    BY <1>7, PipeAssumption DEF ReadCopy, Wrapped, end, Capacity
  <2>3. last' \in Nat
    BY <1>7, <2>2 DEF ReadCopy
  <2> QED
    BY <1>7, <2>1, <2>2, <2>3 DEF ReadCopy
<1>8. CASE ReadAdvance(r)
  BY <1>8, ReaderMoves DEF ReadAdvance, Advanced, up, ReaderPC
<1>9. CASE ReadWake(r)
  <2>1. ControlOK'
    BY <1>9, KernelAssumption DEF ReadWake, Woken, Resumed, ControlOK, Procs, WriterPC, ReaderPC
  <2> QED
    BY <1>9, <2>1 DEF ReadWake, Leave, Delivered
<1> QED
  BY <1>1, <1>2, <1>3, <1>4, <1>5, <1>6, <1>7, <1>8, <1>9 DEF Reader, ReaderRuns

LEMMA SignalTypes ==
  ASSUME TypeOK, NEW p \in Procs, SignalArrives(p)
  PROVE  TypeOK'
<1>1. ControlOK'
  <2>1. CASE pc[p] = "w_sleep"
    BY <2>1 DEF TypeOK, Signal, SignalArrives, Resumed, ControlOK, Procs, WriterPC,
         ReaderPC
  <2>2. CASE pc[p] = "r_sleep"
    BY <2>2 DEF TypeOK, Signal, SignalArrives, Resumed, ControlOK, Procs, WriterPC,
         ReaderPC
  <2>3. CASE pc[p] \notin {"w_sleep", "r_sleep"}
    BY <2>3 DEF TypeOK, Signal, SignalArrives, Resumed, ControlOK, Procs, WriterPC,
         ReaderPC
  <2> QED
    BY <2>1, <2>2, <2>3
<1> QED
  BY <1>1 DEF TypeOK, Signal, SignalArrives, Resumed, device, history

(* Every state has its types, whatever the interleaving.                   *)
THEOREM TypeCorrect == Spec => []TypeOK
<1>1. TypeOK /\ [Next]_vars => TypeOK'
  <2>1. ASSUME TypeOK, UNCHANGED vars
        PROVE  TypeOK'
    BY <2>1 DEF TypeOK, ControlOK, vars, device, history
  <2> QED
    BY <2>1, WriterTypes, ReaderTypes, SignalTypes DEF Next
<1> QED
  BY <1>1, InitTypes, PTL DEF Spec
-----------------------------------------------------------------------------
(* The semaphore admits one process at a time and every way out releases   *)
(* it.                                                                     *)
THEOREM SemaphoreExclusion == Spec => []SemExclusive
<1>1. Init => SemExclusive
  BY DEF Init, init_func, SemExclusive, Holding, Procs
<1>2. TypeOK /\ SemExclusive /\ [Next]_vars => SemExclusive'
  <2> SUFFICES ASSUME TypeOK, SemExclusive, [Next]_vars
               PROVE  SemExclusive'
    OBVIOUS
  <2> USE DEF TypeOK, ControlOK, SemExclusive, Holding
  <2>1. ASSUME NEW w \in Writers, Writer(w)
        PROVE  SemExclusive'
    <3> w \in Procs
      BY DEF Procs
    <3>1. CASE OpenForWrite(w) \/ close_pipe(w) \/ WriteStart(w) \/ WriteWait(w)
      BY <3>1 DEF OpenForWrite, close_pipe, WriteStart, WriteWait, Move
    <3>2. CASE WriterDown(w)
      BY <3>2 DEF WriterDown, DownInterruptible, Down, Move
    <3>3. CASE WriterDownFails(w)
      BY <3>3 DEF WriterDownFails, DownFails, Interrupted, Move
    <3>4. CASE OpenTrim(w) \/ WriteCopy(w)
      BY <3>4 DEF OpenTrim, WriteCopy, Move
    <3>5. CASE OpenCreate(w) \/ WriteAdvance(w)
      BY <3>5, SMTT(60) DEF OpenCreate, up, WriteAdvance, Advanced, Move
    <3>6. CASE WriteWake(w)
      BY <3>6 DEF WriteWake, Woken, Resumed
    <3> QED
      BY <2>1, <3>1, <3>2, <3>3, <3>4, <3>5, <3>6 DEF Writer, WriterRuns
  <2>2. ASSUME NEW r \in Readers, Reader(r)
        PROVE  SemExclusive'
    <3> r \in Procs
      BY DEF Procs
    <3>1. CASE OpenForRead(r) \/ close_pipe(r) \/ ReadStart(r) \/ ReadWait(r)
      BY <3>1 DEF OpenForRead, close_pipe, ReadStart, ReadWait, Move
    <3>2. CASE ReaderDown(r)
      BY <3>2 DEF ReaderDown, DownInterruptible, Down, Move
    <3>3. CASE DownFails(r, "r_sem", "idle") \/ ReadCopy(r)
      BY <3>3, ZenonT(60) DEF DownFails, Interrupted, ReadCopy, Move
    <3>4. CASE ReadAdvance(r)
      BY <3>4 DEF ReadAdvance, Advanced, up, Move
    <3>5. CASE ReadWake(r)
      BY <3>5 DEF ReadWake, Woken, Resumed
    <3> QED
      BY <2>2, <3>1, <3>2, <3>3, <3>4, <3>5 DEF Reader, ReaderRuns
  <2>3. ASSUME NEW p \in Procs, SignalArrives(p)
        PROVE  SemExclusive'
    BY <2>3 DEF Signal, SignalArrives, Resumed, Blocking
  <2>4. CASE UNCHANGED vars
    BY <2>4 DEF vars
  <2> QED
    BY <2>1, <2>2, <2>3, <2>4 DEF Next
<1> QED
  BY <1>1, <1>2, TypeCorrect, PTL DEF Spec
-----------------------------------------------------------------------------
(* Steps that leave the device alone and move nobody into or out of the    *)
(* places RingInv speaks of.                                               *)
Quiet ==
  /\ UNCHANGED <<device, history>>
  /\ \A p \in Procs : \A at \in {"open_create", "w_up", "r_up"} : pc'[p] = at <=> pc[p] = at

LEMMA QuietKeepsRing == RingInv /\ Quiet => RingInv'
<1> SUFFICES ASSUME RingInv, Quiet PROVE RingInv'
  OBVIOUS
<1>1. /\ allocated' = allocated /\ ring' = ring /\ wp' = wp /\ rp' = rp
      /\ buffer_size' = buffer_size /\ written' = written /\ taken' = taken
      /\ last' = last /\ clean' = clean
  BY DEF Quiet, device, history
<1>2. \A w \in Writers : /\ pc'[w] = "open_create" <=> pc[w] = "open_create"
                         /\ pc'[w] = "w_up" <=> pc[w] = "w_up"
  BY DEF Quiet, Procs
<1>3. \A r \in Readers : pc'[r] = "r_up" <=> pc[r] = "r_up"
  BY DEF Quiet, Procs
<1>4. Stored' = Stored
  BY <1>1, <1>2 DEF Stored
<1>5. OpeningIsPristine' /\ CountsAgree' /\ CleanInside' /\ PointersInRing' /\ DeliversOldest'
  BY <1>1, <1>2, <1>3 DEF RingInv, OpeningIsPristine, CountsAgree, CleanInside, PointersInRing,
         DeliversOldest, Pristine, end, Capacity
<1>6. RingHoldsUnread'
  BY <1>1, <1>4 DEF RingInv, RingHoldsUnread, Fold, Capacity
<1> QED
  BY <1>5, <1>6 DEF RingInv

LEMMA OpenTrimKeepsRing ==
  ASSUME TypeOK, SemExclusive, RingInv, NEW w \in Writers, OpenTrim(w)
  PROVE  RingInv'
<1>1. ~allocated' /\ Pristine'
  BY DEF OpenTrim, trim_pipe, ResetPointers, Pristine
<1>2. \A p \in Procs : pc'[p] \notin {"w_up", "r_up"}
  BY DEF OpenTrim, Move, SemExclusive, Holding, TypeOK, ControlOK, Procs
<1>3. \A v \in Writers : pc'[v] # "w_up"
  BY <1>2 DEF Procs
<1>4. \A r \in Readers : pc'[r] # "r_up"
  BY <1>2 DEF Procs
<1> QED
  BY <1>1, <1>3, <1>4 DEF RingInv, OpeningIsPristine, CountsAgree, CleanInside, PointersInRing,
         RingHoldsUnread, DeliversOldest, Pristine

LEMMA OpenCreateKeepsRing ==
  ASSUME TypeOK, SemExclusive, RingInv, NEW w \in Writers, OpenCreate(w)
  PROVE  RingInv'
<1>1. Pristine'
  BY DEF OpenCreate, up, RingInv, OpeningIsPristine, Pristine, Move, history
<1>2. \A p \in Procs : pc'[p] \notin {"open_create", "w_up", "r_up"}
  BY DEF OpenCreate, up, Move, SemExclusive, Holding, TypeOK, ControlOK, Procs
<1>3. \A v \in Writers : pc'[v] # "open_create" /\ pc'[v] # "w_up"
  BY <1>2 DEF Procs
<1>4. \A r \in Readers : pc'[r] # "r_up"
  BY <1>2 DEF Procs
<1>5. OpeningIsPristine' /\ CountsAgree' /\ CleanInside' /\ DeliversOldest'
  BY <1>1, <1>3, <1>4 DEF OpeningIsPristine, CountsAgree, CleanInside, DeliversOldest, Pristine
<1>6. PointersInRing'
  BY <1>1, <1>3, <1>4, PipeAssumption DEF PointersInRing, Pristine, end, Capacity
<1>7. Stored' = 0
  BY <1>1, <1>3 DEF Stored, Pristine
<1>8. RingHoldsUnread'
  BY <1>1, <1>7, PipeAssumption DEF RingHoldsUnread, Pristine, Fold, Capacity
<1> QED
  BY <1>5, <1>6, <1>8 DEF RingInv

LEMMA WriteCopyKeepsRing ==
  ASSUME TypeOK, SemExclusive, RingInv, NEW w \in Writers, WriteCopy(w)
  PROVE  RingInv'
<1> USE PipeAssumption, KernelAssumption
<1>1. /\ wp' = Wrapped(wp)
      /\ rp' = rp /\ buffer_size' = buffer_size /\ allocated' = allocated
      /\ written' = written /\ taken' = taken /\ last' = last
      /\ clean' => clean /\ allocated /\ buffer_size < Capacity
  BY DEF WriteCopy
<1>2. allocated => ring' = [ring EXCEPT ![wp'] = written + 1]
  BY DEF WriteCopy
<1>3. /\ pc'[w] = "w_up"
      /\ \A p \in Procs : p # w => pc'[p] = pc[p] /\ pc[p] \notin {"open_create", "w_up", "r_up"}
  BY DEF WriteCopy, Move, SemExclusive, Holding, TypeOK, ControlOK, Procs
<1>4. \A v \in Writers : pc'[v] # "open_create" /\ (pc'[v] = "w_up" => v = w)
  BY <1>3 DEF Procs
<1>5. \A r \in Readers : pc'[r] # "r_up" /\ pc[r] # "r_up"
  BY <1>3, KernelAssumption DEF Procs
<1>6. ~(\E v \in Writers : pc[v] = "w_up")
  BY <1>3 DEF Procs, WriteCopy, Move
<1>7. OpeningIsPristine' /\ CountsAgree'
  BY <1>1, <1>4 DEF RingInv, OpeningIsPristine, CountsAgree
<1>8. CleanInside' /\ DeliversOldest'
  BY <1>1, <1>5 DEF RingInv, CleanInside, DeliversOldest, Capacity
<1>9. PointersInRing'
  BY <1>1, <1>5 DEF RingInv, PointersInRing, Wrapped, end, Capacity, TypeOK
<1>10. ASSUME allocated', clean'
       PROVE  RingHoldsUnread'
  <2>1. /\ buffer_size \in 0 .. Capacity - 1
        /\ Fold(wp) = Fold(Fold(rp) + buffer_size)
        /\ \A i \in 0 .. buffer_size - 1 : ring[Fold(Fold(rp) + i)] = taken + 1 + i
    BY <1>1, <1>6, <1>10 DEF RingInv, RingHoldsUnread, Stored, Capacity, TypeOK
  <2>2. rp \in 0 .. Capacity /\ wp \in 0 .. Capacity
    BY <1>1, <1>10 DEF RingInv, PointersInRing, end
  <2>3. wp' = Fold(wp) /\ Fold(wp') = Fold(wp) /\ wp' \in 0 .. Capacity - 1
    BY <1>1, <1>10, <2>2 DEF Wrapped, end, Fold, Capacity
  <2>4. Stored' = buffer_size + 1
    BY <1>1, <1>3 DEF Stored
  <2>5. written + 1 = taken + 1 + buffer_size
    BY DEF RingInv, CountsAgree, TypeOK
  <2>6. ASSUME NEW i \in 0 .. buffer_size
        PROVE  ring'[Fold(Fold(rp) + i)] = taken + 1 + i
    <3>1. Fold(Fold(rp) + i) \in 0 .. max_pipe_size - 1
      BY <2>1, <2>2 DEF Fold, Capacity
    <3>2. CASE i = buffer_size
      BY <1>1, <1>2, <1>10, <2>1, <2>3, <2>5, <3>1, <3>2 DEF TypeOK
    <3>3. CASE i < buffer_size
      <4>1. Fold(Fold(rp) + i) # wp'
        BY <2>1, <2>2, <2>3, <3>3 DEF Fold, Capacity
      <4> QED
        BY <1>1, <1>2, <1>10, <2>1, <3>1, <3>3, <4>1 DEF TypeOK
    <3> QED
      BY <2>1, <3>2, <3>3 DEF Capacity
  <2> QED
    BY <1>1, <2>1, <2>3, <2>4, <2>6 DEF RingHoldsUnread, Fold, Capacity
<1> QED
  BY <1>7, <1>8, <1>9, <1>10 DEF RingInv, RingHoldsUnread
LEMMA WriteAdvanceKeepsRing ==
  ASSUME TypeOK, SemExclusive, RingInv, NEW w \in Writers, WriteAdvance(w)
  PROVE  RingInv'
<1> USE PipeAssumption
<1>1. /\ wp' = wp + 1 /\ buffer_size' = buffer_size + 1 /\ written' = written + 1
      /\ rp' = rp /\ ring' = ring /\ allocated' = allocated
      /\ taken' = taken /\ last' = last /\ clean' = clean
  BY DEF WriteAdvance, Advanced, up
<1>2. /\ pc[w] = "w_up" /\ pc'[w] = "w_wake"
      /\ \A p \in Procs : p # w => pc'[p] = pc[p] /\ pc[p] \notin {"open_create", "w_up", "r_up"}
  BY DEF WriteAdvance, Advanced, up, Move, SemExclusive, Holding, TypeOK,
         ControlOK, Procs
<1>3. \A v \in Writers : pc'[v] # "open_create" /\ pc'[v] # "w_up"
  BY <1>2 DEF Procs
<1>4. \A r \in Readers : pc'[r] # "r_up" /\ pc[r] # "r_up"
  BY <1>2 DEF Procs
<1>5. OpeningIsPristine' /\ CountsAgree'
  BY <1>1, <1>3 DEF RingInv, OpeningIsPristine, CountsAgree, TypeOK
<1>6. CleanInside' /\ DeliversOldest'
  BY <1>1, <1>2, <1>3, <1>4 DEF RingInv, CleanInside, DeliversOldest
<1>7. PointersInRing'
  BY <1>1, <1>2, <1>3, <1>4 DEF RingInv, PointersInRing, end, Capacity
<1>8. ASSUME allocated, clean
      PROVE  RingHoldsUnread'
  <2>1. /\ buffer_size \in 0 .. Capacity - 1
        /\ Fold(wp) = Fold(Fold(rp) + buffer_size)
        /\ \A i \in 0 .. buffer_size : ring[Fold(Fold(rp) + i)] = taken + 1 + i
    <3>1. Stored = buffer_size + 1
      BY <1>2 DEF Stored
    <3>2. buffer_size < Capacity
      BY <1>2, <1>8 DEF RingInv, CleanInside
    <3> QED
      BY <1>8, <3>1, <3>2 DEF RingInv, RingHoldsUnread, Capacity, TypeOK
  <2>2. rp \in 0 .. Capacity /\ wp \in 0 .. Capacity - 1
    BY <1>2, <1>8 DEF RingInv, PointersInRing, end, Capacity
  <2>3. Fold(wp + 1) = Fold(Fold(rp) + buffer_size + 1)
    <3>1. Fold(wp) = wp
      BY <2>2 DEF Fold, Capacity
    <3>2. Fold(rp) \in 0 .. Capacity - 1
      BY <2>2 DEF Fold, Capacity
    <3> QED
      BY <2>1, <2>2, <3>1, <3>2 DEF Fold, Capacity
  <2>4. Stored' = buffer_size + 1
    BY <1>1, <1>3 DEF Stored
  <2>5. Fold(wp)' = Fold(Fold(rp) + buffer_size)'
    <3>1. Fold(rp) \in Int /\ buffer_size \in Int
      BY <2>1, <2>2 DEF Fold, Capacity
    <3> QED
      BY <1>1, <2>3, <3>1 DEF Fold, Capacity
  <2>6. (\A i \in 0 .. Stored - 1 : ring[Fold(Fold(rp) + i)] = taken + 1 + i)'
    <3>1. Stored' - 1 = buffer_size
      BY <2>1, <2>4 DEF Capacity
    <3> QED
      BY <1>1, <2>1, <3>1 DEF Fold, Capacity
  <2> QED
    BY <1>1, <2>1, <2>5, <2>6 DEF RingHoldsUnread, Capacity
<1> QED
  BY <1>1, <1>5, <1>6, <1>7, <1>8 DEF RingInv, RingHoldsUnread

LEMMA ReadCopyKeepsRing ==
  ASSUME TypeOK, SemExclusive, RingInv, NEW r \in Readers, ReadCopy(r)
  PROVE  RingInv'
<1> USE PipeAssumption
<1>1. /\ rp' = Wrapped(rp)
      /\ wp' = wp /\ buffer_size' = buffer_size /\ allocated' = allocated
      /\ ring' = ring /\ written' = written /\ taken' = taken
      /\ clean' => clean /\ allocated /\ buffer_size > 0
  BY DEF ReadCopy
<1>2. allocated => last' = ring[rp']
  BY DEF ReadCopy
<1>3. /\ pc[r] = "r_copy" /\ pc'[r] = "r_up"
      /\ \A p \in Procs : p # r => pc'[p] = pc[p] /\ pc[p] \notin {"open_create", "w_up", "r_up"}
  BY DEF ReadCopy, Move, SemExclusive, Holding, TypeOK, ControlOK, Procs
<1>4. \A v \in Writers : /\ pc'[v] # "open_create"
                         /\ pc'[v] # "w_up"
                         /\ pc[v] # "w_up"
  BY <1>3 DEF Procs
<1>5. \A q \in Readers : pc'[q] = "r_up" => q = r
  BY <1>3 DEF Procs
<1>6. OpeningIsPristine' /\ CountsAgree'
  BY <1>1, <1>4 DEF RingInv, OpeningIsPristine, CountsAgree
<1>7. PointersInRing'
  BY <1>1, <1>4 DEF RingInv, PointersInRing, Wrapped, end, Capacity, TypeOK
<1>8. ASSUME clean'
      PROVE  RingHoldsUnread' /\ last' = taken + 1
  <2>1. /\ buffer_size \in 1 .. Capacity
        /\ Fold(wp) = Fold(Fold(rp) + buffer_size)
        /\ \A i \in 0 .. buffer_size - 1 : ring[Fold(Fold(rp) + i)] = taken + 1 + i
    BY <1>1, <1>4, <1>8 DEF RingInv, RingHoldsUnread, Stored, TypeOK
  <2>2. rp \in 0 .. Capacity
    BY <1>1, <1>8 DEF RingInv, PointersInRing, end
  <2>3. rp' = Fold(rp) /\ Fold(rp') = Fold(rp) /\ Fold(rp) \in 0 .. Capacity - 1
    BY <1>1, <1>8, <2>2 DEF Wrapped, end, Fold, Capacity
  <2>4. last' = taken + 1
    <3>1. ring[Fold(Fold(rp) + 0)] = taken + 1 + 0
      BY <2>1
    <3>2. Fold(Fold(rp) + 0) = rp'
      BY <2>3 DEF Fold
    <3> QED
      BY <1>1, <1>2, <1>8, <3>1, <3>2 DEF TypeOK
  <2>5. Stored' = buffer_size
    BY <1>1, <1>4 DEF Stored
  <2> QED
    BY <1>1, <2>1, <2>3, <2>4, <2>5 DEF RingHoldsUnread, Fold, Capacity
<1>9. RingHoldsUnread'
  BY <1>8 DEF RingHoldsUnread
<1>10. CleanInside'
  BY <1>1, <1>4, <1>5, <1>8 DEF CleanInside
<1>11. DeliversOldest'
  BY <1>3 DEF DeliversOldest
<1> QED
  BY <1>6, <1>7, <1>9, <1>10, <1>11 DEF RingInv

LEMMA ReadAdvanceKeepsRing ==
  ASSUME TypeOK, SemExclusive, RingInv, NEW r \in Readers, ReadAdvance(r)
  PROVE  RingInv'
<1> USE PipeAssumption
<1>1. /\ rp' = rp + 1 /\ buffer_size' = buffer_size - 1 /\ taken' = taken + 1
      /\ wp' = wp /\ ring' = ring /\ allocated' = allocated
      /\ written' = written /\ last' = last /\ clean' = clean
  BY DEF ReadAdvance, Advanced, up
<1>2. /\ pc[r] = "r_up" /\ pc'[r] = "r_wake"
      /\ \A p \in Procs : p # r => pc'[p] = pc[p] /\ pc[p] \notin {"open_create", "w_up", "r_up"}
  BY DEF ReadAdvance, Advanced, up, Move, SemExclusive, Holding, TypeOK,
         ControlOK, Procs
<1>3. \A v \in Writers : /\ pc'[v] # "open_create"
                         /\ pc'[v] # "w_up"
                         /\ pc[v] # "w_up"
  BY <1>2 DEF Procs
<1>4. \A q \in Readers : pc'[q] # "r_up"
  BY <1>2 DEF Procs
<1>5. OpeningIsPristine' /\ CountsAgree'
  BY <1>1, <1>3 DEF RingInv, OpeningIsPristine, CountsAgree, TypeOK
<1>6. CleanInside' /\ DeliversOldest'
  BY <1>1, <1>2, <1>3, <1>4 DEF RingInv, CleanInside, DeliversOldest
<1>7. PointersInRing'
  BY <1>1, <1>2, <1>3, <1>4 DEF RingInv, PointersInRing, end, Capacity
<1>8. ASSUME allocated, clean
      PROVE  RingHoldsUnread'
  <2>1. /\ buffer_size \in 1 .. Capacity
        /\ Fold(wp) = Fold(Fold(rp) + buffer_size)
        /\ \A i \in 0 .. buffer_size - 1 : ring[Fold(Fold(rp) + i)] = taken + 1 + i
    <3>1. Stored = buffer_size
      BY <1>3 DEF Stored
    <3>2. buffer_size > 0
      BY <1>2, <1>8 DEF RingInv, CleanInside
    <3> QED
      BY <1>8, <3>1, <3>2 DEF RingInv, RingHoldsUnread, Capacity, TypeOK
  <2>2. rp \in 0 .. Capacity - 1 /\ wp \in 0 .. Capacity
    BY <1>2, <1>8 DEF RingInv, PointersInRing, end, Capacity
  <2>3. Fold(wp) = Fold(Fold(rp + 1) + buffer_size - 1)
    <3>1. Fold(rp) = rp
      BY <2>2 DEF Fold, Capacity
    <3>2. CASE rp + 1 = Capacity
      BY <2>1, <2>2, <3>1, <3>2 DEF Fold, Capacity
    <3>3. CASE rp + 1 < Capacity
      BY <2>1, <2>2, <3>1, <3>3 DEF Fold, Capacity
    <3> QED
      BY <2>2, <3>2, <3>3 DEF Capacity
  <2>4. ASSUME NEW i \in 0 .. buffer_size - 2
        PROVE  ring[Fold(Fold(rp + 1) + i)] = taken + 2 + i
    <3>1. Fold(Fold(rp + 1) + i) = Fold(Fold(rp) + i + 1)
      BY <2>1, <2>2 DEF Fold, Capacity
    <3>2. ring[Fold(Fold(rp) + (i + 1))] = taken + 1 + (i + 1)
      BY <2>1
    <3> QED
      BY <2>1, <2>2, <3>1, <3>2, SMTT(60) DEF TypeOK, Fold, Capacity
  <2>5. Stored' = buffer_size - 1
    BY <1>1, <1>3 DEF Stored
  <2> QED
    BY <1>1, <2>1, <2>3, <2>4, <2>5 DEF RingHoldsUnread, Fold, Capacity, TypeOK
<1> QED
  BY <1>1, <1>5, <1>6, <1>7, <1>8 DEF RingInv, RingHoldsUnread

LEMMA RingInvariant == Spec => []RingInv
<1>1. Init => RingInv
  BY PipeAssumption DEF Init, init_func, RingInv, OpeningIsPristine, CountsAgree, CleanInside,
         PointersInRing, RingHoldsUnread, DeliversOldest, Pristine, Procs
<1>2. TypeOK /\ SemExclusive /\ RingInv /\ [Next]_vars => RingInv'
  <2> SUFFICES ASSUME TypeOK, SemExclusive, RingInv, [Next]_vars
               PROVE  RingInv'
    OBVIOUS
  <2>1. ASSUME NEW w \in Writers, Writer(w)
        PROVE  RingInv'
    <3> w \in Procs
      BY DEF Procs
    <3>1. CASE OpenForWrite(w) \/ close_pipe(w) \/ WriteStart(w) \/ WriteWait(w)
      BY <3>1, QuietKeepsRing DEF OpenForWrite, close_pipe, WriteStart, WriteWait, Move, Quiet, TypeOK,
         ControlOK
    <3>2. CASE WriterDown(w) \/ WriterDownFails(w)
      BY <3>2, QuietKeepsRing DEF WriterDown, WriterDownFails, DownInterruptible, Down, DownFails,
         Interrupted, Move, Quiet, TypeOK, ControlOK
    <3>3. CASE WriteWake(w)
      BY <3>3, QuietKeepsRing DEF WriteWake, Woken, Resumed, Quiet, TypeOK, ControlOK
    <3> QED
      BY <2>1, <3>1, <3>2, <3>3, OpenTrimKeepsRing, OpenCreateKeepsRing, WriteCopyKeepsRing,
         WriteAdvanceKeepsRing DEF Writer, WriterRuns
  <2>2. ASSUME NEW r \in Readers, Reader(r)
        PROVE  RingInv'
    <3> r \in Procs
      BY DEF Procs
    <3>1. CASE OpenForRead(r) \/ close_pipe(r) \/ ReadStart(r) \/ ReadWait(r)
      BY <3>1, QuietKeepsRing DEF OpenForRead, close_pipe, ReadStart, ReadWait, Move, Quiet, TypeOK,
         ControlOK
    <3>2. CASE ReaderDown(r) \/ DownFails(r, "r_sem", "idle")
      BY <3>2, QuietKeepsRing DEF ReaderDown, DownInterruptible, Down, DownFails, Interrupted, Move,
         Quiet, TypeOK, ControlOK
    <3>3. CASE ReadWake(r)
      BY <3>3, QuietKeepsRing DEF ReadWake, Woken, Resumed, Quiet, TypeOK, ControlOK
    <3> QED
      BY <2>2, <3>1, <3>2, <3>3, ReadCopyKeepsRing, ReadAdvanceKeepsRing DEF Reader, ReaderRuns
  <2>3. ASSUME NEW p \in Procs, SignalArrives(p)
        PROVE  RingInv'
    BY <2>3, QuietKeepsRing DEF Signal, SignalArrives, Resumed, Quiet, Blocking, TypeOK, ControlOK
  <2>4. CASE UNCHANGED vars
    BY <2>4, QuietKeepsRing DEF vars, Quiet
  <2> QED
    BY <2>1, <2>2, <2>3, <2>4 DEF Next
<1> QED
  BY <1>1, <1>2, TypeCorrect, SemaphoreExclusion, PTL DEF Spec

(* No interleaving, signal or failed open moves a pointer past end, and    *)
(* every byte is stored and fetched before it.                             *)
THEOREM PointersStayInRing == Spec => []PointersInRing
BY RingInvariant, PTL DEF RingInv

(* Between a trim and the first write into a full ring or read from an     *)
(* empty one, the ring is the queue of unread bytes.                       *)
THEOREM RingIsQueue == Spec => []RingHoldsUnread
BY RingInvariant, PTL DEF RingInv

(* And so long, readers get every byte once and in order.                  *)
THEOREM OrderedDelivery == Spec => []DeliversOldest
BY RingInvariant, PTL DEF RingInv
-----------------------------------------------------------------------------
(* PipeByte implements BoundedPipe.  What is in the pipe is a run of       *)
(* consecutive numbers, so the steps of the queue are sums.                *)
Numbers(m, n) == [i \in 1 .. n |-> m + i]

LEMMA NumbersLen ==
  ASSUME NEW m \in Nat, NEW n \in Nat
  PROVE  /\ Numbers(m, n) \in Seq(Nat)
         /\ Len(Numbers(m, n)) = n
         /\ n = 0 <=> Numbers(m, n) = <<>>
<1>1. Numbers(m, n) \in [1 .. n -> Nat]
  BY DEF Numbers
<1>2. Numbers(m, n) \in Seq(Nat) /\ Len(Numbers(m, n)) = n
  BY <1>1
<1> QED
  BY <1>2, EmptySeq

LEMMA NumbersAppend ==
  ASSUME NEW m \in Nat, NEW n \in Nat
  PROVE  Append(Numbers(m, n), m + n + 1) = Numbers(m, n + 1)
<1> DEFINE s == Append(Numbers(m, n), m + n + 1)
           t == Numbers(m, n + 1)
<1>1. Numbers(m, n) \in Seq(Nat) /\ Len(Numbers(m, n)) = n /\ m + n + 1 \in Nat
  BY NumbersLen
<1>2. s \in Seq(Nat) /\ Len(s) = n + 1
  BY <1>1, AppendProperties
<1>3. t \in Seq(Nat) /\ Len(t) = n + 1
  <2>1. n + 1 \in Nat
    OBVIOUS
  <2> QED
    BY <2>1, NumbersLen
<1>4. ASSUME NEW i \in 1 .. n + 1 PROVE s[i] = t[i]
  BY <1>4, <1>1 DEF Numbers
<1> QED
  BY <1>2, <1>3, <1>4, SeqEqual

LEMMA NumbersTail ==
  ASSUME NEW m \in Nat, NEW n \in Nat \ {0}
  PROVE  /\ Head(Numbers(m, n)) = m + 1
         /\ Tail(Numbers(m, n)) = Numbers(m + 1, n - 1)
<1> DEFINE s == Tail(Numbers(m, n))
           t == Numbers(m + 1, n - 1)
<1>1. Numbers(m, n) # <<>> /\ Numbers(m, n) \in Seq(Nat) /\ Len(Numbers(m, n)) = n
  BY NumbersLen
<1>2. s \in Seq(Nat) /\ Len(s) = n - 1
  BY <1>1, HeadTailProperties
<1>3. t \in Seq(Nat) /\ Len(t) = n - 1
  <2>1. m + 1 \in Nat /\ n - 1 \in Nat
    OBVIOUS
  <2> QED
    BY <2>1, NumbersLen
<1>4. ASSUME NEW i \in 1 .. n - 1 PROVE s[i] = t[i]
  <2>1. s[i] = Numbers(m, n)[i + 1]
    BY <1>1, <1>2, HeadTailProperties
  <2> QED
    BY <2>1 DEF Numbers
<1>5. Head(Numbers(m, n)) = m + 1
  BY <1>1 DEF Numbers
<1> QED
  BY <1>2, <1>3, <1>4, <1>5, SeqEqual

LEMMA UnreadNumbers ==
  TypeOK /\ RingInv /\ clean =>
    /\ Stored - Handed \in Nat
    /\ taken + Handed \in Nat
    /\ Unread = Numbers(taken + Handed, Stored - Handed)
<1> SUFFICES ASSUME TypeOK, RingInv, clean
             PROVE  /\ Stored - Handed \in Nat
                    /\ taken + Handed \in Nat
                    /\ Unread = Numbers(taken + Handed, Stored - Handed)
  OBVIOUS
<1>1. Handed \in {0, 1} /\ taken \in Nat
  BY DEF Handed, TypeOK
<1>2. CASE allocated
  <2>1. /\ buffer_size \in Nat
        /\ \A i \in 0 .. Stored - 1 : ring[Fold(Fold(rp) + i)] = taken + 1 + i
    BY <1>2, PipeAssumption DEF RingInv, RingHoldsUnread, Capacity
  <2>2. Handed = 1 => buffer_size > 0
    BY DEF RingInv, CleanInside, Handed
  <2>3. Stored \in Nat /\ Stored >= buffer_size
    BY <2>1 DEF Stored
  <2>4. Stored - Handed \in Nat
    BY <1>1, <2>1, <2>2, <2>3
  <2>5. ASSUME NEW i \in 1 .. Stored - Handed
        PROVE  ring[Fold(Fold(rp) + Handed + i - 1)] = taken + Handed + i
    <3>1. Handed + i - 1 \in 0 .. Stored - 1
      BY <1>1, <2>3
    <3>2. Fold(rp) \in Int
      BY PipeAssumption DEF Fold, Capacity, TypeOK
    <3>3. Fold(rp) + (Handed + i - 1) = Fold(rp) + Handed + i - 1
      BY <1>1, <3>2
    <3>4. taken + 1 + (Handed + i - 1) = taken + Handed + i
      BY <1>1
    <3> QED
      BY <2>1, <3>1, <3>3, <3>4
  <2> QED
    BY <1>1, <2>4, <2>5 DEF Unread, Numbers
<1>3. CASE ~allocated
  <2>1. buffer_size = 0 /\ Stored = 0 /\ Handed = 0
    BY <1>3 DEF RingInv, CleanInside, Pristine, Stored, Handed
  <2>2. Unread = [i \in 1 .. 0 |-> ring[Fold(Fold(rp) + 0 + i - 1)]]
    BY <2>1 DEF Unread
  <2>3. Numbers(taken + Handed, Stored - Handed) = [i \in 1 .. 0 |-> taken + i]
    BY <1>1, <2>1 DEF Numbers
  <2> QED
    BY <1>1, <2>1, <2>2, <2>3
<1> QED
  BY <1>2, <1>3

LEMMA UnreadNumbersNext ==
  (TypeOK /\ RingInv /\ clean =>
    /\ Stored - Handed \in Nat
    /\ taken + Handed \in Nat
    /\ Unread = Numbers(taken + Handed, Stored - Handed))'
BY UnreadNumbers, PTL

(* A step that leaves the numbers alone is no step of the pipe.            *)
LEMMA PipeStutters ==
  ASSUME TypeOK, RingInv, TypeOK', RingInv',
         clean' = clean, last' = last,
         clean => /\ taken' + Handed' = taken + Handed
                  /\ Stored' - Handed' = Stored - Handed
                  /\ taken' + Stored' = taken + Stored
  PROVE  UNCHANGED Pipe!pipeVars
<1>1. Unread' = Unread
  <2>1. CASE clean
    BY <2>1, UnreadNumbers, UnreadNumbersNext
  <2>2. CASE ~clean
    BY <2>2 DEF Unread
  <2> QED
    BY <2>1, <2>2
<1>2. Puts' = Puts
  <2>1. CASE clean
    <3>1. clean' /\ taken' + Stored' = taken + Stored
      BY <2>1, Zenon
    <3> QED
      BY <2>1, <3>1 DEF Puts
  <2>2. CASE ~clean
    BY <2>2 DEF Puts
  <2> QED
    BY <2>1, <2>2
<1> QED
  BY <1>1, <1>2 DEF Pipe!pipeVars

LEMMA QuietRefines ==
  ASSUME TypeOK, RingInv, TypeOK', RingInv', Quiet
  PROVE  UNCHANGED Pipe!pipeVars
<1>1. Stored' = Stored
  BY DEF Quiet, device, history, Stored, Procs
<1>2. Handed' = Handed
  BY DEF Quiet, Handed, Procs
<1> QED
  BY <1>1, <1>2, PipeStutters DEF Quiet, device, history

LEMMA TrimRefines ==
  ASSUME TypeOK, SemExclusive, RingInv, TypeOK', RingInv', NEW w \in Writers, OpenTrim(w)
  PROVE  Pipe!Clear
<1>1. \A p \in Procs : pc'[p] \notin {"w_up", "r_up"}
  BY DEF OpenTrim, Move, SemExclusive, Holding, TypeOK, ControlOK, Procs
<1>2. /\ clean' /\ taken' = 0 /\ last' = 0
      /\ Handed' = 0 /\ Stored' = 0
  BY <1>1 DEF OpenTrim, trim_pipe, Handed, Stored, Procs
<1>3. Unread' = Numbers(0, 0)
  BY <1>2, UnreadNumbersNext
<1>4. Unread' = <<>>
  BY <1>3, NumbersLen
<1> QED
  BY <1>2, <1>4 DEF Pipe!Clear, Pipe!Empty, Puts

LEMMA CreateRefines ==
  ASSUME TypeOK, SemExclusive, RingInv, TypeOK', RingInv', NEW w \in Writers, OpenCreate(w)
  PROVE  UNCHANGED Pipe!pipeVars
<1>1. \A p \in Procs : pc[p] \notin {"w_up", "r_up"} /\ pc'[p] \notin {"w_up", "r_up"}
  BY DEF OpenCreate, up, Move, SemExclusive, Holding, TypeOK, ControlOK, Procs
<1>2. Stored' = Stored /\ Handed' = Handed
  BY <1>1 DEF OpenCreate, Stored, Handed, Procs
<1>3. clean' = clean /\ last' = last /\ taken' = taken
  BY DEF OpenCreate, history
<1> QED
  BY <1>2, <1>3, PipeStutters

LEMMA WriteCopyRefines ==
  ASSUME TypeOK, SemExclusive, RingInv, TypeOK', RingInv', NEW w \in Writers, WriteCopy(w)
  PROVE  Pipe!Put \/ Pipe!Break \/ UNCHANGED Pipe!pipeVars
<1>1. /\ pc'[w] = "w_up"
      /\ \A v \in Writers : pc[v] # "w_up"
      /\ \A r \in Readers : pc[r] # "r_up" /\ pc'[r] # "r_up"
  BY KernelAssumption DEF WriteCopy, Move, SemExclusive, Holding, TypeOK, ControlOK, Procs
<1>2. /\ buffer_size' = buffer_size /\ taken' = taken /\ last' = last
      /\ (clean' <=> clean /\ allocated /\ buffer_size < Capacity)
  BY DEF WriteCopy
<1>3. Handed = 0 /\ Handed' = 0 /\ Stored = buffer_size /\ Stored' = buffer_size + 1
  BY <1>1, <1>2 DEF Handed, Stored
<1>4. taken \in Nat /\ buffer_size \in Int /\ Capacity \in Nat
  BY PipeAssumption DEF TypeOK, Capacity
<1>5. CASE clean'
  <2>1. clean /\ buffer_size < Capacity
    BY <1>2, <1>5
  <2>2. Unread = Numbers(taken, buffer_size) /\ buffer_size \in Nat
    BY <1>3, <1>4, <2>1, UnreadNumbers
  <2>3. Unread' = Numbers(taken, buffer_size + 1)
    BY <1>2, <1>3, <1>4, <1>5, UnreadNumbersNext
  <2>4. Len(Unread) < Capacity /\ Unread' = Append(Unread, taken + buffer_size + 1)
    BY <1>4, <2>1, <2>2, <2>3, NumbersLen, NumbersAppend
  <2>5. Puts = taken + buffer_size /\ Puts' = Puts + 1
    BY <1>2, <1>3, <1>4, <1>5, <2>1 DEF Puts
  <2> QED
    BY <1>2, <1>5, <2>1, <2>4, <2>5 DEF Pipe!Put
<1>6. CASE clean /\ ~clean'
  <2>1. Unread = Numbers(taken, buffer_size) /\ buffer_size \in Nat
    BY <1>3, <1>4, <1>6, UnreadNumbers
  <2>2. buffer_size = 0 \/ buffer_size = Capacity
    <3>1. CASE allocated
      BY <1>2, <1>4, <1>6, <3>1 DEF RingInv, RingHoldsUnread
    <3>2. CASE ~allocated
      BY <1>6, <3>2 DEF RingInv, CleanInside, Pristine
    <3> QED
      BY <3>1, <3>2
  <2>3. Unread = <<>> \/ Len(Unread) = Capacity
    BY <1>4, <2>1, <2>2, NumbersLen
  <2> QED
    BY <1>6, <2>3 DEF Pipe!Break, Pipe!Empty, Unread, Puts
<1>7. CASE ~clean
  BY <1>2, <1>7 DEF Pipe!pipeVars, Unread, Puts
<1> QED
  BY <1>5, <1>6, <1>7

LEMMA WriteAdvanceRefines ==
  ASSUME TypeOK, SemExclusive, RingInv, TypeOK', RingInv', NEW w \in Writers, WriteAdvance(w)
  PROVE  UNCHANGED Pipe!pipeVars
<1>1. /\ pc[w] = "w_up"
      /\ \A v \in Writers : pc'[v] # "w_up"
      /\ \A r \in Readers : pc[r] # "r_up" /\ pc'[r] # "r_up"
  BY KernelAssumption DEF WriteAdvance, Move, SemExclusive, Holding, TypeOK, ControlOK, Procs
<1>2. /\ buffer_size' = buffer_size + 1 /\ taken' = taken
      /\ last' = last /\ clean' = clean
  BY DEF WriteAdvance
<1>3. Handed = 0 /\ Handed' = 0 /\ Stored = buffer_size + 1 /\ Stored' = buffer_size + 1
  BY <1>1, <1>2 DEF Handed, Stored
<1> QED
  BY <1>2, <1>3, PipeStutters

LEMMA ReadCopyRefines ==
  ASSUME TypeOK, SemExclusive, RingInv, TypeOK', RingInv', NEW r \in Readers, ReadCopy(r)
  PROVE  Pipe!Get \/ Pipe!Break \/ UNCHANGED Pipe!pipeVars
<1>1. /\ pc'[r] = "r_up"
      /\ \A q \in Readers : pc[q] # "r_up"
      /\ \A w \in Writers : pc[w] # "w_up" /\ pc'[w] # "w_up"
  BY KernelAssumption DEF ReadCopy, Move, SemExclusive, Holding, TypeOK, ControlOK, Procs
<1>2. /\ buffer_size' = buffer_size /\ taken' = taken
      /\ (clean' <=> clean /\ allocated /\ buffer_size > 0)
  BY DEF ReadCopy
<1>3. Handed = 0 /\ Handed' = 1 /\ Stored = buffer_size /\ Stored' = buffer_size
  BY <1>1, <1>2 DEF Handed, Stored
<1>4. taken \in Nat /\ buffer_size \in Int /\ Capacity \in Nat
  BY PipeAssumption DEF TypeOK, Capacity
<1>5. CASE clean'
  <2>1. clean /\ buffer_size \in Nat \ {0}
    BY <1>2, <1>4, <1>5
  <2>2. Unread = Numbers(taken, buffer_size)
    BY <1>3, <1>4, <2>1, UnreadNumbers
  <2>3. Unread' = Numbers(taken + 1, buffer_size - 1)
    BY <1>2, <1>3, <1>5, UnreadNumbersNext
  <2>4. Unread # <<>> /\ Head(Unread) = taken + 1 /\ Unread' = Tail(Unread)
    BY <1>4, <2>1, <2>2, <2>3, NumbersLen, NumbersTail
  <2>5. last' = taken + 1
    BY <1>1, <1>2, <1>5 DEF RingInv, CleanInside
  <2>6. Puts' = Puts
    BY <1>2, <1>3, <1>5, <2>1 DEF Puts
  <2> QED
    BY <1>5, <2>1, <2>4, <2>5, <2>6 DEF Pipe!Get
<1>6. CASE clean /\ ~clean'
  <2>1. Unread = Numbers(taken, buffer_size) /\ buffer_size \in Nat
    BY <1>3, <1>4, <1>6, UnreadNumbers
  <2>2. buffer_size = 0
    <3>1. CASE allocated
      BY <1>2, <1>6, <2>1, <3>1
    <3>2. CASE ~allocated
      BY <1>6, <3>2 DEF RingInv, CleanInside, Pristine
    <3> QED
      BY <3>1, <3>2
  <2>3. Unread = <<>>
    BY <1>4, <2>1, <2>2, NumbersLen
  <2> QED
    BY <1>6, <2>3 DEF Pipe!Break, Pipe!Empty, Unread, Puts
<1>7. CASE ~clean
  BY <1>2, <1>7 DEF Pipe!pipeVars, Unread, Puts
<1> QED
  BY <1>5, <1>6, <1>7

LEMMA ReadAdvanceRefines ==
  ASSUME TypeOK, SemExclusive, RingInv, TypeOK', RingInv', NEW r \in Readers, ReadAdvance(r)
  PROVE  UNCHANGED Pipe!pipeVars
<1>1. /\ pc[r] = "r_up"
      /\ \A q \in Readers : pc'[q] # "r_up"
      /\ \A w \in Writers : pc[w] # "w_up" /\ pc'[w] # "w_up"
  BY KernelAssumption DEF ReadAdvance, Move, SemExclusive, Holding, TypeOK, ControlOK, Procs
<1>2. /\ buffer_size' = buffer_size - 1 /\ taken' = taken + 1
      /\ last' = last /\ clean' = clean
  BY DEF ReadAdvance
<1>3. Handed = 1 /\ Handed' = 0 /\ Stored = buffer_size /\ Stored' = buffer_size - 1
  BY <1>1, <1>2 DEF Handed, Stored
<1>4. taken \in Int /\ buffer_size \in Int
  BY DEF TypeOK
<1> QED
  BY <1>2, <1>3, <1>4, PipeStutters

LEMMA WriterRefines ==
  ASSUME TypeOK, SemExclusive, RingInv, TypeOK', RingInv', NEW w \in Writers, Writer(w)
  PROVE  [Pipe!Next]_Pipe!pipeVars
<1> w \in Procs
  BY DEF Procs
<1>1. CASE OpenForWrite(w) \/ close_pipe(w) \/ WriteStart(w) \/ WriteWait(w)
  <2>1. Quiet
    BY <1>1 DEF OpenForWrite, close_pipe, WriteStart, WriteWait, Move, Quiet, TypeOK, ControlOK
  <2> QED
    BY <2>1, QuietRefines
<1>2. CASE WriterDown(w) \/ WriterDownFails(w)
  <2>1. Quiet
    BY <1>2 DEF WriterDown, WriterDownFails, DownInterruptible, Down, DownFails, Interrupted, Move,
           Quiet, TypeOK, ControlOK
  <2> QED
    BY <2>1, QuietRefines
<1>3. CASE WriteWake(w)
  <2>1. Quiet
    BY <1>3 DEF WriteWake, Woken, Resumed, Quiet, TypeOK, ControlOK
  <2> QED
    BY <2>1, QuietRefines
<1>4. CASE OpenTrim(w)
  BY <1>4, TrimRefines DEF Pipe!Next
<1>5. CASE OpenCreate(w) \/ WriteAdvance(w)
  BY <1>5, CreateRefines, WriteAdvanceRefines
<1>6. CASE WriteCopy(w)
  BY <1>6, WriteCopyRefines DEF Pipe!Next
<1> QED
  BY <1>1, <1>2, <1>3, <1>4, <1>5, <1>6 DEF Writer, WriterRuns

LEMMA ReaderRefines ==
  ASSUME TypeOK, SemExclusive, RingInv, TypeOK', RingInv', NEW r \in Readers, Reader(r)
  PROVE  [Pipe!Next]_Pipe!pipeVars
<1> r \in Procs
  BY DEF Procs
<1>1. CASE OpenForRead(r) \/ close_pipe(r) \/ ReadStart(r) \/ ReadWait(r)
  <2>1. Quiet
    BY <1>1 DEF OpenForRead, close_pipe, ReadStart, ReadWait, Move, Quiet, TypeOK, ControlOK
  <2> QED
    BY <2>1, QuietRefines
<1>2. CASE ReaderDown(r) \/ DownFails(r, "r_sem", "idle")
  <2>1. Quiet
    BY <1>2 DEF ReaderDown, DownInterruptible, Down, DownFails, Interrupted, Move, Quiet, TypeOK,
           ControlOK
  <2> QED
    BY <2>1, QuietRefines
<1>3. CASE ReadWake(r)
  <2>1. Quiet
    BY <1>3 DEF ReadWake, Woken, Resumed, Quiet, TypeOK, ControlOK
  <2> QED
    BY <2>1, QuietRefines
<1>4. CASE ReadCopy(r)
  BY <1>4, ReadCopyRefines DEF Pipe!Next
<1>5. CASE ReadAdvance(r)
  BY <1>5, ReadAdvanceRefines
<1> QED
  BY <1>1, <1>2, <1>3, <1>4, <1>5 DEF Reader, ReaderRuns

(* The split and interleaved calls implement a bounded queue: each step is *)
(* a put, a get, the emptying of an open for writing, the end of the       *)
(* promise at a full or an empty ring, or nothing - for any number of      *)
(* writers, readers, signals and failed opens and any ring of at least two *)
(* bytes.                                                                  *)
THEOREM ImplementsBoundedPipe == Spec => ImplementsPipe
<1>1. Init => Pipe!Init
  <2> SUFFICES ASSUME Init PROVE Pipe!Init
    OBVIOUS
  <2>1. clean /\ Stored = 0 /\ Handed = 0 /\ taken = 0 /\ last = 0
    BY DEF Init, init_func, Stored, Handed, Procs
  <2>2. Unread = Numbers(0, 0)
    BY <2>1 DEF Unread, Numbers
  <2>3. Unread = <<>>
    BY <2>2, NumbersLen
  <2> QED
    BY <2>1, <2>3 DEF Pipe!Init, Pipe!Empty, Puts
<1>2. TypeOK /\ SemExclusive /\ RingInv /\ TypeOK' /\ RingInv' /\ [Next]_vars
        => [Pipe!Next]_Pipe!pipeVars
  <2> SUFFICES ASSUME TypeOK, SemExclusive, RingInv, TypeOK', RingInv', [Next]_vars
               PROVE  [Pipe!Next]_Pipe!pipeVars
    OBVIOUS
  <2>1. ASSUME NEW p \in Procs, SignalArrives(p)
        PROVE  [Pipe!Next]_Pipe!pipeVars
    <3>1. Quiet
      BY <2>1 DEF Signal, SignalArrives, Resumed, Quiet, Blocking, TypeOK, ControlOK
    <3> QED
      BY <3>1, QuietRefines
  <2>2. CASE UNCHANGED vars
    <3>1. Quiet
      BY <2>2 DEF vars, Quiet
    <3> QED
      BY <3>1, QuietRefines
  <2> QED
    BY <2>1, <2>2, WriterRefines, ReaderRefines DEF Next
<1> QED
  BY <1>1, <1>2, TypeCorrect, SemaphoreExclusion, RingInvariant, PTL
     DEF Spec, ImplementsPipe, Pipe!Spec
-----------------------------------------------------------------------------
(* The bounds on buffer_size.                                              *)

LEMMA WritersCount ==
  ASSUME NEW S \in SUBSET Writers
  PROVE  IsFiniteSet(S) /\ Cardinality(S) \in 0 .. Cardinality(Writers) /\ Cardinality(Writers) \in Nat
BY KernelAssumption, FS_Subset, FS_CardinalityType

LEMMA ReadersCount ==
  ASSUME NEW S \in SUBSET Readers
  PROVE  IsFiniteSet(S) /\ Cardinality(S) \in 0 .. Cardinality(Readers) /\ Cardinality(Readers) \in Nat
BY KernelAssumption, FS_Subset, FS_CardinalityType

LEMMA FewerAdmitted ==
  ASSUME TypeOK, TypeOK', OverrunBound,
         AdmittedSet' \subseteq AdmittedSet, buffer_size' <= buffer_size, signals' = signals
  PROVE  OverrunBound'
<1>1. Cardinality(AdmittedSet') <= Cardinality(AdmittedSet)
  BY WritersCount, FS_Subset DEF AdmittedSet
<1>2. Cardinality(AdmittedSet') \in Int /\ Cardinality(AdmittedSet) \in Int
  BY WritersCount DEF AdmittedSet
<1>3. Cardinality(Writers) \in Int
  BY WritersCount
<1>4. buffer_size \in Int /\ buffer_size' \in Int /\ signals \in Int /\ max_pipe_size \in Int
  BY PipeAssumption DEF TypeOK
<1> QED
  BY <1>1, <1>2, <1>3, <1>4 DEF OverrunBound

LEMMA RoomLeft ==
  ASSUME TypeOK', buffer_size' <= max_pipe_size - 1
  PROVE  OverrunBound'
<1>1. Cardinality(AdmittedSet') \in 0 .. Cardinality(Writers) /\ Cardinality(Writers) \in Nat
  BY WritersCount DEF AdmittedSet
<1>2. buffer_size' \in Int /\ signals' \in Nat /\ max_pipe_size \in Nat
  BY PipeAssumption DEF TypeOK
<1> QED
  BY <1>1, <1>2 DEF OverrunBound

(* A step of one writer is invisible to the others' admission.             *)
LEMMA WriterLeavesOthers ==
  ASSUME TypeOK, NEW w \in Writers, Writer(w), NEW v \in Writers, v # w
  PROVE  pc'[v] = pc[v] /\ num_bytes'[v] = num_bytes[v] /\ (v \in signalled' <=> v \in signalled)
<1> USE DEF TypeOK, ControlOK
<1>0. w \in Procs /\ v \in Procs /\ v \notin Readers
  BY KernelAssumption DEF Procs
<1>1. CASE OpenForWrite(w) \/ close_pipe(w) \/ WriteWait(w) \/ WriteCopy(w) \/ WriteAdvance(w)
  BY <1>0, <1>1 DEF OpenForWrite, close_pipe, WriteWait, WriteCopy, WriteAdvance,
         Advanced, up, Move
<1>2. CASE WriterDown(w) \/ WriterDownFails(w)
  BY <1>0, <1>2 DEF WriterDown, WriterDownFails, DownInterruptible, Down, DownFails,
         Interrupted, Move, Leave, Delivered
<1>3. CASE OpenTrim(w) \/ OpenCreate(w)
  BY <1>0, <1>3 DEF OpenTrim, OpenCreate, up, Move, Leave, Delivered
<1>4. CASE WriteStart(w)
  BY <1>0, <1>4 DEF WriteStart, Move
<1>5. CASE WriteWake(w)
  BY <1>0, <1>5 DEF WriteWake, Woken, Resumed, Leave, Delivered
<1> QED
  BY <1>1, <1>2, <1>3, <1>4, <1>5 DEF Writer, WriterRuns

(* What a writer's step does to its own admission and to the count.        *)
LEMMA WriterAdmission ==
  ASSUME TypeOK, NEW w \in Writers, EntryOK(w), Writer(w)
  PROVE  /\ EntryOK(w)'
         /\ signals' = signals
         /\ \/ (Admitted(w)' => Admitted(w)) /\ buffer_size' = buffer_size
            \/ Admitted(w) /\ ~Admitted(w)' /\ buffer_size' = buffer_size + 1
            \/ buffer_size' <= max_pipe_size - 1
<1> USE DEF TypeOK, ControlOK, EntryOK, Admitted, HasRoom
<1>0. w \in Procs /\ w \notin Readers /\ max_pipe_size \in Nat /\ 0 <= max_pipe_size - 1
  BY PipeAssumption, KernelAssumption DEF Procs
<1>1. CASE OpenForWrite(w) \/ close_pipe(w)
  BY <1>0, <1>1 DEF OpenForWrite, close_pipe, Move, device
<1>2. CASE WriterDown(w)
  BY <1>0, <1>2 DEF WriterDown, DownInterruptible, Down, Move, device
<1>3. CASE WriterDownFails(w)
  BY <1>0, <1>3 DEF WriterDownFails, DownFails, Interrupted, Move, Leave, Delivered,
         device
<1>4. CASE OpenTrim(w)
  BY <1>0, <1>4 DEF OpenTrim, trim_pipe, ResetPointers, Move
<1>5. CASE OpenCreate(w)
  BY <1>0, <1>5 DEF OpenCreate, up, Move, Leave, Delivered
<1>6. CASE WriteStart(w)
  BY <1>0, <1>6 DEF WriteStart, Move, device
<1>7. CASE WriteWait(w) \/ WriteCopy(w)
  BY <1>0, <1>7 DEF WriteWait, WriteCopy, Move, device
<1>8. CASE WriteAdvance(w)
  BY <1>0, <1>8 DEF WriteAdvance, Advanced, up, Move
<1>9. CASE WriteWake(w)
  BY <1>0, <1>9 DEF WriteWake, Woken, Resumed, Leave, Delivered, device
<1> QED
  BY <1>1, <1>2, <1>3, <1>4, <1>5, <1>6, <1>7, <1>8, <1>9 DEF Writer, WriterRuns

LEMMA WriterKeepsAdmission ==
  ASSUME TypeOK, TypeOK', AdmissionInv, NEW w \in Writers, Writer(w)
  PROVE  AdmissionInv'
<1>1. EntryOK(w) /\ OverrunBound
  BY DEF AdmissionInv
<1>2. \A v \in Writers \ {w} : (Admitted(v)' <=> Admitted(v)) /\ (EntryOK(v)' <=> EntryOK(v))
  BY WriterLeavesOthers DEF Admitted, HasRoom, EntryOK
<1>3. \A v \in Writers : EntryOK(v)'
  BY <1>1, <1>2, WriterAdmission DEF AdmissionInv
<1>4. signals' = signals
  BY <1>1, WriterAdmission
<1>5. OverrunBound'
  <2>1. CASE (Admitted(w)' => Admitted(w)) /\ buffer_size' = buffer_size
    <3>1. AdmittedSet' \subseteq AdmittedSet
      BY <1>2, <2>1 DEF AdmittedSet
    <3>2. buffer_size' <= buffer_size
      BY <2>1 DEF TypeOK
    <3> QED
      BY <1>1, <1>4, <3>1, <3>2, FewerAdmitted
  <2>2. CASE Admitted(w) /\ ~Admitted(w)' /\ buffer_size' = buffer_size + 1
    <3>1. w \in AdmittedSet /\ AdmittedSet' = AdmittedSet \ {w}
      BY <1>2, <2>2 DEF AdmittedSet
    <3>2. AdmittedSet \in SUBSET Writers
      BY DEF AdmittedSet
    <3>3. IsFiniteSet(AdmittedSet) /\ Cardinality(AdmittedSet) \in Int /\ Cardinality(Writers) \in Nat
      BY <3>2, WritersCount
    <3>4. Cardinality(AdmittedSet') = Cardinality(AdmittedSet) - 1
      BY <3>1, <3>3, FS_RemoveElement
    <3> QED
      BY <1>1, <1>4, <2>2, <3>3, <3>4, PipeAssumption, SMTT(60) DEF OverrunBound, TypeOK
  <2>3. CASE buffer_size' <= max_pipe_size - 1
    BY <2>3, RoomLeft
  <2> QED
    BY <1>1, <2>1, <2>2, <2>3, WriterAdmission
<1> QED
  BY <1>3, <1>5 DEF AdmissionInv

(* A reader's step admits nobody and lets nobody into the copy.            *)
LEMMA ReaderKeepsAdmission ==
  ASSUME TypeOK, TypeOK', AdmissionInv, NEW r \in Readers, Reader(r)
  PROVE  AdmissionInv'
<1>0. r \in Procs /\ r \notin Writers
  BY KernelAssumption DEF Procs
<1>1. ASSUME NEW w \in Writers
      PROVE  /\ pc'[w] = pc[w] \/ (pc[w] = "w_sleep" /\ pc'[w] = "w_wait")
             /\ num_bytes'[w] = num_bytes[w]
             /\ w \in signalled' <=> w \in signalled
  <2> USE DEF TypeOK, ControlOK
  <2>0. w \in Procs /\ w # r
    BY <1>0 DEF Procs
  <2>1. CASE OpenForRead(r) \/ close_pipe(r) \/ ReadStart(r) \/ ReadWait(r) \/ ReadCopy(r)
    BY <2>0, <2>1 DEF OpenForRead, close_pipe, ReadStart, ReadWait, ReadCopy, Move
  <2>2. CASE ReaderDown(r) \/ DownFails(r, "r_sem", "idle") \/ ReadAdvance(r)
    BY <1>0, <2>0, <2>2 DEF ReaderDown, DownInterruptible, Down, DownFails, Interrupted,
         ReadAdvance, Advanced, up, Move, Leave, Delivered
  <2>3. CASE ReadWake(r)
    BY <1>0, <2>0, <2>3 DEF ReadWake, Woken, Resumed, WriterPC, Leave, Delivered
  <2> QED
    BY <2>1, <2>2, <2>3 DEF Reader, ReaderRuns
<1>2. \A w \in Writers : (Admitted(w)' <=> Admitted(w)) /\ (EntryOK(w) => EntryOK(w)')
  BY <1>1 DEF Admitted, HasRoom, EntryOK
<1>3. AdmittedSet' \subseteq AdmittedSet
  BY <1>2 DEF AdmittedSet
<1>4. buffer_size' <= buffer_size /\ signals' = signals
  BY DEF Reader, ReaderRuns, OpenForRead, close_pipe, ReadStart, ReadWait,
         ReadCopy, ReaderDown, DownInterruptible, Down, DownFails, Interrupted,
         ReadAdvance, Advanced, up, ReadWake, Leave, Delivered, TypeOK, device
<1>5. OverrunBound'
  BY <1>3, <1>4, FewerAdmitted DEF AdmissionInv
<1> QED
  BY <1>2, <1>5 DEF AdmissionInv

(* A signal admits one writer at most, and is counted.                     *)
LEMMA SignalKeepsAdmission ==
  ASSUME TypeOK, TypeOK', AdmissionInv, NEW p \in Procs, SignalArrives(p)
  PROVE  AdmissionInv'
<1>1. /\ buffer_size' = buffer_size
      /\ signals' = signals + 1
      /\ num_bytes' = num_bytes
      /\ signalled' = signalled \cup {p}
      /\ pc[p] \notin {"closed", "idle"}
      /\ pc'[p] = pc[p] \/ pc'[p] \in {"w_wait", "r_wait"}
      /\ \A q \in Procs \ {p} : pc'[q] = pc[q]
  BY DEF Signal, SignalArrives, Resumed, Blocking, TypeOK, ControlOK, device
<1>2. \A w \in Writers \ {p} : (Admitted(w)' <=> Admitted(w)) /\ (EntryOK(w) <=> EntryOK(w)')
  BY <1>1 DEF Admitted, HasRoom, EntryOK, Procs
<1>3. p \in Writers => EntryOK(p)'
  BY <1>1 DEF EntryOK, Admitted
<1>4. AdmittedSet \in SUBSET Writers /\ AdmittedSet' \in SUBSET Writers
  BY DEF AdmittedSet
<1>5. /\ IsFiniteSet(AdmittedSet) /\ Cardinality(AdmittedSet) \in Int
      /\ Cardinality(AdmittedSet') \in Int /\ Cardinality(Writers) \in Nat
  BY <1>4, WritersCount
<1>6. AdmittedSet' \subseteq AdmittedSet \cup {p}
  BY <1>2 DEF AdmittedSet
<1>7. /\ IsFiniteSet(AdmittedSet \cup {p})
      /\ Cardinality(AdmittedSet \cup {p}) = Cardinality(AdmittedSet)
         \/ Cardinality(AdmittedSet \cup {p}) = Cardinality(AdmittedSet) + 1
  BY <1>5, FS_AddElement
<1>8. Cardinality(AdmittedSet') <= Cardinality(AdmittedSet \cup {p})
  BY <1>6, <1>7, FS_Subset
<1>9. buffer_size \in Int /\ signals \in Int /\ max_pipe_size \in Int /\ OverrunBound
  BY PipeAssumption DEF TypeOK, AdmissionInv
<1>10. Cardinality(AdmittedSet') <= Cardinality(AdmittedSet) + 1
  BY <1>5, <1>7, <1>8
<1>11. OverrunBound'
  BY <1>1, <1>5, <1>9, <1>10 DEF OverrunBound
<1> QED
  BY <1>2, <1>3, <1>11 DEF AdmissionInv

LEMMA AdmissionStep ==
  ASSUME TypeOK, TypeOK', AdmissionInv, [Next]_vars
  PROVE  AdmissionInv'
<1>1. CASE UNCHANGED vars
  BY <1>1 DEF vars, device, history, AdmissionInv, OverrunBound, AdmittedSet,
         EntryOK, Admitted, HasRoom
<1> QED
  BY <1>1, WriterKeepsAdmission, ReaderKeepsAdmission, SignalKeepsAdmission DEF Next

(* However many writers pass the unlocked check together, the count        *)
(* exceeds max_pipe_size - 1 by at most one for each writer and signal.    *)
THEOREM WritersOverrunAtMost == Spec => []OverrunBound
<1>1. Init => AdmissionInv
  <2> SUFFICES ASSUME Init PROVE AdmissionInv
    OBVIOUS
  <2>1. AdmittedSet = {}
    BY DEF Init, init_func, AdmittedSet, Admitted, Procs
  <2>2. Cardinality(AdmittedSet) = 0 /\ Cardinality(Writers) \in Nat
    BY <2>1, FS_EmptySet, WritersCount
  <2>3. OverrunBound
    BY <2>2, PipeAssumption DEF Init, init_func, OverrunBound
  <2> QED
    BY <2>3 DEF Init, init_func, AdmissionInv, EntryOK, Procs
<1>2. TypeOK /\ TypeOK' /\ AdmissionInv /\ [Next]_vars => AdmissionInv'
  BY AdmissionStep
<1>3. AdmissionInv => OverrunBound
  BY DEF AdmissionInv
<1> QED
  BY <1>1, <1>2, <1>3, TypeCorrect, PTL DEF Spec

(* The same for readers: no signal outlives the call it interrupted.       *)
SignalInCall(r) == r \in signalled => pc[r] \notin {"closed", "idle"}

ClaimInv == UnderrunBound /\ \A r \in Readers : SignalInCall(r)

LEMMA FewerClaimed ==
  ASSUME TypeOK, TypeOK', UnderrunBound,
         ClaimedSet' \subseteq ClaimedSet, buffer_size' >= buffer_size, signals' = signals
  PROVE  UnderrunBound'
<1>1. Cardinality(ClaimedSet') <= Cardinality(ClaimedSet)
  BY ReadersCount, FS_Subset DEF ClaimedSet
<1>2. Cardinality(ClaimedSet') \in Int /\ Cardinality(ClaimedSet) \in Int
  BY ReadersCount DEF ClaimedSet
<1>3. Cardinality(Readers) \in Int
  BY ReadersCount
<1>4. buffer_size \in Int /\ buffer_size' \in Int /\ signals \in Int
  BY DEF TypeOK
<1> QED
  BY <1>1, <1>2, <1>3, <1>4 DEF UnderrunBound

LEMMA NothingOwed ==
  ASSUME TypeOK', buffer_size' >= 0
  PROVE  UnderrunBound'
<1>1. Cardinality(ClaimedSet') \in 0 .. Cardinality(Readers) /\ Cardinality(Readers) \in Nat
  BY ReadersCount DEF ClaimedSet
<1>2. buffer_size' \in Int /\ signals' \in Nat
  BY DEF TypeOK
<1>3. buffer_size' - Cardinality(ClaimedSet') >= -(Cardinality(Readers) + signals')
  BY <1>1, <1>2
<1> QED
  BY <1>3 DEF UnderrunBound

(* A step of one reader is invisible to the others' claims.                *)
LEMMA ReaderLeavesOthers ==
  ASSUME TypeOK, NEW r \in Readers, Reader(r), NEW q \in Readers, q # r
  PROVE  pc'[q] = pc[q] /\ (q \in signalled' <=> q \in signalled)
<1> USE DEF TypeOK, ControlOK
<1>0. r \in Procs /\ q \in Procs /\ q \notin Writers
  BY KernelAssumption DEF Procs
<1>1. CASE OpenForRead(r) \/ close_pipe(r) \/ ReadStart(r) \/ ReadWait(r) \/ ReadCopy(r)
  BY <1>0, <1>1 DEF OpenForRead, close_pipe, ReadStart, ReadWait, ReadCopy, Move
<1>2. CASE ReaderDown(r) \/ DownFails(r, "r_sem", "idle") \/ ReadAdvance(r)
  BY <1>0, <1>2 DEF ReaderDown, DownInterruptible, Down, DownFails, Interrupted, ReadAdvance,
     Advanced, up, Move, Leave, Delivered
<1>3. CASE ReadWake(r)
  BY <1>0, <1>3 DEF ReadWake, Woken, Resumed, Leave, Delivered
<1> QED
  BY <1>1, <1>2, <1>3 DEF Reader, ReaderRuns

(* What a reader's step does to its own claim and to the count.            *)
LEMMA ReaderClaim ==
  ASSUME TypeOK, NEW r \in Readers, SignalInCall(r), Reader(r)
  PROVE  /\ SignalInCall(r)'
         /\ signals' = signals
         /\ \/ (Claimed(r)' => Claimed(r)) /\ buffer_size' = buffer_size
            \/ Claimed(r) /\ ~Claimed(r)' /\ buffer_size' = buffer_size - 1
            \/ buffer_size' >= 0
<1> USE DEF TypeOK, ControlOK, SignalInCall, Claimed
<1>0. r \in Procs /\ r \notin Writers
  BY KernelAssumption DEF Procs
<1>1. CASE OpenForRead(r) \/ close_pipe(r) \/ ReadStart(r)
  BY <1>0, <1>1 DEF OpenForRead, close_pipe, ReadStart, Move, device
<1>2. CASE ReadWait(r)
  BY <1>0, <1>2 DEF ReadWait, HasData, Move, device
<1>3. CASE ReaderDown(r)
  BY <1>0, <1>3 DEF ReaderDown, DownInterruptible, Down, Move, device
<1>4. CASE DownFails(r, "r_sem", "idle")
  BY <1>0, <1>4 DEF DownFails, Interrupted, Move, Leave, Delivered, device
<1>5. CASE ReadCopy(r)
  BY <1>0, <1>5 DEF ReadCopy, Move
<1>6. CASE ReadAdvance(r)
  BY <1>0, <1>6 DEF ReadAdvance, Advanced, up, Move
<1>7. CASE ReadWake(r)
  BY <1>0, <1>7 DEF ReadWake, Woken, Resumed, Leave, Delivered, device
<1> QED
  BY <1>1, <1>2, <1>3, <1>4, <1>5, <1>6, <1>7 DEF Reader, ReaderRuns

LEMMA ReaderKeepsClaims ==
  ASSUME TypeOK, TypeOK', ClaimInv, NEW r \in Readers, Reader(r)
  PROVE  ClaimInv'
<1>1. SignalInCall(r) /\ UnderrunBound
  BY DEF ClaimInv
<1>2. \A q \in Readers \ {r} :
        (Claimed(q)' <=> Claimed(q)) /\ (SignalInCall(q)' <=> SignalInCall(q))
  BY ReaderLeavesOthers DEF Claimed, SignalInCall
<1>3. \A q \in Readers : SignalInCall(q)'
  BY <1>1, <1>2, ReaderClaim DEF ClaimInv
<1>4. signals' = signals
  BY <1>1, ReaderClaim
<1>5. UnderrunBound'
  <2>1. CASE (Claimed(r)' => Claimed(r)) /\ buffer_size' = buffer_size
    <3>1. ClaimedSet' \subseteq ClaimedSet
      BY <1>2, <2>1 DEF ClaimedSet
    <3>2. buffer_size' >= buffer_size
      BY <2>1 DEF TypeOK
    <3> QED
      BY <1>1, <1>4, <3>1, <3>2, FewerClaimed
  <2>2. CASE Claimed(r) /\ ~Claimed(r)' /\ buffer_size' = buffer_size - 1
    <3>1. r \in ClaimedSet /\ ClaimedSet' = ClaimedSet \ {r}
      BY <1>2, <2>2 DEF ClaimedSet
    <3>2. ClaimedSet \in SUBSET Readers
      BY DEF ClaimedSet
    <3>3. /\ IsFiniteSet(ClaimedSet) /\ Cardinality(ClaimedSet) \in Int
          /\ Cardinality(Readers) \in Nat
      BY <3>2, ReadersCount
    <3>4. Cardinality(ClaimedSet') = Cardinality(ClaimedSet) - 1
      BY <3>1, <3>3, FS_RemoveElement
    <3> QED
      <4>1. buffer_size \in Int /\ signals \in Nat
        BY DEF TypeOK
      <4> QED
        BY <1>1, <1>4, <2>2, <3>3, <3>4, <4>1 DEF UnderrunBound
  <2>3. CASE buffer_size' >= 0
    BY <2>3, NothingOwed
  <2> QED
    BY <1>1, <2>1, <2>2, <2>3, ReaderClaim
<1> QED
  BY <1>3, <1>5 DEF ClaimInv

(* A writer's step adds to the count or empties the pipe, and leaves the   *)
(* readers' claims.                                                        *)
LEMMA WriterKeepsClaims ==
  ASSUME TypeOK, TypeOK', ClaimInv, NEW w \in Writers, Writer(w)
  PROVE  ClaimInv'
<1>0. w \in Procs /\ w \notin Readers
  BY KernelAssumption DEF Procs
<1>1. ASSUME NEW r \in Readers
      PROVE  /\ pc'[r] = pc[r] \/ (pc[r] = "r_sleep" /\ pc'[r] = "r_wait")
             /\ r \in signalled' <=> r \in signalled
  <2> USE DEF TypeOK, ControlOK
  <2>0. r \in Procs /\ w # r
    BY <1>0 DEF Procs
  <2>1. CASE OpenForWrite(w) \/ close_pipe(w) \/ WriteStart(w) \/ WriteWait(w) \/ WriteCopy(w)
    BY <2>0, <2>1 DEF OpenForWrite, close_pipe, WriteStart, WriteWait, WriteCopy, Move
  <2>2. CASE WriterDown(w) \/ WriterDownFails(w) \/ WriteAdvance(w)
    BY <1>0, <2>0, <2>2 DEF WriterDown, WriterDownFails, DownInterruptible, Down, DownFails,
       Interrupted, WriteAdvance, Advanced, up, Move, Leave, Delivered
  <2>3. CASE OpenTrim(w) \/ OpenCreate(w)
    BY <1>0, <2>0, <2>3 DEF OpenTrim, OpenCreate, up, Move, Leave, Delivered
  <2>4. CASE WriteWake(w)
    BY <1>0, <2>0, <2>4 DEF WriteWake, Woken, Resumed, ReaderPC, Leave, Delivered
  <2> QED
    BY <2>1, <2>2, <2>3, <2>4 DEF Writer, WriterRuns
<1>2. \A r \in Readers : (Claimed(r)' <=> Claimed(r)) /\ (SignalInCall(r) => SignalInCall(r)')
  BY <1>1 DEF Claimed, SignalInCall
<1>3. ClaimedSet' \subseteq ClaimedSet
  BY <1>2 DEF ClaimedSet
<1>4. signals' = signals /\ (buffer_size' >= buffer_size \/ buffer_size' = 0)
  <2> USE DEF TypeOK, device
  <2>1. CASE OpenTrim(w) \/ OpenCreate(w)
    BY <2>1 DEF OpenTrim, trim_pipe, OpenCreate, Leave, Delivered
  <2>2. CASE WriteAdvance(w) \/ WriteCopy(w) \/ WriteWait(w) \/ WriteStart(w) \/ WriteWake(w)
    BY <2>2, SMTT(60) DEF WriteAdvance, WriteCopy, WriteWait, WriteStart, WriteWake, Leave, Delivered
  <2>3. CASE OpenForWrite(w) \/ close_pipe(w) \/ WriterDown(w) \/ WriterDownFails(w)
    BY <2>3, SMTT(60) DEF OpenForWrite, close_pipe, WriterDown, WriterDownFails, DownInterruptible, Down,
       DownFails, Interrupted, Leave, Delivered
  <2> QED
    BY <2>1, <2>2, <2>3 DEF Writer, WriterRuns
<1>5. UnderrunBound'
  BY <1>3, <1>4, FewerClaimed, NothingOwed DEF ClaimInv
<1> QED
  BY <1>2, <1>5 DEF ClaimInv

(* A signal adds one claim at most, and is counted.                        *)
LEMMA SignalKeepsClaims ==
  ASSUME TypeOK, TypeOK', ClaimInv, NEW p \in Procs, SignalArrives(p)
  PROVE  ClaimInv'
<1>1. /\ buffer_size' = buffer_size
      /\ signals' = signals + 1
      /\ signalled' = signalled \cup {p}
      /\ pc[p] \notin {"closed", "idle"}
      /\ pc'[p] = pc[p] \/ pc'[p] \in {"w_wait", "r_wait"}
      /\ \A q \in Procs \ {p} : pc'[q] = pc[q]
  BY DEF Signal, SignalArrives, Resumed, Blocking, TypeOK, ControlOK, device
<1>2. \A r \in Readers \ {p} :
        (Claimed(r)' <=> Claimed(r)) /\ (SignalInCall(r) <=> SignalInCall(r)')
  BY <1>1 DEF Claimed, SignalInCall, Procs
<1>3. p \in Readers => SignalInCall(p)'
  BY <1>1 DEF SignalInCall
<1>4. ClaimedSet \in SUBSET Readers /\ ClaimedSet' \in SUBSET Readers
  BY DEF ClaimedSet
<1>5. /\ IsFiniteSet(ClaimedSet) /\ Cardinality(ClaimedSet) \in Int
      /\ Cardinality(ClaimedSet') \in Int /\ Cardinality(Readers) \in Nat
  BY <1>4, ReadersCount
<1>6. ClaimedSet' \subseteq ClaimedSet \cup {p}
  BY <1>2 DEF ClaimedSet
<1>7. /\ IsFiniteSet(ClaimedSet \cup {p})
      /\ Cardinality(ClaimedSet \cup {p}) = Cardinality(ClaimedSet)
         \/ Cardinality(ClaimedSet \cup {p}) = Cardinality(ClaimedSet) + 1
  BY <1>5, FS_AddElement
<1>8. Cardinality(ClaimedSet') <= Cardinality(ClaimedSet \cup {p})
  BY <1>6, <1>7, FS_Subset
<1>9. buffer_size \in Int /\ signals \in Int /\ UnderrunBound
  BY DEF TypeOK, ClaimInv
<1>10. Cardinality(ClaimedSet') <= Cardinality(ClaimedSet) + 1
  BY <1>5, <1>7, <1>8
<1>11. UnderrunBound'
  BY <1>1, <1>5, <1>9, <1>10 DEF UnderrunBound
<1> QED
  BY <1>2, <1>3, <1>11 DEF ClaimInv

(* However many readers pass the unlocked check together, and however      *)
(* often an open empties the pipe under them, the count falls below zero   *)
(* by at most one for each reader and signal.                              *)
THEOREM ReadersUnderrunAtMost == Spec => []UnderrunBound
<1>1. Init => ClaimInv
  <2> SUFFICES ASSUME Init PROVE ClaimInv
    OBVIOUS
  <2>1. ClaimedSet = {}
    BY DEF Init, init_func, ClaimedSet, Claimed, Procs
  <2>2. Cardinality(ClaimedSet) = 0 /\ Cardinality(Readers) \in Nat
    BY <2>1, FS_EmptySet, ReadersCount
  <2>3. UnderrunBound
    BY <2>2 DEF Init, init_func, UnderrunBound
  <2> QED
    BY <2>3 DEF Init, init_func, ClaimInv, SignalInCall, Procs
<1>2. TypeOK /\ TypeOK' /\ ClaimInv /\ [Next]_vars => ClaimInv'
  <2>1. ASSUME ClaimInv, UNCHANGED vars PROVE ClaimInv'
    BY <2>1 DEF vars, device, history, ClaimInv, UnderrunBound, ClaimedSet, Claimed,
       SignalInCall
  <2> QED
    BY <2>1, WriterKeepsClaims, ReaderKeepsClaims, SignalKeepsClaims DEF Next
<1>3. ClaimInv => UnderrunBound
  BY DEF ClaimInv
<1> QED
  BY <1>1, <1>2, <1>3, TypeCorrect, PTL DEF Spec

-----------------------------------------------------------------------------
(* Sleeping and waking                                                     *)

(* A step that puts nobody to sleep, signals nobody and wakes nobody who   *)
(* was about to wake others keeps the promise if it does not add data.     *)
LEMMA NobodyFallsAsleep ==
  ASSUME NoLostWakeup,
         \A w \in Writers : pc'[w] = "w_sleep" =>
           pc[w] = "w_sleep" /\ num_bytes'[w] = num_bytes[w],
         \A r \in Readers : pc'[r] = "r_sleep" => pc[r] = "r_sleep",
         \A q \in Procs : q \in signalled' => q \in signalled,
         \A w \in Writers : pc[w] = "w_wake" => pc'[w] = "w_wake",
         HasData' => HasData
  PROVE  NoLostWakeup'
<1>1. \A w \in Writers : Admitted(w)' /\ pc'[w] = "w_sleep" => Admitted(w)
  BY DEF Admitted, HasRoom, Procs
<1> QED
  BY <1>1 DEF NoLostWakeup, Procs

LEMMA WriterLosesNoWakeup ==
  ASSUME TypeOK, NoLostWakeup, NEW w \in Writers, Writer(w)
  PROVE  NoLostWakeup'
<1> USE DEF TypeOK, ControlOK
<1>0. w \in Procs /\ w \notin Readers /\ (\A r \in Readers : r \in Procs /\ r \notin Writers)
      /\ (\A v \in Writers : v \in Procs)
  BY KernelAssumption DEF Procs
<1>1. CASE OpenForWrite(w) \/ close_pipe(w) \/ WriteCopy(w)
  BY <1>0, <1>1, NobodyFallsAsleep DEF OpenForWrite, close_pipe, WriteCopy, Move, device, HasData
<1>2. CASE WriteStart(w)
  BY <1>0, <1>2, NobodyFallsAsleep DEF WriteStart, Move, device, HasData
<1>3. CASE WriterDown(w)
  BY <1>0, <1>3, NobodyFallsAsleep DEF WriterDown, DownInterruptible, Down, Move, device, HasData
<1>4. CASE WriterDownFails(w)
  BY <1>0, <1>4, NobodyFallsAsleep
  DEF WriterDownFails, DownFails, Interrupted, Move, Leave, Delivered, device, HasData
<1>5. CASE OpenTrim(w)
  BY <1>0, <1>5, NobodyFallsAsleep DEF OpenTrim, trim_pipe, Move, HasData
<1>6. CASE OpenCreate(w)
  BY <1>0, <1>6, NobodyFallsAsleep DEF OpenCreate, up, Move, Leave, Delivered, HasData
<1>7. CASE WriteWait(w)
  <2>1. /\ pc[w] = "w_wait"
        /\ pc'[w] = "w_sleep" => ~(HasRoom(w) \/ w \in signalled)
        /\ \A q \in Procs : q # w => pc'[q] = pc[q]
        /\ UNCHANGED <<num_bytes, signalled, buffer_size>>
    BY <1>0, <1>7 DEF WriteWait, Move, device
  <2>2. ASSUME NEW v \in Writers, pc'[v] = "w_sleep" PROVE ~Admitted(v)'
    <3>1. CASE v = w
      BY <2>1, <2>2, <3>1 DEF Admitted, HasRoom
    <3>2. CASE v # w
      <4>1. pc[v] = "w_sleep" /\ ~Admitted(v)
        BY <1>0, <2>1, <2>2, <3>2 DEF NoLostWakeup
      <4>2. QED
        BY <2>1, <2>2, <4>1 DEF Admitted, HasRoom
    <3>3. QED
      BY <3>1, <3>2
  <2>3. ASSUME NEW r \in Readers, pc'[r] = "r_sleep"
        PROVE  r \notin signalled' /\ (HasData' => \E v \in Writers : pc'[v] = "w_wake")
    <3>1. pc[r] = "r_sleep" /\ HasData' = HasData
      BY <1>0, <2>1, <2>3 DEF HasData
    <3>2. r \notin signalled /\ (HasData => \E v \in Writers : pc[v] = "w_wake")
      BY <3>1 DEF NoLostWakeup
    <3>3. ASSUME NEW v \in Writers, pc[v] = "w_wake" PROVE pc'[v] = "w_wake"
      BY <1>0, <2>1, <3>3
    <3>4. QED
      BY <2>1, <3>1, <3>2, <3>3
  <2> QED
    BY <2>2, <2>3 DEF NoLostWakeup
<1>8. CASE WriteAdvance(w)
  <2>1. /\ pc'[w] = "w_wake" /\ UNCHANGED <<num_bytes, signalled>>
        /\ \A q \in Procs : q # w => pc'[q] = pc[q]
    BY <1>0, <1>8 DEF WriteAdvance, Move
  <2>2. ASSUME NEW v \in Writers, pc'[v] = "w_sleep" PROVE ~Admitted(v)'
    <3>1. v # w /\ pc[v] = "w_sleep"
      BY <1>0, <2>1, <2>2
    <3>2. ~Admitted(v)
      BY <3>1 DEF NoLostWakeup
    <3>3. QED
      BY <2>1, <2>2, <3>1, <3>2 DEF Admitted, HasRoom
  <2>3. \A r \in Readers : pc'[r] = "r_sleep" => r \notin signalled'
    BY <1>0, <2>1 DEF NoLostWakeup
  <2>4. \E v \in Writers : pc'[v] = "w_wake"
    BY <2>1
  <2> QED
    BY <2>2, <2>3, <2>4 DEF NoLostWakeup
<1>9. CASE WriteWake(w)
  <2>1. \A q \in Procs \ {w} : pc'[q] = IF q \in Readers THEN Resumed(pc[q]) ELSE pc[q]
    BY <1>0, <1>9 DEF WriteWake, Woken
  <2>2. pc'[w] = "idle"
    BY <1>0, <1>9 DEF WriteWake, Woken
  <2>3. \A r \in Readers : pc'[r] # "r_sleep"
    BY <1>0, <2>1 DEF Resumed
  <2>4. /\ \A v \in Writers \ {w} : num_bytes'[v] = num_bytes[v]
        /\ signalled' \subseteq signalled
    BY <1>0, <1>9 DEF WriteWake, Leave, Delivered
  <2>5. \A v \in Writers : pc'[v] = "w_sleep" => ~Admitted(v)'
    BY <1>0, <2>1, <2>2, <2>4 DEF NoLostWakeup, Admitted, HasRoom
  <2> QED
    BY <2>3, <2>5 DEF NoLostWakeup
<1> QED
  BY <1>1, <1>2, <1>3, <1>4, <1>5, <1>6, <1>7, <1>8, <1>9 DEF Writer, WriterRuns

LEMMA ReaderLosesNoWakeup ==
  ASSUME TypeOK, NoLostWakeup, NEW r \in Readers, Reader(r)
  PROVE  NoLostWakeup'
<1> USE DEF TypeOK, ControlOK
<1>0. r \in Procs /\ r \notin Writers /\ (\A v \in Writers : v \in Procs /\ v # r)
      /\ (\A q \in Readers : q \in Procs /\ q \notin Writers)
  BY KernelAssumption DEF Procs
<1>1. CASE OpenForRead(r) \/ close_pipe(r) \/ ReadStart(r) \/ ReadCopy(r)
  BY <1>0, <1>1, NobodyFallsAsleep
  DEF OpenForRead, close_pipe, ReadStart, ReadCopy, Move, device, HasData
<1>2. CASE ReadWait(r)
  <2>1. /\ pc'[r] = "r_sleep" => ~HasData /\ r \notin signalled
        /\ \A q \in Procs : q # r => pc'[q] = pc[q]
        /\ UNCHANGED <<num_bytes, signalled, buffer_size>>
    BY <1>0, <1>2 DEF ReadWait, Move, device
  <2> QED
    BY <1>0, <2>1 DEF NoLostWakeup, Admitted, HasRoom, HasData
<1>3. CASE ReaderDown(r)
  BY <1>0, <1>3, NobodyFallsAsleep DEF ReaderDown, DownInterruptible, Down, Move, device, HasData
<1>4. CASE DownFails(r, "r_sem", "idle")
  BY <1>0, <1>4, NobodyFallsAsleep
  DEF DownFails, Interrupted, Move, Leave, Delivered, device, HasData
<1>5. CASE ReadAdvance(r)
  <2>1. HasData' => HasData
    BY <1>5 DEF ReadAdvance, HasData
  <2> QED
    BY <1>0, <1>5, <2>1, NobodyFallsAsleep DEF ReadAdvance, up, Move
<1>6. CASE ReadWake(r)
  <2>1. /\ \A v \in Writers : pc'[v] # "w_sleep" /\ (pc[v] = "w_wake" => pc'[v] = "w_wake")
        /\ \A q \in Readers : pc'[q] = "r_sleep" => pc[q] = "r_sleep"
        /\ signalled' \subseteq signalled /\ buffer_size' = buffer_size
    BY <1>0, <1>6 DEF ReadWake, Woken, Resumed, Leave, Delivered, device
  <2> QED
    BY <2>1, NobodyFallsAsleep DEF HasData
<1> QED
  BY <1>1, <1>2, <1>3, <1>4, <1>5, <1>6 DEF Reader, ReaderRuns

LEMMA SignalLosesNoWakeup ==
  ASSUME TypeOK, NoLostWakeup, NEW p \in Procs, SignalArrives(p)
  PROVE  NoLostWakeup'
<1>1. /\ UNCHANGED <<buffer_size, num_bytes>>
      /\ signalled' = signalled \cup {p}
      /\ pc'[p] \notin {"w_sleep", "r_sleep"} /\ pc[p] # "w_wake"
      /\ \A q \in Procs : q # p => pc'[q] = pc[q]
  BY DEF Signal, SignalArrives, Resumed, Blocking, TypeOK, ControlOK, device
<1> QED
  BY <1>1 DEF NoLostWakeup, Admitted, HasRoom, HasData, Procs

(* Between any up and the wake_up behind it, and whatever signals, opens   *)
(* and other calls come in between, nobody sleeps on what would let it go. *)
THEOREM NobodySleepsReady == Spec => []NoLostWakeup
<1>1. Init => NoLostWakeup
  BY DEF Init, init_func, NoLostWakeup, Procs
<1>2. TypeOK /\ NoLostWakeup /\ [Next]_vars => NoLostWakeup'
  <2>1. ASSUME NoLostWakeup, UNCHANGED vars PROVE NoLostWakeup'
    BY <2>1 DEF vars, device, NoLostWakeup, Admitted, HasRoom, HasData
  <2> QED
    BY <2>1, WriterLosesNoWakeup, ReaderLosesNoWakeup, SignalLosesNoWakeup DEF Next
<1> QED
  BY <1>1, <1>2, TypeCorrect, PTL DEF Spec
=============================================================================
