---------------------------- MODULE ScullScratch ----------------------------
(***************************************************************************)
(* char_driver/scratch_to_driver: scull that keeps its list and grows it   *)
(* when a write goes beyond the end.  Programs open it for reading and     *)
(* writing, as both test applications do; no open frees anything, since    *)
(* trim_dev only looks for a last set without an array.                    *)
(*                                                                         *)
(* The device is disturbed once a write was not an append of whole quanta. *)
(***************************************************************************)
EXTENDS QuantumList

ScratchOpen(p) ==
  /\ Move(p, "closed", "idle")
  /\ file' = [file EXCEPT ![p] = [mode |-> "rw", dev |-> 1, pos |-> 0]]
  /\ UNCHANGED <<loop, sem, done, heap, qset, size, data_size, disturbed>>

ScratchClose(p) ==
  /\ Move(p, "idle", "closed")
  /\ file' = [file EXCEPT ![p] = Closed]
  /\ UNCHANGED <<loop, sem, done, heap, qset, size, data_size, disturbed>>

ScratchCall(p) ==
  /\ \E to \in {"w_start", "r_start", "seek"} : Down(p, 1, "idle", to)
  /\ UNCHANGED <<file, loop, done, heap, qset, size, data_size, disturbed>>

-----------------------------------------------------------------------------
(* write_dev                                                               *)

(* Both calls refuse more than the device is said to take.                 *)
ScratchTooLarge(p) ==
  /\ \E count \in Counts : count > device_size
  /\ \E at \in {"w_start", "r_start"} : Returns(p, at)
  /\ up(p)
  /\ UNCHANGED <<file, done, heap, qset, size, data_size, disturbed>>

Allowed(p, count) == count <= device_size /\ file[p].pos + count <= MaxEnd

Appends(p, count) ==
  /\ file[p].pos = data_size
  /\ count % size.quantum = 0
  /\ qset[1] = 0 => file[p].pos = 0

Notes(p, count) == disturbed' = [disturbed EXCEPT ![1] = @ \/ ~Appends(p, count)]

(* Where the copying of a write begins.                                    *)
At(p, l, set, count) ==
  [list |-> l, set |-> set, slot |-> (file[p].pos % item) \div size.quantum,
   qoff |-> file[p].pos % size.quantum, chunk |-> size.quantum,
   left |-> 0, moved |-> 0, total |-> count]

ScratchCreate(p) ==
  /\ qset[1] = 0 /\ Len(heap) < MaxLists
  /\ Move(p, "w_start", "w_copy")
  /\ \E count \in Counts :
       /\ count > 0 /\ Allowed(p, count)
       /\ heap' = Append(heap, NewList(count))
       /\ loop' = [loop EXCEPT ![p] = At(p, Len(heap'), 0, count)]
       /\ Notes(p, count)
  /\ qset' = [qset EXCEPT ![1] = Len(heap')]
  /\ UNCHANGED <<file, sem, done, size, data_size>>

(* Also for a write of no bytes.                                           *)
ScratchCreateFails(p) ==
  /\ qset[1] = 0
  /\ \/ Returns(p, "w_start") /\ up(p)
     \/ Move(p, "w_start", "oops") /\ UNCHANGED <<loop, sem>>
  /\ UNCHANGED <<file, done, heap, qset, size, data_size, disturbed>>

(* C's division rounds towards zero.                                       *)
quant_req(bytes) ==
  IF bytes >= 0 THEN DivUp(bytes, size.quantum)
  ELSE (IF (-bytes) % size.quantum = 0 THEN 0 ELSE 1) - ((-bytes) \div size.quantum)

(* The set that is filled up, and its slots without a quantum.             *)
LastSet(l) == scull_follow(l, DivUp(data_size, item))

Slots(l) ==
  LET used == heap[l].blocks - LastSet(l) * size.qset
  IN  IF used >= size.qset THEN 0 ELSE size.qset - used

(* Seeded bug: the slots of the last set are filled, no sets are added.    *)
GrownShort(l, n) == [heap[l] EXCEPT !.blocks = @ + Slots(l)]

(* The rest goes into new sets behind that one; what was there is lost.    *)
Grown(l, n) ==
  LET more == n - Slots(l)
      kept == (LastSet(l) + 1) * size.qset
  IN  IF more <= 0
      THEN [heap[l] EXCEPT !.blocks = @ + Slots(l)]
      ELSE [heap[l] EXCEPT !.sets = LastSet(l) + 1 + DivUp(more, size.qset),
                           !.blocks = kept + more]

(* data_size counts for the quanta that are there, its last one for none.  *)
alloc_bytes(p, count) == file[p].pos + count - data_size - (data_size % size.quantum)

expand_scull(p) ==
  /\ qset[1] # 0
  /\ Move(p, "w_start", "w_expanded")
  /\ \E count \in Counts :
       /\ Allowed(p, count) /\ file[p].pos + count > data_size
       /\ heap' = [heap EXCEPT ![qset[1]] = Grown(qset[1], quant_req(alloc_bytes(p, count)))]
       /\ loop' = [loop EXCEPT ![p] = [NoLoop EXCEPT !.total = count]]
       /\ Notes(p, count)
  /\ UNCHANGED <<file, sem, done, qset, size, data_size>>

(* Some slots are filled, then there is no memory; or all are, and the     *)
(* sets that were behind are dropped before the new ones fail.             *)
ExpandFails(p) ==
  LET l == qset[1] IN
  /\ l # 0
  /\ \E count \in Counts :
       /\ Allowed(p, count) /\ file[p].pos + count > data_size
       /\ \/ /\ Returns(p, "w_start") /\ up(p)
             /\ \E n \in 0 .. Slots(l) - 1 : heap' = [heap EXCEPT ![l].blocks = @ + n]
          \/ /\ quant_req(alloc_bytes(p, count)) > Slots(l)
             /\ \/ /\ Returns(p, "w_start") /\ up(p)
                   /\ heap' = [heap EXCEPT ![l].sets = LastSet(l) + 1,
                                           ![l].blocks = (LastSet(l) + 1) * size.qset]
                \/ /\ Move(p, "w_start", "oops") /\ UNCHANGED <<loop, sem>>
                   /\ heap' = [heap EXCEPT ![l].blocks = @ + Slots(l)]
  /\ UNCHANGED <<file, done, qset, size, data_size, disturbed>>

ScratchExpanded(p) ==
  LET first == scull_follow(qset[1], DivUp(file[p].pos, item) - 1)
  IN  /\ Move(p, "w_expanded", "w_copy")
      /\ loop' = [loop EXCEPT ![p] = At(p, qset[1], first, loop[p].total)]
      /\ UNCHANGED <<file, sem, done, heap, qset, size, data_size, disturbed>>

(* Before the end, the search goes one set further; exactly up to the end  *)
(* there is no search at all, and no list.                                 *)
ScratchOverwrite(p) ==
  /\ qset[1] # 0
  /\ Move(p, "w_start", "w_copy")
  /\ \E count \in Counts :
       /\ Allowed(p, count) /\ file[p].pos + count <= data_size
       /\ loop' = [loop EXCEPT ![p] =
            IF file[p].pos + count = data_size
            THEN At(p, 0, 0, count)
            ELSE At(p, qset[1], scull_follow(qset[1], DivUp(file[p].pos, item)), count)]
       /\ Notes(p, count)
  /\ UNCHANGED <<file, sem, done, heap, qset, size, data_size>>

ScratchWriteRound(p) ==
  /\ loop[p].moved < loop[p].total
  /\ CopyRound(p, "w_copy")
  /\ Advances(p)
  /\ UNCHANGED <<sem, done, heap, qset, size, data_size, disturbed>>

ScratchWritten(p) ==
  /\ loop[p].moved >= loop[p].total
  /\ Returns(p, "w_copy")
  /\ up(p)
  /\ data_size' = IF file[p].pos > data_size THEN file[p].pos
                  ELSE IF data_size = 0 THEN loop[p].moved ELSE data_size
  /\ UNCHANGED <<file, done, heap, qset, size, disturbed>>

-----------------------------------------------------------------------------
(* read_dev and llseek_dev                                                 *)

(* A read of no bytes returns without up.                                  *)
ScratchReadNothing(p) ==
  /\ 0 \in Counts
  /\ pc[p] = "r_start"
  /\ pc' = [pc EXCEPT ![p] = "idle"]
  /\ loop' = [loop EXCEPT ![p] = NoLoop]
  /\ leaked' = leaked \cup {p}
  /\ UNCHANGED <<driver, file, sem, done, heap, qset, size, data_size, disturbed>>

(* Seeded bug: nor does a read of a device without a list.                 *)
ReadFailsHolding(p) ==
  /\ qset[1] = 0
  /\ Returns(p, "r_start")
  /\ UNCHANGED <<file, sem, done, heap, qset, size, data_size, disturbed>>

ScratchReadFails(p) ==
  /\ qset[1] = 0
  /\ Returns(p, "r_start")
  /\ up(p)
  /\ UNCHANGED <<file, done, heap, qset, size, data_size, disturbed>>

ScratchReadBegin(p) ==
  /\ qset[1] # 0
  /\ Move(p, "r_start", "r_copy")
  /\ \E count \in Counts :
       /\ 0 < count /\ count <= device_size
       /\ loop' = [loop EXCEPT ![p] = ReadLoop(qset[1], file[p].pos, count)]
  /\ UNCHANGED <<file, sem, done, heap, qset, size, data_size, disturbed>>

Unread(p) == loop[p].moved < loop[p].total /\ file[p].pos < data_size

ScratchReadRound(p) ==
  /\ Unread(p)
  /\ CopyRound(p, "r_copy")
  /\ Advances(p)
  /\ UNCHANGED <<sem, done, heap, qset, size, data_size, disturbed>>

ScratchReadDone(p) ==
  /\ ~Unread(p)
  /\ Returns(p, "r_copy")
  /\ up(p)
  /\ UNCHANGED <<file, done, heap, qset, size, data_size, disturbed>>

ScratchSeek(p) ==
  /\ Returns(p, "seek")
  /\ up(p)
  /\ SeekTo(p)
  /\ UNCHANGED <<done, heap, qset, size, data_size, disturbed>>

ScratchNext(p) ==
  \/ ScratchOpen(p) \/ ScratchClose(p) \/ ScratchCall(p)
  \/ ScratchTooLarge(p) \/ ScratchCreate(p) \/ ScratchCreateFails(p)
  \/ expand_scull(p) \/ ExpandFails(p) \/ ScratchExpanded(p) \/ ScratchOverwrite(p)
  \/ ScratchWriteRound(p) \/ ScratchWritten(p)
  \/ ScratchReadNothing(p) \/ ScratchReadFails(p) \/ ScratchReadBegin(p)
  \/ ScratchReadRound(p) \/ ScratchReadDone(p) \/ ScratchSeek(p)
=============================================================================
