----------------------------- MODULE ScullProc -----------------------------
(***************************************************************************)
(* char_driver/proc: scull in one file, seen with several devices.  Each   *)
(* has a semaphore and a list of its own; data_size, which ends every read *)
(* and which every call sets, they share.                                  *)
(*                                                                         *)
(* A device is disturbed when a call on another one set data_size after    *)
(* the last write to it.                                                   *)
(***************************************************************************)
EXTENDS QuantumList

ProcOpen(p) ==
  /\ \E mode \in {"r", "w"}, d \in Devices :
       /\ \/ mode = "r" /\ Move(p, "closed", "idle") /\ UNCHANGED sem
          \/ mode = "w" /\ Down(p, d, "closed", "trim")
       /\ file' = [file EXCEPT ![p] = [mode |-> mode, dev |-> d, pos |-> 0]]
  /\ UNCHANGED <<loop, done, heap, qset, size, data_size, disturbed>>

ProcClose(p) ==
  /\ Move(p, "idle", "closed")
  /\ file' = [file EXCEPT ![p] = Closed]
  /\ UNCHANGED <<loop, sem, done, heap, qset, size, data_size, disturbed>>

ProcTrim(p) ==
  /\ Returns(p, "trim")
  /\ up(p)
  /\ heap' = Freed(Dev(p))
  /\ qset' = [qset EXCEPT ![Dev(p)] = 0]
  /\ UNCHANGED <<file, done, size, data_size, disturbed>>

ProcWrite(p) ==
  /\ file[p].mode = "w" /\ Len(heap) < MaxLists
  /\ Down(p, Dev(p), "idle", "w_create")
  /\ UNCHANGED <<file, loop, done, heap, qset, size, data_size, disturbed>>

ProcTooLarge(p) ==
  /\ \E count \in Counts : count > device_size
  /\ Returns(p, "w_create")
  /\ up(p)
  /\ UNCHANGED <<file, done, heap, qset, size, data_size, disturbed>>

ProcCreate(p) ==
  /\ Move(p, "w_create", "w_copy")
  /\ \E count \in Counts :
       /\ 0 < count /\ count <= device_size
       /\ heap' = Append(Freed(Dev(p)), NewList(count))
       /\ loop' = [loop EXCEPT ![p] = WriteLoop(Len(heap'), count)]
  /\ qset' = [qset EXCEPT ![Dev(p)] = Len(heap')]
  /\ UNCHANGED <<file, sem, done, size, data_size, disturbed>>

(* A write of no bytes gets no list either.                                *)
ProcCreateFails(p) ==
  /\ \/ /\ Returns(p, "w_create")
        /\ up(p)
        /\ heap' = Freed(Dev(p))
        /\ qset' = [qset EXCEPT ![Dev(p)] = 0]
     \/ Move(p, "w_create", "oops") /\ UNCHANGED <<loop, sem, heap, qset>>
  /\ UNCHANGED <<file, done, size, data_size, disturbed>>

ProcWriteRound(p) ==
  /\ loop[p].left > 0
  /\ CopyRound(p, "w_copy")
  /\ UNCHANGED <<file, sem, done, heap, qset, size, data_size, disturbed>>

ProcWritten(p) ==
  /\ loop[p].left = 0
  /\ Returns(p, "w_copy")
  /\ up(p)
  /\ EndsAt(loop[p].moved)
  /\ disturbed' = [d \in Devices |-> d # Dev(p)]
  /\ UNCHANGED <<file, done, heap, qset, size>>

ProcRead(p) ==
  /\ file[p].mode = "r"
  /\ Down(p, Dev(p), "idle", "r_start")
  /\ UNCHANGED <<file, loop, done, heap, qset, size, data_size, disturbed>>

ProcReadBegin(p) ==
  LET l == qset[Dev(p)]
  IN  /\ IF file[p].pos >= data_size \/ l = 0
         THEN Returns(p, "r_start") /\ up(p)
         ELSE /\ Move(p, "r_start", "r_copy")
              /\ \E count \in Counts : loop' = [loop EXCEPT ![p] = ReadLoop(l, file[p].pos, count)]
              /\ UNCHANGED sem
      /\ UNCHANGED <<file, done, heap, qset, size, data_size, disturbed>>

ProcReadRound(p) ==
  /\ loop[p].left > 0
  /\ CopyRound(p, "r_copy")
  /\ Advances(p)
  /\ UNCHANGED <<sem, done, heap, qset, size, data_size, disturbed>>

ProcReadDone(p) ==
  /\ loop[p].left = 0
  /\ Returns(p, "r_copy")
  /\ up(p)
  /\ data_size' = file[p].pos
  /\ disturbed' = [d \in Devices |-> disturbed[d] \/ d # Dev(p)]
  /\ UNCHANGED <<file, done, heap, qset, size>>

ProcSeek(p) ==
  /\ \/ file[p].mode = "r" /\ Down(p, Dev(p), "idle", "seek") /\ UNCHANGED <<file, loop>>
     \/ Returns(p, "seek") /\ up(p) /\ SeekTo(p)
  /\ UNCHANGED <<done, heap, qset, size, data_size, disturbed>>

(* One record of /proc/scullmem: it waits for the device it shows.         *)
ProcShow(p) ==
  /\ \/ \E d \in Devices :
          Down(p, d, "closed", "show") /\ file' = [file EXCEPT ![p].dev = d]
     \/ Move(p, "show", "closed") /\ up(p) /\ file' = [file EXCEPT ![p] = Closed]
  /\ UNCHANGED <<loop, done, heap, qset, size, data_size, disturbed>>

ProcNext(p) ==
  \/ ProcOpen(p) \/ ProcClose(p) \/ ProcTrim(p)
  \/ ProcWrite(p) \/ ProcTooLarge(p) \/ ProcCreate(p) \/ ProcCreateFails(p)
  \/ ProcWriteRound(p) \/ ProcWritten(p)
  \/ ProcRead(p) \/ ProcReadBegin(p) \/ ProcReadRound(p) \/ ProcReadDone(p)
  \/ ProcSeek(p) \/ ProcShow(p)
=============================================================================
