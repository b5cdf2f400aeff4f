----------------------------- MODULE ScullIoctl -----------------------------
(***************************************************************************)
(* char_driver/ioctl, bitops and ioctl-capability: scull with quantum_size *)
(* and qset_size set at run time, by any program with the device open, or  *)
(* by a privileged one, and never under the semaphore: also while a call   *)
(* is in the middle of a list.  The passes of create_scull and the copy    *)
(* loops read the sizes where they need them; a change in the middle of a  *)
(* pass is taken to come before or after it.                               *)
(*                                                                         *)
(* A device is disturbed when a size changed after its list was begun.     *)
(***************************************************************************)
EXTENDS QuantumList

IoctlOpen(p) ==
  /\ \E mode \in {"r", "w"} :
       /\ \/ mode = "r" /\ Move(p, "closed", "idle") /\ UNCHANGED sem
          \/ mode = "w" /\ Down(p, 1, "closed", "trim")
       /\ file' = [file EXCEPT ![p] = [mode |-> mode, dev |-> 1, pos |-> 0]]
  /\ UNCHANGED <<loop, done, heap, qset, size, data_size, disturbed>>

IoctlClose(p) ==
  /\ Move(p, "idle", "closed")
  /\ file' = [file EXCEPT ![p] = Closed]
  /\ UNCHANGED <<loop, sem, done, heap, qset, size, data_size, disturbed>>

(* trim_dev frees as many slots of every array as qset_size says now.      *)
IoctlTrim(p) ==
  LET beyond == qset[1] # 0 /\ size.qset > heap[qset[1]].width
  IN  /\ \/ beyond /\ Move(p, "trim", "astray") /\ UNCHANGED <<loop, sem, heap, qset>>
         \/ /\ ~beyond
            /\ Returns(p, "trim")
            /\ up(p)
            /\ heap' = Freed(1)
            /\ qset' = [qset EXCEPT ![1] = 0]
      /\ UNCHANGED <<file, done, size, data_size, disturbed>>

Noticed == disturbed' = IF size' = size THEN disturbed ELSE [d \in Devices |-> TRUE]

ioctl_dev(p) ==
  /\ pc[p] = "idle"
  /\ driver = "ioctl-capability" => p \in Admins
  /\ \E n \in Sizes : size' = [size EXCEPT !.quantum = n] \/ size' = [size EXCEPT !.qset = n]
  /\ Noticed
  /\ UNCHANGED <<driver, pc, file, loop, sem, done, heap, qset, data_size, leaked>>

-----------------------------------------------------------------------------
(* write_dev and create_scull, pass by pass                                *)

IoctlWrite(p) ==
  /\ file[p].mode = "w" /\ Len(heap) < MaxLists
  /\ Down(p, 1, "idle", "w_create")
  /\ UNCHANGED <<file, loop, done, heap, qset, size, data_size, disturbed>>

IoctlTooLarge(p) ==
  /\ \E count \in Counts : count > device_size
  /\ Returns(p, "w_create")
  /\ up(p)
  /\ UNCHANGED <<file, done, heap, qset, size, data_size, disturbed>>

(* No memory, or none asked for: the device is left without a list.        *)
IoctlCreateFails(p) ==
  /\ \/ item > 0 /\ Returns(p, "w_create")
     \/ size.quantum > 0 /\ Returns(p, "w_quanta")
  /\ up(p)
  /\ heap' = Freed(1)
  /\ qset' = [qset EXCEPT ![1] = 0]
  /\ UNCHANGED <<file, done, size, data_size, disturbed>>

(* A size of zero is divided by; an array that was not allocated is        *)
(* cleared.                                                                *)
IoctlOopses(p) ==
  /\ \/ item = 0 /\ \E at \in {"w_create", "w_arrays"} : Move(p, at, "oops")
     \/ size.quantum = 0 /\ \E at \in {"w_quanta", "w_begin"} : Move(p, at, "oops")
     \/ Move(p, "w_arrays", "oops")
     \/ item = 0 /\ file[p].pos < data_size /\ qset[1] # 0 /\ Move(p, "r_start", "oops")
  /\ UNCHANGED <<file, loop, sem, done, heap, qset, size, data_size, disturbed>>

create_scullqset(p) ==
  /\ item > 0
  /\ Move(p, "w_create", "w_arrays")
  /\ \E count \in Counts :
       /\ 0 < count /\ count <= device_size
       /\ heap' = Append(heap, [sets |-> DivUp(count, item), width |-> 0, by |-> 0,
                                quantum |-> 0, blocks |-> 0, live |-> TRUE])
       /\ loop' = [loop EXCEPT ![p] = [NoLoop EXCEPT !.list = Len(heap'), !.total = count]]
  /\ disturbed' = [disturbed EXCEPT ![1] = FALSE]
  /\ UNCHANGED <<file, sem, done, qset, size, data_size>>

create_qset(p) ==
  /\ item > 0
  /\ Move(p, "w_arrays", "w_quanta")
  /\ heap' = [heap EXCEPT ![loop[p].list].width = size.qset]
  /\ UNCHANGED <<file, loop, sem, done, qset, size, data_size, disturbed>>

(* The quanta are dealt to arrays that may have another size by now; with  *)
(* a qset_size of zero they all go to the first one.                       *)
Dealt(l, n) ==
  LET by == IF size.qset = 0 THEN n ELSE size.qset
  IN  [l EXCEPT !.by = by, !.quantum = size.quantum, !.blocks = n]

create_quantums(p) ==
  LET l == heap[loop[p].list]
      n == DivUp(loop[p].total, size.quantum)
      dealt == Dealt(l, n)
      room == \A j \in 0 .. n - 1 : Present(dealt, j \div dealt.by, j % dealt.by)
  IN  /\ size.quantum > 0
      /\ \/ /\ room
            /\ Move(p, "w_quanta", "w_begin")
            /\ heap' = [Freed(1) EXCEPT ![loop[p].list] = dealt]
            /\ qset' = [qset EXCEPT ![1] = loop[p].list]
         \/ ~room /\ Move(p, "w_quanta", "astray") /\ UNCHANGED <<heap, qset>>
      /\ UNCHANGED <<file, loop, sem, done, size, data_size, disturbed>>

IoctlBegin(p) ==
  /\ size.quantum > 0
  /\ Move(p, "w_begin", "w_copy")
  /\ loop' = [loop EXCEPT ![p] = WriteLoop(@.list, @.total)]
  /\ UNCHANGED <<file, sem, done, heap, qset, size, data_size, disturbed>>

IoctlWriteRound(p) ==
  /\ loop[p].left > 0
  /\ CopyRound(p, "w_copy")
  /\ UNCHANGED <<file, sem, done, heap, qset, size, data_size, disturbed>>

IoctlWritten(p) ==
  /\ loop[p].left = 0
  /\ Returns(p, "w_copy")
  /\ up(p)
  /\ EndsAt(loop[p].moved)
  /\ UNCHANGED <<file, done, heap, qset, size, disturbed>>

-----------------------------------------------------------------------------
(* read_dev, llseek_dev and /proc/scullmem                                 *)

IoctlRead(p) ==
  /\ file[p].mode = "r"
  /\ Down(p, 1, "idle", "r_start")
  /\ UNCHANGED <<file, loop, done, heap, qset, size, data_size, disturbed>>

IoctlReadBegin(p) ==
  /\ IF file[p].pos >= data_size \/ qset[1] = 0
     THEN Returns(p, "r_start") /\ up(p)
     ELSE /\ item > 0
          /\ Move(p, "r_start", "r_copy")
          /\ \E count \in Counts :
               loop' = [loop EXCEPT ![p] = ReadLoop(qset[1], file[p].pos, count)]
          /\ UNCHANGED sem
  /\ UNCHANGED <<file, done, heap, qset, size, data_size, disturbed>>

IoctlReadRound(p) ==
  /\ loop[p].left > 0
  /\ CopyRound(p, "r_copy")
  /\ Advances(p)
  /\ UNCHANGED <<sem, done, heap, qset, size, data_size, disturbed>>

IoctlReadDone(p) ==
  /\ loop[p].left = 0
  /\ Returns(p, "r_copy")
  /\ up(p)
  /\ data_size' = file[p].pos
  /\ UNCHANGED <<file, done, heap, qset, size, disturbed>>

IoctlSeek(p) ==
  /\ \/ file[p].mode = "r" /\ Down(p, 1, "idle", "seek") /\ UNCHANGED <<file, loop>>
     \/ Returns(p, "seek") /\ up(p) /\ SeekTo(p)
  /\ UNCHANGED <<done, heap, qset, size, data_size, disturbed>>

scull_seq_show(p) ==
  /\ \/ Down(p, 1, "closed", "show")
     \/ Move(p, "show", "closed") /\ up(p)
  /\ UNCHANGED <<file, loop, done, heap, qset, size, data_size, disturbed>>

IoctlNext(p) ==
  \/ IoctlOpen(p) \/ IoctlClose(p) \/ IoctlTrim(p)
  \/ ioctl_dev(p)
  \/ IoctlWrite(p) \/ IoctlTooLarge(p) \/ IoctlCreateFails(p) \/ IoctlOopses(p)
  \/ create_scullqset(p) \/ create_qset(p) \/ create_quantums(p)
  \/ IoctlBegin(p) \/ IoctlWriteRound(p) \/ IoctlWritten(p)
  \/ IoctlRead(p) \/ IoctlReadBegin(p) \/ IoctlReadRound(p) \/ IoctlReadDone(p)
  \/ IoctlSeek(p) \/ scull_seq_show(p)
=============================================================================
