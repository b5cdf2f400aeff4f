---------------------------- MODULE QuantumList ----------------------------
(***************************************************************************)
(* The storage that ioctl, bitops, ioctl-capability, proc, completion and  *)
(* scratch_to_driver share with scull, for variants in which a call may    *)
(* leave it: lists of sets, each with an array of quanta, and the loops    *)
(* that copy through them.                                                 *)
(*                                                                         *)
(* A call that touches memory which its list does not have is astray, one  *)
(* that divides by zero or clears an array it did not get has an oops;     *)
(* what follows of the program is not modelled.  It keeps its lock.        *)
(***************************************************************************)
EXTENDS Integers, Sequences, FiniteSets

CONSTANTS
  Procs,       (* programs, each with one file at a time                   *)
  Drivers,     (* the drivers to consider                                  *)
  Devices,     (* the devices of proc; the others are seen with one        *)
  Admins,      (* programs with CAP_SYS_ADMIN                              *)
  Sizes,       (* values that ioctl sets a size to                         *)
  device_size, (* largest count of a write                                 *)
  Counts,      (* counts that programs read and write                      *)
  Offsets,     (* offsets that programs seek to                            *)
  MaxLists,    (* bound: no write starts once this many lists were made    *)
  MaxDone,     (* bound: no write of completion starts with this many      *)
  MaxEnd       (* bound: no write of scratch_to_driver beyond this         *)

ASSUME ListAssumption ==
  /\ IsFiniteSet(Procs) /\ Admins \subseteq Procs
  /\ Drivers \subseteq {"ioctl", "bitops", "ioctl-capability", "proc", "completion",
                        "scratch_to_driver"}
  /\ Devices \subseteq Nat /\ 1 \in Devices
  /\ Sizes \subseteq Nat /\ Counts \subseteq Nat /\ Offsets \subseteq Nat
  /\ {device_size, MaxLists, MaxDone, MaxEnd} \subseteq Nat

VARIABLES
  driver,      (* the module loaded; never changes                         *)
  pc,          (* where each program is                                    *)
  file,        (* its open file: mode, device and f_pos                    *)
  loop,        (* locals of the call it is in                              *)
  sem,         (* by device: its semaphore                                 *)
  done,        (* the completion's count                                   *)
  heap,        (* every list allocated so far                              *)
  qset,        (* by device: its list, 0 for NULL                          *)
  size,        (* quantum_size and qset_size                               *)
  data_size,   (* the global data_size                                     *)
  disturbed,   (* history, by device: see the driver's module              *)
  leaked       (* history: who kept the semaphore after a read of no bytes *)

vars ==
  <<driver, pc, file, loop, sem, done, heap, qset, size, data_size, disturbed, leaked>>

DivUp(n, d) == IF n % d = 0 THEN n \div d ELSE n \div d + 1

item == size.quantum * size.qset

Closed == [mode |-> "none", dev |-> 1, pos |-> 0]

NoLoop == [list |-> 0, set |-> 0, slot |-> 0, qoff |-> 0, chunk |-> 0, left |-> 0,
           moved |-> 0, total |-> 0]

Dev(p) == file[p].dev

Move(p, from, to) ==
  pc[p] = from /\ pc' = [pc EXCEPT ![p] = to] /\ UNCHANGED <<driver, leaked>>

(* A call begins when it has the semaphore.  One that a signal gets out of *)
(* its wait has changed nothing, as if it had not been made.               *)
Down(p, d, from, to) ==
  /\ sem[d] = 1
  /\ sem' = [sem EXCEPT ![d] = 0]
  /\ Move(p, from, to)

up(p) == sem' = [sem EXCEPT ![Dev(p)] = 1]

(* Back to the program, its locals gone.                                   *)
Returns(p, from) == Move(p, from, "idle") /\ loop' = [loop EXCEPT ![p] = NoLoop]

SeekTo(p) ==
  \/ \E offset \in Offsets :
       offset <= device_size /\ file' = [file EXCEPT ![p].pos = offset]
  \/ UNCHANGED file

(* A list of so many bytes at the current sizes.                           *)
NewList(bytes) ==
  [sets |-> DivUp(bytes, item), width |-> size.qset, by |-> size.qset,
   quantum |-> size.quantum, blocks |-> DivUp(bytes, size.quantum), live |-> TRUE]

(* An array has as many slots as qset_size said when it was allocated, and *)
(* the quanta were dealt to the sets by what it said after that.           *)
Present(l, set, slot) ==
  /\ l.live
  /\ set < l.sets /\ slot < l.width /\ slot < l.by
  /\ set * l.by + slot < l.blocks

Fits(c) ==
  /\ c.list # 0
  /\ Present(heap[c.list], c.set, c.slot)
  /\ c.chunk <= heap[c.list].quantum

Length(c) == c.chunk - c.qoff

LastOfSet(slot) == slot = size.qset - 1

(* One round: the rest of a quantum, or what is pending, then the next.    *)
Copied(c) ==
  LET pending == c.total - c.moved - Length(c)
  IN  [c EXCEPT !.set = IF LastOfSet(c.slot) THEN @ + 1 ELSE @,
                !.slot = IF LastOfSet(c.slot) THEN 0 ELSE @ + 1,
                !.qoff = 0,
                !.chunk = IF pending < @ THEN pending ELSE @,
                !.left = @ - 1,
                !.moved = @ + Length(c)]

CopyRound(p, at) ==
  IF Fits(loop[p])
  THEN Move(p, at, at) /\ loop' = [loop EXCEPT ![p] = Copied(loop[p])]
  ELSE Move(p, at, "astray") /\ UNCHANGED loop

Advances(p) ==
  file' = IF Fits(loop[p]) THEN [file EXCEPT ![p].pos = @ + Length(loop[p])] ELSE file

WriteLoop(l, count) ==
  [NoLoop EXCEPT !.list = l, !.chunk = size.quantum, !.left = DivUp(count, size.quantum),
                 !.total = count]

(* It stops at the last set of the list.                                   *)
scull_follow(l, n) ==
  IF n <= 0 THEN 0 ELSE IF n < heap[l].sets THEN n ELSE heap[l].sets - 1

(* Seeded bug: the count is not cut to what is left.                       *)
AsAsked(pos, count) == count

BytesToRead(pos, count) == IF pos + count > data_size THEN data_size - pos ELSE count

ReadLoop(l, pos, count) ==
  LET n == BytesToRead(pos, count)
  IN  [list |-> l,
       set |-> IF pos = 0 THEN 0 ELSE scull_follow(l, DivUp(pos, item) - 1),
       slot |-> (pos % item) \div size.quantum,
       qoff |-> pos % size.quantum, chunk |-> size.quantum,
       left |-> DivUp(n, size.quantum), moved |-> 0, total |-> n]

(* Seeded bug: a shorter write leaves the end of a longer one.             *)
EndsBeyond(n) == data_size' = IF n > data_size THEN n ELSE data_size

(* The end of what was written, not of what the device holds.              *)
EndsAt(n) == data_size' = n

Gone == [sets |-> 0, width |-> 0, by |-> 0, quantum |-> 0, blocks |-> 0, live |-> FALSE]

(* Every set of the device's list is freed, the global data_size stays.  A *)
(* list that is replaced is not freed, but under the lock no call reaches  *)
(* it any more, so it need not be told from a freed one.                   *)
Freed(d) == [l \in DOMAIN heap |-> IF l = qset[d] THEN Gone ELSE heap[l]]

initialization ==
  /\ driver \in Drivers
  /\ pc = [p \in Procs |-> "closed"]
  /\ file = [p \in Procs |-> Closed]
  /\ loop = [p \in Procs |-> NoLoop]
  /\ sem = [d \in Devices |-> 1]
  /\ done = 0
  /\ heap = <<>>
  /\ qset = [d \in Devices |-> 0]
  /\ size = [quantum |-> 3, qset |-> 2]
  /\ data_size = 0
  /\ disturbed = [d \in Devices |-> FALSE]
  /\ leaked = {}
=============================================================================
