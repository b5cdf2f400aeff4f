-------------------------------- MODULE Scull --------------------------------
(***************************************************************************)
(* The scull device and the drivers of char_driver/ that keep its storage  *)
(* under one lock.  `driver' names the module that is loaded: scull and    *)
(* atomic, blocking with its copies cpucycle, jiffy and timer, whose reads *)
(* wait for data first, and spinlock, whose lock no signal interrupts.     *)
(* The device is the one the tests make a node for.                        *)
(*                                                                         *)
(* A device's list of quantum sets is written by one call of write_dev     *)
(* and never appended to, so it is a record of the heap: how many quanta   *)
(* were allocated, how many bytes copied in, and whether it was freed.     *)
(* Offset x of a list is byte x of that write.  Quanta are numbered        *)
(* through the sets: set n holds qset_size quanta from n * qset_size on.   *)
(*                                                                         *)
(* A writer's f_pos, the sizes kept per device and data_size in the device *)
(* are never read by these calls and left out; so are bad user addresses,  *)
(* which are only logged.                                                  *)
(***************************************************************************)
EXTENDS Kernel, Sequences

CONSTANTS
  Drivers,
  quantum_size,  (* bytes in a quantum                                     *)
  qset_size,     (* quanta in a set                                        *)
  device_size,   (* the longest write                                      *)
  Counts,        (* the sizes programs ask for                             *)
  Offsets,       (* where programs seek to                                 *)
  MaxLists       (* bound: no write starts once this many lists were made  *)

Waiting == {"blocking", "cpucycle", "jiffy", "timer"}

ASSUME ScullAssumption ==
  /\ Drivers \subseteq {"scull", "atomic", "spinlock"} \cup Waiting
  /\ quantum_size \in Nat \ {0}
  /\ qset_size \in Nat \ {0}
  /\ device_size \in Nat
  /\ Counts \subseteq Nat
  /\ Offsets \subseteq Nat
  /\ MaxLists \in Nat

VARIABLES
  driver,     (* the module loaded; never changes                          *)
  heap,       (* every list of quantum sets allocated so far               *)
  qset,       (* the device's list, 0 for NULL                             *)
  data_size,  (* the global data_size                                      *)
  f_pos,      (* each reader's position                                    *)
  loop,       (* locals of the copy loop each process is in                *)
  replaced    (* history: a write found a list in the device, or did not   *)
              (* get the memory for its own                                *)

storage == <<heap, qset, data_size>>
vars == <<pc, sem, signalled, signals, driver, storage, f_pos, loop, replaced>>

(* lscullqset, i as the number of a quantum, qoff, to_read or to_write, the*)
(* rounds left, bytes_read or bytes_wrtn, and what the call is to copy.    *)
Idle == [list |-> 0, at |-> 0, qoff |-> 0, chunk |-> 0, rounds |-> 0,
         moved |-> 0, total |-> 0, count |-> 0, start |-> 0]

DivUp(n, d) == IF n % d = 0 THEN n \div d ELSE n \div d + 1

DownInterruptible(p, from, to) ==
  /\ Down(p, from, to)
  /\ UNCHANGED <<driver, storage, f_pos, loop, replaced>>

(* spin_lock_bh cannot fail.                                               *)
DownFails(p, from, to) ==
  /\ driver # "spinlock"
  /\ Interrupted(p, from, to)
  /\ Delivered(p)
  /\ UNCHANGED <<driver, storage, f_pos, loop, replaced>>

(* The call returns from inside the lock.                                  *)
UpAndReturn(p, from, to) ==
  /\ Move(p, from, to)
  /\ up
  /\ Delivered(p)
  /\ loop' = [loop EXCEPT ![p] = Idle]
  /\ UNCHANGED driver

-----------------------------------------------------------------------------
(* open_dev, close_dev and llseek_dev                                      *)

OpenForRead(r) ==
  /\ Move(r, "closed", "idle")
  /\ f_pos' = [f_pos EXCEPT ![r] = 0]
  /\ UNCHANGED <<sem, signalled, signals, driver, storage, loop, replaced>>

OpenForWrite(w) ==
  /\ Move(w, "closed", "open_sem")
  /\ UNCHANGED <<sem, signalled, signals, driver, storage, f_pos, loop, replaced>>

(* Seeded bug: the list is freed and the device keeps its address.         *)
TrimKeepsAddress == UNCHANGED qset

TrimAddress == qset' = 0

(* Seeded bug: nothing is freed.                                           *)
KeptByTrim(l) == heap[l].live

StillLive(l) == heap[l].live /\ l # qset

(* Every set of the device's list is freed; the global data_size stays.    *)
trim_dev ==
  /\ heap' = [l \in DOMAIN heap |-> [heap[l] EXCEPT !.live = StillLive(l)]]
  /\ TrimAddress
  /\ UNCHANGED data_size

OpenTrim(w) ==
  /\ UpAndReturn(w, "trim", "idle")
  /\ trim_dev
  /\ UNCHANGED <<f_pos, replaced>>

close_dev(p) ==
  /\ Move(p, "idle", "closed")
  /\ UNCHANGED <<sem, signalled, signals, driver, storage, f_pos, loop, replaced>>

SeekStart(r) ==
  /\ Move(r, "idle", "seek_sem")
  /\ UNCHANGED <<sem, signalled, signals, driver, storage, f_pos, loop, replaced>>

(* SEEK_CUR and SEEK_END, and an offset beyond the device, move nothing.   *)
llseek_dev(r) ==
  /\ UpAndReturn(r, "seek", "idle")
  /\ \/ \E offset \in Offsets :
          offset <= device_size /\ f_pos' = [f_pos EXCEPT ![r] = offset]
     \/ UNCHANGED f_pos
  /\ UNCHANGED <<storage, replaced>>

-----------------------------------------------------------------------------
(* One round of the copy loop: the rest of a quantum, or what is pending.  *)

(* Seeded bug: the last quantum is copied whole.                           *)
LastChunkWhole(pending, chunk) == chunk

LastChunk(pending, chunk) == IF pending < chunk THEN pending ELSE chunk

Rounds(n) == DivUp(n, quantum_size)

(* Seeded bug: the operands are swapped.                                   *)
LengthSwapped(l) == l.qoff - l.chunk

Length(l) == l.chunk - l.qoff

Round(l) ==
  [list |-> l.list, at |-> l.at + 1, qoff |-> 0,
   chunk |-> LastChunk(l.total - l.moved - Length(l), l.chunk), rounds |-> l.rounds - 1,
   moved |-> l.moved + Length(l), total |-> l.total, count |-> l.count, start |-> l.start]

-----------------------------------------------------------------------------
(* write_dev                                                               *)

WriteStart(w) ==
  /\ Len(heap) < MaxLists
  /\ Move(w, "idle", "w_sem")
  /\ UNCHANGED <<sem, signalled, signals, driver, storage, f_pos, loop, replaced>>

TooLarge(w) ==
  /\ \E count \in Counts : count > device_size
  /\ UpAndReturn(w, "w_create", "idle")
  /\ UNCHANGED <<storage, f_pos, replaced>>

Quanta(count) == DivUp(count, quantum_size)

(* create_scull succeeds: the old list is forgotten, not freed.            *)
WriteCreate(w) ==
  \E count \in Counts :
    /\ 0 < count /\ count <= device_size
    /\ Move(w, "w_create", "w_copy")
    /\ heap' = Append(heap, [quanta |-> Quanta(count), filled |-> 0, live |-> TRUE])
    /\ qset' = Len(heap')
    /\ loop' = [loop EXCEPT ![w] =
         [list |-> Len(heap'), at |-> 0, qoff |-> 0, chunk |-> quantum_size,
          rounds |-> Rounds(count), moved |-> 0, total |-> count, count |-> count,
          start |-> 0]]
    /\ replaced' = (replaced \/ qset # 0)
    /\ UNCHANGED <<sem, signalled, signals, driver, data_size, f_pos>>

(* It fails for a write of no bytes, which takes no memory, and when       *)
(* kmalloc fails; what was allocated of the list until then stays.         *)
CreateFails(w) ==
  \E count \in Counts :
    /\ count <= device_size
    /\ UpAndReturn(w, "w_create", "idle")
    /\ qset' = 0
    /\ \/ UNCHANGED heap
       \/ count > 0 /\ heap' = Append(heap, [quanta |-> 0, filled |-> 0, live |-> TRUE])
    /\ replaced' = (replaced \/ qset # 0 \/ heap' # heap)
    /\ UNCHANGED <<data_size, f_pos>>

(* create_qset clears a set's array before it looks whether it got one:    *)
(* the process dies with the semaphore.                                    *)
CreateOopses(w) ==
  /\ \E count \in Counts : 0 < count /\ count <= device_size
  /\ Move(w, "w_create", "oops")
  /\ heap' = Append(heap, [quanta |-> 0, filled |-> 0, live |-> TRUE])
  /\ replaced' = TRUE
  /\ UNCHANGED <<sem, signalled, signals, driver, qset, data_size, f_pos, loop>>

WriteRound(w) ==
  /\ loop[w].rounds > 0
  /\ Move(w, "w_copy", "w_copy")
  /\ heap' = [heap EXCEPT ![loop[w].list].filled = @ + Length(loop[w])]
  /\ loop' = [loop EXCEPT ![w] = Round(loop[w])]
  /\ UNCHANGED <<sem, signalled, signals, driver, qset, data_size, f_pos, replaced>>

(* Only the drivers whose reads wait have somebody to wake.                *)
WriteDone(w) ==
  /\ loop[w].rounds = 0
  /\ data_size' = loop[w].moved
  /\ up
  /\ loop' = [loop EXCEPT ![w] = Idle]
  /\ \/ driver \in Waiting /\ Move(w, "w_copy", "w_wake") /\ UNCHANGED <<signalled, signals>>
     \/ driver \notin Waiting /\ Move(w, "w_copy", "idle") /\ Delivered(w)
  /\ UNCHANGED <<driver, heap, qset, f_pos, replaced>>

WriteWake(w) ==
  /\ pc[w] = "w_wake"
  /\ pc' = [Woken(Readers) EXCEPT ![w] = "idle"]
  /\ Delivered(w)
  /\ UNCHANGED <<sem, driver, storage, f_pos, loop, replaced>>

-----------------------------------------------------------------------------
(* read_dev                                                                *)

ReadStart(r) ==
  /\ Move(r, "idle", IF driver \in Waiting THEN "r_wait" ELSE "r_sem")
  /\ UNCHANGED <<sem, signalled, signals, driver, storage, f_pos, loop, replaced>>

ReadWait(r) ==
  /\ Move(r, "r_wait", IF data_size > 0 \/ r \in signalled THEN "r_sem" ELSE "r_sleep")
  /\ UNCHANGED <<sem, signalled, signals, driver, storage, f_pos, loop, replaced>>

item == quantum_size * qset_size

(* scull_follow stops at the last set of the list.                         *)
scull_follow(list, qset_num) ==
  LET sets == DivUp(heap[list].quanta, qset_size)
  IN  IF qset_num < sets THEN qset_num ELSE sets - 1

(* Seeded bug: a position inside the first set is followed to the second.  *)
FirstQuantumOneSetOn(list, pos) ==
  (IF pos = 0 THEN 0 ELSE scull_follow(list, pos \div item + 1) * qset_size)
    + (pos % item) \div quantum_size

(* The quantum a read begins with.                                         *)
FirstQuantum(list, pos) ==
  (IF pos = 0 THEN 0 ELSE scull_follow(list, DivUp(pos, item) - 1) * qset_size)
    + (pos % item) \div quantum_size

(* Seeded bug: the count is not clamped to what is left.                   *)
BytesAsked(pos, count) == count

BytesToRead(pos, count) == IF pos + count > data_size THEN data_size - pos ELSE count

NothingThere(r) == f_pos[r] >= data_size \/ qset = 0

ReadFails(r) ==
  /\ NothingThere(r)
  /\ UpAndReturn(r, "r_start", "idle")
  /\ UNCHANGED <<storage, f_pos, replaced>>

ReadBegin(r) ==
  /\ ~NothingThere(r)
  /\ Move(r, "r_start", "r_copy")
  /\ \E count \in Counts :
       LET nobtr == BytesToRead(f_pos[r], count)
       IN loop' = [loop EXCEPT ![r] =
            [list |-> qset, at |-> FirstQuantum(qset, f_pos[r]),
             qoff |-> f_pos[r] % quantum_size, chunk |-> quantum_size,
             rounds |-> Rounds(nobtr), moved |-> 0, total |-> nobtr,
             count |-> count, start |-> f_pos[r]]]
  /\ UNCHANGED <<sem, signalled, signals, driver, storage, f_pos, replaced>>

ReadRound(r) ==
  /\ loop[r].rounds > 0
  /\ Move(r, "r_copy", "r_copy")
  /\ f_pos' = [f_pos EXCEPT ![r] = @ + Length(loop[r])]
  /\ loop' = [loop EXCEPT ![r] = Round(loop[r])]
  /\ UNCHANGED <<sem, signalled, signals, driver, storage, replaced>>

(* The device now ends where this read did.                                *)
ReadDone(r) ==
  /\ loop[r].rounds = 0
  /\ data_size' = f_pos[r]
  /\ UpAndReturn(r, "r_copy", "idle")
  /\ UNCHANGED <<heap, qset, f_pos, replaced>>

-----------------------------------------------------------------------------

SignalArrives(p) == Signal(p) /\ UNCHANGED <<driver, storage, f_pos, loop, replaced>>

initialization ==
  /\ pc = [p \in Procs |-> "closed"]
  /\ sem = 1
  /\ signalled = {}
  /\ signals = 0
  /\ driver \in Drivers
  /\ heap = <<>>
  /\ qset = 0
  /\ data_size = 0
  /\ f_pos = [r \in Readers |-> 0]
  /\ loop = [p \in Procs |-> Idle]
  /\ replaced = FALSE

Init == initialization

WriterDown(w) ==
  \/ DownInterruptible(w, "open_sem", "trim")
  \/ DownInterruptible(w, "w_sem", "w_create")

WriterRuns(w) ==
  \/ DownFails(w, "open_sem", "closed")
  \/ DownFails(w, "w_sem", "idle")
  \/ OpenTrim(w)
  \/ TooLarge(w) \/ WriteCreate(w) \/ CreateFails(w)
  \/ WriteRound(w) \/ WriteDone(w) \/ WriteWake(w)

ReaderDown(r) ==
  \/ DownInterruptible(r, "seek_sem", "seek")
  \/ DownInterruptible(r, "r_sem", "r_start")

ReaderRuns(r) ==
  \/ DownFails(r, "seek_sem", "idle")
  \/ DownFails(r, "r_sem", "idle")
  \/ llseek_dev(r)
  \/ ReadWait(r)
  \/ ReadFails(r) \/ ReadBegin(r) \/ ReadRound(r) \/ ReadDone(r)

Writer(w) ==
  \/ OpenForWrite(w) \/ close_dev(w) \/ WriteStart(w)
  \/ WriterDown(w) \/ WriterRuns(w) \/ CreateOopses(w)

Reader(r) ==
  \/ OpenForRead(r) \/ close_dev(r) \/ SeekStart(r) \/ ReadStart(r)
  \/ ReaderDown(r) \/ ReaderRuns(r)

Next ==
  \/ \E w \in Writers : Writer(w)
  \/ \E r \in Readers : Reader(r)
  \/ \E p \in Procs : SignalArrives(p)

Spec == Init /\ [][Next]_vars
-----------------------------------------------------------------------------

WriterPC == {"closed", "open_sem", "trim", "idle", "w_sem", "w_create", "w_copy", "w_wake",
             "oops"}
ReaderPC == {"closed", "idle", "seek_sem", "seek", "r_wait", "r_sleep", "r_sem", "r_start",
             "r_copy"}

ControlOK ==
  /\ pc \in [Procs -> WriterPC \cup ReaderPC]
  /\ \A w \in Writers : pc[w] \in WriterPC
  /\ \A r \in Readers : pc[r] \in ReaderPC
  /\ sem \in {0, 1}
  /\ signalled \subseteq Procs
  /\ signals \in Nat

LoopType ==
  [list : Nat, at : Nat, qoff : Nat, chunk : Int, rounds : Nat,
   moved : Nat, total : Nat, count : Nat, start : Nat]

DataOK ==
  /\ driver \in Drivers
  /\ heap \in Seq([quanta : Nat, filled : Nat, live : BOOLEAN])
  /\ qset \in 0 .. Len(heap)
  /\ data_size \in Nat
  /\ f_pos \in [Readers -> Nat]
  /\ loop \in [Procs -> LoopType]
  /\ replaced \in BOOLEAN

(* Every variable has its type; a chunk may end up negative.               *)
TypeOK == ControlOK /\ DataOK

Holding(p) ==
  pc[p] \in {"trim", "w_create", "w_copy", "seek", "r_start", "r_copy", "oops"}

(* Every return path of open, llseek, read and write leaves the lock free, *)
(* and one process at most is inside it.                                   *)
SemExclusive ==
  /\ sem = 1 <=> \A p \in Procs : ~Holding(p)
  /\ \A p, q \in Procs : Holding(p) /\ Holding(q) => p = q

Copying(p) == pc[p] \in {"w_copy", "r_copy"}

(* A copy loop walks the device's own list, and never one that an open for *)
(* writing freed.                                                          *)
CopiesLiveList ==
  \A p \in Procs : Copying(p) =>
    loop[p].list = qset /\ qset # 0 /\ heap[qset].live

(* A copy loop only touches quanta that were allocated, although data_size *)
(* outlives the list it was set for and a read may move it either way.     *)
CopiesAllocated ==
  \A p \in Procs : Copying(p) /\ loop[p].rounds > 0 =>
    loop[p].at < heap[loop[p].list].quanta

(* A read that starts behind the first set, and at the very start of one,  *)
(* is led astray to the set before: so many quanta behind its position.    *)
Behind(start) == IF start > 0 /\ start % item = 0 THEN qset_size ELSE 0

(* Any other read copies, in every round, the bytes at its own position.   *)
ReadsOwnPosition ==
  \A r \in Readers : pc[r] = "r_copy" /\ loop[r].rounds > 0 =>
    (loop[r].at + Behind(loop[r].start)) * quantum_size + loop[r].qoff = f_pos[r]

(* A call for at least a quantum moves no more than was asked for, and all *)
(* of what it set out to move when it began on a quantum.                  *)
MovesWhatWasAsked ==
  \A p \in Procs : Copying(p) /\ loop[p].rounds = 0 =>
    /\ loop[p].count >= quantum_size => loop[p].moved <= loop[p].count
    /\ loop[p].start % quantum_size = 0 /\ loop[p].total >= quantum_size
         => loop[p].moved = loop[p].total

(* As long as every write came to a trimmed device and got its memory, no  *)
(* list is lost: the device's own is the only one that was not freed.      *)
LeaksOnlyReplaced ==
  ~replaced => \A l \in DOMAIN heap : heap[l].live => l = qset

(* In the drivers whose reads wait: nobody sleeps on data, except while a  *)
(* writer is about to wake him.                                            *)
SleepingReaderWillBeWoken ==
  \A r \in Readers : pc[r] = "r_sleep" /\ data_size > 0 => \E w \in Writers : pc[w] = "w_wake"
=============================================================================
