-------------------------- MODULE ScullCompletion --------------------------
(***************************************************************************)
(* char_driver/completion: scull without a lock.  A read waits until a     *)
(* write completed, and takes that completion with it; nothing else keeps  *)
(* calls apart.  A write completes whether it succeeded or not.            *)
(*                                                                         *)
(* The device is disturbed when a call that changes its list runs while    *)
(* another is in it, or a write does not start at position 0 (data_size    *)
(* becomes its end, not its length), until a write replaces the list with  *)
(* nobody else about.                                                      *)
(***************************************************************************)
EXTENDS QuantumList

Alters(p) == pc[p] \in {"trimmed", "w_begin", "w_copy"}
InList(p) == Alters(p) \/ pc[p] = "r_copy"
NotAlone(p) == \E q \in Procs \ {p} : InList(q)

Dangling == qset[1] # 0 /\ ~heap[qset[1]].live

(* An open for writing frees the list first and clears the pointer to it   *)
(* last; another one in between walks what was freed.                      *)
ComplOpen(p) ==
  /\ \E mode \in {"r", "w"} :
       /\ file' = [file EXCEPT ![p] = [mode |-> mode, dev |-> 1, pos |-> 0]]
       /\ \/ /\ mode = "r" \/ qset[1] = 0
             /\ Move(p, "closed", "idle")
             /\ UNCHANGED <<heap, disturbed>>
          \/ /\ mode = "w" /\ qset[1] # 0
             /\ Move(p, "closed", IF Dangling THEN "astray" ELSE "trimmed")
             /\ heap' = Freed(1)
             /\ disturbed' = [disturbed EXCEPT ![1] = @ \/ NotAlone(p)]
  /\ UNCHANGED <<loop, sem, done, qset, size, data_size>>

ComplTrimmed(p) ==
  /\ Move(p, "trimmed", "idle")
  /\ qset' = [qset EXCEPT ![1] = 0]
  /\ disturbed' = [disturbed EXCEPT ![1] = @ \/ NotAlone(p)]
  /\ UNCHANGED <<file, loop, sem, done, heap, size, data_size>>

ComplClose(p) ==
  /\ Move(p, "idle", "closed")
  /\ file' = [file EXCEPT ![p] = Closed]
  /\ UNCHANGED <<loop, sem, done, heap, qset, size, data_size, disturbed>>

ComplWrite(p) ==
  /\ file[p].mode = "w" /\ Len(heap) < MaxLists /\ done < MaxDone
  /\ Move(p, "idle", "w_create")
  /\ UNCHANGED <<file, loop, sem, done, heap, qset, size, data_size, disturbed>>

complete == done' = done + 1

ComplTooLarge(p) ==
  /\ \E count \in Counts : count > device_size
  /\ Returns(p, "w_create")
  /\ complete
  /\ UNCHANGED <<file, sem, heap, qset, size, data_size, disturbed>>

Replaced(p) == NotAlone(p) \/ file[p].pos # 0

ComplCreate(p) ==
  /\ Move(p, "w_create", "w_begin")
  /\ \E count \in Counts :
       /\ 0 < count /\ count <= device_size
       /\ heap' = Append(heap, NewList(count))
       /\ loop' = [loop EXCEPT ![p] = WriteLoop(0, count)]
  /\ qset' = [qset EXCEPT ![1] = Len(heap')]
  /\ disturbed' = [disturbed EXCEPT ![1] = Replaced(p)]
  /\ UNCHANGED <<file, sem, done, size, data_size>>

ComplCreateFails(p) ==
  /\ \/ Returns(p, "w_create") /\ complete /\ qset' = [qset EXCEPT ![1] = 0]
     \/ Move(p, "w_create", "oops") /\ UNCHANGED <<loop, done, qset>>
  /\ disturbed' = [disturbed EXCEPT ![1] = @ \/ NotAlone(p)]
  /\ UNCHANGED <<file, sem, heap, size, data_size>>

(* The list is taken from the device again, which may have lost it.        *)
ComplBegin(p) ==
  /\ \/ /\ Move(p, "w_begin", "w_copy")
        /\ loop' = [loop EXCEPT ![p].list = qset[1]]
        /\ UNCHANGED done
     \/ qset[1] = 0 /\ Returns(p, "w_begin") /\ complete
  /\ UNCHANGED <<file, sem, heap, qset, size, data_size, disturbed>>

ComplWriteRound(p) ==
  /\ loop[p].left > 0
  /\ CopyRound(p, "w_copy")
  /\ Advances(p)
  /\ UNCHANGED <<sem, done, heap, qset, size, data_size, disturbed>>

ComplWritten(p) ==
  /\ loop[p].left = 0
  /\ Returns(p, "w_copy")
  /\ EndsAt(file[p].pos)
  /\ complete
  /\ UNCHANGED <<file, sem, heap, qset, size, disturbed>>

(* A read begins when it gets a completion; its wait is not interruptible. *)
ComplRead(p) ==
  /\ file[p].mode = "r"
  /\ done > 0
  /\ done' = done - 1
  /\ Move(p, "idle", "r_start")
  /\ UNCHANGED <<file, loop, sem, heap, qset, size, data_size, disturbed>>

(* scull_follow is called, and looks at the list, for any other position.  *)
Follows(p) == file[p].pos # 0

ComplReadBegin(p) ==
  /\ IF file[p].pos >= data_size \/ qset[1] = 0
     THEN Returns(p, "r_start") /\ UNCHANGED disturbed
     ELSE /\ \/ /\ Follows(p) /\ Dangling
                /\ Move(p, "r_start", "astray") /\ UNCHANGED loop
             \/ /\ Follows(p) => ~Dangling
                /\ Move(p, "r_start", "r_copy")
                /\ \E count \in Counts :
                     loop' = [loop EXCEPT ![p] = ReadLoop(qset[1], file[p].pos, count)]
          /\ disturbed' = [disturbed EXCEPT ![1] = @ \/ \E q \in Procs : Alters(q)]
  /\ UNCHANGED <<file, sem, done, heap, qset, size, data_size>>

ComplReadRound(p) ==
  /\ loop[p].left > 0
  /\ CopyRound(p, "r_copy")
  /\ Advances(p)
  /\ UNCHANGED <<sem, done, heap, qset, size, data_size, disturbed>>

ComplReadDone(p) ==
  /\ loop[p].left = 0
  /\ Returns(p, "r_copy")
  /\ data_size' = file[p].pos
  /\ UNCHANGED <<file, sem, done, heap, qset, size, disturbed>>

ComplSeek(p) ==
  /\ Move(p, "idle", "idle")
  /\ SeekTo(p)
  /\ UNCHANGED <<loop, sem, done, heap, qset, size, data_size, disturbed>>

ComplNext(p) ==
  \/ ComplOpen(p) \/ ComplTrimmed(p) \/ ComplClose(p) \/ ComplSeek(p)
  \/ ComplWrite(p) \/ ComplTooLarge(p) \/ ComplCreate(p) \/ ComplCreateFails(p)
  \/ ComplBegin(p) \/ ComplWriteRound(p) \/ ComplWritten(p)
  \/ ComplRead(p) \/ ComplReadBegin(p) \/ ComplReadRound(p) \/ ComplReadDone(p)
=============================================================================
