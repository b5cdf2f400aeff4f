------------------------------ MODULE JitTimer ------------------------------
(***************************************************************************)
(* char_driver/timer: /proc/scullmem.  Every record is printed in two      *)
(* parts, the first by the read itself, the second by a timer that the     *)
(* read arms and waits for.  Programs read the file while others use the   *)
(* device, whose semaphore the first part takes.                           *)
(*                                                                         *)
(* The buffer of the seq_file is counted in lines: one for the first part, *)
(* two for the second.  A step into memory that was freed ends what is     *)
(* followed of it, and so does a BUG.                                      *)
(***************************************************************************)
EXTENDS Naturals, Sequences

CONSTANTS
  Programs,    (* reading /proc/scullmem                                   *)
  Rooms,       (* lines the buffer may still take when a record begins     *)
  MaxShows,    (* bound: records begun                                     *)
  MaxSignals   (* bound: signals delivered to waiting programs             *)

ASSUME JitAssumption ==
  /\ Rooms \subseteq Nat
  /\ MaxShows \in Nat /\ MaxSignals \in Nat

VARIABLES
  pc,          (* where each program is in scull_seq_show                  *)
  cur,         (* each program's ljit, 0 for none                          *)
  room,        (* lines its buffer still takes                             *)
  lines,       (* lines it committed of the record                         *)
  ljit,        (* every struct jit_data allocated so far                   *)
  timer,       (* by struct: its timer, or where its handler is            *)
  sem,         (* the device's semaphore                                   *)
  signals

seq == <<room, lines>>
vars == <<pc, cur, seq, ljit, timer, sem, signals>>

Move(p, from, to) == pc[p] = from /\ pc' = [pc EXCEPT ![p] = to]

Mine(p) == ljit[cur[p]]

-----------------------------------------------------------------------------
(* scull_seq_show                                                          *)

(* A full buffer, or no memory, ends the call at once: nothing happened.   *)
ShowBegin(p) ==
  /\ Len(ljit) < MaxShows
  /\ Move(p, "idle", "sem")
  /\ \E r \in Rooms : r > 0 /\ room' = [room EXCEPT ![p] = r]
  /\ ljit' = Append(ljit, [live |-> TRUE, buf |-> TRUE, flag |-> FALSE, count |-> 0,
                           signalled |-> FALSE])
  /\ timer' = Append(timer, "none")
  /\ cur' = [cur EXCEPT ![p] = Len(ljit')]
  /\ UNCHANGED <<lines, sem, signals>>

ShowDown(p) ==
  /\ sem = 1
  /\ sem' = 0
  /\ Move(p, "sem", "print")
  /\ UNCHANGED <<cur, seq, ljit, timer, signals>>

(* The struct is not freed on this path.                                   *)
ShowInterrupted(p) ==
  /\ sem = 0
  /\ signals < MaxSignals
  /\ signals' = signals + 1
  /\ Move(p, "sem", "idle")
  /\ cur' = [cur EXCEPT ![p] = 0]
  /\ room' = [room EXCEPT ![p] = 0]
  /\ UNCHANGED <<lines, ljit, timer, sem>>

(* The first line; the handler gets what is left of the buffer, NULL if    *)
(* that is nothing.  Room is counted in whole lines, one of them at least  *)
(* to begin with: sprintf never runs past the buffer here.                 *)
ShowPrint(p) ==
  /\ Move(p, "print", "arm")
  /\ lines' = [lines EXCEPT ![p] = 1]
  /\ room' = [room EXCEPT ![p] = @ - 1]
  /\ ljit' = [ljit EXCEPT ![cur[p]].buf = room'[p] > 0]
  /\ UNCHANGED <<cur, timer, sem, signals>>

ShowArm(p) ==
  /\ Move(p, "arm", "up")
  /\ timer' = [timer EXCEPT ![cur[p]] = "pending"]
  /\ UNCHANGED <<cur, seq, ljit, sem, signals>>

ShowUp(p) ==
  /\ Move(p, "up", "wait")
  /\ sem' = 1
  /\ UNCHANGED <<cur, seq, ljit, timer, signals>>

(* Seeded bug: the program waits for the first line.                       *)
SomethingThere(p) == Mine(p).count > 0

Done(p) == Mine(p).flag

ShowWait(p) ==
  /\ Move(p, "wait", IF Done(p) THEN "commit" ELSE "sleep")
  /\ UNCHANGED <<cur, seq, ljit, timer, sem, signals>>

(* The result of the wait is ignored.                                      *)
ShowSignal(p) ==
  /\ signals < MaxSignals
  /\ signals' = signals + 1
  /\ Move(p, "sleep", "commit")
  /\ ljit' = [ljit EXCEPT ![cur[p]].signalled = TRUE]
  /\ UNCHANGED <<cur, seq, timer, sem>>

(* seq_commit has a BUG_ON for a buffer that was overrun.                  *)
ShowCommit(p) ==
  LET n == Mine(p).count
  IN  /\ Move(p, "commit", IF n > room[p] THEN "bug" ELSE "free")
      /\ lines' = [lines EXCEPT ![p] = @ + n]
      /\ room' = [room EXCEPT ![p] = IF n > @ THEN 0 ELSE @ - n]
      /\ UNCHANGED <<cur, ljit, timer, sem, signals>>

ShowFree(p) ==
  /\ Move(p, "free", "idle")
  /\ ljit' = [ljit EXCEPT ![cur[p]].live = FALSE]
  /\ cur' = [cur EXCEPT ![p] = 0]
  /\ room' = [room EXCEPT ![p] = 0]
  /\ lines' = [lines EXCEPT ![p] = 0]
  /\ UNCHANGED <<timer, sem, signals>>

ShowRuns(p) ==
  \/ ShowPrint(p) \/ ShowArm(p) \/ ShowUp(p) \/ ShowWait(p) \/ ShowCommit(p) \/ ShowFree(p)

-----------------------------------------------------------------------------
(* jit_func, in softirq context: it begins with the first part of Handler  *)
(* and may be overtaken by the program on another processor anywhere.      *)

Handler(l, from, to) == timer[l] = from /\ timer' = [timer EXCEPT ![l] = to]

JitBegin(l) ==
  /\ ljit[l].live
  /\ Handler(l, "pending", IF ljit[l].buf THEN "line1" ELSE "wake")
  /\ UNCHANGED <<pc, cur, seq, ljit, sem, signals>>

JitLine(l) ==
  /\ ljit[l].live
  /\ \/ Handler(l, "line1", "line2")
     \/ Handler(l, "line2", "flag")
  /\ ljit' = [ljit EXCEPT ![l].count = @ + 1]
  /\ UNCHANGED <<pc, cur, seq, sem, signals>>

(* Seeded bug: the flag is forgotten, and only the queue is woken.         *)
FlagForgotten(l) == UNCHANGED ljit

RaiseFlag(l) == ljit' = [ljit EXCEPT ![l].flag = TRUE]

JitFlag(l) ==
  /\ ljit[l].live
  /\ Handler(l, "flag", "wake")
  /\ RaiseFlag(l)
  /\ UNCHANGED <<pc, cur, seq, sem, signals>>

JitWake(l) ==
  /\ ljit[l].live
  /\ Handler(l, "wake", "none")
  /\ pc' = [p \in Programs |-> IF pc[p] = "sleep" /\ cur[p] = l THEN "wait" ELSE pc[p]]
  /\ UNCHANGED <<cur, seq, ljit, sem, signals>>

(* The struct has been freed under the handler, or under its timer.        *)
JitStray(l) ==
  /\ ~ljit[l].live
  /\ \/ \E at \in {"pending", "line1", "line2", "flag"} : Handler(l, at, "stray")
     \/ Handler(l, "wake", "late")
  /\ UNCHANGED <<pc, cur, seq, ljit, sem, signals>>

jit_func(l) == JitBegin(l) \/ JitLine(l) \/ JitFlag(l) \/ JitWake(l) \/ JitStray(l)

-----------------------------------------------------------------------------
(* The device's own calls take the semaphore too.                          *)

DeviceCall == sem = 1 /\ sem' = 0 /\ UNCHANGED <<pc, cur, seq, ljit, timer, signals>>

DeviceReturn ==
  /\ sem = 0
  /\ \A p \in Programs : pc[p] \notin {"print", "arm", "up"}
  /\ sem' = 1
  /\ UNCHANGED <<pc, cur, seq, ljit, timer, signals>>

Init ==
  /\ pc = [p \in Programs |-> "idle"]
  /\ cur = [p \in Programs |-> 0]
  /\ room = [p \in Programs |-> 0]
  /\ lines = [p \in Programs |-> 0]
  /\ ljit = <<>>
  /\ timer = <<>>
  /\ sem = 1
  /\ signals = 0

Next ==
  \/ \E p \in Programs :
       \/ ShowBegin(p) \/ ShowDown(p) \/ ShowInterrupted(p) \/ ShowRuns(p) \/ ShowSignal(p)
  \/ \E l \in DOMAIN ljit : jit_func(l)
  \/ DeviceCall \/ DeviceReturn

Spec == Init /\ [][Next]_vars

(* A program that need not wait for the semaphore runs, and so do timers.  *)
FairSpec ==
  /\ Spec
  /\ \A p \in Programs : WF_vars(ShowRuns(p))
  /\ \A l \in 1 .. MaxShows : WF_vars(l \in DOMAIN ljit /\ jit_func(l))
-----------------------------------------------------------------------------

(* Every variable has its type.                                            *)
TypeOK ==
  /\ pc \in [Programs -> {"idle", "sem", "print", "arm", "up", "wait", "sleep", "commit",
                          "free", "bug"}]
  /\ ljit \in Seq([live : BOOLEAN, buf : BOOLEAN, flag : BOOLEAN, count : 0 .. 2,
                   signalled : BOOLEAN])
  /\ timer \in Seq({"none", "pending", "line1", "line2", "flag", "wake", "stray", "late"})
  /\ Len(timer) = Len(ljit)
  /\ cur \in [Programs -> 0 .. Len(ljit)]
  /\ room \in [Programs -> Nat] /\ lines \in [Programs -> Nat]
  /\ sem \in 0 .. 1
  /\ signals \in 0 .. MaxSignals

(* A record whose wait no signal ended is whole: the handler's lines are   *)
(* both in it, and a record without room for them never gets that far.     *)
CommitsWhole ==
  \A p \in Programs : pc[p] = "free" /\ ~Mine(p).signalled => Mine(p).buf /\ lines[p] = 3

(* The handler finds the struct and the buffer it writes to, unless a      *)
(* signal ended the wait.  Only its last step, the wakeup, may come late.  *)
HandlerFindsStruct ==
  \A l \in DOMAIN ljit : timer[l] = "stray" => ljit[l].signalled

(* A program that waits with room for the handler's lines goes on.         *)
WaitEnds ==
  \A p \in Programs : pc[p] = "wait" /\ Mine(p).buf ~> pc[p] \in {"idle", "bug"}
=============================================================================
