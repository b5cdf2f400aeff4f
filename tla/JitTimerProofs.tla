--------------------------- MODULE JitTimerProofs ---------------------------
(***************************************************************************)
(* The record printed by a read of /proc/scullmem and by the timer it      *)
(* arms, for any number of programs, records, buffer sizes and signals.    *)
(***************************************************************************)
EXTENDS JitTimer, SequenceTheorems, TLAPS

Struct == [live : BOOLEAN, buf : BOOLEAN, flag : BOOLEAN, count : 0 .. 2, signalled : BOOLEAN]

(* How far the handler is tells what it has written; it raises the flag    *)
(* after its two lines.  Nobody frees a struct but its program, which then *)
(* saw the flag or a signal.                                               *)
StructInv(l) ==
  /\ timer[l] \in {"pending", "line1"} => ljit[l].count = 0
  /\ timer[l] = "line2" => ljit[l].count = 1
  /\ timer[l] = "flag" => ljit[l].count = 2
  /\ timer[l] \in {"line1", "line2", "flag"} => ljit[l].buf
  /\ ljit[l].flag => ljit[l].buf /\ ljit[l].count = 2 /\ timer[l] \in {"wake", "none", "late"}
  /\ ~ljit[l].live => ljit[l].flag \/ ljit[l].signalled
  /\ timer[l] = "stray" => ljit[l].signalled

(* A program has a struct of its own from kmalloc to kfree; the timer is   *)
(* not armed before the first line is printed, and the wait ends by the    *)
(* flag or by a signal.                                                    *)
ProgramInv(p) ==
  /\ pc[p] # "idle" => cur[p] # 0
  /\ \A q \in Programs : q # p /\ cur[q] = cur[p] => cur[p] = 0
  /\ pc[p] \in {"sem", "print"} => room[p] > 0
  /\ pc[p] \in {"sem", "print", "arm"} =>
       timer[cur[p]] = "none" /\ Mine(p).count = 0 /\ ~Mine(p).flag
  /\ pc[p] \in {"arm", "up", "wait", "sleep", "commit"} => lines[p] = 1
  /\ pc[p] \in {"commit", "free"} => Mine(p).flag \/ Mine(p).signalled
  /\ pc[p] = "free" /\ ~Mine(p).signalled => lines[p] = 3

JitInv ==
  /\ \A l \in 1 .. Len(ljit) : StructInv(l)
  /\ \A p \in Programs : ProgramInv(p)

-----------------------------------------------------------------------------
(* One struct of many                                                      *)

(* Where a timer or its handler is.                                        *)
At == {"none", "pending", "line1", "line2", "flag", "wake", "stray", "late"}

States == {"idle", "sem", "print", "arm", "up", "wait", "sleep", "commit", "free", "bug"}

Only(l) == \A k \in 1 .. Len(ljit) : k # l => ljit'[k] = ljit[k] /\ timer'[k] = timer[k]

LEMMA Fields ==
  ASSUME NEW s \in Struct
  PROVE  /\ \A b \in BOOLEAN :
              /\ [s EXCEPT !.live = b] \in Struct
              /\ [s EXCEPT !.buf = b] \in Struct
              /\ [s EXCEPT !.flag = b] \in Struct
              /\ [s EXCEPT !.signalled = b] \in Struct
         /\ \A n \in 0 .. 2 : [s EXCEPT !.count = n] \in Struct
BY DEF Struct

LEMMA StructChanged ==
  ASSUME TypeOK, NEW l \in 1 .. Len(ljit), NEW s \in Struct,
         ljit' = [ljit EXCEPT ![l] = s]
  PROVE  /\ ljit' \in Seq(Struct) /\ Len(ljit') = Len(ljit) /\ ljit'[l] = s
         /\ \A k \in 1 .. Len(ljit) : k # l => ljit'[k] = ljit[k]
<1>1. ljit \in Seq(Struct)
  BY DEF TypeOK, Struct
<1>2. QED
  BY <1>1, ExceptSeq

LEMMA TimerChanged ==
  ASSUME TypeOK, NEW l \in 1 .. Len(ljit), NEW at \in At, timer' = [timer EXCEPT ![l] = at]
  PROVE  /\ timer' \in Seq(At) /\ Len(timer') = Len(timer) /\ timer'[l] = at
         /\ \A k \in 1 .. Len(ljit) : k # l => timer'[k] = timer[k]
<1>1. timer \in Seq(At) /\ Len(timer) = Len(ljit)
  BY DEF TypeOK, At
<1>2. QED
  BY <1>1, ExceptSeq

LEMMA StructsKept ==
  ASSUME TypeOK, JitInv, NEW l \in 1 .. Len(ljit), Only(l), Len(ljit') = Len(ljit),
         StructInv(l)'
  PROVE  \A k \in 1 .. Len(ljit') : StructInv(k)'
<1> SUFFICES ASSUME NEW k \in 1 .. Len(ljit), k # l PROVE StructInv(k)'
  OBVIOUS
<1>1. ljit'[k] = ljit[k] /\ timer'[k] = timer[k] /\ StructInv(k)
  BY DEF Only, JitInv
<1>2. QED
  BY <1>1 DEF StructInv

(* The struct of a program that is in scull_seq_show.                      *)
LEMMA Held ==
  ASSUME TypeOK, JitInv, NEW p \in Programs, pc[p] # "idle"
  PROVE  cur[p] \in 1 .. Len(ljit) /\ Mine(p) \in Struct /\ StructInv(cur[p])
<1>1. ljit \in Seq(Struct) /\ cur[p] \in 0 .. Len(ljit)
  BY DEF TypeOK, Struct
<1>2. cur[p] \in 1 .. Len(ljit)
  BY <1>1 DEF JitInv, ProgramInv
<1>3. QED
  BY <1>1, <1>2, ElementOfSeq DEF Mine, JitInv

(* What one program does with its struct is nothing to the others.         *)
LEMMA OthersKept ==
  ASSUME TypeOK, JitInv, NEW p \in Programs, Only(cur[p]),
         \A q \in Programs : q # p =>
           pc'[q] = pc[q] /\ cur'[q] = cur[q] /\ room'[q] = room[q] /\ lines'[q] = lines[q],
         cur'[p] \in {0, cur[p], Len(ljit) + 1}
  PROVE  /\ \A q \in Programs : q # p => ProgramInv(q)'
         /\ \A q \in Programs : q # p /\ cur'[q] = cur'[p] => cur'[p] = 0
<1>1. \A q \in Programs : cur[q] \in 0 .. Len(ljit) /\ Len(ljit) \in Nat
  BY DEF TypeOK
<1>2. \A q \in Programs : q # p /\ cur'[q] = cur'[p] => cur'[p] = 0
  BY <1>1 DEF JitInv, ProgramInv
<1>3. ASSUME NEW q \in Programs, q # p PROVE ProgramInv(q)'
  <2>1. ProgramInv(q)
    BY DEF JitInv
  <2>2. \A k \in Programs : k # q /\ cur'[k] = cur'[q] => cur'[q] = 0
    BY <1>1, <1>2, <1>3, <2>1 DEF ProgramInv
  <2>3. pc[q] # "idle" => cur[q] # cur[p] /\ cur[q] \in 1 .. Len(ljit)
    BY <1>1, <1>3, <2>1 DEF ProgramInv
  <2>4. pc[q] # "idle" => ljit'[cur'[q]] = ljit[cur[q]] /\ timer'[cur'[q]] = timer[cur[q]]
    BY <1>3, <2>3 DEF Only
  <2>5. QED
    BY <1>3, <2>1, <2>2, <2>4 DEF ProgramInv, Mine
<1>4. QED
  BY <1>2, <1>3

-----------------------------------------------------------------------------
(* scull_seq_show                                                          *)

(* A step by which a program goes on with the struct it has keeps what is  *)
(* to be kept, if it does so for that program and that struct.             *)
LEMMA ShowStep ==
  ASSUME TypeOK, JitInv, NEW p \in Programs, NEW from, NEW to \in States, Move(p, from, to),
         from # "idle", to # "idle", UNCHANGED cur,
         \A q \in Programs : q # p => room'[q] = room[q] /\ lines'[q] = lines[q],
         ljit' \in Seq(Struct), timer' \in Seq(At),
         Len(ljit') = Len(ljit), Len(timer') = Len(timer), Only(cur[p]),
         room' \in [Programs -> Nat], lines' \in [Programs -> Nat],
         sem' \in 0 .. 1, signals' \in 0 .. MaxSignals,
         StructInv(cur[p])',
         to \in {"sem", "print"} => room'[p] > 0,
         to \in {"sem", "print", "arm"} =>
           timer'[cur[p]] = "none" /\ ljit'[cur[p]].count = 0 /\ ~ljit'[cur[p]].flag,
         to \in {"arm", "up", "wait", "sleep", "commit"} => lines'[p] = 1,
         to \in {"commit", "free"} => ljit'[cur[p]].flag \/ ljit'[cur[p]].signalled,
         to = "free" /\ ~ljit'[cur[p]].signalled => lines'[p] = 3
  PROVE  TypeOK' /\ JitInv'
<1>1. pc \in [Programs -> States] /\ Len(timer) = Len(ljit)
  BY DEF TypeOK, States
<1>2. /\ pc' \in [Programs -> States] /\ pc[p] = from /\ pc'[p] = to
      /\ \A q \in Programs : q # p => pc'[q] = pc[q]
  BY <1>1 DEF Move
<1>3. TypeOK'
  BY <1>1, <1>2 DEF TypeOK, States, Struct, At
<1>4. cur[p] \in 1 .. Len(ljit)
  BY <1>2, Held
<1>5. \A k \in 1 .. Len(ljit') : StructInv(k)'
  BY <1>4, StructsKept
<1>6. /\ \A q \in Programs : q # p => ProgramInv(q)'
      /\ \A q \in Programs : q # p /\ cur'[q] = cur'[p] => cur'[p] = 0
  BY <1>2, OthersKept
<1>7. ProgramInv(p)'
  BY <1>2, <1>4, <1>6 DEF ProgramInv, Mine
<1>8. QED
  BY <1>3, <1>5, <1>6, <1>7 DEF JitInv

(* What the steps find that leave the structs, or all but one field, alone.*)
LEMMA Found ==
  ASSUME TypeOK
  PROVE  /\ ljit \in Seq(Struct) /\ timer \in Seq(At) /\ Len(timer) = Len(ljit)
         /\ room \in [Programs -> Nat] /\ lines \in [Programs -> Nat]
         /\ sem \in 0 .. 1 /\ signals \in 0 .. MaxSignals
         /\ Len(ljit) \in Nat /\ MaxSignals \in Nat
         /\ UNCHANGED <<ljit, timer>> => \A l \in 1 .. Len(ljit) : Only(l)
         /\ \A l \in 1 .. Len(ljit) : UNCHANGED <<ljit, timer>> /\ StructInv(l) => StructInv(l)'
BY JitAssumption DEF TypeOK, Struct, At, Only, StructInv

LEMMA DownKeeps == \A p \in Programs : TypeOK /\ JitInv /\ ShowDown(p) => TypeOK' /\ JitInv'
<1> SUFFICES ASSUME TypeOK, JitInv, NEW p \in Programs, ShowDown(p) PROVE TypeOK' /\ JitInv'
  OBVIOUS
<1>1. pc[p] = "sem" /\ ProgramInv(p)
  BY DEF ShowDown, Move, JitInv
<1>2. cur[p] \in 1 .. Len(ljit) /\ StructInv(cur[p])
  BY <1>1, Held
<1>3. QED
  BY <1>1, <1>2, ShowStep, Found, SMTT(60) DEF ShowDown, ProgramInv, Mine, seq, States

LEMMA PrintKeeps == \A p \in Programs : TypeOK /\ JitInv /\ ShowPrint(p) => TypeOK' /\ JitInv'
<1> SUFFICES ASSUME TypeOK, JitInv, NEW p \in Programs, ShowPrint(p) PROVE TypeOK' /\ JitInv'
  OBVIOUS
<1> DEFINE s == [Mine(p) EXCEPT !.buf = room'[p] > 0]
<1>1. pc[p] = "print" /\ ProgramInv(p)
  BY DEF ShowPrint, Move, JitInv
<1>2. cur[p] \in 1 .. Len(ljit) /\ StructInv(cur[p]) /\ Mine(p) \in Struct
  BY <1>1, Held
<1>3. s \in Struct
  <2>1. (room'[p] > 0) \in BOOLEAN
    OBVIOUS
  <2>2. QED
    BY <1>2, <2>1, Fields
<1>4. s.count = Mine(p).count /\ s.flag = Mine(p).flag /\ s.live = Mine(p).live
      /\ s.signalled = Mine(p).signalled
  BY <1>2 DEF Struct
<1>5. ljit' = [ljit EXCEPT ![cur[p]] = s]
  BY DEF ShowPrint, Mine
<1> HIDE DEF s
<1>6. /\ ljit' \in Seq(Struct) /\ Len(ljit') = Len(ljit) /\ ljit'[cur[p]] = s
      /\ \A k \in 1 .. Len(ljit) : k # cur[p] => ljit'[k] = ljit[k]
  BY <1>2, <1>3, <1>5, StructChanged
<1>7. /\ room' \in [Programs -> Nat] /\ lines' \in [Programs -> Nat] /\ lines'[p] = 1
      /\ \A q \in Programs : q # p => room'[q] = room[q] /\ lines'[q] = lines[q]
  BY <1>1, Found DEF ShowPrint, ProgramInv
<1>8. /\ UNCHANGED <<cur, timer, sem, signals>> /\ Move(p, "print", "arm")
      /\ timer[cur[p]] = "none" /\ s.count = 0 /\ ~s.flag
  BY <1>1, <1>4 DEF ShowPrint, ProgramInv
<1>9. StructInv(cur[p])' /\ Only(cur[p])
  BY <1>2, <1>4, <1>6, <1>8 DEF StructInv, Only, Mine
<1>10. QED
  BY <1>6, <1>7, <1>8, <1>9, ShowStep, Found DEF States

LEMMA ArmKeeps == \A p \in Programs : TypeOK /\ JitInv /\ ShowArm(p) => TypeOK' /\ JitInv'
<1> SUFFICES ASSUME TypeOK, JitInv, NEW p \in Programs, ShowArm(p) PROVE TypeOK' /\ JitInv'
  OBVIOUS
<1>1. pc[p] = "arm" /\ ProgramInv(p)
  BY DEF ShowArm, Move, JitInv
<1>2. cur[p] \in 1 .. Len(ljit) /\ StructInv(cur[p]) /\ Mine(p) \in Struct
  BY <1>1, Held
<1>3. /\ timer' \in Seq(At) /\ Len(timer') = Len(timer) /\ timer'[cur[p]] = "pending"
      /\ \A k \in 1 .. Len(ljit) : k # cur[p] => timer'[k] = timer[k]
  BY <1>2, TimerChanged DEF ShowArm, At
<1>4. UNCHANGED <<cur, room, lines, ljit, sem, signals>> /\ Move(p, "arm", "up")
  BY DEF ShowArm, seq
<1>5. StructInv(cur[p])' /\ Only(cur[p])
  BY <1>1, <1>2, <1>3, <1>4 DEF StructInv, Only, ProgramInv, Mine
<1>6. QED
  BY <1>1, <1>3, <1>4, <1>5, ShowStep, Found DEF States, ProgramInv

LEMMA UpKeeps == \A p \in Programs : TypeOK /\ JitInv /\ ShowUp(p) => TypeOK' /\ JitInv'
<1> SUFFICES ASSUME TypeOK, JitInv, NEW p \in Programs, ShowUp(p) PROVE TypeOK' /\ JitInv'
  OBVIOUS
<1>1. pc[p] = "up" /\ ProgramInv(p)
  BY DEF ShowUp, Move, JitInv
<1>2. cur[p] \in 1 .. Len(ljit) /\ StructInv(cur[p])
  BY <1>1, Held
<1>3. sem' = 1 /\ UNCHANGED <<cur, room, lines, ljit, timer, signals>> /\ Move(p, "up", "wait")
  BY DEF ShowUp, seq
<1>4. Only(cur[p]) /\ StructInv(cur[p])' /\ sem' \in 0 .. 1 /\ lines'[p] = 1
  BY <1>1, <1>2, <1>3, Found DEF ProgramInv
<1>5. QED
  BY <1>3, <1>4, ShowStep, Found DEF States

LEMMA WaitKeeps == \A p \in Programs : TypeOK /\ JitInv /\ ShowWait(p) => TypeOK' /\ JitInv'
<1> SUFFICES ASSUME TypeOK, JitInv, NEW p \in Programs, ShowWait(p) PROVE TypeOK' /\ JitInv'
  OBVIOUS
<1>1. pc[p] = "wait" /\ ProgramInv(p)
  BY DEF ShowWait, Move, JitInv
<1>2. cur[p] \in 1 .. Len(ljit) /\ StructInv(cur[p])
  BY <1>1, Held
<1>3. PICK to \in {"commit", "sleep"} :
        Move(p, "wait", to) /\ (to = "commit" => ljit[cur[p]].flag)
  BY DEF ShowWait, Done, Mine
<1>4. UNCHANGED <<cur, room, lines, ljit, timer, sem, signals>>
  BY DEF ShowWait, seq
<1>5. QED
  BY <1>1, <1>2, <1>3, <1>4, ShowStep, Found DEF ProgramInv, States

LEMMA SignalKeeps ==
  \A p \in Programs : TypeOK /\ JitInv /\ ShowSignal(p) => TypeOK' /\ JitInv'
<1> SUFFICES ASSUME TypeOK, JitInv, NEW p \in Programs, ShowSignal(p) PROVE TypeOK' /\ JitInv'
  OBVIOUS
<1> DEFINE s == [Mine(p) EXCEPT !.signalled = TRUE]
<1>1. pc[p] = "sleep" /\ ProgramInv(p)
  BY DEF ShowSignal, Move, JitInv
<1>2. cur[p] \in 1 .. Len(ljit) /\ StructInv(cur[p]) /\ Mine(p) \in Struct
  BY <1>1, Held
<1>3. s \in Struct
  BY <1>2, Fields
<1>4. s.count = Mine(p).count /\ s.flag = Mine(p).flag /\ s.live = Mine(p).live
      /\ s.buf = Mine(p).buf /\ s.signalled
  BY <1>2 DEF Struct
<1>5. ljit' = [ljit EXCEPT ![cur[p]] = s]
  BY DEF ShowSignal, Mine
<1> HIDE DEF s
<1>6. /\ ljit' \in Seq(Struct) /\ Len(ljit') = Len(ljit) /\ ljit'[cur[p]] = s
      /\ \A k \in 1 .. Len(ljit) : k # cur[p] => ljit'[k] = ljit[k]
  BY <1>2, <1>3, <1>5, StructChanged
<1>7. /\ UNCHANGED <<cur, room, lines, timer, sem>> /\ Move(p, "sleep", "commit")
      /\ signals' = signals + 1 /\ signals < MaxSignals
  BY DEF ShowSignal, seq
<1>8. StructInv(cur[p])' /\ Only(cur[p])
  BY <1>2, <1>4, <1>6, <1>7 DEF StructInv, Only, Mine
<1>9. signals' \in 0 .. MaxSignals /\ lines'[p] = 1 /\ ljit'[cur[p]].signalled
  BY <1>1, <1>4, <1>6, <1>7, Found DEF ProgramInv
<1>10. QED
  BY <1>6, <1>7, <1>8, <1>9, ShowStep, Found DEF States

(* The handler's lines are both there when the flag is.                    *)
LEMMA CommitKeeps ==
  \A p \in Programs : TypeOK /\ JitInv /\ ShowCommit(p) => TypeOK' /\ JitInv'
<1> SUFFICES ASSUME TypeOK, JitInv, NEW p \in Programs, ShowCommit(p) PROVE TypeOK' /\ JitInv'
  OBVIOUS
<1> DEFINE n == Mine(p).count
<1>1. pc[p] = "commit" /\ ProgramInv(p)
  BY DEF ShowCommit, Move, JitInv
<1>2. cur[p] \in 1 .. Len(ljit) /\ StructInv(cur[p]) /\ Mine(p) \in Struct /\ n \in 0 .. 2
  BY <1>1, Held DEF Struct
<1>3. PICK to \in {"bug", "free"} : Move(p, "commit", to)
  BY DEF ShowCommit
<1>4. /\ UNCHANGED <<cur, ljit, timer, sem, signals>>
      /\ lines' = [lines EXCEPT ![p] = lines[p] + n]
      /\ room' = [room EXCEPT ![p] = IF n > room[p] THEN 0 ELSE room[p] - n]
  BY DEF ShowCommit
<1>5. room[p] \in Nat /\ lines[p] = 1
  BY <1>1, Found DEF ProgramInv
<1>6. ~Mine(p).signalled => n = 2
  BY <1>1, <1>2 DEF ProgramInv, StructInv, Mine
<1> HIDE DEF n
<1>7. (IF n > room[p] THEN 0 ELSE room[p] - n) \in Nat /\ lines[p] + n \in Nat
  BY <1>2, <1>5
<1>8. /\ room' \in [Programs -> Nat] /\ lines' \in [Programs -> Nat]
      /\ \A q \in Programs : q # p => room'[q] = room[q] /\ lines'[q] = lines[q]
      /\ lines'[p] = 1 + n
  BY <1>4, <1>5, <1>7, Found
<1>9. ~ljit'[cur[p]].signalled => lines'[p] = 3
  BY <1>4, <1>6, <1>8 DEF Mine
<1>10. /\ ljit'[cur[p]].flag \/ ljit'[cur[p]].signalled
       /\ Only(cur[p]) /\ StructInv(cur[p])'
  BY <1>1, <1>2, <1>4, Found DEF ProgramInv, Mine
<1>11. /\ ljit' \in Seq(Struct) /\ timer' \in Seq(At)
       /\ Len(ljit') = Len(ljit) /\ Len(timer') = Len(timer)
       /\ sem' \in 0 .. 1 /\ signals' \in 0 .. MaxSignals /\ UNCHANGED cur
  BY <1>4, Found
<1>12. CASE to = "bug"
  BY <1>3, <1>8, <1>10, <1>11, <1>12, ShowStep DEF States
<1>13. CASE to = "free"
  BY <1>3, <1>8, <1>9, <1>10, <1>11, <1>13, ShowStep DEF States
<1>14. QED
  BY <1>12, <1>13

(* A call that is over has no struct, whatever became of it.               *)
LEMMA EndStep ==
  ASSUME TypeOK, JitInv, NEW p \in Programs, NEW from, Move(p, from, "idle"), from # "idle",
         NEW l, l = cur[p],
         cur' = [cur EXCEPT ![p] = 0], room' = [room EXCEPT ![p] = 0],
         lines' \in [Programs -> Nat], \A q \in Programs : q # p => lines'[q] = lines[q],
         ljit' \in Seq(Struct), Len(ljit') = Len(ljit), UNCHANGED <<timer, sem>>,
         signals' \in 0 .. MaxSignals, Only(l), StructInv(l)'
  PROVE  TypeOK' /\ JitInv'
<1>1. /\ pc \in [Programs -> States] /\ cur \in [Programs -> 0 .. Len(ljit)]
      /\ room \in [Programs -> Nat]
  BY DEF TypeOK, States
<1>2. /\ pc' \in [Programs -> States] /\ pc[p] = from /\ pc'[p] = "idle"
      /\ cur' \in [Programs -> 0 .. Len(ljit)] /\ cur'[p] = 0
      /\ room' \in [Programs -> Nat]
      /\ \A q \in Programs : q # p =>
           pc'[q] = pc[q] /\ cur'[q] = cur[q] /\ room'[q] = room[q]
  <2>1. "idle" \in States /\ 0 \in Nat /\ 0 \in 0 .. Len(ljit)
    BY Found DEF States
  <2>2. QED
    BY <1>1, <2>1 DEF Move
<1>3. TypeOK'
  BY <1>2, Found DEF TypeOK, States, Struct, At
<1>4. l \in 1 .. Len(ljit)
  BY <1>2, Held
<1>5. \A k \in 1 .. Len(ljit') : StructInv(k)'
  BY <1>4, StructsKept
<1>6. \A q \in Programs : q # p => ProgramInv(q)'
  BY <1>2, OthersKept
<1>7. ProgramInv(p)'
  BY <1>2 DEF ProgramInv
<1>8. QED
  BY <1>3, <1>5, <1>6, <1>7 DEF JitInv

(* A struct is freed after its flag was seen, or its wait was interrupted. *)
LEMMA FreeKeeps == \A p \in Programs : TypeOK /\ JitInv /\ ShowFree(p) => TypeOK' /\ JitInv'
<1> SUFFICES ASSUME TypeOK, JitInv, NEW p \in Programs, ShowFree(p) PROVE TypeOK' /\ JitInv'
  OBVIOUS
<1> DEFINE s == [Mine(p) EXCEPT !.live = FALSE]
<1>1. pc[p] = "free" /\ ProgramInv(p)
  BY DEF ShowFree, Move, JitInv
<1>2. cur[p] \in 1 .. Len(ljit) /\ StructInv(cur[p]) /\ Mine(p) \in Struct
  BY <1>1, Held
<1>3. s \in Struct
  BY <1>2, Fields
<1>4. s.count = Mine(p).count /\ s.flag = Mine(p).flag /\ s.signalled = Mine(p).signalled
      /\ s.buf = Mine(p).buf
  BY <1>2 DEF Struct
<1>5. ljit' = [ljit EXCEPT ![cur[p]] = s]
  BY DEF ShowFree, Mine
<1> HIDE DEF s
<1>6. /\ ljit' \in Seq(Struct) /\ Len(ljit') = Len(ljit) /\ ljit'[cur[p]] = s
      /\ \A k \in 1 .. Len(ljit) : k # cur[p] => ljit'[k] = ljit[k]
  BY <1>2, <1>3, <1>5, StructChanged
<1>7. s.flag \/ s.signalled
  BY <1>1, <1>4 DEF ProgramInv
<1>8. /\ Move(p, "free", "idle") /\ UNCHANGED <<timer, sem, signals>>
      /\ cur' = [cur EXCEPT ![p] = 0] /\ room' = [room EXCEPT ![p] = 0]
      /\ lines' = [lines EXCEPT ![p] = 0]
  BY DEF ShowFree
<1>9. lines' \in [Programs -> Nat] /\ \A q \in Programs : q # p => lines'[q] = lines[q]
  BY <1>8, Found
<1>10. PICK l \in 1 .. Len(ljit) : l = cur[p]
  BY <1>2
<1>11. StructInv(l)' /\ Only(l)
  <2>1. ljit'[l] = s /\ timer'[l] = timer[l]
    BY <1>6, <1>8, <1>10
  <2>2. StructInv(l)'
    BY <1>2, <1>4, <1>7, <1>10, <2>1 DEF StructInv, Mine
  <2>3. QED
    BY <1>6, <1>8, <1>10, <2>2 DEF Only
<1>12. QED
  BY <1>6, <1>8, <1>9, <1>10, <1>11, EndStep, Found

(* The call that is interrupted at the semaphore leaves its struct behind. *)
LEMMA InterruptedKeeps ==
  \A p \in Programs : TypeOK /\ JitInv /\ ShowInterrupted(p) => TypeOK' /\ JitInv'
<1> SUFFICES ASSUME TypeOK, JitInv, NEW p \in Programs, ShowInterrupted(p)
             PROVE  TypeOK' /\ JitInv'
  OBVIOUS
<1>1. pc[p] = "sem"
  BY DEF ShowInterrupted, Move
<1>2. cur[p] \in 1 .. Len(ljit) /\ StructInv(cur[p])
  BY <1>1, Held
<1>3. /\ Move(p, "sem", "idle") /\ UNCHANGED <<lines, ljit, timer, sem>>
      /\ cur' = [cur EXCEPT ![p] = 0] /\ room' = [room EXCEPT ![p] = 0]
      /\ signals' = signals + 1 /\ signals < MaxSignals
  BY DEF ShowInterrupted
<1>4. PICK l \in 1 .. Len(ljit) : l = cur[p]
  BY <1>2
<1>5. signals' \in 0 .. MaxSignals /\ StructInv(l)' /\ Only(l)
  BY <1>2, <1>3, <1>4, Found
<1>6. QED
  BY <1>3, <1>4, <1>5, EndStep, Found

(* kmalloc gives a struct that nobody has, with no timer armed.            *)
LEMMA BeginKeeps == \A p \in Programs : TypeOK /\ JitInv /\ ShowBegin(p) => TypeOK' /\ JitInv'
<1> SUFFICES ASSUME TypeOK, JitInv, NEW p \in Programs, ShowBegin(p) PROVE TypeOK' /\ JitInv'
  OBVIOUS
<1> DEFINE s == [live |-> TRUE, buf |-> TRUE, flag |-> FALSE, count |-> 0, signalled |-> FALSE]
           l == Len(ljit) + 1
<1>1. ljit \in Seq(Struct) /\ timer \in Seq(At) /\ Len(timer) = Len(ljit) /\ l \in Nat
  BY Found
<1>2. s \in Struct /\ s.live /\ ~s.flag /\ s.count = 0
  BY DEF Struct
<1>3. ljit' = Append(ljit, s) /\ timer' = Append(timer, "none")
      /\ UNCHANGED <<lines, sem, signals>>
  BY DEF ShowBegin
<1> HIDE DEF s
<1>4. /\ ljit' \in Seq(Struct) /\ Len(ljit') = l /\ ljit'[l] = s
      /\ timer' \in Seq(At) /\ Len(timer') = l /\ timer'[l] = "none"
      /\ \A k \in 1 .. Len(ljit) : ljit'[k] = ljit[k] /\ timer'[k] = timer[k]
  BY <1>1, <1>2, <1>3 DEF At
<1>5. PICK r \in Rooms : r > 0 /\ room' = [room EXCEPT ![p] = r]
  BY DEF ShowBegin
<1>6. pc \in [Programs -> States] /\ cur \in [Programs -> 0 .. Len(ljit)] /\ r \in Nat
  BY JitAssumption DEF TypeOK, States
<1>7. /\ pc' \in [Programs -> States] /\ pc'[p] = "sem"
      /\ cur' \in [Programs -> 0 .. l] /\ cur'[p] = l
      /\ room' \in [Programs -> Nat] /\ room'[p] > 0
      /\ \A q \in Programs : q # p =>
           pc'[q] = pc[q] /\ cur'[q] = cur[q] /\ room'[q] = room[q] /\ lines'[q] = lines[q]
  <2>1. pc' = [pc EXCEPT ![p] = "sem"] /\ "sem" \in States
    BY DEF ShowBegin, Move, States
  <2>2. cur' = [cur EXCEPT ![p] = l]
    BY <1>4 DEF ShowBegin
  <2>3. room \in [Programs -> Nat]
    BY Found
  <2>4. cur' \in [Programs -> 0 .. l]
    BY <1>1, <1>6, <2>2
  <2>5. QED
    BY <1>3, <1>5, <1>6, <2>1, <2>2, <2>3, <2>4
<1>8. TypeOK'
  BY <1>3, <1>4, <1>7, Found DEF TypeOK, States, Struct, At
<1>9. \A k \in 1 .. Len(ljit') : StructInv(k)'
  <2> SUFFICES ASSUME NEW k \in 1 .. l PROVE StructInv(k)'
    BY <1>4
  <2>1. CASE k = l
    BY <1>2, <1>4, <2>1 DEF StructInv
  <2>2. CASE k # l
    <3>1. k \in 1 .. Len(ljit)
      BY <1>1, <2>2
    <3>2. StructInv(k) /\ ljit'[k] = ljit[k] /\ timer'[k] = timer[k]
      BY <1>4, <3>1 DEF JitInv
    <3>3. QED
      BY <3>2 DEF StructInv
  <2>3. QED
    BY <2>1, <2>2
<1>10. /\ \A q \in Programs : q # p => ProgramInv(q)'
       /\ \A q \in Programs : q # p /\ cur'[q] = cur'[p] => cur'[p] = 0
  <2>1. Only(cur[p])
    BY <1>4 DEF Only
  <2>2. QED
    BY <1>7, <2>1, OthersKept
<1>11. ProgramInv(p)'
  BY <1>1, <1>2, <1>4, <1>7, <1>10 DEF ProgramInv, Mine
<1>12. QED
  BY <1>8, <1>9, <1>10, <1>11 DEF JitInv

-----------------------------------------------------------------------------
(* jit_func                                                                *)

(* A step of a handler keeps what is to be kept if it does so for its      *)
(* struct: no program that has not armed a timer finds one at work.        *)
LEMMA HandlerStep ==
  ASSUME TypeOK, JitInv, NEW l \in 1 .. Len(ljit), timer[l] # "none",
         NEW to \in At, timer' = [timer EXCEPT ![l] = to],
         NEW s \in Struct, ljit' = [ljit EXCEPT ![l] = s],
         ljit[l].flag => s.flag, s.signalled = ljit[l].signalled,
         UNCHANGED <<cur, room, lines, sem, signals>>,
         \/ UNCHANGED pc
         \/ pc' = [p \in Programs |-> IF pc[p] = "sleep" /\ cur[p] = l THEN "wait" ELSE pc[p]],
         StructInv(l)'
  PROVE  TypeOK' /\ JitInv'
<1>1. /\ ljit' \in Seq(Struct) /\ Len(ljit') = Len(ljit) /\ ljit'[l] = s
      /\ \A k \in 1 .. Len(ljit) : k # l => ljit'[k] = ljit[k]
  BY StructChanged
<1>2. /\ timer' \in Seq(At) /\ Len(timer') = Len(timer)
      /\ \A k \in 1 .. Len(ljit) : k # l => timer'[k] = timer[k]
  BY TimerChanged
<1>3. /\ pc' \in [Programs -> States]
      /\ \A p \in Programs : pc'[p] = pc[p] \/ (pc[p] = "sleep" /\ pc'[p] = "wait")
  <2>1. pc \in [Programs -> States] /\ "wait" \in States
    BY DEF TypeOK, States
  <2>2. QED
    BY <2>1
<1>4. TypeOK'
  BY <1>1, <1>2, <1>3, Found DEF TypeOK, States, Struct, At
<1>5. \A k \in 1 .. Len(ljit') : StructInv(k)'
  BY <1>1, <1>2, StructsKept DEF Only
<1>6. ASSUME NEW p \in Programs PROVE ProgramInv(p)'
  <2>1. ProgramInv(p)
    BY DEF JitInv
  <2>2. CASE cur[p] = l
    <3>1. pc[p] \notin {"sem", "print", "arm"}
      BY <2>1, <2>2 DEF ProgramInv
    <3>2. /\ Mine(p).flag \/ Mine(p).signalled => s.flag \/ s.signalled
          /\ s.signalled = Mine(p).signalled
      BY <2>2 DEF Mine
    <3>3. ljit'[cur'[p]] = s
      BY <1>1, <2>2
    <3>4. QED
      BY <1>3, <2>1, <3>1, <3>2, <3>3 DEF ProgramInv, Mine
  <2>3. CASE cur[p] # l
    <3>1. pc[p] # "idle" => ljit'[cur'[p]] = ljit[cur[p]] /\ timer'[cur'[p]] = timer[cur[p]]
      BY <1>1, <1>2, <2>3, Held
    <3>2. QED
      BY <1>3, <2>1, <3>1 DEF ProgramInv, Mine
  <2>4. QED
    BY <2>2, <2>3
<1>7. QED
  BY <1>4, <1>5, <1>6 DEF JitInv

(* The handler's struct while its timer is armed or it runs.               *)
LEMMA Running ==
  ASSUME TypeOK, JitInv, NEW l \in DOMAIN ljit
  PROVE  /\ l \in 1 .. Len(ljit) /\ ljit[l] \in Struct /\ StructInv(l) /\ timer[l] \in At
         /\ ljit = [ljit EXCEPT ![l] = ljit[l]]
         /\ \A to \in At : timer' = [timer EXCEPT ![l] = to] => timer'[l] = to
<1>1. ljit \in Seq(Struct) /\ timer \in Seq(At) /\ Len(timer) = Len(ljit)
  BY Found
<1>2. l \in 1 .. Len(ljit) /\ l \in 1 .. Len(timer)
  BY <1>1
<1>3. QED
  BY <1>1, <1>2, ElementOfSeq DEF JitInv

LEMMA HandlerKeeps ==
  \A l \in DOMAIN ljit : TypeOK /\ JitInv /\ jit_func(l) => TypeOK' /\ JitInv'
<1> SUFFICES ASSUME TypeOK, JitInv, NEW l \in DOMAIN ljit, jit_func(l)
             PROVE  TypeOK' /\ JitInv'
  OBVIOUS
<1>0. l \in 1 .. Len(ljit) /\ ljit[l] \in Struct /\ StructInv(l)
  BY Running
<1>1. CASE JitBegin(l)
  <2>1. PICK to \in {"line1", "wake"} :
          /\ timer[l] = "pending" /\ timer' = [timer EXCEPT ![l] = to]
          /\ to = "line1" => ljit[l].buf
    BY <1>1 DEF JitBegin, Handler
  <2>2. UNCHANGED <<pc, cur, room, lines, ljit, sem, signals>>
    BY <1>1 DEF JitBegin, seq
  <2>3. timer'[l] = to /\ ljit' = [ljit EXCEPT ![l] = ljit[l]] /\ to \in At
    BY <2>1, <2>2, Running DEF At
  <2>4. StructInv(l)'
    BY <1>0, <2>1, <2>2, <2>3 DEF StructInv
  <2>5. QED
    BY <1>0, <2>1, <2>2, <2>3, <2>4, HandlerStep
<1>2. CASE JitLine(l)
  <2> DEFINE s == [ljit[l] EXCEPT !.count = ljit[l].count + 1]
  <2>1. PICK from \in {"line1", "line2"}, to \in {"line2", "flag"} :
          /\ timer[l] = from /\ timer' = [timer EXCEPT ![l] = to]
          /\ from = "line1" <=> to = "line2"
    BY <1>2 DEF JitLine, Handler
  <2>2. ljit[l].count \in {0, 1} /\ (from = "line1" <=> ljit[l].count = 0)
    BY <1>0, <2>1 DEF StructInv
  <2>3. s \in Struct
    <3>1. ljit[l].count + 1 \in 0 .. 2
      BY <2>2
    <3>2. QED
      BY <1>0, <3>1, Fields
  <2>4. /\ s.count = ljit[l].count + 1 /\ s.flag = ljit[l].flag /\ s.buf = ljit[l].buf
        /\ s.live = ljit[l].live /\ s.signalled = ljit[l].signalled
    BY <1>0 DEF Struct
  <2>5. ljit' = [ljit EXCEPT ![l] = s] /\ UNCHANGED <<pc, cur, room, lines, sem, signals>>
    BY <1>2 DEF JitLine, seq
  <2> HIDE DEF s
  <2>6. timer'[l] = to /\ ljit'[l] = s /\ to \in At
    BY <1>0, <2>1, <2>3, <2>5, Running, StructChanged DEF At
  <2>7. StructInv(l)'
    BY <1>0, <2>1, <2>2, <2>4, <2>6 DEF StructInv
  <2>8. QED
    BY <1>0, <2>1, <2>3, <2>4, <2>5, <2>6, <2>7, HandlerStep
<1>3. CASE JitFlag(l)
  <2> DEFINE s == [ljit[l] EXCEPT !.flag = TRUE]
  <2>1. timer[l] = "flag" /\ timer' = [timer EXCEPT ![l] = "wake"]
    BY <1>3 DEF JitFlag, Handler
  <2>2. s \in Struct
    BY <1>0, Fields
  <2>3. /\ s.count = ljit[l].count /\ s.flag /\ s.buf = ljit[l].buf
        /\ s.live = ljit[l].live /\ s.signalled = ljit[l].signalled
    BY <1>0 DEF Struct
  <2>4. ljit' = [ljit EXCEPT ![l] = s] /\ UNCHANGED <<pc, cur, room, lines, sem, signals>>
    BY <1>3 DEF JitFlag, RaiseFlag, seq
  <2> HIDE DEF s
  <2>5. timer'[l] = "wake" /\ ljit'[l] = s /\ "wake" \in At
    BY <1>0, <2>1, <2>2, <2>4, Running, StructChanged DEF At
  <2>6. StructInv(l)'
    BY <1>0, <2>1, <2>3, <2>5 DEF StructInv
  <2>7. QED
    BY <1>0, <2>1, <2>2, <2>3, <2>4, <2>5, <2>6, HandlerStep
<1>4. CASE JitWake(l)
  <2>1. /\ timer[l] = "wake" /\ timer' = [timer EXCEPT ![l] = "none"]
        /\ pc' = [p \in Programs |-> IF pc[p] = "sleep" /\ cur[p] = l THEN "wait" ELSE pc[p]]
        /\ UNCHANGED <<cur, room, lines, ljit, sem, signals>>
    BY <1>4 DEF JitWake, Handler, seq
  <2>2. timer'[l] = "none" /\ ljit' = [ljit EXCEPT ![l] = ljit[l]] /\ "none" \in At
    BY <2>1, Running DEF At
  <2>3. StructInv(l)'
    BY <1>0, <2>1, <2>2 DEF StructInv
  <2>4. QED
    BY <1>0, <2>1, <2>2, <2>3, HandlerStep
<1>5. CASE JitStray(l)
  <2>1. ~ljit[l].live /\ UNCHANGED <<pc, cur, room, lines, ljit, sem, signals>>
    BY <1>5 DEF JitStray, seq
  <2>2. PICK from \in At, to \in {"stray", "late"} :
          /\ timer[l] = from /\ timer' = [timer EXCEPT ![l] = to]
          /\ from \in {"pending", "line1", "line2", "flag"} \/ (from = "wake" /\ to = "late")
    BY <1>5 DEF JitStray, Handler, At
  <2>3. timer'[l] = to /\ ljit' = [ljit EXCEPT ![l] = ljit[l]] /\ to \in At
    BY <2>1, <2>2, Running DEF At
  <2>4. StructInv(l)'
    BY <1>0, <2>1, <2>2, <2>3 DEF StructInv
  <2>5. QED
    BY <1>0, <2>1, <2>2, <2>3, <2>4, HandlerStep
<1>6. QED
  BY <1>1, <1>2, <1>3, <1>4, <1>5 DEF jit_func

-----------------------------------------------------------------------------

LEMMA InitHolds == Init => TypeOK /\ JitInv
<1> SUFFICES ASSUME Init PROVE TypeOK /\ JitInv
  OBVIOUS
<1>1. ljit = <<>> /\ timer = <<>> /\ Len(ljit) = 0 /\ Len(timer) = 0 /\ 1 .. Len(ljit) = {}
  BY EmptySeq DEF Init
<1>2. ljit \in Seq(Struct) /\ timer \in Seq(At)
  BY <1>1, EmptySeq
<1>3. TypeOK
  BY <1>1, <1>2, JitAssumption DEF Init, TypeOK, Struct, At
<1>4. \A p \in Programs : ProgramInv(p)
  BY DEF Init, ProgramInv
<1>5. QED
  BY <1>1, <1>3, <1>4 DEF JitInv

LEMMA JitStep == TypeOK /\ JitInv /\ [Next]_vars => TypeOK' /\ JitInv'
<1> SUFFICES ASSUME TypeOK, JitInv, [Next]_vars PROVE TypeOK' /\ JitInv'
  OBVIOUS
<1>1. ASSUME NEW p \in Programs,
             ShowBegin(p) \/ ShowDown(p) \/ ShowInterrupted(p) \/ ShowRuns(p) \/ ShowSignal(p)
      PROVE  TypeOK' /\ JitInv'
  BY <1>1, BeginKeeps, DownKeeps, InterruptedKeeps, PrintKeeps, ArmKeeps, UpKeeps, WaitKeeps,
     CommitKeeps, FreeKeeps, SignalKeeps DEF ShowRuns
<1>2. ASSUME NEW l \in DOMAIN ljit, jit_func(l) PROVE TypeOK' /\ JitInv'
  BY <1>2, HandlerKeeps
<1>3. CASE DeviceCall \/ DeviceReturn \/ UNCHANGED vars
  <2>1. UNCHANGED <<pc, cur, room, lines, ljit, timer, signals>> /\ sem' \in 0 .. 1
    BY <1>3, Found DEF DeviceCall, DeviceReturn, vars, seq
  <2>2. TypeOK'
    BY <2>1 DEF TypeOK
  <2>3. QED
    BY <2>1, <2>2 DEF JitInv, StructInv, ProgramInv, Mine
<1>4. QED
  BY <1>1, <1>2, <1>3 DEF Next

(* Every variable of the timer driver keeps its type.                      *)
THEOREM TypeCorrect == Spec => []TypeOK
BY InitHolds, JitStep, PTL DEF Spec

(* A record of /proc/scullmem whose wait no signal ended has all its       *)
(* lines: the flag goes up after the handler's second one.                 *)
THEOREM WholeRecords == Spec => []CommitsWhole
<1>1. TypeOK /\ JitInv => CommitsWhole
  <2> SUFFICES ASSUME TypeOK, JitInv, NEW p \in Programs, pc[p] = "free", ~Mine(p).signalled
               PROVE  Mine(p).buf /\ lines[p] = 3
    BY DEF CommitsWhole
  <2>1. ProgramInv(p) /\ StructInv(cur[p])
    BY Held DEF JitInv
  <2>2. QED
    BY <2>1 DEF ProgramInv, StructInv, Mine
<1>2. QED
  BY <1>1, InitHolds, JitStep, PTL DEF Spec

(* jit_func is not overtaken by the kfree of its struct before its last    *)
(* step, unless a signal ended the wait.                                   *)
THEOREM StructOutlivesHandler == Spec => []HandlerFindsStruct
<1>1. TypeOK /\ JitInv => HandlerFindsStruct
  <2> SUFFICES ASSUME TypeOK, JitInv, NEW l \in DOMAIN ljit, timer[l] = "stray"
               PROVE  ljit[l].signalled
    BY DEF HandlerFindsStruct
  <2>1. StructInv(l)
    BY Running
  <2>2. QED
    BY <2>1 DEF StructInv
<1>2. QED
  BY <1>1, InitHolds, JitStep, PTL DEF Spec
=============================================================================
