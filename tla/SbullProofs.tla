---------------------------- MODULE SbullProofs ----------------------------
(***************************************************************************)
(* The safety of the RAM disk for any number of programs.                  *)
(*                                                                         *)
(* The argument: bd_mutex lets one program at most into open or release,   *)
(* so the holder of dev->lock is known; users counts the programs that     *)
(* have the disk open; and from the del_timer_sync of one open to the last *)
(* release that follows it there is neither a timer nor a handler.         *)
(***************************************************************************)
EXTENDS Sbull, FiniteSetTheorems, TLAPS

InCall == {"del_timer", "lock_open", "opening", "lock_release", "releasing"}
Opened == {p \in Programs : pc[p] \in {"open", "lock_release", "releasing"}}

(* At most one program is inside open or release.                          *)
OneInside == \A p, q \in Programs : pc[p] \in InCall /\ pc[q] \in InCall => p = q

(* The lock is held exactly in the two sections.                           *)
LockHeld == \A p \in Programs : pc[p] \in {"opening", "releasing"} <=> lock = p

UsersCounted == users = Cardinality(Opened)

(* A timer or handler means that nobody has the disk open and nobody is    *)
(* past del_timer_sync.                                                    *)
Quiet == timer \/ handler =>
  \A p \in Programs : pc[p] \in {"closed", "del_timer"}

(* What the timer leaves: media_change only on a closed disk, and exactly  *)
(* after the delay, once the handler has run.                              *)
MediumInv ==
  /\ media_change => Opened = {}
  /\ lapsed <=> media_change \/ handler
  /\ lapsed => ~timer

(* Programs are in the driver only while it is loaded, a timer or handler  *)
(* only until exit stopped it.                                             *)
ModuleInv ==
  /\ module # "loaded" => \A p \in Programs : pc[p] = "closed"
  /\ NoHandlerWithoutModule

SbullInv ==
  /\ TypeOK
  /\ OneInside
  /\ LockHeld
  /\ UsersCounted
  /\ Quiet
  /\ MediumInv
  /\ ModuleInv
  /\ SanityCheckHolds
-----------------------------------------------------------------------------

LEMMA OpenedFinite == IsFiniteSet(Opened) /\ Cardinality(Opened) \in Nat
BY SbullAssumption, FS_Subset, FS_CardinalityType DEF Opened

LEMMA NobodyOpen ==
  ASSUME UsersCounted
  PROVE  users = 0 <=> Opened = {}
BY OpenedFinite, FS_EmptySet DEF UsersCounted

LEMMA InitHolds == Init => SbullInv
<1> SUFFICES ASSUME Init PROVE SbullInv
  OBVIOUS
<1>1. Opened = {}
  BY DEF Init, Opened
<1>2. UsersCounted
  BY <1>1, FS_EmptySet DEF Init, UsersCounted
<1>3. TypeOK
  BY DEF Init, TypeOK
<1> QED
  BY <1>1, <1>2, <1>3, SbullAssumption DEF Init, SbullInv, OneInside, LockHeld, Quiet,
     MediumInv, ModuleInv, NoHandlerWithoutModule, SanityCheckHolds, InCall

(* Steps inside a call that neither count nor blank anything.              *)
LEMMA QuietStep ==
  ASSUME SbullInv, NEW p \in Programs,
         \/ OpenEnter(p) \/ ReleaseEnter(p) \/ DelTimer(p)
         \/ Lock(p, "lock_open", "opening") \/ Lock(p, "lock_release", "releasing")
  PROVE  SbullInv'
<1> USE DEF SbullInv, TypeOK
<1>1. /\ Opened' = Opened
      /\ users' = users
  BY DEF OpenEnter, ReleaseEnter, DelTimer, Lock, Move, Opened
<1>2. UsersCounted'
  BY <1>1 DEF UsersCounted
<1>3. CASE OpenEnter(p) \/ ReleaseEnter(p)
  <2>1. OneInside'
    BY <1>3 DEF OpenEnter, ReleaseEnter, MutexFree, Inside, Move, OneInside, InCall
  <2>2. LockHeld' /\ TypeOK'
    BY <1>3 DEF OpenEnter, ReleaseEnter, Move, load, LockHeld
  <2>3. Quiet'
    BY <1>3 DEF OpenEnter, ReleaseEnter, Move, Quiet
  <2>4. /\ media_change' = media_change /\ timer' = timer /\ handler' = handler
        /\ sane' = sane /\ lapsed' = lapsed
    BY <1>3 DEF OpenEnter, ReleaseEnter
  <2>5. MediumInv' /\ SanityCheckHolds'
    BY <1>1, <2>4 DEF MediumInv, SanityCheckHolds
  <2>6. ModuleInv'
    BY <1>3, <2>4 DEF DiskAdded, OpenEnter, ReleaseEnter, Move, load, ModuleInv, NoHandlerWithoutModule
  <2> QED
    BY <1>2, <2>1, <2>2, <2>3, <2>5, <2>6
<1>4. CASE DelTimer(p)
  BY <1>1, <1>2, <1>4, ZenonT(60) DEF DelTimer, Move, load, OneInside, InCall, LockHeld, Quiet, MediumInv,
     ModuleInv, NoHandlerWithoutModule, SanityCheckHolds
<1>5. CASE Lock(p, "lock_open", "opening") \/ Lock(p, "lock_release", "releasing")
  <2>1. OneInside' /\ TypeOK'
    BY <1>5 DEF Lock, Move, load, OneInside, InCall
  <2>2. LockHeld'
    BY <1>5, SbullAssumption DEF Lock, Move, LockHeld
  <2>3. Quiet'
    BY <1>5 DEF Lock, Move, Quiet
  <2>4. /\ media_change' = media_change /\ timer' = timer /\ handler' = handler
        /\ sane' = sane /\ lapsed' = lapsed
    BY <1>5 DEF Lock
  <2>5. MediumInv' /\ SanityCheckHolds'
    BY <1>1, <2>4 DEF MediumInv, SanityCheckHolds
  <2>6. ModuleInv'
    BY <1>5, <2>4 DEF Lock, Move, load, ModuleInv, NoHandlerWithoutModule
  <2> QED
    BY <1>2, <2>1, <2>2, <2>3, <2>5, <2>6
<1> QED
  BY <1>3, <1>4, <1>5

LEMMA OpenStep ==
  ASSUME SbullInv, NEW p \in Programs, OpenLocked(p)
  PROVE  SbullInv'
<1> USE DEF SbullInv
<1>1. pc[p] = "opening" /\ pc' = [pc EXCEPT ![p] = "open"] /\ p \notin Opened
  BY DEF OpenLocked, Move, Opened
<1>2. Opened' = Opened \cup {p}
  BY <1>1 DEF Opened, TypeOK
<1>3. UsersCounted'
  BY <1>1, <1>2, OpenedFinite, FS_AddElement DEF OpenLocked, CountUser, UsersCounted
<1>4. timer = FALSE /\ handler = FALSE /\ timer' = FALSE /\ handler' = FALSE
  BY <1>1 DEF OpenLocked, Quiet, TypeOK
<1>5. media_change' = FALSE
  <2>1. CASE users = 0
    BY <2>1 DEF OpenLocked, ChecksMedium, sbull_revalidate
  <2>2. CASE users # 0
    BY <2>2, NobodyOpen DEF OpenLocked, ChecksMedium, MediumInv, TypeOK
  <2> QED
    BY <2>1, <2>2
<1>6. TypeOK'
  <2>1. data' \in [Sectors -> Contents]
    BY SbullAssumption DEF OpenLocked, sbull_revalidate, TypeOK
  <2>2. users' \in Nat
    BY DEF OpenLocked, CountUser, TypeOK
  <2>3. pc' \in [Programs -> {"closed", "del_timer", "lock_open", "opening", "open",
                              "lock_release", "releasing"}]
    BY <1>1 DEF TypeOK
  <2>4. lock' \in Programs \cup {NoProgram} /\ sane' \in BOOLEAN /\ lapsed' \in BOOLEAN
    BY DEF OpenLocked, Unlock, TypeOK
  <2>5. UNCHANGED <<module, memory>>
    BY DEF OpenLocked, Move, load
  <2> QED
    BY <1>4, <1>5, <2>1, <2>2, <2>3, <2>4, <2>5 DEF TypeOK
<1>7. OneInside' /\ LockHeld'
  BY <1>1, SbullAssumption DEF OpenLocked, Unlock, TypeOK, OneInside, InCall, LockHeld
<1>8. ModuleInv'
  BY <1>1, <1>4 DEF OpenLocked, Move, load, TypeOK, ModuleInv, NoHandlerWithoutModule
<1> QED
  BY <1>3, <1>4, <1>5, <1>6, <1>7, <1>8 DEF OpenLocked, Quiet, MediumInv, SanityCheckHolds

LEMMA ReleaseStep ==
  ASSUME SbullInv, NEW p \in Programs, ReleaseLocked(p)
  PROVE  SbullInv'
<1> USE DEF SbullInv
<1>1. pc[p] = "releasing" /\ pc' = [pc EXCEPT ![p] = "closed"] /\ p \in Opened
  BY DEF ReleaseLocked, Move, Opened
<1>2. Opened' = Opened \ {p}
  BY <1>1 DEF Opened, TypeOK
<1>3. Cardinality(Opened') = Cardinality(Opened) - 1 /\ Cardinality(Opened') \in Nat
  BY <1>1, <1>2, OpenedFinite, FS_RemoveElement, FS_CardinalityType
<1>4. UsersCounted' /\ users' \in Nat
  BY <1>3 DEF ReleaseLocked, UsersCounted
<1>5. users' = 0 <=> Opened' = {}
  BY <1>2, <1>4, OpenedFinite, FS_EmptySet, FS_RemoveElement DEF UsersCounted
<1>6. timer = FALSE /\ handler = FALSE /\ handler' = FALSE /\ (timer' <=> users' = 0)
  BY <1>1 DEF ReleaseLocked, Arms, Quiet, TypeOK
<1>7. TypeOK'
  BY <1>1, <1>4, <1>6 DEF ReleaseLocked, Move, load, Unlock, TypeOK
<1>8. OneInside' /\ LockHeld'
  BY <1>1, SbullAssumption DEF ReleaseLocked, Unlock, TypeOK, OneInside, InCall, LockHeld
<1>9. Quiet'
  BY <1>1, <1>5, <1>6 DEF Quiet, Opened, OneInside, InCall, TypeOK
<1>10. media_change = FALSE /\ media_change' = FALSE /\ lapsed' = FALSE
  BY <1>1, <1>6 DEF ReleaseLocked, MediumInv, TypeOK
<1>11. module = "loaded" /\ module' = module
  BY <1>1 DEF ReleaseLocked, Move, load, ModuleInv
<1>12. ModuleInv'
  BY <1>11 DEF ModuleInv, NoHandlerWithoutModule
<1> QED
  BY <1>4, <1>6, <1>7, <1>8, <1>9, <1>10, <1>12 DEF ReleaseLocked, MediumInv, SanityCheckHolds

LEMMA TimerStep ==
  ASSUME SbullInv, Expire \/ sbull_invalidate
  PROVE  SbullInv'
<1> USE DEF SbullInv
<1>1. Opened' = Opened /\ users' = users /\ pc' = pc /\ lock' = lock
  BY DEF Expire, sbull_invalidate, Opened
<1>2. Opened = {} /\ users = 0
  BY NobodyOpen DEF Expire, sbull_invalidate, Quiet, Opened
<1>3. UsersCounted' /\ OneInside' /\ LockHeld'
  BY <1>1 DEF UsersCounted, OneInside, LockHeld
<1>4. CASE Expire
  BY <1>1, <1>2, <1>3, <1>4 DEF Expire, load, Quiet, MediumInv, ModuleInv,
     NoHandlerWithoutModule, SanityCheckHolds, TypeOK
<1>5. CASE sbull_invalidate
  BY <1>1, <1>2, <1>3, <1>5 DEF sbull_invalidate, load, MediumGone, Quiet, MediumInv, ModuleInv,
     NoHandlerWithoutModule, SanityCheckHolds, TypeOK
<1> QED
  BY <1>4, <1>5

LEMMA TransferStep ==
  ASSUME SbullInv, NEW p \in Programs, NEW s \in Sectors, NEW c \in Contents,
         sbull_transfer(p, s, c)
  PROVE  SbullInv'
BY DEF sbull_transfer, load, SbullInv, TypeOK, OneInside, LockHeld, UsersCounted, Opened, Quiet,
   MediumInv, ModuleInv, NoHandlerWithoutModule, SanityCheckHolds

(* A device is set up afresh when nobody can have it open.                 *)
LEMMA LoadStep == SbullInv /\ init_block_driver => SbullInv'
<1> SUFFICES ASSUME SbullInv, init_block_driver PROVE SbullInv'
  OBVIOUS
<1> USE DEF SbullInv, init_block_driver, setup_device
<1>1. \A p \in Programs : pc[p] = "closed" /\ pc'[p] = "closed"
  BY DEF ModuleInv
<1>2. Opened' = {} /\ users' = 0
  BY <1>1 DEF Opened
<1>3. UsersCounted'
  BY <1>2, FS_EmptySet DEF UsersCounted
<1>4. ~handler /\ ~handler'
  BY DEF ModuleInv, NoHandlerWithoutModule
<1>5. TypeOK'
  BY DEF TypeOK
<1>6. OneInside' /\ LockHeld' /\ SanityCheckHolds'
  BY DEF OneInside, LockHeld, SanityCheckHolds
<1>7. Quiet' /\ MediumInv' /\ ModuleInv'
  BY <1>1, <1>2, <1>4 DEF Quiet, MediumInv, ModuleInv, NoHandlerWithoutModule
<1> QED
  BY <1>3, <1>5, <1>6, <1>7

LEMMA ExitStep == SbullInv /\ exit_block_driver => SbullInv'
<1> SUFFICES ASSUME SbullInv, exit_block_driver PROVE SbullInv'
  OBVIOUS
<1> USE DEF SbullInv, exit_block_driver, ExitEnter, ExitTimer, ExitFree
<1>1. UNCHANGED <<pc, lock, users, media_change, handler, data, sane, lapsed>>
  OBVIOUS
<1>2. Opened' = Opened
  BY <1>1 DEF Opened
<1>3. timer' = timer \/ (timer' = FALSE /\ ~handler)
  OBVIOUS
<1>4. TypeOK'
  BY <1>1, <1>3 DEF TypeOK
<1>5. UsersCounted' /\ OneInside' /\ LockHeld' /\ SanityCheckHolds'
  BY <1>1, <1>2 DEF UsersCounted, OneInside, LockHeld, SanityCheckHolds
<1>6. Quiet' /\ MediumInv'
  BY <1>1, <1>2, <1>3 DEF Quiet, MediumInv
<1>7. ModuleInv'
  BY <1>1 DEF ModuleInv, NoHandlerWithoutModule
<1> QED
  BY <1>4, <1>5, <1>6, <1>7

THEOREM Safety == Spec => []SbullInv
<1>1. SbullInv /\ [Next]_vars => SbullInv'
  <2> SUFFICES ASSUME SbullInv, [Next]_vars PROVE SbullInv'
    OBVIOUS
  <2>1. CASE UNCHANGED vars
    BY <2>1 DEF vars, load, SbullInv, TypeOK, OneInside, LockHeld, UsersCounted, Opened, Quiet,
       MediumInv, ModuleInv, NoHandlerWithoutModule, SanityCheckHolds
  <2> QED
    BY <2>1, QuietStep, OpenStep, ReleaseStep, TimerStep, TransferStep, LoadStep,
       ExitStep DEF Next, Proceeds
<1> QED
  BY <1>1, InitHolds, PTL DEF Spec

(* Every variable keeps its type for any number of programs.               *)
THEOREM TypeCorrect == Spec => []TypeOK
BY Safety, PTL DEF SbullInv

(* The check of block_driver.c:92 never fails.                             *)
THEOREM SanityCheck == Spec => []SanityCheckHolds
BY Safety, PTL DEF SbullInv

(* No handler runs while a program is in a section under dev->lock.        *)
THEOREM NoSpinInSoftirq == Spec => []HandlerNeverSpins
<1>1. SbullInv => HandlerNeverSpins
  BY DEF SbullInv, HandlerNeverSpins, Quiet, LockHeld, TypeOK
<1> QED
  BY <1>1, Safety, PTL

(* A timer or its handler exists only while the disk is closed, and        *)
(* add_timer is never called on a pending timer.                           *)
THEOREM TimerDiscipline == Spec => []TimerOnlyWhenClosed
<1>1. SbullInv => TimerOnlyWhenClosed
  <2> SUFFICES ASSUME SbullInv PROVE TimerOnlyWhenClosed
    OBVIOUS
  <2>1. timer \/ handler => Opened = {}
    BY DEF SbullInv, Quiet, Opened
  <2>2. timer \/ handler => users = 0
    BY <2>1, NobodyOpen DEF SbullInv
  <2> QED
    BY <2>2 DEF SbullInv, TimerOnlyWhenClosed, Quiet
<1> QED
  BY <1>1, Safety, PTL

(* No handler runs, and none is pending, once exit stopped the timer.      *)
THEOREM TimerEndsWithModule == Spec => []NoHandlerWithoutModule
BY Safety, PTL DEF SbullInv, ModuleInv

(* An open blanks the disk when, and only when, the delay ran out since    *)
(* the open before it.                                                     *)
THEOREM BlankedAfterDelay == Spec => BlankIffLapsed
<1>1. SbullInv /\ [Next]_vars =>
        [\A p \in Programs : pc[p] = "opening" /\ pc'[p] = "open" =>
           data' = IF lapsed THEN [s \in Sectors |-> Zero] ELSE data]_vars
  <2> SUFFICES ASSUME SbullInv, Next, NEW p \in Programs, pc[p] = "opening", pc'[p] = "open"
               PROVE  data' = IF lapsed THEN [s \in Sectors |-> Zero] ELSE data
    BY DEF vars
  <2>1. OpenLocked(p)
    BY DEF Next, Proceeds, OpenEnter, ReleaseEnter, DelTimer, Lock, OpenLocked, ReleaseLocked,
       sbull_transfer, Expire, sbull_invalidate, init_block_driver, exit_block_driver, ExitEnter,
       ExitTimer, ExitFree, Move, SbullInv, TypeOK
  <2>2. ~handler /\ ~timer
    BY DEF SbullInv, Quiet
  <2>3. lapsed <=> media_change
    BY <2>2 DEF SbullInv, MediumInv
  <2>4. media_change => users = 0
    BY NobodyOpen DEF SbullInv, MediumInv
  <2> QED
    BY <2>1, <2>3, <2>4 DEF OpenLocked, ChecksMedium, sbull_revalidate, SbullInv, TypeOK
<1> QED
  BY <1>1, Safety, PTL DEF Spec, BlankIffLapsed
=============================================================================
