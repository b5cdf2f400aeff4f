-------------------------------- MODULE Sbull --------------------------------
(***************************************************************************)
(* The RAM disk of block_driver/sbull, which pretends that its medium is   *)
(* exchanged when it stays closed for INVALIDATE_DELAY, from loading the   *)
(* driver to unloading it.                                                 *)
(*                                                                         *)
(* Processes open, write and release the disk; the timer armed by the last *)
(* release runs sbull_invalidate as a softirq.  The kernel calls open and  *)
(* release with bd_mutex held, so one process at most is inside either.    *)
(* dev->lock is taken with a plain spin_lock, and is the queue's lock too. *)
(***************************************************************************)
EXTENDS Integers, FiniteSets

CONSTANTS
  Programs,   (* processes that open the disk                              *)
  NoProgram,  (* nobody: the holder of a free lock                         *)
  Sectors,
  Contents,   (* what a sector can hold                                    *)
  Zero        (* what memset leaves                                        *)

ASSUME SbullAssumption ==
  /\ IsFiniteSet(Programs)
  /\ NoProgram \notin Programs
  /\ Zero \in Contents

VARIABLES
  module,        (* "gone", "loaded", and in exit "exiting" and "stopped"  *)
  memory,        (* what dev->data points to: "none", "held" or "freed"    *)
  pc,            (* where each process is                                  *)
  lock,          (* the process that holds dev->lock, or NoProgram         *)
  users,         (* dev->users                                             *)
  media_change,  (* dev->media_change                                      *)
  timer,         (* dev->timer is pending                                  *)
  handler,       (* sbull_invalidate has been started and not returned     *)
  data,          (* dev->data                                              *)
  sane,          (* history: the handler's sanity check never failed       *)
  lapsed         (* history: the delay ran out since the last open         *)

load == <<module, memory>>
vars == <<load, pc, lock, users, media_change, timer, handler, data, sane, lapsed>>

Inside(p) == pc[p] \in {"del_timer", "lock_open", "opening", "lock_release", "releasing"}

(* bd_mutex                                                                *)
MutexFree == \A p \in Programs : ~Inside(p)

(* Seeded bug: a section left without spin_unlock.                         *)
UnlockForgotten == lock' = lock

Unlock == lock' = NoProgram

Move(p, from, to) == pc[p] = from /\ pc' = [pc EXCEPT ![p] = to] /\ UNCHANGED load

-----------------------------------------------------------------------------
(* sbull_open                                                              *)

(* There is a disk if setup_device got everything, and a module that is on *)
(* its way out cannot be entered.                                          *)
DiskAdded == module = "loaded" /\ memory = "held"

OpenEnter(p) ==
  /\ DiskAdded
  /\ MutexFree
  /\ Move(p, "closed", "del_timer")
  /\ UNCHANGED <<lock, users, media_change, timer, handler, data, sane, lapsed>>

(* Seeded bug: del_timer, which does not wait for a running handler.       *)
DelTimerAsync(p) ==
  /\ Move(p, "del_timer", "lock_open")
  /\ timer' = FALSE
  /\ UNCHANGED <<lock, users, media_change, handler, data, sane, lapsed>>

(* del_timer_sync: the timer is off and its handler has returned.          *)
DelTimer(p) ==
  /\ ~handler
  /\ Move(p, "del_timer", "lock_open")
  /\ timer' = FALSE
  /\ UNCHANGED <<lock, users, media_change, handler, data, sane, lapsed>>

Lock(p, from, to) ==
  /\ lock = NoProgram
  /\ lock' = p
  /\ Move(p, from, to)
  /\ UNCHANGED <<users, media_change, timer, handler, data, sane, lapsed>>

(* Seeded bug: the change is reported again at the next open.              *)
RevalidateAgain ==
  /\ data' = IF media_change THEN [s \in Sectors |-> Zero] ELSE data
  /\ UNCHANGED media_change

sbull_revalidate ==
  /\ data' = IF media_change THEN [s \in Sectors |-> Zero] ELSE data
  /\ media_change' = FALSE

ChecksMedium == users = 0

(* Seeded bug: the open is not counted.                                    *)
UserForgotten == users' = users

CountUser == users' = users + 1

(* check_disk_change asks sbull_media_changed and calls sbull_revalidate.  *)
OpenLocked(p) ==
  /\ Move(p, "opening", "open")
  /\ IF ChecksMedium THEN sbull_revalidate ELSE UNCHANGED <<data, media_change>>
  /\ CountUser
  /\ Unlock
  /\ lapsed' = FALSE
  /\ UNCHANGED <<timer, handler, sane>>

-----------------------------------------------------------------------------
(* sbull_request: the queue hands a request to the driver under dev->lock. *)
(* The block layer refuses sectors beyond the capacity, so the range check *)
(* of sbull_transfer always passes; reads leave the state alone.  Requests *)
(* that are not for file-system data are refused and not followed.         *)

sbull_transfer(p, s, c) ==
  /\ pc[p] = "open"
  /\ lock = NoProgram
  /\ data' = [data EXCEPT ![s] = c]
  /\ UNCHANGED <<load, pc, lock, users, media_change, timer, handler, sane, lapsed>>

-----------------------------------------------------------------------------
(* sbull_release                                                           *)

ReleaseEnter(p) ==
  /\ MutexFree
  /\ Move(p, "open", "lock_release")
  /\ UNCHANGED <<lock, users, media_change, timer, handler, data, sane, lapsed>>

(* Seeded bug: the timer is armed by every release.                        *)
ArmsAlways(left) == TRUE

(* Seeded bug: the timer is never armed.                                   *)
ArmsNever(left) == FALSE

Arms(left) == left = 0

ReleaseLocked(p) ==
  /\ Move(p, "releasing", "closed")
  /\ users' = users - 1
  /\ timer' = (timer \/ Arms(users'))
  /\ Unlock
  /\ UNCHANGED <<media_change, handler, data, sane, lapsed>>

-----------------------------------------------------------------------------
(* The timer.  INVALIDATE_DELAY is longer than any section under dev->lock,*)
(* so it never runs out in the section that armed it.                      *)

Expire ==
  /\ timer
  /\ timer' = FALSE
  /\ handler' = TRUE
  /\ lapsed' = TRUE
  /\ UNCHANGED <<load, pc, lock, users, media_change, data, sane>>

MediumGone ==
  IF users # 0
    THEN sane' = FALSE /\ UNCHANGED media_change
    ELSE media_change' = TRUE /\ UNCHANGED sane

sbull_invalidate ==
  /\ handler
  /\ lock = NoProgram
  /\ handler' = FALSE
  /\ MediumGone
  /\ UNCHANGED <<load, pc, lock, users, timer, data, lapsed>>

-----------------------------------------------------------------------------

(* Loading and unloading                                                   *)

(* vmalloc may fail; when the queue or the disk cannot be had, the data is *)
(* freed and the pointer left.  Loading succeeds all the same.  add_disk   *)
(* looks for partitions: it opens the disk and releases it.                *)
setup_device ==
  /\ memory' \in {"none", "held", "freed"}
  /\ timer' = (memory' = "held")
  /\ users' = 0
  /\ media_change' = FALSE
  /\ data' \in [Sectors -> Contents]

init_block_driver ==
  /\ module = "gone"
  /\ module' = "loaded"
  /\ setup_device
  /\ lapsed' = FALSE
  /\ UNCHANGED <<pc, lock, handler, sane>>

(* The module can be removed when nobody has a disk open.                  *)
ExitEnter ==
  /\ module = "loaded"
  /\ \A p \in Programs : pc[p] = "closed"
  /\ module' = "exiting"
  /\ UNCHANGED <<memory, pc, lock, users, media_change, timer, handler, data, sane, lapsed>>

(* Seeded bug: del_timer, which does not wait for a running handler.       *)
ExitTimerAsync ==
  /\ module = "exiting"
  /\ module' = "stopped"
  /\ timer' = FALSE
  /\ UNCHANGED <<memory, pc, lock, users, media_change, handler, data, sane, lapsed>>

(* A timer that setup_device did not come to is taken to be off.           *)
ExitTimer ==
  /\ module = "exiting"
  /\ ~handler
  /\ module' = "stopped"
  /\ timer' = FALSE
  /\ UNCHANGED <<memory, pc, lock, users, media_change, handler, data, sane, lapsed>>

(* What was freed by setup_device is freed once more.                      *)
ExitFree ==
  /\ module = "stopped"
  /\ module' = "gone"
  /\ memory' = "none"
  /\ UNCHANGED <<pc, lock, users, media_change, timer, handler, data, sane, lapsed>>

exit_block_driver == ExitEnter \/ ExitTimer \/ ExitFree

-----------------------------------------------------------------------------

Init ==
  /\ module = "gone"
  /\ memory = "none"
  /\ pc = [p \in Programs |-> "closed"]
  /\ lock = NoProgram
  /\ users = 0
  /\ media_change = FALSE
  /\ timer = FALSE
  /\ handler = FALSE
  /\ data \in [Sectors -> Contents]
  /\ sane = TRUE
  /\ lapsed = FALSE

(* The kernel's half of a call: what runs by itself once it is entered.    *)
Proceeds(p) ==
  \/ DelTimer(p)
  \/ Lock(p, "lock_open", "opening")
  \/ OpenLocked(p)
  \/ Lock(p, "lock_release", "releasing")
  \/ ReleaseLocked(p)

Next ==
  \/ \E p \in Programs : OpenEnter(p) \/ ReleaseEnter(p) \/ Proceeds(p)
  \/ \E p \in Programs, s \in Sectors, c \in Contents : sbull_transfer(p, s, c)
  \/ Expire
  \/ sbull_invalidate
  \/ init_block_driver
  \/ exit_block_driver

Spec == Init /\ [][Next]_vars

(* Time passes, softirqs run, and a call that can go on does; no program   *)
(* has to open or release the disk, and nobody to load or unload it.       *)
Fairness ==
  /\ WF_vars(Expire)
  /\ WF_vars(sbull_invalidate)
  /\ \A p \in Programs : WF_vars(Proceeds(p))

FairSpec == Spec /\ Fairness
-----------------------------------------------------------------------------

(* Every variable has its type; users is a count.                          *)
TypeOK ==
  /\ module \in {"gone", "loaded", "exiting", "stopped"}
  /\ memory \in {"none", "held", "freed"}
  /\ pc \in [Programs -> {"closed", "del_timer", "lock_open", "opening", "open",
                         "lock_release", "releasing"}]
  /\ lock \in Programs \cup {NoProgram}
  /\ users \in Nat
  /\ media_change \in BOOLEAN
  /\ timer \in BOOLEAN
  /\ handler \in BOOLEAN
  /\ data \in [Sectors -> Contents]
  /\ sane \in BOOLEAN
  /\ lapsed \in BOOLEAN

(* block_driver.c:92 checks it at run time: the timer's handler never      *)
(* finds the disk open, however opens, releases and expiries interleave.   *)
SanityCheckHolds == sane

(* dev->lock is taken without disabling softirqs, so a handler that        *)
(* interrupted its holder would spin for ever: none does.                  *)
HandlerNeverSpins == handler => lock = NoProgram

(* add_timer is a kernel bug on a pending timer: sbull_release never meets *)
(* one, and neither a timer nor a handler is left behind by an open.       *)
TimerOnlyWhenClosed ==
  /\ timer \/ handler => users = 0
  /\ \A p \in Programs : pc[p] \in {"lock_open", "opening", "releasing"} => ~timer

(* From the moment exit stopped the timer no handler runs and none will    *)
(* start, also when the timer had just fired: neither meets a dev whose    *)
(* data is freed or code that is gone.                                     *)
NoHandlerWithoutModule == timer \/ handler => module \in {"loaded", "exiting"}

(* The disk reports an exchanged medium to the first open after the delay  *)
(* ran out, and to no other: that open finds the data blank, every other   *)
(* one as it was left.                                                     *)
BlankIffLapsed ==
  [][\A p \in Programs : pc[p] = "opening" /\ pc'[p] = "open" =>
       data' = IF lapsed THEN [s \in Sectors |-> Zero] ELSE data]_vars

(* A call of open returns: waiting for the handler cannot deadlock.        *)
OpenReturns == \A p \in Programs : pc[p] = "del_timer" ~> pc[p] = "open"

(* A disk that stays closed loses its medium, unless the driver is         *)
(* unloaded before.                                                        *)
IdleDiskForgets ==
  (\E p \in Programs : pc[p] = "releasing" /\ users = 1)
    ~> \/ media_change \/ \E p \in Programs : pc[p] = "del_timer"
       \/ module # "loaded"
=============================================================================
