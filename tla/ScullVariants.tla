--------------------------- MODULE ScullVariants ---------------------------
(***************************************************************************)
(* The variants of scull whose calls may leave the list they work on, each *)
(* with what keeps them from it.                                           *)
(***************************************************************************)
EXTENDS ScullIoctl, ScullProc, ScullCompletion, ScullScratch

Init == initialization

Next ==
  \E p \in Procs :
    \/ driver \in {"ioctl", "bitops", "ioctl-capability"} /\ IoctlNext(p)
    \/ driver = "proc" /\ ProcNext(p)
    \/ driver = "completion" /\ ComplNext(p)
    \/ driver = "scratch_to_driver" /\ ScratchNext(p)

Spec == Init /\ [][Next]_vars
-----------------------------------------------------------------------------

Loops == [list : Nat, set : Nat, slot : Nat, qoff : Nat, chunk : Int, left : Int,
          moved : Int, total : Int]

(* Every variable has its type.                                            *)
TypeOK ==
  /\ driver \in Drivers
  /\ pc \in [Procs -> {"closed", "trim", "trimmed", "idle", "w_create", "w_arrays", "w_quanta",
                       "w_begin", "w_start", "w_expanded", "w_copy", "r_start", "r_copy", "seek",
                       "show", "astray", "oops"}]
  /\ file \in [Procs -> [mode : {"none", "r", "w", "rw"}, dev : Devices, pos : Nat]]
  /\ loop \in [Procs -> Loops]
  /\ sem \in [Devices -> 0 .. 1]
  /\ done \in Nat
  /\ heap \in Seq([sets : Nat, width : Nat, by : Nat, quantum : Nat, blocks : Nat,
                   live : BOOLEAN])
  /\ qset \in [Devices -> 0 .. Len(heap)]
  /\ size \in [quantum : Nat, qset : Nat]
  /\ data_size \in Nat
  /\ disturbed \in [Devices -> BOOLEAN]
  /\ leaked \subseteq Procs

Strays(p) == pc[p] # "astray" /\ pc'[p] = "astray"

Locked == {"ioctl", "bitops", "ioctl-capability", "proc"}

(* Under the semaphore a call leaves its list only when something that the *)
(* semaphore does not cover changed: a size, after the list was begun, or  *)
(* data_size, by a call on another device.                                 *)
SteadyCallsHold ==
  [][(driver \in Locked) => \A p \in Procs : Strays(p) => disturbed[Dev(p)]]_vars

(* Without a lock, calls that do not overlap stay in the list, and so do   *)
(* appends of whole quanta and all reads of what they wrote.  A call that  *)
(* begins in a list which another is freeing disturbs the device and is    *)
(* astray in one step.                                                     *)
LoneCallsHold ==
  [][(driver \notin Locked) => \A p \in Procs : Strays(p) => disturbed[1] \/ disturbed'[1]]_vars

Busy == {"trim", "trimmed", "w_create", "w_arrays", "w_quanta", "w_begin", "w_start", "w_expanded",
         "w_copy", "r_start", "r_copy", "seek", "show", "astray", "oops"}

Holds(p, d) == pc[p] \in Busy /\ Dev(p) = d

(* Every return path of the locked drivers frees the semaphore; outside a  *)
(* call it is taken only on scratch_to_driver, after a read of no bytes.   *)
LocksReturned ==
  driver # "completion" =>
    \A d \in Devices :
      /\ \A p, q \in Procs : Holds(p, d) /\ Holds(q, d) => p = q
      /\ (\E p \in Procs : Holds(p, d)) => sem[d] = 0
      /\ sem[d] = 0 =>
           \/ \E p \in Procs : Holds(p, d)
           \/ leaked # {} /\ driver = "scratch_to_driver"

Changing(d) ==
  \E p \in Procs : Dev(p) = d /\ pc[p] \in {"trimmed", "w_arrays", "w_quanta", "w_begin", "w_copy",
                                        "w_expanded", "astray", "oops"}

(* Between calls, data_size ends within the list of a device that nothing  *)
(* disturbed, although it outlives the list it was set for.                *)
EndWithinList ==
  \A d \in Devices :
    qset[d] # 0 /\ ~disturbed[d] /\ ~Changing(d) =>
      data_size <= heap[qset[d]].blocks * heap[qset[d]].quantum
=============================================================================
