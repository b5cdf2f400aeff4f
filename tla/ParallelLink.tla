---------------------------- MODULE ParallelLink ----------------------------
(***************************************************************************)
(* parallel_driver/compatibility and parallel_driver/nibble: two machines, *)
(* each with the same driver, joined by a cable.  One program writes on    *)
(* one of them, as writer does, and programs read on the other, as reader  *)
(* does.                                                                   *)
(*                                                                         *)
(* Bit 0 of a control port appears as bit 7 of the other machine's status  *)
(* port: strobe is the sender's, busy the receiver's.  Data lines are the  *)
(* sender's data port; a nibble-mode receiver sees their lower half in the *)
(* same status register as the strobe.  Neither driver locks the port: the *)
(* semaphore is only taken, and released, in open.                         *)
(***************************************************************************)
EXTENDS Naturals, Sequences

CONSTANTS
  Readers,     (* programs reading on the receiving machine                *)
  Drivers,     (* the drivers to consider                                  *)
  MaxWrites    (* bound: write calls                                       *)

ASSUME ParallelAssumption ==
  /\ Drivers \subseteq {"compatibility", "nibble"}
  /\ MaxWrites \in Nat

VARIABLES
  driver,      (* the module loaded on both machines; never changes        *)
  data,        (* the data port: which call's byte, and which part of it   *)
  strobe, busy,
  wpc, rpc,    (* where the writer and the readers are                     *)
  dat_reg,     (* what each reader took from the port so far               *)
  begun, returned, since, got   (* history: see RegularLink                *)

port == <<data, strobe, busy>>
calls == <<begun, returned>>
results == <<since, got>>
vars == <<driver, port, wpc, rpc, dat_reg, calls, results>>

Link == INSTANCE RegularLink
          WITH begun <- begun, returned <- returned, since <- since, got <- got

WriterMoves(from, to) == wpc = from /\ wpc' = to /\ UNCHANGED <<driver, rpc, dat_reg, results>>

ReaderMoves(r, from, to) ==
  /\ rpc[r] = from
  /\ rpc' = [rpc EXCEPT ![r] = to]
  /\ UNCHANGED <<driver, data, strobe, wpc, calls>>

-----------------------------------------------------------------------------
(* compatibility: write_dev                                                *)

CompatPut ==
  /\ begun < MaxWrites
  /\ WriterMoves("idle", "busy")
  /\ data' = [call |-> begun + 1, part |-> "byte"]
  /\ begun' = begun + 1
  /\ UNCHANGED <<strobe, busy, returned>>

CompatNotBusy ==
  /\ ~busy
  /\ WriterMoves("busy", "strobe")
  /\ UNCHANGED <<port, calls>>

CompatStrobe ==
  /\ WriterMoves("strobe", "pulse")
  /\ strobe' = TRUE
  /\ UNCHANGED <<data, busy, calls>>

CompatWritten ==
  /\ WriterMoves("pulse", "idle")
  /\ strobe' = FALSE
  /\ returned' = begun
  /\ UNCHANGED <<data, busy, begun>>

CompatWriter == CompatPut \/ CompatNotBusy \/ CompatStrobe \/ CompatWritten

-----------------------------------------------------------------------------
(* compatibility: read_dev                                                 *)

(* The control word that turns the data port round also drops the busy     *)
(* line, whoever had raised it.                                            *)
CompatRead(r) ==
  /\ ReaderMoves(r, "idle", "wait")
  /\ busy' = FALSE
  /\ since' = [since EXCEPT ![r] = returned]
  /\ UNCHANGED <<dat_reg, got>>

(* Seeded bug: the loop does not look at the line.                         *)
Unstrobed == TRUE

Strobed == strobe

CompatStrobed(r) ==
  /\ Strobed
  /\ ReaderMoves(r, "wait", "ack")
  /\ UNCHANGED <<busy, dat_reg, results>>

CompatAck(r) ==
  /\ ReaderMoves(r, "ack", "take")
  /\ busy' = TRUE
  /\ UNCHANGED <<dat_reg, results>>

CompatTake(r) ==
  /\ ReaderMoves(r, "take", "low")
  /\ dat_reg' = [dat_reg EXCEPT ![r] = <<data>>]
  /\ UNCHANGED <<busy, results>>

Received(r) == [first |-> Head(dat_reg[r]).call, last |-> dat_reg[r][Len(dat_reg[r])].call]

Deliver(r) ==
  /\ got' = [got EXCEPT ![r] = Received(r)]
  /\ dat_reg' = [dat_reg EXCEPT ![r] = <<>>]
  /\ UNCHANGED since

CompatDone(r) ==
  /\ ReaderMoves(r, "low", "idle")
  /\ busy' = FALSE
  /\ Deliver(r)

CompatReader(r) ==
  CompatRead(r) \/ CompatStrobed(r) \/ CompatAck(r) \/ CompatTake(r) \/ CompatDone(r)

-----------------------------------------------------------------------------
(* nibble: write_dev, twice through its loop                               *)

NibblePut ==
  /\ begun < MaxWrites
  /\ WriterMoves("idle", "busy")
  /\ data' = [call |-> begun + 1, part |-> "low"]
  /\ begun' = begun + 1
  /\ UNCHANGED <<strobe, busy, returned>>

NibbleNotBusy ==
  /\ ~busy
  /\ WriterMoves("busy", "strobe")
  /\ UNCHANGED <<port, calls>>

NibbleStrobe ==
  /\ WriterMoves("strobe", "pulse")
  /\ strobe' = TRUE
  /\ UNCHANGED <<data, busy, calls>>

NibbleLowSent ==
  /\ data.part = "low"
  /\ WriterMoves("pulse", "second")
  /\ strobe' = FALSE
  /\ UNCHANGED <<data, busy, calls>>

NibblePutHigh ==
  /\ WriterMoves("second", "busy")
  /\ data' = [call |-> begun, part |-> "high"]
  /\ UNCHANGED <<strobe, busy, calls>>

NibbleWritten ==
  /\ data.part = "high"
  /\ WriterMoves("pulse", "idle")
  /\ strobe' = FALSE
  /\ returned' = begun
  /\ UNCHANGED <<data, busy, begun>>

NibbleWriter ==
  \/ NibblePut \/ NibbleNotBusy \/ NibbleStrobe \/ NibbleLowSent \/ NibblePutHigh
  \/ NibbleWritten

-----------------------------------------------------------------------------
(* nibble: read_dev, twice through its loop                                *)

NibbleRead(r) ==
  /\ ReaderMoves(r, "idle", "wait")
  /\ since' = [since EXCEPT ![r] = returned]
  /\ UNCHANGED <<busy, dat_reg, got>>

(* One look at the status port finds the strobe and the nibble.            *)
NibbleSample(r) ==
  /\ strobe
  /\ ReaderMoves(r, "wait", "ack")
  /\ dat_reg' = [dat_reg EXCEPT ![r] = Append(@, data)]
  /\ UNCHANGED <<busy, results>>

NibbleAck(r) ==
  /\ ReaderMoves(r, "ack", "low")
  /\ busy' = TRUE
  /\ UNCHANGED <<dat_reg, results>>

(* Seeded bug: the line stays up.                                          *)
BusyLeftHigh == UNCHANGED busy

BusyLow == busy' = FALSE

NibbleAgain(r) ==
  /\ Len(dat_reg[r]) = 1
  /\ ReaderMoves(r, "low", "wait")
  /\ BusyLow
  /\ UNCHANGED <<dat_reg, results>>

NibbleDone(r) ==
  /\ Len(dat_reg[r]) = 2
  /\ ReaderMoves(r, "low", "idle")
  /\ BusyLow
  /\ Deliver(r)

NibbleReader(r) ==
  NibbleRead(r) \/ NibbleSample(r) \/ NibbleAck(r) \/ NibbleAgain(r) \/ NibbleDone(r)

-----------------------------------------------------------------------------

Init ==
  /\ driver \in Drivers
  /\ data = [call |-> 0, part |-> "byte"]
  /\ strobe = FALSE
  /\ busy = FALSE
  /\ wpc = "idle"
  /\ rpc = [r \in Readers |-> "idle"]
  /\ dat_reg = [r \in Readers |-> <<>>]
  /\ Link!Init

Writer ==
  \/ driver = "compatibility" /\ CompatWriter
  \/ driver = "nibble" /\ NibbleWriter

Reader(r) ==
  \/ driver = "compatibility" /\ CompatReader(r)
  \/ driver = "nibble" /\ NibbleReader(r)

Next == Writer \/ \E r \in Readers : Reader(r)

Spec == Init /\ [][Next]_vars

(* The scheduler runs a call that was begun; no program has to begin one.  *)
FairSpec ==
  /\ Spec
  /\ WF_vars(wpc # "idle" /\ Writer)
  /\ \A r \in Readers : WF_vars(rpc[r] # "idle" /\ Reader(r))
-----------------------------------------------------------------------------

Call == [call : Nat, part : {"byte", "low", "high"}]

(* Every variable has its type.                                            *)
TypeOK ==
  /\ driver \in Drivers
  /\ data \in Call
  /\ strobe \in BOOLEAN /\ busy \in BOOLEAN
  /\ wpc \in {"idle", "busy", "strobe", "pulse", "second"}
  /\ rpc \in [Readers -> {"idle", "wait", "ack", "take", "low"}]
  /\ dat_reg \in [Readers -> Seq(Call)]
  /\ begun \in Nat /\ returned \in Nat
  /\ since \in [Readers -> Nat]
  /\ got \in [Readers -> [first : Nat, last : Nat]]

(* A read never returns a byte of a write that was over when it began, and *)
(* never a nibble of an earlier call after one of a later call, although   *)
(* the sender changes the data port before it looks at the busy line and   *)
(* the receiver may look at the strobe twice during one pulse.             *)
ReadsRegular == Link!Spec

(* The two ends poll each other's line: whatever the readers do, a write   *)
(* that was begun returns.                                                 *)
WriteReturns == wpc # "idle" ~> wpc = "idle"
=============================================================================
