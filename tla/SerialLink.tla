----------------------------- MODULE SerialLink -----------------------------
(***************************************************************************)
(* serial_driver/null, handshake and interrupt: two machines with the same *)
(* driver, their first serial ports joined by a null-modem cable.          *)
(* Programs write on one of them, as writer does, and read on the other,   *)
(* as reader does.                                                         *)
(*                                                                         *)
(* The UART has no FIFO (the drivers write 0 to FCR): a holding and a      *)
(* shift register on the sending side, one byte of receive buffer on the   *)
(* other, which the next byte overwrites.  RTS of the receiver is CTS of   *)
(* the sender.  A byte is the number of the write call it belongs to.      *)
(*                                                                         *)
(* LSR_DR and DR are 0x00 in the drivers' headers, so that the loops that  *)
(* test them are left at once: no state of the line keeps a read waiting.  *)
(***************************************************************************)
EXTENDS Naturals, Sequences, FiniteSets

CONSTANTS
  Writers,     (* programs on the sending machine                          *)
  Readers,     (* programs on the receiving machine                        *)
  Drivers,     (* the drivers to consider                                  *)
  MaxCalls,    (* bound: write calls                                       *)
  MaxLists,    (* bound: no open that allocates once a machine made these  *)
  MaxForeign,  (* bound: interrupts that another device raised on the line *)
  MaxSignals,  (* bound: signals delivered to waiting readers              *)
  MaxFailures  (* bound: allocations that fail                             *)

ASSUME SerialAssumption ==
  /\ IsFiniteSet(Writers) /\ IsFiniteSet(Readers)
  /\ Writers \cap Readers = {}
  /\ Drivers \subseteq {"null", "handshake", "interrupt"}
  /\ {MaxCalls, MaxLists, MaxForeign, MaxSignals, MaxFailures} \subseteq Nat

VARIABLES
  driver,      (* the module loaded on both machines; never changes        *)
  pc,          (* where each program is                                    *)
  byte,        (* each program's byte: written, or read last               *)
  list,        (* lscullqset of each call                                  *)
  calls,       (* write calls so far                                       *)
  thr, tsr,    (* the sender's holding and shift register, 0 for empty     *)
  rbr, full,   (* the receiver's buffer, and whether it is unread          *)
  rts,         (* the receiver's request to send                           *)
  heap,        (* by machine: data[0] of every list allocated so far       *)
  qset,        (* by machine: the device's list, 0 for NULL                *)
  handler,     (* by machine: ser_interrupt is registered                  *)
  ier,         (* the receiver's interrupts are enabled                    *)
  edge,        (* an interrupt is on its way to the receiver's processor   *)
  tasklet,     (* the receiver's: "idle", "scheduled", "store" (and again) *)
  inbyte,      (* the byte and the list the tasklet is busy with           *)
  data_size,   (* the receiver's; set by the tasklet, never reset          *)
  env          (* foreign interrupts, signals and failures so far          *)

line == <<thr, tsr, rbr, full>>
programs == <<byte, list, calls>>
store == <<heap, qset>>
irq == <<handler, ier, edge, tasklet, inbyte, data_size>>
vars == <<driver, pc, programs, line, rts, store, irq, env>>

Procs == Writers \cup Readers
Machines == {"sender", "receiver"}
Machine(p) == IF p \in Writers THEN "sender" ELSE "receiver"

Move(p, from, to) == pc[p] = from /\ pc' = [pc EXCEPT ![p] = to] /\ UNCHANGED driver

-----------------------------------------------------------------------------
(* The UARTs and the interrupt line                                        *)

Transmitting == thr # 0 \/ tsr # 0

Load ==
  /\ thr # 0 /\ tsr = 0
  /\ tsr' = thr
  /\ thr' = 0
  /\ UNCHANGED <<driver, pc, programs, rbr, full, rts, store, irq, env>>

Pending == ier /\ full

(* A byte that finds the buffer full overwrites what is there, and the     *)
(* interrupt line is up already.                                           *)
Arrive ==
  /\ tsr # 0
  /\ tsr' = 0
  /\ rbr' = tsr
  /\ full' = TRUE
  /\ edge' = (edge \/ (ier /\ ~full))
  /\ UNCHANGED <<driver, pc, programs, thr, rts, store, handler, ier, tasklet, inbyte,
                 data_size, env>>

(* A second port shares the interrupt on a PC.                             *)
ForeignInterrupt ==
  /\ driver = "interrupt"
  /\ env.foreign < MaxForeign
  /\ ~edge
  /\ edge' = TRUE
  /\ env' = [env EXCEPT !.foreign = @ + 1]
  /\ UNCHANGED <<driver, pc, programs, line, rts, store, handler, ier, tasklet, inbyte,
                 data_size>>

ReadRBR == full' = FALSE /\ UNCHANGED <<thr, tsr, rbr>>

Outb(b) == thr' = b /\ UNCHANGED <<tsr, rbr, full>>

(* Seeded bug: only the holding register is waited for.                    *)
HoldingRegisterEmpty == thr = 0

TX_FLAGS == ~Transmitting

-----------------------------------------------------------------------------
(* null                                                                    *)

NullOpen(p) ==
  /\ Move(p, "closed", "idle")
  /\ UNCHANGED <<programs, line, rts, store, irq, env>>

NullClose(p) ==
  /\ Move(p, "idle", "closed")
  /\ UNCHANGED <<programs, line, rts, store, irq, env>>

NewCall(w) ==
  /\ calls < MaxCalls
  /\ calls' = calls + 1
  /\ byte' = [byte EXCEPT ![w] = calls + 1]

NullWrite(w) ==
  /\ Move(w, "idle", "poll")
  /\ NewCall(w)
  /\ Outb(calls + 1)
  /\ UNCHANGED <<list, rts, store, irq, env>>

NullWritten(w) ==
  /\ TX_FLAGS
  /\ Move(w, "poll", "idle")
  /\ UNCHANGED <<programs, line, rts, store, irq, env>>

NullRead(r) ==
  /\ Move(r, "idle", "idle")
  /\ ReadRBR
  /\ byte' = [byte EXCEPT ![r] = rbr]
  /\ UNCHANGED <<list, calls, rts, store, irq, env>>

NullNext ==
  \/ \E w \in Writers : NullWrite(w) \/ NullWritten(w)
  \/ \E r \in Readers : NullRead(r)
  \/ \E p \in Procs : NullOpen(p) \/ NullClose(p)

-----------------------------------------------------------------------------
(* handshake                                                               *)

NewList(m) ==
  /\ heap' = [heap EXCEPT ![m] = Append(@, 0)]
  /\ qset' = [qset EXCEPT ![m] = Len(heap[m]) + 1]
  /\ UNCHANGED env

(* Whichever allocation fails, create_scull returns NULL: what was built   *)
(* of the list stays allocated and nobody knows it any more.               *)
NoMemory(m) ==
  /\ env.failures < MaxFailures
  /\ qset' = [qset EXCEPT ![m] = 0]
  /\ env' = [env EXCEPT !.failures = @ + 1]
  /\ UNCHANGED heap

(* Every open replaces the device's list and forgets the old one; when     *)
(* there is no memory the device is left without any.                      *)
create_scull(m) == Len(heap[m]) < MaxLists /\ (NewList(m) \/ NoMemory(m))

HandshakeOpen(p) ==
  /\ create_scull(Machine(p))
  /\ Move(p, "closed", IF qset'[Machine(p)] = 0 THEN "closed" ELSE "idle")
  /\ UNCHANGED <<programs, line, rts, irq>>

HandshakeClose(p) ==
  /\ Move(p, "idle", "closed")
  /\ UNCHANGED <<programs, line, rts, store, irq, env>>

(* A call on a device without a list returns at once.                      *)
Enter(p, to) ==
  /\ qset[Machine(p)] # 0
  /\ Move(p, "idle", to)
  /\ list' = [list EXCEPT ![p] = qset[Machine(p)]]

HandshakeWrite(w) ==
  /\ Enter(w, "cts")
  /\ NewCall(w)
  /\ UNCHANGED <<line, rts, store, irq, env>>

HandshakeCleared(w) ==
  /\ rts
  /\ Move(w, "cts", "fill")
  /\ UNCHANGED <<programs, line, rts, store, irq, env>>

Slot(p) == heap[Machine(p)][list[p]]
SetSlot(p, b) == heap' = [heap EXCEPT ![Machine(p)][list[p]] = b]

(* The byte goes through the device's list, which no call locks.           *)
HandshakeFill(w) ==
  /\ Move(w, "fill", "send")
  /\ SetSlot(w, byte[w])
  /\ UNCHANGED <<programs, line, rts, qset, irq, env>>

HandshakeSend(w) ==
  /\ Move(w, "send", "poll")
  /\ Outb(Slot(w))
  /\ UNCHANGED <<programs, rts, store, irq, env>>

HandshakeWritten(w) ==
  /\ TX_FLAGS
  /\ Move(w, "poll", "idle")
  /\ UNCHANGED <<programs, line, rts, store, irq, env>>

HandshakeRead(r) ==
  /\ Enter(r, "rbr")
  /\ rts' = TRUE
  /\ UNCHANGED <<byte, calls, line, store, irq, env>>

HandshakeTake(r) ==
  /\ Move(r, "rbr", "copy")
  /\ ReadRBR
  /\ SetSlot(r, rbr)
  /\ UNCHANGED <<programs, rts, qset, irq, env>>

HandshakeCopy(r) ==
  /\ Move(r, "copy", "reset")
  /\ byte' = [byte EXCEPT ![r] = Slot(r)]
  /\ UNCHANGED <<list, calls, line, rts, store, irq, env>>

(* RTS drops for every reader.                                             *)
HandshakeDone(r) ==
  /\ Move(r, "reset", "idle")
  /\ rts' = FALSE
  /\ UNCHANGED <<programs, line, store, irq, env>>

HandshakeNext ==
  \/ \E w \in Writers :
       \/ HandshakeWrite(w) \/ HandshakeCleared(w) \/ HandshakeFill(w) \/ HandshakeSend(w)
       \/ HandshakeWritten(w)
  \/ \E r \in Readers :
       HandshakeRead(r) \/ HandshakeTake(r) \/ HandshakeCopy(r) \/ HandshakeDone(r)
  \/ \E p \in Procs : HandshakeOpen(p) \/ HandshakeClose(p)

-----------------------------------------------------------------------------
(* interrupt                                                               *)

(* Without IRQF_SHARED a second handler is refused, but the list has been  *)
(* replaced by then.                                                       *)
InterruptOpen(p) ==
  LET m == Machine(p)
      installed == qset'[m] # 0 /\ ~handler[m]
  IN  /\ create_scull(m)
      /\ Move(p, "closed", IF installed THEN "idle" ELSE "closed")
      /\ handler' = [handler EXCEPT ![m] = @ \/ installed]
      /\ ier' = (ier \/ (installed /\ m = "receiver"))
      /\ edge' = (edge \/ (ier' /\ ~ier /\ full))
      /\ UNCHANGED <<programs, line, rts, tasklet, inbyte, data_size>>

(* Seeded bug: close also frees the device's list.                         *)
FreedWithList(m) == qset' = [qset EXCEPT ![m] = 0] /\ UNCHANGED handler

(* free_irq is given another identity than request_irq was and finds no    *)
(* handler to remove; the device keeps its list.                           *)
free_irq(m) == UNCHANGED <<handler, qset>>

InterruptClose(p) ==
  /\ Move(p, "idle", "closed")
  /\ ier' = (ier /\ p \in Writers)
  /\ free_irq(Machine(p))
  /\ UNCHANGED <<programs, line, rts, heap, edge, tasklet, inbyte, data_size, env>>

InterruptWrite(w) ==
  /\ Enter(w, "fill")
  /\ NewCall(w)
  /\ UNCHANGED <<line, rts, store, irq, env>>

InterruptFill(w) ==
  /\ Move(w, "fill", "send")
  /\ SetSlot(w, byte[w])
  /\ UNCHANGED <<programs, line, rts, qset, irq, env>>

InterruptSend(w) ==
  /\ Move(w, "send", "poll")
  /\ Outb(Slot(w))
  /\ UNCHANGED <<programs, rts, store, irq, env>>

InterruptWritten(w) ==
  /\ TX_FLAGS
  /\ Move(w, "poll", "idle")
  /\ UNCHANGED <<programs, line, rts, store, irq, env>>

InterruptRead(r) ==
  /\ Enter(r, "wait")
  /\ UNCHANGED <<byte, calls, line, rts, store, irq, env>>

InterruptWait(r) ==
  /\ Move(r, "wait", IF data_size > 0 THEN "copy" ELSE "sleep")
  /\ UNCHANGED <<programs, line, rts, store, irq, env>>

(* The result of the wait is ignored.                                      *)
InterruptSignal(r) ==
  /\ env.signals < MaxSignals
  /\ Move(r, "sleep", "copy")
  /\ env' = [env EXCEPT !.signals = @ + 1]
  /\ UNCHANGED <<programs, line, rts, store, irq>>

InterruptCopy(r) ==
  /\ Move(r, "copy", "idle")
  /\ byte' = [byte EXCEPT ![r] = Slot(r)]
  /\ UNCHANGED <<list, calls, line, rts, store, irq, env>>

(* A tasklet that is already running is run once more.                     *)
tasklet_schedule ==
  tasklet' = IF tasklet = "idle" THEN "scheduled"
             ELSE IF tasklet = "store" THEN "store, again" ELSE tasklet

(* Bit 0 of the identification register is 0 when an interrupt of the port *)
(* is pending, and IRQ_NONE is the answer to that.                         *)
ser_interrupt ==
  /\ edge /\ handler["receiver"]
  /\ edge' = FALSE
  /\ \/ Pending /\ UNCHANGED tasklet
     \/ ~Pending /\ tasklet_schedule
  /\ UNCHANGED <<driver, pc, programs, line, rts, store, handler, ier, inbyte, data_size,
                 env>>

TaskletRead ==
  /\ tasklet = "scheduled"
  /\ tasklet' = IF qset["receiver"] = 0 THEN "oops" ELSE "store"
  /\ inbyte' = [byte |-> rbr, list |-> qset["receiver"]]
  /\ ReadRBR
  /\ UNCHANGED <<driver, pc, programs, rts, store, handler, ier, edge, data_size, env>>

TaskletStore ==
  /\ tasklet \in {"store", "store, again"}
  /\ tasklet' = IF tasklet = "store" THEN "idle" ELSE "scheduled"
  /\ heap' = [heap EXCEPT !["receiver"][inbyte.list] = inbyte.byte]
  /\ data_size' = 1
  /\ pc' = [p \in Procs |-> IF pc[p] = "sleep" THEN "wait" ELSE pc[p]]
  /\ UNCHANGED <<driver, programs, line, rts, qset, handler, ier, edge, inbyte, env>>

InterruptNext ==
  \/ \E w \in Writers :
       InterruptWrite(w) \/ InterruptFill(w) \/ InterruptSend(w) \/ InterruptWritten(w)
  \/ \E r \in Readers :
       InterruptRead(r) \/ InterruptWait(r) \/ InterruptSignal(r) \/ InterruptCopy(r)
  \/ \E p \in Procs : InterruptOpen(p) \/ InterruptClose(p)
  \/ ser_interrupt \/ TaskletRead \/ TaskletStore

-----------------------------------------------------------------------------

Init ==
  /\ driver \in Drivers
  /\ pc = [p \in Procs |-> "closed"]
  /\ byte = [p \in Procs |-> 0]
  /\ list = [p \in Procs |-> 0]
  /\ calls = 0
  /\ thr = 0 /\ tsr = 0
  /\ rbr = 0 /\ full = FALSE
  /\ rts = FALSE
  /\ heap = [m \in Machines |-> <<>>]
  /\ qset = [m \in Machines |-> 0]
  /\ handler = [m \in Machines |-> FALSE]
  /\ ier = FALSE
  /\ edge = FALSE
  /\ tasklet = "idle"
  /\ inbyte = [byte |-> 0, list |-> 0]
  /\ data_size = 0
  /\ env = [foreign |-> 0, signals |-> 0, failures |-> 0]

Next ==
  \/ driver = "null" /\ NullNext
  \/ driver = "handshake" /\ HandshakeNext
  \/ driver = "interrupt" /\ InterruptNext
  \/ Load \/ Arrive \/ ForeignInterrupt

Spec == Init /\ [][Next]_vars

InCall(p) == pc[p] \notin {"closed", "idle"}

(* The UART shifts, a call that was begun goes on, and interrupts and      *)
(* tasklets run.                                                           *)
FairSpec ==
  /\ Spec
  /\ WF_vars(Load \/ Arrive)
  /\ WF_vars(ser_interrupt)
  /\ WF_vars(TaskletRead \/ TaskletStore)
  /\ \A p \in Procs : WF_vars(InCall(p) /\ Next /\ pc'[p] # pc[p])
-----------------------------------------------------------------------------

(* Every variable has its type.                                            *)
TypeOK ==
  /\ driver \in Drivers
  /\ pc \in [Procs -> {"closed", "idle", "cts", "fill", "send", "poll", "rbr", "copy", "reset",
                       "wait", "sleep"}]
  /\ byte \in [Procs -> Nat] /\ list \in [Procs -> Nat]
  /\ {calls, thr, tsr, rbr} \subseteq Nat
  /\ {full, rts, ier, edge} \subseteq BOOLEAN
  /\ heap \in [Machines -> Seq(Nat)]
  /\ qset \in [Machines -> Nat] /\ \A m \in Machines : qset[m] <= Len(heap[m])
  /\ handler \in [Machines -> BOOLEAN]
  /\ tasklet \in {"idle", "scheduled", "store", "store, again", "oops"}
  /\ inbyte \in [byte : Nat, list : Nat]
  /\ data_size \in 0 .. 1
  /\ env \in [foreign : Nat, signals : Nat, failures : Nat]

(* While a byte is anywhere in the sending UART, some write call is still  *)
(* waiting for it: a write returns when its byte has left, even if another *)
(* program's byte went into the register after it.                         *)
WritesWaitForTheWire == Transmitting => \E w \in Writers : pc[w] = "poll"

(* As long as no allocation failed, the tasklet finds storage for the byte *)
(* it takes, however late it runs: after a close, or after an open that    *)
(* replaced the list and was refused.                                      *)
TaskletFindsStorage == tasklet = "oops" => env.failures > 0

AllClosed(m) == \A p \in Procs : Machine(p) = m => pc[p] = "closed"

(* interrupt/test_module runs the reader, which closes the device, and     *)
(* then asks for reader and writer to be run again: when nobody has the    *)
(* device of a machine open, an open that got its list succeeds.           *)
ClosedOpensAgain ==
  [][\A m \in Machines :
       AllClosed(m) /\ Len(heap'[m]) > Len(heap[m])
         => \E p \in Procs : Machine(p) = m /\ pc'[p] = "idle"]_vars

(* A program asleep in read_dev is woken once a byte for it has arrived.   *)
ByteWakesReader ==
  \A r \in Readers : pc[r] = "sleep" /\ Pending ~> pc[r] # "sleep"
=============================================================================
