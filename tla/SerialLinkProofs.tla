-------------------------- MODULE SerialLinkProofs --------------------------
(***************************************************************************)
(* What the serial drivers keep on any number of programs, writes, opens   *)
(* and interrupts: a write waits for the line, the tasklet finds its list. *)
(***************************************************************************)
EXTENDS SerialLink, SequenceTheorems, TLAPS

States == {"closed", "idle", "cts", "fill", "send", "poll", "rbr", "copy", "reset", "wait",
           "sleep"}

(* Where a call still has its list to use.                                 *)
WithList == {"cts", "fill", "send", "rbr", "copy", "reset", "wait", "sleep"}

(* The list of a call was allocated on its machine, whatever list the      *)
(* device has by now.                                                      *)
ListInv(p) ==
  /\ list[p] \in 0 .. Len(heap[Machine(p)])
  /\ pc[p] \in WithList => list[p] # 0

(* The tasklet runs after an interrupt, which takes a handler, which took  *)
(* a list; only an open without memory takes the list away again.          *)
TaskletInv ==
  /\ \A m \in Machines : handler[m] => qset[m] # 0 \/ env.failures > 0
  /\ tasklet # "idle" => handler["receiver"]
  /\ tasklet = "oops" => env.failures > 0

-----------------------------------------------------------------------------
(* Types                                                                   *)

TypeInv == TypeOK /\ \A p \in Procs : ListInv(p)

(* A list that is written to stays a list of the same length.              *)
LEMMA SlotSet ==
  ASSUME NEW s \in Seq(Nat), NEW i \in Nat, NEW b \in Nat
  PROVE  [s EXCEPT ![i] = b] \in Seq(Nat) /\ Len([s EXCEPT ![i] = b]) = Len(s)
<1>1. CASE i \in 1 .. Len(s)
  BY <1>1, ExceptSeq
<1>2. CASE i \notin 1 .. Len(s)
  <2>1. [s EXCEPT ![i] = b] = s
    BY <1>2
  <2>2. QED
    BY <2>1
<1>3. QED
  BY <1>1, <1>2

LEMMA Moved ==
  ASSUME TypeOK, NEW p \in Procs, NEW from, NEW to \in States, Move(p, from, to)
  PROVE  /\ pc' \in [Procs -> States]
         /\ pc[p] = from /\ pc'[p] = to
         /\ \A q \in Procs : q # p => pc'[q] = pc[q]
         /\ driver' = driver
BY DEF TypeOK, Move, States

(* What becomes of the lists on a step that moves one program: they grow,  *)
(* and a call takes the device's list or keeps its own.                    *)
LEMMA ListsKept ==
  ASSUME TypeInv, NEW p \in Procs, NEW from, NEW to \in States, Move(p, from, to),
         heap' \in [Machines -> Seq(Nat)],
         \A m \in Machines : Len(heap[m]) <= Len(heap'[m]),
         \/ list' = list /\ (to \in WithList => from \in WithList)
         \/ list' = [list EXCEPT ![p] = qset[Machine(p)]] /\ qset[Machine(p)] # 0
  PROVE  list' \in [Procs -> Nat] /\ \A q \in Procs : ListInv(q)'
<1>1. \A q \in Procs : Machine(q) \in Machines
  BY DEF Machine, Machines
<1>2. \A m \in Machines : qset[m] \in Nat /\ qset[m] <= Len(heap[m])
  BY DEF TypeInv, TypeOK
<1>3. /\ list \in [Procs -> Nat]
      /\ \A m \in Machines : Len(heap[m]) \in Nat /\ Len(heap'[m]) \in Nat
  <2>1. list \in [Procs -> Nat] /\ heap \in [Machines -> Seq(Nat)]
    BY DEF TypeInv, TypeOK
  <2>2. \A m \in Machines : heap[m] \in Seq(Nat) /\ heap'[m] \in Seq(Nat)
    BY <2>1
  <2>3. QED
    BY <2>1, <2>2, LenProperties
<1>4. list' \in [Procs -> Nat]
  BY <1>1, <1>2, <1>3
<1>5. ASSUME NEW q \in Procs PROVE ListInv(q)'
  <2>1. ListInv(q)
    BY DEF TypeInv
  <2>2. /\ pc[p] = from /\ pc'[p] = to
        /\ q # p => pc'[q] = pc[q]
    BY Moved DEF TypeInv
  <2>3. CASE q = p /\ list' # list
    <3>1. list'[q] = qset[Machine(q)] /\ list'[q] # 0
      BY <1>3, <2>3
    <3>2. QED
      BY <3>1, <1>1, <1>2, <1>3 DEF ListInv, Machine
  <2>4. CASE q # p \/ list' = list
    <3>1. list'[q] = list[q]
      BY <1>3, <2>4
    <3>2. pc'[q] \in WithList => pc[q] \in WithList \/ list'[q] # 0
      BY <1>3, <2>2, <2>4
    <3>3. QED
      BY <3>1, <3>2, <2>1, <1>1, <1>3 DEF ListInv, Machine
  <2>5. QED
    BY <2>3, <2>4
<1>6. QED
  BY <1>4, <1>5

(* What becomes of the storage when a slot of a list is written.           *)
LEMMA SlotWritten ==
  ASSUME TypeInv, NEW m \in Machines, NEW i \in Nat, NEW b \in Nat,
         heap' = [heap EXCEPT ![m][i] = b]
  PROVE  /\ heap' \in [Machines -> Seq(Nat)]
         /\ \A n \in Machines : Len(heap'[n]) = Len(heap[n])
<1>1. heap \in [Machines -> Seq(Nat)]
  BY DEF TypeInv, TypeOK
<1> DEFINE s == [heap[m] EXCEPT ![i] = b]
<1>2. heap[m] \in Seq(Nat)
  BY <1>1
<1>3. s \in Seq(Nat) /\ Len(s) = Len(heap[m])
  BY <1>2, SlotSet
<1>4. heap' = [heap EXCEPT ![m] = s]
  OBVIOUS
<1> HIDE DEF s
<1>5. QED
  BY <1>1, <1>3, <1>4

(* A call with a list reads and writes a byte there.                       *)
LEMMA SlotFound ==
  ASSUME TypeInv, NEW p \in Procs, pc[p] \in WithList
  PROVE  Slot(p) \in Nat
<1>1. Machine(p) \in Machines
  BY DEF Machine, Machines
<1>2. heap[Machine(p)] \in Seq(Nat) /\ list[p] \in Nat
  BY <1>1 DEF TypeInv, TypeOK
<1>3. list[p] \in 1 .. Len(heap[Machine(p)])
  BY <1>2 DEF TypeInv, ListInv
<1>4. QED
  BY <1>2, <1>3 DEF Slot

(* An open adds a list, or finds no memory and leaves none.                *)
LEMMA ListCreated ==
  ASSUME TypeInv, NEW m \in Machines, create_scull(m)
  PROVE  /\ heap' \in [Machines -> Seq(Nat)]
         /\ \A n \in Machines : Len(heap[n]) <= Len(heap'[n]) /\ qset'[n] <= Len(heap'[n])
         /\ qset' \in [Machines -> Nat]
         /\ env' \in [foreign : Nat, signals : Nat, failures : Nat]
         /\ env'.failures >= env.failures
         /\ qset'[m] = 0 => env'.failures > 0
         /\ \A n \in Machines : n # m => qset'[n] = qset[n]
<1>1. /\ heap \in [Machines -> Seq(Nat)]
      /\ env \in [foreign : Nat, signals : Nat, failures : Nat]
      /\ qset \in [Machines -> Nat] /\ \A n \in Machines : qset[n] <= Len(heap[n])
  BY DEF TypeInv, TypeOK
<1>2. \A n \in Machines : Len(heap[n]) \in Nat
  BY <1>1
<1>3. CASE NewList(m)
  <2>1. heap[m] \in Seq(Nat) /\ Append(heap[m], 0) \in Seq(Nat)
        /\ Len(Append(heap[m], 0)) = Len(heap[m]) + 1
    BY <1>1
  <2>2. QED
    BY <2>1, <1>1, <1>2, <1>3 DEF NewList
<1>4. CASE NoMemory(m)
  <2>1. /\ env' \in [foreign : Nat, signals : Nat, failures : Nat]
        /\ env'.failures = env.failures + 1
    <3>1. env.failures + 1 \in Nat
      BY <1>1
    <3>2. env' = [env EXCEPT !.failures = env.failures + 1]
      BY <1>4 DEF NoMemory
    <3>3. QED
      BY <3>1, <3>2, <1>1
  <2>2. /\ qset' \in [Machines -> Nat] /\ heap' = heap
        /\ \A n \in Machines : qset'[n] <= qset[n] /\ (n # m => qset'[n] = qset[n])
    BY <1>1, <1>4 DEF NoMemory
  <2>3. env'.failures > 0 /\ env'.failures >= env.failures
    BY <2>1, <1>1
  <2>4. QED
    BY <2>1, <2>2, <2>3, <1>1, <1>2
<1>5. QED
  BY <1>3, <1>4 DEF create_scull

LineType == {thr, tsr, rbr} \subseteq Nat /\ full \in BOOLEAN

StoreType ==
  /\ heap \in [Machines -> Seq(Nat)]
  /\ qset \in [Machines -> Nat] /\ \A m \in Machines : qset[m] <= Len(heap[m])

IrqType ==
  /\ handler \in [Machines -> BOOLEAN]
  /\ ier \in BOOLEAN /\ edge \in BOOLEAN
  /\ tasklet \in {"idle", "scheduled", "store", "store, again", "oops"}
  /\ inbyte \in [byte : Nat, list : Nat]
  /\ data_size \in 0 .. 1

Counts == [foreign : Nat, signals : Nat, failures : Nat]

Parts ==
  /\ driver \in Drivers /\ pc \in [Procs -> States]
  /\ byte \in [Procs -> Nat] /\ list \in [Procs -> Nat] /\ calls \in Nat
  /\ LineType /\ rts \in BOOLEAN /\ StoreType /\ IrqType /\ env \in Counts

LEMMA TypeParts == (TypeOK <=> Parts) /\ (TypeOK' <=> Parts')
<1>1. TypeOK <=> Parts
  <2>1. {full, rts, ier, edge} \subseteq BOOLEAN <=>
          full \in BOOLEAN /\ rts \in BOOLEAN /\ ier \in BOOLEAN /\ edge \in BOOLEAN
    BY Zenon
  <2>2. {calls, thr, tsr, rbr} \subseteq Nat <=>
          calls \in Nat /\ {thr, tsr, rbr} \subseteq Nat
    BY Zenon
  <2>3. QED
    BY <2>1, <2>2, Zenon DEF TypeOK, Parts, LineType, StoreType, IrqType, Counts, States
<1>2. TypeOK' <=> Parts'
  <2>1. {full', rts', ier', edge'} \subseteq BOOLEAN <=>
          full' \in BOOLEAN /\ rts' \in BOOLEAN /\ ier' \in BOOLEAN /\ edge' \in BOOLEAN
    BY Zenon
  <2>2. {calls', thr', tsr', rbr'} \subseteq Nat <=>
          calls' \in Nat /\ {thr', tsr', rbr'} \subseteq Nat
    BY Zenon
  <2>3. QED
    BY <2>1, <2>2, Zenon DEF TypeOK, Parts, LineType, StoreType, IrqType, Counts, States
<1>3. QED
  BY <1>1, <1>2

ListsGrow == StoreType' /\ \A m \in Machines : Len(heap[m]) <= Len(heap'[m])

(* A step of a program that leaves the interrupt alone keeps types if what *)
(* it writes has its type.                                                 *)
LEMMA ProgramStep ==
  ASSUME TypeInv, NEW p \in Procs, NEW from, NEW to \in States, Move(p, from, to),
         byte' \in [Procs -> Nat], calls' \in Nat, LineType', rts' \in BOOLEAN, ListsGrow,
         IrqType', env' \in Counts,
         \/ list' = list /\ (to \in WithList => from \in WithList)
         \/ list' = [list EXCEPT ![p] = qset[Machine(p)]] /\ qset[Machine(p)] # 0
  PROVE  TypeInv'
<1>1. pc' \in [Procs -> States] /\ driver' \in Drivers
  BY Moved DEF TypeInv, TypeOK
<1>2. heap' \in [Machines -> Seq(Nat)] /\ \A m \in Machines : Len(heap[m]) <= Len(heap'[m])
  BY DEF ListsGrow, StoreType
<1>3. list' \in [Procs -> Nat] /\ \A q \in Procs : ListInv(q)'
  BY <1>2, ListsKept
<1>4. TypeOK'
  <2>1. StoreType'
    BY DEF ListsGrow
  <2>2. QED
    BY <1>1, <1>3, <2>1, TypeParts DEF Parts
<1>5. QED
  BY <1>3, <1>4 DEF TypeInv

(* What a step leaves alone keeps its type.                                *)
LEMMA Kept ==
  ASSUME TypeInv
  PROVE  /\ UNCHANGED line => LineType'
         /\ UNCHANGED rts => rts' \in BOOLEAN
         /\ UNCHANGED store => ListsGrow
         /\ UNCHANGED irq => IrqType'
         /\ UNCHANGED env => env' \in Counts
         /\ UNCHANGED byte => byte' \in [Procs -> Nat]
         /\ UNCHANGED calls => calls' \in Nat
<1>1. /\ LineType /\ rts \in BOOLEAN /\ StoreType /\ IrqType /\ env \in Counts
      /\ byte \in [Procs -> Nat] /\ calls \in Nat
  BY TypeParts DEF TypeInv, Parts
<1>2. UNCHANGED line => LineType'
  BY <1>1 DEF LineType, line
<1>3. UNCHANGED store => ListsGrow
  <2>1. \A m \in Machines : Len(heap[m]) \in Nat
    BY <1>1, LenProperties DEF StoreType
  <2>2. QED
    BY <1>1, <2>1 DEF ListsGrow, StoreType, store
<1>4. UNCHANGED irq => IrqType'
  BY <1>1 DEF IrqType, irq
<1>5. QED
  BY <1>1, <1>2, <1>3, <1>4

(* A call takes a number, and its byte with it.                            *)
LEMMA Numbered ==
  ASSUME TypeInv, NEW w \in Writers, NewCall(w)
  PROVE  calls' \in Nat /\ byte' \in [Procs -> Nat]
<1>1. calls \in Nat /\ byte \in [Procs -> Nat]
  BY TypeParts DEF TypeInv, Parts
<1>2. QED
  BY <1>1 DEF NewCall, Procs

(* A byte goes to the holding register, or comes from the buffer.          *)
LEMMA Shifted ==
  ASSUME TypeInv
  PROVE  /\ \A b \in Nat : Outb(b) => LineType'
         /\ ReadRBR => LineType'
         /\ {thr, tsr, rbr} \subseteq Nat /\ FALSE \in BOOLEAN /\ TRUE \in BOOLEAN
<1>1. {thr, tsr, rbr} \subseteq Nat /\ full \in BOOLEAN
  BY TypeParts DEF TypeInv, Parts, LineType
<1>2. \A b \in Nat : Outb(b) => LineType'
  BY <1>1 DEF Outb, LineType
<1>3. ReadRBR => LineType'
  <2>1. FALSE \in BOOLEAN
    BY Zenon
  <2>2. QED
    BY <1>1, <2>1 DEF ReadRBR, LineType
<1>4. QED
  BY <1>1, <1>2, <1>3

LEMMA NullTypes == TypeInv /\ NullNext => TypeInv'
<1> SUFFICES ASSUME TypeInv, NullNext PROVE TypeInv'
  OBVIOUS
<1> USE DEF States, WithList
<1>1. ASSUME NEW p \in Procs, NullOpen(p) PROVE TypeInv'
  BY <1>1, ProgramStep, Kept DEF NullOpen, programs
<1>2. ASSUME NEW p \in Procs, NullClose(p) PROVE TypeInv'
  BY <1>2, ProgramStep, Kept DEF NullClose, programs
<1>3. ASSUME NEW w \in Writers, NullWrite(w) PROVE TypeInv'
  <2>1. w \in Procs /\ calls' \in Nat /\ byte' \in [Procs -> Nat] /\ calls' = calls + 1
    BY <1>3, Numbered DEF NullWrite, NewCall, Procs
  <2>2. LineType'
    BY <1>3, <2>1, Shifted DEF NullWrite
  <2>3. QED
    BY <1>3, <2>1, <2>2, ProgramStep, Kept DEF NullWrite
<1>4. ASSUME NEW w \in Writers, NullWritten(w) PROVE TypeInv'
  BY <1>4, ProgramStep, Kept DEF NullWritten, programs, Procs
<1>5. ASSUME NEW r \in Readers, NullRead(r) PROVE TypeInv'
  <2>1. LineType' /\ rbr \in Nat
    BY <1>5, Shifted DEF NullRead
  <2>2. r \in Procs /\ byte' \in [Procs -> Nat]
    BY <1>5, <2>1 DEF NullRead, TypeInv, TypeOK, Procs
  <2>3. QED
    BY <1>5, <2>1, <2>2, ProgramStep, Kept DEF NullRead
<1>6. QED
  BY <1>1, <1>2, <1>3, <1>4, <1>5 DEF NullNext

(* A call that writes the byte of its list leaves the lists as long.       *)
LEMMA SlotFilled ==
  ASSUME TypeInv, NEW p \in Procs, NEW b \in Nat, SetSlot(p, b), UNCHANGED qset
  PROVE  ListsGrow
<1>1. list[p] \in Nat /\ Machine(p) \in Machines
  BY DEF TypeInv, TypeOK, Machine, Machines
<1>2. heap' \in [Machines -> Seq(Nat)] /\ \A n \in Machines : Len(heap'[n]) = Len(heap[n])
  BY <1>1, SlotWritten DEF SetSlot
<1>3. StoreType /\ \A n \in Machines : Len(heap[n]) \in Nat
  BY TypeParts, LenProperties DEF TypeInv, Parts, StoreType
<1>4. QED
  BY <1>2, <1>3 DEF ListsGrow, StoreType

LEMMA HandshakeTypes == TypeInv /\ HandshakeNext => TypeInv'
<1> SUFFICES ASSUME TypeInv, HandshakeNext PROVE TypeInv'
  OBVIOUS
<1> USE DEF States, WithList
<1>0. Writers \subseteq Procs /\ Readers \subseteq Procs /\ \A p \in Procs : Machine(p) \in Machines
  BY DEF Procs, Machine, Machines
<1>1. ASSUME NEW p \in Procs, HandshakeOpen(p) PROVE TypeInv'
  <2>1. ListsGrow /\ env' \in Counts
    BY <1>0, <1>1, ListCreated DEF HandshakeOpen, ListsGrow, StoreType, Counts
  <2>2. QED
    BY <1>1, <2>1, ProgramStep, Kept DEF HandshakeOpen, programs
<1>2. ASSUME NEW p \in Procs, HandshakeClose(p) PROVE TypeInv'
  BY <1>2, ProgramStep, Kept DEF HandshakeClose, programs
<1>3. ASSUME NEW w \in Writers, HandshakeWrite(w) PROVE TypeInv'
  <2>1. calls' \in Nat /\ byte' \in [Procs -> Nat]
    BY <1>3, Numbered DEF HandshakeWrite
  <2>2. QED
    BY <1>0, <1>3, <2>1, ProgramStep, Kept DEF HandshakeWrite, Enter
<1>4. ASSUME NEW w \in Writers, HandshakeCleared(w) PROVE TypeInv'
  BY <1>0, <1>4, ProgramStep, Kept DEF HandshakeCleared, programs
<1>6. ASSUME NEW w \in Writers, HandshakeFill(w) PROVE TypeInv'
  <2>1. byte[w] \in Nat
    BY <1>0 DEF TypeInv, TypeOK
  <2>2. ListsGrow
    BY <1>0, <1>6, <2>1, SlotFilled DEF HandshakeFill
  <2>3. QED
    BY <1>0, <1>6, <2>2, ProgramStep, Kept DEF HandshakeFill, programs
<1>7. ASSUME NEW w \in Writers, HandshakeSend(w) PROVE TypeInv'
  <2>1. Slot(w) \in Nat
    BY <1>0, <1>7, SlotFound DEF HandshakeSend, Move
  <2>2. LineType'
    BY <1>7, <2>1, Shifted DEF HandshakeSend
  <2>3. QED
    BY <1>0, <1>7, <2>2, ProgramStep, Kept DEF HandshakeSend, programs
<1>8. ASSUME NEW w \in Writers, HandshakeWritten(w) PROVE TypeInv'
  BY <1>0, <1>8, ProgramStep, Kept DEF HandshakeWritten, programs
<1>9. ASSUME NEW r \in Readers, HandshakeRead(r) PROVE TypeInv'
  <2>1. rts' \in BOOLEAN
    BY <1>9, Shifted DEF HandshakeRead
  <2>2. QED
    BY <1>0, <1>9, <2>1, ProgramStep, Kept DEF HandshakeRead, Enter
<1>10. ASSUME NEW r \in Readers, HandshakeTake(r) PROVE TypeInv'
  <2>1. LineType' /\ rbr \in Nat
    BY <1>10, Shifted DEF HandshakeTake
  <2>2. ListsGrow
    BY <1>0, <1>10, <2>1, SlotFilled DEF HandshakeTake
  <2>3. QED
    BY <1>0, <1>10, <2>1, <2>2, ProgramStep, Kept DEF HandshakeTake, programs
<1>11. ASSUME NEW r \in Readers, HandshakeCopy(r) PROVE TypeInv'
  <2>1. Slot(r) \in Nat
    BY <1>0, <1>11, SlotFound DEF HandshakeCopy, Move
  <2>2. byte' \in [Procs -> Nat]
    BY <1>0, <1>11, <2>1 DEF HandshakeCopy, TypeInv, TypeOK
  <2>3. QED
    BY <1>0, <1>11, <2>2, ProgramStep, Kept DEF HandshakeCopy
<1>12. ASSUME NEW r \in Readers, HandshakeDone(r) PROVE TypeInv'
  <2>1. rts' \in BOOLEAN
    BY <1>12, Shifted DEF HandshakeDone
  <2>2. QED
    BY <1>0, <1>12, <2>1, ProgramStep, Kept DEF HandshakeDone, programs
<1>13. QED
  BY <1>1, <1>2, <1>3, <1>4, <1>6, <1>7, <1>8, <1>9, <1>10, <1>11, <1>12 DEF HandshakeNext

(* What of the device an interrupt or an open may change.                  *)
LEMMA IrqParts ==
  ASSUME TypeInv
  PROVE  /\ IrqType
         /\ \A m \in Machines : handler[m] \in BOOLEAN
         /\ qset \in [Machines -> Nat] /\ heap \in [Machines -> Seq(Nat)]
         /\ \A m \in Machines : qset[m] <= Len(heap[m]) /\ Len(heap[m]) \in Nat
<1>1. IrqType /\ StoreType
  BY TypeParts DEF TypeInv, Parts
<1>2. QED
  BY <1>1, LenProperties DEF IrqType, StoreType

LEMMA InterruptOpenTypes == \A p \in Procs : TypeInv /\ InterruptOpen(p) => TypeInv'
<1> SUFFICES ASSUME TypeInv, NEW p \in Procs, InterruptOpen(p) PROVE TypeInv'
  OBVIOUS
<1> DEFINE m == Machine(p)
           installed == qset'[m] # 0 /\ ~handler[m]
<1>0. m \in Machines /\ "receiver" \in Machines
  BY DEF Machine, Machines
<1>1. ListsGrow /\ env' \in Counts
  BY <1>0, ListCreated DEF InterruptOpen, ListsGrow, StoreType, Counts
<1>2. IrqType'
  <2>1. IrqType
    BY IrqParts
  <2>2. handler' \in [Machines -> BOOLEAN]
    <3>1. (handler[m] \/ installed) \in BOOLEAN
      BY Zenon
    <3>2. handler' = [handler EXCEPT ![m] = handler[m] \/ installed]
      BY DEF InterruptOpen
    <3> HIDE DEF installed, m
    <3>3. QED
      BY <3>1, <3>2, <2>1, <1>0, Zenon DEF IrqType
  <2>4. ier' \in BOOLEAN
    <3>1. (ier \/ (installed /\ m = "receiver")) \in BOOLEAN
      BY Zenon
    <3>2. QED
      BY <3>1, Zenon DEF InterruptOpen
  <2>5. edge' \in BOOLEAN
    <3>1. (edge \/ (ier' /\ ~ier /\ full)) \in BOOLEAN
      BY Zenon
    <3>2. QED
      BY <3>1, Zenon DEF InterruptOpen
  <2>6. QED
    BY <2>1, <2>2, <2>4, <2>5 DEF IrqType, InterruptOpen
<1>3. QED
  <2>1. PICK to \in {"idle", "closed"} : Move(p, "closed", to)
    BY DEF InterruptOpen
  <2>2. UNCHANGED <<byte, list, calls, line, rts>>
    BY DEF InterruptOpen, programs
  <2>3. QED
    BY <1>1, <1>2, <2>1, <2>2, ProgramStep, Kept DEF States, WithList

LEMMA InterruptCloseTypes == \A p \in Procs : TypeInv /\ InterruptClose(p) => TypeInv'
<1> SUFFICES ASSUME TypeInv, NEW p \in Procs, InterruptClose(p) PROVE TypeInv'
  OBVIOUS
<1>1. IrqType'
  <2>1. (ier /\ p \in Writers) \in BOOLEAN
    BY Zenon
  <2>2. ier' \in BOOLEAN
    BY <2>1, Zenon DEF InterruptClose
  <2>3. QED
    BY <2>2, IrqParts DEF IrqType, InterruptClose, free_irq
<1>2. QED
  BY <1>1, ProgramStep, Kept DEF InterruptClose, free_irq, programs, store, States, WithList

LEMMA InterruptCallTypes ==
  ASSUME TypeInv,
         \/ \E w \in Writers :
              InterruptWrite(w) \/ InterruptFill(w) \/ InterruptSend(w) \/ InterruptWritten(w)
         \/ \E r \in Readers :
              InterruptRead(r) \/ InterruptWait(r) \/ InterruptSignal(r) \/ InterruptCopy(r)
  PROVE  TypeInv'
<1> USE DEF States, WithList
<1>0. Writers \subseteq Procs /\ Readers \subseteq Procs /\ "sender" \in Machines
  BY DEF Procs, Machines
<1>1. ASSUME NEW w \in Writers, InterruptWrite(w) PROVE TypeInv'
  <2>1. calls' \in Nat /\ byte' \in [Procs -> Nat]
    BY <1>1, Numbered DEF InterruptWrite
  <2>2. QED
    BY <1>0, <1>1, <2>1, ProgramStep, Kept DEF InterruptWrite, Enter
<1>2. ASSUME NEW w \in Writers, InterruptSend(w) PROVE TypeInv'
  <2>1. Slot(w) \in Nat
    BY <1>0, <1>2, SlotFound DEF InterruptSend, Move
  <2>2. LineType'
    BY <1>2, <2>1, Shifted DEF InterruptSend
  <2>3. QED
    BY <1>0, <1>2, <2>2, ProgramStep, Kept DEF InterruptSend, programs
<1>3. ASSUME NEW w \in Writers, InterruptWritten(w) PROVE TypeInv'
  BY <1>0, <1>3, ProgramStep, Kept DEF InterruptWritten, programs
<1>4. ASSUME NEW r \in Readers, InterruptRead(r) PROVE TypeInv'
  BY <1>0, <1>4, ProgramStep, Kept DEF InterruptRead, Enter
<1>5. ASSUME NEW r \in Readers, InterruptWait(r) PROVE TypeInv'
  BY <1>0, <1>5, ProgramStep, Kept DEF InterruptWait, programs
<1>6. ASSUME NEW r \in Readers, InterruptSignal(r) PROVE TypeInv'
  <2>1. env' \in Counts
    <3>1. env \in Counts
      BY TypeParts DEF TypeInv, Parts
    <3>2. env' = [env EXCEPT !.signals = env.signals + 1] /\ env.signals + 1 \in Nat
      BY <1>6, <3>1 DEF InterruptSignal, Counts
    <3>3. QED
      BY <3>1, <3>2 DEF Counts
  <2>2. QED
    BY <1>0, <1>6, <2>1, ProgramStep, Kept DEF InterruptSignal, programs
<1>7. ASSUME NEW r \in Readers, InterruptCopy(r) PROVE TypeInv'
  <2>1. Slot(r) \in Nat
    BY <1>0, <1>7, SlotFound DEF InterruptCopy, Move
  <2>2. byte' \in [Procs -> Nat]
    BY <1>0, <1>7, <2>1 DEF InterruptCopy, TypeInv, TypeOK
  <2>3. QED
    BY <1>0, <1>7, <2>2, ProgramStep, Kept DEF InterruptCopy
<1>8. ASSUME NEW w \in Writers, InterruptFill(w) PROVE TypeInv'
  <2>1. byte[w] \in Nat
    BY <1>0 DEF TypeInv, TypeOK
  <2>2. ListsGrow
    BY <1>0, <1>8, <2>1, SlotFilled DEF InterruptFill
  <2>3. QED
    BY <1>0, <1>8, <2>2, ProgramStep, Kept DEF InterruptFill, programs
<1>9. QED
  BY <1>1, <1>2, <1>3, <1>4, <1>5, <1>6, <1>7, <1>8

(* Nobody is moved by the line, the handler or the tasklet, but for the    *)
(* sleepers the tasklet wakes, who have their list.                        *)
LEMMA AsideStep ==
  ASSUME TypeInv,
         \/ UNCHANGED pc
         \/ pc' = [p \in Procs |-> IF pc[p] = "sleep" THEN "wait" ELSE pc[p]],
         UNCHANGED <<driver, byte, list, calls, rts>>, LineType', ListsGrow, IrqType',
         env' \in Counts
  PROVE  TypeInv'
<1>1. pc \in [Procs -> States] /\ Parts
  BY TypeParts DEF TypeInv, Parts
<1>2. /\ pc' \in [Procs -> States]
      /\ \A p \in Procs : pc'[p] \in WithList => pc[p] \in WithList
  BY <1>1 DEF States, WithList
<1>3. TypeOK'
  BY <1>1, <1>2, TypeParts DEF Parts, ListsGrow
<1>4. ASSUME NEW p \in Procs PROVE ListInv(p)'
  <2>1. ListInv(p) /\ list[p] \in Nat
    BY <1>1 DEF TypeInv, Parts
  <2>2. /\ Machine(p) \in Machines
        /\ Len(heap[Machine(p)]) \in Nat /\ Len(heap'[Machine(p)]) \in Nat
        /\ Len(heap[Machine(p)]) <= Len(heap'[Machine(p)])
    BY LenProperties, IrqParts DEF Machine, Machines, ListsGrow, StoreType
  <2>3. QED
    BY <1>2, <2>1, <2>2 DEF ListInv, Machine
<1>5. QED
  BY <1>3, <1>4 DEF TypeInv

LEMMA AsideTypes ==
  ASSUME TypeInv,
         Load \/ Arrive \/ ForeignInterrupt \/ ser_interrupt \/ TaskletRead \/ TaskletStore
  PROVE  TypeInv'
<1>0. /\ LineType /\ IrqType /\ env \in Counts
      /\ "receiver" \in Machines /\ TRUE \in BOOLEAN /\ FALSE \in BOOLEAN
  BY TypeParts, Shifted DEF TypeInv, Parts, Machines
<1>1. CASE Load
  <2>1. LineType'
    BY <1>0, <1>1 DEF Load, LineType
  <2>2. QED
    BY <1>1, <2>1, AsideStep, Kept DEF Load, programs
<1>2. CASE Arrive
  <2>1. LineType'
    BY <1>0, <1>2 DEF Arrive, LineType
  <2>2. IrqType'
    <3>1. (edge \/ (ier /\ ~full)) \in BOOLEAN
      BY Zenon
    <3>2. edge' \in BOOLEAN
      BY <1>2, <3>1, Zenon DEF Arrive
    <3>3. QED
      BY <1>0, <1>2, <3>2 DEF Arrive, IrqType
  <2>3. QED
    BY <1>2, <2>1, <2>2, AsideStep, Kept DEF Arrive, programs
<1>3. CASE ForeignInterrupt
  <2>1. env' \in Counts
    <3>1. env' = [env EXCEPT !.foreign = env.foreign + 1] /\ env.foreign + 1 \in Nat
      BY <1>0, <1>3 DEF ForeignInterrupt, Counts
    <3>2. QED
      BY <1>0, <3>1 DEF Counts
  <2>2. IrqType'
    BY <1>0, <1>3 DEF ForeignInterrupt, IrqType
  <2>3. QED
    BY <1>3, <2>1, <2>2, AsideStep, Kept DEF ForeignInterrupt, programs
<1>4. CASE ser_interrupt
  <2>1. tasklet' \in {"idle", "scheduled", "store", "store, again", "oops"}
    BY <1>0, <1>4 DEF ser_interrupt, tasklet_schedule, IrqType
  <2>2. IrqType'
    BY <1>0, <1>4, <2>1 DEF ser_interrupt, IrqType
  <2>3. QED
    BY <1>4, <2>2, AsideStep, Kept DEF ser_interrupt, programs
<1>5. CASE TaskletRead
  <2>1. LineType'
    BY <1>5, Shifted DEF TaskletRead
  <2>2. inbyte' \in [byte : Nat, list : Nat]
    BY <1>0, <1>5, IrqParts DEF TaskletRead, LineType
  <2>3. IrqType'
    BY <1>0, <1>5, <2>2 DEF TaskletRead, IrqType
  <2>4. QED
    BY <1>5, <2>1, <2>3, AsideStep, Kept DEF TaskletRead, programs
<1>6. CASE TaskletStore
  <2>1. inbyte.byte \in Nat /\ inbyte.list \in Nat
    BY <1>0 DEF IrqType
  <2>2. heap' \in [Machines -> Seq(Nat)] /\ \A n \in Machines : Len(heap'[n]) = Len(heap[n])
    BY <1>0, <1>6, <2>1, SlotWritten DEF TaskletStore
  <2>3. ListsGrow
    <3>1. qset' = qset
      BY <1>6 DEF TaskletStore
    <3>2. QED
      BY <2>2, <3>1, IrqParts DEF ListsGrow, StoreType
  <2>4. IrqType'
    <3>1. /\ tasklet' \in {"idle", "scheduled", "store", "store, again", "oops"}
          /\ data_size' \in 0 .. 1
      <4>1. tasklet' \in {"idle", "scheduled"} /\ data_size' = 1
        BY <1>6 DEF TaskletStore
      <4>2. data_size' \in 0 .. 1
        BY <4>1
      <4>3. QED
        BY <4>1, <4>2, Zenon
    <3>2. UNCHANGED <<handler, ier, edge, inbyte>>
      BY <1>6 DEF TaskletStore
    <3>3. /\ handler' = handler /\ ier' = ier /\ edge' = edge
          /\ inbyte' = inbyte
      BY <3>2
    <3>4. QED
      BY <1>0, <3>1, <3>3, Zenon DEF IrqType
  <2>5. QED
    BY <1>6, <2>3, <2>4, AsideStep, Kept DEF TaskletStore, programs
<1>7. QED
  BY <1>1, <1>2, <1>3, <1>4, <1>5, <1>6

LEMMA InitTypes == Init => TypeInv
<1> SUFFICES ASSUME Init PROVE TypeInv
  OBVIOUS
<1>0. TRUE \in BOOLEAN /\ FALSE \in BOOLEAN /\ <<>> \in Seq(Nat) /\ Len(<<>>) = 0
  BY EmptySeq
<1>1. Parts
  <2>1. driver \in Drivers /\ pc \in [Procs -> States] /\ calls \in Nat /\ env \in Counts
        /\ byte \in [Procs -> Nat] /\ list \in [Procs -> Nat]
    BY DEF Init, States, Counts
  <2>2. LineType /\ rts \in BOOLEAN
    <3>1. thr = 0 /\ tsr = 0 /\ rbr = 0 /\ full = FALSE /\ rts = FALSE
      BY DEF Init
    <3>2. {thr, tsr, rbr} \subseteq Nat
      BY <3>1
    <3>3. QED
      BY <1>0, <3>1, <3>2, Zenon DEF LineType
  <2>3. StoreType
    BY <1>0 DEF Init, StoreType
  <2>4. IrqType
    <3>1. /\ data_size \in 0 .. 1
          /\ tasklet \in {"idle", "scheduled", "store", "store, again", "oops"}
          /\ inbyte \in [byte : Nat, list : Nat]
      BY DEF Init
    <3>2. handler \in [Machines -> BOOLEAN] /\ ier \in BOOLEAN /\ edge \in BOOLEAN
      <4>1. handler = [m \in Machines |-> FALSE] /\ ier = FALSE /\ edge = FALSE
        BY DEF Init
      <4>2. QED
        BY <1>0, <4>1, Zenon
    <3>3. QED
      BY <3>1, <3>2 DEF IrqType
  <2>5. QED
    BY <2>1, <2>2, <2>3, <2>4 DEF Parts
<1>2. ASSUME NEW p \in Procs PROVE ListInv(p)
  BY <1>0 DEF Init, ListInv, WithList, Machine, Machines
<1>3. QED
  BY <1>1, <1>2, TypeParts DEF TypeInv

LEMMA TypeStep == TypeInv /\ [Next]_vars => TypeInv'
<1> SUFFICES ASSUME TypeInv, [Next]_vars PROVE TypeInv'
  OBVIOUS
<1>1. CASE NullNext
  BY <1>1, NullTypes
<1>2. CASE HandshakeNext
  BY <1>2, HandshakeTypes
<1>3. CASE InterruptNext
  BY <1>3, InterruptOpenTypes, InterruptCloseTypes, InterruptCallTypes, AsideTypes
  DEF InterruptNext
<1>4. CASE Load \/ Arrive \/ ForeignInterrupt
  BY <1>4, AsideTypes
<1>5. CASE UNCHANGED vars
  BY <1>5, AsideStep, Kept DEF vars, programs
<1>6. QED
  BY <1>1, <1>2, <1>3, <1>4, <1>5 DEF Next

(* Every variable of the serial drivers keeps its type.                    *)
THEOREM TypeCorrect == Spec => []TypeOK
<1>1. TypeInv => TypeOK
  BY DEF TypeInv
<1>2. QED
  BY <1>1, InitTypes, TypeStep, PTL DEF Spec

-----------------------------------------------------------------------------
(* Writes                                                                  *)

(* A byte enters the UART by a write that then waits, and no write ends    *)
(* its wait before the UART is empty.                                      *)
LEMMA WriteStep ==
  TypeInv /\ WritesWaitForTheWire /\ [Next]_vars => WritesWaitForTheWire'
<1> SUFFICES ASSUME TypeInv, WritesWaitForTheWire, [Next]_vars, Transmitting'
             PROVE  \E w \in Writers : pc'[w] = "poll"
  BY DEF WritesWaitForTheWire
<1>0. pc \in [Procs -> States] /\ Writers \subseteq Procs /\ Readers \subseteq Procs
  BY TypeParts DEF TypeInv, Parts, Procs
<1>1. ASSUME Transmitting, \A w \in Writers : pc[w] = "poll" => pc'[w] = "poll"
      PROVE  \E w \in Writers : pc'[w] = "poll"
  BY <1>1 DEF WritesWaitForTheWire
<1>2. ASSUME NEW p \in Procs, NEW from, NEW to, Move(p, from, to), from # "poll"
      PROVE  \A w \in Writers : pc[w] = "poll" => pc'[w] = "poll"
  BY <1>0, <1>2 DEF Move
<1>3. ASSUME NEW w \in Writers, NEW from, Move(w, from, "poll")
      PROVE  \E v \in Writers : pc'[v] = "poll"
  BY <1>0, <1>3 DEF Move
<1>4. ASSUME UNCHANGED line PROVE Transmitting
  BY <1>4 DEF line, Transmitting
<1>5. ASSUME ReadRBR PROVE Transmitting
  BY <1>5 DEF ReadRBR, Transmitting
<1>6. CASE NullNext
  <2>1. ASSUME NEW w \in Writers, NullWrite(w) PROVE \E v \in Writers : pc'[v] = "poll"
    BY <1>3, <2>1 DEF NullWrite
  <2>2. ASSUME NEW w \in Writers, NullWritten(w) PROVE \E v \in Writers : pc'[v] = "poll"
    BY <1>4, <2>2 DEF NullWritten, TX_FLAGS
  <2>3. ASSUME NEW r \in Readers, NullRead(r) PROVE \E v \in Writers : pc'[v] = "poll"
    BY <1>0, <1>1, <1>2, <1>5, <2>3 DEF NullRead
  <2>4. ASSUME NEW p \in Procs, NullOpen(p) PROVE \E v \in Writers : pc'[v] = "poll"
    BY <1>0, <1>1, <1>2, <1>4, <2>4 DEF NullOpen
  <2>5. ASSUME NEW p \in Procs, NullClose(p) PROVE \E v \in Writers : pc'[v] = "poll"
    BY <1>0, <1>1, <1>2, <1>4, <2>5 DEF NullClose
  <2>6. QED
    BY <1>6, <2>1, <2>2, <2>3, <2>4, <2>5 DEF NullNext
<1>7. CASE HandshakeNext
  <2>1. ASSUME NEW w \in Writers, HandshakeWrite(w) PROVE \E v \in Writers : pc'[v] = "poll"
    BY <1>0, <1>1, <1>2, <1>4, <2>1 DEF HandshakeWrite, Enter
  <2>2. ASSUME NEW w \in Writers, HandshakeCleared(w) PROVE \E v \in Writers : pc'[v] = "poll"
    BY <1>0, <1>1, <1>2, <1>4, <2>2 DEF HandshakeCleared
  <2>3. ASSUME NEW w \in Writers, HandshakeFill(w) PROVE \E v \in Writers : pc'[v] = "poll"
    BY <1>0, <1>1, <1>2, <1>4, <2>3 DEF HandshakeFill
  <2>4. ASSUME NEW w \in Writers, HandshakeSend(w) PROVE \E v \in Writers : pc'[v] = "poll"
    BY <1>3, <2>4 DEF HandshakeSend
  <2>5. ASSUME NEW w \in Writers, HandshakeWritten(w) PROVE \E v \in Writers : pc'[v] = "poll"
    BY <1>4, <2>5 DEF HandshakeWritten, TX_FLAGS
  <2>6. ASSUME NEW r \in Readers, HandshakeRead(r) PROVE \E v \in Writers : pc'[v] = "poll"
    BY <1>0, <1>1, <1>2, <1>4, <2>6 DEF HandshakeRead, Enter
  <2>7. ASSUME NEW r \in Readers, HandshakeTake(r) PROVE \E v \in Writers : pc'[v] = "poll"
    BY <1>0, <1>1, <1>2, <1>5, <2>7 DEF HandshakeTake
  <2>8. ASSUME NEW r \in Readers, HandshakeCopy(r) PROVE \E v \in Writers : pc'[v] = "poll"
    BY <1>0, <1>1, <1>2, <1>4, <2>8 DEF HandshakeCopy
  <2>9. ASSUME NEW r \in Readers, HandshakeDone(r) PROVE \E v \in Writers : pc'[v] = "poll"
    BY <1>0, <1>1, <1>2, <1>4, <2>9 DEF HandshakeDone
  <2>10. ASSUME NEW p \in Procs, HandshakeOpen(p) PROVE \E v \in Writers : pc'[v] = "poll"
    BY <1>0, <1>1, <1>2, <1>4, <2>10 DEF HandshakeOpen
  <2>11. ASSUME NEW p \in Procs, HandshakeClose(p) PROVE \E v \in Writers : pc'[v] = "poll"
    BY <1>0, <1>1, <1>2, <1>4, <2>11 DEF HandshakeClose
  <2>12. QED
    BY <1>7, <2>1, <2>2, <2>3, <2>4, <2>5, <2>6, <2>7, <2>8, <2>9, <2>10,
        <2>11 DEF HandshakeNext
<1>8. CASE InterruptNext
  <2>1. ASSUME NEW w \in Writers, InterruptWrite(w) PROVE \E v \in Writers : pc'[v] = "poll"
    BY <1>0, <1>1, <1>2, <1>4, <2>1 DEF InterruptWrite, Enter
  <2>2. ASSUME NEW w \in Writers, InterruptSend(w) PROVE \E v \in Writers : pc'[v] = "poll"
    BY <1>3, <2>2 DEF InterruptSend
  <2>3. ASSUME NEW w \in Writers, InterruptWritten(w) PROVE \E v \in Writers : pc'[v] = "poll"
    BY <1>4, <2>3 DEF InterruptWritten, TX_FLAGS
  <2>4. ASSUME NEW r \in Readers, InterruptRead(r) PROVE \E v \in Writers : pc'[v] = "poll"
    BY <1>0, <1>1, <1>2, <1>4, <2>4 DEF InterruptRead, Enter
  <2>5. ASSUME NEW r \in Readers, InterruptWait(r) PROVE \E v \in Writers : pc'[v] = "poll"
    BY <1>0, <1>1, <1>2, <1>4, <2>5 DEF InterruptWait
  <2>6. ASSUME NEW r \in Readers, InterruptSignal(r) PROVE \E v \in Writers : pc'[v] = "poll"
    BY <1>0, <1>1, <1>2, <1>4, <2>6 DEF InterruptSignal
  <2>7. ASSUME NEW r \in Readers, InterruptCopy(r) PROVE \E v \in Writers : pc'[v] = "poll"
    BY <1>0, <1>1, <1>2, <1>4, <2>7 DEF InterruptCopy
  <2>8. ASSUME NEW p \in Procs, InterruptOpen(p) PROVE \E v \in Writers : pc'[v] = "poll"
    BY <1>0, <1>1, <1>2, <1>4, <2>8 DEF InterruptOpen
  <2>9. ASSUME NEW p \in Procs, InterruptClose(p) PROVE \E v \in Writers : pc'[v] = "poll"
    BY <1>0, <1>1, <1>2, <1>4, <2>9 DEF InterruptClose
  <2>10. CASE ser_interrupt
    BY <1>1, <1>4, <2>10 DEF ser_interrupt
  <2>11. CASE TaskletRead
    BY <1>1, <1>5, <2>11 DEF TaskletRead
  <2>12. CASE TaskletStore
    BY <1>0, <1>1, <1>4, <2>12 DEF TaskletStore
  <2>13. ASSUME NEW w \in Writers, InterruptFill(w) PROVE \E v \in Writers : pc'[v] = "poll"
    BY <1>0, <1>1, <1>2, <1>4, <2>13 DEF InterruptFill
  <2>14. QED
    BY <1>8, <2>1, <2>2, <2>3, <2>4, <2>5, <2>6, <2>7, <2>8, <2>9, <2>10, <2>11,
        <2>12, <2>13 DEF InterruptNext
<1>9. CASE Load \/ Arrive \/ ForeignInterrupt \/ UNCHANGED vars
  <2>1. Transmitting
    BY <1>4, <1>9 DEF Load, Arrive, ForeignInterrupt, vars, Transmitting
  <2>2. UNCHANGED pc
    BY <1>9 DEF Load, Arrive, ForeignInterrupt, vars
  <2>3. QED
    BY <1>1, <2>1, <2>2
<1>10. QED
  BY <1>6, <1>7, <1>8, <1>9 DEF Next

(* While a byte is in the sending UART, some write_dev still polls the     *)
(* line status register.                                                   *)
THEOREM WireWait == Spec => []WritesWaitForTheWire
<1>1. Init => WritesWaitForTheWire
  BY DEF Init, WritesWaitForTheWire, Transmitting
<1>2. QED
  BY <1>1, InitTypes, TypeStep, WriteStep, PTL DEF Spec

-----------------------------------------------------------------------------
(* The handler and the tasklet                                             *)

(* What keeps the tasklet's list: the handler and the tasklet are only     *)
(* touched by the steps named, the device's list only by an open.          *)
LEMMA TaskletStep == TypeInv /\ TaskletInv /\ [Next]_vars => TaskletInv'
<1> SUFFICES ASSUME TypeInv, TaskletInv, [Next]_vars PROVE TaskletInv'
  OBVIOUS
<1>0. \A p \in Procs : Machine(p) \in Machines
  BY DEF Machine, Machines
<1>1. /\ handler \in [Machines -> BOOLEAN] /\ qset \in [Machines -> Nat]
      /\ env.failures \in Nat /\ "receiver" \in Machines
  <2>1. env \in Counts
    BY TypeParts DEF TypeInv, Parts
  <2>2. QED
    BY <2>1, IrqParts DEF IrqType, Counts, Machines
<1>2. ASSUME UNCHANGED <<handler, tasklet, qset>>, env'.failures = env.failures
      PROVE  TaskletInv'
  BY <1>2 DEF TaskletInv
<1>3. ASSUME NEW m \in Machines, create_scull(m), UNCHANGED <<handler, tasklet>>
      PROVE  TaskletInv'
  <2>1. /\ env'.failures \in Nat /\ env'.failures >= env.failures
        /\ qset'[m] = 0 => env'.failures > 0
        /\ \A n \in Machines : n # m => qset'[n] = qset[n]
    BY <1>3, ListCreated
  <2>2. QED
    BY <1>1, <1>3, <2>1 DEF TaskletInv
<1>4. ASSUME NEW p \in Procs, InterruptOpen(p) PROVE TaskletInv'
  <2> DEFINE m == Machine(p)
             installed == qset'[m] # 0 /\ ~handler[m]
  <2>1. /\ handler' = [handler EXCEPT ![m] = handler[m] \/ installed]
        /\ UNCHANGED tasklet /\ create_scull(m) /\ m \in Machines
    BY <1>0, <1>4 DEF InterruptOpen
  <2> HIDE DEF m
  <2>2. /\ env'.failures \in Nat /\ env'.failures >= env.failures
        /\ qset'[m] = 0 => env'.failures > 0
        /\ \A n \in Machines : n # m => qset'[n] = qset[n]
    BY <2>1, ListCreated
  <2>3. \A n \in Machines : handler'[n] <=> handler[n] \/ (n = m /\ installed)
    BY <2>1, <1>1
  <2>4. \A n \in Machines : handler'[n] => qset'[n] # 0 \/ env'.failures > 0
    BY <2>1, <2>2, <2>3, <1>1 DEF TaskletInv
  <2>5. QED
    BY <2>1, <2>2, <2>3, <2>4, <1>1 DEF TaskletInv
<1>5. CASE ser_interrupt
  BY <1>5 DEF ser_interrupt, tasklet_schedule, TaskletInv, store
<1>6. CASE TaskletRead
  BY <1>1, <1>6 DEF TaskletRead, TaskletInv, store
<1>7. CASE TaskletStore
  <2>1. UNCHANGED <<handler, qset, env>> /\ tasklet \in {"store", "store, again"}
        /\ tasklet' \in {"idle", "scheduled"}
    BY <1>7 DEF TaskletStore
  <2>2. QED
    BY <2>1 DEF TaskletInv
<1>8. CASE NullNext
  BY <1>2, <1>8
  DEF NullNext, NullWrite, NullWritten, NullRead, NullOpen, NullClose, irq, store
<1>9. CASE HandshakeNext
  <2>1. ASSUME NEW p \in Procs, HandshakeOpen(p) PROVE TaskletInv'
    BY <1>0, <1>3, <2>1 DEF HandshakeOpen, irq
  <2>2. QED
    BY <1>2, <1>9, <2>1
    DEF HandshakeNext, HandshakeWrite, HandshakeCleared, HandshakeFill, HandshakeSend,
        HandshakeWritten, HandshakeRead, HandshakeTake, HandshakeCopy, HandshakeDone,
        HandshakeClose, irq, store
<1>10. CASE InterruptNext
  <2>1. ASSUME NEW r \in Readers, InterruptSignal(r) PROVE TaskletInv'
    <3>1. env'.failures = env.failures
      <4>1. env \in Counts
        BY TypeParts DEF TypeInv, Parts
      <4>2. QED
        BY <2>1, <4>1 DEF InterruptSignal, Counts
    <3>2. QED
      BY <1>2, <2>1, <3>1 DEF InterruptSignal, irq, store
  <2>2. QED
    BY <1>2, <1>4, <1>5, <1>6, <1>7, <1>10, <2>1
    DEF InterruptNext, InterruptWrite, InterruptFill, InterruptSend, InterruptWritten,
        InterruptRead, InterruptWait, InterruptCopy, InterruptClose, free_irq, irq, store
<1>11. CASE Load \/ Arrive \/ UNCHANGED vars
  BY <1>2, <1>11 DEF Load, Arrive, vars, irq, store
<1>12. CASE ForeignInterrupt
  <2>1. env'.failures = env.failures
    <3>1. env \in Counts
      BY TypeParts DEF TypeInv, Parts
    <3>2. QED
      BY <1>12, <3>1 DEF ForeignInterrupt, Counts
  <2>2. QED
    BY <1>2, <1>12, <2>1 DEF ForeignInterrupt, store
<1>13. QED
  BY <1>8, <1>9, <1>10, <1>11, <1>12 DEF Next

(* As long as no kmalloc failed, the tasklet never meets a device without  *)
(* a list, however late it runs after a close or a refused open.           *)
THEOREM TaskletHasList == Spec => []TaskletFindsStorage
<1>1. Init => TaskletInv
  BY DEF Init, TaskletInv
<1>2. TaskletInv => TaskletFindsStorage
  BY DEF TaskletInv, TaskletFindsStorage
<1>3. QED
  BY <1>1, <1>2, InitTypes, TypeStep, TaskletStep, PTL DEF Spec
=============================================================================
