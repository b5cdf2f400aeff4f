------------------------- MODULE ParallelLinkProofs -------------------------
(***************************************************************************)
(* The parallel drivers implement RegularLink, for any number of readers   *)
(* and any number of writes.                                               *)
(***************************************************************************)
EXTENDS ParallelLink, SequenceTheorems, TLAPS

(* Where the writer is tells how many calls are over; the strobe is up     *)
(* only while a call is running, and what the port shows is that call's.   *)
WriterInv ==
  /\ wpc = "idle" => begun = returned
  /\ wpc # "idle" => begun = returned + 1
  /\ strobe => wpc = "pulse"
  /\ data.call = begun

(* What a reader has seen of a strobe, or taken from the port, belongs to  *)
(* a call that was not over when it began, the later piece to the later    *)
(* call.                                                                   *)
ReaderInv(r) ==
  /\ since[r] <= returned
  /\ rpc[r] = "idle" => dat_reg[r] = <<>>
  /\ rpc[r] = "low" => dat_reg[r] # <<>>
  /\ rpc[r] = "ack" /\ driver = "nibble" => dat_reg[r] # <<>>
  /\ rpc[r] \in {"ack", "take"} => since[r] < begun
  /\ \A i \in 1 .. Len(dat_reg[r]) :
       since[r] < dat_reg[r][i].call /\ dat_reg[r][i].call <= begun
  /\ \A i, j \in 1 .. Len(dat_reg[r]) : i <= j => dat_reg[r][i].call <= dat_reg[r][j].call

LinkInv == WriterInv /\ \A r \in Readers : ReaderInv(r)

-----------------------------------------------------------------------------

LEMMA InitHolds == Init => TypeOK /\ LinkInv
<1> SUFFICES ASSUME Init PROVE TypeOK /\ LinkInv
  OBVIOUS
<1> USE DEF Init, Link!Init, Link!None
<1>1. dat_reg \in [Readers -> Seq(Call)]
  <2>1. <<>> \in Seq(Call)
    OBVIOUS
  <2>2. QED
    BY <2>1
<1>2. TypeOK
  BY <1>1 DEF TypeOK, Call
<1>3. WriterInv
  BY DEF WriterInv
<1>4. ASSUME NEW r \in Readers PROVE ReaderInv(r)
  <2>1. dat_reg[r] = <<>> /\ Len(dat_reg[r]) = 0
    OBVIOUS
  <2>2. QED
    BY <2>1 DEF ReaderInv
<1>5. QED
  BY <1>2, <1>3, <1>4 DEF LinkInv

(* A step of the writer keeps types.                                       *)
LEMMA WriterType == TypeOK /\ Writer => TypeOK'
<1> SUFFICES ASSUME TypeOK, Writer PROVE TypeOK'
  OBVIOUS
<1>1. /\ UNCHANGED <<driver, rpc, dat_reg, since, got>>
      /\ wpc' \in {"idle", "busy", "strobe", "pulse", "second"}
  BY DEF Writer, WriterMoves, results, CompatWriter, CompatPut, CompatNotBusy, CompatStrobe,
         CompatWritten, NibbleWriter, NibblePut, NibbleNotBusy, NibbleStrobe, NibbleLowSent,
         NibblePutHigh, NibbleWritten
<1>2. begun' \in Nat /\ returned' \in Nat
  <2>1. begun \in Nat /\ returned \in Nat
    BY DEF TypeOK
  <2>2. begun' \in {begun, begun + 1} /\ returned' \in {returned, begun}
    BY DEF Writer, port, calls, CompatWriter, CompatPut, CompatNotBusy, CompatStrobe,
           CompatWritten, NibbleWriter, NibblePut, NibbleNotBusy, NibbleStrobe, NibbleLowSent,
           NibblePutHigh, NibbleWritten
  <2>3. QED
    BY <2>1, <2>2
<1>3. strobe' \in BOOLEAN /\ busy' \in BOOLEAN
  BY Zenon DEF TypeOK, Writer, port, calls, CompatWriter, CompatPut, CompatNotBusy, CompatStrobe,
         CompatWritten, NibbleWriter, NibblePut, NibbleNotBusy, NibbleStrobe, NibbleLowSent,
         NibblePutHigh, NibbleWritten
<1>4. \/ data' = data
      \/ data' = [call |-> begun + 1, part |-> "byte"]
      \/ data' = [call |-> begun + 1, part |-> "low"]
      \/ data' = [call |-> begun, part |-> "high"]
  BY DEF Writer, port, CompatWriter, CompatPut, CompatNotBusy, CompatStrobe, CompatWritten,
         NibbleWriter, NibblePut, NibbleNotBusy, NibbleStrobe, NibbleLowSent, NibblePutHigh,
         NibbleWritten
<1>5. begun \in Nat /\ begun + 1 \in Nat /\ data \in Call
  BY DEF TypeOK
<1>6. data' \in Call
  BY <1>4, <1>5 DEF Call
<1>7. QED
  BY <1>1, <1>2, <1>3, <1>6 DEF TypeOK

(* What a reader delivers is there and has its type.                       *)
LEMMA ReceivedType ==
  ASSUME TypeOK, NEW r \in Readers, dat_reg[r] # <<>>
  PROVE  Received(r) \in [first : Nat, last : Nat]
<1>1. dat_reg[r] \in Seq(Call)
  BY DEF TypeOK
<1>2. Len(dat_reg[r]) \in Nat /\ Len(dat_reg[r]) > 0
  BY <1>1
<1>3. dat_reg[r][1] \in Call /\ dat_reg[r][Len(dat_reg[r])] \in Call
  BY <1>1, <1>2
<1>4. Head(dat_reg[r]) = dat_reg[r][1]
  BY <1>1
<1>5. QED
  BY <1>3, <1>4 DEF Received, Call

LEMMA ReaderType ==
  ASSUME TypeOK, LinkInv, NEW r \in Readers, Reader(r)
  PROVE  TypeOK'
<1> USE DEF TypeOK, ReaderMoves, results, calls
<1>1. data \in Call /\ dat_reg[r] \in Seq(Call)
  OBVIOUS
<1>2. <<data>> \in Seq(Call) /\ <<>> \in Seq(Call) /\ Append(dat_reg[r], data) \in Seq(Call)
  BY <1>1
<1>3. ASSUME rpc[r] = "low", Deliver(r) PROVE dat_reg' \in [Readers -> Seq(Call)]
                                             /\ got' \in [Readers -> [first : Nat, last : Nat]]
                                             /\ since' \in [Readers -> Nat]
  <2>1. Received(r) \in [first : Nat, last : Nat]
    BY <1>3, ReceivedType DEF LinkInv, ReaderInv
  <2>2. QED
    BY <1>2, <1>3, <2>1 DEF Deliver
<1>4. CASE CompatReader(r)
  <2>1. CASE CompatDone(r)
    BY <1>3, <2>1 DEF CompatDone
  <2>2. CASE ~CompatDone(r)
    BY <1>2, <1>4, <2>2, ZenonT(60) DEF CompatReader, CompatRead, CompatStrobed, CompatAck, CompatTake
  <2>3. QED
    BY <2>1, <2>2
<1>5. CASE NibbleReader(r)
  <2>1. CASE NibbleDone(r)
    BY <1>3, <2>1 DEF NibbleDone, BusyLow
  <2>2. CASE ~NibbleDone(r)
    BY <1>2, <1>5, <2>2, ZenonT(60) DEF NibbleReader, NibbleRead, NibbleSample, NibbleAck, NibbleAgain,
                            BusyLow
  <2>3. QED
    BY <2>1, <2>2
<1>6. QED
  BY <1>4, <1>5 DEF Reader

-----------------------------------------------------------------------------
(* The invariant                                                           *)

LEMMA WriterKeepsWriterInv == TypeOK /\ LinkInv /\ Writer => WriterInv'
<1> SUFFICES ASSUME TypeOK, WriterInv, Writer PROVE WriterInv'
  BY DEF LinkInv
<1> USE DEF WriterInv, WriterMoves, port, calls, results
<1> begun \in Nat /\ returned \in Nat
  BY DEF TypeOK
<1>1. ASSUME CompatWriter PROVE WriterInv'
  BY <1>1 DEF CompatWriter, CompatPut, CompatNotBusy, CompatStrobe, CompatWritten
<1>2. ASSUME NibbleWriter PROVE WriterInv'
  BY <1>2 DEF NibbleWriter, NibblePut, NibbleNotBusy, NibbleStrobe, NibbleLowSent,
              NibblePutHigh, NibbleWritten
<1>3. QED
  BY <1>1, <1>2 DEF Writer

(* The writer only raises the two counters.                                *)
LEMMA WriterRaises ==
  TypeOK /\ LinkInv /\ Writer =>
    /\ begun <= begun' /\ returned <= returned'
    /\ UNCHANGED <<driver, rpc, dat_reg, since, got>>
<1> SUFFICES ASSUME TypeOK, WriterInv, Writer
             PROVE  /\ begun <= begun' /\ returned <= returned'
                    /\ UNCHANGED <<driver, rpc, dat_reg, since, got>>
  BY DEF LinkInv
<1> USE DEF WriterMoves, port, calls, results
<1>1. begun \in Nat /\ returned \in Nat /\ returned <= begun
  BY DEF TypeOK, WriterInv
<1>2. CASE CompatWriter
  BY <1>1, <1>2 DEF CompatWriter, CompatPut, CompatNotBusy, CompatStrobe, CompatWritten
<1>3. CASE NibbleWriter
  BY <1>1, <1>3 DEF NibbleWriter, NibblePut, NibbleNotBusy, NibbleStrobe, NibbleLowSent,
              NibblePutHigh, NibbleWritten
<1>4. QED
  BY <1>2, <1>3 DEF Writer

LEMMA WriterKeepsReaderInv ==
  ASSUME TypeOK, LinkInv, Writer, NEW r \in Readers
  PROVE  ReaderInv(r)'
<1>1. begun <= begun' /\ returned <= returned' /\ UNCHANGED <<driver, rpc, dat_reg, since, got>>
  BY WriterRaises
<1>2. /\ begun \in Nat /\ returned \in Nat /\ since[r] \in Nat /\ dat_reg[r] \in Seq(Call)
      /\ begun' \in Nat /\ returned' \in Nat
  BY WriterType DEF TypeOK
<1>3. ReaderInv(r)
  BY DEF LinkInv
<1>4. ASSUME NEW i \in 1 .. Len(dat_reg[r])
      PROVE  since[r] < dat_reg[r][i].call /\ dat_reg[r][i].call <= begun'
  <2>1. dat_reg[r][i] \in Call
    BY <1>2
  <2>2. dat_reg[r][i].call \in Nat
    BY <2>1 DEF Call
  <2>3. QED
    BY <1>1, <1>2, <1>3, <2>2 DEF ReaderInv
<1>5. QED
  BY <1>1, <1>2, <1>3, <1>4 DEF ReaderInv

(* A reader that saw the strobe saw it during a call that is not over.     *)
LEMMA StrobedCall ==
  ASSUME TypeOK, LinkInv, NEW r \in Readers, strobe
  PROVE  since[r] < begun
BY DEF TypeOK, LinkInv, WriterInv, ReaderInv

(* One more piece, of the call that is on the port.                        *)
LEMMA PieceAppended ==
  ASSUME TypeOK, LinkInv, NEW r \in Readers, since[r] < begun
  PROVE  LET s == Append(dat_reg[r], data)
         IN  /\ s # <<>>
             /\ \A i \in 1 .. Len(s) : since[r] < s[i].call /\ s[i].call <= begun
             /\ \A i, j \in 1 .. Len(s) : i <= j => s[i].call <= s[j].call
<1> DEFINE s == Append(dat_reg[r], data)
<1>1. dat_reg[r] \in Seq(Call) /\ data \in Call /\ begun \in Nat /\ since[r] \in Nat
  BY DEF TypeOK
<1>2. data.call = begun
  BY DEF LinkInv, WriterInv
<1>3. ReaderInv(r)
  BY DEF LinkInv
<1>4. Len(s) = Len(dat_reg[r]) + 1 /\ Len(dat_reg[r]) \in Nat
  BY <1>1
<1>5. ASSUME NEW i \in 1 .. Len(s)
      PROVE  /\ s[i].call \in Nat /\ since[r] < s[i].call /\ s[i].call <= begun
             /\ i = Len(s) => s[i].call = begun
  <2>1. CASE i = Len(s)
    <3>1. s[i] = data
      BY <1>1, <1>4, <2>1
    <3>2. QED
      BY <1>1, <1>2, <3>1
  <2>2. CASE i # Len(s)
    <3>1. i \in 1 .. Len(dat_reg[r])
      BY <1>4, <2>2
    <3>2. s[i] = dat_reg[r][i] /\ dat_reg[r][i] \in Call
      BY <1>1, <3>1
    <3>3. QED
      BY <1>3, <2>2, <3>1, <3>2 DEF ReaderInv, Call
  <2>3. QED
    BY <2>1, <2>2
<1>6. ASSUME NEW i \in 1 .. Len(s), NEW j \in 1 .. Len(s), i <= j
      PROVE  s[i].call <= s[j].call
  <2>1. CASE j = Len(s)
    BY <1>5, <2>1
  <2>2. CASE j # Len(s)
    <3>1. i \in 1 .. Len(dat_reg[r]) /\ j \in 1 .. Len(dat_reg[r])
      BY <1>4, <1>6, <2>2
    <3>2. s[i] = dat_reg[r][i] /\ s[j] = dat_reg[r][j]
      BY <1>1, <3>1
    <3>3. QED
      BY <1>3, <1>6, <3>1, <3>2 DEF ReaderInv
  <2>3. QED
    BY <2>1, <2>2
<1>7. s # <<>>
  BY <1>4
<1>8. QED
  BY <1>5, <1>6, <1>7

LEMMA ReaderKeepsWriterInv ==
  ASSUME LinkInv, NEW r \in Readers, Reader(r)
  PROVE  WriterInv'
<1>1. UNCHANGED <<data, strobe, wpc, begun, returned>>
  BY DEF Reader, CompatReader, CompatRead, CompatStrobed, CompatAck, CompatTake, CompatDone,
         NibbleReader, NibbleRead, NibbleSample, NibbleAck, NibbleAgain, NibbleDone,
         ReaderMoves, calls
<1>2. QED
  BY <1>1 DEF LinkInv, WriterInv

(* What one reader does is nothing to the others.                          *)
LEMMA OthersKeepReaderInv ==
  ASSUME TypeOK, LinkInv, NEW r \in Readers, Reader(r), NEW q \in Readers, q # r
  PROVE  ReaderInv(q)'
<1> USE DEF ReaderMoves, calls, results, Deliver
<1>1. /\ rpc \in [Readers -> {"idle", "wait", "ack", "take", "low"}]
      /\ dat_reg \in [Readers -> Seq(Call)] /\ since \in [Readers -> Nat]
  BY DEF TypeOK
<1>2. /\ UNCHANGED <<driver, begun, returned>>
      /\ rpc'[q] = rpc[q] /\ dat_reg'[q] = dat_reg[q] /\ since'[q] = since[q]
  <2>1. CASE CompatReader(r)
    BY <1>1, <2>1 DEF CompatReader, CompatRead, CompatStrobed, CompatAck, CompatTake, CompatDone
  <2>2. CASE NibbleReader(r)
    BY <1>1, <2>2 DEF NibbleReader, NibbleRead, NibbleSample, NibbleAck, NibbleAgain, NibbleDone
  <2>3. QED
    BY <2>1, <2>2 DEF Reader
<1>3. ReaderInv(q)
  BY DEF LinkInv
<1>4. QED
  BY <1>2, <1>3 DEF ReaderInv

LEMMA ReaderKeepsReaderInv ==
  ASSUME TypeOK, LinkInv, NEW r \in Readers, Reader(r)
  PROVE  ReaderInv(r)'
<1> USE DEF ReaderMoves, calls, results
<1>1. ReaderInv(r)
  BY DEF LinkInv
<1>2. /\ dat_reg \in [Readers -> Seq(Call)] /\ since \in [Readers -> Nat]
      /\ rpc \in [Readers -> {"idle", "wait", "ack", "take", "low"}]
      /\ begun \in Nat /\ returned \in Nat /\ data \in Call
  BY DEF TypeOK
<1>3. ASSUME rpc[r] = "idle", rpc' = [rpc EXCEPT ![r] = "wait"],
             since' = [since EXCEPT ![r] = returned],
             UNCHANGED <<dat_reg, driver, begun, returned>>
      PROVE  ReaderInv(r)'
  <2>1. dat_reg'[r] = <<>> /\ Len(dat_reg'[r]) = 0
    BY <1>1, <1>3 DEF ReaderInv
  <2>2. rpc'[r] = "wait" /\ since'[r] = returned
    BY <1>2, <1>3
  <2>3. QED
    BY <1>2, <1>3, <2>1, <2>2 DEF ReaderInv
<1>4. ASSUME NEW from, NEW to, rpc[r] = from, rpc' = [rpc EXCEPT ![r] = to], from # "idle", to # "idle",
             to # "ack" \/ driver # "nibble", to = "low" => dat_reg[r] # <<>>, to \in {"ack", "take"} => since[r] < begun,
             UNCHANGED <<dat_reg, since, driver, begun, returned>>
      PROVE  ReaderInv(r)'
  <2>1. rpc'[r] = to
    BY <1>2, <1>4
  <2>2. QED
    BY <1>1, <1>4, <2>1 DEF ReaderInv
<1>5. ASSUME rpc' = [rpc EXCEPT ![r] = "ack"], since[r] < begun,
             dat_reg' = [dat_reg EXCEPT ![r] = Append(@, data)],
             UNCHANGED <<since, driver, begun, returned>>
      PROVE  ReaderInv(r)'
  <2>1. rpc'[r] = "ack" /\ dat_reg'[r] = Append(dat_reg[r], data)
    BY <1>2, <1>5
  <2>2. QED
    BY <1>1, <1>5, <2>1, PieceAppended DEF ReaderInv
<1>6. ASSUME rpc' = [rpc EXCEPT ![r] = "idle"], Deliver(r), UNCHANGED <<driver, begun, returned>>
      PROVE  ReaderInv(r)'
  <2>1. rpc'[r] = "idle" /\ dat_reg'[r] = <<>> /\ Len(dat_reg'[r]) = 0 /\ since'[r] = since[r]
    BY <1>2, <1>6 DEF Deliver
  <2>2. QED
    BY <1>1, <1>6, <2>1 DEF ReaderInv
<1>7. ASSUME rpc' = [rpc EXCEPT ![r] = "low"], since[r] < begun,
             dat_reg' = [dat_reg EXCEPT ![r] = <<data>>],
             UNCHANGED <<since, driver, begun, returned>>
      PROVE  ReaderInv(r)'
  <2>1. rpc'[r] = "low" /\ dat_reg'[r] = <<data>>
    BY <1>2, <1>7
  <2>2. data.call = begun /\ Len(<<data>>) = 1 /\ <<data>>[1] = data /\ <<data>> # <<>>
    BY DEF LinkInv, WriterInv
  <2>3. QED
    BY <1>1, <1>2, <1>7, <2>1, <2>2 DEF ReaderInv
<1>8. CASE driver = "compatibility" /\ CompatReader(r)
  <2>1. CASE CompatRead(r)
    BY <1>3, <2>1 DEF CompatRead
  <2>2. CASE CompatStrobed(r)
    BY <1>4, <1>8, <2>2, StrobedCall DEF CompatStrobed, Strobed
  <2>3. CASE CompatAck(r)
    BY <1>1, <1>4, <2>3 DEF CompatAck, ReaderInv
  <2>4. CASE CompatTake(r)
    BY <1>1, <1>7, <2>4 DEF CompatTake, ReaderInv
  <2>5. CASE CompatDone(r)
    BY <1>6, <2>5 DEF CompatDone
  <2>6. QED
    BY <1>8, <2>1, <2>2, <2>3, <2>4, <2>5 DEF CompatReader
<1>9. CASE driver = "nibble" /\ NibbleReader(r)
  <2>1. CASE NibbleRead(r)
    BY <1>3, <2>1 DEF NibbleRead
  <2>2. CASE NibbleSample(r)
    BY <1>5, <2>2, StrobedCall DEF NibbleSample
  <2>3. CASE NibbleAck(r)
    BY <1>1, <1>4, <1>9, <2>3 DEF NibbleAck, ReaderInv
  <2>4. CASE NibbleAgain(r)
    BY <1>4, <2>4 DEF NibbleAgain
  <2>5. CASE NibbleDone(r)
    BY <1>6, <2>5 DEF NibbleDone
  <2>6. QED
    BY <1>9, <2>1, <2>2, <2>3, <2>4, <2>5 DEF NibbleReader
<1>10. QED
  BY <1>8, <1>9 DEF Reader

-----------------------------------------------------------------------------

LEMMA StepHolds == TypeOK /\ LinkInv /\ [Next]_vars => TypeOK' /\ LinkInv'
<1> SUFFICES ASSUME TypeOK, LinkInv, [Next]_vars PROVE TypeOK' /\ LinkInv'
  OBVIOUS
<1>1. CASE Writer
  BY <1>1, WriterType, WriterKeepsWriterInv, WriterKeepsReaderInv DEF LinkInv
<1>2. ASSUME NEW r \in Readers, Reader(r) PROVE TypeOK' /\ LinkInv'
  <2>1. ASSUME NEW q \in Readers PROVE ReaderInv(q)'
    BY <1>2, <2>1, OthersKeepReaderInv, ReaderKeepsReaderInv
  <2>2. TypeOK' /\ WriterInv'
    BY <1>2, ReaderType, ReaderKeepsWriterInv
  <2>3. QED
    BY <2>1, <2>2 DEF LinkInv
<1>3. CASE UNCHANGED vars
  BY <1>3 DEF vars, port, calls, results, TypeOK, LinkInv, WriterInv, ReaderInv
<1>4. QED
  BY <1>1, <1>2, <1>3 DEF Next

(* What a reader with a piece in hand delivers lies between the calls that *)
(* were over when it began and the one that is running.                    *)
LEMMA ReceivedInRange ==
  ASSUME TypeOK, LinkInv, NEW r \in Readers, dat_reg[r] # <<>>
  PROVE  \E first, last \in since[r] + 1 .. begun :
           first <= last /\ Received(r) = [first |-> first, last |-> last]
<1>1. /\ dat_reg[r] \in Seq(Call) /\ begun \in Nat /\ since[r] \in Nat
      /\ ReaderInv(r)
  BY DEF TypeOK, LinkInv
<1> DEFINE n == Len(dat_reg[r])
           f == dat_reg[r][1].call
           l == dat_reg[r][n].call
<1>2. n \in Nat /\ 1 \in 1 .. n /\ n \in 1 .. n /\ 1 <= n
  BY <1>1
<1>3. dat_reg[r][1] \in Call /\ dat_reg[r][n] \in Call /\ Head(dat_reg[r]) = dat_reg[r][1]
  BY <1>1, <1>2
<1>4. f \in Nat /\ l \in Nat
  BY <1>3 DEF Call
<1>5. since[r] < f /\ f <= begun /\ since[r] < l /\ l <= begun /\ f <= l
  BY <1>1, <1>2 DEF ReaderInv
<1>6. f \in since[r] + 1 .. begun /\ l \in since[r] + 1 .. begun
  BY <1>1, <1>4, <1>5
<1>7. Received(r) = [first |-> f, last |-> l]
  BY <1>3 DEF Received
<1>8. QED
  BY <1>5, <1>6, <1>7

(* A step of the writer begins a write, ends one, or is no step of the     *)
(* link.                                                                   *)
LEMMA WriterRefines ==
  TypeOK /\ LinkInv /\ Writer => Link!BeginWrite \/ Link!EndWrite \/ UNCHANGED Link!linkVars
<1> SUFFICES ASSUME TypeOK, WriterInv, Writer
             PROVE  Link!BeginWrite \/ Link!EndWrite \/ UNCHANGED Link!linkVars
  BY DEF LinkInv
<1>1. begun \in Nat /\ returned \in Nat
  BY DEF TypeOK
<1>2. CASE CompatPut \/ NibblePut
  BY <1>1, <1>2 DEF CompatPut, NibblePut, WriterMoves, results, WriterInv, Link!BeginWrite
<1>3. CASE CompatWritten \/ NibbleWritten
  BY <1>1, <1>3 DEF CompatWritten, NibbleWritten, WriterMoves, results, WriterInv, Link!EndWrite
<1>4. CASE ~ (CompatPut \/ NibblePut \/ CompatWritten \/ NibbleWritten)
  BY <1>4 DEF Writer, CompatWriter, CompatNotBusy, CompatStrobe, NibbleWriter, NibbleNotBusy,
              NibbleStrobe, NibbleLowSent, NibblePutHigh, WriterMoves, port, calls, results,
              Link!linkVars
<1>5. QED
  BY <1>2, <1>3, <1>4

(* A step of a reader begins a read, ends one, or is no step of the link.  *)
LEMMA ReaderRefines ==
  ASSUME TypeOK, LinkInv, NEW r \in Readers, Reader(r)
  PROVE  Link!BeginRead(r) \/ Link!EndRead(r) \/ UNCHANGED Link!linkVars
<1>1. CASE CompatRead(r) \/ NibbleRead(r)
  BY <1>1 DEF CompatRead, NibbleRead, ReaderMoves, calls, Link!BeginRead
<1>2. CASE CompatDone(r) \/ NibbleDone(r)
  <2>1. rpc[r] = "low" /\ Deliver(r) /\ UNCHANGED <<begun, returned>>
    BY <1>2 DEF CompatDone, NibbleDone, ReaderMoves, calls
  <2>2. \E first, last \in since[r] + 1 .. begun :
          first <= last /\ Received(r) = [first |-> first, last |-> last]
    BY <2>1, ReceivedInRange DEF LinkInv, ReaderInv
  <2>3. QED
    BY <2>1, <2>2 DEF Deliver, Link!EndRead
<1>3. CASE ~ (CompatRead(r) \/ NibbleRead(r) \/ CompatDone(r) \/ NibbleDone(r))
  BY <1>3 DEF Reader, CompatReader, CompatStrobed, CompatAck, CompatTake, NibbleReader,
              NibbleSample, NibbleAck, NibbleAgain, ReaderMoves, calls, results, Link!linkVars
<1>4. QED
  BY <1>1, <1>2, <1>3

LEMMA StepRefines == TypeOK /\ LinkInv /\ [Next]_vars => [Link!Next]_Link!linkVars
<1> SUFFICES ASSUME TypeOK, LinkInv, [Next]_vars PROVE [Link!Next]_Link!linkVars
  OBVIOUS
<1>1. CASE Writer
  BY <1>1, WriterRefines DEF Link!Next
<1>2. ASSUME NEW r \in Readers, Reader(r) PROVE [Link!Next]_Link!linkVars
  BY <1>2, ReaderRefines DEF Link!Next
<1>3. CASE UNCHANGED vars
  BY <1>3 DEF vars, calls, results, Link!linkVars
<1>4. QED
  BY <1>1, <1>2, <1>3 DEF Next

(* Every variable of the two parallel drivers keeps its type.              *)
THEOREM TypeCorrect == Spec => []TypeOK
<1>1. Spec => [](TypeOK /\ LinkInv)
  BY InitHolds, StepHolds, PTL DEF Spec
<1>2. QED
  BY <1>1, PTL

(* The polled handshake of the two parallel drivers implements the regular *)
(* link: whatever number of programs read, and however their calls and the *)
(* writer's interleave, a read returns pieces of calls that were not over  *)
(* when it began, the earlier first.                                       *)
THEOREM ImplementsLink == Spec => ReadsRegular
<1>1. Spec => [](TypeOK /\ LinkInv)
  BY InitHolds, StepHolds, PTL DEF Spec
<1>2. Init => Link!Init
  BY DEF Init
<1>3. QED
  BY <1>1, <1>2, StepRefines, PTL DEF Spec, ReadsRegular, Link!Spec
=============================================================================
