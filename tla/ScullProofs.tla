----------------------------- MODULE ScullProofs -----------------------------
(***************************************************************************)
(* Safety of the scull storage for any number of readers and writers, any  *)
(* sizes of quanta, sets and device, any counts and offsets, and every     *)
(* driver modelled.                                                        *)
(*                                                                         *)
(* First the arithmetic of quanta and of one copy loop; then the lock; and *)
(* then DataInv, which says of the device's list that it holds what        *)
(* data_size promises, and of every loop that it fits the list.            *)
(***************************************************************************)
EXTENDS Scull, TLAPS

LEMMA DivMod ==
  ASSUME NEW n \in Nat, NEW d \in Nat \ {0}
  PROVE  n \div d \in Nat /\ n % d \in 0 .. d - 1 /\ n = (n \div d) * d + (n % d)
OBVIOUS

LEMMA Monotone ==
  ASSUME NEW a \in Int, NEW b \in Int, NEW d \in Nat, a <= b
  PROVE  a * d <= b * d
OBVIOUS

LEMMA Cancel ==
  ASSUME NEW a \in Int, NEW b \in Int, NEW d \in Nat \ {0}, a * d < b * d
  PROVE  a < b
OBVIOUS

LEMMA Distribute ==
  ASSUME NEW a \in Int, NEW b \in Int, NEW d \in Int
  PROVE  (a + b) * d = a * d + b * d /\ (a - b) * d = a * d - b * d
         /\ a * d \in Int /\ b * d \in Int
OBVIOUS

LEMMA Associate ==
  ASSUME NEW a \in Int, NEW b \in Int, NEW d \in Int
  PROVE  a * (b * d) = (a * d) * b /\ b * d \in Int /\ b * d = d * b
OBVIOUS

(* The rounding up of create_scull and read_dev: d times the result holds  *)
(* n, and one less does not.                                               *)
LEMMA DivUpBounds ==
  ASSUME NEW n \in Nat, NEW d \in Nat \ {0}
  PROVE  /\ DivUp(n, d) \in Nat
         /\ n <= DivUp(n, d) * d
         /\ n > 0 => DivUp(n, d) > 0
         /\ DivUp(n, d) > 0 => (DivUp(n, d) - 1) * d < n
<1> DEFINE k == n \div d
           m == n % d
<1>1. k \in Nat /\ m \in 0 .. d - 1 /\ n = k * d + m
  BY DivMod
<1>2. (k + 1) * d = k * d + d /\ (k - 1) * d = k * d - d /\ k * d \in Int
  BY <1>1
<1>3. k = 0 => k * d = 0
  BY <1>1
<1>4. DivUp(n, d) = IF m = 0 THEN k ELSE k + 1
  BY DEF DivUp
<1> HIDE DEF k, m
<1>5. CASE m = 0
  BY <1>1, <1>2, <1>3, <1>4, <1>5
<1>6. CASE m # 0
  <2>1. DivUp(n, d) = k + 1 /\ k + 1 - 1 = k
    BY <1>1, <1>4, <1>6
  <2> QED
    BY <1>1, <1>2, <1>6, <2>1
<1> QED
  BY <1>5, <1>6

(* Quotient and remainder are the only ones.                               *)
LEMMA DivModUnique ==
  ASSUME NEW n \in Nat, NEW d \in Nat \ {0}, NEW k \in Int, NEW m \in 0 .. d - 1, n = k * d + m
  PROVE  n \div d = k /\ n % d = m
<1> DEFINE j == n \div d
           i == n % d
<1>1. j \in Nat /\ i \in 0 .. d - 1 /\ n = j * d + i
  BY DivMod
<1> HIDE DEF j, i
<1>2. (k + 1) * d = k * d + d /\ (j + 1) * d = j * d + d /\ j * d \in Int /\ k * d \in Int
  BY <1>1
<1>3. k * d < (j + 1) * d /\ j * d < (k + 1) * d
  BY <1>1, <1>2
<1>4. k < j + 1 /\ j < k + 1
  BY <1>1, <1>3, Cancel
<1>5. j = k
  BY <1>1, <1>4
<1> QED
  BY <1>1, <1>2, <1>5 DEF j, i

(* Sets hold whole quanta.                                                 *)
LEMMA Sizes ==
  /\ quantum_size \in Nat \ {0}
  /\ qset_size \in Nat \ {0}
  /\ item \in Nat \ {0}
  /\ \A a \in Int : a * item = (a * qset_size) * quantum_size
<1>1. quantum_size \in Nat \ {0} /\ qset_size \in Nat \ {0}
  BY ScullAssumption
<1>2. item \in Nat \ {0}
  BY <1>1 DEF item
<1>3. ASSUME NEW a \in Int
      PROVE  a * item = (a * qset_size) * quantum_size
  BY <1>1, Associate DEF item
<1> QED
  BY <1>1, <1>2, <1>3

(* Where a read begins: at its position, or one set behind it.             *)
LEMMA Begins ==
  ASSUME NEW list, NEW pos \in Nat, heap[list].quanta \in Nat,
         pos < heap[list].quanta * quantum_size
  PROVE  /\ FirstQuantum(list, pos) \in Nat
         /\ pos = (FirstQuantum(list, pos) + Behind(pos)) * quantum_size + (pos % quantum_size)
<1> DEFINE quanta == heap[list].quanta
           sets == DivUp(quanta, qset_size)
           K == pos \div item
           M == pos % item
           b == M \div quantum_size
           c == M % quantum_size
<1> USE Sizes
<1>1. quanta \in Nat /\ pos < quanta * quantum_size
  OBVIOUS
<1>2. K \in Nat /\ M \in 0 .. item - 1 /\ pos = K * item + M
  BY DivMod
<1>3. b \in Nat /\ c \in 0 .. quantum_size - 1 /\ M = b * quantum_size + c
  BY <1>2, DivMod, SMTT(60)
<1>4. sets \in Nat /\ quanta <= sets * qset_size
  BY <1>1, DivUpBounds
<1>5. DivUp(pos, item) = IF M = 0 THEN K ELSE K + 1
  BY DEF DivUp
<1>6. /\ FirstQuantum(list, pos) =
             (IF pos = 0 THEN 0 ELSE scull_follow(list, DivUp(pos, item) - 1) * qset_size) + b
      /\ \A n \in Int : scull_follow(list, n) = IF n < sets THEN n ELSE sets - 1
  BY DEF FirstQuantum, scull_follow
<1>7. Behind(pos) = IF pos > 0 /\ M = 0 THEN qset_size ELSE 0
  BY DEF Behind
<1> HIDE DEF quanta, sets, K, M, b, c
<1>8. K * qset_size \in Nat /\ K * item = (K * qset_size) * quantum_size
  BY <1>2
<1>9. pos = (K * qset_size + b) * quantum_size + c
  BY <1>2, <1>3, <1>8, Distribute
<1>10. pos % quantum_size = c
  BY <1>3, <1>8, <1>9, DivModUnique
<1>11. K < sets
  <2>1. K * item <= pos
    BY <1>2
  <2>2. quanta * quantum_size <= (sets * qset_size) * quantum_size
    BY <1>1, <1>4, Monotone
  <2>3. (sets * qset_size) * quantum_size = sets * item
    BY <1>4
  <2>4. K * item < sets * item
    BY <1>1, <1>2, <1>4, <2>1, <2>2, <2>3
  <2> QED
    BY <1>2, <1>4, <2>4, Cancel
<1>12. FirstQuantum(list, pos) \in Nat /\ FirstQuantum(list, pos) + Behind(pos) = K * qset_size + b
  <2>1. CASE pos = 0
    <3>1. K * item = 0 /\ M = 0
      BY <1>2, <1>8, <2>1
    <3>2. K = 0
      BY <1>2, <3>1
    <3> QED
      BY <1>3, <1>6, <1>7, <2>1, <3>1, <3>2
  <2>2. CASE pos > 0 /\ M # 0
    <3>1. scull_follow(list, DivUp(pos, item) - 1) = K
      BY <1>2, <1>4, <1>5, <1>6, <1>11, <2>2
    <3> QED
      BY <1>3, <1>6, <1>7, <1>8, <2>2, <3>1
  <2>3. CASE pos > 0 /\ M = 0
    <3>1. K > 0
      BY <1>2, <2>3
    <3>2. scull_follow(list, DivUp(pos, item) - 1) = K - 1
      BY <1>2, <1>4, <1>5, <1>6, <1>11, <2>3, <3>1
    <3>3. (K - 1) * qset_size = K * qset_size - qset_size /\ (K - 1) * qset_size \in Nat
      BY <1>2, <3>1
    <3> QED
      BY <1>3, <1>6, <1>7, <1>8, <2>3, <3>2, <3>3
  <2> QED
    BY <2>1, <2>2, <2>3
<1> QED
  BY <1>3, <1>9, <1>10, <1>12
-----------------------------------------------------------------------------
(* The copy loop.                                                          *)

(* Before the first round the rest of a quantum is to be copied; after it  *)
(* whole quanta, and at the end what is left.                              *)
FirstRound(l) ==
  /\ l.moved = 0
  /\ l.chunk = quantum_size
  /\ l.qoff = l.start % quantum_size

LaterRound(l) ==
  /\ l.qoff = 0
  /\ \/ l.chunk = quantum_size /\ quantum_size <= l.total - l.moved
     \/ l.chunk < quantum_size /\ l.chunk = l.total - l.moved

(* What holds of a loop over so many quanta between any two rounds.        *)
LoopOK(l, quanta) ==
  /\ FirstRound(l) \/ LaterRound(l)
  /\ l.qoff < quantum_size
  /\ l.at + Behind(l.start) + l.rounds <= quanta
  /\ l.total <= l.count
  /\ l.rounds > 0 => (l.rounds - 1) * quantum_size < l.total - l.moved
  /\ l.start + l.moved <= quanta * quantum_size
  /\ l.rounds > 0 => l.start + l.moved = (l.at + Behind(l.start)) * quantum_size + l.qoff
  /\ l.moved <= quantum_size \/ l.moved <= l.total
  /\ l.start % quantum_size = 0 /\ l.total >= quantum_size
       => l.moved <= l.total /\ l.total - l.moved <= l.rounds * quantum_size

LEMMA BehindType == \A start : Behind(start) \in Nat
BY Sizes DEF Behind

(* While rounds are left a length is neither negative nor above a quantum. *)
LEMMA LengthBounds ==
  ASSUME NEW l \in LoopType, NEW quanta \in Nat, LoopOK(l, quanta), l.rounds > 0
  PROVE  /\ Length(l) \in 0 .. quantum_size
         /\ l.rounds > 1 => l.chunk = quantum_size
         /\ l.chunk \in 0 .. quantum_size
<1>1. /\ (l.rounds - 1) * quantum_size \in Nat
      /\ l.rounds > 1 => quantum_size <= (l.rounds - 1) * quantum_size
  BY Sizes, Monotone DEF LoopType
<1> QED
  BY <1>1, Sizes DEF LoopType, LoopOK, FirstRound, LaterRound, Length

LEMMA RoundType ==
  ASSUME NEW l \in LoopType, NEW quanta \in Nat, LoopOK(l, quanta), l.rounds > 0
  PROVE  /\ Round(l) \in LoopType
         /\ Round(l) = [list |-> l.list, at |-> l.at + 1, qoff |-> 0,
                        chunk |-> LastChunk(l.total - l.moved - Length(l), l.chunk),
                        rounds |-> l.rounds - 1, moved |-> l.moved + Length(l),
                        total |-> l.total, count |-> l.count, start |-> l.start]
<1>1. Length(l) \in Nat
  BY LengthBounds, Sizes
<1>2. LastChunk(l.total - l.moved - Length(l), l.chunk) \in Int
  BY <1>1 DEF LoopType, LastChunk
<1> QED
  BY <1>1, <1>2 DEF LoopType, Round

(* One round keeps a loop in the quanta it was given.                      *)
LEMMA RoundKeepsLoop ==
  ASSUME NEW l \in LoopType, NEW quanta \in Nat, LoopOK(l, quanta), l.rounds > 0
  PROVE  LoopOK(Round(l), quanta)
<1> DEFINE n == Round(l)
           pos == l.at + Behind(l.start)
<1>0. /\ n.at = l.at + 1 /\ n.qoff = 0 /\ n.rounds = l.rounds - 1
      /\ n.moved = l.moved + Length(l) /\ n.total = l.total /\ n.count = l.count
      /\ n.start = l.start
      /\ n.chunk = LastChunk(l.total - l.moved - Length(l), l.chunk)
      /\ n \in LoopType
  BY RoundType
<1> HIDE DEF n
<1> quantum_size \in Nat \ {0}
  BY Sizes
<1>1. /\ Length(l) \in 0 .. quantum_size /\ l.chunk \in 0 .. quantum_size
      /\ l.rounds > 1 => l.chunk = quantum_size
      /\ Length(l) = l.chunk - l.qoff
  BY LengthBounds DEF Length
<1>2. pos \in Nat /\ pos + 1 = n.at + Behind(n.start)
  BY <1>0, BehindType DEF LoopType
<1>3. (pos + 1) * quantum_size = pos * quantum_size + quantum_size /\ pos * quantum_size \in Nat
  BY <1>2
<1>4. /\ (l.rounds - 1) * quantum_size \in Nat
      /\ (l.rounds - 2) * quantum_size = (l.rounds - 1) * quantum_size - quantum_size
      /\ l.rounds * quantum_size = (l.rounds - 1) * quantum_size + quantum_size
  BY DEF LoopType
<1>5. l.start + l.moved = pos * quantum_size + l.qoff
  BY DEF LoopOK
<1>6. /\ l.moved \in Nat /\ l.total \in Nat /\ l.chunk \in Int /\ l.qoff \in Nat
      /\ l.rounds \in Nat /\ l.total > l.moved
      /\ l.moved <= quantum_size \/ l.moved <= l.total
  BY <1>4 DEF LoopOK, LoopType
<1>7. \/ /\ l.moved = 0 /\ l.chunk = quantum_size
         /\ (l.start % quantum_size = 0 => l.qoff = 0)
      \/ l.qoff = 0 /\ l.chunk = quantum_size /\ quantum_size <= l.total - l.moved
      \/ l.qoff = 0 /\ l.chunk < quantum_size /\ l.chunk = l.total - l.moved
  BY DEF LoopOK, FirstRound, LaterRound
<1>8. LaterRound(n)
  BY <1>0, <1>1, <1>6, <1>7 DEF LastChunk, LaterRound
<1>9. n.qoff < quantum_size /\ n.total <= n.count
  BY <1>0 DEF LoopOK
<1>10. n.at + Behind(n.start) + n.rounds <= quanta
  BY <1>0, BehindType DEF LoopOK, LoopType
<1>11. n.rounds > 0 => (n.rounds - 1) * quantum_size < n.total - n.moved
  <2>1. n.rounds - 1 = l.rounds - 2
    BY <1>0 DEF LoopType
  <2> QED
    BY <1>0, <1>1, <1>4, <2>1 DEF LoopOK, LoopType
<1>12. n.start + n.moved <= quanta * quantum_size
  <2>1. (pos + 1) * quantum_size <= quanta * quantum_size
    BY <1>2, Monotone DEF LoopOK, LoopType
  <2>2. quanta * quantum_size \in Nat
    OBVIOUS
  <2> QED
    BY <1>0, <1>1, <1>3, <1>5, <2>1, <2>2 DEF LoopType
<1>13. n.rounds > 0 => n.start + n.moved = (n.at + Behind(n.start)) * quantum_size + n.qoff
  <2>1. n.rounds > 0 => l.chunk = quantum_size
    BY <1>0, <1>1 DEF LoopType
  <2>2. l.start + (l.moved + Length(l)) = pos * quantum_size + l.chunk
    BY <1>1, <1>3, <1>5 DEF LoopType
  <2> QED
    BY <1>0, <1>2, <1>3, <2>1, <2>2 DEF LoopType
<1>14. n.moved <= quantum_size \/ n.moved <= n.total
  <2>1. n.moved = l.moved + Length(l) /\ n.total = l.total
    BY <1>0
  <2> QED
    BY <1>1, <1>6, <1>7, <2>1
<1>15. ASSUME n.start % quantum_size = 0, n.total >= quantum_size
       PROVE  n.moved <= n.total /\ n.total - n.moved <= n.rounds * quantum_size
  <2>1. /\ l.start % quantum_size = 0 /\ l.total >= quantum_size
        /\ l.total - l.moved <= l.rounds * quantum_size
    BY <1>0, <1>15 DEF LoopOK
  <2>2. Length(l) <= l.total - l.moved
    BY <1>1, <1>6, <1>7, <2>1
  <2>3. Length(l) = quantum_size \/ Length(l) = l.total - l.moved
    BY <1>1, <1>6, <1>7, <2>1
  <2>4. n.rounds * quantum_size = (l.rounds - 1) * quantum_size
    BY <1>0
  <2>5. n.moved = l.moved + Length(l) /\ n.total = l.total
    BY <1>0
  <2> QED
    BY <1>1, <1>4, <1>6, <2>1, <2>2, <2>3, <2>4, <2>5
<1> QED
  BY <1>8, <1>9, <1>10, <1>11, <1>12, <1>13, <1>14, <1>15 DEF LoopOK, n

(* A write's loop fits the list that was created for it.                   *)
LEMMA WriteLoop ==
  ASSUME NEW count \in Nat \ {0}, NEW list \in Nat,
         NEW l, l = [list |-> list, at |-> 0, qoff |-> 0, chunk |-> quantum_size,
                     rounds |-> Rounds(count), moved |-> 0, total |-> count, count |-> count,
                     start |-> 0]
  PROVE  l \in LoopType /\ LoopOK(l, Quanta(count)) /\ Quanta(count) \in Nat \ {0}
<1> quantum_size \in Nat \ {0}
  BY Sizes
<1>1. /\ Rounds(count) = Quanta(count)
      /\ Rounds(count) \in Nat \ {0}
      /\ count <= Rounds(count) * quantum_size
      /\ (Rounds(count) - 1) * quantum_size < count
  BY DivUpBounds DEF Rounds, Quanta
<1>2. l \in LoopType
  BY <1>1 DEF LoopType
<1>3. Behind(0) = 0 /\ 0 % quantum_size = 0 /\ 0 * quantum_size = 0
  BY DEF Behind
<1>4. Rounds(count) * quantum_size \in Nat
  BY <1>1
<1>5. FirstRound(l)
  BY <1>3 DEF FirstRound
<1>6. /\ l.at + Behind(l.start) + l.rounds <= Quanta(count)
      /\ l.start + l.moved = (l.at + Behind(l.start)) * quantum_size + l.qoff
  BY <1>1, <1>3
<1> QED
  BY <1>1, <1>2, <1>4, <1>5, <1>6 DEF LoopOK

(* A read's loop fits the device's list as long as data_size does.         *)
LEMMA ReadLoop ==
  ASSUME NEW count \in Nat, NEW list \in Nat, NEW pos \in Nat, data_size \in Nat,
         heap[list].quanta \in Nat, pos < data_size,
         data_size <= heap[list].quanta * quantum_size,
         NEW l, l = [list |-> list, at |-> FirstQuantum(list, pos),
                     qoff |-> pos % quantum_size, chunk |-> quantum_size,
                     rounds |-> Rounds(BytesToRead(pos, count)), moved |-> 0,
                     total |-> BytesToRead(pos, count), count |-> count, start |-> pos]
  PROVE  l \in LoopType /\ LoopOK(l, heap[list].quanta)
<1> DEFINE quanta == heap[list].quanta
           total == BytesToRead(pos, count)
           R == Rounds(total)
           at == FirstQuantum(list, pos) + Behind(pos)
           qoff == pos % quantum_size
<1> quantum_size \in Nat \ {0}
  BY Sizes
<1>1. total \in Nat /\ total <= count /\ pos + total <= data_size
  BY DEF BytesToRead
<1>2. quanta * quantum_size \in Nat /\ pos < quanta * quantum_size
      /\ data_size <= quanta * quantum_size
  OBVIOUS
<1>3. /\ FirstQuantum(list, pos) \in Nat
      /\ pos = at * quantum_size + qoff
  BY <1>2, Begins
<1>4. qoff \in 0 .. quantum_size - 1 /\ at \in Nat
  BY <1>3, DivMod, BehindType, SMTT(60)
<1>5. R \in Nat /\ total <= R * quantum_size /\ (R > 0 => (R - 1) * quantum_size < total)
  BY <1>1, DivUpBounds DEF Rounds
<1>6. l \in LoopType
  BY <1>1, <1>3, <1>4, <1>5 DEF LoopType
<1>7. /\ l.moved = 0 /\ l.total = total /\ l.count = count /\ l.start = pos /\ l.qoff = qoff
      /\ l.rounds = R /\ l.chunk = quantum_size /\ l.at + Behind(l.start) = at
  OBVIOUS
<1>8. FirstRound(l)
  BY <1>7 DEF FirstRound
<1> HIDE DEF quanta, total, R, at, qoff
<1>9. at + R <= quanta
  <2>1. at * quantum_size \in Nat
    BY <1>4
  <2>2. CASE R = 0
    <3>1. at < quanta
      BY <1>2, <1>3, <1>4, <2>1, Cancel DEF quanta
    <3> QED
      BY <1>4, <2>2, <3>1 DEF quanta
  <2>3. CASE R > 0
    <3>1. (at + (R - 1)) * quantum_size = at * quantum_size + (R - 1) * quantum_size
      BY <1>4, <1>5, Distribute
    <3>2. (R - 1) * quantum_size \in Int /\ at + (R - 1) \in Int
      BY <1>4, <1>5
    <3>3. (at + (R - 1)) * quantum_size < quanta * quantum_size
      BY <1>1, <1>2, <1>3, <1>4, <1>5, <2>1, <2>3, <3>1, <3>2
    <3>4. at + (R - 1) < quanta
      BY <3>2, <3>3, Cancel DEF quanta
    <3> QED
      BY <1>4, <1>5, <3>4 DEF quanta
  <2> QED
    BY <1>5, <2>2, <2>3
<1>10. /\ l.start + l.moved = (l.at + Behind(l.start)) * quantum_size + l.qoff
       /\ l.start + l.moved <= quanta * quantum_size
       /\ l.rounds > 0 => (l.rounds - 1) * quantum_size < l.total - l.moved
       /\ l.total - l.moved <= l.rounds * quantum_size
  BY <1>1, <1>2, <1>3, <1>5, <1>7
<1>11. l.moved <= l.total /\ l.qoff < quantum_size /\ l.total <= l.count
       /\ l.at + Behind(l.start) + l.rounds <= quanta
  BY <1>1, <1>4, <1>7, <1>9
<1> QED
  BY <1>6, <1>8, <1>10, <1>11 DEF LoopOK, quanta
-----------------------------------------------------------------------------
(* Control and the lock.                                                   *)

LEMMA WriterMoves ==
  ASSUME ControlOK, NEW w \in Writers, NEW from, NEW to \in WriterPC, Move(w, from, to),
         sem' \in {0, 1}, signalled' \subseteq signalled, signals' = signals
  PROVE  ControlOK'
BY KernelAssumption DEF ControlOK, Move, Procs

LEMMA ReaderMoves ==
  ASSUME ControlOK, NEW r \in Readers, NEW from, NEW to \in ReaderPC, Move(r, from, to),
         sem' \in {0, 1}, signalled' \subseteq signalled, signals' = signals
  PROVE  ControlOK'
BY KernelAssumption DEF ControlOK, Move, Procs

LEMMA WriterControl ==
  ASSUME ControlOK, NEW w \in Writers, Writer(w)
  PROVE  ControlOK'
<1>0. sem \in {0, 1} /\ signalled \ {w} \subseteq signalled /\ signalled \subseteq signalled
  BY DEF ControlOK
<1>1. CASE OpenForWrite(w)
  BY <1>0, <1>1, WriterMoves DEF OpenForWrite, WriterPC
<1>2. CASE close_dev(w)
  BY <1>0, <1>2, WriterMoves DEF close_dev, WriterPC
<1>3. CASE WriteStart(w)
  BY <1>0, <1>3, WriterMoves DEF WriteStart, WriterPC
<1>4. CASE WriterDown(w)
  BY <1>0, <1>4, WriterMoves DEF WriterDown, DownInterruptible, Down, WriterPC
<1>5. CASE DownFails(w, "open_sem", "closed") \/ DownFails(w, "w_sem", "idle")
  BY <1>0, <1>5, WriterMoves DEF DownFails, Interrupted, Delivered, WriterPC
<1>6. CASE OpenTrim(w)
  BY <1>0, <1>6, WriterMoves DEF OpenTrim, UpAndReturn, up, Delivered, WriterPC
<1>7. CASE TooLarge(w)
  BY <1>0, <1>7, WriterMoves DEF TooLarge, UpAndReturn, up, Delivered, WriterPC
<1>8. CASE CreateFails(w)
  BY <1>0, <1>8, WriterMoves DEF CreateFails, UpAndReturn, up, Delivered, WriterPC
<1>9. CASE WriteCreate(w)
  BY <1>0, <1>9, WriterMoves DEF WriteCreate, WriterPC
<1>10. CASE CreateOopses(w)
  BY <1>0, <1>10, WriterMoves DEF CreateOopses, WriterPC
<1>11. CASE WriteRound(w)
  BY <1>0, <1>11, WriterMoves DEF WriteRound, WriterPC
<1>12. CASE WriteDone(w)
  BY <1>0, <1>12, WriterMoves DEF WriteDone, up, Delivered, WriterPC
<1>13. CASE WriteWake(w)
  BY <1>13, KernelAssumption
     DEF WriteWake, Delivered, Woken, Resumed, ControlOK, Procs, WriterPC, ReaderPC
<1> QED
  BY <1>1, <1>2, <1>3, <1>4, <1>5, <1>6, <1>7, <1>8, <1>9, <1>10, <1>11, <1>12, <1>13
     DEF Writer, WriterRuns

LEMMA ReaderControl ==
  ASSUME ControlOK, NEW r \in Readers, Reader(r)
  PROVE  ControlOK'
<1>0. sem \in {0, 1} /\ signalled \ {r} \subseteq signalled /\ signalled \subseteq signalled
  BY DEF ControlOK
<1>1. CASE OpenForRead(r)
  BY <1>0, <1>1, ReaderMoves DEF OpenForRead, ReaderPC
<1>2. CASE close_dev(r)
  BY <1>0, <1>2, ReaderMoves DEF close_dev, ReaderPC
<1>3. CASE SeekStart(r)
  BY <1>0, <1>3, ReaderMoves DEF SeekStart, ReaderPC
<1>4. CASE ReadStart(r)
  BY <1>0, <1>4, ReaderMoves DEF ReadStart, ReaderPC
<1>5. CASE ReaderDown(r)
  BY <1>0, <1>5, ReaderMoves DEF ReaderDown, DownInterruptible, Down, ReaderPC
<1>6. CASE DownFails(r, "seek_sem", "idle") \/ DownFails(r, "r_sem", "idle")
  BY <1>0, <1>6, ReaderMoves DEF DownFails, Interrupted, Delivered, ReaderPC
<1>7. CASE llseek_dev(r)
  BY <1>0, <1>7, ReaderMoves DEF llseek_dev, UpAndReturn, up, Delivered, ReaderPC
<1>8. CASE ReadWait(r)
  BY <1>0, <1>8, ReaderMoves DEF ReadWait, ReaderPC
<1>9. CASE ReadFails(r)
  BY <1>0, <1>9, ReaderMoves DEF ReadFails, UpAndReturn, up, Delivered, ReaderPC
<1>10. CASE ReadBegin(r)
  BY <1>0, <1>10, ReaderMoves DEF ReadBegin, ReaderPC
<1>11. CASE ReadRound(r)
  BY <1>0, <1>11, ReaderMoves DEF ReadRound, ReaderPC
<1>12. CASE ReadDone(r)
  BY <1>0, <1>12, ReaderMoves DEF ReadDone, UpAndReturn, up, Delivered, ReaderPC
<1> QED
  BY <1>1, <1>2, <1>3, <1>4, <1>5, <1>6, <1>7, <1>8, <1>9, <1>10, <1>11, <1>12
     DEF Reader, ReaderRuns

LEMMA SignalControl ==
  ASSUME ControlOK, NEW p \in Procs, SignalArrives(p)
  PROVE  ControlOK'
<1> USE DEF SignalArrives, Signal, Resumed, ControlOK, Procs, WriterPC, ReaderPC
<1>1. CASE pc[p] = "w_sleep"
  BY <1>1
<1>2. CASE pc[p] = "r_sleep"
  BY <1>2
<1>3. CASE pc[p] \notin {"w_sleep", "r_sleep"}
  BY <1>3
<1> QED
  BY <1>1, <1>2, <1>3

LEMMA ControlInvariant == Spec => []ControlOK
<1>1. Init => ControlOK
  BY DEF Init, initialization, ControlOK, Procs, WriterPC, ReaderPC
<1>2. ControlOK /\ [Next]_vars => ControlOK'
  <2>1. ASSUME ControlOK, UNCHANGED vars
        PROVE  ControlOK'
    BY <2>1 DEF ControlOK, vars
  <2> QED
    BY <2>1, WriterControl, ReaderControl, SignalControl DEF Next
<1> QED
  BY <1>1, <1>2, PTL DEF Spec

(* One process at a time is inside the lock, and every way out leaves it   *)
(* free.                                                                   *)
THEOREM LockExclusion == Spec => []SemExclusive
<1>1. Init => SemExclusive
  BY DEF Init, initialization, SemExclusive, Holding, Procs
<1>2. ControlOK /\ SemExclusive /\ [Next]_vars => SemExclusive'
  <2> SUFFICES ASSUME ControlOK, SemExclusive, [Next]_vars
               PROVE  SemExclusive'
    OBVIOUS
  <2> USE DEF ControlOK, SemExclusive, Holding
  <2>1. ASSUME NEW w \in Writers, Writer(w)
        PROVE  SemExclusive'
    <3> w \in Procs
      BY DEF Procs
    <3>1. CASE OpenForWrite(w) \/ close_dev(w) \/ WriteStart(w)
      BY <3>1 DEF OpenForWrite, close_dev, WriteStart, Move
    <3>2. CASE WriterDown(w)
      BY <3>2 DEF WriterDown, DownInterruptible, Down, Move
    <3>3. CASE DownFails(w, "open_sem", "closed") \/ DownFails(w, "w_sem", "idle")
      BY <3>3 DEF DownFails, Interrupted, Move
    <3>4. CASE OpenTrim(w) \/ TooLarge(w) \/ CreateFails(w)
      BY <3>4 DEF OpenTrim, TooLarge, CreateFails, UpAndReturn, up, Move
    <3>5. CASE WriteCreate(w) \/ CreateOopses(w) \/ WriteRound(w)
      BY <3>5, ZenonT(60) DEF WriteCreate, CreateOopses, WriteRound, Move
    <3>6. CASE WriteDone(w)
      BY <3>6 DEF WriteDone, up, Move
    <3>7. CASE WriteWake(w)
      BY <3>7 DEF WriteWake, Woken, Resumed
    <3> QED
      BY <2>1, <3>1, <3>2, <3>3, <3>4, <3>5, <3>6, <3>7 DEF Writer, WriterRuns
  <2>2. ASSUME NEW r \in Readers, Reader(r)
        PROVE  SemExclusive'
    <3> r \in Procs
      BY DEF Procs
    <3>1. CASE OpenForRead(r) \/ close_dev(r) \/ SeekStart(r) \/ ReadStart(r) \/ ReadWait(r)
      BY <3>1 DEF OpenForRead, close_dev, SeekStart, ReadStart, ReadWait, Move
    <3>2. CASE ReaderDown(r)
      BY <3>2 DEF ReaderDown, DownInterruptible, Down, Move
    <3>3. CASE DownFails(r, "seek_sem", "idle") \/ DownFails(r, "r_sem", "idle")
      BY <3>3 DEF DownFails, Interrupted, Move
    <3>4. CASE llseek_dev(r) \/ ReadFails(r) \/ ReadDone(r)
      BY <3>4 DEF llseek_dev, ReadFails, ReadDone, UpAndReturn, up, Move
    <3>5. CASE ReadBegin(r) \/ ReadRound(r)
      BY <3>5 DEF ReadBegin, ReadRound, Move
    <3> QED
      BY <2>2, <3>1, <3>2, <3>3, <3>4, <3>5 DEF Reader, ReaderRuns
  <2>3. ASSUME NEW p \in Procs, SignalArrives(p)
        PROVE  SemExclusive'
    BY <2>3 DEF Signal, SignalArrives, Resumed, Blocking
  <2>4. CASE UNCHANGED vars
    BY <2>4 DEF vars
  <2> QED
    BY <2>1, <2>2, <2>3, <2>4 DEF Next
<1> QED
  BY <1>1, <1>2, ControlInvariant, PTL DEF Spec
-----------------------------------------------------------------------------
(* The storage and the loops.                                              *)

(* The device's list was not freed, and it holds what data_size promises,  *)
(* unless a write is filling it.                                           *)
StorageOK ==
  qset # 0 =>
    /\ heap[qset].live
    /\ (\A w \in Writers : pc[w] # "w_copy") => data_size <= heap[qset].quanta * quantum_size

LoopsOK ==
  /\ \A p \in Procs : Copying(p) =>
       /\ loop[p].list = qset
       /\ qset # 0
       /\ LoopOK(loop[p], heap[qset].quanta)
  /\ \A w \in Writers : pc[w] = "w_copy" => loop[w].start = 0
  /\ \A r \in Readers : pc[r] = "r_copy" =>
       f_pos[r] = loop[r].start + loop[r].moved /\ loop[r].start < data_size

DataInv == DataOK /\ StorageOK /\ LoopsOK

(* Steps outside the lock and at its entry.                                *)
Quiet ==
  /\ UNCHANGED <<driver, storage, f_pos, loop, replaced>>
  /\ \A p \in Procs : \A at \in {"w_copy", "r_copy"} : pc'[p] = at <=> pc[p] = at

LEMMA QuietKeepsData == DataInv /\ Quiet => DataInv'
<1> SUFFICES ASSUME DataInv, Quiet PROVE DataInv'
  OBVIOUS
<1>1. /\ driver' = driver /\ heap' = heap /\ qset' = qset /\ data_size' = data_size
      /\ f_pos' = f_pos /\ loop' = loop /\ replaced' = replaced
  BY DEF Quiet, storage
<1>2. \A p \in Procs : /\ pc'[p] = "w_copy" <=> pc[p] = "w_copy"
                       /\ pc'[p] = "r_copy" <=> pc[p] = "r_copy"
  BY DEF Quiet
<1>3. \A p \in Procs : Copying(p)' <=> Copying(p)
  BY <1>2 DEF Copying
<1>4. Writers \subseteq Procs /\ Readers \subseteq Procs
  BY DEF Procs
<1>5. DataOK'
  BY <1>1 DEF DataInv, DataOK
<1>6. StorageOK'
  BY <1>1, <1>2, <1>4 DEF DataInv, StorageOK
<1>7. \A p \in Procs : Copying(p)' =>
        loop'[p].list = qset' /\ qset' # 0 /\ LoopOK(loop[p], heap[qset].quanta)'
  <2> SUFFICES ASSUME NEW p \in Procs, Copying(p)
               PROVE  loop'[p].list = qset' /\ qset' # 0 /\ LoopOK(loop[p], heap[qset].quanta)'
    BY <1>3
  <2>1. loop[p].list = qset /\ qset # 0 /\ LoopOK(loop[p], heap[qset].quanta)
    BY DEF DataInv, LoopsOK
  <2>2. LoopOK(loop[p], heap[qset].quanta)' = LoopOK(loop[p], heap[qset].quanta)
    BY <1>1 DEF LoopOK, FirstRound, LaterRound, Behind, item
  <2> QED
    BY <1>1, <2>1, <2>2
<1>8. LoopsOK'
  BY <1>1, <1>2, <1>4, <1>7 DEF DataInv, LoopsOK
<1> QED
  BY <1>5, <1>6, <1>8 DEF DataInv

(* While one process is inside the lock, no other one is.                  *)
LEMMA Alone ==
  ASSUME ControlOK, SemExclusive, NEW p \in Procs, Holding(p), NEW q \in Procs, q # p
  PROVE  ~Holding(q)
BY DEF SemExclusive

(* When it leaves, nobody is.                                              *)
LEMMA LockLeft ==
  ASSUME ControlOK, SemExclusive, NEW p \in Procs, Holding(p), NEW from, NEW to, Move(p, from, to),
         to \notin {"w_copy", "r_copy"}
  PROVE  /\ LoopsOK'
         /\ \A w \in Writers : pc'[w] # "w_copy"
<1>1. \A q \in Procs : pc'[q] \notin {"w_copy", "r_copy"}
  BY Alone DEF Move, Holding, ControlOK
<1>2. \A q \in Procs : ~Copying(q)'
  BY <1>1 DEF Copying
<1> QED
  BY <1>1, <1>2 DEF LoopsOK, Procs

(* A process inside the lock that is not writing sees data_size fit.       *)
LEMMA DataFits ==
  ASSUME ControlOK, SemExclusive, DataInv, NEW p \in Procs, Holding(p), pc[p] # "w_copy", qset # 0
  PROVE  heap[qset].live /\ data_size <= heap[qset].quanta * quantum_size
<1>1. \A w \in Writers : pc[w] # "w_copy"
  BY Alone DEF Holding, Procs
<1> QED
  BY <1>1 DEF DataInv, StorageOK

LEMMA HeapType ==
  ASSUME DataOK
  PROVE  /\ Len(heap) \in Nat /\ DOMAIN heap = 1 .. Len(heap)
         /\ \A i \in DOMAIN heap : heap[i] \in [quanta : Nat, filled : Nat, live : BOOLEAN]
         /\ qset # 0 => qset \in DOMAIN heap
<1> DEFINE List == [quanta : Nat, filled : Nat, live : BOOLEAN]
<1>1. heap \in Seq(List) /\ qset \in 0 .. Len(heap)
  BY DEF DataOK
<1> HIDE DEF List
<1>2. /\ Len(heap) \in Nat /\ DOMAIN heap = 1 .. Len(heap)
      /\ \A i \in DOMAIN heap : heap[i] \in List
      /\ qset # 0 => qset \in DOMAIN heap
  BY <1>1
<1> QED
  BY <1>2 DEF List

LEMMA Appended ==
  ASSUME DataOK, NEW l \in [quanta : Nat, filled : Nat, live : BOOLEAN], heap' = Append(heap, l)
  PROVE  /\ heap' \in Seq([quanta : Nat, filled : Nat, live : BOOLEAN])
         /\ Len(heap') = Len(heap) + 1
         /\ heap'[Len(heap')] = l
         /\ \A i \in DOMAIN heap : heap'[i] = heap[i]
         /\ Len(heap) \in Nat
<1> DEFINE List == [quanta : Nat, filled : Nat, live : BOOLEAN]
<1>1. heap \in Seq(List) /\ l \in List
  BY DEF DataOK
<1> HIDE DEF List
<1>2. /\ Append(heap, l) \in Seq(List)
      /\ Len(Append(heap, l)) = Len(heap) + 1
      /\ Append(heap, l)[Len(heap) + 1] = l
      /\ \A i \in 1 .. Len(heap) : Append(heap, l)[i] = heap[i]
      /\ Len(heap) \in Nat /\ DOMAIN heap = 1 .. Len(heap)
  BY <1>1
<1> QED
  BY <1>2 DEF List

(* Returns from inside the lock that do not touch the storage.             *)
LEMMA ReturnKeepsData ==
  ASSUME ControlOK, SemExclusive, DataInv, NEW p \in Procs, Holding(p), pc[p] # "w_copy",
         NEW from, UpAndReturn(p, from, "idle"), UNCHANGED <<storage, replaced>>,
         f_pos' \in [Readers -> Nat]
  PROVE  DataInv'
<1>1. LoopsOK' /\ \A w \in Writers : pc'[w] # "w_copy"
  BY LockLeft DEF UpAndReturn
<1>2. Idle \in LoopType
  BY DEF Idle, LoopType
<1>3. DataOK'
  BY <1>2 DEF DataInv, DataOK, UpAndReturn, storage
<1>4. StorageOK'
  BY DataFits DEF StorageOK, storage
<1> QED
  BY <1>1, <1>3, <1>4 DEF DataInv

LEMMA OpenTrimKeepsData ==
  ASSUME ControlOK, SemExclusive, DataInv, NEW w \in Writers, OpenTrim(w)
  PROVE  DataInv'
<1>1. w \in Procs /\ Holding(w)
  BY DEF Procs, Holding, OpenTrim, UpAndReturn, Move
<1>2. LoopsOK'
  BY <1>1, LockLeft DEF OpenTrim, UpAndReturn
<1>3. StorageOK'
  BY DEF OpenTrim, trim_dev, TrimAddress, StorageOK
<1>4. heap' \in Seq([quanta : Nat, filled : Nat, live : BOOLEAN]) /\ Len(heap') = Len(heap)
  <2> DEFINE List == [quanta : Nat, filled : Nat, live : BOOLEAN]
             after == [l \in DOMAIN heap |-> [heap[l] EXCEPT !.live = StillLive(l)]]
  <2>1. /\ Len(heap) \in Nat /\ DOMAIN heap = 1 .. Len(heap)
        /\ \A i \in DOMAIN heap : heap[i] \in List
    BY HeapType DEF DataInv
  <2>2. \A i \in DOMAIN heap : StillLive(i) \in BOOLEAN
    BY <2>1 DEF StillLive
  <2>3. \A i \in DOMAIN heap : [heap[i] EXCEPT !.live = StillLive(i)] \in List
    BY <2>1, <2>2
  <2>4. heap' = after
    BY DEF OpenTrim, trim_dev
  <2>5. \A i \in 1 .. Len(heap) : after[i] \in List
    BY <2>1, <2>3
  <2> HIDE DEF List
  <2>6. after \in [1 .. Len(heap) -> List]
    BY <2>1, <2>5
  <2> HIDE DEF after
  <2>7. after \in Seq(List) /\ Len(after) = Len(heap)
    BY <2>1, <2>6
  <2> QED
    BY <2>4, <2>7 DEF List
<1>5. DataOK'
  <2>1. Idle \in LoopType /\ 0 \in 0 .. Len(heap)
    BY HeapType DEF Idle, LoopType, DataInv
  <2> QED
    BY <1>4, <2>1 DEF DataInv, DataOK, OpenTrim, UpAndReturn, trim_dev, TrimAddress
<1> QED
  BY <1>2, <1>3, <1>5 DEF DataInv

LEMMA WriteCreateKeepsData ==
  ASSUME ControlOK, SemExclusive, DataInv, NEW w \in Writers, WriteCreate(w)
  PROVE  DataInv'
<1>1. w \in Procs /\ Holding(w) /\ w \notin Readers
  BY KernelAssumption DEF Procs, Holding, WriteCreate, Move
<1>2. PICK count \in Counts :
        /\ 0 < count
        /\ heap' = Append(heap, [quanta |-> Quanta(count), filled |-> 0, live |-> TRUE])
        /\ loop' = [loop EXCEPT ![w] =
             [list |-> Len(heap'), at |-> 0, qoff |-> 0, chunk |-> quantum_size,
              rounds |-> Rounds(count), moved |-> 0, total |-> count, count |-> count,
              start |-> 0]]
  BY DEF WriteCreate
<1>3. /\ pc[w] = "w_create" /\ pc' = [pc EXCEPT ![w] = "w_copy"]
      /\ qset' = Len(heap')
      /\ replaced' = (replaced \/ qset # 0)
      /\ driver' = driver /\ data_size' = data_size /\ f_pos' = f_pos
  BY DEF WriteCreate, Move
<1>4. count \in Nat \ {0}
  BY <1>2, ScullAssumption
<1>5. Quanta(count) \in Nat
  BY <1>4, DivUpBounds, Sizes DEF Quanta
<1>6. /\ heap' \in Seq([quanta : Nat, filled : Nat, live : BOOLEAN])
      /\ Len(heap') = Len(heap) + 1 /\ Len(heap) \in Nat
      /\ heap'[Len(heap')] = [quanta |-> Quanta(count), filled |-> 0, live |-> TRUE]
  BY <1>2, <1>5, Appended DEF DataInv
<1>7. heap'[qset'].quanta = Quanta(count) /\ heap'[qset'].live
      /\ qset' \in 0 .. Len(heap') /\ qset' # 0 /\ qset' \in Nat
  BY <1>3, <1>6
<1>8. loop'[w] = [list |-> qset', at |-> 0, qoff |-> 0, chunk |-> quantum_size,
                  rounds |-> Rounds(count), moved |-> 0, total |-> count, count |-> count,
                  start |-> 0]
  BY <1>1, <1>2, <1>3 DEF DataInv, DataOK
<1>9. loop'[w] \in LoopType /\ LoopOK(loop'[w], Quanta(count))
  BY <1>4, <1>7, <1>8, WriteLoop
<1>10. DataOK'
  <2>1. loop' \in [Procs -> LoopType]
    BY <1>1, <1>2, <1>8, <1>9 DEF DataInv, DataOK
  <2>2. replaced' \in BOOLEAN
    BY <1>3 DEF DataInv, DataOK
  <2> QED
    BY <1>3, <1>6, <1>7, <2>1, <2>2 DEF DataInv, DataOK
<1>11. \A q \in Procs : q # w => ~Copying(q)'
  BY <1>1, <1>3, Alone DEF Copying, Holding, ControlOK
<1>12. StorageOK'
  BY <1>1, <1>3, <1>7 DEF StorageOK, ControlOK
<1>13. LoopsOK'
  <2>1. \A p \in Procs : Copying(p)' =>
          loop'[p].list = qset' /\ qset' # 0 /\ LoopOK(loop[p], heap[qset].quanta)'
    <3> SUFFICES LoopOK(loop[w], heap[qset].quanta)'
      BY <1>7, <1>8, <1>11
    <3> QED
      BY <1>7, <1>9 DEF LoopOK, FirstRound, LaterRound, Behind, item
  <2>2. \A v \in Writers : pc'[v] = "w_copy" => loop'[v].start = 0
    BY <1>8, <1>11 DEF Copying, Procs
  <2>3. \A r \in Readers : pc'[r] # "r_copy"
    BY <1>1, <1>11 DEF Copying, Procs
  <2> QED
    BY <2>1, <2>2, <2>3 DEF LoopsOK
<1> QED
  BY <1>10, <1>12, <1>13 DEF DataInv

LEMMA CreateFailsKeepsData ==
  ASSUME ControlOK, SemExclusive, DataInv, NEW w \in Writers, CreateFails(w)
  PROVE  DataInv'
<1>1. w \in Procs /\ Holding(w)
  BY DEF Procs, Holding, CreateFails, UpAndReturn, Move
<1>2. LoopsOK'
  BY <1>1, LockLeft DEF CreateFails, UpAndReturn
<1>3. qset' = 0
  BY DEF CreateFails
<1>4. \/ heap' = heap
      \/ heap' = Append(heap, [quanta |-> 0, filled |-> 0, live |-> TRUE])
  BY DEF CreateFails
<1>5. heap' \in Seq([quanta : Nat, filled : Nat, live : BOOLEAN]) /\ Len(heap') \in Nat
  <2>1. CASE heap' = heap
    BY <2>1, HeapType DEF DataInv, DataOK
  <2>2. CASE heap' = Append(heap, [quanta |-> 0, filled |-> 0, live |-> TRUE])
    <3>1. /\ DataOK
          /\ [quanta |-> 0, filled |-> 0, live |-> TRUE]
               \in [quanta : Nat, filled : Nat, live : BOOLEAN]
      BY DEF DataInv
    <3>2. /\ heap' \in Seq([quanta : Nat, filled : Nat, live : BOOLEAN])
          /\ Len(heap') = Len(heap) + 1 /\ Len(heap) \in Nat
      BY <2>2, <3>1, Appended
    <3> QED
      BY <3>2
  <2> QED
    BY <1>4, <2>1, <2>2
<1>6. DataOK'
  <2>1. Idle \in LoopType
    BY DEF Idle, LoopType
  <2>2. /\ replaced' = (replaced \/ qset # 0 \/ heap' # heap)
        /\ driver' = driver /\ data_size' = data_size /\ f_pos' = f_pos
        /\ loop' = [loop EXCEPT ![w] = Idle]
    BY DEF CreateFails, UpAndReturn
  <2>3. replaced' \in BOOLEAN
    BY <2>2
  <2>4. qset' \in 0 .. Len(heap')
    BY <1>3, <1>5
  <2>5. loop' \in [Procs -> LoopType]
    BY <2>1, <2>2 DEF DataInv, DataOK
  <2> QED
    BY <1>5, <2>2, <2>3, <2>4, <2>5 DEF DataInv, DataOK
<1> QED
  BY <1>2, <1>3, <1>6 DEF DataInv, StorageOK

LEMMA CreateOopsesKeepsData ==
  ASSUME ControlOK, SemExclusive, DataInv, NEW w \in Writers, CreateOopses(w)
  PROVE  DataInv'
<1>1. w \in Procs /\ Holding(w) /\ pc[w] # "w_copy"
  BY DEF Procs, Holding, CreateOopses, Move
<1>2. LoopsOK'
  BY <1>1, LockLeft DEF CreateOopses
<1>3. /\ heap' = Append(heap, [quanta |-> 0, filled |-> 0, live |-> TRUE])
      /\ replaced' = TRUE /\ driver' = driver /\ qset' = qset /\ data_size' = data_size
      /\ f_pos' = f_pos /\ loop' = loop
  BY DEF CreateOopses
<1>4. /\ heap' \in Seq([quanta : Nat, filled : Nat, live : BOOLEAN])
      /\ Len(heap') = Len(heap) + 1 /\ Len(heap) \in Nat
      /\ \A i \in DOMAIN heap : heap'[i] = heap[i]
  BY <1>3, Appended DEF DataInv
<1>5. DataOK'
  BY <1>3, <1>4 DEF DataInv, DataOK
<1>6. qset # 0 => heap'[qset] = heap[qset]
  BY <1>4, HeapType DEF DataInv
<1>7. StorageOK'
  BY <1>1, <1>3, <1>6, DataFits DEF StorageOK
<1> QED
  BY <1>2, <1>5, <1>7 DEF DataInv

LEMMA WriteRoundKeepsData ==
  ASSUME ControlOK, SemExclusive, DataInv, NEW w \in Writers, WriteRound(w)
  PROVE  DataInv'
<1> DEFINE l == loop[w]
           List == [quanta : Nat, filled : Nat, live : BOOLEAN]
<1>1. w \in Procs /\ Holding(w) /\ w \notin Readers
  BY KernelAssumption DEF Procs, Holding, WriteRound, Move
<1>2. /\ pc[w] = "w_copy" /\ pc' = pc
      /\ heap' = [heap EXCEPT ![l.list].filled = @ + Length(l)]
      /\ loop' = [loop EXCEPT ![w] = Round(l)]
      /\ driver' = driver /\ qset' = qset /\ data_size' = data_size /\ f_pos' = f_pos
      /\ replaced' = replaced /\ l.rounds > 0
  BY DEF WriteRound, Move, ControlOK
<1>3. l \in LoopType
  BY <1>1 DEF DataInv, DataOK
<1>4. l.list = qset /\ qset # 0 /\ LoopOK(l, heap[qset].quanta) /\ l.start = 0
  BY <1>1, <1>2 DEF DataInv, LoopsOK, Copying
<1>5. /\ Len(heap) \in Nat /\ DOMAIN heap = 1 .. Len(heap)
      /\ \A i \in DOMAIN heap : heap[i] \in List
      /\ qset \in DOMAIN heap
  BY <1>4, HeapType DEF DataInv
<1>6. heap[qset].quanta \in Nat
  BY <1>5
<1>7. Length(l) \in Nat
  BY <1>2, <1>3, <1>4, <1>6, LengthBounds, Sizes
<1>8. Round(l) \in LoopType /\ LoopOK(Round(l), heap[qset].quanta)
      /\ Round(l).list = l.list /\ Round(l).start = l.start
  BY <1>2, <1>3, <1>4, <1>6, RoundType, RoundKeepsLoop
<1>9. /\ heap' \in Seq(List) /\ Len(heap') = Len(heap)
      /\ heap'[qset].quanta = heap[qset].quanta /\ heap'[qset].live = heap[qset].live
  <2> DEFINE new == [heap[qset] EXCEPT !.filled = @ + Length(l)]
  <2>1. new \in List /\ new.quanta = heap[qset].quanta /\ new.live = heap[qset].live
    BY <1>5, <1>7
  <2>2. heap' = [heap EXCEPT ![qset] = new]
    BY <1>2, <1>4
  <2> HIDE DEF new, List
  <2>3. heap \in Seq(List)
    BY DEF DataInv, DataOK, List
  <2>4. /\ [heap EXCEPT ![qset] = new] \in Seq(List)
        /\ Len([heap EXCEPT ![qset] = new]) = Len(heap)
        /\ [heap EXCEPT ![qset] = new][qset] = new
    BY <1>5, <2>1, <2>3
  <2> QED
    BY <2>1, <2>2, <2>4
<1> HIDE DEF l, List
<1>10. DataOK'
  <2>1. loop' \in [Procs -> LoopType]
    BY <1>2, <1>8 DEF DataInv, DataOK
  <2> QED
    BY <1>2, <1>9, <2>1 DEF DataInv, DataOK, List
<1>11. StorageOK'
  BY <1>2, <1>9 DEF DataInv, StorageOK
<1>12. \A q \in Procs : q # w => ~Copying(q)'
  BY <1>1, <1>2, Alone DEF Copying, Holding, ControlOK
<1>13. LoopsOK'
  <2>0. loop'[w] = Round(l)
    BY <1>1, <1>2 DEF DataInv, DataOK
  <2>1. \A p \in Procs : Copying(p)' =>
          loop'[p].list = qset' /\ qset' # 0 /\ LoopOK(loop[p], heap[qset].quanta)'
    <3> SUFFICES LoopOK(loop[w], heap[qset].quanta)'
      BY <1>2, <1>4, <1>8, <1>12, <2>0
    <3> QED
      BY <1>2, <1>8, <1>9, <2>0 DEF LoopOK, FirstRound, LaterRound, Behind, item
  <2>2. \A v \in Writers : pc'[v] = "w_copy" => loop'[v].start = 0
    BY <1>4, <1>8, <1>12, <2>0 DEF Copying, Procs
  <2>3. \A r \in Readers : pc'[r] # "r_copy"
    BY <1>1, <1>12 DEF Copying, Procs
  <2> QED
    BY <2>1, <2>2, <2>3 DEF LoopsOK
<1> QED
  BY <1>10, <1>11, <1>13 DEF DataInv

LEMMA WriteDoneKeepsData ==
  ASSUME ControlOK, SemExclusive, DataInv, NEW w \in Writers, WriteDone(w)
  PROVE  DataInv'
<1>1. w \in Procs /\ Holding(w) /\ pc[w] = "w_copy"
  BY DEF Procs, Holding, WriteDone, Move
<1>2. LoopsOK'
  BY <1>1, LockLeft DEF WriteDone
<1>3. /\ loop[w] \in LoopType /\ LoopOK(loop[w], heap[qset].quanta)
      /\ loop[w].start = 0 /\ qset # 0
  BY <1>1 DEF DataInv, DataOK, LoopsOK, Copying
<1>4. loop[w].moved \in Nat /\ loop[w].moved <= heap[qset].quanta * quantum_size
  BY <1>3 DEF LoopOK, LoopType
<1>5. data_size' = loop[w].moved /\ heap' = heap /\ qset' = qset
  BY DEF WriteDone
<1>6. StorageOK'
  BY <1>4, <1>5 DEF DataInv, StorageOK
<1>7. DataOK'
  <2>1. Idle \in LoopType
    BY DEF Idle, LoopType
  <2> QED
    BY <1>4, <2>1 DEF DataInv, DataOK, WriteDone
<1> QED
  BY <1>2, <1>6, <1>7 DEF DataInv

LEMMA ReadBeginKeepsData ==
  ASSUME ControlOK, SemExclusive, DataInv, NEW r \in Readers, ReadBegin(r)
  PROVE  DataInv'
<1> DEFINE quanta == heap[qset].quanta
<1>1. r \in Procs /\ Holding(r) /\ pc[r] = "r_start" /\ r \notin Writers
  BY KernelAssumption DEF Procs, Holding, ReadBegin, Move
<1>2. PICK count \in Counts :
        loop' = [loop EXCEPT ![r] =
          [list |-> qset, at |-> FirstQuantum(qset, f_pos[r]),
           qoff |-> f_pos[r] % quantum_size, chunk |-> quantum_size,
           rounds |-> Rounds(BytesToRead(f_pos[r], count)), moved |-> 0,
           total |-> BytesToRead(f_pos[r], count), count |-> count, start |-> f_pos[r]]]
  BY DEF ReadBegin
<1>3. /\ pc' = [pc EXCEPT ![r] = "r_copy"]
      /\ driver' = driver /\ heap' = heap /\ qset' = qset /\ data_size' = data_size
      /\ f_pos' = f_pos /\ replaced' = replaced
  BY DEF ReadBegin, Move, storage
<1>4. count \in Nat /\ f_pos[r] \in Nat /\ data_size \in Nat
  BY ScullAssumption DEF DataInv, DataOK
<1>5. f_pos[r] < data_size /\ qset # 0
  BY <1>4 DEF ReadBegin, NothingThere
<1>6. quanta \in Nat /\ qset \in Nat
  BY <1>5, HeapType DEF DataInv
<1>7. data_size <= quanta * quantum_size
  BY <1>1, <1>5, DataFits
<1>8. loop'[r] = [list |-> qset, at |-> FirstQuantum(qset, f_pos[r]),
                  qoff |-> f_pos[r] % quantum_size, chunk |-> quantum_size,
                  rounds |-> Rounds(BytesToRead(f_pos[r], count)), moved |-> 0,
                  total |-> BytesToRead(f_pos[r], count), count |-> count, start |-> f_pos[r]]
  BY <1>1, <1>2 DEF DataInv, DataOK
<1>9. loop'[r] \in LoopType /\ LoopOK(loop'[r], quanta)
  BY <1>4, <1>5, <1>6, <1>7, <1>8, ReadLoop
<1>10. DataOK'
  <2>1. loop' \in [Procs -> LoopType]
    BY <1>1, <1>2, <1>8, <1>9 DEF DataInv, DataOK
  <2> QED
    BY <1>3, <2>1 DEF DataInv, DataOK
<1>11. \A q \in Procs : q # r => ~Copying(q)'
  BY <1>1, <1>3, Alone DEF Copying, Holding, ControlOK
<1>12. StorageOK'
  <2>1. heap[qset].live
    BY <1>1, <1>5, DataFits
  <2> QED
    BY <1>3, <1>7, <2>1 DEF StorageOK
<1>13. LoopsOK'
  <2>1. \A p \in Procs : Copying(p)' =>
          loop'[p].list = qset' /\ qset' # 0 /\ LoopOK(loop[p], heap[qset].quanta)'
    <3> SUFFICES LoopOK(loop[r], heap[qset].quanta)'
      BY <1>3, <1>5, <1>8, <1>11
    <3> QED
      BY <1>3, <1>9 DEF LoopOK, FirstRound, LaterRound, Behind, item
  <2>2. \A w \in Writers : pc'[w] # "w_copy"
    BY <1>1, <1>11 DEF Copying, Procs
  <2>3. loop'[r].start = f_pos'[r] /\ loop'[r].moved = 0 /\ f_pos'[r] \in Nat
    BY <1>3, <1>4, <1>8
  <2>4. f_pos'[r] = loop'[r].start + loop'[r].moved /\ loop'[r].start < data_size'
    BY <1>3, <1>5, <2>3
  <2>5. \A q \in Readers : pc'[q] = "r_copy" => q = r
    BY <1>11 DEF Copying, Procs
  <2> QED
    BY <2>1, <2>2, <2>4, <2>5 DEF LoopsOK
<1> QED
  BY <1>10, <1>12, <1>13 DEF DataInv

LEMMA ReadRoundKeepsData ==
  ASSUME ControlOK, SemExclusive, DataInv, NEW r \in Readers, ReadRound(r)
  PROVE  DataInv'
<1> DEFINE l == loop[r]
<1>1. r \in Procs /\ Holding(r) /\ pc[r] = "r_copy" /\ r \notin Writers
  BY KernelAssumption DEF Procs, Holding, ReadRound, Move
<1>2. /\ pc' = pc
      /\ loop' = [loop EXCEPT ![r] = Round(l)]
      /\ f_pos' = [f_pos EXCEPT ![r] = @ + Length(l)]
      /\ driver' = driver /\ heap' = heap /\ qset' = qset /\ data_size' = data_size
      /\ replaced' = replaced /\ l.rounds > 0
  BY DEF ReadRound, Move, ControlOK, storage
<1>3. l \in LoopType /\ f_pos[r] \in Nat
  BY <1>1 DEF DataInv, DataOK
<1>4. /\ l.list = qset /\ qset # 0 /\ LoopOK(l, heap[qset].quanta)
      /\ f_pos[r] = l.start + l.moved /\ l.start < data_size
  BY <1>1 DEF DataInv, LoopsOK, Copying
<1>5. heap[qset].quanta \in Nat
  BY <1>4, HeapType DEF DataInv
<1>6. Length(l) \in Nat
  BY <1>2, <1>3, <1>4, <1>5, LengthBounds, Sizes
<1>7. /\ Round(l) \in LoopType /\ LoopOK(Round(l), heap[qset].quanta)
      /\ Round(l).list = l.list /\ Round(l).start = l.start
      /\ Round(l).moved = l.moved + Length(l)
  BY <1>2, <1>3, <1>4, <1>5, RoundType, RoundKeepsLoop
<1>8. f_pos'[r] = f_pos[r] + Length(l) /\ loop'[r] = Round(l)
  BY <1>1, <1>2 DEF DataInv, DataOK
<1>9. DataOK'
  <2>1. loop' \in [Procs -> LoopType]
    BY <1>2, <1>7 DEF DataInv, DataOK
  <2>2. f_pos' \in [Readers -> Nat]
    BY <1>2, <1>3, <1>6 DEF DataInv, DataOK
  <2> QED
    BY <1>2, <2>1, <2>2 DEF DataInv, DataOK
<1>10. StorageOK'
  BY <1>2 DEF DataInv, StorageOK
<1>11. \A q \in Procs : q # r => ~Copying(q)'
  BY <1>1, <1>2, Alone DEF Copying, Holding, ControlOK
<1>12. LoopsOK'
  <2>1. \A p \in Procs : Copying(p)' =>
          loop'[p].list = qset' /\ qset' # 0 /\ LoopOK(loop[p], heap[qset].quanta)'
    <3> SUFFICES LoopOK(loop[r], heap[qset].quanta)'
      BY <1>2, <1>4, <1>7, <1>8, <1>11
    <3> QED
      BY <1>2, <1>7, <1>8 DEF LoopOK, FirstRound, LaterRound, Behind, item
  <2>2. \A w \in Writers : pc'[w] # "w_copy"
    BY <1>1, <1>11 DEF Copying, Procs
  <2>3. f_pos'[r] = loop'[r].start + loop'[r].moved /\ loop'[r].start < data_size'
    <3>1. l.start \in Nat /\ l.moved \in Nat
      BY <1>3 DEF LoopType
    <3> HIDE DEF l
    <3> QED
      BY <1>2, <1>4, <1>6, <1>7, <1>8, <3>1
  <2>4. \A q \in Readers : pc'[q] = "r_copy" => q = r
    BY <1>11 DEF Copying, Procs
  <2> QED
    BY <2>1, <2>2, <2>3, <2>4 DEF LoopsOK
<1> QED
  BY <1>9, <1>10, <1>12 DEF DataInv

LEMMA ReadDoneKeepsData ==
  ASSUME ControlOK, SemExclusive, DataInv, NEW r \in Readers, ReadDone(r)
  PROVE  DataInv'
<1>1. r \in Procs /\ Holding(r) /\ pc[r] = "r_copy"
  BY DEF Procs, Holding, ReadDone, UpAndReturn, Move
<1>2. LoopsOK'
  BY <1>1, LockLeft DEF ReadDone, UpAndReturn
<1>3. /\ LoopOK(loop[r], heap[qset].quanta) /\ qset # 0
      /\ f_pos[r] = loop[r].start + loop[r].moved /\ f_pos[r] \in Nat
  BY <1>1 DEF DataInv, DataOK, LoopsOK, Copying
<1>4. f_pos[r] <= heap[qset].quanta * quantum_size
  BY <1>3 DEF LoopOK
<1>5. data_size' = f_pos[r] /\ heap' = heap /\ qset' = qset
  BY DEF ReadDone
<1>6. StorageOK'
  BY <1>4, <1>5 DEF DataInv, StorageOK
<1>7. DataOK'
  <2>1. Idle \in LoopType
    BY DEF Idle, LoopType
  <2> QED
    BY <1>3, <2>1 DEF DataInv, DataOK, ReadDone, UpAndReturn
<1> QED
  BY <1>2, <1>6, <1>7 DEF DataInv

LEMMA WriterKeepsData ==
  ASSUME ControlOK, SemExclusive, DataInv, NEW w \in Writers, Writer(w)
  PROVE  DataInv'
<1>0. w \in Procs /\ w \notin Readers
  BY KernelAssumption DEF Procs
<1>1. CASE OpenForWrite(w) \/ close_dev(w) \/ WriteStart(w)
  BY <1>0, <1>1, QuietKeepsData DEF OpenForWrite, close_dev, WriteStart, Move, Quiet, ControlOK
<1>2. CASE WriterDown(w)
  BY <1>0, <1>2, QuietKeepsData DEF WriterDown, DownInterruptible, Down, Move, Quiet, ControlOK
<1>3. CASE DownFails(w, "open_sem", "closed") \/ DownFails(w, "w_sem", "idle")
  BY <1>0, <1>3, QuietKeepsData DEF DownFails, Interrupted, Move, Quiet, ControlOK
<1>4. CASE WriteWake(w)
  BY <1>0, <1>4, QuietKeepsData DEF WriteWake, Woken, Resumed, Quiet, ControlOK
<1>5. CASE TooLarge(w)
  <2>1. Holding(w) /\ pc[w] # "w_copy" /\ f_pos \in [Readers -> Nat]
    BY <1>5 DEF TooLarge, UpAndReturn, Move, Holding, DataInv, DataOK
  <2> QED
    BY <1>0, <1>5, <2>1, ReturnKeepsData DEF TooLarge
<1> QED
  BY <1>1, <1>2, <1>3, <1>4, <1>5, OpenTrimKeepsData, WriteCreateKeepsData,
     CreateFailsKeepsData, CreateOopsesKeepsData, WriteRoundKeepsData, WriteDoneKeepsData
     DEF Writer, WriterRuns

LEMMA ReaderKeepsData ==
  ASSUME ControlOK, SemExclusive, DataInv, NEW r \in Readers, Reader(r)
  PROVE  DataInv'
<1>0. r \in Procs /\ r \notin Writers
  BY KernelAssumption DEF Procs
<1>1. CASE OpenForRead(r)
  <2>1. /\ driver' = driver /\ heap' = heap /\ qset' = qset /\ data_size' = data_size
        /\ loop' = loop /\ replaced' = replaced /\ f_pos' = [f_pos EXCEPT ![r] = 0]
        /\ pc[r] = "closed" /\ pc' = [pc EXCEPT ![r] = "idle"]
    BY <1>1 DEF OpenForRead, Move, storage
  <2>2. \A p \in Procs : /\ pc'[p] = "w_copy" <=> pc[p] = "w_copy"
                         /\ pc'[p] = "r_copy" <=> pc[p] = "r_copy"
    BY <1>0, <2>1 DEF ControlOK
  <2>3. DataOK' /\ StorageOK'
    BY <2>1, <2>2 DEF DataInv, DataOK, StorageOK, Procs
  <2>4. ASSUME NEW p \in Procs, Copying(p)'
        PROVE  loop'[p].list = qset' /\ qset' # 0 /\ LoopOK(loop[p], heap[qset].quanta)'
    <3>1. Copying(p)
      BY <2>2, <2>4 DEF Copying
    <3> QED
      BY <2>1, <3>1 DEF DataInv, LoopsOK, LoopOK, FirstRound, LaterRound, Behind, item
  <2>5. ASSUME NEW q \in Readers, pc'[q] = "r_copy"
        PROVE  f_pos'[q] = loop'[q].start + loop'[q].moved /\ loop'[q].start < data_size'
    <3>1. q # r /\ pc[q] = "r_copy"
      BY <1>0, <2>1, <2>2, <2>5 DEF ControlOK, Procs
    <3> QED
      BY <2>1, <3>1 DEF DataInv, DataOK, LoopsOK
  <2>6. \A w \in Writers : pc'[w] = "w_copy" => loop'[w].start = 0
    BY <2>1, <2>2 DEF DataInv, LoopsOK, Procs
  <2> QED
    BY <2>3, <2>4, <2>5, <2>6 DEF DataInv, LoopsOK
<1>2. CASE close_dev(r) \/ SeekStart(r) \/ ReadStart(r) \/ ReadWait(r)
  BY <1>0, <1>2, QuietKeepsData DEF close_dev, SeekStart, ReadStart, ReadWait, Move, Quiet,
     ControlOK
<1>3. CASE ReaderDown(r)
  BY <1>0, <1>3, QuietKeepsData DEF ReaderDown, DownInterruptible, Down, Move, Quiet, ControlOK
<1>4. CASE DownFails(r, "seek_sem", "idle") \/ DownFails(r, "r_sem", "idle")
  BY <1>0, <1>4, QuietKeepsData DEF DownFails, Interrupted, Move, Quiet, ControlOK
<1>5. CASE llseek_dev(r)
  <2>1. Holding(r) /\ pc[r] # "w_copy"
    BY <1>5 DEF llseek_dev, UpAndReturn, Move, Holding
  <2>2. f_pos' \in [Readers -> Nat]
    BY <1>5, ScullAssumption DEF llseek_dev, DataInv, DataOK
  <2> QED
    BY <1>0, <1>5, <2>1, <2>2, ReturnKeepsData DEF llseek_dev
<1>6. CASE ReadFails(r)
  <2>1. Holding(r) /\ pc[r] # "w_copy" /\ f_pos \in [Readers -> Nat]
    BY <1>6 DEF ReadFails, UpAndReturn, Move, Holding, DataInv, DataOK
  <2> QED
    BY <1>0, <1>6, <2>1, ReturnKeepsData DEF ReadFails
<1> QED
  BY <1>1, <1>2, <1>3, <1>4, <1>5, <1>6, ReadBeginKeepsData, ReadRoundKeepsData,
     ReadDoneKeepsData DEF Reader, ReaderRuns

LEMMA DataInvariant == Spec => []DataInv
<1>1. Init => DataInv
  <2> SUFFICES ASSUME Init PROVE DataInv
    OBVIOUS
  <2>1. Idle \in LoopType
    BY DEF Idle, LoopType
  <2>2. heap \in Seq([quanta : Nat, filled : Nat, live : BOOLEAN]) /\ Len(heap) = 0
    BY DEF Init, initialization
  <2>3. DataOK
    <3>1. loop \in [Procs -> LoopType] /\ f_pos \in [Readers -> Nat]
      BY <2>1 DEF Init, initialization
    <3>2. driver \in Drivers /\ qset \in 0 .. Len(heap) /\ data_size \in Nat
      BY <2>2 DEF Init, initialization
    <3>3. replaced \in BOOLEAN
      BY DEF Init, initialization
    <3> QED
      BY <2>2, <3>1, <3>2, <3>3 DEF DataOK
  <2>4. \A p \in Procs : pc[p] = "closed"
    BY DEF Init, initialization
  <2>5. LoopsOK
    BY <2>4 DEF LoopsOK, Copying, Procs
  <2> QED
    BY <2>3, <2>5 DEF Init, initialization, DataInv, StorageOK
<1>2. ControlOK /\ SemExclusive /\ DataInv /\ [Next]_vars => DataInv'
  <2> SUFFICES ASSUME ControlOK, SemExclusive, DataInv, [Next]_vars
               PROVE  DataInv'
    OBVIOUS
  <2>1. ASSUME NEW p \in Procs, SignalArrives(p)
        PROVE  DataInv'
    BY <2>1, QuietKeepsData DEF SignalArrives, Signal, Resumed, Blocking, Quiet, ControlOK
  <2>2. CASE UNCHANGED vars
    BY <2>2, QuietKeepsData DEF vars, Quiet
  <2> QED
    BY <2>1, <2>2, WriterKeepsData, ReaderKeepsData DEF Next
<1> QED
  BY <1>1, <1>2, ControlInvariant, LockExclusion, PTL DEF Spec

(* Every state has its types.                                              *)
THEOREM TypeCorrect == Spec => []TypeOK
<1>1. ControlOK /\ DataInv => TypeOK
  BY DEF DataInv, TypeOK
<1> QED
  BY <1>1, ControlInvariant, DataInvariant, PTL

(* A copy loop never walks a list that was freed.                          *)
THEOREM CopiesStayInLiveList == Spec => []CopiesLiveList
<1>1. DataInv => CopiesLiveList
  BY DEF DataInv, StorageOK, LoopsOK, CopiesLiveList
<1> QED
  BY <1>1, DataInvariant, PTL

(* Nor does it leave the quanta of that list, for any sizes, counts and    *)
(* positions.                                                              *)
THEOREM CopiesStayAllocated == Spec => []CopiesAllocated
<1>1. DataInv => CopiesAllocated
  <2> SUFFICES ASSUME DataInv, NEW p \in Procs, Copying(p), loop[p].rounds > 0
               PROVE  loop[p].at < heap[loop[p].list].quanta
    BY DEF CopiesAllocated
  <2>1. /\ loop[p].list = qset /\ LoopOK(loop[p], heap[qset].quanta)
        /\ qset # 0 /\ loop[p] \in LoopType
    BY DEF DataInv, DataOK, LoopsOK
  <2>2. heap[qset].quanta \in Nat
    BY <2>1, HeapType DEF DataInv
  <2>3. /\ loop[p].at \in Nat /\ loop[p].rounds \in Nat /\ Behind(loop[p].start) \in Nat
        /\ loop[p].at + Behind(loop[p].start) + loop[p].rounds <= heap[qset].quanta
    BY <2>1, BehindType DEF LoopOK, LoopType
  <2> QED
    BY <2>1, <2>2, <2>3
<1> QED
  BY <1>1, DataInvariant, PTL

(* A read copies the bytes at its position, unless it began at the very    *)
(* start of a set behind the first: then those of the set before.          *)
THEOREM ReadsAtPosition == Spec => []ReadsOwnPosition
<1>1. DataInv => ReadsOwnPosition
  <2> SUFFICES ASSUME DataInv, NEW r \in Readers, pc[r] = "r_copy", loop[r].rounds > 0
               PROVE  (loop[r].at + Behind(loop[r].start)) * quantum_size + loop[r].qoff = f_pos[r]
    BY DEF ReadsOwnPosition
  <2>1. /\ loop[r] \in LoopType /\ LoopOK(loop[r], heap[qset].quanta)
        /\ f_pos[r] = loop[r].start + loop[r].moved
    BY DEF DataInv, DataOK, LoopsOK, Copying, Procs
  <2> QED
    BY <2>1 DEF LoopOK
<1> QED
  BY <1>1, DataInvariant, PTL

(* Calls for a quantum or more never move too much, and those that begin   *)
(* on a quantum all they set out to move.                                  *)
THEOREM MovesAsked == Spec => []MovesWhatWasAsked
<1>1. DataInv => MovesWhatWasAsked
  <2> SUFFICES ASSUME DataInv, NEW p \in Procs, Copying(p), loop[p].rounds = 0
               PROVE  /\ loop[p].count >= quantum_size => loop[p].moved <= loop[p].count
                      /\ loop[p].start % quantum_size = 0 /\ loop[p].total >= quantum_size
                           => loop[p].moved = loop[p].total
    BY DEF MovesWhatWasAsked
  <2>1. loop[p] \in LoopType /\ LoopOK(loop[p], heap[qset].quanta)
    BY DEF DataInv, DataOK, LoopsOK
  <2>2. /\ loop[p].moved \in Nat /\ loop[p].total \in Nat /\ loop[p].count \in Nat
        /\ loop[p].total <= loop[p].count
        /\ loop[p].moved <= quantum_size \/ loop[p].moved <= loop[p].total
        /\ 0 * quantum_size = 0 /\ quantum_size \in Nat
    BY <2>1, Sizes DEF LoopType, LoopOK
  <2>3. loop[p].start % quantum_size = 0 /\ loop[p].total >= quantum_size
          => loop[p].moved <= loop[p].total
             /\ loop[p].total - loop[p].moved <= loop[p].rounds * quantum_size
    BY <2>1 DEF LoopOK
  <2> QED
    BY <2>2, <2>3
<1> QED
  BY <1>1, DataInvariant, PTL
-----------------------------------------------------------------------------
(* Lost lists.                                                             *)

(* Only an open that trims lets go of a list and frees it.                *)
LEMMA NoLeakStep ==
  ASSUME ControlOK, DataOK, LeaksOnlyReplaced, [Next]_vars
  PROVE  LeaksOnlyReplaced'
<1> USE DEF LeaksOnlyReplaced
<1>1. CASE heap' = heap /\ qset' = qset /\ replaced' = replaced
  BY <1>1
<1>2. ASSUME NEW w \in Writers, OpenTrim(w)
      PROVE  LeaksOnlyReplaced'
  <2>1. /\ heap' = [l \in DOMAIN heap |-> [heap[l] EXCEPT !.live = StillLive(l)]]
        /\ replaced' = replaced
    BY <1>2 DEF OpenTrim, trim_dev
  <2>2. \A i \in DOMAIN heap : heap[i] \in [quanta : Nat, filled : Nat, live : BOOLEAN]
    BY HeapType
  <2>3. DOMAIN heap' = DOMAIN heap /\ \A i \in DOMAIN heap : heap'[i].live = StillLive(i)
    BY <2>1, <2>2
  <2>4. ~replaced => \A i \in DOMAIN heap : ~StillLive(i)
    BY DEF StillLive
  <2> QED
    BY <2>1, <2>3, <2>4
<1>3. ASSUME NEW w \in Writers, WriteCreate(w)
      PROVE  LeaksOnlyReplaced'
  <2>1. PICK count \in Counts :
          /\ 0 < count
          /\ heap' = Append(heap, [quanta |-> Quanta(count), filled |-> 0, live |-> TRUE])
          /\ qset' = Len(heap') /\ replaced' = (replaced \/ qset # 0)
    BY <1>3 DEF WriteCreate
  <2>2. Quanta(count) \in Nat
    BY <2>1, ScullAssumption, Sizes, DivUpBounds DEF Quanta
  <2>3. [quanta |-> Quanta(count), filled |-> 0, live |-> TRUE]
          \in [quanta : Nat, filled : Nat, live : BOOLEAN]
    BY <2>2
  <2>4. /\ heap' \in Seq([quanta : Nat, filled : Nat, live : BOOLEAN])
        /\ Len(heap') = Len(heap) + 1 /\ Len(heap) \in Nat
        /\ \A i \in DOMAIN heap : heap'[i] = heap[i]
    BY <2>1, <2>3, Appended
  <2>5. DOMAIN heap' = 1 .. Len(heap) + 1 /\ DOMAIN heap = 1 .. Len(heap)
    BY <2>4, HeapType
  <2>6. ASSUME ~replaced', NEW i \in DOMAIN heap', i # qset'
        PROVE  ~heap'[i].live
    <3>1. ~replaced /\ qset = 0
      BY <2>1, <2>6
    <3>2. i \in DOMAIN heap /\ i # 0
      BY <2>1, <2>4, <2>5, <2>6
    <3>3. ~heap[i].live
      BY <3>1, <3>2
    <3> QED
      BY <2>4, <3>2, <3>3
  <2> QED
    BY <2>6
<1>4. ASSUME NEW w \in Writers, CreateFails(w)
      PROVE  LeaksOnlyReplaced'
  <2>1. qset' = 0 /\ replaced' = (replaced \/ qset # 0 \/ heap' # heap)
    BY <1>4 DEF CreateFails
  <2> QED
    BY <2>1
<1>5. ASSUME NEW w \in Writers, CreateOopses(w)
      PROVE  LeaksOnlyReplaced'
  BY <1>5 DEF CreateOopses
<1>6. ASSUME NEW w \in Writers, WriteRound(w)
      PROVE  LeaksOnlyReplaced'
  <2>1. /\ heap' = [heap EXCEPT ![loop[w].list].filled = @ + Length(loop[w])]
        /\ qset' = qset /\ replaced' = replaced
    BY <1>6 DEF WriteRound
  <2>2. \A i \in DOMAIN heap : heap[i] \in [quanta : Nat, filled : Nat, live : BOOLEAN]
    BY HeapType
  <2>3. DOMAIN heap' = DOMAIN heap /\ \A i \in DOMAIN heap : heap'[i].live = heap[i].live
    BY <2>1, <2>2
  <2> QED
    BY <2>1, <2>3
<1>7. ASSUME NEW w \in Writers, Writer(w)
      PROVE  LeaksOnlyReplaced'
  <2>1. CASE OpenForWrite(w) \/ close_dev(w) \/ WriteStart(w) \/ WriterDown(w)
             \/ DownFails(w, "open_sem", "closed") \/ DownFails(w, "w_sem", "idle")
             \/ TooLarge(w) \/ WriteDone(w) \/ WriteWake(w)
    BY <1>1, <2>1 DEF OpenForWrite, close_dev, WriteStart, WriterDown, DownInterruptible,
       DownFails, TooLarge, WriteDone, WriteWake, storage
  <2> QED
    BY <1>2, <1>3, <1>4, <1>5, <1>6, <1>7, <2>1 DEF Writer, WriterRuns
<1>8. ASSUME NEW r \in Readers, Reader(r)
      PROVE  LeaksOnlyReplaced'
  BY <1>1, <1>8 DEF Reader, OpenForRead, close_dev, SeekStart, ReadStart, ReaderDown,
     DownInterruptible, ReaderRuns, DownFails, llseek_dev, ReadWait, ReadFails, ReadBegin,
     ReadRound, ReadDone, storage
<1>9. ASSUME NEW p \in Procs, SignalArrives(p)
      PROVE  LeaksOnlyReplaced'
  BY <1>1, <1>9 DEF SignalArrives, storage
<1>10. CASE UNCHANGED vars
  BY <1>1, <1>10 DEF vars, storage
<1> QED
  BY <1>7, <1>8, <1>9, <1>10 DEF Next

(* The only lists lost are those a second write replaced and those of      *)
(* writes that did not get their memory.                                   *)
THEOREM NoOtherLeak == Spec => []LeaksOnlyReplaced
<1>1. Init => LeaksOnlyReplaced
  BY DEF Init, initialization, LeaksOnlyReplaced
<1>2. ControlOK /\ DataOK /\ LeaksOnlyReplaced /\ [Next]_vars => LeaksOnlyReplaced'
  BY NoLeakStep
<1>3. DataInv => DataOK
  BY DEF DataInv
<1> QED
  BY <1>1, <1>2, <1>3, ControlInvariant, DataInvariant, PTL DEF Spec
-----------------------------------------------------------------------------
(* Waiting for data.                                                       *)

WaitInv ==
  /\ driver \notin Waiting => \A r \in Readers : pc[r] \notin {"r_wait", "r_sleep"}
  /\ SleepingReaderWillBeWoken

(* Steps that put nobody to sleep, end no writer's wakeup, and bring no    *)
(* data where there was none.                                              *)
LEMMA CalmKeepsWait ==
  ASSUME WaitInv, driver' = driver, data_size' > 0 => data_size > 0,
         \A r \in Readers : pc'[r] \in {"r_wait", "r_sleep"} => pc[r] \in {"r_wait", "r_sleep"},
         \A r \in Readers : pc'[r] = "r_sleep" => pc[r] = "r_sleep",
         \A w \in Writers : pc[w] = "w_wake" => pc'[w] = "w_wake"
  PROVE  WaitInv'
BY DEF WaitInv, SleepingReaderWillBeWoken

LEMMA WriterKeepsWait ==
  ASSUME ControlOK, WaitInv, NEW w \in Writers, Writer(w)
  PROVE  WaitInv'
<1> USE DEF ControlOK
<1>0. w \in Procs /\ w \notin Readers /\ Readers \subseteq Procs /\ Writers \subseteq Procs
  BY KernelAssumption DEF Procs
<1>1. CASE OpenForWrite(w) \/ close_dev(w) \/ WriteStart(w) \/ WriterDown(w)
           \/ DownFails(w, "open_sem", "closed") \/ DownFails(w, "w_sem", "idle")
  BY <1>0, <1>1, CalmKeepsWait DEF OpenForWrite, close_dev, WriteStart, WriterDown,
     DownInterruptible, Down, DownFails, Interrupted, Move, storage
<1>2. CASE OpenTrim(w) \/ TooLarge(w) \/ CreateFails(w)
  BY <1>0, <1>2, CalmKeepsWait DEF OpenTrim, trim_dev, TooLarge, CreateFails, UpAndReturn, Move,
     storage
<1>3. CASE WriteCreate(w) \/ CreateOopses(w) \/ WriteRound(w)
  BY <1>0, <1>3, CalmKeepsWait DEF WriteCreate, CreateOopses, WriteRound, Move
<1>4. CASE WriteDone(w)
  <2>1. /\ \A r \in Readers : pc'[r] = pc[r]
        /\ driver' = driver
        /\ driver \in Waiting => pc'[w] = "w_wake"
    BY <1>0, <1>4 DEF WriteDone, Move
  <2> QED
    BY <2>1 DEF WaitInv, SleepingReaderWillBeWoken
<1>5. CASE WriteWake(w)
  <2>1. /\ driver' = driver
        /\ \A r \in Readers : /\ pc'[r] # "r_sleep"
                              /\ pc'[r] = "r_wait" => pc[r] \in {"r_wait", "r_sleep"}
    BY <1>0, <1>5 DEF WriteWake, Woken, Resumed
  <2> QED
    BY <2>1 DEF WaitInv, SleepingReaderWillBeWoken
<1> QED
  BY <1>1, <1>2, <1>3, <1>4, <1>5 DEF Writer, WriterRuns

LEMMA ReaderKeepsWait ==
  ASSUME ControlOK, DataInv, WaitInv, NEW r \in Readers, Reader(r)
  PROVE  WaitInv'
<1> USE DEF ControlOK
<1>0. r \in Procs /\ r \notin Writers /\ Readers \subseteq Procs /\ Writers \subseteq Procs
  BY KernelAssumption DEF Procs
<1>1. CASE OpenForRead(r) \/ close_dev(r) \/ SeekStart(r) \/ ReaderDown(r)
           \/ DownFails(r, "seek_sem", "idle") \/ DownFails(r, "r_sem", "idle")
  BY <1>0, <1>1, CalmKeepsWait DEF OpenForRead, close_dev, SeekStart, ReaderDown,
     DownInterruptible, Down, DownFails, Interrupted, Move, storage
<1>2. CASE ReadStart(r)
  <2>1. /\ driver' = driver /\ data_size' = data_size
        /\ pc'[r] \in {"r_wait", "r_sem"} /\ (pc'[r] = "r_wait" => driver \in Waiting)
        /\ \A p \in Procs : p # r => pc'[p] = pc[p]
    BY <1>0, <1>2 DEF ReadStart, Move, storage
  <2> QED
    BY <1>0, <2>1 DEF WaitInv, SleepingReaderWillBeWoken
<1>3. CASE ReadWait(r)
  <2>1. /\ driver' = driver /\ data_size' = data_size
        /\ pc[r] = "r_wait" /\ pc'[r] \in {"r_sem", "r_sleep"}
        /\ (pc'[r] = "r_sleep" => ~(data_size > 0))
        /\ \A p \in Procs : p # r => pc'[p] = pc[p]
    BY <1>0, <1>3 DEF ReadWait, Move, storage
  <2> QED
    BY <1>0, <2>1 DEF WaitInv, SleepingReaderWillBeWoken
<1>4. CASE llseek_dev(r) \/ ReadFails(r)
  BY <1>0, <1>4, CalmKeepsWait DEF llseek_dev, ReadFails, UpAndReturn, Move, storage
<1>5. CASE ReadBegin(r) \/ ReadRound(r)
  BY <1>0, <1>5, CalmKeepsWait DEF ReadBegin, ReadRound, Move, storage
<1>6. CASE ReadDone(r)
  <2>1. pc[r] = "r_copy"
    BY <1>6 DEF ReadDone, UpAndReturn, Move
  <2>2. loop[r].start < data_size /\ loop[r].start \in Nat /\ data_size \in Nat
    BY <1>0, <2>1 DEF DataInv, DataOK, LoopsOK, LoopType
  <2>3. data_size > 0
    BY <2>2
  <2> QED
    BY <1>0, <1>6, <2>3, CalmKeepsWait DEF ReadDone, UpAndReturn, Move
<1> QED
  BY <1>1, <1>2, <1>3, <1>4, <1>5, <1>6 DEF Reader, ReaderRuns

(* Whatever the order of unlocked tests, writes and signals, nobody sleeps *)
(* on data without a writer about to wake him.                             *)
THEOREM NobodySleepsOnData == Spec => []SleepingReaderWillBeWoken
<1>1. Init => WaitInv
  BY DEF Init, initialization, WaitInv, SleepingReaderWillBeWoken, Procs
<1>2. ControlOK /\ DataInv /\ WaitInv /\ [Next]_vars => WaitInv'
  <2> SUFFICES ASSUME ControlOK, DataInv, WaitInv, [Next]_vars
               PROVE  WaitInv'
    OBVIOUS
  <2>1. ASSUME NEW p \in Procs, SignalArrives(p)
        PROVE  WaitInv'
    BY <2>1, CalmKeepsWait DEF SignalArrives, Signal, Resumed, Blocking, ControlOK, Procs, storage
  <2>2. CASE UNCHANGED vars
    BY <2>2, CalmKeepsWait DEF vars, storage
  <2> QED
    BY <2>1, <2>2, WriterKeepsWait, ReaderKeepsWait DEF Next
<1>3. WaitInv => SleepingReaderWillBeWoken
  BY DEF WaitInv
<1> QED
  BY <1>1, <1>2, <1>3, ControlInvariant, DataInvariant, PTL DEF Spec
=============================================================================
