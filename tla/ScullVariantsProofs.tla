------------------------- MODULE ScullVariantsProofs -------------------------
(***************************************************************************)
(* Safety of the variants of scull, for any programs, devices, sizes,      *)
(* counts and offsets.                                                     *)
(*                                                                         *)
(* First the invariants; then the arithmetic of quanta, sets and one copy  *)
(* loop; then the locks; then types and lists; and then, driver by driver, *)
(* that a loop on a device that nothing disturbed fits its list.           *)
(***************************************************************************)
EXTENDS ScullVariants, SequenceTheorems, TLAPS

RunTime == {"ioctl", "bitops", "ioctl-capability"}

(* Only the drivers with ioctl change the sizes, only proc has devices.    *)
FixedInv ==
  /\ driver \notin RunTime => size = [quantum |-> 3, qset |-> 2]
  /\ driver # "proc" => /\ \A p \in Procs : Dev(p) = 1
                        /\ \A d \in Devices \ {1} : qset[d] = 0

Copying(p) == pc[p] \in {"w_copy", "r_copy"} \/ (driver = "completion" /\ pc[p] = "w_begin")

(* While there is something to copy the next chunk is not empty, and only  *)
(* the last one is not full.                                               *)
Counted(c) ==
  \E q \in Nat \ {0} : c.chunk <= q /\ (c.left > 0 => c.total - c.moved > q * (c.left - 1))

Going(c) ==
  /\ c.moved >= 0
  /\ c.moved < c.total => c.chunk > c.qoff
  /\ driver # "scratch_to_driver" => Counted(c)

StepInv == \A p \in Procs : Copying(p) => Going(loop[p])

(* Without a lock an open may have freed the list that the device names.   *)
HasList(d) == qset[d] # 0 /\ (driver = "completion" => heap[qset[d]].live)

(* A device's list is its own and was not freed.                           *)
LiveInv ==
  /\ \A d \in Devices : HasList(d) => heap[qset[d]].live /\ heap[qset[d]].sets >= 1
  /\ \A d, e \in Devices : qset[d] # 0 /\ qset[d] = qset[e] => d = e
  /\ \A p \in Procs : pc[p] \in {"w_arrays", "w_quanta"} =>
       /\ loop[p].list \in DOMAIN heap /\ \A d \in Devices : qset[d] # loop[p].list
       /\ heap[loop[p].list].live /\ heap[loop[p].list].sets >= 1
       /\ loop[p].total >= 1
  /\ \A p \in Procs : pc[p] = "w_begin" => loop[p].total >= 1

(* Only scratch_to_driver expands, and only a list that it keeps.          *)
ExpandInv ==
  \A p \in Procs : pc[p] = "w_expanded" => driver = "scratch_to_driver" /\ qset[1] # 0

Shaped(l) ==
  /\ size.quantum >= 1 /\ size.qset >= 1
  /\ l.live /\ l.width = size.qset /\ l.by = size.qset /\ l.quantum = size.quantum /\ l.sets >= 1

Sound(l) == Shaped(l) /\ l.blocks <= l.sets * size.qset

Index(c) == c.set * size.qset + c.slot

WriteFits(c, l) ==
  /\ c.slot < size.qset /\ c.qoff = 0 /\ c.left >= 0 /\ c.chunk <= size.quantum
  /\ Index(c) + c.left <= l.blocks
  /\ c.moved <= (l.blocks - c.left) * size.quantum

ReadFits(c, l, pos) ==
  /\ c.slot < size.qset /\ c.qoff < size.quantum /\ c.left >= 0 /\ c.chunk <= size.quantum
  /\ Index(c) + c.left <= l.blocks
  /\ pos - c.qoff + c.left * size.quantum <= l.blocks * size.quantum
  /\ pos <= l.blocks * size.quantum

EndFits(l) == data_size <= l.blocks * l.quantum

(* While a list is replaced the old one, which hangs on the device still,  *)
(* need not have the sizes of now.                                         *)
Amid == {"w_arrays", "w_quanta", "astray", "oops"}

Unfinished ==
  {"trimmed", "w_arrays", "w_quanta", "w_begin", "w_copy", "w_expanded", "astray", "oops"}

RunFits(p) ==
  LET l == heap[qset[1]] IN
  /\ pc[p] \in {"w_begin", "w_copy", "r_copy"} => loop[p].list = qset[1] /\ qset[1] # 0
  /\ ~disturbed[1] =>
       /\ pc[p] \in {"w_arrays", "w_quanta"} =>
            /\ size.quantum >= 1 /\ size.qset >= 1
            /\ heap[loop[p].list].sets = DivUp(loop[p].total, item)
            /\ pc[p] = "w_quanta" => heap[loop[p].list].width = size.qset
       /\ pc[p] = "w_begin" => l.blocks = DivUp(loop[p].total, size.quantum)
       /\ pc[p] = "w_copy" => WriteFits(loop[p], l)
       /\ pc[p] = "r_copy" => ReadFits(loop[p], l, file[p].pos)

RunTimeInv ==
  LET l == heap[qset[1]] IN
  /\ ~disturbed[1] /\ qset[1] # 0 /\ (\A p \in Procs : pc[p] \notin Amid) => Sound(l)
  /\ ~disturbed[1] /\ qset[1] # 0 /\ (\A p \in Procs : pc[p] \notin Unfinished) => EndFits(l)
  /\ \A p \in Procs : RunFits(p)

ProcFits(p) ==
  LET d == Dev(p) IN
  /\ pc[p] \in {"w_copy", "r_copy"} => loop[p].list = qset[d] /\ qset[d] # 0
  /\ pc[p] = "w_copy" => WriteFits(loop[p], heap[qset[d]])
  /\ pc[p] = "r_copy" /\ ~disturbed[d] => ReadFits(loop[p], heap[qset[d]], file[p].pos)

ProcInv ==
  /\ \A d \in Devices : qset[d] # 0 => Sound(heap[qset[d]])
  /\ \A d \in Devices : qset[d] # 0 /\ ~disturbed[d] /\ ~Changing(d) => EndFits(heap[qset[d]])
  /\ \A p \in Procs : ProcFits(p)

ComplFits(p) ==
  LET l == heap[qset[1]] IN
  /\ InList(p) => qset[1] # 0
  /\ pc[p] \in {"w_begin", "w_copy"} => WriteFits(loop[p], l) /\ file[p].pos = loop[p].moved
  /\ pc[p] \in {"w_copy", "r_copy"} => loop[p].list = qset[1]
  /\ pc[p] = "r_copy" => ReadFits(loop[p], l, file[p].pos)

(* A list is there but while an open is freeing it.                        *)
ComplList ==
  /\ qset[1] # 0 /\ heap[qset[1]].live => Sound(heap[qset[1]])
  /\ qset[1] # 0 /\ ~heap[qset[1]].live => \E p \in Procs : pc[p] = "trimmed"

(* As long as nothing disturbs the device, what alters its list is alone.  *)
ComplInv ==
  /\ ComplList
  /\ ~disturbed[1] =>
       /\ qset[1] # 0 /\ (\A p \in Procs : ~Alters(p)) => EndFits(heap[qset[1]])
       /\ \A p, q \in Procs : Alters(p) /\ InList(q) => p = q
       /\ \A p \in Procs : ComplFits(p)

(* An append of whole quanta of 3 bytes, in sets of 2, that has expanded   *)
(* the list to b quanta, or is copying; and a read.                        *)
Expanded(c, b, pos) ==
  c.total % 3 = 0 /\ c.total > 0 /\ data_size + c.total <= b * 3 /\ pos = data_size

Appending(c, b, pos) ==
  /\ c.total % 3 = 0 /\ c.moved % 3 = 0 /\ c.moved <= c.total /\ pos = data_size + c.moved
  /\ c.total > 0 =>
       /\ data_size + c.total <= b * 3
       /\ c.slot < 2 /\ c.qoff = 0
       /\ c.moved < c.total => c.chunk = 3
       /\ 3 * (c.set * 2 + c.slot) + (c.total - c.moved) <= b * 3

Reading(c, pos) ==
  /\ c.slot < 2
  /\ c.moved < c.total =>
       /\ c.chunk = 3 \/ (c.qoff = 0 /\ c.chunk <= 3 /\ c.chunk = c.total - c.moved)
       /\ 3 * (c.set * 2 + c.slot) <= pos - c.qoff

ScratchFits(p) ==
  LET c == loop[p]
      b == heap[qset[1]].blocks
      pos == file[p].pos
  IN  ~disturbed[1] =>
        /\ pc[p] = "w_expanded" => Expanded(c, b, pos)
        /\ pc[p] = "w_copy" => Appending(c, b, pos) /\ (c.total > 0 => qset[1] # 0 /\ c.list = qset[1])
        /\ pc[p] = "r_copy" => Reading(c, pos) /\ qset[1] # 0 /\ c.list = qset[1]

ScratchEnd ==
  LET l == heap[qset[1]] IN
  /\ qset[1] # 0 => Shaped(l)
  /\ ~disturbed[1] =>
       /\ data_size % 3 = 0
       /\ qset[1] # 0 => Sound(l) /\ data_size <= l.blocks * 3

ScratchInv == ScratchEnd /\ \A p \in Procs : ScratchFits(p)

DriverInv ==
  /\ driver \in RunTime => RunTimeInv
  /\ driver = "proc" => ProcInv
  /\ driver = "completion" => ComplInv
  /\ driver = "scratch_to_driver" => ScratchInv

-----------------------------------------------------------------------------
(* Arithmetic                                                              *)

LEMMA DivMod ==
  ASSUME NEW n \in Nat, NEW d \in Nat \ {0}
  PROVE  n \div d \in Nat /\ n % d \in 0 .. d - 1 /\ n = (n \div d) * d + (n % d)
OBVIOUS

LEMMA Monotone ==
  ASSUME NEW a \in Int, NEW b \in Int, NEW d \in Nat, a <= b
  PROVE  a * d <= b * d
OBVIOUS

LEMMA Cancel ==
  ASSUME NEW a \in Int, NEW b \in Int, NEW d \in Nat \ {0}, a * d < b * d
  PROVE  a < b
OBVIOUS

LEMMA SumOfThrees ==
  ASSUME NEW a \in Int, NEW b \in Int, a % 3 = 0, b % 3 = 0
  PROVE  (a + b) % 3 = 0
OBVIOUS

LEMMA Distribute ==
  ASSUME NEW a \in Int, NEW b \in Int, NEW d \in Int
  PROVE  /\ (a + b) * d = a * d + b * d /\ (a - b) * d = a * d - b * d
         /\ a * d \in Int /\ b * d \in Int
OBVIOUS

LEMMA Associate ==
  ASSUME NEW a \in Int, NEW b \in Int, NEW d \in Int
  PROVE  a * (b * d) = (a * d) * b /\ b * d \in Int /\ b * d = d * b
OBVIOUS

LEMMA Product ==
  ASSUME NEW a \in Nat \ {0}, NEW b \in Nat \ {0}
  PROVE  a * b \in Nat \ {0}
OBVIOUS

(* Rounding up: d times the result holds n, and one less does not.         *)
LEMMA DivUpBounds ==
  ASSUME NEW n \in Nat, NEW d \in Nat \ {0}
  PROVE  /\ DivUp(n, d) \in Nat
         /\ n <= DivUp(n, d) * d
         /\ n > 0 => DivUp(n, d) > 0
         /\ n > (DivUp(n, d) - 1) * d
<1> DEFINE k == n \div d
           m == n % d
<1>1. k \in Nat /\ m \in 0 .. d - 1 /\ n = k * d + m
  BY DivMod
<1>2. (k + 1) * d = k * d + d /\ (k - 1) * d = k * d - d /\ k * d \in Int
  BY <1>1
<1>3. k = 0 => k * d = 0
  BY <1>1
<1>4. DivUp(n, d) = IF m = 0 THEN k ELSE k + 1
  BY DEF DivUp
<1> HIDE DEF k, m
<1>5. CASE m = 0
  BY <1>1, <1>2, <1>3, <1>4, <1>5
<1>6. CASE m # 0
  <2>1. DivUp(n, d) = k + 1 /\ k + 1 - 1 = k
    BY <1>1, <1>4, <1>6
  <2>2. QED
    BY <1>1, <1>2, <1>6, <2>1
<1>7. QED
  BY <1>5, <1>6

(* Also of a negative number only a number comes.                          *)
LEMMA DivUpType ==
  ASSUME NEW n \in Int, NEW d \in Nat \ {0}
  PROVE  DivUp(n, d) \in Int
BY DEF DivUp

(* What d times k holds needs no more than k.                              *)
LEMMA DivUpLeast ==
  ASSUME NEW n \in Nat, NEW d \in Nat \ {0}, NEW k \in Int, n <= k * d
  PROVE  DivUp(n, d) <= k
<1> DEFINE u == DivUp(n, d)
<1>1. u \in Nat /\ n > (u - 1) * d
  BY DivUpBounds
<1> HIDE DEF u
<1>2. (u - 1) * d < k * d /\ u - 1 \in Int
  <2>1. (u - 1) * d \in Int /\ k * d \in Int
    BY <1>1
  <2>2. QED
    BY <1>1, <2>1
<1>3. u - 1 < k
  BY <1>2, Cancel
<1>4. u <= k
  BY <1>1, <1>3
<1>5. QED
  BY <1>4 DEF u

(* Sets for n bytes hold the quanta for n bytes.                           *)
LEMMA SetsHoldQuanta ==
  ASSUME NEW n \in Nat, NEW q \in Nat \ {0}, NEW s \in Nat \ {0}
  PROVE  DivUp(n, q) <= DivUp(n, q * s) * s
<1>1. q * s \in Nat \ {0}
  BY Product
<1> DEFINE u == DivUp(n, q * s)
<1>2. u \in Nat /\ n <= u * (q * s)
  BY <1>1, DivUpBounds
<1> HIDE DEF u
<1>3. u * (q * s) = (u * s) * q /\ u * s \in Int
  BY <1>2, Associate
<1>4. n <= (u * s) * q
  BY <1>2, <1>3
<1>5. DivUp(n, q) <= u * s
  BY <1>3, <1>4, DivUpLeast
<1>6. QED
  BY <1>5 DEF u

(* The j-th quantum is in a set that the list has.                         *)
LEMMA SetOfQuantum ==
  ASSUME NEW j \in Nat, NEW s \in Nat \ {0}, NEW sets \in Nat, j < sets * s
  PROVE  /\ j \div s \in Nat /\ j % s \in 0 .. s - 1
         /\ (j \div s) * s + (j % s) = j /\ j \div s < sets
<1> DEFINE k == j \div s
           m == j % s
<1>1. k \in Nat /\ m \in 0 .. s - 1 /\ j = k * s + m
  BY DivMod
<1> HIDE DEF k, m
<1>2. k * s < sets * s
  <2>1. k * s \in Int /\ sets * s \in Int
    BY <1>1
  <2>2. QED
    BY <1>1, <2>1
<1>3. k < sets
  BY <1>1, <1>2, Cancel
<1>4. k \in Nat /\ m \in 0 .. s - 1 /\ k * s + m = j /\ k < sets
  BY <1>1, <1>3
<1>5. QED
  BY <1>4, Zenon DEF k, m

(* Quotient and remainder are the only ones.                               *)
LEMMA DivModUnique ==
  ASSUME NEW n \in Nat, NEW d \in Nat \ {0}, NEW k \in Int, NEW m \in 0 .. d - 1, n = k * d + m
  PROVE  n \div d = k /\ n % d = m
<1> DEFINE j == n \div d
           i == n % d
<1>1. j \in Nat /\ i \in 0 .. d - 1 /\ n = j * d + i
  BY DivMod
<1> HIDE DEF j, i
<1>2. (k + 1) * d = k * d + d /\ (j + 1) * d = j * d + d /\ j * d \in Int /\ k * d \in Int
  BY <1>1
<1>3. k * d < (j + 1) * d /\ j * d < (k + 1) * d
  BY <1>1, <1>2
<1>4. k < j + 1 /\ j < k + 1
  BY <1>1, <1>3, Cancel
<1>5. j = k
  BY <1>1, <1>4
<1>6. QED
  BY <1>1, <1>2, <1>5 DEF j, i

(* A position is in a set, a slot of it and a byte of the slot's quantum.  *)
LEMMA Position ==
  ASSUME NEW pos \in Nat, NEW q \in Nat \ {0}, NEW s \in Nat \ {0}
  PROVE  /\ pos \div (q * s) \in Nat /\ (pos % (q * s)) \div q \in 0 .. s - 1
         /\ pos % q \in 0 .. q - 1
         /\ pos = ((pos \div (q * s)) * s + ((pos % (q * s)) \div q)) * q + (pos % q)
<1> DEFINE K == pos \div (q * s)
           M == pos % (q * s)
           b == M \div q
           c == M % q
<1>1. q * s \in Nat \ {0}
  BY Product
<1>2. K \in Nat /\ M \in 0 .. (q * s) - 1 /\ pos = K * (q * s) + M
  BY <1>1, DivMod
<1>3. M \in Nat /\ M < q * s
  BY <1>1, <1>2
<1> HIDE DEF K, M
<1>4. b \in Nat /\ c \in 0 .. q - 1 /\ M = b * q + c
  BY <1>3, DivMod
<1> HIDE DEF b, c
<1>5. K * (q * s) = (K * s) * q /\ K * s \in Int /\ s * q = q * s
  BY <1>2, Associate
<1>6. b < s
  <2>1. b * q < s * q /\ b * q \in Int
    <3>1. b * q \in Int /\ q * s \in Int
      BY <1>1, <1>4
    <3>2. QED
      BY <1>3, <1>4, <1>5, <3>1
  <2>2. QED
    BY <1>4, <2>1, Cancel
<1>7. pos = (K * s + b) * q + c
  <2>1. (K * s + b) * q = (K * s) * q + b * q /\ (K * s) * q \in Int /\ b * q \in Int
    BY <1>4, <1>5, Distribute
  <2>2. QED
    BY <1>2, <1>4, <1>5, <2>1
<1>8. pos % q = c
  <2>1. K * s + b \in Int
    BY <1>4, <1>5
  <2>2. QED
    BY <1>4, <1>7, <2>1, DivModUnique
<1>9. b \in 0 .. s - 1
  BY <1>4, <1>6
<1>10. K \in Nat /\ b \in 0 .. s - 1 /\ c \in 0 .. q - 1 /\ pos = (K * s + b) * q + c
  BY <1>2, <1>4, <1>7, <1>9
<1>11. /\ K \in Nat /\ b \in 0 .. s - 1 /\ pos % q \in 0 .. q - 1
       /\ pos = (K * s + b) * q + (pos % q)
  BY <1>8, <1>10, Zenon
<1>12. QED
  BY <1>11, Zenon DEF K, M, b

(* No set after the one that is looked for, nor behind the list.           *)
LEMMA Followed ==
  ASSUME NEW l, NEW n \in Int, heap[l].sets \in Nat \ {0}
  PROVE  /\ scull_follow(l, n) \in Nat /\ scull_follow(l, n) < heap[l].sets
         /\ scull_follow(l, n) <= 0 \/ scull_follow(l, n) <= n
BY DEF scull_follow

(* Where the copying of a read begins.                                     *)
StartsAt(c, l, pos, count) ==
  /\ c \in Loops
  /\ c.list = l /\ c.slot < size.qset /\ c.qoff = pos % size.quantum /\ c.qoff < size.quantum
  /\ c.chunk = size.quantum /\ c.moved = 0
  /\ c.total = BytesToRead(pos, count) /\ c.left = DivUp(c.total, size.quantum)
  /\ \E k \in Nat : Index(c) <= k /\ pos = k * size.quantum + c.qoff

LEMMA ReadStarts ==
  ASSUME NEW l \in Nat, NEW pos \in Nat, NEW count \in Nat,
         pos = 0 \/ heap[l].sets \in Nat \ {0}, data_size \in Nat,
         size.quantum \in Nat \ {0}, size.qset \in Nat \ {0}
  PROVE  StartsAt(ReadLoop(l, pos, count), l, pos, count)
<1> DEFINE c == ReadLoop(l, pos, count)
<1> DEFINE q == size.quantum
           s == size.qset
           K == pos \div (q * s)
           b == (pos % (q * s)) \div q
           set == IF pos = 0 THEN 0 ELSE scull_follow(l, DivUp(pos, q * s) - 1)
           n == BytesToRead(pos, count)
<1>1. c = [list |-> l, set |-> set, slot |-> b, qoff |-> pos % q, chunk |-> q,
           left |-> DivUp(n, q), moved |-> 0, total |-> n]
  BY DEF ReadLoop, item
<1>2. /\ K \in Nat /\ b \in 0 .. s - 1 /\ pos % q \in 0 .. q - 1
      /\ pos = (K * s + b) * q + (pos % q)
  BY Position
<1>3. n \in Int /\ DivUp(n, q) \in Int
  BY DivUpType DEF BytesToRead
<1>4. set \in Nat /\ set <= K
  <2>1. CASE pos = 0
    BY <1>2, <2>1
  <2>2. CASE pos # 0
    <3> DEFINE u == DivUp(pos, q * s)
    <3>0. q * s \in Nat \ {0}
      BY Product
    <3>1. u = K \/ u = K + 1
      BY DEF DivUp
    <3>2. u - 1 \in Int /\ u - 1 <= K
      BY <1>2, <3>1
    <3>3. set = scull_follow(l, u - 1) /\ heap[l].sets \in Nat \ {0}
      BY <2>2
    <3> HIDE DEF u, K, set
    <3>4. QED
      BY <1>2, <3>2, <3>3, Followed
  <2>3. QED
    BY <2>1, <2>2
<1> HIDE DEF K, b, set, n
<1>5. set * s <= K * s /\ set * s \in Nat /\ K * s \in Nat
  <2>1. set * s <= K * s
    BY <1>2, <1>4, set \in Int, K \in Int, s \in Nat, Monotone, Zenon
  <2>2. set * s \in Nat /\ K * s \in Nat
    <3> HIDE DEF q, s, c
    <3>1. s \in Nat
      BY DEF s
    <3>2. QED
      BY <1>2, <1>4, <3>1
  <2>3. QED
    BY <2>1, <2>2
<1>6. set * s + b <= K * s + b /\ K * s + b \in Nat
  BY <1>2, <1>5
<1>7. Index(c) = set * s + b
  BY <1>1 DEF Index
<1>8. c \in Loops
  <2>1. b \in Nat /\ pos % q \in Nat /\ q \in Int
    BY <1>2
  <2>2. QED
    BY <1>1, <1>3, <1>4, <2>1 DEF Loops
<1>9. c.slot < s /\ c.qoff = pos % q /\ c.qoff < q
  BY <1>1, <1>2
<1>10. \E k \in Nat : Index(c) <= k /\ pos = k * q + c.qoff
  <2>1. K * s + b \in Nat /\ Index(c) <= K * s + b /\ pos = (K * s + b) * q + c.qoff
    BY <1>2, <1>6, <1>7, <1>9
  <2> HIDE DEF q, s
  <2>2. QED
    BY <2>1, Zenon
<1>11. QED
  <2>1. c.list = l /\ c.chunk = q /\ c.moved = 0
    BY <1>1
  <2>2. c.total = n /\ c.left = DivUp(c.total, q)
    BY <1>1
  <2> HIDE DEF c
  <2>3. StartsAt(c, l, pos, count)
    BY <1>8, <1>9, <1>10, <2>1, <2>2, Zenon DEF StartsAt, n
  <2>4. QED
    BY <2>3 DEF c
-----------------------------------------------------------------------------
(* Locks                                                                   *)

Others(p) ==
  /\ driver' = driver /\ leaked \subseteq leaked'
  /\ \A q \in Procs \ {p} : pc'[q] = pc[q] /\ file'[q] = file[q] /\ loop'[q] = loop[q]

Enters(p) ==
  /\ pc[p] \notin Busy /\ pc'[p] \in Busy
  /\ file'[p].dev \in Devices /\ sem[file'[p].dev] = 1
  /\ sem' = [sem EXCEPT ![file'[p].dev] = 0]

Inside(p) == pc[p] \in Busy /\ pc'[p] \in Busy /\ sem' = sem /\ file'[p].dev = file[p].dev

Leaves(p) == pc[p] \in Busy /\ pc'[p] \notin Busy /\ up(p)

Outside(p) == pc[p] \notin Busy /\ pc'[p] \notin Busy /\ sem' = sem

KeepsLock(p) ==
  /\ driver = "scratch_to_driver" /\ leaked' = leaked \cup {p}
  /\ pc[p] \in Busy /\ pc'[p] \notin Busy /\ sem' = sem

Orderly(p) ==
  Others(p) /\ (Enters(p) \/ Inside(p) \/ Leaves(p) \/ Outside(p) \/ KeepsLock(p))

(* The types that the locks need.                                          *)
Typed ==
  /\ DOMAIN pc = Procs /\ pc = [q \in Procs |-> pc[q]]
  /\ file = [q \in Procs |-> file[q]] /\ loop = [q \in Procs |-> loop[q]]
  /\ sem \in [Devices -> 0 .. 1]
  /\ \A q \in Procs : /\ file[q] \in [mode : {"none", "r", "w", "rw"}, dev : Devices, pos : Nat]
                      /\ loop[q] \in Loops

LEMMA WellTyped ==
  ASSUME TypeOK
  PROVE  Typed
<1>1. /\ \A q \in Procs : /\ file[q] \in [mode : {"none", "r", "w", "rw"}, dev : Devices, pos : Nat]
                          /\ loop[q] \in Loops
      /\ sem \in [Devices -> 0 .. 1]
  <2>1. ASSUME NEW q \in Procs
        PROVE  file[q] \in [mode : {"none", "r", "w", "rw"}, dev : Devices, pos : Nat]
    BY DEF TypeOK
  <2>2. \A q \in Procs : loop[q] \in Loops
    BY Zenon DEF TypeOK
  <2>3. sem \in [Devices -> 0 .. 1]
    BY Zenon DEF TypeOK
  <2>4. QED
    BY <2>1, <2>2, <2>3
<1>2. /\ DOMAIN pc = Procs /\ pc = [q \in Procs |-> pc[q]]
      /\ file = [q \in Procs |-> file[q]] /\ loop = [q \in Procs |-> loop[q]]
  BY DEF TypeOK
<1>3. QED
  BY <1>1, <1>2 DEF Typed

(* No orderly step breaks a lock.                                          *)
LEMMA LockStep ==
  ASSUME TypeOK, LocksReturned, NEW p \in Procs, Orderly(p)
  PROVE  LocksReturned'
<1> SUFFICES ASSUME driver # "completion", NEW d \in Devices
             PROVE  /\ \A q, r \in Procs : Holds(q, d)' /\ Holds(r, d)' => q = r
                    /\ (\E q \in Procs : Holds(q, d)') => sem'[d] = 0
                    /\ sem'[d] = 0 =>
                         \/ \E q \in Procs : Holds(q, d)'
                         \/ leaked' # {} /\ driver = "scratch_to_driver"
  BY DEF LocksReturned, Orderly, Others
<1>1. /\ \A q, r \in Procs : Holds(q, d) /\ Holds(r, d) => q = r
      /\ (\E q \in Procs : Holds(q, d)) => sem[d] = 0
      /\ sem[d] = 0 =>
           \/ \E q \in Procs : Holds(q, d)
           \/ leaked # {} /\ driver = "scratch_to_driver"
  BY DEF LocksReturned
<1>2. /\ sem \in [Devices -> 0 .. 1]
      /\ \A q \in Procs \ {p} : Holds(q, d)' <=> Holds(q, d)
      /\ Dev(p) \in Devices /\ (leaked # {} => leaked' # {})
  BY DEF TypeOK, Orderly, Others, Holds, Dev
<1>3. CASE Enters(p)
  BY <1>1, <1>2, <1>3 DEF Enters, Holds, Dev
<1>4. CASE Inside(p)
  BY <1>1, <1>2, <1>4 DEF Inside, Holds, Dev
<1>5. CASE Leaves(p)
  BY <1>1, <1>2, <1>5 DEF Leaves, Holds, up, Dev
<1>6. CASE Outside(p)
  BY <1>1, <1>2, <1>6 DEF Outside, Holds
<1>7. CASE KeepsLock(p)
  BY <1>1, <1>2, <1>7, SMTT(60) DEF KeepsLock, Holds
<1>8. QED
  BY <1>3, <1>4, <1>5, <1>6, <1>7 DEF Orderly

(* Every step of the drivers with sizes keeps to the lock.               *)
LEMMA IoctlOrderly ==
  ASSUME TypeOK, FixedInv, driver \in RunTime, NEW p \in Procs, IoctlNext(p)
  PROVE  Orderly(p)
<1> USE ListAssumption DEF Typed, RunTime, Orderly, Others, Enters, Inside, Leaves, Outside, KeepsLock
<1>0. /\ Typed
      /\ driver # "proc" => \A q \in Procs : file[q].dev = 1
  <2>1. Typed
    BY WellTyped
  <2>2. driver # "proc" => \A q \in Procs : file[q].dev = 1
    BY DEF FixedInv, Dev
  <2>3. QED
    BY <2>1, <2>2
<1>1. CASE IoctlOpen(p)
  BY <1>1, <1>0 DEF IoctlOpen, Move, Down, Returns, up, Busy, Dev, SeekTo, CopyRound, Advances
<1>2. CASE IoctlClose(p)
  BY <1>2, <1>0 DEF IoctlClose, Move, Down, Returns, up, Busy, Dev, SeekTo, CopyRound, Advances
<1>3. CASE IoctlTrim(p)
  BY <1>3, <1>0 DEF IoctlTrim, Move, Down, Returns, up, Busy, Dev, SeekTo, CopyRound, Advances
<1>4. CASE ioctl_dev(p)
  BY <1>4, <1>0 DEF ioctl_dev, Move, Down, Returns, up, Busy, Dev, SeekTo, CopyRound, Advances
<1>5. CASE IoctlWrite(p)
  BY <1>5, <1>0 DEF IoctlWrite, Move, Down, Returns, up, Busy, Dev, SeekTo, CopyRound, Advances
<1>6. CASE IoctlTooLarge(p)
  BY <1>6, <1>0 DEF IoctlTooLarge, Move, Down, Returns, up, Busy, Dev, SeekTo, CopyRound, Advances
<1>7. CASE IoctlCreateFails(p)
  BY <1>7, <1>0 DEF IoctlCreateFails, Move, Down, Returns, up, Busy, Dev, SeekTo, CopyRound, Advances
<1>8. CASE IoctlOopses(p)
  BY <1>8, <1>0 DEF IoctlOopses, Move, Down, Returns, up, Busy, Dev, SeekTo, CopyRound, Advances
<1>9. CASE create_scullqset(p)
  BY <1>9, <1>0 DEF create_scullqset, Move, Down, Returns, up, Busy, Dev, SeekTo, CopyRound, Advances
<1>10. CASE create_qset(p)
  BY <1>10, <1>0, SMTT(60) DEF create_qset, Move, Down, Returns, up, Busy, Dev, SeekTo, CopyRound, Advances
<1>11. CASE create_quantums(p)
  <2>1. \/ Move(p, "w_quanta", "w_begin")
        \/ Move(p, "w_quanta", "astray")
    BY <1>11, Zenon DEF create_quantums
  <2>2. UNCHANGED <<file, loop, sem>>
    BY <1>11, Zenon DEF create_quantums
  <2>3. QED
    BY <1>0, <2>1, <2>2 DEF Move, Busy
<1>12. CASE IoctlBegin(p)
  BY <1>12, <1>0 DEF IoctlBegin, Move, Down, Returns, up, Busy, Dev, SeekTo, CopyRound, Advances
<1>13. CASE IoctlWriteRound(p)
  BY <1>13, <1>0 DEF IoctlWriteRound, Move, Down, Returns, up, Busy, Dev, SeekTo, CopyRound, Advances
<1>14. CASE IoctlWritten(p)
  BY <1>14, <1>0 DEF IoctlWritten, Move, Down, Returns, up, Busy, Dev, SeekTo, CopyRound, Advances
<1>15. CASE IoctlRead(p)
  BY <1>15, <1>0 DEF IoctlRead, Move, Down, Returns, up, Busy, Dev, SeekTo, CopyRound, Advances
<1>16. CASE IoctlReadBegin(p)
  BY <1>16, <1>0 DEF IoctlReadBegin, Move, Down, Returns, up, Busy, Dev, SeekTo, CopyRound, Advances
<1>17. CASE IoctlReadRound(p)
  BY <1>17, <1>0 DEF IoctlReadRound, Move, Down, Returns, up, Busy, Dev, SeekTo, CopyRound, Advances
<1>18. CASE IoctlReadDone(p)
  BY <1>18, <1>0 DEF IoctlReadDone, Move, Down, Returns, up, Busy, Dev, SeekTo, CopyRound, Advances
<1>19. CASE IoctlSeek(p)
  BY <1>19, <1>0 DEF IoctlSeek, Move, Down, Returns, up, Busy, Dev, SeekTo, CopyRound, Advances
<1>20. CASE scull_seq_show(p)
  BY <1>20, <1>0 DEF scull_seq_show, Move, Down, Returns, up, Busy, Dev, SeekTo, CopyRound, Advances
<1>21. QED
  BY <1>1, <1>2, <1>3, <1>4, <1>5, <1>6, <1>7, <1>8, <1>9, <1>10, <1>11, <1>12, <1>13, <1>14, <1>15, <1>16, <1>17, <1>18, <1>19, <1>20 DEF IoctlNext

(* Every step of proc keeps to the lock.                                 *)
LEMMA ProcOrderly ==
  ASSUME TypeOK, FixedInv, driver = "proc", NEW p \in Procs, ProcNext(p)
  PROVE  Orderly(p)
<1> USE ListAssumption DEF Typed, RunTime, Orderly, Others, Enters, Inside, Leaves, Outside, KeepsLock
<1>0. /\ Typed
      /\ driver # "proc" => \A q \in Procs : file[q].dev = 1
  <2>1. Typed
    BY WellTyped
  <2>2. driver # "proc" => \A q \in Procs : file[q].dev = 1
    BY DEF FixedInv, Dev
  <2>3. QED
    BY <2>1, <2>2
<1>1. CASE ProcOpen(p)
  BY <1>1, <1>0 DEF ProcOpen, Move, Down, Returns, up, Busy, Dev, SeekTo, CopyRound, Advances
<1>2. CASE ProcClose(p)
  BY <1>2, <1>0 DEF ProcClose, Move, Down, Returns, up, Busy, Dev, SeekTo, CopyRound, Advances
<1>3. CASE ProcTrim(p)
  BY <1>3, <1>0 DEF ProcTrim, Move, Down, Returns, up, Busy, Dev, SeekTo, CopyRound, Advances
<1>4. CASE ProcWrite(p)
  BY <1>4, <1>0 DEF ProcWrite, Move, Down, Returns, up, Busy, Dev, SeekTo, CopyRound, Advances
<1>5. CASE ProcTooLarge(p)
  BY <1>5, <1>0 DEF ProcTooLarge, Move, Down, Returns, up, Busy, Dev, SeekTo, CopyRound, Advances
<1>6. CASE ProcCreate(p)
  BY <1>6, <1>0 DEF ProcCreate, Move, Down, Returns, up, Busy, Dev, SeekTo, CopyRound, Advances
<1>7. CASE ProcCreateFails(p)
  BY <1>7, <1>0 DEF ProcCreateFails, Move, Down, Returns, up, Busy, Dev, SeekTo, CopyRound, Advances
<1>8. CASE ProcWriteRound(p)
  BY <1>8, <1>0 DEF ProcWriteRound, Move, Down, Returns, up, Busy, Dev, SeekTo, CopyRound, Advances
<1>9. CASE ProcWritten(p)
  BY <1>9, <1>0 DEF ProcWritten, Move, Down, Returns, up, Busy, Dev, SeekTo, CopyRound, Advances
<1>10. CASE ProcRead(p)
  BY <1>10, <1>0 DEF ProcRead, Move, Down, Returns, up, Busy, Dev, SeekTo, CopyRound, Advances
<1>11. CASE ProcReadBegin(p)
  BY <1>11, <1>0 DEF ProcReadBegin, Move, Down, Returns, up, Busy, Dev, SeekTo, CopyRound, Advances
<1>12. CASE ProcReadRound(p)
  BY <1>12, <1>0 DEF ProcReadRound, Move, Down, Returns, up, Busy, Dev, SeekTo, CopyRound, Advances
<1>13. CASE ProcReadDone(p)
  BY <1>13, <1>0 DEF ProcReadDone, Move, Down, Returns, up, Busy, Dev, SeekTo, CopyRound, Advances
<1>14. CASE ProcSeek(p)
  BY <1>14, <1>0 DEF ProcSeek, Move, Down, Returns, up, Busy, Dev, SeekTo, CopyRound, Advances
<1>15. CASE ProcShow(p)
  BY <1>15, <1>0, SMTT(60) DEF ProcShow, Move, Down, Returns, up, Busy, Dev, SeekTo, CopyRound, Advances
<1>16. QED
  BY <1>1, <1>2, <1>3, <1>4, <1>5, <1>6, <1>7, <1>8, <1>9, <1>10, <1>11, <1>12, <1>13, <1>14, <1>15 DEF ProcNext

(* Every step of scratch_to_driver keeps to the lock.                    *)
LEMMA ScratchOrderly ==
  ASSUME TypeOK, FixedInv, driver = "scratch_to_driver", NEW p \in Procs, ScratchNext(p)
  PROVE  Orderly(p)
<1> USE ListAssumption DEF Typed, RunTime, Orderly, Others, Enters, Inside, Leaves, Outside, KeepsLock
<1>0. /\ Typed
      /\ driver # "proc" => \A q \in Procs : file[q].dev = 1
  <2>1. Typed
    BY WellTyped
  <2>2. driver # "proc" => \A q \in Procs : file[q].dev = 1
    BY DEF FixedInv, Dev
  <2>3. QED
    BY <2>1, <2>2
<1>1. CASE ScratchOpen(p)
  BY <1>1, <1>0 DEF ScratchOpen, Move, Down, Returns, up, Busy, Dev, SeekTo, CopyRound, Advances
<1>2. CASE ScratchClose(p)
  BY <1>2, <1>0 DEF ScratchClose, Move, Down, Returns, up, Busy, Dev, SeekTo, CopyRound, Advances
<1>3. CASE ScratchCall(p)
  BY <1>3, <1>0 DEF ScratchCall, Move, Down, Returns, up, Busy, Dev, SeekTo, CopyRound, Advances
<1>4. CASE ScratchTooLarge(p)
  BY <1>4, <1>0 DEF ScratchTooLarge, Move, Down, Returns, up, Busy, Dev, SeekTo, CopyRound, Advances
<1>5. CASE ScratchCreate(p)
  BY <1>5, <1>0 DEF ScratchCreate, Move, Down, Returns, up, Busy, Dev, SeekTo, CopyRound, Advances
<1>6. CASE ScratchCreateFails(p)
  BY <1>6, <1>0 DEF ScratchCreateFails, Move, Down, Returns, up, Busy, Dev, SeekTo, CopyRound, Advances
<1>7. CASE expand_scull(p)
  BY <1>7, <1>0 DEF expand_scull, Move, Down, Returns, up, Busy, Dev, SeekTo, CopyRound, Advances
<1>8. CASE ExpandFails(p)
  BY <1>8, <1>0 DEF ExpandFails, Move, Down, Returns, up, Busy, Dev, SeekTo, CopyRound, Advances
<1>9. CASE ScratchExpanded(p)
  BY <1>9, <1>0 DEF ScratchExpanded, Move, Down, Returns, up, Busy, Dev, SeekTo, CopyRound, Advances
<1>10. CASE ScratchOverwrite(p)
  BY <1>10, <1>0 DEF ScratchOverwrite, Move, Down, Returns, up, Busy, Dev, SeekTo, CopyRound, Advances
<1>11. CASE ScratchWriteRound(p)
  BY <1>11, <1>0 DEF ScratchWriteRound, Move, Down, Returns, up, Busy, Dev, SeekTo, CopyRound, Advances
<1>12. CASE ScratchWritten(p)
  BY <1>12, <1>0 DEF ScratchWritten, Move, Down, Returns, up, Busy, Dev, SeekTo, CopyRound, Advances
<1>13. CASE ScratchReadNothing(p)
  BY <1>13, <1>0 DEF ScratchReadNothing, Move, Down, Returns, up, Busy, Dev, SeekTo, CopyRound, Advances
<1>14. CASE ScratchReadFails(p)
  BY <1>14, <1>0 DEF ScratchReadFails, Move, Down, Returns, up, Busy, Dev, SeekTo, CopyRound, Advances
<1>15. CASE ScratchReadBegin(p)
  BY <1>15, <1>0 DEF ScratchReadBegin, Move, Down, Returns, up, Busy, Dev, SeekTo, CopyRound, Advances
<1>16. CASE ScratchReadRound(p)
  BY <1>16, <1>0 DEF ScratchReadRound, Move, Down, Returns, up, Busy, Dev, SeekTo, CopyRound, Advances
<1>17. CASE ScratchReadDone(p)
  BY <1>17, <1>0 DEF ScratchReadDone, Move, Down, Returns, up, Busy, Dev, SeekTo, CopyRound, Advances
<1>18. CASE ScratchSeek(p)
  BY <1>18, <1>0 DEF ScratchSeek, Move, Down, Returns, up, Busy, Dev, SeekTo, CopyRound, Advances
<1>19. QED
  BY <1>1, <1>2, <1>3, <1>4, <1>5, <1>6, <1>7, <1>8, <1>9, <1>10, <1>11, <1>12, <1>13, <1>14, <1>15, <1>16, <1>17, <1>18 DEF ScratchNext
-----------------------------------------------------------------------------
(* Types, sizes and lists                                                  *)

PCs == {"closed", "trim", "trimmed", "idle", "w_create", "w_arrays", "w_quanta", "w_begin",
        "w_start", "w_expanded", "w_copy", "r_start", "r_copy", "seek",
        "show", "astray", "oops"}

Files == [mode : {"none", "r", "w", "rw"}, dev : Devices, pos : Nat]

Lists == [sets : Nat, width : Nat, by : Nat, quantum : Nat, blocks : Nat, live : BOOLEAN]

Base == TypeOK /\ FixedInv /\ StepInv /\ LiveInv /\ ExpandInv

(* The globals have their types.                                           *)
Globals ==
  /\ sem \in [Devices -> 0 .. 1] /\ done \in Nat
  /\ heap \in Seq(Lists) /\ qset \in [Devices -> 0 .. Len(heap)]
  /\ size \in [quantum : Nat, qset : Nat] /\ data_size \in Nat
  /\ disturbed \in [Devices -> BOOLEAN]

(* A step sets only its own program's place, file and locals, to what they *)
(* may be.                                                                 *)
Own(p) ==
  /\ driver' = driver /\ leaked' \in {leaked, leaked \cup {p}}
  /\ pc' = [pc EXCEPT ![p] = pc'[p]] /\ pc'[p] \in PCs
  /\ file' = [file EXCEPT ![p] = file'[p]] /\ file'[p] \in Files
  /\ loop' = [loop EXCEPT ![p] = loop'[p]] /\ loop'[p] \in Loops
  /\ driver # "proc" => file'[p].dev = 1
  /\ Copying(p)' => Going(loop'[p])
  /\ driver \notin RunTime => size' = size
  /\ pc'[p] = "w_expanded" => driver = "scratch_to_driver" /\ qset[1] # 0

(* A step that leaves the lists alone.                                     *)
Calm(p) ==
  /\ pc'[p] \notin {"w_arrays", "w_quanta", "w_begin"}
  /\ sem' \in [Devices -> 0 .. 1] /\ done' \in Nat /\ data_size' \in Nat
  /\ size' \in [quantum : Nat, qset : Nat]
  /\ UNCHANGED <<heap, qset>>

(* What TypeOK says of one program and of the globals.                     *)
LEMMA TypeParts ==
  ASSUME TypeOK
  PROVE  /\ Globals /\ driver \in Drivers
         /\ \A q \in Procs : pc[q] \in PCs /\ file[q] \in Files /\ loop[q] \in Loops
<1>1. /\ pc \in [Procs -> PCs] /\ file \in [Procs -> Files] /\ loop \in [Procs -> Loops]
      /\ driver \in Drivers /\ Globals
  BY Zenon DEF TypeOK, PCs, Files, Globals, Lists
<1>2. QED
  BY <1>1, Zenon

(* A step of one program keeps what it leaves as it should be.             *)
LEMMA OwnStep ==
  ASSUME Base, NEW p \in Procs, Own(p), Globals', LiveInv',
         driver # "proc" => \A d \in Devices \ {1} : qset'[d] = 0,
         driver = "scratch_to_driver" /\ qset[1] # 0 => qset'[1] # 0
  PROVE  Base'
<1>1. /\ pc \in [Procs -> PCs] /\ file \in [Procs -> Files] /\ loop \in [Procs -> Loops]
      /\ driver \in Drivers /\ leaked \subseteq Procs
  BY Zenon DEF Base, TypeOK, PCs, Files
<1>2. TypeOK'
  <2>1. pc' \in [Procs -> PCs] /\ file' \in [Procs -> Files] /\ loop' \in [Procs -> Loops]
    BY <1>1, Zenon DEF Own
  <2>2. driver' \in Drivers /\ leaked' \subseteq Procs
    BY <1>1 DEF Own
  <2>3. QED
    BY <2>1, <2>2, Zenon DEF TypeOK, Globals, PCs, Files, Lists
<1>3. \A q \in Procs \ {p} : pc'[q] = pc[q] /\ file'[q] = file[q] /\ loop'[q] = loop[q]
  BY <1>1, Zenon DEF Own
<1>4. FixedInv'
  <2>1. driver' \notin RunTime => size' = [quantum |-> 3, qset |-> 2]
    BY DEF Own, Base, FixedInv
  <2>2. driver' # "proc" => \A q \in Procs : file'[q].dev = 1
    BY <1>3 DEF Own, Base, FixedInv, Dev
  <2>3. driver' # "proc" => \A d \in Devices \ {1} : qset'[d] = 0
    BY DEF Own
  <2>4. QED
    BY <2>1, <2>2, <2>3 DEF FixedInv, Dev
<1>5. StepInv'
  <2> SUFFICES ASSUME NEW q \in Procs, Copying(q)'
               PROVE  Going(loop[q])'
    BY DEF StepInv
  <2>1. CASE q = p
    BY <2>1 DEF Own, Going, Counted
  <2>2. CASE q # p
    <3>1. pc'[q] = pc[q] /\ loop'[q] = loop[q] /\ driver' = driver
      BY <1>3, <2>2 DEF Own
    <3>2. Going(loop[q])
      BY <3>1 DEF Base, StepInv, Copying
    <3>3. QED
      BY <3>1, <3>2 DEF Going, Counted
  <2>3. QED
    BY <2>1, <2>2
<1>6. ExpandInv'
  BY <1>3 DEF Own, Base, ExpandInv
<1>7. QED
  BY <1>2, <1>4, <1>5, <1>6 DEF Base

LEMMA CalmStep ==
  ASSUME Base, NEW p \in Procs, Own(p), Calm(p), disturbed' \in [Devices -> BOOLEAN]
  PROVE  Base'
<1>1. Globals
  BY TypeParts DEF Base
<1>2. Globals'
  BY <1>1, Zenon DEF Globals, Calm
<1>3. driver # "proc" => \A d \in Devices \ {1} : qset'[d] = 0
  BY DEF Base, FixedInv, Calm
<1>4. LiveInv'
  <2>1. heap' = heap /\ qset' = qset /\ driver' = driver
    BY DEF Calm, Own
  <2>2. /\ \A q \in Procs : pc'[q] \in {"w_arrays", "w_quanta"} =>
             pc'[q] = pc[q] /\ loop'[q] = loop[q]
        /\ \A q \in Procs : pc'[q] = "w_begin" => pc'[q] = pc[q] /\ loop'[q] = loop[q]
    BY SMTT(60) DEF Own, Calm, Base, TypeOK
  <2>3. QED
    BY <2>1, <2>2 DEF Base, LiveInv, HasList
<1>5. qset' = qset
  BY DEF Calm
<1>6. QED
  BY <1>2, <1>3, <1>4, <1>5, OwnStep

(* A round of copying goes on, from a file position to another.            *)
LEMMA CopiedGoes ==
  ASSUME NEW c \in Loops, Going(c), size.qset \in Nat,
         c.moved < c.total \/ (driver # "scratch_to_driver" /\ c.left > 0)
  PROVE  /\ Copied(c) \in Loops /\ Going(Copied(c)) /\ Length(c) \in Nat
         /\ c.moved < c.total
<1>1. /\ c.list \in Nat /\ c.set \in Nat /\ c.slot \in Nat /\ c.qoff \in Nat /\ c.chunk \in Int
      /\ c.left \in Int /\ c.moved \in Int /\ c.total \in Int
  BY DEF Loops
<1>2. c.moved < c.total
  <2>1. CASE driver # "scratch_to_driver" /\ c.left > 0
    <3>1. PICK q \in Nat \ {0} : c.total - c.moved > q * (c.left - 1)
      BY <2>1 DEF Going, Counted
    <3>2. q * (c.left - 1) >= 0
      BY <1>1, <2>1
    <3>3. q * (c.left - 1) \in Int
      BY <1>1
    <3>4. QED
      BY <1>1, <3>1, <3>2, <3>3
  <2>2. QED
    BY <2>1
<1>3. c.chunk > c.qoff /\ c.moved >= 0
  BY <1>2 DEF Going
<1> DEFINE n == c.chunk - c.qoff
           pending == c.total - c.moved - n
           e == Copied(c)
<1>4. /\ e = [c EXCEPT !.set = IF LastOfSet(c.slot) THEN c.set + 1 ELSE c.set,
                       !.slot = IF LastOfSet(c.slot) THEN 0 ELSE c.slot + 1,
                       !.qoff = 0,
                       !.chunk = IF pending < c.chunk THEN pending ELSE c.chunk,
                       !.left = c.left - 1,
                       !.moved = c.moved + n]
      /\ Length(c) = n
  BY DEF Copied, Length
<1>5. n \in Nat \ {0} /\ pending \in Int
  BY <1>1, <1>3
<1> HIDE DEF n, pending, e
<1>6. /\ e.set \in Nat /\ e.slot \in Nat /\ e.qoff = 0
      /\ e.chunk = (IF pending < c.chunk THEN pending ELSE c.chunk)
      /\ e.left = c.left - 1 /\ e.moved = c.moved + n /\ e.total = c.total /\ e.list = c.list
  BY <1>1, <1>4 DEF Loops
<1>7. e \in Loops
  <2>1. e = [list |-> e.list, set |-> e.set, slot |-> e.slot, qoff |-> e.qoff, chunk |-> e.chunk,
             left |-> e.left, moved |-> e.moved, total |-> e.total]
    <3>1. c = [list |-> c.list, set |-> c.set, slot |-> c.slot, qoff |-> c.qoff, chunk |-> c.chunk,
               left |-> c.left, moved |-> c.moved, total |-> c.total]
      BY DEF Loops
    <3> HIDE DEF Loops
    <3>2. QED
      BY <1>4, <3>1
  <2>2. QED
    BY <1>1, <1>5, <1>6, <2>1 DEF Loops
<1>8. e.moved >= 0 /\ (e.moved < e.total => e.chunk > e.qoff) /\ e.chunk <= c.chunk
  BY <1>1, <1>3, <1>5, <1>6 DEF pending
<1>9. driver # "scratch_to_driver" => Counted(e)
  <2> SUFFICES ASSUME driver # "scratch_to_driver"
               PROVE  Counted(e)
    OBVIOUS
  <2>1. PICK q \in Nat \ {0} :
          c.chunk <= q /\ (c.left > 0 => c.total - c.moved > q * (c.left - 1))
    BY DEF Going, Counted
  <2>2. e.chunk <= q
    BY <1>1, <1>5, <1>6, <1>8, <2>1
  <2>3. ASSUME e.left > 0
        PROVE  e.total - e.moved > q * (e.left - 1)
    <3>1. q * (c.left - 1) = q * (e.left - 1) + q /\ q * (e.left - 1) \in Int
      <4>1. c.left - 1 = (e.left - 1) + 1 /\ e.left - 1 \in Int
        BY <1>1, <1>6
      <4>2. \A k \in Int : q * (k + 1) = q * k + q /\ q * k \in Int
        OBVIOUS
      <4>3. QED
        BY <4>1, <4>2
    <3>2. c.total - c.moved > q * (c.left - 1)
      BY <1>1, <1>6, <2>1, <2>3
    <3>3. n <= q
      BY <1>1, <2>1 DEF n
    <3>4. QED
      BY <1>1, <1>5, <1>6, <3>1, <3>2, <3>3
  <2>4. QED
    BY <2>2, <2>3 DEF Counted
<1>10. QED
  BY <1>2, <1>4, <1>5, <1>7, <1>8, <1>9 DEF e, Going

(* The loop of a write begins, with a quantum to copy.                     *)
LEMMA WriteGoes ==
  ASSUME NEW l \in Nat, NEW count \in Nat, size.quantum \in Nat \ {0}
  PROVE  WriteLoop(l, count) \in Loops /\ Going(WriteLoop(l, count))
<1> DEFINE q == size.quantum
           u == DivUp(count, q)
           c == WriteLoop(l, count)
<1>1. u \in Nat /\ count > (u - 1) * q
  BY DivUpBounds
<1>2. c = [list |-> l, set |-> 0, slot |-> 0, qoff |-> 0, chunk |-> q, left |-> u, moved |-> 0,
           total |-> count]
  <2>1. c = [NoLoop EXCEPT !.list = l, !.chunk = q, !.left = u, !.total = count]
    BY DEF WriteLoop
  <2> HIDE DEF u, c, q
  <2>2. QED
    BY <2>1 DEF NoLoop
<1> HIDE DEF u, c
<1>3. c \in Loops
  BY <1>1, <1>2 DEF Loops
<1>4. (u - 1) * q = q * (u - 1) /\ q * (u - 1) \in Int
  BY <1>1
<1>5. Counted(c)
  BY <1>1, <1>2, <1>4 DEF Counted
<1>6. QED
  BY <1>2, <1>3, <1>5 DEF Going, c

(* The loop of a read begins, with a part of a quantum to copy.            *)
LEMMA ReadGoes ==
  ASSUME NEW l \in Nat, NEW pos \in Nat, NEW count \in Nat,
         pos = 0 \/ heap[l].sets \in Nat \ {0}, data_size \in Nat,
         size.quantum \in Nat \ {0}, size.qset \in Nat \ {0},
         driver # "scratch_to_driver" => pos < data_size
  PROVE  ReadLoop(l, pos, count) \in Loops /\ Going(ReadLoop(l, pos, count))
<1> DEFINE q == size.quantum
           n == BytesToRead(pos, count)
           u == DivUp(n, q)
           c == ReadLoop(l, pos, count)
<1>1. /\ c \in Loops /\ c.qoff < q /\ c.chunk = q /\ c.moved = 0 /\ c.total = n /\ c.left = u
  <2>1. StartsAt(c, l, pos, count)
    BY ReadStarts
  <2> HIDE DEF c
  <2>2. QED
    BY <2>1 DEF StartsAt
<1> HIDE DEF c
<1>2. driver # "scratch_to_driver" => Counted(c)
  <2> SUFFICES ASSUME driver # "scratch_to_driver"
               PROVE  Counted(c)
    OBVIOUS
  <2>1. n \in Nat
    BY DEF BytesToRead
  <2>2. u \in Nat /\ n > (u - 1) * q
    BY <2>1, DivUpBounds
  <2> HIDE DEF n, u
  <2>3. (u - 1) * q = q * (u - 1) /\ q * (u - 1) \in Int
    BY <2>2
  <2>4. QED
    BY <1>1, <2>1, <2>2, <2>3 DEF Counted
<1>3. QED
  BY <1>1, <1>2 DEF Going, c

(* A size of zero makes an item of zero.                                   *)
LEMMA SizesCount ==
  ASSUME Globals, item > 0
  PROVE  size.quantum \in Nat \ {0} /\ size.qset \in Nat \ {0}
BY DEF Globals, item

-----------------------------------------------------------------------------
(* Steps on the lists                                                      *)

(* Freeing changes one list.                                               *)
LEMMA FreedList ==
  ASSUME Globals, NEW d \in Devices
  PROVE  /\ Freed(d) \in Seq(Lists) /\ Len(Freed(d)) = Len(heap)
         /\ \A l \in 1 .. Len(heap) : Freed(d)[l] = IF l = qset[d] THEN Gone ELSE heap[l]
<1>1. heap \in Seq(Lists) /\ qset[d] \in 0 .. Len(heap) /\ Gone \in Lists
  BY DEF Globals, Gone, Lists
<1>2. DOMAIN heap = 1 .. Len(heap) /\ heap = [l \in DOMAIN heap |-> heap[l]]
  BY <1>1
<1>3. \A l \in 1 .. Len(heap) : Freed(d)[l] = IF l = qset[d] THEN Gone ELSE heap[l]
  BY <1>2 DEF Freed
<1>4. CASE qset[d] = 0
  <2>1. Freed(d) = heap
    BY <1>1, <1>2, <1>4 DEF Freed
  <2>2. QED
    BY <1>1, <1>3, <2>1
<1>5. CASE qset[d] # 0
  <2>1. qset[d] \in 1 .. Len(heap)
    BY <1>1, <1>5
  <2>2. Freed(d) = [heap EXCEPT ![qset[d]] = Gone]
    BY <1>2, <2>1, Zenon DEF Freed
  <2>3. Freed(d) \in Seq(Lists) /\ Len(Freed(d)) = Len(heap)
    BY <1>1, <2>1, <2>2, ExceptSeq
  <2>4. QED
    BY <1>3, <2>3
<1>6. QED
  BY <1>4, <1>5

(* What the other programs hold does not change.                           *)
LEMMA OwnOthers ==
  ASSUME TypeOK, NEW p \in Procs, Own(p)
  PROVE  /\ \A q \in Procs \ {p} : pc'[q] = pc[q] /\ file'[q] = file[q] /\ loop'[q] = loop[q]
         /\ driver' = driver
<1>1. pc \in [Procs -> PCs] /\ file \in [Procs -> Files] /\ loop \in [Procs -> Loops]
  BY Zenon DEF TypeOK, PCs, Files
<1>2. QED
  BY <1>1, ZenonT(60) DEF Own

(* The other globals have their types after the step.                      *)
Rest ==
  /\ sem \in [Devices -> 0 .. 1] /\ done \in Nat /\ size \in [quantum : Nat, qset : Nat]
  /\ data_size \in Nat /\ disturbed \in [Devices -> BOOLEAN]

(* The device's list is freed, and the device may still name it.           *)
LEMMA FreedStep ==
  ASSUME Base, NEW p \in Procs, Own(p), Rest', pc'[p] \notin {"w_arrays", "w_quanta", "w_begin"},
         NEW d \in Devices, heap' = Freed(d),
         \/ qset' = [qset EXCEPT ![d] = 0]
         \/ qset' = qset /\ driver = "completion" /\ d = 1,
         driver # "scratch_to_driver"
  PROVE  Base'
<1>1. Globals /\ TypeOK
  BY TypeParts DEF Base
<1>2. /\ heap' \in Seq(Lists) /\ Len(heap') = Len(heap) /\ Len(heap) \in Nat
      /\ \A l \in 1 .. Len(heap) : heap'[l] = IF l = qset[d] THEN Gone ELSE heap[l]
      /\ DOMAIN heap = 1 .. Len(heap) /\ DOMAIN heap' = 1 .. Len(heap)
  BY <1>1, FreedList DEF Globals
<1>3. qset \in [Devices -> 0 .. Len(heap)]
  BY <1>1 DEF Globals
<1>4. qset' \in [Devices -> 0 .. Len(heap')]
  BY <1>2, <1>3
<1>5. Globals'
  BY <1>2, <1>4, Zenon DEF Globals, Rest
<1>6. LiveInv'
  <2>1. \A e \in Devices :
          qset'[e] # 0 => qset'[e] = qset[e] /\ (e # d \/ driver = "completion")
    BY <1>3
  <2>2. \A e \in Devices \ {d} : qset'[e] # 0 => heap'[qset'[e]] = heap[qset[e]]
    BY <1>2, <1>3, <2>1 DEF Base, LiveInv
  <2>3. ASSUME NEW e \in Devices, HasList(e)'
        PROVE  heap'[qset'[e]].live /\ heap'[qset'[e]].sets >= 1
    <3>1. driver' = driver
      BY DEF Own
    <3>2. CASE e = d
      <4>1. heap'[qset'[e]] = Gone
        BY <1>2, <1>3, <2>1, <2>3, <3>2 DEF HasList
      <4>2. QED
        BY <2>1, <2>3, <3>1, <3>2, <4>1 DEF HasList, Gone
    <3>3. CASE e # d
      BY <2>1, <2>2, <2>3, <3>1, <3>3 DEF Base, LiveInv, HasList
    <3>4. QED
      BY <3>2, <3>3
  <2>4. \A e, g \in Devices : qset'[e] # 0 /\ qset'[e] = qset'[g] => e = g
    BY <2>1 DEF Base, LiveInv
  <2>5. ASSUME NEW q \in Procs, pc'[q] \in {"w_arrays", "w_quanta"}
        PROVE  /\ loop'[q].list \in DOMAIN heap' /\ \A e \in Devices : qset'[e] # loop'[q].list
               /\ heap'[loop'[q].list].live /\ heap'[loop'[q].list].sets >= 1
               /\ loop'[q].total >= 1
    <3>1. pc'[q] = pc[q] /\ loop'[q] = loop[q]
      BY <1>1, <2>5, OwnOthers
    <3>2. /\ loop[q].list \in DOMAIN heap /\ \A e \in Devices : qset[e] # loop[q].list
          /\ heap[loop[q].list].live /\ heap[loop[q].list].sets >= 1
          /\ loop[q].total >= 1
      BY <2>5, <3>1 DEF Base, LiveInv
    <3>3. heap'[loop[q].list] = heap[loop[q].list]
      BY <1>2, <3>2
    <3>4. \A e \in Devices : qset'[e] # loop[q].list
      BY <1>2, <1>3, <3>2
    <3>5. QED
      BY <1>2, <3>1, <3>2, <3>3, <3>4
  <2>6. \A q \in Procs : pc'[q] = "w_begin" => loop'[q].total >= 1
    BY <1>1, OwnOthers DEF Base, LiveInv
  <2>7. QED
    BY <2>3, <2>4, <2>5, <2>6 DEF LiveInv
<1>7. driver # "proc" => \A e \in Devices \ {1} : qset'[e] = 0
  BY <1>3 DEF Base, FixedInv
<1>8. QED
  BY <1>5, <1>6, <1>7, OwnStep

(* The device's list, if it has one, is forgotten.                         *)
LEMMA DroppedStep ==
  ASSUME Base, NEW p \in Procs, Own(p), Rest', pc'[p] \notin {"w_arrays", "w_quanta", "w_begin"},
         driver # "scratch_to_driver", heap' = heap,
         qset' = qset \/ qset' = [qset EXCEPT ![1] = 0]
  PROVE  Base'
<1>1. Globals /\ TypeOK
  BY TypeParts DEF Base
<1>2. qset \in [Devices -> 0 .. Len(heap)] /\ Len(heap) \in Nat
  BY <1>1 DEF Globals
<1>3. qset' \in [Devices -> 0 .. Len(heap')] /\ \A d \in Devices : qset'[d] \in {0, qset[d]}
  BY <1>2
<1>4. Globals'
  BY <1>1, <1>3, Zenon DEF Globals, Rest
<1>5. LiveInv'
  <2>1. \A q \in Procs : pc'[q] \in {"w_arrays", "w_quanta", "w_begin"} =>
          pc'[q] = pc[q] /\ loop'[q] = loop[q]
    BY <1>1, OwnOthers
  <2>2. ASSUME NEW q \in Procs, pc'[q] \in {"w_arrays", "w_quanta"}
        PROVE  /\ loop'[q].list \in DOMAIN heap' /\ \A d \in Devices : qset'[d] # loop'[q].list
               /\ heap'[loop'[q].list].live /\ heap'[loop'[q].list].sets >= 1
               /\ loop'[q].total >= 1
    <3>1. /\ loop[q].list \in DOMAIN heap /\ \A d \in Devices : qset[d] # loop[q].list
          /\ heap[loop[q].list].live /\ heap[loop[q].list].sets >= 1
          /\ loop[q].total >= 1
      BY <2>1, <2>2 DEF Base, LiveInv
    <3>2. loop[q].list # 0
      BY <1>1, <3>1 DEF Globals
    <3>3. QED
      BY <1>3, <2>1, <2>2, <3>1, <3>2
  <2>3. \A d, e \in Devices : qset'[d] # 0 /\ qset'[d] = qset'[e] => d = e
    BY <1>3 DEF Base, LiveInv
  <2>4. \A d \in Devices : HasList(d)' => heap'[qset'[d]].live /\ heap'[qset'[d]].sets >= 1
    BY <1>3 DEF Base, LiveInv, HasList, Own
  <2>5. \A q \in Procs : pc'[q] = "w_begin" => loop'[q].total >= 1
    BY <2>1 DEF Base, LiveInv
  <2>6. QED
    BY <2>2, <2>3, <2>4, <2>5 DEF LiveInv
<1>6. \A d \in Devices \ {1} : driver # "proc" => qset'[d] = 0
  BY <1>3 DEF Base, FixedInv
<1>7. QED
  BY <1>4, <1>5, <1>6, OwnStep

(* A list changes in its place.                                            *)
LEMMA AmendedStep ==
  ASSUME Base, NEW p \in Procs, Own(p), Rest', pc'[p] \notin {"w_arrays", "w_begin"},
         pc'[p] = "w_quanta" => pc[p] = "w_arrays" /\ loop'[p] = loop[p],
         NEW l \in 1 .. Len(heap), NEW x \in Lists, x.live, x.sets >= 1,
         heap' = [heap EXCEPT ![l] = x], qset' = qset
  PROVE  Base'
<1>1. Globals /\ TypeOK
  BY TypeParts DEF Base
<1>2. /\ heap' \in Seq(Lists) /\ Len(heap') = Len(heap)
      /\ \A k \in 1 .. Len(heap) : heap'[k] = IF k = l THEN x ELSE heap[k]
  <2>1. heap \in Seq(Lists)
    BY <1>1 DEF Globals
  <2>2. QED
    BY <2>1, ExceptSeq
<1>3. /\ qset \in [Devices -> 0 .. Len(heap)]
      /\ DOMAIN heap = 1 .. Len(heap) /\ DOMAIN heap' = 1 .. Len(heap) /\ Len(heap) \in Nat
  BY <1>1, <1>2 DEF Globals
<1>4. Globals'
  <2>1. qset' \in [Devices -> 0 .. Len(heap')]
    BY <1>2, <1>3
  <2>2. QED
    BY <1>2, <2>1, Zenon DEF Globals, Rest
<1>5. LiveInv'
  <2>1. \A k \in 1 .. Len(heap) :
          heap[k].live /\ heap[k].sets >= 1 => heap'[k].live /\ heap'[k].sets >= 1
    BY <1>2
  <2>2. \A e \in Devices : HasList(e)' => heap'[qset'[e]].live /\ heap'[qset'[e]].sets >= 1
    <3>1. driver' = driver /\ \A e \in Devices : qset[e] # 0 => qset[e] \in 1 .. Len(heap)
      BY <1>3 DEF Own
    <3>2. QED
      BY <1>2, <2>1, <3>1 DEF Base, LiveInv, HasList
  <2>3. ASSUME NEW q \in Procs, pc'[q] \in {"w_arrays", "w_quanta"}
        PROVE  /\ loop'[q].list \in DOMAIN heap' /\ \A e \in Devices : qset'[e] # loop'[q].list
               /\ heap'[loop'[q].list].live /\ heap'[loop'[q].list].sets >= 1
               /\ loop'[q].total >= 1
    <3>1. pc[q] \in {"w_arrays", "w_quanta"} /\ loop'[q] = loop[q]
      BY <1>1, <2>3, OwnOthers
    <3>2. /\ loop[q].list \in DOMAIN heap /\ \A e \in Devices : qset[e] # loop[q].list
          /\ heap[loop[q].list].live /\ heap[loop[q].list].sets >= 1
          /\ loop[q].total >= 1
      BY <3>1 DEF Base, LiveInv
    <3>3. QED
      BY <1>3, <2>1, <3>1, <3>2
  <2>4. \A q \in Procs : pc'[q] = "w_begin" => loop'[q].total >= 1
    BY <1>1, OwnOthers DEF Base, LiveInv
  <2>5. QED
    BY <2>2, <2>3, <2>4 DEF Base, LiveInv
<1>6. driver # "proc" => \A e \in Devices \ {1} : qset'[e] = 0
  BY DEF Base, FixedInv
<1>7. QED
  BY <1>4, <1>5, <1>6, OwnStep

(* A list is made, for a device or, by the drivers with ioctl, for later.  *)
LEMMA AppendedStep ==
  ASSUME Base, NEW p \in Procs, Own(p), Rest', pc'[p] # "w_quanta",
         NEW d \in Devices, driver # "proc" => d = 1,
         NEW h \in {heap, Freed(d)}, NEW x \in Lists, x.live, x.sets >= 1,
         heap' = Append(h, x), 
         \/ h = heap /\ qset' = qset /\ pc'[p] = "w_arrays" /\ loop'[p].list = Len(heap')
         \/ qset' = [qset EXCEPT ![d] = Len(heap')] /\ pc'[p] # "w_arrays",
         pc'[p] \in {"w_arrays", "w_begin"} => loop'[p].total >= 1
  PROVE  Base'
<1>1. Globals /\ TypeOK
  BY TypeParts DEF Base
<1>2. /\ heap \in Seq(Lists) /\ Len(heap) \in Nat /\ DOMAIN heap = 1 .. Len(heap)
      /\ qset \in [Devices -> 0 .. Len(heap)]
  BY <1>1 DEF Globals
<1>3. /\ h \in Seq(Lists) /\ Len(h) = Len(heap)
      /\ \A k \in 1 .. Len(heap) : h[k] = heap[k] \/ (h # heap /\ k = qset[d])
  BY <1>1, <1>2, FreedList
<1>4. /\ heap' \in Seq(Lists) /\ Len(heap') = Len(heap) + 1
      /\ \A k \in 1 .. Len(heap) : heap'[k] = h[k]
      /\ heap'[Len(heap) + 1] = x
  BY <1>3, AppendProperties
<1>5. DOMAIN heap' = 1 .. Len(heap) + 1
  BY <1>2, <1>4
<1>6. qset' \in [Devices -> 0 .. Len(heap')]
  BY <1>2, <1>4
<1>7. Globals'
  BY <1>4, <1>6, Zenon DEF Globals, Rest
<1>8. driver # "proc" => \A e \in Devices \ {1} : qset'[e] = 0
  BY <1>2 DEF Base, FixedInv
<1>9. \A e \in Devices :
        \/ qset'[e] = qset[e] /\ (e # d \/ h = heap)
        \/ qset'[e] = Len(heap) + 1 /\ e = d /\ qset' # qset
  <2>1. CASE qset' = qset
    BY <1>2, <1>4, <2>1
  <2>2. CASE qset' # qset
    BY <1>2, <1>4, <2>2
  <2>3. QED
    BY <2>1, <2>2
<1>10. \A e \in Devices : HasList(e)' => heap'[qset'[e]].live /\ heap'[qset'[e]].sets >= 1
  <2> SUFFICES ASSUME NEW e \in Devices, HasList(e)'
               PROVE  heap'[qset'[e]].live /\ heap'[qset'[e]].sets >= 1
    OBVIOUS
  <2>0. qset'[e] # 0 /\ driver' = driver
    BY DEF HasList, Own
  <2>1. CASE qset'[e] = Len(heap) + 1
    BY <1>4, <2>1
  <2>2. CASE qset'[e] # Len(heap) + 1
    <3>1. qset'[e] = qset[e] /\ qset[e] \in 1 .. Len(heap) /\ (e # d \/ h = heap)
      BY <1>2, <1>9, <2>0, <2>2
    <3>2. h[qset[e]] = heap[qset[e]]
      BY <1>3, <3>1 DEF Base, LiveInv
    <3>3. heap'[qset'[e]] = heap[qset[e]] /\ HasList(e)
      BY <1>4, <2>0, <3>1, <3>2 DEF HasList
    <3>4. QED
      BY <3>3 DEF Base, LiveInv
  <2>3. QED
    BY <2>1, <2>2
<1>11. \A e, g \in Devices : qset'[e] # 0 /\ qset'[e] = qset'[g] => e = g
  <2>1. \A e \in Devices : qset[e] \in Nat /\ qset[e] # Len(heap) + 1
    BY <1>2
  <2>2. QED
    BY <1>9, <2>1 DEF Base, LiveInv
<1>12. ASSUME NEW q \in Procs, pc'[q] \in {"w_arrays", "w_quanta"}
       PROVE  /\ loop'[q].list \in DOMAIN heap' /\ \A e \in Devices : qset'[e] # loop'[q].list
              /\ heap'[loop'[q].list].live /\ heap'[loop'[q].list].sets >= 1
              /\ loop'[q].total >= 1
  <2>1. CASE q = p
    <3>1. qset' = qset /\ loop'[p].list = Len(heap) + 1 /\ loop'[p].total >= 1
      BY <1>4, <1>12, <2>1
    <3>2. \A e \in Devices : qset'[e] # Len(heap) + 1
      BY <1>2, <3>1
    <3>3. QED
      BY <1>2, <1>4, <1>5, <2>1, <3>1, <3>2
  <2>2. CASE q # p
    <3>1. pc'[q] = pc[q] /\ loop'[q] = loop[q]
      BY <1>1, <2>2, OwnOthers
    <3>2. /\ loop[q].list \in 1 .. Len(heap) /\ \A e \in Devices : qset[e] # loop[q].list
          /\ heap[loop[q].list].live /\ heap[loop[q].list].sets >= 1
          /\ loop[q].total >= 1
      BY <1>2, <1>12, <3>1 DEF Base, LiveInv
    <3>3. heap'[loop[q].list] = heap[loop[q].list]
      BY <1>3, <1>4, <3>2
    <3>4. \A e \in Devices : qset'[e] # loop[q].list
      BY <1>2, <1>9, <3>2
    <3>5. loop[q].list \in DOMAIN heap'
      BY <1>2, <1>5, <3>2
    <3>6. QED
      BY <3>1, <3>2, <3>3, <3>4, <3>5
  <2>3. QED
    BY <2>1, <2>2
<1>13. \A q \in Procs : pc'[q] = "w_begin" => loop'[q].total >= 1
  BY <1>1, OwnOthers DEF Base, LiveInv
<1>14. LiveInv'
  BY <1>10, <1>11, <1>12, <1>13 DEF LiveInv
<1>15. qset[1] # 0 => qset'[1] # 0
  BY <1>2, <1>9, ListAssumption
<1>16. QED
  BY <1>7, <1>8, <1>14, <1>15, OwnStep

(* A round of copying, with or without a file position that advances.      *)
LEMMA RoundOwn ==
  ASSUME Base, NEW p \in Procs, NEW at \in {"w_copy", "r_copy"}, CopyRound(p, at),
         loop[p].moved < loop[p].total \/ (driver # "scratch_to_driver" /\ loop[p].left > 0),
         file' = file \/ Advances(p), driver \notin RunTime => size' = size
  PROVE  /\ Own(p) /\ pc[p] = at /\ pc'[p] \in {at, "astray"}
         /\ pc'[p] = "astray" <=> ~Fits(loop[p])
<1>1. Typed
  BY WellTyped DEF Base
<1>2. pc[p] = at /\ loop[p] \in Loops /\ file[p] \in Files /\ size.qset \in Nat
  <2>1. Globals
    BY TypeParts DEF Base
  <2>2. QED
    BY <1>1, <2>1 DEF CopyRound, Move, Typed, Files, Globals
<1>3. Going(loop[p])
  BY <1>2 DEF Base, StepInv, Copying
<1>4. /\ Copied(loop[p]) \in Loops /\ Going(Copied(loop[p])) /\ Length(loop[p]) \in Nat
  BY <1>2, <1>3, CopiedGoes
<1>5. /\ pc' = [pc EXCEPT ![p] = IF Fits(loop[p]) THEN at ELSE "astray"]
      /\ loop' = [loop EXCEPT ![p] = IF Fits(loop[p]) THEN Copied(loop[p]) ELSE loop[p]]
      /\ driver' = driver /\ leaked' = leaked
  BY <1>1 DEF CopyRound, Move, Typed
<1>6. file' = [file EXCEPT ![p] = file'[p]] /\ file'[p] \in Files /\ file'[p].dev = file[p].dev
  <2>1. CASE file' = file
    BY <1>1, <1>2, <2>1 DEF Typed
  <2>2. CASE Advances(p)
    <3>1. CASE Fits(loop[p])
      <4>1. file' = [file EXCEPT ![p].pos = file[p].pos + Length(loop[p])]
        BY <1>1, <2>2, <3>1 DEF Advances, Typed
      <4>2. QED
        BY <1>1, <1>2, <1>4, <4>1 DEF Typed, Files
    <3>2. CASE ~Fits(loop[p])
      BY <1>1, <1>2, <2>2, <3>2 DEF Advances, Typed
    <3>3. QED
      BY <3>1, <3>2
  <2>3. QED
    BY <2>1, <2>2
<1>7. pc'[p] = (IF Fits(loop[p]) THEN at ELSE "astray") /\ pc'[p] \in {at, "astray"}
  BY <1>1, <1>5 DEF Typed
<1>8. loop'[p] = (IF Fits(loop[p]) THEN Copied(loop[p]) ELSE loop[p])
  BY <1>1, <1>5 DEF Typed
<1>9. loop'[p] \in Loops /\ Going(loop'[p])
  BY <1>2, <1>3, <1>4, <1>8
<1>10. driver # "proc" => file'[p].dev = 1
  BY <1>6 DEF Base, FixedInv, Dev
<1>11. Own(p)
  <2>1. pc' = [pc EXCEPT ![p] = pc'[p]] /\ pc'[p] \in PCs
    BY <1>1, <1>5, <1>7 DEF Typed, PCs
  <2>2. loop' = [loop EXCEPT ![p] = loop'[p]]
    BY <1>1, <1>5, <1>8 DEF Typed
  <2>3. pc'[p] # "w_expanded"
    BY <1>7
  <2>4. QED
    BY <1>5, <1>6, <1>9, <1>10, <2>1, <2>2, <2>3 DEF Own
<1>12. QED
  BY <1>2, <1>7, <1>11

(* What every step finds: types, and the semaphores' after up and Down.    *)
LEMMA Found ==
  ASSUME Base, NEW p \in Procs
  PROVE  /\ Typed /\ Globals /\ Rest
         /\ pc[p] \in PCs /\ file[p] \in Files /\ loop[p] \in Loops
         /\ Dev(p) \in Devices /\ (driver # "proc" => Dev(p) = 1) /\ 1 \in Devices
         /\ NoLoop \in Loops /\ Closed \in Files
         /\ \A d \in Devices : /\ [sem EXCEPT ![d] = 0] \in [Devices -> 0 .. 1]
                            /\ [sem EXCEPT ![d] = 1] \in [Devices -> 0 .. 1]
         /\ pc = [pc EXCEPT ![p] = pc[p]] /\ file = [file EXCEPT ![p] = file[p]]
         /\ loop = [loop EXCEPT ![p] = loop[p]]
<1>1. /\ Typed /\ Globals /\ pc[p] \in PCs /\ file[p] \in Files /\ loop[p] \in Loops
  BY TypeParts, WellTyped DEF Base
<1>2. /\ Rest
      /\ \A d \in Devices : /\ [sem EXCEPT ![d] = 0] \in [Devices -> 0 .. 1]
                            /\ [sem EXCEPT ![d] = 1] \in [Devices -> 0 .. 1]
  <2>1. 0 \in 0 .. 1 /\ 1 \in 0 .. 1
    OBVIOUS
  <2>2. QED
    BY <1>1, <2>1, Zenon DEF Globals, Rest
<1>3. Dev(p) \in Devices /\ (driver # "proc" => Dev(p) = 1) /\ 1 \in Devices
  BY <1>1, ListAssumption DEF Base, FixedInv, Dev, Files
<1>4. NoLoop \in Loops /\ Closed \in Files
  BY <1>3 DEF NoLoop, Loops, Closed, Files
<1>5. /\ pc = [pc EXCEPT ![p] = pc[p]] /\ file = [file EXCEPT ![p] = file[p]]
      /\ loop = [loop EXCEPT ![p] = loop[p]]
  BY DEF Base, TypeOK
<1>6. QED
  BY <1>1, <1>2, <1>3, <1>4, <1>5

(* The other drivers' sizes.                                               *)
LEMMA FixedSizes ==
  ASSUME Base, driver \notin RunTime
  PROVE  size.quantum = 3 /\ size.qset = 2 /\ item = 6
BY DEF Base, FixedInv, item

(* A read of a device with a list begins.                                  *)
LEMMA ReadBegins ==
  ASSUME Base, NEW p \in Procs, NEW d \in Devices, NEW count \in Counts, qset[d] # 0, item > 0,
         driver # "scratch_to_driver" => file[p].pos < data_size,
         file[p].pos = 0 \/ HasList(d)
  PROVE  /\ ReadLoop(qset[d], file[p].pos, count) \in Loops
         /\ Going(ReadLoop(qset[d], file[p].pos, count))
<1>1. Globals /\ file[p] \in Files
  BY TypeParts DEF Base
<1>2. size.quantum \in Nat \ {0} /\ size.qset \in Nat \ {0}
  BY <1>1, SizesCount
<1>3. ASSUME HasList(d)
      PROVE  heap[qset[d]].sets \in Nat \ {0}
  <2>1. heap[qset[d]] \in Lists /\ heap[qset[d]].sets >= 1
    BY <1>1, <1>3 DEF Globals, Base, LiveInv
  <2>2. QED
    BY <2>1 DEF Lists
<1>4. count \in Nat /\ qset[d] \in Nat /\ file[p].pos \in Nat /\ data_size \in Nat
  BY <1>1, ListAssumption DEF Globals, Files
<1>5. file[p].pos = 0 \/ heap[qset[d]].sets \in Nat \ {0}
  BY <1>3
<1>6. QED
  BY <1>2, <1>4, <1>5, ReadGoes

(* A list for something to write has a set.                                *)
LEMMA ListMade ==
  ASSUME Base, driver \notin RunTime, NEW count \in Nat \ {0}
  PROVE  NewList(count) \in Lists /\ NewList(count).live /\ NewList(count).sets >= 1
<1>1. size.quantum = 3 /\ size.qset = 2 /\ item = 6
  BY FixedSizes
<1>2. DivUp(count, 6) \in Nat /\ DivUp(count, 6) >= 1 /\ DivUp(count, 3) \in Nat
  <2>1. DivUp(count, 6) \in Nat /\ DivUp(count, 6) > 0
    BY 6 \in Nat \ {0}, count > 0, DivUpBounds
  <2>2. DivUp(count, 3) \in Nat
    BY 3 \in Nat \ {0}, DivUpBounds
  <2>3. QED
    BY <2>1, <2>2
<1>3. NewList(count) = [sets |-> DivUp(count, 6), width |-> 2, by |-> 2, quantum |-> 3,
                        blocks |-> DivUp(count, 3), live |-> TRUE]
  BY <1>1 DEF NewList
<1>4. QED
  BY <1>2, <1>3 DEF Lists

LEMMA IoctlBase ==
  ASSUME Base, LocksReturned, driver \in RunTime, NEW p \in Procs, IoctlNext(p)
  PROVE  Base' /\ Own(p)
<1> USE DEF Typed, Rest
<1>0. /\ Typed /\ Globals /\ Rest
      /\ pc[p] \in PCs /\ file[p] \in Files /\ loop[p] \in Loops
      /\ Dev(p) \in Devices /\ (driver # "proc" => Dev(p) = 1) /\ 1 \in Devices
      /\ NoLoop \in Loops /\ Closed \in Files
      /\ \A d \in Devices : /\ [sem EXCEPT ![d] = 0] \in [Devices -> 0 .. 1]
                            /\ [sem EXCEPT ![d] = 1] \in [Devices -> 0 .. 1]
      /\ pc = [pc EXCEPT ![p] = pc[p]] /\ file = [file EXCEPT ![p] = file[p]]
      /\ loop = [loop EXCEPT ![p] = loop[p]]
  BY Found
<1>1. CASE IoctlOpen(p)
  <2>1. PICK mode \in {"r", "w"} :
           /\ \/ mode = "r" /\ Move(p, "closed", "idle") /\ UNCHANGED sem
              \/ mode = "w" /\ Down(p, 1, "closed", "trim")
           /\ file' = [file EXCEPT ![p] = [mode |-> mode, dev |-> 1, pos |-> 0]]
    BY <1>1 DEF IoctlOpen
  <2>2. UNCHANGED <<loop, done, heap, qset, size, data_size, disturbed>>
    BY <1>1 DEF IoctlOpen
  <2>3. /\ pc' = [pc EXCEPT ![p] = pc'[p]] /\ pc'[p] \in {"idle", "trim"}
        /\ driver' = driver /\ leaked' = leaked
    BY <1>0, <2>1 DEF Move, Down
  <2>4. file' = [file EXCEPT ![p] = file'[p]] /\ file'[p] \in Files /\ file'[p].dev = 1
    BY <1>0, <2>1 DEF Files
  <2>5. Own(p)
    BY <1>0, <2>2, <2>3, <2>4 DEF Own, Copying, PCs
  <2>6. sem' \in [Devices -> 0 .. 1]
    BY <1>0, <2>1 DEF Move, Down
  <2>7. Calm(p)
    BY <1>0, <2>2, <2>3, <2>6 DEF Calm
  <2>8. disturbed' \in [Devices -> BOOLEAN]
    BY <1>0, <2>2, Zenon
  <2>9. QED
    BY <2>5, <2>7, <2>8, CalmStep
<1>2. CASE IoctlClose(p)
  <2>1. Own(p) /\ Calm(p)
    BY <1>0, <1>2, ListAssumption DEF IoctlClose, Own, Calm, Move, Down, Returns, up, SeekTo, Dev, Copying, RunTime, PCs,
       Files, Closed
  <2>2. disturbed' \in [Devices -> BOOLEAN]
    BY <1>0, <1>2, Zenon DEF IoctlClose, Noticed, SeekTo
  <2>3. QED
    BY <2>1, <2>2, CalmStep
<1>4. CASE ioctl_dev(p)
  <2>1. Own(p) /\ Calm(p)
    BY <1>0, <1>4, ListAssumption DEF ioctl_dev, Own, Calm, Move, Down, Returns, up, SeekTo, Dev, Copying, RunTime, PCs,
       Files, Closed
  <2>2. disturbed' \in [Devices -> BOOLEAN]
    BY <1>0, <1>4, Zenon DEF ioctl_dev, Noticed, SeekTo
  <2>3. QED
    BY <2>1, <2>2, CalmStep
<1>5. CASE IoctlWrite(p)
  <2>1. Own(p) /\ Calm(p)
    BY <1>0, <1>5, ListAssumption DEF IoctlWrite, Own, Calm, Move, Down, Returns, up, SeekTo, Dev, Copying, RunTime, PCs,
       Files, Closed
  <2>2. disturbed' \in [Devices -> BOOLEAN]
    BY <1>0, <1>5, Zenon DEF IoctlWrite, Noticed, SeekTo
  <2>3. QED
    BY <2>1, <2>2, CalmStep
<1>6. CASE IoctlTooLarge(p)
  <2>1. Own(p) /\ Calm(p)
    BY <1>0, <1>6, ListAssumption DEF IoctlTooLarge, Own, Calm, Move, Down, Returns, up, SeekTo, Dev, Copying, RunTime, PCs,
       Files, Closed
  <2>2. disturbed' \in [Devices -> BOOLEAN]
    BY <1>0, <1>6, Zenon DEF IoctlTooLarge, Noticed, SeekTo
  <2>3. QED
    BY <2>1, <2>2, CalmStep
<1>8. CASE IoctlOopses(p)
  <2>1. Own(p) /\ Calm(p)
    BY <1>0, <1>8, ListAssumption DEF IoctlOopses, Own, Calm, Move, Down, Returns, up, SeekTo, Dev, Copying, RunTime, PCs,
       Files, Closed
  <2>2. disturbed' \in [Devices -> BOOLEAN]
    BY <1>0, <1>8, Zenon DEF IoctlOopses, Noticed, SeekTo
  <2>3. QED
    BY <2>1, <2>2, CalmStep
<1>15. CASE IoctlRead(p)
  <2>1. Own(p) /\ Calm(p)
    BY <1>0, <1>15, ListAssumption DEF IoctlRead, Own, Calm, Move, Down, Returns, up, SeekTo, Dev, Copying, RunTime, PCs,
       Files, Closed
  <2>2. disturbed' \in [Devices -> BOOLEAN]
    BY <1>0, <1>15, Zenon DEF IoctlRead, Noticed, SeekTo
  <2>3. QED
    BY <2>1, <2>2, CalmStep
<1>18. CASE IoctlReadDone(p)
  <2>1. Own(p) /\ Calm(p)
    BY <1>0, <1>18, ListAssumption DEF IoctlReadDone, Own, Calm, Move, Down, Returns, up, SeekTo, Dev, Copying, RunTime, PCs,
       Files, Closed
  <2>2. disturbed' \in [Devices -> BOOLEAN]
    BY <1>0, <1>18, Zenon DEF IoctlReadDone, Noticed, SeekTo
  <2>3. QED
    BY <2>1, <2>2, CalmStep
<1>19. CASE IoctlSeek(p)
  <2>0. UNCHANGED <<done, heap, qset, size, data_size, disturbed>>
    BY <1>19 DEF IoctlSeek
  <2>a. ASSUME Down(p, 1, "idle", "seek"), UNCHANGED <<file, loop>>
        PROVE  Own(p) /\ Calm(p)
    BY <1>0, <2>0, <2>a DEF Own, Calm, Move, Down, Dev, Copying, RunTime, PCs
  <2>b. ASSUME Returns(p, "seek"), up(p), SeekTo(p)
        PROVE  Own(p) /\ Calm(p)
    BY <1>0, <2>0, <2>b, ListAssumption DEF Own, Calm, Move, Returns, up, SeekTo, Dev, Copying, RunTime, PCs, Files
  <2>1. Own(p) /\ Calm(p)
    BY <1>19, <2>a, <2>b DEF IoctlSeek
  <2>2. disturbed' \in [Devices -> BOOLEAN]
    BY <1>0, <1>19, Zenon DEF IoctlSeek, Noticed, SeekTo
  <2>3. QED
    BY <2>1, <2>2, CalmStep
<1>20. CASE scull_seq_show(p)
  <2>0. \/ Down(p, 1, "closed", "show")
        \/ Move(p, "show", "closed") /\ up(p)
    BY <1>20 DEF scull_seq_show
  <2>a. UNCHANGED <<file, loop, done, heap, qset, size, data_size, disturbed>>
    BY <1>20 DEF scull_seq_show
  <2>b. ASSUME Down(p, 1, "closed", "show")
        PROVE  Own(p) /\ Calm(p)
    BY <1>0, <2>a, <2>b DEF Own, Calm, Move, Down, Dev, Copying, RunTime, PCs
  <2>c. ASSUME Move(p, "show", "closed"), up(p)
        PROVE  Own(p) /\ Calm(p)
    BY <1>0, <2>a, <2>c DEF Own, Calm, Move, up, Dev, Copying, RunTime, PCs
  <2>1. Own(p) /\ Calm(p)
    BY <2>0, <2>b, <2>c
  <2>2. disturbed' \in [Devices -> BOOLEAN]
    BY <1>0, <1>20, Zenon DEF scull_seq_show, Noticed, SeekTo
  <2>3. QED
    BY <2>1, <2>2, CalmStep
<1>3. CASE IoctlTrim(p)
  <2>1. CASE pc'[p] = "astray"
    <3>1. Own(p) /\ Calm(p)
      BY <1>0, <1>3, <2>1 DEF IoctlTrim, Own, Calm, Move, Returns, up, Dev, Copying, RunTime, PCs, Files
    <3>2. disturbed' \in [Devices -> BOOLEAN]
      BY <1>0, <1>3, Zenon DEF IoctlTrim
    <3>3. QED
      BY <3>1, <3>2, CalmStep
  <2>2. CASE pc'[p] # "astray"
    <3>1. /\ Returns(p, "trim") /\ up(p) /\ heap' = Freed(1) /\ qset' = [qset EXCEPT ![1] = 0]
          /\ UNCHANGED <<file, done, size, data_size, disturbed>>
      BY <1>0, <1>3, <2>2 DEF IoctlTrim, Move
    <3>2. Own(p) /\ pc'[p] = "idle"
      BY <1>0, <3>1 DEF Own, Move, Returns, up, Dev, Copying, RunTime, PCs, Files
    <3>3. Rest'
      BY <1>0, <3>1, Zenon DEF up
    <3>4. QED
      BY <1>0, <3>1, <3>2, <3>3, FreedStep DEF RunTime
  <2>3. QED
    BY <2>1, <2>2
<1>7. CASE IoctlCreateFails(p)
  <2>1. /\ Returns(p, "w_create") \/ Returns(p, "w_quanta")
        /\ up(p) /\ heap' = Freed(1) /\ qset' = [qset EXCEPT ![1] = 0]
        /\ UNCHANGED <<file, done, size, data_size, disturbed>>
    BY <1>7 DEF IoctlCreateFails
  <2>2. Own(p) /\ pc'[p] = "idle"
    BY <1>0, <2>1 DEF Own, Move, Returns, up, Dev, Copying, RunTime, PCs, Files
  <2>3. Rest'
    BY <1>0, <2>1, Zenon DEF up
  <2>4. QED
    BY <1>0, <2>1, <2>2, <2>3, FreedStep DEF RunTime
<1>9. CASE create_scullqset(p)
  <2>1. PICK count \in Counts :
          /\ 0 < count /\ count <= device_size
          /\ heap' = Append(heap, [sets |-> DivUp(count, item), width |-> 0, by |-> 0,
                                   quantum |-> 0, blocks |-> 0, live |-> TRUE])
          /\ loop' = [loop EXCEPT ![p] = [NoLoop EXCEPT !.list = Len(heap'), !.total = count]]
    BY <1>9, Zenon DEF create_scullqset
  <2> DEFINE x == [sets |-> DivUp(count, item), width |-> 0, by |-> 0,
                   quantum |-> 0, blocks |-> 0, live |-> TRUE]
  <2>2. count \in Nat /\ item \in Nat \ {0}
    <3>1. size.quantum \in Nat \ {0} /\ size.qset \in Nat \ {0}
      BY <1>0, <1>9, SizesCount DEF create_scullqset
    <3>2. QED
      BY <3>1, ListAssumption, Product DEF item
  <2>3. DivUp(count, item) \in Nat /\ DivUp(count, item) >= 1
    BY <2>1, <2>2, DivUpBounds
  <2>4. x \in Lists /\ x.live /\ x.sets >= 1
    BY <2>3 DEF Lists
  <2>5. heap' = Append(heap, x)
    BY <2>1
  <2> HIDE DEF x
  <2>6. Len(heap') \in Nat
    BY <1>0, <2>4, <2>5, AppendProperties DEF Globals
  <2>7. loop' = [loop EXCEPT ![p] = loop'[p]] /\ loop'[p] \in Loops
    <3> DEFINE z == [NoLoop EXCEPT !.list = Len(heap'), !.total = count]
               n == Len(heap')
    <3>1. loop' = [loop EXCEPT ![p] = z]
      BY <2>1
    <3>2. z \in Loops
      <4>1. n \in Nat
        BY <2>6
      <4> HIDE DEF n
      <4>2. [NoLoop EXCEPT !.list = n, !.total = count] \in Loops
        <5> DEFINE y == [NoLoop EXCEPT !.list = n, !.total = count]
        <5>0. y = [NoLoop EXCEPT !.list = n, !.total = count]
          OBVIOUS
        <5> HIDE DEF y
        <5>1. y = [list |-> n, set |-> 0, slot |-> 0, qoff |-> 0, chunk |-> 0, left |-> 0,
                   moved |-> 0, total |-> count]
          BY <5>0 DEF NoLoop
        <5>2. y \in Loops
          BY <2>2, <4>1, <5>1 DEF Loops
        <5>3. QED
          BY <5>2 DEF y
      <4>3. QED
        BY <4>2 DEF n
    <3> HIDE DEF z
    <3>3. QED
      BY <1>0, <3>1, <3>2
  <2>8. loop'[p].list = Len(heap') /\ loop'[p].total = count
    BY <1>0, <2>1 DEF NoLoop
  <2>9. Own(p) /\ pc'[p] = "w_arrays"
    BY <1>0, <1>9, <2>7 DEF create_scullqset, Own, Move, Returns, up, Dev, Copying, RunTime, PCs, Files
  <2>10. Rest' /\ qset' = qset
    <3>1. disturbed' \in [Devices -> BOOLEAN]
      BY <1>0, <1>9 DEF create_scullqset
    <3>2. QED
      BY <1>0, <1>9, <3>1, Zenon DEF create_scullqset
  <2>11. /\ heap \in {heap, Freed(1)} /\ pc'[p] # "w_quanta" /\ loop'[p].total >= 1
         /\ \/ heap = heap /\ qset' = qset /\ pc'[p] = "w_arrays" /\ loop'[p].list = Len(heap')
            \/ qset' = [qset EXCEPT ![1] = Len(heap')] /\ pc'[p] # "w_arrays"
    BY <2>1, <2>2, <2>8, <2>9, <2>10
  <2>12. QED
    BY <1>0, <2>4, <2>5, <2>9, <2>10, <2>11, AppendedStep
<1>10. CASE create_qset(p)
  <2> DEFINE l == loop[p].list
             x == [heap[l] EXCEPT !.width = size.qset]
  <2>1. l \in 1 .. Len(heap) /\ heap[l].live /\ heap[l].sets >= 1 /\ heap[l] \in Lists
    BY <1>0, <1>10 DEF create_qset, Move, Base, LiveInv, Globals
  <2>2. heap' = [heap EXCEPT ![l] = x]
    BY <1>0, <1>10, <2>1 DEF create_qset, Globals
  <2>3. x \in Lists /\ x.live /\ x.sets >= 1
    BY <1>0, <2>1 DEF Lists
  <2>4. Own(p) /\ pc'[p] = "w_quanta" /\ pc[p] = "w_arrays" /\ loop'[p] = loop[p]
    BY <1>0, <1>10 DEF create_qset, Own, Move, Returns, up, Dev, Copying, RunTime, PCs, Files
  <2>5. Rest' /\ qset' = qset
    BY <1>0, <1>10, Zenon DEF create_qset
  <2> HIDE DEF l, x
  <2>6. QED
    BY <2>1, <2>2, <2>3, <2>4, <2>5, AmendedStep
<1>12. CASE IoctlBegin(p)
  <2>1. Going(WriteLoop(loop[p].list, loop[p].total)) /\ WriteLoop(loop[p].list, loop[p].total) \in Loops
    <3>1. loop[p].list \in Nat /\ loop[p].total \in Nat
      BY <1>0, <1>12 DEF IoctlBegin, Move, Base, LiveInv, Loops
    <3>2. size.quantum \in Nat \ {0}
      BY <1>0, <1>12 DEF IoctlBegin
    <3>3. QED
      BY <3>1, <3>2, WriteGoes
  <2>2. Own(p) /\ Calm(p)
    BY <1>0, <1>12, <2>1 DEF IoctlBegin, Own, Calm, Move, Returns, up, Dev, Copying, RunTime, PCs, Files
  <2>3. disturbed' \in [Devices -> BOOLEAN]
    BY <1>0, <1>12, Zenon DEF IoctlBegin
  <2>4. QED
    BY <2>2, <2>3, CalmStep
<1>13. CASE IoctlWriteRound(p)
  <2>1. Own(p) /\ pc'[p] \in {"w_copy", "astray"}
    BY <1>13, RoundOwn DEF IoctlWriteRound, RunTime
  <2>2. Calm(p)
    BY <1>0, <1>13, <2>1 DEF IoctlWriteRound, Calm
  <2>3. disturbed' \in [Devices -> BOOLEAN]
    BY <1>0, <1>13, Zenon DEF IoctlWriteRound
  <2>4. QED
    BY <2>1, <2>2, <2>3, CalmStep
<1>14. CASE IoctlWritten(p)
  <2>1. loop[p].moved \in Nat
    BY <1>0, <1>14 DEF IoctlWritten, Returns, Move, Base, StepInv, Going, Copying, Loops
  <2>2. Own(p) /\ Calm(p)
    BY <1>0, <1>14, <2>1 DEF IoctlWritten, EndsAt, Own, Calm, Move, Returns, up, Dev, Copying, RunTime, PCs, Files
  <2>3. disturbed' \in [Devices -> BOOLEAN]
    BY <1>0, <1>14, Zenon DEF IoctlWritten
  <2>4. QED
    BY <2>2, <2>3, CalmStep
<1>16. CASE IoctlReadBegin(p)
  <2>1. CASE Returns(p, "r_start") /\ up(p)
    <3>1. Own(p) /\ Calm(p)
      BY <1>0, <1>16, <2>1 DEF IoctlReadBegin, Own, Calm, Move, Returns, up, Dev, Copying, RunTime, PCs, Files
    <3>2. disturbed' \in [Devices -> BOOLEAN]
      BY <1>0, <1>16, Zenon DEF IoctlReadBegin
    <3>3. QED
      BY <3>1, <3>2, CalmStep
  <2>2. CASE ~(Returns(p, "r_start") /\ up(p))
    <3>1. /\ file[p].pos < data_size /\ qset[1] # 0 /\ item > 0
          /\ Move(p, "r_start", "r_copy") /\ UNCHANGED sem
          /\ UNCHANGED <<file, done, heap, qset, size, data_size, disturbed>>
      BY <1>0, <1>16, <2>2 DEF IoctlReadBegin, Globals, Files
    <3>2. PICK count \in Counts : loop' = [loop EXCEPT ![p] = ReadLoop(qset[1], file[p].pos, count)]
      BY <1>16, <2>2 DEF IoctlReadBegin
    <3> DEFINE c == ReadLoop(qset[1], file[p].pos, count)
    <3>3. c \in Loops /\ Going(c)
      <4>1. HasList(1)
        BY <1>0, <3>1 DEF HasList, RunTime
      <4>2. QED
        BY <1>0, <3>1, <4>1, ReadBegins
    <3>4. loop' = [loop EXCEPT ![p] = c]
      BY <3>2
    <3> HIDE DEF c
    <3>5. Own(p) /\ Calm(p)
      BY <1>0, <3>1, <3>3, <3>4 DEF Own, Calm, Move, Returns, up, Dev, Copying, RunTime, PCs, Files
    <3>6. disturbed' \in [Devices -> BOOLEAN]
      BY <1>0, <3>1, Zenon
    <3>7. QED
      BY <3>5, <3>6, CalmStep
  <2>3. QED
    BY <2>1, <2>2
<1>17. CASE IoctlReadRound(p)
  <2>1. Own(p) /\ pc'[p] \in {"r_copy", "astray"}
    BY <1>17, RoundOwn DEF IoctlReadRound, RunTime
  <2>2. Calm(p)
    BY <1>0, <1>17, <2>1 DEF IoctlReadRound, Calm
  <2>3. disturbed' \in [Devices -> BOOLEAN]
    BY <1>0, <1>17, Zenon DEF IoctlReadRound
  <2>4. QED
    BY <2>1, <2>2, <2>3, CalmStep
<1>11. CASE create_quantums(p)
  <2> DEFINE l == loop[p].list
             n == DivUp(loop[p].total, size.quantum)
             x == Dealt(heap[l], n)
  <2>1. /\ size.quantum > 0
        /\ UNCHANGED <<file, loop, sem, done, size, data_size, disturbed>>
        /\ \/ /\ Move(p, "w_quanta", "w_begin")
              /\ heap' = [Freed(1) EXCEPT ![l] = x] /\ qset' = [qset EXCEPT ![1] = l]
           \/ Move(p, "w_quanta", "astray") /\ UNCHANGED <<heap, qset>>
    BY <1>11 DEF create_quantums
  <2>2. /\ l \in 1 .. Len(heap) /\ heap[l].live /\ heap[l].sets >= 1 /\ heap[l] \in Lists
        /\ loop[p].total \in Nat \ {0} /\ \A d \in Devices : qset[d] # l
        /\ pc[p] = "w_quanta"
    <3>1. pc[p] = "w_quanta"
      BY <2>1 DEF Move
    <3>2. /\ l \in DOMAIN heap /\ heap[l].live /\ heap[l].sets >= 1
          /\ loop[p].total >= 1 /\ \A d \in Devices : qset[d] # l
      BY <3>1 DEF Base, LiveInv
    <3>3. DOMAIN heap = 1 .. Len(heap) /\ loop[p].total \in Int
      <4>1. heap \in Seq(Lists)
        BY <1>0 DEF Globals
      <4>2. DOMAIN heap = 1 .. Len(heap)
        BY <4>1
      <4>3. QED
        BY <1>0, <4>2 DEF Loops
    <3> HIDE DEF l
    <3>4. heap[l] \in Lists
      BY <1>0, <3>2 DEF Globals
    <3>5. QED
      BY <3>1, <3>2, <3>3, <3>4
  <2>3. n \in Nat
    BY <1>0, <2>1, <2>2, DivUpBounds, SMTT(60) DEF Globals
  <2>4. x \in Lists /\ x.live /\ x.sets >= 1
    BY <1>0, <2>2, <2>3 DEF Dealt, Lists
  <2>5. Rest'
    BY <1>0, <2>1, Zenon
  <2> HIDE DEF l, n, x
  <2>6. CASE Move(p, "w_quanta", "astray") /\ UNCHANGED <<heap, qset>>
    <3>1. Own(p) /\ Calm(p)
      BY <1>0, <2>1, <2>6 DEF Own, Calm, Move, Returns, up, Dev, Copying, RunTime, PCs, Files
    <3>2. disturbed' \in [Devices -> BOOLEAN]
      BY <1>0, <2>1, Zenon
    <3>3. QED
      BY <3>1, <3>2, CalmStep
  <2>7. CASE /\ Move(p, "w_quanta", "w_begin")
             /\ heap' = [Freed(1) EXCEPT ![l] = x] /\ qset' = [qset EXCEPT ![1] = l]
    <3>1. Own(p) /\ pc'[p] = "w_begin" /\ loop' = loop
      BY <1>0, <2>1, <2>7 DEF Own, Move, Returns, up, Dev, Copying, RunTime, PCs, Files
    <3>2. /\ Freed(1) \in Seq(Lists) /\ Len(Freed(1)) = Len(heap)
          /\ \A k \in 1 .. Len(heap) : Freed(1)[k] = IF k = qset[1] THEN Gone ELSE heap[k]
      BY <1>0, FreedList
    <3>3. /\ heap' \in Seq(Lists) /\ Len(heap') = Len(heap)
          /\ \A k \in 1 .. Len(heap) : heap'[k] = IF k = l THEN x ELSE Freed(1)[k]
      <4> DEFINE h == Freed(1)
      <4>1. h \in Seq(Lists) /\ l \in 1 .. Len(h) /\ heap' = [h EXCEPT ![l] = x] /\ Len(h) = Len(heap)
        BY <2>2, <2>7, <3>2
      <4> HIDE DEF h
      <4>2. /\ heap' \in Seq(Lists) /\ Len(heap') = Len(h)
            /\ \A k \in 1 .. Len(h) : heap'[k] = IF k = l THEN x ELSE h[k]
        BY <2>4, <4>1, ExceptSeq
      <4>3. QED
        BY <4>1, <4>2, Zenon DEF h
    <3>4. qset \in [Devices -> 0 .. Len(heap)] /\ Len(heap) \in Nat
      BY <1>0 DEF Globals
    <3>5. qset' \in [Devices -> 0 .. Len(heap')]
      <4>1. l \in 0 .. Len(heap') /\ qset \in [Devices -> 0 .. Len(heap')]
        <5>1. Len(heap') = Len(heap)
          BY <3>3
        <5>2. l \in 0 .. Len(heap)
          BY <2>2, <3>4
        <5>3. QED
          BY <3>4, <5>1, <5>2, Zenon
      <4>2. QED
        BY <2>7, <4>1, Zenon
    <3>6. Globals'
      BY <2>5, <3>3, <3>5, Zenon DEF Globals
    <3>7. \A e \in Devices : qset'[e] = (IF e = 1 THEN l ELSE qset[e])
      BY <2>7, <3>4
    <3>8. \A e \in Devices \ {1} : qset'[e] = 0 /\ qset[e] = 0
      BY <1>0, <3>7 DEF Base, FixedInv, RunTime
    <3>9. \A q \in Procs \ {p} : pc'[q] \notin {"w_arrays", "w_quanta"} /\ pc'[q] = pc[q]
      <4> SUFFICES ASSUME NEW q \in Procs \ {p}
                   PROVE  pc'[q] \notin {"w_arrays", "w_quanta"} /\ pc'[q] = pc[q]
        OBVIOUS
      <4>1. pc'[q] = pc[q]
        BY <3>1, OwnOthers DEF Base
      <4>2. Dev(q) = 1 /\ Dev(p) = 1
        BY <1>0 DEF Base, FixedInv, RunTime
      <4>3. ~(pc[p] \in Busy /\ pc[q] \in Busy)
        BY <1>0, <4>2 DEF LocksReturned, Holds, RunTime
      <4>4. QED
        BY <2>2, <4>1, <4>3 DEF Busy
    <3>10. LiveInv'
      <4>1. \A e \in Devices : HasList(e)' => heap'[qset'[e]].live /\ heap'[qset'[e]].sets >= 1
        BY <2>2, <2>4, <3>3, <3>7, <3>8 DEF HasList
      <4>2. \A d, e \in Devices : qset'[d] # 0 /\ qset'[d] = qset'[e] => d = e
        BY <3>8
      <4>3. \A q \in Procs : pc'[q] \notin {"w_arrays", "w_quanta"}
        BY <3>1, <3>9
      <4>4. \A q \in Procs : pc'[q] = "w_begin" => loop'[q].total >= 1
        <5>1. loop[p].total >= 1
          BY <2>2
        <5>2. QED
          BY <3>1, <3>9, <5>1 DEF Base, LiveInv
      <4>5. QED
        BY <4>1, <4>2, <4>3, <4>4 DEF LiveInv
    <3>11. QED
      BY <3>6, <3>8, <3>10, <3>1, OwnStep DEF RunTime
  <2>8. QED
    BY <2>1, <2>6, <2>7
<1>21. QED
  BY <1>1, <1>2, <1>3, <1>4, <1>5, <1>6, <1>7, <1>8, <1>9, <1>10, <1>11, <1>12, <1>13, <1>14, <1>15, <1>16, <1>17, <1>18, <1>19, <1>20 DEF IoctlNext

LEMMA ProcBase ==
  ASSUME Base, driver = "proc", NEW p \in Procs, ProcNext(p)
  PROVE  Base' /\ Own(p)
<1> USE DEF Typed, Rest
<1>0. /\ Typed /\ Globals /\ Rest
      /\ pc[p] \in PCs /\ file[p] \in Files /\ loop[p] \in Loops
      /\ Dev(p) \in Devices /\ (driver # "proc" => Dev(p) = 1) /\ 1 \in Devices
      /\ NoLoop \in Loops /\ Closed \in Files
      /\ \A d \in Devices : /\ [sem EXCEPT ![d] = 0] \in [Devices -> 0 .. 1]
                            /\ [sem EXCEPT ![d] = 1] \in [Devices -> 0 .. 1]
      /\ pc = [pc EXCEPT ![p] = pc[p]] /\ file = [file EXCEPT ![p] = file[p]]
      /\ loop = [loop EXCEPT ![p] = loop[p]]
  BY Found
<1>1. CASE ProcOpen(p)
  <2>1. PICK mode \in {"r", "w"}, d \in Devices :
           /\ \/ mode = "r" /\ Move(p, "closed", "idle") /\ UNCHANGED sem
              \/ mode = "w" /\ Down(p, d, "closed", "trim")
           /\ file' = [file EXCEPT ![p] = [mode |-> mode, dev |-> d, pos |-> 0]]
    BY <1>1 DEF ProcOpen
  <2>2. UNCHANGED <<loop, done, heap, qset, size, data_size, disturbed>>
    BY <1>1 DEF ProcOpen
  <2>3. /\ pc' = [pc EXCEPT ![p] = pc'[p]] /\ pc'[p] \in {"idle", "trim"}
        /\ driver' = driver /\ leaked' = leaked
    BY <1>0, <2>1 DEF Move, Down
  <2>4. file' = [file EXCEPT ![p] = file'[p]] /\ file'[p] \in Files
    BY <1>0, <2>1 DEF Files
  <2>5. Own(p)
    BY <1>0, <2>2, <2>3, <2>4 DEF Own, Copying, PCs
  <2>6. sem' \in [Devices -> 0 .. 1]
    BY <1>0, <2>1 DEF Move, Down
  <2>7. Calm(p)
    BY <1>0, <2>2, <2>3, <2>6 DEF Calm
  <2>8. disturbed' \in [Devices -> BOOLEAN]
    BY <1>0, <2>2, Zenon
  <2>9. QED
    BY <2>5, <2>7, <2>8, CalmStep
<1>2. CASE ProcClose(p)
  <2>1. Own(p) /\ Calm(p)
    BY <1>0, <1>2, ListAssumption DEF ProcClose, Own, Calm, Move, Down, Returns, up, Dev, Copying, RunTime, PCs, Files, SeekTo, Closed
  <2>2. disturbed' \in [Devices -> BOOLEAN]
    BY <1>0, <1>2, Zenon DEF ProcClose, SeekTo
  <2>3. QED
    BY <2>1, <2>2, CalmStep
<1>3. CASE ProcTrim(p)
  <2>1. Own(p) /\ pc'[p] = "idle"
    BY <1>0, <1>3 DEF ProcTrim, Own, Move, Down, Returns, up, Dev, Copying, RunTime, PCs, Files
  <2>2. Rest'
    BY <1>0, <1>3, Zenon DEF ProcTrim, up
  <2>3. heap' = Freed(Dev(p)) /\ qset' = [qset EXCEPT ![Dev(p)] = 0]
    BY <1>3 DEF ProcTrim
  <2>4. QED
    BY <1>0, <2>1, <2>2, <2>3, FreedStep DEF RunTime
<1>4. CASE ProcWrite(p)
  <2>1. Own(p) /\ Calm(p)
    BY <1>0, <1>4, ListAssumption DEF ProcWrite, Own, Calm, Move, Down, Returns, up, Dev, Copying, RunTime, PCs, Files, SeekTo, Closed
  <2>2. disturbed' \in [Devices -> BOOLEAN]
    BY <1>0, <1>4, Zenon DEF ProcWrite, SeekTo
  <2>3. QED
    BY <2>1, <2>2, CalmStep
<1>5. CASE ProcTooLarge(p)
  <2>1. Own(p) /\ Calm(p)
    BY <1>0, <1>5, ListAssumption DEF ProcTooLarge, Own, Calm, Move, Down, Returns, up, Dev, Copying, RunTime, PCs, Files, SeekTo, Closed
  <2>2. disturbed' \in [Devices -> BOOLEAN]
    BY <1>0, <1>5, Zenon DEF ProcTooLarge, SeekTo
  <2>3. QED
    BY <2>1, <2>2, CalmStep
<1>6. CASE ProcCreate(p)
  <2>1. PICK count \in Counts :
          /\ 0 < count /\ count <= device_size
          /\ heap' = Append(Freed(Dev(p)), NewList(count))
          /\ loop' = [loop EXCEPT ![p] = WriteLoop(Len(heap'), count)]
    BY <1>6 DEF ProcCreate
  <2>2. count \in Nat \ {0}
    BY <2>1, ListAssumption
  <2> DEFINE x == NewList(count)
             n == Len(heap')
             z == WriteLoop(n, count)
  <2>3. x \in Lists /\ x.live /\ x.sets >= 1
    BY <2>2, ListMade DEF RunTime
  <2>4. heap' = Append(Freed(Dev(p)), x)
    BY <2>1
  <2> HIDE DEF x
  <2>5. n \in Nat
    BY <1>0, <2>3, <2>4, FreedList, AppendProperties
  <2>6. loop' = [loop EXCEPT ![p] = z]
    BY <2>1
  <2> HIDE DEF n
  <2>7. z \in Loops /\ Going(z)
    <3>1. size.quantum \in Nat \ {0}
      BY FixedSizes DEF RunTime
    <3>2. QED
      BY <2>2, <2>5, <3>1, WriteGoes
  <2> HIDE DEF z
  <2>8. Own(p) /\ pc'[p] = "w_copy"
    BY <1>0, <1>6, <2>6, <2>7 DEF ProcCreate, Own, Move, Down, Returns, up, Dev, Copying, RunTime, PCs, Files
  <2>9. Rest'
    BY <1>0, <1>6, Zenon DEF ProcCreate
  <2>10. qset' = [qset EXCEPT ![Dev(p)] = Len(heap')]
    BY <1>6 DEF ProcCreate
  <2>11. QED
    BY <1>0, <2>3, <2>4, <2>8, <2>9, <2>10, AppendedStep
<1>7. CASE ProcCreateFails(p)
  <2>0. UNCHANGED <<file, done, size, data_size, disturbed>>
    BY <1>7 DEF ProcCreateFails
  <2>1. ASSUME Returns(p, "w_create"), up(p), heap' = Freed(Dev(p)),
               qset' = [qset EXCEPT ![Dev(p)] = 0]
        PROVE  Base' /\ Own(p)
    <3>1. Own(p) /\ pc'[p] = "idle"
      BY <1>0, <2>0, <2>1 DEF Own, Move, Down, Returns, up, Dev, Copying, RunTime, PCs, Files
    <3>2. Rest'
      BY <1>0, <2>0, <2>1, Zenon DEF up
    <3>3. QED
      BY <1>0, <2>1, <3>1, <3>2, FreedStep DEF RunTime
  <2>2. ASSUME Move(p, "w_create", "oops"), UNCHANGED <<loop, sem, heap, qset>>
        PROVE  Base' /\ Own(p)
    <3>1. Own(p) /\ Calm(p)
      BY <1>0, <2>0, <2>2 DEF Own, Calm, Move, Down, Returns, up, Dev, Copying, RunTime, PCs, Files
    <3>2. disturbed' \in [Devices -> BOOLEAN]
      BY <1>0, <2>0, Zenon
    <3>3. QED
      BY <3>1, <3>2, CalmStep
  <2>3. QED
    BY <1>7, <2>1, <2>2 DEF ProcCreateFails
<1>8. CASE ProcWriteRound(p)
  <2>1. Own(p) /\ pc'[p] \in {"w_copy", "astray"}
    BY <1>8, RoundOwn DEF ProcWriteRound
  <2>2. Calm(p)
    BY <1>0, <1>8, <2>1 DEF ProcWriteRound, Calm
  <2>3. disturbed' \in [Devices -> BOOLEAN]
    BY <1>0, <1>8, Zenon DEF ProcWriteRound
  <2>4. QED
    BY <2>1, <2>2, <2>3, CalmStep
<1>9. CASE ProcWritten(p)
  <2>1. loop[p].moved \in Nat
    BY <1>0, <1>9 DEF ProcWritten, Returns, Move, Base, StepInv, Going, Copying, Loops
  <2>2. Own(p) /\ Calm(p)
    BY <1>0, <1>9, <2>1 DEF ProcWritten, EndsAt, Own, Calm, Move, Down, Returns, up, Dev, Copying, RunTime, PCs, Files
  <2>3. disturbed' \in [Devices -> BOOLEAN]
    BY <1>0, <1>9 DEF ProcWritten
  <2>4. QED
    BY <2>2, <2>3, CalmStep
<1>10. CASE ProcRead(p)
  <2>1. Own(p) /\ Calm(p)
    BY <1>0, <1>10, ListAssumption DEF ProcRead, Own, Calm, Move, Down, Returns, up, Dev, Copying, RunTime, PCs, Files, SeekTo, Closed
  <2>2. disturbed' \in [Devices -> BOOLEAN]
    BY <1>0, <1>10, Zenon DEF ProcRead, SeekTo
  <2>3. QED
    BY <2>1, <2>2, CalmStep
<1>11. CASE ProcReadBegin(p)
  <2>0. disturbed' \in [Devices -> BOOLEAN]
    BY <1>0, <1>11, Zenon DEF ProcReadBegin
  <2>1. CASE Returns(p, "r_start") /\ up(p)
    <3>1. Own(p) /\ Calm(p)
      BY <1>0, <1>11, <2>1 DEF ProcReadBegin, Own, Calm, Move, Down, Returns, up, Dev, Copying, RunTime, PCs, Files
    <3>2. QED
      BY <2>0, <3>1, CalmStep
  <2>2. CASE ~(Returns(p, "r_start") /\ up(p))
    <3>1. /\ file[p].pos < data_size /\ qset[Dev(p)] # 0
          /\ Move(p, "r_start", "r_copy")
          /\ UNCHANGED <<file, sem, done, heap, qset, size, data_size>>
      BY <1>0, <1>11, <2>2 DEF ProcReadBegin, Globals, Files
    <3>2. PICK count \in Counts : loop' = [loop EXCEPT ![p] = ReadLoop(qset[Dev(p)], file[p].pos, count)]
      BY <1>11, <2>2 DEF ProcReadBegin
    <3> DEFINE c == ReadLoop(qset[Dev(p)], file[p].pos, count)
    <3>3. c \in Loops /\ Going(c)
      <4>1. item > 0 /\ HasList(Dev(p))
        BY <3>1, FixedSizes DEF RunTime, HasList
      <4>2. QED
        BY <1>0, <3>1, <4>1, ReadBegins
    <3>4. loop' = [loop EXCEPT ![p] = c]
      BY <3>2
    <3> HIDE DEF c
    <3>5. Own(p) /\ Calm(p)
      BY <1>0, <3>1, <3>3, <3>4 DEF Own, Calm, Move, Down, Returns, up, Dev, Copying, RunTime, PCs, Files
    <3>6. QED
      BY <2>0, <3>5, CalmStep
  <2>3. QED
    BY <2>1, <2>2
<1>12. CASE ProcReadRound(p)
  <2>1. Own(p) /\ pc'[p] \in {"r_copy", "astray"}
    BY <1>12, RoundOwn DEF ProcReadRound
  <2>2. Calm(p)
    BY <1>0, <1>12, <2>1 DEF ProcReadRound, Calm
  <2>3. disturbed' \in [Devices -> BOOLEAN]
    BY <1>0, <1>12, Zenon DEF ProcReadRound
  <2>4. QED
    BY <2>1, <2>2, <2>3, CalmStep
<1>13. CASE ProcReadDone(p)
  <2>1. /\ pc' = [pc EXCEPT ![p] = "idle"] /\ loop' = [loop EXCEPT ![p] = NoLoop]
        /\ driver' = driver /\ leaked' = leaked
    BY <1>13 DEF ProcReadDone, Returns, Move
  <2>2. UNCHANGED <<file, done, heap, qset, size>>
    BY <1>13 DEF ProcReadDone
  <2>3. sem' \in [Devices -> 0 .. 1] /\ data_size' \in Nat
    BY <1>0, <1>13 DEF ProcReadDone, up, Files
  <2>4. Own(p)
    BY <1>0, <2>1, <2>2 DEF Own, Copying, PCs
  <2>5. Calm(p)
    BY <1>0, <2>1, <2>2, <2>3 DEF Calm
  <2>6. disturbed' \in [Devices -> BOOLEAN]
    BY <1>0, <1>13, Zenon DEF ProcReadDone
  <2>7. QED
    BY <2>4, <2>5, <2>6, CalmStep
<1>14. CASE ProcSeek(p)
  <2>1. Own(p) /\ Calm(p)
    BY <1>0, <1>14, ListAssumption, SMTT(60) DEF ProcSeek, Own, Calm, Move, Down, Returns, up, Dev, Copying, RunTime, PCs, Files, SeekTo, Closed
  <2>2. disturbed' \in [Devices -> BOOLEAN]
    BY <1>0, <1>14, Zenon DEF ProcSeek, SeekTo
  <2>3. QED
    BY <2>1, <2>2, CalmStep
<1>15. CASE ProcShow(p)
  <2>0. UNCHANGED <<loop, done, heap, qset, size, data_size, disturbed>>
    BY <1>15 DEF ProcShow
  <2>a. ASSUME NEW d \in Devices, Down(p, d, "closed", "show"), file' = [file EXCEPT ![p].dev = d]
        PROVE  Own(p) /\ Calm(p)
    BY <1>0, <2>0, <2>a, SMTT(60) DEF Own, Calm, Move, Down, Copying, RunTime, PCs, Files
  <2>b. ASSUME Move(p, "show", "closed"), up(p), file' = [file EXCEPT ![p] = Closed]
        PROVE  Own(p) /\ Calm(p)
    BY <1>0, <2>0, <2>b DEF Own, Calm, Move, up, Copying, RunTime, PCs
  <2>1. Own(p) /\ Calm(p)
    BY <1>15, <2>a, <2>b DEF ProcShow
  <2>2. disturbed' \in [Devices -> BOOLEAN]
    BY <1>0, <1>15, Zenon DEF ProcShow, SeekTo
  <2>3. QED
    BY <2>1, <2>2, CalmStep
<1>16. QED
  BY <1>1, <1>2, <1>3, <1>4, <1>5, <1>6, <1>7, <1>8, <1>9, <1>10, <1>11, <1>12, <1>13, <1>14, <1>15 DEF ProcNext

LEMMA ComplBase ==
  ASSUME Base, driver = "completion", NEW p \in Procs, ComplNext(p)
  PROVE  Base' /\ Own(p)
<1> USE DEF Typed, Rest
<1>0. /\ Typed /\ Globals /\ Rest
      /\ pc[p] \in PCs /\ file[p] \in Files /\ loop[p] \in Loops
      /\ Dev(p) \in Devices /\ (driver # "proc" => Dev(p) = 1) /\ 1 \in Devices
      /\ NoLoop \in Loops /\ Closed \in Files
      /\ \A d \in Devices : /\ [sem EXCEPT ![d] = 0] \in [Devices -> 0 .. 1]
                            /\ [sem EXCEPT ![d] = 1] \in [Devices -> 0 .. 1]
      /\ pc = [pc EXCEPT ![p] = pc[p]] /\ file = [file EXCEPT ![p] = file[p]]
      /\ loop = [loop EXCEPT ![p] = loop[p]]
  BY Found
<1>1. CASE ComplOpen(p)
  <2>1. PICK mode \in {"r", "w"} :
          /\ file' = [file EXCEPT ![p] = [mode |-> mode, dev |-> 1, pos |-> 0]]
          /\ \/ Move(p, "closed", "idle") /\ UNCHANGED <<heap, disturbed>>
             \/ /\ Move(p, "closed", IF Dangling THEN "astray" ELSE "trimmed")
                /\ heap' = Freed(1)
                /\ disturbed' = [disturbed EXCEPT ![1] = @ \/ NotAlone(p)]
    BY <1>1 DEF ComplOpen
  <2>2. UNCHANGED <<loop, sem, done, qset, size, data_size>>
    BY <1>1 DEF ComplOpen
  <2>3. Own(p) /\ pc'[p] \in {"idle", "astray", "trimmed"}
    <3>1. /\ pc' = [pc EXCEPT ![p] = pc'[p]] /\ pc'[p] \in {"idle", "astray", "trimmed"}
          /\ driver' = driver /\ leaked' = leaked
      BY <1>0, <2>1 DEF Move
    <3>2. file' = [file EXCEPT ![p] = file'[p]] /\ file'[p] \in Files /\ file'[p].dev = 1
      BY <1>0, <2>1 DEF Files
    <3>3. QED
      BY <1>0, <2>2, <3>1, <3>2 DEF Own, Copying, PCs
  <2>4. disturbed' \in [Devices -> BOOLEAN]
    BY <1>0, <2>1, ZenonT(60)
  <2>5. Rest'
    BY <1>0, <2>2, <2>4, Zenon
  <2>6. CASE UNCHANGED heap
    <3>1. Calm(p)
      BY <2>2, <2>3, <2>5, <2>6 DEF Calm
    <3>2. QED
      BY <2>3, <2>4, <3>1, CalmStep
  <2>7. CASE heap' = Freed(1)
    BY <1>0, <2>2, <2>3, <2>5, <2>7, FreedStep DEF RunTime
  <2>8. QED
    BY <2>1, <2>6, <2>7
<1>2. CASE ComplClose(p)
  <2>1. Own(p) /\ Calm(p)
    BY <1>0, <1>2, ListAssumption DEF ComplClose, Own, Calm, Move, Down, Returns, up, Dev, Copying, RunTime, PCs, Files, SeekTo, Closed, complete, EndsAt, Globals
  <2>2. disturbed' \in [Devices -> BOOLEAN]
    BY <1>0, <1>2, Zenon DEF ComplClose, SeekTo
  <2>3. QED
    BY <2>1, <2>2, CalmStep
<1>3. CASE ComplSeek(p)
  <2>1. Own(p) /\ Calm(p)
    BY <1>0, <1>3, ListAssumption, SMTT(60) DEF ComplSeek, Own, Calm, Move, Down, Returns, up, Dev, Copying, RunTime, PCs, Files, SeekTo, Closed, complete, EndsAt, Globals
  <2>2. disturbed' \in [Devices -> BOOLEAN]
    BY <1>0, <1>3, Zenon DEF ComplSeek, SeekTo
  <2>3. QED
    BY <2>1, <2>2, CalmStep
<1>4. CASE ComplWrite(p)
  <2>1. Own(p) /\ Calm(p)
    BY <1>0, <1>4, ListAssumption DEF ComplWrite, Own, Calm, Move, Down, Returns, up, Dev, Copying, RunTime, PCs, Files, SeekTo, Closed, complete, EndsAt, Globals
  <2>2. disturbed' \in [Devices -> BOOLEAN]
    BY <1>0, <1>4, Zenon DEF ComplWrite, SeekTo
  <2>3. QED
    BY <2>1, <2>2, CalmStep
<1>5. CASE ComplTooLarge(p)
  <2>1. Own(p) /\ Calm(p)
    BY <1>0, <1>5, ListAssumption, SMTT(60) DEF ComplTooLarge, Own, Calm, Move, Down, Returns, up, Dev, Copying, RunTime, PCs, Files, SeekTo, Closed, complete, EndsAt, Globals
  <2>2. disturbed' \in [Devices -> BOOLEAN]
    BY <1>0, <1>5, Zenon DEF ComplTooLarge, SeekTo
  <2>3. QED
    BY <2>1, <2>2, CalmStep
<1>6. CASE ComplCreate(p)
  <2>1. PICK count \in Counts :
          /\ 0 < count /\ count <= device_size
          /\ heap' = Append(heap, NewList(count))
          /\ loop' = [loop EXCEPT ![p] = WriteLoop(0, count)]
    BY <1>6 DEF ComplCreate
  <2>2. count \in Nat \ {0}
    BY <2>1, ListAssumption
  <2> DEFINE x == NewList(count)
             z == WriteLoop(0, count)
  <2>3. x \in Lists /\ x.live /\ x.sets >= 1
    BY <2>2, ListMade DEF RunTime
  <2>4. heap' = Append(heap, x) /\ loop' = [loop EXCEPT ![p] = z]
    BY <2>1
  <2>5. z.total = count
    BY DEF WriteLoop, NoLoop
  <2>6. z \in Loops /\ Going(z)
    <3>1. size.quantum \in Nat \ {0}
      BY FixedSizes DEF RunTime
    <3>2. QED
      BY <2>2, <3>1, WriteGoes
  <2> HIDE DEF x, z
  <2>7. Own(p) /\ pc'[p] = "w_begin" /\ loop'[p] = z
    BY <1>0, <1>6, <2>4, <2>6 DEF ComplCreate, Own, Move, Down, Returns, up, Dev, Copying, RunTime, PCs, Files
  <2>8. Rest'
    BY <1>0, <1>6, Zenon DEF ComplCreate, Replaced
  <2>9. qset' = [qset EXCEPT ![1] = Len(heap')]
    BY <1>6 DEF ComplCreate
  <2>10. heap \in {heap, Freed(1)} /\ loop'[p].total >= 1
    BY <2>2, <2>5, <2>7
  <2>11. QED
    BY <1>0, <2>3, <2>4, <2>7, <2>8, <2>9, <2>10, AppendedStep
<1>7. CASE ComplCreateFails(p)
  <2>1. UNCHANGED <<file, sem, heap, size, data_size>>
    BY <1>7 DEF ComplCreateFails
  <2>2. disturbed' \in [Devices -> BOOLEAN]
    BY <1>0, <1>7, Zenon DEF ComplCreateFails
  <2>3. Own(p) /\ pc'[p] \in {"idle", "oops"} /\ done' \in Nat
    BY <1>0, <1>7, <2>1 DEF ComplCreateFails, complete, Globals, Own, Move, Down, Returns, up, Dev, Copying, RunTime, PCs, Files
  <2>4. qset' = qset \/ qset' = [qset EXCEPT ![1] = 0]
    BY <1>7 DEF ComplCreateFails
  <2>5. Rest'
    BY <1>0, <2>1, <2>2, <2>3, Zenon
  <2>6. QED
    BY <2>1, <2>3, <2>4, <2>5, DroppedStep
<1>8. CASE ComplBegin(p)
  <2>1. disturbed' \in [Devices -> BOOLEAN]
    BY <1>0, <1>8, Zenon DEF ComplBegin
  <2>2. UNCHANGED <<file, sem, heap, qset, size, data_size>>
    BY <1>8 DEF ComplBegin
  <2>3. ASSUME Move(p, "w_begin", "w_copy"), loop' = [loop EXCEPT ![p].list = qset[1]], UNCHANGED done
        PROVE  Base' /\ Own(p)
    <3> DEFINE z == [loop[p] EXCEPT !.list = qset[1]]
    <3>1. loop' = [loop EXCEPT ![p] = z]
      BY <1>0, <2>3
    <3>2. z \in Loops /\ Going(z)
      <4>1. Going(loop[p]) /\ qset[1] \in Nat
        BY <1>0, <2>3 DEF Move, Base, StepInv, Copying, Globals
      <4>2. /\ z.moved = loop[p].moved /\ z.total = loop[p].total /\ z.chunk = loop[p].chunk
            /\ z.qoff = loop[p].qoff /\ z.left = loop[p].left
        BY <1>0 DEF Loops
      <4>3. z \in Loops
        BY <1>0, <4>1 DEF Loops
      <4> HIDE DEF z
      <4>4. QED
        BY <4>1, <4>2, <4>3 DEF Going, Counted
    <3> HIDE DEF z
    <3>3. Own(p) /\ Calm(p)
      BY <1>0, <2>2, <2>3, <3>1, <3>2, SMTT(60) DEF Own, Calm, Move, Down, Returns, up, Dev, Copying, RunTime, PCs, Files
    <3>4. QED
      BY <2>1, <3>3, CalmStep
  <2>4. ASSUME Returns(p, "w_begin"), complete
        PROVE  Base' /\ Own(p)
    <3>1. Own(p) /\ Calm(p)
      BY <1>0, <2>2, <2>4 DEF Own, Calm, complete, Globals, Move, Down, Returns, up, Dev, Copying, RunTime, PCs, Files
    <3>2. QED
      BY <2>1, <3>1, CalmStep
  <2>5. QED
    BY <1>8, <2>3, <2>4 DEF ComplBegin
<1>9. CASE ComplWriteRound(p)
  <2>1. Own(p) /\ pc'[p] \in {"w_copy", "astray"}
    BY <1>9, RoundOwn DEF ComplWriteRound
  <2>2. Calm(p)
    BY <1>0, <1>9, <2>1 DEF ComplWriteRound, Calm
  <2>3. disturbed' \in [Devices -> BOOLEAN]
    BY <1>0, <1>9, Zenon DEF ComplWriteRound
  <2>4. QED
    BY <2>1, <2>2, <2>3, CalmStep
<1>10. CASE ComplWritten(p)
  <2>1. Own(p) /\ Calm(p)
    BY <1>0, <1>10, ListAssumption, SMTT(60) DEF ComplWritten, Own, Calm, Move, Down, Returns, up, Dev, Copying, RunTime, PCs, Files, SeekTo, Closed, complete, EndsAt, Globals
  <2>2. disturbed' \in [Devices -> BOOLEAN]
    BY <1>0, <1>10, Zenon DEF ComplWritten, SeekTo
  <2>3. QED
    BY <2>1, <2>2, CalmStep
<1>11. CASE ComplRead(p)
  <2>1. Own(p) /\ Calm(p)
    <3>1. pc' = [pc EXCEPT ![p] = "r_start"] /\ driver' = driver /\ leaked' = leaked
      BY <1>11 DEF ComplRead, Move
    <3>2. UNCHANGED <<file, loop, sem, heap, qset, size, data_size>>
      BY <1>11 DEF ComplRead
    <3>3. done' \in Nat
      BY <1>0, <1>11 DEF ComplRead
    <3>4. Own(p)
      BY <1>0, <3>1, <3>2 DEF Own, Copying, PCs, Dev
    <3>5. Calm(p)
      BY <1>0, <3>1, <3>2, <3>3 DEF Calm
    <3>6. QED
      BY <3>4, <3>5
  <2>2. disturbed' \in [Devices -> BOOLEAN]
    BY <1>0, <1>11, Zenon DEF ComplRead, SeekTo
  <2>3. QED
    BY <2>1, <2>2, CalmStep
<1>12. CASE ComplReadBegin(p)
  <2>0. disturbed' \in [Devices -> BOOLEAN]
    <3>1. \/ disturbed' = disturbed
          \/ disturbed' = [disturbed EXCEPT ![1] = @ \/ \E q \in Procs : Alters(q)]
      BY <1>12, Zenon DEF ComplReadBegin
    <3>2. QED
      BY <1>0, <3>1, ZenonT(60)
  <2>1. CASE Returns(p, "r_start") /\ UNCHANGED disturbed
    <3>1. Own(p) /\ Calm(p)
      BY <1>0, <1>12, <2>1 DEF ComplReadBegin, Own, Calm, Move, Down, Returns, up, Dev, Copying, RunTime, PCs, Files
    <3>2. QED
      BY <2>0, <3>1, CalmStep
  <2>2. CASE ~(Returns(p, "r_start") /\ UNCHANGED disturbed)
    <3>1. /\ file[p].pos < data_size /\ qset[1] # 0
          /\ UNCHANGED <<file, sem, done, heap, qset, size, data_size>>
      BY <1>0, <1>12, <2>2 DEF ComplReadBegin, Globals, Files
    <3>2. CASE Move(p, "r_start", "astray") /\ UNCHANGED loop
      <4>1. pc'[p] = "astray" /\ pc' = [pc EXCEPT ![p] = pc'[p]] /\ loop' = loop
        BY <1>0, <3>2 DEF Move
      <4>2. driver' = driver /\ leaked' = leaked
        BY <3>2 DEF Move
      <4>3. Own(p) /\ Calm(p)
        BY <1>0, <3>1, <4>1, <4>2 DEF Own, Calm, Copying, PCs, Dev
      <4>4. QED
        BY <2>0, <4>3, CalmStep
    <3>3. CASE ~(Move(p, "r_start", "astray") /\ UNCHANGED loop)
      <4>1. Move(p, "r_start", "r_copy") /\ (Follows(p) => ~Dangling)
        BY <1>12, <2>2, <3>3 DEF ComplReadBegin
      <4>2. PICK count \in Counts : loop' = [loop EXCEPT ![p] = ReadLoop(qset[1], file[p].pos, count)]
        BY <1>12, <2>2, <3>3 DEF ComplReadBegin
      <4> DEFINE c == ReadLoop(qset[1], file[p].pos, count)
      <4>3. c \in Loops /\ Going(c)
        <5>1. item > 0
          BY FixedSizes DEF RunTime
        <5>2. file[p].pos = 0 \/ HasList(1)
          BY <3>1, <4>1 DEF Follows, Dangling, HasList
        <5>3. QED
          BY <1>0, <3>1, <5>1, <5>2, ReadBegins
      <4>4. loop' = [loop EXCEPT ![p] = c]
        BY <4>2
      <4> HIDE DEF c
      <4>5. Own(p) /\ Calm(p)
        BY <1>0, <3>1, <4>1, <4>3, <4>4 DEF Own, Calm, Move, Down, Returns, up, Dev, Copying, RunTime, PCs, Files
      <4>6. QED
        BY <2>0, <4>5, CalmStep
    <3>4. QED
      BY <3>2, <3>3
  <2>3. QED
    BY <2>1, <2>2
<1>13. CASE ComplReadRound(p)
  <2>1. Own(p) /\ pc'[p] \in {"r_copy", "astray"}
    BY <1>13, RoundOwn DEF ComplReadRound
  <2>2. Calm(p)
    BY <1>0, <1>13, <2>1 DEF ComplReadRound, Calm
  <2>3. disturbed' \in [Devices -> BOOLEAN]
    BY <1>0, <1>13, Zenon DEF ComplReadRound
  <2>4. QED
    BY <2>1, <2>2, <2>3, CalmStep
<1>14. CASE ComplReadDone(p)
  <2>1. Own(p) /\ Calm(p)
    BY <1>0, <1>14, ListAssumption DEF ComplReadDone, Own, Calm, Move, Down, Returns, up, Dev, Copying, RunTime, PCs, Files, SeekTo, Closed, complete, EndsAt, Globals
  <2>2. disturbed' \in [Devices -> BOOLEAN]
    BY <1>0, <1>14, Zenon DEF ComplReadDone, SeekTo
  <2>3. QED
    BY <2>1, <2>2, CalmStep
<1>15. CASE ComplTrimmed(p)
  <2>1. /\ Move(p, "trimmed", "idle") /\ qset' = [qset EXCEPT ![1] = 0]
        /\ UNCHANGED <<file, loop, sem, done, heap, size, data_size>>
    BY <1>15 DEF ComplTrimmed
  <2>2. disturbed' \in [Devices -> BOOLEAN]
    BY <1>0, <1>15, Zenon DEF ComplTrimmed
  <2>3. Own(p) /\ pc'[p] = "idle"
    BY <1>0, <2>1 DEF Own, Move, Copying, RunTime, PCs, Files, Dev
  <2>4. Rest'
    BY <1>0, <2>1, <2>2, Zenon
  <2>5. QED
    BY <2>1, <2>3, <2>4, DroppedStep
<1>16. QED
  BY <1>1, <1>2, <1>3, <1>4, <1>5, <1>6, <1>7, <1>8, <1>9, <1>10, <1>11, <1>12, <1>13, <1>14, <1>15 DEF ComplNext

(* The loop of a write to scratch_to_driver begins.                        *)
LEMMA AtGoes ==
  ASSUME Base, driver = "scratch_to_driver", NEW p \in Procs, NEW l \in Nat, NEW set \in Nat,
         NEW count \in Int
  PROVE  /\ At(p, l, set, count) \in Loops /\ Going(At(p, l, set, count))
         /\ At(p, l, set, count).slot < 2 /\ At(p, l, set, count).qoff < 3
<1> DEFINE pos == file[p].pos
           z == At(p, l, set, count)
<1>1. file[p] \in Files /\ size.quantum = 3 /\ item = 6
  BY TypeParts, FixedSizes DEF Base, RunTime
<1>2. pos \in Nat
  BY <1>1 DEF Files
<1>3. z = [list |-> l, set |-> set, slot |-> (pos % 6) \div 3, qoff |-> pos % 3, chunk |-> 3,
           left |-> 0, moved |-> 0, total |-> count]
  BY <1>1 DEF At
<1> HIDE DEF z, pos
<1>4. (pos % 6) \div 3 \in 0 .. 1 /\ pos % 3 \in 0 .. 2
  BY <1>2
<1>5. z \in Loops
  BY <1>3, <1>4 DEF Loops
<1>6. QED
  BY <1>3, <1>4, <1>5 DEF Going, z

(* Whatever is asked for, a number of quanta is required.                  *)
LEMMA RequestType ==
  ASSUME Base, driver = "scratch_to_driver", NEW p \in Procs, NEW count \in Nat
  PROVE  quant_req(alloc_bytes(p, count)) \in Int
<1> DEFINE n == alloc_bytes(p, count)
<1>1. size.quantum = 3 /\ file[p] \in Files /\ Globals
  BY TypeParts, FixedSizes DEF Base, RunTime
<1>2. n \in Int
  BY <1>1 DEF alloc_bytes, Files, Globals
<1> HIDE DEF n
<1>3. DivUp(n, 3) \in Int
  BY <1>2, 3 \in Nat \ {0}, DivUpType
<1>4. QED
  BY <1>1, <1>2, <1>3 DEF quant_req, n

(* A search in the device's list ends at a set of it.                      *)
LEMMA FollowType ==
  ASSUME Base, qset[1] # 0, driver # "completion", NEW n \in Int
  PROVE  scull_follow(qset[1], n) \in Nat
<1>1. heap[qset[1]].sets \in Nat \ {0}
  <2>1. heap[qset[1]] \in Lists /\ heap[qset[1]].sets >= 1
    BY TypeParts, ListAssumption DEF Globals, Base, LiveInv, HasList
  <2>2. QED
    BY <2>1 DEF Lists
<1>2. QED
  BY <1>1, Followed

(* A list that has one stays with a set however it grows.                  *)
LEMMA GrownList ==
  ASSUME Base, driver = "scratch_to_driver", qset[1] # 0
  PROVE  LET l == qset[1] IN
         /\ l \in 1 .. Len(heap) /\ heap[l] \in Lists /\ heap[l].live /\ heap[l].sets >= 1
         /\ Slots(l) \in Nat /\ LastSet(l) \in Nat /\ LastSet(l) < heap[l].sets
         /\ \A n \in Int : Grown(l, n) \in Lists /\ Grown(l, n).live /\ Grown(l, n).sets >= 1
<1> DEFINE l == qset[1]
           x == heap[l]
           t == LastSet(l)
<1>1. size.quantum = 3 /\ size.qset = 2 /\ item = 6
  BY FixedSizes DEF RunTime
<1>2. 1 \in Devices /\ Globals
  BY ListAssumption, TypeParts DEF Base
<1>3. l \in 1 .. Len(heap) /\ x \in Lists /\ x.live /\ x.sets >= 1 /\ data_size \in Nat
  BY <1>2 DEF Globals, Base, LiveInv, HasList
<1>4. /\ x.sets \in Nat \ {0} /\ x.blocks \in Nat
  BY <1>3 DEF Lists
<1>5. t \in Nat /\ t < x.sets
  <2>1. DivUp(data_size, 6) \in Int
    BY <1>3, 6 \in Nat \ {0}, data_size \in Int, DivUpType
  <2>2. QED
    BY <1>1, <1>4, <2>1, Followed DEF LastSet
<1>6. Slots(l) = IF x.blocks - t * 2 >= 2 THEN 0 ELSE 2 - (x.blocks - t * 2)
  BY <1>1 DEF Slots
<1> HIDE DEF l, x, t
<1>7. Slots(l) \in Nat
  BY <1>4, <1>5, <1>6
<1>8. ASSUME NEW n \in Int
      PROVE  Grown(l, n) \in Lists /\ Grown(l, n).live /\ Grown(l, n).sets >= 1
  <2>1. CASE n - Slots(l) <= 0
    <3>1. Grown(l, n) = [x EXCEPT !.blocks = x.blocks + Slots(l)]
      BY <2>1 DEF Grown, x
    <3>2. x.blocks + Slots(l) \in Nat
      BY <1>4, <1>7
    <3>3. [x EXCEPT !.blocks = x.blocks + Slots(l)] \in Lists
      BY <1>3, <3>2 DEF Lists
    <3>4. /\ [x EXCEPT !.blocks = x.blocks + Slots(l)].live = x.live
          /\ [x EXCEPT !.blocks = x.blocks + Slots(l)].sets = x.sets
      BY <1>3 DEF Lists
    <3>5. QED
      BY <1>3, <3>1, <3>3, <3>4
  <2>2. CASE ~(n - Slots(l) <= 0)
    <3> DEFINE more == n - Slots(l)
               k == DivUp(more, 2)
    <3>1. more \in Nat \ {0}
      BY <1>7, <2>2
    <3>2. k \in Nat
      BY <3>1, 2 \in Nat \ {0}, DivUpBounds
    <3>3. Grown(l, n) = [x EXCEPT !.sets = t + 1 + k, !.blocks = (t + 1) * 2 + more]
      BY <1>1, <2>2 DEF Grown, x, t
    <3> HIDE DEF more, k
    <3>4. t + 1 + k \in Nat /\ t + 1 + k >= 1 /\ (t + 1) * 2 + more \in Nat
      BY <1>5, <3>1, <3>2
    <3>5. QED
      BY <1>3, <1>4, <3>3, <3>4 DEF Lists
  <2>3. QED
    BY <2>1, <2>2
<1>9. /\ l \in 1 .. Len(heap) /\ x \in Lists /\ x.live /\ x.sets >= 1
      /\ Slots(l) \in Nat /\ t \in Nat /\ t < x.sets
      /\ \A n \in Int : Grown(l, n) \in Lists /\ Grown(l, n).live /\ Grown(l, n).sets >= 1
  BY <1>3, <1>5, <1>7, <1>8
<1>10. QED
  BY <1>9, Zenon DEF l, x, t

LEMMA ScratchBase ==
  ASSUME Base, driver = "scratch_to_driver", NEW p \in Procs, ScratchNext(p)
  PROVE  Base' /\ Own(p)
<1> USE DEF Typed, Rest
<1>0. /\ Typed /\ Globals /\ Rest
      /\ pc[p] \in PCs /\ file[p] \in Files /\ loop[p] \in Loops
      /\ Dev(p) \in Devices /\ (driver # "proc" => Dev(p) = 1) /\ 1 \in Devices
      /\ NoLoop \in Loops /\ Closed \in Files
      /\ \A d \in Devices : /\ [sem EXCEPT ![d] = 0] \in [Devices -> 0 .. 1]
                            /\ [sem EXCEPT ![d] = 1] \in [Devices -> 0 .. 1]
      /\ pc = [pc EXCEPT ![p] = pc[p]] /\ file = [file EXCEPT ![p] = file[p]]
      /\ loop = [loop EXCEPT ![p] = loop[p]]
  BY Found
<1>1. CASE ScratchOpen(p)
  <2>1. Own(p) /\ Calm(p)
    BY <1>0, <1>1, ListAssumption DEF ScratchOpen, Own, Calm, Move, Down, Returns, up, Dev, Copying, RunTime, PCs, Files, SeekTo, Closed
  <2>2. disturbed' \in [Devices -> BOOLEAN]
    BY <1>0, <1>1, Zenon DEF ScratchOpen, SeekTo
  <2>3. QED
    BY <2>1, <2>2, CalmStep
<1>2. CASE ScratchClose(p)
  <2>1. Own(p) /\ Calm(p)
    BY <1>0, <1>2, ListAssumption DEF ScratchClose, Own, Calm, Move, Down, Returns, up, Dev, Copying, RunTime, PCs, Files, SeekTo, Closed
  <2>2. disturbed' \in [Devices -> BOOLEAN]
    BY <1>0, <1>2, Zenon DEF ScratchClose, SeekTo
  <2>3. QED
    BY <2>1, <2>2, CalmStep
<1>3. CASE ScratchCall(p)
  <2>1. Own(p) /\ Calm(p)
    BY <1>0, <1>3, ListAssumption DEF ScratchCall, Own, Calm, Move, Down, Returns, up, Dev, Copying, RunTime, PCs, Files, SeekTo, Closed
  <2>2. disturbed' \in [Devices -> BOOLEAN]
    BY <1>0, <1>3, Zenon DEF ScratchCall, SeekTo
  <2>3. QED
    BY <2>1, <2>2, CalmStep
<1>4. CASE ScratchTooLarge(p)
  <2>1. Own(p) /\ Calm(p)
    BY <1>0, <1>4, ListAssumption DEF ScratchTooLarge, Own, Calm, Move, Down, Returns, up, Dev, Copying, RunTime, PCs, Files, SeekTo, Closed
  <2>2. disturbed' \in [Devices -> BOOLEAN]
    BY <1>0, <1>4, Zenon DEF ScratchTooLarge, SeekTo
  <2>3. QED
    BY <2>1, <2>2, CalmStep
<1>5. CASE ScratchCreate(p)
  <2>1. PICK count \in Counts :
          /\ count > 0
          /\ heap' = Append(heap, NewList(count))
          /\ loop' = [loop EXCEPT ![p] = At(p, Len(heap'), 0, count)]
          /\ Notes(p, count)
    BY <1>5 DEF ScratchCreate
  <2>2. count \in Nat \ {0}
    BY <2>1, ListAssumption
  <2> DEFINE x == NewList(count)
             n == Len(heap')
             z == At(p, n, 0, count)
  <2>3. x \in Lists /\ x.live /\ x.sets >= 1
    BY <2>2, ListMade DEF RunTime
  <2>4. heap' = Append(heap, x) /\ loop' = [loop EXCEPT ![p] = z]
    BY <2>1
  <2> HIDE DEF x
  <2>5. n \in Nat
    BY <1>0, <2>3, <2>4, AppendProperties DEF Globals
  <2> HIDE DEF n
  <2>6. z \in Loops /\ Going(z)
    BY <2>2, <2>5, AtGoes
  <2> HIDE DEF z
  <2>7. Own(p) /\ pc'[p] = "w_copy"
    BY <1>0, <1>5, <2>4, <2>6 DEF ScratchCreate, Own, Move, Down, Returns, up, Dev, Copying, RunTime, PCs, Files
  <2>8. disturbed' \in [Devices -> BOOLEAN]
    BY <1>0, <2>1, Zenon DEF Notes
  <2>9. Rest'
    BY <1>0, <1>5, <2>8, Zenon DEF ScratchCreate
  <2>10. qset' = [qset EXCEPT ![1] = Len(heap')] /\ heap \in {heap, Freed(1)}
    BY <1>5 DEF ScratchCreate
  <2>11. QED
    BY <1>0, <2>3, <2>4, <2>7, <2>9, <2>10, AppendedStep
<1>6. CASE ScratchCreateFails(p)
  <2>1. Own(p) /\ Calm(p)
    BY <1>0, <1>6, ListAssumption DEF ScratchCreateFails, Own, Calm, Move, Down, Returns, up, Dev, Copying, RunTime, PCs, Files, SeekTo, Closed
  <2>2. disturbed' \in [Devices -> BOOLEAN]
    BY <1>0, <1>6, Zenon DEF ScratchCreateFails, SeekTo
  <2>3. QED
    BY <2>1, <2>2, CalmStep
<1>7. CASE expand_scull(p)
  <2> DEFINE l == qset[1]
  <2>1. PICK count \in Counts :
          /\ heap' = [heap EXCEPT ![l] = Grown(l, quant_req(alloc_bytes(p, count)))]
          /\ loop' = [loop EXCEPT ![p] = [NoLoop EXCEPT !.total = count]]
          /\ Notes(p, count)
    BY <1>7 DEF expand_scull
  <2> DEFINE k == quant_req(alloc_bytes(p, count))
             x == Grown(l, k)
             z == [NoLoop EXCEPT !.total = count]
  <2>2. count \in Nat
    BY ListAssumption
  <2>3. k \in Int
    BY <1>0, <2>2, RequestType
  <2>4. l # 0
    BY <1>7 DEF expand_scull
  <2>5. l \in 1 .. Len(heap) /\ x \in Lists /\ x.live /\ x.sets >= 1
    <3> HIDE DEF k
    <3>1. QED
      BY <2>3, <2>4, GrownList
  <2>6. heap' = [heap EXCEPT ![l] = x] /\ loop' = [loop EXCEPT ![p] = z]
    BY <2>1
  <2> HIDE DEF k, x, l
  <2>7. z \in Loops
    <3>1. z = [NoLoop EXCEPT !.total = count]
      OBVIOUS
    <3> HIDE DEF z
    <3>2. z = [list |-> 0, set |-> 0, slot |-> 0, qoff |-> 0, chunk |-> 0, left |-> 0,
               moved |-> 0, total |-> count]
      BY <3>1 DEF NoLoop
    <3>3. QED
      BY <2>2, <3>2 DEF Loops
  <2> HIDE DEF z
  <2>8. Own(p) /\ pc'[p] = "w_expanded"
    BY <1>0, <1>7, <2>6, <2>7 DEF expand_scull, Own, Move, Down, Returns, up, Dev, Copying, RunTime, PCs, Files
  <2>9. disturbed' \in [Devices -> BOOLEAN]
    BY <1>0, <2>1, Zenon DEF Notes
  <2>10. Rest' /\ qset' = qset
    BY <1>0, <1>7, <2>9, Zenon DEF expand_scull
  <2>11. QED
    BY <2>5, <2>6, <2>8, <2>10, AmendedStep
<1>8. CASE ExpandFails(p)
  <2> DEFINE l == qset[1]
  <2>1. /\ l # 0
        /\ UNCHANGED <<file, done, qset, size, data_size, disturbed>>
        /\ (Returns(p, "w_start") /\ up(p)) \/ (Move(p, "w_start", "oops") /\ UNCHANGED <<loop, sem>>)
    BY <1>8 DEF ExpandFails
  <2>2. /\ l \in 1 .. Len(heap) /\ heap[l] \in Lists /\ heap[l].live /\ heap[l].sets >= 1
        /\ Slots(l) \in Nat /\ LastSet(l) \in Nat
    BY <2>1, GrownList
  <2>3. \/ \E n \in 0 .. Slots(l) - 1 : heap' = [heap EXCEPT ![l].blocks = @ + n]
        \/ heap' = [heap EXCEPT ![l].sets = LastSet(l) + 1,
                                ![l].blocks = (LastSet(l) + 1) * size.qset]
        \/ heap' = [heap EXCEPT ![l].blocks = @ + Slots(l)]
    BY <1>8 DEF ExpandFails
  <2>4. Own(p) /\ pc'[p] \in {"idle", "oops"}
    BY <1>0, <2>1 DEF Own, Move, Down, Returns, up, Dev, Copying, RunTime, PCs, Files
  <2>5. Rest' /\ qset' = qset
    <3>1. sem' = sem \/ sem' = [sem EXCEPT ![Dev(p)] = 1]
      BY <2>1, Zenon DEF up
    <3>2. sem' \in [Devices -> 0 .. 1]
      <4>1. sem \in [Devices -> 0 .. 1] /\ [sem EXCEPT ![Dev(p)] = 1] \in [Devices -> 0 .. 1]
        BY <1>0, Zenon
      <4>2. QED
        BY <3>1, <4>1
    <3>3. UNCHANGED <<done, qset, size, data_size, disturbed>>
      BY <2>1
    <3>4. QED
      BY <1>0, <3>2, <3>3, Zenon
  <2>6. (LastSet(l) + 1) * size.qset \in Nat
    BY <2>2, FixedSizes DEF RunTime
  <2>7. DOMAIN heap = 1 .. Len(heap)
    BY <1>0 DEF Globals
  <2> HIDE DEF l
  <2>8. ASSUME NEW n \in Nat, heap' = [heap EXCEPT ![l].blocks = @ + n]
        PROVE  Base' /\ Own(p)
    <3> DEFINE x == [heap[l] EXCEPT !.blocks = @ + n]
    <3>1. heap[l].blocks + n \in Nat
      BY <2>2 DEF Lists
    <3>2. x \in Lists /\ x.live /\ x.sets >= 1
      BY <2>2, <3>1 DEF Lists
    <3>3. heap' = [heap EXCEPT ![l] = x]
      BY <2>2, <2>7, <2>8
    <3> HIDE DEF x
    <3>4. QED
      BY <2>2, <2>4, <2>5, <3>2, <3>3, AmendedStep
  <2>9. ASSUME heap' = [heap EXCEPT ![l].sets = LastSet(l) + 1,
                                    ![l].blocks = (LastSet(l) + 1) * size.qset]
        PROVE  Base' /\ Own(p)
    <3> DEFINE b == (LastSet(l) + 1) * size.qset
               t == LastSet(l) + 1
               x == [heap[l] EXCEPT !.sets = t, !.blocks = b]
    <3>1. t \in Nat /\ t >= 1 /\ b \in Nat
      BY <2>2, <2>6
    <3>2. heap' = [heap EXCEPT ![l] = x]
      BY <2>2, <2>7, <2>9
    <3> HIDE DEF b, t
    <3>3. x \in Lists /\ x.live /\ x.sets >= 1
      BY <2>2, <3>1 DEF Lists
    <3> HIDE DEF x
    <3>4. QED
      BY <2>2, <2>4, <2>5, <3>2, <3>3, AmendedStep
  <2>10. QED
    BY <2>2, <2>3, <2>8, <2>9
<1>9. CASE ScratchExpanded(p)
  <2> DEFINE first == scull_follow(qset[1], DivUp(file[p].pos, item) - 1)
             z == At(p, qset[1], first, loop[p].total)
  <2>1. loop' = [loop EXCEPT ![p] = z]
    BY <1>9 DEF ScratchExpanded
  <2>2. first \in Nat /\ loop[p].total \in Int /\ qset[1] \in Nat
    <3>1. pc[p] = "w_expanded" /\ file[p].pos \in Nat /\ qset[1] \in Nat
      BY <1>0, <1>9 DEF ScratchExpanded, Move, Files, Globals
    <3>2. DivUp(file[p].pos, item) - 1 \in Int
      <4>1. item \in Nat \ {0} /\ file[p].pos \in Int
        BY <3>1, FixedSizes DEF RunTime
      <4>2. DivUp(file[p].pos, item) \in Int
        BY <4>1, DivUpType
      <4>3. QED
        BY <4>2
    <3>3. first \in Nat
      <4>1. qset[1] # 0
        BY <3>1 DEF Base, ExpandInv
      <4>2. QED
        BY <3>2, <4>1, FollowType
    <3>4. loop[p].total \in Int
      BY <1>0 DEF Loops
    <3>5. QED
      BY <3>1, <3>3, <3>4
  <2> HIDE DEF first
  <2>3. z \in Loops /\ Going(z)
    BY <2>2, AtGoes
  <2> HIDE DEF z
  <2>4. Own(p) /\ Calm(p)
    BY <1>0, <1>9, <2>1, <2>3 DEF ScratchExpanded, Own, Calm, Move, Down, Returns, up, Dev, Copying, RunTime, PCs, Files
  <2>5. disturbed' \in [Devices -> BOOLEAN]
    BY <1>0, <1>9, Zenon DEF ScratchExpanded
  <2>6. QED
    BY <2>4, <2>5, CalmStep
<1>10. CASE ScratchOverwrite(p)
  <2> DEFINE first == scull_follow(qset[1], DivUp(file[p].pos, item))
  <2>1. PICK count \in Counts :
          /\ loop' = [loop EXCEPT ![p] =
               IF file[p].pos + count = data_size
               THEN At(p, 0, 0, count) ELSE At(p, qset[1], first, count)]
          /\ Notes(p, count)
    BY <1>10 DEF ScratchOverwrite
  <2>2. first \in Nat /\ count \in Nat /\ qset[1] \in Nat
    <3>1. item \in Nat \ {0} /\ file[p].pos \in Int /\ count \in Nat /\ qset[1] \in Nat
      BY <1>0, ListAssumption, FixedSizes DEF RunTime, Files, Globals
    <3>2. DivUp(file[p].pos, item) \in Int
      BY <3>1, DivUpType
    <3>3. first \in Nat
      BY <1>10, <3>2, FollowType DEF ScratchOverwrite
    <3>4. QED
      BY <3>1, <3>3
  <2> DEFINE z == IF file[p].pos + count = data_size
                  THEN At(p, 0, 0, count) ELSE At(p, qset[1], first, count)
  <2>3. loop' = [loop EXCEPT ![p] = z]
    BY <2>1
  <2> HIDE DEF first
  <2>4. z \in Loops /\ Going(z)
    BY <2>2, AtGoes
  <2> HIDE DEF z
  <2>5. Own(p) /\ Calm(p)
    BY <1>0, <1>10, <2>3, <2>4 DEF ScratchOverwrite, Own, Calm, Move, Down, Returns, up, Dev, Copying, RunTime, PCs, Files
  <2>6. disturbed' \in [Devices -> BOOLEAN]
    BY <1>0, <2>1, Zenon DEF Notes
  <2>7. QED
    BY <2>5, <2>6, CalmStep
<1>11. CASE ScratchWriteRound(p)
  <2>1. Own(p) /\ pc'[p] \in {"w_copy", "astray"}
    BY <1>11, RoundOwn DEF ScratchWriteRound
  <2>2. Calm(p)
    BY <1>0, <1>11, <2>1 DEF ScratchWriteRound, Calm
  <2>3. disturbed' \in [Devices -> BOOLEAN]
    BY <1>0, <1>11, Zenon DEF ScratchWriteRound
  <2>4. QED
    BY <2>1, <2>2, <2>3, CalmStep
<1>12. CASE ScratchWritten(p)
  <2>1. loop[p].moved \in Nat
    BY <1>0, <1>12 DEF ScratchWritten, Returns, Move, Base, StepInv, Going, Copying, Loops
  <2>2. Own(p) /\ Calm(p)
    BY <1>0, <1>12, <2>1 DEF ScratchWritten, EndsAt, Own, Calm, Move, Down, Returns, up, Dev, Copying, RunTime, PCs, Files
  <2>3. disturbed' \in [Devices -> BOOLEAN]
    BY <1>0, <1>12, Zenon DEF ScratchWritten
  <2>4. QED
    BY <2>2, <2>3, CalmStep
<1>13. CASE ScratchReadNothing(p)
  <2>1. Own(p) /\ Calm(p)
    BY <1>0, <1>13, ListAssumption DEF ScratchReadNothing, Own, Calm, Move, Down, Returns, up, Dev, Copying, RunTime, PCs, Files, SeekTo, Closed
  <2>2. disturbed' \in [Devices -> BOOLEAN]
    BY <1>0, <1>13, Zenon DEF ScratchReadNothing, SeekTo
  <2>3. QED
    BY <2>1, <2>2, CalmStep
<1>14. CASE ScratchReadFails(p)
  <2>1. Own(p) /\ Calm(p)
    BY <1>0, <1>14, ListAssumption DEF ScratchReadFails, Own, Calm, Move, Down, Returns, up, Dev, Copying, RunTime, PCs, Files, SeekTo, Closed
  <2>2. disturbed' \in [Devices -> BOOLEAN]
    BY <1>0, <1>14, Zenon DEF ScratchReadFails, SeekTo
  <2>3. QED
    BY <2>1, <2>2, CalmStep
<1>15. CASE ScratchReadBegin(p)
  <2>1. PICK count \in Counts : loop' = [loop EXCEPT ![p] = ReadLoop(qset[1], file[p].pos, count)]
    BY <1>15 DEF ScratchReadBegin
  <2> DEFINE z == ReadLoop(qset[1], file[p].pos, count)
  <2>2. z \in Loops /\ Going(z)
    <3>1. item > 0 /\ qset[1] # 0 /\ HasList(1)
      BY <1>15, FixedSizes DEF RunTime, ScratchReadBegin, HasList
    <3>2. QED
      BY <1>0, <3>1, ReadBegins
  <2>3. loop' = [loop EXCEPT ![p] = z]
    BY <2>1
  <2> HIDE DEF z
  <2>4. Own(p) /\ Calm(p)
    BY <1>0, <1>15, <2>2, <2>3 DEF ScratchReadBegin, Own, Calm, Move, Down, Returns, up, Dev, Copying, RunTime, PCs, Files
  <2>5. disturbed' \in [Devices -> BOOLEAN]
    BY <1>0, <1>15, Zenon DEF ScratchReadBegin
  <2>6. QED
    BY <2>4, <2>5, CalmStep
<1>16. CASE ScratchReadRound(p)
  <2>1. Own(p) /\ pc'[p] \in {"r_copy", "astray"}
    BY <1>16, RoundOwn DEF ScratchReadRound, Unread
  <2>2. Calm(p)
    BY <1>0, <1>16, <2>1 DEF ScratchReadRound, Calm
  <2>3. disturbed' \in [Devices -> BOOLEAN]
    BY <1>0, <1>16, Zenon DEF ScratchReadRound
  <2>4. QED
    BY <2>1, <2>2, <2>3, CalmStep
<1>17. CASE ScratchReadDone(p)
  <2>1. Own(p) /\ Calm(p)
    BY <1>0, <1>17, ListAssumption DEF ScratchReadDone, Own, Calm, Move, Down, Returns, up, Dev, Copying, RunTime, PCs, Files, SeekTo, Closed
  <2>2. disturbed' \in [Devices -> BOOLEAN]
    BY <1>0, <1>17, Zenon DEF ScratchReadDone, SeekTo
  <2>3. QED
    BY <2>1, <2>2, CalmStep
<1>18. CASE ScratchSeek(p)
  <2>1. Own(p) /\ Calm(p)
    BY <1>0, <1>18, ListAssumption DEF ScratchSeek, Own, Calm, Move, Down, Returns, up, Dev, Copying, RunTime, PCs, Files, SeekTo, Closed
  <2>2. disturbed' \in [Devices -> BOOLEAN]
    BY <1>0, <1>18, Zenon DEF ScratchSeek, SeekTo
  <2>3. QED
    BY <2>1, <2>2, CalmStep
<1>19. QED
  BY <1>1, <1>2, <1>3, <1>4, <1>5, <1>6, <1>7, <1>8, <1>9, <1>10, <1>11, <1>12, <1>13, <1>14, <1>15, <1>16, <1>17, <1>18 DEF ScratchNext

-----------------------------------------------------------------------------
(* Types and locks, always                                                 *)

LEMMA BaseInit ==
  ASSUME Init
  PROVE  Base /\ LocksReturned
<1> USE DEF Init, initialization
<1>1. <<>> \in Seq(Lists) /\ Len(<<>>) = 0 /\ 0 \in 0 .. 0 /\ 1 \in 0 .. 1 /\ 1 \in Devices
  BY EmptySeq, ListAssumption
<1>2. NoLoop \in Loops /\ Closed \in Files
  BY <1>1 DEF NoLoop, Loops, Closed, Files
<1>3. TypeOK
  <2>1. pc \in [Procs -> PCs] /\ file \in [Procs -> Files] /\ loop \in [Procs -> Loops]
    BY <1>2 DEF PCs
  <2>2. heap \in Seq(Lists) /\ sem \in [Devices -> 0 .. 1] /\ qset \in [Devices -> 0 .. Len(heap)]
    BY <1>1
  <2>3. /\ driver \in Drivers /\ done \in Nat /\ size \in [quantum : Nat, qset : Nat] /\ data_size \in Nat
    OBVIOUS
  <2>4. disturbed \in [Devices -> BOOLEAN]
    BY Zenon
  <2>5. QED
    BY <2>1, <2>2, <2>3, <2>4, Zenon DEF TypeOK, PCs, Files, Lists
<1>4. FixedInv /\ StepInv /\ LiveInv /\ ExpandInv
  <2>1. FixedInv
    BY DEF FixedInv, Dev, Closed
  <2>2. StepInv /\ ExpandInv
    BY DEF StepInv, Copying, ExpandInv
  <2>3. LiveInv
    BY DEF LiveInv, HasList
  <2>4. QED
    BY <2>1, <2>2, <2>3
<1>5. LocksReturned
  BY DEF LocksReturned, Holds, Busy
<1>6. QED
  BY <1>3, <1>4, <1>5 DEF Base

LEMMA ComplKeepsDriver ==
  ASSUME NEW p \in Procs, ComplNext(p)
  PROVE  driver' = driver
BY Zenon DEF ComplNext, ComplOpen, ComplTrimmed, ComplClose, ComplSeek, ComplWrite, ComplTooLarge, ComplCreate,
   ComplCreateFails, ComplBegin, ComplWriteRound, ComplWritten, ComplRead, ComplReadBegin,
   ComplReadRound, ComplReadDone, CopyRound, Returns, Move

LEMMA BaseNext ==
  ASSUME Base, LocksReturned, [Next]_vars
  PROVE  Base' /\ LocksReturned'
<1>1. CASE UNCHANGED vars
  <2>1. /\ UNCHANGED <<driver, pc, file, loop, sem, done, heap, qset, size, data_size, disturbed>>
        /\ leaked' = leaked
    BY <1>1 DEF vars
  <2>2. Base'
    BY <2>1 DEF Base, TypeOK, FixedInv, StepInv, LiveInv, HasList, ExpandInv, Copying, Going, Counted, Dev
  <2>3. LocksReturned'
    BY <2>1 DEF LocksReturned, Holds, Dev
  <2>4. QED
    BY <2>2, <2>3
<1>2. ASSUME NEW p \in Procs, driver \in RunTime, IoctlNext(p)
      PROVE  Base' /\ LocksReturned'
  BY <1>2, IoctlBase, IoctlOrderly, LockStep DEF Base
<1>3. ASSUME NEW p \in Procs, driver = "proc", ProcNext(p)
      PROVE  Base' /\ LocksReturned'
  BY <1>3, ProcBase, ProcOrderly, LockStep DEF Base
<1>4. ASSUME NEW p \in Procs, driver = "completion", ComplNext(p)
      PROVE  Base' /\ LocksReturned'
  <2>1. Base'
    BY <1>4, ComplBase
  <2>2. driver' = "completion"
    BY <1>4, ComplKeepsDriver
  <2>3. QED
    BY <2>1, <2>2 DEF LocksReturned
<1>5. ASSUME NEW p \in Procs, driver = "scratch_to_driver", ScratchNext(p)
      PROVE  Base' /\ LocksReturned'
  BY <1>5, ScratchBase, ScratchOrderly, LockStep DEF Base
<1>6. QED
  BY <1>1, <1>2, <1>3, <1>4, <1>5, Zenon DEF Next, RunTime

(* Every variable always has its type, for all drivers and constants.      *)
THEOREM TypeCorrect == Spec => []TypeOK
<1>1. Init => Base /\ LocksReturned
  BY BaseInit
<1>2. Base /\ LocksReturned /\ [Next]_vars => (Base /\ LocksReturned)'
  BY BaseNext
<1>3. Base => TypeOK
  BY DEF Base
<1>4. QED
  BY <1>1, <1>2, <1>3, PTL DEF Spec

(* Of the drivers with a semaphore, no two calls are in one device at a    *)
(* time, and whoever has the semaphore is in a call: it is returned on     *)
(* every path but the read of nothing that keeps it.                       *)
THEOREM LocksAreReturned == Spec => []LocksReturned
<1>1. Init => Base /\ LocksReturned
  BY BaseInit
<1>2. Base /\ LocksReturned /\ [Next]_vars => (Base /\ LocksReturned)'
  BY BaseNext
<1>3. QED
  BY <1>1, <1>2, PTL DEF Spec

-----------------------------------------------------------------------------
(* A loop and its list                                                     *)

(* What a loop on a sound list touches is there.                           *)
LEMMA FitsThere ==
  ASSUME Globals, NEW c \in Loops, c.list \in 1 .. Len(heap), Sound(heap[c.list]),
         c.slot < size.qset, c.chunk <= size.quantum, Index(c) < heap[c.list].blocks
  PROVE  Fits(c)
<1> DEFINE l == heap[c.list]
           s == size.qset
<1>1. /\ l \in Lists /\ s \in Nat
      /\ c.set \in Nat /\ c.slot \in Nat /\ c.list \in Nat
  BY DEF Globals, Loops
<1>2. /\ s >= 1 /\ l.live /\ l.width = s /\ l.by = s /\ l.quantum = size.quantum
      /\ l.blocks <= l.sets * s /\ l.blocks \in Nat /\ l.sets \in Nat
  BY <1>1 DEF Sound, Shaped, Lists
<1> HIDE DEF l
<1>3. c.set * s + c.slot < l.blocks
  BY DEF Index, l
<1> HIDE DEF s
<1>4. c.set * s < l.sets * s
  <2> DEFINE x == c.set * s
             y == l.sets * s
  <2>1. x \in Int /\ y \in Int
    BY <1>1, <1>2
  <2>2. x + c.slot < l.blocks /\ l.blocks <= y /\ l.blocks \in Nat /\ c.slot \in Nat
    BY <1>1, <1>2, <1>3
  <2> HIDE DEF x, y
  <2>3. x < y
    BY <2>1, <2>2
  <2>4. QED
    BY <2>3 DEF x, y
<1>5. c.set < l.sets
  <2>1. s \in Nat \ {0} /\ c.set \in Int /\ l.sets \in Int
    BY <1>1, <1>2
  <2>2. QED
    BY <1>4, <2>1, Cancel
<1>6. c.list # 0 /\ c.chunk <= l.quantum
  BY <1>1, <1>2
<1>7. Present(l, c.set, c.slot)
  BY <1>1, <1>2, <1>3, <1>5 DEF Present, s
<1>8. QED
  BY <1>6, <1>7 DEF Fits, l

(* A round goes to the next quantum.                                       *)
LEMMA CopiedIndex ==
  ASSUME NEW c \in Loops, size.qset \in Nat \ {0}, c.slot < size.qset
  PROVE  LET e == Copied(c) IN
         /\ Index(e) = Index(c) + 1 /\ e.slot < size.qset /\ e.list = c.list /\ e.total = c.total
         /\ e.qoff = 0 /\ e.left = c.left - 1 /\ e.moved = c.moved + (c.chunk - c.qoff)
         /\ e.chunk = IF c.total - c.moved - (c.chunk - c.qoff) < c.chunk
                      THEN c.total - c.moved - (c.chunk - c.qoff) ELSE c.chunk
<1> DEFINE e == Copied(c)
           s == size.qset
<1>1. /\ c.set \in Nat /\ c.slot \in Nat /\ c.left \in Int /\ c.moved \in Int /\ c.chunk \in Int
      /\ c.qoff \in Nat /\ c.total \in Int
  BY DEF Loops
<1>2. /\ e.set = (IF c.slot = s - 1 THEN c.set + 1 ELSE c.set)
      /\ e.slot = (IF c.slot = s - 1 THEN 0 ELSE c.slot + 1)
      /\ e.list = c.list /\ e.total = c.total
      /\ e.qoff = 0 /\ e.left = c.left - 1 /\ e.moved = c.moved + (c.chunk - c.qoff)
      /\ e.chunk = IF c.total - c.moved - (c.chunk - c.qoff) < c.chunk
                   THEN c.total - c.moved - (c.chunk - c.qoff) ELSE c.chunk
  BY DEF Copied, LastOfSet, Length, Loops
<1> HIDE DEF e
<1>3. Index(e) = e.set * s + e.slot /\ Index(c) = c.set * s + c.slot
  BY DEF Index
<1>4. (c.set + 1) * s = c.set * s + s /\ c.set * s \in Int
  BY <1>1
<1>s. s \in Nat \ {0} /\ c.slot < s
  OBVIOUS
<1> HIDE DEF s
<1>5. Index(e) = Index(c) + 1 /\ e.slot < s
  <2>1. CASE c.slot = s - 1
    BY <1>s, <1>1, <1>2, <1>3, <1>4, <2>1
  <2>2. CASE c.slot # s - 1
    <3>1. e.set = c.set /\ e.slot = c.slot + 1
      BY <1>2, <2>2
    <3>2. QED
      BY <1>s, <1>1, <1>3, <1>4, <2>2, <3>1
  <2>3. QED
    BY <2>1, <2>2
<1>6. QED
  BY <1>2, <1>5 DEF e, s

LEMMA LoopInts ==
  ASSUME NEW c \in Loops, size.quantum \in Nat, size.qset \in Nat
  PROVE  /\ c.left \in Int /\ c.moved \in Int /\ c.chunk \in Int /\ c.qoff \in Nat /\ c.total \in Int
         /\ c.set \in Nat /\ c.slot \in Nat /\ c.list \in Nat /\ Index(c) \in Nat
         /\ c.left * size.quantum \in Int
<1>1. /\ c.left \in Int /\ c.moved \in Int /\ c.chunk \in Int /\ c.qoff \in Nat /\ c.total \in Int
      /\ c.set \in Nat /\ c.slot \in Nat /\ c.list \in Nat
  BY DEF Loops
<1>2. QED
  BY <1>1 DEF Index

(* A round of a write that fits has its quantum, and fits after it.        *)
LEMMA WriteRoundFits ==
  ASSUME Globals, NEW c \in Loops, c.list \in 1 .. Len(heap), Sound(heap[c.list]),
         WriteFits(c, heap[c.list]), c.left > 0, Going(c), driver # "scratch_to_driver"
  PROVE  Fits(c) /\ WriteFits(Copied(c), heap[c.list])
<1> DEFINE l == heap[c.list]
           e == Copied(c)
           q == size.quantum
<1>1. size.quantum \in Nat \ {0} /\ size.qset \in Nat \ {0} /\ l.blocks \in Nat
  <2>1. l \in Lists /\ size.quantum \in Nat /\ size.qset \in Nat
    BY DEF Globals
  <2>2. QED
    BY <2>1 DEF Sound, Shaped, Lists
<1>2. /\ c.slot < size.qset /\ c.qoff = 0 /\ c.left >= 0 /\ c.chunk <= q
      /\ Index(c) + c.left <= l.blocks /\ c.moved <= (l.blocks - c.left) * q
  BY DEF WriteFits
<1>3. /\ c.left \in Int /\ c.moved \in Int /\ c.chunk \in Int /\ c.total \in Int /\ Index(c) \in Nat
  BY <1>1, LoopInts
<1>4. Fits(c)
  <2>1. Index(c) + c.left <= l.blocks /\ c.slot < size.qset /\ c.chunk <= size.quantum
    BY <1>2
  <2>2. c.left \in Int /\ Index(c) \in Nat /\ l.blocks \in Nat
    BY <1>1, <1>3
  <2>3. Index(c) < l.blocks
    BY <2>1, <2>2
  <2>4. QED
    BY <2>1, <2>3, FitsThere
<1>5. /\ Index(e) = Index(c) + 1 /\ e.slot < size.qset
      /\ e.qoff = 0 /\ e.left = c.left - 1 /\ e.moved = c.moved + (c.chunk - c.qoff)
      /\ e.chunk = IF c.total - c.moved - (c.chunk - c.qoff) < c.chunk
                   THEN c.total - c.moved - (c.chunk - c.qoff) ELSE c.chunk
  BY <1>1, <1>2, CopiedIndex
<1> HIDE DEF e, l, q
<1>q. q \in Nat
  BY <1>1 DEF q
<1>6. e.chunk <= q /\ e.left >= 0 /\ Index(e) + e.left <= l.blocks
  <2>1. e.chunk <= c.chunk /\ e.chunk \in Int
    <3> DEFINE t == c.total - c.moved - (c.chunk - c.qoff)
    <3>1. e.chunk = IF t < c.chunk THEN t ELSE c.chunk
      BY <1>5
    <3>2. t \in Int /\ c.chunk \in Int
      BY <1>2, <1>3
    <3> HIDE DEF t
    <3>3. QED
      BY <3>1, <3>2
  <2>2. e.left >= 0 /\ Index(e) + e.left <= l.blocks
    <3>1. e.left = c.left - 1 /\ Index(e) = Index(c) + 1 /\ c.left \in Int /\ Index(c) \in Nat
      BY <1>3, <1>5
    <3>2. Index(c) + c.left <= l.blocks /\ l.blocks \in Nat
      BY <1>1, <1>2
    <3>3. QED
      BY <3>1, <3>2
  <2>3. QED
    BY <1>q, <1>2, <1>3, <2>1, <2>2
<1>7. e.moved <= (l.blocks - e.left) * q
  <2>1. l.blocks - e.left = (l.blocks - c.left) + 1 /\ l.blocks - c.left \in Int
    BY <1>1, <1>3, <1>5, SMTT(60)
  <2>2. \A k \in Int : (k + 1) * q = k * q + q /\ k * q \in Int
    BY <1>1 DEF q
  <2>3. (l.blocks - e.left) * q = (l.blocks - c.left) * q + q /\ (l.blocks - c.left) * q \in Int
    BY <2>1, <2>2
  <2>4. e.moved = c.moved + c.chunk
    BY <1>2, <1>3, <1>5
  <2> DEFINE room == (l.blocks - c.left) * q
  <2>5. c.moved <= room /\ c.chunk <= q /\ room \in Int /\ c.moved \in Int /\ c.chunk \in Int
    BY <1>2, <1>3, <2>3
  <2>6. (l.blocks - e.left) * q = room + q
    BY <2>3
  <2> HIDE DEF room
  <2>7. c.moved + c.chunk <= room + q
    BY <1>q, <2>5
  <2>8. QED
    BY <2>4, <2>6, <2>7
<1>8. WriteFits(e, l)
  BY <1>5, <1>6, <1>7 DEF WriteFits, q
<1>9. QED
  BY <1>4, <1>8 DEF e, l

(* A round of a read that fits has its quantum, and fits after it.         *)
LEMMA ReadRoundFits ==
  ASSUME Globals, NEW c \in Loops, c.list \in 1 .. Len(heap), Sound(heap[c.list]), NEW pos \in Nat,
         ReadFits(c, heap[c.list], pos), c.left > 0, Going(c), driver # "scratch_to_driver"
  PROVE  Fits(c) /\ ReadFits(Copied(c), heap[c.list], pos + Length(c))
<1> DEFINE l == heap[c.list]
           e == Copied(c)
           q == size.quantum
<1>1. size.quantum \in Nat \ {0} /\ size.qset \in Nat \ {0} /\ l.blocks \in Nat
  <2>1. l \in Lists /\ size.quantum \in Nat /\ size.qset \in Nat
    BY DEF Globals
  <2>2. QED
    BY <2>1, SMTT(60) DEF Sound, Shaped, Lists
<1>2. /\ c.slot < size.qset /\ c.qoff < q /\ c.left >= 0 /\ c.chunk <= q
      /\ Index(c) + c.left <= l.blocks
      /\ pos - c.qoff + c.left * q <= l.blocks * q
  BY DEF ReadFits
<1>3. /\ c.left \in Int /\ c.moved \in Int /\ c.chunk \in Int /\ c.total \in Int /\ Index(c) \in Nat
      /\ c.qoff \in Nat
  BY <1>1, LoopInts
<1>4. Fits(c)
  <2>1. Index(c) + c.left <= l.blocks /\ c.slot < size.qset /\ c.chunk <= size.quantum
    BY <1>2
  <2>2. c.left \in Int /\ Index(c) \in Nat /\ l.blocks \in Nat
    BY <1>1, <1>3
  <2>3. Index(c) < l.blocks
    BY <2>1, <2>2
  <2>4. QED
    BY <2>1, <2>3, FitsThere
<1>5. /\ Index(e) = Index(c) + 1 /\ e.slot < size.qset
      /\ e.qoff = 0 /\ e.left = c.left - 1
      /\ e.chunk = IF c.total - c.moved - (c.chunk - c.qoff) < c.chunk
                   THEN c.total - c.moved - (c.chunk - c.qoff) ELSE c.chunk
  BY <1>1, <1>2, CopiedIndex
<1> DEFINE at == pos + Length(c)
<1>6. at = pos + (c.chunk - c.qoff) /\ at \in Int
  BY <1>3 DEF Length
<1> HIDE DEF e, l, q, at
<1>q. q \in Nat \ {0}
  BY <1>1 DEF q
<1>7. e.chunk <= q /\ e.left >= 0 /\ Index(e) + e.left <= l.blocks /\ e.qoff < q
  <2>1. e.chunk <= c.chunk /\ e.chunk \in Int
    <3> DEFINE t == c.total - c.moved - (c.chunk - c.qoff)
    <3>1. e.chunk = IF t < c.chunk THEN t ELSE c.chunk
      BY <1>5
    <3>2. t \in Int /\ c.chunk \in Int
      BY <1>3, SMTT(60)
    <3> HIDE DEF t
    <3>3. QED
      BY <3>1, <3>2
  <2>2. e.left >= 0 /\ Index(e) + e.left <= l.blocks
    <3>1. e.left = c.left - 1 /\ Index(e) = Index(c) + 1 /\ c.left \in Int /\ Index(c) \in Nat
      BY <1>3, <1>5
    <3>2. Index(c) + c.left <= l.blocks /\ l.blocks \in Nat
      BY <1>1, <1>2
    <3>3. QED
      BY <3>1, <3>2
  <2>3. QED
    BY <1>q, <1>2, <1>3, <1>5, <2>1, <2>2, SMTT(60)
<1>8. at - e.qoff + e.left * q <= l.blocks * q /\ at <= l.blocks * q
  <2> DEFINE k == e.left
  <2>1. c.left = k + 1 /\ k \in Nat
    <3>1. k = c.left - 1 /\ c.left \in Int /\ k >= 0
      BY <1>3, <1>5, <1>7
    <3> HIDE DEF k
    <3>2. QED
      BY <3>1
  <2> HIDE DEF k
  <2>2. (k + 1) * q = k * q + q /\ k * q \in Nat /\ l.blocks * q \in Int
    BY <1>q, <1>1, <2>1
  <2>3. pos - c.qoff + (k * q + q) <= l.blocks * q
    BY <1>2, <2>1, <2>2
  <2>4. at <= pos - c.qoff + q
    BY <1>q, <1>2, <1>3, <1>6
  <2> DEFINE rest == k * q
             room == l.blocks * q
  <2>5. rest \in Nat /\ room \in Int /\ pos - c.qoff + (rest + q) <= room
    BY <2>2, <2>3
  <2>6. at \in Int /\ c.qoff \in Int /\ q \in Nat
    BY <1>q, <1>3, <1>6
  <2> HIDE DEF rest, room
  <2>7. at - 0 + rest <= room /\ at <= room
    BY <2>4, <2>5, <2>6, SMTT(60)
  <2>8. QED
    BY <1>5, <2>7 DEF k, rest, room
<1>9. ReadFits(e, l, at)
  BY <1>5, <1>7, <1>8 DEF ReadFits, q
<1>10. QED
  BY <1>4, <1>9 DEF e, l, at

(* A write begins on a list that was made for it.                          *)
LEMMA WriteBeginFits ==
  ASSUME NEW k \in Nat, NEW count \in Nat, NEW l \in Lists, size.quantum \in Nat \ {0},
         size.qset \in Nat \ {0}, l.blocks = DivUp(count, size.quantum)
  PROVE  WriteFits(WriteLoop(k, count), l)
<1> DEFINE q == size.quantum
           u == DivUp(count, q)
           c == WriteLoop(k, count)
<1>1. u \in Nat
  BY DivUpBounds
<1>2. c.set = 0 /\ c.slot = 0 /\ c.qoff = 0 /\ c.chunk = q /\ c.left = u /\ c.moved = 0
  BY DEF WriteLoop, NoLoop
<1> HIDE DEF u, c
<1>3. Index(c) = 0 /\ l.blocks = u
  BY <1>2 DEF Index, u
<1>4. (l.blocks - c.left) * q = 0
  BY <1>1, <1>2, <1>3
<1>5. QED
  BY <1>1, <1>2, <1>3, <1>4 DEF WriteFits, c

(* A read begins before the end of what fits the list.                     *)
LEMMA ReadBeginFits ==
  ASSUME NEW k \in Nat, NEW pos \in Nat, NEW count \in Nat, heap[k] \in Lists, Sound(heap[k]),
         size.quantum \in Nat \ {0}, size.qset \in Nat \ {0},
         data_size \in Nat, pos < data_size, EndFits(heap[k])
  PROVE  ReadFits(ReadLoop(k, pos, count), heap[k], pos)
<1> DEFINE l == heap[k]
           q == size.quantum
           c == ReadLoop(k, pos, count)
           n == BytesToRead(pos, count)
           u == DivUp(n, q)
<1>1. /\ l.blocks \in Nat /\ l.sets \in Nat \ {0} /\ l.quantum = q
      /\ data_size <= l.blocks * q
  BY DEF Lists, Sound, Shaped, EndFits
<1>2. StartsAt(c, k, pos, count)
  BY <1>1, ReadStarts
<1>3. n \in Nat /\ n <= data_size - pos
  BY DEF BytesToRead
<1>4. u \in Nat
  BY <1>3, DivUpBounds
<1> HIDE DEF c
<1>5. /\ c \in Loops /\ c.slot < size.qset /\ c.qoff < q /\ c.chunk = q /\ c.total = n /\ c.left = u
  BY <1>2 DEF StartsAt
<1>6. PICK j \in Nat : Index(c) <= j /\ pos = j * q + c.qoff
  BY <1>2 DEF StartsAt
<1> HIDE DEF l, n, u, q
<1>7. c.qoff \in Nat /\ Index(c) \in Nat
  BY <1>5, LoopInts
<1>8. q \in Nat \ {0}
  BY DEF q
<1>9. j * q \in Int /\ l.blocks * q \in Int /\ (l.blocks - j) * q = l.blocks * q - j * q /\ u * q \in Int
  BY <1>1, <1>4, <1>8, Distribute
<1>10. n <= (l.blocks - j) * q
  BY <1>1, <1>3, <1>6, <1>7, <1>9
<1>11. u <= l.blocks - j
  <2>1. l.blocks - j \in Int
    BY <1>1
  <2>2. QED
    BY <1>3, <1>8, <1>10, <2>1, DivUpLeast DEF u
<1>12. u * q <= (l.blocks - j) * q
  <2>1. l.blocks - j \in Int
    BY <1>1
  <2>2. QED
    BY <1>4, <1>8, <1>11, <2>1, Monotone
<1>13. pos <= l.blocks * q
  BY <1>1, <1>9
<1>14. pos - c.qoff + c.left * q <= l.blocks * q
  BY <1>5, <1>6, <1>7, <1>9, <1>12
<1>15. Index(c) + c.left <= l.blocks
  BY <1>1, <1>4, <1>5, <1>6, <1>7, <1>11
<1>16. ReadFits(c, l, pos)
  BY <1>4, <1>5, <1>8, <1>13, <1>14, <1>15 DEF ReadFits, q
<1>17. QED
  BY <1>16 DEF c, l

-----------------------------------------------------------------------------
(* proc                                                                    *)

(* Who holds a device keeps the others out of it.                          *)
LEMMA Away ==
  ASSUME LocksReturned, driver # "completion", NEW p \in Procs, NEW q \in Procs, q # p,
         Dev(q) = Dev(p), Dev(p) \in Devices, pc[p] \in Busy
  PROVE  pc[q] \notin Busy
BY DEF LocksReturned, Holds

(* A step that changes no list nor its end.                                *)
LEMMA ProcFrame ==
  ASSUME Base, ProcInv, NEW p \in Procs, Own(p), UNCHANGED <<heap, qset, size, data_size, disturbed>>,
         pc[p] \in Unfinished => pc'[p] \in Unfinished /\ file'[p].dev = file[p].dev,
         ProcFits(p)'
  PROVE  ProcInv'
<1>1. /\ \A q \in Procs \ {p} : pc'[q] = pc[q] /\ file'[q] = file[q] /\ loop'[q] = loop[q]
      /\ driver' = driver
  BY OwnOthers DEF Base
<1>2. /\ heap' = heap /\ qset' = qset /\ size' = size /\ data_size' = data_size
      /\ disturbed' = disturbed
  OBVIOUS
<1>3. \A d \in Devices : qset'[d] # 0 => Sound(heap[qset[d]])'
  BY <1>2 DEF ProcInv, Sound, Shaped
<1>4. ASSUME NEW d \in Devices, qset'[d] # 0, ~disturbed'[d], ~Changing(d)'
      PROVE  EndFits(heap[qset[d]])'
  <2>1. ~Changing(d)
    <3> SUFFICES ASSUME Changing(d)
                 PROVE  FALSE
      OBVIOUS
    <3>1. PICK q \in Procs : Dev(q) = d /\ pc[q] \in Unfinished
      BY DEF Changing, Unfinished
    <3>2. file'[q].dev = d /\ pc'[q] \in Unfinished
      BY <1>1, <3>1 DEF Dev
    <3>3. QED
      BY <1>4, <3>2 DEF Changing, Unfinished, Dev
  <2>2. QED
    BY <1>2, <1>4, <2>1 DEF ProcInv, EndFits
<1>5. ASSUME NEW q \in Procs
      PROVE  ProcFits(q)'
  <2>1. CASE q = p
    BY <2>1
  <2>2. CASE q # p
    <3>1. ProcFits(q)
      BY DEF ProcInv
    <3>2. QED
      BY <1>1, <1>2, <2>2, <3>1 DEF ProcFits, Dev, WriteFits, ReadFits, Index
  <2>3. QED
    BY <2>1, <2>2
<1>6. QED
  BY <1>3, <1>4, <1>5 DEF ProcInv

(* A device's list is replaced, or goes: everything else stays.            *)
LEMMA ProcReplaces ==
  ASSUME Base, LocksReturned, driver = "proc", ProcInv, NEW p \in Procs, Own(p),
         UNCHANGED <<file, size, data_size, disturbed>>, pc[p] \in Busy,
         \A d \in Devices \ {Dev(p)} :
            qset'[d] = qset[d] /\ (qset[d] # 0 => heap'[qset[d]] = heap[qset[d]]),
         qset'[Dev(p)] # 0 => Sound(heap[qset[Dev(p)]])' /\ pc'[p] \in Unfinished,
         ProcFits(p)'
  PROVE  ProcInv'
<1>1. /\ \A q \in Procs \ {p} : pc'[q] = pc[q] /\ file'[q] = file[q] /\ loop'[q] = loop[q]
      /\ driver' = driver
  BY OwnOthers DEF Base
<1>2. /\ size' = size /\ data_size' = data_size /\ disturbed' = disturbed /\ file' = file
      /\ Dev(p) \in Devices
  BY Found
<1>3. \A d \in Devices : qset'[d] # 0 => Sound(heap[qset[d]])'
  <2> SUFFICES ASSUME NEW d \in Devices, qset'[d] # 0
               PROVE  Sound(heap[qset[d]])'
    OBVIOUS
  <2>1. CASE d = Dev(p)
    <3>1. Dev(p)' = d
      BY <1>2, <2>1 DEF Dev
    <3>2. QED
      BY <2>1, <3>1
  <2>2. CASE d # Dev(p)
    <3>1. qset'[d] = qset[d] /\ heap'[qset[d]] = heap[qset[d]]
      BY <2>2
    <3>2. QED
      BY <1>2, <3>1 DEF ProcInv, Sound, Shaped
  <2>3. QED
    BY <2>1, <2>2
<1>4. ASSUME NEW d \in Devices, qset'[d] # 0, ~disturbed'[d], ~Changing(d)'
      PROVE  EndFits(heap[qset[d]])'
  <2>1. d # Dev(p)
    BY <1>2, <1>4 DEF Changing, Unfinished, Dev
  <2>2. qset'[d] = qset[d] /\ heap'[qset[d]] = heap[qset[d]]
    BY <1>4, <2>1
  <2>3. ~Changing(d)
    BY <1>1, <1>2, <1>4, <2>1 DEF Changing, Dev
  <2>4. QED
    BY <1>2, <1>4, <2>2, <2>3 DEF ProcInv, EndFits
<1>5. ASSUME NEW q \in Procs
      PROVE  ProcFits(q)'
  <2>1. CASE q = p
    BY <2>1
  <2>2. CASE q # p /\ pc[q] \notin Busy
    BY <1>1, <2>2, SMTT(60) DEF ProcFits, Busy
  <2>3. CASE q # p /\ pc[q] \in Busy
    <3>1. Dev(q) # Dev(p) /\ Dev(q) \in Devices
      BY <1>2, <2>3, Away, Found
    <3>2. qset'[Dev(q)] = qset[Dev(q)] /\ (qset[Dev(q)] # 0 => heap'[qset[Dev(q)]] = heap[qset[Dev(q)]])
      BY <3>1
    <3>3. ProcFits(q)
      BY DEF ProcInv
    <3>4. QED
      BY <1>1, <1>2, <2>3, <3>2, <3>3 DEF ProcFits, Dev, WriteFits, ReadFits, Index
  <2>4. QED
    BY <2>1, <2>2, <2>3
<1>6. QED
  BY <1>3, <1>4, <1>5 DEF ProcInv

(* A call ends and sets the end of its device, so disturbing the others.   *)
LEMMA ProcEnds ==
  ASSUME Base, LocksReturned, driver = "proc", ProcInv, NEW p \in Procs, Own(p),
         UNCHANGED <<file, heap, qset, size>>, pc[p] \in Busy, pc'[p] = "idle",
         \A d \in Devices \ {Dev(p)} : disturbed'[d],
         ~disturbed'[Dev(p)] /\ qset[Dev(p)] # 0 => EndFits(heap[qset[Dev(p)]])'
  PROVE  ProcInv'
<1>1. /\ \A q \in Procs \ {p} : pc'[q] = pc[q] /\ file'[q] = file[q] /\ loop'[q] = loop[q]
      /\ driver' = driver
  BY OwnOthers DEF Base
<1>2. /\ size' = size /\ heap' = heap /\ qset' = qset /\ file' = file /\ Dev(p) \in Devices
  BY Found
<1>3. \A d \in Devices : qset'[d] # 0 => Sound(heap[qset[d]])'
  BY <1>2 DEF ProcInv, Sound, Shaped
<1>4. ASSUME NEW d \in Devices, qset'[d] # 0, ~disturbed'[d]
      PROVE  EndFits(heap[qset[d]])'
  <2>1. d = Dev(p)
    BY <1>4
  <2>2. Dev(p)' = d
    BY <1>2, <2>1 DEF Dev
  <2>3. QED
    BY <1>2, <1>4, <2>1, <2>2
<1>5. ASSUME NEW q \in Procs
      PROVE  ProcFits(q)'
  <2>1. CASE q = p
    BY <2>1 DEF ProcFits
  <2>2. CASE q # p
    <3>1. Dev(q) \in Devices
      BY Found
    <3>2. CASE Dev(q) = Dev(p)
      <4>1. pc[q] \notin Busy
        BY <1>2, <2>2, <3>2, Away
      <4>2. QED
        BY <1>1, <2>2, <4>1 DEF ProcFits, Busy
    <3>3. CASE Dev(q) # Dev(p)
      <4>1. ProcFits(q) /\ disturbed'[Dev(q)] /\ Dev(q)' = Dev(q)
        BY <1>2, <3>1, <3>3 DEF ProcInv, Dev
      <4>2. QED
        BY <1>1, <1>2, <2>2, <4>1 DEF ProcFits, WriteFits, Index
    <3>4. QED
      BY <3>2, <3>3
  <2>3. QED
    BY <2>1, <2>2
<1>6. QED
  BY <1>3, <1>4, <1>5 DEF ProcInv

(* A list is made with the sets that its quanta need.                      *)
LEMMA ListSound ==
  ASSUME Base, driver \notin RunTime, NEW count \in Nat \ {0}
  PROVE  Sound(NewList(count)) /\ NewList(count).blocks = DivUp(count, size.quantum)
<1>1. size.quantum = 3 /\ size.qset = 2 /\ item = 3 * 2
  BY FixedSizes DEF RunTime
<1>2. NewList(count).live /\ NewList(count).sets >= 1
  BY ListMade
<1>3. DivUp(count, 3) <= DivUp(count, 3 * 2) * 2
  BY 3 \in Nat \ {0}, 2 \in Nat \ {0}, SetsHoldQuanta
<1>4. /\ NewList(count).sets = DivUp(count, 3 * 2) /\ NewList(count).blocks = DivUp(count, 3)
      /\ NewList(count).width = 2 /\ NewList(count).by = 2 /\ NewList(count).quantum = 3
  BY <1>1 DEF NewList
<1>5. QED
  BY <1>1, <1>2, <1>3, <1>4 DEF Sound, Shaped

(* What freeing one device's list leaves of the others'.                   *)
LEMMA FreedLeaves ==
  ASSUME Base, NEW d \in Devices, NEW e \in Devices \ {d}, qset[e] # 0
  PROVE  qset[e] \in 1 .. Len(heap) /\ Freed(d)[qset[e]] = heap[qset[e]]
<1>1. Globals
  BY TypeParts DEF Base
<1>2. qset[e] \in 1 .. Len(heap) /\ qset[e] # qset[d]
  BY <1>1 DEF Globals, Base, LiveInv
<1>3. QED
  BY <1>1, <1>2, FreedList

LEMMA ProcSteps ==
  ASSUME Base, LocksReturned, driver = "proc", ProcInv, NEW p \in Procs, ProcNext(p)
  PROVE  ProcInv'
<1> DEFINE d == Dev(p)
<1>0. /\ Typed /\ Globals /\ d \in Devices /\ file[p] \in Files /\ loop[p] \in Loops
      /\ pc[p] \in PCs /\ Own(p) /\ Base'
      /\ size.quantum = 3 /\ size.qset = 2
      /\ data_size \in Nat /\ file[p].pos \in Nat
  <2>1. Typed /\ Globals /\ d \in Devices /\ file[p] \in Files /\ loop[p] \in Loops /\ pc[p] \in PCs
    BY Found
  <2>2. Own(p) /\ Base'
    BY ProcBase
  <2>3. size.quantum = 3 /\ size.qset = 2
    BY FixedSizes DEF RunTime
  <2>4. QED
    BY <2>1, <2>2, <2>3 DEF Globals, Files
<1>1. CASE ProcOpen(p)
  <2>1. UNCHANGED <<heap, qset, size, data_size, disturbed>>
    BY <1>1 DEF ProcOpen
  <2>2. pc[p] \notin Unfinished /\ pc'[p] \notin {"w_copy", "r_copy"}
    BY <1>0, <1>1 DEF ProcOpen, Move, Down, Returns, Typed, Unfinished
  <2>3. QED
    BY <1>0, <2>1, <2>2, ProcFrame DEF ProcFits
<1>2. CASE ProcClose(p)
  <2>1. UNCHANGED <<heap, qset, size, data_size, disturbed>>
    BY <1>2 DEF ProcClose
  <2>2. pc[p] \notin Unfinished /\ pc'[p] \notin {"w_copy", "r_copy"}
    BY <1>0, <1>2 DEF ProcClose, Move, Down, Returns, Typed, Unfinished
  <2>3. QED
    BY <1>0, <2>1, <2>2, ProcFrame DEF ProcFits
<1>3. CASE ProcTrim(p)
  <2>0. UNCHANGED <<file, size, data_size, disturbed>>
    BY <1>3 DEF ProcTrim
  <2>1. pc[p] \in Busy /\ pc'[p] = "idle"
    BY <1>0, <1>3 DEF ProcTrim, Returns, Move, Typed, Busy
  <2>2. qset' = [e \in Devices |-> IF e = d THEN 0 ELSE qset[e]] /\ heap' = Freed(d)
    BY <1>0, <1>3 DEF ProcTrim, Globals
  <2>3. \A e \in Devices \ {d} : qset'[e] = qset[e] /\ (qset[e] # 0 => heap'[qset[e]] = heap[qset[e]])
    BY <1>0, <2>2, FreedLeaves
  <2>4. qset'[d] = 0
    BY <1>0, <2>2
  <2>5. QED
    BY <1>0, <2>0, <2>1, <2>3, <2>4, ProcReplaces DEF ProcFits
<1>4. CASE ProcWrite(p)
  <2>1. UNCHANGED <<heap, qset, size, data_size, disturbed>>
    BY <1>4 DEF ProcWrite
  <2>2. pc[p] \notin Unfinished /\ pc'[p] \notin {"w_copy", "r_copy"}
    BY <1>0, <1>4 DEF ProcWrite, Move, Down, Returns, Typed, Unfinished
  <2>3. QED
    BY <1>0, <2>1, <2>2, ProcFrame DEF ProcFits
<1>5. CASE ProcTooLarge(p)
  <2>1. UNCHANGED <<heap, qset, size, data_size, disturbed>>
    BY <1>5 DEF ProcTooLarge
  <2>2. pc[p] \notin Unfinished /\ pc'[p] \notin {"w_copy", "r_copy"}
    BY <1>0, <1>5 DEF ProcTooLarge, Move, Down, Returns, Typed, Unfinished
  <2>3. QED
    BY <1>0, <2>1, <2>2, ProcFrame DEF ProcFits
<1>6. CASE ProcCreate(p)
  <2>1. PICK count \in Counts :
          /\ 0 < count
          /\ heap' = Append(Freed(d), NewList(count))
          /\ loop' = [loop EXCEPT ![p] = WriteLoop(Len(heap'), count)]
    BY <1>6 DEF ProcCreate
  <2>2. count \in Nat \ {0}
    BY <2>1, ListAssumption
  <2>3. UNCHANGED <<file, size, data_size, disturbed>> /\ qset' = [qset EXCEPT ![d] = Len(heap')]
    BY <1>6 DEF ProcCreate
  <2>4. pc[p] \in Busy /\ pc'[p] = "w_copy"
    BY <1>0, <1>6 DEF ProcCreate, Move, Typed, Busy
  <2> DEFINE x == NewList(count)
  <2>5. x \in Lists /\ Sound(x) /\ x.blocks = DivUp(count, size.quantum)
    BY <2>2, ListMade, ListSound DEF RunTime
  <2> HIDE DEF x
  <2>6. Freed(d) \in Seq(Lists) /\ Len(Freed(d)) = Len(heap) /\ Len(heap) \in Nat
    BY <1>0, FreedList DEF Globals
  <2>7. /\ Len(heap') = Len(heap) + 1
        /\ \A l \in 1 .. Len(heap) : heap'[l] = Freed(d)[l]
        /\ heap'[Len(heap')] = x
    <3>1. heap' = Append(Freed(d), x)
      BY <2>1 DEF x
    <3>2. QED
      BY <2>5, <2>6, <3>1, AppendProperties
  <2>8. qset' = [e \in Devices |-> IF e = d THEN Len(heap') ELSE qset[e]]
    BY <1>0, <2>3 DEF Globals
  <2>9. \A e \in Devices \ {d} : qset'[e] = qset[e] /\ (qset[e] # 0 => heap'[qset[e]] = heap[qset[e]])
    BY <1>0, <2>7, <2>8, FreedLeaves
  <2>10. qset'[d] = Len(heap') /\ qset'[d] # 0 /\ d' = d
    BY <1>0, <2>3, <2>6, <2>7, <2>8 DEF Dev
  <2>11. heap'[qset'[d]] = x /\ Sound(x)'
    BY <2>3, <2>5, <2>7, <2>10 DEF Sound, Shaped, x, NewList, item
  <2>12. ProcFits(p)'
    <3> DEFINE n == Len(heap')
    <3>1. loop'[p] = WriteLoop(n, count) /\ n \in Nat
      BY <1>0, <2>1, <2>6, <2>7 DEF Typed
    <3> HIDE DEF n
    <3>2. WriteFits(WriteLoop(n, count), x)
      BY <1>0, <2>2, <2>5, <3>1, WriteBeginFits
    <3>3. WriteFits(loop'[p], x)
      BY <3>1, <3>2
    <3>4. WriteFits(loop[p], heap[qset[d]])'
      BY <2>3, <2>10, <2>11, <3>3 DEF WriteFits, Index
    <3>5. loop'[p].list = n
      BY <3>1 DEF WriteLoop, NoLoop
    <3>6. QED
      BY <2>4, <2>10, <3>4, <3>5 DEF ProcFits, n
  <2>13. Sound(heap[qset[d]])'
    <3>1. heap'[qset'[d']] = x /\ size' = size
      BY <2>3, <2>10, <2>11
    <3>2. Sound(heap'[qset'[d']])
      BY <2>5, <3>1
    <3>3. QED
      BY <3>1, <3>2 DEF Sound, Shaped, item
  <2>14. QED
    BY <1>0, <2>3, <2>4, <2>9, <2>12, <2>13, ProcReplaces DEF Unfinished
<1>7. CASE ProcCreateFails(p)
  <2>0. UNCHANGED <<file, size, data_size, disturbed>>
    BY <1>7 DEF ProcCreateFails
  <2>1. CASE Move(p, "w_create", "oops") /\ UNCHANGED <<heap, qset>>
    <3>1. pc[p] \notin Unfinished /\ pc'[p] = "oops"
      BY <1>0, <2>1 DEF Move, Typed, Unfinished
    <3>2. QED
      BY <1>0, <2>0, <2>1, <3>1, ProcFrame DEF ProcFits
  <2>2. CASE Returns(p, "w_create") /\ heap' = Freed(d) /\ qset' = [qset EXCEPT ![d] = 0]
    <3>1. pc[p] \in Busy /\ pc'[p] = "idle"
      BY <1>0, <2>2 DEF Returns, Move, Typed, Busy
    <3>2. qset' = [e \in Devices |-> IF e = d THEN 0 ELSE qset[e]]
      BY <1>0, <2>2 DEF Globals
    <3>3. \A e \in Devices \ {d} : qset'[e] = qset[e] /\ (qset[e] # 0 => heap'[qset[e]] = heap[qset[e]])
      BY <1>0, <2>2, <3>2, FreedLeaves
    <3>4. qset'[d] = 0
      BY <1>0, <3>2
    <3>5. QED
      BY <1>0, <2>0, <3>1, <3>3, <3>4, ProcReplaces DEF ProcFits
  <2>3. QED
    BY <1>7, <2>1, <2>2 DEF ProcCreateFails
<1>8. CASE ProcWriteRound(p)
  <2>1. /\ loop[p].left > 0 /\ CopyRound(p, "w_copy")
        /\ UNCHANGED <<file, heap, qset, size, data_size, disturbed>>
    BY <1>8 DEF ProcWriteRound
  <2>2. pc[p] = "w_copy" /\ Going(loop[p])
    BY <2>1 DEF CopyRound, Move, Base, StepInv, Copying
  <2>3. /\ loop[p].list = qset[d] /\ qset[d] \in 1 .. Len(heap)
        /\ WriteFits(loop[p], heap[qset[d]]) /\ Sound(heap[qset[d]])
    BY <1>0, <2>2 DEF ProcInv, ProcFits, Globals
  <2>4. Fits(loop[p]) /\ WriteFits(Copied(loop[p]), heap[qset[d]])
    BY <1>0, <2>1, <2>2, <2>3, WriteRoundFits
  <2>5. pc'[p] = "w_copy" /\ loop'[p] = Copied(loop[p]) /\ d' = d
    BY <1>0, <2>1, <2>4 DEF CopyRound, Move, Typed, Dev
  <2>6. loop'[p].list = loop[p].list
    <3>1. size.qset \in Nat \ {0} /\ loop[p].slot < size.qset
      BY <1>0, <2>3 DEF WriteFits
    <3>2. QED
      BY <1>0, <2>5, <3>1, CopiedIndex
  <2>7. ProcFits(p)'
    <3>1. WriteFits(loop[p], heap[qset[d]])'
      BY <2>1, <2>4, <2>5 DEF WriteFits, Index
    <3>2. QED
      BY <2>1, <2>3, <2>5, <2>6, <3>1 DEF ProcFits
  <2>8. QED
    BY <1>0, <2>1, <2>5, <2>7, ProcFrame DEF Unfinished
<1>9. CASE ProcWritten(p)
  <2>1. /\ loop[p].left = 0 /\ Returns(p, "w_copy") /\ data_size' = loop[p].moved
        /\ disturbed' = [e \in Devices |-> e # d]
        /\ UNCHANGED <<file, heap, qset, size>>
    BY <1>9 DEF ProcWritten, EndsAt
  <2>2. pc[p] = "w_copy" /\ pc'[p] = "idle" /\ d' = d
    BY <1>0, <2>1 DEF Returns, Move, Typed, Dev
  <2>3. EndFits(heap[qset[d]])'
    <3> DEFINE l == heap[qset[d]]
    <3>1. WriteFits(loop[p], l) /\ Sound(l) /\ l \in Lists
      BY <1>0, <2>2 DEF ProcInv, ProcFits, Globals
    <3> HIDE DEF l
    <3>2. l.quantum = size.quantum /\ l.blocks \in Nat /\ l.blocks - 0 = l.blocks
      BY <3>1 DEF Sound, Shaped, Lists
    <3>3. loop[p].moved <= l.blocks * l.quantum
      BY <2>1, <3>1, <3>2 DEF WriteFits
    <3>4. QED
      BY <2>1, <2>2, <3>3 DEF EndFits, l
  <2>4. QED
    BY <1>0, <2>1, <2>2, <2>3, ProcEnds DEF Busy
<1>10. CASE ProcRead(p)
  <2>1. UNCHANGED <<heap, qset, size, data_size, disturbed>>
    BY <1>10 DEF ProcRead
  <2>2. pc[p] \notin Unfinished /\ pc'[p] \notin {"w_copy", "r_copy"}
    BY <1>0, <1>10 DEF ProcRead, Move, Down, Returns, Typed, Unfinished
  <2>3. QED
    BY <1>0, <2>1, <2>2, ProcFrame DEF ProcFits
<1>11. CASE ProcReadBegin(p)
  <2>1. UNCHANGED <<file, heap, qset, size, data_size, disturbed>> /\ pc[p] = "r_start"
    BY <1>11 DEF ProcReadBegin, Returns, Move
  <2>2. CASE Returns(p, "r_start")
    <3>1. pc'[p] = "idle"
      BY <1>0, <2>2 DEF Returns, Move, Typed
    <3>2. QED
      BY <1>0, <2>1, <3>1, ProcFrame DEF ProcFits, Unfinished
  <2>3. CASE ~Returns(p, "r_start")
    <3>1. file[p].pos < data_size /\ qset[d] # 0 /\ Move(p, "r_start", "r_copy")
      BY <1>0, <1>11, <2>3 DEF ProcReadBegin
    <3>2. PICK count \in Counts : loop' = [loop EXCEPT ![p] = ReadLoop(qset[d], file[p].pos, count)]
      BY <1>11, <2>3 DEF ProcReadBegin
    <3> DEFINE c == ReadLoop(qset[d], file[p].pos, count)
    <3>3. pc'[p] = "r_copy" /\ loop'[p] = c /\ d' = d
      BY <1>0, <2>1, <3>1, <3>2 DEF Move, Typed, Dev
    <3>4. c.list = qset[d]
      BY DEF ReadLoop
    <3>5. ASSUME ~disturbed[d]
          PROVE  ReadFits(c, heap[qset[d]], file[p].pos)
      <4>1. ~Changing(d)
        <5> SUFFICES ASSUME NEW q \in Procs, Dev(q) = d, pc[q] \in Unfinished
                     PROVE  FALSE
          BY DEF Changing, Unfinished
        <5>1. q # p
          BY <2>1 DEF Unfinished
        <5>2. pc[q] \notin Busy
          BY <1>0, <2>1, <5>1, Away DEF Busy
        <5>3. QED
          BY <5>2 DEF Busy, Unfinished
      <4>2. EndFits(heap[qset[d]]) /\ Sound(heap[qset[d]]) /\ heap[qset[d]] \in Lists
        BY <1>0, <3>1, <3>5, <4>1 DEF ProcInv, Globals
      <4>3. qset[d] \in Nat /\ count \in Nat
        <5>1. qset[d] \in 0 .. Len(heap) /\ Len(heap) \in Nat
          BY <1>0 DEF Globals
        <5>2. QED
          BY <5>1, ListAssumption
      <4>4. QED
        BY <1>0, <3>1, <4>2, <4>3, ReadBeginFits
    <3> HIDE DEF c
    <3>6. ProcFits(p)'
      BY <2>1, <3>1, <3>3, <3>4, <3>5 DEF ProcFits, ReadFits, Index
    <3>7. QED
      BY <1>0, <2>1, <3>6, ProcFrame DEF Unfinished
  <2>4. QED
    BY <2>2, <2>3
<1>12. CASE ProcReadRound(p)
  <2>1. /\ loop[p].left > 0 /\ CopyRound(p, "r_copy") /\ Advances(p)
        /\ UNCHANGED <<heap, qset, size, data_size, disturbed>>
    BY <1>12 DEF ProcReadRound
  <2>2. pc[p] = "r_copy" /\ Going(loop[p])
    BY <2>1 DEF CopyRound, Move, Base, StepInv, Copying
  <2>3. /\ loop[p].list = qset[d] /\ qset[d] \in 1 .. Len(heap) /\ Sound(heap[qset[d]])
        /\ ~disturbed[d] => ReadFits(loop[p], heap[qset[d]], file[p].pos)
    BY <1>0, <2>2 DEF ProcInv, ProcFits, Globals
  <2>4. CASE ~Fits(loop[p])
    <3>1. pc'[p] = "astray"
      BY <1>0, <2>1, <2>4 DEF CopyRound, Move, Typed
    <3>2. QED
      BY <1>0, <2>1, <2>2, <3>1, ProcFrame DEF Unfinished, ProcFits
  <2>5. CASE Fits(loop[p])
    <3>1. /\ pc'[p] = "r_copy" /\ loop'[p] = Copied(loop[p]) /\ d' = d
          /\ file'[p].pos = file[p].pos + Length(loop[p])
      BY <1>0, <2>1, <2>5 DEF CopyRound, Move, Advances, Typed, Dev
    <3>2. loop'[p].list = loop[p].list
      BY <1>0, <3>1 DEF Copied, Loops
    <3>3. ASSUME ~disturbed[d]
          PROVE  ReadFits(loop[p], heap[qset[d]], file[p].pos)'
      <4>1. ReadFits(Copied(loop[p]), heap[qset[d]], file[p].pos + Length(loop[p]))
        BY <1>0, <2>1, <2>2, <2>3, <3>3, ReadRoundFits
      <4>2. QED
        BY <2>1, <3>1, <4>1 DEF ReadFits, Index
    <3>4. ProcFits(p)'
      BY <2>1, <2>3, <3>1, <3>2, <3>3 DEF ProcFits
    <3>5. QED
      BY <1>0, <2>1, <2>2, <3>1, <3>4, ProcFrame DEF Unfinished
  <2>6. QED
    BY <2>4, <2>5
<1>13. CASE ProcReadDone(p)
  <2>1. /\ loop[p].left = 0 /\ Returns(p, "r_copy") /\ data_size' = file[p].pos
        /\ disturbed' = [e \in Devices |-> disturbed[e] \/ e # d]
        /\ UNCHANGED <<file, heap, qset, size>>
    BY <1>13 DEF ProcReadDone
  <2>2. pc[p] = "r_copy" /\ pc'[p] = "idle" /\ d' = d
    BY <1>0, <2>1 DEF Returns, Move, Typed, Dev
  <2>3. ASSUME ~disturbed'[d]
        PROVE  EndFits(heap[qset[d]])'
    <3> DEFINE l == heap[qset[d]]
    <3>1. ReadFits(loop[p], l, file[p].pos) /\ Sound(l)
      BY <1>0, <2>1, <2>2, <2>3 DEF ProcInv, ProcFits
    <3> HIDE DEF l
    <3>2. file[p].pos <= l.blocks * l.quantum
      BY <3>1 DEF ReadFits, Sound, Shaped
    <3>3. QED
      BY <2>1, <2>2, <3>2 DEF EndFits, l
  <2>4. QED
    BY <1>0, <2>1, <2>2, <2>3, ProcEnds DEF Busy
<1>14. CASE ProcSeek(p)
  <2>1. UNCHANGED <<heap, qset, size, data_size, disturbed>>
    BY <1>14 DEF ProcSeek
  <2>2. pc[p] \notin Unfinished /\ pc'[p] \notin {"w_copy", "r_copy"}
    BY <1>0, <1>14 DEF ProcSeek, Move, Down, Returns, Typed, Unfinished
  <2>3. QED
    BY <1>0, <2>1, <2>2, ProcFrame DEF ProcFits
<1>15. CASE ProcShow(p)
  <2>1. UNCHANGED <<heap, qset, size, data_size, disturbed>>
    BY <1>15 DEF ProcShow
  <2>2. pc[p] \notin Unfinished /\ pc'[p] \notin {"w_copy", "r_copy"}
    BY <1>0, <1>15 DEF ProcShow, Move, Down, Returns, Typed, Unfinished
  <2>3. QED
    BY <1>0, <2>1, <2>2, ProcFrame DEF ProcFits
<1>16. QED
  BY <1>1, <1>2, <1>3, <1>4, <1>5, <1>6, <1>7, <1>8, <1>9, <1>10, <1>11, <1>12, <1>13, <1>14, <1>15 DEF ProcNext

-----------------------------------------------------------------------------
(* ioctl, bitops, ioctl-capability                                         *)

(* What the invariant says to the one program that is in a call.           *)
RunOwn(p) ==
  /\ ~disturbed[1] /\ qset[1] # 0 /\ pc[p] \notin Amid => Sound(heap[qset[1]])
  /\ ~disturbed[1] /\ qset[1] # 0 /\ pc[p] \notin Unfinished => EndFits(heap[qset[1]])
  /\ RunFits(p)

LEMMA RunAway ==
  ASSUME Base, LocksReturned, driver \in RunTime, NEW p \in Procs, pc[p] \in Busy
  PROVE  \A q \in Procs \ {p} : pc[q] \notin Busy /\ pc[q] \notin Amid /\ pc[q] \notin Unfinished
<1>1. driver # "completion" /\ driver # "proc"
  BY DEF RunTime
<1>2. ASSUME NEW q \in Procs \ {p}
      PROVE  pc[q] \notin Busy
  BY <1>1, Away, Found
<1>3. QED
  BY <1>2 DEF Busy, Amid, Unfinished

LEMMA RunHolds ==
  ASSUME Base, LocksReturned, driver \in RunTime, RunTimeInv, NEW p \in Procs, pc[p] \in Busy
  PROVE  RunOwn(p)
BY RunAway DEF RunTimeInv, RunOwn

(* A step in a call need only keep what that call relies on.               *)
LEMMA RunAlone ==
  ASSUME Base, LocksReturned, driver \in RunTime, NEW p \in Procs, pc[p] \in Busy, Own(p),
         RunOwn(p)'
  PROVE  RunTimeInv'
<1>1. \A q \in Procs \ {p} : pc'[q] = pc[q] /\ pc[q] \notin Busy
  BY OwnOthers, RunAway DEF Base
<1>2. \A q \in Procs : RunFits(q)'
  <2> SUFFICES ASSUME NEW q \in Procs
               PROVE  RunFits(q)'
    OBVIOUS
  <2>1. CASE q = p
    BY <2>1 DEF RunOwn
  <2>2. CASE q # p
    BY <1>1, <2>2 DEF RunFits, Busy
  <2>3. QED
    BY <2>1, <2>2
<1>3. QED
  BY <1>2 DEF RunTimeInv, RunOwn

(* A step between calls, that changes no list nor its end.                 *)
LEMMA RunFrame ==
  ASSUME Base, RunTimeInv, NEW p \in Procs, Own(p), UNCHANGED <<heap, qset, data_size>>,
         disturbed'[1] \/ (disturbed' = disturbed /\ size' = size),
         pc[p] \notin Busy, pc'[p] \in {"closed", "trim", "idle", "w_create", "r_start", "seek", "show"}
  PROVE  RunTimeInv'
<1>1. \A q \in Procs \ {p} : pc'[q] = pc[q] /\ file'[q] = file[q] /\ loop'[q] = loop[q]
  BY OwnOthers DEF Base
<1>2. heap' = heap /\ qset' = qset /\ data_size' = data_size
  OBVIOUS
<1>3. pc[p] \notin Amid /\ pc[p] \notin Unfinished
  BY DEF Busy, Amid, Unfinished
<1>4. \A q \in Procs : RunFits(q)'
  <2> SUFFICES ASSUME NEW q \in Procs
               PROVE  RunFits(q)'
    OBVIOUS
  <2>1. CASE q = p
    BY <2>1 DEF RunFits
  <2>2. CASE q # p
    <3>1. RunFits(q)
      BY DEF RunTimeInv
    <3>2. CASE disturbed'[1]
      BY <1>1, <1>2, <2>2, <3>1, <3>2 DEF RunFits
    <3>3. CASE disturbed' = disturbed /\ size' = size
      BY <1>1, <1>2, <2>2, <3>1, <3>3 DEF RunFits, WriteFits, ReadFits, Index, item
    <3>4. QED
      BY <3>2, <3>3
  <2>3. QED
    BY <2>1, <2>2
<1>5. CASE disturbed'[1]
  BY <1>4, <1>5 DEF RunTimeInv
<1>6. CASE disturbed' = disturbed /\ size' = size
  <2>1. ASSUME ~disturbed'[1], qset'[1] # 0, \A q \in Procs : pc'[q] \notin Amid
        PROVE  Sound(heap[qset[1]])'
    <3>1. \A q \in Procs : pc[q] \notin Amid
      BY <1>1, <1>3, <2>1
    <3>2. Sound(heap[qset[1]])
      BY <1>2, <1>6, <2>1, <3>1 DEF RunTimeInv
    <3>3. QED
      BY <1>2, <1>6, <3>2 DEF Sound, Shaped
  <2>2. ASSUME ~disturbed'[1], qset'[1] # 0, \A q \in Procs : pc'[q] \notin Unfinished
        PROVE  EndFits(heap[qset[1]])'
    <3>1. \A q \in Procs : pc[q] \notin Unfinished
      BY <1>1, <1>3, <2>2
    <3>2. EndFits(heap[qset[1]])
      BY <1>2, <1>6, <2>2, <3>1 DEF RunTimeInv
    <3>3. QED
      BY <1>2, <3>2 DEF EndFits
  <2>3. QED
    BY <1>4, <2>1, <2>2 DEF RunTimeInv
<1>7. QED
  BY <1>5, <1>6

(* A list of so many bytes has the sets for its quanta, and the sizes of   *)
(* now if nothing disturbed it.                                            *)
LEMMA DealtSound ==
  ASSUME Base, NEW l \in Lists, NEW total \in Nat \ {0}, l.live, l.sets >= 1,
         size.quantum >= 1, size.qset >= 1, l.sets = DivUp(total, item), l.width = size.qset
  PROVE  LET n == DivUp(total, size.quantum) IN
         /\ n \in Nat /\ Sound(Dealt(l, n)) /\ Dealt(l, n).blocks = n /\ Dealt(l, n).by = size.qset
         /\ \A j \in 0 .. n - 1 :
              Present(Dealt(l, n), j \div Dealt(l, n).by, j % Dealt(l, n).by)
<1> DEFINE q == size.quantum
           s == size.qset
           n == DivUp(total, q)
           x == Dealt(l, n)
<1>1. q \in Nat \ {0} /\ s \in Nat \ {0} /\ l.sets \in Nat
  <2>1. Globals
    BY TypeParts DEF Base
  <2>2. QED
    BY <2>1 DEF Globals, Lists
<1>2. n \in Nat /\ n <= l.sets * s
  <2>1. l.sets = DivUp(total, q * s)
    BY DEF item
  <2>2. QED
    BY <1>1, <2>1, DivUpBounds, SetsHoldQuanta
<1> HIDE DEF n
<1>3. x.live /\ x.sets = l.sets /\ x.width = s /\ x.by = s /\ x.quantum = q /\ x.blocks = n
  BY <1>1 DEF Dealt, Lists
<1> HIDE DEF x
<1>4. Sound(x)
  BY <1>1, <1>2, <1>3 DEF Sound, Shaped
<1>5. ASSUME NEW j \in 0 .. n - 1
      PROVE  Present(x, j \div x.by, j % x.by)
  <2> HIDE DEF q, s
  <2>1. j \in Nat /\ j < l.sets * s
    <3>1. l.sets * s \in Int
      BY <1>1
    <3>2. QED
      BY <1>2, <3>1
  <2>2. /\ j \div s \in Nat /\ j % s \in 0 .. s - 1
        /\ (j \div s) * s + (j % s) = j /\ j \div s < l.sets
    BY <1>1, <2>1, SetOfQuantum
  <2> DEFINE a == j \div s
             b == j % s
  <2>3. Present(x, a, b)
    <3>1. a < x.sets /\ b < x.width /\ b < x.by
      BY <1>1, <1>3, <2>2
    <3>2. a * x.by + b < x.blocks
      BY <1>2, <1>3, <2>2
    <3> HIDE DEF a, b
    <3>3. QED
      BY <1>3, <3>1, <3>2 DEF Present
  <2>4. QED
    BY <1>3, <2>3
<1>6. QED
  BY <1>2, <1>3, <1>4, <1>5 DEF x, n

LEMMA RunSteps ==
  ASSUME Base, LocksReturned, driver \in RunTime, RunTimeInv, NEW p \in Procs, IoctlNext(p)
  PROVE  RunTimeInv'
<1> DEFINE l == heap[qset[1]]
           c == loop[p]
<1>0. /\ Typed /\ Globals /\ 1 \in Devices /\ file[p] \in Files /\ c \in Loops /\ pc[p] \in PCs
      /\ Own(p) /\ driver # "scratch_to_driver"
      /\ disturbed \in [Devices -> BOOLEAN] /\ size \in [quantum : Nat, qset : Nat]
      /\ size.quantum \in Nat /\ size.qset \in Nat /\ data_size \in Nat /\ file[p].pos \in Nat
      /\ qset[1] # 0 => qset[1] \in 1 .. Len(heap) /\ l \in Lists
  <2>1. /\ Typed /\ Globals /\ 1 \in Devices /\ file[p] \in Files /\ c \in Loops /\ pc[p] \in PCs
    BY Found
  <2>2. Own(p) /\ driver # "scratch_to_driver"
    BY IoctlBase DEF RunTime
  <2>3. qset[1] # 0 => qset[1] \in 1 .. Len(heap) /\ l \in Lists
    BY <2>1 DEF Globals
  <2>4. QED
    BY <2>1, <2>2, <2>3 DEF Globals, Files
<1> HIDE DEF l, c
<1>a. pc[p] \in Busy => RunOwn(p)
  BY RunHolds
<1>b. pc[p] \in Busy /\ RunOwn(p)' => RunTimeInv'
  BY <1>0, RunAlone
<1>1. CASE IoctlOpen(p)
  <2>1. /\ UNCHANGED <<heap, qset, data_size, disturbed, size>> /\ pc[p] \notin Busy
        /\ pc'[p] \in {"closed", "trim", "idle", "w_create", "r_start", "seek", "show"}
    BY <1>0, <1>1 DEF IoctlOpen, Move, Down, Typed, Busy
  <2>2. QED
    BY <1>0, <2>1, RunFrame
<1>2. CASE IoctlClose(p)
  <2>1. /\ UNCHANGED <<heap, qset, data_size, disturbed, size>> /\ pc[p] \notin Busy
        /\ pc'[p] \in {"closed", "trim", "idle", "w_create", "r_start", "seek", "show"}
    BY <1>0, <1>2 DEF IoctlClose, Move, Down, Typed, Busy
  <2>2. QED
    BY <1>0, <2>1, RunFrame
<1>3. CASE IoctlTrim(p)
  <2>0. pc[p] = "trim" /\ UNCHANGED <<size, data_size, disturbed>>
    BY <1>3 DEF IoctlTrim, Returns, Move
  <2>1. CASE pc'[p] = "astray"
    BY <1>b, <2>0, <2>1 DEF RunOwn, RunFits, Busy, Amid, Unfinished
  <2>2. CASE pc'[p] # "astray"
    <3>1. qset' = [qset EXCEPT ![1] = 0] /\ pc'[p] = "idle"
      BY <1>0, <1>3, <2>2 DEF IoctlTrim, Returns, Move, Typed
    <3>2. qset'[1] = 0
      BY <1>0, <3>1 DEF Globals
    <3>3. QED
      BY <1>b, <2>0, <3>1, <3>2 DEF RunOwn, RunFits, Busy
  <2>3. QED
    BY <2>1, <2>2
<1>4. CASE ioctl_dev(p)
  <2>1. /\ UNCHANGED <<heap, qset, data_size>> /\ pc[p] = "idle" /\ pc'[p] = "idle"
    BY <1>4 DEF ioctl_dev
  <2>2. disturbed'[1] \/ (disturbed' = disturbed /\ size' = size)
    BY <1>0, <1>4 DEF ioctl_dev, Noticed
  <2>3. QED
    BY <1>0, <2>1, <2>2, RunFrame DEF Busy
<1>5. CASE IoctlWrite(p)
  <2>1. /\ UNCHANGED <<heap, qset, data_size, disturbed, size>> /\ pc[p] \notin Busy
        /\ pc'[p] \in {"closed", "trim", "idle", "w_create", "r_start", "seek", "show"}
    BY <1>0, <1>5 DEF IoctlWrite, Move, Down, Typed, Busy
  <2>2. QED
    BY <1>0, <2>1, RunFrame
<1>6. CASE IoctlTooLarge(p)
  <2>1. /\ UNCHANGED <<heap, qset, data_size, disturbed, size>> /\ pc[p] \in Busy
        /\ pc[p] \notin Unfinished /\ pc[p] \notin Amid
        /\ pc'[p] \in {"idle", "closed"}
    BY <1>0, <1>6 DEF IoctlTooLarge, Move, Returns, Typed, Busy, Unfinished, Amid
  <2>2. RunOwn(p)'
    BY <1>a, <2>1 DEF RunOwn, RunFits, Sound, Shaped, EndFits
  <2>3. QED
    BY <1>b, <2>1, <2>2
<1>7. CASE IoctlCreateFails(p)
  <2>1. qset' = [qset EXCEPT ![1] = 0] /\ pc[p] \in Busy /\ pc'[p] = "idle"
    BY <1>0, <1>7 DEF IoctlCreateFails, Returns, Move, Typed, Busy
  <2>2. qset'[1] = 0
    BY <1>0, <2>1 DEF Globals
  <2>3. QED
    BY <1>b, <2>1, <2>2 DEF RunOwn, RunFits
<1>8. CASE IoctlOopses(p)
  <2>1. pc[p] \in Busy /\ pc'[p] = "oops"
    BY <1>0, <1>8 DEF IoctlOopses, Move, Typed, Busy
  <2>2. QED
    BY <1>b, <2>1 DEF RunOwn, RunFits, Amid, Unfinished
<1>9. CASE create_scullqset(p)
  <2>1. PICK count \in Counts :
          /\ 0 < count
          /\ heap' = Append(heap, [sets |-> DivUp(count, item), width |-> 0, by |-> 0,
                                   quantum |-> 0, blocks |-> 0, live |-> TRUE])
          /\ loop' = [loop EXCEPT ![p] = [NoLoop EXCEPT !.list = Len(heap'), !.total = count]]
    BY <1>9, Zenon DEF create_scullqset
  <2>2. pc[p] = "w_create" /\ pc'[p] = "w_arrays" /\ item > 0 /\ UNCHANGED <<size, qset>>
    BY <1>0, <1>9 DEF create_scullqset, Move, Typed
  <2>3. size.quantum \in Nat \ {0} /\ size.qset \in Nat \ {0}
    BY <1>0, <2>2, SizesCount
  <2> DEFINE x == [sets |-> DivUp(count, item), width |-> 0, by |-> 0,
                   quantum |-> 0, blocks |-> 0, live |-> TRUE]
  <2>4. heap' = Append(heap, x) /\ x.sets = DivUp(count, item)
    BY <2>1
  <2> HIDE DEF x
  <2>5. heap'[Len(heap')] = x
    BY <1>0, <2>4 DEF Globals
  <2>6. loop'[p].list = Len(heap') /\ loop'[p].total = count
    <3> DEFINE k == Len(heap')
    <3>1. loop'[p] = [NoLoop EXCEPT !.list = k, !.total = count]
      BY <1>0, <2>1 DEF Typed
    <3> HIDE DEF k
    <3>2. loop'[p].list = k /\ loop'[p].total = count
      BY <3>1 DEF NoLoop
    <3>3. QED
      BY <3>2 DEF k
  <2>7. heap'[loop'[p].list].sets = DivUp(loop'[p].total, size'.quantum * size'.qset)
    BY <2>2, <2>4, <2>5, <2>6 DEF item
  <2>8. RunFits(p)'
    BY <2>2, <2>3, <2>7 DEF RunFits, item
  <2>9. QED
    BY <1>b, <2>2, <2>8 DEF RunOwn, Amid, Unfinished, Busy
<1>10. CASE create_qset(p)
  <2>1. /\ pc[p] = "w_arrays" /\ pc'[p] = "w_quanta" /\ UNCHANGED <<size, qset, loop, disturbed>>
        /\ heap' = [heap EXCEPT ![c.list].width = size.qset]
    BY <1>0, <1>10 DEF create_qset, Move, Typed, c
  <2>2. c.list \in DOMAIN heap /\ heap[c.list] \in Lists
    <3>1. c.list \in DOMAIN heap
      BY <2>1 DEF Base, LiveInv, c
    <3>2. QED
      BY <1>0, <3>1 DEF Globals
  <2>3. heap'[c.list].width = size.qset /\ heap'[c.list].sets = heap[c.list].sets
    BY <2>1, <2>2 DEF Lists
  <2>4. RunFits(p)
    BY <1>a, <2>1 DEF RunOwn, Busy
  <2>5. loop'[p] = c /\ size' = size /\ disturbed' = disturbed
    BY <2>1 DEF c
  <2>6. RunFits(p)'
    BY <2>1, <2>3, <2>4, <2>5 DEF RunFits, c, item
  <2>7. QED
    BY <1>b, <2>1, <2>6 DEF RunOwn, Amid, Unfinished, Busy
<1>11. CASE create_quantums(p)
  <2>1. /\ pc[p] = "w_quanta" /\ pc'[p] \in {"w_begin", "astray"}
        /\ UNCHANGED <<size, loop, disturbed>> /\ size.quantum > 0
    BY <1>0, <1>11 DEF create_quantums, Move, Typed
  <2>2. CASE pc'[p] = "astray"
    BY <1>b, <2>1, <2>2 DEF RunOwn, RunFits, Busy, Amid, Unfinished
  <2>3. CASE pc'[p] = "w_begin"
    <3> DEFINE n == DivUp(c.total, size.quantum)
               x == Dealt(heap[c.list], n)
    <3>1. /\ heap' = [Freed(1) EXCEPT ![c.list] = x]
          /\ qset' = [qset EXCEPT ![1] = c.list]
      BY <1>0, <1>11, <2>3 DEF create_quantums, Move, Typed, c
    <3>2. /\ c.list \in DOMAIN heap /\ heap[c.list].live /\ heap[c.list].sets >= 1
          /\ c.total \in Nat \ {0} /\ c.list # 0 /\ heap[c.list] \in Lists
      <4>1. /\ c.list \in DOMAIN heap /\ heap[c.list].live /\ heap[c.list].sets >= 1
            /\ c.total >= 1
        BY <2>1 DEF Base, LiveInv, c
      <4>2. c.total \in Int
        BY <1>0 DEF Loops
      <4>3. QED
        BY <1>0, <4>1, <4>2 DEF Globals
    <3>3. DOMAIN Freed(1) = DOMAIN heap
      BY DEF Freed
    <3> HIDE DEF x
    <3>4. heap'[c.list] = x /\ qset'[1] = c.list /\ loop'[p] = c /\ size' = size
      BY <1>0, <2>1, <3>1, <3>2, <3>3 DEF Globals, c
    <3>5. ASSUME ~disturbed[1]
          PROVE  Sound(x) /\ x.blocks = n
      <4>1. RunFits(p)
        BY <1>a, <2>1 DEF RunOwn, Busy
      <4>2. /\ size.quantum >= 1 /\ size.qset >= 1
            /\ heap[c.list].sets = DivUp(c.total, item) /\ heap[c.list].width = size.qset
        BY <2>1, <3>5, <4>1 DEF RunFits, c
      <4>3. QED
        BY <3>2, <4>2, DealtSound DEF x
    <3> HIDE DEF n
    <3>6. heap'[qset'[1]] = x /\ disturbed' = disturbed
      BY <2>1, <3>4
    <3>7. ~disturbed'[1] => Sound(heap[qset[1]])'
      BY <3>4, <3>5, <3>6 DEF Sound, Shaped
    <3>8. ~disturbed'[1] => heap'[qset'[1]].blocks = DivUp(loop'[p].total, size'.quantum)
      BY <3>4, <3>5, <3>6 DEF n
    <3>9. RunFits(p)'
      BY <2>3, <3>2, <3>4, <3>8 DEF RunFits
    <3>10. QED
      BY <1>b, <2>1, <2>3, <3>7, <3>9, SMTT(60) DEF RunOwn, Busy, Unfinished
  <2>4. QED
    BY <2>1, <2>2, <2>3
<1>12. CASE IoctlBegin(p)
  <2>1. /\ pc[p] = "w_begin" /\ pc'[p] = "w_copy" /\ loop'[p] = WriteLoop(c.list, c.total)
        /\ UNCHANGED <<heap, qset, size, disturbed>>
    BY <1>0, <1>12 DEF IoctlBegin, Move, Typed, c
  <2>2. RunOwn(p) /\ c.list = qset[1] /\ qset[1] # 0
    BY <1>a, <2>1 DEF RunOwn, RunFits, Busy, c
  <2>3. ASSUME ~disturbed[1]
        PROVE  WriteFits(WriteLoop(c.list, c.total), l) /\ Sound(l)
    <3>1. Sound(l) /\ l.blocks = DivUp(c.total, size.quantum)
      BY <2>1, <2>2, <2>3 DEF RunOwn, RunFits, Amid, l, c
    <3>2. c.total \in Nat /\ c.list \in Nat
      <4>1. c.total >= 1
        BY <2>1 DEF Base, LiveInv, c
      <4>2. QED
        BY <1>0, <4>1 DEF Loops
    <3>3. size.quantum \in Nat \ {0} /\ size.qset \in Nat \ {0}
      BY <1>0, <3>1 DEF Sound, Shaped
    <3>4. QED
      BY <1>0, <2>2, <3>1, <3>2, <3>3, WriteBeginFits
  <2>4. heap'[qset'[1]] = l /\ size' = size /\ disturbed' = disturbed /\ qset' = qset
    BY <2>1 DEF l
  <2>5. ~disturbed'[1] => Sound(heap[qset[1]])'
    BY <2>3, <2>4 DEF Sound, Shaped
  <2>6. ~disturbed'[1] => WriteFits(loop[p], heap[qset[1]])'
    BY <2>1, <2>3, <2>4 DEF WriteFits, Index
  <2>7. loop'[p].list = c.list
    BY <2>1 DEF WriteLoop, NoLoop
  <2>8. RunFits(p)'
    BY <2>1, <2>2, <2>4, <2>6, <2>7 DEF RunFits
  <2>9. QED
    BY <1>b, <2>1, <2>5, <2>8 DEF RunOwn, Busy, Unfinished
<1>13. CASE IoctlWriteRound(p)
  <2>1. /\ c.left > 0 /\ CopyRound(p, "w_copy")
        /\ UNCHANGED <<heap, qset, size, data_size, disturbed>>
    BY <1>13 DEF IoctlWriteRound, c
  <2>2. pc[p] = "w_copy" /\ Going(c)
    BY <2>1 DEF CopyRound, Move, Base, StepInv, Copying, c
  <2>3. RunOwn(p) /\ c.list = qset[1] /\ qset[1] \in 1 .. Len(heap) /\ qset[1] # 0
    <3>1. RunOwn(p) /\ c.list = qset[1] /\ qset[1] # 0
      BY <1>a, <2>2 DEF RunOwn, RunFits, Busy, c
    <3>2. QED
      BY <1>0, <3>1
  <2>4. CASE ~Fits(c)
    <3>1. pc'[p] = "astray"
      BY <1>0, <2>1, <2>4 DEF CopyRound, Move, Typed, c
    <3>2. QED
      BY <1>b, <2>2, <3>1 DEF RunOwn, RunFits, Busy, Amid, Unfinished
  <2>5. CASE Fits(c)
    <3>1. /\ pc'[p] = "w_copy" /\ loop'[p] = Copied(c)
      BY <1>0, <2>1, <2>5 DEF CopyRound, Move, Advances, Typed, c
    <3>2. loop'[p].list = c.list
      BY <1>0, <3>1 DEF Copied, Loops
    <3>3. heap'[qset'[1]] = l /\ size' = size /\ disturbed' = disturbed /\ qset' = qset
          /\ data_size' = data_size
      BY <2>1 DEF l
    <3>4. ASSUME ~disturbed[1]
          PROVE  Sound(l) /\ WriteFits(Copied(c), l)
      <4>1. Sound(l) /\ WriteFits(c, l)
        BY <2>2, <2>3, <3>4 DEF RunOwn, RunFits, Amid, l, c
      <4>2. c.list \in 1 .. Len(heap) /\ heap[c.list] = l
        BY <2>3 DEF l
      <4>3. QED
        BY <1>0, <2>1, <2>2, <4>1, <4>2, WriteRoundFits
    <3>5. ~disturbed'[1] => Sound(heap[qset[1]])'
      BY <3>3, <3>4 DEF Sound, Shaped
    <3>6. ~disturbed'[1] => WriteFits(loop[p], heap[qset[1]])'
      BY <3>1, <3>3, <3>4 DEF WriteFits, Index
    <3>7. RunFits(p)'
      BY <2>3, <3>1, <3>2, <3>3, <3>6 DEF RunFits
    <3>8. QED
      BY <1>b, <2>2, <2>3, <3>1, <3>3, <3>5, <3>7 DEF RunOwn, Busy, Unfinished
  <2>6. QED
    BY <2>4, <2>5
<1>14. CASE IoctlWritten(p)
  <2>1. /\ c.left = 0 /\ pc[p] = "w_copy" /\ pc'[p] = "idle" /\ data_size' = c.moved
        /\ UNCHANGED <<heap, qset, size, disturbed>>
    BY <1>0, <1>14 DEF IoctlWritten, EndsAt, Returns, Move, Typed, c
  <2>2. ASSUME ~disturbed[1], qset[1] # 0
        PROVE  Sound(l) /\ c.moved <= l.blocks * l.quantum
    <3>1. Sound(l) /\ WriteFits(c, l)
      BY <1>a, <2>1, <2>2 DEF RunOwn, RunFits, Busy, Amid, l, c
    <3>2. l.quantum = size.quantum /\ l.blocks \in Nat /\ l.blocks - 0 = l.blocks
      BY <1>0, <2>2, <3>1 DEF Sound, Shaped, Lists
    <3>3. QED
      BY <2>1, <3>1, <3>2 DEF WriteFits
  <2>3. heap'[qset'[1]] = l /\ size' = size /\ disturbed' = disturbed /\ qset' = qset
    BY <2>1 DEF l
  <2>4. RunOwn(p)'
    BY <2>1, <2>2, <2>3 DEF RunOwn, RunFits, Sound, Shaped, EndFits
  <2>5. QED
    BY <1>b, <2>1, <2>4 DEF Busy
<1>15. CASE IoctlRead(p)
  <2>1. /\ UNCHANGED <<heap, qset, data_size, disturbed, size>> /\ pc[p] \notin Busy
        /\ pc'[p] \in {"closed", "trim", "idle", "w_create", "r_start", "seek", "show"}
    BY <1>0, <1>15 DEF IoctlRead, Move, Down, Typed, Busy
  <2>2. QED
    BY <1>0, <2>1, RunFrame
<1>16. CASE IoctlReadBegin(p)
  <2>1. UNCHANGED <<file, heap, qset, size, data_size, disturbed>> /\ pc[p] = "r_start"
    BY <1>16 DEF IoctlReadBegin, Returns, Move
  <2>2. RunOwn(p) /\ pc[p] \notin Unfinished /\ pc[p] \notin Amid
    BY <1>a, <2>1 DEF Busy, Unfinished, Amid
  <2>3. heap'[qset'[1]] = l /\ size' = size /\ disturbed' = disturbed /\ qset' = qset
        /\ data_size' = data_size /\ file' = file
    BY <2>1 DEF l
  <2>4. ~disturbed'[1] /\ qset'[1] # 0 => Sound(heap[qset[1]])' /\ EndFits(heap[qset[1]])'
    <3>1. ~disturbed[1] /\ qset[1] # 0 => Sound(l) /\ EndFits(l)
      BY <2>2 DEF RunOwn, l
    <3>2. QED
      BY <2>3, <3>1 DEF Sound, Shaped, EndFits
  <2>5. CASE Returns(p, "r_start")
    <3>1. pc'[p] = "idle"
      BY <1>0, <2>5 DEF Returns, Move, Typed
    <3>2. RunOwn(p)'
      BY <2>4, <3>1 DEF RunOwn, RunFits
    <3>3. QED
      BY <1>b, <2>1, <3>2 DEF Busy
  <2>6. CASE ~Returns(p, "r_start")
    <3>1. file[p].pos < data_size /\ qset[1] # 0 /\ item > 0 /\ Move(p, "r_start", "r_copy")
      BY <1>0, <1>16, <2>6 DEF IoctlReadBegin
    <3>2. PICK count \in Counts : loop' = [loop EXCEPT ![p] = ReadLoop(qset[1], file[p].pos, count)]
      BY <1>16, <2>6 DEF IoctlReadBegin
    <3> DEFINE e == ReadLoop(qset[1], file[p].pos, count)
    <3>3. pc'[p] = "r_copy" /\ loop'[p] = e
      BY <1>0, <2>1, <3>1, <3>2 DEF Move, Typed
    <3>4. e.list = qset[1]
      BY DEF ReadLoop
    <3>5. ASSUME ~disturbed[1]
          PROVE  ReadFits(e, l, file[p].pos)
      <4>1. EndFits(l) /\ Sound(l)
        BY <2>2, <3>1, <3>5 DEF RunOwn, l
      <4>2. qset[1] \in Nat /\ count \in Nat
        BY <1>0, ListAssumption DEF Globals
      <4>3. size.quantum \in Nat \ {0} /\ size.qset \in Nat \ {0} /\ l \in Lists
        BY <1>0, <3>1, <4>1 DEF Sound, Shaped
      <4>4. QED
        BY <1>0, <3>1, <4>1, <4>2, <4>3, ReadBeginFits DEF l
    <3> HIDE DEF e
    <3>6. ~disturbed'[1] => ReadFits(loop[p], heap[qset[1]], file[p].pos)'
      BY <2>3, <3>3, <3>5 DEF ReadFits, Index
    <3>7. RunFits(p)'
      BY <2>3, <3>1, <3>3, <3>4, <3>6 DEF RunFits
    <3>8. QED
      BY <1>b, <2>1, <2>4, <3>7 DEF RunOwn, Busy
  <2>7. QED
    BY <2>5, <2>6
<1>17. CASE IoctlReadRound(p)
  <2>1. /\ c.left > 0 /\ CopyRound(p, "r_copy") /\ Advances(p)
        /\ UNCHANGED <<heap, qset, size, data_size, disturbed>>
    BY <1>17 DEF IoctlReadRound, c
  <2>2. pc[p] = "r_copy" /\ Going(c)
    BY <2>1 DEF CopyRound, Move, Base, StepInv, Copying, c
  <2>3. RunOwn(p) /\ c.list = qset[1] /\ qset[1] \in 1 .. Len(heap) /\ qset[1] # 0
    <3>1. RunOwn(p) /\ c.list = qset[1] /\ qset[1] # 0
      BY <1>a, <2>2 DEF RunOwn, RunFits, Busy, c
    <3>2. QED
      BY <1>0, <3>1
  <2>4. CASE ~Fits(c)
    <3>1. pc'[p] = "astray"
      BY <1>0, <2>1, <2>4 DEF CopyRound, Move, Typed, c
    <3>2. QED
      BY <1>b, <2>2, <3>1 DEF RunOwn, RunFits, Busy, Amid, Unfinished
  <2>5. CASE Fits(c)
    <3>1. /\ pc'[p] = "r_copy" /\ loop'[p] = Copied(c)
          /\ file'[p].pos = file[p].pos + Length(c)
      BY <1>0, <2>1, <2>5 DEF CopyRound, Move, Advances, Typed, c
    <3>2. loop'[p].list = c.list
      BY <1>0, <3>1 DEF Copied, Loops
    <3>3. heap'[qset'[1]] = l /\ size' = size /\ disturbed' = disturbed /\ qset' = qset
          /\ data_size' = data_size
      BY <2>1 DEF l
    <3>4. ASSUME ~disturbed[1]
          PROVE  Sound(l) /\ ReadFits(Copied(c), l, file[p].pos + Length(c))
      <4>1. Sound(l) /\ ReadFits(c, l, file[p].pos)
        BY <2>2, <2>3, <3>4 DEF RunOwn, RunFits, Amid, l, c
      <4>2. c.list \in 1 .. Len(heap) /\ heap[c.list] = l
        BY <2>3 DEF l
      <4>3. QED
        BY <1>0, <2>1, <2>2, <4>1, <4>2, ReadRoundFits
    <3>5. ~disturbed'[1] => Sound(heap[qset[1]])'
      BY <3>3, <3>4 DEF Sound, Shaped
    <3>6. ~disturbed'[1] => ReadFits(loop[p], heap[qset[1]], file[p].pos)'
      BY <3>1, <3>3, <3>4 DEF ReadFits, Index
    <3>7. RunFits(p)'
      BY <2>3, <3>1, <3>2, <3>3, <3>6 DEF RunFits
    <3>8. RunOwn(p)'
      <4>1. ~disturbed[1] => EndFits(l)
        BY <2>2, <2>3 DEF RunOwn, Unfinished, l
      <4>2. ~disturbed'[1] => EndFits(heap[qset[1]])'
        BY <3>3, <4>1 DEF EndFits
      <4>3. QED
        BY <3>5, <3>7, <4>2 DEF RunOwn
    <3>9. QED
      BY <1>b, <3>8, <2>2, <2>3, <3>1, <3>3, <3>5, <3>7 DEF RunOwn, Busy, Unfinished
  <2>6. QED
    BY <2>4, <2>5
<1>18. CASE IoctlReadDone(p)
  <2>1. /\ c.left = 0 /\ pc[p] = "r_copy" /\ pc'[p] = "idle" /\ data_size' = file[p].pos
        /\ UNCHANGED <<heap, qset, size, disturbed>>
    BY <1>0, <1>18 DEF IoctlReadDone, Returns, Move, Typed, c
  <2>2. ASSUME ~disturbed[1], qset[1] # 0
        PROVE  Sound(l) /\ file[p].pos <= l.blocks * l.quantum
    <3>1. Sound(l) /\ ReadFits(c, l, file[p].pos)
      BY <1>a, <2>1, <2>2 DEF RunOwn, RunFits, Busy, Amid, l, c
    <3>2. QED
      BY <3>1 DEF ReadFits, Sound, Shaped
  <2>3. heap'[qset'[1]] = l /\ size' = size /\ disturbed' = disturbed /\ qset' = qset
    BY <2>1 DEF l
  <2>4. RunOwn(p)'
    BY <2>1, <2>2, <2>3 DEF RunOwn, RunFits, Sound, Shaped, EndFits
  <2>5. QED
    BY <1>b, <2>1, <2>4 DEF Busy
<1>19. CASE IoctlSeek(p)
  <2>0. UNCHANGED <<heap, qset, data_size, disturbed, size>>
    BY <1>19 DEF IoctlSeek
  <2>1. CASE pc[p] \notin Busy
    <3>1. pc'[p] \in {"closed", "trim", "idle", "w_create", "r_start", "seek", "show"}
      BY <1>0, <1>19, <2>1 DEF IoctlSeek, Move, Returns, Down, Typed, Busy
    <3>2. QED
      BY <1>0, <2>0, <2>1, <3>1, RunFrame
  <2>2. CASE pc[p] \in Busy
    <3>1. pc[p] \notin Unfinished /\ pc[p] \notin Amid /\ pc'[p] \in {"idle", "closed"}
      BY <1>0, <1>19, <2>2 DEF IoctlSeek, Move, Returns, Down, Typed, Busy, Unfinished, Amid
    <3>2. RunOwn(p)'
      BY <1>a, <2>0, <2>2, <3>1 DEF RunOwn, RunFits, Sound, Shaped, EndFits
    <3>3. QED
      BY <1>b, <2>2, <3>2
  <2>3. QED
    BY <2>1, <2>2
<1>20. CASE scull_seq_show(p)
  <2>0. UNCHANGED <<heap, qset, data_size, disturbed, size>>
    BY <1>20 DEF scull_seq_show
  <2>1. CASE pc[p] \notin Busy
    <3>1. pc'[p] \in {"closed", "trim", "idle", "w_create", "r_start", "seek", "show"}
      BY <1>0, <1>20, <2>1 DEF scull_seq_show, Move, Returns, Down, Typed, Busy
    <3>2. QED
      BY <1>0, <2>0, <2>1, <3>1, RunFrame
  <2>2. CASE pc[p] \in Busy
    <3>1. pc[p] \notin Unfinished /\ pc[p] \notin Amid /\ pc'[p] \in {"idle", "closed"}
      BY <1>0, <1>20, <2>2 DEF scull_seq_show, Move, Returns, Down, Typed, Busy, Unfinished, Amid
    <3>2. RunOwn(p)'
      BY <1>a, <2>0, <2>2, <3>1, SMTT(60) DEF RunOwn, RunFits, Sound, Shaped, EndFits
    <3>3. QED
      BY <1>b, <2>2, <3>2
  <2>3. QED
    BY <2>1, <2>2
<1>21. QED
  BY <1>1, <1>2, <1>3, <1>4, <1>5, <1>6, <1>7, <1>8, <1>9, <1>10, <1>11, <1>12, <1>13, <1>14, <1>15, <1>16, <1>17, <1>18, <1>19, <1>20 DEF IoctlNext

(* Only these steps of the locked drivers can leave the list.              *)
LEMMA IoctlLeaves ==
  ASSUME Typed, NEW p \in Procs, IoctlNext(p), pc[p] # "astray", pc'[p] = "astray"
  PROVE  \/ IoctlTrim(p) /\ qset[1] # 0 /\ size.qset > heap[qset[1]].width /\ pc[p] = "trim"
         \/ /\ create_quantums(p) /\ pc[p] = "w_quanta"
            /\ LET n == DivUp(loop[p].total, size.quantum)
                   dealt == Dealt(heap[loop[p].list], n)
               IN  ~ \A j \in 0 .. n - 1 : Present(dealt, j \div dealt.by, j % dealt.by)
         \/ IoctlWriteRound(p) /\ ~Fits(loop[p]) /\ pc[p] = "w_copy" /\ loop[p].left > 0
         \/ IoctlReadRound(p) /\ ~Fits(loop[p]) /\ pc[p] = "r_copy" /\ loop[p].left > 0
<1>1. CASE IoctlOpen(p)
  BY <1>1 DEF IoctlOpen, Move, Returns, Down, CopyRound, Typed
<1>2. CASE IoctlClose(p)
  BY <1>2 DEF IoctlClose, Move, Returns, Down, CopyRound, Typed
<1>3. CASE IoctlTrim(p)
  BY <1>3 DEF IoctlTrim, Move, Returns, Down, CopyRound, Typed
<1>4. CASE ioctl_dev(p)
  BY <1>4 DEF ioctl_dev, Move, Returns, Down, CopyRound, Typed
<1>5. CASE IoctlWrite(p)
  BY <1>5 DEF IoctlWrite, Move, Returns, Down, CopyRound, Typed
<1>6. CASE IoctlTooLarge(p)
  BY <1>6 DEF IoctlTooLarge, Move, Returns, Down, CopyRound, Typed
<1>7. CASE IoctlCreateFails(p)
  BY <1>7 DEF IoctlCreateFails, Move, Returns, Down, CopyRound, Typed
<1>8. CASE IoctlOopses(p)
  BY <1>8 DEF IoctlOopses, Move, Returns, Down, CopyRound, Typed
<1>9. CASE create_scullqset(p)
  BY <1>9 DEF create_scullqset, Move, Returns, Down, CopyRound, Typed
<1>10. CASE create_qset(p)
  BY <1>10, SMTT(60) DEF create_qset, Move, Returns, Down, CopyRound, Typed
<1>11. CASE create_quantums(p)
  BY <1>11 DEF create_quantums, Move, Returns, Down, CopyRound, Typed
<1>12. CASE IoctlBegin(p)
  BY <1>12 DEF IoctlBegin, Move, Returns, Down, CopyRound, Typed
<1>13. CASE IoctlWriteRound(p)
  BY <1>13 DEF IoctlWriteRound, Move, Returns, Down, CopyRound, Typed
<1>14. CASE IoctlWritten(p)
  BY <1>14 DEF IoctlWritten, Move, Returns, Down, CopyRound, Typed
<1>15. CASE IoctlRead(p)
  BY <1>15 DEF IoctlRead, Move, Returns, Down, CopyRound, Typed
<1>16. CASE IoctlReadBegin(p)
  BY <1>16 DEF IoctlReadBegin, Move, Returns, Down, CopyRound, Typed
<1>17. CASE IoctlReadRound(p)
  BY <1>17 DEF IoctlReadRound, Move, Returns, Down, CopyRound, Typed
<1>18. CASE IoctlReadDone(p)
  BY <1>18 DEF IoctlReadDone, Move, Returns, Down, CopyRound, Typed
<1>19. CASE IoctlSeek(p)
  BY <1>19 DEF IoctlSeek, Move, Returns, Down, CopyRound, Typed
<1>20. CASE scull_seq_show(p)
  BY <1>20 DEF scull_seq_show, Move, Returns, Down, CopyRound, Typed
<1>21. QED
  BY <1>1, <1>2, <1>3, <1>4, <1>5, <1>6, <1>7, <1>8, <1>9, <1>10, <1>11, <1>12, <1>13, <1>14, <1>15, <1>16, <1>17, <1>18, <1>19, <1>20 DEF IoctlNext

LEMMA RunStrays ==
  ASSUME Base, LocksReturned, driver \in RunTime, RunTimeInv, NEW p \in Procs, IoctlNext(p),
         pc[p] # "astray", pc'[p] = "astray"
  PROVE  disturbed[1]
<1> SUFFICES ASSUME ~disturbed[1]
             PROVE  FALSE
  OBVIOUS
<1> DEFINE l == heap[qset[1]]
           c == loop[p]
<1>0. /\ Typed /\ Globals /\ c \in Loops /\ file[p].pos \in Nat
      /\ size.quantum \in Nat /\ size.qset \in Nat /\ driver # "scratch_to_driver"
  <2>1. Typed /\ Globals /\ c \in Loops /\ file[p] \in Files
    BY Found
  <2>2. QED
    BY <2>1 DEF Globals, Files, RunTime
<1>1. CASE IoctlTrim(p) /\ qset[1] # 0 /\ size.qset > l.width /\ pc[p] = "trim"
  <2>1. Sound(l)
    BY <1>1, RunHolds DEF RunOwn, Busy, Amid
  <2>2. QED
    BY <1>0, <1>1, <2>1 DEF Sound, Shaped
<1>2. ASSUME create_quantums(p), pc[p] = "w_quanta"
      PROVE  LET n == DivUp(c.total, size.quantum)
                 dealt == Dealt(heap[c.list], n)
             IN  \A j \in 0 .. n - 1 : Present(dealt, j \div dealt.by, j % dealt.by)
  <2>1. /\ size.quantum >= 1 /\ size.qset >= 1
        /\ heap[c.list].sets = DivUp(c.total, item) /\ heap[c.list].width = size.qset
    BY <1>2, RunHolds DEF RunOwn, RunFits, Busy
  <2>2. c.list \in DOMAIN heap /\ heap[c.list].live /\ heap[c.list].sets >= 1 /\ c.total >= 1
    BY <1>2 DEF Base, LiveInv
  <2>3. heap[c.list] \in Lists /\ c.total \in Nat \ {0}
    BY <1>0, <2>2, SMTT(60) DEF Globals, Loops
  <2> HIDE DEF c
  <2>4. QED
    BY <2>1, <2>2, <2>3, DealtSound
<1>3. ASSUME pc[p] \in {"w_copy", "r_copy"}, c.left > 0
      PROVE  Fits(c)
  <2>1. /\ RunFits(p) /\ Going(c) /\ c.list = qset[1] /\ qset[1] # 0 /\ Sound(l)
        /\ qset[1] \in 1 .. Len(heap)
    <3>1. RunFits(p) /\ c.list = qset[1] /\ qset[1] # 0 /\ Sound(l)
      BY <1>3, RunHolds DEF RunOwn, RunFits, Busy, Amid
    <3>2. Going(c)
      BY <1>3 DEF Base, StepInv, Copying
    <3>3. qset[1] \in 1 .. Len(heap)
      BY <1>0, <3>1, Found DEF Globals
    <3>4. QED
      BY <3>1, <3>2, <3>3
  <2>2. CASE pc[p] = "w_copy"
    <3>1. WriteFits(c, heap[c.list])
      BY <2>1, <2>2 DEF RunFits
    <3>2. QED
      BY <1>0, <1>3, <2>1, <3>1, WriteRoundFits
  <2>3. CASE pc[p] = "r_copy"
    <3>1. ReadFits(c, heap[c.list], file[p].pos)
      BY <2>1, <2>3 DEF RunFits
    <3>2. QED
      BY <1>0, <1>3, <2>1, <3>1, ReadRoundFits
  <2>4. QED
    BY <1>3, <2>2, <2>3
<1>4. QED
  BY <1>0, <1>1, <1>2, <1>3, IoctlLeaves

LEMMA ProcLeaves ==
  ASSUME Typed, NEW p \in Procs, ProcNext(p), pc[p] # "astray", pc'[p] = "astray"
  PROVE  ~Fits(loop[p]) /\ pc[p] \in {"w_copy", "r_copy"} /\ loop[p].left > 0
<1>1. CASE ProcOpen(p)
  BY <1>1 DEF ProcOpen, Move, Returns, Down, CopyRound, Typed
<1>2. CASE ProcClose(p)
  BY <1>2 DEF ProcClose, Move, Returns, Down, CopyRound, Typed
<1>3. CASE ProcTrim(p)
  BY <1>3 DEF ProcTrim, Move, Returns, Down, CopyRound, Typed
<1>4. CASE ProcWrite(p)
  BY <1>4 DEF ProcWrite, Move, Returns, Down, CopyRound, Typed
<1>5. CASE ProcTooLarge(p)
  BY <1>5 DEF ProcTooLarge, Move, Returns, Down, CopyRound, Typed
<1>6. CASE ProcCreate(p)
  BY <1>6 DEF ProcCreate, Move, Returns, Down, CopyRound, Typed
<1>7. CASE ProcCreateFails(p)
  BY <1>7 DEF ProcCreateFails, Move, Returns, Down, CopyRound, Typed
<1>8. CASE ProcWriteRound(p)
  BY <1>8 DEF ProcWriteRound, Move, Returns, Down, CopyRound, Typed
<1>9. CASE ProcWritten(p)
  BY <1>9 DEF ProcWritten, Move, Returns, Down, CopyRound, Typed
<1>10. CASE ProcRead(p)
  BY <1>10 DEF ProcRead, Move, Returns, Down, CopyRound, Typed
<1>11. CASE ProcReadBegin(p)
  BY <1>11 DEF ProcReadBegin, Move, Returns, Down, CopyRound, Typed
<1>12. CASE ProcReadRound(p)
  BY <1>12 DEF ProcReadRound, Move, Returns, Down, CopyRound, Typed
<1>13. CASE ProcReadDone(p)
  BY <1>13 DEF ProcReadDone, Move, Returns, Down, CopyRound, Typed
<1>14. CASE ProcSeek(p)
  BY <1>14 DEF ProcSeek, Move, Returns, Down, CopyRound, Typed
<1>15. CASE ProcShow(p)
  BY <1>15 DEF ProcShow, Move, Returns, Down, CopyRound, Typed
<1>16. QED
  BY <1>1, <1>2, <1>3, <1>4, <1>5, <1>6, <1>7, <1>8, <1>9, <1>10, <1>11, <1>12, <1>13, <1>14, <1>15 DEF ProcNext

LEMMA ProcStrays ==
  ASSUME Base, LocksReturned, driver = "proc", ProcInv, NEW p \in Procs, ProcNext(p),
         pc[p] # "astray", pc'[p] = "astray"
  PROVE  disturbed[Dev(p)]
<1> SUFFICES ASSUME ~disturbed[Dev(p)]
             PROVE  FALSE
  OBVIOUS
<1> DEFINE c == loop[p]
<1>1. /\ Typed /\ Globals /\ c \in Loops /\ file[p].pos \in Nat /\ Dev(p) \in Devices
  BY Found DEF Files
<1>2. ~Fits(c) /\ pc[p] \in {"w_copy", "r_copy"} /\ c.left > 0
  BY <1>1, ProcLeaves
<1>3. ProcFits(p) /\ c.list = qset[Dev(p)] /\ c.list # 0
  BY <1>2 DEF ProcInv, ProcFits
<1>4. c.list \in 1 .. Len(heap) /\ Sound(heap[c.list]) /\ Going(c)
  BY <1>1, <1>2, <1>3 DEF Globals, ProcInv, Base, StepInv, Copying
<1>5. CASE pc[p] = "w_copy"
  <2>1. WriteFits(c, heap[c.list])
    BY <1>3, <1>5 DEF ProcFits
  <2>2. QED
    BY <1>1, <1>2, <1>4, <2>1, WriteRoundFits
<1>6. CASE pc[p] = "r_copy"
  <2>1. ReadFits(c, heap[c.list], file[p].pos)
    BY <1>3, <1>6 DEF ProcFits
  <2>2. QED
    BY <1>1, <1>2, <1>4, <2>1, ReadRoundFits
<1>7. QED
  BY <1>2, <1>5, <1>6

-----------------------------------------------------------------------------
(* completion                                                              *)

(* A step that changes no list.                                            *)
LEMMA ComplFrame ==
  ASSUME Base, ComplInv, NEW p \in Procs, Own(p), UNCHANGED <<heap, qset, size>>,
         pc[p] = "trimmed" => pc'[p] = "trimmed",
         ~disturbed'[1] =>
           /\ ~disturbed[1] /\ ComplFits(p)'
           /\ Alters(p)' => Alters(p)
           /\ InList(p)' => InList(p) \/ \A q \in Procs : ~Alters(q)
           /\ qset[1] # 0 /\ ~Alters(p)' =>
                (data_size' = data_size /\ ~Alters(p)) \/ EndFits(heap[qset[1]])'
  PROVE  ComplInv'
<1>1. /\ \A q \in Procs \ {p} : pc'[q] = pc[q] /\ file'[q] = file[q] /\ loop'[q] = loop[q]
      /\ heap' = heap /\ qset' = qset /\ size' = size
  BY OwnOthers DEF Base
<1>2. ComplList'
  BY <1>1 DEF ComplInv, ComplList, Sound, Shaped
<1>3. \A q \in Procs \ {p} : (Alters(q)' <=> Alters(q)) /\ (InList(q)' <=> InList(q))
  BY <1>1 DEF Alters, InList
<1>4. ASSUME ~disturbed'[1], qset'[1] # 0, \A q \in Procs : ~Alters(q)'
      PROVE  EndFits(heap[qset[1]])'
  <2>1. CASE data_size' = data_size /\ ~Alters(p)
    <3>1. \A q \in Procs : ~Alters(q)
      BY <1>3, <1>4, <2>1
    <3>2. EndFits(heap[qset[1]])
      BY <1>1, <1>4, <3>1 DEF ComplInv
    <3>3. QED
      BY <1>1, <2>1, <3>2 DEF EndFits
  <2>2. QED
    BY <1>1, <1>4, <2>1
<1>5. ASSUME ~disturbed'[1]
      PROVE  /\ \A q, r \in Procs : Alters(q)' /\ InList(r)' => q = r
             /\ \A q \in Procs : ComplFits(q)'
  <2>1. /\ \A q, r \in Procs : Alters(q) /\ InList(r) => q = r
        /\ \A q \in Procs : ComplFits(q)
    BY <1>5 DEF ComplInv
  <2>2. \A q, r \in Procs : Alters(q)' /\ InList(r)' => q = r
    BY <1>3, <1>5, <2>1
  <2>3. ASSUME NEW q \in Procs
        PROVE  ComplFits(q)'
    <3>1. CASE q = p
      BY <1>5, <3>1
    <3>2. CASE q # p
      BY <1>1, <1>3, <2>1, <3>2 DEF ComplFits, WriteFits, ReadFits, Index
    <3>3. QED
      BY <3>1, <3>2
  <2>4. QED
    BY <2>2, <2>3
<1>6. QED
  BY <1>2, <1>4, <1>5 DEF ComplInv

(* A step that leaves the device undisturbed only if nobody else is in its *)
(* list.                                                                   *)
LEMMA ComplAlone ==
  ASSUME Base, NEW p \in Procs, Own(p), ComplList',
         ~disturbed'[1] =>
           /\ ~NotAlone(p) /\ ComplFits(p)'
           /\ qset'[1] # 0 => Alters(p)' \/ EndFits(heap[qset[1]])'
  PROVE  ComplInv'
<1>1. \A q \in Procs \ {p} : pc'[q] = pc[q]
  BY OwnOthers DEF Base
<1>2. ASSUME ~disturbed'[1]
      PROVE  \A q \in Procs \ {p} : ~InList(q)' /\ ~InList(q)
  BY <1>1, <1>2 DEF NotAlone, InList, Alters
<1>3. ASSUME ~disturbed'[1], NEW q \in Procs
      PROVE  ComplFits(q)'
  <2>1. CASE q = p
    BY <1>3, <2>1
  <2>2. CASE q # p
    <3>1. pc'[q] \notin {"trimmed", "w_begin", "w_copy", "r_copy"}
      BY <1>2, <1>3, <2>2 DEF InList, Alters
    <3>2. QED
      BY <3>1 DEF ComplFits, InList, Alters
  <2>3. QED
    BY <2>1, <2>2
<1>4. ASSUME ~disturbed'[1]
      PROVE  \A q, r \in Procs : Alters(q)' /\ InList(r)' => q = r
  <2>1. \A q \in Procs : Alters(q)' => InList(q)'
    BY DEF InList
  <2>2. QED
    BY <1>2, <1>4, <2>1
<1>5. QED
  BY <1>2, <1>3, <1>4 DEF ComplInv

(* Who copies, on a device that nothing disturbed, has the list.           *)
LEMMA ComplSound ==
  ASSUME ComplInv, ~disturbed[1], NEW p \in Procs, pc[p] \in {"w_begin", "w_copy", "r_copy"}
  PROVE  qset[1] # 0 /\ Sound(heap[qset[1]])
<1>1. InList(p) /\ ComplFits(p) /\ ComplList
  BY DEF InList, Alters, ComplInv
<1>2. \A q \in Procs : pc[q] # "trimmed"
  BY <1>1 DEF ComplInv, Alters
<1>3. QED
  BY <1>1, <1>2 DEF ComplFits, ComplList

LEMMA ComplSteps ==
  ASSUME Base, driver = "completion", ComplInv, NEW p \in Procs, ComplNext(p)
  PROVE  ComplInv'
<1> DEFINE l == heap[qset[1]]
           c == loop[p]
<1>0. /\ Typed /\ Globals /\ 1 \in Devices /\ file[p] \in Files /\ c \in Loops /\ pc[p] \in PCs
      /\ Own(p) /\ Base' /\ driver # "scratch_to_driver"
      /\ disturbed \in [Devices -> BOOLEAN] /\ size.quantum = 3 /\ size.qset = 2
      /\ data_size \in Nat /\ file[p].pos \in Nat
      /\ qset[1] # 0 => qset[1] \in 1 .. Len(heap) /\ l \in Lists
  <2>1. /\ Typed /\ Globals /\ 1 \in Devices /\ file[p] \in Files /\ c \in Loops /\ pc[p] \in PCs
    BY Found
  <2>2. Own(p) /\ Base'
    BY ComplBase
  <2>3. qset[1] # 0 => qset[1] \in 1 .. Len(heap) /\ l \in Lists
    BY <2>1 DEF Globals
  <2>4. size.quantum = 3 /\ size.qset = 2
    BY FixedSizes DEF RunTime
  <2>5. QED
    BY <2>1, <2>2, <2>3, <2>4 DEF Globals, Files
<1> HIDE DEF l, c
<1>a. Copying(p) => Going(c)
  BY DEF Base, StepInv, c
<1>1. CASE ComplOpen(p)
  <2>1. UNCHANGED <<qset, size, data_size>> /\ pc[p] = "closed"
    BY <1>1 DEF ComplOpen, Move
  <2>2. CASE Move(p, "closed", "idle") /\ UNCHANGED <<heap, disturbed>>
    <3>1. pc'[p] = "idle"
      BY <1>0, <2>2 DEF Move, Typed
    <3>2. QED
      BY <1>0, <2>1, <2>2, <3>1, ComplFrame DEF ComplFits, InList, Alters
  <2>3. CASE /\ qset[1] # 0 /\ Move(p, "closed", IF Dangling THEN "astray" ELSE "trimmed")
             /\ heap' = Freed(1)
             /\ disturbed' = [disturbed EXCEPT ![1] = @ \/ NotAlone(p)]
    <3>1. pc'[p] = IF Dangling THEN "astray" ELSE "trimmed"
      BY <1>0, <2>3 DEF Move, Typed
    <3>2. \A q \in Procs \ {p} : pc'[q] = pc[q]
      BY <1>0, OwnOthers DEF Base
    <3>3. Dangling => \E q \in Procs \ {p} : pc[q] = "trimmed"
      BY <2>1 DEF Dangling, ComplInv, ComplList
    <3>4. Dangling => NotAlone(p)
      BY <3>3 DEF NotAlone, InList, Alters
    <3>5. ~disturbed'[1] => ~NotAlone(p)
      BY <1>0, <2>3
    <3>6. ComplList'
      <4>1. \E q \in Procs : pc'[q] = "trimmed"
        BY <3>1, <3>2, <3>3
      <4>2. heap'[qset'[1]] = Gone
        BY <1>0, <2>1, <2>3, FreedList
      <4>3. QED
        BY <4>1, <4>2 DEF ComplList, Gone
    <3>7. ~disturbed'[1] => pc'[p] = "trimmed"
      BY <3>1, <3>4, <3>5
    <3>8. ~disturbed'[1] => ComplFits(p)' /\ Alters(p)'
      BY <2>1, <2>3, <3>7 DEF ComplFits, InList, Alters
    <3>9. QED
      BY <1>0, <3>5, <3>6, <3>8, ComplAlone
  <2>4. QED
    BY <1>1, <2>2, <2>3 DEF ComplOpen
<1>2. CASE ComplClose(p)
  <2>1. /\ UNCHANGED <<heap, qset, size, data_size, disturbed>>
        /\ pc[p] \notin {"trimmed", "w_begin", "w_copy", "r_copy"}
        /\ pc'[p] \notin {"trimmed", "w_begin", "w_copy", "r_copy"}
    BY <1>0, <1>2 DEF ComplClose, Move, Returns, Typed
  <2>2. QED
    BY <1>0, <2>1, ComplFrame DEF ComplFits, InList, Alters
<1>3. CASE ComplSeek(p)
  <2>1. /\ UNCHANGED <<heap, qset, size, data_size, disturbed>>
        /\ pc[p] \notin {"trimmed", "w_begin", "w_copy", "r_copy"}
        /\ pc'[p] \notin {"trimmed", "w_begin", "w_copy", "r_copy"}
    BY <1>0, <1>3 DEF ComplSeek, Move, Returns, Typed
  <2>2. QED
    BY <1>0, <2>1, ComplFrame DEF ComplFits, InList, Alters
<1>4. CASE ComplWrite(p)
  <2>1. /\ UNCHANGED <<heap, qset, size, data_size, disturbed>>
        /\ pc[p] \notin {"trimmed", "w_begin", "w_copy", "r_copy"}
        /\ pc'[p] \notin {"trimmed", "w_begin", "w_copy", "r_copy"}
    BY <1>0, <1>4 DEF ComplWrite, Move, Returns, Typed
  <2>2. QED
    BY <1>0, <2>1, ComplFrame DEF ComplFits, InList, Alters
<1>5. CASE ComplTooLarge(p)
  <2>1. /\ UNCHANGED <<heap, qset, size, data_size, disturbed>>
        /\ pc[p] \notin {"trimmed", "w_begin", "w_copy", "r_copy"}
        /\ pc'[p] \notin {"trimmed", "w_begin", "w_copy", "r_copy"}
    BY <1>0, <1>5 DEF ComplTooLarge, Move, Returns, Typed
  <2>2. QED
    BY <1>0, <2>1, ComplFrame DEF ComplFits, InList, Alters
<1>6. CASE ComplCreate(p)
  <2>1. PICK count \in Counts :
          /\ 0 < count
          /\ heap' = Append(heap, NewList(count))
          /\ loop' = [loop EXCEPT ![p] = WriteLoop(0, count)]
    BY <1>6 DEF ComplCreate
  <2>2. /\ pc[p] = "w_create" /\ pc'[p] = "w_begin" /\ UNCHANGED <<file, size, data_size>>
        /\ qset' = [qset EXCEPT ![1] = Len(heap')]
        /\ disturbed' = [disturbed EXCEPT ![1] = Replaced(p)]
    BY <1>0, <1>6 DEF ComplCreate, Move, Typed
  <2>3. count \in Nat \ {0}
    BY <2>1, ListAssumption
  <2> DEFINE x == NewList(count)
  <2>4. x \in Lists /\ Sound(x) /\ x.blocks = DivUp(count, size.quantum)
    BY <2>3, ListMade, ListSound DEF RunTime
  <2>5. WriteFits(WriteLoop(0, count), x)
    <3> HIDE DEF x
    <3>1. 3 \in Nat \ {0} /\ 2 \in Nat \ {0} /\ 0 \in Nat
      OBVIOUS
    <3>2. QED
      BY <1>0, <2>3, <2>4, <3>1, WriteBeginFits
  <2>6. heap' = Append(heap, x)
    BY <2>1
  <2> HIDE DEF x
  <2>7. heap'[Len(heap')] = x /\ Len(heap') # 0 /\ Len(heap') \in Nat
    BY <1>0, <2>6 DEF Globals
  <2>8. heap'[qset'[1]] = x /\ qset'[1] # 0 /\ size' = size
    BY <1>0, <2>2, <2>7 DEF Globals
  <2>9. ComplList'
    BY <2>4, <2>8 DEF ComplList, Sound, Shaped
  <2>10. ~disturbed'[1] => ~NotAlone(p) /\ file[p].pos = 0
    BY <1>0, <2>2 DEF Replaced
  <2> DEFINE e == WriteLoop(0, count)
  <2>11. loop'[p] = e /\ e.moved = 0
    BY <1>0, <2>1 DEF Typed, WriteLoop, NoLoop
  <2> HIDE DEF e
  <2>12. WriteFits(loop[p], heap[qset[1]])'
    <3>1. WriteFits(e, x)
      BY <2>5 DEF e
    <3>2. QED
      BY <2>8, <2>11, <3>1 DEF WriteFits, Index
  <2>13. file'[p].pos = file[p].pos
    BY <2>2
  <2>14. ~disturbed'[1] => ComplFits(p)'
    BY <2>2, <2>8, <2>10, <2>11, <2>12, <2>13 DEF ComplFits
  <2>15. Alters(p)'
    BY <2>2 DEF Alters
  <2>16. QED
    BY <1>0, <2>9, <2>10, <2>14, <2>15, ComplAlone
<1>7. CASE ComplCreateFails(p)
  <2>1. /\ UNCHANGED <<heap, size, data_size>> /\ pc[p] = "w_create" /\ pc'[p] \in {"idle", "oops"}
        /\ disturbed' = [disturbed EXCEPT ![1] = @ \/ NotAlone(p)]
    BY <1>0, <1>7 DEF ComplCreateFails, Returns, Move, Typed
  <2>2. ~disturbed'[1] => ~disturbed[1] /\ ~NotAlone(p)
    BY <1>0, <2>1
  <2>3. ComplFits(p)' /\ ~Alters(p) /\ ~Alters(p)' /\ ~InList(p)'
    BY <2>1 DEF ComplFits, InList, Alters
  <2>4. CASE qset' = qset
    BY <1>0, <2>1, <2>2, <2>3, <2>4, ComplFrame
  <2>5. CASE qset' = [qset EXCEPT ![1] = 0]
    <3>1. qset'[1] = 0 /\ ComplList'
      BY <1>0, <2>5 DEF Globals, ComplList
    <3>2. QED
      BY <1>0, <2>2, <2>3, <3>1, ComplAlone
  <2>6. QED
    BY <1>7, <2>4, <2>5 DEF ComplCreateFails
<1>8. CASE ComplBegin(p)
  <2>1. /\ UNCHANGED <<file, heap, qset, size, data_size, disturbed>> /\ pc[p] = "w_begin"
    BY <1>8 DEF ComplBegin, Returns, Move
  <2>2. ~disturbed[1] => qset[1] # 0 /\ WriteFits(c, l) /\ file[p].pos = c.moved
    BY <2>1 DEF ComplInv, ComplFits, InList, Alters, l, c
  <2>3. CASE Move(p, "w_begin", "w_copy") /\ loop' = [loop EXCEPT ![p].list = qset[1]]
    <3>1. pc'[p] = "w_copy" /\ loop'[p] = [c EXCEPT !.list = qset[1]]
      BY <1>0, <2>3 DEF Move, Typed, c
    <3>2. /\ loop'[p].list = qset[1] /\ loop'[p].set = c.set /\ loop'[p].slot = c.slot
          /\ loop'[p].qoff = c.qoff /\ loop'[p].chunk = c.chunk /\ loop'[p].left = c.left
          /\ loop'[p].moved = c.moved
      BY <1>0, <3>1 DEF Loops
    <3>3. heap'[qset'[1]] = l /\ size' = size /\ qset' = qset /\ file' = file
      BY <2>1 DEF l
    <3>4. ~disturbed'[1] => ComplFits(p)'
      BY <2>1, <2>2, <3>1, <3>2, <3>3 DEF ComplFits, WriteFits, Index
    <3>5. Alters(p) /\ Alters(p)' /\ InList(p)
      BY <2>1, <3>1 DEF Alters, InList
    <3>6. QED
      BY <1>0, <2>1, <3>4, <3>5, ComplFrame
  <2>4. CASE qset[1] = 0 /\ Returns(p, "w_begin")
    <3>1. pc'[p] = "idle"
      BY <1>0, <2>4 DEF Returns, Move, Typed
    <3>2. QED
      BY <1>0, <2>1, <2>2, <2>4, <3>1, ComplFrame DEF ComplFits, InList, Alters
  <2>5. QED
    BY <1>8, <2>3, <2>4 DEF ComplBegin
<1>9. CASE ComplWriteRound(p)
  <2>1. /\ c.left > 0 /\ CopyRound(p, "w_copy") /\ Advances(p)
        /\ UNCHANGED <<heap, qset, size, data_size, disturbed>>
    BY <1>9 DEF ComplWriteRound, c
  <2>2. pc[p] = "w_copy" /\ Going(c)
    BY <1>a, <2>1 DEF CopyRound, Move, Copying
  <2>3. ASSUME ~disturbed[1]
        PROVE  /\ Fits(c) /\ WriteFits(Copied(c), l) /\ c.list = qset[1] /\ qset[1] # 0 /\ file[p].pos = c.moved
    <3>1. /\ WriteFits(c, l) /\ c.list = qset[1] /\ qset[1] # 0 /\ Sound(l) /\ file[p].pos = c.moved
      BY <2>2, <2>3, ComplSound DEF ComplInv, ComplFits, InList, Alters, l, c
    <3>2. c.list \in 1 .. Len(heap) /\ heap[c.list] = l
      BY <1>0, <3>1 DEF l
    <3>3. QED
      BY <1>0, <2>1, <2>2, <3>1, <3>2, WriteRoundFits
  <2>4. CASE disturbed[1]
    BY <1>0, <2>1, <2>2, <2>4, ComplFrame
  <2>5. CASE ~disturbed[1]
    <3>1. /\ pc'[p] = "w_copy" /\ loop'[p] = Copied(c)
          /\ file'[p].pos = file[p].pos + Length(c)
      BY <1>0, <2>1, <2>3, <2>5 DEF CopyRound, Move, Advances, Typed, c
    <3>2. loop'[p].list = c.list /\ loop'[p].moved = c.moved + Length(c)
      BY <1>0, <3>1 DEF Copied, Loops
    <3>3. heap'[qset'[1]] = l /\ size' = size /\ qset' = qset
      BY <2>1 DEF l
    <3>4. WriteFits(loop[p], heap[qset[1]])'
      BY <2>3, <2>5, <3>1, <3>3 DEF WriteFits, Index
    <3>5. ComplFits(p)'
      BY <2>3, <2>5, <3>1, <3>2, <3>3, <3>4 DEF ComplFits, Alters, InList
    <3>6. Alters(p) /\ Alters(p)' /\ InList(p)
      BY <2>2, <3>1 DEF Alters, InList
    <3>7. QED
      BY <1>0, <2>1, <2>2, <2>5, <3>5, <3>6, ComplFrame
  <2>6. QED
    BY <2>4, <2>5
<1>10. CASE ComplWritten(p)
  <2>1. /\ c.left = 0 /\ pc[p] = "w_copy" /\ pc'[p] = "idle" /\ data_size' = file[p].pos
        /\ UNCHANGED <<heap, qset, size, disturbed>>
    BY <1>0, <1>10 DEF ComplWritten, EndsAt, Returns, Move, Typed, c
  <2>2. ASSUME ~disturbed[1]
        PROVE  EndFits(heap[qset[1]])'
    <3>1. Sound(l) /\ WriteFits(c, l) /\ file[p].pos = c.moved /\ l \in Lists
      BY <1>0, <2>1, <2>2, ComplSound DEF ComplInv, ComplFits, InList, Alters, l, c
    <3>2. l.quantum = size.quantum /\ l.blocks \in Nat /\ l.blocks - 0 = l.blocks
      BY <3>1 DEF Sound, Shaped, Lists
    <3>3. file[p].pos <= l.blocks * l.quantum
      BY <2>1, <3>1, <3>2 DEF WriteFits
    <3>4. QED
      BY <2>1, <3>3 DEF EndFits, l
  <2>3. ComplFits(p)' /\ ~Alters(p)' /\ ~InList(p)'
    BY <2>1 DEF ComplFits, InList, Alters
  <2>4. QED
    BY <1>0, <2>1, <2>2, <2>3, ComplFrame
<1>11. CASE ComplRead(p)
  <2>1. /\ UNCHANGED <<heap, qset, size, data_size, disturbed>>
        /\ pc[p] \notin {"trimmed", "w_begin", "w_copy", "r_copy"}
        /\ pc'[p] \notin {"trimmed", "w_begin", "w_copy", "r_copy"}
    BY <1>0, <1>11 DEF ComplRead, Move, Returns, Typed
  <2>2. QED
    BY <1>0, <2>1, ComplFrame DEF ComplFits, InList, Alters
<1>12. CASE ComplReadBegin(p)
  <2>1. UNCHANGED <<file, heap, qset, size, data_size>> /\ pc[p] = "r_start"
    BY <1>12 DEF ComplReadBegin, Returns, Move
  <2>2. ~Alters(p)
    BY <2>1 DEF Alters
  <2>3. CASE Returns(p, "r_start") /\ UNCHANGED disturbed
    <3>1. pc'[p] = "idle"
      BY <1>0, <2>3 DEF Returns, Move, Typed
    <3>2. QED
      BY <1>0, <2>1, <2>2, <2>3, <3>1, ComplFrame DEF ComplFits, InList, Alters
  <2>4. CASE ~(Returns(p, "r_start") /\ UNCHANGED disturbed)
    <3>1. /\ file[p].pos < data_size /\ qset[1] # 0
          /\ disturbed' = [disturbed EXCEPT ![1] = @ \/ \E q \in Procs : Alters(q)]
      BY <1>0, <1>12, <2>4 DEF ComplReadBegin
    <3>2. ~disturbed'[1] => ~disturbed[1] /\ \A q \in Procs : ~Alters(q)
      BY <1>0, <3>1
    <3>3. CASE Move(p, "r_start", "astray")
      <4>1. pc'[p] = "astray"
        BY <1>0, <3>3 DEF Move, Typed
      <4>2. QED
        BY <1>0, <2>1, <2>2, <3>2, <4>1, ComplFrame DEF ComplFits, InList, Alters
    <3>4. CASE ~Move(p, "r_start", "astray")
      <4> DEFINE reads(count) == ReadLoop(qset[1], file[p].pos, count)
      <4>1. PICK count \in Counts : Move(p, "r_start", "r_copy") /\ loop' = [loop EXCEPT ![p] = reads(count)]
        BY <1>12, <2>4, <3>4 DEF ComplReadBegin
      <4> DEFINE e == reads(count)
      <4>2. pc'[p] = "r_copy" /\ loop'[p] = e
        BY <1>0, <2>1, <4>1 DEF Move, Typed
      <4>3. e.list = qset[1]
        BY DEF ReadLoop
      <4>4. ASSUME ~disturbed'[1]
            PROVE  ReadFits(e, l, file[p].pos)
        <5>1. EndFits(l) /\ Sound(l) /\ l \in Lists
          <6>1. \A q \in Procs : pc[q] # "trimmed"
            BY <3>2, <4>4 DEF Alters
          <6>2. QED
            BY <1>0, <3>1, <3>2, <4>4, <6>1 DEF ComplInv, ComplList, l
        <5>2. qset[1] \in Nat /\ count \in Nat /\ 3 \in Nat \ {0} /\ 2 \in Nat \ {0}
          BY <1>0, ListAssumption DEF Globals
        <5>3. QED
          BY <1>0, <3>1, <5>1, <5>2, ReadBeginFits DEF l
      <4> HIDE DEF e
      <4>5. heap'[qset'[1]] = l /\ size' = size /\ qset' = qset /\ file' = file
        BY <2>1 DEF l
      <4>6. ~disturbed'[1] => ReadFits(loop[p], heap[qset[1]], file[p].pos)'
        BY <4>2, <4>4, <4>5 DEF ReadFits, Index
      <4>7. ~disturbed'[1] => ComplFits(p)'
        BY <3>1, <4>2, <4>3, <4>5, <4>6 DEF ComplFits, InList, Alters
      <4>8. ~Alters(p)'
        BY <4>2 DEF Alters
      <4>9. QED
        BY <1>0, <2>1, <2>2, <3>2, <4>7, <4>8, ComplFrame
    <3>5. QED
      BY <3>3, <3>4
  <2>5. QED
    BY <2>3, <2>4
<1>13. CASE ComplReadRound(p)
  <2>1. /\ c.left > 0 /\ CopyRound(p, "r_copy") /\ Advances(p)
        /\ UNCHANGED <<heap, qset, size, data_size, disturbed>>
    BY <1>13 DEF ComplReadRound, c
  <2>2. pc[p] = "r_copy" /\ Going(c)
    BY <1>a, <2>1 DEF CopyRound, Move, Copying
  <2>3. ASSUME ~disturbed[1]
        PROVE  /\ Fits(c) /\ ReadFits(Copied(c), l, file[p].pos + Length(c)) /\ c.list = qset[1] /\ qset[1] # 0
    <3>1. /\ ReadFits(c, l, file[p].pos) /\ c.list = qset[1] /\ qset[1] # 0 /\ Sound(l)
      BY <2>2, <2>3, ComplSound DEF ComplInv, ComplFits, InList, Alters, l, c
    <3>2. c.list \in 1 .. Len(heap) /\ heap[c.list] = l
      BY <1>0, <3>1 DEF l
    <3>3. QED
      BY <1>0, <2>1, <2>2, <3>1, <3>2, ReadRoundFits
  <2>4. CASE disturbed[1]
    BY <1>0, <2>1, <2>2, <2>4, ComplFrame
  <2>5. CASE ~disturbed[1]
    <3>1. /\ pc'[p] = "r_copy" /\ loop'[p] = Copied(c)
          /\ file'[p].pos = file[p].pos + Length(c)
      BY <1>0, <2>1, <2>3, <2>5 DEF CopyRound, Move, Advances, Typed, c
    <3>2. loop'[p].list = c.list
      BY <1>0, <3>1 DEF Copied, Loops
    <3>3. heap'[qset'[1]] = l /\ size' = size /\ qset' = qset
      BY <2>1 DEF l
    <3>4. ReadFits(loop[p], heap[qset[1]], file[p].pos)'
      BY <2>3, <2>5, <3>1, <3>3 DEF ReadFits, Index
    <3>5. ComplFits(p)'
      BY <2>3, <2>5, <3>1, <3>2, <3>3, <3>4 DEF ComplFits, Alters, InList
    <3>6. ~Alters(p) /\ ~Alters(p)' /\ InList(p)
      BY <2>2, <3>1 DEF Alters, InList
    <3>7. QED
      BY <1>0, <2>1, <2>2, <2>5, <3>5, <3>6, ComplFrame
  <2>6. QED
    BY <2>4, <2>5
<1>14. CASE ComplReadDone(p)
  <2>1. /\ c.left = 0 /\ pc[p] = "r_copy" /\ pc'[p] = "idle" /\ data_size' = file[p].pos
        /\ UNCHANGED <<heap, qset, size, disturbed>>
    BY <1>0, <1>14 DEF ComplReadDone, Returns, Move, Typed, c
  <2>2. ASSUME ~disturbed[1]
        PROVE  EndFits(heap[qset[1]])'
    <3>1. Sound(l) /\ ReadFits(c, l, file[p].pos)
      BY <2>1, <2>2, ComplSound DEF ComplInv, ComplFits, InList, Alters, l, c
    <3>2. file[p].pos <= l.blocks * l.quantum
      BY <3>1 DEF ReadFits, Sound, Shaped
    <3>3. QED
      BY <2>1, <3>2 DEF EndFits, l
  <2>3. ComplFits(p)' /\ ~Alters(p)' /\ ~InList(p)'
    BY <2>1 DEF ComplFits, InList, Alters
  <2>4. QED
    BY <1>0, <2>1, <2>2, <2>3, ComplFrame
<1>15. CASE ComplTrimmed(p)
  <2>1. /\ UNCHANGED <<heap, size, data_size>> /\ pc'[p] = "idle"
        /\ qset' = [qset EXCEPT ![1] = 0]
        /\ disturbed' = [disturbed EXCEPT ![1] = @ \/ NotAlone(p)]
    BY <1>0, <1>15 DEF ComplTrimmed, Move, Typed
  <2>2. qset'[1] = 0 /\ ComplList'
    BY <1>0, <2>1 DEF Globals, ComplList
  <2>3. ~disturbed'[1] => ~NotAlone(p)
    BY <1>0, <2>1
  <2>4. ComplFits(p)'
    BY <2>1 DEF ComplFits, InList, Alters
  <2>5. QED
    BY <1>0, <2>2, <2>3, <2>4, ComplAlone
<1>16. QED
  BY <1>1, <1>2, <1>3, <1>4, <1>5, <1>6, <1>7, <1>8, <1>9, <1>10, <1>11, <1>12, <1>13, <1>14, <1>15 DEF ComplNext

LEMMA ComplLeaves ==
  ASSUME Typed, NEW p \in Procs, ComplNext(p), pc[p] # "astray", pc'[p] = "astray"
  PROVE  \/ ~Fits(loop[p]) /\ pc[p] \in {"w_copy", "r_copy"} /\ loop[p].left > 0
         \/ /\ Dangling /\ pc[p] = "closed"
            /\ disturbed' = [disturbed EXCEPT ![1] = @ \/ NotAlone(p)]
         \/ /\ Dangling /\ pc[p] = "r_start"
            /\ disturbed' = [disturbed EXCEPT ![1] = @ \/ \E q \in Procs : Alters(q)]
<1>1. CASE ComplOpen(p)
  BY <1>1 DEF ComplOpen, Move, Returns, CopyRound, Typed
<1>2. CASE ComplClose(p)
  BY <1>2 DEF ComplClose, Move, Returns, CopyRound, Typed
<1>3. CASE ComplSeek(p)
  BY <1>3 DEF ComplSeek, Move, Returns, CopyRound, Typed
<1>4. CASE ComplWrite(p)
  BY <1>4 DEF ComplWrite, Move, Returns, CopyRound, Typed
<1>5. CASE ComplTooLarge(p)
  BY <1>5 DEF ComplTooLarge, Move, Returns, CopyRound, Typed
<1>6. CASE ComplCreate(p)
  BY <1>6 DEF ComplCreate, Move, Returns, CopyRound, Typed
<1>7. CASE ComplCreateFails(p)
  BY <1>7 DEF ComplCreateFails, Move, Returns, CopyRound, Typed
<1>8. CASE ComplBegin(p)
  BY <1>8 DEF ComplBegin, Move, Returns, CopyRound, Typed
<1>9. CASE ComplWriteRound(p)
  BY <1>9 DEF ComplWriteRound, Move, Returns, CopyRound, Typed
<1>10. CASE ComplWritten(p)
  BY <1>10 DEF ComplWritten, Move, Returns, CopyRound, Typed
<1>11. CASE ComplRead(p)
  BY <1>11 DEF ComplRead, Move, Returns, CopyRound, Typed
<1>12. CASE ComplReadBegin(p)
  BY <1>12 DEF ComplReadBegin, Move, Returns, CopyRound, Typed
<1>13. CASE ComplReadRound(p)
  BY <1>13 DEF ComplReadRound, Move, Returns, CopyRound, Typed
<1>14. CASE ComplReadDone(p)
  BY <1>14 DEF ComplReadDone, Move, Returns, CopyRound, Typed
<1>15. CASE ComplTrimmed(p)
  BY <1>15 DEF ComplTrimmed, Move, Typed
<1>16. QED
  BY <1>1, <1>2, <1>3, <1>4, <1>5, <1>6, <1>7, <1>8, <1>9, <1>10, <1>11, <1>12, <1>13, <1>14, <1>15 DEF ComplNext

(* A list that was freed has another program about, which is freeing it.   *)
LEMMA ComplStrays ==
  ASSUME Base, driver = "completion", ComplInv, NEW p \in Procs, ComplNext(p),
         pc[p] # "astray", pc'[p] = "astray"
  PROVE  disturbed[1] \/ disturbed'[1]
<1> DEFINE c == loop[p]
<1>1. /\ Typed /\ Globals /\ c \in Loops /\ file[p].pos \in Nat /\ 1 \in Devices
      /\ disturbed \in [Devices -> BOOLEAN]
  BY Found DEF Files, Globals
<1>2. CASE ~Fits(c) /\ pc[p] \in {"w_copy", "r_copy"} /\ c.left > 0
  <2> SUFFICES ASSUME ~disturbed[1]
               PROVE  FALSE
    OBVIOUS
  <2>1. ComplFits(p) /\ c.list = qset[1] /\ qset[1] # 0 /\ Sound(heap[c.list])
    BY <1>2, ComplSound DEF ComplInv, ComplFits
  <2>2. c.list \in 1 .. Len(heap) /\ Going(c)
    BY <1>1, <1>2, <2>1 DEF Globals, Base, StepInv, Copying
  <2>3. CASE pc[p] = "w_copy"
    <3>1. WriteFits(c, heap[c.list])
      BY <2>1, <2>3 DEF ComplFits
    <3>2. QED
      BY <1>1, <1>2, <2>1, <2>2, <3>1, WriteRoundFits
  <2>4. CASE pc[p] = "r_copy"
    <3>1. ReadFits(c, heap[c.list], file[p].pos)
      BY <2>1, <2>4 DEF ComplFits
    <3>2. QED
      BY <1>1, <1>2, <2>1, <2>2, <3>1, ReadRoundFits
  <2>5. QED
    BY <1>2, <2>3, <2>4
<1>3. CASE Dangling /\ pc[p] \in {"closed", "r_start"}
  <2>1. PICK q \in Procs : pc[q] = "trimmed"
    BY <1>3 DEF Dangling, ComplInv, ComplList
  <2>2. Alters(q) /\ NotAlone(p)
    BY <1>3, <2>1 DEF Alters, InList, NotAlone
  <2>3. disturbed' = [disturbed EXCEPT ![1] = TRUE]
    BY <1>1, <1>3, <2>2, ComplLeaves, Zenon
  <2>4. QED
    BY <1>1, <2>3
<1>4. QED
  BY <1>1, <1>2, <1>3, ComplLeaves

-----------------------------------------------------------------------------
(* scratch_to_driver                                                       *)

(* A step in a call need only keep what that call relies on.               *)
LEMMA ScratchAlone ==
  ASSUME Base, LocksReturned, driver = "scratch_to_driver", NEW p \in Procs, pc[p] \in Busy,
         Own(p), ScratchEnd', ScratchFits(p)'
  PROVE  ScratchInv'
<1>1. \A q \in Procs \ {p} : pc'[q] = pc[q]
  BY OwnOthers DEF Base
<1>2. ASSUME NEW q \in Procs
      PROVE  ScratchFits(q)'
  <2>1. CASE q = p
    BY <2>1
  <2>2. CASE q # p
    <3>1. pc[q] \notin Busy
      BY <2>2, Away, Found
    <3>2. QED
      BY <1>1, <2>2, <3>1 DEF ScratchFits, Busy
  <2>3. QED
    BY <2>1, <2>2
<1>3. QED
  BY <1>2 DEF ScratchInv

(* A step that changes no list nor its end, to where nothing is relied on. *)
LEMMA ScratchFrame ==
  ASSUME Base, ScratchInv, NEW p \in Procs, Own(p), size' = size,
         UNCHANGED <<heap, qset, data_size, disturbed>>,
         pc'[p] \notin {"w_expanded", "w_copy", "r_copy"} \/ ScratchFits(p)'
  PROVE  ScratchInv'
<1>1. /\ \A q \in Procs \ {p} : pc'[q] = pc[q] /\ file'[q] = file[q] /\ loop'[q] = loop[q]
      /\ heap' = heap /\ qset' = qset /\ size' = size /\ data_size' = data_size
      /\ disturbed' = disturbed
  BY OwnOthers DEF Base
<1>2. ASSUME NEW q \in Procs
      PROVE  ScratchFits(q)'
  <2>1. CASE q = p
    BY <2>1 DEF ScratchFits
  <2>2. CASE q # p
    <3>1. ScratchFits(q)
      BY DEF ScratchInv
    <3>2. QED
      BY <1>1, <2>2, <3>1 DEF ScratchFits, Expanded, Appending, Reading
  <2>3. QED
    BY <2>1, <2>2
<1>3. ScratchEnd'
  BY <1>1 DEF ScratchInv, ScratchEnd, Sound, Shaped
<1>4. QED
  BY <1>2, <1>3 DEF ScratchInv

(* A round of an append has its quantum, whole, and goes on.               *)
LEMMA AppendRound ==
  ASSUME NEW c \in Loops, NEW b \in Nat, NEW pos \in Nat, data_size \in Nat, size.qset = 2,
         Appending(c, b, pos), c.moved >= 0, c.moved < c.total
  PROVE  /\ c.slot < 2 /\ c.chunk = 3 /\ c.set * 2 + c.slot < b
         /\ Copied(c).total = c.total /\ Copied(c).list = c.list
         /\ Appending(Copied(c), b, pos + Length(c))
<1> DEFINE e == Copied(c)
<1>1. /\ c.set \in Nat /\ c.slot \in Nat /\ c.qoff \in Nat /\ c.chunk \in Int
      /\ c.moved \in Int /\ c.total \in Int
  BY DEF Loops
<1>2. /\ c.slot < 2 /\ c.chunk = 3 /\ c.qoff = 0 /\ data_size + c.total <= b * 3
      /\ 3 * (c.set * 2 + c.slot) + (c.total - c.moved) <= b * 3
      /\ c.total % 3 = 0 /\ c.moved % 3 = 0 /\ pos = data_size + c.moved
  BY <1>1 DEF Appending
<1>3. /\ Index(e) = Index(c) + 1 /\ e.slot < 2 /\ e.list = c.list /\ e.total = c.total
      /\ e.qoff = 0 /\ e.moved = c.moved + (c.chunk - c.qoff)
      /\ e.chunk = IF c.total - c.moved - (c.chunk - c.qoff) < c.chunk
                   THEN c.total - c.moved - (c.chunk - c.qoff) ELSE c.chunk
  BY <1>2, 2 \in Nat \ {0}, CopiedIndex
<1>4. Index(e) = e.set * 2 + e.slot /\ Index(c) = c.set * 2 + c.slot
  BY DEF Index
<1> HIDE DEF e
<1>5. c.total - c.moved >= 3
  BY <1>1, <1>2
<1>6. /\ e.moved = c.moved + 3 /\ e.moved % 3 = 0 /\ e.moved <= e.total
      /\ e.total = c.total /\ e.total > 0
  <2>1. e.moved = c.moved + 3 /\ e.total = c.total /\ e.total > 0
    BY <1>1, <1>2, <1>3, <1>5
  <2>2. (c.moved + 3) % 3 = 0
    BY <1>1, <1>2
  <2>3. e.moved <= e.total
    BY <1>1, <1>5, <2>1
  <2>4. QED
    BY <2>1, <2>2, <2>3
<1>7. e.moved < e.total => e.chunk = 3
  <2>1. e.moved < e.total => e.total - e.moved >= 3
    BY <1>1, <1>2, <1>6
  <2>2. QED
    BY <1>1, <1>2, <1>3, <1>6, <2>1
<1>8. 3 * (e.set * 2 + e.slot) + (e.total - e.moved) <= b * 3
  <2>1. e.set * 2 + e.slot = (c.set * 2 + c.slot) + 1
    BY <1>3, <1>4
  <2>2. QED
    BY <1>1, <1>2, <1>6, <2>1
<1>9. pos + Length(c) = data_size + e.moved
  BY <1>1, <1>2, <1>6 DEF Length
<1>10. Appending(e, b, pos + Length(c))
  BY <1>2, <1>3, <1>6, <1>7, <1>8, <1>9 DEF Appending
<1>11. c.set * 2 + c.slot < b
  BY <1>1, <1>2
<1>12. QED
  BY <1>2, <1>3, <1>10, <1>11 DEF e

(* A round of a read before the end has its quantum, and goes on.          *)
LEMMA ReadingRound ==
  ASSUME NEW c \in Loops, NEW b \in Nat, NEW pos \in Nat, data_size \in Nat, size.qset = 2,
         Reading(c, pos), c.moved < c.total, c.chunk > c.qoff, pos < data_size, data_size <= b * 3
  PROVE  /\ c.slot < 2 /\ c.chunk <= 3 /\ c.set * 2 + c.slot < b
         /\ Copied(c).list = c.list /\ Reading(Copied(c), pos + Length(c))
<1> DEFINE e == Copied(c)
           at == pos + Length(c)
<1>1. /\ c.set \in Nat /\ c.slot \in Nat /\ c.qoff \in Nat /\ c.chunk \in Int
      /\ c.moved \in Int /\ c.total \in Int
  BY DEF Loops
<1>2. /\ c.slot < 2 /\ (c.chunk = 3 \/ (c.qoff = 0 /\ c.chunk <= 3 /\ c.chunk = c.total - c.moved))
      /\ 3 * (c.set * 2 + c.slot) <= pos - c.qoff
  BY <1>1 DEF Reading
<1>3. /\ Index(e) = Index(c) + 1 /\ e.slot < 2 /\ e.list = c.list /\ e.total = c.total
      /\ e.qoff = 0 /\ e.moved = c.moved + (c.chunk - c.qoff)
      /\ e.chunk = IF c.total - c.moved - (c.chunk - c.qoff) < c.chunk
                   THEN c.total - c.moved - (c.chunk - c.qoff) ELSE c.chunk
  BY <1>2, 2 \in Nat \ {0}, CopiedIndex
<1>4. Index(e) = e.set * 2 + e.slot /\ Index(c) = c.set * 2 + c.slot
  BY DEF Index
<1>5. at = pos + (c.chunk - c.qoff)
  BY DEF Length
<1> HIDE DEF e, at
<1>6. c.set * 2 + c.slot < b
  BY <1>1, <1>2
<1>7. ASSUME e.moved < e.total
      PROVE  /\ e.chunk = 3 \/ (e.qoff = 0 /\ e.chunk <= 3 /\ e.chunk = e.total - e.moved)
             /\ 3 * (e.set * 2 + e.slot) <= at - e.qoff
  <2>1. c.chunk = 3
    BY <1>1, <1>2, <1>3, <1>7
  <2>2. e.set * 2 + e.slot = (c.set * 2 + c.slot) + 1
    BY <1>3, <1>4
  <2>3. at - e.qoff = pos + 3 - c.qoff
    BY <1>1, <1>3, <1>5, <2>1
  <2>4. 3 * (e.set * 2 + e.slot) <= at - e.qoff
    BY <1>1, <1>2, <2>2, <2>3
  <2>5. e.chunk = 3 \/ (e.qoff = 0 /\ e.chunk <= 3 /\ e.chunk = e.total - e.moved)
    BY <1>1, <1>3, <2>1
  <2>6. QED
    BY <2>4, <2>5
<1>8. Reading(e, at)
  BY <1>3, <1>7 DEF Reading
<1>9. QED
  BY <1>1, <1>2, <1>3, <1>6, <1>8 DEF e, at

(* Of a list that holds the data, what is filled up holds it as well.      *)
LEMMA LastSetHolds ==
  ASSUME Base, driver = "scratch_to_driver", qset[1] # 0, Sound(heap[qset[1]]),
         data_size % 3 = 0, data_size <= heap[qset[1]].blocks * 3
  PROVE  LET l == heap[qset[1]]
             a == LastSet(qset[1])
         IN  /\ a \in Nat /\ a < l.sets /\ data_size <= 6 * (a + 1)
             /\ l.sets \in Nat /\ l.blocks \in Nat /\ l.blocks <= l.sets * 2
             /\ Slots(qset[1]) = IF l.blocks - a * 2 >= 2 THEN 0 ELSE 2 - (l.blocks - a * 2)
             /\ data_size \in Nat /\ size.quantum = 3 /\ size.qset = 2
<1> DEFINE l == heap[qset[1]]
           a == LastSet(qset[1])
           n == DivUp(data_size, 6)
<1>1. size.quantum = 3 /\ size.qset = 2 /\ item = 6
  BY FixedSizes DEF RunTime
<1>2. a \in Nat /\ a < l.sets /\ l \in Lists
  BY GrownList
<1>3. l.sets \in Nat /\ l.blocks \in Nat /\ l.blocks <= l.sets * 2
  BY <1>1, <1>2 DEF Sound, Lists
<1>4. data_size \in Nat
  BY Found, ListAssumption, TypeParts DEF Globals, Base
<1>5. n \in Nat /\ data_size <= n * 6 /\ (n - 1) * 6 < data_size
  BY <1>4, 6 \in Nat \ {0}, DivUpBounds
<1>6. a = IF n <= 0 THEN 0 ELSE IF n < l.sets THEN n ELSE l.sets - 1
  BY <1>1 DEF LastSet, scull_follow
<1>7. Slots(qset[1]) = IF l.blocks - a * 2 >= 2 THEN 0 ELSE 2 - (l.blocks - a * 2)
  BY <1>1 DEF Slots
<1>8. data_size <= l.blocks * 3
  OBVIOUS
<1> HIDE DEF l, a, n
<1>9. data_size <= 6 * (a + 1)
  BY <1>2, <1>3, <1>4, <1>5, <1>6, <1>8
<1>10. QED
  BY <1>1, <1>2, <1>3, <1>4, <1>7, <1>9 DEF l, a

(* However a list grows it keeps its shape; and if it held the data and    *)
(* grows by what is appended, it holds that too.                           *)
LEMMA GrownShape ==
  ASSUME Base, driver = "scratch_to_driver", qset[1] # 0, Shaped(heap[qset[1]]), NEW n \in Int
  PROVE  Shaped(Grown(qset[1], n))
<1> DEFINE l == heap[qset[1]]
           x == Grown(qset[1], n)
<1>1. x.live /\ x.sets >= 1 /\ l \in Lists
  BY GrownList
<1>2. x.width = l.width /\ x.by = l.by /\ x.quantum = l.quantum
  BY <1>1 DEF Grown, Lists
<1>3. QED
  BY <1>1, <1>2 DEF Shaped

LEMMA GrownHolds ==
  ASSUME Base, driver = "scratch_to_driver", qset[1] # 0, Sound(heap[qset[1]]),
         data_size % 3 = 0, data_size <= heap[qset[1]].blocks * 3, NEW k \in Nat \ {0}
  PROVE  Sound(Grown(qset[1], k)) /\ data_size + 3 * k <= Grown(qset[1], k).blocks * 3
<1> DEFINE l == heap[qset[1]]
           a == LastSet(qset[1])
           u == Slots(qset[1])
           x == Grown(qset[1], k)
<1>1. /\ a \in Nat /\ a < l.sets /\ data_size <= 6 * (a + 1)
      /\ l.sets \in Nat /\ l.blocks \in Nat /\ l.blocks <= l.sets * 2
      /\ u = IF l.blocks - a * 2 >= 2 THEN 0 ELSE 2 - (l.blocks - a * 2)
      /\ data_size \in Nat /\ size.quantum = 3 /\ size.qset = 2
  BY LastSetHolds
<1>2. Shaped(x) /\ l \in Lists /\ x \in Lists
  BY GrownShape, GrownList DEF Sound
<1>3. x = IF k - u <= 0 THEN [l EXCEPT !.blocks = @ + u]
          ELSE [l EXCEPT !.sets = a + 1 + DivUp(k - u, 2), !.blocks = (a + 1) * 2 + (k - u)]
  BY <1>1 DEF Grown
<1>4. data_size <= l.blocks * 3
  OBVIOUS
<1> HIDE DEF l, a, u, x
<1>5. CASE k - u <= 0
  <2>1. x.blocks = l.blocks + u /\ x.sets = l.sets
    BY <1>2, <1>3, <1>5 DEF Lists
  <2>2. x.blocks <= x.sets * 2 /\ data_size + 3 * k <= x.blocks * 3
    BY <1>1, <1>4, <1>5, <2>1
  <2>3. QED
    BY <1>1, <1>2, <2>2 DEF Sound, x
<1>6. CASE ~(k - u <= 0)
  <2> DEFINE more == k - u
             d == DivUp(more, 2)
  <2>1. more \in Nat
    BY <1>1, <1>6
  <2>2. d \in Nat /\ more <= d * 2
    BY <2>1, 2 \in Nat \ {0}, DivUpBounds
  <2>3. x = [l EXCEPT !.sets = a + 1 + d, !.blocks = (a + 1) * 2 + more]
    BY <1>3, <1>6
  <2> HIDE DEF d
  <2>4. x.blocks = (a + 1) * 2 + more /\ x.sets = a + 1 + d
    BY <1>2, <2>3 DEF Lists
  <2>5. x.blocks <= x.sets * 2
    BY <1>1, <2>1, <2>2, <2>4
  <2>6. data_size + 3 * k <= x.blocks * 3
    BY <1>1, <1>4, <2>1, <2>4
  <2>7. QED
    BY <1>1, <1>2, <2>5, <2>6 DEF Sound, x
<1>7. QED
  BY <1>5, <1>6

LEMMA ScratchSteps ==
  ASSUME Base, LocksReturned, driver = "scratch_to_driver", ScratchInv, NEW p \in Procs,
         ScratchNext(p)
  PROVE  ScratchInv'
<1> DEFINE l == heap[qset[1]]
           c == loop[p]
           pos == file[p].pos
<1>0. /\ Typed /\ Globals /\ 1 \in Devices /\ file[p] \in Files /\ c \in Loops /\ pc[p] \in PCs
      /\ Own(p) /\ Base'
      /\ disturbed \in [Devices -> BOOLEAN] /\ size.quantum = 3 /\ size.qset = 2 /\ item = 6
      /\ data_size \in Nat /\ pos \in Nat /\ size' = size
      /\ qset[1] # 0 => qset[1] \in 1 .. Len(heap) /\ l \in Lists /\ l.blocks \in Nat
  <2>1. /\ Typed /\ Globals /\ 1 \in Devices /\ file[p] \in Files /\ c \in Loops /\ pc[p] \in PCs
    BY Found
  <2>2. Own(p) /\ Base'
    BY ScratchBase
  <2>3. qset[1] # 0 => qset[1] \in 1 .. Len(heap) /\ l \in Lists /\ l.blocks \in Nat
    <3>1. qset[1] # 0 => qset[1] \in 1 .. Len(heap) /\ l \in Lists
      BY <2>1 DEF Globals
    <3>2. QED
      BY <3>1 DEF Lists
  <2>4. size.quantum = 3 /\ size.qset = 2 /\ item = 6
    BY FixedSizes DEF RunTime
  <2>5. size' = size
    BY <2>2 DEF Own, RunTime
  <2>6. QED
    BY <2>1, <2>2, <2>3, <2>4, <2>5 DEF Globals, Files
<1> HIDE DEF l, c, pos
<1>a. ScratchEnd /\ ScratchFits(p)
  BY DEF ScratchInv
<1>b. pc[p] \in Busy /\ ScratchEnd' /\ ScratchFits(p)' => ScratchInv'
  BY <1>0, ScratchAlone
<1>1. CASE ScratchOpen(p)
  <2>1. /\ UNCHANGED <<heap, qset, data_size, disturbed>>
        /\ pc'[p] \notin {"w_expanded", "w_copy", "r_copy"}
    BY <1>0, <1>1 DEF ScratchOpen, Move, Returns, Down, Typed
  <2>2. QED
    BY <1>0, <2>1, ScratchFrame
<1>2. CASE ScratchClose(p)
  <2>1. /\ UNCHANGED <<heap, qset, data_size, disturbed>>
        /\ pc'[p] \notin {"w_expanded", "w_copy", "r_copy"}
    BY <1>0, <1>2 DEF ScratchClose, Move, Returns, Down, Typed
  <2>2. QED
    BY <1>0, <2>1, ScratchFrame
<1>3. CASE ScratchCall(p)
  <2>1. /\ UNCHANGED <<heap, qset, data_size, disturbed>>
        /\ pc'[p] \notin {"w_expanded", "w_copy", "r_copy"}
    BY <1>0, <1>3 DEF ScratchCall, Move, Returns, Down, Typed
  <2>2. QED
    BY <1>0, <2>1, ScratchFrame
<1>4. CASE ScratchTooLarge(p)
  <2>1. /\ UNCHANGED <<heap, qset, data_size, disturbed>>
        /\ pc'[p] \notin {"w_expanded", "w_copy", "r_copy"}
    BY <1>0, <1>4 DEF ScratchTooLarge, Move, Returns, Down, Typed
  <2>2. QED
    BY <1>0, <2>1, ScratchFrame
<1>5. CASE ScratchCreate(p)
  <2>1. PICK count \in Counts :
          /\ count > 0
          /\ heap' = Append(heap, NewList(count))
          /\ loop' = [loop EXCEPT ![p] = At(p, Len(heap'), 0, count)]
          /\ disturbed' = [disturbed EXCEPT ![1] = @ \/ ~Appends(p, count)]
    BY <1>5 DEF ScratchCreate, Notes
  <2>2. /\ pc[p] = "w_start" /\ pc'[p] = "w_copy" /\ qset[1] = 0 /\ UNCHANGED <<file, data_size>>
        /\ qset' = [qset EXCEPT ![1] = Len(heap')]
    BY <1>0, <1>5 DEF ScratchCreate, Move, Typed
  <2>3. count \in Nat \ {0}
    BY <2>1, ListAssumption
  <2> DEFINE x == NewList(count)
             k == Len(heap')
             e == At(p, k, 0, count)
  <2>4. x \in Lists /\ Sound(x) /\ x.blocks = DivUp(count, 3)
    BY <1>0, <2>3, ListMade, ListSound DEF RunTime
  <2>5. heap' = Append(heap, x)
    BY <2>1
  <2> HIDE DEF x
  <2>6. heap'[k] = x /\ k # 0 /\ k \in Nat
    BY <1>0, <2>5 DEF Globals
  <2>7. loop'[p] = e
    BY <1>0, <2>1 DEF Typed
  <2> HIDE DEF k
  <2>8. qset'[1] = k
    BY <1>0, <2>2 DEF Globals, k
  <2>9. /\ e.list = k /\ e.set = 0 /\ e.slot = (pos % 6) \div 3 /\ e.qoff = pos % 3
        /\ e.chunk = 3 /\ e.moved = 0 /\ e.total = count
    BY <1>0 DEF At, pos
  <2> HIDE DEF e
  <2>10. ~disturbed'[1] => data_size = 0 /\ pos = 0 /\ count % 3 = 0
    BY <1>0, <2>1, <2>2 DEF Appends, pos
  <2>11. count <= x.blocks * 3 /\ x.blocks \in Nat
    BY <2>3, <2>4, 3 \in Nat \ {0}, DivUpBounds
  <2>12. heap'[qset'[1]] = x /\ data_size' = data_size /\ file'[p].pos = pos
    BY <2>2, <2>6, <2>8 DEF pos
  <2>13. ScratchEnd'
    <3>1. Sound(heap[qset[1]])'
      BY <1>0, <2>4, <2>12 DEF Sound, Shaped
    <3>2. ~disturbed'[1] => data_size' % 3 = 0 /\ data_size' <= heap'[qset'[1]].blocks * 3
      BY <2>10, <2>11, <2>12
    <3>3. QED
      BY <3>1, <3>2 DEF ScratchEnd, Sound
  <2>14. ASSUME ~disturbed'[1]
         PROVE  Appending(loop[p], heap[qset[1]].blocks, file[p].pos)'
    <3>1. data_size = 0 /\ pos = 0 /\ count % 3 = 0
      BY <2>10, <2>14
    <3>2. e.slot = 0 /\ e.qoff = 0
      BY <2>9, <3>1
    <3>3. /\ e.total % 3 = 0 /\ e.moved % 3 = 0 /\ e.moved <= e.total /\ pos = data_size + e.moved
          /\ data_size + e.total <= x.blocks * 3
          /\ 3 * (e.set * 2 + e.slot) + (e.total - e.moved) <= x.blocks * 3
      BY <2>3, <2>9, <2>11, <3>1, <3>2
    <3>4. QED
      BY <2>7, <2>9, <2>12, <3>2, <3>3 DEF Appending
  <2>15. loop'[p].list = k
    BY <2>7, <2>9
  <2>16. ScratchFits(p)'
    BY <2>2, <2>6, <2>8, <2>14, <2>15 DEF ScratchFits
  <2>17. QED
    BY <1>b, <2>2, <2>13, <2>16 DEF Busy
<1>6. CASE ScratchCreateFails(p)
  <2>1. /\ UNCHANGED <<heap, qset, data_size, disturbed>>
        /\ pc'[p] \notin {"w_expanded", "w_copy", "r_copy"}
    BY <1>0, <1>6 DEF ScratchCreateFails, Move, Returns, Down, Typed
  <2>2. QED
    BY <1>0, <2>1, ScratchFrame
<1>7. CASE expand_scull(p)
  <2>1. PICK count \in Counts :
          /\ pos + count > data_size
          /\ heap' = [heap EXCEPT ![qset[1]] = Grown(qset[1], quant_req(alloc_bytes(p, count)))]
          /\ loop' = [loop EXCEPT ![p] = [NoLoop EXCEPT !.total = count]]
          /\ disturbed' = [disturbed EXCEPT ![1] = @ \/ ~Appends(p, count)]
    BY <1>7 DEF expand_scull, Notes, pos
  <2>2. /\ pc[p] = "w_start" /\ pc'[p] = "w_expanded" /\ qset[1] # 0
        /\ UNCHANGED <<file, qset, data_size>>
    BY <1>0, <1>7 DEF expand_scull, Move, Typed
  <2>3. count \in Nat
    BY ListAssumption
  <2> DEFINE k == quant_req(alloc_bytes(p, count))
             x == Grown(qset[1], k)
  <2>4. k \in Int
    BY <2>3, RequestType
  <2>5. Shaped(x) /\ x.blocks \in Nat
    <3>1. Shaped(l)
      BY <1>a, <2>2 DEF ScratchEnd, l
    <3> HIDE DEF k
    <3>2. Shaped(x) /\ x \in Lists
      BY <2>2, <2>4, <3>1, GrownShape, GrownList DEF l
    <3>3. QED
      BY <3>2 DEF Lists
  <2>6. ASSUME ~disturbed'[1]
        PROVE  /\ Sound(x) /\ data_size + count <= x.blocks * 3 /\ pos = data_size
               /\ count % 3 = 0 /\ count > 0 /\ data_size % 3 = 0
    <3>1. ~disturbed[1] /\ pos = data_size /\ count % 3 = 0
      BY <1>0, <2>1, <2>6 DEF Appends, pos
    <3>2. data_size % 3 = 0 /\ Sound(l) /\ data_size <= l.blocks * 3
      BY <1>a, <2>2, <3>1 DEF ScratchEnd, l
    <3>3. count > 0
      BY <1>0, <2>1, <2>3, <3>1
    <3>4. alloc_bytes(p, count) = count
      BY <1>0, <2>3, <3>1, <3>2 DEF alloc_bytes, pos
    <3>5. k = DivUp(count, 3) /\ count >= 0
      BY <1>0, <2>3, <3>4 DEF quant_req
    <3>6. DivUp(count, 3) = count \div 3 /\ 3 * (count \div 3) = count /\ count \div 3 \in Nat \ {0}
      BY <2>3, <3>1, <3>3 DEF DivUp
    <3> HIDE DEF k
    <3>7. 3 * k = count /\ k \in Nat \ {0}
      BY <3>5, <3>6
    <3>8. Sound(x) /\ data_size + 3 * k <= x.blocks * 3
      BY <2>2, <3>2, <3>7, GrownHolds DEF l
    <3>9. QED
      BY <3>1, <3>2, <3>3, <3>7, <3>8
  <2>7. heap' = [heap EXCEPT ![qset[1]] = x]
    BY <2>1
  <2> HIDE DEF k, x
  <2>8. heap'[qset'[1]] = x /\ data_size' = data_size /\ file'[p].pos = pos
    BY <1>0, <2>2, <2>7 DEF Globals, pos
  <2>9. ScratchEnd'
    <3>1. Shaped(heap[qset[1]])'
      BY <1>0, <2>5, <2>8 DEF Shaped
    <3>2. ~disturbed'[1] => Sound(heap[qset[1]])'
      BY <1>0, <2>6, <2>8 DEF Sound, Shaped
    <3>3. ~disturbed'[1] => data_size' % 3 = 0 /\ data_size' <= heap'[qset'[1]].blocks * 3
      BY <1>0, <2>3, <2>5, <2>6, <2>8
    <3>4. QED
      BY <3>1, <3>2, <3>3 DEF ScratchEnd
  <2>10. loop'[p].total = count
    <3> DEFINE e == loop'[p]
    <3>1. e = [NoLoop EXCEPT !.total = count]
      BY <1>0, <2>1 DEF Typed
    <3> HIDE DEF e
    <3>2. e.total = count
      BY <3>1 DEF NoLoop
    <3>3. QED
      BY <3>2 DEF e
  <2>11. ScratchFits(p)'
    BY <2>2, <2>6, <2>8, <2>10 DEF ScratchFits, Expanded
  <2>12. QED
    BY <1>b, <2>2, <2>9, <2>11 DEF Busy
<1>8. CASE ExpandFails(p)
  <2>1. /\ qset[1] # 0 /\ pc[p] = "w_start" /\ pc'[p] \in {"idle", "oops"}
        /\ UNCHANGED <<qset, data_size, disturbed>>
    BY <1>0, <1>8 DEF ExpandFails, Returns, Move, Typed
  <2> DEFINE a == LastSet(qset[1])
             u == Slots(qset[1])
             b == (a + 1) * 2
  <2>2. /\ u \in Nat /\ a \in Nat /\ l.live /\ l \in Lists
    BY <2>1, GrownList DEF l
  <2>3. Shaped(l)
    BY <1>a, <2>1 DEF ScratchEnd, l
  <2>4. ~disturbed[1] =>
          /\ a < l.sets /\ data_size <= 6 * (a + 1) /\ data_size % 3 = 0 /\ data_size <= l.blocks * 3
          /\ l.sets \in Nat /\ l.blocks \in Nat /\ l.blocks <= l.sets * 2
          /\ u = IF l.blocks - a * 2 >= 2 THEN 0 ELSE 2 - (l.blocks - a * 2)
    <3> SUFFICES ASSUME ~disturbed[1]
                 PROVE  /\ a < l.sets /\ data_size <= 6 * (a + 1) /\ data_size % 3 = 0
                        /\ data_size <= l.blocks * 3
                        /\ l.sets \in Nat /\ l.blocks \in Nat /\ l.blocks <= l.sets * 2
                        /\ u = IF l.blocks - a * 2 >= 2 THEN 0 ELSE 2 - (l.blocks - a * 2)
      OBVIOUS
    <3>1. data_size % 3 = 0 /\ Sound(l) /\ data_size <= l.blocks * 3
      BY <1>a, <2>1 DEF ScratchEnd, l
    <3>2. QED
      BY <2>1, <3>1, LastSetHolds DEF l
  <2>5. \/ \E n \in 0 .. u : heap' = [heap EXCEPT ![qset[1]].blocks = @ + n]
        \/ heap' = [heap EXCEPT ![qset[1]].sets = a + 1, ![qset[1]].blocks = b]
    <3>1. \/ \E n \in 0 .. u - 1 : heap' = [heap EXCEPT ![qset[1]].blocks = @ + n]
          \/ heap' = [heap EXCEPT ![qset[1]].sets = a + 1, ![qset[1]].blocks = (a + 1) * size.qset]
          \/ heap' = [heap EXCEPT ![qset[1]].blocks = @ + u]
      BY <1>8 DEF ExpandFails
    <3>2. size.qset = 2 /\ u \in 0 .. u /\ \A n \in 0 .. u - 1 : n \in 0 .. u
      BY <1>0, <2>2
    <3> HIDE DEF a, u
    <3>3. QED
      BY <3>1, <3>2
  <2> HIDE DEF u, a
  <2>6. PICK x :
          /\ heap' = [heap EXCEPT ![qset[1]] = x] /\ Shaped(x) /\ x.blocks \in Nat
          /\ ~disturbed[1] => x.blocks <= x.sets * 2 /\ data_size <= x.blocks * 3
    <3>1. ASSUME NEW n \in 0 .. u, heap' = [heap EXCEPT ![qset[1]].blocks = @ + n]
          PROVE  \E x :
                   /\ heap' = [heap EXCEPT ![qset[1]] = x] /\ Shaped(x) /\ x.blocks \in Nat
                   /\ ~disturbed[1] => x.blocks <= x.sets * 2 /\ data_size <= x.blocks * 3
      <4> DEFINE x == [l EXCEPT !.blocks = l.blocks + n]
      <4>1. heap' = [heap EXCEPT ![qset[1]] = x]
        BY <1>0, <2>1, <3>1 DEF l, Globals
      <4>2. x.blocks = l.blocks + n /\ x.sets = l.sets /\ x.blocks \in Nat /\ l.blocks \in Nat
        BY <2>2 DEF Lists
      <4>3. Shaped(x)
        BY <2>2, <2>3 DEF Shaped, Lists
      <4> HIDE DEF x
      <4>4. ASSUME ~disturbed[1]
            PROVE  x.blocks <= x.sets * 2 /\ data_size <= x.blocks * 3
        <5>1. /\ a < l.sets /\ data_size <= l.blocks * 3 /\ l.sets \in Nat /\ l.blocks \in Nat
              /\ l.blocks <= l.sets * 2
              /\ u = IF l.blocks - a * 2 >= 2 THEN 0 ELSE 2 - (l.blocks - a * 2)
          BY <2>4, <4>4
        <5>2. n \in Nat /\ n <= u /\ u \in Nat /\ a \in Nat /\ data_size \in Nat
          BY <1>0, <2>2
        <5>3. l.blocks + n <= l.sets * 2 /\ data_size <= (l.blocks + n) * 3
          BY <5>1, <5>2
        <5>4. QED
          BY <4>2, <5>3
      <4>5. QED
        BY <4>1, <4>2, <4>3, <4>4
    <3>2. ASSUME heap' = [heap EXCEPT ![qset[1]].sets = a + 1, ![qset[1]].blocks = b]
          PROVE  \E x :
                   /\ heap' = [heap EXCEPT ![qset[1]] = x] /\ Shaped(x) /\ x.blocks \in Nat
                   /\ ~disturbed[1] => x.blocks <= x.sets * 2 /\ data_size <= x.blocks * 3
      <4> DEFINE x == [l EXCEPT !.sets = a + 1, !.blocks = b]
      <4>1. heap' = [heap EXCEPT ![qset[1]] = x]
        BY <1>0, <2>1, <3>2 DEF l, Globals
      <4>2. x.blocks = b /\ x.sets = a + 1 /\ x.blocks \in Nat /\ x.sets >= 1
        BY <2>2 DEF Lists
      <4>3. Shaped(x)
        BY <2>2, <2>3, <4>2 DEF Shaped, Lists
      <4> HIDE DEF x
      <4>4. ~disturbed[1] => x.blocks <= x.sets * 2 /\ data_size <= x.blocks * 3
        BY <1>0, <2>2, <2>4, <4>2
      <4>5. QED
        BY <4>1, <4>2, <4>3, <4>4
    <3>3. QED
      BY <2>5, <3>1, <3>2
  <2>7. heap'[qset'[1]] = x /\ data_size' = data_size /\ disturbed' = disturbed
    BY <1>0, <2>1, <2>6 DEF Globals
  <2>8. ScratchEnd'
    <3>1. Shaped(heap[qset[1]])'
      BY <1>0, <2>6, <2>7 DEF Shaped
    <3>2. ~disturbed'[1] => Sound(heap[qset[1]])' /\ data_size' <= heap'[qset'[1]].blocks * 3
      BY <1>0, <2>6, <2>7, <3>1 DEF Sound
    <3>3. QED
      BY <2>1, <2>4, <2>7, <3>1, <3>2 DEF ScratchEnd
  <2>9. QED
    BY <1>b, <2>1, <2>8 DEF Busy, ScratchFits
<1>9. CASE ScratchExpanded(p)
  <2> DEFINE first == scull_follow(qset[1], DivUp(pos, 6) - 1)
             e == At(p, qset[1], first, c.total)
  <2>1. /\ pc[p] = "w_expanded" /\ pc'[p] = "w_copy" /\ loop'[p] = e /\ qset[1] # 0
        /\ UNCHANGED <<file, heap, qset, data_size, disturbed>>
    <3>1. pc[p] = "w_expanded" /\ pc'[p] = "w_copy" /\ loop'[p] = e
      BY <1>0, <1>9 DEF ScratchExpanded, Move, Typed, c, pos
    <3>2. qset[1] # 0 /\ UNCHANGED <<file, heap, qset, data_size, disturbed>>
      BY <1>9, <3>1 DEF ScratchExpanded, Base, ExpandInv
    <3>3. QED
      BY <3>1, <3>2
  <2>2. DivUp(pos, 6) \in Nat /\ pos > (DivUp(pos, 6) - 1) * 6
    BY <1>0, 6 \in Nat \ {0}, DivUpBounds
  <2>3. first \in Nat /\ (first <= 0 \/ first <= DivUp(pos, 6) - 1)
    <3>1. l.sets \in Nat \ {0}
      <4>1. l \in Lists /\ l.sets >= 1
        BY <2>1, GrownList DEF l
      <4>2. QED
        BY <4>1 DEF Lists
    <3>2. DivUp(pos, 6) - 1 \in Int
      BY <2>2
    <3>3. QED
      BY <3>1, <3>2, Followed DEF l
  <2>4. /\ e.list = qset[1] /\ e.set = first /\ e.slot = (pos % 6) \div 3 /\ e.qoff = pos % 3
        /\ e.chunk = 3 /\ e.moved = 0 /\ e.total = c.total
    BY <1>0 DEF At, pos
  <2> HIDE DEF first, e
  <2>5. heap'[qset'[1]] = l /\ data_size' = data_size /\ file'[p].pos = pos
    BY <2>1 DEF l, pos
  <2>6. ASSUME ~disturbed[1]
        PROVE  Appending(e, l.blocks, pos)
    <3>1. Expanded(c, l.blocks, pos)
      BY <1>a, <2>1, <2>6 DEF ScratchFits, l, c, pos
    <3>2. data_size % 3 = 0
      BY <1>a, <2>6 DEF ScratchEnd
    <3>3. /\ c.total % 3 = 0 /\ c.total > 0 /\ data_size + c.total <= l.blocks * 3 /\ pos = data_size
          /\ c.total \in Int /\ l.blocks \in Nat
      BY <1>0, <2>1, <3>1 DEF Expanded, Loops
    <3>4. e.slot < 2 /\ e.slot \in Nat /\ e.qoff = 0
      BY <1>0, <2>4, <3>2, <3>3, SMTT(60)
    <3>5. 3 * (e.set * 2 + e.slot) <= pos
      <4> DEFINE j == pos \div 6
                 k == (pos % 6) \div 3
      <4>1. j \in Nat /\ k \in 0 .. 1 /\ pos >= 6 * j + 3 * k /\ pos < 6 * (j + 1)
        BY <1>0
      <4>2. e.slot = k /\ e.set = first
        BY <2>4
      <4> HIDE DEF j, k
      <4>3. first <= j
        BY <1>0, <2>2, <2>3, <4>1
      <4>4. QED
        BY <1>0, <2>3, <4>1, <4>2, <4>3, SMTT(60)
    <3>6. 3 * (e.set * 2 + e.slot) + (e.total - e.moved) <= l.blocks * 3
      <4>1. e.set \in Nat
        BY <2>3, <2>4
      <4> DEFINE n == e.set * 2 + e.slot
      <4>2. n \in Nat /\ 3 * n <= data_size
        BY <1>0, <3>3, <3>4, <3>5, <4>1, SMTT(60)
      <4> HIDE DEF n
      <4>3. 3 * n + (c.total - 0) <= l.blocks * 3
        <5>1. /\ c.total \in Int /\ l.blocks \in Nat /\ data_size \in Nat
              /\ data_size + c.total <= l.blocks * 3
          BY <1>0, <3>3
        <5> DEFINE k == l.blocks
                   t == c.total
        <5> HIDE DEF k, t
        <5>2. t \in Int /\ k \in Nat /\ data_size + t <= k * 3
          BY <5>1 DEF k, t
        <5>3. 3 * n + (t - 0) <= k * 3
          BY <4>2, <5>1, <5>2
        <5>4. QED
          BY <5>3 DEF k, t
      <4>4. QED
        BY <2>4, <4>3 DEF n
    <3>7. e.moved % 3 = 0 /\ e.moved <= e.total /\ pos = data_size + e.moved
      BY <1>0, <2>4, <3>3
    <3>8. QED
      BY <2>4, <3>3, <3>4, <3>6, <3>7 DEF Appending
  <2>7. ~disturbed'[1] => Appending(loop[p], heap[qset[1]].blocks, file[p].pos)'
    BY <2>1, <2>5, <2>6 DEF Appending
  <2>8. loop'[p].list = qset'[1] /\ qset'[1] # 0
    BY <2>1, <2>4
  <2>9. ScratchFits(p)'
    BY <2>1, <2>7, <2>8 DEF ScratchFits
  <2>10. QED
    BY <1>0, <2>1, <2>9, ScratchFrame
<1>10. CASE ScratchOverwrite(p)
  <2>1. PICK count \in Counts :
          /\ pos + count <= data_size
          /\ loop' = [loop EXCEPT ![p] =
               IF pos + count = data_size
               THEN At(p, 0, 0, count)
               ELSE At(p, qset[1], scull_follow(qset[1], DivUp(pos, item)), count)]
          /\ disturbed' = [disturbed EXCEPT ![1] = @ \/ ~Appends(p, count)]
    BY <1>10 DEF ScratchOverwrite, Notes, pos
  <2>2. /\ pc[p] = "w_start" /\ pc'[p] = "w_copy" /\ qset[1] # 0
        /\ UNCHANGED <<file, heap, qset, data_size>>
    BY <1>0, <1>10 DEF ScratchOverwrite, Move, Typed
  <2>3. count \in Nat
    BY ListAssumption
  <2>4. ~disturbed'[1] => ~disturbed[1] /\ pos = data_size
    BY <1>0, <2>1 DEF Appends, pos
  <2>5. ASSUME ~disturbed'[1]
        PROVE  /\ loop'[p].total = 0 /\ loop'[p].moved = 0
    <3>1. count = 0 /\ pos + count = data_size
      BY <1>0, <2>1, <2>3, <2>4, <2>5
    <3>2. loop'[p] = At(p, 0, 0, count)
      BY <1>0, <2>1, <3>1 DEF Typed
    <3>3. QED
      BY <3>1, <3>2 DEF At
  <2>6. heap'[qset'[1]] = l /\ data_size' = data_size /\ file'[p].pos = pos /\ qset' = qset
    BY <2>2 DEF l, pos
  <2>7. ScratchEnd'
    <3>1. /\ Shaped(l)
          /\ ~disturbed[1] => data_size % 3 = 0 /\ Sound(l) /\ data_size <= l.blocks * 3
      BY <1>a, <2>2 DEF ScratchEnd, l
    <3>2. Shaped(heap[qset[1]])'
      BY <1>0, <2>6, <3>1 DEF Shaped
    <3>3. ~disturbed[1] => Sound(heap[qset[1]])'
      BY <1>0, <2>6, <3>1 DEF Sound, Shaped
    <3>4. QED
      BY <2>4, <2>6, <3>1, <3>2, <3>3 DEF ScratchEnd
  <2>8. ASSUME ~disturbed'[1]
        PROVE  Appending(loop[p], heap[qset[1]].blocks, file[p].pos)'
    <3>1. pos = data_size + 0 /\ 0 % 3 = 0 /\ 0 <= 0 /\ ~(0 > 0)
      BY <1>0, <2>4, <2>8
    <3>2. QED
      BY <2>5, <2>6, <2>8, <3>1 DEF Appending
  <2>9. ScratchFits(p)'
    <3>1. ~disturbed'[1] => ~(loop'[p].total > 0)
      BY <2>5
    <3>2. QED
      BY <2>2, <2>8, <3>1 DEF ScratchFits
  <2>10. QED
    BY <1>b, <2>2, <2>7, <2>9 DEF Busy
<1>11. CASE ScratchWriteRound(p)
  <2>1. /\ c.moved < c.total /\ CopyRound(p, "w_copy") /\ Advances(p)
        /\ UNCHANGED <<heap, qset, data_size, disturbed>>
    BY <1>11 DEF ScratchWriteRound, c
  <2>2. pc[p] = "w_copy" /\ Going(c)
    BY <2>1 DEF CopyRound, Move, Base, StepInv, Copying, c
  <2>3. CASE ~Fits(c)
    <3>1. pc'[p] = "astray"
      BY <1>0, <2>1, <2>3 DEF CopyRound, Move, Typed, c
    <3>2. QED
      BY <1>0, <2>1, <3>1, ScratchFrame
  <2>4. CASE Fits(c)
    <3>1. /\ pc'[p] = "w_copy" /\ loop'[p] = Copied(c) /\ file'[p].pos = pos + Length(c)
      BY <1>0, <2>1, <2>4 DEF CopyRound, Move, Advances, Typed, c, pos
    <3>2. heap'[qset'[1]] = l /\ data_size' = data_size
      BY <2>1 DEF l
    <3>3. ASSUME ~disturbed[1]
          PROVE  /\ Appending(Copied(c), l.blocks, pos + Length(c)) /\ qset[1] # 0
                 /\ Copied(c).list = qset[1]
      <4>1. Appending(c, l.blocks, pos) /\ (c.total > 0 => qset[1] # 0 /\ c.list = qset[1])
        BY <1>a, <2>2, <3>3 DEF ScratchFits, l, c, pos
      <4>2. c.moved >= 0 /\ c.total > 0
        BY <1>0, <2>1, <2>2 DEF Going, Loops
      <4>3. QED
        BY <1>0, <2>1, <4>1, <4>2, AppendRound
    <3>4. ScratchFits(p)'
      BY <2>1, <3>1, <3>2, <3>3 DEF ScratchFits, Appending
    <3>5. QED
      BY <1>0, <2>1, <3>4, ScratchFrame
  <2>5. QED
    BY <2>3, <2>4
<1>12. CASE ScratchWritten(p)
  <2>1. /\ c.moved >= c.total /\ pc[p] = "w_copy" /\ pc'[p] = "idle"
        /\ data_size' = (IF pos > data_size THEN pos ELSE IF data_size = 0 THEN c.moved ELSE data_size)
        /\ UNCHANGED <<heap, qset, disturbed>>
    BY <1>0, <1>12 DEF ScratchWritten, Returns, Move, Typed, c, pos
  <2>2. c.moved \in Int /\ c.total \in Int /\ c.moved >= 0
    <3>1. Going(c)
      BY <2>1 DEF Base, StepInv, Copying, c
    <3>2. QED
      BY <1>0, <3>1 DEF Going, Loops
  <2>3. ASSUME ~disturbed[1]
        PROVE  data_size' % 3 = 0 /\ (qset[1] # 0 => Sound(l) /\ data_size' <= l.blocks * 3)
    <3>1. Appending(c, l.blocks, pos)
      BY <1>a, <2>1, <2>3 DEF ScratchFits, l, c, pos
    <3>2. data_size % 3 = 0 /\ (qset[1] # 0 => Sound(l) /\ data_size <= l.blocks * 3)
      BY <1>a, <2>3 DEF ScratchEnd, l
    <3>3. /\ c.moved = c.total /\ pos = data_size + c.total /\ c.total % 3 = 0 /\ c.total >= 0
          /\ c.total > 0 => data_size + c.total <= l.blocks * 3
      BY <2>1, <2>2, <3>1 DEF Appending
    <3>4. data_size' = data_size + c.total
      BY <1>0, <2>1, <2>2, <3>3
    <3>5. (data_size + c.total) % 3 = 0
      <4>1. data_size \in Int /\ c.total \in Int
        BY <1>0, <2>2
      <4>2. QED
        BY <3>2, <3>3, <4>1, SumOfThrees
    <3>6. qset[1] # 0 => data_size + c.total <= l.blocks * 3
      BY <1>0, <2>2, <3>2, <3>3
    <3>7. QED
      BY <3>2, <3>4, <3>5, <3>6
  <2>4. heap'[qset'[1]] = l /\ qset' = qset /\ disturbed' = disturbed
    BY <2>1 DEF l
  <2>5. ScratchEnd'
    <3>1. qset[1] # 0 => Shaped(l)
      BY <1>a DEF ScratchEnd, l
    <3>2. QED
      BY <1>0, <2>3, <2>4, <3>1 DEF ScratchEnd, Sound, Shaped
  <2>6. QED
    BY <1>b, <2>1, <2>5 DEF Busy, ScratchFits
<1>13. CASE ScratchReadNothing(p)
  <2>1. /\ UNCHANGED <<heap, qset, data_size, disturbed>>
        /\ pc'[p] \notin {"w_expanded", "w_copy", "r_copy"}
    BY <1>0, <1>13 DEF ScratchReadNothing, Move, Returns, Down, Typed
  <2>2. QED
    BY <1>0, <2>1, ScratchFrame
<1>14. CASE ScratchReadFails(p)
  <2>1. /\ UNCHANGED <<heap, qset, data_size, disturbed>>
        /\ pc'[p] \notin {"w_expanded", "w_copy", "r_copy"}
    BY <1>0, <1>14 DEF ScratchReadFails, Move, Returns, Down, Typed
  <2>2. QED
    BY <1>0, <2>1, ScratchFrame
<1>15. CASE ScratchReadBegin(p)
  <2>1. PICK count \in Counts : loop' = [loop EXCEPT ![p] = ReadLoop(qset[1], pos, count)]
    BY <1>15 DEF ScratchReadBegin, pos
  <2> DEFINE e == ReadLoop(qset[1], pos, count)
  <2>2. /\ pc'[p] = "r_copy" /\ loop'[p] = e /\ qset[1] # 0
        /\ UNCHANGED <<file, heap, qset, data_size, disturbed>>
    BY <1>0, <1>15, <2>1 DEF ScratchReadBegin, Move, Typed
  <2>3. StartsAt(e, qset[1], pos, count)
    <3>1. l.sets \in Nat \ {0}
      <4>1. l \in Lists /\ l.sets >= 1
        BY <2>2, GrownList DEF l
      <4>2. QED
        BY <4>1 DEF Lists
    <3>2. qset[1] \in Nat /\ count \in Nat /\ size.quantum \in Nat \ {0} /\ size.qset \in Nat \ {0}
      BY <1>0, ListAssumption DEF Globals
    <3>3. QED
      BY <1>0, <3>1, <3>2, ReadStarts DEF l
  <2> HIDE DEF e
  <2>4. Reading(e, pos) /\ e.list = qset[1]
    <3>1. /\ e \in Loops /\ e.list = qset[1] /\ e.slot < 2 /\ e.chunk = 3
      BY <1>0, <2>3 DEF StartsAt
    <3>2. PICK k \in Nat : Index(e) <= k /\ pos = k * 3 + e.qoff
      BY <1>0, <2>3 DEF StartsAt
    <3>3. e.set \in Nat /\ e.slot \in Nat /\ e.qoff \in Nat
      BY <3>1 DEF Loops
    <3>4. Index(e) = e.set * 2 + e.slot
      BY <1>0 DEF Index
    <3>5. 3 * (e.set * 2 + e.slot) <= pos - e.qoff
      BY <1>0, <3>2, <3>3, <3>4, SMTT(60)
    <3>6. QED
      BY <3>1, <3>5 DEF Reading
  <2>5. ScratchFits(p)'
    <3>1. file'[p].pos = pos /\ qset' = qset
      BY <2>2 DEF pos
    <3>2. QED
      BY <2>2, <2>4, <3>1 DEF ScratchFits, Reading
  <2>6. QED
    BY <1>0, <2>2, <2>5, ScratchFrame
<1>16. CASE ScratchReadRound(p)
  <2>1. /\ c.moved < c.total /\ pos < data_size /\ CopyRound(p, "r_copy") /\ Advances(p)
        /\ UNCHANGED <<heap, qset, data_size, disturbed>>
    BY <1>16 DEF ScratchReadRound, Unread, c, pos
  <2>2. pc[p] = "r_copy" /\ Going(c)
    BY <2>1 DEF CopyRound, Move, Base, StepInv, Copying, c
  <2>3. CASE ~Fits(c)
    <3>1. pc'[p] = "astray"
      BY <1>0, <2>1, <2>3 DEF CopyRound, Move, Typed, c
    <3>2. QED
      BY <1>0, <2>1, <3>1, ScratchFrame
  <2>4. CASE Fits(c)
    <3>1. /\ pc'[p] = "r_copy" /\ loop'[p] = Copied(c) /\ file'[p].pos = pos + Length(c)
      BY <1>0, <2>1, <2>4 DEF CopyRound, Move, Advances, Typed, c, pos
    <3>2. ASSUME ~disturbed[1]
          PROVE  /\ Reading(Copied(c), pos + Length(c)) /\ qset[1] # 0 /\ Copied(c).list = qset[1]
      <4>1. Reading(c, pos) /\ qset[1] # 0 /\ c.list = qset[1]
        BY <1>a, <2>2, <3>2 DEF ScratchFits, c, pos
      <4>2. data_size <= l.blocks * 3 /\ l.blocks \in Nat
        BY <1>0, <1>a, <3>2, <4>1 DEF ScratchEnd, l
      <4>3. c.chunk > c.qoff
        BY <2>1, <2>2 DEF Going
      <4>4. QED
        BY <1>0, <2>1, <4>1, <4>2, <4>3, ReadingRound
    <3>3. ScratchFits(p)'
      BY <2>1, <3>1, <3>2 DEF ScratchFits, Reading
    <3>4. QED
      BY <1>0, <2>1, <3>3, ScratchFrame
  <2>5. QED
    BY <2>3, <2>4
<1>17. CASE ScratchReadDone(p)
  <2>1. /\ UNCHANGED <<heap, qset, data_size, disturbed>>
        /\ pc'[p] \notin {"w_expanded", "w_copy", "r_copy"}
    BY <1>0, <1>17 DEF ScratchReadDone, Move, Returns, Down, Typed
  <2>2. QED
    BY <1>0, <2>1, ScratchFrame
<1>18. CASE ScratchSeek(p)
  <2>1. /\ UNCHANGED <<heap, qset, data_size, disturbed>>
        /\ pc'[p] \notin {"w_expanded", "w_copy", "r_copy"}
    BY <1>0, <1>18 DEF ScratchSeek, Move, Returns, Down, Typed
  <2>2. QED
    BY <1>0, <2>1, ScratchFrame
<1>19. QED
  BY <1>1, <1>2, <1>3, <1>4, <1>5, <1>6, <1>7, <1>8, <1>9, <1>10, <1>11, <1>12, <1>13, <1>14, <1>15, <1>16, <1>17, <1>18 DEF ScratchNext

LEMMA ScratchLeaves ==
  ASSUME Typed, NEW p \in Procs, ScratchNext(p), pc[p] # "astray", pc'[p] = "astray"
  PROVE  /\ ~Fits(loop[p]) /\ loop[p].moved < loop[p].total
         /\ pc[p] = "w_copy" \/ (pc[p] = "r_copy" /\ file[p].pos < data_size)
<1>1. CASE ScratchOpen(p)
  BY <1>1 DEF ScratchOpen, Move, Returns, Down, CopyRound, Unread, Typed
<1>2. CASE ScratchClose(p)
  BY <1>2 DEF ScratchClose, Move, Returns, Down, CopyRound, Unread, Typed
<1>3. CASE ScratchCall(p)
  BY <1>3 DEF ScratchCall, Move, Returns, Down, CopyRound, Unread, Typed
<1>4. CASE ScratchTooLarge(p)
  BY <1>4 DEF ScratchTooLarge, Move, Returns, Down, CopyRound, Unread, Typed
<1>5. CASE ScratchCreate(p)
  BY <1>5 DEF ScratchCreate, Move, Returns, Down, CopyRound, Unread, Typed
<1>6. CASE ScratchCreateFails(p)
  BY <1>6 DEF ScratchCreateFails, Move, Returns, Down, CopyRound, Unread, Typed
<1>7. CASE expand_scull(p)
  BY <1>7 DEF expand_scull, Move, Returns, Down, CopyRound, Unread, Typed
<1>8. CASE ExpandFails(p)
  BY <1>8 DEF ExpandFails, Move, Returns, Down, CopyRound, Unread, Typed
<1>9. CASE ScratchExpanded(p)
  BY <1>9 DEF ScratchExpanded, Move, Returns, Down, CopyRound, Unread, Typed
<1>10. CASE ScratchOverwrite(p)
  BY <1>10 DEF ScratchOverwrite, Move, Returns, Down, CopyRound, Unread, Typed
<1>11. CASE ScratchWriteRound(p)
  BY <1>11 DEF ScratchWriteRound, Move, Returns, Down, CopyRound, Unread, Typed
<1>12. CASE ScratchWritten(p)
  BY <1>12 DEF ScratchWritten, Move, Returns, Down, CopyRound, Unread, Typed
<1>13. CASE ScratchReadNothing(p)
  BY <1>13 DEF ScratchReadNothing, Move, Returns, Down, CopyRound, Unread, Typed
<1>14. CASE ScratchReadFails(p)
  BY <1>14 DEF ScratchReadFails, Move, Returns, Down, CopyRound, Unread, Typed
<1>15. CASE ScratchReadBegin(p)
  BY <1>15 DEF ScratchReadBegin, Move, Returns, Down, CopyRound, Unread, Typed
<1>16. CASE ScratchReadRound(p)
  BY <1>16 DEF ScratchReadRound, Move, Returns, Down, CopyRound, Unread, Typed
<1>17. CASE ScratchReadDone(p)
  BY <1>17 DEF ScratchReadDone, Move, Returns, Down, CopyRound, Unread, Typed
<1>18. CASE ScratchSeek(p)
  BY <1>18 DEF ScratchSeek, Move, Returns, Down, CopyRound, Unread, Typed
<1>19. QED
  BY <1>1, <1>2, <1>3, <1>4, <1>5, <1>6, <1>7, <1>8, <1>9, <1>10, <1>11, <1>12, <1>13, <1>14, <1>15, <1>16, <1>17, <1>18 DEF ScratchNext

LEMMA ScratchStrays ==
  ASSUME Base, driver = "scratch_to_driver", ScratchInv, NEW p \in Procs, ScratchNext(p),
         pc[p] # "astray", pc'[p] = "astray"
  PROVE  disturbed[1]
<1> SUFFICES ASSUME ~disturbed[1]
             PROVE  FALSE
  OBVIOUS
<1> DEFINE c == loop[p]
           l == heap[qset[1]]
<1>1. /\ Typed /\ Globals /\ c \in Loops /\ file[p].pos \in Nat /\ 1 \in Devices /\ data_size \in Nat
      /\ size.quantum = 3 /\ size.qset = 2
  BY Found, FixedSizes DEF Files, Globals, RunTime
<1>2. /\ ~Fits(c) /\ c.moved < c.total
      /\ pc[p] = "w_copy" \/ (pc[p] = "r_copy" /\ file[p].pos < data_size)
  BY <1>1, ScratchLeaves
<1>3. Going(c) /\ c.moved >= 0 /\ c.chunk > c.qoff /\ c.total > 0
  <2>1. Going(c)
    BY <1>2 DEF Base, StepInv, Copying
  <2>2. QED
    BY <1>1, <1>2, <2>1 DEF Going, Loops
<1>4. ScratchEnd /\ ScratchFits(p) /\ c.list = qset[1] /\ qset[1] # 0
  <2>1. ScratchEnd /\ ScratchFits(p)
    BY DEF ScratchInv
  <2>2. QED
    BY <1>2, <1>3, <2>1 DEF ScratchFits
<1>5. /\ c.list \in 1 .. Len(heap) /\ Sound(heap[c.list]) /\ data_size <= l.blocks * 3
      /\ l.blocks \in Nat
  <2>1. c.list \in 1 .. Len(heap) /\ Sound(l) /\ data_size <= l.blocks * 3 /\ l \in Lists
    BY <1>1, <1>4 DEF ScratchEnd, Globals
  <2>2. QED
    BY <1>4, <2>1 DEF Lists
<1>6. c.slot < 2 /\ c.chunk <= 3 /\ c.set * 2 + c.slot < l.blocks
  <2>1. CASE pc[p] = "w_copy"
    <3>1. Appending(c, l.blocks, file[p].pos)
      BY <1>4, <2>1 DEF ScratchFits
    <3>2. QED
      BY <1>1, <1>2, <1>3, <1>5, <3>1, AppendRound, SMTT(60)
  <2>2. CASE pc[p] = "r_copy" /\ file[p].pos < data_size
    <3>1. Reading(c, file[p].pos)
      BY <1>4, <2>2 DEF ScratchFits
    <3>2. QED
      BY <1>1, <1>2, <1>3, <1>5, <2>2, <3>1, ReadingRound
  <2>3. QED
    BY <1>2, <2>1, <2>2
<1>7. Index(c) < heap[c.list].blocks
  BY <1>1, <1>4, <1>6 DEF Index
<1>8. QED
  BY <1>1, <1>2, <1>5, <1>6, <1>7, FitsThere

-----------------------------------------------------------------------------
(* The lists of all drivers, always                                        *)

Inv == Base /\ LocksReturned /\ DriverInv

LEMMA InvInit ==
  ASSUME Init
  PROVE  Inv
<1> USE DEF Init, initialization
<1>1. Base /\ LocksReturned
  BY BaseInit
<1>2. 1 \in Devices
  BY ListAssumption
<1>3. RunTimeInv
  BY <1>2 DEF RunTimeInv, RunFits, Unfinished
<1>4. ProcInv
  BY DEF ProcInv, ProcFits
<1>5. ComplInv
  BY <1>2 DEF ComplInv, ComplList, ComplFits, InList, Alters
<1>6. ScratchInv
  <2>1. 0 % 3 = 0
    OBVIOUS
  <2>2. QED
    BY <1>2, <2>1 DEF ScratchInv, ScratchEnd, ScratchFits
<1>7. QED
  BY <1>1, <1>3, <1>4, <1>5, <1>6 DEF Inv, DriverInv

LEMMA DriverStutter ==
  ASSUME DriverInv, UNCHANGED vars
  PROVE  DriverInv'
<1>1. /\ driver' = driver /\ pc' = pc /\ file' = file /\ loop' = loop /\ heap' = heap /\ qset' = qset
      /\ size' = size /\ data_size' = data_size /\ disturbed' = disturbed
  BY DEF vars
<1>2. RunTimeInv => RunTimeInv'
  BY <1>1 DEF RunTimeInv, RunFits, WriteFits, ReadFits, Index, Sound, Shaped, EndFits, item
<1>3. ProcInv => ProcInv'
  BY <1>1 DEF ProcInv, ProcFits, WriteFits, ReadFits, Index, Sound, Shaped, EndFits, Changing, Dev
<1>4. ComplInv => ComplInv'
  BY <1>1 DEF ComplInv, ComplList, ComplFits, InList, Alters, WriteFits, ReadFits, Index, Sound, Shaped, EndFits
<1>5. ScratchInv => ScratchInv'
  BY <1>1 DEF ScratchInv, ScratchEnd, ScratchFits, Expanded, Appending, Reading, Sound, Shaped
<1>6. QED
  BY <1>1, <1>2, <1>3, <1>4, <1>5 DEF DriverInv

LEMMA InvNext ==
  ASSUME Inv, [Next]_vars
  PROVE  Inv'
<1>1. Base' /\ LocksReturned'
  BY BaseNext DEF Inv
<1>2. CASE UNCHANGED vars
  BY <1>1, <1>2, DriverStutter DEF Inv
<1>3. ASSUME NEW p \in Procs, driver \in RunTime, IoctlNext(p)
      PROVE  DriverInv'
  <2>1. RunTimeInv' /\ driver' = driver
    BY <1>3, RunSteps, IoctlBase DEF Inv, DriverInv, Own
  <2>2. QED
    BY <1>3, <2>1 DEF DriverInv, RunTime
<1>4. ASSUME NEW p \in Procs, driver = "proc", ProcNext(p)
      PROVE  DriverInv'
  <2>1. ProcInv' /\ driver' = driver
    BY <1>4, ProcSteps, ProcBase DEF Inv, DriverInv, Own
  <2>2. QED
    BY <1>4, <2>1 DEF DriverInv, RunTime
<1>5. ASSUME NEW p \in Procs, driver = "completion", ComplNext(p)
      PROVE  DriverInv'
  <2>1. ComplInv' /\ driver' = driver
    BY <1>5, ComplSteps, ComplBase DEF Inv, DriverInv, Own
  <2>2. QED
    BY <1>5, <2>1 DEF DriverInv, RunTime
<1>6. ASSUME NEW p \in Procs, driver = "scratch_to_driver", ScratchNext(p)
      PROVE  DriverInv'
  <2>1. ScratchInv' /\ driver' = driver
    BY <1>6, ScratchSteps, ScratchBase DEF Inv, DriverInv, Own
  <2>2. QED
    BY <1>6, <2>1 DEF DriverInv, RunTime
<1>7. QED
  BY <1>1, <1>2, <1>3, <1>4, <1>5, <1>6, Zenon DEF Next, RunTime, Inv

LEMMA InvEnds ==
  ASSUME Inv
  PROVE  EndWithinList
<1> SUFFICES ASSUME NEW d \in Devices, qset[d] # 0, ~disturbed[d], ~Changing(d)
             PROVE  EndFits(heap[qset[d]])
  BY DEF EndWithinList, EndFits
<1>1. CASE driver = "proc"
  BY <1>1 DEF Inv, DriverInv, ProcInv
<1>2. CASE driver # "proc"
  <2>1. d = 1 /\ \A p \in Procs : Dev(p) = 1
    BY <1>2 DEF Inv, Base, FixedInv
  <2>2. \A p \in Procs : pc[p] \notin Unfinished
    BY <2>1 DEF Changing, Unfinished
  <2>3. CASE driver \in RunTime
    BY <2>1, <2>2, <2>3 DEF Inv, DriverInv, RunTimeInv
  <2>4. CASE driver = "completion"
    BY <2>1, <2>2, <2>4 DEF Inv, DriverInv, ComplInv, Alters, Unfinished
  <2>5. CASE driver = "scratch_to_driver"
    <3>1. Sound(heap[qset[1]]) /\ data_size <= heap[qset[1]].blocks * 3 /\ size.quantum = 3
      BY <2>1, <2>5, FixedSizes DEF Inv, DriverInv, ScratchInv, ScratchEnd, RunTime
    <3>2. QED
      BY <2>1, <3>1 DEF EndFits, Sound, Shaped
  <2>6. driver \in {"ioctl", "bitops", "ioctl-capability", "completion", "scratch_to_driver"}
    BY <1>2, ListAssumption, TypeParts DEF Inv, Base
  <2>7. QED
    BY <2>3, <2>4, <2>5, <2>6 DEF RunTime
<1>3. QED
  BY <1>1, <1>2

LEMMA InvStrays ==
  ASSUME Inv, [Next]_vars
  PROVE  /\ driver \in Locked => \A q \in Procs : Strays(q) => disturbed[Dev(q)]
         /\ driver \notin Locked => \A q \in Procs : Strays(q) => disturbed[1] \/ disturbed'[1]
<1> SUFFICES ASSUME NEW q \in Procs, Strays(q)
             PROVE  disturbed[Dev(q)] \/ (driver \notin Locked /\ (disturbed[1] \/ disturbed'[1]))
  <2>1. driver \notin Locked => \A q \in Procs : Dev(q) = 1
    BY DEF Inv, Base, FixedInv, Locked
  <2>2. QED
    BY <2>1
<1> USE DEF Strays
<1>1. CASE UNCHANGED vars
  BY <1>1 DEF vars
<1>2. driver # "proc" => Dev(q) = 1
  BY DEF Inv, Base, FixedInv
<1>3. ASSUME NEW p \in Procs, Own(p)
      PROVE  q = p
  BY <1>3, OwnOthers DEF Inv, Base
<1>4. ASSUME NEW p \in Procs, driver \in RunTime, IoctlNext(p)
      PROVE  disturbed[Dev(q)]
  <2>1. q = p
    BY <1>3, <1>4, IoctlBase DEF Inv
  <2>2. QED
    BY <1>2, <1>4, <2>1, RunStrays DEF Inv, DriverInv, RunTime
<1>5. ASSUME NEW p \in Procs, driver = "proc", ProcNext(p)
      PROVE  disturbed[Dev(q)]
  <2>1. q = p
    BY <1>3, <1>5, ProcBase DEF Inv
  <2>2. QED
    BY <1>5, <2>1, ProcStrays DEF Inv, DriverInv
<1>6. ASSUME NEW p \in Procs, driver = "completion", ComplNext(p)
      PROVE  driver \notin Locked /\ (disturbed[1] \/ disturbed'[1])
  <2>1. q = p
    BY <1>3, <1>6, ComplBase DEF Inv
  <2>2. QED
    BY <1>6, <2>1, ComplStrays DEF Inv, DriverInv, Locked
<1>7. ASSUME NEW p \in Procs, driver = "scratch_to_driver", ScratchNext(p)
      PROVE  disturbed[Dev(q)]
  <2>1. q = p
    BY <1>3, <1>7, ScratchBase DEF Inv
  <2>2. QED
    BY <1>2, <1>7, <2>1, ScratchStrays DEF Inv, DriverInv
<1>8. QED
  BY <1>1, <1>4, <1>5, <1>6, <1>7, Zenon DEF Next, RunTime

LEMMA Inductive == Spec => []Inv
<1>1. Init => Inv
  BY InvInit
<1>2. Inv /\ [Next]_vars => Inv'
  BY InvNext
<1>3. QED
  BY <1>1, <1>2, PTL DEF Spec

(* Between calls, data_size ends within the list of every device that      *)
(* nothing disturbed: no read starts beyond what there is, although        *)
(* data_size outlives the list it was set for.                             *)
THEOREM EndsWithinLists == Spec => []EndWithinList
<1>1. Inv => EndWithinList
  BY InvEnds
<1>2. QED
  BY <1>1, Inductive, PTL

(* With ioctl, bitops, ioctl-capability and proc, a call leaves its list   *)
(* only if a size changed after the list was begun, or a call on another   *)
(* device set data_size: what the semaphore covers is enough for the rest. *)
THEOREM SteadyCalls == Spec => SteadyCallsHold
<1>1. Inv /\ [Next]_vars =>
        [(driver \in Locked) => \A p \in Procs : Strays(p) => disturbed[Dev(p)]]_vars
  BY InvStrays
<1>2. QED
  BY <1>1, Inductive, PTL DEF Spec, SteadyCallsHold

(* With completion a call leaves its list only if another that changes the *)
(* list was about, or the file was written on from its middle; with        *)
(* scratch_to_driver only if a write was not an append of whole quanta.    *)
THEOREM LoneCalls == Spec => LoneCallsHold
<1>1. Inv /\ [Next]_vars =>
        [(driver \notin Locked) => \A p \in Procs : Strays(p) => disturbed[1] \/ disturbed'[1]]_vars
  BY InvStrays
<1>2. QED
  BY <1>1, Inductive, PTL DEF Spec, LoneCallsHold
=============================================================================
