--------------------------- MODULE VirtioBlkProofs ---------------------------
(***************************************************************************)
(* Proofs about the two components whose numbers wrap: VirtioBlk, for a    *)
(* queue of any size, index and generation counters of any width that the  *)
(* code's arithmetic allows, and a device that may answer late, in any     *)
(* order or never; and Tcp, for sequence numbers, buffers, segments and    *)
(* windows of any size and a network that loses, repeats and reorders.     *)
(* The two share no variable and no step: each theorem is about one.       *)
(***************************************************************************)
EXTENDS VirtioBlk, Tcp, FiniteSetTheorems, SequenceTheorems, TLAPS

\* How many completions wait, and the slot of the used ring each is in.
Waiting == (used_idx - last_used) % IdxSpace
Slot(i) == (last_used + i) % QueueSize

\* The heads whose chains are not the driver's to use again.
InUse == posted \cup Completed

\* No more completions wait than there are slots, and each is another's.
RingOK ==
    /\ Waiting <= QueueSize
    /\ \A i, j \in 0 .. Waiting - 1 : ring[Slot(i)] = ring[Slot(j)] => i = j
    /\ posted \cap Completed = {}

\* A chain begins with its head and has two or three descriptors.
ChainsOK == \A h \in InUse : Len(chain[h]) \in {2, 3} /\ chain[h][1] = h

FreeOnce == \A i, j \in 1 .. Len(free) : free[i] = free[j] => i = j

ChainsApart ==
    \A g, h \in InUse : \A i \in 1 .. Len(chain[g]), j \in 1 .. Len(chain[h]) :
        chain[g][i] = chain[h][j] => g = h /\ i = j

FreeApart ==
    \A h \in InUse : \A i \in 1 .. Len(free), j \in 1 .. Len(chain[h]) : free[i] # chain[h][j]

NoneGone ==
    \A d \in Descriptors :
        \/ \E i \in 1 .. Len(free) : free[i] = d
        \/ \E h \in InUse : \E j \in 1 .. Len(chain[h]) : chain[h][j] = d

QueueInv == RingOK /\ ChainsOK /\ FreeOnce /\ ChainsApart /\ FreeApart /\ NoneGone

\* Only a driver that the device can interrupt sleeps.
SleepOK == NoMissedCompletion /\ (pc = "asleep" => interrupting)

IInv == TypeOK /\ QueueInv /\ SleepOK

-----------------------------------------------------------------------------
(* The ring's arithmetic.                                                  *)

\* A number is a multiple of the divisor and its remainder.
LEMMA Divided ==
    ASSUME NEW n \in Nat \ {0}, NEW x \in Int
    PROVE  \E q \in Int : x = n * q + (x % n) /\ x % n \in 0 .. n - 1
<1>1. x \div n \in Int /\ x % n \in 0 .. n - 1 /\ x % n \in Int
  OBVIOUS
<1>2. x % n = x - n * (x \div n)
  OBVIOUS
<1>3. \A m \in Int : x % n = x - m => x = m + (x % n)
  BY <1>1
<1>4. n * (x \div n) \in Int
  BY <1>1
<1> QED
  BY <1>1, <1>2, <1>3, <1>4

\* And there is no other remainder.
LEMMA OneRemainder ==
    ASSUME NEW n \in Nat \ {0}, NEW x \in Int, NEW q \in Int, NEW r \in 0 .. n - 1, x = n * q + r
    PROVE  x % n = r
  OBVIOUS

\* The constants, as the arithmetic below uses them.
LEMMA QueueFacts ==
    /\ QueueSize \in Nat \ {0}
    /\ IdxSpace \in Nat \ {0} /\ IdxSpace > QueueSize
    /\ \E k \in Int : IdxSpace = QueueSize * k
<1>1. QueueSize \in Nat \ {0} /\ IdxSpace \in Nat /\ IdxSpace % QueueSize = 0 /\ IdxSpace > QueueSize
  BY VirtioAssumption
<1>0. IdxSpace \in Int
  BY <1>1
<1>2. PICK q \in Int : IdxSpace = QueueSize * q + (IdxSpace % QueueSize)
  BY <1>0, <1>1, Divided, Zenon
<1>3. IdxSpace = QueueSize * q
  BY <1>1, <1>2
<1> QED
  BY <1>1, <1>3

\* A slot is one of the queue's.
LEMMA SlotType ==
    ASSUME NEW x \in Int
    PROVE  x % QueueSize \in Descriptors
BY QueueFacts DEF Descriptors

\* Once round the index's range ends at the same slot.
LEMMA SameSlotAgain ==
    ASSUME NEW x \in Int
    PROVE  (x + IdxSpace) % QueueSize = x % QueueSize
<1>1. PICK k \in Int : IdxSpace = QueueSize * k
  BY QueueFacts
<1>2. PICK q \in Int : x = QueueSize * q + (x % QueueSize) /\ x % QueueSize \in 0 .. QueueSize - 1
  BY QueueFacts, Divided
<1> DEFINE a == QueueSize * q
           b == QueueSize * k
           c == QueueSize * (q + k)
           r == x % QueueSize
<1>3. c = a + b
  BY QueueFacts
<1>4. a \in Int /\ b \in Int /\ c \in Int /\ r \in Int /\ q + k \in Int /\ x + IdxSpace \in Int
  BY QueueFacts
<1>5. x = a + r /\ IdxSpace = b /\ r \in 0 .. QueueSize - 1
  BY <1>1, <1>2
<1> HIDE DEF a, b, c, r
<1>6. x + IdxSpace = c + r
  BY <1>3, <1>4, <1>5
<1>7. x + IdxSpace = QueueSize * (q + k) + r
  BY <1>6 DEF c
<1>8. (x + IdxSpace) % QueueSize = r
  BY <1>4, <1>5, <1>7, OneRemainder, QueueFacts, Zenon
<1> QED
  BY <1>8 DEF r

\* Places less than a queue apart have slots of their own.
LEMMA OwnSlot ==
    ASSUME NEW x \in Int, NEW i \in 0 .. QueueSize - 1, NEW j \in 0 .. QueueSize - 1,
           (x + i) % QueueSize = (x + j) % QueueSize
    PROVE  i = j
<1>0. x + i \in Int /\ x + j \in Int
  BY QueueFacts
<1>1. PICK a \in Int : x + i = QueueSize * a + ((x + i) % QueueSize)
  BY <1>0, QueueFacts, Divided, Zenon
<1>2. PICK b \in Int : x + j = QueueSize * b + ((x + j) % QueueSize)
  BY <1>0, QueueFacts, Divided, Zenon
<1>3. (x + i) % QueueSize \in Int
  BY QueueFacts
<1>4. QueueSize * a - QueueSize * b = i - j
  BY <1>1, <1>2, <1>3, QueueFacts
<1>5. QueueSize * (a - b) = i - j
  BY <1>4, QueueFacts
<1>6. -QueueSize < i - j /\ i - j < QueueSize
  BY QueueFacts
<1>7. CASE a - b >= 1
  <2>1. QueueSize * (a - b) >= QueueSize
    BY <1>7, QueueFacts
  <2> QED
    BY <2>1, <1>5, <1>6, QueueFacts
<1>8. CASE a - b <= -1
  <2>1. QueueSize * (a - b) <= -QueueSize
    BY <1>8, QueueFacts
  <2> QED
    BY <2>1, <1>5, <1>6, QueueFacts
<1>9. CASE a - b = 0
  BY <1>5, <1>9, QueueFacts
<1> QED
  BY <1>7, <1>8, <1>9

\* An index, and the distance between two of them, go round once at most.
LEMMA Around ==
    ASSUME NEW x \in Int, -IdxSpace <= x, x < 2 * IdxSpace
    PROVE  x % IdxSpace = IF x < 0 THEN x + IdxSpace
                          ELSE IF x < IdxSpace THEN x ELSE x - IdxSpace
<1>1. CASE x < 0
  <2>1. x = IdxSpace * (-1) + (x + IdxSpace) /\ x + IdxSpace \in 0 .. IdxSpace - 1
    BY <1>1, QueueFacts
  <2> QED
    BY <2>1, <1>1, OneRemainder, QueueFacts
<1>2. CASE 0 <= x /\ x < IdxSpace
  <2>1. x = IdxSpace * 0 + x /\ x \in 0 .. IdxSpace - 1
    BY <1>2, QueueFacts
  <2> QED
    BY <2>1, <1>2, OneRemainder, QueueFacts
<1>3. CASE x >= IdxSpace
  <2>1. x = IdxSpace * 1 + (x - IdxSpace) /\ x - IdxSpace \in 0 .. IdxSpace - 1
    BY <1>3, QueueFacts
  <2> QED
    BY <2>1, <1>3, OneRemainder, QueueFacts
<1> QED
  BY <1>1, <1>2, <1>3, QueueFacts

\* The used ring between its two indexes.
Indexes == used_idx \in 0 .. IdxSpace - 1 /\ last_used \in 0 .. IdxSpace - 1

LEMMA WaitingIs ==
    ASSUME Indexes
    PROVE  /\ Waiting = IF used_idx >= last_used THEN used_idx - last_used
                        ELSE used_idx - last_used + IdxSpace
           /\ Waiting \in 0 .. IdxSpace - 1
           /\ used_idx # last_used <=> Waiting > 0
<1>1. /\ used_idx - last_used \in Int /\ -IdxSpace <= used_idx - last_used
      /\ used_idx - last_used < 2 * IdxSpace /\ used_idx - last_used < IdxSpace
  BY QueueFacts DEF Indexes
<1>3. (used_idx - last_used) % IdxSpace
        = IF used_idx - last_used < 0 THEN used_idx - last_used + IdxSpace
          ELSE IF used_idx - last_used < IdxSpace THEN used_idx - last_used
               ELSE used_idx - last_used - IdxSpace
  BY <1>1, Around, Zenon
<1>2. Waiting = IF used_idx >= last_used THEN used_idx - last_used
                ELSE used_idx - last_used + IdxSpace
  BY <1>1, <1>3, QueueFacts DEF Waiting, Indexes
<1> QED
  BY <1>2, QueueFacts DEF Indexes

LEMMA SlotIs ==
    ASSUME Indexes, NEW i \in Nat
    PROVE  Slot(i) \in Descriptors
BY SlotType DEF Slot, Indexes

LEMMA FirstAndNext ==
    ASSUME Indexes
    PROVE  /\ Slot(0) = last_used % QueueSize
           /\ Slot(Waiting) = used_idx % QueueSize
<1>1. last_used + Waiting = used_idx \/ last_used + Waiting = used_idx + IdxSpace
  BY WaitingIs, QueueFacts DEF Indexes
<1>2. (used_idx + IdxSpace) % QueueSize = used_idx % QueueSize
  BY SameSlotAgain DEF Indexes
<1>3. last_used + 0 = last_used
  BY DEF Indexes
<1> QED
  BY <1>1, <1>2, <1>3 DEF Slot

LEMMA SlotsApart ==
    ASSUME Indexes, NEW i \in 0 .. QueueSize - 1, NEW j \in 0 .. QueueSize - 1, Slot(i) = Slot(j)
    PROVE  i = j
BY OwnSlot DEF Slot, Indexes

\* Collecting moves every completion one place nearer.
LEMMA OneCollected ==
    ASSUME Indexes, Waiting > 0, used_idx' = used_idx, last_used' = (last_used + 1) % IdxSpace
    PROVE  /\ Indexes' /\ Waiting' = Waiting - 1
           /\ \A i \in Nat : Slot(i)' = Slot(i + 1)
<1>1. last_used' = IF last_used + 1 < IdxSpace THEN last_used + 1 ELSE 0
  <2>1. last_used + 1 \in Int /\ -IdxSpace <= last_used + 1 /\ last_used + 1 < 2 * IdxSpace
        /\ ~(last_used + 1 < 0) /\ last_used + 1 <= IdxSpace
    BY QueueFacts DEF Indexes
  <2> QED
    BY <2>1, Around, QueueFacts
<1>2. Indexes'
  BY <1>1, QueueFacts DEF Indexes
<1>3. /\ -IdxSpace <= used_idx' - last_used' /\ used_idx' - last_used' < 2 * IdxSpace
      /\ used_idx' - last_used' \in Int /\ used_idx' - last_used' < IdxSpace
  BY <1>2, QueueFacts DEF Indexes
<1>4. Waiting' = IF used_idx' - last_used' < 0 THEN used_idx' - last_used' + IdxSpace
                 ELSE used_idx' - last_used'
  BY <1>3, Around DEF Waiting
<1>5. Waiting' = Waiting - 1
  BY <1>1, <1>4, WaitingIs, QueueFacts DEF Indexes
<1>6. ASSUME NEW i \in Nat
      PROVE  Slot(i)' = Slot(i + 1)
  <2>1. Slot(i)' = (last_used' + i) % QueueSize /\ Slot(i + 1) = (last_used + (i + 1)) % QueueSize
    BY DEF Slot
  <2>2. last_used' + i \in Int
    BY <1>2 DEF Indexes
  <2>3. last_used + (i + 1) = last_used' + i \/ last_used + (i + 1) = (last_used' + i) + IdxSpace
    BY <1>1, QueueFacts DEF Indexes
  <2> QED
    BY <2>1, <2>2, <2>3, SameSlotAgain
<1> QED
  BY <1>2, <1>5, <1>6

\* A completion is written behind those that wait.
LEMMA OneCompleted ==
    ASSUME Indexes, Waiting < QueueSize, last_used' = last_used, used_idx' = (used_idx + 1) % IdxSpace
    PROVE  /\ Indexes' /\ Waiting' = Waiting + 1
           /\ \A i \in Nat : Slot(i)' = Slot(i)
<1>1. used_idx' = IF used_idx + 1 < IdxSpace THEN used_idx + 1 ELSE 0
  <2>1. used_idx + 1 \in Int /\ -IdxSpace <= used_idx + 1 /\ used_idx + 1 < 2 * IdxSpace
        /\ ~(used_idx + 1 < 0) /\ used_idx + 1 <= IdxSpace
    BY QueueFacts DEF Indexes
  <2> QED
    BY <2>1, Around, QueueFacts
<1>2. Indexes'
  BY <1>1, QueueFacts DEF Indexes
<1>3. /\ -IdxSpace <= used_idx' - last_used' /\ used_idx' - last_used' < 2 * IdxSpace
      /\ used_idx' - last_used' \in Int /\ used_idx' - last_used' < IdxSpace
  BY <1>2, QueueFacts DEF Indexes
<1>4. Waiting' = IF used_idx' - last_used' < 0 THEN used_idx' - last_used' + IdxSpace
                 ELSE used_idx' - last_used'
  BY <1>3, Around DEF Waiting
<1>5. Waiting' = Waiting + 1
  BY <1>1, <1>4, WaitingIs, QueueFacts DEF Indexes
<1> QED
  BY <1>2, <1>5 DEF Slot

-----------------------------------------------------------------------------
(* The queue.                                                              *)

\* Nothing is in two places only if it fits in the queue.
LEMMA NoMoreThanQueue ==
    ASSUME NEW S, IsFiniteSet(S), NEW f \in [S -> Descriptors],
           \A x, y \in S : f[x] = f[y] => x = y
    PROVE  Cardinality(S) <= QueueSize
<1>1. IsFiniteSet(Descriptors) /\ Cardinality(Descriptors) = QueueSize
  BY FS_Interval, QueueFacts DEF Descriptors
<1>2. ASSUME Cardinality(Descriptors) < Cardinality(S)
      PROVE  FALSE
  <2>1. \E x, y \in S : x # y /\ f[x] = f[y]
    BY <1>1, <1>2, FS_PigeonHole
  <2> QED
    BY <2>1
<1>3. Cardinality(S) \in Nat
  BY FS_CardinalityType
<1> QED
  BY <1>1, <1>2, <1>3, QueueFacts

\* What the queue's variables hold.
QueueTypes ==
    /\ free \in Seq(Descriptors)
    /\ chain \in [Descriptors -> Seq(Descriptors)]
    /\ posted \subseteq Descriptors
    /\ ring \in [Descriptors -> Descriptors]
    /\ Indexes

LEMMA Typed ==
    ASSUME TypeOK
    PROVE  QueueTypes
BY DEF TypeOK, QueueTypes, Indexes

\* The completions that wait, by their places.
LEMMA CompletedIs ==
    ASSUME QueueTypes
    PROVE  /\ Completed = {ring[Slot(i)] : i \in 0 .. Waiting - 1}
           /\ Waiting \in Nat
           /\ \A i \in Nat : Slot(i) \in Descriptors
           /\ Completed \subseteq Descriptors
           /\ InUse \subseteq Descriptors
<1>1. Completed = {ring[Slot(i)] : i \in 0 .. Waiting - 1}
  BY DEF Completed, Waiting, Slot
<1>2. Waiting \in Nat
  BY WaitingIs, QueueFacts DEF QueueTypes
<1>3. \A i \in Nat : Slot(i) \in Descriptors
  BY SlotIs DEF QueueTypes
<1>4. 0 .. Waiting - 1 \subseteq Nat
  BY <1>2
<1>5. \A i \in 0 .. Waiting - 1 : ring[Slot(i)] \in Descriptors
  BY <1>3, <1>4 DEF QueueTypes
<1>6. Completed \subseteq Descriptors
  BY <1>1, <1>5
<1> QED
  BY <1>1, <1>2, <1>3, <1>6 DEF InUse, QueueTypes

\* While the device owns a request, a slot of the used ring is empty.
LEMMA RoomForOne ==
    ASSUME QueueTypes, RingOK, NEW h \in posted
    PROVE  Waiting < QueueSize
<1>1. Waiting \in Nat /\ h \in Descriptors /\ h \notin Completed
      /\ Completed = {ring[Slot(i)] : i \in 0 .. Waiting - 1} /\ Completed \subseteq Descriptors
  BY CompletedIs DEF RingOK, QueueTypes
<1> DEFINE f == [i \in 0 .. Waiting |-> IF i = Waiting THEN h ELSE ring[Slot(i)]]
<1>2. \A i \in 0 .. Waiting : i = Waiting \/ i \in 0 .. Waiting - 1
  BY <1>1
<1>3. \A i \in 0 .. Waiting - 1 : ring[Slot(i)] \in Completed
  BY <1>1
<1>4. f \in [0 .. Waiting -> Descriptors]
  BY <1>1, <1>2, <1>3
<1>5. ASSUME NEW x \in 0 .. Waiting, NEW y \in 0 .. Waiting, f[x] = f[y]
      PROVE  x = y
  <2>1. CASE x = Waiting /\ y # Waiting
    BY <1>1, <1>2, <1>3, <1>5, <2>1
  <2>2. CASE x # Waiting /\ y = Waiting
    BY <1>1, <1>2, <1>3, <1>5, <2>2
  <2>3. CASE x # Waiting /\ y # Waiting
    BY <1>2, <1>5, <2>3 DEF RingOK
  <2> QED
    BY <2>1, <2>2, <2>3
<1> HIDE DEF f
<1>6. IsFiniteSet(0 .. Waiting) /\ Cardinality(0 .. Waiting) = Waiting + 1
  BY <1>1, FS_Interval
<1>7. Cardinality(0 .. Waiting) <= QueueSize
  BY <1>4, <1>5, <1>6, NoMoreThanQueue, Zenon
<1> QED
  BY <1>1, <1>6, <1>7, QueueFacts

\* A list that names nothing twice fits in the queue.
LEMMA ApartFits ==
    ASSUME NEW s \in Seq(Descriptors), \A i, j \in 1 .. Len(s) : s[i] = s[j] => i = j
    PROVE  Len(s) <= QueueSize
<1> DEFINE f == [i \in 1 .. Len(s) |-> s[i]]
<1>0. Len(s) \in Nat
  OBVIOUS
<1>1. f \in [1 .. Len(s) -> Descriptors]
  OBVIOUS
<1>2. \A x, y \in 1 .. Len(s) : f[x] = f[y] => x = y
  OBVIOUS
<1> HIDE DEF f
<1>3. IsFiniteSet(1 .. Len(s)) /\ Cardinality(1 .. Len(s)) = Len(s)
  <2>1. 1 \in Int /\ Len(s) \in Int
    BY <1>0
  <2>2. /\ IsFiniteSet(1 .. Len(s))
        /\ Cardinality(1 .. Len(s)) = IF 1 > Len(s) THEN 0 ELSE Len(s) - 1 + 1
    BY <2>1, FS_Interval, Zenon
  <2> QED
    BY <1>0, <2>2
<1>4. Cardinality(1 .. Len(s)) <= QueueSize
  BY <1>1, <1>2, <1>3, NoMoreThanQueue, Zenon
<1> QED
  BY <1>0, <1>3, <1>4

-----------------------------------------------------------------------------
(* The device completes a request.                                         *)

LEMMA CompletesQueue ==
    ASSUME QueueTypes, QueueInv, NEW h \in posted,
           posted' = posted \ {h}, ring' = [ring EXCEPT ![used_idx % QueueSize] = h],
           used_idx' = (used_idx + 1) % IdxSpace,
           UNCHANGED <<free, chain, last_used>>
    PROVE  QueueTypes' /\ QueueInv'
<1>1. /\ Waiting \in Nat /\ h \in Descriptors /\ h \notin Completed
      /\ Completed = {ring[Slot(i)] : i \in 0 .. Waiting - 1}
      /\ \A i \in Nat : Slot(i) \in Descriptors
  BY CompletedIs DEF RingOK, QueueInv, QueueTypes
<1>2. Waiting < QueueSize
  BY RoomForOne DEF QueueInv
<1>3. Indexes' /\ Waiting' = Waiting + 1 /\ \A i \in Nat : Slot(i)' = Slot(i)
  BY <1>2, OneCompleted DEF QueueTypes
<1>4. used_idx % QueueSize = Slot(Waiting)
  BY FirstAndNext DEF QueueTypes
<1>0. PICK w \in Nat : w = Waiting
  BY <1>1
<1>5. QueueTypes'
  BY <1>1, <1>3, <1>4 DEF QueueTypes
<1>6. ring'[Slot(w)'] = h
  BY <1>0, <1>1, <1>3, <1>4 DEF QueueTypes
<1>7. ASSUME NEW i \in 0 .. Waiting - 1
      PROVE  ring'[Slot(i)'] = ring[Slot(i)]
  <2>1. i \in Nat /\ i \in 0 .. QueueSize - 1 /\ Waiting \in 0 .. QueueSize - 1 /\ i # Waiting
    BY <1>1, <1>2, QueueFacts
  <2>2. Slot(i) # Slot(Waiting)
    BY <2>1, SlotsApart DEF QueueTypes
  <2> QED
    BY <1>1, <1>3, <1>4, <2>1, <2>2 DEF QueueTypes
<1>8. \A i \in 0 .. Waiting' - 1 : i = Waiting \/ i \in 0 .. Waiting - 1
  BY <1>1, <1>3
<1>9. 0 .. Waiting - 1 \subseteq 0 .. Waiting' - 1 /\ Waiting \in 0 .. Waiting' - 1
  BY <1>1, <1>3
<1>10. Completed' = {ring'[Slot(i)'] : i \in 0 .. Waiting' - 1}
  BY DEF Completed, Waiting, Slot
<1>11. Completed' = Completed \cup {h}
  BY <1>0, <1>1, <1>6, <1>7, <1>8, <1>9, <1>10
<1>12. InUse' = InUse
  BY <1>11 DEF InUse
<1>13. ASSUME NEW i \in 0 .. Waiting' - 1, NEW j \in 0 .. Waiting' - 1, ring'[Slot(i)'] = ring'[Slot(j)']
       PROVE  i = j
  <2>1. \A k \in 0 .. Waiting - 1 : ring[Slot(k)] \in Completed
    BY <1>1
  <2>2. CASE i = Waiting /\ j # Waiting
    BY <1>0, <1>1, <1>6, <1>7, <1>8, <1>13, <2>1, <2>2
  <2>3. CASE i # Waiting /\ j = Waiting
    BY <1>0, <1>1, <1>6, <1>7, <1>8, <1>13, <2>1, <2>3
  <2>4. CASE i # Waiting /\ j # Waiting
    BY <1>7, <1>8, <1>13, <2>4 DEF QueueInv, RingOK
  <2> QED
    BY <2>2, <2>3, <2>4
<1>14. posted' \cap Completed' = {}
  BY <1>1, <1>11 DEF QueueInv, RingOK
<1>15. Waiting' <= QueueSize
  BY <1>1, <1>2, <1>3, QueueFacts
<1>16. RingOK'
  BY <1>13, <1>14, <1>15 DEF RingOK
<1>17. ChainsOK' /\ FreeOnce' /\ ChainsApart' /\ FreeApart' /\ NoneGone'
  BY <1>12 DEF QueueInv, ChainsOK, FreeOnce, ChainsApart, FreeApart, NoneGone
<1> QED
  BY <1>5, <1>16, <1>17 DEF QueueInv

-----------------------------------------------------------------------------
(* The driver collects a completion.                                       *)

\* Which completions wait when the first of them has been taken.
LEMMA CollectsRing ==
    ASSUME QueueTypes, RingOK, used_idx # last_used,
           last_used' = (last_used + 1) % IdxSpace,
           ring' = [ring EXCEPT ![last_used % QueueSize] = 0],
           UNCHANGED <<posted, used_idx>>
    PROVE  /\ ring[last_used % QueueSize] \in Completed
           /\ ring' \in [Descriptors -> Descriptors] /\ Indexes' /\ RingOK'
           /\ Completed' = Completed \ {ring[last_used % QueueSize]}
           /\ InUse' = InUse \ {ring[last_used % QueueSize]}
<1> DEFINE head == ring[last_used % QueueSize]
<1>1. /\ Waiting \in Nat
      /\ Completed = {ring[Slot(i)] : i \in 0 .. Waiting - 1}
      /\ \A i \in Nat : Slot(i) \in Descriptors
  BY CompletedIs
<1>2. Waiting > 0 /\ Waiting <= QueueSize
  BY WaitingIs DEF QueueTypes, RingOK
<1>3. Indexes' /\ Waiting' = Waiting - 1 /\ \A i \in Nat : Slot(i)' = Slot(i + 1)
  BY <1>2, OneCollected DEF QueueTypes
<1>4. Slot(0) = last_used % QueueSize /\ head = ring[Slot(0)] /\ 0 \in 0 .. Waiting - 1
  BY <1>1, <1>2, FirstAndNext DEF QueueTypes
<1>5. 0 \in Descriptors
  BY QueueFacts DEF Descriptors
<1>6. ring' = [ring EXCEPT ![Slot(0)] = 0] /\ ring \in [Descriptors -> Descriptors]
  BY <1>4 DEF QueueTypes
<1> HIDE DEF head
<1>7. ring' \in [Descriptors -> Descriptors]
  BY <1>1, <1>5, <1>6
<1>8. ASSUME NEW i \in 0 .. Waiting - 2
      PROVE  ring'[Slot(i)'] = ring[Slot(i + 1)]
  <2>1. i \in Nat /\ i + 1 \in Nat /\ i + 1 \in 0 .. QueueSize - 1 /\ 0 \in 0 .. QueueSize - 1 /\ i + 1 # 0
    BY <1>1, <1>2, QueueFacts
  <2>2. Slot(i + 1) # Slot(0)
    BY <2>1, SlotsApart DEF QueueTypes
  <2>3. Slot(i)' = Slot(i + 1) /\ Slot(i + 1) \in Descriptors
    BY <1>1, <1>3, <2>1
  <2> QED
    BY <1>1, <1>6, <2>2, <2>3
<1>9. 0 .. Waiting' - 1 = 0 .. Waiting - 2
  BY <1>1, <1>3
<1>10. Completed' = {ring'[Slot(i)'] : i \in 0 .. Waiting' - 1}
  BY DEF Completed, Waiting, Slot
<1>11. \A i, j \in 0 .. Waiting - 1 : ring[Slot(i)] = ring[Slot(j)] => i = j
  BY DEF RingOK
<1>12. \A i \in 0 .. Waiting - 2 : i + 1 \in 0 .. Waiting - 1 /\ i + 1 # 0 /\ i \in Int
  BY <1>1, <1>2
<1>13. \A i \in 0 .. Waiting - 1 : i = 0 \/ (i - 1 \in 0 .. Waiting - 2 /\ (i - 1) + 1 = i)
  BY <1>1, <1>2
<1>14. Completed' = Completed \ {head}
  <2>1. ASSUME NEW c \in Completed'
        PROVE  c \in Completed \ {head}
    <3>1. PICK i \in 0 .. Waiting - 2 : c = ring'[Slot(i)']
      BY <1>9, <1>10, <2>1
    <3>2. c = ring[Slot(i + 1)]
      BY <1>8, <3>1
    <3>3. ring[Slot(i + 1)] # ring[Slot(0)]
      BY <1>4, <1>11, <1>12
    <3> QED
      BY <1>1, <1>4, <1>12, <3>2, <3>3
  <2>2. ASSUME NEW c \in Completed, c # head
        PROVE  c \in Completed'
    <3>1. PICK i \in 0 .. Waiting - 1 : c = ring[Slot(i)]
      BY <1>1, <2>2
    <3>2. i # 0
      BY <1>4, <2>2, <3>1
    <3>3. PICK j \in 0 .. Waiting - 2 : j + 1 = i
      BY <1>13, <3>2
    <3>4. c = ring'[Slot(j)']
      BY <1>8, <3>1, <3>3
    <3>5. j \in 0 .. Waiting' - 1
      BY <1>9
    <3> QED
      BY <1>10, <3>4, <3>5
  <2> QED
    BY <2>1, <2>2
<1>15. head \in Completed /\ head \notin posted
  BY <1>1, <1>4 DEF RingOK
<1>16. InUse' = InUse \ {head}
  BY <1>14, <1>15 DEF InUse
<1>17. ASSUME NEW i \in 0 .. Waiting' - 1, NEW j \in 0 .. Waiting' - 1, ring'[Slot(i)'] = ring'[Slot(j)']
       PROVE  i = j
  <2>1. i \in 0 .. Waiting - 2 /\ j \in 0 .. Waiting - 2
    BY <1>9
  <2>2. ring[Slot(i + 1)] = ring[Slot(j + 1)]
    BY <1>8, <1>17, <2>1
  <2>3. i + 1 = j + 1
    BY <1>11, <1>12, <2>1, <2>2
  <2> QED
    BY <1>12, <2>1, <2>3
<1>18. Waiting' <= QueueSize
  BY <1>1, <1>2, <1>3, QueueFacts
<1>19. posted' \cap Completed' = {}
  BY <1>14 DEF RingOK
<1>20. RingOK'
  BY <1>17, <1>18, <1>19 DEF RingOK
<1> QED
  BY <1>3, <1>7, <1>14, <1>15, <1>16, <1>20 DEF head

\* Where the descriptors of a released chain are.
LEMMA Released ==
    ASSUME free \in Seq(Descriptors), NEW c \in Seq(Descriptors), free' = Reverse(c) \o free
    PROVE  /\ free' \in Seq(Descriptors)
           /\ \A i \in 1 .. Len(free') :
                \/ \E k \in 1 .. Len(c) : i = Len(c) + 1 - k /\ free'[i] = c[k]
                \/ \E k \in 1 .. Len(free) : i = k + Len(c) /\ free'[i] = free[k]
           /\ \A k \in 1 .. Len(c) : \E i \in 1 .. Len(free') : free'[i] = c[k]
           /\ \A k \in 1 .. Len(free) : \E i \in 1 .. Len(free') : free'[i] = free[k]
<1>1. PICK n \in Nat, m \in Nat : n = Len(c) /\ m = Len(free)
  OBVIOUS
<1> DEFINE r == [i \in 1 .. Len(c) |-> c[(Len(c) - i) + 1]]
<1>2. Reverse(c) = r
  BY DEF Reverse
<1>3. r \in Seq(Descriptors) /\ Len(r) = n /\ \A i \in 1 .. n : r[i] = c[n + 1 - i]
  BY <1>1
<1>4. free' = r \o free
  BY <1>2
<1> HIDE DEF r
<1>5. /\ r \o free \in Seq(Descriptors) /\ Len(r \o free) = Len(r) + Len(free)
      /\ \A i \in 1 .. Len(r) + Len(free) :
            (r \o free)[i] = IF i <= Len(r) THEN r[i] ELSE free[i - Len(r)]
  BY <1>3, ConcatProperties, Zenon
<1>6. /\ free' \in Seq(Descriptors) /\ Len(free') = n + m
      /\ \A i \in 1 .. n + m : free'[i] = IF i <= n THEN r[i] ELSE free[i - n]
  BY <1>1, <1>3, <1>4, <1>5, Zenon
<1>7. \A k \in 1 .. n : n + 1 - k \in 1 .. n /\ n + 1 - k \in 1 .. n + m /\ n + 1 - (n + 1 - k) = k /\ n + 1 - k <= n
  BY <1>1
<1>8. \A k \in 1 .. m : k + n \in 1 .. n + m /\ (k + n) - n = k /\ ~(k + n <= n)
  BY <1>1
<1>9. ASSUME NEW k \in 1 .. n
      PROVE  n + 1 - k \in 1 .. Len(free') /\ free'[n + 1 - k] = c[k]
  <2> DEFINE i == n + 1 - k
  <2>1. i \in 1 .. n /\ i \in 1 .. n + m /\ n + 1 - i = k /\ i <= n
    BY <1>7
  <2> HIDE DEF i
  <2>2. free'[i] = r[i] /\ r[i] = c[n + 1 - i]
    BY <1>3, <1>6, <2>1, Zenon
  <2>3. free'[i] = c[k] /\ i \in 1 .. Len(free')
    BY <1>6, <2>1, <2>2, Zenon
  <2> QED
    BY <2>3 DEF i
<1>10. ASSUME NEW k \in 1 .. m
       PROVE  k + n \in 1 .. Len(free') /\ free'[k + n] = free[k]
  <2> DEFINE i == k + n
  <2>1. i \in 1 .. n + m /\ i - n = k /\ ~(i <= n)
    BY <1>8
  <2> HIDE DEF i
  <2>2. free'[i] = free[i - n]
    BY <1>6, <2>1, Zenon
  <2>3. free'[i] = free[k] /\ i \in 1 .. Len(free')
    BY <1>6, <2>1, <2>2, Zenon
  <2> QED
    BY <2>3 DEF i
<1>11. ASSUME NEW i \in 1 .. Len(free')
       PROVE  \/ \E k \in 1 .. n : i = n + 1 - k /\ free'[i] = c[k]
              \/ \E k \in 1 .. m : i = k + n /\ free'[i] = free[k]
  <2>0. i \in 1 .. n + m /\ i \in Int
    BY <1>1, <1>6
  <2>1. CASE i <= n
    <3>1. n + 1 - i \in 1 .. n /\ n + 1 - (n + 1 - i) = i
      BY <1>1, <2>0, <2>1
    <3>2. free'[n + 1 - (n + 1 - i)] = c[n + 1 - i]
      BY <1>9, <3>1, Zenon
    <3> QED
      BY <3>1, <3>2, Zenon
  <2>2. CASE i > n
    <3>1. i - n \in 1 .. m /\ (i - n) + n = i
      BY <1>1, <2>0, <2>2
    <3>2. free'[(i - n) + n] = free[i - n]
      BY <1>10, <3>1, Zenon
    <3> QED
      BY <3>1, <3>2, Zenon
  <2> QED
    BY <1>1, <2>0, <2>1, <2>2
<1> QED
  BY <1>1, <1>6, <1>9, <1>10, <1>11, Zenon

\* Two places on chains that name the same descriptor are the same place.
LEMMA OnePlace ==
    ASSUME QueueInv, NEW g \in InUse, NEW h \in InUse,
           NEW i \in 1 .. Len(chain[g]), NEW j \in 1 .. Len(chain[h]), chain[g][i] = chain[h][j]
    PROVE  g = h /\ i = j
BY DEF QueueInv, ChainsApart

\* Descriptors at the front of the free list and off the chain they were on are
\* in one place still.
LEMMA GivenBack ==
    ASSUME QueueTypes, QueueInv, NEW head \in InUse, InUse' = InUse \ {head},
           \A h \in InUse : h # head => chain'[h] = chain[h],
           \A i \in 1 .. Len(free') :
              \/ \E k \in 1 .. Len(chain[head]) :
                    i = Len(chain[head]) + 1 - k /\ free'[i] = chain[head][k]
              \/ \E k \in 1 .. Len(free) : i = k + Len(chain[head]) /\ free'[i] = free[k],
           \A k \in 1 .. Len(chain[head]) : \E i \in 1 .. Len(free') : free'[i] = chain[head][k],
           \A k \in 1 .. Len(free) : \E i \in 1 .. Len(free') : free'[i] = free[k]
    PROVE  ChainsOK' /\ FreeOnce' /\ ChainsApart' /\ FreeApart' /\ NoneGone'
<1>1. \A h \in InUse' : h \in InUse /\ h # head /\ chain'[h] = chain[h]
  OBVIOUS
<1>2. ChainsOK'
  BY <1>1 DEF QueueInv, ChainsOK
<1>3. ChainsApart'
  <2> SUFFICES ASSUME NEW g \in InUse', NEW h \in InUse',
                      NEW i \in 1 .. Len(chain'[g]), NEW j \in 1 .. Len(chain'[h]),
                      chain'[g][i] = chain'[h][j]
               PROVE  g = h /\ i = j
    BY DEF ChainsApart
  <2>1. g \in InUse /\ h \in InUse /\ chain'[g] = chain[g] /\ chain'[h] = chain[h]
    BY <1>1, Zenon
  <2>2. i \in 1 .. Len(chain[g]) /\ j \in 1 .. Len(chain[h]) /\ chain[g][i] = chain[h][j]
    BY <2>1, Zenon
  <2> QED
    BY <2>1, <2>2, OnePlace
<1>4. FreeOnce'
  <2> SUFFICES ASSUME NEW i \in 1 .. Len(free'), NEW j \in 1 .. Len(free'), free'[i] = free'[j]
               PROVE  i = j
    BY DEF FreeOnce
  <2>1. ASSUME NEW k \in 1 .. Len(chain[head]), free'[i] = chain[head][k], i = Len(chain[head]) + 1 - k,
               NEW l \in 1 .. Len(chain[head]), free'[j] = chain[head][l], j = Len(chain[head]) + 1 - l
        PROVE  i = j
    <3>0. chain[head][k] = chain[head][l]
      BY <2>1, Zenon
    <3>1. k = l
      BY <3>0, OnePlace, ZenonT(60)
    <3> QED
      BY <2>1, <3>1, Zenon
  <2>2. ASSUME NEW k \in 1 .. Len(free), NEW l \in 1 .. Len(chain[head]),
               \/ free'[i] = free[k] /\ free'[j] = chain[head][l]
               \/ free'[j] = free[k] /\ free'[i] = chain[head][l]
        PROVE  FALSE
    <3>1. free[k] # chain[head][l]
      BY Zenon DEF QueueInv, FreeApart
    <3> QED
      BY <2>2, <3>1, Zenon
  <2>3. ASSUME NEW k \in 1 .. Len(free), free'[i] = free[k], i = k + Len(chain[head]),
               NEW l \in 1 .. Len(free), free'[j] = free[l], j = l + Len(chain[head])
        PROVE  i = j
    <3>0. free[k] = free[l]
      BY <2>3, Zenon
    <3>1. k = l
      BY <2>3, <3>0, Zenon DEF QueueInv, FreeOnce
    <3> QED
      BY <2>3, <3>1, Zenon
  <2> QED
    BY <2>1, <2>2, <2>3, Zenon
<1>5. FreeApart'
  <2> SUFFICES ASSUME NEW h \in InUse', NEW i \in 1 .. Len(free'), NEW j \in 1 .. Len(chain'[h])
               PROVE  free'[i] # chain'[h][j]
    BY DEF FreeApart
  <2>1. h \in InUse /\ h # head /\ chain'[h] = chain[h] /\ j \in 1 .. Len(chain[h])
    BY <1>1, Zenon
  <2>2. \A k \in 1 .. Len(chain[head]) : chain[head][k] # chain[h][j]
    BY <2>1, Zenon DEF QueueInv, ChainsApart
  <2>3. \A k \in 1 .. Len(free) : free[k] # chain[h][j]
    BY <2>1, Zenon DEF QueueInv, FreeApart
  <2>4. free'[i] # chain[h][j]
    <3>1. ASSUME NEW k \in 1 .. Len(chain[head]), free'[i] = chain[head][k]
          PROVE  free'[i] # chain[h][j]
      BY <2>2, <3>1, Zenon
    <3>2. ASSUME NEW k \in 1 .. Len(free), free'[i] = free[k]
          PROVE  free'[i] # chain[h][j]
      BY <2>3, <3>2, Zenon
    <3> QED
      BY <3>1, <3>2, Zenon
  <2> QED
    BY <2>1, <2>4, Zenon
<1>6. NoneGone'
  <2> SUFFICES ASSUME NEW d \in Descriptors
               PROVE  \/ \E i \in 1 .. Len(free') : free'[i] = d
                      \/ \E h \in InUse' : \E j \in 1 .. Len(chain'[h]) : chain'[h][j] = d
    BY DEF NoneGone
  <2>1. ASSUME NEW k \in 1 .. Len(free), free[k] = d
        PROVE  \E i \in 1 .. Len(free') : free'[i] = d
    BY <2>1, Zenon
  <2>2. ASSUME NEW h \in InUse, NEW k \in 1 .. Len(chain[h]), chain[h][k] = d, h = head
        PROVE  \E i \in 1 .. Len(free') : free'[i] = d
    BY <2>2, Zenon
  <2>3. ASSUME NEW h \in InUse, NEW k \in 1 .. Len(chain[h]), chain[h][k] = d, h # head
        PROVE  h \in InUse' /\ k \in 1 .. Len(chain'[h]) /\ chain'[h][k] = d
    BY <2>3
  <2>4. \/ \E k \in 1 .. Len(free) : free[k] = d
        \/ \E h \in InUse : \E k \in 1 .. Len(chain[h]) : chain[h][k] = d
    BY DEF QueueInv, NoneGone
  <2> QED
    BY <2>1, <2>2, <2>3, <2>4, Zenon
<1> QED
  BY <1>2, <1>3, <1>4, <1>5, <1>6

\* A released chain's descriptors are free, and on no chain.
LEMMA CollectsQueue ==
    ASSUME QueueTypes, QueueInv, used_idx # last_used, NEW head \in Descriptors,
           head = ring[last_used % QueueSize],
           last_used' = (last_used + 1) % IdxSpace,
           free' = Reverse(chain[head]) \o free,
           chain' = [chain EXCEPT ![head] = <<>>],
           ring' = [ring EXCEPT ![last_used % QueueSize] = 0],
           UNCHANGED <<posted, used_idx>>
    PROVE  QueueTypes' /\ QueueInv' /\ Len(free') <= QueueSize
<1>1. /\ head \in Completed
      /\ ring' \in [Descriptors -> Descriptors] /\ Indexes' /\ RingOK'
      /\ InUse' = InUse \ {head}
  BY CollectsRing DEF QueueInv
<1>2. head \in InUse /\ InUse \subseteq Descriptors
  BY <1>1, CompletedIs DEF InUse
<1>3. chain[head] \in Seq(Descriptors) /\ free \in Seq(Descriptors)
  BY DEF QueueTypes
<1>4. /\ free' \in Seq(Descriptors)
      /\ \A i \in 1 .. Len(free') :
            \/ \E k \in 1 .. Len(chain[head]) :
                  i = Len(chain[head]) + 1 - k /\ free'[i] = chain[head][k]
            \/ \E k \in 1 .. Len(free) : i = k + Len(chain[head]) /\ free'[i] = free[k]
      /\ \A k \in 1 .. Len(chain[head]) : \E i \in 1 .. Len(free') : free'[i] = chain[head][k]
      /\ \A k \in 1 .. Len(free) : \E i \in 1 .. Len(free') : free'[i] = free[k]
  BY <1>3, Released, Zenon
<1>5. \A h \in InUse : h # head => chain'[h] = chain[h]
  BY <1>2 DEF QueueTypes
<1>6. chain' \in [Descriptors -> Seq(Descriptors)]
  BY DEF QueueTypes
<1>7. QueueTypes'
  BY <1>1, <1>4, <1>6 DEF QueueTypes
<1>8. ChainsOK' /\ FreeOnce' /\ ChainsApart' /\ FreeApart' /\ NoneGone'
  BY <1>1, <1>2, <1>4, <1>5, GivenBack, Zenon
<1>9. Len(free') <= QueueSize
  <2>1. \A i, j \in 1 .. Len(free') : free'[i] = free'[j] => i = j
    BY <1>8 DEF FreeOnce
  <2>2. free' \in Seq(Descriptors)
    BY <1>4, Zenon
  <2> QED
    BY <2>1, <2>2, ApartFits, Zenon
<1> QED
  BY <1>1, <1>7, <1>8, <1>9 DEF QueueInv

-----------------------------------------------------------------------------
(* The driver submits a chain.                                             *)

\* The chain and the free list, when the chain is taken off its front.
LEMMA TakenOff ==
    ASSUME free \in Seq(Descriptors), NEW n \in {2, 3}, n <= Len(free)
    PROVE  /\ Head(free) = free[1] /\ free[1] \in Descriptors
           /\ SubSeq(free, 1, n) \in Seq(Descriptors) /\ Len(SubSeq(free, 1, n)) = n
           /\ \A i \in 1 .. n : SubSeq(free, 1, n)[i] = free[i]
           /\ SubSeq(free, n + 1, Len(free)) \in Seq(Descriptors)
           /\ Len(SubSeq(free, n + 1, Len(free))) = Len(free) - n
           /\ \A i \in 1 .. Len(free) - n : SubSeq(free, n + 1, Len(free))[i] = free[i + n]
<1>1. Len(free) \in Nat /\ n \in Nat /\ n >= 1
  OBVIOUS
<1>2. Head(free) = free[1] /\ free[1] \in Descriptors
  BY <1>1
<1>3. /\ SubSeq(free, 1, n) \in Seq(Descriptors) /\ Len(SubSeq(free, 1, n)) = n
      /\ \A i \in 1 .. n : SubSeq(free, 1, n)[i] = free[i]
  <2>1. \A i \in 1 .. n : i \in 1 .. Len(free)
    BY <1>1
  <2> QED
    BY <1>1, <2>1
<1>4. /\ SubSeq(free, n + 1, Len(free)) \in Seq(Descriptors)
      /\ Len(SubSeq(free, n + 1, Len(free))) = Len(free) - n
      /\ \A i \in 1 .. Len(free) - n : SubSeq(free, n + 1, Len(free))[i] = free[i + n]
  <2>1. \A i \in n + 1 .. Len(free) : i \in 1 .. Len(free)
    BY <1>1
  <2>2. \A i \in 1 .. Len(free) - n : (n + 1) + i - 1 = i + n
    BY <1>1
  <2> QED
    BY <1>1, <2>1, <2>2
<1> QED
  BY <1>2, <1>3, <1>4

LEMMA SubmitsQueue ==
    ASSUME QueueTypes, QueueInv, Len(free) <= QueueSize, NEW n \in {2, 3}, n <= Len(free),
           virtqueue_submit(n), UNCHANGED <<ring, used_idx, last_used>>
    PROVE  QueueTypes' /\ QueueInv' /\ Len(free') <= QueueSize /\ mine' \in Descriptors
<1>0. free \in Seq(Descriptors) /\ Len(free) \in Nat /\ n \in Nat /\ n >= 1 /\ n <= Len(free)
  BY DEF QueueTypes
<1> DEFINE head == free[1]
           c == SubSeq(free, 1, n)
<1>1. /\ head \in Descriptors
      /\ c \in Seq(Descriptors) /\ Len(c) = n /\ \A i \in 1 .. n : c[i] = free[i]
      /\ free' \in Seq(Descriptors) /\ Len(free') = Len(free) - n
      /\ \A i \in 1 .. Len(free) - n : free'[i] = free[i + n]
      /\ chain' = [chain EXCEPT ![head] = c] /\ posted' = posted \cup {head} /\ mine' = head
  BY <1>0, TakenOff DEF virtqueue_submit
<1> HIDE DEF head, c
<1>2. head = free[1] /\ 1 \in 1 .. Len(free)
  BY <1>0 DEF head
<1>3. Completed' = Completed /\ InUse' = InUse \cup {head}
  <2>1. Completed' = Completed
    BY DEF Completed
  <2> QED
    BY <1>1, <2>1 DEF InUse
<1>4. InUse \subseteq Descriptors
  BY CompletedIs
<1>5. head \notin InUse
  <2>1. SUFFICES ASSUME head \in InUse PROVE FALSE
    OBVIOUS
  <2>2. Len(chain[head]) \in {2, 3} /\ chain[head][1] = head
    BY <2>1 DEF QueueInv, ChainsOK
  <2>3. 1 \in 1 .. Len(chain[head])
    BY <2>2
  <2> QED
    BY <1>2, <2>1, <2>2, <2>3 DEF QueueInv, FreeApart
<1>6. /\ chain'[head] = c
      /\ \A h \in InUse : h # head /\ chain'[h] = chain[h]
      /\ chain' \in [Descriptors -> Seq(Descriptors)]
  BY <1>1, <1>4, <1>5 DEF QueueTypes
<1>7. QueueTypes'
  BY <1>1, <1>6 DEF QueueTypes, Indexes
<1>8. RingOK'
  <2>1. head \notin Completed
    BY <1>5 DEF InUse
  <2>2. posted' \cap Completed' = {}
    BY <1>1, <1>3, <2>1 DEF QueueInv, RingOK
  <2> QED
    BY <2>2 DEF QueueInv, RingOK, Waiting, Slot
<1>9. ChainsOK'
  <2>1. Len(c) \in {2, 3} /\ c[1] = head
    <3>1. 1 \in 1 .. n
      BY <1>0
    <3>2. c[1] = head
      BY <1>1, <1>2, <3>1, Zenon
    <3>3. Len(c) = n
      BY <1>1
    <3> QED
      BY <3>2, <3>3
  <2> QED
    BY <1>3, <1>6, <2>1 DEF QueueInv, ChainsOK
<1>10. /\ \A i \in 1 .. n : i \in 1 .. Len(free)
       /\ \A i \in 1 .. Len(free') : i \in Int /\ i + n \in 1 .. Len(free) /\ i + n > n /\ free'[i] = free[i + n]
       /\ \A i, j \in 1 .. Len(free) : free[i] = free[j] => i = j
  <2>1. ASSUME NEW i \in 1 .. Len(free')
        PROVE  i \in Int /\ i + n \in 1 .. Len(free) /\ i + n > n /\ free'[i] = free[i + n]
    BY <1>0, <1>1
  <2> QED
    BY <1>0, <2>1 DEF QueueInv, FreeOnce
<1>11. FreeOnce'
  <2> SUFFICES ASSUME NEW i \in 1 .. Len(free'), NEW j \in 1 .. Len(free'), free'[i] = free'[j]
               PROVE  i = j
    BY DEF FreeOnce
  <2>1. i + n = j + n /\ i \in Int /\ j \in Int
    BY <1>10
  <2> QED
    BY <1>0, <2>1
<1>12. ChainsApart'
  <2> SUFFICES ASSUME NEW g \in InUse', NEW h \in InUse',
                      NEW i \in 1 .. Len(chain'[g]), NEW j \in 1 .. Len(chain'[h]),
                      chain'[g][i] = chain'[h][j]
               PROVE  g = h /\ i = j
    BY DEF ChainsApart
  <2>1. CASE g \in InUse /\ h \in InUse
    <3>1. chain'[g] = chain[g] /\ chain'[h] = chain[h]
      BY <1>6, <2>1
    <3>2. i \in 1 .. Len(chain[g]) /\ j \in 1 .. Len(chain[h]) /\ chain[g][i] = chain[h][j]
      BY <3>1
    <3> QED
      BY <2>1, <3>2 DEF QueueInv, ChainsApart
  <2>2. CASE g \in InUse /\ h = head
    <3>1. c[j] = free[j] /\ j \in 1 .. Len(free) /\ chain'[g] = chain[g]
      BY <1>1, <1>6, <1>10, <2>2
    <3> QED
      BY <1>6, <2>2, <3>1 DEF QueueInv, FreeApart
  <2>3. CASE g = head /\ h \in InUse
    <3>1. c[i] = free[i] /\ i \in 1 .. Len(free) /\ chain'[h] = chain[h]
      BY <1>1, <1>6, <1>10, <2>3
    <3> QED
      BY <1>6, <2>3, <3>1 DEF QueueInv, FreeApart
  <2>4. CASE g = head /\ h = head
    <3>1. c[i] = free[i] /\ c[j] = free[j] /\ i \in 1 .. Len(free) /\ j \in 1 .. Len(free)
      BY <1>1, <1>6, <1>10, <2>4
    <3> QED
      BY <1>6, <1>10, <2>4, <3>1
  <2> QED
    BY <1>3, <2>1, <2>2, <2>3, <2>4
<1>13. FreeApart'
  <2> SUFFICES ASSUME NEW h \in InUse', NEW i \in 1 .. Len(free'), NEW j \in 1 .. Len(chain'[h])
               PROVE  free'[i] # chain'[h][j]
    BY DEF FreeApart
  <2>1. i + n \in 1 .. Len(free) /\ i + n > n /\ free'[i] = free[i + n]
    BY <1>10
  <2>2. CASE h \in InUse
    <3>1. chain'[h] = chain[h]
      BY <1>6, <2>2
    <3>2. j \in 1 .. Len(chain[h])
      BY <3>1
    <3>3. free[i + n] # chain[h][j]
      BY <2>1, <2>2, <3>2 DEF QueueInv, FreeApart
    <3> QED
      BY <2>1, <3>1, <3>3
  <2>3. CASE h = head
    <3>1. j \in 1 .. n /\ c[j] = free[j] /\ j \in 1 .. Len(free) /\ chain'[h][j] = c[j]
      BY <1>1, <1>6, <1>10, <2>3
    <3>2. i + n # j
      BY <1>0, <2>1, <3>1
    <3> QED
      BY <1>10, <2>1, <3>1, <3>2
  <2> QED
    BY <1>3, <2>2, <2>3
<1>14. NoneGone'
  <2> SUFFICES ASSUME NEW d \in Descriptors
               PROVE  \/ \E i \in 1 .. Len(free') : free'[i] = d
                      \/ \E h \in InUse' : \E j \in 1 .. Len(chain'[h]) : chain'[h][j] = d
    BY DEF NoneGone
  <2>1. CASE \E i \in 1 .. Len(free) : free[i] = d
    <3>1. PICK i \in 1 .. Len(free) : free[i] = d
      BY <2>1
    <3>2. CASE i <= n
      <4>1. i \in 1 .. n /\ c[i] = d
        BY <1>0, <1>1, <3>1, <3>2
      <4>2. i \in 1 .. Len(chain'[head]) /\ chain'[head][i] = d
        BY <1>1, <1>6, <4>1
      <4> QED
        BY <1>3, <4>2
    <3>3. CASE i > n
      <4>1. i - n \in 1 .. Len(free) - n /\ (i - n) + n = i
        BY <1>0, <3>3
      <4>2. free'[i - n] = free[(i - n) + n] /\ i - n \in 1 .. Len(free')
        BY <1>1, <4>1
      <4> QED
        BY <3>1, <4>1, <4>2
    <3> QED
      BY <1>0, <3>2, <3>3
  <2>2. CASE \E h \in InUse : \E j \in 1 .. Len(chain[h]) : chain[h][j] = d
    <3>1. PICK h \in InUse : \E j \in 1 .. Len(chain[h]) : chain[h][j] = d
      BY <2>2
    <3>2. h \in InUse' /\ chain'[h] = chain[h]
      BY <1>3, <1>6
    <3> QED
      BY <3>1, <3>2
  <2> QED
    BY <2>1, <2>2 DEF QueueInv, NoneGone
<1>15. Len(free') <= QueueSize
  BY <1>0, <1>1, QueueFacts
<1> QED
  BY <1>1, <1>7, <1>8, <1>9, <1>11, <1>12, <1>13, <1>14, <1>15 DEF QueueInv

-----------------------------------------------------------------------------
(* The invariant.                                                          *)

\* What is not the queue's.
RestTypes ==
    /\ interrupting \in BOOLEAN
    /\ pc \in Places
    /\ mine \in Descriptors \cup {None}
    /\ collected \in BOOLEAN /\ over \in BOOLEAN
    /\ outcome \in {"none", "busy", "timeout", "ok", "error"}
    /\ status \in {"untouched", "ok", "ioerr"}
    /\ irq \in {"none", "sent", "lost"} /\ filed \in BOOLEAN
    /\ generation \in Gens /\ armed_for \in Gens /\ expired_at \in Gens
    /\ callback \in Gens \cup {None}

LEMMA TypesSplit == TypeOK <=> QueueTypes /\ Len(free) <= QueueSize /\ RestTypes
BY DEF TypeOK, QueueTypes, RestTypes, Indexes

LEMMA Initially == Init => IInv
<1> SUFFICES ASSUME Init PROVE IInv
  OBVIOUS
<1>0. QueueSize \in Nat \ {0} /\ IdxSpace \in Nat \ {0} /\ 2 \in Gens /\ 1 \in Gens /\ 0 \in Gens
  BY QueueFacts, VirtioAssumption DEF Gens
<1>1. /\ free = [i \in 1 .. QueueSize |-> i - 1] /\ Len(free) = QueueSize
      /\ free \in Seq(Descriptors)
  <2>1. free = [i \in 1 .. QueueSize |-> i - 1]
    BY DEF Init
  <2>2. \A i \in 1 .. QueueSize : i - 1 \in Descriptors
    BY <1>0 DEF Descriptors
  <2> QED
    BY <1>0, <2>1, <2>2
<1>2. chain = [d \in Descriptors |-> <<>>] /\ chain \in [Descriptors -> Seq(Descriptors)]
  BY DEF Init
<1>3. ring \in [Descriptors -> Descriptors]
  <2>1. 0 \in Descriptors
    BY <1>0 DEF Descriptors
  <2> QED
    BY <2>1 DEF Init, Descriptors
<1>4. used_idx = 0 /\ last_used = 0 /\ Indexes /\ posted = {}
  BY <1>0 DEF Init, Indexes
<1>5. Waiting = 0
  BY <1>4, WaitingIs, QueueFacts
<1>6. QueueTypes
  BY <1>1, <1>2, <1>3, <1>4 DEF QueueTypes
<1>7. Completed = {} /\ InUse = {}
  <2>1. 0 .. Waiting - 1 = {}
    BY <1>5
  <2> QED
    BY <1>4, <1>6, <2>1, CompletedIs DEF InUse
<1>8. RingOK
  <2>1. 0 .. Waiting - 1 = {}
    BY <1>5
  <2> QED
    BY <1>0, <1>4, <1>5, <2>1 DEF RingOK
<1>9. ChainsOK /\ ChainsApart /\ FreeApart
  BY <1>7 DEF ChainsOK, ChainsApart, FreeApart
<1>10. FreeOnce
  BY <1>0, <1>1 DEF FreeOnce
<1>11. NoneGone
  <2>1. \A d \in Descriptors : d + 1 \in 1 .. Len(free) /\ free[d + 1] = d
    BY <1>0, <1>1 DEF Descriptors
  <2> QED
    BY <2>1 DEF NoneGone
<1>12. TypeOK
  <2>1. generation \in Gens /\ armed_for \in Gens /\ expired_at \in Gens
    BY <1>0 DEF Init
  <2>2. RestTypes
    BY <2>1 DEF Init, RestTypes, Places
  <2>3. Len(free) <= QueueSize
    BY <1>0, <1>1
  <2> QED
    BY <1>6, <2>2, <2>3, TypesSplit
<1>13. SleepOK
  BY DEF Init, SleepOK, NoMissedCompletion
<1> QED
  BY <1>8, <1>9, <1>10, <1>11, <1>12, <1>13 DEF IInv, QueueInv

LEMMA QueueUnchanged ==
    ASSUME QueueTypes, QueueInv, Len(free) <= QueueSize, UNCHANGED queueVars
    PROVE  QueueTypes' /\ QueueInv' /\ Len(free') <= QueueSize
<1>1. QueueTypes' /\ Len(free') <= QueueSize
  BY DEF queueVars, QueueTypes, Indexes
<1>2. InUse' = InUse /\ Completed' = Completed
  BY DEF queueVars, InUse, Completed
<1>3. RingOK'
  BY <1>2 DEF queueVars, QueueInv, RingOK, Waiting, Slot
<1>4. ChainsOK' /\ FreeOnce' /\ ChainsApart' /\ FreeApart' /\ NoneGone'
  BY <1>2 DEF queueVars, QueueInv, ChainsOK, FreeOnce, ChainsApart, FreeApart, NoneGone
<1> QED
  BY <1>1, <1>3, <1>4 DEF QueueInv

\* A generation goes round.
LEMMA NextGeneration ==
    ASSUME NEW g \in Gens
    PROVE  (g + 1) % GenSpace \in Gens
<1>1. GenSpace \in Nat \ {0} /\ g + 1 \in Int
  BY VirtioAssumption DEF Gens
<1> QED
  BY <1>1 DEF Gens

LEMMA Inductive == IInv /\ [Next]_vars => IInv'
<1> SUFFICES ASSUME IInv, [Next]_vars PROVE IInv'
  OBVIOUS
<1>0. /\ QueueTypes /\ QueueInv /\ Len(free) <= QueueSize /\ RestTypes
      /\ SleepOK
  BY TypesSplit DEF IInv
<1> SUFFICES /\ QueueTypes' /\ QueueInv' /\ Len(free') <= QueueSize
             /\ RestTypes'
             /\ SleepOK'
  <2>1. TypeOK' <=> QueueTypes' /\ Len(free') <= QueueSize /\ RestTypes'
    BY DEF TypeOK, QueueTypes, RestTypes, Indexes
  <2> QED
    BY <2>1 DEF IInv
<1>q. UNCHANGED queueVars => QueueTypes' /\ QueueInv' /\ Len(free') <= QueueSize
  BY <1>0, QueueUnchanged
<1>1. ASSUME NEW n \in Lengths, Submit(n)
      PROVE  QueueTypes' /\ QueueInv' /\ Len(free') <= QueueSize /\ RestTypes' /\ SleepOK'
  <2>0. n \in {2, 3} /\ Len(free) \in Nat
    BY <1>0, VirtioAssumption DEF QueueTypes
  <2>1. CASE n > Len(free)
    <3>1. UNCHANGED queueVars
      BY <1>1, <2>1 DEF Submit, queueVars
    <3>2. RestTypes'
      BY <1>0, <1>1, <2>1 DEF Submit, RestTypes, clockVars
    <3>3. SleepOK'
      BY <1>0, <1>1, <2>1 DEF Submit, SleepOK, NoMissedCompletion
    <3> QED
      BY <1>q, <3>1, <3>2, <3>3
  <2>2. CASE n <= Len(free)
    <3>0. ~(n > Len(free))
      BY <2>0, <2>2
    <3>1. virtqueue_submit(n) /\ UNCHANGED <<ring, used_idx, last_used>>
      BY <1>1, <3>0 DEF Submit
    <3>2. QueueTypes' /\ QueueInv' /\ Len(free') <= QueueSize /\ mine' \in Descriptors
      BY <1>0, <2>0, <2>2, <3>1, SubmitsQueue, Zenon
    <3>3. RestTypes'
      BY <1>0, <1>1, <3>0, <3>2 DEF Submit, RestTypes, clockVars, Places
    <3>4. SleepOK'
      BY <1>0, <1>1, <3>0 DEF Submit, SleepOK, NoMissedCompletion
    <3> QED
      BY <3>2, <3>3, <3>4
  <2> QED
    BY <2>0, <2>1, <2>2
<1>2. ASSUME Look
      PROVE  QueueTypes' /\ QueueInv' /\ Len(free') <= QueueSize /\ RestTypes' /\ SleepOK'
  <2>1. CASE used_idx # last_used
    <3> DEFINE head == ring[last_used % QueueSize]
    <3>1. virtqueue_collect /\ UNCHANGED <<interrupting, mine, over, outcome, status, clockVars>>
      BY <1>2, <2>1 DEF Look
    <3>2. head \in Descriptors
      BY <1>0, SlotType DEF QueueTypes, Indexes
    <3>3. /\ last_used' = (last_used + 1) % IdxSpace
          /\ free' = Reverse(chain[head]) \o free
          /\ chain' = [chain EXCEPT ![head] = <<>>]
          /\ ring' = [ring EXCEPT ![last_used % QueueSize] = 0]
          /\ UNCHANGED <<posted, used_idx>>
          /\ pc' = "disarm" /\ collected' = TRUE /\ irq' \in {irq, "none"}
      BY <3>1 DEF virtqueue_collect, virtqueue_release
    <3> HIDE DEF head
    <3>4. QueueTypes' /\ QueueInv' /\ Len(free') <= QueueSize
      <4>1. head = ring[last_used % QueueSize]
        BY DEF head
      <4> QED
        BY <1>0, <2>1, <3>2, <3>3, <4>1, CollectsQueue, Zenon
    <3>5. RestTypes'
      BY <1>0, <3>1, <3>3 DEF RestTypes, clockVars, Places
    <3>6. SleepOK'
      BY <3>3 DEF SleepOK, NoMissedCompletion
    <3> QED
      BY <3>4, <3>5, <3>6
  <2>2. CASE used_idx = last_used
    <3>1. UNCHANGED queueVars
      BY <1>2, <2>2 DEF Look
    <3>2. pc' \in Places /\ collected' = FALSE /\ irq' = irq /\ (pc' = "asleep" => interrupting)
      BY <1>2, <2>2 DEF Look, Places
    <3>3. RestTypes'
      BY <1>0, <1>2, <3>2 DEF Look, RestTypes, clockVars
    <3>4. SleepOK'
      BY <1>2, <2>2, <3>1, <3>2 DEF Look, SleepOK, NoMissedCompletion, queueVars
    <3> QED
      BY <1>q, <3>1, <3>3, <3>4
  <2> QED
    BY <2>1, <2>2
<1>3. ASSUME NEW h \in posted, NEW s \in {"ok", "ioerr"}, DeviceCompletes(h, s)
      PROVE  QueueTypes' /\ QueueInv' /\ Len(free') <= QueueSize /\ RestTypes' /\ SleepOK'
  <2>1. /\ posted' = posted \ {h} /\ ring' = [ring EXCEPT ![used_idx % QueueSize] = h]
        /\ used_idx' = (used_idx + 1) % IdxSpace
        /\ UNCHANGED <<free, chain, last_used>>
    BY <1>3 DEF DeviceCompletes
  <2>2. QueueTypes' /\ QueueInv'
    BY <1>0, <2>1, CompletesQueue, Zenon
  <2>3. Len(free') <= QueueSize
    BY <1>0, <2>1
  <2>4. irq' \in {"none", "sent", "lost"} /\ (interrupting => irq' # "none")
    BY <1>0, <1>3 DEF DeviceCompletes, RestTypes
  <2>5. RestTypes'
    BY <1>0, <1>3, <2>4 DEF DeviceCompletes, RestTypes, clockVars
  <2>6. SleepOK'
    BY <1>0, <1>3, <2>4 DEF DeviceCompletes, SleepOK, NoMissedCompletion
  <2> QED
    BY <2>2, <2>3, <2>5, <2>6
<1>4. ASSUME wait_deadline_arm
      PROVE  UNCHANGED queueVars /\ RestTypes' /\ SleepOK'
  <2>1. generation' \in Gens
    BY <1>0, <1>4, NextGeneration DEF wait_deadline_arm, RestTypes
  <2> QED
    BY <1>0, <1>4, <2>1 DEF wait_deadline_arm, RestTypes, SleepOK, NoMissedCompletion, Places, queueVars
<1>5. ASSUME Retire
      PROVE  UNCHANGED queueVars /\ RestTypes' /\ SleepOK'
  <2>1. armed_for' \in Gens
    BY <1>0, <1>5, NextGeneration DEF Retire, RestTypes
  <2> QED
    BY <1>0, <1>5, <2>1 DEF Retire, RestTypes, SleepOK, NoMissedCompletion, Places, queueVars
<1>6. ASSUME ArmNamed
      PROVE  UNCHANGED queueVars /\ RestTypes' /\ SleepOK'
  BY <1>0, <1>6 DEF ArmNamed, RestTypes, SleepOK, NoMissedCompletion, Places, queueVars
<1>7. ASSUME NotArmed
      PROVE  UNCHANGED queueVars /\ RestTypes' /\ SleepOK'
  BY <1>0, <1>7 DEF NotArmed, RestTypes, SleepOK, NoMissedCompletion, Places, queueVars, clockVars
<1>8. ASSUME wait_deadline_disarm
      PROVE  UNCHANGED queueVars /\ RestTypes' /\ SleepOK'
  BY <1>0, <1>8 DEF wait_deadline_disarm, RestTypes, SleepOK, NoMissedCompletion, Places, queueVars
<1>9. ASSUME NothingToDisarm
      PROVE  UNCHANGED queueVars /\ RestTypes' /\ SleepOK'
  BY <1>0, <1>9 DEF NothingToDisarm, RestTypes, SleepOK, NoMissedCompletion, Places, queueVars, clockVars
<1>10. ASSUME GiveUp
       PROVE  UNCHANGED queueVars /\ RestTypes' /\ SleepOK'
  BY <1>0, <1>10 DEF GiveUp, Returns, RestTypes, SleepOK, NoMissedCompletion, Places, queueVars, clockVars
<1>11. ASSUME Again
       PROVE  UNCHANGED queueVars /\ RestTypes' /\ SleepOK'
  BY <1>0, <1>11 DEF Again, RestTypes, SleepOK, NoMissedCompletion, Places, queueVars, clockVars
<1>12. ASSUME Answer
       PROVE  UNCHANGED queueVars /\ RestTypes' /\ SleepOK'
  BY <1>0, <1>12 DEF Answer, Returns, RestTypes, SleepOK, NoMissedCompletion, Places, queueVars, clockVars
<1>13. ASSUME blk_interrupt
       PROVE  UNCHANGED queueVars /\ RestTypes' /\ SleepOK'
  BY <1>0, <1>13 DEF blk_interrupt, WakeAll, RestTypes, SleepOK, NoMissedCompletion, Places, queueVars, clockVars
<1>14. ASSUME TimerFires
       PROVE  UNCHANGED queueVars /\ RestTypes' /\ SleepOK'
  <2>1. UNCHANGED queueVars
    BY <1>14 DEF TimerFires
  <2>2. callback' \in Gens /\ filed' = FALSE
    BY <1>0, <1>14 DEF TimerFires, RestTypes
  <2>3. RestTypes'
    BY <1>0, <1>14, <2>2 DEF TimerFires, RestTypes
  <2>4. SleepOK'
    BY <1>0, <1>14, <2>1 DEF TimerFires, SleepOK, NoMissedCompletion, queueVars
  <2> QED
    BY <2>1, <2>3, <2>4
<1>15. ASSUME deadline_reached
       PROVE  UNCHANGED queueVars /\ RestTypes' /\ SleepOK'
  BY <1>0, <1>15 DEF deadline_reached, WakeAll, RestTypes, SleepOK, NoMissedCompletion, Places, queueVars
<1>16. ASSUME TimePasses
       PROVE  UNCHANGED queueVars /\ RestTypes' /\ SleepOK'
  BY <1>0, <1>16 DEF TimePasses, RestTypes, SleepOK, NoMissedCompletion, Places, queueVars, clockVars
<1>17. ASSUME UNCHANGED vars
       PROVE  UNCHANGED queueVars /\ RestTypes' /\ SleepOK'
  BY <1>0, <1>17 DEF vars, RestTypes, SleepOK, NoMissedCompletion, queueVars, clockVars
<1>18. CASE \E n \in Lengths : Submit(n)
  BY <1>1, <1>18
<1>19. CASE DriverStep
  BY <1>q, <1>2, <1>4, <1>5, <1>6, <1>7, <1>8, <1>9, <1>10, <1>11, <1>12, <1>19 DEF DriverStep
<1>20. CASE \E h \in posted, s \in {"ok", "ioerr"} : DeviceCompletes(h, s)
  BY <1>3, <1>20
<1> QED
  BY <1>q, <1>13, <1>14, <1>15, <1>16, <1>17, <1>18, <1>19, <1>20 DEF Next

\* The invariant holds of every behaviour.
THEOREM Invariance == Spec => []IInv
<1>1. Init => IInv
  BY Initially
<1>2. IInv /\ [Next]_vars => IInv'
  BY Inductive
<1> QED
  BY <1>1, <1>2, PTL DEF Spec

-----------------------------------------------------------------------------
(* What the checks claim.                                                  *)

\* The variables hold what the fields of the structures hold.
THEOREM TypeCorrect == Spec => []TypeOK
<1>1. IInv => TypeOK
  BY DEF IInv
<1> QED
  BY <1>1, Invariance, PTL

\* No descriptor is handed out while a chain the device may still follow, or
\* has just followed, has it; and every one comes back: whatever requests the
\* driver gives up, in whatever order the device answers, and at any length of
\* the queue (virtqueue_submit, virtqueue_collect, virtqueue_release).
THEOREM DescriptorsOnce == Spec => []EveryDescriptorOnce
<1>1. IInv => EveryDescriptorOnce
  <2> SUFFICES ASSUME IInv, NEW d \in Descriptors
               PROVE  Cardinality({i \in 1 .. Len(free) : free[i] = d})
                        + Cardinality({l \in (posted \cup Completed) \X (1 .. 3) :
                                          /\ l[2] <= Len(chain[l[1]])
                                          /\ chain[l[1]][l[2]] = d}) = 1
    BY DEF EveryDescriptorOnce
  <2> DEFINE A == {i \in 1 .. Len(free) : free[i] = d}
             B == {l \in (posted \cup Completed) \X (1 .. 3) :
                      /\ l[2] <= Len(chain[l[1]])
                      /\ chain[l[1]][l[2]] = d}
  <2>1. QueueInv
    BY DEF IInv
  <2>2. ASSUME NEW l \in B
        PROVE  /\ l = <<l[1], l[2]>> /\ l[1] \in InUse /\ l[2] \in 1 .. Len(chain[l[1]])
               /\ chain[l[1]][l[2]] = d
    <3>1. l \in (posted \cup Completed) \X (1 .. 3) /\ l[2] <= Len(chain[l[1]]) /\ chain[l[1]][l[2]] = d
      OBVIOUS
    <3>2. l = <<l[1], l[2]>> /\ l[1] \in InUse /\ l[2] \in 1 .. 3
      BY <3>1 DEF InUse
    <3>3. Len(chain[l[1]]) \in {2, 3}
      BY <2>1, <3>2 DEF QueueInv, ChainsOK
    <3> QED
      BY <3>1, <3>2, <3>3
  <2>3. ASSUME NEW h \in InUse, NEW j \in 1 .. Len(chain[h]), chain[h][j] = d
        PROVE  <<h, j>> \in B
    <3>1. Len(chain[h]) \in {2, 3}
      BY <2>1 DEF QueueInv, ChainsOK
    <3>2. j \in 1 .. 3 /\ j <= Len(chain[h])
      <4>1. CASE Len(chain[h]) = 2
        BY <4>1
      <4>2. CASE Len(chain[h]) = 3
        BY <4>2
      <4> QED
        BY <3>1, <4>1, <4>2
    <3> QED
      BY <2>3, <3>2 DEF InUse
  <2>4. CASE \E i \in 1 .. Len(free) : free[i] = d
    <3>1. PICK i \in 1 .. Len(free) : free[i] = d
      BY <2>4
    <3>2. A = {i}
      BY <2>1, <3>1 DEF QueueInv, FreeOnce
    <3>3. B = {}
      <4>1. SUFFICES ASSUME NEW l \in B PROVE FALSE
        OBVIOUS
      <4> HIDE DEF B
      <4> QED
        BY <2>1, <2>2, <3>1 DEF QueueInv, FreeApart
    <3> HIDE DEF A, B
    <3>4. Cardinality(A) = 1 /\ Cardinality(B) = 0
      BY <3>2, <3>3, FS_Singleton, FS_EmptySet
    <3> QED
      BY <3>4 DEF A, B
  <2>5. CASE \E h \in InUse : \E j \in 1 .. Len(chain[h]) : chain[h][j] = d
    <3>1. PICK h \in InUse : \E j \in 1 .. Len(chain[h]) : chain[h][j] = d
      BY <2>5
    <3>2. PICK j \in 1 .. Len(chain[h]) : chain[h][j] = d
      BY <3>1
    <3>3. A = {}
      BY <2>1, <3>2 DEF QueueInv, FreeApart
    <3>4. <<h, j>> \in B
      BY <2>3, <3>2
    <3>5. ASSUME NEW l \in B
          PROVE  l = <<h, j>>
      <4> HIDE DEF B
      <4>1. /\ l = <<l[1], l[2]>> /\ l[1] \in InUse /\ l[2] \in 1 .. Len(chain[l[1]])
            /\ chain[l[1]][l[2]] = d
        BY <2>2
      <4>2. l[1] = h /\ l[2] = j
        BY <2>1, <3>2, <4>1 DEF QueueInv, ChainsApart
      <4> QED
        BY <4>1, <4>2
    <3>6. B = {<<h, j>>}
      <4> HIDE DEF B
      <4> QED
        BY <3>4, <3>5
    <3> HIDE DEF A, B
    <3>7. Cardinality(A) = 0 /\ Cardinality(B) = 1
      BY <3>3, <3>6, FS_Singleton, FS_EmptySet
    <3> QED
      BY <3>7 DEF A, B
  <2> QED
    BY <2>1, <2>4, <2>5 DEF QueueInv, NoneGone
<1> QED
  BY <1>1, Invariance, PTL

\* The driver does not sleep over a completion that no interrupt announces,
\* but for one whose interrupt was lost (collect_or_wait, blk_interrupt).
THEOREM CompletionsSeen == Spec => []NoMissedCompletion
<1>1. IInv => NoMissedCompletion
  BY DEF IInv, SleepOK
<1> QED
  BY <1>1, Invariance, PTL

\* A device that answers no request run() has given up makes run()'s "ok" mean
\* what it says: the request it was for has been carried out.  With a late
\* answer it does not (run, the status byte that all requests share).
THEOREM PromptOkMeansCarriedOut == ~LateAnswers /\ Spec => OkMeansCarriedOut
<1> DEFINE Inv == pc # "idle" /\ status = "ok" => mine \notin posted
<1>1. Init => Inv
  BY DEF Init
<1>2. ASSUME ~LateAnswers, Inv, [Next]_vars
      PROVE  Inv'
  <2>1. CASE \E n \in Lengths : Submit(n)
    BY <2>1 DEF Submit
  <2>2. CASE DriverStep
    <3>1. status' = status /\ posted' = posted /\ (pc' # "idle" => pc # "idle" /\ mine' = mine)
      BY <2>2 DEF DriverStep, wait_deadline_arm, ArmNamed, NotArmed, Look, virtqueue_collect,
                  wait_deadline_disarm, Retire, NothingToDisarm, GiveUp, Again, Answer, Returns, queueVars
    <3> QED
      BY <1>2, <3>1
  <2>3. CASE \E h \in posted, s \in {"ok", "ioerr"} : DeviceCompletes(h, s)
    BY <1>2, <2>3 DEF DeviceCompletes
  <2>4. CASE blk_interrupt
    BY <1>2, <2>4 DEF blk_interrupt, WakeAll, queueVars
  <2>5. CASE TimerFires
    BY <1>2, <2>5 DEF TimerFires, queueVars
  <2>6. CASE deadline_reached
    BY <1>2, <2>6 DEF deadline_reached, WakeAll, queueVars
  <2>7. CASE TimePasses
    BY <1>2, <2>7 DEF TimePasses, queueVars
  <2>8. CASE UNCHANGED vars
    BY <1>2, <2>8 DEF vars, queueVars
  <2> QED
    BY <1>2, <2>1, <2>2, <2>3, <2>4, <2>5, <2>6, <2>7, <2>8 DEF Next
<1>3. ASSUME Inv, [Next]_vars
      PROVE  [pc # "idle" /\ pc' = "idle" /\ outcome' = "ok" => mine \notin posted]_vars
  <2> SUFFICES ASSUME Next, pc # "idle", pc' = "idle", outcome' = "ok"
               PROVE  mine \notin posted
    BY <1>3
  <2>1. status = "ok"
    <3>1. GiveUp \/ Answer
      BY DEF Next, DriverStep, Submit, wait_deadline_arm, ArmNamed, NotArmed, Look, virtqueue_collect,
             wait_deadline_disarm, Retire, NothingToDisarm, Again, DeviceCompletes, blk_interrupt,
             WakeAll, TimerFires, deadline_reached, TimePasses
    <3> QED
      BY <3>1 DEF GiveUp, Answer, Returns
  <2> QED
    BY <1>3, <2>1
<1> HIDE DEF Inv
<1>4. CASE LateAnswers
  BY <1>4
<1>5. CASE ~LateAnswers
  <2>1. Inv /\ [Next]_vars => Inv'
    BY <1>2, <1>5
  <2> QED
    BY <1>1, <1>3, <2>1, PTL DEF Spec, OkMeansCarriedOut
<1> QED
  BY <1>4, <1>5

(***************************************************************************)
(* Tcp.  A side's sequence numbers are told by how far they are from its   *)
(* first one: the SYN is 0, the bytes are 1 to written, the FIN is one     *)
(* more, and no more than half of the numbers are ever used.               *)
(***************************************************************************)
Seqs == 0 .. SeqSpace - 1

\* What the two buffers of a connection can hold.
Buffers == {s \in Seq(Nat) : Len(s) <= TCP_BUFFER_SIZE}

Conns ==
    [state : States, snd_una : Seqs, snd_nxt : Seqs, snd_wnd : 0 .. TCP_BUFFER_SIZE,
     rcv_nxt : Seqs, tx : Buffers, rx : Buffers, armed : BOOLEAN,
     retries : 0 .. TCP_MAX_RETRIES, peer_closed : BOOLEAN, reset : BOOLEAN,
     accept_pending : BOOLEAN]

TypesOK ==
    /\ conn \in [Hosts -> Conns]
    /\ listener \in {"listen", "closed", "free"}
    /\ net \subseteq Segments
    /\ made \in [Hosts -> Nat] /\ \A h \in Hosts : made[h] <= MaxConns[h]
    /\ written \in [Hosts -> Nat] /\ \A h \in Hosts : written[h] <= MaxBytes[h]
    /\ pending \in [Hosts -> Seq(Nat)]
    /\ out \in [Hosts -> Seq(Nat)]
    /\ open \in [Hosts -> BOOLEAN]
    /\ told \in [Hosts -> BOOLEAN]

\* The bytes after the first lo, up to the hi-th.
Stretch(lo, hi) == [i \in 1 .. (hi - lo) |-> lo + i]

\* How far a sequence number of w's is from its first one.
Off(x, w) == Minus(x, Iss[w])

\* The SYN, the bytes and the FIN that w has sent.
Sent(w) == written[w] + (IF open[w] THEN 1 ELSE 2)

\* The bytes of w that the program at the other end has read.
Taken(w) == written[w] - Len(pending[w])

Alive(h) == conn[h].state # "FREE"
Conversant == {"ESTABLISHED", "FIN_WAIT_1", "FIN_WAIT_2"}

-----------------------------------------------------------------------------
(* The invariant.  c is a connection of h, or is about to be.              *)

\* Nothing has been sent but the SYN.
Unanswered(h, c) ==
    /\ c.state \in {"SYN_SENT", "SYN_RECEIVED", "CLOSED"}
    /\ Off(c.snd_una, h) = 0 /\ Off(c.snd_nxt, h) = 1
    /\ c.tx = <<>> /\ written[h] = 0 /\ open[h]

\* All that has been written has been sent, and what is not acknowledged of
\* it is kept.
Answered(h, c) ==
    /\ c.state \notin {"SYN_SENT", "SYN_RECEIVED"}
    /\ Off(c.snd_una, h) \in 1 .. Sent(h)
    /\ Off(c.snd_nxt, h) = Sent(h)
    /\ Off(c.snd_una, h) <= written[h] + 1 => c.tx = Stretch(Off(c.snd_una, h) - 1, written[h])

SendOK(h, c) ==
    /\ made[h] >= 1
    /\ Unanswered(h, c) \/ Answered(h, c)
    /\ c.state \in {"ESTABLISHED", "CLOSE_WAIT"} => open[h]

\* A segment that is not a reset.
Proper(m) == "RST" \notin m.flags

\* What w takes for acknowledged, and what is on its way to acknowledge more.
UnaUpTo(w, n) == Alive(w) => Off(conn[w].snd_una, w) <= n
AcksUpTo(w, n) == \A m \in net : m.to = w /\ Proper(m) /\ "ACK" \in m.flags => Off(m.ack, w) <= n
Silent(w) == \A m \in net : m.to = w /\ Proper(m) => "ACK" \notin m.flags

\* Nothing of w's has been acknowledged.
Untouched(w) == written[w] = 0 /\ open[w] /\ UnaUpTo(w, 0) /\ Silent(w)

\* An attempt to connect that nobody has answered.
Unheard(h, c) ==
    /\ h = Client
    /\ c.state \in {"SYN_SENT", "CLOSED"}
    /\ c.tx = <<>> /\ c.rx = <<>> /\ ~c.peer_closed
    /\ Untouched(Peer(h))

Got(h, c) == Off(c.rcv_nxt, Peer(h))
Here(h, c) == IF c.peer_closed THEN Got(h, c) - 2 ELSE Got(h, c) - 1

\* What has come, in order, is what the other side has sent first; it is in
\* the buffer or read, and no more of it has been acknowledged.
Heard(h, c) ==
    LET w == Peer(h)
    IN  /\ c.state # "SYN_SENT"
        /\ made[w] >= 1
        /\ IF c.peer_closed
           THEN /\ Got(h, c) = written[w] + 2 /\ ~open[w]
                /\ c.state \notin Conversant \cup {"SYN_RECEIVED"}
           ELSE Got(h, c) \in 1 .. written[w] + 1
        /\ c.rx = Stretch(Taken(w), Here(h, c)) /\ Taken(w) <= Here(h, c)
        /\ UnaUpTo(w, Got(h, c)) /\ AcksUpTo(w, Got(h, c))

RecvOK(h, c) == Unheard(h, c) \/ Heard(h, c)

ConnOK(h) ==
    /\ Alive(h) => SendOK(h, conn[h]) /\ RecvOK(h, conn[h])
    /\ ~Alive(h) => conn[h].tx = <<>>

\* A side that has made no connection yet has sent and acknowledged nothing.
UnmadeOK(h) ==
    made[h] = 0 => ~Alive(h) /\ written[h] = 0 /\ open[h] /\ Untouched(Peer(h))

PendingOK(w) ==
    /\ Len(pending[w]) <= written[w]
    /\ pending[w] = Stretch(Taken(w), written[w])
    /\ told[w] => pending[w] = <<>> /\ ~open[w]

\* A segment tells the truth of the side it comes from, and acknowledges
\* nothing the other side has not sent.  Bytes sent again after the other
\* side has acknowledged the FIN with them are out of every order.
SegmentOK(m) ==
    LET w == Peer(m.to)
        s == Off(m.seq, w)
        n == Len(m.data)
    IN  /\ made[w] >= 1
        /\ n > 0 => \/ s >= 1 /\ s - 1 + n <= written[w] /\ m.data = Stretch(s - 1, s - 1 + n)
                    \/ s = written[w] + 2 /\ ~open[w]
        /\ "FIN" \in m.flags => n = 0 /\ s = written[w] + 1 /\ ~open[w]
        /\ "SYN" \in m.flags => /\ n = 0 /\ s = 0 /\ "FIN" \notin m.flags
                                /\ "ACK" \in m.flags <=> w = Server
        /\ "ACK" \in m.flags => Off(m.ack, m.to) <= Sent(m.to)

\* One connection on each side, at most.
Single == \A h \in Hosts : made[h] <= 1

Core ==
    /\ \A h \in Hosts : ConnOK(h) /\ UnmadeOK(h) /\ PendingOK(h)
    /\ \A m \in net : Proper(m) => SegmentOK(m)

TcpInv == TypesOK /\ (Single => Core)

\* A side sends less than half of the sequence numbers.
Small == \A h \in Hosts : MaxBytes[h] + 2 < SeqSpace \div 2

\* A write goes out whole in its first segment.
Whole(h) ==
    written'[h] # written[h] => conn'[h].snd_nxt = Plus(conn[h].snd_nxt, written'[h] - written[h])

AllWhole == \A h \in Hosts : Whole(h)

-----------------------------------------------------------------------------
(* Sequence numbers.                                                       *)

LEMMA TcpFacts ==
    /\ SeqSpace \in Nat \ {0}
    /\ SeqSpace \div 2 \in Nat /\ 2 * (SeqSpace \div 2) = SeqSpace
    /\ \A h \in Hosts : Iss[h] \in Seqs /\ MaxBytes[h] \in Nat /\ MaxConns[h] \in Nat
    /\ \A h \in Hosts : Peer(h) \in Hosts /\ Peer(Peer(h)) = h /\ Peer(h) # h
    /\ Client \in Hosts /\ Server \in Hosts /\ Peer(Client) = Server /\ Peer(Server) = Client
    /\ \A h, g \in Hosts : g = h \/ g = Peer(h)
    /\ TCP_BUFFER_SIZE \in Nat \ {0} /\ ChunkSize \in Nat \ {0} /\ TCP_MAX_RETRIES \in Nat
BY TcpAssumption DEF Hosts, Peer, Seqs

\* A difference of two numbers that are in range.
LEMMA OneTurn ==
    ASSUME NEW x \in Seqs, NEW y \in Seqs
    PROVE  Minus(x, y) = (IF y <= x THEN x - y ELSE x - y + SeqSpace)
<1> DEFINE n == SeqSpace
<1>1. n \in Nat \ {0} /\ x \in 0 .. n - 1 /\ y \in 0 .. n - 1
  BY TcpFacts DEF Seqs
<1>2. Minus(x, y) = (x - y) % n
  BY DEF Minus
<1> HIDE DEF n
<1>3. CASE y <= x
  <2>1. x - y \in 0 .. n - 1 /\ x - y = n * 0 + (x - y)
    BY <1>1, <1>3
  <2>2. (x - y) % n = x - y
    BY <1>1, <2>1, OneRemainder, SMTT(30)
  <2> QED
    BY <1>2, <1>3, <2>2 DEF n
<1>4. CASE y > x
  <2>1. x - y + n \in 0 .. n - 1 /\ x - y = n * (-1) + (x - y + n)
    BY <1>1, <1>4
  <2>2. (x - y) % n = x - y + n
    BY <1>1, <2>1, OneRemainder, SMTT(30)
  <2> QED
    BY <1>1, <1>2, <1>4, <2>2 DEF n
<1> QED
  BY <1>1, <1>3, <1>4

LEMMA OnePlus ==
    ASSUME NEW x \in Seqs, NEW k \in 0 .. SeqSpace
    PROVE  Plus(x, k) = (IF x + k < SeqSpace THEN x + k ELSE x + k - SeqSpace)
<1> DEFINE n == SeqSpace
<1>1. n \in Nat \ {0} /\ x \in 0 .. n - 1 /\ k \in 0 .. n
  BY TcpFacts DEF Seqs
<1>2. Plus(x, k) = (x + k) % n
  BY DEF Plus
<1> HIDE DEF n
<1>3. CASE x + k < n
  <2>1. x + k \in 0 .. n - 1 /\ x + k = n * 0 + (x + k)
    BY <1>1, <1>3
  <2>2. (x + k) % n = x + k
    BY <1>1, <2>1, OneRemainder, SMTT(30)
  <2> QED
    BY <1>2, <1>3, <2>2 DEF n
<1>4. CASE x + k >= n
  <2>1. x + k - n \in 0 .. n - 1 /\ x + k = n * 1 + (x + k - n)
    BY <1>1, <1>4
  <2>2. (x + k) % n = x + k - n
    BY <1>1, <2>1, OneRemainder, SMTT(30)
  <2> QED
    BY <1>1, <1>2, <1>4, <2>2 DEF n
<1> QED
  BY <1>1, <1>3, <1>4

LEMMA PlusType ==
    ASSUME NEW x \in Seqs, NEW k \in Int
    PROVE  Plus(x, k) \in Seqs
BY TcpFacts DEF Plus, Seqs

LEMMA OffType ==
    ASSUME NEW x \in Seqs, NEW w \in Hosts
    PROVE  Off(x, w) \in Seqs
BY TcpFacts DEF Off, Minus, Seqs

\* Going on from a number adds to how far it is.
LEMMA OffPlus ==
    ASSUME NEW x \in Seqs, NEW w \in Hosts, NEW k \in Nat, Off(x, w) + k < SeqSpace
    PROVE  Off(Plus(x, k), w) = Off(x, w) + k
<1>1. Off(x, w) \in Seqs /\ Iss[w] \in Seqs /\ Plus(x, k) \in Seqs
  BY OffType, PlusType, TcpFacts
<1>2. k \in 0 .. SeqSpace
  BY <1>1, TcpFacts DEF Seqs
<1>3. Off(x, w) = (IF Iss[w] <= x THEN x - Iss[w] ELSE x - Iss[w] + SeqSpace)
  BY <1>1, OneTurn DEF Off
<1>4. Plus(x, k) = (IF x + k < SeqSpace THEN x + k ELSE x + k - SeqSpace)
  BY <1>2, OnePlus
<1>5. Off(Plus(x, k), w)
      = (IF Iss[w] <= Plus(x, k) THEN Plus(x, k) - Iss[w] ELSE Plus(x, k) - Iss[w] + SeqSpace)
  BY <1>1, OneTurn DEF Off
<1> QED
  BY <1>1, <1>2, <1>3, <1>4, <1>5, TcpFacts DEF Seqs

\* The distance of two numbers is that of how far they are.
LEMMA OffMinus ==
    ASSUME NEW x \in Seqs, NEW y \in Seqs, NEW w \in Hosts
    PROVE  Minus(x, y) = (IF Off(y, w) <= Off(x, w) THEN Off(x, w) - Off(y, w)
                          ELSE Off(x, w) - Off(y, w) + SeqSpace)
<1>1. Off(x, w) \in Seqs /\ Off(y, w) \in Seqs /\ Iss[w] \in Seqs
  BY OffType, TcpFacts
<1>2. Off(x, w) = (IF Iss[w] <= x THEN x - Iss[w] ELSE x - Iss[w] + SeqSpace)
  BY <1>1, OneTurn DEF Off
<1>3. Off(y, w) = (IF Iss[w] <= y THEN y - Iss[w] ELSE y - Iss[w] + SeqSpace)
  BY <1>1, OneTurn DEF Off
<1>4. Minus(x, y) = (IF y <= x THEN x - y ELSE x - y + SeqSpace)
  BY OneTurn
<1> QED
  BY <1>1, <1>2, <1>3, <1>4, TcpFacts DEF Seqs

\* Of what is sent, the comparison by half of the numbers says which is first.
LEMMA OffLe ==
    ASSUME NEW x \in Seqs, NEW y \in Seqs, NEW w \in Hosts,
           Off(x, w) < SeqSpace \div 2, Off(y, w) < SeqSpace \div 2
    PROVE  seq_le(x, y) <=> Off(x, w) <= Off(y, w)
<1>1. Off(x, w) \in Seqs /\ Off(y, w) \in Seqs
  BY OffType
<1>2. Minus(x, y) = (IF Off(y, w) <= Off(x, w) THEN Off(x, w) - Off(y, w)
                     ELSE Off(x, w) - Off(y, w) + SeqSpace)
  BY OffMinus
<1>3. Off(x, w) = Off(y, w) => x = y
  <2>1. HAVE Off(x, w) = Off(y, w)
  <2>2. Minus(x, y) = 0
    BY <1>1, <1>2, <2>1 DEF Seqs
  <2>3. Minus(x, y) = (IF y <= x THEN x - y ELSE x - y + SeqSpace)
    BY OneTurn
  <2> QED
    BY <2>2, <2>3, TcpFacts DEF Seqs
<1> QED
  BY <1>1, <1>2, <1>3, TcpFacts DEF seq_le, seq_lt, Seqs

\* The first connection's own number.
LEMMA FirstNumber ==
    ASSUME NEW h \in Hosts, made[h] = 0
    PROVE  /\ initial_sequence(h) \in Seqs
           /\ Off(initial_sequence(h), h) = 0
           /\ SeqSpace > 1 => Off(Plus(initial_sequence(h), 1), h) = 1
<1>1. Iss[h] \in Seqs /\ IssStep \in Nat
  BY TcpFacts, TcpAssumption
<1>2. initial_sequence(h) = Plus(Iss[h], 0)
  BY <1>1 DEF initial_sequence
<1>3. Plus(Iss[h], 0) = Iss[h]
  BY <1>1, OnePlus, TcpFacts DEF Seqs
<1>4. Off(Iss[h], h) = 0
  BY <1>1, OneTurn, TcpFacts DEF Off, Seqs
<1>5. SeqSpace > 1 => Off(Plus(Iss[h], 1), h) = 1
  BY <1>1, <1>4, OffPlus, TcpFacts
<1> QED
  BY <1>1, <1>2, <1>3, <1>4, <1>5

-----------------------------------------------------------------------------
(* Stretches of bytes.                                                     *)

LEMMA LesserOfTwo ==
    ASSUME NEW a \in Int, NEW b \in Int
    PROVE  Min({a, b}) = IF a <= b THEN a ELSE b
<1> DEFINE m == IF a <= b THEN a ELSE b
<1>1. m \in {a, b} /\ \A y \in {a, b} : m <= y
  OBVIOUS
<1>2. \A x \in {a, b} : (\A y \in {a, b} : x <= y) => x = m
  OBVIOUS
<1> QED
  BY <1>1, <1>2 DEF Min

LEMMA StretchIs ==
    ASSUME NEW lo \in Nat, NEW hi \in Int
    PROVE  /\ Stretch(lo, hi) \in Seq(Nat)
           /\ Len(Stretch(lo, hi)) = (IF lo <= hi THEN hi - lo ELSE 0)
           /\ \A i \in 1 .. hi - lo : Stretch(lo, hi)[i] = lo + i
           /\ hi <= lo => Stretch(lo, hi) = <<>>
<1> DEFINE k == IF lo <= hi THEN hi - lo ELSE 0
           s == [i \in 1 .. k |-> lo + i]
<1>1. k \in Nat /\ 1 .. k = 1 .. (hi - lo)
  OBVIOUS
<1>2. Stretch(lo, hi) = s
  BY <1>1, Zenon DEF Stretch
<1>3. s \in Seq(Nat) /\ Len(s) = k /\ \A i \in 1 .. k : s[i] = lo + i
  <2> HIDE DEF k
  <2> QED
    BY <1>1
<1>4. hi <= lo => s = <<>>
  <2>1. HAVE hi <= lo
  <2>2. k = 0
    BY <2>1
  <2> HIDE DEF s
  <2> QED
    BY <1>3, <2>2
<1> HIDE DEF s
<1> QED
  BY <1>2, <1>3, <1>4

LEMMA StretchType ==
    ASSUME NEW lo \in Nat, NEW hi \in Nat
    PROVE  Stretch(lo, hi) \in Seq(Nat)
BY StretchIs

\* Two sequences, one after the other.
LEMMA BothLen ==
    ASSUME NEW x \in Seq(Nat), NEW y \in Seq(Nat)
    PROVE  /\ x \o y \in Seq(Nat)
           /\ Len(x) \in Nat /\ Len(x \o y) = Len(x) + Len(y)
OBVIOUS

LEMMA NoStretch == Stretch(0, 0) = <<>>
<1>1. 0 \in Nat /\ 0 \in Int /\ 0 <= 0
  OBVIOUS
<1> QED
  BY <1>1, StretchIs

LEMMA StretchLen ==
    ASSUME NEW lo \in Nat, NEW hi \in Nat, lo <= hi
    PROVE  Len(Stretch(lo, hi)) = hi - lo
BY StretchIs

LEMMA StretchCat ==
    ASSUME NEW a \in Nat, NEW b \in Nat, NEW c \in Nat, a <= b, b <= c
    PROVE  Stretch(a, b) \o Stretch(b, c) = Stretch(a, c)
<1> DEFINE x == Stretch(a, b)
           y == Stretch(b, c)
           z == Stretch(a, c)
<1>a. x \in Seq(Nat) /\ Len(x) = b - a /\ \A i \in 1 .. b - a : x[i] = a + i
  BY StretchIs
<1>b. y \in Seq(Nat) /\ Len(y) = c - b /\ \A i \in 1 .. c - b : y[i] = b + i
  BY StretchIs
<1>c. a <= c
  OBVIOUS
<1>d. z \in Seq(Nat) /\ Len(z) = c - a /\ \A i \in 1 .. c - a : z[i] = a + i
  BY <1>c, StretchIs
<1> HIDE DEF x, y, z
<1>1. Len(x) \in Nat /\ Len(y) \in Nat /\ Len(z) \in Nat
  BY <1>a, <1>b, <1>d
<1>2. x \o y \in Seq(Nat) /\ Len(x \o y) = c - a
  BY <1>a, <1>b, SMTT(30)
<1>3. ASSUME NEW i \in 1 .. c - a PROVE (x \o y)[i] = z[i]
  <2>1. CASE i <= b - a
    <3>1. (x \o y)[i] = x[i] /\ i \in 1 .. b - a
      BY <1>a, <1>b, <2>1
    <3> QED
      BY <1>a, <1>d, <3>1
  <2>2. CASE i > b - a
    <3>1. i - (b - a) \in 1 .. c - b /\ b + (i - (b - a)) = a + i
      BY <2>2
    <3>2. (x \o y)[i] = y[i - (b - a)]
      BY <1>a, <1>b, <2>2, SMTT(30)
    <3>3. y[i - (b - a)] = b + (i - (b - a))
      BY <1>b, <3>1, Zenon
    <3> QED
      BY <1>d, <3>1, <3>2, <3>3
  <2>3. i <= b - a \/ i > b - a
    OBVIOUS
  <2> QED
    BY <2>1, <2>2, <2>3, Zenon
<1> DEFINE v == x \o y
<1>4. v \in Seq(Nat) /\ Len(v) = Len(z) /\ \A i \in 1 .. Len(z) : v[i] = z[i]
  BY <1>d, <1>c, <1>2, <1>3
<1> HIDE DEF v
<1>5. v = z
  BY <1>d, <1>4
<1> QED
  BY <1>5 DEF v, x, y, z

LEMMA StretchPart ==
    ASSUME NEW a \in Nat, NEW b \in Nat, NEW i \in Nat, NEW j \in Nat, i <= j, a + j <= b
    PROVE  SubSeq(Stretch(a, b), i + 1, j) = Stretch(a + i, a + j)
<1> DEFINE x == Stretch(a, b)
           y == Stretch(a + i, a + j)
           z == SubSeq(x, i + 1, j)
<1>a. a <= b /\ a + i \in Nat /\ a + j \in Int /\ a + i <= a + j /\ (a + j) - (a + i) = j - i
  OBVIOUS
<1>b. x \in Seq(Nat) /\ Len(x) = b - a /\ \A k \in 1 .. b - a : x[k] = a + k
  BY <1>a, StretchIs
<1>c. y \in Seq(Nat) /\ Len(y) = j - i /\ \A k \in 1 .. j - i : y[k] = a + i + k
  BY <1>a, StretchIs
<1> HIDE DEF x, y
<1>1. /\ x \in Seq(Nat) /\ Len(x) = b - a /\ \A k \in 1 .. b - a : x[k] = a + k
      /\ y \in Seq(Nat) /\ Len(y) = j - i /\ \A k \in 1 .. j - i : y[k] = a + i + k
  BY <1>b, <1>c
<1>2. z \in Seq(Nat) /\ Len(z) = j - i
  BY <1>1, SMTT(30)
<1>3. ASSUME NEW k \in 1 .. j - i PROVE z[k] = y[k]
  <2>1. z[k] = x[i + k] /\ i + k \in 1 .. b - a
    BY <1>1
  <2> QED
    BY <1>1, <2>1
<1> HIDE DEF z
<1>4. z = y
  BY <1>1, <1>2, <1>3
<1> QED
  BY <1>4 DEF x, y, z

\* The end of a stretch.
LEMMA StretchTail ==
    ASSUME NEW a \in Nat, NEW b \in Nat, NEW n \in Nat, a + n <= b
    PROVE  SubSeq(Stretch(a, b), n + 1, Len(Stretch(a, b))) = Stretch(a + n, b)
<1>1. Len(Stretch(a, b)) = b - a /\ b - a \in Nat /\ n <= b - a /\ a + (b - a) <= b /\ a + (b - a) = b
  BY StretchIs
<1>2. SubSeq(Stretch(a, b), n + 1, b - a) = Stretch(a + n, a + (b - a))
  BY <1>1, StretchPart, ZenonT(60)
<1> QED
  BY <1>1, <1>2

\* Its beginning.
LEMMA StretchHead ==
    ASSUME NEW a \in Nat, NEW b \in Nat, NEW n \in Nat, a + n <= b
    PROVE  SubSeq(Stretch(a, b), 1, n) = Stretch(a, a + n)
<1>1. 0 \in Nat /\ 0 <= n /\ 0 + 1 = 1 /\ a + 0 = a
  OBVIOUS
<1>2. SubSeq(Stretch(a, b), 0 + 1, n) = Stretch(a + 0, a + n)
  BY <1>1, StretchPart, ZenonT(60)
<1> QED
  BY <1>1, <1>2

-----------------------------------------------------------------------------
(* What the handlers make of a connection: its type, and what they leave.  *)

LEMMA Shorter ==
    ASSUME NEW s \in Buffers, NEW n \in Nat, n <= Len(s)
    PROVE  SubSeq(s, n + 1, Len(s)) \in Buffers /\ Len(SubSeq(s, n + 1, Len(s))) = Len(s) - n
<1>1. s \in Seq(Nat) /\ Len(s) <= TCP_BUFFER_SIZE /\ Len(s) \in Nat
  BY DEF Buffers
<1>2. SubSeq(s, n + 1, Len(s)) \in Seq(Nat) /\ Len(SubSeq(s, n + 1, Len(s))) = Len(s) - n
  BY <1>1
<1> QED
  BY <1>1, <1>2, TcpFacts DEF Buffers

LEMMA Longer ==
    ASSUME NEW s \in Buffers, NEW d \in Seq(Nat), NEW n \in Nat, n <= Len(d),
           Len(s) + n <= TCP_BUFFER_SIZE
    PROVE  s \o SubSeq(d, 1, n) \in Buffers
<1>1. s \in Seq(Nat) /\ Len(s) \in Nat
  BY DEF Buffers
<1>2. SubSeq(d, 1, n) \in Seq(Nat) /\ Len(SubSeq(d, 1, n)) = n
  OBVIOUS
<1>3. s \o SubSeq(d, 1, n) \in Seq(Nat) /\ Len(s \o SubSeq(d, 1, n)) = Len(s) + n
  BY <1>1, <1>2, SMTT(30)
<1> QED
  BY <1>3 DEF Buffers

LEMMA FreeType == free_conn \in Conns
<1>1. <<>> \in Buffers /\ 0 \in Seqs /\ 0 \in 0 .. TCP_BUFFER_SIZE /\ 0 \in 0 .. TCP_MAX_RETRIES
  BY TcpFacts DEF Buffers, Seqs
<1> QED
  BY <1>1 DEF free_conn, Conns, States

LEMMA OpenedType ==
    ASSUME NEW h \in Hosts, made[h] \in Nat, NEW st \in States, NEW n \in Seqs, NEW wnd \in 0 .. TCP_BUFFER_SIZE
    PROVE  Opened(h, st, n, wnd) \in Conns
<1>1. initial_sequence(h) \in Seqs
  <2>1. Iss[h] \in Seqs /\ made[h] * IssStep \in Int
    BY TcpFacts, TcpAssumption
  <2> QED
    BY <2>1, PlusType DEF initial_sequence
<1>2. Plus(initial_sequence(h), 1) \in Seqs
  BY <1>1, PlusType
<1> QED
  BY <1>1, <1>2, FreeType DEF Opened, Conns

LEMMA SegmentType ==
    ASSUME NEW h \in Hosts, NEW c \in Conns, NEW f \in SUBSET {"SYN", "ACK", "FIN", "RST"},
           NEW s \in Seqs, NEW d \in Seq(Nat)
    PROVE  send_segment(h, c, f, s, d) \in Segments
<1>1. rx_free(c) \in 0 .. TCP_BUFFER_SIZE
  <2>1. c.rx \in Seq(Nat) /\ Len(c.rx) <= TCP_BUFFER_SIZE
    BY DEF Conns, Buffers
  <2> QED
    BY <2>1, TcpFacts DEF rx_free
<1>2. c.rcv_nxt \in Seqs /\ Peer(h) \in Hosts
  BY TcpFacts DEF Conns
<1> QED
  BY <1>1, <1>2 DEF send_segment, Segments, Seqs

LEMMA ResetType ==
    ASSUME NEW m \in Segments
    PROVE  send_reset(m) \in Segments /\ ~Proper(send_reset(m))
<1>1. /\ m.to \in Hosts /\ m.seq \in Seqs /\ m.ack \in Seqs /\ m.data \in Seq(Nat)
      /\ Peer(m.to) \in Hosts /\ 0 \in Seqs /\ 0 \in 0 .. TCP_BUFFER_SIZE
  BY TcpFacts DEF Segments, Seqs
<1> DEFINE k == Len(m.data) + IF "SYN" \in m.flags THEN 1 ELSE 0
<1>2. k \in Int
  BY <1>1
<1>3. Plus(m.seq, k) \in Seqs
  BY <1>1, <1>2, PlusType
<1> QED
  BY <1>1, <1>3 DEF send_reset, Segments, Seqs, Proper

LEMMA AckShape ==
    ASSUME NEW c \in Conns, NEW m \in Segments
    PROVE  LET k == AckArrives(c, m)
           IN  /\ k \in Conns
               /\ k.state = c.state /\ k.snd_nxt = c.snd_nxt /\ k.rcv_nxt = c.rcv_nxt
               /\ k.rx = c.rx /\ k.peer_closed = c.peer_closed
<1> DEFINE acked == Minus(m.ack, c.snd_una)
           inside == seq_le(c.snd_una, m.ack) /\ seq_le(m.ack, c.snd_nxt)
           tx == IF inside /\ acked <= Len(c.tx) THEN SubSeq(c.tx, acked + 1, Len(c.tx)) ELSE c.tx
           una == IF inside THEN m.ack ELSE c.snd_una
           retries == IF inside THEN 0 ELSE c.retries
           d == [c EXCEPT !.snd_wnd = m.wnd, !.tx = tx, !.snd_una = una, !.retries = retries]
<1>1. /\ m.ack \in Seqs /\ m.wnd \in 0 .. TCP_BUFFER_SIZE
      /\ c.snd_una \in Seqs /\ c.tx \in Buffers /\ c.retries \in 0 .. TCP_MAX_RETRIES
  BY DEF Segments, Seqs, Conns
<1>2. acked \in Nat
  BY <1>1, TcpFacts DEF Minus, Seqs
<1> HIDE DEF acked, inside
<1>3. tx \in Buffers
  BY <1>1, <1>2, Shorter
<1>4. una \in Seqs /\ retries \in 0 .. TCP_MAX_RETRIES
  BY <1>1, TcpFacts
<1>5. AckArrives(c, m) = IF "ACK" \notin m.flags THEN c ELSE d
  BY DEF AckArrives, acked, inside
<1> HIDE DEF tx, una, retries
<1>6. /\ d \in Conns
      /\ d.state = c.state /\ d.snd_nxt = c.snd_nxt /\ d.rcv_nxt = c.rcv_nxt
      /\ d.rx = c.rx /\ d.peer_closed = c.peer_closed
  BY <1>1, <1>3, <1>4 DEF Conns
<1> HIDE DEF d
<1> QED
  BY <1>5, <1>6

LEMMA DeliverShape ==
    ASSUME NEW c \in Conns, NEW data \in Seq(Nat)
    PROVE  LET k == deliver(c, data)
               n == Min({Len(data), rx_free(c)})
           IN  /\ k \in Conns
               /\ k.state = c.state /\ k.snd_nxt = c.snd_nxt /\ k.snd_una = c.snd_una
               /\ k.tx = c.tx /\ k.peer_closed = c.peer_closed
               /\ n \in Nat /\ n <= Len(data)
               /\ k.rx = c.rx \o SubSeq(data, 1, n) /\ k.rcv_nxt = Plus(c.rcv_nxt, n)
<1> DEFINE n == Min({Len(data), rx_free(c)})
<1>1. c.rx \in Buffers /\ Len(c.rx) \in Nat /\ Len(c.rx) <= TCP_BUFFER_SIZE /\ c.rcv_nxt \in Seqs
  BY DEF Conns, Buffers
<1>2. rx_free(c) \in Nat /\ Len(data) \in Nat /\ Len(c.rx) + rx_free(c) = TCP_BUFFER_SIZE
  BY <1>1, TcpFacts DEF rx_free
<1>3. n = IF Len(data) <= rx_free(c) THEN Len(data) ELSE rx_free(c)
  BY <1>2, LesserOfTwo
<1>4. n \in Nat /\ n <= Len(data) /\ Len(c.rx) + n <= TCP_BUFFER_SIZE
  BY <1>1, <1>2, <1>3, TcpFacts
<1>5. deliver(c, data) = [c EXCEPT !.rx = c.rx \o SubSeq(data, 1, n), !.rcv_nxt = Plus(c.rcv_nxt, n)]
  BY DEF deliver
<1> HIDE DEF n
<1>a. c.rx \o SubSeq(data, 1, n) \in Buffers
  BY <1>1, <1>4, Longer
<1>b. Plus(c.rcv_nxt, n) \in Seqs
  BY <1>1, <1>4, PlusType
<1>6. c.rx \o SubSeq(data, 1, n) \in Buffers /\ Plus(c.rcv_nxt, n) \in Seqs
  BY <1>a, <1>b
<1>7. deliver(c, data) \in Conns
  BY <1>5, <1>6 DEF Conns
<1>8. /\ deliver(c, data).rx = c.rx \o SubSeq(data, 1, n)
      /\ deliver(c, data).rcv_nxt = Plus(c.rcv_nxt, n)
      /\ deliver(c, data).state = c.state /\ deliver(c, data).snd_nxt = c.snd_nxt
      /\ deliver(c, data).snd_una = c.snd_una /\ deliver(c, data).tx = c.tx
      /\ deliver(c, data).peer_closed = c.peer_closed
  BY <1>5 DEF Conns
<1> QED
  BY <1>4, <1>7, <1>8 DEF n

LEMMA DataShape ==
    ASSUME NEW c \in Conns, NEW m \in Segments
    PROVE  LET k == DataArrives(c, m)
           IN  /\ k \in Conns
               /\ k.state = c.state /\ k.snd_nxt = c.snd_nxt /\ k.snd_una = c.snd_una
               /\ k.tx = c.tx /\ k.peer_closed = c.peer_closed
<1>1. m.data \in Seq(Nat)
  BY DEF Segments
<1>2. CASE m.data # <<>> /\ m.seq = c.rcv_nxt
  <2> DEFINE k == deliver(c, m.data)
  <2>1. DataArrives(c, m) = k
    BY <1>2 DEF DataArrives
  <2>2. /\ k \in Conns
        /\ k.state = c.state /\ k.snd_nxt = c.snd_nxt /\ k.snd_una = c.snd_una
        /\ k.tx = c.tx /\ k.peer_closed = c.peer_closed
    BY <1>1, DeliverShape
  <2> QED
    BY <2>1, <2>2
<1>3. CASE ~(m.data # <<>> /\ m.seq = c.rcv_nxt)
  BY <1>3 DEF DataArrives
<1> QED
  BY <1>2, <1>3

\* A FIN in order, the acknowledgement of ours, or neither.
LEMMA FinShape ==
    ASSUME NEW c \in Conns, NEW m \in Segments, c.state \in Conversant
    PROVE  LET k == FinArrives(c, m)
           IN  /\ k \in Conns
               /\ k.snd_nxt = c.snd_nxt /\ k.snd_una = c.snd_una /\ k.tx = c.tx /\ k.rx = c.rx
               /\ \/ /\ "FIN" \in m.flags /\ m.seq = c.rcv_nxt
                     /\ k.rcv_nxt = Plus(c.rcv_nxt, 1) /\ k.peer_closed = TRUE
                     /\ k.state \in {"CLOSE_WAIT", "TIME_WAIT"}
                     /\ k.state = "CLOSE_WAIT" <=> c.state = "ESTABLISHED"
                  \/ /\ k.rcv_nxt = c.rcv_nxt /\ k.peer_closed = c.peer_closed
                     /\ k.state = c.state \/ (k.state = "FIN_WAIT_2" /\ c.state = "FIN_WAIT_1")
<1>1. c.rcv_nxt \in Seqs /\ c.state \in States /\ Plus(c.rcv_nxt, 1) \in Seqs
  BY PlusType DEF Conns
<1>2. CASE "FIN" \in m.flags /\ m.seq = c.rcv_nxt
  <2> DEFINE st == IF c.state = "ESTABLISHED" THEN "CLOSE_WAIT" ELSE "TIME_WAIT"
  <2>1. FinArrives(c, m) = [c EXCEPT !.rcv_nxt = Plus(c.rcv_nxt, 1), !.peer_closed = TRUE, !.state = st]
    BY <1>2 DEF FinArrives
  <2>2. st \in States /\ st \in {"CLOSE_WAIT", "TIME_WAIT"} /\ (st = "CLOSE_WAIT" <=> c.state = "ESTABLISHED")
    BY DEF States
  <2> HIDE DEF st
  <2>3. FinArrives(c, m) \in Conns
    BY <1>1, <2>1, <2>2 DEF Conns
  <2> QED
    BY <1>2, <2>1, <2>2, <2>3 DEF Conns
<1>3. CASE ~("FIN" \in m.flags /\ m.seq = c.rcv_nxt)
  <2>1. \/ FinArrives(c, m) = c
        \/ c.state = "FIN_WAIT_1" /\ FinArrives(c, m) = [c EXCEPT !.state = "FIN_WAIT_2"]
    BY <1>3 DEF FinArrives
  <2> QED
    BY <2>1 DEF Conns, States
<1> QED
  BY <1>2, <1>3

-----------------------------------------------------------------------------
(* What the handlers keep of the invariant.                                *)

LEMMA SentBound ==
    ASSUME Small, TypesOK, NEW h \in Hosts
    PROVE  /\ written[h] \in Nat /\ open[h] \in BOOLEAN
           /\ Sent(h) \in Nat /\ Sent(h) < SeqSpace \div 2 /\ Sent(h) < SeqSpace
           /\ Sent(h) \in {written[h] + 1, written[h] + 2}
           /\ open[h] <=> Sent(h) = written[h] + 1
           /\ written[h] + 2 < SeqSpace \div 2 /\ written[h] + 2 < SeqSpace
<1>1. /\ written[h] \in Nat /\ open[h] \in BOOLEAN /\ written[h] <= MaxBytes[h]
      /\ MaxBytes[h] \in Nat /\ MaxBytes[h] + 2 < SeqSpace \div 2
      /\ SeqSpace \div 2 \in Nat /\ 2 * (SeqSpace \div 2) = SeqSpace
  BY TcpFacts DEF TypesOK, Small
<1> QED
  BY <1>1 DEF Sent

\* What a connection that has heard the other side has got of it.
LEMMA HeardBound ==
    ASSUME Small, TypesOK, NEW h \in Hosts, NEW c \in Conns, Heard(h, c)
    PROVE  /\ Got(h, c) \in 1 .. Sent(Peer(h))
           /\ Here(h, c) \in 0 .. written[Peer(h)]
           /\ Taken(Peer(h)) \in Int
           /\ c.peer_closed \in BOOLEAN
<1>1. Peer(h) \in Hosts
  BY TcpFacts
<1>2. /\ written[Peer(h)] \in Nat /\ open[Peer(h)] \in BOOLEAN
      /\ Sent(Peer(h)) \in {written[Peer(h)] + 1, written[Peer(h)] + 2}
      /\ open[Peer(h)] <=> Sent(Peer(h)) = written[Peer(h)] + 1
  BY <1>1, SentBound
<1>3. Len(pending[Peer(h)]) \in Nat
  BY <1>1 DEF TypesOK
<1>4. c.peer_closed \in BOOLEAN
  BY DEF Conns
<1> QED
  BY <1>2, <1>3, <1>4 DEF Heard, Here, Taken

\* A segment sent by a connection that has heard the other side.
LEMMA SentSegment ==
    ASSUME Small, TypesOK, NEW h \in Hosts, NEW c \in Conns, Heard(h, c), made[h] >= 1,
           NEW f \in SUBSET {"SYN", "ACK", "FIN"}, NEW s \in Seqs, NEW d \in Seq(Nat),
           Len(d) > 0 => \/ Off(s, h) >= 1 /\ Off(s, h) - 1 + Len(d) <= written[h]
                            /\ d = Stretch(Off(s, h) - 1, Off(s, h) - 1 + Len(d))
                         \/ Off(s, h) = written[h] + 2 /\ ~open[h],
           "FIN" \in f => Len(d) = 0 /\ Off(s, h) = written[h] + 1 /\ ~open[h],
           "SYN" \in f => /\ Len(d) = 0 /\ Off(s, h) = 0 /\ "FIN" \notin f
                          /\ "ACK" \in f <=> h = Server
    PROVE  LET m == send_segment(h, c, f, s, d)
           IN  /\ m \in Segments /\ m.to = Peer(h) /\ Proper(m) /\ SegmentOK(m)
               /\ Off(m.ack, Peer(h)) = Got(h, c)
<1> DEFINE m == send_segment(h, c, f, s, d)
<1>1. m \in Segments
  <2>1. f \in SUBSET {"SYN", "ACK", "FIN", "RST"}
    OBVIOUS
  <2> QED
    BY <2>1, SegmentType
<1>2. m.to = Peer(h) /\ m.flags = f /\ m.seq = s /\ m.data = d /\ m.ack = c.rcv_nxt
  BY DEF send_segment
<1> HIDE DEF m
<1>3. Proper(m)
  BY <1>2 DEF Proper
<1>4. Peer(Peer(h)) = h
  BY TcpFacts
<1>5. Off(m.ack, Peer(h)) = Got(h, c) /\ Got(h, c) <= Sent(Peer(h))
  BY <1>2, HeardBound DEF Got
<1>6. SegmentOK(m)
  BY <1>2, <1>4, <1>5 DEF SegmentOK
<1> QED
  BY <1>1, <1>2, <1>3, <1>5, <1>6 DEF m

\* An acknowledgement takes out of the buffer what it acknowledges.
LEMMA AckKeeps ==
    ASSUME Small, TypesOK, NEW h \in Hosts, NEW c \in Conns, NEW m \in Segments,
           m.to = h, SegmentOK(m), SendOK(h, c), c.state \in Conversant
    PROVE  LET k == AckArrives(c, m)
           IN  /\ SendOK(h, k)
               /\ k.snd_una = c.snd_una \/ ("ACK" \in m.flags /\ k.snd_una = m.ack)
<1> DEFINE k == AckArrives(c, m)
           u == Off(c.snd_una, h)
           a == Off(m.ack, h)
<1>1. /\ k \in Conns /\ k.state = c.state /\ k.snd_nxt = c.snd_nxt
      /\ k.rx = c.rx /\ k.peer_closed = c.peer_closed
  BY AckShape
<1>2. CASE "ACK" \notin m.flags
  <2>1. k = c
    BY <1>2 DEF AckArrives
  <2> HIDE DEF k
  <2> QED
    BY <2>1 DEF k
<1>3. CASE "ACK" \in m.flags
  <2>1. Answered(h, c) /\ made[h] >= 1 /\ (c.state = "ESTABLISHED" => open[h])
    BY DEF SendOK, Unanswered, Conversant
  <2>2. /\ written[h] \in Nat /\ Sent(h) \in {written[h] + 1, written[h] + 2}
        /\ Sent(h) < SeqSpace \div 2
    BY SentBound
  <2>3. u \in 1 .. Sent(h) /\ Off(c.snd_nxt, h) = Sent(h)
        /\ (u <= written[h] + 1 => c.tx = Stretch(u - 1, written[h]))
    BY <2>1 DEF Answered
  <2>4. m.ack \in Seqs /\ c.snd_una \in Seqs /\ c.snd_nxt \in Seqs
    BY DEF Segments, Seqs, Conns
  <2>5. a \in Nat /\ a <= Sent(h)
    <3>1. a \in Seqs
      BY <2>4, OffType
    <3> QED
      BY <1>3, <3>1 DEF SegmentOK, Seqs
  <2> HIDE DEF u, a, k
  <2>6. seq_le(c.snd_una, m.ack) <=> u <= a
    <3>1. Off(c.snd_una, h) < SeqSpace \div 2 /\ Off(m.ack, h) < SeqSpace \div 2
      BY <2>2, <2>3, <2>5, TcpFacts DEF u, a
    <3> QED
      BY <2>4, <3>1, OffLe DEF u, a
  <2>7. seq_le(m.ack, c.snd_nxt)
    <3>1. Off(c.snd_nxt, h) < SeqSpace \div 2 /\ Off(m.ack, h) < SeqSpace \div 2
      BY <2>2, <2>3, <2>5, TcpFacts DEF u, a
    <3>2. seq_le(m.ack, c.snd_nxt) <=> Off(m.ack, h) <= Off(c.snd_nxt, h)
      BY <2>4, <3>1, OffLe
    <3> QED
      BY <2>3, <2>5, <3>2 DEF a
  <2>8. CASE ~(u <= a)
    <3>1. k.snd_una = c.snd_una /\ k.tx = c.tx
      BY <1>3, <2>6, <2>8 DEF AckArrives, Conns, k
    <3>2. SendOK(h, k)
      BY <1>1, <3>1, <2>1, <2>3 DEF SendOK, Answered, u, Conversant, k
    <3> QED
      BY <3>1, <3>2 DEF k
  <2>9. CASE u <= a
    <3>1. Minus(m.ack, c.snd_una) = a - u
      BY <2>4, <2>9, OffMinus DEF a, u
    <3>2. /\ k.snd_una = m.ack
          /\ k.tx = IF a - u <= Len(c.tx) THEN SubSeq(c.tx, a - u + 1, Len(c.tx)) ELSE c.tx
      BY <1>3, <2>6, <2>7, <2>9, <3>1 DEF AckArrives, Conns, k
    <3>3. a \in 1 .. Sent(h)
      BY <2>3, <2>5, <2>9
    <3>4. a <= written[h] + 1 => k.tx = Stretch(a - 1, written[h])
      <4>1. HAVE a <= written[h] + 1
      <4>2. u - 1 \in Nat /\ a - u \in Nat /\ (u - 1) + (a - u) <= written[h] /\ (u - 1) + (a - u) = a - 1
        BY <2>2, <2>3, <2>5, <2>9, <4>1
      <4>a. u - 1 <= written[h] /\ u <= written[h] + 1
        BY <2>2, <2>3, <2>5, <2>9, <4>1
      <4>b. Len(Stretch(u - 1, written[h])) = written[h] - (u - 1)
        <5> DEFINE lo == u - 1
                   hi == written[h]
        <5>1. lo \in Nat /\ hi \in Int /\ lo <= hi
          BY <2>2, <4>2, <4>a
        <5> HIDE DEF lo, hi
        <5>2. Len(Stretch(lo, hi)) = hi - lo
          BY <5>1, StretchIs
        <5> QED
          BY <5>2 DEF lo, hi
      <4>3. c.tx = Stretch(u - 1, written[h]) /\ Len(c.tx) = written[h] - (u - 1)
        BY <2>3, <4>a, <4>b
      <4>4. SubSeq(Stretch(u - 1, written[h]), a - u + 1, Len(Stretch(u - 1, written[h])))
            = Stretch((u - 1) + (a - u), written[h])
        BY <2>2, <4>2, StretchTail
      <4>5. k.tx = SubSeq(c.tx, a - u + 1, Len(c.tx))
        <5>1. a - u <= Len(c.tx)
          BY <2>2, <2>3, <2>5, <4>1, <4>3
        <5> QED
          BY <3>2, <5>1
      <4> QED
        BY <4>2, <4>3, <4>4, <4>5
    <3>5. SendOK(h, k)
      BY <1>1, <2>1, <2>3, <3>2, <3>3, <3>4 DEF SendOK, Answered, a, Conversant
    <3> QED
      BY <1>3, <3>2, <3>5 DEF k
  <2> QED
    BY <2>8, <2>9
<1> QED
  BY <1>2, <1>3

\* Data in order goes after what has come.
LEMMA DataKeeps ==
    ASSUME Small, TypesOK, NEW h \in Hosts, NEW c \in Conns, NEW m \in Segments,
           m.to = h, SegmentOK(m), Heard(h, c), c.state \in Conversant, PendingOK(Peer(h))
    PROVE  LET k == DataArrives(c, m)
           IN  Heard(h, k) /\ Got(h, c) <= Got(h, k)
<1> DEFINE k == DataArrives(c, m)
           w == Peer(h)
<1>1. CASE ~(m.data # <<>> /\ m.seq = c.rcv_nxt)
  <2>1. k = c
    BY <1>1 DEF DataArrives
  <2>2. Got(h, c) \in Int
    BY HeardBound
  <2> HIDE DEF k
  <2> QED
    BY <2>1, <2>2 DEF k
<1>2. CASE m.data # <<>> /\ m.seq = c.rcv_nxt
  <2> DEFINE n == Min({Len(m.data), rx_free(c)})
             g == Got(h, c)
  <2>1. m.data \in Seq(Nat) /\ Len(m.data) \in Nat /\ Len(m.data) > 0
    BY <1>2 DEF Segments
  <2>2. k = deliver(c, m.data)
    BY <1>2 DEF DataArrives
  <2>3. /\ deliver(c, m.data) \in Conns
        /\ deliver(c, m.data).state = c.state /\ deliver(c, m.data).peer_closed = c.peer_closed
        /\ n \in Nat /\ n <= Len(m.data)
        /\ deliver(c, m.data).rx = c.rx \o SubSeq(m.data, 1, n)
        /\ deliver(c, m.data).rcv_nxt = Plus(c.rcv_nxt, n)
    BY <2>1, DeliverShape
  <2> HIDE DEF n, k
  <2>4. w \in Hosts /\ Peer(w) = h /\ written[w] \in Nat /\ written[w] + 2 < SeqSpace
        /\ c.rcv_nxt \in Seqs
    BY TcpFacts, SentBound DEF Conns
  <2>5. ~c.peer_closed /\ g \in 1 .. written[w] + 1
    BY DEF Heard
  <2>6. /\ c.rx = Stretch(Taken(w), g - 1) /\ Taken(w) <= g - 1 /\ made[w] >= 1
        /\ UnaUpTo(w, g) /\ AcksUpTo(w, g)
    BY <2>5 DEF Heard, Here
  <2>7. Taken(w) \in Nat
    BY <2>4 DEF PendingOK, Taken, TypesOK
  <2>8. Off(m.seq, w) = g
    BY <1>2 DEF Got
  <2>9. g - 1 + Len(m.data) <= written[w] /\ m.data = Stretch(g - 1, g - 1 + Len(m.data))
    BY <2>1, <2>4, <2>5, <2>8 DEF SegmentOK
  <2>10. SubSeq(m.data, 1, n) = Stretch(g - 1, g - 1 + n)
    <3>1. g - 1 \in Nat /\ g - 1 + Len(m.data) \in Nat /\ (g - 1) + n <= g - 1 + Len(m.data)
      BY <2>1, <2>3, <2>4, <2>5, SMTT(30)
    <3>2. SubSeq(Stretch(g - 1, g - 1 + Len(m.data)), 1, n) = Stretch(g - 1, (g - 1) + n)
      BY <2>3, <3>1, StretchHead
    <3> QED
      BY <2>9, <3>1, <3>2
  <2>11. k.rx = Stretch(Taken(w), g - 1 + n)
    <3>1. g - 1 \in Nat /\ g - 1 + n \in Nat /\ g - 1 <= g - 1 + n
      BY <2>3, <2>4, <2>5
    <3>2. Stretch(Taken(w), g - 1) \o Stretch(g - 1, g - 1 + n) = Stretch(Taken(w), g - 1 + n)
      BY <2>6, <2>7, <3>1, StretchCat
    <3> QED
      BY <2>2, <2>3, <2>6, <2>10, <3>2
  <2>12. Got(h, k) = g + n
    <3>0. g + n < SeqSpace
      BY <2>1, <2>3, <2>4, <2>5, <2>9, TcpFacts, SMTT(30)
    <3>1. Off(c.rcv_nxt, w) = g /\ g + n < SeqSpace
      BY <3>0 DEF Got
    <3>2. Off(Plus(c.rcv_nxt, n), w) = g + n
      BY <2>3, <2>4, <3>1, OffPlus
    <3> QED
      BY <2>2, <2>3, <3>2 DEF Got
  <2> HIDE DEF g
  <2>13. g + n \in 1 .. written[w] + 1 /\ g <= g + n /\ g \in Int /\ n \in Int
    BY <2>1, <2>3, <2>4, <2>5, <2>9
  <2>14. UnaUpTo(w, g + n) /\ AcksUpTo(w, g + n)
    <3>1. Off(conn[w].snd_una, w) \in Int
      <4>1. conn[w].snd_una \in Seqs
        BY <2>4 DEF TypesOK, Conns
      <4> QED
        BY <2>4, <4>1, OffType DEF Seqs
    <3>2. \A s \in net : Off(s.ack, w) \in Int
      <4>1. \A s \in net : s.ack \in Seqs
        BY DEF TypesOK, Segments, Seqs
      <4> QED
        BY <2>4, <4>1, OffType DEF Seqs
    <3> QED
      BY <2>6, <2>13, <3>1, <3>2 DEF UnaUpTo, AcksUpTo
  <2>15. Heard(h, k)
    <3>1. Here(h, k) = g - 1 + n
      BY <2>2, <2>3, <2>5, <2>12, <2>13 DEF Here
    <3>2. k.state = c.state /\ c.state # "SYN_SENT" /\ ~k.peer_closed
      BY <2>2, <2>3, <2>5 DEF Conversant
    <3> QED
      BY <2>4, <2>6, <2>7, <2>11, <2>12, <2>13, <2>14, <3>1, <3>2 DEF Heard
  <2> QED
    BY <2>12, <2>13, <2>15 DEF g, k
<1> QED
  BY <1>1, <1>2

\* So does a FIN in order, and the acknowledgement of ours changes nothing.
LEMMA FinKeeps ==
    ASSUME Small, TypesOK, NEW h \in Hosts, NEW c \in Conns, NEW m \in Segments,
           m.to = h, SegmentOK(m), Heard(h, c), SendOK(h, c), c.state \in Conversant
    PROVE  LET k == FinArrives(c, m)
           IN  Heard(h, k) /\ SendOK(h, k) /\ Got(h, c) <= Got(h, k)
<1> DEFINE k == FinArrives(c, m)
           w == Peer(h)
           g == Got(h, c)
<1>1. /\ k \in Conns
      /\ k.snd_nxt = c.snd_nxt /\ k.snd_una = c.snd_una /\ k.tx = c.tx /\ k.rx = c.rx
      /\ \/ /\ "FIN" \in m.flags /\ m.seq = c.rcv_nxt
            /\ k.rcv_nxt = Plus(c.rcv_nxt, 1) /\ k.peer_closed = TRUE
            /\ k.state \in {"CLOSE_WAIT", "TIME_WAIT"}
            /\ k.state = "CLOSE_WAIT" <=> c.state = "ESTABLISHED"
         \/ /\ k.rcv_nxt = c.rcv_nxt /\ k.peer_closed = c.peer_closed
            /\ k.state = c.state \/ (k.state = "FIN_WAIT_2" /\ c.state = "FIN_WAIT_1")
  BY FinShape
<1> HIDE DEF k
<1>2. w \in Hosts /\ Peer(w) = h /\ written[w] \in Nat /\ written[w] + 2 < SeqSpace /\ c.rcv_nxt \in Seqs
  BY TcpFacts, SentBound DEF Conns
<1>3. ~c.peer_closed /\ g \in 1 .. written[w] + 1
  BY DEF Heard
<1>4. /\ c.rx = Stretch(Taken(w), g - 1) /\ Taken(w) <= g - 1 /\ made[w] >= 1
      /\ UnaUpTo(w, g) /\ AcksUpTo(w, g)
  BY <1>3 DEF Heard, Here
<1>5. SendOK(h, k)
  <2>1. k.state \in States /\ k.state \notin {"SYN_SENT", "SYN_RECEIVED"}
        /\ (k.state \in {"ESTABLISHED", "CLOSE_WAIT"} => c.state = "ESTABLISHED")
    BY <1>1 DEF Conversant, Conns
  <2>2. Answered(h, c) /\ made[h] >= 1 /\ (c.state = "ESTABLISHED" => open[h])
    BY DEF SendOK, Unanswered, Conversant
  <2>3. Answered(h, k)
    BY <1>1, <2>1, <2>2 DEF Answered
  <2> QED
    BY <2>1, <2>2, <2>3 DEF SendOK
<1>6. CASE /\ k.rcv_nxt = c.rcv_nxt /\ k.peer_closed = c.peer_closed
           /\ k.state = c.state \/ (k.state = "FIN_WAIT_2" /\ c.state = "FIN_WAIT_1")
  <2>1. Got(h, k) = g /\ Here(h, k) = g - 1 /\ ~k.peer_closed /\ k.state # "SYN_SENT" /\ k.rx = c.rx
    BY <1>1, <1>3, <1>6 DEF Got, Here, Conversant
  <2> HIDE DEF g
  <2>2. Heard(h, k)
    BY <1>3, <1>4, <2>1 DEF Heard
  <2> QED
    BY <1>3, <1>5, <2>1, <2>2 DEF k, g
<1>7. CASE /\ "FIN" \in m.flags /\ m.seq = c.rcv_nxt
           /\ k.rcv_nxt = Plus(c.rcv_nxt, 1) /\ k.peer_closed = TRUE
           /\ k.state \in {"CLOSE_WAIT", "TIME_WAIT"}
           /\ k.state = "CLOSE_WAIT" <=> c.state = "ESTABLISHED"
  <2>1. Off(m.seq, w) = g /\ Off(c.rcv_nxt, w) = g
    BY <1>7 DEF Got
  <2>2. g = written[w] + 1 /\ ~open[w]
    BY <1>7, <2>1 DEF SegmentOK
  <2>3. Got(h, k) = g + 1
    <3>1. g + 1 < SeqSpace
      BY <1>2, <2>2, TcpFacts
    <3>2. Off(Plus(c.rcv_nxt, 1), w) = g + 1
      BY <1>2, <2>1, <3>1, OffPlus
    <3> QED
      BY <1>7, <3>2 DEF Got
  <2>4. Here(h, k) = g - 1 /\ k.rx = c.rx /\ k.state \notin Conversant \cup {"SYN_RECEIVED", "SYN_SENT"}
    BY <1>1, <1>3, <1>7, <2>3 DEF Here, Conversant
  <2> HIDE DEF g
  <2>5. UnaUpTo(w, g + 1) /\ AcksUpTo(w, g + 1)
    <3>1. Off(conn[w].snd_una, w) \in Int
      <4>1. conn[w].snd_una \in Seqs
        BY <1>2 DEF TypesOK, Conns
      <4> QED
        BY <1>2, <4>1, OffType DEF Seqs
    <3>2. \A s \in net : Off(s.ack, w) \in Int
      <4>1. \A s \in net : s.ack \in Seqs
        BY DEF TypesOK, Segments, Seqs
      <4> QED
        BY <1>2, <4>1, OffType DEF Seqs
    <3> QED
      BY <1>3, <1>4, <3>1, <3>2 DEF UnaUpTo, AcksUpTo
  <2>6. Heard(h, k)
    BY <1>2, <1>3, <1>4, <1>7, <2>2, <2>3, <2>4, <2>5 DEF Heard
  <2> QED
    BY <1>2, <1>3, <1>5, <2>2, <2>3, <2>6 DEF k, g
<1> QED
  BY <1>1, <1>6, <1>7

\* What a connection may become in a step of its side's, and what may be
\* sent for it: what the other side relies on.
Moves(h, k) ==
    IF k.state = "FREE" THEN k.tx = <<>>
    ELSE /\ Alive(h) /\ SendOK(h, k) /\ RecvOK(h, k)
         /\ \/ k.snd_una = conn[h].snd_una
            \/ \E m \in net : m.to = h /\ Proper(m) /\ "ACK" \in m.flags /\ k.snd_una = m.ack

Sendable(h, k, m) ==
    Proper(m) => /\ m.to = Peer(h) /\ SegmentOK(m)
                 /\ "ACK" \in m.flags => Heard(h, k) /\ Off(m.ack, Peer(h)) <= Got(h, k)

\* Acknowledgements go out for what has come.
LEMMA PlainAck ==
    ASSUME Small, TypesOK, NEW h \in Hosts, NEW c \in Conns, Heard(h, c), made[h] >= 1,
           NEW k \in Conns, Heard(h, k), Got(h, c) <= Got(h, k)
    PROVE  LET m == send_segment(h, c, {"ACK"}, c.snd_nxt, <<>>)
           IN  m \in Segments /\ Sendable(h, k, m)
<1> DEFINE f == {"ACK"}
           d == <<>>
           s == c.snd_nxt
           m == send_segment(h, c, f, s, d)
<1>1. s \in Seqs /\ d \in Seq(Nat) /\ Len(d) = 0 /\ f \in SUBSET {"SYN", "ACK", "FIN"}
      /\ "FIN" \notin f /\ "SYN" \notin f
  BY DEF Conns
<1> HIDE DEF f, d, s
<1>a. Len(d) > 0 => \/ Off(s, h) >= 1 /\ Off(s, h) - 1 + Len(d) <= written[h]
                       /\ d = Stretch(Off(s, h) - 1, Off(s, h) - 1 + Len(d))
                    \/ Off(s, h) = written[h] + 2 /\ ~open[h]
  BY <1>1
<1>b. "FIN" \in f => Len(d) = 0 /\ Off(s, h) = written[h] + 1 /\ ~open[h]
  BY <1>1
<1>c. "SYN" \in f => /\ Len(d) = 0 /\ Off(s, h) = 0 /\ "FIN" \notin f
                     /\ "ACK" \in f <=> h = Server
  BY <1>1
<1>2. m \in Segments /\ m.to = Peer(h) /\ Proper(m) /\ SegmentOK(m) /\ Off(m.ack, Peer(h)) = Got(h, c)
  BY <1>1, <1>a, <1>b, <1>c, SentSegment, Zenon
<1> USE DEF f, d, s
<1> QED
  BY <1>2 DEF Sendable

LEMMA ConversingKeeps ==
    ASSUME Small, TypesOK, NEW h \in Hosts, NEW m \in net, m.to = h, Proper(m), SegmentOK(m),
           conn[h].state \in Conversant, SendOK(h, conn[h]), RecvOK(h, conn[h]), PendingOK(Peer(h))
    PROVE  LET r == Conversing(h, conn[h], m)
           IN  /\ r.conn \in Conns /\ Moves(h, r.conn)
               /\ \A s \in r.send : s \in Segments /\ Sendable(h, r.conn, s)
<1> DEFINE c == conn[h]
           a == AckArrives(c, m)
           d == DataArrives(a, m)
           k == FinArrives(d, m)
           r == Conversing(h, c, m)
           Ack(x) == send_segment(h, x, {"ACK"}, x.snd_nxt, <<>>)
<1>1. c \in Conns /\ m \in Segments
  BY DEF TypesOK
<1>2. r.conn = k /\ \A s \in r.send : s = Ack(d) \/ s = Ack(k)
  BY DEF Conversing
<1> HIDE DEF r
<1>3. Heard(h, c) /\ made[h] >= 1 /\ Alive(h)
  BY DEF RecvOK, Unheard, Conversant, SendOK, Alive
<1>4. /\ a \in Conns /\ a.state = c.state /\ a.snd_nxt = c.snd_nxt /\ a.rcv_nxt = c.rcv_nxt
      /\ a.rx = c.rx /\ a.peer_closed = c.peer_closed
  BY <1>1, AckShape
<1>5. SendOK(h, a) /\ (a.snd_una = c.snd_una \/ ("ACK" \in m.flags /\ a.snd_una = m.ack))
  BY <1>1, AckKeeps
<1>6. Heard(h, a)
  BY <1>3, <1>4 DEF Heard, Got, Here
<1> HIDE DEF a
<1>7. /\ d \in Conns /\ d.state = a.state /\ d.snd_nxt = a.snd_nxt /\ d.snd_una = a.snd_una
      /\ d.tx = a.tx /\ d.peer_closed = a.peer_closed
  BY <1>1, <1>4, DataShape
<1>8. Heard(h, d)
  BY <1>1, <1>4, <1>6, DataKeeps
<1>9. SendOK(h, d)
  BY <1>5, <1>7 DEF SendOK, Unanswered, Answered
<1> HIDE DEF d
<1>a. d.state \in Conversant
  BY <1>4, <1>7
<1>10. k \in Conns /\ k.snd_una = d.snd_una /\ k.state # "FREE"
  BY <1>1, <1>7, <1>a, FinShape DEF Conversant
<1>11. Heard(h, k) /\ SendOK(h, k) /\ Got(h, d) <= Got(h, k)
  BY <1>1, <1>4, <1>7, <1>8, <1>9, FinKeeps
<1> HIDE DEF k
<1>12. Moves(h, k)
  BY <1>3, <1>5, <1>7, <1>10, <1>11 DEF Moves, RecvOK
<1>13. Ack(d) \in Segments /\ Sendable(h, k, Ack(d))
  BY <1>3, <1>7, <1>8, <1>10, <1>11, PlainAck
<1>14. Ack(k) \in Segments /\ Sendable(h, k, Ack(k))
  <2>1. Got(h, k) <= Got(h, k)
    BY <1>10, <1>11, HeardBound
  <2> QED
    BY <1>3, <1>10, <1>11, <2>1, PlainAck
<1> HIDE DEF Ack
<1>15. r.conn \in Conns /\ Moves(h, r.conn) /\ \A s \in r.send : s \in Segments /\ Sendable(h, r.conn, s)
  BY <1>2, <1>10, <1>12, <1>13, <1>14
<1> QED
  BY <1>15 DEF r

LEMMA PlainType ==
    ASSUME NEW h \in Hosts, NEW c \in Conns, NEW f \in SUBSET {"SYN", "ACK", "FIN", "RST"},
           NEW s \in Seqs
    PROVE  send_segment(h, c, f, s, <<>>) \in Segments
<1>1. <<>> \in Seq(Nat)
  OBVIOUS
<1> QED
  BY <1>1, SegmentType

LEMMA ConversingType ==
    ASSUME NEW h \in Hosts, NEW c \in Conns, NEW m \in Segments, c.state \in Conversant
    PROVE  LET r == Conversing(h, c, m)
           IN  r.conn \in Conns /\ r.send \subseteq Segments
<1> DEFINE a == AckArrives(c, m)
           d == DataArrives(a, m)
           k == FinArrives(d, m)
           r == Conversing(h, c, m)
           Ack(x) == send_segment(h, x, {"ACK"}, x.snd_nxt, <<>>)
<1>1. r.conn = k /\ \A s \in r.send : s = Ack(d) \/ s = Ack(k)
  BY DEF Conversing
<1> HIDE DEF r
<1>2. a \in Conns /\ a.state = c.state
  BY AckShape
<1> HIDE DEF a
<1>3. d \in Conns /\ d.state = a.state
  BY <1>2, DataShape
<1> HIDE DEF d
<1>4. d.state \in Conversant
  BY <1>2, <1>3
<1>5. k \in Conns
  BY <1>3, <1>4, FinShape
<1> HIDE DEF k
<1>6. ASSUME NEW x \in Conns PROVE Ack(x) \in Segments
  <2>1. x.snd_nxt \in Seqs /\ {"ACK"} \in SUBSET {"SYN", "ACK", "FIN", "RST"}
    BY DEF Conns
  <2> QED
    BY <2>1, PlainType
<1> HIDE DEF Ack
<1>7. r.conn \in Conns /\ r.send \subseteq Segments
  BY <1>1, <1>3, <1>5, <1>6
<1> QED
  BY <1>7 DEF r

LEMMA SynSentShape ==
    ASSUME NEW h \in Hosts, NEW c \in Conns, NEW m \in Segments, c.state = "SYN_SENT"
    PROVE  LET r == SynSent(h, c, m)
           IN  \/ r = [conn |-> c, send |-> {}]
               \/ /\ {"SYN", "ACK"} \subseteq m.flags /\ m.ack = c.snd_nxt
                  /\ r.conn \in Conns
                  /\ r.conn.state = "ESTABLISHED" /\ r.conn.rcv_nxt = Plus(m.seq, 1)
                  /\ r.conn.snd_una = m.ack /\ r.conn.snd_nxt = c.snd_nxt
                  /\ r.conn.tx = c.tx /\ r.conn.rx = c.rx /\ r.conn.peer_closed = c.peer_closed
                  /\ r.send = {send_segment(h, r.conn, {"ACK"}, r.conn.snd_nxt, <<>>)}
<1> DEFINE k == [c EXCEPT !.rcv_nxt = Plus(m.seq, 1), !.snd_una = m.ack, !.snd_wnd = m.wnd,
                          !.state = "ESTABLISHED", !.retries = 0]
           r == SynSent(h, c, m)
<1>1. CASE ~({"SYN", "ACK"} \subseteq m.flags /\ m.ack = c.snd_nxt)
  BY <1>1 DEF SynSent
<1>2. CASE {"SYN", "ACK"} \subseteq m.flags /\ m.ack = c.snd_nxt
  <2>1. r = [conn |-> k, send |-> {send_segment(h, k, {"ACK"}, k.snd_nxt, <<>>)}]
    BY <1>2 DEF SynSent
  <2>2. m.seq \in Seqs /\ m.ack \in Seqs /\ m.wnd \in 0 .. TCP_BUFFER_SIZE
    BY DEF Segments, Seqs
  <2>3. Plus(m.seq, 1) \in Seqs
    BY <2>2, PlusType
  <2>4. /\ k \in Conns /\ k.state = "ESTABLISHED" /\ k.rcv_nxt = Plus(m.seq, 1)
        /\ k.snd_una = m.ack /\ k.snd_nxt = c.snd_nxt
        /\ k.tx = c.tx /\ k.rx = c.rx /\ k.peer_closed = c.peer_closed
    <3>1. 0 \in 0 .. TCP_MAX_RETRIES /\ "ESTABLISHED" \in States
      BY TcpFacts DEF States
    <3>2. k \in Conns
      BY <2>2, <2>3, <3>1 DEF Conns
    <3> QED
      BY <3>2 DEF Conns
  <2> HIDE DEF k, r
  <2>5. r.conn = k /\ r.send = {send_segment(h, k, {"ACK"}, k.snd_nxt, <<>>)}
    BY <2>1
  <2> QED
    BY <1>2, <2>4, <2>5 DEF r
<1> QED
  BY <1>1, <1>2

LEMMA SynReceivedShape ==
    ASSUME NEW c \in Conns, NEW m \in Segments, c.state = "SYN_RECEIVED"
    PROVE  LET k == SynReceived(c, m)
           IN  \/ k = c
               \/ /\ "ACK" \in m.flags /\ m.ack = c.snd_nxt
                  /\ k \in Conns
                  /\ k.state = "ESTABLISHED" /\ k.rcv_nxt = c.rcv_nxt
                  /\ k.snd_una = m.ack /\ k.snd_nxt = c.snd_nxt
                  /\ k.tx = c.tx /\ k.rx = c.rx /\ k.peer_closed = c.peer_closed
<1>1. m.ack \in Seqs
  BY DEF Segments, Seqs
<1>2. CASE "ACK" \in m.flags /\ m.ack = c.snd_nxt
  <2>1. SynReceived(c, m) = [c EXCEPT !.snd_una = m.ack, !.state = "ESTABLISHED",
                                      !.accept_pending = TRUE, !.retries = 0]
    BY <1>2 DEF SynReceived
  <2>2. 0 \in 0 .. TCP_MAX_RETRIES /\ "ESTABLISHED" \in States
    BY TcpFacts DEF States
  <2>3. SynReceived(c, m) \in Conns
    BY <1>1, <2>1, <2>2 DEF Conns
  <2> QED
    BY <1>2, <2>1, <2>3 DEF Conns
<1>3. CASE ~("ACK" \in m.flags /\ m.ack = c.snd_nxt)
  BY <1>3 DEF SynReceived
<1> QED
  BY <1>2, <1>3

\* The cases of the switch.
LEMMA SwitchCases ==
    ASSUME NEW h \in Hosts, NEW c \in Conns, NEW m \in Segments
    PROVE  LET r == Switch(h, c, m)
           IN  \/ ~Proper(m) /\ r = [conn |-> [c EXCEPT !.reset = TRUE, !.state = "CLOSED"], send |-> {}]
               \/ Proper(m) /\ c.state = "SYN_SENT" /\ r = SynSent(h, c, m)
               \/ Proper(m) /\ c.state = "SYN_RECEIVED" /\ r = [conn |-> SynReceived(c, m), send |-> {}]
               \/ Proper(m) /\ c.state \in Conversant /\ r = Conversing(h, c, m)
               \/ r = [conn |-> free_conn, send |-> {}]
               \/ r = [conn |-> c, send |-> {}]
BY DEF Switch, Proper, Conversant

LEMMA ClosedType ==
    ASSUME NEW c \in Conns
    PROVE  LET k == [c EXCEPT !.reset = TRUE, !.state = "CLOSED"]
           IN  /\ k \in Conns /\ k.state = "CLOSED"
               /\ k.snd_una = c.snd_una /\ k.snd_nxt = c.snd_nxt /\ k.rcv_nxt = c.rcv_nxt
               /\ k.tx = c.tx /\ k.rx = c.rx /\ k.peer_closed = c.peer_closed
BY DEF Conns, States

LEMMA SwitchType ==
    ASSUME NEW h \in Hosts, NEW c \in Conns, NEW m \in Segments
    PROVE  Switch(h, c, m).conn \in Conns /\ Switch(h, c, m).send \subseteq Segments
<1> DEFINE r == Switch(h, c, m)
<1>1. \/ ~Proper(m) /\ r = [conn |-> [c EXCEPT !.reset = TRUE, !.state = "CLOSED"], send |-> {}]
      \/ Proper(m) /\ c.state = "SYN_SENT" /\ r = SynSent(h, c, m)
      \/ Proper(m) /\ c.state = "SYN_RECEIVED" /\ r = [conn |-> SynReceived(c, m), send |-> {}]
      \/ Proper(m) /\ c.state \in Conversant /\ r = Conversing(h, c, m)
      \/ r = [conn |-> free_conn, send |-> {}]
      \/ r = [conn |-> c, send |-> {}]
  BY SwitchCases
<1> HIDE DEF r
<1>2. CASE r = [conn |-> [c EXCEPT !.reset = TRUE, !.state = "CLOSED"], send |-> {}]
  <2> DEFINE k == [c EXCEPT !.reset = TRUE, !.state = "CLOSED"]
  <2>1. k \in Conns
    BY ClosedType
  <2> HIDE DEF k
  <2>2. r = [conn |-> k, send |-> {}]
    BY <1>2 DEF k
  <2>3. r.conn = k /\ r.send = {}
    BY <2>2
  <2> QED
    BY <2>1, <2>3 DEF r
<1>3. CASE c.state = "SYN_SENT" /\ r = SynSent(h, c, m)
  <2>1. \/ r = [conn |-> c, send |-> {}]
        \/ r.conn \in Conns /\ r.send = {send_segment(h, r.conn, {"ACK"}, r.conn.snd_nxt, <<>>)}
    BY <1>3, SynSentShape
  <2>2. ASSUME r.conn \in Conns
        PROVE  send_segment(h, r.conn, {"ACK"}, r.conn.snd_nxt, <<>>) \in Segments
    <3>1. r.conn.snd_nxt \in Seqs /\ {"ACK"} \in SUBSET {"SYN", "ACK", "FIN", "RST"}
      BY <2>2 DEF Conns
    <3> QED
      BY <2>2, <3>1, PlainType
  <2> QED
    BY <2>1, <2>2 DEF r
<1>4. CASE c.state = "SYN_RECEIVED" /\ r = [conn |-> SynReceived(c, m), send |-> {}]
  <2>1. SynReceived(c, m) \in Conns
    BY <1>4, SynReceivedShape
  <2> QED
    BY <1>4, <2>1 DEF r
<1>5. CASE c.state \in Conversant /\ r = Conversing(h, c, m)
  BY <1>5, ConversingType DEF r
<1>6. CASE r = [conn |-> free_conn, send |-> {}]
  BY <1>6, FreeType DEF r
<1>7. CASE r = [conn |-> c, send |-> {}]
  BY <1>7 DEF r
<1> QED
  BY <1>1, <1>2, <1>3, <1>4, <1>5, <1>6, <1>7

\* The answer to our SYN is the first that is heard of the other side.
LEMMA SynSentKeeps ==
    ASSUME Small, TypesOK, NEW h \in Hosts, NEW m \in net, m.to = h, Proper(m), SegmentOK(m),
           conn[h].state = "SYN_SENT", SendOK(h, conn[h]), RecvOK(h, conn[h]), PendingOK(Peer(h))
    PROVE  LET r == SynSent(h, conn[h], m)
           IN  Moves(h, r.conn) /\ \A s \in r.send : Sendable(h, r.conn, s)
<1> DEFINE c == conn[h]
           w == Peer(h)
           r == SynSent(h, c, m)
           k == r.conn
<1>1. c \in Conns /\ m \in Segments /\ m.seq \in Seqs /\ w \in Hosts /\ Peer(w) = h /\ Alive(h)
  BY TcpFacts DEF TypesOK, Segments, Seqs, Alive
<1>a. c.state = "SYN_SENT"
  OBVIOUS
<1> HIDE DEF c
<1>2. \/ r = [conn |-> c, send |-> {}]
      \/ /\ {"SYN", "ACK"} \subseteq m.flags /\ m.ack = c.snd_nxt
         /\ k \in Conns
         /\ k.state = "ESTABLISHED" /\ k.rcv_nxt = Plus(m.seq, 1)
         /\ k.snd_una = m.ack /\ k.snd_nxt = c.snd_nxt
         /\ k.tx = c.tx /\ k.rx = c.rx /\ k.peer_closed = c.peer_closed
         /\ r.send = {send_segment(h, k, {"ACK"}, k.snd_nxt, <<>>)}
  BY <1>1, <1>a, SynSentShape
<1> HIDE DEF r
<1> USE DEF c
<1>3. CASE r = [conn |-> c, send |-> {}]
  <2>1. k = c /\ r.send = {}
    BY <1>3
  <2> QED
    BY <1>1, <2>1 DEF Moves, r
<1>4. CASE /\ {"SYN", "ACK"} \subseteq m.flags /\ m.ack = c.snd_nxt
           /\ k \in Conns
           /\ k.state = "ESTABLISHED" /\ k.rcv_nxt = Plus(m.seq, 1)
           /\ k.snd_una = m.ack /\ k.snd_nxt = c.snd_nxt
           /\ k.tx = c.tx /\ k.rx = c.rx /\ k.peer_closed = c.peer_closed
           /\ r.send = {send_segment(h, k, {"ACK"}, k.snd_nxt, <<>>)}
  <2>1. Unheard(h, c) /\ made[h] >= 1
    BY DEF RecvOK, Heard, SendOK
  <2>2. Unanswered(h, c)
    BY DEF SendOK, Answered
  <2>3. /\ written[h] = 0 /\ open[h] = TRUE /\ c.tx = <<>> /\ Off(c.snd_nxt, h) = 1
    BY <2>2 DEF Unanswered, TypesOK
  <2>4. /\ written[w] = 0 /\ open[w] = TRUE /\ c.rx = <<>> /\ ~c.peer_closed
        /\ UnaUpTo(w, 0) /\ Silent(w)
    BY <1>1, <2>1 DEF Unheard, Untouched, TypesOK
  <2>5. Sent(h) = 1 /\ Off(k.snd_una, h) = 1 /\ Off(k.snd_nxt, h) = 1
    BY <1>4, <2>3 DEF Sent
  <2>6. SendOK(h, k)
    <3>1. Stretch(0, 0) = <<>> /\ 1 - 1 = 0
      BY NoStretch
    <3>2. Answered(h, k)
      BY <1>4, <2>3, <2>5, <3>1 DEF Answered
    <3> QED
      BY <1>4, <2>1, <2>3, <3>2 DEF SendOK
  <2>7. made[w] >= 1 /\ Off(m.seq, w) = 0
    BY <1>4 DEF SegmentOK
  <2>8. Got(h, k) = 1
    <3>1. 0 + 1 < SeqSpace
      BY <1>1, <2>4, SentBound
    <3>2. Off(Plus(m.seq, 1), w) = 1
      BY <1>1, <2>7, <3>1, OffPlus
    <3> QED
      BY <1>4, <3>2 DEF Got
  <2>9. Taken(w) = 0
    <3>1. Len(pending[w]) \in Nat
      BY <1>1 DEF TypesOK
    <3> QED
      BY <2>4, <3>1 DEF PendingOK, Taken
  <2>10. Heard(h, k)
    <3>1. Here(h, k) = 0 /\ Stretch(0, 0) = <<>>
      BY <1>4, <2>4, <2>8, NoStretch DEF Here
    <3>2. UnaUpTo(w, 1) /\ AcksUpTo(w, 1)
      <4>1. Off(conn[w].snd_una, w) \in Int
        <5>1. conn[w].snd_una \in Seqs
          BY <1>1 DEF TypesOK, Conns
        <5> QED
          BY <1>1, <5>1, OffType DEF Seqs
      <4> QED
        BY <2>4, <4>1 DEF UnaUpTo, Silent, AcksUpTo
    <3> QED
      BY <1>4, <2>4, <2>7, <2>8, <2>9, <3>1, <3>2 DEF Heard
  <2>11. Moves(h, k)
    BY <1>1, <1>4, <2>6, <2>10 DEF Moves, RecvOK
  <2>12. Sendable(h, k, send_segment(h, k, {"ACK"}, k.snd_nxt, <<>>))
    <3>1. Got(h, k) <= Got(h, k)
      BY <2>8
    <3> QED
      BY <1>4, <2>1, <2>10, <3>1, PlainAck
  <2> HIDE DEF k
  <2>13. \A s \in r.send : Sendable(h, k, s)
    BY <1>4, <2>12
  <2> QED
    BY <2>11, <2>13 DEF r, k
<1> QED
  BY <1>2, <1>3, <1>4

LEMMA SynReceivedKeeps ==
    ASSUME Small, TypesOK, NEW h \in Hosts, NEW m \in net, m.to = h, Proper(m), SegmentOK(m),
           conn[h].state = "SYN_RECEIVED", SendOK(h, conn[h]), RecvOK(h, conn[h])
    PROVE  Moves(h, SynReceived(conn[h], m))
<1> DEFINE c == conn[h]
           k == SynReceived(c, m)
<1>1. c \in Conns /\ m \in Segments /\ Alive(h)
  BY DEF TypesOK, Alive
<1>2. \/ k = c
      \/ /\ "ACK" \in m.flags /\ m.ack = c.snd_nxt
         /\ k \in Conns
         /\ k.state = "ESTABLISHED" /\ k.rcv_nxt = c.rcv_nxt
         /\ k.snd_una = m.ack /\ k.snd_nxt = c.snd_nxt
         /\ k.tx = c.tx /\ k.rx = c.rx /\ k.peer_closed = c.peer_closed
  BY <1>1, SynReceivedShape
<1> HIDE DEF k
<1>3. CASE k = c
  BY <1>1, <1>3 DEF Moves, k
<1>4. CASE /\ "ACK" \in m.flags /\ m.ack = c.snd_nxt
           /\ k \in Conns
           /\ k.state = "ESTABLISHED" /\ k.rcv_nxt = c.rcv_nxt
           /\ k.snd_una = m.ack /\ k.snd_nxt = c.snd_nxt
           /\ k.tx = c.tx /\ k.rx = c.rx /\ k.peer_closed = c.peer_closed
  <2>1. Unanswered(h, c) /\ made[h] >= 1
    BY DEF SendOK, Answered
  <2>2. /\ written[h] = 0 /\ open[h] = TRUE /\ c.tx = <<>> /\ Off(c.snd_nxt, h) = 1
    BY <2>1 DEF Unanswered, TypesOK
  <2>3. Sent(h) = 1 /\ Off(k.snd_una, h) = 1 /\ Off(k.snd_nxt, h) = 1
    BY <1>4, <2>2 DEF Sent
  <2>4. SendOK(h, k)
    <3>1. Stretch(0, 0) = <<>> /\ 1 - 1 = 0
      BY NoStretch
    <3>2. Answered(h, k)
      BY <1>4, <2>2, <2>3, <3>1 DEF Answered
    <3> QED
      BY <1>4, <2>1, <2>2, <3>2 DEF SendOK
  <2>5. Heard(h, c)
    BY DEF RecvOK, Unheard
  <2>6. ~c.peer_closed
    BY <2>5 DEF Heard
  <2>7. Got(h, k) = Got(h, c) /\ Here(h, k) = Here(h, c)
    BY <1>4 DEF Got, Here
  <2>8. Heard(h, k)
    BY <1>4, <2>5, <2>6, <2>7 DEF Heard
  <2> QED
    BY <1>1, <1>4, <2>4, <2>8 DEF Moves, RecvOK, k
<1> QED
  BY <1>2, <1>3, <1>4

\* A connection that is given up relies on nothing and owes nothing.
LEMMA ClosedKeeps ==
    ASSUME TypesOK, NEW h \in Hosts, Alive(h), SendOK(h, conn[h]), RecvOK(h, conn[h]), NEW k,
           k.state = "CLOSED", k.snd_una = conn[h].snd_una, k.snd_nxt = conn[h].snd_nxt,
           k.rcv_nxt = conn[h].rcv_nxt, k.tx = conn[h].tx, k.rx = conn[h].rx,
           k.peer_closed = conn[h].peer_closed
    PROVE  Moves(h, k)
<1> DEFINE c == conn[h]
<1>1. Got(h, k) = Got(h, c) /\ Here(h, k) = Here(h, c)
  BY DEF Got, Here
<1>2. SendOK(h, k)
  BY DEF SendOK, Unanswered, Answered
<1>3. Unheard(h, c) => Unheard(h, k)
  BY DEF Unheard
<1>4. Heard(h, c) => Heard(h, k)
  BY <1>1 DEF Heard, Conversant
<1> QED
  BY <1>2, <1>3, <1>4 DEF RecvOK, Moves

LEMMA SwitchKeeps ==
    ASSUME Small, TypesOK, Core, NEW h \in Hosts, NEW m \in net, m.to = h, Alive(h)
    PROVE  LET r == Switch(h, conn[h], m)
           IN  Moves(h, r.conn) /\ \A s \in r.send : Sendable(h, r.conn, s)
<1> DEFINE c == conn[h]
           r == Switch(h, c, m)
<1>1. c \in Conns /\ m \in Segments /\ Peer(h) \in Hosts
  BY TcpFacts DEF TypesOK
<1>2. \/ ~Proper(m) /\ r = [conn |-> [c EXCEPT !.reset = TRUE, !.state = "CLOSED"], send |-> {}]
      \/ Proper(m) /\ c.state = "SYN_SENT" /\ r = SynSent(h, c, m)
      \/ Proper(m) /\ c.state = "SYN_RECEIVED" /\ r = [conn |-> SynReceived(c, m), send |-> {}]
      \/ Proper(m) /\ c.state \in Conversant /\ r = Conversing(h, c, m)
      \/ r = [conn |-> free_conn, send |-> {}]
      \/ r = [conn |-> c, send |-> {}]
  BY <1>1, SwitchCases, ZenonT(60)
<1> HIDE DEF r
<1>3. SendOK(h, c) /\ RecvOK(h, c) /\ PendingOK(Peer(h)) /\ (Proper(m) => SegmentOK(m))
  BY <1>1 DEF Core, ConnOK
<1>4. CASE r = [conn |-> [c EXCEPT !.reset = TRUE, !.state = "CLOSED"], send |-> {}]
  <2> DEFINE k == [c EXCEPT !.reset = TRUE, !.state = "CLOSED"]
  <2>1. /\ k.state = "CLOSED"
        /\ k.snd_una = c.snd_una /\ k.snd_nxt = c.snd_nxt /\ k.rcv_nxt = c.rcv_nxt
        /\ k.tx = c.tx /\ k.rx = c.rx /\ k.peer_closed = c.peer_closed
    BY <1>1, ClosedType
  <2> HIDE DEF k
  <2>2. Moves(h, k)
    BY <1>3, <2>1, ClosedKeeps
  <2>3. r.conn = k /\ r.send = {}
    BY <1>4 DEF k
  <2> QED
    BY <2>2, <2>3 DEF r
<1>5. CASE Proper(m) /\ c.state = "SYN_SENT" /\ r = SynSent(h, c, m)
  BY <1>3, <1>5, SynSentKeeps DEF r
<1>6. CASE Proper(m) /\ c.state = "SYN_RECEIVED" /\ r = [conn |-> SynReceived(c, m), send |-> {}]
  <2>1. Moves(h, SynReceived(c, m))
    BY <1>3, <1>6, SynReceivedKeeps
  <2>2. r.conn = SynReceived(c, m) /\ r.send = {}
    BY <1>6
  <2> QED
    BY <2>1, <2>2 DEF r
<1>7. CASE Proper(m) /\ c.state \in Conversant /\ r = Conversing(h, c, m)
  BY <1>3, <1>7, ConversingKeeps DEF r
<1>8. CASE r = [conn |-> free_conn, send |-> {}]
  <2>1. r.conn.state = "FREE" /\ r.conn.tx = <<>> /\ r.send = {}
    BY <1>8 DEF free_conn
  <2> QED
    BY <2>1 DEF Moves, r
<1>9. CASE r = [conn |-> c, send |-> {}]
  <2>1. r.conn = c /\ r.send = {}
    BY <1>9
  <2> QED
    BY <1>3, <2>1 DEF Moves, r, Alive
<1> QED
  BY <1>2, <1>4, <1>5, <1>6, <1>7, <1>8, <1>9

-----------------------------------------------------------------------------
(* A step of one side that makes no connection, writes nothing, reads      *)
(* nothing and closes nothing: it changes the connection and the wire.     *)

Quiet(h, k, segments) ==
    /\ conn' = [conn EXCEPT ![h] = k]
    /\ net' \subseteq net \cup segments
    /\ listener' \in {"listen", "closed", "free"}
    /\ UNCHANGED <<made, written, pending, out, open, told>>

LEMMA QuietTypes ==
    ASSUME TypesOK, NEW h \in Hosts, NEW k \in Conns, NEW segments \in SUBSET Segments,
           Quiet(h, k, segments)
    PROVE  TypesOK'
BY DEF TypesOK, Quiet

\* The types of what the relations compare.
LEMMA UnaType ==
    ASSUME TypesOK, NEW w \in Hosts
    PROVE  /\ Off(conn[w].snd_una, w) \in Nat
           /\ \A m \in net : Off(m.ack, w) \in Nat
<1>1. conn[w].snd_una \in Seqs
  BY DEF TypesOK, Conns
<1>2. \A m \in net : m.ack \in Seqs
  BY DEF TypesOK, Segments, Seqs
<1> QED
  BY <1>1, <1>2, OffType DEF Seqs

\* What a quiet step does to what is known of the side that takes it.
LEMMA QuietUna ==
    ASSUME TypesOK, NEW h \in Hosts, NEW k, NEW segments, Quiet(h, k, segments), Moves(h, k),
           \A m \in segments : Sendable(h, k, m), NEW n \in Nat,
           UnaUpTo(h, n), AcksUpTo(h, n)
    PROVE  UnaUpTo(h, n)' /\ AcksUpTo(h, n)'
<1>1. conn'[h] = k /\ net' \subseteq net \cup segments
  BY DEF Quiet, TypesOK
<1>2. UnaUpTo(h, n)'
  <2>1. ASSUME k.state # "FREE" PROVE Off(k.snd_una, h) <= n
    BY <2>1 DEF Moves, UnaUpTo, AcksUpTo
  <2> QED
    BY <1>1, <2>1 DEF UnaUpTo, Alive
<1>3. AcksUpTo(h, n)'
  <2>1. ASSUME NEW m \in net', m.to = h, Proper(m), "ACK" \in m.flags PROVE Off(m.ack, h) <= n
    <3>1. m \in net
      BY <1>1, <2>1, TcpFacts DEF Sendable
    <3> QED
      BY <2>1, <3>1 DEF AcksUpTo
  <2> QED
    BY <2>1 DEF AcksUpTo, Proper
<1> QED
  BY <1>2, <1>3

LEMMA QuietSilent ==
    ASSUME TypesOK, NEW h \in Hosts, NEW k, NEW segments, Quiet(h, k, segments), Moves(h, k),
           \A m \in segments : Sendable(h, k, m), UnaUpTo(h, 0), Silent(h)
    PROVE  UnaUpTo(h, 0)' /\ Silent(h)'
<1>1. AcksUpTo(h, 0)
  BY DEF AcksUpTo, Silent
<1>2. UnaUpTo(h, 0)'
  BY <1>1, QuietUna
<1>3. Silent(h)'
  <2>1. ASSUME NEW m \in net', m.to = h, Proper(m) PROVE "ACK" \notin m.flags
    <3>1. m \in net
      BY <2>1, TcpFacts DEF Sendable, Quiet
    <3> QED
      BY <2>1, <3>1 DEF Silent
  <2> QED
    BY <2>1 DEF Silent, Proper
<1> QED
  BY <1>2, <1>3

LEMMA QuietKeeps ==
    ASSUME Small, TypesOK, Core, NEW h \in Hosts, NEW k \in Conns, NEW segments \in SUBSET Segments,
           Quiet(h, k, segments), Moves(h, k), \A m \in segments : Sendable(h, k, m)
    PROVE  Core'
<1> DEFINE p == Peer(h)
<1>1. p \in Hosts /\ Peer(p) = h /\ p # h /\ \A g \in Hosts : g = h \/ g = p
  BY TcpFacts
<1> HIDE DEF p
<1>2. conn'[h] = k /\ conn'[p] = conn[p] /\ net' \subseteq net \cup segments
  BY <1>1 DEF Quiet, TypesOK
<1>3. made' = made /\ written' = written /\ pending' = pending /\ open' = open /\ told' = told
  BY DEF Quiet
<1>4. ConnOK(p) /\ UnmadeOK(h) /\ UnmadeOK(p) /\ PendingOK(h) /\ PendingOK(p)
      /\ (\A m \in net : Proper(m) => SegmentOK(m))
  BY <1>1 DEF Core
<1>5. ConnOK(h)'
  <2>1. CASE k.state = "FREE"
    BY <1>2, <2>1 DEF ConnOK, Alive, Moves
  <2>2. CASE k.state # "FREE"
    <3>1. Alive(h) /\ SendOK(h, k) /\ RecvOK(h, k)
      BY <2>2 DEF Moves
    <3>2. SendOK(h, conn[h])'
      BY <1>2, <1>3, <3>1 DEF SendOK, Unanswered, Answered, Sent
    <3>3. UnaUpTo(p, 0)' <=> UnaUpTo(p, 0)
      BY <1>2 DEF UnaUpTo, Alive
    <3>4. CASE Heard(h, k)
      <4>1. \A n : UnaUpTo(p, n)' <=> UnaUpTo(p, n)
        BY <1>2 DEF UnaUpTo, Alive
      <4>2. AcksUpTo(p, Got(h, k))'
        <5>1. ASSUME NEW m \in net', m.to = p, Proper(m), "ACK" \in m.flags
              PROVE  Off(m.ack, p) <= Got(h, k)
          <6>1. CASE m \in net
            BY <3>4, <5>1, <6>1 DEF Heard, AcksUpTo, p
          <6>2. CASE m \in segments
            BY <5>1, <6>2 DEF Sendable, p
          <6> QED
            BY <1>2, <6>1, <6>2
        <5> QED
          BY <5>1 DEF AcksUpTo, Proper
      <4>3. Heard(h, k)'
        BY <1>3, <3>4, <4>1, <4>2 DEF Heard, Got, Here, Taken, p
      <4>4. RecvOK(h, conn[h])'
        BY <1>2, <4>3 DEF RecvOK
      <4> QED
        BY <1>2, <2>2, <3>2, <4>4 DEF ConnOK, Alive
    <3>5. CASE ~Heard(h, k)
      <4>1. Unheard(h, k)
        BY <3>1, <3>5 DEF RecvOK
      <4>2. Silent(p)'
        <5>1. ASSUME NEW m \in net', m.to = p, Proper(m) PROVE "ACK" \notin m.flags
          <6>1. CASE m \in net
            BY <4>1, <5>1, <6>1 DEF Unheard, Untouched, Silent, p
          <6>2. CASE m \in segments
            BY <3>5, <5>1, <6>2 DEF Sendable
          <6> QED
            BY <1>2, <6>1, <6>2
        <5> QED
          BY <5>1 DEF Silent, Proper
      <4>3. Unheard(h, k)'
        BY <1>3, <3>3, <4>1, <4>2 DEF Unheard, Untouched, p
      <4>4. RecvOK(h, conn[h])'
        BY <1>2, <4>3 DEF RecvOK
      <4> QED
        BY <1>2, <2>2, <3>2, <4>4 DEF ConnOK, Alive
    <3> QED
      BY <3>4, <3>5
  <2> QED
    BY <2>1, <2>2
<1>6. ConnOK(p)'
  <2>1. CASE ~Alive(p)
    BY <1>2, <1>4, <2>1 DEF ConnOK, Alive
  <2>2. CASE Alive(p)
    <3>1. SendOK(p, conn[p]) /\ RecvOK(p, conn[p])
      BY <1>4, <2>2 DEF ConnOK
    <3>2. SendOK(p, conn[p])'
      BY <1>2, <1>3, <3>1 DEF SendOK, Unanswered, Answered, Sent
    <3>3. CASE Unheard(p, conn[p])
      <4>1. Untouched(h)'
        <5>1. Untouched(h)
          BY <1>1, <3>3 DEF Unheard
        <5>2. UnaUpTo(h, 0)' /\ Silent(h)'
          BY <5>1, QuietSilent DEF Untouched
        <5> QED
          BY <1>3, <5>1, <5>2 DEF Untouched
      <4>2. Unheard(p, conn[p])'
        BY <1>1, <1>2, <3>3, <4>1 DEF Unheard
      <4> QED
        BY <1>2, <2>2, <3>2, <4>2 DEF ConnOK, RecvOK, Alive
    <3>4. CASE Heard(p, conn[p])
      <4>0. PICK n \in Nat : n = Got(p, conn[p])
        <5>1. conn[p].rcv_nxt \in Seqs
          BY <1>1 DEF TypesOK, Conns
        <5> QED
          BY <1>1, <5>1, OffType DEF Got, Seqs
      <4>1. UnaUpTo(h, n)' /\ AcksUpTo(h, n)'
        <5>1. UnaUpTo(h, n) /\ AcksUpTo(h, n)
          BY <1>1, <3>4, <4>0 DEF Heard
        <5> QED
          BY <5>1, QuietUna
      <4>2. Heard(p, conn[p])'
        BY <1>1, <1>2, <1>3, <3>4, <4>0, <4>1 DEF Heard, Got, Here, Taken, UnaUpTo, AcksUpTo
      <4> QED
        BY <1>2, <2>2, <3>2, <4>2 DEF ConnOK, RecvOK, Alive
    <3> QED
      BY <3>1, <3>3, <3>4 DEF RecvOK
  <2> QED
    BY <2>1, <2>2
<1>7. UnmadeOK(h)'
  <2>1. ASSUME made[h] = 0 PROVE ~Alive(h)' /\ Untouched(p)'
    <3>1. ~Alive(h) /\ Untouched(p)
      BY <1>4, <2>1 DEF UnmadeOK, p
    <3>2. ~Alive(h)'
      BY <1>2, <3>1 DEF Alive, Moves
    <3>3. Silent(p)'
      <4>1. ASSUME NEW m \in net', m.to = p, Proper(m) PROVE "ACK" \notin m.flags
        <5>1. CASE m \in net
          BY <3>1, <4>1, <5>1 DEF Untouched, Silent
        <5>2. CASE m \in segments
          BY <1>1, <2>1, <4>1, <5>2 DEF Sendable, SegmentOK, p
        <5> QED
          BY <1>2, <5>1, <5>2
      <4> QED
        BY <4>1 DEF Silent, Proper
    <3> QED
      BY <1>2, <1>3, <3>1, <3>2, <3>3 DEF Untouched, UnaUpTo, Alive
  <2> QED
    BY <1>3, <1>4, <2>1 DEF UnmadeOK, p
<1>8. UnmadeOK(p)'
  <2>1. ASSUME made[p] = 0 PROVE ~Alive(p)' /\ Untouched(h)'
    <3>1. ~Alive(p) /\ Untouched(h)
      BY <1>1, <1>4, <2>1 DEF UnmadeOK
    <3>2. UnaUpTo(h, 0)' /\ Silent(h)'
      BY <3>1, QuietSilent DEF Untouched
    <3> QED
      BY <1>2, <1>3, <3>1, <3>2 DEF Untouched, Alive
  <2> QED
    BY <1>1, <1>3, <1>4, <2>1 DEF UnmadeOK
<1>9. PendingOK(h)' /\ PendingOK(p)'
  BY <1>3, <1>4 DEF PendingOK, Taken
<1>10. \A m \in net' : Proper(m) => SegmentOK(m)'
  <2>1. \A m : SegmentOK(m)' <=> SegmentOK(m)
    BY <1>3 DEF SegmentOK, Sent
  <2> QED
    BY <1>2, <1>4, <2>1 DEF Sendable
<1> QED
  BY <1>1, <1>5, <1>6, <1>7, <1>8, <1>9, <1>10 DEF Core

\* The quiet steps, each of which keeps the invariant.
QuietStep(h) ==
    \E k \in Conns, segments \in SUBSET Segments :
        /\ Quiet(h, k, segments)
        /\ Small /\ Core => Moves(h, k) /\ \A m \in segments : Sendable(h, k, m)

LEMMA QuietStepKeeps ==
    ASSUME TypesOK, NEW h \in Hosts, QuietStep(h)
    PROVE  TypesOK' /\ (Small /\ Core => Core')
<1>1. PICK k \in Conns, segments \in SUBSET Segments :
        /\ Quiet(h, k, segments)
        /\ Small /\ Core => Moves(h, k) /\ \A m \in segments : Sendable(h, k, m)
  BY DEF QuietStep
<1>2. TypesOK'
  BY <1>1, QuietTypes
<1>3. Small /\ Core => Core'
  BY <1>1, QuietKeeps
<1> QED
  BY <1>2, <1>3

\* A connection left as it is.
LEMMA Stays ==
    ASSUME TypesOK, NEW h \in Hosts
    PROVE  /\ conn[h] \in Conns /\ conn = [conn EXCEPT ![h] = conn[h]]
           /\ Core => Moves(h, conn[h])
<1>1. conn[h] \in Conns /\ conn = [conn EXCEPT ![h] = conn[h]]
  BY DEF TypesOK
<1>2. Core => Moves(h, conn[h])
  BY DEF Core, ConnOK, Moves, Alive
<1> QED
  BY <1>1, <1>2

LEMMA WireOnly ==
    ASSUME NEW under_way, NEW segments, Wire(under_way, segments)
    PROVE  net' \subseteq under_way \cup segments
BY DEF Wire

LEMMA AcceptQuiet ==
    ASSUME TypesOK, NEW h \in Hosts, tcp_accept_ready(h)
    PROVE  QuietStep(h)
<1> DEFINE c == conn[h]
           k == [c EXCEPT !.accept_pending = FALSE]
<1>1. /\ conn' = [conn EXCEPT ![h] = k] /\ net' = net /\ listener' = listener
      /\ UNCHANGED <<made, written, pending, out, open, told>>
  BY DEF tcp_accept_ready, Sets, history
<1>2. c \in Conns
  BY DEF TypesOK
<1>3. /\ k \in Conns /\ k.state = c.state /\ k.snd_una = c.snd_una /\ k.snd_nxt = c.snd_nxt
      /\ k.rcv_nxt = c.rcv_nxt /\ k.tx = c.tx /\ k.rx = c.rx /\ k.peer_closed = c.peer_closed
  BY <1>2 DEF Conns
<1> HIDE DEF k
<1>4. Core => Moves(h, k)
  <2>0. ASSUME Core, k.state = "FREE" PROVE Moves(h, k)
    BY <1>3, <2>0 DEF Core, ConnOK, Alive, Moves
  <2>1. ASSUME Core, k.state # "FREE" PROVE Moves(h, k)
    <3>1. Alive(h) /\ SendOK(h, c) /\ RecvOK(h, c)
      BY <1>3, <2>1 DEF Core, ConnOK, Alive
    <3>2. SendOK(h, k)
      BY <1>3, <3>1 DEF SendOK, Unanswered, Answered
    <3>3. Got(h, k) = Got(h, c) /\ Here(h, k) = Here(h, c)
      BY <1>3 DEF Got, Here
    <3>4. RecvOK(h, k)
      BY <1>3, <3>1, <3>3 DEF RecvOK, Unheard, Heard
    <3> QED
      BY <1>3, <2>1, <3>1, <3>2, <3>4 DEF Moves
  <2> QED
    BY <2>0, <2>1
<1>5. Quiet(h, k, {})
  BY <1>1 DEF Quiet, TypesOK
<1> QED
  BY <1>3, <1>4, <1>5 DEF QuietStep

\* Nothing of this but the listener or the wire.
LEMMA ElseQuiet ==
    ASSUME TypesOK, NEW h \in Hosts, conn' = conn,
           NEW segments \in SUBSET Segments, \A m \in segments : ~Proper(m),
           net' \subseteq net \cup segments, listener' \in {"listen", "closed", "free"},
           UNCHANGED <<made, written, pending, out, open, told>>
    PROVE  QuietStep(h)
<1>1. Quiet(h, conn[h], segments)
  BY Stays DEF Quiet
<1>2. Core => Moves(h, conn[h])
  BY Stays
<1>3. \A m \in segments : Sendable(h, conn[h], m)
  BY DEF Sendable
<1>4. conn[h] \in Conns
  BY Stays
<1> QED
  BY <1>1, <1>2, <1>3, <1>4 DEF QuietStep

LEMMA ListenerQuiet ==
    ASSUME TypesOK, ListenerShutdown
    PROVE  QuietStep(Server)
<1>1. Server \in Hosts /\ {} \in SUBSET Segments
  BY TcpFacts
<1>2. conn' = conn /\ net' = net /\ listener' = "free" /\ UNCHANGED <<made, written, pending, out, open, told>>
  BY DEF ListenerShutdown, history
<1> QED
  BY <1>1, <1>2, ElseQuiet

LEMMA LoseQuiet ==
    ASSUME TypesOK, Lose
    PROVE  QuietStep(Server)
<1>1. Server \in Hosts /\ {} \in SUBSET Segments
  BY TcpFacts
<1>2. conn' = conn /\ net' \subseteq net /\ listener' = listener
      /\ UNCHANGED <<made, written, pending, out, open, told>>
  BY DEF Lose, history
<1>3. listener' \in {"listen", "closed", "free"}
  BY <1>2 DEF TypesOK
<1> QED
  BY <1>1, <1>2, <1>3, ElseQuiet

\* A segment is taken by the connection it belongs to.
LEMMA SwitchQuiet ==
    ASSUME TypesOK, NEW h \in Hosts, NEW m \in net, m.to = h, Alive(h),
           Sets(h, Switch(h, conn[h], m).conn),
           net' \subseteq net \cup Switch(h, conn[h], m).send,
           listener' = listener, UNCHANGED <<made, written, pending, out, open, told>>
    PROVE  QuietStep(h)
<1> DEFINE r == Switch(h, conn[h], m)
<1>1. conn[h] \in Conns /\ m \in Segments
  BY DEF TypesOK
<1>2. r.conn \in Conns /\ r.send \subseteq Segments
  BY <1>1, SwitchType
<1>3. Small /\ Core => Moves(h, r.conn) /\ \A s \in r.send : Sendable(h, r.conn, s)
  BY SwitchKeeps
<1>4. Quiet(h, r.conn, r.send)
  BY DEF Quiet, Sets, TypesOK
<1> HIDE DEF r
<1> QED
  BY <1>2, <1>3, <1>4 DEF QuietStep

LEMMA RepeatedQuiet ==
    ASSUME TypesOK, NEW h \in Hosts, Repeated(h)
    PROVE  QuietStep(h)
<1>1. PICK m \in net : /\ m.to = h /\ conn[h].state # "FREE"
                       /\ Sets(h, Switch(h, conn[h], m).conn)
                       /\ Wire(net, Switch(h, conn[h], m).send)
  BY DEF Repeated
<1>2. listener' = listener /\ UNCHANGED <<made, written, pending, out, open, told>>
  BY DEF Repeated, history
<1>3. net' \subseteq net \cup Switch(h, conn[h], m).send
  BY <1>1, WireOnly
<1> QED
  BY <1>1, <1>2, <1>3, SwitchQuiet DEF Alive

\* What arrives is taken by the connection, makes one, or changes nothing
\* that the invariant speaks of.
Accepts(h, m) ==
    LET c == Opened(h, "SYN_RECEIVED", Plus(m.seq, 1), m.wnd)
    IN  /\ h = Server /\ ~Alive(h) /\ made[h] < MaxConns[h]
        /\ m \in net /\ Proper(m) /\ m.to = h /\ "SYN" \in m.flags
        /\ conn' = [conn EXCEPT ![h] = c]
        /\ made' = [made EXCEPT ![h] = @ + 1]
        /\ net' \subseteq net \cup {send_segment(h, c, {"SYN", "ACK"}, c.snd_una, <<>>)}
        /\ UNCHANGED <<listener, written, pending, out, open, told>>

LEMMA ReceiveQuiet ==
    ASSUME TypesOK, NEW h \in Hosts, tcp_receive(h)
    PROVE  QuietStep(h) \/ \E m \in net : Accepts(h, m)
<1>1. PICK m \in net : m.to = h /\ (\/ ReceivedByConn(h, m) \/ ReceivedByListener(h, m)
                                   \/ ReceivedByNobody(h, m))
  BY DEF tcp_receive
<1>2. UNCHANGED <<written, pending, out, open, told>>
  BY DEF tcp_receive, history
<1>3. m \in Segments /\ {} \in SUBSET Segments /\ listener \in {"listen", "closed", "free"}
  BY DEF TypesOK
<1>4. CASE ReceivedByConn(h, m)
  <2>1. /\ Alive(h) /\ Sets(h, Switch(h, conn[h], m).conn)
        /\ Wire(net \ {m}, Switch(h, conn[h], m).send)
        /\ UNCHANGED <<listener, made>>
    BY <1>4 DEF ReceivedByConn, Alive
  <2>2. net' \subseteq net \cup Switch(h, conn[h], m).send
    BY <2>1, WireOnly
  <2> QED
    BY <1>1, <1>2, <2>1, <2>2, SwitchQuiet
<1>5. CASE ReceivedByListener(h, m)
  <2>1. CASE "RST" \notin m.flags /\ "SYN" \in m.flags /\ made[h] < MaxConns[h]
    <3> DEFINE c == Opened(h, "SYN_RECEIVED", Plus(m.seq, 1), m.wnd)
    <3>1. /\ h = Server /\ ~Alive(h) /\ Sets(h, c)
          /\ made' = [made EXCEPT ![h] = @ + 1]
          /\ Wire(net \ {m}, {send_segment(h, c, {"SYN", "ACK"}, c.snd_una, <<>>)})
          /\ UNCHANGED listener
      BY <1>5, <2>1 DEF ReceivedByListener, Listens, Alive
    <3>2. net' \subseteq net \cup {send_segment(h, c, {"SYN", "ACK"}, c.snd_una, <<>>)}
      BY <3>1, WireOnly
    <3>3. Accepts(h, m)
      BY <1>1, <1>2, <2>1, <3>1, <3>2 DEF Accepts, Proper, Sets
    <3> QED
      BY <3>3
  <2>2. CASE ~("RST" \notin m.flags /\ "SYN" \in m.flags /\ made[h] < MaxConns[h])
    <3>1. conn' = conn /\ made' = made /\ net' \subseteq net \cup {} /\ listener' \in {"listen", "closed", "free"}
      BY <1>3, <1>5, <2>2 DEF ReceivedByListener
    <3> QED
      BY <1>2, <1>3, <3>1, ElseQuiet
  <2> QED
    BY <2>1, <2>2
<1>6. CASE ReceivedByNobody(h, m)
  <2> DEFINE segments == IF "RST" \in m.flags THEN {} ELSE {send_reset(m)}
  <2>1. conn' = conn /\ made' = made /\ listener' = listener /\ Wire(net \ {m}, segments)
    BY <1>6 DEF ReceivedByNobody
  <2>2. segments \in SUBSET Segments /\ \A s \in segments : ~Proper(s)
    BY <1>3, ResetType
  <2> HIDE DEF segments
  <2>3. net' \subseteq net \cup segments
    BY <2>1, WireOnly
  <2> QED
    BY <1>2, <1>3, <2>1, <2>2, <2>3, ElseQuiet
<1> QED
  BY <1>1, <1>4, <1>5, <1>6

\* A connection that is forgotten.
LEMMA FreedQuiet ==
    ASSUME TypesOK, NEW h \in Hosts, Sets(h, free_conn), net' = net, listener' = listener,
           UNCHANGED <<made, written, pending, out, open, told>>
    PROVE  QuietStep(h)
<1>1. free_conn \in Conns /\ free_conn.state = "FREE" /\ free_conn.tx = <<>>
  BY FreeType DEF free_conn
<1>2. Quiet(h, free_conn, {})
  BY DEF Quiet, Sets, TypesOK
<1>3. Moves(h, free_conn)
  BY <1>1 DEF Moves
<1> QED
  BY <1>1, <1>2, <1>3 DEF QuietStep

\* What is sent again is the oldest of what the other side has not
\* acknowledged, with the number it had.
LEMMA AgainSendable ==
    ASSUME Small, TypesOK, Core, NEW h \in Hosts, Alive(h), conn[h].tx # <<>>,
           NEW n \in Nat, n <= Len(conn[h].tx),
           NEW k, k.rcv_nxt = conn[h].rcv_nxt, Heard(h, conn[h]) => Heard(h, k)
    PROVE  Sendable(h, k, send_segment(h, conn[h], {"ACK"}, conn[h].snd_una, SubSeq(conn[h].tx, 1, n)))
<1> DEFINE c == conn[h]
           d == SubSeq(c.tx, 1, n)
           f == {"ACK"}
           s == c.snd_una
           u == Off(c.snd_una, h)
           m == send_segment(h, c, f, s, d)
<1>1. c \in Conns /\ SendOK(h, c) /\ RecvOK(h, c)
  BY DEF TypesOK, Core, ConnOK
<1>2. c.tx \in Seq(Nat) /\ s \in Seqs /\ Len(c.tx) \in Nat
  BY <1>1 DEF Conns, Buffers
<1>3. Heard(h, c) /\ Answered(h, c) /\ made[h] >= 1
  BY <1>1 DEF SendOK, Unanswered, RecvOK, Unheard
<1>4. /\ written[h] \in Nat /\ Sent(h) \in {written[h] + 1, written[h] + 2}
      /\ open[h] <=> Sent(h) = written[h] + 1
  BY SentBound
<1>5. u \in 1 .. Sent(h) /\ (u <= written[h] + 1 => c.tx = Stretch(u - 1, written[h]))
  BY <1>3 DEF Answered
<1>6. d \in Seq(Nat) /\ Len(d) = n
  BY <1>2
<1>7. f \in SUBSET {"SYN", "ACK", "FIN"} /\ "FIN" \notin f /\ "SYN" \notin f
  OBVIOUS
<1> HIDE DEF u
<1>8. Len(d) > 0 => \/ u >= 1 /\ u - 1 + Len(d) <= written[h] /\ d = Stretch(u - 1, u - 1 + Len(d))
                    \/ u = written[h] + 2 /\ ~open[h]
  <2>1. CASE u <= written[h] + 1
    <3>1. u - 1 \in Nat /\ u - 1 <= written[h]
      BY <1>4, <1>5, <2>1
    <3>2. Len(Stretch(u - 1, written[h])) = written[h] - (u - 1)
      BY <1>4, <3>1, StretchLen
    <3>3. (u - 1) + n <= written[h]
      BY <1>4, <1>5, <2>1, <3>1, <3>2
    <3>4. SubSeq(Stretch(u - 1, written[h]), 1, n) = Stretch(u - 1, (u - 1) + n)
      BY <1>4, <3>1, <3>3, StretchHead
    <3>5. d = Stretch(u - 1, u - 1 + Len(d)) /\ u >= 1 /\ u - 1 + Len(d) <= written[h]
      BY <1>5, <1>6, <2>1, <3>1, <3>3, <3>4
    <3> HIDE DEF d
    <3> QED
      BY <3>5, Zenon
  <2>2. CASE ~(u <= written[h] + 1)
    <3>1. u = written[h] + 2 /\ ~open[h]
      BY <1>4, <1>5, <2>2
    <3> QED
      BY <3>1
  <2> QED
    BY <2>1, <2>2
<1> HIDE DEF d, f, s
<1>9. u = Off(s, h)
  BY DEF u, s
<1>10. m \in Segments /\ m.to = Peer(h) /\ Proper(m) /\ SegmentOK(m) /\ Off(m.ack, Peer(h)) = Got(h, c)
  BY <1>1, <1>2, <1>3, <1>6, <1>7, <1>8, <1>9, SentSegment
<1>11. Heard(h, k) /\ Got(h, k) = Got(h, c) /\ Got(h, c) \in Int
  <2>1. Got(h, c) \in Int
    BY <1>1, <1>3, HeardBound
  <2> QED
    BY <1>3, <2>1 DEF Got
<1>12. Sendable(h, k, m)
  BY <1>10, <1>11 DEF Sendable
<1> QED
  BY <1>12 DEF d, f, s

LEMMA TickQuiet ==
    ASSUME TypesOK, NEW h \in Hosts, tcp_tick(h)
    PROVE  QuietStep(h)
<1> DEFINE c == conn[h]
           n == Min({Len(c.tx), ChunkSize})
           again == send_segment(h, c, {"ACK"}, c.snd_una, SubSeq(c.tx, 1, n))
           up == [c EXCEPT !.state = "CLOSED", !.reset = TRUE]
           one_more == [c EXCEPT !.retries = @ + 1]
<1>1. listener' = listener /\ UNCHANGED <<made, written, pending, out, open, told>>
  BY DEF tcp_tick, history
<1>2. c \in Conns /\ listener \in {"listen", "closed", "free"}
  BY DEF TypesOK
<1>3. CASE TimeWaitEnds(h)
  <2>1. Sets(h, free_conn) /\ net' = net
    BY <1>3 DEF TimeWaitEnds
  <2> QED
    BY <1>1, <2>1, FreedQuiet
<1>4. CASE Retransmit(h) /\ c.retries >= TCP_MAX_RETRIES
  <2>1. Sets(h, up) /\ net' = net /\ c.tx # <<>>
    BY <1>4 DEF Retransmit
  <2>2. /\ up \in Conns /\ up.state = "CLOSED"
        /\ up.snd_una = c.snd_una /\ up.snd_nxt = c.snd_nxt /\ up.rcv_nxt = c.rcv_nxt
        /\ up.tx = c.tx /\ up.rx = c.rx /\ up.peer_closed = c.peer_closed
    BY <1>2 DEF Conns, States
  <2> HIDE DEF up
  <2>3. Quiet(h, up, {})
    BY <1>1, <1>2, <2>1 DEF Quiet, Sets
  <2>4. Small /\ Core => Moves(h, up)
    <3>1. ASSUME Small, Core, Alive(h) PROVE Moves(h, up)
      <4>1. SendOK(h, c) /\ RecvOK(h, c)
        BY <3>1 DEF Core, ConnOK
      <4> QED
        BY <2>2, <3>1, <4>1, ClosedKeeps
    <3>2. ASSUME Small, Core, ~Alive(h) PROVE FALSE
      BY <2>1, <3>2 DEF Core, ConnOK, Alive
    <3> QED
      BY <3>1, <3>2
  <2> QED
    BY <2>2, <2>3, <2>4 DEF QuietStep
<1>5. CASE Retransmit(h) /\ ~(c.retries >= TCP_MAX_RETRIES)
  <2>1. Sets(h, one_more) /\ Wire(net, {again}) /\ c.tx # <<>>
    BY <1>5 DEF Retransmit
  <2>2. c.tx \in Seq(Nat) /\ Len(c.tx) \in Nat /\ c.snd_una \in Seqs /\ c.retries \in 0 .. TCP_MAX_RETRIES
    BY <1>2 DEF Conns, Buffers
  <2>3. n \in Nat /\ n <= Len(c.tx)
    <3>1. ChunkSize \in Int /\ Len(c.tx) \in Int
      BY <2>2, TcpFacts
    <3>2. n = IF Len(c.tx) <= ChunkSize THEN Len(c.tx) ELSE ChunkSize
      BY <3>1, LesserOfTwo, Zenon
    <3> QED
      BY <2>2, <3>1, <3>2, TcpFacts
  <2>4. /\ one_more \in Conns /\ one_more.state = c.state
        /\ one_more.snd_una = c.snd_una /\ one_more.snd_nxt = c.snd_nxt
        /\ one_more.rcv_nxt = c.rcv_nxt /\ one_more.tx = c.tx /\ one_more.rx = c.rx
        /\ one_more.peer_closed = c.peer_closed
    <3>1. c.retries + 1 \in 0 .. TCP_MAX_RETRIES
      BY <1>5, <2>2, TcpFacts
    <3>2. one_more \in Conns
      BY <1>2, <3>1 DEF Conns
    <3> QED
      BY <1>2, <3>2 DEF Conns
  <2> HIDE DEF n, one_more
  <2>5. again \in Segments
    <3>1. SubSeq(c.tx, 1, n) \in Seq(Nat) /\ {"ACK"} \in SUBSET {"SYN", "ACK", "FIN", "RST"}
      BY <2>2, <2>3, SMTT(30)
    <3> QED
      BY <1>2, <2>2, <3>1, SegmentType
  <2>6. net' \subseteq net \cup {again}
    BY <2>1, WireOnly
  <2>7. ASSUME Small, Core PROVE Moves(h, one_more) /\ Sendable(h, one_more, again)
    <3>1. Alive(h)
      BY <2>1, <2>7 DEF Core, ConnOK
    <3>2. SendOK(h, c) /\ RecvOK(h, c)
      BY <2>7, <3>1 DEF Core, ConnOK
    <3>3. SendOK(h, one_more)
      BY <2>4, <3>2 DEF SendOK, Unanswered, Answered
    <3>4. Got(h, one_more) = Got(h, c) /\ Here(h, one_more) = Here(h, c)
      BY <2>4 DEF Got, Here
    <3>5. Unheard(h, c) => Unheard(h, one_more)
      BY <2>4 DEF Unheard
    <3>6. Heard(h, c) => Heard(h, one_more)
      BY <2>4, <3>4 DEF Heard
    <3>7. Moves(h, one_more)
      BY <2>4, <3>1, <3>2, <3>3, <3>5, <3>6 DEF Moves, RecvOK, Alive
    <3>8. Sendable(h, one_more, again)
      BY <2>1, <2>3, <2>4, <2>7, <3>1, <3>6, AgainSendable
    <3> QED
      BY <3>7, <3>8
  <2> HIDE DEF again
  <2>8. Quiet(h, one_more, {again})
    BY <1>1, <1>2, <2>1, <2>6 DEF Quiet, Sets
  <2> QED
    BY <2>4, <2>5, <2>7, <2>8 DEF QuietStep
<1> QED
  BY <1>3, <1>4, <1>5 DEF tcp_tick, Retransmit

-----------------------------------------------------------------------------
(* The steps that make a connection.                                       *)

Makes(h, k, s) ==
    /\ conn' = [conn EXCEPT ![h] = k]
    /\ made' = [made EXCEPT ![h] = @ + 1]
    /\ net' \subseteq net \cup {s}
    /\ UNCHANGED <<listener, written, pending, out, open, told>>

LEMMA MakesTypes ==
    ASSUME TypesOK, NEW h \in Hosts, NEW k \in Conns, NEW s \in Segments, Makes(h, k, s),
           made[h] < MaxConns[h]
    PROVE  TypesOK'
<1>1. made[h] + 1 \in Nat /\ made[h] + 1 <= MaxConns[h]
  <2>1. made[h] \in Nat
    BY DEF TypesOK
  <2>2. MaxConns[h] \in Nat
    BY TcpFacts
  <2> QED
    BY <2>1, <2>2
<1>2. made' \in [Hosts -> Nat] /\ \A g \in Hosts : made'[g] <= MaxConns[g]
  BY <1>1 DEF TypesOK, Makes
<1>3. conn' \in [Hosts -> Conns] /\ net' \subseteq Segments
  BY DEF TypesOK, Makes
<1> QED
  BY <1>2, <1>3 DEF TypesOK, Makes

LEMMA MakesKeeps ==
    ASSUME Small, TypesOK, Core, Single', NEW h \in Hosts, NEW n \in Seqs, NEW wnd,
           NEW st, NEW f, NEW s,
           s = send_segment(h, Opened(h, st, n, wnd), f, initial_sequence(h), <<>>),
           Makes(h, Opened(h, st, n, wnd), s),
           \/ h = Client /\ st = "SYN_SENT" /\ f = {"SYN"}
           \/ h = Server /\ st = "SYN_RECEIVED" /\ f = {"SYN", "ACK"}
              /\ made[Peer(h)] >= 1 /\ Off(n, Peer(h)) = 1
    PROVE  Core'
<1> DEFINE p == Peer(h)
           k == Opened(h, st, n, wnd)
<1>1. p \in Hosts /\ Peer(p) = h /\ p # h /\ (\A g \in Hosts : g = h \/ g = p)
      /\ (h = Server <=> h # Client)
  BY TcpFacts
<1>2. /\ k.state = st /\ k.snd_una = initial_sequence(h)
      /\ k.snd_nxt = Plus(initial_sequence(h), 1) /\ k.rcv_nxt = n
      /\ k.tx = <<>> /\ k.rx = <<>> /\ k.peer_closed = FALSE
  BY DEF Opened, free_conn
<1>3. /\ s.to = p /\ s.flags = f /\ s.seq = initial_sequence(h) /\ s.ack = n /\ s.data = <<>>
  BY <1>2 DEF send_segment
<1>4. Proper(s)
  BY <1>3 DEF Proper
<1> HIDE DEF p, k
<1>5. conn'[h] = k /\ conn'[p] = conn[p] /\ net' \subseteq net \cup {s}
      /\ written' = written /\ pending' = pending /\ open' = open /\ told' = told
  BY <1>1 DEF Makes, TypesOK, k
<1>6. made[h] = 0 /\ made'[h] = 1 /\ made'[p] = made[p] /\ made[p] \in Nat
  <2>1. made'[h] = made[h] + 1 /\ made[h] \in Nat /\ made'[p] = made[p] /\ made[p] \in Nat
    BY <1>1 DEF Makes, TypesOK
  <2>2. made'[h] <= 1
    BY DEF Single
  <2> QED
    BY <2>1, <2>2
<1>7. ConnOK(p) /\ UnmadeOK(h) /\ UnmadeOK(p) /\ PendingOK(h) /\ PendingOK(p)
      /\ (\A m \in net : Proper(m) => SegmentOK(m))
  BY <1>1 DEF Core
<1>8. written[h] = 0 /\ open[h] = TRUE /\ written[p] = 0 /\ open[p] = TRUE
      /\ UnaUpTo(p, 0) /\ Silent(p)
  BY <1>1, <1>6, <1>7 DEF UnmadeOK, Untouched, TypesOK, p
<1>9. /\ Off(initial_sequence(h), h) = 0 /\ Off(Plus(initial_sequence(h), 1), h) = 1
  <2>1. SeqSpace > 1
    BY <1>1, <1>8, SentBound, TcpFacts
  <2> QED
    BY <1>6, <2>1, FirstNumber
<1>10. \A m \in net : Proper(m) /\ m.to = p => "ACK" \notin m.flags
  BY <1>8 DEF Silent
<1>11. SendOK(h, conn[h])'
  BY <1>2, <1>5, <1>6, <1>8, <1>9 DEF SendOK, Unanswered
<1>12. RecvOK(h, conn[h])'
  <2>1. CASE h = Client /\ st = "SYN_SENT" /\ f = {"SYN"}
    <3>1. UnaUpTo(p, 0)'
      BY <1>5, <1>8 DEF UnaUpTo, Alive
    <3>2. Silent(p)'
      BY <1>3, <1>5, <1>10, <2>1 DEF Silent
    <3>3. Unheard(h, conn[h])'
      BY <1>2, <1>5, <1>8, <2>1, <3>1, <3>2 DEF Unheard, Untouched, p
    <3> QED
      BY <3>3 DEF RecvOK
  <2>2. CASE h = Server /\ st = "SYN_RECEIVED" /\ f = {"SYN", "ACK"}
             /\ made[Peer(h)] >= 1 /\ Off(n, Peer(h)) = 1
    <3>1. Taken(p) = 0
      <4>1. Len(pending[p]) \in Nat
        BY <1>1 DEF TypesOK
      <4> QED
        BY <1>7, <1>8, <4>1 DEF PendingOK, Taken
    <3>2. UnaUpTo(p, 1)'
      <4>1. Off(conn[p].snd_una, p) \in Nat
        BY <1>1, UnaType
      <4> QED
        BY <1>5, <1>8, <4>1 DEF UnaUpTo, Alive
    <3>3. AcksUpTo(p, 1)'
      <4>1. ASSUME NEW m \in net', m.to = p, Proper(m), "ACK" \in m.flags PROVE Off(m.ack, p) <= 1
        <5>1. m = s
          BY <1>5, <1>10, <4>1
        <5>2. Off(m.ack, p) = 1
          BY <1>3, <2>2, <5>1, Zenon DEF p
        <5> QED
          BY <5>2
      <4> QED
        BY <4>1 DEF AcksUpTo, Proper
    <3>4. Got(h, k) = 1 /\ Here(h, k) = 0
      BY <1>2, <2>2 DEF Got, Here
    <3>5. Stretch(0, 0) = <<>>
      BY NoStretch
    <3>6. Heard(h, conn[h])'
      <4>1. written'[p] = 0 /\ Taken(p)' = 0
        BY <1>5, <1>8, <3>1 DEF Taken
      <4>2. Got(h, conn[h])' = 1 /\ Here(h, conn[h])' = 0
        BY <1>5, <3>4 DEF Got, Here
      <4>3. 1 \in 1 .. 0 + 1 /\ made'[p] >= 1
        BY <1>6, <2>2 DEF p
      <4> QED
        BY <1>2, <1>5, <2>2, <3>2, <3>3, <3>5, <4>1, <4>2, <4>3 DEF Heard, p
    <3> QED
      BY <3>6 DEF RecvOK
  <2> QED
    BY <2>1, <2>2
<1>13. ConnOK(h)'
  BY <1>2, <1>5, <1>11, <1>12 DEF ConnOK, Alive
<1>14. Untouched(h) => UnaUpTo(h, 0)' /\ Silent(h)'
  <2>1. ASSUME Untouched(h) PROVE UnaUpTo(h, 0)' /\ Silent(h)'
    <3>1. UnaUpTo(h, 0)'
      BY <1>2, <1>5, <1>9 DEF UnaUpTo
    <3>2. Silent(h)'
      BY <1>1, <1>3, <1>5, <2>1 DEF Silent, Untouched
    <3> QED
      BY <3>1, <3>2
  <2> QED
    BY <2>1
<1>15. ConnOK(p)'
  <2>1. CASE ~Alive(p)
    BY <1>5, <1>7, <2>1 DEF ConnOK, Alive
  <2>2. CASE Alive(p)
    <3>1. SendOK(p, conn[p]) /\ RecvOK(p, conn[p])
      BY <1>7, <2>2 DEF ConnOK
    <3>2. SendOK(p, conn[p])'
      BY <1>5, <1>6, <3>1 DEF SendOK, Unanswered, Answered, Sent
    <3>3. ~Heard(p, conn[p])
      BY <1>1, <1>6 DEF Heard
    <3>4. Unheard(p, conn[p])'
      <4>1. Unheard(p, conn[p])
        BY <3>1, <3>3 DEF RecvOK
      <4>2. Untouched(h)'
        BY <1>1, <1>5, <1>14, <4>1 DEF Unheard, Untouched
      <4> QED
        BY <1>1, <1>5, <4>1, <4>2 DEF Unheard
    <3> QED
      BY <1>5, <2>2, <3>2, <3>4 DEF ConnOK, RecvOK, Alive
  <2> QED
    BY <2>1, <2>2
<1>16. UnmadeOK(h)'
  BY <1>6 DEF UnmadeOK
<1>17. UnmadeOK(p)'
  <2>1. ASSUME made[p] = 0 PROVE ~Alive(p)' /\ Untouched(h)'
    BY <1>1, <1>5, <1>7, <1>14, <2>1 DEF UnmadeOK, Untouched, Alive
  <2> QED
    BY <1>1, <1>5, <1>6, <1>7, <2>1 DEF UnmadeOK
<1>18. PendingOK(h)' /\ PendingOK(p)'
  BY <1>5, <1>7 DEF PendingOK, Taken
<1>19. \A m \in net' : Proper(m) => SegmentOK(m)'
  <2>1. ASSUME NEW m \in net, Proper(m) PROVE SegmentOK(m)'
    <3>1. SegmentOK(m)
      BY <1>7, <2>1
    <3>2. m.to \in Hosts /\ Peer(m.to) \in Hosts
      BY TcpFacts DEF TypesOK, Segments
    <3>3. made[Peer(m.to)] >= 1 => made'[Peer(m.to)] >= 1
      BY <1>1, <1>6, <3>2
    <3> QED
      BY <1>5, <3>1, <3>3 DEF SegmentOK, Sent
  <2>2. SegmentOK(s)'
    <3>1. Len(s.data) = 0 /\ Off(s.seq, h) = 0 /\ Peer(s.to) = h
      BY <1>1, <1>3, <1>9
    <3>2. Sent(p)' = 1
      BY <1>5, <1>8 DEF Sent
    <3>3. "FIN" \notin s.flags /\ ("ACK" \in s.flags <=> h = Server)
      BY <1>1, <1>3
    <3>4. "ACK" \in s.flags => Off(s.ack, s.to) <= Sent(s.to)'
      BY <1>1, <1>3, <3>2 DEF p
    <3> QED
      BY <1>6, <3>1, <3>3, <3>4 DEF SegmentOK
  <2> QED
    BY <1>5, <2>1, <2>2
<1> QED
  BY <1>1, <1>13, <1>15, <1>16, <1>17, <1>18, <1>19 DEF Core

LEMMA OpenKeeps ==
    ASSUME TypesOK, NEW h \in Hosts, tcp_open(h)
    PROVE  TypesOK' /\ (Small /\ Core /\ Single' => Core')
<1> DEFINE c == Opened(h, "SYN_SENT", 0, 0)
           s == send_segment(h, c, {"SYN"}, c.snd_una, <<>>)
<1>1. /\ h = Client /\ made[h] < MaxConns[h]
      /\ conn' = [conn EXCEPT ![h] = c] /\ made' = [made EXCEPT ![h] = @ + 1]
      /\ Wire(net, {s}) /\ UNCHANGED <<listener, written, pending, out, open, told>>
  BY DEF tcp_open, Sets, history
<1>2. 0 \in Seqs /\ 0 \in 0 .. TCP_BUFFER_SIZE /\ "SYN_SENT" \in States /\ made[h] \in Nat
  <2>1. 0 \in Seqs
    BY TcpFacts DEF Seqs
  <2>2. 0 \in 0 .. TCP_BUFFER_SIZE
    BY TcpFacts
  <2>3. "SYN_SENT" \in States
    BY DEF States
  <2>4. made[h] \in Nat
    BY DEF TypesOK
  <2> QED
    BY <2>1, <2>2, <2>3, <2>4
<1>3. c \in Conns /\ c.snd_una = initial_sequence(h)
  BY <1>2, OpenedType DEF Opened, free_conn
<1>4. s \in Segments
  <2>1. c.snd_una \in Seqs /\ {"SYN"} \in SUBSET {"SYN", "ACK", "FIN", "RST"}
    BY <1>3 DEF Conns
  <2> QED
    BY <1>3, <2>1, PlainType
<1>5. s = send_segment(h, c, {"SYN"}, initial_sequence(h), <<>>)
  BY <1>3
<1> HIDE DEF s
<1>6. Makes(h, c, s)
  BY <1>1, WireOnly DEF Makes
<1>7. TypesOK'
  BY <1>1, <1>3, <1>4, <1>6, MakesTypes
<1>8. Small /\ Core /\ Single' => Core'
  BY <1>1, <1>2, <1>5, <1>6, MakesKeeps
<1> QED
  BY <1>7, <1>8

LEMMA AcceptsKeeps ==
    ASSUME TypesOK, NEW h \in Hosts, NEW m \in net, Accepts(h, m)
    PROVE  TypesOK' /\ (Small /\ Core /\ Single' => Core')
<1> DEFINE n == Plus(m.seq, 1)
           c == Opened(h, "SYN_RECEIVED", n, m.wnd)
           f == {"SYN", "ACK"}
           s == send_segment(h, c, f, c.snd_una, <<>>)
<1>1. /\ h = Server /\ made[h] < MaxConns[h] /\ Proper(m) /\ m.to = h /\ "SYN" \in m.flags
      /\ conn' = [conn EXCEPT ![h] = c] /\ made' = [made EXCEPT ![h] = @ + 1]
      /\ net' \subseteq net \cup {s} /\ UNCHANGED <<listener, written, pending, out, open, told>>
  BY DEF Accepts
<1>2. m.seq \in Seqs /\ m.wnd \in 0 .. TCP_BUFFER_SIZE /\ "SYN_RECEIVED" \in States /\ made[h] \in Nat
  BY DEF Seqs, States, TypesOK, Segments
<1>3. n \in Seqs
  BY <1>2, PlusType
<1> HIDE DEF n
<1>4. c \in Conns /\ c.snd_una = initial_sequence(h)
  BY <1>2, <1>3, OpenedType DEF Opened, free_conn
<1>5. s \in Segments
  <2>1. c.snd_una \in Seqs /\ f \in SUBSET {"SYN", "ACK", "FIN", "RST"}
    BY <1>4 DEF Conns
  <2> QED
    BY <1>4, <2>1, PlainType
<1>6. s = send_segment(h, c, f, initial_sequence(h), <<>>)
  BY <1>4
<1> HIDE DEF s, f
<1>7. Makes(h, c, s)
  BY <1>1 DEF Makes
<1>8. TypesOK'
  BY <1>1, <1>4, <1>5, <1>7, MakesTypes
<1>9. Small /\ Core => made[Peer(h)] >= 1 /\ Off(n, Peer(h)) = 1
  <2>1. ASSUME Small, Core PROVE made[Peer(h)] >= 1 /\ Off(n, Peer(h)) = 1
    <3>1. SegmentOK(m)
      BY <1>1, <2>1 DEF Core
    <3>2. made[Peer(h)] >= 1 /\ Off(m.seq, Peer(h)) = 0
      BY <1>1, <3>1 DEF SegmentOK
    <3>3. Peer(h) \in Hosts
      BY TcpFacts
    <3>4. 0 + 1 < SeqSpace
      <4>1. written[h] \in Nat /\ written[h] + 2 < SeqSpace
        BY <2>1, SentBound
      <4> QED
        BY <4>1, TcpFacts
    <3> QED
      BY <1>2, <3>2, <3>3, <3>4, OffPlus DEF n
  <2> QED
    BY <2>1
<1>10. ASSUME Small, Core, Single' PROVE Core'
  BY <1>1, <1>3, <1>6, <1>7, <1>9, <1>10, MakesKeeps DEF f
<1> QED
  BY <1>8, <1>10

-----------------------------------------------------------------------------
(* Writing, reading and closing.                                           *)

Closes(h, st) ==
    LET c == conn[h]
    IN  /\ c.state = (IF st = "FIN_WAIT_1" THEN "ESTABLISHED" ELSE "CLOSE_WAIT")
        /\ conn' = [conn EXCEPT ![h] = [c EXCEPT !.snd_nxt = Plus(@, 1), !.state = st]]
        /\ net' \subseteq net \cup {send_segment(h, c, {"FIN", "ACK"}, c.snd_nxt, <<>>)}
        /\ open' = [open EXCEPT ![h] = FALSE]
        /\ UNCHANGED <<listener, made, written, pending, out, told>>

LEMMA ShutdownShape ==
    ASSUME TypesOK, NEW h \in Hosts, tcp_shutdown(h)
    PROVE  QuietStep(h) \/ Closes(h, "FIN_WAIT_1") \/ Closes(h, "LAST_ACK")
<1> DEFINE c == conn[h]
           s == send_segment(h, c, {"FIN", "ACK"}, c.snd_nxt, <<>>)
           Fin(state) ==
             /\ Sets(h, [c EXCEPT !.snd_nxt = Plus(@, 1), !.state = state])
             /\ Wire(net, {s})
             /\ open' = [open EXCEPT ![h] = FALSE]
<1>1. \/ c.state = "ESTABLISHED" /\ Fin("FIN_WAIT_1")
      \/ c.state = "CLOSE_WAIT" /\ Fin("LAST_ACK")
      \/ Sets(h, free_conn) /\ UNCHANGED <<net, open>>
  BY DEF tcp_shutdown
<1>2. UNCHANGED <<listener, made, written, pending, out, told>>
  BY DEF tcp_shutdown
<1>3. CASE c.state = "ESTABLISHED" /\ Fin("FIN_WAIT_1")
  <2>1. net' \subseteq net \cup {s}
    BY <1>3, WireOnly
  <2> QED
    BY <1>2, <1>3, <2>1 DEF Closes, Sets
<1>4. CASE c.state = "CLOSE_WAIT" /\ Fin("LAST_ACK")
  <2>1. net' \subseteq net \cup {s}
    BY <1>4, WireOnly
  <2> QED
    BY <1>2, <1>4, <2>1 DEF Closes, Sets
<1>5. CASE Sets(h, free_conn) /\ UNCHANGED <<net, open>>
  BY <1>2, <1>5, FreedQuiet
<1> QED
  BY <1>1, <1>3, <1>4, <1>5

LEMMA ClosesTypes ==
    ASSUME TypesOK, NEW h \in Hosts, NEW st \in {"FIN_WAIT_1", "LAST_ACK"}, Closes(h, st)
    PROVE  TypesOK'
<1> DEFINE c == conn[h]
           k == [c EXCEPT !.snd_nxt = Plus(@, 1), !.state = st]
           s == send_segment(h, c, {"FIN", "ACK"}, c.snd_nxt, <<>>)
<1>1. c \in Conns /\ c.snd_nxt \in Seqs /\ st \in States
  BY DEF TypesOK, Conns, States
<1>2. Plus(c.snd_nxt, 1) \in Seqs
  BY <1>1, PlusType
<1>3. k \in Conns
  BY <1>1, <1>2 DEF Conns
<1>4. s \in Segments
  <2>1. {"FIN", "ACK"} \in SUBSET {"SYN", "ACK", "FIN", "RST"}
    OBVIOUS
  <2> QED
    BY <1>1, <2>1, PlainType
<1> HIDE DEF k, s
<1>5. conn' = [conn EXCEPT ![h] = k] /\ net' \subseteq net \cup {s} /\ open' = [open EXCEPT ![h] = FALSE]
      /\ UNCHANGED <<listener, made, written, pending, out, told>>
  BY DEF Closes, k, s
<1> QED
  BY <1>3, <1>4, <1>5 DEF TypesOK

\* A side that has been answered is known to the other one.
LEMMA KnownToPeer ==
    ASSUME Small, TypesOK, Core, NEW h \in Hosts, Alive(h), Answered(h, conn[h])
    PROVE  /\ made[Peer(h)] >= 1
           /\ Alive(Peer(h)) => SendOK(Peer(h), conn[Peer(h)]) /\ Heard(Peer(h), conn[Peer(h)])
<1> DEFINE p == Peer(h)
<1>1. p \in Hosts /\ Peer(p) = h
  BY TcpFacts
<1> HIDE DEF p
<1>2. ~Untouched(h)
  <2>1. Off(conn[h].snd_una, h) >= 1 /\ Off(conn[h].snd_una, h) \in Nat
    BY UnaType DEF Answered
  <2> QED
    BY <2>1 DEF Untouched, UnaUpTo
<1>3. ConnOK(p) /\ UnmadeOK(p) /\ made[p] \in Nat
  BY <1>1 DEF Core, TypesOK
<1>4. made[p] >= 1
  BY <1>1, <1>2, <1>3 DEF UnmadeOK
<1>5. Alive(p) => SendOK(p, conn[p]) /\ Heard(p, conn[p])
  BY <1>1, <1>2, <1>3 DEF ConnOK, RecvOK, Unheard
<1> QED
  BY <1>4, <1>5 DEF p

LEMMA ClosesKeeps ==
    ASSUME Small, TypesOK, Core, NEW h \in Hosts, NEW st \in {"FIN_WAIT_1", "LAST_ACK"}, Closes(h, st)
    PROVE  Core'
<1> DEFINE p == Peer(h)
           c == conn[h]
<1>a. PICK k : k = [c EXCEPT !.snd_nxt = Plus(@, 1), !.state = st]
  OBVIOUS
<1>b. PICK s : s = send_segment(h, c, {"FIN", "ACK"}, c.snd_nxt, <<>>)
  OBVIOUS
<1>1. p \in Hosts /\ Peer(p) = h /\ p # h /\ (\A g \in Hosts : g = h \/ g = p)
  BY TcpFacts
<1>2. c \in Conns /\ c.snd_nxt \in Seqs
  BY DEF TypesOK, Conns
<1>3. /\ k.state = st /\ k.snd_una = c.snd_una /\ k.snd_nxt = Plus(c.snd_nxt, 1)
      /\ k.rcv_nxt = c.rcv_nxt /\ k.tx = c.tx /\ k.rx = c.rx /\ k.peer_closed = c.peer_closed
  BY <1>a, <1>2 DEF Conns
<1>4. /\ s.to = p /\ s.flags = {"FIN", "ACK"} /\ s.seq = c.snd_nxt /\ s.ack = c.rcv_nxt
      /\ s.data = <<>>
  BY <1>b DEF send_segment
<1>5. /\ conn' = [conn EXCEPT ![h] = k] /\ net' \subseteq net \cup {s}
      /\ open' = [open EXCEPT ![h] = FALSE]
      /\ UNCHANGED <<made, written, pending, told>>
      /\ c.state = (IF st = "FIN_WAIT_1" THEN "ESTABLISHED" ELSE "CLOSE_WAIT")
  BY <1>a, <1>b DEF Closes
<1> HIDE DEF p
<1>6. conn'[h] = k /\ conn'[p] = conn[p] /\ open'[h] = FALSE /\ open'[p] = open[p]
  BY <1>1, <1>5 DEF TypesOK
<1>7. Alive(h) /\ c.state \in {"ESTABLISHED", "CLOSE_WAIT"}
  BY <1>5 DEF Alive
<1>8. SendOK(h, c) /\ RecvOK(h, c)
  BY <1>7 DEF Core, ConnOK
<1>9. Answered(h, c) /\ Heard(h, c) /\ open[h] = TRUE /\ made[h] >= 1
  BY <1>7, <1>8 DEF SendOK, Unanswered, RecvOK, Unheard, TypesOK
<1>10. made[p] >= 1 /\ (Alive(p) => SendOK(p, conn[p]) /\ Heard(p, conn[p]))
  BY <1>7, <1>9, KnownToPeer DEF p
<1>11. written[h] \in Nat /\ written[h] + 2 < SeqSpace /\ Sent(h) = written[h] + 1 /\ Sent(h)' = written[h] + 2
  BY <1>5, <1>6, <1>9, SentBound DEF Sent
<1>12. Off(c.snd_nxt, h) = written[h] + 1 /\ Off(k.snd_nxt, h) = written[h] + 2
  <2>1. Off(c.snd_nxt, h) = written[h] + 1 /\ written[h] + 1 + 1 < SeqSpace
    BY <1>9, <1>11 DEF Answered
  <2>2. Off(Plus(c.snd_nxt, 1), h) = written[h] + 1 + 1
    BY <1>2, <2>1, OffPlus
  <2> QED
    BY <1>3, <1>11, <2>1, <2>2
<1>13. SendOK(h, conn[h])'
  <2>1. Off(k.snd_una, h) \in 1 .. written[h] + 2
        /\ (Off(k.snd_una, h) <= written[h] + 1 => k.tx = Stretch(Off(k.snd_una, h) - 1, written[h]))
    BY <1>3, <1>9, <1>11 DEF Answered
  <2>2. Answered(h, conn[h])'
    BY <1>3, <1>5, <1>6, <1>11, <1>12, <2>1 DEF Answered
  <2> QED
    BY <1>3, <1>5, <1>6, <1>9, <2>2 DEF SendOK
<1>14. Got(h, k) = Got(h, c) /\ Here(h, k) = Here(h, c) /\ Got(h, c) \in 1 .. Sent(p)
  BY <1>2, <1>3, <1>9, HeardBound DEF Got, Here, p
<1>15. RecvOK(h, conn[h])'
  <2>1. UnaUpTo(p, Got(h, k))'
    BY <1>6, <1>9, <1>14 DEF Heard, UnaUpTo, Alive, p
  <2>2. AcksUpTo(p, Got(h, k))'
    <3>1. ASSUME NEW m \in net', m.to = p, Proper(m), "ACK" \in m.flags PROVE Off(m.ack, p) <= Got(h, k)
      <4>1. CASE m \in net
        BY <1>9, <1>14, <3>1, <4>1 DEF Heard, AcksUpTo, p
      <4>2. CASE m = s
        BY <1>4, <1>14, <4>2 DEF Got, p
      <4> QED
        BY <1>5, <4>1, <4>2
    <3> QED
      BY <3>1 DEF AcksUpTo, Proper
  <2>3. Heard(h, k)'
    BY <1>3, <1>5, <1>6, <1>7, <1>9, <1>14, <2>1, <2>2 DEF Heard, Got, Here, Taken, Conversant, p
  <2> QED
    BY <1>6, <2>3 DEF RecvOK
<1>16. ConnOK(h)'
  BY <1>3, <1>6, <1>13, <1>15 DEF ConnOK, Alive
<1>17. ConnOK(p)'
  <2>1. CASE ~Alive(p)
    BY <1>1, <1>6, <2>1 DEF ConnOK, Alive, Core
  <2>2. CASE Alive(p)
    <3>1. SendOK(p, conn[p])'
      BY <1>5, <1>6, <1>10, <2>2 DEF SendOK, Unanswered, Answered, Sent
    <3>2. Heard(p, conn[p])
      BY <1>10, <2>2
    <3>3. PICK n : n = Got(p, conn[p])
      OBVIOUS
    <3>4. UnaUpTo(h, n)' /\ AcksUpTo(h, n)'
      <4>1. UnaUpTo(h, n)'
        BY <1>1, <1>3, <1>6, <1>7, <3>2, <3>3 DEF Heard, UnaUpTo
      <4>2. AcksUpTo(h, n)'
        BY <1>1, <1>4, <1>5, <3>2, <3>3 DEF Heard, AcksUpTo
      <4> QED
        BY <4>1, <4>2
    <3>5. ~conn[p].peer_closed
      BY <1>1, <1>9, <3>2 DEF Heard
    <3>6. Heard(p, conn[p])'
      BY <1>1, <1>5, <1>6, <3>2, <3>3, <3>4, <3>5 DEF Heard, Got, Here, Taken, UnaUpTo, AcksUpTo
    <3> QED
      BY <1>6, <2>2, <3>1, <3>6 DEF ConnOK, RecvOK, Alive
  <2> QED
    BY <2>1, <2>2
<1>18. UnmadeOK(h)' /\ UnmadeOK(p)'
  BY <1>5, <1>9, <1>10 DEF UnmadeOK
<1>19. PendingOK(h)' /\ PendingOK(p)'
  BY <1>1, <1>5, <1>6 DEF Core, PendingOK, Taken
<1>20. \A m \in net' : Proper(m) => SegmentOK(m)'
  <2>1. ASSUME NEW m \in net, Proper(m) PROVE SegmentOK(m)'
    <3>1. SegmentOK(m)
      BY <2>1 DEF Core
    <3>2. CASE m.to = p
      <4>1. Sent(p)' = Sent(p)
        BY <1>5, <1>6 DEF Sent
      <4> QED
        BY <1>1, <1>5, <1>6, <1>9, <3>1, <3>2, <4>1 DEF SegmentOK
    <3>3. CASE m.to = h
      <4>1. Off(m.ack, h) \in Nat
        BY UnaType
      <4> QED
        BY <1>5, <1>6, <1>11, <3>1, <3>3, <4>1 DEF SegmentOK, p
    <3> QED
      BY <1>1, <3>2, <3>3 DEF TypesOK, Segments
  <2>2. SegmentOK(s)'
    <3>1. Len(s.data) = 0 /\ Off(s.seq, h) = written[h] + 1 /\ Peer(s.to) = h /\ "SYN" \notin s.flags
      BY <1>1, <1>4, <1>12
    <3>2. Off(s.ack, s.to) <= Sent(s.to)'
      <4>1. Sent(p)' = Sent(p)
        BY <1>5, <1>6 DEF Sent
      <4>2. Off(s.ack, s.to) = Got(h, c)
        BY <1>4 DEF Got, p
      <4>3. Sent(s.to)' = Sent(p)'
        BY <1>4 DEF Sent
      <4>4. Sent(p) \in Int /\ Got(h, c) <= Sent(p) /\ Got(h, c) \in Int
        BY <1>1, <1>14, SentBound
      <4> QED
        BY <4>1, <4>2, <4>3, <4>4
    <3> QED
      BY <1>5, <1>6, <1>9, <3>1, <3>2 DEF SegmentOK
  <2> QED
    BY <1>5, <2>1, <2>2
<1> QED
  BY <1>1, <1>16, <1>17, <1>18, <1>19, <1>20 DEF Core

\* A write of n bytes, j of which go out at once.
Writes(h, n, j) ==
    LET c == conn[h]
    IN  /\ c.state = "ESTABLISHED"
        /\ n >= 1 /\ Len(c.tx) + n <= TCP_BUFFER_SIZE /\ written[h] + n <= MaxBytes[h]
        /\ conn' = [conn EXCEPT ![h] = [c EXCEPT !.tx = c.tx \o Stretch(written[h], written[h] + n),
                                                 !.snd_nxt = Plus(c.snd_nxt, j),
                                                 !.armed = TRUE, !.retries = 0]]
        /\ net' \subseteq net \cup {send_segment(h, c, {"ACK"}, c.snd_nxt, Stretch(written[h], written[h] + j))}
        /\ written' = [written EXCEPT ![h] = written[h] + n]
        /\ pending' = [pending EXCEPT ![h] = pending[h] \o Stretch(written[h], written[h] + n)]
        /\ UNCHANGED <<listener, made, out, open, told>>

LEMMA WriteShape ==
    ASSUME TypesOK, NEW h \in Hosts, NEW len \in WriteLens, tcp_write(h, len)
    PROVE  \E n \in Nat : \E j \in 0 .. n : Writes(h, n, j) /\ (len = 1 => n = 1 /\ j = 1)
<1> DEFINE c == conn[h]
           room == TCP_BUFFER_SIZE - Len(c.tx)
           n == Min({len, room})
           bytes == [i \in 1 .. n |-> written[h] + i]
           chunk == Min({n, ChunkSize})
           j == IF c.snd_wnd > 0 /\ chunk > c.snd_wnd THEN c.snd_wnd ELSE chunk
           s == send_segment(h, c, {"ACK"}, c.snd_nxt, SubSeq(bytes, 1, j))
<1>1. /\ c.state = "ESTABLISHED" /\ n > 0 /\ written[h] + n <= MaxBytes[h]
      /\ conn' = [conn EXCEPT ![h] = [c EXCEPT !.tx = c.tx \o bytes, !.snd_nxt = Plus(c.snd_nxt, j),
                                               !.armed = TRUE, !.retries = 0]]
      /\ Wire(net, {s})
      /\ written' = [written EXCEPT ![h] = written[h] + n]
      /\ pending' = [pending EXCEPT ![h] = pending[h] \o bytes]
      /\ UNCHANGED <<listener, made, out, open, told>>
  BY DEF tcp_write, Sets
<1>2. /\ c \in Conns /\ written[h] \in Nat /\ len \in Nat \ {0}
      /\ ChunkSize \in Nat \ {0} /\ TCP_BUFFER_SIZE \in Nat
  BY TcpFacts, TcpAssumption DEF TypesOK
<1>3. Len(c.tx) \in Nat /\ room \in Nat /\ Len(c.tx) + room = TCP_BUFFER_SIZE /\ c.snd_wnd \in Nat
  BY <1>2 DEF Conns, Buffers
<1>4. n = IF len <= room THEN len ELSE room
  <2>1. len \in Int /\ room \in Int
    BY <1>2, <1>3
  <2> HIDE DEF room
  <2> QED
    BY <2>1, LesserOfTwo, Zenon
<1> HIDE DEF room
<1>5. n \in Nat /\ n >= 1 /\ n <= room /\ (len = 1 => n = 1)
  BY <1>1, <1>2, <1>3, <1>4
<1> HIDE DEF n
<1>6. chunk = IF n <= ChunkSize THEN n ELSE ChunkSize
  BY <1>2, <1>5, LesserOfTwo
<1>7. chunk \in 0 .. n /\ (n = 1 => chunk = 1)
  BY <1>2, <1>5, <1>6
<1> HIDE DEF chunk
<1>8. j \in 0 .. n /\ (n = 1 => j = 1)
  BY <1>3, <1>5, <1>7
<1> HIDE DEF j
<1>9. bytes = Stretch(written[h], written[h] + n)
  <2>1. (written[h] + n) - written[h] = n
    BY <1>2, <1>5
  <2> QED
    BY <2>1, Zenon DEF Stretch
<1>10. SubSeq(bytes, 1, j) = Stretch(written[h], written[h] + j)
  <2>1. written[h] + n \in Nat /\ j \in Nat /\ written[h] + j <= written[h] + n
    BY <1>2, <1>5, <1>8
  <2>2. SubSeq(Stretch(written[h], written[h] + n), 1, j) = Stretch(written[h], written[h] + j)
    BY <1>2, <2>1, StretchHead
  <2> QED
    BY <1>9, <2>2
<1> HIDE DEF bytes
<1>11. net' \subseteq net \cup {s}
  BY <1>1, WireOnly
<1>12. Len(c.tx) + n <= TCP_BUFFER_SIZE
  BY <1>3, <1>5
<1>13. Writes(h, n, j)
  BY <1>1, <1>5, <1>9, <1>10, <1>11, <1>12 DEF Writes
<1> QED
  BY <1>5, <1>8, <1>13

LEMMA WritesTypes ==
    ASSUME TypesOK, NEW h \in Hosts, NEW n \in Nat, NEW j \in 0 .. n, Writes(h, n, j)
    PROVE  TypesOK'
<1> DEFINE c == conn[h]
           b == Stretch(written[h], written[h] + n)
           d == Stretch(written[h], written[h] + j)
           k == [c EXCEPT !.tx = c.tx \o b, !.snd_nxt = Plus(c.snd_nxt, j), !.armed = TRUE, !.retries = 0]
           s == send_segment(h, c, {"ACK"}, c.snd_nxt, d)
<1>1. c \in Conns /\ c.snd_nxt \in Seqs /\ c.tx \in Seq(Nat) /\ Len(c.tx) \in Nat /\ written[h] \in Nat
      /\ pending[h] \in Seq(Nat)
  BY DEF TypesOK, Conns, Buffers
<1>2. b \in Seq(Nat) /\ Len(b) = n /\ d \in Seq(Nat)
  <2>1. written[h] + n \in Nat /\ written[h] + j \in Nat /\ written[h] <= written[h] + n
        /\ (written[h] + n) - written[h] = n
    BY <1>1
  <2>2. Len(b) = n
    BY <1>1, <2>1, StretchLen
  <2>3. \A hi \in Nat : Stretch(written[h], hi) \in Seq(Nat)
    BY <1>1, StretchType
  <2> QED
    BY <2>1, <2>2, <2>3
<1> HIDE DEF b, d
<1>3. Plus(c.snd_nxt, j) \in Seqs /\ 0 \in 0 .. TCP_MAX_RETRIES
  BY <1>1, PlusType, TcpFacts
<1>4. c.tx \o b \in Buffers
  <2>1. c.tx \o b \in Seq(Nat) /\ Len(c.tx \o b) = Len(c.tx) + n
    BY <1>1, <1>2, BothLen
  <2>2. Len(c.tx) + n <= TCP_BUFFER_SIZE
    BY DEF Writes
  <2> QED
    BY <2>1, <2>2 DEF Buffers
<1>5. k \in Conns
  BY <1>1, <1>3, <1>4 DEF Conns
<1>6. s \in Segments
  <2>1. {"ACK"} \in SUBSET {"SYN", "ACK", "FIN", "RST"}
    OBVIOUS
  <2> QED
    BY <1>1, <1>2, <2>1, SegmentType
<1> HIDE DEF k, s
<1>7. /\ conn' = [conn EXCEPT ![h] = k] /\ net' \subseteq net \cup {s}
      /\ written' = [written EXCEPT ![h] = written[h] + n] /\ written[h] + n <= MaxBytes[h]
      /\ pending' = [pending EXCEPT ![h] = pending[h] \o b]
      /\ UNCHANGED <<listener, made, out, open, told>>
  BY DEF Writes, k, s, b, d
<1>8. conn' \in [Hosts -> Conns] /\ net' \subseteq Segments
  BY <1>5, <1>6, <1>7 DEF TypesOK
<1>9. written' \in [Hosts -> Nat] /\ \A g \in Hosts : written'[g] <= MaxBytes[g]
  BY <1>1, <1>7 DEF TypesOK
<1>10. pending' \in [Hosts -> Seq(Nat)]
  <2>1. pending[h] \o b \in Seq(Nat)
    BY <1>1, <1>2
  <2> QED
    BY <1>7, <2>1 DEF TypesOK
<1> QED
  BY <1>7, <1>8, <1>9, <1>10 DEF TypesOK

LEMMA WritesKeeps ==
    ASSUME Small, TypesOK, Core, NEW h \in Hosts, NEW n \in Nat, NEW j \in 0 .. n, Writes(h, n, j),
           Whole(h)
    PROVE  Core'
<1> DEFINE p == Peer(h)
           c == conn[h]
<1>a. PICK w : w = written[h]
  OBVIOUS
<1>b. PICK k : k = [c EXCEPT !.tx = c.tx \o Stretch(w, w + n), !.snd_nxt = Plus(c.snd_nxt, j),
                            !.armed = TRUE, !.retries = 0]
  OBVIOUS
<1>c. PICK s : s = send_segment(h, c, {"ACK"}, c.snd_nxt, Stretch(w, w + j))
  OBVIOUS
<1>1. p \in Hosts /\ Peer(p) = h /\ p # h /\ (\A g \in Hosts : g = h \/ g = p)
  BY TcpFacts
<1>2. c \in Conns /\ c.snd_nxt \in Seqs /\ w \in Nat /\ pending[h] \in Seq(Nat) /\ Len(pending[h]) \in Nat
  BY <1>a DEF TypesOK, Conns
<1>3. /\ k.state = c.state /\ k.snd_una = c.snd_una /\ k.snd_nxt = Plus(c.snd_nxt, j)
      /\ k.rcv_nxt = c.rcv_nxt /\ k.tx = c.tx \o Stretch(w, w + n) /\ k.rx = c.rx
      /\ k.peer_closed = c.peer_closed
  BY <1>b, <1>2 DEF Conns
<1>4. /\ s.to = p /\ s.flags = {"ACK"} /\ s.seq = c.snd_nxt /\ s.ack = c.rcv_nxt
      /\ s.data = Stretch(w, w + j)
  BY <1>c DEF send_segment
<1>5. /\ conn' = [conn EXCEPT ![h] = k] /\ net' \subseteq net \cup {s}
      /\ written' = [written EXCEPT ![h] = w + n]
      /\ pending' = [pending EXCEPT ![h] = pending[h] \o Stretch(w, w + n)]
      /\ UNCHANGED <<made, open, told>>
      /\ c.state = "ESTABLISHED" /\ n >= 1 /\ w + n <= MaxBytes[h]
  BY <1>a, <1>b, <1>c DEF Writes
<1> HIDE DEF p
<1>6. /\ conn'[h] = k /\ conn'[p] = conn[p] /\ written'[h] = w + n /\ written'[p] = written[p]
      /\ pending'[h] = pending[h] \o Stretch(w, w + n) /\ pending'[p] = pending[p]
  BY <1>1, <1>5 DEF TypesOK
<1>7. Alive(h)
  BY <1>5 DEF Alive
<1>8. SendOK(h, c) /\ RecvOK(h, c)
  BY <1>7 DEF Core, ConnOK
<1>9. Answered(h, c) /\ Heard(h, c) /\ open[h] = TRUE /\ made[h] >= 1
  BY <1>5, <1>8 DEF SendOK, Unanswered, RecvOK, Unheard, TypesOK
<1>10. made[p] >= 1 /\ (Alive(p) => SendOK(p, conn[p]) /\ Heard(p, conn[p]))
  BY <1>7, <1>9, KnownToPeer DEF p
<1>11. w + n + 1 < SeqSpace /\ Sent(h) = w + 1 /\ Sent(h)' = w + n + 1
  <2>1. MaxBytes[h] + 2 < SeqSpace \div 2 /\ MaxBytes[h] \in Nat
    BY TcpFacts DEF Small
  <2>2. w + n + 1 < SeqSpace
    <3>1. SeqSpace \div 2 \in Nat /\ SeqSpace \in Nat /\ 2 * (SeqSpace \div 2) = SeqSpace
      BY TcpFacts
    <3>2. w + n <= MaxBytes[h]
      BY <1>5
    <3> QED
      BY <1>2, <2>1, <3>1, <3>2, SMTT(30)
  <2> QED
    BY <1>a, <1>5, <1>6, <1>9, <2>2 DEF Sent
<1>12. Off(c.snd_nxt, h) = w + 1 /\ Off(k.snd_nxt, h) = w + n + 1
  <2>1. Off(c.snd_nxt, h) = w + 1 /\ w + 1 + n < SeqSpace
    BY <1>2, <1>9, <1>11 DEF Answered
  <2>2. Off(Plus(c.snd_nxt, n), h) = w + 1 + n
    BY <1>2, <2>1, OffPlus
  <2>3. k.snd_nxt = Plus(c.snd_nxt, n)
    <3>1. written'[h] # written[h] /\ written'[h] - written[h] = n
      BY <1>a, <1>2, <1>5, <1>6
    <3> QED
      BY <1>6, <3>1 DEF Whole
  <2> QED
    BY <1>2, <2>1, <2>2, <2>3
<1>13. SendOK(h, conn[h])'
  <2> DEFINE u == Off(c.snd_una, h)
  <2>1. u \in 1 .. w + 1 /\ c.tx = Stretch(u - 1, w)
    BY <1>a, <1>2, <1>9, <1>11 DEF Answered
  <2>2. Off(k.snd_una, h) = u
    BY <1>3
  <2> HIDE DEF u
  <2>3. k.tx = Stretch(u - 1, w + n)
    <3>1. u - 1 \in Nat /\ w + n \in Nat /\ u - 1 <= w /\ w <= w + n
      BY <1>2, <2>1
    <3>2. Stretch(u - 1, w) \o Stretch(w, w + n) = Stretch(u - 1, w + n)
      BY <1>2, <3>1, StretchCat
    <3> QED
      BY <1>3, <2>1, <3>2
  <2>4. Off(k.snd_una, h) \in 1 .. w + n + 1 /\ k.tx = Stretch(Off(k.snd_una, h) - 1, w + n)
    BY <1>2, <2>1, <2>2, <2>3
  <2>5. Answered(h, conn[h])'
    BY <1>3, <1>5, <1>6, <1>11, <1>12, <2>4 DEF Answered
  <2> QED
    BY <1>3, <1>5, <1>6, <1>9, <2>5 DEF SendOK
<1>14. Got(h, k) = Got(h, c) /\ Here(h, k) = Here(h, c) /\ Got(h, c) \in 1 .. Sent(p)
  BY <1>2, <1>3, <1>9, HeardBound DEF Got, Here, p
<1>15. RecvOK(h, conn[h])'
  <2>1. UnaUpTo(p, Got(h, k))'
    BY <1>6, <1>9, <1>14 DEF Heard, UnaUpTo, Alive, p
  <2>2. AcksUpTo(p, Got(h, k))'
    <3>1. ASSUME NEW m \in net', m.to = p, Proper(m), "ACK" \in m.flags PROVE Off(m.ack, p) <= Got(h, k)
      <4>1. CASE m \in net
        BY <1>9, <1>14, <3>1, <4>1 DEF Heard, AcksUpTo, p
      <4>2. CASE m = s
        BY <1>4, <1>14, <4>2 DEF Got, p
      <4> QED
        BY <1>5, <4>1, <4>2
    <3> QED
      BY <3>1 DEF AcksUpTo, Proper
  <2>3. Heard(h, k)'
    BY <1>3, <1>5, <1>6, <1>9, <1>14, <2>1, <2>2 DEF Heard, Got, Here, Taken, p
  <2> QED
    BY <1>6, <2>3 DEF RecvOK
<1>16. ConnOK(h)'
  BY <1>3, <1>5, <1>6, <1>13, <1>15 DEF ConnOK, Alive
<1>17. PendingOK(h) /\ PendingOK(p) /\ Taken(h)' = Taken(h) /\ Taken(h) \in Nat
       /\ Len(pending[h] \o Stretch(w, w + n)) = Len(pending[h]) + n
  <2>1. Stretch(w, w + n) \in Seq(Nat) /\ Len(Stretch(w, w + n)) = n
    <3>1. w + n \in Nat /\ w <= w + n /\ (w + n) - w = n
      BY <1>2
    <3>2. Len(Stretch(w, w + n)) = (w + n) - w
      BY <1>2, <3>1, StretchLen
    <3> QED
      BY <1>2, <3>1, <3>2, StretchType
  <2>2. Len(pending[h] \o Stretch(w, w + n)) = Len(pending[h]) + n
    BY <1>2, <2>1, BothLen
  <2>3. PendingOK(h) /\ PendingOK(p)
    BY <1>1 DEF Core
  <2>4. Taken(h) = w - Len(pending[h]) /\ Len(pending[h]) <= w
    BY <1>a, <2>3 DEF Taken, PendingOK
  <2>5. Taken(h)' = w + n - (Len(pending[h]) + n)
    <3>1. Taken(h)' = written'[h] - Len(pending'[h])
      BY DEF Taken
    <3>2. Len(pending'[h]) = Len(pending[h]) + n
      BY <1>6, <2>2, Zenon
    <3>3. written'[h] = w + n
      BY <1>6
    <3> QED
      BY <1>2, <3>1, <3>2, <3>3
  <2>6. PICK l : l = Len(pending[h])
    OBVIOUS
  <2>7. Taken(h)' = Taken(h) /\ Taken(h) \in Nat
    <3>1. l \in Nat /\ l <= w /\ Taken(h) = w - l /\ Taken(h)' = w + n - (l + n)
      BY <1>2, <2>4, <2>5, <2>6, Zenon
    <3> QED
      BY <1>2, <3>1
  <2> QED
    BY <2>2, <2>3, <2>7, Zenon
<1>18. ConnOK(p)'
  <2>1. CASE ~Alive(p)
    BY <1>1, <1>6, <2>1 DEF ConnOK, Alive, Core
  <2>2. CASE Alive(p)
    <3>1. SendOK(p, conn[p])'
      BY <1>5, <1>6, <1>10, <2>2 DEF SendOK, Unanswered, Answered, Sent
    <3>2. Heard(p, conn[p])
      BY <1>10, <2>2
    <3>3. PICK g : g = Got(p, conn[p])
      OBVIOUS
    <3>4. UnaUpTo(h, g)' /\ AcksUpTo(h, g)'
      <4>1. UnaUpTo(h, g)'
        BY <1>1, <1>3, <1>6, <1>7, <3>2, <3>3 DEF Heard, UnaUpTo
      <4>2. AcksUpTo(h, g)'
        BY <1>1, <1>4, <1>5, <3>2, <3>3 DEF Heard, AcksUpTo
      <4> QED
        BY <4>1, <4>2
    <3>5. ~conn[p].peer_closed
      BY <1>1, <1>9, <3>2 DEF Heard
    <3>6. g \in 1 .. w + 1
      BY <1>a, <1>1, <3>2, <3>3, <3>5 DEF Heard
    <3>7. g \in 1 .. w + n + 1
      BY <1>2, <3>6
    <3>8. Heard(p, conn[p])'
      BY <1>1, <1>5, <1>6, <1>17, <3>2, <3>3, <3>4, <3>5, <3>7 DEF Heard, Got, Here, UnaUpTo, AcksUpTo
    <3> QED
      BY <1>6, <2>2, <3>1, <3>8 DEF ConnOK, RecvOK, Alive
  <2> QED
    BY <2>1, <2>2
<1>19. UnmadeOK(h)' /\ UnmadeOK(p)'
  BY <1>5, <1>9, <1>10 DEF UnmadeOK
<1>20. PendingOK(h)'
  <2>1. pending[h] = Stretch(Taken(h), w) /\ Len(pending[h]) <= w /\ ~told[h]
    BY <1>a, <1>9, <1>17 DEF PendingOK
  <2>2. Taken(h) <= w /\ w <= w + n /\ w + n \in Nat
    BY <1>a, <1>2 DEF Taken
  <2>3. Stretch(Taken(h), w) \o Stretch(w, w + n) = Stretch(Taken(h), w + n)
    BY <1>2, <1>17, <2>2, StretchCat
  <2>4. pending'[h] = Stretch(Taken(h)', written'[h])
    BY <1>6, <1>17, <2>1, <2>3
  <2>5. Len(pending'[h]) <= written'[h]
    BY <1>2, <1>6, <1>17, <2>1
  <2> QED
    BY <1>5, <2>1, <2>4, <2>5 DEF PendingOK
<1>21. PendingOK(p)'
  BY <1>5, <1>6, <1>17 DEF PendingOK, Taken
<1>22. \A m \in net' : Proper(m) => SegmentOK(m)'
  <2>1. ASSUME NEW m \in net, Proper(m) PROVE SegmentOK(m)'
    <3>1. SegmentOK(m)
      BY <2>1 DEF Core
    <3>a. Len(m.data) \in Nat /\ m.to \in Hosts /\ m.seq \in Seqs
      BY DEF TypesOK, Segments, Seqs
    <3>2. CASE m.to = p
      <4>1. Sent(p)' = Sent(p)
        BY <1>5, <1>6 DEF Sent
      <4>2. Off(m.seq, h) \in Nat
        BY <3>a, OffType DEF Seqs
      <4> QED
        BY <1>a, <1>1, <1>2, <1>5, <1>6, <1>9, <3>1, <3>a, <3>2, <4>1, <4>2 DEF SegmentOK
    <3>3. CASE m.to = h
      <4>1. Off(m.ack, h) \in Nat
        BY UnaType
      <4> QED
        BY <1>2, <1>5, <1>6, <1>11, <3>1, <3>3, <4>1 DEF SegmentOK, p
    <3> QED
      BY <1>1, <3>a, <3>2, <3>3
  <2>2. SegmentOK(s)'
    <3>1. Off(s.seq, h) = w + 1 /\ Peer(s.to) = h /\ "SYN" \notin s.flags /\ "FIN" \notin s.flags
      BY <1>1, <1>4, <1>12
    <3>2. Len(s.data) = j /\ s.data = Stretch(w, w + j) /\ w + j <= w + n
      <4>1. w + j \in Nat /\ w <= w + j /\ (w + j) - w = j
        BY <1>2
      <4> QED
        BY <1>2, <1>4, <4>1, StretchLen
    <3>3. Off(s.ack, s.to) <= Sent(s.to)'
      <4>1. Sent(p)' = Sent(p)
        BY <1>5, <1>6 DEF Sent
      <4>2. Off(s.ack, s.to) = Got(h, c)
        BY <1>4 DEF Got, p
      <4>3. Sent(s.to)' = Sent(p)'
        BY <1>4 DEF Sent
      <4>4. Sent(p) \in Int /\ Got(h, c) <= Sent(p) /\ Got(h, c) \in Int
        BY <1>1, <1>14, SentBound
      <4> QED
        BY <4>1, <4>2, <4>3, <4>4
    <3>4. (w + 1) - 1 = w /\ w + 1 >= 1
      BY <1>2
    <3> QED
      BY <1>2, <1>5, <1>6, <1>9, <3>1, <3>2, <3>3, <3>4 DEF SegmentOK
  <2> QED
    BY <1>5, <2>1, <2>2
<1> QED
  BY <1>1, <1>16, <1>18, <1>19, <1>20, <1>21, <1>22 DEF Core

LEMMA TailType ==
    ASSUME NEW s \in Seq(Nat), NEW n \in Nat
    PROVE  SubSeq(s, n + 1, Len(s)) \in Seq(Nat)
<1>1. Len(s) \in Nat
  OBVIOUS
<1>2. CASE n <= Len(s)
  BY <1>1, <1>2
<1>3. CASE n > Len(s)
  <2>1. SubSeq(s, n + 1, Len(s)) = <<>>
    BY <1>1, <1>3, SubSeqEmpty
  <2> QED
    BY <2>1
<1> QED
  BY <1>1, <1>2, <1>3

\* A read of n bytes.
Reads(h, n) ==
    LET c == conn[h]
        p == Peer(h)
    IN  /\ Alive(h) /\ n >= 1 /\ n <= Len(c.rx)
        /\ conn' = [conn EXCEPT ![h] = [c EXCEPT !.rx = SubSeq(c.rx, n + 1, Len(c.rx))]]
        /\ out' = [out EXCEPT ![p] = SubSeq(c.rx, 1, n)]
        /\ pending' = [pending EXCEPT ![p] = SubSeq(pending[p], n + 1, Len(pending[p]))]
        /\ UNCHANGED <<listener, net, made, written, open, told>>

\* A read that finds the end.
ReadsEnd(h) ==
    /\ Alive(h) /\ conn[h].rx = <<>> /\ conn[h].peer_closed
    /\ told' = [told EXCEPT ![Peer(h)] = TRUE]
    /\ UNCHANGED <<conn, listener, net, made, written, pending, out, open>>

LEMMA ReadShape ==
    ASSUME TypesOK, NEW h \in Hosts, NEW len \in ReadLens, tcp_read(h, len)
    PROVE  ReadsEnd(h) \/ \E n \in Nat : Reads(h, n)
<1> DEFINE c == conn[h]
           n == Min({len, Len(c.rx)})
           p == Peer(h)
<1>1. Alive(h) /\ UNCHANGED <<listener, net, made, written, open>>
  BY DEF tcp_read, Held, Alive
<1>2. c \in Conns /\ c.rx \in Seq(Nat) /\ Len(c.rx) \in Nat /\ len \in Nat \ {0}
  BY TcpAssumption, SMTT(30) DEF TypesOK, Conns, Buffers
<1>3. n = IF len <= Len(c.rx) THEN len ELSE Len(c.rx)
  <2>1. len \in Int /\ Len(c.rx) \in Int
    BY <1>2
  <2> QED
    BY <2>1, LesserOfTwo, Zenon
<1>4. /\ n > 0 => /\ Sets(h, [c EXCEPT !.rx = SubSeq(c.rx, n + 1, Len(c.rx))])
                  /\ out' = [out EXCEPT ![p] = SubSeq(c.rx, 1, n)]
                  /\ pending' = [pending EXCEPT ![p] = SubSeq(pending[p], n + 1, Len(pending[p]))]
                  /\ told' = told
      /\ ~(n > 0) => /\ c.peer_closed /\ told' = [told EXCEPT ![p] = TRUE]
                     /\ UNCHANGED <<conn, out, pending>>
  BY DEF tcp_read
<1> HIDE DEF n
<1>5. n \in Nat /\ n <= Len(c.rx) /\ (n = 0 => Len(c.rx) = 0)
  BY <1>2, <1>3
<1>6. CASE n > 0
  <2>1. Reads(h, n)
    BY <1>1, <1>4, <1>5, <1>6 DEF Reads, Sets
  <2> QED
    BY <1>5, <2>1
<1>7. CASE ~(n > 0)
  <2>1. c.rx = <<>>
    BY <1>2, <1>5, <1>7
  <2> QED
    BY <1>1, <1>4, <1>7, <2>1 DEF ReadsEnd
<1> QED
  BY <1>6, <1>7

LEMMA ReadsTypes ==
    ASSUME TypesOK, NEW h \in Hosts, NEW n \in Nat, Reads(h, n)
    PROVE  TypesOK'
<1> DEFINE c == conn[h]
           p == Peer(h)
           x == SubSeq(c.rx, n + 1, Len(c.rx))
           y == SubSeq(pending[p], n + 1, Len(pending[p]))
           z == SubSeq(c.rx, 1, n)
<1>1. p \in Hosts /\ c \in Conns /\ c.rx \in Buffers /\ pending[p] \in Seq(Nat)
  BY TcpFacts DEF TypesOK, Conns
<1>2. n <= Len(c.rx)
  BY DEF Reads
<1>3. x \in Buffers
  BY <1>1, <1>2, Shorter
<1>4. y \in Seq(Nat)
  BY <1>1, TailType
<1>5. z \in Seq(Nat)
  <2>1. c.rx \in Seq(Nat) /\ Len(c.rx) \in Nat
    BY <1>1 DEF Buffers
  <2> QED
    BY <1>2, <2>1
<1>6. /\ conn' = [conn EXCEPT ![h] = [c EXCEPT !.rx = x]] /\ out' = [out EXCEPT ![p] = z]
      /\ pending' = [pending EXCEPT ![p] = y] /\ UNCHANGED <<listener, net, made, written, open, told>>
  BY DEF Reads
<1> HIDE DEF p, x, y, z
<1>7. [c EXCEPT !.rx = x] \in Conns
  BY <1>1, <1>3 DEF Conns
<1>8. conn' \in [Hosts -> Conns] /\ out' \in [Hosts -> Seq(Nat)] /\ pending' \in [Hosts -> Seq(Nat)]
  BY <1>1, <1>4, <1>5, <1>6, <1>7 DEF TypesOK
<1> QED
  BY <1>6, <1>8 DEF TypesOK

\* What is read is the beginning of what is pending.
LEMMA ReadsWhat ==
    ASSUME Small, TypesOK, Core, NEW h \in Hosts, NEW n \in Nat, Reads(h, n)
    PROVE  \E t, e, w \in Nat :
             /\ t = Taken(Peer(h)) /\ e = Here(h, conn[h]) /\ w = written[Peer(h)]
             /\ t + n <= e /\ e <= w
             /\ conn[h].rx = Stretch(t, e) /\ pending[Peer(h)] = Stretch(t, w)
             /\ told[Peer(h)] = FALSE
<1> DEFINE p == Peer(h)
           c == conn[h]
<1>1. p \in Hosts
  BY TcpFacts
<1>2. c \in Conns /\ c.rx \in Seq(Nat) /\ Len(c.rx) \in Nat /\ n >= 1 /\ n <= Len(c.rx) /\ Alive(h)
  BY DEF TypesOK, Conns, Buffers, Reads
<1>3. Heard(h, c)
  BY <1>2 DEF Core, ConnOK, RecvOK, Unheard
<1>a. PICK t : t = Taken(p)
  OBVIOUS
<1>b. PICK e : e = Here(h, c)
  OBVIOUS
<1>c. PICK w : w = written[p]
  OBVIOUS
<1>4. w \in Nat /\ e \in Nat /\ e <= w
  <2>1. written[p] \in Nat
    BY <1>1 DEF TypesOK
  <2> QED
    BY <1>2, <1>3, <1>b, <1>c, <2>1, HeardBound
<1>5. /\ Len(pending[p]) \in Nat /\ Len(pending[p]) <= w /\ t = w - Len(pending[p])
      /\ pending[p] = Stretch(t, w) /\ (told[p] => pending[p] = <<>>)
  <2>1. PendingOK(p) /\ pending[p] \in Seq(Nat)
    BY <1>1 DEF Core, TypesOK
  <2> QED
    BY <1>a, <1>c, <2>1 DEF PendingOK, Taken
<1>6. t \in Nat /\ t <= e /\ c.rx = Stretch(t, e)
  <2>1. t \in Nat
    BY <1>4, <1>5
  <2> QED
    BY <1>3, <1>a, <1>b, <2>1 DEF Heard
<1>7. t + n <= e /\ t + n <= w /\ t + n \in Nat
  <2>1. Len(c.rx) = e - t
    BY <1>4, <1>6, StretchLen
  <2> QED
    BY <1>2, <1>4, <1>6, <2>1
<1>8. told[p] = FALSE
  <2>1. Len(Stretch(t, w)) = w - t /\ w - t >= 1
    BY <1>2, <1>4, <1>6, <1>7, StretchLen
  <2>2. pending[p] # <<>>
    BY <1>5, <2>1
  <2> QED
    BY <1>1, <1>5, <2>2 DEF TypesOK
<1> QED
  BY <1>4, <1>5, <1>6, <1>7, <1>8, <1>a, <1>b, <1>c

\* What comes to the connection of h and what h sends is not changed by what
\* the program at h reads.
LEMMA ReadsKeeps ==
    ASSUME Small, TypesOK, Core, NEW h \in Hosts, NEW n \in Nat, Reads(h, n)
    PROVE  Core'
<1> DEFINE p == Peer(h)
           c == conn[h]
<1>1. p \in Hosts /\ Peer(p) = h /\ p # h /\ (\A g \in Hosts : g = h \/ g = p)
  BY TcpFacts
<1>2. c \in Conns /\ c.rx \in Seq(Nat) /\ Len(c.rx) \in Nat /\ n >= 1 /\ n <= Len(c.rx) /\ Alive(h)
  BY DEF TypesOK, Conns, Buffers, Reads
<1>3. SendOK(h, c) /\ Heard(h, c)
  BY <1>2 DEF Core, ConnOK, RecvOK, Unheard
<1>a. PICK t, e, w \in Nat :
        /\ t = Taken(p) /\ e = Here(h, c) /\ w = written[p]
        /\ t + n <= e /\ e <= w
        /\ c.rx = Stretch(t, e) /\ pending[p] = Stretch(t, w) /\ told[p] = FALSE
  BY ReadsWhat
<1>b. t \in Nat /\ w \in Nat /\ t + n \in Nat /\ t + n <= w
  BY <1>a
<1>d. PICK k : k = [c EXCEPT !.rx = SubSeq(c.rx, n + 1, Len(c.rx))]
  OBVIOUS
<1>8. /\ k.state = c.state /\ k.snd_una = c.snd_una /\ k.snd_nxt = c.snd_nxt
      /\ k.rcv_nxt = c.rcv_nxt /\ k.tx = c.tx /\ k.peer_closed = c.peer_closed
      /\ k.rx = SubSeq(c.rx, n + 1, Len(c.rx))
  BY <1>2, <1>d DEF Conns
<1>9. k.rx = Stretch(t + n, e)
  <2>1. SubSeq(Stretch(t, e), n + 1, Len(Stretch(t, e))) = Stretch(t + n, e)
    BY <1>a, StretchTail, ZenonT(60)
  <2> QED
    BY <1>a, <1>8, <2>1, Zenon
<1>10. SubSeq(pending[p], n + 1, Len(pending[p])) = Stretch(t + n, w)
  <2>1. SubSeq(Stretch(t, w), n + 1, Len(Stretch(t, w))) = Stretch(t + n, w)
    BY <1>b, StretchTail
  <2> QED
    BY <1>a, <2>1, Zenon
<1> HIDE DEF p
<1>12. /\ conn'[h] = k /\ conn'[p] = conn[p]
       /\ pending'[p] = Stretch(t + n, w) /\ pending'[h] = pending[h]
       /\ UNCHANGED <<net, made, written, open, told>>
  BY <1>1, <1>10, <1>d DEF Reads, TypesOK, p
<1>13. Taken(p)' = t + n /\ Taken(h)' = Taken(h)
  <2>1. Len(Stretch(t + n, w)) = w - (t + n)
    BY <1>b, StretchLen
  <2>2. Taken(p)' = w - (w - (t + n))
    BY <1>12, <1>a, <2>1 DEF Taken
  <2>3. Taken(h)' = Taken(h)
    BY <1>12 DEF Taken
  <2> QED
    BY <1>a, <2>2, <2>3
<1>14. \A g \in Hosts : \A m : UnaUpTo(g, m)' <=> UnaUpTo(g, m)
  BY <1>1, <1>8, <1>12 DEF UnaUpTo, Alive
<1>15. \A g \in Hosts : Untouched(g)' <=> Untouched(g)
  BY <1>12, <1>14 DEF Untouched, Silent
<1>16. ConnOK(h)'
  <2>1. SendOK(h, conn[h])'
    BY <1>3, <1>8, <1>12 DEF SendOK, Unanswered, Answered, Sent
  <2>2. PICK g : g = Got(h, c)
    OBVIOUS
  <2>3. Got(h, conn[h])' = g /\ Here(h, conn[h])' = e
    BY <1>8, <1>12, <1>a, <2>2 DEF Got, Here
  <2>4. UnaUpTo(p, g)' /\ AcksUpTo(p, g)'
    BY <1>1, <1>3, <1>12, <1>14, <2>2 DEF Heard, AcksUpTo, p
  <2>5. /\ c.state # "SYN_SENT" /\ made[p] >= 1
        /\ IF c.peer_closed
           THEN g = written[p] + 2 /\ ~open[p] /\ c.state \notin Conversant \cup {"SYN_RECEIVED"}
           ELSE g \in 1 .. written[p] + 1
    BY <1>3, <2>2 DEF Heard, p
  <2>6. Heard(h, conn[h])'
    BY <1>a, <1>8, <1>9, <1>12, <1>13, <2>3, <2>4, <2>5 DEF Heard, p
  <2> QED
    BY <1>2, <1>8, <1>12, <2>1, <2>6 DEF ConnOK, RecvOK, Alive
<1>17. ConnOK(p)'
  <2>1. CASE ~Alive(p)
    BY <1>1, <1>12, <2>1 DEF ConnOK, Alive, Core
  <2>2. CASE Alive(p)
    <3>1. SendOK(p, conn[p]) /\ RecvOK(p, conn[p])
      BY <1>1, <2>2 DEF Core, ConnOK
    <3>2. SendOK(p, conn[p])'
      BY <1>12, <3>1 DEF SendOK, Unanswered, Answered, Sent
    <3>3. Unheard(p, conn[p]) => Unheard(p, conn[p])'
      BY <1>1, <1>12, <1>15 DEF Unheard
    <3>4. Heard(p, conn[p]) => Heard(p, conn[p])'
      <4>1. PICK g : g = Got(p, conn[p])
        OBVIOUS
      <4>2. Got(p, conn[p])' = g /\ Here(p, conn[p])' = Here(p, conn[p])
        BY <1>12, <4>1 DEF Got, Here
      <4>3. UnaUpTo(h, g)' = UnaUpTo(h, g) /\ AcksUpTo(h, g)' = AcksUpTo(h, g)
        BY <1>8, <1>12 DEF UnaUpTo, AcksUpTo, Alive
      <4> QED
        BY <1>1, <1>12, <1>13, <4>1, <4>2, <4>3 DEF Heard
    <3> QED
      BY <1>12, <2>2, <3>1, <3>2, <3>3, <3>4 DEF ConnOK, RecvOK, Alive
  <2> QED
    BY <2>1, <2>2
<1>18. UnmadeOK(h)' /\ UnmadeOK(p)'
  <2>1. UnmadeOK(h) /\ UnmadeOK(p)
    BY <1>1 DEF Core
  <2> QED
    BY <1>1, <1>8, <1>12, <1>15, <2>1 DEF UnmadeOK, Alive, p
<1>19. PendingOK(h)'
  BY <1>1, <1>12, <1>13 DEF Core, PendingOK
<1>20. PendingOK(p)'
  <2>1. Len(pending'[p]) = w - (t + n) /\ w - (t + n) <= w
    BY <1>b, <1>12, StretchLen
  <2> QED
    BY <1>12, <1>13, <1>a, <2>1 DEF PendingOK
<1>21. \A m \in net' : Proper(m) => SegmentOK(m)'
  BY <1>12 DEF Core, SegmentOK, Sent
<1> QED
  BY <1>1, <1>16, <1>17, <1>18, <1>19, <1>20, <1>21 DEF Core

\* The end is told of what has been read to the last byte.
LEMMA ReadsEndKeeps ==
    ASSUME TypesOK, NEW h \in Hosts, ReadsEnd(h)
    PROVE  TypesOK' /\ (Core => Core' /\ pending[Peer(h)] = <<>> /\ ~open[Peer(h)])
<1> DEFINE p == Peer(h)
           c == conn[h]
<1>1. p \in Hosts /\ c \in Conns
  BY TcpFacts DEF TypesOK
<1>2. /\ Alive(h) /\ c.rx = <<>> /\ c.peer_closed /\ told' = [told EXCEPT ![p] = TRUE]
      /\ UNCHANGED <<conn, listener, net, made, written, pending, out, open>>
  BY DEF ReadsEnd
<1>3. TypesOK'
  BY <1>1, <1>2 DEF TypesOK
<1>4. ASSUME Core PROVE Core' /\ pending[p] = <<>> /\ ~open[p]
  <2>1. Heard(h, c)
    BY <1>2, <1>4 DEF Core, ConnOK, RecvOK, Unheard
  <2>2. ~open[p] /\ Here(h, c) = written[p] /\ c.rx = Stretch(Taken(p), Here(h, c))
    <3>1. written[p] \in Nat
      BY <1>1 DEF TypesOK
    <3> QED
      BY <1>2, <2>1, <3>1 DEF Heard, Here
  <2>3. PendingOK(p)
    BY <1>1, <1>4 DEF Core
  <2>4. pending[p] = <<>>
    BY <1>2, <2>2, <2>3 DEF PendingOK
  <2> HIDE DEF p
  <2>5. \A g \in Hosts : PendingOK(g)'
    <3>1. ASSUME NEW g \in Hosts PROVE PendingOK(g)'
      <4>1. PendingOK(g)
        BY <1>4 DEF Core
      <4>2. told'[g] => pending[g] = <<>> /\ ~open[g]
        BY <1>2, <2>2, <2>4, <4>1 DEF PendingOK, TypesOK
      <4> QED
        BY <1>2, <4>1, <4>2 DEF PendingOK, Taken
    <3> QED
      BY <3>1
  <2>6. Core'
    BY <1>2, <1>4, <2>5 DEF Core, ConnOK, UnmadeOK, SegmentOK, SendOK, RecvOK, Unanswered, Answered,
       Unheard, Heard, Untouched, UnaUpTo, AcksUpTo, Silent, Got, Here, Taken, Sent, Alive
  <2> QED
    BY <2>2, <2>4, <2>6
<1> QED
  BY <1>3, <1>4

-----------------------------------------------------------------------------
(* All steps together.                                                     *)

Kinds(h) ==
    \/ QuietStep(h)
    \/ tcp_open(h)
    \/ \E m \in net : Accepts(h, m)
    \/ \E st \in {"FIN_WAIT_1", "LAST_ACK"} : Closes(h, st)
    \/ \E n \in Nat : \E j \in 0 .. n : Writes(h, n, j)
    \/ \E n \in Nat : Reads(h, n)
    \/ ReadsEnd(h)

LEMMA StepKinds ==
    ASSUME TypesOK, TcpNext
    PROVE  \E h \in Hosts : Kinds(h)
<1>1. ASSUME NEW h \in Hosts,
             \/ tcp_open(h) \/ tcp_accept_ready(h) \/ tcp_shutdown(h)
             \/ \E n \in WriteLens : tcp_write(h, n)
             \/ \E n \in ReadLens : tcp_read(h, n)
             \/ tcp_receive(h) \/ tcp_tick(h) \/ Repeated(h)
      PROVE  Kinds(h)
  <2>1. tcp_accept_ready(h) \/ tcp_tick(h) \/ Repeated(h) => QuietStep(h)
    BY AcceptQuiet, TickQuiet, RepeatedQuiet
  <2>2. tcp_shutdown(h) => QuietStep(h) \/ \E st \in {"FIN_WAIT_1", "LAST_ACK"} : Closes(h, st)
    BY ShutdownShape
  <2>3. ASSUME NEW n \in WriteLens, tcp_write(h, n) PROVE \E i \in Nat : \E j \in 0 .. i : Writes(h, i, j)
    BY <2>3, WriteShape
  <2>4. ASSUME NEW n \in ReadLens, tcp_read(h, n) PROVE ReadsEnd(h) \/ \E i \in Nat : Reads(h, i)
    BY <2>4, ReadShape
  <2>5. tcp_receive(h) => QuietStep(h) \/ \E m \in net : Accepts(h, m)
    BY ReceiveQuiet
  <2> QED
    BY <1>1, <2>1, <2>2, <2>3, <2>4, <2>5 DEF Kinds
<1>2. ListenerShutdown \/ Lose => Server \in Hosts /\ Kinds(Server)
  BY ListenerQuiet, LoseQuiet, TcpFacts DEF Kinds
<1> QED
  BY <1>1, <1>2 DEF TcpNext

\* The number of connections a side has made does not go down.
LEMMA MadeGrows ==
    ASSUME TypesOK, NEW h \in Hosts, Kinds(h), Single'
    PROVE  Single
<1>1. \A g \in Hosts : made[g] \in Nat /\ made'[g] \in Nat /\ made'[g] >= made[g]
  <2>1. CASE made' = made
    BY <2>1 DEF TypesOK
  <2>2. CASE made' = [made EXCEPT ![h] = @ + 1]
    BY <2>2 DEF TypesOK
  <2>3. made' = made \/ made' = [made EXCEPT ![h] = @ + 1]
    BY DEF Kinds, QuietStep, Quiet, tcp_open, Accepts, Closes, Writes, Reads, ReadsEnd
  <2> QED
    BY <2>1, <2>2, <2>3
<1> QED
  BY <1>1 DEF Single

LEMMA KindsTypes ==
    ASSUME TypesOK, NEW h \in Hosts, Kinds(h)
    PROVE  TypesOK'
<1>1. QuietStep(h) => TypesOK'
  BY QuietStepKeeps
<1>2. tcp_open(h) => TypesOK'
  BY OpenKeeps
<1>3. ASSUME NEW m \in net, Accepts(h, m) PROVE TypesOK'
  BY <1>3, AcceptsKeeps
<1>4. ASSUME NEW st \in {"FIN_WAIT_1", "LAST_ACK"}, Closes(h, st) PROVE TypesOK'
  BY <1>4, ClosesTypes
<1>5. ASSUME NEW n \in Nat, NEW j \in 0 .. n, Writes(h, n, j) PROVE TypesOK'
  BY <1>5, WritesTypes
<1>6. ASSUME NEW n \in Nat, Reads(h, n) PROVE TypesOK'
  BY <1>6, ReadsTypes
<1>7. ReadsEnd(h) => TypesOK'
  BY ReadsEndKeeps
<1> QED
  BY <1>1, <1>2, <1>3, <1>4, <1>5, <1>6, <1>7 DEF Kinds

LEMMA KindsKeep ==
    ASSUME Small, TypesOK, Core, NEW h \in Hosts, Kinds(h), AllWhole, Single'
    PROVE  Core'
<1>1. QuietStep(h) => Core'
  BY QuietStepKeeps
<1>2. tcp_open(h) => Core'
  BY OpenKeeps
<1>3. ASSUME NEW m \in net, Accepts(h, m) PROVE Core'
  BY <1>3, AcceptsKeeps
<1>4. ASSUME NEW st \in {"FIN_WAIT_1", "LAST_ACK"}, Closes(h, st) PROVE Core'
  BY <1>4, ClosesKeeps
<1>5. ASSUME NEW n \in Nat, NEW j \in 0 .. n, Writes(h, n, j) PROVE Core'
  BY <1>5, WritesKeeps DEF AllWhole
<1>6. ASSUME NEW n \in Nat, Reads(h, n) PROVE Core'
  BY <1>6, ReadsKeeps
<1>7. ReadsEnd(h) => Core'
  BY ReadsEndKeeps
<1> QED
  BY <1>1, <1>2, <1>3, <1>4, <1>5, <1>6, <1>7 DEF Kinds

LEMMA TcpInitially ==
    ASSUME TcpInit
    PROVE  TcpInv
<1>1. \A h \in Hosts : /\ conn[h] = free_conn /\ made[h] = 0 /\ written[h] = 0 /\ pending[h] = <<>>
                       /\ out[h] = <<>> /\ open[h] = TRUE /\ told[h] = FALSE
  BY DEF TcpInit
<1>2. net = {} /\ listener = "listen" /\ free_conn.state = "FREE" /\ free_conn.tx = <<>>
  BY DEF TcpInit, free_conn
<1>3. TypesOK
  <2>1. free_conn \in Conns /\ <<>> \in Seq(Nat)
    BY FreeType
  <2>2. \A h \in Hosts : 0 <= MaxConns[h] /\ 0 <= MaxBytes[h]
    BY TcpFacts
  <2> QED
    BY <1>1, <1>2, <2>1, <2>2 DEF TypesOK, TcpInit
<1>4. ASSUME NEW h \in Hosts PROVE ConnOK(h) /\ UnmadeOK(h) /\ PendingOK(h)
  <2>1. ConnOK(h) /\ ~Alive(h)
    BY <1>1, <1>2 DEF ConnOK, Alive
  <2>2. Untouched(Peer(h))
    BY <1>1, <1>2, TcpFacts DEF Untouched, UnaUpTo, Silent, Alive
  <2>3. PendingOK(h)
    <3>1. Taken(h) = 0 /\ Len(pending[h]) = 0
      BY <1>1 DEF Taken
    <3> QED
      BY <1>1, <3>1, NoStretch DEF PendingOK
  <2> QED
    BY <1>1, <2>1, <2>2, <2>3 DEF UnmadeOK
<1> QED
  BY <1>2, <1>3, <1>4 DEF TcpInv, Core

LEMMA TcpUnchanged ==
    ASSUME TcpInv, UNCHANGED tcp_vars
    PROVE  TcpInv'
<1>1. UNCHANGED <<conn, listener, net, made, written, pending, out, open, told>>
  BY DEF tcp_vars, history
<1>2. TypesOK' <=> TypesOK
  BY <1>1 DEF TypesOK
<1>3. Core' <=> Core
  BY <1>1 DEF Core, ConnOK, UnmadeOK, PendingOK, SegmentOK, SendOK, RecvOK, Unanswered, Answered,
     Unheard, Heard, Untouched, UnaUpTo, AcksUpTo, Silent, Got, Here, Taken, Sent, Alive
<1>4. Single' <=> Single
  BY <1>1 DEF Single
<1> QED
  BY <1>2, <1>3, <1>4 DEF TcpInv

LEMMA TcpInductive ==
    ASSUME Small, TcpInv, [TcpNext]_tcp_vars, [AllWhole]_tcp_vars
    PROVE  TcpInv'
<1>1. CASE UNCHANGED tcp_vars
  BY <1>1, TcpUnchanged
<1>2. CASE TcpNext /\ AllWhole
  <2>1. PICK h \in Hosts : Kinds(h)
    BY <1>2, StepKinds DEF TcpInv
  <2>2. TypesOK'
    BY <2>1, KindsTypes DEF TcpInv
  <2>3. ASSUME Single' PROVE Core'
    <3>1. Single
      BY <2>1, <2>3, MadeGrows DEF TcpInv
    <3> QED
      BY <1>2, <2>1, <2>3, <3>1, KindsKeep DEF TcpInv
  <2> QED
    BY <2>2, <2>3 DEF TcpInv
<1> QED
  BY <1>1, <1>2

\* The inductive invariant of everything tcp.c does to a connection, of
\* programs whose writes go out whole: a sequence number says how much its
\* side has written, and a segment under way tells the truth (tcp_receive).
THEOREM TcpInvariance == Small => (TcpSpec /\ [][AllWhole]_tcp_vars => []TcpInv)
<1> SUFFICES ASSUME Small PROVE TcpSpec /\ [][AllWhole]_tcp_vars => []TcpInv
  OBVIOUS
<1>1. TcpInit => TcpInv
  BY TcpInitially
<1>2. TcpInv /\ [TcpNext]_tcp_vars /\ [AllWhole]_tcp_vars => TcpInv'
  BY TcpInductive
<1> QED
  BY <1>1, <1>2, PTL DEF TcpSpec

\* The types need no such program: the buffers stay within their size
\* whatever is written and read and whatever comes.
LEMMA TypesInductive ==
    ASSUME TypesOK, [TcpNext]_tcp_vars
    PROVE  TypesOK'
<1>1. CASE UNCHANGED tcp_vars
  BY <1>1 DEF tcp_vars, history, TypesOK
<1>2. CASE TcpNext
  BY <1>2, StepKinds, KindsTypes
<1> QED
  BY <1>1, <1>2

\* Neither buffer of a connection ever holds more than it can, and no
\* connection retries more than TCP_MAX_RETRIES times.
THEOREM TcpTypeCorrect == TcpSpec => []TcpTypeOK
<1>1. TcpInit => TypesOK
  BY TcpInitially DEF TcpInv
<1>2. TypesOK /\ [TcpNext]_tcp_vars => TypesOK'
  BY TypesInductive
<1>3. TypesOK => TcpTypeOK
  BY DEF TypesOK, TcpTypeOK, Conns, Buffers
<1> QED
  BY <1>1, <1>2, <1>3, PTL DEF TcpSpec

-----------------------------------------------------------------------------
(* What the invariant is for.                                              *)

\* A sequence's end, counted from its end.
LEMMA EndOfStretch ==
    ASSUME NEW a \in Nat, NEW b \in Nat, NEW c \in Nat, a <= b, b <= c
    PROVE  LET s == Stretch(a, c)
               e == Stretch(b, c)
           IN  Len(e) <= Len(s) /\ e = SubSeq(s, Len(s) - Len(e) + 1, Len(s))
<1> DEFINE s == Stretch(a, c)
           e == Stretch(b, c)
<1>1. b - a \in Nat /\ a + (b - a) = b /\ a <= c
  OBVIOUS
<1>2. Len(s) = c - a /\ Len(e) = c - b
  BY <1>1, StretchLen
<1>3. SubSeq(s, (b - a) + 1, Len(s)) = Stretch(a + (b - a), c)
  BY <1>1, StretchTail
<1> HIDE DEF s, e
<1>4. e = SubSeq(s, (b - a) + 1, Len(s))
  BY <1>1, <1>3 DEF e
<1>5. Len(s) - Len(e) + 1 = (b - a) + 1 /\ Len(e) <= Len(s)
  BY <1>2
<1> QED
  BY <1>4, <1>5 DEF s, e

LEMMA KeptFromInv ==
    ASSUME Small, TcpInv
    PROVE  KeptUntilDelivered
<1> SUFFICES ASSUME NEW h \in Hosts, Joined(h)
             PROVE  LET here == Len(conn[Peer(h)].rx)
                        missing == SubSeq(pending[h], here + 1, Len(pending[h]))
                        tx == conn[h].tx
                    IN  /\ Len(missing) <= Len(tx)
                        /\ missing = SubSeq(tx, Len(tx) - Len(missing) + 1, Len(tx))
  BY DEF KeptUntilDelivered
<1> DEFINE p == Peer(h)
           here == Len(conn[p].rx)
           missing == SubSeq(pending[h], here + 1, Len(pending[h]))
           tx == conn[h].tx
<1>1. p \in Hosts /\ Peer(p) = h /\ p # h /\ (\A g \in Hosts : g = h \/ g = p)
  BY TcpFacts
<1>2. TypesOK /\ Core
  <2>1. Single
    BY <1>1 DEF Joined, Single
  <2> QED
    BY <2>1 DEF TcpInv
<1>3. SendOK(h, conn[h]) /\ RecvOK(p, conn[p]) /\ PendingOK(h) /\ conn[p] \in Conns /\ written[h] \in Nat
  BY <1>1, <1>2 DEF Core, ConnOK, Joined, Alive, TypesOK
<1>a. PICK w : w = written[h]
  OBVIOUS
<1>4. tx \in Seq(Nat) /\ Len(tx) \in Nat
  BY <1>2 DEF TypesOK, Conns, Buffers
<1>5. CASE Unheard(p, conn[p])
  <2>1. w = 0 /\ conn[p].rx = <<>>
    BY <1>1, <1>5, <1>a DEF Unheard, Untouched
  <2>2. Len(pending[h]) = 0
    <3>1. Len(pending[h]) \in Nat
      BY <1>2 DEF TypesOK
    <3> QED
      BY <1>3, <1>a, <2>1, <3>1 DEF PendingOK
  <2>3. missing = <<>>
    <3>1. here = 0
      BY <2>1
    <3> QED
      BY <2>2, <3>1, SubSeqEmpty
  <2>4. SubSeq(tx, Len(tx) + 1, Len(tx)) = <<>>
    BY <1>4, SubSeqEmpty
  <2> HIDE DEF missing, here
  <2>5. Len(missing) = 0 /\ Len(tx) - 0 + 1 = Len(tx) + 1
    BY <1>4, <2>3
  <2> HIDE DEF tx
  <2>6. Len(missing) <= Len(tx) /\ missing = SubSeq(tx, Len(tx) - Len(missing) + 1, Len(tx))
    BY <1>4, <2>3, <2>4, <2>5
  <2> QED
    BY <2>6, Zenon DEF missing, here, tx, p
<1>6. CASE Heard(p, conn[p])
  <2>a. PICK t : t = Taken(h)
    OBVIOUS
  <2>b. PICK e : e = Here(p, conn[p])
    OBVIOUS
  <2>c. PICK u : u = Off(conn[h].snd_una, h)
    OBVIOUS
  <2>1. e \in Nat /\ e <= w /\ w \in Nat
    BY <1>1, <1>2, <1>3, <1>6, <1>a, <2>b, HeardBound
  <2>2. t \in Nat /\ t <= e /\ conn[p].rx = Stretch(t, e) /\ pending[h] = Stretch(t, w)
    <3>1. Len(pending[h]) \in Nat
      BY <1>2 DEF TypesOK
    <3>2. t \in Nat
      BY <1>3, <1>a, <2>a, <3>1 DEF PendingOK, Taken
    <3> QED
      BY <1>1, <1>3, <1>6, <1>a, <2>a, <2>b, <3>2 DEF PendingOK, Heard
  <2>3. here = e - t
    BY <2>1, <2>2, StretchLen
  <2>4. missing = Stretch(e, w)
    <3>1. e - t \in Nat /\ t + (e - t) = e
      BY <2>1, <2>2
    <3>2. SubSeq(Stretch(t, w), (e - t) + 1, Len(Stretch(t, w))) = Stretch(t + (e - t), w)
      BY <2>1, <2>2, <3>1, StretchTail
    <3> QED
      BY <2>2, <2>3, <3>1, <3>2
  <2>5. u \in Nat /\ u <= Got(p, conn[p])
    <3>1. u \in Nat
      BY <1>2, <2>c, UnaType
    <3> QED
      BY <1>1, <1>6, <2>c, <3>1 DEF Heard, UnaUpTo, Joined, Alive
  <2>6. tx = Stretch(IF u >= 1 THEN u - 1 ELSE 0, w) \/ e = w
    <3>1. CASE Unanswered(h, conn[h])
      <4>1. w = 0
        BY <1>a, <3>1 DEF Unanswered
      <4> QED
        BY <2>1, <4>1
    <3>2. CASE Answered(h, conn[h])
      <4>1. u >= 1 /\ (u <= w + 1 => tx = Stretch(u - 1, w))
        BY <1>a, <2>c, <3>2 DEF Answered
      <4>2. CASE u <= w + 1
        BY <4>1, <4>2
      <4>3. CASE ~(u <= w + 1)
        <5>1. conn[p].peer_closed /\ e = w
          <6>1. Got(p, conn[p]) > w + 1
            <7>1. Got(p, conn[p]) \in Int
              BY <1>1, <1>2, <1>3, <1>6, HeardBound
            <7> QED
              BY <2>1, <2>5, <4>3, <7>1
          <6>2. conn[p].peer_closed
            BY <1>1, <1>6, <1>a, <2>1, <6>1 DEF Heard
          <6>3. Got(p, conn[p]) = w + 2
            BY <1>1, <1>6, <1>a, <6>2 DEF Heard
          <6> QED
            BY <2>1, <2>b, <6>2, <6>3 DEF Here
        <5> QED
          BY <5>1
      <4> QED
        BY <4>2, <4>3
    <3> QED
      BY <1>3, <3>1, <3>2 DEF SendOK
  <2> HIDE DEF missing, here
  <2>7. CASE e = w
    <3>1. missing = <<>>
      BY <2>1, <2>4, <2>7, StretchIs
    <3>2. SubSeq(tx, Len(tx) + 1, Len(tx)) = <<>>
      BY <1>4, SubSeqEmpty
    <3>3. Len(missing) = 0 /\ Len(tx) - 0 + 1 = Len(tx) + 1
      BY <1>4, <3>1
    <3> HIDE DEF tx
    <3>4. Len(missing) <= Len(tx) /\ missing = SubSeq(tx, Len(tx) - Len(missing) + 1, Len(tx))
      BY <1>4, <3>1, <3>2, <3>3
    <3> QED
      BY <3>4, Zenon DEF missing, here, tx, p
  <2>8. CASE e # w /\ tx = Stretch(IF u >= 1 THEN u - 1 ELSE 0, w)
    <3>1. PICK a \in Nat : a <= e /\ tx = Stretch(a, w)
      <4>1. ~conn[p].peer_closed
        <5>1. conn[p].peer_closed => e = w
          BY <1>1, <1>6, <1>a, <2>1, <2>b DEF Heard, Here
        <5> QED
          BY <2>8, <5>1
      <4>2. e = Got(p, conn[p]) - 1 /\ Got(p, conn[p]) \in Int
        BY <1>1, <1>2, <1>3, <1>6, <2>b, <4>1, HeardBound DEF Here
      <4>3. (IF u >= 1 THEN u - 1 ELSE 0) \in Nat /\ (IF u >= 1 THEN u - 1 ELSE 0) <= e
        BY <2>1, <2>5, <4>2
      <4> QED
        BY <2>8, <4>3
    <3>2. /\ Len(Stretch(e, w)) <= Len(Stretch(a, w))
          /\ Stretch(e, w) = SubSeq(Stretch(a, w), Len(Stretch(a, w)) - Len(Stretch(e, w)) + 1, Len(Stretch(a, w)))
      BY <2>1, <3>1, EndOfStretch
    <3> HIDE DEF tx
    <3>3. Len(missing) <= Len(tx) /\ missing = SubSeq(tx, Len(tx) - Len(missing) + 1, Len(tx))
      BY <2>4, <3>1, <3>2, Zenon
    <3> QED
      BY <3>3, Zenon DEF missing, here, tx, p
  <2> QED
    BY <2>6, <2>7, <2>8
<1> QED
  BY <1>3, <1>5, <1>6 DEF RecvOK

\* No byte is given up before the other side has it, whatever the network
\* loses, repeats, delays and reorders, for buffers, segments and windows of
\* any size and sequence numbers that wrap (tcp_receive: "and only then").
THEOREM NoByteLost == Small => (TcpSpec /\ [][AllWhole]_tcp_vars => []KeptUntilDelivered)
<1> SUFFICES ASSUME Small PROVE TcpSpec /\ [][AllWhole]_tcp_vars => []KeptUntilDelivered
  OBVIOUS
<1>1. TcpInv => KeptUntilDelivered
  BY KeptFromInv
<1>2. TcpSpec /\ [][AllWhole]_tcp_vars => []TcpInv
  BY TcpInvariance
<1> QED
  BY <1>1, <1>2, PTL

\* A program that writes a byte at a time writes it whole.
LEMMA ByteWhole ==
    ASSUME WriteLens \subseteq {1}, TypesOK, [TcpNext]_tcp_vars
    PROVE  [AllWhole]_tcp_vars
<1> SUFFICES ASSUME TcpNext PROVE AllWhole
  OBVIOUS
<1>1. CASE written' = written
  BY <1>1 DEF AllWhole, Whole
<1>2. ASSUME NEW h \in Hosts, NEW len \in WriteLens, tcp_write(h, len) PROVE AllWhole
  <2>1. len = 1
    OBVIOUS
  <2>2. PICK n \in Nat : \E j \in 0 .. n : Writes(h, n, j) /\ n = 1 /\ j = 1
    BY <1>2, <2>1, WriteShape
  <2>3. Writes(h, 1, 1)
    BY <2>2
  <2>4. conn[h] \in Conns /\ written[h] \in Nat
    BY DEF TypesOK
  <2>5. /\ written' = [written EXCEPT ![h] = written[h] + 1]
        /\ conn'[h].snd_nxt = Plus(conn[h].snd_nxt, 1)
    BY <2>3, <2>4 DEF Writes, Conns, TypesOK
  <2>6. \A g \in Hosts : g # h => written'[g] = written[g]
    BY <2>5 DEF TypesOK
  <2>7. written'[h] - written[h] = 1
    BY <2>4, <2>5 DEF TypesOK
  <2> QED
    BY <2>5, <2>6, <2>7 DEF AllWhole, Whole
<1>3. ASSUME NEW h \in Hosts, tcp_open(h) \/ tcp_accept_ready(h) \/ tcp_shutdown(h) \/ tcp_receive(h)
                              \/ tcp_tick(h) \/ Repeated(h)
      PROVE  written' = written
  BY <1>3 DEF tcp_open, tcp_accept_ready, tcp_shutdown, tcp_receive, tcp_tick, Repeated
<1>4. ASSUME NEW h \in Hosts, NEW n \in ReadLens, tcp_read(h, n)
      PROVE  written' = written
  BY <1>4 DEF tcp_read
<1>5. ListenerShutdown \/ Lose => written' = written
  BY DEF ListenerShutdown, Lose
<1> QED
  BY <1>1, <1>2, <1>3, <1>4, <1>5 DEF TcpNext

\* What the theorems assume of the writes holds of every program that writes
\* one byte at a time: tcp_write sends it with the call that takes it.
THEOREM BytesGoOutWhole == WriteLens \subseteq {1} => (TcpSpec => [][AllWhole]_tcp_vars)
<1> SUFFICES ASSUME WriteLens \subseteq {1} PROVE TcpSpec => [][AllWhole]_tcp_vars
  OBVIOUS
<1>1. TcpInit => TypesOK
  BY TcpInitially DEF TcpInv
<1>2. TypesOK /\ [TcpNext]_tcp_vars => TypesOK'
  BY TypesInductive
<1>3. TypesOK /\ [TcpNext]_tcp_vars => [AllWhole]_tcp_vars
  BY ByteWhole
<1> QED
  BY <1>1, <1>2, <1>3, PTL DEF TcpSpec

-----------------------------------------------------------------------------
(* Each direction is a stream.                                             *)

\* What a step does to the bytes w writes: nothing, or what Stream says.
Streams(w) ==
    \/ pending'[w] = pending[w] /\ out'[w] = out[w] /\ open'[w] = open[w] /\ told'[w] = told[w]
    \/ /\ open[w] = TRUE
       /\ Len(pending'[w]) > Len(pending[w])
       /\ SubSeq(pending'[w], 1, Len(pending[w])) = pending[w]
       /\ out'[w] = out[w] /\ open'[w] = open[w] /\ told'[w] = told[w]
    \/ /\ told[w] = FALSE
       /\ pending[w] = out'[w] \o pending'[w]
       /\ out'[w] # <<>>
       /\ open'[w] = open[w] /\ told'[w] = told[w]
    \/ open'[w] = FALSE /\ pending'[w] = pending[w] /\ out'[w] = out[w] /\ told'[w] = told[w]
    \/ /\ open[w] = FALSE /\ pending[w] = <<>> /\ told'[w] = TRUE
       /\ pending'[w] = pending[w] /\ out'[w] = out[w] /\ open'[w] = open[w]

LEMMA WritesStream ==
    ASSUME Small, TypesOK, Core, NEW h \in Hosts, NEW n \in Nat, NEW j \in 0 .. n, Writes(h, n, j),
           NEW w \in Hosts
    PROVE  Streams(w)
<1> DEFINE b == Stretch(written[h], written[h] + n)
<1>1. /\ pending' = [pending EXCEPT ![h] = pending[h] \o b] /\ UNCHANGED <<out, open, told>>
      /\ conn[h].state = "ESTABLISHED" /\ n >= 1
  BY DEF Writes
<1>2. open[h] = TRUE
  BY <1>1 DEF Core, ConnOK, SendOK, Alive, TypesOK
<1>3. pending[h] \in Seq(Nat) /\ Len(pending[h]) \in Nat /\ written[h] \in Nat
  BY DEF TypesOK
<1>4. b \in Seq(Nat) /\ Len(b) = n
  <2>1. written[h] + n \in Nat /\ written[h] <= written[h] + n /\ (written[h] + n) - written[h] = n
    BY <1>3
  <2> QED
    BY <1>3, <2>1, StretchLen, StretchType
<1> HIDE DEF b
<1>5. CASE w # h
  BY <1>1, <1>5 DEF Streams, TypesOK
<1>6. CASE w = h
  <2> DEFINE s == pending[h]
  <2>1. pending'[w] = s \o b
    BY <1>1, <1>6 DEF TypesOK
  <2>2. s \in Seq(Nat) /\ Len(s) \in Nat
    BY <1>3
  <2> HIDE DEF s
  <2>3. s \o b \in Seq(Nat) /\ Len(s \o b) = Len(s) + n
    BY <1>4, <2>2, BothLen
  <2>4. SubSeq(s \o b, 1, Len(s)) = s
    BY <1>4, <2>2
  <2>5. Len(s \o b) > Len(s)
    BY <1>1, <2>2, <2>3
  <2>6. open[w] = TRUE /\ Len(pending'[w]) > Len(pending[w]) /\ SubSeq(pending'[w], 1, Len(pending[w])) = pending[w]
    BY <1>2, <1>6, <2>1, <2>4, <2>5 DEF s
  <2> QED
    BY <1>1, <2>6 DEF Streams
<1> QED
  BY <1>5, <1>6

LEMMA ReadsStream ==
    ASSUME Small, TypesOK, Core, NEW h \in Hosts, NEW n \in Nat, Reads(h, n), NEW g \in Hosts
    PROVE  Streams(g)
<1> DEFINE p == Peer(h)
<1>1. p \in Hosts
  BY TcpFacts
<1>2. PICK t, e, w \in Nat :
        /\ t = Taken(p) /\ e = Here(h, conn[h]) /\ w = written[p]
        /\ t + n <= e /\ e <= w
        /\ conn[h].rx = Stretch(t, e) /\ pending[p] = Stretch(t, w) /\ told[p] = FALSE
  BY ReadsWhat
<1>3. /\ n >= 1
      /\ out' = [out EXCEPT ![p] = SubSeq(conn[h].rx, 1, n)]
      /\ pending' = [pending EXCEPT ![p] = SubSeq(pending[p], n + 1, Len(pending[p]))]
      /\ UNCHANGED <<open, told>>
  BY DEF Reads
<1> HIDE DEF p
<1>4. CASE g # p
  BY <1>1, <1>3, <1>4 DEF Streams, TypesOK
<1>5. CASE g = p
  <2>1. t + n \in Nat /\ t + n <= w /\ t <= t + n
    BY <1>2
  <2>2. SubSeq(Stretch(t, e), 1, n) = Stretch(t, t + n)
    <3>1. t \in Nat /\ e \in Nat /\ n \in Nat /\ t + n <= e
      BY <1>2
    <3> QED
      BY <3>1, StretchHead, ZenonT(60)
  <2>3. SubSeq(Stretch(t, w), n + 1, Len(Stretch(t, w))) = Stretch(t + n, w)
    BY <2>1, StretchTail
  <2>4. Stretch(t, t + n) \o Stretch(t + n, w) = Stretch(t, w)
    BY <2>1, StretchCat
  <2>5. out'[p] = Stretch(t, t + n)
    BY <1>1, <1>2, <1>3, <2>2 DEF TypesOK
  <2>6. pending'[p] = Stretch(t + n, w)
    BY <1>1, <1>2, <1>3, <2>3 DEF TypesOK
  <2>7. Stretch(t, t + n) # <<>>
    <3>1. Len(Stretch(t, t + n)) = (t + n) - t /\ (t + n) - t >= 1
      BY <1>3, <2>1, StretchLen
    <3> QED
      BY <3>1
  <2>8. pending[p] = out'[p] \o pending'[p] /\ out'[p] # <<>>
    BY <1>2, <2>4, <2>5, <2>6, <2>7, Zenon
  <2> QED
    BY <1>2, <1>3, <1>5, <2>8 DEF Streams
<1> QED
  BY <1>4, <1>5

LEMMA ClosesStream ==
    ASSUME TypesOK, NEW h \in Hosts, NEW st, Closes(h, st), NEW w \in Hosts
    PROVE  Streams(w)
<1>1. open' = [open EXCEPT ![h] = FALSE] /\ UNCHANGED <<pending, out, told>>
  BY DEF Closes
<1>2. CASE w = h
  BY <1>1, <1>2 DEF Streams, TypesOK
<1>3. CASE w # h
  BY <1>1, <1>3 DEF Streams, TypesOK
<1> QED
  BY <1>2, <1>3

LEMMA EndStream ==
    ASSUME TypesOK, Core, Small, NEW h \in Hosts, ReadsEnd(h), NEW w \in Hosts
    PROVE  Streams(w)
<1>1. pending[Peer(h)] = <<>> /\ open[Peer(h)] = FALSE /\ Peer(h) \in Hosts
  BY ReadsEndKeeps, TcpFacts, ZenonT(60) DEF TypesOK
<1>2. told' = [told EXCEPT ![Peer(h)] = TRUE] /\ UNCHANGED <<pending, out, open>>
  BY DEF ReadsEnd
<1>3. CASE w = Peer(h)
  BY <1>1, <1>2, <1>3 DEF Streams, TypesOK
<1>4. CASE w # Peer(h)
  BY <1>2, <1>4 DEF Streams, TypesOK
<1> QED
  BY <1>3, <1>4

LEMMA TcpStreams ==
    ASSUME Small, TypesOK, Core, [TcpNext]_tcp_vars, NEW w \in Hosts
    PROVE  Streams(w)
<1>1. CASE UNCHANGED tcp_vars
  BY <1>1 DEF tcp_vars, history, Streams
<1>2. CASE TcpNext
  <2>1. PICK h \in Hosts : Kinds(h)
    BY <1>2, StepKinds
  <2>2. ASSUME UNCHANGED <<pending, out, open, told>> PROVE Streams(w)
    BY <2>2 DEF Streams
  <2>3. QuietStep(h) \/ tcp_open(h) \/ (\E m \in net : Accepts(h, m)) => UNCHANGED <<pending, out, open, told>>
    BY DEF QuietStep, Quiet, tcp_open, history, Accepts
  <2>4. ASSUME NEW st \in {"FIN_WAIT_1", "LAST_ACK"}, Closes(h, st) PROVE Streams(w)
    BY <2>4, ClosesStream
  <2>5. ASSUME NEW n \in Nat, NEW j \in 0 .. n, Writes(h, n, j) PROVE Streams(w)
    BY <2>5, WritesStream
  <2>6. ASSUME NEW n \in Nat, Reads(h, n) PROVE Streams(w)
    BY <2>6, ReadsStream
  <2>7. ReadsEnd(h) => Streams(w)
    BY EndStream
  <2> QED
    BY <2>1, <2>2, <2>3, <2>4, <2>5, <2>6, <2>7 DEF Kinds
<1> QED
  BY <1>1, <1>2

LEMMA StreamsUp ==
    ASSUME Streams(Client)
    PROVE  [Up!Next]_(Up!vars)
BY DEF Streams, Up!Next, Up!vars, Up!Accept, Up!Deliver, Up!Close, Up!TellEnd

LEMMA StreamsDown ==
    ASSUME Streams(Server)
    PROVE  [Down!Next]_(Down!vars)
BY DEF Streams, Down!Next, Down!vars, Down!Accept, Down!Deliver, Down!Close, Down!TellEnd

\* Each side connects at most once.
OnceEach == \A h \in Hosts : MaxConns[h] <= 1

LEMMA StreamStep ==
    ASSUME Small, OnceEach, TcpInv, [TcpNext]_tcp_vars
    PROVE  [Up!Next]_(Up!vars) /\ [Down!Next]_(Down!vars)
<1>1. Single
  <2>1. ASSUME NEW h \in Hosts PROVE made[h] <= 1
    <3>1. made[h] \in Nat /\ made[h] <= MaxConns[h] /\ MaxConns[h] <= 1 /\ MaxConns[h] \in Nat
      BY TcpFacts DEF TcpInv, TypesOK, OnceEach
    <3> QED
      BY <3>1
  <2> QED
    BY <2>1 DEF Single
<1>2. TypesOK /\ Core
  BY <1>1 DEF TcpInv
<1>3. Streams(Client) /\ Streams(Server)
  BY <1>2, TcpStreams, TcpFacts
<1> QED
  BY <1>3, StreamsUp, StreamsDown

\* In each direction the bytes come out in order and once each, and the end
\* is told when all have been read, whatever the network does with the
\* segments.
THEOREM TcpKeepsStream ==
    Small /\ OnceEach => (TcpSpec /\ [][AllWhole]_tcp_vars => IsStream)
<1> SUFFICES ASSUME Small, OnceEach PROVE TcpSpec /\ [][AllWhole]_tcp_vars => IsStream
  OBVIOUS
<1>1. TcpInit => Up!Init /\ Down!Init
  BY TcpFacts DEF TcpInit, Up!Init, Down!Init
<1>2. TcpInv /\ [TcpNext]_tcp_vars => [Up!Next]_(Up!vars) /\ [Down!Next]_(Down!vars)
  BY StreamStep
<1>3. TcpSpec /\ [][AllWhole]_tcp_vars => []TcpInv
  BY TcpInvariance
<1> QED
  BY <1>1, <1>2, <1>3, PTL DEF TcpSpec, IsStream, Up!Spec, Down!Spec

\* Programs that write a byte at a time need no such hypothesis: nothing they
\* write is given up before the other side has it, and each direction is a
\* stream (tcp_write sends a byte with the call that takes it).
THEOREM BytesKeptAndInOrder ==
    Small /\ OnceEach /\ WriteLens \subseteq {1} =>
        (TcpSpec => []KeptUntilDelivered /\ IsStream)
<1> SUFFICES ASSUME Small, OnceEach, WriteLens \subseteq {1}
             PROVE  TcpSpec => []KeptUntilDelivered /\ IsStream
  OBVIOUS
<1>1. TcpSpec => [][AllWhole]_tcp_vars
  BY BytesGoOutWhole
<1>2. TcpSpec /\ [][AllWhole]_tcp_vars => []KeptUntilDelivered
  BY NoByteLost
<1>3. TcpSpec /\ [][AllWhole]_tcp_vars => IsStream
  BY TcpKeepsStream
<1> QED
  BY <1>1, <1>2, <1>3, PTL
=============================================================================
