--------------------------- MODULE LinkCubeProofs ---------------------------
(***************************************************************************)
(* Proofs about LinkCube, for queues of any size and any use: first the    *)
(* ring of Link::Queue, then what the loop of copyState moves, then the    *)
(* received words in any use of the driver, and last the words of both     *)
(* directions in a use that is a pipe.                                     *)
(***************************************************************************)
EXTENDS LinkCube, SequenceTheorems, WellFoundedInduction, TLAPS

-----------------------------------------------------------------------------
(* Slots of a ring.                                                        *)

LEMMA SizeIsPositive == Size \in Nat /\ Size > 0
  BY LinkAssumption

LEMMA Around ==
  ASSUME NEW a \in Nat, a < 2 * Size
  PROVE  a % Size = IF a < Size THEN a ELSE a - Size
<1>1. CASE a < Size
  BY <1>1, SizeIsPositive
<1>2. CASE a >= Size
  <2>. DEFINE q == a \div Size
              r == a % Size
  <2>1. q \in Nat /\ r \in 0..(Size - 1) /\ a = Size * q + r
    BY SizeIsPositive
  <2>. HIDE DEF q, r
  <2>2. q # 0
    BY <1>2, <2>1, SizeIsPositive
  <2>3. ASSUME q >= 2 PROVE FALSE
    <3>1. Size * q >= Size * 2
      BY <2>1, <2>3, SizeIsPositive
    <3>. QED
      BY <2>1, <3>1, SizeIsPositive
  <2>4. q = 1
    BY <2>1, <2>2, <2>3
  <2>. QED
    BY <1>2, <2>1, <2>4, SizeIsPositive DEF r
<1>. QED
  BY <1>1, <1>2, SizeIsPositive

Slots == 0..(Size - 1)

Slot(f, k) == (f + k) % Size

LEMMA SlotValue ==
  ASSUME NEW f \in Slots, NEW k \in Nat, k <= Size
  PROVE  Slot(f, k) = IF f + k < Size THEN f + k ELSE f + k - Size
<1>. DEFINE a == f + k
<1>1. a \in Nat /\ a < 2 * Size
  BY SizeIsPositive DEF Slots
<1>. HIDE DEF a
<1>2. a % Size = IF a < Size THEN a ELSE a - Size
  BY <1>1, Around
<1>. QED
  BY <1>2, SizeIsPositive DEF Slot, Slots, a

LEMMA SlotIsOne ==
  ASSUME NEW f \in Slots, NEW k \in Nat, k <= Size
  PROVE  Slot(f, k) \in Slots
  BY SlotValue, SizeIsPositive DEF Slots

LEMMA NoStep ==
  ASSUME NEW f \in Slots
  PROVE  Slot(f, 0) = f
  BY SlotValue, SizeIsPositive DEF Slots

LEMMA StepAfter ==
  ASSUME NEW f \in Slots, NEW k \in Slots
  PROVE  Slot(Slot(f, k), 1) = Slot(f, k + 1)
<1>1. f \in Nat /\ f < Size /\ k \in Nat /\ k < Size
  BY SizeIsPositive DEF Slots
<1>2. Slot(f, k) \in Slots /\ Slot(f, k) = IF f + k < Size THEN f + k ELSE f + k - Size
  BY <1>1, SlotValue, SlotIsOne, SizeIsPositive
<1>3. Slot(f, k + 1) = IF f + (k + 1) < Size THEN f + (k + 1) ELSE f + (k + 1) - Size
  BY <1>1, SlotValue, SizeIsPositive
<1>4. Slot(Slot(f, k), 1) = IF Slot(f, k) + 1 < Size THEN Slot(f, k) + 1 ELSE Slot(f, k) + 1 - Size
  BY <1>2, SlotValue, SizeIsPositive
<1>. QED
  BY <1>1, <1>2, <1>3, <1>4, SizeIsPositive

LEMMA StepBefore ==
  ASSUME NEW f \in Slots, NEW k \in Slots
  PROVE  Slot(Slot(f, 1), k) = Slot(f, k + 1)
<1>1. f \in Nat /\ f < Size /\ k \in Nat /\ k < Size
  BY SizeIsPositive DEF Slots
<1>2. Slot(f, 1) \in Slots /\ Slot(f, 1) = IF f + 1 < Size THEN f + 1 ELSE f + 1 - Size
  BY <1>1, SlotValue, SlotIsOne, SizeIsPositive
<1>3. Slot(f, k + 1) = IF f + (k + 1) < Size THEN f + (k + 1) ELSE f + (k + 1) - Size
  BY <1>1, SlotValue, SizeIsPositive
<1>4. Slot(Slot(f, 1), k) = IF Slot(f, 1) + k < Size THEN Slot(f, 1) + k ELSE Slot(f, 1) + k - Size
  BY <1>1, <1>2, SlotValue, SizeIsPositive
<1>. QED
  BY <1>1, <1>2, <1>3, <1>4, SizeIsPositive

LEMMA SlotsDiffer ==
  ASSUME NEW f \in Slots, NEW j \in Slots, NEW k \in Slots, j # k
  PROVE  Slot(f, j) # Slot(f, k)
<1>1. /\ f \in Nat /\ f < Size /\ j \in Nat /\ j < Size /\ k \in Nat /\ k < Size
  BY SizeIsPositive DEF Slots
<1>2. /\ Slot(f, j) = IF f + j < Size THEN f + j ELSE f + j - Size
      /\ Slot(f, k) = IF f + k < Size THEN f + k ELSE f + k - Size
  BY <1>1, SlotValue, SizeIsPositive
<1>. QED
  BY <1>1, <1>2, SizeIsPositive

-----------------------------------------------------------------------------
(* Link::Queue.                                                            *)

Queues == [arr : [Slots -> Nat], front : Slots, rear : -1..(Size - 1), count : 0..Size,
           overflow : BOOLEAN]

Queue(q) == q \in Queues /\ WellFormed(q)

All(q) == Items(q, q.count)

LEMMA Positions ==
  ASSUME NEW q \in Queues
  PROVE  /\ q.arr \in [Slots -> Nat] /\ q.front \in Slots /\ q.rear + 1 \in 0..Size
         /\ q.count \in Nat /\ q.count <= Size /\ q.overflow \in BOOLEAN
  BY SizeIsPositive DEF Queues

LEMMA FormOfQueue ==
  ASSUME NEW q \in Queues
  PROVE  WellFormed(q) <=> Slot(q.front, q.count) = (q.rear + 1) % Size
  BY DEF WellFormed, Slot

LEMMA ItemsAreWords ==
  ASSUME NEW q \in Queues, NEW n \in Nat, n <= Size
  PROVE  /\ Items(q, n) \in Seq(Nat) /\ Len(Items(q, n)) = n
         /\ \A i \in 1..n : Items(q, n)[i] = q.arr[Slot(q.front, i - 1)]
<1>1. ASSUME NEW i \in 1..n
      PROVE  q.arr[(q.front + i - 1) % Size] = q.arr[Slot(q.front, i - 1)]
             /\ q.arr[(q.front + i - 1) % Size] \in Nat
  <2>1. q.front \in Slots /\ i - 1 \in Nat /\ i - 1 <= Size /\ q.arr \in [Slots -> Nat]
    BY Positions, SizeIsPositive
  <2>2. q.front + i - 1 = q.front + (i - 1)
    BY <2>1 DEF Slots
  <2>3. Slot(q.front, i - 1) \in Slots
    BY <2>1, SlotIsOne
  <2>4. (q.front + i - 1) % Size = Slot(q.front, i - 1)
    BY <2>2 DEF Slot
  <2>. QED
    BY <2>1, <2>3, <2>4
<1>2. Items(q, n) \in [1..n -> Nat]
  BY <1>1 DEF Items
<1>3. Items(q, n) \in Seq(Nat) /\ Len(Items(q, n)) = n
  BY <1>2, SizeIsPositive
<1>. QED
  BY <1>1, <1>3 DEF Items

LEMMA EmptyIsQueue == Queue(EmptyQueue) /\ All(EmptyQueue) = <<>>
<1>1. EmptyQueue \in Queues
  BY SizeIsPositive DEF EmptyQueue, Queues, Slots
<1>. QED
  BY <1>1, SizeIsPositive DEF EmptyQueue, Queue, WellFormed, All, Items

LEMMA ClearedIsQueue ==
  ASSUME NEW q \in Queues
  PROVE  Queue(clear(q)) /\ All(clear(q)) = <<>> /\ clear(q).count = 0
<1>1. 0 \in Slots /\ -1 \in -1..(Size - 1) /\ 0 \in 0..Size
  BY SizeIsPositive DEF Slots
<1>2. clear(q) \in Queues /\ clear(q).front = 0 /\ clear(q).rear = -1 /\ clear(q).count = 0
  BY <1>1 DEF clear, Queues
<1>. QED
  BY <1>2, SizeIsPositive DEF Queue, WellFormed, All, Items

\* The flag is nobody's concern.
LEMMA FlaggedIsQueue ==
  ASSUME NEW q, Queue(q), NEW v \in BOOLEAN
  PROVE  Queue([q EXCEPT !.overflow = v]) /\ All([q EXCEPT !.overflow = v]) = All(q)
  BY DEF Queue, Queues, WellFormed, All, Items

\* What a pop leaves, its count aside.
LEMMA Dropped ==
  ASSUME NEW q \in Queues, NEW n \in Nat, n > 0, n <= Size, NEW r \in Queues,
         r.arr = q.arr, r.front = Slot(q.front, 1)
  PROVE  /\ Head(Items(q, n)) = q.arr[q.front] /\ Items(q, n) # <<>>
         /\ Items(r, n - 1) = Tail(Items(q, n))
<1>1. /\ Items(q, n) \in Seq(Nat) /\ Len(Items(q, n)) = n
      /\ \A i \in 1..n : Items(q, n)[i] = q.arr[Slot(q.front, i - 1)]
  BY ItemsAreWords
<1>2. /\ Items(r, n - 1) \in Seq(Nat) /\ Len(Items(r, n - 1)) = n - 1
      /\ \A i \in 1..(n - 1) : Items(r, n - 1)[i] = r.arr[Slot(r.front, i - 1)]
  <2>1. n - 1 \in Nat /\ n - 1 <= Size
    BY SizeIsPositive
  <2>. QED
    BY <2>1, ItemsAreWords
<1>3. Items(q, n) # <<>> /\ Head(Items(q, n)) = Items(q, n)[1]
  BY <1>1
<1>4. Items(q, n)[1] = q.arr[q.front]
  <2>1. q.front \in Slots /\ 1 \in 1..n /\ 1 - 1 = 0
    BY Positions
  <2>2. Slot(q.front, 0) = q.front
    BY <2>1, NoStep
  <2>. QED
    BY <1>1, <2>1, <2>2
<1>5. ASSUME NEW i \in 1..(n - 1)
      PROVE  Items(r, n - 1)[i] = Items(q, n)[i + 1]
  <2>1. /\ i - 1 \in Slots /\ q.front \in Slots /\ i + 1 \in 1..n /\ (i - 1) + 1 = i
        /\ (i + 1) - 1 = i
    BY Positions, SizeIsPositive DEF Slots
  <2>2. Slot(r.front, i - 1) = Slot(q.front, i)
    BY <2>1, StepBefore
  <2>. QED
    BY <1>1, <1>2, <2>1, <2>2
<1>6. /\ Tail(Items(q, n)) \in Seq(Nat) /\ Len(Tail(Items(q, n))) = n - 1
      /\ \A i \in 1..(n - 1) : Tail(Items(q, n))[i] = Items(q, n)[i + 1]
  BY <1>1, <1>3, HeadTailProperties
<1>7. Items(r, n - 1) = Tail(Items(q, n))
  <2>. DEFINE a == Items(r, n - 1)
              b == Tail(Items(q, n))
  <2>1. a \in Seq(Nat) /\ b \in Seq(Nat) /\ Len(a) = n - 1 /\ Len(b) = n - 1
        /\ \A i \in 1..(n - 1) : a[i] = b[i]
    BY <1>2, <1>5, <1>6
  <2>. HIDE DEF a, b
  <2>2. a = b
    BY <2>1, SeqEqual
  <2>. QED
    BY <2>2 DEF a, b
<1>. QED
  BY <1>3, <1>4, <1>7

LEMMA PoppedQueue ==
  ASSUME NEW q, Queue(q), q.count > 0, NEW r, r = pop(q)
  PROVE  /\ Queue(r) /\ r.count = q.count - 1 /\ r.overflow = q.overflow
         /\ Popped(q) = Head(All(q)) /\ All(q) # <<>> /\ All(r) = Tail(All(q))
         /\ Popped(q) \in Nat
<1>. DEFINE front == Slot(q.front, 1)
            n == q.count
<1>1. r = [q EXCEPT !.front = front, !.count = n - 1]
  BY DEF pop, isEmpty, Slot
<1>2. /\ q \in Queues /\ q.front \in Slots /\ n \in Nat /\ n > 0 /\ n <= Size
      /\ n - 1 \in 0..Size /\ n - 1 \in Slots /\ (n - 1) + 1 = n
      /\ q.arr \in [Slots -> Nat]
  BY Positions, SizeIsPositive DEF Queue, Slots
<1>3. front \in Slots
  BY <1>2, SlotIsOne, SizeIsPositive
<1>. HIDE DEF front, n
<1>4. /\ r \in Queues /\ r.count = n - 1 /\ r.arr = q.arr /\ r.rear = q.rear
      /\ r.front = front /\ r.overflow = q.overflow
  BY <1>1, <1>2, <1>3 DEF Queues
<1>5. WellFormed(r)
  <2>1. Slot(front, n - 1) = Slot(q.front, n)
    BY <1>2, StepBefore DEF front
  <2>. QED
    BY <1>2, <1>4, <2>1, FormOfQueue DEF Queue, n
<1>6. Popped(q) = q.arr[q.front] /\ q.arr[q.front] \in Nat
  BY <1>2 DEF Popped, isEmpty
<1>7. /\ Head(Items(q, n)) = q.arr[q.front] /\ Items(q, n) # <<>>
      /\ Items(r, n - 1) = Tail(Items(q, n))
  BY <1>2, <1>4, Dropped DEF front
<1>. QED
  BY <1>4, <1>5, <1>6, <1>7 DEF Queue, All, n

\* A word is stored behind n others.
LEMMA Stored ==
  ASSUME NEW q \in Queues, NEW n \in Slots, NEW r \in Queues, NEW x \in Nat,
         r.arr = [q.arr EXCEPT ![Slot(q.front, n)] = x], r.front = q.front
  PROVE  Items(r, n) = Items(q, n) /\ Items(r, n + 1) = Append(Items(q, n), x)
<1>1. /\ q.front \in Slots /\ q.arr \in [Slots -> Nat]
      /\ n \in Nat /\ n <= Size /\ n + 1 \in Nat /\ n + 1 <= Size /\ (n + 1) - 1 = n
  BY Positions, SizeIsPositive DEF Slots
<1>2. Slot(q.front, n) \in Slots
  BY <1>1, SlotIsOne
<1>3. ASSUME NEW i \in 1..n
      PROVE  r.arr[Slot(r.front, i - 1)] = q.arr[Slot(q.front, i - 1)]
  <2>1. i - 1 \in Slots /\ i - 1 # n /\ i - 1 \in Nat /\ i - 1 <= Size
    BY <1>1, SizeIsPositive DEF Slots
  <2>2. Slot(q.front, i - 1) # Slot(q.front, n)
    BY <1>1, <2>1, SlotsDiffer
  <2>3. Slot(q.front, i - 1) \in Slots
    BY <1>1, <2>1, SlotIsOne
  <2>. QED
    BY <1>1, <2>2, <2>3
<1>4. r.arr[Slot(r.front, n)] = x
  BY <1>1, <1>2
<1>5. /\ Items(q, n) \in Seq(Nat) /\ Len(Items(q, n)) = n
      /\ \A i \in 1..n : Items(q, n)[i] = q.arr[Slot(q.front, i - 1)]
  BY <1>1, ItemsAreWords
<1>6. /\ Items(r, n) \in Seq(Nat) /\ Len(Items(r, n)) = n
      /\ \A i \in 1..n : Items(r, n)[i] = r.arr[Slot(r.front, i - 1)]
  BY <1>1, ItemsAreWords
<1>7. /\ Items(r, n + 1) \in Seq(Nat) /\ Len(Items(r, n + 1)) = n + 1
      /\ \A i \in 1..(n + 1) : Items(r, n + 1)[i] = r.arr[Slot(r.front, i - 1)]
  BY <1>1, ItemsAreWords
<1>8. Items(r, n) = Items(q, n)
  <2>. DEFINE a == Items(r, n)
              b == Items(q, n)
  <2>1. a \in Seq(Nat) /\ b \in Seq(Nat) /\ Len(a) = n /\ Len(b) = n
        /\ \A i \in 1..n : a[i] = b[i]
    BY <1>3, <1>5, <1>6
  <2>. HIDE DEF a, b
  <2>2. a = b
    BY <2>1, SeqEqual
  <2>. QED
    BY <2>2 DEF a, b
<1>9. Items(r, n + 1) = Append(Items(q, n), x)
  <2>. DEFINE a == Items(r, n + 1)
              b == Items(q, n)
              c == Append(b, x)
  <2>1. /\ b \in Seq(Nat) /\ Len(b) = n
        /\ a \in Seq(Nat) /\ Len(a) = n + 1 /\ a[n + 1] = x
        /\ \A i \in 1..n : a[i] = b[i]
    <3>1. n + 1 \in 1..(n + 1) /\ \A i \in 1..n : i \in 1..(n + 1)
      BY <1>1
    <3>. QED
      BY <1>1, <1>3, <1>4, <1>5, <1>7, <3>1
  <2>. HIDE DEF a, b
  <2>2. /\ c \in Seq(Nat) /\ Len(c) = n + 1 /\ c[n + 1] = x
        /\ \A i \in 1..n : c[i] = b[i]
    BY <2>1
  <2>3. \A i \in 1..(n + 1) : a[i] = c[i]
    BY <1>1, <2>1, <2>2
  <2>. HIDE DEF c
  <2>4. a = c
    BY <2>1, <2>2, <2>3, SeqEqual
  <2>. QED
    BY <2>4 DEF a, b, c
<1>. QED
  BY <1>8, <1>9

LEMMA PushedQueue ==
  ASSUME NEW q, Queue(q), q.count < Size, NEW x \in Nat, NEW r, r = push(q, x)
  PROVE  /\ Queue(r) /\ r.count = q.count + 1 /\ r.overflow = q.overflow
         /\ All(r) = Append(All(q), x)
<1>. DEFINE n == q.count
            slot == Slot(q.front, n)
            arr == [q.arr EXCEPT ![slot] = x]
<1>1. /\ q \in Queues /\ q.front \in Slots /\ n \in Slots /\ n \in Nat /\ n <= Size
      /\ n + 1 \in 0..Size /\ q.arr \in [Slots -> Nat]
  BY Positions, SizeIsPositive DEF Queue, Slots
<1>2. slot \in Slots /\ slot \in -1..(Size - 1) /\ (q.rear + 1) % Size = slot
  <2>1. slot \in Slots
    BY <1>1, SlotIsOne
  <2>2. (q.rear + 1) % Size = slot
    BY <1>1, FormOfQueue DEF Queue
  <2>. HIDE DEF slot
  <2>. QED
    BY <2>1, <2>2, SizeIsPositive DEF Slots
<1>. HIDE DEF slot
<1>3. ~isFull(q)
  BY <1>1, SizeIsPositive DEF isFull
<1>4. r = [q EXCEPT !.rear = slot, !.arr[slot] = x, !.count = @ + 1]
  BY <1>2, <1>3 DEF push
<1>5. r = [q EXCEPT !.rear = slot, !.arr = arr, !.count = n + 1]
  BY <1>1, <1>4 DEF Queues
<1>6. arr \in [Slots -> Nat]
  BY <1>1, <1>2
<1>. HIDE DEF arr, n
<1>7. /\ r \in Queues /\ r.count = n + 1 /\ r.arr = arr
      /\ r.rear = slot /\ r.front = q.front /\ r.overflow = q.overflow
  BY <1>1, <1>2, <1>5, <1>6 DEF Queues
<1>8. WellFormed(r)
  <2>1. Slot(slot, 1) = Slot(q.front, n + 1)
    BY <1>1, StepAfter DEF slot
  <2>. QED
    BY <1>7, <2>1, FormOfQueue DEF Slot
<1>9. Items(r, n + 1) = Append(Items(q, n), x)
  BY <1>1, <1>7, Stored DEF arr, slot
<1>. QED
  BY <1>7, <1>8, <1>9 DEF Queue, All, n

LEMMA PushedFull ==
  ASSUME NEW q, Queue(q), q.count = Size, NEW x \in Nat, NEW r, r = push(q, x)
  PROVE  /\ Queue(r) /\ r.count = Size
         /\ All(q) # <<>> /\ All(r) = Append(Tail(All(q)), x)
<1>. DEFINE p == pop(q)
            room == [p EXCEPT !.overflow = TRUE]
<1>1. Queue(p) /\ p.count = Size - 1 /\ All(q) # <<>> /\ All(p) = Tail(All(q))
  BY PoppedQueue, SizeIsPositive
<1>2. r = [room EXCEPT !.rear = (room.rear + 1) % Size, !.arr[(room.rear + 1) % Size] = x,
                       !.count = @ + 1]
  BY DEF push, isFull
<1>. HIDE DEF p
<1>3. Queue(room) /\ room.count = Size - 1 /\ All(room) = Tail(All(q))
  <2>1. Queue(room) /\ All(room) = All(p)
    BY <1>1, FlaggedIsQueue
  <2>2. room.count = p.count
    BY <1>1 DEF Queue, Queues
  <2>. QED
    BY <1>1, <2>1, <2>2
<1>. HIDE DEF room
<1>4. r = push(room, x)
  <2>1. ~isFull(room)
    BY <1>3, SizeIsPositive DEF isFull
  <2>. QED
    BY <1>2, <2>1, Zenon DEF push
<1>. QED
  BY <1>1, <1>3, <1>4, PushedQueue, SizeIsPositive


-----------------------------------------------------------------------------
(* What the loop of copyState does, step by step.  Induction is a fact     *)
(* about sets of numbers here.                                             *)

LEMMA LeastNat ==
  ASSUME NEW T, T \subseteq Nat, T # {}
  PROVE  \E x \in T : \A y \in T : x <= y
<1>. DEFINE Less == {ss \in Nat \X Nat : ss[1] < ss[2]}
<1>1. IsWellFoundedOn(Less, Nat)
  BY NatLessThanWellFounded, Zenon DEF OpToRel
<1>2. PICK x \in T : \A y \in T : ~ (<<y, x>> \in Less)
  <2>. HIDE DEF Less
  <2>. QED
    BY <1>1, WFMin
<1>3. \A y \in T : x <= y
  <2>. TAKE y \in T
  <2>1. <<y, x>> \in Nat \X Nat
    OBVIOUS
  <2>2. ~(y < x)
    BY <1>2, <2>1 DEF Less
  <2>. QED
    BY <2>2
<1>. QED
  BY <1>3

LEMMA NatSetInduction ==
  ASSUME NEW S, 0 \in S, \A n \in Nat : n \in S => n + 1 \in S
  PROVE  Nat \subseteq S
<1>. SUFFICES ASSUME Nat \ S # {} PROVE FALSE
  OBVIOUS
<1>1. PICK x \in Nat \ S : \A y \in Nat \ S : x <= y
  BY LeastNat
<1>2. x # 0 /\ x - 1 \in Nat
  BY <1>1
<1>3. x - 1 \in S
  BY <1>1, <1>2
<1>. QED
  BY <1>2, <1>3

Pair(new, inc) == [new |-> new, inc |-> inc]
Moving(p) == [new |-> pop(p.new), inc |-> push(p.inc, Popped(p.new))]

\* f holds the pairs of queues after 0, 1, ..., n words.
Steps(f, new, inc, n) ==
  f = [i \in 0..n |-> IF i = 0 THEN Pair(new, inc) ELSE Moving(f[i - 1])]

LEMMA StepsAre ==
  ASSUME NEW f, NEW new, NEW inc, NEW n \in Nat, Steps(f, new, inc, n)
  PROVE  f[0] = Pair(new, inc) /\ \A i \in 1..n : f[i] = Moving(f[i - 1])
<1>1. \A i \in 0..n : f[i] = IF i = 0 THEN Pair(new, inc) ELSE Moving(f[i - 1])
  BY DEF Steps
<1>. QED
  BY <1>1

LEMMA StepsExist ==
  ASSUME NEW new, NEW inc, NEW n \in Nat
  PROVE  \E f : Steps(f, new, inc, n)
<1>. DEFINE S == {k \in Nat : \E f : Steps(f, new, inc, k)}
<1>1. 0 \in S
  <2>. DEFINE f == [i \in 0..0 |-> Pair(new, inc)]
  <2>1. Steps(f, new, inc, 0)
    BY DEF Steps
  <2>. QED
    BY <2>1
<1>2. ASSUME NEW k \in Nat, k \in S PROVE k + 1 \in S
  <2>1. PICK f : Steps(f, new, inc, k)
    BY <1>2
  <2>. DEFINE g == [i \in 0..(k + 1) |-> IF i <= k THEN f[i] ELSE Moving(f[k])]
  <2>2. ASSUME NEW i \in 0..(k + 1)
        PROVE  g[i] = IF i = 0 THEN Pair(new, inc) ELSE Moving(g[i - 1])
    <3>1. CASE i = 0
      BY <2>1, <3>1, StepsAre
    <3>2. CASE i \in 1..k
      BY <2>1, <3>2, StepsAre
    <3>3. CASE i = k + 1
      BY <3>3
    <3>. QED
      BY <3>1, <3>2, <3>3
  <2>3. g = [i \in 0..(k + 1) |-> g[i]]
    OBVIOUS
  <2>. HIDE DEF g
  <2>4. Steps(g, new, inc, k + 1)
    BY <2>2, <2>3 DEF Steps
  <2>. QED
    BY <2>4
<1>. HIDE DEF S
<1>3. Nat \subseteq S
  BY <1>1, <1>2, NatSetInduction
<1>. QED
  BY <1>3 DEF S

Fitting(new, inc) == IF new.count <= Size - inc.count THEN new.count ELSE Size - inc.count

LEMMA MovedInSteps ==
  ASSUME NEW new, NEW inc, Fitting(new, inc) \in Nat
  PROVE  \E f : Steps(f, new, inc, Fitting(new, inc)) /\ Moved(new, inc) = f[Fitting(new, inc)]
<1>. DEFINE n == Fitting(new, inc)
            f == CHOOSE f : Steps(f, new, inc, n)
<1>1. Steps(f, new, inc, n)
  BY StepsExist
<1>2. Moved(new, inc) = f[n]
  BY DEF Moved, Steps, Fitting, Pair, Moving
<1>. QED
  BY <1>1, <1>2


-----------------------------------------------------------------------------
(* Sequences of words.                                                     *)

Words == Seq(Nat)

LEMMA Concatenated ==
  ASSUME NEW a \in Words, NEW b \in Words
  PROVE  /\ a \o b \in Words /\ Len(a \o b) = Len(a) + Len(b)
         /\ \A i \in 1..Len(a) : (a \o b)[i] = a[i]
         /\ \A i \in 1..Len(b) : (a \o b)[Len(a) + i] = b[i]
<1>1. /\ a \o b \in Words /\ Len(a \o b) = Len(a) + Len(b)
      /\ \A i \in 1..(Len(a) + Len(b)) :
           (a \o b)[i] = IF i <= Len(a) THEN a[i] ELSE b[i - Len(a)]
  BY ConcatProperties DEF Words
<1>2. Len(a) \in Nat /\ Len(b) \in Nat
  BY DEF Words
<1>3. ASSUME NEW i \in 1..Len(a) PROVE (a \o b)[i] = a[i]
  <2>1. i \in 1..(Len(a) + Len(b)) /\ i <= Len(a)
    BY <1>2
  <2>. QED
    BY <1>1, <2>1
<1>4. ASSUME NEW i \in 1..Len(b) PROVE (a \o b)[Len(a) + i] = b[i]
  <2>1. /\ Len(a) + i \in 1..(Len(a) + Len(b)) /\ ~(Len(a) + i <= Len(a))
        /\ (Len(a) + i) - Len(a) = i
    BY <1>2
  <2>. QED
    BY <1>1, <2>1
<1>. QED
  BY <1>1, <1>3, <1>4

LEMMA Tails ==
  ASSUME NEW s \in Words, s # <<>>
  PROVE  /\ Head(s) \in Nat /\ Head(s) = s[1]
         /\ Tail(s) \in Words /\ Len(s) >= 1 /\ Len(Tail(s)) = Len(s) - 1
         /\ \A i \in 1..(Len(s) - 1) : Tail(s)[i] = s[i + 1]
  BY HeadTailProperties DEF Words

LEMMA Appended ==
  ASSUME NEW s \in Words, NEW x \in Nat
  PROVE  /\ Append(s, x) \in Words /\ Len(Append(s, x)) = Len(s) + 1
         /\ \A i \in 1..Len(s) : Append(s, x)[i] = s[i]
         /\ Append(s, x)[Len(s) + 1] = x
  BY DEF Words

LEMMA SameWords ==
  ASSUME NEW s \in Words, NEW t \in Words, Len(s) = Len(t), \A i \in 1..Len(s) : s[i] = t[i]
  PROVE  s = t
  BY SeqEqual DEF Words

LEMMA AppendBehind ==
  ASSUME NEW a \in Words, NEW b \in Words, NEW x \in Nat
  PROVE  a \o Append(b, x) = Append(a \o b, x)
<1>. DEFINE c == Append(b, x)
            d == a \o b
            s == a \o c
            t == Append(d, x)
            n == Len(a)
            m == Len(b)
<1>1. n \in Nat /\ m \in Nat
  BY DEF Words
<1>2. /\ c \in Words /\ Len(c) = m + 1 /\ c[m + 1] = x
      /\ \A i \in 1..m : c[i] = b[i]
  BY Appended
<1>3. /\ d \in Words /\ Len(d) = n + m
      /\ \A i \in 1..n : d[i] = a[i]
      /\ \A i \in 1..m : d[n + i] = b[i]
  BY Concatenated
<1>. HIDE DEF c, d
<1>4. /\ s \in Words /\ Len(s) = n + (m + 1)
      /\ \A i \in 1..n : s[i] = a[i]
      /\ \A i \in 1..(m + 1) : s[n + i] = c[i]
  <2>1. /\ s \in Words /\ Len(s) = n + Len(c)
        /\ \A i \in 1..n : s[i] = a[i]
        /\ \A i \in 1..Len(c) : s[n + i] = c[i]
    BY <1>2, Concatenated
  <2>. HIDE DEF s, n, m
  <2>. QED
    BY <1>2, <2>1
<1>5. /\ t \in Words /\ Len(t) = n + m + 1 /\ t[n + m + 1] = x
      /\ \A i \in 1..(n + m) : t[i] = d[i]
  <2>1. /\ t \in Words /\ Len(t) = Len(d) + 1 /\ t[Len(d) + 1] = x
        /\ \A i \in 1..Len(d) : t[i] = d[i]
    BY <1>3, Appended
  <2>. HIDE DEF t, n, m
  <2>. QED
    BY <1>3, <2>1
<1>. HIDE DEF s, t, n, m
<1>6. ASSUME NEW i \in 1..(n + m + 1) PROVE s[i] = t[i]
  <2>1. CASE i \in 1..n
    BY <1>1, <1>3, <1>4, <1>5, <2>1
  <2>2. CASE i = n + m + 1
    <3>1. m + 1 \in 1..(m + 1) /\ n + (m + 1) = i
      BY <1>1, <2>2
    <3>. QED
      BY <1>2, <1>4, <1>5, <2>2, <3>1
  <2>3. CASE i \in (n + 1)..(n + m)
    <3>. DEFINE j == i - n
    <3>1. j \in 1..m /\ j \in 1..(m + 1) /\ n + j = i /\ i \in 1..(n + m)
      BY <1>1, <2>3
    <3>. HIDE DEF j
    <3>2. s[i] = b[j]
      BY <1>2, <1>4, <3>1
    <3>3. t[i] = b[j]
      BY <1>3, <1>5, <3>1
    <3>. QED
      BY <3>2, <3>3
  <2>. QED
    BY <1>1, <2>1, <2>2, <2>3
<1>7. Len(s) = n + m + 1 /\ Len(t) = n + m + 1
  BY <1>1, <1>4, <1>5
<1>8. s = t
  BY <1>4, <1>5, <1>6, <1>7, SameWords
<1>. QED
  BY <1>8 DEF s, t, c, d

LEMMA TailOfBoth ==
  ASSUME NEW a \in Words, NEW b \in Words, a # <<>>
  PROVE  a \o b # <<>> /\ Head(a \o b) = Head(a) /\ Tail(a \o b) = Tail(a) \o b
<1>. DEFINE c == Tail(a)
            d == a \o b
            s == c \o b
            t == Tail(d)
            n == Len(a)
            m == Len(b)
<1>1. n \in Nat /\ m \in Nat
  BY DEF Words
<1>2. /\ c \in Words /\ n >= 1 /\ Len(c) = n - 1 /\ Head(a) = a[1]
      /\ \A i \in 1..(n - 1) : c[i] = a[i + 1]
  BY Tails
<1>3. /\ d \in Words /\ Len(d) = n + m
      /\ \A i \in 1..n : d[i] = a[i]
      /\ \A i \in 1..m : d[n + i] = b[i]
  BY Concatenated
<1>4. d # <<>>
  <2>. HIDE DEF d, n, m
  <2>. QED
    BY <1>1, <1>2, <1>3
<1>. HIDE DEF c, d
<1>5. /\ s \in Words /\ Len(s) = (n - 1) + m
      /\ \A i \in 1..(n - 1) : s[i] = c[i]
      /\ \A i \in 1..m : s[(n - 1) + i] = b[i]
  <2>1. /\ s \in Words /\ Len(s) = Len(c) + m
        /\ \A i \in 1..Len(c) : s[i] = c[i]
        /\ \A i \in 1..m : s[Len(c) + i] = b[i]
    BY <1>2, Concatenated
  <2>. HIDE DEF s, n, m
  <2>. QED
    BY <1>2, <2>1
<1>6. /\ t \in Words /\ Len(t) = (n + m) - 1 /\ Head(d) = d[1]
      /\ \A i \in 1..((n + m) - 1) : t[i] = d[i + 1]
  BY <1>3, <1>4, Tails
<1>. HIDE DEF s, t, n, m
<1>7. ASSUME NEW i \in 1..((n + m) - 1) PROVE s[i] = t[i]
  <2>1. CASE i \in 1..(n - 1)
    <3>1. i + 1 \in 1..n
      BY <1>1, <2>1
    <3>. QED
      BY <1>2, <1>3, <1>5, <1>6, <2>1, <3>1
  <2>2. CASE i \in n..((n + m) - 1)
    <3>. DEFINE j == i - (n - 1)
    <3>1. j \in 1..m /\ (n - 1) + j = i /\ n + j = i + 1
      BY <1>1, <1>2, <2>2
    <3>. HIDE DEF j
    <3>2. s[i] = b[j]
      BY <1>5, <3>1
    <3>3. t[i] = b[j]
      BY <1>3, <1>6, <3>1
    <3>. QED
      BY <3>2, <3>3
  <2>. QED
    BY <1>1, <1>2, <2>1, <2>2
<1>8. Len(s) = (n + m) - 1 /\ Len(t) = (n + m) - 1
  BY <1>1, <1>2, <1>5, <1>6
<1>9. s = t
  BY <1>5, <1>6, <1>7, <1>8, SameWords
<1>10. Head(d) = Head(a)
  BY <1>1, <1>2, <1>3, <1>6
<1>. QED
  BY <1>4, <1>9, <1>10 DEF s, t, c, d

\* A word that goes from one sequence to the next before it.
LEMMA HeadMoves ==
  ASSUME NEW a \in Words, NEW b \in Words, b # <<>>
  PROVE  Append(a, Head(b)) \o Tail(b) = a \o b
<1>. DEFINE c == Append(a, Head(b))
            e == Tail(b)
            s == c \o e
            t == a \o b
            n == Len(a)
            m == Len(b)
<1>1. n \in Nat /\ m \in Nat
  BY DEF Words
<1>2. /\ e \in Words /\ m >= 1 /\ Len(e) = m - 1 /\ Head(b) = b[1] /\ Head(b) \in Nat
      /\ \A i \in 1..(m - 1) : e[i] = b[i + 1]
  BY Tails
<1>3. /\ c \in Words /\ Len(c) = n + 1 /\ c[n + 1] = b[1]
      /\ \A i \in 1..n : c[i] = a[i]
  BY <1>2, Appended
<1>. HIDE DEF c, e
<1>4. /\ s \in Words /\ Len(s) = (n + 1) + (m - 1)
      /\ \A i \in 1..(n + 1) : s[i] = c[i]
      /\ \A i \in 1..(m - 1) : s[(n + 1) + i] = e[i]
  <2>1. /\ s \in Words /\ Len(s) = Len(c) + Len(e)
        /\ \A i \in 1..Len(c) : s[i] = c[i]
        /\ \A i \in 1..Len(e) : s[Len(c) + i] = e[i]
    BY <1>2, <1>3, Concatenated
  <2>. HIDE DEF s, n, m
  <2>. QED
    BY <1>2, <1>3, <2>1
<1>5. /\ t \in Words /\ Len(t) = n + m
      /\ \A i \in 1..n : t[i] = a[i]
      /\ \A i \in 1..m : t[n + i] = b[i]
  BY Concatenated
<1>. HIDE DEF s, t, n, m
<1>6. ASSUME NEW i \in 1..(n + m) PROVE s[i] = t[i]
  <2>1. CASE i \in 1..n
    BY <1>1, <1>3, <1>4, <1>5, <2>1
  <2>2. CASE i = n + 1
    <3>1. 1 \in 1..m /\ i \in 1..(n + 1)
      BY <1>1, <1>2, <2>2
    <3>. QED
      BY <1>3, <1>4, <1>5, <2>2, <3>1
  <2>3. CASE i \in (n + 2)..(n + m)
    <3>. DEFINE j == i - (n + 1)
    <3>1. j \in 1..(m - 1) /\ j + 1 \in 1..m /\ (n + 1) + j = i /\ n + (j + 1) = i
      BY <1>1, <1>2, <2>3
    <3>. HIDE DEF j
    <3>2. s[i] = b[j + 1]
      BY <1>2, <1>4, <3>1
    <3>3. t[i] = b[j + 1]
      BY <1>5, <3>1
    <3>. QED
      BY <3>2, <3>3
  <2>. QED
    BY <1>1, <1>2, <2>1, <2>2, <2>3
<1>7. Len(s) = n + m /\ Len(t) = n + m
  BY <1>1, <1>2, <1>4, <1>5
<1>8. s = t
  BY <1>4, <1>5, <1>6, <1>7, SameWords
<1>. QED
  BY <1>8 DEF s, t, c, e

-----------------------------------------------------------------------------
(* Words that rise between two bounds.                                     *)

Rising(s, low, high) ==
  /\ \A i \in 1..Len(s) : low < s[i] /\ s[i] < high
  /\ \A i, j \in 1..Len(s) : i < j => s[i] < s[j]

LEMMA NoneRises == \A low, high : Rising(<<>>, low, high)
  BY DEF Rising

LEMMA RisingAppended ==
  ASSUME NEW s \in Words, NEW low \in Nat, NEW x \in Nat, NEW high \in Nat,
         Rising(s, low, x), low < x, x < high
  PROVE  Rising(Append(s, x), low, high)
<1>. DEFINE t == Append(s, x)
            n == Len(s)
<1>1. /\ n \in Nat /\ t \in Words /\ Len(t) = n + 1 /\ t[n + 1] = x
      /\ \A i \in 1..n : t[i] = s[i] /\ s[i] \in Nat
  BY Appended DEF Words
<1>. HIDE DEF t
<1>2. \A i \in 1..n : low < t[i] /\ t[i] < x /\ t[i] \in Nat
  BY <1>1 DEF Rising
<1>3. \A i, j \in 1..n : i < j => t[i] < t[j]
  BY <1>1 DEF Rising
<1>. HIDE DEF n
<1>4. \A i \in 1..(n + 1) : i \in 1..n \/ i = n + 1
  BY <1>1
<1>5. Rising(t, low, high)
  <2>1. ASSUME NEW i \in 1..(n + 1) PROVE low < t[i] /\ t[i] < high
    BY <1>1, <1>2, <1>4
  <2>2. ASSUME NEW i \in 1..(n + 1), NEW j \in 1..(n + 1), i < j PROVE t[i] < t[j]
    <3>1. i \in 1..n
      BY <1>1, <2>2
    <3>. QED
      BY <1>1, <1>2, <1>3, <1>4, <2>2, <3>1
  <2>. QED
    BY <1>1, <2>1, <2>2 DEF Rising
<1>. QED
  BY <1>5 DEF t

LEMMA RisingTail ==
  ASSUME NEW s \in Words, NEW low \in Nat, NEW high \in Nat, Rising(s, low, high), s # <<>>
  PROVE  /\ low < Head(s) /\ Head(s) < high
         /\ Rising(Tail(s), Head(s), high) /\ Rising(Tail(s), low, high)
<1>. DEFINE t == Tail(s)
            n == Len(s)
<1>1. /\ n \in Nat /\ n >= 1 /\ t \in Words /\ Len(t) = n - 1 /\ Head(s) = s[1]
      /\ \A i \in 1..(n - 1) : t[i] = s[i + 1]
  BY Tails DEF Words
<1>. HIDE DEF t
<1>2. \A i \in 1..n : low < s[i] /\ s[i] < high /\ s[i] \in Nat
  BY DEF Rising, Words
<1>3. \A i, j \in 1..n : i < j => s[i] < s[j]
  BY DEF Rising
<1>. HIDE DEF n
<1>4. 1 \in 1..n /\ \A i \in 1..(n - 1) : i + 1 \in 1..n /\ 1 < i + 1
  BY <1>1
<1>5. ASSUME NEW i \in 1..(n - 1)
      PROVE  low < t[i] /\ t[i] < high /\ s[1] < t[i]
  BY <1>1, <1>2, <1>3, <1>4
<1>6. ASSUME NEW i \in 1..(n - 1), NEW j \in 1..(n - 1), i < j PROVE t[i] < t[j]
  BY <1>1, <1>3, <1>4, <1>6
<1>7. low < s[1] /\ s[1] < high
  BY <1>2, <1>4
<1>. QED
  BY <1>1, <1>5, <1>6, <1>7 DEF Rising, t

LEMMA RisingParts ==
  ASSUME NEW a \in Words, NEW b \in Words, NEW low \in Nat, NEW high \in Nat,
         Rising(a \o b, low, high)
  PROVE  Rising(a, low, high) /\ Rising(b, low, high)
<1>. DEFINE s == a \o b
            n == Len(a)
            m == Len(b)
<1>1. /\ n \in Nat /\ m \in Nat /\ Len(s) = n + m
      /\ \A i \in 1..n : s[i] = a[i]
      /\ \A i \in 1..m : s[n + i] = b[i]
  BY Concatenated DEF Words
<1>2. /\ \A i \in 1..(n + m) : low < s[i] /\ s[i] < high
      /\ \A i, j \in 1..(n + m) : i < j => s[i] < s[j]
  BY <1>1 DEF Rising
<1>. HIDE DEF s, n, m
<1>3. /\ \A i \in 1..n : i \in 1..(n + m)
      /\ \A i \in 1..m : n + i \in 1..(n + m)
      /\ \A i, j \in 1..m : i < j => n + i < n + j
  BY <1>1
<1>4. /\ \A i \in 1..n : low < a[i] /\ a[i] < high
      /\ \A i, j \in 1..n : i < j => a[i] < a[j]
  BY <1>1, <1>2, <1>3
<1>5. /\ \A i \in 1..m : low < b[i] /\ b[i] < high
      /\ \A i, j \in 1..m : i < j => b[i] < b[j]
  BY <1>1, <1>2, <1>3
<1>. QED
  BY <1>4, <1>5 DEF Rising, n, m

\* The first word of the second part is lost.
LEMMA RisingWithout ==
  ASSUME NEW a \in Words, NEW b \in Words, b # <<>>, NEW low \in Nat, NEW high \in Nat,
         Rising(a \o b, low, high)
  PROVE  Rising(a \o Tail(b), low, high)
<1>. DEFINE s == a \o b
            c == Tail(b)
            t == a \o c
            n == Len(a)
            m == Len(b)
<1>1. /\ n \in Nat /\ m \in Nat /\ Len(s) = n + m
      /\ \A i \in 1..n : s[i] = a[i]
      /\ \A i \in 1..m : s[n + i] = b[i]
  BY Concatenated DEF Words
<1>2. /\ \A i \in 1..(n + m) : low < s[i] /\ s[i] < high
      /\ \A i, j \in 1..(n + m) : i < j => s[i] < s[j]
  BY <1>1 DEF Rising
<1>3. /\ c \in Words /\ m >= 1 /\ Len(c) = m - 1
      /\ \A i \in 1..(m - 1) : c[i] = b[i + 1]
  BY Tails
<1>. HIDE DEF s, c
<1>4. /\ Len(t) = n + (m - 1)
      /\ \A i \in 1..n : t[i] = a[i]
      /\ \A i \in 1..(m - 1) : t[n + i] = c[i]
  <2>1. /\ Len(t) = n + Len(c)
        /\ \A i \in 1..n : t[i] = a[i]
        /\ \A i \in 1..Len(c) : t[n + i] = c[i]
    BY <1>3, Concatenated
  <2>. HIDE DEF t, n, m
  <2>. QED
    BY <1>3, <2>1
<1>. HIDE DEF t, n, m
<1>. DEFINE at(i) == IF i <= n THEN i ELSE i + 1
<1>5. ASSUME NEW i \in 1..(n + (m - 1))
      PROVE  at(i) \in 1..(n + m) /\ t[i] = s[at(i)]
  <2>1. CASE i \in 1..n
    BY <1>1, <1>3, <1>4, <2>1
  <2>2. CASE i \in (n + 1)..(n + (m - 1))
    <3>. DEFINE j == i - n
    <3>1. /\ j \in 1..(m - 1) /\ j + 1 \in 1..m /\ n + j = i /\ n + (j + 1) = at(i)
          /\ at(i) \in 1..(n + m)
      BY <1>1, <1>3, <2>2
    <3>. HIDE DEF j, at
    <3>. QED
      BY <1>1, <1>3, <1>4, <3>1
  <2>. QED
    BY <1>1, <1>3, <2>1, <2>2
<1>6. \A i, j \in 1..(n + (m - 1)) : i < j => at(i) < at(j)
  BY <1>1, <1>3
<1>. HIDE DEF at
<1>7. /\ \A i \in 1..(n + (m - 1)) : low < t[i] /\ t[i] < high
      /\ \A i, j \in 1..(n + (m - 1)) : i < j => t[i] < t[j]
  BY <1>2, <1>5, <1>6
<1>. QED
  BY <1>4, <1>7 DEF Rising, t, c

LEMMA RisingHigher ==
  ASSUME NEW s \in Words, NEW low \in Nat, NEW x \in Nat, NEW high \in Nat,
         Rising(s, low, x), x <= high
  PROVE  Rising(s, low, high)
<1>1. \A i \in 1..Len(s) : s[i] \in Nat
  BY DEF Words
<1>. QED
  BY <1>1 DEF Rising


-----------------------------------------------------------------------------
(* The queues of received words, when the handler has moved what fits.     *)

LEMMA AllAreWords ==
  ASSUME NEW q, Queue(q)
  PROVE  All(q) \in Words /\ Len(All(q)) = q.count
  BY Positions, ItemsAreWords DEF Queue, All, Words

LEMMA MovingKeeps ==
  ASSUME NEW p, Queue(p.new), Queue(p.inc), p.new.count > 0, p.inc.count < Size,
         NEW r, r = Moving(p)
  PROVE  /\ Queue(r.new) /\ Queue(r.inc)
         /\ r.new.count = p.new.count - 1 /\ r.inc.count = p.inc.count + 1
         /\ All(r.inc) \o All(r.new) = All(p.inc) \o All(p.new)
<1>1. r.new = pop(p.new) /\ r.inc = push(p.inc, Popped(p.new))
  BY DEF Moving
<1>2. /\ Queue(r.new) /\ r.new.count = p.new.count - 1 /\ Popped(p.new) \in Nat
      /\ Popped(p.new) = Head(All(p.new)) /\ All(p.new) # <<>>
      /\ All(r.new) = Tail(All(p.new))
  BY <1>1, PoppedQueue
<1>3. /\ Queue(r.inc) /\ r.inc.count = p.inc.count + 1
      /\ All(r.inc) = Append(All(p.inc), Popped(p.new))
  BY <1>1, <1>2, PushedQueue
<1>4. All(p.inc) \in Words /\ All(p.new) \in Words
  BY AllAreWords
<1>5. Append(All(p.inc), Head(All(p.new))) \o Tail(All(p.new)) = All(p.inc) \o All(p.new)
  BY <1>2, <1>4, HeadMoves
<1>. QED
  BY <1>2, <1>3, <1>5

LEMMA MovedQueues ==
  ASSUME NEW new, Queue(new), NEW inc, Queue(inc), NEW r, r = Moved(new, inc)
  PROVE  /\ Queue(r.new) /\ Queue(r.inc)
         /\ All(r.inc) \o All(r.new) = All(inc) \o All(new)
<1>. DEFINE n == Fitting(new, inc)
            all == All(inc) \o All(new)
            Kept(p, k) == /\ Queue(p.new) /\ Queue(p.inc)
                          /\ p.new.count = new.count - k /\ p.inc.count = inc.count + k
                          /\ All(p.inc) \o All(p.new) = all
<1>1. /\ n \in Nat /\ n <= new.count /\ n <= Size - inc.count
      /\ new.count \in Nat /\ inc.count \in Nat
  BY Positions, SizeIsPositive DEF Queue, Fitting
<1>2. PICK f : Steps(f, new, inc, n) /\ r = f[n]
  BY <1>1, MovedInSteps
<1>3. f[0] = Pair(new, inc) /\ \A i \in 1..n : f[i] = Moving(f[i - 1])
  BY <1>1, <1>2, StepsAre
<1>. DEFINE S == {k \in Nat : k <= n => Kept(f[k], k)}
<1>4. 0 \in S
  <2>1. Kept(f[0], 0)
    BY <1>1, <1>3 DEF Pair
  <2>. QED
    BY <2>1
<1>5. ASSUME NEW k \in Nat, k \in S PROVE k + 1 \in S
  <2>. SUFFICES ASSUME k + 1 <= n PROVE Kept(f[k + 1], k + 1)
    OBVIOUS
  <2>1. k <= n /\ k + 1 \in 1..n /\ (k + 1) - 1 = k
    BY <1>1
  <2>2. Kept(f[k], k) /\ f[k + 1] = Moving(f[k])
    BY <1>3, <1>5, <2>1
  <2>. HIDE DEF n, S, all
  <2>3. f[k].new.count > 0 /\ f[k].inc.count < Size
    BY <1>1, <2>2, SizeIsPositive
  <2>. DEFINE p == f[k]
              q == f[k + 1]
  <2>4. /\ Queue(p.new) /\ Queue(p.inc) /\ q = Moving(p) /\ p.new.count > 0 /\ p.inc.count < Size
    BY <2>2, <2>3
  <2>. HIDE DEF p, q
  <2>5. /\ Queue(q.new) /\ Queue(q.inc)
        /\ q.new.count = p.new.count - 1 /\ q.inc.count = p.inc.count + 1
        /\ All(q.inc) \o All(q.new) = All(p.inc) \o All(p.new)
    BY <2>4, MovingKeeps
  <2>6. p.new.count = new.count - k /\ p.inc.count = inc.count + k
        /\ All(p.inc) \o All(p.new) = all
    BY <2>2 DEF p
  <2>7. q.new.count = new.count - (k + 1) /\ q.inc.count = inc.count + (k + 1)
    <3>1. (new.count - k) - 1 = new.count - (k + 1) /\ (inc.count + k) + 1 = inc.count + (k + 1)
      BY <1>1
    <3>. QED
      BY <2>5, <2>6, <3>1, Zenon
  <2>. QED
    BY <2>5, <2>6, <2>7 DEF q
<1>. HIDE DEF S
<1>6. Nat \subseteq S
  BY <1>4, <1>5, NatSetInduction
<1>7. Kept(f[n], n)
  <2>1. n \in S /\ n <= n
    BY <1>1, <1>6
  <2>. HIDE DEF n, all, Kept
  <2>. QED
    BY <2>1 DEF S
<1>. QED
  BY <1>2, <1>7


-----------------------------------------------------------------------------
(* Received words.                                                         *)

\* Where the program has moved front and not yet count.
Inc == IF main = "pop count" THEN [incomingQueue EXCEPT !.count = @ - 1] ELSE incomingQueue

InTypes ==
  /\ use \in Uses
  /\ JOY_RECV \in Nat /\ wiiNext \in Nat /\ gbaGot \in Nat
  /\ isReading \in BOOLEAN /\ needsClear \in BOOLEAN

\* The handler keeps off a queue the program is at.
InInv ==
  /\ Queue(newIncomingQueue) /\ Queue(Inc)
  /\ main \in {"pop", "pop count", "popped"} => isReading
  /\ main = "pop count" => tmp = incomingQueue.count

Held == All(Inc) \o All(newIncomingQueue)

\* The word that is in JOY_RECV, or the next one, comes after those held.
Limit == IF "RECEIVE" \in JOYCNT THEN JOY_RECV ELSE wiiNext

OrderInv ==
  /\ Rising(Held, gbaGot, Limit) /\ gbaGot < Limit
  /\ "RECEIVE" \in JOYCNT => JOY_RECV < wiiNext

Received == InTypes /\ InInv /\ OrderInv

-----------------------------------------------------------------------------
(* Sent words, in a use that is a pipe.                                    *)

Out == IF main = "push drop" THEN [outgoingQueue EXCEPT !.count = @ - 1] ELSE outgoingQueue

OutTypes ==
  /\ gbaNext \in Nat /\ JOY_TRANS \in Nat
  /\ JOYCNT \in {{}, {"RECEIVE"}, {"SEND"}}

\* There are no resets, so nothing is cleared.
NothingCleared ==
  /\ resets = 0 /\ ~needsClear /\ ~queueNeedsClear
  /\ main \notin {"clear count", "clear rear", "cleared"}

\* How far the program has come with a push.
PushInv ==
  /\ Out \in Queues
  /\ main # "push count" => WellFormed(Out)
  /\ main = "push drop" => tmp = outgoingQueue.count
  /\ main \in {"push drop", "push store"} => Out.count < Size
  /\ main = "push count" => /\ tmp = Out.count /\ Out.count < Size
                            /\ Out.rear = Slot(Out.front, Out.count)
                            /\ Out.arr[Out.rear] = gbaNext
  /\ main \in {"push", "push drop", "push store", "push count"} =>
       isWriting /\ gbaNext <= use.words
  /\ main = "pushed" => isWriting
  /\ Rising(All(Out), 0, gbaNext) /\ 0 < gbaNext

OutInv == OutTypes /\ NothingCleared /\ PushInv

CubeInv == Received /\ (Piped => OutInv)

-----------------------------------------------------------------------------
(* The steps, as far as received words go.                                 *)

LEMMA HeldAreWords ==
  ASSUME InInv
  PROVE  All(Inc) \in Words /\ All(newIncomingQueue) \in Words /\ Held \in Words
<1>1. All(Inc) \in Words /\ All(newIncomingQueue) \in Words
  BY AllAreWords DEF InInv
<1>. QED
  BY <1>1, Concatenated DEF Held

\* Nothing happens to the words.
LEMMA WordsStay ==
  ASSUME Received,
         UNCHANGED <<JOYCNT, JOY_RECV, newIncomingQueue, needsClear, gbaGot, wiiNext, use>>,
         Inc' = Inc, isReading' \in BOOLEAN,
         main' \in {"pop", "pop count", "popped"} => isReading',
         main' = "pop count" => tmp' = incomingQueue'.count
  PROVE  Received' /\ Held' = Held
<1>1. Held' = Held /\ Limit' = Limit
  BY DEF Held, Limit
<1>. QED
  BY <1>1 DEF Received, InTypes, InInv, OrderInv

LEMMA WiiWriteHolds ==
  ASSUME Received, WiiWrite
  PROVE  Received' /\ Held' = Held
<1>1. /\ newIncomingQueue' = newIncomingQueue /\ Inc' = Inc /\ Held' = Held
      /\ main' = main /\ isReading' = isReading /\ tmp' = tmp /\ incomingQueue' = incomingQueue
      /\ needsClear' = needsClear /\ gbaGot' = gbaGot /\ use' = use
      /\ JOY_RECV' = wiiNext /\ wiiNext' = wiiNext + 1 /\ "RECEIVE" \in JOYCNT'
  BY DEF WiiWrite, inbound, program, Held, Inc
<1>2. InTypes' /\ InInv'
  <2>1. InTypes'
    BY <1>1 DEF Received, InTypes
  <2>2. InInv'
    BY <1>1 DEF Received, InInv
  <2>. QED
    BY <2>1, <2>2
<1>3. Rising(Held, gbaGot, wiiNext) /\ gbaGot < wiiNext
  <2>1. CASE "RECEIVE" \in JOYCNT
    BY <2>1, HeldAreWords, RisingHigher DEF Received, InTypes, OrderInv, Limit
  <2>2. CASE "RECEIVE" \notin JOYCNT
    BY <2>2 DEF Received, OrderInv, Limit
  <2>. QED
    BY <2>1, <2>2
<1>4. OrderInv'
  BY <1>1, <1>3 DEF OrderInv, Limit, Received, InTypes
<1>. QED
  BY <1>1, <1>2, <1>4 DEF Received

LEMMA WiiPollHolds ==
  ASSUME Received, WiiRead \/ WiiReset
  PROVE  Received' /\ Held' = Held
<1>1. /\ UNCHANGED <<JOY_RECV, newIncomingQueue, needsClear, gbaGot, wiiNext, use>>
      /\ Inc' = Inc /\ isReading' = isReading /\ tmp' = tmp /\ main' = main
      /\ incomingQueue' = incomingQueue
      /\ "RECEIVE" \in JOYCNT' <=> "RECEIVE" \in JOYCNT
  BY DEF WiiRead, WiiReset, inbound, program, Inc
<1>2. Held' = Held /\ Limit' = Limit
  BY <1>1 DEF Held, Limit
<1>. QED
  BY <1>1, <1>2 DEF Received, InTypes, InInv, OrderInv

\* What copyState makes of the queues it is left.
LEMMA Copied ==
  ASSUME Received, NEW new, Queue(new), NEW clearing \in BOOLEAN, NEW inc,
         inc = incomingQueue \/ (~isReading /\ inc = clear(incomingQueue)),
         copyState(new, inc, clearing), main' = Woken, isReading' = isReading, tmp' = tmp
  PROVE  /\ InInv' /\ needsClear' \in BOOLEAN
         /\ ~clearing => ~needsClear'
         /\ Held' = All(new) \/ Held' = All(Inc) \o All(new)
         /\ ~clearing /\ inc = incomingQueue => Held' = All(Inc) \o All(new)
<1>1. /\ main' \in {"pop", "pop count", "popped"} <=> main \in {"pop", "pop count", "popped"}
      /\ main' = "pop count" <=> main = "pop count"
  BY DEF Woken
<1>2. CASE isReading
  <2>1. newIncomingQueue' = new /\ incomingQueue' = incomingQueue /\ needsClear' = clearing
    BY <1>2 DEF copyState
  <2>2. Inc' = Inc
    BY <1>1, <2>1 DEF Inc
  <2>3. Held' = All(Inc) \o All(new)
    BY <2>1, <2>2 DEF Held
  <2>4. InInv'
    BY <1>1, <1>2, <2>1, <2>2 DEF Received, InInv
  <2>. QED
    BY <2>1, <2>3, <2>4
<1>3. CASE ~isReading
  <2>. DEFINE q == IF clearing THEN clear(inc) ELSE inc
              moved == Moved(new, q)
  <2>1. main \notin {"pop", "pop count", "popped"}
    BY <1>3 DEF Received, InInv
  <2>2. Inc = incomingQueue /\ Queue(incomingQueue) /\ incomingQueue \in Queues
    BY <2>1 DEF Inc, Received, InInv, Queue
  <2>3. /\ Queue(clear(incomingQueue)) /\ clear(incomingQueue) \in Queues
        /\ All(clear(incomingQueue)) = <<>>
    BY <2>2, ClearedIsQueue DEF Queue
  <2>4. Queue(clear(clear(incomingQueue))) /\ All(clear(clear(incomingQueue))) = <<>>
    BY <2>3, ClearedIsQueue
  <2>5. Queue(q) /\ (All(q) = <<>> \/ All(q) = All(Inc))
        /\ (~clearing /\ inc = incomingQueue => All(q) = All(Inc))
    BY <2>2, <2>3, <2>4
  <2>6. newIncomingQueue' = moved.new /\ incomingQueue' = moved.inc /\ ~needsClear'
    BY <1>3 DEF copyState
  <2>7. needsClear' = FALSE
    BY <1>3 DEF copyState
  <2>. HIDE DEF q, moved
  <2>8. Queue(moved.new) /\ Queue(moved.inc) /\ All(moved.inc) \o All(moved.new) = All(q) \o All(new)
    BY <2>5, MovedQueues DEF moved
  <2>9. Inc' = moved.inc
    BY <1>1, <2>1, <2>6 DEF Inc
  <2>10. Held' = All(q) \o All(new)
    BY <2>6, <2>8, <2>9 DEF Held
  <2>11. All(new) \in Words /\ <<>> \o All(new) = All(new)
    BY AllAreWords, ConcatEmptySeq DEF Words
  <2>12. InInv'
    BY <1>1, <2>1, <2>6, <2>8, <2>9 DEF InInv
  <2>. QED
    BY <2>5, <2>6, <2>7, <2>10, <2>11, <2>12
<1>. QED
  BY <1>2, <1>3 DEF Received, InTypes

\* The types and the order, when the handler has run.
LEMMA HandledHolds ==
  ASSUME Received, InInv', needsClear' \in BOOLEAN, JOYCNT' = {}, JOY_RECV' = JOY_RECV,
         UNCHANGED <<isReading, tmp, gbaNext, gbaGot, wii>>,
         Rising(Held', gbaGot, wiiNext)
  PROVE  Received'
<1>1. InTypes' /\ gbaGot' = gbaGot /\ wiiNext' = wiiNext
  BY DEF Received, InTypes, wii
<1>2. gbaGot < wiiNext /\ Limit' = wiiNext
  BY <1>1 DEF Received, InTypes, OrderInv, Limit
<1>. QED
  BY <1>1, <1>2 DEF Received, OrderInv

LEMMA HeldBelow ==
  ASSUME Received
  PROVE  Rising(Held, gbaGot, wiiNext) /\ gbaGot \in Nat /\ wiiNext \in Nat
<1>1. CASE "RECEIVE" \in JOYCNT
  BY <1>1, HeldAreWords, RisingHigher DEF Received, InTypes, OrderInv, Limit
<1>2. CASE "RECEIVE" \notin JOYCNT
  BY <1>2 DEF Received, InTypes, OrderInv, Limit
<1>. QED
  BY <1>1, <1>2

LEMMA ResetHolds ==
  ASSUME Received, onSerial, onReset
  PROVE  Received'
<1>. DEFINE empty == clear(newIncomingQueue)
            new == [empty EXCEPT !.overflow = FALSE]
            inc == IF isReading THEN incomingQueue ELSE clear(incomingQueue)
<1>1. Queue(empty) /\ All(empty) = <<>>
  BY ClearedIsQueue DEF Received, InInv, Queue
<1>2. copyState(new, inc, isReading) /\ JOY_RECV' = JOY_RECV
  BY DEF onReset
<1>3. /\ main' = Woken /\ JOYCNT' = {} /\ isReading' = isReading /\ tmp' = tmp
      /\ UNCHANGED <<isReading, tmp, gbaNext, gbaGot, wii>>
  BY DEF onSerial
<1>. HIDE DEF empty
<1>4. Queue(new) /\ All(new) = <<>>
  BY <1>1, FlaggedIsQueue
<1>5. inc = incomingQueue \/ (~isReading /\ inc = clear(incomingQueue))
  OBVIOUS
<1>. HIDE DEF new, inc
<1>6. /\ InInv' /\ needsClear' \in BOOLEAN
      /\ Held' = All(new) \/ Held' = All(Inc) \o All(new)
  BY <1>2, <1>3, <1>4, <1>5, Copied DEF Received, InTypes
<1>7. All(Inc) \in Words /\ All(Inc) \o <<>> = All(Inc)
  BY HeldAreWords, ConcatEmptySeq DEF Words, Received
<1>8. Rising(<<>>, gbaGot, wiiNext) /\ Rising(All(Inc), gbaGot, wiiNext)
  BY NoneRises, HeldBelow, HeldAreWords, RisingParts DEF Held, Received
<1>9. Rising(Held', gbaGot, wiiNext)
  BY <1>4, <1>6, <1>7, <1>8
<1>. QED
  BY <1>2, <1>3, <1>6, <1>9, HandledHolds

LEMMA ReceiveHolds ==
  ASSUME Received, onSerial, onReceive
  PROVE  /\ Received'
         /\ ~needsClear => \/ Held' = Append(Held, JOY_RECV)
                           \/ /\ All(newIncomingQueue) # <<>>
                              /\ newIncomingQueue.count = Size
                              /\ Held' = Append(All(Inc) \o Tail(All(newIncomingQueue)), JOY_RECV)
<1>. DEFINE b == All(newIncomingQueue)
            new == push(newIncomingQueue, JOY_RECV)
            rest == IF newIncomingQueue.count < Size THEN b ELSE Tail(b)
<1>1. /\ copyState(new, incomingQueue, needsClear) /\ "RECEIVE" \in JOYCNT
      /\ JOY_RECV' = JOY_RECV /\ JOY_RECV \in Nat /\ needsClear \in BOOLEAN
  BY DEF onReceive, Received, InTypes
<1>2. /\ main' = Woken /\ JOYCNT' = {} /\ isReading' = isReading /\ tmp' = tmp
      /\ UNCHANGED <<isReading, tmp, gbaNext, gbaGot, wii>>
  BY DEF onSerial
<1>3. All(Inc) \in Words /\ b \in Words
  BY HeldAreWords DEF Received
<1>4. /\ Queue(new) /\ All(new) = Append(rest, JOY_RECV)
      /\ newIncomingQueue.count < Size \/ (b # <<>> /\ newIncomingQueue.count = Size)
  <2>1. Queue(newIncomingQueue)
    BY DEF Received, InInv
  <2>2. newIncomingQueue.count \in Nat /\ newIncomingQueue.count <= Size
    BY <2>1, Positions DEF Queue
  <2>3. CASE newIncomingQueue.count < Size
    BY <1>1, <2>1, <2>3, PushedQueue
  <2>4. CASE newIncomingQueue.count = Size
    <3>1. Queue(new) /\ b # <<>> /\ All(new) = Append(Tail(b), JOY_RECV)
      BY <1>1, <2>1, <2>4, PushedFull
    <3>2. rest = Tail(b)
      BY <2>4, SizeIsPositive
    <3>. QED
      BY <2>4, <3>1, <3>2
  <2>. QED
    BY <2>2, <2>3, <2>4, SizeIsPositive
<1>. HIDE DEF new, b
<1>5. rest \in Words
  BY <1>3, <1>4, Tails
<1>6. Rising(All(Inc) \o rest, gbaGot, JOY_RECV)
  <2>1. Rising(All(Inc) \o b, gbaGot, JOY_RECV) /\ gbaGot \in Nat
    BY <1>1 DEF Received, InTypes, OrderInv, Limit, Held, b
  <2>2. CASE newIncomingQueue.count < Size
    BY <2>1, <2>2
  <2>3. CASE ~(newIncomingQueue.count < Size)
    <3>1. b # <<>> /\ rest = Tail(b)
      BY <1>4, <2>3
    <3>2. Rising(All(Inc) \o Tail(b), gbaGot, JOY_RECV)
      BY <1>1, <1>3, <2>1, <3>1, RisingWithout
    <3>. QED
      BY <3>1, <3>2
  <2>. QED
    BY <2>2, <2>3
<1>7. gbaGot < JOY_RECV /\ JOY_RECV < wiiNext /\ gbaGot \in Nat /\ wiiNext \in Nat
  BY <1>1 DEF Received, InTypes, OrderInv, Limit
<1>8. All(Inc) \o All(new) = Append(All(Inc) \o rest, JOY_RECV)
  BY <1>1, <1>3, <1>4, <1>5, AppendBehind
<1>9. All(Inc) \o rest \in Words
  BY <1>3, <1>5, Concatenated
<1>. HIDE DEF rest
<1>10. Rising(All(Inc) \o All(new), gbaGot, wiiNext)
  BY <1>1, <1>6, <1>7, <1>8, <1>9, RisingAppended
<1>11. All(new) \in Words
  BY <1>4, AllAreWords
<1>12. Rising(All(new), gbaGot, wiiNext)
  BY <1>3, <1>7, <1>10, <1>11, RisingParts
<1>13. /\ InInv' /\ needsClear' \in BOOLEAN
       /\ Held' = All(new) \/ Held' = All(Inc) \o All(new)
       /\ ~needsClear => Held' = All(Inc) \o All(new)
  BY <1>1, <1>2, <1>4, Copied
<1>14. Rising(Held', gbaGot, wiiNext)
  BY <1>10, <1>12, <1>13
<1>15. Received'
  BY <1>1, <1>2, <1>13, <1>14, HandledHolds
<1>. QED
  BY <1>4, <1>8, <1>13, <1>15 DEF rest, b, Held

LEMMA SendHolds ==
  ASSUME Received, onSerial, onSend
  PROVE  Received' /\ (~needsClear => Held' = Held)
<1>1. /\ copyState(newIncomingQueue, incomingQueue, needsClear) /\ JOY_RECV' = JOY_RECV
      /\ needsClear \in BOOLEAN /\ Queue(newIncomingQueue)
  BY DEF onSend, Received, InTypes, InInv
<1>2. /\ main' = Woken /\ JOYCNT' = {} /\ isReading' = isReading /\ tmp' = tmp
      /\ UNCHANGED <<isReading, tmp, gbaNext, gbaGot, wii>>
  BY DEF onSerial
<1>3. /\ InInv' /\ needsClear' \in BOOLEAN
      /\ Held' = All(newIncomingQueue) \/ Held' = Held
      /\ ~needsClear => Held' = Held
  BY <1>1, <1>2, Copied DEF Held
<1>4. Rising(All(newIncomingQueue), gbaGot, wiiNext) /\ Rising(Held, gbaGot, wiiNext)
  BY HeldBelow, HeldAreWords, RisingParts DEF Held, Received
<1>5. Rising(Held', gbaGot, wiiNext)
  BY <1>3, <1>4
<1>. QED
  BY <1>1, <1>2, <1>3, <1>5, HandledHolds

LEMMA PopHolds ==
  ASSUME Received, Pop
  PROVE  /\ Received' /\ Held # <<>> /\ Held' = Tail(Held) /\ gbaGot' = Head(Held)
         /\ gbaGot < gbaGot'
<1>. DEFINE q == incomingQueue
            r == pop(q)
            rest == All(newIncomingQueue)
<1>1. /\ main = "pop" /\ main' = "pop count" /\ ~isEmpty(q) /\ gbaGot' = Popped(q)
      /\ q' = [q EXCEPT !.front = (@ + 1) % Size] /\ tmp' = q.count
      /\ isReading' = isReading
      /\ UNCHANGED <<JOYCNT, JOY_RECV, newIncomingQueue, needsClear, wiiNext, use>>
  BY DEF Pop, At, OnlyProgram, registers, wii
<1>2. Inc = q /\ Queue(q) /\ isReading /\ Queue(newIncomingQueue)
  BY <1>1 DEF Inc, Received, InInv
<1>3. q.count > 0 /\ q.count \in Nat /\ DOMAIN q = {"arr", "front", "rear", "count", "overflow"}
  <2>1. q \in Queues
    BY <1>2 DEF Queue
  <2>2. DOMAIN q = {"arr", "front", "rear", "count", "overflow"}
    BY <2>1 DEF Queues
  <2>3. q.count \in Nat
    BY <2>1, Positions
  <2>4. q.count # 0
    BY <1>1, Zenon DEF isEmpty
  <2>5. q.count > 0
    BY <2>3, <2>4
  <2>. QED
    BY <2>2, <2>3, <2>5, Zenon
<1>4. /\ Queue(r) /\ Popped(q) = Head(All(q)) /\ All(q) # <<>> /\ All(r) = Tail(All(q))
      /\ Popped(q) \in Nat
  BY <1>2, <1>3, PoppedQueue
<1>5. Inc' = r /\ q'.count = q.count
  BY <1>1, <1>3 DEF Inc, pop, isEmpty
<1>. HIDE DEF r
<1>6. All(q) \in Words /\ rest \in Words /\ Held = All(q) \o rest /\ Held \in Words
  BY <1>2, HeldAreWords DEF Received, Held
<1>7. Held # <<>> /\ Head(Held) = Head(All(q)) /\ Tail(Held) = Tail(All(q)) \o rest
  BY <1>4, <1>6, TailOfBoth
<1>8. Held' = Tail(Held)
  BY <1>1, <1>4, <1>5, <1>7 DEF Held
<1>9. InTypes' /\ InInv'
  BY <1>1, <1>2, <1>4, <1>5 DEF Received, InTypes, InInv
<1>10. Limit' = Limit /\ Limit \in Nat /\ gbaGot \in Nat
  BY <1>1 DEF Limit, Received, InTypes
<1>11. /\ gbaGot < Head(Held) /\ Head(Held) < Limit /\ Rising(Tail(Held), Head(Held), Limit)
  BY <1>6, <1>7, <1>10, RisingTail DEF Received, OrderInv
<1>12. OrderInv'
  BY <1>1, <1>4, <1>7, <1>8, <1>10, <1>11 DEF OrderInv, Received
<1>. QED
  BY <1>1, <1>4, <1>7, <1>8, <1>9, <1>11, <1>12 DEF Received

LEMMA ProgramHolds ==
  ASSUME Received, Program, ~Pop
  PROVE  Received' /\ Held' = Held
<1>. USE DEF At, OnlyProgram, registers, wii, outbound
<1>1. CASE PopCount
  <2>1. /\ main = "pop count" /\ main' = "popped" /\ isReading' = isReading
        /\ incomingQueue' = [incomingQueue EXCEPT !.count = tmp - 1]
        /\ UNCHANGED <<JOYCNT, JOY_RECV, newIncomingQueue, needsClear, gbaGot, wiiNext, use>>
    BY <1>1 DEF PopCount
  <2>2. tmp = incomingQueue.count /\ isReading /\ isReading \in BOOLEAN
    BY <2>1 DEF Received, InInv, InTypes
  <2>3. Inc' = Inc
    BY <2>1, <2>2 DEF Inc
  <2>. QED
    BY <2>1, <2>2, <2>3, WordsStay
<1>2. CASE ClearFlag
  <2>1. /\ UNCHANGED <<JOYCNT, JOY_RECV, incomingQueue, needsClear, gbaGot, wiiNext, use>>
        /\ isReading' = isReading /\ main # "pop count" /\ main' = "idle"
        /\ \/ newIncomingQueue' = newIncomingQueue
           \/ newIncomingQueue' = [newIncomingQueue EXCEPT !.overflow = FALSE]
    BY <1>2 DEF ClearFlag
  <2>2. Queue(newIncomingQueue') /\ All(newIncomingQueue') = All(newIncomingQueue)
    BY <2>1, FlaggedIsQueue DEF Received, InInv
  <2>3. Inc' = Inc
    BY <2>1 DEF Inc
  <2>4. Held' = Held /\ Limit' = Limit
    BY <2>1, <2>2, <2>3 DEF Held, Limit
  <2>. QED
    BY <2>1, <2>2, <2>3, <2>4 DEF Received, InTypes, InInv, OrderInv
<1>3. CASE Send \/ Sending \/ Read \/ StartRead \/ PopEmpty \/ FinishRead \/ Wait \/ WaitTest
           \/ LoadFlag
  <2>1. /\ UNCHANGED <<JOYCNT, JOY_RECV, newIncomingQueue, incomingQueue, needsClear, gbaGot,
                       wiiNext, use>>
        /\ main # "pop count" /\ main' # "pop count"
    BY <1>3 DEF Send, Sending, Read, StartRead, PopEmpty, FinishRead, Wait, WaitTest, LoadFlag,
                PushDrop, PushDropped, PushStore, PushCount, Pushed, DeferredClear, Sent, Clear
  <2>2. isReading' \in BOOLEAN /\ (main' \in {"pop", "popped"} => isReading')
    BY <1>3 DEF Received, InTypes, InInv,
                Send, Sending, Read, StartRead, PopEmpty, FinishRead, Wait, WaitTest, LoadFlag,
                PushDrop, PushDropped, PushStore, PushCount, Pushed, DeferredClear, Sent, Clear
  <2>3. Inc' = Inc
    BY <2>1 DEF Inc
  <2>. QED
    BY <2>1, <2>2, <2>3, WordsStay
<1>. QED
  BY <1>1, <1>2, <1>3 DEF Program, Reading

LEMMA InitHolds ==
  ASSUME Init
  PROVE  Received /\ Held = <<>>
<1>1. Queue(EmptyQueue) /\ All(EmptyQueue) = <<>>
  BY EmptyIsQueue
<1>2. newIncomingQueue = EmptyQueue /\ Inc = EmptyQueue /\ main = "idle"
  BY DEF Init, Inc
<1>3. Held = <<>>
  BY <1>1, <1>2, ConcatEmptySeq DEF Held
<1>4. InTypes /\ InInv
  BY <1>1, <1>2 DEF Init, InTypes, InInv
<1>5. OrderInv
  BY <1>3, NoneRises DEF Init, OrderInv, Limit
<1>. QED
  BY <1>3, <1>4, <1>5 DEF Received

LEMMA StepHolds ==
  ASSUME Received, [Next]_vars
  PROVE  Received' /\ (main = "pop" /\ main' = "pop count" => gbaGot < gbaGot')
<1>1. CASE WiiWrite
  BY <1>1, WiiWriteHolds DEF WiiWrite, program
<1>2. CASE WiiRead \/ WiiReset
  BY <1>2, WiiPollHolds DEF WiiRead, WiiReset, program
<1>3. CASE onSerial
  BY <1>3, ResetHolds, ReceiveHolds, SendHolds DEF onSerial, Woken
<1>4. CASE Pop
  BY <1>4, PopHolds
<1>5. CASE Program /\ ~Pop
  <2>1. Received'
    BY <1>5, ProgramHolds
  <2>2. main' # "pop count"
    BY <1>5 DEF Program, Reading, Send, Sending, Read, StartRead, PopEmpty, PopCount, FinishRead,
                Wait, WaitTest, LoadFlag, ClearFlag, PushDrop, PushDropped, PushStore, PushCount,
                Pushed, DeferredClear, Sent, Clear, At
  <2>. QED
    BY <2>1, <2>2
<1>6. CASE UNCHANGED vars
  <2>1. /\ UNCHANGED <<JOYCNT, JOY_RECV, newIncomingQueue, needsClear, gbaGot, wiiNext, use>>
        /\ Inc' = Inc /\ isReading' = isReading /\ main' = main /\ tmp' = tmp
        /\ incomingQueue' = incomingQueue
    BY <1>6 DEF vars, registers, inbound, outbound, program, wii, Inc
  <2>. QED
    BY <2>1, WordsStay DEF Received, InTypes, InInv
<1>. QED
  BY <1>1, <1>2, <1>3, <1>4, <1>5, <1>6 DEF Next

(* front, rear and count of the queues of received words agree, however    *)
(* commands of the Wii, resets, queue overflows and reads come together.   *)
THEOREM QueuesStayConsistent == Spec => []IncomingConsistent
<1>1. Init => Received
  BY InitHolds
<1>2. Received /\ [Next]_vars => Received'
  BY StepHolds
<1>3. Received => IncomingConsistent
  BY DEF Received, InInv, IncomingConsistent, Queue, Inc
<1>. QED
  BY <1>1, <1>2, <1>3, PTL DEF Spec

(* Each word the program pops is later than the one it popped before: it   *)
(* never reads a word twice, not even at once, or an older word after a    *)
(* later one, also when words are lost and queues cleared.                 *)
THEOREM WordsAreReadInOrder == Spec => ReadInOrder
<1>1. Init => Received
  BY InitHolds
<1>2. Received /\ [Next]_vars => Received'
  BY StepHolds
<1>3. Received /\ [Next]_vars
        => [main = "pop" /\ main' = "pop count" => gbaGot' > gbaGot]_vars
  BY StepHolds DEF Received, InTypes
<1>. QED
  BY <1>1, <1>2, <1>3, PTL DEF Spec, ReadInOrder

-----------------------------------------------------------------------------
(* Words under way.                                                        *)

Receiving == IF "RECEIVE" \in JOYCNT THEN <<JOY_RECV>> ELSE <<>>
Sendable == IF "SEND" \in JOYCNT \/ JOY_TRANS = 0 THEN <<>> ELSE <<JOY_TRANS>>

Coming == Held \o Receiving
Leaving == Sendable \o All(Out)

LEMMA CountAhead ==
  ASSUME NEW q, [q EXCEPT !.count = @ - 1] \in Queues, NEW r, r = [q EXCEPT !.count = @ - 1]
  PROVE  /\ r.count = q.count - 1 /\ r.arr = q.arr /\ r.front = q.front
         /\ All(r) = Items(q, q.count - 1)
<1>1. DOMAIN q = {"arr", "front", "rear", "count", "overflow"}
  BY DEF Queues
<1>2. r.count = q.count - 1 /\ r.arr = q.arr /\ r.front = q.front
  BY <1>1
<1>. QED
  BY <1>2 DEF All, Items

Followed == (Received => ToGba = Coming) /\ (OutInv => ToWii = Leaving)

LEMMA UnderWay == Followed
<1>1. ASSUME Received PROVE ToGba = Coming
  <2>1. Inc \in Queues
    BY <1>1 DEF Received, InInv, Queue
  <2>2. All(Inc) = Items(incomingQueue, IF main = "pop count" THEN incomingQueue.count - 1
                                                              ELSE incomingQueue.count)
    <3>1. CASE main = "pop count"
      BY <2>1, <3>1, CountAhead DEF Inc
    <3>2. CASE main # "pop count"
      BY <3>2 DEF Inc, All
    <3>. QED
      BY <3>1, <3>2
  <2>. QED
    BY <2>2 DEF ToGba, Coming, Held, Receiving, All
<1>2. ASSUME OutInv PROVE ToWii = Leaving
  <2>1. Out \in Queues
    BY <1>2 DEF OutInv, PushInv
  <2>2. All(Out) = Items(outgoingQueue, IF main = "push drop" THEN outgoingQueue.count - 1
                                                              ELSE outgoingQueue.count)
    <3>1. CASE main = "push drop"
      BY <2>1, <3>1, CountAhead DEF Out
    <3>2. CASE main # "push drop"
      BY <3>2 DEF Out, All
    <3>. QED
      BY <3>1, <3>2
  <2>. QED
    BY <2>2 DEF ToWii, Leaving, Sendable
<1>. QED
  BY <1>1, <1>2 DEF Followed

\* Words is all the words there are on each side.
LEMMA WaysAreWords ==
  ASSUME Received, OutInv
  PROVE  /\ Receiving \in Words /\ Sendable \in Words /\ All(Out) \in Words
         /\ Len(All(Out)) = Out.count /\ Out.count \in Nat /\ Out.count <= Size
<1>1. \A x \in Nat : <<x>> \in Words /\ <<>> \in Words
  BY DEF Words
<1>2. Out \in Queues
  BY DEF OutInv, PushInv
<1>3. Out.count \in Nat /\ Out.count <= Size
  BY <1>2, Positions
<1>. QED
  BY <1>1, <1>2, <1>3, ItemsAreWords DEF Received, InTypes, OutInv, OutTypes, Receiving, Sendable, All, Words

\* Removing the word behind the words of a.
LEMMA Removed ==
  ASSUME NEW a \in Words, NEW b \in Words, b # <<>>
  PROVE  /\ Len(a) + 1 \in 1..Len(a \o b) /\ Len(a \o b) = Len(a) + Len(b)
         /\ Pipe!RemoveAt(a \o b, Len(a) + 1) = a \o Tail(b)
<1>. DEFINE s == a \o b
            c == Tail(b)
            n == Len(a)
            m == Len(b)
            s1 == SubSeq(s, 1, n)
            s2 == SubSeq(s, n + 2, n + m)
<1>1. /\ s \in Words /\ Len(s) = n + m /\ n \in Nat /\ m \in Nat /\ m >= 1
      /\ \A i \in 1..n : s[i] = a[i]
      /\ \A i \in 1..m : s[n + i] = b[i]
      /\ c \in Words /\ Len(c) = m - 1 /\ \A i \in 1..(m - 1) : c[i] = b[i + 1]
  BY Concatenated, Tails DEF Words
<1>. HIDE DEF s, c, n, m
<1>2. s1 \in Words /\ Len(s1) = n /\ \A i \in 1..n : s1[i] = s[i]
  BY <1>1 DEF Words
<1>3. s2 \in Words /\ Len(s2) = m - 1 /\ \A i \in 1..(m - 1) : s2[i] = s[n + 1 + i]
  <2>. DEFINE from == n + 2
              to == n + m
  <2>1. from \in Int /\ to \in Int /\ \A i \in from..to : s[i] \in Nat
    <3>1. \A i \in from..to : i \in 1..(n + m)
      BY <1>1
    <3>2. s \in Seq(Nat) /\ Len(s) = n + m
      BY <1>1 DEF Words
    <3>3. \A i \in 1..Len(s) : s[i] \in Nat
      BY <3>2
    <3>4. \A i \in 1..(n + m) : s[i] \in Nat
      BY <3>2, <3>3, Zenon
    <3>. QED
      BY <1>1, <3>1, <3>4
  <2>2. /\ (IF from <= to THEN to - from + 1 ELSE 0) = m - 1 /\ to - from + 1 = m - 1
        /\ \A i \in 1..(m - 1) : from + i - 1 = n + 1 + i
    BY <1>1
  <2>. HIDE DEF from, to
  <2>3. /\ SubSeq(s, from, to) \in Seq(Nat)
        /\ Len(SubSeq(s, from, to)) = IF from <= to THEN to - from + 1 ELSE 0
        /\ \A i \in 1..(to - from + 1) : SubSeq(s, from, to)[i] = s[from + i - 1]
    BY <2>1, SubSeqProperties
  <2>. QED
    BY <2>2, <2>3 DEF Words, from, to
<1>. HIDE DEF s1, s2
<1>4. s1 = a
  BY <1>1, <1>2, SameWords DEF n
<1>5. s2 = c
  <2>1. ASSUME NEW i \in 1..(m - 1) PROVE s2[i] = c[i]
    <3>1. i + 1 \in 1..m /\ n + 1 + i = n + (i + 1)
      BY <1>1
    <3>2. s2[i] = s[n + (i + 1)] /\ s[n + (i + 1)] = b[i + 1] /\ c[i] = b[i + 1]
      BY <1>1, <1>3, <3>1
    <3>. QED
      BY <3>2
  <2>. QED
    BY <1>1, <1>3, <2>1, SameWords
<1>6. Pipe!RemoveAt(s, n + 1) = s1 \o s2
  <2>1. Pipe!RemoveAt(s, n + 1) = SubSeq(s, 1, (n + 1) - 1) \o SubSeq(s, (n + 1) + 1, Len(s))
    BY DEF Pipe!RemoveAt
  <2>2. (n + 1) - 1 = n /\ (n + 1) + 1 = n + 2 /\ Len(s) = n + m
    BY <1>1
  <2>. QED
    BY <2>1, <2>2 DEF s1, s2
<1>7. n + 1 \in 1..Len(s) /\ Len(s) = n + m
  BY <1>1
<1>. QED
  BY <1>4, <1>5, <1>6, <1>7 DEF s, c, n, m

HeldThenReceived ==
  Coming = IF "RECEIVE" \in JOYCNT THEN Append(Held, JOY_RECV) ELSE Held

LEMMA ComingIs == Received => HeldThenReceived
<1>. SUFFICES ASSUME Received PROVE HeldThenReceived
  OBVIOUS
<1>1. Held \in Seq(Nat) /\ JOY_RECV \in Nat
  BY HeldAreWords DEF Received, InTypes, Words
<1>2. Held \o <<>> = Held
  BY <1>1, ConcatEmptySeq
<1>3. Held \o <<JOY_RECV>> = Append(Held, JOY_RECV)
  BY <1>1, AppendIsConcat
<1>. QED
  BY <1>2, <1>3 DEF HeldThenReceived, Coming, Receiving

Pushing == {"push", "push drop", "push store", "push count", "pushed"}
Clearing == {"clear count", "clear rear", "cleared"}

\* A step that leaves the outgoing queue alone.
LEMMA OutStays ==
  ASSUME OutInv, OutTypes', ~needsClear',
         UNCHANGED <<outgoingQueue, queueNeedsClear, isWriting, gbaNext, resets, use>>,
         \/ main \notin Pushing /\ main' \notin Pushing \cup Clearing
         \/ main' = main /\ tmp' = tmp
  PROVE  OutInv' /\ Out' = Out
<1>1. main' = main \/ (main \notin Pushing /\ main' \notin Pushing \cup Clearing)
  OBVIOUS
<1>2. Out' = Out
  BY <1>1 DEF Out, Pushing
<1>3. NothingCleared'
  BY <1>1 DEF OutInv, NothingCleared, Clearing
<1>4. PushInv'
  BY <1>1, <1>2 DEF OutInv, PushInv, Pushing
<1>. QED
  BY <1>2, <1>3, <1>4 DEF OutInv

LEMMA WokenStays ==
  ASSUME main' = Woken, tmp' = tmp
  PROVE  \/ main \notin Pushing /\ main' \notin Pushing \cup Clearing
         \/ main' = main /\ tmp' = tmp
  BY DEF Woken, Pushing, Clearing

LEMMA PipeWrite ==
  ASSUME Received, Piped, OutInv, WiiWrite
  PROVE  /\ OutInv' /\ wiiNext <= MaxWords /\ wiiNext' = wiiNext + 1
         /\ Coming' = Append(Coming, wiiNext) /\ Leaving' = Leaving
         /\ UNCHANGED <<gbaNext, gbaGot, wiiGot>>
<1>1. /\ JOYCNT = {} /\ JOYCNT' = {"RECEIVE"} /\ JOY_RECV' = wiiNext /\ JOY_TRANS' = JOY_TRANS
      /\ UNCHANGED <<outgoingQueue, queueNeedsClear, needsClear, isWriting, gbaNext, resets, use>>
      /\ main' = main /\ tmp' = tmp
      /\ wiiNext <= use.words /\ wiiNext' = wiiNext + 1
      /\ UNCHANGED <<gbaNext, gbaGot, wiiGot>>
  BY DEF WiiWrite, Ready, Piped, outbound, inbound, program
<1>2. OutInv' /\ Out' = Out
  BY <1>1, OutStays DEF OutInv, OutTypes, NothingCleared
<1>3. Leaving' = Leaving
  BY <1>1, <1>2 DEF Leaving, Sendable
<1>4. Received' /\ Held' = Held
  BY WiiWriteHolds
<1>5. Received' => HeldThenReceived'
  BY ComingIs, PTL
<1>6. Coming = Held /\ Coming' = Append(Held, wiiNext)
  BY <1>1, <1>4, <1>5, ComingIs DEF HeldThenReceived
<1>7. wiiNext \in Nat /\ use.words \in 0..MaxWords /\ MaxWords \in Nat
  BY LinkAssumption DEF Received, InTypes
<1>8. wiiNext <= MaxWords
  BY <1>1, <1>7
<1>. QED
  BY <1>1, <1>2, <1>3, <1>6, <1>8

LEMMA PipeRead ==
  ASSUME Received, Piped, OutInv, WiiRead
  PROVE  /\ OutInv' /\ Coming' = Coming
         /\ \/ Leaving # <<>> /\ wiiGot' = Head(Leaving) /\ Leaving' = Tail(Leaving)
            \/ Leaving' = Leaving /\ wiiGot' = wiiGot
         /\ UNCHANGED <<gbaNext, gbaGot, wiiNext>>
<1>1. /\ JOYCNT = {} /\ JOYCNT' = {"SEND"} /\ JOY_RECV' = JOY_RECV /\ JOY_TRANS' = JOY_TRANS
      /\ UNCHANGED <<outgoingQueue, queueNeedsClear, needsClear, isWriting, gbaNext, resets, use>>
      /\ main' = main /\ tmp' = tmp
      /\ UNCHANGED <<gbaNext, gbaGot, wiiNext>>
      /\ wiiGot' = IF JOY_TRANS = 0 THEN wiiGot ELSE JOY_TRANS
  BY DEF WiiRead, Ready, Piped, outbound, inbound, program
<1>2. OutInv' /\ Out' = Out
  BY <1>1, OutStays DEF OutInv, OutTypes, NothingCleared
<1>3. Received' /\ Held' = Held
  BY WiiPollHolds
<1>4. Coming' = Coming
  BY <1>1, <1>3 DEF Coming, Receiving
<1>. DEFINE s == All(Out)
            t == JOY_TRANS
<1>5. s \in Words /\ <<>> \o s = s /\ t \in Nat
  BY WaysAreWords, ConcatEmptySeq DEF Words, OutInv, OutTypes
<1>6. Leaving' = s
  BY <1>1, <1>2, <1>5 DEF Leaving, Sendable
<1>7. Leaving = (IF t = 0 THEN <<>> ELSE <<t>>) \o s
  BY <1>1 DEF Leaving, Sendable
<1>8. CASE JOY_TRANS = 0
  BY <1>1, <1>2, <1>4, <1>5, <1>6, <1>7, <1>8
<1>9. CASE JOY_TRANS # 0
  <2>1. <<t>> \in Words /\ <<t>> # <<>> /\ Head(<<t>>) = t /\ Tail(<<t>>) = <<>>
    BY <1>5 DEF Words
  <2>. HIDE DEF s
  <2>2. <<t>> \o s # <<>> /\ Head(<<t>> \o s) = t /\ Tail(<<t>> \o s) = s
    BY <1>5, <2>1, TailOfBoth
  <2>3. Leaving = <<t>> \o s /\ wiiGot' = t
    BY <1>1, <1>7, <1>9
  <2>. QED
    BY <1>1, <1>2, <1>4, <1>6, <2>2, <2>3
<1>. QED
  BY <1>8, <1>9

LEMMA NoReset ==
  ASSUME Piped, OutInv
  PROVE  ~WiiReset /\ ~onReset
<1>1. use.resets = 0 /\ resets = 0
  BY DEF Piped, OutInv, NothingCleared
<1>2. "RESET" \notin JOYCNT
  BY DEF OutInv, OutTypes
<1>. QED
  BY <1>1, <1>2 DEF WiiReset, onReset

\* The words of a full queue give way.
GivenWay(s, t) == Len(s) > Size /\ \E i \in 1..Len(s) : t = Pipe!RemoveAt(s, i)

LEMMA GivesWay ==
  ASSUME NEW a \in Words, NEW b \in Words, b # <<>>, Len(b) = Size, NEW x \in Nat,
         NEW s, s = Append(a \o b, x), NEW t, t = Append(a \o Tail(b), x)
  PROVE  GivenWay(s, t)
<1>. DEFINE c == Append(b, x)
            d == Tail(b)
            n == Len(a)
<1>1. c \in Words /\ Len(c) = Size + 1 /\ d \in Words /\ c # <<>>
  BY Appended, Tails, SizeIsPositive DEF Words
<1>2. s = a \o c
  BY AppendBehind
<1>3. t = a \o Append(d, x)
  BY <1>1, AppendBehind
<1>4. Tail(c) = Append(d, x)
  <2>1. <<x>> \in Words /\ c = b \o <<x>> /\ Append(d, x) = d \o <<x>>
    <3>1. b \in Seq(Nat) /\ d \in Seq(Nat) /\ <<x>> \in Words
      BY <1>1 DEF Words
    <3>. HIDE DEF d
    <3>2. Append(b, x) = b \o <<x>> /\ Append(d, x) = d \o <<x>>
      BY <3>1, AppendIsConcat
    <3>. QED
      BY <3>1, <3>2
  <2>. HIDE DEF c, d
  <2>2. Tail(b \o <<x>>) = d \o <<x>>
    BY <2>1, TailOfBoth DEF d
  <2>. QED
    BY <2>1, <2>2
<1>. HIDE DEF c, d
<1>5. n + 1 \in 1..Len(s) /\ Len(s) = n + Len(c) /\ Pipe!RemoveAt(s, n + 1) = a \o Tail(c)
  BY <1>1, <1>2, Removed
<1>6. n \in Nat
  BY DEF Words
<1>7. Len(s) > Size
  BY <1>1, <1>5, <1>6, SizeIsPositive
<1>8. t = Pipe!RemoveAt(s, n + 1)
  BY <1>3, <1>4, <1>5
<1>. QED
  BY <1>5, <1>7, <1>8 DEF GivenWay

LEMMA PipeReceive ==
  ASSUME Received, Piped, OutInv, onSerial, onReceive
  PROVE  /\ OutInv' /\ Leaving' = Leaving
         /\ \/ Coming' = Coming
            \/ GivenWay(Coming, Coming')
         /\ UNCHANGED <<gbaNext, gbaGot, wiiNext, wiiGot>>
<1>1. /\ JOYCNT = {"RECEIVE"} /\ JOYCNT' = {} /\ JOY_TRANS' = JOY_TRANS /\ ~needsClear
      /\ UNCHANGED <<outgoingQueue, queueNeedsClear, isWriting, gbaNext, resets, use>>
      /\ main' = Woken /\ tmp' = tmp
      /\ UNCHANGED <<gbaNext, gbaGot, wiiNext, wiiGot>>
  BY DEF onSerial, onReceive, outbound, wii, OutInv, OutTypes, NothingCleared
<1>2. ~needsClear'
  BY <1>1 DEF onReceive, copyState
<1>3. OutInv' /\ Out' = Out
  BY <1>1, <1>2, WokenStays, OutStays DEF OutInv, OutTypes
<1>4. Leaving' = Leaving
  BY <1>1, <1>3 DEF Leaving, Sendable
<1>. DEFINE a == All(Inc)
            b == All(newIncomingQueue)
<1>5. /\ Received'
      /\ \/ Held' = Append(Held, JOY_RECV)
         \/ /\ b # <<>> /\ newIncomingQueue.count = Size
            /\ Held' = Append(a \o Tail(b), JOY_RECV)
  BY <1>1, ReceiveHolds
<1>6. Received' => HeldThenReceived'
  BY ComingIs, PTL
<1>7. Coming = Append(Held, JOY_RECV) /\ Coming' = Held'
  BY <1>1, <1>5, <1>6, ComingIs DEF HeldThenReceived
<1>8. /\ a \in Words /\ b \in Words /\ Len(b) = newIncomingQueue.count /\ JOY_RECV \in Nat
      /\ Held = a \o b
  BY HeldAreWords, AllAreWords DEF Received, InTypes, InInv, Held
<1>. HIDE DEF a, b
<1>9. CASE Held' = Append(Held, JOY_RECV)
  BY <1>1, <1>3, <1>4, <1>7, <1>9
<1>10. CASE b # <<>> /\ newIncomingQueue.count = Size /\ Held' = Append(a \o Tail(b), JOY_RECV)
  <2>1. GivenWay(Coming, Coming')
    <3>. DEFINE s == Append(a \o b, JOY_RECV)
                t == Append(a \o Tail(b), JOY_RECV)
    <3>1. Coming = s /\ Coming' = t /\ b # <<>> /\ Len(b) = Size
      BY <1>7, <1>8, <1>10
    <3>2. s = Append(a \o b, JOY_RECV) /\ t = Append(a \o Tail(b), JOY_RECV)
      OBVIOUS
    <3>. HIDE DEF s, t
    <3>3. a \in Words /\ b \in Words /\ JOY_RECV \in Nat
      BY <1>8
    <3>4. GivenWay(s, t)
      BY <3>1, <3>2, <3>3, GivesWay
    <3>. QED
      BY <3>1, <3>4
  <2>. QED
    BY <1>1, <1>3, <1>4, <2>1
<1>. QED
  BY <1>5, <1>9, <1>10

LEMMA PipeSend ==
  ASSUME Received, Piped, OutInv, onSerial, onSend
  PROVE  /\ OutInv' /\ Leaving' = Leaving /\ Coming' = Coming
         /\ UNCHANGED <<gbaNext, gbaGot, wiiNext, wiiGot>>
<1>1. /\ JOYCNT = {"SEND"} /\ JOYCNT' = {} /\ JOY_RECV' = JOY_RECV /\ ~needsClear
      /\ UNCHANGED <<queueNeedsClear, isWriting, gbaNext, resets, use>>
      /\ main' = Woken /\ tmp' = tmp
      /\ UNCHANGED <<gbaNext, gbaGot, wiiNext, wiiGot>>
  BY DEF onSerial, onSend, outbound, wii, OutInv, NothingCleared
<1>2. ~needsClear'
  BY <1>1 DEF onSend, copyState
<1>3. Held' = Held
  BY <1>1, SendHolds
<1>4. Coming' = Coming
  BY <1>1, <1>3 DEF Coming, Receiving
<1>5. CASE isWriting
  <2>1. JOY_TRANS' = 0 /\ outgoingQueue' = outgoingQueue
    BY <1>5 DEF onSend
  <2>2. OutInv' /\ Out' = Out
    BY <1>1, <1>2, <2>1, WokenStays, OutStays DEF OutInv, OutTypes
  <2>3. Leaving' = Leaving
    BY <1>1, <2>1, <2>2 DEF Leaving, Sendable
  <2>. QED
    BY <1>1, <1>4, <2>2, <2>3
<1>6. CASE ~isWriting
  <2>. DEFINE q == outgoingQueue
              r == pop(q)
              s == All(q)
              t == All(r)
  <2>1. JOY_TRANS' = Popped(q) /\ q' = r
    BY <1>6 DEF onSend
  <2>2. main \notin Pushing /\ main' \notin Pushing \cup Clearing
    BY <1>1, <1>6 DEF OutInv, NothingCleared, PushInv, Pushing, Clearing, Woken
  <2>3. Out = q /\ Out' = r /\ Queue(q)
    BY <2>1, <2>2 DEF Out, Pushing, OutInv, PushInv, Queue
  <2>4. s \in Words /\ q.count \in Nat /\ Rising(s, 0, gbaNext) /\ gbaNext \in Nat /\ 0 < gbaNext
        /\ Len(s) = q.count
    BY <2>3, AllAreWords, Positions DEF Queue, OutInv, OutTypes, PushInv
  <2>5. /\ Queue(r) /\ Rising(t, 0, gbaNext) /\ Popped(q) \in Nat
        /\ (IF Popped(q) = 0 THEN <<>> ELSE <<Popped(q)>>) \o t = s
    <3>1. CASE isEmpty(q)
      <4>1. Popped(q) = 0 /\ r = q
        BY <3>1 DEF Popped, pop
      <4>2. <<>> \o s = s
        BY <2>4, ConcatEmptySeq DEF Words
      <4>. QED
        BY <2>3, <2>4, <4>1, <4>2
    <3>2. CASE ~isEmpty(q)
      <4>1. q.count > 0
        <5>1. q.count # 0
          BY <3>2, Zenon DEF isEmpty
        <5>. QED
          BY <2>4, <5>1
      <4>2. /\ Queue(r) /\ Popped(q) = Head(s) /\ s # <<>> /\ t = Tail(s)
            /\ Popped(q) \in Nat
        BY <2>3, <4>1, PoppedQueue
      <4>. HIDE DEF r, s, t, q
      <4>3. 0 < Head(s) /\ Rising(t, 0, gbaNext)
        BY <2>4, <4>2, RisingTail
      <4>4. Append(<<>>, Head(s)) \o Tail(s) = <<>> \o s /\ <<>> \o s = s
        BY <2>4, <4>2, HeadMoves, ConcatEmptySeq DEF Words
      <4>5. Append(<<>>, Head(s)) = <<Head(s)>>
        OBVIOUS
      <4>6. Popped(q) # 0
        BY <4>2, <4>3
      <4>7. (IF Popped(q) = 0 THEN <<>> ELSE <<Popped(q)>>) = <<Head(s)>>
        BY <4>2, <4>6
      <4>8. <<Head(s)>> \o t = s
        BY <4>2, <4>4, <4>5
      <4>. QED
        BY <4>2, <4>3, <4>7, <4>8
    <3>. QED
      BY <3>1, <3>2
  <2>6. Leaving = s
    <3>1. Sendable = <<>> /\ <<>> \o s = s
      BY <1>1, <2>4, ConcatEmptySeq DEF Sendable, Words
    <3>. QED
      BY <2>3, <3>1 DEF Leaving
  <2>7. Leaving' = s
    <3>1. Sendable' = IF Popped(q) = 0 THEN <<>> ELSE <<Popped(q)>>
      BY <1>1, <2>1 DEF Sendable
    <3>2. Leaving' = Sendable' \o All(r)
      BY <2>3 DEF Leaving
    <3>. QED
      BY <2>5, <3>1, <3>2
  <2>8. OutTypes'
    BY <1>1, <2>1, <2>5 DEF OutInv, OutTypes
  <2>9. NothingCleared'
    BY <1>1, <1>2, <2>2 DEF OutInv, NothingCleared, Clearing
  <2>10. PushInv'
    <3>1. Rising(All(Out'), 0, gbaNext') /\ 0 < gbaNext' /\ Out' \in Queues /\ WellFormed(Out')
      BY <1>1, <2>3, <2>4, <2>5 DEF Queue
    <3>. QED
      BY <2>2, <3>1 DEF PushInv, Pushing
  <2>. QED
    BY <1>1, <1>4, <2>6, <2>7, <2>8, <2>9, <2>10 DEF OutInv
<1>. QED
  BY <1>5, <1>6

-----------------------------------------------------------------------------
(* The program's steps, in a use that is a pipe.                           *)

\* What a call leaves alone.
Aside == UNCHANGED <<JOYCNT, JOY_RECV, JOY_TRANS, needsClear, wiiNext, wiiGot, resets, use>>

LEMMA ProgramIsAside == Program => Aside
  BY DEF Program, Sending, Reading, Send, Read, StartRead, PopEmpty, Pop, PopCount, FinishRead,
         Wait, WaitTest, LoadFlag, ClearFlag, PushDrop, PushDropped, PushStore, PushCount,
         Pushed, DeferredClear, Sent, Clear, OnlyProgram, registers, wii, Aside

LEMMA LeavingStays ==
  ASSUME Aside, All(Out') = All(Out)
  PROVE  Leaving' = Leaving
  BY DEF Aside, Leaving, Sendable

LEMMA AsideHolds ==
  ASSUME OutInv, Aside, UNCHANGED <<gbaNext, queueNeedsClear>>, main' \notin Clearing
  PROVE  OutTypes' /\ NothingCleared'
  BY DEF OutInv, Aside, OutTypes, NothingCleared, Clearing

\* The steps that do not send.
LEMMA PipeOther ==
  ASSUME Received, OutInv, Reading \/ Read \/ Wait \/ WaitTest \/ LoadFlag \/ ClearFlag
  PROVE  OutInv' /\ Leaving' = Leaving /\ gbaNext' = gbaNext
<1>1. Aside
  BY ProgramIsAside DEF Program
<1>2. /\ UNCHANGED <<outgoingQueue, queueNeedsClear, isWriting, gbaNext>>
      /\ main \notin Pushing /\ main' \notin Pushing \cup Clearing
  BY DEF Reading, Read, StartRead, PopEmpty, Pop, PopCount, FinishRead, Wait, WaitTest, LoadFlag,
         ClearFlag, At, OnlyProgram, outbound, Pushing, Clearing
<1>3. OutTypes' /\ NothingCleared'
  BY <1>1, <1>2, AsideHolds
<1>4. OutInv' /\ Out' = Out
  BY <1>1, <1>2, <1>3, OutStays DEF Aside, NothingCleared
<1>. QED
  BY <1>1, <1>2, <1>4, LeavingStays

GivenLeave(s, t) == Len(s) >= Size /\ \E i \in 1..Len(s) : t = Pipe!RemoveAt(s, i)

LEMMA PipeDrop ==
  ASSUME Received, OutInv, PushDrop
  PROVE  OutInv' /\ GivenLeave(Leaving, Leaving') /\ gbaNext' = gbaNext
<1>. DEFINE q == outgoingQueue
            p == pop(q)
            r == [p EXCEPT !.overflow = TRUE]
            s == All(q)
<1>1. Aside
  BY ProgramIsAside DEF Program, Sending
<1>2. /\ main = "push" /\ main' = "push drop" /\ isFull(q)
      /\ q' = [q EXCEPT !.overflow = TRUE, !.front = (@ + 1) % Size] /\ tmp' = q.count
      /\ UNCHANGED <<queueNeedsClear, isWriting, gbaNext>>
  BY DEF PushDrop, At
<1>3. OutTypes' /\ NothingCleared'
  BY <1>1, <1>2, AsideHolds DEF Clearing
<1>4. Out = q /\ Queue(q) /\ isWriting /\ gbaNext <= use.words
  BY <1>2 DEF Out, OutInv, PushInv, Queue
<1>5. q.count = Size /\ DOMAIN q = {"arr", "front", "rear", "count", "overflow"}
  <2>1. q.count = Size
    BY <1>2, Zenon DEF isFull
  <2>2. DOMAIN q = {"arr", "front", "rear", "count", "overflow"}
    BY <1>4 DEF Queue, Queues
  <2>. QED
    BY <2>1, <2>2
<1>6. /\ Queue(p) /\ p.count = Size - 1 /\ s # <<>> /\ All(p) = Tail(s)
  BY <1>4, <1>5, SizeIsPositive, PoppedQueue
<1>7. p = [q EXCEPT !.front = (@ + 1) % Size, !.count = @ - 1]
  <2>1. ~isEmpty(q)
    <3>1. q.count # 0
      BY <1>5, SizeIsPositive
    <3>. QED
      BY <3>1, Zenon DEF isEmpty
  <2>. QED
    BY <2>1, Zenon DEF pop
<1>8. Out' = [q' EXCEPT !.count = @ - 1]
  BY <1>2 DEF Out
<1>9. Out' = r /\ q'.count = q.count
  BY <1>2, <1>5, <1>7, <1>8
<1>. HIDE DEF p
<1>10. Queue(r) /\ All(r) = Tail(s) /\ r.count = Size - 1
  <2>1. Queue(r) /\ All(r) = All(p)
    BY <1>6, FlaggedIsQueue
  <2>2. r.count = p.count
    BY <1>6 DEF Queue, Queues
  <2>. QED
    BY <1>6, <2>1, <2>2
<1>. HIDE DEF r, q
<1>11. s \in Words /\ Len(s) = Size /\ Rising(s, 0, gbaNext) /\ gbaNext \in Nat /\ 0 < gbaNext
  BY <1>4, <1>5, AllAreWords DEF OutInv, OutTypes, PushInv
<1>. HIDE DEF s
<1>12. Rising(Tail(s), 0, gbaNext)
  BY <1>6, <1>11, RisingTail
<1>13. PushInv'
  <2>1. /\ Out' \in Queues /\ WellFormed(Out') /\ Out'.count < Size
        /\ Rising(All(Out'), 0, gbaNext') /\ 0 < gbaNext'
    <3>1. r.count < Size
      BY <1>10, SizeIsPositive
    <3>2. r \in Queues /\ WellFormed(r) /\ Rising(All(r), 0, gbaNext)
      BY <1>10, <1>12 DEF Queue
    <3>. QED
      BY <1>2, <1>9, <1>11, <3>1, <3>2
  <2>2. main' = "push drop" /\ tmp' = outgoingQueue'.count /\ isWriting' /\ gbaNext' <= use'.words
    BY <1>1, <1>2, <1>4, <1>9 DEF Aside, q
  <2>. QED
    BY <2>1, <2>2 DEF PushInv
<1>14. GivenLeave(Leaving, Leaving')
  <2>1. Leaving = Sendable \o s /\ Leaving' = Sendable \o Tail(s)
    <3>1. Sendable' = Sendable
      BY <1>1 DEF Aside, Sendable
    <3>. QED
      BY <1>4, <1>9, <1>10, <3>1 DEF Leaving, s
  <2>2. Sendable \in Words
    BY WaysAreWords
  <2>. DEFINE a == Sendable
  <2>. HIDE DEF a
  <2>3. /\ Len(a) + 1 \in 1..Len(a \o s) /\ Len(a \o s) = Len(a) + Len(s)
        /\ Pipe!RemoveAt(a \o s, Len(a) + 1) = a \o Tail(s)
    BY <1>6, <1>11, <2>2, Removed DEF a
  <2>4. Len(a) \in Nat
    BY <2>2 DEF Words, a
  <2>5. Len(a \o s) >= Size
    BY <1>11, <2>3, <2>4, SizeIsPositive
  <2>6. GivenLeave(a \o s, a \o Tail(s))
    BY <2>3, <2>5, Zenon DEF GivenLeave
  <2>. QED
    BY <2>1, <2>6 DEF a
<1>. QED
  BY <1>2, <1>3, <1>13, <1>14 DEF OutInv

LEMMA PipeStore ==
  ASSUME Received, OutInv, PushStore
  PROVE  OutInv' /\ Leaving' = Leaving /\ gbaNext' = gbaNext
<1>. DEFINE q == outgoingQueue
            n == q.count
            slot == Slot(q.front, n)
            arr == [q.arr EXCEPT ![slot] = gbaNext]
            r == [q EXCEPT !.rear = slot, !.arr = arr]
<1>1. Aside
  BY ProgramIsAside DEF Program, Sending
<1>2. /\ main \in {"push", "push store"} /\ main' = "push count" /\ tmp' = n
      /\ UNCHANGED <<queueNeedsClear, isWriting, gbaNext>>
      /\ main = "push" => ~isFull(q)
      /\ q' = [q EXCEPT !.rear = (q.rear + 1) % Size, !.arr[(q.rear + 1) % Size] = gbaNext]
  BY DEF PushStore
<1>3. OutTypes' /\ NothingCleared'
  BY <1>1, <1>2, AsideHolds DEF Clearing
<1>4. Out = q /\ Queue(q) /\ q \in Queues /\ isWriting /\ gbaNext <= use.words
  BY <1>2 DEF Out, OutInv, PushInv, Queue
<1>5. n \in Nat /\ n < Size /\ n \in Slots
  <2>1. n \in Nat /\ n <= Size
    BY <1>4, Positions
  <2>2. CASE main = "push"
    <3>1. n # Size
      BY <1>2, <2>2, Zenon DEF isFull
    <3>. QED
      BY <2>1, <3>1, SizeIsPositive DEF Slots
  <2>3. CASE main = "push store"
    <3>1. Out.count < Size
      BY <2>3 DEF OutInv, PushInv
    <3>2. n < Size
      BY <1>4, <3>1
    <3>. QED
      BY <2>1, <3>2, SizeIsPositive DEF Slots
  <2>. QED
    BY <1>2, <2>2, <2>3
<1>6. q' = r
  <2>1. (q.rear + 1) % Size = slot
    BY <1>4, FormOfQueue DEF Queue
  <2>2. q' = [q EXCEPT !.rear = slot, !.arr[slot] = gbaNext]
    BY <1>2, <2>1
  <2>. QED
    BY <2>2
<1>7. slot \in Slots /\ gbaNext \in Nat /\ 0 < gbaNext /\ q.front \in Slots /\ q.arr \in [Slots -> Nat]
  BY <1>4, <1>5, Positions, SlotIsOne, SizeIsPositive DEF OutInv, OutTypes, PushInv
<1>. HIDE DEF slot
<1>8. arr \in [Slots -> Nat] /\ arr[slot] = gbaNext
  BY <1>7
<1>. HIDE DEF arr
<1>9. r \in Queues
  <2>1. slot \in -1..(Size - 1)
    BY <1>7, SizeIsPositive DEF Slots
  <2>. QED
    BY <1>4, <1>8, <2>1 DEF Queues
<1>10. r.arr = arr /\ r.front = q.front /\ r.rear = slot /\ r.count = n
  BY <1>4 DEF Queues
<1>. HIDE DEF r
<1>11. All(r) = All(q)
  <2>1. Items(r, n) = Items(q, n)
    BY <1>4, <1>5, <1>7, <1>9, <1>10, Stored DEF arr, slot
  <2>. QED
    BY <1>10, <2>1 DEF All
<1>12. Out' = r
  BY <1>2, <1>6 DEF Out
<1>13. PushInv'
  <2>1. Rising(All(Out'), 0, gbaNext') /\ 0 < gbaNext'
    BY <1>2, <1>4, <1>7, <1>11, <1>12 DEF OutInv, PushInv
  <2>2. /\ Out' \in Queues /\ tmp' = Out'.count /\ Out'.count < Size
        /\ Out'.rear = Slot(Out'.front, Out'.count) /\ Out'.arr[Out'.rear] = gbaNext'
    BY <1>2, <1>5, <1>8, <1>9, <1>10, <1>12 DEF slot
  <2>3. main' = "push count" /\ isWriting' /\ gbaNext' <= use'.words
    BY <1>1, <1>2, <1>4 DEF Aside
  <2>. QED
    BY <2>1, <2>2, <2>3 DEF PushInv
<1>14. Leaving' = Leaving
  BY <1>1, <1>4, <1>11, <1>12, LeavingStays
<1>. QED
  BY <1>2, <1>3, <1>13, <1>14 DEF OutInv

LEMMA PipeCount ==
  ASSUME Received, Piped, OutInv, PushCount
  PROVE  /\ OutInv' /\ Leaving' = Append(Leaving, gbaNext)
         /\ gbaNext' = gbaNext + 1 /\ gbaNext <= MaxWords
<1>. DEFINE q == outgoingQueue
            n == q.count
            slot == Slot(q.front, n)
            r == [q EXCEPT !.count = n + 1]
<1>1. Aside
  BY ProgramIsAside DEF Program, Sending
<1>2. /\ main = "push count" /\ main' = "pushed" /\ q' = [q EXCEPT !.count = tmp + 1]
      /\ gbaNext' = gbaNext + 1 /\ UNCHANGED <<queueNeedsClear, isWriting>>
  BY DEF PushCount, At
<1>3. /\ Out = q /\ q \in Queues /\ tmp = n /\ n < Size /\ q.rear = slot /\ q.arr[slot] = gbaNext
      /\ isWriting /\ gbaNext <= use.words /\ gbaNext \in Nat /\ 0 < gbaNext
      /\ Rising(All(q), 0, gbaNext)
  <2>1. Out = q
    BY <1>2 DEF Out
  <2>2. /\ Out \in Queues /\ tmp = Out.count /\ Out.count < Size
        /\ Out.rear = Slot(Out.front, Out.count) /\ Out.arr[Out.rear] = gbaNext
        /\ isWriting /\ gbaNext <= use.words /\ gbaNext \in Nat /\ 0 < gbaNext
        /\ Rising(All(Out), 0, gbaNext)
    BY <1>2 DEF OutInv, OutTypes, PushInv
  <2>. QED
    BY <2>1, <2>2
<1>4. OutTypes' /\ NothingCleared'
  <2>1. OutTypes'
    <3>1. gbaNext + 1 \in Nat
      BY <1>3
    <3>. QED
      BY <1>1, <1>2, <3>1 DEF OutInv, Aside, OutTypes
  <2>2. NothingCleared'
    BY <1>1, <1>2 DEF OutInv, Aside, NothingCleared
  <2>. QED
    BY <2>1, <2>2
<1>5. /\ n \in Nat /\ n \in Slots /\ n + 1 \in 0..Size /\ q.front \in Slots
      /\ q.arr \in [Slots -> Nat]
  <2>1. n \in Nat /\ q.front \in Slots /\ q.arr \in [Slots -> Nat]
    BY <1>3, Positions
  <2>. QED
    BY <1>3, <2>1, SizeIsPositive DEF Slots
<1>6. slot \in Slots
  <2>1. n <= Size
    BY <1>3, <1>5, SizeIsPositive
  <2>. QED
    BY <1>5, <2>1, SlotIsOne
<1>7. /\ r \in Queues /\ r.count = n + 1 /\ r.arr = q.arr /\ r.front = q.front /\ r.rear = slot
  BY <1>3, <1>5 DEF Queues
<1>8. q' = r /\ Out' = r
  BY <1>2, <1>3 DEF Out
<1>. HIDE DEF r, slot
<1>9. r.arr = [q.arr EXCEPT ![slot] = gbaNext]
  BY <1>3, <1>5, <1>6, <1>7
<1>10. All(r) = Append(All(q), gbaNext)
  <2>1. Items(r, n + 1) = Append(Items(q, n), gbaNext)
    BY <1>3, <1>5, <1>7, <1>9, Stored DEF slot
  <2>. QED
    BY <1>7, <2>1 DEF All
<1>11. WellFormed(r)
  <2>1. Slot(slot, 1) = Slot(q.front, n + 1)
    BY <1>5, StepAfter DEF slot
  <2>2. Slot(r.front, r.count) = (r.rear + 1) % Size
    BY <1>7, <2>1 DEF Slot
  <2>. QED
    BY <1>7, <2>2, FormOfQueue
<1>12. All(q) \in Words
  BY <1>3, WaysAreWords
<1>. HIDE DEF q
<1>13. gbaNext + 1 \in Nat /\ gbaNext < gbaNext + 1 /\ 0 < gbaNext + 1
  BY <1>3
<1>14. Rising(All(r), 0, gbaNext + 1)
  BY <1>3, <1>10, <1>12, <1>13, RisingAppended
<1>15. PushInv'
  <2>1. Out' \in Queues /\ WellFormed(Out') /\ Rising(All(Out'), 0, gbaNext') /\ 0 < gbaNext'
    BY <1>2, <1>7, <1>8, <1>11, <1>13, <1>14
  <2>2. main' = "pushed" /\ isWriting'
    BY <1>2, <1>3
  <2>. QED
    BY <2>1, <2>2 DEF PushInv
<1>16. Leaving' = Append(Leaving, gbaNext)
  <2>1. Sendable' = Sendable /\ Sendable \in Words
    BY <1>1, WaysAreWords DEF Aside, Sendable
  <2>2. Leaving' = Sendable' \o All(r) /\ Leaving = Sendable \o All(q)
    BY <1>3, <1>8 DEF Leaving
  <2>. HIDE DEF Sendable
  <2>3. Sendable \o Append(All(q), gbaNext) = Append(Sendable \o All(q), gbaNext)
    BY <1>3, <1>12, <2>1, AppendBehind
  <2>. QED
    BY <1>10, <2>1, <2>2, <2>3
<1>17. gbaNext <= MaxWords
  <2>1. use.words \in 0..MaxWords /\ MaxWords \in Nat
    BY LinkAssumption DEF Received, InTypes
  <2>. QED
    BY <1>3, <2>1
<1>. QED
  BY <1>2, <1>4, <1>15, <1>16, <1>17 DEF OutInv

\* The rest of send().
LEMMA PipeCall ==
  ASSUME Received, OutInv, Send \/ PushDropped \/ Pushed \/ DeferredClear \/ Sent
  PROVE  OutInv' /\ Leaving' = Leaving /\ gbaNext' = gbaNext
<1>1. Aside
  BY ProgramIsAside DEF Program, Sending
<1>2. ~queueNeedsClear /\ main \notin Clearing
  BY DEF OutInv, NothingCleared, Clearing
<1>3. CASE Send
  <2>1. /\ main = "idle" /\ main' = "push" /\ isWriting' /\ gbaNext <= use.words
        /\ UNCHANGED <<outgoingQueue, queueNeedsClear, gbaNext>>
    BY <1>3 DEF Send, At, outbound
  <2>2. Out' = Out
    BY <2>1 DEF Out
  <2>3. OutTypes' /\ NothingCleared'
    BY <1>1, <2>1, AsideHolds DEF Clearing
  <2>4. PushInv'
    BY <1>1, <2>1, <2>2 DEF OutInv, PushInv, Aside
  <2>. QED
    BY <1>1, <2>1, <2>2, <2>3, <2>4, LeavingStays DEF OutInv
<1>4. CASE PushDropped
  <2>1. /\ main = "push drop" /\ main' = "push store"
        /\ outgoingQueue' = [outgoingQueue EXCEPT !.count = tmp - 1]
        /\ UNCHANGED <<queueNeedsClear, isWriting, gbaNext>>
    BY <1>4 DEF PushDropped, At
  <2>2. Out' = Out
    <3>1. tmp = outgoingQueue.count
      BY <2>1 DEF OutInv, PushInv
    <3>. QED
      BY <2>1, <3>1 DEF Out
  <2>3. OutTypes' /\ NothingCleared'
    BY <1>1, <2>1, AsideHolds DEF Clearing
  <2>4. PushInv'
    BY <1>1, <2>1, <2>2 DEF OutInv, PushInv, Aside
  <2>. QED
    BY <1>1, <2>1, <2>2, <2>3, <2>4, LeavingStays DEF OutInv
<1>5. CASE Pushed \/ DeferredClear \/ Sent
  <2>1. /\ main \in {"pushed", "clear test"} /\ main' \in {"clear test", "idle"}
        /\ UNCHANGED <<outgoingQueue, queueNeedsClear, gbaNext>>
    BY <1>2, <1>5 DEF Pushed, DeferredClear, Sent, At, outbound, Clearing
  <2>2. Out' = Out
    BY <2>1 DEF Out
  <2>3. OutTypes' /\ NothingCleared'
    BY <1>1, <2>1, AsideHolds DEF Clearing
  <2>4. PushInv'
    BY <1>1, <2>1, <2>2 DEF OutInv, PushInv, Aside
  <2>. QED
    BY <1>1, <2>1, <2>2, <2>3, <2>4, LeavingStays DEF OutInv
<1>. QED
  BY <1>3, <1>4, <1>5

\* What is received, when the program reads a word.
LEMMA PipePop ==
  ASSUME Received, Pop
  PROVE  Coming # <<>> /\ gbaGot' = Head(Coming) /\ Coming' = Tail(Coming)
<1>1. Held # <<>> /\ Held' = Tail(Held) /\ gbaGot' = Head(Held)
  BY PopHolds
<1>2. Receiving' = Receiving
  BY DEF Pop, OnlyProgram, registers, Receiving
<1>3. Held \in Words /\ Receiving \in Words
  <2>1. \A x \in Nat : <<x>> \in Words /\ <<>> \in Words
    BY DEF Words
  <2>. QED
    BY <2>1, HeldAreWords DEF Received, InTypes, Receiving
<1>. HIDE DEF Held, Receiving
<1>4. /\ Held \o Receiving # <<>> /\ Head(Held \o Receiving) = Head(Held)
      /\ Tail(Held \o Receiving) = Tail(Held) \o Receiving
  BY <1>1, <1>3, TailOfBoth
<1>. QED
  BY <1>1, <1>2, <1>4 DEF Coming

LEMMA ComingStays ==
  ASSUME Received, Program, ~Pop
  PROVE  Coming' = Coming /\ gbaGot' = gbaGot
<1>1. Held' = Held
  BY ProgramHolds
<1>2. Receiving' = Receiving
  BY ProgramIsAside DEF Aside, Receiving
<1>3. gbaGot' = gbaGot
  BY DEF Program, Reading, Send, Sending, Read, StartRead, PopEmpty, PopCount, FinishRead,
         Wait, WaitTest, LoadFlag, ClearFlag, PushDrop, PushDropped, PushStore, PushCount,
         Pushed, DeferredClear, Sent, Clear
<1>. QED
  BY <1>1, <1>2, <1>3 DEF Coming

-----------------------------------------------------------------------------
(* The driver implements the two queues.                                   *)

\* The words under way are ToGba and ToWii, before and after the step.
LEMMA PipeSteps ==
  ASSUME Received, Piped, OutInv, [Next]_vars
  PROVE  /\ OutInv'
         /\ \/ /\ wiiNext <= MaxWords /\ wiiNext' = wiiNext + 1
               /\ Coming' = Append(Coming, wiiNext) /\ Leaving' = Leaving
               /\ UNCHANGED <<gbaNext, gbaGot, wiiGot>>
            \/ /\ Coming # <<>> /\ gbaGot' = Head(Coming) /\ Coming' = Tail(Coming)
               /\ Leaving' = Leaving /\ UNCHANGED <<gbaNext, wiiNext, wiiGot>>
            \/ /\ gbaNext <= MaxWords /\ gbaNext' = gbaNext + 1
               /\ Leaving' = Append(Leaving, gbaNext) /\ Coming' = Coming
               /\ UNCHANGED <<gbaGot, wiiNext, wiiGot>>
            \/ /\ Leaving # <<>> /\ wiiGot' = Head(Leaving) /\ Leaving' = Tail(Leaving)
               /\ Coming' = Coming /\ UNCHANGED <<gbaNext, gbaGot, wiiNext>>
            \/ /\ GivenWay(Coming, Coming') \/ Coming' = Coming
               /\ GivenLeave(Leaving, Leaving') \/ Leaving' = Leaving
               /\ Coming' = Coming \/ Leaving' = Leaving
               /\ UNCHANGED <<gbaNext, gbaGot, wiiNext, wiiGot>>
<1>1. CASE WiiWrite
  BY <1>1, PipeWrite
<1>2. CASE WiiRead
  BY <1>2, PipeRead
<1>3. CASE WiiReset
  BY <1>3, NoReset
<1>4. CASE onSerial
  <2>1. onReceive \/ onSend
    BY <1>4, NoReset DEF onSerial
  <2>2. CASE onReceive
    BY <1>4, <2>2, PipeReceive
  <2>3. CASE onSend
    BY <1>4, <2>3, PipeSend
  <2>. QED
    BY <2>1, <2>2, <2>3
<1>5. CASE Program
  <2>1. wiiNext' = wiiNext /\ wiiGot' = wiiGot
    BY <1>5, ProgramIsAside DEF Aside
  <2>2. CASE Pop
    BY <2>1, <2>2, PipePop, PipeOther DEF Reading
  <2>3. CASE PushCount
    <3>1. ~Pop
      BY <2>3 DEF PushCount, Pop, At
    <3>. QED
      BY <1>5, <2>1, <2>3, <3>1, PipeCount, ComingStays
  <2>4. CASE PushDrop
    <3>1. ~Pop
      BY <2>4 DEF PushDrop, Pop, At
    <3>. QED
      BY <1>5, <2>1, <2>4, <3>1, PipeDrop, ComingStays
  <2>5. CASE ~Pop /\ ~PushCount /\ ~PushDrop
    <3>1. Coming' = Coming /\ gbaGot' = gbaGot
      BY <1>5, <2>5, ComingStays
    <3>2. OutInv' /\ Leaving' = Leaving /\ gbaNext' = gbaNext
      BY <1>5, <2>5, PipeOther, PipeStore, PipeCall DEF Program, Sending
    <3>. QED
      BY <2>1, <3>1, <3>2
  <2>. QED
    BY <2>2, <2>3, <2>4, <2>5
<1>6. CASE UNCHANGED vars
  <2>1. /\ UNCHANGED <<JOYCNT, JOY_RECV, JOY_TRANS, newIncomingQueue, incomingQueue, needsClear>>
        /\ UNCHANGED <<outgoingQueue, queueNeedsClear, isWriting, main, tmp, resets, use>>
        /\ UNCHANGED <<gbaNext, gbaGot, wiiNext, wiiGot>>
    BY <1>6 DEF vars, registers, inbound, outbound, program, wii
  <2>2. OutInv' /\ Out' = Out
    BY <2>1, OutStays DEF OutInv, OutTypes, NothingCleared
  <2>3. Coming' = Coming /\ Leaving' = Leaving
    BY <2>1, <2>2 DEF Coming, Held, Inc, Receiving, Leaving, Sendable
  <2>. QED
    BY <2>1, <2>2, <2>3
<1>. QED
  BY <1>1, <1>2, <1>3, <1>4, <1>5, <1>6 DEF Next

LEMMA UseStays == [Next]_vars => use' = use
<1>. SUFFICES ASSUME [Next]_vars PROVE use' = use
  OBVIOUS
<1>1. CASE Program
  BY <1>1, ProgramIsAside DEF Aside
<1>. QED
  BY <1>1 DEF Next, vars, wii, WiiWrite, WiiRead, WiiReset, onSerial

LEMMA PipeInit ==
  ASSUME Init
  PROVE  OutInv /\ Pipe!Init
<1>1. Queue(EmptyQueue) /\ All(EmptyQueue) = <<>>
  BY EmptyIsQueue
<1>2. Out = EmptyQueue /\ main = "idle"
  BY DEF Init, Out
<1>3. OutInv
  BY <1>1, <1>2, NoneRises DEF Init, OutInv, OutTypes, NothingCleared, PushInv, Queue
<1>. QED
  BY <1>3, LinkAssumption DEF Init, Pipe!Init, ToGba, ToWii, Items, EmptyQueue

LEMMA PipeNext ==
  ASSUME CubeInv, CubeInv', [Next]_vars
  PROVE  [Pipe!Next]_(Pipe!vars)
<1>1. Piped' = Piped
  BY UseStays DEF Piped
<1>2. CASE ~Piped
  BY <1>1, <1>2 DEF Pipe!vars
<1>3. CASE Piped
  <2>1. ToGba = Coming /\ ToWii = Leaving
    BY <1>3, UnderWay DEF CubeInv, Followed
  <2>2. Followed'
    BY UnderWay, PTL
  <2>3. ToGba' = Coming' /\ ToWii' = Leaving'
    BY <1>1, <1>3, <2>2 DEF CubeInv, Followed
  <2>4. Received /\ OutInv
    BY <1>3 DEF CubeInv
  <2>5. CASE /\ wiiNext <= MaxWords /\ wiiNext' = wiiNext + 1
             /\ Coming' = Append(Coming, wiiNext) /\ Leaving' = Leaving
             /\ UNCHANGED <<gbaNext, gbaGot, wiiGot>>
    <3>1. Pipe!WiiWrites
      BY <1>1, <1>3, <2>1, <2>3, <2>5 DEF Pipe!WiiWrites
    <3>. QED
      BY <3>1 DEF Pipe!Next
  <2>6. CASE /\ Coming # <<>> /\ gbaGot' = Head(Coming) /\ Coming' = Tail(Coming)
             /\ Leaving' = Leaving /\ UNCHANGED <<gbaNext, wiiNext, wiiGot>>
    <3>1. Pipe!GbaReads
      BY <1>1, <1>3, <2>1, <2>3, <2>6 DEF Pipe!GbaReads
    <3>. QED
      BY <3>1 DEF Pipe!Next
  <2>7. CASE /\ gbaNext <= MaxWords /\ gbaNext' = gbaNext + 1
             /\ Leaving' = Append(Leaving, gbaNext) /\ Coming' = Coming
             /\ UNCHANGED <<gbaGot, wiiNext, wiiGot>>
    <3>1. Pipe!GbaSends
      BY <1>1, <1>3, <2>1, <2>3, <2>7 DEF Pipe!GbaSends
    <3>. QED
      BY <3>1 DEF Pipe!Next
  <2>8. CASE /\ Leaving # <<>> /\ wiiGot' = Head(Leaving) /\ Leaving' = Tail(Leaving)
             /\ Coming' = Coming /\ UNCHANGED <<gbaNext, gbaGot, wiiNext>>
    <3>1. Pipe!WiiReads
      BY <1>1, <1>3, <2>1, <2>3, <2>8 DEF Pipe!WiiReads
    <3>. QED
      BY <3>1 DEF Pipe!Next
  <2>9. CASE /\ GivenWay(Coming, Coming') /\ Leaving' = Leaving
             /\ UNCHANGED <<gbaNext, gbaGot, wiiNext, wiiGot>>
    <3>1. Pipe!LosesToGba
      BY <1>1, <1>3, <2>1, <2>3, <2>9 DEF Pipe!LosesToGba, GivenWay
    <3>. QED
      BY <3>1 DEF Pipe!Next
  <2>10. CASE /\ GivenLeave(Leaving, Leaving') /\ Coming' = Coming
              /\ UNCHANGED <<gbaNext, gbaGot, wiiNext, wiiGot>>
    <3>1. Pipe!LosesToWii
      BY <1>1, <1>3, <2>1, <2>3, <2>10 DEF Pipe!LosesToWii, GivenLeave
    <3>. QED
      BY <3>1 DEF Pipe!Next
  <2>11. CASE Coming' = Coming /\ Leaving' = Leaving /\ UNCHANGED <<gbaNext, gbaGot, wiiNext, wiiGot>>
    BY <1>1, <1>3, <2>1, <2>3, <2>11 DEF Pipe!vars
  <2>. HIDE DEF Next, vars, Coming, Leaving
  <2>. QED
    BY <1>3, <2>4, <2>5, <2>6, <2>7, <2>8, <2>9, <2>10, <2>11, PipeSteps
<1>. QED
  BY <1>2, <1>3

LEMMA CubeStep ==
  ASSUME CubeInv, [Next]_vars
  PROVE  CubeInv'
<1>1. Received'
  BY StepHolds DEF CubeInv
<1>2. Piped' = Piped
  BY UseStays DEF Piped
<1>3. Piped => OutInv'
  BY PipeSteps DEF CubeInv
<1>. QED
  BY <1>1, <1>2, <1>3 DEF CubeInv

(* However the handler, the program and the Wii take turns, the driver     *)
(* does what two queues of words may do, a word falling out only when there *)
(* is no room for it, as long as the Wii waits for the handler.            *)
THEOREM DriverIsAPipe == Spec => ImplementsPipe
<1>1. Init => CubeInv /\ Pipe!Init
  BY InitHolds, PipeInit DEF CubeInv
<1>2. CubeInv /\ [Next]_vars => CubeInv'
  BY CubeStep
<1>3. CubeInv /\ CubeInv' /\ [Next]_vars => [Pipe!Next]_(Pipe!vars)
  BY PipeNext
<1>. QED
  BY <1>1, <1>2, <1>3, PTL DEF Spec, ImplementsPipe, Pipe!Spec

=============================================================================
