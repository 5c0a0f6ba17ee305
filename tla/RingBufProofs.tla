--------------------------- MODULE RingBufProofs ---------------------------
(***************************************************************************)
(* The ring buffer keeps its invariant and implements a bounded queue, for *)
(* every capacity and every set of items.                                  *)
(*                                                                         *)
(* The two step lemmas say what Push and Pop do to the queue the array     *)
(* stands for.  They are stated about one step from any state that         *)
(* satisfies RingInv, so that the proofs about BoundedQueue, whose worker  *)
(* performs those steps among others, can cite them.                       *)
(***************************************************************************)
EXTENDS RingBuf, SequenceTheorems, TLAPS

USE CapacityAssumption

\* Indexes never run more than one lap ahead, so reducing one modulo the
\* capacity subtracts the capacity at most once.
Lap(a) == IF a < Capacity THEN a ELSE a - Capacity

LEMMA ModLap ==
    \A a \in Int : a >= 0 /\ a < 2 * Capacity => a % Capacity = Lap(a)
  BY DEF Lap

\* What TypeOK says of the indexes, for the arithmetic steps.
LEMMA IndexTypes ==
    ASSUME TypeOK
    PROVE  /\ Capacity \in Nat /\ Capacity > 0
           /\ head \in Nat /\ head < Capacity
           /\ tail \in Nat /\ tail < Capacity
           /\ count \in Nat /\ count <= Capacity
  BY DEF TypeOK, Slots

\* The slots of different queued items are different, and so is the slot
\* that Push would write next, unless the buffer is full.
LEMMA SlotsDiffer ==
    ASSUME TypeOK,
           NEW j \in 1 .. Capacity, NEW k \in 1 .. Capacity, j # k
    PROVE  /\ SlotOf(j) \in Slots
           /\ SlotOf(j) # SlotOf(k)
  <1>1. /\ SlotOf(j) = Lap(head + j - 1)
        /\ SlotOf(k) = Lap(head + k - 1)
    BY IndexTypes, ModLap DEF SlotOf
  <1> QED  BY <1>1, IndexTypes DEF Lap, Slots

\* A slot the ring has is the slot of the k-th oldest item for one k, once k
\* may run over the whole capacity.
LEMMA SlotsCovered ==
    ASSUME TypeOK, NEW i \in Slots
    PROVE  \E k \in 1 .. Capacity : i = SlotOf(k)
  <1>1. CASE i >= head
    <2>1. i - head + 1 \in 1 .. Capacity /\ head + (i - head + 1) - 1 = i
      BY <1>1 DEF TypeOK, Slots
    <2>2. SlotOf(i - head + 1) = i
      BY <2>1, ModLap DEF Lap, SlotOf, Slots, TypeOK
    <2> QED  BY <2>1, <2>2
  <1>2. CASE i < head
    <2>1. /\ i - head + 1 + Capacity \in 1 .. Capacity
          /\ head + (i - head + 1 + Capacity) - 1 = i + Capacity
      BY <1>2 DEF TypeOK, Slots
    <2>2. SlotOf(i - head + 1 + Capacity) = i
      BY <2>1, ModLap DEF Lap, SlotOf, Slots, TypeOK
    <2> QED  BY <2>1, <2>2
  <1> QED  BY <1>1, <1>2 DEF TypeOK, Slots

\* Push appends its item to the queue and keeps the invariant.
LEMMA PushStep ==
    ASSUME RingInv, NEW x \in Items, Push(x)
    PROVE  RingInv' /\ Contents' = Append(Contents, x)
  <1> USE DEF RingInv
  <1>1. TypeOK'
    <2>1. Succ(tail) \in Slots  BY DEF TypeOK, Slots, Succ
    <2> QED  BY <2>1 DEF TypeOK, Push, Slots
  <1>2. tail = SlotOf(count + 1)
    BY DEF TailAhead, SlotOf, TypeOK, Slots
  <1>3. \A k \in 1 .. Capacity : SlotOf(k)' = SlotOf(k)
    BY DEF Push, SlotOf
  <1>4. \A k \in 1 .. count : SlotOf(k) # tail
    BY <1>2, SlotsDiffer DEF TypeOK, Push
  <1>5. TailAhead'
    <2>0. count < Capacity /\ count' = count + 1 /\ head' = head /\ tail' = (tail + 1) % Capacity
      BY DEF Push, Succ
    <2>1. /\ head + count \in Int /\ head + count >= 0 /\ head + count < 2 * Capacity
          /\ tail + 1 \in Int /\ tail + 1 >= 0 /\ tail + 1 < 2 * Capacity
          /\ head + count + 1 \in Int /\ head + count + 1 >= 0 /\ head + count + 1 < 2 * Capacity
      BY <2>0, IndexTypes
    <2>2. tail = (head + count) % Capacity
      BY DEF TailAhead
    <2>3. tail = Lap(head + count)
      BY <2>1, <2>2, ModLap, Zenon
    <2>4. tail' = Lap(tail + 1)
      BY <2>0, <2>1, ModLap, Zenon
    <2>5. (head + count + 1) % Capacity = Lap(head + count + 1)
      BY <2>1, ModLap, Zenon
    <2>6. Lap(tail + 1) = Lap(head + count + 1)
      BY <2>0, <2>3, IndexTypes DEF Lap
    <2>7. tail' = (head + count + 1) % Capacity
      BY <2>4, <2>5, <2>6, Zenon
    <2> QED  BY <2>0, <2>7, IndexTypes DEF TailAhead
  <1>6. \A k \in 1 .. count : buf'[SlotOf(k)] = buf[SlotOf(k)]
    BY <1>4 DEF Push, TypeOK
  <1>7. buf'[tail] = x
    BY DEF Push, TypeOK
  <1>8. Occupied'
    BY <1>1, <1>2, <1>3, <1>6, <1>7 DEF Occupied, Push, TypeOK
  <1>9. Released'
    <2> SUFFICES ASSUME NEW i \in Slots, \A k \in 1 .. count + 1 : i # SlotOf(k)
                 PROVE  buf'[i] = Zero
      BY <1>1, <1>3 DEF Released, Push, TypeOK, Slots
    <2>1. i # tail /\ \A k \in 1 .. count : i # SlotOf(k)
      BY <1>2 DEF TypeOK
    <2> QED  BY <2>1 DEF Released, Push, TypeOK
  <1>10. Contents' = Append(Contents, x)
    <2>1. Contents' = [k \in 1 .. count + 1 |-> buf'[SlotOf(k)]]
      BY <1>3 DEF Contents, Push, TypeOK
    <2>2. Contents \in Seq(Items) /\ Len(Contents) = count
      BY DEF Contents, Occupied, TypeOK
    <2>3. \A k \in 1 .. count + 1 :
             buf'[SlotOf(k)] = IF k = count + 1 THEN x ELSE Contents[k]
      BY <1>2, <1>6, <1>7 DEF Contents, TypeOK
    <2>4. /\ Contents' \in Seq(Items) /\ Len(Contents') = count + 1
          /\ \A k \in 1 .. count + 1 : Contents'[k] = IF k = count + 1 THEN x ELSE Contents[k]
      BY <2>1, <2>2, <2>3 DEF TypeOK
    <2>5. /\ Append(Contents, x) \in Seq(Items) /\ Len(Append(Contents, x)) = count + 1
          /\ \A k \in 1 .. count + 1 :
                Append(Contents, x)[k] = IF k = count + 1 THEN x ELSE Contents[k]
      BY <2>2, AppendProperties DEF TypeOK
    <2> QED  BY <2>4, <2>5, SeqEqual
  <1> QED  BY <1>1, <1>5, <1>8, <1>9, <1>10

\* Pop brings every item but the oldest one place forward in the queue, and
\* leaves it in its slot.
LEMMA SlotsAfterPop ==
    ASSUME TypeOK, Pop
    PROVE  \A k \in 1 .. Capacity - 1 : SlotOf(k)' = SlotOf(k + 1)
  <1> TAKE k \in 1 .. Capacity - 1
  <1>1. head' = Lap(head + 1)
    BY IndexTypes, ModLap DEF Pop, Succ
  <1>2. head' \in Nat /\ head' < Capacity
    BY <1>1, IndexTypes DEF Lap
  <1>3. /\ (head' + k - 1) % Capacity = Lap(head' + k - 1)
        /\ (head + k) % Capacity = Lap(head + k)
    BY <1>2, IndexTypes, ModLap
  <1>4. (head' + k - 1) % Capacity = (head + k) % Capacity
    BY <1>1, <1>3, IndexTypes DEF Lap
  <1>5. head + (k + 1) - 1 = head + k
    BY IndexTypes
  <1> QED  BY <1>4, <1>5 DEF SlotOf

\* Pop removes the item Peek shows, the oldest, and keeps the invariant.
LEMMA PopStep ==
    ASSUME RingInv, Pop
    PROVE  /\ RingInv'
           /\ Contents # << >>
           /\ Peek = Head(Contents)
           /\ Contents' = Tail(Contents)
  <1> USE DEF RingInv
  <1>0. TypeOK
    OBVIOUS
  <1>1. TypeOK'
    <2>1. Succ(head) \in Slots  BY DEF TypeOK, Slots, Succ
    <2> QED  BY <2>1 DEF TypeOK, Pop, Slots
  <1>2. head = SlotOf(1)
    BY <1>0, ModLap DEF Lap, SlotOf, TypeOK, Slots
  <1>3. \A k \in 1 .. Capacity - 1 : SlotOf(k)' = SlotOf(k + 1)
    BY SlotsAfterPop
  <1>4. \A k \in 2 .. Capacity : SlotOf(k) # head
    BY <1>2, SlotsDiffer DEF TypeOK
  <1>5. TailAhead'
    <2>1. head' = Lap(head + 1) /\ tail = Lap(head + count)
      BY IndexTypes, ModLap DEF TailAhead, Pop, Succ
    <2>2. head' \in Nat /\ head' < Capacity /\ count > 0
      BY <2>1, IndexTypes DEF Lap, Pop
    <2>3. (head' + (count - 1)) % Capacity = Lap(head' + (count - 1))
      BY <2>2, IndexTypes, ModLap
    <2>4. tail = (head' + (count - 1)) % Capacity
      BY <2>1, <2>2, <2>3, IndexTypes DEF Lap
    <2> QED  BY <2>4 DEF TailAhead, Pop
  <1>6. \A k \in 2 .. count : buf'[SlotOf(k)] = buf[SlotOf(k)]
    BY <1>4 DEF Pop, TypeOK
  <1>7. Occupied'
    <2> SUFFICES ASSUME NEW k \in 1 .. count - 1
                 PROVE  buf'[SlotOf(k + 1)] \in Items
      BY <1>1, <1>3 DEF Occupied, Pop, TypeOK
    <2> QED  BY <1>6 DEF Occupied, TypeOK
  <1>8. Released'
    <2> SUFFICES ASSUME NEW i \in Slots, \A k \in 1 .. count - 1 : i # SlotOf(k + 1)
                 PROVE  buf'[i] = Zero
      <3>1. count' = count - 1 /\ count' \in Nat /\ count' <= Capacity - 1
        BY <1>0 DEF Pop, TypeOK
      <3>2. \A k \in 1 .. count - 1 : SlotOf(k)' = SlotOf(k + 1)
        BY <1>0, <1>3, <3>1 DEF TypeOK
      <3> QED  BY <3>1, <3>2 DEF Released, Slots
    <2>1. CASE i = head
      BY <2>1 DEF Pop, TypeOK
    <2>2. CASE i # head
      <3>1. \A k \in 2 .. count : i # SlotOf(k)
        <4> TAKE k \in 2 .. count
        <4>1. k - 1 \in 1 .. count - 1 /\ (k - 1) + 1 = k
          BY DEF TypeOK
        <4> QED  BY <4>1
      <3>2. \A k \in 1 .. count : i # SlotOf(k)
        BY <1>2, <2>2, <3>1 DEF TypeOK
      <3> QED  BY <2>2, <3>2 DEF Released, Pop, TypeOK
    <2> QED  BY <2>1, <2>2
  <1>9. /\ Contents \in Seq(Items) /\ Len(Contents) = count
        /\ Contents # << >>
        /\ Peek = Head(Contents)
    BY <1>2 DEF Contents, Occupied, TypeOK, Pop, Peek
  <1>10. Contents' = Tail(Contents)
    <2>1. Contents' = [k \in 1 .. count - 1 |-> buf'[SlotOf(k + 1)]]
      BY <1>3 DEF Contents, Pop, TypeOK
    <2>2. \A k \in 1 .. count - 1 : buf'[SlotOf(k + 1)] = Contents[k + 1]
      BY <1>6 DEF Contents, TypeOK
    <2>3. /\ Contents' \in Seq(Items) /\ Len(Contents') = count - 1
          /\ \A k \in 1 .. count - 1 : Contents'[k] = Contents[k + 1]
      BY <1>9, <2>1, <2>2 DEF TypeOK, Pop
    <2>4. /\ Tail(Contents) \in Seq(Items) /\ Len(Tail(Contents)) = count - 1
          /\ \A k \in 1 .. count - 1 : Tail(Contents)[k] = Contents[k + 1]
      BY <1>9, HeadTailProperties DEF TypeOK
    <2> QED  BY <2>3, <2>4, SeqEqual
  <1> QED  BY <1>1, <1>5, <1>7, <1>8, <1>9, <1>10

LEMMA NewRing == New => RingInv /\ Contents = << >>
  BY ModLap DEF Lap, New, RingInv, TypeOK, TailAhead, Released, Occupied, Contents, Slots

\* Whatever an owner pushes and pops, the indexes stay a queue's length apart,
\* no queued item is clobbered and no popped one is retained.
THEOREM RingSafety == Spec => []RingInv
  <1>1. New => RingInv
    BY NewRing
  <1>2. RingInv /\ [Next]_ringVars => RingInv'
    <2> SUFFICES ASSUME RingInv, [Next]_ringVars PROVE RingInv'
      OBVIOUS
    <2>1. ASSUME NEW x \in Items, Push(x) PROVE RingInv'
      BY <2>1, PushStep
    <2>2. CASE Pop
      BY <2>2, PopStep
    <2>3. CASE UNCHANGED ringVars
      BY <2>3 DEF ringVars, RingInv, TypeOK, TailAhead, Released, Occupied, SlotOf, Slots
    <2> QED  BY <2>1, <2>2, <2>3 DEF Next
  <1> QED  BY <1>1, <1>2, PTL DEF Spec

\* The variables of a ring keep their types.
THEOREM RingTypes == Spec => []TypeOK
  BY RingSafety, PTL DEF RingInv

\* The two indexes, which wrap each on its own, are the count apart.
THEOREM IndexesAgree == Spec => []TailAhead
  BY RingSafety, PTL DEF RingInv

\* No slot that is not in the queue holds on to an item that was popped.
THEOREM PoppedAreReleased == Spec => []Released
  BY RingSafety, PTL DEF RingInv

\* An item stays as it was pushed, in the slot it was pushed to, until it is
\* popped: the slot that Push writes is not in the queue before, and the one
\* that Pop clears is not in the queue after.
THEOREM QueuedAreHeld == Spec => QueuedStay
  <1>1. RingInv /\ [Next]_ringVars => [KeepsQueued]_ringVars
    <2> SUFFICES ASSUME RingInv, Next PROVE KeepsQueued
      BY DEF ringVars
    <2> USE DEF RingInv
    <2>1. ASSUME NEW x \in Items, Push(x) PROVE KeepsQueued
      <3>1. tail = SlotOf(count + 1) /\ count + 1 \in 1 .. Capacity
        BY <2>1 DEF TailAhead, SlotOf, TypeOK, Slots, Push
      <3>2. \A k \in 1 .. count : SlotOf(k) # tail
        BY <3>1, SlotsDiffer DEF TypeOK
      <3> QED  BY <2>1, <3>2, SlotsDiffer DEF KeepsQueued, QueuedSlots, Push, TypeOK
    <2>2. CASE Pop
      <3>1. head = SlotOf(1)
        BY ModLap DEF Lap, SlotOf, TypeOK, Slots
      <3>2. \A k \in 1 .. count' : SlotOf(k)' # head
        <4> TAKE k \in 1 .. count'
        <4>1. count' = count - 1 /\ k \in 1 .. Capacity - 1 /\ k + 1 \in 1 .. Capacity /\ k + 1 # 1
          BY <2>2 DEF Pop, TypeOK
        <4>2. SlotOf(k)' = SlotOf(k + 1)
          BY <2>2, <4>1, SlotsAfterPop
        <4>3. SlotOf(k + 1) # SlotOf(1)
          BY <4>1, SlotsDiffer, CapacityAssumption
        <4> QED  BY <3>1, <4>2, <4>3
      <3>3. head \notin QueuedSlots'
        BY <3>2 DEF QueuedSlots
      <3>4. \A i \in Slots : i # head => buf'[i] = buf[i]
        BY <2>2 DEF Pop, TypeOK
      <3>5. QueuedSlots \subseteq Slots
        BY SlotsDiffer DEF QueuedSlots, SlotOf, Slots, TypeOK
      <3> QED  BY <3>3, <3>4, <3>5 DEF KeepsQueued
    <2> QED  BY <2>1, <2>2 DEF Next
  <1> QED  BY <1>1, RingSafety, PTL DEF Spec, QueuedStay

\* The array behaves as a queue: first in, first out, never over capacity.
THEOREM RingImplementsFifo == Spec => FifoSpec
  <1>1. New => Fifo!Init
    BY NewRing DEF Fifo!Init
  <1>2. RingInv /\ [Next]_ringVars => [Fifo!Next]_Contents
    <2> SUFFICES ASSUME RingInv, [Next]_ringVars PROVE [Fifo!Next]_Contents
      OBVIOUS
    <2>1. ASSUME NEW x \in Items, Push(x) PROVE Fifo!Put(x)
      <3>1. Len(Contents) = count
        BY DEF Contents, RingInv, TypeOK
      <3> QED  BY <2>1, <3>1, PushStep DEF Fifo!Put, Push
    <2>2. CASE Pop
      BY <2>2, PopStep DEF Fifo!Next, Fifo!Take
    <2>3. CASE UNCHANGED ringVars
      BY <2>3 DEF ringVars, Contents, SlotOf
    <2> QED  BY <2>1, <2>2, <2>3 DEF Next, Fifo!Next
  <1> QED  BY <1>1, <1>2, RingSafety, PTL DEF Spec, FifoSpec, Fifo!Spec
=============================================================================
