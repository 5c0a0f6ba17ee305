------------------------------ MODULE RingBuf ------------------------------
(***************************************************************************)
(* ringbuf/ringbuf.go: a fixed-capacity, array-backed ring buffer.         *)
(*                                                                         *)
(* Push, Peek and Pop are "NOT concurrency-safe": one goroutine owns buf,  *)
(* head and tail.  count is an atomic that any goroutine may read through  *)
(* Len(), and is the last thing an operation writes.  To everyone but the  *)
(* owner an operation is therefore one step, that of count.                *)
(*                                                                         *)
(* An operation whose lo.Assert fails panics and changes nothing; here it  *)
(* is not enabled.  A module that uses the buffer shows, as an invariant,  *)
(* that it never calls one whose assertion would fail.                     *)
(***************************************************************************)
EXTENDS Integers, Sequences

CONSTANTS Capacity,  \* the argument of New
          Items,     \* what the caller may push
          Zero       \* the zero value of the element type

\* New panics unless capacity > 0.
ASSUME CapacityAssumption == Capacity \in Nat \ {0}

VARIABLES buf, head, tail, count

ringVars == <<buf, head, tail, count>>

Slots == 0 .. Capacity - 1

New ==
    /\ buf = [i \in Slots |-> Zero]
    /\ head = 0
    /\ tail = 0
    /\ count = 0

\* Mutant: no wrap.
SuccUnwrapped(i) == i + 1

Succ(i) == (i + 1) % Capacity

\* Mutant: writes after it advanced the index.
PushAhead(item) ==
    /\ count < Capacity
    /\ buf' = [buf EXCEPT ![Succ(tail)] = item]
    /\ tail' = Succ(tail)
    /\ count' = count + 1
    /\ UNCHANGED head

\* Mutant: takes one item too many.
PushWhenFull(item) ==
    /\ count <= Capacity
    /\ buf' = [buf EXCEPT ![tail] = item]
    /\ tail' = Succ(tail)
    /\ count' = count + 1
    /\ UNCHANGED head

Push(item) ==
    /\ count < Capacity                      \* "buffer must be non-full"
    /\ buf' = [buf EXCEPT ![tail] = item]
    /\ tail' = Succ(tail)
    /\ count' = count + 1
    /\ UNCHANGED head

Peek == buf[head]

\* Mutant: keeps the reference.
PopKeeping ==
    /\ count # 0
    /\ head' = Succ(head)
    /\ count' = count - 1
    /\ UNCHANGED <<buf, tail>>

\* Mutant: rewinds one index, not the other, when the ring gets empty.
PopRewinding ==
    /\ count # 0
    /\ buf' = [buf EXCEPT ![head] = Zero]
    /\ head' = IF count = 1 THEN 0 ELSE Succ(head)
    /\ count' = count - 1
    /\ UNCHANGED tail

Pop ==
    /\ count # 0                             \* "pop needs nonempty buffer"
    /\ buf' = [buf EXCEPT ![head] = Zero]    \* "release reference for GC"
    /\ head' = Succ(head)
    /\ count' = count - 1
    /\ UNCHANGED tail

Next == (\E x \in Items : Push(x)) \/ Pop

Spec == New /\ [][Next]_ringVars

-----------------------------------------------------------------------------
\* The slot of the k-th oldest item, the slots in use, and the items oldest first.
SlotOf(k) == (head + k - 1) % Capacity
QueuedSlots == {SlotOf(k) : k \in 1 .. count}
Contents == [k \in 1 .. count |-> buf[SlotOf(k)]]

TypeOK ==
    /\ buf \in [Slots -> Items \cup {Zero}]
    /\ head \in Slots
    /\ tail \in Slots
    /\ count \in 0 .. Capacity

\* The writer's index is always count slots ahead of the reader's, however
\* often either has wrapped: an index that wraps at the wrong place makes Push
\* overwrite an item nobody has popped yet.
TailAhead == tail = (head + count) % Capacity

\* The buffer keeps no reference to an item that was popped (the comment
\* "release reference for GC" in Pop): whatever is not in the queue is zero.
Released == \A i \in Slots : (\A k \in 1 .. count : i # SlotOf(k)) => buf[i] = Zero

\* Every slot of the queue holds an item, none is left empty.
Occupied == \A k \in 1 .. count : buf[SlotOf(k)] \in Items

RingInv == TypeOK /\ TailAhead /\ Released /\ Occupied

\* A slot that is queued before a step and after it holds the same item in
\* both: from the Push that fills it to the Pop that empties it, no other Push
\* or Pop, wherever the two indexes have wrapped to, writes to it.
KeepsQueued == \A i \in QueuedSlots \cap QueuedSlots' : buf'[i] = buf[i]

QueuedStay == [][KeepsQueued]_ringVars

-----------------------------------------------------------------------------
\* The array and its indexes behave as a bounded queue: what Pop removes, and
\* Peek shows, is always the oldest item pushed and not yet popped.
Fifo == INSTANCE BoundedFifo WITH q <- Contents
FifoSpec == Fifo!Spec
=============================================================================
