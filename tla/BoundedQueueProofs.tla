------------------------- MODULE BoundedQueueProofs -------------------------
(***************************************************************************)
(* Theorems about BoundedQueue, for every number of senders and receivers, *)
(* every limit, and every set of items and sizes.                          *)
(*                                                                         *)
(* Safe, the first inductive invariant, says what each place in the        *)
(* worker's code knows about the ring and about why the worker is there.   *)
(* It gives type correctness, RingAssertionsHold and the implementation of *)
(* BoundedChannel.  Accounting, the second, says what curMem is, modulo    *)
(* the overflows of an int64, and gives DrainedIsZero.  Books, the third,  *)
(* says what it counts up to when sizes cannot overflow, and gives         *)
(* BytesBounded.                                                           *)
(*                                                                         *)
(* The last part is about the stats function.  The worker's invariants say *)
(* that curMem is behind the ring by the entry it works on, and Lag that   *)
(* the difference is a true one: no overflow hides in it.  What the caller *)
(* loads is then right for the instant of its second load, which is in its *)
(* window.                                                                 *)
(***************************************************************************)
EXTENDS BoundedQueueStats, SequenceTheorems, WellFoundedInduction, TLAPS

RBP == INSTANCE RingBufProofs WITH
    Capacity <- MaxCount, Items <- bufferedItem, Zero <- ZeroItem

-----------------------------------------------------------------------------
(***************************************************************************)
(* The ring's lemmas, for the worker's ring.                               *)
(***************************************************************************)
LEMMA RingSame ==
    /\ RB!RingInv <=> RBP!RingInv
    /\ (RB!RingInv)' <=> (RBP!RingInv)'
    /\ RB!Contents = RBP!Contents
    /\ (RB!Contents)' = (RBP!Contents)'
    /\ \A x : RB!Push(x) <=> RBP!Push(x)
    /\ RB!Pop <=> RBP!Pop
    /\ RB!Peek = RBP!Peek
    /\ RB!New <=> RBP!New
  BY DEF RB!RingInv, RBP!RingInv, RB!Contents, RBP!Contents, RB!Push, RBP!Push,
         RB!Pop, RBP!Pop, RB!Peek, RBP!Peek, RB!New, RBP!New, RB!TypeOK, RBP!TypeOK,
         RB!TailAhead, RBP!TailAhead, RB!Released, RBP!Released, RB!Occupied,
         RBP!Occupied, RB!SlotOf, RBP!SlotOf, RB!Slots, RBP!Slots, RB!Succ, RBP!Succ

LEMMA RingNew == RB!New => RB!RingInv /\ Queued = << >>
  BY CountAssumption, RingSame, RBP!NewRing DEF Queued

LEMMA RingPush ==
    ASSUME RB!RingInv, NEW x \in bufferedItem, RB!Push(x)
    PROVE  RB!RingInv' /\ Queued' = Append(Queued, x)
  <1>1. RBP!RingInv /\ RBP!Push(x)
    BY RingSame
  <1>2. RBP!RingInv' /\ RBP!Contents' = Append(RBP!Contents, x)
    BY <1>1, CountAssumption, RBP!PushStep
  <1> QED  BY <1>2, RingSame DEF Queued

LEMMA RingPop ==
    ASSUME RB!RingInv, RB!Pop
    PROVE  /\ RB!RingInv'
           /\ Queued # << >> /\ RB!Peek = Head(Queued)
           /\ Queued' = Tail(Queued)
  <1>1. RBP!RingInv /\ RBP!Pop
    BY RingSame
  <1>2. /\ RBP!RingInv'
        /\ RBP!Contents # << >> /\ RBP!Peek = Head(RBP!Contents)
        /\ RBP!Contents' = Tail(RBP!Contents)
    BY <1>1, CountAssumption, RBP!PopStep
  <1> QED  BY <1>2, RingSame DEF Queued

LEMMA RingUnchanged ==
    ASSUME RB!RingInv, UNCHANGED ring
    PROVE  RB!RingInv' /\ Queued' = Queued
  BY DEF ring, Queued, RB!RingInv, RB!Contents, RB!TypeOK, RB!TailAhead, RB!Released,
         RB!Occupied, RB!SlotOf, RB!Slots

LEMMA QueuedType ==
    ASSUME RB!RingInv
    PROVE  /\ count \in 0 .. MaxCount
           /\ Queued \in Seq(bufferedItem) /\ Len(Queued) = count
           /\ count # 0 => Queued # << >> /\ RB!Peek = Head(Queued) /\ RB!Peek \in bufferedItem
  <1>1. count \in Nat /\ count <= MaxCount /\ head \in Nat /\ head < MaxCount
    BY CountAssumption DEF RB!RingInv, RB!TypeOK, RB!Slots
  <1>2. Queued \in Seq(bufferedItem) /\ Len(Queued) = count
    BY <1>1 DEF Queued, RB!Contents, RB!RingInv, RB!Occupied
  <1>3. ASSUME count # 0
        PROVE  Queued # << >> /\ RB!Peek = Head(Queued) /\ RB!Peek \in bufferedItem
    <2>1. RB!SlotOf(1) = head
      BY <1>1, CountAssumption DEF RB!SlotOf
    <2>2. Queued[1] = RB!Peek
      BY <1>1, <1>3, <2>1 DEF Queued, RB!Contents, RB!Peek
    <2> QED  BY <1>1, <1>2, <1>3, <2>2
  <1> QED  BY <1>1, <1>2, <1>3

LEMMA Int64AddType ==
    ASSUME NEW a \in Int, NEW b \in Int
    PROVE  Int64Add(a, b) \in -(MaxInt64 + 1) .. MaxInt64
  <1>1. MaxInt64 \in Nat
    BY MemAssumption
  <1>2. ASSUME NEW c \in Int, NEW n \in Nat, n > 0
        PROVE  c % n \in 0 .. n - 1
    BY <1>2
  <1> DEFINE span == 2 * (MaxInt64 + 1)
             c == a + b + MaxInt64 + 1
  <1>3. span \in Nat /\ span > 0 /\ c \in Int
    BY <1>1
  <1>4. c % span \in 0 .. span - 1
    BY <1>2, <1>3
  <1> QED  BY <1>1, <1>4 DEF Int64Add

-----------------------------------------------------------------------------
(***************************************************************************)
(* Safe: what the worker knows at each place in its code.                  *)
(***************************************************************************)
Looping  == Receiving \cup {"processItems", "drainOne", "push", "push-curMem"}
Popping  == {"pop", "pop-buf"}
Finished == {"done", "panic", "crashed"}

\* Why the worker is where it is.
WhyThere ==
    /\ pc \in Looping => shutdown = "no"
    /\ pc \in Popping => shutdown \in {"no", "input"}
    /\ pc = "flushRemaining" => shutdown = "input"
    /\ pc = "closeOut" => shutdown # "no"
    /\ pc = "done" => shutdown \in {"input", "ctx"}
    /\ pc \in {"panic", "crashed"} => shutdown = "panic"
    /\ shutdown = "ctx" => ctxDone
    /\ shutdown = "input" => inClosed
    /\ shutdown = "input" /\ pc \in {"closeOut", "done"} => count = 0
    /\ shutdown = "panic" => hand.item \in Items /\ \E s \in ItemSizes : s < 0
    /\ outClosed <=> pc \in Finished

\* What it has established about the ring, and the entry it holds.
Established ==
    /\ pc = "receiveItem" => count = 0
    /\ pc = "receiveOrSendNormal" => count < MaxCount
    /\ pc = "push" => hand.item \in Items
    /\ pc = "push-curMem" => /\ count # 0
                             /\ hand \in bufferedItem
                             /\ hand.size \in ItemSizes
                             /\ Queued[count] = hand

Safe ==
    /\ TypeOK /\ RB!RingInv
    /\ WhyThere
    /\ Established
    /\ RingAssertionsHold

LEMMA InitSafe == NewBoundedQueue => Safe
  <1> SUFFICES ASSUME NewBoundedQueue PROVE Safe
    OBVIOUS
  <1>1. RB!RingInv
    BY RingNew DEF NewBoundedQueue
  <1>2. TypeOK
    <2>1. RB!TypeOK /\ curMem \in -(MaxInt64 + 1) .. MaxInt64
      BY <1>1, MemAssumption DEF NewBoundedQueue, RB!RingInv
    <2>2. /\ sending \in [Producers -> Items \cup {NoItem}]
          /\ rx \in [Consumers -> {"idle", "receiving", "closed"}]
          /\ got \in [Consumers -> Items \cup {NoItem}]
      BY DEF NewBoundedQueue
    <2> QED  BY <2>1, <2>2 DEF NewBoundedQueue, TypeOK
  <1> QED  BY <1>1, <1>2 DEF NewBoundedQueue, Safe, WhyThere, Established,
                 RingAssertionsHold, Looping, Receiving, Popping, Finished

\* Steps that leave the ring and what surrounds it alone.
LEMMA UsersSafe ==
    ASSUME Safe, Users \/ UNCHANGED vars
    PROVE  Safe'
  <1> USE DEF Safe
  <1>1. UNCHANGED ring /\ UNCHANGED <<curMem, pc, hand, shutdown, outClosed>>
    BY DEF Users, StartSend, CloseIn, StartReceive, SeeClosed, Cancel, vars
  <1>2. RB!RingInv' /\ Queued' = Queued
    BY <1>1, RingUnchanged
  <1>3. /\ sending' \in [Producers -> Items \cup {NoItem}]
        /\ rx' \in [Consumers -> {"idle", "receiving", "closed"}]
        /\ got' \in [Consumers -> Items \cup {NoItem}]
        /\ inClosed' \in BOOLEAN /\ ctxDone' \in BOOLEAN
        /\ inClosed => inClosed'
        /\ ctxDone => ctxDone'
    BY DEF TypeOK, Users, StartSend, CloseIn, StartReceive, SeeClosed, Cancel, vars, users
  <1>4. TypeOK'
    BY <1>1, <1>2, <1>3 DEF TypeOK, RB!RingInv
  <1>5. WhyThere' /\ Established' /\ RingAssertionsHold'
    BY <1>1, <1>2, <1>3 DEF WhyThere, Established, RingAssertionsHold, ring
  <1> QED  BY <1>2, <1>4, <1>5

LEMMA WorkerSafe ==
    ASSUME Safe, Worker
    PROVE  Safe'
  <1> USE DEF Safe
  <1> DEFINE Places == WhyThere' /\ Established' /\ RingAssertionsHold'
  <1>0. MaxCount \in Nat \ {0} /\ MaxInt64 \in Nat /\ count \in 0 .. MaxCount
    BY CountAssumption, MemAssumption, QueuedType
  \* The steps that leave the ring alone.
  <1>1. ASSUME UNCHANGED ring PROVE RB!RingInv' /\ Queued' = Queued /\ count' = count
    BY <1>1, RingUnchanged DEF ring
  <1>2. CASE processItems
    <2>1. Places
      BY <1>0, <1>1, <1>2 DEF processItems, AtLimit, WhyThere, Established, RingAssertionsHold,
           Looping, Receiving, Popping, Finished, users
    <2>2. TypeOK'
      BY <1>1, <1>2 DEF processItems, TypeOK, RB!RingInv, users, Selecting, Receiving, Sending
    <2> QED  BY <1>1, <1>2, <2>1, <2>2 DEF processItems
  <1>3. CASE SelectDone
    <2>1. Places
      BY <1>0, <1>1, <1>3 DEF SelectDone, WhyThere, Established, RingAssertionsHold,
           Looping, Receiving, Popping, Finished, users, Selecting, Sending
    <2>2. TypeOK'
      BY <1>1, <1>3 DEF SelectDone, TypeOK, RB!RingInv, users, Selecting, Receiving, Sending
    <2> QED  BY <1>1, <1>3, <2>1, <2>2 DEF SelectDone
  <1>4. CASE SelectInClosed
    <2>1. Places
      BY <1>0, <1>1, <1>4 DEF SelectInClosed, WhyThere, Established, RingAssertionsHold,
           Looping, Receiving, Popping, Finished, users
    <2>2. TypeOK'
      BY <1>1, <1>4 DEF SelectInClosed, TypeOK, RB!RingInv, users, Selecting, Receiving, Sending
    <2> QED  BY <1>1, <1>4, <2>1, <2>2 DEF SelectInClosed
  <1>5. ASSUME NEW p \in Producers, SelectReceive(p) PROVE Safe'
    <2>1. sending[p] \in Items
      BY <1>5 DEF SelectReceive, TypeOK
    <2>2. hand' \in bufferedItem /\ hand'.item \in Items
      BY <1>0, <1>5, <2>1 DEF SelectReceive, bufferedItem
    <2>3. Places
      BY <1>0, <1>1, <1>5, <2>2 DEF SelectReceive, WhyThere, Established, RingAssertionsHold,
           Looping, Receiving, Popping, Finished
    <2>4. TypeOK'
      BY <1>1, <1>5, <2>2 DEF SelectReceive, TypeOK, RB!RingInv
    <2> QED  BY <1>1, <1>5, <2>3, <2>4 DEF SelectReceive
  <1>6. ASSUME NEW c \in Consumers, SelectSend(c) PROVE Safe'
    <2>1. count # 0
      BY <1>6 DEF SelectSend, RingAssertionsHold, Sending
    <2>2. RB!Peek.item \in Items
      BY <2>1, QueuedType DEF bufferedItem
    <2>3. Places
      BY <1>0, <1>1, <1>6, <2>1 DEF SelectSend, WhyThere, Established, RingAssertionsHold,
           Looping, Receiving, Sending, Popping, Finished
    <2>4. TypeOK'
      BY <1>1, <1>6, <2>2 DEF SelectSend, TypeOK, RB!RingInv
    <2> QED  BY <1>1, <1>6, <2>3, <2>4 DEF SelectSend
  <1>7. CASE Flushed
    <2>1. Places
      BY <1>0, <1>1, <1>7 DEF Flushed, WhyThere, Established, RingAssertionsHold,
           Looping, Receiving, Popping, Finished, users
    <2>2. TypeOK'
      BY <1>1, <1>7 DEF Flushed, TypeOK, RB!RingInv, users
    <2> QED  BY <1>1, <1>7, <2>1, <2>2 DEF Flushed
  <1>8. ASSUME NEW s \in ItemSizes, push(s) PROVE Safe'
    <2>1. CASE s < 0
      <3>1. Places
        BY <1>0, <1>1, <1>8, <2>1 DEF push, WhyThere, Established, RingAssertionsHold,
             Looping, Receiving, Popping, Finished, users
      <3>2. TypeOK'
        BY <1>1, <1>8, <2>1 DEF push, TypeOK, RB!RingInv, users
      <3> QED  BY <1>1, <1>8, <2>1, <3>1, <3>2 DEF push
    <2>2. CASE ~(s < 0)
      <3>0. pc = "push" /\ pc' = "push-curMem" /\ UNCHANGED <<curMem, users, outClosed, shutdown>>
        BY <1>8, <2>2 DEF push
      <3>1. hand' \in bufferedItem /\ hand'.size = s
        <4>1. hand \in [item : Items \cup {NoItem}, size : Int] /\ hand.item \in Items
          BY <3>0 DEF TypeOK, Established, bufferedItem, ZeroItem
        <4>2. s \in 0 .. MaxInt64
          BY <1>0, <2>2, SizeAssumption
        <4>3. hand' = [hand EXCEPT !.size = s]
          BY <1>8, <2>2 DEF push
        <4> QED  BY <4>1, <4>2, <4>3 DEF bufferedItem
      <3>2. RB!Push(hand')
        BY <1>8, <2>2 DEF push
      <3>3. RB!RingInv' /\ Queued' = Append(Queued, hand') /\ count' = count + 1
        BY <3>1, <3>2, RingPush DEF RB!Push
      <3>4. Queued'[count'] = hand'
        BY <1>0, <3>1, <3>3, QueuedType, AppendProperties
      <3>5. Places
        BY <1>0, <3>0, <3>1, <3>3, <3>4 DEF WhyThere, Established, RingAssertionsHold,
             Looping, Receiving, Popping, Finished, users
      <3>6. TypeOK'
        BY <3>0, <3>1, <3>3 DEF TypeOK, RB!RingInv, users
      <3> QED  BY <3>3, <3>5, <3>6
    <2> QED  BY <2>1, <2>2
  <1>9. CASE pushCurMem
    <2>1. Places
      BY <1>0, <1>1, <1>9 DEF pushCurMem, WhyThere, Established, RingAssertionsHold,
           Looping, Receiving, Popping, Finished, users
    <2>2. curMem' \in -(MaxInt64 + 1) .. MaxInt64
      BY <1>0, <1>9, Int64AddType DEF pushCurMem, TypeOK, Established, bufferedItem
    <2>3. TypeOK'
      BY <1>1, <1>9, <2>2 DEF pushCurMem, TypeOK, RB!RingInv, users
    <2> QED  BY <1>1, <1>9, <2>1, <2>3 DEF pushCurMem
  <1>10. CASE pop
    <2>1. Places
      BY <1>0, <1>1, <1>10 DEF pop, WhyThere, Established, RingAssertionsHold,
           Looping, Receiving, Popping, Finished, users
    <2>2. RB!Peek.size \in 0 .. MaxInt64
      BY <1>10, QueuedType DEF pop, RingAssertionsHold, bufferedItem
    <2>3. curMem' \in -(MaxInt64 + 1) .. MaxInt64
      <3>1. curMem \in Int /\ -RB!Peek.size \in Int
        BY <1>0, <2>2 DEF TypeOK
      <3> QED  BY <1>10, <3>1, Int64AddType DEF pop
    <2>4. TypeOK'
      BY <1>1, <1>10, <2>3 DEF pop, TypeOK, RB!RingInv, users
    <2> QED  BY <1>1, <1>10, <2>1, <2>4 DEF pop
  <1>11. CASE popBuf
    <2>1. RB!RingInv' /\ UNCHANGED <<curMem, hand, shutdown, users, outClosed>> /\ pc = "pop-buf"
      BY <1>11, RingPop DEF popBuf
    <2>2. Places
      BY <1>0, <1>11, <2>1 DEF popBuf, WhyThere, Established, RingAssertionsHold,
           Looping, Receiving, Popping, Finished, users
    <2>3. TypeOK'
      BY <1>11, <2>1 DEF popBuf, TypeOK, RB!RingInv, users, Selecting, Sending
    <2> QED  BY <2>1, <2>2, <2>3
  <1>12. CASE closeOut
    <2>0. shutdown \in {"no", "input", "ctx", "panic"}
      BY DEF TypeOK
    <2>1. Places
      BY <1>0, <1>1, <1>12, <2>0 DEF closeOut, WhyThere, Established, RingAssertionsHold,
           Looping, Receiving, Popping, Finished, users
    <2>2. TypeOK'
      BY <1>1, <1>12 DEF closeOut, TypeOK, RB!RingInv, users
    <2> QED  BY <1>1, <1>12, <2>1, <2>2 DEF closeOut
  <1>13. CASE crash
    <2>1. Places
      BY <1>0, <1>1, <1>13 DEF crash, WhyThere, Established, RingAssertionsHold,
           Looping, Receiving, Popping, Finished, users
    <2>2. TypeOK'
      BY <1>1, <1>13 DEF crash, TypeOK, RB!RingInv, users
    <2> QED  BY <1>1, <1>13, <2>1, <2>2 DEF crash
  <1> QED  BY <1>2, <1>3, <1>4, <1>5, <1>6, <1>7, <1>8, <1>9, <1>10, <1>11, <1>12, <1>13
             DEF Worker, Step

LEMMA AlwaysSafe == Spec => []Safe
  <1>1. Safe /\ [Next]_vars => Safe'
    BY UsersSafe, WorkerSafe DEF Next
  <1> QED  BY <1>1, InitSafe, PTL DEF Spec

\* Whatever is sent, received, closed, cancelled and sized, every variable
\* keeps its type: in particular the ring's indexes stay in the array.
THEOREM TypeCorrect == Spec => []TypeOK
  BY AlwaysSafe, PTL DEF Safe

\* The worker never pushes to a full ring, nor peeks or pops an empty one: the
\* assertions in ringbuf never end the process.
THEOREM NoRingPanic == Spec => []RingAssertionsHold
  BY AlwaysSafe, PTL DEF Safe

-----------------------------------------------------------------------------
(***************************************************************************)
(* The worker implements the channel.                                      *)
(***************************************************************************)
LEMMA ItemsOfType ==
    ASSUME NEW s \in Seq(bufferedItem)
    PROVE  /\ ItemsOf(s) \in Seq(Items)
           /\ Len(ItemsOf(s)) = Len(s)
           /\ \A k \in 1 .. Len(s) : ItemsOf(s)[k] = s[k].item
  <1>1. ItemsOf(s) = [k \in 1 .. Len(s) |-> s[k].item]
    BY DEF ItemsOf
  <1>2. \A k \in 1 .. Len(s) : s[k] \in bufferedItem /\ s[k].item \in Items
    <2> TAKE k \in 1 .. Len(s)
    <2>1. s[k] \in bufferedItem
      BY ElementOfSeq
    <2> QED  BY <2>1 DEF bufferedItem
  <1> QED  BY <1>1, <1>2

LEMMA ItemsOfAppend ==
    ASSUME NEW s \in Seq(bufferedItem), NEW e \in bufferedItem
    PROVE  ItemsOf(Append(s, e)) = Append(ItemsOf(s), e.item)
  <1>1. e.item \in Items
    BY DEF bufferedItem
  <1>2. /\ ItemsOf(s) \in Seq(Items) /\ Len(ItemsOf(s)) = Len(s)
        /\ \A k \in 1 .. Len(s) : ItemsOf(s)[k] = s[k].item
    BY ItemsOfType
  <1>3. /\ Append(s, e) \in Seq(bufferedItem) /\ Len(Append(s, e)) = Len(s) + 1
        /\ \A k \in 1 .. Len(s) : Append(s, e)[k] = s[k]
        /\ Append(s, e)[Len(s) + 1] = e
    BY AppendProperties
  <1>4. /\ ItemsOf(Append(s, e)) \in Seq(Items)
        /\ Len(ItemsOf(Append(s, e))) = Len(s) + 1
        /\ \A k \in 1 .. Len(s) + 1 : ItemsOf(Append(s, e))[k] = Append(s, e)[k].item
    BY <1>3, ItemsOfType
  <1>5. /\ Append(ItemsOf(s), e.item) \in Seq(Items)
        /\ Len(Append(ItemsOf(s), e.item)) = Len(s) + 1
        /\ \A k \in 1 .. Len(s) : Append(ItemsOf(s), e.item)[k] = s[k].item
        /\ Append(ItemsOf(s), e.item)[Len(s) + 1] = e.item
    BY <1>1, <1>2, AppendProperties
  <1>6. Len(s) \in Nat
    OBVIOUS
  <1>7. \A k \in 1 .. Len(s) + 1 :
           ItemsOf(Append(s, e))[k] = Append(ItemsOf(s), e.item)[k]
    BY <1>3, <1>4, <1>5, <1>6
  <1> QED  BY <1>4, <1>5, <1>7, SeqEqual

LEMMA ItemsOfTail ==
    ASSUME NEW s \in Seq(bufferedItem), s # << >>
    PROVE  /\ ItemsOf(s) # << >>
           /\ Head(ItemsOf(s)) = Head(s).item
           /\ Tail(ItemsOf(s)) = ItemsOf(Tail(s))
  <1>1. /\ ItemsOf(s) \in Seq(Items) /\ Len(ItemsOf(s)) = Len(s)
        /\ \A k \in 1 .. Len(s) : ItemsOf(s)[k] = s[k].item
    BY ItemsOfType
  <1>2. /\ Tail(s) \in Seq(bufferedItem) /\ Len(Tail(s)) = Len(s) - 1
        /\ \A k \in 1 .. Len(s) - 1 : Tail(s)[k] = s[k + 1]
    BY HeadTailProperties
  <1>3. Len(s) \in Nat /\ Len(s) > 0
    BY EmptySeq
  <1>4. ItemsOf(s) # << >> /\ Head(ItemsOf(s)) = Head(s).item
    BY <1>1, <1>3
  <1>5. /\ Tail(ItemsOf(s)) \in Seq(Items) /\ Len(Tail(ItemsOf(s))) = Len(s) - 1
        /\ \A k \in 1 .. Len(s) - 1 : Tail(ItemsOf(s))[k] = ItemsOf(s)[k + 1]
    BY <1>1, <1>4, HeadTailProperties
  <1>6. /\ ItemsOf(Tail(s)) \in Seq(Items) /\ Len(ItemsOf(Tail(s))) = Len(s) - 1
        /\ \A k \in 1 .. Len(s) - 1 : ItemsOf(Tail(s))[k] = Tail(s)[k].item
    BY <1>2, ItemsOfType
  <1>7. \A k \in 1 .. Len(s) - 1 : Tail(ItemsOf(s))[k] = ItemsOf(Tail(s))[k]
    BY <1>1, <1>2, <1>3, <1>5, <1>6
  <1> QED  BY <1>4, <1>5, <1>6, <1>7, SeqEqual

LEMMA InitChannel == NewBoundedQueue => Channel!Init
  <1> SUFFICES ASSUME NewBoundedQueue PROVE Channel!Init
    OBVIOUS
  <1>1. Queued = << >>
    BY RingNew DEF NewBoundedQueue
  <1>2. ItemsOf(Undelivered) = << >>
    BY <1>1 DEF NewBoundedQueue, Undelivered, ItemsOf
  <1> QED  BY <1>2 DEF NewBoundedQueue, Channel!Init

LEMMA UsersChannel ==
    ASSUME Safe, Users \/ UNCHANGED vars
    PROVE  [Channel!Next]_(Channel!chanVars)
  <1>1. UNCHANGED ring /\ UNCHANGED <<pc, hand, shutdown, outClosed>>
    BY DEF Users, StartSend, CloseIn, StartReceive, SeeClosed, Cancel, vars
  <1>2. ItemsOf(Undelivered)' = ItemsOf(Undelivered)
    BY <1>1, RingUnchanged DEF Safe, Undelivered, ItemsOf
  <1>3. ASSUME NEW p \in Producers, NEW x \in Items, StartSend(p, x)
        PROVE  Channel!StartSend(p, x)
    BY <1>1, <1>2, <1>3 DEF StartSend, Channel!StartSend
  <1>4. CASE CloseIn
    BY <1>1, <1>2, <1>4 DEF CloseIn, Channel!CloseIn, Channel!Next
  <1>5. ASSUME NEW c \in Consumers, StartReceive(c)
        PROVE  Channel!StartReceive(c)
    BY <1>1, <1>2, <1>5 DEF StartReceive, Channel!StartReceive
  <1>6. ASSUME NEW c \in Consumers, SeeClosed(c)
        PROVE  Channel!SeeClosed(c)
    BY <1>1, <1>2, <1>6 DEF SeeClosed, Channel!SeeClosed
  <1>7. CASE Cancel
    BY <1>1, <1>2, <1>7 DEF Cancel, Channel!Cancel, Channel!Next
  <1>8. CASE UNCHANGED vars
    BY <1>1, <1>2, <1>8 DEF vars, users, Channel!chanVars
  <1> QED  BY <1>3, <1>4, <1>5, <1>6, <1>7, <1>8 DEF Users, Channel!Next

LEMMA WorkerChannel ==
    ASSUME Safe, Worker
    PROVE  [Channel!Next]_(Channel!chanVars)
  <1> USE DEF Safe
  <1>0. /\ MaxCount \in Nat \ {0} /\ MaxInt64 \in Nat /\ count \in 0 .. MaxCount
        /\ Queued \in Seq(bufferedItem) /\ Len(Queued) = count
    BY CountAssumption, MemAssumption, QueuedType
  <1>1. ASSUME UNCHANGED ring PROVE Queued' = Queued
    BY <1>1, RingUnchanged
  \* A step that neither users nor `out` notice, and that leaves the items
  \* under way the same, is a stuttering step of the channel.
  <1>2. ASSUME UNCHANGED <<users, outClosed>>, ItemsOf(Undelivered)' = ItemsOf(Undelivered),
               (shutdown' = "panic") = (shutdown = "panic")
        PROVE  UNCHANGED Channel!chanVars
    BY <1>2 DEF users, Channel!chanVars
  <1>3. ASSUME processItems \/ SelectDone \/ SelectInClosed \/ Flushed \/ pushCurMem \/ crash
        PROVE  UNCHANGED Channel!chanVars
    <2>1. Undelivered' = Undelivered /\ (shutdown' = "panic") = (shutdown = "panic")
      BY <1>1, <1>3 DEF processItems, SelectDone, SelectInClosed, Flushed, pushCurMem, crash,
         Undelivered, WhyThere, Looping, Popping, Finished, Selecting, Receiving, Sending
    <2>2. UNCHANGED <<users, outClosed>>
      BY <1>3 DEF processItems, SelectDone, SelectInClosed, Flushed, pushCurMem, crash
    <2> QED  BY <1>2, <2>1, <2>2 DEF ItemsOf
  <1>4. ASSUME NEW p \in Producers, SelectReceive(p) PROVE Channel!Accept(p)
    <2>1. /\ shutdown = "no" /\ ~outClosed /\ count < MaxCount
          /\ Undelivered = Queued
      BY <1>0, <1>4 DEF SelectReceive, WhyThere, Established, Looping, Receiving, Finished, Undelivered
    <2>2. hand' \in bufferedItem /\ hand'.item = sending[p]
      BY <1>0, <1>4 DEF SelectReceive, bufferedItem, TypeOK
    <2>3. Undelivered' = Append(Queued, hand')
      BY <1>1, <1>4 DEF SelectReceive, Undelivered
    <2>4. ItemsOf(Undelivered)' = Append(ItemsOf(Undelivered), sending[p])
      BY <1>0, <2>1, <2>2, <2>3, ItemsOfAppend DEF ItemsOf
    <2>5. Len(ItemsOf(Undelivered)) < MaxCount
      BY <1>0, <2>1, ItemsOfType
    <2> QED  BY <1>4, <2>1, <2>4, <2>5 DEF SelectReceive, Channel!Accept
  <1>5. ASSUME NEW c \in Consumers, SelectSend(c) PROVE Channel!Deliver(c)
    <2>1. shutdown # "panic" /\ ~outClosed /\ count # 0 /\ Undelivered = Queued
      BY <1>5 DEF SelectSend, WhyThere, RingAssertionsHold, Looping, Receiving, Sending, Finished, Undelivered
    <2>2. Undelivered' = Tail(Queued)
      <3>1. UNCHANGED ring /\ pc' = "pop" /\ shutdown' # "panic"
        BY <1>5, <2>1 DEF SelectSend
      <3> QED  BY <1>1, <3>1 DEF Undelivered
    <2>3. /\ ItemsOf(Undelivered) # << >>
          /\ Head(ItemsOf(Undelivered)) = RB!Peek.item
          /\ ItemsOf(Undelivered)' = Tail(ItemsOf(Undelivered))
      BY <1>0, <2>1, <2>2, ItemsOfTail, QueuedType DEF ItemsOf
    <2> QED  BY <1>5, <2>1, <2>3 DEF SelectSend, Channel!Deliver
  <1>6. ASSUME NEW s \in ItemSizes, push(s) PROVE [Channel!Next]_(Channel!chanVars)
    <2>1. /\ pc = "push" /\ shutdown = "no" /\ ~outClosed
          /\ hand \in bufferedItem
          /\ Undelivered = Append(Queued, hand)
      BY <1>0, <1>6 DEF push, WhyThere, Established, Looping, Finished, Undelivered,
         TypeOK, bufferedItem, ZeroItem
    <2>2. CASE s < 0
      <3>1. Undelivered' = Undelivered
        BY <1>1, <1>6, <2>1, <2>2 DEF push, Undelivered
      <3>2. ItemsOf(Undelivered) # << >>
        <4>1. Undelivered \in Seq(bufferedItem) /\ Len(Undelivered) = count + 1
          BY <1>0, <2>1, AppendProperties
        <4>2. Len(ItemsOf(Undelivered)) = count + 1
          BY <4>1, ItemsOfType
        <4> QED  BY <1>0, <4>2
      <3>3. Channel!Fail
        BY <1>6, <2>1, <2>2, <3>1, <3>2 DEF push, users, ItemsOf, Channel!Fail
      <3> QED  BY <3>3 DEF Channel!Next
    <2>3. CASE ~(s < 0)
      <3>0. s \in 0 .. MaxInt64
        BY <1>0, <2>3, SizeAssumption
      <3>1. hand' \in bufferedItem /\ hand'.item = hand.item /\ RB!Push(hand')
        BY <1>6, <2>1, <2>3, <3>0 DEF push, bufferedItem
      <3>2. pc' = "push-curMem" /\ shutdown' = "no" /\ UNCHANGED <<users, outClosed>>
        BY <1>6, <2>1, <2>3 DEF push
      <3>3. Undelivered' = Append(Queued, hand')
        BY <3>1, <3>2, RingPush DEF Undelivered
      <3>4. ItemsOf(Undelivered)' = ItemsOf(Undelivered)
        BY <1>0, <2>1, <3>1, <3>3, ItemsOfAppend DEF ItemsOf
      <3> QED  BY <1>2, <2>1, <3>2, <3>4
    <2> QED  BY <2>2, <2>3
  <1>7. ASSUME pop PROVE UNCHANGED Channel!chanVars
    <2>1. Undelivered' = Undelivered
      BY <1>1, <1>7 DEF pop, Undelivered
    <2> QED  BY <1>2, <1>7, <2>1 DEF pop, ItemsOf
  <1>8. ASSUME popBuf PROVE UNCHANGED Channel!chanVars
    <2>1. /\ Queued' = Tail(Queued) /\ pc = "pop-buf"
          /\ UNCHANGED <<hand, shutdown, users, outClosed>>
          /\ pc' \in {"flushRemaining", "processItems"}
      BY <1>8, RingPop DEF popBuf
    <2>2. Undelivered' = Undelivered
      BY <2>1 DEF Undelivered, WhyThere, Popping
    <2> QED  BY <1>2, <2>1, <2>2 DEF ItemsOf
  <1>9. ASSUME closeOut PROVE Channel!CloseOut
    <2>1. /\ Undelivered' = Undelivered /\ ~outClosed
          /\ (shutdown' = "panic") = (shutdown = "panic")
      BY <1>1, <1>9 DEF closeOut, Undelivered, WhyThere, Finished
    <2>2. (inClosed /\ ItemsOf(Undelivered) = << >>) \/ ctxDone \/ shutdown = "panic"
      <3>1. CASE shutdown = "input"
        <4>1. Undelivered = Queued /\ count = 0 /\ inClosed
          BY <1>9, <3>1 DEF closeOut, Undelivered, WhyThere
        <4>2. ItemsOf(Undelivered) \in Seq(Items) /\ Len(ItemsOf(Undelivered)) = 0
          BY <1>0, <4>1, ItemsOfType
        <4> QED  BY <4>1, <4>2, EmptySeq
      <3>2. CASE shutdown # "input"
        BY <1>9, <3>2 DEF closeOut, WhyThere, TypeOK
      <3> QED  BY <3>1, <3>2
    <2> QED  BY <1>9, <2>1, <2>2 DEF closeOut, users, ItemsOf, Channel!CloseOut
  <1> QED  BY <1>3, <1>4, <1>5, <1>6, <1>7, <1>8, <1>9 DEF Worker, Step, Channel!Next

\* The queue behaves as one bounded FIFO channel between its senders and its
\* receivers: no step of the worker loses, repeats or reorders an item, and
\* `out` closes early only after a cancellation or a panic.
THEOREM QueueImplementsChannel == Spec => ChannelSpec
  <1>1. Safe /\ [Next]_vars => [Channel!Next]_(Channel!chanVars)
    BY UsersChannel, WorkerChannel DEF Next
  <1> QED  BY <1>1, InitChannel, AlwaysSafe, PTL DEF Spec, ChannelSpec, Channel!Spec

-----------------------------------------------------------------------------
(***************************************************************************)
(* Accounting: what curMem is, whether or not the sums overflow.  What     *)
(* Total computes is found by induction, in the form that every set of     *)
(* natural numbers that is not empty has a least one.                      *)
(***************************************************************************)
LEMMA LeastNat ==
    ASSUME NEW T \in SUBSET Nat, T # {}
    PROVE  \E m \in T : \A j \in T : m <= j
  <1> DEFINE R == OpToRel(<, Nat)
  <1>1. \E m \in T : \A j \in T : ~(<<j, m>> \in R)
    <2> HIDE DEF R
    <2> QED  BY NatLessThanWellFounded, WFMin DEF R
  <1>2. \A m, j \in T : ~(<<j, m>> \in R) => m <= j
    BY DEF OpToRel
  <1> QED  BY <1>1, <1>2

Int64 == -(MaxInt64 + 1) .. MaxInt64

\* Two's complement goes round at most once when two numbers are added.
LEMMA Int64AddCases ==
    ASSUME NEW a \in Int64, NEW b \in Int64
    PROVE  Int64Add(a, b) = IF a + b > MaxInt64 THEN a + b - 2 * (MaxInt64 + 1)
                            ELSE IF a + b < -(MaxInt64 + 1) THEN a + b + 2 * (MaxInt64 + 1)
                            ELSE a + b
  <1>1. MaxInt64 \in Nat /\ a \in Int /\ b \in Int
    BY MemAssumption DEF Int64
  <1> DEFINE span == 2 * (MaxInt64 + 1)
             c == a + b + MaxInt64 + 1
  <1>2. /\ span \in Nat /\ span > 0 /\ c \in Int
        /\ c >= -span /\ c < 2 * span
    BY <1>1 DEF Int64
  <1>3. ASSUME NEW n \in Nat, n > 0, NEW x \in Int
        PROVE  /\ x \in 0 .. n - 1 => x % n = x
               /\ x \in n .. 2 * n - 1 => x % n = x - n
               /\ x \in -n .. -1 => x % n = x + n
    <2>1. x \in 0 .. n - 1 => x % n = x
      BY <1>3
    <2>2. x \in n .. 2 * n - 1 => x % n = x - n
      BY <1>3
    <2>3. x \in -n .. -1 => x % n = x + n
      BY <1>3
    <2> QED  BY <2>1, <2>2, <2>3
  <1>4. Int64Add(a, b) = (c % span) - (MaxInt64 + 1)
    BY DEF Int64Add
  <1>5. c % span = IF c >= span THEN c - span ELSE IF c < 0 THEN c + span ELSE c
    <2> HIDE DEF c, span
    <2>1. c \in 0 .. span - 1 \/ c \in span .. 2 * span - 1 \/ c \in -span .. -1
      BY <1>2
    <2> QED  BY <1>2, <1>3, <2>1
  <1> QED  BY <1>1, <1>4, <1>5

\* Where the sum goes, for numbers that are named.
LEMMA Int64AddTo ==
    ASSUME NEW a \in Int64, NEW b \in Int64, NEW x, x = Int64Add(a, b)
    PROVE  /\ x \in Int64
           /\ \/ x = a + b
              \/ a + b > MaxInt64 /\ x = a + b - 2 * (MaxInt64 + 1)
              \/ a + b < -(MaxInt64 + 1) /\ x = a + b + 2 * (MaxInt64 + 1)
  <1>1. MaxInt64 \in Nat /\ a \in Int /\ b \in Int
    BY MemAssumption DEF Int64
  <1>2. x = IF a + b > MaxInt64 THEN a + b - 2 * (MaxInt64 + 1)
            ELSE IF a + b < -(MaxInt64 + 1) THEN a + b + 2 * (MaxInt64 + 1)
            ELSE a + b
    BY Int64AddCases
  <1> QED  BY <1>1, <1>2 DEF Int64

\* What is added can be taken away again, in any order, wherever the sum went.
LEMMA Int64AddLaws ==
    ASSUME NEW a \in Int64, NEW b \in 0 .. MaxInt64, NEW c \in 0 .. MaxInt64
    PROVE  /\ Int64Add(a, b) \in Int64 /\ Int64Add(a, -b) \in Int64
           /\ Int64Add(Int64Add(a, b), -b) = a
           /\ Int64Add(Int64Add(a, -b), b) = a
           /\ Int64Add(Int64Add(a, b), -c) = Int64Add(Int64Add(a, -c), b)
  <1>1. MaxInt64 \in Nat /\ b \in Int64 /\ c \in Int64 /\ -b \in Int64 /\ -c \in Int64
    BY MemAssumption DEF Int64
  <1>2. PICK x, y, z : x = Int64Add(a, b) /\ y = Int64Add(a, -b) /\ z = Int64Add(a, -c)
    OBVIOUS
  <1>3. PICK xb, yb, xc, zb : /\ xb = Int64Add(x, -b) /\ yb = Int64Add(y, b)
                              /\ xc = Int64Add(x, -c) /\ zb = Int64Add(z, b)
    OBVIOUS
  <1>4. /\ x \in Int64
        /\ \/ x = a + b
           \/ a + b > MaxInt64 /\ x = a + b - 2 * (MaxInt64 + 1)
           \/ a + b < -(MaxInt64 + 1) /\ x = a + b + 2 * (MaxInt64 + 1)
    BY <1>1, <1>2, Int64AddTo
  <1>5. /\ y \in Int64
        /\ \/ y = a + -b
           \/ a + -b > MaxInt64 /\ y = a + -b - 2 * (MaxInt64 + 1)
           \/ a + -b < -(MaxInt64 + 1) /\ y = a + -b + 2 * (MaxInt64 + 1)
    BY <1>1, <1>2, Int64AddTo
  <1>6. /\ z \in Int64
        /\ \/ z = a + -c
           \/ a + -c > MaxInt64 /\ z = a + -c - 2 * (MaxInt64 + 1)
           \/ a + -c < -(MaxInt64 + 1) /\ z = a + -c + 2 * (MaxInt64 + 1)
    BY <1>1, <1>2, Int64AddTo
  <1>7. xb = a
    <2>1. /\ xb \in Int64
          /\ \/ xb = x + -b
             \/ x + -b > MaxInt64 /\ xb = x + -b - 2 * (MaxInt64 + 1)
             \/ x + -b < -(MaxInt64 + 1) /\ xb = x + -b + 2 * (MaxInt64 + 1)
      BY <1>1, <1>3, <1>4, Int64AddTo
    <2> QED  BY <1>1, <1>4, <2>1 DEF Int64
  <1>8. yb = a
    <2>1. /\ yb \in Int64
          /\ \/ yb = y + b
             \/ y + b > MaxInt64 /\ yb = y + b - 2 * (MaxInt64 + 1)
             \/ y + b < -(MaxInt64 + 1) /\ yb = y + b + 2 * (MaxInt64 + 1)
      BY <1>1, <1>3, <1>5, Int64AddTo
    <2> QED  BY <1>1, <1>5, <2>1 DEF Int64
  <1>9. xc = zb
    <2>1. /\ xc \in Int64
          /\ \/ xc = x + -c
             \/ x + -c > MaxInt64 /\ xc = x + -c - 2 * (MaxInt64 + 1)
             \/ x + -c < -(MaxInt64 + 1) /\ xc = x + -c + 2 * (MaxInt64 + 1)
      BY <1>1, <1>3, <1>4, Int64AddTo
    <2>2. /\ zb \in Int64
          /\ \/ zb = z + b
             \/ z + b > MaxInt64 /\ zb = z + b - 2 * (MaxInt64 + 1)
             \/ z + b < -(MaxInt64 + 1) /\ zb = z + b + 2 * (MaxInt64 + 1)
      BY <1>1, <1>3, <1>6, Int64AddTo
    <2> QED  BY <1>1, <1>4, <1>6, <2>1, <2>2 DEF Int64
  <1> QED  BY <1>2, <1>3, <1>4, <1>5, <1>7, <1>8, <1>9

-----------------------------------------------------------------------------
\* The sums of the beginnings of a sequence of entries.
SumsOf(s, f) ==
    /\ f[0] = 0
    /\ \A k \in 1 .. Len(s) : f[k] = Int64Add(f[k - 1], s[k].size)

LEMMA SizesOf ==
    ASSUME NEW s \in Seq(bufferedItem)
    PROVE  Len(s) \in Nat /\ \A k \in 1 .. Len(s) : s[k] \in bufferedItem /\ s[k].size \in 0 .. MaxInt64
  <1>1. Len(s) \in Nat /\ \A k \in 1 .. Len(s) : s[k] \in bufferedItem
    BY ElementOfSeq, LenProperties
  <1> QED  BY <1>1 DEF bufferedItem

\* Every sequence has such sums: were there a shortest beginning that has
\* none, those of the one before it could be extended.
LEMMA SumsExist ==
    ASSUME NEW s \in Seq(bufferedItem)
    PROVE  \E f \in [0 .. Len(s) -> Int64] : SumsOf(s, f)
  <1> DEFINE Has(n) == \E f \in [0 .. n -> Int64] :
                          /\ f[0] = 0
                          /\ \A k \in 1 .. n : f[k] = Int64Add(f[k - 1], s[k].size)
  <1>0. MaxInt64 \in Nat /\ 0 \in Int64
    BY MemAssumption DEF Int64
  <1>1. Has(0)
    <2> DEFINE f == [k \in 0 .. 0 |-> 0]
    <2>1. f \in [0 .. 0 -> Int64] /\ f[0] = 0 /\ \A k \in 1 .. 0 : f[k] = Int64Add(f[k - 1], s[k].size)
      BY <1>0
    <2> QED  BY <2>1
  <1>2. ASSUME NEW n \in Nat, n + 1 <= Len(s), Has(n) PROVE Has(n + 1)
    <2>1. PICK f \in [0 .. n -> Int64] :
             /\ f[0] = 0
             /\ \A k \in 1 .. n : f[k] = Int64Add(f[k - 1], s[k].size)
      BY <1>2
    <2>2. f[n] \in Int64 /\ s[n + 1].size \in 0 .. MaxInt64
      BY <1>2, SizesOf
    <2>3. Int64Add(f[n], s[n + 1].size) \in Int64
      BY <1>0, <2>2, Int64AddLaws
    <2> DEFINE g == [k \in 0 .. n + 1 |-> IF k = n + 1 THEN Int64Add(f[n], s[n + 1].size) ELSE f[k]]
    <2>4. g \in [0 .. n + 1 -> Int64]
      BY <2>3
    <2>5. g[0] = 0
      BY <2>1
    <2>6. ASSUME NEW k \in 1 .. n + 1 PROVE g[k] = Int64Add(g[k - 1], s[k].size)
      <3>1. CASE k = n + 1
        BY <3>1
      <3>2. CASE k \in 1 .. n
        BY <2>1, <3>2
      <3> QED  BY <3>1, <3>2
    <2> HIDE DEF g
    <2> QED  BY <2>4, <2>5, <2>6
  <1> DEFINE T == {n \in Nat : n <= Len(s) /\ ~Has(n)}
  <1>3. T = {}
    <2> SUFFICES ASSUME T # {} PROVE FALSE
      OBVIOUS
    <2>1. T \in SUBSET Nat
      OBVIOUS
    <2>2. PICK m \in T : \A j \in T : m <= j
      <3> HIDE DEF T
      <3> QED  BY <2>1, LeastNat
    <2> HIDE DEF Has
    <2>3. m # 0 /\ m \in Nat /\ m <= Len(s)
      BY <1>1, <2>2
    <2>4. m - 1 \in Nat /\ m - 1 <= Len(s) /\ m - 1 \notin T
      BY <2>2, <2>3, SizesOf
    <2>5. Has(m - 1)
      BY <2>4
    <2>6. Has((m - 1) + 1)
      BY <1>2, <2>3, <2>4, <2>5
    <2>7. (m - 1) + 1 = m
      BY <2>3
    <2> QED  BY <2>2, <2>6, <2>7
  <1>4. Has(Len(s))
    <2> HIDE DEF Has
    <2> QED  BY <1>3, SizesOf
  <1> QED  BY <1>4 DEF SumsOf

\* Total is the last of them, whichever way they were found.
LEMMA TotalIs ==
    ASSUME NEW s \in Seq(bufferedItem), NEW f \in [0 .. Len(s) -> Int64], SumsOf(s, f)
    PROVE  Total(s) = f[Len(s)]
  <1> DEFINE Body(g) == [k \in 0 .. Len(s) |-> IF k = 0 THEN 0 ELSE Int64Add(g[k - 1], s[k].size)]
             sum == CHOOSE g : g = Body(g)
  <1>0. Len(s) \in Nat
    BY LenProperties
  <1>1. f = Body(f)
    BY <1>0 DEF SumsOf
  <1>2. sum = Body(sum)
    <2> HIDE DEF Body
    <2> QED  BY <1>1, Zenon
  <1>3. Total(s) = sum[Len(s)]
    BY Zenon DEF Total
  <1>4. sum[0] = 0 /\ \A k \in 1 .. Len(s) : sum[k] = Int64Add(sum[k - 1], s[k].size)
    <2>1. \A k \in 0 .. Len(s) : sum[k] = IF k = 0 THEN 0 ELSE Int64Add(sum[k - 1], s[k].size)
      <3>1. \A g : \A k \in 0 .. Len(s) :
               Body(g)[k] = IF k = 0 THEN 0 ELSE Int64Add(g[k - 1], s[k].size)
        OBVIOUS
      <3> HIDE DEF Body, sum
      <3> QED  BY <1>2, <3>1, Zenon
    <2> HIDE DEF sum
    <2> QED  BY <1>0, <2>1
  <1> HIDE DEF sum, Body
  <1> DEFINE T == {n \in Nat : n <= Len(s) /\ sum[n] # f[n]}
  <1>5. T = {}
    <2> SUFFICES ASSUME T # {} PROVE FALSE
      OBVIOUS
    <2>1. T \in SUBSET Nat
      OBVIOUS
    <2>2. PICK m \in T : \A j \in T : m <= j
      <3> HIDE DEF T
      <3> QED  BY <2>1, LeastNat
    <2>3. m \in Nat /\ m # 0 /\ m <= Len(s) /\ sum[m] # f[m]
      BY <1>4, <2>2 DEF SumsOf
    <2>4. m - 1 \in Nat /\ m - 1 <= Len(s) /\ m - 1 \notin T /\ m \in 1 .. Len(s)
      BY <1>0, <2>2, <2>3
    <2>5. sum[m - 1] = f[m - 1]
      BY <2>4
    <2> QED  BY <1>4, <2>3, <2>4, <2>5 DEF SumsOf
  <1> QED  BY <1>0, <1>3, <1>5

LEMMA TotalLaws ==
    /\ Total(<< >>) = 0
    /\ \A s \in Seq(bufferedItem) : Total(s) \in Int64
    /\ \A s \in Seq(bufferedItem), e \in bufferedItem :
          Total(Append(s, e)) = Int64Add(Total(s), e.size)
    /\ \A s \in Seq(bufferedItem) :
          s # << >> => Total(Tail(s)) = Int64Add(Total(s), -Head(s).size)
  <1>0. MaxInt64 \in Nat /\ 0 \in Int64
    BY MemAssumption DEF Int64
  <1>1. ASSUME NEW s \in Seq(bufferedItem)
        PROVE  Total(s) \in Int64
    <2>1. PICK f \in [0 .. Len(s) -> Int64] : SumsOf(s, f)
      BY SumsExist
    <2> QED  BY <2>1, TotalIs, SizesOf
  <1>2. Total(<< >>) = 0
    <2>1. << >> \in Seq(bufferedItem) /\ Len(<< >>) = 0
      BY EmptySeq
    <2>2. PICK f \in [0 .. Len(<< >>) -> Int64] : SumsOf(<< >>, f)
      BY <2>1, SumsExist
    <2>3. f[0] = 0
      BY <2>2 DEF SumsOf
    <2> QED  BY <2>1, <2>2, <2>3, TotalIs
  <1>3. ASSUME NEW s \in Seq(bufferedItem), NEW e \in bufferedItem
        PROVE  Total(Append(s, e)) = Int64Add(Total(s), e.size)
    <2>1. PICK f \in [0 .. Len(s) -> Int64] : SumsOf(s, f)
      BY SumsExist
    <2>2. Len(s) \in Nat /\ f[Len(s)] \in Int64 /\ e.size \in 0 .. MaxInt64
      BY SizesOf DEF bufferedItem
    <2>3. Int64Add(f[Len(s)], e.size) \in Int64
      BY <1>0, <2>2, Int64AddLaws
    <2>4. /\ Append(s, e) \in Seq(bufferedItem) /\ Len(Append(s, e)) = Len(s) + 1
          /\ \A k \in 1 .. Len(s) : Append(s, e)[k] = s[k]
          /\ Append(s, e)[Len(s) + 1] = e
      BY AppendProperties
    <2> DEFINE g == [k \in 0 .. Len(s) + 1 |->
                        IF k = Len(s) + 1 THEN Int64Add(f[Len(s)], e.size) ELSE f[k]]
    <2>5. g \in [0 .. Len(Append(s, e)) -> Int64]
      BY <2>2, <2>3, <2>4
    <2>6. SumsOf(Append(s, e), g)
      <3>1. g[0] = 0
        BY <2>1, <2>2 DEF SumsOf
      <3>2. ASSUME NEW k \in 1 .. Len(s) + 1
            PROVE  g[k] = Int64Add(g[k - 1], Append(s, e)[k].size)
        <4>1. CASE k = Len(s) + 1
          BY <2>2, <2>4, <4>1
        <4>2. CASE k \in 1 .. Len(s)
          <5>1. g[k] = f[k] /\ g[k - 1] = f[k - 1]
            BY <2>2, <4>2
          <5> QED  BY <2>1, <2>4, <4>2, <5>1 DEF SumsOf
        <4> QED  BY <2>2, <4>1, <4>2
      <3> HIDE DEF g
      <3> QED  BY <2>4, <3>1, <3>2 DEF SumsOf
    <2>7. g[Len(s) + 1] = Int64Add(f[Len(s)], e.size)
      BY <2>2
    <2> HIDE DEF g
    <2> QED  BY <2>1, <2>4, <2>5, <2>6, <2>7, TotalIs
  <1>4. ASSUME NEW s \in Seq(bufferedItem), s # << >>
        PROVE  Total(Tail(s)) = Int64Add(Total(s), -Head(s).size)
    <2>1. PICK f \in [0 .. Len(s) -> Int64] : SumsOf(s, f)
      BY SumsExist
    <2>2. Len(s) \in Nat /\ Len(s) > 0
      BY <1>4, SizesOf, EmptySeq
    <2>3. /\ Tail(s) \in Seq(bufferedItem) /\ Len(Tail(s)) = Len(s) - 1
          /\ \A k \in 1 .. Len(s) - 1 : Tail(s)[k] = s[k + 1]
          /\ Head(s) = s[1]
      BY <1>4, HeadTailProperties
    <2> DEFINE h == Head(s).size
               g == [k \in 0 .. Len(s) - 1 |-> Int64Add(f[k + 1], -h)]
    <2>4. h \in 0 .. MaxInt64
      BY <2>2, <2>3, SizesOf
    <2> HIDE DEF h
    <2>5. \A a \in Int64 : Int64Add(a, -h) \in Int64
      BY <1>0, <2>4, Int64AddLaws
    <2>6. g \in [0 .. Len(Tail(s)) -> Int64]
      BY <2>2, <2>3, <2>5
    <2>7. SumsOf(Tail(s), g)
      <3>1. g[0] = 0
        <4>1. f[1] = Int64Add(0, h)
          BY <2>1, <2>2, <2>3 DEF SumsOf, h
        <4>2. Int64Add(Int64Add(0, h), -h) = 0
          BY <1>0, <2>4, Int64AddLaws
        <4> QED  BY <2>2, <4>1, <4>2
      <3>2. ASSUME NEW k \in 1 .. Len(s) - 1
            PROVE  g[k] = Int64Add(g[k - 1], Tail(s)[k].size)
        <4>1. /\ k + 1 \in 1 .. Len(s) /\ k \in 0 .. Len(s) /\ (k + 1) - 1 = k /\ (k - 1) + 1 = k
              /\ k \in 0 .. Len(s) - 1 /\ k - 1 \in 0 .. Len(s) - 1
          BY <2>2
        <4>2. f[k + 1] = Int64Add(f[k], s[k + 1].size)
          BY <2>1, <4>1 DEF SumsOf
        <4>3. s[k + 1].size \in 0 .. MaxInt64 /\ f[k] \in Int64
          BY <4>1, SizesOf
        <4>4. Int64Add(Int64Add(f[k], s[k + 1].size), -h) = Int64Add(Int64Add(f[k], -h), s[k + 1].size)
          BY <2>4, <4>3, Int64AddLaws
        <4>5. g[k] = Int64Add(f[k + 1], -h) /\ g[k - 1] = Int64Add(f[k], -h)
          BY <4>1
        <4> QED  BY <2>3, <4>2, <4>4, <4>5
      <3> HIDE DEF g
      <3> QED  BY <2>3, <3>1, <3>2 DEF SumsOf
    <2>8. g[Len(s) - 1] = Int64Add(f[Len(s)], -h)
      BY <2>2
    <2> HIDE DEF g
    <2> QED  BY <2>1, <2>3, <2>6, <2>7, <2>8, TotalIs DEF h
  <1> QED  BY <1>1, <1>2, <1>3, <1>4

-----------------------------------------------------------------------------
LEMMA AccountingStep ==
    ASSUME Safe, Accounting, [Next]_vars
    PROVE  Accounting'
  <1>0. /\ MaxInt64 \in Nat /\ curMem \in Int64
        /\ Queued \in Seq(bufferedItem) /\ Total(Queued) \in Int64
    BY MemAssumption, QueuedType, TotalLaws DEF Safe, TypeOK, Int64
  \* Nobody looks into the books but the worker, between its steps.
  <1>1. ASSUME UNCHANGED <<ring, curMem>>,
               \/ pc \notin {"push-curMem", "pop-buf"} /\ pc' \notin {"push-curMem", "pop-buf"}
               \/ UNCHANGED <<pc, hand>>
        PROVE  Accounting'
    <2>1. Queued' = Queued /\ curMem' = curMem
      BY <1>1, RingUnchanged DEF Safe
    <2> QED  BY <1>1, <2>1 DEF Accounting
  <1>2. ASSUME Users \/ UNCHANGED vars PROVE Accounting'
    <2>1. UNCHANGED <<ring, curMem, pc, hand>>
      BY <1>2 DEF Users, StartSend, CloseIn, StartReceive, SeeClosed, Cancel, vars
    <2> QED  BY <1>1, <2>1
  <1>3. ASSUME processItems \/ SelectDone \/ SelectInClosed \/ Flushed \/ closeOut \/ crash
        PROVE  Accounting'
    <2>1. UNCHANGED <<ring, curMem>>
      BY <1>3 DEF processItems, SelectDone, SelectInClosed, Flushed, closeOut, crash
    <2>2. pc \notin {"push-curMem", "pop-buf"} /\ pc' \notin {"push-curMem", "pop-buf"}
      BY <1>3 DEF processItems, SelectDone, SelectInClosed, Flushed, closeOut, crash,
                  Selecting, Receiving, Sending
    <2> QED  BY <1>1, <2>1, <2>2
  <1>4. ASSUME NEW p \in Producers, SelectReceive(p) PROVE Accounting'
    BY <1>1, <1>4 DEF SelectReceive, Receiving
  <1>5. ASSUME NEW c \in Consumers, SelectSend(c) PROVE Accounting'
    BY <1>1, <1>5 DEF SelectSend, Sending
  <1>6. ASSUME NEW s \in ItemSizes, push(s) PROVE Accounting'
    <2>1. CASE s < 0
      BY <1>1, <1>6, <2>1 DEF push
    <2>2. CASE ~(s < 0)
      <3>1. /\ pc = "push" /\ pc' = "push-curMem" /\ curMem' = curMem
            /\ hand' = [hand EXCEPT !.size = s] /\ RB!Push(hand')
        BY <1>6, <2>2 DEF push
      <3>2. s \in 0 .. MaxInt64
        BY <1>0, <2>2, SizeAssumption
      <3>3. hand' \in bufferedItem /\ hand'.size = s
        <4>1. hand \in [item : Items \cup {NoItem}, size : Int] /\ hand.item \in Items
          BY <3>1 DEF Safe, TypeOK, Established, bufferedItem, ZeroItem
        <4> QED  BY <3>1, <3>2, <4>1 DEF bufferedItem
      <3>4. Total(Queued') = Int64Add(Total(Queued), s)
        BY <1>0, <3>1, <3>3, RingPush, TotalLaws DEF Safe
      <3>5. curMem = Total(Queued)
        BY <3>1 DEF Accounting
      <3>6. curMem = Int64Add(Int64Add(curMem, s), -s)
        BY <1>0, <3>2, Int64AddLaws
      <3> QED  BY <3>1, <3>3, <3>4, <3>5, <3>6 DEF Accounting
    <2> QED  BY <2>1, <2>2
  <1>7. CASE pushCurMem
    <2>1. /\ pc = "push-curMem" /\ pc' = "processItems" /\ UNCHANGED ring
          /\ curMem' = Int64Add(curMem, hand.size)
          /\ hand.size \in 0 .. MaxInt64
      BY <1>7 DEF pushCurMem, Safe, Established, bufferedItem
    <2>2. curMem = Int64Add(Total(Queued), -hand.size)
      BY <2>1 DEF Accounting
    <2>3. curMem' = Total(Queued)
      BY <1>0, <2>1, <2>2, Int64AddLaws
    <2>4. Queued' = Queued
      BY <2>1, RingUnchanged DEF Safe
    <2> QED  BY <2>1, <2>3, <2>4 DEF Accounting
  <1>8. CASE pop
    <2>1. /\ pc = "pop" /\ pc' = "pop-buf" /\ UNCHANGED ring
          /\ curMem' = Int64Add(curMem, -RB!Peek.size)
      BY <1>8 DEF pop
    <2>2. curMem = Total(Queued)
      BY <2>1 DEF Accounting
    <2>3. Queued # << >> /\ RB!Peek = Head(Queued)
      BY <2>1, QueuedType DEF Safe, RingAssertionsHold
    <2>4. curMem' = Total(Tail(Queued))
      BY <1>0, <2>1, <2>2, <2>3, TotalLaws
    <2>5. Queued' = Queued
      BY <2>1, RingUnchanged DEF Safe
    <2> QED  BY <2>1, <2>4, <2>5 DEF Accounting
  <1>9. CASE popBuf
    <2>1. /\ pc = "pop-buf" /\ pc' \in {"flushRemaining", "processItems"} /\ curMem' = curMem
          /\ Queued' = Tail(Queued)
      BY <1>9, RingPop DEF popBuf, Safe
    <2>2. curMem = Total(Tail(Queued))
      BY <2>1 DEF Accounting
    <2> QED  BY <2>1, <2>2 DEF Accounting
  <1> QED  BY <1>2, <1>3, <1>4, <1>5, <1>6, <1>7, <1>8, <1>9 DEF Next, Worker, Step

\* "Size is computed once on receipt and reused on drain": whatever the sizes,
\* and however often the counter has overflowed, it is the total size of what
\* the ring holds, up to the one entry that push or pop is working on.
THEOREM BooksBalance == Spec => []Accounting
  <1>1. NewBoundedQueue => Accounting
    <2> SUFFICES ASSUME NewBoundedQueue PROVE Accounting
      OBVIOUS
    <2>1. Queued = << >> /\ curMem = 0 /\ pc = "processItems"
      BY RingNew DEF NewBoundedQueue
    <2> QED  BY <2>1, TotalLaws DEF Accounting
  <1>2. Safe /\ Accounting /\ [Next]_vars => Accounting'
    BY AccountingStep
  <1> QED  BY <1>1, <1>2, AlwaysSafe, PTL DEF Spec

\* A queue that its senders closed, and nobody cancelled, stops with an empty
\* ring and a counter of zero: every push was matched by its pop, even if the
\* counter overflowed on the way.
THEOREM DrainedQueueIsEmpty == Spec => []DrainedIsZero
  <1>1. Safe /\ Accounting => DrainedIsZero
    <2> SUFFICES ASSUME Safe, Accounting, pc = "done", shutdown = "input"
                 PROVE  count = 0 /\ curMem = 0
      BY DEF DrainedIsZero
    <2>1. count = 0
      BY DEF Safe, WhyThere
    <2>2. Queued = << >>
      BY <2>1, QueuedType, EmptySeq DEF Safe
    <2>3. curMem = Total(Queued)
      BY DEF Accounting
    <2> QED  BY <2>1, <2>2, <2>3, TotalLaws
  <1> QED  BY <1>1, AlwaysSafe, BooksBalance, PTL

-----------------------------------------------------------------------------
(***************************************************************************)
(* Books: what curMem accounts for, when sizes cannot overflow.            *)
(*                                                                         *)
(* Here the sums must be true sums, which are never negative.  A proof     *)
(* needs no more than that some function is one, and that every step of    *)
(* the worker takes one such function to another.                          *)
(***************************************************************************)
Sums(due) ==
    \A k \in 0 .. MaxCount :
        due[k] = IF k >= count THEN 0 ELSE Queued[k + 1].size + due[k + 1]

Owed(due) ==
    curMem = IF pc = "push-curMem" THEN due[0] - hand.size
             ELSE IF pc = "pop-buf" THEN due[1] ELSE due[0]

BelowLimit == pc \in Receiving \cup {"push", "push-curMem"} => curMem < MaxMem

Books ==
    /\ \E due \in [0 .. MaxCount -> Nat] : Sums(due) /\ Owed(due)
    /\ BelowLimit
    /\ BytesBounded

LEMMA Int64AddFits ==
    ASSUME NEW a \in Int, NEW b \in Int, a + b \in 0 .. MaxInt64
    PROVE  Int64Add(a, b) = a + b
  <1>1. MaxInt64 \in Nat
    BY MemAssumption
  <1>2. ASSUME NEW n \in Nat, NEW c \in 0 .. n
        PROVE  c % (n + 1) = c
    BY <1>2
  <1> DEFINE c == a + b + MaxInt64 + 1
  <1>3. c \in 0 .. 2 * MaxInt64 + 1 /\ 2 * MaxInt64 + 1 \in Nat
    BY <1>1
  <1>4. c % ((2 * MaxInt64 + 1) + 1) = c
    BY <1>2, <1>3
  <1>5. 2 * (MaxInt64 + 1) = (2 * MaxInt64 + 1) + 1
    BY <1>1
  <1> QED  BY <1>1, <1>4, <1>5 DEF Int64Add

LEMMA InitBooks == NewBoundedQueue => Books
  <1> SUFFICES ASSUME NewBoundedQueue PROVE Books
    OBVIOUS
  <1>1. count = 0 /\ curMem = 0 /\ pc = "processItems"
    BY DEF NewBoundedQueue, RB!New
  <1> DEFINE due == [k \in 0 .. MaxCount |-> 0]
  <1>2. due \in [0 .. MaxCount -> Nat] /\ Sums(due) /\ Owed(due)
    BY <1>1, CountAssumption DEF Sums, Owed
  <1> QED  BY <1>1, <1>2, MemAssumption DEF Books, BelowLimit, BytesBounded, Receiving

\* Steps that change neither the ring nor curMem, and are not part of push or
\* pop, keep the books as they are.
LEMMA QuietBooks ==
    ASSUME Safe, Books, UNCHANGED <<ring, curMem>>,
           \/ pc \notin {"push-curMem", "pop-buf"} /\ pc' \notin {"push-curMem", "pop-buf"}
           \/ UNCHANGED <<pc, hand>>,
           BelowLimit'
    PROVE  Books'
  <1>1. Queued' = Queued /\ count' = count /\ curMem' = curMem
    BY RingUnchanged DEF Safe, ring
  <1>2. PICK due \in [0 .. MaxCount -> Nat] : Sums(due) /\ Owed(due)
    BY DEF Books
  <1>3. Sums(due)'
    BY <1>1, <1>2 DEF Sums
  <1>4. Owed(due)'
    BY <1>1, <1>2 DEF Owed
  <1> QED  BY <1>1, <1>2, <1>3, <1>4 DEF Books, BytesBounded

LEMMA PushBooks ==
    ASSUME Safe, Books, NEW s \in ItemSizes, push(s)
    PROVE  Books'
  <1>0. /\ MaxCount \in Nat \ {0} /\ MaxMem \in Nat /\ MaxInt64 \in Nat
        /\ count \in 0 .. MaxCount
        /\ Queued \in Seq(bufferedItem) /\ Len(Queued) = count
    BY CountAssumption, MemAssumption, QueuedType DEF Safe
  <1>1. pc = "push" /\ curMem' = curMem /\ curMem < MaxMem
    BY DEF push, Books, BelowLimit
  <1>2. CASE s < 0
    <2>1. BelowLimit'
      BY <1>2 DEF push, BelowLimit, Receiving
    <2> QED  BY <1>1, <1>2, <2>1, QuietBooks DEF push
  <1>3. CASE ~(s < 0)
    <2>1. /\ pc' = "push-curMem" /\ hand' = [hand EXCEPT !.size = s]
          /\ RB!Push(hand')
      BY <1>3 DEF push
    <2>2. s \in 0 .. MaxInt64
      BY <1>0, <1>3, SizeAssumption
    <2>3. hand' \in bufferedItem /\ hand'.size = s
      <3>1. hand \in [item : Items \cup {NoItem}, size : Int] /\ hand.item \in Items
        BY <1>1 DEF Safe, TypeOK, Established, bufferedItem, ZeroItem
      <3> QED  BY <2>1, <2>2, <3>1 DEF bufferedItem
    <2>4. Queued' = Append(Queued, hand') /\ count' = count + 1 /\ count < MaxCount
      BY <2>1, <2>3, RingPush DEF Safe, RB!Push
    <2>5. /\ \A k \in 1 .. count : Queued'[k] = Queued[k]
          /\ Queued'[count + 1].size = s
      BY <1>0, <2>3, <2>4, AppendProperties
    <2>6. PICK due \in [0 .. MaxCount -> Nat] : Sums(due) /\ Owed(due)
      BY DEF Books
    <2>7. PICK new \in [0 .. MaxCount -> Nat] :
             new = [k \in 0 .. MaxCount |-> IF k > count THEN 0 ELSE due[k] + s]
      <3>1. s \in Nat /\ \A k \in 0 .. MaxCount : due[k] + s \in Nat
        BY <1>0, <2>2, <2>6
      <3>2. [k \in 0 .. MaxCount |-> IF k > count THEN 0 ELSE due[k] + s] \in [0 .. MaxCount -> Nat]
        BY <3>1
      <3> QED  BY <3>2, Zenon
    <2>8. \A k \in 0 .. MaxCount :
             new[k] = IF k >= count + 1 THEN 0 ELSE Queued'[k + 1].size + new[k + 1]
      <3> TAKE k \in 0 .. MaxCount
      <3>1. CASE k >= count + 1
        BY <1>0, <2>7, <3>1
      <3>2. CASE k = count
        <4>1. due[k] = 0
          BY <1>0, <2>6, <3>2 DEF Sums
        <4> QED  BY <1>0, <2>2, <2>4, <2>5, <2>7, <3>2, <4>1
      <3>3. CASE k < count
        <4>1. /\ k \in Nat /\ k + 1 \in 1 .. count /\ k + 1 \in 0 .. MaxCount
              /\ ~(k >= count) /\ ~(k > count) /\ ~(k + 1 > count) /\ ~(k >= count + 1)
          BY <1>0, <3>3
        <4>2. due[k] = Queued[k + 1].size + due[k + 1]
          BY <2>6, <4>1 DEF Sums
        <4>3. Queued'[k + 1] = Queued[k + 1]
          BY <2>5, <4>1
        <4>4. Queued[k + 1].size \in Nat
          <5>1. Queued[k + 1] \in bufferedItem
            BY <1>0, <4>1, ElementOfSeq
          <5> QED  BY <1>0, <5>1 DEF bufferedItem
        <4>5. new[k] = due[k] + s /\ new[k + 1] = due[k + 1] + s /\ due[k + 1] \in Nat
          BY <2>6, <2>7, <4>1
        <4> QED  BY <2>2, <4>1, <4>2, <4>3, <4>4, <4>5
      <3> QED  BY <1>0, <3>1, <3>2, <3>3
    <2>9. Sums(new)'
      BY <2>4, <2>8 DEF Sums
    <2>10. Owed(new)'
      <3>1. new[0] - s = due[0]
        BY <1>0, <2>2, <2>6, <2>7
      <3>2. curMem = due[0]
        BY <1>1, <2>6 DEF Owed
      <3> QED  BY <1>1, <2>1, <2>3, <3>1, <3>2 DEF Owed
    <2>11. BelowLimit' /\ BytesBounded'
      BY <1>1 DEF Books, BelowLimit, BytesBounded
    <2> QED  BY <2>7, <2>9, <2>10, <2>11 DEF Books
  <1> QED  BY <1>2, <1>3

LEMMA PushCurMemBooks ==
    ASSUME SizesFit, Safe, Books, pushCurMem
    PROVE  Books'
  <1>0. MaxMem \in Nat /\ MaxInt64 \in Nat
    BY MemAssumption
  <1>1. PICK due \in [0 .. MaxCount -> Nat] : Sums(due) /\ Owed(due)
    BY DEF Books
  <1>2. /\ hand.size \in ItemSizes /\ hand.size \in Nat
        /\ curMem < MaxMem /\ curMem >= 0 /\ curMem \in Int
    BY <1>0 DEF pushCurMem, Safe, Established, Books, BelowLimit, BytesBounded, TypeOK, bufferedItem
  <1>3. curMem + hand.size \in 0 .. MaxInt64
    BY <1>0, <1>2 DEF SizesFit
  <1>4. curMem' = curMem + hand.size
    BY <1>2, <1>3, Int64AddFits DEF pushCurMem
  <1>5. due[0] \in Nat
    BY <1>1, CountAssumption
  <1>6. curMem' = due[0]
    BY <1>1, <1>2, <1>4, <1>5 DEF Owed, pushCurMem
  <1>7. Queued' = Queued /\ count' = count /\ pc' = "processItems"
    BY RingUnchanged DEF Safe, ring, pushCurMem
  <1>8. Sums(due)' /\ Owed(due)'
    BY <1>1, <1>6, <1>7 DEF Sums, Owed
  <1>9. BytesBounded' /\ BelowLimit'
    BY <1>0, <1>2, <1>4, <1>7 DEF BytesBounded, BelowLimit, Receiving
  <1> QED  BY <1>1, <1>8, <1>9 DEF Books

LEMMA PopBooks ==
    ASSUME Safe, Books, pop
    PROVE  Books'
  <1>0. /\ MaxCount \in Nat \ {0} /\ MaxMem \in Nat /\ MaxInt64 \in Nat
        /\ count \in 0 .. MaxCount /\ count # 0
        /\ RB!Peek = Queued[1] /\ RB!Peek.size \in Nat
    <2>1. count # 0
      BY DEF pop, Safe, RingAssertionsHold
    <2>2. /\ count \in 0 .. MaxCount /\ RB!Peek \in bufferedItem
          /\ RB!Peek = Head(Queued) /\ Queued \in Seq(bufferedItem)
      BY <2>1, QueuedType DEF Safe
    <2> QED  BY <2>1, <2>2, CountAssumption, MemAssumption DEF bufferedItem
  <1>1. PICK due \in [0 .. MaxCount -> Nat] : Sums(due) /\ Owed(due)
    BY DEF Books
  <1>2. due[0] = RB!Peek.size + due[1] /\ due[0] \in Nat /\ due[1] \in Nat
    BY <1>0, <1>1 DEF Sums
  <1>3. curMem = due[0]
    BY <1>1 DEF Owed, pop
  <1>4. curMem \in Int /\ curMem <= MaxInt64
    BY <1>0 DEF Safe, TypeOK
  <1>5. curMem' = due[1]
    <2>1. curMem + (-RB!Peek.size) = due[1] /\ due[1] \in 0 .. MaxInt64
      BY <1>0, <1>2, <1>3, <1>4
    <2> QED  BY <1>0, <1>4, <2>1, Int64AddFits DEF pop
  <1>6. Queued' = Queued /\ count' = count /\ pc' = "pop-buf"
    BY RingUnchanged DEF Safe, ring, pop
  <1>7. Sums(due)' /\ Owed(due)'
    BY <1>1, <1>5, <1>6 DEF Sums, Owed
  <1>8. curMem' >= 0 /\ curMem' <= curMem
    BY <1>0, <1>2, <1>3, <1>5
  <1>9. BytesBounded'
    <2>1. \A s \in ItemSizes : s \in Int
      BY <1>0, SizeAssumption
    <2> QED  BY <1>0, <1>2, <1>4, <1>5, <1>8, <2>1 DEF Books, BytesBounded
  <1>10. BelowLimit'
    BY <1>6 DEF BelowLimit, Receiving
  <1> QED  BY <1>1, <1>7, <1>9, <1>10 DEF Books

LEMMA PopBufBooks ==
    ASSUME Safe, Books, popBuf
    PROVE  Books'
  <1>0. /\ MaxCount \in Nat \ {0} /\ count \in 0 .. MaxCount
        /\ Queued \in Seq(bufferedItem) /\ Len(Queued) = count
    BY CountAssumption, QueuedType DEF Safe
  <1>1. count # 0 /\ count' = count - 1 /\ Queued # << >> /\ Queued' = Tail(Queued)
    BY RingPop DEF Safe, popBuf, RB!Pop
  <1>2. \A k \in 1 .. count - 1 : Queued'[k] = Queued[k + 1]
    BY <1>0, <1>1, HeadTailProperties
  <1>3. PICK due \in [0 .. MaxCount -> Nat] : Sums(due) /\ Owed(due)
    BY DEF Books
  <1> DEFINE new == [k \in 0 .. MaxCount |-> IF k = MaxCount THEN 0 ELSE due[k + 1]]
  <1>4. new \in [0 .. MaxCount -> Nat]
    BY <1>0, <1>3
  <1>5. \A k \in 0 .. MaxCount :
           new[k] = IF k >= count - 1 THEN 0 ELSE Queued'[k + 1].size + new[k + 1]
    <2> TAKE k \in 0 .. MaxCount
    <2>1. CASE k = MaxCount
      BY <1>0, <2>1
    <2>2. CASE k < MaxCount /\ k >= count - 1
      <3>1. due[k + 1] = 0
        BY <1>0, <1>3, <2>2 DEF Sums
      <3> QED  BY <1>0, <2>2, <3>1
    <2>3. CASE k < count - 1
      <3>1. due[k + 1] = Queued[(k + 1) + 1].size + due[(k + 1) + 1]
        BY <1>0, <1>3, <2>3 DEF Sums
      <3>2. Queued'[k + 1] = Queued[(k + 1) + 1]
        BY <1>0, <1>2, <2>3
      <3> QED  BY <1>0, <2>3, <3>1, <3>2
    <2> QED  BY <1>0, <2>1, <2>2, <2>3
  <1>6. Sums(new)'
    BY <1>1, <1>5 DEF Sums
  <1>7. curMem' = curMem /\ pc' \in {"flushRemaining", "processItems"} /\ pc = "pop-buf"
    BY DEF popBuf
  <1>8. Owed(new)'
    BY <1>0, <1>3, <1>7 DEF Owed
  <1>9. BytesBounded' /\ BelowLimit'
    BY <1>7 DEF Books, BytesBounded, BelowLimit, Receiving
  <1> QED  BY <1>4, <1>6, <1>8, <1>9 DEF Books

LEMMA StepBooks ==
    ASSUME SizesFit, Safe, Books, [Next]_vars
    PROVE  Books'
  <1>1. ASSUME Users \/ UNCHANGED vars PROVE Books'
    <2>1. UNCHANGED <<ring, curMem, pc, hand>>
      BY <1>1 DEF Users, StartSend, CloseIn, StartReceive, SeeClosed, Cancel, vars
    <2>2. BelowLimit'
      BY <2>1 DEF Books, BelowLimit
    <2> QED  BY <2>1, <2>2, QuietBooks
  <1>2. CASE processItems
    <2>1. count = 0 => curMem = 0
      <3>1. PICK due \in [0 .. MaxCount -> Nat] : Sums(due) /\ Owed(due)
        BY DEF Books
      <3> QED  BY <1>2, <3>1, CountAssumption DEF processItems, Sums, Owed
    <2>2. curMem \in Int /\ MaxMem \in Nat \ {0} /\ MaxInt64 \in Nat
      BY MemAssumption DEF Safe, TypeOK
    <2>3. BelowLimit'
      BY <1>2, <2>1, <2>2 DEF processItems, AtLimit, BelowLimit, Receiving
    <2> QED  BY <1>2, <2>3, QuietBooks DEF processItems
  <1>3. ASSUME SelectDone \/ SelectInClosed \/ Flushed \/ closeOut \/ crash PROVE Books'
    <2>1. BelowLimit'
      BY <1>3 DEF SelectDone, SelectInClosed, Flushed, closeOut, crash, BelowLimit, Receiving
    <2>2. UNCHANGED <<ring, curMem>>
      BY <1>3 DEF SelectDone, SelectInClosed, Flushed, closeOut, crash
    <2>3. pc \notin {"push-curMem", "pop-buf"} /\ pc' \notin {"push-curMem", "pop-buf"}
      BY <1>3 DEF SelectDone, SelectInClosed, Flushed, closeOut, crash, Selecting, Receiving, Sending
    <2> QED  BY <2>1, <2>2, <2>3, QuietBooks
  <1>4. ASSUME NEW p \in Producers, SelectReceive(p) PROVE Books'
    <2>1. BelowLimit'
      BY <1>4 DEF SelectReceive, Books, BelowLimit
    <2> QED  BY <1>4, <2>1, QuietBooks DEF SelectReceive, Receiving
  <1>5. ASSUME NEW c \in Consumers, SelectSend(c) PROVE Books'
    <2>1. BelowLimit'
      BY <1>5 DEF SelectSend, BelowLimit, Receiving
    <2> QED  BY <1>5, <2>1, QuietBooks DEF SelectSend, Sending
  <1> QED  BY <1>1, <1>2, <1>3, <1>4, <1>5, PushBooks, PushCurMemBooks, PopBooks, PopBufBooks
             DEF Next, Worker, Step

LEMMA AlwaysBooks ==
    ASSUME SizesFit
    PROVE  Spec => []Books
  <1>1. Safe /\ Books /\ [Next]_vars => Books'
    BY StepBooks
  <1> QED  BY <1>1, InitBooks, AlwaysSafe, PTL DEF Spec

\* If no item is so large that it overflows the counter, the total size that
\* the queue reports and acts on is never negative, and exceeds the limit by
\* less than one item.
THEOREM SoftLimit ==
    ASSUME SizesFit
    PROVE  Spec => []BytesBounded
  BY AlwaysBooks, PTL DEF Books

-----------------------------------------------------------------------------
\* The sizes in the ring were all returned by the size function, and what pop
\* has taken off the counter could be put back.
Lag ==
    /\ \A k \in 1 .. count : Queued[k].size \in ItemSizes
    /\ pc = "pop-buf" => curMem + RB!Peek.size <= MaxInt64

LEMMA InitLag == NewBoundedQueue => Lag
  BY DEF NewBoundedQueue, RB!New, Lag

LEMMA StepLag ==
    ASSUME Safe, Accounting, Books, Lag, [Next]_vars
    PROVE  Lag'
  <1>0. /\ count \in 0 .. MaxCount /\ MaxCount \in Nat /\ MaxInt64 \in Nat
        /\ Queued \in Seq(bufferedItem) /\ Len(Queued) = count
        /\ curMem \in Int64
    BY QueuedType, CountAssumption, MemAssumption DEF Safe, TypeOK, Int64
  <1>1. ASSUME UNCHANGED ring, pc' # "pop-buf" \/ UNCHANGED <<pc, curMem>>
        PROVE  Lag'
    <2>1. Queued' = Queued /\ count' = count /\ RB!Peek' = RB!Peek
      BY <1>1, RingUnchanged DEF Safe, ring, RB!Peek
    <2> QED  BY <1>1, <2>1 DEF Lag
  <1>2. ASSUME Users \/ UNCHANGED vars PROVE Lag'
    <2>1. UNCHANGED ring /\ UNCHANGED <<pc, curMem>>
      BY <1>2 DEF Users, StartSend, CloseIn, StartReceive, SeeClosed, Cancel, vars
    <2> QED  BY <1>1, <2>1
  <1>3. ASSUME processItems \/ SelectDone \/ SelectInClosed \/ Flushed \/ pushCurMem \/ closeOut \/ crash
        PROVE  Lag'
    <2>1. UNCHANGED ring /\ pc' # "pop-buf"
      BY <1>3 DEF processItems, SelectDone, SelectInClosed, Flushed, pushCurMem, closeOut, crash
    <2> QED  BY <1>1, <2>1
  <1>4. ASSUME NEW p \in Producers, SelectReceive(p) PROVE Lag'
    BY <1>1, <1>4 DEF SelectReceive
  <1>5. ASSUME NEW c \in Consumers, SelectSend(c) PROVE Lag'
    BY <1>1, <1>5 DEF SelectSend
  <1>6. ASSUME NEW s \in ItemSizes, push(s) PROVE Lag'
    <2>1. CASE s < 0
      BY <1>1, <1>6, <2>1 DEF push
    <2>2. CASE ~(s < 0)
      <3>1. /\ pc = "push" /\ pc' = "push-curMem"
            /\ hand' = [hand EXCEPT !.size = s] /\ RB!Push(hand')
        BY <1>6, <2>2 DEF push
      <3>2. hand' \in bufferedItem /\ hand'.size = s
        <4>1. s \in 0 .. MaxInt64
          BY <1>0, <2>2, SizeAssumption
        <4>2. hand \in [item : Items \cup {NoItem}, size : Int] /\ hand.item \in Items
          BY <3>1 DEF Safe, TypeOK, Established, bufferedItem, ZeroItem
        <4> QED  BY <3>1, <4>1, <4>2 DEF bufferedItem
      <3>3. Queued' = Append(Queued, hand') /\ count' = count + 1
        BY <3>1, <3>2, RingPush DEF Safe, RB!Push
      <3>4. /\ \A k \in 1 .. count : Queued'[k] = Queued[k]
            /\ Queued'[count + 1] = hand'
        BY <1>0, <3>2, <3>3, AppendProperties
      <3>5. \A k \in 1 .. count + 1 : k \in 1 .. count \/ k = count + 1
        BY <1>0
      <3>6. ASSUME NEW k \in 1 .. count' PROVE Queued'[k].size \in ItemSizes
        <4>1. CASE k \in 1 .. count
          BY <3>4, <4>1 DEF Lag
        <4>2. CASE k = count + 1
          BY <3>2, <3>4, <4>2
        <4> QED  BY <3>3, <3>5, <4>1, <4>2
      <3> QED  BY <3>1, <3>6 DEF Lag
    <2> QED  BY <2>1, <2>2
  <1>7. CASE pop
    <2>1. /\ pc = "pop" /\ pc' = "pop-buf" /\ UNCHANGED ring
          /\ curMem' = Int64Add(curMem, -RB!Peek.size)
      BY <1>7 DEF pop
    <2>2. RB!Peek = Queued[1] /\ RB!Peek.size \in 0 .. MaxInt64 /\ count # 0
      BY <1>0, <2>1, QueuedType DEF Safe, RingAssertionsHold, bufferedItem
    <2>3. PICK due \in [0 .. MaxCount -> Nat] : Sums(due) /\ Owed(due)
      BY DEF Books
    <2>4. curMem = RB!Peek.size + due[1] /\ due[1] \in Nat
      BY <1>0, <2>1, <2>2, <2>3 DEF Sums, Owed
    <2>5. curMem' = due[1]
      <3>1. curMem + (-RB!Peek.size) = due[1] /\ due[1] \in 0 .. MaxInt64
        BY <1>0, <2>2, <2>4 DEF Int64
      <3> QED  BY <1>0, <2>1, <2>2, <3>1, Int64AddFits DEF Int64
    <2>6. Queued' = Queued /\ count' = count /\ RB!Peek' = RB!Peek
      BY <2>1, RingUnchanged DEF Safe, ring, RB!Peek
    <2>7. curMem' + RB!Peek.size <= MaxInt64
      BY <1>0, <2>2, <2>4, <2>5 DEF Int64
    <2> QED  BY <2>6, <2>7 DEF Lag
  <1>8. CASE popBuf
    <2>1. /\ pc' # "pop-buf" /\ Queued' = Tail(Queued) /\ count' = count - 1 /\ count # 0
          /\ Queued # << >>
      BY <1>8, RingPop DEF popBuf, Safe, RB!Pop
    <2>2. \A k \in 1 .. count - 1 : Queued'[k] = Queued[k + 1] /\ k + 1 \in 1 .. count
      BY <1>0, <2>1, HeadTailProperties
    <2> QED  BY <2>1, <2>2 DEF Lag
  <1> QED  BY <1>2, <1>3, <1>4, <1>5, <1>6, <1>7, <1>8 DEF Next, Worker, Step

\* The counter is behind the ring by the entry the worker is adding, or has
\* counted off and not yet removed.
LEMMA Behind ==
    ASSUME SizesFit, Safe, Accounting, Books, Lag
    PROVE  \E s \in ItemSizes \cup {0} : s >= 0 /\ curMem = Total(Queued) - s
  <1>0. /\ MaxInt64 \in Nat /\ MaxMem \in Nat /\ curMem \in Int64 /\ curMem \in Int
        /\ Queued \in Seq(bufferedItem) /\ Total(Queued) \in Int64
    BY MemAssumption, QueuedType, TotalLaws DEF Safe, TypeOK, Int64
  <1>1. CASE pc = "push-curMem"
    <2>1. /\ hand.size \in ItemSizes /\ hand.size \in 0 .. MaxInt64
          /\ curMem >= 0 /\ curMem < MaxMem
      BY <1>1 DEF Safe, Established, Books, BelowLimit, BytesBounded, bufferedItem
    <2>2. Total(Queued) = Int64Add(curMem, hand.size)
      BY <1>0, <1>1, <2>1, Int64AddLaws DEF Accounting
    <2>3. curMem + hand.size \in 0 .. MaxInt64
      BY <1>0, <2>1 DEF SizesFit
    <2>4. Total(Queued) = curMem + hand.size
      BY <1>0, <2>1, <2>2, <2>3, Int64AddFits
    <2> QED  BY <1>0, <2>1, <2>4
  <1>2. CASE pc = "pop-buf"
    <2>1. count # 0 /\ Queued # << >> /\ RB!Peek = Head(Queued) /\ RB!Peek \in bufferedItem
      BY <1>2, QueuedType DEF Safe, RingAssertionsHold
    <2>2. RB!Peek.size \in 0 .. MaxInt64 /\ RB!Peek.size \in ItemSizes
      <3>1. count \in Nat /\ Len(Queued) = count
        BY QueuedType DEF Safe
      <3>2. 1 \in 1 .. count
        BY <2>1, <3>1
      <3>3. Queued[1].size \in ItemSizes
        BY <3>2 DEF Lag
      <3>4. RB!Peek = Queued[1]
        BY <1>0, <2>1, HeadTailProperties
      <3>5. RB!Peek.size \in 0 .. MaxInt64
        BY <2>1 DEF bufferedItem
      <3> QED  BY <3>3, <3>4, <3>5
    <2>3. curMem = Int64Add(Total(Queued), -RB!Peek.size)
      BY <1>0, <1>2, <2>1, TotalLaws DEF Accounting
    <2>4. Total(Queued) = Int64Add(curMem, RB!Peek.size)
      BY <1>0, <2>2, <2>3, Int64AddLaws
    <2>5. curMem + RB!Peek.size \in 0 .. MaxInt64
      BY <1>0, <1>2, <2>2 DEF Lag, Books, BytesBounded
    <2>6. Total(Queued) = curMem + RB!Peek.size
      BY <1>0, <2>2, <2>4, <2>5, Int64AddFits
    <2> QED  BY <1>0, <2>2, <2>6
  <1>3. CASE pc \notin {"push-curMem", "pop-buf"}
    <2>1. curMem = Total(Queued)
      BY <1>3 DEF Accounting
    <2>2. 0 \in ItemSizes \cup {0} /\ 0 >= 0 /\ curMem = Total(Queued) - 0
      BY <1>0, <2>1
    <2> QED  BY <2>2, Zenon
  <1> QED  BY <1>1, <1>2, <1>3

-----------------------------------------------------------------------------
\* The call: what the ring holds now is in the window while the call lasts.
Call ==
    /\ at \in {"idle", "curMem", "return"}
    /\ stats \in [items : Nat, bytes : Int]
    /\ at = "curMem" => Actual \in window
    /\ BytesOffByOneEntry

QueueInv == Safe /\ Accounting /\ Books /\ Lag

LEMMA CallStep ==
    ASSUME SizesFit, QueueInv, Call, [StatsNext]_<<vars, statsVars>>
    PROVE  Call'
  <1>0. count \in Nat /\ curMem \in Int
    BY QueuedType, CountAssumption, MemAssumption DEF QueueInv, Safe, TypeOK
  <1>1. ASSUME UNCHANGED vars PROVE Actual' = Actual /\ curMem' = curMem
    BY <1>1, RingUnchanged DEF vars, ring, Actual, QueueInv, Safe
  <1>2. CASE statsLen
    <2>1. stats' \in [items : Nat, bytes : Int]
      BY <1>0, <1>2 DEF statsLen, Call
    <2>2. at' = "curMem" /\ Actual' \in window'
      BY <1>1, <1>2 DEF statsLen
    <2> QED  BY <2>1, <2>2 DEF Call, BytesOffByOneEntry
  <1>3. CASE statsCurMem
    <2>1. at = "curMem" /\ at' = "return" /\ window' = window /\ stats' = [stats EXCEPT !.bytes = curMem]
      BY <1>3 DEF statsCurMem
    <2>2. stats' \in [items : Nat, bytes : Int] /\ stats'.bytes = curMem
      BY <1>0, <2>1 DEF Call
    <2>3. Actual \in window' /\ Actual.bytes = Total(Queued)
      BY <2>1 DEF Call, Actual
    <2>4. \E s \in ItemSizes \cup {0} : s >= 0 /\ curMem = Total(Queued) - s
      BY Behind DEF QueueInv
    <2>5. BytesOffByOneEntry'
      BY <2>2, <2>3, <2>4 DEF BytesOffByOneEntry
    <2> QED  BY <2>1, <2>2, <2>5 DEF Call
  <1>4. CASE statsUsed
    BY <1>4 DEF statsUsed, NoStats, Call, BytesOffByOneEntry
  <1>5. CASE QueueStep
    <2>1. UNCHANGED <<at, stats>> /\ (at = "curMem" => Actual' \in window')
          /\ (at # "curMem" => window' = window)
      BY <1>5 DEF QueueStep
    <2> QED  BY <2>1 DEF Call, BytesOffByOneEntry
  <1>6. CASE UNCHANGED <<vars, statsVars>>
    BY <1>1, <1>6 DEF statsVars, Call, BytesOffByOneEntry
  <1> QED  BY <1>2, <1>3, <1>4, <1>5, <1>6 DEF StatsNext

LEMMA QueueInvStep ==
    ASSUME SizesFit, QueueInv, [Next]_vars
    PROVE  QueueInv'
  BY UsersSafe, WorkerSafe, AccountingStep, StepBooks, StepLag DEF QueueInv, Next

\* Whatever the worker does between the caller's two loads, the bytes it is
\* told are those the ring held at an instant of the call, less at most one
\* entry that was being added or removed.
THEOREM StatsBehindByOne ==
    ASSUME SizesFit
    PROVE  StatsSpec => []BytesOffByOneEntry
  <1>1. StatsInit => QueueInv /\ Call
    <2> SUFFICES ASSUME StatsInit PROVE QueueInv /\ Call
      OBVIOUS
    <2>1. NewBoundedQueue
      BY DEF StatsInit
    <2>2. Queued = << >> /\ curMem = 0 /\ pc = "processItems"
      BY <2>1, RingNew DEF NewBoundedQueue
    <2>3. Accounting
      BY <2>2, TotalLaws DEF Accounting
    <2>4. Call
      BY DEF StatsInit, Call, NoStats, BytesOffByOneEntry
    <2> QED  BY <2>1, <2>3, <2>4, InitSafe, InitBooks, InitLag DEF QueueInv
  <1>2. [StatsNext]_<<vars, statsVars>> => [Next]_vars
    BY DEF StatsNext, statsLen, statsCurMem, statsUsed, QueueStep
  <1>3. QueueInv /\ Call /\ [StatsNext]_<<vars, statsVars>> => QueueInv' /\ Call'
    BY <1>2, QueueInvStep, CallStep
  <1>4. Call => BytesOffByOneEntry
    BY DEF Call
  <1> QED  BY <1>1, <1>3, <1>4, PTL DEF StatsSpec
=============================================================================
