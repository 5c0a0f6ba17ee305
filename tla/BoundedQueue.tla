---------------------------- MODULE BoundedQueue ----------------------------
(***************************************************************************)
(* synctools/bounded_queue.go: a channel limited both by the number of its *)
(* items and, softly, by their total size.                                 *)
(*                                                                         *)
(* One worker goroutine receives from `in`, buffers in a ring and sends to *)
(* `out`.  Only it changes the ring and curMem, each with an atomic that   *)
(* the stats function reads, so an action here does at most one such       *)
(* access, or one rendezvous on a channel.  A `select` that finds several  *)
(* branches ready takes any of them.                                       *)
(*                                                                         *)
(* The size function is the caller's.  The code asks it once per item and  *)
(* does not rely on it to repeat its answer: each call here may return any *)
(* size.                                                                   *)
(***************************************************************************)
EXTENDS Integers, Sequences

CONSTANTS Producers,  \* goroutines that send to `in`
          Consumers,  \* goroutines that receive from `out`
          Items,
          NoItem,     \* the zero value of the item type
          ItemSizes,  \* what size may return
          MaxCount,
          MaxMem,
          MaxInt64    \* 2^63 - 1, made small for model checking

ASSUME CountAssumption == MaxCount \in Nat \ {0}   \* else NewBoundedQueue panics
ASSUME MemAssumption   == MaxMem \in Nat \ {0} /\ MaxInt64 \in Nat /\ MaxMem <= MaxInt64
ASSUME SizeAssumption  == ItemSizes \subseteq (-(MaxInt64 + 1)) .. MaxInt64
ASSUME ItemAssumption  == NoItem \notin Items

VARIABLES
    buf, head, tail, count,  \* the ring buffer
    curMem,
    pc,                      \* what the worker does next
    hand,                    \* the item, then also its size, that push() handles
    shutdown,                \* why the worker leaves its loop
    sending,                 \* what each producer is blocked sending on `in`
    rx, got,                 \* each consumer's state, and the item it received last
    inClosed, outClosed, ctxDone

ring  == <<buf, head, tail, count>>
users == <<sending, rx, got, inClosed, ctxDone>>
vars  == <<ring, curMem, pc, hand, shutdown, users, outClosed>>

bufferedItem == [item : Items, size : 0 .. MaxInt64]
ZeroItem == [item |-> NoItem, size |-> 0]

RB == INSTANCE RingBuf WITH Capacity <- MaxCount, Items <- bufferedItem, Zero <- ZeroItem

\* atomic.Int64.Add: two's complement.
Int64Add(a, b) ==
    LET span == 2 * (MaxInt64 + 1)
    IN  ((a + b + MaxInt64 + 1) % span) - (MaxInt64 + 1)

NewBoundedQueue ==
    /\ RB!New
    /\ curMem = 0
    /\ pc = "processItems"
    /\ hand = ZeroItem
    /\ shutdown = "no"
    /\ sending = [p \in Producers |-> NoItem]
    /\ rx = [c \in Consumers |-> "idle"]
    /\ got = [c \in Consumers |-> NoItem]
    /\ inClosed = FALSE /\ outClosed = FALSE /\ ctxDone = FALSE

-----------------------------------------------------------------------------
(***************************************************************************)
(* The worker.                                                             *)
(***************************************************************************)
\* Mutants: only one of the two limits.
AtLimitOfBytes == curMem >= MaxMem
AtLimitOfCount == count = MaxCount

AtLimit == count = MaxCount \/ curMem >= MaxMem

processItems ==
    /\ pc = "processItems"
    /\ \/ count = 0 /\ pc' = "receiveItem"
       \/ count # 0 /\ AtLimit /\ pc' = "drainOne"
       \/ count # 0 /\ ~AtLimit /\ pc' = "receiveOrSendNormal"
    /\ UNCHANGED <<ring, curMem, hand, shutdown, users, outClosed>>

\* The branches of the four selects.
Receiving == {"receiveItem", "receiveOrSendNormal"}
Sending   == {"drainOne", "receiveOrSendNormal", "flushRemaining"}
Selecting == Receiving \cup Sending

\* Mutant: flushRemaining does not watch the context.
SelectDoneNotFlushing ==
    /\ pc \in Selecting \ {"flushRemaining"}
    /\ ctxDone
    /\ pc' = "closeOut"
    /\ shutdown' = "ctx"
    /\ UNCHANGED <<ring, curMem, hand, users, outClosed>>

SelectDone ==
    /\ pc \in Selecting
    /\ pc = "flushRemaining" => count > 0
    /\ ctxDone
    /\ pc' = "closeOut"
    /\ shutdown' = "ctx"
    /\ UNCHANGED <<ring, curMem, hand, users, outClosed>>

SelectReceive(p) ==
    /\ pc \in Receiving
    /\ sending[p] # NoItem
    /\ hand' = [item |-> sending[p], size |-> 0]
    /\ sending' = [sending EXCEPT ![p] = NoItem]
    /\ pc' = "push"
    /\ UNCHANGED <<ring, curMem, shutdown, rx, got, inClosed, ctxDone, outClosed>>

\* Mutant: leaves without a flush.
SelectInClosedNoFlush ==
    /\ pc \in Receiving
    /\ inClosed
    /\ pc' = "closeOut"
    /\ shutdown' = "input"
    /\ UNCHANGED <<ring, curMem, hand, users, outClosed>>

SelectInClosed ==
    /\ pc \in Receiving
    /\ inClosed
    /\ pc' = IF pc = "receiveItem" THEN "closeOut" ELSE "flushRemaining"
    /\ shutdown' = "input"
    /\ UNCHANGED <<ring, curMem, hand, users, outClosed>>

\* Mutant: does not pop what it sent.
SelectSendKeeping(c) ==
    /\ pc \in Sending
    /\ pc = "flushRemaining" => count > 0
    /\ rx[c] = "receiving"
    /\ rx' = [rx EXCEPT ![c] = "idle"]
    /\ got' = [got EXCEPT ![c] = RB!Peek.item]
    /\ pc' = IF pc = "flushRemaining" THEN pc ELSE "processItems"
    /\ UNCHANGED <<ring, curMem, hand, shutdown, sending, inClosed, ctxDone, outClosed>>

SelectSend(c) ==
    /\ pc \in Sending
    /\ pc = "flushRemaining" => count > 0
    /\ rx[c] = "receiving"
    /\ rx' = [rx EXCEPT ![c] = "idle"]
    /\ got' = [got EXCEPT ![c] = RB!Peek.item]
    /\ pc' = "pop"
    /\ UNCHANGED <<ring, curMem, hand, shutdown, sending, inClosed, ctxDone, outClosed>>

\* Mutant: Len() >= 0.
FlushedNever ==
    /\ pc = "flushRemaining"
    /\ count < 0
    /\ pc' = "closeOut"
    /\ UNCHANGED <<ring, curMem, hand, shutdown, users, outClosed>>

\* The loop condition of flushRemaining.
Flushed ==
    /\ pc = "flushRemaining"
    /\ count = 0
    /\ pc' = "closeOut"
    /\ UNCHANGED <<ring, curMem, hand, shutdown, users, outClosed>>

\* Mutant: no assertion on the size.
pushUnchecked(s) ==
    /\ pc = "push"
    /\ RB!Push([hand EXCEPT !.size = s])
    /\ hand' = [hand EXCEPT !.size = s]
    /\ pc' = "push-curMem"
    /\ UNCHANGED <<shutdown, curMem, users, outClosed>>

\* itemSize and buf.Push.  A negative size panics: run's deferred close(out)
\* still happens before the panic ends the process.
push(s) ==
    /\ pc = "push"
    /\ IF s < 0
       THEN /\ shutdown' = "panic"
            /\ pc' = "closeOut"
            /\ UNCHANGED <<ring, hand>>
       ELSE /\ RB!Push([hand EXCEPT !.size = s])
            /\ hand' = [hand EXCEPT !.size = s]
            /\ pc' = "push-curMem"
            /\ UNCHANGED shutdown
    /\ UNCHANGED <<curMem, users, outClosed>>

pushCurMem ==
    /\ pc = "push-curMem"
    /\ curMem' = Int64Add(curMem, hand.size)
    /\ hand' = ZeroItem
    /\ pc' = "processItems"
    /\ UNCHANGED <<ring, shutdown, users, outClosed>>

\* Mutant: asks for the size again.
popAskingAgain ==
    /\ pc = "pop"
    /\ \E s \in ItemSizes : curMem' = Int64Add(curMem, -s)
    /\ pc' = "pop-buf"
    /\ UNCHANGED <<ring, hand, shutdown, users, outClosed>>

pop ==
    /\ pc = "pop"
    /\ curMem' = Int64Add(curMem, -RB!Peek.size)
    /\ pc' = "pop-buf"
    /\ UNCHANGED <<ring, hand, shutdown, users, outClosed>>

popBuf ==
    /\ pc = "pop-buf"
    /\ RB!Pop
    /\ pc' = IF shutdown = "input" THEN "flushRemaining" ELSE "processItems"
    /\ UNCHANGED <<curMem, hand, shutdown, users, outClosed>>

\* run's deferred close(out).
closeOut ==
    /\ pc = "closeOut"
    /\ outClosed' = TRUE
    /\ pc' = IF shutdown = "panic" THEN "panic" ELSE "done"
    /\ UNCHANGED <<ring, curMem, hand, shutdown, users>>

\* Nothing recovers the panic: it ends the process.
crash ==
    /\ pc = "panic"
    /\ pc' = "crashed"
    /\ UNCHANGED <<ring, curMem, hand, shutdown, users, outClosed>>

Step == processItems \/ Flushed \/ pushCurMem \/ pop \/ popBuf \/ closeOut \/ crash

Worker ==
    \/ Step
    \/ \E s \in ItemSizes : push(s)
    \/ SelectDone
    \/ SelectInClosed
    \/ \E p \in Producers : SelectReceive(p)
    \/ \E c \in Consumers : SelectSend(c)

-----------------------------------------------------------------------------
(***************************************************************************)
(* The users of the queue and of its context.  They follow Go's rules for  *)
(* channels: nobody sends on `in` after, or while, somebody closes it.     *)
(***************************************************************************)
Alive == pc # "crashed"

StartSend(p, x) ==
    /\ Alive /\ ~inClosed
    /\ sending[p] = NoItem
    /\ sending' = [sending EXCEPT ![p] = x]
    /\ UNCHANGED <<ring, curMem, pc, hand, shutdown, rx, got, inClosed, ctxDone, outClosed>>

CloseIn ==
    /\ Alive /\ ~inClosed
    /\ \A p \in Producers : sending[p] = NoItem
    /\ inClosed' = TRUE
    /\ UNCHANGED <<ring, curMem, pc, hand, shutdown, sending, rx, got, ctxDone, outClosed>>

StartReceive(c) ==
    /\ Alive
    /\ rx[c] = "idle"
    /\ rx' = [rx EXCEPT ![c] = "receiving"]
    /\ got' = [got EXCEPT ![c] = NoItem]
    /\ UNCHANGED <<ring, curMem, pc, hand, shutdown, sending, inClosed, ctxDone, outClosed>>

SeeClosed(c) ==
    /\ Alive /\ outClosed
    /\ rx[c] = "receiving"
    /\ rx' = [rx EXCEPT ![c] = "closed"]
    /\ UNCHANGED <<ring, curMem, pc, hand, shutdown, sending, got, inClosed, ctxDone, outClosed>>

Cancel ==
    /\ Alive /\ ~ctxDone
    /\ ctxDone' = TRUE
    /\ UNCHANGED <<ring, curMem, pc, hand, shutdown, sending, rx, got, inClosed, outClosed>>

Users ==
    \/ \E p \in Producers, x \in Items : StartSend(p, x)
    \/ \E c \in Consumers : StartReceive(c) \/ SeeClosed(c)
    \/ CloseIn
    \/ Cancel

Next == Worker \/ Users

Spec == NewBoundedQueue /\ [][Next]_vars

-----------------------------------------------------------------------------
(***************************************************************************)
(* Safety.                                                                 *)
(***************************************************************************)
Queued == RB!Contents

TypeOK ==
    /\ RB!TypeOK
    /\ curMem \in -(MaxInt64 + 1) .. MaxInt64
    /\ pc \in Selecting \cup {"processItems", "push", "push-curMem", "pop", "pop-buf",
                            "closeOut", "done", "panic", "crashed"}
    /\ hand \in bufferedItem \cup {ZeroItem}
    /\ shutdown \in {"no", "input", "ctx", "panic"}
    /\ sending \in [Producers -> Items \cup {NoItem}]
    /\ rx \in [Consumers -> {"idle", "receiving", "closed"}]
    /\ got \in [Consumers -> Items \cup {NoItem}]
    /\ inClosed \in BOOLEAN /\ outClosed \in BOOLEAN /\ ctxDone \in BOOLEAN

\* The assertions of ringbuf's Push ("buffer must be non-full"), Peek and Pop
\* never fail: no interleaving of receives, sends and limits makes the worker
\* push to a full ring or read an empty one, which would crash the process.
RingAssertionsHold ==
    /\ pc = "push" => count < MaxCount
    /\ pc \in {"drainOne", "receiveOrSendNormal", "pop", "pop-buf"} => count # 0

\* The total size of a sequence of entries, in the arithmetic of an int64.
Total(entries) ==
    LET sum[k \in 0 .. Len(entries)] ==
            IF k = 0 THEN 0 ELSE Int64Add(sum[k - 1], entries[k].size)
    IN  sum[Len(entries)]

\* "Size is computed once on receipt and reused on drain to ensure curMem
\* invariants": curMem is the total size of what the ring holds, up to the one
\* entry that push or pop is working on, even when the total overflowed.
Accounting ==
    curMem = CASE pc = "push-curMem" -> Int64Add(Total(Queued), -hand.size)
               [] pc = "pop-buf"     -> Total(Tail(Queued))
               [] OTHER              -> Total(Queued)

\* The total-size limit is soft, but "will not grow without bound": the queue
\* exceeds it by less than one item.  It needs sizes whose sums fit an int64.
SizesFit == \A s \in ItemSizes : MaxMem - 1 + s <= MaxInt64

BytesBounded ==
    /\ curMem >= 0
    /\ curMem < MaxMem \/ \E s \in ItemSizes : curMem < MaxMem + s

\* A queue that was closed by its senders, and not cancelled, ends with an
\* empty ring and no bytes in its books.
DrainedIsZero ==
    pc = "done" /\ shutdown = "input" => count = 0 /\ curMem = 0

-----------------------------------------------------------------------------
\* The worker, its ring and its counter behave as one bounded FIFO channel:
\* nothing is lost, duplicated or reordered between `in` and `out`, and `out`
\* closes early only after a cancellation or a panic.
Undelivered ==
    CASE pc \in {"pop", "pop-buf"}              -> Tail(Queued)
      [] pc = "push" \/ shutdown = "panic"      -> Append(Queued, hand)
      [] OTHER                                  -> Queued

ItemsOf(s) == [k \in DOMAIN s |-> s[k].item]

Channel == INSTANCE BoundedChannel WITH
    chan    <- ItemsOf(Undelivered),
    failed  <- shutdown = "panic",
    CanFail <- \E s \in ItemSizes : s < 0

ChannelSpec == Channel!Spec

-----------------------------------------------------------------------------
(***************************************************************************)
(* Liveness.  The Go scheduler keeps running a goroutine that can run, and *)
(* select picks among the ready branches at random, so it does not pass    *)
(* over a branch that is ready infinitely often.  A channel serves its     *)
(* blocked senders and receivers in the order they came.                   *)
(***************************************************************************)
WorkerFairness ==
    /\ WF_vars(Step \/ \E s \in ItemSizes : push(s))
    /\ SF_vars(SelectDone)
    /\ SF_vars(SelectInClosed)
    /\ \A p \in Producers : SF_vars(SelectReceive(p))
    /\ \A c \in Consumers : SF_vars(SelectSend(c))

LiveSpec == Spec /\ WorkerFairness

\* Not the worker's doing: the consumers come back for another item.
ConsumersKeepReading == \A c \in Consumers : WF_vars(StartReceive(c))

\* "Context cancellation/expiry will cause the queue to shut down": out gets
\* closed even if nobody reads it any more, wherever the worker was blocked.
CancelShutsDown == ctxDone ~> outClosed

\* Closing `in` flushes the buffer and closes `out`.
CloseDrains == ConsumersKeepReading => (inClosed ~> outClosed)

\* No limit, once reached, keeps a sender waiting for ever.
SendersProceed ==
    ConsumersKeepReading =>
        \A p \in Producers : sending[p] # NoItem ~> (sending[p] = NoItem \/ outClosed)
=============================================================================
