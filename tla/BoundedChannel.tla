--------------------------- MODULE BoundedChannel ---------------------------
(***************************************************************************)
(* What NewBoundedQueue promises ("like a channel"): one FIFO channel of   *)
(* at most MaxCount items between the senders of `in` and the receivers of *)
(* `out`.  `out` is closed only when every accepted item was delivered,    *)
(* unless the context ended or the caller's size function returned a       *)
(* negative size.  BoundedQueue.tla, the worker goroutine that moves items *)
(* through a ring buffer one step at a time, is shown to implement this.   *)
(***************************************************************************)
EXTENDS Integers, Sequences

CONSTANTS Producers,  \* goroutines that send to `in`
          Consumers,  \* goroutines that receive from `out`
          Items,
          NoItem,     \* not an item: a goroutine that is not sending
          MaxCount,
          CanFail     \* TRUE iff size may return a negative number

VARIABLES chan,       \* the items accepted and not yet delivered
          sending,    \* what each producer is blocked sending
          rx, got,    \* each consumer's state, and the item it received last
          inClosed, outClosed, ctxDone, failed

chanVars == <<chan, sending, rx, got, inClosed, outClosed, ctxDone, failed>>

Init ==
    /\ chan = << >>
    /\ sending = [p \in Producers |-> NoItem]
    /\ rx = [c \in Consumers |-> "idle"]
    /\ got = [c \in Consumers |-> NoItem]
    /\ ~inClosed /\ ~outClosed /\ ~ctxDone /\ ~failed

-----------------------------------------------------------------------------
\* The users of the channel.
StartSend(p, x) ==
    /\ ~inClosed
    /\ sending[p] = NoItem
    /\ sending' = [sending EXCEPT ![p] = x]
    /\ UNCHANGED <<chan, rx, got, inClosed, outClosed, ctxDone, failed>>

CloseIn ==
    /\ ~inClosed
    /\ \A p \in Producers : sending[p] = NoItem
    /\ inClosed' = TRUE
    /\ UNCHANGED <<chan, sending, rx, got, outClosed, ctxDone, failed>>

StartReceive(c) ==
    /\ rx[c] = "idle"
    /\ rx' = [rx EXCEPT ![c] = "receiving"]
    /\ got' = [got EXCEPT ![c] = NoItem]
    /\ UNCHANGED <<chan, sending, inClosed, outClosed, ctxDone, failed>>

SeeClosed(c) ==
    /\ outClosed
    /\ rx[c] = "receiving"
    /\ rx' = [rx EXCEPT ![c] = "closed"]
    /\ UNCHANGED <<chan, sending, got, inClosed, outClosed, ctxDone, failed>>

Cancel ==
    /\ ~ctxDone
    /\ ctxDone' = TRUE
    /\ UNCHANGED <<chan, sending, rx, got, inClosed, outClosed, failed>>

-----------------------------------------------------------------------------
\* The channel.
Accept(p) ==
    /\ ~outClosed /\ ~failed
    /\ sending[p] # NoItem
    /\ Len(chan) < MaxCount
    /\ chan' = Append(chan, sending[p])
    /\ sending' = [sending EXCEPT ![p] = NoItem]
    /\ UNCHANGED <<rx, got, inClosed, outClosed, ctxDone, failed>>

Deliver(c) ==
    /\ ~outClosed /\ ~failed
    /\ rx[c] = "receiving"
    /\ chan # << >>
    /\ chan' = Tail(chan)
    /\ rx' = [rx EXCEPT ![c] = "idle"]
    /\ got' = [got EXCEPT ![c] = Head(chan)]
    /\ UNCHANGED <<sending, inClosed, outClosed, ctxDone, failed>>

Fail ==
    /\ CanFail
    /\ ~outClosed /\ ~failed
    /\ chan # << >>
    /\ failed' = TRUE
    /\ UNCHANGED <<chan, sending, rx, got, inClosed, outClosed, ctxDone>>

CloseOut ==
    /\ ~outClosed
    /\ (inClosed /\ chan = << >>) \/ ctxDone \/ failed
    /\ outClosed' = TRUE
    /\ UNCHANGED <<chan, sending, rx, got, inClosed, ctxDone, failed>>

Next ==
    \/ \E p \in Producers : (\E x \in Items : StartSend(p, x)) \/ Accept(p)
    \/ \E c \in Consumers : StartReceive(c) \/ Deliver(c) \/ SeeClosed(c)
    \/ CloseIn \/ Cancel \/ Fail \/ CloseOut

Spec == Init /\ [][Next]_chanVars
=============================================================================
