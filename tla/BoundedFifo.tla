---------------------------- MODULE BoundedFifo ----------------------------
(***************************************************************************)
(* What a ringbuf.RingBuf promises its single owner: a first-in-first-out  *)
(* queue that holds at most Capacity items.  RingBuf.tla, which keeps an   *)
(* array and two indexes, is shown to implement this.                      *)
(***************************************************************************)
EXTENDS Naturals, Sequences

CONSTANTS Capacity,  \* the fixed capacity given to ringbuf.New
          Items      \* what the caller may push

VARIABLE q           \* the items pushed and not yet popped, oldest first

Init == q = << >>

Put(x) ==
    /\ Len(q) < Capacity
    /\ q' = Append(q, x)

Take ==
    /\ q # << >>
    /\ q' = Tail(q)

Next == (\E x \in Items : Put(x)) \/ Take

Spec == Init /\ [][Next]_q
=============================================================================
