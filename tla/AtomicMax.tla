----------------------------- MODULE AtomicMax -----------------------------
(***************************************************************************)
(* synctools/max.go: a maximum that many goroutines update without a lock. *)
(*                                                                         *)
(* Update copies its value to a newly allocated address and swaps pointers *)
(* with a compare-and-swap, which compares addresses and not values.  The  *)
(* garbage collector gives an address out again once nothing points to it, *)
(* so the model's addresses are few and are reused.                        *)
(*                                                                         *)
(* An AtomicMax that NewAtomicMax did not make has a nil pointer and a nil *)
(* comparer: Update then works once, and panics when there is a value to   *)
(* compare with.                                                           *)
(***************************************************************************)
EXTENDS Naturals

CONSTANTS Threads,
          Values,
          Zero,      \* the zero value of the type
          AtLeast,   \* <<a, b>> where comparer(a, b) >= 0
          Addrs,     \* addresses of values
          Nil        \* the nil pointer

ASSUME ValueAssumption == Zero \in Values /\ Nil \notin Values
ASSUME AddrAssumption  == Nil \notin Addrs
\* "The comparer function works the same way as cmp.Compare": a total order,
\* in which different values may compare equal.
ASSUME OrderAssumption ==
    /\ \A a, b \in Values : <<a, b>> \in AtLeast \/ <<b, a>> \in AtLeast
    /\ \A a, b, c \in Values :
           <<a, b>> \in AtLeast /\ <<b, c>> \in AtLeast => <<a, c>> \in AtLeast

VARIABLES
    ptr,        \* the shared atomic pointer
    comparer,   \* TRUE unless the comparer is nil
    heap,       \* what each address holds
    pc,         \* where each goroutine is
    val,        \* the argument of its Update
    curr, new,  \* its currPtr and &newVal
    ret         \* the result of its last call

vars == <<ptr, comparer, heap, pc, val, curr, new, ret>>

\* NewAtomicMax, or a struct without it.
Init ==
    /\ ptr \in Addrs \cup {Nil}
    /\ comparer = (ptr # Nil)
    /\ heap \in [Addrs -> Values]
    /\ \A a \in Addrs \ {ptr} : heap[a] = Zero
    /\ pc = [t \in Threads |-> "idle"]
    /\ val = [t \in Threads |-> Zero]
    /\ curr = [t \in Threads |-> Nil]
    /\ new = [t \in Threads |-> Nil]
    /\ ret = [t \in Threads |-> Zero]

Goto(t, place) == pc' = [pc EXCEPT ![t] = place]

\* Mutant: nil where the zero value is due.
ValueOrNil(p) == IF p = Nil THEN Nil ELSE heap[p]

ValueAt(p) == IF p = Nil THEN Zero ELSE heap[p]

\* Mutant: one goroutine uses the cell that another one is filling.
NotPublished(a) == a # ptr

\* No variable of the program points to it: the allocator may hand it out.
Free(a) == a # ptr /\ \A t \in Threads : a # curr[t] /\ a # new[t]

-----------------------------------------------------------------------------
CallUpdate(t, v) ==
    /\ pc[t] = "idle"
    /\ val' = [val EXCEPT ![t] = v]
    /\ ret' = [ret EXCEPT ![t] = Zero]
    /\ Goto(t, "load")
    /\ UNCHANGED <<ptr, comparer, heap, curr, new>>

load(t) ==
    /\ pc[t] = "load"
    /\ curr' = [curr EXCEPT ![t] = ptr]
    /\ Goto(t, "compare")
    /\ UNCHANGED <<ptr, comparer, heap, val, new, ret>>

\* Mutant: comparer(*currPtr, val) > 0.
RejectsLess(t) ==
    /\ curr[t] # Nil
    /\ <<heap[curr[t]], val[t]>> \in AtLeast
    /\ <<val[t], heap[curr[t]]>> \notin AtLeast

\* currPtr != nil && comparer(*currPtr, val) >= 0
Rejects(t) == curr[t] # Nil /\ <<heap[curr[t]], val[t]>> \in AtLeast

compare(t) ==
    /\ pc[t] = "compare"
    /\ \/ /\ curr[t] # Nil /\ ~comparer
          /\ Goto(t, "panic")
          /\ UNCHANGED <<heap, curr, new, ret>>
       \/ /\ curr[t] # Nil => comparer
          /\ Rejects(t)
          /\ ret' = [ret EXCEPT ![t] = heap[curr[t]]]
          /\ curr' = [curr EXCEPT ![t] = Nil]
          /\ Goto(t, "return")
          /\ UNCHANGED <<heap, new>>
       \/ /\ curr[t] # Nil => comparer
          /\ ~Rejects(t)
          /\ \E a \in Addrs :
                /\ Free(a)
                /\ heap' = [heap EXCEPT ![a] = val[t]]
                /\ new' = [new EXCEPT ![t] = a]
          /\ Goto(t, "cas")
          /\ UNCHANGED <<curr, ret>>
    /\ UNCHANGED <<ptr, comparer, val>>

\* Mutant: stores without comparing.
store(t) ==
    /\ pc[t] = "cas"
    /\ ptr' = new[t]
    /\ ret' = [ret EXCEPT ![t] = ValueAt(curr[t])]
    /\ Goto(t, "return")
    /\ curr' = [curr EXCEPT ![t] = Nil]
    /\ new' = [new EXCEPT ![t] = Nil]
    /\ UNCHANGED <<comparer, heap, val>>

cas(t) ==
    /\ pc[t] = "cas"
    /\ \/ /\ ptr = curr[t]
          /\ ptr' = new[t]
          /\ ret' = [ret EXCEPT ![t] = ValueAt(curr[t])]
          /\ Goto(t, "return")
       \/ /\ ptr # curr[t]
          /\ Goto(t, "load")
          /\ UNCHANGED <<ptr, ret>>
    /\ curr' = [curr EXCEPT ![t] = Nil]
    /\ new' = [new EXCEPT ![t] = Nil]
    /\ UNCHANGED <<comparer, heap, val>>

CallGet(t) ==
    /\ pc[t] = "idle"
    /\ val' = [val EXCEPT ![t] = Zero]
    /\ ret' = [ret EXCEPT ![t] = Zero]
    /\ Goto(t, "get")
    /\ UNCHANGED <<ptr, comparer, heap, curr, new>>

getLoad(t) ==
    /\ pc[t] = "get"
    /\ curr' = [curr EXCEPT ![t] = ptr]
    /\ Goto(t, "deref")
    /\ UNCHANGED <<ptr, comparer, heap, val, new, ret>>

deref(t) ==
    /\ pc[t] = "deref"
    /\ ret' = [ret EXCEPT ![t] = ValueAt(curr[t])]
    /\ curr' = [curr EXCEPT ![t] = Nil]
    /\ Goto(t, "return")
    /\ UNCHANGED <<ptr, comparer, heap, val, new>>

Return(t) ==
    /\ pc[t] = "return"
    /\ Goto(t, "idle")
    /\ UNCHANGED <<ptr, comparer, heap, val, curr, new, ret>>

Step(t) == load(t) \/ compare(t) \/ cas(t) \/ getLoad(t) \/ deref(t) \/ Return(t)

Next ==
    \E t \in Threads :
        \/ \E v \in Values : CallUpdate(t, v)
        \/ CallGet(t)
        \/ Step(t)

Spec == Init /\ [][Next]_vars

-----------------------------------------------------------------------------
Places == {"idle", "load", "compare", "cas", "get", "deref", "return", "panic"}

TypeOK ==
    /\ ptr \in Addrs \cup {Nil}
    /\ comparer \in BOOLEAN
    /\ heap \in [Addrs -> Values]
    /\ pc \in [Threads -> Places]
    /\ val \in [Threads -> Values]
    /\ curr \in [Threads -> Addrs \cup {Nil}]
    /\ new \in [Threads -> Addrs \cup {Nil}]
    /\ ret \in [Threads -> Values]

\* An address that one goroutine has filled and not yet published is its own:
\* no other goroutine, nor the shared pointer, can reach it.
NewIsPrivate ==
    \A t \in Threads :
        /\ (pc[t] = "cas") = (new[t] # Nil)
        /\ pc[t] = "cas" =>
              /\ heap[new[t]] = val[t]
              /\ new[t] # ptr
              /\ \A u \in Threads : new[t] # curr[u] /\ (u # t => new[t] # new[u])

-----------------------------------------------------------------------------
\* Every Update and Get takes effect at one instant: an Update that is turned
\* down, at the load that saw a value no smaller; one that succeeds, at its
\* swap; and each returns the maximum of that very instant.
Decided(t) ==
    \/ pc[t] \in {"deref", "return"}
    \/ pc[t] \in {"compare", "panic"} /\ Rejects(t)

Reg == IF ptr = Nil THEN Nil ELSE heap[ptr]

CallOf(t) ==
    CASE Decided(t)                 -> "done"
      [] ~Decided(t) /\ pc[t] \in {"idle", "get"} -> pc[t]
      [] OTHER                      -> "update"

RetOf(t) == IF Decided(t) /\ pc[t] # "return" THEN ValueAt(curr[t]) ELSE ret[t]

Register == INSTANCE MaxRegister WITH
    None <- Nil,
    reg  <- Reg,
    call <- [t \in Threads |-> CallOf(t)],
    arg  <- val,
    ret  <- [t \in Threads |-> RetOf(t)]

MaxSpec == Register!Spec

\* The Go scheduler keeps running a goroutine that can run.
LiveSpec == Spec /\ \A t \in Threads : WF_vars(Step(t))

\* The retry loop ends: a swap fails only because another one raised the
\* maximum, and it can be raised only so often.
CallsReturn == \A t \in Threads : pc[t] # "idle" ~> pc[t] \in {"idle", "panic"}
=============================================================================
