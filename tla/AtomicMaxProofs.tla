-------------------------- MODULE AtomicMaxProofs --------------------------
(***************************************************************************)
(* AtomicMax is linearizable, for any number of goroutines, any values and *)
(* any total order with ties that compares them.                           *)
(*                                                                         *)
(* A compare-and-swap compares addresses, so it can mistake a reused       *)
(* address for an unchanged value.  What rules that out is that nothing    *)
(* reuses an address some goroutine still holds: Inv says that the value   *)
(* behind currPtr is the one the comparison saw, until the swap.           *)
(***************************************************************************)
EXTENDS AtomicMax, TLAPS

USE ValueAssumption, AddrAssumption

Beaten == \A t \in Threads : pc[t] = "cas" => ~Rejects(t)

Inv == TypeOK /\ NewIsPrivate /\ Beaten

LEMMA InitInv == Init => Inv
  BY DEF Init, Inv, TypeOK, NewIsPrivate, Beaten, Places

\* A goroutine that only moves its own pc, val, curr and ret, and is and was
\* not about to swap, disturbs nothing.
LEMMA LocalStep ==
    ASSUME Inv, NEW t \in Threads,
           UNCHANGED <<ptr, comparer, heap, new>>,
           NEW q \in Places, Goto(t, q), q # "cas", pc[t] # "cas",
           NEW v \in Values, val' = [val EXCEPT ![t] = v],
           NEW r \in Values, ret' = [ret EXCEPT ![t] = r],
           NEW c \in Addrs \cup {Nil}, c \in {ptr, curr[t], Nil}, curr' = [curr EXCEPT ![t] = c]
    PROVE  Inv'
  <1> USE DEF Inv
  <1>1. TypeOK'
    BY DEF TypeOK, Goto
  <1>2. \A u \in Threads : u # t => pc'[u] = pc[u] /\ val'[u] = val[u] /\ curr'[u] = curr[u]
    BY DEF TypeOK, Goto
  <1>3. pc'[t] = q /\ curr'[t] = c
    BY DEF TypeOK, Goto
  <1>4. NewIsPrivate'
    <2> SUFFICES ASSUME NEW u \in Threads
                 PROVE  /\ (pc'[u] = "cas") = (new[u] # Nil)
                        /\ pc'[u] = "cas" =>
                              /\ heap[new[u]] = val'[u]
                              /\ new[u] # ptr
                              /\ \A w \in Threads : new[u] # curr'[w] /\ (w # u => new[u] # new[w])
      BY DEF NewIsPrivate
    <2>1. CASE u = t
      BY <1>3, <2>1 DEF NewIsPrivate
    <2>2. CASE u # t
      <3>1. new[u] # Nil => new[u] # c
        BY <2>2 DEF NewIsPrivate
      <3> QED  BY <1>2, <1>3, <2>2, <3>1 DEF NewIsPrivate
    <2> QED  BY <2>1, <2>2
  <1>5. Beaten'
    BY <1>2, <1>3 DEF Beaten, Rejects
  <1> QED  BY <1>1, <1>4, <1>5

LEMMA AllocStep ==
    ASSUME Inv, NEW t \in Threads, pc[t] = "compare", ~Rejects(t),
           NEW a \in Addrs, Free(a),
           heap' = [heap EXCEPT ![a] = val[t]],
           new' = [new EXCEPT ![t] = a],
           Goto(t, "cas"),
           UNCHANGED <<ptr, comparer, val, curr, ret>>
    PROVE  Inv'
  <1> USE DEF Inv
  <1>1. TypeOK'
    BY DEF TypeOK, Goto, Places
  <1>2. \A u \in Threads : u # t => pc'[u] = pc[u] /\ new'[u] = new[u]
    BY DEF TypeOK, Goto
  <1>3. pc'[t] = "cas" /\ new'[t] = a /\ heap'[a] = val[t]
    BY DEF TypeOK, Goto
  <1>4. \A p \in Addrs : p # a => heap'[p] = heap[p]
    BY DEF TypeOK
  <1>5. a # Nil /\ a # ptr /\ \A u \in Threads : a # curr[u] /\ a # new[u]
    BY DEF Free
  <1>6. NewIsPrivate'
    <2> SUFFICES ASSUME NEW u \in Threads
                 PROVE  /\ (pc'[u] = "cas") = (new'[u] # Nil)
                        /\ pc'[u] = "cas" =>
                              /\ heap'[new'[u]] = val[u]
                              /\ new'[u] # ptr
                              /\ \A w \in Threads : new'[u] # curr[w] /\ (w # u => new'[u] # new'[w])
      BY DEF NewIsPrivate
    <2>1. CASE u = t
      BY <1>2, <1>3, <1>5, <2>1
    <2>2. CASE u # t
      <3>1. new[u] # a /\ (new[u] # Nil => heap'[new[u]] = heap[new[u]])
        BY <1>4, <1>5 DEF TypeOK
      <3> QED  BY <1>2, <1>3, <1>5, <2>2, <3>1 DEF NewIsPrivate
    <2> QED  BY <2>1, <2>2
  <1>7. Beaten'
    <2> SUFFICES ASSUME NEW u \in Threads, pc'[u] = "cas"
                 PROVE  ~Rejects(u)'
      BY DEF Beaten
    <2>1. curr[u] # Nil => heap'[curr[u]] = heap[curr[u]]
      BY <1>4, <1>5 DEF TypeOK
    <2>2. ~Rejects(u)
      BY <1>2 DEF Beaten
    <2> QED  BY <2>1, <2>2 DEF Rejects
  <1> QED  BY <1>1, <1>6, <1>7

LEMMA CasStep ==
    ASSUME Inv, NEW t \in Threads, cas(t)
    PROVE  Inv'
  <1> USE DEF Inv
  <1>0. new[t] \in Addrs /\ pc[t] = "cas"
    BY DEF cas, NewIsPrivate, TypeOK
  <1>1. TypeOK'
    BY <1>0 DEF cas, TypeOK, Goto, Places, ValueAt
  <1>2. \A u \in Threads : u # t => pc'[u] = pc[u] /\ new'[u] = new[u] /\ curr'[u] = curr[u]
    BY DEF TypeOK, Goto, cas
  <1>3. pc'[t] # "cas" /\ new'[t] = Nil /\ curr'[t] = Nil /\ ptr' \in {ptr, new[t]}
    BY DEF TypeOK, Goto, cas
  <1>4. UNCHANGED <<heap, val>>
    BY DEF cas
  <1>5. NewIsPrivate'
    <2> SUFFICES ASSUME NEW u \in Threads
                 PROVE  /\ (pc'[u] = "cas") = (new'[u] # Nil)
                        /\ pc'[u] = "cas" =>
                              /\ heap[new'[u]] = val[u]
                              /\ new'[u] # ptr'
                              /\ \A w \in Threads : new'[u] # curr'[w] /\ (w # u => new'[u] # new'[w])
      BY <1>4 DEF NewIsPrivate
    <2>1. CASE u = t
      BY <1>3, <2>1
    <2>2. CASE u # t
      BY <1>2, <1>3, <2>2 DEF NewIsPrivate
    <2> QED  BY <2>1, <2>2
  <1>6. Beaten'
    BY <1>2, <1>3, <1>4 DEF Beaten, Rejects
  <1> QED  BY <1>1, <1>5, <1>6

LEMMA NextInv ==
    ASSUME Inv, [Next]_vars
    PROVE  Inv'
  <1>0. TypeOK /\ \A t \in Threads : /\ val[t] \in Values /\ ret[t] \in Values
                                     /\ val = [val EXCEPT ![t] = val[t]]
                                     /\ ret = [ret EXCEPT ![t] = ret[t]]
    BY DEF Inv, TypeOK
  <1>1. ASSUME NEW t \in Threads, NEW v \in Values, CallUpdate(t, v) PROVE Inv'
    <2>1. /\ curr[t] \in Addrs \cup {Nil} /\ curr' = [curr EXCEPT ![t] = curr[t]]
          /\ val' = [val EXCEPT ![t] = v] /\ ret' = [ret EXCEPT ![t] = Zero]
          /\ pc[t] # "cas" /\ "load" \in Places /\ Goto(t, "load")
          /\ UNCHANGED <<ptr, comparer, heap, new>>
      BY <1>0, <1>1 DEF CallUpdate, TypeOK, Places
    <2> QED  BY <2>1, LocalStep
  <1>2. ASSUME NEW t \in Threads, CallGet(t) PROVE Inv'
    <2>1. /\ curr[t] \in Addrs \cup {Nil} /\ curr' = [curr EXCEPT ![t] = curr[t]]
          /\ val' = [val EXCEPT ![t] = Zero] /\ ret' = [ret EXCEPT ![t] = Zero]
          /\ pc[t] # "cas" /\ "get" \in Places /\ Goto(t, "get")
          /\ UNCHANGED <<ptr, comparer, heap, new>>
      BY <1>0, <1>2 DEF CallGet, TypeOK, Places
    <2> QED  BY <2>1, LocalStep
  <1>3. ASSUME NEW t \in Threads, load(t) PROVE Inv'
    <2>1. /\ ptr \in Addrs \cup {Nil} /\ curr' = [curr EXCEPT ![t] = ptr]
          /\ pc[t] # "cas" /\ "compare" \in Places /\ Goto(t, "compare")
          /\ UNCHANGED <<ptr, comparer, heap, val, new, ret>>
      BY <1>0, <1>3 DEF load, TypeOK, Places
    <2> QED  BY <1>0, <2>1, LocalStep
  <1>4. ASSUME NEW t \in Threads, compare(t) PROVE Inv'
    <2>0. /\ pc[t] = "compare" /\ UNCHANGED <<ptr, comparer, val>>
          /\ curr[t] \in Addrs \cup {Nil} /\ curr = [curr EXCEPT ![t] = curr[t]]
          /\ "panic" \in Places /\ "return" \in Places
      BY <1>0, <1>4 DEF compare, TypeOK, Places
    <2>1. CASE Goto(t, "panic") /\ UNCHANGED <<heap, curr, new, ret>>
      BY <1>0, <2>0, <2>1, LocalStep
    <2>2. CASE /\ Rejects(t) /\ Goto(t, "return") /\ UNCHANGED <<heap, new>>
               /\ ret' = [ret EXCEPT ![t] = heap[curr[t]]]
               /\ curr' = [curr EXCEPT ![t] = Nil]
      <3>1. heap[curr[t]] \in Values
        BY <1>0, <2>2 DEF Rejects, TypeOK
      <3> QED  BY <1>0, <2>0, <2>2, <3>1, LocalStep
    <2>3. CASE ~Rejects(t) /\ Goto(t, "cas") /\ UNCHANGED <<curr, ret>>
               /\ \E a \in Addrs : /\ Free(a)
                                   /\ heap' = [heap EXCEPT ![a] = val[t]]
                                   /\ new' = [new EXCEPT ![t] = a]
      BY <2>0, <2>3, AllocStep
    <2> QED  BY <1>4, <2>1, <2>2, <2>3 DEF compare
  <1>5. ASSUME NEW t \in Threads, getLoad(t) PROVE Inv'
    <2>1. /\ ptr \in Addrs \cup {Nil} /\ curr' = [curr EXCEPT ![t] = ptr]
          /\ pc[t] # "cas" /\ "deref" \in Places /\ Goto(t, "deref")
          /\ UNCHANGED <<ptr, comparer, heap, val, new, ret>>
      BY <1>0, <1>5 DEF getLoad, TypeOK, Places
    <2> QED  BY <1>0, <2>1, LocalStep
  <1>6. ASSUME NEW t \in Threads, deref(t) PROVE Inv'
    <2>1. /\ ValueAt(curr[t]) \in Values /\ ret' = [ret EXCEPT ![t] = ValueAt(curr[t])]
          /\ curr' = [curr EXCEPT ![t] = Nil]
          /\ pc[t] # "cas" /\ "return" \in Places /\ Goto(t, "return")
          /\ UNCHANGED <<ptr, comparer, heap, val, new>>
      BY <1>0, <1>6 DEF deref, TypeOK, Places, ValueAt
    <2> QED  BY <1>0, <2>1, LocalStep
  <1>7. ASSUME NEW t \in Threads, Return(t) PROVE Inv'
    BY <1>0, <1>7, LocalStep DEF Return, Places, TypeOK
  <1>8. CASE UNCHANGED vars
    BY <1>8 DEF vars, Inv, TypeOK, NewIsPrivate, Beaten, Rejects
  <1> QED  BY <1>1, <1>2, <1>3, <1>4, <1>5, <1>6, <1>7, <1>8, CasStep DEF Next, Step

LEMMA AlwaysInv == Spec => []Inv
  BY InitInv, NextInv, PTL DEF Spec

\* Whatever calls overlap, the pointer, every goroutine's place and every
\* result keep their types.
THEOREM TypeCorrect == Spec => []TypeOK
  BY AlwaysInv, PTL DEF Inv

\* The cell that Update fills before its swap is reached by nobody else.
THEOREM NewCellIsPrivate == Spec => []NewIsPrivate
  BY AlwaysInv, PTL DEF Inv

-----------------------------------------------------------------------------
(***************************************************************************)
(* Linearizability: every step is a step of MaxRegister, or a stutter.     *)
(***************************************************************************)

\* What one goroutine does leaves the others' abstract calls alone, if it does
\* not write to a cell that one of them holds.
LEMMA Others ==
    ASSUME Inv, NEW t \in Threads,
           \A u \in Threads \ {t} :
               /\ pc'[u] = pc[u] /\ val'[u] = val[u]
               /\ curr'[u] = curr[u] /\ ret'[u] = ret[u]
               /\ curr[u] # Nil => heap'[curr[u]] = heap[curr[u]]
    PROVE  \A u \in Threads \ {t} : CallOf(u)' = CallOf(u) /\ RetOf(u)' = RetOf(u)
  <1> SUFFICES ASSUME NEW u \in Threads \ {t}
               PROVE  CallOf(u)' = CallOf(u) /\ RetOf(u)' = RetOf(u)
    OBVIOUS
  <1>1. Rejects(u)' = Rejects(u) /\ ValueAt(curr[u])' = ValueAt(curr[u])
    BY DEF Rejects, ValueAt
  <1>2. Decided(u)' = Decided(u)
    BY <1>1 DEF Decided
  <1> QED  BY <1>1, <1>2 DEF CallOf, RetOf

\* Two ways for the step of a goroutine to appear: not at all, or as a change
\* of its own abstract call.
LEMMA Hidden ==
    ASSUME NEW t \in Threads,
           \A u \in Threads \ {t} : CallOf(u)' = CallOf(u) /\ RetOf(u)' = RetOf(u),
           CallOf(t)' = CallOf(t), RetOf(t)' = RetOf(t), Reg' = Reg, val' = val
    PROVE  UNCHANGED Register!maxVars
  BY DEF Register!maxVars

LEMMA Visible ==
    ASSUME NEW t \in Threads,
           \A u \in Threads \ {t} : CallOf(u)' = CallOf(u) /\ RetOf(u)' = RetOf(u),
           NEW c, CallOf(t)' = c, NEW r, RetOf(t)' = r
    PROVE  /\ [u \in Threads |-> CallOf(u)]' = [[u \in Threads |-> CallOf(u)] EXCEPT ![t] = c]
           /\ [u \in Threads |-> RetOf(u)]' = [[u \in Threads |-> RetOf(u)] EXCEPT ![t] = r]
  OBVIOUS

LEMMA CallStep ==
    ASSUME Inv, NEW t \in Threads, NEW v \in Values,
           CallUpdate(t, v) \/ (v = Zero /\ CallGet(t))
    PROVE  Register!Next
  <1> USE DEF Inv
  <1>1. \A u \in Threads \ {t} : CallOf(u)' = CallOf(u) /\ RetOf(u)' = RetOf(u)
    BY Others DEF CallUpdate, CallGet, Goto, TypeOK
  <1>2. pc[t] = "idle" /\ pc'[t] \in {"load", "get"} /\ ret'[t] = Zero
    BY DEF CallUpdate, CallGet, Goto, TypeOK
  <1>3. CallOf(t) = "idle" /\ RetOf(t)' = Zero
    BY <1>2 DEF CallOf, RetOf, Decided
  <1>4. Reg' = Reg /\ val' = [val EXCEPT ![t] = v]
    BY DEF CallUpdate, CallGet, Reg
  <1>5. CASE CallUpdate(t, v)
    <2>1. pc'[t] = "load"
      BY <1>5 DEF CallUpdate, Goto, TypeOK
    <2>2. CallOf(t)' = "update"
      BY <2>1 DEF CallOf, Decided
    <2>3. Register!Call(t, "update", v)
      BY <1>1, <1>3, <1>4, <2>2, Visible DEF Register!Call
    <2> QED  BY <2>3 DEF Register!Next
  <1>6. CASE v = Zero /\ CallGet(t)
    <2>1. pc'[t] = "get"
      BY <1>6 DEF CallGet, Goto, TypeOK
    <2>2. CallOf(t)' = "get"
      BY <2>1 DEF CallOf, Decided
    <2>3. Register!Call(t, "get", Zero)
      BY <1>1, <1>3, <1>4, <1>6, <2>2, Visible DEF Register!Call
    <2> QED  BY <2>3 DEF Register!Next
  <1> QED  BY <1>5, <1>6

\* The load of an Update that is turned down decides it, and no other load.
LEMMA LoadStep ==
    ASSUME Inv, NEW t \in Threads, load(t)
    PROVE  [Register!Next]_Register!maxVars
  <1> USE DEF Inv
  <1>1. \A u \in Threads \ {t} : CallOf(u)' = CallOf(u) /\ RetOf(u)' = RetOf(u)
    BY Others DEF load, Goto, TypeOK
  <1>2. /\ pc[t] = "load" /\ pc'[t] = "compare" /\ curr'[t] = ptr
        /\ UNCHANGED <<ptr, heap, val, ret>>
    BY DEF load, Goto, TypeOK
  <1>3. CallOf(t) = "update" /\ RetOf(t) = ret[t] /\ Reg' = Reg
    BY <1>2 DEF CallOf, RetOf, Decided, Reg
  <1>4. Rejects(t)' = (ptr # Nil /\ <<heap[ptr], val[t]>> \in AtLeast)
    BY <1>2 DEF Rejects
  <1>5. CASE Rejects(t)'
    <2>1. CallOf(t)' = "done" /\ RetOf(t)' = heap[ptr] /\ Reg = heap[ptr] /\ Reg # Nil
      <3>1. ptr # Nil /\ heap[ptr] \in Values
        BY <1>4, <1>5 DEF TypeOK
      <3>2. Decided(t)' /\ ValueAt(curr[t])' = heap[ptr]
        BY <1>2, <1>5, <3>1 DEF Decided, ValueAt
      <3> QED  BY <1>2, <3>1, <3>2 DEF CallOf, RetOf, Reg
    <2>2. Register!Update(t)
      BY <1>1, <1>2, <1>3, <1>4, <1>5, <2>1, Visible DEF Register!Update, Register!Current
    <2> QED  BY <2>2 DEF Register!Next
  <1>6. CASE ~Rejects(t)'
    <2>1. CallOf(t)' = "update" /\ RetOf(t)' = ret[t]
      BY <1>2, <1>6 DEF CallOf, RetOf, Decided
    <2> QED  BY <1>1, <1>2, <1>3, <2>1, Hidden
  <1> QED  BY <1>5, <1>6

LEMMA CompareStep ==
    ASSUME Inv, NEW t \in Threads, compare(t)
    PROVE  UNCHANGED Register!maxVars
  <1> USE DEF Inv
  <1>1. /\ pc[t] = "compare" /\ UNCHANGED <<ptr, val>>
        /\ \A u \in Threads \ {t} :
               pc'[u] = pc[u] /\ curr'[u] = curr[u] /\ ret'[u] = ret[u]
    BY DEF compare, Goto, TypeOK
  <1>2. \A p \in Addrs : p = ptr \/ (\E u \in Threads : p = curr[u]) => heap'[p] = heap[p]
    BY DEF compare, Free, TypeOK
  <1>3. \A u \in Threads \ {t} : CallOf(u)' = CallOf(u) /\ RetOf(u)' = RetOf(u)
    BY <1>1, <1>2, Others DEF TypeOK
  <1>4. Reg' = Reg
    BY <1>1, <1>2 DEF Reg, TypeOK
  <1>5. CallOf(t)' = CallOf(t) /\ RetOf(t)' = RetOf(t)
    <2>1. CASE Rejects(t) /\ Goto(t, "return") /\ ret' = [ret EXCEPT ![t] = heap[curr[t]]]
      <3>1. pc'[t] = "return" /\ ret'[t] = ValueAt(curr[t])
        BY <2>1 DEF Goto, TypeOK, Rejects, ValueAt
      <3> QED  BY <1>1, <2>1, <3>1 DEF CallOf, RetOf, Decided
    <2>2. CASE UNCHANGED <<heap, curr, ret>> /\ Goto(t, "panic")
      <3>1. pc'[t] = "panic" /\ Rejects(t)' = Rejects(t) /\ ValueAt(curr[t])' = ValueAt(curr[t])
        BY <1>1, <2>2 DEF Goto, TypeOK, Rejects, ValueAt
      <3> QED  BY <1>1, <2>2, <3>1 DEF CallOf, RetOf, Decided
    <2>3. CASE ~Rejects(t) /\ Goto(t, "cas") /\ UNCHANGED ret
      <3>1. pc'[t] = "cas"
        BY <2>3 DEF Goto, TypeOK
      <3> QED  BY <1>1, <2>3, <3>1 DEF CallOf, RetOf, Decided
    <2> QED  BY <2>1, <2>2, <2>3 DEF compare
  <1> QED  BY <1>1, <1>3, <1>4, <1>5, Hidden

\* The swap decides an Update, and replaces the maximum that it was compared
\* with.
LEMMA SwapStep ==
    ASSUME Inv, NEW t \in Threads, cas(t)
    PROVE  [Register!Next]_Register!maxVars
  <1> USE DEF Inv
  <1>1. \A u \in Threads \ {t} : CallOf(u)' = CallOf(u) /\ RetOf(u)' = RetOf(u)
    BY Others DEF cas, Goto, TypeOK
  <1>2. pc[t] = "cas" /\ UNCHANGED <<heap, val>> /\ ~Rejects(t)
    BY DEF cas, Beaten
  <1>3. CallOf(t) = "update" /\ RetOf(t) = ret[t]
    BY <1>2 DEF CallOf, RetOf, Decided
  <1>4. CASE ptr = curr[t] /\ ptr' = new[t] /\ ret' = [ret EXCEPT ![t] = ValueAt(curr[t])]
             /\ Goto(t, "return")
    <2>1. pc'[t] = "return" /\ ret'[t] = ValueAt(curr[t])
      BY <1>4 DEF Goto, TypeOK
    <2>2. CallOf(t)' = "done" /\ RetOf(t)' = Register!Current
      BY <2>1, <1>4 DEF CallOf, RetOf, Decided, ValueAt, Reg, Register!Current, TypeOK
    <2>3. Reg' = val[t]
      BY <1>2, <1>4 DEF NewIsPrivate, Reg
    <2>4. ~(Reg # Nil /\ <<Reg, val[t]>> \in AtLeast)
      BY <1>2, <1>4 DEF Rejects, Reg
    <2>5. Register!Update(t)
      BY <1>1, <1>2, <1>3, <2>2, <2>3, <2>4, Visible DEF Register!Update
    <2> QED  BY <2>5 DEF Register!Next
  <1>5. CASE ptr # curr[t] /\ Goto(t, "load") /\ UNCHANGED <<ptr, ret>>
    <2>1. pc'[t] = "load"
      BY <1>5 DEF Goto, TypeOK
    <2>2. CallOf(t)' = "update" /\ RetOf(t)' = ret[t] /\ Reg' = Reg
      BY <1>2, <1>5, <2>1 DEF CallOf, RetOf, Decided, Reg
    <2> QED  BY <1>1, <1>2, <1>3, <2>2, Hidden
  <1> QED  BY <1>4, <1>5 DEF cas

LEMMA ReadStep ==
    ASSUME Inv, NEW t \in Threads, getLoad(t) \/ deref(t) \/ Return(t)
    PROVE  [Register!Next]_Register!maxVars
  <1> USE DEF Inv
  <1>1. \A u \in Threads \ {t} : CallOf(u)' = CallOf(u) /\ RetOf(u)' = RetOf(u)
    BY Others DEF getLoad, deref, Return, Goto, TypeOK
  <1>2. UNCHANGED <<ptr, heap, val>> /\ Reg' = Reg
    BY DEF getLoad, deref, Return, Reg
  <1>3. CASE getLoad(t)
    <2>1. pc[t] = "get" /\ pc'[t] = "deref" /\ curr'[t] = ptr
      BY <1>3 DEF getLoad, Goto, TypeOK
    <2>2. CallOf(t) = "get" /\ CallOf(t)' = "done"
      BY <2>1 DEF CallOf, Decided
    <2>3. RetOf(t)' = Register!Current
      BY <1>2, <2>1 DEF RetOf, Decided, ValueAt, Reg, Register!Current, TypeOK
    <2>4. Register!Get(t)
      BY <1>1, <1>2, <2>2, <2>3, Visible DEF Register!Get
    <2> QED  BY <2>4 DEF Register!Next
  <1>4. CASE deref(t)
    <2>1. pc[t] = "deref" /\ pc'[t] = "return" /\ ret'[t] = ValueAt(curr[t])
      BY <1>4 DEF deref, Goto, TypeOK
    <2>2. CallOf(t)' = CallOf(t) /\ RetOf(t)' = RetOf(t)
      BY <2>1 DEF CallOf, RetOf, Decided
    <2> QED  BY <1>1, <1>2, <2>2, Hidden
  <1>5. CASE Return(t)
    <2>1. pc[t] = "return" /\ pc'[t] = "idle" /\ ret' = ret
      BY <1>5 DEF Return, Goto, TypeOK
    <2>2. CallOf(t) = "done" /\ CallOf(t)' = "idle" /\ RetOf(t)' = RetOf(t)
      BY <2>1 DEF CallOf, RetOf, Decided
    <2>3. [u \in Threads |-> RetOf(u)]' = [u \in Threads |-> RetOf(u)]
      BY <1>1, <2>2
    <2>4. Register!Return(t)
      BY <1>1, <1>2, <2>2, <2>3, Visible DEF Register!Return
    <2> QED  BY <2>4 DEF Register!Next
  <1> QED  BY <1>3, <1>4, <1>5

LEMMA StepImplements ==
    ASSUME Inv, [Next]_vars
    PROVE  [Register!Next]_Register!maxVars
  <1>1. CASE UNCHANGED vars
    BY <1>1 DEF vars, Register!maxVars, Reg, CallOf, RetOf, Decided, Rejects, ValueAt
  <1> QED
    BY <1>1, CallStep, LoadStep, CompareStep, SwapStep, ReadStep DEF Next, Step

LEMMA InitImplements == Init => Register!Init
  BY DEF Init, Register!Init, Reg, CallOf, RetOf, Decided

\* AtomicMax is linearizable: with any number of goroutines in Update and Get
\* at once, every call takes effect at one instant and returns the maximum of
\* that instant, and a lost race or a reused address loses no update.
THEOREM MaxLinearizable == Spec => MaxSpec
  BY InitImplements, StepImplements, AlwaysInv, PTL DEF Spec, MaxSpec, Register!Spec
=============================================================================
