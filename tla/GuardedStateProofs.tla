------------------------- MODULE GuardedStateProofs -------------------------
(***************************************************************************)
(* One value behind a lock: no store is lost, a Future is set once, and a  *)
(* clone is nobody else's, for any number of goroutines and of stores.     *)
(*                                                                         *)
(* Excl says who holds the lock where, Args which method a call can be in  *)
(* at each place, and SetterLog that a Future's value and its ready tell   *)
(* the same story, but for the setter between its two steps.               *)
(*                                                                         *)
(* Nesting says which calls are within a callback: the call around keeps   *)
(* its lock, so that one which waits for that lock has no way out.         *)
(***************************************************************************)
EXTENDS GuardedState, TLAPS, SequenceTheorems

\* The places of a call that has or awaits the lock, and those behind it.
Held   == {"locked", "close", "callback", "unlock"}
Inside == {"close", "callback", "unlock"}

\* Who holds the lock where.
Excl ==
    /\ \A c \in Calls :
          /\ pc[c] \in Held /\ op[c] \in Writers <=> writer = c
          /\ pc[c] \in Held /\ op[c] \notin Writers <=> c \in readers \cup blocked
          /\ pc[c] \in Inside => IF op[c] \in Writers THEN readers = {} ELSE c \in readers
    /\ readers \cap blocked = {}

\* What a call is about at each of its places.
Args ==
    \A c \in Calls :
        /\ pc[c] # "idle" => op[c] \in Methods[kind]
        /\ pc[c] = "idle" => op[c] = "none"
        /\ pc[c] = "lock" => op[c] \in Writers
        /\ pc[c] = "close" => op[c] = "set"
        /\ pc[c] = "callback" => op[c] \in {"Load", "Store"}
        /\ pc[c] # "idle" /\ op[c] \in {"set", "Store", "Write"} => arg[c] \in Items

\* A call panics at the end of its work.
Panicking == \A c \in Calls : c \in panicked => pc[c] \in {"unlock", "return"}

\* A Future calls no callback, so that no call is within another.
NotNested == kind = "Future" => \A t \in Threads : pc[<<t, 2>>] = "idle"

\* A setter that goes through, and where its value is.
SetThrough(c) == c \notin panicked /\ op[c] = "set" /\ pc[c] \in {"close", "unlock", "return"}

SetterLog ==
    kind = "Future" =>
        /\ Len(log) <= 1
        /\ ready => Len(log) = 1
        /\ ~ready => sawReady = {}
        /\ ~ready /\ Len(log) = 1 => \E c \in Calls : pc[c] = "close"
        /\ \A c \in Calls : pc[c] = "close" => ~ready
        /\ \A c \in Calls : SetThrough(c) \/ pc[c] = "close" => Len(log) = 1
        /\ \A c, d \in Calls : SetThrough(c) /\ SetThrough(d) => c = d
        /\ \A c \in Calls :
              op[c] = "Get" /\ pc[c] \in {"unlock", "return"} =>
                 IF c \in panicked THEN c[1] \notin sawReady ELSE ready /\ seen[c] = log

Owned == \A t \in Threads : kept[t] = [own |-> TRUE, items |-> was[t]]

Inv == TypeOK /\ Excl /\ Args /\ Panicking /\ StoresAtomic /\ NotNested /\ SetterLog /\ Owned

-----------------------------------------------------------------------------
\* The methods of each type, as the provers need them.
LEMMA MethodsOf ==
    /\ Methods["Future"] = {"set", "Get"}
    /\ Methods["DataGuard"] = {"Load", "CopyValue", "Store"}
    /\ Methods["Buffer"] = {"Write", "Reset", "Bytes"}
  BY DEF Methods

LEMMA KindOf ==
    ASSUME TypeOK, Args, NEW c \in Calls, pc[c] # "idle"
    PROVE  /\ op[c] \in {"set", "Get"} <=> kind = "Future"
           /\ op[c] \in {"Load", "CopyValue", "Store"} <=> kind = "DataGuard"
           /\ op[c] \in {"Write", "Reset", "Bytes"} <=> kind = "Buffer"
  <1>1. op[c] \in Methods[kind]
    BY DEF Args
  <1>2. kind \in {"Future", "DataGuard", "Buffer"}
    BY KindsAssumption DEF TypeOK
  <1> QED  BY <1>1, <1>2, MethodsOf

\* A call that enters with the lock.
LEMMA Entered ==
    ASSUME NEW c \in Calls, NEW m, Enter(c, m)
    PROVE  /\ pc[c] = "locked" /\ op[c] = m
           /\ IF op[c] \in Writers THEN writer = c /\ readers = {} ELSE c \in readers
  BY DEF Enter, HasLock, mu!Locked, mu!RLocked

\* Who is where after one call has moved.
LEMMA Moved ==
    ASSUME TypeOK, NEW c \in Calls, NEW q \in Places, Goto(c, q)
    PROVE  /\ pc' \in [Calls -> Places]
           /\ pc'[c] = q
           /\ \A d \in Calls : d # c => pc'[d] = pc[d]
  BY DEF TypeOK, Goto

\* A call that moves behind the lock, or past it, without touching it.
LEMMA MoveExcl ==
    ASSUME TypeOK, Excl, NEW c \in Calls, NEW q \in Places, Goto(c, q),
           UNCHANGED <<muVars, op>>,
           pc[c] \in Held <=> q \in Held,
           q \in Inside => IF op[c] \in Writers THEN readers = {} ELSE c \in readers
    PROVE  Excl'
  <1>1. /\ pc'[c] = q
        /\ \A d \in Calls : d # c => pc'[d] = pc[d]
    BY Moved
  <1>2. op' = op /\ writer' = writer /\ readers' = readers /\ blocked' = blocked
    BY DEF muVars
  <1> QED  BY <1>1, <1>2 DEF Excl

\* The same for what a call is about.
LEMMA MoveArgs ==
    ASSUME TypeOK, Args, NEW c \in Calls, NEW q \in Places, Goto(c, q),
           UNCHANGED <<kind, op, arg>>,
           pc[c] # "idle", q # "idle", q # "lock",
           q = "close" => op[c] = "set",
           q = "callback" => op[c] \in {"Load", "Store"}
    PROVE  Args' /\ (NotNested => NotNested')
  <1>1. /\ pc'[c] = q
        /\ \A d \in Calls : d # c => pc'[d] = pc[d]
    BY Moved
  <1>2. op' = op /\ arg' = arg /\ kind' = kind
    OBVIOUS
  <1>3. Args'
    BY <1>1, <1>2 DEF Args
  <1>4. ASSUME NotNested PROVE NotNested'
    BY <1>1, <1>2, <1>4 DEF NotNested, Calls
  <1> QED  BY <1>3, <1>4
-----------------------------------------------------------------------------
LEMMA InitInv == Init => Inv
  <1> SUFFICES ASSUME Init PROVE Inv
    OBVIOUS
  <1> USE DEF Init, mu!Init
  <1>1. << >> \in Seq(Items) /\ Len(<< >>) = 0
    BY EmptySeq
  <1>2. \A c \in Calls : None # c
    BY NoneAssumption
  <1>2a. [t \in Threads |-> [own |-> TRUE, items |-> << >>]]
            \in [Threads -> [own : BOOLEAN, items : Seq(Items)]]
    BY <1>1
  <1>2b. mu!TypeOK
    BY DEF mu!TypeOK
  <1>3. TypeOK
    BY <1>1, <1>2a, <1>2b DEF TypeOK, Places
  <1>4. Excl /\ Args
    BY <1>2 DEF Excl, Args, Held, Inside
  <1>5. NotNested /\ Panicking
    BY DEF NotNested, Panicking, Calls
  <1>6. StoresAtomic /\ Owned
    BY DEF StoresAtomic, Owned
  <1>7. SetterLog
    BY <1>1 DEF SetterLog, SetThrough
  <1> QED  BY <1>3, <1>4, <1>5, <1>6, <1>7 DEF Inv

LEMMA TypeStep ==
    ASSUME TypeOK, Args, Next
    PROVE  TypeOK'
  <1> USE DEF TypeOK, Goto, Places, muVars
  <1>a. \A c \in Calls : pc[c] # "idle" /\ op[c] \in {"set", "Store", "Write"} => arg[c] \in Items
    BY DEF Args
  <1>1. ASSUME NEW c \in Calls, NEW m \in Methods[kind], NEW x \in Items, Call(c, m, x)
        PROVE  TypeOK'
    <2>1. m \in UNION {Methods[k] : k \in Kinds}
      BY <1>1
    <2>2. op' \in [Calls -> {"none"} \cup UNION {Methods[k] : k \in Kinds}]
      BY <1>1, <2>1 DEF Call
    <2>3. arg' \in [Calls -> Items \cup {None}]
      BY <1>1 DEF Call
    <2>4. pc' \in [Calls -> Places] /\ mu!TypeOK'
      BY <1>1 DEF Call, mu!TypeOK, mu!RLock
    <2> QED  BY <1>1, <2>2, <2>3, <2>4 DEF Call
  <1>2. ASSUME NEW c \in Calls, lock(c) PROVE TypeOK'
    BY <1>2 DEF lock, mu!Lock, mu!TypeOK
  <1>3. ASSUME NEW c \in Calls, set(c) PROVE TypeOK'
    <2>1. arg[c] \in Items
      BY <1>3, <1>a DEF set, Enter
    <2>2. <<arg[c]>> \in Seq(Items) /\ Append(log, arg[c]) \in Seq(Items)
      BY <2>1
    <2> QED  BY <1>3, <2>2 DEF set, mu!TypeOK
  <1>4. ASSUME NEW c \in Calls, closeReady(c) PROVE TypeOK'
    BY <1>4 DEF closeReady, mu!TypeOK
  <1>5. ASSUME NEW c \in Calls, Get(c) PROVE TypeOK'
    BY <1>5 DEF Get, mu!TypeOK
  <1>6. ASSUME NEW c \in Calls, CopyValue(c) PROVE TypeOK'
    BY <1>6 DEF CopyValue, mu!TypeOK
  <1>7. ASSUME NEW c \in Calls, callback(c) PROVE TypeOK'
    BY <1>7 DEF callback, mu!TypeOK
  <1>8. ASSUME NEW c \in Calls, callbackReturns(c) PROVE TypeOK'
    <2>1. op[c] = "Store" => arg[c] \in Items
      BY <1>8, <1>a DEF callbackReturns, InCallback
    <2>2. op[c] = "Store" => Append(seen[c], arg[c]) \in Seq(Items) /\ Append(log, arg[c]) \in Seq(Items)
      BY <2>1, AppendProperties
    <2>3. value' \in Seq(Items) /\ log' \in Seq(Items)
      BY <1>8, <2>2 DEF callbackReturns
    <2> QED  BY <1>8, <2>3 DEF callbackReturns, mu!TypeOK
  <1>9. ASSUME NEW c \in Calls, callbackPanics(c) PROVE TypeOK'
    BY <1>9 DEF callbackPanics, mu!TypeOK
  <1>10. ASSUME NEW c \in Calls, Write(c) PROVE TypeOK'
    <2>1. arg[c] \in Items
      BY <1>10, <1>a DEF Write, Enter
    <2>2. value' \in Seq(Items) /\ log' \in Seq(Items)
      BY <1>10, <2>1, AppendProperties DEF Write
    <2> DEFINE rest == SubSeq(array, Len(value) + 2, Len(array))
    <2>3. Len(value) \in Nat /\ Len(array) \in Nat
      BY LenProperties
    <2>4. \A i \in Len(value) + 2..Len(array) : array[i] \in Items
      BY <2>3, ElementOfSeq
    <2>5. rest \in Seq(Items)
      BY <2>3, <2>4, SubSeqProperties
    <2> HIDE DEF rest
    <2>6. value' \o rest \in Seq(Items)
      BY <2>2, <2>5, ConcatProperties
    <2>7. array' \in Seq(Items)
      BY <1>10, <2>6 DEF Write, rest
    <2> QED  BY <1>10, <2>2, <2>7 DEF Write, mu!TypeOK
  <1>11. ASSUME NEW c \in Calls, Reset(c) PROVE TypeOK'
    <2>1. << >> \in Seq(Items)
      BY EmptySeq
    <2> QED  BY <1>11, <2>1 DEF Reset, mu!TypeOK
  <1>12. ASSUME NEW c \in Calls, Bytes(c) PROVE TypeOK'
    <2>1. c[1] \in Threads
      BY DEF Calls
    <2> QED  BY <1>12, <2>1 DEF Bytes, Clone, mu!TypeOK
  <1>13. ASSUME NEW c \in Calls, unlock(c) PROVE TypeOK'
    BY <1>13 DEF unlock, mu!Unlock, mu!RUnlock, mu!TypeOK
  <1>14. ASSUME NEW c \in Calls, Return(c) PROVE TypeOK'
    <2>1. << >> \in Seq(Items)
      BY EmptySeq
    <2> QED  BY <1>14, <2>1 DEF Return, mu!TypeOK
  <1>15. ASSUME NEW t \in Threads, Await(t) PROVE TypeOK'
    BY <1>15 DEF Await, mu!TypeOK
  <1> QED
    BY <1>1, <1>2, <1>3, <1>4, <1>5, <1>6, <1>7, <1>8, <1>9, <1>10, <1>11, <1>12, <1>13, <1>14,
       <1>15 DEF Next, Locked

LEMMA ExclStep ==
    ASSUME TypeOK, Excl, Args, Next
    PROVE  Excl'
  <1>0. \A c \in Calls : c # None
    BY NoneAssumption
  <1>1. ASSUME NEW c \in Calls, NEW m \in Methods[kind], NEW x \in Items, Call(c, m, x)
        PROVE  Excl'
    <2>1. pc[c] = "idle" /\ op'[c] = m /\ \A d \in Calls : d # c => op'[d] = op[d]
      BY <1>1 DEF Call, TypeOK
    <2>2. CASE m \in Writers
      <3>1. pc'[c] = "lock" /\ \A d \in Calls : d # c => pc'[d] = pc[d]
        BY <1>1, <2>2, Moved DEF Call, Places
      <3>2. UNCHANGED muVars
        BY <1>1, <2>2 DEF Call
      <3> QED  BY <2>1, <3>1, <3>2 DEF Excl, Held, Inside, muVars
    <2>3. CASE m \notin Writers
      <3>1. pc'[c] = "locked" /\ \A d \in Calls : d # c => pc'[d] = pc[d]
        BY <1>1, <2>3, Moved DEF Call, Places
      <3>2. mu!RLock(c)
        BY <1>1, <2>3 DEF Call
      <3>3. c \notin readers \cup blocked /\ writer # c
        BY <2>1 DEF Excl, Held
      <3>4. CASE writer = None
        <4>1. readers' = readers \cup {c} /\ blocked' = blocked /\ writer' = writer
          BY <3>2, <3>4 DEF mu!RLock
        <4>2. \A d \in Calls : ~(pc[d] \in Held /\ op[d] \in Writers)
          BY <1>0, <3>4 DEF Excl
        <4> QED  BY <2>1, <2>3, <3>1, <3>3, <4>1, <4>2 DEF Excl, Held, Inside
      <3>5. CASE writer # None
        <4>1. readers' = readers /\ blocked' = blocked \cup {c} /\ writer' = writer
          BY <3>2, <3>5 DEF mu!RLock
        <4> QED  BY <2>1, <2>3, <3>1, <3>3, <4>1 DEF Excl, Held, Inside
      <3> QED  BY <3>4, <3>5
    <2> QED  BY <2>2, <2>3
  <1>2. ASSUME NEW c \in Calls, lock(c) PROVE Excl'
    <2>1. pc'[c] = "locked" /\ \A d \in Calls : d # c => pc'[d] = pc[d]
      BY <1>2, Moved DEF lock, Places
    <2>2. /\ pc[c] = "lock" /\ op[c] \in Writers /\ op' = op
          /\ writer = None /\ writer' = c /\ readers' = readers /\ blocked' = blocked
      BY <1>2 DEF lock, mu!Lock, Args
    <2>3. \A d \in Calls : ~(pc[d] \in Held /\ op[d] \in Writers)
      BY <1>0, <2>2 DEF Excl
    <2> QED  BY <2>1, <2>2, <2>3 DEF Excl, Held, Inside
  <1>3. ASSUME NEW c \in Calls,
               \/ set(c) \/ closeReady(c) \/ Get(c) \/ CopyValue(c) \/ callback(c)
               \/ callbackReturns(c) \/ callbackPanics(c) \/ Write(c) \/ Reset(c) \/ Bytes(c)
        PROVE  Excl'
    <2>1. UNCHANGED <<muVars, op>>
      BY <1>3 DEF set, closeReady, Get, CopyValue, callback, callbackReturns, callbackPanics,
                  Write, Reset, Bytes, muVars
    <2>2. PICK q \in {"close", "callback", "unlock"} : Goto(c, q)
      BY <1>3 DEF set, closeReady, Get, CopyValue, callback, callbackReturns, callbackPanics,
                  Write, Reset, Bytes
    <2>3. pc[c] \in Inside \/ (pc[c] = "locked" /\ HasLock(c))
      BY <1>3 DEF set, closeReady, Get, CopyValue, callback, callbackReturns, callbackPanics,
                  Write, Reset, Bytes, Enter, InCallback, Inside
    <2>4. IF op[c] \in Writers THEN readers = {} ELSE c \in readers
      BY <2>3 DEF Excl, HasLock, mu!Locked, mu!RLocked
    <2>5. q \in Places /\ q \in Held /\ pc[c] \in Held
      BY <2>3 DEF Places, Held, Inside
    <2> QED  BY <2>1, <2>2, <2>4, <2>5, MoveExcl
  <1>4. ASSUME NEW c \in Calls, unlock(c) PROVE Excl'
    <2>1. pc'[c] = "return" /\ \A d \in Calls : d # c => pc'[d] = pc[d]
      BY <1>4, Moved DEF unlock, Places
    <2>2. pc[c] = "unlock" /\ op' = op
      BY <1>4 DEF unlock
    <2>3. CASE op[c] \in Writers
      <3>1. writer = c /\ readers = {}
        BY <2>2, <2>3 DEF Excl, Held, Inside
      <3>2. writer' = None /\ readers' = blocked /\ blocked' = {}
        BY <1>4, <2>3, <3>1 DEF unlock, mu!Unlock
      <3>3. \A d \in Calls : d # c => ~(pc[d] \in Held /\ op[d] \in Writers)
        BY <3>1 DEF Excl
      <3> QED  BY <1>0, <2>1, <2>2, <2>3, <3>1, <3>2, <3>3 DEF Excl, Held, Inside
    <2>4. CASE op[c] \notin Writers
      <3>1. c \in readers /\ c \notin blocked
        BY <2>2, <2>4 DEF Excl, Held, Inside
      <3>2. writer' = writer /\ readers' = readers \ {c} /\ blocked' = blocked
        BY <1>4, <2>4 DEF unlock, mu!RUnlock
      <3> QED  BY <2>1, <2>2, <2>4, <3>1, <3>2 DEF Excl, Held, Inside
    <2> QED  BY <2>3, <2>4
  <1>5. ASSUME NEW c \in Calls, Return(c) PROVE Excl'
    <2>1. pc'[c] = "idle" /\ \A d \in Calls : d # c => pc'[d] = pc[d]
      BY <1>5, Moved DEF Return, Places
    <2>2. /\ pc[c] = "return" /\ UNCHANGED muVars
          /\ \A d \in Calls : d # c => op'[d] = op[d]
      BY <1>5 DEF Return, TypeOK
    <2> QED  BY <2>1, <2>2 DEF Excl, Held, Inside, muVars
  <1>6. ASSUME NEW t \in Threads, Await(t) PROVE Excl'
    BY <1>6 DEF Await, Excl, muVars
  <1> QED  BY <1>1, <1>2, <1>3, <1>4, <1>5, <1>6 DEF Next, Locked
LEMMA ArgsStep ==
    ASSUME TypeOK, Args, NotNested, Next
    PROVE  Args' /\ NotNested'
  <1>1. ASSUME NEW c \in Calls, NEW m \in Methods[kind], NEW x \in Items, Call(c, m, x)
        PROVE  Args' /\ NotNested'
    <2>1. PICK q \in {"lock", "locked"} : Goto(c, q) /\ (q = "lock" => m \in Writers)
      BY <1>1 DEF Call
    <2>2. pc'[c] = q /\ \A d \in Calls : d # c => pc'[d] = pc[d]
      BY <2>1, Moved DEF Places
    <2>3. /\ kind' = kind /\ op'[c] = m
          /\ m \in {"set", "Store", "Write"} => arg'[c] = x
          /\ \A d \in Calls : d # c => op'[d] = op[d] /\ arg'[d] = arg[d]
      BY <1>1 DEF Call, TypeOK
    <2>4. Args'
      BY <2>1, <2>2, <2>3 DEF Args
    <2>5. ASSUME kind = "Future" PROVE c[2] # 2
      <3>1. SUFFICES ASSUME c[2] = 2 PROVE FALSE
        OBVIOUS
      <3>2. <<c[1], 1>> \in Calls /\ pc[<<c[1], 1>>] = "callback"
        BY <1>1, <3>1 DEF Call, Running, Calls
      <3>3. op[<<c[1], 1>>] \in {"Load", "Store"}
        BY <3>2 DEF Args
      <3> QED  BY <2>5, <3>2, <3>3, KindOf
    <2>6. ASSUME kind = "Future", NEW t \in Threads PROVE pc'[<<t, 2>>] = "idle"
      <3>1. <<t, 2>> \in Calls /\ <<t, 2>>[2] = 2
        BY DEF Calls
      <3>2. <<t, 2>> # c
        BY <2>5, <2>6, <3>1
      <3> QED  BY <2>2, <2>6, <3>1, <3>2 DEF NotNested
    <2>7. NotNested'
      BY <2>3, <2>6 DEF NotNested
    <2> QED  BY <2>4, <2>7
  <1>2. ASSUME NEW c \in Calls, lock(c) PROVE Args' /\ NotNested'
    BY <1>2, MoveArgs DEF lock, Places
  <1>3. ASSUME NEW c \in Calls, set(c) PROVE Args' /\ NotNested'
    BY <1>3, MoveArgs DEF set, Enter, Places
  <1>4. ASSUME NEW c \in Calls,
               \/ closeReady(c) \/ Get(c) \/ CopyValue(c)
               \/ callbackReturns(c) \/ callbackPanics(c) \/ Write(c) \/ Reset(c) \/ Bytes(c)
        PROVE  Args' /\ NotNested'
    <2>1. Goto(c, "unlock") /\ pc[c] # "idle" /\ UNCHANGED <<kind, op, arg>>
      BY <1>4 DEF closeReady, Get, CopyValue, callbackReturns, callbackPanics, Write, Reset,
                  Bytes, Enter, InCallback
    <2> QED  BY <2>1, MoveArgs DEF Places
  <1>5. ASSUME NEW c \in Calls, callback(c) PROVE Args' /\ NotNested'
    BY <1>5, MoveArgs DEF callback, Enter, Places
  <1>6. ASSUME NEW c \in Calls, unlock(c) PROVE Args' /\ NotNested'
    BY <1>6, MoveArgs DEF unlock, Places
  <1>7. ASSUME NEW c \in Calls, Return(c) PROVE Args' /\ NotNested'
    <2>1. pc'[c] = "idle" /\ \A d \in Calls : d # c => pc'[d] = pc[d]
      BY <1>7, Moved DEF Return, Places
    <2>2. /\ kind' = kind /\ op'[c] = "none"
          /\ \A d \in Calls : d # c => op'[d] = op[d] /\ arg'[d] = arg[d]
      BY <1>7 DEF Return, TypeOK
    <2>3. Args'
      BY <2>1, <2>2 DEF Args
    <2>4. NotNested'
      BY <2>1, <2>2 DEF NotNested, Calls
    <2> QED  BY <2>3, <2>4
  <1>8. ASSUME NEW t \in Threads, Await(t) PROVE Args' /\ NotNested'
    BY <1>8 DEF Await, Args, NotNested
  <1> QED  BY <1>1, <1>2, <1>3, <1>4, <1>5, <1>6, <1>7, <1>8 DEF Next, Locked

-----------------------------------------------------------------------------
\* Whoever writes is alone behind the lock.
LEMMA Alone ==
    ASSUME Excl, NEW c \in Calls, writer = c, readers = {}
    PROVE  \A d \in Calls : d # c => pc[d] \notin Inside
  BY DEF Excl, Inside, Held

\* A Future is set for the first time when it is not ready.
LEMMA NotSetYet ==
    ASSUME Inv, NEW c \in Calls, Enter(c, "set"), ~ready
    PROVE  kind = "Future" /\ log = << >>
  <1>1. op[c] = "set" /\ pc[c] = "locked" /\ writer = c /\ readers = {}
    BY Entered DEF Writers
  <1>2. kind = "Future"
    BY <1>1, KindOf DEF Inv
  <1>3. \A d \in Calls : pc[d] # "close"
    BY <1>1, Alone DEF Inside, Inv
  <1>4. log \in Seq(Items) /\ Len(log) # 1 /\ Len(log) <= 1
    BY <1>2, <1>3 DEF SetterLog, TypeOK, Inv
  <1>5. Len(log) \in Nat
    BY <1>4, LenProperties
  <1>6. \A n \in Nat : n # 1 /\ n <= 1 => n = 0
    OBVIOUS
  <1>7. Len(log) = 0
    BY <1>4, <1>5, <1>6
  <1> QED  BY <1>2, <1>4, <1>7, EmptySeq

\* A step that leaves the value and starts no callback.
LEMMA StoresKept ==
    ASSUME TypeOK, StoresAtomic, NEW c \in Calls, NEW q \in Places, Goto(c, q), q # "callback",
           UNCHANGED <<value, log>>,
           \A d \in Calls : d # c => seen'[d] = seen[d]
    PROVE  StoresAtomic'
  <1>1. pc'[c] = q /\ \A d \in Calls : d # c => pc'[d] = pc[d]
    BY Moved
  <1> QED  BY <1>1 DEF StoresAtomic

\* A step that stores, of a call that is alone behind the lock.
LEMMA StoresTogether ==
    ASSUME TypeOK, Excl, StoresAtomic, NEW c \in Calls, NEW q \in Places, Goto(c, q),
           q # "callback", writer = c, readers = {}, value' = log'
    PROVE  StoresAtomic'
  <1>1. pc'[c] = q /\ \A d \in Calls : d # c => pc'[d] = pc[d]
    BY Moved
  <1>2. \A d \in Calls : d # c => pc[d] # "callback"
    BY Alone DEF Inside
  <1> QED  BY <1>1, <1>2 DEF StoresAtomic

LEMMA StoresStep ==
    ASSUME Inv, Next
    PROVE  StoresAtomic'
  <1>0. TypeOK /\ Excl /\ Args /\ StoresAtomic /\ SetterLog
    BY DEF Inv
  <1>1. ASSUME NEW c \in Calls, NEW m \in Methods[kind], NEW x \in Items, Call(c, m, x)
        PROVE  StoresAtomic'
    <2>1. PICK q \in {"lock", "locked"} : Goto(c, q)
      BY <1>1 DEF Call
    <2> QED  BY <1>0, <1>1, <2>1, StoresKept DEF Call, Places
  <1>2. ASSUME NEW c \in Calls, lock(c) PROVE StoresAtomic'
    BY <1>0, <1>2, StoresKept DEF lock, Places
  <1>3. ASSUME NEW c \in Calls, set(c) PROVE StoresAtomic'
    <2>1. op[c] = "set" /\ pc[c] = "locked" /\ writer = c /\ readers = {}
      BY <1>3, Entered DEF set, Writers
    <2>2. CASE ready
      BY <1>0, <1>3, <2>2, StoresKept DEF set, Places
    <2>3. CASE ~ready
      <3>4. log = << >>
        BY <1>3, <2>3, NotSetYet DEF set
      <3>5. value' = log' /\ Goto(c, "close")
        <4>1. Append(<< >>, arg[c]) = <<arg[c]>>
          OBVIOUS
        <4> QED  BY <1>3, <2>3, <3>4, <4>1 DEF set
      <3> QED  BY <1>0, <2>1, <3>5, StoresTogether DEF Places
    <2> QED  BY <2>2, <2>3
  <1>4. ASSUME NEW c \in Calls,
               closeReady(c) \/ Get(c) \/ CopyValue(c) \/ callbackPanics(c) \/ Bytes(c)
        PROVE  StoresAtomic'
    <2>1. Goto(c, "unlock") /\ UNCHANGED <<value, log>>
      BY <1>4 DEF closeReady, Get, CopyValue, callbackPanics, Bytes
    <2>2. \A d \in Calls : d # c => seen'[d] = seen[d]
      BY <1>0, <1>4 DEF closeReady, Get, CopyValue, callbackPanics, Bytes, TypeOK
    <2> QED  BY <1>0, <2>1, <2>2, StoresKept DEF Places
  <1>5. ASSUME NEW c \in Calls, callback(c) PROVE StoresAtomic'
    <2>1. pc'[c] = "callback" /\ \A d \in Calls : d # c => pc'[d] = pc[d]
      BY <1>0, <1>5, Moved DEF callback, Places
    <2>2. seen'[c] = value /\ \A d \in Calls : d # c => seen'[d] = seen[d]
      BY <1>0, <1>5 DEF callback, TypeOK
    <2> QED  BY <1>0, <1>5, <2>1, <2>2 DEF callback, StoresAtomic
  <1>6. ASSUME NEW c \in Calls, callbackReturns(c) PROVE StoresAtomic'
    <2>1. pc[c] = "callback" /\ Goto(c, "unlock") /\ seen' = seen
      BY <1>6 DEF callbackReturns, InCallback
    <2>2. CASE op[c] = "Store"
      <3>1. writer = c /\ readers = {}
        BY <1>0, <2>1, <2>2 DEF Excl, Held, Inside, Writers
      <3>2. value' = log'
        BY <1>0, <1>6, <2>1, <2>2 DEF callbackReturns, StoresAtomic
      <3> QED  BY <1>0, <2>1, <3>1, <3>2, StoresTogether DEF Places
    <2>3. CASE op[c] # "Store"
      BY <1>0, <1>6, <2>1, <2>3, StoresKept DEF callbackReturns, Places
    <2> QED  BY <2>2, <2>3
  <1>7. ASSUME NEW c \in Calls, Write(c) \/ Reset(c) PROVE StoresAtomic'
    <2>1. op[c] \in Writers /\ writer = c /\ readers = {}
      BY <1>7, Entered DEF Write, Reset, Writers
    <2>2. Goto(c, "unlock") /\ value' = log'
      BY <1>0, <1>7 DEF Write, Reset, StoresAtomic
    <2> QED  BY <1>0, <2>1, <2>2, StoresTogether DEF Places
  <1>8. ASSUME NEW c \in Calls, unlock(c) PROVE StoresAtomic'
    BY <1>0, <1>8, StoresKept DEF unlock, Places
  <1>9. ASSUME NEW c \in Calls, Return(c) PROVE StoresAtomic'
    <2>1. \A d \in Calls : d # c => seen'[d] = seen[d]
      BY <1>0, <1>9 DEF Return, TypeOK
    <2> QED  BY <1>0, <1>9, <2>1, StoresKept DEF Return, Places
  <1>10. ASSUME NEW t \in Threads, Await(t) PROVE StoresAtomic'
    BY <1>0, <1>10 DEF Await, StoresAtomic
  <1> QED  BY <1>1, <1>2, <1>3, <1>4, <1>5, <1>6, <1>7, <1>8, <1>9, <1>10 DEF Next, Locked
-----------------------------------------------------------------------------
\* A step that leaves the value of a Future, its ready, and who goes through.
LEMMA SetterKept ==
    ASSUME TypeOK, SetterLog, NEW c \in Calls, NEW q \in Places, Goto(c, q),
           UNCHANGED <<kind, ready, log, sawReady>>,
           pc[c] # "close", q # "close",
           \A d \in Calls : d # c => /\ op'[d] = op[d] /\ seen'[d] = seen[d]
                                     /\ d \in panicked' <=> d \in panicked,
           SetThrough(c)' => SetThrough(c),
           kind = "Future" /\ op'[c] = "Get" /\ q \in {"unlock", "return"} =>
              IF c \in panicked' THEN c[1] \notin sawReady ELSE ready /\ seen'[c] = log
    PROVE  SetterLog'
  <1>1. pc'[c] = q /\ \A d \in Calls : d # c => pc'[d] = pc[d]
    BY Moved
  <1>2. kind' = kind /\ ready' = ready /\ log' = log /\ sawReady' = sawReady
    OBVIOUS
  <1>3. SUFFICES ASSUME kind = "Future" PROVE SetterLog'
    BY <1>2 DEF SetterLog
  <1>4. \A d \in Calls : SetThrough(d)' => SetThrough(d)
    BY <1>1 DEF SetThrough
  <1>5. \A d \in Calls : pc'[d] = "close" <=> pc[d] = "close"
    BY <1>1
  <1>6. \A d \in Calls : op'[d] = "Get" /\ pc'[d] \in {"unlock", "return"} =>
            IF d \in panicked' THEN d[1] \notin sawReady ELSE ready /\ seen'[d] = log
    BY <1>1, <1>3 DEF SetterLog
  <1> QED  BY <1>2, <1>3, <1>4, <1>5, <1>6 DEF SetterLog

LEMMA SetterStep ==
    ASSUME Inv, Next
    PROVE  SetterLog'
  <1>0. TypeOK /\ Excl /\ Args /\ StoresAtomic /\ NotNested /\ SetterLog
    BY DEF Inv
  <1>1. ASSUME NEW c \in Calls, NEW m \in Methods[kind], NEW x \in Items, Call(c, m, x)
        PROVE  SetterLog'
    <2>1. PICK q \in {"lock", "locked"} : Goto(c, q)
      BY <1>1 DEF Call
    <2>2. pc[c] = "idle" /\ pc'[c] = q
      BY <1>0, <1>1, <2>1, Moved DEF Call, Places
    <2>3. \A d \in Calls : d # c => op'[d] = op[d] /\ seen'[d] = seen[d]
      BY <1>0, <1>1 DEF Call, TypeOK
    <2>4. ~SetThrough(c)'
      BY <2>2 DEF SetThrough
    <2> QED  BY <1>0, <1>1, <2>1, <2>2, <2>3, <2>4, SetterKept DEF Call, Places
  <1>2. ASSUME NEW c \in Calls, lock(c) PROVE SetterLog'
    <2>1. pc[c] = "lock" /\ Goto(c, "locked") /\ pc'[c] = "locked"
      BY <1>0, <1>2, Moved DEF lock, Places
    <2>2. ~SetThrough(c)'
      BY <2>1 DEF SetThrough
    <2> QED  BY <1>0, <1>2, <2>1, <2>2, SetterKept DEF lock, Places
  <1>3. ASSUME NEW c \in Calls, set(c), ready PROVE SetterLog'
    <2>1. pc[c] = "locked" /\ op[c] = "set" /\ op' = op /\ Goto(c, "unlock")
      BY <1>3, Entered DEF set
    <2>2. c \in panicked' /\ \A d \in Calls : d # c => (d \in panicked' <=> d \in panicked)
      BY <1>3 DEF set
    <2>3. ~SetThrough(c)'
      BY <2>2 DEF SetThrough
    <2> QED  BY <1>0, <1>3, <2>1, <2>2, <2>3, SetterKept DEF set, Places
  <1>4. ASSUME NEW c \in Calls, set(c), ~ready PROVE SetterLog'
    <2>1. kind = "Future" /\ log = << >>
      BY <1>4, NotSetYet DEF set
    <2>2. pc'[c] = "close" /\ \A d \in Calls : d # c => pc'[d] = pc[d]
      BY <1>0, <1>4, Moved DEF set, Places
    <2>3. /\ UNCHANGED <<kind, ready, sawReady, op, seen, panicked>>
          /\ log' = Append(log, arg[c])
      BY <1>4 DEF set
    <2>4. op[c] = "set" /\ Len(log') = 1 /\ Len(log) = 0
      BY <1>4, <2>1, <2>3, Entered DEF set
    <2>5. \A d \in Calls : SetThrough(d)' => d = c
      <3>1. \A d \in Calls : ~SetThrough(d)
        BY <1>0, <2>1, <2>4 DEF SetterLog
      <3> QED  BY <2>2, <2>3, <3>1 DEF SetThrough
    <2>6. \A d \in Calls : op[d] = "Get" /\ pc'[d] \in {"unlock", "return"} =>
              d \in panicked /\ d[1] \notin sawReady
      BY <1>0, <1>4, <2>1, <2>2 DEF SetterLog
    <2>7. \A d \in Calls : SetThrough(d)' \/ pc'[d] = "close" => Len(log') = 1
      BY <2>4
    <2>8. \A d, e \in Calls : SetThrough(d)' /\ SetThrough(e)' => d = e
      BY <2>5
    <2>9. ~ready' /\ sawReady' = {}
      BY <1>0, <1>4, <2>1, <2>3 DEF SetterLog
    <2> QED  BY <2>2, <2>3, <2>4, <2>6, <2>7, <2>8, <2>9 DEF SetterLog
  <1>5. ASSUME NEW c \in Calls, closeReady(c) PROVE SetterLog'
    <2>1. pc[c] = "close" /\ op[c] = "set"
      BY <1>0, <1>5 DEF closeReady, Args
    <2>2. pc'[c] = "unlock" /\ \A d \in Calls : d # c => pc'[d] = pc[d]
      BY <1>0, <1>5, Moved DEF closeReady, Places
    <2>3. kind = "Future"
      BY <1>0, <2>1, KindOf
    <2>4. \A d \in Calls : d # c => pc[d] # "close"
      <3>1. writer = c /\ readers = {}
        BY <1>0, <2>1 DEF Excl, Held, Inside, Writers
      <3> QED  BY <1>0, <3>1, Alone DEF Inside
    <2>5. ready' = TRUE /\ UNCHANGED <<kind, log, sawReady, op, seen, panicked>>
      BY <1>5 DEF closeReady
    <2>6. \A d \in Calls : SetThrough(d)' => SetThrough(d)
      BY <2>1, <2>2, <2>5 DEF SetThrough
    <2>7. \A d \in Calls : op[d] = "Get" /\ pc'[d] \in {"unlock", "return"} =>
              IF d \in panicked THEN d[1] \notin sawReady ELSE seen[d] = log
      BY <1>0, <2>1, <2>2, <2>3 DEF SetterLog
    <2>8. \A d \in Calls : pc'[d] # "close"
      BY <2>2, <2>4
    <2>9. Len(log) = 1
      BY <1>0, <2>1, <2>3 DEF SetterLog
    <2>10. \A d, e \in Calls : SetThrough(d) /\ SetThrough(e) => d = e
      BY <1>0, <2>3 DEF SetterLog
    <2> QED  BY <2>3, <2>5, <2>6, <2>7, <2>8, <2>9, <2>10 DEF SetterLog
  <1>6. ASSUME NEW c \in Calls, Get(c) PROVE SetterLog'
    <2>1. pc[c] = "locked" /\ op[c] = "Get" /\ Goto(c, "unlock")
      BY <1>6, Entered DEF Get
    <2>2. /\ \A d \in Calls : d # c => (d \in panicked' <=> d \in panicked)
          /\ \A d \in Calls : d # c => seen'[d] = seen[d]
      BY <1>0, <1>6 DEF Get, TypeOK
    <2>3. op' = op /\ ~SetThrough(c)'
      BY <1>6, <2>1 DEF Get, SetThrough
    <2>4. kind = "Future" =>
              IF c \in panicked' THEN c[1] \notin sawReady ELSE ready /\ seen'[c] = log
      <3>1. CASE ready
        <4>1. seen'[c] = value /\ panicked' = panicked
          BY <1>0, <1>6, <3>1 DEF Get, TypeOK
        <4>2. c \notin panicked
          BY <1>0, <2>1 DEF Inv, Panicking
        <4> QED  BY <1>0, <3>1, <4>1, <4>2 DEF StoresAtomic
      <3>2. CASE ~ready
        BY <1>0, <1>6, <3>2 DEF Get, SetterLog
      <3> QED  BY <3>1, <3>2
    <2> QED  BY <1>0, <1>6, <2>1, <2>2, <2>3, <2>4, SetterKept DEF Get, Places
  <1>7. ASSUME NEW c \in Calls,
               \/ CopyValue(c) \/ callback(c) \/ callbackReturns(c) \/ callbackPanics(c)
               \/ Write(c) \/ Reset(c) \/ Bytes(c)
        PROVE  SetterLog'
    <2>1. pc[c] # "idle"
      BY <1>7 DEF CopyValue, callback, callbackReturns, callbackPanics, Write, Reset, Bytes,
                  Enter, InCallback
    <2>2. op[c] \in {"CopyValue", "Load", "Store", "Write", "Reset", "Bytes"}
      BY <1>0, <1>7 DEF CopyValue, callback, callbackReturns, callbackPanics, Write, Reset, Bytes,
                        Enter, InCallback, Args
    <2>3. kind # "Future"
      BY <1>0, <2>1, <2>2, KindOf
    <2>4. kind' = kind
      BY <1>7 DEF CopyValue, callback, callbackReturns, callbackPanics, Write, Reset, Bytes
    <2> QED  BY <2>3, <2>4 DEF SetterLog
  <1>8. ASSUME NEW c \in Calls, unlock(c) PROVE SetterLog'
    <2>1. pc[c] = "unlock" /\ Goto(c, "return") /\ pc'[c] = "return"
      BY <1>0, <1>8, Moved DEF unlock, Places
    <2>2. UNCHANGED <<kind, ready, log, sawReady, op, seen, panicked>>
      BY <1>8 DEF unlock
    <2>3. SetThrough(c)' => SetThrough(c)
      BY <2>1, <2>2 DEF SetThrough
    <2>4. kind = "Future" /\ op'[c] = "Get" =>
              IF c \in panicked' THEN c[1] \notin sawReady ELSE ready /\ seen'[c] = log
      BY <1>0, <2>1, <2>2 DEF SetterLog
    <2> QED  BY <1>0, <2>1, <2>2, <2>3, <2>4, SetterKept DEF Places
  <1>9. ASSUME NEW c \in Calls, Return(c) PROVE SetterLog'
    <2>1. pc[c] = "return" /\ Goto(c, "idle") /\ pc'[c] = "idle"
      BY <1>0, <1>9, Moved DEF Return, Places
    <2>2. \A d \in Calls : d # c => /\ op'[d] = op[d] /\ seen'[d] = seen[d]
                                    /\ d \in panicked' <=> d \in panicked
      BY <1>0, <1>9 DEF Return, TypeOK
    <2>3. ~SetThrough(c)'
      BY <2>1 DEF SetThrough
    <2> QED  BY <1>0, <1>9, <2>1, <2>2, <2>3, SetterKept DEF Return, Places
  <1>10. ASSUME NEW t \in Threads, Await(t) PROVE SetterLog'
    <2>1. kind = "Future" /\ ready /\ sawReady' = sawReady \cup {t} /\ pc[<<t, 1>>] = "idle"
      BY <1>10 DEF Await
    <2>2. UNCHANGED <<kind, ready, log, pc, op, seen, panicked>>
      BY <1>10 DEF Await
    <2>3. \A c \in Calls : c[1] = t => pc[c] = "idle"
      BY <1>0, <2>1 DEF NotNested, Calls
    <2>4. \A c \in Calls : SetThrough(c)' <=> SetThrough(c)
      BY <2>2 DEF SetThrough
    <2>5. \A c \in Calls : op[c] = "Get" /\ pc[c] \in {"unlock", "return"} =>
              IF c \in panicked THEN c[1] \notin sawReady' ELSE ready /\ seen[c] = log
      BY <1>0, <2>1, <2>3 DEF SetterLog
    <2> QED  BY <1>0, <2>1, <2>2, <2>4, <2>5 DEF SetterLog
  <1> QED  BY <1>1, <1>2, <1>3, <1>4, <1>5, <1>6, <1>7, <1>8, <1>9, <1>10 DEF Next, Locked
LEMMA PanickingStep ==
    ASSUME TypeOK, Panicking, Next
    PROVE  Panicking'
  <1>1. ASSUME NEW c \in Calls, NEW q \in Places, Goto(c, q), panicked' \subseteq panicked \cup {c},
               c \in panicked' => q \in {"unlock", "return"}
        PROVE  Panicking'
    BY <1>1, Moved DEF Panicking
  <1>2. ASSUME NEW c \in Calls, NEW m \in Methods[kind], NEW x \in Items, Call(c, m, x)
        PROVE  Panicking'
    <2>1. PICK q \in {"lock", "locked"} : Goto(c, q)
      BY <1>2 DEF Call
    <2>2. panicked' = panicked /\ c \notin panicked
      BY <1>2 DEF Call, Panicking
    <2> QED  BY <1>1, <2>1, <2>2 DEF Places
  <1>3. ASSUME NEW c \in Calls, lock(c) \/ set(c) \/ callback(c) PROVE Panicking'
    <2>1. PICK q \in {"locked", "close", "unlock", "callback"} : Goto(c, q)
      BY <1>3 DEF lock, set, callback
    <2>2. c \notin panicked
      BY <1>3 DEF lock, set, callback, Enter, Panicking
    <2>3. panicked' = panicked \/ (panicked' = panicked \cup {c} /\ Goto(c, "unlock"))
      BY <1>3 DEF lock, set, callback
    <2> QED  BY <1>1, <2>1, <2>2, <2>3 DEF Places
  <1>4. ASSUME NEW c \in Calls,
               \/ closeReady(c) \/ Get(c) \/ CopyValue(c) \/ callbackReturns(c)
               \/ callbackPanics(c) \/ Write(c) \/ Reset(c) \/ Bytes(c)
        PROVE  Panicking'
    <2>1. Goto(c, "unlock") /\ panicked' \subseteq panicked \cup {c}
      BY <1>4 DEF closeReady, Get, CopyValue, callbackReturns, callbackPanics, Write, Reset, Bytes
    <2> QED  BY <1>1, <2>1 DEF Places
  <1>5. ASSUME NEW c \in Calls, unlock(c) PROVE Panicking'
    BY <1>1, <1>5 DEF unlock, Places
  <1>6. ASSUME NEW c \in Calls, Return(c) PROVE Panicking'
    <2>1. Goto(c, "idle") /\ panicked' = panicked \ {c}
      BY <1>6 DEF Return
    <2> QED  BY <1>1, <2>1 DEF Places
  <1>7. ASSUME NEW t \in Threads, Await(t) PROVE Panicking'
    BY <1>7 DEF Await, Panicking
  <1> QED  BY <1>2, <1>3, <1>4, <1>5, <1>6, <1>7 DEF Next, Locked

LEMMA OwnedStep ==
    ASSUME TypeOK, Owned, Next
    PROVE  Owned'
  <1>1. ASSUME NEW c \in Calls, Bytes(c) PROVE Owned'
    <2>1. \A t \in Threads : t # c[1] => kept'[t] = kept[t] /\ was'[t] = was[t]
      BY <1>1 DEF Bytes, TypeOK
    <2>2. c[1] \in Threads
      BY DEF Calls
    <2>3. kept'[c[1]] = [own |-> TRUE, items |-> value] /\ was'[c[1]] = value
      BY <1>1, <2>2 DEF Bytes, Clone, TypeOK
    <2> QED  BY <2>1, <2>3 DEF Owned
  <1>2. CASE UNCHANGED <<kept, was>>
    BY <1>2 DEF Owned
  <1>3. ASSUME NEW c \in Calls, NEW m \in Methods[kind], NEW x \in Items, Call(c, m, x)
        PROVE  UNCHANGED <<kept, was>>
    BY <1>3 DEF Call
  <1>4. ASSUME NEW c \in Calls,
               \/ lock(c) \/ set(c) \/ closeReady(c) \/ Get(c) \/ CopyValue(c) \/ callback(c)
               \/ callbackReturns(c) \/ callbackPanics(c) \/ Write(c) \/ Reset(c)
               \/ unlock(c) \/ Return(c)
        PROVE  UNCHANGED <<kept, was>>
    BY <1>4 DEF lock, set, closeReady, Get, CopyValue, callback, callbackReturns, callbackPanics,
                Write, Reset, unlock, Return
  <1>5. ASSUME NEW t \in Threads, Await(t) PROVE UNCHANGED <<kept, was>>
    BY <1>5 DEF Await
  <1> QED  BY <1>1, <1>2, <1>3, <1>4, <1>5 DEF Next, Locked

-----------------------------------------------------------------------------
LEMMA StepInv == Inv /\ [Next]_vars => Inv'
  <1>1. ASSUME Inv, Next PROVE Inv'
    <2> USE <1>1 DEF Inv
    <2>1. TypeOK'
      BY TypeStep
    <2>2. Excl'
      BY ExclStep
    <2>3. Args' /\ NotNested'
      BY ArgsStep
    <2>4. Panicking'
      BY PanickingStep
    <2>5. StoresAtomic'
      BY StoresStep
    <2>6. SetterLog'
      BY SetterStep
    <2>7. Owned'
      BY OwnedStep
    <2> QED  BY <2>1, <2>2, <2>3, <2>4, <2>5, <2>6, <2>7
  <1>2. ASSUME Inv, UNCHANGED vars PROVE Inv'
    <2> USE <1>2 DEF Inv, vars, muVars
    <2>1. TypeOK' /\ Excl'
      BY DEF TypeOK, mu!TypeOK, Excl
    <2>2. Args' /\ Panicking' /\ NotNested'
      BY DEF Args, Panicking, NotNested
    <2>3. StoresAtomic' /\ Owned'
      BY DEF StoresAtomic, Owned
    <2>4. SetterLog'
      BY DEF SetterLog, SetThrough
    <2> QED  BY <2>1, <2>2, <2>3, <2>4
  <1> QED  BY <1>1, <1>2

LEMMA InvAlways == Spec => []Inv
  BY InitInv, StepInv, PTL DEF Spec

\* The variables keep their types in every behaviour: the values, the lock and
\* the calls around it.
THEOREM TypeCorrect == Spec => []TypeOK
  <1>1. Inv => TypeOK
    BY DEF Inv
  <1> QED  BY <1>1, InvAlways, PTL

\* No store is lost or half done, and none changes the value under a callback,
\* whatever callbacks panic (dataguard.go:34-57).
THEOREM StoresAreAtomic == Spec => []StoresAtomic
  <1>1. Inv => StoresAtomic
    BY DEF Inv
  <1> QED  BY <1>1, InvAlways, PTL

\* A Future has one value, that of the one setter that does not panic, and
\* whoever has found it ready gets it (future.go:30-68).
THEOREM FutureIsSetOnce == Spec => []SetOnce
  <1>1. ASSUME Inv PROVE SetOnce
    <2>1. SUFFICES ASSUME kind = "Future" PROVE SetOnce
      BY DEF SetOnce
    <2>2. ASSUME NEW c \in Calls \ panicked, NEW d \in Calls \ panicked,
                 op[c] = "set", pc[c] \in {"close", "unlock", "return"},
                 op[d] = "set", pc[d] \in {"close", "unlock", "return"}
          PROVE  c = d
      <3>1. SetThrough(c) /\ SetThrough(d)
        BY <2>2 DEF SetThrough
      <3> QED  BY <1>1, <2>1, <3>1 DEF SetterLog, Inv
    <2>3. \A c \in Calls :
              op[c] = "Get" /\ pc[c] \in {"unlock", "return"} =>
                 IF c \in panicked THEN c[1] \notin sawReady ELSE seen[c] = log
      BY <1>1, <2>1 DEF SetterLog, Inv
    <2>4. Len(log) <= 1 /\ (ready => Len(log) = 1)
      BY <1>1, <2>1 DEF SetterLog, Inv
    <2> QED  BY <2>2, <2>3, <2>4 DEF SetOnce
  <1> QED  BY <1>1, InvAlways, PTL

\* What Bytes returned is nobody else's, so that no write reaches it
\* (buffer.go:24-32).
THEOREM ClonesAreKept == Spec => []ClonesKeep
  <1>1. ASSUME Inv PROVE ClonesKeep
    <2>1. SUFFICES ASSUME NEW t \in Threads PROVE Contents(kept[t]) = was[t]
      BY DEF ClonesKeep
    <2>2. kept[t] = [own |-> TRUE, items |-> was[t]]
      BY <1>1 DEF Inv, Owned
    <2>3. kept[t].own /\ kept[t].items = was[t]
      BY <2>2
    <2>4. Contents(kept[t]) = kept[t].items
      BY <2>3 DEF Contents
    <2> QED  BY <2>3, <2>4
  <1> QED  BY <1>1, InvAlways, PTL

-----------------------------------------------------------------------------
\* A second call of a goroutine is one that its first one's callback makes.
Nesting == \A t \in Threads : pc[<<t, 2>>] # "idle" => pc[<<t, 1>>] = "callback"

\* Who moves, and from where.
Moves(c) ==
    /\ \A d \in Calls : d # c => pc'[d] = pc[d] /\ op'[d] = op[d]
    /\ pc[c] = "idle" => Running(c)
    /\ pc[c] = "callback" => InCallback(c)
    /\ pc[c] = "lock" => lock(c)
    /\ pc[c] = "locked" => HasLock(c)

LEMMA OneMoves ==
    ASSUME TypeOK, [Next]_vars
    PROVE  UNCHANGED <<pc, op>> \/ \E c \in Calls : Moves(c)
  <1> USE DEF TypeOK, Goto
  <1>1. ASSUME NEW c \in Calls, NEW m \in Methods[kind], NEW x \in Items, Call(c, m, x)
        PROVE  Moves(c)
    <2>1. \E q \in Places : pc' = [pc EXCEPT ![c] = q]
      BY <1>1 DEF Call, Places
    <2> QED  BY <1>1, <2>1 DEF Call, Moves
  <1>2. ASSUME NEW c \in Calls, lock(c) PROVE Moves(c)
    <2>1. pc[c] = "lock" /\ pc' = [pc EXCEPT ![c] = "locked"] /\ op' = op
      BY <1>2 DEF lock
    <2> QED  BY <1>2, <2>1 DEF Moves
  <1>3. ASSUME NEW c \in Calls, Locked(c) PROVE Moves(c)
    <2>1. \E q \in Places : pc' = [pc EXCEPT ![c] = q]
      BY <1>3 DEF Locked, set, closeReady, Get, CopyValue, callback, callbackReturns, callbackPanics,
                  Write, Reset, Bytes, unlock, Return, Places
    <2>2. op' = op \/ \E m : op' = [op EXCEPT ![c] = m]
      BY <1>3 DEF Locked, set, closeReady, Get, CopyValue, callback, callbackReturns, callbackPanics,
                  Write, Reset, Bytes, unlock, Return
    <2>3. \/ pc[c] = "locked" /\ HasLock(c)
          \/ pc[c] = "callback" /\ InCallback(c)
          \/ pc[c] \in {"close", "unlock", "return"}
      BY <1>3 DEF Locked, set, closeReady, Get, CopyValue, callback, callbackReturns, callbackPanics,
                  Write, Reset, Bytes, unlock, Return, Enter, InCallback
    <2>4. \A d \in Calls : d # c => pc'[d] = pc[d] /\ op'[d] = op[d]
      BY <2>1, <2>2
    <2> QED  BY <2>3, <2>4 DEF Moves
  <1>4. ASSUME NEW t \in Threads, Await(t) PROVE UNCHANGED <<pc, op>>
    BY <1>4 DEF Await
  <1>5. CASE UNCHANGED vars
    BY <1>5 DEF vars
  <1> QED  BY <1>1, <1>2, <1>3, <1>4, <1>5 DEF Next

LEMMA Pair ==
    ASSUME NEW t \in Threads
    PROVE  /\ <<t, 1>> \in Calls /\ <<t, 2>> \in Calls /\ <<t, 1>> # <<t, 2>>
           /\ <<t, 1>>[1] = t /\ <<t, 1>>[2] = 1 /\ <<t, 2>>[1] = t /\ <<t, 2>>[2] = 2
  BY DEF Calls

LEMMA NestingStep ==
    ASSUME TypeOK, Nesting, [Next]_vars
    PROVE  Nesting'
  <1> SUFFICES ASSUME NEW t \in Threads, pc'[<<t, 2>>] # "idle"
               PROVE  pc'[<<t, 1>>] = "callback"
    BY DEF Nesting
  <1>1. CASE UNCHANGED <<pc, op>>
    BY <1>1 DEF Nesting
  <1>2. ASSUME NEW c \in Calls, Moves(c) PROVE pc'[<<t, 1>>] = "callback"
    <2>1. CASE c = <<t, 1>>
      <3>1. pc'[<<t, 2>>] = pc[<<t, 2>>]
        BY <1>2, <2>1, Pair DEF Moves
      <3>2. pc[<<t, 1>>] = "callback"
        BY <3>1 DEF Nesting
      <3>3. pc[<<t, 2>>] = "idle"
        BY <1>2, <2>1, <3>2, Pair DEF Moves, InCallback
      <3> QED  BY <3>1, <3>3
    <2>2. CASE c # <<t, 1>>
      <3>1. pc'[<<t, 1>>] = pc[<<t, 1>>]
        BY <1>2, <2>2, Pair DEF Moves
      <3>2. CASE c = <<t, 2>>
        <4>1. pc[<<t, 2>>] = "idle" => pc[<<t, 1>>] = "callback"
          BY <1>2, <3>2, Pair DEF Moves, Running
        <4> QED  BY <3>1, <4>1 DEF Nesting
      <3>3. CASE c # <<t, 2>>
        <4>1. pc'[<<t, 2>>] = pc[<<t, 2>>]
          BY <1>2, <3>3, Pair DEF Moves
        <4> QED  BY <3>1, <4>1 DEF Nesting
      <3> QED  BY <3>2, <3>3
    <2> QED  BY <2>1, <2>2
  <1> QED  BY <1>1, <1>2, OneMoves

\* Whom a writer's announcement keeps out stays out for as long as somebody is
\* in a callback: only the writer's Unlock lets it in.
LEMMA NotLetIn ==
    ASSUME TypeOK, Excl, [Next]_vars, NEW o \in Calls, NEW c \in Calls,
           pc[o] = "callback", pc[c] = "locked", c \notin readers
    PROVE  c \notin readers'
  <1>1. ASSUME NEW d \in Calls, NEW m \in Methods[kind], NEW x \in Items, Call(d, m, x)
        PROVE  c \notin readers'
    <2>1. d # c /\ readers' \in {readers, readers \cup {d}}
      BY <1>1 DEF Call, mu!RLock, muVars
    <2> QED  BY <2>1
  <1>2. ASSUME NEW d \in Calls, unlock(d) PROVE c \notin readers'
    <2>1. CASE op[d] \in Writers
      <3>1. writer = d /\ readers = {} /\ d # o
        BY <1>2, <2>1 DEF unlock, Excl, Held, Inside
      <3>2. CASE op[o] \in Writers
        BY <3>1, <3>2 DEF Excl, Held
      <3>3. CASE op[o] \notin Writers
        BY <3>1, <3>3 DEF Excl, Inside
      <3> QED  BY <3>2, <3>3
    <2>2. CASE op[d] \notin Writers
      BY <1>2, <2>2 DEF unlock, mu!RUnlock
    <2> QED  BY <2>1, <2>2
  <1>3. ASSUME NEW d \in Calls, lock(d) \/ Locked(d), ~unlock(d) PROVE readers' = readers
    BY <1>3 DEF Locked, lock, mu!Lock, set, closeReady, Get, CopyValue, callback, callbackReturns,
                callbackPanics, Write, Reset, Bytes, Return, muVars
  <1>4. ASSUME NEW t \in Threads, Await(t) PROVE readers' = readers
    BY <1>4 DEF Await, muVars
  <1>5. CASE UNCHANGED vars
    BY <1>5 DEF vars, muVars
  <1> QED  BY <1>1, <1>2, <1>3, <1>4, <1>5 DEF Next, Locked

\* A call within a callback has no lock that its goroutine keeps from it: the
\* lock of the call around it stays where it is as long as the inner one waits.
LEMMA Reentry ==
    ASSUME Inv, Nesting, [Next]_vars, NEW t \in Threads, WaitsForItself(t)
    PROVE  WaitsForItself(t)'
  <1> DEFINE o == <<t, 1>>
             c == <<t, 2>>
  <1>0. /\ o \in Calls /\ c \in Calls /\ o # c
        /\ Inv' /\ Excl /\ Excl' /\ Args /\ Args' /\ TypeOK
    BY Pair, StepInv DEF Inv
  <1>1. pc[c] \in {"lock", "locked"} /\ pc[o] = "callback" /\ pc[c] # "idle" /\ ~InCallback(o)
    BY Pair DEF WaitsForItself, Nesting, InCallback
  <1>2. pc'[o] = "callback" /\ op'[o] = op[o]
    <2>1. ASSUME NEW d \in Calls, Moves(d) PROVE pc'[o] = pc[o] /\ op'[o] = op[o]
      <3>1. d # o
        BY <1>1, <2>1 DEF Moves
      <3> QED  BY <1>0, <2>1, <3>1 DEF Moves
    <2> QED  BY <1>0, <1>1, <2>1, OneMoves
  <1> HIDE DEF o, c
  <1>3. \/ pc'[c] = pc[c] /\ op'[c] = op[c]
        \/ pc[c] = "lock" /\ lock(c)
        \/ pc[c] = "locked" /\ HasLock(c)
    <2>1. ASSUME NEW d \in Calls, Moves(d), d # c PROVE pc'[c] = pc[c] /\ op'[c] = op[c]
      BY <1>0, <2>1 DEF Moves
    <2>2. ASSUME Moves(c)
          PROVE  (pc[c] = "lock" /\ lock(c)) \/ (pc[c] = "locked" /\ HasLock(c))
      BY <1>1, <2>2, Zenon DEF Moves
    <2> QED  BY <1>0, <2>1, <2>2, OneMoves
  <1>4. CASE pc[c] = "lock" /\ lock(c)
    <2>1. pc'[c] = "locked" /\ op'[c] = op[c] /\ op[c] \in Writers /\ writer' = c
      BY <1>0, <1>4 DEF lock, Goto, TypeOK, mu!Lock, Args
    <2>2. readers' # {}
      <3>1. op[o] \notin Writers
        BY <1>0, <1>2, <2>1 DEF Excl, Held
      <3> QED  BY <1>0, <1>2, <3>1 DEF Excl, Inside
    <2> QED  BY <2>1, <2>2 DEF WaitsForItself, HasLock, mu!Locked, c
  <1>5. CASE pc[c] = "lock" /\ pc'[c] = pc[c] /\ op'[c] = op[c]
    BY <1>5 DEF WaitsForItself, c
  <1>6. CASE pc[c] = "locked"
    <2>1. ~HasLock(c)
      BY <1>6 DEF WaitsForItself, c
    <2>2. pc'[c] = "locked" /\ op'[c] = op[c]
      BY <1>3, <1>6, <2>1
    <2>3. CASE op[c] \in Writers
      <3>1. op'[o] \notin Writers
        BY <1>0, <1>2, <2>2, <2>3 DEF Excl, Held
      <3>2. readers' # {}
        BY <1>0, <1>2, <3>1 DEF Excl, Inside
      <3> QED  BY <2>2, <2>3, <3>2 DEF WaitsForItself, HasLock, mu!Locked, c
    <2>4. CASE op[c] \notin Writers
      <3>1. c \notin readers
        BY <2>1, <2>4 DEF HasLock, mu!RLocked
      <3>2. c \notin readers'
        BY <1>0, <1>1, <1>2, <1>6, <2>2, <2>4, <3>1, NotLetIn
      <3> QED  BY <2>2, <2>4, <3>2 DEF WaitsForItself, HasLock, mu!RLocked, c
    <2> QED  BY <2>3, <2>4
  <1> QED  BY <1>1, <1>3, <1>4, <1>5, <1>6

\* A goroutine that waits for a lock which its own callback's caller has waits
\* for ever: nobody can give it up (dataguard.go:35, 53).
THEOREM ReentryHasNoEnd == Spec => ReentryIsForGood
  <1>1. Init => Nesting
    BY Pair DEF Init, Nesting
  <1>2. Inv /\ Nesting /\ [Next]_vars => Nesting'
    BY NestingStep DEF Inv
  <1>3. Inv /\ Nesting /\ [Next]_vars
            => [\A t \in Threads : WaitsForItself(t) => WaitsForItself(t)']_vars
    BY Reentry
  <1> QED  BY <1>1, <1>2, <1>3, InvAlways, PTL DEF Spec, ReentryIsForGood
=============================================================================
