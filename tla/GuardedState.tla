---------------------------- MODULE GuardedState ----------------------------
(***************************************************************************)
(* The three types that keep one value behind one sync.RWMutex:            *)
(* future/future.go, synctools/dataguard.go and synctools/buffer.go.       *)
(*                                                                         *)
(* Their methods lock, defer the unlock, and do their work in between: a   *)
(* Future's setter and Get panic when they come too late or too early, a   *)
(* DataGuard runs a callback of its caller's, which may panic or call the  *)
(* same DataGuard again, and a Buffer writes to an array that it uses      *)
(* again after a Reset.  A value is the sequence of what was stored in it; *)
(* the callback of a Store appends to what it is given.                    *)
(***************************************************************************)
EXTENDS Integers, Sequences, FiniteSets

CONSTANTS Threads,
          Items,      \* what is set, stored or written
          None,       \* neither a call nor an item
          Kinds,      \* which of the three types are made
          MaxStores   \* bound: items that a value is made of

\* The calls of a goroutine: one of its own, and one that its callback makes.
Calls == Threads \X {1, 2}

ASSUME NoneAssumption  == None \notin Calls \cup Items
ASSUME KindsAssumption == Kinds \subseteq {"Future", "DataGuard", "Buffer"}
ASSUME BoundAssumption == MaxStores \in Nat

VARIABLES
    kind,        \* the type of the object
    value,       \* Future.val, DataGuard.value, what Buffer.builder holds
    ready,       \* Future.ready is closed
    array,       \* the array under Buffer.builder, past the builder's end too
    writer, readers, blocked,   \* the RWMutex
    pc, op, arg, \* where each call is, of which method, with which argument
    seen,        \* the value that the call, or its callback, was given
    panicked,    \* calls that panic
    sawReady,    \* goroutines that have found Ready() closed
    kept,        \* the slice that each goroutine last got from Bytes
    log,         \* history: what was stored and not reset
    was          \* history: what each kept slice held when it was returned

muVars == <<writer, readers, blocked>>
vars == <<kind, value, ready, array, muVars, pc, op, arg, seen, panicked,
          sawReady, kept, log, was>>

mu == INSTANCE RWMutex WITH Threads <- Calls

Methods == [Future    |-> {"set", "Get"},
            DataGuard |-> {"Load", "CopyValue", "Store"},
            Buffer    |-> {"Write", "Reset", "Bytes"}]

\* Mutant: Store takes the lock that Load takes.
WritersButStore == {"set", "Write", "Reset"}

\* The methods that take the lock for themselves alone.
Writers == {"set", "Store", "Write", "Reset"}

\* future.New, NewDataGuard with an empty value, and a zero Buffer.
Init ==
    /\ kind \in Kinds
    /\ value = << >> /\ ready = FALSE /\ array = << >>
    /\ mu!Init
    /\ pc = [c \in Calls |-> "idle"]
    /\ op = [c \in Calls |-> "none"]
    /\ arg = [c \in Calls |-> None]
    /\ seen = [c \in Calls |-> << >>]
    /\ panicked = {} /\ sawReady = {}
    /\ kept = [t \in Threads |-> [own |-> TRUE, items |-> << >>]]
    /\ log = << >>
    /\ was = [t \in Threads |-> << >>]

Goto(c, place) == pc' = [pc EXCEPT ![c] = place]

\* A goroutine calls when it does nothing else, or from its callback.
Running(c) == c[2] = 2 => pc[<<c[1], 1>>] = "callback"

Call(c, m, x) ==
    /\ pc[c] = "idle"
    /\ Running(c)
    /\ m \in Methods[kind]
    /\ m \in {"Store", "Write"} =>
         Len(value) + Cardinality({d \in Calls : arg[d] # None}) < MaxStores
    /\ op' = [op EXCEPT ![c] = m]
    /\ arg' = [arg EXCEPT ![c] = IF m \in {"set", "Store", "Write"} THEN x ELSE None]
    /\ IF m \in Writers THEN Goto(c, "lock") /\ UNCHANGED muVars
                        ELSE Goto(c, "locked") /\ mu!RLock(c)
    /\ UNCHANGED <<kind, value, ready, array, seen, panicked, sawReady, kept, log, was>>

lock(c) ==
    /\ pc[c] = "lock"
    /\ mu!Lock(c)
    /\ Goto(c, "locked")
    /\ UNCHANGED <<kind, value, ready, array, op, arg, seen, panicked, sawReady, kept, log, was>>

\* A receive from the channel that Ready returns, outside any call.
Await(t) ==
    /\ kind = "Future" /\ ready
    /\ pc[<<t, 1>>] = "idle"
    /\ sawReady' = sawReady \cup {t}
    /\ UNCHANGED <<kind, value, ready, array, muVars, pc, op, arg, seen, panicked, kept, log, was>>

HasLock(c) == IF op[c] \in Writers THEN mu!Locked(c) ELSE mu!RLocked(c)

Enter(c, m) == pc[c] = "locked" /\ op[c] = m /\ HasLock(c)

-----------------------------------------------------------------------------
\* Mutant: the setter trusts its callers.
setAnyway(c) ==
    /\ Enter(c, "set")
    /\ value' = <<arg[c]>> /\ log' = Append(log, arg[c])
    /\ Goto(c, "close")
    /\ UNCHANGED <<kind, ready, array, muVars, op, arg, seen, panicked, sawReady, kept, was>>

set(c) ==
    /\ Enter(c, "set")
    /\ IF ready
       THEN /\ panicked' = panicked \cup {c}
            /\ Goto(c, "unlock")
            /\ UNCHANGED <<value, log>>
       ELSE /\ value' = <<arg[c]>> /\ log' = Append(log, arg[c])
            /\ Goto(c, "close")
            /\ UNCHANGED panicked
    /\ UNCHANGED <<kind, ready, array, muVars, op, arg, seen, sawReady, kept, was>>

closeReady(c) ==
    /\ pc[c] = "close"
    /\ ready' = TRUE
    /\ Goto(c, "unlock")
    /\ UNCHANGED <<kind, value, array, muVars, op, arg, seen, panicked, sawReady, kept, log, was>>

Get(c) ==
    /\ Enter(c, "Get")
    /\ IF ready THEN seen' = [seen EXCEPT ![c] = value] /\ UNCHANGED panicked
                ELSE panicked' = panicked \cup {c} /\ UNCHANGED seen
    /\ Goto(c, "unlock")
    /\ UNCHANGED <<kind, value, ready, array, muVars, op, arg, sawReady, kept, log, was>>

-----------------------------------------------------------------------------
CopyValue(c) ==
    /\ Enter(c, "CopyValue")
    /\ seen' = [seen EXCEPT ![c] = value]
    /\ Goto(c, "unlock")
    /\ UNCHANGED <<kind, value, ready, array, muVars, op, arg, panicked, sawReady, kept, log, was>>

\* Mutant: Load lets go of the lock before it calls back.
callbackUnlocked(c) ==
    /\ Enter(c, "Load") \/ Enter(c, "Store")
    /\ seen' = [seen EXCEPT ![c] = value]
    /\ Goto(c, "callback")
    /\ IF op[c] = "Load" THEN mu!RUnlock(c) ELSE UNCHANGED muVars
    /\ UNCHANGED <<kind, value, ready, array, op, arg, panicked, sawReady, kept, log, was>>

\* Load and Store, as far as the callback.
callback(c) ==
    /\ Enter(c, "Load") \/ Enter(c, "Store")
    /\ seen' = [seen EXCEPT ![c] = value]
    /\ Goto(c, "callback")
    /\ UNCHANGED <<kind, value, ready, array, muVars, op, arg, panicked, sawReady, kept, log, was>>

\* A callback that does not wait for a call of its own.
InCallback(c) == pc[c] = "callback" /\ (c[2] = 1 => pc[<<c[1], 2>>] = "idle")

\* The callback returns: Store assigns what it returned.
callbackReturns(c) ==
    /\ InCallback(c)
    /\ IF op[c] = "Store" THEN value' = Append(seen[c], arg[c]) /\ log' = Append(log, arg[c])
                          ELSE UNCHANGED <<value, log>>
    /\ Goto(c, "unlock")
    /\ UNCHANGED <<kind, ready, array, muVars, op, arg, seen, panicked, sawReady, kept, was>>

\* Mutant: Store recovers, and assigns the zero value.
callbackRecovered(c) ==
    /\ InCallback(c)
    /\ value' = IF op[c] = "Store" THEN <<None>> ELSE value
    /\ Goto(c, "unlock")
    /\ UNCHANGED <<kind, ready, array, muVars, op, arg, seen, panicked, sawReady, kept, log, was>>

callbackPanics(c) ==
    /\ InCallback(c)
    /\ panicked' = panicked \cup {c}
    /\ Goto(c, "unlock")
    /\ UNCHANGED <<kind, value, ready, array, muVars, op, arg, seen, sawReady, kept, log, was>>

-----------------------------------------------------------------------------
\* The builder overwrites what its array held past its end.
Write(c) ==
    /\ Enter(c, "Write")
    /\ value' = Append(value, arg[c]) /\ log' = Append(log, arg[c])
    /\ array' = value' \o SubSeq(array, Len(value) + 2, Len(array))
    /\ Goto(c, "unlock")
    /\ UNCHANGED <<kind, ready, muVars, op, arg, seen, panicked, sawReady, kept, was>>

\* The builder keeps its array.
Reset(c) ==
    /\ Enter(c, "Reset")
    /\ value' = << >> /\ log' = << >>
    /\ Goto(c, "unlock")
    /\ UNCHANGED <<kind, ready, array, muVars, op, arg, seen, panicked, sawReady, kept, was>>

\* Mutant: what the builder returns, a slice of its array.
View(items) == [own |-> FALSE, items |-> items]

Clone(items) == [own |-> TRUE, items |-> items]

Bytes(c) ==
    /\ Enter(c, "Bytes")
    /\ seen' = [seen EXCEPT ![c] = value]
    /\ kept' = [kept EXCEPT ![c[1]] = Clone(value)]
    /\ was' = [was EXCEPT ![c[1]] = value]
    /\ Goto(c, "unlock")
    /\ UNCHANGED <<kind, value, ready, array, muVars, op, arg, panicked, sawReady, log>>

-----------------------------------------------------------------------------
\* Mutant: no defer: a panic leaves the lock as it is.
unlockUnlessPanic(c) ==
    /\ pc[c] = "unlock"
    /\ IF c \in panicked THEN UNCHANGED muVars
       ELSE IF op[c] \in Writers THEN mu!Unlock(c) ELSE mu!RUnlock(c)
    /\ Goto(c, "return")
    /\ UNCHANGED <<kind, value, ready, array, op, arg, seen, panicked, sawReady, kept, log, was>>

\* The deferred Unlock or RUnlock, of calls that panic too.
unlock(c) ==
    /\ pc[c] = "unlock"
    /\ IF op[c] \in Writers THEN mu!Unlock(c) ELSE mu!RUnlock(c)
    /\ Goto(c, "return")
    /\ UNCHANGED <<kind, value, ready, array, op, arg, seen, panicked, sawReady, kept, log, was>>

\* The call is over; whoever called recovers from its panic or panics too.
Return(c) ==
    /\ pc[c] = "return"
    /\ op' = [op EXCEPT ![c] = "none"]
    /\ arg' = [arg EXCEPT ![c] = None]
    /\ seen' = [seen EXCEPT ![c] = << >>]
    /\ panicked' = panicked \ {c}
    /\ Goto(c, "idle")
    /\ UNCHANGED <<kind, value, ready, array, muVars, sawReady, kept, log, was>>

Locked(c) ==
    \/ set(c) \/ closeReady(c) \/ Get(c)
    \/ CopyValue(c) \/ callback(c) \/ callbackReturns(c) \/ callbackPanics(c)
    \/ Write(c) \/ Reset(c) \/ Bytes(c)
    \/ unlock(c) \/ Return(c)

Next ==
    \/ \E c \in Calls :
          \/ \E m \in Methods[kind], x \in Items : Call(c, m, x)
          \/ lock(c)
          \/ Locked(c)
    \/ \E t \in Threads : Await(t)

Spec == Init /\ [][Next]_vars

-----------------------------------------------------------------------------
Places == {"idle", "lock", "locked", "close", "callback", "unlock", "return"}

\* Types of the object, its lock and the calls.
TypeOK ==
    /\ kind \in Kinds
    /\ value \in Seq(Items)
    /\ ready \in BOOLEAN
    /\ array \in Seq(Items)
    /\ mu!TypeOK
    /\ pc \in [Calls -> Places]
    /\ op \in [Calls -> {"none"} \cup UNION {Methods[k] : k \in Kinds}]
    /\ arg \in [Calls -> Items \cup {None}]
    /\ seen \in [Calls -> Seq(Items)]
    /\ panicked \subseteq Calls
    /\ sawReady \subseteq Threads
    /\ kept \in [Threads -> [own : BOOLEAN, items : Seq(Items)]]
    /\ log \in Seq(Items)
    /\ was \in [Threads -> Seq(Items)]

\* No store is lost, none that panicked counts, and a callback is given a value
\* that stays the object's until it returns (dataguard.go:34-57).
StoresAtomic ==
    /\ value = log
    /\ \A c \in Calls : pc[c] = "callback" => seen[c] = value

\* However many goroutines race to set a Future: one does, and all the others
\* panic; and a Get returns what was set, and does not panic if its goroutine
\* has found the Future ready (future.go:30-68).
SetOnce ==
    kind = "Future" =>
        /\ Len(log) <= 1
        /\ ready => Len(log) = 1
        /\ \A c, d \in Calls \ panicked :
              /\ op[c] = "set" /\ pc[c] \in {"close", "unlock", "return"}
              /\ op[d] = "set" /\ pc[d] \in {"close", "unlock", "return"}
              => c = d
        /\ \A c \in Calls :
              op[c] = "Get" /\ pc[c] \in {"unlock", "return"} =>
                 IF c \in panicked THEN c[1] \notin sawReady ELSE seen[c] = log

\* A slice that is not a copy shows what its array holds now.
Contents(slice) == IF slice.own THEN slice.items ELSE SubSeq(array, 1, Len(slice.items))

\* What Bytes returned stays as it was, whatever is written, or reset and
\* written again, later (buffer.go:24-32).
ClonesKeep == \A t \in Threads : Contents(kept[t]) = was[t]

-----------------------------------------------------------------------------
\* A goroutine whose callback waits for the lock that its call around it has.
WaitsForItself(t) ==
    LET c == <<t, 2>> IN pc[c] = "lock" \/ (pc[c] = "locked" /\ ~HasLock(c))

\* The scheduler runs a goroutine that can run, a callback calls back finitely
\* often, and the mutex hands itself to the writer that has waited longest.
LiveSpec ==
    /\ Spec
    /\ \A t \in Threads :
          /\ WF_vars(\E d \in {1, 2} : Locked(<<t, d>>))
          /\ SF_vars(callbackReturns(<<t, 1>>) \/ callbackPanics(<<t, 1>>))
          /\ SF_vars(\E d \in {1, 2} : lock(<<t, d>>))

\* Every call returns, the ones that panic and those that come after a panic
\* too, unless a callback calls back the DataGuard that called it: two nested
\* Loads are enough once a Store waits between them (dataguard.go:33-57).
CallsReturn ==
    \A c \in Calls : pc[c] # "idle" ~> pc[c] = "idle" \/ \E t \in Threads : WaitsForItself(t)

\* There is no way out of that: nobody gives up waiting (dataguard.go:35, 53).
ReentryIsForGood == [][\A t \in Threads : WaitsForItself(t) => WaitsForItself(t)']_vars
=============================================================================
