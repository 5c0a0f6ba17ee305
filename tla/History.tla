------------------------------ MODULE History ------------------------------
(***************************************************************************)
(* history/history.go: a log that forgets its entries some time after they *)
(* were added, shared by many goroutines.                                  *)
(*                                                                         *)
(* Add and Get are modelled from call to return: the lock they wait for,   *)
(* the clock they read while they hold it, and the log they touch          *)
(* afterwards, when the clock may already show a later time.  Reaping cuts *)
(* off a prefix; that this cuts off what has expired and no more depends   *)
(* on the order in which the goroutines read the clock.                    *)
(***************************************************************************)
EXTENDS Integers, Sequences, FiniteSets, Subsequences

CONSTANTS Threads,
          Data,
          TTLs,       \* the lifetimes that a History may be made with
          None,       \* neither a thread nor a datum
          MaxTime,    \* bound: the last time that the clock shows
          MaxAdds     \* bound: calls of Add

ASSUME NoneAssumption  == None \notin Threads \cup Data
ASSUME TTLAssumption   == TTLs \subseteq Int
ASSUME BoundAssumption == MaxTime \in Nat /\ MaxAdds \in Nat

VARIABLES
    clock,       \* what time.Now() reads
    ttl, logs,   \* the fields of the History
    writer, readers, blocked,   \* its RWMutex, mu
    pc,          \* where each goroutine is
    datum,       \* the argument of its Add
    now,         \* the time it has read
    size, got,   \* what its Add, or its Get, returns
    all          \* history: every entry, from the moment its Add has a time

muVars == <<writer, readers, blocked>>
vars == <<clock, ttl, logs, writer, readers, blocked, pc, datum, now, size, got, all>>

mu == INSTANCE RWMutex

\* New
Init ==
    /\ clock = 0
    /\ ttl \in TTLs
    /\ logs = << >>
    /\ mu!Init
    /\ pc = [t \in Threads |-> "idle"]
    /\ datum = [t \in Threads |-> None]
    /\ now = [t \in Threads |-> 0]
    /\ size = [t \in Threads |-> 0]
    /\ got = [t \in Threads |-> << >>]
    /\ all = << >>

Goto(t, place) == pc' = [pc EXCEPT ![t] = place]

\* Mutant: the last instant of an entry's life is one too many.
NotAfter(e, n) == e.at <= n - ttl

Before(e, n) == e.at < n - ttl

\* The index of the first entry that has not expired; past the end if all have.
getFirstValidIdxWhileLocked(n) ==
    CHOOSE i \in 1..Len(logs) + 1 :
        /\ i <= Len(logs) => ~Before(logs[i], n)
        /\ \A j \in 1..i - 1 : Before(logs[j], n)

\* Mutant: the clock is read again.
UnexpiredByNow(n) == SubSeq(logs, getFirstValidIdxWhileLocked(clock), Len(logs))

\* What is left of the logs once the expired ones are gone.
Unexpired(n) == SubSeq(logs, getFirstValidIdxWhileLocked(n), Len(logs))

Tick ==
    /\ clock < MaxTime
    /\ clock' = clock + 1
    /\ UNCHANGED <<ttl, logs, muVars, pc, datum, now, size, got, all>>

-----------------------------------------------------------------------------
\* The entries that are yet to come stay within the bound.
CallAdd(t, d) ==
    /\ pc[t] = "idle"
    /\ Len(all) + Cardinality({u \in Threads : pc[u] \in {"addLock", "addNow"}}) < MaxAdds
    /\ datum' = [datum EXCEPT ![t] = d]
    /\ Goto(t, "addLock")
    /\ UNCHANGED <<clock, ttl, logs, muVars, now, size, got, all>>

addLock(t) ==
    /\ pc[t] = "addLock"
    /\ mu!Lock(t)
    /\ Goto(t, "addNow")
    /\ UNCHANGED <<clock, ttl, logs, datum, now, size, got, all>>

\* Mutant: the time at which the entry expires.
addExpiry(t) ==
    /\ pc[t] = "addNow"
    /\ mu!Locked(t)
    /\ now' = [now EXCEPT ![t] = clock + ttl]
    /\ all' = Append(all, [at |-> clock, datum |-> datum[t]])
    /\ Goto(t, "addReap")
    /\ UNCHANGED <<clock, ttl, logs, muVars, datum, size, got>>

addNow(t) ==
    /\ pc[t] = "addNow"
    /\ mu!Locked(t)
    /\ now' = [now EXCEPT ![t] = clock]
    /\ all' = Append(all, [at |-> clock, datum |-> datum[t]])
    /\ Goto(t, "addReap")
    /\ UNCHANGED <<clock, ttl, logs, muVars, datum, size, got>>

\* reapWhileLocked, append and len.
addReap(t) ==
    /\ pc[t] = "addReap"
    /\ logs' = Append(Unexpired(now[t]), [at |-> now[t], datum |-> datum[t]])
    /\ size' = [size EXCEPT ![t] = Len(logs')]
    /\ Goto(t, "addUnlock")
    /\ UNCHANGED <<clock, ttl, muVars, datum, now, got, all>>

addUnlock(t) ==
    /\ pc[t] = "addUnlock"
    /\ mu!Unlock(t)
    /\ Goto(t, "return")
    /\ UNCHANGED <<clock, ttl, logs, datum, now, size, got, all>>

-----------------------------------------------------------------------------
CallGet(t) ==
    /\ pc[t] = "idle"
    /\ mu!RLock(t)
    /\ Goto(t, "getNow")
    /\ UNCHANGED <<clock, ttl, logs, datum, now, size, got, all>>

getNow(t) ==
    /\ pc[t] = "getNow"
    /\ mu!RLocked(t)
    /\ now' = [now EXCEPT ![t] = clock]
    /\ Goto(t, "getClone")
    /\ UNCHANGED <<clock, ttl, logs, muVars, datum, size, got, all>>

getClone(t) ==
    /\ pc[t] = "getClone"
    /\ got' = [got EXCEPT ![t] = Unexpired(now[t])]
    /\ Goto(t, "getRUnlock")
    /\ UNCHANGED <<clock, ttl, logs, muVars, datum, now, size, all>>

\* Mutant: no deferred RUnlock.
getNoUnlock(t) ==
    /\ pc[t] = "getRUnlock"
    /\ Goto(t, "return")
    /\ UNCHANGED <<clock, ttl, logs, muVars, datum, now, size, got, all>>

getRUnlock(t) ==
    /\ pc[t] = "getRUnlock"
    /\ mu!RUnlock(t)
    /\ Goto(t, "return")
    /\ UNCHANGED <<clock, ttl, logs, datum, now, size, got, all>>

Return(t) ==
    /\ pc[t] = "return"
    /\ datum' = [datum EXCEPT ![t] = None]
    /\ now' = [now EXCEPT ![t] = 0]
    /\ size' = [size EXCEPT ![t] = 0]
    /\ got' = [got EXCEPT ![t] = << >>]
    /\ Goto(t, "idle")
    /\ UNCHANGED <<clock, ttl, logs, muVars, all>>

AfterLock(t) ==
    \/ addNow(t) \/ addReap(t) \/ addUnlock(t)
    \/ getNow(t) \/ getClone(t) \/ getRUnlock(t) \/ Return(t)

Next ==
    \/ Tick
    \/ \E t \in Threads :
          \/ \E d \in Data : CallAdd(t, d)
          \/ CallGet(t)
          \/ addLock(t)
          \/ AfterLock(t)

Spec == Init /\ [][Next]_vars

-----------------------------------------------------------------------------
Places == {"idle", "addLock", "addNow", "addReap", "addUnlock",
           "getNow", "getClone", "getRUnlock", "return"}

Entries == [at : Nat, datum : Data]

\* Types of the History, its lock and the calls; a call that has read the
\* clock read a time that has come.
TypeOK ==
    /\ clock \in Nat
    /\ ttl \in TTLs
    /\ logs \in Seq(Entries)
    /\ mu!TypeOK
    /\ pc \in [Threads -> Places]
    /\ datum \in [Threads -> Data \cup {None}]
    /\ now \in [Threads -> 0..clock]
    /\ size \in [Threads -> Nat]
    /\ got \in [Threads -> Seq(Entries)]
    /\ all \in Seq(Entries)

\* An entry is counted in `all` from its Add's reading of the clock and is in
\* the logs a step later.
Stored == Len(all) - (IF \E t \in Threads : pc[t] = "addReap" THEN 1 ELSE 0)

\* How many entries have been reaped.
Reaped == Stored - Len(logs)

\* Whatever goroutines added whenever they got the lock: the logs are all that
\* was added, in the order of their times, but for a prefix that was reaped,
\* and nothing was reaped that has not expired (history.go:73-90).
OnlyExpiredReaped ==
    /\ \A i, j \in 1..Len(all) : i < j => all[i].at <= all[j].at
    /\ Reaped >= 0
    /\ \A i \in 1..Len(logs) : logs[i] = all[Reaped + i]
    /\ \A i \in 1..Reaped : all[i].at + ttl < clock

-----------------------------------------------------------------------------
\* Add and Get are atomic: each acts at the instant at which it reads the
\* clock, and what it returns is right for that very instant, whatever time
\* it is when it looks at the logs (history.go:48-70).
CallOf(t) ==
    CASE pc[t] \in {"addLock", "addNow"} -> "add"
      [] pc[t] = "getNow"                -> "get"
      [] pc[t] = "idle"                  -> "idle"
      [] OTHER                           -> "done"

AliveAt(n) == Pick(all, {i \in 1..Stored : all[i].at + ttl >= n})

AbstractLog == INSTANCE ExpiringLog WITH
    NoData <- None,
    log  <- all,
    call <- [t \in Threads |-> CallOf(t)],
    arg  <- datum,
    size <- [t \in Threads |->
                IF pc[t] = "addReap" THEN Len(AliveAt(now[t])) + 1 ELSE size[t]],
    got  <- [t \in Threads |->
                IF pc[t] = "getClone" THEN AliveAt(now[t]) ELSE got[t]]

HistorySpec == AbstractLog!Spec

\* The scheduler runs a goroutine that can run, and the mutex among writers
\* hands itself to the one that has waited longest.
LiveSpec == Spec /\ \A t \in Threads : WF_vars(AfterLock(t)) /\ SF_vars(addLock(t))

\* Every Add and Get returns, however many others come and go: neither kind
\* starves the other (history.go:49-50, 60-61: each unlocks what it locked).
CallsReturn == \A t \in Threads : pc[t] # "idle" ~> pc[t] = "idle"
=============================================================================
