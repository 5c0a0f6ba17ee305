--------------------------- MODULE HistoryProofs ---------------------------
(***************************************************************************)
(* A History reaps what has expired and nothing else, for any number of    *)
(* goroutines, any lifetime and any passing of time.                       *)
(*                                                                         *)
(* Reaping looks for the first entry that has not expired.  It is right    *)
(* because entries are in the order of their times, and they are because   *)
(* an Add reads the clock with the lock held: Inv says who holds the lock  *)
(* where, and that no entry is from the future.                            *)
(*                                                                         *)
(* Calls are atomic because the times that pass between the two steps of   *)
(* one change nothing of what it will see: Window says that what has been  *)
(* reaped had expired at the time the call goes by, so that what the logs  *)
(* still have to show at that time is all that was alive (AliveIsUnexpired)*)
(***************************************************************************)
EXTENDS History, TLAPS, FiniteSetTheorems, SequenceTheorems, WellFoundedInduction

USE NoneAssumption, TTLAssumption

\* Every set of natural numbers that is not empty has a least one.
LEMMA LeastNat ==
    ASSUME NEW T \in SUBSET Nat, T # {}
    PROVE  \E m \in T : \A j \in T : m <= j
  <1> DEFINE R == OpToRel(<, Nat)
  <1>1. \E m \in T : \A j \in T : ~(<<j, m>> \in R)
    <2> HIDE DEF R
    <2> QED  BY NatLessThanWellFounded, WFMin DEF R
  <1>2. \A m, j \in T : ~(<<j, m>> \in R) => m <= j
    BY DEF OpToRel
  <1> QED  BY <1>1, <1>2

LEMMA EntriesOf ==
    ASSUME NEW s \in Seq(Entries)
    PROVE  /\ Len(s) \in Nat
           /\ \A i \in 1..Len(s) : s[i] \in Entries /\ s[i].at \in Nat
  <1>1. Len(s) \in Nat /\ \A i \in 1..Len(s) : s[i] \in Entries
    BY ElementOfSeq, LenProperties
  <1> QED  BY <1>1 DEF Entries

\* The index that getFirstValidIdxWhileLocked finds exists: only expired
\* entries come before it, and none is there.
LEMMA FirstValid ==
    ASSUME logs \in Seq(Entries), NEW n \in Int, ttl \in Int
    PROVE  /\ getFirstValidIdxWhileLocked(n) \in 1..Len(logs) + 1
           /\ \A j \in 1..getFirstValidIdxWhileLocked(n) - 1 : Before(logs[j], n)
           /\ getFirstValidIdxWhileLocked(n) <= Len(logs)
                 => ~Before(logs[getFirstValidIdxWhileLocked(n)], n)
  <1> DEFINE T == {i \in 1..Len(logs) + 1 : i <= Len(logs) => ~Before(logs[i], n)}
  <1>1. Len(logs) \in Nat
    BY LenProperties
  <1>2. Len(logs) + 1 \in T
    BY <1>1
  <1>2a. T \in SUBSET Nat /\ T # {}
    BY <1>1, <1>2
  <1>3. PICK m \in T : \A j \in T : m <= j
    <2> HIDE DEF T
    <2> QED  BY <1>2a, LeastNat
  <1>4. ASSUME NEW j \in 1..m - 1 PROVE Before(logs[j], n)
    BY <1>1, <1>3, <1>4
  <1>5. m \in 1..Len(logs) + 1 /\ (m <= Len(logs) => ~Before(logs[m], n))
    BY <1>3
  <1> HIDE DEF T
  <1>6. \E i \in 1..Len(logs) + 1 :
            /\ i <= Len(logs) => ~Before(logs[i], n)
            /\ \A j \in 1..i - 1 : Before(logs[j], n)
    BY <1>4, <1>5
  <1> QED  BY <1>6 DEF getFirstValidIdxWhileLocked

\* What reaping leaves is a suffix of the logs.
LEMMA UnexpiredIsSuffix ==
    ASSUME logs \in Seq(Entries), NEW n \in Int, ttl \in Int,
           NEW k, k = getFirstValidIdxWhileLocked(n)
    PROVE  /\ Unexpired(n) \in Seq(Entries)
           /\ Len(Unexpired(n)) = Len(logs) - k + 1
           /\ \A i \in 1..Len(logs) - k + 1 : Unexpired(n)[i] = logs[k + i - 1]
  <1>1. k \in 1..Len(logs) + 1 /\ Len(logs) \in Nat
    BY FirstValid, LenProperties
  <1>2. \A i \in k..Len(logs) : logs[i] \in Entries
    BY <1>1, EntriesOf
  <1>3. SubSeq(logs, k, Len(logs)) \in Seq(Entries)
    BY <1>1, <1>2, SubSeqProperties
  <1>4. Len(SubSeq(logs, k, Len(logs))) = Len(logs) - k + 1
    BY <1>1
  <1>5. \A i \in 1..Len(logs) - k + 1 : SubSeq(logs, k, Len(logs))[i] = logs[k + i - 1]
    BY <1>1
  <1> QED  BY <1>3, <1>4, <1>5 DEF Unexpired

-----------------------------------------------------------------------------
\* Who holds the lock where.
Excl ==
    /\ \A t \in Threads :
          /\ pc[t] \in {"addNow", "addReap", "addUnlock"} <=> writer = t
          /\ pc[t] \in {"addReap", "addUnlock"} => readers = {}
          /\ pc[t] \in {"getNow", "getClone", "getRUnlock"} <=> t \in readers \cup blocked
          /\ pc[t] \in {"getClone", "getRUnlock"} => t \in readers
    /\ readers \cap blocked = {}

\* What an Add knows between its steps.
Args ==
    \A t \in Threads :
        /\ pc[t] \in {"addLock", "addNow", "addReap"} => datum[t] \in Data
        /\ pc[t] = "addReap" =>
              Len(all) > 0 /\ all[Len(all)] = [at |-> now[t], datum |-> datum[t]]

\* No entry is from the future.
Past == \A i \in 1..Len(all) : all[i].at <= clock

Inv == TypeOK /\ Excl /\ Args /\ Past /\ OnlyExpiredReaped

LEMMA InitInv == Init => Inv
  <1> SUFFICES ASSUME Init PROVE Inv
    OBVIOUS
  <1> USE DEF Init, mu!Init
  <1>1. << >> \in Seq(Entries) /\ Len(<< >>) = 0
    BY EmptySeq
  <1>2. TypeOK
    BY <1>1 DEF TypeOK, mu!TypeOK, Places
  <1>3. Excl /\ Args /\ Past
    BY <1>1 DEF Excl, Args, Past
  <1>4. OnlyExpiredReaped
    BY <1>1 DEF OnlyExpiredReaped, Reaped, Stored
  <1> QED  BY <1>2, <1>3, <1>4 DEF Inv

\* A step that touches neither the entries nor the lock, and moves t alone.
LEMMA LocalStep ==
    ASSUME Inv, NEW t \in Threads, NEW q \in Places, Goto(t, q),
           UNCHANGED <<clock, ttl, logs, muVars, all>>,
           pc[t] # "addReap", q # "addReap",
           pc[t] \in {"addNow", "addUnlock"} <=> q \in {"addNow", "addUnlock"},
           q = "addUnlock" => pc[t] = "addUnlock",
           pc[t] \in {"getNow", "getClone", "getRUnlock"} <=> q \in {"getNow", "getClone", "getRUnlock"},
           q \in {"getClone", "getRUnlock"} => t \in readers,
           NEW d \in Data \cup {None}, datum' = [datum EXCEPT ![t] = d],
           q \in {"addLock", "addNow"} => d \in Data,
           NEW n \in 0..clock, now' = [now EXCEPT ![t] = n],
           size' \in [Threads -> Nat], got' \in [Threads -> Seq(Entries)]
    PROVE  Inv'
  <1> USE DEF Inv, muVars
  <1>1. TypeOK'
    BY DEF TypeOK, Goto, mu!TypeOK
  <1>2. /\ \A u \in Threads : u # t => pc'[u] = pc[u] /\ datum'[u] = datum[u] /\ now'[u] = now[u]
        /\ pc'[t] = q /\ datum'[t] = d
    BY DEF TypeOK, Goto
  <1>3. Excl'
    BY <1>2 DEF Excl
  <1>4. Args'
    <2>1. Args /\ all' = all
      OBVIOUS
    <2> HIDE DEF Inv, muVars
    <2> QED  BY <1>2, <2>1 DEF Args
  <1>5. Past'
    BY DEF Past
  <1>6. Stored' = Stored
    BY <1>2 DEF Stored
  <1>7. OnlyExpiredReaped'
    BY <1>6 DEF OnlyExpiredReaped, Reaped
  <1> QED  BY <1>1, <1>3, <1>4, <1>5, <1>7

LEMMA TickStep == Inv /\ Tick => Inv'
  <1> SUFFICES ASSUME Inv, Tick PROVE Inv'
    OBVIOUS
  <1> USE DEF Inv, Tick, muVars
  <1>1. TypeOK'
    BY DEF TypeOK, mu!TypeOK
  <1>2. Excl' /\ Args'
    BY DEF Excl, Args
  <1>3. \A i \in 1..Len(all) : all[i] \in Entries /\ all[i].at \in Nat
    BY EntriesOf DEF TypeOK
  <1>4. Past'
    BY <1>3 DEF Past, TypeOK
  <1>5. Stored' = Stored /\ Reaped' = Reaped
    BY DEF Stored, Reaped
  <1>6. Reaped \in Nat /\ Reaped <= Len(all)
    BY LenProperties DEF OnlyExpiredReaped, Reaped, Stored, TypeOK
  <1>7. \A i \in 1..Reaped : all[i].at + ttl < clock + 1
    BY <1>3, <1>6 DEF OnlyExpiredReaped, TypeOK
  <1>8. OnlyExpiredReaped'
    BY <1>5, <1>7 DEF OnlyExpiredReaped
  <1> QED  BY <1>1, <1>2, <1>4, <1>8

LEMMA CallStep ==
    ASSUME Inv, NEW t \in Threads, NEW d \in Data, CallAdd(t, d)
    PROVE  Inv'
  <1>1. pc[t] = "idle" /\ Goto(t, "addLock") /\ "addLock" \in Places
    BY DEF CallAdd, Places
  <1>2. now[t] \in 0..clock /\ now' = [now EXCEPT ![t] = now[t]]
    BY DEF CallAdd, Inv, TypeOK
  <1>3. size' \in [Threads -> Nat] /\ got' \in [Threads -> Seq(Entries)]
    BY DEF CallAdd, Inv, TypeOK
  <1> QED  BY <1>1, <1>2, <1>3, LocalStep DEF CallAdd

LEMMA GetNowStep ==
    ASSUME Inv, NEW t \in Threads, getNow(t)
    PROVE  Inv'
  <1>1. pc[t] = "getNow" /\ Goto(t, "getClone") /\ "getClone" \in Places /\ t \in readers
    BY DEF getNow, Places, mu!RLocked
  <1>2. clock \in 0..clock
    BY DEF Inv, TypeOK
  <1>3. datum[t] \in Data \cup {None} /\ datum' = [datum EXCEPT ![t] = datum[t]]
    BY DEF getNow, Inv, TypeOK
  <1>4. size' \in [Threads -> Nat] /\ got' \in [Threads -> Seq(Entries)]
    BY DEF getNow, Inv, TypeOK
  <1> QED  BY <1>1, <1>2, <1>3, <1>4, LocalStep DEF getNow

LEMMA GetCloneStep ==
    ASSUME Inv, NEW t \in Threads, getClone(t)
    PROVE  Inv'
  <1>1. pc[t] = "getClone" /\ Goto(t, "getRUnlock") /\ "getRUnlock" \in Places
    BY DEF getClone, Places
  <1>2. t \in readers
    BY <1>1 DEF Inv, Excl
  <1>3. /\ datum[t] \in Data \cup {None} /\ datum' = [datum EXCEPT ![t] = datum[t]]
        /\ now[t] \in 0..clock /\ now' = [now EXCEPT ![t] = now[t]]
    BY DEF getClone, Inv, TypeOK
  <1>4. Unexpired(now[t]) \in Seq(Entries)
    BY UnexpiredIsSuffix DEF Inv, TypeOK
  <1>5. size' \in [Threads -> Nat] /\ got' \in [Threads -> Seq(Entries)]
    BY <1>4 DEF getClone, Inv, TypeOK
  <1>6. /\ Goto(t, "getRUnlock") /\ UNCHANGED <<clock, ttl, logs, muVars, all>>
        /\ pc[t] # "addReap" /\ "getRUnlock" # "addReap"
        /\ pc[t] \in {"addNow", "addUnlock"} <=> "getRUnlock" \in {"addNow", "addUnlock"}
        /\ "getRUnlock" = "addUnlock" => pc[t] = "addUnlock"
        /\ pc[t] \in {"getNow", "getClone", "getRUnlock"} <=> "getRUnlock" \in {"getNow", "getClone", "getRUnlock"}
        /\ "getRUnlock" \in {"addLock", "addNow"} => datum[t] \in Data
    BY <1>1 DEF getClone
  <1> QED  BY <1>1, <1>2, <1>3, <1>5, <1>6, LocalStep, Zenon

LEMMA ReturnStep ==
    ASSUME Inv, NEW t \in Threads, Return(t)
    PROVE  Inv'
  <1>1. pc[t] = "return" /\ Goto(t, "idle") /\ "idle" \in Places
    BY DEF Return, Places
  <1>2. 0 \in 0..clock
    BY DEF Inv, TypeOK
  <1>3. size' \in [Threads -> Nat] /\ got' \in [Threads -> Seq(Entries)]
    BY EmptySeq DEF Return, Inv, TypeOK
  <1> QED  BY <1>1, <1>2, <1>3, LocalStep DEF Return

\* The steps that only take or release the lock.
LEMMA LockStep ==
    ASSUME Inv, NEW t \in Threads,
           addLock(t) \/ addUnlock(t) \/ CallGet(t) \/ getRUnlock(t)
    PROVE  Inv'
  <1> USE DEF Inv, addLock, addUnlock, CallGet, getRUnlock
  <1>1. TypeOK'
    <2>1. CASE addLock(t)
      BY <2>1 DEF TypeOK, Goto, Places, mu!TypeOK, mu!Lock
    <2>2. CASE addUnlock(t)
      BY <2>2 DEF TypeOK, Goto, Places, mu!TypeOK, mu!Unlock
    <2>3. CASE CallGet(t)
      BY <2>3 DEF TypeOK, Goto, Places, mu!TypeOK, mu!RLock
    <2>4. CASE getRUnlock(t)
      BY <2>4 DEF TypeOK, Goto, Places, mu!TypeOK, mu!RUnlock
    <2> QED  BY <2>1, <2>2, <2>3, <2>4
  <1>2. PICK q \in Places \ {"addReap"} :
            /\ \A u \in Threads : u # t => pc'[u] = pc[u]
            /\ pc'[t] = q /\ pc[t] # "addReap"
            /\ q \in {"addLock", "addNow"} => pc[t] = "addLock"
    BY DEF TypeOK, Goto, Places
  <1>3. Excl'
    <2>1. CASE addLock(t)
      BY <2>1 DEF Excl, TypeOK, Goto, mu!Lock
    <2>2. CASE addUnlock(t)
      BY <2>2 DEF Excl, TypeOK, Goto, mu!Unlock
    <2>3. CASE CallGet(t)
      BY <2>3 DEF Excl, TypeOK, Goto, mu!RLock
    <2>4. CASE getRUnlock(t)
      BY <2>4 DEF Excl, TypeOK, Goto, mu!RUnlock
    <2> QED  BY <2>1, <2>2, <2>3, <2>4
  <1>4. Args'
    BY <1>2 DEF Args
  <1>5. Past'
    BY DEF Past
  <1>6. Stored' = Stored
    BY <1>2 DEF Stored
  <1>7. OnlyExpiredReaped'
    BY <1>6 DEF OnlyExpiredReaped, Reaped
  <1> QED  BY <1>1, <1>3, <1>4, <1>5, <1>7

-----------------------------------------------------------------------------
\* An Add gets its time: it is the latest there is.
LEMMA AddNowStep ==
    ASSUME Inv, NEW t \in Threads, addNow(t)
    PROVE  Inv'
  <1> DEFINE e == [at |-> clock, datum |-> datum[t]]
  <1> USE DEF Inv, addNow, muVars
  <1>1. pc[t] = "addNow" /\ writer = t /\ readers = {} /\ datum[t] \in Data
    BY DEF mu!Locked, Args
  <1>2. e \in Entries /\ all \in Seq(Entries) /\ clock \in Nat
    BY <1>1 DEF TypeOK, Entries
  <1>3. /\ all' = Append(all, e) /\ all' \in Seq(Entries) /\ Len(all') = Len(all) + 1
        /\ Len(all) \in Nat /\ all'[Len(all) + 1] = e
        /\ \A i \in 1..Len(all) : all'[i] = all[i]
    BY <1>2, AppendProperties, EntriesOf
  <1>4. /\ pc'[t] = "addReap" /\ now'[t] = clock
        /\ \A u \in Threads : u # t => pc'[u] = pc[u] /\ now'[u] = now[u]
    BY DEF TypeOK, Goto
  <1>5. \A u \in Threads : pc[u] # "addReap" /\ (u # t => pc'[u] # "addReap")
    BY <1>1, <1>4 DEF Excl
  <1>6. TypeOK'
    BY <1>3 DEF TypeOK, Goto, Places, mu!TypeOK
  <1>7. Excl'
    BY <1>1, <1>4 DEF Excl
  <1>8. Args'
    <2>1. datum' = datum /\ Args
      OBVIOUS
    <2> HIDE DEF Inv, addNow, muVars
    <2> QED  BY <1>1, <1>3, <1>4, <1>5, <2>1 DEF Args
  <1>9. \A i \in 1..Len(all') : i \in 1..Len(all) \/ i = Len(all) + 1
    BY <1>3
  <1>10. Past'
    BY <1>2, <1>3, <1>9 DEF Past
  <1>11. Stored = Len(all) /\ Stored' = Len(all) /\ Reaped' = Reaped
    BY <1>3, <1>4, <1>5 DEF Stored, Reaped
  <1>12. Reaped \in Nat /\ Len(logs) \in Nat /\ Reaped + Len(logs) = Len(all)
    BY <1>3, <1>11, EntriesOf DEF Reaped, OnlyExpiredReaped, TypeOK
  <1>13. OnlyExpiredReaped'
    <2>1. ASSUME NEW i \in 1..Len(all'), NEW j \in 1..Len(all'), i < j
          PROVE  all'[i].at <= all'[j].at
      <3>1. i \in 1..Len(all) /\ all'[i] = all[i]
        BY <1>3, <2>1
      <3>2. CASE j \in 1..Len(all)
        BY <1>3, <2>1, <3>1, <3>2 DEF OnlyExpiredReaped
      <3>3. CASE j = Len(all) + 1
        BY <1>3, <3>1, <3>3 DEF Past
      <3> QED  BY <1>9, <3>2, <3>3
    <2>2. \A i \in 1..Len(logs) : logs[i] = all'[Reaped + i]
      BY <1>3, <1>12 DEF OnlyExpiredReaped
    <2>3. \A i \in 1..Reaped : all'[i].at + ttl < clock
      BY <1>3, <1>12 DEF OnlyExpiredReaped
    <2> QED  BY <1>11, <1>12, <2>1, <2>2, <2>3 DEF OnlyExpiredReaped
  <1> QED  BY <1>6, <1>7, <1>8, <1>10, <1>13

\* An Add reaps a prefix: what it reaps had expired when it read the clock.
LEMMA AddReapStep ==
    ASSUME Inv, NEW t \in Threads, addReap(t)
    PROVE  Inv'
  <1> DEFINE e == [at |-> now[t], datum |-> datum[t]]
  <1> DEFINE k == getFirstValidIdxWhileLocked(now[t])
  <1> DEFINE kept == Unexpired(now[t])
  <1> USE DEF Inv, addReap, muVars
  <1>1. pc[t] = "addReap" /\ writer = t /\ readers = {} /\ datum[t] \in Data
    BY DEF Args, Excl
  <1>2. /\ logs \in Seq(Entries) /\ ttl \in Int /\ now[t] \in Int /\ now[t] <= clock
        /\ clock \in Nat /\ e \in Entries /\ all \in Seq(Entries)
    BY <1>1 DEF TypeOK, Entries
  <1>3. /\ Len(all) \in Nat /\ Len(all) > 0 /\ all[Len(all)] = e
        /\ \A i \in 1..Len(all) : all[i].at \in Nat
    BY <1>1, <1>2, EntriesOf DEF Args
  <1>4. /\ pc'[t] = "addUnlock"
        /\ \A u \in Threads : pc'[u] # "addReap" /\ (u # t => pc'[u] = pc[u])
    BY <1>1 DEF TypeOK, Goto, Excl
  <1>5. k \in 1..Len(logs) + 1 /\ \A j \in 1..k - 1 : Before(logs[j], now[t])
    BY <1>2, FirstValid, Zenon
  <1>6. /\ kept \in Seq(Entries) /\ Len(kept) = Len(logs) - k + 1
        /\ \A i \in 1..Len(logs) - k + 1 : kept[i] = logs[k + i - 1]
    BY <1>2, UnexpiredIsSuffix, Zenon
  <1>6a. logs' = Append(kept, e)
    OBVIOUS
  <1> HIDE DEF k, kept
  <1>7. /\ logs' \in Seq(Entries) /\ Len(logs') = Len(kept) + 1
        /\ logs'[Len(kept) + 1] = e
        /\ \A i \in 1..Len(kept) : logs'[i] = kept[i]
    <2> HIDE DEF e, addReap
    <2> QED  BY <1>2, <1>6, <1>6a, AppendProperties, EntriesOf
  <1>8. TypeOK'
    <2>1. Len(logs') \in Nat
      BY <1>7, EntriesOf
    <2> QED  BY <1>7, <2>1 DEF TypeOK, Goto, Places, mu!TypeOK
  <1>9. Excl' /\ Args' /\ Past'
    BY <1>1, <1>4 DEF Excl, Args, Past
  <1>10. Stored = Len(all) - 1 /\ Stored' = Len(all)
    BY <1>1, <1>4 DEF Stored
  <1>11. /\ Len(logs) \in Nat /\ Reaped \in Nat /\ Reaped + Len(logs) = Len(all) - 1
         /\ Reaped' = Reaped + k - 1
    <2>1. Len(logs) \in Nat
      BY <1>2, EntriesOf
    <2>2. Reaped = Len(all) - 1 - Len(logs) /\ Reaped' = Len(all) - Len(logs') /\ Reaped >= 0
      BY <1>10 DEF Reaped, OnlyExpiredReaped
    <2> QED  BY <1>3, <1>5, <1>6, <1>7, <2>1, <2>2
  <1>12. \A i \in 1..Len(logs') : logs'[i] = all[Reaped + k - 1 + i]
    <2> TAKE i \in 1..Len(logs')
    <2> HIDE DEF Inv, addReap, e
    <2>0. Reaped + k - 1 + (Len(kept) + 1) = Len(all)
      <3>1. k \in Int /\ Len(logs) \in Int /\ Reaped \in Int /\ Len(all) \in Int
        BY <1>3, <1>5, <1>11
      <3>2. Len(kept) = Len(logs) - k + 1 /\ Reaped + Len(logs) = Len(all) - 1
        BY <1>6, <1>11, Zenon
      <3> QED  BY <3>1, <3>2
    <2>1. CASE i = Len(kept) + 1
      BY <1>3, <1>7, <2>0, <2>1
    <2>2. CASE i \in 1..Len(kept)
      <3>1. i \in 1..Len(logs) - k + 1 /\ k + i - 1 \in 1..Len(logs)
        BY <1>5, <1>6, <1>11, <2>2
      <3>2. logs'[i] = logs[k + i - 1]
        BY <1>6, <1>7, <2>2, <3>1
      <3>3. logs[k + i - 1] = all[Reaped + (k + i - 1)]
        BY <3>1 DEF Inv, OnlyExpiredReaped
      <3>4. Reaped + (k + i - 1) = Reaped + k - 1 + i
        BY <1>5, <1>11, <2>2, <3>1
      <3> QED  BY <3>2, <3>3, <3>4
    <2>3. Len(kept) \in Nat /\ Len(logs') = Len(kept) + 1
      BY <1>5, <1>6, <1>7, <1>11
    <2>4. i \in 1..Len(kept) \/ i = Len(kept) + 1
      BY <2>3
    <2> QED  BY <2>1, <2>2, <2>4, Zenon
  <1>13. \A i \in 1..Reaped + k - 1 : all[i].at + ttl < clock
    <2> TAKE i \in 1..Reaped + k - 1
    <2>1. CASE i \in 1..Reaped
      BY <2>1 DEF OnlyExpiredReaped
    <2>2. CASE i - Reaped \in 1..k - 1
      <3>1. i - Reaped \in 1..Len(logs) /\ i \in 1..Len(all) /\ Reaped + (i - Reaped) = i
        BY <1>3, <1>5, <1>11, <2>2
      <3>2. logs[i - Reaped] = all[i]
        BY <3>1 DEF OnlyExpiredReaped
      <3>3. all[i].at < now[t] - ttl
        BY <1>5, <2>2, <3>2 DEF Before
      <3> QED  BY <1>2, <1>3, <3>1, <3>3
    <2>3. i \in 1..Reaped \/ i - Reaped \in 1..k - 1
      BY <1>5, <1>11
    <2> QED  BY <2>1, <2>2, <2>3
  <1>14. OnlyExpiredReaped'
    <2>1. UNCHANGED <<all, clock, ttl>> /\ OnlyExpiredReaped
      OBVIOUS
    <2> HIDE DEF Inv, addReap, muVars, e
    <2>2. Reaped' >= 0
      BY <1>5, <1>11
    <2> QED  BY <1>11, <1>12, <1>13, <2>1, <2>2 DEF OnlyExpiredReaped
  <1> QED  BY <1>8, <1>9, <1>14

LEMMA NextInv == Inv /\ [Next]_vars => Inv'
  <1> SUFFICES ASSUME Inv, [Next]_vars PROVE Inv'
    OBVIOUS
  <1>1. CASE Tick
    BY <1>1, TickStep
  <1>2. ASSUME NEW t \in Threads, NEW d \in Data, CallAdd(t, d) PROVE Inv'
    BY <1>2, CallStep
  <1>3. ASSUME NEW t \in Threads, CallGet(t) \/ addLock(t) PROVE Inv'
    BY <1>3, LockStep
  <1>4. ASSUME NEW t \in Threads, AfterLock(t) PROVE Inv'
    BY <1>4, AddNowStep, AddReapStep, LockStep, GetNowStep, GetCloneStep, ReturnStep
       DEF AfterLock
  <1>5. CASE UNCHANGED vars
    BY <1>5 DEF vars, muVars, Inv, TypeOK, mu!TypeOK, Excl, Args, Past,
                OnlyExpiredReaped, Reaped, Stored
  <1> QED  BY <1>1, <1>2, <1>3, <1>4, <1>5 DEF Next

\* The types of the History, its lock and the calls, whoever calls what.
THEOREM TypeCorrect == Spec => []TypeOK
  <1>1. Inv => TypeOK
    BY DEF Inv
  <1> QED  BY <1>1, InitInv, NextInv, PTL DEF Spec

\* Whichever goroutines add and whenever they get the lock, entries are in the
\* order of their times and only what has expired is reaped: history.go:73-90
\* may look at a prefix.
THEOREM NothingAliveReaped == Spec => []OnlyExpiredReaped
  <1>1. Inv => OnlyExpiredReaped
    BY DEF Inv
  <1> QED  BY <1>1, InitInv, NextInv, PTL DEF Spec

-----------------------------------------------------------------------------
\* Picking the indices of an interval is cutting it out.
LEMMA PickInterval ==
    ASSUME NEW s, NEW m \in Int, NEW n \in Int, m <= n + 1
    PROVE  Pick(s, m..n) = [k \in 1..n - m + 1 |-> s[m + k - 1]]
  <1>1. Cardinality(m..n) = n - m + 1
    BY FS_Interval
  <1>2. ASSUME NEW k \in 1..n - m + 1
        PROVE  (CHOOSE i \in m..n : Cardinality({j \in m..n : j <= i}) = k) = m + k - 1
    <2>1. ASSUME NEW i \in m..n PROVE Cardinality({j \in m..n : j <= i}) = i - m + 1
      <3>1. {j \in m..n : j <= i} = m..i
        BY <2>1
      <3>2. Cardinality(m..i) = i - m + 1
        BY <2>1, FS_Interval
      <3> QED  BY <3>1, <3>2
    <2>2. m + k - 1 \in m..n /\ (m + k - 1) - m + 1 = k
      BY <1>2
    <2>3. \A i \in m..n : Cardinality({j \in m..n : j <= i}) = k <=> i = m + k - 1
      BY <1>2, <2>1
    <2> QED  BY <2>2, <2>3
  <1>3. Pick(s, m..n) = [k \in 1..Cardinality(m..n) |->
                           s[CHOOSE i \in m..n : Cardinality({j \in m..n : j <= i}) = k]]
    BY Zenon DEF Pick
  <1> DEFINE At(k) == CHOOSE i \in m..n : Cardinality({j \in m..n : j <= i}) = k
  <1>4. \A k \in 1..n - m + 1 : At(k) = m + k - 1
    BY <1>2
  <1>5. Pick(s, m..n) = [k \in 1..n - m + 1 |-> s[At(k)]]
    BY <1>1, <1>3, Zenon
  <1> HIDE DEF At
  <1> QED  BY <1>4, <1>5

-----------------------------------------------------------------------------
\* What has been reaped had expired at the time a call goes by, and who is in
\* no call adds nothing.
Window ==
    \A t \in Threads :
        /\ pc[t] \in {"addReap", "getClone"} =>
              \A i \in 1..Reaped : all[i].at + ttl < now[t]
        /\ pc[t] = "idle" => datum[t] = None

LogInv == Inv /\ Window

\* At the time a call goes by, the logs hold the entries alive, after others
\* that have expired.
LEMMA AliveIsUnexpired ==
    ASSUME Inv, NEW n \in 0..clock, \A i \in 1..Reaped : all[i].at + ttl < n
    PROVE  AliveAt(n) = Unexpired(n)
  <1> DEFINE k == getFirstValidIdxWhileLocked(n)
             alive == {i \in 1..Stored : all[i].at + ttl >= n}
  <1>1. /\ logs \in Seq(Entries) /\ all \in Seq(Entries) /\ ttl \in Int /\ n \in Int
        /\ Len(logs) \in Nat /\ Len(all) \in Nat /\ Stored \in Int /\ Stored <= Len(all)
        /\ \A i \in 1..Len(all) : all[i].at \in Nat
    <2>1. logs \in Seq(Entries) /\ all \in Seq(Entries) /\ ttl \in Int
      BY TTLAssumption DEF Inv, TypeOK
    <2>2. n \in Int
      BY DEF Inv, TypeOK
    <2>3. Len(logs) \in Nat /\ Len(all) \in Nat /\ \A i \in 1..Len(all) : all[i].at \in Nat
      BY <2>1, EntriesOf
    <2>4. Stored \in Int /\ Stored <= Len(all)
      BY <2>3 DEF Stored
    <2> QED  BY <2>1, <2>2, <2>3, <2>4
  <1>2. /\ k \in 1..Len(logs) + 1
        /\ \A j \in 1..k - 1 : Before(logs[j], n)
        /\ k <= Len(logs) => ~Before(logs[k], n)
    BY <1>1, FirstValid
  <1>3. /\ Unexpired(n) \in Seq(Entries) /\ Len(Unexpired(n)) = Len(logs) - k + 1
        /\ \A i \in 1..Len(logs) - k + 1 : Unexpired(n)[i] = logs[k + i - 1]
    BY <1>1, UnexpiredIsSuffix
  <1> HIDE DEF k
  <1>4. /\ Reaped \in Nat /\ Reaped + Len(logs) = Stored
        /\ \A i \in 1..Len(logs) : logs[i] = all[Reaped + i]
    BY <1>1 DEF Inv, OnlyExpiredReaped, Reaped
  <1>5. alive = Reaped + k .. Stored
    <2>1. ASSUME NEW i \in 1..Stored, i < Reaped + k PROVE ~(all[i].at + ttl >= n)
      <3>1. CASE i \in 1..Reaped
        BY <1>1, <2>1, <3>1
      <3>2. CASE i - Reaped \in 1..k - 1
        <4>1. Before(logs[i - Reaped], n) /\ i - Reaped \in 1..Len(logs)
          BY <1>1, <1>2, <3>2
        <4>2. logs[i - Reaped] = all[i]
          BY <1>1, <1>4, <2>1, <4>1
        <4> QED  BY <1>1, <2>1, <4>1, <4>2 DEF Before
      <3> QED  BY <1>1, <1>2, <1>4, <2>1, <3>1, <3>2
    <2>2. ASSUME NEW i \in Reaped + k .. Stored PROVE i \in 1..Stored /\ all[i].at + ttl >= n
      <3>1. i \in 1..Len(all) /\ i \in 1..Stored /\ Reaped + k \in 1..Len(all) /\ k \in 1..Len(logs)
        BY <1>1, <1>2, <1>4, <2>2
      <3>2. all[Reaped + k].at <= all[i].at
        BY <1>1, <2>2, <3>1 DEF Inv, OnlyExpiredReaped
      <3>3. ~Before(all[Reaped + k], n)
        BY <1>2, <1>4, <3>1
      <3> QED  BY <1>1, <3>1, <3>2, <3>3 DEF Before
    <2>3. \A i \in 1..Stored : i < Reaped + k \/ i \in Reaped + k .. Stored
      BY <1>1, <1>2, <1>4
    <2> QED  BY <2>1, <2>2, <2>3
  <1>6. Reaped + k \in Int /\ Stored - (Reaped + k) + 1 = Len(logs) - k + 1
        /\ Reaped + k <= Stored + 1 /\ Stored \in Int
    <2>1. Reaped \in Int /\ k \in Int /\ Len(logs) \in Int /\ k <= Len(logs) + 1
      BY <1>1, <1>2, <1>4
    <2>2. Stored \in Int /\ Reaped + Len(logs) = Stored
      BY <1>1, <1>4, Zenon
    <2> QED  BY <2>1, <2>2
  <1>7. AliveAt(n) = [j \in 1..Len(logs) - k + 1 |-> all[Reaped + k + j - 1]]
    <2>1. AliveAt(n) = Pick(all, Reaped + k .. Stored)
      BY <1>5 DEF AliveAt
    <2>2. Pick(all, Reaped + k .. Stored)
              = [j \in 1..Stored - (Reaped + k) + 1 |-> all[Reaped + k + j - 1]]
      <3> DEFINE low == Reaped + k
                 high == Stored
      <3>1. low \in Int /\ high \in Int /\ low <= high + 1
        BY <1>6
      <3> HIDE DEF low, high
      <3>2. Pick(all, low..high) = [j \in 1..high - low + 1 |-> all[low + j - 1]]
        BY <3>1, PickInterval
      <3> QED  BY <3>2 DEF low, high
    <2> QED  BY <1>6, <2>1, <2>2, Zenon
  <1>8. \A j \in 1..Len(logs) - k + 1 : Unexpired(n)[j] = all[Reaped + k + j - 1]
    <2> SUFFICES ASSUME NEW j \in 1..Len(logs) - k + 1
                 PROVE  Unexpired(n)[j] = all[Reaped + k + j - 1]
      OBVIOUS
    <2>1. k + j - 1 \in 1..Len(logs) /\ Reaped + (k + j - 1) = Reaped + k + j - 1
      BY <1>1, <1>2, <1>4
    <2> QED  BY <1>3, <1>4, <2>1
  <1>9. Unexpired(n) = [j \in 1..Len(logs) - k + 1 |-> Unexpired(n)[j]]
    <2>1. Unexpired(n) \in [1..Len(Unexpired(n)) -> Entries]
      BY <1>3, LenProperties
    <2> QED  BY <1>3, <2>1, Zenon
  <1> HIDE DEF alive
  <1> QED  BY <1>7, <1>8, <1>9

LEMMA InitLogInv == Init => LogInv
  <1> SUFFICES ASSUME Init PROVE Window
    BY InitInv DEF LogInv
  <1> QED  BY DEF Init, Window

-----------------------------------------------------------------------------
\* Reaped says how much is gone: it changes in addReap alone.
LEMMA ReapedKept ==
    ASSUME Inv, [Next]_vars, \A t \in Threads : ~addReap(t)
    PROVE  Reaped' = Reaped /\ ttl' = ttl /\ \A i \in 1..Reaped : all'[i] = all[i]
  <1>1. CASE UNCHANGED <<all, ttl, logs>> /\ Stored' = Stored
    BY <1>1 DEF Reaped
  <1>2. ASSUME NEW t \in Threads, addNow(t)
        PROVE  /\ UNCHANGED <<ttl, logs>> /\ Stored' = Stored
               /\ \A i \in 1..Reaped : all'[i] = all[i]
    <2>1. all \in Seq(Entries) /\ [at |-> clock, datum |-> datum[t]] \in Entries
      BY <1>2 DEF addNow, Inv, TypeOK, Args, Entries
    <2>2. /\ Len(all) \in Nat /\ Len(all') = Len(all) + 1
          /\ \A i \in 1..Len(all) : all'[i] = all[i]
      BY <1>2, <2>1, AppendProperties, EntriesOf DEF addNow
    <2>3. Len(logs) \in Nat
      BY EntriesOf DEF Inv, TypeOK
    <2>4. \A u \in Threads : pc[u] # "addReap"
      BY <1>2 DEF addNow, Inv, Excl, mu!Locked
    <2>5. pc'[t] = "addReap"
      BY <1>2 DEF addNow, Goto, Inv, TypeOK
    <2>6. Stored = Len(all) /\ Stored' = Len(all)
      BY <2>2, <2>4, <2>5 DEF Stored
    <2>7. Reaped \in Int /\ Reaped <= Len(all)
      BY <2>2, <2>3, <2>6 DEF Reaped
    <2> QED  BY <1>2, <2>2, <2>6, <2>7 DEF addNow
  <1>3. ASSUME UNCHANGED <<all, ttl, logs>>, NEW t \in Threads, NEW q, Goto(t, q),
               pc[t] # "addReap", q # "addReap"
        PROVE  Stored' = Stored
    <2>1. \A u \in Threads : pc'[u] = "addReap" <=> pc[u] = "addReap"
      BY <1>3 DEF Goto, Inv, TypeOK
    <2> QED  BY <1>3, <2>1 DEF Stored
  <1>4. CASE Tick \/ UNCHANGED vars
    BY <1>1, <1>4 DEF Tick, vars, Stored
  <1>5. ASSUME NEW t \in Threads, (\E d \in Data : CallAdd(t, d)) \/ addLock(t) \/ addUnlock(t) \/ CallGet(t)
                                  \/ getNow(t) \/ getClone(t) \/ getRUnlock(t) \/ Return(t)
        PROVE  Stored' = Stored /\ UNCHANGED <<all, ttl, logs>>
    <2>1. \E q \in Places \ {"addReap"} : Goto(t, q)
      BY <1>5 DEF CallAdd, addLock, addUnlock, CallGet, getNow, getClone, getRUnlock, Return, Places
    <2>2. pc[t] # "addReap" /\ UNCHANGED <<all, ttl, logs>>
      BY <1>5 DEF CallAdd, addLock, addUnlock, CallGet, getNow, getClone, getRUnlock, Return
    <2> QED  BY <1>3, <2>1, <2>2
  <1>6. \/ Tick \/ UNCHANGED vars
        \/ \E t \in Threads : addNow(t)
        \/ \E t \in Threads : \/ \E d \in Data : CallAdd(t, d)
                              \/ addLock(t) \/ addUnlock(t) \/ CallGet(t)
                              \/ getNow(t) \/ getClone(t) \/ getRUnlock(t) \/ Return(t)
    BY DEF Next, AfterLock
  <1> QED  BY <1>1, <1>2, <1>4, <1>5, <1>6 DEF Reaped

LEMMA StepLogInv == LogInv /\ [Next]_vars => LogInv'
  <1> SUFFICES ASSUME LogInv, [Next]_vars, Inv' PROVE Window'
    BY NextInv DEF LogInv
  <1>0. Inv /\ Window
    BY DEF LogInv
  <1> DEFINE InTime(t) == pc[t] \in {"addReap", "getClone"} =>
                             \A i \in 1..Reaped : all[i].at + ttl < now[t]
             Idle(t) == pc[t] = "idle" => datum[t] = None
  <1>1. ASSUME NEW t \in Threads, addReap(t) PROVE Window'
    <2>1. \A u \in Threads : pc'[u] \notin {"addReap", "getClone"}
      BY <1>0, <1>1 DEF addReap, Goto, Inv, TypeOK, Excl
    <2>2. \A u \in Threads : pc'[u] = "idle" => pc[u] = "idle"
      BY <1>0, <1>1 DEF addReap, Goto, Inv, TypeOK
    <2> QED  BY <1>0, <1>1, <2>1, <2>2 DEF addReap, Window
  <1>2. ASSUME \A t \in Threads : ~addReap(t) PROVE Window'
    <2>0. /\ Reaped' = Reaped /\ ttl' = ttl
          /\ \A i \in 1..Reaped : all'[i] = all[i] /\ all[i].at + ttl < clock
      BY <1>0, <1>2, ReapedKept DEF Inv, OnlyExpiredReaped
    <2>1. ASSUME NEW u \in Threads, pc'[u] = pc[u], now'[u] = now[u], datum'[u] = datum[u]
          PROVE  InTime(u)' /\ Idle(u)'
      BY <1>0, <2>0, <2>1 DEF Window
    <2>2. ASSUME NEW t \in Threads, addNow(t) \/ getNow(t)
          PROVE  InTime(t)' /\ Idle(t)'
      <3>1. now'[t] = clock /\ pc'[t] # "idle"
        BY <1>0, <2>2 DEF addNow, getNow, Goto, Inv, TypeOK
      <3> QED  BY <2>0, <3>1
    <2>3. ASSUME NEW t \in Threads, Return(t) \/ (\E d \in Data : CallAdd(t, d)) \/ addLock(t) \/ addUnlock(t)
                                    \/ CallGet(t) \/ getClone(t) \/ getRUnlock(t)
          PROVE  InTime(t)' /\ Idle(t)'
      <3>1. /\ pc'[t] \notin {"addReap", "getClone"}
            /\ pc'[t] = "idle" => datum'[t] = None
        BY <1>0, <2>3 DEF CallAdd, addLock, addUnlock, CallGet, getClone, getRUnlock, Return, Goto,
                          Inv, TypeOK
      <3> QED  BY <3>1
    <2>4. ASSUME NEW t \in Threads, AfterLock(t) \/ (\E d \in Data : CallAdd(t, d)) \/ CallGet(t) \/ addLock(t),
                 NEW u \in Threads, u # t
          PROVE  pc'[u] = pc[u] /\ now'[u] = now[u] /\ datum'[u] = datum[u]
      BY <1>0, <2>4 DEF AfterLock, CallAdd, CallGet, addLock, addNow, addReap, addUnlock, getNow, getClone,
                        getRUnlock, Return, Goto, Inv, TypeOK
    <2>5. CASE Tick \/ UNCHANGED vars
      BY <2>1, <2>5 DEF Tick, vars, Window
    <2>6. ASSUME NEW t \in Threads, AfterLock(t) \/ (\E d \in Data : CallAdd(t, d)) \/ CallGet(t) \/ addLock(t)
          PROVE  Window'
      <3>1. InTime(t)' /\ Idle(t)'
        BY <1>2, <2>2, <2>3, <2>6 DEF AfterLock
      <3>2. ASSUME NEW u \in Threads, u # t PROVE InTime(u)' /\ Idle(u)'
        BY <2>1, <2>4, <2>6, <3>2
      <3> QED  BY <3>1, <3>2 DEF Window
    <2> QED  BY <2>5, <2>6 DEF Next
  <1> QED  BY <1>1, <1>2

-----------------------------------------------------------------------------
\* The abstract log's view of a goroutine.
SizeOf(t) == IF pc[t] = "addReap" THEN Len(AliveAt(now[t])) + 1 ELSE size[t]
GotOf(t)  == IF pc[t] = "getClone" THEN AliveAt(now[t]) ELSE got[t]

\* The others see nothing of a step that neither adds nor moves them; while an
\* Add has the lock nobody is looking.
LEMMA OthersUnmoved ==
    ASSUME NEW t \in Threads,
           \A u \in Threads \ {t} : /\ pc'[u] = pc[u] /\ now'[u] = now[u]
                                    /\ size'[u] = size[u] /\ got'[u] = got[u],
           \/ UNCHANGED <<ttl, all>> /\ Stored' = Stored
           \/ \A u \in Threads \ {t} : pc[u] \notin {"addReap", "getClone"}
    PROVE  \A u \in Threads \ {t} :
               CallOf(u)' = CallOf(u) /\ SizeOf(u)' = SizeOf(u) /\ GotOf(u)' = GotOf(u)
  <1> SUFFICES ASSUME NEW u \in Threads \ {t}
               PROVE  CallOf(u)' = CallOf(u) /\ SizeOf(u)' = SizeOf(u) /\ GotOf(u)' = GotOf(u)
    OBVIOUS
  <1>1. pc'[u] = pc[u] /\ now'[u] = now[u] /\ size'[u] = size[u] /\ got'[u] = got[u]
    OBVIOUS
  <1>2. CASE UNCHANGED <<ttl, all>> /\ Stored' = Stored
    <2>1. AliveAt(now[u])' = AliveAt(now[u])
      BY <1>1, <1>2 DEF AliveAt, Pick
    <2> QED  BY <1>1, <2>1 DEF CallOf, SizeOf, GotOf
  <1>3. CASE pc[u] \notin {"addReap", "getClone"}
    BY <1>1, <1>3 DEF CallOf, SizeOf, GotOf
  <1> QED  BY <1>2, <1>3

\* What a step of t does to the abstract log.
LEMMA Seen ==
    ASSUME NEW t \in Threads,
           \A u \in Threads \ {t} :
               CallOf(u)' = CallOf(u) /\ SizeOf(u)' = SizeOf(u) /\ GotOf(u)' = GotOf(u)
    PROVE  /\ [u \in Threads |-> CallOf(u)]' = [[u \in Threads |-> CallOf(u)] EXCEPT ![t] = CallOf(t)']
           /\ [u \in Threads |-> SizeOf(u)]' = [[u \in Threads |-> SizeOf(u)] EXCEPT ![t] = SizeOf(t)']
           /\ [u \in Threads |-> GotOf(u)]' = [[u \in Threads |-> GotOf(u)] EXCEPT ![t] = GotOf(t)']
           /\ [u \in Threads |-> CallOf(u)][t] = CallOf(t)
  OBVIOUS

LEMMA Unseen ==
    ASSUME NEW t \in Threads,
           \A u \in Threads \ {t} :
               CallOf(u)' = CallOf(u) /\ SizeOf(u)' = SizeOf(u) /\ GotOf(u)' = GotOf(u),
           CallOf(t)' = CallOf(t), SizeOf(t)' = SizeOf(t), GotOf(t)' = GotOf(t),
           UNCHANGED <<clock, ttl, all, datum>>
    PROVE  UNCHANGED AbstractLog!logVars
  <1>1. \A u \in Threads : CallOf(u)' = CallOf(u) /\ SizeOf(u)' = SizeOf(u) /\ GotOf(u)' = GotOf(u)
    OBVIOUS
  <1>2. /\ [u \in Threads |-> CallOf(u)]' = [u \in Threads |-> CallOf(u)]
        /\ [u \in Threads |-> SizeOf(u)]' = [u \in Threads |-> SizeOf(u)]
        /\ [u \in Threads |-> GotOf(u)]' = [u \in Threads |-> GotOf(u)]
    BY <1>1
  <1> QED  BY <1>2 DEF AbstractLog!logVars, SizeOf, GotOf

\* With no Add between its two steps, all that was added is stored.
LEMMA AllStored ==
    ASSUME Inv, \A u \in Threads : pc[u] # "addReap"
    PROVE  /\ Stored = Len(all)
           /\ \A n : AliveAt(n) = Pick(all, {i \in DOMAIN all : all[i].at + ttl >= n})
  <1>1. Stored = Len(all)
    <2>1. Len(all) \in Nat
      BY EntriesOf DEF Inv, TypeOK
    <2> QED  BY <2>1 DEF Stored
  <1>2. DOMAIN all = 1..Len(all)
    BY LenProperties DEF Inv, TypeOK
  <1> QED  BY <1>1, <1>2 DEF AliveAt

LEMMA AliveNow ==
    ASSUME Inv, \A u \in Threads : pc[u] # "addReap"
    PROVE  AbstractLog!Alive = AliveAt(clock)
  <1>1. AbstractLog!Alive = Pick(all, {i \in DOMAIN all : all[i].at + ttl >= clock})
    BY Zenon DEF AbstractLog!Alive, AbstractLog!Pick, Pick, AbstractLog!Cardinality, Cardinality
  <1> QED  BY <1>1, AllStored

\* And the logs hold what is alive.
LEMMA AliveAtClock == Inv => AliveAt(clock) = Unexpired(clock)
  <1> SUFFICES ASSUME Inv PROVE AliveAt(clock) = Unexpired(clock)
    OBVIOUS
  <1>1. clock \in 0..clock /\ \A i \in 1..Reaped : all[i].at + ttl < clock
    BY DEF Inv, TypeOK, OnlyExpiredReaped
  <1> QED  BY <1>1, AliveIsUnexpired

LEMMA AliveAtClockNext == Inv' => (AliveAt(clock) = Unexpired(clock))'
  BY AliveAtClock, PTL

-----------------------------------------------------------------------------
\* The steps of which the abstract log sees nothing.
LEMMA SilentStep ==
    ASSUME LogInv, NEW t \in Threads,
           addLock(t) \/ addReap(t) \/ addUnlock(t) \/ getClone(t) \/ getRUnlock(t)
    PROVE  UNCHANGED AbstractLog!logVars
  <1>0. Inv /\ Window /\ UNCHANGED <<clock, ttl, all, datum>>
    BY DEF LogInv, addLock, addReap, addUnlock, getClone, getRUnlock
  <1>1. \A u \in Threads \ {t} : /\ pc'[u] = pc[u] /\ now'[u] = now[u]
                                 /\ size'[u] = size[u] /\ got'[u] = got[u]
    BY <1>0 DEF addLock, addReap, addUnlock, getClone, getRUnlock, Goto, Inv, TypeOK
  <1>2. CASE addReap(t)
    <2>1. /\ pc[t] = "addReap" /\ pc'[t] = "addUnlock" /\ size'[t] = Len(logs') /\ got'[t] = got[t]
          /\ logs' = Append(Unexpired(now[t]), [at |-> now[t], datum |-> datum[t]])
      BY <1>0, <1>2 DEF addReap, Goto, Inv, TypeOK
    <2>2. \A u \in Threads \ {t} : pc[u] \notin {"addReap", "getClone"}
      BY <1>0, <2>1 DEF Inv, Excl
    <2>3. now[t] \in 0..clock /\ datum[t] \in Data /\ now[t] \in Nat /\ now[t] \in Int
      BY <1>0, <2>1 DEF Inv, TypeOK, Args
    <2>4. AliveAt(now[t]) = Unexpired(now[t])
      BY <1>0, <2>1, <2>3, AliveIsUnexpired DEF Window
    <2>5. Unexpired(now[t]) \in Seq(Entries)
      BY <1>0, <2>3, UnexpiredIsSuffix, TTLAssumption DEF Inv, TypeOK
    <2>6. Len(logs') = Len(Unexpired(now[t])) + 1
      BY <2>1, <2>3, <2>5, AppendProperties DEF Entries
    <2>7. CallOf(t)' = CallOf(t) /\ SizeOf(t)' = SizeOf(t) /\ GotOf(t)' = GotOf(t)
      BY <2>1, <2>4, <2>6 DEF CallOf, SizeOf, GotOf
    <2> QED  BY <1>0, <1>1, <2>2, <2>7, OthersUnmoved, Unseen
  <1>3. CASE ~addReap(t)
    <2>1. PICK q \in Places : /\ Goto(t, q) /\ q \notin {"addReap", "getClone"} /\ pc'[t] = q
                              /\ pc[t] # "addReap" /\ CallOf(t)' = CallOf(t)
                              /\ size'[t] = size[t] /\ now'[t] = now[t]
      <3>1. CASE addLock(t)
        BY <1>0, <3>1 DEF addLock, Goto, Places, CallOf, Inv, TypeOK
      <3>2. CASE addUnlock(t)
        BY <1>0, <3>2 DEF addUnlock, Goto, Places, CallOf, Inv, TypeOK
      <3>3. CASE getClone(t)
        BY <1>0, <3>3 DEF getClone, Goto, Places, CallOf, Inv, TypeOK
      <3>4. CASE getRUnlock(t)
        BY <1>0, <3>4 DEF getRUnlock, Goto, Places, CallOf, Inv, TypeOK
      <3> QED  BY <1>3, <3>1, <3>2, <3>3, <3>4
    <2>2. \A u \in Threads : pc'[u] = "addReap" <=> pc[u] = "addReap"
      BY <1>1, <2>1
    <2>3. Stored' = Stored
      BY <1>0, <2>2 DEF Stored
    <2>4. GotOf(t)' = GotOf(t)
      <3>1. CASE getClone(t)
        <4>1. pc[t] = "getClone" /\ got'[t] = Unexpired(now[t]) /\ now[t] \in 0..clock
          BY <1>0, <3>1 DEF getClone, Inv, TypeOK
        <4>2. AliveAt(now[t]) = Unexpired(now[t])
          BY <1>0, <4>1, AliveIsUnexpired DEF Window
        <4> QED  BY <2>1, <4>1, <4>2 DEF GotOf
      <3>2. CASE addLock(t) \/ addUnlock(t) \/ getRUnlock(t)
        BY <2>1, <3>2 DEF addLock, addUnlock, getRUnlock, GotOf
      <3> QED  BY <1>3, <3>1, <3>2
    <2>5. SizeOf(t)' = SizeOf(t)
      BY <2>1 DEF SizeOf
    <2> QED  BY <1>0, <1>1, <2>1, <2>3, <2>4, <2>5, OthersUnmoved, Unseen
  <1> QED  BY <1>2, <1>3

\* The steps that the abstract log takes.
LEMMA AddStep ==
    ASSUME LogInv, NEW t \in Threads, addNow(t), Inv'
    PROVE  AbstractLog!Add(t)
  <1>0. Inv /\ UNCHANGED <<clock, ttl, datum, size, got>>
    BY DEF LogInv, addNow
  <1>1. /\ pc[t] = "addNow" /\ pc'[t] = "addReap" /\ now'[t] = clock
        /\ all' = Append(all, [at |-> clock, datum |-> datum[t]])
        /\ \A u \in Threads \ {t} : pc'[u] = pc[u] /\ now'[u] = now[u]
    BY <1>0 DEF addNow, Goto, Inv, TypeOK
  <1>2. \A u \in Threads : pc[u] \notin {"addReap", "getClone"}
    BY <1>0 DEF addNow, mu!Locked, Inv, Excl
  <1>3. \A u \in Threads \ {t} :
            CallOf(u)' = CallOf(u) /\ SizeOf(u)' = SizeOf(u) /\ GotOf(u)' = GotOf(u)
    BY <1>0, <1>1, <1>2, OthersUnmoved
  <1>4. AliveAt(clock)' = AliveAt(clock)
    <2>1. AliveAt(clock) = Unexpired(clock) /\ AliveAt(clock)' = Unexpired(clock)'
      BY <1>0, AliveAtClock, AliveAtClockNext
    <2>2. logs' = logs /\ ttl' = ttl /\ clock' = clock
      BY DEF addNow
    <2>3. Unexpired(clock)' = Unexpired(clock)
      BY <2>2 DEF Unexpired, getFirstValidIdxWhileLocked, Before
    <2> QED  BY <2>1, <2>3
  <1>5. SizeOf(t)' = Len(AliveAt(clock)) + 1 /\ GotOf(t)' = GotOf(t) /\ CallOf(t) = "add" /\ CallOf(t)' = "done"
    <2>1. SizeOf(t)' = Len(AliveAt(clock)') + 1
      BY <1>0, <1>1 DEF SizeOf, AliveAt, Pick
    <2> QED  BY <1>0, <1>1, <1>4, <2>1 DEF GotOf, CallOf
  <1>6. AbstractLog!Alive = AliveAt(clock)
    BY <1>0, <1>2, AliveNow
  <1>7. [u \in Threads |-> GotOf(u)]' = [u \in Threads |-> GotOf(u)]
    BY <1>3, <1>5
  <1>8. /\ [u \in Threads |-> CallOf(u)][t] = "add"
        /\ [u \in Threads |-> CallOf(u)]' = [[u \in Threads |-> CallOf(u)] EXCEPT ![t] = "done"]
        /\ [u \in Threads |-> SizeOf(u)]'
              = [[u \in Threads |-> SizeOf(u)] EXCEPT ![t] = Len(AbstractLog!Alive) + 1]
    BY <1>3, <1>5, <1>6, Seen
  <1> QED  BY <1>0, <1>1, <1>7, <1>8 DEF AbstractLog!Add, SizeOf, GotOf

LEMMA GetStep ==
    ASSUME LogInv, NEW t \in Threads, getNow(t)
    PROVE  AbstractLog!Get(t)
  <1>0. Inv /\ UNCHANGED <<clock, ttl, all, datum, size, got>>
    BY DEF LogInv, getNow
  <1>1. /\ pc[t] = "getNow" /\ pc'[t] = "getClone" /\ now'[t] = clock
        /\ \A u \in Threads \ {t} : pc'[u] = pc[u] /\ now'[u] = now[u]
    BY <1>0 DEF getNow, Goto, Inv, TypeOK
  <1>2. \A u \in Threads : pc[u] # "addReap" /\ pc'[u] # "addReap"
    BY <1>0, <1>1 DEF getNow, mu!RLocked, Inv, Excl
  <1>3. Stored' = Stored
    BY <1>0, <1>2 DEF Stored
  <1>4. \A u \in Threads \ {t} :
            CallOf(u)' = CallOf(u) /\ SizeOf(u)' = SizeOf(u) /\ GotOf(u)' = GotOf(u)
    BY <1>0, <1>1, <1>3, OthersUnmoved
  <1>5. GotOf(t)' = AliveAt(clock)
    BY <1>0, <1>1, <1>3 DEF GotOf, AliveAt, Pick
  <1>6. SizeOf(t)' = SizeOf(t) /\ CallOf(t) = "get" /\ CallOf(t)' = "done"
    BY <1>0, <1>1 DEF SizeOf, CallOf
  <1>7. AbstractLog!Alive = AliveAt(clock)
    BY <1>0, <1>2, AliveNow
  <1>8. [u \in Threads |-> SizeOf(u)]' = [u \in Threads |-> SizeOf(u)]
    BY <1>4, <1>6
  <1>9. /\ [u \in Threads |-> CallOf(u)][t] = "get"
        /\ [u \in Threads |-> CallOf(u)]' = [[u \in Threads |-> CallOf(u)] EXCEPT ![t] = "done"]
        /\ [u \in Threads |-> GotOf(u)]'
              = [[u \in Threads |-> GotOf(u)] EXCEPT ![t] = AbstractLog!Alive]
    BY <1>4, <1>5, <1>6, <1>7, Seen
  <1> QED  BY <1>0, <1>8, <1>9 DEF AbstractLog!Get, SizeOf, GotOf

LEMMA BeginStep ==
    ASSUME Inv, NEW t \in Threads, NEW op, NEW d,
           pc[t] = "idle", pc'[t] \in {"addLock", "getNow"}, CallOf(t)' = op,
           \A u \in Threads \ {t} : pc'[u] = pc[u],
           UNCHANGED <<clock, ttl, all, size, got, now>>,
           datum' = [datum EXCEPT ![t] = d]
    PROVE  AbstractLog!Call(t, op, d)
  <1>1. Stored' = Stored
    <2>1. \A u \in Threads : pc'[u] = "addReap" <=> pc[u] = "addReap"
      OBVIOUS
    <2> QED  BY <2>1 DEF Stored
  <1>2. \A u \in Threads \ {t} :
            CallOf(u)' = CallOf(u) /\ SizeOf(u)' = SizeOf(u) /\ GotOf(u)' = GotOf(u)
    BY <1>1, OthersUnmoved
  <1>3. SizeOf(t)' = SizeOf(t) /\ GotOf(t)' = GotOf(t) /\ CallOf(t) = "idle"
    BY DEF SizeOf, GotOf, CallOf
  <1>4. /\ [u \in Threads |-> SizeOf(u)]' = [u \in Threads |-> SizeOf(u)]
        /\ [u \in Threads |-> GotOf(u)]' = [u \in Threads |-> GotOf(u)]
    BY <1>2, <1>3
  <1>5. /\ [u \in Threads |-> CallOf(u)][t] = "idle"
        /\ [u \in Threads |-> CallOf(u)]' = [[u \in Threads |-> CallOf(u)] EXCEPT ![t] = op]
    BY <1>2, <1>3, Seen
  <1> QED  BY <1>4, <1>5 DEF AbstractLog!Call, SizeOf, GotOf

LEMMA EndStep ==
    ASSUME LogInv, NEW t \in Threads, Return(t)
    PROVE  AbstractLog!Return(t)
  <1>0. Inv /\ UNCHANGED <<clock, ttl, all>> /\ datum' = [datum EXCEPT ![t] = None]
    BY DEF LogInv, Return
  <1>1. /\ pc[t] = "return" /\ pc'[t] = "idle" /\ size'[t] = 0 /\ got'[t] = << >>
        /\ \A u \in Threads \ {t} : /\ pc'[u] = pc[u] /\ now'[u] = now[u]
                                    /\ size'[u] = size[u] /\ got'[u] = got[u]
    BY <1>0 DEF Return, Goto, Inv, TypeOK
  <1>2. Stored' = Stored
    <2>1. \A u \in Threads : pc'[u] = "addReap" <=> pc[u] = "addReap"
      BY <1>1
    <2> QED  BY <1>0, <2>1 DEF Stored
  <1>3. \A u \in Threads \ {t} :
            CallOf(u)' = CallOf(u) /\ SizeOf(u)' = SizeOf(u) /\ GotOf(u)' = GotOf(u)
    BY <1>0, <1>1, <1>2, OthersUnmoved
  <1>4. CallOf(t) = "done" /\ CallOf(t)' = "idle" /\ SizeOf(t)' = 0 /\ GotOf(t)' = << >>
    BY <1>1 DEF CallOf, SizeOf, GotOf
  <1>5. /\ [u \in Threads |-> CallOf(u)][t] = "done"
        /\ [u \in Threads |-> CallOf(u)]' = [[u \in Threads |-> CallOf(u)] EXCEPT ![t] = "idle"]
        /\ [u \in Threads |-> SizeOf(u)]' = [[u \in Threads |-> SizeOf(u)] EXCEPT ![t] = 0]
        /\ [u \in Threads |-> GotOf(u)]' = [[u \in Threads |-> GotOf(u)] EXCEPT ![t] = << >>]
    BY <1>3, <1>4, Seen
  <1> QED  BY <1>0, <1>5 DEF AbstractLog!Return, SizeOf, GotOf

\* Nothing that a call has seen depends on the time that passes after it.
LEMMA ClockStep ==
    ASSUME Tick \/ UNCHANGED vars
    PROVE  AbstractLog!Tick \/ UNCHANGED AbstractLog!logVars
  <1>1. /\ UNCHANGED <<ttl, all, datum, pc, now, size, got>>
        /\ clock' = clock + 1 \/ clock' = clock
    BY DEF Tick, vars
  <1>2. Stored' = Stored
    BY <1>1 DEF Stored
  <1>3. \A u \in Threads :
            CallOf(u)' = CallOf(u) /\ SizeOf(u)' = SizeOf(u) /\ GotOf(u)' = GotOf(u)
    BY <1>1, <1>2 DEF CallOf, SizeOf, GotOf, AliveAt, Pick
  <1>4. /\ [u \in Threads |-> CallOf(u)]' = [u \in Threads |-> CallOf(u)]
        /\ [u \in Threads |-> SizeOf(u)]' = [u \in Threads |-> SizeOf(u)]
        /\ [u \in Threads |-> GotOf(u)]' = [u \in Threads |-> GotOf(u)]
    BY <1>3
  <1> QED  BY <1>1, <1>4 DEF AbstractLog!Tick, AbstractLog!logVars, SizeOf, GotOf

LEMMA InitLog == Init => AbstractLog!Init
  <1> SUFFICES ASSUME Init PROVE AbstractLog!Init
    OBVIOUS
  <1>1. \A t \in Threads : CallOf(t) = "idle" /\ SizeOf(t) = 0 /\ GotOf(t) = << >>
    BY DEF Init, CallOf, SizeOf, GotOf
  <1>2. /\ [t \in Threads |-> CallOf(t)] = [t \in Threads |-> "idle"]
        /\ [t \in Threads |-> SizeOf(t)] = [t \in Threads |-> 0]
        /\ [t \in Threads |-> GotOf(t)] = [t \in Threads |-> << >>]
    BY <1>1
  <1> QED  BY <1>2 DEF Init, AbstractLog!Init, SizeOf, GotOf

LEMMA StepLog == LogInv /\ [Next]_vars => [AbstractLog!Next]_(AbstractLog!logVars)
  <1> SUFFICES ASSUME LogInv, [Next]_vars
               PROVE  AbstractLog!Next \/ UNCHANGED AbstractLog!logVars
    OBVIOUS
  <1>1. CASE Tick \/ UNCHANGED vars
    BY <1>1, ClockStep DEF AbstractLog!Next
  <1>2. ASSUME NEW t \in Threads, NEW d \in Data, CallAdd(t, d) PROVE AbstractLog!Next
    <2>1. /\ pc[t] = "idle" /\ pc'[t] = "addLock" /\ CallOf(t)' = "add"
          /\ \A u \in Threads \ {t} : pc'[u] = pc[u]
          /\ UNCHANGED <<clock, ttl, all, size, got, now>>
          /\ datum' = [datum EXCEPT ![t] = d]
      BY <1>2 DEF CallAdd, Goto, CallOf, LogInv, Inv, TypeOK
    <2>2. AbstractLog!Call(t, "add", d)
      BY <2>1, BeginStep DEF LogInv
    <2> QED  BY <2>2 DEF AbstractLog!Next
  <1>3. ASSUME NEW t \in Threads, CallGet(t) PROVE AbstractLog!Next
    <2>1. /\ pc[t] = "idle" /\ pc'[t] = "getNow" /\ CallOf(t)' = "get"
          /\ \A u \in Threads \ {t} : pc'[u] = pc[u]
          /\ UNCHANGED <<clock, ttl, all, size, got, now, datum>>
      BY <1>3 DEF CallGet, Goto, CallOf, LogInv, Inv, TypeOK
    <2>2. datum' = [datum EXCEPT ![t] = None]
      BY <2>1 DEF LogInv, Window, Inv, TypeOK
    <2>3. AbstractLog!Call(t, "get", None)
      BY <2>1, <2>2, BeginStep DEF LogInv
    <2> QED  BY <2>3 DEF AbstractLog!Next
  <1>4. ASSUME NEW t \in Threads, addNow(t) PROVE AbstractLog!Next
    BY <1>4, AddStep, NextInv DEF LogInv, AbstractLog!Next
  <1>5. ASSUME NEW t \in Threads, getNow(t) PROVE AbstractLog!Next
    BY <1>5, GetStep DEF AbstractLog!Next
  <1>6. ASSUME NEW t \in Threads, Return(t) PROVE AbstractLog!Next
    BY <1>6, EndStep DEF AbstractLog!Next
  <1>7. ASSUME NEW t \in Threads,
               addLock(t) \/ addReap(t) \/ addUnlock(t) \/ getClone(t) \/ getRUnlock(t)
        PROVE  UNCHANGED AbstractLog!logVars
    BY <1>7, SilentStep
  <1> QED  BY <1>1, <1>2, <1>3, <1>4, <1>5, <1>6, <1>7 DEF Next, AfterLock

\* Add and Get are atomic: the log that keeps everything, at the instant at
\* which each call reads the clock, explains whatever the goroutines are
\* returned (history.go:48-70).
THEOREM CallsAreAtomic == Spec => HistorySpec
  <1>1. Init => LogInv /\ AbstractLog!Init
    BY InitLogInv, InitLog
  <1> QED  BY <1>1, StepLogInv, StepLog, PTL DEF Spec, HistorySpec, AbstractLog!Spec
=============================================================================
