---------------------------- MODULE ExpiringLog ----------------------------
(***************************************************************************)
(* What a History promises the goroutines that share it: a log that keeps  *)
(* everything, of which Add and Get each see, at one instant between call  *)
(* and return, exactly the entries that have not expired at that instant.  *)
(* History.tla, which forgets what has expired, is shown to implement it.  *)
(***************************************************************************)
EXTENDS Integers, Sequences, Subsequences

CONSTANTS Threads,
          Data,
          TTLs,    \* the lifetimes that a History may be made with
          NoData   \* the argument of a goroutine that is not in Add

VARIABLES clock, ttl,
          log,         \* every entry ever added
          call,        \* what each goroutine is doing
          arg,         \* what it adds
          size, got    \* what its Add, or its Get, returns

logVars == <<clock, ttl, log, call, arg, size, got>>

Init ==
    /\ clock = 0
    /\ ttl \in TTLs
    /\ log = << >>
    /\ call = [t \in Threads |-> "idle"]
    /\ arg = [t \in Threads |-> NoData]
    /\ size = [t \in Threads |-> 0]
    /\ got = [t \in Threads |-> << >>]

Alive == Pick(log, {i \in DOMAIN log : log[i].at + ttl >= clock})

Tick ==
    /\ clock' = clock + 1
    /\ UNCHANGED <<ttl, log, call, arg, size, got>>

Call(t, op, d) ==
    /\ call[t] = "idle"
    /\ call' = [call EXCEPT ![t] = op]
    /\ arg' = [arg EXCEPT ![t] = d]
    /\ UNCHANGED <<clock, ttl, log, size, got>>

\* The new entry counts, even where the lifetime is negative.
Add(t) ==
    /\ call[t] = "add"
    /\ log' = Append(log, [at |-> clock, datum |-> arg[t]])
    /\ size' = [size EXCEPT ![t] = Len(Alive) + 1]
    /\ call' = [call EXCEPT ![t] = "done"]
    /\ UNCHANGED <<clock, ttl, arg, got>>

Get(t) ==
    /\ call[t] = "get"
    /\ got' = [got EXCEPT ![t] = Alive]
    /\ call' = [call EXCEPT ![t] = "done"]
    /\ UNCHANGED <<clock, ttl, log, arg, size>>

Return(t) ==
    /\ call[t] = "done"
    /\ call' = [call EXCEPT ![t] = "idle"]
    /\ arg' = [arg EXCEPT ![t] = NoData]
    /\ size' = [size EXCEPT ![t] = 0]
    /\ got' = [got EXCEPT ![t] = << >>]
    /\ UNCHANGED <<clock, ttl, log>>

Next ==
    \/ Tick
    \/ \E t \in Threads :
          \/ \E d \in Data : Call(t, "add", d)
          \/ Call(t, "get", NoData)
          \/ Add(t) \/ Get(t) \/ Return(t)

Spec == Init /\ [][Next]_logVars
=============================================================================
