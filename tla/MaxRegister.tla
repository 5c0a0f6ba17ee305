---------------------------- MODULE MaxRegister ----------------------------
(***************************************************************************)
(* What synctools.AtomicMax promises the goroutines that share one: its    *)
(* Update and its Get each happen at one instant between call and return.  *)
(* AtomicMax.tla, the compare-and-swap loop, is shown to implement this.   *)
(***************************************************************************)
CONSTANTS Threads,
          Values,
          Zero,      \* the zero value of the type
          None,      \* not a value: no maximum yet
          AtLeast    \* <<a, b>> where the comparer says a >= b

VARIABLES reg,       \* the maximum
          call,      \* what each goroutine is doing
          arg, ret   \* the argument and the result of its last call

maxVars == <<reg, call, arg, ret>>

Init ==
    /\ reg \in Values \cup {None}
    /\ call = [t \in Threads |-> "idle"]
    /\ arg = [t \in Threads |-> Zero]
    /\ ret = [t \in Threads |-> Zero]

Call(t, op, v) ==
    /\ call[t] = "idle"
    /\ call' = [call EXCEPT ![t] = op]
    /\ arg' = [arg EXCEPT ![t] = v]
    /\ ret' = [ret EXCEPT ![t] = Zero]
    /\ UNCHANGED reg

Current == IF reg = None THEN Zero ELSE reg

\* The first of several equal maxima stays.
Update(t) ==
    /\ call[t] = "update"
    /\ reg' = IF reg # None /\ <<reg, arg[t]>> \in AtLeast THEN reg ELSE arg[t]
    /\ call' = [call EXCEPT ![t] = "done"]
    /\ ret' = [ret EXCEPT ![t] = Current]
    /\ UNCHANGED arg

Get(t) ==
    /\ call[t] = "get"
    /\ call' = [call EXCEPT ![t] = "done"]
    /\ ret' = [ret EXCEPT ![t] = Current]
    /\ UNCHANGED <<reg, arg>>

Return(t) ==
    /\ call[t] = "done"
    /\ call' = [call EXCEPT ![t] = "idle"]
    /\ UNCHANGED <<reg, arg, ret>>

Next ==
    \E t \in Threads :
        \/ \E v \in Values : Call(t, "update", v)
        \/ Call(t, "get", Zero)
        \/ Update(t) \/ Get(t) \/ Return(t)

Spec == Init /\ [][Next]_maxVars
=============================================================================
