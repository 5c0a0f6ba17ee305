---------------------------- MODULE ContextPlus ----------------------------
(***************************************************************************)
(* contextplus/c.go and contextplus.go: contexts whose Err() also tells    *)
(* the cause.  Each wraps a context of the standard library, which ends    *)
(* once, with an error and a cause, and then ends what was derived from    *)
(* it.  Err() asks the library for the cause and then for the error, in    *)
(* two calls that a cancellation can come between.                         *)
(*                                                                         *)
(* An error is the set of the errors in its tree that somebody may look    *)
(* for with errors.Is; { } is nil.  The node that fmt.Errorf adds to a     *)
(* tree is nobody's target and is left out, so errors.Is(a, b) is b \in a  *)
(* for a leaf, and b \subseteq a in general.                               *)
(***************************************************************************)
EXTENDS Naturals

CONSTANTS Ctxs,        \* contexts of this package that callers may derive
          Background,  \* a context that never ends
          None,        \* a context not yet derived has no parent
          Readers,     \* goroutines that call Err()
          CauseErrors  \* the errors that callers give as causes

Nil == {}
Canceled == {"context canceled"}
DeadlineExceeded == {"context deadline exceeded"}

ASSUME ContextAssumption == Background \notin Ctxs /\ None \notin Ctxs \cup {Background}
ASSUME CauseAssumption   == Nil \notin CauseErrors

VARIABLES parent,      \* what each context was derived from
          deadline,    \* whether its Deadline() is set
          timer,       \* the cause that its timer, if one is armed, would end it with
          err, cause,  \* what the wrapped context ended with
          at, on,      \* where each reader is in Err(), and of which context
          got,         \* the cause that it has read
          result,      \* what its last call returned
          late         \* whether the context had ended when the call began

tree    == <<parent, deadline, timer, err, cause>>
readers == <<at, on, got, result, late>>
vars    == <<tree, readers>>

Init ==
    /\ parent = [n \in Ctxs |-> None]
    /\ deadline = [n \in Ctxs |-> FALSE]
    /\ timer = [n \in Ctxs |-> Nil]
    /\ err = [n \in Ctxs |-> Nil]
    /\ cause = [n \in Ctxs |-> Nil]
    /\ at = [r \in Readers |-> "idle"]
    /\ on = [r \in Readers |-> None]
    /\ got = [r \in Readers |-> Nil]
    /\ result = [r \in Readers |-> Nil]
    /\ late = [r \in Readers |-> FALSE]

-----------------------------------------------------------------------------
Is(e, target) == IF target = Nil THEN e = Nil ELSE target \subseteq e

\* Mutants: wraps even nil; keeps the wrong one of two errors of which the
\* cause wraps the other; does not care about the error.
wrapNil(c, e) == e \cup c \cup (IF e = Nil THEN {"%!w(<nil>)"} ELSE {})
wrapKeepingErr(c, e) == IF c = Nil \/ Is(c, e) \/ Is(e, c) THEN e ELSE e \cup c
wrapForgettingErr(c, e) == IF c = Nil THEN e ELSE c

wrapCtxErrWithCause(c, e) ==
    CASE c = Nil                              -> e
      [] c # Nil /\ Is(c, e)                  -> c
      [] c # Nil /\ ~Is(c, e) /\ Is(e, c)     -> e
      [] OTHER                                -> e \cup c

-----------------------------------------------------------------------------
(***************************************************************************)
(* The standard library's contexts.                                        *)
(***************************************************************************)
Exists(n) == parent[n] # None

\* The first end of a context is the one that counts.
End(n, e, c) ==
    /\ Exists(n) /\ err[n] = Nil
    /\ err' = [err EXCEPT ![n] = e]
    /\ cause' = [cause EXCEPT ![n] = IF c = Nil THEN e ELSE c]
    /\ timer' = [timer EXCEPT ![n] = Nil]
    /\ UNCHANGED <<parent, deadline, readers>>

Expires(p) == p \in Ctxs /\ deadline[p]

\* A context derived from one that has ended ends at once, with what the
\* parent's Err() tells, which here is this package's.
Derive(n, p, t) ==
    /\ ~Exists(n)
    /\ p = Background \/ (p \in Ctxs /\ Exists(p))
    /\ parent' = [parent EXCEPT ![n] = p]
    /\ deadline' = [deadline EXCEPT ![n] = t # Nil \/ Expires(p)]
    /\ LET ended == p # Background /\ err[p] # Nil IN
       /\ err' = IF ended
                 THEN [err EXCEPT ![n] = wrapCtxErrWithCause(cause[p], err[p])] ELSE err
       /\ cause' = IF ended THEN [cause EXCEPT ![n] = cause[p]] ELSE cause
       /\ timer' = IF ended THEN timer ELSE [timer EXCEPT ![n] = t]
    /\ UNCHANGED readers

\* cancel() goes through the derived contexts one by one.
Propagate(n) ==
    /\ parent[n] \in Ctxs
    /\ err[parent[n]] # Nil
    /\ End(n, err[parent[n]], cause[parent[n]])

Expire(n) ==
    /\ timer[n] # Nil
    /\ End(n, DeadlineExceeded, timer[n])

-----------------------------------------------------------------------------
(***************************************************************************)
(* The functions of this package.                                          *)
(***************************************************************************)
\* Causes may be errors that Err() returned, as a function of an ErrGroup that
\* stops because its context ended may give.
Causes == (CauseErrors \cup {result[r] : r \in Readers}) \ {Nil}

\* Also ErrGroup, whose context is of the same kind.
WithCancelCause(n, p) == Derive(n, p, Nil)

\* Also WithTimeoutCause.  Both wrap the cause in a text, which leaves it where
\* errors.Is finds it.  If the parent's deadline is earlier, no timer is armed.
WithDeadlineCause(n, p, c) == Derive(n, p, c) \/ (Expires(p) /\ Derive(n, p, Nil))

\* The cancel function of WithCancelCause; of an ErrGroup, the first error that
\* a function returns or, with a nil cause, Wait; of the other two, no cause.
Cancel(n, c) == End(n, Canceled, c)

\* Err(), from context.Cause, which itself asks for the error of a context
\* without cause, to the wrapping.
CallErr(r, n) ==
    /\ at[r] = "idle"
    /\ Exists(n)
    /\ at' = [at EXCEPT ![r] = "cause"]
    /\ on' = [on EXCEPT ![r] = n]
    /\ late' = [late EXCEPT ![r] = err[n] # Nil]
    /\ result' = [result EXCEPT ![r] = Nil]
    /\ UNCHANGED <<tree, got>>

readCause(r) ==
    /\ at[r] = "cause"
    /\ got' = [got EXCEPT ![r] = cause[on[r]]]
    /\ at' = [at EXCEPT ![r] = IF cause[on[r]] # Nil THEN "err" ELSE "no cause"]
    /\ UNCHANGED <<tree, on, result, late>>

readErrAsCause(r) ==
    /\ at[r] = "no cause"
    /\ got' = [got EXCEPT ![r] = err[on[r]]]
    /\ at' = [at EXCEPT ![r] = "err"]
    /\ UNCHANGED <<tree, on, result, late>>

readErr(r) ==
    /\ at[r] = "err"
    /\ result' = [result EXCEPT ![r] = wrapCtxErrWithCause(got[r], err[on[r]])]
    /\ got' = [got EXCEPT ![r] = Nil]
    /\ at' = [at EXCEPT ![r] = "returned"]
    /\ UNCHANGED <<tree, on, late>>

ErrUsed(r) ==
    /\ at[r] = "returned"
    /\ at' = [at EXCEPT ![r] = "idle"]
    /\ UNCHANGED <<tree, on, got, result, late>>

Next ==
    \/ \E n \in Ctxs :
        \/ \E p \in Ctxs \cup {Background} :
               WithCancelCause(n, p) \/ \E c \in Causes : WithDeadlineCause(n, p, c)
        \/ \E c \in Causes \cup {Nil} : Cancel(n, c)
        \/ Expire(n) \/ Propagate(n)
        \/ \E r \in Readers : CallErr(r, n)
    \/ \E r \in Readers : readCause(r) \/ readErrAsCause(r) \/ readErr(r) \/ ErrUsed(r)

Spec == Init /\ [][Next]_vars

-----------------------------------------------------------------------------
Errors == SUBSET ((UNION CauseErrors) \cup Canceled \cup DeadlineExceeded)

TypeOK ==
    /\ parent \in [Ctxs -> Ctxs \cup {Background, None}]
    /\ deadline \in [Ctxs -> BOOLEAN]
    /\ timer \in [Ctxs -> Errors]
    /\ err \in [Ctxs -> Errors] /\ cause \in [Ctxs -> Errors]
    /\ at \in [Readers -> {"idle", "cause", "no cause", "err", "returned"}]
    /\ on \in [Readers -> Ctxs \cup {None}]
    /\ got \in [Readers -> Errors] /\ result \in [Readers -> Errors]
    /\ late \in [Readers -> BOOLEAN]

Returned(r) == at[r] = "returned"

\* "errors.Is() will still work against built-in errors": however the context
\* ended, by whichever ancestor, and whatever it raced, an Err() that is not
\* nil says whether the end was a cancellation or an expiry.
BuiltInErrorsFound ==
    \A r \in Readers : Returned(r) /\ result[r] # Nil =>
        /\ Is(result[r], Canceled) \/ Is(result[r], DeadlineExceeded)
        /\ Is(result[r], err[on[r]])

\* Err() of a context that had ended before the call (its Done() was closed) is
\* never nil, tells the error and the cause, and nothing that is not in them.
EndedTellsAll ==
    \A r \in Readers : Returned(r) /\ late[r] =>
        result[r] = err[on[r]] \cup cause[on[r]] /\ result[r] # Nil

\* "ensures that all cancellation error messages include the cancellation
\* cause"
ErrIncludesCause ==
    \A r \in Readers : Returned(r) /\ result[r] # Nil => Is(result[r], cause[on[r]])
=============================================================================
