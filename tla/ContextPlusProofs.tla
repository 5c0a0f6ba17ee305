------------------------- MODULE ContextPlusProofs -------------------------
(***************************************************************************)
(* What Err() of a C is good for, for any number of contexts and callers   *)
(* and any causes.  The invariant follows a call: once its context has     *)
(* ended, the cause it reads is the final one.                             *)
(***************************************************************************)
EXTENDS ContextPlus, TLAPS

USE ContextAssumption, CauseAssumption

\* The cases of wrapCtxErrWithCause matter for the text only: what errors.Is
\* finds in its result is what it finds in either error.
LEMMA WrapIsUnion ==
    ASSUME NEW c, NEW e
    PROVE  wrapCtxErrWithCause(c, e) = e \cup c
  <1>1. CASE c = Nil
    BY <1>1 DEF wrapCtxErrWithCause, Nil
  <1>2. CASE c # Nil /\ Is(c, e)
    BY <1>2 DEF wrapCtxErrWithCause, Nil, Is
  <1>3. CASE c # Nil /\ ~Is(c, e) /\ Is(e, c)
    BY <1>3 DEF wrapCtxErrWithCause, Nil, Is
  <1>4. CASE c # Nil /\ ~Is(c, e) /\ ~Is(e, c)
    BY <1>4 DEF wrapCtxErrWithCause
  <1> QED  BY <1>1, <1>2, <1>3, <1>4

BuiltIn(e) == Is(e, Canceled) \/ Is(e, DeadlineExceeded)

Ends ==
    \A n \in Ctxs :
        /\ (err[n] = Nil) = (cause[n] = Nil)
        /\ err[n] # Nil => Exists(n) /\ BuiltIn(err[n])

Reading(r) ==
    at[r] # "idle" =>
        /\ on[r] \in Ctxs
        /\ late[r] => err[on[r]] # Nil /\ at[r] # "no cause"
        /\ at[r] = "err" =>
              /\ got[r] # Nil => err[on[r]] # Nil
              /\ late[r] => got[r] = cause[on[r]]
        /\ at[r] = "returned" =>
              /\ result[r] # Nil => err[on[r]] # Nil /\ Is(result[r], err[on[r]])
              /\ late[r] => result[r] = err[on[r]] \cup cause[on[r]]

Inv == TypeOK /\ Ends /\ \A r \in Readers : Reading(r)

LEMMA ErrorFacts ==
    /\ Nil \in Errors /\ Canceled \in Errors /\ DeadlineExceeded \in Errors
    /\ \A c, e \in Errors : c \cup e \in Errors
    /\ Canceled # Nil /\ DeadlineExceeded # Nil
    /\ CauseErrors \subseteq Errors
    /\ BuiltIn(Canceled) /\ BuiltIn(DeadlineExceeded)
    /\ \A c, e : BuiltIn(e) => BuiltIn(e \cup c)
  <1>1. /\ Nil \in Errors /\ Canceled \in Errors /\ DeadlineExceeded \in Errors
        /\ \A c, e \in Errors : c \cup e \in Errors
    <2> DEFINE all == (UNION CauseErrors) \cup Canceled \cup DeadlineExceeded
    <2>1. Errors = SUBSET all
      BY DEF Errors
    <2>2. Canceled \subseteq all /\ DeadlineExceeded \subseteq all
      BY Zenon
    <2> HIDE DEF all
    <2>4. Nil \subseteq all
      BY DEF Nil
    <2>3. \A c, e \in SUBSET all : c \cup e \in SUBSET all
      OBVIOUS
    <2> QED  BY <2>1, <2>2, <2>3, <2>4
  <1>2. \A e \in CauseErrors : e \in SUBSET UNION CauseErrors
    OBVIOUS
  <1>3. CauseErrors \subseteq Errors
    BY <1>2 DEF Errors
  <1>4. Canceled # Nil /\ DeadlineExceeded # Nil
    BY DEF Nil, Canceled, DeadlineExceeded
  <1>5. /\ BuiltIn(Canceled) /\ BuiltIn(DeadlineExceeded)
        /\ \A c, e : BuiltIn(e) => BuiltIn(e \cup c)
    BY <1>4 DEF BuiltIn, Is
  <1> QED  BY <1>1, <1>3, <1>4, <1>5

LEMMA InitInv == Init => Inv
  BY ErrorFacts DEF Init, Inv, TypeOK, Ends, Reading

\* A context that ends changes nothing for a call that was late, and for the
\* others only that their context has ended now.
LEMMA EndStep ==
    ASSUME Inv, NEW n \in Ctxs, NEW e \in Errors, NEW c \in Errors,
           BuiltIn(e), e # Nil, End(n, e, c)
    PROVE  Inv'
  <1> USE DEF Inv
  <1>1. TypeOK'
    BY ErrorFacts DEF End, TypeOK, tree, readers
  <1>2. /\ err[n] = Nil /\ err'[n] = e /\ cause'[n] # Nil /\ Exists(n)'
        /\ \A m \in Ctxs \ {n} : err'[m] = err[m] /\ cause'[m] = cause[m] /\ Exists(m)' = Exists(m)
        /\ UNCHANGED <<at, on, got, result, late>>
    BY DEF End, TypeOK, readers, Exists
  <1>3. Ends'
    BY <1>2 DEF Ends
  <1>4. \A r \in Readers : Reading(r)'
    <2> SUFFICES ASSUME NEW r \in Readers, at[r] # "idle" PROVE Reading(r)'
      BY <1>2 DEF Reading
    <2>1. Reading(r) /\ on[r] \in Ctxs /\ cause[n] = Nil
      BY <1>2 DEF Reading, Ends
    <2>2. CASE on[r] = n
      <3>1. ~late[r] /\ (at[r] = "err" => got[r] = Nil) /\ (at[r] = "returned" => result[r] = Nil)
        BY <1>2, <2>1, <2>2 DEF Reading
      <3> QED  BY <1>2, <2>1, <2>2, <3>1 DEF Reading
    <2>3. CASE on[r] # n
      <3>1. err'[on[r]] = err[on[r]] /\ cause'[on[r]] = cause[on[r]]
        BY <1>2, <2>1, <2>3
      <3> QED  BY <1>2, <2>1, <3>1 DEF Reading
    <2> QED  BY <2>2, <2>3
  <1> QED  BY <1>1, <1>3, <1>4

LEMMA DeriveStep ==
    ASSUME Inv, NEW n \in Ctxs, NEW p \in Ctxs \cup {Background}, NEW t \in Errors, Derive(n, p, t)
    PROVE  Inv'
  <1> USE DEF Inv
  <1>1. UNCHANGED <<at, on, got, result, late>> /\ parent[n] = None /\ err[n] = Nil
    BY DEF Derive, readers, Exists, Ends
  <1>2. parent' = [parent EXCEPT ![n] = p] /\ p # None
    BY DEF Derive
  <1>3. CASE p # Background /\ err[p] # Nil
    <2>1. /\ p \in Ctxs
          /\ err' = [err EXCEPT ![n] = err[p] \cup cause[p]]
          /\ cause' = [cause EXCEPT ![n] = cause[p]]
          /\ timer' = timer
      BY <1>3, WrapIsUnion DEF Derive
    <2>2. BuiltIn(err[p]) /\ cause[p] # Nil /\ err[p] \in Errors /\ cause[p] \in Errors
      BY <1>3, <2>1 DEF Ends, TypeOK
    <2>3. err[p] \cup cause[p] \in Errors /\ BuiltIn(err[p] \cup cause[p]) /\ err[p] \cup cause[p] # Nil
      BY <2>2, ErrorFacts DEF Nil
    <2>4. TypeOK'
      <3>1. /\ parent' \in [Ctxs -> Ctxs \cup {Background, None}]
            /\ deadline' \in [Ctxs -> BOOLEAN]
        BY <1>2 DEF TypeOK, Derive, Expires
      <3>2. err' \in [Ctxs -> Errors] /\ cause' \in [Ctxs -> Errors] /\ timer' \in [Ctxs -> Errors]
        BY <2>1, <2>2, <2>3 DEF TypeOK
      <3> QED  BY <1>1, <3>1, <3>2 DEF TypeOK
    <2>5. Ends'
      BY <1>2, <2>1, <2>2, <2>3 DEF Ends, Exists, TypeOK
    <2>6. \A m \in Ctxs : err[m] # Nil => err'[m] = err[m] /\ cause'[m] = cause[m]
      BY <1>1, <2>1 DEF TypeOK
    <2>7. \A r \in Readers : Reading(r)'
      <3> SUFFICES ASSUME NEW r \in Readers, at[r] # "idle"
                   PROVE  Reading(r)'
        BY <1>1 DEF Reading
      <3> QED  BY <1>1, <2>6 DEF Reading
    <2> QED  BY <2>4, <2>5, <2>7
  <1>4. CASE ~(p # Background /\ err[p] # Nil)
    <2>1. UNCHANGED <<err, cause>> /\ timer' = [timer EXCEPT ![n] = t]
      BY <1>4 DEF Derive
    <2>2. TypeOK'
      <3>1. /\ parent' \in [Ctxs -> Ctxs \cup {Background, None}]
            /\ deadline' \in [Ctxs -> BOOLEAN]
        BY <1>2 DEF TypeOK, Derive, Expires
      <3>2. timer' \in [Ctxs -> Errors]
        BY <2>1 DEF TypeOK
      <3> QED  BY <1>1, <2>1, <3>1, <3>2 DEF TypeOK
    <2>3. Ends'
      BY <1>2, <2>1 DEF Ends, Exists, TypeOK
    <2>4. \A r \in Readers : Reading(r)'
      BY <1>1, <2>1 DEF Reading
    <2> QED  BY <2>2, <2>3, <2>4
  <1> QED  BY <1>3, <1>4

\* One step of a call of Err() leaves the contexts and the other calls alone.
LEMMA ReaderFrame ==
    ASSUME Inv, NEW r \in Readers, UNCHANGED tree, TypeOK', Reading(r)',
           \A s \in Readers \ {r} :
              /\ at'[s] = at[s] /\ on'[s] = on[s] /\ got'[s] = got[s]
              /\ result'[s] = result[s] /\ late'[s] = late[s]
    PROVE  Inv'
  <1>1. Ends'
    BY DEF Inv, Ends, Exists, tree
  <1>2. \A s \in Readers \ {r} : Reading(s)'
    <2> SUFFICES ASSUME NEW s \in Readers \ {r} PROVE Reading(s)'
      OBVIOUS
    <2>1. Reading(s) /\ UNCHANGED <<err, cause>>
      BY DEF Inv, tree
    <2> QED  BY <2>1 DEF Reading
  <1> QED  BY <1>1, <1>2 DEF Inv

LEMMA ReaderStep ==
    ASSUME Inv, NEW r \in Readers,
           (\E n \in Ctxs : CallErr(r, n)) \/ readCause(r) \/ readErrAsCause(r)
               \/ readErr(r) \/ ErrUsed(r)
    PROVE  Inv'
  <1> USE DEF Inv
  <1>1. ASSUME NEW n \in Ctxs, CallErr(r, n) PROVE Inv'
    <2>1. TypeOK'
      BY <1>1, ErrorFacts DEF CallErr, TypeOK, tree
    <2>2. Reading(r)'
      BY <1>1 DEF CallErr, Reading, TypeOK, tree
    <2> QED  BY <1>1, <2>1, <2>2, ReaderFrame DEF CallErr, TypeOK
  <1>2. CASE readCause(r)
    <2>1. on[r] \in Ctxs /\ cause[on[r]] \in Errors
      BY <1>2 DEF readCause, Reading, TypeOK
    <2>2. TypeOK'
      BY <1>2, <2>1 DEF readCause, TypeOK, tree
    <2>3. Reading(r)'
      BY <1>2, <2>1 DEF readCause, Reading, TypeOK, tree, Ends
    <2> QED  BY <1>2, <2>2, <2>3, ReaderFrame DEF readCause, TypeOK
  <1>3. CASE readErrAsCause(r)
    <2>1. on[r] \in Ctxs /\ err[on[r]] \in Errors
      BY <1>3 DEF readErrAsCause, Reading, TypeOK
    <2>2. TypeOK'
      BY <1>3, <2>1 DEF readErrAsCause, TypeOK, tree
    <2>3. Reading(r)'
      BY <1>3, <2>1 DEF readErrAsCause, Reading, TypeOK, tree
    <2> QED  BY <1>3, <2>2, <2>3, ReaderFrame DEF readErrAsCause, TypeOK
  <1>4. CASE readErr(r)
    <2>1. /\ on[r] \in Ctxs /\ err[on[r]] \in Errors /\ got[r] \in Errors
          /\ at[r] = "err" /\ UNCHANGED <<tree, on, late>>
          /\ result' = [result EXCEPT ![r] = err[on[r]] \cup got[r]]
      BY <1>4, WrapIsUnion DEF readErr, Reading, TypeOK
    <2>2. TypeOK'
      <3>1. err[on[r]] \cup got[r] \in Errors /\ Nil \in Errors
        <4>1. \A c, e \in Errors : c \cup e \in Errors
          BY ErrorFacts, Zenon
        <4>2. err[on[r]] \in Errors /\ got[r] \in Errors
          BY <2>1
        <4>3. err[on[r]] \cup got[r] \in Errors
          BY <4>1, <4>2, Zenon
        <4>4. Nil \in Errors
          BY ErrorFacts, Zenon
        <4> QED  BY <4>3, <4>4, Zenon
      <3>2. result' \in [Readers -> Errors] /\ got' \in [Readers -> Errors]
        <4>1. /\ result \in [Readers -> Errors] /\ got \in [Readers -> Errors]
              /\ got' = [got EXCEPT ![r] = Nil]
          BY <1>4 DEF readErr, TypeOK
        <4>2. \A f \in [Readers -> Errors], e \in Errors : [f EXCEPT ![r] = e] \in [Readers -> Errors]
          OBVIOUS
        <4>3. result' \in [Readers -> Errors]
          BY <2>1, <3>1, <4>1, <4>2, Zenon
        <4> QED  BY <3>1, <4>1, <4>2, <4>3, Zenon
      <3> QED  BY <1>4, <2>1, <3>2 DEF readErr, TypeOK, tree
    <2>3. /\ at'[r] = "returned" /\ result'[r] = err[on[r]] \cup got[r]
          /\ on'[r] = on[r] /\ late'[r] = late[r] /\ err' = err /\ cause' = cause
      BY <1>4, <2>1 DEF readErr, TypeOK, tree
    <2>4. result'[r] # Nil => err[on[r]] # Nil /\ Is(result'[r], err[on[r]])
      BY <2>1, <2>3 DEF Reading, Is, Nil
    <2>5. late[r] => result'[r] = err[on[r]] \cup cause[on[r]] /\ err[on[r]] # Nil
      BY <2>1, <2>3 DEF Reading
    <2>6. Reading(r)'
      BY <2>1, <2>3, <2>4, <2>5 DEF Reading
    <2> QED  BY <1>4, <2>1, <2>2, <2>6, ReaderFrame DEF readErr, TypeOK
  <1>5. CASE ErrUsed(r)
    <2>1. TypeOK' /\ Reading(r)'
      BY <1>5 DEF ErrUsed, TypeOK, tree, Reading
    <2> QED  BY <1>5, <2>1, ReaderFrame DEF ErrUsed, TypeOK
  <1> QED  BY <1>1, <1>2, <1>3, <1>4, <1>5

LEMMA NextInv ==
    ASSUME Inv, [Next]_vars
    PROVE  Inv'
  <1> USE DEF Inv
  <1>0. Causes \subseteq Errors
    <2>1. \A r \in Readers : result[r] \in Errors
      BY DEF TypeOK
    <2> QED  BY <2>1, ErrorFacts DEF Causes
  <1>1. ASSUME NEW n \in Ctxs, NEW p \in Ctxs \cup {Background},
               WithCancelCause(n, p) \/ \E c \in Causes : WithDeadlineCause(n, p, c)
        PROVE  Inv'
    BY <1>0, <1>1, DeriveStep, ErrorFacts DEF WithCancelCause, WithDeadlineCause
  <1>2. ASSUME NEW n \in Ctxs, NEW c \in Causes \cup {Nil}, Cancel(n, c) PROVE Inv'
    BY <1>0, <1>2, EndStep, ErrorFacts DEF Cancel
  <1>3. ASSUME NEW n \in Ctxs, Expire(n) PROVE Inv'
    BY <1>3, EndStep, ErrorFacts DEF Expire, TypeOK
  <1>4. ASSUME NEW n \in Ctxs, Propagate(n) PROVE Inv'
    BY <1>4, EndStep DEF Propagate, TypeOK, Ends
  <1>5. CASE UNCHANGED vars
    BY <1>5 DEF vars, tree, readers, TypeOK, Ends, Reading, Exists
  <1> QED  BY <1>1, <1>2, <1>3, <1>4, <1>5, ReaderStep DEF Next

LEMMA AlwaysInv == Spec => []Inv
  BY InitInv, NextInv, PTL DEF Spec

\* Errors, causes and results stay within what the library and the callers put
\* in: no call makes up an error.
THEOREM TypeCorrect == Spec => []TypeOK
  BY AlwaysInv, PTL DEF Inv

\* Whatever Err() raced, errors.Is() finds context.Canceled or
\* context.DeadlineExceeded in an error it returned, and the very error that
\* the context ended with.
THEOREM ErrorsIsWorks == Spec => []BuiltInErrorsFound
  <1>1. Inv => BuiltInErrorsFound
    <2> SUFFICES ASSUME Inv, NEW r \in Readers, at[r] = "returned", result[r] # Nil
                 PROVE  BuiltIn(result[r]) /\ Is(result[r], err[on[r]])
      BY DEF BuiltInErrorsFound, Returned, BuiltIn
    <2>1. on[r] \in Ctxs /\ err[on[r]] # Nil /\ Is(result[r], err[on[r]])
      BY DEF Inv, Reading
    <2>2. BuiltIn(err[on[r]])
      BY <2>1 DEF Inv, Ends
    <2>3. err[on[r]] \subseteq result[r]
      BY <2>1 DEF Is
    <2> QED  BY <2>1, <2>2, <2>3 DEF BuiltIn, Is, Canceled, DeadlineExceeded, Nil
  <1> QED  BY <1>1, AlwaysInv, PTL

\* A context that had ended when Err() was called tells its error and its
\* cause, whatever else ends meanwhile.
THEOREM LateCallsTellAll == Spec => []EndedTellsAll
  <1>1. Inv => EndedTellsAll
    BY DEF Inv, Reading, EndedTellsAll, Returned, Nil
  <1> QED  BY <1>1, AlwaysInv, PTL
=============================================================================
