---------------------------- MODULE IndexPrepare ----------------------------
(***************************************************************************)
(* Two index specifications, prepared for a comparison one after the       *)
(* other: prepareIndexSpecForEqualityCheck (mongotools/index: compare.go   *)
(* and legacy.go).                                                         *)
(*                                                                         *)
(* Both are edited where they lie, in copies of the caller's: a legacy key *)
(* is modernized, numbers get the type the server uses them as, some       *)
(* options are dropped.  The elements of the key are parsed before the     *)
(* first of them is replaced.                                              *)
(*                                                                         *)
(* A float64 is counted in halves, with a second word that tells -0.0 and  *)
(* NaN from the other values.  Of the words of a Decimal128 the last is    *)
(* its exponent, or marks a NaN or an infinity; the others are its digits. *)
(***************************************************************************)
EXTENDS BsonReplace

CONSTANT Stored   \* specifications, as they are stored: documents

VARIABLES spec,    \* the copies that are prepared
          side,    \* which one
          pc,      \* the step that is next
          ignore,  \* options still to be removed
          keyEls,  \* where the elements of the key are that are still to be normalized
          result

prepareVars == <<spec, side, pc, ignore, keyEls, result>>

-----------------------------------------------------------------------------
\* The names of options, as words.
Name == [key |-> 1, v |-> 2, partialFilterExpression |-> 3, expireAfterSeconds |-> 4,
         bits |-> 5, sparse |-> 6, ns |-> 7, background |-> 8]

optsToIgnore == {Name.v, Name.ns, Name.background}

\* bson.Raw.LookupErr: the first element of each name counts.
HasOption(s, name)   == Match(s, name) # s[1]
OptionValue(s, name) == ValueAt(s, Match(s, name))

\* RawLookup[bson.Raw] finds the key.
HasKey(s) == HasOption(s, Name.key) /\ OptionValue(s, Name.key).type = 3

\* bson.RawValue.AsFloat64; the second word of a float64 tells it from -0.0 and NaN.
Float(rv)     == IF rv.type = 1 THEN rv.words ELSE <<2 * rv.words[1], 0>>
NegativeZero  == <<0, 1>>
NaN           == <<0, 2>>
NotFinite     == 1
IsZero(float) == float \in {<<0, 0>>, NegativeZero}
Exact(float)  == float # NaN /\ float[1] % 2 = 0

\* safecast.Convert[int32]: fractions are cut off.
Truncated(float) == IF float[1] < 0 THEN -(-float[1] \div 2) ELSE float[1] \div 2
InInt32(float)   == float # NaN /\ Truncated(float) \in -MaxInt32 - 1..MaxInt32

Int32(n) == [type |-> 16, words |-> <<n>>]
Bool(b)  == [type |-> 8, words |-> <<IF b THEN 1 ELSE 0>>]

\* What a step comes to: a specification, an error that it returns, or a panic.
Prepared(s) == [is |-> "prepared", spec |-> s]
Refused     == [is |-> "error", spec |-> << >>]
Panicked    == [is |-> "panic", spec |-> << >>]

\* An error of the edit is returned.  lo.Assert panics if there is none and no
\* such element either: it was there when its value was read.
Replaced(s, rv, pointer) ==
    LET e == replaceOrRemoveInRaw(s, rv, pointer)
    IN CASE e.res.is = "found"  -> Prepared(e.raw)
         [] e.res.is = "absent" -> Panicked
         [] OTHER               -> Refused

\* Of an option, lo.Assert comes before the error.
OptionReplaced(s, rv, name) ==
    LET e == replaceOrRemoveInRaw(s, rv, <<name>>)
    IN IF e.res.is = "found" THEN Prepared(e.raw) ELSE Panicked

Removed(s, name) ==
    LET e == replaceOrRemoveInRaw(s, Nothing, <<name>>)
    IN IF e.res.is = "invalid" THEN Refused ELSE Prepared(e.raw)

-----------------------------------------------------------------------------
\* Mutant: a decimal zero is looked for by its bytes, and 0.00 is not found.
shouldModernizeZeroBytes(rv) ==
    CASE rv.type \in {1, 16, 18} -> IsZero(Float(rv))
      [] rv.type = 19            -> rv.words = <<0, 0, 0, 0>>
      [] rv.type = 2             -> Items(2, rv.words) = << >>
      [] OTHER                   -> TRUE

\* Decimal128.BigInt gives the digits without the exponent, or an error.
shouldModernizeValue(rv) ==
    CASE rv.type \in {1, 16, 18} -> IsZero(Float(rv))
      [] rv.type = 19            -> rv.words[4] # NotFinite /\ \A i \in 1..3 : rv.words[i] = 0
      [] rv.type = 2             -> Items(2, rv.words) = << >>
      [] OTHER                   -> TRUE

modernizedEl(keySpec, pos) ==
    LET rv  == ValueAt(keySpec, pos)
        new == IF shouldModernizeValue(rv) THEN Int32(1) ELSE rv
    IN <<new.type, keySpec[pos + 1]>> \o new.words

\* The words of the first n elements of the key, with other values.
modernizedEls(keySpec) ==
    LET words[n \in 0..Len(keySpec) \div 2] ==
            IF n = 0 THEN << >>
            ELSE IF Loop(keySpec, {})[n - 1] = Len(keySpec) THEN words[n - 1]
            ELSE words[n - 1] \o modernizedEl(keySpec, Loop(keySpec, {})[n - 1])
    IN words

getModernizedKeySpec(keySpec) ==
    LET els == modernizedEls(keySpec)[Len(keySpec) \div 2]
    IN <<Len(els) + 2>> \o els \o <<0>>

ModernizeSpec(s) ==
    LET v       == OptionValue(s, Name.v)
        keySpec == OptionValue(s, Name.key).words
    IN IF \/ ~HasOption(s, Name.v)
          \/ v.type \notin {16, 18}
          \/ v.words[1] \notin {1, 2} THEN Refused
       ELSE IF v.words[1] = 2        THEN Prepared(s)
       ELSE IF ~HasKey(s)            THEN Refused
       ELSE Replaced(s, [type |-> 3, words |-> getModernizedKeySpec(keySpec)], <<Name.key>>)

\* Only the upper bound is checked, and not for an int32.
convertToInt32(s, keyName, maxBound) ==
    LET val == OptionValue(s, keyName)
    IN IF ~HasOption(s, keyName) \/ val.type = 16 THEN Prepared(s)
       ELSE IF \/ val.type \notin {1, 18}
               \/ Float(val)[1] > 2 * maxBound
               \/ ~InInt32(Float(val)) THEN Refused
       ELSE OptionReplaced(s, Int32(Truncated(Float(val))), keyName)

convertSparseSpecToBool(s) ==
    LET val == OptionValue(s, Name.sparse)
    IN IF ~HasOption(s, Name.sparse) \/ val.type = 8 THEN Prepared(s)
       ELSE IF val.type \notin {1, 16, 18} THEN Refused
       ELSE OptionReplaced(s, Bool(~IsZero(Float(val))), Name.sparse)

-----------------------------------------------------------------------------
\* Where the elements of the key are in the specification.
KeyPlaces(s) ==
    LET doc == OptionValue(s, Name.key).words
    IN {Match(s, Name.key) + 1 + p : p \in Places(doc) \ {Len(doc)}}

\* Mutant: the first one first.
firstKeyEl(places) == Min(places)

\* The elements are slices of the buffer; their order is reversed.
nextKeyEl(places) == Max(places)

\* Mutant: of a number that is not whole the fraction is cut off.
normalizeTruncatedKeyEl(s, pos) ==
    LET rv == ValueAt(s, pos)
    IN IF rv.type \notin {1, 18}   THEN Prepared(s)
       ELSE IF ~InInt32(Float(rv)) THEN Refused
       ELSE Replaced(s, Int32(Truncated(Float(rv))), <<Name.key, s[pos + 1]>>)

\* What lies where the element was parsed; a number that is not whole is left.
normalizeKeyEl(s, pos) ==
    LET rv == ValueAt(s, pos)
    IN IF rv.type \notin {1, 18}     THEN Prepared(s)
       ELSE IF ~InInt32(Float(rv))   THEN Refused
       ELSE IF ~Exact(Float(rv))     THEN Prepared(s)
       ELSE Replaced(s, Int32(Truncated(Float(rv))), <<Name.key, s[pos + 1]>>)

-----------------------------------------------------------------------------
Sides == {"A", "B"}

Outcome(is) == [is |-> is, of |-> << >>]

\* slices.Clone of both: the caller's are not touched from here on.
PrepareInit ==
    /\ spec \in [Sides -> Stored]
    /\ side = "A" /\ pc = "modernize"
    /\ ignore = optsToIgnore
    /\ keyEls = {}
    /\ result = Outcome("none")

\* A step goes on with its specification, or its error is returned.
Take(r, next) ==
    IF r.is = "prepared"
    THEN /\ spec' = [spec EXCEPT ![side] = r.spec]
         /\ pc' = next
         /\ UNCHANGED <<side, result>>
    ELSE /\ pc' = "done" /\ result' = Outcome(r.is)
         /\ UNCHANGED <<spec, side>>

Modernize ==
    /\ pc = "modernize"
    /\ Take(ModernizeSpec(spec[side]), "ttl")
    /\ UNCHANGED <<ignore, keyEls>>

NormalizeTypes ==
    /\ \/ pc = "ttl"    /\ Take(convertToInt32(spec[side], Name.expireAfterSeconds, MaxInt32), "bits")
       \/ pc = "bits"   /\ Take(convertToInt32(spec[side], Name.bits, 32), "sparse")
       \/ pc = "sparse" /\ Take(convertSparseSpecToBool(spec[side]), "ignore")
    /\ UNCHANGED <<ignore, keyEls>>

\* The set is iterated in any order.
RemoveIgnored(field) ==
    /\ pc = "ignore" /\ field \in ignore
    /\ ignore' = ignore \ {field}
    /\ Take(Removed(spec[side], field), IF ignore' = {} THEN "key" ELSE "ignore")
    /\ UNCHANGED keyEls

ParseKey ==
    /\ pc = "key"
    /\ IF HasKey(spec[side])
       THEN /\ keyEls' = KeyPlaces(spec[side])
            /\ Take(Prepared(spec[side]), "keyEls")
       ELSE /\ Take(Refused, "done")
            /\ UNCHANGED keyEls
    /\ UNCHANGED ignore

NormalizeKeyEl ==
    /\ pc = "keyEls" /\ keyEls # {}
    /\ keyEls' = keyEls \ {nextKeyEl(keyEls)}
    /\ Take(normalizeKeyEl(spec[side], nextKeyEl(keyEls)), "keyEls")
    /\ UNCHANGED ignore

SpecBNext ==
    /\ pc = "keyEls" /\ keyEls = {} /\ side = "A"
    /\ side' = "B" /\ pc' = "modernize"
    /\ ignore' = optsToIgnore
    /\ UNCHANGED <<spec, keyEls, result>>

Prepare ==
    \/ Modernize \/ NormalizeTypes
    \/ \E field \in optsToIgnore : RemoveIgnored(field)
    \/ ParseKey \/ NormalizeKeyEl
    \/ SpecBNext

PrepareSpec == PrepareInit /\ [][Prepare]_prepareVars

-----------------------------------------------------------------------------
\* No two elements of a document have a name; the server allows no other key.
NamesDiffer(doc) ==
    \A p, q \in Places(doc) \ {Len(doc)} : doc[p + 1] = doc[q + 1] => p = q

KeyNamesDiffer(s) == HasKey(s) => NamesDiffer(OptionValue(s, Name.key).words)

ASSUME StoredAssumption ==
    \A s \in Stored : s \in Seq(Int) /\ Readable(s) /\ KeyNamesDiffer(s)

\* The elements of the key that were parsed before the replacements, and are
\* used after them, are elements of the key still (compare.go:183-192), and no
\* assertion fails that an element is found again.
KeyElsInPlace ==
    /\ pc = "keyEls" => keyEls \subseteq KeyPlaces(spec[side])
    /\ result # Outcome("panic")
=============================================================================
