----------------------------- MODULE IndexSpec -----------------------------
(***************************************************************************)
(* DescribeSpecDifferences (mongotools/index: compare.go and bson.go): are *)
(* two index specifications different, when what a server stores of an     *)
(* index differs from what it makes of it?                                 *)
(*                                                                         *)
(* Both are prepared (IndexPrepare) and compared.                          *)
(***************************************************************************)
EXTENDS Bson, IndexPrepare

CONSTANT Specs   \* bson.Ds, no name twice in any document within

ASSUME SpecsAssumption == Stored = {MarshalD(<< >>, s) : s \in Specs}

VARIABLE given   \* the caller's two specifications, as they were marshalled

vars == <<given, prepareVars>>

optsWhereOrderMatters == <<Name.key, Name.partialFilterExpression>>

-----------------------------------------------------------------------------
RECURSIVE AsMap(_), FloatWithin(_, _)

\* A map[string]any, as DeepEqual sees it: -0.0 is 0.
AsMap(d) ==
    {<<e.key, e.go, IF e.go = "float64" /\ IsZero(e.items) THEN <<0, 0>> ELSE e.items, AsMap(e.sub)>> :
        e \in Range(d)}

FloatWithin(d, float) ==
    \E e \in Range(d) : (e.go = "float64" /\ e.items = float) \/ FloatWithin(e.sub, float)

equalIgnoringOrder(a, b) ==
    /\ AsMap(UnmarshalToD(a).d) = AsMap(UnmarshalToD(b).d)
    /\ ~FloatWithin(UnmarshalToD(a).d, NaN)

\* RawValue.Equal compares types and bytes.
getOrderDifferOpts(a, b) ==
    LET Differs(opt) ==
            /\ HasOption(a, opt) /\ HasOption(b, opt)
            /\ OptionValue(a, opt) # OptionValue(b, opt)
    IN SelectSeq(optsWhereOrderMatters, Differs)

Difference(a, b) ==
    IF equalIgnoringOrder(a, b) THEN [is |-> "order", of |-> getOrderDifferOpts(a, b)]
                                ELSE [is |-> "patch", of |-> << >>]

-----------------------------------------------------------------------------
Init ==
    /\ given \in [Sides -> Specs]
    /\ spec = [s \in Sides |-> MarshalD(<< >>, given[s])]
    /\ PrepareInit

Compare ==
    /\ pc = "keyEls" /\ keyEls = {} /\ side = "B"
    /\ result' = Difference(spec["A"], spec["B"])
    /\ pc' = "done"
    /\ UNCHANGED <<given, spec, side, ignore, keyEls>>

Next == (Prepare /\ UNCHANGED given) \/ Compare

Spec == Init /\ [][Next]_vars

-----------------------------------------------------------------------------
\* What the package's comments say of a stored specification, told of its
\* options and not of its words.
Has(d, name)    == \E e \in Range(d) : e.key = name
Option(d, name) == CHOOSE e \in Range(d) : e.key = name
Numeric(e)      == e.go \in {"int32", "int64", "float64"}
Halves(e)       == IF e.go = "float64" THEN e.items ELSE <<2 * e.items[1], 0>>
Number(n)       == <<"int32", <<n>>, << >>>>

Legacy(d) == Option(d, Name.v).items[1] = 1
KeyOf(d)  == Option(d, Name.key).sub
Filter(d) == IF Has(d, Name.partialFilterExpression) THEN Option(d, Name.partialFilterExpression).sub ELSE << >>

\* "converts a pre-v2 index key value to 1 if the value is 0, the empty string,
\* or a non-numerical/string value" (legacy.go:26-27)
Converted(e) ==
    \/ Numeric(e) /\ IsZero(Halves(e))
    \/ e.go = "Decimal128" /\ e.items[4] # NotFinite /\ \A i \in 1..3 : e.items[i] = 0
    \/ e.go = "string" /\ e.items = << >>
    \/ ~Numeric(e) /\ e.go \notin {"Decimal128", "string"}

\* The value of a field of a key.  An int32, an int64 and a float64 are one value if they are equal.
KeyValue(e, legacy) ==
    IF legacy /\ Converted(e) THEN Number(1)
    ELSE IF Numeric(e) /\ Exact(Halves(e)) THEN Number(Halves(e)[1] \div 2)
    ELSE <<e.go, e.items, e.sub>>

\* "The server treats the following index key values as ascending (1): 1)
\* non-negative numbers 2) non-numerical values 3) empty strings"; "negative
\* numerical index key values as descending (-1)" (legacy.go:18-22).  No
\* Decimal128 here is negative.
Direction(e) ==
    CASE Numeric(e) -> Number(IF Halves(e)[1] < 0 THEN -1 ELSE 1)
      [] e.go = "string" /\ e.items # << >> -> <<e.go, e.items, e.sub>>
      [] OTHER -> Number(1)

KeyByValue(d)     == {<<e.key, KeyValue(e, Legacy(d))>> : e \in Range(KeyOf(d))}
KeyByDirection(d) == {<<e.key, Direction(e)>> : e \in Range(KeyOf(d))}

-----------------------------------------------------------------------------
\* A TTL "must be within 0 and math.MaxInt32" (compare.go:336), bits "can only
\* take values of 1 to 32 inclusive" (compare.go:349).
Within(e, low, high) ==
    /\ Numeric(e)
    /\ Halves(e) # NaN
    /\ 2 * low <= Halves(e)[1] /\ Halves(e)[1] <= 2 * high

\* The upper bound is all that is measured, and not of an int32: the code goes
\* on with a TTL of -1 and 33 bits, against those comments.
Unmeasured(e, high) ==
    /\ Numeric(e)
    /\ InInt32(Halves(e))
    /\ e.go = "int32" \/ Halves(e)[1] <= 2 * high

\* A version and a key that can be read, of values that are numbers where they must.
WellFormed(d) ==
    /\ Has(d, Name.v) /\ Option(d, Name.v).go \in {"int32", "int64"} /\ Option(d, Name.v).items[1] \in {1, 2}
    /\ Has(d, Name.key) /\ Option(d, Name.key).go = "D"
    /\ \A e \in Range(KeyOf(d)) :
          Numeric(e) /\ ~(Legacy(d) /\ Converted(e)) => InInt32(Halves(e))
    /\ Has(d, Name.sparse) => Numeric(Option(d, Name.sparse)) \/ Option(d, Name.sparse).go = "bool"

TTL(d)  == {e \in Range(d) : e.key = Name.expireAfterSeconds}
Bits(d) == {e \in Range(d) : e.key = Name.bits}

Acceptable(d) ==
    /\ WellFormed(d)
    /\ \A e \in TTL(d)  : Within(e, 0, MaxInt32)
    /\ \A e \in Bits(d) : Within(e, 1, 32)

LetThrough(d) ==
    /\ WellFormed(d)
    /\ \A e \in TTL(d)  : Within(e, 0, MaxInt32) \/ Unmeasured(e, MaxInt32)
    /\ \A e \in Bits(d) : Within(e, 1, 32) \/ Unmeasured(e, 32)

-----------------------------------------------------------------------------
RECURSIVE Unordered(_), Order(_)

Unordered(d) ==
    {<<e.key, e.go, IF e.go = "float64" /\ IsZero(e.items) THEN <<0, 0>> ELSE e.items, Unordered(e.sub)>> :
        e \in Range(d)}

Order(d) == [i \in DOMAIN d |-> <<d[i].key, Order(d[i].sub)>>]

\* "Converts the stored/internal index properties to their active equivalents"
\* (compare.go:307): the options other than the key, but for the order of their fields.
OptionsInEffect(d) ==
    LET Uses(e) ==
            CASE e.key \in {Name.expireAfterSeconds, Name.bits} -> <<e.key, Number(Truncated(Halves(e)))>>
              [] e.key = Name.sparse -> <<e.key, IF Numeric(e) THEN ~IsZero(Halves(e)) ELSE e.items[1] = 1>>
              [] OTHER -> <<e.key, <<e.go, e.items, Unordered(e.sub)>>>>
    IN {Uses(e) : e \in {o \in Range(d) : o.key \notin {Name.key, Name.v, Name.ns, Name.background}}}

\* The options whose fields are in another order.
Moved(a, b) ==
    {name \in {Name.key, Name.partialFilterExpression} :
        IF name = Name.key
        THEN [i \in DOMAIN KeyOf(a) |-> KeyOf(a)[i].key] # [i \in DOMAIN KeyOf(b) |-> KeyOf(b)[i].key]
        ELSE Order(Filter(a)) # Order(Filter(b))}

\* A specification that cannot be used is not compared, and of two that are said
\* to be the same but for the order of some fields all that is in effect is the
\* same: every option, the order of whatever is not named, and the directions of
\* a legacy key.  The one exception, LetThrough, is against compare.go:336-349.
DifferencesTold ==
    LET a == given["A"]
        b == given["B"]
    IN /\ pc = "done" /\ result.is # "error" => LetThrough(a) /\ LetThrough(b)
       /\ pc = "done" /\ result.is = "order" =>
             /\ OptionsInEffect(a) = OptionsInEffect(b)
             /\ IF Legacy(a) \/ Legacy(b) THEN KeyByDirection(a) = KeyByDirection(b)
                                          ELSE KeyByValue(a) = KeyByValue(b)
             /\ Moved(a, b) \subseteq Range(result.of)

\* Conversely: an error is about a specification that cannot be used, and a
\* difference one between what is in effect, not between the types, the place
\* or the version that it was stored with (compare.go:78-170).  Keys are told
\* apart by their values: 1.5 and 1 may be in a legacy one, where only what
\* Converted names is made 1, although the server takes both for ascending.  Two
\* exceptions: a NaN in a filter "will never match" (bson.go:12), and for a zero
\* and a negative zero there see OrderAlone.
VerdictJustified ==
    LET a == given["A"]
        b == given["B"]
    IN pc = "done" =>
        \/ result.is = "error" /\ ~(Acceptable(a) /\ Acceptable(b))
        \/ /\ result.is = "patch"
           /\ \/ OptionsInEffect(a) # OptionsInEffect(b)
              \/ KeyByValue(a) # KeyByValue(b)
              \/ FloatWithin(Filter(a), NaN)
        \/ /\ result.is = "order"
           /\ Range(result.of) \subseteq
                 Moved(a, b) \cup {name \in {Name.partialFilterExpression} :
                                      \E f \in {Filter(a), Filter(b)} : FloatWithin(f, NegativeZero)}

\* "FieldOrderDiffers gives all options whose values differ by field order
\* alone" (compare.go:49-50).
OrderAlone ==
    pc = "done" /\ result.is = "order" =>
        Range(result.of) \subseteq Moved(given["A"], given["B"])
=============================================================================
