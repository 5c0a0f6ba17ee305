---------------------------- MODULE MCIndexSpec ----------------------------
\* Specifications of one index, each another in one option or two: keys that
\* may be legacy, out of range, in halves or in another order, options of every
\* type that is stored for them, and filters with a NaN and zeros of both signs.
EXTENDS IndexSpec

I(n)  == Scalar("int32", <<n>>)
L(n)  == Scalar("int64", <<n, 0>>)
F(h)  == Scalar("float64", <<h, 0>>)
Minus0 == Scalar("float64", NegativeZero)
NotANumber == Scalar("float64", NaN)
Text(t) == Scalar("string", t)
Decimal(n, exponent) == Scalar("Decimal128", <<n, 0, 0, exponent>>)
D(d)  == Nested("D", d)

\* Names that are not options'.
Field == [a |-> 11, b |-> 12, x |-> 13, gt |-> 14, lt |-> 15, name |-> 16]

Key(a, b) == E(Name.key, D(<<E(Field.a, a), E(Field.b, b)>>))
Low == -MaxInt32 - 2

Keys ==
    {Key(F(2), v) : v \in {I(1), L(-1), F(-2), F(3), I(2), F(4), I(0), L(0), F(0), Minus0,
                           Decimal(0, 0), Decimal(0, -2), Decimal(0, NotFinite), Decimal(1, 0),
                           Text(<< >>), Text(<<7>>), Scalar("nil", << >>), D(<<E(Field.x, I(1))>>)}}
    \cup {E(Name.key, D(<<E(Field.b, I(1)), E(Field.a, L(1))>>)), E(Name.key, D(<<E(Field.a, L(1)), E(Field.b, F(2))>>)),
          E(Name.key, I(1))}
    \cup {Key(I(1), v) : v \in {L(MaxInt32 + 1), F(2 * Low), NotANumber}}

\* With any key, and version, in the order that servers report them.
Versions == {<<E(Name.v, I(n)), key>> : n \in {1, 2}, key \in Keys}

Plain == Key(I(1), I(1))

Options ==
    {<<E(Name.expireAfterSeconds, v)>> :
        v \in {I(1), L(1), F(3), F(-1), F(-3), I(-1), L(MaxInt32), L(MaxInt32 + 1), F(2 * MaxInt32 + 1),
               L(Low), NotANumber, Text(<<7>>)}}
    \cup {<<E(Name.bits, v)>> : v \in {I(33), L(33), F(65), F(64), L(32), I(0)}}
    \cup {<<E(Name.sparse, v)>> :
            v \in {I(0), L(1), Minus0, NotANumber, Text(<<7>>)} \cup {Scalar("bool", <<b>>) : b \in {0, 1}}}
    \cup {<<E(Name.ns, Text(<<7>>))>>, <<E(Name.background, I(1))>>,
          <<E(Name.ns, Text(<<7, 8>>)), E(Name.bits, F(64))>>,
          <<E(Field.name, Text(<<7>>)), E(Name.sparse, F(1))>>, <<E(Name.sparse, F(2)), E(Field.name, Text(<<7>>))>>}
    \cup {<<E(Name.partialFilterExpression, D(<<E(Field.x, D(q))>>))>> :
            q \in {<<E(Field.gt, I(1)), E(Field.lt, I(2))>>, <<E(Field.lt, I(2)), E(Field.gt, I(1))>>, <<E(Field.gt, L(1))>>,
                  <<E(Field.gt, F(0))>>, <<E(Field.gt, Minus0)>>, <<E(Field.gt, NotANumber)>>}}

MCSpecs ==
    Versions
    \cup {<<E(Name.v, L(2))>> \o o \o <<Plain>> : o \in Options}
    \cup {<<Plain>>, <<E(Name.v, F(4)), Plain>>, <<E(Name.v, I(3)), Plain>>, <<E(Name.v, I(2))>>,
          <<E(Name.v, I(1))>>, <<Plain, E(Name.background, I(1)), E(Name.v, L(1))>>}

MCStored == {MarshalD(<< >>, s) : s \in MCSpecs}
=============================================================================
