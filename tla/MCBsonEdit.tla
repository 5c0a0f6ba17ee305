----------------------------- MODULE MCBsonEdit -----------------------------
\* Three documents up to three levels deep, with a key twice and out of order,
\* and for each Go type that bsontools writes a document that holds a value of it.
EXTENDS BsonEdit

I(n) == Scalar("int32", <<n>>)
Nil == Scalar("nil", << >>)
D(d) == Nested("D", d)
A(vs) == Nested("A", [i \in DOMAIN vs |-> E(i - 1, vs[i])])

Scalars ==
    {Scalar(go, <<7>>) : go \in {"bool", "int32", "string", "JavaScript", "Symbol", "CodeWithScope"}}
    \cup {Scalar(go, <<7, 0>>) : go \in {"float64", "int64", "DateTime", "Time", "Timestamp", "Binary"}}
    \cup {Scalar(go, << >>) : go \in {"nil", "Null", "Undefined", "MinKey", "MaxKey"}}
    \cup {Scalar("ObjectID", <<7, 0, 8>>), Scalar("Decimal128", <<7, 0, 8, 0>>),
          Scalar("DBPointer", <<7, 8, 0, 9>>), Scalar("Regex", <<7, 9, 8>>),
          Scalar("int", <<7>>), Scalar("int", <<MaxInt32 + 1>>)}

Docs ==
    {<<E(2, D(<<E(2, I(5)), E(1, Nil)>>)), E(1, I(6)), E(1, Nil)>>,
     <<E(2, A(<<Nil>>)), E(2, D(<<E(2, Nil), E(1, I(5))>>))>>,
     <<E(1, A(<<Nil, D(<<E(2, Nil), E(0, Nil)>>)>>)), E(1, I(6)), E(0, Nil)>>}
    \cup {<<E(1, A(<<v>>))>> : v \in Scalars}

MCBuffers == {MarshalD(<< >>, d) : d \in Docs}

MCValues == {Nil, Scalar("int", <<9>>), D(<<E(1, Nil)>>), A(<<I(9)>>)}

MCNewValues == {RawValueOf(v) : v \in MCValues}

MCPointers == UNION {[1..n -> {0, 1, 2}] : n \in 1..3}

MCTargets == {"int", "int64", "nil", "A"}
=============================================================================
