-------------------------------- MODULE Bson --------------------------------
(***************************************************************************)
(* BSON documents as bsontools reads and writes them: marshal.go,          *)
(* unmarshal.go, raw.go and raw_value.go.                                  *)
(*                                                                         *)
(* A bson.D is a sequence of [key, go, items, sub]: the name of the Go     *)
(* type of the value, its contents, and the elements within if it is a D   *)
(* or an A.                                                                *)
(***************************************************************************)
EXTENDS BsonWords, SequencesExt

Scalar(go, items) == [go |-> go, items |-> items, sub |-> << >>]
Nested(go, sub)   == [go |-> go, items |-> << >>, sub |-> sub]
E(key, v) == [key |-> key, go |-> v.go, items |-> v.items, sub |-> v.sub]

\* The type that is written for a value of each Go type.
TypeOf == [float64 |-> 1, string |-> 2, D |-> 3, A |-> 4, Binary |-> 5, Undefined |-> 6,
           ObjectID |-> 7, bool |-> 8, DateTime |-> 9, Time |-> 9, nil |-> 10, Null |-> 10,
           Regex |-> 11, DBPointer |-> 12, JavaScript |-> 13, Symbol |-> 14,
           CodeWithScope |-> 15, int32 |-> 16, Timestamp |-> 17, int64 |-> 18,
           Decimal128 |-> 19, MaxKey |-> 127, MinKey |-> 255]

\* The Go type that each type is read as.
GoTypeOf == 1 :> "float64" @@ 2 :> "string" @@ 3 :> "D" @@ 4 :> "A" @@ 5 :> "Binary"
            @@ 6 :> "Undefined" @@ 7 :> "ObjectID" @@ 8 :> "bool" @@ 9 :> "DateTime"
            @@ 10 :> "nil" @@ 11 :> "Regex" @@ 12 :> "DBPointer" @@ 13 :> "JavaScript"
            @@ 14 :> "Symbol" @@ 15 :> "CodeWithScope" @@ 16 :> "int32"
            @@ 17 :> "Timestamp" @@ 18 :> "int64" @@ 19 :> "Decimal128"
            @@ 127 :> "MaxKey" @@ 255 :> "MinKey"

-----------------------------------------------------------------------------
RECURSIVE MarshalD(_, _)

\* The raw value of a scalar; the driver chooses the width of an int.
ToRawValue(v) ==
    CASE v.go = "Regex" ->
           [type |-> 11, words |-> Words(11, <<v.items[1]>> \o SortSeq(Tail(v.items), <))]
      [] v.go = "int" -> IF v.items[1] \in -MaxInt32 - 1..MaxInt32
                         THEN [type |-> 16, words |-> v.items]
                         ELSE [type |-> 18, words |-> v.items \o <<0>>]
      [] OTHER -> [type |-> TypeOf[v.go], words |-> Words(TypeOf[v.go], v.items)]

\* The elements of a bson.A have the numbers of their places for keys.
Numbered(d) == [i \in DOMAIN d |-> [d[i] EXCEPT !.key = i - 1]]

\* MarshalD and MarshalA within the buffer, or a scalar behind it.  An int is
\* the one value here that takes the default branch, bson.MarshalValue; what the
\* driver refuses to marshal, and the error that is then returned, is left out.
marshalEl(buf, e) ==
    IF e.go \in {"D", "A"}
    THEN MarshalD(buf \o <<TypeOf[e.go], e.key>>, IF e.go = "A" THEN Numbered(e.sub) ELSE e.sub)
    ELSE buf \o <<ToRawValue(e).type, e.key>> \o ToRawValue(e).words

MarshalD(buf, d) ==
    LET new == Append(FoldLeft(marshalEl, Append(buf, 0), d), 0)
    IN [new EXCEPT ![Len(buf) + 1] = Len(new) - Len(buf)]

-----------------------------------------------------------------------------
RECURSIVE rawElementsLoop(_, _), UnmarshalToD(_)

\* The places of the elements from pos on; zero where one cannot be read.
\* ReadElement measures the value; Validate measures what it cut out once more,
\* by the same rule, and so has no error of its own.
rawElementsLoop(doc, pos) ==
    IF pos >= Len(doc) THEN << >>
    ELSE IF pos + ElementSize(doc, pos) > Len(doc) THEN <<0>>
    ELSE <<pos>> \o rawElementsLoop(doc, pos + ElementSize(doc, pos))

\* Mutant: what is declared is not compared with what is there.
RawElementsUnmeasured(doc) ==
    IF doc = << >> THEN << >>
    ELSE IF doc[1] < 2 \/ Last(doc) # 0 THEN <<0>>
    ELSE rawElementsLoop(doc, 2)

RawElements(doc) ==
    IF doc = << >> THEN << >>
    ELSE IF doc[1] < 2 \/ doc[1] # Len(doc) \/ Last(doc) # 0 THEN <<0>>
    ELSE rawElementsLoop(doc, 2)

CountRawElements(doc) == IF 0 \in Range(RawElements(doc)) THEN -1 ELSE Len(RawElements(doc))

unmarshalValue(rv) ==
    IF Container(rv.type)
    THEN LET r == UnmarshalToD(rv.words)
         IN [ok |-> r.ok,
             value |-> Nested(GoTypeOf[rv.type], IF rv.type = 4 THEN Numbered(r.d) ELSE r.d)]
    ELSE [ok |-> TRUE, value |-> Scalar(GoTypeOf[rv.type], Items(rv.type, rv.words))]

\* UnmarshalToD, and UnmarshalArray, whose caller drops the keys.
UnmarshalToD(raw) ==
    LET els    == RawElements(raw)
        values == [i \in DOMAIN els |-> unmarshalValue(ValueAt(raw, els[i]))]
    IN IF CountRawElements(raw) < 0 \/ \E i \in DOMAIN els : ~values[i].ok
       THEN [ok |-> FALSE, d |-> << >>]
       ELSE [ok |-> TRUE, d |-> [i \in DOMAIN els |-> E(raw[els[i] + 1], values[i].value)]]

-----------------------------------------------------------------------------
RECURSIVE LookupErr(_, _, _)

Wrong == [is |-> "cannotCast"]
Got(v) == [is |-> "value", v |-> v]

\* bson.Raw.LookupErr: the first element of each name counts.
LookupErr(doc, pointer, pos) ==
    IF pos >= doc[1] THEN Absent
    ELSE IF doc[pos + 1] # pointer[1] THEN LookupErr(doc, pointer, pos + ElementSize(doc, pos))
    ELSE IF Len(pointer) = 1 THEN Got(ValueAt(doc, pos))
    ELSE IF ~Container(doc[pos]) THEN TooDeep(1)
    ELSE LET r == LookupErr(ValueAt(doc, pos).words, Tail(pointer), 2)
         IN IF r.is = "tooDeep" THEN TooDeep(r.at + 1) ELSE r

\* Mutant: any number is taken for any other.
RawValueToNumber(T, rv) ==
    IF \/ T = GoTypeOf[rv.type]
       \/ T \in {"int", "int32", "int64"} /\ rv.type \in {16, 18}
    THEN Got(rv) ELSE Wrong

\* Strict, but for int and time.Time; a D or A is had as the bytes it is.
RawValueTo(T, rv) ==
    IF \/ T = GoTypeOf[rv.type]
       \/ T = "int" /\ rv.type \in {16, 18}
       \/ T = "Time" /\ rv.type = 9
       \/ T = "Null" /\ rv.type = 10
    THEN Got(rv) ELSE Wrong

RawLookup(T, doc, pointer) ==
    LET r == LookupErr(doc, pointer, 2) IN IF r.is = "value" THEN RawValueTo(T, r.v) ELSE r
=============================================================================
