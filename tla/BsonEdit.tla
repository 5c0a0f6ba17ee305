------------------------------ MODULE BsonEdit ------------------------------
(***************************************************************************)
(* A document that goes through any sequence of edits and sorts, by one    *)
(* caller, who keeps what each call returns.                               *)
(***************************************************************************)
EXTENDS BsonBuffer, BsonOps

CONSTANTS Values,     \* values, [go, items, sub], that replace others
          Targets     \* Go types that are looked for

\* The words of a value on its own; a document's are its buffer.
RawValueOf(v) ==
    IF v.go \in {"D", "A"} THEN [type |-> TypeOf[v.go], words |-> MarshalD(<< >>, v.sub)]
                           ELSE ToRawValue(v)

ASSUME ValuesAssumption == NewValues = {RawValueOf(v) : v \in Values}

SortFields == raw' = sortInPlaceInternal(raw, FALSE)

Next == Edit \/ SortFields

Spec == Init /\ [][Next]_raw

-----------------------------------------------------------------------------
RECURSIVE Tree(_), Read(_), Lengths(_)

Plain(rv) == IF Container(rv.type) THEN Nested(GoTypeOf[rv.type], Tree(rv.words))
                                   ELSE Scalar(GoTypeOf[rv.type], Items(rv.type, rv.words))

\* The tree that is in a document, with the keys that its arrays still have.
Tree(doc) ==
    LET els == IF CountRawElements(doc) < 0 THEN << >> ELSE RawElements(doc)
    IN [i \in DOMAIN els |-> E(doc[els[i] + 1], Plain(ValueAt(doc, els[i])))]

\* The Go values that come back for those that were marshalled.
Read(d) ==
    [i \in DOMAIN d |->
        E(d[i].key,
          CASE d[i].go = "Time"  -> Scalar("DateTime", d[i].items)
            [] d[i].go = "Null"  -> Scalar("nil", d[i].items)
            [] d[i].go = "Regex" -> Scalar("Regex", <<d[i].items[1]>> \o SortSeq(Tail(d[i].items), <))
            [] d[i].go = "int" /\ d[i].items[1] > MaxInt32  -> Scalar("int64", d[i].items \o <<0>>)
            [] d[i].go = "int" /\ d[i].items[1] <= MaxInt32 -> Scalar("int32", d[i].items)
            [] d[i].go \in {"D", "A"} -> Nested(d[i].go, Read(d[i].sub))
            [] OTHER -> Scalar(d[i].go, d[i].items))]

\* The places of the lengths of a document and of those within it.
Lengths(doc) ==
    LET els == RawElements(doc)
    IN {1} \cup UNION {{els[i] + 1 + n : n \in Lengths(ValueAt(doc, els[i]).words)} :
                          i \in {j \in DOMAIN els : Container(doc[els[j]])}}

\* What is read from the buffer after any edits can be written and read again;
\* the words are the same unless an array has lost an element: what is after it
\* keeps its key in the buffer, but not in a bson.A (marshal.go, unmarshal.go).
RoundTrip ==
    LET d == UnmarshalToD(raw).d
        again == MarshalD(<< >>, d)
    IN /\ UnmarshalToD(raw).ok
       /\ UnmarshalToD(again) = [ok |-> TRUE, d |-> d]
       /\ Tree(raw) = d => again = raw

\* Had an edit forgotten any one of the lengths around it, at any level, the
\* document would not be readable for one that is (raw.go:58-142).
LengthsChecked ==
    \A at \in Lengths(raw), n \in 0..Len(raw) + 1 :
        n # raw[at] => ~UnmarshalToD([raw EXCEPT ![at] = n]).ok

tree == INSTANCE DocTree

\* An edit does to the words what it means for the tree, to the element that the
\* pointer leads to and to no other; or it leaves every word as it was and says
\* why, and how far the pointer led (edit.go).
EditsMatchTree ==
    LET d == Tree(raw)
        Matches(new, p, values) ==
            LET r == replaceOrRemoveInRaw(raw, new, p)
            IN /\ r.res = tree!Outcome(d, p, 0)
               /\ IF r.res.is = "found"
                  THEN Tree(r.raw) = tree!Put(d, p, values)
                  ELSE r.raw = raw
    IN \A p \in Pointers :
          /\ Matches(Nothing, p, << >>)
          /\ \A v \in Values : Matches(RawValueOf(v), p, Read(<<E(0, v)>>))

\* Sorting moves elements whole and sorts those within them, stably, and leaves
\* arrays in their order (canonical.go:12-112).
SortMatchesTree == Tree(sortInPlaceInternal(raw, FALSE)) = tree!Sorted(Tree(raw), FALSE)

\* A lookup gives the value that an edit would have replaced, if its type is the
\* one looked for; an int alone may have either width (raw.go:11-27).
LookupsMatchTree ==
    LET d == Tree(raw)
    IN \A p \in Pointers, T \in Targets :
          LET r == RawLookup(T, raw, p)
          IN IF tree!Outcome(d, p, 0).is # "found" THEN r = tree!Outcome(d, p, 0)
             ELSE IF \/ T = tree!At(d, p).go
                     \/ T = "int" /\ tree!At(d, p).go \in {"int32", "int64"}
             THEN r.is = "value" /\ Plain(r.v) = tree!At(d, p)
             ELSE r.is = "cannotCast"
=============================================================================
