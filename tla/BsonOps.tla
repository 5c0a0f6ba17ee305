------------------------------ MODULE BsonOps ------------------------------
(***************************************************************************)
(* Sorting a document where it lies: bsontools/canonical.go.               *)
(***************************************************************************)
EXTENDS Bson, BsonReplace

RECURSIVE sortInPlaceInternal(_, _)

-----------------------------------------------------------------------------
ElementAt(doc, pos) == SubSeq(doc, pos, pos + ElementSize(doc, pos) - 1)

\* slices.SortStableFunc by key.
SortStable(doc, els) ==
    LET Keyed(k) == SelectSeq(els, LAMBDA pos : doc[pos + 1] = k)
        keys == SetToSortSeq({doc[els[i] + 1] : i \in DOMAIN els}, <)
    IN FlattenSeq([i \in DOMAIN keys |-> Keyed(keys[i])])

\* Sorts the embedded documents within doc.
iterateElements(doc, els) ==
    LET SortAt(d, pos) ==
            IF ~Container(d[pos]) THEN d
            ELSE SubSeq(d, 1, pos + 1) \o sortInPlaceInternal(ValueAt(d, pos).words, d[pos] = 4)
                 \o SubSeq(d, pos + ElementSize(d, pos), Len(d))
    IN FoldLeft(SortAt, doc, els)

\* Mutant: the elements are copied before what is in them is sorted.
sortFieldsFirst(doc, isArray) ==
    LET els     == RawElements(doc)
        scratch == FlattenSeq([i \in DOMAIN els |-> ElementAt(doc, SortStable(doc, els)[i])])
    IN IF isArray THEN iterateElements(doc, els) ELSE <<doc[1]>> \o scratch \o <<0>>

\* Elements stay where they are while those within them are sorted; then a
\* scratch buffer takes them in their order, but for an array's.
sortInPlaceInternal(doc, isArray) ==
    LET els     == RawElements(doc)
        nested  == iterateElements(doc, els)
        fields  == SortStable(nested, els)
        scratch == FlattenSeq([i \in DOMAIN fields |-> ElementAt(nested, fields[i])])
    IN IF isArray THEN nested ELSE <<doc[1]>> \o scratch \o <<0>>
=============================================================================
