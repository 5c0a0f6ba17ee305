----------------------------- MODULE BsonWords -----------------------------
(***************************************************************************)
(* BSON documents as words, and what bsontools/edit.go does to the words   *)
(* of one document and of the one around it.                               *)
(*                                                                         *)
(* A document in memory is a sequence of words: its length, its elements   *)
(* and a zero.  An element is its type, its key and the words of its       *)
(* value; a word stands for the bytes that the code never takes apart (a   *)
(* key with its NUL, four bytes of a number, a character).                 *)
(***************************************************************************)
EXTENDS Integers, Sequences, FiniteSets, FiniteSetsExt

CONSTANT MaxInt32   \* bound: the largest number that 32 bits hold

ASSUME MaxInt32Assumption == MaxInt32 \in Nat

\* The words of a value, by type, and what is in them (bsoncore's appenders and
\* readers).  Regex is a pattern and its options, DBPointer a name and an ID,
\* and the scope of a CodeWithScope is empty.
Words(type, items) ==
    CASE type \in {2, 13, 14} -> <<Len(items) + 1>> \o items \o <<0>>
      [] type = 5  -> <<Len(items) - 1>> \o items
      [] type = 11 -> <<items[1], 0>> \o Tail(items) \o <<0>>
      [] type = 12 -> <<2, items[1], 0>> \o Tail(items)
      [] type = 15 -> <<6, 2, items[1], 0, 2, 0>>
      [] OTHER     -> items

\* Mutant: a string is read with the NUL behind it.
ItemsWithNul(type, words) ==
    CASE type \in {2, 13, 14, 5} -> Tail(words)
      [] type = 11 -> <<words[1]>> \o SubSeq(words, 3, Len(words) - 1)
      [] type = 12 -> <<words[2]>> \o SubSeq(words, 4, Len(words))
      [] type = 15 -> <<words[3]>>
      [] OTHER     -> words

Items(type, words) ==
    CASE type \in {2, 13, 14} -> SubSeq(words, 2, Len(words) - 1)
      [] type = 5  -> Tail(words)
      [] type = 11 -> <<words[1]>> \o SubSeq(words, 3, Len(words) - 1)
      [] type = 12 -> <<words[2]>> \o SubSeq(words, 4, Len(words))
      [] type = 15 -> <<words[3]>>
      [] OTHER     -> words

\* How many words the value takes that starts at a place; more than there are
\* if that cannot be told (bsoncore.ReadElement).
ValueSize(doc, at, type) ==
    LET zeros == {i \in at..Len(doc) : doc[i] = 0}
        first == Min(zeros)
    IN CASE type \in {6, 10, 127, 255} -> 0
         [] type \in {8, 16}           -> 1
         [] type \in {1, 9, 17, 18}    -> 2
         [] type = 7                   -> 3
         [] type = 19                  -> 4
         [] at <= Len(doc) /\ type \in {2, 13, 14} -> 1 + doc[at]
         [] at <= Len(doc) /\ type \in {3, 4, 15}  -> doc[at]
         [] at <= Len(doc) /\ type = 5             -> 2 + doc[at]
         [] at <= Len(doc) /\ type = 12            -> 4 + doc[at]
         [] type = 11 /\ Cardinality(zeros) > 1    -> Min(zeros \ {first}) - at + 1
         [] OTHER -> Len(doc) + 1

ElementSize(doc, pos) == 2 + ValueSize(doc, pos + 2, doc[pos])
ValueAt(doc, pos) ==
    [type |-> doc[pos], words |-> SubSeq(doc, pos + 2, pos + ElementSize(doc, pos) - 1)]
Container(type) == type \in {3, 4}

-----------------------------------------------------------------------------
\* What an edit returns: the buffer, how many words longer its document is.
\*
\* Sizes are numbers without a width.  The code converts them, to an int32 in
\* removeElement and replaceElement and to a uint32 for the new length, and
\* returns the error of a conversion that does not fit; the last of them after
\* the buffer was edited, with the length it had before.  No document or new
\* value below 2 GiB comes to that, and these branches are not modelled.
Edited(buf, added, outcome) == [raw |-> buf, added |-> added, res |-> outcome]

Absent     == [is |-> "absent"]
Invalid    == [is |-> "invalid"]
TooDeep(n) == [is |-> "tooDeep", at |-> n]

Nothing == [type |-> 0, words |-> << >>]   \* a nil replacement: remove

removeElement(buf, pos, size) ==
    Edited(SubSeq(buf, 1, pos - 1) \o SubSeq(buf, pos + size, Len(buf)), -size, [is |-> "found"])

replaceElement(buf, new, pos, size) ==
    Edited(SubSeq([buf EXCEPT ![pos] = new.type], 1, pos + 1) \o new.words
             \o SubSeq(buf, pos + size, Len(buf)),
           Len(new.words) - (size - 2), [is |-> "found"])

\* The buffer from a value on: what the code passes to the edit of an embedded document.
From(buf, pos) == SubSeq(buf, pos + 2, Len(buf))

\* The buffer around an embedded document that was edited as far as the buffer goes.
aroundSubDoc(buf, pos, r) ==
    Edited(SubSeq(buf, 1, pos + 1) \o r.raw, r.raw[1] - buf[pos + 2], r.res)

\* The document whose element was edited gets its new length.
resized(buf, r) == Edited([r.raw EXCEPT ![1] = buf[1] + r.added], r.added, r.res)

-----------------------------------------------------------------------------
\* The types whose value begins with its length, or is measured by what is in it.
Measured == {2, 3, 4, 5, 11, 12, 13, 14, 15}

\* In buffer a, a value of that size, with as many words as its type has at least.
Value(a, i, type, size) ==
    /\ Len(a) \in Nat /\ i \in Nat /\ 1 <= i
    /\ size \in Nat /\ size = ValueSize(a, i, type)
    /\ type \in Measured => size >= 1
    /\ i + size - 1 <= Len(a)

\* An element that lies within a buffer.
Element(doc, pos) ==
    LET size == ValueSize(doc, pos + 2, doc[pos])
    IN /\ pos \in Nat /\ 2 <= pos
       /\ size \in Nat /\ pos + 2 + size <= Len(doc) + 1
       /\ doc[pos] \in Measured => size >= 1
=============================================================================
