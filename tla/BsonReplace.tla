---------------------------- MODULE BsonReplace ----------------------------
(***************************************************************************)
(* Replacing and removing an element of a document where it lies, at any   *)
(* depth: bsontools/edit.go.                                               *)
(*                                                                         *)
(* The lengths of all the documents around a changed element must follow,  *)
(* each from what the level below reports.  While the code edits an        *)
(* embedded document it has no end: it goes on with the rest of the        *)
(* documents around it, which move along.                                  *)
(***************************************************************************)
EXTENDS BsonWords

\* Where the loop over the elements ends: behind the last of the document that buf
\* begins with, at one that cannot be read, or at one with a key that is wanted.
Stops(buf, keys, pos) == pos >= buf[1] \/ ~Element(buf, pos) \/ buf[pos + 1] \in keys

Onward(buf, keys, pos) == IF Stops(buf, keys, pos) THEN pos ELSE pos + ElementSize(buf, pos)

\* Where it is after n elements.
Loop(buf, keys) ==
    LET pos[n \in 0..Len(buf) \div 2] == IF n = 0 THEN 2 ELSE Onward(buf, keys, pos[n - 1])
    IN pos

Match(buf, key) == Loop(buf, {key})[Len(buf) \div 2]

\* Mutant: the length that the document above grows by is not passed on.
recurseIntoSilent(buf, pos, r) ==
    IF ~Container(buf[pos]) THEN Edited(buf, 0, TooDeep(1))
    ELSE Edited(aroundSubDoc(buf, pos, r).raw, 0, r.res)

\* Mutant: the pointer of an error begins at the document that it is found in.
recurseForgettingPath(buf, pos, r) ==
    IF ~Container(buf[pos])       THEN Edited(buf, 0, TooDeep(1))
    ELSE IF r.res.is = "found"    THEN aroundSubDoc(buf, pos, r)
    ELSE Edited(buf, 0, r.res)

\* r is what the edit of the embedded document, the recursion, has returned.
recurseIntoSubDoc(buf, pos, r) ==
    IF ~Container(buf[pos])       THEN Edited(buf, 0, TooDeep(1))
    ELSE IF r.res.is = "found"    THEN aroundSubDoc(buf, pos, r)
    ELSE Edited(buf, 0, IF r.res.is = "tooDeep" THEN TooDeep(r.res.at + 1) ELSE r.res)

\* One call, for the first key of a pointer, which may have more.
editMatchingElement(buf, new, key, more, r) ==
    LET pos  == Match(buf, key)
        size == ElementSize(buf, pos)
        edit == IF more > 0           THEN recurseIntoSubDoc(buf, pos, r)
                ELSE IF new = Nothing THEN removeElement(buf, pos, size)
                ELSE replaceElement(buf, new, pos, size)
    IN IF pos >= buf[1]             THEN Edited(buf, 0, Absent)
       ELSE IF ~Element(buf, pos)   THEN Edited(<< >>, 0, Invalid)
       ELSE IF edit.res.is # "found" THEN Edited(buf, 0, edit.res)
       ELSE resized(buf, edit)

\* The buffers that the recursion goes down with, for pointers of n + 1 keys:
\* each begins with the embedded document and goes on to the end.
Down(buf, pointer, n) ==
    LET down[k \in 0..n] ==
            IF k = 0 THEN buf ELSE From(down[k - 1], Match(down[k - 1], pointer[k]))
    IN down

\* What its calls return.
Up(down, new, pointer, n) ==
    LET up[k \in 0..n] ==
            editMatchingElement(down[k], new, pointer[k + 1], n - k,
                                IF k = n THEN Nothing ELSE up[k + 1])
    IN up

\* ReplaceInRaw, and RemoveFromRaw if the value is Nothing.
replaceOrRemoveInRaw(buf, new, pointer) ==
    LET n == Len(pointer) - 1
    IN Up(Down(buf, pointer, n), new, pointer, n)[0]

-----------------------------------------------------------------------------
\* The places of the elements of a document, and of the zero behind them.
Places(doc) == {Loop(doc, {})[n] : n \in 0..Len(doc) \div 2}

\* A document of the length it says can be read to its end, and so can all that
\* are embedded in it if those of docs can.
Reads(doc, docs) ==
    /\ Len(doc) >= 2 /\ doc[1] = Len(doc) /\ doc[Len(doc)] = 0
    /\ \A p \in Places(doc) \ {Len(doc)} :
          /\ Element(doc, p) /\ p + ElementSize(doc, p) <= Len(doc)
          /\ Container(doc[p]) => ValueAt(doc, p).words \in docs

\* All that could be a document within.
Embedded(doc) ==
    {SubSeq(doc, p + 2, p + 1 + doc[p + 2]) :
        p \in {i \in 2..Len(doc) - 2 : Container(doc[i]) /\ doc[i + 2] \in 2..Len(doc) - i - 1}}

\* Every document can be read, at every level.
Readable(doc) ==
    \E docs \in SUBSET ({doc} \cup Embedded(doc)) : doc \in docs /\ \A d \in docs : Reads(d, docs)
=============================================================================
