----------------------------- MODULE BsonBuffer -----------------------------
(***************************************************************************)
(* A buffer that goes through any sequence of replacements and removals,   *)
(* by one caller, who keeps what each call returns.                        *)
(***************************************************************************)
EXTENDS BsonReplace

CONSTANTS Buffers,    \* documents to begin with
          NewValues,  \* raw values, [type, words], that replace others
          Pointers,   \* sequences of keys, none empty
          MaxWords    \* bound: words in the buffer

ASSUME BuffersAssumption == \A b \in Buffers : b \in Seq(Int) /\ Readable(b)

ASSUME NewValuesAssumption ==
    \A v \in NewValues :
        /\ v \in [type : Int, words : Seq(Int)]
        /\ Value(v.words, 1, v.type, Len(v.words))
        /\ Container(v.type) => Readable(v.words)

ASSUME PointersAssumption == \A p \in Pointers : p \in Seq(Int) /\ Len(p) > 0

VARIABLE raw   \* the buffer

Init == raw \in Buffers

\* The caller goes on with the buffer that the call returned.
ReplaceInRaw(v, p) == raw' = replaceOrRemoveInRaw(raw, v, p).raw

RemoveFromRaw(p) == raw' = replaceOrRemoveInRaw(raw, Nothing, p).raw

Edit ==
    /\ \E p \in Pointers : RemoveFromRaw(p) \/ \E v \in NewValues : ReplaceInRaw(v, p)
    /\ Len(raw') <= MaxWords

EditSpec == Init /\ [][Edit]_raw

\* The buffer is one document that can be read to its end at every level
\* (edit.go:144: the lengths around an edit have followed it).
TypeOK == raw \in Seq(Int) /\ Readable(raw)
=============================================================================
