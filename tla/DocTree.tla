------------------------------ MODULE DocTree ------------------------------
(***************************************************************************)
(* What the calls of bsontools mean for a document as a tree, whatever its *)
(* words are: a call is about the one element that its pointer leads to.   *)
(* An element is [key, go, items, sub] as in Bson.                         *)
(***************************************************************************)
EXTENDS Integers, Sequences, FiniteSets

RECURSIVE Outcome(_, _, _), Put(_, _, _), At(_, _), Sorted(_, _)

\* The first element with a key; zero if there is none.
First(d, key) ==
    LET is == {i \in DOMAIN d : d[i].key = key}
    IN IF is = {} THEN 0 ELSE CHOOSE i \in is : \A j \in is : i <= j

\* Where a pointer leads; depth counts the keys before it.
Outcome(d, p, depth) ==
    LET i == First(d, p[1])
    IN IF i = 0 THEN [is |-> "absent"]
       ELSE IF Len(p) = 1 THEN [is |-> "found"]
       ELSE IF d[i].go \notin {"D", "A"} THEN [is |-> "tooDeep", at |-> depth + 1]
       ELSE Outcome(d[i].sub, Tail(p), depth + 1)

\* The value that the pointer leads to.
At(d, p) ==
    LET e == d[First(d, p[1])]
    IN IF Len(p) = 1 THEN [go |-> e.go, items |-> e.items, sub |-> e.sub] ELSE At(e.sub, Tail(p))

\* The document with that value replaced by one, or its element by none.
Put(d, p, values) ==
    LET i == First(d, p[1])
    IN IF Len(p) > 1 THEN [d EXCEPT ![i].sub = Put(@, Tail(p), values)]
       ELSE SubSeq(d, 1, i - 1)
            \o [n \in DOMAIN values |-> [key |-> p[1], go |-> values[n].go,
                                         items |-> values[n].items, sub |-> values[n].sub]]
            \o SubSeq(d, i + 1, Len(d))

\* The element with n - 1 others before it comes n-th: those with smaller keys
\* and those with the same that were before it already.  Arrays keep their order.
Sorted(d, isArray) ==
    LET Before(i, j) == \/ ~isArray /\ d[i].key < d[j].key
                        \/ i < j /\ (isArray \/ d[i].key = d[j].key)
        Nth(n) == CHOOSE j \in DOMAIN d : Cardinality({i \in DOMAIN d : Before(i, j)}) = n - 1
    IN [n \in DOMAIN d |-> [d[Nth(n)] EXCEPT !.sub = Sorted(@, d[Nth(n)].go = "A")]]
=============================================================================
