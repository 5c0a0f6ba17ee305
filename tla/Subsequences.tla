---------------------------- MODULE Subsequences ----------------------------
(***************************************************************************)
(* The subsequence of the elements at some of a sequence's indices, by     *)
(* their number and not by recursion: its k-th element is the one that has *)
(* k of the indices up to its own.                                         *)
(***************************************************************************)
EXTENDS Integers, Sequences, FiniteSets

Pick(s, kept) ==
    LET upTo(i) == {j \in kept : j <= i}
    IN  [k \in 1..Cardinality(kept) |-> s[CHOOSE i \in kept : Cardinality(upTo(i)) = k]]
=============================================================================
