---------------------------- MODULE MCAtomicMax ----------------------------
(***************************************************************************)
(* AtomicMax over four values, of which the two in the middle compare      *)
(* equal.                                                                  *)
(***************************************************************************)
EXTENDS AtomicMax

CONSTANTS low, high, peer, top

MCValues == {low, high, peer, top}
MCAtLeast == {<<a, b>> \in MCValues \X MCValues : a = top \/ b = low \/ (a # low /\ b # top)}
=============================================================================
