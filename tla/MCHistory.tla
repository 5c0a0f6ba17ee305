----------------------------- MODULE MCHistory -----------------------------
(***************************************************************************)
(* History with lifetimes that a cfg cannot spell: New takes negative ones.*)
(***************************************************************************)
EXTENDS History

MCTTLs == {-1, 0, 1}
=============================================================================
