--------------------------- MODULE MCBoundedQueue ---------------------------
(***************************************************************************)
(* Values for the constants of BoundedQueue that a .cfg cannot spell.      *)
(***************************************************************************)
EXTENDS BoundedQueue

\* A size that panics, one that is free, one below the limit, one that meets
\* it alone, and one that overflows an int64 when it is added to another.
SizesToOverflow == {-1, 0, 1, 4}
=============================================================================
