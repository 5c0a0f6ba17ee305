--------------------------- MODULE MCContextPlus ---------------------------
(***************************************************************************)
(* ContextPlus with causes that a .cfg cannot spell.                       *)
(***************************************************************************)
EXTENDS ContextPlus

\* A cause of the caller's own, and one that wraps an error of the library, as
\* in fmt.Errorf("just because: %w", context.Canceled).
MCCauseErrors == {{"just because"}, {"all done"} \cup Canceled}
=============================================================================
