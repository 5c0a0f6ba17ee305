--------------------------- MODULE MCGuardedState ---------------------------
\* Two goroutines around one object of each of the three types.
EXTENDS GuardedState

AllKinds == {"Future", "DataGuard", "Buffer"}
=============================================================================
