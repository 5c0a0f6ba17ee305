------------------------------ MODULE RWMutex ------------------------------
(***************************************************************************)
(* Go's sync.RWMutex, as the packages that lock one rely on it.  A writer  *)
(* that has announced itself keeps later readers out, and then waits for   *)
(* the readers that were there before it; its Unlock lets in the readers   *)
(* that it kept out, ahead of the next writer.                             *)
(***************************************************************************)
CONSTANTS Threads,
          None      \* not a thread

VARIABLES writer,   \* who holds the lock, or waits for the readers to leave
          readers,  \* who holds the read lock
          blocked   \* who has called RLock and waits for the writer

Init == writer = None /\ readers = {} /\ blocked = {}

RLock(t) ==
    /\ IF writer = None THEN readers' = readers \cup {t} /\ UNCHANGED blocked
                        ELSE blocked' = blocked \cup {t} /\ UNCHANGED readers
    /\ UNCHANGED writer

RLocked(t) == t \in readers

RUnlock(t) ==
    /\ readers' = readers \ {t}
    /\ UNCHANGED <<writer, blocked>>

Lock(t) ==
    /\ writer = None
    /\ writer' = t
    /\ UNCHANGED <<readers, blocked>>

Locked(t) == writer = t /\ readers = {}

Unlock(t) ==
    /\ writer' = None
    /\ readers' = readers \cup blocked
    /\ blocked' = {}

TypeOK ==
    /\ writer \in Threads \cup {None}
    /\ readers \subseteq Threads
    /\ blocked \subseteq Threads
=============================================================================
