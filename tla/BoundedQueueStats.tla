------------------------- MODULE BoundedQueueStats -------------------------
(***************************************************************************)
(* The stats function that NewBoundedQueue returns, called by some other   *)
(* goroutine: it loads the ring's count, then curMem, with nothing to hold *)
(* the worker between the two loads.                                       *)
(***************************************************************************)
EXTENDS BoundedQueue

VARIABLES at,      \* where the caller is in the stats function
          stats,   \* its BufferedItems and BufferedBytes
          window   \* what the ring really held, at each instant of the call

statsVars == <<at, stats, window>>

\* How many entries the ring holds, and their total size.
Actual == [items |-> count, bytes |-> Total(Queued)]

NoStats == [items |-> 0, bytes |-> 0]

StatsInit ==
    /\ NewBoundedQueue
    /\ at = "idle"
    /\ stats = NoStats
    /\ window = {}

statsLen ==
    /\ at = "idle"
    /\ stats' = [stats EXCEPT !.items = count]
    /\ window' = {Actual}
    /\ at' = "curMem"
    /\ UNCHANGED vars

statsCurMem ==
    /\ at = "curMem"
    /\ stats' = [stats EXCEPT !.bytes = curMem]
    /\ at' = "return"
    /\ UNCHANGED <<vars, window>>

\* The caller has used what the function returned, and may call it again.
statsUsed ==
    /\ at = "return"
    /\ at' = "idle"
    /\ stats' = NoStats
    /\ window' = {}
    /\ UNCHANGED vars

QueueStep ==
    /\ Next
    /\ window' = IF at = "curMem" THEN window \cup {Actual'} ELSE window
    /\ UNCHANGED <<at, stats>>

StatsNext == (Alive /\ (statsLen \/ statsCurMem \/ statsUsed)) \/ QueueStep

StatsSpec == StatsInit /\ [][StatsNext]_<<vars, statsVars>>

-----------------------------------------------------------------------------
\* BufferedBytes may miss the entry the worker is adding or removing, never
\* more, and never counts an entry that is not in the ring: push and pop keep
\* curMem behind the ring, whichever of their steps the loads fall between.
BytesOffByOneEntry ==
    at = "return" =>
        \E held \in window, s \in ItemSizes \cup {0} : s >= 0 /\ stats.bytes = held.bytes - s

\* "snapshot statistics about a bounded queue's internal state": the two
\* numbers describe what the queue held at one instant of the call.
StatsAccurate ==
    at = "return" => stats \in window
=============================================================================
