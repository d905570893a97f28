--------------------------- MODULE MCMetadataServer ---------------------------
(***************************************************************************)
(* MetadataServer for TLC.                                                 *)
(***************************************************************************)
EXTENDS MetadataServer, TLC

CONSTANT MaxFiles   \* bound: records in the list

MCNext == Next /\ Len(files') <= MaxFiles

MCSpec == Init /\ [][MCNext]_vars

\* Fairness of the threads, for the liveness run.
MCFairSpec == MCSpec /\ Fairness

\* A view: when the process has ended there is no next step, and the properties
\* were checked of the step that ended it and of the state before, from which
\* only "up" has changed.
Alive == IF up THEN vars ELSE <<up>>

Symmetry == Permutations(Threads) \cup Permutations(Files)

===============================================================================
