------------------------------ MODULE BlockStore ------------------------------
(***************************************************************************)
(* What a data repository really promises of its disk, run after run: the  *)
(* first run stores nothing; every later run begins to store new files     *)
(* only until one of them has been recorded - those begun before may still *)
(* be written - and then writes at most one line for that one into the     *)
(* database file; lines are never taken out.                               *)
(*                                                                         *)
(* DataRepository, with its sessions, list, semaphore and path, is shown   *)
(* to implement this specification.                                        *)
(***************************************************************************)
CONSTANT Blocks

VARIABLES stored,  \* the blocks that have a file
          logged,  \* the blocks that have a line
          begun,   \* there has been a first run
          granted, \* the blocks this run may still write
          run      \* see Runs

storeVars == <<stored, logged, begun, granted, run>>

\* No process; the first run; a run that has recorded nothing yet, one that has
\* a line to write, and one that has written it.
Runs == {"off", "first", "open", "recorded", "closed"}

StoreInit ==
    /\ stored = {}
    /\ logged = {}
    /\ begun = FALSE
    /\ granted = {}
    /\ run = "off"

Boot ==
    /\ run = "off"
    /\ run' = IF begun THEN "open" ELSE "first"
    /\ begun' = TRUE
    /\ UNCHANGED <<stored, logged, granted>>

\* A block gets its path in the directory.
Grant(b) ==
    /\ run = "open"
    /\ granted' = granted \cup {b}
    /\ UNCHANGED <<stored, logged, begun, run>>

\* Its file is made, or cut to nothing and written again.  (It may have been granted
\* to two clients.)
Write(b) ==
    /\ b \in granted
    /\ granted' \in {granted, granted \ {b}}
    /\ stored' = stored \cup {b}
    /\ UNCHANGED <<logged, begun, run>>

Record ==
    /\ run = "open"
    /\ run' = "recorded"
    /\ UNCHANGED <<stored, logged, begun, granted>>

WriteLine(b) ==
    /\ run = "recorded"
    /\ run' = "closed"
    /\ logged' = logged \cup {b}
    /\ UNCHANGED <<stored, begun, granted>>

\* QUIT removes files, and may end the process as well.
Purge(S) ==
    /\ run \notin {"off", "first"}
    /\ stored' = stored \ S
    /\ \/ UNCHANGED <<granted, run>>
       \/ granted' = {} /\ run' = "off"
    /\ UNCHANGED <<logged, begun>>

Stop ==
    /\ run # "off"
    /\ granted' = {}
    /\ run' = "off"
    /\ UNCHANGED <<stored, logged, begun>>

StoreNext ==
    \/ Boot \/ Record \/ Stop
    \/ \E b \in Blocks : Grant(b) \/ Write(b) \/ WriteLine(b)
    \/ \E S \in SUBSET Blocks : Purge(S)

StoreSpec == StoreInit /\ [][StoreNext]_storeVars

===============================================================================
