----------------------------- MODULE FileRegistry -----------------------------
(***************************************************************************)
(* What the shared file database of the metadata server really promises,   *)
(* whatever the number of threads that use it: a list that is only ever    *)
(* appended to, one record at a time, with at most one record for each     *)
(* request buffer, that may jam for good and that ends with the process.   *)
(*                                                                         *)
(* MetadataServer, where every operation takes several steps under the     *)
(* semaphore of file_db.c, is shown to implement this specification.       *)
(***************************************************************************)
EXTENDS Integers, Sequences

CONSTANTS Buffers,    \* request buffers (one on each thread's stack)
          Files,      \* file names
          Elsewhere   \* any place a name can be that is no request's own

VARIABLES entries,  \* the list of Grid_File records
          jammed,   \* no operation on the list will ever complete again
          alive     \* the process is running

registryVars == <<entries, jammed, alive>>

\* A record whose name is in a buffer that no other record's name is in.
Register(b, f) ==
    /\ b = Elsewhere \/ \A i \in 1..Len(entries) : entries[i].buf # b
    /\ entries' = Append(entries, [buf |-> b, file |-> f, freed |-> FALSE])
    /\ UNCHANGED jammed

\* The blocks of a record are given back; the record stays in the list.
ReleaseBlocks(i) ==
    /\ entries' = [entries EXCEPT ![i].freed = TRUE]
    /\ UNCHANGED jammed

\* Only a list that already has a record can jam.
Jam ==
    /\ entries # << >>
    /\ jammed' = TRUE
    /\ UNCHANGED entries

Operate ==
    /\ alive
    /\ ~jammed
    /\ \/ \E b \in Buffers \cup {Elsewhere}, f \in Files : Register(b, f)
       \/ \E i \in 1..Len(entries) : ReleaseBlocks(i)
       \/ Jam
    /\ UNCHANGED alive

Stop ==
    /\ alive
    /\ alive' = FALSE
    /\ UNCHANGED <<entries, jammed>>

RegistryInit ==
    /\ entries = << >>
    /\ jammed = FALSE
    /\ alive = TRUE

RegistryNext == Operate \/ Stop

RegistrySpec == RegistryInit /\ [][RegistryNext]_registryVars

===============================================================================
