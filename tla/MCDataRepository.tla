--------------------------- MODULE MCDataRepository ---------------------------
(***************************************************************************)
(* Two sessions at a time, over two blocks of one file, one of another and *)
(* one of a hidden file, run after run.  The blocks of the first file can  *)
(* be exchanged, and so can the sessions.                                  *)
(***************************************************************************)
EXTENDS DataRepository, TLC
CONSTANTS a1, a2, b1, h1, A, B, H
MCNameOf == (a1 :> A) @@ (a2 :> A) @@ (b1 :> B) @@ (h1 :> H)
Symmetry == Permutations(Threads) \cup Permutations({a1, a2})

\* No step is taken from a state with more files or lines than these.
MaxFiles == 3
MaxLines == 1
DiskBound == Cardinality(dir) <= MaxFiles /\ Cardinality(lines) <= MaxLines
===============================================================================
