------------------------------ MODULE MCStartup ------------------------------
(***************************************************************************)
(* Three repositories.  Each may report nothing, one file, two files, a    *)
(* file with two blocks, or, after PUTs of two files that overlapped, a    *)
(* file whose block has the name of another.                               *)
(***************************************************************************)
EXTENDS Startup
CONSTANTS r1, r2, r3, A, B
MCConf == <<r1, r2, r3>>
F(f) == [kind |-> "F", file |-> f]
Bl(f) == [kind |-> "B", file |-> f]
MCAnswers ==
    {<< >>, <<F(A), Bl(A)>>, <<F(A), Bl(A), Bl(A)>>,
     <<F(A), Bl(A), F(B), Bl(B)>>, <<F(B), Bl(B), F(A), Bl(A)>>, <<F(A), Bl(B)>>}
===============================================================================
