------------------------------ MODULE MCServer ------------------------------
(* Constants for model checking Server: one request per class of answer.   *)
EXTENDS Server, TLC

Plain   == [exists |-> TRUE, isreg |-> TRUE, rusr |-> TRUE, xusr |-> FALSE,
            empty |-> FALSE]
Program == [Plain EXCEPT !.xusr = TRUE]
Get     == [method |-> "GET", dotdot |-> FALSE, cgi |-> FALSE, file |-> Plain]

GetPage    == Get
GetProgram == [Get EXCEPT !.cgi = TRUE, !.file = Program]
GetRefused == [Get EXCEPT !.cgi = TRUE]                 \* 403

MCRequests == {GetPage, GetProgram, GetRefused}
OneProgram == {GetProgram}

Symmetry == Permutations(Workers)
=============================================================================
