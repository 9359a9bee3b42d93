------------------------------ MODULE MCShell -------------------------------
(* Lines and directories for Shell                                         *)
EXTENDS Shell

Letters == {" ", "\t", "a", "&", "|", ">", "*", "-", "cd", "chprompt", "pwd", "quit"}

(* Every line of up to three letters, every longer one of the letters that *)
(* separate, and some that fill the arrays                                 *)
MCLines ==
  SeqOf(Letters, 3) \cup SeqOf({" ", "a", "&", "|", ">"}, 4) \cup
  {<<" ", " ", " ", " ", " ", "a">>, <<" ", " ", " ", " ", "a", "&">>,
   <<"a", " ", "a", " ", "a">>, <<"a", " ", "a", "&", " ", "&">>,
   <<"a", " ", "a", " ", " ", "a">>, <<"a", " ", "a", "|", "a">>, <<"a", " ", "a", "a", "|", "a">>,
   <<"cd", " ", "a", "|", "a">>, <<"a", "|", "cd", " ", "a">>, <<"cd", " ", "-", ">", "a">>,
   <<"a", "|", "&", "cd", " ", "-">>, <<"a", "|", "chprompt", " ", "a">>,
   <<"showpid">>, <<"jobs">>, <<"quit", "|", "a">>, <<"a", "|", "quit", "&">>}

MCResolve(path, word) == IF path = "/" /\ word = <<"a">> THEN "/a" ELSE "none"
=============================================================================
