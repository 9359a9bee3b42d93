----------------------------- MODULE MCExchange -----------------------------
(* Requests and files for Exchange                                         *)
EXTENDS Exchange

(* What client.c sends *)
Lines == <<"G", LF, "h", LF>> \o Blank

(* Another method; a first line without words; and a header line whose     *)
(* tail, when the buffer is full, looks like a blank line                  *)
Other    == <<"P", LF>> \o Blank
Wordless == <<LF>> \o Blank
Long     == <<"G", LF, "h", "h">> \o Blank \o Blank

MCAsked == {Lines, Other, Wordless, Long}

Page      == [NoFile EXCEPT !.exists = TRUE, !.isreg = TRUE, !.rusr = TRUE, !.readable = TRUE]
Empty     == [Page EXCEPT !.empty = TRUE]
Script    == [Page EXCEPT !.xusr = TRUE, !.runs = TRUE]
Directory == [Page EXCEPT !.isreg = FALSE, !.xusr = TRUE]

(* Modes 0000, and 0700 of another user: a script, and no program for the  *)
(* server                                                                  *)
Secret    == [Page EXCEPT !.rusr = FALSE, !.readable = FALSE]
Anothers  == [Script EXCEPT !.readable = FALSE, !.runs = FALSE]

(* The execute bits are set, and there is nothing to execute. *)
Touched   == [Empty EXCEPT !.xusr = TRUE]

MCFiles == {Page, Empty, Script, Directory, Secret, Anothers, Touched, NoFile}
=============================================================================
