------------------------------- MODULE Shell --------------------------------
(***************************************************************************)
(* What smash makes of a line: splitting it into words, choosing the       *)
(* command, nesting pipes and redirections, and the commands that act on   *)
(* the shell itself (chprompt, showpid, pwd, cd, quit).  Jobs are Smash's, *)
(* descriptors are Pipe's.                                                 *)
(*                                                                         *)
(* A line is a sequence of letters; a letter may stand for a whole word of *)
(* which only the identity matters ("cd").  A step that leaves the arrays  *)
(* and objects of the C++ program ends in pc = "fault".                    *)
(***************************************************************************)
EXTENDS Integers, Sequences, FiniteSetsExt, SequencesExt

CONSTANTS
  COMMAND_MAX_LENGTH, COMMAND_MAX_ARGS,
  Lines,             \* what may be typed
  Dirs,              \* directories, by absolute path
  HomeDir,           \* where the shell is started
  Resolve(_, _),     \* (path, word) |-> what the word names from there: a path or "none"
  MaxRemovals        \* bound: how often a directory is removed

ASSUME ShellAssumption ==
  /\ COMMAND_MAX_LENGTH \in Nat /\ COMMAND_MAX_ARGS \in Nat
  /\ HomeDir \in Dirs /\ MaxRemovals \in Nat
  /\ \A line \in Lines : line \in Seq(Range(line))

VARIABLES
  pc,                \* "prompt", "line", "ran", "gone", "fault"
  typed,             \* the line read (not in the code)
  todo,              \* what of it the shell itself has still to execute
  nested,            \* todo is a part of a pipe or redirection
  ran,               \* the last external command forked from it
  eof,               \* nothing more can be read
  quit, display_prompt, last_pwd,
  cwd, gone,         \* the current directory, and whether it has been removed
  dirs, removals     \* the directories there are; how many were removed

lineVars  == <<typed, todo, nested, ran, eof>>
ownVars   == <<quit, display_prompt, last_pwd, cwd>>
worldVars == <<gone, dirs, removals>>
vars      == <<pc, lineVars, ownVars, worldVars>>

WHITESPACE == {" ", "\t"}
SPECIAL_CHARACTERS == {"*", "?"}

Unset == "unset"
DEFAULT_PROMPT == <<"smash">>
Nothing == [args |-> <<>>, background |-> FALSE, special |-> FALSE]

-----------------------------------------------------------------------------
(* Lines and words                                                         *)

NotBlank(s) == {i \in DOMAIN s : s[i] \notin WHITESPACE}

_ltrim(s) == IF NotBlank(s) = {} THEN <<>> ELSE SubSeq(s, Min(NotBlank(s)), Len(s))
_rtrim(s) == IF NotBlank(s) = {} THEN <<>> ELSE SubSeq(s, 1, Max(NotBlank(s)))
_trim(s)  == _rtrim(_ltrim(s))

(* The words that >> takes from the trimmed line, a letter at a time *)
Taken(acc, c) ==
  IF c \in WHITESPACE THEN [acc EXCEPT !.in = FALSE]
  ELSE [in    |-> TRUE,
        words |-> IF acc.in THEN Front(acc.words) \o <<Append(Last(acc.words), c)>>
                  ELSE Append(acc.words, <<c>>)]

_parseCommandLine(s) ==
  LET t == _trim(s)
      acc[n \in 0..Len(t)] ==
        IF n = 0 THEN [in |-> FALSE, words |-> <<>>] ELSE Taken(acc[n - 1], t[n])
  IN  acc[Len(t)].words

_isBackgroundCommand(s) == s[Max(NotBlank(s))] = "&"

Mut_removeBackgroundSign(s) == s

(* What is left of the line ends in the space that replaced the sign. *)
_removeBackgroundSign(s) ==
  IF _isBackgroundCommand(s) THEN SubSeq(s, 1, Max(NotBlank(s)) - 1) \o <<" ">> ELSE s

_hasSpecialCharacters(s) == \E i \in DOMAIN s : s[i] \in SPECIAL_CHARACTERS

(* The first separator of the line: a pipe, if there is one *)
Positions(s, c) == {i \in DOMAIN s : s[i] = c}

_isSpecialCommand(s) ==
  LET kind  == IF Positions(s, "|") # {} THEN "|" ELSE ">"
      index == Min(Positions(s, kind))
      twice == index < Len(s) /\ s[index + 1] = (IF kind = "|" THEN "&" ELSE ">")
  IN  [kind |-> kind, left |-> SubSeq(s, 1, index - 1),
       right |-> SubSeq(s, index + (IF twice THEN 2 ELSE 1), Len(s))]

IsSpecial(s) == Positions(s, "|") \cup Positions(s, ">") # {}

-----------------------------------------------------------------------------
(* Making a command                                                        *)

Cut(s) == SubSeq(s, 1, Min({Len(s), COMMAND_MAX_LENGTH}))

(* The arguments the constructor of Command finds *)
args(s) == _parseCommandLine(_removeBackgroundSign(Cut(s)))

MutCommandFaults(s) ==
  NotBlank(Cut(s)) # {} => Len(args(s)) + 1 >= COMMAND_MAX_ARGS

(* It reads in front of the line if the part it copied is blank (idx is an *)
(* unsigned int and never equal to npos), and writes behind arguments[] if *)
(* there are as many words as that has places.                             *)
CommandFaults(s) ==
  NotBlank(Cut(s)) # {} => Len(args(s)) >= COMMAND_MAX_ARGS

(* CreateCommand returns NULL *)
IsNULL(s) == ~IsSpecial(s) /\ _trim(s) = <<>>

(* The word that selects a command ends at a space, not at a tab, and with *)
(* the "&" that follows it.                                                *)
firstWord(s) ==
  LET t == _trim(s)
      blanks == Positions(t, " ")
  IN  IF blanks = {} THEN t ELSE SubSeq(t, 1, Min(blanks) - 1)

BuiltIns == {<<"chprompt">>, <<"pwd">>, <<"showpid">>, <<"cd">>, <<"jobs">>, <<"quit">>}

-----------------------------------------------------------------------------
(* The main loop                                                           *)

Init ==
  /\ pc = "prompt" /\ typed = <<>> /\ todo = <<>> /\ nested = FALSE
  /\ ran = Nothing /\ eof = FALSE
  /\ quit = FALSE /\ display_prompt = DEFAULT_PROMPT /\ last_pwd = Unset
  /\ cwd = HomeDir /\ gone = FALSE /\ dirs = Dirs /\ removals = 0

(* getline: at the end of the input an empty line, again and again *)
ReadLine ==
  /\ pc = "prompt"
  /\ typed' \in (IF eof THEN {<<>>} ELSE Lines)
  /\ todo' = typed' /\ nested' = FALSE
  /\ pc' = "line"
  /\ UNCHANGED <<ran, eof, ownVars, worldVars>>

(* The turn of the loop ends. *)
Return ==
  /\ pc' = IF quit' THEN "gone" ELSE "prompt"
  /\ typed' = <<>> /\ todo' = <<>> /\ nested' = FALSE /\ ran' = Nothing
  /\ eof' = eof

Fault == pc' = "fault" /\ UNCHANGED <<lineVars, ownVars, worldVars>>

EmptyLine ==
  /\ pc = "line" /\ IsNULL(todo)
  /\ UNCHANGED <<ownVars, worldVars>> /\ Return

Executing(word) ==
  /\ pc = "line" /\ ~IsSpecial(todo) /\ ~CommandFaults(todo)
  /\ word = firstWord(todo)

(* The constructor goes astray. *)
CreateFaults ==
  /\ pc = "line" /\ ~IsNULL(todo) /\ CommandFaults(todo)
  /\ Fault

Descend(part) ==
  /\ todo' = part /\ nested' = TRUE
  /\ UNCHANGED <<pc, typed, ran, eof, ownVars, worldVars>>

MutPipeExecute ==
  /\ pc = "line" /\ IsSpecial(todo) /\ _isSpecialCommand(todo).kind = "|"
  /\ Descend(_isSpecialCommand(todo).left)

(* Both sides are made, and told to run in the foreground: a side without  *)
(* a word is a null pointer.  The left one runs in a child, the right one  *)
(* in the shell.  pipe() may fail before.                                  *)
PipeExecute ==
  LET cmd == _isSpecialCommand(todo)
      sides == {cmd.left, cmd.right}
  IN  /\ pc = "line" /\ IsSpecial(todo) /\ ~CommandFaults(todo) /\ cmd.kind = "|"
      /\ \/ UNCHANGED <<ownVars, worldVars>> /\ Return
         \/ (\E s \in sides : IsNULL(s) \/ CommandFaults(s)) /\ Fault
         \/ (\A s \in sides : ~IsNULL(s) /\ ~CommandFaults(s)) /\ Descend(cmd.right)

(* The redirected command runs in the shell, unless the file cannot be     *)
(* opened.                                                                 *)
RedirectionExecute ==
  LET cmd == _isSpecialCommand(todo)
  IN  /\ pc = "line" /\ IsSpecial(todo) /\ ~CommandFaults(todo) /\ cmd.kind = ">"
      /\ IF IsNULL(cmd.left) \/ CommandFaults(cmd.left) THEN Fault
         ELSE \/ UNCHANGED <<ownVars, worldVars>> /\ Return
              \/ Descend(cmd.left)

-----------------------------------------------------------------------------
(* The commands                                                            *)

(* The shell forks, and waits for a foreground command: see Smash. *)
ExternalExecute ==
  /\ Executing(firstWord(todo)) /\ firstWord(todo) \notin BuiltIns /\ ~IsNULL(todo)
  /\ ran' = [args |-> args(todo), special |-> _hasSpecialCharacters(todo),
             background |-> _isBackgroundCommand(todo) /\ ~nested]
  /\ pc' = "ran"
  /\ UNCHANGED <<typed, todo, nested, eof, ownVars, worldVars>>

ExternalDone == pc = "ran" /\ UNCHANGED <<ownVars, worldVars>> /\ Return

ChangePrompt ==
  /\ Executing(<<"chprompt">>)
  /\ display_prompt' = IF Len(args(todo)) < 2 THEN DEFAULT_PROMPT ELSE args(todo)[2]
  /\ UNCHANGED <<quit, last_pwd, cwd, worldVars>> /\ Return

(* pwd and showpid print; jobs stands for the commands on jobs, of Smash. *)
Prints ==
  /\ \E word \in {<<"pwd">>, <<"showpid">>, <<"jobs">>} : Executing(word)
  /\ UNCHANGED <<ownVars, worldVars>> /\ Return

QuitCommand ==
  /\ Executing(<<"quit">>)
  /\ quit' = TRUE
  /\ UNCHANGED <<display_prompt, last_pwd, cwd, worldVars>> /\ Return

new_dir ==
  IF args(todo)[2] = <<"-">> THEN last_pwd ELSE Resolve(cwd, args(todo)[2])

(* What cd does when getcwd() and chdir() succeed *)
MutMoves ==
  /\ cwd' = new_dir /\ last_pwd' = new_dir

Moves ==
  /\ cwd' = new_dir /\ last_pwd' = cwd

(* cd.  getcwd() fails in a directory that has been removed, and before    *)
(* chdir() is tried.  A relative word names nothing there either.          *)
ChangeDirCommand ==
  /\ Executing(<<"cd">>)
  /\ IF Len(args(todo)) = 2 /\ ~gone /\ new_dir \in dirs
     THEN Moves /\ gone' = FALSE
     ELSE UNCHANGED <<cwd, last_pwd, gone>>
  /\ UNCHANGED <<quit, display_prompt, dirs, removals>> /\ Return

-----------------------------------------------------------------------------
(* The world: the input ends; a directory is removed, or made again, while *)
(* the prompt is on the screen.                                            *)

InputEnds ==
  /\ pc = "prompt" /\ ~eof /\ eof' = TRUE
  /\ UNCHANGED <<pc, typed, todo, nested, ran, ownVars, worldVars>>

RemoveDir(d) ==
  /\ pc = "prompt" /\ d \in dirs \ {HomeDir} /\ removals < MaxRemovals
  /\ dirs' = dirs \ {d} /\ removals' = removals + 1
  /\ gone' = (gone \/ cwd = d)
  /\ UNCHANGED <<pc, lineVars, ownVars>>

MakeDir(d) ==
  /\ pc = "prompt" /\ d \notin dirs
  /\ dirs' = dirs \cup {d}
  /\ UNCHANGED <<pc, lineVars, ownVars, gone, removals>>

Stopped == pc \in {"gone", "fault"} /\ UNCHANGED vars

Next ==
  \/ ReadLine \/ EmptyLine \/ CreateFaults \/ PipeExecute \/ RedirectionExecute
  \/ ExternalExecute \/ ExternalDone \/ ChangePrompt \/ Prints \/ QuitCommand \/ ChangeDirCommand
  \/ InputEnds \/ (\E d \in Dirs : RemoveDir(d) \/ MakeDir(d)) \/ Stopped

Spec == Init /\ [][Next]_vars

-----------------------------------------------------------------------------
(* Properties                                                              *)

(* The stages of a line: what stands between its pipe signs, "|&" being    *)
(* one of them; the last one is the shell's own.                           *)
After(line, i) ==
  SubSeq(line, IF i > 0 /\ i < Len(line) /\ line[i + 1] = "&" THEN i + 2 ELSE i + 1, Len(line))

UpTo(part, c) == SubSeq(part, 1, Min(Positions(part, c) \cup {Len(part) + 1}) - 1)

Starts(line) == Positions(line, "|") \cup {0}

StageAt(line, i) == UpTo(After(line, i), "|")

LastStage(line) == StageAt(line, Max(Starts(line)))

(* What a stage runs: it up to its first ">" *)
Program(stage) == UpTo(stage, ">")

(* The words of a line: its longest runs of letters that are not blank, in *)
(* their order, of the part that is looked at and without the last "&".    *)
WordsOf(line) ==
  LET cut   == SubSeq(line, 1, Min({Len(line), COMMAND_MAX_LENGTH}))
      sign  == {i \in DOMAIN cut : cut[i] = "&" /\ \A j \in (i + 1)..Len(cut) : cut[j] \in WHITESPACE}
      full  == NotBlank(cut) \ sign
      first == {i \in full : i - 1 \notin full}
      last(i) == Max({j \in full : i..j \subseteq full})
      nth(k) == CHOOSE i \in first : Cardinality({j \in first : j <= i}) = k
  IN  [k \in 1..Cardinality(first) |-> SubSeq(cut, nth(k), last(nth(k)))]

(* An external command gets the words that were typed for it, and leaves   *)
(* the prompt free exactly if the line ends in "&" and is neither a pipe   *)
(* nor a redirection, wherever the line was cut.                           *)
RunAsTyped ==
  pc = "ran" =>
    LET own == Program(LastStage(typed))
    IN  /\ ran.args = WordsOf(own)
        /\ ran.background <=> own = typed /\ Last(_trim(typed)) = "&"

(* The shell survives every line but these: a part of it that has no word  *)
(* next to a pipe or in front of a redirection of its own, as many words   *)
(* as there are places, or a beginning as long as a command without one.   *)
(* In the other stages, which run in children, a redirection of nothing    *)
(* does no harm to the shell.                                              *)
Harmless(part) ==
  /\ \E i \in DOMAIN part : i <= COMMAND_MAX_LENGTH /\ part[i] \notin WHITESPACE
  /\ Len(WordsOf(part)) < COMMAND_MAX_ARGS

FaultsOnlyBy ==
  pc = "fault" =>
    \/ \E i \in Starts(typed) : ~Harmless(After(typed, i)) \/ ~Harmless(StageAt(typed, i))
    \/ ~Harmless(Program(LastStage(typed)))

(* The prompt, the directory and the end of the shell are changed by the   *)
(* last stage of a line alone, by a command that is its first word; the    *)
(* end of the input does not end the shell.                                *)
LastStageOnly ==
  [][ownVars' # ownVars =>
       LET own == Program(LastStage(typed))
       IN  /\ _ltrim(own) # <<>>
           /\ \/ Head(_ltrim(own)) = "cd" /\ UNCHANGED <<quit, display_prompt>>
              \/ Head(_ltrim(own)) = "chprompt" /\ UNCHANGED <<quit, last_pwd, cwd>>
              \/ Head(_ltrim(own)) = "quit" /\ UNCHANGED <<display_prompt, last_pwd, cwd>>]_vars

(* "last_pwd; // always absolute path" (Commands.h:249): it is where the   *)
(* shell was before it last moved, so that cd - goes back and forth; a     *)
(* shell whose directory was removed can never leave it again.             *)
BackWhereItWas ==
  [][cwd' # cwd => /\ last_pwd' = cwd /\ ~gone /\ cwd' \in dirs
                   /\ args(todo)[2] = <<"-">> => cwd' = last_pwd]_vars
=============================================================================
