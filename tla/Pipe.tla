-------------------------------- MODULE Pipe --------------------------------
(***************************************************************************)
(* Pipes and redirections of smash (PipeCommand::execute and               *)
(* RedirectionCommand::execute, Commands.cpp): what happens to the         *)
(* descriptors of the shell and to the bytes that go through the pipes.    *)
(*                                                                         *)
(* CreateCommand splits a line at its first pipe, so that a line is a      *)
(* chain of stages: for each but the last the shell makes a pipe, forks a  *)
(* child that writes to it, waits for the child to end, and executes the   *)
(* rest of the line with the pipe as its own standard input.  The last     *)
(* stage may be redirected, and may be a built-in command.                 *)
(*                                                                         *)
(* The first child writes some bytes; every other one reads its input to   *)
(* the end and writes as many.  Ctrl-C and Ctrl-Z are in Smash.            *)
(***************************************************************************)
EXTENDS Integers, Sequences, SequencesExt

CONSTANTS
  MaxStages,    \* bound: commands in a line
  MaxBytes,     \* bound: what the first of them writes
  PipeSize,     \* how much a pipe holds
  FdMax         \* the highest descriptor the shell may open

ASSUME PipeAssumption == MaxStages \in Nat \ {0} /\ MaxBytes \in Nat /\ PipeSize \in Nat
ASSUME FdAssumption == FdMax \in Nat /\ FdMax >= 2

VARIABLES
  fds,          \* the shell's descriptors: what each refers to
  copies,       \* the stdin_copy of each PipeCommand being executed
  outer,        \* file and stdout_copy of a RedirectionCommand being executed
  stage,        \* the stage being executed
  line,         \* the line: how many stages, whether the last is redirected
  ppc,          \* where execute() is
  child,        \* the child the shell waits for
  content,      \* the bytes in each pipe
  sent,         \* the bytes the first child writes
  printed       \* the bytes the last child wrote, or None

pipeVars == <<fds, copies, outer, stage, line, ppc, child, content, sent, printed>>

None == -1

(* What a descriptor refers to *)
Closed == <<"closed", 0>>
Tty(fd) == <<"tty", fd>>
File == <<"file", 0>>
ReadEnd(i) == <<"read", i>>
WriteEnd(i) == <<"write", i>>

STDIN == 0
STDOUT == 1

(* The descriptors of a shell that has nothing redirected *)
Std == [fd \in 0..FdMax |-> IF fd <= 2 THEN Tty(fd) ELSE Closed]

NoRedirection == [file |-> None, copy |-> None]

NoChild == [state |-> "none", bytes |-> 0]

-----------------------------------------------------------------------------
(* The system calls                                                        *)

FreeFds(table) == {fd \in 0..FdMax : table[fd] = Closed}

LowestFd(table) == CHOOSE fd \in FreeFds(table) : \A other \in FreeFds(table) : fd <= other

(* A table with object at the lowest free descriptor, and that descriptor; *)
(* or the same table and -1                                                *)
Opened(table, object) ==
  IF FreeFds(table) = {} THEN [table |-> table, fd |-> None]
  ELSE [table |-> [table EXCEPT ![LowestFd(table)] = object], fd |-> LowestFd(table)]

sdup(table, fd) == Opened(table, table[fd])

sdup2(table, fd, fd2) ==
  IF fd = None \/ table[fd] = Closed THEN table ELSE [table EXCEPT ![fd2] = table[fd]]

sclose(table, fd) == IF fd = None THEN table ELSE [table EXCEPT ![fd] = Closed]

(* pipe() with the read end, then the write end *)
PipeOpened(i) ==
  LET reading == Opened(fds, ReadEnd(i)) IN Opened(reading.table, WriteEnd(i)).table

Fd(object) == CHOOSE fd \in 0..FdMax : fds[fd] = object

-----------------------------------------------------------------------------
PipeInit ==
  /\ fds = Std
  /\ copies = <<>>
  /\ outer = NoRedirection
  /\ stage = 0
  /\ line = [stages |-> 0, redirected |-> FALSE]
  /\ ppc = "prompt"
  /\ child = NoChild
  /\ content = [i \in 1..MaxStages |-> 0]
  /\ sent = 0
  /\ printed = None

(* The next line is read. *)
Read ==
  /\ ppc = "prompt"
  /\ line' \in [stages : 1..MaxStages, redirected : BOOLEAN]
  /\ sent' \in 0..MaxBytes
  /\ stage' = 1
  /\ ppc' = "execute"
  /\ content' = [i \in 1..MaxStages |-> 0]
  /\ printed' = None
  /\ UNCHANGED <<fds, copies, outer, child>>

(* What a child is forked to do *)
Forked ==
  IF stage = 1 THEN [state |-> "writing", bytes |-> sent]
  ELSE [state |-> "reading", bytes |-> 0]

(* pipe() and the fork of a stage that is not the last *)
MakePipe ==
  /\ ppc = "execute"
  /\ stage < line.stages
  /\ \E one, two \in FreeFds(fds) : one # two
  /\ fds' = PipeOpened(stage)
  /\ child' = Forked
  /\ ppc' = "wait"
  /\ UNCHANGED <<copies, outer, stage, line, content, sent, printed>>

(* pipe() fails, for want of descriptors or of memory. *)
PipeFails ==
  /\ ppc = "execute"
  /\ stage < line.stages
  /\ ppc' = "restore"
  /\ UNCHANGED <<fds, copies, outer, stage, line, child, content, sent, printed>>

MutSwapped ==
  LET copy == sdup(fds, STDIN)
      onto == sdup2(copy.table, Fd(ReadEnd(stage)), STDIN)
  IN  [table |-> sclose(onto, Fd(ReadEnd(stage))), fd |-> copy.fd]

(* stdin_copy = sdup(0); the read end becomes 0; both ends are closed. *)
Swapped ==
  LET copy == sdup(fds, STDIN)
      onto == sdup2(copy.table, Fd(ReadEnd(stage)), STDIN)
  IN  [table |-> sclose(sclose(onto, Fd(ReadEnd(stage))), Fd(WriteEnd(stage))),
       fd    |-> copy.fd]

MutNextStage ==
  /\ ppc = "wait"
  /\ stage < line.stages
  /\ fds' = Swapped.table
  /\ copies' = Append(copies, Swapped.fd)
  /\ stage' = stage + 1
  /\ ppc' = "execute"
  /\ UNCHANGED <<outer, line, child, content, sent, printed>>

(* The child of the stage has ended: the shell goes on with the rest. *)
NextStage ==
  /\ ppc = "wait"
  /\ stage < line.stages
  /\ child = NoChild
  /\ fds' = Swapped.table
  /\ copies' = Append(copies, Swapped.fd)
  /\ stage' = stage + 1
  /\ ppc' = "execute"
  /\ UNCHANGED <<outer, line, child, content, sent, printed>>

(* sopen() of the file, stdout_copy = sdup(1), and the file becomes 1. *)
Redirected ==
  LET file == Opened(fds, File)
      copy == sdup(file.table, STDOUT)
  IN  [table |-> sdup2(copy.table, file.fd, STDOUT),
       outer |-> [file |-> file.fd, copy |-> copy.fd]]

(* The last stage: an external command, or a built-in that needs no child. *)
ExecuteLast ==
  /\ ppc = "execute"
  /\ stage = line.stages
  /\ line.redirected => FreeFds(fds) # {}
  /\ IF line.redirected THEN fds' = Redirected.table /\ outer' = Redirected.outer
     ELSE UNCHANGED <<fds, outer>>
  /\ child' \in {Forked, NoChild}
  /\ printed' = IF child' = NoChild THEN None ELSE 0
  /\ ppc' = "wait"
  /\ UNCHANGED <<copies, stage, line, content, sent>>

(* The file cannot be opened. *)
OpenFails ==
  /\ ppc = "execute"
  /\ stage = line.stages
  /\ line.redirected
  /\ ppc' = "restore"
  /\ UNCHANGED <<fds, copies, outer, stage, line, child, content, sent, printed>>

(* sclose(file), the copy becomes 1 again, and is closed. *)
Undirected == sclose(sdup2(sclose(fds, outer.file), outer.copy, STDOUT), outer.copy)

(* The last command has ended. *)
LastEnded ==
  /\ ppc = "wait"
  /\ stage = line.stages
  /\ child = NoChild
  /\ fds' = IF line.redirected THEN Undirected ELSE fds
  /\ outer' = NoRedirection
  /\ ppc' = "restore"
  /\ UNCHANGED <<copies, stage, line, child, content, sent, printed>>

MutRestore ==
  /\ ppc = "restore"
  /\ IF copies = <<>> THEN ppc' = "prompt" /\ UNCHANGED <<fds, copies>>
     ELSE /\ fds' = sdup2(fds, Last(copies), STDIN)
          /\ copies' = Front(copies)
          /\ ppc' = ppc
  /\ UNCHANGED <<outer, stage, line, child, content, sent, printed>>

(* Each PipeCommand::execute, from the inside out, gives the shell back    *)
(* the standard input it had.                                              *)
Restore ==
  /\ ppc = "restore"
  /\ IF copies = <<>> THEN ppc' = "prompt" /\ UNCHANGED <<fds, copies>>
     ELSE /\ fds' = sclose(sdup2(fds, Last(copies), STDIN), Last(copies))
          /\ copies' = Front(copies)
          /\ ppc' = ppc
  /\ UNCHANGED <<outer, stage, line, child, content, sent, printed>>

-----------------------------------------------------------------------------
(* The child.  Its standard input is the shell's; its output is the pipe   *)
(* of its stage, or what the shell prints to when it is the last.          *)

ChildReads ==
  /\ ppc = "wait"
  /\ child.state = "reading"
  /\ \E i \in 1..MaxStages :
       /\ fds[STDIN] = ReadEnd(i)
       /\ content[i] > 0
       /\ content' = [content EXCEPT ![i] = @ - 1]
  /\ child' = [child EXCEPT !.bytes = @ + 1]
  /\ UNCHANGED <<fds, copies, outer, stage, line, ppc, sent, printed>>

(* End of file: the pipe is empty and nobody has its write end open. *)
ChildAtEnd ==
  /\ ppc = "wait"
  /\ child.state = "reading"
  /\ \E i \in 1..MaxStages :
       /\ fds[STDIN] = ReadEnd(i)
       /\ content[i] = 0
       /\ \A fd \in 0..FdMax : fds[fd] # WriteEnd(i)
  /\ child' = [child EXCEPT !.state = "writing"]
  /\ UNCHANGED <<fds, copies, outer, stage, line, ppc, content, sent, printed>>

(* The shell itself keeps the read end open: a write to a full pipe waits. *)
ChildWrites ==
  /\ ppc = "wait"
  /\ child.state = "writing"
  /\ child.bytes > 0
  /\ child' = [child EXCEPT !.bytes = @ - 1]
  /\ IF stage < line.stages
     THEN /\ content[stage] < PipeSize
          /\ content' = [content EXCEPT ![stage] = @ + 1]
          /\ UNCHANGED printed
     ELSE printed' = printed + 1 /\ UNCHANGED content
  /\ UNCHANGED <<fds, copies, outer, stage, line, ppc, sent>>

ChildExits ==
  /\ ppc = "wait"
  /\ child.state = "writing"
  /\ child.bytes = 0
  /\ child' = NoChild
  /\ UNCHANGED <<fds, copies, outer, stage, line, ppc, content, sent, printed>>

-----------------------------------------------------------------------------
Execute == MakePipe \/ PipeFails \/ NextStage \/ ExecuteLast \/ OpenFails \/ LastEnded \/ Restore

Child == ChildReads \/ ChildAtEnd \/ ChildWrites \/ ChildExits

PipeNext == Read \/ Execute \/ Child

PipeSpec == PipeInit /\ [][PipeNext]_pipeVars

(* The shell and the child it waits for are scheduled; the programs read   *)
(* and write as long as they can.  Nobody has to type a line.              *)
FairSpec == PipeSpec /\ WF_pipeVars(Execute) /\ WF_pipeVars(Child)

-----------------------------------------------------------------------------
(* Properties                                                              *)

Objects == {Closed, File} \cup {Tty(fd) : fd \in 0..2}
             \cup {ReadEnd(i) : i \in 1..MaxStages} \cup {WriteEnd(i) : i \in 1..MaxStages}

(* At the prompt the shell reads from the terminal and prints to it again, *)
(* and has no other descriptor open, however many pipes were nested, was   *)
(* the end redirected or not, and wherever pipe() or open() failed.        *)
StdioRestored == ppc = "prompt" => fds = Std /\ copies = <<>>

(* A line whose last command is external prints all that its first command *)
(* wrote: every stage reads the pipe of the stage before it.               *)
Delivered == ppc = "prompt" /\ printed # None => printed = sent

(* "runs an infinite loop that receives the next typed command and sends   *)
(* it to SmallShell::executeCommand" (skeleton_smash/README.md:4): no line *)
(* keeps the shell from the next one for ever.                             *)
CommandEnds == (ppc # "prompt") ~> (ppc = "prompt")
=============================================================================
