------------------------------- MODULE Smash -------------------------------
(***************************************************************************)
(* Job control of smash (Commands.cpp, signals.cpp): the main loop, the    *)
(* map of jobs, foreground and background commands, jobs, fg, bg, kill and *)
(* quit, and the two signal handlers, which interrupt the shell between    *)
(* any two of its steps.  Children run, stop and end on their own.         *)
(*                                                                         *)
(* To the map of jobs a pipe is a foreground child followed by another     *)
(* command, and a redirection is the command it redirects: see Pipe.       *)
(***************************************************************************)
EXTENDS Integers, FiniteSets

CONSTANTS
  Pids,         \* the process numbers the kernel may give to a child
  MaxId,        \* bound: no job is added above this id
  Signals       \* what the kill command sends: a subset of SignalNames

SignalNames == {"SIGKILL", "SIGSTOP", "SIGCONT"}

ASSUME SignalsAssumption == Signals \subseteq SignalNames
ASSUME MaxIdAssumption == MaxId \in Nat

VARIABLES
  proc,         \* the kernel's view of each pid as a child of smash
  told,         \* stopped children whose stop waitpid() has reported
  jobs,         \* JobsList::jobs: id -> [pid, state]
  foreground,   \* JobsList::foreground: the id of the job pointed to, or NULL
  waiting,      \* the pid swaitpid() was called with
  pc,           \* where the shell is
  killed,       \* whether quit kill was given
  stray,        \* a signal was sent to a pid that is no child any more
  odd           \* pids that stopped or went on without a word to the list

vars == <<proc, told, jobs, foreground, waiting, pc, killed, stray, odd>>

NULL == 0
NoPid == "no pid"

jobState == {"Foreground", "Background", "Stopped"}

Entry(pid, state) == [pid |-> pid, state |-> state]

(* none: not a child (any more), so the number is free for another process *)
(* dying: SIGKILL was sent; zombie: ended, and not waited for yet          *)
ProcStates == {"none", "running", "stopped", "dying", "zombie"}

-----------------------------------------------------------------------------
(* The kernel                                                              *)

(* The table after kill(pid, sig) *)
Signalled(table, pid, sig) ==
  [table EXCEPT ![pid] =
    CASE sig = "SIGKILL" /\ @ \in {"running", "stopped"} -> "dying"
      [] sig = "SIGSTOP" /\ @ = "running" -> "stopped"
      [] sig = "SIGCONT" /\ @ = "stopped" -> "running"
      [] OTHER -> @]

(* A process that has gone on, or ended, has no stop to report. *)
StillTold(table) == {p \in told : table[p] = "stopped"}

ChildEnds(p) ==
  /\ proc[p] = "running"
  /\ proc' = [proc EXCEPT ![p] = "zombie"]
  /\ UNCHANGED <<told, jobs, foreground, waiting, pc, killed, stray, odd>>

ChildDies(p) ==
  /\ proc[p] = "dying"
  /\ proc' = [proc EXCEPT ![p] = "zombie"]
  /\ UNCHANGED <<told, jobs, foreground, waiting, pc, killed, stray, odd>>

(* By itself: SIGTTIN, or SIGSTOP from somewhere else *)
ChildStops(p) ==
  /\ proc[p] = "running"
  /\ proc' = [proc EXCEPT ![p] = "stopped"]
  /\ odd' = odd \cup {p}
  /\ UNCHANGED <<told, jobs, foreground, waiting, pc, killed, stray>>

-----------------------------------------------------------------------------
(* The list of jobs                                                        *)

(* swaitpid(pid, WNOHANG) # 0: the job has ended, or is no child *)
Finished(id) == proc[jobs[id].pid] \in {"none", "zombie"}

(* The ids that removeFinishedJobs leaves *)
Left == {id \in DOMAIN jobs : ~Finished(id)}

Kept == [id \in Left |-> jobs[id]]

(* The process table after it: every job that has ended was waited for. *)
Reaped ==
  [p \in Pids |-> IF proc[p] = "zombie" /\ \E id \in DOMAIN jobs : jobs[id].pid = p
                  THEN "none" ELSE proc[p]]

(* The jobs of a list, one more or changed *)
WithJob(list, id, entry) ==
  [i \in DOMAIN list \cup {id} |-> IF i = id THEN entry ELSE list[i]]

LastOf(ids) == CHOOSE id \in ids : \A other \in ids : other <= id

Mutnew_job_id == Cardinality(Left) + 1

(* addJob numbers a new job one above the last one left. *)
new_job_id == IF Left = {} THEN 1 ELSE LastOf(Left) + 1

(* swaitpid resets foreground for every job it looks at. *)
ForegroundLeft ==
  IF \E id \in DOMAIN jobs : proc[jobs[id].pid] # "none" THEN NULL ELSE foreground

(* removeFinishedJobs, and what the command then makes of the process      *)
(* table and the jobs it left                                              *)
removeFinishedJobs(table, list) ==
  /\ proc' = table
  /\ jobs' = list
  /\ told' = StillTold(table)

-----------------------------------------------------------------------------
(* Commands, given at the prompt                                           *)

Init ==
  /\ proc = [p \in Pids |-> "none"]
  /\ told = {}
  /\ jobs = <<>>
  /\ foreground = NULL
  /\ waiting = NoPid
  /\ pc = "prompt"
  /\ killed = FALSE
  /\ stray = FALSE
  /\ odd = {}

(* sfork() in the shell, of a command given with & *)
ExternalBackground ==
  /\ pc = "prompt"
  /\ new_job_id <= MaxId
  /\ \E p \in Pids :
       /\ proc[p] = "none"
       /\ removeFinishedJobs([Reaped EXCEPT ![p] = "running"],
                             WithJob(Kept, new_job_id, Entry(p, "Background")))
       /\ odd' = odd \ {p}
  /\ foreground' = ForegroundLeft
  /\ UNCHANGED <<waiting, pc, killed, stray>>

(* ... and of one given without *)
ExternalForeground ==
  /\ pc = "prompt"
  /\ new_job_id <= MaxId
  /\ \E p \in Pids :
       /\ proc[p] = "none"
       /\ removeFinishedJobs([Reaped EXCEPT ![p] = "running"],
                             WithJob(Kept, new_job_id, Entry(p, "Foreground")))
       /\ waiting' = p /\ odd' = odd \ {p}
  /\ foreground' = new_job_id
  /\ pc' = "wait"
  /\ UNCHANGED <<killed, stray>>

(* When fork() fails sfork() returns no value.  If the garbage is zero the *)
(* shell takes itself for the child: it turns into the command, or exits.  *)
ForkFails ==
  /\ pc = "prompt"
  /\ pc' \in {"prompt", "gone"}
  /\ UNCHANGED <<proc, told, jobs, foreground, waiting, killed, stray, odd>>

(* Also what fg, bg and kill come to when there is no job they can take:  *)
(* the list was cleared of finished jobs all the same.                     *)
JobsCommand ==
  /\ pc = "prompt"
  /\ removeFinishedJobs(Reaped, Kept)
  /\ foreground' = ForegroundLeft
  /\ UNCHANGED <<waiting, pc, killed, stray, odd>>

MutForegroundCommand(id) ==
  /\ pc = "prompt"
  /\ id \in Left
  /\ removeFinishedJobs(Reaped, WithJob(Kept, id, Entry(jobs[id].pid, "Foreground")))
  /\ foreground' = id
  /\ waiting' = jobs[id].pid
  /\ pc' = "wait"
  /\ odd' = odd \ {jobs[id].pid}
  /\ UNCHANGED <<killed, stray>>

(* fg: with an id, or without one, for the last job *)
ForegroundCommand(id) ==
  /\ pc = "prompt"
  /\ id \in Left
  /\ removeFinishedJobs(Signalled(Reaped, jobs[id].pid, "SIGCONT"),
                        WithJob(Kept, id, Entry(jobs[id].pid, "Foreground")))
  /\ foreground' = id
  /\ waiting' = jobs[id].pid
  /\ pc' = "wait"
  /\ odd' = odd \ {jobs[id].pid}
  /\ UNCHANGED <<killed, stray>>

(* bg with an id takes any job that is not in the background already;      *)
(* without one the last stopped job, which is one of these.                *)
BackgroundCommand(id) ==
  /\ pc = "prompt"
  /\ id \in Left
  /\ jobs[id].state # "Background"
  /\ removeFinishedJobs(Signalled(Reaped, jobs[id].pid, "SIGCONT"),
                        WithJob(Kept, id, Entry(jobs[id].pid, "Background")))
  /\ foreground' = ForegroundLeft
  /\ odd' = odd \ {jobs[id].pid}
  /\ UNCHANGED <<waiting, pc, killed, stray>>

(* kill changes the process, and no state of the job. *)
KillCommand(id, sig) ==
  /\ pc = "prompt"
  /\ id \in Left
  /\ removeFinishedJobs(Signalled(Reaped, jobs[id].pid, sig), Kept)
  /\ foreground' = ForegroundLeft
  /\ odd' = IF sig = "SIGKILL" THEN odd ELSE odd \cup {jobs[id].pid}
  /\ UNCHANGED <<waiting, pc, killed, stray>>

Quit ==
  /\ pc = "prompt"
  /\ pc' = "gone"
  /\ UNCHANGED <<proc, told, jobs, foreground, waiting, killed, stray, odd>>

MutkillAllJobs ==
  [p \in Pids |-> IF \E id \in Left : jobs[id].pid = p /\ jobs[id].state # "Stopped"
                  THEN Signalled(Reaped, p, "SIGKILL")[p] ELSE Reaped[p]]

(* killAllJobs, to the process table: every job left is sent a SIGKILL. *)
killAllJobs ==
  [p \in Pids |-> IF \E id \in Left : jobs[id].pid = p
                  THEN Signalled(Reaped, p, "SIGKILL")[p] ELSE Reaped[p]]

(* ... and all of them are erased without waiting. *)
QuitKill ==
  /\ pc = "prompt"
  /\ removeFinishedJobs(killAllJobs, <<>>)
  /\ killed' = TRUE
  /\ foreground' = ForegroundLeft
  /\ pc' = "gone"
  /\ UNCHANGED <<waiting, stray, odd>>

-----------------------------------------------------------------------------
(* swaitpid(waiting, WUNTRACED), in three steps a signal can come between  *)

WaitExited ==
  /\ pc = "wait"
  /\ proc[waiting] = "zombie"
  /\ proc' = [proc EXCEPT ![waiting] = "none"]
  /\ pc' = "reaped"
  /\ UNCHANGED <<told, jobs, foreground, waiting, killed, stray, odd>>

WaitStopped ==
  /\ pc = "wait"
  /\ proc[waiting] = "stopped"
  /\ waiting \notin told
  /\ told' = told \cup {waiting}
  /\ pc' = "reset"
  /\ UNCHANGED <<proc, jobs, foreground, waiting, killed, stray, odd>>

MutRemoveForeground ==
  /\ pc = "reaped"
  /\ jobs' = jobs
  /\ pc' = "reset"
  /\ UNCHANGED <<proc, told, foreground, waiting, killed, stray, odd>>

(* The job of a process that ended is erased; foreground still points to it *)
RemoveForeground ==
  /\ pc = "reaped"
  /\ jobs' = [id \in DOMAIN jobs \ {foreground} |-> jobs[id]]
  /\ pc' = "reset"
  /\ UNCHANGED <<proc, told, foreground, waiting, killed, stray, odd>>

MutResetForeground ==
  /\ pc = "reset"
  /\ waiting' = NoPid
  /\ pc' = "prompt"
  /\ UNCHANGED <<proc, told, jobs, foreground, killed, stray, odd>>

ResetForeground ==
  /\ pc = "reset"
  /\ foreground' = NULL
  /\ waiting' = NoPid
  /\ pc' = "prompt"
  /\ UNCHANGED <<proc, told, jobs, killed, stray, odd>>

-----------------------------------------------------------------------------
(* The handlers                                                            *)

(* A handler follows the pointer.  Between waitpid() and the reset the pid *)
(* it finds there names no child any more, if it is a pid at all.          *)
Dangling ==
  foreground # NULL /\ (foreground \in DOMAIN jobs => proc[jobs[foreground].pid] = "none")

MutctrlZHandler ==
  /\ foreground \in DOMAIN jobs /\ ~Dangling
  /\ proc' = Signalled(proc, jobs[foreground].pid, "SIGSTOP")
  /\ UNCHANGED <<told, jobs, foreground, waiting, pc, killed, stray, odd>>

(* The process is stopped and its job marked; the shell's waitpid() goes   *)
(* on (SA_RESTART) and will see the stop.                                  *)
ctrlZHandler ==
  /\ foreground \in DOMAIN jobs /\ ~Dangling
  /\ proc' = Signalled(proc, jobs[foreground].pid, "SIGSTOP")
  /\ jobs' = [jobs EXCEPT ![foreground].state = "Stopped"]
  /\ UNCHANGED <<told, foreground, waiting, pc, killed, stray, odd>>

ctrlCHandler ==
  /\ foreground \in DOMAIN jobs /\ ~Dangling
  /\ proc' = Signalled(proc, jobs[foreground].pid, "SIGKILL")
  /\ told' = StillTold(proc')
  /\ UNCHANGED <<jobs, foreground, waiting, pc, killed, stray, odd>>

(* Either handler through a dangling pointer *)
StraySignal ==
  /\ Dangling
  /\ stray' = TRUE
  /\ UNCHANGED <<proc, told, jobs, foreground, waiting, pc, killed, odd>>

-----------------------------------------------------------------------------
Command ==
  \/ ExternalBackground \/ ExternalForeground \/ ForkFails
  \/ JobsCommand \/ Quit \/ QuitKill
  \/ \E id \in DOMAIN jobs :
       ForegroundCommand(id) \/ BackgroundCommand(id) \/ \E sig \in Signals : KillCommand(id, sig)

swaitpid == WaitExited \/ WaitStopped \/ RemoveForeground \/ ResetForeground

Handler == ctrlZHandler \/ ctrlCHandler \/ StraySignal

Child(p) == ChildEnds(p) \/ ChildDies(p) \/ ChildStops(p)

(* A shell that is gone leaves its children to others. *)
Gone == pc = "gone" /\ UNCHANGED vars

Next == Command \/ swaitpid \/ Handler \/ (\E p \in Pids : Child(p)) \/ Gone

Spec == Init /\ [][Next]_vars

(* The shell goes on after waitpid(), and the kernel ends what was killed. *)
(* No program is assumed to end and nobody is assumed to type anything.    *)
FairSpec == Spec /\ WF_vars(swaitpid) /\ \A p \in Pids : WF_vars(ChildDies(p))

-----------------------------------------------------------------------------
(* Properties                                                              *)

(* The table of processes, the jobs list and the fields of SmallShell have *)
(* their types; job ids run from 1 to MaxId.                               *)
TypeOK ==
  /\ proc \in [Pids -> ProcStates]
  /\ told \subseteq {p \in Pids : proc[p] = "stopped"}
  /\ DOMAIN jobs \subseteq 1..MaxId
  /\ \A id \in DOMAIN jobs : jobs[id] \in [pid : Pids, state : jobState]
  /\ foreground \in 0..MaxId
  /\ waiting \in Pids \cup {NoPid}
  /\ pc \in {"prompt", "wait", "reaped", "reset", "gone"}
  /\ killed \in BOOLEAN /\ stray \in BOOLEAN

(* No two jobs share a process, and a job's process is a child that nobody *)
(* has waited for, so that its number cannot have gone to another process: *)
(* fg, bg, kill and quit kill signal what the user means.                  *)
OwnProcess ==
  /\ \A i, j \in DOMAIN jobs : jobs[i].pid = jobs[j].pid => i = j
  /\ \A id \in DOMAIN jobs :
       proc[jobs[id].pid] = "none" => pc = "reaped" /\ id = foreground

(* As long as the shell lives every child of it is in the list: none can   *)
(* run, stop or stay a zombie out of reach of the commands.                *)
NoLostChild ==
  pc # "gone" => \A p \in Pids : proc[p] # "none" => \E id \in DOMAIN jobs : jobs[id].pid = p

(* foreground points to the job that swaitpid waits for, and to nothing    *)
(* when it does not wait: Ctrl-C and Ctrl-Z reach the command in front of  *)
(* the user and no other, and removeJobById removes the right job.         *)
ForegroundIsAwaited ==
  /\ foreground # NULL <=> pc \in {"wait", "reaped", "reset"}
  /\ pc \in {"wait", "reaped"} =>
       foreground \in DOMAIN jobs /\ jobs[foreground].pid = waiting

(* "Foreground: running at foreground", "Background: running at            *)
(* background", "Stopped: stopped and moved background" (Commands.h:48-50): *)
(* with the prompt on the screen the list says of no job that it is in the *)
(* foreground, of no stopped process that it runs and of no running one    *)
(* that it is stopped; unless the process stopped by itself or was sent a  *)
(* signal with kill, which the list is not told, since fg or bg last had   *)
(* it.                                                                     *)
StateIsTrue ==
  pc = "prompt" =>
    \A id \in {i \in DOMAIN jobs : jobs[i].pid \notin odd} :
      /\ jobs[id].state # "Foreground"
      /\ jobs[id].state = "Background" => proc[jobs[id].pid] # "stopped"
      /\ jobs[id].state = "Stopped" => proc[jobs[id].pid] # "running"

(* A handler signals a process that is no child any more only between      *)
(* waitpid() and foreground = NULL in swaitpid.                            *)
StrayOnlyInWindow == [][stray' # stray => pc \in {"reaped", "reset"}]_vars

(* quit kill leaves no child alive, neither a stopped one nor one that was *)
(* started while others ended.                                             *)
QuitKillsAll == killed => \A p \in Pids : proc[p] \notin {"running", "stopped"}

(* Ctrl-C and Ctrl-Z bring the prompt back: a foreground job that is       *)
(* killed or stopped, at whatever moment, does not leave the shell waiting,*)
(* also when it was stopped before and came back by fg.                    *)
InterruptEnds ==
  (pc = "wait" /\ proc[waiting] \in {"dying", "stopped", "zombie"}) ~> (pc = "prompt")
=============================================================================
