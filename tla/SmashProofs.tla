---------------------------- MODULE SmashProofs ----------------------------
(***************************************************************************)
(* Proofs about Smash, for every set of pids, every bound on job ids and   *)
(* every choice of signals: the jobs and the children of the shell stay in *)
(* step, and the handlers follow foreground to the job that is waited for. *)
(***************************************************************************)
EXTENDS Smash, TLAPS, WellFoundedInduction

JobEntry == [pid : Pids, state : jobState]

(* swaitpid erases the job of a process it has waited for. *)
ReapedIsNone == pc = "reaped" => proc[waiting] = "none"

(* The inductive invariant *)
IInv == TypeOK /\ OwnProcess /\ NoLostChild /\ ForegroundIsAwaited /\ ReapedIsNone

(* A table of processes and a list of jobs that belong together *)
Agree(table, list) ==
  /\ table \in [Pids -> ProcStates]
  /\ DOMAIN list \subseteq 1..MaxId
  /\ \A id \in DOMAIN list : list[id] \in JobEntry
  /\ \A i, j \in DOMAIN list : list[i].pid = list[j].pid => i = j
  /\ \A id \in DOMAIN list : table[list[id].pid] # "none"
  /\ \A p \in Pids : table[p] # "none" => \E id \in DOMAIN list : list[id].pid = p

-----------------------------------------------------------------------------
(* The operators                                                           *)

(* kill() ends no process at once and starts none. *)
LEMMA SignalledKeeps ==
  ASSUME NEW table \in [Pids -> ProcStates], NEW pid \in Pids, NEW sig
  PROVE  /\ Signalled(table, pid, sig) \in [Pids -> ProcStates]
         /\ \A p \in Pids : Signalled(table, pid, sig)[p] = "none" <=> table[p] = "none"
<1> DEFINE new ==
      CASE sig = "SIGKILL" /\ table[pid] \in {"running", "stopped"} -> "dying"
        [] sig = "SIGSTOP" /\ table[pid] = "running" -> "stopped"
        [] sig = "SIGCONT" /\ table[pid] = "stopped" -> "running"
        [] OTHER -> table[pid]
<1>1. table[pid] \in ProcStates
  OBVIOUS
<1>2. new \in ProcStates /\ (new = "none" <=> table[pid] = "none")
  BY <1>1 DEF ProcStates
<1>3. Signalled(table, pid, sig) = [table EXCEPT ![pid] = new]
  BY DEF Signalled
<1> HIDE DEF new
<1> QED BY <1>2, <1>3

(* The ids of a list have a last one. *)
LEMMA LastExists ==
  ASSUME NEW ids, ids \subseteq 1..MaxId, ids # {}
  PROVE  LastOf(ids) \in ids /\ \A other \in ids : other <= LastOf(ids)
<1> DEFINE down == {MaxId - id : id \in ids}
<1>1. down \subseteq Nat /\ down # {}
  <2>1. \A id \in ids : id \in 1..MaxId
    OBVIOUS
  <2>2. \A id \in ids : MaxId - id \in Nat
    BY <2>1, MaxIdAssumption
  <2> QED BY <2>2
<1> HIDE DEF down
<1>2. PICK least \in down : \A other \in down : ~(<<other, least>> \in OpToRel(<, Nat))
  BY <1>1, NatLessThanWellFounded, WFMin
<1>3. PICK id \in ids : least = MaxId - id
  BY <1>2 DEF down
<1>4. ASSUME NEW other \in ids PROVE other <= id
  <2>1. OpToRel(<, Nat) = {ss \in Nat \X Nat : ss[1] < ss[2]}
    BY DEF OpToRel
  <2>2. MaxId - other \in down
    BY DEF down
  <2>3. least \in Nat /\ (MaxId - other) \in Nat /\ <<MaxId - other, least>> \in Nat \X Nat
    BY <1>1, <1>2, <2>2
  <2>4. (MaxId - other) < least => <<MaxId - other, least>> \in {ss \in Nat \X Nat : ss[1] < ss[2]}
    BY <2>3
  <2>5. ~((MaxId - other) < least)
    BY <1>2, <2>1, <2>2, <2>4
  <2>6. other \in Int /\ id \in Int
    BY <1>3
  <2> QED BY <1>3, <2>3, <2>5, <2>6, MaxIdAssumption
<1> QED BY <1>3, <1>4 DEF LastOf

(* A new job gets an id of its own, and not the NULL of foreground. *)
LEMMA NewId ==
  ASSUME TypeOK
  PROVE  new_job_id \in Nat \ {0} /\ new_job_id \notin Left
<1>1. Left \subseteq 1..MaxId
  BY DEF Left, TypeOK
<1>2. CASE Left = {}
  BY <1>2 DEF new_job_id
<1>3. CASE Left # {}
  <2>1. LastOf(Left) \in Left /\ \A other \in Left : other <= LastOf(Left)
    BY <1>1, <1>3, LastExists
  <2>2. LastOf(Left) \in Nat
    <3>1. \A id \in Left : id \in Nat
      BY <1>1
    <3> QED BY <2>1, <3>1
  <2>3. new_job_id = LastOf(Left) + 1
    BY <1>3 DEF new_job_id
  <2> QED BY <1>1, <2>1, <2>2, <2>3
<1> QED BY <1>2, <1>3

(* removeFinishedJobs leaves a table and a list that belong together. *)
LEMMA AfterRemoval ==
  ASSUME IInv, pc = "prompt"
  PROVE  /\ Agree(Reaped, Kept)
         /\ DOMAIN Kept = Left /\ Left \subseteq DOMAIN jobs
         /\ \A id \in Left : Kept[id] = jobs[id] /\ jobs[id] \in JobEntry
         /\ \A p \in Pids : proc[p] = "none" => Reaped[p] = "none"
         /\ ForegroundLeft = NULL
<1>1. /\ proc \in [Pids -> ProcStates] /\ DOMAIN jobs \subseteq 1..MaxId
      /\ \A id \in DOMAIN jobs : jobs[id] \in JobEntry
  BY DEF IInv, TypeOK, JobEntry
<1>2. \A id \in DOMAIN jobs : jobs[id].pid \in Pids
  BY <1>1 DEF JobEntry
<1>3. /\ DOMAIN Kept = Left /\ Left \subseteq DOMAIN jobs
      /\ \A id \in Left : Kept[id] = jobs[id]
  BY DEF Kept, Left
<1>4. Reaped \in [Pids -> ProcStates] /\ \A p \in Pids : proc[p] = "none" => Reaped[p] = "none"
  BY <1>1 DEF Reaped, ProcStates
<1>5. \A id \in Left : Reaped[jobs[id].pid] # "none"
  BY <1>2, <1>3 DEF Left, Finished, Reaped
<1>6. ASSUME NEW p \in Pids, Reaped[p] # "none" PROVE \E id \in Left : jobs[id].pid = p
  <2>1. proc[p] # "none"
    BY <1>4, <1>6
  <2>2. PICK id \in DOMAIN jobs : jobs[id].pid = p
    BY <2>1 DEF IInv, NoLostChild
  <2>3. proc[p] # "zombie"
    BY <1>6, <2>2 DEF Reaped
  <2> QED BY <2>1, <2>2, <2>3 DEF Left, Finished
<1>7. \A i, j \in Left : jobs[i].pid = jobs[j].pid => i = j
  BY <1>3 DEF IInv, OwnProcess
<1>8. ForegroundLeft = NULL
  BY DEF ForegroundLeft, IInv, ForegroundIsAwaited
<1> QED BY <1>1, <1>3, <1>4, <1>5, <1>6, <1>7, <1>8 DEF Agree

(* ... and so does a command that starts a process for a new job, *)
LEMMA AgreeStarted ==
  ASSUME IInv, pc = "prompt", new_job_id <= MaxId,
         NEW p \in Pids, proc[p] = "none", NEW state \in jobState
  PROVE  Agree([Reaped EXCEPT ![p] = "running"],
               WithJob(Kept, new_job_id, Entry(p, state)))
<1> DEFINE n == new_job_id
           table == [Reaped EXCEPT ![p] = "running"]
           list == WithJob(Kept, n, Entry(p, state))
<1>1. n \in 1..MaxId /\ n \notin Left
  BY NewId, MaxIdAssumption DEF IInv
<1>2. /\ Agree(Reaped, Kept) /\ DOMAIN Kept = Left
      /\ Reaped[p] = "none" /\ \A id \in Left : Kept[id] \in JobEntry
  BY AfterRemoval
<1> HIDE DEF n
<1>3. /\ DOMAIN list = Left \cup {n}
      /\ list[n] = Entry(p, state)
      /\ \A id \in Left : list[id] = Kept[id]
  BY <1>1, <1>2 DEF WithJob
<1>4. list[n] \in JobEntry /\ list[n].pid = p
  BY <1>3 DEF Entry, JobEntry
<1>5. \A id \in Left : Kept[id].pid # p
  BY <1>2 DEF Agree
<1>6. table \in [Pids -> ProcStates] /\ table[p] = "running"
      /\ \A q \in Pids : q # p => table[q] = Reaped[q]
  BY <1>2 DEF Agree, ProcStates
<1>7. \A id \in Left : Kept[id].pid \in Pids
  BY <1>2 DEF JobEntry
<1> HIDE DEF list, table
<1>8. \A i, j \in DOMAIN list : list[i].pid = list[j].pid => i = j
  BY <1>2, <1>3, <1>4, <1>5 DEF Agree
<1>9. \A id \in DOMAIN list : table[list[id].pid] # "none"
  BY <1>2, <1>3, <1>4, <1>5, <1>6, <1>7 DEF Agree
<1>10. \A q \in Pids : table[q] # "none" => \E id \in DOMAIN list : list[id].pid = q
  BY <1>2, <1>3, <1>4, <1>6 DEF Agree
<1>11. DOMAIN list \subseteq 1..MaxId /\ \A id \in DOMAIN list : list[id] \in JobEntry
  BY <1>1, <1>2, <1>3, <1>4 DEF Agree
<1>12. Agree(table, list)
  BY <1>6, <1>8, <1>9, <1>10, <1>11 DEF Agree
<1> QED BY <1>12 DEF table, list, n

(* ... or one that signals a job and gives it a state, *)
LEMMA AgreeSignalled ==
  ASSUME IInv, pc = "prompt", NEW id \in Left, NEW sig, NEW state \in jobState,
         NEW table \in {Reaped, Signalled(Reaped, jobs[id].pid, sig)}
  PROVE  /\ Agree(table, WithJob(Kept, id, Entry(jobs[id].pid, state)))
         /\ Agree(table, Kept)
<1> DEFINE list == WithJob(Kept, id, Entry(jobs[id].pid, state))
<1>1. /\ Agree(Reaped, Kept) /\ DOMAIN Kept = Left
      /\ Kept[id] = jobs[id] /\ jobs[id] \in JobEntry /\ jobs[id].pid \in Pids
      /\ \A i \in Left : Kept[i] \in JobEntry
  BY AfterRemoval DEF JobEntry
<1>2. table \in [Pids -> ProcStates] /\ \A p \in Pids : table[p] = "none" <=> Reaped[p] = "none"
  BY <1>1, SignalledKeeps DEF Agree
<1>3. \A i \in Left : Kept[i].pid \in Pids
  BY <1>1 DEF JobEntry
<1>4. Agree(table, Kept)
  BY <1>1, <1>2, <1>3 DEF Agree
<1>5. DOMAIN list = DOMAIN Kept /\ \A i \in DOMAIN list : list[i].pid = Kept[i].pid
  BY <1>1 DEF WithJob, Entry
<1>6. \A i \in DOMAIN list : list[i] \in JobEntry
  BY <1>1 DEF WithJob, Entry, JobEntry
<1> HIDE DEF list
<1>7. Agree(table, list)
  BY <1>4, <1>5, <1>6 DEF Agree
<1> QED BY <1>4, <1>7 DEF list

(* A table and a list that belong together keep what the invariant says of *)
(* them.                                                                   *)
LEMMA AgreeEnough ==
  ASSUME Agree(proc', jobs'), told' = StillTold(proc'), TypeOK
  PROVE  /\ OwnProcess' /\ NoLostChild'
         /\ proc' \in [Pids -> ProcStates]
         /\ told' \subseteq {p \in Pids : proc'[p] = "stopped"}
         /\ DOMAIN jobs' \subseteq 1..MaxId
         /\ \A id \in DOMAIN jobs' : jobs'[id] \in [pid : Pids, state : jobState]
<1>1. told \subseteq Pids
  BY DEF TypeOK
<1>2. told' \subseteq {p \in Pids : proc'[p] = "stopped"}
  BY <1>1 DEF StillTold
<1> QED BY <1>2 DEF Agree, OwnProcess, NoLostChild, JobEntry

-----------------------------------------------------------------------------
(* The invariant                                                           *)

LEMMA InitIInv == Init => IInv
<1> SUFFICES ASSUME Init PROVE IInv
  OBVIOUS
<1>1. DOMAIN jobs = {}
  BY DEF Init
<1>2. proc \in [Pids -> ProcStates]
  BY DEF Init, ProcStates
<1>3. TypeOK
  <2>1. /\ told = {} /\ foreground = 0 /\ waiting = NoPid /\ pc = "prompt"
    BY DEF Init, NULL
  <2>2. killed \in BOOLEAN /\ stray \in BOOLEAN
    BY DEF Init
  <2>3. foreground \in 0..MaxId /\ told \subseteq {p \in Pids : proc[p] = "stopped"}
    BY <2>1, MaxIdAssumption
  <2>4. \A id \in DOMAIN jobs : jobs[id] \in [pid : Pids, state : jobState]
    BY <1>1
  <2>5. DOMAIN jobs \subseteq 1..MaxId
    BY <1>1
  <2> QED BY <1>2, <2>1, <2>2, <2>3, <2>4, <2>5 DEF TypeOK
<1>4. OwnProcess /\ NoLostChild /\ ForegroundIsAwaited /\ ReapedIsNone
  BY <1>1 DEF Init, OwnProcess, NoLostChild, ForegroundIsAwaited, ReapedIsNone
<1> QED BY <1>3, <1>4 DEF IInv

(* A command that stays at the prompt *)
LEMMA StaysAtPrompt ==
  ASSUME IInv, pc = "prompt", Agree(proc', jobs'), told' = StillTold(proc'),
         foreground' = ForegroundLeft, UNCHANGED <<waiting, pc, killed, stray>>
  PROVE  IInv'
<1>1. foreground' = NULL
  BY AfterRemoval
<1>2. TypeOK
  BY DEF IInv
<1>3. OwnProcess' /\ NoLostChild'
  BY <1>2, AgreeEnough
<1>4. TypeOK'
  BY <1>1, <1>2, AgreeEnough, MaxIdAssumption DEF TypeOK, NULL
<1>5. ForegroundIsAwaited' /\ ReapedIsNone'
  BY <1>1 DEF ForegroundIsAwaited, ReapedIsNone
<1> QED BY <1>3, <1>4, <1>5 DEF IInv

(* A command that waits for job id *)
LEMMA StartsToWait ==
  ASSUME IInv, pc = "prompt", Agree(proc', jobs'), told' = StillTold(proc'),
         NEW id \in DOMAIN jobs', foreground' = id, waiting' = jobs'[id].pid,
         pc' = "wait", UNCHANGED <<killed, stray>>
  PROVE  IInv'
<1>1. TypeOK
  BY DEF IInv
<1>2. OwnProcess' /\ NoLostChild'
  BY <1>1, AgreeEnough
<1>3. id \in 1..MaxId /\ jobs'[id].pid \in Pids
  BY DEF Agree, JobEntry
<1>4. TypeOK'
  BY <1>1, <1>3, AgreeEnough, MaxIdAssumption DEF TypeOK
<1>5. ForegroundIsAwaited' /\ ReapedIsNone'
  BY <1>3, MaxIdAssumption DEF ForegroundIsAwaited, ReapedIsNone, NULL
<1> QED BY <1>2, <1>4, <1>5 DEF IInv

LEMMA CommandIInv == IInv /\ Command => IInv'
<1> SUFFICES ASSUME IInv, Command PROVE IInv'
  OBVIOUS
<1>1. CASE ExternalBackground
  <2>1. PICK p \in Pids :
          /\ proc[p] = "none"
          /\ removeFinishedJobs([Reaped EXCEPT ![p] = "running"],
                                WithJob(Kept, new_job_id, Entry(p, "Background")))
    BY <1>1 DEF ExternalBackground
  <2>2. Agree(proc', jobs') /\ told' = StillTold(proc')
    BY <1>1, <2>1, AgreeStarted DEF ExternalBackground, removeFinishedJobs, jobState
  <2> QED BY <1>1, <2>2, StaysAtPrompt DEF ExternalBackground
<1>2. CASE ExternalForeground
  <2>1. PICK p \in Pids :
          /\ proc[p] = "none"
          /\ removeFinishedJobs([Reaped EXCEPT ![p] = "running"],
                                WithJob(Kept, new_job_id, Entry(p, "Foreground")))
          /\ waiting' = p
    BY <1>2 DEF ExternalForeground
  <2>2. Agree(proc', jobs') /\ told' = StillTold(proc')
    BY <1>2, <2>1, AgreeStarted DEF ExternalForeground, removeFinishedJobs, jobState
  <2>3. new_job_id \in DOMAIN jobs' /\ jobs'[new_job_id].pid = p
    BY <2>1 DEF removeFinishedJobs, WithJob, Entry
  <2> QED BY <1>2, <2>1, <2>2, <2>3, StartsToWait DEF ExternalForeground
<1>3. CASE ForkFails \/ Quit
  BY <1>3 DEF ForkFails, Quit, IInv, TypeOK, OwnProcess, NoLostChild,
     ForegroundIsAwaited, ReapedIsNone
<1>4. CASE JobsCommand
  <2>1. Agree(proc', jobs') /\ told' = StillTold(proc')
    BY <1>4, AfterRemoval DEF JobsCommand, removeFinishedJobs
  <2> QED BY <1>4, <2>1, StaysAtPrompt DEF JobsCommand
<1>5. CASE QuitKill
  <2>1. pc = "prompt" /\ pc' = "gone" /\ proc' = killAllJobs /\ jobs' = <<>>
        /\ told' = StillTold(proc') /\ foreground' = NULL
        /\ killed' = TRUE /\ UNCHANGED <<waiting, stray>>
    BY <1>5, AfterRemoval DEF QuitKill, removeFinishedJobs
  <2>2. Reaped \in [Pids -> ProcStates]
    BY <2>1, AfterRemoval DEF Agree
  <2>3. \A p \in Pids : Signalled(Reaped, p, "SIGKILL")[p] \in ProcStates
    BY <2>2, SignalledKeeps
  <2>4. killAllJobs \in [Pids -> ProcStates]
    BY <2>2, <2>3 DEF killAllJobs
  <2>5. told' \subseteq {p \in Pids : proc'[p] = "stopped"}
    BY <2>1 DEF StillTold, IInv, TypeOK
  <2>6. DOMAIN jobs' = {}
    BY <2>1
  <2>7. TypeOK'
    BY <2>1, <2>4, <2>5, <2>6, MaxIdAssumption DEF IInv, TypeOK, NULL
  <2>8. OwnProcess' /\ NoLostChild' /\ ForegroundIsAwaited' /\ ReapedIsNone'
    BY <2>1, <2>6 DEF OwnProcess, NoLostChild, ForegroundIsAwaited, ReapedIsNone
  <2> QED BY <2>7, <2>8 DEF IInv
<1>6. ASSUME NEW id \in DOMAIN jobs, ForegroundCommand(id) PROVE IInv'
  <2>1. pc = "prompt" /\ id \in Left
    BY <1>6 DEF ForegroundCommand
  <2>2. Agree(proc', jobs') /\ told' = StillTold(proc')
    BY <1>6, <2>1, AgreeSignalled DEF ForegroundCommand, removeFinishedJobs, jobState
  <2>3. id \in DOMAIN jobs' /\ jobs'[id].pid = jobs[id].pid
    BY <1>6 DEF ForegroundCommand, removeFinishedJobs, WithJob, Entry
  <2> QED BY <1>6, <2>1, <2>2, <2>3, StartsToWait DEF ForegroundCommand
<1>7. ASSUME NEW id \in DOMAIN jobs, BackgroundCommand(id) PROVE IInv'
  <2>1. pc = "prompt" /\ id \in Left
    BY <1>7 DEF BackgroundCommand
  <2>2. Agree(proc', jobs') /\ told' = StillTold(proc')
    BY <1>7, <2>1, AgreeSignalled DEF BackgroundCommand, removeFinishedJobs, jobState
  <2> QED BY <1>7, <2>1, <2>2, StaysAtPrompt DEF BackgroundCommand
<1>8. ASSUME NEW id \in DOMAIN jobs, NEW sig \in Signals, KillCommand(id, sig) PROVE IInv'
  <2>1. pc = "prompt" /\ id \in Left
    BY <1>8 DEF KillCommand
  <2>2. Agree(proc', jobs') /\ told' = StillTold(proc')
    <3>1. "Stopped" \in jobState
      BY DEF jobState
    <3> QED BY <1>8, <2>1, <3>1, AgreeSignalled DEF KillCommand, removeFinishedJobs
  <2> QED BY <1>8, <2>1, <2>2, StaysAtPrompt DEF KillCommand
<1> QED BY <1>1, <1>2, <1>3, <1>4, <1>5, <1>6, <1>7, <1>8 DEF Command

LEMMA WaitIInv == IInv /\ swaitpid => IInv'
<1> SUFFICES ASSUME IInv, swaitpid PROVE IInv'
  OBVIOUS
<1>1. CASE WaitExited
  <2>1. /\ pc = "wait" /\ pc' = "reaped" /\ foreground \in DOMAIN jobs
        /\ jobs[foreground].pid = waiting /\ waiting \in Pids
    BY <1>1 DEF WaitExited, IInv, ForegroundIsAwaited, TypeOK
  <2>2. proc' = [proc EXCEPT ![waiting] = "none"] /\ proc[waiting] = "zombie"
    BY <1>1 DEF WaitExited
  <2>3. proc' \in [Pids -> ProcStates]
    BY <2>2 DEF IInv, TypeOK, ProcStates
  <2>4. TypeOK'
    BY <1>1, <2>1, <2>2, <2>3 DEF WaitExited, IInv, TypeOK
  <2>5. OwnProcess'
    BY <1>1, <2>1, <2>2 DEF WaitExited, IInv, OwnProcess, TypeOK
  <2>6. NoLostChild'
    BY <1>1, <2>1, <2>2 DEF WaitExited, IInv, NoLostChild, TypeOK
  <2>7. ForegroundIsAwaited' /\ ReapedIsNone'
    BY <1>1, <2>1, <2>2 DEF WaitExited, IInv, ForegroundIsAwaited, ReapedIsNone, TypeOK
  <2> QED BY <2>4, <2>5, <2>6, <2>7 DEF IInv
<1>2. CASE WaitStopped
  <2>1. pc = "wait" /\ waiting \in Pids
    BY <1>2 DEF WaitStopped, IInv, ForegroundIsAwaited, TypeOK
  <2>2. TypeOK'
    BY <1>2, <2>1 DEF WaitStopped, IInv, TypeOK
  <2>3. OwnProcess' /\ NoLostChild' /\ ForegroundIsAwaited' /\ ReapedIsNone'
    BY <1>2 DEF WaitStopped, IInv, OwnProcess, NoLostChild, ForegroundIsAwaited, ReapedIsNone
  <2> QED BY <2>2, <2>3 DEF IInv
<1>3. CASE RemoveForeground
  <2>1. /\ pc = "reaped" /\ pc' = "reset" /\ foreground \in DOMAIN jobs
        /\ jobs[foreground].pid = waiting /\ proc[waiting] = "none"
        /\ UNCHANGED <<proc, told, foreground, waiting, killed, stray>>
    BY <1>3 DEF RemoveForeground, IInv, ForegroundIsAwaited, ReapedIsNone
  <2>2. /\ DOMAIN jobs' = DOMAIN jobs \ {foreground}
        /\ \A id \in DOMAIN jobs' : jobs'[id] = jobs[id]
    BY <1>3 DEF RemoveForeground
  <2>3. TypeOK'
    BY <2>1, <2>2 DEF IInv, TypeOK
  <2>4. OwnProcess'
    BY <2>1, <2>2 DEF IInv, OwnProcess
  <2>5. NoLostChild'
    BY <2>1, <2>2 DEF IInv, NoLostChild
  <2>6. ForegroundIsAwaited' /\ ReapedIsNone'
    BY <2>1 DEF IInv, ForegroundIsAwaited, ReapedIsNone
  <2> QED BY <2>3, <2>4, <2>5, <2>6 DEF IInv
<1>4. CASE ResetForeground
  <2>1. TypeOK'
    BY <1>4, MaxIdAssumption DEF ResetForeground, IInv, TypeOK, NULL
  <2>2. OwnProcess' /\ NoLostChild' /\ ForegroundIsAwaited' /\ ReapedIsNone'
    BY <1>4 DEF ResetForeground, IInv, OwnProcess, NoLostChild, ForegroundIsAwaited, ReapedIsNone
  <2> QED BY <2>1, <2>2 DEF IInv
<1> QED BY <1>1, <1>2, <1>3, <1>4 DEF swaitpid

(* A step of the kernel or of a handler that creates and ends no child and *)
(* changes at most the state of a job                                      *)
LEMMA SameProcesses ==
  ASSUME IInv, proc' \in [Pids -> ProcStates],
         \A p \in Pids : proc'[p] = "none" <=> proc[p] = "none",
         told' \subseteq {p \in Pids : proc'[p] = "stopped"},
         DOMAIN jobs' = DOMAIN jobs,
         \A id \in DOMAIN jobs : jobs'[id] \in JobEntry /\ jobs'[id].pid = jobs[id].pid,
         UNCHANGED <<foreground, waiting, pc, killed>>, stray' \in BOOLEAN
  PROVE  IInv'
<1>1. \A id \in DOMAIN jobs : jobs[id].pid \in Pids
  BY DEF IInv, TypeOK
<1>2. TypeOK'
  BY DEF IInv, TypeOK, JobEntry
<1>3. OwnProcess'
  BY <1>1 DEF IInv, OwnProcess
<1>4. NoLostChild'
  BY DEF IInv, NoLostChild
<1>5. ForegroundIsAwaited'
  BY DEF IInv, ForegroundIsAwaited
<1>6. ReapedIsNone'
  BY <1>1 DEF IInv, ReapedIsNone, ForegroundIsAwaited
<1> QED BY <1>2, <1>3, <1>4, <1>5, <1>6 DEF IInv

LEMMA HandlerIInv == IInv /\ Handler => IInv'
<1> SUFFICES ASSUME IInv, Handler PROVE IInv'
  OBVIOUS
<1>1. /\ proc \in [Pids -> ProcStates]
      /\ told \subseteq {p \in Pids : proc[p] = "stopped"}
      /\ \A id \in DOMAIN jobs : jobs[id] \in JobEntry
      /\ stray \in BOOLEAN
  BY DEF IInv, TypeOK, JobEntry
<1>2. \A id \in DOMAIN jobs : jobs[id].pid \in Pids
  BY <1>1 DEF JobEntry
<1>3. CASE ctrlZHandler
  <2>1. /\ proc' = Signalled(proc, jobs[foreground].pid, "SIGSTOP")
        /\ jobs' = [jobs EXCEPT ![foreground].state = "Stopped"]
        /\ foreground \in DOMAIN jobs
        /\ UNCHANGED <<told, foreground, waiting, pc, killed, stray>>
    BY <1>3 DEF ctrlZHandler
  <2>2. /\ proc' \in [Pids -> ProcStates]
        /\ \A p \in Pids : proc'[p] = "none" <=> proc[p] = "none"
    BY <1>1, <1>2, <2>1, SignalledKeeps
  <2>3. \A p \in Pids : proc[p] = "stopped" => proc'[p] = "stopped"
    BY <1>1, <1>2, <2>1 DEF Signalled
  <2>4. /\ DOMAIN jobs' = DOMAIN jobs
        /\ \A id \in DOMAIN jobs : jobs'[id] \in JobEntry /\ jobs'[id].pid = jobs[id].pid
    BY <1>1, <2>1 DEF JobEntry, jobState
  <2> QED BY <1>1, <2>1, <2>2, <2>3, <2>4, SameProcesses
<1>4. CASE ctrlCHandler
  <2>1. /\ proc' = Signalled(proc, jobs[foreground].pid, "SIGKILL")
        /\ told' = StillTold(proc')
        /\ foreground \in DOMAIN jobs
        /\ UNCHANGED <<jobs, foreground, waiting, pc, killed, stray>>
    BY <1>4 DEF ctrlCHandler
  <2>2. /\ proc' \in [Pids -> ProcStates]
        /\ \A p \in Pids : proc'[p] = "none" <=> proc[p] = "none"
    BY <1>1, <1>2, <2>1, SignalledKeeps
  <2>3. told' \subseteq {p \in Pids : proc'[p] = "stopped"}
    BY <1>1, <2>1 DEF StillTold
  <2> QED BY <1>1, <2>1, <2>2, <2>3, SameProcesses
<1>5. CASE StraySignal
  BY <1>1, <1>5, SameProcesses DEF StraySignal
<1> QED BY <1>3, <1>4, <1>5 DEF Handler

LEMMA ChildIInv == ASSUME IInv, NEW p \in Pids, Child(p) PROVE IInv'
<1>1. /\ proc \in [Pids -> ProcStates]
      /\ told \subseteq {q \in Pids : proc[q] = "stopped"}
      /\ \A id \in DOMAIN jobs : jobs[id] \in JobEntry
      /\ stray \in BOOLEAN
  BY DEF IInv, TypeOK, JobEntry
<1>2. /\ UNCHANGED <<told, jobs, foreground, waiting, pc, killed, stray>>
      /\ proc[p] \in {"running", "dying"}
      /\ \E state \in {"zombie", "stopped"} : proc' = [proc EXCEPT ![p] = state]
  BY DEF Child, ChildEnds, ChildDies, ChildStops
<1>3. /\ proc' \in [Pids -> ProcStates]
      /\ \A q \in Pids : proc'[q] = "none" <=> proc[q] = "none"
      /\ \A q \in Pids : proc[q] = "stopped" => proc'[q] = "stopped"
  BY <1>1, <1>2 DEF ProcStates
<1> QED BY <1>1, <1>2, <1>3, SameProcesses

LEMMA NextIInv == IInv /\ [Next]_vars => IInv'
<1>1. IInv /\ UNCHANGED vars => IInv'
  BY DEF vars, IInv, TypeOK, OwnProcess, NoLostChild, ForegroundIsAwaited, ReapedIsNone
<1> QED BY <1>1, CommandIInv, WaitIInv, HandlerIInv, ChildIInv DEF Next, Gone

LEMMA AlwaysIInv == Spec => []IInv
  BY InitIInv, NextIInv, PTL DEF Spec

-----------------------------------------------------------------------------
(* quit kill                                                               *)

(* Once quit kill has been executed the shell is gone, and nobody is left. *)
KilledIsGone == killed => pc = "gone" /\ \A p \in Pids : proc[p] \notin {"running", "stopped"}

(* Every child is in the list (NoLostChild), and what removeFinishedJobs   *)
(* leaves in it is sent a SIGKILL.                                         *)
LEMMA KillsAll ==
  ASSUME IInv, pc = "prompt", NEW p \in Pids
  PROVE  killAllJobs[p] \notin {"running", "stopped"}
<1>1. /\ proc \in [Pids -> ProcStates] /\ Reaped \in [Pids -> ProcStates]
      /\ \A id \in DOMAIN jobs : jobs[id].pid \in Pids
  BY AfterRemoval DEF IInv, TypeOK, Agree
<1>2. CASE \E id \in Left : jobs[id].pid = p
  <2>1. killAllJobs[p] = Signalled(Reaped, p, "SIGKILL")[p]
    BY <1>2 DEF killAllJobs
  <2>2. Reaped[p] \in {"running", "stopped"} => Signalled(Reaped, p, "SIGKILL")[p] = "dying"
    BY <1>1 DEF Signalled
  <2>3. Reaped[p] \notin {"running", "stopped"} => Signalled(Reaped, p, "SIGKILL")[p] = Reaped[p]
    BY <1>1 DEF Signalled
  <2> QED BY <2>1, <2>2, <2>3
<1>3. CASE ~\E id \in Left : jobs[id].pid = p
  <2>1. killAllJobs[p] = Reaped[p]
    BY <1>3 DEF killAllJobs
  <2>2. proc[p] \in {"running", "stopped"} => \E id \in DOMAIN jobs : jobs[id].pid = p
    BY DEF IInv, NoLostChild
  <2>3. proc[p] \notin {"running", "stopped"}
    BY <1>3, <2>2 DEF Left, Finished
  <2>4. Reaped[p] \in {proc[p], "none"}
    BY DEF Reaped
  <2> QED BY <2>1, <2>3, <2>4
<1> QED BY <1>2, <1>3

LEMMA KilledStep == IInv /\ KilledIsGone /\ [Next]_vars => KilledIsGone'
<1> SUFFICES ASSUME IInv, KilledIsGone, [Next]_vars PROVE KilledIsGone'
  OBVIOUS
<1>1. CASE QuitKill
  <2>1. proc' = killAllJobs /\ pc' = "gone" /\ pc = "prompt"
    BY <1>1 DEF QuitKill, removeFinishedJobs
  <2> QED BY <2>1, KillsAll DEF KilledIsGone
<1>2. CASE pc # "gone" /\ ~QuitKill
  <2>1. ~killed
    BY <1>2 DEF KilledIsGone
  <2>2. killed' = killed
    BY <1>2 DEF Next, Command, swaitpid, Handler, Child, Gone, vars, ExternalBackground,
       ExternalForeground, ForkFails, JobsCommand, Quit, ForegroundCommand, BackgroundCommand,
       KillCommand, WaitExited, WaitStopped, RemoveForeground, ResetForeground, ctrlZHandler,
       ctrlCHandler, StraySignal, ChildEnds, ChildDies, ChildStops
  <2> QED BY <2>1, <2>2 DEF KilledIsGone
<1>3. CASE pc = "gone"
  <2>1. proc \in [Pids -> ProcStates] /\ DOMAIN jobs \subseteq 1..MaxId
    BY DEF IInv, TypeOK
  <2>2. foreground = NULL /\ foreground \notin DOMAIN jobs
    BY <1>3, <2>1 DEF IInv, ForegroundIsAwaited, NULL
  <2>3. ~Command /\ ~swaitpid
    BY <1>3 DEF Command, swaitpid, ExternalBackground, ExternalForeground, ForkFails,
       JobsCommand, Quit, QuitKill, ForegroundCommand, BackgroundCommand, KillCommand,
       WaitExited, WaitStopped, RemoveForeground, ResetForeground
  <2>4. ~Handler
    BY <2>2 DEF Handler, ctrlZHandler, ctrlCHandler, StraySignal, Dangling
  <2>5. CASE \E p \in Pids : Child(p)
    <3>1. PICK p \in Pids : Child(p)
      BY <2>5
    <3>2. pc' = pc /\ killed' = killed
      BY <3>1 DEF Child, ChildEnds, ChildDies, ChildStops
    <3>3. killed => proc' = [proc EXCEPT ![p] = "zombie"]
      BY <3>1 DEF Child, ChildEnds, ChildDies, ChildStops, KilledIsGone
    <3> QED BY <1>3, <2>1, <3>2, <3>3 DEF KilledIsGone
  <2>6. CASE UNCHANGED vars
    BY <2>6 DEF vars, KilledIsGone
  <2> QED BY <2>3, <2>4, <2>5, <2>6 DEF Next, Gone
<1> QED BY <1>1, <1>2, <1>3

-----------------------------------------------------------------------------
(* What the list says of the processes                                     *)

(* ... of one that is not waited for, *)
Says(state, process) ==
  /\ state # "Foreground"
  /\ state = "Background" => process # "stopped"
  /\ state = "Stopped" => process # "running"

(* ... and of the one that is: Ctrl-Z stops it and says so. *)
SaysAwaited(state, process) ==
  /\ state # "Background"
  /\ state = "Stopped" => process # "running"
  /\ process = "stopped" => state = "Stopped"

(* The strengthening of StateIsTrue: a stopped job has been marked before  *)
(* swaitpid lets go of it.                                                 *)
Told ==
  \A id \in DOMAIN jobs : jobs[id].pid \notin odd =>
    /\ id # foreground => Says(jobs[id].state, proc[jobs[id].pid])
    /\ id = foreground => /\ SaysAwaited(jobs[id].state, proc[jobs[id].pid])
                          /\ pc = "reset" => jobs[id].state = "Stopped"

(* removeFinishedJobs makes nothing untrue. *)
LEMMA LeftTold ==
  ASSUME IInv, Told, pc = "prompt", NEW id \in Left, jobs[id].pid \notin odd
  PROVE  Says(jobs[id].state, Reaped[jobs[id].pid])
<1>1. id \in DOMAIN jobs /\ jobs[id].pid \in Pids /\ id # foreground
  BY DEF Left, IInv, TypeOK, ForegroundIsAwaited, NULL
<1>2. Reaped[jobs[id].pid] = proc[jobs[id].pid]
  BY <1>1 DEF Left, Finished, Reaped
<1> QED BY <1>1, <1>2 DEF Told

(* A command signals or starts one process, and the jobs' are different. *)
LEMMA CommandTold == IInv /\ Told /\ Command => Told'
<1> SUFFICES ASSUME IInv, Told, Command PROVE Told'
  OBVIOUS
<1>1. pc = "prompt"
  BY DEF Command, ExternalBackground, ExternalForeground, ForkFails, JobsCommand, Quit,
     QuitKill, ForegroundCommand, BackgroundCommand, KillCommand
<1>2. /\ Reaped \in [Pids -> ProcStates] /\ DOMAIN Kept = Left /\ ForegroundLeft = NULL
      /\ Left \subseteq DOMAIN jobs /\ \A id \in Left : Kept[id] = jobs[id] /\ jobs[id].pid \in Pids
      /\ \A id \in Left : Reaped[jobs[id].pid] # "none"
      /\ \A i, j \in Left : jobs[i].pid = jobs[j].pid => i = j
      /\ \A p \in Pids : proc[p] = "none" => Reaped[p] = "none"
  BY <1>1, AfterRemoval DEF Agree, JobEntry
<1>3. \A id \in Left : jobs[id].pid \notin odd => Says(jobs[id].state, Reaped[jobs[id].pid])
  BY <1>1, LeftTold
<1>4. NULL \notin DOMAIN jobs /\ NULL \notin Left /\ foreground = NULL
  BY <1>1, <1>2 DEF NULL, IInv, TypeOK, ForegroundIsAwaited
<1>5. ASSUME NEW p \in Pids, proc[p] = "none", NEW state \in {"Background", "Foreground"},
             removeFinishedJobs([Reaped EXCEPT ![p] = "running"],
                                WithJob(Kept, new_job_id, Entry(p, state))),
             odd' = odd \ {p}, pc' # "reset",
             foreground' = IF state = "Background" THEN NULL ELSE new_job_id
      PROVE  Told'
  <2>1. new_job_id \in Nat \ {0} /\ new_job_id \notin Left
    BY NewId DEF IInv
  <2>2. /\ DOMAIN jobs' = Left \cup {new_job_id}
        /\ jobs'[new_job_id].pid = p /\ jobs'[new_job_id].state = state
        /\ \A id \in Left : jobs'[id] = jobs[id]
        /\ proc' = [Reaped EXCEPT ![p] = "running"]
    BY <1>2, <1>5, <2>1 DEF removeFinishedJobs, WithJob, Entry
  <2>3. \A id \in Left : jobs[id].pid # p /\ proc'[jobs[id].pid] = Reaped[jobs[id].pid]
    BY <1>2, <1>5, <2>2
  <2>4. ASSUME NEW id \in Left, jobs'[id].pid \notin odd'
        PROVE  id # foreground' /\ Says(jobs'[id].state, proc'[jobs'[id].pid])
    BY <1>3, <1>4, <1>5, <2>1, <2>2, <2>3, <2>4
  <2>5. proc'[p] = "running"
    BY <1>2, <2>2
  <2>6. state = "Background" => new_job_id # foreground' /\ Says(state, "running")
    BY <1>5, <2>1 DEF Says, NULL
  <2>7. state = "Foreground" => new_job_id = foreground' /\ SaysAwaited(state, "running")
    BY <1>5 DEF SaysAwaited
  <2> QED BY <1>5, <2>2, <2>4, <2>5, <2>6, <2>7 DEF Told
<1>6. ASSUME NEW id \in Left, NEW state \in {"Background", "Foreground"},
             removeFinishedJobs(Signalled(Reaped, jobs[id].pid, "SIGCONT"),
                                WithJob(Kept, id, Entry(jobs[id].pid, state))),
             odd' = odd \ {jobs[id].pid}, pc' # "reset",
             foreground' = IF state = "Background" THEN NULL ELSE id
      PROVE  Told'
  <2>1. /\ DOMAIN jobs' = Left
        /\ jobs'[id].pid = jobs[id].pid /\ jobs'[id].state = state
        /\ \A other \in Left \ {id} : jobs'[other] = jobs[other]
        /\ proc' = Signalled(Reaped, jobs[id].pid, "SIGCONT")
    BY <1>2, <1>6 DEF removeFinishedJobs, WithJob, Entry
  <2>2. \A other \in Left \ {id} : /\ jobs[other].pid # jobs[id].pid
                                   /\ proc'[jobs[other].pid] = Reaped[jobs[other].pid]
    BY <1>2, <2>1 DEF Signalled
  <2>3. proc'[jobs[id].pid] # "stopped"
    BY <1>2, <2>1 DEF Signalled
  <2>4. ASSUME NEW other \in Left \ {id}, jobs'[other].pid \notin odd'
        PROVE  other # foreground' /\ Says(jobs'[other].state, proc'[jobs'[other].pid])
    BY <1>3, <1>4, <1>6, <2>1, <2>2, <2>4
  <2>5. state = "Background" => id # foreground' /\ Says(state, proc'[jobs[id].pid])
    BY <1>4, <1>6, <2>3 DEF Says
  <2>6. state = "Foreground" => id = foreground' /\ SaysAwaited(state, proc'[jobs[id].pid])
    BY <1>6, <2>3 DEF SaysAwaited
  <2> QED BY <1>6, <2>1, <2>4, <2>5, <2>6 DEF Told
<1>7. CASE ExternalBackground
  BY <1>1, <1>2, <1>5, <1>7 DEF ExternalBackground
<1>8. CASE ExternalForeground
  BY <1>5, <1>8 DEF ExternalForeground
<1>9. CASE ForkFails \/ Quit
  BY <1>1, <1>4, <1>9 DEF ForkFails, Quit, Told
<1>10. CASE JobsCommand
  BY <1>1, <1>2, <1>3, <1>4, <1>10 DEF JobsCommand, removeFinishedJobs, Told
<1>11. CASE QuitKill
  BY <1>11 DEF QuitKill, removeFinishedJobs, Told
<1>12. ASSUME NEW id \in DOMAIN jobs, ForegroundCommand(id) PROVE Told'
  BY <1>6, <1>12 DEF ForegroundCommand
<1>13. ASSUME NEW id \in DOMAIN jobs, BackgroundCommand(id) PROVE Told'
  BY <1>1, <1>2, <1>6, <1>13 DEF BackgroundCommand
<1>14. ASSUME NEW id \in DOMAIN jobs, NEW sig \in Signals, KillCommand(id, sig) PROVE Told'
  <2>1. /\ id \in Left /\ jobs' = Kept /\ proc' = Signalled(Reaped, jobs[id].pid, sig)
        /\ foreground' = NULL /\ pc' = pc
        /\ odd' = IF sig = "SIGKILL" THEN odd ELSE odd \cup {jobs[id].pid}
    BY <1>2, <1>14 DEF KillCommand, removeFinishedJobs
  <2>2. ASSUME NEW other \in Left, jobs[other].pid \notin odd'
        PROVE  Says(jobs[other].state, proc'[jobs[other].pid])
    <3>1. jobs[other].pid \notin odd /\ Says(jobs[other].state, Reaped[jobs[other].pid])
      BY <1>3, <2>1, <2>2
    <3>2. CASE jobs[other].pid # jobs[id].pid
      <4>1. proc'[jobs[other].pid] = Reaped[jobs[other].pid]
        BY <1>2, <2>1, <3>2 DEF Signalled
      <4> QED BY <3>1, <4>1
    <3>3. CASE jobs[other].pid = jobs[id].pid
      <4>1. sig = "SIGKILL"
        BY <2>1, <2>2, <3>3
      <4>2. proc'[jobs[other].pid] \in {"dying", Reaped[jobs[other].pid]}
        BY <1>2, <2>1, <3>3, <4>1 DEF Signalled
      <4> QED BY <3>1, <4>2 DEF Says
    <3> QED BY <3>2, <3>3
  <2> QED BY <1>1, <1>2, <1>4, <2>1, <2>2 DEF Told
<1> QED BY <1>7, <1>8, <1>9, <1>10, <1>11, <1>12, <1>13, <1>14 DEF Command

LEMMA WaitTold == IInv /\ Told /\ swaitpid => Told'
<1> SUFFICES ASSUME IInv, Told, swaitpid PROVE Told'
  OBVIOUS
<1>1. \A id \in DOMAIN jobs : jobs[id].pid \in Pids
  BY DEF IInv, TypeOK
<1>2. CASE WaitExited
  <2>1. /\ foreground \in DOMAIN jobs /\ jobs[foreground].pid = waiting
        /\ proc' = [proc EXCEPT ![waiting] = "none"] /\ proc[waiting] = "zombie"
        /\ pc' = "reaped" /\ UNCHANGED <<jobs, foreground, odd>>
    BY <1>2 DEF WaitExited, IInv, ForegroundIsAwaited
  <2>2. \A id \in DOMAIN jobs : id # foreground => proc'[jobs[id].pid] = proc[jobs[id].pid]
    BY <1>1, <2>1 DEF IInv, OwnProcess
  <2>3. proc'[waiting] = "none" /\ proc \in [Pids -> ProcStates]
    BY <1>1, <2>1 DEF IInv, TypeOK
  <2> QED BY <2>1, <2>2, <2>3 DEF Told, SaysAwaited
<1>3. CASE WaitStopped
  <2>1. /\ foreground \in DOMAIN jobs /\ jobs[foreground].pid = waiting
        /\ proc[waiting] = "stopped" /\ UNCHANGED <<proc, jobs, foreground, odd>>
    BY <1>3 DEF WaitStopped, IInv, ForegroundIsAwaited
  <2> QED BY <2>1 DEF Told, SaysAwaited
<1>4. CASE RemoveForeground
  <2>1. /\ DOMAIN jobs' = DOMAIN jobs \ {foreground}
        /\ \A id \in DOMAIN jobs' : jobs'[id] = jobs[id]
        /\ UNCHANGED <<proc, foreground, odd>>
    BY <1>4 DEF RemoveForeground
  <2> QED BY <2>1 DEF Told
<1>5. CASE ResetForeground
  <2>1. /\ pc = "reset" /\ pc' = "prompt" /\ foreground' = NULL /\ UNCHANGED <<proc, jobs, odd>>
    BY <1>5 DEF ResetForeground
  <2>2. NULL \notin DOMAIN jobs
    BY DEF NULL, IInv, TypeOK
  <2>3. ASSUME NEW id \in DOMAIN jobs, jobs[id].pid \notin odd
        PROVE  Says(jobs[id].state, proc[jobs[id].pid])
    BY <2>1, <2>3 DEF Told, SaysAwaited, Says
  <2> QED BY <2>1, <2>2, <2>3 DEF Told
<1> QED BY <1>2, <1>3, <1>4, <1>5 DEF swaitpid

LEMMA HandlerTold == IInv /\ Told /\ Handler => Told'
<1> SUFFICES ASSUME IInv, Told, Handler PROVE Told'
  OBVIOUS
<1>1. /\ proc \in [Pids -> ProcStates] /\ \A id \in DOMAIN jobs : jobs[id] \in JobEntry
      /\ \A id \in DOMAIN jobs : jobs[id].pid \in Pids
  BY DEF IInv, TypeOK, JobEntry
<1>2. ASSUME foreground \in DOMAIN jobs, NEW sig \in SignalNames,
             proc' = Signalled(proc, jobs[foreground].pid, sig)
      PROVE  \A id \in DOMAIN jobs : id # foreground => proc'[jobs[id].pid] = proc[jobs[id].pid]
  BY <1>1, <1>2 DEF IInv, OwnProcess, Signalled
<1>3. CASE ctrlZHandler
  <2>1. /\ foreground \in DOMAIN jobs
        /\ proc' = Signalled(proc, jobs[foreground].pid, "SIGSTOP")
        /\ jobs' = [jobs EXCEPT ![foreground].state = "Stopped"]
        /\ UNCHANGED <<foreground, pc, odd>>
    BY <1>3 DEF ctrlZHandler
  <2>2. /\ DOMAIN jobs' = DOMAIN jobs
        /\ \A id \in DOMAIN jobs : id # foreground => jobs'[id] = jobs[id]
        /\ jobs'[foreground].pid = jobs[foreground].pid /\ jobs'[foreground].state = "Stopped"
    BY <1>1, <2>1 DEF JobEntry
  <2>3. \A id \in DOMAIN jobs : id # foreground => proc'[jobs[id].pid] = proc[jobs[id].pid]
    BY <1>2, <2>1 DEF SignalNames
  <2>4. proc'[jobs[foreground].pid] # "running"
    BY <1>1, <2>1 DEF Signalled
  <2>5. SaysAwaited("Stopped", proc'[jobs[foreground].pid])
    BY <2>4 DEF SaysAwaited
  <2> QED BY <2>1, <2>2, <2>3, <2>5 DEF Told
<1>4. CASE ctrlCHandler
  <2>1. /\ foreground \in DOMAIN jobs
        /\ proc' = Signalled(proc, jobs[foreground].pid, "SIGKILL")
        /\ UNCHANGED <<jobs, foreground, pc, odd>>
    BY <1>4 DEF ctrlCHandler
  <2>2. \A id \in DOMAIN jobs : id # foreground => proc'[jobs[id].pid] = proc[jobs[id].pid]
    BY <1>2, <2>1 DEF SignalNames
  <2>3. proc'[jobs[foreground].pid] \in {"dying", proc[jobs[foreground].pid]}
    BY <1>1, <2>1 DEF Signalled
  <2> QED BY <2>1, <2>2, <2>3 DEF Told, SaysAwaited
<1>5. CASE StraySignal
  BY <1>5 DEF StraySignal, Told
<1> QED BY <1>3, <1>4, <1>5 DEF Handler

LEMMA ChildTold == ASSUME IInv, Told, NEW p \in Pids, Child(p) PROVE Told'
<1>1. /\ proc \in [Pids -> ProcStates] /\ \A id \in DOMAIN jobs : jobs[id].pid \in Pids
  BY DEF IInv, TypeOK
<1>2. UNCHANGED <<jobs, foreground, pc>> /\ odd \subseteq odd'
  BY DEF Child, ChildEnds, ChildDies, ChildStops
<1>3. \A q \in Pids \ odd' : proc'[q] \in {"zombie", proc[q]}
  BY <1>1 DEF Child, ChildEnds, ChildDies, ChildStops
<1>4. ASSUME NEW id \in DOMAIN jobs, jobs[id].pid \notin odd'
      PROVE  proc'[jobs[id].pid] \in {"zombie", proc[jobs[id].pid]} /\ jobs[id].pid \notin odd
  BY <1>1, <1>2, <1>3, <1>4
<1> QED BY <1>2, <1>4 DEF Told, Says, SaysAwaited

LEMMA NextTold == IInv /\ Told /\ [Next]_vars => Told'
<1>1. Told /\ UNCHANGED vars => Told'
  BY DEF vars, Told
<1> QED BY <1>1, CommandTold, WaitTold, HandlerTold, ChildTold DEF Next, Gone

-----------------------------------------------------------------------------
(* The results                                                             *)

(* Every variable keeps its type: ids stay within the bound, none of them  *)
(* is the NULL of foreground, and only a stopped child has reported a stop.*)
THEOREM TypeCorrect == Spec => []TypeOK
<1>1. IInv => TypeOK
  BY DEF IInv
<1> QED BY <1>1, AlwaysIInv, PTL

(* A job keeps a process of its own until it is removed: fg, bg, kill and  *)
(* quit kill never signal a number that went to another process.           *)
THEOREM JobsOwnTheirProcess == Spec => []OwnProcess
<1>1. IInv => OwnProcess
  BY DEF IInv
<1> QED BY <1>1, AlwaysIInv, PTL

(* Every child of the shell is in its list of jobs. *)
THEOREM ChildrenStayListed == Spec => []NoLostChild
<1>1. IInv => NoLostChild
  BY DEF IInv
<1> QED BY <1>1, AlwaysIInv, PTL

(* The handlers' pointer is the job swaitpid waits for. *)
THEOREM HandlersHitTheForeground == Spec => []ForegroundIsAwaited
<1>1. IInv => ForegroundIsAwaited
  BY DEF IInv
<1> QED BY <1>1, AlwaysIInv, PTL

(* quit kill reaches every child, stopped or running, whichever of them    *)
(* ended before: nobody is alive after it.                                 *)
THEOREM QuitLeavesNobody == Spec => []QuitKillsAll
<1>1. Init => KilledIsGone
  BY DEF Init, KilledIsGone
<1>2. Spec => []KilledIsGone
  BY <1>1, KilledStep, AlwaysIInv, PTL DEF Spec
<1>3. KilledIsGone => QuitKillsAll
  BY DEF KilledIsGone, QuitKillsAll
<1> QED BY <1>2, <1>3, PTL

(* With the prompt on the screen the list of jobs says what is true of     *)
(* every process but those that were stopped or continued behind its back. *)
THEOREM ListSaysTheTruth == Spec => []StateIsTrue
<1>1. Init => Told
  BY DEF Init, Told
<1>2. Spec => []Told
  BY <1>1, NextTold, AlwaysIInv, PTL DEF Spec
<1>3. IInv /\ Told => StateIsTrue
  <2> SUFFICES ASSUME IInv, Told, pc = "prompt",
                      NEW id \in DOMAIN jobs, jobs[id].pid \notin odd
               PROVE  Says(jobs[id].state, proc[jobs[id].pid])
    BY DEF StateIsTrue, Says
  <2>1. id # foreground
    BY DEF IInv, TypeOK, ForegroundIsAwaited, NULL
  <2> QED BY <2>1 DEF Told
<1> QED BY <1>2, <1>3, AlwaysIInv, PTL

(* A signal can go astray only inside swaitpid, after waitpid(). *)
THEOREM StrayWindow == Spec => StrayOnlyInWindow
<1>1. IInv /\ [Next]_vars => [stray' # stray => pc \in {"reaped", "reset"}]_vars
  <2> SUFFICES ASSUME IInv, Next, stray' # stray PROVE pc \in {"reaped", "reset"}
    BY DEF vars
  <2>1. StraySignal
    BY DEF Next, Command, swaitpid, Handler, Child, Gone, vars, ExternalBackground,
       ExternalForeground, ForkFails, JobsCommand, Quit, QuitKill, ForegroundCommand,
       BackgroundCommand, KillCommand, WaitExited, WaitStopped, RemoveForeground,
       ResetForeground, ctrlZHandler, ctrlCHandler, ChildEnds, ChildDies, ChildStops
  <2>2. foreground # NULL
    BY <2>1 DEF StraySignal, Dangling
  <2>3. pc \in {"wait", "reaped", "reset"}
    BY <2>2 DEF IInv, ForegroundIsAwaited
  <2>4. ASSUME pc = "wait" PROVE FALSE
    <3>1. foreground \in DOMAIN jobs /\ proc[jobs[foreground].pid] # "none"
      BY <2>4 DEF IInv, ForegroundIsAwaited, OwnProcess
    <3> QED BY <2>1, <3>1 DEF StraySignal, Dangling
  <2> QED BY <2>3, <2>4
<1> QED BY <1>1, AlwaysIInv, PTL DEF Spec, StrayOnlyInWindow
=============================================================================
