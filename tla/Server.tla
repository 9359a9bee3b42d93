------------------------------- MODULE Server -------------------------------
(***************************************************************************)
(* server.c: one master thread accepts connections and puts them in a      *)
(* bounded ring; a fixed pool of workers takes them out and answers them.  *)
(* One mutex protects the ring and the list of requests in service, one    *)
(* condition variable wakes the workers (queue_not_empty) and one the      *)
(* master (queue_not_full).  When ring plus list are full the master runs  *)
(* an overload policy: block, dt (drop_tail), dh (drop_head) or random.    *)
(*                                                                         *)
(* The step is what a thread does between two points where another thread  *)
(* can interfere: taking or releasing the mutex, a condition wait, and a   *)
(* system call outside the mutex.  Connections are numbered in the order   *)
(* accept() returns them, and that number is also the accept time the      *)
(* master stamps.                                                          *)
(***************************************************************************)
EXTENDS Request, FiniteSets

CONSTANTS
  Workers,       \* thread ids of the pool (argv: threads)
  Capacity,      \* queue_capacity (argv: queue_size)
  Policies,      \* overload policies the server may be started with
  Requests,      \* the requests clients send
  ClientFaults,  \* what clients do instead: "stall" (send nothing more),
                 \* "hangup" (end of file inside the headers), "reset"
                 \* (go away before the answer is written)
  Spurious,      \* pthread_cond_wait may return without a signal
  OpenMax,       \* RLIMIT_NOFILE: descriptors are below it
  MaxConns       \* bound: connections accepted in a behaviour

ASSUME WorkersAssumption ==
  IsFiniteSet(Workers) /\ {"master", "nobody"} \cap Workers = {}
ASSUME CapacityAssumption == Capacity \in Nat \ {0}
ASSUME PoliciesAssumption == Policies \subseteq {"block", "dt", "dh", "random"}
ASSUME RequestsAssumption == Requests \subseteq HttpRequest
ASSUME FaultsAssumption ==
  ClientFaults \subseteq {"stall", "hangup", "reset"} /\ Spurious \in BOOLEAN
ASSUME BoundsAssumption == OpenMax \in Nat /\ MaxConns \in Nat

VARIABLES
  policy,        \* master_info.policy
  items, head, tail, size,        \* requests_queue
  list, list_size,                \* requests_list; one entry per worker
  mutex,         \* owner of queue_mutex
  mpc, mreq,     \* the master's control point; its connfd and accept_time
  wpc,           \* each worker's control point
  srcfd,         \* the descriptor of the static file a worker has open
  stamp, answer, \* stats_stamp, and what requestHandle returned and sent
  counters,      \* thread_info: the three counters of each worker
  fdTable,       \* the kernel's descriptor table
  accepted,      \* how many connections have been accepted
  reply,         \* what became of each connection
  exit           \* the call whose failure ended the process

queueVars  == <<items, head, tail, size>>
listVars   == <<list, list_size>>
masterVars == <<mpc, mreq>>
workerVars == <<wpc, srcfd, stamp, answer, counters>>
kernelVars == <<fdTable, reply, exit>>
vars == <<policy, queueVars, listVars, mutex, masterVars, workerVars,
          kernelVars, accepted>>

-----------------------------------------------------------------------------
(* Types *)

NoFd   == -1                    \* connfd = -1 in requests_list
FDs    == 4..(OpenMax - 1)      \* 0, 1, 2 are standard, 3 is listenfd
Closed == 0
AFile  == -1                    \* a descriptor of a static file
Conns  == 1..MaxConns
Slots  == 0..(Capacity - 1)

request_t   == [connfd : FDs \cup {NoFd}, arrival : 0..MaxConns]
NoRequest   == [connfd |-> NoFd, arrival |-> 0]
thread_info == [requests_count : Nat, static_requests_count : Nat,
                dynamic_requests_count : Nat]
NoCount     == [requests_count |-> 0, static_requests_count |-> 0,
                dynamic_requests_count |-> 0]
Response    == [result : request_result, header : thread_info, empty : BOOLEAN]
NoResponse  == [result |-> ERR501, header |-> NoCount, empty |-> FALSE]

MasterPCs == {"accept", "lock", "check", "blocked", "refuse"}
WorkerPCs == {"lock", "locked", "waiting", "handle", "mmap", "close",
              "finish", "stuck", "spin", "failed"}

(* The workers whose request is in requests_list *)
Serving == {w \in Workers : wpc[w] \in {"handle", "mmap", "close", "finish",
                                        "stuck", "spin"}}

-----------------------------------------------------------------------------
(* The kernel and segel.c: every failing call ends the process             *)

IsOpen(fd) == fd \in FDs /\ fdTable[fd] # Closed

Free == {fd \in FDs : fdTable[fd] = Closed}

(* accept() and open() return the lowest free descriptor *)
LowestFree(fd) == fd \in Free /\ \A other \in Free : fd <= other

(* Close() of the descriptors fdOf[i]: each must be open when its turn     *)
(* comes.  A client whose connection goes before its answer is dropped.    *)
Close(fdOf) ==
  LET fds == {fdOf[i] : i \in DOMAIN fdOf}
  IN  /\ fdTable' = [fd \in FDs |-> IF fd \in fds THEN Closed ELSE fdTable[fd]]
      /\ reply' = [c \in Conns |->
                     IF reply[c] = "none" /\ \E fd \in fds \cap FDs : fdTable[fd] = c
                     THEN "dropped" ELSE reply[c]]
      /\ exit' = IF /\ \A i \in DOMAIN fdOf : IsOpen(fdOf[i])
                    /\ \A i, j \in DOMAIN fdOf : fdOf[i] = fdOf[j] => i = j
                 THEN exit ELSE "Close"

(* The answer is written on whatever connection the descriptor now names.  *)
Answered(fd) ==
  [c \in Conns |-> IF IsOpen(fd) /\ fdTable[fd] = c THEN "answered" ELSE reply[c]]

-----------------------------------------------------------------------------
(* The ring                                                                *)

(* (head + 1) % queue_capacity, (tail + 1) % queue_capacity *)
Succ(i) == (i + 1) % Capacity

(* (head + i) % queue_capacity: where the i-th oldest request is *)
Slot(i) == (head + i) % Capacity

(* How far a slot is behind the head *)
Offset(s) == (s + Capacity - head) % Capacity

(* The guard of the master's loop *)
Full == size + list_size = Capacity

MutSignal == mpc

(* pthread_cond_signal(&queue_not_full): only the master waits on it *)
Signal == IF mpc = "blocked" THEN "lock" ELSE mpc

MutBroadcast ==
  IF \E w \in Workers : wpc[w] = "waiting"
  THEN [wpc EXCEPT ![CHOOSE w \in Workers : wpc[w] = "waiting"] = "lock"]
  ELSE wpc

(* pthread_cond_broadcast(&queue_not_empty) *)
Broadcast == [w \in Workers |-> IF wpc[w] = "waiting" THEN "lock" ELSE wpc[w]]

-----------------------------------------------------------------------------
(* Start-up: main, getargs, createRequestQueue, createRequestList and      *)
(* createWorkersPool.  pthread_create reports failure by a positive        *)
(* number, which DO_SYS does not see, so any thread may be missing.        *)

Init ==
  /\ policy \in Policies
  /\ items = [s \in Slots |-> NoRequest]
  /\ head = 0 /\ tail = 0 /\ size = 0
  /\ list = [w \in Workers |-> NoRequest] /\ list_size = 0
  /\ mutex = "nobody"
  /\ mpc = "accept" /\ mreq = NoRequest
  /\ wpc \in [Workers -> {"lock", "failed"}]
  /\ srcfd = [w \in Workers |-> NoFd]
  /\ stamp = [w \in Workers |-> NoCount]
  /\ answer = [w \in Workers |-> NoResponse]
  /\ counters = [w \in Workers |-> NoCount]
  /\ fdTable = [fd \in FDs |-> Closed]
  /\ accepted = 0
  /\ reply = [c \in Conns |-> "none"]
  /\ exit = "no"

-----------------------------------------------------------------------------
(* The master: runMaster and the policies                                  *)

(* Accept, at the top of the loop or at the end of drop_tail *)
MasterAccept ==
  /\ mpc = "accept" /\ accepted < MaxConns
  /\ IF Free = {}
     THEN exit' = "Accept" /\ UNCHANGED <<accepted, fdTable, masterVars>>
     ELSE /\ accepted' = accepted + 1
          /\ \E fd \in FDs :
               /\ LowestFree(fd)
               /\ fdTable' = [fdTable EXCEPT ![fd] = accepted + 1]
               /\ mreq' = [connfd |-> fd, arrival |-> accepted + 1]
          /\ mpc' = "lock"
          /\ UNCHANGED exit
  /\ UNCHANGED <<policy, queueVars, listVars, mutex, workerVars, reply>>

(* pthread_mutex_lock, also on the way out of pthread_cond_wait *)
MasterLock ==
  /\ mpc = "lock" /\ mutex = "nobody"
  /\ mutex' = "master" /\ mpc' = "check"
  /\ UNCHANGED <<policy, queueVars, listVars, mreq, workerVars, kernelVars,
                 accepted>>

MutMasterEnqueue ==
  LET front == (head + Capacity - 1) % Capacity
  IN  /\ mpc = "check" /\ ~Full
      /\ items' = [items EXCEPT ![front] = mreq]
      /\ head' = front /\ size' = size + 1
      /\ wpc' = Broadcast
      /\ mpc' = "accept" /\ mutex' = "nobody"
      /\ UNCHANGED <<policy, tail, listVars, mreq, srcfd, stamp, answer,
                     counters, kernelVars, accepted>>

(* Room: put the request at the tail, wake the workers, unlock *)
MasterEnqueue ==
  /\ mpc = "check" /\ ~Full
  /\ items' = [items EXCEPT ![tail] = mreq]
  /\ tail' = Succ(tail) /\ size' = size + 1
  /\ wpc' = Broadcast
  /\ mpc' = "accept" /\ mutex' = "nobody"
  /\ UNCHANGED <<policy, head, listVars, mreq, srcfd, stamp, answer, counters,
                 kernelVars, accepted>>

block ==
  /\ mpc = "check" /\ Full /\ policy = "block"
  /\ mpc' = "blocked" /\ mutex' = "nobody"
  /\ UNCHANGED <<policy, queueVars, listVars, mreq, workerVars, kernelVars,
                 accepted>>

(* drop_tail unlocks before it closes.  It is the policy dt, and what the  *)
(* other two fall back on when every request is already in service.        *)
drop_tail ==
  /\ mpc = "check" /\ Full
  /\ policy = "dt" \/ (policy \in {"dh", "random"} /\ size = 0)
  /\ mpc' = "refuse" /\ mutex' = "nobody"
  /\ UNCHANGED <<policy, queueVars, listVars, mreq, workerVars, kernelVars,
                 accepted>>

(* The rest of drop_tail: close the newcomer, then accept the next one *)
MasterRefuse ==
  /\ mpc = "refuse"
  /\ Close([i \in {0} |-> mreq.connfd])
  /\ mpc' = "accept"
  /\ UNCHANGED <<policy, queueVars, listVars, mutex, mreq, workerVars, accepted>>

MutDropHead ==
  /\ mpc = "check" /\ Full /\ policy = "dh" /\ size # 0
  /\ Close([i \in {0} |-> items[head].connfd])
  /\ size' = size - 1
  /\ UNCHANGED <<policy, items, head, tail, listVars, mutex, masterVars,
                 workerVars, accepted>>

drop_head ==
  /\ mpc = "check" /\ Full /\ policy = "dh" /\ size # 0
  /\ Close([i \in {0} |-> items[head].connfd])
  /\ head' = Succ(head) /\ size' = size - 1
  /\ UNCHANGED <<policy, items, tail, listVars, mutex, masterVars, workerVars,
                 accepted>>

MutLimit(n) == (n + 1) \div 2

(* How many of n waiting requests drop_random keeps *)
Limit(n) == n \div 2

(* The offsets that may be kept, in increasing order: pick[j] is the j-th. *)
(* Module DropRandom has the loops that make and apply the choice.         *)
Picks(n) ==
  {pick \in [0..(Limit(n) - 1) -> 0..(n - 1)] :
     \A i, j \in DOMAIN pick : i < j => pick[i] < pick[j]}

MutCompacted(pick) ==
  [s \in Slots |-> IF Offset(s) < Limit(size) THEN items[Slot(Offset(s))]
                                              ELSE items[s]]

(* The kept requests move up to the head; slots behind them keep what they *)
(* had.                                                                    *)
Compacted(pick) ==
  [s \in Slots |-> IF Offset(s) < Limit(size) THEN items[Slot(pick[Offset(s)])]
                                              ELSE items[s]]

drop_random ==
  /\ mpc = "check" /\ Full /\ policy = "random" /\ size # 0
  /\ \E pick \in Picks(size) :
       LET picked == {pick[j] : j \in DOMAIN pick}
       IN  /\ Close([i \in (0..(size - 1)) \ picked |-> items[Slot(i)].connfd])
           /\ items' = Compacted(pick)
  /\ tail' = Slot(Limit(size)) /\ size' = Limit(size)
  /\ UNCHANGED <<policy, head, listVars, mutex, masterVars, workerVars, accepted>>

-----------------------------------------------------------------------------
(* A worker: workerFunction                                                *)

WorkerLock(w) ==
  /\ wpc[w] = "lock" /\ mutex = "nobody"
  /\ mutex' = w /\ wpc' = [wpc EXCEPT ![w] = "locked"]
  /\ UNCHANGED <<policy, queueVars, listVars, masterVars, srcfd, stamp, answer,
                 counters, kernelVars, accepted>>

WorkerWait(w) ==
  /\ wpc[w] = "locked" /\ size = 0
  /\ mutex' = "nobody" /\ wpc' = [wpc EXCEPT ![w] = "waiting"]
  /\ UNCHANGED <<policy, queueVars, listVars, masterVars, srcfd, stamp, answer,
                 counters, kernelVars, accepted>>

(* Take the head out of the ring and into the list, stamp the counters,    *)
(* signal queue_not_full, unlock.                                          *)
WorkerDispatch(w) ==
  /\ wpc[w] = "locked" /\ size # 0
  /\ head' = Succ(head) /\ size' = size - 1
  /\ list' = [list EXCEPT ![w] = items[head]] /\ list_size' = list_size + 1
  /\ stamp' = [stamp EXCEPT ![w] = counters[w]]
  /\ mpc' = Signal /\ mutex' = "nobody"
  /\ wpc' = [wpc EXCEPT ![w] = "handle"]
  /\ UNCHANGED <<policy, items, tail, mreq, srcfd, answer, counters, kernelVars,
                 accepted>>

(* requestHandle up to the answer.  A static file needs a descriptor of    *)
(* its own before anything is written.                                     *)
WorkerHandle(w) ==
  /\ wpc[w] = "handle"
  /\ \E req \in Requests :
       LET handled == requestHandle(req, stamp[w])
       IN  /\ answer' = [answer EXCEPT ![w] = handled]
           /\ IF handled.result # STATIC
              THEN /\ reply' = Answered(list[w].connfd)
                   /\ wpc' = [wpc EXCEPT ![w] = "close"]
                   /\ UNCHANGED <<srcfd, fdTable, exit>>
              ELSE IF Free = {}
              THEN exit' = "Open" /\ UNCHANGED <<wpc, srcfd, fdTable, reply>>
              ELSE /\ \E fd \in FDs :
                        /\ LowestFree(fd)
                        /\ srcfd' = [srcfd EXCEPT ![w] = fd]
                        /\ fdTable' = [fdTable EXCEPT ![fd] = AFile]
                   /\ wpc' = [wpc EXCEPT ![w] = "mmap"]
                   /\ UNCHANGED <<reply, exit>>
  /\ UNCHANGED <<policy, queueVars, listVars, mutex, masterVars, stamp, counters,
                 accepted>>

MutWorkerServeStatic(w) ==
  /\ wpc[w] = "mmap"
  /\ reply' = Answered(list[w].connfd)
  /\ srcfd' = [srcfd EXCEPT ![w] = NoFd]
  /\ wpc' = [wpc EXCEPT ![w] = "close"]
  /\ UNCHANGED <<policy, queueVars, listVars, mutex, masterVars, stamp, answer,
                 counters, fdTable, exit, accepted>>

(* requestServeStatic: mmap() refuses a length of 0; the file is closed    *)
(* before the answer is written.                                           *)
WorkerServeStatic(w) ==
  /\ wpc[w] = "mmap"
  /\ IF answer[w].empty
     THEN exit' = "Mmap" /\ UNCHANGED <<wpc, srcfd, fdTable, reply>>
     ELSE /\ exit' = IF IsOpen(srcfd[w]) THEN exit ELSE "Close"
          /\ fdTable' = [fd \in FDs |-> IF fd = srcfd[w] THEN Closed ELSE fdTable[fd]]
          /\ reply' = Answered(list[w].connfd)
          /\ srcfd' = [srcfd EXCEPT ![w] = NoFd]
          /\ wpc' = [wpc EXCEPT ![w] = "close"]
  /\ UNCHANGED <<policy, queueVars, listVars, mutex, masterVars, stamp, answer,
                 counters, accepted>>

(* The client sends nothing more: Rio_readlineb blocks for ever.           *)
WorkerStall(w) ==
  /\ wpc[w] = "handle" /\ "stall" \in ClientFaults
  /\ wpc' = [wpc EXCEPT ![w] = "stuck"]
  /\ UNCHANGED <<policy, queueVars, listVars, mutex, masterVars, srcfd, stamp,
                 answer, counters, kernelVars, accepted>>

(* End of file inside the headers: Rio_readlineb returns 0 and leaves buf  *)
(* as it is, so requestReadhdrs never sees its empty line and loops.       *)
WorkerHangup(w) ==
  /\ wpc[w] = "handle" /\ "hangup" \in ClientFaults
  /\ wpc' = [wpc EXCEPT ![w] = "spin"]
  /\ UNCHANGED <<policy, queueVars, listVars, mutex, masterVars, srcfd, stamp,
                 answer, counters, kernelVars, accepted>>

(* The client is gone: Rio_readlineb or Rio_writen fails in unix_error, or *)
(* the write raises SIGPIPE.                                               *)
WorkerReset(w) ==
  /\ wpc[w] = "handle" /\ "reset" \in ClientFaults
  /\ exit' = "Rio"
  /\ UNCHANGED <<policy, queueVars, listVars, mutex, masterVars, workerVars,
                 fdTable, reply, accepted>>

WorkerClose(w) ==
  /\ wpc[w] = "close"
  /\ Close([i \in {0} |-> list[w].connfd])
  /\ wpc' = [wpc EXCEPT ![w] = "finish"]
  /\ UNCHANGED <<policy, queueVars, listVars, mutex, masterVars, srcfd, stamp,
                 answer, counters, accepted>>

MutCounted(old, result) ==
  [requests_count         |-> old.requests_count + (IF result < 0 THEN 0 ELSE 1),
   static_requests_count  |-> old.static_requests_count
                                + (IF result = STATIC THEN 1 ELSE 0),
   dynamic_requests_count |-> old.dynamic_requests_count
                                + (IF result = DYNAMIC THEN 1 ELSE 0)]

(* The counters after a request whose handling returned result *)
Counted(old, result) ==
  [requests_count         |-> old.requests_count + 1,
   static_requests_count  |-> old.static_requests_count
                                + (IF result = STATIC THEN 1 ELSE 0),
   dynamic_requests_count |-> old.dynamic_requests_count
                                + (IF result = DYNAMIC THEN 1 ELSE 0)]

MutWorkerFinish(w) ==
  /\ wpc[w] = "finish" /\ mutex = "nobody"
  /\ Close([i \in {0} |-> list[w].connfd])
  /\ counters' = [counters EXCEPT ![w] = Counted(counters[w], answer[w].result)]
  /\ list' = [list EXCEPT ![w].connfd = NoFd] /\ list_size' = list_size - 1
  /\ mpc' = Signal
  /\ wpc' = [wpc EXCEPT ![w] = "lock"]
  /\ UNCHANGED <<policy, queueVars, mutex, mreq, srcfd, stamp, answer, accepted>>

(* Lock, count, leave the list, signal queue_not_full, unlock *)
WorkerFinish(w) ==
  /\ wpc[w] = "finish" /\ mutex = "nobody"
  /\ counters' = [counters EXCEPT ![w] = Counted(counters[w], answer[w].result)]
  /\ list' = [list EXCEPT ![w].connfd = NoFd] /\ list_size' = list_size - 1
  /\ mpc' = Signal
  /\ wpc' = [wpc EXCEPT ![w] = "lock"]
  /\ UNCHANGED <<policy, queueVars, mutex, mreq, srcfd, stamp, answer, kernelVars,
                 accepted>>

-----------------------------------------------------------------------------
(* POSIX lets both condition waits return without a signal.                *)

MasterSpurious ==
  /\ Spurious /\ mpc = "blocked"
  /\ mpc' = "lock"
  /\ UNCHANGED <<policy, queueVars, listVars, mutex, mreq, workerVars, kernelVars,
                 accepted>>

WorkerSpurious(w) ==
  /\ Spurious /\ wpc[w] = "waiting"
  /\ wpc' = [wpc EXCEPT ![w] = "lock"]
  /\ UNCHANGED <<policy, queueVars, listVars, mutex, masterVars, srcfd, stamp,
                 answer, counters, kernelVars, accepted>>

MasterPolicy == block \/ drop_tail \/ drop_head \/ drop_random

WorkerServe(w) ==
  \/ WorkerHandle(w) \/ WorkerServeStatic(w)
  \/ WorkerStall(w) \/ WorkerHangup(w) \/ WorkerReset(w)

Step ==
  \/ MasterAccept \/ MasterLock \/ MasterEnqueue \/ MasterPolicy \/ MasterRefuse
  \/ MasterSpurious
  \/ \E w \in Workers : \/ WorkerLock(w) \/ WorkerWait(w) \/ WorkerDispatch(w)
                        \/ WorkerServe(w) \/ WorkerClose(w) \/ WorkerFinish(w)
                        \/ WorkerSpurious(w)

(* Where the server may rest: the process has ended; or the master has no  *)
(* client left (MaxConns) or waits for room that is not there, and every   *)
(* worker is stuck, is missing or waits for work that is not there.        *)
AtRest ==
  \/ exit # "no"
  \/ /\ (mpc = "accept" /\ accepted = MaxConns) \/ (mpc = "blocked" /\ Full)
     /\ \A w \in Workers : \/ wpc[w] \in {"stuck", "spin", "failed"}
                           \/ wpc[w] = "waiting" /\ size = 0

Rest == AtRest /\ UNCHANGED vars

Next == (exit = "no" /\ Step) \/ Rest

Spec == Init /\ [][Next]_vars

(* Every thread that can run eventually does.  A thread that asks for the  *)
(* mutex gets it if the mutex is free again and again.  Nothing is assumed *)
(* of clients: they need not come, and ClientFaults says what they may do. *)
Fairness ==
  /\ SF_vars(exit = "no" /\ MasterLock)
  /\ WF_vars(exit = "no" /\ (MasterEnqueue \/ MasterPolicy \/ MasterRefuse))
  /\ \A w \in Workers :
       /\ SF_vars(exit = "no" /\ (WorkerLock(w) \/ WorkerFinish(w)))
       /\ WF_vars(exit = "no" /\ (WorkerWait(w) \/ WorkerDispatch(w)))
       /\ WF_vars(exit = "no" /\ (WorkerServe(w) \/ WorkerClose(w)))

FairSpec == Spec /\ Fairness

-----------------------------------------------------------------------------
(* Properties                                                              *)

(* Every variable of the master, the workers, the ring and the descriptor  *)
(* table has its type; head and tail of the ring stay inside it.           *)
TypeOK ==
  /\ policy \in Policies
  /\ items \in [Slots -> request_t]
  /\ head \in Slots /\ tail \in Slots /\ size \in 0..Capacity
  /\ list \in [Workers -> request_t] /\ list_size \in 0..Cardinality(Workers)
  /\ mutex \in Workers \cup {"master", "nobody"}
  /\ mpc \in MasterPCs /\ mreq \in request_t
  /\ wpc \in [Workers -> WorkerPCs]
  /\ srcfd \in [Workers -> FDs \cup {NoFd}]
  /\ stamp \in [Workers -> thread_info]
  /\ answer \in [Workers -> Response]
  /\ counters \in [Workers -> thread_info]
  /\ fdTable \in [FDs -> {Closed, AFile} \cup Conns]
  /\ accepted \in 0..MaxConns
  /\ reply \in [Conns -> {"none", "answered", "dropped"}]
  /\ exit \in {"no", "Accept", "Open", "Mmap", "Close", "Rio"}

(* The ring and the list together never hold more than queue_capacity      *)
(* requests, and requests_list->size counts exactly the workers that are   *)
(* between taking a request and finishing it.  The master compares with == *)
(* (server.c:325), so a sum that once overshot would never be full again.  *)
CapacityBound ==
  /\ list_size = Cardinality(Serving)
  /\ size + list_size <= Capacity

(* What check_queue asserts of head, tail and size.  It must hold between  *)
(* the critical sections of all three writers: the master, a worker and    *)
(* the compaction of drop_random.                                          *)
RingConsistent ==
  \/ head = tail /\ (size = 0 \/ size = Capacity)
  \/ (tail + Capacity - head) % Capacity = size

(* The mutex has one owner, and it is the thread inside the section.       *)
MutexOwner ==
  /\ mutex = "master" <=> mpc = "check"
  /\ \A w \in Workers : mutex = w <=> wpc[w] = "locked"

(* No wake-up is lost: a worker sleeps only while the ring is empty, and   *)
(* the master sleeps in block() only while there is no room.               *)
NoLostWakeup ==
  /\ \A w \in Workers : wpc[w] = "waiting" => size = 0
  /\ mpc = "blocked" => Full

(* The i-th oldest waiting request *)
At(i) == items[Slot(i)]

(* The master holds a connection it has not enqueued or closed.            *)
Holding == mpc \in {"lock", "check", "blocked", "refuse"}

(* The connection a request was stored for is still the one its descriptor *)
(* names                                                                   *)
Owns(req) == IsOpen(req.connfd) /\ fdTable[req.connfd] = req.arrival

Pending(req) == Owns(req) /\ reply[req.arrival] = "none"

ServiceOwned ==
  \A w \in Workers :
    /\ wpc[w] \in {"handle", "mmap", "stuck", "spin"} => Pending(list[w])
    /\ wpc[w] = "close" => Owns(list[w]) /\ reply[list[w].arrival] = "answered"

FilesOwned ==
  \A w \in Workers :
    wpc[w] = "mmap" =>
      /\ IsOpen(srcfd[w]) /\ fdTable[srcfd[w]] = AFile
      /\ \A v \in Workers : wpc[v] = "mmap" /\ srcfd[v] = srcfd[w] => v = w

(* Descriptors are reused as soon as they are closed, and three parties    *)
(* close them.  Still every request that waits, is held by the master or   *)
(* is being answered has its own connection open under its own descriptor, *)
(* and it is answered once, by the worker that took it.                    *)
DescriptorsOwned ==
  exit = "no" =>
    /\ \A i \in 0..(size - 1) : Pending(At(i))
    /\ Holding => Pending(mreq)
    /\ ServiceOwned /\ FilesOwned

(* Requests wait in order of arrival behind every request in service, and  *)
(* the one the master holds is the newest, whatever drop_head and          *)
(* drop_random took out of the middle; no two workers serve the same one.  *)
FirstComeFirstServed ==
  /\ \A i, j \in 0..(size - 1) : i < j => At(i).arrival < At(j).arrival
  /\ \A w \in Serving, i \in 0..(size - 1) : list[w].arrival < At(i).arrival
  /\ Holding => /\ \A i \in 0..(size - 1) : At(i).arrival < mreq.arrival
                /\ \A w \in Serving : list[w].arrival < mreq.arrival
  /\ \A v, w \in Serving : list[v].arrival = list[w].arrival => v = w

(* Close() never fails: no descriptor is closed twice, so unix_error never *)
(* ends the server on the server's own account.                            *)
NoFailedClose == exit # "Close"

(* One descriptor for each request the capacity admits, one for the        *)
(* connection the master holds and one for each file a worker can have     *)
(* open are enough: with them Accept and Open never fail.                  *)
EnoughDescriptors ==
  LET servable == IF Cardinality(Workers) < Capacity THEN Cardinality(Workers)
                                                     ELSE Capacity
  IN  OpenMax - 4 >= Capacity + 1 + servable => exit \notin {"Accept", "Open"}

(* The requests that each worker has counted, as pairs <<worker, how       *)
(* many-th>>                                                               *)
Tallies == UNION {{w} \X (1..counters[w].requests_count) : w \in Workers}

(* Every answer is counted once, by the worker that gave it, and the       *)
(* header of the answer promised what the counters became: a worker that   *)
(* is between requests has the counters it last sent to a client.          *)
AnswersCounted ==
  /\ Cardinality({c \in Conns : reply[c] = "answered"}) =
       Cardinality(Tallies) + Cardinality({w \in Workers : wpc[w] \in {"close", "finish"}})
  /\ \A w \in Workers :
       wpc[w] \in {"lock", "locked", "waiting"} => counters[w] = answer[w].header

(* Workers whose client stalls or hangs up never come back: the server has *)
(* no timeout.                                                             *)
Stuck == {w \in Workers : wpc[w] \in {"stuck", "spin"}}

(* No worker is left, or the stalled requests alone use up the capacity.   *)
Starved ==
  \/ \A w \in Workers : w \in Stuck \/ wpc[w] = "failed"
  \/ Cardinality(Stuck) = Capacity

(* Every accepted connection is answered or dropped in the end, unless its *)
(* own client stalls or the server is starved.  Missing threads and other  *)
(* clients that stall do not prevent it as long as one worker is left.     *)
EveryConnectionEnds ==
  \A c \in Conns :
    c <= accepted ~> \/ reply[c] # "none"
                     \/ \E w \in Stuck : list[w].arrival = c
                     \/ Starved

=============================================================================
