# Verification of Operating-system-related-projects

The repository holds four separate programs: a multi-threaded web server
(`src/web_server`), a small shell called smash (`src/skeleton_smash`), three
versions of a memory allocator (`src/virtual_memory`) and system calls that give
Linux processes weights (`src/process_weights`). This directory holds TLA+ models
of them, the TLC configurations that check the models on small instances, and
TLAPS proofs of the results that matter most, for every value of the constants.
`PROJECT.json` lists components, runs, theorems, hazards and, definition by
definition, the source lines each definition models.

## Inventory

### Web server

`server.c` runs one master thread and a pool of workers. Shared state: a ring of
waiting requests (`items`, `head`, `tail`, `size`), a list with one place per
worker for the requests in service (`requests_list`), one mutex, two condition
variables (`queue_not_empty`, `queue_not_full`) and three counters per worker.
The master accepts a connection, stamps it and enqueues it; when ring plus list
hold `queue_capacity` requests it runs an overload policy (`block`, `drop_tail`,
`drop_head`, `drop_random`). A worker dequeues, answers through `requestHandle`
(`request.c`), closes the connection and updates its counters. Every system call
goes through a wrapper of `segel.c` that ends the process when the call fails.
`segel.c` also holds the Rio package, with which both ends of a connection read
lines and write: a reader keeps a buffer, a pointer into it and a count.
`client.c` sends one request and prints the answer; `output.c` is the CGI program
a worker forks for a dynamic page, writing to the same connection.

Hard here: the condition variables, the closing of descriptors outside the mutex
by three different parties while the kernel reuses numbers, `drop_random`
compacting the ring in place, counters printed before they are updated, clients
that stall or vanish, threads that were never created; within one request, short
reads and writes, an end of file that leaves the caller's buffer as it was, a
file that changes between `stat`, `open` and the last write, a child that still
holds the connection. Correct means: never more than the capacity, first come
first served, no lost wake-up, no descriptor closed twice or used by two
parties, every answer counted once, every connection ended; the bytes of a
connection in order, the answer whole, and no single request that takes the
server down.

### Allocators

`malloc_1.cpp` calls `sbrk` and keeps nothing. `malloc_2.cpp` keeps a list of
blocks in address order and takes the first free one that fits. `malloc_3.cpp`
keeps all blocks in a list sorted by size, splits, merges with neighbours, grows
the last block (the wilderness) and maps large requests. Both count blocks and
bytes in five statistics.

Hard here: long sequences of legal calls; `sbrk` failing in the middle of a
`srealloc`; pointers taken before a merge and used after it; the thresholds.
Correct means: regions never overlap, nothing handed out twice or leaked,
contents kept, statistics right.

### smash

The shell (`Commands.cpp`, `signals.cpp`, `smash.cpp`) reads a line, creates a
command and executes it. State: the map of jobs, the pointer to the foreground
job, the terminal's and the pipes' descriptors, the prompt, the current and the
previous directory. A line is split into words and nested by its first pipe or
redirection. External commands are forked, in
front (the shell waits in `swaitpid`) or in the background. Ctrl-C and Ctrl-Z
handlers interrupt the shell anywhere and signal the foreground job.

Hard here: children that end and stop on their own time, pids that are reused,
handlers between `waitpid` and the update of the jobs list, pipes whose writer
is awaited before the reader exists, fixed arrays and index arithmetic on lines
of any shape, a current directory that is removed. Correct means: jobs and
children correspond one to one, a signal goes to the awaited job, a line leaves
the shell's descriptors as they were, every byte arrives, the prompt comes back,
a command gets the words that were typed for it, and `cd -` leads back.

### Process weights

`kernel/hw2.c` adds a weight to every task and four system calls: set, get, the
sum over the leaves below the caller, and the heaviest ancestor. They take no
lock, while tasks fork, exit, are reparented and reaped.

## Modules

| module | models | role |
| --- | --- | --- |
| `Request` | request.c | what `requestHandle` decides for a request |
| `Rio` | segel.c | `rio_t`, `rio_read`, `rio_readlineb` over a stream cut anywhere |
| `Exchange` | request.c, segel.c, client.c, output.c | one request from connect to close: extends `Rio` and `Request` |
| `MCExchange`, `ExchangeProofs` | - | requests and files for TLC; theorems about `Exchange` |
| `Server` | server.c, segel.c wrappers | master, workers, queue, policies, descriptors |
| `Admission` | - | what the server promises clients: abstract specification |
| `ServerAdmission` | - | the refinement mapping from `Server` to `Admission` |
| `MCServer`, `MCAdmission` | - | constants for TLC |
| `DropRandom`, `DropRandomProofs` | `drop_random` of server.c | its loops, one step per turn, and that they are one step |
| `ServerProofs` | - | theorems about `Server`, and that it implements `Admission` |
| `Allocation` | - | what an allocator promises: abstract specification |
| `FirstFit`, `FirstFitProofs` | malloc_2.cpp | the list allocator, theorems about it, and that it implements `Allocation` |
| `SortedHeap`, `SortedHeapProofs` | malloc_3.cpp | the sorted-list allocator, and theorems about it |
| `MCSortedHeap` | - | bounds on what is in use at a time, for TLC |
| `Smash`, `SmashProofs` | Commands.cpp, signals.cpp | job control, and theorems about it |
| `Pipe` | Commands.cpp | pipes and redirections over one line |
| `Shell`, `MCShell` | Commands.cpp, smash.cpp | from a line to commands; cd, chprompt, quit; lines for TLC |
| `ShellProofs` | - | theorems about `Shell` |
| `Weights`, `WeightsProofs` | hw2.c | the system calls on a changing tree of tasks, and theorems about them |

Operators named `Mut...` are plausible bugs of the definition that follows them.
Each property of a passing run is violated when its mutant takes that
definition's place.

**Server.** A step is what a thread does between two points where another can
interfere: taking the mutex, a condition wait, a system call outside the mutex.
`mpc` and `wpc` say where each thread is; the names of the ring, the list and
the counters are the program's. `MasterAccept`, `MasterLock`, `MasterEnqueue`,
`block`, `drop_tail`, `drop_head`, `drop_random`, `MasterRefuse` are the
master; `WorkerLock`, `WorkerWait`, `WorkerDispatch`, `WorkerHandle`,
`WorkerServeStatic`, `WorkerClose`, `WorkerFinish` a worker. `fdTable` is the
kernel's table, which gives out the lowest free number. `WorkerStall`,
`WorkerHangup` and `WorkerReset` are clients that misbehave; a worker of
`wpc = "failed"` was never created; condition waits may return spuriously. A
failing wrapper sets `exit` and everything stops. Connections are numbered in
order of arrival.

**Request.** A request is its method, whether the URI holds `..` or `cgi`, and
the `stat` bits of its file; the answer is status, returned value and header.

**Rio.** `rio_cnt`, `rio_bufptr` and `rio_buf` are the fields of `rio_t`;
`Refill` is a `read()` that gets any part of what has arrived, `TakeByte` one
turn of the loop in `rio_readlineb`, `Interrupted` EINTR, `EndOfFile` and
`ReadFails` the other outcomes. `write` and `EndStream` are the peer's. `sent`
and `got` are the bytes written by the peer and handed out to the caller.

**Exchange.** `spc`, `cpc` and `gpc` are the places of the worker, the client
and the CGI process; `out` is what each still has to write, and a step of
`rio_writen` writes any part of it. `file` is what the URI names and may change
(`FileChanges`) while it is used, up to `MaxChanges` times. `stat` shows whether it
exists, is regular, has bytes, and the bits `S_IRUSR` and `S_IXUSR` that the code
tests (request.c:202, 208). These are the owner's bits: whether `open` succeeds is
`readable`, whether `execve` does is `runs`, and neither follows from what `stat`
showed. A file that is not regular is a directory, which can be opened and not
mapped; `srcfd` is the file that is open. A wrapper that fails sets `exit`, and the
server is gone; an `execve` that fails ends the child only. A first line without
words leaves `method` as the stack had it. A text is a few bytes: where lines end,
which is blank, and one letter for each part of an answer. `Garbage` is what an
array on the stack may hold before it is first written.

**FirstFit** and **SortedHeap** are functions from a heap to a heap, with the
names of the C++ functions, and a client that calls them in any order. `sbrk`
may fail at any time (`granted`). In FirstFit the list is a sequence of blocks
with one value each for contents; in SortedHeap memory is an array of cells, a
header fills one cell and stays readable when its block is merged away, because
the code reads such headers. In both, `num * size` in `scalloc` is a `size_t` and wraps
at `WordMod`. `Heap.dead` says why the process ended, `Heap.harm` which of the slips
below have happened.

**Shell.** A line is a sequence of letters, a letter being a character or a
whole word such as `cd` where only its identity matters. `todo` is the part of the
line the shell itself has still to execute: `PipeExecute` goes on with the right
side (the left one runs in a child), `RedirectionExecute` with the left one. A
constructor or a pointer that goes astray ends in `pc = "fault"`. External
commands end in `ran`: what they do then is in Smash and Pipe. Directories may be
removed and made again while the prompt is on the screen. `_parseCommandLine` reads
word after word from the letters; `WordsOf`, the meaning it is compared with, looks at
no loop: the k-th word is the run of letters whose first one has k - 1 firsts before it.

**Smash.** `proc` is the kernel's view of each child. `swaitpid` is three steps
(`WaitExited` or `WaitStopped`, `RemoveForeground`, `ResetForeground`), with the
handlers enabled between them. `StraySignal` is a handler that runs after the
child was reaped. `odd` holds the processes that stopped or were signalled
behind the list's back since a command last had them.

**Pipe.** One line of up to `MaxStages` commands; `PipeCommand::execute` is
unfolded into steps over `stage`, with the descriptor table and the bytes in
every pipe. `pipe()` and `open()` may fail.

**Weights.** `sys_get_heaviest_ancestor` takes one step per turn of its loop,
`sys_get_leaf_children_sum` one per call and return of its recursion, whose
frames are in `frames`. Others change the tree between the steps. A child that exits
stays in its parent's list until it is reaped: by the parent between its calls, or, if the
parent is not `Alone`, also while it is inside a call. Such a parent has a second
thread that waits for the child, or ignores SIGCHLD, so that the child releases
itself. `astray` says that a frame stands on a link that is in no list any more: what
the loop does then is outside what `hw2.c` defines, and the call stays there. `Ancestors(t)` is
what every set has that holds `t` and with each task its parent.

## Runs

| run | configuration | states | shows |
| --- | --- | --- | --- |
| `server` | 2 workers, capacity 2, 4 connections, all policies and client faults | 2,109,406 | `RingConsistent`, `NoLostWakeup`, `DescriptorsOwned`, `FirstComeFirstServed`, `NoFailedClose`, `EnoughDescriptors`, `AnswersCounted` |
| `admission` | 2 workers, capacity 3, 4 connections, all policies, stalling clients, fair | 81,124 | `ImplementsAdmission`, `EveryConnectionEnds` |
| `drop_random` | rings of up to 5 slots | 2,073 | `SameAsOneStep` |
| `first_fit` | header of 2, requests 0 to 3, heap of 10 | 16,355 | `BlocksApart`, `InUseIsLive`, `CountersAgree`, `ImplementsAllocation` |
| `sorted_heap` | heap of 8 cells, 2 mappings, sizes 1, 2, 3, 6, 7, 8, words to 16 | 255,099 | `WellFormed`, `Intact`, `InUseIsLive`, `CountersAgree` |
| `smash` | 3 pids, job ids to 3, all signals, children that stop, fair | 721,448 | `OwnProcess`, `NoLostChild`, `ForegroundIsAwaited`, `StateIsTrue`, `QuitKillsAll`, `InterruptEnds` |
| `pipe` | up to 4 stages, 3 bytes, pipes of 3, descriptors to 5, fair | 865 | `StdioRestored`, `Delivered`, `CommandEnds` |
| `weights` | 3 pids beside init and idle, one of them not `Alone`, weights 0 and 2, ints from -3 to 2, 2 changes during a sum, fair | 290,864 | `AstrayOnlyBelow`, `LeafSumExact`, `HeaviestOfSteady`, `WalkEnds` |
| `exchange` | buffers of 2 and 3 bytes, 4 requests, 8 files, one change, fair | 573,950 | `StreamInOrder`, `WholeRequestRead`, `AnswerComplete`, `ServerOutlivesRequest`, `ExchangeEnds` |
| `shell` | lines of up to 3 letters of 12, of 4 of 5, and longer ones; 2 directories | 425,600 | `RunAsTyped`, `FaultsOnlyBy`, `LastStageOnly`, `BackWhereItWas` |
| `list_loses_blocks` | heap of 8 cells | violated | `OnlyHeadWithoutPrev` |
| `pipe_full` | 3 bytes, a pipe of 2 | violated | `CommandEnds` |

Why the bounds are enough for the cases to happen:

- `server`: with a capacity of two and four connections every policy meets a
  full server with each split between ring and list, the ring wraps, and a
  descriptor is reused while others are open. `OpenMax = 9` is exactly what
  `EnoughDescriptors` claims to be enough. `Workers` is a symmetry set; the
  runs with temporal properties use none.
- `admission`: with capacity three `drop_random` drops two of three.
- `drop_random`: one and two turns of the ring, odd and even halves, every
  sequence of random numbers.
- `first_fit`: three blocks, requests of zero and above the limit, reuse of a
  larger block, a heap that runs full.
- `sorted_heap`: the client has at a time seven cells of heap and nothing mapped
  or cleared, or all of the heap in one region, or three cells of heap beside
  mappings and cleared regions. Every case of `srealloc` from a to h is reached;
  a heap block can grow, or merge, to `MMAP_THRESHOLD` (7), and mappings have two
  sizes. The largest product of `scalloc` is 16, below `WordMod`: none wraps, which is
  what the properties assume (`CallsFit`).
- `smash`: three children, so that an id is reused between two living jobs.
- `pipe`: with descriptors up to 5 a line of four stages runs out of them.
- `weights`: ints so small that two leaves of weight 2 wrap; with two changes
  during a sum a task that was counted can be reparented in front of the walker. Task 4
  is not `Alone`: as a caller with children it loses them in the middle of its sum.
- `exchange`: a buffer of two bytes is refilled several times within a line, a
  limit of three (`MAXLINE`) cuts one request's header line so that its tail
  looks blank, and one change of the file reaches each gap between two uses. Of the eight
  files, five have a bit set for what cannot be done with them, or lack one: a
  directory, an empty page, an empty program, and modes 0000 and 0700 of another user.
- `shell`: arrays of three places and lines cut at five letters (20 and 80 in
  the code) are filled and overfilled.

Deadlock is checked in every passing run; `AtRest`, `Gone`, `Ended` and `Done`
are the states in which a system may stop.

### Fairness

- Server: a thread that is able to run runs (weak fairness per thread), and one
  that competes for the mutex again and again gets it (strong fairness on
  `MasterLock`, `WorkerLock`, `WorkerFinish`), as Linux's futex-based mutexes
  and scheduler provide. Nothing is assumed of clients: none need arrive, and a
  stalled one stays stalled.
- Smash: the shell's own steps after `waitpid` and the death of a process that
  was sent SIGKILL. No program is assumed to end, no user to press a key.
- Exchange: a process that can run runs (weak fairness on the server, the CGI
  program and the client, each as a whole). The client need not be killed nor
  the file change, and `read` cannot be interrupted for ever.
- Pipe: the shell's steps and those of its child, which reads its input to the
  end and writes.
- Weights: a process inside a system call is scheduled.

## Proofs

All for every value of the constants, from the named assumptions on them
(`WorkersAssumption`, `CapacityAssumption`, `ShellAssumption`, ...), which the runs
evaluate. Some state one more hypothesis: `CallsFit` two theorems of FirstFitProofs
and all of SortedHeapProofs, `EnoughFds` those about `Pipe` in ShellProofs.

### Server

**ServerProofs.** `TypeCorrect`, `CapacityRespected`, `RingStaysConsistent`,
`WakeupsNotLost`. The inductive invariant is `Structure`: types, the capacity
bound, `RingTail` (`tail` is `size` slots behind `head`; `RingConsistent`, the
program's own `check_queue`, cannot tell an empty from a full ring and is not
inductive), who owns the mutex, and `NoLostWakeup`. The last needs the mutex: a
thread that has tested its condition holds it until it waits.

`ServedInOrder` is on top of `Structure`, with the arrivals known so far.
`DescriptorsStayOwned` and `CloseNeverFails`: every descriptor in the ring, the
list or the master's hands still names the connection it was stored for (`Owned`).
This rests on the order: two places hold different arrivals, so their descriptors
differ, and closing one leaves the other open.

`NothingLeaks` is the other direction: every open descriptor has an owner that
has yet to close it (`NoLeak`). Owners are counted: one for each place that the
capacity admits, one in the master's hands, one file for each worker. So
`DescriptorsSuffice`: that many numbers are enough.

`AnswersAreCounted`: while a worker is between its answer and its update, that
answer is in `Uncounted`; all others are in `Tallies`, the set of the numbers each
worker has counted to. `Counting` says that these two together are as many as the
answers, and that the counters a header promised are those the worker will have.
`AnswersCounted` adds the counters up as the size of `Tallies`, because what a
fold computes for every input is beyond the prover.

`ServerImplementsAdmission`: every step of a thread is
a step of `Admission` or leaves the mapped state as it is. The mapping reads the
ring from `head`, so its steps need `Structure` and `Order`; that a request which
leaves the list was answered is `AnsweredBeforeFinish`.

**DropRandomProofs.** `LoopsAreOneStep`, which justifies that `Server` takes
`drop_random` as one step: for a ring of any size the two loops keep half of the
requests in their order and close the others. In the first loop the picked offsets
are the last `i` of `indexes`, so none is picked twice; the second has kept no
more requests than it has looked at, so it overwrites none that it still needs.

### One exchange

**ExchangeProofs.** `StreamStaysInOrder`: for every buffer size, line limit and
set of requests, both readers hand out what the peer wrote, in order and once.
`StreamInOrder` relates `got` and the buffer to `sent` and is inductive together
with `StreamTypes` (the types of the readers) and `InBuffer` (pointer and count
stay within `rio_buf`); these make `RioInv`. Every step of an exchange is a
`RioStep`, one of the few things that can happen to a reader, and each of them
keeps `RioInv`.

`ServerOutlives`: the server ends only for the reasons listed, whatever the files are
and whatever `stat` shows of them. `Stages` says for each place in `requestHandle` what
is already known of the client and the file: at `Open`, say, that the owner may read
it, unless it has changed.
`AllOfRequestIsRead`: `Requests` follows the lines that the worker has read
through the request that the client sends, up to the blank one.
`AllOfAnswerIsPrinted`: `Answers` says what has been written and what is still to
be, which together are one of the answers in `Wholes`, and that the client has
printed what it read. If `execve` failed the whole answer is its head. These use
`RequestsAssumption` (a request ends with its only blank line), which is the shape
`client.c` writes.

### Allocator

**FirstFitProofs.** `TypeCorrect`, `BlocksStayApart`, `NothingSharedOrLost`,
`AlwaysLargeEnough`. One lemma per function says what it does to a heap that is
well-typed and in order; the invariant then follows action by action.
`AlwaysLargeEnough` assumes `CallsFit`: no product in `scalloc` wraps.

`StatisticsAgree`: every function keeps `Agree`, that the five statistics are what
a walk over the list would count. The bytes of some blocks are counted as the size
of a set, `Bytes`, not by a fold. A block that becomes free or taken changes two
counters by what it adds to that set or takes from it (`Recounted`).

`ContractKept`: under `CallsFit` every call is a step of `Allocation`, with the
contents that memory really holds. A second lemma per function says what it does to
the contents of blocks in use; that regions are apart follows from `BlocksApart`
and `LargeEnough`. Without `CallsFit` it is false: after a product that wraps the
client holds a region larger than its block.

**SortedHeapProofs.** `HeapTiled`: for a heap of any size the blocks lie end to end
from the first cell to the break, and the wilderness is the last. `UsedIsLive`: the
blocks and mappings marked as taken are those the client holds, at least as large as
it asked for. `ContentsStay`: a region has what the client last wrote into it,
whatever was split, merged and moved since. `RegionsLieApart`: no two regions the
client holds share a cell, headers included. `CountersStayTrue`: the five counters
are what a walk over the heap and the mappings would count. All of them hold as long
as the code has done none of the harm listed below, `relinked` excepted: the
inductive invariant `HInv` does not speak of the sorted list. It says that a heap
without harm is `Good` (chained blocks, the wilderness, the mappings), that what is
in use is what the client holds (`HeldAs`) and that the counters are right
(`Counted`). Operations on the list change links only (`Links`), also in a list that
has lost blocks, so the invariant survives them without knowing what they do; a walk
that returns a block the heap does not have is the harm `revived`. All five assume
`CallsFit`. After a product that wraps the client holds a region larger than its
block and writes over the headers behind it; after that nothing is claimed.

One lemma per function says that it leaves a good heap, what it does to the blocks
in use (`Keeps`) and that the counters go along with the blocks (`Even`: they are as
far off as before, which says something of the states inside an operation too). Two
steps on the way are not `Even` by themselves: marking a block behind the counters'
back, as `srealloc` does around its merges, which is undone (`EvenMasked`), and
freeing a block that is free already, which no client and no path of `srealloc`
does. `Keeps` composes, so that the cases of `srealloc` are put together from lemmas
about `merge`, `split` and `Enlarged`. A header that a merge leaves behind keeps its
contents, and code that reads it is covered by the same lemmas. The walks are
recursive functions; that they exist and what they keep is shown by a smallest
counterexample (`NatInduct`).

### smash

**SmashProofs.** `TypeCorrect`, `JobsOwnTheirProcess`, `ChildrenStayListed`,
`HandlersHitTheForeground` and the action property `StrayWindow`. The inductive
invariant `IInv` is the conjunction of the invariants and `ReapedIsNone`: between
`waitpid` and the removal of the job the awaited pid is no child any more, the
one moment in which list and processes disagree. `QuitLeavesNobody` follows from it
with `KilledIsGone` (nothing starts after `quit kill`), `ListSaysTheTruth` with
`Told`, which says of the awaited job what has to hold before the prompt returns:
one that is stopped has been marked so.

### Process weights

**WeightsProofs.** `CallersListIsSafe`: for every tree, and whatever others do
during the call, the first frame of `sys_get_leaf_children_sum` stands on a link
of the caller's own list, if the caller is `Alone`: one thread, and SIGCHLD not
ignored. `Linked` says that every task is in the list of its parent, which is alive;
`Inside` that the caller is, and that as long as the call is not astray every frame
stands on a link of its list. A list may grow under a frame; a link goes only when the
child is reaped or the owner of the list exits. A caller inside the call does not exit,
and the children of one that is `Alone` are reaped by itself only. Of other callers
the theorem says nothing, and it is false of them.

`HeaviestAnswered`: while others fork, exit, are reparented and reaped, the climb of
`sys_get_heaviest_ancestor` answers with a task that was above the caller, and no task
that was above it all along with one weight (`steady`) was heavier, or as heavy and
nearer. `Climbing` says what the loop knows at each turn: a steady task is either still
ahead, between the place reached and the top, or `Passed`, which bounds its weight by
what the loop remembers. `Rooted` says that every task is below init or the idle task and
none above itself. That a task handed to another parent keeps its steady ancestors ahead
are lemmas about parent-closed sets (`AncChain`, `HandedAnc`, `HandedBefore`).

`LeavesCounted`: whatever is forked, exits or is reaped while
`sys_get_leaf_children_sum` runs, when it returns it has taken the weight of each leaf
that stayed below the caller, once; and if nothing changed, the answer is the sum of these
weights, as an int that may have wrapped on the way, or -ECHILD if there is no leaf. The
invariant `CountInv` adds `Counting` to the one of the climb: a frame *waits* for a
leaf if it is in that leaf, or if the leaf, or a task above it, is ahead of the link it
stands on (`Waits`), and some frame does so exactly as long as the leaf is not counted
(`Covered`). Going into a task hands on what is below it (`DeeperWaits`); coming back from a
leaf leaves no frame waiting for it, because two children of one task are not above one
leaf (`OneChildAbove`, `LeafLeft`). A change of the tree that leaves the ancestors of a leaf
the same leaves each of them in the list it is in (`PathKept`), and a list keeps its order
(`ListsKept`), so that what was ahead still is (`AheadKept`). For a tree that does not
change, `SumRight` says which leaves each frame is done with (`Done`). What the community
module's sum over a set comes to cannot be shown by induction; `SumFacts` and
`SumOfBoth` show by a smallest counterexample that it does not depend on the order and
adds up over disjoint sets, and `WrapSums` that wrapping on the way does not matter. TLC
checked `CountInv` on the instance of `weights` before it was proved.

### Lines of the shell

**ShellProofs.** `OnlyTheLastStageActs`: the prompt, the directory and the end of the
shell are changed by the last stage of a line alone. `CdGoesBack`: a step that changes the
directory remembers the one it left, so that `cd -` leads back, and none leaves or enters
a directory that was removed.

`WordsArrive` and `OnlySuchLinesFault`, for lines of any length and arrays of any size:
a command gets exactly the words of its part of the line, and a part that is fatal has
one of the shapes listed in `FaultsOnlyBy`. The parser is a recursive function on
positions. Nothing about such a function can be shown by the library's induction, so
that it exists and equals the ranked words of `WordsOf` is shown by a smallest
counterexample (`Least`): the first position at which the two differ cannot be the
first. The same is done for the words that a line loses at its `&` and for the splitting
at the first pipe. `PartsInv` then says that what is still to be executed is a part of the
line that was typed.

`StdioIsRestored` and `AllIsDelivered` are about `Pipe`, for lines of any length and
wherever `pipe()` or `open()` fails, under `EnoughFds`: at least three descriptors
besides the standard ones. With two the first copy of the standard input is already
impossible, `dup` fails unnoticed, and the shell stays at the end of a pipe; with three
the copy of the outermost pipe is always kept, and restoring it last makes up for
every inner one that is missing. `Copies`, `Streams`, `Extras` and `Room` say what the
descriptors hold at each place; `Flow` follows the bytes from pipe to pipe.

### The limits

Only proved, and in no run: `TypeOK` of Server, FirstFit and Smash,
`CapacityBound`, `NoLeak`, `LargeEnough`, `StrayOnlyInWindow` and `RegionsApart`.

Only model-checked:

- Liveness (`EveryConnectionEnds`, `InterruptEnds`, `CommandEnds`, `WalkEnds`,
  `ExchangeEnds`): fairness and ENABLED are beyond the prover.
- `WellFormed` of `SortedHeap`. It is about the order and the links of the sorted
  list, which the proofs leave out, and holds only until the list first loses a block.
  Random walks through heaps of 14 to 30 cells (`tlc -simulate`, up to 15 million
  states each) met no violation either; they are what showed that a larger heap can
  come to `revived`, below.

## What the code does that its text says otherwise

Two runs show it:

- `list_loses_blocks`: `HeapListInsert` (malloc_3.cpp:159) puts a new smallest
  block in front of the *last* block of the list and drops those between, so
  that a block other than the head has no `prev`, against the comment at line
  187. `Sorted` and `NoCrash` (in `WellFormed`) therefore hold only up to that step
  (`relinked`). The other properties survive it for a while: in a larger heap than
  the run's a block the list has lost can be merged away while another block still
  leads to its header, and the next `smalloc` that fits hands it out, inside a block
  (`revived`). There a behaviour of `SortedHeap` ends.
- `pipe_full`: the shell waits for the writer of a pipe before it starts the
  reader (Commands.cpp:289); with more output than a pipe holds, nobody goes on.

These are steps of the models too, and bound what the properties claim:

- malloc_3, after which a behaviour of `SortedHeap` ends: `merge` in `srealloc`
  swallows the block the code goes on with (`swallowed`; `asserted` where the
  assertion at line 603 is commented out), a split in case b writes a header
  into data still to be moved (`clobbered`), `sbrk` fails after blocks were
  merged (`undone`, the TODO at line 607), a heap block of `MMAP_THRESHOLD` is
  taken for a mapping (`mistaken`).
- malloc_2 and malloc_3: `num * size` in `scalloc` wraps (malloc_2.cpp:110,
  malloc_3.cpp:376), and a small block is handed out for a huge request. What is
  claimed of room, contents and separate regions is claimed for products that fit.
- Web server: end of file inside the headers makes `requestReadhdrs` spin
  (request.c:65, `HungUp` in Exchange and `WorkerHangup` in Server), or, if the
  old buffer is a blank line, go on with half a request; a header line too long
  for the buffer may end the headers early. Mapping an empty file (request.c:153), a
  file that its owner may read and the server may not (the test of `S_IRUSR`,
  request.c:202, lets it pass, and `Open` ends the server), a file that changes after
  `stat` (request.c:196), a directory put in its place included, a client that leaves
  before its answer is written and a fork that fails end the whole process:
  `ServerOutlivesRequest` lists exactly these. A program that has the bit `S_IXUSR` and
  cannot be executed, because it is empty, in no known format or its owner's only, gives
  an answer that ends after the head which the server wrote before the fork: the child's
  `execve` fails (segel.c:68-72), and nobody notices (`NotRun`). A request that is not GET is
  answered with its headers unread, so that the connection is reset and the
  client may fail in its read. `drop_random` drops the larger half of the
  waiting requests, where `tests_segel_description.txt` computes with a quarter;
  `requestHandle` returns 0 for a dynamic request, where its comment
  (request.c:174) says 2.
- smash, jobs: a command that stops without Ctrl-Z keeps its state, and `kill`
  stops or continues a job the list is not told of; `StateIsTrue` exempts these
  processes (`odd`) until fg or bg has them next.
- smash, lines: a part of a line without a word beside a pipe or before a
  redirection, 20 words, or 80 blanks at the beginning lead outside the arrays
  and objects of the program (`FaultsOnlyBy`). A built-in command is looked up
  up to the first space with its `&`, so that `jobs&` is an external command. At
  the end of input the main loop reads empty lines for ever. In a directory that
  was removed `cd` fails before it tries to leave it. Not in the model: the child
  that executes a command writes the NULL one place behind `argv`
  (Commands.cpp:262).
- Weights: the leaf sum goes astray when a descendant that has children exits, or
  a child of a descendant is reaped, during the walk. In the first list, of the
  caller's own children, it cannot if the caller has one thread and does not ignore
  SIGCHLD (`AstrayOnlyBelow`); if not, it can there too.

## Not modelled

- Formatting, logging, MIME types, the wording of answers, query strings: data the
  properties do not tell apart.
- `rio_readn`, `rio_readnb` and the wrappers of `segel.c` that no program here
  calls; name resolution. `killer_client.c`, which is `client.c` in many processes.
- `malloc_1`, a call of `sbrk` without state; `sys_hello`.
- Kernel headers and tables in `process_weights`: of the files `sched.h`,
  `syscalls.h` and `init_task.h` (3,000 lines) the project's own are a field, an
  initial value and four declarations. Test scripts, build files.
- `timeout` and alarms of smash: the code installs a handler and has no command.
- What the kernel does with a walk that is astray: freed memory, which `hw2.c`
  does not define.
- The reaping of the task that `sys_get_heaviest_ancestor` stands on: the guard of
  `Reap` excludes it, because the loop would go on in freed memory. It can happen in the
  code, when an ancestor exits and is reaped in the middle of the climb.
  `HeaviestOfSteady` and `WalkEnds`, and the theorem `HeaviestAnswered`, are about
  calls in which it does not.
- Of the kernel's tree of tasks: tracing, subreapers, `CLONE_PARENT`, a list of
  children per thread, and `execve` by a second thread. Tasks are processes, and whether
  one is `Alone` does not change.
- In Exchange: something put in place of the file that is neither regular nor a
  directory, such as a FIFO, at which `open` would wait; the bytes of a page that is
  rewritten while it is sent; `open` and `mmap` failing because the system has no
  descriptor or memory left. In Server it is the other way round: its files are
  ones that can be read, and an `open` fails when no descriptor is left.
- A second `sfree` is modelled for malloc_2, where the code handles it; for
  malloc_3 the client frees what it holds, or NULL.

## Plan

Done are all components with control flow of their own, and the proofs of every
safety property of the runs but one (`WellFormed`). What is left, in order of worth:

1. The order of the sorted list (`Sorted`) as a theorem, up to the first block it
   loses: the list as the sequence that the links spell out, and what `HeapListInsert`
   and `HeapListRemove` do to it.
2. The type invariants of `Weights`, `Pipe` and `Exchange`, so far parts of
   `Inv`, as theorems of their own.
