------------------------------ MODULE Weights ------------------------------
(***************************************************************************)
(* process_weights: the four system calls of hw2.c on the tree of tasks.   *)
(*                                                                         *)
(* The calls take no lock.  sys_get_heaviest_ancestor and                  *)
(* sys_get_leaf_children_sum are one step per turn of their loops, and     *)
(* other processes fork, exit, are reaped and change their weights between *)
(* the turns.  One of the two calls runs at a time: they change nothing    *)
(* that the other reads.  fork(), exit() and the reaping of a zombie are   *)
(* the kernel's and not in this repository; they are modelled by what they *)
(* do to the fields hw2.c reads.                                           *)
(***************************************************************************)
EXTENDS Integers, Sequences, FiniteSets, FiniteSetsExt, SequencesExt

CONSTANTS
  Pids,      \* besides 0, the idle task, and 1, init
  Alone,     \* tasks without a second thread that do not ignore SIGCHLD
  Weights,   \* what programs pass to set_weight(), besides -1
  IntMax,    \* the largest int
  MaxDuring  \* bound: how often the tree changes during sys_get_leaf_children_sum

ASSUME PidsAssumption == Pids \subseteq Nat \ {0, 1} /\ IsFiniteSet(Pids)
ASSUME AloneAssumption == Alone \subseteq Pids \cup {0, 1}
ASSUME IntAssumption ==
  IntMax \in Nat /\ MaxDuring \in Nat /\ Weights \subseteq 0..IntMax

VARIABLES
  state,      \* task -> "none", "alive" or "zombie"
  parent,     \* task -> its parent; the idle task's is itself
  children,   \* task -> its list of children, oldest first
  weight,     \* task -> its weight
  walk,       \* who is inside a call, and the variables of sys_get_heaviest_ancestor
  frames,     \* the frames of sys_get_leaf_children_sum and of its recursion
  astray,     \* one of them stands on a link that has left its list
  counted,    \* the tasks whose weight the sum has taken, in order (not in the code)
  steady,     \* tasks that the running call must not miss, unchanged all along
  above,      \* tasks that were above or at the caller at some time of the call
  during      \* how often the tree has changed since that call began

tree == <<state, parent, children, weight>>
vars == <<tree, walk, frames, astray, counted, steady, above, during>>

Tasks == Pids \cup {0, 1}

(* Where a task stands in a list *)
Place(list, t) == CHOOSE k \in DOMAIN list : list[k] = t

(* Negated, two values that no int of the model takes *)
EINVAL == IntMax + 1
ECHILD == IntMax + 2

(* int arithmetic: the kernel is built so that it wraps. *)
Int32(n) == ((n + IntMax + 1) % (2 * (IntMax + 1))) - IntMax - 1

NotWalking == [caller |-> 0, task |-> 0, max_weight |-> 0, max_weight_pid |-> 0, on |-> FALSE]

Walking == walk.on
Summing == frames # <<>>

(* A process inside a call does nothing else. *)
Runs(p) ==
  /\ state[p] = "alive" /\ p # 0
  /\ ~((Walking \/ Summing) /\ walk.caller = p)

(* The task and those above it: what every set that has it, and with a     *)
(* task its parent, has.                                                   *)
Ancestors(t) ==
  LET closed == {S \in SUBSET Tasks : t \in S /\ \A s \in S : parent[s] \in S}
  IN  {a \in Tasks : \A S \in closed : a \in S}

(* The tasks below t that have no children, exited ones included *)
LeavesBelow(t) ==
  {l \in Tasks \ {t} : state[l] # "none" /\ children[l] = <<>> /\ t \in Ancestors(l)}

Init ==
  /\ state = [t \in Tasks |-> IF t \in {0, 1} THEN "alive" ELSE "none"]
  /\ parent = [t \in Tasks |-> 0]
  /\ children = [t \in Tasks |-> IF t = 0 THEN <<1>> ELSE <<>>]
  /\ weight = [t \in Tasks |-> 0]
  /\ walk = NotWalking
  /\ frames = <<>> /\ astray = FALSE /\ counted = <<>>
  /\ steady = {} /\ above = {} /\ during = 0

-----------------------------------------------------------------------------
(* The weight of the caller                                                *)

(* The link that a frame of sys_get_leaf_children_sum stands on is still   *)
(* in the list it walks.  If not, the links lead elsewhere, or into freed  *)
(* memory, and the loop never meets the head of its list again: a task it  *)
(* stands on was reaped, or handed to init with its siblings.              *)
OnList(f) == f.at = 0 \/ Contains(children[f.task], f.at)

(* What a change does to a running call: to the links it stands on, and to *)
(* what it must not miss                                                   *)
Watch ==
  /\ UNCHANGED <<walk, frames, counted>>
  /\ astray' = (astray \/ \E i \in DOMAIN frames : ~OnList(frames[i])')
  /\ steady' = {t \in steady :
       /\ weight'[t] = weight[t]
       /\ Walking => t \in Ancestors(walk.caller)'
       /\ Summing => /\ children'[t] = <<>> /\ parent'[t] = parent[t]
                     /\ Ancestors(t)' = Ancestors(t)}
  /\ above' = IF Walking THEN above \cup Ancestors(walk.caller)' ELSE above
  /\ Summing => during < MaxDuring /\ ~astray
  /\ during' = IF Summing THEN during + 1 ELSE 0

set_weight(p, w) ==
  IF w < 0 THEN [ret |-> -EINVAL, weight |-> weight]
  ELSE [ret |-> 0, weight |-> [weight EXCEPT ![p] = w]]

SetWeight(p, w) ==
  /\ Runs(p)
  /\ weight' = set_weight(p, w).weight
  /\ UNCHANGED <<state, parent, children>>
  /\ Watch

-----------------------------------------------------------------------------
(* The kernel                                                              *)

(* The child is a copy of its parent, its weight included. *)
Fork(p, c) ==
  /\ Runs(p) /\ state[c] = "none"
  /\ state' = [state EXCEPT ![c] = "alive"]
  /\ parent' = [parent EXCEPT ![c] = p]
  /\ children' = [children EXCEPT ![p] = Append(@, c), ![c] = <<>>]
  /\ weight' = [weight EXCEPT ![c] = weight[p]]
  /\ Watch

(* Its children become init's; it stays in its parent's list until it is   *)
(* reaped, at once if the parent ignores SIGCHLD: see Reap.                *)
Exit(p) ==
  /\ Runs(p) /\ p # 1
  /\ state' = [state EXCEPT ![p] = "zombie"]
  /\ parent' = [t \in Tasks |-> IF parent[t] = p /\ state[t] # "none" THEN 1 ELSE parent[t]]
  /\ children' = [children EXCEPT ![1] = @ \o children[p], ![p] = <<>>]
  /\ UNCHANGED weight
  /\ Watch

(* A task that is Alone waits for its children itself.  Those of another   *)
(* may leave its list while it is inside a call: its second thread waits   *)
(* for them, or, when it ignores SIGCHLD, they release themselves as they  *)
(* exit (the kernel lets the lock of the lists go in between).             *)
(* The bound of the model: a task that sys_get_heaviest_ancestor stands on *)
(* is not reaped, as its memory would be read after it was freed.          *)
Reap(p) ==
  /\ state[p] = "zombie"
  /\ parent[p] \in Alone => Runs(parent[p])
  /\ ~(Walking /\ walk.task = p)
  /\ state' = [state EXCEPT ![p] = "none"]
  /\ children' = [children EXCEPT ![parent[p]] = RemoveAt(@, Place(@, p))]
  /\ parent' = [parent EXCEPT ![p] = 0]
  /\ weight' = [weight EXCEPT ![p] = 0]
  /\ Watch

-----------------------------------------------------------------------------
(* sys_get_heaviest_ancestor                                               *)

EnterWalk(p) ==
  /\ ~Walking /\ ~Summing /\ Runs(p)
  /\ walk' = [caller |-> p, task |-> p, max_weight |-> weight[p], max_weight_pid |-> p,
              on |-> TRUE]
  /\ steady' = Ancestors(p) /\ above' = Ancestors(p)
  /\ UNCHANGED <<tree, frames, astray, counted, during>>

Heavier == weight[walk.task] > walk.max_weight

(* Mutants: the loop stops below init; it waits for a parent that is NULL. *)
MutIsLast(prev) == parent[prev] \in {0, 1}
MutNeverLast(prev) == FALSE

(* The loop ends once it has looked at the idle task. *)
IsLast(prev) == prev = 0

Noted ==
  IF Heavier
  THEN [walk EXCEPT !.max_weight = weight[walk.task], !.max_weight_pid = walk.task]
  ELSE walk

Climb ==
  /\ Walking /\ ~IsLast(walk.task)
  /\ walk' = [Noted EXCEPT !.task = parent[walk.task]]
  /\ UNCHANGED <<tree, frames, astray, counted, steady, above, during>>

Return ==
  /\ Walking /\ IsLast(walk.task)
  /\ walk' = NotWalking /\ steady' = {} /\ above' = {} /\ during' = 0
  /\ UNCHANGED <<tree, frames, astray, counted>>

-----------------------------------------------------------------------------
(* sys_get_leaf_children_sum                                               *)

(* A frame: whose list it walks, where it stands in it (0 is the head of   *)
(* the list), the sum so far and whether it has seen a child.  The first   *)
(* one is the call, the others are traverse_children_sum_weight.           *)
Frame(t) == [task |-> t, at |-> 0, sum |-> 0, flag |-> FALSE]

Top == Last(frames)

MutEnterSum(p) ==
  /\ ~Walking /\ ~Summing /\ Runs(p)
  /\ frames' = <<Frame(parent[p])>> /\ steady' = LeavesBelow(p)
  /\ walk' = [NotWalking EXCEPT !.caller = p]
  /\ UNCHANGED <<tree, astray, counted, above, during>>

EnterSum(p) ==
  /\ ~Walking /\ ~Summing /\ Runs(p)
  /\ frames' = <<Frame(p)>> /\ steady' = LeavesBelow(p)
  /\ walk' = [NotWalking EXCEPT !.caller = p]
  /\ UNCHANGED <<tree, astray, counted, above, during>>

(* list_for_each: the link after the one it stands on, 0 at the end *)
NextLink(f) ==
  LET list == children[f.task]
      here == IF f.at = 0 THEN 0 ELSE Place(list, f.at)
  IN  IF here < Len(list) THEN list[here + 1] ELSE 0

InLists == Summing /\ ~astray

(* The recursion goes down to the next child, *)
traverse_children_sum_weight ==
  /\ InLists /\ NextLink(Top) # 0
  /\ frames' = Front(frames) \o <<[Top EXCEPT !.at = NextLink(Top)], Frame(NextLink(Top))>>
  /\ UNCHANGED <<tree, walk, astray, counted, steady, above, during>>

MutSum == Int32(Top.sum + weight[Top.task])

(* ... and comes back with the sum of the list, or the weight of a leaf. *)
Sum == IF Top.flag THEN Top.sum ELSE Int32(Top.sum + weight[Top.task])

TraverseReturns ==
  LET up == frames[Len(frames) - 1]
  IN  /\ InLists /\ NextLink(Top) = 0 /\ Len(frames) > 1
      /\ frames' = Front(Front(frames)) \o <<[up EXCEPT !.sum = Int32(@ + Sum), !.flag = TRUE]>>
      /\ counted' = IF Top.flag THEN counted ELSE Append(counted, Top.task)
      /\ UNCHANGED <<tree, walk, astray, steady, above, during>>

sys_get_leaf_children_sum == IF Top.flag THEN Top.sum ELSE -ECHILD

SumReturns ==
  /\ InLists /\ NextLink(Top) = 0 /\ Len(frames) = 1
  /\ frames' = <<>> /\ counted' = <<>> /\ steady' = {} /\ during' = 0
  /\ walk' = NotWalking
  /\ UNCHANGED <<tree, astray, above>>

-----------------------------------------------------------------------------

Change == \E p \in Tasks : \/ \E w \in Weights \cup {-1} : SetWeight(p, w)
                           \/ \E c \in Pids : Fork(p, c)
                           \/ Exit(p)
                           \/ Reap(p)

(* The loop that is astray goes on; its caller does not come back. *)
Lost == astray /\ UNCHANGED vars

LeafSum == traverse_children_sum_weight \/ TraverseReturns \/ SumReturns

Next ==
  Change \/ (\E p \in Tasks : EnterWalk(p) \/ EnterSum(p)) \/ Climb \/ Return \/ LeafSum \/ Lost

(* A process inside a system call is scheduled again and again. *)
Spec == Init /\ [][Next]_vars /\ WF_vars(Climb \/ Return \/ LeafSum)

-----------------------------------------------------------------------------
(* Properties                                                              *)

(* sys_get_leaf_children_sum, when it returns, has counted every leaf that *)
(* was one below the caller all along, and once, whatever was forked,      *)
(* reparented or reaped around it; and if nothing changed, it returns the  *)
(* sum of the weights of exactly these, as an int.                         *)
LeafSumExact ==
  [][Summing /\ ~Summing' =>
       /\ \A l \in steady : Cardinality({i \in DOMAIN counted : counted[i] = l}) = 1
       /\ during = 0 => sys_get_leaf_children_sum =
                     IF steady = {} THEN -ECHILD
                     ELSE Int32(MapThenSumSet(LAMBDA l : weight[l], steady))]_vars

(* Without the lock the recursion can be led astray by a descendant that   *)
(* exits or reaps a child.  The loop over the caller's own children cannot *)
(* if the caller is Alone: they leave its list when it waits for them, and *)
(* it is inside the call.  The children of a caller that ignores SIGCHLD,  *)
(* or has another thread, may be gone before the loop has passed them.     *)
AstrayOnlyBelow == Summing /\ walk.caller \in Alone => OnList(frames[1])

(* Whatever others do while it runs, sys_get_heaviest_ancestor answers     *)
(* with a task that was above the caller, or the caller, at some time of   *)
(* the call.  No task that was above it all along with one weight is       *)
(* heavier than the answer was, and none as heavy is nearer to the caller. *)
HeaviestOfSteady ==
  [][Walking /\ ~Walking' =>
       LET pid == Noted.max_weight_pid
       IN  /\ pid \in above
           /\ \A t \in steady :
                /\ weight[t] <= Noted.max_weight
                /\ pid \in steady /\ pid # t /\ pid \in Ancestors(t) => weight[t] < Noted.max_weight]_vars

(* sys_get_heaviest_ancestor returns, although others fork, exit and are   *)
(* reparented above it while it climbs.                                    *)
WalkEnds == Walking ~> ~Walking
=============================================================================
