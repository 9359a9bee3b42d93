----------------------------- MODULE DropRandom -----------------------------
(***************************************************************************)
(* drop_random (server.c:196-247) step by step, with the mutex held: the   *)
(* pick-and-swap loop that chooses which half of the ring to keep, and the *)
(* loop that compacts the ring in place and closes the rest.  Module       *)
(* Server takes the two loops in one step; here they are checked against   *)
(* that step for every ring, every head and every sequence of random       *)
(* numbers.                                                                *)
(***************************************************************************)
EXTENDS Integers, Sequences, FiniteSets

CONSTANT MaxCapacity    \* bound: rings with up to this many slots

ASSUME MaxCapacityAssumption == MaxCapacity \in Nat \ {0}

VARIABLES
  capacity, head, n,    \* queue_capacity, head, and size on entry
  before,               \* the ring on entry (not in the code)
  items, tail, size,    \* the ring as the loops change it
  indexes,              \* the offsets, swapped so that picked ones go last
  rand_indexes,         \* the offsets picked so far
  i, pc,                \* the loop variable and the loop it belongs to
  closed                \* the descriptors closed, in order

vars == <<capacity, head, n, before, items, tail, size, indexes, rand_indexes,
          i, pc, closed>>

limit == n \div 2

Slot(k) == (head + k) % capacity

Offset(s) == (s + capacity - head) % capacity

(* A ring of n requests anywhere in the array: the descriptor of the k-th  *)
(* oldest is k + 1, and the slots outside the ring hold 0.                 *)
Init ==
  /\ capacity \in 1..MaxCapacity
  /\ head \in 0..(capacity - 1) /\ n \in 1..capacity
  /\ before = [s \in 0..(capacity - 1) |->
                 IF Offset(s) < n THEN Offset(s) + 1 ELSE 0]
  /\ items = before /\ tail = head /\ size = n
  /\ indexes = [k \in 0..(n - 1) |-> k]
  /\ rand_indexes = [k \in 0..(n - 1) |-> FALSE]
  /\ i = 0 /\ pc = "pick" /\ closed = <<>>

MutPick ==
  /\ pc = "pick" /\ i < limit
  /\ \E index \in 0..(n - i - 1) :
       rand_indexes' = [rand_indexes EXCEPT ![indexes[index]] = TRUE]
  /\ i' = i + 1
  /\ UNCHANGED <<capacity, head, n, before, items, tail, size, indexes, pc, closed>>

(* index = rand() % (n - i): pick it and swap it out of reach *)
Pick ==
  /\ pc = "pick" /\ i < limit
  /\ \E index \in 0..(n - i - 1) :
       /\ rand_indexes' = [rand_indexes EXCEPT ![indexes[index]] = TRUE]
       /\ indexes' = [indexes EXCEPT ![index] = indexes[n - i - 1],
                                     ![n - i - 1] = indexes[index]]
  /\ i' = i + 1
  /\ UNCHANGED <<capacity, head, n, before, items, tail, size, pc, closed>>

PickDone ==
  /\ pc = "pick" /\ i = limit
  /\ pc' = "compact" /\ i' = 0 /\ tail' = head
  /\ UNCHANGED <<capacity, head, n, before, items, size, indexes, rand_indexes, closed>>

Keep ==
  /\ pc = "compact" /\ i < n /\ rand_indexes[i]
  /\ items' = [items EXCEPT ![tail] = items[Slot(i)]]
  /\ tail' = (tail + 1) % capacity /\ i' = i + 1
  /\ UNCHANGED <<capacity, head, n, before, size, indexes, rand_indexes, pc, closed>>

Drop ==
  /\ pc = "compact" /\ i < n /\ ~rand_indexes[i]
  /\ closed' = Append(closed, items[Slot(i)]) /\ i' = i + 1
  /\ UNCHANGED <<capacity, head, n, before, items, tail, size, indexes,
                 rand_indexes, pc>>

Return ==
  /\ pc = "compact" /\ i = n
  /\ size' = limit /\ pc' = "done"
  /\ UNCHANGED <<capacity, head, n, before, items, tail, indexes, rand_indexes,
                 i, closed>>

Done == pc = "done" /\ UNCHANGED vars

Next == Pick \/ PickDone \/ Keep \/ Drop \/ Return \/ Done

Spec == Init /\ [][Next]_vars

-----------------------------------------------------------------------------
Picked == {k \in 0..(n - 1) : rand_indexes[k]}

(* The loops do what Server.drop_random does in one step: for some         *)
(* increasing choice of n/2 offsets the ring holds those requests in their *)
(* old order from the same head, the other requests are closed, each once, *)
(* and head, tail and size agree as check_queue asserts.                   *)
SameAsOneStep ==
  pc = "done" =>
  /\ \E pick \in [0..(limit - 1) -> 0..(n - 1)] :
       /\ \A j, k \in 0..(limit - 1) : j < k => pick[j] < pick[k]
       /\ \A j \in 0..(limit - 1) : items[Slot(j)] = before[Slot(pick[j])]
       /\ {closed[j] : j \in DOMAIN closed} =
            {before[Slot(k)] : k \in (0..(n - 1)) \ {pick[j] : j \in 0..(limit - 1)}}
  /\ Len(closed) = n - limit
  /\ size = limit
  /\ \/ head = tail /\ size \in {0, capacity}
     \/ (tail + capacity - head) % capacity = size
=============================================================================
