----------------------------- MODULE Admission ------------------------------
(***************************************************************************)
(* What the server promises its clients, with no threads, ring, mutex or   *)
(* descriptors: a connection is admitted while fewer than Capacity are     *)
(* waiting or in service; waiting connections start in order of arrival;   *)
(* a connection leaves by being answered, or is dropped at a moment when   *)
(* the server is full and its policy says so.  Connections are numbered in *)
(* order of arrival.                                                       *)
(***************************************************************************)
EXTENDS Integers, Sequences, FiniteSets

CONSTANTS Capacity, Threads, Policies, MaxConns

VARIABLES policy,    \* chosen at start-up
          arrived,   \* connections that came so far
          newcomer,  \* the connection being decided about, 0 if none
          waiting,   \* admitted, in order of arrival
          serving,   \* taken by a thread
          reply      \* "none", "answered" or "dropped"

vars == <<policy, arrived, newcomer, waiting, serving, reply>>

Full == Len(waiting) + Cardinality(serving) >= Capacity

Init ==
  /\ policy \in Policies
  /\ arrived = 0 /\ newcomer = 0
  /\ waiting = <<>> /\ serving = {}
  /\ reply = [c \in 1..MaxConns |-> "none"]

Arrive ==
  /\ newcomer = 0 /\ arrived < MaxConns
  /\ arrived' = arrived + 1 /\ newcomer' = arrived + 1
  /\ UNCHANGED <<policy, waiting, serving, reply>>

Admit ==
  /\ newcomer # 0 /\ ~Full
  /\ waiting' = Append(waiting, newcomer) /\ newcomer' = 0
  /\ UNCHANGED <<policy, arrived, serving, reply>>

(* Drop the newcomer: the policy dt, and the only choice of dh and random  *)
(* when nothing waits.                                                     *)
Refuse ==
  /\ newcomer # 0 /\ Full
  /\ policy = "dt" \/ (policy \in {"dh", "random"} /\ waiting = <<>>)
  /\ reply' = [reply EXCEPT ![newcomer] = "dropped"] /\ newcomer' = 0
  /\ UNCHANGED <<policy, arrived, waiting, serving>>

EvictOldest ==
  /\ newcomer # 0 /\ Full /\ policy = "dh" /\ waiting # <<>>
  /\ reply' = [reply EXCEPT ![Head(waiting)] = "dropped"]
  /\ waiting' = Tail(waiting)
  /\ UNCHANGED <<policy, arrived, newcomer, serving>>

(* Keep half of the waiting connections, rounded down, in their order: the *)
(* j-th that stays was at place kept[j].                                   *)
EvictHalf ==
  /\ newcomer # 0 /\ Full /\ policy = "random" /\ waiting # <<>>
  /\ \E kept \in [1..(Len(waiting) \div 2) -> 1..Len(waiting)] :
       LET lost == (1..Len(waiting)) \ {kept[j] : j \in DOMAIN kept}
       IN  /\ \A i, j \in DOMAIN kept : i < j => kept[i] < kept[j]
           /\ waiting' = [j \in DOMAIN kept |-> waiting[kept[j]]]
           /\ reply' = [c \in 1..MaxConns |->
                          IF \E i \in lost : waiting[i] = c THEN "dropped"
                                                            ELSE reply[c]]
  /\ UNCHANGED <<policy, arrived, newcomer, serving>>

Start ==
  /\ waiting # <<>> /\ Cardinality(serving) < Threads
  /\ serving' = serving \cup {Head(waiting)} /\ waiting' = Tail(waiting)
  /\ UNCHANGED <<policy, arrived, newcomer, reply>>

Answer(c) ==
  /\ reply[c] = "none"
  /\ reply' = [reply EXCEPT ![c] = "answered"]
  /\ UNCHANGED <<policy, arrived, newcomer, waiting, serving>>

Leave(c) ==
  /\ reply[c] = "answered"
  /\ serving' = serving \ {c}
  /\ UNCHANGED <<policy, arrived, newcomer, waiting, reply>>

Next ==
  \/ Arrive \/ Admit \/ Refuse \/ EvictOldest \/ EvictHalf \/ Start
  \/ \E c \in serving : Answer(c) \/ Leave(c)

Spec == Init /\ [][Next]_vars
=============================================================================
