-------------------------- MODULE ServerAdmission ---------------------------
(***************************************************************************)
(* Server implements Admission.  The waiting connections are the arrival   *)
(* stamps along the ring; the newcomer is the one the master holds until   *)
(* it is enqueued or drop_tail has decided against it, and from that       *)
(* decision on it counts as dropped, although Close comes after the unlock *)
(* and the server may have room again by then.                             *)
(***************************************************************************)
EXTENDS Server, Sequences

WaitingSeq == [i \in 1..size |-> items[Slot(i - 1)].arrival]

Newcomer == IF mpc \in {"lock", "check", "blocked"} THEN mreq.arrival ELSE 0

InService == {list[w].arrival : w \in Serving}

Fate == IF mpc = "refuse" THEN [reply EXCEPT ![mreq.arrival] = "dropped"]
                          ELSE reply

Abstract == INSTANCE Admission WITH
  Threads  <- Cardinality(Workers),
  arrived  <- accepted,
  newcomer <- Newcomer,
  waiting  <- WaitingSeq,
  serving  <- InService,
  reply    <- Fate

(* Every step of the threads is a step of the admission protocol or leaves *)
(* it unchanged: nobody overtakes, nobody is admitted beyond the capacity, *)
(* nobody is dropped unless the server was full under a policy that drops, *)
(* and drop_random drops exactly the larger half.                          *)
ImplementsAdmission == Abstract!Spec
=============================================================================
