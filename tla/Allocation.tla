----------------------------- MODULE Allocation -----------------------------
(***************************************************************************)
(* What an allocator promises its client, with no blocks, headers or free  *)
(* list: a region handed out overlaps no other region the client still     *)
(* has, it keeps what the client wrote, and moving it (realloc) keeps what *)
(* was written too.  A call may also fail and change nothing.              *)
(***************************************************************************)
EXTENDS Integers

CONSTANTS Addresses,    \* where regions may start
          Lengths,      \* the lengths clients ask for
          Values        \* what clients write

VARIABLE live           \* the client's regions: start -> [asked, value]

Junk == "junk"          \* what fresh memory holds
Zero == "zero"          \* what scalloc leaves

(* A region of n units at p is apart from every region of r. *)
Apart(p, n, r) ==
  \A q \in DOMAIN r : p # q /\ (p + n <= q \/ q + r[q].asked <= p)

Without(p) == [q \in DOMAIN live \ {p} |-> live[q]]

With(r, p, region) == [q \in DOMAIN r \cup {p} |-> IF q = p THEN region ELSE r[q]]

Init == live = <<>>

Allocate ==
  \E p \in Addresses, n \in Lengths, v \in {Junk, Zero} :
    Apart(p, n, live) /\ live' = With(live, p, [asked |-> n, value |-> v])

Reallocate ==
  \E p \in DOMAIN live, q \in Addresses, n \in Lengths :
    /\ Apart(q, n, Without(p))
    /\ live' = With(Without(p), q, [asked |-> n, value |-> live[p].value])

Release == \E p \in DOMAIN live : live' = Without(p)

Write == \E p \in DOMAIN live, v \in Values : live' = [live EXCEPT ![p].value = v]

Next == Allocate \/ Reallocate \/ Release \/ Write

Spec == Init /\ [][Next]_live
=============================================================================
