-------------------------- MODULE SortedHeapProofs --------------------------
(***************************************************************************)
(* Proofs about SortedHeap, for every size of the heap, number of mappings *)
(* and sequence of calls: however blocks are split, merged, enlarged and   *)
(* moved, the heap is tiled by them, what is in use is what the client     *)
(* holds, what it has put there stays, and the counters are right.         *)
(*                                                                         *)
(* The inductive invariant (HInv, at the end) does not mention the sorted  *)
(* list: a heap is Good when blocks lie behind each other from firsthead   *)
(* to the break, the wilderness is the last of them, and mappings are as   *)
(* long as what is mapped; and each block in use is held, with what the    *)
(* client put there, and the counters count them (Held).  The operations   *)
(* of the list are shown to change links only (Links), so the rest is as   *)
(* true of a list that has lost blocks: that is why only the harm          *)
(* "relinked" may have happened. Each function of the code then has a      *)
(* lemma that says what it does to the tiling, to the marks and to the     *)
(* payloads, built up to srealloc.  All of it is about clients of which no *)
(* product of scalloc's arguments wraps (CallsFit): what they ask for is   *)
(* what they get.                                                          *)
(***************************************************************************)
EXTENDS SortedHeap, FiniteSetTheorems, WellFoundedInduction, TLAPS

Ptr == 0..LastCell

HeaderCell ==
  [tag : {"header"}, size : Nat, is_free : BOOLEAN, next : Ptr, prev : Ptr]
Contents == {"zero", "written"}
DataCell == [tag : {"data"}, value : Contents]
Cell == {Unmapped} \cup DataCell \cup HeaderCell

(* A heap, whatever is in it *)
IsHeap(h) ==
  h = [mem |-> h.mem, brk |-> h.brk, head |-> h.head, firsthead |-> h.firsthead,
       wilderness |-> h.wilderness, mmhead |-> h.mmhead,
       num_free_blocks |-> h.num_free_blocks, num_free_bytes |-> h.num_free_bytes,
       num_allocated_blocks |-> h.num_allocated_blocks,
       num_allocated_bytes |-> h.num_allocated_bytes,
       num_meta_data_bytes |-> h.num_meta_data_bytes, dead |-> h.dead, harm |-> h.harm]

(* Nothing has been done to h of which nothing is said any more. *)
Fine(h) == h.dead = "no" /\ h.harm \subseteq {"relinked"}

Counters(h) ==
  /\ h.num_free_blocks \in Int /\ h.num_free_bytes \in Int
  /\ h.num_allocated_blocks \in Int /\ h.num_allocated_bytes \in Int
  /\ h.num_meta_data_bytes \in Int

Typed(h) ==
  /\ IsHeap(h) /\ Counters(h)
  /\ h.mem \in [Cells -> Cell]
  /\ h.brk \in 1..(HeapMax + 1)
  /\ h.head \in Ptr /\ h.firsthead \in Ptr /\ h.wilderness \in Ptr /\ h.mmhead \in Ptr

SameCounters(h, g) ==
  /\ g.num_free_blocks = h.num_free_blocks /\ g.num_free_bytes = h.num_free_bytes
  /\ g.num_allocated_blocks = h.num_allocated_blocks
  /\ g.num_allocated_bytes = h.num_allocated_bytes
  /\ g.num_meta_data_bytes = h.num_meta_data_bytes

SameBounds(h, g) ==
  /\ g.brk = h.brk /\ g.firsthead = h.firsthead
  /\ g.wilderness = h.wilderness /\ g.mmhead = h.mmhead

(* The memories m and n differ in links only. *)
Alike(m, n) ==
  \A c \in Cells :
    /\ n[c].tag = m[c].tag
    /\ m[c].tag = "header" => n[c].size = m[c].size /\ n[c].is_free = m[c].is_free
    /\ m[c].tag # "header" => n[c] = m[c]

(* The heaps h and g differ in the list only. *)
Links(h, g) ==
  Typed(g) /\ SameBounds(h, g) /\ SameCounters(h, g) /\ Alike(h.mem, g.mem)

LEMMA Constants ==
  /\ SPLIT_THRESHOLD \in Nat /\ SPLIT_THRESHOLD > 0 /\ SIZE_LIMIT \in Nat
  /\ MMAP_THRESHOLD \in 1..SIZE_LIMIT
  /\ HeapMax \in Nat /\ MmapMax \in Nat
  /\ MmapLength \in Nat /\ LastCell \in Nat /\ LastStep \in Nat
  /\ LastCell >= HeapMax /\ LastStep >= HeapMax /\ MmapLength = SIZE_LIMIT + 1
  /\ MetaSize = 1 /\ NULL = 0
<1>1. MmapMax * MmapLength \in Nat
  BY ThresholdAssumption, BoundAssumption DEF MmapLength, MetaSize
<1> QED
  BY <1>1, ThresholdAssumption, BoundAssumption
  DEF MmapLength, MetaSize, LastCell, LastStep, NULL

LEMMA HeaderCells ==
  ASSUME NEW h, h.mem \in [Cells -> Cell], NEW a, Valid(h, a)
  PROVE  a \in Cells /\ a \in Ptr /\ a # NULL /\ h.mem[a] \in HeaderCell
<1>1. a \in Cells /\ h.mem[a] \in Cell /\ h.mem[a].tag = "header"
  BY DEF Valid
<1>2. h.mem[a] \notin DataCell /\ h.mem[a] # Unmapped
  BY <1>1 DEF DataCell, Unmapped
<1> QED BY <1>1, <1>2, Constants DEF Cell, Cells, Ptr, NULL

LEMMA SetLink ==
  ASSUME NEW h, Typed(h), NEW a, NEW f \in {"next", "prev"}, NEW v \in Ptr
  PROVE  /\ Links(h, Set(h, a, f, v)) /\ Set(h, a, f, v).head = h.head
         /\ (Fine(Set(h, a, f, v)) => Valid(h, a) /\ Fine(h))
         /\ \A c : Valid(Set(h, a, f, v), c) <=> Valid(h, c)
<1>1. CASE ~Valid(h, a)
  BY <1>1 DEF Set, Dead, Links, Typed, IsHeap, Counters, SameCounters, SameBounds, Alike, Fine, Valid
<1>2. CASE Valid(h, a)
  <2>1. h.mem[a] \in HeaderCell /\ a \in Cells
    BY <1>2, HeaderCells DEF Typed
  <2> DEFINE cell == [h.mem[a] EXCEPT ![f] = v]
             n == [h.mem EXCEPT ![a] = cell]
  <2>2. cell \in HeaderCell /\ cell.size = h.mem[a].size /\ cell.is_free = h.mem[a].is_free
        /\ cell.tag = "header" /\ h.mem[a].tag = "header"
    BY <2>1 DEF HeaderCell
  <2> HIDE DEF cell
  <2>3. n \in [Cells -> Cell] /\ Alike(h.mem, n)
    BY <2>1, <2>2 DEF Cell, Typed, Alike
  <2>4. Set(h, a, f, v) = [h EXCEPT !.mem = n]
    BY <1>2 DEF Set, cell, Typed, IsHeap
  <2> HIDE DEF n
  <2>5. Links(h, Set(h, a, f, v)) /\ Set(h, a, f, v).head = h.head
        /\ (Fine(Set(h, a, f, v)) => Fine(h)) /\ Set(h, a, f, v).mem = n
    BY <2>3, <2>4 DEF Links, Typed, IsHeap, Counters, SameCounters, SameBounds, Fine
  <2>6. \A c : Valid(Set(h, a, f, v), c) <=> Valid(h, c)
    BY <2>3, <2>5 DEF Alike, Valid
  <2> QED BY <1>2, <2>5, <2>6
<1> QED BY <1>1, <1>2

LEMMA SetStep ==
  ASSUME NEW h, Typed(h), NEW a, NEW f \in {"next", "prev"}, NEW v \in Ptr,
         NEW g, g = Set(h, a, f, v)
  PROVE  Links(h, g) /\ Typed(g) /\ g.head = h.head /\ (Fine(g) => Fine(h))
<1>1. CASE Valid(h, a)
  BY <1>1, SetLink DEF Links
<1>2. CASE ~Valid(h, a)
  BY <1>2, SetLink DEF Links
<1> QED BY <1>1, <1>2

LEMMA LinksTransitive ==
  ASSUME NEW h, NEW g, NEW k, Links(h, g), Links(g, k)
  PROVE  Links(h, k)
  BY DEF Links, SameBounds, SameCounters, Alike

LEMMA LinksReflexive ==
  ASSUME NEW h, Typed(h)
  PROVE  Links(h, h)
  BY DEF Links, SameBounds, SameCounters, Alike

(* What an operation of the list does to h *)
ListStep(h, g) == Links(h, g) /\ (Fine(g) => Fine(h))

LEMMA ListStepTransitive ==
  ASSUME NEW h, NEW g, NEW k, ListStep(h, g), ListStep(g, k)
  PROVE  ListStep(h, k)
  BY LinksTransitive DEF ListStep

LEMMA DeadList ==
  ASSUME NEW h, Typed(h), NEW why, why # "no"
  PROVE  ListStep(h, Dead(h, why)) /\ ~Fine(Dead(h, why)) /\ Dead(h, why).head = h.head
  BY LinksReflexive DEF ListStep, Dead, Links, Typed, IsHeap, Counters, SameCounters, SameBounds, Fine

LEMMA HeadList ==
  ASSUME NEW h, Typed(h), NEW a \in Ptr
  PROVE  /\ ListStep(h, [h EXCEPT !.head = a]) /\ [h EXCEPT !.head = a].head = a
         /\ \A c : Valid([h EXCEPT !.head = a], c) <=> Valid(h, c)
  BY LinksReflexive DEF ListStep, Links, Typed, IsHeap, Counters, SameCounters, SameBounds, Fine, Alike, Valid

LEMMA HarmedList ==
  ASSUME NEW h, Typed(h), NEW kind, NEW happens
  PROVE  /\ ListStep(h, Harmed(h, kind, happens)) /\ Harmed(h, kind, happens).head = h.head
         /\ (Fine(Harmed(h, kind, happens)) /\ kind # "relinked" => ~happens)
         /\ Harmed(h, kind, happens).mem = h.mem
  BY LinksReflexive DEF ListStep, Harmed, Links, Typed, IsHeap, Counters, SameCounters, SameBounds, Fine

LEMMA LinkOf ==
  ASSUME NEW h, Typed(h), NEW a, Valid(h, a)
  PROVE  h.mem[a].next \in Ptr /\ h.mem[a].prev \in Ptr /\ a \in Ptr /\ a # NULL
  BY HeaderCells DEF Typed, HeaderCell

LEMMA SetValid ==
  ASSUME NEW h, Typed(h), NEW a, NEW f \in {"next", "prev"}, NEW v \in Ptr,
         NEW g, g = Set(h, a, f, v), Fine(g)
  PROVE  Valid(h, a)
  BY SetLink

LEMMA LinkAfterList ==
  ASSUME NEW h, Typed(h), NEW new \in Ptr, NEW ptr, Valid(h, ptr)
  PROVE  ListStep(h, LinkAfter(h, new, ptr)) /\ LinkAfter(h, new, ptr).head = h.head
<1>n. PICK next : next = h.mem[ptr].next
  OBVIOUS
<1>a. PICK h1 : h1 = Set(h, new, "next", next)
  OBVIOUS
<1>b. PICK h2 : h2 = Set(h1, new, "prev", ptr)
  OBVIOUS
<1>c. PICK h3 : h3 = Set(h2, ptr, "next", new)
  OBVIOUS
<1>d. PICK h4 : h4 = Set(h3, next, "prev", new)
  OBVIOUS
<1>1. next \in Ptr /\ ptr \in Ptr
  BY <1>n, LinkOf
<1>2. ListStep(h, h1) /\ h1.head = h.head /\ Typed(h1)
  BY <1>1, <1>a, SetStep DEF ListStep
<1>3. ListStep(h1, h2) /\ h2.head = h.head /\ Typed(h2)
  BY <1>1, <1>2, <1>b, SetStep DEF ListStep
<1>4. ListStep(h2, h3) /\ h3.head = h.head /\ Typed(h3)
  BY <1>1, <1>3, <1>c, SetStep DEF ListStep
<1>5. ListStep(h3, h4) /\ h4.head = h.head /\ Typed(h4)
  BY <1>1, <1>4, <1>d, SetStep DEF ListStep
<1>6. LinkAfter(h, new, ptr) = IF next = NULL THEN h3 ELSE h4
  BY <1>n, <1>a, <1>b, <1>c, <1>d DEF LinkAfter
<1> QED BY <1>2, <1>3, <1>4, <1>5, <1>6, ListStepTransitive

LEMMA LinkHeadList ==
  ASSUME NEW h, Typed(h), NEW new \in Ptr, NEW ptr \in Ptr
  PROVE  /\ ListStep(h, LinkHead(h, new, ptr)) /\ LinkHead(h, new, ptr).head = new
         /\ (Fine(LinkHead(h, new, ptr)) => Valid(h, new))
<1>a. PICK h1 : h1 = Set(h, new, "next", ptr)
  OBVIOUS
<1>b. PICK h2 : h2 = Set(h1, new, "prev", NULL)
  OBVIOUS
<1>c. PICK h3 : h3 = Set(h2, ptr, "prev", new)
  OBVIOUS
<1>d. PICK h4 : h4 = [h3 EXCEPT !.head = new]
  OBVIOUS
<1>1. NULL \in Ptr
  BY Constants DEF Ptr
<1>2. ListStep(h, h1) /\ Typed(h1)
  BY <1>1, <1>a, SetStep DEF ListStep
<1>v. Fine(h1) => Valid(h, new)
  BY <1>1, <1>a, SetValid
<1>3. ListStep(h1, h2) /\ Typed(h2)
  BY <1>1, <1>2, <1>b, SetStep DEF ListStep
<1>4. ListStep(h2, h3) /\ Typed(h3)
  BY <1>1, <1>3, <1>c, SetStep DEF ListStep
<1>5. ListStep(h3, h4) /\ h4.head = new
  BY <1>4, <1>d, HeadList
<1>6. LinkHead(h, new, ptr) = h4
  BY <1>a, <1>b, <1>c, <1>d DEF LinkHead
<1>7. ListStep(h1, h4)
  BY <1>3, <1>4, <1>5, ListStepTransitive
<1> QED BY <1>2, <1>v, <1>5, <1>6, <1>7, ListStepTransitive DEF ListStep

LEMMA LinkBeforeList ==
  ASSUME NEW h, Typed(h), NEW new \in Ptr, NEW ptr, Valid(h, ptr), h.head # NULL
  PROVE  /\ ListStep(h, LinkBefore(h, new, ptr))
         /\ Fine(LinkBefore(h, new, ptr)) => LinkBefore(h, new, ptr).head # NULL
<1>n. PICK prev : prev = h.mem[ptr].prev
  OBVIOUS
<1>a. PICK h1 : h1 = Set(h, new, "next", ptr)
  OBVIOUS
<1>b. PICK h2 : h2 = Set(h1, new, "prev", prev)
  OBVIOUS
<1>c. PICK h3 : h3 = Set(h2, ptr, "prev", new)
  OBVIOUS
<1>d. PICK h4 : h4 = Set(h3, prev, "next", new)
  OBVIOUS
<1>1. prev \in Ptr /\ ptr \in Ptr
  BY <1>n, LinkOf
<1>2. ListStep(h, h1) /\ h1.head = h.head /\ Typed(h1)
  BY <1>1, <1>a, SetStep DEF ListStep
<1>3. ListStep(h1, h2) /\ h2.head = h.head /\ Typed(h2)
  BY <1>1, <1>2, <1>b, SetStep DEF ListStep
<1>4. ListStep(h2, h3) /\ h3.head = h.head /\ Typed(h3)
  BY <1>1, <1>3, <1>c, SetStep DEF ListStep
<1>5. ListStep(h3, h4) /\ h4.head = h.head /\ Typed(h4)
  BY <1>1, <1>4, <1>d, SetStep DEF ListStep
<1>6. LinkBefore(h, new, ptr) = IF ptr = h.head THEN LinkHead(h, new, ptr) ELSE h4
  BY <1>n, <1>a, <1>b, <1>c, <1>d DEF LinkBefore
<1>7. /\ ListStep(h, LinkHead(h, new, ptr))
      /\ Fine(LinkHead(h, new, ptr)) => LinkHead(h, new, ptr).head # NULL
  BY <1>1, LinkHeadList, HeaderCells DEF Typed
<1> QED BY <1>2, <1>3, <1>4, <1>5, <1>6, <1>7, ListStepTransitive

LEMMA PlacedAtList ==
  ASSUME NEW h, Typed(h), NEW new \in Ptr, NEW ptr, h.head # NULL
  PROVE  /\ ListStep(h, PlacedAt(h, new, ptr))
         /\ Fine(PlacedAt(h, new, ptr)) => PlacedAt(h, new, ptr).head # NULL
<1>n. PICK next : next = h.mem[ptr].next
  OBVIOUS
<1> DEFINE bad == ~Valid(h, ptr) \/ ~Valid(h, new) \/ (next # NULL /\ ~Valid(h, next))
           fits == next # NULL \/ Size(h, ptr) <= Size(h, new)
<1>a. PICK g : g = PlacedAt(h, new, ptr)
  OBVIOUS
<1>b. PICK at_head : at_head = LinkHead(h, new, ptr)
  OBVIOUS
<1>1. CASE bad
  <2>1. g = Dead(h, "cookie")
    BY <1>n, <1>a, <1>1 DEF PlacedAt
  <2> QED BY <1>a, <2>1, DeadList
<1>2. CASE ~bad /\ fits
  <2>1. g = LinkBeside(h, new, ptr) /\ Valid(h, ptr)
    BY <1>n, <1>a, <1>2 DEF PlacedAt
  <2> QED BY <1>a, <2>1, LinkBeforeList, LinkAfterList DEF LinkBeside
<1>3. CASE ~bad /\ ~fits
  <2>1. g = Harmed(at_head, "relinked", ptr # h.head) /\ Valid(h, ptr)
    BY <1>n, <1>a, <1>b, <1>3 DEF PlacedAt
  <2>2. ptr \in Ptr
    BY <2>1, LinkOf
  <2>3. /\ ListStep(h, at_head) /\ at_head.head = new
        /\ (Fine(at_head) => Valid(h, new))
    BY <2>2, <1>b, LinkHeadList
  <2>4. Typed(at_head)
    BY <2>3 DEF ListStep, Links
  <2>5. ListStep(at_head, g) /\ g.head = new
    BY <2>1, <2>3, <2>4, HarmedList
  <2>6. ListStep(h, g) /\ (Fine(g) => Valid(h, new))
    BY <2>3, <2>5, ListStepTransitive DEF ListStep
  <2> QED BY <1>a, <2>5, <2>6, LinkOf
<1> QED BY <1>1, <1>2, <1>3

(* HeapListInsert changes nothing but the list, wherever it ends.          *)
LEMMA InsertList ==
  ASSUME NEW h, Typed(h), NEW new \in Ptr
  PROVE  /\ ListStep(h, HeapListInsert(h, new))
         /\ Fine(HeapListInsert(h, new)) => HeapListInsert(h, new).head # NULL
<1>1. CASE h.dead # "no"
  BY <1>1, LinksReflexive DEF HeapListInsert, ListStep, Fine
<1>2. CASE h.dead = "no" /\ h.head # NULL
  <2>1. HeapListInsert(h, new) = Placed(h, new)
    BY <1>2 DEF HeapListInsert
  <2>2. PICK ptr : Placed(h, new) \in {PlacedAt(h, new, ptr), Dead(h, "endless loop")}
    BY DEF Placed
  <2>3. CASE Placed(h, new) = PlacedAt(h, new, ptr)
    BY <1>2, <2>1, <2>3, PlacedAtList
  <2>4. CASE Placed(h, new) = Dead(h, "endless loop")
    BY <2>1, <2>4, DeadList
  <2> QED BY <2>2, <2>3, <2>4
<1>3. CASE h.dead = "no" /\ h.head = NULL
  <2> DEFINE h1 == Set(h, new, "next", NULL)
             h2 == Set(h1, new, "prev", NULL)
             h3 == [h2 EXCEPT !.head = new]
  <2>1. NULL \in Ptr
    BY Constants DEF Ptr
  <2>2. ListStep(h, h1) /\ Typed(h1) /\ (Fine(h1) => Valid(h, new))
    BY <2>1, SetLink DEF ListStep, Links
  <2>3. ListStep(h1, h2) /\ Typed(h2)
    BY <2>1, <2>2, SetLink DEF ListStep, Links
  <2>4. ListStep(h2, h3) /\ h3.head = new
    BY <2>3, HeadList
  <2>5. HeapListInsert(h, new) = h3
    BY <1>3 DEF HeapListInsert
  <2> HIDE DEF h1, h2, h3
  <2>6. ListStep(h, h3) /\ (Fine(h3) => Fine(h1))
    BY <2>2, <2>3, <2>4, ListStepTransitive DEF ListStep
  <2> QED BY <2>2, <2>4, <2>5, <2>6, LinkOf
<1> QED BY <1>1, <1>2, <1>3

LEMMA RemoveList ==
  ASSUME NEW h, Typed(h), NEW block \in Ptr
  PROVE  ListStep(h, HeapListRemove(h, block))
<1>n. PICK next, prev : next = h.mem[block].next /\ prev = h.mem[block].prev
  OBVIOUS
<1>c. PICK h1 : h1 = IF next = NULL THEN h ELSE Set(h, next, "prev", prev)
  OBVIOUS
<1>d. PICK h2 : h2 = Set(h, next, "prev", NULL)
  OBVIOUS
<1>e. PICK g : g = HeapListRemove(h, block)
  OBVIOUS
<1>a. NULL \in Ptr
  BY Constants DEF Ptr
<1>b. ListStep(h, h)
  BY LinksReflexive DEF ListStep
<1>1. CASE h.dead # "no"
  BY <1>e, <1>1, <1>b DEF HeapListRemove
<1>2. CASE h.dead = "no" /\ (~Valid(h, block) \/ ~(h.head = NULL \/ Valid(h, h.head)))
  <2>1. g = Dead(h, "cookie")
    BY <1>e, <1>2 DEF HeapListRemove
  <2> QED BY <1>e, <2>1, DeadList
<1>3. CASE h.dead = "no" /\ Valid(h, block) /\ (h.head = NULL \/ Valid(h, h.head))
  <2>1. next \in Ptr /\ prev \in Ptr
    BY <1>n, <1>3, LinkOf
  <2>2. ListStep(h, h1) /\ Typed(h1)
    BY <1>b, <1>c, <2>1, SetStep DEF ListStep
  <2>3. ListStep(h, h2) /\ Typed(h2)
    BY <1>a, <1>d, <2>1, SetStep DEF ListStep
  <2>4. g = IF block = h.head
            THEN IF next = NULL THEN [h EXCEPT !.head = NULL] ELSE [h2 EXCEPT !.head = next]
            ELSE Set(h1, prev, "next", next)
    BY <1>n, <1>c, <1>d, <1>e, <1>3 DEF HeapListRemove
  <2>5. ListStep(h1, Set(h1, prev, "next", next))
    BY <2>1, <2>2, SetStep DEF ListStep
  <2>6. ListStep(h2, [h2 EXCEPT !.head = next])
    BY <2>1, <2>3, HeadList
  <2>7. ListStep(h, [h EXCEPT !.head = NULL])
    BY <1>a, HeadList
  <2> QED BY <1>e, <2>2, <2>3, <2>4, <2>5, <2>6, <2>7, ListStepTransitive
<1> QED BY <1>1, <1>2, <1>3

LEMMA RelistedList ==
  ASSUME NEW h, Typed(h), NEW block \in Ptr
  PROVE  /\ ListStep(h, Relisted(h, block))
         /\ Fine(Relisted(h, block)) => Relisted(h, block).head # NULL
<1> DEFINE g == HeapListRemove(h, block)
<1>1. ListStep(h, g) /\ Typed(g)
  BY RemoveList DEF ListStep, Links
<1>2. Relisted(h, block) = HeapListInsert(g, block)
  BY DEF Relisted
<1> HIDE DEF g
<1> QED BY <1>1, <1>2, InsertList, ListStepTransitive

-----------------------------------------------------------------------------
(* Recursive functions                                                     *)

LEMMA Least ==
  ASSUME NEW S, S \subseteq Nat, S # {}
  PROVE  Min(S) \in S /\ \A x \in S : Min(S) <= x
<1>1. PICK m \in S : \A x \in S : ~(<<x, m>> \in OpToRel(<, Nat))
  BY NatLessThanWellFounded, WFMin, Zenon
<1>2. ASSUME NEW x \in S PROVE m <= x
  <2>1. OpToRel(<, Nat) = {ss \in Nat \X Nat : ss[1] < ss[2]}
    BY Zenon DEF OpToRel
  <2>2. m \in Nat /\ x \in Nat /\ <<x, m>> \in Nat \X Nat
    OBVIOUS
  <2>3. x < m => <<x, m>> \in {ss \in Nat \X Nat : ss[1] < ss[2]}
    BY <2>2
  <2>4. ~(x < m)
    BY <1>1, <2>1, <2>3
  <2> QED BY <2>2, <2>4
<1> QED BY <1>2 DEF Min

LEMMA Greatest ==
  ASSUME NEW n \in Nat, NEW S, S \subseteq 0..n, S # {}
  PROVE  Max(S) \in S /\ \A x \in S : x <= Max(S)
<1> DEFINE below == {n - x : x \in S}
<1>1. below \subseteq Nat /\ below # {}
  <2>1. \A x \in S : n - x \in Nat
    OBVIOUS
  <2> QED BY <2>1
<1>2. Min(below) \in below /\ \A y \in below : Min(below) <= y
  BY <1>1, Least
<1>3. PICK m \in S : Min(below) = n - m
  BY <1>2
<1>4. ASSUME NEW x \in S PROVE x <= m
  <2>1. n - x \in below
    OBVIOUS
  <2>2. n - m <= n - x
    BY <1>2, <1>3, <2>1
  <2> QED BY <2>2
<1> QED BY <1>4 DEF Max

LEMMA NatInduct ==
  ASSUME NEW S, 0 \in S, \A n \in Nat : n \in S => n + 1 \in S
  PROVE  \A n \in Nat : n \in S
<1>1. SUFFICES ASSUME NEW x \in Nat, x \notin S PROVE FALSE
  OBVIOUS
<1>2. PICK Bad : Bad = {n \in Nat : n \notin S}
  OBVIOUS
<1>3. PICK n \in Bad : \A m \in Bad : n <= m
  BY <1>1, <1>2, Least
<1>4. n \in Nat /\ n # 0
  BY <1>2
<1>5. PICK m \in Nat : n = m + 1 /\ ~(n <= m)
  BY <1>4
<1>6. m \in S
  BY <1>2, <1>3, <1>5
<1> QED BY <1>2, <1>5, <1>6

(* Where the walk of BlocksOf starts *)
WalkStart(h) == [met |-> {}, at |-> IF h.firsthead = NULL THEN h.brk ELSE h.firsthead]

(* The recursion of BlocksOf, up to m *)
Walks(f, h, m) == f = [k \in 0..m |-> IF k = 0 THEN WalkStart(h) ELSE Onward(h, f[k - 1])]

LEMMA WalksExists ==
  ASSUME NEW h, NEW m \in Nat
  PROVE  \E f : Walks(f, h, m)
<1> DEFINE S == {k \in Nat : \E f : Walks(f, h, k)}
<1>1. 0 \in S
  <2>1. Walks([k \in 0..0 |-> WalkStart(h)], h, 0)
    BY DEF Walks
  <2> QED BY <2>1
<1>2. ASSUME NEW n \in Nat, n \in S PROVE n + 1 \in S
  <2>1. PICK old : Walks(old, h, n)
    BY <1>2
  <2>2. PICK p : p = n + 1
    OBVIOUS
  <2>3. PICK new : new = [k \in 0..p |-> IF k = p THEN Onward(h, old[n]) ELSE old[k]]
    OBVIOUS
  <2>4. ASSUME NEW k \in 0..p PROVE new[k] = IF k = 0 THEN WalkStart(h) ELSE Onward(h, new[k - 1])
    <3>1. CASE k = p
      <4>1. k - 1 = n /\ n \in 0..p /\ n # p /\ k # 0
        BY <2>2, <3>1
      <4> QED BY <2>3, <3>1, <4>1
    <3>2. CASE k # p
      <4>1. k \in 0..n /\ new[k] = old[k]
        BY <2>2, <2>3, <3>2
      <4>2. old[k] = IF k = 0 THEN WalkStart(h) ELSE Onward(h, old[k - 1])
        BY <2>1, <4>1 DEF Walks
      <4>3. k # 0 => new[k - 1] = old[k - 1]
        BY <2>2, <2>3, <4>1
      <4> QED BY <4>1, <4>2, <4>3
    <3> QED BY <3>1, <3>2
  <2>5. Walks(new, h, p)
    BY <2>3, <2>4 DEF Walks
  <2>6. p \in Nat
    BY <2>2
  <2> QED BY <2>2, <2>5, <2>6
<1>3. m \in S
  <2> HIDE DEF S
  <2> QED BY <1>1, <1>2, NatInduct
<1> QED BY <1>3

LEMMA BlocksAre ==
  ASSUME NEW h
  PROVE  \E f : /\ BlocksOf(h) = f[LastStep].met /\ f[0] = WalkStart(h)
                /\ \A k \in 1..LastStep : f[k] = Onward(h, f[k - 1])
<1>0. LastStep \in Nat
  BY Constants
<1> DEFINE f == CHOOSE f : Walks(f, h, LastStep)
<1>1. Walks(f, h, LastStep)
  BY <1>0, WalksExists
<1>2. BlocksOf(h) = f[LastStep].met
  BY DEF BlocksOf, Walks, WalkStart, Steps
<1> HIDE DEF f
<1>3. f[0] = WalkStart(h)
  BY <1>0, <1>1 DEF Walks
<1>4. ASSUME NEW k \in 1..LastStep PROVE f[k] = Onward(h, f[k - 1])
  BY <1>0, <1>1 DEF Walks
<1> QED BY <1>2, <1>3, <1>4

(* The recursion of merge, up to m *)
Merges(f, h, m) == f = [k \in 0..m |-> IF k = 0 THEN Call(h, h.firsthead) ELSE smerge(f[k - 1])]

LEMMA MergesExists ==
  ASSUME NEW h, NEW m \in Nat
  PROVE  \E f : Merges(f, h, m)
<1> DEFINE S == {k \in Nat : \E f : Merges(f, h, k)}
<1>1. 0 \in S
  <2>1. Merges([k \in 0..0 |-> Call(h, h.firsthead)], h, 0)
    BY DEF Merges
  <2> QED BY <2>1
<1>2. ASSUME NEW n \in Nat, n \in S PROVE n + 1 \in S
  <2>1. PICK old : Merges(old, h, n)
    BY <1>2
  <2>2. PICK p : p = n + 1
    OBVIOUS
  <2>3. PICK new : new = [k \in 0..p |-> IF k = p THEN smerge(old[n]) ELSE old[k]]
    OBVIOUS
  <2>4. ASSUME NEW k \in 0..p PROVE new[k] = IF k = 0 THEN Call(h, h.firsthead) ELSE smerge(new[k - 1])
    <3>1. CASE k = p
      <4>1. k - 1 = n /\ n \in 0..p /\ n # p /\ k # 0
        BY <2>2, <3>1
      <4> QED BY <2>3, <3>1, <4>1
    <3>2. CASE k # p
      <4>1. k \in 0..n /\ new[k] = old[k]
        BY <2>2, <2>3, <3>2
      <4>2. old[k] = IF k = 0 THEN Call(h, h.firsthead) ELSE smerge(old[k - 1])
        BY <2>1, <4>1 DEF Merges
      <4>3. k # 0 => new[k - 1] = old[k - 1]
        BY <2>2, <2>3, <4>1
      <4> QED BY <4>1, <4>2, <4>3
    <3> QED BY <3>1, <3>2
  <2>5. Merges(new, h, p)
    BY <2>3, <2>4 DEF Merges
  <2>6. p \in Nat
    BY <2>2
  <2> QED BY <2>2, <2>5, <2>6
<1>3. m \in S
  <2> HIDE DEF S
  <2> QED BY <1>1, <1>2, NatInduct
<1> QED BY <1>3

LEMMA MergeIs ==
  ASSUME NEW h
  PROVE  \E f : /\ merge(h) = f[LastStep].heap /\ f[0] = Call(h, h.firsthead)
                /\ \A k \in 1..LastStep : f[k] = smerge(f[k - 1])
<1>0. LastStep \in Nat
  BY Constants
<1> DEFINE f == CHOOSE f : Merges(f, h, LastStep)
<1>1. Merges(f, h, LastStep)
  BY <1>0, MergesExists
<1>2. merge(h) = f[LastStep].heap
  BY DEF merge, Merges, Steps
<1> HIDE DEF f
<1>3. f[0] = Call(h, h.firsthead)
  BY <1>0, <1>1 DEF Merges
<1>4. ASSUME NEW k \in 1..LastStep PROVE f[k] = smerge(f[k - 1])
  BY <1>0, <1>1 DEF Merges
<1> QED BY <1>2, <1>3, <1>4

-----------------------------------------------------------------------------
(* The blocks of a heap                                                    *)

(* B are blocks that lie behind each other from firsthead to the break.    *)
Chain(h, B) ==
  /\ \A a \in B : a \in 1..(h.brk - 1)
  /\ \A a \in B : Valid(h, a) /\ (After(h, a) \in B \/ After(h, a) = h.brk)
  /\ \A a, b \in B : a < b => After(h, a) <= b
  /\ IF h.firsthead = NULL THEN B = {}
     ELSE h.firsthead \in B /\ \A a \in B : h.firsthead <= a

LEMMA HeaderSizes ==
  ASSUME NEW h, Typed(h), NEW a, Valid(h, a)
  PROVE  /\ Size(h, a) \in Nat /\ IsFree(h, a) \in BOOLEAN
         /\ a \in Nat /\ a > 0
         /\ After(h, a) = a + Size(h, a) + 1 /\ After(h, a) \in Nat /\ After(h, a) > a
<1>1. a \in Cells /\ h.mem[a] \in HeaderCell
  BY HeaderCells DEF Typed
<1> QED BY <1>1, Constants DEF Cells, HeaderCell, Size, IsFree, After

LEMMA BlocksOfChain ==
  ASSUME NEW h, Typed(h), NEW B, Chain(h, B)
  PROVE  BlocksOf(h) = B
<1>1. PICK f : /\ BlocksOf(h) = f[LastStep].met /\ f[0] = WalkStart(h)
               /\ \A k \in 1..LastStep : f[k] = Onward(h, f[k - 1])
  BY BlocksAre
<1>a. LastStep \in Nat /\ LastStep >= HeapMax /\ NULL = 0 /\ HeapMax \in Nat
  BY Constants
<1>b. h.brk \in Nat /\ h.brk <= HeapMax + 1 /\ \A b \in B : b \in Nat /\ b > 0 /\ b < h.brk
  BY <1>a DEF Chain, Typed
<1> DEFINE At(k) == /\ f[k].at \in B \cup {h.brk} /\ f[k].met = {b \in B : b < f[k].at}
                    /\ f[k].at = h.brk \/ f[k].at >= k + 1
           S == {k \in Nat : k <= LastStep => At(k)}
<1>2. At(0)
  <2>1. CASE h.firsthead = NULL
    <3>1. f[0].at = h.brk /\ f[0].met = {}
      BY <1>1, <2>1 DEF WalkStart
    <3>2. B = {}
      BY <2>1 DEF Chain
    <3> QED BY <3>1, <3>2
  <2>2. CASE h.firsthead # NULL
    <3>1. f[0].at = h.firsthead /\ f[0].met = {}
      BY <1>1, <2>2 DEF WalkStart
    <3>2. h.firsthead \in B /\ \A b \in B : ~(b < h.firsthead)
      <4>1. h.firsthead \in B /\ \A b \in B : h.firsthead <= b
        BY <2>2 DEF Chain
      <4> QED BY <1>b, <4>1
    <3> QED BY <1>b, <3>1, <3>2
  <2> QED BY <2>1, <2>2
<1>3. ASSUME NEW n \in Nat, n < LastStep, At(n) PROVE At(n + 1)
  <2>0. PICK p : p = n + 1
    OBVIOUS
  <2>1. p \in 1..LastStep /\ p - 1 = n
    BY <1>a, <1>3, <2>0
  <2>2. f[p] = Onward(h, f[n])
    BY <1>1, <2>1
  <2>3. CASE f[n].at = h.brk
    BY <1>3, <2>0, <2>2, <2>3 DEF Onward
  <2>4. CASE f[n].at # h.brk
    <3>0. PICK a : a = f[n].at
      OBVIOUS
    <3>1. a \in B /\ a >= n + 1 /\ a # h.brk /\ f[n].met = {b \in B : b < a}
      BY <1>3, <2>4, <3>0
    <3>2. Valid(h, a) /\ (After(h, a) \in B \/ After(h, a) = h.brk)
      BY <3>1 DEF Chain
    <3>3. PICK e : e = After(h, a)
      OBVIOUS
    <3>4. f[p].met = f[n].met \cup {a} /\ f[p].at = e
      BY <2>2, <3>0, <3>1, <3>2, <3>3 DEF Onward
    <3>5. e \in Nat /\ e > a
      BY <3>2, <3>3, HeaderSizes
    <3>6. \A b \in B : b < e <=> b < a \/ b = a
      <4>1. \A b \in B : a < b => e <= b
        BY <3>1, <3>3 DEF Chain
      <4> QED BY <1>b, <3>1, <3>5, <4>1
    <3>7. f[p].met = {b \in B : b < e}
      BY <3>1, <3>4, <3>6
    <3>8. e >= p + 1
      BY <1>b, <2>0, <3>1, <3>5
    <3> QED BY <2>0, <3>2, <3>3, <3>4, <3>7, <3>8
  <2> QED BY <2>3, <2>4
<1>4. At(LastStep)
  <2>1. 0 \in S
    BY <1>2
  <2>2. ASSUME NEW n \in Nat, n \in S PROVE n + 1 \in S
    <3>1. CASE n + 1 <= LastStep
      <4>1. n < LastStep /\ n <= LastStep
        BY <1>a, <3>1
      <4>2. At(n)
        BY <2>2, <4>1
      <4>3. At(n + 1)
        BY <1>3, <4>1, <4>2
      <4> QED BY <4>3
    <3>2. CASE ~(n + 1 <= LastStep)
      BY <3>2
    <3> QED BY <3>1, <3>2
  <2>3. LastStep \in S
    <3> HIDE DEF S
    <3> QED BY <1>a, <2>1, <2>2, NatInduct
  <2> QED BY <1>a, <2>3
<1>5. f[LastStep].at = h.brk
  BY <1>a, <1>b, <1>4
<1> QED BY <1>1, <1>b, <1>4, <1>5

LEMMA ValidAlike ==
  ASSUME NEW h, NEW g, Alike(h.mem, g.mem)
  PROVE  /\ \A c : Valid(g, c) <=> Valid(h, c)
         /\ \A c : Valid(h, c) => /\ Size(g, c) = Size(h, c) /\ IsFree(g, c) = IsFree(h, c)
                                  /\ After(g, c) = After(h, c)
         /\ \A c \in Cells : ~Valid(h, c) => g.mem[c] = h.mem[c]
  BY DEF Alike, Valid, Size, IsFree, After

LEMMA ChainAlike ==
  ASSUME NEW h, NEW g, Links(h, g), NEW B, Chain(h, B)
  PROVE  Chain(g, B)
<1>0. \A a \in B : Valid(h, a)
  BY DEF Chain
<1>1. \A a \in B : Valid(h, a) /\ Valid(g, a) /\ After(g, a) = After(h, a)
  BY <1>0, ValidAlike DEF Links
<1> QED BY <1>1 DEF Chain, Links, SameBounds

-----------------------------------------------------------------------------
(* Mappings                                                                *)

LEMMA Products ==
  ASSUME NEW L \in Nat, NEW j \in Nat, NEW k \in Nat, j < k
  PROVE  /\ j * L \in Nat /\ k * L \in Nat
         /\ j * L + L <= k * L
<1>1. PICK d \in Nat : k = j + 1 + d
  <2>1. k - j - 1 \in Nat /\ k = j + 1 + (k - j - 1)
    OBVIOUS
  <2> QED BY <2>1
<1>2. k * L = j * L + L + d * L /\ d * L \in Nat /\ j * L \in Nat
  BY <1>1
<1> QED BY <1>2

(* Mappings lie behind the heap and apart from each other.                 *)
LEMMA MapsApart ==
  ASSUME NEW k \in 1..MmapMax
  PROVE  /\ MmapAddress(k) \in Cells /\ MmapAddress(k) > HeapMax
         /\ MmapAddress(k) \in Nat /\ MmapAddress(k) + SIZE_LIMIT \in Cells
         /\ \A j \in 1..MmapMax : j # k =>
              \/ MmapAddress(j) + SIZE_LIMIT < MmapAddress(k)
              \/ MmapAddress(k) + SIZE_LIMIT < MmapAddress(j)
<1>0. /\ MmapLength \in Nat /\ HeapMax \in Nat /\ SIZE_LIMIT \in Nat /\ MmapMax \in Nat
      /\ MmapLength = SIZE_LIMIT + 1
  BY Constants
<1>1. ASSUME NEW j \in 1..MmapMax
      PROVE  (j - 1) * MmapLength \in Nat /\ MmapAddress(j) = HeapMax + 1 + (j - 1) * MmapLength
  <2>1. j - 1 \in Nat
    BY <1>0
  <2>2. (j - 1) * MmapLength \in Nat
    BY <1>0, <2>1
  <2> QED BY <2>2 DEF MmapAddress
<1>2. ASSUME NEW i \in 1..MmapMax, NEW j \in 1..MmapMax, i < j
      PROVE  MmapAddress(i) + SIZE_LIMIT < MmapAddress(j)
  <2>1. i - 1 \in Nat /\ j - 1 \in Nat /\ i - 1 < j - 1
    BY <1>0, <1>2
  <2>2. (i - 1) * MmapLength + MmapLength <= (j - 1) * MmapLength
    BY <1>0, <2>1, Products
  <2> QED BY <1>0, <1>1, <2>2
<1>3. MmapAddress(k) + SIZE_LIMIT <= LastCell
  <2>1. k - 1 \in Nat /\ k - 1 < MmapMax
    BY <1>0
  <2>2. (k - 1) * MmapLength + MmapLength <= MmapMax * MmapLength /\ MmapMax * MmapLength \in Nat
    BY <1>0, <2>1, Products
  <2> QED BY <1>0, <1>1, <2>2 DEF LastCell
<1>4. LastCell \in Nat
  BY Constants
<1> QED BY <1>0, <1>1, <1>2, <1>3, <1>4 DEF Cells

MapCells == {MmapAddress(k) : k \in 1..MmapMax}

Maps(h) == {MmapAddress(k) : k \in (1..MmapMax) \ FreeMmaps(h)}

(* Mappings are in use, and as long as what is mapped.                     *)
MapsOK(h) ==
  \A a \in MapCells :
    h.mem[a] # Unmapped =>
      /\ Valid(h, a) /\ ~IsFree(h, a)
      /\ Size(h, a) >= MMAP_THRESHOLD /\ Size(h, a) <= SIZE_LIMIT

(* The memories m and n differ on the cells of S in links only.            *)
AlikeOn(m, n, S) ==
  \A c \in S :
    /\ n[c].tag = m[c].tag
    /\ m[c].tag = "header" => n[c].size = m[c].size /\ n[c].is_free = m[c].is_free
    /\ m[c].tag # "header" => n[c] = m[c]

LEMMA ValidAlikeOn ==
  ASSUME NEW h, NEW g, NEW S, S \subseteq Cells, AlikeOn(h.mem, g.mem, S)
  PROVE  /\ \A c \in S : Valid(g, c) <=> Valid(h, c)
         /\ \A c \in S : Valid(h, c) => /\ Size(g, c) = Size(h, c) /\ IsFree(g, c) = IsFree(h, c)
                                        /\ After(g, c) = After(h, c)
         /\ \A c \in S : ~Valid(h, c) => g.mem[c] = h.mem[c]
  BY DEF AlikeOn, Valid, Size, IsFree, After

LEMMA AlikeOnTransitive ==
  ASSUME NEW m, NEW n, NEW o, NEW S, NEW T, AlikeOn(m, n, S), AlikeOn(n, o, T)
  PROVE  AlikeOn(m, o, S \cap T)
  BY DEF AlikeOn

LEMMA AlikeIsOn ==
  ASSUME NEW m, NEW n, NEW S, S \subseteq Cells, Alike(m, n)
  PROVE  AlikeOn(m, n, S)
  BY DEF Alike, AlikeOn

LEMMA MapsAre ==
  ASSUME NEW h
  PROVE  Maps(h) = {a \in MapCells : h.mem[a] # Unmapped}
  BY DEF Maps, MapCells, FreeMmaps

LEMMA MapCellsAre ==
  MapCells \subseteq Cells /\ \A a \in MapCells : a \in Nat /\ a > HeapMax
  BY MapsApart DEF MapCells

LEMMA MapsAlike ==
  ASSUME NEW h, NEW g, MapsOK(h), AlikeOn(h.mem, g.mem, MapCells)
  PROVE  MapsOK(g) /\ Maps(g) = Maps(h)
<1>1. \A a \in MapCells : g.mem[a] = Unmapped <=> h.mem[a] = Unmapped
  BY DEF AlikeOn, Unmapped, MapsOK, Valid
<1>2. MapsOK(g)
  <2>1. SUFFICES ASSUME NEW a \in MapCells, g.mem[a] # Unmapped
                 PROVE  /\ Valid(g, a) /\ ~IsFree(g, a)
                        /\ Size(g, a) >= MMAP_THRESHOLD /\ Size(g, a) <= SIZE_LIMIT
    BY DEF MapsOK
  <2>2. /\ Valid(h, a) /\ ~IsFree(h, a)
        /\ Size(h, a) >= MMAP_THRESHOLD /\ Size(h, a) <= SIZE_LIMIT
    BY <1>1, <2>1 DEF MapsOK
  <2> QED BY <2>2, MapCellsAre, ValidAlikeOn
<1> QED BY <1>1, <1>2, MapsAre

-----------------------------------------------------------------------------
(* A heap in order                                                         *)

Wild(h) ==
  h.firsthead # NULL => h.wilderness \in BlocksOf(h) /\ After(h, h.wilderness) = h.brk

Good(h) ==
  /\ Typed(h) /\ Chain(h, BlocksOf(h)) /\ Wild(h) /\ MapsOK(h)
  /\ h.head = NULL <=> h.firsthead = NULL

(* What is in use                                                          *)
Used(h) == {a \in BlocksOf(h) \cup Maps(h) : ~IsFree(h, a)}

LEMMA BlocksIn ==
  ASSUME NEW h, Good(h), NEW a \in BlocksOf(h)
  PROVE  /\ Valid(h, a) /\ a \in Cells /\ a \in Nat /\ a > 0 /\ a < h.brk /\ a <= HeapMax
         /\ a \notin MapCells /\ h.firsthead # NULL
         /\ Size(h, a) \in Nat /\ IsFree(h, a) \in BOOLEAN
         /\ After(h, a) = a + Size(h, a) + 1 /\ After(h, a) <= h.brk
         /\ h.brk \in Nat /\ h.brk <= HeapMax + 1
<1>0. PICK B : B = BlocksOf(h)
  OBVIOUS
<1>a. Typed(h) /\ Chain(h, B) /\ a \in B /\ h.brk \in Nat
  BY <1>0, Constants DEF Good, Typed
<1>v. Valid(h, a)
  BY <1>a DEF Chain
<1>b. /\ After(h, a) \in B \/ After(h, a) = h.brk
      /\ \A b \in B : b \in 1..(h.brk - 1)
      /\ h.firsthead # NULL
  BY <1>a DEF Chain
<1>1. /\ a \in 1..(h.brk - 1) /\ After(h, a) <= h.brk
  BY <1>a, <1>b
<1>2. a \in Cells /\ h.brk <= HeapMax + 1 /\ HeapMax \in Nat
  BY <1>a, <1>v, Constants DEF Typed, Valid
<1> QED BY <1>v, <1>a, <1>b, <1>1, <1>2, HeaderSizes, MapCellsAre

(* ptr->field = value in the memory m *)
Edit(m, a, f, v) == [m EXCEPT ![a] = [m[a] EXCEPT ![f] = v]]

LEMMA SetFields ==
  ASSUME NEW h, IsHeap(h), NEW a, Valid(h, a), NEW f, NEW v, NEW g, g = Set(h, a, f, v)
  PROVE  /\ IsHeap(g) /\ g.mem = Edit(h.mem, a, f, v)
         /\ SameBounds(h, g) /\ SameCounters(h, g)
         /\ g.head = h.head /\ g.dead = h.dead /\ g.harm = h.harm
<1>1. g = [h EXCEPT !.mem[a] = [@ EXCEPT ![f] = v]]
  BY DEF Set
<1> QED BY <1>1 DEF IsHeap, SameBounds, SameCounters, Edit

LEMMA SizeEdit ==
  ASSUME NEW m \in [Cells -> Cell], NEW a \in Cells, m[a] \in HeaderCell, NEW v \in Nat
  PROVE  /\ Edit(m, a, "size", v) \in [Cells -> Cell]
         /\ AlikeOn(m, Edit(m, a, "size", v), Cells \ {a})
         /\ Edit(m, a, "size", v)[a] \in HeaderCell
         /\ Edit(m, a, "size", v)[a].size = v
         /\ Edit(m, a, "size", v)[a].is_free = m[a].is_free
<1>1. PICK c : c = [m[a] EXCEPT !["size"] = v]
  OBVIOUS
<1>2. c \in HeaderCell /\ c.size = v /\ c.is_free \in BOOLEAN /\ c.is_free = m[a].is_free
  BY <1>1 DEF HeaderCell
<1>3. Edit(m, a, "size", v) = [m EXCEPT ![a] = c]
  BY <1>1 DEF Edit
<1> QED BY <1>2, <1>3 DEF AlikeOn, Cell

LEMMA FreeEdit ==
  ASSUME NEW m \in [Cells -> Cell], NEW a \in Cells, m[a] \in HeaderCell, NEW v \in BOOLEAN
  PROVE  /\ Edit(m, a, "is_free", v) \in [Cells -> Cell]
         /\ AlikeOn(m, Edit(m, a, "is_free", v), Cells \ {a})
         /\ Edit(m, a, "is_free", v)[a] \in HeaderCell
         /\ Edit(m, a, "is_free", v)[a].size = m[a].size
         /\ Edit(m, a, "is_free", v)[a].is_free = v
<1>1. PICK c : c = [m[a] EXCEPT !["is_free"] = v]
  OBVIOUS
<1>2. c \in HeaderCell /\ c.is_free = v /\ c.is_free \in BOOLEAN /\ c.size = m[a].size
  BY <1>1 DEF HeaderCell
<1>3. Edit(m, a, "is_free", v) = [m EXCEPT ![a] = c]
  BY <1>1 DEF Edit
<1> QED BY <1>2, <1>3 DEF AlikeOn, Cell

LEMMA HeaderIs ==
  ASSUME NEW h, NEW a \in Cells, h.mem[a] \in HeaderCell
  PROVE  Valid(h, a) /\ Size(h, a) = h.mem[a].size /\ IsFree(h, a) = h.mem[a].is_free
  BY DEF Valid, HeaderCell, Size, IsFree

(* A heap is in order when its blocks are a chain and its wilderness is    *)
(* the last of them.                                                       *)
LEMMA GoodIs ==
  ASSUME NEW h, Good(h), NEW g, Typed(g), NEW B, Chain(g, B), AlikeOn(h.mem, g.mem, MapCells),
         g.head = NULL <=> g.firsthead = NULL,
         g.firsthead # NULL => g.wilderness \in B /\ After(g, g.wilderness) = g.brk
  PROVE  Good(g) /\ BlocksOf(g) = B /\ Maps(g) = Maps(h)
  BY BlocksOfChain, MapsAlike DEF Good, Wild

(* The header of block b changes, but not its size.                        *)
LEMMA MarkGood ==
  ASSUME NEW h, Good(h), NEW b \in BlocksOf(h), NEW v \in BOOLEAN,
         NEW g, IsHeap(g), Counters(g), SameBounds(h, g), g.head = h.head,
         g.mem = Edit(h.mem, b, "is_free", v)
  PROVE  /\ Good(g) /\ BlocksOf(g) = BlocksOf(h) /\ Maps(g) = Maps(h)
         /\ AlikeOn(h.mem, g.mem, Cells \ {b})
         /\ Valid(g, b) /\ Size(g, b) = Size(h, b) /\ IsFree(g, b) = v
<1>1. Valid(h, b) /\ b \in Cells /\ b \notin MapCells
  BY BlocksIn
<1>2. h.mem[b] \in HeaderCell /\ h.mem \in [Cells -> Cell]
  BY <1>1, HeaderCells DEF Good, Typed
<1>3. /\ g.mem \in [Cells -> Cell] /\ AlikeOn(h.mem, g.mem, Cells \ {b})
      /\ g.mem[b] \in HeaderCell /\ g.mem[b].size = h.mem[b].size /\ g.mem[b].is_free = v
  BY <1>1, <1>2, FreeEdit
<1>4. Typed(g)
  BY <1>3 DEF Good, Typed, SameBounds
<1>5. Valid(g, b) /\ Size(g, b) = Size(h, b) /\ IsFree(g, b) = v /\ After(g, b) = After(h, b)
  <2>1. Size(h, b) = h.mem[b].size
    BY <1>1, <1>2, HeaderIs
  <2>2. Valid(g, b) /\ Size(g, b) = g.mem[b].size /\ IsFree(g, b) = g.mem[b].is_free
    BY <1>1, <1>3, HeaderIs
  <2> QED BY <1>3, <2>1, <2>2 DEF After
<1>6. AlikeOn(h.mem, g.mem, MapCells)
  BY <1>1, <1>3, MapCellsAre DEF AlikeOn
<1>7. PICK B : B = BlocksOf(h)
  OBVIOUS
<1>8. \A a \in B : Valid(g, a) /\ After(g, a) = After(h, a)
  <2>1. SUFFICES ASSUME NEW a \in B, a # b PROVE Valid(g, a) /\ After(g, a) = After(h, a)
    BY <1>5
  <2>2. Valid(h, a) /\ a \in Cells \ {b}
    BY <1>7, <2>1, BlocksIn
  <2> QED BY <1>3, <2>2, ValidAlikeOn
<1>9. Chain(h, B) /\ Wild(h) /\ (h.head = NULL <=> h.firsthead = NULL)
  BY <1>7 DEF Good
<1>10. Chain(g, B)
  BY <1>8, <1>9 DEF Chain, SameBounds
<1>11. /\ g.head = NULL <=> g.firsthead = NULL
       /\ g.firsthead # NULL => g.wilderness \in B /\ After(g, g.wilderness) = g.brk
  BY <1>7, <1>8, <1>9 DEF Wild, SameBounds
<1>12. Good(g) /\ BlocksOf(g) = B /\ Maps(g) = Maps(h)
  BY <1>4, <1>6, <1>10, <1>11, GoodIs
<1> QED BY <1>3, <1>5, <1>7, <1>12

(* Nothing but the list changes.                                           *)
LEMMA LinksGood ==
  ASSUME NEW h, Good(h), NEW g, Links(h, g), g.head = NULL <=> g.firsthead = NULL
  PROVE  /\ Good(g) /\ BlocksOf(g) = BlocksOf(h) /\ Maps(g) = Maps(h)
         /\ AlikeOn(h.mem, g.mem, Cells)
<1>1. PICK B : B = BlocksOf(h)
  OBVIOUS
<1>2. Chain(g, B)
  BY <1>1, ChainAlike DEF Good
<1>3. AlikeOn(h.mem, g.mem, Cells) /\ AlikeOn(h.mem, g.mem, MapCells) /\ Typed(g)
  BY MapCellsAre, AlikeIsOn DEF Links
<1>4. g.firsthead # NULL => g.wilderness \in B /\ After(g, g.wilderness) = g.brk
  <2>1. ASSUME g.firsthead # NULL PROVE h.wilderness \in B /\ After(h, h.wilderness) = h.brk
    BY <1>1, <2>1 DEF Good, Wild, Links, SameBounds
  <2>2. ASSUME h.wilderness \in B PROVE After(g, h.wilderness) = After(h, h.wilderness)
    <3>1. Valid(h, h.wilderness)
      BY <1>1, <2>2, BlocksIn
    <3> QED BY <3>1, ValidAlike DEF Links
  <2> QED BY <2>1, <2>2 DEF Links, SameBounds
<1> QED BY <1>1, <1>2, <1>3, <1>4, GoodIs

-----------------------------------------------------------------------------
(* Chains that change                                                      *)

(* The parts of Chain, for a chain whose blocks end at the places end      *)
Ends(B, end, first, brk) ==
  /\ \A a \in B : a \in 1..(brk - 1) /\ end[a] \in Nat /\ a < end[a] /\ end[a] <= brk
  /\ \A a \in B : end[a] \in B \/ end[a] = brk
  /\ \A a, b \in B : a < b => end[a] <= b
  /\ IF first = NULL THEN B = {} ELSE first \in B /\ \A a \in B : first <= a

LEMMA ChainEnds ==
  ASSUME NEW h, Typed(h), NEW B
  PROVE  Chain(h, B) <=> (\A a \in B : Valid(h, a)) /\ Ends(B, [a \in B |-> After(h, a)], h.firsthead, h.brk)
<1>1. h.brk \in Nat
  BY Constants DEF Typed
<1>2. ASSUME Chain(h, B)
      PROVE  (\A a \in B : Valid(h, a)) /\ Ends(B, [a \in B |-> After(h, a)], h.firsthead, h.brk)
  <2>1. \A a \in B : Valid(h, a)
    BY <1>2 DEF Chain
  <2>2. /\ \A a \in B : After(h, a) \in B \/ After(h, a) = h.brk
        /\ \A a, b \in B : a < b => After(h, a) <= b
        /\ IF h.firsthead = NULL THEN B = {} ELSE h.firsthead \in B /\ \A a \in B : h.firsthead <= a
        /\ \A a \in B : a \in 1..(h.brk - 1)
    BY <1>2 DEF Chain
  <2>3. \A a \in B : After(h, a) \in Nat /\ a < After(h, a)
    BY <2>1, HeaderSizes
  <2>4. \A a \in B : After(h, a) <= h.brk
    BY <1>1, <2>2
  <2> QED BY <2>1, <2>2, <2>3, <2>4 DEF Ends
<1>3. ASSUME \A a \in B : Valid(h, a), Ends(B, [a \in B |-> After(h, a)], h.firsthead, h.brk)
      PROVE  Chain(h, B)
  BY <1>3 DEF Chain, Ends
<1> QED BY <1>2, <1>3

LEMMA EndsSplit ==
  ASSUME NEW B, NEW end, NEW first, NEW brk \in Nat, Ends(B, end, first, brk),
         NEW r \in B, NEW new \in Nat, r < new, new < end[r]
  PROVE  /\ new \notin B
         /\ Ends(B \cup {new},
                 [a \in B \cup {new} |-> IF a = new THEN end[r] ELSE IF a = r THEN new ELSE end[a]],
                 first, brk)
<1>1. PICK D : D = B \cup {new}
  OBVIOUS
<1>2. PICK e : e = [a \in D |-> IF a = new THEN end[r] ELSE IF a = r THEN new ELSE end[a]]
  OBVIOUS
<1>3. /\ \A a \in B : a \in 1..(brk - 1) /\ end[a] \in Nat /\ a < end[a] /\ end[a] <= brk
      /\ \A a \in B : end[a] \in B \/ end[a] = brk
      /\ \A a, b \in B : a < b => end[a] <= b
      /\ first # NULL /\ first \in B /\ \A a \in B : first <= a
  BY DEF Ends
<1>4. new \notin B
  BY <1>3
<1>5. /\ e[new] = end[r] /\ e[r] = new /\ \A a \in B : a # r => e[a] = end[a]
      /\ \A a \in D : a \in B \/ a = new
  BY <1>1, <1>2, <1>4
<1>6. \A a \in D : a \in 1..(brk - 1) /\ e[a] \in Nat /\ a < e[a] /\ e[a] <= brk
  BY <1>3, <1>5
<1>7. \A a \in D : e[a] \in D \/ e[a] = brk
  BY <1>1, <1>3, <1>5
<1>8. ASSUME NEW a \in D, NEW b \in D, a < b PROVE e[a] <= b
  <2>1. CASE a = new
    <3>1. b \in B /\ r < b
      BY <1>3, <1>5, <1>8, <2>1
    <3> QED BY <1>3, <1>5, <2>1, <3>1
  <2>2. CASE a = r
    BY <1>3, <1>4, <1>5, <1>8, <2>2
  <2>3. CASE a # new /\ a # r
    <3>1. a \in B /\ e[a] = end[a]
      BY <1>5, <2>3
    <3>2. CASE b = new
      <4>1. a < r
        BY <1>3, <1>8, <2>3, <3>1, <3>2
      <4>2. end[a] <= r
        BY <1>3, <3>1, <4>1
      <4> QED BY <1>3, <3>1, <3>2, <4>2
    <3>3. CASE b # new
      BY <1>3, <1>5, <1>8, <3>1, <3>3
    <3> QED BY <3>2, <3>3
  <2> QED BY <2>1, <2>2, <2>3
<1>9. first \in D /\ \A a \in D : first <= a
  BY <1>1, <1>3, <1>5
<1>10. Ends(D, e, first, brk)
  BY <1>3, <1>6, <1>7, <1>8, <1>9 DEF Ends
<1> QED BY <1>1, <1>2, <1>4, <1>10

LEMMA EndsMerge ==
  ASSUME NEW B, NEW end, NEW first, NEW brk \in Nat, Ends(B, end, first, brk),
         NEW r \in B, NEW next \in B, end[r] = next
  PROVE  /\ r # next
         /\ Ends(B \ {next}, [a \in B \ {next} |-> IF a = r THEN end[next] ELSE end[a]], first, brk)
<1>1. PICK D : D = B \ {next}
  OBVIOUS
<1>2. PICK e : e = [a \in D |-> IF a = r THEN end[next] ELSE end[a]]
  OBVIOUS
<1>3. /\ \A a \in B : a \in 1..(brk - 1) /\ end[a] \in Nat /\ a < end[a] /\ end[a] <= brk
      /\ \A a \in B : end[a] \in B \/ end[a] = brk
      /\ \A a, b \in B : a < b => end[a] <= b
      /\ first # NULL /\ first \in B /\ \A a \in B : first <= a
  BY DEF Ends
<1>4. r < next /\ r \in Nat /\ next \in Nat
  BY <1>3
<1>5. /\ r \in D /\ e[r] = end[next] /\ \A a \in D : a # r => e[a] = end[a]
      /\ \A a \in D : a \in B /\ a # next
  BY <1>1, <1>2, <1>4
<1>6. \A a \in D : a \in 1..(brk - 1) /\ e[a] \in Nat /\ a < e[a] /\ e[a] <= brk
  BY <1>3, <1>4, <1>5
<1>7. ASSUME NEW a \in D PROVE e[a] \in D \/ e[a] = brk
  <2>1. CASE a = r
    BY <1>1, <1>3, <1>5, <2>1
  <2>2. CASE a # r
    <3>1. a < r \/ next < a
      <4>1. r < a => end[r] <= a
        BY <1>3, <1>5
      <4> QED BY <1>3, <1>4, <1>5, <2>2, <4>1
    <3>2. end[a] # next
      <4>1. a < r => end[a] <= r
        BY <1>3, <1>5
      <4> QED BY <1>3, <1>4, <1>5, <3>1, <4>1
    <3> QED BY <1>1, <1>3, <1>5, <2>2, <3>2
  <2> QED BY <2>1, <2>2
<1>8. ASSUME NEW a \in D, NEW b \in D, a < b PROVE e[a] <= b
  <2>1. CASE a = r
    <3>1. end[r] <= b
      BY <1>3, <1>5, <1>8, <2>1
    <3>2. next < b
      BY <1>3, <1>4, <1>5, <3>1
    <3> QED BY <1>3, <1>5, <2>1, <3>2
  <2>2. CASE a # r
    BY <1>3, <1>5, <1>8, <2>2
  <2> QED BY <2>1, <2>2
<1>9. first \in D /\ \A a \in D : first <= a
  <2>1. first # next
    BY <1>3, <1>4
  <2> QED BY <1>1, <1>3, <1>5, <2>1
<1>10. Ends(D, e, first, brk)
  BY <1>3, <1>6, <1>7, <1>8, <1>9 DEF Ends
<1> QED BY <1>1, <1>2, <1>4, <1>10

LEMMA EndsAppend ==
  ASSUME NEW B, NEW end, NEW first, NEW brk \in Nat, brk > 0, Ends(B, end, first, brk),
         NEW more \in Nat, brk < more
  PROVE  Ends(B \cup {brk}, [a \in B \cup {brk} |-> IF a = brk THEN more ELSE end[a]],
              IF first = NULL THEN brk ELSE first, more)
<1>1. PICK D : D = B \cup {brk}
  OBVIOUS
<1>2. PICK e : e = [a \in D |-> IF a = brk THEN more ELSE end[a]]
  OBVIOUS
<1>3. /\ \A a \in B : a \in 1..(brk - 1) /\ end[a] \in Nat /\ a < end[a] /\ end[a] <= brk
      /\ \A a \in B : end[a] \in B \/ end[a] = brk
      /\ \A a, b \in B : a < b => end[a] <= b
      /\ IF first = NULL THEN B = {} ELSE first \in B /\ \A a \in B : first <= a
  BY DEF Ends
<1>4. brk \notin B
  BY <1>3
<1>5. /\ e[brk] = more /\ \A a \in B : e[a] = end[a]
      /\ \A a \in D : a \in B \/ a = brk
  BY <1>1, <1>2, <1>4
<1>6. \A a \in D : a \in 1..(more - 1) /\ e[a] \in Nat /\ a < e[a] /\ e[a] <= more
  BY <1>3, <1>5
<1>7. \A a \in D : e[a] \in D \/ e[a] = more
  BY <1>1, <1>3, <1>5
<1>8. \A a, b \in D : a < b => e[a] <= b
  BY <1>3, <1>5
<1>9. PICK f : f = IF first = NULL THEN brk ELSE first
  OBVIOUS
<1>10. f # NULL /\ f \in D /\ \A a \in D : f <= a
  <2>1. CASE first = NULL
    BY <1>1, <1>3, <1>5, <1>9, <2>1, Constants
  <2>2. CASE first # NULL
    BY <1>1, <1>3, <1>5, <1>9, <2>2
  <2> QED BY <2>1, <2>2
<1>11. Ends(D, e, f, more)
  BY <1>6, <1>7, <1>8, <1>10 DEF Ends
<1> QED BY <1>1, <1>2, <1>9, <1>11

LEMMA EndsGrow ==
  ASSUME NEW B, NEW end, NEW first, NEW brk \in Nat, Ends(B, end, first, brk),
         NEW w \in B, end[w] = brk, NEW more \in Nat, w < more
  PROVE  Ends(B, [a \in B |-> IF a = w THEN more ELSE end[a]], first, more)
<1>2. PICK e : e = [a \in B |-> IF a = w THEN more ELSE end[a]]
  OBVIOUS
<1>3. /\ \A a \in B : a \in 1..(brk - 1) /\ end[a] \in Nat /\ a < end[a] /\ end[a] <= brk
      /\ \A a \in B : end[a] \in B \/ end[a] = brk
      /\ \A a, b \in B : a < b => end[a] <= b
      /\ first # NULL /\ first \in B /\ \A a \in B : first <= a
  BY DEF Ends
<1>4. \A a \in B : a # w => a < w /\ end[a] <= w
  <2>1. \A a \in B : ~(w < a)
    BY <1>3
  <2> QED BY <1>3, <2>1
<1>5. e[w] = more /\ \A a \in B : a # w => e[a] = end[a]
  BY <1>2
<1>6. \A a \in B : a \in 1..(more - 1) /\ e[a] \in Nat /\ a < e[a] /\ e[a] <= more
  BY <1>3, <1>4, <1>5
<1>7. \A a \in B : e[a] \in B \/ e[a] = more
  <2>1. \A a \in B : a # w => end[a] # brk
    BY <1>3, <1>4
  <2> QED BY <1>3, <1>5, <2>1
<1>8. \A a, b \in B : a < b => e[a] <= b
  BY <1>3, <1>4, <1>5
<1>9. Ends(B, e, first, more)
  BY <1>3, <1>6, <1>7, <1>8 DEF Ends
<1> QED BY <1>2, <1>9

-----------------------------------------------------------------------------
(* What has happened is not undone                                         *)

Later(h, g) == IsHeap(g) /\ (Fine(g) => Fine(h))

LEMMA LaterTransitive ==
  ASSUME NEW h, NEW g, NEW k, Later(h, g), Later(g, k)
  PROVE  Later(h, k)
  BY DEF Later

LEMMA LaterReflexive ==
  ASSUME NEW h, IsHeap(h)
  PROVE  Later(h, h)
  BY DEF Later

LEMMA DeadLater ==
  ASSUME NEW h, IsHeap(h), NEW why, why # "no"
  PROVE  Later(h, Dead(h, why)) /\ ~Fine(Dead(h, why))
  BY DEF Later, Dead, IsHeap, Fine

LEMMA HarmedLater ==
  ASSUME NEW h, IsHeap(h), NEW kind, NEW happens
  PROVE  /\ Later(h, Harmed(h, kind, happens))
         /\ Fine(Harmed(h, kind, happens)) /\ kind # "relinked" => ~happens /\ Harmed(h, kind, happens) = h
  BY DEF Later, Harmed, IsHeap, Fine

LEMMA SetLater ==
  ASSUME NEW h, IsHeap(h), NEW a, NEW f, NEW v
  PROVE  Later(h, Set(h, a, f, v))
<1>1. CASE Valid(h, a)
  <2>1. PICK g : g = Set(h, a, f, v)
    OBVIOUS
  <2>2. IsHeap(g) /\ g.dead = h.dead /\ g.harm = h.harm
    BY <1>1, <2>1, SetFields
  <2> QED BY <2>1, <2>2 DEF Later, Fine
<1>2. CASE ~Valid(h, a)
  BY <1>2, DeadLater DEF Set
<1> QED BY <1>1, <1>2

LEMMA HeadLater ==
  ASSUME NEW h, IsHeap(h), NEW a
  PROVE  Later(h, [h EXCEPT !.head = a])
  BY DEF Later, IsHeap, Fine

LEMMA LinkAfterLater ==
  ASSUME NEW h, IsHeap(h), NEW new, NEW ptr
  PROVE  Later(h, LinkAfter(h, new, ptr))
<1>n. PICK next : next = h.mem[ptr].next
  OBVIOUS
<1>a. PICK h1 : h1 = Set(h, new, "next", next)
  OBVIOUS
<1>b. PICK h2 : h2 = Set(h1, new, "prev", ptr)
  OBVIOUS
<1>c. PICK h3 : h3 = Set(h2, ptr, "next", new)
  OBVIOUS
<1>d. PICK h4 : h4 = Set(h3, next, "prev", new)
  OBVIOUS
<1>1. LinkAfter(h, new, ptr) = IF next = NULL THEN h3 ELSE h4
  BY <1>n, <1>a, <1>b, <1>c, <1>d DEF LinkAfter
<1>2. Later(h, h1)
  BY <1>a, SetLater
<1>3. Later(h1, h2)
  BY <1>2, <1>b, SetLater DEF Later
<1>4. Later(h2, h3)
  BY <1>3, <1>c, SetLater DEF Later
<1>5. Later(h3, h4)
  BY <1>4, <1>d, SetLater DEF Later
<1>6. Later(h, h3) /\ Later(h, h4)
  BY <1>2, <1>3, <1>4, <1>5, LaterTransitive
<1> QED BY <1>1, <1>6

LEMMA LinkHeadLater ==
  ASSUME NEW h, IsHeap(h), NEW new, NEW ptr
  PROVE  Later(h, LinkHead(h, new, ptr))
<1>a. PICK h1 : h1 = Set(h, new, "next", ptr)
  OBVIOUS
<1>b. PICK h2 : h2 = Set(h1, new, "prev", NULL)
  OBVIOUS
<1>c. PICK h3 : h3 = Set(h2, ptr, "prev", new)
  OBVIOUS
<1>d. PICK h4 : h4 = [h3 EXCEPT !.head = new]
  OBVIOUS
<1>1. LinkHead(h, new, ptr) = h4
  BY <1>a, <1>b, <1>c, <1>d DEF LinkHead
<1>2. Later(h, h1)
  BY <1>a, SetLater
<1>3. Later(h1, h2)
  BY <1>2, <1>b, SetLater DEF Later
<1>4. Later(h2, h3)
  BY <1>3, <1>c, SetLater DEF Later
<1>5. Later(h3, h4)
  BY <1>4, <1>d, HeadLater DEF Later
<1> QED BY <1>1, <1>2, <1>3, <1>4, <1>5, LaterTransitive

LEMMA LinkBeforeLater ==
  ASSUME NEW h, IsHeap(h), NEW new, NEW ptr
  PROVE  Later(h, LinkBefore(h, new, ptr))
<1>n. PICK prev : prev = h.mem[ptr].prev
  OBVIOUS
<1>a. PICK h1 : h1 = Set(h, new, "next", ptr)
  OBVIOUS
<1>b. PICK h2 : h2 = Set(h1, new, "prev", prev)
  OBVIOUS
<1>c. PICK h3 : h3 = Set(h2, ptr, "prev", new)
  OBVIOUS
<1>d. PICK h4 : h4 = Set(h3, prev, "next", new)
  OBVIOUS
<1>1. LinkBefore(h, new, ptr) = IF ptr = h.head THEN LinkHead(h, new, ptr) ELSE h4
  BY <1>n, <1>a, <1>b, <1>c, <1>d DEF LinkBefore
<1>2. Later(h, h1)
  BY <1>a, SetLater
<1>3. Later(h1, h2)
  BY <1>2, <1>b, SetLater DEF Later
<1>4. Later(h2, h3)
  BY <1>3, <1>c, SetLater DEF Later
<1>5. Later(h3, h4)
  BY <1>4, <1>d, SetLater DEF Later
<1>6. Later(h, h4)
  BY <1>2, <1>3, <1>4, <1>5, LaterTransitive
<1> QED BY <1>1, <1>6, LinkHeadLater

LEMMA PlacedLater ==
  ASSUME NEW h, IsHeap(h), NEW new
  PROVE  Later(h, Placed(h, new))
<1>1. PICK ptr : Placed(h, new) \in {PlacedAt(h, new, ptr), Dead(h, "endless loop")}
  BY DEF Placed
<1>2. PICK k : k = LinkHead(h, new, ptr)
  OBVIOUS
<1>3. Later(h, k)
  BY <1>2, LinkHeadLater
<1>4. Later(h, Harmed(k, "relinked", ptr # h.head))
  BY <1>3, HarmedLater, LaterTransitive DEF Later
<1>5. Later(h, LinkBeside(h, new, ptr))
  BY LinkAfterLater, LinkBeforeLater DEF LinkBeside
<1>6. Later(h, Dead(h, "cookie")) /\ Later(h, Dead(h, "endless loop"))
  BY DeadLater
<1>7. PlacedAt(h, new, ptr) \in {Dead(h, "cookie"), LinkBeside(h, new, ptr),
                                 Harmed(k, "relinked", ptr # h.head)}
  BY <1>2 DEF PlacedAt
<1> QED BY <1>1, <1>4, <1>5, <1>6, <1>7

LEMMA InsertLater ==
  ASSUME NEW h, IsHeap(h), NEW new
  PROVE  Later(h, HeapListInsert(h, new))
<1>a. PICK h1 : h1 = Set(h, new, "next", NULL)
  OBVIOUS
<1>b. PICK h2 : h2 = Set(h1, new, "prev", NULL)
  OBVIOUS
<1>c. PICK h3 : h3 = [h2 EXCEPT !.head = new]
  OBVIOUS
<1>1. Later(h, h1)
  BY <1>a, SetLater
<1>2. Later(h1, h2)
  BY <1>1, <1>b, SetLater DEF Later
<1>3. Later(h2, h3)
  BY <1>2, <1>c, HeadLater DEF Later
<1>4. Later(h, h3) /\ Later(h, h)
  BY <1>1, <1>2, <1>3, LaterTransitive, LaterReflexive
<1>5. HeapListInsert(h, new) \in {h, Placed(h, new), h3}
  BY <1>a, <1>b, <1>c DEF HeapListInsert
<1> QED BY <1>4, <1>5, PlacedLater

LEMMA RemoveLater ==
  ASSUME NEW h, IsHeap(h), NEW block
  PROVE  Later(h, HeapListRemove(h, block))
<1>n. PICK next, prev : next = h.mem[block].next /\ prev = h.mem[block].prev
  OBVIOUS
<1>c. PICK h1 : h1 = IF next = NULL THEN h ELSE Set(h, next, "prev", prev)
  OBVIOUS
<1>d. PICK h2 : h2 = Set(h, next, "prev", NULL)
  OBVIOUS
<1>e. PICK h3, h4 : h3 = [h2 EXCEPT !.head = next] /\ h4 = Set(h1, prev, "next", next)
  OBVIOUS
<1>f. PICK h5 : h5 = [h EXCEPT !.head = NULL]
  OBVIOUS
<1>1. Later(h, h1) /\ Later(h, h2) /\ Later(h, h5)
  BY <1>c, <1>d, <1>f, SetLater, HeadLater, LaterReflexive
<1>2. Later(h1, h4) /\ Later(h2, h3)
  BY <1>1, <1>e, SetLater, HeadLater DEF Later
<1>3. Later(h, h4) /\ Later(h, h3)
  BY <1>1, <1>2, LaterTransitive
<1>4. Later(h, h) /\ Later(h, Dead(h, "cookie"))
  BY LaterReflexive, DeadLater
<1>5. HeapListRemove(h, block) \in {h, Dead(h, "cookie"), h5, h3, h4}
  BY <1>n, <1>c, <1>d, <1>e, <1>f DEF HeapListRemove
<1> QED BY <1>1, <1>3, <1>4, <1>5

LEMMA RelistedLater ==
  ASSUME NEW h, IsHeap(h), NEW block
  PROVE  Later(h, Relisted(h, block))
<1>1. PICK g : g = HeapListRemove(h, block)
  OBVIOUS
<1>2. Later(h, g)
  BY <1>1, RemoveLater
<1>3. Later(g, HeapListInsert(g, block))
  BY <1>2, InsertLater DEF Later
<1> QED BY <1>1, <1>2, <1>3, LaterTransitive DEF Relisted

(* An update of what is not known of h                                     *)
LEMMA FieldLater ==
  ASSUME NEW h, IsHeap(h), NEW v
  PROVE  /\ Later(h, [h EXCEPT !.mem = v])
         /\ Later(h, [h EXCEPT !.brk = v])
         /\ Later(h, [h EXCEPT !.firsthead = v])
         /\ Later(h, [h EXCEPT !.wilderness = v])
         /\ Later(h, [h EXCEPT !.mmhead = v])
         /\ Later(h, [h EXCEPT !.num_free_blocks = v])
         /\ Later(h, [h EXCEPT !.num_free_bytes = v])
         /\ Later(h, [h EXCEPT !.num_allocated_blocks = v])
         /\ Later(h, [h EXCEPT !.num_allocated_bytes = v])
         /\ Later(h, [h EXCEPT !.num_meta_data_bytes = v])
<1>1. Later(h, [h EXCEPT !.mem = v])
  BY DEF Later, IsHeap, Fine
<1>2. Later(h, [h EXCEPT !.brk = v])
  BY DEF Later, IsHeap, Fine
<1>3. Later(h, [h EXCEPT !.firsthead = v])
  BY DEF Later, IsHeap, Fine
<1>4. Later(h, [h EXCEPT !.wilderness = v])
  BY DEF Later, IsHeap, Fine
<1>5. Later(h, [h EXCEPT !.mmhead = v])
  BY DEF Later, IsHeap, Fine
<1>6. Later(h, [h EXCEPT !.num_free_blocks = v])
  BY DEF Later, IsHeap, Fine
<1>7. Later(h, [h EXCEPT !.num_free_bytes = v])
  BY DEF Later, IsHeap, Fine
<1>8. Later(h, [h EXCEPT !.num_allocated_blocks = v])
  BY DEF Later, IsHeap, Fine
<1>9. Later(h, [h EXCEPT !.num_allocated_bytes = v])
  BY DEF Later, IsHeap, Fine
<1>10. Later(h, [h EXCEPT !.num_meta_data_bytes = v])
  BY DEF Later, IsHeap, Fine
<1> QED BY <1>1, <1>2, <1>3, <1>4, <1>5, <1>6, <1>7, <1>8, <1>9, <1>10

LEMMA FreeFieldsLater ==
  ASSUME NEW h, IsHeap(h), NEW v, NEW w
  PROVE  Later(h, [h EXCEPT !.num_free_blocks = v, !.num_free_bytes = w])
<1>1. PICK g : g = [h EXCEPT !.num_free_blocks = v]
  OBVIOUS
<1>2. [h EXCEPT !.num_free_blocks = v, !.num_free_bytes = w] = [g EXCEPT !.num_free_bytes = w]
  BY <1>1
<1>3. Later(h, g) /\ IsHeap(g)
  BY <1>1, FieldLater DEF Later
<1>4. Later(g, [g EXCEPT !.num_free_bytes = w])
  BY <1>3, FieldLater
<1> QED BY <1>2, <1>3, <1>4, LaterTransitive

LEMMA FieldsLater ==
  ASSUME NEW h, IsHeap(h), NEW v, NEW w, NEW x, NEW y, NEW z
  PROVE  /\ Later(h, [h EXCEPT !.num_free_blocks = v, !.num_free_bytes = w])
         /\ Later(h, [h EXCEPT !.num_allocated_blocks = v, !.num_allocated_bytes = w, !.num_meta_data_bytes = x])
         /\ Later(h, [h EXCEPT !.head = v, !.firsthead = w])
         /\ Later(h, [h EXCEPT !.brk = v, !.mem = w])
         /\ Later(h, [h EXCEPT !.mem = v, !.wilderness = w])
         /\ Later(h, [h EXCEPT !.num_free_blocks = v, !.num_free_bytes = w,
                              !.num_allocated_blocks = x, !.num_allocated_bytes = y, !.num_meta_data_bytes = z])
<1>1. Later(h, [h EXCEPT !.num_free_blocks = v, !.num_free_bytes = w])
  <2>1. PICK g1 : g1 = [h EXCEPT !.num_free_blocks = v]
    OBVIOUS
  <2>2. Later(h, g1) /\ IsHeap(g1)
    BY <2>1, FieldLater, LaterTransitive DEF Later
  <2>3. PICK g2 : g2 = [g1 EXCEPT !.num_free_bytes = w]
    OBVIOUS
  <2>4. Later(h, g2) /\ IsHeap(g2)
    BY <2>2, <2>3, FieldLater, LaterTransitive DEF Later
  <2> QED BY <2>1, <2>3, <2>4
<1>2. Later(h, [h EXCEPT !.num_allocated_blocks = v, !.num_allocated_bytes = w, !.num_meta_data_bytes = x])
  <2>1. PICK g1 : g1 = [h EXCEPT !.num_allocated_blocks = v]
    OBVIOUS
  <2>2. Later(h, g1) /\ IsHeap(g1)
    BY <2>1, FieldLater, LaterTransitive DEF Later
  <2>3. PICK g2 : g2 = [g1 EXCEPT !.num_allocated_bytes = w]
    OBVIOUS
  <2>4. Later(h, g2) /\ IsHeap(g2)
    BY <2>2, <2>3, FieldLater, LaterTransitive DEF Later
  <2>5. PICK g3 : g3 = [g2 EXCEPT !.num_meta_data_bytes = x]
    OBVIOUS
  <2>6. Later(h, g3) /\ IsHeap(g3)
    BY <2>4, <2>5, FieldLater, LaterTransitive DEF Later
  <2> QED BY <2>1, <2>3, <2>5, <2>6
<1>3. Later(h, [h EXCEPT !.head = v, !.firsthead = w])
  <2>1. PICK g1 : g1 = [h EXCEPT !.head = v]
    OBVIOUS
  <2>2. Later(h, g1) /\ IsHeap(g1)
    BY <2>1, HeadLater, LaterTransitive DEF Later
  <2>3. PICK g2 : g2 = [g1 EXCEPT !.firsthead = w]
    OBVIOUS
  <2>4. Later(h, g2) /\ IsHeap(g2)
    BY <2>2, <2>3, FieldLater, LaterTransitive DEF Later
  <2> QED BY <2>1, <2>3, <2>4
<1>4. Later(h, [h EXCEPT !.brk = v, !.mem = w])
  <2>1. PICK g1 : g1 = [h EXCEPT !.brk = v]
    OBVIOUS
  <2>2. Later(h, g1) /\ IsHeap(g1)
    BY <2>1, FieldLater, LaterTransitive DEF Later
  <2>3. PICK g2 : g2 = [g1 EXCEPT !.mem = w]
    OBVIOUS
  <2>4. Later(h, g2) /\ IsHeap(g2)
    BY <2>2, <2>3, FieldLater, LaterTransitive DEF Later
  <2> QED BY <2>1, <2>3, <2>4
<1>5. Later(h, [h EXCEPT !.mem = v, !.wilderness = w])
  <2>1. PICK g1 : g1 = [h EXCEPT !.mem = v]
    OBVIOUS
  <2>2. Later(h, g1) /\ IsHeap(g1)
    BY <2>1, FieldLater, LaterTransitive DEF Later
  <2>3. PICK g2 : g2 = [g1 EXCEPT !.wilderness = w]
    OBVIOUS
  <2>4. Later(h, g2) /\ IsHeap(g2)
    BY <2>2, <2>3, FieldLater, LaterTransitive DEF Later
  <2> QED BY <2>1, <2>3, <2>4
<1>6. Later(h, [h EXCEPT !.num_free_blocks = v, !.num_free_bytes = w,
                              !.num_allocated_blocks = x, !.num_allocated_bytes = y, !.num_meta_data_bytes = z])
  <2>1. PICK g1 : g1 = [h EXCEPT !.num_free_blocks = v]
    OBVIOUS
  <2>2. Later(h, g1) /\ IsHeap(g1)
    BY <2>1, FieldLater, LaterTransitive DEF Later
  <2>3. PICK g2 : g2 = [g1 EXCEPT !.num_free_bytes = w]
    OBVIOUS
  <2>4. Later(h, g2) /\ IsHeap(g2)
    BY <2>2, <2>3, FieldLater, LaterTransitive DEF Later
  <2>5. PICK g3 : g3 = [g2 EXCEPT !.num_allocated_blocks = x]
    OBVIOUS
  <2>6. Later(h, g3) /\ IsHeap(g3)
    BY <2>4, <2>5, FieldLater, LaterTransitive DEF Later
  <2>7. PICK g4 : g4 = [g3 EXCEPT !.num_allocated_bytes = y]
    OBVIOUS
  <2>8. Later(h, g4) /\ IsHeap(g4)
    BY <2>6, <2>7, FieldLater, LaterTransitive DEF Later
  <2>9. PICK g5 : g5 = [g4 EXCEPT !.num_meta_data_bytes = z]
    OBVIOUS
  <2>10. Later(h, g5) /\ IsHeap(g5)
    BY <2>8, <2>9, FieldLater, LaterTransitive DEF Later
  <2> QED BY <2>1, <2>3, <2>5, <2>7, <2>9, <2>10
<1> QED BY <1>1, <1>2, <1>3, <1>4, <1>5, <1>6

LEMMA TakenLater ==
  ASSUME NEW h, IsHeap(h), NEW block
  PROVE  Later(h, Taken(h, block)) /\ Later(h, Freed(h, block))
<1>1. PICK h1, h2 : h1 = Set(h, block, "is_free", FALSE) /\ h2 = Set(h, block, "is_free", TRUE)
  OBVIOUS
<1>2. Later(h, h1) /\ Later(h, h2) /\ IsHeap(h1) /\ IsHeap(h2)
  BY <1>1, SetLater DEF Later
<1>3. PICK v, w : Taken(h, block) =
        IF h.dead # "no" \/ ~IsFree(h, block) THEN h
        ELSE [h1 EXCEPT !.num_free_blocks = v, !.num_free_bytes = w]
  BY <1>1, ZenonT(60) DEF Taken
<1>4. PICK x, y : Freed(h, block) = [h2 EXCEPT !.num_free_blocks = x, !.num_free_bytes = y]
  BY <1>1, ZenonT(60) DEF Freed
<1>5. Later(h1, [h1 EXCEPT !.num_free_blocks = v, !.num_free_bytes = w])
  BY <1>2, FreeFieldsLater
<1>6. Later(h2, [h2 EXCEPT !.num_free_blocks = x, !.num_free_bytes = y])
  BY <1>2, FreeFieldsLater
<1>7. Later(h, h)
  BY LaterReflexive
<1> QED BY <1>2, <1>3, <1>4, <1>5, <1>6, <1>7, LaterTransitive
(* What split does first: the header of the rest, and the counters          *)
Cut(h, request, new_size, h1) ==
  LET new_block == request + new_size + MetaSize
      rest == Size(h, request) - new_size - MetaSize
  IN  /\ IsHeap(h1) /\ h1.mem = [h.mem EXCEPT ![new_block] = Header(rest, TRUE)]
      /\ h1.brk = h.brk /\ h1.head = h.head /\ h1.firsthead = h.firsthead
      /\ h1.mmhead = h.mmhead /\ h1.dead = h.dead /\ h1.harm = h.harm
      /\ h1.wilderness = Last(h, request, new_block)
      /\ h1.num_free_blocks = IF IsFree(h, request) THEN h.num_free_blocks ELSE h.num_free_blocks + 1
      /\ h1.num_free_bytes = IF IsFree(h, request) THEN h.num_free_bytes - (new_size + MetaSize)
                             ELSE h.num_free_bytes + rest
      /\ h1.num_allocated_blocks = h.num_allocated_blocks + 1
      /\ h1.num_allocated_bytes = h.num_allocated_bytes - MetaSize
      /\ h1.num_meta_data_bytes = h.num_meta_data_bytes + MetaSize
      /\ split(h, request, new_size) =
           HeapListInsert(Relisted(Set(Set(h1, request, "is_free", FALSE), request, "size", new_size),
                                   request), new_block)

LEMMA CutIs ==
  ASSUME NEW h, IsHeap(h), NEW request, NEW new_size,
         h.dead = "no", Valid(h, request), Splits(h, request, new_size)
  PROVE  \E h1 : Cut(h, request, new_size, h1)
<1>0. PICK new_block, rest :
        /\ new_block = request + new_size + MetaSize
        /\ rest = Size(h, request) - new_size - MetaSize
  OBVIOUS
<1>1. PICK h1 : h1 = [h EXCEPT
                !.mem[new_block] = Header(rest, TRUE),
                !.wilderness = Last(h, request, new_block),
                !.num_free_blocks = IF IsFree(h, request) THEN @ ELSE @ + 1,
                !.num_free_bytes = IF IsFree(h, request) THEN @ - (new_size + MetaSize) ELSE @ + rest,
                !.num_allocated_blocks = @ + 1,
                !.num_allocated_bytes = @ - MetaSize,
                !.num_meta_data_bytes = @ + MetaSize]
  OBVIOUS
<1>2. split(h, request, new_size) =
                HeapListInsert(Relisted(Set(Set(h1, request, "is_free", FALSE), request, "size", new_size),
                                        request), new_block)
  BY <1>0, <1>1 DEF split
<1>3. h = [mem |-> h.mem, brk |-> h.brk, head |-> h.head, firsthead |-> h.firsthead,
       wilderness |-> h.wilderness, mmhead |-> h.mmhead,
       num_free_blocks |-> h.num_free_blocks, num_free_bytes |-> h.num_free_bytes,
       num_allocated_blocks |-> h.num_allocated_blocks,
       num_allocated_bytes |-> h.num_allocated_bytes,
       num_meta_data_bytes |-> h.num_meta_data_bytes, dead |-> h.dead, harm |-> h.harm]
  BY DEF IsHeap
<1>4. IsHeap(h1)
  BY <1>1, <1>3 DEF IsHeap
<1>5. /\ h1.mem = [h.mem EXCEPT ![new_block] = Header(rest, TRUE)]
           /\ h1.brk = h.brk /\ h1.head = h.head /\ h1.firsthead = h.firsthead
           /\ h1.mmhead = h.mmhead /\ h1.dead = h.dead /\ h1.harm = h.harm
           /\ h1.wilderness = Last(h, request, new_block)
  BY <1>1, <1>3
<1>6. h1.num_free_blocks = IF IsFree(h, request) THEN h.num_free_blocks ELSE h.num_free_blocks + 1
  BY <1>1, <1>3
<1>7. h1.num_free_bytes = IF IsFree(h, request) THEN h.num_free_bytes - (new_size + MetaSize)
                          ELSE h.num_free_bytes + rest
  BY <1>1, <1>3
<1>8. /\ h1.num_allocated_blocks = h.num_allocated_blocks + 1
      /\ h1.num_allocated_bytes = h.num_allocated_bytes - MetaSize
      /\ h1.num_meta_data_bytes = h.num_meta_data_bytes + MetaSize
  BY <1>1, <1>3
<1> QED BY <1>0, <1>2, <1>4, <1>5, <1>6, <1>7, <1>8 DEF Cut

LEMMA SplitLater ==
  ASSUME NEW h, IsHeap(h), NEW request, NEW new_size
  PROVE  Later(h, split(h, request, new_size))
<1>1. PICK new_block, rest :
        /\ new_block = request + new_size + MetaSize
        /\ rest = Size(h, request) - new_size - MetaSize
  OBVIOUS
<1>2. CASE h.dead = "no" /\ Valid(h, request) /\ Splits(h, request, new_size)
  <2>1. PICK h1 : Cut(h, request, new_size, h1)
    BY <1>2, CutIs
  <2>2. PICK h2 : h2 = Set(h1, request, "is_free", FALSE)
    OBVIOUS
  <2>3. PICK h3 : h3 = Set(h2, request, "size", new_size)
    OBVIOUS
  <2>4. PICK h4 : h4 = Relisted(h3, request)
    OBVIOUS
  <2>5. Later(h, h1)
    BY <2>1 DEF Later, Fine, Cut
  <2>6. Later(h1, h2) /\ IsHeap(h2)
    BY <2>1, <2>2, SetLater DEF Later, Cut
  <2>7. Later(h2, h3) /\ IsHeap(h3)
    BY <2>3, <2>6, SetLater DEF Later
  <2>8. Later(h3, h4) /\ IsHeap(h4)
    BY <2>4, <2>7, RelistedLater DEF Later
  <2>9. Later(h4, HeapListInsert(h4, new_block))
    BY <2>8, InsertLater
  <2>10. Later(h, h3)
    BY <2>5, <2>6, <2>7, LaterTransitive
  <2>11. Later(h, HeapListInsert(h4, new_block))
    BY <2>8, <2>9, <2>10, LaterTransitive
  <2> QED BY <1>1, <2>1, <2>2, <2>3, <2>4, <2>11 DEF Cut
<1>3. CASE h.dead # "no"
  BY <1>3, LaterReflexive DEF split
<1>4. CASE h.dead = "no" /\ ~Valid(h, request)
  <2>1. split(h, request, new_size) = Dead(h, "cookie")
    BY <1>4 DEF split
  <2> QED BY <2>1, DeadLater
<1>5. CASE h.dead = "no" /\ Valid(h, request) /\ ~Splits(h, request, new_size)
  <2>1. split(h, request, new_size) = Taken(h, request)
    BY <1>5 DEF split
  <2> QED BY <2>1, TakenLater
<1> QED BY <1>2, <1>3, <1>4, <1>5

-----------------------------------------------------------------------------
(* The counters                                                            *)

FreeOf(h) == {a \in BlocksOf(h) : IsFree(h, a)}
AllOf(h) == BlocksOf(h) \cup Maps(h)

(* The counters of g are off by what those of h are off.                   *)
Even(h, g) ==
  /\ g.num_free_blocks - Cardinality(FreeOf(g)) = h.num_free_blocks - Cardinality(FreeOf(h))
  /\ g.num_free_bytes - Cardinality(Bytes(g, FreeOf(g)))
       = h.num_free_bytes - Cardinality(Bytes(h, FreeOf(h)))
  /\ g.num_allocated_blocks - Cardinality(AllOf(g)) = h.num_allocated_blocks - Cardinality(AllOf(h))
  /\ g.num_allocated_bytes - Cardinality(Bytes(g, AllOf(g)))
       = h.num_allocated_bytes - Cardinality(Bytes(h, AllOf(h)))
  /\ g.num_meta_data_bytes - Cardinality(AllOf(g)) = h.num_meta_data_bytes - Cardinality(AllOf(h))

LEMMA EvenReflexive ==
  ASSUME NEW h
  PROVE  Even(h, h)
  BY DEF Even

LEMMA EvenTransitive ==
  ASSUME NEW h, NEW g, NEW k, Even(h, g), Even(g, k)
  PROVE  Even(h, k)
  BY DEF Even

LEMMA EvenSymmetric ==
  ASSUME NEW h, NEW g, Even(h, g)
  PROVE  Even(g, h)
  BY DEF Even

LEMMA MapsIn ==
  ASSUME NEW h, Good(h), NEW a \in Maps(h)
  PROVE  /\ a \in MapCells /\ a \in Cells /\ a \in Nat /\ a > HeapMax /\ Valid(h, a)
         /\ ~IsFree(h, a) /\ Size(h, a) \in Nat
         /\ Size(h, a) >= MMAP_THRESHOLD /\ Size(h, a) <= SIZE_LIMIT
         /\ a + Size(h, a) \in Cells
<1>1. a \in MapCells /\ h.mem[a] # Unmapped
  BY MapsAre
<1>2. a \in Cells /\ a \in Nat /\ a > HeapMax
  BY <1>1, MapCellsAre
<1>3. /\ Valid(h, a) /\ ~IsFree(h, a)
      /\ Size(h, a) >= MMAP_THRESHOLD /\ Size(h, a) <= SIZE_LIMIT
  BY <1>1 DEF Good, MapsOK
<1>4. Size(h, a) \in Nat
  BY <1>3, HeaderSizes DEF Good
<1>5. PICK k \in 1..MmapMax : a = MmapAddress(k)
  BY <1>1 DEF MapCells
<1>6. a + SIZE_LIMIT \in Cells
  BY <1>5, MapsApart
<1>7. a + Size(h, a) \in Cells
  BY <1>2, <1>3, <1>4, <1>6, Constants DEF Cells
<1> QED BY <1>1, <1>2, <1>3, <1>4, <1>7

(* The blocks of S are n, with m bytes.                                    *)
Tally(h, S, n, m) ==
  /\ IsFiniteSet(S) /\ n = Cardinality(S) /\ n \in Nat
  /\ IsFiniteSet(Bytes(h, S)) /\ m = Cardinality(Bytes(h, S)) /\ m \in Nat

LEMMA SizesAre ==
  ASSUME NEW h, Good(h), NEW a \in AllOf(h)
  PROVE  /\ a \in Cells /\ Size(h, a) \in Nat /\ Size(h, a) <= LastCell
         /\ IsFree(h, a) \in BOOLEAN
<1>1. CASE a \in BlocksOf(h)
  <2>1. /\ a \in Cells /\ a > 0 /\ a \in Nat /\ Size(h, a) \in Nat /\ IsFree(h, a) \in BOOLEAN
        /\ After(h, a) = a + Size(h, a) + 1 /\ After(h, a) <= h.brk
        /\ h.brk \in Nat /\ h.brk <= HeapMax + 1
    BY <1>1, BlocksIn
  <2> QED BY <2>1, Constants
<1>2. CASE a \in Maps(h)
  <2>1. a \in Cells /\ a \in Nat /\ Valid(h, a) /\ Size(h, a) \in Nat /\ a + Size(h, a) \in Cells
    BY <1>2, MapsIn
  <2>2. IsFree(h, a) \in BOOLEAN
    BY <2>1, HeaderSizes DEF Good
  <2>3. Size(h, a) <= LastCell
    BY <2>1, Constants DEF Cells
  <2> QED BY <2>1, <2>2, <2>3
<1> QED BY <1>1, <1>2 DEF AllOf

LEMMA Tallies ==
  ASSUME NEW h, Good(h), NEW S, \A a \in S : a \in AllOf(h)
  PROVE  \E n, m : Tally(h, S, n, m)
<1>1. IsFiniteSet(Cells) /\ IsFiniteSet(1..LastCell)
  BY Constants, FS_Interval DEF Cells
<1>2. IsFiniteSet(Cells \X (1..LastCell))
  BY <1>1, FS_Product
<1>3. S \in SUBSET Cells
  BY SizesAre
<1>4. ASSUME NEW a \in S PROVE {a} \X (1..Size(h, a)) \subseteq Cells \X (1..LastCell)
  <2>1. a \in Cells /\ Size(h, a) \in Nat /\ Size(h, a) <= LastCell /\ LastCell \in Nat
    BY SizesAre, Constants
  <2>2. 1..Size(h, a) \subseteq 1..LastCell
    BY <2>1
  <2> QED BY <2>1, <2>2
<1>5. Bytes(h, S) \in SUBSET (Cells \X (1..LastCell))
  BY <1>4 DEF Bytes
<1> QED BY <1>1, <1>2, <1>3, <1>5, FS_Subset, FS_CardinalityType DEF Tally

(* One block more                                                          *)
LEMMA TallyWith ==
  ASSUME NEW h, NEW S, NEW n, NEW m, Tally(h, S, n, m), NEW a, a \notin S, NEW s \in Nat, s = Size(h, a)
  PROVE  Tally(h, S \cup {a}, n + 1, m + s)
<1> DEFINE B == Bytes(h, S)
           C == {a} \X (1..s)
<1>1. IsFiniteSet(S) /\ n = Cardinality(S) /\ n \in Nat /\ IsFiniteSet(B) /\ m = Cardinality(B) /\ m \in Nat
  BY DEF Tally
<1>2. IsFiniteSet(C) /\ Cardinality(C) = s
  <2>0. s \in Int /\ 1 \in Int
    OBVIOUS
  <2>1. /\ IsFiniteSet(1..s)
        /\ Cardinality(1..s) = IF 1 > s THEN 0 ELSE s - 1 + 1
    BY <2>0, FS_Interval
  <2>2. Cardinality(1..s) = s
    BY <2>1
  <2>3. IsFiniteSet({a}) /\ Cardinality({a}) = 1
    BY FS_Singleton
  <2>4. IsFiniteSet(C) /\ Cardinality(C) = 1 * s
    BY <2>1, <2>2, <2>3, FS_Product
  <2> QED BY <2>4
<1>3. B \cap C = {}
  BY DEF Bytes
<1>4. Bytes(h, S \cup {a}) = B \cup C
  BY DEF Bytes
<1> HIDE DEF B, C
<1>5. IsFiniteSet(B \cup C) /\ Cardinality(B \cup C) = Cardinality(B) + Cardinality(C) - Cardinality({})
  BY <1>1, <1>2, <1>3, FS_Union
<1>6. Cardinality({}) = 0
  BY FS_EmptySet
<1>7. Cardinality(B \cup C) = m + s
  BY <1>1, <1>2, <1>5, <1>6
<1>8. IsFiniteSet(S \cup {a}) /\ Cardinality(S \cup {a}) = n + 1
  BY <1>1, FS_AddElement
<1>9. n + 1 \in Nat /\ m + s \in Nat
  BY <1>1
<1>10. IsFiniteSet(Bytes(h, S \cup {a})) /\ Cardinality(Bytes(h, S \cup {a})) = m + s
  BY <1>4, <1>5, <1>7
<1> QED BY <1>8, <1>9, <1>10 DEF Tally

(* Blocks that keep their sizes have the bytes they had.                   *)
LEMMA TallySame ==
  ASSUME NEW h, NEW S, NEW n, NEW m, Tally(h, S, n, m), NEW g, \A a \in S : Size(g, a) = Size(h, a)
  PROVE  Tally(g, S, n, m)
<1>1. \A a \in S : {a} \X (1..Size(g, a)) = {a} \X (1..Size(h, a))
  OBVIOUS
<1>2. Bytes(g, S) = Bytes(h, S)
  BY <1>1 DEF Bytes
<1> QED BY <1>2 DEF Tally

(* The counters go along with what they count.                             *)
LEMMA EvenIs ==
  ASSUME NEW h, NEW g, Typed(h),
         NEW fn, NEW fm, NEW an, NEW am, Tally(h, FreeOf(h), fn, fm), Tally(h, AllOf(h), an, am),
         NEW fk, NEW fl, NEW ak, NEW al, Tally(g, FreeOf(g), fk, fl), Tally(g, AllOf(g), ak, al),
         g.num_free_blocks = h.num_free_blocks + (fk - fn),
         g.num_free_bytes = h.num_free_bytes + (fl - fm),
         g.num_allocated_blocks = h.num_allocated_blocks + (ak - an),
         g.num_allocated_bytes = h.num_allocated_bytes + (al - am),
         g.num_meta_data_bytes = h.num_meta_data_bytes + (ak - an)
  PROVE  Even(h, g)
<1>1. /\ fn = Cardinality(FreeOf(h)) /\ fm = Cardinality(Bytes(h, FreeOf(h)))
      /\ an = Cardinality(AllOf(h)) /\ am = Cardinality(Bytes(h, AllOf(h)))
      /\ fk = Cardinality(FreeOf(g)) /\ fl = Cardinality(Bytes(g, FreeOf(g)))
      /\ ak = Cardinality(AllOf(g)) /\ al = Cardinality(Bytes(g, AllOf(g)))
  BY DEF Tally
<1>2. /\ fn \in Nat /\ fm \in Nat /\ an \in Nat /\ am \in Nat
      /\ fk \in Nat /\ fl \in Nat /\ ak \in Nat /\ al \in Nat
  BY DEF Tally
<1>3. Counters(h)
  BY DEF Typed
<1>4. /\ g.num_free_blocks - fk = h.num_free_blocks - fn
      /\ g.num_free_bytes - fl = h.num_free_bytes - fm
      /\ g.num_allocated_blocks - ak = h.num_allocated_blocks - an
      /\ g.num_allocated_bytes - al = h.num_allocated_bytes - am
      /\ g.num_meta_data_bytes - ak = h.num_meta_data_bytes - an
  BY <1>2, <1>3 DEF Counters
<1> QED BY <1>1, <1>4 DEF Even

(* Nothing that is counted changes.                                        *)
LEMMA EvenSame ==
  ASSUME NEW h, NEW g, SameCounters(h, g), AllOf(g) = AllOf(h), FreeOf(g) = FreeOf(h),
         \A a \in AllOf(h) : Size(g, a) = Size(h, a)
  PROVE  Even(h, g)
<1>1. ASSUME NEW S, \A a \in S : a \in AllOf(h) PROVE Bytes(g, S) = Bytes(h, S)
  <2>1. \A a \in S : {a} \X (1..Size(g, a)) = {a} \X (1..Size(h, a))
    BY <1>1
  <2> QED BY <2>1 DEF Bytes
<1>2. Bytes(g, AllOf(h)) = Bytes(h, AllOf(h)) /\ Bytes(g, FreeOf(h)) = Bytes(h, FreeOf(h))
  BY <1>1 DEF AllOf, FreeOf
<1> QED BY <1>2 DEF Even, SameCounters

LEMMA EvenLinks ==
  ASSUME NEW h, Good(h), NEW g, Links(h, g), BlocksOf(g) = BlocksOf(h), Maps(g) = Maps(h)
  PROVE  Even(h, g)
<1>1. \A a \in AllOf(h) : Size(g, a) = Size(h, a) /\ IsFree(g, a) = IsFree(h, a)
  <2>1. \A a \in AllOf(h) : Valid(h, a)
    BY BlocksIn, MapsIn DEF AllOf
  <2> QED BY <2>1, ValidAlike DEF Links
<1>2. AllOf(g) = AllOf(h) /\ FreeOf(g) = FreeOf(h)
  BY <1>1 DEF AllOf, FreeOf
<1> QED BY <1>1, <1>2, EvenSame DEF Links

LEMMA TallyBoth ==
  ASSUME NEW h, NEW S, NEW n, NEW m, Tally(h, S, n, m),
         NEW T, NEW k, NEW l, Tally(h, T, k, l), \A a \in S : a \notin T
  PROVE  Tally(h, S \cup T, n + k, m + l)
<1> DEFINE A == Bytes(h, S)
           B == Bytes(h, T)
<1>1. /\ IsFiniteSet(S) /\ n = Cardinality(S) /\ n \in Nat /\ IsFiniteSet(A) /\ m = Cardinality(A)
      /\ m \in Nat
      /\ IsFiniteSet(T) /\ k = Cardinality(T) /\ k \in Nat /\ IsFiniteSet(B) /\ l = Cardinality(B)
      /\ l \in Nat
  BY DEF Tally
<1>2. S \cap T = {} /\ A \cap B = {}
  BY DEF Bytes
<1>3. Bytes(h, S \cup T) = A \cup B
  BY DEF Bytes
<1> HIDE DEF A, B
<1>4. /\ IsFiniteSet(A \cup B)
      /\ Cardinality(A \cup B) = Cardinality(A) + Cardinality(B) - Cardinality(A \cap B)
  BY <1>1, FS_Union
<1>5. /\ IsFiniteSet(S \cup T)
      /\ Cardinality(S \cup T) = Cardinality(S) + Cardinality(T) - Cardinality(S \cap T)
  BY <1>1, FS_Union
<1>6. Cardinality({}) = 0
  BY FS_EmptySet
<1>7. Cardinality(A \cup B) = m + l /\ Cardinality(S \cup T) = n + k /\ n + k \in Nat /\ m + l \in Nat
  BY <1>1, <1>2, <1>4, <1>5, <1>6
<1> QED BY <1>3, <1>4, <1>5, <1>7 DEF Tally

(* The blocks of X are an, with am bytes; those of them that are free are   *)
(* fn, with fm bytes.                                                       *)
Weighs(h, X, fn, fm, an, am) ==
  Tally(h, {a \in X : IsFree(h, a)}, fn, fm) /\ Tally(h, X, an, am)

LEMMA WeighsNone ==
  ASSUME NEW h
  PROVE  Weighs(h, {}, 0, 0, 0, 0)
<1>1. IsFiniteSet({}) /\ Cardinality({}) = 0
  BY FS_EmptySet
<1>2. Bytes(h, {}) = {} /\ {a \in {} : IsFree(h, a)} = {}
  BY DEF Bytes
<1> QED BY <1>1, <1>2 DEF Weighs, Tally

LEMMA WeighsFree ==
  ASSUME NEW h, NEW a, NEW s \in Nat, s = Size(h, a), IsFree(h, a)
  PROVE  Weighs(h, {a}, 1, s, 1, s)
<1>1. Tally(h, {}, 0, 0)
  BY WeighsNone DEF Weighs
<1>2. {} \cup {a} = {a} /\ {b \in {a} : IsFree(h, b)} = {a} /\ a \notin {}
  OBVIOUS
<1>3. Tally(h, {} \cup {a}, 0 + 1, 0 + s)
  BY <1>1, <1>2, TallyWith
<1>4. 0 + 1 = 1 /\ 0 + s = s
  OBVIOUS
<1> QED BY <1>2, <1>3, <1>4 DEF Weighs

LEMMA WeighsUsed ==
  ASSUME NEW h, NEW a, NEW s \in Nat, s = Size(h, a), ~IsFree(h, a)
  PROVE  Weighs(h, {a}, 0, 0, 1, s)
<1>1. Tally(h, {}, 0, 0)
  BY WeighsNone DEF Weighs
<1>2. {} \cup {a} = {a} /\ {b \in {a} : IsFree(h, b)} = {} /\ a \notin {}
  OBVIOUS
<1>3. Tally(h, {} \cup {a}, 0 + 1, 0 + s)
  BY <1>1, <1>2, TallyWith
<1>4. 0 + 1 = 1 /\ 0 + s = s
  OBVIOUS
<1> QED BY <1>1, <1>2, <1>3, <1>4 DEF Weighs

LEMMA WeighsBoth ==
  ASSUME NEW h, NEW X, NEW fn, NEW fm, NEW an, NEW am, Weighs(h, X, fn, fm, an, am),
         NEW Y, NEW fk, NEW fl, NEW ak, NEW al, Weighs(h, Y, fk, fl, ak, al), \A a \in X : a \notin Y
  PROVE  Weighs(h, X \cup Y, fn + fk, fm + fl, an + ak, am + al)
<1>1. PICK S, T : S = {a \in X : IsFree(h, a)} /\ T = {a \in Y : IsFree(h, a)}
  OBVIOUS
<1>2. Tally(h, S, fn, fm) /\ Tally(h, T, fk, fl) /\ Tally(h, X, an, am) /\ Tally(h, Y, ak, al)
  BY <1>1 DEF Weighs
<1>3. \A a \in S : a \notin T
  BY <1>1
<1>4. Tally(h, S \cup T, fn + fk, fm + fl) /\ Tally(h, X \cup Y, an + ak, am + al)
  BY <1>2, <1>3, TallyBoth
<1>5. S \cup T = {a \in X \cup Y : IsFree(h, a)}
  BY <1>1
<1> QED BY <1>4, <1>5 DEF Weighs

LEMMA FreeAre ==
  ASSUME NEW h, Good(h)
  PROVE  FreeOf(h) = {a \in AllOf(h) : IsFree(h, a)}
  BY MapsIn DEF FreeOf, AllOf

(* The counters go along with the blocks that come and go.                 *)
LEMMA EvenBut ==
  ASSUME NEW h, Good(h), NEW g, Good(g),
         NEW X, \A a \in X : a \in AllOf(h), NEW Y, \A a \in Y : a \in AllOf(g),
         AllOf(g) \ Y = AllOf(h) \ X,
         \A a \in AllOf(h) \ X : Size(g, a) = Size(h, a) /\ IsFree(g, a) = IsFree(h, a),
         NEW fn, NEW fm, NEW an, NEW am, Weighs(h, X, fn, fm, an, am),
         NEW fk, NEW fl, NEW ak, NEW al, Weighs(g, Y, fk, fl, ak, al),
         g.num_free_blocks = h.num_free_blocks + (fk - fn),
         g.num_free_bytes = h.num_free_bytes + (fl - fm),
         g.num_allocated_blocks = h.num_allocated_blocks + (ak - an),
         g.num_allocated_bytes = h.num_allocated_bytes + (al - am),
         g.num_meta_data_bytes = h.num_meta_data_bytes + (ak - an)
  PROVE  Even(h, g)
<1>1. PICK R, Q : R = AllOf(h) \ X /\ Q = {a \in R : IsFree(h, a)}
  OBVIOUS
<1>2. R = AllOf(g) \ Y /\ Q = {a \in R : IsFree(g, a)}
  BY <1>1
<1>3. /\ \A a \in R : a \in AllOf(h) /\ a \notin X /\ a \notin Y /\ Size(g, a) = Size(h, a)
      /\ \A a \in Q : a \in AllOf(h) /\ a \notin X /\ a \notin Y /\ Size(g, a) = Size(h, a)
  BY <1>1, <1>2
<1>4. PICK rn, rm : Tally(h, R, rn, rm)
  BY <1>3, Tallies
<1>5. PICK qn, qm : Tally(h, Q, qn, qm)
  BY <1>3, Tallies
<1>6. Tally(g, R, rn, rm) /\ Tally(g, Q, qn, qm)
  BY <1>3, <1>4, <1>5, TallySame
<1>7. Weighs(h, R, qn, qm, rn, rm) /\ Weighs(g, R, qn, qm, rn, rm)
  BY <1>1, <1>2, <1>4, <1>5, <1>6 DEF Weighs
<1>8. /\ Weighs(h, R \cup X, qn + fn, qm + fm, rn + an, rm + am)
      /\ Weighs(g, R \cup Y, qn + fk, qm + fl, rn + ak, rm + al)
  BY <1>3, <1>7, WeighsBoth
<1>9. R \cup X = AllOf(h) /\ R \cup Y = AllOf(g)
  BY <1>1, <1>2
<1>10. /\ Tally(h, FreeOf(h), qn + fn, qm + fm) /\ Tally(h, AllOf(h), rn + an, rm + am)
       /\ Tally(g, FreeOf(g), qn + fk, qm + fl) /\ Tally(g, AllOf(g), rn + ak, rm + al)
  BY <1>8, <1>9, FreeAre DEF Weighs
<1>11. /\ qn \in Nat /\ qm \in Nat /\ rn \in Nat /\ rm \in Nat
       /\ fn \in Nat /\ fm \in Nat /\ an \in Nat /\ am \in Nat
       /\ fk \in Nat /\ fl \in Nat /\ ak \in Nat /\ al \in Nat
  BY <1>4, <1>5 DEF Weighs, Tally
<1>12. /\ (qn + fk) - (qn + fn) = fk - fn /\ (qm + fl) - (qm + fm) = fl - fm
       /\ (rn + ak) - (rn + an) = ak - an /\ (rm + al) - (rm + am) = al - am
  BY <1>11
<1>13. Typed(h)
  BY DEF Good
<1> QED BY <1>10, <1>12, <1>13, EvenIs

-----------------------------------------------------------------------------
(* What the operations make of a heap that is in order                     *)

(* The blocks of g are B, and end at the places e.                         *)
LEMMA ShapeGood ==
  ASSUME NEW h, Good(h), NEW g, Typed(g), NEW B, NEW e,
         Ends(B, e, g.firsthead, g.brk),
         \A a \in B : Valid(g, a) /\ After(g, a) = e[a],
         AlikeOn(h.mem, g.mem, MapCells),
         g.head = NULL <=> g.firsthead = NULL,
         g.firsthead # NULL => g.wilderness \in B /\ e[g.wilderness] = g.brk
  PROVE  Good(g) /\ BlocksOf(g) = B /\ Maps(g) = Maps(h)
<1>1. Ends(B, [a \in B |-> After(g, a)], g.firsthead, g.brk)
  BY DEF Ends
<1>2. Chain(g, B)
  BY <1>1, ChainEnds
<1> QED BY <1>2, GoodIs

(* The places where the blocks of a heap end                               *)
LEMMA GoodEnds ==
  ASSUME NEW h, Good(h)
  PROVE  /\ Ends(BlocksOf(h), [a \in BlocksOf(h) |-> After(h, a)], h.firsthead, h.brk)
         /\ Typed(h) /\ IsHeap(h) /\ h.mem \in [Cells -> Cell] /\ h.brk \in Nat /\ h.brk > 0
         /\ h.brk <= HeapMax + 1
         /\ (h.head = NULL <=> h.firsthead = NULL)
         /\ h.firsthead # NULL => h.wilderness \in BlocksOf(h) /\ After(h, h.wilderness) = h.brk
<1>1. PICK B : B = BlocksOf(h)
  OBVIOUS
<1>2. Typed(h) /\ Chain(h, B)
  BY <1>1 DEF Good
<1>3. Ends(B, [a \in B |-> After(h, a)], h.firsthead, h.brk)
  BY <1>2, ChainEnds
<1> QED BY <1>1, <1>2, <1>3, Constants DEF Good, Wild, Typed

LEMMA HeaderIn ==
  ASSUME NEW size \in Nat, NEW is_free \in BOOLEAN
  PROVE  /\ Header(size, is_free) \in HeaderCell /\ Header(size, is_free) \in Cell
         /\ Header(size, is_free).size = size /\ Header(size, is_free).is_free = is_free
<1>1. NULL \in Ptr
  BY Constants DEF Ptr
<1> QED BY <1>1 DEF Header, HeaderCell, Cell

LEMMA AlikeOnLess ==
  ASSUME NEW m, NEW n, NEW S, NEW T, AlikeOn(m, n, S), \A c \in T : c \in S
  PROVE  AlikeOn(m, n, T)
  BY DEF AlikeOn

(* A block that is split, before the list is brought up to date            *)
LEMMA CutGood ==
  ASSUME NEW h, Good(h), NEW r \in BlocksOf(h), NEW n \in Nat, Splits(h, r, n),
         NEW h1, Cut(h, r, n, h1), NEW h3, NEW no \in BOOLEAN, ~no,
         h3 = Set(Set(h1, r, "is_free", no), r, "size", n),
         NEW nb, nb = r + n + MetaSize
  PROVE  /\ Good(h3) /\ BlocksOf(h3) = BlocksOf(h) \cup {nb} /\ Maps(h3) = Maps(h)
         /\ AlikeOn(h.mem, h3.mem, Cells \ {r, nb})
         /\ ~IsFree(h3, r) /\ Size(h3, r) = n
         /\ IsFree(h3, nb) /\ Size(h3, nb) = Size(h, r) - n - MetaSize
         /\ nb \notin BlocksOf(h) /\ nb \in Cells /\ nb > r /\ nb <= r + Size(h, r)
         /\ h3.brk = h.brk /\ h3.firsthead = h.firsthead /\ h3.mmhead = h.mmhead
         /\ h3.wilderness = Last(h, r, nb)
         /\ h3.dead = h.dead /\ h3.harm = h.harm
         /\ SameCounters(h1, h3)
<1>0. PICK B, e, rest :
        /\ B = BlocksOf(h) /\ e = [a \in B |-> After(h, a)]
        /\ rest = Size(h, r) - n - MetaSize
  OBVIOUS
<1>1. /\ r \in B /\ Valid(h, r) /\ r \in Cells /\ r \in Nat /\ r > 0
      /\ r <= HeapMax /\ Size(h, r) \in Nat /\ IsFree(h, r) \in BOOLEAN
      /\ After(h, r) = r + Size(h, r) + 1 /\ After(h, r) <= h.brk
      /\ h.brk \in Nat /\ h.brk <= HeapMax + 1 /\ h.firsthead # NULL
  BY <1>0, BlocksIn
<1>2. rest \in Nat /\ rest > 0
  BY <1>0, <1>1, Constants DEF Splits
<1>3. nb = r + n + 1 /\ nb \in Nat /\ r < nb /\ nb < After(h, r) /\ nb <= HeapMax /\ nb <= r + Size(h, r)
  BY <1>0, <1>1, <1>2, Constants
<1>4. nb \in Cells /\ nb \in Ptr
  BY <1>1, <1>3, Constants DEF Cells, Ptr
<1>5. /\ Ends(B, e, h.firsthead, h.brk) /\ Typed(h) /\ IsHeap(h) /\ h.mem \in [Cells -> Cell]
      /\ h.head = NULL <=> h.firsthead = NULL
      /\ h.wilderness \in B /\ After(h, h.wilderness) = h.brk
  BY <1>0, <1>1, GoodEnds
<1>6. PICK f : f = [a \in B \cup {nb} |-> IF a = nb THEN e[r] ELSE IF a = r THEN nb ELSE e[a]]
  OBVIOUS
<1>7. nb \notin B /\ Ends(B \cup {nb}, f, h.firsthead, h.brk)
  <2>1. e[r] = After(h, r)
    BY <1>0
  <2>2. Ends(B, e, h.firsthead, h.brk) /\ h.brk \in Nat /\ nb \in Nat /\ r < nb /\ nb < e[r] /\ r \in B
    BY <1>1, <1>3, <1>5, <2>1
  <2> QED BY <1>6, <2>2, EndsSplit
<1>c. PICK c : c = Header(rest, TRUE)
  OBVIOUS
<1>d. c \in HeaderCell /\ c \in Cell /\ c.size = rest /\ c.is_free
  BY <1>2, <1>c, HeaderIn
<1>8. /\ IsHeap(h1) /\ h1.mem = [h.mem EXCEPT ![nb] = c]
      /\ h1.brk = h.brk /\ h1.head = h.head /\ h1.firsthead = h.firsthead
      /\ h1.mmhead = h.mmhead /\ h1.dead = h.dead /\ h1.harm = h.harm
      /\ h1.wilderness = Last(h, r, nb)
  BY <1>0, <1>c DEF Cut
<1>9. h1.wilderness \in Ptr
  BY <1>4, <1>5, <1>8 DEF Last, Typed
<1>10. Counters(h1)
  BY <1>0, <1>1, <1>2, <1>5, Constants DEF Cut, Counters, Typed
<1>11. /\ h1.mem \in [Cells -> Cell] /\ AlikeOn(h.mem, h1.mem, Cells \ {nb})
       /\ h1.mem[nb] = c /\ h1.mem[r] = h.mem[r] /\ h.mem[r] \in HeaderCell
  <2>2. h.mem[r] \in HeaderCell
    BY <1>1, <1>5, HeaderCells
  <2> QED BY <1>1, <1>3, <1>4, <1>5, <1>8, <1>d, <2>2 DEF AlikeOn
<1>12. PICK h2 : h2 = Set(h1, r, "is_free", no)
  OBVIOUS
<1>13. Valid(h1, r)
  BY <1>1, <1>11, HeaderIs
<1>14. /\ IsHeap(h2) /\ h2.mem = Edit(h1.mem, r, "is_free", no)
       /\ SameBounds(h1, h2) /\ SameCounters(h1, h2)
       /\ h2.head = h1.head /\ h2.dead = h1.dead /\ h2.harm = h1.harm
  BY <1>8, <1>12, <1>13, SetFields
<1>15. /\ h2.mem \in [Cells -> Cell] /\ AlikeOn(h1.mem, h2.mem, Cells \ {r})
       /\ h2.mem[r] \in HeaderCell /\ h2.mem[r].is_free = no
  BY <1>1, <1>11, <1>14, FreeEdit
<1>16. Valid(h2, r)
  BY <1>1, <1>15, HeaderIs
<1>17. /\ IsHeap(h3) /\ h3.mem = Edit(h2.mem, r, "size", n)
       /\ SameBounds(h2, h3) /\ SameCounters(h2, h3)
       /\ h3.head = h2.head /\ h3.dead = h2.dead /\ h3.harm = h2.harm
  BY <1>14, <1>12, <1>16, SetFields
<1>18. /\ h3.mem \in [Cells -> Cell] /\ AlikeOn(h2.mem, h3.mem, Cells \ {r})
       /\ h3.mem[r] \in HeaderCell /\ h3.mem[r].is_free = no /\ h3.mem[r].size = n
  <2>1. r \in Cells /\ h2.mem \in [Cells -> Cell] /\ h2.mem[r] \in HeaderCell /\ n \in Nat
    BY <1>1, <1>15
  <2>2. h3.mem = Edit(h2.mem, r, "size", n)
    BY <1>17
  <2>3. PICK m, k : m = h2.mem /\ k = Edit(m, r, "size", n)
    OBVIOUS
  <2>4. m \in [Cells -> Cell] /\ m[r] \in HeaderCell
    BY <2>1, <2>3
  <2>5. /\ k \in [Cells -> Cell] /\ AlikeOn(m, k, Cells \ {r})
        /\ k[r] \in HeaderCell /\ k[r].is_free = m[r].is_free /\ k[r].size = n
    BY <2>1, <2>3, <2>4, SizeEdit
  <2>6. h3.mem = k
    BY <2>2, <2>3
  <2> QED BY <1>15, <2>3, <2>5, <2>6
<1>19. /\ h3.brk = h.brk /\ h3.firsthead = h.firsthead /\ h3.mmhead = h.mmhead
       /\ h3.wilderness = Last(h, r, nb) /\ h3.head = h.head
       /\ h3.dead = h.dead /\ h3.harm = h.harm
  BY <1>8, <1>14, <1>17 DEF SameBounds
<1>20. Typed(h3)
  <2>1. h3.wilderness \in Ptr
    BY <1>9, <1>8, <1>19
  <2>2. Counters(h3)
    BY <1>10, <1>14, <1>17 DEF Counters, SameCounters
  <2> QED BY <1>5, <1>17, <1>18, <1>19, <2>1, <2>2 DEF Typed
<1>21. AlikeOn(h1.mem, h3.mem, Cells \ {r})
  BY <1>15, <1>18 DEF AlikeOn
<1>22. AlikeOn(h.mem, h3.mem, Cells \ {r, nb})
  BY <1>11, <1>21 DEF AlikeOn
<1>23. Valid(h3, r) /\ Size(h3, r) = n /\ ~IsFree(h3, r) /\ After(h3, r) = nb
  <2>1. Valid(h3, r) /\ Size(h3, r) = n /\ ~IsFree(h3, r)
    BY <1>1, <1>18, HeaderIs
  <2> QED BY <2>1 DEF After
<1>24. Valid(h3, nb) /\ Size(h3, nb) = rest /\ IsFree(h3, nb) /\ After(h3, nb) = After(h, r)
  <2>1. Valid(h1, nb) /\ Size(h1, nb) = rest /\ IsFree(h1, nb)
    BY <1>d, <1>4, <1>11, HeaderIs
  <2>2. nb \in Cells \ {r}
    BY <1>3, <1>4
  <2>3. Valid(h3, nb) /\ Size(h3, nb) = rest /\ IsFree(h3, nb)
    BY <1>21, <2>1, <2>2, ValidAlikeOn
  <2>4. After(h3, nb) = nb + rest + 1
    BY <2>3, Constants DEF After
  <2> QED BY <2>3, <2>4, <1>0, <1>1, <1>3, Constants
<1>25. \A a \in B \cup {nb} : Valid(h3, a) /\ After(h3, a) = f[a]
  <2>1. SUFFICES ASSUME NEW a \in B, a # r, a # nb PROVE Valid(h3, a) /\ After(h3, a) = f[a]
    BY <1>0, <1>1, <1>3, <1>6, <1>23, <1>24
  <2>2. Valid(h, a) /\ a \in Cells \ {r, nb}
    BY <1>0, <2>1, BlocksIn
  <2>3. Valid(h3, a) /\ After(h3, a) = After(h, a)
    BY <1>22, <2>2, ValidAlikeOn
  <2> QED BY <1>0, <1>6, <2>1, <2>3
<1>26. AlikeOn(h.mem, h3.mem, MapCells)
  <2>1. r \notin MapCells /\ nb \notin MapCells
    BY <1>1, <1>3, Constants, MapCellsAre
  <2> QED BY <1>22, <2>1, MapCellsAre DEF AlikeOn
<1>27. h3.wilderness \in B \cup {nb} /\ f[h3.wilderness] = h3.brk
  <2>1. CASE r = h.wilderness
    BY <2>1, <1>0, <1>1, <1>5, <1>6, <1>19 DEF Last
  <2>2. CASE r # h.wilderness
    BY <2>2, <1>0, <1>1, <1>5, <1>6, <1>7, <1>19 DEF Last
  <2> QED BY <2>1, <2>2
<1>28. Good(h3) /\ BlocksOf(h3) = B \cup {nb} /\ Maps(h3) = Maps(h)
  BY <1>5, <1>7, <1>19, <1>20, <1>25, <1>26, <1>27, ShapeGood
<1>29. SameCounters(h1, h3)
  BY <1>14, <1>17 DEF SameCounters
<1> QED BY <1>0, <1>3, <1>4, <1>7, <1>19, <1>22, <1>23, <1>24, <1>28, <1>29

LEMMA CutEven ==
  ASSUME NEW h, Good(h), NEW r \in BlocksOf(h), NEW n \in Nat, Splits(h, r, n),
         NEW h1, Cut(h, r, n, h1), NEW h3, Good(h3), SameCounters(h1, h3),
         NEW nb, nb \notin BlocksOf(h), nb \in Cells, nb # r, nb <= r + Size(h, r),
         BlocksOf(h3) = BlocksOf(h) \cup {nb}, Maps(h3) = Maps(h),
         AlikeOn(h.mem, h3.mem, Cells \ {r, nb}),
         ~IsFree(h3, r), Size(h3, r) = n, IsFree(h3, nb), Size(h3, nb) = Size(h, r) - n - MetaSize
  PROVE  Even(h, h3)
<1>1. /\ Size(h, r) \in Nat /\ r \in Nat /\ r <= HeapMax /\ IsFree(h, r) \in BOOLEAN
      /\ After(h, r) = r + Size(h, r) + 1 /\ After(h, r) <= h.brk
      /\ h.brk \in Nat /\ h.brk <= HeapMax + 1
  BY BlocksIn
<1>2. PICK s, rest : s = Size(h, r) /\ rest = Size(h, r) - n - MetaSize
  OBVIOUS
<1>3. s \in Nat /\ rest \in Nat /\ s = n + rest + 1 /\ MetaSize = 1
  BY <1>1, <1>2, Constants DEF Splits
<1>4. nb \notin AllOf(h) /\ r \in AllOf(h)
  <2>1. nb <= HeapMax
    BY <1>1, Constants DEF Cells
  <2>2. \A a \in Maps(h) : a \in Nat /\ a > HeapMax
    BY MapsIn
  <2>3. nb \in Nat
    BY Constants DEF Cells
  <2> QED BY <2>1, <2>2, <2>3, Constants DEF AllOf
<1>5. AllOf(h3) = AllOf(h) \cup {nb}
  BY DEF AllOf
<1>6. PICK X, Y : X = {r} /\ Y = {r} \cup {nb}
  OBVIOUS
<1>7. /\ \A a \in X : a \in AllOf(h)
      /\ \A a \in Y : a \in AllOf(h3)
      /\ AllOf(h3) \ Y = AllOf(h) \ X
  BY <1>4, <1>5, <1>6
<1>8. \A a \in AllOf(h) \ X : Size(h3, a) = Size(h, a) /\ IsFree(h3, a) = IsFree(h, a)
  <2>1. \A a \in AllOf(h) \ X : Valid(h, a) /\ a \in Cells \ {r, nb}
    BY <1>4, <1>6, BlocksIn, MapsIn DEF AllOf
  <2> QED BY <2>1, ValidAlikeOn
<1>9. Weighs(h3, Y, 0 + 1, 0 + rest, 1 + 1, n + rest)
  <2>1. Weighs(h3, {r}, 0, 0, 1, n)
    BY WeighsUsed
  <2>2. Size(h3, nb) = rest
    BY <1>2
  <2>3. Weighs(h3, {nb}, 1, rest, 1, rest)
    BY <1>3, <2>2, WeighsFree
  <2>4. \A a \in {r} : a \notin {nb}
    OBVIOUS
  <2> QED BY <1>6, <2>1, <2>3, <2>4, WeighsBoth
<1>10. Counters(h)
  BY DEF Good, Typed
<1>11. /\ h3.num_allocated_blocks = h.num_allocated_blocks + 1
       /\ h3.num_allocated_bytes = h.num_allocated_bytes - 1
       /\ h3.num_meta_data_bytes = h.num_meta_data_bytes + 1
  BY <1>3 DEF Cut, SameCounters
<1>12. CASE IsFree(h, r)
  <2>1. Weighs(h, X, 1, s, 1, s)
    BY <1>2, <1>3, <1>6, <1>12, WeighsFree
  <2>2. /\ h3.num_free_blocks = h.num_free_blocks
        /\ h3.num_free_bytes = h.num_free_bytes - (n + 1)
    BY <1>3, <1>12 DEF Cut, SameCounters
  <2>3. /\ h3.num_free_blocks = h.num_free_blocks + ((0 + 1) - 1)
        /\ h3.num_free_bytes = h.num_free_bytes + ((0 + rest) - s)
        /\ h3.num_allocated_blocks = h.num_allocated_blocks + ((1 + 1) - 1)
        /\ h3.num_allocated_bytes = h.num_allocated_bytes + ((n + rest) - s)
        /\ h3.num_meta_data_bytes = h.num_meta_data_bytes + ((1 + 1) - 1)
    BY <1>3, <1>10, <1>11, <2>2 DEF Counters
  <2> QED BY <1>7, <1>8, <1>9, <2>1, <2>3, EvenBut
<1>13. CASE ~IsFree(h, r)
  <2>1. Weighs(h, X, 0, 0, 1, s)
    BY <1>2, <1>3, <1>6, <1>13, WeighsUsed
  <2>2. /\ h3.num_free_blocks = h.num_free_blocks + 1
        /\ h3.num_free_bytes = h.num_free_bytes + rest
    BY <1>2, <1>13 DEF Cut, SameCounters
  <2>3. /\ h3.num_free_blocks = h.num_free_blocks + ((0 + 1) - 0)
        /\ h3.num_free_bytes = h.num_free_bytes + ((0 + rest) - 0)
        /\ h3.num_allocated_blocks = h.num_allocated_blocks + ((1 + 1) - 1)
        /\ h3.num_allocated_bytes = h.num_allocated_bytes + ((n + rest) - s)
        /\ h3.num_meta_data_bytes = h.num_meta_data_bytes + ((1 + 1) - 1)
    BY <1>3, <1>10, <1>11, <2>2 DEF Counters
  <2> QED BY <1>7, <1>8, <1>9, <2>1, <2>3, EvenBut
<1> QED BY <1>1, <1>12, <1>13

(* split, when there is enough to split: the rest is a block of its own.    *)
WasSplit(h, g, r, n, nb) ==
  /\ Good(g) /\ BlocksOf(g) = BlocksOf(h) \cup {nb} /\ Maps(g) = Maps(h)
  /\ AlikeOn(h.mem, g.mem, Cells \ {r, nb})
  /\ ~IsFree(g, r) /\ Size(g, r) = n
  /\ IsFree(g, nb) /\ Size(g, nb) = Size(h, r) - n - MetaSize
  /\ nb \notin BlocksOf(h) /\ nb \in Cells /\ nb > r /\ nb <= r + Size(h, r)
  /\ g.brk = h.brk /\ g.firsthead = h.firsthead /\ g.mmhead = h.mmhead
  /\ g.wilderness = Last(h, r, nb)
  /\ Even(h, g)

LEMMA SplitGood ==
  ASSUME NEW h, Good(h), NEW r \in BlocksOf(h), NEW n \in Nat, Splits(h, r, n),
         Fine(split(h, r, n))
  PROVE  \E nb : nb = r + n + MetaSize /\ WasSplit(h, split(h, r, n), r, n, nb)
<1>0. PICK g, nb : g = split(h, r, n) /\ nb = r + n + MetaSize
  OBVIOUS
<1>1. Valid(h, r) /\ IsHeap(h) /\ Fine(h) /\ h.dead = "no" /\ h.firsthead # NULL
  BY BlocksIn, GoodEnds, SplitLater DEF Later, Fine
<1>2. PICK h1 : Cut(h, r, n, h1)
  BY <1>1, CutIs
<1>3. PICK no \in BOOLEAN : ~no
  OBVIOUS
<1>4. PICK h3 : h3 = Set(Set(h1, r, "is_free", no), r, "size", n)
  OBVIOUS
<1>5. g = HeapListInsert(Relisted(h3, r), nb)
  <2>1. h3 = Set(Set(h1, r, "is_free", FALSE), r, "size", n)
    BY <1>3, <1>4, Zenon
  <2> QED BY <1>0, <1>2, <2>1, Zenon DEF Cut
<1>6. /\ Good(h3) /\ BlocksOf(h3) = BlocksOf(h) \cup {nb} /\ Maps(h3) = Maps(h)
      /\ AlikeOn(h.mem, h3.mem, Cells \ {r, nb})
      /\ ~IsFree(h3, r) /\ Size(h3, r) = n
      /\ IsFree(h3, nb) /\ Size(h3, nb) = Size(h, r) - n - MetaSize
      /\ nb \notin BlocksOf(h) /\ nb \in Cells /\ nb > r /\ nb <= r + Size(h, r)
      /\ h3.brk = h.brk /\ h3.firsthead = h.firsthead /\ h3.mmhead = h.mmhead
      /\ h3.wilderness = Last(h, r, nb) /\ SameCounters(h1, h3)
  <2>1. nb = r + n + MetaSize /\ h3 = Set(Set(h1, r, "is_free", no), r, "size", n) /\ ~no /\ Cut(h, r, n, h1)
    BY <1>0, <1>2, <1>3, <1>4
  <2> QED BY <2>1, CutGood
<1>7. ListStep(h3, g) /\ g.head # NULL
  <2>1. PICK k : k = Relisted(h3, r)
    OBVIOUS
  <2>2. Typed(h3) /\ r \in Ptr /\ nb \in Ptr
    BY <1>1, <1>6, HeaderCells, Constants DEF Good, Typed, Cells, Ptr
  <2>3. ListStep(h3, k) /\ Typed(k)
    BY <2>1, <2>2, RelistedList DEF ListStep, Links
  <2>4. ListStep(k, g) /\ g.head # NULL
    BY <1>0, <1>5, <2>1, <2>2, <2>3, InsertList
  <2> QED BY <2>3, <2>4, ListStepTransitive
<1>8. Links(h3, g) /\ Alike(h3.mem, g.mem) /\ SameBounds(h3, g)
  BY <1>7 DEF ListStep, Links
<1>9. g.firsthead # NULL
  BY <1>1, <1>6, <1>8 DEF SameBounds
<1>10. Good(g) /\ BlocksOf(g) = BlocksOf(h3) /\ Maps(g) = Maps(h3)
  BY <1>6, <1>7, <1>8, <1>9, LinksGood
<1>11. AlikeOn(h.mem, g.mem, Cells \ {r, nb})
  BY <1>6, <1>8 DEF Alike, AlikeOn
<1>12. Valid(h3, r) /\ Valid(h3, nb)
  BY <1>6, BlocksIn
<1>13. /\ Size(g, r) = Size(h3, r) /\ IsFree(g, r) = IsFree(h3, r)
       /\ Size(g, nb) = Size(h3, nb) /\ IsFree(g, nb) = IsFree(h3, nb)
  BY <1>8, <1>12, ValidAlike
<1>14. Even(h, g)
  <2>1. nb # r
    BY <1>6
  <2>2. Even(h, h3)
    BY <1>2, <1>6, <2>1, CutEven
  <2>3. Even(h3, g)
    BY <1>6, <1>8, <1>10, EvenLinks
  <2> QED BY <2>2, <2>3, EvenTransitive
<1>15. WasSplit(h, g, r, n, nb)
  BY <1>6, <1>8, <1>10, <1>11, <1>13, <1>14 DEF SameBounds, WasSplit
<1> QED BY <1>0, <1>15

(* A header and what is behind it                                           *)
Extent(h, a) == a..(a + Size(h, a))

(* The regions of S are in use in h and in g, and as they were; the         *)
(* counters have gone along.                                                *)
Keeps(h, g, S) ==
  /\ Even(h, g)
  /\ \A b \in S :
       /\ b \in Used(h) /\ b \in Used(g) /\ Size(g, b) = Size(h, b)
       /\ \A c \in (b + 1)..(b + Size(h, b)) : h.mem[c].tag # "header" => g.mem[c] = h.mem[c]

LEMMA KeepsTransitive ==
  ASSUME NEW h, NEW g, NEW k, NEW S, Keeps(h, g, S), Keeps(g, k, S)
  PROVE  Keeps(h, k, S)
  BY EvenTransitive DEF Keeps

LEMMA KeepsLess ==
  ASSUME NEW h, NEW g, NEW S, NEW T, Keeps(h, g, S), \A b \in T : b \in S
  PROVE  Keeps(h, g, T)
  BY DEF Keeps

LEMMA KeepsReflexive ==
  ASSUME NEW h
  PROVE  Keeps(h, h, Used(h))
  BY EvenReflexive DEF Keeps

LEMMA ExtentIn ==
  ASSUME NEW h, Good(h), NEW a \in BlocksOf(h) \cup Maps(h)
  PROVE  /\ Valid(h, a) /\ a \in Nat /\ a > 0 /\ Size(h, a) \in Nat /\ a \in Cells
         /\ \A c \in Extent(h, a) : c \in Cells
<1>1. CASE a \in BlocksOf(h)
  BY <1>1, BlocksIn, Constants DEF Extent, Cells
<1>2. CASE a \in Maps(h)
  BY <1>2, MapsIn, Constants DEF Extent, Cells
<1> QED BY <1>1, <1>2

(* Blocks and mappings lie apart.                                           *)
LEMMA Apart ==
  ASSUME NEW h, Good(h), NEW a \in BlocksOf(h) \cup Maps(h), NEW b \in BlocksOf(h) \cup Maps(h),
         a # b, NEW c \in Extent(h, a)
  PROVE  c \notin Extent(h, b)
<1>1. /\ a \in Nat /\ b \in Nat /\ Size(h, a) \in Nat /\ Size(h, b) \in Nat
      /\ c >= a /\ c <= a + Size(h, a) /\ c \in Int
  BY ExtentIn DEF Extent
<1>2. ASSUME NEW x \in BlocksOf(h), NEW y \in BlocksOf(h), x < y
      PROVE  x + Size(h, x) < y
  <2>1. After(h, x) <= y
    BY <1>2 DEF Good, Chain
  <2> QED BY <2>1, BlocksIn
<1>3. ASSUME NEW x \in BlocksOf(h), NEW y \in Maps(h)
      PROVE  x + Size(h, x) < y
  BY BlocksIn, MapsIn, Constants
<1>4. ASSUME NEW x \in Maps(h), NEW y \in Maps(h), x # y
      PROVE  x + Size(h, x) < y \/ y + Size(h, y) < x
  <2>1. PICK j \in 1..MmapMax, k \in 1..MmapMax : x = MmapAddress(j) /\ y = MmapAddress(k)
    BY MapsIn DEF MapCells
  <2>2. j # k
    BY <1>4, <2>1
  <2>3. x + SIZE_LIMIT < y \/ y + SIZE_LIMIT < x
    BY <2>1, <2>2, MapsApart
  <2> QED BY <2>3, MapsIn, Constants
<1>5. a + Size(h, a) < b \/ b + Size(h, b) < a
  <2>1. CASE a \in BlocksOf(h) /\ b \in BlocksOf(h)
    <3>1. a < b \/ b < a
      BY <1>1
    <3> QED BY <1>2, <2>1, <3>1
  <2>2. CASE a \in BlocksOf(h) /\ b \in Maps(h)
    BY <1>3, <2>2
  <2>3. CASE a \in Maps(h) /\ b \in BlocksOf(h)
    BY <1>3, <2>3
  <2>4. CASE a \in Maps(h) /\ b \in Maps(h)
    BY <1>4, <2>4
  <2> QED BY <2>1, <2>2, <2>3, <2>4
<1> QED BY <1>1, <1>5 DEF Extent

(* What lies apart from what is touched is kept.                            *)
LEMMA Untouched ==
  ASSUME NEW h, Good(h), NEW g, Even(h, g), NEW R, AlikeOn(h.mem, g.mem, Cells \ R),
         NEW S, \A b \in S : b \in Used(h) /\ b \in BlocksOf(g) \cup Maps(g),
         \A b \in S : \A c \in Extent(h, b) : c \notin R
  PROVE  Keeps(h, g, S)
<1> SUFFICES ASSUME NEW b \in S
             PROVE  /\ b \in Used(h) /\ b \in Used(g) /\ Size(g, b) = Size(h, b)
                    /\ \A c \in (b + 1)..(b + Size(h, b)) :
                         h.mem[c].tag # "header" => g.mem[c] = h.mem[c]
  BY DEF Keeps
<1>1. b \in BlocksOf(h) \cup Maps(h) /\ ~IsFree(h, b) /\ b \in BlocksOf(g) \cup Maps(g)
  BY DEF Used
<1>2. /\ Valid(h, b) /\ b \in Nat /\ Size(h, b) \in Nat
      /\ \A c \in Extent(h, b) : c \in Cells
  BY <1>1, ExtentIn
<1>3. \A c \in Extent(h, b) : c \in Cells \ R
  BY <1>2
<1>4. b \in Cells \ R /\ \A c \in (b + 1)..(b + Size(h, b)) : c \in Cells \ R
  BY <1>2, <1>3 DEF Extent
<1>5. Size(g, b) = Size(h, b) /\ IsFree(g, b) = IsFree(h, b)
  <2>1. PICK T : T = Cells \ R
    OBVIOUS
  <2>2. T \subseteq Cells /\ AlikeOn(h.mem, g.mem, T) /\ b \in T /\ Valid(h, b)
    BY <1>2, <1>4, <2>1
  <2> QED BY <2>2, ValidAlikeOn
<1>6. \A c \in Cells \ R : h.mem[c].tag # "header" => g.mem[c] = h.mem[c]
  BY DEF AlikeOn
<1> QED BY <1>1, <1>4, <1>5, <1>6 DEF Used

(* Only the mark of block b changes, and the counters.                      *)
Marked(h, g, b) ==
  /\ Good(g) /\ BlocksOf(g) = BlocksOf(h) /\ Maps(g) = Maps(h)
  /\ AlikeOn(h.mem, g.mem, Cells \ {b})
  /\ Valid(g, b) /\ Size(g, b) = Size(h, b)
  /\ SameBounds(h, g)

LEMMA MarkedOthers ==
  ASSUME NEW h, Good(h), NEW g, NEW b \in BlocksOf(h), Marked(h, g, b)
  PROVE  /\ Good(g) /\ AllOf(g) = AllOf(h) /\ b \in AllOf(h)
         /\ \A a \in AllOf(h) \ {b} : Size(g, a) = Size(h, a) /\ IsFree(g, a) = IsFree(h, a)
<1>1. \A a \in AllOf(h) \ {b} : Valid(h, a) /\ a \in Cells \ {b}
  BY BlocksIn, MapsIn DEF AllOf
<1>2. AlikeOn(h.mem, g.mem, Cells \ {b})
  BY DEF Marked
<1> QED BY <1>1, <1>2, ValidAlikeOn DEF Marked, AllOf

(* A mark that is set and counted                                           *)
LEMMA TakenEven ==
  ASSUME NEW h, Good(h), NEW g, NEW b \in BlocksOf(h), Marked(h, g, b), IsFree(h, b), ~IsFree(g, b),
         g.num_free_blocks = h.num_free_blocks - 1,
         g.num_free_bytes = h.num_free_bytes - Size(h, b),
         g.num_allocated_blocks = h.num_allocated_blocks,
         g.num_allocated_bytes = h.num_allocated_bytes,
         g.num_meta_data_bytes = h.num_meta_data_bytes
  PROVE  Even(h, g)
<1>1. PICK s, X : s = Size(h, b) /\ X = {b}
  OBVIOUS
<1>2. s \in Nat /\ Size(g, b) = s
  BY <1>1, BlocksIn DEF Marked
<1>3. Weighs(h, X, 1, s, 1, s) /\ Weighs(g, X, 0, 0, 1, s)
  BY <1>1, <1>2, WeighsFree, WeighsUsed
<1>4. Counters(h)
  BY DEF Good, Typed
<1>5. /\ g.num_free_blocks = h.num_free_blocks + (0 - 1)
      /\ g.num_free_bytes = h.num_free_bytes + (0 - s)
      /\ g.num_allocated_blocks = h.num_allocated_blocks + (1 - 1)
      /\ g.num_allocated_bytes = h.num_allocated_bytes + (s - s)
      /\ g.num_meta_data_bytes = h.num_meta_data_bytes + (1 - 1)
  BY <1>1, <1>2, <1>4 DEF Counters
<1>6. /\ Good(g) /\ AllOf(g) \ X = AllOf(h) \ X
      /\ \A a \in X : a \in AllOf(h) /\ a \in AllOf(g)
      /\ \A a \in AllOf(h) \ X : Size(g, a) = Size(h, a) /\ IsFree(g, a) = IsFree(h, a)
  BY <1>1, MarkedOthers
<1> QED BY <1>3, <1>5, <1>6, EvenBut

LEMMA FreedEven ==
  ASSUME NEW h, Good(h), NEW g, NEW b \in BlocksOf(h), Marked(h, g, b), ~IsFree(h, b), IsFree(g, b),
         g.num_free_blocks = h.num_free_blocks + 1,
         g.num_free_bytes = h.num_free_bytes + Size(h, b),
         g.num_allocated_blocks = h.num_allocated_blocks,
         g.num_allocated_bytes = h.num_allocated_bytes,
         g.num_meta_data_bytes = h.num_meta_data_bytes
  PROVE  Even(h, g)
<1>1. PICK s, X : s = Size(h, b) /\ X = {b}
  OBVIOUS
<1>2. s \in Nat /\ Size(g, b) = s
  BY <1>1, BlocksIn DEF Marked
<1>3. Weighs(h, X, 0, 0, 1, s) /\ Weighs(g, X, 1, s, 1, s)
  BY <1>1, <1>2, WeighsFree, WeighsUsed
<1>4. Counters(h)
  BY DEF Good, Typed
<1>5. /\ g.num_free_blocks = h.num_free_blocks + (1 - 0)
      /\ g.num_free_bytes = h.num_free_bytes + (s - 0)
      /\ g.num_allocated_blocks = h.num_allocated_blocks + (1 - 1)
      /\ g.num_allocated_bytes = h.num_allocated_bytes + (s - s)
      /\ g.num_meta_data_bytes = h.num_meta_data_bytes + (1 - 1)
  BY <1>1, <1>2, <1>4 DEF Counters
<1>6. /\ Good(g) /\ AllOf(g) \ X = AllOf(h) \ X
      /\ \A a \in X : a \in AllOf(h) /\ a \in AllOf(g)
      /\ \A a \in AllOf(h) \ X : Size(g, a) = Size(h, a) /\ IsFree(g, a) = IsFree(h, a)
  BY <1>1, MarkedOthers
<1> QED BY <1>3, <1>5, <1>6, EvenBut

LEMMA SetMarks ==
  ASSUME NEW h, Good(h), NEW b \in BlocksOf(h), NEW free \in BOOLEAN
  PROVE  /\ Marked(h, Set(h, b, "is_free", free), b)
         /\ IsFree(Set(h, b, "is_free", free), b) <=> free
         /\ Set(h, b, "is_free", free).dead = h.dead /\ Set(h, b, "is_free", free).harm = h.harm
         /\ SameCounters(h, Set(h, b, "is_free", free))
<1>0. PICK g : g = Set(h, b, "is_free", free)
  OBVIOUS
<1>1. Valid(h, b) /\ IsHeap(h) /\ Typed(h)
  BY BlocksIn, GoodEnds
<1>2. /\ IsHeap(g) /\ g.mem = Edit(h.mem, b, "is_free", free)
      /\ SameBounds(h, g) /\ SameCounters(h, g)
      /\ g.head = h.head /\ g.dead = h.dead /\ g.harm = h.harm
  BY <1>0, <1>1, SetFields
<1>3. Counters(g)
  BY <1>1, <1>2 DEF Typed, Counters, SameCounters
<1>4. /\ Good(g) /\ BlocksOf(g) = BlocksOf(h) /\ Maps(g) = Maps(h)
      /\ AlikeOn(h.mem, g.mem, Cells \ {b})
      /\ Valid(g, b) /\ Size(g, b) = Size(h, b) /\ IsFree(g, b) = free
  BY <1>2, <1>3, MarkGood
<1> QED BY <1>0, <1>2, <1>4 DEF Marked

(* Only the counters change.                                                *)
LEMMA SameGood ==
  ASSUME NEW h, Good(h), NEW g, IsHeap(g), Counters(g), g.mem = h.mem,
         SameBounds(h, g), g.head = h.head
  PROVE  Good(g) /\ BlocksOf(g) = BlocksOf(h) /\ Maps(g) = Maps(h)
<1>6. Typed(h) /\ Typed(g)
  BY GoodEnds DEF Typed, SameBounds
<1>7. PICK B : B = BlocksOf(h)
  OBVIOUS
<1>8. /\ Chain(h, B) /\ (h.head = NULL <=> h.firsthead = NULL)
      /\ (h.firsthead # NULL => h.wilderness \in B /\ After(h, h.wilderness) = h.brk)
  BY <1>7 DEF Good, Wild
<1>9. \A a : (Valid(g, a) <=> Valid(h, a)) /\ After(g, a) = After(h, a)
  BY DEF Valid, After, Size
<1>10. Chain(g, B) /\ AlikeOn(h.mem, g.mem, MapCells)
  BY <1>8, <1>9 DEF Chain, AlikeOn, SameBounds
<1>11. Good(g) /\ BlocksOf(g) = B /\ Maps(g) = Maps(h)
  BY <1>6, <1>8, <1>9, <1>10, GoodIs DEF SameBounds
<1> QED BY <1>7, <1>11

(* Two counters change.                                                     *)
TwoCounted(h, v, w, g) ==
  /\ g = [h EXCEPT !.num_free_blocks = v, !.num_free_bytes = w]
  /\ IsHeap(g) /\ g.mem = h.mem /\ SameBounds(h, g) /\ g.head = h.head
  /\ g.dead = h.dead /\ g.harm = h.harm
  /\ g.num_free_blocks = v /\ g.num_free_bytes = w
  /\ g.num_allocated_blocks = h.num_allocated_blocks
  /\ g.num_allocated_bytes = h.num_allocated_bytes
  /\ g.num_meta_data_bytes = h.num_meta_data_bytes

LEMMA TwoCounts ==
  ASSUME NEW h, IsHeap(h), NEW v, NEW w
  PROVE  \E g : TwoCounted(h, v, w, g)
<1>2. PICK f : f = [h EXCEPT !.num_free_blocks = v]
  OBVIOUS
<1>3. PICK g : g = [f EXCEPT !.num_free_bytes = w]
  OBVIOUS
<1>4. /\ IsHeap(f) /\ f.mem = h.mem /\ SameBounds(h, f) /\ f.head = h.head
      /\ f.dead = h.dead /\ f.harm = h.harm
      /\ f.num_free_blocks = v /\ f.num_free_bytes = h.num_free_bytes
      /\ f.num_allocated_blocks = h.num_allocated_blocks
      /\ f.num_allocated_bytes = h.num_allocated_bytes
      /\ f.num_meta_data_bytes = h.num_meta_data_bytes
  BY <1>2 DEF IsHeap, SameBounds
<1>5. /\ IsHeap(g) /\ g.mem = h.mem /\ SameBounds(h, g) /\ g.head = h.head
      /\ g.dead = h.dead /\ g.harm = h.harm
      /\ g.num_free_blocks = v /\ g.num_free_bytes = w
      /\ g.num_allocated_blocks = h.num_allocated_blocks
      /\ g.num_allocated_bytes = h.num_allocated_bytes
      /\ g.num_meta_data_bytes = h.num_meta_data_bytes
  BY <1>3, <1>4 DEF IsHeap, SameBounds
<1>6. g = [h EXCEPT !.num_free_blocks = v, !.num_free_bytes = w]
  BY <1>2, <1>3
<1> QED BY <1>5, <1>6 DEF TwoCounted

LEMMA MarkedCounts ==
  ASSUME NEW h, NEW f, NEW b, Marked(h, f, b),
         NEW v \in Int, NEW w \in Int, NEW g, TwoCounted(f, v, w, g)
  PROVE  /\ Marked(h, g, b) /\ g.dead = f.dead /\ g.harm = f.harm
         /\ IsFree(g, b) <=> IsFree(f, b)
<1>0. Good(f) /\ IsHeap(f) /\ Typed(f)
  BY GoodEnds DEF Marked
<1>2. Counters(g)
  BY <1>0 DEF Typed, Counters, TwoCounted
<1>3. /\ IsHeap(g) /\ g.mem = f.mem /\ SameBounds(f, g) /\ g.head = f.head
      /\ g.dead = f.dead /\ g.harm = f.harm
  BY DEF TwoCounted
<1>4. Good(g) /\ BlocksOf(g) = BlocksOf(f) /\ Maps(g) = Maps(f)
  BY <1>0, <1>2, <1>3, SameGood
<1>5. SameBounds(h, g)
  BY <1>3 DEF Marked, SameBounds
<1>6. Marked(h, g, b) /\ (IsFree(g, b) <=> IsFree(f, b))
  BY <1>3, <1>4, <1>5 DEF Marked, Valid, Size, IsFree
<1> QED BY <1>3, <1>6

LEMMA TakenGood ==
  ASSUME NEW h, Good(h), NEW b \in BlocksOf(h), Fine(Taken(h, b))
  PROVE  Marked(h, Taken(h, b), b) /\ ~IsFree(Taken(h, b), b) /\ Even(h, Taken(h, b))
<1>1. h.dead = "no" /\ Typed(h) /\ Valid(h, b) /\ IsFree(h, b) \in BOOLEAN /\ Size(h, b) \in Nat
  BY TakenLater, GoodEnds, BlocksIn DEF Later, Fine
<1>2. CASE ~IsFree(h, b)
  <2>1. Taken(h, b) = h
    BY <1>2 DEF Taken
  <2>2. Marked(h, h, b)
    BY <1>1 DEF Marked, SameBounds, AlikeOn
  <2> QED BY <1>2, <2>1, <2>2, EvenReflexive
<1>3. CASE IsFree(h, b)
  <2>0. PICK no \in BOOLEAN : ~no
    OBVIOUS
  <2>1. PICK f : f = Set(h, b, "is_free", no)
    OBVIOUS
  <2>2. Marked(h, f, b) /\ ~IsFree(f, b) /\ SameCounters(h, f)
    BY <2>0, <2>1, SetMarks
  <2>3. Typed(f)
    BY <2>2 DEF Marked, Good
  <2>4. PICK v, w : v = f.num_free_blocks - 1 /\ w = f.num_free_bytes - Size(h, b)
    OBVIOUS
  <2>5. v \in Int /\ w \in Int
    BY <1>1, <2>3, <2>4 DEF Typed, Counters
  <2>6. f = Set(h, b, "is_free", FALSE)
    BY <2>0, <2>1, Zenon
  <2>7. Taken(h, b) = [f EXCEPT !.num_free_blocks = v, !.num_free_bytes = w]
    BY <1>1, <1>3, <2>4, <2>6, Zenon DEF Taken
  <2>8. PICK g : TwoCounted(f, v, w, g)
    BY <2>2, TwoCounts, GoodEnds DEF Marked
  <2>9. Marked(h, g, b) /\ (IsFree(g, b) <=> IsFree(f, b))
    BY <2>2, <2>5, <2>8, MarkedCounts
  <2>10. Taken(h, b) = g
    BY <2>7, <2>8 DEF TwoCounted
  <2>11. /\ g.num_free_blocks = h.num_free_blocks - 1
         /\ g.num_free_bytes = h.num_free_bytes - Size(h, b)
         /\ g.num_allocated_blocks = h.num_allocated_blocks
         /\ g.num_allocated_bytes = h.num_allocated_bytes
         /\ g.num_meta_data_bytes = h.num_meta_data_bytes
    BY <2>2, <2>4, <2>8 DEF SameCounters, TwoCounted
  <2>12. ~IsFree(g, b)
    BY <2>2, <2>9
  <2>13. Even(h, g)
    BY <1>3, <2>9, <2>11, <2>12, TakenEven
  <2> QED BY <2>9, <2>10, <2>12, <2>13
<1> QED BY <1>2, <1>3

LEMMA FreedGood ==
  ASSUME NEW h, Good(h), NEW b \in BlocksOf(h)
  PROVE  /\ Marked(h, Freed(h, b), b) /\ IsFree(Freed(h, b), b)
         /\ Freed(h, b).dead = h.dead /\ Freed(h, b).harm = h.harm
         /\ ~IsFree(h, b) => Even(h, Freed(h, b))
<1>1. Size(h, b) \in Nat
  BY BlocksIn
<1>a. PICK yes \in BOOLEAN : yes
  OBVIOUS
<1>2. PICK f : f = Set(h, b, "is_free", yes)
  OBVIOUS
<1>3. Marked(h, f, b) /\ IsFree(f, b) /\ f.dead = h.dead /\ f.harm = h.harm
      /\ SameCounters(h, f)
  BY <1>a, <1>2, SetMarks
<1>4. Typed(f)
  BY <1>3 DEF Marked, Good
<1>5. PICK v, w : v = f.num_free_blocks + 1 /\ w = f.num_free_bytes + Size(h, b)
  OBVIOUS
<1>6. v \in Int /\ w \in Int
  BY <1>1, <1>4, <1>5 DEF Typed, Counters
<1>b. f = Set(h, b, "is_free", TRUE)
  BY <1>a, <1>2, Zenon
<1>7. Freed(h, b) = [f EXCEPT !.num_free_blocks = v, !.num_free_bytes = w]
  BY <1>b, <1>5, Zenon DEF Freed
<1>8. PICK g : TwoCounted(f, v, w, g)
  BY <1>3, TwoCounts, GoodEnds DEF Marked
<1>9. /\ Marked(h, g, b) /\ g.dead = f.dead /\ g.harm = f.harm
      /\ IsFree(g, b) <=> IsFree(f, b)
  BY <1>3, <1>6, <1>8, MarkedCounts
<1>10. Freed(h, b) = g
  BY <1>7, <1>8 DEF TwoCounted
<1>11. /\ g.num_free_blocks = h.num_free_blocks + 1
       /\ g.num_free_bytes = h.num_free_bytes + Size(h, b)
       /\ g.num_allocated_blocks = h.num_allocated_blocks
       /\ g.num_allocated_bytes = h.num_allocated_bytes
       /\ g.num_meta_data_bytes = h.num_meta_data_bytes
  BY <1>3, <1>5, <1>8 DEF SameCounters, TwoCounted
<1>12. IsFree(g, b)
  BY <1>3, <1>9
<1>13. ~IsFree(h, b) => Even(h, g)
  BY <1>9, <1>11, <1>12, FreedEven
<1> QED BY <1>3, <1>9, <1>10, <1>12, <1>13

(* The cells of block r behind the first n of its payload, and its header   *)
Behind(h, r, n) == {c \in Extent(h, r) : c = r \/ c > r + n}

(* Block r is in use in g, with room for n cells; what is cut off is free.  *)
Gives(h, g, r, n) ==
  /\ Good(g) /\ Maps(g) = Maps(h)
  /\ \A a \in BlocksOf(h) : a \in BlocksOf(g)
  /\ \A a \in BlocksOf(g) : a \notin BlocksOf(h) => IsFree(g, a) /\ a \in Behind(h, r, n)
  /\ AlikeOn(h.mem, g.mem, Cells \ Behind(h, r, n))
  /\ ~IsFree(g, r) /\ Size(g, r) >= n
  /\ Even(h, g)

LEMMA SplitGives ==
  ASSUME NEW h, Good(h), NEW r \in BlocksOf(h), NEW n \in Nat, n <= Size(h, r),
         NEW g, g = split(h, r, n), Fine(g)
  PROVE  Gives(h, g, r, n)
<1>1. /\ Valid(h, r) /\ r \in Nat /\ Size(h, r) \in Nat /\ IsHeap(h) /\ h.dead = "no"
  BY BlocksIn, GoodEnds, SplitLater DEF Later, Fine
<1>2. r \in Behind(h, r, n)
  BY <1>1 DEF Behind, Extent
<1>3. CASE Splits(h, r, n)
  <2>1. PICK nb : nb = r + n + MetaSize /\ WasSplit(h, g, r, n, nb)
    BY <1>3, SplitGood
  <2>2. /\ Good(g) /\ BlocksOf(g) = BlocksOf(h) \cup {nb} /\ Maps(g) = Maps(h)
        /\ AlikeOn(h.mem, g.mem, Cells \ {r, nb})
        /\ ~IsFree(g, r) /\ Size(g, r) = n
        /\ IsFree(g, nb) /\ nb > r /\ nb <= r + Size(h, r) /\ Even(h, g)
    BY <2>1 DEF WasSplit
  <2>3. nb \in Behind(h, r, n)
    BY <1>1, <2>1, <2>2, Constants DEF Behind, Extent
  <2>4. AlikeOn(h.mem, g.mem, Cells \ Behind(h, r, n))
    BY <1>2, <2>2, <2>3 DEF AlikeOn
  <2> QED BY <2>2, <2>3, <2>4 DEF Gives
<1>4. CASE ~Splits(h, r, n)
  <2>1. g = Taken(h, r)
    BY <1>1, <1>4 DEF split
  <2>2. Marked(h, g, r) /\ ~IsFree(g, r) /\ Even(h, g)
    BY <2>1, TakenGood
  <2>3. AlikeOn(h.mem, g.mem, Cells \ Behind(h, r, n))
    BY <1>2, <2>2 DEF AlikeOn, Marked
  <2>4. Size(g, r) >= n
    BY <2>2 DEF Marked
  <2> QED BY <2>2, <2>3, <2>4 DEF Gives, Marked
<1> QED BY <1>3, <1>4

LEMMA GivesUsed ==
  ASSUME NEW h, Good(h), NEW r \in BlocksOf(h), NEW n \in Nat, NEW g, Gives(h, g, r, n)
  PROVE  /\ Used(g) = Used(h) \cup {r} /\ Keeps(h, g, Used(h) \ {r})
         /\ \A c \in (r + 1)..(r + n) : n <= Size(h, r) /\ h.mem[c].tag # "header" => g.mem[c] = h.mem[c]
<1>1. /\ Good(g) /\ Maps(g) = Maps(h) /\ r \in BlocksOf(g)
      /\ AlikeOn(h.mem, g.mem, Cells \ Behind(h, r, n)) /\ ~IsFree(g, r) /\ Even(h, g)
  BY DEF Gives
<1>2. ASSUME NEW a \in BlocksOf(h) \cup Maps(h), a # r
      PROVE  \A c \in Extent(h, a) : c \in Cells \ Behind(h, r, n)
  BY <1>2, Apart, ExtentIn DEF Behind
<1>3. ASSUME NEW a \in BlocksOf(h) \cup Maps(h), a # r
      PROVE  a \in BlocksOf(g) \cup Maps(g) /\ (IsFree(g, a) <=> IsFree(h, a))
  <2>1. a \in BlocksOf(g) \cup Maps(g)
    BY <1>3 DEF Gives
  <2>2. Valid(h, a) /\ a \in Extent(h, a)
    BY ExtentIn DEF Extent
  <2>3. a \in Cells \ Behind(h, r, n)
    BY <1>2, <1>3, <2>2
  <2> QED BY <1>1, <2>1, <2>2, <2>3, ValidAlikeOn
<1>4. Used(g) = Used(h) \cup {r}
  <2>1. ASSUME NEW a \in Used(g), a # r PROVE a \in Used(h)
    <3>1. a \in BlocksOf(g) \cup Maps(g) /\ ~IsFree(g, a)
      BY DEF Used
    <3>2. a \in BlocksOf(h) \cup Maps(h)
      BY <3>1 DEF Gives
    <3> QED BY <1>3, <2>1, <3>1, <3>2 DEF Used
  <2>2. ASSUME NEW a \in Used(h), a # r PROVE a \in Used(g)
    BY <1>3, <2>2 DEF Used
  <2>3. r \in Used(g)
    BY <1>1 DEF Used
  <2> QED BY <2>1, <2>2, <2>3
<1>5. Keeps(h, g, Used(h) \ {r})
  <2>1. \A a \in Used(h) \ {r} : a \in BlocksOf(h) \cup Maps(h) /\ a # r
    BY DEF Used
  <2>2. \A a \in Used(h) \ {r} : a \in Used(h) /\ a \in BlocksOf(g) \cup Maps(g)
    BY <1>3, <2>1
  <2>3. \A a \in Used(h) \ {r} : \A c \in Extent(h, a) : c \notin Behind(h, r, n)
    BY <1>2, <2>1
  <2> QED BY <1>1, <2>2, <2>3, Untouched
<1>6. ASSUME n <= Size(h, r), NEW c \in (r + 1)..(r + n), h.mem[c].tag # "header"
      PROVE  g.mem[c] = h.mem[c]
  <2>1. r \in Nat /\ Size(h, r) \in Nat /\ \A d \in Extent(h, r) : d \in Cells
    BY ExtentIn
  <2>2. c \in Extent(h, r) /\ c \notin Behind(h, r, n)
    BY <1>6, <2>1 DEF Extent, Behind
  <2> QED BY <1>1, <1>6, <2>1, <2>2 DEF AlikeOn
<1> QED BY <1>4, <1>5, <1>6

(* What a merge does first: the size and the counters                       *)
Join(h, ptr, next, h1) ==
  /\ IsHeap(h1) /\ h1.mem = Edit(h.mem, ptr, "size", Size(h, ptr) + Size(h, next) + MetaSize)
  /\ SameBounds(h, h1) /\ h1.head = h.head /\ h1.dead = h.dead /\ h1.harm = h.harm
  /\ h1.num_free_blocks = h.num_free_blocks - 1
  /\ h1.num_free_bytes = h.num_free_bytes + MetaSize
  /\ h1.num_allocated_blocks = h.num_allocated_blocks - 1
  /\ h1.num_allocated_bytes = h.num_allocated_bytes + MetaSize
  /\ h1.num_meta_data_bytes = h.num_meta_data_bytes - MetaSize
  /\ MergedInto(h, ptr, next) =
       LET h2 == HeapListInsert(HeapListRemove(HeapListRemove(h1, ptr), next), ptr)
       IN  IF next = h.wilderness THEN [h2 EXCEPT !.wilderness = ptr] ELSE h2

LEMMA JoinIs ==
  ASSUME NEW h, IsHeap(h), NEW ptr, Valid(h, ptr), NEW next
  PROVE  \E h1 : Join(h, ptr, next, h1)
<1>1. PICK g, s : g = Set(h, ptr, "size", s) /\ s = Size(h, ptr) + Size(h, next) + MetaSize
  OBVIOUS
<1>2. /\ IsHeap(g) /\ g.mem = Edit(h.mem, ptr, "size", s)
      /\ SameBounds(h, g) /\ SameCounters(h, g)
      /\ g.head = h.head /\ g.dead = h.dead /\ g.harm = h.harm
  BY <1>1, SetFields
<1>3. PICK h1 : h1 = [g EXCEPT !.num_free_blocks = @ - 1, !.num_free_bytes = @ + MetaSize,
                      !.num_allocated_blocks = @ - 1,
                      !.num_allocated_bytes = @ + MetaSize,
                      !.num_meta_data_bytes = @ - MetaSize]
  OBVIOUS
<1>4. MergedInto(h, ptr, next) =
        LET h2 == HeapListInsert(HeapListRemove(HeapListRemove(h1, ptr), next), ptr)
        IN  IF next = h.wilderness THEN [h2 EXCEPT !.wilderness = ptr] ELSE h2
  BY <1>1, <1>3, Zenon DEF MergedInto
<1>5. g = [mem |-> g.mem, brk |-> g.brk, head |-> g.head, firsthead |-> g.firsthead,
       wilderness |-> g.wilderness, mmhead |-> g.mmhead,
       num_free_blocks |-> g.num_free_blocks, num_free_bytes |-> g.num_free_bytes,
       num_allocated_blocks |-> g.num_allocated_blocks,
       num_allocated_bytes |-> g.num_allocated_bytes,
       num_meta_data_bytes |-> g.num_meta_data_bytes, dead |-> g.dead, harm |-> g.harm]
  BY <1>2 DEF IsHeap
<1>6. IsHeap(h1)
  BY <1>3, <1>5 DEF IsHeap
<1>7. /\ h1.mem = g.mem /\ h1.brk = g.brk /\ h1.head = g.head /\ h1.firsthead = g.firsthead
      /\ h1.mmhead = g.mmhead /\ h1.wilderness = g.wilderness /\ h1.dead = g.dead /\ h1.harm = g.harm
  BY <1>3, <1>5
<1>8. /\ h1.num_free_blocks = g.num_free_blocks - 1
      /\ h1.num_free_bytes = g.num_free_bytes + MetaSize
      /\ h1.num_allocated_blocks = g.num_allocated_blocks - 1
  BY <1>3, <1>5
<1>9. /\ h1.num_allocated_bytes = g.num_allocated_bytes + MetaSize
      /\ h1.num_meta_data_bytes = g.num_meta_data_bytes - MetaSize
  BY <1>3, <1>5
<1>10. /\ h1.mem = Edit(h.mem, ptr, "size", Size(h, ptr) + Size(h, next) + MetaSize)
       /\ SameBounds(h, h1) /\ h1.head = h.head /\ h1.dead = h.dead /\ h1.harm = h.harm
  BY <1>1, <1>2, <1>7 DEF SameBounds
<1>11. /\ h1.num_free_blocks = h.num_free_blocks - 1
       /\ h1.num_free_bytes = h.num_free_bytes + MetaSize
       /\ h1.num_allocated_blocks = h.num_allocated_blocks - 1
       /\ h1.num_allocated_bytes = h.num_allocated_bytes + MetaSize
       /\ h1.num_meta_data_bytes = h.num_meta_data_bytes - MetaSize
  BY <1>2, <1>8, <1>9 DEF SameCounters
<1> QED BY <1>4, <1>6, <1>10, <1>11, Zenon DEF Join

LEMMA MergedIntoLater ==
  ASSUME NEW h, IsHeap(h), NEW ptr, Valid(h, ptr), NEW next
  PROVE  Later(h, MergedInto(h, ptr, next))
<1>1. PICK h1 : Join(h, ptr, next, h1)
  BY JoinIs
<1>2. PICK r1 : r1 = HeapListRemove(h1, ptr)
  OBVIOUS
<1>3. PICK r2 : r2 = HeapListRemove(r1, next)
  OBVIOUS
<1>4. PICK h2 : h2 = HeapListInsert(r2, ptr)
  OBVIOUS
<1>5. MergedInto(h, ptr, next) = IF next = h.wilderness THEN [h2 EXCEPT !.wilderness = ptr] ELSE h2
  BY <1>1, <1>2, <1>3, <1>4, Zenon DEF Join
<1>6. Later(h, h1) /\ IsHeap(h1)
  BY <1>1 DEF Join, Later, Fine
<1>7. Later(h1, r1) /\ IsHeap(r1)
  BY <1>2, <1>6, RemoveLater DEF Later
<1>8. Later(r1, r2) /\ IsHeap(r2)
  BY <1>3, <1>7, RemoveLater DEF Later
<1>9. Later(r2, h2) /\ IsHeap(h2)
  BY <1>4, <1>8, InsertLater DEF Later
<1>10. Later(h, h2)
  BY <1>6, <1>7, <1>8, <1>9, LaterTransitive
<1>11. Later(h2, [h2 EXCEPT !.wilderness = ptr])
  BY <1>9, FieldLater
<1> QED BY <1>5, <1>10, <1>11, LaterTransitive

(* next is part of ptr, the block before it.                                *)
Joined(h, g, ptr, next) ==
  /\ Good(g) /\ BlocksOf(g) = BlocksOf(h) \ {next} /\ Maps(g) = Maps(h)
  /\ AlikeOn(h.mem, g.mem, Cells \ {ptr})
  /\ ptr \in BlocksOf(g) /\ After(g, ptr) = After(h, next)
  /\ Size(g, ptr) = Size(h, ptr) + Size(h, next) + MetaSize
  /\ IsFree(g, ptr) <=> IsFree(h, ptr)
  /\ g.brk = h.brk /\ g.firsthead = h.firsthead /\ g.mmhead = h.mmhead
  /\ IsFree(h, ptr) /\ IsFree(h, next) => Even(h, g)

LEMMA JoinEven ==
  ASSUME NEW h, Good(h), NEW ptr \in BlocksOf(h), NEW next \in BlocksOf(h), ptr # next,
         IsFree(h, ptr), IsFree(h, next),
         NEW h1, Join(h, ptr, next, h1), NEW g, Good(g), SameCounters(h1, g),
         BlocksOf(g) = BlocksOf(h) \ {next}, Maps(g) = Maps(h),
         AlikeOn(h.mem, g.mem, Cells \ {ptr}),
         Size(g, ptr) = Size(h, ptr) + Size(h, next) + MetaSize, IsFree(g, ptr)
  PROVE  Even(h, g)
<1>1. PICK s, t, u : s = Size(h, ptr) /\ t = Size(h, next) /\ u = Size(g, ptr)
  OBVIOUS
<1>2. s \in Nat /\ t \in Nat /\ u \in Nat /\ u = s + t + 1 /\ MetaSize = 1
  <2>1. s \in Nat /\ t \in Nat
    BY <1>1, BlocksIn
  <2> QED BY <1>1, <2>1, Constants
<1>3. PICK X, Y : X = {ptr} \cup {next} /\ Y = {ptr}
  OBVIOUS
<1>4. \A a \in Maps(h) : a \notin BlocksOf(h)
  BY BlocksIn, MapsIn, Constants
<1>5. /\ \A a \in X : a \in AllOf(h)
      /\ \A a \in Y : a \in AllOf(g)
      /\ AllOf(g) \ Y = AllOf(h) \ X
  BY <1>3, <1>4 DEF AllOf
<1>6. \A a \in AllOf(h) \ X : Size(g, a) = Size(h, a) /\ IsFree(g, a) = IsFree(h, a)
  <2>1. \A a \in AllOf(h) \ X : Valid(h, a) /\ a \in Cells \ {ptr}
    BY <1>3, BlocksIn, MapsIn DEF AllOf
  <2> QED BY <2>1, ValidAlikeOn
<1>7. Weighs(h, X, 1 + 1, s + t, 1 + 1, s + t)
  <2>1. Weighs(h, {ptr}, 1, s, 1, s) /\ Weighs(h, {next}, 1, t, 1, t)
    BY <1>1, <1>2, WeighsFree
  <2>2. \A a \in {ptr} : a \notin {next}
    OBVIOUS
  <2> QED BY <1>3, <2>1, <2>2, WeighsBoth
<1>8. Weighs(g, Y, 1, u, 1, u)
  BY <1>1, <1>2, <1>3, WeighsFree
<1>9. Counters(h)
  BY DEF Good, Typed
<1>10. /\ g.num_free_blocks = h.num_free_blocks - 1
       /\ g.num_free_bytes = h.num_free_bytes + 1
       /\ g.num_allocated_blocks = h.num_allocated_blocks - 1
       /\ g.num_allocated_bytes = h.num_allocated_bytes + 1
       /\ g.num_meta_data_bytes = h.num_meta_data_bytes - 1
  BY <1>2 DEF Join, SameCounters
<1>11. /\ g.num_free_blocks = h.num_free_blocks + (1 - (1 + 1))
       /\ g.num_free_bytes = h.num_free_bytes + (u - (s + t))
       /\ g.num_allocated_blocks = h.num_allocated_blocks + (1 - (1 + 1))
       /\ g.num_allocated_bytes = h.num_allocated_bytes + (u - (s + t))
       /\ g.num_meta_data_bytes = h.num_meta_data_bytes + (1 - (1 + 1))
  BY <1>2, <1>9, <1>10 DEF Counters
<1> QED BY <1>5, <1>6, <1>7, <1>8, <1>11, EvenBut

LEMMA JoinGood ==
  ASSUME NEW h, Good(h), NEW ptr \in BlocksOf(h), NEW next \in BlocksOf(h), next = After(h, ptr),
         Fine(MergedInto(h, ptr, next))
  PROVE  Joined(h, MergedInto(h, ptr, next), ptr, next)
<1>0. PICK B, e, s :
        /\ B = BlocksOf(h) /\ e = [a \in B |-> After(h, a)]
        /\ s = Size(h, ptr) + Size(h, next) + MetaSize
  OBVIOUS
<1>1. /\ ptr \in B /\ Valid(h, ptr) /\ ptr \in Cells /\ ptr \in Nat /\ ptr \in Ptr
      /\ ptr \notin MapCells /\ Size(h, ptr) \in Nat
      /\ After(h, ptr) = ptr + Size(h, ptr) + 1 /\ h.firsthead # NULL
  BY <1>0, BlocksIn, Constants DEF Cells, Ptr
<1>2. /\ next \in B /\ next \in Cells /\ next \in Nat /\ next \in Ptr /\ Size(h, next) \in Nat
      /\ After(h, next) = next + Size(h, next) + 1
  BY <1>0, BlocksIn, Constants DEF Cells, Ptr
<1>3. s \in Nat /\ ptr + s + MetaSize = After(h, next)
  BY <1>0, <1>1, <1>2, Constants
<1>4. /\ Ends(B, e, h.firsthead, h.brk) /\ Typed(h) /\ IsHeap(h) /\ h.mem \in [Cells -> Cell]
      /\ h.brk \in Nat
      /\ h.head = NULL <=> h.firsthead = NULL
      /\ h.wilderness \in B /\ After(h, h.wilderness) = h.brk
  BY <1>0, <1>1, GoodEnds
<1>5. PICK f : f = [a \in B \ {next} |-> IF a = ptr THEN e[next] ELSE e[a]]
  OBVIOUS
<1>6. ptr # next /\ Ends(B \ {next}, f, h.firsthead, h.brk)
  <2>1. e[ptr] = next
    BY <1>0, <1>1
  <2>2. Ends(B, e, h.firsthead, h.brk) /\ h.brk \in Nat /\ ptr \in B /\ next \in B
    BY <1>1, <1>2, <1>4
  <2> QED BY <1>5, <2>1, <2>2, EndsMerge
<1>7. PICK h1 : Join(h, ptr, next, h1)
  BY <1>1, <1>4, JoinIs
<1>8. PICK h2 : h2 = HeapListInsert(HeapListRemove(HeapListRemove(h1, ptr), next), ptr)
  OBVIOUS
<1>9. PICK g : g = MergedInto(h, ptr, next)
  OBVIOUS
<1>10. g = IF next = h.wilderness THEN [h2 EXCEPT !.wilderness = ptr] ELSE h2
  BY <1>7, <1>8, <1>9, Zenon DEF Join
<1>11. /\ IsHeap(h1) /\ h1.mem = Edit(h.mem, ptr, "size", s)
       /\ SameBounds(h, h1) /\ h1.head = h.head
  BY <1>0, <1>7 DEF Join
<1>12. h.mem[ptr] \in HeaderCell
  BY <1>1, <1>4, HeaderCells
<1>13. /\ h1.mem \in [Cells -> Cell] /\ AlikeOn(h.mem, h1.mem, Cells \ {ptr})
       /\ h1.mem[ptr] \in HeaderCell /\ h1.mem[ptr].is_free = h.mem[ptr].is_free /\ h1.mem[ptr].size = s
  <2>1. PICK m, k : m = h.mem /\ k = Edit(m, ptr, "size", s)
    OBVIOUS
  <2>2. m \in [Cells -> Cell] /\ m[ptr] \in HeaderCell
    BY <1>4, <1>12, <2>1
  <2>3. /\ k \in [Cells -> Cell] /\ AlikeOn(m, k, Cells \ {ptr})
        /\ k[ptr] \in HeaderCell /\ k[ptr].is_free = m[ptr].is_free /\ k[ptr].size = s
    BY <1>1, <1>3, <2>1, <2>2, SizeEdit
  <2>4. h1.mem = k
    BY <1>11, <2>1
  <2> QED BY <2>1, <2>3, <2>4
<1>14. Counters(h1)
  BY <1>4, <1>7, Constants DEF Join, Counters, Typed
<1>15. Typed(h1)
  BY <1>4, <1>11, <1>13, <1>14 DEF Typed, SameBounds
<1>16. Links(h1, h2) /\ (Fine(h2) => h2.head # NULL)
  <2>1. PICK r1, r2 : r1 = HeapListRemove(h1, ptr) /\ r2 = HeapListRemove(r1, next)
    OBVIOUS
  <2>2. ListStep(h1, r1) /\ Typed(r1)
    BY <1>1, <1>15, <2>1, RemoveList DEF ListStep, Links
  <2>3. ListStep(r1, r2) /\ Typed(r2)
    BY <1>2, <2>1, <2>2, RemoveList DEF ListStep, Links
  <2>4. ListStep(r2, h2) /\ (Fine(h2) => h2.head # NULL)
    BY <1>1, <1>8, <2>1, <2>3, InsertList
  <2> QED BY <2>2, <2>3, <2>4, LinksTransitive DEF ListStep
<1>17. Typed(h2) /\ SameBounds(h1, h2) /\ Alike(h1.mem, h2.mem)
  BY <1>16 DEF Links
<1>18. /\ Typed(g) /\ g.mem = h2.mem /\ g.brk = h.brk /\ g.firsthead = h.firsthead
       /\ g.mmhead = h.mmhead /\ g.head = h2.head /\ (Fine(g) => Fine(h2))
       /\ SameCounters(h2, g)
       /\ g.wilderness = IF next = h.wilderness THEN ptr ELSE h.wilderness
  <2>1. CASE next = h.wilderness
    <3>1. g = [h2 EXCEPT !.wilderness = ptr]
      BY <1>10, <2>1
    <3> QED BY <1>1, <1>11, <1>17, <2>1, <3>1 DEF Typed, SameBounds, SameCounters, IsHeap, Counters, Fine
  <2>2. CASE next # h.wilderness
    BY <1>10, <1>11, <1>17, <2>2 DEF SameBounds, SameCounters
  <2> QED BY <2>1, <2>2
<1>19. g.head # NULL /\ g.firsthead # NULL
  BY <1>1, <1>9, <1>16, <1>18
<1>20. AlikeOn(h.mem, g.mem, Cells \ {ptr})
  BY <1>13, <1>17, <1>18 DEF Alike, AlikeOn
<1>21. Valid(g, ptr) /\ Size(g, ptr) = s /\ (IsFree(g, ptr) <=> IsFree(h, ptr))
       /\ After(g, ptr) = After(h, next)
  <2>1. Valid(h1, ptr) /\ Size(h1, ptr) = s /\ (IsFree(h1, ptr) <=> IsFree(h, ptr))
    BY <1>1, <1>12, <1>13, HeaderIs
  <2>2. Valid(h2, ptr) /\ Size(h2, ptr) = s /\ (IsFree(h2, ptr) <=> IsFree(h1, ptr))
    BY <1>17, <2>1, ValidAlike
  <2>3. Valid(g, ptr) /\ Size(g, ptr) = s /\ (IsFree(g, ptr) <=> IsFree(h, ptr))
    BY <1>18, <2>1, <2>2 DEF Valid, Size, IsFree
  <2> QED BY <1>3, <2>3 DEF After
<1>22. \A a \in B \ {next} : Valid(g, a) /\ After(g, a) = f[a]
  <2>1. SUFFICES ASSUME NEW a \in B \ {next}, a # ptr PROVE Valid(g, a) /\ After(g, a) = f[a]
    BY <1>0, <1>1, <1>2, <1>5, <1>6, <1>21
  <2>2. Valid(h, a) /\ a \in Cells \ {ptr}
    BY <1>0, <2>1, BlocksIn
  <2>3. Valid(g, a) /\ After(g, a) = After(h, a)
    BY <1>20, <2>2, ValidAlikeOn
  <2> QED BY <1>0, <1>5, <2>1, <2>3
<1>23. AlikeOn(h.mem, g.mem, MapCells)
  BY <1>1, <1>20, MapCellsAre DEF AlikeOn
<1>24. g.wilderness \in B \ {next} /\ f[g.wilderness] = g.brk
  <2>0. next < h.brk
    BY BlocksIn
  <2>1. CASE next = h.wilderness
    <3>1. g.wilderness = ptr /\ f[ptr] = After(h, next)
      BY <1>0, <1>1, <1>2, <1>5, <1>6, <1>18, <2>1
    <3> QED BY <1>1, <1>4, <1>6, <1>18, <2>1, <3>1
  <2>2. CASE next # h.wilderness
    <3>1. h.wilderness # ptr
      BY <1>2, <1>4, <2>0
    <3>2. f[h.wilderness] = After(h, h.wilderness)
      BY <1>0, <1>4, <1>5, <2>2, <3>1
    <3> QED BY <1>4, <1>18, <2>2, <3>2
  <2> QED BY <2>1, <2>2
<1>25. Good(g) /\ BlocksOf(g) = B \ {next} /\ Maps(g) = Maps(h)
  <2>1. Ends(B \ {next}, f, g.firsthead, g.brk) /\ Typed(g) /\ (g.head = NULL <=> g.firsthead = NULL)
    BY <1>6, <1>18, <1>19
  <2> QED BY <1>22, <1>23, <1>24, <2>1, ShapeGood
<1>26. IsFree(h, ptr) /\ IsFree(h, next) => Even(h, g)
  <2>1. SUFFICES ASSUME IsFree(h, ptr), IsFree(h, next) PROVE Even(h, g)
    OBVIOUS
  <2>2. SameCounters(h1, g)
    BY <1>16, <1>18 DEF Links, SameCounters
  <2>3. Size(g, ptr) = Size(h, ptr) + Size(h, next) + MetaSize /\ IsFree(g, ptr)
    BY <1>0, <1>21, <2>1
  <2> QED BY <1>0, <1>6, <1>7, <1>20, <1>25, <2>1, <2>2, <2>3, JoinEven
<1> QED BY <1>0, <1>1, <1>6, <1>9, <1>18, <1>20, <1>21, <1>25, <1>26 DEF Joined

LEMMA SmergeLater ==
  ASSUME NEW h, IsHeap(h), NEW ptr
  PROVE  Later(h, smerge(Call(h, ptr)).heap)
<1>0. PICK call, next : call = Call(h, ptr) /\ next = After(h, ptr)
  OBVIOUS
<1>1. call.heap = h /\ call.ptr = ptr
  BY <1>0 DEF Call
<1>2. \A g, p : Call(g, p).heap = g
  BY DEF Call
<1>3. \/ smerge(call).heap = h
      \/ smerge(call).heap = Dead(h, "cookie")
      \/ Valid(h, ptr) /\ smerge(call).heap = MergedInto(h, ptr, next)
  BY <1>0, <1>1, <1>2 DEF smerge
<1>4. Later(h, h) /\ Later(h, Dead(h, "cookie"))
  BY LaterReflexive, DeadLater
<1> QED BY <1>0, <1>3, <1>4, MergedIntoLater

LEMMA MergeLater ==
  ASSUME NEW h, IsHeap(h)
  PROVE  Later(h, merge(h))
<1>1. PICK f : /\ merge(h) = f[LastStep].heap /\ f[0] = Call(h, h.firsthead)
               /\ \A k \in 1..LastStep : f[k] = smerge(f[k - 1])
  BY MergeIs
<1>2. PICK S : S = {k \in Nat : k <= LastStep => /\ Later(h, f[k].heap)
                                                /\ f[k] = Call(f[k].heap, f[k].ptr)}
  OBVIOUS
<1>3. 0 \in S
  BY <1>1, <1>2, LaterReflexive DEF Call
<1>4. ASSUME NEW k \in Nat, k \in S PROVE k + 1 \in S
  <2>1. SUFFICES ASSUME k + 1 <= LastStep
                 PROVE  Later(h, f[k + 1].heap) /\ f[k + 1] = Call(f[k + 1].heap, f[k + 1].ptr)
    BY <1>2
  <2>2. f[k + 1] = smerge(f[k])
    <3>1. k + 1 \in 1..LastStep /\ (k + 1) - 1 = k
      BY <2>1, Constants
    <3> QED BY <1>1, <3>1
  <2>3. Later(h, f[k].heap) /\ f[k] = Call(f[k].heap, f[k].ptr) /\ IsHeap(f[k].heap)
    BY <1>2, <1>4, <2>1, Constants DEF Later
  <2>4. Later(f[k].heap, f[k + 1].heap)
    BY <2>2, <2>3, SmergeLater
  <2>5. \E g, p : smerge(f[k]) = Call(g, p)
    BY DEF smerge
  <2>6. f[k + 1] = Call(f[k + 1].heap, f[k + 1].ptr)
    BY <2>2, <2>5 DEF Call
  <2> QED BY <2>3, <2>4, <2>6, LaterTransitive
<1>5. LastStep \in S
  <2>1. \A n \in Nat : n \in S
    BY <1>3, <1>4, NatInduct
  <2> QED BY <2>1, Constants
<1> QED BY <1>1, <1>2, <1>5, Constants

(* Free blocks of h are part of the free ones before them.                  *)
Merged(h, g, upto) ==
  /\ Good(g) /\ Maps(g) = Maps(h) /\ g.brk = h.brk /\ g.firsthead = h.firsthead
  /\ \A a \in BlocksOf(g) : a \in BlocksOf(h) /\ (IsFree(g, a) <=> IsFree(h, a))
  /\ \A a \in BlocksOf(h) : a \notin BlocksOf(g) => IsFree(h, a)
  /\ AlikeOn(h.mem, g.mem, Cells \ {a \in BlocksOf(g) : IsFree(h, a) /\ a <= upto})
  /\ Even(h, g)

(* No two free blocks lie behind each other, the first of them below upto.  *)
NoTwo(h, upto) ==
  \A a \in BlocksOf(h) : a < upto /\ After(h, a) # h.brk => ~(IsFree(h, a) /\ IsFree(h, After(h, a)))

(* Where merge() has come to after k calls                                  *)
Merging(h, call, k) ==
  LET g == call.heap
      ptr == call.ptr
  IN  IF ptr = NULL THEN Merged(h, g, h.brk) /\ NoTwo(g, h.brk)
      ELSE Merged(h, g, ptr) /\ NoTwo(g, ptr) /\ ptr \in BlocksOf(g) /\ After(g, ptr) >= k + 2

LEMMA MergingStarts ==
  ASSUME NEW h, Good(h)
  PROVE  Merging(h, Call(h, h.firsthead), 0)
<1>1. Call(h, h.firsthead).heap = h /\ Call(h, h.firsthead).ptr = h.firsthead
  BY DEF Call
<1>2. \A n : Merged(h, h, n)
  BY EvenReflexive DEF Merged, AlikeOn
<1>3. CASE h.firsthead = NULL
  <2>1. BlocksOf(h) = {}
    BY <1>3 DEF Good, Chain
  <2> QED BY <1>1, <1>2, <1>3, <2>1 DEF Merging, NoTwo
<1>4. CASE h.firsthead # NULL
  <2>1. PICK p : p = h.firsthead
    OBVIOUS
  <2>2. p \in BlocksOf(h) /\ \A a \in BlocksOf(h) : p <= a
    BY <1>4, <2>1 DEF Good, Chain
  <2>3. \A a \in BlocksOf(h) : ~(a < p)
    BY <2>2, BlocksIn
  <2>4. After(h, p) >= 0 + 2
    BY <2>2, BlocksIn
  <2>5. NoTwo(h, p)
    BY <2>3 DEF NoTwo
  <2> QED BY <1>1, <1>2, <1>4, <2>1, <2>2, <2>4, <2>5 DEF Merging
<1> QED BY <1>3, <1>4

(* The block at ptr is passed, or has nothing behind it.                    *)
LEMMA MergePasses ==
  ASSUME NEW h, Good(h), NEW g, NEW p, NEW q \in Nat, p < q,
         Merged(h, g, p), NoTwo(g, p), p \in BlocksOf(g),
         \A a \in BlocksOf(g) : p < a => q <= a,
         After(g, p) # g.brk => ~(IsFree(g, p) /\ IsFree(g, After(g, p)))
  PROVE  Merged(h, g, q) /\ NoTwo(g, q)
<1>1. Good(g) /\ p \in Nat /\ \A a \in BlocksOf(g) : a \in Nat
  BY BlocksIn DEF Merged
<1>2. ASSUME NEW a \in BlocksOf(g), a < q PROVE a <= p
  BY <1>1, <1>2
<1>3. NoTwo(g, q)
  <2>1. SUFFICES ASSUME NEW a \in BlocksOf(g), a < q, After(g, a) # g.brk
                 PROVE  ~(IsFree(g, a) /\ IsFree(g, After(g, a)))
    BY DEF NoTwo
  <2>2. a < p \/ a = p
    BY <1>1, <1>2, <2>1
  <2> QED BY <2>1, <2>2 DEF NoTwo
<1>4. \A a \in BlocksOf(g) : a <= p => a <= q
  BY <1>1
<1>5. AlikeOn(h.mem, g.mem, Cells \ {a \in BlocksOf(g) : IsFree(h, a) /\ a <= q})
  BY <1>4 DEF Merged, AlikeOn
<1> QED BY <1>3, <1>5 DEF Merged

LEMMA MergingGoesOn ==
  ASSUME NEW h, Good(h), NEW g, NEW p, NEW k \in Nat, Merging(h, Call(g, p), k),
         Fine(smerge(Call(g, p)).heap)
  PROVE  Merging(h, smerge(Call(g, p)), k + 1)
<1>0. PICK call, next : call = Call(g, p) /\ next = After(g, p)
  OBVIOUS
<1>a. \A x, y : Call(x, y).heap = x /\ Call(x, y).ptr = y
  BY DEF Call
<1>1. call.heap = g /\ call.ptr = p
  BY <1>0, <1>a
<1>2. Good(g) /\ IsHeap(g)
  <2>1. Good(g)
    BY <1>0, <1>1 DEF Merging, Merged
  <2> QED BY <2>1, GoodEnds
<1>3. g.dead = "no"
  BY <1>2, SmergeLater DEF Later, Fine
<1>4. CASE p = NULL
  <2>1. smerge(call) = Call(g, NULL)
    BY <1>1, <1>4 DEF smerge
  <2> QED BY <1>0, <1>1, <1>4, <1>a, <2>1 DEF Merging
<1>5. CASE p # NULL
  <2>1. Merged(h, g, p) /\ NoTwo(g, p) /\ p \in BlocksOf(g) /\ next >= k + 2
    BY <1>0, <1>1, <1>5 DEF Merging
  <2>2. /\ Valid(g, p) /\ p \in Nat /\ p < g.brk /\ next \in Nat /\ p < next /\ next <= g.brk
        /\ g.brk \in Nat /\ g.brk > 0
    BY <1>0, <1>2, <2>1, BlocksIn
  <2>3. next \in BlocksOf(g) \/ next = g.brk
    BY <1>0, <1>2, <2>1 DEF Good, Chain
  <2>4. \A a \in BlocksOf(g) : p < a => next <= a
    BY <1>0, <1>2, <2>1 DEF Good, Chain
  <2>5. CASE next = g.brk
    <3>1. smerge(call) = Call(g, NULL)
      BY <1>0, <1>1, <1>3, <1>5, <2>2, <2>5 DEF smerge
    <3>2. Merged(h, g, next) /\ NoTwo(g, next)
      BY <1>0, <2>1, <2>2, <2>4, <2>5, MergePasses
    <3>3. g.brk = h.brk
      BY <2>1 DEF Merged
    <3> QED BY <1>0, <1>a, <2>5, <3>1, <3>2, <3>3 DEF Merging
  <2>6. CASE next # g.brk /\ ~(IsFree(g, p) /\ IsFree(g, next))
    <3>1. next \in BlocksOf(g) /\ Valid(g, next) /\ After(g, next) > next /\ next # NULL
          /\ After(g, next) \in Nat
      BY <1>2, <2>3, <2>6, BlocksIn, Constants
    <3>2. smerge(call) = Call(g, next)
      BY <1>0, <1>1, <1>3, <1>5, <2>2, <2>6, <3>1 DEF smerge
    <3>3. Merged(h, g, next) /\ NoTwo(g, next)
      BY <1>0, <2>1, <2>2, <2>4, <2>6, MergePasses
    <3>4. After(g, next) >= (k + 1) + 2
      BY <2>1, <2>2, <3>1
    <3> QED BY <1>0, <1>a, <3>1, <3>2, <3>3, <3>4 DEF Merging
  <2>7. CASE next # g.brk /\ IsFree(g, p) /\ IsFree(g, next)
    <3>1. next \in BlocksOf(g) /\ Valid(g, next) /\ After(g, next) > next /\ next # NULL
          /\ After(g, next) \in Nat /\ After(g, next) <= g.brk
      BY <1>2, <2>3, <2>7, BlocksIn, Constants
    <3>2. PICK j : j = MergedInto(g, p, next)
      OBVIOUS
    <3>3. smerge(call) = Call(j, IF next = g.wilderness THEN NULL ELSE p)
      BY <1>0, <1>1, <1>3, <1>5, <2>2, <2>7, <3>1, <3>2 DEF smerge
    <3>4. Fine(j)
      BY <1>0, <1>a, <3>3
    <3>5. Joined(g, j, p, next)
      BY <1>0, <1>2, <2>1, <3>1, <3>2, <3>4, JoinGood
    <3>6. /\ Good(j) /\ BlocksOf(j) = BlocksOf(g) \ {next} /\ Maps(j) = Maps(g)
          /\ AlikeOn(g.mem, j.mem, Cells \ {p})
          /\ p \in BlocksOf(j) /\ After(j, p) = After(g, next)
          /\ (IsFree(j, p) <=> IsFree(g, p))
          /\ j.brk = g.brk /\ j.firsthead = g.firsthead
      BY <3>5 DEF Joined
    <3>7. ASSUME NEW a \in BlocksOf(j), a # p
          PROVE  a \in BlocksOf(g) /\ After(j, a) = After(g, a) /\ (IsFree(j, a) <=> IsFree(g, a))
      <4>1. a \in BlocksOf(g)
        BY <3>6
      <4>2. Valid(g, a) /\ a \in Cells \ {p}
        BY <1>2, <3>7, <4>1, BlocksIn
      <4> QED BY <3>6, <4>1, <4>2, ValidAlikeOn
    <3>8. \A a \in BlocksOf(h) : a \notin BlocksOf(j) => IsFree(h, a)
      <4>1. IsFree(h, next)
        BY <2>1, <2>7, <3>1 DEF Merged
      <4> QED BY <2>1, <3>6, <4>1 DEF Merged
    <3>9. \A a \in BlocksOf(j) : a \in BlocksOf(h) /\ (IsFree(j, a) <=> IsFree(h, a))
      BY <2>1, <3>6, <3>7 DEF Merged
    <3>10. AlikeOn(h.mem, j.mem, Cells \ {a \in BlocksOf(j) : IsFree(h, a) /\ a <= p})
      <4>1. PICK X, Y : /\ X = {a \in BlocksOf(g) : IsFree(h, a) /\ a <= p}
                        /\ Y = {a \in BlocksOf(j) : IsFree(h, a) /\ a <= p}
        OBVIOUS
      <4>2. AlikeOn(h.mem, g.mem, Cells \ X)
        BY <2>1, <4>1 DEF Merged
      <4>3. p \in Y
        BY <2>1, <2>2, <2>7, <3>6, <4>1 DEF Merged
      <4>4. \A a \in X : a \in Y
        BY <2>2, <3>6, <4>1
      <4>5. AlikeOn(h.mem, j.mem, Cells \ Y)
        BY <3>6, <4>2, <4>3, <4>4 DEF AlikeOn
      <4> QED BY <4>1, <4>5
    <3>e. Even(h, j)
      BY <2>1, <2>7, <3>5, EvenTransitive DEF Merged, Joined
    <3>11. Merged(h, j, p)
      BY <2>1, <3>6, <3>8, <3>9, <3>10, <3>e DEF Merged
    <3>12. NoTwo(j, p)
      <4>1. SUFFICES ASSUME NEW a \in BlocksOf(j), a < p, After(j, a) # j.brk
                     PROVE  ~(IsFree(j, a) /\ IsFree(j, After(j, a)))
        BY DEF NoTwo
      <4>2. a # p /\ a \in Nat
        BY <2>2, <3>6, <4>1, BlocksIn
      <4>3. a \in BlocksOf(g) /\ After(j, a) = After(g, a) /\ (IsFree(j, a) <=> IsFree(g, a))
        BY <3>7, <4>2
      <4>4. ~(IsFree(g, a) /\ IsFree(g, After(g, a)))
        BY <2>1, <3>6, <4>1, <4>3 DEF NoTwo
      <4>5. After(j, a) \in BlocksOf(j)
        BY <3>6, <4>1 DEF Good, Chain
      <4>6. IsFree(j, After(j, a)) <=> IsFree(g, After(j, a))
        BY <3>6, <3>7, <4>5
      <4> QED BY <4>3, <4>4, <4>6
    <3>13. CASE next # g.wilderness
      <4>1. After(j, p) >= (k + 1) + 2
        BY <2>1, <2>2, <3>1, <3>6
      <4>2. smerge(call) = Call(j, p)
        BY <3>3, <3>13
      <4> QED BY <1>0, <1>5, <1>a, <3>6, <3>11, <3>12, <4>1, <4>2 DEF Merging
    <3>14. CASE next = g.wilderness
      <4>1. After(j, p) = j.brk
        <5>1. g.firsthead # NULL
          BY <1>2, <2>1, BlocksIn
        <5> QED BY <1>2, <3>6, <3>14, <5>1, GoodEnds
      <4>2. \A a \in BlocksOf(j) : p < a => j.brk <= a
        BY <3>6, <4>1 DEF Good, Chain
      <4>3. j.brk \in Nat /\ p < j.brk
        BY <2>2, <3>6
      <4>4. Merged(h, j, j.brk) /\ NoTwo(j, j.brk)
        BY <3>6, <3>11, <3>12, <4>1, <4>2, <4>3, MergePasses
      <4>5. smerge(call) = Call(j, NULL)
        BY <3>3, <3>14
      <4>6. j.brk = h.brk
        BY <3>11 DEF Merged
      <4> QED BY <1>0, <1>a, <4>4, <4>5, <4>6 DEF Merging
    <3> QED BY <3>13, <3>14
  <2> QED BY <2>5, <2>6, <2>7
<1> QED BY <1>4, <1>5

CalledBy(h, call, k) ==
  /\ IsHeap(call.heap) /\ call = Call(call.heap, call.ptr)
  /\ Fine(call.heap) => Merging(h, call, k)

(* merge, of a heap that is in order: no two free blocks lie behind each    *)
(* other any more.                                                          *)
LEMMA MergeGood ==
  ASSUME NEW h, Good(h), Fine(merge(h))
  PROVE  Merged(h, merge(h), h.brk) /\ NoTwo(merge(h), h.brk)
<1>1. PICK f : /\ merge(h) = f[LastStep].heap /\ f[0] = Call(h, h.firsthead)
               /\ \A k \in 1..LastStep : f[k] = smerge(f[k - 1])
  BY MergeIs
<1>2. PICK S : S = {k \in Nat : k <= LastStep => CalledBy(h, f[k], k)}
  OBVIOUS
<1>3. 0 \in S
  <2>1. CalledBy(h, Call(h, h.firsthead), 0)
    BY MergingStarts, GoodEnds DEF Call, CalledBy
  <2> QED BY <1>1, <1>2, <2>1
<1>4. ASSUME NEW k \in Nat, k \in S PROVE k + 1 \in S
  <2>1. SUFFICES ASSUME k + 1 <= LastStep
                 PROVE  CalledBy(h, f[k + 1], k + 1)
    BY <1>2
  <2>2. f[k + 1] = smerge(f[k])
    <3>1. k + 1 \in 1..LastStep /\ (k + 1) - 1 = k
      BY <2>1, Constants
    <3> QED BY <1>1, <3>1
  <2>c. CalledBy(h, f[k], k)
    BY <1>2, <1>4, <2>1, Constants
  <2>3. /\ IsHeap(f[k].heap) /\ f[k] = Call(f[k].heap, f[k].ptr)
        /\ Fine(f[k].heap) => Merging(h, f[k], k)
    BY <2>c DEF CalledBy
  <2>4. Later(f[k].heap, f[k + 1].heap)
    BY <2>2, <2>3, SmergeLater
  <2>5. \E g, p : smerge(f[k]) = Call(g, p)
    BY DEF smerge
  <2>6. f[k + 1] = Call(f[k + 1].heap, f[k + 1].ptr)
    BY <2>2, <2>5 DEF Call
  <2>7. ASSUME Fine(f[k + 1].heap) PROVE Merging(h, f[k + 1], k + 1)
    <3>1. Merging(h, f[k], k)
      BY <2>3, <2>4, <2>7 DEF Later
    <3> QED BY <2>2, <2>3, <2>7, <3>1, MergingGoesOn
  <2> QED BY <2>4, <2>6, <2>7 DEF Later, CalledBy
<1>5. LastStep \in S /\ LastStep \in Nat
  <2>1. \A n \in Nat : n \in S
    BY <1>3, <1>4, NatInduct
  <2> QED BY <2>1, Constants
<1>6. Merging(h, f[LastStep], LastStep)
  <2>1. CalledBy(h, f[LastStep], LastStep)
    BY <1>2, <1>5
  <2> QED BY <1>1, <2>1 DEF CalledBy
<1>7. f[LastStep].ptr = NULL
  <2>1. SUFFICES ASSUME f[LastStep].ptr # NULL PROVE FALSE
    OBVIOUS
  <2>2. PICK g, p : g = f[LastStep].heap /\ p = f[LastStep].ptr
    OBVIOUS
  <2>3. Good(g) /\ p \in BlocksOf(g) /\ After(g, p) >= LastStep + 2
    BY <1>6, <2>1, <2>2 DEF Merging, Merged
  <2> QED BY <2>3, BlocksIn, Constants
<1> QED BY <1>1, <1>6, <1>7 DEF Merging

LEMMA MergedUsed ==
  ASSUME NEW h, Good(h), NEW g, NEW n, Merged(h, g, n)
  PROVE  Used(g) = Used(h) /\ Keeps(h, g, Used(h))
<1>1. PICK X : X = {a \in BlocksOf(g) : IsFree(h, a) /\ a <= n}
  OBVIOUS
<1>2. Good(g) /\ Maps(g) = Maps(h) /\ AlikeOn(h.mem, g.mem, Cells \ X) /\ Even(h, g)
  BY <1>1 DEF Merged
<1>3. ASSUME NEW a \in Maps(h) PROVE IsFree(g, a) <=> IsFree(h, a)
  BY <1>2, <1>3, MapsIn
<1>4. Used(g) = Used(h)
  BY <1>2, <1>3 DEF Used, Merged
<1>5. ASSUME NEW a \in Used(h), NEW c \in Extent(h, a) PROVE c \notin X
  <2>1. SUFFICES ASSUME c \in X PROVE FALSE
    OBVIOUS
  <2>2. a \in BlocksOf(h) \cup Maps(h) /\ ~IsFree(h, a)
    BY DEF Used
  <2>3. c \in BlocksOf(h) /\ IsFree(h, c)
    BY <1>1, <2>1 DEF Merged
  <2>4. c \in Extent(h, c)
    BY <2>3, BlocksIn DEF Extent
  <2> QED BY <2>2, <2>3, <2>4, <1>5, Apart
<1>6. Keeps(h, g, Used(h))
  <2>1. \A b \in Used(h) : b \in Used(h) /\ b \in BlocksOf(g) \cup Maps(g)
    BY <1>4 DEF Used
  <2> QED BY <1>2, <1>5, <2>1, Untouched
<1> QED BY <1>4, <1>6

(* The heap is as it was; only mappings change.                             *)
LEMMA HeapSame ==
  ASSUME NEW h, Good(h), NEW g, Typed(g), AlikeOn(h.mem, g.mem, 1..HeapMax), MapsOK(g),
         g.brk = h.brk, g.firsthead = h.firsthead, g.wilderness = h.wilderness, g.head = h.head
  PROVE  Good(g) /\ BlocksOf(g) = BlocksOf(h)
<1>1. PICK B : B = BlocksOf(h)
  OBVIOUS
<1>2. \A a \in B : Valid(h, a) /\ a \in 1..HeapMax
  BY <1>1, BlocksIn
<1>3. \A c \in 1..HeapMax : c \in Cells
  BY Constants DEF Cells
<1>4. \A a \in B : Valid(g, a) /\ After(g, a) = After(h, a)
  <2>1. PICK S : S = 1..HeapMax
    OBVIOUS
  <2>2. S \subseteq Cells /\ AlikeOn(h.mem, g.mem, S)
    BY <1>3, <2>1
  <2>3. \A a \in B : Valid(h, a) /\ a \in S
    BY <1>2, <2>1
  <2> QED BY <2>2, <2>3, ValidAlikeOn
<1>5. Chain(h, B) /\ Wild(h) /\ (h.head = NULL <=> h.firsthead = NULL)
  BY <1>1 DEF Good
<1>6. Chain(g, B)
  BY <1>4, <1>5 DEF Chain
<1>7. BlocksOf(g) = B
  BY <1>6, BlocksOfChain
<1>8. Wild(g)
  BY <1>1, <1>4, <1>5, <1>7 DEF Wild
<1> QED BY <1>1, <1>5, <1>6, <1>7, <1>8 DEF Good

LEMMA UnmapLater ==
  ASSUME NEW h, IsHeap(h), NEW block
  PROVE  Later(h, Unmap(h, block))
<1>1. PICK size, next, prev :
        /\ size = Size(h, block) /\ next = h.mem[block].next /\ prev = h.mem[block].prev
  OBVIOUS
<1>2. PICK h0 : h0 = Harmed(h, "mistaken", block <= HeapMax)
  OBVIOUS
<1>3. PICK h1 : h1 = IF block = h.mmhead THEN [h0 EXCEPT !.mmhead = next] ELSE Set(h0, prev, "next", next)
  OBVIOUS
<1>4. PICK h2 : h2 = IF next = NULL THEN h1
                     ELSE Set(h1, next, "prev", IF block = h.mmhead THEN NULL ELSE prev)
  OBVIOUS
<1>5. PICK x, y, z, m :
        Unmap(h, block) = [h2 EXCEPT !.num_allocated_blocks = x, !.num_allocated_bytes = y,
                                     !.num_meta_data_bytes = z, !.mem = m]
  BY <1>1, <1>2, <1>3, <1>4, ZenonT(60) DEF Unmap
<1>6. Later(h, h0) /\ IsHeap(h0)
  BY <1>2, HarmedLater DEF Later
<1>7. Later(h0, h1) /\ IsHeap(h1)
  <2>1. Later(h0, [h0 EXCEPT !.mmhead = next])
    BY <1>6, FieldLater
  <2> QED BY <1>3, <1>6, <2>1, SetLater DEF Later
<1>8. Later(h1, h2) /\ IsHeap(h2)
  BY <1>4, <1>7, SetLater, LaterReflexive DEF Later
<1>9. PICK g : g = [h2 EXCEPT !.num_allocated_blocks = x, !.num_allocated_bytes = y,
                              !.num_meta_data_bytes = z]
  OBVIOUS
<1>10. Later(h2, g) /\ IsHeap(g)
  BY <1>8, <1>9, FieldsLater DEF Later
<1>11. Later(g, [g EXCEPT !.mem = m])
  BY <1>10, FieldLater
<1>12. Unmap(h, block) = [g EXCEPT !.mem = m]
  BY <1>5, <1>9
<1> QED BY <1>6, <1>7, <1>8, <1>10, <1>11, <1>12, LaterTransitive

LEMMA SfreeLater ==
  ASSUME NEW h, IsHeap(h), NEW p
  PROVE  Later(h, sfree(h, p))
<1>1. PICK block : block = p - MetaSize
  OBVIOUS
<1>2. \/ sfree(h, p) = h \/ sfree(h, p) = Dead(h, "cookie")
      \/ sfree(h, p) = Unmap(h, block) \/ sfree(h, p) = merge(Freed(h, block))
  BY <1>1 DEF sfree
<1>3. Later(h, h) /\ Later(h, Dead(h, "cookie")) /\ Later(h, Unmap(h, block))
  BY LaterReflexive, DeadLater, UnmapLater
<1>4. Later(h, merge(Freed(h, block)))
  <2>1. PICK g : g = Freed(h, block)
    OBVIOUS
  <2>2. Later(h, g) /\ IsHeap(g)
    BY <2>1, TakenLater DEF Later
  <2>3. Later(g, merge(g))
    BY <2>2, MergeLater
  <2> QED BY <2>1, <2>2, <2>3, LaterTransitive
<1> QED BY <1>2, <1>3, <1>4

(* The links and the counters that Unmap changes, and the cells             *)
Unmapping(h2, g, block, size) ==
  /\ IsHeap(g) /\ g.mem = [c \in Cells |-> IF c \in block..(block + size) THEN Unmapped ELSE h2.mem[c]]
  /\ SameBounds(h2, g) /\ g.head = h2.head /\ g.dead = h2.dead /\ g.harm = h2.harm
  /\ g.num_free_blocks = h2.num_free_blocks /\ g.num_free_bytes = h2.num_free_bytes
  /\ g.num_allocated_blocks = h2.num_allocated_blocks - 1
  /\ g.num_allocated_bytes = h2.num_allocated_bytes - size
  /\ g.num_meta_data_bytes = h2.num_meta_data_bytes - MetaSize

LEMMA UnmapIs ==
  ASSUME NEW h2, IsHeap(h2), NEW block, NEW size, NEW g,
         g = [h2 EXCEPT !.num_allocated_blocks = @ - 1,
                 !.num_allocated_bytes = @ - size,
                 !.num_meta_data_bytes = @ - MetaSize,
                 !.mem = [c \in Cells |-> IF c \in block..(block + size) THEN Unmapped ELSE @[c]]]
  PROVE  Unmapping(h2, g, block, size)
<1>1. h2 = [mem |-> h2.mem, brk |-> h2.brk, head |-> h2.head, firsthead |-> h2.firsthead,
       wilderness |-> h2.wilderness, mmhead |-> h2.mmhead,
       num_free_blocks |-> h2.num_free_blocks, num_free_bytes |-> h2.num_free_bytes,
       num_allocated_blocks |-> h2.num_allocated_blocks,
       num_allocated_bytes |-> h2.num_allocated_bytes,
       num_meta_data_bytes |-> h2.num_meta_data_bytes, dead |-> h2.dead, harm |-> h2.harm]
  BY DEF IsHeap
<1>2. IsHeap(g)
  BY <1>1 DEF IsHeap
<1>3. g.mem = [c \in Cells |-> IF c \in block..(block + size) THEN Unmapped ELSE h2.mem[c]]
  BY <1>1
<1>4. /\ SameBounds(h2, g) /\ g.head = h2.head /\ g.dead = h2.dead /\ g.harm = h2.harm
      /\ g.num_free_blocks = h2.num_free_blocks /\ g.num_free_bytes = h2.num_free_bytes
  BY <1>1 DEF SameBounds
<1>5. /\ g.num_allocated_blocks = h2.num_allocated_blocks - 1
      /\ g.num_allocated_bytes = h2.num_allocated_bytes - size
      /\ g.num_meta_data_bytes = h2.num_meta_data_bytes - MetaSize
  BY <1>1
<1> QED BY <1>2, <1>3, <1>4, <1>5 DEF Unmapping

LEMMA MmheadStep ==
  ASSUME NEW h, Typed(h), NEW a \in Ptr
  PROVE  /\ Typed([h EXCEPT !.mmhead = a]) /\ [h EXCEPT !.mmhead = a].mem = h.mem
         /\ [h EXCEPT !.mmhead = a].brk = h.brk /\ [h EXCEPT !.mmhead = a].head = h.head
         /\ [h EXCEPT !.mmhead = a].firsthead = h.firsthead
         /\ [h EXCEPT !.mmhead = a].wilderness = h.wilderness
         /\ SameCounters(h, [h EXCEPT !.mmhead = a])
  BY DEF Typed, IsHeap, Counters, SameCounters

LEMMA AlikeAll ==
  ASSUME NEW m
  PROVE  Alike(m, m)
  BY DEF Alike

LEMMA UnmapEven ==
  ASSUME NEW h, Good(h), NEW block \in Maps(h), NEW g, Good(g),
         BlocksOf(g) = BlocksOf(h), Maps(g) = Maps(h) \ {block},
         AlikeOn(h.mem, g.mem, Cells \ Extent(h, block)),
         NEW h2, SameCounters(h, h2), Unmapping(h2, g, block, Size(h, block))
  PROVE  Even(h, g)
<1>1. PICK s, X : s = Size(h, block) /\ X = {block}
  OBVIOUS
<1>2. s \in Nat /\ ~IsFree(h, block) /\ block \notin BlocksOf(h)
  BY <1>1, MapsIn, BlocksIn, Constants
<1>3. Weighs(h, X, 0, 0, 1, s) /\ Weighs(g, {}, 0, 0, 0, 0)
  BY <1>1, <1>2, WeighsUsed, WeighsNone
<1>4. /\ \A a \in X : a \in AllOf(h)
      /\ \A a \in {} : a \in AllOf(g)
      /\ AllOf(g) \ {} = AllOf(h) \ X
  BY <1>1, <1>2 DEF AllOf
<1>5. \A a \in AllOf(h) \ X : Size(g, a) = Size(h, a) /\ IsFree(g, a) = IsFree(h, a)
  <2>1. ASSUME NEW a \in AllOf(h) \ X PROVE Valid(h, a) /\ a \in Cells \ Extent(h, block)
    <3>1. a \in BlocksOf(h) \cup Maps(h) /\ a # block
      BY <1>1 DEF AllOf
    <3>2. Valid(h, a) /\ a \in Cells /\ a \in Extent(h, a)
      BY <3>1, ExtentIn DEF Extent
    <3> QED BY <3>1, <3>2, Apart
  <2>2. PICK T : T = Cells \ Extent(h, block)
    OBVIOUS
  <2>3. T \subseteq Cells /\ AlikeOn(h.mem, g.mem, T) /\ \A a \in AllOf(h) \ X : Valid(h, a) /\ a \in T
    BY <2>1, <2>2
  <2> QED BY <2>3, ValidAlikeOn
<1>6. Counters(h) /\ MetaSize = 1
  BY Constants DEF Good, Typed
<1>7. /\ g.num_free_blocks = h.num_free_blocks /\ g.num_free_bytes = h.num_free_bytes
      /\ g.num_allocated_blocks = h.num_allocated_blocks - 1
      /\ g.num_allocated_bytes = h.num_allocated_bytes - s
      /\ g.num_meta_data_bytes = h.num_meta_data_bytes - 1
  BY <1>1, <1>6 DEF Unmapping, SameCounters
<1>8. /\ g.num_free_blocks = h.num_free_blocks + (0 - 0)
      /\ g.num_free_bytes = h.num_free_bytes + (0 - 0)
      /\ g.num_allocated_blocks = h.num_allocated_blocks + (0 - 1)
      /\ g.num_allocated_bytes = h.num_allocated_bytes + (0 - s)
      /\ g.num_meta_data_bytes = h.num_meta_data_bytes + (0 - 1)
  BY <1>2, <1>6, <1>7 DEF Counters
<1> QED BY <1>3, <1>4, <1>5, <1>8, EvenBut

LEMMA UnmapGood ==
  ASSUME NEW h, Good(h), NEW block \in Maps(h)
  PROVE  LET g == Unmap(h, block)
         IN  /\ Good(g) /\ BlocksOf(g) = BlocksOf(h) /\ Maps(g) = Maps(h) \ {block}
             /\ AlikeOn(h.mem, g.mem, Cells \ Extent(h, block))
             /\ Even(h, g)
<1>1. PICK size, next, prev :
        /\ size = Size(h, block) /\ next = h.mem[block].next /\ prev = h.mem[block].prev
  OBVIOUS
<1>2. /\ block \in MapCells /\ block \in Cells /\ block \in Nat /\ block > HeapMax /\ Valid(h, block)
      /\ size \in Nat /\ size <= SIZE_LIMIT
  BY <1>1, MapsIn
<1>3. Typed(h) /\ next \in Ptr /\ prev \in Ptr /\ NULL \in Ptr /\ MapsOK(h)
  BY <1>1, <1>2, GoodEnds, LinkOf, Constants DEF Ptr, Good
<1>4. h = Harmed(h, "mistaken", block <= HeapMax)
  BY <1>2, Constants DEF Harmed
<1>5. PICK h1 : h1 = IF block = h.mmhead THEN [h EXCEPT !.mmhead = next] ELSE Set(h, prev, "next", next)
  OBVIOUS
<1>6. PICK h2 : h2 = IF next = NULL THEN h1
                     ELSE Set(h1, next, "prev", IF block = h.mmhead THEN NULL ELSE prev)
  OBVIOUS
<1>7. PICK g : g = Unmap(h, block)
  OBVIOUS
<1>8. g = [h2 EXCEPT !.num_allocated_blocks = @ - 1,
                 !.num_allocated_bytes = @ - size,
                 !.num_meta_data_bytes = @ - MetaSize,
                 !.mem = [c \in Cells |-> IF c \in block..(block + size) THEN Unmapped ELSE @[c]]]
  BY <1>1, <1>4, <1>5, <1>6, <1>7, ZenonT(60) DEF Unmap
<1>9. /\ Typed(h1) /\ Alike(h.mem, h1.mem) /\ h1.brk = h.brk /\ h1.head = h.head
      /\ h1.firsthead = h.firsthead /\ h1.wilderness = h.wilderness
      /\ SameCounters(h, h1)
  <2>1. CASE block = h.mmhead
    <3>1. h1 = [h EXCEPT !.mmhead = next]
      BY <1>5, <2>1
    <3> QED BY <1>3, <3>1, MmheadStep, AlikeAll
  <2>2. CASE block # h.mmhead
    <3>1. h1 = Set(h, prev, "next", next)
      BY <1>5, <2>2
    <3> QED BY <1>3, <3>1, SetStep DEF Links, SameBounds
  <2> QED BY <2>1, <2>2
<1>10. /\ Typed(h2) /\ Alike(h1.mem, h2.mem) /\ h2.brk = h1.brk /\ h2.head = h1.head
       /\ h2.firsthead = h1.firsthead /\ h2.wilderness = h1.wilderness
       /\ SameCounters(h1, h2)
  <2>1. CASE next = NULL
    BY <1>6, <1>9, <2>1, AlikeAll DEF SameCounters
  <2>2. CASE next # NULL
    <3>1. PICK v \in Ptr : v = IF block = h.mmhead THEN NULL ELSE prev
      BY <1>3
    <3>2. h2 = Set(h1, next, "prev", v)
      BY <1>6, <2>2, <3>1
    <3> QED BY <1>9, <3>2, SetStep DEF Links, SameBounds
  <2> QED BY <2>1, <2>2
<1>11. Unmapping(h2, g, block, size)
  <2>1. IsHeap(h2)
    BY <1>10 DEF Typed
  <2> QED BY <1>8, <2>1, UnmapIs
<1>12. /\ IsHeap(g) /\ g.mem = [c \in Cells |-> IF c \in block..(block + size) THEN Unmapped ELSE h2.mem[c]]
       /\ SameBounds(h2, g) /\ g.head = h2.head
  BY <1>11 DEF Unmapping
<1>13. Counters(g)
  BY <1>2, <1>10, <1>11, Constants DEF Unmapping, Counters, Typed
<1>14. PICK E : E = Extent(h, block)
  OBVIOUS
<1>15. /\ \A c \in Cells : g.mem[c] = IF c \in E THEN Unmapped ELSE h2.mem[c]
       /\ g.mem \in [Cells -> Cell]
  <2>1. E = block..(block + size)
    BY <1>1, <1>14 DEF Extent
  <2>2. h2.mem \in [Cells -> Cell] /\ Unmapped \in Cell
    BY <1>10 DEF Typed, Cell
  <2> QED BY <1>12, <2>1, <2>2
<1>16. Typed(g)
  BY <1>10, <1>12, <1>13, <1>15 DEF Typed, SameBounds
<1>17. AlikeOn(h.mem, g.mem, Cells \ E)
  BY <1>9, <1>10, <1>15 DEF Alike, AlikeOn
<1>18. \A a \in MapCells : a # block => a \notin E
  <2>1. SUFFICES ASSUME NEW a \in MapCells, a # block PROVE a \notin E
    OBVIOUS
  <2>2. PICK j \in 1..MmapMax, k \in 1..MmapMax : a = MmapAddress(j) /\ block = MmapAddress(k)
    BY <1>2 DEF MapCells
  <2>3. a + SIZE_LIMIT < block \/ block + SIZE_LIMIT < a
    BY <2>1, <2>2, MapsApart
  <2>4. a \in Nat
    BY <2>1, MapCellsAre
  <2> QED BY <1>1, <1>2, <1>14, <2>3, <2>4, Constants DEF Extent
<1>19. block \in E /\ \A c \in E : c > HeapMax
  BY <1>1, <1>2, <1>14, Constants DEF Extent
<1>20. \A a \in MapCells : a # block =>
         /\ g.mem[a] # Unmapped <=> h.mem[a] # Unmapped
         /\ Valid(g, a) <=> Valid(h, a)
         /\ Valid(h, a) => Size(g, a) = Size(h, a) /\ (IsFree(g, a) <=> IsFree(h, a))
  <2>1. SUFFICES ASSUME NEW a \in MapCells, a # block
                 PROVE  /\ g.mem[a] # Unmapped <=> h.mem[a] # Unmapped
                        /\ Valid(g, a) <=> Valid(h, a)
                        /\ Valid(h, a) => Size(g, a) = Size(h, a) /\ (IsFree(g, a) <=> IsFree(h, a))
    OBVIOUS
  <2>2. a \in Cells \ E
    BY <1>18, <2>1, MapCellsAre
  <2>3. /\ Valid(g, a) <=> Valid(h, a)
        /\ Valid(h, a) => Size(g, a) = Size(h, a) /\ (IsFree(g, a) <=> IsFree(h, a))
    BY <1>17, <2>2, ValidAlikeOn
  <2>4. ~Valid(h, a) => g.mem[a] = h.mem[a]
    BY <1>17, <2>2, ValidAlikeOn, SMTT(30)
  <2>5. Valid(h, a) => g.mem[a] # Unmapped /\ h.mem[a] # Unmapped
    BY <2>3 DEF Valid, Unmapped
  <2> QED BY <2>3, <2>4, <2>5
<1>21. g.mem[block] = Unmapped
  BY <1>2, <1>15, <1>19
<1>22. MapsOK(g)
  BY <1>3, <1>20, <1>21 DEF MapsOK
<1>23. Maps(g) = Maps(h) \ {block}
  <2>1. Maps(g) = {a \in MapCells : g.mem[a] # Unmapped} /\ Maps(h) = {a \in MapCells : h.mem[a] # Unmapped}
    BY MapsAre
  <2> QED BY <1>20, <1>21, <2>1
<1>24. AlikeOn(h.mem, g.mem, 1..HeapMax)
  <2>1. \A c \in 1..HeapMax : c \in Cells \ E
    BY <1>19, Constants DEF Cells
  <2> QED BY <1>17, <2>1, AlikeOnLess
<1>25. /\ g.brk = h.brk /\ g.firsthead = h.firsthead /\ g.wilderness = h.wilderness /\ g.head = h.head
  BY <1>9, <1>10, <1>12 DEF SameBounds
<1>26. Good(g) /\ BlocksOf(g) = BlocksOf(h)
  BY <1>16, <1>22, <1>24, <1>25, HeapSame
<1>27. Even(h, g)
  <2>1. SameCounters(h, h2)
    BY <1>9, <1>10 DEF SameCounters
  <2> QED BY <1>1, <1>11, <1>14, <1>17, <1>23, <1>26, <2>1, UnmapEven
<1> QED BY <1>7, <1>14, <1>17, <1>23, <1>26, <1>27

(* Block b is not in use any more; the other regions are as they were.      *)
Frees(h, g, b) == Good(g) /\ Used(g) = Used(h) \ {b} /\ Keeps(h, g, Used(h) \ {b})

LEMMA MarkedUsed ==
  ASSUME NEW h, Good(h), NEW b \in BlocksOf(h), NEW g, Marked(h, g, b), Even(h, g)
  PROVE  /\ IsFree(g, b) => Used(g) = Used(h) \ {b}
         /\ ~IsFree(g, b) => Used(g) = Used(h) \cup {b}
         /\ Keeps(h, g, Used(h) \ {b})
<1>1. /\ Good(g) /\ BlocksOf(g) = BlocksOf(h) /\ Maps(g) = Maps(h)
      /\ AlikeOn(h.mem, g.mem, Cells \ {b})
  BY DEF Marked
<1>2. ASSUME NEW a \in BlocksOf(h) \cup Maps(h), a # b PROVE IsFree(g, a) <=> IsFree(h, a)
  <2>1. Valid(h, a) /\ a \in Cells \ {b}
    BY <1>2, ExtentIn
  <2> QED BY <1>1, <2>1, ValidAlikeOn
<1>3. ASSUME NEW a \in Used(h) \ {b}, NEW c \in Extent(h, a) PROVE c \notin {b}
  <2>1. a \in BlocksOf(h) \cup Maps(h) /\ a # b
    BY DEF Used
  <2>2. b \in Extent(h, b)
    BY BlocksIn DEF Extent
  <2> QED BY <1>3, <2>1, <2>2, Apart
<1>4. Keeps(h, g, Used(h) \ {b})
  <2>1. \A a \in Used(h) \ {b} : a \in Used(h) /\ a \in BlocksOf(g) \cup Maps(g)
    BY <1>1 DEF Used
  <2> QED BY <1>1, <1>3, <2>1, Untouched
<1>5. IsFree(g, b) => Used(g) = Used(h) \ {b}
  BY <1>1, <1>2 DEF Used
<1>6. ~IsFree(g, b) => Used(g) = Used(h) \cup {b}
  BY <1>1, <1>2 DEF Used
<1> QED BY <1>4, <1>5, <1>6

LEMMA SfreeGood ==
  ASSUME NEW h, Good(h), NEW p, p - MetaSize \in Used(h), p # NULL, Fine(sfree(h, p))
  PROVE  Frees(h, sfree(h, p), p - MetaSize)
<1>1. PICK b, g : b = p - MetaSize /\ g = sfree(h, p)
  OBVIOUS
<1>2. b \in BlocksOf(h) \cup Maps(h) /\ ~IsFree(h, b) /\ b \in Used(h)
  BY <1>1 DEF Used
<1>3. Valid(h, b) /\ IsHeap(h) /\ Fine(h) /\ h.dead = "no"
  BY <1>2, ExtentIn, GoodEnds, SfreeLater DEF Later, Fine
<1>4. CASE Size(h, b) >= MMAP_THRESHOLD
  <2>1. g = Unmap(h, b)
    BY <1>1, <1>3, <1>4 DEF sfree
  <2>2. b \in Maps(h)
    <3>1. PICK h0 : h0 = Harmed(h, "mistaken", b <= HeapMax)
      OBVIOUS
    <3>2. b <= HeapMax => ~Fine(g)
      <4>1. ASSUME b <= HeapMax PROVE FALSE
        <5>1. Fine(h0)
          <6>1. IsHeap(h0)
            BY <1>3, <3>1, HarmedLater DEF Later
          <6>2. PICK h1, h2 :
                  /\ h1 = IF b = h.mmhead THEN [h0 EXCEPT !.mmhead = h.mem[b].next]
                          ELSE Set(h0, h.mem[b].prev, "next", h.mem[b].next)
                  /\ h2 = IF h.mem[b].next = NULL THEN h1
                          ELSE Set(h1, h.mem[b].next, "prev", IF b = h.mmhead THEN NULL ELSE h.mem[b].prev)
            OBVIOUS
          <6>3. g = [h2 EXCEPT !.num_allocated_blocks = @ - 1,
                   !.num_allocated_bytes = @ - Size(h, b),
                   !.num_meta_data_bytes = @ - MetaSize,
                   !.mem = [c \in Cells |-> IF c \in b..(b + Size(h, b)) THEN Unmapped ELSE @[c]]]
            BY <2>1, <3>1, <6>2, ZenonT(60) DEF Unmap
          <6>4. Later(h0, h1) /\ IsHeap(h1)
            <7>1. Later(h0, [h0 EXCEPT !.mmhead = h.mem[b].next])
              BY <6>1, FieldLater
            <7> QED BY <6>1, <6>2, <7>1, SetLater DEF Later
          <6>5. Later(h1, h2) /\ IsHeap(h2)
            BY <6>2, <6>4, SetLater, LaterReflexive DEF Later
          <6>6. Unmapping(h2, g, b, Size(h, b))
            BY <6>3, <6>5, UnmapIs
          <6> QED BY <1>1, <6>4, <6>5, <6>6 DEF Later, Unmapping, Fine
        <5>2. ~(b <= HeapMax)
          BY <1>3, <3>1, <5>1, HarmedLater
        <5> QED BY <4>1, <5>2
      <4> QED BY <4>1
    <3> QED BY <1>1, <1>2, <3>2, BlocksIn
  <2>3. /\ Good(g) /\ BlocksOf(g) = BlocksOf(h) /\ Maps(g) = Maps(h) \ {b}
        /\ AlikeOn(h.mem, g.mem, Cells \ Extent(h, b)) /\ Even(h, g)
    BY <2>1, <2>2, UnmapGood
  <2>4. ASSUME NEW a \in BlocksOf(h) \cup Maps(h), a # b
        PROVE  /\ IsFree(g, a) <=> IsFree(h, a)
               /\ \A c \in Extent(h, a) : c \notin Extent(h, b)
    <3>1. \A c \in Extent(h, a) : c \notin Extent(h, b)
      BY <1>2, <2>4, Apart
    <3>2. Valid(h, a) /\ a \in Cells /\ a \in Extent(h, a)
      BY <2>4, ExtentIn DEF Extent
    <3>3. a \in Cells \ Extent(h, b)
      BY <3>1, <3>2
    <3> QED BY <2>3, <3>1, <3>2, <3>3, ValidAlikeOn
  <2>5. b \notin BlocksOf(h)
    BY <2>2, MapsIn, BlocksIn
  <2>6. Used(g) = Used(h) \ {b}
    BY <2>3, <2>4, <2>5 DEF Used
  <2>7. \A a \in Used(h) \ {b} : a \in Used(h) /\ a \in BlocksOf(g) \cup Maps(g)
    BY <2>6 DEF Used
  <2>8. \A a \in Used(h) \ {b} : \A c \in Extent(h, a) : c \notin Extent(h, b)
    BY <2>4 DEF Used
  <2>9. Keeps(h, g, Used(h) \ {b})
    BY <2>3, <2>7, <2>8, Untouched
  <2> QED BY <1>1, <2>3, <2>6, <2>9 DEF Frees
<1>5. CASE ~(Size(h, b) >= MMAP_THRESHOLD)
  <2>1. b \in BlocksOf(h)
    BY <1>2, <1>5, MapsIn
  <2>2. PICK f : f = Freed(h, b)
    OBVIOUS
  <2>3. g = merge(f)
    BY <1>1, <1>2, <1>3, <1>5, <2>2 DEF sfree
  <2>4. Marked(h, f, b) /\ IsFree(f, b) /\ Good(f) /\ Even(h, f)
    BY <1>2, <2>1, <2>2, FreedGood DEF Marked
  <2>5. Used(f) = Used(h) \ {b} /\ Keeps(h, f, Used(h) \ {b})
    BY <2>1, <2>4, MarkedUsed
  <2>6. Merged(f, g, f.brk)
    BY <1>1, <2>3, <2>4, MergeGood
  <2>7. Good(g) /\ Used(g) = Used(f) /\ Keeps(f, g, Used(f))
    BY <2>4, <2>6, MergedUsed DEF Merged
  <2> QED BY <1>1, <2>5, <2>7, KeepsTransitive DEF Frees
<1> QED BY <1>4, <1>5

-----------------------------------------------------------------------------
(* The break                                                                *)

(* Cells between the old break and the new one                              *)
Moves(h, n) == {c \in Cells : c \in h.brk..(h.brk + n - 1) \/ c \in (h.brk + n)..(h.brk - 1)}

LEMMA SbrkIs ==
  ASSUME NEW h, Typed(h), NEW n \in Int, h.brk + n \in 1..(HeapMax + 1)
  PROVE  LET g == sbrk(h, n)
         IN  /\ Typed(g) /\ g.brk = h.brk + n
             /\ AlikeOn(h.mem, g.mem, Cells \ Moves(h, n))
             /\ g.firsthead = h.firsthead /\ g.wilderness = h.wilderness
             /\ g.mmhead = h.mmhead /\ g.head = h.head
             /\ g.dead = h.dead /\ g.harm = h.harm /\ SameCounters(h, g)
<1>1. PICK g, m : g = sbrk(h, n) /\ m = [c \in Cells |->
                      CASE c \in h.brk..(h.brk + n - 1) -> Data("zero")
                        [] c \in (h.brk + n)..(h.brk - 1) -> Unmapped
                        [] OTHER -> h.mem[c]]
  OBVIOUS
<1>2. IsHeap(h) /\ h.mem \in [Cells -> Cell] /\ h.brk \in Int
  BY Constants DEF Typed
<1>3. PICK f : f = [h EXCEPT !.brk = h.brk + n]
  OBVIOUS
<1>4. g = [f EXCEPT !.mem = m]
  BY <1>1, <1>3 DEF sbrk
<1>5. /\ IsHeap(f) /\ f.brk = h.brk + n /\ f.head = h.head
      /\ f.firsthead = h.firsthead /\ f.wilderness = h.wilderness /\ f.mmhead = h.mmhead
      /\ f.dead = h.dead /\ f.harm = h.harm /\ SameCounters(h, f)
  BY <1>2, <1>3 DEF IsHeap, SameCounters
<1>6. /\ IsHeap(g) /\ g.mem = m /\ g.brk = h.brk + n /\ g.head = h.head
      /\ g.firsthead = h.firsthead /\ g.wilderness = h.wilderness /\ g.mmhead = h.mmhead
      /\ g.dead = h.dead /\ g.harm = h.harm /\ SameCounters(h, g)
  BY <1>4, <1>5 DEF IsHeap, SameCounters
<1>7. Data("zero") \in Cell /\ Unmapped \in Cell
  BY DEF Data, Cell, DataCell, Contents
<1>8. \A c \in Cells : /\ m[c] \in Cell
                       /\ c \notin Moves(h, n) => m[c] = h.mem[c]
  BY <1>1, <1>2, <1>7 DEF Moves
<1>9. m \in [Cells -> Cell]
  BY <1>1, <1>8
<1>10. Typed(g)
  BY <1>6, <1>9 DEF Typed, Counters, SameCounters
<1>11. AlikeOn(h.mem, g.mem, Cells \ Moves(h, n))
  BY <1>6, <1>8 DEF AlikeOn
<1> QED BY <1>1, <1>6, <1>10, <1>11

LEMMA SbrkLater ==
  ASSUME NEW h, IsHeap(h), NEW n
  PROVE  Later(h, sbrk(h, n))
<1>1. PICK b, m : sbrk(h, n) = [h EXCEPT !.brk = b, !.mem = m]
  BY Zenon DEF sbrk
<1>2. PICK f : f = [h EXCEPT !.brk = b]
  OBVIOUS
<1>3. Later(h, f) /\ IsHeap(f)
  BY <1>2, FieldLater DEF Later
<1>4. Later(f, [f EXCEPT !.mem = m])
  BY <1>3, FieldLater
<1>5. sbrk(h, n) = [f EXCEPT !.mem = m]
  BY <1>1, <1>2
<1> QED BY <1>3, <1>4, <1>5, LaterTransitive

LEMMA EnlargedLater ==
  ASSUME NEW h, IsHeap(h), NEW needed
  PROVE  Later(h, Enlarged(h, needed))
<1>1. PICK w, h0, h1 : w = h.wilderness /\ h0 = sbrk(h, needed) /\ h1 = HeapListRemove(h0, w)
  OBVIOUS
<1>2. Later(h, h0) /\ IsHeap(h0)
  BY <1>1, SbrkLater DEF Later
<1>3. Later(h0, h1) /\ IsHeap(h1)
  BY <1>1, <1>2, RemoveLater DEF Later
<1>4. PICK h2 : h2 = Set(h1, w, "size", Size(h1, w) + needed)
  OBVIOUS
<1>5. Later(h1, h2) /\ IsHeap(h2)
  BY <1>3, <1>4, SetLater DEF Later
<1>6. PICK h3 : h3 = HeapListInsert(h2, w)
  OBVIOUS
<1>7. Later(h2, h3) /\ IsHeap(h3)
  BY <1>5, <1>6, InsertLater DEF Later
<1>8. PICK v : Enlarged(h, needed) = IF h1.dead # "no" THEN h1
                                     ELSE [h3 EXCEPT !.num_allocated_bytes = v]
  BY <1>1, <1>4, <1>6, Zenon DEF Enlarged
<1>9. Later(h3, [h3 EXCEPT !.num_allocated_bytes = v])
  BY <1>7, FieldLater
<1> QED BY <1>2, <1>3, <1>5, <1>7, <1>8, <1>9, LaterTransitive

(* The last block has become larger, or smaller, by needed cells.           *)
Grown(h, g, needed) ==
  LET w == h.wilderness
  IN  /\ Good(g) /\ BlocksOf(g) = BlocksOf(h) /\ Maps(g) = Maps(h)
      /\ AlikeOn(h.mem, g.mem, Cells \ (Moves(h, needed) \cup {w}))
      /\ Valid(g, w) /\ Size(g, w) = Size(h, w) + needed /\ (IsFree(g, w) <=> IsFree(h, w))
      /\ g.num_free_blocks = h.num_free_blocks /\ g.num_free_bytes = h.num_free_bytes
      /\ g.num_allocated_blocks = h.num_allocated_blocks
      /\ g.num_allocated_bytes = h.num_allocated_bytes + needed
      /\ g.num_meta_data_bytes = h.num_meta_data_bytes

LEMMA EnlargedGood ==
  ASSUME NEW h, Good(h), h.firsthead # NULL, NEW needed \in Int,
         Size(h, h.wilderness) + needed >= 0, h.brk + needed <= HeapMax + 1,
         Fine(Enlarged(h, needed))
  PROVE  Grown(h, Enlarged(h, needed), needed)
<1>0. PICK B, e, w, s :
        /\ B = BlocksOf(h) /\ e = [a \in B |-> After(h, a)]
        /\ w = h.wilderness /\ s = Size(h, w) + needed
  OBVIOUS
<1>1. /\ Ends(B, e, h.firsthead, h.brk) /\ Typed(h) /\ IsHeap(h) /\ h.mem \in [Cells -> Cell]
      /\ h.brk \in Nat /\ h.brk > 0 /\ h.brk <= HeapMax + 1
      /\ w \in B /\ After(h, w) = h.brk
  BY <1>0, GoodEnds
<1>2. /\ Valid(h, w) /\ w \in Cells /\ w \in Nat /\ w \in Ptr /\ w > 0 /\ w <= HeapMax
      /\ w \notin MapCells /\ Size(h, w) \in Nat /\ h.brk = w + Size(h, w) + 1
  BY <1>0, <1>1, BlocksIn, Constants DEF Cells, Ptr
<1>3. s \in Nat /\ h.brk + needed = w + s + 1 /\ h.brk + needed \in 1..(HeapMax + 1)
  BY <1>0, <1>2, Constants
<1>4. PICK g0 : g0 = sbrk(h, needed)
  OBVIOUS
<1>5. /\ Typed(g0) /\ g0.brk = h.brk + needed
      /\ AlikeOn(h.mem, g0.mem, Cells \ Moves(h, needed))
      /\ g0.firsthead = h.firsthead /\ g0.wilderness = h.wilderness /\ SameCounters(h, g0)
  BY <1>1, <1>3, <1>4, SbrkIs
<1>6. PICK h1 : h1 = HeapListRemove(g0, w)
  OBVIOUS
<1>7. Links(g0, h1) /\ Typed(h1) /\ Alike(g0.mem, h1.mem) /\ SameBounds(g0, h1)
  BY <1>2, <1>5, <1>6, RemoveList DEF ListStep, Links
<1>8. \A c \in Moves(h, needed) : c \in Nat /\ c > w /\ c <= HeapMax
  BY <1>1, <1>2, <1>3, Constants DEF Moves
<1>9. AlikeOn(h.mem, h1.mem, Cells \ Moves(h, needed))
  BY <1>5, <1>7 DEF Alike, AlikeOn
<1>10. w \in Cells \ Moves(h, needed)
  BY <1>2, <1>8
<1>11. Valid(h1, w) /\ Size(h1, w) = Size(h, w) /\ (IsFree(h1, w) <=> IsFree(h, w))
  BY <1>2, <1>9, <1>10, ValidAlikeOn
<1>12. PICK g : g = Enlarged(h, needed)
  OBVIOUS
<1>13. PICK h2 : h2 = Set(h1, w, "size", s)
  OBVIOUS
<1>14. PICK h3, v : h3 = HeapListInsert(h2, w) /\ v = h3.num_allocated_bytes + needed
  OBVIOUS
<1>15. g = IF h1.dead # "no" THEN h1 ELSE [h3 EXCEPT !.num_allocated_bytes = v]
  <2>1. s = Size(h1, w) + needed
    BY <1>0, <1>11
  <2> QED BY <1>0, <1>4, <1>6, <1>12, <1>13, <1>14, <2>1, Zenon DEF Enlarged
<1>16. g = [h3 EXCEPT !.num_allocated_bytes = v]
  BY <1>12, <1>15 DEF Fine
<1>17. /\ IsHeap(h2) /\ h2.mem = Edit(h1.mem, w, "size", s)
       /\ SameBounds(h1, h2) /\ SameCounters(h1, h2)
  BY <1>7, <1>11, <1>13, SetFields DEF Typed
<1>18. h1.mem[w] \in HeaderCell /\ h1.mem \in [Cells -> Cell]
  BY <1>7, <1>11, HeaderCells DEF Typed
<1>19. /\ h2.mem \in [Cells -> Cell] /\ AlikeOn(h1.mem, h2.mem, Cells \ {w})
       /\ h2.mem[w] \in HeaderCell /\ h2.mem[w].is_free = h1.mem[w].is_free /\ h2.mem[w].size = s
  <2>1. PICK m, k : m = h1.mem /\ k = Edit(m, w, "size", s)
    OBVIOUS
  <2>2. m \in [Cells -> Cell] /\ m[w] \in HeaderCell
    BY <1>18, <2>1
  <2>3. /\ k \in [Cells -> Cell] /\ AlikeOn(m, k, Cells \ {w})
        /\ k[w] \in HeaderCell /\ k[w].is_free = m[w].is_free /\ k[w].size = s
    <3>1. w \in Cells /\ s \in Nat
      BY <1>2, <1>3
    <3> QED BY <2>1, <2>2, <3>1, SizeEdit
  <2>4. h2.mem = k
    BY <1>17, <2>1
  <2> QED BY <2>1, <2>3, <2>4
<1>20. Typed(h2)
  <2>1. h2.head \in Ptr
    BY <1>7, <1>11, <1>13 DEF Set, Typed, IsHeap
  <2>2. Counters(h2)
    BY <1>7, <1>17 DEF Typed, Counters, SameCounters
  <2> QED BY <1>7, <1>17, <1>19, <2>1, <2>2 DEF Typed, SameBounds
<1>21. Links(h2, h3) /\ Typed(h3) /\ (Fine(h3) => h3.head # NULL) /\ Alike(h2.mem, h3.mem)
       /\ SameBounds(h2, h3)
  BY <1>2, <1>14, <1>20, InsertList DEF ListStep, Links
<1>22. /\ Typed(g) /\ g.mem = h3.mem /\ g.brk = h3.brk /\ g.firsthead = h3.firsthead
       /\ g.wilderness = h3.wilderness /\ g.head = h3.head /\ (Fine(g) => Fine(h3))
  <2>1. v \in Int
    BY <1>14, <1>21 DEF Typed, Counters
  <2> QED BY <1>16, <1>21, <2>1 DEF Typed, IsHeap, Counters, Fine
<1>23. /\ g.brk = h.brk + needed /\ g.firsthead = h.firsthead /\ g.wilderness = w
       /\ g.head # NULL
  BY <1>0, <1>5, <1>7, <1>12, <1>17, <1>21, <1>22 DEF SameBounds
<1>24. AlikeOn(h.mem, g.mem, Cells \ (Moves(h, needed) \cup {w}))
  BY <1>9, <1>19, <1>21, <1>22 DEF Alike, AlikeOn
<1>25. Valid(g, w) /\ Size(g, w) = s /\ (IsFree(g, w) <=> IsFree(h, w)) /\ After(g, w) = g.brk
  <2>1. Valid(h2, w) /\ Size(h2, w) = s /\ (IsFree(h2, w) <=> IsFree(h1, w))
    BY <1>2, <1>18, <1>19, HeaderIs
  <2>2. Valid(h3, w) /\ Size(h3, w) = s /\ (IsFree(h3, w) <=> IsFree(h2, w))
    BY <1>21, <2>1, ValidAlike
  <2>3. Valid(g, w) /\ Size(g, w) = s /\ (IsFree(g, w) <=> IsFree(h, w))
    BY <1>11, <1>22, <2>1, <2>2 DEF Valid, Size, IsFree
  <2> QED BY <1>3, <1>23, <2>3, Constants DEF After
<1>26. PICK f : f = [a \in B |-> IF a = w THEN h.brk + needed ELSE e[a]]
  OBVIOUS
<1>27. Ends(B, f, h.firsthead, h.brk + needed)
  <2>1. e[w] = h.brk /\ w \in B /\ h.brk \in Nat /\ h.brk + needed \in Nat /\ w < h.brk + needed
    BY <1>0, <1>1, <1>2, <1>3
  <2>2. PICK more : more = h.brk + needed
    OBVIOUS
  <2>3. f = [a \in B |-> IF a = w THEN more ELSE e[a]] /\ more \in Nat /\ w < more
    BY <1>26, <2>1, <2>2
  <2>4. Ends(B, f, h.firsthead, more)
    BY <1>1, <2>1, <2>3, EndsGrow
  <2> QED BY <2>2, <2>4
<1>28. \A a \in B : Valid(g, a) /\ After(g, a) = f[a]
  <2>1. SUFFICES ASSUME NEW a \in B, a # w PROVE Valid(g, a) /\ After(g, a) = f[a]
    BY <1>1, <1>23, <1>25, <1>26
  <2>2. Valid(h, a) /\ a \in Cells /\ a \in Nat /\ a < h.brk
    BY <1>0, <2>1, BlocksIn
  <2>3. a < w
    <3>1. \A x, y \in B : x < y => e[x] <= y
      BY <1>1 DEF Ends
    <3>e. e[w] = h.brk
      BY <1>0, <1>1
    <3>2. ~(w < a)
      BY <1>1, <2>1, <2>2, <3>1, <3>e
    <3> QED BY <1>2, <2>1, <2>2, <3>2
  <2>4. a \in Cells \ (Moves(h, needed) \cup {w})
    BY <1>2, <1>8, <2>1, <2>2, <2>3
  <2>5. Valid(g, a) /\ After(g, a) = After(h, a)
    BY <1>24, <2>2, <2>4, ValidAlikeOn
  <2> QED BY <1>0, <1>26, <2>1, <2>5
<1>29. AlikeOn(h.mem, g.mem, MapCells)
  <2>1. \A c \in MapCells : c \in Cells \ (Moves(h, needed) \cup {w})
    BY <1>2, <1>8, MapCellsAre, Constants
  <2> QED BY <1>24, <2>1, AlikeOnLess
<1>30. f[w] = g.brk
  BY <1>1, <1>23, <1>26
<1>31. Good(g) /\ BlocksOf(g) = B /\ Maps(g) = Maps(h)
  <2>1. Ends(B, f, g.firsthead, g.brk) /\ (g.head = NULL <=> g.firsthead = NULL)
    BY <1>23, <1>27
  <2> QED BY <1>1, <1>22, <1>23, <1>28, <1>29, <1>30, <2>1, ShapeGood
<1>32. SameCounters(h, h3)
  BY <1>5, <1>7, <1>17, <1>21 DEF Links, SameCounters
<1>33. /\ g.num_free_blocks = h3.num_free_blocks /\ g.num_free_bytes = h3.num_free_bytes
       /\ g.num_allocated_blocks = h3.num_allocated_blocks
       /\ g.num_allocated_bytes = v
       /\ g.num_meta_data_bytes = h3.num_meta_data_bytes
  BY <1>16, <1>21 DEF Typed, IsHeap
<1>34. /\ g.num_free_blocks = h.num_free_blocks /\ g.num_free_bytes = h.num_free_bytes
       /\ g.num_allocated_blocks = h.num_allocated_blocks
       /\ g.num_allocated_bytes = h.num_allocated_bytes + needed
       /\ g.num_meta_data_bytes = h.num_meta_data_bytes
  BY <1>14, <1>32, <1>33 DEF SameCounters
<1> QED BY <1>0, <1>12, <1>24, <1>25, <1>31, <1>34 DEF Grown

LEMMA MovesIn ==
  ASSUME NEW h, Good(h), h.firsthead # NULL, NEW needed \in Int,
         Size(h, h.wilderness) + needed >= 0, h.brk + needed <= HeapMax + 1
  PROVE  /\ h.wilderness \in BlocksOf(h) /\ After(h, h.wilderness) = h.brk
         /\ \A a \in BlocksOf(h) : a <= h.wilderness
         /\ \A c \in Moves(h, needed) : /\ c \in Nat /\ c > h.wilderness /\ c <= HeapMax
                                        /\ c > h.wilderness + Size(h, h.wilderness)
                                           \/ c > h.wilderness + Size(h, h.wilderness) + needed
<1>1. PICK w, B, s : w = h.wilderness /\ B = BlocksOf(h) /\ s = Size(h, w)
  OBVIOUS
<1>2. /\ w \in B /\ After(h, w) = h.brk /\ h.brk \in Nat
  BY <1>1, GoodEnds
<1>3. w \in Nat /\ s \in Nat /\ h.brk = w + s + 1 /\ h.brk <= HeapMax + 1
  BY <1>1, <1>2, BlocksIn
<1>4. \A c \in Moves(h, needed) : /\ c \in Nat /\ c > w /\ c <= HeapMax
                                  /\ c > w + s \/ c > w + s + needed
  BY <1>1, <1>3, Constants DEF Moves
<1>5. \A a \in B : a <= w
  <2>1. SUFFICES ASSUME NEW a \in B, w < a PROVE FALSE
    BY <1>1, <1>3, BlocksIn
  <2>2. After(h, w) <= a
    BY <1>1, <1>2, <2>1 DEF Good, Chain
  <2>3. a < h.brk /\ a \in Nat
    BY <1>1, <2>1, BlocksIn
  <2> QED BY <1>2, <2>2, <2>3
<1> QED BY <1>1, <1>2, <1>4, <1>5

LEMMA GrownUsed ==
  ASSUME NEW h, Good(h), h.firsthead # NULL, NEW needed \in Int,
         Size(h, h.wilderness) + needed >= 0, h.brk + needed <= HeapMax + 1,
         NEW g, Grown(h, g, needed), ~IsFree(h, h.wilderness)
  PROVE  /\ Good(g) /\ Used(g) = Used(h) /\ Keeps(h, g, Used(h) \ {h.wilderness})
         /\ Size(g, h.wilderness) = Size(h, h.wilderness) + needed
<1>1. PICK w, R : w = h.wilderness /\ R = Moves(h, needed) \cup {w}
  OBVIOUS
<1>2. /\ Good(g) /\ BlocksOf(g) = BlocksOf(h) /\ Maps(g) = Maps(h)
      /\ AlikeOn(h.mem, g.mem, Cells \ R)
      /\ Size(g, w) = Size(h, w) + needed /\ (IsFree(g, w) <=> IsFree(h, w))
  BY <1>1 DEF Grown
<1>3. /\ w \in BlocksOf(h) /\ \A a \in BlocksOf(h) : a <= w
      /\ \A c \in Moves(h, needed) : /\ c \in Nat /\ c > w /\ c <= HeapMax
                                     /\ c > w + Size(h, w) \/ c > w + Size(h, w) + needed
  BY <1>1, MovesIn
<1>4. ASSUME NEW a \in BlocksOf(h) \cup Maps(h), a # w, NEW c \in Extent(h, a)
      PROVE  c \in Cells \ R
  <2>1. c \in Cells /\ a \in Nat /\ Size(h, a) \in Nat /\ c >= a /\ c <= a + Size(h, a) /\ c \in Int
    BY <1>4, ExtentIn DEF Extent
  <2>2. CASE a \in BlocksOf(h)
    <3>1. a < w
      BY <1>3, <1>4, <2>2, BlocksIn
    <3>2. After(h, a) <= w
      BY <1>3, <2>2, <3>1 DEF Good, Chain
    <3>3. a + Size(h, a) < w /\ w \in Nat
      BY <1>3, <2>2, <3>2, BlocksIn
    <3> QED BY <1>1, <1>3, <2>1, <3>3
  <2>3. CASE a \in Maps(h)
    <3>1. a > HeapMax /\ w <= HeapMax /\ w \in Nat
      BY <1>3, <2>3, MapsIn, BlocksIn
    <3> QED BY <1>1, <1>3, <2>1, <3>1, Constants
  <2> QED BY <2>2, <2>3, <1>4
<1>5. ASSUME NEW a \in BlocksOf(h) \cup Maps(h) PROVE IsFree(g, a) <=> IsFree(h, a)
  <2>1. CASE a = w
    BY <1>2, <2>1
  <2>2. CASE a # w
    <3>1. Valid(h, a) /\ a \in Extent(h, a)
      BY <1>5, ExtentIn DEF Extent
    <3>2. PICK T : T = Cells \ R
      OBVIOUS
    <3>3. T \subseteq Cells /\ AlikeOn(h.mem, g.mem, T) /\ a \in T
      BY <1>2, <1>4, <1>5, <2>2, <3>1, <3>2
    <3> QED BY <3>1, <3>3, ValidAlikeOn
  <2> QED BY <2>1, <2>2
<1>6. Used(g) = Used(h)
  BY <1>2, <1>5 DEF Used
<1>e. Even(h, g)
  <2>1. PICK s, t, X : s = Size(h, w) /\ t = Size(g, w) /\ X = {w}
    OBVIOUS
  <2>2. s \in Nat /\ t \in Nat /\ t = s + needed /\ ~IsFree(h, w) /\ ~IsFree(g, w)
    BY <1>1, <1>2, <1>3, <2>1, BlocksIn
  <2>3. Weighs(h, X, 0, 0, 1, s) /\ Weighs(g, X, 0, 0, 1, t)
    BY <2>1, <2>2, WeighsUsed
  <2>4. /\ \A a \in X : a \in AllOf(h) /\ a \in AllOf(g)
        /\ AllOf(g) \ X = AllOf(h) \ X
    BY <1>2, <1>3, <2>1 DEF AllOf
  <2>5. \A a \in AllOf(h) \ X : Size(g, a) = Size(h, a) /\ IsFree(g, a) = IsFree(h, a)
    <3>1. \A a \in AllOf(h) \ X : Valid(h, a) /\ a \in Extent(h, a) /\ a \in BlocksOf(h) \cup Maps(h) /\ a # w
      BY <2>1, ExtentIn DEF Extent, AllOf
    <3>2. PICK T : T = Cells \ R
      OBVIOUS
    <3>3. T \subseteq Cells /\ AlikeOn(h.mem, g.mem, T) /\ \A a \in AllOf(h) \ X : Valid(h, a) /\ a \in T
      BY <1>2, <1>4, <3>1, <3>2
    <3> QED BY <3>3, ValidAlikeOn
  <2>6. Counters(h)
    BY DEF Good, Typed
  <2>7. /\ g.num_free_blocks = h.num_free_blocks /\ g.num_free_bytes = h.num_free_bytes
        /\ g.num_allocated_blocks = h.num_allocated_blocks
        /\ g.num_allocated_bytes = h.num_allocated_bytes + needed
        /\ g.num_meta_data_bytes = h.num_meta_data_bytes
    BY DEF Grown
  <2>8. /\ g.num_free_blocks = h.num_free_blocks + (0 - 0)
        /\ g.num_free_bytes = h.num_free_bytes + (0 - 0)
        /\ g.num_allocated_blocks = h.num_allocated_blocks + (1 - 1)
        /\ g.num_allocated_bytes = h.num_allocated_bytes + (t - s)
        /\ g.num_meta_data_bytes = h.num_meta_data_bytes + (1 - 1)
    BY <2>2, <2>6, <2>7 DEF Counters
  <2> QED BY <1>2, <2>3, <2>4, <2>5, <2>8, EvenBut
<1>7. Keeps(h, g, Used(h) \ {w})
  <2>1. \A a \in Used(h) \ {w} : a \in Used(h) /\ a \in BlocksOf(g) \cup Maps(g)
    BY <1>6 DEF Used
  <2>2. \A a \in Used(h) \ {w} : \A c \in Extent(h, a) : c \notin R
    BY <1>4 DEF Used
  <2> QED BY <1>2, <1>e, <2>1, <2>2, Untouched
<1> QED BY <1>1, <1>2, <1>6, <1>7

-----------------------------------------------------------------------------
(* New blocks and mappings                                                  *)

(* One block in use more, of size cells, is counted.                        *)
OneMore(h, g, size) ==
  /\ g.num_free_blocks = h.num_free_blocks /\ g.num_free_bytes = h.num_free_bytes
  /\ g.num_allocated_blocks = h.num_allocated_blocks + 1
  /\ g.num_allocated_bytes = h.num_allocated_bytes + size
  /\ g.num_meta_data_bytes = h.num_meta_data_bytes + MetaSize

LEMMA EvenMore ==
  ASSUME NEW h, Good(h), NEW g, Good(g), NEW size \in Nat, OneMore(h, g, size),
         NEW b, b \notin AllOf(h), AllOf(g) = AllOf(h) \cup {b},
         \A a \in AllOf(h) : Size(g, a) = Size(h, a) /\ IsFree(g, a) = IsFree(h, a),
         Size(g, b) = size, ~IsFree(g, b)
  PROVE  Even(h, g)
<1>1. PICK X : X = {b}
  OBVIOUS
<1>2. Weighs(h, {}, 0, 0, 0, 0) /\ Weighs(g, X, 0, 0, 1, size)
  BY <1>1, WeighsUsed, WeighsNone
<1>3. /\ \A a \in {} : a \in AllOf(h)
      /\ \A a \in X : a \in AllOf(g)
      /\ AllOf(g) \ X = AllOf(h) \ {}
      /\ \A a \in AllOf(h) \ {} : Size(g, a) = Size(h, a) /\ IsFree(g, a) = IsFree(h, a)
  BY <1>1
<1>4. Counters(h) /\ MetaSize = 1
  BY Constants DEF Good, Typed
<1>5. /\ g.num_free_blocks = h.num_free_blocks + (0 - 0)
      /\ g.num_free_bytes = h.num_free_bytes + (0 - 0)
      /\ g.num_allocated_blocks = h.num_allocated_blocks + (1 - 0)
      /\ g.num_allocated_bytes = h.num_allocated_bytes + (size - 0)
      /\ g.num_meta_data_bytes = h.num_meta_data_bytes + (1 - 0)
  BY <1>4 DEF Counters, OneMore
<1> QED BY <1>2, <1>3, <1>5, EvenBut

(* The new last block, behind the old break                                 *)
Extended(h, g, size) ==
  /\ Typed(g) /\ g.brk = h.brk + size + 1 /\ g.wilderness = h.brk
  /\ g.firsthead = h.firsthead /\ g.head = h.head /\ g.dead = h.dead /\ g.harm = h.harm
  /\ AlikeOn(h.mem, g.mem, Cells \ Moves(h, size + 1))
  /\ h.brk \in Moves(h, size + 1)
  /\ Valid(g, h.brk) /\ Size(g, h.brk) = size /\ ~IsFree(g, h.brk)
  /\ OneMore(h, g, size)

LEMMA AtBreakIs ==
  ASSUME NEW h, Typed(h), NEW size \in Nat, h.brk + size + 1 <= HeapMax + 1,
         NEW g, g = AtBreak(h, size)
  PROVE  Extended(h, g, size)
<1>1. /\ IsHeap(h) /\ h.brk \in Nat /\ h.brk > 0 /\ h.brk <= HeapMax
      /\ h.brk + (size + 1) \in 1..(HeapMax + 1) /\ size + 1 \in Int
  BY Constants DEF Typed
<1>2. PICK n, b, no : n = size + 1 /\ b = h.brk /\ no \in BOOLEAN /\ ~no
  OBVIOUS
<1>3. PICK g0 : g0 = sbrk(h, n)
  OBVIOUS
<1>4. /\ Typed(g0) /\ g0.brk = h.brk + n
      /\ AlikeOn(h.mem, g0.mem, Cells \ Moves(h, n))
      /\ g0.firsthead = h.firsthead /\ g0.wilderness = h.wilderness
      /\ g0.mmhead = h.mmhead /\ g0.head = h.head
      /\ g0.dead = h.dead /\ g0.harm = h.harm /\ SameCounters(h, g0)
  BY <1>1, <1>2, <1>3, SbrkIs
<1>5. b \in Cells /\ b \in Ptr /\ b \in Moves(h, n)
  BY <1>1, <1>2, Constants DEF Cells, Ptr, Moves
<1>6. PICK c : c = Header(size, no)
  OBVIOUS
<1>7. c \in HeaderCell /\ c \in Cell /\ c.size = size /\ c.is_free = no
  BY <1>2, <1>6, HeaderIn
<1>8. PICK m : m = [g0.mem EXCEPT ![b] = c]
  OBVIOUS
<1>9. PICK f1 : f1 = [g0 EXCEPT !.mem = m]
  OBVIOUS
<1>10. PICK f2 : f2 = [f1 EXCEPT !.wilderness = b]
  OBVIOUS
<1>11. g = newAllocAdjustment(f2, size)
  <2>1. c = Header(size, FALSE)
    BY <1>2, <1>6, Zenon
  <2>2. f2 = [g0 EXCEPT !.mem[b] = c, !.wilderness = b]
    BY <1>8, <1>9, <1>10
  <2> QED BY <1>2, <1>3, <2>1, <2>2, Constants DEF AtBreak
<1>12. PICK f3 : f3 = [f2 EXCEPT !.num_allocated_blocks = f2.num_allocated_blocks + 1]
  OBVIOUS
<1>13. PICK f4 : f4 = [f3 EXCEPT !.num_allocated_bytes = f2.num_allocated_bytes + size]
  OBVIOUS
<1>14. g = [f4 EXCEPT !.num_meta_data_bytes = f2.num_meta_data_bytes + MetaSize]
  BY <1>11, <1>12, <1>13 DEF newAllocAdjustment
<1>15. m \in [Cells -> Cell] /\ m[b] = c /\ \A d \in Cells : d # b => m[d] = g0.mem[d]
  BY <1>4, <1>5, <1>7, <1>8 DEF Typed
<1>16. Typed(f1) /\ f1.mem = m /\ f1.brk = g0.brk /\ f1.head = g0.head
       /\ f1.firsthead = g0.firsthead /\ f1.dead = g0.dead /\ f1.harm = g0.harm
  BY <1>4, <1>9, <1>15 DEF Typed, IsHeap, Counters
<1>17. Typed(f2) /\ f2.mem = m /\ f2.brk = g0.brk /\ f2.head = g0.head /\ f2.wilderness = b
       /\ f2.firsthead = g0.firsthead /\ f2.dead = g0.dead /\ f2.harm = g0.harm
  BY <1>5, <1>10, <1>16 DEF Typed, IsHeap, Counters
<1>18. Typed(f3) /\ f3.mem = m /\ f3.brk = g0.brk /\ f3.head = g0.head /\ f3.wilderness = b
       /\ f3.firsthead = g0.firsthead /\ f3.dead = g0.dead /\ f3.harm = g0.harm
       /\ f3.num_allocated_bytes = f2.num_allocated_bytes
       /\ f3.num_meta_data_bytes = f2.num_meta_data_bytes
  BY <1>12, <1>17 DEF Typed, IsHeap, Counters
<1>19. Typed(f4) /\ f4.mem = m /\ f4.brk = g0.brk /\ f4.head = g0.head /\ f4.wilderness = b
       /\ f4.firsthead = g0.firsthead /\ f4.dead = g0.dead /\ f4.harm = g0.harm
       /\ f4.num_meta_data_bytes = f2.num_meta_data_bytes
  BY <1>13, <1>18, <1>17 DEF Typed, IsHeap, Counters
<1>20. Typed(g) /\ g.mem = m /\ g.brk = g0.brk /\ g.head = g0.head /\ g.wilderness = b
       /\ g.firsthead = g0.firsthead /\ g.dead = g0.dead /\ g.harm = g0.harm
  BY <1>14, <1>19, <1>17, Constants DEF Typed, IsHeap, Counters
<1>21. AlikeOn(h.mem, g.mem, Cells \ Moves(h, n))
  BY <1>4, <1>5, <1>15, <1>20 DEF AlikeOn
<1>22. Valid(g, b) /\ Size(g, b) = size /\ (IsFree(g, b) <=> no)
  BY <1>5, <1>7, <1>15, <1>20, HeaderIs
<1>23. SameCounters(g0, f2)
  <2>1. SameCounters(g0, f1)
    BY <1>4, <1>9 DEF Typed, IsHeap, SameCounters
  <2>2. SameCounters(f1, f2)
    BY <1>10, <1>16 DEF Typed, IsHeap, SameCounters
  <2> QED BY <2>1, <2>2 DEF SameCounters
<1>24. /\ f3.num_free_blocks = f2.num_free_blocks /\ f3.num_free_bytes = f2.num_free_bytes
       /\ f3.num_allocated_blocks = f2.num_allocated_blocks + 1
  BY <1>12, <1>17 DEF Typed, IsHeap
<1>25. /\ f4.num_free_blocks = f3.num_free_blocks /\ f4.num_free_bytes = f3.num_free_bytes
       /\ f4.num_allocated_blocks = f3.num_allocated_blocks
       /\ f4.num_allocated_bytes = f2.num_allocated_bytes + size
  BY <1>13, <1>18 DEF Typed, IsHeap
<1>26. /\ g.num_free_blocks = f4.num_free_blocks /\ g.num_free_bytes = f4.num_free_bytes
       /\ g.num_allocated_blocks = f4.num_allocated_blocks
       /\ g.num_allocated_bytes = f4.num_allocated_bytes
       /\ g.num_meta_data_bytes = f2.num_meta_data_bytes + MetaSize
  BY <1>14, <1>19 DEF Typed, IsHeap
<1>27. OneMore(h, g, size)
  BY <1>4, <1>23, <1>24, <1>25, <1>26 DEF OneMore, SameCounters
<1> QED BY <1>1, <1>2, <1>4, <1>5, <1>20, <1>21, <1>22, <1>27 DEF Extended

LEMMA AtBreakLater ==
  ASSUME NEW h, IsHeap(h), NEW size
  PROVE  Later(h, AtBreak(h, size))
<1>1. PICK g0, b : g0 = sbrk(h, size + MetaSize) /\ b = h.brk
  OBVIOUS
<1>2. Later(h, g0) /\ IsHeap(g0)
  BY <1>1, SbrkLater DEF Later
<1>3. PICK f, v : f = [g0 EXCEPT !.mem[b] = v, !.wilderness = b]
                  /\ AtBreak(h, size) = newAllocAdjustment(f, size)
  BY <1>1, Zenon DEF AtBreak
<1>4. PICK m : m = [g0.mem EXCEPT ![b] = v]
  OBVIOUS
<1>5. PICK f1 : f1 = [g0 EXCEPT !.mem = m]
  OBVIOUS
<1>6. f = [f1 EXCEPT !.wilderness = b]
  BY <1>3, <1>4, <1>5
<1>7. Later(g0, f1) /\ IsHeap(f1)
  BY <1>2, <1>5, FieldLater DEF Later
<1>8. Later(f1, f) /\ IsHeap(f)
  BY <1>6, <1>7, FieldLater DEF Later
<1>9. Later(f, newAllocAdjustment(f, size))
  <2>1. PICK f3, f4 : /\ f3 = [f EXCEPT !.num_allocated_blocks = f.num_allocated_blocks + 1]
                      /\ f4 = [f3 EXCEPT !.num_allocated_bytes = f.num_allocated_bytes + size]
    OBVIOUS
  <2>2. PICK g : g = [f4 EXCEPT !.num_meta_data_bytes = f.num_meta_data_bytes + MetaSize]
    OBVIOUS
  <2>3. newAllocAdjustment(f, size) = g
    BY <2>1, <2>2 DEF newAllocAdjustment
  <2>4. Later(f, f3) /\ IsHeap(f3)
    BY <1>8, <2>1, FieldLater DEF Later
  <2>5. Later(f3, f4) /\ IsHeap(f4)
    BY <2>1, <2>4, FieldLater DEF Later
  <2>6. Later(f4, g)
    BY <2>2, <2>5, FieldLater
  <2> QED BY <2>3, <2>4, <2>5, <2>6, LaterTransitive
<1> QED BY <1>2, <1>3, <1>7, <1>8, <1>9, LaterTransitive

(* There is a new block at the old break.                                   *)
Added(h, g, size) ==
  /\ Good(g) /\ BlocksOf(g) = BlocksOf(h) \cup {h.brk} /\ Maps(g) = Maps(h)
  /\ AlikeOn(h.mem, g.mem, Cells \ Moves(h, size + 1))
  /\ Size(g, h.brk) = size /\ ~IsFree(g, h.brk)
  /\ OneMore(h, g, size)

LEMMA AddedIs ==
  ASSUME NEW h, Good(h), NEW size \in Nat, h.brk + size + 1 <= HeapMax + 1,
         NEW g, Typed(g), g.brk = h.brk + size + 1, g.wilderness = h.brk,
         g.firsthead = IF h.firsthead = NULL THEN h.brk ELSE h.firsthead,
         g.head = NULL <=> g.firsthead = NULL,
         AlikeOn(h.mem, g.mem, Cells \ Moves(h, size + 1)),
         Valid(g, h.brk), Size(g, h.brk) = size, ~IsFree(g, h.brk), OneMore(h, g, size)
  PROVE  Added(h, g, size)
<1>0. PICK B, e, b, more :
        /\ B = BlocksOf(h) /\ e = [a \in B |-> After(h, a)]
        /\ b = h.brk /\ more = h.brk + size + 1
  OBVIOUS
<1>1. /\ Ends(B, e, h.firsthead, b) /\ b \in Nat /\ b > 0 /\ b <= HeapMax + 1
  BY <1>0, GoodEnds
<1>2. more \in Nat /\ b < more /\ more = b + size + 1
  BY <1>0, <1>1
<1>3. PICK f : f = [a \in B \cup {b} |-> IF a = b THEN more ELSE e[a]]
  OBVIOUS
<1>4. Ends(B \cup {b}, f, IF h.firsthead = NULL THEN b ELSE h.firsthead, more)
  <2>1. PICK first : first = h.firsthead
    OBVIOUS
  <2>2. Ends(B, e, first, b) /\ b \in Nat /\ b > 0 /\ more \in Nat /\ b < more
    BY <1>1, <1>2, <2>1
  <2>3. Ends(B \cup {b}, [a \in B \cup {b} |-> IF a = b THEN more ELSE e[a]],
             IF first = NULL THEN b ELSE first, more)
    BY <2>2, EndsAppend
  <2> QED BY <1>3, <2>1, <2>3
<1>5. Ends(B \cup {b}, f, g.firsthead, g.brk)
  BY <1>0, <1>4
<1>6. \A c \in Moves(h, size + 1) : c \in Nat /\ c >= b /\ c <= HeapMax
  BY <1>0, <1>1, <1>2, Constants DEF Moves
<1>7. \A a \in B \cup {b} : Valid(g, a) /\ After(g, a) = f[a]
  <2>1. Valid(g, b) /\ After(g, b) = f[b]
    BY <1>0, <1>2, <1>3, Constants DEF After
  <2>2. ASSUME NEW a \in B PROVE Valid(g, a) /\ After(g, a) = f[a]
    <3>1. Valid(h, a) /\ a \in Cells /\ a \in Nat /\ a < b
      BY <1>0, <2>2, BlocksIn
    <3>2. a \in Cells \ Moves(h, size + 1)
      BY <1>1, <1>6, <3>1
    <3>3. Valid(g, a) /\ After(g, a) = After(h, a)
      BY <3>1, <3>2, ValidAlikeOn
    <3> QED BY <1>0, <1>1, <1>3, <2>2, <3>1, <3>3
  <2> QED BY <2>1, <2>2
<1>8. AlikeOn(h.mem, g.mem, MapCells)
  <2>1. \A c \in MapCells : c \in Cells \ Moves(h, size + 1)
    BY <1>6, MapCellsAre, Constants
  <2> QED BY <2>1, AlikeOnLess
<1>9. b \in B \cup {b} /\ f[b] = g.brk
  BY <1>0, <1>3
<1>10. Good(g) /\ BlocksOf(g) = B \cup {b} /\ Maps(g) = Maps(h)
  <2>1. g.wilderness \in B \cup {b} /\ f[g.wilderness] = g.brk
    BY <1>0, <1>9
  <2> QED BY <1>5, <1>7, <1>8, <2>1, ShapeGood
<1> QED BY <1>0, <1>10 DEF Added

LEMMA AddedUsed ==
  ASSUME NEW h, Good(h), NEW size \in Nat, h.brk + size + 1 <= HeapMax + 1,
         NEW g, Added(h, g, size)
  PROVE  /\ h.brk \notin Used(h) /\ Used(g) = Used(h) \cup {h.brk} /\ Keeps(h, g, Used(h))
<1>0. PICK b, R : b = h.brk /\ R = Moves(h, size + 1)
  OBVIOUS
<1>g. b \in Nat /\ b > 0
  BY <1>0, GoodEnds
<1>1. b \in Nat /\ b > 0 /\ b <= HeapMax
  BY <1>0, <1>g, Constants
<1>2. \A c \in R : c \in Nat /\ c >= b /\ c <= HeapMax
  BY <1>0, <1>1, Constants DEF Moves
<1>3. b \notin BlocksOf(h) /\ b \notin Maps(h)
  <2>1. \A a \in BlocksOf(h) : a \in Nat /\ a < b
    BY <1>0, BlocksIn
  <2>2. \A a \in Maps(h) : a \in Nat /\ a > HeapMax
    BY MapsIn
  <2> QED BY <1>1, <2>1, <2>2, Constants
<1>4. ASSUME NEW a \in BlocksOf(h) \cup Maps(h), NEW c \in Extent(h, a)
      PROVE  c \in Cells \ R
  <2>1. c \in Cells /\ a \in Nat /\ Size(h, a) \in Nat /\ c >= a /\ c <= a + Size(h, a) /\ c \in Int
    BY <1>4, ExtentIn DEF Extent
  <2>2. CASE a \in BlocksOf(h)
    <3>1. a + Size(h, a) < b
      BY <1>0, <2>2, BlocksIn
    <3> QED BY <1>1, <1>2, <2>1, <3>1
  <2>3. CASE a \in Maps(h)
    <3>1. a > HeapMax
      BY <2>3, MapsIn
    <3> QED BY <1>2, <2>1, <3>1, Constants
  <2> QED BY <2>2, <2>3, <1>4
<1>5. AlikeOn(h.mem, g.mem, Cells \ R) /\ BlocksOf(g) = BlocksOf(h) \cup {b} /\ Maps(g) = Maps(h)
      /\ ~IsFree(g, b) /\ Size(g, b) = size /\ Good(g) /\ OneMore(h, g, size)
  BY <1>0 DEF Added
<1>6. ASSUME NEW a \in BlocksOf(h) \cup Maps(h)
      PROVE  Size(g, a) = Size(h, a) /\ IsFree(g, a) = IsFree(h, a)
  <2>1. Valid(h, a) /\ a \in Extent(h, a)
    BY <1>6, ExtentIn DEF Extent
  <2>2. PICK T : T = Cells \ R
    OBVIOUS
  <2>3. T \subseteq Cells /\ AlikeOn(h.mem, g.mem, T) /\ a \in T
    BY <1>4, <1>5, <1>6, <2>1, <2>2
  <2> QED BY <2>1, <2>3, ValidAlikeOn
<1>e. Even(h, g)
  <2>1. b \notin AllOf(h) /\ AllOf(g) = AllOf(h) \cup {b}
    BY <1>3, <1>5 DEF AllOf
  <2>2. \A a \in AllOf(h) : Size(g, a) = Size(h, a) /\ IsFree(g, a) = IsFree(h, a)
    BY <1>6 DEF AllOf
  <2> QED BY <1>5, <2>1, <2>2, EvenMore
<1>7. Used(g) = Used(h) \cup {b}
  BY <1>5, <1>6 DEF Used
<1>8. Keeps(h, g, Used(h))
  <2>1. \A a \in Used(h) : a \in Used(h) /\ a \in BlocksOf(g) \cup Maps(g)
    BY <1>7 DEF Used
  <2>2. \A a \in Used(h) : \A c \in Extent(h, a) : c \notin R
    BY <1>4 DEF Used
  <2> QED BY <1>5, <1>e, <2>1, <2>2, Untouched
<1> QED BY <1>0, <1>3, <1>7, <1>8 DEF Used

(* firstAllocation and NewBlock                                             *)
LEMMA FirstAdded ==
  ASSUME NEW h, Good(h), h.head = NULL, NEW size \in Nat, h.brk + size + 1 <= HeapMax + 1,
         NEW g, g = [AtBreak(h, size) EXCEPT !.head = h.brk, !.firsthead = h.brk]
  PROVE  Added(h, g, size)
<1>1. PICK k, b : k = AtBreak(h, size) /\ b = h.brk
  OBVIOUS
<1>g. Typed(h) /\ b \in Nat /\ b > 0 /\ h.firsthead = NULL
  BY <1>1, GoodEnds
<1>2. Typed(h) /\ b \in Nat /\ b > 0 /\ b <= HeapMax /\ b \in Ptr /\ h.firsthead = NULL
  BY <1>1, <1>g, Constants DEF Ptr
<1>3. /\ Typed(k) /\ k.brk = h.brk + size + 1 /\ k.wilderness = b
      /\ AlikeOn(h.mem, k.mem, Cells \ Moves(h, size + 1))
      /\ Valid(k, b) /\ Size(k, b) = size /\ ~IsFree(k, b) /\ OneMore(h, k, size)
  <2>1. Extended(h, k, size)
    BY <1>1, <1>2, AtBreakIs
  <2> QED BY <1>1, <2>1 DEF Extended
<1>4. PICK f : f = [k EXCEPT !.head = b]
  OBVIOUS
<1>5. g = [f EXCEPT !.firsthead = b]
  BY <1>1, <1>4
<1>6. Typed(f) /\ f.mem = k.mem /\ f.brk = k.brk /\ f.wilderness = k.wilderness /\ f.head = b
  BY <1>2, <1>3, <1>4 DEF Typed, IsHeap, Counters
<1>7. /\ Typed(g) /\ g.mem = k.mem /\ g.brk = k.brk /\ g.wilderness = k.wilderness /\ g.head = b
      /\ g.firsthead = b
  BY <1>2, <1>5, <1>6 DEF Typed, IsHeap, Counters
<1>8. Valid(g, b) /\ Size(g, b) = size /\ ~IsFree(g, b)
  BY <1>3, <1>7 DEF Valid, Size, IsFree
<1>9. OneMore(h, g, size)
  <2>1. SameCounters(k, f)
    BY <1>3, <1>4 DEF Typed, IsHeap, SameCounters
  <2>2. SameCounters(f, g)
    BY <1>5, <1>6 DEF Typed, IsHeap, SameCounters
  <2> QED BY <1>3, <2>1, <2>2 DEF OneMore, SameCounters
<1> QED BY <1>1, <1>2, <1>3, <1>7, <1>8, <1>9, Constants, AddedIs

LEMMA NewAdded ==
  ASSUME NEW h, Good(h), h.head # NULL, NEW size \in Nat, h.brk + size + 1 <= HeapMax + 1,
         NEW g, g = HeapListInsert(AtBreak(h, size), h.brk), Fine(g)
  PROVE  Added(h, g, size)
<1>1. PICK k, b : k = AtBreak(h, size) /\ b = h.brk
  OBVIOUS
<1>g. Typed(h) /\ b \in Nat /\ b > 0 /\ h.firsthead # NULL
  BY <1>1, GoodEnds
<1>2. Typed(h) /\ b \in Nat /\ b > 0 /\ b <= HeapMax /\ b \in Ptr /\ h.firsthead # NULL
  BY <1>1, <1>g, Constants DEF Ptr
<1>3. /\ Typed(k) /\ k.brk = h.brk + size + 1 /\ k.wilderness = b
      /\ AlikeOn(h.mem, k.mem, Cells \ Moves(h, size + 1))
      /\ Valid(k, b) /\ Size(k, b) = size /\ ~IsFree(k, b) /\ k.firsthead = h.firsthead
      /\ OneMore(h, k, size)
  <2>1. Extended(h, k, size)
    BY <1>1, <1>2, AtBreakIs
  <2> QED BY <1>1, <2>1 DEF Extended
<1>4. Links(k, g) /\ g.head # NULL
  BY <1>1, <1>2, <1>3, InsertList DEF ListStep
<1>5. /\ Typed(g) /\ g.brk = k.brk /\ g.wilderness = k.wilderness /\ g.firsthead = k.firsthead
      /\ Alike(k.mem, g.mem)
  BY <1>4 DEF Links, SameBounds
<1>6. AlikeOn(h.mem, g.mem, Cells \ Moves(h, size + 1))
  BY <1>3, <1>5 DEF Alike, AlikeOn
<1>7. Valid(g, b) /\ Size(g, b) = size /\ ~IsFree(g, b)
  BY <1>3, <1>5, ValidAlike
<1>8. OneMore(h, g, size)
  BY <1>3, <1>4 DEF OneMore, Links, SameCounters
<1> QED BY <1>1, <1>2, <1>3, <1>4, <1>5, <1>6, <1>7, <1>8, AddedIs

LEMMA SetElsewhere ==
  ASSUME NEW h, IsHeap(h), DOMAIN h.mem = Cells, NEW a, NEW f, NEW v, NEW g, g = Set(h, a, f, v)
  PROVE  /\ IsHeap(g) /\ DOMAIN g.mem = Cells
         /\ \A c : c # a => (Valid(g, c) <=> Valid(h, c))
         /\ Fine(g) => Valid(h, a) /\ Fine(h)
<1>1. CASE Valid(h, a)
  <2>1. IsHeap(g) /\ g.mem = Edit(h.mem, a, f, v) /\ g.dead = h.dead /\ g.harm = h.harm
    BY <1>1, SetFields
  <2>2. DOMAIN g.mem = Cells /\ \A c \in Cells : c # a => g.mem[c] = h.mem[c]
    BY <2>1 DEF Edit
  <2> QED BY <1>1, <2>1, <2>2 DEF Valid, Fine
<1>2. CASE ~Valid(h, a)
  <2>1. g = Dead(h, "invalid access")
    BY <1>2 DEF Set
  <2>2. IsHeap(g) /\ ~Fine(g)
    BY <2>1, DeadLater DEF Later
  <2>3. g.mem = h.mem
    BY <2>1 DEF Dead, IsHeap
  <2> QED BY <2>2, <2>3 DEF Valid
<1> QED BY <1>1, <1>2

(* LinkAfter ends the process where there is no header.                     *)
LEMMA LinkAfterValid ==
  ASSUME NEW h, Typed(h), NEW new, Valid(h, new), NEW ptr, Fine(LinkAfter(h, new, ptr))
  PROVE  Valid(h, ptr)
<1>n. PICK next : next = h.mem[ptr].next
  OBVIOUS
<1>a. PICK h1 : h1 = Set(h, new, "next", next)
  OBVIOUS
<1>b. PICK h2 : h2 = Set(h1, new, "prev", ptr)
  OBVIOUS
<1>c. PICK h3 : h3 = Set(h2, ptr, "next", new)
  OBVIOUS
<1>d. PICK h4 : h4 = Set(h3, next, "prev", new)
  OBVIOUS
<1>1. LinkAfter(h, new, ptr) = IF next = NULL THEN h3 ELSE h4
  BY <1>n, <1>a, <1>b, <1>c, <1>d DEF LinkAfter
<1>2. IsHeap(h) /\ DOMAIN h.mem = Cells
  BY DEF Typed
<1>3. IsHeap(h1) /\ DOMAIN h1.mem = Cells /\ \A c : c # new => (Valid(h1, c) <=> Valid(h, c))
  BY <1>a, <1>2, SetElsewhere
<1>4. IsHeap(h2) /\ DOMAIN h2.mem = Cells /\ \A c : c # new => (Valid(h2, c) <=> Valid(h1, c))
  BY <1>b, <1>3, SetElsewhere
<1>5. IsHeap(h3) /\ DOMAIN h3.mem = Cells /\ (Fine(h3) => Valid(h2, ptr))
  BY <1>c, <1>4, SetElsewhere
<1>6. Fine(h4) => Fine(h3)
  BY <1>d, <1>5, SetElsewhere
<1> QED BY <1>1, <1>3, <1>4, <1>5, <1>6

LEMMA NewAllocIs ==
  ASSUME NEW h, IsHeap(h), NEW size
  PROVE  LET g == newAllocAdjustment(h, size)
         IN  /\ Later(h, g) /\ g.mem = h.mem /\ SameBounds(h, g) /\ g.head = h.head
             /\ g.num_free_blocks = h.num_free_blocks /\ g.num_free_bytes = h.num_free_bytes
             /\ g.num_allocated_blocks = h.num_allocated_blocks + 1
             /\ g.num_allocated_bytes = h.num_allocated_bytes + size
             /\ g.num_meta_data_bytes = h.num_meta_data_bytes + MetaSize
<1>1. PICK f3, f4 : /\ f3 = [h EXCEPT !.num_allocated_blocks = h.num_allocated_blocks + 1]
                    /\ f4 = [f3 EXCEPT !.num_allocated_bytes = h.num_allocated_bytes + size]
  OBVIOUS
<1>2. PICK g : g = [f4 EXCEPT !.num_meta_data_bytes = h.num_meta_data_bytes + MetaSize]
  OBVIOUS
<1>3. newAllocAdjustment(h, size) = g
  BY <1>1, <1>2 DEF newAllocAdjustment
<1>4. Later(h, f3) /\ IsHeap(f3)
  BY <1>1, FieldLater DEF Later
<1>5. Later(f3, f4) /\ IsHeap(f4)
  BY <1>1, <1>4, FieldLater DEF Later
<1>6. Later(f4, g)
  BY <1>2, <1>5, FieldLater
<1>7. Later(h, g)
  BY <1>4, <1>5, <1>6, LaterTransitive
<1>8. /\ f3.mem = h.mem /\ SameBounds(h, f3) /\ f3.head = h.head
      /\ f3.num_free_blocks = h.num_free_blocks /\ f3.num_free_bytes = h.num_free_bytes
      /\ f3.num_allocated_blocks = h.num_allocated_blocks + 1
      /\ f3.num_allocated_bytes = h.num_allocated_bytes
      /\ f3.num_meta_data_bytes = h.num_meta_data_bytes
  BY <1>1 DEF IsHeap, SameBounds
<1>9. /\ f4.mem = f3.mem /\ SameBounds(f3, f4) /\ f4.head = f3.head
      /\ f4.num_free_blocks = f3.num_free_blocks /\ f4.num_free_bytes = f3.num_free_bytes
      /\ f4.num_allocated_blocks = f3.num_allocated_blocks
      /\ f4.num_allocated_bytes = h.num_allocated_bytes + size
      /\ f4.num_meta_data_bytes = f3.num_meta_data_bytes
  BY <1>1, <1>4 DEF IsHeap, SameBounds
<1>10. /\ g.mem = f4.mem /\ SameBounds(f4, g) /\ g.head = f4.head
       /\ g.num_free_blocks = f4.num_free_blocks /\ g.num_free_bytes = f4.num_free_bytes
       /\ g.num_allocated_blocks = f4.num_allocated_blocks
       /\ g.num_allocated_bytes = f4.num_allocated_bytes
       /\ g.num_meta_data_bytes = h.num_meta_data_bytes + MetaSize
  BY <1>2, <1>5 DEF IsHeap, SameBounds
<1> QED BY <1>3, <1>7, <1>8, <1>9, <1>10 DEF SameBounds

LEMMA MemIs ==
  ASSUME NEW h, IsHeap(h), NEW m, NEW g, g = [h EXCEPT !.mem = m]
  PROVE  /\ IsHeap(g) /\ g.mem = m /\ SameBounds(h, g) /\ SameCounters(h, g) /\ g.head = h.head
         /\ g.dead = h.dead /\ g.harm = h.harm /\ Later(h, g)
<1>1. IsHeap(g)
  BY DEF IsHeap
<1>2. g.mem = m /\ SameBounds(h, g) /\ g.head = h.head /\ g.dead = h.dead /\ g.harm = h.harm
  BY DEF IsHeap, SameBounds
<1>3. SameCounters(h, g)
  BY DEF IsHeap, SameCounters
<1> QED BY <1>1, <1>2, <1>3 DEF Later, Fine

LEMMA FillIs ==
  ASSUME NEW h, IsHeap(h), NEW a, NEW n, NEW v, NEW g, g = Fill(h, a, n, v)
  PROVE  /\ IsHeap(g) /\ SameBounds(h, g) /\ SameCounters(h, g) /\ g.head = h.head
         /\ g.dead = h.dead /\ g.harm = h.harm /\ Later(h, g)
         /\ g.mem = [c \in Cells |-> IF c \in a..(a + n - 1) THEN Data(v) ELSE h.mem[c]]
<1>1. PICK m : m = [c \in Cells |-> IF c \in a..(a + n - 1) THEN Data(v) ELSE h.mem[c]]
  OBVIOUS
<1>2. g = [h EXCEPT !.mem = m]
  BY <1>1, Zenon DEF Fill
<1>3. /\ IsHeap(g) /\ g.mem = m /\ SameBounds(h, g) /\ SameCounters(h, g) /\ g.head = h.head
      /\ g.dead = h.dead /\ g.harm = h.harm /\ Later(h, g)
  BY <1>2, MemIs
<1> QED BY <1>1, <1>3, Zenon

(* The heap with a new mapping, before it is linked                         *)
Mapping(h, new, size) ==
  newAllocAdjustment(Fill([h EXCEPT !.mem[new] = Header(size, FALSE)], new + MetaSize, size, "zero"), size)

LEMMA MappingLater ==
  ASSUME NEW h, IsHeap(h), NEW new, NEW size
  PROVE  Later(h, Mapping(h, new, size))
<1>1. PICK f, m : f = [h EXCEPT !.mem = m]
                  /\ Mapping(h, new, size) = newAllocAdjustment(Fill(f, new + MetaSize, size, "zero"), size)
  BY Zenon DEF Mapping
<1>2. Later(h, f) /\ IsHeap(f)
  BY <1>1, FieldLater DEF Later
<1>3. PICK k : k = Fill(f, new + MetaSize, size, "zero")
  OBVIOUS
<1>4. Later(f, k) /\ IsHeap(k)
  BY <1>2, <1>3, FillIs
<1>5. Later(k, newAllocAdjustment(k, size))
  BY <1>4, NewAllocIs
<1> QED BY <1>1, <1>2, <1>3, <1>4, <1>5, LaterTransitive

(* The mapping at new is there, and nothing else has changed.               *)
NewMapping(h, g, new, size) ==
  /\ Good(g) /\ BlocksOf(g) = BlocksOf(h) /\ Maps(g) = Maps(h) \cup {new}
  /\ AlikeOn(h.mem, g.mem, Cells \ (new..(new + size)))
  /\ Valid(g, new) /\ Size(g, new) = size /\ ~IsFree(g, new)
  /\ OneMore(h, g, size)

LEMMA MappingIs ==
  ASSUME NEW h, Good(h), NEW new \in MapCells, h.mem[new] = Unmapped,
         NEW size \in Nat, size >= MMAP_THRESHOLD, size <= SIZE_LIMIT,
         NEW g, g = Mapping(h, new, size)
  PROVE  NewMapping(h, g, new, size)
<1>1. Typed(h) /\ IsHeap(h) /\ h.mem \in [Cells -> Cell] /\ MapsOK(h)
  BY DEF Good, Typed
<1>2. PICK no : no \in BOOLEAN /\ ~no
  OBVIOUS
<1>3. PICK x : x = Header(size, no)
  OBVIOUS
<1>4. x \in HeaderCell /\ x \in Cell /\ x.size = size /\ x.is_free = no
  BY <1>2, <1>3, HeaderIn
<1>5. PICK m : m = [h.mem EXCEPT ![new] = x]
  OBVIOUS
<1>6. PICK f : f = [h EXCEPT !.mem = m]
  OBVIOUS
<1>7. PICK k : k = Fill(f, new + MetaSize, size, "zero")
  OBVIOUS
<1>8. g = newAllocAdjustment(k, size)
  <2>1. x = Header(size, FALSE)
    BY <1>2, <1>3, Zenon
  <2>2. f = [h EXCEPT !.mem[new] = x]
    BY <1>5, <1>6
  <2> QED BY <1>7, <2>1, <2>2 DEF Mapping
<1>9. /\ IsHeap(f) /\ f.mem = m /\ SameBounds(h, f) /\ SameCounters(h, f) /\ f.head = h.head
  BY <1>1, <1>6, MemIs
<1>10. /\ IsHeap(k) /\ SameBounds(f, k) /\ SameCounters(f, k) /\ k.head = f.head
       /\ k.mem = [c \in Cells |-> IF c \in (new + MetaSize)..(new + MetaSize + size - 1)
                                    THEN Data("zero") ELSE m[c]]
  BY <1>7, <1>9, FillIs
<1>11. /\ IsHeap(g) /\ g.mem = k.mem /\ SameBounds(k, g) /\ g.head = k.head
       /\ g.num_free_blocks = k.num_free_blocks /\ g.num_free_bytes = k.num_free_bytes
       /\ g.num_allocated_blocks = k.num_allocated_blocks + 1
       /\ g.num_allocated_bytes = k.num_allocated_bytes + size
       /\ g.num_meta_data_bytes = k.num_meta_data_bytes + MetaSize
  BY <1>8, <1>10, NewAllocIs DEF Later
<1>12. new \in Cells /\ new \in Nat /\ new > HeapMax /\ new + SIZE_LIMIT \in Cells
  BY MapsApart DEF MapCells
<1>13. Data("zero") \in Cell
  BY DEF Data, Cell, DataCell, Contents
<1>14. m \in [Cells -> Cell] /\ m[new] = x /\ \A c \in Cells : c # new => m[c] = h.mem[c]
  BY <1>1, <1>4, <1>5, <1>12
<1>15. g.mem \in [Cells -> Cell]
  BY <1>10, <1>11, <1>13, <1>14
<1>16. Typed(g)
  <2>1. Counters(g)
    BY <1>1, <1>9, <1>10, <1>11, Constants DEF Typed, Counters, SameCounters
  <2> QED BY <1>1, <1>9, <1>10, <1>11, <1>15, <2>1 DEF Typed, SameBounds
<1>17. SameBounds(h, g) /\ g.head = h.head
  BY <1>9, <1>10, <1>11 DEF SameBounds
<1>18. \A c \in Cells : c \notin new..(new + size) => g.mem[c] = h.mem[c]
  <2>1. SUFFICES ASSUME NEW c \in Cells, c \notin new..(new + size) PROVE g.mem[c] = h.mem[c]
    OBVIOUS
  <2>2. c # new /\ c \notin (new + MetaSize)..(new + MetaSize + size - 1)
    BY <1>12, <2>1, Constants
  <2> QED BY <1>10, <1>11, <1>14, <2>1, <2>2
<1>19. AlikeOn(h.mem, g.mem, Cells \ (new..(new + size)))
  BY <1>18 DEF AlikeOn
<1>20. g.mem[new] = x
  <2>1. new \notin (new + MetaSize)..(new + MetaSize + size - 1)
    BY <1>12, Constants
  <2> QED BY <1>10, <1>11, <1>12, <1>14, <2>1
<1>21. Valid(g, new) /\ Size(g, new) = size /\ ~IsFree(g, new)
  BY <1>2, <1>4, <1>12, <1>20, HeaderIs
<1>22. AlikeOn(h.mem, g.mem, 1..HeapMax)
  <2>1. \A c \in 1..HeapMax : c \in Cells \ (new..(new + size))
    BY <1>12, Constants DEF Cells
  <2> QED BY <1>19, <2>1, AlikeOnLess
<1>23. \A a \in MapCells : a # new => g.mem[a] = h.mem[a]
  <2>1. SUFFICES ASSUME NEW a \in MapCells, a # new PROVE a \in Cells /\ a \notin new..(new + size)
    BY <1>18
  <2>2. PICK i \in 1..MmapMax, j \in 1..MmapMax : a = MmapAddress(i) /\ new = MmapAddress(j)
    BY <2>1 DEF MapCells
  <2>3. i # j
    BY <2>1, <2>2
  <2>4. a \in Nat /\ (a + SIZE_LIMIT < new \/ new + SIZE_LIMIT < a)
    BY <2>2, <2>3, MapsApart
  <2>5. a \in Cells
    BY <2>1, MapCellsAre
  <2> QED BY <1>12, <2>4, <2>5, Constants
<1>24. MapsOK(g)
  <2>1. SUFFICES ASSUME NEW a \in MapCells, g.mem[a] # Unmapped
                 PROVE  /\ Valid(g, a) /\ ~IsFree(g, a)
                        /\ Size(g, a) >= MMAP_THRESHOLD /\ Size(g, a) <= SIZE_LIMIT
    BY DEF MapsOK
  <2>2. CASE a = new
    BY <1>21, <2>2
  <2>3. CASE a # new
    BY <1>1, <1>23, <2>1, <2>3 DEF MapsOK, Valid, IsFree, Size
  <2> QED BY <2>2, <2>3
<1>25. Good(g) /\ BlocksOf(g) = BlocksOf(h)
  BY <1>16, <1>17, <1>22, <1>24, HeapSame DEF SameBounds
<1>26. Maps(g) = Maps(h) \cup {new}
  <2>1. g.mem[new] # Unmapped
    BY <1>4, <1>20 DEF HeaderCell, Unmapped
  <2>2. Maps(g) = {a \in MapCells : g.mem[a] # Unmapped} /\ Maps(h) = {a \in MapCells : h.mem[a] # Unmapped}
    BY MapsAre
  <2> QED BY <1>23, <2>1, <2>2
<1>27. OneMore(h, g, size)
  BY <1>9, <1>10, <1>11 DEF OneMore, SameCounters
<1> QED BY <1>17, <1>19, <1>21, <1>25, <1>26, <1>27 DEF NewMapping

LEMMA ResultIs ==
  ASSUME NEW h, NEW p
  PROVE  /\ Result(h, p).heap = h
         /\ Result(h, p).p = NULL \/ Result(h, p).p = p
         /\ h.dead = "no" => Result(h, p).p = p
         /\ Fine(h) => Result(h, p).p = p
  BY DEF Result, Fine

(* The block at p has been handed out, with room for n cells, beside S.     *)
Hands(h, S, got, n) ==
  /\ Good(got.heap) /\ got.p \in Nat
  /\ Used(got.heap) = S \cup {got.p - MetaSize} /\ got.p - MetaSize \notin S
  /\ Size(got.heap, got.p - MetaSize) >= n
  /\ Keeps(h, got.heap, S)

LEMMA MapTaken ==
  ASSUME NEW h, Good(h), NEW g, Good(g), BlocksOf(g) = BlocksOf(h),
         NEW new \in MapCells, h.mem[new] = Unmapped, Maps(g) = Maps(h) \cup {new},
         NEW size \in Nat, size <= SIZE_LIMIT,
         AlikeOn(h.mem, g.mem, Cells \ (new..(new + size))),
         Size(g, new) = size, ~IsFree(g, new), OneMore(h, g, size)
  PROVE  Hands(h, Used(h), [heap |-> g, p |-> new + MetaSize], size)
<1>1. new \in Cells /\ new \in Nat /\ new > HeapMax /\ new + SIZE_LIMIT \in Cells
  BY MapsApart DEF MapCells
<1>2. PICK R : R = new..(new + size)
  OBVIOUS
<1>3. Maps(h) = {a \in MapCells : h.mem[a] # Unmapped}
  BY MapsAre
<1>4. new \notin Maps(h) /\ new \notin BlocksOf(h)
  BY <1>3, BlocksIn
<1>5. ASSUME NEW a \in BlocksOf(h) \cup Maps(h), NEW c \in Extent(h, a)
      PROVE  c \in Cells \ R
  <2>1. c \in Cells /\ a \in Nat /\ Size(h, a) \in Nat /\ c >= a /\ c <= a + Size(h, a) /\ c \in Int
    BY <1>5, ExtentIn DEF Extent
  <2>2. CASE a \in BlocksOf(h)
    <3>1. a + Size(h, a) <= HeapMax
      BY <2>2, BlocksIn, Constants
    <3> QED BY <1>1, <1>2, <2>1, <3>1, Constants, SMTT(30)
  <2>3. CASE a \in Maps(h)
    <3>1. PICK i \in 1..MmapMax, j \in 1..MmapMax : a = MmapAddress(i) /\ new = MmapAddress(j)
      BY <1>3, <2>3 DEF MapCells
    <3>2. i # j
      BY <1>4, <2>3, <3>1
    <3>3. a \in Nat /\ (a + SIZE_LIMIT < new \/ new + SIZE_LIMIT < a)
      BY <3>1, <3>2, MapsApart
    <3>4. Size(h, a) <= SIZE_LIMIT
      BY <2>3, MapsIn
    <3> QED BY <1>1, <1>2, <2>1, <3>3, <3>4, Constants
  <2> QED BY <2>2, <2>3, <1>5
<1>6. AlikeOn(h.mem, g.mem, Cells \ R)
  BY <1>2
<1>7. ASSUME NEW a \in BlocksOf(h) \cup Maps(h)
      PROVE  Size(g, a) = Size(h, a) /\ IsFree(g, a) = IsFree(h, a)
  <2>1. Valid(h, a) /\ a \in Extent(h, a)
    BY <1>7, ExtentIn DEF Extent
  <2>2. PICK T : T = Cells \ R
    OBVIOUS
  <2>3. T \subseteq Cells /\ AlikeOn(h.mem, g.mem, T) /\ a \in T
    BY <1>5, <1>6, <1>7, <2>1, <2>2
  <2>4. \A c \in T : Valid(h, c) => Size(g, c) = Size(h, c) /\ IsFree(g, c) = IsFree(h, c)
    BY <2>3, ValidAlikeOn
  <2> QED BY <2>1, <2>3, <2>4
<1>e. Even(h, g)
  <2>1. new \notin AllOf(h) /\ AllOf(g) = AllOf(h) \cup {new}
    BY <1>4 DEF AllOf
  <2>2. \A a \in AllOf(h) : Size(g, a) = Size(h, a) /\ IsFree(g, a) = IsFree(h, a)
    BY <1>7 DEF AllOf
  <2> QED BY <2>1, <2>2, EvenMore
<1>8. Used(g) = Used(h) \cup {new} /\ new \notin Used(h)
  BY <1>4, <1>7 DEF Used
<1>9. Keeps(h, g, Used(h))
  <2>1. \A a \in Used(h) : a \in Used(h) /\ a \in BlocksOf(g) \cup Maps(g)
    BY <1>8 DEF Used
  <2>2. \A a \in Used(h) : \A c \in Extent(h, a) : c \notin R
    BY <1>5 DEF Used
  <2> QED BY <1>6, <1>e, <2>1, <2>2, Untouched
<1>10. new + MetaSize \in Nat /\ new + MetaSize - MetaSize = new /\ size >= size
  BY <1>1, Constants
<1>11. PICK got, p : got = [heap |-> g, p |-> p] /\ p = new + MetaSize
  OBVIOUS
<1>12. got.heap = g /\ got.p = p /\ p \in Nat /\ p - MetaSize = new
  BY <1>1, <1>11, Constants
<1>13. Size(g, new) >= size
  BY <1>10
<1>14. Hands(h, Used(h), got, size)
  BY <1>8, <1>9, <1>12, <1>13, Zenon DEF Hands
<1> QED BY <1>11, <1>14

LEMMA MappedLater ==
  ASSUME NEW h, IsHeap(h), NEW size
  PROVE  Later(h, Mapped(h, size).heap)
<1>1. PICK new, k : new = MmapAddress(Min(FreeMmaps(h))) /\ k = Mapping(h, new, size)
  OBVIOUS
<1>2. PICK g : g = IF h.mmhead = NULL THEN [k EXCEPT !.mmhead = new]
                   ELSE LinkAfter(k, new, LastMapped(k))
  OBVIOUS
<1>3. Mapped(h, size) = Result(g, new + MetaSize)
  BY <1>1, <1>2, Zenon DEF Mapped, Mapping
<1>4. Later(h, k) /\ IsHeap(k)
  BY <1>1, MappingLater DEF Later
<1>5. Later(k, [k EXCEPT !.mmhead = new]) /\ Later(k, LinkAfter(k, new, LastMapped(k)))
  BY <1>4, FieldLater, LinkAfterLater
<1>6. Later(k, g)
  BY <1>2, <1>5
<1>7. Later(h, g)
  BY <1>4, <1>6, LaterTransitive
<1> QED BY <1>3, <1>7, ResultIs

LEMMA MappedGood ==
  ASSUME NEW h, Good(h), FreeMmaps(h) # {},
         NEW size \in Nat, size >= MMAP_THRESHOLD, size <= SIZE_LIMIT,
         Fine(Mapped(h, size).heap)
  PROVE  Mapped(h, size).p # NULL /\ Hands(h, Used(h), Mapped(h, size), size)
<1>1. PICK new, k : new = MmapAddress(Min(FreeMmaps(h))) /\ k = Mapping(h, new, size)
  OBVIOUS
<1>2. PICK g : g = IF h.mmhead = NULL THEN [k EXCEPT !.mmhead = new]
                   ELSE LinkAfter(k, new, LastMapped(k))
  OBVIOUS
<1>3. Mapped(h, size) = Result(g, new + MetaSize)
  BY <1>1, <1>2, Zenon DEF Mapped, Mapping
<1>4. Fine(g)
  BY <1>3, ResultIs
<1>5. Mapped(h, size) = [heap |-> g, p |-> new + MetaSize]
  BY <1>3, <1>4 DEF Result, Fine
<1>6. new \in MapCells /\ h.mem[new] = Unmapped
  <2>1. FreeMmaps(h) \subseteq Nat
    BY Constants DEF FreeMmaps
  <2>2. Min(FreeMmaps(h)) \in FreeMmaps(h)
    BY <2>1, Least
  <2> QED BY <1>1, <2>2 DEF FreeMmaps, MapCells
<1>7. new \in Cells /\ new \in Nat /\ new \in Ptr
  BY <1>6, MapCellsAre, Constants DEF Cells, Ptr
<1>8. /\ Good(k) /\ BlocksOf(k) = BlocksOf(h) /\ Maps(k) = Maps(h) \cup {new}
      /\ AlikeOn(h.mem, k.mem, Cells \ (new..(new + size)))
      /\ Valid(k, new) /\ Size(k, new) = size /\ ~IsFree(k, new) /\ Typed(k)
      /\ OneMore(h, k, size)
  <2>1. NewMapping(h, k, new, size)
    BY <1>1, <1>6, MappingIs
  <2> QED BY <2>1 DEF NewMapping, Good
<1>9. /\ Typed(g) /\ Alike(k.mem, g.mem) /\ g.brk = k.brk /\ g.firsthead = k.firsthead
      /\ g.wilderness = k.wilderness /\ g.head = k.head /\ SameCounters(k, g)
  <2>1. CASE h.mmhead = NULL
    BY <1>2, <1>7, <1>8, <2>1, MmheadStep, AlikeAll
  <2>2. CASE h.mmhead # NULL
    <3>1. PICK ptr : ptr = LastMapped(k) /\ g = LinkAfter(k, new, ptr)
      BY <1>2, <2>2
    <3>2. Valid(k, ptr)
      BY <1>4, <1>8, <3>1, LinkAfterValid
    <3>3. Links(k, g) /\ g.head = k.head
      BY <1>7, <1>8, <3>1, <3>2, LinkAfterList DEF ListStep
    <3> QED BY <3>3 DEF Links, SameBounds
  <2> QED BY <2>1, <2>2
<1>10. AlikeOn(k.mem, g.mem, 1..HeapMax) /\ AlikeOn(k.mem, g.mem, MapCells) /\ AlikeOn(k.mem, g.mem, Cells)
  <2>1. 1..HeapMax \subseteq Cells
    BY Constants DEF Cells
  <2> QED BY <1>9, <2>1, AlikeIsOn, MapCellsAre
<1>11. MapsOK(g) /\ Maps(g) = Maps(k)
  BY <1>8, <1>10, MapsAlike DEF Good
<1>12. Good(g) /\ BlocksOf(g) = BlocksOf(k)
  BY <1>8, <1>9, <1>10, <1>11, HeapSame
<1>13. AlikeOn(h.mem, g.mem, Cells \ (new..(new + size)))
  BY <1>8, <1>9 DEF Alike, AlikeOn
<1>14. Size(g, new) = size /\ ~IsFree(g, new)
  BY <1>8, <1>9, ValidAlike
<1>15. Hands(h, Used(h), [heap |-> g, p |-> new + MetaSize], size)
  <2>1. /\ BlocksOf(g) = BlocksOf(h) /\ Maps(g) = Maps(h) \cup {new}
    BY <1>8, <1>11, <1>12
  <2>2. OneMore(h, g, size)
    BY <1>8, <1>9 DEF OneMore, SameCounters
  <2> QED BY <1>6, <1>12, <1>13, <1>14, <2>1, <2>2, MapTaken
<1>16. [heap |-> g, p |-> new + MetaSize].p # NULL
  BY <1>7, Constants
<1> QED BY <1>5, <1>15, <1>16

-----------------------------------------------------------------------------
(* smalloc                                                                  *)

LEMMA SearchIs ==
  ASSUME NEW h, IsHeap(h), NEW size, NEW found, found = Search(h, size)
  PROVE  /\ IsHeap(found.heap) /\ (Fine(found.heap) => Fine(h))
         /\ found.heap.dead = "no" => found.heap = h
         /\ found.heap.dead = "no" /\ found.block # NULL => Valid(h, found.block) /\ Fits(h, found.block, size)
<1>1. PICK ptr : ptr = Along(h, h.head, LAMBDA p : SearchEnds(h, p, size))
  OBVIOUS
<1>2. found = IF ~SearchEnds(h, ptr, size) THEN [heap |-> Dead(h, "endless loop"), block |-> NULL]
              ELSE IF ptr # NULL /\ ~Valid(h, ptr) THEN [heap |-> Dead(h, "cookie"), block |-> NULL]
              ELSE [heap |-> h, block |-> ptr]
  BY <1>1, Zenon DEF Search
<1>3. PICK d, e : d = Dead(h, "endless loop") /\ e = Dead(h, "cookie")
  OBVIOUS
<1>4. IsHeap(d) /\ ~Fine(d) /\ IsHeap(e) /\ ~Fine(e)
  BY <1>3, DeadLater DEF Later
<1>5. d.dead # "no" /\ e.dead # "no"
  BY <1>3 DEF Dead, IsHeap
<1>6. CASE ~SearchEnds(h, ptr, size)
  <2>0. found = [heap |-> d, block |-> NULL]
    BY <1>2, <1>3, <1>6, Zenon
  <2>1. found.heap = d
    BY <2>0
  <2> QED BY <1>4, <1>5, <2>1
<1>7. CASE SearchEnds(h, ptr, size) /\ ptr # NULL /\ ~Valid(h, ptr)
  <2>0. found = [heap |-> e, block |-> NULL]
    BY <1>2, <1>3, <1>7, Zenon
  <2>1. found.heap = e
    BY <2>0
  <2> QED BY <1>4, <1>5, <2>1
<1>8. CASE SearchEnds(h, ptr, size) /\ ~(ptr # NULL /\ ~Valid(h, ptr))
  <2>1. found.heap = h /\ found.block = ptr
    BY <1>2, <1>8
  <2>2. ptr # NULL => Valid(h, ptr) /\ Fits(h, ptr, size)
    BY <1>8 DEF SearchEnds
  <2> QED BY <2>1, <2>2
<1> QED BY <1>6, <1>7, <1>8

(* The ways through smalloc                                                 *)
Refused(h, got) == got.heap = h /\ got.p = NULL

LEMMA SmallocIs ==
  ASSUME NEW h, IsHeap(h), NEW size, NEW granted, NEW got, got = smalloc(h, size, granted)
  PROVE  \/ got = Result(h, NULL)
         \/ /\ size >= MMAP_THRESHOLD /\ ~(size > SIZE_LIMIT) /\ FreeMmaps(h) # {}
            /\ got = Mapped(h, size)
         \/ /\ h.head = NULL /\ sbrkOK(h, size + MetaSize, granted) /\ got = firstAllocation(h, size)
         \/ \E why : why # "no" /\ got = Result(Dead(h, why), NULL)
         \/ \E block : /\ Valid(h, block) /\ Fits(h, block, size)
                       /\ got = Result(split(Harmed(h, "revived", block \notin BlocksOf(h)), block, size),
                                       block + MetaSize)
         \/ /\ h.head # NULL /\ Valid(h, h.wilderness) /\ IsFree(h, h.wilderness)
            /\ sbrkOK(h, size - Size(h, h.wilderness), granted)
            /\ got = Result(Enlarged(Taken(h, h.wilderness), size - Size(h, h.wilderness)),
                            h.wilderness + MetaSize)
         \/ /\ h.head # NULL /\ sbrkOK(h, size + MetaSize, granted) /\ got = NewBlock(h, size)
<1>1. PICK found, w, needed : found = Search(h, size) /\ w = h.wilderness /\ needed = size - Size(h, w)
  OBVIOUS
<1>2. got = IF size = 0 \/ size > SIZE_LIMIT THEN Result(h, NULL)
      ELSE IF size >= MMAP_THRESHOLD
      THEN IF granted /\ FreeMmaps(h) # {} THEN Mapped(h, size) ELSE Result(h, NULL)
      ELSE IF h.head = NULL
      THEN IF sbrkOK(h, size + MetaSize, granted) THEN firstAllocation(h, size) ELSE Result(h, NULL)
      ELSE IF found.heap.dead # "no" THEN Result(found.heap, NULL)
      ELSE IF found.block # NULL
      THEN Result(split(Harmed(h, "revived", found.block \notin BlocksOf(h)), found.block, size),
                  found.block + MetaSize)
      ELSE IF ~Valid(h, w) THEN Result(Dead(h, "cookie"), NULL)
      ELSE IF IsFree(h, w)
      THEN IF sbrkOK(h, needed, granted)
           THEN Result(Enlarged(Taken(h, w), needed), w + MetaSize) ELSE Result(h, NULL)
      ELSE IF sbrkOK(h, size + MetaSize, granted) THEN NewBlock(h, size) ELSE Result(h, NULL)
  BY <1>1, Zenon DEF smalloc
<1>3. \/ found.heap = h
      \/ \E why : why # "no" /\ found.heap = Dead(h, why)
  <2>1. PICK ptr : ptr = Along(h, h.head, LAMBDA p : SearchEnds(h, p, size))
    OBVIOUS
  <2>2. found = IF ~SearchEnds(h, ptr, size) THEN [heap |-> Dead(h, "endless loop"), block |-> NULL]
              ELSE IF ptr # NULL /\ ~Valid(h, ptr) THEN [heap |-> Dead(h, "cookie"), block |-> NULL]
              ELSE [heap |-> h, block |-> ptr]
    BY <1>1, <2>1, Zenon DEF Search
  <2>3. found.heap = h \/ found.heap = Dead(h, "endless loop") \/ found.heap = Dead(h, "cookie")
    BY <2>2
  <2> QED BY <2>3
<1>4. found.heap.dead = "no" /\ found.block # NULL => Valid(h, found.block) /\ Fits(h, found.block, size)
  BY <1>1, SearchIs
<1>5. CASE size = 0 \/ size > SIZE_LIMIT
  BY <1>2, <1>5
<1>6. CASE ~(size = 0 \/ size > SIZE_LIMIT) /\ size >= MMAP_THRESHOLD
  BY <1>2, <1>6
<1>7. CASE ~(size = 0 \/ size > SIZE_LIMIT) /\ ~(size >= MMAP_THRESHOLD) /\ h.head = NULL
  BY <1>2, <1>7
<1>8. CASE ~(size = 0 \/ size > SIZE_LIMIT) /\ ~(size >= MMAP_THRESHOLD) /\ h.head # NULL
  <2>1. CASE found.heap.dead # "no"
    <3>1. got = Result(found.heap, NULL)
      BY <1>2, <1>8, <2>1
    <3> QED BY <1>3, <3>1
  <2>2. CASE found.heap.dead = "no" /\ found.block # NULL
    <3>1. got = Result(split(Harmed(h, "revived", found.block \notin BlocksOf(h)), found.block, size),
                       found.block + MetaSize)
      BY <1>2, <1>8, <2>2
    <3> QED BY <1>4, <2>2, <3>1, Zenon
  <2>3. CASE found.heap.dead = "no" /\ found.block = NULL /\ ~Valid(h, w)
    <3>1. got = Result(Dead(h, "cookie"), NULL)
      BY <1>2, <1>8, <2>3
    <3> QED BY <3>1
  <2>4. CASE found.heap.dead = "no" /\ found.block = NULL /\ Valid(h, w) /\ IsFree(h, w)
    BY <1>1, <1>2, <1>8, <2>4
  <2>5. CASE found.heap.dead = "no" /\ found.block = NULL /\ Valid(h, w) /\ ~IsFree(h, w)
    BY <1>1, <1>2, <1>8, <2>5
  <2> QED BY <2>1, <2>2, <2>3, <2>4, <2>5
<1> QED BY <1>5, <1>6, <1>7, <1>8

LEMMA NewBlocksLater ==
  ASSUME NEW h, IsHeap(h), NEW size
  PROVE  Later(h, firstAllocation(h, size).heap) /\ Later(h, NewBlock(h, size).heap)
<1>1. PICK k, b : k = AtBreak(h, size) /\ b = h.brk
  OBVIOUS
<1>2. Later(h, k) /\ IsHeap(k)
  BY <1>1, AtBreakLater DEF Later
<1>3. PICK f, g : f = [k EXCEPT !.head = b] /\ g = [f EXCEPT !.firsthead = b]
  OBVIOUS
<1>4. Later(k, f) /\ IsHeap(f)
  BY <1>2, <1>3, HeadLater DEF Later
<1>5. Later(f, g)
  BY <1>3, <1>4, FieldLater
<1>6. firstAllocation(h, size) = Result(g, b + MetaSize)
  <2>1. g = [k EXCEPT !.head = b, !.firsthead = b]
    BY <1>3
  <2> QED BY <1>1, <2>1 DEF firstAllocation
<1>7. Later(k, HeapListInsert(k, b))
  BY <1>2, InsertLater
<1>8. NewBlock(h, size) = Result(HeapListInsert(k, b), b + MetaSize)
  BY <1>1 DEF NewBlock
<1>9. Later(h, g) /\ Later(h, HeapListInsert(k, b))
  BY <1>2, <1>4, <1>5, <1>7, LaterTransitive
<1> QED BY <1>6, <1>8, <1>9, ResultIs

LEMMA SmallocLater ==
  ASSUME NEW h, IsHeap(h), NEW size, NEW granted
  PROVE  Later(h, smalloc(h, size, granted).heap)
<1>1. PICK got, w, needed : /\ got = smalloc(h, size, granted)
                            /\ w = h.wilderness /\ needed = size - Size(h, w)
  OBVIOUS
<1>2. CASE got = Result(h, NULL)
  BY <1>1, <1>2, ResultIs, LaterReflexive
<1>3. CASE got = Mapped(h, size)
  BY <1>1, <1>3, MappedLater
<1>4. CASE got = firstAllocation(h, size) \/ got = NewBlock(h, size)
  BY <1>1, <1>4, NewBlocksLater
<1>5. ASSUME NEW why, why # "no", got = Result(Dead(h, why), NULL)
      PROVE  Later(h, got.heap)
  BY <1>5, ResultIs, DeadLater
<1>6. ASSUME NEW block,
             got = Result(split(Harmed(h, "revived", block \notin BlocksOf(h)), block, size),
                          block + MetaSize)
      PROVE  Later(h, got.heap)
  <2>1. PICK k : k = Harmed(h, "revived", block \notin BlocksOf(h))
    OBVIOUS
  <2>2. Later(h, k) /\ IsHeap(k)
    BY <2>1, HarmedLater DEF Later
  <2>3. Later(k, split(k, block, size))
    BY <2>2, SplitLater
  <2>4. Later(h, split(k, block, size))
    BY <2>2, <2>3, LaterTransitive
  <2> QED BY <1>6, <2>1, <2>4, ResultIs
<1>7. CASE got = Result(Enlarged(Taken(h, w), needed), w + MetaSize)
  <2>1. PICK k : k = Taken(h, w)
    OBVIOUS
  <2>2. Later(h, k) /\ IsHeap(k)
    BY <2>1, TakenLater DEF Later
  <2>3. Later(k, Enlarged(k, needed))
    BY <2>2, EnlargedLater
  <2>4. Later(h, Enlarged(k, needed))
    BY <2>2, <2>3, LaterTransitive
  <2> QED BY <1>1, <1>7, <2>1, <2>4, ResultIs
<1> QED BY <1>1, <1>2, <1>3, <1>4, <1>5, <1>6, <1>7, SmallocIs, Zenon

LEMMA HandsBlock ==
  ASSUME NEW h, NEW g, Good(g), NEW b \in Nat, NEW n, NEW S,
         Used(g) = S \cup {b}, b \notin S, Size(g, b) >= n, Keeps(h, g, S),
         NEW got, got.heap = g, got.p = b + MetaSize
  PROVE  got.p # NULL /\ Hands(h, S, got, n)
<1>1. got.p \in Nat /\ got.p # NULL /\ got.p - MetaSize = b
  BY Constants
<1> QED BY <1>1, Zenon DEF Hands

(* A block is free when smalloc hands it out, and large enough.             *)
LEMMA SmallocGood ==
  ASSUME NEW h, Good(h), NEW size \in Nat, NEW granted \in BOOLEAN,
         NEW got, got = smalloc(h, size, granted), Fine(got.heap)
  PROVE  IF got.p = NULL THEN got.heap = h ELSE Hands(h, Used(h), got, size)
<1>1. PICK w, needed : w = h.wilderness /\ needed = size - Size(h, w)
  OBVIOUS
<1>h. /\ IsHeap(h) /\ h.brk \in Nat /\ (h.head = NULL <=> h.firsthead = NULL)
      /\ h.firsthead # NULL => w \in BlocksOf(h)
  BY <1>1, GoodEnds
<1>s. sbrkOK(h, size + MetaSize, granted) => h.brk + size + 1 <= HeapMax + 1
  BY <1>h, Constants DEF sbrkOK
<1>2. CASE got = Result(h, NULL)
  BY <1>2, ResultIs
<1>3. CASE size >= MMAP_THRESHOLD /\ ~(size > SIZE_LIMIT) /\ FreeMmaps(h) # {} /\ got = Mapped(h, size)
  <2>1. size <= SIZE_LIMIT
    BY <1>3, Constants
  <2> QED BY <1>3, <2>1, MappedGood
<1>4. CASE h.head = NULL /\ sbrkOK(h, size + MetaSize, granted) /\ got = firstAllocation(h, size)
  <2>1. PICK g : g = [AtBreak(h, size) EXCEPT !.head = h.brk, !.firsthead = h.brk]
    OBVIOUS
  <2>2. got = Result(g, h.brk + MetaSize)
    BY <1>4, <2>1 DEF firstAllocation
  <2>3. Added(h, g, size)
    BY <1>4, <1>s, <2>1, FirstAdded
  <2>4. h.brk \notin Used(h) /\ Used(g) = Used(h) \cup {h.brk} /\ Keeps(h, g, Used(h))
    BY <1>4, <1>s, <2>3, AddedUsed
  <2>5. got.heap = g /\ got.p = h.brk + MetaSize
    BY <2>2, ResultIs
  <2>6. Good(g) /\ Size(g, h.brk) >= size
    BY <2>3 DEF Added
  <2> QED BY <1>h, <2>4, <2>5, <2>6, HandsBlock
<1>5. CASE h.head # NULL /\ sbrkOK(h, size + MetaSize, granted) /\ got = NewBlock(h, size)
  <2>1. PICK g : g = HeapListInsert(AtBreak(h, size), h.brk)
    OBVIOUS
  <2>2. got = Result(g, h.brk + MetaSize)
    BY <1>5, <2>1 DEF NewBlock
  <2>5. got.heap = g /\ got.p = h.brk + MetaSize
    BY <2>2, ResultIs
  <2>3. Added(h, g, size)
    BY <1>5, <1>s, <2>1, <2>5, NewAdded
  <2>4. h.brk \notin Used(h) /\ Used(g) = Used(h) \cup {h.brk} /\ Keeps(h, g, Used(h))
    BY <1>5, <1>s, <2>3, AddedUsed
  <2>6. Good(g) /\ Size(g, h.brk) >= size
    BY <2>3 DEF Added
  <2> QED BY <1>h, <2>4, <2>5, <2>6, HandsBlock
<1>6. ASSUME NEW why, why # "no", got = Result(Dead(h, why), NULL) PROVE FALSE
  BY <1>6, <1>h, ResultIs, DeadLater
<1>7. ASSUME NEW b, Valid(h, b), Fits(h, b, size),
             got = Result(split(Harmed(h, "revived", b \notin BlocksOf(h)), b, size), b + MetaSize)
      PROVE  IF got.p = NULL THEN got.heap = h ELSE Hands(h, Used(h), got, size)
  <2>1. PICK k, g : k = Harmed(h, "revived", b \notin BlocksOf(h)) /\ g = split(k, b, size)
    OBVIOUS
  <2>2. got.heap = g /\ got.p = b + MetaSize
    BY <1>7, <2>1, ResultIs
  <2>3. IsHeap(k) /\ Fine(k)
    <3>1. IsHeap(k)
      BY <1>h, <2>1, HarmedLater DEF Later
    <3> QED BY <2>1, <2>2, <3>1, SplitLater DEF Later
  <2>4. b \in BlocksOf(h) /\ k = h
    BY <1>h, <2>1, <2>3, HarmedLater
  <2>5. b \in Nat /\ IsFree(h, b) /\ Size(h, b) >= size /\ Size(h, b) \in Nat
    BY <1>7, <2>4, BlocksIn DEF Fits
  <2>6. Gives(h, g, b, size)
    BY <2>1, <2>2, <2>4, <2>5, SplitGives
  <2>7. Used(g) = Used(h) \cup {b} /\ Keeps(h, g, Used(h) \ {b})
    BY <2>4, <2>6, GivesUsed
  <2>8. b \notin Used(h)
    BY <2>5 DEF Used
  <2>9. Used(h) \ {b} = Used(h) /\ Good(g) /\ Size(g, b) >= size
    BY <2>6, <2>8 DEF Gives
  <2> QED BY <2>2, <2>5, <2>7, <2>8, <2>9, HandsBlock
<1>8. CASE /\ h.head # NULL /\ Valid(h, w) /\ IsFree(h, w) /\ sbrkOK(h, needed, granted)
           /\ got = Result(Enlarged(Taken(h, w), needed), w + MetaSize)
  <2>1. PICK k, g : k = Taken(h, w) /\ g = Enlarged(k, needed)
    OBVIOUS
  <2>2. got.heap = g /\ got.p = w + MetaSize
    BY <1>8, <2>1, ResultIs
  <2>3. IsHeap(k) /\ Fine(k)
    <3>1. IsHeap(k)
      BY <1>h, <2>1, TakenLater DEF Later
    <3> QED BY <2>1, <2>2, <3>1, EnlargedLater DEF Later
  <2>4. w \in BlocksOf(h)
    BY <1>h, <1>8
  <2>5. Marked(h, k, w) /\ ~IsFree(k, w) /\ Even(h, k)
    BY <2>1, <2>3, <2>4, TakenGood
  <2>6. /\ Good(k) /\ Size(k, w) = Size(h, w) /\ k.wilderness = w /\ k.brk = h.brk
        /\ k.firsthead # NULL
    BY <1>1, <1>h, <1>8, <2>5 DEF Marked, SameBounds
  <2>7. Used(k) = Used(h) \cup {w} /\ Keeps(h, k, Used(h) \ {w})
    BY <2>4, <2>5, MarkedUsed
  <2>8. w \notin Used(h) /\ Used(h) \ {w} = Used(h)
    BY <1>8 DEF Used
  <2>9. Size(h, w) \in Nat /\ w \in Nat
    BY <2>4, BlocksIn
  <2>10. needed \in Int /\ Size(k, k.wilderness) + needed = size
         /\ Size(k, k.wilderness) + needed >= 0 /\ k.brk + needed <= HeapMax + 1
    <3>1. needed = size - Size(h, w)
      BY <1>1
    <3>2. needed <= 0 \/ h.brk + needed <= HeapMax + 1
      BY <1>8 DEF sbrkOK
    <3>3. h.brk <= HeapMax + 1
      BY GoodEnds
    <3> QED BY <1>h, <2>6, <2>9, <3>1, <3>2, <3>3, Constants
  <2>11. Grown(k, g, needed)
    BY <2>1, <2>2, <2>6, <2>10, EnlargedGood
  <2>12. Good(g) /\ Used(g) = Used(k) /\ Keeps(k, g, Used(k) \ {w}) /\ Size(g, w) = size
    BY <2>5, <2>6, <2>10, <2>11, GrownUsed
  <2>13. Keeps(h, g, Used(h))
    <3>1. Used(k) \ {w} = Used(h)
      BY <2>7, <2>8
    <3> QED BY <2>7, <2>8, <2>12, <3>1, KeepsTransitive
  <2>14. Used(g) = Used(h) \cup {w} /\ Size(g, w) >= size
    BY <2>7, <2>12
  <2> QED BY <2>2, <2>8, <2>9, <2>12, <2>13, <2>14, HandsBlock
<1> QED BY <1>1, <1>h, <1>2, <1>3, <1>4, <1>5, <1>6, <1>7, <1>8, SmallocIs, Zenon

-----------------------------------------------------------------------------
(* What is written into a block                                             *)

(* Only the payload of b differs.                                           *)
Payload(h, b) == (b + 1)..(b + Size(h, b))

Within(h, g, b) ==
  /\ IsHeap(g) /\ SameBounds(h, g) /\ SameCounters(h, g) /\ g.head = h.head
  /\ g.mem \in [Cells -> Cell]
  /\ \A c \in Cells : c \notin Payload(h, b) => g.mem[c] = h.mem[c]

LEMMA PayloadApart ==
  ASSUME NEW h, Good(h), NEW b \in BlocksOf(h) \cup Maps(h), NEW a \in BlocksOf(h) \cup MapCells
  PROVE  a \in Cells /\ a \notin Payload(h, b)
<1>1. /\ b \in Nat /\ Size(h, b) \in Nat
      /\ \A c \in Payload(h, b) : c \in Extent(h, b)
  BY ExtentIn DEF Extent, Payload
<1>2. CASE a = b
  <2>1. a \in Cells
    BY <1>2, ExtentIn
  <2> QED BY <1>1, <1>2, <2>1 DEF Payload
<1>3. CASE a # b /\ a \in BlocksOf(h) \cup Maps(h)
  <2>1. a \in Cells /\ a \in Extent(h, a)
    BY <1>3, ExtentIn DEF Extent
  <2>2. a \notin Extent(h, b)
    BY <1>3, <2>1, Apart
  <2> QED BY <1>1, <2>1, <2>2
<1>4. CASE a \in MapCells /\ a # b /\ b \in BlocksOf(h)
  <2>1. a \in Cells /\ a > HeapMax /\ a \in Nat
    BY <1>4, MapCellsAre
  <2>2. b + Size(h, b) <= HeapMax
    BY <1>4, BlocksIn, Constants
  <2> QED BY <1>1, <2>1, <2>2, Constants DEF Payload
<1>5. CASE a \in MapCells /\ a # b /\ b \in Maps(h)
  <2>1. PICK i \in 1..MmapMax, j \in 1..MmapMax : a = MmapAddress(i) /\ b = MmapAddress(j)
    BY <1>5, MapsIn DEF MapCells
  <2>2. i # j
    BY <1>5, <2>1
  <2>3. a \in Nat /\ (a + SIZE_LIMIT < b \/ b + SIZE_LIMIT < a)
    BY <2>1, <2>2, MapsApart
  <2>4. Size(h, b) <= SIZE_LIMIT /\ a \in Cells
    BY <1>5, MapsIn, MapCellsAre
  <2> QED BY <1>1, <2>3, <2>4, Constants DEF Payload
<1> QED BY <1>2, <1>3, <1>4, <1>5

Shaped(h, g, B, e) ==
  /\ Typed(g) /\ Ends(B, e, g.firsthead, g.brk)
  /\ \A a \in B : Valid(g, a) /\ After(g, a) = e[a]
  /\ AlikeOn(h.mem, g.mem, MapCells)
  /\ g.head = NULL <=> g.firsthead = NULL
  /\ g.firsthead # NULL => g.wilderness \in B /\ e[g.wilderness] = g.brk

LEMMA ShapedGood ==
  ASSUME NEW h, Good(h), NEW g, NEW B, NEW e, Shaped(h, g, B, e)
  PROVE  Good(g) /\ BlocksOf(g) = B /\ Maps(g) = Maps(h)
<1>1. /\ Typed(g) /\ Ends(B, e, g.firsthead, g.brk)
      /\ \A a \in B : Valid(g, a) /\ After(g, a) = e[a]
      /\ AlikeOn(h.mem, g.mem, MapCells)
      /\ g.head = NULL <=> g.firsthead = NULL
      /\ g.firsthead # NULL => g.wilderness \in B /\ e[g.wilderness] = g.brk
  BY DEF Shaped
<1> QED BY <1>1, ShapeGood

LEMMA WithinGood ==
  ASSUME NEW h, Good(h), NEW b \in BlocksOf(h) \cup Maps(h), NEW g, Within(h, g, b)
  PROVE  /\ Good(g) /\ BlocksOf(g) = BlocksOf(h) /\ Maps(g) = Maps(h) /\ Used(g) = Used(h)
         /\ \A a \in BlocksOf(h) \cup Maps(h) : Size(g, a) = Size(h, a) /\ (IsFree(g, a) <=> IsFree(h, a))
         /\ Keeps(h, g, Used(h) \ {b})
<1>1. PICK B, e : B = BlocksOf(h) /\ e = [a \in B |-> After(h, a)]
  OBVIOUS
<1>2. /\ Ends(B, e, h.firsthead, h.brk) /\ Typed(h)
      /\ (h.head = NULL <=> h.firsthead = NULL)
      /\ h.firsthead # NULL => h.wilderness \in B /\ After(h, h.wilderness) = h.brk
  BY <1>1, GoodEnds
<1>3. \A a \in B \cup MapCells : a \in Cells /\ g.mem[a] = h.mem[a]
  BY <1>1, PayloadApart DEF Within
<1>4. Typed(g)
  BY <1>2 DEF Typed, Within, SameBounds, SameCounters, Counters
<1>5. AlikeOn(h.mem, g.mem, MapCells)
  BY <1>3 DEF AlikeOn
<1>6. \A a \in B \cup Maps(h) : Valid(h, a) /\ g.mem[a] = h.mem[a]
  BY <1>1, <1>3, BlocksIn, MapsIn
<1>7. \A a \in B : Valid(g, a) /\ After(g, a) = e[a]
  BY <1>1, <1>6 DEF Valid, After, Size
<1>8. /\ g.firsthead = h.firsthead /\ g.brk = h.brk /\ g.wilderness = h.wilderness
      /\ g.head = h.head
  BY DEF Within, SameBounds
<1>9. Good(g) /\ BlocksOf(g) = B /\ Maps(g) = Maps(h)
  <2>1. Ends(B, e, g.firsthead, g.brk) /\ (g.head = NULL <=> g.firsthead = NULL)
    BY <1>2, <1>8
  <2>2. g.firsthead # NULL => g.wilderness \in B /\ e[g.wilderness] = g.brk
    BY <1>1, <1>2, <1>8
  <2>3. Ends(B, e, g.firsthead, g.brk) /\ \A a \in B : Valid(g, a) /\ After(g, a) = e[a]
    BY <1>7, <2>1
  <2>4. g.head = NULL <=> g.firsthead = NULL
    BY <2>1
  <2>5. Shaped(h, g, B, e)
    BY <1>4, <1>5, <2>2, <2>3, <2>4 DEF Shaped
  <2> QED BY <2>5, ShapedGood
<1>10. \A a \in BlocksOf(h) \cup Maps(h) : Size(g, a) = Size(h, a) /\ (IsFree(g, a) <=> IsFree(h, a))
  BY <1>1, <1>6 DEF Size, IsFree
<1>11. Used(g) = Used(h)
  BY <1>1, <1>9, <1>10 DEF Used
<1>e. Even(h, g)
  <2>1. /\ AllOf(g) = AllOf(h)
        /\ \A a \in AllOf(h) : Size(g, a) = Size(h, a) /\ (IsFree(g, a) <=> IsFree(h, a))
    BY <1>1, <1>9, <1>10 DEF AllOf
  <2>2. FreeOf(g) = FreeOf(h)
    BY <1>1, <1>9, <1>10 DEF FreeOf
  <2>3. SameCounters(h, g)
    BY DEF Within
  <2> QED BY <2>1, <2>2, <2>3, EvenSame
<1>12. Keeps(h, g, Used(h) \ {b})
  <2>1. \A a \in Used(h) : a \in BlocksOf(h) \cup Maps(h)
    BY DEF Used
  <2>2. SUFFICES ASSUME NEW a \in Used(h) \ {b}, NEW c \in (a + 1)..(a + Size(h, a))
                 PROVE  g.mem[c] = h.mem[c]
    BY <1>10, <1>11, <1>e, <2>1 DEF Keeps
  <2>3. a \in Nat /\ Size(h, a) \in Nat /\ \A d \in Extent(h, a) : d \in Cells
    BY <2>1, ExtentIn
  <2>4. c \in Extent(h, a) /\ c \in Cells
    BY <2>3 DEF Extent
  <2>5. c \notin Extent(h, b)
    BY <2>1, <2>4, Apart
  <2>6. b \in Nat /\ Size(h, b) \in Nat
    BY ExtentIn
  <2>7. c \notin Payload(h, b)
    BY <2>5, <2>6 DEF Extent, Payload
  <2> QED BY <2>4, <2>7 DEF Within
<1> QED BY <1>1, <1>9, <1>10, <1>11, <1>12

Filled(h, g, a, n, v) ==
  /\ IsHeap(g) /\ SameBounds(h, g) /\ SameCounters(h, g) /\ g.head = h.head
  /\ \A c \in Cells : g.mem[c] = IF c >= a /\ c <= a + n - 1 THEN Data(v) ELSE h.mem[c]
  /\ g.mem \in [Cells -> Cell]

LEMMA Fills ==
  ASSUME NEW h, IsHeap(h), h.mem \in [Cells -> Cell], NEW a \in Int, NEW n \in Int,
         NEW v \in Contents, NEW g, g = Fill(h, a, n, v)
  PROVE  Filled(h, g, a, n, v)
<1>1. PICK m : m = [c \in Cells |-> IF c \in a..(a + n - 1) THEN Data(v) ELSE h.mem[c]]
  OBVIOUS
<1>2. g = [h EXCEPT !.mem = m]
  BY <1>1, Zenon DEF Fill
<1>3. /\ IsHeap(g) /\ g.mem = m /\ SameBounds(h, g) /\ SameCounters(h, g) /\ g.head = h.head
  BY <1>2, MemIs
<1>4. \A c \in Cells : m[c] = IF c >= a /\ c <= a + n - 1 THEN Data(v) ELSE h.mem[c]
  BY <1>1, Constants DEF Cells
<1>5. Data(v) \in Cell
  BY DEF Data, Cell, DataCell, Contents
<1>6. m \in [Cells -> Cell]
  BY <1>1, <1>5
<1> QED BY <1>3, <1>4, <1>6 DEF Filled

LEMMA FillGood ==
  ASSUME NEW h, Good(h), NEW b \in BlocksOf(h) \cup Maps(h), NEW n \in Nat, n <= Size(h, b),
         NEW v \in Contents, NEW g, g = Fill(h, b + MetaSize, n, v)
  PROVE  /\ Within(h, g, b)
         /\ \A i \in 0..(n - 1) : g.mem[b + MetaSize + i] = Data(v)
<1>1. PICK p : p = b + MetaSize
  OBVIOUS
<1>2. /\ b \in Nat /\ p = b + 1 /\ Size(h, b) \in Nat /\ IsHeap(h) /\ h.mem \in [Cells -> Cell]
      /\ \A d \in Extent(h, b) : d \in Cells
  BY <1>1, ExtentIn, Constants DEF Good, Typed
<1>f. g = Fill(h, p, n, v)
  BY <1>1
<1>3. Filled(h, g, p, n, v)
  <2>1. p \in Int /\ n \in Int
    BY <1>2
  <2> QED BY <1>2, <1>f, <2>1, Fills
<1>4. /\ IsHeap(g) /\ SameBounds(h, g) /\ SameCounters(h, g) /\ g.head = h.head
      /\ \A c \in Cells : g.mem[c] = IF c >= p /\ c <= p + n - 1 THEN Data(v) ELSE h.mem[c]
      /\ g.mem \in [Cells -> Cell]
  BY <1>3 DEF Filled
<1>7. \A c \in p..(p + n - 1) : c \in Payload(h, b) /\ c \in Cells
  BY <1>2 DEF Payload, Extent
<1>8. \A c \in Cells : c \notin Payload(h, b) => g.mem[c] = h.mem[c]
  <2>1. SUFFICES ASSUME NEW c \in Cells, c \notin Payload(h, b) PROVE g.mem[c] = h.mem[c]
    OBVIOUS
  <2>2. ~(c >= p /\ c <= p + n - 1)
    BY <1>2, <1>7, <2>1, Constants DEF Cells
  <2> QED BY <1>4, <2>1, <2>2
<1>9. ASSUME NEW i \in 0..(n - 1) PROVE g.mem[p + i] = Data(v)
  <2>1. p + i \in p..(p + n - 1) /\ p + i >= p /\ p + i <= p + n - 1
    BY <1>2
  <2> QED BY <1>4, <1>7, <2>1
<1> QED BY <1>1, <1>4, <1>8, <1>9 DEF Within

LEMMA ScallocGood ==
  ASSUME NEW h, Good(h), NEW num \in Nat, NEW size \in Nat, NEW granted \in BOOLEAN,
         NEW got, got = scalloc(h, num, size, granted), Fine(got.heap), num * size < WordMod
  PROVE  IF got.p = NULL THEN got.heap = h
         ELSE /\ Hands(h, Used(h), got, num * size)
              /\ \A i \in 0..(num * size - 1) : got.heap.mem[got.p + i] = Data("zero")
<1>1. PICK n, old, g : /\ n = num * size /\ old = smalloc(h, n, granted)
                       /\ g = Fill(old.heap, old.p, n, "zero")
  OBVIOUS
<1>2. n \in Nat
  BY <1>1
<1>3. got = IF old.p = NULL THEN old ELSE Result(g, old.p)
  <2>1. n < WordMod /\ WordMod \in Nat
    BY <1>1, WordAssumption
  <2>2. n % WordMod = n
    BY <1>2, <2>1
  <2>3. (num * size) % WordMod = n
    BY <1>1, <2>2
  <2>4. got = Cleared(smalloc(h, n, granted), n)
    BY <2>3, Zenon DEF scalloc
  <2> QED BY <1>1, <2>4, Zenon DEF Cleared
<1>4. IsHeap(old.heap)
  BY <1>1, GoodEnds, SmallocLater DEF Later
<1>5. CASE old.p = NULL
  <2>1. got = old
    BY <1>3, <1>5
  <2> QED BY <1>1, <1>2, <1>5, <2>1, SmallocGood
<1>6. CASE old.p # NULL
  <2>1. got.heap = g
    BY <1>3, <1>6, ResultIs
  <2>2. Fine(g)
    BY <2>1
  <2>3. Fine(old.heap)
    <3>1. PICK k, p : k = old.heap /\ p = old.p
      OBVIOUS
    <3>2. g = Fill(k, p, n, "zero") /\ IsHeap(k)
      BY <1>1, <1>4, <3>1
    <3>3. Later(k, g)
      BY <3>2, FillIs
    <3> QED BY <2>2, <3>1, <3>3 DEF Later
  <2>4. got.p = old.p
    BY <1>3, <1>6, <2>2, ResultIs
  <2>5. Hands(h, Used(h), old, n)
    BY <1>1, <1>2, <1>6, <2>3, SmallocGood
  <2>6. PICK b, k : b = old.p - MetaSize /\ k = old.heap
    OBVIOUS
  <2>7. /\ Good(k) /\ old.p \in Nat /\ Used(k) = Used(h) \cup {b} /\ b \notin Used(h)
        /\ Size(k, b) >= n /\ Keeps(h, k, Used(h))
    BY <2>5, <2>6, Zenon DEF Hands
  <2>8. b \in BlocksOf(k) \cup Maps(k)
    BY <2>7 DEF Used
  <2>9. b \in Nat /\ Size(k, b) \in Nat /\ old.p = b + MetaSize
    BY <2>6, <2>7, <2>8, ExtentIn, Constants
  <2>10. g = Fill(k, b + MetaSize, n, "zero") /\ n <= Size(k, b) /\ "zero" \in Contents
    BY <1>1, <1>2, <2>6, <2>7, <2>9 DEF Contents
  <2>11. Within(k, g, b) /\ \A i \in 0..(n - 1) : g.mem[b + MetaSize + i] = Data("zero")
    BY <1>2, <2>7, <2>8, <2>10, FillGood
  <2>12. Good(g) /\ Used(g) = Used(k) /\ Size(g, b) = Size(k, b) /\ Keeps(k, g, Used(k) \ {b})
    BY <2>7, <2>8, <2>11, WithinGood
  <2>13. Keeps(h, g, Used(h))
    <3>1. Used(k) \ {b} = Used(h)
      BY <2>7
    <3> QED BY <2>7, <2>12, <3>1, KeepsTransitive
  <2>14. Hands(h, Used(h), got, n)
    <3>1. Used(g) = Used(h) \cup {b} /\ Size(g, b) >= n
      BY <2>7, <2>12
    <3>2. got.p = b + MetaSize
      BY <2>4, <2>9
    <3> QED BY <2>1, <2>7, <2>9, <2>12, <2>13, <3>1, <3>2, HandsBlock
  <2> QED BY <1>1, <1>6, <2>1, <2>4, <2>9, <2>11, <2>14
<1> QED BY <1>5, <1>6

-----------------------------------------------------------------------------
(* srealloc: merging around a block                                         *)

Grew(h, g, block) == {a \in BlocksOf(g) : IsFree(h, a) /\ a # block}

(* h has been merged, but for block.                                        *)
MergedBut(h, g, block) ==
  /\ Good(g) /\ Maps(g) = Maps(h) /\ g.brk = h.brk /\ g.firsthead = h.firsthead
  /\ \A a \in BlocksOf(g) : a \in BlocksOf(h) /\ (IsFree(g, a) <=> IsFree(h, a))
  /\ \A a \in BlocksOf(h) : a \notin BlocksOf(g) => IsFree(h, a) /\ a # block
  /\ AlikeOn(h.mem, g.mem, Cells \ Grew(h, g, block))
  /\ Even(h, g)
  /\ \A a \in BlocksOf(g) :
       a # block /\ IsFree(h, a) /\ After(g, a) # g.brk /\ After(g, a) # block => ~IsFree(h, After(g, a))

(* A block that is passed off as used while the counters go along with the  *)
(* blocks.                                                                  *)
LEMMA TallyMasked ==
  ASSUME NEW h, NEW k, NEW b \in AllOf(h), AllOf(k) = AllOf(h),
         FreeOf(h) = FreeOf(k) \cup {b}, b \notin FreeOf(k),
         \A a \in AllOf(h) : Size(k, a) = Size(h, a), NEW s \in Nat, s = Size(h, b),
         NEW fn, NEW fm, Tally(k, FreeOf(k), fn, fm), NEW an, NEW am, Tally(k, AllOf(k), an, am)
  PROVE  Tally(h, FreeOf(h), fn + 1, fm + s) /\ Tally(h, AllOf(h), an, am)
<1>1. \A a \in FreeOf(k) : Size(h, a) = Size(k, a)
  BY DEF FreeOf, AllOf
<1>2. Tally(h, FreeOf(k), fn, fm) /\ Tally(h, AllOf(k), an, am)
  BY <1>1, TallySame
<1>3. Tally(h, FreeOf(k) \cup {b}, fn + 1, fm + s)
  BY <1>2, TallyWith
<1> QED BY <1>2, <1>3

LEMMA Shift ==
  ASSUME NEW x \in Int, NEW y \in Int, NEW p \in Int, NEW q \in Int, NEW d \in Int, x - p = y - q
  PROVE  x = y + ((p + d) - (q + d))
<1>1. x = y + (p - q) /\ (p + d) - (q + d) = p - q
  OBVIOUS
<1> QED BY <1>1

LEMMA EvenMasked ==
  ASSUME NEW h, Good(h), NEW k, Good(k), NEW m, Good(m), NEW g, Good(g), Even(k, m),
         SameCounters(h, k), SameCounters(m, g),
         NEW b \in AllOf(h), b \in AllOf(m), AllOf(k) = AllOf(h), AllOf(g) = AllOf(m),
         FreeOf(h) = FreeOf(k) \cup {b}, FreeOf(g) = FreeOf(m) \cup {b},
         b \notin FreeOf(k), b \notin FreeOf(m),
         \A a \in AllOf(h) : Size(k, a) = Size(h, a), \A a \in AllOf(m) : Size(g, a) = Size(m, a),
         Size(g, b) = Size(h, b)
  PROVE  Even(h, g)
<1>1. PICK s \in Nat : s = Size(h, b)
  BY SizesAre
<1>2. /\ \E fn, fm : Tally(k, FreeOf(k), fn, fm)
      /\ \E an, am : Tally(k, AllOf(k), an, am)
      /\ \E fk, fl : Tally(m, FreeOf(m), fk, fl)
      /\ \E ak, al : Tally(m, AllOf(m), ak, al)
  BY Tallies DEF FreeOf, AllOf
<1>3. PICK fn, fm, an, am, fk, fl, ak, al :
        /\ Tally(k, FreeOf(k), fn, fm) /\ Tally(k, AllOf(k), an, am)
        /\ Tally(m, FreeOf(m), fk, fl) /\ Tally(m, AllOf(m), ak, al)
  BY <1>2
<1>4. Tally(h, FreeOf(h), fn + 1, fm + s) /\ Tally(h, AllOf(h), an, am)
  BY <1>1, <1>3, TallyMasked
<1>5. b \in AllOf(g) /\ s = Size(g, b) /\ \A a \in AllOf(g) : Size(m, a) = Size(g, a)
  BY <1>1
<1>6. Tally(g, FreeOf(g), fk + 1, fl + s) /\ Tally(g, AllOf(g), ak, al)
  BY <1>3, <1>5, TallyMasked
<1>7. /\ fn \in Nat /\ fm \in Nat /\ an \in Nat /\ am \in Nat
      /\ fk \in Nat /\ fl \in Nat /\ ak \in Nat /\ al \in Nat
      /\ fn = Cardinality(FreeOf(k)) /\ fm = Cardinality(Bytes(k, FreeOf(k)))
      /\ an = Cardinality(AllOf(k)) /\ am = Cardinality(Bytes(k, AllOf(k)))
      /\ fk = Cardinality(FreeOf(m)) /\ fl = Cardinality(Bytes(m, FreeOf(m)))
      /\ ak = Cardinality(AllOf(m)) /\ al = Cardinality(Bytes(m, AllOf(m)))
  BY <1>3 DEF Tally
<1>8. Typed(h) /\ Counters(k) /\ Counters(m)
  BY DEF Good, Typed
<1>9. /\ m.num_free_blocks - fk = k.num_free_blocks - fn
      /\ m.num_free_bytes - fl = k.num_free_bytes - fm
      /\ m.num_allocated_blocks - ak = k.num_allocated_blocks - an
      /\ m.num_allocated_bytes - al = k.num_allocated_bytes - am
      /\ m.num_meta_data_bytes - ak = k.num_meta_data_bytes - an
  BY <1>7 DEF Even
<1>10. /\ m.num_free_blocks = k.num_free_blocks + ((fk + 1) - (fn + 1))
       /\ m.num_free_bytes = k.num_free_bytes + ((fl + s) - (fm + s))
       /\ m.num_allocated_blocks = k.num_allocated_blocks + (ak - an)
       /\ m.num_allocated_bytes = k.num_allocated_bytes + (al - am)
       /\ m.num_meta_data_bytes = k.num_meta_data_bytes + (ak - an)
  <2>1. /\ m.num_free_blocks \in Int /\ k.num_free_blocks \in Int /\ m.num_free_bytes \in Int /\ k.num_free_bytes \in Int
        /\ m.num_allocated_blocks \in Int /\ k.num_allocated_blocks \in Int
        /\ m.num_allocated_bytes \in Int /\ k.num_allocated_bytes \in Int
        /\ m.num_meta_data_bytes \in Int /\ k.num_meta_data_bytes \in Int
    BY <1>8 DEF Counters
  <2>0. fk \in Int /\ fn \in Int /\ fl \in Int /\ fm \in Int /\ s \in Int /\ 1 \in Int
    BY <1>1, <1>7
  <2>2. m.num_free_blocks = k.num_free_blocks + ((fk + 1) - (fn + 1))
    <3>1. PICK d \in Int : d = 1
      OBVIOUS
    <3>2. /\ m.num_free_blocks \in Int /\ k.num_free_blocks \in Int /\ fk \in Int /\ fn \in Int
          /\ m.num_free_blocks - fk = k.num_free_blocks - fn
      BY <1>9, <2>0, <2>1
    <3>3. m.num_free_blocks = k.num_free_blocks + ((fk + d) - (fn + d))
      BY <3>2, Shift
    <3> QED BY <3>1, <3>3
  <2>3. m.num_free_bytes = k.num_free_bytes + ((fl + s) - (fm + s))
    BY <1>9, <2>0, <2>1, Shift
  <2>4. m.num_allocated_blocks = k.num_allocated_blocks + (ak - an)
    BY <1>1, <1>7, <1>9, <2>1
  <2>5. m.num_allocated_bytes = k.num_allocated_bytes + (al - am)
    BY <1>1, <1>7, <1>9, <2>1
  <2>6. m.num_meta_data_bytes = k.num_meta_data_bytes + (ak - an)
    BY <1>1, <1>7, <1>9, <2>1
  <2> QED BY <2>2, <2>3, <2>4, <2>5, <2>6
<1>11. /\ g.num_free_blocks = h.num_free_blocks + ((fk + 1) - (fn + 1))
       /\ g.num_free_bytes = h.num_free_bytes + ((fl + s) - (fm + s))
       /\ g.num_allocated_blocks = h.num_allocated_blocks + (ak - an)
       /\ g.num_allocated_bytes = h.num_allocated_bytes + (al - am)
       /\ g.num_meta_data_bytes = h.num_meta_data_bytes + (ak - an)
  BY <1>10 DEF SameCounters
<1> QED BY <1>4, <1>6, <1>8, <1>11, EvenIs

LEMMA MergeAlone ==
  ASSUME NEW h, Good(h), Fine(merge(h)), NEW block, block = NULL
  PROVE  MergedBut(h, merge(h), block)
<1>1. PICK g : g = merge(h)
  OBVIOUS
<1>2. Merged(h, g, h.brk) /\ NoTwo(g, h.brk)
  BY <1>1, MergeGood
<1>3. /\ Good(g) /\ Maps(g) = Maps(h) /\ g.brk = h.brk /\ g.firsthead = h.firsthead
      /\ \A a \in BlocksOf(g) : a \in BlocksOf(h) /\ (IsFree(g, a) <=> IsFree(h, a))
      /\ \A a \in BlocksOf(h) : a \notin BlocksOf(g) => IsFree(h, a)
      /\ AlikeOn(h.mem, g.mem, Cells \ {a \in BlocksOf(g) : IsFree(h, a) /\ a <= h.brk})
      /\ Even(h, g)
  BY <1>2 DEF Merged
<1>4. \A a \in BlocksOf(h) : a # block
  BY BlocksIn, Constants
<1>5. AlikeOn(h.mem, g.mem, Cells \ Grew(h, g, block))
  <2>1. \A c \in Cells \ Grew(h, g, block) : c \in Cells \ {a \in BlocksOf(g) : IsFree(h, a) /\ a <= h.brk}
    BY <1>3, <1>4 DEF Grew
  <2> QED BY <1>3, <2>1, AlikeOnLess
<1>6. ASSUME NEW a \in BlocksOf(g), IsFree(h, a), After(g, a) # g.brk
      PROVE  ~IsFree(h, After(g, a))
  <2>1. a < h.brk /\ After(g, a) \in BlocksOf(g)
    BY <1>3, <1>6, BlocksIn DEF Good, Chain
  <2>2. ~(IsFree(g, a) /\ IsFree(g, After(g, a)))
    BY <1>2, <1>6, <2>1 DEF NoTwo
  <2> QED BY <1>3, <1>6, <2>1, <2>2
<1> QED BY <1>1, <1>3, <1>4, <1>5, <1>6 DEF MergedBut

LEMMA MergeBeside ==
  ASSUME NEW h, Good(h), NEW block \in BlocksOf(h), NEW no \in BOOLEAN, ~no,
         NEW k, k = Set(h, block, "is_free", no), NEW m, m = merge(k), Fine(m),
         NEW g, g = Set(m, block, "is_free", IsFree(h, block))
  PROVE  MergedBut(h, g, block)
<1>1. /\ Marked(h, k, block) /\ ~IsFree(k, block) /\ k.brk = h.brk /\ k.firsthead = h.firsthead
  BY SetMarks DEF Marked, SameBounds
<1>2. /\ Good(k) /\ BlocksOf(k) = BlocksOf(h) /\ Maps(k) = Maps(h)
      /\ AlikeOn(h.mem, k.mem, Cells \ {block}) /\ Size(k, block) = Size(h, block) /\ Valid(k, block)
  BY <1>1 DEF Marked
<1>3. Merged(k, m, k.brk) /\ NoTwo(m, k.brk)
  BY <1>2, MergeGood
<1>4. /\ Good(m) /\ Maps(m) = Maps(k) /\ m.brk = k.brk /\ m.firsthead = k.firsthead
      /\ \A a \in BlocksOf(m) : a \in BlocksOf(k) /\ (IsFree(m, a) <=> IsFree(k, a))
      /\ \A a \in BlocksOf(k) : a \notin BlocksOf(m) => IsFree(k, a)
      /\ AlikeOn(k.mem, m.mem, Cells \ {a \in BlocksOf(m) : IsFree(k, a) /\ a <= k.brk})
      /\ Even(k, m)
  BY <1>3 DEF Merged
<1>5. block \in BlocksOf(m) /\ IsFree(h, block) \in BOOLEAN
  BY <1>1, <1>2, <1>4, BlocksIn
<1>6. Marked(m, g, block) /\ (IsFree(g, block) <=> IsFree(h, block))
  BY <1>4, <1>5, SetMarks
<1>7. /\ Good(g) /\ BlocksOf(g) = BlocksOf(m) /\ Maps(g) = Maps(m)
      /\ AlikeOn(m.mem, g.mem, Cells \ {block}) /\ Size(g, block) = Size(m, block) /\ Valid(g, block)
      /\ g.brk = m.brk /\ g.firsthead = m.firsthead
  BY <1>6 DEF Marked, SameBounds
<1>8. ASSUME NEW a \in BlocksOf(h), a # block PROVE IsFree(k, a) <=> IsFree(h, a)
  <2>1. Valid(h, a) /\ a \in Cells \ {block}
    BY <1>8, BlocksIn
  <2> QED BY <1>2, <2>1, ValidAlikeOn
<1>9. ASSUME NEW a \in BlocksOf(m), a # block
      PROVE  /\ IsFree(g, a) <=> IsFree(m, a)
             /\ After(g, a) = After(m, a)
  <2>1. Valid(m, a) /\ a \in Cells \ {block}
    BY <1>4, <1>9, BlocksIn
  <2> QED BY <1>7, <2>1, ValidAlikeOn
<1>10. \A a \in BlocksOf(g) : a \in BlocksOf(h) /\ (IsFree(g, a) <=> IsFree(h, a))
  BY <1>2, <1>4, <1>6, <1>7, <1>8, <1>9
<1>11. \A a \in BlocksOf(h) : a \notin BlocksOf(g) => IsFree(h, a) /\ a # block
  BY <1>2, <1>4, <1>5, <1>7, <1>8
<1>12. ASSUME NEW c \in Cells \ Grew(h, g, block), c # block
       PROVE  /\ g.mem[c].tag = h.mem[c].tag
              /\ h.mem[c].tag = "header" => /\ g.mem[c].size = h.mem[c].size
                                            /\ g.mem[c].is_free = h.mem[c].is_free
              /\ h.mem[c].tag # "header" => g.mem[c] = h.mem[c]
  <2>1. c \notin {a \in BlocksOf(m) : IsFree(k, a) /\ a <= k.brk}
    BY <1>2, <1>4, <1>7, <1>8, <1>12 DEF Grew
  <2> QED BY <1>2, <1>4, <1>7, <1>12, <2>1 DEF AlikeOn
<1>13. /\ g.mem[block].tag = h.mem[block].tag /\ h.mem[block].tag = "header"
       /\ g.mem[block].size = h.mem[block].size
       /\ g.mem[block].is_free = h.mem[block].is_free
  <2>1. block \in Cells \ {a \in BlocksOf(m) : IsFree(k, a) /\ a <= k.brk}
    BY <1>1, BlocksIn
  <2>2. Size(m, block) = Size(k, block)
    BY <1>2, <1>4, <2>1, ValidAlikeOn
  <2>3. Valid(h, block) /\ Valid(g, block) /\ Size(g, block) = Size(h, block)
    BY <1>2, <1>7, <2>2, BlocksIn
  <2>4. IsFree(h, block) \in BOOLEAN /\ IsFree(g, block) \in BOOLEAN
    BY <1>5, <1>7, BlocksIn
  <2>5. IsFree(g, block) = IsFree(h, block)
    BY <1>6, <2>4
  <2> QED BY <2>3, <2>5 DEF Valid, Size, IsFree
<1>14. AlikeOn(h.mem, g.mem, Cells \ Grew(h, g, block))
  BY <1>12, <1>13 DEF AlikeOn
<1>15. ASSUME NEW a \in BlocksOf(g), a # block, IsFree(h, a), After(g, a) # g.brk, After(g, a) # block
       PROVE  ~IsFree(h, After(g, a))
  <2>1. a < g.brk /\ After(g, a) \in BlocksOf(g)
    BY <1>7, <1>15, BlocksIn DEF Good, Chain
  <2>2. a \in BlocksOf(m) /\ After(m, a) \in BlocksOf(m) /\ After(m, a) = After(g, a) /\ IsFree(m, a)
        /\ a < k.brk /\ After(m, a) # m.brk
    BY <1>4, <1>7, <1>8, <1>9, <1>2, <1>15, <2>1
  <2>3. ~IsFree(m, After(m, a))
    BY <1>3, <2>2 DEF NoTwo
  <2> QED BY <1>4, <1>2, <1>8, <1>15, <2>2, <2>3
<1>16. Even(h, g)
  <2>1. SameCounters(h, k) /\ SameCounters(m, g)
    BY <1>4, <1>5, SetMarks
  <2>2. AllOf(k) = AllOf(h) /\ AllOf(g) = AllOf(m) /\ block \in AllOf(h) /\ block \in AllOf(m)
    BY <1>2, <1>5, <1>7 DEF AllOf
  <2>3. ASSUME NEW a \in AllOf(h) PROVE Size(k, a) = Size(h, a)
    <3>1. Valid(h, a) /\ (a = block \/ a \in Cells \ {block})
      BY <2>3, BlocksIn, MapsIn DEF AllOf
    <3> QED BY <1>2, <3>1, ValidAlikeOn
  <2>4. ASSUME NEW a \in AllOf(m) PROVE Size(g, a) = Size(m, a)
    <3>1. Valid(m, a) /\ (a = block \/ a \in Cells \ {block})
      BY <1>4, <2>4, BlocksIn, MapsIn DEF AllOf
    <3> QED BY <1>7, <3>1, ValidAlikeOn
  <2>5. Size(g, block) = Size(h, block)
    BY <1>13 DEF Size
  <2>6. CASE IsFree(h, block)
    <3>1. FreeOf(h) = FreeOf(k) \cup {block} /\ block \notin FreeOf(k)
      BY <1>1, <1>2, <1>8, <2>6 DEF FreeOf
    <3>2. IsFree(g, block) /\ ~IsFree(m, block) /\ \A a \in BlocksOf(m) : a # block => (IsFree(g, a) <=> IsFree(m, a))
      BY <1>1, <1>4, <1>5, <1>6, <1>9, <2>6
    <3>3. FreeOf(g) = FreeOf(m) \cup {block} /\ block \notin FreeOf(m)
      BY <1>5, <1>7, <3>2 DEF FreeOf
    <3> QED BY <1>2, <1>4, <1>7, <2>1, <2>2, <2>3, <2>4, <2>5, <3>1, <3>3, EvenMasked
  <2>7. CASE ~IsFree(h, block)
    <3>1. FreeOf(k) = FreeOf(h)
      BY <1>1, <1>2, <1>8, <2>7 DEF FreeOf
    <3>2. FreeOf(g) = FreeOf(m)
      BY <1>1, <1>4, <1>5, <1>6, <1>7, <1>9, <2>7 DEF FreeOf
    <3>3. Even(h, k) /\ Even(m, g)
      BY <2>1, <2>2, <2>3, <2>4, <3>1, <3>2, EvenSame
    <3> QED BY <1>4, <3>3, EvenTransitive
  <2> QED BY <2>6, <2>7
<1> QED BY <1>1, <1>2, <1>4, <1>7, <1>10, <1>11, <1>14, <1>15, <1>16 DEF MergedBut

LEMMA MergeWithoutLater ==
  ASSUME NEW h, IsHeap(h), NEW block
  PROVE  Later(h, MergeWithout(h, block))
<1>1. PICK v, k : v = IsFree(h, block) /\ k = Set(h, block, "is_free", FALSE)
  OBVIOUS
<1>2. Later(h, k) /\ IsHeap(k)
  BY <1>1, SetLater DEF Later
<1>3. Later(k, merge(k)) /\ IsHeap(merge(k))
  BY <1>2, MergeLater DEF Later
<1>4. Later(merge(k), Set(merge(k), block, "is_free", v))
  BY <1>3, SetLater
<1>5. Later(h, Set(merge(k), block, "is_free", v))
  BY <1>2, <1>3, <1>4, LaterTransitive
<1>6. MergeWithout(h, block) = IF block = NULL THEN merge(h) ELSE Set(merge(k), block, "is_free", v)
  BY <1>1, Zenon DEF MergeWithout
<1> QED BY <1>5, <1>6, MergeLater

LEMMA MergeWithoutGood ==
  ASSUME NEW h, Good(h), NEW block, block = NULL \/ block \in BlocksOf(h), Fine(MergeWithout(h, block))
  PROVE  MergedBut(h, MergeWithout(h, block), block)
<1>1. CASE block = NULL
  <2>1. MergeWithout(h, block) = merge(h)
    BY <1>1 DEF MergeWithout
  <2> QED BY <1>1, <2>1, MergeAlone
<1>2. CASE block # NULL
  <2>0. PICK no \in BOOLEAN : ~no
    OBVIOUS
  <2>1. PICK k, m, g : /\ k = Set(h, block, "is_free", no) /\ m = merge(k)
                       /\ g = Set(m, block, "is_free", IsFree(h, block))
    OBVIOUS
  <2>2. k = Set(h, block, "is_free", FALSE)
    BY <2>0, <2>1, Zenon
  <2>3. MergeWithout(h, block) = g
    BY <1>2, <2>1, <2>2, Zenon DEF MergeWithout
  <2>4. IsHeap(k)
    BY <2>1, SetLater, GoodEnds DEF Later
  <2>5. IsHeap(m)
    BY <2>1, <2>4, MergeLater DEF Later
  <2>6. Fine(m)
    BY <2>1, <2>3, <2>5, SetLater DEF Later
  <2> QED BY <1>2, <2>0, <2>1, <2>3, <2>6, MergeBeside
<1> QED BY <1>1, <1>2

LEMMA WithoutUsed ==
  ASSUME NEW h, Good(h), NEW g, NEW block, MergedBut(h, g, block)
  PROVE  Used(g) = Used(h) /\ Keeps(h, g, Used(h))
<1>1. PICK X : X = Grew(h, g, block)
  OBVIOUS
<1>2. Good(g) /\ Maps(g) = Maps(h) /\ AlikeOn(h.mem, g.mem, Cells \ X) /\ Even(h, g)
  BY <1>1 DEF MergedBut
<1>3. ASSUME NEW a \in Maps(h) PROVE IsFree(g, a) <=> IsFree(h, a)
  BY <1>2, <1>3, MapsIn
<1>4. Used(g) = Used(h)
  BY <1>2, <1>3 DEF Used, MergedBut
<1>5. ASSUME NEW a \in Used(h), NEW c \in Extent(h, a) PROVE c \notin X
  <2>1. SUFFICES ASSUME c \in X PROVE FALSE
    OBVIOUS
  <2>2. a \in BlocksOf(h) \cup Maps(h) /\ ~IsFree(h, a)
    BY DEF Used
  <2>3. c \in BlocksOf(h) /\ IsFree(h, c)
    BY <1>1, <2>1 DEF MergedBut, Grew
  <2>4. c \in Extent(h, c)
    BY <2>3, BlocksIn DEF Extent
  <2> QED BY <2>2, <2>3, <2>4, <1>5, Apart
<1>6. Keeps(h, g, Used(h))
  <2>1. \A b \in Used(h) : b \in Used(h) /\ b \in BlocksOf(g) \cup Maps(g)
    BY <1>4 DEF Used
  <2> QED BY <1>2, <1>5, <2>1, Untouched
<1> QED BY <1>4, <1>6

(* Where the blocks end                                                     *)
LEMMA WithoutReaches ==
  ASSUME NEW h, Good(h), NEW g, NEW block, MergedBut(h, g, block), NEW a \in BlocksOf(g)
  PROVE  /\ After(g, a) >= After(h, a) /\ After(g, a) \in Nat /\ After(h, a) \in Nat
         /\ ~IsFree(h, a) \/ a = block => After(g, a) = After(h, a)
<1>1. /\ Good(g) /\ g.brk = h.brk /\ a \in BlocksOf(h)
      /\ \A x \in BlocksOf(g) : x \in BlocksOf(h)
      /\ AlikeOn(h.mem, g.mem, Cells \ Grew(h, g, block))
  BY DEF MergedBut
<1>2. /\ a \in Nat /\ After(g, a) \in Nat /\ a < After(g, a) /\ Valid(h, a) /\ a \in Cells
      /\ After(h, a) \in Nat /\ After(h, a) <= h.brk /\ h.brk \in Nat
  BY <1>1, BlocksIn, HeaderSizes DEF Good
<1>3. After(g, a) \in BlocksOf(g) \/ After(g, a) = h.brk
  BY <1>1 DEF Good, Chain
<1>4. After(g, a) >= After(h, a)
  <2>1. CASE After(g, a) \in BlocksOf(h)
    BY <1>1, <1>2, <2>1 DEF Good, Chain
  <2>2. CASE After(g, a) = h.brk
    BY <1>2, <2>2
  <2> QED BY <1>1, <1>3, <2>1, <2>2
<1>5. ASSUME ~IsFree(h, a) \/ a = block PROVE After(g, a) = After(h, a)
  <2>1. a \in Cells \ Grew(h, g, block)
    BY <1>2, <1>5 DEF Grew
  <2> QED BY <1>1, <1>2, <2>1, ValidAlikeOn
<1> QED BY <1>2, <1>4, <1>5

(* A free block that has reached another free one has swallowed it.         *)
LEMMA WithoutSwallows ==
  ASSUME NEW h, Good(h), NEW g, NEW block, MergedBut(h, g, block),
         NEW a \in BlocksOf(g), a # block, IsFree(h, a),
         NEW x \in BlocksOf(h), x # block, IsFree(h, x), After(g, a) >= x
  PROVE  After(g, a) >= After(h, x)
<1>1. /\ Good(g) /\ g.brk = h.brk
      /\ \A y \in BlocksOf(g) : y \in BlocksOf(h)
  BY DEF MergedBut
<1>2. /\ x \in Nat /\ x < h.brk /\ h.brk \in Nat /\ After(h, x) \in Nat /\ After(h, x) <= h.brk
  BY BlocksIn, HeaderSizes DEF Good
<1>3. After(g, a) \in Nat
  BY WithoutReaches
<1>4. After(g, a) # x
  BY <1>1, <1>2 DEF MergedBut
<1>5. After(g, a) \in BlocksOf(g) \/ After(g, a) = h.brk
  BY <1>1 DEF Good, Chain
<1>6. CASE After(g, a) \in BlocksOf(h)
  BY <1>2, <1>3, <1>4, <1>6 DEF Good, Chain
<1>7. CASE After(g, a) = h.brk
  BY <1>2, <1>7
<1> QED BY <1>1, <1>5, <1>6, <1>7

-----------------------------------------------------------------------------
(* srealloc: the contents of the old block                                  *)

(* The n cells behind a are as they were.                                   *)
Rests(h, g, a, n) == \A c \in (a + 1)..(a + n) : h.mem[c].tag # "header" => g.mem[c] = h.mem[c]

LEMMA RestsTransitive ==
  ASSUME NEW h, NEW g, NEW k, NEW a, NEW n, Rests(h, g, a, n), Rests(g, k, a, n)
  PROVE  Rests(h, k, a, n)
  BY DEF Rests

LEMMA RestsAlike ==
  ASSUME NEW h, NEW g, NEW R, AlikeOn(h.mem, g.mem, Cells \ R), NEW a \in Nat, NEW n \in Nat,
         \A c \in a..(a + n) : c \in Cells,
         \A c \in (a + 1)..(a + n) : c \notin R
  PROVE  Rests(h, g, a, n)
<1>1. SUFFICES ASSUME NEW c \in (a + 1)..(a + n), h.mem[c].tag # "header" PROVE g.mem[c] = h.mem[c]
  BY DEF Rests
<1>2. c \in a..(a + n)
  BY <1>1
<1>3. c \in Cells \ R
  BY <1>1, <1>2
<1> QED BY <1>1, <1>3 DEF AlikeOn

(* h with old freed, and merged but for block                               *)
FreedMerged(h, f, g, old, block) ==
  /\ Good(f) /\ BlocksOf(f) = BlocksOf(h)
  /\ \A a \in BlocksOf(h) : After(f, a) = After(h, a) /\ (IsFree(f, a) <=> IsFree(h, a) \/ a = old)
  /\ MergedBut(f, g, block)
  /\ Good(g) /\ g.brk = h.brk /\ g.firsthead = h.firsthead /\ f.brk = h.brk
  /\ Used(g) = Used(h) \ {old} /\ Keeps(h, g, Used(h) \ {old})
  /\ Rests(h, g, old, Size(h, old))
  /\ old \notin BlocksOf(g) => Valid(g, old) /\ Size(g, old) = Size(h, old)

LEMMA FreedMergedIs ==
  ASSUME NEW h, Good(h), NEW old \in BlocksOf(h), ~IsFree(h, old),
         NEW block, block = NULL \/ block \in BlocksOf(h),
         NEW f, f = Freed(h, old), NEW g, g = MergeWithout(f, block), Fine(g)
  PROVE  FreedMerged(h, f, g, old, block)
<1>1. Marked(h, f, old) /\ IsFree(f, old) /\ Even(h, f)
  BY FreedGood
<1>2. /\ Good(f) /\ BlocksOf(f) = BlocksOf(h) /\ Maps(f) = Maps(h)
      /\ AlikeOn(h.mem, f.mem, Cells \ {old}) /\ f.brk = h.brk /\ f.firsthead = h.firsthead
      /\ Valid(f, old) /\ Size(f, old) = Size(h, old)
  BY <1>1 DEF Marked, SameBounds
<1>3. MergedBut(f, g, block)
  BY <1>2, MergeWithoutGood
<1>4. /\ Good(g) /\ g.brk = f.brk /\ g.firsthead = f.firsthead
      /\ AlikeOn(f.mem, g.mem, Cells \ Grew(f, g, block))
      /\ \A a \in BlocksOf(g) : a \in BlocksOf(f)
  BY <1>3 DEF MergedBut
<1>5. Used(g) = Used(f) /\ Keeps(f, g, Used(f))
  BY <1>2, <1>3, WithoutUsed
<1>6. Used(f) = Used(h) \ {old} /\ Keeps(h, f, Used(h) \ {old})
  BY <1>1, MarkedUsed
<1>7. Keeps(h, g, Used(h) \ {old})
  BY <1>5, <1>6, KeepsTransitive
<1>8. ASSUME NEW a \in BlocksOf(h)
      PROVE  After(f, a) = After(h, a) /\ (IsFree(f, a) <=> IsFree(h, a) \/ a = old)
  <2>1. CASE a = old
    BY <1>1, <1>2, <2>1 DEF After
  <2>2. CASE a # old
    <3>1. Valid(h, a) /\ a \in Cells \ {old}
      BY <2>2, BlocksIn
    <3> QED BY <1>2, <2>2, <3>1, ValidAlikeOn
  <2> QED BY <2>1, <2>2
<1>9. PICK n : n = Size(h, old)
  OBVIOUS
<1>10. old \in Nat /\ n \in Nat /\ \A c \in old..(old + n) : c \in Cells
  BY <1>9, ExtentIn DEF Extent
<1>11. Rests(h, f, old, n)
  <2>1. \A c \in (old + 1)..(old + n) : c \notin {old}
    BY <1>10
  <2> QED BY <1>2, <1>10, <2>1, RestsAlike
<1>12. Rests(f, g, old, n) /\ (old \notin BlocksOf(g) => Valid(g, old) /\ Size(g, old) = n)
  <2>1. PICK R : R = Grew(f, g, block)
    OBVIOUS
  <2>2. \A c \in (old + 1)..(old + n) : c \notin R
    <3>1. SUFFICES ASSUME NEW c \in (old + 1)..(old + n), c \in R PROVE FALSE
      OBVIOUS
    <3>2. c \in BlocksOf(f)
      BY <1>4, <2>1, <3>1 DEF Grew
    <3>3. c \notin Extent(f, old)
      <4>1. c \in Extent(f, c)
        BY <1>2, <3>2, BlocksIn DEF Extent
      <4>2. c # old
        BY <1>10, <3>1
      <4> QED BY <1>2, <3>2, <4>1, <4>2, Apart
    <3> QED BY <1>2, <1>9, <1>10, <3>1, <3>3 DEF Extent
  <2>3. old \in R => old \in BlocksOf(g)
    BY <2>1 DEF Grew
  <2>4. AlikeOn(f.mem, g.mem, Cells \ R)
    BY <1>4, <2>1
  <2>5. Rests(f, g, old, n)
    BY <1>10, <2>2, <2>4, RestsAlike
  <2>6. ASSUME old \notin BlocksOf(g) PROVE Valid(g, old) /\ Size(g, old) = n
    <3>1. old \in Cells \ R
      BY <2>3, <2>6, BlocksIn
    <3> QED BY <1>2, <1>9, <2>4, <3>1, ValidAlikeOn
  <2> QED BY <2>5, <2>6
<1>13. Rests(h, g, old, n)
  BY <1>11, <1>12, RestsTransitive
<1> QED BY <1>2, <1>3, <1>4, <1>5, <1>6, <1>7, <1>8, <1>9, <1>12, <1>13 DEF FreedMerged

(* The block in front has swallowed old, and next if that is free.          *)
LEMMA LowerReaches ==
  ASSUME NEW h, Good(h), NEW old \in BlocksOf(h), NEW block, NEW f, NEW g,
         FreedMerged(h, f, g, old, block),
         NEW prev \in BlocksOf(g), prev \in BlocksOf(h), After(h, prev) = old,
         IsFree(h, prev), prev # block, old # block
  PROVE  /\ After(g, prev) >= After(h, old) /\ old \notin BlocksOf(g)
         /\ After(h, old) \in BlocksOf(h) /\ After(h, old) # block /\ IsFree(h, After(h, old))
              => After(g, prev) >= After(h, After(h, old))
<1>1. /\ Good(f) /\ BlocksOf(f) = BlocksOf(h) /\ MergedBut(f, g, block) /\ Good(g)
      /\ \A a \in BlocksOf(h) : After(f, a) = After(h, a) /\ (IsFree(f, a) <=> IsFree(h, a) \/ a = old)
  BY DEF FreedMerged
<1>2. After(g, prev) >= old
  BY <1>1, WithoutReaches
<1>3. After(g, prev) >= After(h, old)
  <2>1. After(g, prev) >= After(f, old)
    BY <1>1, <1>2, WithoutSwallows
  <2> QED BY <1>1, <2>1
<1>4. old \notin BlocksOf(g)
  <2>1. SUFFICES ASSUME old \in BlocksOf(g) PROVE FALSE
    OBVIOUS
  <2>2. prev < old /\ old \in Nat /\ After(h, old) \in Nat /\ old < After(h, old)
    BY BlocksIn, HeaderSizes DEF Good
  <2>3. After(g, prev) <= old
    BY <1>1, <2>1, <2>2 DEF Good, Chain
  <2>4. After(g, prev) \in Nat
    BY <1>1, WithoutReaches
  <2> QED BY <1>3, <2>2, <2>3, <2>4
<1>5. ASSUME After(h, old) \in BlocksOf(h), After(h, old) # block, IsFree(h, After(h, old))
      PROVE  After(g, prev) >= After(h, After(h, old))
  <2>1. PICK x : x = After(h, old)
    OBVIOUS
  <2>2. x \in BlocksOf(f) /\ x # block /\ IsFree(f, x) /\ After(g, prev) >= x
    BY <1>1, <1>3, <1>5, <2>1
  <2>3. After(g, prev) >= After(f, x)
    BY <1>1, <2>2, WithoutSwallows
  <2> QED BY <1>1, <1>5, <2>1, <2>3
<1> QED BY <1>3, <1>4, <1>5

(* Nothing in front of old swallows it; it has swallowed next.              *)
LEMMA UpperReaches ==
  ASSUME NEW h, Good(h), NEW old \in BlocksOf(h), NEW block, NEW f, NEW g,
         FreedMerged(h, f, g, old, block),
         \/ old = h.firsthead
         \/ \E prev \in BlocksOf(h) : After(h, prev) = old /\ (~IsFree(h, prev) \/ prev = block) /\ prev # old,
         old # block
  PROVE  /\ old \in BlocksOf(g)
         /\ After(h, old) \in BlocksOf(h) /\ After(h, old) # block /\ IsFree(h, After(h, old))
              => After(g, old) >= After(h, After(h, old))
<1>1. /\ Good(f) /\ BlocksOf(f) = BlocksOf(h) /\ MergedBut(f, g, block) /\ Good(g)
      /\ \A a \in BlocksOf(h) : After(f, a) = After(h, a) /\ (IsFree(f, a) <=> IsFree(h, a) \/ a = old)
      /\ g.firsthead = h.firsthead /\ g.brk = h.brk
  BY DEF FreedMerged
<1>2. old \in BlocksOf(g)
  <2>1. CASE old = h.firsthead
    <3>1. h.firsthead # NULL
      BY BlocksIn
    <3> QED BY <1>1, <2>1, <3>1 DEF Good, Chain
  <2>2. ASSUME NEW prev \in BlocksOf(h), After(h, prev) = old, ~IsFree(h, prev) \/ prev = block, prev # old
        PROVE  old \in BlocksOf(g)
    <3>1. prev \in BlocksOf(g)
      BY <1>1, <2>2 DEF MergedBut
    <3>2. After(g, prev) = old
      <4>1. ~IsFree(f, prev) \/ prev = block
        BY <1>1, <2>2
      <4> QED BY <1>1, <2>2, <3>1, <4>1, WithoutReaches
    <3>3. old < g.brk /\ g.brk \in Nat
      BY <1>1, BlocksIn
    <3> QED BY <1>1, <3>1, <3>2, <3>3, BlocksIn DEF Good, Chain
  <2> QED BY <2>1, <2>2
<1>3. ASSUME After(h, old) \in BlocksOf(h), After(h, old) # block, IsFree(h, After(h, old))
      PROVE  After(g, old) >= After(h, After(h, old))
  <2>1. PICK x : x = After(h, old)
    OBVIOUS
  <2>2. After(g, old) >= x
    BY <1>1, <1>2, <2>1, WithoutReaches
  <2>3. x \in BlocksOf(f) /\ x # block /\ IsFree(f, x) /\ IsFree(f, old)
    BY <1>1, <1>3, <2>1
  <2>4. After(g, old) >= After(f, x)
    BY <1>1, <1>2, <2>2, <2>3, WithoutSwallows
  <2> QED BY <1>1, <1>3, <2>1, <2>4
<1> QED BY <1>2, <1>3

LEMMA Wildest ==
  ASSUME NEW h, Good(h), NEW a \in BlocksOf(h), After(h, a) >= h.brk
  PROVE  h.wilderness = a /\ After(h, a) = h.brk /\ h.firsthead # NULL
<1>1. /\ h.firsthead # NULL /\ a \in Nat /\ After(h, a) <= h.brk /\ h.brk \in Nat /\ After(h, a) \in Nat
  BY BlocksIn, HeaderSizes DEF Good
<1>2. h.wilderness \in BlocksOf(h) /\ After(h, h.wilderness) = h.brk
  BY <1>1 DEF Good, Wild
<1>3. PICK w : w = h.wilderness
  OBVIOUS
<1>4. w \in Nat /\ w < h.brk /\ a < h.brk
  BY <1>2, <1>3, BlocksIn
<1>5. ~(a < w) /\ ~(w < a)
  BY <1>1, <1>2, <1>3, <1>4 DEF Good, Chain
<1> QED BY <1>1, <1>3, <1>4, <1>5

-----------------------------------------------------------------------------
(* srealloc: the ways on                                                    *)

NewAt(h, b, n, c) == Splits(h, b, n) /\ c = b + n + MetaSize

(* Block b of h is in use in g, with room for n cells.                      *)
SplitTo(h, g, b, n) ==
  /\ Good(g) /\ b \in BlocksOf(g) /\ Size(g, b) >= n
  /\ Used(g) = Used(h) \cup {b} /\ Keeps(h, g, Used(h) \ {b})
  /\ \A a \in BlocksOf(g) : a \in BlocksOf(h) \/ NewAt(h, b, n, a)
  /\ AlikeOn(h.mem, g.mem, Cells \ {c \in Cells : c = b \/ NewAt(h, b, n, c)})

LEMMA SplitToIs ==
  ASSUME NEW h, Good(h), NEW b \in BlocksOf(h), NEW n \in Nat, n <= Size(h, b),
         NEW g, g = split(h, b, n), Fine(g)
  PROVE  SplitTo(h, g, b, n)
<1>1. Gives(h, g, b, n)
  BY SplitGives
<1>2. Good(g) /\ b \in BlocksOf(g) /\ Size(g, b) >= n
  BY <1>1 DEF Gives
<1>3. Used(g) = Used(h) \cup {b} /\ Keeps(h, g, Used(h) \ {b})
  BY <1>1, GivesUsed
<1>4. IsHeap(h) /\ Fine(h)
  BY GoodEnds, SplitLater DEF Later
<1>5. CASE Splits(h, b, n)
  <2>1. PICK nb : nb = b + n + MetaSize /\ WasSplit(h, g, b, n, nb)
    BY <1>5, SplitGood
  <2>2. BlocksOf(g) = BlocksOf(h) \cup {nb} /\ AlikeOn(h.mem, g.mem, Cells \ {b, nb})
    BY <2>1 DEF WasSplit
  <2>3. \A a \in BlocksOf(g) : a \in BlocksOf(h) \/ NewAt(h, b, n, a)
    BY <1>5, <2>1, <2>2 DEF NewAt
  <2>4. \A c \in Cells \ {d \in Cells : d = b \/ NewAt(h, b, n, d)} : c \in Cells \ {b, nb}
    BY <1>5, <2>1 DEF NewAt
  <2>5. AlikeOn(h.mem, g.mem, Cells \ {d \in Cells : d = b \/ NewAt(h, b, n, d)})
    BY <2>2, <2>4, AlikeOnLess
  <2> QED BY <1>2, <1>3, <2>3, <2>5 DEF SplitTo
<1>6. CASE ~Splits(h, b, n)
  <2>1. g = Taken(h, b)
    BY <1>4, <1>6, BlocksIn DEF split, Fine
  <2>2. Marked(h, g, b)
    BY <2>1, TakenGood
  <2>3. BlocksOf(g) = BlocksOf(h) /\ AlikeOn(h.mem, g.mem, Cells \ {b})
    BY <2>2 DEF Marked
  <2>4. \A c \in Cells \ {d \in Cells : d = b \/ NewAt(h, b, n, d)} : c \in Cells \ {b}
    OBVIOUS
  <2>5. AlikeOn(h.mem, g.mem, Cells \ {d \in Cells : d = b \/ NewAt(h, b, n, d)})
    BY <2>3, <2>4, AlikeOnLess
  <2> QED BY <1>2, <1>3, <2>3, <2>5 DEF SplitTo
<1> QED BY <1>5, <1>6

(* In g, b is in use in place of the block old of h.                        *)
Instead(h, g, old, b) ==
  /\ Good(g) /\ b \in BlocksOf(g)
  /\ Used(g) = (Used(h) \ {old}) \cup {b} /\ b \notin Used(h) \ {old}
  /\ Keeps(h, g, Used(h) \ {old})

(* The first n cells of old have come to b.                                 *)
Carries(h, old, g, b, n) ==
  \A i \in 1..n : h.mem[old + i].tag # "header" => g.mem[b + i] = h.mem[old + i]

(* srealloc has handed out another block, or the same, for old.             *)
TakenOver(h, got, old, size) ==
  /\ got.p # NULL /\ Hands(h, Used(h) \ {old}, got, size)
  /\ \A n \in Nat : n <= Size(h, old) /\ n <= size => Carries(h, old, got.heap, got.p - MetaSize, n)

LEMMA TakenOverIs ==
  ASSUME NEW h, NEW g, NEW old, NEW b, Instead(h, g, old, b), NEW size, Size(g, b) >= size,
         \A n \in Nat : n <= Size(h, old) /\ n <= size => Carries(h, old, g, b, n),
         NEW got, got.heap = g, got.p = b + MetaSize
  PROVE  TakenOver(h, got, old, size)
<1>1. /\ Good(g) /\ b \in BlocksOf(g)
      /\ Used(g) = (Used(h) \ {old}) \cup {b} /\ b \notin Used(h) \ {old}
      /\ Keeps(h, g, Used(h) \ {old})
  BY DEF Instead
<1>2. b \in Nat
  BY <1>1, BlocksIn
<1>3. got.p # NULL /\ Hands(h, Used(h) \ {old}, got, size)
  BY <1>1, <1>2, HandsBlock
<1>4. got.p - MetaSize = b
  BY <1>2, Constants
<1> QED BY <1>3, <1>4 DEF TakenOver

LEMMA memmoveIs ==
  ASSUME NEW h, IsHeap(h), h.mem \in [Cells -> Cell], NEW to \in Int, NEW from \in Int, NEW n \in Nat,
         \A i \in 0..(n - 1) : from + i \in Cells,
         NEW g, g = memmove(h, to, from, n)
  PROVE  /\ IsHeap(g) /\ SameBounds(h, g) /\ SameCounters(h, g) /\ g.head = h.head
         /\ g.dead = h.dead /\ g.harm = h.harm
         /\ g.mem \in [Cells -> Cell]
         /\ \A c \in Cells : g.mem[c] = IF c >= to /\ c <= to + n - 1 THEN h.mem[from + (c - to)] ELSE h.mem[c]
<1>1. PICK m : m = [c \in Cells |-> IF c \in to..(to + n - 1) THEN h.mem[from + (c - to)] ELSE h.mem[c]]
  OBVIOUS
<1>2. g = [h EXCEPT !.mem = m]
  BY <1>1, Zenon DEF memmove
<1>3. /\ IsHeap(g) /\ g.mem = m /\ SameBounds(h, g) /\ SameCounters(h, g) /\ g.head = h.head
      /\ g.dead = h.dead /\ g.harm = h.harm
  BY <1>2, MemIs
<1>4. ASSUME NEW c \in Cells
      PROVE  /\ m[c] = IF c >= to /\ c <= to + n - 1 THEN h.mem[from + (c - to)] ELSE h.mem[c]
             /\ m[c] \in Cell
  <2>1. c \in Int
    BY Constants DEF Cells
  <2>2. CASE c >= to /\ c <= to + n - 1
    <3>1. c - to \in 0..(n - 1)
      BY <2>1, <2>2
    <3>2. from + (c - to) \in Cells
      BY <3>1
    <3> QED BY <1>1, <2>1, <2>2, <3>2
  <2>3. CASE ~(c >= to /\ c <= to + n - 1)
    BY <1>1, <2>1, <2>3
  <2> QED BY <2>2, <2>3
<1>5. m \in [Cells -> Cell]
  BY <1>1, <1>4
<1> QED BY <1>3, <1>4, <1>5

LEMMA memmoveLater ==
  ASSUME NEW h, IsHeap(h), NEW to, NEW from, NEW n
  PROVE  Later(h, memmove(h, to, from, n))
<1>1. PICK m : m = [c \in Cells |-> IF c \in to..(to + n - 1) THEN h.mem[from + (c - to)] ELSE h.mem[c]]
  OBVIOUS
<1>2. PICK g : g = [h EXCEPT !.mem = m]
  OBVIOUS
<1>3. memmove(h, to, from, n) = g
  BY <1>1, <1>2, Zenon DEF memmove
<1> QED BY <1>2, <1>3, MemIs

LEMMA MovedLater ==
  ASSUME NEW h, IsHeap(h), NEW oldp, NEW block
  PROVE  Later(h, Moved(h, oldp, block))
<1>1. PICK n, to : n = Size(h, oldp - MetaSize) /\ to = block + MetaSize
  OBVIOUS
<1>2. Moved(h, oldp, block) = IF h.dead # "no" THEN h
                              ELSE IF ~Valid(h, oldp - MetaSize) THEN Dead(h, "invalid access")
                              ELSE memmove(h, to, oldp, n)
  BY <1>1, Zenon DEF Moved
<1>3. Later(h, memmove(h, to, oldp, n)) /\ Later(h, Dead(h, "invalid access")) /\ Later(h, h)
  BY memmoveLater, DeadLater, LaterReflexive
<1> QED BY <1>2, <1>3

(* memmove() into a block                                                   *)
Arrived(h, g, old, b, n) == \A i \in 1..n : g.mem[b + i] = h.mem[old + i]

LEMMA MoveWithin ==
  ASSUME NEW h, Good(h), NEW b \in BlocksOf(h) \cup Maps(h), NEW old \in Nat, NEW n \in Nat,
         n <= Size(h, b), \A c \in old..(old + n) : c \in Cells,
         NEW g, g = memmove(h, b + MetaSize, old + MetaSize, n)
  PROVE  /\ Within(h, g, b) /\ g.dead = h.dead /\ g.harm = h.harm
         /\ Arrived(h, g, old, b, n)
<1>1. /\ b \in Nat /\ Size(h, b) \in Nat /\ IsHeap(h) /\ h.mem \in [Cells -> Cell]
      /\ \A d \in Extent(h, b) : d \in Cells
  BY ExtentIn DEF Good, Typed
<1>2. PICK to, from : to = b + 1 /\ from = old + 1
  OBVIOUS
<1>3. to \in Int /\ from \in Int /\ \A i \in 0..(n - 1) : from + i \in Cells
  <2>1. to \in Int /\ from \in Int
    BY <1>1, <1>2
  <2>2. \A i \in 0..(n - 1) : from + i \in old..(old + n)
    BY <1>2
  <2> QED BY <2>1, <2>2
<1>4. g = memmove(h, to, from, n)
  BY <1>2, Constants
<1>5. /\ IsHeap(g) /\ SameBounds(h, g) /\ SameCounters(h, g) /\ g.head = h.head
      /\ g.dead = h.dead /\ g.harm = h.harm
      /\ g.mem \in [Cells -> Cell]
      /\ \A c \in Cells : g.mem[c] = IF c >= to /\ c <= to + n - 1 THEN h.mem[from + (c - to)] ELSE h.mem[c]
  BY <1>1, <1>3, <1>4, memmoveIs
<1>6. ASSUME NEW c \in Cells, c \notin Payload(h, b) PROVE g.mem[c] = h.mem[c]
  <2>1. ~(c >= to /\ c <= to + n - 1)
    BY <1>1, <1>2, <1>6, Constants DEF Payload, Cells
  <2> QED BY <1>5, <1>6, <2>1
<1>7. ASSUME NEW i \in 1..n PROVE g.mem[b + i] = h.mem[old + i]
  <2>1. b + i \in Cells
    BY <1>1, <1>7 DEF Extent
  <2>2. b + i >= to /\ b + i <= to + n - 1 /\ from + ((b + i) - to) = old + i
    BY <1>1, <1>2, <1>7
  <2> QED BY <1>5, <2>1, <2>2
<1>8. Arrived(h, g, old, b, n)
  BY <1>7 DEF Arrived
<1> QED BY <1>5, <1>6, <1>8 DEF Within

(* t is on the way from h to the end: b has taken the place of old, whose   *)
(* header and contents are still where they were.                           *)
Leaves(h, t, old, b) ==
  /\ Instead(h, t, old, b)
  /\ Valid(t, old) /\ Size(t, old) = Size(h, old) /\ Rests(h, t, old, Size(h, old))

LEMMA MovedInstead ==
  ASSUME NEW h, Good(h), NEW old \in BlocksOf(h), NEW t, NEW b, Leaves(h, t, old, b),
         Size(h, old) <= Size(t, b), NEW oldp, oldp = old + MetaSize,
         NEW g, g = Moved(t, oldp, b), Fine(g)
  PROVE  /\ Instead(h, g, old, b) /\ Carries(h, old, g, b, Size(h, old))
         /\ Size(g, b) = Size(t, b) /\ g.wilderness = t.wilderness /\ g.brk = t.brk
<1>1. PICK n : n = Size(h, old)
  OBVIOUS
<1>2. old \in Nat /\ n \in Nat /\ \A c \in old..(old + n) : c \in Cells
  BY <1>1, ExtentIn DEF Extent
<1>3. /\ Good(t) /\ b \in BlocksOf(t) /\ Used(t) = (Used(h) \ {old}) \cup {b} /\ b \notin Used(h) \ {old}
      /\ Keeps(h, t, Used(h) \ {old})
      /\ Valid(t, old) /\ Size(t, old) = n /\ Rests(h, t, old, n) /\ n <= Size(t, b)
  BY <1>1 DEF Leaves, Instead
<1>4. IsHeap(t) /\ t.dead = "no"
  BY <1>3, GoodEnds, MovedLater DEF Later, Fine
<1>5. oldp - MetaSize = old
  BY <1>2, Constants
<1>6. g = memmove(t, b + MetaSize, old + MetaSize, n)
  BY <1>3, <1>4, <1>5 DEF Moved
<1>7. b \in BlocksOf(t) \cup Maps(t) /\ Good(t) /\ n <= Size(t, b)
  BY <1>3
<1>8. /\ Within(t, g, b)
      /\ Arrived(t, g, old, b, n)
      /\ Good(g) /\ BlocksOf(g) = BlocksOf(t) /\ Used(g) = Used(t)
      /\ Size(g, b) = Size(t, b) /\ Keeps(t, g, Used(t) \ {b})
  <2>1. Within(t, g, b)
    BY <1>2, <1>6, <1>7, MoveWithin
  <2>2. Arrived(t, g, old, b, n)
    BY <1>2, <1>6, <1>7, MoveWithin
  <2>3. Good(g) /\ BlocksOf(g) = BlocksOf(t) /\ Used(g) = Used(t)
    BY <1>7, <2>1, WithinGood
  <2>4. \A a \in BlocksOf(t) \cup Maps(t) : Size(g, a) = Size(t, a)
    BY <1>7, <2>1, WithinGood, ZenonT(30)
  <2>5. Keeps(t, g, Used(t) \ {b})
    BY <1>7, <2>1, WithinGood
  <2> QED BY <1>7, <2>1, <2>2, <2>3, <2>4, <2>5
<1>9. Keeps(h, g, Used(h) \ {old})
  <2>1. Used(t) \ {b} = Used(h) \ {old}
    BY <1>3
  <2> QED BY <1>3, <1>8, <2>1, KeepsTransitive
<1>10. Carries(h, old, g, b, n)
  <2>1. SUFFICES ASSUME NEW i \in 1..n, h.mem[old + i].tag # "header" PROVE g.mem[b + i] = h.mem[old + i]
    BY DEF Carries
  <2>2. old + i \in (old + 1)..(old + n)
    BY <1>2, <2>1
  <2>3. t.mem[old + i] = h.mem[old + i]
    BY <1>3, <2>1, <2>2 DEF Rests
  <2>4. g.mem[b + i] = t.mem[old + i]
    BY <1>8, <2>1 DEF Arrived
  <2> QED BY <2>1, <2>3, <2>4
<1>11. g.wilderness = t.wilderness /\ g.brk = t.brk
  BY <1>8 DEF Within, SameBounds
<1> QED BY <1>1, <1>3, <1>8, <1>9, <1>10, <1>11 DEF Instead

(* What srealloc makes of the heap when it does hand something out          *)
Became(h, g, old, b, size) ==
  /\ Instead(h, g, old, b) /\ Size(g, b) >= size
  /\ \A n \in Nat : n <= Size(h, old) /\ n <= size => Carries(h, old, g, b, n)

LEMMA BecameTaken ==
  ASSUME NEW h, NEW g, NEW old, NEW b, NEW size, Became(h, g, old, b, size), Fine(g),
         NEW p, p = b + MetaSize, NEW got, got = Result(g, p)
  PROVE  TakenOver(h, got, old, size)
<1>1. got.heap = g /\ got.p = p
  BY ResultIs
<1>2. Instead(h, g, old, b) /\ Size(g, b) >= size
  BY DEF Became
<1>3. \A n \in Nat : n <= Size(h, old) /\ n <= size => Carries(h, old, g, b, n)
  BY DEF Became
<1> QED BY <1>1, <1>2, <1>3, TakenOverIs

LEMMA CarriesLess ==
  ASSUME NEW h, NEW old, NEW g, NEW b, NEW m \in Nat, Carries(h, old, g, b, m), NEW n \in Nat, n <= m
  PROVE  Carries(h, old, g, b, n)
<1>1. \A i \in 1..n : i \in 1..m
  OBVIOUS
<1> QED BY <1>1 DEF Carries

(* n of the cells that count                                                *)
LEMMA BecameIs ==
  ASSUME NEW h, NEW g, NEW old, NEW b, NEW size \in Nat, Size(h, old) \in Nat,
         Instead(h, g, old, b), Size(g, b) >= size,
         NEW m \in Nat, m >= size \/ m >= Size(h, old), Carries(h, old, g, b, m)
  PROVE  Became(h, g, old, b, size)
<1>1. ASSUME NEW n \in Nat, n <= Size(h, old), n <= size PROVE Carries(h, old, g, b, n)
  <2>1. n <= m
    BY <1>1
  <2> QED BY <2>1, CarriesLess
<1> QED BY <1>1 DEF Became

(* What is still where it was has been carried to where it is.              *)
LEMMA RestsCarry ==
  ASSUME NEW h, NEW g, NEW a \in Nat, NEW n \in Nat, Rests(h, g, a, n)
  PROVE  Carries(h, a, g, a, n)
<1>1. ASSUME NEW i \in 1..n PROVE a + i \in (a + 1)..(a + n)
  OBVIOUS
<1> QED BY <1>1 DEF Rests, Carries

LEMMA RestsSame ==
  ASSUME NEW h, NEW a, NEW n
  PROVE  Rests(h, h, a, n)
BY DEF Rests

(* A block in place of old that has not moved but is cut                    *)
LEMMA CutInstead ==
  ASSUME NEW h, Good(h), NEW old \in BlocksOf(h), NEW s, Good(s), old \in BlocksOf(s),
         Used(s) \cup {old} = (Used(h) \ {old}) \cup {old}, Keeps(h, s, Used(h) \ {old}),
         Rests(h, s, old, Size(h, old)),
         NEW size \in Nat, size <= Size(s, old),
         NEW g, g = split(s, old, size), Fine(g)
  PROVE  Became(h, g, old, old, size)
<1>1. old \in Nat /\ Size(h, old) \in Nat
  BY ExtentIn
<1>2. Gives(s, g, old, size)
  BY SplitGives
<1>3. Good(g) /\ old \in BlocksOf(g) /\ Size(g, old) >= size
  BY <1>2 DEF Gives
<1>4. Used(g) = Used(s) \cup {old} /\ Keeps(s, g, Used(s) \ {old})
  BY <1>2, GivesUsed
<1>5. \A c \in (old + 1)..(old + size) : s.mem[c].tag # "header" => g.mem[c] = s.mem[c]
  BY <1>2, GivesUsed
<1>6. Instead(h, g, old, old)
  <2>1. \A b \in Used(h) \ {old} : b \in Used(s) \ {old}
    OBVIOUS
  <2>2. Keeps(s, g, Used(h) \ {old})
    BY <1>4, <2>1, KeepsLess
  <2>3. Keeps(h, g, Used(h) \ {old})
    BY <2>2, KeepsTransitive
  <2> QED BY <1>3, <1>4, <2>3 DEF Instead
<1>7. PICK m \in Nat : m <= size /\ m <= Size(h, old) /\ (m >= size \/ m >= Size(h, old))
  BY <1>1
<1>8. Carries(h, old, g, old, m)
  <2>1. ASSUME NEW i \in 1..m, h.mem[old + i].tag # "header" PROVE g.mem[old + i] = h.mem[old + i]
    <3>1. old + i \in (old + 1)..(old + size) /\ old + i \in (old + 1)..(old + Size(h, old))
      BY <1>1, <1>7
    <3>2. s.mem[old + i] = h.mem[old + i]
      BY <2>1, <3>1 DEF Rests
    <3> QED BY <1>5, <2>1, <3>1, <3>2
  <2> QED BY <2>1 DEF Carries
<1> QED BY <1>1, <1>3, <1>6, <1>7, <1>8, BecameIs

LEMMA GrownRests ==
  ASSUME NEW h, Good(h), h.firsthead # NULL, NEW needed \in Int,
         Size(h, h.wilderness) + needed >= 0, h.brk + needed <= HeapMax + 1,
         NEW g, Grown(h, g, needed), NEW w, w = h.wilderness,
         NEW n \in Nat, n <= Size(h, w), n <= Size(h, w) + needed
  PROVE  Rests(h, g, w, n)
<1>1. PICK R : R = Moves(h, needed) \cup {w}
  OBVIOUS
<1>2. AlikeOn(h.mem, g.mem, Cells \ R)
  BY <1>1 DEF Grown
<1>3. /\ w \in BlocksOf(h)
      /\ \A c \in Moves(h, needed) : /\ c \in Nat /\ c > w /\ c <= HeapMax
                                     /\ c > w + Size(h, w) \/ c > w + Size(h, w) + needed
  BY MovesIn
<1>4. ASSUME NEW c \in (w + 1)..(w + n), h.mem[c].tag # "header"
      PROVE  g.mem[c] = h.mem[c]
  <2>1. w \in Nat /\ Size(h, w) \in Nat /\ \A d \in Extent(h, w) : d \in Cells
    BY <1>3, ExtentIn
  <2>2. c \in Cells /\ c # w /\ c <= w + Size(h, w) /\ c <= w + Size(h, w) + needed
    BY <1>4, <2>1 DEF Extent
  <2>3. c \notin Moves(h, needed)
    <3>1. SUFFICES ASSUME c \in Moves(h, needed) PROVE FALSE
      OBVIOUS
    <3>2. c \in Nat /\ (c > w + Size(h, w) \/ c > w + Size(h, w) + needed)
      BY <1>3, <3>1
    <3> QED BY <2>1, <2>2, <3>2
  <2> QED BY <1>1, <1>2, <1>4, <2>2, <2>3 DEF AlikeOn
<1> QED BY <1>4 DEF Rests

(* The last block grows in place of old.                                    *)
LEMMA Grows ==
  ASSUME NEW h, Good(h), NEW old \in BlocksOf(h), NEW t, NEW b, Instead(h, t, old, b),
         t.wilderness = b, NEW size \in Nat, Size(h, old) <= Size(t, b), Size(h, old) <= size,
         Carries(h, old, t, b, Size(h, old)),
         NEW needed \in Int, needed = size - Size(t, b), t.brk + needed <= HeapMax + 1,
         NEW g, g = Enlarged(t, needed), Fine(g)
  PROVE  Became(h, g, old, b, size)
<1>1. PICK n : n = Size(h, old)
  OBVIOUS
<1>2. old \in Nat /\ n \in Nat
  BY <1>1, ExtentIn
<1>3. /\ Good(t) /\ b \in BlocksOf(t)
      /\ Used(t) = (Used(h) \ {old}) \cup {b} /\ b \notin Used(h) \ {old}
      /\ Keeps(h, t, Used(h) \ {old})
  BY DEF Instead
<1>4. b \in Nat /\ Size(t, b) \in Nat /\ t.firsthead # NULL
  BY <1>3, BlocksIn
<1>5. Size(t, t.wilderness) + needed >= 0 /\ Size(t, t.wilderness) + needed = size
  BY <1>4
<1>6. Grown(t, g, needed)
  BY <1>3, <1>4, <1>5, EnlargedGood
<1>a. ~IsFree(t, t.wilderness)
  BY <1>3 DEF Used
<1>7. Good(g) /\ Used(g) = Used(t) /\ Keeps(t, g, Used(t) \ {t.wilderness})
  BY <1>3, <1>4, <1>5, <1>6, <1>a, GrownUsed
<1>8. Size(g, t.wilderness) = Size(t, t.wilderness) + needed
  BY <1>3, <1>4, <1>5, <1>6, <1>a, GrownUsed
<1>9. Rests(t, g, b, n)
  <2>1. n <= Size(t, b) /\ n <= Size(t, b) + needed
    BY <1>1, <1>5
  <2> QED BY <1>2, <1>3, <1>4, <1>5, <1>6, <2>1, GrownRests
<1>10. BlocksOf(g) = BlocksOf(t)
  BY <1>6, Zenon DEF Grown
<1>11. Instead(h, g, old, b)
  <2>1. Used(t) \ {b} = Used(h) \ {old}
    BY <1>3
  <2>2. Keeps(h, g, Used(h) \ {old})
    BY <1>3, <1>7, <2>1, KeepsTransitive
  <2> QED BY <1>3, <1>7, <1>10, <2>2 DEF Instead
<1>12. Carries(h, old, g, b, n)
  <2>1. SUFFICES ASSUME NEW i \in 1..n, h.mem[old + i].tag # "header" PROVE g.mem[b + i] = h.mem[old + i]
    BY DEF Carries
  <2>2. t.mem[b + i] = h.mem[old + i]
    BY <1>1, <2>1 DEF Carries
  <2>3. b + i \in (b + 1)..(b + n)
    BY <1>2, <1>4, <2>1
  <2> QED BY <1>9, <2>1, <2>2, <2>3 DEF Rests
<1>13. Size(g, b) >= size
  BY <1>5, <1>8
<1> QED BY <1>1, <1>2, <1>11, <1>12, <1>13, BecameIs

LEMMA ReplacedLater ==
  ASSUME NEW h, IsHeap(h), NEW oldp, NEW size, NEW granted, NEW n
  PROVE  Later(h, Replaced(smalloc(h, size, granted), oldp, n).heap)
<1>1. PICK got : got = smalloc(h, size, granted)
  OBVIOUS
<1>2. Later(h, got.heap)
  BY <1>1, SmallocLater
<1>3. PICK m, g : m = memmove(got.heap, got.p, oldp, n) /\ g = sfree(m, oldp)
  OBVIOUS
<1>4. Later(got.heap, m)
  BY <1>2, <1>3, memmoveLater DEF Later
<1>5. Later(m, g)
  BY <1>3, <1>4, SfreeLater DEF Later
<1>6. Later(h, g)
  BY <1>2, <1>4, <1>5, LaterTransitive
<1>7. Replaced(got, oldp, n) = IF got.p = NULL THEN got ELSE Result(g, got.p)
  BY <1>3 DEF Replaced
<1> QED BY <1>1, <1>2, <1>6, <1>7, ResultIs

(* What smalloc hands out takes the place of old.                           *)
LEMMA ReplacedGood ==
  ASSUME NEW h, Good(h), NEW old, old \in Used(h), NEW oldp, oldp = old + MetaSize,
         NEW size \in Nat, NEW granted \in BOOLEAN,
         NEW n \in Nat, n <= Size(h, old), n <= size, n >= size \/ n >= Size(h, old),
         NEW got, got = Replaced(smalloc(h, size, granted), oldp, n), Fine(got.heap)
  PROVE  IF got.p = NULL THEN got.heap = h ELSE TakenOver(h, got, old, size)
<1>1. PICK got0 : got0 = smalloc(h, size, granted)
  OBVIOUS
<1>2. IsHeap(h) /\ Later(h, got0.heap) /\ old \in BlocksOf(h) \cup Maps(h)
  BY <1>1, GoodEnds, SmallocLater DEF Used
<1>3. CASE got0.p = NULL
  <2>1. got = got0
    BY <1>1, <1>3 DEF Replaced
  <2> QED BY <1>1, <1>3, <2>1, SmallocGood
<1>4. CASE got0.p # NULL
  <2>1. PICK s, b : s = got0.heap /\ b = got0.p - MetaSize
    OBVIOUS
  <2>2. PICK m, g : m = memmove(s, got0.p, oldp, n) /\ g = sfree(m, oldp)
    OBVIOUS
  <2>3. got = Result(g, got0.p)
    BY <1>1, <1>4, <2>1, <2>2 DEF Replaced
  <2>4. got.heap = g /\ Fine(g)
    BY <2>3, ResultIs
  <2>5. IsHeap(s) /\ Later(s, m)
    BY <1>2, <2>1, <2>2, memmoveLater DEF Later
  <2>6. Later(m, g)
    BY <2>2, <2>5, SfreeLater DEF Later
  <2>7. Fine(m) /\ Fine(s)
    BY <2>4, <2>5, <2>6 DEF Later
  <2>8. got.p = got0.p
    BY <2>3, <2>4, ResultIs
  <2>9. Hands(h, Used(h), got0, size)
    BY <1>1, <1>4, <2>1, <2>7, SmallocGood
  <2>10. /\ Good(s) /\ got0.p \in Nat /\ Used(s) = Used(h) \cup {b} /\ b \notin Used(h)
         /\ Size(s, b) >= size /\ Keeps(h, s, Used(h))
    BY <2>1, <2>9 DEF Hands
  <2>11. b \in Used(s) /\ b \in BlocksOf(s) \cup Maps(s) /\ old \in Used(s) /\ old # b
    BY <2>10 DEF Used
  <2>12. old \in BlocksOf(s) \cup Maps(s)
    BY <2>11 DEF Used
  <2>13. Size(s, old) = Size(h, old)
    BY <2>10 DEF Keeps
  <2>14. /\ b \in Nat /\ Size(s, b) \in Nat /\ old \in Nat /\ Size(h, old) \in Nat
         /\ \A c \in Extent(s, old) : c \in Cells
    BY <2>10, <2>11, <2>12, <2>13, ExtentIn
  <2>15. \A c \in old..(old + n) : c \in Cells
    <3>1. \A c \in old..(old + n) : c \in Extent(s, old)
      BY <2>13, <2>14 DEF Extent
    <3> QED BY <2>14, <3>1
  <2>16. n <= Size(s, b)
    BY <2>10, <2>14
  <2>17. got0.p = b + MetaSize
    BY <2>1, <2>10, Constants
  <2>18. m = memmove(s, b + MetaSize, old + MetaSize, n)
    BY <2>2, <2>17
  <2>19. Within(s, m, b)
    BY <2>10, <2>11, <2>14, <2>15, <2>16, <2>18, MoveWithin
  <2>20. Arrived(s, m, old, b, n)
    BY <2>10, <2>11, <2>14, <2>15, <2>16, <2>18, MoveWithin
  <2>21. Good(m) /\ Used(m) = Used(s) /\ Keeps(s, m, Used(s) \ {b})
    BY <2>10, <2>11, <2>19, WithinGood
  <2>22. \A a \in BlocksOf(s) \cup Maps(s) : Size(m, a) = Size(s, a)
    BY <2>10, <2>11, <2>19, WithinGood
  <2>23. oldp - MetaSize = old /\ oldp # NULL
    BY <2>14, Constants
  <2>24. Frees(m, g, old)
    BY <2>2, <2>4, <2>11, <2>21, <2>23, SfreeGood
  <2>25. Good(g) /\ Used(g) = Used(m) \ {old} /\ Keeps(m, g, Used(m) \ {old})
    BY <2>24 DEF Frees
  <2>26. Used(g) = (Used(h) \ {old}) \cup {b} /\ b \notin Used(h) \ {old}
    BY <2>10, <2>11, <2>21, <2>25
  <2>27. Keeps(h, g, Used(h) \ {old})
    <3>1. /\ \A a \in Used(h) \ {old} : a \in Used(h)
          /\ \A a \in Used(h) \ {old} : a \in Used(s) \ {b}
          /\ \A a \in Used(h) \ {old} : a \in Used(m) \ {old}
      BY <2>10, <2>11, <2>21
    <3>2. Keeps(h, s, Used(h) \ {old}) /\ Keeps(s, m, Used(h) \ {old}) /\ Keeps(m, g, Used(h) \ {old})
      BY <2>10, <2>21, <2>25, <3>1, KeepsLess
    <3> QED BY <3>2, KeepsTransitive
  <2>28. b \in Used(m) \ {old} /\ Size(m, b) = Size(s, b)
    BY <2>11, <2>21, <2>22
  <2>29. Size(g, b) = Size(s, b)
    BY <2>25, <2>28 DEF Keeps
  <2>30. Carries(h, old, g, b, n)
    <3>1. SUFFICES ASSUME NEW i \in 1..n, h.mem[old + i].tag # "header" PROVE g.mem[b + i] = h.mem[old + i]
      BY DEF Carries
    <3>2. old + i \in (old + 1)..(old + Size(h, old)) /\ b + i \in (b + 1)..(b + Size(m, b))
      BY <2>14, <2>16, <2>28, <3>1
    <3>3. s.mem[old + i] = h.mem[old + i]
      BY <2>10, <3>1, <3>2 DEF Keeps
    <3>4. m.mem[b + i] = s.mem[old + i]
      BY <2>20, <3>1 DEF Arrived
    <3>5. g.mem[b + i] = m.mem[b + i]
      BY <2>25, <2>28, <3>1, <3>2, <3>3, <3>4 DEF Keeps
    <3> QED BY <3>3, <3>4, <3>5
  <2>31. Hands(h, Used(h) \ {old}, got, size)
    BY <2>1, <2>4, <2>8, <2>10, <2>25, <2>26, <2>27, <2>29 DEF Hands
  <2>32. \A k \in Nat : k <= Size(h, old) /\ k <= size => Carries(h, old, got.heap, got.p - MetaSize, k)
    <3>1. SUFFICES ASSUME NEW k \in Nat, k <= Size(h, old), k <= size PROVE Carries(h, old, g, b, k)
      BY <2>1, <2>4, <2>8
    <3>2. k <= n
      BY <3>1, <2>14
    <3> QED BY <2>30, <3>2, CarriesLess
  <2> QED BY <1>4, <2>8, <2>31, <2>32 DEF TakenOver
<1> QED BY <1>3, <1>4

-----------------------------------------------------------------------------
(* srealloc: what its names stand for                                       *)

LEMMA PredecessorIs ==
  ASSUME NEW h, Good(h), NEW old \in BlocksOf(h), NEW prev, prev = Predecessor(h, old), prev # NULL
  PROVE  prev \in BlocksOf(h) /\ After(h, prev) = old /\ prev \in Nat /\ prev < old
<1>1. PICK before : before = {a \in BlocksOf(h) : Valid(h, a) /\ After(h, a) = old}
  OBVIOUS
<1>2. before # {} /\ prev = Min(before)
  BY <1>1 DEF Predecessor
<1>3. before \subseteq Nat
  BY <1>1, BlocksIn
<1>4. prev \in before
  BY <1>2, <1>3, Least
<1>5. prev \in BlocksOf(h) /\ After(h, prev) = old
  BY <1>1, <1>4
<1> QED BY <1>5, BlocksIn

(* GrowWild gets through only when sbrk() does.                             *)
LEMMA GrowWildIs ==
  ASSUME NEW h, IsHeap(h), NEW moved, NEW block, NEW size, NEW granted,
         NEW got, got = GrowWild(h, moved, block, size, granted), Fine(got.heap)
  PROVE  \E needed, g : /\ needed = size - Size(h, h.wilderness) /\ sbrkOK(h, needed, granted)
                        /\ g = Enlarged(moved, needed) /\ Fine(g)
                        /\ got = Result(g, block + MetaSize)
<1>1. PICK needed, g, yes : /\ needed = size - Size(h, h.wilderness) /\ g = Enlarged(moved, needed)
                            /\ yes \in BOOLEAN /\ yes
  OBVIOUS
<1>2. got = IF h.dead # "no" THEN Result(h, NULL)
            ELSE IF sbrkOK(h, needed, granted) THEN Result(g, block + MetaSize)
            ELSE Result(Harmed(h, "undone", yes), NULL)
  BY <1>1, Zenon DEF GrowWild
<1>3. h.dead = "no"
  BY <1>2, ResultIs DEF Fine
<1>4. sbrkOK(h, needed, granted)
  <2>1. ~Fine(Harmed(h, "undone", yes))
    BY <1>1, HarmedLater
  <2> QED BY <1>2, <1>3, <2>1, ResultIs
<1>5. got = Result(g, block + MetaSize)
  BY <1>2, <1>3, <1>4
<1>6. Fine(g)
  BY <1>5, ResultIs
<1> QED BY <1>1, <1>4, <1>5, <1>6

LEMMA sbrkFits ==
  ASSUME NEW h, h.brk \in Nat, h.brk <= HeapMax + 1, NEW n \in Int, NEW granted, sbrkOK(h, n, granted)
  PROVE  h.brk + n <= HeapMax + 1
BY Constants DEF sbrkOK

-----------------------------------------------------------------------------
(* srealloc: the block in front                                             *)

(* The header and the contents of old are still where they were.            *)
StillThere(h, g, old) ==
  Valid(g, old) /\ Size(g, old) = Size(h, old) /\ Rests(h, g, old, Size(h, old))

LEMMA StaysThere ==
  ASSUME NEW h, Good(h), NEW old \in BlocksOf(h), NEW g, StillThere(h, g, old),
         NEW k, NEW R, AlikeOn(g.mem, k.mem, Cells \ R), \A c \in Extent(h, old) : c \notin R
  PROVE  StillThere(h, k, old)
<1>1. PICK n : n = Size(h, old)
  OBVIOUS
<1>2. old \in Nat /\ n \in Nat /\ \A c \in Extent(h, old) : c \in Cells
  BY <1>1, ExtentIn
<1>3. \A c \in old..(old + n) : c \in Extent(h, old)
  BY <1>1 DEF Extent
<1>4. old \in Extent(h, old) /\ \A c \in (old + 1)..(old + n) : c \in old..(old + n)
  BY <1>1, <1>2 DEF Extent
<1>5. Rests(g, k, old, n)
  <2>1. \A c \in old..(old + n) : c \in Cells
    BY <1>2, <1>3
  <2>2. \A c \in (old + 1)..(old + n) : c \notin R
    BY <1>3, <1>4
  <2> QED BY <1>2, <2>1, <2>2, RestsAlike
<1>6. Rests(h, k, old, n)
  BY <1>1, <1>5, RestsTransitive DEF StillThere
<1>7. Valid(k, old) /\ Size(k, old) = Size(g, old)
  <2>1. old \in Cells \ R
    BY <1>2, <1>4
  <2>2. Valid(g, old)
    BY DEF StillThere
  <2> QED BY <2>1, <2>2, ValidAlikeOn
<1> QED BY <1>1, <1>6, <1>7 DEF StillThere

(* In s, prev has swallowed old, which was in use.                          *)
Swallowed(h, s, old, prev) ==
  /\ Good(s) /\ prev \in BlocksOf(s) /\ prev < old /\ After(s, prev) >= After(h, old)
  /\ Used(s) = Used(h) \ {old} /\ Keeps(h, s, Used(h) \ {old}) /\ prev \notin Used(h)
  /\ StillThere(h, s, old)

LEMMA SwallowedIs ==
  ASSUME NEW h, Good(h), NEW old \in BlocksOf(h), NEW block, NEW f, NEW s,
         FreedMerged(h, f, s, old, block),
         NEW prev \in BlocksOf(s), prev \in BlocksOf(h), After(h, prev) = old,
         IsFree(h, prev), prev # block, old # block
  PROVE  Swallowed(h, s, old, prev)
<1>1. After(s, prev) >= After(h, old) /\ old \notin BlocksOf(s)
  BY LowerReaches
<1>2. /\ Good(s) /\ Used(s) = Used(h) \ {old} /\ Keeps(h, s, Used(h) \ {old})
      /\ Rests(h, s, old, Size(h, old))
  BY DEF FreedMerged
<1>3. Valid(s, old) /\ Size(s, old) = Size(h, old)
  BY <1>1 DEF FreedMerged
<1>4. prev < old
  BY BlocksIn
<1>5. prev \notin Used(h)
  BY DEF Used
<1> QED BY <1>1, <1>2, <1>3, <1>4, <1>5 DEF Swallowed, StillThere

(* prev is in use, and no block begins where old was.                       *)
Clear(h, k, old, prev) ==
  Leaves(h, k, old, prev) /\ \A a \in BlocksOf(k) : a \notin Extent(h, old)

LEMMA SwallowedSplit ==
  ASSUME NEW h, Good(h), NEW old \in BlocksOf(h), NEW s, NEW prev, Swallowed(h, s, old, prev),
         NEW n, NEW k, SplitTo(s, k, prev, n),
         \A c \in Extent(h, old) : ~NewAt(s, prev, n, c)
  PROVE  Clear(h, k, old, prev)
<1>1. /\ Good(s) /\ prev \in BlocksOf(s) /\ prev < old /\ After(s, prev) >= After(h, old)
      /\ Used(s) = Used(h) \ {old} /\ Keeps(h, s, Used(h) \ {old}) /\ prev \notin Used(h)
      /\ StillThere(h, s, old)
  BY DEF Swallowed
<1>2. /\ Good(k) /\ prev \in BlocksOf(k)
      /\ Used(k) = Used(s) \cup {prev} /\ Keeps(s, k, Used(s) \ {prev})
      /\ \A a \in BlocksOf(k) : a \in BlocksOf(s) \/ NewAt(s, prev, n, a)
      /\ AlikeOn(s.mem, k.mem, Cells \ {c \in Cells : c = prev \/ NewAt(s, prev, n, c)})
  BY DEF SplitTo
<1>3. Instead(h, k, old, prev)
  <2>1. Used(k) = (Used(h) \ {old}) \cup {prev} /\ prev \notin Used(h) \ {old}
    BY <1>1, <1>2
  <2>2. Used(s) \ {prev} = Used(h) \ {old}
    BY <1>1
  <2>3. Keeps(h, k, Used(h) \ {old})
    BY <1>1, <1>2, <2>2, KeepsTransitive
  <2> QED BY <1>2, <2>1, <2>3 DEF Instead
<1>4. /\ old \in Nat /\ Size(h, old) \in Nat /\ After(h, old) = old + Size(h, old) + 1
      /\ prev \in Nat /\ Size(s, prev) \in Nat /\ After(s, prev) = prev + Size(s, prev) + 1
  BY <1>1, BlocksIn
<1>5. ASSUME NEW c \in Extent(h, old) PROVE c \in Extent(s, prev) /\ c # prev /\ c \in Nat
  BY <1>1, <1>4, <1>5 DEF Extent
<1>6. StillThere(h, k, old)
  <2>1. \A c \in Extent(h, old) : c \notin {d \in Cells : d = prev \/ NewAt(s, prev, n, d)}
    BY <1>5
  <2> QED BY <1>1, <1>2, <2>1, StaysThere
<1>7. ASSUME NEW a \in BlocksOf(k) PROVE a \notin Extent(h, old)
  <2>1. SUFFICES ASSUME a \in Extent(h, old) PROVE FALSE
    OBVIOUS
  <2>2. a \in BlocksOf(s) /\ a # prev /\ a \in Extent(s, prev)
    BY <1>2, <1>5, <1>7, <2>1
  <2>3. a \in Extent(s, a)
    BY <1>1, <2>2, BlocksIn DEF Extent
  <2> QED BY <1>1, <2>2, <2>3, Apart
<1> QED BY <1>3, <1>6, <1>7 DEF Clear, Leaves, StillThere

LEMMA TakenTo ==
  ASSUME NEW s, Good(s), NEW b \in BlocksOf(s), NEW k, k = Taken(s, b), Fine(k),
         NEW n, n = Size(s, b)
  PROVE  /\ SplitTo(s, k, b, n) /\ \A c : ~NewAt(s, b, n, c)
         /\ k.wilderness = s.wilderness /\ k.brk = s.brk /\ Size(k, b) = n
<1>1. Marked(s, k, b) /\ ~IsFree(k, b) /\ Even(s, k)
  BY TakenGood
<1>2. /\ Good(k) /\ BlocksOf(k) = BlocksOf(s) /\ AlikeOn(s.mem, k.mem, Cells \ {b})
      /\ Size(k, b) = n /\ SameBounds(s, k)
  BY <1>1 DEF Marked
<1>3. Used(k) = Used(s) \cup {b} /\ Keeps(s, k, Used(s) \ {b})
  BY <1>1, MarkedUsed
<1>4. n \in Nat
  BY BlocksIn
<1>5. AlikeOn(s.mem, k.mem, Cells \ {c \in Cells : c = b \/ NewAt(s, b, n, c)})
  <2>1. \A c \in Cells \ {d \in Cells : d = b \/ NewAt(s, b, n, d)} : c \in Cells \ {b}
    OBVIOUS
  <2> QED BY <1>2, <2>1, AlikeOnLess
<1>6. SplitTo(s, k, b, n)
  <2>1. Size(k, b) >= n
    BY <1>2, <1>4
  <2> QED BY <1>2, <1>3, <1>5, <2>1 DEF SplitTo
<1>7. \A c : ~NewAt(s, b, n, c)
  BY <1>4, Constants DEF NewAt, Splits
<1> QED BY <1>2, <1>6, <1>7 DEF SameBounds

(* merge() afterwards                                                       *)
LEMMA ClearMerged ==
  ASSUME NEW h, Good(h), NEW old \in BlocksOf(h), NEW k, NEW prev, Clear(h, k, old, prev),
         NEW m, m = merge(k), Fine(m)
  PROVE  Leaves(h, m, old, prev) /\ Size(m, prev) >= Size(k, prev)
<1>1. Leaves(h, k, old, prev) /\ \A a \in BlocksOf(k) : a \notin Extent(h, old)
  BY DEF Clear
<1>2. /\ Good(k) /\ prev \in BlocksOf(k) /\ Used(k) = (Used(h) \ {old}) \cup {prev}
      /\ prev \notin Used(h) \ {old} /\ Keeps(h, k, Used(h) \ {old}) /\ StillThere(h, k, old)
  BY <1>1 DEF Leaves, Instead, StillThere
<1>3. Merged(k, m, k.brk)
  BY <1>2, MergeGood
<1>4. /\ Good(m) /\ \A a \in BlocksOf(m) : a \in BlocksOf(k)
      /\ \A a \in BlocksOf(k) : a \notin BlocksOf(m) => IsFree(k, a)
      /\ AlikeOn(k.mem, m.mem, Cells \ {a \in BlocksOf(m) : IsFree(k, a) /\ a <= k.brk})
  BY <1>3 DEF Merged
<1>5. Used(m) = Used(k) /\ Keeps(k, m, Used(k))
  BY <1>2, <1>3, MergedUsed
<1>6. ~IsFree(k, prev) /\ prev \in BlocksOf(m)
  BY <1>2, <1>4 DEF Used
<1>7. Instead(h, m, old, prev)
  <2>1. \A b \in Used(h) \ {old} : b \in Used(k)
    BY <1>2
  <2>2. Keeps(k, m, Used(h) \ {old})
    BY <1>5, <2>1, KeepsLess
  <2>3. Keeps(h, m, Used(h) \ {old})
    BY <1>2, <2>2, KeepsTransitive
  <2> QED BY <1>2, <1>4, <1>5, <1>6, <2>3 DEF Instead
<1>8. StillThere(h, m, old)
  <2>1. \A c \in Extent(h, old) : c \notin {a \in BlocksOf(m) : IsFree(k, a) /\ a <= k.brk}
    BY <1>1, <1>4
  <2> QED BY <1>2, <1>4, <2>1, StaysThere
<1>9. Size(m, prev) = Size(k, prev) /\ Size(k, prev) \in Nat
  <2>1. prev \in Used(k)
    BY <1>2
  <2> QED BY <1>2, <1>5, <2>1, BlocksIn DEF Keeps
<1> QED BY <1>7, <1>8, <1>9 DEF Leaves, StillThere

(* h has been merged after old was freed, and the code goes on with prev.   *)
LEMMA LowerSwallowed ==
  ASSUME NEW h, Good(h), NEW old \in BlocksOf(h), ~IsFree(h, old), NEW block, block = NULL \/ block \in BlocksOf(h),
         NEW prev \in BlocksOf(h), After(h, prev) = old, IsFree(h, prev), prev # block, old # block,
         NEW f, f = Freed(h, old), NEW s, s = GoingOn(MergeWithout(f, block), prev), Fine(s)
  PROVE  FreedMerged(h, f, s, old, block) /\ Swallowed(h, s, old, prev) /\ prev \in BlocksOf(s)
<1>1. PICK s0 : s0 = MergeWithout(f, block)
  OBVIOUS
<1>2. IsHeap(f)
  BY FreedGood, GoodEnds DEF Marked
<1>3. IsHeap(s0)
  BY <1>1, <1>2, MergeWithoutLater DEF Later
<1>4. PICK lost : lost = (prev \notin BlocksOf(s0))
  OBVIOUS
<1>5. s = Harmed(s0, "swallowed", lost)
  BY <1>1, <1>4 DEF GoingOn
<1>6. ~lost /\ s = s0
  BY <1>3, <1>5, HarmedLater
<1>7. FreedMerged(h, f, s, old, block)
  BY <1>1, <1>6, FreedMergedIs
<1>8. prev \in BlocksOf(s)
  BY <1>4, <1>6
<1> QED BY <1>7, <1>8, SwallowedIs

LEMMA GoingOnLater ==
  ASSUME NEW h, IsHeap(h), NEW old, NEW block, NEW prev
  PROVE  Later(h, GoingOn(MergeWithout(Freed(h, old), block), prev))
<1>1. PICK f, s0, s : f = Freed(h, old) /\ s0 = MergeWithout(f, block) /\ s = GoingOn(s0, prev)
  OBVIOUS
<1>2. Later(h, f)
  BY <1>1, TakenLater
<1>3. Later(f, s0)
  BY <1>1, <1>2, MergeWithoutLater DEF Later
<1>4. Later(s0, s)
  BY <1>1, <1>3, HarmedLater DEF Later, GoingOn
<1> QED BY <1>1, <1>2, <1>3, <1>4, LaterTransitive

LEMMA IntoLowerLater ==
  ASSUME NEW h, IsHeap(h), NEW oldp, NEW oldsize, NEW prev, NEW size
  PROVE  Later(h, IntoLower(h, oldp, oldsize, prev, size))
<1>1. PICK k, m, hits, w, g :
        /\ k = split(h, prev, size) /\ m = merge(k)
        /\ hits = (Splits(h, prev, size) /\ prev + size + MetaSize \in (oldp - MetaSize)..(oldp + oldsize - 1))
        /\ w = Harmed(m, "clobbered", hits) /\ g = Moved(w, oldp, prev)
  OBVIOUS
<1>2. IntoLower(h, oldp, oldsize, prev, size) = g
  BY <1>1 DEF IntoLower
<1>3. Later(h, k)
  BY <1>1, SplitLater
<1>4. Later(k, m)
  BY <1>1, <1>3, MergeLater DEF Later
<1>5. Later(m, w)
  BY <1>1, <1>4, HarmedLater DEF Later
<1>6. Later(w, g)
  BY <1>1, <1>5, MovedLater DEF Later
<1> QED BY <1>2, <1>3, <1>4, <1>5, <1>6, LaterTransitive

(* What the blocks swallowed amount to                                      *)
LEMMA SwallowedSize ==
  ASSUME NEW h, Good(h), NEW old \in BlocksOf(h), NEW s, NEW prev \in BlocksOf(h), After(h, prev) = old,
         Swallowed(h, s, old, prev)
  PROVE  /\ Good(s) /\ prev \in BlocksOf(s) /\ prev \in Nat /\ old = prev + Size(h, prev) + 1
         /\ Size(s, prev) \in Nat /\ Size(h, prev) \in Nat /\ Size(h, old) \in Nat /\ old \in Nat
         /\ After(s, prev) = prev + Size(s, prev) + 1 /\ After(h, old) = old + Size(h, old) + 1
         /\ Size(s, prev) >= Size(h, prev) + Size(h, old) + 1
<1>1. Good(s) /\ prev \in BlocksOf(s) /\ After(s, prev) >= After(h, old)
  BY DEF Swallowed
<1>2. /\ prev \in Nat /\ old = prev + Size(h, prev) + 1
      /\ Size(s, prev) \in Nat /\ Size(h, prev) \in Nat /\ Size(h, old) \in Nat /\ old \in Nat
      /\ After(s, prev) = prev + Size(s, prev) + 1 /\ After(h, old) = old + Size(h, old) + 1
  BY <1>1, BlocksIn
<1> QED BY <1>1, <1>2

(* Case b                                                                   *)
LEMMA IntoLowerGood ==
  ASSUME NEW h, Good(h), NEW old \in BlocksOf(h), ~IsFree(h, old), NEW next, next = NULL \/ next \in BlocksOf(h),
         NEW prev \in BlocksOf(h), After(h, prev) = old, IsFree(h, prev), prev # next, old # next,
         NEW size \in Nat, Size(h, old) <= size, Size(h, old) + Size(h, prev) + MetaSize >= size,
         NEW oldp, oldp = old + MetaSize, NEW oldsize, oldsize = Size(h, old),
         NEW g, g = IntoLower(GoingOn(MergeWithout(Freed(h, old), next), prev), oldp, oldsize, prev, size),
         Fine(g)
  PROVE  Became(h, g, old, prev, size)
<1>1. PICK f, s : f = Freed(h, old) /\ s = GoingOn(MergeWithout(f, next), prev)
  OBVIOUS
<1>2. IsHeap(h) /\ IsHeap(s)
  BY <1>1, GoodEnds, GoingOnLater DEF Later
<1>3. PICK k, m, hits, w :
        /\ k = split(s, prev, size) /\ m = merge(k)
        /\ hits = (Splits(s, prev, size) /\ prev + size + MetaSize \in (oldp - MetaSize)..(oldp + oldsize - 1))
        /\ w = Harmed(m, "clobbered", hits)
  OBVIOUS
<1>4. g = Moved(w, oldp, prev)
  BY <1>1, <1>3 DEF IntoLower
<1>5. Later(s, k)
  BY <1>2, <1>3, SplitLater
<1>6. Later(k, m)
  BY <1>3, <1>5, MergeLater DEF Later
<1>7. Later(m, w)
  BY <1>3, <1>6, HarmedLater DEF Later
<1>8. Fine(w)
  BY <1>4, <1>7, MovedLater DEF Later
<1>9. ~hits /\ w = m
  BY <1>3, <1>6, <1>8, HarmedLater DEF Later
<1>10. Fine(m) /\ Fine(k) /\ Fine(s)
  BY <1>5, <1>6, <1>7, <1>8 DEF Later
<1>11. Swallowed(h, s, old, prev)
  BY <1>1, <1>10, LowerSwallowed
<1>12. /\ Good(s) /\ prev \in BlocksOf(s) /\ prev \in Nat /\ old \in Nat /\ Size(h, old) \in Nat
       /\ Size(s, prev) \in Nat /\ Size(s, prev) >= Size(h, prev) + Size(h, old) + 1
       /\ Size(h, prev) \in Nat
  BY <1>11, SwallowedSize
<1>13. SplitTo(s, k, prev, size)
  <2>1. size <= Size(s, prev)
    BY <1>12, Constants
  <2> QED BY <1>3, <1>10, <1>12, <2>1, SplitToIs
<1>14. ASSUME NEW c \in Extent(h, old) PROVE ~NewAt(s, prev, size, c)
  <2>1. SUFFICES ASSUME NewAt(s, prev, size, c) PROVE FALSE
    OBVIOUS
  <2>2. Splits(s, prev, size) /\ c = prev + size + MetaSize
    BY <2>1 DEF NewAt
  <2>3. c \in (oldp - MetaSize)..(oldp + oldsize - 1)
    BY <1>12, <1>14, Constants DEF Extent
  <2> QED BY <1>3, <1>9, <2>2, <2>3
<1>15. Clear(h, k, old, prev)
  BY <1>11, <1>13, <1>14, SwallowedSplit
<1>16. Leaves(h, m, old, prev) /\ Size(m, prev) >= Size(k, prev)
  BY <1>3, <1>10, <1>15, ClearMerged
<1>17. Size(k, prev) >= size /\ prev \in BlocksOf(k) /\ Good(k)
  BY <1>13 DEF SplitTo
<1>18. Good(m) /\ prev \in BlocksOf(m)
  BY <1>16 DEF Leaves, Instead
<1>19. Size(m, prev) >= size /\ Size(h, old) <= Size(m, prev)
  <2>1. Size(k, prev) \in Nat /\ Size(m, prev) \in Nat
    BY <1>17, <1>18, BlocksIn
  <2> QED BY <1>12, <1>16, <1>17, <2>1
<1>20. g = Moved(m, oldp, prev)
  BY <1>4, <1>9
<1>21. Instead(h, g, old, prev) /\ Carries(h, old, g, prev, Size(h, old))
  BY <1>16, <1>19, <1>20, MovedInstead
<1>22. Size(g, prev) = Size(m, prev)
  BY <1>16, <1>19, <1>20, MovedInstead
<1>23. Size(g, prev) >= size
  BY <1>19, <1>22
<1> QED BY <1>12, <1>21, <1>23, BecameIs

LEMMA MergeIsWithout ==
  ASSUME NEW h
  PROVE  merge(h) = MergeWithout(h, NULL)
BY DEF MergeWithout

(* Cases d and e: both neighbours are merged with old.                      *)
LEMMA MovedBothGood ==
  ASSUME NEW h, Good(h), NEW old \in BlocksOf(h), ~IsFree(h, old),
         NEW prev \in BlocksOf(h), After(h, prev) = old, IsFree(h, prev),
         NEW next \in BlocksOf(h), After(h, old) = next, IsFree(h, next),
         NEW size \in Nat, Size(h, old) <= size, Size(h, old) + Size(h, prev) + MetaSize < size,
         Size(h, prev) + Size(h, old) + Size(h, next) + 2 * MetaSize >= size,
         NEW oldp, oldp = old + MetaSize,
         NEW g, g = Moved(split(GoingOn(merge(Freed(h, old)), prev), prev, size), oldp, prev),
         Fine(g)
  PROVE  Became(h, g, old, prev, size)
<1>1. PICK f, s, k : f = Freed(h, old) /\ s = GoingOn(MergeWithout(f, NULL), prev) /\ k = split(s, prev, size)
  OBVIOUS
<1>2. g = Moved(k, oldp, prev)
  BY <1>1, MergeIsWithout
<1>3. IsHeap(h) /\ IsHeap(s)
  BY <1>1, GoodEnds, GoingOnLater DEF Later
<1>4. Later(s, k)
  BY <1>1, <1>3, SplitLater
<1>5. Fine(k) /\ Fine(s)
  BY <1>2, <1>4, MovedLater DEF Later
<1>6. prev # NULL /\ old # NULL /\ next # NULL
  BY BlocksIn, Constants
<1>7. FreedMerged(h, f, s, old, NULL) /\ Swallowed(h, s, old, prev) /\ prev \in BlocksOf(s)
  BY <1>1, <1>5, <1>6, LowerSwallowed
<1>8. /\ Good(s) /\ prev \in Nat /\ old \in Nat /\ Size(h, old) \in Nat
      /\ Size(s, prev) \in Nat /\ Size(h, prev) \in Nat
      /\ old = prev + Size(h, prev) + 1
      /\ After(s, prev) = prev + Size(s, prev) + 1 /\ After(h, old) = old + Size(h, old) + 1
  BY <1>7, SwallowedSize
<1>9. After(s, prev) >= After(h, next)
  BY <1>6, <1>7, LowerReaches
<1>10. After(h, next) = next + Size(h, next) + 1 /\ Size(h, next) \in Nat
  BY BlocksIn
<1>11. size <= Size(s, prev)
  BY <1>8, <1>9, <1>10, Constants
<1>12. SplitTo(s, k, prev, size)
  BY <1>1, <1>5, <1>7, <1>8, <1>11, SplitToIs
<1>13. ASSUME NEW c \in Extent(h, old) PROVE ~NewAt(s, prev, size, c)
  BY <1>8, <1>13, Constants DEF NewAt, Extent
<1>14. Leaves(h, k, old, prev)
  BY <1>7, <1>12, <1>13, SwallowedSplit DEF Clear
<1>15. Size(k, prev) >= size /\ Size(k, prev) \in Nat
  BY <1>12, BlocksIn DEF SplitTo
<1>16. Size(h, old) <= Size(k, prev)
  BY <1>8, <1>15
<1>17. Instead(h, g, old, prev) /\ Carries(h, old, g, prev, Size(h, old))
  BY <1>2, <1>14, <1>16, MovedInstead
<1>18. Size(g, prev) = Size(k, prev)
  BY <1>2, <1>14, <1>16, MovedInstead
<1>19. Size(g, prev) >= size
  BY <1>15, <1>18
<1> QED BY <1>8, <1>17, <1>19, BecameIs

(* In place of old there is the wilderness, which is taken and grows.       *)
LEMMA SwallowedGrows ==
  ASSUME NEW h, Good(h), NEW old \in BlocksOf(h), NEW prev \in BlocksOf(h), After(h, prev) = old,
         NEW s, Swallowed(h, s, old, prev), s.brk = h.brk, After(s, prev) >= h.brk,
         NEW size \in Nat, Size(h, old) <= size,
         NEW oldp, oldp = old + MetaSize,
         NEW k, k = Taken(s, prev), NEW u, u = Moved(k, oldp, prev),
         NEW granted, NEW needed, NEW v \in {k, u}, needed = size - Size(v, v.wilderness),
         sbrkOK(v, needed, granted),
         NEW g, g = Enlarged(u, needed), Fine(g)
  PROVE  Became(h, g, old, prev, size)
<1>1. /\ Good(s) /\ prev \in BlocksOf(s) /\ prev \in Nat /\ old \in Nat /\ Size(h, old) \in Nat
      /\ Size(s, prev) \in Nat /\ Size(h, prev) \in Nat
      /\ Size(s, prev) >= Size(h, prev) + Size(h, old) + 1
  BY SwallowedSize
<1>2. IsHeap(s) /\ Later(s, k)
  BY <1>1, GoodEnds, TakenLater
<1>3. Later(k, u)
  BY <1>2, MovedLater DEF Later
<1>4. Fine(u) /\ Fine(k)
  BY <1>3, EnlargedLater DEF Later
<1>5. PICK n : n = Size(s, prev)
  OBVIOUS
<1>6. /\ SplitTo(s, k, prev, n) /\ k.wilderness = s.wilderness /\ k.brk = s.brk /\ Size(k, prev) = n
      /\ \A c : ~NewAt(s, prev, n, c)
  BY <1>1, <1>4, <1>5, TakenTo
<1>7. s.wilderness = prev
  BY <1>1, Wildest
<1>8. Leaves(h, k, old, prev)
  BY <1>6, SwallowedSplit DEF Clear
<1>9. Size(h, old) <= Size(k, prev)
  BY <1>1, <1>5, <1>6
<1>10. Instead(h, u, old, prev) /\ Carries(h, old, u, prev, Size(h, old))
  BY <1>4, <1>8, <1>9, MovedInstead
<1>11. Size(u, prev) = Size(k, prev) /\ u.wilderness = k.wilderness /\ u.brk = k.brk
  BY <1>4, <1>8, <1>9, MovedInstead
<1>12. v.wilderness = prev /\ Size(v, prev) = n /\ v.brk = h.brk
  BY <1>6, <1>7, <1>11
<1>13. needed \in Int /\ needed = size - Size(u, prev)
  BY <1>1, <1>5, <1>6, <1>11, <1>12
<1>14. u.brk + needed <= HeapMax + 1
  <2>1. h.brk \in Nat /\ h.brk <= HeapMax + 1
    BY GoodEnds
  <2>2. v.brk + needed <= HeapMax + 1
    BY <1>12, <1>13, <2>1, sbrkFits
  <2> QED BY <1>6, <1>11, <1>12, <2>2
<1>15. u.wilderness = prev /\ Size(h, old) <= Size(u, prev)
  BY <1>6, <1>7, <1>9, <1>11
<1> QED BY <1>10, <1>13, <1>14, <1>15, Grows

LEMMA GrowWildLater ==
  ASSUME NEW h, IsHeap(h), NEW moved, Later(h, moved), NEW block, NEW size, NEW granted
  PROVE  Later(h, GrowWild(h, moved, block, size, granted).heap)
<1>1. PICK needed, g, yes, u : /\ needed = size - Size(h, h.wilderness) /\ g = Enlarged(moved, needed)
                               /\ yes \in BOOLEAN /\ yes /\ u = Harmed(h, "undone", yes)
  OBVIOUS
<1>2. GrowWild(h, moved, block, size, granted) =
        IF h.dead # "no" THEN Result(h, NULL)
        ELSE IF sbrkOK(h, needed, granted) THEN Result(g, block + MetaSize)
        ELSE Result(u, NULL)
  BY <1>1, Zenon DEF GrowWild
<1>3. Later(moved, g)
  BY <1>1, EnlargedLater DEF Later
<1>4. Later(h, g)
  BY <1>3, LaterTransitive
<1>5. Later(h, u) /\ Later(h, h)
  BY <1>1, HarmedLater, LaterReflexive
<1> QED BY <1>2, <1>4, <1>5, ResultIs

(* Case b with the wilderness                                               *)
LEMMA GrowLowerGood ==
  ASSUME NEW h, Good(h), NEW old \in BlocksOf(h), ~IsFree(h, old),
         NEW prev \in BlocksOf(h), After(h, prev) = old, IsFree(h, prev), After(h, old) = h.brk,
         NEW size \in Nat, Size(h, old) <= size, Size(h, old) + Size(h, prev) + MetaSize < size,
         NEW oldp, oldp = old + MetaSize, NEW granted,
         NEW got, got = GrowLower(split(GoingOn(merge(Freed(h, old)), prev), prev, size),
                                  oldp, prev, size, granted),
         Fine(got.heap)
  PROVE  TakenOver(h, got, old, size)
<1>1. PICK f, s, k, u : /\ f = Freed(h, old) /\ s = GoingOn(MergeWithout(f, NULL), prev)
                        /\ k = split(s, prev, size) /\ u = Moved(k, oldp, prev)
  OBVIOUS
<1>2. got = GrowWild(k, u, prev, size, granted)
  BY <1>1, MergeIsWithout DEF GrowLower
<1>3. IsHeap(h) /\ IsHeap(s)
  BY <1>1, GoodEnds, GoingOnLater DEF Later
<1>4. Later(s, k)
  BY <1>1, <1>3, SplitLater
<1>5. Later(k, u)
  BY <1>1, <1>4, MovedLater DEF Later
<1>6. PICK needed, g : /\ needed = size - Size(k, k.wilderness) /\ sbrkOK(k, needed, granted)
                       /\ g = Enlarged(u, needed) /\ Fine(g) /\ got = Result(g, prev + MetaSize)
  BY <1>2, <1>4, GrowWildIs DEF Later
<1>7. Fine(u) /\ Fine(k) /\ Fine(s)
  BY <1>4, <1>5, <1>6, EnlargedLater DEF Later
<1>8. prev # NULL /\ old # NULL
  BY BlocksIn, Constants
<1>9. FreedMerged(h, f, s, old, NULL) /\ Swallowed(h, s, old, prev) /\ prev \in BlocksOf(s)
  BY <1>1, <1>7, <1>8, LowerSwallowed
<1>10. /\ Good(s) /\ prev \in Nat /\ old \in Nat /\ Size(h, old) \in Nat
       /\ Size(s, prev) \in Nat /\ Size(h, prev) \in Nat
       /\ old = prev + Size(h, prev) + 1
       /\ After(s, prev) = prev + Size(s, prev) + 1 /\ After(h, old) = old + Size(h, old) + 1
  BY <1>9, SwallowedSize
<1>11. s.brk = h.brk /\ After(s, prev) >= h.brk
  BY <1>9 DEF FreedMerged, Swallowed
<1>12. After(s, prev) = h.brk
  BY <1>9, <1>10, <1>11, Wildest
<1>13. ~Splits(s, prev, size)
  BY <1>10, <1>12, Constants DEF Splits
<1>14. k = Taken(s, prev)
  BY <1>1, <1>7, <1>9, <1>10, <1>13, BlocksIn DEF split, Fine
<1>15. Became(h, g, old, prev, size)
  BY <1>1, <1>6, <1>9, <1>11, <1>14, SwallowedGrows
<1> QED BY <1>6, <1>15, BecameTaken

(* Case f.i                                                                 *)
LEMMA AllGood ==
  ASSUME NEW h, Good(h), NEW old \in BlocksOf(h), ~IsFree(h, old),
         NEW prev \in BlocksOf(h), After(h, prev) = old, IsFree(h, prev),
         NEW next \in BlocksOf(h), After(h, old) = next, IsFree(h, next), After(h, next) = h.brk,
         NEW size \in Nat, Size(h, old) <= size,
         NEW oldp, oldp = old + MetaSize, NEW granted,
         NEW got, got = GrowTaken(TakenAll(GoingOn(merge(Freed(h, old)), prev), oldp, prev),
                                  prev, size, granted),
         Fine(got.heap)
  PROVE  TakenOver(h, got, old, size)
<1>1. PICK f, s, k, u0, not, u :
         /\ f = Freed(h, old) /\ s = GoingOn(MergeWithout(f, NULL), prev)
         /\ k = Taken(s, prev) /\ u0 = Moved(k, oldp, prev)
         /\ not = (prev # s.wilderness) /\ u = Harmed(u0, "asserted", not)
  OBVIOUS
<1>2. u = TakenAll(s, oldp, prev)
  BY <1>1 DEF TakenAll
<1>3. got = GrowWild(u, u, prev, size, granted)
  BY <1>1, <1>2, MergeIsWithout DEF GrowTaken
<1>4. IsHeap(h) /\ IsHeap(s)
  BY <1>1, GoodEnds, GoingOnLater DEF Later
<1>5. Later(s, k)
  BY <1>1, <1>4, TakenLater
<1>6. Later(k, u0)
  BY <1>1, <1>5, MovedLater DEF Later
<1>7. Later(u0, u)
  BY <1>1, <1>6, HarmedLater DEF Later
<1>8. PICK needed, g : /\ needed = size - Size(u, u.wilderness) /\ sbrkOK(u, needed, granted)
                       /\ g = Enlarged(u, needed) /\ Fine(g) /\ got = Result(g, prev + MetaSize)
  BY <1>3, <1>7, GrowWildIs DEF Later
<1>9. Fine(u)
  BY <1>7, <1>8, EnlargedLater DEF Later
<1>10. u = u0
  BY <1>1, <1>6, <1>9, HarmedLater DEF Later
<1>11. Fine(k) /\ Fine(s)
  BY <1>5, <1>6, <1>9, <1>10 DEF Later
<1>12. prev # NULL /\ old # NULL /\ next # NULL
  BY BlocksIn, Constants
<1>13. FreedMerged(h, f, s, old, NULL) /\ Swallowed(h, s, old, prev) /\ prev \in BlocksOf(s)
  BY <1>1, <1>11, <1>12, LowerSwallowed
<1>14. After(s, prev) >= h.brk
  BY <1>12, <1>13, LowerReaches
<1>15. s.brk = h.brk
  BY <1>13 DEF FreedMerged
<1>16. u = Moved(k, oldp, prev) /\ u \in {k, u}
  BY <1>1, <1>10
<1>17. Became(h, g, old, prev, size)
  BY <1>1, <1>8, <1>13, <1>14, <1>15, <1>16, SwallowedGrows
<1> QED BY <1>8, <1>17, BecameTaken

(* Nothing in front of old is merged with it.                               *)
FirstOrAfterUsed(h, old, block) ==
  \/ old = h.firsthead
  \/ \E prev \in BlocksOf(h) : After(h, prev) = old /\ (~IsFree(h, prev) \/ prev = block) /\ prev # old

(* In s, old is a block still, and free; its contents are still there.      *)
Rested(h, s, old) ==
  /\ Good(s) /\ old \in BlocksOf(s) /\ s.brk = h.brk
  /\ Used(s) = Used(h) \ {old} /\ Keeps(h, s, Used(h) \ {old})
  /\ Rests(h, s, old, Size(h, old))

LEMMA UpperSwallowed ==
  ASSUME NEW h, Good(h), NEW old \in BlocksOf(h), ~IsFree(h, old),
         NEW next \in BlocksOf(h), After(h, old) = next, IsFree(h, next),
         NEW block, block = NULL \/ block \in BlocksOf(h), block # next, block # old,
         FirstOrAfterUsed(h, old, block),
         NEW f, f = Freed(h, old), NEW s, s = MergeWithout(f, block), Fine(s)
  PROVE  /\ Rested(h, s, old) /\ After(s, old) >= After(h, next)
         /\ old \in Nat /\ Size(s, old) \in Nat /\ Size(h, next) \in Nat /\ Size(h, old) \in Nat
         /\ Size(s, old) >= Size(h, old) + Size(h, next) + 1
<1>1. FreedMerged(h, f, s, old, block)
  BY FreedMergedIs
<1>2. /\ Good(s) /\ s.brk = h.brk /\ Used(s) = Used(h) \ {old} /\ Keeps(h, s, Used(h) \ {old})
      /\ Rests(h, s, old, Size(h, old))
  BY <1>1 DEF FreedMerged
<1>3. old \in BlocksOf(s) /\ After(s, old) >= After(h, next)
  BY <1>1, UpperReaches DEF FirstOrAfterUsed
<1>4. /\ old \in Nat /\ Size(s, old) \in Nat /\ After(s, old) = old + Size(s, old) + 1
      /\ Size(h, old) \in Nat /\ next = old + Size(h, old) + 1
      /\ Size(h, next) \in Nat /\ After(h, next) = next + Size(h, next) + 1
  BY <1>2, <1>3, BlocksIn
<1> QED BY <1>2, <1>3, <1>4 DEF Rested

(* Case c                                                                   *)
LEMMA UpperSplitGood ==
  ASSUME NEW h, Good(h), NEW old \in BlocksOf(h), ~IsFree(h, old),
         NEW next \in BlocksOf(h), After(h, old) = next, IsFree(h, next),
         NEW block, block = NULL \/ block \in BlocksOf(h), block # next, block # old,
         FirstOrAfterUsed(h, old, block),
         NEW size \in Nat, Size(h, old) + Size(h, next) + MetaSize >= size,
         NEW g, g = split(MergeWithout(Freed(h, old), block), old, size), Fine(g)
  PROVE  Became(h, g, old, old, size)
<1>1. PICK f, s : f = Freed(h, old) /\ s = MergeWithout(f, block)
  OBVIOUS
<1>2. g = split(s, old, size)
  BY <1>1
<1>3. Later(h, f)
  BY <1>1, GoodEnds, TakenLater
<1>4. IsHeap(s)
  BY <1>1, <1>3, MergeWithoutLater DEF Later
<1>5. Fine(s)
  BY <1>2, <1>4, SplitLater DEF Later
<1>6. /\ Good(s) /\ old \in BlocksOf(s) /\ Used(s) = Used(h) \ {old} /\ Keeps(h, s, Used(h) \ {old})
      /\ Rests(h, s, old, Size(h, old))
  <2>1. Rested(h, s, old)
    BY <1>1, <1>5, UpperSwallowed
  <2> QED BY <2>1 DEF Rested
<1>7. Size(s, old) \in Nat /\ Size(h, next) \in Nat /\ Size(h, old) \in Nat
      /\ Size(s, old) >= Size(h, old) + Size(h, next) + 1
  BY <1>1, <1>5, UpperSwallowed
<1>8. size <= Size(s, old)
  BY <1>7, Constants
<1>9. Used(s) \cup {old} = (Used(h) \ {old}) \cup {old}
  BY <1>6
<1> QED BY <1>2, <1>6, <1>8, <1>9, CutInstead

(* Case f.ii                                                                *)
LEMMA UpperTakenGood ==
  ASSUME NEW h, Good(h), NEW old \in BlocksOf(h), ~IsFree(h, old),
         NEW next \in BlocksOf(h), After(h, old) = next, IsFree(h, next), After(h, next) = h.brk,
         FirstOrAfterUsed(h, old, NULL),
         NEW size \in Nat, Size(h, old) <= size, NEW granted,
         NEW got, got = GrowTaken(Taken(merge(Freed(h, old)), old), old, size, granted), Fine(got.heap)
  PROVE  TakenOver(h, got, old, size)
<1>1. PICK f, s, t, block : f = Freed(h, old) /\ s = MergeWithout(f, block) /\ t = Taken(s, old) /\ block = NULL
  OBVIOUS
<1>2. got = GrowWild(t, t, old, size, granted)
  BY <1>1, MergeIsWithout DEF GrowTaken
<1>3. Later(h, f)
  BY <1>1, GoodEnds, TakenLater
<1>4. IsHeap(s)
  BY <1>1, <1>3, MergeWithoutLater DEF Later
<1>5. Later(s, t)
  BY <1>1, <1>4, TakenLater
<1>6. PICK needed, g : /\ needed = size - Size(t, t.wilderness) /\ sbrkOK(t, needed, granted)
                       /\ g = Enlarged(t, needed) /\ Fine(g) /\ got = Result(g, old + MetaSize)
  BY <1>2, <1>5, GrowWildIs DEF Later
<1>7. Fine(t) /\ Fine(s)
  BY <1>5, <1>6, EnlargedLater DEF Later
<1>8. block = NULL /\ block # next /\ block # old /\ FirstOrAfterUsed(h, old, block)
  BY <1>1, BlocksIn, Constants
<1>9. /\ Good(s) /\ old \in BlocksOf(s) /\ s.brk = h.brk /\ After(s, old) >= h.brk
      /\ Used(s) = Used(h) \ {old} /\ Keeps(h, s, Used(h) \ {old})
      /\ Rests(h, s, old, Size(h, old))
  <2>1. Rested(h, s, old) /\ After(s, old) >= After(h, next)
    BY <1>1, <1>7, <1>8, UpperSwallowed
  <2> QED BY <2>1 DEF Rested
<1>10. /\ old \in Nat /\ Size(s, old) \in Nat /\ Size(h, next) \in Nat /\ Size(h, old) \in Nat
       /\ Size(s, old) >= Size(h, old) + Size(h, next) + 1
  BY <1>1, <1>7, <1>8, UpperSwallowed
<1>11. PICK n : n = Size(s, old)
  OBVIOUS
<1>12. /\ SplitTo(s, t, old, n) /\ t.wilderness = s.wilderness /\ t.brk = s.brk /\ Size(t, old) = n
       /\ \A c : ~NewAt(s, old, n, c)
  BY <1>1, <1>7, <1>9, <1>11, TakenTo
<1>13. /\ Good(t) /\ old \in BlocksOf(t) /\ Used(t) = Used(s) \cup {old} /\ Keeps(s, t, Used(s) \ {old})
       /\ AlikeOn(s.mem, t.mem, Cells \ {c \in Cells : c = old \/ NewAt(s, old, n, c)})
  BY <1>12 DEF SplitTo
<1>14. Instead(h, t, old, old)
  <2>1. Used(t) = (Used(h) \ {old}) \cup {old} /\ old \notin Used(h) \ {old}
    BY <1>9, <1>13
  <2>2. Used(s) \ {old} = Used(h) \ {old}
    BY <1>9
  <2>3. Keeps(h, t, Used(h) \ {old})
    BY <1>9, <1>13, <2>2, KeepsTransitive
  <2> QED BY <1>13, <2>1, <2>3 DEF Instead
<1>15. Carries(h, old, t, old, Size(h, old))
  <2>1. PICK m : m = Size(h, old)
    OBVIOUS
  <2>2. m \in Nat /\ \A c \in Extent(h, old) : c \in Cells
    BY <1>10, <2>1, ExtentIn
  <2>3. \A c \in old..(old + m) : c \in Cells
    BY <2>1, <2>2 DEF Extent
  <2>4. \A c \in (old + 1)..(old + m) : c \notin {d \in Cells : d = old \/ NewAt(s, old, n, d)}
    BY <1>10, <1>12
  <2>5. Rests(s, t, old, m)
    BY <1>10, <1>13, <2>2, <2>3, <2>4, RestsAlike
  <2>6. Rests(h, t, old, m)
    BY <1>9, <2>1, <2>5, RestsTransitive
  <2> QED BY <1>10, <2>1, <2>2, <2>6, RestsCarry
<1>16. s.wilderness = old
  BY <1>9, Wildest
<1>17. t.wilderness = old /\ Size(h, old) <= Size(t, old) /\ Size(t, old) \in Nat
  BY <1>10, <1>11, <1>12, <1>16
<1>18. needed \in Int /\ needed = size - Size(t, old)
  BY <1>6, <1>17
<1>19. t.brk + needed <= HeapMax + 1
  <2>1. t.brk \in Nat /\ t.brk <= HeapMax + 1
    BY <1>13, GoodEnds
  <2> QED BY <1>6, <1>18, <2>1, sbrkFits
<1>20. Became(h, g, old, old, size)
  BY <1>6, <1>14, <1>15, <1>17, <1>18, <1>19, Grows
<1> QED BY <1>6, <1>20, BecameTaken

(* The block of the client stays where it is.                               *)
LEMMA InsteadOfItself ==
  ASSUME NEW h, Good(h), NEW old \in BlocksOf(h), old \in Used(h)
  PROVE  Instead(h, h, old, old) /\ Keeps(h, h, Used(h) \ {old})
<1>1. Used(h) = (Used(h) \ {old}) \cup {old}
  OBVIOUS
<1>2. Keeps(h, h, Used(h) \ {old})
  BY KeepsReflexive, KeepsLess
<1> QED BY <1>1, <1>2 DEF Instead

LEMMA StaysGood ==
  ASSUME NEW h, Good(h), NEW old, old \in Used(h), NEW size \in Nat, size <= Size(h, old),
         NEW got, got.heap = h, got.p = old + MetaSize
  PROVE  TakenOver(h, got, old, size)
<1>1. old \in BlocksOf(h) \cup Maps(h)
  BY DEF Used
<1>2. old \in Nat /\ Size(h, old) \in Nat
  BY <1>1, ExtentIn
<1>3. got.p # NULL /\ got.p \in Nat /\ got.p - MetaSize = old
  BY <1>2, Constants
<1>4. Keeps(h, h, Used(h) \ {old})
  BY KeepsReflexive, KeepsLess
<1>5. Used(h) = (Used(h) \ {old}) \cup {old} /\ Size(h, old) >= size
  BY <1>2
<1>6. Hands(h, Used(h) \ {old}, got, size)
  BY <1>3, <1>4, <1>5 DEF Hands
<1>7. \A n \in Nat : Carries(h, old, h, old, n)
  BY <1>2, RestsSame, RestsCarry
<1> QED BY <1>3, <1>6, <1>7 DEF TakenOver

LEMMA SplitInPlace ==
  ASSUME NEW h, Good(h), NEW old \in BlocksOf(h), old \in Used(h), NEW size \in Nat, size <= Size(h, old),
         NEW g, g = split(h, old, size), Fine(g)
  PROVE  Became(h, g, old, old, size)
<1>1. Used(h) \cup {old} = (Used(h) \ {old}) \cup {old} /\ Keeps(h, h, Used(h) \ {old})
  BY InsteadOfItself
<1>2. Rests(h, h, old, Size(h, old))
  BY RestsSame
<1> QED BY <1>1, <1>2, CutInstead

LEMMA GrowInPlace ==
  ASSUME NEW h, Good(h), NEW old \in BlocksOf(h), old \in Used(h), old = h.wilderness,
         NEW size \in Nat, Size(h, old) <= size,
         NEW granted, NEW needed, needed = size - Size(h, old), sbrkOK(h, needed, granted),
         NEW g, g = Enlarged(h, needed), Fine(g)
  PROVE  Became(h, g, old, old, size)
<1>1. old \in Nat /\ Size(h, old) \in Nat /\ h.brk \in Nat /\ h.brk <= HeapMax + 1
  BY BlocksIn
<1>2. needed \in Int
  BY <1>1
<1>3. h.brk + needed <= HeapMax + 1
  BY <1>1, <1>2, sbrkFits
<1>4. Carries(h, old, h, old, Size(h, old))
  BY <1>1, RestsSame, RestsCarry
<1>5. Instead(h, h, old, old)
  BY InsteadOfItself
<1>6. Size(h, old) <= Size(h, old)
  BY <1>1
<1> QED BY <1>2, <1>3, <1>4, <1>5, <1>6, Grows

-----------------------------------------------------------------------------
(* srealloc                                                                 *)

(* srealloc from case a on, with the names it gives                         *)
Cases(h, oldp, size, granted, old, oldsize, next, prev) ==
  IF oldsize >= size THEN Result(split(h, old, size), oldp)
  ELSE IF (next # NULL /\ ~Valid(h, next)) \/ (prev = NULL /\ old # h.firsthead)
  THEN Result(Dead(h, "cookie"), NULL)
  ELSE IF (prev # NULL /\ IsFree(h, prev)) /\ oldsize + Size(h, prev) + MetaSize >= size
  THEN Result(IntoLower(GoingOn(MergeWithout(Freed(h, old), next), prev), oldp, oldsize, prev, size),
              prev + MetaSize)
  ELSE IF (prev # NULL /\ IsFree(h, prev)) /\ old = h.wilderness
  THEN GrowLower(split(GoingOn(merge(Freed(h, old)), prev), prev, size), oldp, prev, size, granted)
  ELSE IF old = h.wilderness
  THEN IF sbrkOK(h, size - oldsize, granted)
       THEN Result(Enlarged(h, size - oldsize), oldp) ELSE Result(h, NULL)
  ELSE IF (next # NULL /\ IsFree(h, next)) /\ oldsize + Size(h, next) + MetaSize >= size
  THEN Result(split(MergeWithout(Freed(h, old), prev), old, size), oldp)
  ELSE IF (next # NULL /\ IsFree(h, next)) /\ (prev # NULL /\ IsFree(h, prev))
          /\ Size(h, prev) + oldsize + Size(h, next) + 2 * MetaSize >= size
  THEN Result(Moved(split(GoingOn(merge(Freed(h, old)), prev), prev, size), oldp, prev),
              prev + MetaSize)
  ELSE IF (next # NULL /\ IsFree(h, next)) /\ next = h.wilderness /\ (prev # NULL /\ IsFree(h, prev))
  THEN GrowTaken(TakenAll(GoingOn(merge(Freed(h, old)), prev), oldp, prev), prev, size, granted)
  ELSE IF (next # NULL /\ IsFree(h, next)) /\ next = h.wilderness
  THEN GrowTaken(Taken(merge(Freed(h, old)), old), old, size, granted)
  ELSE Replaced(smalloc(h, size, granted), oldp, oldsize)

BehindOld(h, old) == IF old = h.wilderness THEN NULL ELSE After(h, old)
BeforeOld(h, old) == IF old = h.firsthead THEN NULL ELSE Predecessor(h, old)

LEMMA SreallocIs ==
  ASSUME NEW h, NEW oldp, oldp # NULL, NEW size, NEW granted
  PROVE  srealloc(h, oldp, size, granted) =
           IF size = 0 \/ size > SIZE_LIMIT THEN Result(h, NULL)
           ELSE IF ~Valid(h, oldp - MetaSize) THEN Result(Dead(h, "cookie"), NULL)
           ELSE IF Size(h, oldp - MetaSize) >= MMAP_THRESHOLD THEN mmapsrealloc(h, oldp, size, granted)
           ELSE Cases(h, oldp, size, granted, oldp - MetaSize, Size(h, oldp - MetaSize),
                      BehindOld(h, oldp - MetaSize), BeforeOld(h, oldp - MetaSize))
BY Zenon DEF srealloc, Cases, BehindOld, BeforeOld

(* The blocks around old                                                    *)
LEMMA Neighbours ==
  ASSUME NEW h, Good(h), NEW old \in BlocksOf(h), NEW next, next = BehindOld(h, old),
         NEW prev, prev = BeforeOld(h, old), prev # NULL \/ old = h.firsthead
  PROVE  /\ old # NULL /\ (old = h.wilderness <=> next = NULL)
         /\ old = h.wilderness => After(h, old) = h.brk
         /\ next # NULL => next \in BlocksOf(h) /\ After(h, old) = next /\ next # old /\ next > old
         /\ next # NULL /\ next = h.wilderness => After(h, next) = h.brk
         /\ prev # NULL => prev \in BlocksOf(h) /\ After(h, prev) = old /\ prev # old /\ prev < old
         /\ prev = NULL => old = h.firsthead
         /\ prev # NULL => prev # next
<1>1. /\ old \in Nat /\ old > 0 /\ h.firsthead # NULL /\ After(h, old) \in Nat /\ After(h, old) > old
      /\ After(h, old) <= h.brk /\ Valid(h, old)
  BY BlocksIn
<1>2. h.wilderness \in BlocksOf(h) /\ After(h, h.wilderness) = h.brk
  BY <1>1, GoodEnds
<1>3. CASE old = h.wilderness
  <2>1. next = NULL
    BY <1>3 DEF BehindOld
  <2>2. prev # NULL => prev \in BlocksOf(h) /\ After(h, prev) = old /\ prev # old /\ prev < old
    BY PredecessorIs DEF BeforeOld
  <2> QED BY <1>1, <1>2, <1>3, <2>1, <2>2, Constants
<1>4. CASE old # h.wilderness
  <2>1. next = After(h, old) /\ next # NULL
    BY <1>1, <1>4, Constants DEF BehindOld
  <2>2. next # h.brk
    BY <1>4, <1>1, <2>1, GoodEnds, Wildest
  <2>3. next \in BlocksOf(h)
    BY <2>1, <2>2 DEF Good, Chain
  <2>4. prev # NULL => prev \in BlocksOf(h) /\ After(h, prev) = old /\ prev # old /\ prev < old
    BY PredecessorIs DEF BeforeOld
  <2>5. prev # NULL => prev # next
    BY <1>1, <2>1, <2>4, BlocksIn
  <2> QED BY <1>1, <1>2, <1>4, <2>1, <2>3, <2>4, <2>5, Constants
<1> QED BY <1>3, <1>4

LEMMA CasesGood ==
  ASSUME NEW h, Good(h), NEW old \in BlocksOf(h), old \in Used(h), NEW oldp, oldp = old + MetaSize,
         NEW size \in Nat, NEW granted \in BOOLEAN, NEW oldsize, oldsize = Size(h, old),
         NEW next, next = BehindOld(h, old), NEW prev, prev = BeforeOld(h, old),
         NEW got, got = Cases(h, oldp, size, granted, old, oldsize, next, prev), Fine(got.heap)
  PROVE  IF got.p = NULL THEN got.heap = h ELSE TakenOver(h, got, old, size)
<1>1. old \in Nat /\ oldsize \in Nat /\ IsHeap(h)
  BY GoodEnds, BlocksIn
<1>u. ~IsFree(h, old)
  BY DEF Used
<1>2. CASE oldsize >= size
  <2>1. PICK g : g = split(h, old, size)
    OBVIOUS
  <2>2. got = Result(g, oldp)
    BY <1>2, <2>1 DEF Cases
  <2>3. Fine(g)
    BY <2>2, ResultIs
  <2>4. Became(h, g, old, old, size)
    BY <1>2, <2>1, <2>3, SplitInPlace
  <2>5. TakenOver(h, got, old, size)
    BY <2>2, <2>3, <2>4, BecameTaken
  <2> QED BY <2>5 DEF TakenOver
<1>3. CASE ~(oldsize >= size)
  <2>1. Size(h, old) <= size
    BY <1>1, <1>3
  <2>2. ~((next # NULL /\ ~Valid(h, next)) \/ (prev = NULL /\ old # h.firsthead))
    <3>1. PICK d, bad : /\ d = Dead(h, "cookie")
                        /\ bad = ((next # NULL /\ ~Valid(h, next)) \/ (prev = NULL /\ old # h.firsthead))
      OBVIOUS
    <3>2. SUFFICES ASSUME bad PROVE FALSE
      BY <3>1
    <3>3. got = Result(d, NULL)
      BY <1>3, <3>1, <3>2 DEF Cases
    <3> QED BY <1>1, <3>1, <3>3, DeadLater, ResultIs
  <2>3. /\ old # NULL /\ (old = h.wilderness <=> next = NULL)
        /\ old = h.wilderness => After(h, old) = h.brk
        /\ next # NULL => next \in BlocksOf(h) /\ After(h, old) = next /\ next # old /\ next > old
        /\ next # NULL /\ next = h.wilderness => After(h, next) = h.brk
        /\ prev # NULL => prev \in BlocksOf(h) /\ After(h, prev) = old /\ prev # old /\ prev < old
        /\ prev = NULL => old = h.firsthead
        /\ prev # NULL => prev # next
    BY <2>2, Neighbours
  <2>4. PICK lower, upper, room : /\ lower = (prev # NULL /\ IsFree(h, prev))
                                  /\ upper = (next # NULL /\ IsFree(h, next))
                                  /\ room = (oldsize + Size(h, prev) + MetaSize >= size)
    OBVIOUS
  <2>5. CASE lower /\ room
    <3>1. PICK g : g = IntoLower(GoingOn(MergeWithout(Freed(h, old), next), prev), oldp, oldsize, prev, size)
      OBVIOUS
    <3>2. got = Result(g, prev + MetaSize)
      BY <1>3, <2>2, <2>4, <2>5, <3>1 DEF Cases
    <3>3. Fine(g)
      BY <3>2, ResultIs
    <3>4. Became(h, g, old, prev, size)
      BY <2>1, <2>3, <2>4, <2>5, <3>1, <3>3, <1>u, IntoLowerGood
    <3>5. TakenOver(h, got, old, size)
      BY <3>2, <3>3, <3>4, BecameTaken
    <3> QED BY <3>5 DEF TakenOver
  <2>6. CASE lower /\ ~room /\ old = h.wilderness
    <3>1. got = GrowLower(split(GoingOn(merge(Freed(h, old)), prev), prev, size), oldp, prev, size, granted)
      BY <1>3, <2>2, <2>4, <2>6 DEF Cases
    <3>2. Size(h, old) + Size(h, prev) + MetaSize < size
      <4>1. prev \in BlocksOf(h)
        BY <2>3, <2>4, <2>6
      <4>2. Size(h, prev) \in Nat
        BY <4>1, BlocksIn
      <4>3. ~(oldsize + Size(h, prev) + MetaSize >= size)
        BY <2>4, <2>6
      <4> QED BY <1>1, <4>2, <4>3, Constants
    <3>3. TakenOver(h, got, old, size)
      BY <2>1, <2>3, <2>4, <2>6, <3>1, <3>2, <1>u, GrowLowerGood
    <3> QED BY <3>3 DEF TakenOver
  <2>7. CASE ~lower /\ old = h.wilderness
    <3>1. PICK needed, g : needed = size - oldsize /\ g = Enlarged(h, needed)
      OBVIOUS
    <3>2. got = IF sbrkOK(h, needed, granted) THEN Result(g, oldp) ELSE Result(h, NULL)
      BY <1>3, <2>2, <2>4, <2>7, <3>1 DEF Cases
    <3>3. CASE ~sbrkOK(h, needed, granted)
      BY <3>2, <3>3, ResultIs
    <3>4. CASE sbrkOK(h, needed, granted)
      <4>1. got = Result(g, oldp) /\ Fine(g)
        BY <3>2, <3>4, ResultIs
      <4>2. Became(h, g, old, old, size)
        BY <2>1, <2>7, <3>1, <3>4, <4>1, GrowInPlace
      <4>3. TakenOver(h, got, old, size)
        BY <4>1, <4>2, BecameTaken
      <4> QED BY <4>3 DEF TakenOver
    <3> QED BY <3>3, <3>4
  <2>8. ASSUME ~(lower /\ room), old # h.wilderness
        PROVE  IF got.p = NULL THEN got.heap = h ELSE TakenOver(h, got, old, size)
    <3>1. PICK above, both : /\ above = (oldsize + Size(h, next) + MetaSize >= size)
                             /\ both = (Size(h, prev) + oldsize + Size(h, next) + 2 * MetaSize >= size)
      OBVIOUS
    <3>2. next # NULL /\ next \in BlocksOf(h) /\ After(h, old) = next
      BY <2>3, <2>8
    <3>3. Size(h, next) \in Nat
      BY <3>2, BlocksIn
    <3>4. ~lower => FirstOrAfterUsed(h, old, NULL)
      BY <2>3, <2>4 DEF FirstOrAfterUsed
    <3>5. FirstOrAfterUsed(h, old, prev)
      BY <2>3, <2>4 DEF FirstOrAfterUsed
    <3>6. CASE upper /\ above
      <4>1. PICK g : g = split(MergeWithout(Freed(h, old), prev), old, size)
        OBVIOUS
      <4>2. got = Result(g, oldp)
        BY <1>3, <2>2, <2>4, <2>8, <3>1, <3>6, <4>1 DEF Cases
      <4>3. Fine(g)
        BY <4>2, ResultIs
      <4>4. Became(h, g, old, old, size)
        BY <2>3, <2>4, <3>1, <3>2, <3>5, <3>6, <4>1, <4>3, <1>u, UpperSplitGood
      <4>5. TakenOver(h, got, old, size)
        BY <4>2, <4>3, <4>4, BecameTaken
      <4> QED BY <4>5 DEF TakenOver
    <3>7. CASE upper /\ ~above /\ lower /\ both
      <4>1. PICK g : g = Moved(split(GoingOn(merge(Freed(h, old)), prev), prev, size), oldp, prev)
        OBVIOUS
      <4>2. got = Result(g, prev + MetaSize)
        BY <1>3, <2>2, <2>4, <2>8, <3>1, <3>7, <4>1 DEF Cases
      <4>3. Fine(g)
        BY <4>2, ResultIs
      <4>4. Size(h, old) + Size(h, prev) + MetaSize < size
        <5>1. prev \in BlocksOf(h)
          BY <2>3, <2>4, <3>7
        <5>2. Size(h, prev) \in Nat
          BY <5>1, BlocksIn
        <5>3. ~(oldsize + Size(h, prev) + MetaSize >= size)
          BY <2>4, <2>8, <3>7
        <5> QED BY <1>1, <5>2, <5>3, Constants
      <4>5. Size(h, prev) + Size(h, old) + Size(h, next) + 2 * MetaSize >= size
        BY <3>1, <3>7
      <4>6. Became(h, g, old, prev, size)
        BY <2>1, <2>3, <2>4, <3>2, <3>7, <4>1, <4>3, <4>4, <4>5, <1>u, MovedBothGood
      <4>7. TakenOver(h, got, old, size)
        BY <4>2, <4>3, <4>6, BecameTaken
      <4> QED BY <4>7 DEF TakenOver
    <3>8. CASE upper /\ ~above /\ lower /\ ~both /\ next = h.wilderness
      <4>1. got = GrowTaken(TakenAll(GoingOn(merge(Freed(h, old)), prev), oldp, prev), prev, size, granted)
        BY <1>3, <2>2, <2>4, <2>8, <3>1, <3>8 DEF Cases
      <4>2. TakenOver(h, got, old, size)
        BY <2>1, <2>3, <2>4, <3>2, <3>8, <4>1, <1>u, AllGood
      <4> QED BY <4>2 DEF TakenOver
    <3>9. CASE upper /\ ~above /\ ~lower /\ next = h.wilderness
      <4>1. got = GrowTaken(Taken(merge(Freed(h, old)), old), old, size, granted)
        BY <1>3, <2>2, <2>4, <2>8, <3>1, <3>9 DEF Cases
      <4>2. TakenOver(h, got, old, size)
        BY <2>1, <2>3, <2>4, <3>2, <3>4, <3>9, <4>1, <1>u, UpperTakenGood
      <4> QED BY <4>2 DEF TakenOver
    <3>10. CASE ~(upper /\ above) /\ ~(upper /\ lower /\ both) /\ ~(upper /\ next = h.wilderness)
      <4>1. got = Replaced(smalloc(h, size, granted), oldp, oldsize)
        BY <1>3, <2>2, <2>4, <2>8, <3>1, <3>10 DEF Cases
      <4>2. oldsize <= Size(h, old) /\ oldsize <= size /\ oldsize >= Size(h, old)
        BY <1>1, <2>1
      <4> QED BY <1>1, <4>1, <4>2, ReplacedGood
    <3> QED BY <3>6, <3>7, <3>8, <3>9, <3>10
  <2> QED BY <2>5, <2>6, <2>7, <2>8
<1> QED BY <1>1, <1>2, <1>3

(* Whatever way srealloc goes, the region of the client has moved with its  *)
(* contents, and the other regions are untouched; or nothing has changed.   *)
LEMMA SreallocGood ==
  ASSUME NEW h, Good(h), NEW old, old \in Used(h), NEW oldp, oldp = old + MetaSize,
         NEW size \in Nat, NEW granted \in BOOLEAN,
         NEW got, got = srealloc(h, oldp, size, granted), Fine(got.heap)
  PROVE  IF got.p = NULL THEN got.heap = h ELSE TakenOver(h, got, old, size)
<1>1. old \in BlocksOf(h) \cup Maps(h) /\ IsHeap(h)
  BY GoodEnds DEF Used
<1>2. /\ old \in Nat /\ oldp # NULL /\ oldp - MetaSize = old /\ Valid(h, old) /\ Size(h, old) \in Nat
  BY <1>1, ExtentIn, Constants
<1>3. PICK next, prev : next = BehindOld(h, old) /\ prev = BeforeOld(h, old)
  OBVIOUS
<1>4. got = IF size = 0 \/ size > SIZE_LIMIT THEN Result(h, NULL)
            ELSE IF Size(h, old) >= MMAP_THRESHOLD THEN mmapsrealloc(h, oldp, size, granted)
            ELSE Cases(h, oldp, size, granted, old, Size(h, old), next, prev)
  BY <1>2, <1>3, SreallocIs
<1>5. CASE size = 0 \/ size > SIZE_LIMIT
  BY <1>4, <1>5, ResultIs
<1>6. CASE ~(size = 0 \/ size > SIZE_LIMIT) /\ Size(h, old) >= MMAP_THRESHOLD
  <2>1. PICK n : n = IF Size(h, old) <= size THEN Size(h, old) ELSE size
    OBVIOUS
  <2>2. Min({Size(h, old), size}) = n
    <3>1. PICK S : S = {Size(h, old), size}
      OBVIOUS
    <3>2. S \subseteq Nat /\ S # {}
      BY <1>2, <3>1
    <3>3. Min(S) \in S /\ \A x \in S : Min(S) <= x
      BY <3>2, Least
    <3>4. Min(S) \in Nat
      BY <3>2, <3>3
    <3> QED BY <1>2, <2>1, <3>1, <3>3, <3>4
  <2>3. got = IF Size(h, old) = size THEN Result(h, oldp)
              ELSE Replaced(smalloc(h, size, granted), oldp, n)
    BY <1>2, <1>4, <1>6, <2>2 DEF mmapsrealloc
  <2>4. CASE Size(h, old) = size
    <3>1. got.heap = h /\ got.p = oldp
      BY <2>3, <2>4, ResultIs
    <3>2. size <= Size(h, old)
      BY <1>2, <2>4
    <3>3. TakenOver(h, got, old, size)
      BY <3>1, <3>2, StaysGood
    <3> QED BY <3>3 DEF TakenOver
  <2>5. CASE Size(h, old) # size
    <3>1. got = Replaced(smalloc(h, size, granted), oldp, n)
      BY <2>3, <2>5
    <3>2. n \in Nat /\ n <= Size(h, old) /\ n <= size /\ (n >= size \/ n >= Size(h, old))
      BY <1>2, <2>1
    <3> QED BY <3>1, <3>2, ReplacedGood
  <2> QED BY <2>4, <2>5
<1>7. CASE ~(size = 0 \/ size > SIZE_LIMIT) /\ ~(Size(h, old) >= MMAP_THRESHOLD)
  <2>1. old \in BlocksOf(h)
    BY <1>1, <1>7, MapsIn
  <2>2. got = Cases(h, oldp, size, granted, old, Size(h, old), next, prev)
    BY <1>4, <1>7
  <2> QED BY <1>3, <2>1, <2>2, CasesGood
<1> QED BY <1>5, <1>6, <1>7

-----------------------------------------------------------------------------
(* The client                                                               *)

(* Block a holds what the client knows of it.                               *)
Holds(h, a, r) ==
  /\ r.asked \in Nat /\ r.kept \in Nat /\ r.kept <= r.asked /\ r.asked <= Size(h, a)
  /\ r.value \in Contents
  /\ \A i \in 1..r.kept : h.mem[a + i] = Data(r.value)

(* The blocks of S are those the client holds, according to table.          *)
HeldAs(h, S, table) ==
  /\ DOMAIN table = {a + MetaSize : a \in S}
  /\ \A a \in S : Holds(h, a, table[a + MetaSize])

(* The counters are what they count.                                       *)
Counted(h) ==
  /\ h.num_free_blocks = Cardinality(FreeOf(h))
  /\ h.num_free_bytes = Cardinality(Bytes(h, FreeOf(h)))
  /\ h.num_allocated_blocks = Cardinality(AllOf(h))
  /\ h.num_allocated_bytes = Cardinality(Bytes(h, AllOf(h)))
  /\ h.num_meta_data_bytes = Cardinality(AllOf(h))

(* The inductive invariant                                                  *)
Held == Good(Heap) /\ Counted(Heap) /\ HeldAs(Heap, Used(Heap), live)
HInv == Sane => Held

LEMMA CountedOn ==
  ASSUME NEW h, Good(h), Counted(h), NEW g, Good(g), Even(h, g)
  PROVE  Counted(g)
<1>1. /\ \E fn, fm : Tally(h, FreeOf(h), fn, fm)
      /\ \E an, am : Tally(h, AllOf(h), an, am)
      /\ \E fk, fl : Tally(g, FreeOf(g), fk, fl)
      /\ \E ak, al : Tally(g, AllOf(g), ak, al)
  BY Tallies DEF FreeOf, AllOf
<1>2. PICK fn, fm, an, am, fk, fl, ak, al :
        /\ Tally(h, FreeOf(h), fn, fm) /\ Tally(h, AllOf(h), an, am)
        /\ Tally(g, FreeOf(g), fk, fl) /\ Tally(g, AllOf(g), ak, al)
  BY <1>1
<1>3. /\ fn \in Nat /\ fm \in Nat /\ an \in Nat /\ am \in Nat
      /\ fk \in Nat /\ fl \in Nat /\ ak \in Nat /\ al \in Nat
      /\ fn = Cardinality(FreeOf(h)) /\ fm = Cardinality(Bytes(h, FreeOf(h)))
      /\ an = Cardinality(AllOf(h)) /\ am = Cardinality(Bytes(h, AllOf(h)))
      /\ fk = Cardinality(FreeOf(g)) /\ fl = Cardinality(Bytes(g, FreeOf(g)))
      /\ ak = Cardinality(AllOf(g)) /\ al = Cardinality(Bytes(g, AllOf(g)))
  BY <1>2 DEF Tally
<1>4. Counters(g)
  BY DEF Good, Typed
<1>5. /\ g.num_free_blocks - fk = fn - fn /\ g.num_free_bytes - fl = fm - fm
      /\ g.num_allocated_blocks - ak = an - an /\ g.num_allocated_bytes - al = am - am
      /\ g.num_meta_data_bytes - ak = an - an
  BY <1>3 DEF Even, Counted
<1>6. /\ g.num_free_blocks = fk /\ g.num_free_bytes = fl
      /\ g.num_allocated_blocks = ak /\ g.num_allocated_bytes = al
      /\ g.num_meta_data_bytes = ak
  BY <1>3, <1>4, <1>5 DEF Counters
<1> QED BY <1>3, <1>6 DEF Counted

LEMMA HandsCounted ==
  ASSUME NEW h, Good(h), Counted(h), NEW S, NEW got, NEW n, Hands(h, S, got, n)
  PROVE  Counted(got.heap)
<1>1. Good(got.heap) /\ Even(h, got.heap)
  BY DEF Hands, Keeps
<1> QED BY <1>1, CountedOn

LEMMA DataIs ==
  ASSUME NEW v
  PROVE  Data(v).tag = "data" /\ Data(v).tag # "header" /\ Data(v).value = v
BY DEF Data

LEMMA HoldsOn ==
  ASSUME NEW h, Good(h), NEW g, NEW S, Keeps(h, g, S), NEW a \in S, NEW r, Holds(h, a, r)
  PROVE  Holds(g, a, r)
<1>1. a \in BlocksOf(h) \cup Maps(h) /\ Size(g, a) = Size(h, a)
  BY DEF Keeps, Used
<1>2. a \in Nat /\ Size(h, a) \in Nat
  BY <1>1, ExtentIn
<1>3. /\ r.asked \in Nat /\ r.kept \in Nat /\ r.kept <= r.asked /\ r.asked <= Size(h, a)
      /\ r.value \in Contents
      /\ \A i \in 1..r.kept : h.mem[a + i] = Data(r.value)
  BY DEF Holds
<1>4. ASSUME NEW i \in 1..r.kept PROVE g.mem[a + i] = Data(r.value)
  <2>1. a + i \in (a + 1)..(a + Size(h, a))
    BY <1>2, <1>3
  <2>2. h.mem[a + i] = Data(r.value) /\ h.mem[a + i].tag # "header"
    BY <1>3, DataIs
  <2> QED BY <2>1, <2>2 DEF Keeps
<1>5. r.asked <= Size(g, a)
  BY <1>1, <1>3
<1> QED BY <1>3, <1>4, <1>5 DEF Holds

LEMMA HeldOn ==
  ASSUME NEW h, Good(h), NEW g, NEW S, Keeps(h, g, S), NEW table, HeldAs(h, S, table)
  PROVE  HeldAs(g, S, table)
<1>1. ASSUME NEW a \in S PROVE Holds(g, a, table[a + MetaSize])
  <2>1. Holds(h, a, table[a + MetaSize])
    BY <1>1 DEF HeldAs
  <2> QED BY <2>1, HoldsOn
<1> QED BY <1>1 DEF HeldAs

(* What has been handed out is held too.                                    *)
LEMMA HeldWith ==
  ASSUME NEW h, Good(h), NEW S, NEW others, HeldAs(h, S, others),
         \A a \in S : a \in Nat,
         NEW got, NEW n, Hands(h, S, got, n),
         NEW r, Holds(got.heap, got.p - MetaSize, r)
  PROVE  HeldAs(got.heap, Used(got.heap), With(others, got.p, r))
<1>1. PICK g, p, b : g = got.heap /\ p = got.p /\ b = got.p - MetaSize
  OBVIOUS
<1>2. /\ Good(g) /\ p \in Nat /\ Used(g) = S \cup {b} /\ b \notin S /\ Keeps(h, g, S)
  BY <1>1 DEF Hands
<1>3. HeldAs(g, S, others)
  BY <1>2, HeldOn
<1>4. PICK table : table = With(others, p, r)
  OBVIOUS
<1>5. p = b + MetaSize /\ \A a \in S : a + MetaSize # p
  BY <1>1, <1>2, Constants
<1>6. DOMAIN table = DOMAIN others \cup {p} /\ table[p] = r
      /\ \A q \in DOMAIN others : q # p => table[q] = others[q]
  BY <1>4 DEF With
<1>7. DOMAIN others = {a + MetaSize : a \in S}
  BY <1>3 DEF HeldAs
<1>8. DOMAIN table = {a + MetaSize : a \in S \cup {b}}
  BY <1>5, <1>6, <1>7
<1>9. ASSUME NEW a \in S \cup {b} PROVE Holds(g, a, table[a + MetaSize])
  <2>1. CASE a = b
    BY <1>1, <1>5, <1>6, <2>1
  <2>2. CASE a \in S
    <3>1. a + MetaSize \in DOMAIN others /\ a + MetaSize # p
      BY <1>5, <1>7, <2>2
    <3>2. table[a + MetaSize] = others[a + MetaSize]
      BY <1>6, <3>1
    <3> QED BY <1>3, <2>2, <3>2 DEF HeldAs
  <2> QED BY <1>9, <2>1, <2>2
<1> QED BY <1>1, <1>2, <1>4, <1>8, <1>9 DEF HeldAs

LEMMA HeldWithout ==
  ASSUME NEW h, Good(h), HeldAs(h, Used(h), live), NEW old, old \in Used(h), NEW p, p = old + MetaSize
  PROVE  HeldAs(h, Used(h) \ {old}, Without(p))
<1>1. \A a \in Used(h) : a \in Nat
  BY ExtentIn DEF Used
<1>2. \A a \in Used(h) \ {old} : a + MetaSize # p
  BY <1>1, Constants
<1>3. DOMAIN live = {a + MetaSize : a \in Used(h)}
  BY DEF HeldAs
<1>4. DOMAIN Without(p) = DOMAIN live \ {p} /\ \A q \in DOMAIN live \ {p} : Without(p)[q] = live[q]
  BY DEF Without
<1>5. DOMAIN Without(p) = {a + MetaSize : a \in Used(h) \ {old}}
  BY <1>2, <1>3, <1>4
<1>6. ASSUME NEW a \in Used(h) \ {old} PROVE Holds(h, a, Without(p)[a + MetaSize])
  <2>1. a + MetaSize \in DOMAIN live \ {p}
    BY <1>2, <1>3
  <2> QED BY <1>4, <2>1 DEF HeldAs
<1> QED BY <1>5, <1>6 DEF HeldAs

(* NULL is no region.                                                       *)
LEMMA HeldWithoutNull ==
  ASSUME NEW h, Good(h), HeldAs(h, Used(h), live)
  PROVE  HeldAs(h, Used(h), Without(NULL))
<1>1. \A a \in Used(h) : a \in Nat /\ a + MetaSize # NULL
  BY ExtentIn, Constants DEF Used
<1>2. DOMAIN live = {a + MetaSize : a \in Used(h)}
  BY DEF HeldAs
<1>3. DOMAIN Without(NULL) = DOMAIN live \ {NULL} /\ \A q \in DOMAIN live \ {NULL} : Without(NULL)[q] = live[q]
  BY DEF Without
<1>4. DOMAIN Without(NULL) = {a + MetaSize : a \in Used(h)}
  BY <1>1, <1>2, <1>3
<1>5. ASSUME NEW a \in Used(h) PROVE Holds(h, a, Without(NULL)[a + MetaSize])
  <2>1. a + MetaSize \in DOMAIN live \ {NULL}
    BY <1>1, <1>2
  <2> QED BY <1>3, <2>1 DEF HeldAs
<1> QED BY <1>4, <1>5 DEF HeldAs

LEMMA HolderOf ==
  ASSUME NEW h, Good(h), NEW table, HeldAs(h, Used(h), table), NEW p \in DOMAIN table
  PROVE  /\ p - MetaSize \in Used(h) /\ p - MetaSize \in Nat /\ p = (p - MetaSize) + MetaSize /\ p # NULL
         /\ Holds(h, p - MetaSize, table[p])
<1>1. PICK a \in Used(h) : p = a + MetaSize
  BY DEF HeldAs
<1>2. a \in Nat /\ a > 0
  BY <1>1, ExtentIn DEF Used
<1>3. p - MetaSize = a /\ p # NULL
  BY <1>1, <1>2, Constants
<1> QED BY <1>1, <1>2, <1>3 DEF HeldAs

LEMMA InitHeld == Init => HInv
<1>1. SUFFICES ASSUME Init PROVE Held
  BY DEF HInv
<1>2. PICK h : h = Heap
  OBVIOUS
<1>3. /\ h.mem = [c \in Cells |-> Unmapped] /\ h.brk = 1 /\ h.head = NULL /\ h.firsthead = NULL
      /\ h.wilderness = NULL /\ h.mmhead = NULL /\ IsHeap(h) /\ Counters(h)
  BY <1>1, <1>2 DEF Init, IsHeap, Counters
<1>4. Typed(h)
  <2>1. h.mem \in [Cells -> Cell]
    BY <1>3 DEF Cell
  <2>2. h.brk \in 1..(HeapMax + 1) /\ NULL \in Ptr
    BY <1>3, Constants DEF Ptr
  <2> QED BY <1>3, <2>1, <2>2 DEF Typed
<1>5. Chain(h, {})
  BY <1>3 DEF Chain
<1>6. BlocksOf(h) = {}
  BY <1>4, <1>5, BlocksOfChain
<1>7. \A a \in MapCells : h.mem[a] = Unmapped
  BY <1>3, MapCellsAre
<1>8. MapsOK(h) /\ Maps(h) = {}
  BY <1>7, MapsAre DEF MapsOK
<1>9. Good(h)
  BY <1>3, <1>4, <1>5, <1>6, <1>8 DEF Good, Wild
<1>10. Used(h) = {}
  BY <1>6, <1>8 DEF Used
<1>11. DOMAIN live = {}
  BY <1>1 DEF Init
<1>12. HeldAs(h, Used(h), live)
  BY <1>10, <1>11 DEF HeldAs
<1>13. Counted(h)
  <2>1. FreeOf(h) = {} /\ AllOf(h) = {} /\ Bytes(h, {}) = {}
    BY <1>6, <1>8 DEF FreeOf, AllOf, Bytes
  <2>2. Cardinality({}) = 0
    BY FS_EmptySet
  <2>3. /\ h.num_free_blocks = 0 /\ h.num_free_bytes = 0 /\ h.num_allocated_blocks = 0
        /\ h.num_allocated_bytes = 0 /\ h.num_meta_data_bytes = 0
    BY <1>1, <1>2 DEF Init
  <2> QED BY <2>1, <2>2, <2>3 DEF Counted
<1> QED BY <1>2, <1>9, <1>12, <1>13 DEF Held

LEMMA SaneFine == Sane <=> Fine(Heap)
BY DEF Sane, Alive, Fine

LEMMA SaneFineNext == Sane' <=> Fine(Heap')
BY DEF Sane, Alive, Fine

LEMMA UsedNat ==
  ASSUME NEW h, Good(h)
  PROVE  \A a \in Used(h) : a \in Nat
BY ExtentIn DEF Used

(* What has been asked is held; nothing is known of what is in it.          *)
LEMMA NewHolds ==
  ASSUME NEW h, NEW S, NEW got, NEW n \in Nat, Hands(h, S, got, n), NEW v \in Contents
  PROVE  Holds(got.heap, got.p - MetaSize, Region(n, 0, v))
<1>1. PICK b, g : b = got.p - MetaSize /\ g = got.heap
  OBVIOUS
<1>2. Good(g) /\ b \in Used(g) /\ Size(g, b) >= n
  BY <1>1 DEF Hands
<1>3. Size(g, b) \in Nat
  BY <1>2, ExtentIn DEF Used
<1>4. PICK r : r = Region(n, 0, v)
  OBVIOUS
<1>5. r.asked = n /\ r.kept = 0 /\ r.value = v
  BY <1>4 DEF Region
<1>6. Holds(g, b, r)
  BY <1>2, <1>3, <1>5 DEF Holds
<1> QED BY <1>1, <1>4, <1>6

LEMMA MallocHeld == ASSUME Held, Malloc, Sane' PROVE Held'
<1>1. PICK size \in Sizes, granted \in BOOLEAN :
        Return(smalloc(Heap, size, granted), live, Region(size, 0, "zero"))
  BY DEF Malloc
<1>2. PICK got, r : got = smalloc(Heap, size, granted) /\ r = Region(size, 0, "zero")
  OBVIOUS
<1>3. Heap' = got.heap /\ live' = IF got.p = NULL THEN live ELSE With(live, got.p, r)
  BY <1>1, <1>2 DEF Return
<1>4. Good(Heap) /\ Counted(Heap) /\ HeldAs(Heap, Used(Heap), live) /\ size \in Nat /\ Fine(got.heap)
  BY <1>3, BoundAssumption, SaneFineNext DEF Held
<1>5. CASE got.p = NULL
  <2>1. got.heap = Heap
    BY <1>2, <1>4, <1>5, SmallocGood
  <2>2. Heap' = Heap /\ live' = live
    BY <1>3, <1>5, <2>1
  <2> QED BY <1>4, <2>2 DEF Held
<1>6. CASE got.p # NULL
  <2>1. Hands(Heap, Used(Heap), got, size)
    BY <1>2, <1>4, <1>6, SmallocGood
  <2>2. Holds(got.heap, got.p - MetaSize, r)
    BY <1>2, <1>4, <2>1, NewHolds DEF Contents
  <2>3. HeldAs(got.heap, Used(got.heap), With(live, got.p, r))
    BY <1>4, <2>1, <2>2, HeldWith, UsedNat
  <2>4. Good(got.heap)
    BY <2>1 DEF Hands
  <2>5. Counted(got.heap)
    BY <1>4, <2>1, HandsCounted
  <2> QED BY <1>3, <1>6, <2>3, <2>4, <2>5 DEF Held
<1> QED BY <1>5, <1>6

LEMMA CallocHeld == ASSUME CallsFit, Held, Calloc, Sane' PROVE Held'
<1>1. PICK num \in Nums, size \in Sizes, granted \in BOOLEAN :
        Return(scalloc(Heap, num, size, granted), live, Region(num * size, num * size, "zero"))
  BY DEF Calloc
<1>2. PICK n, got, r : /\ n = num * size /\ got = scalloc(Heap, num, size, granted)
                       /\ r = Region(n, n, "zero")
  OBVIOUS
<1>3. Heap' = got.heap /\ live' = IF got.p = NULL THEN live ELSE With(live, got.p, r)
  BY <1>1, <1>2 DEF Return
<1>4. Good(Heap) /\ Counted(Heap) /\ HeldAs(Heap, Used(Heap), live) /\ Fine(got.heap)
  BY <1>3, SaneFineNext DEF Held
<1>5. num \in Nat /\ size \in Nat /\ num * size < WordMod
  BY BoundAssumption DEF CallsFit
<1>6. n \in Nat
  BY <1>2, <1>5
<1>7. CASE got.p = NULL
  <2>1. got.heap = Heap
    BY <1>2, <1>4, <1>5, <1>7, ScallocGood
  <2>2. Heap' = Heap /\ live' = live
    BY <1>3, <1>7, <2>1
  <2> QED BY <1>4, <2>2 DEF Held
<1>8. CASE got.p # NULL
  <2>1. Hands(Heap, Used(Heap), got, num * size)
    BY <1>2, <1>4, <1>5, <1>8, ScallocGood
  <2>2. \A i \in 0..(num * size - 1) : got.heap.mem[got.p + i] = Data("zero")
    BY <1>2, <1>4, <1>5, <1>8, ScallocGood
  <2>3. Hands(Heap, Used(Heap), got, n) /\ \A i \in 0..(n - 1) : got.heap.mem[got.p + i] = Data("zero")
    BY <1>2, <2>1, <2>2
  <2>4. PICK b, g : b = got.p - MetaSize /\ g = got.heap
    OBVIOUS
  <2>5. Good(g) /\ b \in Used(g) /\ Size(g, b) >= n /\ got.p \in Nat
    BY <2>3, <2>4 DEF Hands
  <2>6. Size(g, b) \in Nat
    BY <2>5, ExtentIn DEF Used
  <2>7. r.asked = n /\ r.kept = n /\ r.value = "zero"
    BY <1>2 DEF Region
  <2>8. ASSUME NEW i \in 1..n PROVE g.mem[b + i] = Data("zero")
    <3>1. i - 1 \in 0..(n - 1) /\ b + i = got.p + (i - 1)
      BY <1>6, <2>4, <2>5, <2>8, Constants
    <3> QED BY <2>3, <2>4, <3>1
  <2>9. Holds(g, b, r)
    BY <1>6, <2>5, <2>6, <2>7, <2>8 DEF Holds, Contents
  <2>10. HeldAs(got.heap, Used(got.heap), With(live, got.p, r))
    BY <1>4, <2>3, <2>4, <2>9, HeldWith, UsedNat
  <2>11. Counted(got.heap)
    BY <1>4, <2>3, HandsCounted
  <2> QED BY <1>3, <1>8, <2>4, <2>5, <2>10, <2>11 DEF Held
<1> QED BY <1>7, <1>8

(* srealloc for a region of the client                                      *)
LEMMA ReallocRegionHeld ==
  ASSUME Held, NEW p \in DOMAIN live, NEW size \in Nat, NEW granted \in BOOLEAN,
         NEW got, got = srealloc(Heap, p, size, granted), Fine(got.heap),
         Heap' = got.heap,
         live' = IF got.p = NULL THEN live ELSE With(Without(p), got.p, Kept(p, size))
  PROVE  Held'
<1>1. Good(Heap) /\ Counted(Heap) /\ HeldAs(Heap, Used(Heap), live)
  BY DEF Held
<1>2. PICK old : old = p - MetaSize
  OBVIOUS
<1>3. /\ old \in Used(Heap) /\ old \in Nat /\ p = old + MetaSize /\ p # NULL
      /\ Holds(Heap, old, live[p])
  BY <1>1, <1>2, HolderOf
<1>4. IF got.p = NULL THEN got.heap = Heap ELSE TakenOver(Heap, got, old, size)
  BY <1>1, <1>3, SreallocGood
<1>5. CASE got.p = NULL
  <2>1. Heap' = Heap /\ live' = live
    BY <1>4, <1>5
  <2> QED BY <1>1, <2>1 DEF Held
<1>6. CASE got.p # NULL
  <2>1. PICK r0, r, b, g, S : /\ r0 = live[p] /\ r = Kept(p, size) /\ b = got.p - MetaSize /\ g = got.heap
                              /\ S = Used(Heap) \ {old}
    OBVIOUS
  <2>2. /\ Hands(Heap, S, got, size)
        /\ \A n \in Nat : n <= Size(Heap, old) /\ n <= size => Carries(Heap, old, g, b, n)
    BY <1>4, <1>6, <2>1 DEF TakenOver
  <2>3. /\ r0.asked \in Nat /\ r0.kept \in Nat /\ r0.kept <= r0.asked /\ r0.asked <= Size(Heap, old)
        /\ r0.value \in Contents /\ \A i \in 1..r0.kept : Heap.mem[old + i] = Data(r0.value)
    BY <1>3, <2>1 DEF Holds
  <2>4. PICK n : n = Min({r0.kept, size})
    OBVIOUS
  <2>5. n \in Nat /\ n <= r0.kept /\ n <= size
    <3>1. PICK M : M = {r0.kept, size}
      OBVIOUS
    <3>2. M \subseteq Nat /\ M # {}
      BY <2>3, <3>1
    <3>3. n \in M /\ \A x \in M : n <= x
      BY <2>4, <3>1, <3>2, Least
    <3> QED BY <3>1, <3>2, <3>3
  <2>6. r.asked = size /\ r.kept = n /\ r.value = r0.value
    BY <1>3, <2>1, <2>4 DEF Kept, Region
  <2>7. Size(Heap, old) \in Nat
    BY <1>1, <1>3, ExtentIn DEF Used
  <2>8. Carries(Heap, old, g, b, n)
    BY <2>2, <2>3, <2>5, <2>7
  <2>9. ASSUME NEW i \in 1..n PROVE g.mem[b + i] = Data(r0.value)
    <3>1. Heap.mem[old + i] = Data(r0.value)
      BY <2>3, <2>5, <2>9
    <3>2. Heap.mem[old + i].tag # "header"
      BY <3>1, DataIs
    <3> QED BY <2>8, <2>9, <3>1, <3>2 DEF Carries
  <2>10. Good(g) /\ b \in Used(g) /\ Size(g, b) >= size
    BY <2>1, <2>2 DEF Hands
  <2>11. Size(g, b) \in Nat
    BY <2>10, ExtentIn DEF Used
  <2>12. Holds(g, b, r)
    BY <2>3, <2>5, <2>6, <2>9, <2>10, <2>11 DEF Holds
  <2>13. HeldAs(Heap, S, Without(p))
    BY <1>1, <1>3, <2>1, HeldWithout
  <2>14. \A a \in S : a \in Nat
    BY <1>1, <2>1, UsedNat
  <2>15. HeldAs(got.heap, Used(got.heap), With(Without(p), got.p, r))
    BY <1>1, <2>1, <2>2, <2>12, <2>13, <2>14, HeldWith
  <2>16. Counted(got.heap)
    BY <1>1, <2>2, HandsCounted
  <2> QED BY <1>6, <2>1, <2>10, <2>15, <2>16 DEF Held
<1> QED BY <1>5, <1>6

LEMMA ReallocHeld == ASSUME Held, Realloc, Sane' PROVE Held'
<1>1. PICK p \in DOMAIN live \cup {NULL}, size \in Sizes, granted \in BOOLEAN :
        Return(srealloc(Heap, p, size, granted), Without(p), Kept(p, size))
  BY DEF Realloc
<1>2. PICK got : got = srealloc(Heap, p, size, granted)
  OBVIOUS
<1>3. Heap' = got.heap /\ live' = IF got.p = NULL THEN live ELSE With(Without(p), got.p, Kept(p, size))
  BY <1>1, <1>2 DEF Return
<1>4. Good(Heap) /\ Counted(Heap) /\ HeldAs(Heap, Used(Heap), live) /\ size \in Nat /\ Fine(got.heap)
  BY <1>3, BoundAssumption, SaneFineNext DEF Held
<1>5. CASE p \in DOMAIN live
  BY <1>2, <1>3, <1>4, <1>5, ReallocRegionHeld
<1>6. CASE p = NULL
  <2>1. got = smalloc(Heap, size, granted)
    BY <1>2, <1>6 DEF srealloc
  <2>2. PICK r : r = Region(size, 0, "zero")
    OBVIOUS
  <2>3. Kept(p, size) = r
    BY <1>6, <2>2 DEF Kept
  <2>4. CASE got.p = NULL
    <3>1. got.heap = Heap
      BY <1>4, <2>1, <2>4, SmallocGood
    <3>2. Heap' = Heap /\ live' = live
      BY <1>3, <2>4, <3>1
    <3> QED BY <1>4, <3>2 DEF Held
  <2>5. CASE got.p # NULL
    <3>1. Hands(Heap, Used(Heap), got, size)
      BY <1>4, <2>1, <2>5, SmallocGood
    <3>2. Holds(got.heap, got.p - MetaSize, r)
      BY <1>4, <2>2, <3>1, NewHolds DEF Contents
    <3>3. HeldAs(Heap, Used(Heap), Without(NULL))
      BY <1>4, HeldWithoutNull
    <3>4. HeldAs(got.heap, Used(got.heap), With(Without(NULL), got.p, r))
      BY <1>4, <3>1, <3>2, <3>3, HeldWith, UsedNat
    <3>5. Good(got.heap)
      BY <3>1 DEF Hands
    <3>6. Counted(got.heap)
      BY <1>4, <3>1, HandsCounted
    <3> QED BY <1>3, <1>6, <2>3, <2>5, <3>4, <3>5, <3>6 DEF Held
  <2> QED BY <2>4, <2>5
<1> QED BY <1>5, <1>6

LEMMA FreeHeld == ASSUME Held, Free, Sane' PROVE Held'
<1>1. PICK p \in DOMAIN live \cup {NULL} : Heap' = sfree(Heap, p) /\ live' = Without(p)
  BY DEF Free
<1>2. PICK g : g = sfree(Heap, p)
  OBVIOUS
<1>3. Good(Heap) /\ Counted(Heap) /\ HeldAs(Heap, Used(Heap), live) /\ Fine(g)
  BY <1>1, <1>2, SaneFineNext DEF Held
<1>4. CASE p = NULL
  <2>1. g = Heap
    BY <1>2, <1>4 DEF sfree
  <2>2. HeldAs(Heap, Used(Heap), Without(NULL))
    BY <1>3, HeldWithoutNull
  <2>3. Heap' = Heap /\ live' = Without(NULL)
    BY <1>1, <1>2, <1>4, <2>1
  <2> QED BY <1>3, <2>2, <2>3 DEF Held
<1>5. CASE p \in DOMAIN live
  <2>1. PICK old : old = p - MetaSize
    OBVIOUS
  <2>2. old \in Used(Heap) /\ old \in Nat /\ p = old + MetaSize /\ p # NULL
    BY <1>3, <1>5, <2>1, HolderOf
  <2>3. Frees(Heap, g, old)
    BY <1>2, <1>3, <2>1, <2>2, SfreeGood
  <2>4. Good(g) /\ Used(g) = Used(Heap) \ {old} /\ Keeps(Heap, g, Used(Heap) \ {old})
    BY <2>3 DEF Frees
  <2>5. HeldAs(Heap, Used(Heap) \ {old}, Without(p))
    BY <1>3, <2>2, HeldWithout
  <2>6. HeldAs(g, Used(g), Without(p))
    BY <1>3, <2>4, <2>5, HeldOn
  <2>7. Heap' = g /\ live' = Without(p)
    BY <1>1, <1>2
  <2>8. Counted(g)
    BY <1>3, <2>4, CountedOn DEF Keeps
  <2> QED BY <2>4, <2>6, <2>7, <2>8 DEF Held
<1> QED BY <1>4, <1>5

LEMMA WriteHeld == ASSUME Held, Write, Sane' PROVE Held'
<1>1. PICK p \in DOMAIN live : /\ Heap' = Fill(Heap, p, live[p].asked, "written")
                               /\ live' = [live EXCEPT ![p] = Region(@.asked, @.asked, "written")]
  BY DEF Write
<1>2. Good(Heap) /\ Counted(Heap) /\ HeldAs(Heap, Used(Heap), live)
  BY DEF Held
<1>3. PICK g, n, old, v, r : /\ g = Fill(Heap, p, live[p].asked, "written") /\ n = live[p].asked
                             /\ old = p - MetaSize /\ v = "written" /\ r = Region(n, n, v)
  OBVIOUS
<1>4. old \in Used(Heap) /\ old \in Nat /\ p = old + MetaSize /\ Holds(Heap, old, live[p])
  BY <1>2, <1>3, HolderOf
<1>5. n \in Nat /\ n <= Size(Heap, old) /\ v \in Contents /\ old \in BlocksOf(Heap) \cup Maps(Heap)
  BY <1>3, <1>4 DEF Holds, Contents, Used
<1>6. g = Fill(Heap, old + MetaSize, n, v)
  BY <1>3, <1>4
<1>7. Within(Heap, g, old)
  BY <1>2, <1>5, <1>6, FillGood
<1>8. \A i \in 0..(n - 1) : g.mem[old + MetaSize + i] = Data(v)
  BY <1>2, <1>5, <1>6, FillGood
<1>9. Good(g) /\ Used(g) = Used(Heap) /\ Keeps(Heap, g, Used(Heap) \ {old})
  BY <1>2, <1>5, <1>7, WithinGood
<1>10. \A a \in BlocksOf(Heap) \cup Maps(Heap) : Size(g, a) = Size(Heap, a)
  BY <1>2, <1>5, <1>7, WithinGood
<1>11. r.asked = n /\ r.kept = n /\ r.value = v
  BY <1>3 DEF Region
<1>12. ASSUME NEW i \in 1..n PROVE g.mem[old + i] = Data(v)
  <2>1. i - 1 \in 0..(n - 1) /\ old + i = old + MetaSize + (i - 1)
    BY <1>4, <1>5, <1>12, Constants
  <2> QED BY <1>8, <2>1
<1>13. n <= Size(g, old)
  BY <1>5, <1>10
<1>14. Holds(g, old, r)
  BY <1>5, <1>11, <1>12, <1>13 DEF Holds
<1>15. DOMAIN live' = DOMAIN live /\ live'[p] = r /\ \A q \in DOMAIN live : q # p => live'[q] = live[q]
  BY <1>1, <1>3
<1>16. DOMAIN live = {a + MetaSize : a \in Used(Heap)}
  BY <1>2 DEF HeldAs
<1>17. ASSUME NEW a \in Used(g) PROVE Holds(g, a, live'[a + MetaSize])
  <2>1. CASE a = old
    BY <1>4, <1>14, <1>15, <2>1
  <2>2. CASE a # old
    <3>1. a \in Used(Heap) \ {old} /\ a \in Nat
      BY <1>2, <1>9, <1>17, <2>2, UsedNat
    <3>2. a + MetaSize \in DOMAIN live /\ a + MetaSize # p
      BY <1>4, <1>16, <2>2, <3>1, Constants
    <3>3. live'[a + MetaSize] = live[a + MetaSize]
      BY <1>15, <3>2
    <3>4. Holds(Heap, a, live[a + MetaSize])
      BY <1>2, <3>1 DEF HeldAs
    <3> QED BY <1>2, <1>9, <3>1, <3>3, <3>4, HoldsOn
  <2> QED BY <2>1, <2>2
<1>18. HeldAs(g, Used(g), live')
  BY <1>9, <1>15, <1>16, <1>17 DEF HeldAs
<1>19. Heap' = g
  BY <1>1, <1>3
<1>20. Counted(g)
  BY <1>2, <1>9, CountedOn DEF Keeps
<1> QED BY <1>9, <1>18, <1>19, <1>20 DEF Held

LEMMA StepHeld == CallsFit /\ HInv /\ [Next]_vars => HInv'
<1>1. SUFFICES ASSUME CallsFit, HInv, [Next]_vars, Sane' PROVE Held'
  BY DEF HInv
<1>2. CASE UNCHANGED vars \/ Ended
  <2>1. Heap' = Heap /\ live' = live
    BY <1>2 DEF vars, Ended
  <2>2. Held
    BY <1>1, <2>1 DEF HInv, Sane, Alive
  <2> QED BY <2>1, <2>2 DEF Held
<1>3. CASE Malloc
  BY <1>1, <1>3, MallocHeld DEF HInv, Malloc
<1>4. CASE Calloc
  BY <1>1, <1>4, CallocHeld DEF HInv, Calloc
<1>5. CASE Realloc
  BY <1>1, <1>5, ReallocHeld DEF HInv, Realloc
<1>6. CASE Free
  BY <1>1, <1>6, FreeHeld DEF HInv, Free
<1>7. CASE Write
  BY <1>1, <1>7, WriteHeld DEF HInv, Write
<1> QED BY <1>1, <1>2, <1>3, <1>4, <1>5, <1>6, <1>7 DEF Next

LEMMA AlwaysHeld == CallsFit /\ Spec => []HInv
<1>1. Init => HInv
  BY InitHeld
<1>2. CASE CallsFit
  <2>1. HInv /\ [Next]_vars => HInv'
    BY <1>2, StepHeld
  <2> QED BY <1>1, <2>1, PTL DEF Spec
<1>3. CASE ~CallsFit
  BY <1>3, PTL
<1> QED BY <1>2, <1>3

(* A heap in order is tiled by its blocks.                                  *)
LEMMA HeldTiled == HInv => Tiled
<1>1. ASSUME HInv PROVE Tiled
  <2>1. SUFFICES ASSUME Sane, Heap.firsthead # NULL
                 PROVE  /\ \A a \in Blocks : a < Heap.brk /\ Valid(Heap, a)
                        /\ Heap.wilderness = Max(Blocks)
                        /\ After(Heap, Heap.wilderness) = Heap.brk
    BY DEF Tiled
  <2>2. Good(Heap)
    BY <1>1, <2>1 DEF HInv, Held
  <2>3. \A a \in Blocks : a < Heap.brk /\ Valid(Heap, a) /\ a \in Nat
    BY <2>2, BlocksIn DEF Blocks
  <2>4. Heap.wilderness \in Blocks /\ After(Heap, Heap.wilderness) = Heap.brk
    BY <2>1, <2>2, GoodEnds DEF Blocks
  <2>5. PICK n, w : n = Heap.brk /\ w = Heap.wilderness
    OBVIOUS
  <2>6. n \in Nat /\ w \in Nat /\ \A a \in Blocks : After(Heap, a) > a /\ After(Heap, a) \in Nat
    BY <2>2, <2>3, <2>4, <2>5, BlocksIn DEF Blocks
  <2>7. \A a \in Blocks : a <= w
    <3>1. SUFFICES ASSUME NEW a \in Blocks, w < a PROVE FALSE
      BY <2>3, <2>6
    <3>2. After(Heap, w) <= a
      BY <2>2, <2>4, <2>5, <3>1 DEF Good, Chain, Blocks
    <3> QED BY <2>3, <2>4, <2>5, <2>6, <3>1, <3>2
  <2>8. Blocks \subseteq 0..n /\ Blocks # {}
    BY <2>3, <2>4, <2>5, <2>6
  <2>9. Max(Blocks) \in Blocks /\ \A x \in Blocks : x <= Max(Blocks)
    BY <2>6, <2>8, Greatest
  <2>10. Max(Blocks) = w
    <3>1. PICK m : m = Max(Blocks)
      OBVIOUS
    <3>2. m \in Nat /\ m <= w /\ w <= m
      BY <2>3, <2>4, <2>5, <2>7, <2>9, <3>1
    <3> QED BY <2>6, <3>1, <3>2
  <2> QED BY <2>3, <2>4, <2>5, <2>10
<1> QED BY <1>1

(* The heap is tiled: each block lies behind the one before it, from        *)
(* firsthead to the break, whatever split(), smerge(), Enlarged() and       *)
(* srealloc() do, and the wilderness is the last one: for clients of which  *)
(* no product of scalloc()'s arguments wraps.                               *)
THEOREM HeapTiled == CallsFit /\ Spec => []Tiled
BY HeldTiled, AlwaysHeld, PTL

(* A block that sfree() or a split has freed is not held by the client, a   *)
(* block that it holds is never free: what is in use is what smalloc(),     *)
(* scalloc() and srealloc() have handed out, with room for what was asked,  *)
(* as long as num * size never wraps in scalloc().                          *)
THEOREM UsedIsLive == CallsFit /\ Spec => []InUseIsLive
<1>1. ASSUME HInv PROVE InUseIsLive
  <2>1. SUFFICES ASSUME Sane
                 PROVE  /\ {a + MetaSize : a \in {b \in Blocks \cup Mappings : ~IsFree(Heap, b)}} = DOMAIN live
                        /\ \A p \in DOMAIN live : live[p].asked <= Size(Heap, p - MetaSize)
    BY <1>1, HeldTiled DEF InUseIsLive
  <2>2. Good(Heap) /\ HeldAs(Heap, Used(Heap), live)
    BY <1>1, <2>1 DEF HInv, Held
  <2>3. {b \in Blocks \cup Mappings : ~IsFree(Heap, b)} = Used(Heap)
    BY DEF Used, Blocks, Mappings, Maps
  <2>4. {a + MetaSize : a \in Used(Heap)} = DOMAIN live
    BY <2>2 DEF HeldAs
  <2>5. ASSUME NEW p \in DOMAIN live PROVE live[p].asked <= Size(Heap, p - MetaSize)
    BY <2>2, <2>5, HolderOf DEF Holds
  <2> QED BY <2>3, <2>4, <2>5
<1> QED BY <1>1, AlwaysHeld, PTL

(* What the client has written, or scalloc() cleared, stays: no split,      *)
(* merge or mapping writes into a region, and srealloc() moves its contents *)
(* along, up to the smaller of the two sizes, as long as no product wraps   *)
(* in scalloc(), which would clear and hand out fewer bytes than asked.     *)
THEOREM ContentsStay == CallsFit /\ Spec => []Intact
<1>1. ASSUME HInv PROVE Intact
  <2>1. SUFFICES ASSUME Sane, NEW p \in DOMAIN live, NEW i \in 0..(live[p].kept - 1)
                 PROVE  Heap.mem[p + i] = Data(live[p].value)
    BY DEF Intact
  <2>2. Good(Heap) /\ HeldAs(Heap, Used(Heap), live)
    BY <1>1, <2>1 DEF HInv, Held
  <2>3. PICK a, r : a = p - MetaSize /\ r = live[p]
    OBVIOUS
  <2>4. a \in Nat /\ p = a + MetaSize /\ Holds(Heap, a, r)
    BY <2>2, <2>3, HolderOf
  <2>5. r.kept \in Nat /\ \A k \in 1..r.kept : Heap.mem[a + k] = Data(r.value)
    BY <2>4 DEF Holds
  <2>6. i + 1 \in 1..r.kept /\ p + i = a + (i + 1)
    BY <2>1, <2>3, <2>4, <2>5, Constants
  <2> QED BY <2>3, <2>5, <2>6
<1> QED BY <1>1, AlwaysHeld, PTL

(* The counters that the library reports are what a walk through the heap   *)
(* would count: each path through split(), smerge(), Enlarged(), mmap() and *)
(* srealloc() changes them with the blocks, on free and used ones alike (no *)
(* product wraps, so that the client writes into its own blocks only).      *)
THEOREM CountersStayTrue == CallsFit /\ Spec => []CountersAgree
<1>1. ASSUME HInv PROVE CountersAgree
  <2>1. PICK free, all : /\ free = {a \in Blocks : IsFree(Heap, a)}
                         /\ all = Blocks \cup Mappings
    OBVIOUS
  <2>2. SUFFICES ASSUME Sane
                 PROVE  /\ Heap.num_free_blocks = Cardinality(free)
                        /\ Heap.num_free_bytes = Cardinality(Bytes(Heap, free))
                        /\ Heap.num_allocated_blocks = Cardinality(all)
                        /\ Heap.num_allocated_bytes = Cardinality(Bytes(Heap, all))
                        /\ Heap.num_meta_data_bytes = Cardinality(all) * MetaSize
    BY <2>1, Zenon DEF CountersAgree
  <2>3. free = FreeOf(Heap) /\ all = AllOf(Heap)
    BY <2>1 DEF FreeOf, AllOf, Blocks, Mappings, Maps
  <2>4. Counted(Heap) /\ Counters(Heap)
    BY <1>1, <2>2 DEF HInv, Held, Good, Typed
  <2>5. Heap.num_meta_data_bytes = Cardinality(all) /\ Cardinality(all) \in Int
    BY <2>3, <2>4 DEF Counted, Counters
  <2> QED BY <2>3, <2>4, <2>5, Constants DEF Counted
<1> QED BY <1>1, AlwaysHeld, PTL

(* No two regions of the client share a cell: what smalloc(), scalloc() and *)
(* srealloc() hand out, from a split block, the wilderness or a mapping,    *)
(* lies apart from all that is held already.                                *)
RegionsApart ==
  Sane => \A p, q \in DOMAIN live : p # q =>
            \A i \in 0..(live[p].asked - 1) : \A j \in 0..(live[q].asked - 1) : p + i # q + j

(* Regions handed out by the allocator never overlap, as long as no product *)
(* of scalloc()'s arguments wraps: one that does makes a block smaller than *)
(* the region the client takes it for.                                      *)
THEOREM RegionsLieApart == CallsFit /\ Spec => []RegionsApart
<1>1. ASSUME HInv PROVE RegionsApart
  <2>1. SUFFICES ASSUME Sane, NEW p \in DOMAIN live, NEW q \in DOMAIN live, p # q,
                        NEW i \in 0..(live[p].asked - 1), NEW j \in 0..(live[q].asked - 1)
                 PROVE  p + i # q + j
    BY DEF RegionsApart
  <2>2. Good(Heap) /\ HeldAs(Heap, Used(Heap), live)
    BY <1>1, <2>1 DEF HInv, Held
  <2>3. PICK a, b, r, t : a = p - MetaSize /\ b = q - MetaSize /\ r = live[p] /\ t = live[q]
    OBVIOUS
  <2>4. a \in Used(Heap) /\ a \in Nat /\ p = a + MetaSize /\ Holds(Heap, a, r)
    BY <2>2, <2>3, HolderOf
  <2>5. b \in Used(Heap) /\ b \in Nat /\ q = b + MetaSize /\ Holds(Heap, b, t)
    BY <2>2, <2>3, HolderOf
  <2>6. a \in BlocksOf(Heap) \cup Maps(Heap) /\ b \in BlocksOf(Heap) \cup Maps(Heap) /\ a # b
    BY <2>1, <2>4, <2>5 DEF Used
  <2>7. Size(Heap, a) \in Nat /\ Size(Heap, b) \in Nat
    BY <2>2, <2>6, ExtentIn
  <2>8. /\ r.asked \in Nat /\ r.asked <= Size(Heap, a)
        /\ t.asked \in Nat /\ t.asked <= Size(Heap, b)
    BY <2>4, <2>5 DEF Holds
  <2>9. p + i \in Extent(Heap, a)
    BY <2>1, <2>3, <2>4, <2>7, <2>8, Constants DEF Extent
  <2>10. q + j \in Extent(Heap, b)
    BY <2>1, <2>3, <2>5, <2>7, <2>8, Constants DEF Extent
  <2> QED BY <2>2, <2>6, <2>9, <2>10, Apart
<1> QED BY <1>1, AlwaysHeld, PTL
=============================================================================
