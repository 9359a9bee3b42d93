--------------------------- MODULE FirstFitProofs ---------------------------
(***************************************************************************)
(* Proofs about malloc_2: for every header size, size limit, word size and *)
(* set of arguments the blocks stay apart, a block is in use exactly when  *)
(* the client has it, and, as long as no product in scalloc wraps, every   *)
(* pointer is good for what was asked and the allocation contract is kept. *)
(* The five statistics are always what a walk over the list would count.   *)
(* Each function of malloc_2.cpp gets one lemma that says what it does to  *)
(* a heap and one that says what it does to the contents of its blocks;    *)
(* the invariant and the contract's steps then follow action by action.    *)
(***************************************************************************)
EXTENDS FirstFit, TLAPS, SequenceTheorems, FiniteSetTheorems, WellFoundedInduction

Good(h) == h \in MemoryList /\ InOrder(h)

(* No block moves or changes its size. *)
Kept(h, g) ==
  /\ DOMAIN h.blocks \subseteq DOMAIN g.blocks
  /\ \A i \in DOMAIN h.blocks : /\ g.blocks[i].addr = h.blocks[i].addr
                                /\ g.blocks[i].size = h.blocks[i].size

(* What is known of the blocks of a heap. *)
LEMMA BlockTypes ==
  ASSUME NEW h \in MemoryList
  PROVE  /\ h.blocks \in Seq(MallocMetadata)
         /\ Len(h.blocks) \in Nat /\ DOMAIN h.blocks = 1..Len(h.blocks)
         /\ \A i \in DOMAIN h.blocks :
              /\ h.blocks[i] \in MallocMetadata
              /\ h.blocks[i].addr \in Nat /\ h.blocks[i].size \in Nat
              /\ h.blocks[i].size \in 1..SIZE_LIMIT /\ h.blocks[i].is_free \in BOOLEAN
              /\ Payload(h.blocks[i]) \in Nat /\ Payload(h.blocks[i]) # NULL
<1>1. h.blocks \in Seq(MallocMetadata)
  BY DEF MemoryList
<1>2. Len(h.blocks) \in Nat /\ DOMAIN h.blocks = 1..Len(h.blocks)
  BY <1>1, LenProperties
<1>3. ASSUME NEW i \in DOMAIN h.blocks PROVE h.blocks[i] \in MallocMetadata
  BY <1>1, <1>2, ElementOfSeq
<1> QED
  BY <1>1, <1>2, <1>3, MetaSizeAssumption, LimitAssumption
  DEF MallocMetadata, Payload, NULL

(* Different blocks have different payloads. *)
LEMMA PayloadInjective ==
  ASSUME NEW h, Good(h), NEW i \in DOMAIN h.blocks, NEW j \in DOMAIN h.blocks,
         Payload(h.blocks[i]) = Payload(h.blocks[j])
  PROVE  i = j
<1>1. h.blocks[i].addr \in Nat /\ h.blocks[j].addr \in Nat
      /\ h.blocks[i].size \in Nat /\ h.blocks[j].size \in Nat /\ i \in Nat /\ j \in Nat
  BY BlockTypes DEF Good
<1>2. ~(i < j) /\ ~(j < i)
  BY <1>1, MetaSizeAssumption DEF Good, InOrder, Payload
<1> QED BY <1>1, <1>2

LEMMA IndexOfPayload ==
  ASSUME NEW h, Good(h), NEW i \in DOMAIN h.blocks
  PROVE  IndexOf(h, Payload(h.blocks[i])) = i
<1> DEFINE P(k) == k \in DOMAIN h.blocks /\ Payload(h.blocks[k]) = Payload(h.blocks[i])
<1>1. IndexOf(h, Payload(h.blocks[i])) \in DOMAIN h.blocks
      /\ Payload(h.blocks[IndexOf(h, Payload(h.blocks[i]))]) = Payload(h.blocks[i])
  BY DEF IndexOf
<1> QED BY <1>1, PayloadInjective

(* The search along the list ends at a free block that is large enough. *)
LEMMA FirstFits ==
  ASSUME NEW h \in MemoryList, NEW size \in Nat, Fits(h, size) # {}
  PROVE  First(h, size) \in Fits(h, size)
<1>1. Fits(h, size) \subseteq Nat
  BY BlockTypes DEF Fits
<1>2. PICK i \in Fits(h, size) : \A j \in Fits(h, size) : ~(<<j, i>> \in OpToRel(<, Nat))
  BY <1>1, NatLessThanWellFounded, WFMin
<1>3. ASSUME NEW j \in Fits(h, size) PROVE i <= j
  <2>1. OpToRel(<, Nat) = {ss \in Nat \X Nat : ss[1] < ss[2]}
    BY DEF OpToRel
  <2>2. i \in Nat /\ j \in Nat /\ <<j, i>> \in Nat \X Nat
    BY <1>1
  <2>3. j < i => <<j, i>> \in {ss \in Nat \X Nat : ss[1] < ss[2]}
    BY <2>2
  <2>4. ~(j < i)
    BY <1>2, <2>1, <2>3
  <2> QED BY <2>2, <2>4
<1> QED BY <1>3 DEF First

-----------------------------------------------------------------------------
(* What the functions do to a heap                                         *)

(* A change of block i that leaves its place and size alone. *)
LEMMA Updated ==
  ASSUME NEW h, Good(h), NEW g \in MemoryList, NEW i \in DOMAIN h.blocks,
         NEW b \in MallocMetadata, b.addr = h.blocks[i].addr, b.size = h.blocks[i].size,
         g.blocks = [h.blocks EXCEPT ![i] = b], g.brk = h.brk
  PROVE  /\ Good(g) /\ Kept(h, g)
         /\ DOMAIN g.blocks = DOMAIN h.blocks
         /\ \A j \in DOMAIN h.blocks : j # i => g.blocks[j] = h.blocks[j]
         /\ g.blocks[i] = b
<1>1. DOMAIN g.blocks = DOMAIN h.blocks
  OBVIOUS
<1>2. g.blocks[i] = b /\ \A j \in DOMAIN h.blocks : j # i => g.blocks[j] = h.blocks[j]
  OBVIOUS
<1>3. Kept(h, g)
  BY <1>1, <1>2 DEF Kept
<1>4. InOrder(g)
  BY <1>1, <1>3 DEF InOrder, Kept, Payload, Good
<1> QED BY <1>1, <1>2, <1>3, <1>4 DEF Good

(* smalloc hands out p: a block that was not in use, is now, and is large  *)
(* enough.                                                                 *)
Gives(h, got, size) ==
  /\ got.p \in Nat /\ got.p # NULL
  /\ Good(got.heap) /\ Kept(h, got.heap)
  /\ got.p \notin InUse(h) /\ InUse(got.heap) = InUse(h) \cup {got.p}
  /\ Holds(got.heap, got.p, size)

LEMMA ReusedGives ==
  ASSUME NEW h, Good(h), NEW size \in Nat, NEW i \in Fits(h, size)
  PROVE  Gives(h, Reused(h, i), size)
<1> DEFINE got == Reused(h, i)
           b == [h.blocks[i] EXCEPT !.is_free = FALSE]
<1>0. /\ i \in DOMAIN h.blocks /\ h.blocks[i].is_free /\ h.blocks[i].size >= size
      /\ h \in MemoryList
  BY DEF Fits, Good
<1>1. h.blocks[i] \in MallocMetadata /\ h.blocks \in Seq(MallocMetadata) /\ i \in 1..Len(h.blocks)
  BY <1>0, BlockTypes
<1>2. /\ b \in MallocMetadata /\ b.addr = h.blocks[i].addr /\ b.size = h.blocks[i].size
      /\ ~b.is_free
  BY <1>1 DEF MallocMetadata
<1>3. got.heap.blocks = [h.blocks EXCEPT ![i] = b] /\ got.heap.brk = h.brk
  BY <1>0, <1>1 DEF Reused, MemoryList
<1>4. got.heap \in MemoryList
  <2>1. [h.blocks EXCEPT ![i] = b] \in Seq(MallocMetadata)
    BY <1>1, <1>2, ExceptSeq
  <2>2. h.blocks[i].size \in Nat
    BY <1>0, BlockTypes
  <2>3. got.heap = [blocks |-> [h.blocks EXCEPT ![i] = b], brk |-> h.brk,
                    num_free_blocks |-> h.num_free_blocks - 1,
                    num_free_bytes |-> h.num_free_bytes - h.blocks[i].size,
                    num_allocated_blocks |-> h.num_allocated_blocks,
                    num_allocated_bytes |-> h.num_allocated_bytes,
                    num_meta_data_bytes |-> h.num_meta_data_bytes]
    BY <1>0 DEF Reused, MemoryList
  <2> HIDE DEF got, b
  <2> QED BY <1>0, <2>1, <2>2, <2>3 DEF MemoryList
<1>5. /\ Good(got.heap) /\ Kept(h, got.heap) /\ DOMAIN got.heap.blocks = DOMAIN h.blocks
      /\ \A j \in DOMAIN h.blocks : j # i => got.heap.blocks[j] = h.blocks[j]
      /\ got.heap.blocks[i] = b
  <2> HIDE DEF got, b
  <2> QED BY <1>0, <1>2, <1>3, <1>4, Updated
<1>6. got.p = Payload(h.blocks[i]) /\ got.p = Payload(got.heap.blocks[i])
  BY <1>2, <1>5 DEF Reused, Payload
<1>7. got.p \in Nat /\ got.p # NULL
  BY <1>0, <1>6, BlockTypes
<1>8. got.p \notin InUse(h)
  <2>1. ASSUME NEW j \in DOMAIN h.blocks, ~h.blocks[j].is_free
        PROVE  got.p # Payload(h.blocks[j])
    BY <1>0, <1>6, <2>1, PayloadInjective
  <2> QED BY <2>1 DEF InUse
<1>9. InUse(got.heap) = InUse(h) \cup {got.p}
  <2> HIDE DEF got, b
  <2>1. \A j \in DOMAIN h.blocks : ~h.blocks[j].is_free => j # i
    BY <1>0
  <2>2. InUse(got.heap) \subseteq InUse(h) \cup {got.p}
    BY <1>5, <1>6 DEF InUse
  <2>3. InUse(h) \subseteq InUse(got.heap)
    BY <1>5, <2>1 DEF InUse
  <2>4. got.p \in InUse(got.heap)
    BY <1>0, <1>2, <1>5, <1>6 DEF InUse
  <2> QED BY <2>2, <2>3, <2>4
<1>10. Holds(got.heap, got.p, size)
  <2>1. size <= got.heap.blocks[i].size
    BY <1>0, <1>2, <1>5, BlockTypes
  <2> QED BY <1>0, <1>5, <1>6, <2>1 DEF Holds
<1> QED BY <1>5, <1>7, <1>8, <1>9, <1>10 DEF Gives

LEMMA GrownGives ==
  ASSUME NEW h, Good(h), NEW size \in 1..SIZE_LIMIT, h.brk + (size + MetaSize) <= HeapMax
  PROVE  Gives(h, Grown(h, size), size)
<1> DEFINE got == Grown(h, size)
           b == [addr |-> h.brk, size |-> size, is_free |-> FALSE, content |-> Junk]
           n == Len(h.blocks)
<1>0. /\ h \in MemoryList /\ h.brk \in Nat /\ size \in Nat /\ n \in Nat
      /\ h.blocks \in Seq(MallocMetadata) /\ DOMAIN h.blocks = 1..n
      /\ MetaSize \in Nat /\ MetaSize > 0
  BY BlockTypes, MetaSizeAssumption, LimitAssumption DEF Good, MemoryList
<1>1. b \in MallocMetadata
  BY <1>0 DEF MallocMetadata
<1>2. /\ got.heap.blocks = Append(h.blocks, b) /\ got.heap.brk = h.brk + (size + MetaSize)
      /\ got.p = h.brk + MetaSize
  BY <1>0 DEF Grown, MemoryList, Payload
<1>3. /\ Append(h.blocks, b) \in Seq(MallocMetadata)
      /\ DOMAIN got.heap.blocks = 1..(n + 1)
      /\ \A j \in DOMAIN h.blocks : got.heap.blocks[j] = h.blocks[j]
      /\ got.heap.blocks[n + 1] = b
  BY <1>0, <1>1, <1>2, AppendProperties
<1>4. got.heap \in MemoryList
  <2>1. got.heap = [blocks |-> Append(h.blocks, b), brk |-> h.brk + (size + MetaSize),
                    num_free_blocks |-> h.num_free_blocks,
                    num_free_bytes |-> h.num_free_bytes,
                    num_allocated_blocks |-> h.num_allocated_blocks + 1,
                    num_allocated_bytes |-> h.num_allocated_bytes + size,
                    num_meta_data_bytes |-> h.num_meta_data_bytes + MetaSize]
    BY <1>0 DEF Grown, MemoryList
  <2>2. h.brk + (size + MetaSize) \in 0..HeapMax
    BY <1>0, LimitAssumption
  <2>3. Append(h.blocks, b) \in Seq(MallocMetadata)
    BY <1>3
  <2>4. /\ h.num_free_blocks \in Int /\ h.num_free_bytes \in Int
        /\ h.num_allocated_blocks + 1 \in Int /\ h.num_allocated_bytes + size \in Int
        /\ h.num_meta_data_bytes + MetaSize \in Int
    BY <1>0 DEF MemoryList
  <2> HIDE DEF got, b
  <2> QED BY <2>1, <2>2, <2>3, <2>4 DEF MemoryList
<1>5. Kept(h, got.heap)
  BY <1>0, <1>3 DEF Kept
<1>6. InOrder(got.heap)
  <2> HIDE DEF got, b, n
  <2>1. b.addr = h.brk /\ b.size = size
    BY DEF b
  <2>2. ASSUME NEW j \in DOMAIN h.blocks
        PROVE  Payload(h.blocks[j]) \in Nat /\ h.blocks[j].size \in Nat
               /\ Payload(h.blocks[j]) + h.blocks[j].size <= h.brk
    BY BlockTypes DEF Good, InOrder
  <2>3. ASSUME NEW j \in DOMAIN got.heap.blocks
        PROVE  Payload(got.heap.blocks[j]) + got.heap.blocks[j].size <= got.heap.brk
    <3>1. CASE j \in DOMAIN h.blocks
      BY <1>0, <1>2, <1>3, <2>2, <3>1
    <3>2. CASE j = n + 1
      BY <1>0, <1>2, <1>3, <2>1, <3>2 DEF Payload
    <3> QED BY <1>0, <1>3, <3>1, <3>2
  <2>4. ASSUME NEW j \in DOMAIN got.heap.blocks, NEW k \in DOMAIN got.heap.blocks, j < k
        PROVE  Payload(got.heap.blocks[j]) + got.heap.blocks[j].size <= got.heap.blocks[k].addr
    <3>1. j \in DOMAIN h.blocks
      BY <1>0, <1>3, <2>4
    <3>2. CASE k \in DOMAIN h.blocks
      BY <1>3, <2>4, <3>1, <3>2 DEF Good, InOrder
    <3>3. CASE k = n + 1
      BY <1>3, <2>1, <2>2, <3>1, <3>3
    <3> QED BY <1>0, <1>3, <3>2, <3>3
  <2> QED BY <2>3, <2>4 DEF InOrder
<1>7. got.p \in Nat /\ got.p # NULL
  BY <1>0, <1>2 DEF NULL
<1>8. ASSUME NEW j \in DOMAIN h.blocks PROVE Payload(h.blocks[j]) # got.p
  <2>1. Payload(h.blocks[j]) \in Nat /\ h.blocks[j].size \in Nat
        /\ Payload(h.blocks[j]) + h.blocks[j].size <= h.brk
    BY BlockTypes DEF Good, InOrder
  <2> HIDE DEF got, b, n
  <2> QED BY <1>0, <1>2, <2>1
<1>9. got.p \notin InUse(h) /\ InUse(got.heap) = InUse(h) \cup {got.p}
  <2> HIDE DEF got, b, n
  <2>0. b.addr = h.brk /\ b.is_free = FALSE
    BY DEF b
  <2>1. Payload(got.heap.blocks[n + 1]) = got.p /\ ~got.heap.blocks[n + 1].is_free
    BY <1>2, <1>3, <2>0 DEF Payload
  <2>2. got.p \notin InUse(h)
    BY <1>8 DEF InUse
  <2>3. InUse(h) \subseteq InUse(got.heap)
    BY <1>0, <1>3 DEF InUse
  <2>4. got.p \in InUse(got.heap)
    BY <1>0, <1>3, <2>1 DEF InUse
  <2>5. InUse(got.heap) \subseteq InUse(h) \cup {got.p}
    <3>1. ASSUME NEW j \in DOMAIN got.heap.blocks, ~got.heap.blocks[j].is_free
          PROVE  Payload(got.heap.blocks[j]) \in InUse(h) \cup {got.p}
      <4>1. CASE j \in DOMAIN h.blocks
        BY <1>3, <3>1, <4>1 DEF InUse
      <4>2. CASE j = n + 1
        BY <2>1, <4>2
      <4> QED BY <1>0, <1>3, <4>1, <4>2
    <3> QED BY <3>1 DEF InUse
  <2> QED BY <2>2, <2>3, <2>4, <2>5
<1>10. Holds(got.heap, got.p, size)
  <2>1. b.addr = h.brk /\ b.size = size
    OBVIOUS
  <2> HIDE DEF got, b, n
  <2>2. Payload(got.heap.blocks[n + 1]) = got.p /\ size <= got.heap.blocks[n + 1].size
    BY <1>0, <1>2, <1>3, <2>1 DEF Payload
  <2>3. n + 1 \in DOMAIN got.heap.blocks
    BY <1>0, <1>3
  <2> QED BY <2>2, <2>3 DEF Holds
<1> QED BY <1>4, <1>5, <1>6, <1>7, <1>9, <1>10 DEF Gives, Good

LEMMA smallocGives ==
  ASSUME NEW h, Good(h), NEW size \in Nat, NEW granted \in BOOLEAN
  PROVE  \/ smalloc(h, size, granted) = Failed(h)
         \/ Gives(h, smalloc(h, size, granted), size)
<1>1. CASE size = 0 \/ size > SIZE_LIMIT
  BY <1>1 DEF smalloc
<1>2. CASE ~(size = 0 \/ size > SIZE_LIMIT) /\ Fits(h, size) # {}
  BY <1>2, FirstFits, ReusedGives DEF smalloc, Good
<1>3. CASE ~(size = 0 \/ size > SIZE_LIMIT) /\ Fits(h, size) = {}
  BY <1>3, GrownGives, LimitAssumption DEF smalloc
<1> QED BY <1>1, <1>2, <1>3

(* Writing into a payload changes nothing else. *)
LEMMA WriteKeeps ==
  ASSUME NEW h, Good(h), NEW i \in DOMAIN h.blocks, NEW v \in Values \cup {Junk, Zero}
  PROVE  LET g == [h EXCEPT !.blocks[i].content = v]
         IN  /\ Good(g) /\ Kept(h, g) /\ DOMAIN g.blocks = DOMAIN h.blocks
             /\ InUse(g) = InUse(h)
<1> DEFINE g == [h EXCEPT !.blocks[i].content = v]
           b == [h.blocks[i] EXCEPT !.content = v]
<1>0. h \in MemoryList /\ h.blocks \in Seq(MallocMetadata) /\ i \in 1..Len(h.blocks)
      /\ h.blocks[i] \in MallocMetadata
  BY BlockTypes DEF Good
<1>1. /\ b \in MallocMetadata /\ b.addr = h.blocks[i].addr /\ b.size = h.blocks[i].size
      /\ b.is_free = h.blocks[i].is_free
  BY <1>0 DEF MallocMetadata
<1>2. g.blocks = [h.blocks EXCEPT ![i] = b] /\ g.brk = h.brk
  BY <1>0 DEF MemoryList
<1>3. g \in MemoryList
  <2>1. [h.blocks EXCEPT ![i] = b] \in Seq(MallocMetadata)
    BY <1>0, <1>1, ExceptSeq
  <2>2. g = [h EXCEPT !.blocks = [h.blocks EXCEPT ![i] = b]]
    BY <1>0 DEF MemoryList
  <2> HIDE DEF g, b
  <2> QED BY <1>0, <2>1, <2>2 DEF MemoryList
<1> HIDE DEF g, b
<1>4. /\ Good(g) /\ Kept(h, g) /\ DOMAIN g.blocks = DOMAIN h.blocks
      /\ \A j \in DOMAIN h.blocks : j # i => g.blocks[j] = h.blocks[j]
      /\ g.blocks[i] = b
  BY <1>0, <1>1, <1>2, <1>3, Updated
<1>5. \A j \in DOMAIN h.blocks : g.blocks[j].is_free = h.blocks[j].is_free
                                /\ Payload(g.blocks[j]) = Payload(h.blocks[j])
  BY <1>1, <1>4 DEF Payload
<1>6. InUse(g) = InUse(h)
  BY <1>4, <1>5 DEF InUse
<1> QED BY <1>4, <1>6 DEF g

(* A block of the heap holds what p is good for, whatever moved since. *)
LEMMA KeptHolds ==
  ASSUME NEW h, NEW g, Kept(h, g), NEW p, NEW n, Holds(h, p, n)
  PROVE  Holds(g, p, n)
  BY DEF Kept, Holds, Payload

LEMMA KeptTransitive ==
  ASSUME NEW f, NEW g, NEW h, Kept(f, g), Kept(g, h)
  PROVE  Kept(f, h)
  BY DEF Kept

(* sfree takes p out of use and nothing else. *)
LEMMA sfreeTakes ==
  ASSUME NEW h, Good(h), NEW p,
         p = NULL \/ \E i \in DOMAIN h.blocks : p = Payload(h.blocks[i])
  PROVE  /\ Good(sfree(h, p)) /\ Kept(h, sfree(h, p))
         /\ InUse(sfree(h, p)) = InUse(h) \ {p}
<1>0. h \in MemoryList /\ Kept(h, h)
  BY DEF Good, Kept
<1>1. CASE p = NULL
  <2>1. NULL \notin InUse(h)
    BY <1>0, BlockTypes DEF InUse
  <2> QED BY <1>0, <1>1, <2>1 DEF sfree
<1>2. ASSUME NEW i \in DOMAIN h.blocks, p = Payload(h.blocks[i]), p # NULL
      PROVE  /\ Good(sfree(h, p)) /\ Kept(h, sfree(h, p))
             /\ InUse(sfree(h, p)) = InUse(h) \ {p}
  <2>0. IndexOf(h, p) = i
    BY <1>2, IndexOfPayload
  <2>1. CASE h.blocks[i].is_free
    <3>1. sfree(h, p) = h
      BY <2>0, <2>1 DEF sfree
    <3>2. p \notin InUse(h)
      BY <1>2, <2>1, PayloadInjective DEF InUse
    <3> QED BY <1>0, <3>1, <3>2
  <2>2. CASE ~h.blocks[i].is_free
    <3> DEFINE g == sfree(h, p)
               b == [h.blocks[i] EXCEPT !.is_free = TRUE]
    <3>1. g = [h EXCEPT !.blocks[i].is_free = TRUE,
                        !.num_free_blocks = @ + 1,
                        !.num_free_bytes = @ + h.blocks[i].size]
      BY <1>2, <2>0, <2>2 DEF sfree
    <3>2. h.blocks \in Seq(MallocMetadata) /\ i \in 1..Len(h.blocks)
          /\ h.blocks[i] \in MallocMetadata /\ h.blocks[i].size \in Nat
      BY <1>0, BlockTypes
    <3>3. /\ b \in MallocMetadata /\ b.addr = h.blocks[i].addr
          /\ b.size = h.blocks[i].size /\ b.is_free
      BY <3>2 DEF MallocMetadata
    <3>4. g.blocks = [h.blocks EXCEPT ![i] = b] /\ g.brk = h.brk
      BY <1>0, <3>1 DEF MemoryList
    <3>5. g \in MemoryList
      <4>1. [h.blocks EXCEPT ![i] = b] \in Seq(MallocMetadata)
        BY <3>2, <3>3, ExceptSeq
      <4>2. g = [h EXCEPT !.blocks = [h.blocks EXCEPT ![i] = b],
                          !.num_free_blocks = h.num_free_blocks + 1,
                          !.num_free_bytes = h.num_free_bytes + h.blocks[i].size]
        BY <1>0, <3>1 DEF MemoryList
      <4>3. h.num_free_blocks + 1 \in Int /\ h.num_free_bytes + h.blocks[i].size \in Int
        BY <1>0, <3>2 DEF MemoryList
      <4> HIDE DEF g, b
      <4> QED BY <1>0, <4>1, <4>2, <4>3 DEF MemoryList
    <3> HIDE DEF g, b
    <3>6. /\ Good(g) /\ Kept(h, g) /\ DOMAIN g.blocks = DOMAIN h.blocks
          /\ \A j \in DOMAIN h.blocks : j # i => g.blocks[j] = h.blocks[j]
          /\ g.blocks[i] = b
      BY <3>2, <3>3, <3>4, <3>5, Updated
    <3>7. InUse(g) = InUse(h) \ {p}
      <4>1. ASSUME NEW j \in DOMAIN g.blocks, ~g.blocks[j].is_free
            PROVE  Payload(g.blocks[j]) \in InUse(h) \ {p}
        <5>1. j # i /\ g.blocks[j] = h.blocks[j] /\ j \in DOMAIN h.blocks
          BY <3>3, <3>6, <4>1
        <5>2. Payload(h.blocks[j]) # p
          BY <1>2, <5>1, PayloadInjective
        <5> QED BY <4>1, <5>1, <5>2 DEF InUse
      <4>2. ASSUME NEW j \in DOMAIN h.blocks, ~h.blocks[j].is_free, Payload(h.blocks[j]) # p
            PROVE  Payload(h.blocks[j]) \in InUse(g)
        <5>1. j # i
          BY <1>2, <4>2
        <5> QED BY <3>6, <4>2, <5>1 DEF InUse
      <4>3. InUse(g) \subseteq InUse(h) \ {p}
        BY <4>1 DEF InUse
      <4>4. InUse(h) \ {p} \subseteq InUse(g)
        BY <4>2 DEF InUse
      <4> QED BY <4>3, <4>4
    <3> QED BY <3>6, <3>7 DEF g
  <2> QED BY <2>1, <2>2
<1> QED BY <1>1, <1>2

(* What smalloc gives is a block of the new heap. *)
LEMMA GivesBlock ==
  ASSUME NEW h, NEW got, NEW size, Gives(h, got, size)
  PROVE  /\ IndexOf(got.heap, got.p) \in DOMAIN got.heap.blocks
         /\ got.p = Payload(got.heap.blocks[IndexOf(got.heap, got.p)])
  BY DEF Gives, Holds, IndexOf

LEMMA scallocGives ==
  ASSUME NEW h, Good(h), NEW num \in Nat, NEW size \in Nat, NEW granted \in BOOLEAN
  PROVE  \/ scalloc(h, num, size, granted) = Failed(h)
         \/ Gives(h, scalloc(h, num, size, granted), (num * size) % WordMod)
<1> DEFINE n == (num * size) % WordMod
           got == smalloc(h, n, granted)
           i == IndexOf(got.heap, got.p)
           g == [got.heap EXCEPT !.blocks[i].content = Zero]
<1>1. n \in Nat
  <2>1. num * size \in Nat /\ WordMod \in Nat /\ WordMod > 0
    BY WordAssumption, LimitAssumption, MetaSizeAssumption
  <2> HIDE DEF n
  <2> QED BY <2>1 DEF n
<1>2. got = Failed(h) \/ Gives(h, got, n)
  <2> HIDE DEF n
  <2> QED BY <1>1, smallocGives
<1>3. CASE got = Failed(h)
  BY <1>3 DEF scalloc, Failed
<1>4. CASE Gives(h, got, n)
  <2>1. scalloc(h, num, size, granted) = [heap |-> g, p |-> got.p]
    BY <1>4 DEF scalloc, Gives
  <2> HIDE DEF got, n
  <2>2. i \in DOMAIN got.heap.blocks /\ Good(got.heap)
    BY <1>4, GivesBlock DEF Gives
  <2>3. Good(g) /\ Kept(got.heap, g) /\ InUse(g) = InUse(got.heap)
    BY <2>2, WriteKeeps
  <2> HIDE DEF g
  <2>4. Kept(h, g) /\ Holds(g, got.p, n)
    BY <1>4, <2>3, KeptHolds, KeptTransitive DEF Gives
  <2>5. Gives(h, [heap |-> g, p |-> got.p], n)
    BY <1>4, <2>3, <2>4 DEF Gives
  <2> QED BY <2>1, <2>5 DEF n
<1> QED BY <1>2, <1>3, <1>4

(* srealloc of a region in use leaves it, fails, or moves it. *)
Moves(h, oldp, got, size) ==
  /\ got.p \in Nat /\ got.p # NULL /\ got.p \notin InUse(h)
  /\ Good(got.heap) /\ Kept(h, got.heap)
  /\ InUse(got.heap) = (InUse(h) \cup {got.p}) \ {oldp}
  /\ Holds(got.heap, got.p, size)

LEMMA sreallocMoves ==
  ASSUME NEW h, Good(h), NEW oldp \in InUse(h), NEW size \in Nat, NEW granted \in BOOLEAN
  PROVE  LET got == srealloc(h, oldp, size, granted)
         IN  \/ got = Failed(h)
             \/ got = [heap |-> h, p |-> oldp] /\ Holds(h, oldp, size)
             \/ Moves(h, oldp, got, size)
<1> DEFINE result == srealloc(h, oldp, size, granted)
           got == smalloc(h, size, granted)
<1>0. PICK k \in DOMAIN h.blocks : oldp = Payload(h.blocks[k])
  BY DEF InUse
<1>1. /\ IndexOf(h, oldp) = k /\ oldp # NULL /\ h.blocks[k].size \in Nat
      /\ h.blocks[k].content \in Values \cup {Junk, Zero}
  BY <1>0, IndexOfPayload, BlockTypes DEF Good, MallocMetadata
<1>2. CASE h.blocks[k].size >= size
  <2>1. result = [heap |-> h, p |-> oldp]
    BY <1>1, <1>2 DEF srealloc
  <2>2. Holds(h, oldp, size)
    BY <1>0, <1>1, <1>2 DEF Holds
  <2> QED BY <2>1, <2>2
<1>3. CASE ~(h.blocks[k].size >= size) /\ got = Failed(h)
  BY <1>1, <1>3 DEF srealloc, Failed
<1>4. CASE ~(h.blocks[k].size >= size) /\ Gives(h, got, size)
  <2> DEFINE i == IndexOf(got.heap, got.p)
             j == IndexOf(got.heap, oldp)
             moved == memmove(got.heap, got.p, oldp)
  <2>1. result = [heap |-> sfree(moved, oldp), p |-> got.p]
    BY <1>1, <1>4 DEF srealloc, Gives
  <2> HIDE DEF got
  <2>2. /\ i \in DOMAIN got.heap.blocks /\ Good(got.heap) /\ Kept(h, got.heap)
        /\ k \in DOMAIN got.heap.blocks /\ Payload(got.heap.blocks[k]) = oldp
    BY <1>0, <1>4, GivesBlock DEF Gives, Kept, Payload
  <2>3. j = k /\ got.heap.blocks[j].content \in Values \cup {Junk, Zero}
    BY <2>2, IndexOfPayload, BlockTypes DEF Good, MallocMetadata
  <2>4. /\ Good(moved) /\ Kept(got.heap, moved) /\ InUse(moved) = InUse(got.heap)
        /\ DOMAIN moved.blocks = DOMAIN got.heap.blocks
    BY <2>2, <2>3, WriteKeeps DEF memmove
  <2> HIDE DEF moved, i, j
  <2>5. k \in DOMAIN moved.blocks /\ Payload(moved.blocks[k]) = oldp
    BY <2>2, <2>4 DEF Kept, Payload
  <2>6. /\ Good(sfree(moved, oldp)) /\ Kept(moved, sfree(moved, oldp))
        /\ InUse(sfree(moved, oldp)) = InUse(moved) \ {oldp}
    BY <2>4, <2>5, sfreeTakes
  <2>7. Kept(h, sfree(moved, oldp)) /\ Kept(got.heap, sfree(moved, oldp))
    BY <2>2, <2>4, <2>6, KeptTransitive
  <2>8. Holds(sfree(moved, oldp), got.p, size)
    BY <1>4, <2>7, KeptHolds DEF Gives
  <2>9. Moves(h, oldp, [heap |-> sfree(moved, oldp), p |-> got.p], size)
    BY <1>4, <2>4, <2>6, <2>7, <2>8 DEF Moves, Gives
  <2> QED BY <2>1, <2>9
<1> QED BY <1>2, <1>3, <1>4, smallocGives

-----------------------------------------------------------------------------
(* The invariant                                                           *)

Inv == TypeOK /\ BlocksApart /\ InUseIsLive

(* The client's table after it was given a region. *)
LEMMA HasLive ==
  ASSUME NEW got, got.p # NULL, NEW asked, NEW written, Has(got, asked, written)
  PROVE  /\ DOMAIN live' = DOMAIN live \cup {got.p}
         /\ live'[got.p] = [asked |-> asked, written |-> written]
         /\ \A q \in DOMAIN live : q # got.p => live'[q] = live[q]
  BY DEF Has, With

LEMMA HasGiven ==
  ASSUME Inv, NEW got, NEW n \in Nat, Gives(Heap, got, n), Heap' = got.heap,
         NEW asked \in Nat, NEW written \in BOOLEAN, Has(got, asked, written)
  PROVE  Inv' /\ (LargeEnough /\ asked <= n => LargeEnough')
<1>1. /\ DOMAIN live' = DOMAIN live \cup {got.p}
      /\ live'[got.p] = [asked |-> asked, written |-> written]
      /\ \A q \in DOMAIN live : q # got.p => live'[q] = live[q]
  BY HasLive DEF Gives
<1>2. /\ got.p \in Nat /\ Good(Heap') /\ Kept(Heap, Heap')
      /\ InUse(Heap') = InUse(Heap) \cup {got.p} /\ Holds(Heap', got.p, n)
  BY DEF Gives
<1>3. TypeOK'
  BY <1>1, <1>2 DEF Inv, TypeOK, Good
<1>4. BlocksApart' /\ InUseIsLive'
  BY <1>1, <1>2 DEF Inv, BlocksApart, InUseIsLive, Good
<1>5. ASSUME LargeEnough, asked <= n PROVE LargeEnough'
  <2>1. got.p \in DOMAIN live' /\ live'[got.p].asked = asked /\ Holds(Heap', got.p, asked)
    <3>1. PICK i \in DOMAIN Heap'.blocks :
            Payload(Heap'.blocks[i]) = got.p /\ n <= Heap'.blocks[i].size
      BY <1>2 DEF Holds
    <3>2. Heap'.blocks[i].size \in Nat
      BY <1>2, BlockTypes DEF Good
    <3> QED BY <1>1, <1>5, <3>1, <3>2 DEF Holds
  <2>2. ASSUME NEW q \in DOMAIN live, q # got.p PROVE Holds(Heap', q, live'[q].asked)
    BY <1>1, <1>2, <1>5, <2>2, KeptHolds DEF LargeEnough
  <2> QED BY <1>1, <2>1, <2>2 DEF LargeEnough
<1> QED BY <1>3, <1>4, <1>5 DEF Inv

LEMMA HasNothing ==
  ASSUME Inv, NEW got, got = Failed(Heap), Heap' = got.heap,
         NEW asked, NEW written, Has(got, asked, written)
  PROVE  UNCHANGED vars
  BY DEF Has, Failed, vars

(* srealloc of a region the client has *)
LEMMA ReallocKeeps ==
  ASSUME Inv, NEW p \in DOMAIN live, NEW size \in Nat, NEW granted \in BOOLEAN,
         Heap' = srealloc(Heap, p, size, granted).heap,
         live' = IF srealloc(Heap, p, size, granted).p = NULL THEN live
                 ELSE With(Without(p), srealloc(Heap, p, size, granted).p,
                           [asked |-> size, written |-> live[p].written])
  PROVE  Inv' /\ (LargeEnough => LargeEnough')
<1> DEFINE got == srealloc(Heap, p, size, granted)
<1>0. Good(Heap) /\ p \in InUse(Heap) /\ p \in Nat /\ p # NULL
      /\ live[p].written \in BOOLEAN
  <2>1. Good(Heap) /\ p \in InUse(Heap) /\ p \in Nat /\ live[p].written \in BOOLEAN
    BY DEF Inv, TypeOK, Good, BlocksApart, InUseIsLive
  <2> QED BY <2>1, BlockTypes DEF InUse, Good
<1>1. \/ got = Failed(Heap)
      \/ got = [heap |-> Heap, p |-> p] /\ Holds(Heap, p, size)
      \/ Moves(Heap, p, got, size)
  BY <1>0, sreallocMoves
<1> HIDE DEF got
<1>a. Heap' = got.heap /\ live' = IF got.p = NULL THEN live
                         ELSE With(Without(p), got.p,
                                   [asked |-> size, written |-> live[p].written])
  BY DEF got
<1>2. CASE got = Failed(Heap)
  <2>1. Heap' = Heap /\ live' = live
    BY <1>a, <1>2 DEF Failed
  <2> QED BY <2>1 DEF Inv, TypeOK, BlocksApart, InUseIsLive, LargeEnough
<1>3. CASE got = [heap |-> Heap, p |-> p] /\ Holds(Heap, p, size)
  <2>1. Heap' = Heap /\ live' = With(Without(p), p,
                                     [asked |-> size, written |-> live[p].written])
    BY <1>0, <1>a, <1>3
  <2>2. /\ DOMAIN live' = DOMAIN live
        /\ live'[p] = [asked |-> size, written |-> live[p].written]
        /\ \A q \in DOMAIN live : q # p => live'[q] = live[q]
    BY <2>1 DEF With, Without
  <2>3. TypeOK'
    BY <1>0, <2>1, <2>2 DEF Inv, TypeOK
  <2>4. BlocksApart' /\ InUseIsLive'
    BY <2>1, <2>2 DEF Inv, BlocksApart, InUseIsLive
  <2>5. LargeEnough => LargeEnough'
    BY <1>3, <2>1, <2>2 DEF LargeEnough
  <2> QED BY <2>3, <2>4, <2>5 DEF Inv
<1>4. CASE Moves(Heap, p, got, size)
  <2>1. /\ got.p \in Nat /\ got.p # NULL /\ got.p \notin InUse(Heap) /\ got.p # p
        /\ Good(Heap') /\ Kept(Heap, Heap')
        /\ InUse(Heap') = (InUse(Heap) \cup {got.p}) \ {p}
        /\ Holds(Heap', got.p, size)
    BY <1>0, <1>a, <1>4 DEF Moves
  <2>2. /\ DOMAIN live' = (DOMAIN live \cup {got.p}) \ {p}
        /\ live'[got.p] = [asked |-> size, written |-> live[p].written]
        /\ \A q \in DOMAIN live \ {p} : q # got.p => live'[q] = live[q]
    BY <1>a, <2>1 DEF With, Without
  <2>3. TypeOK'
    BY <1>0, <2>1, <2>2 DEF Inv, TypeOK, Good
  <2>4. BlocksApart' /\ InUseIsLive'
    BY <2>1, <2>2 DEF Inv, BlocksApart, InUseIsLive, Good
  <2>5. ASSUME LargeEnough PROVE LargeEnough'
    <3>1. ASSUME NEW q \in DOMAIN live \ {p}, q # got.p
          PROVE  Holds(Heap', q, live'[q].asked)
      BY <2>1, <2>2, <2>5, <3>1, KeptHolds DEF LargeEnough
    <3> QED BY <2>1, <2>2, <3>1 DEF LargeEnough
  <2> QED BY <2>3, <2>4, <2>5 DEF Inv
<1> QED BY <1>1, <1>2, <1>3, <1>4

LEMMA InvInit == Init => Inv /\ LargeEnough
<1> SUFFICES ASSUME Init PROVE Inv /\ LargeEnough
  OBVIOUS
<1>1. /\ Heap.blocks = <<>> /\ DOMAIN Heap.blocks = {} /\ live = <<>> /\ DOMAIN live = {}
  BY DEF Init
<1>2. Heap \in MemoryList
  <2>1. <<>> \in Seq(MallocMetadata)
    BY EmptySeq
  <2> QED BY <2>1, LimitAssumption DEF Init, MemoryList
<1>3. InUse(Heap) = {}
  BY <1>1 DEF InUse
<1> QED
  BY <1>1, <1>2, <1>3
  DEF Inv, TypeOK, BlocksApart, InOrder, InUseIsLive, LargeEnough

LEMMA InvNext ==
  ASSUME Inv, [Next]_vars
  PROVE  Inv' /\ (CallsFit /\ LargeEnough => LargeEnough')
<1>0. Good(Heap) /\ Heap \in MemoryList /\ InUse(Heap) = DOMAIN live
  BY DEF Inv, TypeOK, Good, BlocksApart, InUseIsLive
<1>a. Sizes \subseteq Nat /\ Nums \subseteq Nat
  BY ArgumentsAssumption, WordAssumption
<1>b. ASSUME UNCHANGED vars PROVE Inv' /\ (LargeEnough => LargeEnough')
  BY <1>b DEF vars, Inv, TypeOK, BlocksApart, InUseIsLive, LargeEnough
<1>c. ASSUME NEW size \in Nat, NEW granted \in BOOLEAN,
             Heap' = smalloc(Heap, size, granted).heap,
             Has(smalloc(Heap, size, granted), size, FALSE)
      PROVE  Inv' /\ (LargeEnough => LargeEnough')
  <2> DEFINE got == smalloc(Heap, size, granted)
  <2>1. got = Failed(Heap) \/ Gives(Heap, got, size)
    BY <1>0, smallocGives
  <2>2. Heap' = got.heap /\ Has(got, size, FALSE)
    BY <1>c
  <2> HIDE DEF got
  <2>3. CASE got = Failed(Heap)
    BY <1>b, <2>2, <2>3, HasNothing
  <2>4. CASE Gives(Heap, got, size)
    <3>1. Inv' /\ (LargeEnough /\ size <= size => LargeEnough')
      BY <2>2, <2>4, HasGiven
    <3>2. size <= size
      OBVIOUS
    <3> QED BY <3>1, <3>2
  <2> QED BY <2>1, <2>3, <2>4
<1>1. CASE Malloc
  BY <1>1, <1>a, <1>c DEF Malloc
<1>2. CASE Calloc
  <2>1. PICK num \in Nums, size \in Sizes, granted \in BOOLEAN :
          /\ Heap' = scalloc(Heap, num, size, granted).heap
          /\ Has(scalloc(Heap, num, size, granted), num * size, TRUE)
    BY <1>2 DEF Calloc
  <2> DEFINE got == scalloc(Heap, num, size, granted)
             n == (num * size) % WordMod
  <2>2. /\ num \in Nat /\ size \in Nat /\ num * size \in Nat /\ WordMod \in Nat
        /\ WordMod > 0
    BY <1>a, WordAssumption, LimitAssumption, MetaSizeAssumption
  <2>3. got = Failed(Heap) \/ Gives(Heap, got, n)
    BY <1>0, <2>2, scallocGives
  <2>4. n \in Nat /\ (CallsFit => num * size <= n)
    <3> DEFINE product == num * size
    <3>1. product \in Nat /\ (CallsFit => product < WordMod)
      BY <2>2 DEF CallsFit
    <3> HIDE DEF product
    <3>2. product % WordMod \in Nat /\ (product < WordMod => product % WordMod = product)
      BY <2>2, <3>1
    <3>3. CallsFit => product <= product % WordMod
      BY <3>1, <3>2
    <3> QED BY <3>2, <3>3 DEF product
  <2>5. Heap' = got.heap /\ Has(got, num * size, TRUE)
    BY <2>1
  <2> HIDE DEF got, n
  <2>6. CASE got = Failed(Heap)
    BY <1>b, <2>5, <2>6, HasNothing
  <2>7. CASE Gives(Heap, got, n)
    BY <2>2, <2>4, <2>5, <2>7, HasGiven
  <2> QED BY <2>3, <2>6, <2>7
<1>3. CASE Realloc
  <2>1. PICK p \in DOMAIN live \cup {NULL}, size \in Sizes, granted \in BOOLEAN :
          /\ Heap' = srealloc(Heap, p, size, granted).heap
          /\ IF p = NULL THEN Has(srealloc(Heap, p, size, granted), size, FALSE)
             ELSE live' = IF srealloc(Heap, p, size, granted).p = NULL THEN live
                          ELSE With(Without(p), srealloc(Heap, p, size, granted).p,
                                    [asked |-> size, written |-> live[p].written])
    BY <1>3 DEF Realloc
  <2>2. size \in Nat
    BY <1>a
  <2>3. CASE p = NULL
    <3>1. srealloc(Heap, p, size, granted) = smalloc(Heap, size, granted)
      BY <2>3 DEF srealloc
    <3> QED BY <1>c, <2>1, <2>2, <2>3, <3>1
  <2>4. CASE p # NULL
    BY <2>1, <2>2, <2>4, ReallocKeeps
  <2> QED BY <2>3, <2>4
<1>4. CASE Free
  <2>1. PICK p \in {NULL} \cup DOMAIN live \cup
                     {Payload(Heap.blocks[i]) : i \in FreeIndices(Heap)} :
          Heap' = sfree(Heap, p) /\ live' = Without(p)
    BY <1>4 DEF Free
  <2>2. p = NULL \/ \E i \in DOMAIN Heap.blocks : p = Payload(Heap.blocks[i])
    BY <1>0 DEF InUse, FreeIndices
  <2>3. Good(Heap') /\ Kept(Heap, Heap') /\ InUse(Heap') = InUse(Heap) \ {p}
    BY <1>0, <2>1, <2>2, sfreeTakes
  <2>4. DOMAIN live' = DOMAIN live \ {p} /\ \A q \in DOMAIN live' : live'[q] = live[q]
    BY <2>1 DEF Without
  <2>5. TypeOK' /\ BlocksApart' /\ InUseIsLive'
    BY <1>0, <2>3, <2>4 DEF Inv, TypeOK, BlocksApart, InUseIsLive, Good
  <2>6. LargeEnough => LargeEnough'
    BY <2>3, <2>4, KeptHolds DEF LargeEnough
  <2> QED BY <2>5, <2>6 DEF Inv
<1>5. CASE Write
  <2>1. PICK p \in DOMAIN live, v \in Values :
          /\ Heap' = [Heap EXCEPT !.blocks[IndexOf(Heap, p)].content = v]
          /\ live' = [live EXCEPT ![p].written = TRUE]
    BY <1>5 DEF Write
  <2>2. PICK i \in DOMAIN Heap.blocks : Payload(Heap.blocks[i]) = p
    BY <1>0 DEF InUse
  <2>3. IndexOf(Heap, p) = i
    BY <1>0, <2>2, IndexOfPayload
  <2>4. Good(Heap') /\ Kept(Heap, Heap') /\ InUse(Heap') = InUse(Heap)
    BY <1>0, <2>1, <2>2, <2>3, WriteKeeps
  <2>5. /\ DOMAIN live' = DOMAIN live
        /\ live'[p] = [live[p] EXCEPT !.written = TRUE]
        /\ \A q \in DOMAIN live : q # p => live'[q] = live[q]
    BY <2>1
  <2>6. \A q \in DOMAIN live : live'[q] \in [asked : Nat, written : BOOLEAN]
                             /\ live'[q].asked = live[q].asked
    BY <2>5 DEF Inv, TypeOK
  <2>7. TypeOK' /\ BlocksApart' /\ InUseIsLive'
    BY <1>0, <2>4, <2>5, <2>6 DEF Inv, TypeOK, BlocksApart, InUseIsLive, Good
  <2>8. LargeEnough => LargeEnough'
    BY <2>4, <2>5, <2>6, KeptHolds DEF LargeEnough
  <2> QED BY <2>7, <2>8 DEF Inv
<1>6. CASE UNCHANGED vars
  BY <1>6, <1>b
<1> QED BY <1>1, <1>2, <1>3, <1>4, <1>5, <1>6 DEF Next

-----------------------------------------------------------------------------
LEMMA Invariant == Spec => []Inv
  BY InvInit, InvNext, PTL DEF Spec

(* malloc_2: the heap and the client's table keep their types.             *)
THEOREM TypeCorrect == Spec => []TypeOK
<1>1. Inv => TypeOK
  BY DEF Inv
<1> QED BY <1>1, Invariant, PTL

(* malloc_2: headers and payloads of different blocks never overlap, and   *)
(* the list stays in address order.                                        *)
THEOREM BlocksStayApart == Spec => []BlocksApart
<1>1. Inv => BlocksApart
  BY DEF Inv
<1> QED BY <1>1, Invariant, PTL

(* malloc_2: smalloc, scalloc and srealloc never hand out a region the     *)
(* client still has, and sfree and srealloc lose none.                     *)
THEOREM NothingSharedOrLost == Spec => []InUseIsLive
<1>1. Inv => InUseIsLive
  BY DEF Inv
<1> QED BY <1>1, Invariant, PTL

(* malloc_2: every pointer is good for the bytes that were asked for, as   *)
(* long as no product of scalloc's arguments wraps.                        *)
THEOREM AlwaysLargeEnough == CallsFit /\ Spec => []LargeEnough
<1>1. CallsFit /\ Inv /\ LargeEnough /\ [Next]_vars => LargeEnough'
  BY InvNext
<1>2. CASE CallsFit
  <2>1. Inv /\ LargeEnough /\ [Next]_vars => LargeEnough'
    BY <1>1, <1>2
  <2> QED BY <2>1, InvInit, Invariant, PTL DEF Spec
<1>3. CASE ~CallsFit
  BY <1>3, PTL
<1> QED BY <1>2, <1>3
-----------------------------------------------------------------------------
(* The statistics                                                          *)

(* The bytes of some blocks are finitely many.                             *)
LEMMA BytesFinite ==
  ASSUME NEW h \in MemoryList, NEW S \in SUBSET (DOMAIN h.blocks)
  PROVE  IsFiniteSet(Bytes(h, S)) /\ Cardinality(Bytes(h, S)) \in Nat
<1>1. IsFiniteSet(1..Len(h.blocks)) /\ IsFiniteSet(1..SIZE_LIMIT)
  BY BlockTypes, LimitAssumption, FS_Interval
<1>2. IsFiniteSet((1..Len(h.blocks)) \X (1..SIZE_LIMIT))
  BY <1>1, FS_Product
<1>3. ASSUME NEW i \in S
      PROVE  {i} \X (1..h.blocks[i].size) \subseteq (1..Len(h.blocks)) \X (1..SIZE_LIMIT)
  <2>1. i \in 1..Len(h.blocks) /\ h.blocks[i].size \in 1..SIZE_LIMIT
    BY BlockTypes
  <2>2. 1..h.blocks[i].size \subseteq 1..SIZE_LIMIT
    BY <2>1, LimitAssumption
  <2> QED BY <2>1, <2>2
<1>4. Bytes(h, S) \in SUBSET ((1..Len(h.blocks)) \X (1..SIZE_LIMIT))
  BY <1>3 DEF Bytes
<1> QED BY <1>2, <1>4, FS_Subset, FS_CardinalityType

(* A list is as long as its domain.                                        *)
LEMMA SameLength ==
  ASSUME NEW h, Good(h), NEW g, Good(g), DOMAIN g.blocks = DOMAIN h.blocks
  PROVE  Len(g.blocks) = Len(h.blocks)
<1>1. PICK m, n : m = Len(g.blocks) /\ n = Len(h.blocks)
  OBVIOUS
<1>2. m \in Nat /\ n \in Nat /\ 1..m = 1..n
  BY <1>1, BlockTypes DEF Good
<1>3. m = n
  BY <1>2
<1> QED BY <1>1, <1>3

(* One block more                                                          *)
LEMMA BytesAdded ==
  ASSUME NEW h \in MemoryList, NEW S \in SUBSET (DOMAIN h.blocks), NEW i \in DOMAIN h.blocks,
         i \notin S
  PROVE  Cardinality(Bytes(h, S \cup {i})) = Cardinality(Bytes(h, S)) + h.blocks[i].size
<1> DEFINE n == h.blocks[i].size
           B == Bytes(h, S)
           C == {i} \X (1..n)
<1>1. n \in Nat /\ IsFiniteSet(B) /\ Cardinality(B) \in Nat
  BY BytesFinite, BlockTypes
<1>2. IsFiniteSet(C) /\ Cardinality(C) = n
  <2> HIDE DEF n
  <2>1. IsFiniteSet(1..n) /\ Cardinality(1..n) = n
    <3>1. /\ IsFiniteSet(1..n)
          /\ Cardinality(1..n) = IF 1 > n THEN 0 ELSE n - 1 + 1
      BY <1>1, FS_Interval
    <3> QED BY <1>1, <3>1
  <2>2. IsFiniteSet({i}) /\ Cardinality({i}) = 1
    BY FS_Singleton
  <2>3. IsFiniteSet(C) /\ Cardinality(C) = 1 * n
    BY <2>1, <2>2, FS_Product
  <2> QED BY <1>1, <2>3
<1>3. B \cap C = {}
  BY DEF Bytes
<1>4. Bytes(h, S \cup {i}) = B \cup C
  BY DEF Bytes
<1> HIDE DEF n, B, C
<1>5. Cardinality(B \cup C) = Cardinality(B) + Cardinality(C) - Cardinality({})
  BY <1>1, <1>2, <1>3, FS_Union
<1>6. Cardinality({}) = 0
  BY FS_EmptySet
<1>7. Cardinality(Bytes(h, S \cup {i})) = Cardinality(B) + n
  <2>1. PICK x, y, z : x = Cardinality(B) /\ y = Cardinality(C) /\ z = Cardinality({})
    OBVIOUS
  <2>2. x \in Nat /\ n \in Nat /\ y = n /\ z = 0
    BY <1>1, <1>2, <1>6, <2>1
  <2>3. x + y - z = x + n
    BY <2>2
  <2> QED BY <1>4, <1>5, <2>1, <2>3
<1> QED BY <1>7 DEF n, B

(* Blocks that keep their sizes have the bytes they had.                   *)
LEMMA SameBytes ==
  ASSUME NEW h, NEW g, NEW S, \A i \in S : g.blocks[i].size = h.blocks[i].size
  PROVE  Bytes(g, S) = Bytes(h, S)
<1>1. \A i \in S : {i} \X (1..g.blocks[i].size) = {i} \X (1..h.blocks[i].size)
  OBVIOUS
<1> QED BY <1>1 DEF Bytes

(* The free blocks are finitely many.                                      *)
LEMMA FreeFinite ==
  ASSUME NEW h \in MemoryList
  PROVE  /\ FreeIndices(h) \in SUBSET (DOMAIN h.blocks) /\ IsFiniteSet(FreeIndices(h))
         /\ Cardinality(FreeIndices(h)) \in Nat
<1>1. FreeIndices(h) \in SUBSET (DOMAIN h.blocks)
  BY DEF FreeIndices
<1>2. IsFiniteSet(DOMAIN h.blocks)
  BY BlockTypes, FS_Interval
<1> QED BY <1>1, <1>2, FS_Subset, FS_CardinalityType

(* A change of one block that keeps its size, and takes it from the free   *)
(* ones, gives it to them or does neither                                  *)
LEMMA Recounted ==
  ASSUME NEW h, Good(h), Agree(h), NEW g, Good(g), NEW i \in DOMAIN h.blocks,
         Kept(h, g), DOMAIN g.blocks = DOMAIN h.blocks, Len(g.blocks) = Len(h.blocks),
         \A j \in DOMAIN h.blocks : j # i => g.blocks[j].is_free = h.blocks[j].is_free,
         g.num_allocated_blocks = h.num_allocated_blocks,
         g.num_allocated_bytes = h.num_allocated_bytes,
         g.num_meta_data_bytes = h.num_meta_data_bytes,
         \/ /\ g.blocks[i].is_free /\ ~h.blocks[i].is_free
            /\ g.num_free_blocks = h.num_free_blocks + 1
            /\ g.num_free_bytes = h.num_free_bytes + h.blocks[i].size
         \/ /\ ~g.blocks[i].is_free /\ h.blocks[i].is_free
            /\ g.num_free_blocks = h.num_free_blocks - 1
            /\ g.num_free_bytes = h.num_free_bytes - h.blocks[i].size
         \/ /\ g.blocks[i].is_free = h.blocks[i].is_free
            /\ g.num_free_blocks = h.num_free_blocks
            /\ g.num_free_bytes = h.num_free_bytes
  PROVE  Agree(g)
<1>0. /\ h \in MemoryList /\ g \in MemoryList
      /\ \A j \in DOMAIN h.blocks : g.blocks[j].size = h.blocks[j].size
  BY DEF Good, Kept
<1>1. PICK F, G, n : F = FreeIndices(h) /\ G = FreeIndices(g) /\ n = h.blocks[i].size
  OBVIOUS
<1>2. /\ F \in SUBSET (DOMAIN h.blocks) /\ IsFiniteSet(F) /\ Cardinality(F) \in Nat
      /\ G \in SUBSET (DOMAIN h.blocks) /\ IsFiniteSet(G) /\ Cardinality(G) \in Nat
  BY <1>0, <1>1, FreeFinite
<1>3. Bytes(g, DOMAIN g.blocks) = Bytes(h, DOMAIN h.blocks) /\ Bytes(g, G) = Bytes(h, G)
  BY <1>0, <1>2, SameBytes
<1>4. /\ n \in Nat
      /\ Cardinality(Bytes(h, F)) \in Nat /\ Cardinality(Bytes(h, G)) \in Nat
  BY <1>0, <1>1, <1>2, BytesFinite, BlockTypes
<1>5. /\ h.num_free_blocks = Cardinality(F) /\ h.num_free_bytes = Cardinality(Bytes(h, F))
      /\ h.num_allocated_blocks = Len(h.blocks)
      /\ h.num_allocated_bytes = Cardinality(Bytes(h, DOMAIN h.blocks))
      /\ h.num_meta_data_bytes = Len(h.blocks) * MetaSize
  BY <1>1 DEF Agree
<1>6. g.num_free_blocks = Cardinality(G) /\ g.num_free_bytes = Cardinality(Bytes(h, G))
  <2>1. CASE g.blocks[i].is_free /\ ~h.blocks[i].is_free
    <3>1. G = F \cup {i} /\ i \notin F
      BY <1>1, <2>1 DEF FreeIndices
    <3>2. Cardinality(G) = Cardinality(F) + 1
      BY <1>2, <3>1, FS_AddElement
    <3>3. Cardinality(Bytes(h, G)) = Cardinality(Bytes(h, F)) + n
      BY <1>0, <1>1, <1>2, <3>1, BytesAdded
    <3> QED BY <1>1, <1>5, <2>1, <3>2, <3>3
  <2>2. CASE ~g.blocks[i].is_free /\ h.blocks[i].is_free
    <3>1. F = G \cup {i} /\ i \notin G
      BY <1>1, <2>2 DEF FreeIndices
    <3>2. Cardinality(F) = Cardinality(G) + 1
      BY <1>2, <3>1, FS_AddElement
    <3>3. Cardinality(Bytes(h, F)) = Cardinality(Bytes(h, G)) + n
      BY <1>0, <1>1, <1>2, <3>1, BytesAdded
    <3>4. /\ g.num_free_blocks = Cardinality(F) - 1
          /\ g.num_free_bytes = Cardinality(Bytes(h, F)) - n
      BY <1>1, <1>5, <2>2
    <3> QED BY <1>2, <1>4, <3>2, <3>3, <3>4
  <2>3. CASE g.blocks[i].is_free = h.blocks[i].is_free
    <3>1. G = F
      BY <1>1, <2>3 DEF FreeIndices
    <3> QED BY <1>5, <2>3, <3>1
  <2> QED BY <1>0, <2>1, <2>2, <2>3, BlockTypes
<1> QED BY <1>1, <1>3, <1>5, <1>6 DEF Agree

LEMMA ReusedAgrees ==
  ASSUME NEW h, Good(h), Agree(h), NEW size \in Nat, NEW i \in Fits(h, size)
  PROVE  Agree(Reused(h, i).heap)
<1> DEFINE g == Reused(h, i).heap
<1>1. i \in DOMAIN h.blocks /\ h.blocks[i].is_free /\ h \in MemoryList
      /\ h.blocks[i] \in MallocMetadata /\ h.blocks \in Seq(MallocMetadata)
  BY BlockTypes DEF Fits, Good
<1>2. /\ g.blocks = [h.blocks EXCEPT ![i] = [h.blocks[i] EXCEPT !.is_free = FALSE]]
      /\ g.num_free_blocks = h.num_free_blocks - 1
      /\ g.num_free_bytes = h.num_free_bytes - h.blocks[i].size
      /\ g.num_allocated_blocks = h.num_allocated_blocks
      /\ g.num_allocated_bytes = h.num_allocated_bytes
      /\ g.num_meta_data_bytes = h.num_meta_data_bytes
  BY <1>1 DEF Reused, MemoryList
<1>3. Good(g) /\ Kept(h, g)
  BY ReusedGives DEF Gives
<1> HIDE DEF g
<1>4. /\ DOMAIN g.blocks = DOMAIN h.blocks /\ ~g.blocks[i].is_free
      /\ \A j \in DOMAIN h.blocks : j # i => g.blocks[j].is_free = h.blocks[j].is_free
  BY <1>1, <1>2 DEF MallocMetadata
<1>5. Len(g.blocks) = Len(h.blocks)
  BY <1>3, <1>4, SameLength
<1>6. Agree(g)
  BY <1>1, <1>2, <1>3, <1>4, <1>5, Recounted
<1> QED BY <1>6 DEF g

LEMMA WrittenAgrees ==
  ASSUME NEW h, Good(h), Agree(h), NEW i \in DOMAIN h.blocks, NEW v \in Values \cup {Junk, Zero}
  PROVE  Agree([h EXCEPT !.blocks[i].content = v])
<1> DEFINE g == [h EXCEPT !.blocks[i].content = v]
<1>1. h \in MemoryList /\ h.blocks[i] \in MallocMetadata /\ h.blocks \in Seq(MallocMetadata)
  BY BlockTypes DEF Good
<1>2. /\ g.blocks = [h.blocks EXCEPT ![i] = [h.blocks[i] EXCEPT !.content = v]]
      /\ g.num_free_blocks = h.num_free_blocks
      /\ g.num_free_bytes = h.num_free_bytes
      /\ g.num_allocated_blocks = h.num_allocated_blocks
      /\ g.num_allocated_bytes = h.num_allocated_bytes
      /\ g.num_meta_data_bytes = h.num_meta_data_bytes
  BY <1>1 DEF MemoryList
<1>3. Good(g) /\ Kept(h, g)
  BY WriteKeeps
<1> HIDE DEF g
<1>4. /\ DOMAIN g.blocks = DOMAIN h.blocks /\ g.blocks[i].is_free = h.blocks[i].is_free
      /\ \A j \in DOMAIN h.blocks : j # i => g.blocks[j].is_free = h.blocks[j].is_free
  BY <1>1, <1>2 DEF MallocMetadata
<1>5. Len(g.blocks) = Len(h.blocks)
  BY <1>3, <1>4, SameLength
<1>6. Agree(g)
  BY <1>1, <1>2, <1>3, <1>4, <1>5, Recounted
<1> QED BY <1>6 DEF g

LEMMA sfreeAgrees ==
  ASSUME NEW h, Good(h), Agree(h), NEW p,
         p = NULL \/ \E i \in DOMAIN h.blocks : p = Payload(h.blocks[i])
  PROVE  Agree(sfree(h, p))
<1> DEFINE g == sfree(h, p)
<1>1. CASE p = NULL
  BY <1>1 DEF sfree
<1>2. ASSUME NEW i \in DOMAIN h.blocks, p = Payload(h.blocks[i]), p # NULL
      PROVE  Agree(g)
  <2>0. IndexOf(h, p) = i
    BY <1>2, IndexOfPayload
  <2>1. CASE h.blocks[i].is_free
    BY <2>0, <2>1 DEF sfree
  <2>2. CASE ~h.blocks[i].is_free
    <3>1. h \in MemoryList /\ h.blocks[i] \in MallocMetadata /\ h.blocks \in Seq(MallocMetadata)
      BY BlockTypes DEF Good
    <3>2. /\ g.blocks = [h.blocks EXCEPT ![i] = [h.blocks[i] EXCEPT !.is_free = TRUE]]
          /\ g.num_free_blocks = h.num_free_blocks + 1
          /\ g.num_free_bytes = h.num_free_bytes + h.blocks[i].size
          /\ g.num_allocated_blocks = h.num_allocated_blocks
          /\ g.num_allocated_bytes = h.num_allocated_bytes
          /\ g.num_meta_data_bytes = h.num_meta_data_bytes
      BY <1>2, <2>0, <2>2, <3>1 DEF sfree, MemoryList
    <3>3. Good(g) /\ Kept(h, g)
      BY <1>2, sfreeTakes
    <3> HIDE DEF g
    <3>4. /\ DOMAIN g.blocks = DOMAIN h.blocks /\ g.blocks[i].is_free
          /\ \A j \in DOMAIN h.blocks : j # i => g.blocks[j].is_free = h.blocks[j].is_free
      BY <3>1, <3>2 DEF MallocMetadata
    <3>5. Len(g.blocks) = Len(h.blocks)
      BY <3>3, <3>4, SameLength
    <3> QED BY <2>2, <3>2, <3>3, <3>4, <3>5, Recounted
  <2> QED BY <2>1, <2>2
<1> QED BY <1>1, <1>2

LEMMA GrownAgrees ==
  ASSUME NEW h, Good(h), Agree(h), NEW size \in 1..SIZE_LIMIT,
         h.brk + (size + MetaSize) <= HeapMax
  PROVE  Agree(Grown(h, size).heap)
<1> DEFINE g == Grown(h, size).heap
           b == [addr |-> h.brk, size |-> size, is_free |-> FALSE, content |-> Junk]
           n == Len(h.blocks)
<1>0. /\ h \in MemoryList /\ n \in Nat /\ DOMAIN h.blocks = 1..n
      /\ h.blocks \in Seq(MallocMetadata) /\ MetaSize \in Nat
  BY BlockTypes, MetaSizeAssumption DEF Good
<1>1. Good(g) /\ Kept(h, g)
  BY GrownGives DEF Gives
<1>2. /\ g.blocks = Append(h.blocks, b)
      /\ g.num_free_blocks = h.num_free_blocks
      /\ g.num_free_bytes = h.num_free_bytes
      /\ g.num_allocated_blocks = h.num_allocated_blocks + 1
      /\ g.num_allocated_bytes = h.num_allocated_bytes + size
      /\ g.num_meta_data_bytes = h.num_meta_data_bytes + MetaSize
  BY <1>0 DEF Grown, MemoryList
<1>b. b.size = size /\ ~b.is_free
  OBVIOUS
<1> HIDE DEF g, b
<1>3. /\ Len(g.blocks) = n + 1 /\ DOMAIN g.blocks = 1..(n + 1)
      /\ \A j \in 1..n : g.blocks[j] = h.blocks[j]
      /\ g.blocks[n + 1] = b
  BY <1>0, <1>2
<1>4. DOMAIN g.blocks = 1..n \cup {n + 1} /\ n + 1 \notin 1..n
  BY <1>0, <1>3
<1>5. g \in MemoryList
  BY <1>1 DEF Good
<1>6. FreeIndices(g) = FreeIndices(h)
  BY <1>0, <1>3, <1>4, <1>b DEF FreeIndices
<1>7. Bytes(g, FreeIndices(g)) = Bytes(h, FreeIndices(h))
  <2>1. FreeIndices(h) \subseteq 1..n
    BY <1>0 DEF FreeIndices
  <2>2. PICK F : F = FreeIndices(h)
    OBVIOUS
  <2>3. \A j \in F : g.blocks[j].size = h.blocks[j].size
    BY <1>3, <2>1, <2>2
  <2>4. Bytes(g, F) = Bytes(h, F)
    BY <2>3, SameBytes
  <2> QED BY <1>6, <2>2, <2>4
<1>8. Bytes(g, 1..n) = Bytes(h, 1..n)
  BY <1>3, SameBytes
<1>9. Cardinality(Bytes(g, DOMAIN g.blocks)) = Cardinality(Bytes(h, DOMAIN h.blocks)) + size
  <2>1. 1..n \in SUBSET (DOMAIN g.blocks) /\ n + 1 \in DOMAIN g.blocks
    BY <1>4
  <2>2. PICK m, S : m = n + 1 /\ S = 1..n
    OBVIOUS
  <2>3. m \in DOMAIN g.blocks /\ S \in SUBSET (DOMAIN g.blocks) /\ m \notin S
        /\ DOMAIN g.blocks = S \cup {m} /\ g.blocks[m].size = size
    BY <1>3, <1>4, <1>b, <2>1, <2>2
  <2>4. Cardinality(Bytes(g, S \cup {m})) = Cardinality(Bytes(g, S)) + g.blocks[m].size
    BY <1>5, <2>3, BytesAdded
  <2> QED BY <1>0, <1>8, <2>2, <2>3, <2>4
<1>10. Len(g.blocks) * MetaSize = n * MetaSize + MetaSize
  <2> HIDE DEF n
  <2> QED BY <1>0, <1>3
<1>11. Agree(g)
  BY <1>2, <1>3, <1>6, <1>7, <1>9, <1>10 DEF Agree
<1> QED BY <1>11 DEF g

(* The statistics agree with the list after each function.                 *)
LEMMA smallocAgrees ==
  ASSUME NEW h, Good(h), Agree(h), NEW size \in Nat, NEW granted \in BOOLEAN
  PROVE  Agree(smalloc(h, size, granted).heap)
<1>1. CASE size = 0 \/ size > SIZE_LIMIT
  BY <1>1 DEF smalloc, Failed
<1>2. CASE ~(size = 0 \/ size > SIZE_LIMIT) /\ Fits(h, size) # {}
  BY <1>2, FirstFits, ReusedAgrees DEF smalloc, Good
<1>3. CASE ~(size = 0 \/ size > SIZE_LIMIT) /\ Fits(h, size) = {}
  BY <1>3, GrownAgrees, LimitAssumption DEF smalloc, Failed
<1> QED BY <1>1, <1>2, <1>3

LEMMA scallocAgrees ==
  ASSUME NEW h, Good(h), Agree(h), NEW num \in Nat, NEW size \in Nat, NEW granted \in BOOLEAN
  PROVE  Agree(scalloc(h, num, size, granted).heap)
<1> DEFINE n == (num * size) % WordMod
           got == smalloc(h, n, granted)
           i == IndexOf(got.heap, got.p)
           g == [got.heap EXCEPT !.blocks[i].content = Zero]
<1>1. n \in Nat
  <2>1. num * size \in Nat /\ WordMod \in Nat /\ WordMod > 0
    BY WordAssumption, LimitAssumption, MetaSizeAssumption
  <2> HIDE DEF n
  <2> QED BY <2>1 DEF n
<1>2. (got = Failed(h) \/ Gives(h, got, n)) /\ Agree(got.heap)
  <2> HIDE DEF n
  <2> QED BY <1>1, smallocGives, smallocAgrees
<1>3. CASE got = Failed(h)
  BY <1>3 DEF scalloc, Failed
<1>4. CASE Gives(h, got, n)
  <2>1. scalloc(h, num, size, granted) = [heap |-> g, p |-> got.p]
    BY <1>4 DEF scalloc, Gives
  <2> HIDE DEF got, n
  <2>2. i \in DOMAIN got.heap.blocks /\ Good(got.heap)
    BY <1>4, GivesBlock DEF Gives
  <2>3. Agree(g)
    BY <1>2, <2>2, WrittenAgrees
  <2> HIDE DEF g
  <2> QED BY <2>1, <2>3
<1> QED BY <1>2, <1>3, <1>4

LEMMA sreallocAgrees ==
  ASSUME NEW h, Good(h), Agree(h), NEW oldp \in InUse(h), NEW size \in Nat,
         NEW granted \in BOOLEAN
  PROVE  Agree(srealloc(h, oldp, size, granted).heap)
<1> DEFINE result == srealloc(h, oldp, size, granted)
           got == smalloc(h, size, granted)
<1>0. PICK k \in DOMAIN h.blocks : oldp = Payload(h.blocks[k])
  BY DEF InUse
<1>1. IndexOf(h, oldp) = k /\ oldp # NULL
  BY <1>0, IndexOfPayload, BlockTypes DEF Good
<1>2. CASE h.blocks[k].size >= size
  BY <1>1, <1>2 DEF srealloc
<1>3. CASE ~(h.blocks[k].size >= size) /\ got = Failed(h)
  BY <1>1, <1>3 DEF srealloc, Failed
<1>4. CASE ~(h.blocks[k].size >= size) /\ Gives(h, got, size)
  <2> DEFINE i == IndexOf(got.heap, got.p)
             j == IndexOf(got.heap, oldp)
             moved == memmove(got.heap, got.p, oldp)
  <2>1. result = [heap |-> sfree(moved, oldp), p |-> got.p]
    BY <1>1, <1>4 DEF srealloc, Gives
  <2>a. Agree(got.heap)
    BY smallocAgrees
  <2> HIDE DEF got
  <2>2. /\ i \in DOMAIN got.heap.blocks /\ Good(got.heap) /\ Kept(h, got.heap)
        /\ k \in DOMAIN got.heap.blocks /\ Payload(got.heap.blocks[k]) = oldp
    BY <1>0, <1>4, GivesBlock DEF Gives, Kept, Payload
  <2>3. j = k /\ got.heap.blocks[j].content \in Values \cup {Junk, Zero}
    BY <2>2, IndexOfPayload, BlockTypes DEF Good, MallocMetadata
  <2>4. Good(moved) /\ Kept(got.heap, moved)
    BY <2>2, <2>3, WriteKeeps DEF memmove
  <2>5. Agree(moved)
    BY <2>a, <2>2, <2>3, WrittenAgrees DEF memmove
  <2> HIDE DEF moved, i, j
  <2>6. k \in DOMAIN moved.blocks /\ Payload(moved.blocks[k]) = oldp
    BY <2>2, <2>4 DEF Kept, Payload
  <2>7. Agree(sfree(moved, oldp))
    BY <2>4, <2>5, <2>6, sfreeAgrees
  <2> QED BY <2>1, <2>7
<1> QED BY <1>2, <1>3, <1>4, smallocGives

(* malloc_2: the five statistics are what a walk over the list would       *)
(* count, whatever the client calls in whatever order, also when it frees  *)
(* a pointer twice and when an sbrk fails.                                 *)
THEOREM StatisticsAgree == Spec => []CountersAgree
<1>1. Init => CountersAgree
  <2> SUFFICES ASSUME Init PROVE CountersAgree
    OBVIOUS
  <2>1. /\ Heap.blocks = <<>> /\ DOMAIN Heap.blocks = {} /\ Len(Heap.blocks) = 0
        /\ Heap.num_free_blocks = 0 /\ Heap.num_free_bytes = 0
        /\ Heap.num_allocated_blocks = 0 /\ Heap.num_allocated_bytes = 0
        /\ Heap.num_meta_data_bytes = 0
    BY DEF Init
  <2>2. FreeIndices(Heap) = {}
    BY <2>1 DEF FreeIndices
  <2>3. Bytes(Heap, {}) = {}
    BY DEF Bytes
  <2>4. Cardinality({}) = 0 /\ 0 * MetaSize = 0
    BY FS_EmptySet, MetaSizeAssumption
  <2> QED BY <2>1, <2>2, <2>3, <2>4 DEF CountersAgree, Agree
<1>2. ASSUME Inv, CountersAgree, [Next]_vars PROVE CountersAgree'
  <2>0. Good(Heap) /\ Agree(Heap) /\ InUse(Heap) = DOMAIN live
    BY <1>2 DEF Inv, TypeOK, Good, BlocksApart, InUseIsLive, CountersAgree
  <2>a. Sizes \subseteq Nat /\ Nums \subseteq Nat
    BY ArgumentsAssumption, WordAssumption
  <2>b. SUFFICES Agree(Heap')
    BY DEF CountersAgree, Agree, Bytes, FreeIndices
  <2>1. CASE Malloc
    BY <2>0, <2>1, <2>a, smallocAgrees DEF Malloc
  <2>2. CASE Calloc
    <3>1. PICK num \in Nums, size \in Sizes, granted \in BOOLEAN :
            Heap' = scalloc(Heap, num, size, granted).heap
      BY <2>2 DEF Calloc
    <3>2. num \in Nat /\ size \in Nat
      BY <2>a
    <3> QED BY <2>0, <3>1, <3>2, scallocAgrees
  <2>3. CASE Realloc
    <3>1. PICK p \in DOMAIN live \cup {NULL}, size \in Sizes, granted \in BOOLEAN :
            Heap' = srealloc(Heap, p, size, granted).heap
      BY <2>3 DEF Realloc
    <3>2. size \in Nat
      BY <2>a
    <3>3. CASE p = NULL
      <4>1. srealloc(Heap, p, size, granted) = smalloc(Heap, size, granted)
        BY <3>3 DEF srealloc
      <4> QED BY <2>0, <3>1, <3>2, <4>1, smallocAgrees
    <3>4. CASE p # NULL
      <4>1. p \in InUse(Heap)
        BY <2>0, <3>4
      <4> QED BY <2>0, <3>1, <3>2, <4>1, sreallocAgrees
    <3> QED BY <3>3, <3>4
  <2>4. CASE Free
    <3>1. PICK p \in {NULL} \cup DOMAIN live \cup
                       {Payload(Heap.blocks[i]) : i \in FreeIndices(Heap)} :
            Heap' = sfree(Heap, p)
      BY <2>4 DEF Free
    <3>2. p = NULL \/ \E i \in DOMAIN Heap.blocks : p = Payload(Heap.blocks[i])
      BY <2>0 DEF InUse, FreeIndices
    <3> QED BY <2>0, <3>1, <3>2, sfreeAgrees
  <2>5. CASE Write
    <3>1. PICK p \in DOMAIN live, v \in Values :
            Heap' = [Heap EXCEPT !.blocks[IndexOf(Heap, p)].content = v]
      BY <2>5 DEF Write
    <3>2. PICK i \in DOMAIN Heap.blocks : Payload(Heap.blocks[i]) = p
      BY <2>0 DEF InUse
    <3>3. IndexOf(Heap, p) = i
      BY <2>0, <3>2, IndexOfPayload
    <3> QED BY <2>0, <3>1, <3>3, WrittenAgrees
  <2>6. CASE UNCHANGED vars
    BY <2>0, <2>6 DEF vars
  <2> QED BY <1>2, <2>1, <2>2, <2>3, <2>4, <2>5, <2>6 DEF Next
<1> QED BY <1>1, <1>2, Invariant, PTL DEF Spec

-----------------------------------------------------------------------------
(* What the functions do to the contents of the blocks.                    *)
SameContents(h, g) ==
  \A i \in DOMAIN h.blocks : g.blocks[i].content = h.blocks[i].content

(* What the client sees at p.                                              *)
ContentAt(h, p) == h.blocks[IndexOf(h, p)].content

(* A pointer leads to the same block for as long as no block moves.        *)
LEMMA IndexKept ==
  ASSUME NEW h, Good(h), NEW g, Good(g), Kept(h, g), NEW p \in InUse(h)
  PROVE  /\ IndexOf(h, p) \in DOMAIN h.blocks /\ Payload(h.blocks[IndexOf(h, p)]) = p
         /\ IndexOf(g, p) = IndexOf(h, p)
<1>1. PICK i \in DOMAIN h.blocks : Payload(h.blocks[i]) = p
  BY DEF InUse
<1>2. i \in DOMAIN g.blocks /\ Payload(g.blocks[i]) = p
  BY <1>1 DEF Kept, Payload
<1>3. IndexOf(h, p) = i /\ IndexOf(g, p) = i
  BY <1>1, <1>2, IndexOfPayload
<1> QED BY <1>1, <1>3

(* smalloc changes no block's contents.                                    *)
LEMMA smallocSpares ==
  ASSUME NEW h, Good(h), NEW size \in Nat, NEW granted \in BOOLEAN
  PROVE  SameContents(h, smalloc(h, size, granted).heap)
<1>0. h \in MemoryList /\ h.blocks \in Seq(MallocMetadata)
  BY BlockTypes DEF Good
<1>1. SameContents(h, Failed(h).heap)
  BY DEF SameContents, Failed
<1>2. ASSUME NEW i \in Fits(h, size) PROVE SameContents(h, Reused(h, i).heap)
  <2>1. i \in DOMAIN h.blocks /\ h.blocks[i] \in MallocMetadata
    BY <1>0, BlockTypes DEF Fits
  <2>2. Reused(h, i).heap.blocks = [h.blocks EXCEPT ![i] = [h.blocks[i] EXCEPT !.is_free = FALSE]]
    BY <1>0, <2>1 DEF Reused, MemoryList
  <2> QED BY <2>1, <2>2 DEF SameContents, MallocMetadata
<1>3. SameContents(h, Grown(h, size).heap)
  <2> DEFINE block == [addr |-> h.brk, size |-> size, is_free |-> FALSE, content |-> Junk]
  <2>1. Grown(h, size).heap.blocks = Append(h.blocks, block)
    BY <1>0 DEF Grown, MemoryList
  <2> HIDE DEF block
  <2> QED BY <1>0, <2>1 DEF SameContents
<1> QED BY <1>0, <1>1, <1>2, <1>3, FirstFits DEF smalloc

(* A write to one block's contents leaves the other pointers' contents.    *)
LEMMA WrittenOnly ==
  ASSUME NEW h, Good(h), NEW i \in DOMAIN h.blocks, NEW v \in Values \cup {Junk, Zero},
         NEW g, g = [h EXCEPT !.blocks[i].content = v]
  PROVE  /\ g.blocks[i].content = v
         /\ \A j \in DOMAIN h.blocks : j # i => g.blocks[j].content = h.blocks[j].content
<1>1. h \in MemoryList /\ h.blocks[i] \in MallocMetadata
  BY BlockTypes DEF Good
<1>2. g.blocks = [h.blocks EXCEPT ![i] = [h.blocks[i] EXCEPT !.content = v]]
  BY <1>1 DEF MemoryList
<1> QED BY <1>1, <1>2 DEF MallocMetadata

(* sfree changes no block's contents.                                      *)
LEMMA sfreeSpares ==
  ASSUME NEW h, Good(h), NEW i \in DOMAIN h.blocks
  PROVE  SameContents(h, sfree(h, Payload(h.blocks[i])))
<1> DEFINE p == Payload(h.blocks[i])
<1>1. h \in MemoryList /\ h.blocks[i] \in MallocMetadata /\ IndexOf(h, p) = i
  BY BlockTypes, IndexOfPayload DEF Good
<1> HIDE DEF p
<1>2. CASE p = NULL \/ h.blocks[i].is_free
  BY <1>1, <1>2 DEF sfree, SameContents, p
<1>3. CASE ~(p = NULL \/ h.blocks[i].is_free)
  <2>1. sfree(h, p).blocks = [h.blocks EXCEPT ![i] = [h.blocks[i] EXCEPT !.is_free = TRUE]]
    BY <1>1, <1>3 DEF sfree, MemoryList
  <2> QED BY <1>1, <2>1 DEF SameContents, MallocMetadata, p
<1> QED BY <1>2, <1>3

(* A call that moves no block and changes no contents leaves what the      *)
(* client sees.                                                            *)
LEMMA SparedContents ==
  ASSUME NEW h, Good(h), NEW g, Good(g), Kept(h, g), SameContents(h, g), NEW q \in InUse(h)
  PROVE  ContentAt(g, q) = ContentAt(h, q)
  BY IndexKept DEF SameContents, ContentAt

(* scalloc's block reads as zero, and no other block in use is touched.    *)
LEMMA scallocZeroes ==
  ASSUME NEW h, Good(h), NEW num \in Nat, NEW size \in Nat, NEW granted \in BOOLEAN,
         NEW got, got = scalloc(h, num, size, granted), got # Failed(h)
  PROVE  /\ ContentAt(got.heap, got.p) = Zero
         /\ \A q \in InUse(h) : ContentAt(got.heap, q) = ContentAt(h, q)
<1> DEFINE n == (num * size) % WordMod
           had == smalloc(h, n, granted)
           i == IndexOf(had.heap, had.p)
           g == [had.heap EXCEPT !.blocks[i].content = Zero]
<1>1. n \in Nat
  <2>1. num * size \in Nat /\ WordMod \in Nat /\ WordMod > 0
    BY WordAssumption, LimitAssumption, MetaSizeAssumption
  <2> HIDE DEF n
  <2> QED BY <2>1 DEF n
<1>2. (had = Failed(h) \/ Gives(h, had, n)) /\ SameContents(h, had.heap)
  <2> HIDE DEF n
  <2> QED BY <1>1, smallocGives, smallocSpares
<1>3. had # Failed(h)
  <2>1. got = IF had.p = NULL THEN had ELSE [heap |-> g, p |-> had.p]
    BY DEF scalloc
  <2> HIDE DEF had, n, g
  <2> QED BY <2>1 DEF Failed
<1>4. got = [heap |-> g, p |-> had.p]
  BY <1>2, <1>3 DEF scalloc, Gives
<1> HIDE DEF had, n
<1>5. /\ i \in DOMAIN had.heap.blocks /\ Payload(had.heap.blocks[i]) = had.p
      /\ Good(had.heap) /\ Kept(h, had.heap) /\ had.p \notin InUse(h)
  BY <1>2, <1>3, GivesBlock DEF Gives
<1>6. /\ g.blocks[i].content = Zero
      /\ \A j \in DOMAIN had.heap.blocks : j # i => g.blocks[j].content = had.heap.blocks[j].content
  <2>1. g = [had.heap EXCEPT !.blocks[i].content = Zero]
    OBVIOUS
  <2> HIDE DEF g, i
  <2> QED BY <1>5, <2>1, WrittenOnly
<1>7. Good(g) /\ Kept(had.heap, g) /\ Kept(h, g)
  BY <1>5, WriteKeeps, KeptTransitive
<1> HIDE DEF g, i
<1>8. IndexOf(g, had.p) = i
  <2>1. i \in DOMAIN g.blocks /\ Payload(g.blocks[i]) = had.p
    BY <1>5, <1>7 DEF Kept, Payload
  <2> QED BY <1>7, <2>1, IndexOfPayload
<1>9. ASSUME NEW q \in InUse(h) PROVE ContentAt(g, q) = ContentAt(h, q)
  <2>1. /\ IndexOf(g, q) = IndexOf(h, q) /\ IndexOf(h, q) \in DOMAIN h.blocks
        /\ Payload(h.blocks[IndexOf(h, q)]) = q
    BY <1>7, IndexKept
  <2>2. IndexOf(h, q) \in DOMAIN had.heap.blocks /\ Payload(had.heap.blocks[IndexOf(h, q)]) = q
    BY <1>5, <2>1 DEF Kept, Payload
  <2>3. IndexOf(h, q) # i
    BY <1>5, <2>2
  <2> QED BY <1>2, <1>6, <2>1, <2>2, <2>3 DEF ContentAt, SameContents
<1> QED BY <1>4, <1>6, <1>8, <1>9 DEF ContentAt

(* srealloc takes the contents along and touches no other block in use.    *)
LEMMA sreallocCopies ==
  ASSUME NEW h, Good(h), NEW oldp \in InUse(h), NEW size \in Nat, NEW granted \in BOOLEAN,
         NEW got, got = srealloc(h, oldp, size, granted), Moves(h, oldp, got, size)
  PROVE  /\ ContentAt(got.heap, got.p) = ContentAt(h, oldp)
         /\ \A q \in InUse(h) \ {oldp} : ContentAt(got.heap, q) = ContentAt(h, q)
<1> DEFINE had == smalloc(h, size, granted)
           i == IndexOf(had.heap, had.p)
           moved == memmove(had.heap, had.p, oldp)
<1>1. PICK k \in DOMAIN h.blocks : oldp = Payload(h.blocks[k])
  BY DEF InUse
<1>2. IndexOf(h, oldp) = k /\ oldp # NULL
  BY <1>1, IndexOfPayload, BlockTypes DEF Good
<1>3. got.p \notin InUse(h) /\ got.p # oldp /\ got.p # NULL
  BY DEF Moves
<1>4. had # Failed(h) /\ got = [heap |-> sfree(moved, oldp), p |-> had.p]
  BY <1>2, <1>3 DEF srealloc, Failed
<1>5. Gives(h, had, size) /\ SameContents(h, had.heap)
  BY <1>4, smallocGives, smallocSpares
<1> HIDE DEF had
<1>6. /\ i \in DOMAIN had.heap.blocks /\ Payload(had.heap.blocks[i]) = had.p
      /\ Good(had.heap) /\ Kept(h, had.heap) /\ had.p \notin InUse(h)
      /\ k \in DOMAIN had.heap.blocks /\ Payload(had.heap.blocks[k]) = oldp
  BY <1>1, <1>5, GivesBlock DEF Gives, Kept, Payload
<1>7. IndexOf(had.heap, oldp) = k /\ had.heap.blocks[k].content = h.blocks[k].content
      /\ had.heap.blocks[k].content \in Values \cup {Junk, Zero} /\ i # k
  <2>1. IndexOf(had.heap, oldp) = k
    BY <1>6, IndexOfPayload
  <2>2. had.heap.blocks[k].content = h.blocks[k].content
    BY <1>5 DEF SameContents
  <2>3. had.heap.blocks[k].content \in Values \cup {Junk, Zero}
    BY <1>6, BlockTypes DEF Good, MallocMetadata
  <2>4. i # k
    BY <1>6
  <2> QED BY <2>1, <2>2, <2>3, <2>4
<1>8. /\ moved.blocks[i].content = h.blocks[k].content
      /\ \A j \in DOMAIN had.heap.blocks : j # i =>
           moved.blocks[j].content = had.heap.blocks[j].content
  <2>1. moved = [had.heap EXCEPT !.blocks[i].content = h.blocks[k].content]
    BY <1>7 DEF memmove
  <2> HIDE DEF moved, i
  <2> QED BY <1>6, <1>7, <2>1, WrittenOnly
<1>9. Good(moved) /\ Kept(had.heap, moved) /\ DOMAIN moved.blocks = DOMAIN had.heap.blocks
  BY <1>6, <1>7, WriteKeeps DEF memmove
<1> HIDE DEF moved, i
<1>10. k \in DOMAIN moved.blocks /\ Payload(moved.blocks[k]) = oldp
  BY <1>6, <1>9 DEF Kept, Payload
<1>11. /\ Good(got.heap) /\ SameContents(moved, got.heap) /\ Kept(moved, got.heap)
  BY <1>4, <1>9, <1>10, sfreeTakes, sfreeSpares
<1>12. Kept(had.heap, got.heap) /\ Kept(h, got.heap)
  BY <1>6, <1>9, <1>11, KeptTransitive
<1>13. IndexOf(got.heap, got.p) = i
  <2>1. i \in DOMAIN got.heap.blocks /\ Payload(got.heap.blocks[i]) = had.p
    BY <1>6, <1>12 DEF Kept, Payload
  <2> QED BY <1>4, <1>11, <2>1, IndexOfPayload
<1>14. got.heap.blocks[i].content = h.blocks[k].content
  BY <1>6, <1>8, <1>9, <1>11 DEF SameContents
<1>15. ASSUME NEW q \in InUse(h) \ {oldp} PROVE ContentAt(got.heap, q) = ContentAt(h, q)
  <2>1. /\ IndexOf(got.heap, q) = IndexOf(h, q) /\ IndexOf(h, q) \in DOMAIN h.blocks
        /\ Payload(h.blocks[IndexOf(h, q)]) = q
    BY <1>11, <1>12, IndexKept
  <2>2. IndexOf(h, q) \in DOMAIN had.heap.blocks /\ Payload(had.heap.blocks[IndexOf(h, q)]) = q
    BY <1>6, <2>1 DEF Kept, Payload
  <2>3. IndexOf(h, q) # i
    BY <1>6, <2>2
  <2> QED BY <1>5, <1>8, <1>9, <1>11, <2>1, <2>2, <2>3 DEF ContentAt, SameContents
<1> QED BY <1>2, <1>13, <1>14, <1>15 DEF ContentAt

(* Regions the client has start at an address and overlap no other.        *)
LEMMA RegionsApart ==
  ASSUME NEW h, Good(h), NEW table, NEW p \in DOMAIN table,
         \A q \in DOMAIN table : table[q].asked \in Nat /\ Holds(h, q, table[q].asked)
  PROVE  /\ p \in 1..HeapMax
         /\ \A q \in DOMAIN table : q # p => \/ p + table[p].asked <= q
                                             \/ q + table[q].asked <= p
<1>0. h \in MemoryList /\ h.brk \in 0..HeapMax
  BY DEF Good, MemoryList
<1>1. PICK i \in DOMAIN h.blocks :
        Payload(h.blocks[i]) = p /\ table[p].asked <= h.blocks[i].size
  BY DEF Holds
<1>2. /\ h.blocks[i].addr \in Nat /\ h.blocks[i].size \in Nat /\ i \in Nat
      /\ p = h.blocks[i].addr + MetaSize /\ p \in Nat /\ p # 0
      /\ p + h.blocks[i].size <= h.brk
  BY <1>0, <1>1, BlockTypes DEF Good, InOrder, Payload, NULL
<1>3. p \in 1..HeapMax
  BY <1>0, <1>2, LimitAssumption
<1>4. ASSUME NEW q \in DOMAIN table, q # p
      PROVE  p + table[p].asked <= q \/ q + table[q].asked <= p
  <2>1. PICK j \in DOMAIN h.blocks :
          Payload(h.blocks[j]) = q /\ table[q].asked <= h.blocks[j].size
    BY DEF Holds
  <2>2. /\ h.blocks[j].addr \in Nat /\ h.blocks[j].size \in Nat /\ j \in Nat
        /\ q = h.blocks[j].addr + MetaSize
    BY <1>0, <2>1, BlockTypes DEF Payload
  <2>3. i < j \/ j < i
    BY <1>1, <1>2, <1>4, <2>1, <2>2
  <2>4. i < j => p + h.blocks[i].size <= h.blocks[j].addr
    BY <1>1 DEF Good, InOrder
  <2>5. j < i => q + h.blocks[j].size <= h.blocks[i].addr
    BY <2>1 DEF Good, InOrder
  <2>6. table[p].asked \in Nat /\ table[q].asked \in Nat
    OBVIOUS
  <2> QED BY <1>1, <1>2, <2>1, <2>2, <2>3, <2>4, <2>5, <2>6, MetaSizeAssumption
<1> QED BY <1>3, <1>4

(* The same of the client's next regions.                                  *)
LEMMA NextApart ==
  ASSUME Inv', LargeEnough', NEW p \in DOMAIN live'
  PROVE  /\ p \in 1..HeapMax
         /\ \A q \in DOMAIN live' : q # p => \/ p + live'[p].asked <= q
                                             \/ q + live'[q].asked <= p
<1>1. Good(Heap')
  BY DEF Inv, TypeOK, BlocksApart, Good
<1>2. \A q \in DOMAIN live' : live'[q].asked \in Nat /\ Holds(Heap', q, live'[q].asked)
  BY DEF Inv, TypeOK, LargeEnough
<1> QED BY <1>1, <1>2, RegionsApart

(* What the contract sees of a region, now and after a step.               *)
LEMMA RegionsAre ==
  /\ DOMAIN Regions = DOMAIN live
  /\ \A p \in DOMAIN live :
       Regions[p] = [asked |-> live[p].asked,
                     value |-> IF live[p].written THEN ContentAt(Heap, p) ELSE Junk]
  BY DEF Regions, ContentAt

LEMMA RegionsBecome ==
  /\ DOMAIN Regions' = DOMAIN live' /\ Regions' = [p \in DOMAIN live' |-> Regions'[p]]
  /\ \A p \in DOMAIN live' :
       Regions'[p] = [asked |-> live'[p].asked,
                      value |-> IF live'[p].written THEN ContentAt(Heap', p) ELSE Junk]
  BY DEF Regions, ContentAt

(* The lengths clients ask for, calloc's products among them.              *)
Asked == Sizes \cup {num * size : num \in Nums, size \in Sizes}

(* The contract allows a block given to the client as a new region.        *)
LEMMA GivenAllocates ==
  ASSUME Inv, Inv', LargeEnough', NEW got, NEW n \in Nat,
         NEW asked \in Asked,
         NEW written \in BOOLEAN, Gives(Heap, got, n), Heap' = got.heap,
         Has(got, asked, written),
         \A q \in InUse(Heap) : ContentAt(Heap', q) = ContentAt(Heap, q),
         written => ContentAt(Heap', got.p) = Zero
  PROVE  Contract!Allocate
<1> DEFINE p == got.p
           v == IF written THEN Zero ELSE Junk
<1>1. /\ DOMAIN live' = DOMAIN live \cup {p} /\ p \notin DOMAIN live
      /\ live'[p] = [asked |-> asked, written |-> written]
      /\ \A q \in DOMAIN live : live'[q] = live[q] /\ ContentAt(Heap', q) = ContentAt(Heap, q)
  <2>1. p # NULL /\ p \notin DOMAIN live
    BY DEF Gives, Inv, InUseIsLive
  <2>2. /\ DOMAIN live' = DOMAIN live \cup {p}
        /\ live'[p] = [asked |-> asked, written |-> written]
        /\ \A q \in DOMAIN live : q # p => live'[q] = live[q]
    BY <2>1, HasLive
  <2> QED BY <2>1, <2>2 DEF Inv, InUseIsLive
<1>2. /\ p \in 1..HeapMax
      /\ \A q \in DOMAIN live : p # q /\ (p + asked <= q \/ q + live[q].asked <= p)
  <2>1. /\ p \in 1..HeapMax
        /\ \A q \in DOMAIN live' : q # p => \/ p + live'[p].asked <= q
                                            \/ q + live'[q].asked <= p
    BY <1>1, NextApart
  <2> QED BY <1>1, <2>1
<1>3. ContentAt(Heap', p) = Zero \/ ~written
  OBVIOUS
<1> HIDE DEF p
<1>4. \A q \in DOMAIN live : Regions'[q] = Regions[q]
  BY <1>1, RegionsAre, RegionsBecome
<1>5. Regions'[p] = [asked |-> asked, value |-> v]
  <2>1. p \in DOMAIN live' /\ live'[p].asked = asked /\ live'[p].written = written
    BY <1>1
  <2>2. Regions'[p] = [asked |-> asked,
                       value |-> IF written THEN ContentAt(Heap', p) ELSE Junk]
    BY <2>1, RegionsBecome
  <2> QED BY <1>3, <2>2
<1> HIDE DEF v
<1>6. Regions' = Contract!With(Regions, p, [asked |-> asked, value |-> v])
  BY <1>1, <1>4, <1>5, RegionsAre, RegionsBecome DEF Contract!With
<1>7. Contract!Apart(p, asked, Regions)
  BY <1>2, RegionsAre DEF Contract!Apart
<1>8. v \in {Contract!Junk, Contract!Zero}
  BY DEF v, Zero, Junk, Contract!Junk, Contract!Zero
<1> QED BY <1>2, <1>6, <1>7, <1>8 DEF Contract!Allocate, Asked

(* srealloc of a region the client has, in place or to a block of its own  *)
LEMMA MovedReallocates ==
  ASSUME Inv, Inv', LargeEnough', NEW p \in DOMAIN live, NEW q, NEW size \in Sizes,
         live' = With(Without(p), q, [asked |-> size, written |-> live[p].written]),
         \/ Heap' = Heap /\ q = p
         \/ /\ q \notin DOMAIN live /\ ContentAt(Heap', q) = ContentAt(Heap, p)
            /\ \A r \in DOMAIN live \ {p} : ContentAt(Heap', r) = ContentAt(Heap, r)
  PROVE  Contract!Reallocate
<1>1. /\ DOMAIN live' = (DOMAIN live \ {p}) \cup {q} /\ q \notin DOMAIN live \ {p}
      /\ live'[q] = [asked |-> size, written |-> live[p].written]
      /\ \A r \in DOMAIN live \ {p} : live'[r] = live[r]
  BY DEF With, Without
<1>2. /\ ContentAt(Heap', q) = ContentAt(Heap, p)
      /\ \A r \in DOMAIN live \ {p} : ContentAt(Heap', r) = ContentAt(Heap, r)
  OBVIOUS
<1>3. /\ q \in 1..HeapMax
      /\ \A r \in DOMAIN live \ {p} : q # r /\ (q + size <= r \/ r + live[r].asked <= q)
  <2>1. /\ q \in 1..HeapMax
        /\ \A r \in DOMAIN live' : r # q => \/ q + live'[q].asked <= r
                                            \/ r + live'[r].asked <= q
    BY <1>1, NextApart
  <2> QED BY <1>1, <2>1
<1> DEFINE rest == Contract!Without(p)
<1>4. DOMAIN rest = DOMAIN live \ {p} /\ \A r \in DOMAIN live \ {p} : rest[r] = Regions[r]
  BY RegionsAre DEF Contract!Without
<1> HIDE DEF rest
<1>5. \A r \in DOMAIN live \ {p} : Regions'[r] = rest[r]
  BY <1>1, <1>2, <1>4, RegionsAre, RegionsBecome
<1>6. Regions'[q] = [asked |-> size, value |-> Regions[p].value]
  BY <1>1, <1>2, RegionsAre, RegionsBecome
<1>7. Regions' = Contract!With(rest, q, [asked |-> size, value |-> Regions[p].value])
  BY <1>1, <1>4, <1>5, <1>6, RegionsBecome DEF Contract!With
<1>8. Contract!Apart(q, size, rest)
  BY <1>3, <1>4, RegionsAre DEF Contract!Apart
<1> QED BY <1>3, <1>7, <1>8, RegionsAre DEF Contract!Reallocate, rest

(* sfree gives a region back to the contract.                              *)
LEMMA FreeReleases ==
  ASSUME Inv, Free
  PROVE  Contract!Release \/ UNCHANGED Regions
<1>0. Good(Heap) /\ InUse(Heap) = DOMAIN live
  BY DEF Inv, TypeOK, Good, BlocksApart, InUseIsLive
<1>1. PICK p \in {NULL} \cup DOMAIN live \cup {Payload(Heap.blocks[i]) : i \in FreeIndices(Heap)} :
        Heap' = sfree(Heap, p) /\ live' = Without(p)
  BY DEF Free
<1>2. p = NULL \/ \E i \in DOMAIN Heap.blocks : p = Payload(Heap.blocks[i])
  BY <1>0, <1>1 DEF InUse, FreeIndices
<1>3. Good(Heap') /\ Kept(Heap, Heap')
  BY <1>0, <1>1, <1>2, sfreeTakes
<1>4. SameContents(Heap, Heap')
  <2>1. CASE p = NULL
    BY <1>1, <2>1 DEF sfree, SameContents
  <2>2. CASE \E i \in DOMAIN Heap.blocks : p = Payload(Heap.blocks[i])
    BY <1>0, <1>1, <2>2, sfreeSpares
  <2> QED BY <1>2, <2>1, <2>2
<1>5. \A q \in DOMAIN live : ContentAt(Heap', q) = ContentAt(Heap, q)
  BY <1>0, <1>3, <1>4, SparedContents
<1>6. DOMAIN live' = DOMAIN live \ {p} /\ \A q \in DOMAIN live' : live'[q] = live[q]
  BY <1>1 DEF Without
<1>7. \A q \in DOMAIN live' : Regions'[q] = Regions[q]
  BY <1>5, <1>6, RegionsAre, RegionsBecome
<1>8. CASE p \in DOMAIN live
  <2>1. Regions' = Contract!Without(p)
    BY <1>6, <1>7, RegionsAre, RegionsBecome DEF Contract!Without
  <2> QED BY <1>8, <2>1, RegionsAre DEF Contract!Release
<1>9. CASE p \notin DOMAIN live
  <2>1. Regions = [q \in DOMAIN live |-> Regions[q]]
    BY DEF Regions
  <2> QED BY <1>6, <1>7, <1>9, <2>1, RegionsBecome
<1> QED BY <1>8, <1>9

(* The client's writes are the contract's.                                 *)
LEMMA WriteWrites ==
  ASSUME Inv, Write
  PROVE  Contract!Write
<1>0. Good(Heap) /\ InUse(Heap) = DOMAIN live
  BY DEF Inv, TypeOK, Good, BlocksApart, InUseIsLive
<1>1. PICK p \in DOMAIN live, v \in Values :
        /\ Heap' = [Heap EXCEPT !.blocks[IndexOf(Heap, p)].content = v]
        /\ live' = [live EXCEPT ![p].written = TRUE]
  BY DEF Write
<1> DEFINE i == IndexOf(Heap, p)
<1>2. i \in DOMAIN Heap.blocks /\ Payload(Heap.blocks[i]) = p
  BY <1>0, IndexKept DEF Kept
<1> HIDE DEF i
<1>3. Heap' = [Heap EXCEPT !.blocks[i].content = v]
  BY <1>1 DEF i
<1>4. Good(Heap') /\ Kept(Heap, Heap')
  BY <1>0, <1>2, <1>3, WriteKeeps
<1>5. /\ Heap'.blocks[i].content = v
      /\ \A j \in DOMAIN Heap.blocks : j # i => Heap'.blocks[j].content = Heap.blocks[j].content
  BY <1>0, <1>2, <1>3, WrittenOnly
<1>6. ContentAt(Heap', p) = v
  BY <1>0, <1>4, <1>5, IndexKept DEF ContentAt, i
<1>7. ASSUME NEW q \in DOMAIN live, q # p PROVE ContentAt(Heap', q) = ContentAt(Heap, q)
  BY <1>0, <1>2, <1>4, <1>5, <1>7, IndexKept DEF ContentAt
<1>8. /\ DOMAIN live' = DOMAIN live /\ live[p] \in [asked : Nat, written : BOOLEAN]
      /\ live'[p] = [live[p] EXCEPT !.written = TRUE]
      /\ \A q \in DOMAIN live : q # p => live'[q] = live[q]
  BY <1>1 DEF Inv, TypeOK
<1>9. Regions'[p] = [Regions[p] EXCEPT !.value = v]
  BY <1>6, <1>8, RegionsAre, RegionsBecome
<1>10. \A q \in DOMAIN live : q # p => Regions'[q] = Regions[q]
  BY <1>7, <1>8, RegionsAre, RegionsBecome
<1>11. Regions' = [Regions EXCEPT ![p].value = v]
  <2>1. Regions = [q \in DOMAIN live |-> Regions[q]]
    BY DEF Regions
  <2> QED BY <1>8, <1>9, <1>10, <2>1, RegionsBecome
<1> QED BY <1>11, RegionsAre DEF Contract!Write

(* A call that fails changes nothing.                                      *)
LEMMA NothingGiven ==
  ASSUME NEW got, got = Failed(Heap), Heap' = got.heap, NEW asked, NEW written,
         Has(got, asked, written)
  PROVE  UNCHANGED Regions
  BY DEF Has, Failed, Regions

(* Every call of the client is a step of the contract, or none.            *)
LEMMA RefinedNext ==
  ASSUME Inv, Inv', LargeEnough, LargeEnough', CallsFit, [Next]_vars
  PROVE  Contract!Next \/ UNCHANGED Regions
<1>0. Good(Heap) /\ InUse(Heap) = DOMAIN live
  BY DEF Inv, TypeOK, Good, BlocksApart, InUseIsLive
<1>a. Sizes \subseteq Nat /\ Nums \subseteq Nat
  BY ArgumentsAssumption, WordAssumption
<1>b. ASSUME NEW size \in Sizes, NEW granted \in BOOLEAN,
             Heap' = smalloc(Heap, size, granted).heap,
             Has(smalloc(Heap, size, granted), size, FALSE)
      PROVE  Contract!Next \/ UNCHANGED Regions
  <2> DEFINE got == smalloc(Heap, size, granted)
  <2>1. size \in Nat
    BY <1>a
  <2>2. (got = Failed(Heap) \/ Gives(Heap, got, size)) /\ SameContents(Heap, got.heap)
    BY <1>0, <2>1, smallocGives, smallocSpares
  <2>3. Heap' = got.heap /\ Has(got, size, FALSE)
    BY <1>b
  <2> HIDE DEF got
  <2>4. CASE got = Failed(Heap)
    BY <2>3, <2>4, NothingGiven
  <2>5. CASE Gives(Heap, got, size)
    <3>1. \A q \in InUse(Heap) : ContentAt(Heap', q) = ContentAt(Heap, q)
      BY <1>0, <2>2, <2>3, <2>5, SparedContents DEF Gives
    <3>2. size \in Asked /\ FALSE \in BOOLEAN
      BY DEF Asked
    <3>3. PICK g : g = got
      OBVIOUS
    <3>4. Gives(Heap, g, size) /\ Heap' = g.heap /\ Has(g, size, FALSE)
      BY <2>3, <2>5, <3>3
    <3>5. Contract!Allocate
      BY <2>1, <3>1, <3>2, <3>4, GivenAllocates
    <3> QED BY <3>5 DEF Contract!Next
  <2> QED BY <2>2, <2>4, <2>5
<1>1. CASE Malloc
  BY <1>1, <1>b DEF Malloc
<1>2. CASE Calloc
  <2>1. PICK num \in Nums, size \in Sizes, granted \in BOOLEAN :
          /\ Heap' = scalloc(Heap, num, size, granted).heap
          /\ Has(scalloc(Heap, num, size, granted), num * size, TRUE)
    BY <1>2 DEF Calloc
  <2> DEFINE got == scalloc(Heap, num, size, granted)
             n == (num * size) % WordMod
  <2>2. num \in Nat /\ size \in Nat /\ n \in Nat
    <3>1. num \in Nat /\ size \in Nat /\ num * size \in Nat /\ WordMod \in Nat /\ WordMod > 0
      BY <1>a, WordAssumption, LimitAssumption, MetaSizeAssumption
    <3> DEFINE product == num * size
    <3>2. product \in Nat
      BY <3>1
    <3> HIDE DEF product
    <3>3. product % WordMod \in Nat
      BY <3>1, <3>2
    <3> QED BY <3>1, <3>3 DEF product
  <2>3. /\ got = Failed(Heap) \/ Gives(Heap, got, n)
        /\ got # Failed(Heap) =>
             /\ ContentAt(got.heap, got.p) = Zero
             /\ \A q \in InUse(Heap) : ContentAt(got.heap, q) = ContentAt(Heap, q)
    BY <1>0, <2>2, scallocGives, scallocZeroes
  <2>4. Heap' = got.heap /\ Has(got, num * size, TRUE)
    BY <2>1
  <2>5. num * size \in Asked
    BY DEF Asked
  <2> HIDE DEF got, n
  <2>6. CASE got = Failed(Heap)
    BY <2>4, <2>6, NothingGiven
  <2>7. CASE got # Failed(Heap)
    <3>1. Gives(Heap, got, n) /\ ContentAt(Heap', got.p) = Zero
          /\ \A q \in InUse(Heap) : ContentAt(Heap', q) = ContentAt(Heap, q)
      BY <2>3, <2>4, <2>7
    <3>2. PICK g, asked, m : g = got /\ asked = num * size /\ m = n
      OBVIOUS
    <3>3. Gives(Heap, g, m) /\ Heap' = g.heap /\ Has(g, asked, TRUE) /\ m \in Nat
      BY <2>2, <2>4, <3>1, <3>2
    <3>6. ContentAt(Heap', g.p) = Zero
      BY <3>1, <3>2
    <3>4. asked \in Asked /\ TRUE \in BOOLEAN
      BY <2>5, <3>2
    <3>5. Contract!Allocate
      BY <3>1, <3>3, <3>4, <3>6, GivenAllocates
    <3> QED BY <3>5 DEF Contract!Next
  <2> QED BY <2>6, <2>7
<1>3. CASE Realloc
  <2>1. PICK p \in DOMAIN live \cup {NULL}, size \in Sizes, granted \in BOOLEAN :
          /\ Heap' = srealloc(Heap, p, size, granted).heap
          /\ IF p = NULL THEN Has(srealloc(Heap, p, size, granted), size, FALSE)
             ELSE live' = IF srealloc(Heap, p, size, granted).p = NULL THEN live
                          ELSE With(Without(p), srealloc(Heap, p, size, granted).p,
                                    [asked |-> size, written |-> live[p].written])
    BY <1>3 DEF Realloc
  <2>2. CASE p = NULL
    <3>1. srealloc(Heap, p, size, granted) = smalloc(Heap, size, granted)
      BY <2>2 DEF srealloc
    <3> QED BY <1>b, <2>1, <2>2, <3>1
  <2>3. CASE p # NULL
    <3> DEFINE got == srealloc(Heap, p, size, granted)
    <3>1. size \in Nat /\ p \in InUse(Heap) /\ p \in DOMAIN live
      BY <1>0, <1>a, <2>1, <2>3
    <3>2. \/ got = Failed(Heap)
          \/ got = [heap |-> Heap, p |-> p]
          \/ Moves(Heap, p, got, size)
      BY <1>0, <3>1, sreallocMoves
    <3>3. /\ Heap' = got.heap
          /\ live' = IF got.p = NULL THEN live
                     ELSE With(Without(p), got.p, [asked |-> size, written |-> live[p].written])
      BY <2>1, <2>3
    <3>4. Moves(Heap, p, got, size) =>
            /\ ContentAt(got.heap, got.p) = ContentAt(Heap, p)
            /\ \A q \in InUse(Heap) \ {p} : ContentAt(got.heap, q) = ContentAt(Heap, q)
      BY <1>0, <3>1, sreallocCopies
    <3> HIDE DEF got
    <3>5. CASE got = Failed(Heap)
      BY <3>3, <3>5 DEF Failed, Regions
    <3>6. CASE got = [heap |-> Heap, p |-> p]
      <4>1. Contract!Reallocate
        BY <2>3, <3>1, <3>3, <3>6, MovedReallocates
      <4> QED BY <4>1 DEF Contract!Next
    <3>7. CASE Moves(Heap, p, got, size)
      <4>1. Contract!Reallocate
        BY <1>0, <3>1, <3>3, <3>4, <3>7, MovedReallocates DEF Moves
      <4> QED BY <4>1 DEF Contract!Next
    <3> QED BY <3>2, <3>5, <3>6, <3>7
  <2> QED BY <2>2, <2>3
<1>4. CASE Free
  BY <1>4, FreeReleases DEF Contract!Next
<1>5. CASE Write
  BY <1>5, WriteWrites DEF Contract!Next
<1>6. CASE UNCHANGED vars
  BY <1>6 DEF vars, Regions
<1> QED BY <1>1, <1>2, <1>3, <1>4, <1>5, <1>6 DEF Next

(* malloc_2 keeps the allocation contract as long as no product of         *)
(* scalloc's arguments wraps: regions apart, contents kept.                *)
THEOREM ContractKept == CallsFit /\ Spec => ImplementsAllocation
<1>1. Init => Contract!Init
  <2> SUFFICES ASSUME Init PROVE Regions = <<>>
    BY DEF Contract!Init
  <2>1. live = <<>> /\ DOMAIN live = {}
    BY DEF Init
  <2> QED BY <2>1 DEF Regions
<1>2. CASE CallsFit
  <2>1. Inv /\ Inv' /\ LargeEnough /\ LargeEnough' /\ [Next]_vars => [Contract!Next]_Regions
    BY <1>2, RefinedNext
  <2>2. Spec => []LargeEnough
    BY <1>2, AlwaysLargeEnough
  <2>3. Spec => Contract!Spec
    BY <1>1, <2>1, <2>2, Invariant, PTL DEF Spec, Contract!Spec
  <2> QED BY <2>3 DEF ImplementsAllocation
<1>3. CASE ~CallsFit
  BY <1>3
<1> QED BY <1>2, <1>3
=============================================================================
