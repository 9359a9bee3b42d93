------------------------------ MODULE FirstFit ------------------------------
(***************************************************************************)
(* malloc_2.cpp: a heap of blocks, each with a header in front of its      *)
(* payload, kept in a list in the order in which sbrk() handed them out.   *)
(* smalloc takes the first free block that is large enough and moves the   *)
(* break only when there is none; blocks are never split, merged or given  *)
(* back.  An address is a number of bytes from the first break.            *)
(***************************************************************************)
EXTENDS Integers, Sequences, FiniteSets

CONSTANTS
  MetaSize,     \* sizeof(MallocMetadata)
  SIZE_LIMIT,   \* the largest request
  WordMod,      \* size_t holds 0 .. WordMod - 1
  Sizes, Nums,  \* the arguments clients pass
  HeapMax,      \* bound: sbrk() fails above it (it may fail below it too)
  Values        \* what clients write

ASSUME MetaSizeAssumption == MetaSize \in Nat \ {0}
ASSUME LimitAssumption == SIZE_LIMIT \in Nat /\ HeapMax \in Nat
ASSUME WordAssumption == WordMod \in Nat /\ WordMod > SIZE_LIMIT + MetaSize
ASSUME ArgumentsAssumption == Sizes \subseteq 0..(WordMod - 1) /\ Nums \subseteq Nat

VARIABLES
  Heap,     \* the blocks in list order, the break, and the five counters
  live      \* the client's view: pointer -> [asked, value]

vars == <<Heap, live>>

NULL == 0       \* no payload is at address 0: a header is in front of it
Junk == "junk"
Zero == "zero"

MallocMetadata == [addr : Nat, size : 1..SIZE_LIMIT, is_free : BOOLEAN,
                   content : Values \cup {Junk, Zero}]

MemoryList == [blocks : Seq(MallocMetadata), brk : 0..HeapMax,
               num_free_blocks : Int, num_free_bytes : Int,
               num_allocated_blocks : Int, num_allocated_bytes : Int,
               num_meta_data_bytes : Int]

(* The payload of a block starts behind its header: (void * )(ptr + 1). *)
Payload(block) == block.addr + MetaSize

(* (MallocMetadata * )p - 1, as the place of the block in the list *)
IndexOf(h, p) == CHOOSE i \in DOMAIN h.blocks : Payload(h.blocks[i]) = p

(* The free blocks that are large enough *)
Fits(h, size) ==
  {i \in DOMAIN h.blocks : h.blocks[i].is_free /\ h.blocks[i].size >= size}

(* The first of them along the list *)
First(h, size) == CHOOSE i \in Fits(h, size) : \A j \in Fits(h, size) : i <= j

-----------------------------------------------------------------------------
(* The functions of malloc_2.cpp, from a heap to a heap and a pointer      *)

Failed(h) == [heap |-> h, p |-> NULL]

(* Reuse block i as it is, with the size it was made with. *)
Reused(h, i) ==
  [heap |-> [h EXCEPT !.blocks[i].is_free = FALSE,
                      !.num_free_blocks = @ - 1,
                      !.num_free_bytes = @ - h.blocks[i].size],
   p    |-> Payload(h.blocks[i])]

MutGrown(h, size) ==
  LET block == [addr |-> h.brk, size |-> size, is_free |-> FALSE, content |-> Junk]
  IN  [heap |-> [h EXCEPT !.blocks = Append(@, block),
                          !.brk = @ + size,
                          !.num_allocated_blocks = @ + 1,
                          !.num_allocated_bytes = @ + size,
                          !.num_meta_data_bytes = @ + MetaSize],
       p    |-> Payload(block)]

(* sbrk() and a new block at the end of the list; firstAllocation does the *)
(* same for the first block.                                               *)
Grown(h, size) ==
  LET block == [addr |-> h.brk, size |-> size, is_free |-> FALSE, content |-> Junk]
  IN  [heap |-> [h EXCEPT !.blocks = Append(@, block),
                          !.brk = @ + (size + MetaSize),
                          !.num_allocated_blocks = @ + 1,
                          !.num_allocated_bytes = @ + size,
                          !.num_meta_data_bytes = @ + MetaSize],
       p    |-> Payload(block)]

(* granted says whether the kernel would grant an sbrk() now. *)
smalloc(h, size, granted) ==
  IF size = 0 \/ size > SIZE_LIMIT THEN Failed(h)
  ELSE IF Fits(h, size) # {} THEN Reused(h, First(h, size))
  ELSE IF granted /\ h.brk + (size + MetaSize) <= HeapMax THEN Grown(h, size)
  ELSE Failed(h)

(* num * size is a size_t: it wraps. *)
scalloc(h, num, size, granted) ==
  LET got == smalloc(h, (num * size) % WordMod, granted)
  IN  IF got.p = NULL THEN got
      ELSE [heap |-> [got.heap EXCEPT !.blocks[IndexOf(got.heap, got.p)].content = Zero],
            p    |-> got.p]

Mutsfree(h, p) ==
  LET i == IndexOf(h, p)
  IN  IF p = NULL THEN h
      ELSE [h EXCEPT !.blocks[i].is_free = TRUE,
                     !.num_free_blocks = @ + 1,
                     !.num_free_bytes = @ + h.blocks[i].size]

(* A block that is already free is left alone. *)
sfree(h, p) ==
  LET i == IndexOf(h, p)
  IN  IF p = NULL \/ h.blocks[i].is_free THEN h
      ELSE [h EXCEPT !.blocks[i].is_free = TRUE,
                     !.num_free_blocks = @ + 1,
                     !.num_free_bytes = @ + h.blocks[i].size]

Mutmemmove(h, newp, oldp) ==
  [h EXCEPT !.blocks[IndexOf(h, oldp)].content = h.blocks[IndexOf(h, newp)].content]

(* memmove(newp, oldp, old size): the new block is longer than the old one *)
memmove(h, newp, oldp) ==
  [h EXCEPT !.blocks[IndexOf(h, newp)].content = h.blocks[IndexOf(h, oldp)].content]

Mutsrealloc(h, oldp, size, granted) ==
  LET got == smalloc(sfree(h, oldp), size, granted)
  IN  IF oldp = NULL THEN smalloc(h, size, granted)
      ELSE IF h.blocks[IndexOf(h, oldp)].size >= size THEN [heap |-> h, p |-> oldp]
      ELSE IF got.p = NULL THEN got
      ELSE [heap |-> memmove(got.heap, got.p, oldp), p |-> got.p]

srealloc(h, oldp, size, granted) ==
  LET got == smalloc(h, size, granted)
  IN  IF oldp = NULL THEN got
      ELSE IF h.blocks[IndexOf(h, oldp)].size >= size THEN [heap |-> h, p |-> oldp]
      ELSE IF got.p = NULL THEN got
      ELSE [heap |-> sfree(memmove(got.heap, got.p, oldp), oldp), p |-> got.p]

-----------------------------------------------------------------------------
(* The client                                                              *)

Init ==
  /\ Heap = [blocks |-> <<>>, brk |-> 0, num_free_blocks |-> 0,
             num_free_bytes |-> 0, num_allocated_blocks |-> 0,
             num_allocated_bytes |-> 0, num_meta_data_bytes |-> 0]
  /\ live = <<>>

(* The client's table with an entry more, and with an entry less *)
With(table, p, entry) ==
  [q \in DOMAIN table \cup {p} |-> IF q = p THEN entry ELSE table[q]]

Without(p) == [q \in DOMAIN live \ {p} |-> live[q]]

(* The client has asked units at got.p; written says whether it may count  *)
(* on what they hold.                                                      *)
Has(got, asked, written) ==
  live' = IF got.p = NULL THEN live
          ELSE With(live, got.p, [asked |-> asked, written |-> written])

Malloc ==
  \E size \in Sizes, granted \in BOOLEAN :
    LET got == smalloc(Heap, size, granted)
    IN  Heap' = got.heap /\ Has(got, size, FALSE)

Calloc ==
  \E num \in Nums, size \in Sizes, granted \in BOOLEAN :
    LET got == scalloc(Heap, num, size, granted)
    IN  Heap' = got.heap /\ Has(got, num * size, TRUE)

(* A client that gets NULL still has its old region. *)
Realloc ==
  \E p \in DOMAIN live \cup {NULL}, size \in Sizes, granted \in BOOLEAN :
    LET got == srealloc(Heap, p, size, granted)
    IN  /\ Heap' = got.heap
        /\ IF p = NULL THEN Has(got, size, FALSE)
           ELSE live' = IF got.p = NULL THEN live
                        ELSE With(Without(p), got.p,
                                  [asked |-> size, written |-> live[p].written])

FreeIndices(h) == {i \in DOMAIN h.blocks : h.blocks[i].is_free}

(* The client may free NULL, and a pointer it has freed before as long as  *)
(* the block has not been handed out again.                                *)
Free ==
  \E p \in {NULL} \cup DOMAIN live \cup {Payload(Heap.blocks[i]) : i \in FreeIndices(Heap)} :
    /\ Heap' = sfree(Heap, p)
    /\ live' = Without(p)

Write ==
  \E p \in DOMAIN live, v \in Values :
    /\ Heap' = [Heap EXCEPT !.blocks[IndexOf(Heap, p)].content = v]
    /\ live' = [live EXCEPT ![p].written = TRUE]

Next == Malloc \/ Calloc \/ Realloc \/ Free \/ Write

Spec == Init /\ [][Next]_vars

-----------------------------------------------------------------------------
(* Properties                                                              *)

(* The list and the counters of malloc_2.cpp and the client's table have   *)
(* their types; every block has a size smalloc accepts.                    *)
TypeOK ==
  /\ Heap \in MemoryList
  /\ DOMAIN live \subseteq Nat
  /\ \A p \in DOMAIN live : live[p] \in [asked : Nat, written : BOOLEAN]

(* The list is in address order and no payload reaches the next header.    *)
InOrder(h) ==
  /\ \A i \in DOMAIN h.blocks : Payload(h.blocks[i]) + h.blocks[i].size <= h.brk
  /\ \A i, j \in DOMAIN h.blocks :
       i < j => Payload(h.blocks[i]) + h.blocks[i].size <= h.blocks[j].addr

InUse(h) ==
  {Payload(h.blocks[i]) : i \in {k \in DOMAIN h.blocks : ~h.blocks[k].is_free}}

Holds(h, p, n) ==
  \E i \in DOMAIN h.blocks : Payload(h.blocks[i]) = p /\ n <= h.blocks[i].size

(* Blocks lie behind each other below the break, headers included, however *)
(* smalloc, scalloc and srealloc mixed reused and new blocks.              *)
BlocksApart == InOrder(Heap)

(* A block is in use exactly when the client has it: nothing the client    *)
(* still has can be handed out again, and nothing it gave back (by sfree,  *)
(* or by an srealloc that moved it) is lost.                               *)
InUseIsLive == InUse(Heap) = DOMAIN live

(* No product of scalloc's arguments wraps around. *)
CallsFit == \A num \in Nums, size \in Sizes : num * size < WordMod

(* "size is what the user wants" (malloc_2.cpp:11): every pointer the      *)
(* client has is good for as many bytes as it asked for.                   *)
LargeEnough == \A p \in DOMAIN live : Holds(Heap, p, live[p].asked)

(* The payload bytes of some blocks: which block, and which byte of it     *)
Bytes(h, S) == UNION {{i} \X (1..h.blocks[i].size) : i \in S}

Agree(h) ==
  /\ h.num_free_blocks = Cardinality(FreeIndices(h))
  /\ h.num_free_bytes = Cardinality(Bytes(h, FreeIndices(h)))
  /\ h.num_allocated_blocks = Len(h.blocks)
  /\ h.num_allocated_bytes = Cardinality(Bytes(h, DOMAIN h.blocks))
  /\ h.num_meta_data_bytes = Len(h.blocks) * MetaSize

(* The five statistics are what a walk over the list would count, also     *)
(* after a second sfree of the same pointer and after calls that failed.   *)
CountersAgree == Agree(Heap)

(* The client's regions with what memory really holds: Junk where it has   *)
(* not written.                                                            *)
Regions ==
  [p \in DOMAIN live |->
     [asked |-> live[p].asked,
      value |-> IF live[p].written THEN Heap.blocks[IndexOf(Heap, p)].content
                                   ELSE Junk]]

Contract == INSTANCE Allocation WITH
  Addresses <- 1..HeapMax,
  Lengths   <- Sizes \cup {num * size : num \in Nums, size \in Sizes},
  live      <- Regions

(* malloc_2 keeps the allocation contract: regions never overlap, and what *)
(* the client wrote stays, also when srealloc moves the region.            *)
ImplementsAllocation == Contract!Spec
=============================================================================
