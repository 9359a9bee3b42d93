----------------------------- MODULE SortedHeap -----------------------------
(***************************************************************************)
(* malloc_3.cpp: the heap is tiled by blocks, all of them linked, free or  *)
(* not, in one list that is meant to be sorted by size.  Blocks are split  *)
(* and merged, the last one (the wilderness) is enlarged, and requests     *)
(* from MMAP_THRESHOLD on get a mapping of their own.                      *)
(*                                                                         *)
(* Memory is an array of cells.  A header fills one cell (MetaSize) and    *)
(* stays readable until something else is written there, as in the code:   *)
(* a merge leaves the header of the block it swallowed behind, a split     *)
(* writes a header into the middle of a payload.  A header is valid when   *)
(* its cell holds one; validateCookie on any other cell ends the process.  *)
(*                                                                         *)
(* Every function maps a heap to a heap.  dead is why the process ended,   *)
(* harm which of the known slips of the code have happened (see Harms).    *)
(***************************************************************************)
EXTENDS Integers, Sequences, FiniteSets, FiniteSetsExt

CONSTANTS
  SPLIT_THRESHOLD, MMAP_THRESHOLD, SIZE_LIMIT,
  WordMod,      \* size_t holds 0 .. WordMod - 1
  HeapMax,      \* bound: cells sbrk() can hand out (it may fail earlier too)
  MmapMax,      \* bound: mappings at a time
  Sizes,        \* what clients ask for
  Nums,         \* the numbers of elements clients give scalloc(); none: they do not call it
  Writes        \* whether clients write

NULL == 0
MetaSize == 1

ASSUME ThresholdAssumption ==
  /\ SPLIT_THRESHOLD \in Nat \ {0} /\ SIZE_LIMIT \in Nat
  /\ MMAP_THRESHOLD \in 1..SIZE_LIMIT
ASSUME WordAssumption == WordMod \in Nat /\ WordMod > SIZE_LIMIT + MetaSize
ASSUME BoundAssumption ==
  /\ HeapMax \in Nat /\ MmapMax \in Nat
  /\ Sizes \subseteq Nat /\ Nums \subseteq Nat /\ Writes \in BOOLEAN

VARIABLES
  Heap,     \* memory, the pointers into it and the counters
  live      \* the client's view: pointer -> [asked, kept, value]

vars == <<Heap, live>>

Unmapped == [tag |-> "unmapped"]
Data(v) == [tag |-> "data", value |-> v]
Header(size, is_free) ==
  [tag |-> "header", size |-> size, is_free |-> is_free, next |-> NULL, prev |-> NULL]

MmapLength == SIZE_LIMIT + MetaSize
MmapAddress(k) == HeapMax + 1 + (k - 1) * MmapLength
LastCell == HeapMax + MmapMax * MmapLength
Cells == 1..LastCell

-----------------------------------------------------------------------------
(* Memory                                                                  *)

Valid(h, a) == a \in Cells /\ h.mem[a].tag = "header"

(* What the code is known to get wrong, as the properties refer to it:      *)
(*   relinked   HeapListInsert puts a new smallest block in front of the    *)
(*              LAST block of the list and drops the others                 *)
(*   swallowed  merge() in srealloc merged prev into the block before it,   *)
(*              and the code goes on with the header prev has left behind   *)
(*   asserted   the assertion commented out at that place in case f.i fails *)
(*   clobbered  srealloc case b splits before it moves, and the new header  *)
(*              lies in the data still to be moved                          *)
(*   undone     sbrk() failed after srealloc had freed and merged           *)
(*   mistaken   a heap block that has grown to MMAP_THRESHOLD is unmapped   *)
(*   revived    smalloc hands out a header that a merge has left behind and *)
(*              that a list which has lost blocks still leads to            *)
Harms == {"relinked", "swallowed", "asserted", "clobbered", "undone", "mistaken", "revived"}

Harmed(h, kind, happens) ==
  IF h.dead = "no" /\ happens THEN [h EXCEPT !.harm = @ \cup {kind}] ELSE h

Dead(h, why) == IF h.dead = "no" THEN [h EXCEPT !.dead = why] ELSE h

(* ptr->field = value *)
Set(h, a, field, value) ==
  IF Valid(h, a) THEN [h EXCEPT !.mem[a] = [@ EXCEPT ![field] = value]]
  ELSE Dead(h, "invalid access")

Fill(h, a, n, v) ==
  [h EXCEPT !.mem = [c \in Cells |-> IF c \in a..(a + n - 1) THEN Data(v) ELSE @[c]]]

memmove(h, to, from, n) ==
  [h EXCEPT !.mem = [c \in Cells |-> IF c \in to..(to + n - 1) THEN @[from + (c - to)] ELSE @[c]]]

(* sbrk(n), for a negative n too; new cells hold zeros. *)
sbrkOK(h, n, granted) == n <= 0 \/ (granted /\ h.brk + n <= HeapMax + 1)

sbrk(h, n) ==
  [h EXCEPT !.brk = @ + n,
            !.mem = [c \in Cells |->
                      CASE c \in h.brk..(h.brk + n - 1) -> Data("zero")
                        [] c \in (h.brk + n)..(h.brk - 1) -> Unmapped
                        [] OTHER -> @[c]]]

Size(h, a) == h.mem[a].size
IsFree(h, a) == h.mem[a].is_free
After(h, a) == a + Size(h, a) + MetaSize

-----------------------------------------------------------------------------
(* The sorted list                                                         *)

LinkAfter(h, new, ptr) ==
  LET next == h.mem[ptr].next
      h1 == Set(Set(Set(h, new, "next", next), new, "prev", ptr), ptr, "next", new)
  IN  IF next = NULL THEN h1 ELSE Set(h1, next, "prev", new)

(* In front of the head the list is entered at the new block. *)
LinkHead(h, new, ptr) ==
  [Set(Set(Set(h, new, "next", ptr), new, "prev", NULL), ptr, "prev", new)
     EXCEPT !.head = new]

LinkBefore(h, new, ptr) ==
  LET prev == h.mem[ptr].prev
      h1 == Set(Set(Set(h, new, "next", ptr), new, "prev", prev), ptr, "prev", new)
  IN  IF ptr = h.head THEN LinkHead(h, new, ptr) ELSE Set(h1, prev, "next", new)

(* Beside a block that is not larger *)
LinkBeside(h, new, ptr) ==
  IF Size(h, new) = Size(h, ptr) /\ new < ptr THEN LinkBefore(h, new, ptr)
  ELSE LinkAfter(h, new, ptr)

(* A list has no more members than memory has headers, or it goes round. *)
LastStep == HeapMax + MmapMax
Steps == 0..LastStep

(* Where a walk along the list at ptr comes to that is ended by Found; past *)
(* the end of the list it comes to NULL.                                    *)
Along(h, ptr, Found(_)) ==
  LET at[k \in Steps] ==
        IF k = 0 THEN ptr
        ELSE LET p == at[k - 1] IN
             IF Found(p) THEN p ELSE IF Valid(h, p) THEN h.mem[p].next ELSE NULL
  IN  at[LastStep]

Between(h, new, ptr, next) == Size(h, new) >= Size(h, ptr) /\ Size(h, new) < Size(h, next)

(* The walk of HeapListInsert ends at ptr. *)
PlaceFound(h, new, ptr) ==
  LET next == h.mem[ptr].next
  IN  ~Valid(h, ptr) \/ ~Valid(h, new) \/ ~Valid(h, next) \/ Between(h, new, ptr, next)

PlacedAt(h, new, ptr) ==
  LET next == h.mem[ptr].next
  IN  IF ~Valid(h, ptr) \/ ~Valid(h, new) \/ (next # NULL /\ ~Valid(h, next)) THEN Dead(h, "cookie")
      ELSE IF next # NULL \/ Size(h, ptr) <= Size(h, new) THEN LinkBeside(h, new, ptr)
      ELSE Harmed(LinkHead(h, new, ptr), "relinked", ptr # h.head)

Placed(h, new) ==
  LET ptr == Along(h, h.head, LAMBDA p : PlaceFound(h, new, p))
  IN  IF PlaceFound(h, new, ptr) THEN PlacedAt(h, new, ptr) ELSE Dead(h, "endless loop")

HeapListInsert(h, new) ==
  IF h.dead # "no" THEN h
  ELSE IF h.head # NULL THEN Placed(h, new)
  ELSE [Set(Set(h, new, "next", NULL), new, "prev", NULL) EXCEPT !.head = new]

HeapListRemove(h, block) ==
  IF h.dead # "no" THEN h
  ELSE IF ~Valid(h, block) \/ ~(h.head = NULL \/ Valid(h, h.head)) THEN Dead(h, "cookie")
  ELSE LET next == h.mem[block].next
           prev == h.mem[block].prev
           h1 == IF next = NULL THEN h ELSE Set(h, next, "prev", prev)
       IN  IF block = h.head
           THEN IF next = NULL THEN [h EXCEPT !.head = NULL]
                ELSE [Set(h, next, "prev", NULL) EXCEPT !.head = next]
           ELSE Set(h1, prev, "next", next)

Relisted(h, block) == HeapListInsert(HeapListRemove(h, block), block)

-----------------------------------------------------------------------------
(* Splitting and merging                                                   *)

Taken(h, block) ==
  IF h.dead # "no" \/ ~IsFree(h, block) THEN h
  ELSE [Set(h, block, "is_free", FALSE)
          EXCEPT !.num_free_blocks = @ - 1, !.num_free_bytes = @ - Size(h, block)]

Freed(h, block) ==
  [Set(h, block, "is_free", TRUE)
     EXCEPT !.num_free_blocks = @ + 1, !.num_free_bytes = @ + Size(h, block)]

Splits(h, request, new_size) == Size(h, request) - new_size - MetaSize >= SPLIT_THRESHOLD

(* The block at the end of the heap once request is split *)
Last(h, request, new_block) == IF request = h.wilderness THEN new_block ELSE h.wilderness

split(h, request, new_size) ==
  IF h.dead # "no" THEN h
  ELSE IF ~Valid(h, request) THEN Dead(h, "cookie")
  ELSE IF ~Splits(h, request, new_size) THEN Taken(h, request)
  ELSE
    LET new_block == request + new_size + MetaSize
        rest == Size(h, request) - new_size - MetaSize
        h1 == [h EXCEPT
                !.mem[new_block] = Header(rest, TRUE),
                !.wilderness = Last(h, request, new_block),
                !.num_free_blocks = IF IsFree(h, request) THEN @ ELSE @ + 1,
                !.num_free_bytes = IF IsFree(h, request) THEN @ - (new_size + MetaSize) ELSE @ + rest,
                !.num_allocated_blocks = @ + 1,
                !.num_allocated_bytes = @ - MetaSize,
                !.num_meta_data_bytes = @ + MetaSize]
        h2 == Set(Set(h1, request, "is_free", FALSE), request, "size", new_size)
    IN  HeapListInsert(Relisted(h2, request), new_block)

(* The block next is merged into ptr, the one before it. *)
MergedInto(h, ptr, next) ==
  LET h1 == [Set(h, ptr, "size", Size(h, ptr) + Size(h, next) + MetaSize)
               EXCEPT !.num_free_blocks = @ - 1, !.num_free_bytes = @ + MetaSize,
                      !.num_allocated_blocks = @ - 1,
                      !.num_allocated_bytes = @ + MetaSize,
                      !.num_meta_data_bytes = @ - MetaSize]
      h2 == HeapListInsert(HeapListRemove(HeapListRemove(h1, ptr), next), ptr)
  IN  IF next = h.wilderness THEN [h2 EXCEPT !.wilderness = ptr] ELSE h2

(* A call of smerge: the heap it finds, and ptr, NULL when there is none *)
Call(h, ptr) == [heap |-> h, ptr |-> ptr]

(* One call, up to the next one *)
smerge(call) ==
  LET h == call.heap
      ptr == call.ptr
      next == After(h, ptr)
  IN  IF h.dead # "no" \/ ptr = NULL \/ ptr = h.brk THEN Call(h, NULL)
      ELSE IF ~Valid(h, ptr) THEN Call(Dead(h, "cookie"), NULL)
      ELSE IF next = h.brk THEN Call(h, NULL)
      ELSE IF ~Valid(h, next) THEN Call(Dead(h, "cookie"), NULL)
      ELSE IF ~(IsFree(h, ptr) /\ IsFree(h, next)) THEN Call(h, next)
      ELSE Call(MergedInto(h, ptr, next), IF next = h.wilderness THEN NULL ELSE ptr)

(* Each call goes on by a block, or makes two of them one. *)
merge(h) ==
  LET calls[k \in Steps] == IF k = 0 THEN Call(h, h.firsthead) ELSE smerge(calls[k - 1])
  IN  calls[LastStep].heap

(* A walk over the heap: the addresses met, and where it has come to; one   *)
(* without a header ends it.                                                *)
Onward(h, walk) ==
  IF walk.at = h.brk THEN walk
  ELSE [met |-> walk.met \cup {walk.at},
        at  |-> IF Valid(h, walk.at) THEN After(h, walk.at) ELSE h.brk]

BlocksOf(h) ==
  LET walk[k \in Steps] ==
        IF k = 0 THEN [met |-> {}, at |-> IF h.firsthead = NULL THEN h.brk ELSE h.firsthead]
        ELSE Onward(h, walk[k - 1])
  IN  walk[LastStep].met

-----------------------------------------------------------------------------
(* smalloc, scalloc and sfree                                              *)

Result(h, p) == [heap |-> h, p |-> IF h.dead = "no" THEN p ELSE NULL]

(* Mutant: the header is not counted. *)
MutnewAllocAdjustment(h, size) ==
  [h EXCEPT !.num_allocated_blocks = @ + 1, !.num_allocated_bytes = @ + size]

newAllocAdjustment(h, size) ==
  [h EXCEPT !.num_allocated_blocks = @ + 1,
            !.num_allocated_bytes = @ + size,
            !.num_meta_data_bytes = @ + MetaSize]

FreeMmaps(h) == {k \in 1..MmapMax : h.mem[MmapAddress(k)] = Unmapped}

(* The last mapping of the list that starts at mmhead *)
LastMapped(h) ==
  Along(h, h.mmhead, LAMBDA p : Valid(h, p) /\ h.mem[p].next = NULL)

Mapped(h, size) ==
  LET new == MmapAddress(Min(FreeMmaps(h)))
      h1 == newAllocAdjustment(Fill([h EXCEPT !.mem[new] = Header(size, FALSE)],
                                    new + MetaSize, size, "zero"), size)
  IN  Result(IF h.mmhead = NULL THEN [h1 EXCEPT !.mmhead = new]
             ELSE LinkAfter(h1, new, LastMapped(h1)), new + MetaSize)

(* sbrk() and a header where the break was: the new wilderness *)
AtBreak(h, size) ==
  newAllocAdjustment([sbrk(h, size + MetaSize) EXCEPT !.mem[h.brk] = Header(size, FALSE),
                                                      !.wilderness = h.brk], size)

firstAllocation(h, size) ==
  Result([AtBreak(h, size) EXCEPT !.head = h.brk, !.firsthead = h.brk], h.brk + MetaSize)

(* A new block behind a used wilderness *)
NewBlock(h, size) == Result(HeapListInsert(AtBreak(h, size), h.brk), h.brk + MetaSize)

(* Mutant: the wilderness grows where it stands in the list. *)
MutEnlarged(h, needed) ==
  LET w == h.wilderness
      h1 == sbrk(h, needed)
  IN  IF h1.dead # "no" THEN h1
      ELSE [Set(h1, w, "size", Size(h1, w) + needed)
              EXCEPT !.num_allocated_bytes = @ + needed]

(* The wilderness, relinked with its new size *)
Enlarged(h, needed) ==
  LET w == h.wilderness
      h1 == HeapListRemove(sbrk(h, needed), w)
  IN  IF h1.dead # "no" THEN h1
      ELSE [HeapListInsert(Set(h1, w, "size", Size(h1, w) + needed), w)
              EXCEPT !.num_allocated_bytes = @ + needed]

(* The first block along the list that is free and large enough *)
Fits(h, ptr, size) == IsFree(h, ptr) /\ Size(h, ptr) >= size

SearchEnds(h, ptr, size) == ptr = NULL \/ ~Valid(h, ptr) \/ Fits(h, ptr, size)

Search(h, size) ==
  LET ptr == Along(h, h.head, LAMBDA p : SearchEnds(h, p, size))
  IN  IF ~SearchEnds(h, ptr, size) THEN [heap |-> Dead(h, "endless loop"), block |-> NULL]
      ELSE IF ptr # NULL /\ ~Valid(h, ptr) THEN [heap |-> Dead(h, "cookie"), block |-> NULL]
      ELSE [heap |-> h, block |-> ptr]

smalloc(h, size, granted) ==
  LET found == Search(h, size)
      w == h.wilderness
      needed == size - Size(h, w)
  IN  IF size = 0 \/ size > SIZE_LIMIT THEN Result(h, NULL)
      ELSE IF size >= MMAP_THRESHOLD
      THEN IF granted /\ FreeMmaps(h) # {} THEN Mapped(h, size) ELSE Result(h, NULL)
      ELSE IF h.head = NULL
      THEN IF sbrkOK(h, size + MetaSize, granted) THEN firstAllocation(h, size) ELSE Result(h, NULL)
      ELSE IF found.heap.dead # "no" THEN Result(found.heap, NULL)
      ELSE IF found.block # NULL
      THEN Result(split(Harmed(h, "revived", found.block \notin BlocksOf(h)), found.block, size),
                  found.block + MetaSize)
      ELSE IF ~Valid(h, w) THEN Result(Dead(h, "cookie"), NULL)
      ELSE IF IsFree(h, w)
      THEN IF sbrkOK(h, needed, granted)
           THEN Result(Enlarged(Taken(h, w), needed), w + MetaSize) ELSE Result(h, NULL)
      ELSE IF sbrkOK(h, size + MetaSize, granted) THEN NewBlock(h, size) ELSE Result(h, NULL)

Cleared(got, n) == IF got.p = NULL THEN got ELSE Result(Fill(got.heap, got.p, n, "zero"), got.p)

(* num * size is a size_t: it wraps, and a small block is handed out. *)
scalloc(h, num, size, granted) ==
  LET n == (num * size) % WordMod IN Cleared(smalloc(h, n, granted), n)

(* A block of MMAP_THRESHOLD or more is taken for a mapping. *)
Unmap(h, block) ==
  LET size == Size(h, block)
      next == h.mem[block].next
      prev == h.mem[block].prev
      h0 == Harmed(h, "mistaken", block <= HeapMax)
      h1 == IF block = h.mmhead THEN [h0 EXCEPT !.mmhead = next] ELSE Set(h0, prev, "next", next)
      h2 == IF next = NULL THEN h1
            ELSE Set(h1, next, "prev", IF block = h.mmhead THEN NULL ELSE prev)
  IN  [h2 EXCEPT !.num_allocated_blocks = @ - 1,
                 !.num_allocated_bytes = @ - size,
                 !.num_meta_data_bytes = @ - MetaSize,
                 !.mem = [c \in Cells |-> IF c \in block..(block + size) THEN Unmapped ELSE @[c]]]

sfree(h, p) ==
  LET block == p - MetaSize
  IN  IF h.dead # "no" \/ p = NULL THEN h
      ELSE IF ~Valid(h, block) THEN Dead(h, "cookie")
      ELSE IF Size(h, block) >= MMAP_THRESHOLD THEN Unmap(h, block)
      ELSE IF IsFree(h, block) THEN h
      ELSE merge(Freed(h, block))

-----------------------------------------------------------------------------
(* srealloc                                                                *)

(* What smalloc() got takes the place of the region at oldp. *)
Replaced(got, oldp, n) ==
  IF got.p = NULL THEN got
  ELSE Result(sfree(memmove(got.heap, got.p, oldp, n), oldp), got.p)

mmapsrealloc(h, oldp, size, granted) ==
  LET old == Size(h, oldp - MetaSize)
  IN  IF old = size THEN Result(h, oldp)
      ELSE Replaced(smalloc(h, size, granted), oldp, Min({old, size}))

(* The block in front of block, by a walk from the first one *)
Predecessor(h, block) ==
  LET before == {a \in BlocksOf(h) : Valid(h, a) /\ After(h, a) = block}
  IN  IF before = {} THEN NULL ELSE Min(before)

(* Mutant: block stays marked as in use. *)
MutMergeWithout(h, block) ==
  IF block = NULL THEN merge(h) ELSE merge(Set(h, block, "is_free", FALSE))

(* merge() while block, if there is one, is kept out of it *)
MergeWithout(h, block) ==
  IF block = NULL THEN merge(h)
  ELSE Set(merge(Set(h, block, "is_free", FALSE)), block, "is_free", IsFree(h, block))

(* A heap, just merged, in which the code goes on with block *)
GoingOn(h, block) == Harmed(h, "swallowed", block \notin BlocksOf(h))

(* The end of cases b, f.i and f.ii: the wilderness is enlarged for block. *)
(* When sbrk() fails the blocks stay merged, and the client gets NULL.     *)
GrowWild(h, moved, block, size, granted) ==
  LET needed == size - Size(h, h.wilderness)
  IN  IF h.dead # "no" THEN Result(h, NULL)
      ELSE IF sbrkOK(h, needed, granted) THEN Result(Enlarged(moved, needed), block + MetaSize)
      ELSE Result(Harmed(h, "undone", TRUE), NULL)

(* Mutant: the contents stay behind. *)
MutMoved(h, oldp, block) == h

(* memmove() reads the size of the old block from its old header. *)
Moved(h, oldp, block) ==
  IF h.dead # "no" THEN h
  ELSE IF ~Valid(h, oldp - MetaSize) THEN Dead(h, "invalid access")
  ELSE memmove(h, block + MetaSize, oldp, Size(h, oldp - MetaSize))

(* b: h has been merged into prev; the split comes before the move. *)
IntoLower(h, oldp, oldsize, prev, size) ==
  Moved(Harmed(merge(split(h, prev, size)), "clobbered",
               Splits(h, prev, size) /\ prev + size + MetaSize \in (oldp - MetaSize)..(oldp + oldsize - 1)),
        oldp, prev)

(* b with the wilderness: h is merged and split; the move follows sbrk(). *)
GrowLower(h, oldp, prev, size, granted) ==
  GrowWild(h, Moved(h, oldp, prev), prev, size, granted)

(* f.i: h is merged; the move comes before sbrk(). *)
TakenAll(h, oldp, prev) ==
  Harmed(Moved(Taken(h, prev), oldp, prev), "asserted", prev # h.wilderness)

GrowTaken(h, block, size, granted) == GrowWild(h, h, block, size, granted)

srealloc(h, oldp, size, granted) ==
  LET old == oldp - MetaSize
      oldsize == Size(h, old)
      is_wild == old = h.wilderness
      next == IF is_wild THEN NULL ELSE After(h, old)
      prev == IF old = h.firsthead THEN NULL ELSE Predecessor(h, old)
      lower == prev # NULL /\ IsFree(h, prev)
      upper == next # NULL /\ IsFree(h, next)
      free == Freed(h, old)
  IN  IF oldp = NULL THEN smalloc(h, size, granted)
      ELSE IF size = 0 \/ size > SIZE_LIMIT THEN Result(h, NULL)
      ELSE IF ~Valid(h, old) THEN Result(Dead(h, "cookie"), NULL)
      ELSE IF oldsize >= MMAP_THRESHOLD THEN mmapsrealloc(h, oldp, size, granted)
      ELSE IF oldsize >= size THEN Result(split(h, old, size), oldp)
      ELSE IF (next # NULL /\ ~Valid(h, next)) \/ (prev = NULL /\ old # h.firsthead)
      THEN Result(Dead(h, "cookie"), NULL)
      ELSE IF lower /\ oldsize + Size(h, prev) + MetaSize >= size
      THEN Result(IntoLower(GoingOn(MergeWithout(free, next), prev), oldp, oldsize, prev, size),
                  prev + MetaSize)
      ELSE IF lower /\ is_wild
      THEN GrowLower(split(GoingOn(merge(free), prev), prev, size), oldp, prev, size, granted)
      ELSE IF is_wild
      THEN IF sbrkOK(h, size - oldsize, granted)
           THEN Result(Enlarged(h, size - oldsize), oldp) ELSE Result(h, NULL)
      ELSE IF upper /\ oldsize + Size(h, next) + MetaSize >= size
      THEN Result(split(MergeWithout(free, prev), old, size), oldp)
      ELSE IF upper /\ lower /\ Size(h, prev) + oldsize + Size(h, next) + 2 * MetaSize >= size
      THEN Result(Moved(split(GoingOn(merge(free), prev), prev, size), oldp, prev),
                  prev + MetaSize)
      ELSE IF upper /\ next = h.wilderness /\ lower
      THEN GrowTaken(TakenAll(GoingOn(merge(free), prev), oldp, prev), prev, size, granted)
      ELSE IF upper /\ next = h.wilderness
      THEN GrowTaken(Taken(merge(free), old), old, size, granted)
      ELSE Replaced(smalloc(h, size, granted), oldp, oldsize)

-----------------------------------------------------------------------------
(* The client                                                              *)

Init ==
  /\ Heap = [mem |-> [c \in Cells |-> Unmapped], brk |-> 1, head |-> NULL,
             firsthead |-> NULL, wilderness |-> NULL, mmhead |-> NULL,
             num_free_blocks |-> 0, num_free_bytes |-> 0, num_allocated_blocks |-> 0,
             num_allocated_bytes |-> 0, num_meta_data_bytes |-> 0,
             dead |-> "no", harm |-> {}]
  /\ live = <<>>

With(table, p, entry) ==
  [q \in DOMAIN table \cup {p} |-> IF q = p THEN entry ELSE table[q]]

Without(p) == [q \in DOMAIN live \ {p} |-> live[q]]

(* The client was given asked cells at p; the first kept hold value. *)
Region(asked, kept, value) == [asked |-> asked, kept |-> kept, value |-> value]

Alive == Heap.dead = "no"

(* A list that has lost blocks still leaves a heap behind, until smalloc    *)
(* is led to a header that is no block; after any other harm memory is      *)
(* corrupt.                                                                 *)
Sane == Alive /\ Heap.harm \subseteq {"relinked"}

(* A function of the allocator returns; the client's other regions stay. *)
Return(got, others, region) ==
  /\ Heap' = got.heap
  /\ live' = IF got.p = NULL THEN live ELSE With(others, got.p, region)

Malloc ==
  \E size \in Sizes, granted \in BOOLEAN :
    Sane /\ Return(smalloc(Heap, size, granted), live, Region(size, 0, "zero"))

Calloc ==
  \E num \in Nums, size \in Sizes, granted \in BOOLEAN :
    Sane /\ Return(scalloc(Heap, num, size, granted), live,
                   Region(num * size, num * size, "zero"))

Kept(p, size) ==
  IF p = NULL THEN Region(size, 0, "zero")
  ELSE Region(size, Min({live[p].kept, size}), live[p].value)

Realloc ==
  \E p \in DOMAIN live \cup {NULL}, size \in Sizes, granted \in BOOLEAN :
    Sane /\ Return(srealloc(Heap, p, size, granted), Without(p), Kept(p, size))

Free ==
  \E p \in DOMAIN live \cup {NULL} :
    Sane /\ Heap' = sfree(Heap, p) /\ live' = Without(p)

(* The client fills a region. *)
Write ==
  \E p \in DOMAIN live :
    /\ Sane /\ Writes
    /\ Heap' = Fill(Heap, p, live[p].asked, "written")
    /\ live' = [live EXCEPT ![p] = Region(@.asked, @.asked, "written")]

(* The process has ended, or nothing is said of it any more. *)
Ended == ~Sane /\ UNCHANGED vars

Next == Malloc \/ Calloc \/ Realloc \/ Free \/ Write \/ Ended

Spec == Init /\ [][Next]_vars

-----------------------------------------------------------------------------
(* Properties                                                              *)

Blocks == BlocksOf(Heap)

Mappings == {MmapAddress(k) : k \in (1..MmapMax) \ FreeMmaps(Heap)}

(* The payload bytes of some blocks: which block, and which byte of it     *)
Bytes(h, S) == UNION {{a} \X (1..Size(h, a)) : a \in S}

(* Blocks lie behind each other from firsthead to the break without a gap, *)
(* and the wilderness is the last of them.                                 *)
Tiled ==
  Sane /\ Heap.firsthead # NULL =>
    /\ \A a \in Blocks : a < Heap.brk /\ Valid(Heap, a)
    /\ Heap.wilderness = Max(Blocks)
    /\ After(Heap, Heap.wilderness) = Heap.brk

(* No product of scalloc's arguments wraps around.  When one does, the     *)
(* client gets a block that is smaller than it thinks, and what it writes  *)
(* there goes over the blocks behind: the properties below are about       *)
(* clients of which this holds.                                            *)
CallsFit == \A num \in Nums, size \in Sizes : num * size < WordMod

(* As long as HeapListInsert's dropping of blocks is the only harm done    *)
(* (Sane; the others end what is said): however blocks are split, merged   *)
(* and enlarged, the heap is tiled by them, and a block or mapping is in   *)
(* use exactly when the client holds it, with room for what it asked: no   *)
(* block leaks, and none the client holds is free.                         *)
InUseIsLive ==
  /\ Tiled
  /\ Sane =>
       /\ {a + MetaSize : a \in {b \in Blocks \cup Mappings : ~IsFree(Heap, b)}} = DOMAIN live
       /\ \A p \in DOMAIN live : live[p].asked <= Size(Heap, p - MetaSize)

(* What the _num_...() functions return is what a walk over the heap and   *)
(* the mappings counts.                                                    *)
CountersAgree ==
  Sane =>
    LET free == {a \in Blocks : IsFree(Heap, a)}
        all == Blocks \cup Mappings
    IN  /\ Heap.num_free_blocks = Cardinality(free)
        /\ Heap.num_free_bytes = Cardinality(Bytes(Heap, free))
        /\ Heap.num_allocated_blocks = Cardinality(all)
        /\ Heap.num_allocated_bytes = Cardinality(Bytes(Heap, all))
        /\ Heap.num_meta_data_bytes = Cardinality(all) * MetaSize

(* When no product of scalloc's arguments wraps: what a client has         *)
(* written, and what scalloc() has cleared, is still there, after every    *)
(* srealloc() up to the smaller of the two sizes.                          *)
Intact ==
  Sane => \A p \in DOMAIN live : \A i \in 0..(live[p].kept - 1) :
            Heap.mem[p + i] = Data(live[p].value)

(* No call of a client makes the allocator run into an invalid header, a   *)
(* NULL pointer or an endless walk: validateCookie never ends the process. *)
NoCrash == Heap.harm = {} => Alive

(* The list from head holds every block of the heap once, by size, and the *)
(* prev pointers run back along it.                                        *)
Sorted ==
  Alive /\ Heap.harm = {} =>
    LET list[k \in Steps] == IF k = 0 THEN Heap.head ELSE Heap.mem[list[k - 1]].next
        n == Cardinality(Blocks)
    IN  /\ {list[k] : k \in 0..(n - 1)} = Blocks /\ list[n] = NULL
        /\ \A k \in 1..(n - 1) :
             /\ Size(Heap, list[k - 1]) <= Size(Heap, list[k])
             /\ Heap.mem[list[k]].prev = list[k - 1]

(* Until HeapListInsert drops blocks, the sorted list is one, and nothing  *)
(* the allocator does ends the process.                                    *)
WellFormed == NoCrash /\ Sorted

(* malloc_3.cpp:187, "THe only case in which block->prev is Null is when   *)
(* its the head": HeapListRemove relies on it.                             *)
OnlyHeadWithoutPrev ==
  Sane => \A a \in Blocks : Heap.mem[a].prev = NULL => a = Heap.head
=============================================================================
