---------------------------- MODULE MCSortedHeap ----------------------------
(* SortedHeap for TLC.  The heap is bounded by what is in use at a time:    *)
(* seven cells of heap and nothing mapped or cleared, or as much heap as    *)
(* there is for a single region, or a heap of three cells beside mappings   *)
(* and what scalloc() cleared.                                              *)
EXTENDS SortedHeap

SomethingCleared == \E p \in DOMAIN live : live[p].value = "zero" /\ live[p].kept > 0

Small ==
  \/ Heap.brk <= 4
  \/ Heap.mmhead = NULL /\ ~SomethingCleared /\ Heap.brk <= 8
  \/ Heap.mmhead = NULL /\ ~SomethingCleared /\ Cardinality(DOMAIN live) <= 1

MCNext ==
  \/ Malloc /\ Small'
  \/ Heap.brk <= 4 /\ Calloc /\ Small'
  \/ Realloc /\ Small'
  \/ Free /\ Small'
  \/ Write
  \/ Ended

MCSpec == Init /\ [][MCNext]_vars
=============================================================================
