\* Sizes so that srealloc() takes each of its ways, a block of the heap can
\* grow to MMAP_THRESHOLD, and mappings have two sizes; clients write.  The
\* products of Nums and Sizes are at most 16: none wraps.
SPECIFICATION MCSpec
CONSTANTS
  SPLIT_THRESHOLD = 1
  MMAP_THRESHOLD = 7
  SIZE_LIMIT = 8
  WordMod = 17
  HeapMax = 8
  MmapMax = 2
  Sizes = {1, 2, 3, 6, 7, 8}
  Nums = {1, 2}
  Writes = TRUE
INVARIANTS WellFormed Intact InUseIsLive CountersAgree
