SPECIFICATION Spec
CONSTANTS
  SPLIT_THRESHOLD = 1
  MMAP_THRESHOLD = 7
  SIZE_LIMIT = 7
  WordMod = 9
  HeapMax = 8
  MmapMax = 0
  Sizes = {1, 2, 3}
  Nums = {}
  Writes = FALSE
INVARIANT OnlyHeadWithoutPrev
