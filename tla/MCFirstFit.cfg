SPECIFICATION Spec
CONSTANTS
  MetaSize = 2
  SIZE_LIMIT = 2
  WordMod = 16
  Sizes = {0, 1, 2, 3}
  Nums = {2}
  HeapMax = 10
  Values = {a, b}
INVARIANTS
  BlocksApart
  InUseIsLive
  CountersAgree
PROPERTY ImplementsAllocation
