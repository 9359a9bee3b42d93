\* Task 4 ignores SIGCHLD or has a second thread; ints from -3 to 2: two
\* leaves of weight 2 wrap.
SPECIFICATION Spec
CONSTANTS
  Pids = {2, 3, 4}
  Alone = {0, 1, 2, 3}
  Weights = {2}
  IntMax = 2
  MaxDuring = 2
INVARIANTS AstrayOnlyBelow
PROPERTIES LeafSumExact HeaviestOfSteady WalkEnds
