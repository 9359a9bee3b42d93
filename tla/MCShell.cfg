SPECIFICATION Spec
CONSTANTS
  COMMAND_MAX_LENGTH = 5
  COMMAND_MAX_ARGS = 3
  Lines <- MCLines
  Dirs = {"/", "/a"}
  HomeDir = "/"
  Resolve <- MCResolve
  MaxRemovals = 1
INVARIANTS
  RunAsTyped
  FaultsOnlyBy
PROPERTIES
  LastStageOnly
  BackWhereItWas
