CONSTANTS
  SUB = {"HtoW", "Airport"}
  BENIGN = {"Airport"}
  ADVS = 1
  TX = {"2s", "60s"}
  PANEL = {"7d"}
  FP = {"only", "all"}
  PAIRS <- MCPairs
  StageSets <- MCStageSets
  None = None
  MaxVersion = 2
  MaxRuns = 3
  MaxCrashes = 2

SPECIFICATION Spec

INVARIANTS
  TableSound
  SummaryWhole

CHECK_DEADLOCK FALSE
