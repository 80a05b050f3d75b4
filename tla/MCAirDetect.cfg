CONSTANTS
  PrivId = {"p"}
  NoPriv = NoPriv
  None = None
  Inputs <- MCInputs
  Packets <- MCPackets
  Name <- MCName
  Worker = {w1, w2}
  Defaults <- MCDefaults
  Overrides <- MCOverrides
  Grid <- MCGrid
  START_METHOD = "fork"
  RADII = {0, 40, 90}
  R_MIN = 15
  CORE_MIN_PTS = 3
  UNIQUE_MACS_MIN = 2
  TOP_N = 10

SPECIFICATION Spec

INVARIANTS
  EveryFileCounted
  SettingsFollowTask
  AlertEvidence
  TtdSound

CHECK_DEADLOCK FALSE
