CONSTANTS
  PrivId = {"p"}
  NoPriv = NoPriv
  NoKey = NoKey
  Captures <- MCCaptures
  Explicit <- MCExplicit
  ADV_TAGS = {"ff", "fe"}
  PERSIST_S = 6
  PERIODS <- MCPeriods

SPECIFICATION Spec

INVARIANTS
  PacedAndRenamed
  
  OwnMacGone

CHECK_DEADLOCK FALSE
