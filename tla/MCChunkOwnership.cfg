CONSTANTS
  RING_N = 4
  PRETRIGGER_CHUNKS = 1
  POSTTRIGGER_CHUNKS = 1
  POLLS = 2

SPECIFICATION Spec

INVARIANT ExclusiveOwnership
