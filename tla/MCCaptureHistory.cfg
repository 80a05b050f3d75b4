CONSTANTS
  RING_N = 5
  PRETRIGGER_CHUNKS = 2
  POSTTRIGGER_CHUNKS = 2
  POLLS = 2
  MaxRx = 7
SPECIFICATION HSpec
INVARIANTS
  EntriesConserved
  DamageIsOneChunk
  SpillHitsDeadSlot
  ChannelInStep
  SentInOrder
  TriggerWindowKept
  NothingVanishes
PROPERTIES
  ReadyServed
  FreeReplenished
