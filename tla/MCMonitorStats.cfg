CONSTANTS
  WORD = 65536
  ENERGY_THRESH_INIT = 20
  ENERGY_THRESH_MIN = 4
  ENERGY_THRESH_MAX = 900
  ENERGY_ADJUST_PCT = 1000
  TARGET_MBPS = 5
  MaxMbps = 7

SPECIFICATION StatsSpec

PROPERTIES
  OverflowCounted
  PersistentDropsSaturate
