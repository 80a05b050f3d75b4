CONSTANTS
  DATA_IFACE = 1
  MaxSessions = 2

SPECIFICATION Spec

INVARIANTS
  NoConnectionLeak
  NoZombieSession

PROPERTY ThreadsEnd

