CONSTANTS
  SIZE = 8
  CHUNK = 2
  OVERLAP = 1
  XFER = 3
  MaxRx = 11

SPECIFICATION Spec

INVARIANTS
  WindowIntact
  RingInStep
  AcceptedOnce
  BytesAccounted

PROPERTIES
  BacklogServed
