CONSTANTS
  QUEUE_SIZE = 2
  BLOCKS = 3
  CDC_BLOCKS = 2
  MaxRx = 5

SPECIFICATION Spec

INVARIANTS
  Seamless

PROPERTIES
  QueueDrains
  QueuesInOrder
