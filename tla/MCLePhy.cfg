CONSTANTS
  NBUF = 2
  CTR = 3
  NCH = 2
  HOP = 1
  SUP = 1
  LEAD = 2
  MaxConn = 3

SPECIFICATION Spec

INVARIANTS
  BuffersConserved
  
  

 

CHECK_DEADLOCK FALSE
