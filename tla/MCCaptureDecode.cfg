CONSTANTS
  w1 = w1
  w2 = w2
  parent = parent
  m1 = m1
  m2 = m2
  m3 = m3
  m4 = m4
  id = id
  ff = ff
  None = None
  NoOne = NoOne
  NoHyp = NoHyp
  NaN = NaN
  BPS = 2
  BUFFER = 5
  SPI_CHUNK = 2
  MIN_SEP = 1
  Ranks = {1, 2}
  Scores = {1, 2}
  Worker = {w1, w2}
  Parent = parent
  Options <- MCOptions
  Adverts <- MCAdverts
  Key <- MCKey
  ReadSizes = {3, 5}
  ReadTimes = {4, 8}
  MaxBytes = 8
  MaxDecodes = 2

SPECIFICATION DecodeSpec
SYMMETRY MCSymmetry

INVARIANTS
  RefinementKeepsBest
  RecoveryCreditedOnce
  
  
  

CHECK_DEADLOCK FALSE
