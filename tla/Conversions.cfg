SPECIFICATION Spec
CONSTANTS
  BITS = 3
  LEN <- Lengths
  LINE = 5
  MAXPACK = 8
  LOG = 3
  RAW = 6
  DRIFT = 5
  max_time_diff = 20
  MaxWraps = 2
INVARIANTS
  
  BoardHasBits
  DecodersAgree
PROPERTY
  CorrectedInOrder
