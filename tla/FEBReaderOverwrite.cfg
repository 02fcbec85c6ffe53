SPECIFICATION Spec
CONSTANTS
  NFebs = 2
  Others = {9}
  CAP = 3
  DTP = 3
  WIDTH = 4
  MaxPacket = 2
  MaxPolls = 2
  MaxRuns = 1
INVARIANT
  ReferenceStays
