SPECIFICATION Spec
CONSTANTS
  NBUFS = 2
  FULL = 2
  SLOTS = 3
  MaxEvents = 4
  MaxStarts = 1
INVARIANT
  EvnumCountsGoodEvents
