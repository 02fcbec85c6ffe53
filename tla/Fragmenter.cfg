SPECIFICATION FragSpec
CONSTANTS
  SEC = 12
  MSEC = 2
  WRAP = 14
  WindowSizes = {4, 5, 6}
  MaxDrift = 1
  MaxEvents = 2
  MaxReferences = 3
INVARIANTS
  EventsInTheirWindow
  SecondsAdjoin
  SequenceIdsIncrease
