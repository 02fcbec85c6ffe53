SPECIFICATION FairSpec
CONSTANTS
  NFebs = 2
  CAP = 3
  MaxGroup = 3
  MaxOthers = 1
  MaxMessages = 3
  MaxRuns = 2
INVARIANTS
  TimesOfEvents
  DroppedOfEvents
  ReferenceStays
PROPERTIES
  QueuesSpec
  ReferenceUsed
