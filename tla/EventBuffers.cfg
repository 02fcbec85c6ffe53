SPECIFICATION FairSpec
CONSTANTS
  NBUFS = 2
  FULL = 2
  SLOTS = 3
  MaxEvents = 4
  MaxStarts = 2
INVARIANTS
  CountedSlotsAreGood
  InFlightOwned
  InFlightIntact
  NothingPublishedTwice
PROPERTY
  SentBuffersReturn
