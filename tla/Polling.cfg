SPECIFICATION FairSpec
CONSTANTS
  NFebs = 2
  HEAD = 3
  EVENT = 19
  MaxEvents = 2
INVARIANTS
  EveryEventStored
  FpgaLostCharged
  CpuLostCharged
  NothingThrownAway
PROPERTY
  PollEnds
