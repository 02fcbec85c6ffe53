SPECIFICATION FairSpec
CONSTANTS
  Febs = {"b1", "b2"}
INVARIANTS
  PublishedStatus
  VersionIsOwn
PROPERTY
  GoneBoardsLeave
