SPECIFICATION FairSpec
CONSTANT MaxData = 2
INVARIANTS
  OneWorker
  BuffersQuiet
  FutureHasState
  StartIsNotLost

  
