CONSTANTS
  Main = Main
  MaxThreads = 2
  NoId = NoId
  Slips = {}
SPECIFICATION FairSpec
INVARIANTS TypeOK ContextsOutliveUse
PROPERTIES ImplementsThreadLives HooksRun CancelReturns
