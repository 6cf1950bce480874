CONSTANTS
  Main = Main
  MaxThreads = 2
  NoId = NoId
  Slips = {"hook_asks"}
SPECIFICATION FairSpec
PROPERTY HooksRun
CHECK_DEADLOCK FALSE
