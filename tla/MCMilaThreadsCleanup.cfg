CONSTANTS
  Main = Main
  MaxThreads = 2
  NoId = NoId
  Slips = {"unjoined"}
SPECIFICATION Spec
INVARIANT ToldAfterEnd
