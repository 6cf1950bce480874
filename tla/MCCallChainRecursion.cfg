CONSTANTS
  Tasks = {main}
  Main = main
  Funs = {f, g}
  Block = Block
  Global = Global
  NoEnv = NoEnv
  Idle = Idle
  MaxFrames = 3
  Slips = {"reentry"}
SPECIFICATION FairSpec
PROPERTY LookupEnds
