CONSTANTS
  Tasks = {main, t1}
  Main = main
  Funs = {f, g}
  Block = Block
  Global = Global
  NoEnv = NoEnv
  Idle = Idle
  MaxFrames = 3
  Slips = {"reentry"}
SPECIFICATION Spec
INVARIANT StaysInOwnScopes
