CONSTANTS
  Cells = {c1, c2}
  Payloads = {p1}
  Names = {n1, n2}
  Slots = {s1}
  NoVar = NoVar
  Null = Null
  MaxDepth = 2
  MaxRefs = 5
  Slips = {"forget_outer"}
SPECIFICATION Spec
INVARIANT NoUseAfterFree
CHECK_DEADLOCK FALSE
