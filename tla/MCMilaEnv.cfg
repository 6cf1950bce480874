CONSTANTS
  Cells = {c1, c2}
  Payloads = {p1, p2}
  Names = {n1, n2}
  Slots = {s1, s2}
  NoVar = NoVar
  Null = Null
  MaxDepth = 2
  MaxRefs = 5
  Slips = {}
SYMMETRY Perms
SPECIFICATION Spec
INVARIANTS TypeOK NoUseAfterFree Accounting NeverWeak
PROPERTIES ConstantsKeepTheirValue ImplementsScopes
CHECK_DEADLOCK FALSE
