CONSTANTS
  Ops <- MCOps
  Operands <- MCOperands
  MaxGrow = 2
  Writing = {"not_binds"}
SPECIFICATION Spec
INVARIANT NotBindsTightest
CHECK_DEADLOCK FALSE
