CONSTANTS
  ParamNames <- MCParamNames
  Outers <- MCOuters
  MaxGiven = 4
SPECIFICATION CallsSpec
INVARIANT MissingAreBound
CHECK_DEADLOCK FALSE
