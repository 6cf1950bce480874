CONSTANTS
  Programs <- MCPrograms
  MaxTrace = 8
  MaxItems = 2

  Ops <- MCOps
  Operands <- MCOperands
  MaxCombined = 2
  Writing = {}

  Width = 3
  Start <- MCGiven
  Given <- MCGiven
  MaxFloat = 6
  MaxText = 1

  Beginnings <- MCBeginnings
  PatternChars <- MCPatternChars
  MaxWritten = 3
  SubjectChars <- MCSubjectChars
  MaxSubject = 3

  N1 = N1
  N2 = N2
  Values = {N1, N2}
  Marker <- MCMarker
  None = None
  Off = Off
  MaxNodes = 3
  MaxLost = 1
  ListSlips = {}

  k1 = k1
  k2 = k2
  k3 = k3
  k4 = k4
  DictKeys = {k1, k2, k3, k4}
  hash_string <- MCHash
  InitialCapacity = 2
  MaxCapacity = 8
  Seeds = {1, 2}
  InitialSeed = 1
  Reseeds = FALSE

  JsonHalf = 128
  JsonDigits = 3
  Atoms <- MCAtoms
  KeysUsed <- MCKeysUsed
  MaxSize = 3

  Chars = {"x", " "}
  Space = " "
  MaxLine = 2
  MaxEntries = 2

  Home <- MCHome
  Getenv <- MCGetenv
  Cwd <- MCCwd
  Files <- MCFiles
  Unreadable <- MCUnreadable
  Mains <- MCMains
  Names <- MCNames
  SetupName <- MCSetupName
  Extra <- MCExtra
  MaxRuns = 4

  Fragments <- MCFragments
  MaxGrow = 4
  Name <- MCName
  Repr <- MCRepr
  PlainForm <- MCPlain
  Spare = 35

  MaxLong = 7
  MaxNumberDigits = 4
  MaxLiteral = 4
  LiteralChars <- MCLiteralChars

  ParamNames <- MCParamNames
  Outers <- MCOuters
  MaxGiven = 4
SPECIFICATION Spec
INVARIANTS
  FollowsStructure HandlersOwn
  ExpressionReadsBack SkipAgrees ErrorsSurface
  OrderIsTotal OperatorsInvert
  MatchMeans LeftmostLongest ReplaceKeepsTheRest
  ContainersSound JsonReadsBack BadTextEnds Terminated
  PathFollowsFiles RequireGivesTheFile TextsKeepTheirMeaning
  NumbersReadBack ArgumentsBound
PROPERTIES
  Finishes ImplementsItemList ImplementsValueMap ImplementsTextLine
CHECK_DEADLOCK FALSE
