SPECIFICATION MCSpec
CONSTANTS
  W = 8
  N = 4
  Globals <- MCGlobals
  ReadFn <- MCRead
  PureNames <- MCPure
  Inputs <- MCInputs
  WideInputs <- MCWide
  InlineBudget = 8
  SelectBudget = 4
  LicmRounds = 8
  ForwardCap = 3
  ModuleRounds = 3
  FnRounds = 3
  Fuel = 90
  SrcInputs <- MCSrcInputs
  SrcFuel = 9
  MaxBlocks = 7
INVARIANTS LoweredVerifies MeaningKept NeverE0901 BehaviourPreserved FaultsKept
CHECK_DEADLOCK FALSE
