SPECIFICATION MCSpec
CONSTANTS
  MaxParseDepth = 5
  ParseFuel = 400
  StatementLength = 3
  W = 8
  N = 4
  Globals = {}
  ReadFn = 50
  AnFuel = 5
  Panic <- MCPanic
  Asserts <- MCAsserts
  Allocators = {}
  Send = 91
  ArenaClasses = {}
  ValName <- MCVal
  NonZeroGlobals <- MCNonZeroGlobals
  Prelude <- MCPrelude
  ThisName = 61
  SelfName = 62
  SelfVar = 64
  SizeOfName = 63
  StaticCtors = {}
  MaxRounds = 32
  BuiltinEffects <- NoEffects
  ForeignMethods <- NoEffects
  Method <- MCMethod
INVARIANTS ParseEnds ReadsAsWritten NothingDropped VerifiedRunsEnd RaceFree SkippedContractHolds CapturesAreFree NamesResolved EffectsCovered
CHECK_DEADLOCK FALSE
