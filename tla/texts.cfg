INIT Init
NEXT Next
CONSTANTS
  MaxAtoms = 3
  LimitClass = 2
  LimitRepeat = 2
  LimitLiteralLen = 3
  LimitTotal = 4
  KeptLen = 2
  Poisonous = {"b"}
  DefaultBufferCapacity = 2
  NoValue = NoValue
  MaxLookAhead = 2
  MaxU64 = 1073741823
  MaxU32 = 65535
INVARIANTS GlobsExact RulesExact RegexExact StrategyExact LinesExact ConversionsExact
CHECK_DEADLOCK FALSE
