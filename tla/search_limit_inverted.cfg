SPECIFICATION SearcherSpec
CONSTANTS
  MaxLines = 4  MaxContext = 1
  Limits = {0, 1, 2}
  MaxHits = 2
  Cases <- LimitCases
  HeadLines = 1
INVARIANT LimitKept
