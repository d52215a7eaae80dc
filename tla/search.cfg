SPECIFICATION SearcherSpec
CONSTANTS
  MaxLines = 4  MaxContext = 1
  Limits = {0, 1, 2}
  MaxHits = 2
  Cases <- SoundCases
  HeadLines = 1
INVARIANTS TypeOK ExactEvents MultiExact BinaryTold BytesSearched
PROPERTIES RefusalHonoured Ended
