SPECIFICATION BlamedSpec
CONSTANTS
  w1 = w1  w2 = w2
  r1 = r1  r2 = r2  r3 = r3
  Workers = {w1, w2}
  MainWorker = w1
  Results = {r1, r2, r3}
  KindChoices <- KindMixes
  PathOf <- ThePaths
  LinesShown = 2
  ArgChoices <- AllArgs
  StdoutFailures <- Failures
  StderrFailures <- Failures
INVARIANTS DeterministicExit OutputExact GracefulBrokenPipe BlameConsistent
PROPERTIES Terminates
