CONSTANTS
  n1 = n1
  n2 = n2
  n3 = n3
  Nodes = {n1, n2}
  Sessions = {1, 2}
  Turns = 2
  Keys = {"p", "q", "k"}
  MaxKeys = 2
  MaxLosses = 2
SPECIFICATION MCSpec
INVARIANTS
  TurnsReportedOnce
  FullRuns
  NobodyForgotten
  StopsAfterGoodbye
PROPERTIES
  Survives
  NextServed
  KillEnds
CHECK_DEADLOCK FALSE
