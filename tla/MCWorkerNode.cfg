CONSTANTS
  Tasks = 3
  Size <- MCSize
  Turns = 1
SPECIFICATION MCSpec
INVARIANTS
  ReadyWhenInitReturns
  MergesOwnResults
  AtMostOneLeft
PROPERTIES
  CallsReturn
  RetiredLeave
