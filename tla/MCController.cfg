CONSTANTS
  MaxRequests = 4
  MaxVersion = 4
  Turns = 2
  StreamCap = 2
  MaxFlips = 2
  MaxKeys = 2
  MaxRecoveries = 2
SPECIFICATION MCSpec
INVARIANTS
  ServedOnce
  FilesAsAsked
  CountsOfTurn
  FilesOfTurns
  CellsFit
  PauseAgrees
PROPERTIES
  ControllerEnds
