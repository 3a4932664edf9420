CONSTANTS
  N = 4
  Width = 6
  Height = 6
  Turns = 2
  Images <- MCImages
  Threads = 5
SPECIFICATION MCSpec
INVARIANTS
  NoDataRace
  CountsExact
  BarrierTypeOK
  DistributorAlone
  NobodyLeftBehind
PROPERTIES
  ImplementsLife
