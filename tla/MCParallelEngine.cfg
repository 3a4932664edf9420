CONSTANTS
  N = 2
  Width = 4
  Height = 4
  Turns = 2
  Images <- MCImages
  Threads = 2
  EventCap = 1
  KeyCap = 3
  Keys = {"s", "p", "q"}
  MaxPresses = 2
  MaxTicks = 1
SPECIFICATION MCSpec
INVARIANTS
  WholeFrames
  FlipsInTurn
  ReportsMatchFrame
  LastWorldSaved
PROPERTIES
  PauseFreezes
