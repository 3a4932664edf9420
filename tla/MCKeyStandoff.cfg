CONSTANTS
  N = 2
  Width = 4
  Height = 4
  Turns = 1
  Images <- MCImages
  Threads = 2
  EventCap = 20
  KeyCap = 1
  Keys = {"s"}
  MaxPresses = 2
  MaxTicks = 0
SPECIFICATION MCSpec
PROPERTIES
  Finishes
CHECK_DEADLOCK FALSE
