CONSTANTS
  N = 2
  Width = 4
  Height = 4
  Turns = 1
  Images <- MCImages
  Threads = 2
  EventCap = 1
  KeyCap = 2
  Keys = {"s", "p", "q"}
  MaxPresses = 1
  MaxTicks = 1
SPECIFICATION MCSpec
PROPERTIES
  Finishes
  QuitIsServed
  WorkersExit
