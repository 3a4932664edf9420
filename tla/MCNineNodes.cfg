CONSTANTS
  Width = 6
  Height = 6
  Turns = 2
  Images <- MCBlinker
  Threads = 9
  NodeCounts = {9}
  MaxFailures = 0
SPECIFICATION ExchangeSpec
PROPERTIES
  ImplementsLife
CHECK_DEADLOCK FALSE
