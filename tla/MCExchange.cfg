CONSTANTS
  Width = 6
  Height = 6
  Turns = 2
  Images <- MCImages
  Threads = 6
  NodeCounts = {1, 2, 4}
  MaxFailures = 1
SPECIFICATION ExchangeSpec
INVARIANTS
  NodesAgree
  BrokerExact
  RelevantOnly
PROPERTIES
  ImplementsLife
CHECK_DEADLOCK FALSE
