CONSTANTS
  n1 = n1
  n2 = n2
  n3 = n3
  Nodes = {n1, n2, n3}
  Sessions = {1}
  Turns = 1
  Keys = {}
  MaxKeys = 0
  MaxLosses = 1
SPECIFICATION BrokerSpec
INVARIANTS
  NoCrash
CHECK_DEADLOCK FALSE
