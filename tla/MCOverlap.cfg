CONSTANTS
  Tasks = 2
  Size <- MCSingle
  Turns = 1
SPECIFICATION MCOverlapSpec
PROPERTIES
  NoCallHangs
