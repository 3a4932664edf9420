CONSTANTS
  MaxThreads = 16
  MaxSize = 9
  MaxNodes = 5
  Width = 7
  Height = 5
  Lengths = {1, 2, 127, 128, 255, 256, 257, 32767, 32768, 65537, 8388607, 8388608, 2147483647}
SPECIFICATION SurveySpec
INVARIANTS
  DivisionCorrect
  DealtOnce
  DataSurvives
CHECK_DEADLOCK FALSE
