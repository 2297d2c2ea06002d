SPECIFICATION Spec
CONSTANTS
  W = 4
  Tasks <- MCTasks
  FirstHalves <- MCHalves
  Lows <- MCLows
  NumLines = 3
  NumSets = 1
  NumWays = 2
  LineSize = 2
  Byte = {0, 1}
  Blank = 0
  Widths = {1, 2}
  Values <- MCValues
  BootImage <- MCBootImage
CONSTRAINT OneExtra
INVARIANTS EveryFormHasOneMeaning OperationsAreExact CachesAreWriteBack
PROPERTIES UserModeIsClosed FaultsArePrecise
