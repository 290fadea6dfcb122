SPECIFICATION Spec
CONSTANTS
  Height = 3
  IntMax = 7
  Units <- MCUnits
  Programs <- MCPrograms
CHECK_DEADLOCK FALSE
INVARIANTS PrintedOnce BinsHold StatisticsSurvive CsvLosesOnlyRemote
