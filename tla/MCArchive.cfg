SPECIFICATION MCSpec
CONSTANTS
  Hour = 2
  Day = 4
  Points = 2
  MaxGap = 2
  MaxTime = 9
  Traded <- MCTraded
  BackfillSteps <- MCSteps
  Window <- MCWindow
  Keep <- MCKeep
  Reach <- MCReach
  c1 = c1
  c2 = c2
  c3 = c3
  Caller <- MCCaller
  Gap = 3
  Lag = 2
  MaxInstant = 11
CHECK_DEADLOCK FALSE
INVARIANTS
  RowsSound
  Limited
PROPERTIES
  ContributionsKept
  RollupReconstructs
  DeletedOnlyIfAbsorbed
  HistoryKept
