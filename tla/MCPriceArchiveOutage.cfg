SPECIFICATION Spec
CONSTANTS
  Hour = 2
  Day = 4
  Points = 2
  MaxGap = 9
  MaxTime = 9
  Traded <- MCTraded
  BackfillSteps = {"24h"}
  Window <- MCWindow
  Keep <- MCKeep
PROPERTY DeletedOnlyIfAbsorbed
