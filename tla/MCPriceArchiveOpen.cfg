SPECIFICATION Spec
CONSTANTS
  Hour = 2
  Day = 4
  Points = 2
  MaxGap = 2
  MaxTime = 9
  Traded <- MCTraded
  BackfillSteps <- MCSteps
  Window <- MCWindow
  Keep <- MCKeep
  Reach <- MCReach
PROPERTY OpenBucketRecomputed
