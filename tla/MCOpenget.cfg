SPECIFICATION MCSpec
CONSTANTS
  latest = latest
  Feed <- MCFeed
  Attempts = 3
  MaxVersion = 4
  StoreMayFail = TRUE
  ItemsMissing = TRUE
  Every = 10
  Settle = 3
  MaxJob = 4
  MaxPeriod = 5
  StartPhase <- MCStart
  Day = 16
  Night = 5
  DiskEvery = 4
  MaxCheck = 1
  MaxNight = 5
  MaxDay = 4
  TickAt <- MCApart
  t1 = t1
  q1 = q1
  q2 = q2
  i1 = i1
  i2 = i2
  Token <- MCToken
  Request <- MCRequest
  Item <- MCItem
  Counted <- MCCounted
  Cap = 1
  PruneAfter = 2
  Patience = 1
  MaxTime = 4
  w1 = w1
  w2 = w2
  w3 = w3
  h1 = h1
  h2 = h2
  Alert <- MCAlert
  Holder <- MCHolder
  Owner <- MCOwner
  Evaluator = {"daemon"}
  MaxFail = 1
CHECK_DEADLOCK FALSE
INVARIANTS
  OkIsCurrent
  GuardNeverBlind
  CapNearlyHeld
  NothingOrphaned
  OneEventPerEpisode
PROPERTIES
  FollowsFeed
  Fresh
  EveryBucketRead
  EveryNight
  KeptWhileUsed
  Retired
  FiringShown
  MarkedSilent
  ArmedFires
