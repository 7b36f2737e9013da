SPECIFICATION MCSpec
CONSTANTS
  t1 = t1
  q1 = q1
  q2 = q2
  i1 = i1
  Token <- MCToken
  Request <- MCRequest
  Item <- MCItem
  Counted <- MCCounted
  Cap = 1
  PruneAfter = 2
  Patience = 1
  MaxTime = 4
PROPERTY ForgottenForGood
