SPECIFICATION FairAlertSpec
CONSTANTS
  w1 = w1
  w2 = w2
  w3 = w3
  h1 = h1
  h2 = h2
  Alert <- MCAlert
  Holder <- MCHolder
  Owner <- MCOwner
  Evaluator = {"daemon"}
  MaxFail = 0
PROPERTY EveryEpisodeFires
