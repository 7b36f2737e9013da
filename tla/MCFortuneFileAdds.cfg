SPECIFICATION FortuneSpec
CONSTANTS
  a1 = a1
  a2 = a2
  r1 = r1
  r2 = r2
  d1 = d1
  c = c
  junk = junk
  Adder <- MCAdder
  Remover = {}
  Reader = {}
  Length <- MCLength
  Creator = {c}
  Junk = junk
CHECK_DEADLOCK FALSE
INVARIANT LastRenameCovers
