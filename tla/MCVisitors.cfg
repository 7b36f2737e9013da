SPECIFICATION MCSpec
CONSTANTS
  g1 = g1
  g2 = g2
  host = host
  Guest <- MCGuest
  Count = 1
  MaxClicks = 1
  MaxWords = 1
  MaxRaces = 1
  MaxOut = 1
  MaxWire = 2
  a1 = a1
  a2 = a2
  r1 = r1
  r2 = r2
  d1 = d1
  c = c
  junk = junk
  Adder <- MCAdder
  Remover <- MCRemover
  Reader <- MCReader
  Length <- MCLength
  Creator = {}
  Junk = junk
SYMMETRY MCSymmetry
CHECK_DEADLOCK FALSE
INVARIANTS
  ViewsConverge
  NobodyEarly
  NobodyLeftBehind
  BooksBalance
  DrawsWhole
  DrawsFromAll
