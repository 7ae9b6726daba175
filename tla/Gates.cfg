SPECIFICATION FairSpec
CONSTANTS
  p1 = p1
  p2 = p2
  p3 = p3
  p4 = p4
  a = a
  b = b
  c = c
  d = d
  velo = velo
  pres = pres
  Rank = {p1, p2, p3, p4}
  Dof = {a, b, c, d}
  Kind = {velo, pres}
  Holds <- Hold
  Neighbours <- Adjacent
  Program <- Operations
  Unit = 6
CHECK_DEADLOCK FALSE
INVARIANTS
  WholeAgain
  RightMatch
  SendsAreMatched
PROPERTIES
  ImplementsPromise
  AllDone
