SPECIFICATION FairSpec
CONSTANTS
  p1 = p1
  p2 = p2
  p3 = p3
  p4 = p4
  a = a
  b = b
  c = c
  d = d
  mass = mass
  stiff = stiff
  Rank = {p1, p2, p3, p4}
  Dof = {a, b, c, d}
  Holds <- Hold
  Neighbours <- Adjacent
  Pattern <- Patterns
  Program <- Matrices
CHECK_DEADLOCK FALSE
INVARIANTS
  RightRound
  RightPlaces
  OneSendEach
PROPERTIES
  ImplementsPromise
  AllDone
