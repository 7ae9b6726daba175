SPECIFICATION FairSpec
CONSTANTS
  p1 = p1
  p2 = p2
  p3 = p3
  Rank = {p1, p2, p3}
  Neighbours <- Row
  Norm = {0, 4, 5}
  Config <- Solvers
  MayFail = {p1, p3}
  Solves = 2
CHECK_DEADLOCK FALSE
INVARIANTS
  LockStep
  VerdictsAgree
  DefectIsFresh
PROPERTIES
  ImplementsRule
  AllReturn
