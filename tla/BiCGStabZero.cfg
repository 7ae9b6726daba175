SPECIFICATION Spec
CONSTANTS
  p1 = p1
  p2 = p2
  p3 = p3
  Rank = {p1, p2, p3}
  Neighbours <- Row
  Norm = {0, 4, 5}
  Config <- OneBiCGStab
  MayFail = {p1, p3}
  Solves = 1
CHECK_DEADLOCK FALSE
INVARIANT
  VerdictIsDefined
