SPECIFICATION ScalarSpec
CONSTANTS
  p1 = p1
  p2 = p2
  Rank = {p1, p2}
  N = 2
  MaxSpurious = 1
  MayAbort <- Everybody
CHECK_DEADLOCK FALSE
INVARIANTS
  NoFailedAssertion
