SPECIFICATION FairSpec
CONSTANTS
  a = a
  b = b
  c = c
  d = d
  e = e
  P = 4
  Dof = {a, b, c, d, e}
  Local <- Locals
  Gate <- Gates
  Pattern <- Patterns
  Filtered <- Filters
  Program <- Solves
CHECK_DEADLOCK FALSE
INVARIANTS
  OneNumbering
  RightRound
PROPERTIES
  ImplementsPromise
  AllDone
