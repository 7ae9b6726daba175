SPECIFICATION FairCycleSpec
CONSTANTS
  p1 = p1
  p2 = p2
  p3 = p3
  p4 = p4
  Proc = {p1, p2, p3, p4}
  Top = 0
  Crs = 3
  Phys <- FourPhys
  Parent <- FourParent
  Prime = 101
  Matrix <- MCMatrix
  Pre <- GapPre
  Post <- MCPost
  Peak <- GapPeak
  CrsSolver = 17
  Weight <- MCWeight
  Fixed <- FourFixed
  Inputs <- FourInputs
  CoarseMayFail = TRUE
  Junk = 77
CHECK_DEADLOCK FALSE
INVARIANTS
  CorrectionIsTheCycle
  DefectIsCurrent
  CountersCountSolves
PROPERTIES
  AllFinish
