SPECIFICATION Spec
CONSTANTS
  NumNodes = 4
  Unset = Unset
  DofGraphs <- MCDofGraphs
CHECK_DEADLOCK FALSE
INVARIANTS
  SystemIsTheSame
  PermutationsAgree
  NumberedByLevels
  FailsForWideEndsOnly
  ProperColouring
  PartitionIsIndependent
