SPECIFICATION Spec
CONSTANTS
  c1 = c1
  c2 = c2
  c3 = c3
  c4 = c4
  l1 = l1
  l2 = l2
  a1 = a1
  a2 = a2
  a3 = a3
  a4 = a4
  v1 = v1
  NullPtr = NullPtr
  NoPtr = NoPtr
  Undef = Undef
  Con = {c1, c2, c3, c4}
  Layout = {l1, l2}
  Addr = {a1, a2, a3}
  Val = {v1}
  Slot <- MCSlot
  ElementSlot <- MCElementSlot
  DataType <- TwoDataTypes
  IndexType <- OneIndexType
  Shapes <- FullShapes
  Permit <- NoDelicateCalls
SYMMETRY Symmetry
CONSTRAINT FewLive
CHECK_DEADLOCK FALSE
INVARIANTS
  RefCount
  LiveMemory
  FaultFree
PROPERTIES
  ImplementsSharedArrays
  DeepCloneIsIndependent
