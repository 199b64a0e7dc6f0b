\* The arena may be destroyed, and counts stop at their bounds.
CHECK_DEADLOCK FALSE
SPECIFICATION Spec
SYMMETRY MCSymmetry
CONSTANTS
  u1 = u1
  u2 = u2
  u3 = u3
  Users <- MCUsers
  None = None
  CacheSizes = {0, 1, 2}
  Words = 6
  Cells = 2
  ArenaSizes = {0, 1, 3}
  N = 24
  Alignment = 2
  HeapEnd = 32
  MaxUsed = 26
  PageSizes = {0, 5}
  Alignments = {1, 2}
  W = 7
  MinPage = 8
  WordBytes = 4
  CanFail = TRUE
  MaxPages = 3
  initialBlockPoolSize = 1
  MaxBlocks = 3
INVARIANTS
  TypeOK
  Accounted
PROPERTIES
  Allocates
