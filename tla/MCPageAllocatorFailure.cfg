\* The pages stop at MaxPages.
CHECK_DEADLOCK FALSE
SPECIFICATION Spec
SYMMETRY MCSymmetry
CONSTANTS
  u1 = u1
  u2 = u2
  Users <- MCTwoUsers
  Sizes = {0, 1, 3, 5}
  None = None
  Alignments = {1, 2}
  W = 7
  MinPage = 8
  WordBytes = 4
  CanFail = TRUE
  MaxPages = 3
INVARIANT
  AlwaysInPage
