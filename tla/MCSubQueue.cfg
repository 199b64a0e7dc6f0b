SPECIFICATION Spec
CONSTANTS
  c1 = c1
  c2 = c2
  b1 = b1
  b2 = b2
  b3 = b3
  None = None
  Consumers <- MCConsumers
  Blocks <- MCBlocks
  Setups <- MCSetups
  BLOCK_SIZE = 2
  MAX_SUBQUEUE_SIZE = 4
  Failures = {}
  EXPLICIT_INITIAL_INDEX_SIZE = 2
  IMPLICIT_INITIAL_INDEX_SIZE = 2
SYMMETRY MCSymmetry
INVARIANTS
  TypeOK
  CountersAgree
  DestructorExact
PROPERTIES
  ImplementsQueue
