\* The queue may be destroyed.
CHECK_DEADLOCK FALSE
SPECIFICATION Spec
SYMMETRY MCSymmetry
CONSTANTS
  t1 = t1
  t2 = t2
  t3 = t3
  Threads <- MCThreads
  Setups <- MCSetups
  MaxProducers = 3
  None = None
  Empty = Empty
  Reusable = Reusable
  INITIAL_IMPLICIT_PRODUCER_HASH_SIZE = 2
  MaxTables = 3
  QUOTA = 2
  Modulus = 4
INVARIANTS
  TypeOK
  ProducersOwned
  HashHasRoom
  NothingMissed
