\* The process may end.
CHECK_DEADLOCK FALSE
SPECIFICATION RegistriesSpec
CONSTANTS
  t1 = t1
  t2 = t2
  x = x
  y = y
  lx1 = lx1
  lx2 = lx2
  ly = ly
  d1 = d1
  d2 = d2
  d3 = d3
  o1 = o1
  o2 = o2
  o3 = o3
  Threads <- MCThreads
  Texts = {x, y}
  Empty = Empty
  Literals = {lx1, lx2, ly}
  TextOf <- MCTextOf
  Dynamics = {d1, d2, d3}
  Null = Null
  Ids <- MCThreads
  Objects <- MCObjects
  MaxSize = 2
  None = None
  Hierarchies <- MCHierarchies
  Names <- MCNames
  Loaders <- MCLoaders
  Refs = {r1, r2, r3}
  Messages = {m1}
  Slots = {c1, c2}
  Errored = {c1}
  Payloads = {p1, p2}
  Codes <- MCCodes
  Large = {"large"}
  Mappings <- MCMappings
  Condition <- MCCondition
  Categories = {k1, k2, k3}
  MaxItems = 2
  Queues = {q1, q2}
  FirstCapacity = 4
  MaxTables = 2
  MaxConsumers = 1
INVARIANTS
  EqualityIsText
  EveryTypeOK
  OneOwner
  OwnersCounted
  SomebodyProceeds
  LookUpsMatch
PROPERTIES
  AddressesStay
  IterationUndisturbed
  KnownThreadsReturn
