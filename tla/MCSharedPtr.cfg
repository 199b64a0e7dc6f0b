\* A program may be done with its objects.
CHECK_DEADLOCK FALSE
SPECIFICATION Spec
SYMMETRY MCSymmetry
CONSTANTS
  t1 = t1
  t2 = t2
  o1 = o1
  o2 = o2
  a1 = a1
  a2 = a2
  b1 = b1
  b2 = b2
  Threads <- MCThreads
  Objects = {o1, o2}
  Slots <- MCSlots
  SlotOwner <- MCSlotOwner
  Null = Null
  StoresOne = TRUE
  SelfRefs = TRUE
INVARIANTS
  TypeOK
  CountIsOwners
  DestructorSeesAll
  NoDangling
  DisposedOnce
PROPERTIES
  UniqueSeesAll
