\* The process may stop for good: buffer full, or killed.
CHECK_DEADLOCK FALSE
SPECIFICATION Spec
CONSTANTS
  t1 = t1
  t2 = t2
  t3 = t3
  Threads <- MCThreads
  Tags = {record}
  Sizes <- MCSizes
  Capacity = 12
  NoClaim = NoClaim
INVARIANTS
  TypeOK
  FramesApart
  NoGaps
  OneOverrunAtMost
PROPERTY
  ReachableGrows
