\* One thread fills the buffer: the last frame does not fit and is handed out.
CHECK_DEADLOCK FALSE
SPECIFICATION Spec
CONSTANTS
  t1 = t1
  t2 = t2
  t3 = t3
  Threads = {t1}
  Tags = {record}
  Sizes <- MCSizes
  Capacity = 12
  NoClaim = NoClaim
INVARIANT
  FramesInMapping
