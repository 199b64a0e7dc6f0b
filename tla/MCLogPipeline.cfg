\* The process may stop for good: buffer full, killed, or no calls left.
CHECK_DEADLOCK FALSE
SPECIFICATION FairSpec
CONSTANTS
  t1 = t1
  t2 = t2
  m = m
  f = f
  s1 = s1
  l1 = l1
  l2 = l2
  c1 = c1
  n1 = n1
  Threads <- MCThreads
  Capacity = 16
  NoClaim = NoClaim
  Messages = {m, f}
  FatalMessages = {f}
  FatalArg = Plain
  Strings = {s1}
  Locations = {l1, l2}
  Schemas = {c1}
  Nodes = {n1}
  Plain = Plain
  InfoWords = 0
  RecordWords = 0
  NoJob = NoJob
  NoIndex = NoIndex
  NoThread = NoThread
  Programs <- MCPrograms
INVARIANTS
  TypeOK
  StringsDescribedOnce
  ReferencesResolve
  IndexesAgree
  InfoFramesBounded
PROPERTIES
  InfoBeforeUse
  BufferUsed
  CallsReturn
  NodesGetDescribed
