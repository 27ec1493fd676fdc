SPECIFICATION FairSpec
CONSTANTS
  Cpus = {c1}
  Base = 2
  HEAP_SIZE = 18
  LINK_SIZE = 2
  LINK_ALIGN = 2
  Sizes <- MCSizes
  Aligns <- MCAligns
  None = None
PROPERTIES
  ReallocReturns
CHECK_DEADLOCK FALSE
