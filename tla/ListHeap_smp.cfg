SPECIFICATION Spec
CONSTANTS
  Cpus = {c1, c2}
  Base = 2
  HEAP_SIZE = 20
  LINK_SIZE = 2
  LINK_ALIGN = 2
  Sizes <- MCSizes
  Aligns <- MCAligns
  None = None
SYMMETRY Symmetry
INVARIANTS
  ListOrdered
  LiveIsLinked
  NoOverlap
  IndInv
PROPERTIES
  NullMeansNoRoom
  ImplementsAllocator
CHECK_DEADLOCK FALSE
