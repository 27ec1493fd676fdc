SPECIFICATION Spec
CONSTANTS
  Cpus = {b, a1, a2}
  Bsp = b
  v1 = v1
  v2 = v2
  nt = nt
  other = other
  LstarValues = {v1, v2}
  Images = {nt, other}
  ImageOf <- MCImageOf
  VMWARE = TRUE
  None = None
  image = image
  BASE_PAGE_SIZE = 4096
  Polls = 2
INVARIANTS
  OwnMemoryHidden
CHECK_DEADLOCK FALSE
