SPECIFICATION Spec
CONSTANTS
  BasePage = 2
  Entries = 4
  MtrrCount = 2
  MtrrRegs <- MCMtrrRegs
  FixedPages = 2
  UnreadMtrrs <- MCUnreadMtrrs
INVARIANTS
  TypeOK
  MapsAreIdentity
  TypesRespectMtrrs
  StrictTypesAreBacked
CHECK_DEADLOCK FALSE
