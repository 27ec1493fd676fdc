SPECIFICATION Spec
CONSTANTS
  PageWords = 2
  Entries = 2
  Tables <- MCTableFrames
  DataFrames <- MCDataFrames
  SpareFrames = {19}
  HookFrames = {17}
  ShadowOf <- MCShadowOf
  Eprocs = {"System", "Client", "Other", "Target", "Head"}
  System = "System"
  Client = "Client"
  ListHead = "Head"
  Pids = {4, 8, 12, 16, 20}
  Tagged = {9}
  InitTables <- MCInitTables
  Leaves <- MCLeaves
  InitProcs <- MCInitProcs
  InitList <- MCInitList
  LevelOf <- MCLevelOf
  CommandVa = 0
  HandleVa = 1
  Buffers = {2}
  Addresses = {1, 11}
  Lengths = {2}
  StoreWords = {26, 33}
  MaxCommands = 2
  MaxGuest = 2
  None = None
INVARIANTS TypeOK WalkAgrees TransferExact WritesConfined OpenExact
PROPERTY CommandEnds
CHECK_DEADLOCK FALSE
