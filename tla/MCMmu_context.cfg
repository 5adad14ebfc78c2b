CONSTANTS
  Radix = 2
  Levels = 2
  LevelPages <- TwoLevels
  Pages <- MCPages
  VirtualPages = {0, 1}
  TLB_ENTRIES = 1
  PmpEntries = 2
  Accesses = {1}
  InitialTables <- MCTables
  PteStores <- ContextPtes
  Roots <- TwoSpaces
  PmpCfgWrites <- ContextCfgs
  PmpAddrWrites <- ContextAddrs
  PbmteWrites = {FALSE}
  StatusWrites <- ContextStatus
SPECIFICATION Spec
INVARIANTS TlbCoherent
