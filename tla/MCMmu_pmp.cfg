CONSTANTS
  Radix = 2
  Levels = 2
  LevelPages <- TwoLevels
  Pages <- MCPages
  VirtualPages = {0, 4}
  TLB_ENTRIES = 1
  PmpEntries = 2
  Accesses = {2}
  InitialTables <- MCTables
  PteStores <- OnePte
  Roots <- OneSpace
  PmpCfgWrites <- PmpCfgs
  PmpAddrWrites <- PmpAddrs
  PbmteWrites = {FALSE, TRUE}
  StatusWrites <- PmpStatus
SPECIFICATION Spec
INVARIANTS TypeOK TlbCoherent EntriesAnswer
PROPERTIES LockedPmpImmutable
