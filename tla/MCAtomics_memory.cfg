CONSTANTS
  t1 = t1
  Handler = Handler
  Threads = {t1}
  PrivilegeOf <- OneUser
  Pages = {0, 1}
  VirtualPages = {0, 1}
  PageWords = 2
  BlockWords = 2
  Ram <- HalfAPage
  Clint <- NoWords
  Word = 2
  Operands = {2}
  BitAnd <- AndOf
  BitOr <- OrOf
  BitXor <- XorOf
  AmoOps = {"swap"}
  CboOps = {"zero"}
  InitialMaps <- PrivateMaps
  Mappings <- StoreMappings
  EnvcfgWrites <- ZeroOnly
SPECIFICATION Spec
INVARIANTS TypeOK
PROPERTIES ScPairsWithOwnLr WritesPermitted StoresAreComplete
