CONSTANTS
  XLEN = 8
  WORD = 4
  HALF = 3
  BYTE = 2
  BitAnd <- AndOf
  BitOr <- OrOf
  BitXor <- XorOf
  Edges <- EdgeValues
  RandomPairs <- SomePairs
SPECIFICATION ScriptSpec
CHECK_DEADLOCK FALSE
INVARIANTS OxySpikeAgrees EveryVectorIsCompared DecodedAgrees AmosAreOnWords
