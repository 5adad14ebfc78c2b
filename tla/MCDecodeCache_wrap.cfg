CONSTANTS
  s1 = s1
  s2 = s2
  i1 = i1
  i2 = i2
  Fault = Fault
  Pcs = {0, 1}
  ENTRIES = 1
  EpochMod = 4
  Satps = {s1, s2}
  Satp0 = s1
  Privileges = {0, 3}
  Insns = {i1, i2}
  InitialCode <- Programs
  Writable <- Changing
SPECIFICATION Spec
INVARIANTS HitIsFetchable EntriesAreFetchable
