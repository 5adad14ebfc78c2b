CONSTANTS
  PcSlots = 2
  Unit = 1
  Units = 1
  TimeSpan = 1
  Codes = {2, 8, 9}
  Writes <- TrapWrites
  MsipStores = {}
  ClintStores = {}
SPECIFICATION Spec
PROPERTIES TrapSavesContext TrapsNeverLowerPrivilege SupervisorConfined
