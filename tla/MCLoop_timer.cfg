CONSTANTS
  PcSlots = 1
  Unit = 2
  Units = 2
  TimeSpan = 4
  Codes = {8}
  Writes <- GuestWrites
  MsipStores = {0, 1}
  ClintStores <- TwoDigits
  ATTEMPTS_PER_TICK = 2
SPECIFICATION LoopSpec
CHECK_DEADLOCK FALSE
INVARIANTS LoopTypeOK PreciseInterrupts CleanPollIsEager
PROPERTIES TimerFires InterruptNestsUpward
