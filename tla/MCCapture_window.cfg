CONSTANTS
  Scripts = {"counters"}
  Plans <- ScriptPlans
  PIPE = 10
SPECIFICATION Spec
CHECK_DEADLOCK FALSE
INVARIANTS WindowInsideWorkload
