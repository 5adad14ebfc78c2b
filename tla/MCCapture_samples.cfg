CONSTANTS
  Scripts = {"boot", "coremark", "counters"}
  Plans <- ScriptPlans
  PIPE = 10
SPECIFICATION Spec
CHECK_DEADLOCK FALSE
INVARIANTS TypeOK AcceptedIsComplete RejectedForCause LeavesNothing WindowSlack
PROPERTIES Terminates
