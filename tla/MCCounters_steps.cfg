CONSTANTS
  CounterSpan = 3
  CounterWrites = {0, 2}
SPECIFICATION Spec
INVARIANTS CountsInstructions
