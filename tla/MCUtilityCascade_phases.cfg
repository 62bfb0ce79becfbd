SPECIFICATION Spec
CONSTANTS
  Cap = 2
  TestIters = 2
  SetIters = 2
  Times = {1, 2}
  Scale = 2
CHECK_DEADLOCK FALSE
INVARIANTS
  
  BackoffDoubles
PROPERTY
  PhasesAlternate
