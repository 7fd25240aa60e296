SPECIFICATION Spec
CONSTANTS
  NumInstances = 2
  NumArrays = 1
  MaxDeletes = 1
  MaxPath = 3
PROPERTIES
  Refines
  TrapChangesNothing
CHECK_DEADLOCK FALSE
