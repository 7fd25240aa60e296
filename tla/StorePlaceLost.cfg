SPECIFICATION Spec
CONSTANTS
  NumInstances = 1
  NumArrays = 1
  MaxDeletes = 1
  MaxPath = 3
INVARIANT ChangePersists
CHECK_DEADLOCK FALSE
