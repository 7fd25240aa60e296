SPECIFICATION Spec
CONSTANTS
  a = a
  b = b
  Vars = {a, b}
  VarType <- PairOfOne
  NumTypes = 1
  MaxNews = 3
  DoubleDeletes = FALSE
  MarkedAccesses = FALSE
INVARIANT DeletedUnreachable
PROPERTY
  Refines
VIEW HeapAndVariables
CHECK_DEADLOCK FALSE
