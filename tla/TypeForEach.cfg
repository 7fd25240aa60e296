SPECIFICATION LoopSpec
CONSTANTS
  n = n
  x = x
  y = y
  Vars = {n, x, y}
  LoopVar = n
  VarType <- TwoAndOne
  NumTypes = 2
  MaxNews = 3
  GenMod = 4
  SentinelCopies = FALSE
  MarkedAccesses = FALSE
  MaxBody = 2
INVARIANTS
  TypeOK
  HandlesUnique
  FreeListExact
  CreationOrder
  NoPanic
  VisitsEachOnce
  RewindKeepsPlace
PROPERTIES
  Refines
  Terminates
VIEW HeapAndLoop
CHECK_DEADLOCK FALSE
