SPECIFICATION Spec
CONSTANTS
  Program <- MCProgram
  Regs = {"r1", "r2"}
  Data = {"a", "b"}
  Default = "default"
  Void = "void"
  MaxDepth = 4
INVARIANT CallsNested
PROPERTIES
  Refines
CHECK_DEADLOCK FALSE
