SPECIFICATION Spec
CONSTANTS
  Blocks = {b1, b2}
  Empty = Empty
  Programs = {"structs"}
  MaxDepth = 2
  MaxPending = 2
  MaxLeaks = 1
SYMMETRY BlockSymmetry
INVARIANTS CountsExact NoDangling
