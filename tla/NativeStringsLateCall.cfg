SPECIFICATION Spec
CONSTANTS
  Blocks = {b1, b2}
  Empty = Empty
  Programs = {"structs", "late_call"}
  MaxDepth = 2
  MaxPending = 2
  MaxLeaks = 1
SYMMETRY BlockSymmetry

INVARIANT NoDangling
