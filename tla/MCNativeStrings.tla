--------------------------- MODULE MCNativeStrings ---------------------------
EXTENDS NativeStrings, TLC
\* Blocks are interchangeable.
BlockSymmetry == Permutations(Blocks)
=============================================================================
