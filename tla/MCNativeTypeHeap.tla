-------------------------- MODULE MCNativeTypeHeap --------------------------
(* Small instances of NativeTypeHeap for TLC.                              *)
EXTENDS NativeTypeHeap

CONSTANTS a, b

\* Two variables of one Type.
PairOfOne == [v \in {a, b} |-> 1]

\* States that differ in done and turn only are one: no guard reads either, and
\* turn flips with every statement, so no statement is a stutter for TLC.
HeapAndVariables == <<nodes, brk, lists, ref, trap, born, rewound>>
=============================================================================
