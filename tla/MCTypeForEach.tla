---------------------------- MODULE MCTypeForEach ----------------------------
(* Small instance of TypeForEach for TLC: the loop variable and another one  *)
(* of its Type, and one of another Type sharing the slab.                    *)
EXTENDS TypeForEach, TLC

CONSTANTS n, x, y

TwoAndOne == (n :> 1) @@ (x :> 1) @@ (y :> 2)

\* States that differ in done and turn only are one: no guard reads either, and
\* turn flips with every statement, so no statement is a stutter for TLC.
HeapAndLoop == <<entries, generations, size, freeList, sentinel, tail, slots,
                 trap, born, issued, pc, visited, work>>
=============================================================================
