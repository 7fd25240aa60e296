--------------------------- MODULE MCInterpCalls ---------------------------
EXTENDS InterpCalls

(***************************************************************************)
(* A program of two functions.  @main calls Walk directly and through its  *)
(* address, with and without using the result, and calls through a         *)
(* variable that was never assigned.  Walk(n) keeps a value in a local     *)
(* across a recursive call, returns a local it may not have assigned, or   *)
(* ends without a Return, with End or with a trap.                         *)
(***************************************************************************)
Unused == "no register"    \* CallSpec!NoReg; a constant of CallSpec cannot refer to it

ConstInst(v, r) == [op |-> "const", value |-> v, result |-> r]
LoadInst(l, r) == [op |-> "load", local |-> l, result |-> r]
StoreInst(l, r) == [op |-> "store", local |-> l, from |-> r]
CallInst(f, args, r) == [op |-> "call", callee |-> f, args |-> args, result |-> r]
IndirectInst(f, args, r) == [op |-> "indirect", callee |-> f, args |-> args, result |-> r]
RuntimeInst(r) == [op |-> "runtime", result |-> r]
BranchTo(targets) == [op |-> "branch", targets |-> targets]
ReturnReg(r) == [op |-> "return", from |-> r]
BB(insts, term) == [insts |-> insts, term |-> term]

MainBody ==
  <<BB(<<RuntimeInst("r1"), StoreInst(1, "r1")>>, BranchTo({2, 3, 4})),
    BB(<<CallInst("Walk", <<"r1">>, "r2"), StoreInst(2, "r2"),
         CallInst("Walk", <<"r2">>, Unused)>>, BranchTo({3, 5})),
    BB(<<ConstInst("Walk", "r2"), IndirectInst("r2", <<"r1">>, "r1")>>, BranchTo({4, 5})),
    BB(<<LoadInst(2, "r2"), IndirectInst("r2", <<"r1">>, "r2")>>, BranchTo({5})),
    BB(<<>>, ReturnReg(Unused))>>

WalkBody ==
  <<BB(<<LoadInst(1, "r1")>>, BranchTo({2, 3, 4, 5})),
    BB(<<RuntimeInst("r2"), StoreInst(2, "r2"), CallInst("Walk", <<"r2">>, "r1")>>,
       BranchTo({3, 4})),
    BB(<<LoadInst(2, "r1")>>, ReturnReg("r1")),
    BB(<<>>, BranchTo({6, 7, 8})),
    BB(<<>>, ReturnReg("r1")),
    BB(<<>>, ReturnReg(Unused)),
    BB(<<>>, [op |-> "halt"]),
    BB(<<>>, [op |-> "trap"])>>

MCProgram ==
  [f \in {"@main", "Walk"} |->
     IF f = "@main" THEN [params |-> 0, locals |-> 2, blocks |-> MainBody]
     ELSE [params |-> 1, locals |-> 2, blocks |-> WalkBody]]
=============================================================================
