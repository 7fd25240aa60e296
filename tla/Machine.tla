------------------------------ MODULE Machine ------------------------------
(***************************************************************************)
(* The interpreter running lowered code: one instruction or terminator at a   *)
(* time.  m is its state: the frames, the globals, the arrays, what it has    *)
(* called the runtime with, and how it ended.  The heap of Type instances and  *)
(* struct values are InterpTypeHeap and InterpStorePlace; programs that use    *)
(* them are not run here.                                                   *)
(***************************************************************************)
EXTENDS Verifier

CONSTANT MaxCalls       \* MAX_CALL_DEPTH

Running == <<"running">>
Exit(code) == <<"exit", code>>
Stopped(why) == <<"stopped", why>>       \* a trap or a runtime error

TopFrame(m) == m.frames[Len(m.frames)]
Stop(m, how) == [m EXCEPT !.status = how]
Advance(m) == [m EXCEPT !.frames[Len(m.frames)].pc = @ + 1]
SetReg(m, r, v) == IF r = 0 THEN m ELSE [m EXCEPT !.frames[Len(m.frames)].regs = (r :> v) @@ @]
\* The value of an instruction, or the error it ends with.
Yield(m, inst, v) == IF IsFailed(v) THEN Stop(m, Stopped(v[2])) ELSE Advance(SetReg(m, inst.res, v))
OrStop(m, failure, next) == IF failure # "" THEN Stop(m, Stopped(failure)) ELSE next

BodyIndex(ir, target) == LET e == CHOOSE x \in ir.table : x.target = target IN e.body
PushFrame(ir, m, i, args, ret) ==
  LET f == ir.functions[i]
      locals == [k \in DOMAIN f.locals |->
                   CASE k \in DOMAIN args -> args[k]
                     [] k \notin DOMAIN args /\ f.locals[k].param -> VoidV
                     [] k \notin DOMAIN args /\ ~f.locals[k].param -> DefaultOf(f.locals[k].ty)]
  IN  IF Len(m.frames) >= MaxCalls THEN Stop(m, Stopped("stack overflow"))
      ELSE [m EXCEPT !.frames = Append(@, [f |-> i, regs |-> <<>>, locals |-> locals, block |-> 1, pc |-> 1, ret |-> ret])]
Start(ir) ==
  PushFrame(ir, [frames |-> <<>>, globals |-> [n \in DOMAIN ir.globals |-> DefaultOf(ir.globals[n])],
                 heap |-> <<>>, out |-> <<>>, status |-> Running], BodyIndex(ir, Top), <<>>, 0)

\* The runtime: the call is what a user sees of it, and it answers with a default.
RuntimeAnswer(target) ==
  LET f == CHOOSE g \in Elements(Catalog.funcs) : g.symbol = target[2] IN
  IF f.ret = Void THEN VoidV ELSE DefaultOf(f.ret)
Dispatch(ir, m, inst, target, args) ==
  IF target[1] = "Runtime" THEN Yield([m EXCEPT !.out = Append(@, <<target[2], args>>)], inst, RuntimeAnswer(target))
  ELSE PushFrame(ir, Advance(m), BodyIndex(ir, target), args, inst.res)

VarValue(m, var) == IF var[1] = "Local" THEN TopFrame(m).locals[var[2]] ELSE m.globals[var[2]]
SetVar(m, var, v) == IF var[1] = "Local" THEN [m EXCEPT !.frames[Len(m.frames)].locals[var[2]] = v]
                     ELSE [m EXCEPT !.globals[var[2]] = v]

\* Arrays, row by row; dimensions and indices count from 0.
Product(dims) == LET f[i \in 0 .. Len(dims)] == IF i = 0 THEN 1 ELSE f[i - 1] * dims[i] IN f[Len(dims)]
FlatIndex(dims, idx) == LET f[i \in 0 .. Len(dims)] == IF i = 0 THEN 0 ELSE f[i - 1] * dims[i] + idx[i] IN f[Len(dims)]
Inside1(dims, idx) == Len(idx) = Len(dims) /\ \A i \in DOMAIN idx : idx[i] < dims[i]
Sizes(values) == [i \in DOMAIN values |-> ToLong(values[i])]
SomeNegative(ns) == \E i \in DOMAIN ns : ns[i] < 0
AddArray(m, dims, elem) ==
  [m EXCEPT !.heap = Append(@, [dims |-> dims, data |-> [i \in 1 .. Product(dims) |-> DefaultOf(elem)]])]
NewestArray(m) == <<"Array", Len(m.heap)>>
\* What stops an access to an array: "" when nothing does.
AccessError(m, arr, idx) ==
  CASE SomeNegative(idx) -> "negative array index"
    [] ~SomeNegative(idx) /\ arr = NullV -> "NullDeref"
    [] ~SomeNegative(idx) /\ arr[1] = "Array" ->
         IF Inside1(m.heap[arr[2]].dims, idx) THEN "" ELSE "IndexOutOfBounds"
    [] OTHER -> "index on non-array"
Element(m, arr, idx) == m.heap[arr[2]].data[FlatIndex(m.heap[arr[2]].dims, idx) + 1]
ArrayError(arr) == CASE arr = NullV -> "NullDeref" [] arr[1] = "Array" -> "" [] OTHER -> "len on non-array"
DimLen(dims, d) == IF d + 1 \in DOMAIN dims THEN dims[d + 1] ELSE 0

\* Along the path, every step an index list, to the array element that takes the value.
RECURSIVE StoreWalk(_, _, _, _, _)
StoreWalk(m, arr, path, idx, v) ==
  LET first == SubSeq(idx, 1, path[1][2])
      error == AccessError(m, arr, first)
      rest == SubSeq(idx, path[1][2] + 1, Len(idx))
  IN  CASE error # "" -> Stop(m, Stopped(error))
        [] error = "" /\ Len(path) = 1 ->
             Advance([m EXCEPT !.heap[arr[2]].data[FlatIndex(m.heap[arr[2]].dims, first) + 1] = v])
        [] error = "" /\ Len(path) > 1 -> StoreWalk(m, Element(m, arr, first), Tail(path), rest, v)

ExecInst(ir, m, inst) ==
  LET regs == TopFrame(m).regs
      a == [i \in DOMAIN inst.use |-> regs[inst.use[i]]]
      op == inst.op
      dims(from) == Sizes(SubSeq(a, from, Len(a)))
  IN  CASE op = "Const" -> Yield(m, inst, inst.arg)
        [] op = "FuncAddr" -> Yield(m, inst, <<"FnPtr", inst.arg>>)
        [] op = "Load" -> Yield(m, inst, VarValue(m, inst.arg))
        [] op = "Store" -> Advance(SetVar(m, inst.arg, a[1]))
        [] op = "BinOp" -> Yield(m, inst, EvalBinop(inst.arg, a[1], a[2]))
        [] op = "UnOp" -> Yield(m, inst, EvalUnop(inst.arg, a[1]))
        [] op = "Convert" -> Yield(m, inst, Convert(a[1], inst.arg[1]))
        [] op = "ConvertExplicit" -> Yield(m, inst, Convert(a[1], inst.arg))
        [] op = "Call" -> Dispatch(ir, m, inst, inst.arg, a)
        [] op = "CallIndirect" ->
             IF a[1] = NullV \/ a[1] = <<"FnPtr", NullV>> THEN Stop(m, Stopped("NullFnPtr"))
             ELSE Dispatch(ir, m, inst, a[1][2], Tail(a))
        [] op = "NewArray" ->
             OrStop(m, IF SomeNegative(dims(1)) THEN "negative array dimension" ELSE "",
                    LET k == AddArray(m, dims(1), inst.arg) IN Yield(k, inst, NewestArray(k)))
        [] op = "Redim" ->
             OrStop(m, IF SomeNegative(dims(1)) THEN "negative array dimension" ELSE "",
                    LET k == AddArray(m, dims(1), inst.arg[2]) IN Advance(SetVar(k, inst.arg[1], NewestArray(k))))
        [] op = "GetElement" ->
             OrStop(m, AccessError(m, a[1], dims(2)), Yield(m, inst, Element(m, a[1], dims(2))))
        [] op = "GetElementFlat" ->
             CASE ArrayError(a[1]) # "" -> Stop(m, Stopped(ArrayError(a[1])))
               [] ArrayError(a[1]) = "" /\ a[2][2] + 1 \in DOMAIN m.heap[a[1][2]].data ->
                    Yield(m, inst, m.heap[a[1][2]].data[a[2][2] + 1])
               [] OTHER -> Stop(m, Stopped("IndexOutOfBounds"))
        [] op = "ArrayTotalLen" -> OrStop(m, ArrayError(a[1]), Yield(m, inst, IntV(Len(m.heap[a[1][2]].data))))
        [] op = "Len" ->
             OrStop(m, ArrayError(a[1]),
                    Yield(m, inst, IntV(DimLen(m.heap[a[1][2]].dims, IF Len(a) = 1 THEN 0 ELSE ToLong(a[2])))))
        [] op = "StrLen" -> Yield(m, inst, IntV(Len(a[1][2])))
        [] op = "StorePlace" ->
             StoreWalk(m, VarValue(m, inst.arg[1]), inst.arg[2], Sizes(SubSeq(a, 1, Len(a) - 1)), a[Len(a)])

GoBlock(m, b) == [m EXCEPT !.frames[Len(m.frames)].block = b, !.frames[Len(m.frames)].pc = 1]
Leave1(m, v) ==
  LET fr == TopFrame(m)
      k == [m EXCEPT !.frames = SubSeq(@, 1, Len(@) - 1)]
  IN  IF Len(m.frames) = 1 THEN Stop(k, Exit(0)) ELSE SetReg(k, fr.ret, v)
ExecTerm(m, term) ==
  LET regs == TopFrame(m).regs IN
  CASE term = Open -> Stop(m, Stopped("unterminated block"))
    [] term # Open /\ term[1] = "Goto" -> GoBlock(m, term[2])
    [] term # Open /\ term[1] = "BranchIf" -> GoBlock(m, IF IsTruthy(regs[term[2]]) THEN term[3] ELSE term[4])
    [] term # Open /\ term[1] = "Return" -> Leave1(m, IF term[2] = 0 THEN VoidV ELSE regs[term[2]])
    [] term # Open /\ term[1] = "Halt" -> Stop(m, Exit(term[2]))

Step(ir, m) ==
  LET fr == TopFrame(m)
      block == ir.functions[fr.f].blocks[fr.block]
  IN  IF fr.pc \in DOMAIN block.insts THEN ExecInst(ir, m, block.insts[fr.pc]) ELSE ExecTerm(m, block.term)

\* What this module runs: no Type instances, no structs.
Elsewhere == {"NewType", "First", "Last", "Next", "Previous", "DeleteLvalue", "DeleteRvalue", "GetField"}
Runnable(ir) ==
  \A i \in DOMAIN ir.functions :
    /\ \A b \in DOMAIN ir.functions[i].blocks :
         \A k \in DOMAIN ir.functions[i].blocks[b].insts : ir.functions[i].blocks[b].insts[k].op \notin Elsewhere
    /\ \A k \in DOMAIN ir.functions[i].locals : ir.functions[i].locals[k].ty[1] # "StructVal"
=============================================================================
