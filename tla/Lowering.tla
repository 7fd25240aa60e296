------------------------------ MODULE Lowering ------------------------------
(***************************************************************************)
(* Lowering of the checked trees to the intermediate form: functions of      *)
(* basic blocks over registers and slots.                                    *)
(*                                                                         *)
(* l is the Lowerer inside one function: c the finished Checker, locals the   *)
(* slots, names the slot a name stands for, blocks and cur the code, reg the   *)
(* last register given out, val the register of the last expression, ctx the   *)
(* loops and arms around, labels the block of a label.                        *)
(*                                                                         *)
(* An instruction is [op, res, use, arg]: the register it defines or 0, the    *)
(* ones it reads, the rest.  A variable is <<"Local", slot>> or               *)
(* <<"Global", name>>; a function is named by its tree or its symbol.          *)
(***************************************************************************)
EXTENDS Sema

Open == <<>>
EmptyBlock == [insts |-> <<>>, term |-> Open]
NewBody(c, scope) ==
  [c |-> [c EXCEPT !.at = scope], locals |-> <<>>, names |-> <<>>, blocks |-> <<EmptyBlock>>, cur |-> 1,
   reg |-> 0, val |-> 0, ctx |-> <<>>, labels |-> <<>>]

Fresh(l, n) == [l EXCEPT !.blocks = @ \o [i \in 1 .. n |-> EmptyBlock]]
On(l, b) == [l EXCEPT !.cur = b]
Put(l, inst) == [l EXCEPT !.blocks[l.cur].insts = Append(@, inst)]
Emit(l, op, use, arg) ==
  [Put(l, [op |-> op, res |-> l.reg + 1, use |-> use, arg |-> arg]) EXCEPT !.reg = @ + 1, !.val = l.reg + 1]
Effect(l, op, use, arg) == Put(l, [op |-> op, res |-> 0, use |-> use, arg |-> arg])
\* The first terminator of a block stays.
Ended(l) == l.blocks[l.cur].term # Open
Terminate(l, term) == IF Ended(l) THEN l ELSE [l EXCEPT !.blocks[l.cur].term = term]
Jump(l, b) == Terminate(l, <<"Goto", b>>)
Branch(l, yes, no) == Terminate(l, <<"BranchIf", l.val, yes, no>>)

RECURSIVE IrType(_)
IrType(t) == CASE t = ErrorType -> Void
               [] t[1] = "Array" -> <<"Array", IrType(t[2]), t[3]>>
               [] OTHER -> t
AddLocal(l, name, ty, param) ==
  [l EXCEPT !.locals = Append(@, [ty |-> IrType(ty), param |-> param]),
            !.names = (name :> Len(l.locals) + 1) @@ @]
Temp(l, ty) == [l EXCEPT !.locals = Append(@, [ty |-> IrType(ty), param |-> FALSE])]
Newest(l) == <<"Local", Len(l.locals)>>

GlobalNames(c) == {n \in DOMAIN c.scopes[Top] : c.scopes[Top][n].kind = "Variable" /\ c.scopes[Top][n].global}
\* A global hides a local of its name.
VarOf(l, name) == CASE name \in GlobalNames(l.c) -> {<<"Global", name>>}
                    [] name \in DOMAIN l.names \ GlobalNames(l.c) -> {<<"Local", l.names[name]>>}
                    [] OTHER -> {}
TypeOfVar(l, var) == IF var[1] = "Local" THEN l.locals[var[2]].ty ELSE IrType(l.c.scopes[Top][var[2]].ty)
Load(l, var) == Emit(l, "Load", <<>>, var)
Store(l, var, r) == Effect(l, "Store", <<r>>, var)
StoreLast(l, var) == Store(l, var, l.val)
\* A store to a name that is no variable is left out.
StoreTo(l, name, r) == IF VarOf(l, name) = {} THEN l ELSE Store(l, The(VarOf(l, name)), r)
-----------------------------------------------------------------------------
(* Expressions.                                                             *)
RECURSIVE LowerTree(_, _), LowerCall(_, _, _, _)
LowerExpr(l, t) == LowerTree(l, t)

Constant(l, v) == Emit(l, "Const", <<>>, v)
\* A whole number that does not fit an Int is a Long.
ConstNumber(l, n) == Constant(l, V(IF InRange(n, Int32) THEN Int32 ELSE Long, n))
ConstValue(l, v) == IF v[1] = "Int" THEN ConstNumber(l, v[2]) ELSE Constant(l, v)

\* The registers of several expressions, evaluated in order.
LowerNext(a, t) == LET k == LowerExpr(a.l, t) IN [l |-> k, regs |-> Append(a.regs, k.val)]
LowerAll(l, ts) == Each([l |-> l, regs |-> <<>>], ts, LowerNext)
\* ... and an instruction that reads them.
Apply(l, op, ts, arg) == LET a == LowerAll(l, ts) IN Emit(a.l, op, a.regs, arg)
Perform(l, op, ts, arg) == LET a == LowerAll(l, ts) IN Effect(a.l, op, a.regs, arg)

\* A constant, else a variable, else the address of a function.
LowerIdent(l, t) ==
  LET name == NameOf(t)
      found == Lookup(l.c, name)
      d == The(found)
  IN  CASE KindOf(l.c, name) = {"Constant"} -> ConstValue(l, d.value)
        [] KindOf(l.c, name) # {"Constant"} /\ VarOf(l, name) # {} -> Load(l, The(VarOf(l, name)))
        [] KindOf(l.c, name) # {"Constant"} /\ VarOf(l, name) = {} /\ t \in DOMAIN l.c.refs ->
             Emit(l, "FuncAddr", <<>>, l.c.refs[t])
        [] KindOf(l.c, name) = {"Function"} /\ VarOf(l, name) = {} /\ t \notin DOMAIN l.c.refs ->
             Emit(l, "FuncAddr", <<>>, d.variants[1].target)
        [] OTHER -> Constant(l, NullV)

BinOp(l, op, a, b) == Emit(l, "BinOp", <<a, b>>, op)
StringOp(op) == IF \E s \in DOMAIN StringOps : StringOps[s] = op
                THEN CHOOSE s \in DOMAIN StringOps : StringOps[s] = op ELSE op
\* Xor compares both with 0 first.
LowerBinary(l, t) ==
  LET both == LowerAll(l, <<t[2], t[3]>>)
      zero == Constant(both.l, IntV(0))
      lb == BinOp(zero, "<>", both.regs[1], zero.val)
      rb == BinOp(lb, "<>", both.regs[2], zero.val)
      strings == String \in {l.c.types[t[2]], l.c.types[t[3]]}
  IN  IF t[1] = "Xor" THEN BinOp(rb, "BinXor", lb.val, rb.val)
      ELSE BinOp(both.l, IF strings THEN StringOp(t[1]) ELSE t[1], both.regs[1], both.regs[2])

\* And and Or leave in a slot of their own the right operand, or 0 or 1 without it.
LowerShort(l, t) ==
  LET tmp == Newest(Temp(l, Int32))
      a == LowerExpr(Temp(l, Int32), t[2])
      rhs == Len(a.blocks) + 1
      short == rhs + 1
      merge == rhs + 2
      b == IF t[1] = "And" THEN Branch(Fresh(a, 3), rhs, short) ELSE Branch(Fresh(a, 3), short, rhs)
      s == Constant(On(b, short), Flag(t[1] = "Or"))
      r == LowerExpr(On(Jump(StoreLast(s, tmp), merge), rhs), t[3])
  IN  Load(On(Jump(StoreLast(r, tmp), merge), merge), tmp)

IsIntrinsic(callee) == callee[1] \in NameWords \cup {"id"} /\ Len(NameOf(callee)) = 1 /\ NameOf(callee)[1] \in Intrinsics
LowerIntrinsic(l, name, args) ==
  CASE name = "Len" /\ l.c.types[args[1]] = String -> Apply(l, "StrLen", <<args[1]>>, 0)
    [] name = "Len" /\ l.c.types[args[1]] # String -> Apply(l, "Len", args, 0)
    [] name \in DOMAIN Converting -> Apply(l, "ConvertExplicit", args, Converting[name])
    [] name \in {"First", "Last"} -> Emit(l, name, <<>>, l.c.types[args[1]][2])
    [] name \in {"Next", "Previous"} -> Apply(l, name, args, 0)
\* Only the arguments that are written are passed.
LowerCall(l, t, callee, args) ==
  CASE IsIntrinsic(callee) -> LowerIntrinsic(l, NameOf(callee)[1], args)
    [] ~IsIntrinsic(callee) /\ t \in DOMAIN l.c.calls -> Apply(l, "Call", args, l.c.calls[t])
    [] ~IsIntrinsic(callee) /\ t \notin DOMAIN l.c.calls -> Apply(l, "CallIndirect", <<callee>> \o args, 0)

Declares(c, ty) == ty[1] = "TypeRef" /\ "TypeDef" \in KindOf(c, ty[2])
LowerNew(l, t) ==
  IF Declares(l.c, l.c.types[t]) THEN Emit(l, "NewType", <<>>, l.c.types[t][2]) ELSE Constant(l, NullV)

LowerKind(l, t) ==
  CASE t[1] \in IntLits -> ConstNumber(l, IntLit(t))
    [] t[1] = "float" -> Constant(l, V(Float, FloatOf(t)))
    [] t[1] = "str" -> Constant(l, V(String, Pieces(t)))
    [] t[1] \in Names -> LowerIdent(l, t)
    [] t[1] \in {"And", "Or"} -> LowerShort(l, t)
    [] t[1] \in Infixes \ {"And", "Or"} -> LowerBinary(l, t)
    [] t[1] \in {"Plus", "Neg", "Not", "BinNot"} -> Apply(l, "UnOp", <<t[2]>>, t[1])
    [] t[1] \in {"Call", "Command"} -> LowerCall(l, t, t[2], SubSeq(t, 3, Len(t)))
    [] t[1] = "Index" -> Apply(l, "GetElement", Tail(t), 0)
    [] t[1] = "Member" -> Apply(l, "GetField", <<t[2]>>, NameOf(t[3]))
    [] t[1] = "Paren" -> LowerExpr(l, t[2])
    [] t[1] = "New" -> LowerNew(l, t)
    [] t[1] = "NewArray" -> Apply(l, "NewArray", SubSeq(t, 3, Len(t)), IrType(l.c.types[t][2]))
    [] OTHER -> Constant(l, NullV)
KeepValue(l, t) == l
\* The instruction keeps, as its span does, the tree it converts.
MaybeConvert(l, t) == IF t \in DOMAIN l.c.convs THEN Emit(l, "Convert", <<l.val>>, <<l.c.convs[t].to, t>>) ELSE l
Converted(l, t) == MaybeConvert(LowerKind(l, t), t)
-----------------------------------------------------------------------------
(* Statements.                                                              *)
RECURSIVE LowerPlace(_, _), Arms(_, _, _), CaseTest(_, _, _, _, _), Tests(_, _, _, _)
LowerStmts(l, ts) == Each(l, ts, LowerTree)

\* The path to a field or element: its root variable, its steps, the index registers.
LowerPlace(l, t) ==
  LET under == LowerPlace(l, t[2])
      a == LowerAll(under.l, SubSeq(t, 3, Len(t)))
      step(k, s, regs) == [under EXCEPT !.l = k, !.path = Append(@, s), !.regs = @ \o regs]
  IN  CASE t[1] \in Names -> [l |-> l, root |-> VarOf(l, NameOf(t)), path |-> <<>>, regs |-> <<>>]
        [] t[1] = "Paren" -> under
        [] t[1] = "Member" -> step(under.l, <<"Field", NameOf(t[3])>>, <<>>)
        [] t[1] = "Index" -> step(a.l, <<"Index", Len(t) - 2>>, a.regs)
LowerAssign(l, t) ==
  LET target == t[2]
      v == LowerExpr(l, t[3])
      place == LowerPlace(v, target)
  IN  CASE target[1] \in Names -> StoreTo(v, NameOf(target), v.val)
        [] target[1] \in {"Member", "Index"} /\ place.root # {} ->
             Effect(place.l, "StorePlace", Append(place.regs, v.val), <<The(place.root), place.path>>)
        [] OTHER -> v

\* One value for every name of the statement.
LowerInit(l, names, init) ==
  LET v == LowerExpr(l, init) IN Each(v, names, LAMBDA k, leaf : StoreTo(k, NameOf(leaf), v.val))

LowerIf(l, t) ==
  LET merge == Len(l.blocks) + 1 IN On(Arms(Fresh(l, 1), Tail(t), merge), merge)
\* The conditions and bodies left to test.
Arms(l, rest, merge) ==
  LET then == Len(l.blocks) + 1
      else == IF Len(rest) > 2 THEN then + 1 ELSE merge
      test == Branch(LowerExpr(Fresh(l, IF Len(rest) > 2 THEN 2 ELSE 1), rest[1]), then, else)
      body == Jump(LowerStmts(On(test, then), Tail(rest[2])), merge)
  IN  CASE rest = <<>> -> l
        [] Len(rest) = 1 -> Jump(LowerStmts(l, Tail(rest[1])), merge)
        [] Len(rest) > 1 -> Arms(On(body, else), SubSeq(rest, 3, Len(rest)), merge)

Within(l, context, ts) ==
  LET k == LowerStmts([l EXCEPT !.ctx = Append(@, context)], ts) IN [k EXCEPT !.ctx = l.ctx]
LowerLoopBody(l, ts, next, exit) ==
  Jump(Within(l, [kind |-> "Loop", next |-> next, exit |-> exit], ts), next)
LowerWhile(l, t) ==
  LET cond == Len(l.blocks) + 1
      test == Branch(LowerExpr(On(Jump(Fresh(l, 3), cond), cond), t[2]), cond + 1, cond + 2)
  IN  On(LowerLoopBody(On(test, cond + 1), BodyOf(t), cond, cond + 2), cond + 2)
LowerForever(l, t) ==
  LET body == Len(l.blocks) + 1 IN
  On(LowerLoopBody(On(Jump(Fresh(l, 2), body), body), BodyOf(t), body, body + 1), body + 1)
LowerRepeat(l, t) ==
  LET body == Len(l.blocks) + 1
      cond == body + 1
      exit == body + 2
      k == LowerLoopBody(On(Jump(Fresh(l, 3), body), body), BodyOf(t), cond, exit)
      test == LowerExpr(On(k, cond), t[3])
  IN  On(IF t[1] = "RepeatWhile" THEN Branch(test, body, exit) ELSE Branch(test, exit, body), exit)

\* The limit and the step are evaluated once; the sign of the step picks the test.
Compare(l, op, a, b) ==
  LET x == Load(l, a) IN LET y == Load(x, b) IN BinOp(y, op, x.val, y.val)
Keep(l, ty) == LET k == Temp(l, ty) IN Store(k, Newest(k), l.val)
One(ty) == IF ty = Float THEN V(Float, Unit) ELSE IntV(1)
Zero(ty) == IF ty = Float THEN V(Float, 0) ELSE IntV(0)
\* The last value compared with, or added to, a constant.
Against(l, op, v) == LET z == Constant(l, v) IN BinOp(z, op, l.val, z.val)
ForLoop(l, t, var, limit, step) ==
  LET up == Len(l.blocks) + 1
      down == up + 1
      check == up + 2
      body == up + 3
      next == up + 4
      exit == up + 5
      sign == Against(Load(On(Jump(Fresh(l, 6), check), check), step), ">", Zero(TypeOfVar(l, var)))
      above == Compare(On(Branch(sign, up, down), up), "<=", var, limit)
      below == Compare(On(Branch(above, body, exit), down), ">=", var, limit)
      done == LowerLoopBody(On(Branch(below, body, exit), body), BodyOf(t), next, exit)
  IN  On(Jump(StoreLast(Compare(On(done, next), "+", var, step), var), check), exit)
ForWith(l, t, var, limit) ==
  LET ty == TypeOfVar(l, var)
      step == Keep(IF t[5][1] # "Body" THEN LowerExpr(l, t[5]) ELSE Constant(l, One(ty)), ty)
  IN  ForLoop(step, t, var, limit, Newest(step))
LowerFor(l, t) ==
  LET var == The(VarOf(l, NameOf(t[2])))
      limit == Keep(LowerExpr(StoreLast(LowerExpr(l, t[3]), var), t[4]), TypeOfVar(l, var))
  IN  ForWith(limit, t, var, Newest(limit))

\* Over the list of a Type: First, then Next of whatever the variable then holds.
LowerEachType(l, t, var, type) ==
  LET cond == Len(l.blocks) + 1
      body == cond + 1
      next == cond + 2
      exit == cond + 3
      first == StoreLast(Emit(Fresh(l, 4), "First", <<>>, type), var)
      test == Against(Load(On(Jump(first, cond), cond), var), "<>", NullV)
      again == Load(On(LowerLoopBody(On(Branch(test, body, exit), body), BodyOf(t), next, exit), next), var)
  IN  On(Jump(StoreLast(Emit(again, "Next", <<again.val>>, 0), var), cond), exit)
\* Over an array: the length is taken once, the array expression every time round.
ElementAt(l, t) == LET arr == LowerExpr(l, t[3]) IN Emit(arr, "GetElementFlat", <<arr.val, l.val>>, 0)
ArrayLoop(l, t, var, idx, len, cond) ==
  LET body == cond + 1
      next == cond + 2
      exit == cond + 3
      zero == StoreLast(Constant(l, IntV(0)), idx)
      test == Compare(On(Jump(zero, cond), cond), "<", idx, len)
      elem == ElementAt(Load(On(Branch(test, body, exit), body), idx), t)
      old == Load(On(LowerLoopBody(StoreLast(elem, var), BodyOf(t), next, exit), next), idx)
  IN  On(Jump(StoreLast(Against(old, "+", IntV(1)), idx), cond), exit)
LowerEachArray(l, t, var) ==
  LET k == Temp(Fresh(l, 4), Int32)
      len == Keep(Apply(k, "ArrayTotalLen", <<t[3]>>, 0), Int32)
  IN  ArrayLoop(len, t, var, Newest(k), Newest(len), Len(l.blocks) + 1)
LowerForEach(l, t) ==
  LET var == The(VarOf(l, NameOf(t[2])))
      ty == l.c.types[t[3]]
  IN  CASE Declares(l.c, ty) -> LowerEachType(l, t, var, ty[2])
        [] ty[1] = "Array" -> LowerEachArray(l, t, var)
        [] ty[1] \notin {"TypeRef", "Array"} -> LowerStmts(l, BodyOf(t))
        [] OTHER -> l

\* The tests of the arms in order, then the default arm wherever it stands.
LowerSelect(l, t) ==
  LET arms == SubSeq(t, 3, Len(t))
      scrut == LowerExpr(l, t[2])
      merge == Len(scrut.blocks) + 1
      entry == merge + Len(arms) + 1
      values(i) == SelectSeq(Tail(arms[i]), LAMBDA q : q[1] # "Body")
      cases == SelectSeq([i \in DOMAIN arms |-> [arm |-> i, values |-> values(i), body |-> merge + i]],
                         LAMBDA a : arms[a.arm][1] = "Case")
      default == {i \in DOMAIN arms : arms[i][1] = "Default"}
      none == IF default = {} THEN merge ELSE merge + (CHOOSE i \in default : \A j \in default : i <= j)
      tests == Tests(On(Jump(Fresh(scrut, Len(arms) + 2), entry), entry), scrut.val, cases, none)
      arm(k, i) == Jump(Within(On(k, merge + i),
                               [kind |-> "Select", next |-> IF i < Len(arms) THEN merge + i + 1 ELSE 0, exit |-> 0],
                               BodyOf(arms[i])), merge)
  IN  On(Each(tests, [i \in DOMAIN arms |-> i], arm), merge)
Tests(l, scrut, cases, none) ==
  LET last == Len(cases) = 1
      else == IF last THEN none ELSE Len(l.blocks) + 1
      k == CaseTest(IF last THEN l ELSE Fresh(l, 1), scrut, cases[1].values, cases[1].body, else)
  IN  CASE cases = <<>> -> Jump(l, none)
        [] cases # <<>> /\ last -> k
        [] cases # <<>> /\ ~last -> Tests(On(k, else), scrut, Tail(cases), none)
CaseTest(l, scrut, values, body, else) ==
  LET v == LowerExpr(l, values[1])
      eq == BinOp(v, "=", scrut, v.val)
      next == Len(eq.blocks) + 1
  IN  IF Len(values) = 1 THEN Branch(eq, body, else)
      ELSE CaseTest(On(Branch(Fresh(eq, 1), body, next), next), scrut, Tail(values), body, else)

\* A label has a block from its first use on.
Labelled(l, name) ==
  IF name \in DOMAIN l.labels THEN l
  ELSE [Fresh(l, 1) EXCEPT !.labels = (name :> Len(l.blocks) + 1) @@ @]
LowerLabel(l, name) == LET k == Labelled(l, name) IN On(Jump(k, k.labels[name]), k.labels[name])
LowerGoto(l, name) == LET k == Labelled(l, name) IN Jump(k, k.labels[name])

BreakFromOutermost(l, n) ==
  LET loops == SelectSeq(l.ctx, LAMBDA k : k.kind = "Loop") IN
  Terminate(l, IF n \in DOMAIN loops THEN <<"Goto", loops[n].exit>> ELSE <<"Return", 0>>)
LowerBreak(l, n) ==
  LET loops == SelectSeq(l.ctx, LAMBDA k : k.kind = "Loop") IN
  Terminate(l, IF n \in DOMAIN loops THEN <<"Goto", loops[Len(loops) + 1 - n].exit>> ELSE <<"Return", 0>>)
\* In the last arm of a Select there is nothing to continue with.
LowerContinue(l) ==
  IF l.ctx = <<>> \/ l.ctx[Len(l.ctx)].next = 0 THEN l ELSE Jump(l, l.ctx[Len(l.ctx)].next)

LowerDelete(l, t) ==
  LET var == VarOf(l, NameOf(t[2])) IN
  CASE l.c.deletes[t] = "Lvalue" -> IF var = {} THEN l ELSE Effect(l, "DeleteLvalue", <<>>, The(var))
    [] l.c.deletes[t] = "Rvalue" -> Perform(l, "DeleteRvalue", <<t[2]>>, 0)
\* The elements are of the variable's type, whatever the statement says.
LowerRedim(l, t) ==
  LET var == VarOf(l, NameOf(t[2]))
      ty == TypeOfVar(l, The(var))
      a == LowerAll(l, SubSeq(t, 4, Len(t)))
  IN  CASE t[2][1] \notin Names -> l
        [] t[2][1] \in Names /\ var = {} -> a.l
        [] t[2][1] \in Names /\ var # {} ->
             Effect(a.l, "Redim", a.regs, <<The(var), IF ty[1] = "Array" THEN ty[2] ELSE Int32>>)

\* A bare name is a call without arguments; nothing follows a MakeError.
MakeError == <<"Runtime", "make_error">>
LowerExprStmt(l, e) ==
  LET k == Converted(l, e) IN
  CASE e[1] \in Names /\ e \in DOMAIN l.c.calls -> Emit(l, "Call", <<>>, l.c.calls[e])
    [] e[1] \notin Names /\ e \in DOMAIN l.c.calls /\ l.c.calls[e] = MakeError -> Terminate(k, <<"Halt", 1>>)
    [] OTHER -> k

LowerKindOfStmt(l, t) ==
  CASE t[1] = "Assign" -> LowerAssign(l, t)
    [] t[1] = "Command" -> LowerExprStmt(l, t)
    [] t[1] = "ExprStmt" -> LowerExprStmt(l, t[2])
    [] t[1] \in {"Dim", "Global"} /\ InitOf(t) # <<>> -> LowerInit(l, Tail(t[2]), InitOf(t)[1])
    [] t[1] = "Implicit" -> LowerInit(l, <<t[2]>>, t[4])
    [] t[1] = "Return" /\ Len(t) = 1 -> Terminate(l, <<"Return", 0>>)
    [] t[1] = "Return" /\ Len(t) = 2 -> LET k == LowerExpr(l, t[2]) IN Terminate(k, <<"Return", k.val>>)
    [] t[1] = "End" -> Terminate(l, <<"Halt", 0>>)
    [] t[1] = "Delete" -> LowerDelete(l, t)
    [] t[1] = "Redim" -> LowerRedim(l, t)
    [] t[1] = "Label" -> LowerLabel(l, NameOf(t[2]))
    [] t[1] = "Goto" -> LowerGoto(l, NameOf(t[2]))
    [] t[1] = "Break" -> LowerBreak(l, IF Len(t) = 1 THEN 1 ELSE Number10(t[2]))
    [] t[1] = "Continue" -> LowerContinue(l)
    [] t[1] \in {"If", "LineIf"} -> LowerIf(l, t)
    [] t[1] = "While" -> LowerWhile(l, t)
    [] t[1] = "Forever" -> LowerForever(l, t)
    [] t[1] \in {"RepeatWhile", "RepeatUntil"} -> LowerRepeat(l, t)
    [] t[1] = "For" -> LowerFor(l, t)
    [] t[1] = "ForEach" -> LowerForEach(l, t)
    [] t[1] = "Select" -> LowerSelect(l, t)
    [] OTHER -> l
\* What follows a terminator goes to a block nothing reaches.
DeadBlock(l) == On(Fresh(l, 1), Len(l.blocks) + 1)
LowerStmt(l, t) == IF Ended(l) THEN LowerTree(DeadBlock(l), t) ELSE LowerKindOfStmt(l, t)
\* lower_stmt and lower_expr.
LowerTree(l, t) == IF t[1] \in Statements THEN LowerStmt(l, t) ELSE Converted(l, t)
-----------------------------------------------------------------------------
(* Functions and the program.                                               *)
Ext == INSTANCE SequencesExt

AddNew(l, leaf, ty) == IF NameOf(leaf) \in DOMAIN l.names THEN l ELSE AddLocal(l, NameOf(leaf), ty, FALSE)
Otherwise(found, ty) == IF found = {} THEN ty ELSE The(found)
ScanLocal(l, t) ==
  LET noted(leaf) == IF leaf \in DOMAIN l.c.types THEN l.c.types[leaf] ELSE Int32
      declared(leaf) == Otherwise({d.ty : d \in Lookup(l.c, NameOf(leaf))}, Int32)
      names == CASE t[1] = "Dim" -> Tail(t[2]) [] t[1] = "Implicit" -> <<t[2]>> [] OTHER -> <<>>
  IN  IF t[1] \in {"For", "ForEach"} \/ (t[1] = "Assign" /\ t[2][1] \in Names) THEN AddNew(l, t[2], noted(t[2]))
      ELSE Each(l, names, LAMBDA k, leaf : AddNew(k, leaf, declared(leaf)))
Scanned(l, ts) ==
  LET k == Each(l, DeepAll(ts), LAMBDA s, q : ScanLocal(s, q[1])) IN
  Each(k, DeepAll(ts), LAMBDA s, q : IF q[1][1] = "Label" THEN Labelled(s, NameOf(q[1][2])) ELSE s)

VariantOf(c, t) ==
  LET vs == c.scopes[Top][NameOf(t[2])].variants IN vs[CHOOSE i \in DOMAIN vs : vs[i].target = t]
UnfinishedBody(l, def, params, ret) == [def |-> def, params |-> params, ret |-> ret, locals |-> l.locals, blocks |-> l.blocks]
FinishedBody(l, def, params, ret) ==
  LET k == Terminate(l, <<"Return", 0>>) IN [def |-> def, params |-> params, ret |-> ret, locals |-> k.locals, blocks |-> k.blocks]
LowerFunction(c, t) ==
  LET v == VariantOf(c, t)
      ps == Kids(t, "Param")
      types == [i \in DOMAIN ps |-> IrType(v.params[i])]
      l == Each(NewBody(c, t), [i \in DOMAIN ps |-> i], LAMBDA k, i : AddLocal(k, NameOf(ps[i][2]), types[i], TRUE))
  IN  FinishedBody(LowerStmts(Scanned(l, BodyOf(t)), BodyOf(t)), t, types, IrType(v.ret))

MainLocals(c) ==
  Ext!SetToSortSeq({c.scopes[Top][n] : n \in {m \in DOMAIN c.scopes[Top] : c.scopes[Top][m].kind = "Variable"} \ GlobalNames(c)},
               LAMBDA a, b : a.at[2] < b.at[2])
MainBody(c) == Each(NewBody(c, Top), MainLocals(c), LAMBDA k, d : AddLocal(k, NameOf(d.at), d.ty, FALSE))
MainStmts(ts) == SelectSeq(ts, LAMBDA t : t[1] \notin {"Function", "Type", "Struct"})
FinishedMain(l) == FinishedBody(l, Top, <<>>, Void)

\* The function table: what a call can name, with its body if it has one.
Callables(c) == UNION {{d.variants[i] : i \in DOMAIN d.variants} : d \in {c.scopes[Top][n] : n \in DOMAIN c.scopes[Top]}}
FunctionsOf(ts) == SelectSeq(ts, LAMBDA t : t[1] = "Function")
FuncTable(c, ts) ==
  LET fs == FunctionsOf(ts)
      runtime == {v \in Callables(c) : ~IsUser(v)}
  IN  {[target |-> v.target, body |-> 0] : v \in runtime}
      \cup {[target |-> fs[i], body |-> i] : i \in DOMAIN fs} \cup {[target |-> Top, body |-> Len(fs) + 1]}
NewProgram(c, ts) ==
  [table |-> FuncTable(c, ts), functions |-> <<>>,
   globals |-> [n \in GlobalNames(c) |-> IrType(c.scopes[Top][n].ty)],
   typeDefs |-> {n \in DOMAIN c.scopes[Top] : c.scopes[Top][n].kind = "TypeDef"}]
=============================================================================
