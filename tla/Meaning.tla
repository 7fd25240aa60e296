------------------------------ MODULE Meaning ------------------------------
(***************************************************************************)
(* What the manual says a checked program does, on its trees: no registers,  *)
(* blocks or slots.  The checker's findings give the types of the variables   *)
(* and what a call names; values are promoted and converted where they meet.  *)
(*                                                                         *)
(* s is the program under way: own the variables of the function at hand, top  *)
(* those of the program, heap the arrays, out the calls of the runtime, depth   *)
(* the calls in progress, val the last value, sig how control leaves:           *)
(* Alive goes on, <<"break", n>>, <<"continue">>, <<"return">>, or an end.     *)
(* Programs with Goto, Types or structs have no meaning here.                 *)
(***************************************************************************)
EXTENDS Machine

CONSTANT MaxOut        \* calls of the runtime after which a program is left alone

Alive == <<"alive">>
Full == <<"full">>
Goes(s) == s.sig = Alive
Leaves(s, sig) == [s EXCEPT !.sig = sig]
Gives(s, v) == IF IsFailed(v) THEN Leaves(s, Stopped(v[2])) ELSE [s EXCEPT !.val = v]
GivesUnless(s, error, v) == IF error # "" THEN Leaves(s, Stopped(error)) ELSE Gives(s, v)

RECURSIVE Mean(_, _), Rounds(_, _, _), Falls(_, _, _, _)
\* One after the other, until control leaves.
MeanNext(s, t) == IF Goes(s) THEN Mean(s, t) ELSE s
MeanAll(s, ts) == Each(s, ts, MeanNext)
ValuesNext(a, t) == LET k == MeanNext(a.s, t) IN [s |-> k, vals |-> Append(a.vals, k.val)]
Values2(s, ts) == Each([s |-> s, vals |-> <<>>], ts, ValuesNext)
-----------------------------------------------------------------------------
(* Operators.                                                               *)
IsNothing(v) == v[1] = "Null" \/ v = <<"FnPtr", NullV>>
Arithmetic(op, a, b, t) ==
  IF t = Float THEN FloatBinop(op, Convert(a, t)[2], Convert(b, t)[2]) ELSE IntBinop(op, a[2], b[2], t)
Sense(op, a, b) ==
  LET tags == {a[1], b[1]} IN
  CASE op = "+" /\ "String" \in tags -> V(String, TextOf(a) \o TextOf(b))
    [] op = "^" -> FloatBinop(op, ToFloat(a), ToFloat(b))
    [] op \in Shifts -> IntBinop(op, a[2], b[2], WidenStorage(TypeOfValue(a)))
    [] op = "Xor" -> Flag(IsTruthy(a) # IsTruthy(b))
    [] op \notin Shifts \cup {"^", "Xor"} /\ tags \subseteq Scalars ->
         Arithmetic(op, a, b, NumericPromote(TypeOfValue(a), TypeOfValue(b)))
    [] OTHER -> Same(op, a = b \/ (IsNothing(a) /\ IsNothing(b)))
\* The second operand counts only where the first does not decide.
Decides(op, v) == IsTruthy(v) = (op = "Or")
ShortCircuit(s, op, right) ==
  IF ~Goes(s) \/ Decides(op, s.val) THEN Gives(s, Flag(op = "Or"))
  ELSE LET k == Mean(s, right) IN Gives(k, Flag(IsTruthy(k.val)))
-----------------------------------------------------------------------------
(* Variables.                                                               *)
IsOwn(s, name) == name \in DOMAIN s.own
VariableType(s, name) == s.c.scopes[IF IsOwn(s, name) THEN s.at ELSE Top][name].ty
Variables(c, scope) ==
  LET names == {n \in DOMAIN c.scopes[scope] : c.scopes[scope][n].kind = "Variable"} IN
  [n \in names |-> DefaultOf(c.scopes[scope][n].ty)]
Holds(s, name, v) == IF IsOwn(s, name) THEN [s EXCEPT !.own[name] = v] ELSE [s EXCEPT !.top[name] = v]
Takes(s, name, v) == IF Goes(s) THEN Holds(s, name, Convert(v, VariableType(s, name))) ELSE s
ValueOfName(s, name) == IF IsOwn(s, name) THEN s.own[name] ELSE s.top[name]
IsConstant(s, name) == KindOf(s.c, name) = {"Constant"}
ConstantOf(s, name) == The(Lookup(s.c, name)).value
-----------------------------------------------------------------------------
(* Calls.                                                                   *)
Finished(s, k, ret) ==
  CASE k.sig = <<"return">> -> [k EXCEPT !.own = s.own, !.at = s.at, !.c.at = s.at, !.depth = s.depth, !.sig = Alive, !.val = Convert(@, ret)]
    [] Goes(k) -> [k EXCEPT !.own = s.own, !.at = s.at, !.c.at = s.at, !.depth = s.depth, !.val = DefaultOf(ret)]
    [] OTHER -> k
\* A parameter takes its argument, or its default.
Enters(s, f, args) ==
  LET ps == Kids(f, "Param")
      fresh == [s EXCEPT !.own = Variables(s.c, f), !.at = f, !.c.at = f, !.depth = @ + 1]
      take(k, i) ==
        LET a == IF i \in DOMAIN args THEN [k EXCEPT !.val = args[i]] ELSE MeanNext(k, Kids(ps[i], "Init")[1][2])
        IN  Takes(a, NameOf(ps[i][2]), a.val)
  IN  Each(fresh, [i \in DOMAIN ps |-> i], take)
Runtime(s, target, args) ==
  LET f == CHOOSE g \in Elements(Catalog.funcs) : g.symbol = target[2]
      out == Append(s.out, <<f.symbol, [i \in DOMAIN args |-> Convert(args[i], f.params[i])]>>)
      k == [s EXCEPT !.out = out, !.val = RuntimeAnswer(target)]
  IN  CASE Len(out) >= MaxOut -> Leaves(k, Full)
        [] Len(out) < MaxOut /\ target = MakeError -> Leaves(k, Exit(1))
        [] OTHER -> k
Invokes(s, target, args) ==
  CASE ~Goes(s) -> s
    [] Goes(s) /\ target[1] = "Runtime" -> Runtime(s, target, args)
    [] Goes(s) /\ target[1] = "Function" ->
         IF s.depth >= MaxCalls THEN Leaves(s, Stopped("stack overflow"))
         ELSE Finished(s, MeanAll(Enters(s, target, args), BodyOf(target)), VariantOf(s.c, target).ret)
    [] OTHER -> Leaves(s, Stopped("NullFnPtr"))
InvokesAll(a, target) == Invokes(a.s, target, a.vals)
Through(s, callee, args) ==
  LET a == Values2(s, <<callee>> \o args)
      f == a.vals[1]
  IN  Invokes(a.s, IF IsNothing(f) THEN NullV ELSE f[2], Tail(a.vals))

ArrayOf(s, v) == s.heap[v[2]]
Built(a, name) ==
  CASE ~Goes(a.s) -> a.s
    [] name = "Len" /\ a.vals[1][1] = "String" -> Gives(a.s, IntV(Len(a.vals[1][2])))
    [] name = "Len" /\ a.vals[1][1] # "String" ->
         GivesUnless(a.s, ArrayError(a.vals[1]),
           IntV(DimLen(ArrayOf(a.s, a.vals[1]).dims, IF Len(a.vals) = 1 THEN 0 ELSE ToLong(a.vals[2]))))
    [] name \in DOMAIN Converting -> Gives(a.s, Convert(a.vals[1], Converting[name]))
Calling(s, t, callee, args) ==
  CASE IsIntrinsic(callee) -> Built(Values2(s, args), NameOf(callee)[1])
    [] ~IsIntrinsic(callee) /\ t \in DOMAIN s.c.calls -> InvokesAll(Values2(s, args), s.c.calls[t])
    [] OTHER -> Through(s, callee, args)
-----------------------------------------------------------------------------
(* Expressions.                                                             *)
Indexed(a) ==
  IF ~Goes(a.s) THEN a.s
  ELSE LET idx == Sizes(Tail(a.vals)) IN GivesUnless(a.s, AccessError(a.s, a.vals[1], idx), Element(a.s, a.vals[1], idx))
Allots(a, elem) ==
  IF ~Goes(a.s) THEN a.s
  ELSE LET k == AddArray(a.s, Sizes(a.vals), elem) IN
       GivesUnless(k, IF SomeNegative(Sizes(a.vals)) THEN "negative array dimension" ELSE "", NewestArray(k))
FunctionNamed(s, t) ==
  IF t \in DOMAIN s.c.refs THEN s.c.refs[t] ELSE The(Lookup(s.c, NameOf(t))).variants[1].target
Named(s, t) ==
  LET name == NameOf(t) IN
  CASE IsConstant(s, name) -> Gives(s, ConstantOf(s, name))
    [] ~IsConstant(s, name) /\ name \in DOMAIN s.own \cup DOMAIN s.top -> Gives(s, ValueOfName(s, name))
    [] OTHER -> Gives(s, <<"FnPtr", FunctionNamed(s, t)>>)
Operated(a, op) == IF Goes(a.s) THEN Gives(a.s, Sense(op, a.vals[1], a.vals[2])) ELSE a.s
Applied(s, op) ==
  CASE ~Goes(s) -> s
    [] Goes(s) /\ op = "Not" -> Gives(s, Flag(~IsTruthy(s.val)))
    [] Goes(s) /\ op # "Not" -> Gives(s, EvalUnop(op, s.val))
Expression2(s, t) ==
  CASE t[1] \in IntLits -> Gives(s, IntV(IntLit(t)))
    [] t[1] = "float" -> Gives(s, V(Float, FloatOf(t)))
    [] t[1] = "str" -> Gives(s, V(String, Pieces(t)))
    [] t[1] = "Null" -> Gives(s, NullV)
    [] t[1] \in Names -> Named(s, t)
    [] t[1] \in {"And", "Or"} -> ShortCircuit(Mean(s, t[2]), t[1], t[3])
    [] t[1] \in Infixes \ {"And", "Or"} -> Operated(Values2(s, <<t[2], t[3]>>), t[1])
    [] t[1] \in {"Plus", "Neg", "Not", "BinNot"} -> Applied(Mean(s, t[2]), t[1])
    [] t[1] = "Call" -> Calling(s, t, t[2], SubSeq(t, 3, Len(t)))
    [] t[1] = "Index" -> Indexed(Values2(s, Tail(t)))
    [] t[1] = "Paren" -> Mean(s, t[2])
    [] t[1] = "NewArray" -> Allots(Values2(s, SubSeq(t, 3, Len(t))), TypeExpr(s.c, t[2]))
-----------------------------------------------------------------------------
(* Statements.                                                              *)
\* The element a[i], of an array that a[j] or a name holds, takes the value v.
Puts(a, elem, v) ==
  LET arr == a.vals[1]
      idx == Sizes(Tail(a.vals))
      error == AccessError(a.s, arr, idx)
  IN  CASE ~Goes(a.s) -> a.s
        [] Goes(a.s) /\ error # "" -> Leaves(a.s, Stopped(error))
        [] Goes(a.s) /\ error = "" ->
             [a.s EXCEPT !.heap[arr[2]].data[FlatIndex(ArrayOf(a.s, arr).dims, idx) + 1] = Convert(v, elem)]
Assigns(s, target) ==
  IF target[1] \in Names THEN Takes(s, NameOf(target), s.val)
  ELSE IF Goes(s) THEN Puts(Values2(s, Tail(target)), s.c.types[target], s.val) ELSE s

\* Loops: x is what a For or a For Each keeps from round to round.
Tests2(s, t, x) ==
  CASE t[1] = "While" -> Mean(s, t[2])
    [] t[1] = "For" ->
         LET up == Convert(x.step, Float)[2] > 0 IN
         Gives(s, Sense(IF up THEN "<=" ELSE ">=", ValueOfName(s, NameOf(t[2])), x.limit))
    [] t[1] = "ForEach" -> Gives(s, Flag(x.i <= Len(ArrayOf(s, x.arr).data)))
    [] OTHER -> Gives(s, Flag(TRUE))
Body2(s, t, x) ==
  MeanAll(IF t[1] = "ForEach" THEN Takes(s, NameOf(t[2]), ArrayOf(s, x.arr).data[x.i]) ELSE s, BodyOf(t))
Steps(s, t, x) ==
  CASE t[1] = "RepeatWhile" -> Mean(s, t[3])
    [] t[1] = "RepeatUntil" -> Applied(Mean(s, t[3]), "Not")
    [] t[1] = "For" -> Gives(Takes(s, NameOf(t[2]), Sense("+", ValueOfName(s, NameOf(t[2])), x.step)), Flag(TRUE))
    [] OTHER -> Gives(s, Flag(TRUE))
Another(s, t, x) == IF Goes(s) /\ IsTruthy(s.val) THEN Rounds(s, t, IF t[1] = "ForEach" THEN [x EXCEPT !.i = @ + 1] ELSE x) ELSE s
AfterBody(s, t, x) ==
  CASE s.sig \in {Alive, <<"continue">>} -> Another(Steps(Leaves(s, Alive), t, x), t, x)
    [] s.sig[1] = "break" -> Leaves(s, IF s.sig[2] = 1 THEN Alive ELSE <<"break", s.sig[2] - 1>>)
    [] OTHER -> s
RoundFrom(s, t, x) == IF Goes(s) /\ IsTruthy(s.val) THEN AfterBody(Body2(s, t, x), t, x) ELSE s
Rounds(s, t, x) == RoundFrom(Tests2(s, t, x), t, x)
ForFrom(a, t, ty) ==
  IF Goes(a.s) THEN Rounds(a.s, t, [limit |-> Convert(a.vals[2], ty), step |-> Convert(IF Len(a.vals) = 3 THEN a.vals[3] ELSE IntV(1), ty)])
  ELSE a.s
ForMeans(s, t) ==
  LET name == NameOf(t[2])
      from == Mean(s, t[3])
      rest == SelectSeq(SubSeq(t, 4, 5), LAMBDA q : q[1] # "Body")
      a == Values2(Takes(from, name, from.val), rest)
  IN  ForFrom([a EXCEPT !.vals = <<from.val>> \o @], t, VariableType(s, name))
EachFrom(s, t) ==
  CASE ~Goes(s) -> s
    [] Goes(s) /\ s.val = NullV -> Leaves(s, Stopped("NullDeref"))
    [] Goes(s) /\ s.val # NullV -> Rounds(s, t, [arr |-> s.val, i |-> 1])

\* Conditions and bodies alternate; a body without a condition comes last.
RECURSIVE Chooses(_, _)
ChoosesFrom(s, rest) ==
  CASE ~Goes(s) -> s
    [] Goes(s) /\ IsTruthy(s.val) -> MeanAll(s, Tail(rest[2]))
    [] OTHER -> Chooses(s, SubSeq(rest, 3, Len(rest)))
Chooses(s, rest) ==
  CASE rest = <<>> -> s
    [] Len(rest) = 1 -> MeanAll(s, Tail(rest[1]))
    [] OTHER -> ChoosesFrom(Mean(s, rest[1]), rest)

\* The first arm with an equal value, else the Default; Continue falls to the next.
Falls(s, arms, i, run) ==
  CASE i > Len(arms) \/ ~run -> s
    [] OTHER -> LET k == MeanAll(s, BodyOf(arms[i])) IN
                IF k.sig = <<"continue">> THEN Falls(Leaves(k, Alive), arms, i + 1, TRUE) ELSE k
Selects(s, arms) ==
  LET values(i) == SelectSeq(Tail(arms[i]), LAMBDA q : q[1] # "Body")
      equal(q) == Sense("=", s.val, Mean(s, q).val) = Flag(TRUE)
      hit == {i \in DOMAIN arms : arms[i][1] = "Case" /\ \E j \in DOMAIN values(i) : equal(values(i)[j])}
      some == IF hit # {} THEN hit ELSE {i \in DOMAIN arms : arms[i][1] = "Default"}
  IN  IF ~Goes(s) \/ some = {} THEN s ELSE Falls(s, arms, CHOOSE i \in some : \A j \in some : i <= j, TRUE)

Starts(s, names, init) ==
  LET k == Mean(s, init) IN Each(k, names, LAMBDA j, leaf : Takes(j, NameOf(leaf), k.val))
Statement2(s, t) ==
  CASE t[1] = "Assign" -> Assigns(Mean(s, t[3]), t[2])
    [] t[1] = "Command" -> Calling(s, t, t[2], SubSeq(t, 3, Len(t)))
    [] t[1] = "ExprStmt" ->
         IF t[2][1] \in Names /\ t[2] \in DOMAIN s.c.calls THEN Invokes(s, s.c.calls[t[2]], <<>>) ELSE Mean(s, t[2])
    [] t[1] \in {"Dim", "Global"} /\ InitOf(t) # <<>> -> Starts(s, Tail(t[2]), InitOf(t)[1])
    [] t[1] = "Implicit" -> Starts(s, <<t[2]>>, t[4])
    [] t[1] \in {"If", "LineIf"} -> Chooses(s, Tail(t))
    [] t[1] \in {"While", "Forever", "RepeatWhile", "RepeatUntil"} -> Rounds(s, t, <<>>)
    [] t[1] = "For" -> ForMeans(s, t)
    [] t[1] = "ForEach" -> EachFrom(Mean(s, t[3]), t)
    [] t[1] = "Select" -> Selects(Mean(s, t[2]), SubSeq(t, 3, Len(t)))
    [] t[1] = "Return" /\ Len(t) = 1 -> Leaves([s EXCEPT !.val = VoidV], <<"return">>)
    [] t[1] = "Return" /\ Len(t) = 2 -> LET k == Mean(s, t[2]) IN IF Goes(k) THEN Leaves(k, <<"return">>) ELSE k
    [] t[1] = "Break" -> Leaves(s, <<"break", IF Len(t) = 1 THEN 1 ELSE Number10(t[2])>>)
    [] t[1] = "Continue" -> Leaves(s, <<"continue">>)
    [] t[1] = "End" -> Leaves(s, Exit(0))
    [] t[1] = "Redim" ->
         LET k == Allots(Values2(s, SubSeq(t, 4, Len(t))), TypeExpr(s.c, t[3])) IN Takes(k, NameOf(t[2]), k.val)
    [] OTHER -> s
Mean(s, t) == IF t[1] \in Statements THEN Statement2(s, t) ELSE Expression2(s, t)

\* What the program calls the runtime with, and how it ends.
Ending(s) == [out |-> s.out, status |-> CASE s.sig \in {Alive, <<"return">>} -> Exit(0) [] s.sig = Full -> Running [] OTHER -> s.sig]
Outcome(c, ts) ==
  LET start == [c |-> c, own |-> <<>>, top |-> Variables(c, Top), at |-> Top, heap |-> <<>>, out |-> <<>>,
                depth |-> 1, val |-> VoidV, sig |-> Alive]
  IN  Ending(MeanAll(start, SelectSeq(ts, LAMBDA t : t[1] # "Function")))
=============================================================================
