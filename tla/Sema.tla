-------------------------------- MODULE Sema --------------------------------
(***************************************************************************)
(* Semantic analysis: names, types, overloads, implicit conversions, and the  *)
(* checks of every statement.                                               *)
(*                                                                         *)
(* c is the Checker.  Its tables are keyed by the trees of the parser, which  *)
(* the positions of their tokens keep apart as NodeIds do:                    *)
(*   types, convs, calls, refs, deletes : what check_ found out of a node     *)
(*   scopes : scope -> name -> declaration; Top, and a function's tree        *)
(*   at, ret, fors, ctl : the scope, return type, For loops, loops and arms    *)
(*   nest : label -> the For loops around it                                 *)
(*   ty, val : the type, and the constant if any, of the last expression      *)
(* An Option is a set of at most one element.                               *)
(***************************************************************************)
EXTENDS Parser, Overloads

CONSTANT Catalog   \* [types, funcs, consts] of the runtime

Top == <<>>
The(option) == CHOOSE x \in option : TRUE
\* c0, then op with each element in turn (The({...}) so that TLC evaluates them in turn).
Each(c0, ss, op(_, _)) ==
  LET f[i \in 0 .. Len(ss)] == IF i = 0 THEN c0 ELSE The({op(c, ss[i]) : c \in {f[i - 1]}}) IN f[Len(ss)]
Kids(t, tag) == SelectSeq(Tail(t), LAMBDA k : k[1] = tag)
NameOf(leaf) == LET v == toks[leaf[2]].v IN IF leaf[1] = "sid" THEN SubSeq(v, 1, Len(v) - 1) ELSE v
SigilOf(leaf) == Sigil(toks[leaf[2]])
IsName(t) == t[1] \in Names \cup NameWords

Report(c, code, node) == [c EXCEPT !.diags = @ \cup {<<code, node>>}]
ReportIf(bad, c, code, node) == IF bad THEN Report(c, code, node) ELSE c
Typed(c, ty) == [c EXCEPT !.ty = ty]
Noted(c, node, ty) == [c EXCEPT !.types = (node :> ty) @@ @, !.ty = ty]
Enter(c, kind) == [c EXCEPT !.ctl = Append(@, kind)]
Leave(c) == [c EXCEPT !.ctl = SubSeq(@, 1, Len(@) - 1)]
-----------------------------------------------------------------------------
(* Scopes.                                                                  *)
Decl(kind, ty, at) == [kind |-> kind, ty |-> ty, at |-> at, global |-> FALSE,
                       variants |-> <<>>, fields |-> <<>>, value |-> NullV]
Synthetic == <<>>
Hoisted == {"Function", "TypeDef", "StructDef", "Constant", "Label", "RuntimeFn", "OverloadSet", "RuntimeType"}
Lookup(c, name) ==
  LET own == c.scopes[c.at]
      top == c.scopes[Top]
  IN  CASE name \in DOMAIN own -> {own[name]}
        [] name \notin DOMAIN own /\ c.at # Top /\ name \in DOMAIN top ->
             {d \in {top[name]} : d.global \/ d.kind \in Hoisted}
        [] OTHER -> {}
KindOf(c, name) == {d.kind : d \in Lookup(c, name)}
Bind(c, scope, name, d) == [c EXCEPT !.scopes[scope] = (name :> d) @@ @]
Declare(c, scope, name, d, code) ==
  IF name \in DOMAIN c.scopes[scope] THEN Report(c, code, d.at) ELSE Bind(c, scope, name, d)
IsCommand(d) == d.at = Synthetic /\ d.kind \in {"RuntimeFn", "OverloadSet"}
\* An explicit Dim or parameter shadows a command.
DeclareVar(c, name, d) ==
  LET own == c.scopes[c.at] IN
  IF name \in DOMAIN own /\ IsCommand(own[name]) THEN Bind(c, c.at, name, d)
  ELSE Declare(c, c.at, name, d, "E0303")

IsUserSet(d) == d.kind = "OverloadSet" /\ IsUser(d.variants[1])
SameSignature(a, b) == a.params = b.params /\ a.ret = b.ret
FnPtrTo(v) == <<"FnPtr", v.params, v.ret>>

\* A second function of a name with another signature makes an overload set.
DeclareUserFunction(c, name, v, at) ==
  LET d == c.scopes[Top][name] IN
  CASE name \notin DOMAIN c.scopes[Top] ->
         Bind(c, Top, name, [Decl("Function", v.ret, at) EXCEPT !.variants = <<v>>])
    [] name \in DOMAIN c.scopes[Top] /\ (d.kind = "Function" \/ IsUserSet(d)) ->
         IF \E i \in DOMAIN d.variants : SameSignature(d.variants[i], v) THEN Report(c, "E0319", at)
         ELSE Bind(c, Top, name, [d EXCEPT !.kind = "OverloadSet", !.ty = Void, !.variants = Append(@, v)])
    [] OTHER -> Report(c, "E0319", at)
-----------------------------------------------------------------------------
(* Type expressions.                                                        *)
NamedType(c, name) ==
  CASE "RuntimeType" \in KindOf(c, name) -> <<"Runtime", name>>
    [] "StructDef" \in KindOf(c, name) -> <<"StructVal", name>>
    [] OTHER -> <<"TypeRef", name>>
RECURSIVE TypeExpr(_, _)
TypeExpr(c, t) ==
  LET typed(q) == Len(q) = 3 \/ q[2][1] # "sid"
      param(q) == IF typed(q) THEN TypeExpr(c, q[Len(q)]) ELSE SigilType(SigilOf(q[2]))
  IN  CASE t[1] \in {"Byte", "Short", "Int", "Long", "Float", "String"} -> <<t[1]>>
        [] t[1] \in Names -> NamedType(c, NameOf(t))
        [] t[1] = "Array" -> <<"Array", TypeExpr(c, t[2]), t[3][2]>>
        [] t[1] = "FnPtr" -> <<"FnPtr", [i \in 1 .. Len(t[2]) - 1 |-> param(t[2][i + 1])],
                               IF Len(t) = 3 THEN TypeExpr(c, t[3]) ELSE Void>>
        [] t[1] = "Paren" -> TypeExpr(c, t[2])
        [] OTHER -> ErrorType
\* A reserved name is reported where it stands alone, not inside another type.
ResolveType(c, t) == Typed(ReportIf(t[1] = "Bool", c, "E0330", t), TypeExpr(c, t))

\* `As`, a sigil, or Int; a return type without either is none.
AsType(c, t) == {TypeExpr(c, a[2]) : a \in {Kids(t, "As")[i] : i \in DOMAIN Kids(t, "As")}}
ReadAs(c, t) == Each(c, Kids(t, "As"), LAMBDA k, a : ResolveType(k, a[2]))
DeclType(sigil, as, neither) ==
  CASE sigil # "" -> SigilType(sigil) [] sigil = "" /\ as # {} -> The(as) [] OTHER -> neither
Disagree(sigil, as) == sigil # "" /\ as # {} /\ SigilType(sigil) # The(as)

\* A name declared by t, which may carry an As.
Declared(c, t, leaf) == DeclType(SigilOf(leaf), AsType(c, t), Int32)
CheckAs(c, t, leaf) == ReportIf(Disagree(SigilOf(leaf), AsType(c, t)), c, "E0320", leaf)
ReturnType(c, t) == DeclType(SigilOf(t[2]), AsType(c, t), Void)

\* resolve_type_name_arg: a node that names a declared type.
TypeNamed(c, node) ==
  IF node[1] = "id" THEN {NamedType(c, NameOf(node)) : k \in KindOf(c, NameOf(node)) \cap {"TypeDef", "StructDef", "RuntimeType"}}
  ELSE {}
-----------------------------------------------------------------------------
(* Pass 1: declarations, before any expression is looked at.                 *)
PredeclareType(c, t) ==
  IF t[1] \notin {"Type", "Struct"} THEN c
  ELSE LET name == NameOf(t[2])
           d == IF t[1] = "Type" THEN Decl("TypeDef", <<"TypeRef", name>>, t[2])
                ELSE Decl("StructDef", <<"StructVal", name>>, t[2])
       IN  Declare(c, Top, name, d, "E0319")

Fields(c, t) == [i \in 1 .. Len(Kids(t, "Field")) |->
  LET f == Kids(t, "Field")[i] IN [name |-> NameOf(f[2]), ty |-> Declared(c, f, f[2])]]
TypeDecl(c, t) ==
  LET k == Each(c, Kids(t, "Field"), LAMBDA s, f : CheckAs(ReadAs(s, f), f, f[2]))
      name == NameOf(t[2])
  IN  IF k.scopes[Top][name].at = t[2] THEN [k EXCEPT !.scopes[Top][name].fields = Fields(k, t)] ELSE k

Signature(c, t) ==
  LET ps == Kids(t, "Param") IN
  [params |-> [i \in DOMAIN ps |-> Declared(c, ps[i], ps[i][2])],
   least |-> Cardinality({i \in DOMAIN ps : Kids(ps[i], "Init") = <<>>}),
   ret |-> ReturnType(c, t), target |-> t]
FunctionDecl(c, t) ==
  LET k == Each(c, Kids(t, "Param"), LAMBDA s, q : CheckAs(ReadAs(s, q), q, q[2]))
      r == CheckAs(ReadAs(k, t), t, t[2])
  IN  DeclareUserFunction(r, NameOf(t[2]), Signature(r, t), t[2])

GlobalDecl(c, t) ==
  Each(ReadAs(c, t), Tail(t[2]), LAMBDA k, leaf :
    Declare(CheckAs(k, t, leaf), Top, NameOf(leaf),
            [Decl("Variable", Declared(k, t, leaf), leaf) EXCEPT !.global = TRUE], "E0303"))

PassOne(c, t) ==
  CASE t[1] = "Function" -> FunctionDecl(c, t)
    [] t[1] \in {"Type", "Struct"} -> TypeDecl(c, t)
    [] t[1] = "Global" -> GlobalDecl(c, t)
    [] t[1] = "Label" -> Declare(c, Top, NameOf(t[2]), Decl("Label", Void, t[2]), "E0303")
    [] OTHER -> c

\* The statements under t, each with the For loops around it.
Blocks == {"If", "LineIf", "While", "Forever", "RepeatWhile", "RepeatUntil", "For", "ForEach", "Select", "Case", "Default"}
RECURSIVE Deep(_, _)
Deep(t, fors) ==
  LET around == IF t[1] \in {"For", "ForEach"} THEN fors \cup {t} ELSE fors
      add(found, k) == CASE k[1] = "Body" -> found \o Each(<<>>, Tail(k), LAMBDA g, s : g \o Deep(s, around))
                         [] k[1] \in {"Case", "Default"} -> found \o Deep(k, around)
                         [] OTHER -> found
  IN  <<<<t, fors>>>> \o (IF t[1] \in Blocks THEN Each(<<>>, Tail(t), add) ELSE <<>>)
DeepAll(ts) == Each(<<>>, ts, LAMBDA g, t : g \o Deep(t, {}))

ConstDecl(c, scope, t) ==
  LET ty == Declared(c, t, t[2])
      d == [Decl("Constant", ty, t[2]) EXCEPT !.global = t[1] = "GlobalConst",
              !.value = IF ty \in {Float, String} THEN DefaultOf(ty) ELSE IntV(0)]
  IN  Declare(CheckAs(ReadAs(c, t), t, t[2]), scope, NameOf(t[2]), d, "E0303")
LabelDecl(c, t, fors) ==
  LET name == NameOf(t[2])
      k == IF Lookup(c, name) # {} THEN c ELSE Declare(c, c.at, name, Decl("Label", Void, t[2]), "E0303")
  IN  IF fors = {} THEN k ELSE [k EXCEPT !.nest = (name :> fors) @@ @]
\* The constants of a scope, then its labels, however deep they stand.
CollectConst(c, q) == IF q[1][1] \in {"Const", "GlobalConst"} THEN ConstDecl(c, c.at, q[1]) ELSE c
CollectLabel(c, q) == IF q[1][1] = "Label" THEN LabelDecl(c, q[1], q[2]) ELSE c
Collect(c, ts) == Each(Each(c, DeepAll(ts), CollectConst), DeepAll(ts), CollectLabel)

\* The runtime's names: its types before the program's, the rest after, where
\* only a constant minds being declared already.
RuntimeTypes(c) ==
  Each(c, Catalog.types, LAMBDA k, name : Bind(k, Top, name, Decl("RuntimeType", <<"Runtime", name>>, Synthetic)))
RuntimeVariant(f) == [params |-> f.params, least |-> Len(f.params), ret |-> f.ret, target |-> <<"Runtime", f.symbol>>]
RuntimeNames(c) ==
  LET add(k, f) ==
        LET d == k.scopes[Top][f.name]
            v == RuntimeVariant(f)
        IN  CASE f.name \notin DOMAIN k.scopes[Top] ->
                   Bind(k, Top, f.name, [Decl("RuntimeFn", Void, Synthetic) EXCEPT !.variants = <<v>>])
              [] f.name \in DOMAIN k.scopes[Top] /\ IsCommand(d) ->
                   Bind(k, Top, f.name, [d EXCEPT !.kind = "OverloadSet", !.variants = Append(@, v)])
              [] OTHER -> k
      constant(k, q) ==
        IF q.name \in DOMAIN k.scopes[Top] THEN Report(k, "E0303", Synthetic)
        ELSE Bind(k, Top, q.name, [Decl("Constant", TypeOfValue(q.value), Synthetic) EXCEPT !.value = q.value])
  IN  Each(Each(c, Catalog.funcs, add), Catalog.consts, constant)

NewChecker == [types |-> <<>>, convs |-> <<>>, calls |-> <<>>, refs |-> <<>>, deletes |-> <<>>, diags |-> {},
               scopes |-> Top :> <<>>, at |-> Top, ret |-> {}, fors |-> {}, ctl |-> <<>>, nest |-> <<>>,
               ty |-> Void, val |-> {}]
\* The passes over the program before any expression is looked at, in order.
Passes == <<"predeclare", "signatures", "constants", "labels">>
DeclareOne(c, pass, t) ==
  CASE pass = "predeclare" -> PredeclareType(c, t)
    [] pass = "signatures" -> PassOne(c, t)
    [] pass = "constants" -> Each(c, Deep(t, {}), CollectConst)
    [] pass = "labels" -> Each(c, Deep(t, {}), CollectLabel)
-----------------------------------------------------------------------------
(* Literals, constants, conversions.                                         *)
DigitValue == [d \in Digits |-> CASE d = "0" -> 0 [] d = "1" -> 1 [] d = "2" -> 2 [] d = "5" -> 5 [] d = "9" -> 9]
Decimal(ds) == LET f[i \in 0 .. Len(ds)] == IF i = 0 THEN 0 ELSE 10 * f[i - 1] + DigitValue[ds[i]] IN f[Len(ds)]
Number10(leaf) == Decimal(SelectSeq(toks[leaf[2]].v, LAMBDA d : d \in Digits))
FloatOf(leaf) ==
  LET v == toks[leaf[2]].v
      dot == CHOOSE i \in DOMAIN v : v[i] = "."
  IN  (Number10(leaf) * Unit) \div 10 ^ (Len(v) - dot)
Pieces(leaf) == LET v == toks[leaf[2]].v IN [i \in 1 .. Len(v) - 2 |-> <<"w", v[i + 1]>>]
IntLits == {"int", "zero", "big", "True", "False"}
IntLit(leaf) == CASE leaf[1] = "True" -> 1 [] leaf[1] = "False" -> 0 [] OTHER -> Number10(leaf)

RECURSIVE LiteralInt(_)
LiteralInt(t) ==
  CASE t[1] \in IntLits -> {IntLit(t)}
    [] t[1] = "Paren" -> LiteralInt(t[2])
    [] t[1] = "Neg" -> {-n : n \in LiteralInt(t[2])}
    [] t[1] = "Plus" -> {Abs(n) : n \in LiteralInt(t[2])}
    [] OTHER -> {}

\* A constant integer is an i64, whatever the declared type.
ConstInt(n) == V(Int32, Wrap(n, Long))
ConstBinary(op, a, b) ==
  LET kinds == {a[1], b[1]} IN
  CASE kinds = {"Int"} /\ op \in {"+", "-", "*", "/", "Mod"} ->
         {ConstInt(v[2]) : v \in {IntBinop(op, a[2], b[2], Long)} \ {Failed("DivisionByZero")}}
    [] kinds = {"Int"} /\ op \in Comparisons -> {Flag(Ordered(op, a[2], b[2]))}
    [] kinds = {"Int"} /\ op \in Logical ->
         {Flag(CASE op = "And" -> a[2] # 0 /\ b[2] # 0 [] op = "Or" -> a[2] # 0 \/ b[2] # 0
                 [] op = "Xor" -> (a[2] # 0) # (b[2] # 0))}
    [] kinds = {"Float"} /\ op \in {"+", "-", "*", "/"} -> {FloatBinop(op, a[2], b[2])}
    [] kinds \subseteq {"Int", "Float"} /\ op = "^" -> {FloatBinop(op, Convert(a, Float)[2], Convert(b, Float)[2])}
    [] kinds = {"String"} /\ op = "+" -> {V(String, a[2] \o b[2])}
    [] OTHER -> {}
ConstUnary(op, a) ==
  CASE op = "Neg" /\ a[1] = "Int" -> {ConstInt(-a[2])}
    [] op = "Neg" /\ a[1] = "Float" -> {V(Float, -a[2])}
    [] op = "Plus" /\ a[1] = "Int" -> {ConstInt(Abs(a[2]))}
    [] op = "Plus" /\ a[1] = "Float" -> {V(Float, Abs(a[2]))}
    [] op = "Not" /\ a[1] = "Int" -> {Flag(a[2] = 0)}
    [] OTHER -> {}

\* eval_const_expr: the value, if any, and what it complains of.  The left operand
\* is left.
ConstFound(r, t, found) ==
  CASE r.val # {} /\ t[1] \in {"/", "Mod"} /\ The(r.val)[2] = 0 /\ The(r.val)[1] = "Int" /\ found = {} ->
         [Report(r, "E0322", t[3]) EXCEPT !.val = found]
    [] r.val = {V(Float, 0)} /\ t[1] = "/" -> [Report(r, "E0327", t[3]) EXCEPT !.val = found]
    [] OTHER -> [r EXCEPT !.val = found]
ConstPair(r, t, left) == ConstFound(r, t, UNION {ConstBinary(t[1], a, b) : a \in left, b \in r.val})
RECURSIVE ConstOf(_, _)
ConstOf(c, t) ==
  CASE t[1] \in IntLits -> [c EXCEPT !.val = {ConstInt(IntLit(t))}]
    [] t[1] = "float" -> [c EXCEPT !.val = {V(Float, FloatOf(t))}]
    [] t[1] = "str" -> [c EXCEPT !.val = {V(String, Pieces(t))}]
    [] t[1] = "Paren" -> ConstOf(c, t[2])
    [] t[1] \in Names -> [c EXCEPT !.val = {d.value : d \in {e \in Lookup(c, NameOf(t)) : e.kind = "Constant"}}]
    [] t[1] \in Infixes ->
         LET l == ConstOf(c, t[2]) IN IF l.val = {} THEN l ELSE ConstPair(ConstOf(l, t[3]), t, l.val)
    [] t[1] \in {"Neg", "Plus", "Not"} ->
         LET o == ConstOf(c, t[2]) IN [o EXCEPT !.val = UNION {ConstUnary(t[1], a) : a \in o.val}]
    [] OTHER -> [c EXCEPT !.val = {}]

\* An implicit conversion is noted at the node; a literal that does not fit is an
\* error, any other loss a warning.
Coerce(c, node, from, to) ==
  LET conv == Conversion(from, to)
      k == [c EXCEPT !.convs = (node :> [conv |-> conv, to |-> to]) @@ @]
      literal == IsInteger(from) /\ IsInteger(to) /\ LiteralInt(node) # {}
  IN  CASE from = to \/ ErrorType \in {from, to} -> c
        [] from # to /\ ErrorType \notin {from, to} /\ conv = "none" -> Report(c, "E0317", node)
        [] from # to /\ conv # "none" /\ IsNarrowing(conv, from, to) /\ ~literal -> Report(k, "E0318", node)
        [] from # to /\ conv # "none" /\ IsNarrowing(conv, from, to) /\ literal ->
             ReportIf(~InRange(The(LiteralInt(node)), to), k, "E0326", node)
        [] OTHER -> k
CoerceAll(c, nodes, from, to) ==
  Each(c, [i \in DOMAIN nodes |-> i], LAMBDA k, i : Coerce(k, nodes[i], from[i], to[i]))
-----------------------------------------------------------------------------
(* Expressions.                                                             *)
RECURSIVE Check(_, _), CallAt(_, _, _, _, _), Intrinsic(_, _, _, _)
Expr(c, t) == Check(c, t)

\* A name as a value: its variable or constant, or the address of one function.
Ident(c, t) ==
  LET found == Lookup(c, NameOf(t))
      d == The(found)
      sigil == SigilOf(t)
      k == ReportIf(sigil # "" /\ d.ty \notin {ErrorType, SigilType(sigil)}, c, "E0302", t)
  IN  CASE found = {} -> Typed(Report(c, "E0300", t), ErrorType)
        [] found # {} /\ d.kind \in {"OverloadSet", "RuntimeFn"} -> Typed(Report(k, "E0329", t), ErrorType)
        [] found # {} /\ d.kind \in {"TypeDef", "StructDef", "RuntimeType"} -> Typed(Report(k, "E0311", t), ErrorType)
        [] found # {} /\ d.kind = "Function" -> Typed(k, FnPtrTo(d.variants[1]))
        [] OTHER -> Typed(k, d.ty)

BinaryUnconverted(c, t) ==
  LET k == Expr(Expr(c, t[2]), t[3])
      ty == BinaryType(t[1], k.types[t[2]], k.types[t[3]])
  IN  Typed(ReportIf(ty = ErrorType, k, "E0301", t), ty)
\* Operands are converted to the type the operation is done in.
Binary2(c, t) ==
  LET k == Expr(Expr(c, t[2]), t[3])
      a == k.types[t[2]]
      b == k.types[t[3]]
      ty == BinaryType(t[1], a, b)
      wide == OperandType(t[1], ty, a, b)
  IN  CASE ErrorType \in {a, b} -> Typed(k, ErrorType)
        [] ErrorType \notin {a, b} /\ ty = ErrorType -> Typed(Report(k, "E0301", t), ErrorType)
        [] ErrorType \notin {a, b, ty} /\ t[1] \in Shifts -> Typed(k, ty)
        [] OTHER -> Typed(CoerceAll(k, <<t[2], t[3]>>, <<a, b>>, <<wide, wide>>), ty)
Unary1(c, t) ==
  LET k == Expr(c, t[2])
      ty == UnaryType(t[1], k.ty)
  IN  IF k.ty = ErrorType THEN k ELSE Typed(ReportIf(ty = ErrorType, k, "E0301", t), ty)

\* The one variant of an overload set whose signature a function type names.
FnRef(c, node, expected) ==
  LET vs == The(Lookup(c, NameOf(node))).variants
      match == {i \in DOMAIN vs : FnPtrTo(vs[i]) = expected}
  IN  CASE match = {} -> Typed(Report(c, "E0324", node), ErrorType)
        [] Cardinality(match) = 1 ->
             Noted([c EXCEPT !.refs = (node :> vs[The(match)].target) @@ @], node, expected)
        [] OTHER -> Typed(Report(c, "E0323", node), ErrorType)
ValueFor(c, node, expected) ==
  IF expected[1] = "FnPtr" /\ node[1] \in Names /\ \E d \in Lookup(c, NameOf(node)) : IsUserSet(d)
  THEN FnRef(c, node, expected) ELSE Expr(c, node)

\* Arguments are checked in order; their types follow from the table c.args.
Types2(c, nodes, expected) ==
  LET f[i \in 0 .. Len(nodes)] ==
        IF i = 0 THEN [c |-> c, tys |-> <<>>]
        ELSE LET k == IF i \in DOMAIN expected THEN ValueFor(f[i - 1].c, nodes[i], expected[i])
                      ELSE Expr(f[i - 1].c, nodes[i])
             IN  [c |-> k, tys |-> Append(f[i - 1].tys, k.ty)]
  IN  f[Len(nodes)]
Resolved(c, node, v) == Typed([c EXCEPT !.calls = (node :> v.target) @@ @], v.ret)
CallWith(r, node, args, v) ==
  Resolved(IF Len(args) \notin v.least .. Len(v.params) THEN Report(r.c, "E0305", node)
           ELSE CoerceAll(r.c, args, r.tys, SubSeq(v.params, 1, Len(args))), node, v)
CallOne(c, node, args, v) == CallWith(Types2(c, args, v.params), node, args, v)

\* Overloads: the one with the most exact matches, if one wins.
Chosen(r, node, args, vs, best, one) ==
  LET v == vs[The(one)] IN
  CASE best = {} -> Typed(Report(r.c, "E0324", node), ErrorType)
    [] best # {} /\ ~OneWins(vs, best, one) ->
             Typed(Report(r.c, "E0323", node), ErrorType)
    [] OTHER -> Resolved(CoerceAll(r.c, args, r.tys, v.params), node, v)
Asked(r, node, args, vs, best, need) ==
  Chosen(r, node, args, vs, best, Answering(vs, best, need))
OverloadFrom(r, node, args, vs, need) == Asked(r, node, args, vs, Best(vs, r.tys), need)
Overload(c, node, args, vs, need) == OverloadFrom(Types2(c, args, <<>>), node, args, vs, need)

\* Through a function value: its arguments are counted, and no more.
ThroughValue(k, node, args) ==
  CASE k.ty = ErrorType -> k
    [] k.ty[1] = "FnPtr" -> Typed(ReportIf(Len(args) # Len(k.ty[2]), k, "E0305", node), k.ty[3])
    [] OTHER -> Typed(Report(k, "E0304", node), ErrorType)
CallValue(c, node, callee, args) == ThroughValue(Expr(Types2(c, args, <<>>).c, callee), node, args)

Intrinsics == {"Len", "Int", "Float", "Str", "First", "Last", "Next", "Previous"}
Callable == {"Function", "RuntimeFn", "OverloadSet"}
CallAt(c, node, callee, args, need) ==
  LET name == NameOf(callee)
      d == The(Lookup(c, name))
  IN  CASE callee[1] \in NameWords \cup {"id"} /\ Len(name) = 1 /\ name[1] \in Intrinsics ->
             Intrinsic(c, node, name[1], args)
        [] IsName(callee) /\ (Len(name) # 1 \/ name[1] \notin Intrinsics \/ callee[1] = "sid")
             /\ KindOf(c, name) \cap Callable # {} ->
             IF d.kind = "OverloadSet" THEN Overload(c, node, args, d.variants, need)
             ELSE CallOne(c, node, args, d.variants[1])
        [] OTHER -> CallValue(c, node, callee, args)

WantInteger(c, node) == ReportIf(~IsInteger(c.ty) /\ c.ty # ErrorType, c, "E0301", node)
IntegerExprs(c, nodes) == Each(c, nodes, LAMBDA k, n : WantInteger(Expr(k, n), n))
Converting == [Int |-> Int32, Float |-> Float, Str |-> String]
Intrinsic(c, node, name, args) ==
  LET k == Expr(c, args[1])
      scalar == IsNumeric(k.ty) \/ k.ty \in {String, ErrorType}
      named == TypeNamed(c, args[1])
  IN  CASE Len(args) \notin (IF name = "Len" THEN 1 .. 2 ELSE {1}) -> Typed(Report(c, "E0305", node), ErrorType)
        [] name = "Len" /\ Len(args) \in 1 .. 2 /\ k.ty = String ->
             Typed(ReportIf(Len(args) = 2, k, "E0305", node), Int32)
        [] name = "Len" /\ Len(args) \in 1 .. 2 /\ k.ty # String ->
             LET l == ReportIf(k.ty[1] # "Array" /\ k.ty # ErrorType, k, "E0301", args[1]) IN
             Typed(IntegerExprs(l, Tail(args)), Int32)
        [] name \in DOMAIN Converting /\ Len(args) = 1 ->
             Typed(ReportIf(~scalar, k, "E0301", args[1]), Converting[name])
        [] name \in {"First", "Last"} /\ Len(args) = 1 /\ named # {} ->
             LET ty == The(named) IN
             IF ty[1] = "TypeRef" THEN Noted(c, args[1], ty)
             ELSE Typed(Report(Noted(c, args[1], ty), "E0301", args[1]), ErrorType)
        [] name \in {"First", "Last"} /\ Len(args) = 1 /\ named = {} ->
             Typed(ReportIf(k.ty # ErrorType, k, "E0301", args[1]), ErrorType)
        [] name \in {"Next", "Previous"} /\ Len(args) = 1 ->
             IF k.ty[1] \in {"TypeRef", "Error"} THEN k ELSE Typed(Report(k, "E0301", args[1]), ErrorType)

Index(c, t) ==
  LET arr == Expr(c, t[2])
      k == IntegerExprs(arr, SubSeq(t, 3, Len(t)))
      ty == arr.ty
  IN  CASE ty = ErrorType -> Typed(k, ErrorType)
        [] ty[1] = "Array" -> Typed(ReportIf(Len(t) - 2 # ty[3], k, "E0307", t), ty[2])
        [] OTHER -> Typed(Report(k, "E0306", t), ErrorType)

FieldsOf(c, ty) == UNION {{d.fields[i] : i \in DOMAIN d.fields} :
                            d \in {e \in Lookup(c, ty[2]) : e.kind \in {"TypeDef", "StructDef"}}}
Member(c, t) ==
  LET k == Expr(c, t[2])
      ty == k.ty
      f == {g \in FieldsOf(c, ty) : g.name = NameOf(t[3])}
      record == Lookup(c, ty[2]) # {} /\ The(Lookup(c, ty[2])).kind \in {"TypeDef", "StructDef"}
  IN  CASE ty = ErrorType -> k
        [] ty[1] \notin {"TypeRef", "StructVal", "Error"} -> Typed(Report(k, "E0309", t), ErrorType)
        [] ty[1] \in {"TypeRef", "StructVal"} /\ f # {} -> Typed(k, The(f).ty)
        [] ty[1] \in {"TypeRef", "StructVal"} /\ f = {} -> Typed(ReportIf(record, k, "E0308", t[3]), ErrorType)

New(c, t) ==
  LET k == ResolveType(c, t[2]) IN
  IF k.ty[1] \in {"TypeRef", "Error"} THEN k ELSE Typed(Report(k, "E0301", t), ErrorType)
NewArray(c, t) ==
  LET k == ResolveType(c, t[2])
      dims == SubSeq(t, 3, Len(t))
  IN  Typed(IntegerExprs(k, dims), <<"Array", k.ty, Len(dims)>>)

ExprKind(c, t) ==
  CASE t[1] \in IntLits -> Typed(c, Int32)
    [] t[1] = "float" -> Typed(c, Float)
    [] t[1] = "str" -> Typed(c, String)
    [] t[1] = "Null" -> Typed(c, NullType)
    [] t[1] \in Names -> Ident(c, t)
    [] t[1] \in Infixes -> Binary2(c, t)
    [] t[1] \in {"Plus", "Neg", "Not", "BinNot"} -> Unary1(c, t)
    [] t[1] = "Call" -> CallAt(c, t, t[2], SubSeq(t, 3, Len(t)), TRUE)
    [] t[1] = "Index" -> Index(c, t)
    [] t[1] = "Member" -> Member(c, t)
    [] t[1] = "Paren" -> Expr(c, t[2])
    [] t[1] = "New" -> New(c, t)
    [] t[1] = "NewArray" -> NewArray(c, t)
    [] OTHER -> Typed(c, ErrorType)
Remember(k, t) == Noted(k, t, k.ty)
-----------------------------------------------------------------------------
(* Statements.                                                              *)
RECURSIVE Assignable(_)
Stmts(c, ts) == Each(c, ts, Check)
BodyOf(t) == Tail(Kids(t, "Body")[1])
Condition(c, t) ==
  LET k == Expr(c, t) IN ReportIf(~IsNumeric(k.ty) /\ k.ty # ErrorType, k, "E0301", t)
\* A loop's body, or an arm's.
Inside(c, kind, ts) == Leave(Stmts(Enter(c, kind), ts))

Assignable(t) == t[1] \in Names \/ (t[1] \in {"Member", "Index", "Paren"} /\ Assignable(t[2]))
Assigned(c, value, ty) ==
  LET k == ValueFor(c, value, ty) IN Coerce(k, value, k.ty, ty)
NewVar(c, leaf, ty) == Noted(Declare(c, c.at, NameOf(leaf), Decl("Variable", ty, leaf), "E0303"), leaf, ty)
\* The first assignment to a name declares it, with the value's type or its sigil's.
Infer(c, leaf, value) ==
  LET k == Expr(c, value) IN
  IF k.ty \in {NullType, Void} THEN NewVar(Report(k, "E0331", leaf), leaf, ErrorType) ELSE NewVar(k, leaf, k.ty)
Assign(c, t) ==
  LET target == t[2]
      kinds == KindOf(c, NameOf(target))
      sigil == SigilOf(target)
      k == IF target[1] \notin Names \/ kinds # {} THEN Expr(c, target) ELSE NewVar(c, target, SigilType(sigil))
  IN  CASE ~Assignable(target) -> Expr(Expr(Report(c, "E0325", target), target), t[3])
        [] Assignable(target) /\ target[1] \in Names /\ kinds \cap {"RuntimeFn", "OverloadSet"} # {} ->
             Expr(Report(c, "E0328", target), t[3])
        [] Assignable(target) /\ target[1] = "id" /\ kinds = {} -> Infer(c, target, t[3])
        [] OTHER -> Assigned(k, t[3], k.ty)

Initial(c, t, leaf, init) ==
  LET k == Expr(c, init) IN Coerce(k, init, k.ty, Declared(c, t, leaf))
Dim(c, t, names, init) ==
  LET k == Each(ReadAs(c, t), names, LAMBDA s, leaf :
             DeclareVar(CheckAs(s, t, leaf), NameOf(leaf), Decl("Variable", Declared(s, t, leaf), leaf)))
  IN  Each(k, init, LAMBDA s, e : Initial(s, t, names[1], e))
InitOf(t) == [i \in DOMAIN Kids(t, "Init") |-> Kids(t, "Init")[i][2]]
GlobalInit(c, t) == Each(c, InitOf(t), LAMBDA s, e : Initial(ReadAs(s, t), t, t[2][2], e))

ConstTakes(e, t, ty) ==
  LET name == NameOf(t[2]) IN
  CASE e.val = {} -> ReportIf(ty # ErrorType, e, "E0322", t[Len(t)])
    [] e.val # {} /\ e.scopes[e.at][name].kind = "Constant" -> [e EXCEPT !.scopes[e.at][name].value = The(e.val)]
    [] OTHER -> e
ConstStmt(c, t) ==
  LET value == t[Len(t)]
      k == Expr(c, value)
  IN  ConstTakes(ConstOf(k, value), t, k.ty)

Numeric(c, t) == LET k == Expr(c, t) IN ReportIf(~IsNumeric(k.ty) /\ k.ty # ErrorType, k, "E0301", t)
ForStmt(c, t) ==
  LET parts == SelectSeq(SubSeq(t, 3, IF Len(t) >= 6 THEN 5 ELSE 4), LAMBDA q : q[1] # "Body")
      k == Each(c, parts, Numeric)
      var == t[2]
      widest == Each(Int32, parts, LAMBDA ty, q : IF IsNumeric(k.types[q]) THEN NumericPromote(ty, k.types[q]) ELSE ty)
      v == IF Lookup(k, NameOf(var)) # {} THEN Expr(k, var)
           ELSE NewVar(k, var, IF SigilOf(var) = "" THEN widest ELSE SigilType(SigilOf(var)))
      w == ReportIf(~IsNumeric(v.ty) /\ v.ty # ErrorType, v, "E0316", var)
      x == IF ~IsNumeric(v.ty) THEN w
           ELSE Each(w, parts, LAMBDA s, q : Coerce(s, q, k.types[q], v.ty))
      y == Inside([x EXCEPT !.fors = @ \cup {t}], "Loop", BodyOf(t))
  IN  [y EXCEPT !.fors = c.fors]

\* Over a Type's list or an array; of any other source only the variable is typed.
ForEachStmt(c, t) ==
  LET named == TypeNamed(c, t[3])
      k == IF named # {} THEN Noted(c, t[3], The(named)) ELSE Expr(c, t[3])
      var == t[2]
      ty == CASE k.ty[1] = "TypeRef" -> k.ty [] k.ty[1] = "Array" -> k.ty[2]
              [] OTHER -> DeclType(SigilOf(var), {}, Int32)
      v == IF Lookup(k, NameOf(var)) # {} THEN k ELSE NewVar(k, var, ty)
      y == Inside([v EXCEPT !.fors = @ \cup {t}], "Loop", BodyOf(t))
  IN  [y EXCEPT !.fors = c.fors]

NeedsValue(e, node) == ReportIf(e.val = {}, e, "E0322", node)
CaseValue(c, node, ty) ==
  LET k == Expr(c, node) IN
  IF ErrorType \in {k.ty, ty} THEN k ELSE NeedsValue(ConstOf(Coerce(k, node, k.ty, ty), node), node)
SelectStmt(c, t) ==
  LET k == Expr(c, t[2]) IN
  Each(k, SubSeq(t, 3, Len(t)), LAMBDA s, arm :
    Inside(Each(s, SelectSeq(Tail(arm), LAMBDA q : q[1] # "Body"), LAMBDA r, v : CaseValue(r, v, k.ty)),
           "Select", BodyOf(arm)))

FunctionStmt(c, t) ==
  LET inner == [c EXCEPT !.scopes = (t :> <<>>) @@ @, !.at = t, !.ret = {ReturnType(c, t)}]
      ps == Each(inner, Kids(t, "Param"), LAMBDA s, q :
              Declare(ReadAs(s, q), t, NameOf(q[2]), Decl("Variable", Declared(s, q, q[2]), q[2]), "E0303"))
      k == Stmts(Collect(ReadAs(ps, t), BodyOf(t)), BodyOf(t))
  IN  [k EXCEPT !.at = c.at, !.ret = c.ret]
ReturnStmt(c, t) ==
  LET ret == The(c.ret) IN
  CASE c.ret = {} -> Report(c, "E0313", t)
    [] c.ret = {Void} -> IF Len(t) = 1 THEN c ELSE Report(Expr(c, t[2]), "E0314", t)
    [] c.ret \notin {{}, {Void}} -> IF Len(t) = 1 THEN Report(c, "E0315", t) ELSE Assigned(c, t[2], ret)

GotoStmt(c, t) ==
  LET name == NameOf(t[2]) IN
  CASE KindOf(c, name) # {"Label"} -> Report(c, "E0312", t[2])
    [] KindOf(c, name) = {"Label"} /\ name \in DOMAIN c.nest -> ReportIf(~(c.nest[name] \subseteq c.fors), c, "E0321", t[2])
    [] OTHER -> c
Loops(c) == Len(SelectSeq(c.ctl, LAMBDA k : k = "Loop"))
BreakStmt(c, t) == ReportIf(Loops(c) < (IF Len(t) = 1 THEN 1 ELSE Number10(t[2])), c, "E0332", t)
DeleteStmt(c, t) ==
  LET k == Expr(c, t[2])
      class == IF t[2][1] \in Names THEN "Lvalue" ELSE "Rvalue"
  IN  [ReportIf(k.ty[1] \notin {"TypeRef", "Error"}, k, "E0310", t[2]) EXCEPT !.deletes = (t :> class) @@ @]
Call1(c, e) ==
  CASE e[1] = "Call" -> CallAt(c, e, e[2], SubSeq(e, 3, Len(e)), FALSE)
    [] e[1] \in Names /\ KindOf(c, NameOf(e)) \cap Callable # {} -> CallAt(c, e, e, <<>>, FALSE)
    [] OTHER -> Expr(c, e)

\* A loop whose condition comes first, or last, and a body without one.
Part(c, k) == IF k[1] = "Body" THEN Stmts(c, Tail(k)) ELSE Condition(c, k)
LoopPart(c, k) == IF k[1] = "Body" THEN Inside(c, "Loop", Tail(k)) ELSE Condition(c, k)
Statements == DOMAIN OneLine \cup Blocks \cup {"Assign", "Command", "ExprStmt", "Implicit", "Global", "GlobalConst",
                                             "Function", "Type", "Struct", "Label", "End"}
Stmt(c, t) ==
  CASE t[1] = "Assign" -> Assign(c, t)
    [] t[1] = "Command" -> CallAt(c, t, t[2], SubSeq(t, 3, Len(t)), FALSE)
    [] t[1] = "ExprStmt" -> Call1(c, t[2])
    [] t[1] = "Dim" -> Dim(c, t, Tail(t[2]), InitOf(t))
    [] t[1] = "Implicit" -> Dim(c, t, <<t[2]>>, <<t[4]>>)
    [] t[1] = "Global" -> GlobalInit(c, t)
    [] t[1] \in {"Const", "GlobalConst"} -> ConstStmt(c, t)
    [] t[1] \in {"If", "LineIf"} -> Each(c, Tail(t), Part)
    [] t[1] \in {"While", "Forever", "RepeatWhile", "RepeatUntil"} -> Each(c, Tail(t), LoopPart)
    [] t[1] = "For" -> ForStmt(c, t)
    [] t[1] = "ForEach" -> ForEachStmt(c, t)
    [] t[1] = "Select" -> SelectStmt(c, t)
    [] t[1] = "Function" -> FunctionStmt(c, t)
    [] t[1] = "Return" -> ReturnStmt(c, t)
    [] t[1] = "Goto" -> GotoStmt(c, t)
    [] t[1] = "Delete" -> DeleteStmt(c, t)
    [] t[1] = "Redim" -> IntegerExprs(ResolveType(Expr(c, t[2]), t[3]), SubSeq(t, 4, Len(t)))
    [] t[1] = "Label" -> IF c.fors = {} THEN c ELSE [c EXCEPT !.nest = (NameOf(t[2]) :> c.fors) @@ @]
    [] t[1] = "Break" -> BreakStmt(c, t)
    [] t[1] = "Continue" -> ReportIf(c.ctl = <<>>, c, "E0332", t)
    [] t[1] = "Include" -> Report(c, "E0333", t)
    [] OTHER -> c
\* check_expr and check_stmt.
Check(c, t) == IF t[1] \in Statements THEN Stmt(c, t) ELSE Remember(ExprKind(c, t), t)

Warnings == {"E0318", "E0327"}
Errors(c) == {d \in c.diags : d[1] \notin Warnings}
=============================================================================
