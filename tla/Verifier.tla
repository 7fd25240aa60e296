------------------------------ MODULE Verifier ------------------------------
(***************************************************************************)
(* The verifier of the intermediate form.  Complaints(ir) names the checks    *)
(* that fail; a debug build stops at the first of them.                       *)
(***************************************************************************)
EXTENDS Lowering

Elements(seq) == {seq[i] : i \in DOMAIN seq}
CheckThat(v, ok, what) == IF ok THEN v ELSE [v EXCEPT !.bad = @ \cup {what}]

\* The variables an instruction names.
VarsIn(inst) == CASE inst.op \in {"Load", "Store", "DeleteLvalue"} -> {inst.arg}
                  [] inst.op \in {"Redim", "StorePlace"} -> {inst.arg[1]}
                  [] OTHER -> {}
VarExists(v, var) == IF var[1] = "Local" THEN var[2] \in DOMAIN v.f.locals ELSE var[2] \in DOMAIN v.ir.globals
Effects == {"Store", "StorePlace", "DeleteLvalue", "DeleteRvalue", "Redim"}
Calls == {"Call", "CallIndirect"}

\* Registers count as defined from their instruction on, in the order of the
\* blocks' numbers, whatever path leads there.
VerifyInst(v, inst) ==
  LET a == CheckThat(v, \A var \in VarsIn(inst) : VarExists(v, var), "variable out of range")
      b == CheckThat(a, Elements(inst.use) \subseteq v.defined, "register used before definition")
      c == CheckThat(b, inst.op \in {"Call", "FuncAddr"} => \E e \in v.ir.table : e.target = inst.arg, "FuncId out of range")
      d == CheckThat(c, inst.op \in {"NewType", "First", "Last"} => inst.arg \in v.ir.typeDefs, "TypeDefId out of range")
      e == CheckThat(d, inst.op = "Const" /\ inst.arg[1] = "Int" => InRange(inst.arg[2], Int32), "ConstInt out of range")
      g == CheckThat(e, inst.op \notin Calls => (inst.res = 0) = (inst.op \in Effects), "result of an effect")
      h == CheckThat(g, inst.res \notin v.defined, "register defined more than once")
  IN  [h EXCEPT !.defined = @ \cup ({inst.res} \ {0})]

Targets(term) == CASE term[1] = "Goto" -> {term[2]} [] term[1] = "BranchIf" -> {term[3], term[4]} [] OTHER -> {}
Reads(term) == CASE term[1] = "BranchIf" -> {term[2]} [] term[1] = "Return" -> {term[2]} \ {0} [] OTHER -> {}
VerifyBlock(v, block) ==
  LET k == Each(v, block.insts, VerifyInst) IN
  IF block.term = Open THEN CheckThat(k, FALSE, "no terminator")
  ELSE CheckThat(CheckThat(k, Targets(block.term) \subseteq DOMAIN v.f.blocks, "non-existent block"),
                 Reads(block.term) \subseteq k.defined, "register used before definition")

\* The first locals are the parameters.
ParamsFirst(f) ==
  /\ Len(f.locals) >= Len(f.params)
  /\ \A i \in DOMAIN f.locals :
       IF i \in DOMAIN f.params THEN f.locals[i].param /\ f.locals[i].ty = f.params[i] ELSE ~f.locals[i].param
VerifyFunction(v, f) ==
  Each(CheckThat([v EXCEPT !.f = f, !.defined = {}], f.blocks # <<>> /\ ParamsFirst(f), "parameters"), f.blocks, VerifyBlock)

\* Every body belongs to one entry of the function table.
Complaints(ir) ==
  LET bodies == {e \in ir.table : e.body # 0}
      v == CheckThat([ir |-> ir, f |-> <<>>, defined |-> {}, bad |-> {}],
                     /\ {e.body : e \in bodies} = DOMAIN ir.functions
                     /\ Cardinality(bodies) = Len(ir.functions), "not a bijection")
  IN  Each(v, ir.functions, VerifyFunction).bad
=============================================================================
