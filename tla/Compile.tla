------------------------------ MODULE Compile ------------------------------
(***************************************************************************)
(* A program on its way through the compiler: parsed, declared, checked,     *)
(* lowered, verified, and run by the interpreter.                            *)
(***************************************************************************)
EXTENDS Meaning

CONSTANT Sources       \* the texts of the programs

VARIABLES stage,       \* parse, declare, check, functions, main, verify, run or failed
          rest,        \* the statements, or functions, still to do
          c,           \* the checker
          l,           \* the lowering of main
          ir,          \* the lowered program
          m            \* the interpreter

vars == <<toks, p, stage, rest, c, l, ir, m>>
Nothing == <<>>

Init == /\ \E text \in Sources : toks = Tokenize(text).tokens
        /\ p = ParserStart
        /\ stage = "parse"
        /\ rest = Nothing /\ c = NewChecker /\ l = Nothing /\ ir = Nothing /\ m = Nothing

Parse == /\ stage = "parse" /\ ParseStep
         /\ UNCHANGED <<stage, rest, c, l, ir, m>>

\* analyze: the declarations, pass by pass, then every statement in turn.
Analyze == /\ stage = "parse" /\ Parsed /\ p.diags = {}
           /\ stage' = "declare" /\ rest' = [i \in DOMAIN Passes |-> <<Passes[i], p.nodes>>] /\ c' = RuntimeTypes(c)
           /\ UNCHANGED <<toks, p, l, ir, m>>
DeclareNext == /\ stage = "declare" /\ rest # <<>>
               /\ LET pass == rest[1][1]
                      ts == rest[1][2]
                  IN  IF ts = <<>> THEN rest' = Tail(rest) /\ c' = c
                      ELSE rest' = [rest EXCEPT ![1] = <<pass, Tail(ts)>>] /\ c' = DeclareOne(c, pass, Head(ts))
               /\ UNCHANGED <<toks, p, stage, l, ir, m>>
DeclareRuntime == /\ stage = "declare" /\ rest = <<>>
                  /\ stage' = "check" /\ rest' = p.nodes /\ c' = RuntimeNames(c)
                  /\ UNCHANGED <<toks, p, l, ir, m>>
CheckStmt == /\ stage = "check" /\ rest # <<>>
             /\ c' = Check(c, Head(rest)) /\ rest' = Tail(rest)
             /\ UNCHANGED <<toks, p, stage, l, ir, m>>
Checked == stage = "check" /\ rest = <<>>
Reject == /\ Checked /\ Errors(c) # {}
          /\ stage' = "failed"
          /\ UNCHANGED <<toks, p, rest, c, l, ir, m>>

\* lower_program: the functions, then main, a statement at a time.
BeginLowering == /\ Checked /\ Errors(c) = {}
                 /\ stage' = "functions" /\ rest' = FunctionsOf(p.nodes) /\ ir' = NewProgram(c, p.nodes)
                 /\ UNCHANGED <<toks, p, c, l, m>>
LowerNextFunction == /\ stage = "functions" /\ rest # <<>>
                     /\ ir' = [ir EXCEPT !.functions = Append(@, LowerFunction(c, Head(rest)))]
                     /\ rest' = Tail(rest)
                     /\ UNCHANGED <<toks, p, stage, c, l, m>>
BeginMain == /\ stage = "functions" /\ rest = <<>>
             /\ stage' = "main" /\ rest' = MainStmts(p.nodes) /\ l' = MainBody(c)
             /\ UNCHANGED <<toks, p, c, ir, m>>
LowerNextStmt == /\ stage = "main" /\ rest # <<>>
                 /\ l' = LowerTree(l, Head(rest)) /\ rest' = Tail(rest)
                 /\ UNCHANGED <<toks, p, stage, c, ir, m>>
EndMain == /\ stage = "main" /\ rest = <<>>
           /\ stage' = "verify" /\ ir' = [ir EXCEPT !.functions = Append(@, FinishedMain(l))] /\ l' = Nothing
           /\ UNCHANGED <<toks, p, rest, c, m>>
\* Only a debug build stops at a complaint; programs with Types or structs end here.
Verify == /\ stage = "verify" /\ Complaints(ir) = {} /\ Runnable(ir)
          /\ stage' = "run" /\ m' = Start(ir)
          /\ UNCHANGED <<toks, p, rest, c, l, ir>>

Execute == /\ stage = "run" /\ m.status = Running /\ Len(m.out) < MaxOut
           /\ m' = Step(ir, m)
           /\ UNCHANGED <<toks, p, stage, rest, c, l, ir>>

Next == \/ Parse \/ Analyze \/ DeclareNext \/ DeclareRuntime \/ CheckStmt \/ Reject
        \/ BeginLowering \/ LowerNextFunction \/ BeginMain \/ LowerNextStmt \/ EndMain \/ Verify \/ Execute
Spec == Init /\ [][Next]_vars
-----------------------------------------------------------------------------
(* Properties.                                                              *)

Over == stage = "run" /\ (m.status # Running \/ Len(m.out) >= MaxOut)

\* The checker is through with what the lowering and the interpreter take for
\* granted: the verifier finds nothing to complain of in a program without errors.
VerifierAccepts == stage = "verify" => Complaints(ir) = {}

\* What a program calls the runtime with, in which order, and how it ends, is what
\* its trees mean; the conversions, slots, jumps and calls of the lowered code
\* neither add to it nor lose anything.
Structured == \A i \in DOMAIN toks : toks[i].k # "Goto"
RunsAsWritten == Over /\ Structured => Outcome(c, p.nodes) = [out |-> m.out, status |-> m.status]

\* At every instruction each variable holds a value of its declared type, as the
\* typed slots of the compiled program would.
Fits(v, ty) == CASE ty[1] \in {"Array", "FnPtr"} -> v[1] \in {"Null", ty[1]}
                 [] ty = Void -> TRUE
                 [] OTHER -> v[1] = ty[1]
TypesAgree ==
  stage = "run" =>
    /\ \A name \in DOMAIN m.globals : Fits(m.globals[name], ir.globals[name])
    /\ \A i \in DOMAIN m.frames : \A k \in DOMAIN m.frames[i].locals :
         Fits(m.frames[i].locals[k], ir.functions[m.frames[i].f].locals[k].ty)

\* A program the checker accepts stops early only at what the manual calls a
\* runtime error, never at operands the interpreter has no operation for.
Traps == {"DivisionByZero", "NullDeref", "NullFnPtr", "IndexOutOfBounds", "negative array index",
          "negative array dimension", "stack overflow"}
OnlyTraps == stage = "run" /\ m.status[1] = "stopped" => m.status[2] \in Traps

\* An implicit conversion that loses part of a number at run time is one the
\* checker warned of, at that very expression.
AtInst(op) ==
  /\ stage = "run" /\ m.status = Running
  /\ LET fr == TopFrame(m)
         insts == ir.functions[fr.f].blocks[fr.block].insts
     IN  fr.pc \in DOMAIN insts /\ insts[fr.pc].op = op
Current == LET fr == TopFrame(m) IN ir.functions[fr.f].blocks[fr.block].insts[fr.pc]
LossIsWarned ==
  AtInst("Convert") /\ Loses(TopFrame(m).regs[Current.use[1]], Current.arg[1]) => <<"E0318", Current.arg[2]>> \in c.diags

\* The function an overloaded call names takes the arguments, and by the manual's
\* ranking of exact, widening and narrowing conversions no other fits every one of them
\* as well, whatever the order of the declarations, but one that answers where no
\* answer is asked for, or the other way round.
CalleeOf(t) == IF t[1] \in Names THEN t ELSE t[2]
ArgumentsOf(t) == SubSeq(t, 3, Len(t))
Overloaded(t) == {d \in Lookup(c, NameOf(CalleeOf(t))) : d.kind = "OverloadSet"}
BestOverload ==
  stage = "verify" =>
    \A t \in DOMAIN c.calls : \A d \in Overloaded(t) :
      LET tys == [i \in DOMAIN ArgumentsOf(t) |-> c.types[ArgumentsOf(t)[i]]]
          v == CHOOSE w \in Elements(d.variants) : w.target = c.calls[t]
      IN  /\ Accepts(v, tys)
          /\ \A w \in Elements(d.variants) \ {v} :
               Accepts(w, tys) /\ FitsAsWell(w, v, tys) => (w.ret = Void) # (v.ret = Void)
=============================================================================
