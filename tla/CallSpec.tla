------------------------------ MODULE CallSpec ------------------------------
(***************************************************************************)
(* What a call does: the callee starts with its parameters and with every  *)
(* other local at its default, whatever ran before; the caller waits at    *)
(* the call and gets the result in the register the call names; and a      *)
(* runtime function's request to end the program is its last step.  The    *)
(* definitions follow the compiled program (func.rs), where an activation  *)
(* is the C stack's and the default host ends the process from inside the  *)
(* request.                                                                *)
(*                                                                         *)
(* Data is abstract: a branch may go either way and a runtime function     *)
(* returns any value of its result's type.                                 *)
(***************************************************************************)
EXTENDS Naturals, Sequences, SequencesExt

CONSTANTS Program,    \* what each function's IR is: see Function
          Regs,       \* the registers of a function
          Data,       \* the values runtime functions return
          Default,    \* the default value of a local
          MaxDepth    \* bound: activations on the stack

Main == "@main"
NoReg == "no register"
Funcs == DOMAIN Program
Values == {Default} \cup Data \cup Funcs    \* a function is its own address

Insts ==
  [op : {"const"}, value : Values, result : Regs]
  \cup [op : {"load"}, local : Nat, result : Regs]
  \cup [op : {"store"}, local : Nat, from : Regs]
  \cup [op : {"call"}, callee : Funcs, args : Seq(Regs), result : Regs \cup {NoReg}]
  \cup [op : {"indirect"}, callee : Regs, args : Seq(Regs), result : Regs \cup {NoReg}]
  \cup [op : {"runtime"}, result : Regs \cup {NoReg}]

Terminators ==
  [op : {"branch"}, targets : SUBSET Nat]
  \cup [op : {"return"}, from : Regs \cup {NoReg}]
  \cup [op : {"halt", "trap"}]

Function == [params : Nat, locals : Nat, blocks : Seq([insts : Seq(Insts), term : Terminators])]

\* What the lowering guarantees of a program: a function has a first block, a
\* branch has a target, and locals and blocks that are named exist.
WellFormed ==
  /\ Main \in Funcs /\ Program \in [Funcs -> Function]
  /\ \A f \in Funcs : LET blocks == Program[f].blocks IN
       /\ blocks # <<>>
       /\ \A b \in DOMAIN blocks :
            /\ blocks[b].term.op = "branch" => blocks[b].term.targets \subseteq DOMAIN blocks
            /\ \A n \in DOMAIN blocks[b].insts :
                 blocks[b].insts[n].op \in {"load", "store"} =>
                   blocks[b].insts[n].local \in 1..Program[f].locals
  /\ NoReg \notin Regs /\ Default \notin Funcs /\ MaxDepth \in Nat \ {0}

VARIABLES stack,     \* the activations, the running one last
          outcome    \* "running", or how the program ended

vars == <<stack, outcome>>

Top == Last(stack)
Block(frame) == Program[frame.func].blocks[frame.block]
Inst == Block(Top).insts[Top.pc]
Term == Block(Top).term
AtInst(op) == outcome = "running" /\ Top.pc <= Len(Block(Top).insts) /\ Inst.op = op
AtTerm(op) == outcome = "running" /\ Top.pc > Len(Block(Top).insts) /\ Term.op = op

Replace(frame) == Append(Front(stack), frame)

\* The running activation goes on, its instruction's result v bound.
Bound(frame, result, v) ==
  [frame EXCEPT !.pc = @ + 1, !.regs = IF result = NoReg THEN @ ELSE [@ EXCEPT ![result] = v]]
Continue(result, v) == stack' = Replace(Bound(Top, result, v)) /\ UNCHANGED outcome
End(how) == outcome' = how /\ UNCHANGED stack

\* emit_entry: every slot at its default, then the parameters.
Entry(f, args) ==
  [func |-> f, block |-> 1, pc |-> 1, regs |-> [r \in Regs |-> Default],
   locals |-> [l \in 1..Program[f].locals |->
                 IF l \in DOMAIN args THEN args[l] ELSE Default]]

Init ==
  /\ stack = <<Entry(Main, <<>>)>>
  /\ outcome = "running"

-----------------------------------------------------------------------------
Const == AtInst("const") /\ Continue(Inst.result, Inst.value)

LoadLocal == AtInst("load") /\ Continue(Inst.result, Top.locals[Inst.local])

StoreLocal ==
  /\ AtInst("store")
  /\ stack' = Replace([Top EXCEPT !.locals[Inst.local] = Top.regs[Inst.from], !.pc = @ + 1])
  /\ UNCHANGED outcome

\* A stack that is full may end the program.
Enter(f, args) ==
  IF Len(stack) < MaxDepth
  THEN stack' = Append(stack, Entry(f, [n \in DOMAIN args |-> Top.regs[args[n]]]))
       /\ UNCHANGED outcome
  ELSE End("failed")

Call == AtInst("call") /\ Enter(Inst.callee, Inst.args)

CallIndirect ==
  /\ AtInst("indirect")
  /\ LET f == Top.regs[Inst.callee]
     IN IF f \in Funcs THEN Enter(f, Inst.args) ELSE End("failed")

\* A runtime function returns, or asks for the end and does not come back.
CallRuntime ==
  /\ AtInst("runtime")
  /\ \/ \E v \in Data : Continue(Inst.result, v)
     \/ \E how \in {"exited", "failed"} : End(how)

Branch ==
  /\ AtTerm("branch")
  /\ \E b \in Term.targets : stack' = Replace([Top EXCEPT !.block = b, !.pc = 1])
  /\ UNCHANGED outcome

\* A function that ends without a Return returns its type's default.
Return ==
  /\ AtTerm("return")
  /\ LET result == IF Term.from = NoReg THEN Default ELSE Top.regs[Term.from]
         callers == Front(stack)
         caller == Last(callers)
     IN IF callers = <<>> THEN stack' = callers /\ outcome' = "exited"
        ELSE /\ stack' = Append(Front(callers),
                           Bound(caller, Block(caller).insts[caller.pc].result, result))
             /\ UNCHANGED outcome

Halt == AtTerm("halt") /\ End("exited")
Trap == AtTerm("trap") /\ End("failed")

Next ==
  \/ Const \/ LoadLocal \/ StoreLocal \/ Call \/ CallIndirect \/ CallRuntime
  \/ Branch \/ Return \/ Halt \/ Trap

Spec == Init /\ [][Next]_vars
=============================================================================
