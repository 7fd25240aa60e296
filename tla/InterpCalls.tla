---------------------------- MODULE InterpCalls ----------------------------
(***************************************************************************)
(* The interpreter's exec_loop, frames and trap channel (interp.rs).  A    *)
(* call advances the caller past itself and pushes a frame that remembers  *)
(* the register its result goes to; Return writes it there.  A frame's     *)
(* vectors come from a pool of those of returned frames.  A runtime        *)
(* function cannot end the interpreter: it leaves a request in             *)
(* PENDING_TRAP, which call_runtime takes out when the function returns.   *)
(***************************************************************************)
EXTENDS Naturals, Sequences, SequencesExt

CONSTANTS Program, Regs, Data, Default, MaxDepth,
          Void        \* the value of a register nothing was written to

VARIABLES stack,      \* call_stack
          pool,       \* frame_pool
          pending,    \* PENDING_TRAP
          ffi,        \* the value the runtime function in progress returned
          outcome

vars == <<stack, pool, pending, ffi, outcome>>

IR == INSTANCE CallSpec
NoReg == IR!NoReg

ASSUME CallAssumption ==
  IR!WellFormed /\ Void \notin IR!Values /\ "none" \notin Data

Top == IR!Top
Inst == IR!Inst

None == "none"
AtInst(op) == ffi = None /\ pending = None /\ IR!AtInst(op)
AtTerm(op) == ffi = None /\ pending = None /\ IR!AtTerm(op)

Quiet == UNCHANGED <<pool, pending, ffi>>

-----------------------------------------------------------------------------
(* push_frame.                                                             *)
Buffer == IF pool = <<>> THEN [regs |-> [r \in Regs |-> Void], locals |-> <<>>] ELSE Last(pool)
PoolLeft == IF pool = <<>> THEN pool ELSE Front(pool)

Cleared(buffer) == [regs |-> [r \in Regs |-> Void], locals |-> <<>>]

\* Parameters are Void until the arguments are bound, the rest default.
Fresh(f) ==
  [l \in 1..Program[f].locals |-> IF l <= Program[f].params THEN Void ELSE Default]

Frame(f, args, return) ==
  LET buffer == Cleared(Buffer)
      locals == buffer.locals \o Fresh(f)
  IN [func |-> f, block |-> 1, pc |-> 1, return |-> return, regs |-> buffer.regs,
      locals |-> [l \in DOMAIN locals |-> IF l \in DOMAIN args THEN args[l] ELSE locals[l]]]

Init ==
  /\ pool = <<>>
  /\ stack = <<Frame(IR!Main, <<>>, NoReg)>>
  /\ pending = None
  /\ ffi = None
  /\ outcome = "running"

Full == Len(stack) >= MaxDepth

ReadArgs(args) == [n \in DOMAIN args |-> Top.regs[args[n]]]

\* (A slip: the new frame's pc is advanced in place of the caller's.)
PushedAdvanced(f) ==
  Append(stack, [Frame(f, ReadArgs(Inst.args), Inst.result) EXCEPT !.pc = @ + 1])

\* The caller's pc moves past the call before the callee runs.
Pushed(f) ==
  Append(IR!Replace([Top EXCEPT !.pc = @ + 1]), Frame(f, ReadArgs(Inst.args), Inst.result))

Dispatch(f) ==
  IF Full THEN IR!End("failed") /\ UNCHANGED pool
  ELSE stack' = Pushed(f) /\ pool' = PoolLeft /\ UNCHANGED outcome

-----------------------------------------------------------------------------
Const == AtInst("const") /\ IR!Const /\ Quiet
LoadLocal == AtInst("load") /\ IR!LoadLocal /\ Quiet
StoreLocal == AtInst("store") /\ IR!StoreLocal /\ Quiet

Call ==
  /\ AtInst("call")
  /\ Dispatch(Inst.callee)
  /\ UNCHANGED <<pending, ffi>>

\* Null and a value that is no function pointer both end the program.
CallIndirect ==
  /\ AtInst("indirect")
  /\ LET f == Top.regs[Inst.callee]
     IN IF f \in IR!Funcs THEN Dispatch(f) ELSE IR!End("failed") /\ UNCHANGED pool
  /\ UNCHANGED <<pending, ffi>>

\* The C function runs: it returns a value, with or without a request left
\* in the slot.
CallRuntime ==
  /\ AtInst("runtime")
  /\ ffi' \in Data
  /\ pending' \in {None, "exited", "failed"}
  /\ UNCHANGED <<stack, pool, outcome>>

\* (A slip: the result is stored and the request is dropped.)
DrainValueOnly ==
  /\ ffi # None
  /\ IR!Continue(Inst.result, ffi)
  /\ pending' = None /\ ffi' = None
  /\ UNCHANGED pool

\* call_runtime takes the request, or hands the value to exec_loop.
Drain ==
  /\ ffi # None
  /\ IF pending # None THEN IR!End(pending) ELSE IR!Continue(Inst.result, ffi)
  /\ pending' = None /\ ffi' = None
  /\ UNCHANGED pool

Branch == AtTerm("branch") /\ IR!Branch /\ Quiet

Written(frame, result, v) ==
  IF result = NoReg THEN frame ELSE [frame EXCEPT !.regs[result] = v]

Return ==
  /\ AtTerm("return")
  /\ LET result == IF IR!Term.from = NoReg THEN Void ELSE Top.regs[IR!Term.from]
         callers == Front(stack)
     IN /\ pool' = Append(pool, [regs |-> Top.regs, locals |-> Top.locals])
        /\ IF callers = <<>> THEN stack' = <<>> /\ outcome' = "exited"
           ELSE /\ stack' = Append(Front(callers), Written(Last(callers), Top.return, result))
                /\ UNCHANGED outcome
  /\ UNCHANGED <<pending, ffi>>

Halt == AtTerm("halt") /\ IR!Halt /\ Quiet
Trap == AtTerm("trap") /\ IR!Trap /\ Quiet

Next ==
  \/ Const \/ LoadLocal \/ StoreLocal \/ Call \/ CallIndirect \/ CallRuntime \/ Drain
  \/ Branch \/ Return \/ Halt \/ Trap

Spec == Init /\ [][Next]_vars

-----------------------------------------------------------------------------
(***************************************************************************)
(* Properties.                                                             *)
(***************************************************************************)
Slots == IR!Values \cup {Void}

\* Every frame has the locals of its function, and no more than
\* MAX_CALL_DEPTH frames are on the stack (push_frame).
TypeOK ==
  /\ Len(stack) <= MaxDepth
  /\ \A n \in DOMAIN stack :
       /\ stack[n].regs \in [Regs -> Slots]
       /\ stack[n].locals \in [1..Program[stack[n].func].locals -> Slots]
       /\ stack[n].pc \in 1..(Len(IR!Block(stack[n]).insts) + 1)
       /\ stack[n].return \in Regs \cup {NoReg}
  /\ ffi \in Data \cup {None} /\ pending \in {None, "exited", "failed"}
  /\ outcome \in {"running", "exited", "failed"}

\* A waiting frame stands one past the call that pushed the frame above it, and
\* that frame returns into the register this call names: what exec_loop asserts
\* of `pc - 1` when it fires the deferred after_inst.
CallsNested ==
  \A n \in 1..(Len(stack) - 1) :
    /\ stack[n].pc > 1
    /\ LET call == IR!Block(stack[n]).insts[stack[n].pc - 1]
       IN /\ call.op \in {"call", "indirect"}
          /\ call.result = stack[n + 1].return
          /\ call.op = "call" => call.callee = stack[n + 1].func

\* The interpreter does what the compiled program does: a reused frame shows
\* nothing of the one before it, a result reaches its own caller's register,
\* and no instruction runs after a request to end the program.  A register
\* that holds Void stands for the default.
Shown(v) == IF v = Void THEN Default ELSE v
Activation(n) ==
  LET frame == stack[n]
  IN [func |-> frame.func, block |-> frame.block,
      pc |-> IF n < Len(stack) THEN frame.pc - 1 ELSE frame.pc,
      regs |-> [r \in Regs |-> Shown(frame.regs[r])],
      locals |-> [l \in DOMAIN frame.locals |-> Shown(frame.locals[l])]]
Activations == [n \in DOMAIN stack |-> Activation(n)]
Compiled == INSTANCE CallSpec WITH
              stack <- Activations,
              outcome <- IF pending # None THEN pending ELSE outcome
Refines == Compiled!Spec
=============================================================================
