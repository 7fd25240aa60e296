------------------------- MODULE InterpCalls_proofs -------------------------
(***************************************************************************)
(* For every program, register set and depth limit: what the run of        *)
(* InterpCalls checks.  The inductive invariant is the frames' types, the  *)
(* nesting of calls, and that a request to end the program is in the slot  *)
(* only while the runtime function that made it is being executed.         *)
(***************************************************************************)
EXTENDS InterpCalls, SequenceTheorems, TLAPS

FrameOf(f) ==
  [func : {f}, block : DOMAIN Program[f].blocks, pc : Nat, return : Regs \cup {NoReg},
   regs : [Regs -> Slots], locals : [1..Program[f].locals -> Slots]]

Frames == UNION {FrameOf(f) : f \in IR!Funcs}

\* The frame stands at an instruction of its block or at its terminator.
InBlock(frame) == frame.pc \in 1..(Len(IR!Block(frame).insts) + 1)

StackTyped ==
  /\ stack \in Seq(Frames)
  /\ \A n \in DOMAIN stack : InBlock(stack[n])
  /\ Len(stack) <= MaxDepth

OutcomeTyped ==
  /\ outcome \in {"running", "exited", "failed"}
  /\ outcome = "running" => stack # <<>>

\* A value or a request waits for call_runtime, which stands at the call.
TrapSlot ==
  /\ ffi \in Data \cup {None} /\ pending \in {None, "exited", "failed"}
  /\ pending # None => ffi # None
  /\ ffi # None => IR!AtInst("runtime")

IInv == StackTyped /\ OutcomeTyped /\ TrapSlot /\ CallsNested

-----------------------------------------------------------------------------
(* Sequences used as stacks.                                               *)
LEMMA Popped ==
  ASSUME NEW S, NEW s \in Seq(S), s # <<>>
  PROVE  /\ Front(s) \in Seq(S) /\ Len(Front(s)) = Len(s) - 1
         /\ \A n \in 1..(Len(s) - 1) : Front(s)[n] = s[n]
         /\ Last(s) = s[Len(s)] /\ Last(s) \in S /\ Len(s) \in Nat \ {0}
<1>1. Len(s) \in Nat \ {0} /\ \A n \in 1..Len(s) : s[n] \in S
  BY EmptySeq, ElementOfSeq
<1>2. SubSeq(s, 1, Len(s) - 1) \in Seq(S) /\ Len(SubSeq(s, 1, Len(s) - 1)) = Len(s) - 1
      /\ \A n \in 1..(Len(s) - 1) : SubSeq(s, 1, Len(s) - 1)[n] = s[n]
  <2> DEFINE m == Len(s) - 1
  <2>1. m \in Nat /\ m = Len(s) - 1
    BY <1>1
  <2>2. m \in Int /\ 1 \in Int /\ \A i \in 1..m : s[i] \in S
    BY <1>1
  <2> HIDE DEF m
  <2>3. /\ SubSeq(s, 1, m) \in Seq(S)
        /\ Len(SubSeq(s, 1, m)) = IF 1 <= m THEN m - 1 + 1 ELSE 0
        /\ \A i \in 1..(m - 1 + 1) : SubSeq(s, 1, m)[i] = s[1 + i - 1]
    BY <2>2, SubSeqProperties
  <2>4. Len(SubSeq(s, 1, m)) = m
    BY <2>1, <2>3
  <2>5. \A n \in 1..m : SubSeq(s, 1, m)[n] = s[n]
    BY <2>1, <2>3
  <2> QED BY <2>1, <2>3, <2>4, <2>5
<1> QED BY <1>1, <1>2 DEF Front, Last

LEMMA Replaced ==
  ASSUME NEW S, NEW s \in Seq(S), s # <<>>, NEW e \in S
  PROVE  /\ Append(Front(s), e) \in Seq(S) /\ Len(Append(Front(s), e)) = Len(s)
         /\ \A n \in 1..Len(s) : Append(Front(s), e)[n] = IF n = Len(s) THEN e ELSE s[n]
BY Popped

-----------------------------------------------------------------------------
(* What a typed stack says of the instruction it stands at.                *)
LEMMA BlockTyped ==
  ASSUME NEW frame \in Frames
  PROVE  /\ frame.func \in IR!Funcs /\ frame.block \in DOMAIN Program[frame.func].blocks
         /\ IR!Block(frame) \in [insts : Seq(IR!Insts), term : IR!Terminators]
<1>1. PICK f \in IR!Funcs : frame \in FrameOf(f)
  BY DEF Frames
<1>2. Program[f] \in IR!Function
  BY CallAssumption DEF IR!WellFormed
<1>3. frame.func = f /\ frame.block \in DOMAIN Program[f].blocks
  BY <1>1 DEF FrameOf
<1>4. Program[f].blocks[frame.block] \in [insts : Seq(IR!Insts), term : IR!Terminators]
  <2> DEFINE BlockType == [insts : Seq(IR!Insts), term : IR!Terminators]
  <2>1. Program[f].blocks \in Seq(BlockType)
    BY <1>2 DEF IR!Function
  <2> HIDE DEF BlockType
  <2>2. frame.block \in 1..Len(Program[f].blocks)
    BY <1>3, <2>1
  <2>3. Program[f].blocks[frame.block] \in BlockType
    BY <2>1, <2>2, ElementOfSeq
  <2> QED BY <2>3 DEF BlockType
<1> QED BY <1>3, <1>4 DEF IR!Block

LEMMA TopTyped ==
  ASSUME StackTyped, stack # <<>>
  PROVE  /\ Top \in Frames /\ Top = stack[Len(stack)] /\ Len(stack) \in Nat \ {0}
         /\ Top \in FrameOf(Top.func) /\ Top.func \in IR!Funcs /\ InBlock(Top)
         /\ IR!Block(Top) \in [insts : Seq(IR!Insts), term : IR!Terminators]
<1>1. Top \in Frames /\ Top = stack[Len(stack)] /\ Len(stack) \in Nat \ {0}
  <2>1. stack \in Seq(Frames)
    BY DEF StackTyped
  <2> QED BY <2>1, Popped DEF Top, IR!Top, IR!Last, Last
<1>2. Top \in FrameOf(Top.func) /\ Top.func \in IR!Funcs
  BY <1>1 DEF Frames, FrameOf
<1> QED BY <1>1, <1>2, BlockTyped DEF StackTyped

LEMMA InstTyped ==
  ASSUME StackTyped, OutcomeTyped, NEW op, IR!AtInst(op)
  PROVE  /\ Inst \in IR!Insts /\ Inst.op = op /\ stack # <<>>
         /\ Top.pc \in 1..Len(IR!Block(Top).insts)
         /\ op \in {"load", "store"} => Inst.local \in 1..Program[Top.func].locals
<1>1. stack # <<>>
  BY DEF OutcomeTyped, IR!AtInst
<1>2. Top.pc \in 1..Len(IR!Block(Top).insts)
  BY <1>1, TopTyped DEF IR!AtInst, InBlock, Top, IR!Top
<1>3. Inst \in IR!Insts /\ Inst.op = op
  BY <1>1, <1>2, TopTyped, ElementOfSeq, SMTT(30) DEF IR!AtInst, IR!Inst, Inst, Top
<1>4. ASSUME op \in {"load", "store"} PROVE Inst.local \in 1..Program[Top.func].locals
  <2>1. Top.block \in DOMAIN Program[Top.func].blocks /\ Top.func \in IR!Funcs
    BY <1>1, TopTyped DEF FrameOf
  <2>2. Top.pc \in DOMAIN Program[Top.func].blocks[Top.block].insts
    BY <1>1, <1>2, TopTyped DEF IR!Block
  <2>3. Inst = Program[Top.func].blocks[Top.block].insts[Top.pc]
    BY DEF Inst, IR!Inst, Top, IR!Block
  <2> QED BY <1>3, <1>4, <2>1, <2>2, <2>3, CallAssumption DEF IR!WellFormed
<1> QED BY <1>1, <1>2, <1>3, <1>4

-----------------------------------------------------------------------------
(* The activations a stack of frames stands for.                           *)
Shape(frame, pc) ==
  [func |-> frame.func, block |-> frame.block, pc |-> pc,
   regs |-> [r \in Regs |-> Shown(frame.regs[r])],
   locals |-> [l \in DOMAIN frame.locals |-> Shown(frame.locals[l])]]

Shapes == {Shape(frame, pc) : frame \in Frames, pc \in Int}

Of(s) == [n \in DOMAIN s |-> Shape(s[n], IF n < Len(s) THEN s[n].pc - 1 ELSE s[n].pc)]

LEMMA FrameFields ==
  ASSUME NEW frame \in Frames
  PROVE  /\ frame.func \in IR!Funcs /\ frame \in FrameOf(frame.func)
         /\ frame.pc \in Nat /\ frame.regs \in [Regs -> Slots]
         /\ frame.locals \in [1..Program[frame.func].locals -> Slots]
BY DEF Frames, FrameOf

LEMMA ActivationsOf == Activations = Of(stack) /\ Activations' = Of(stack')
BY DEF Activations, Activation, Of, Shape

LEMMA OfSeq ==
  ASSUME NEW s \in Seq(Frames)
  PROVE  /\ Of(s) \in Seq(Shapes) /\ Len(Of(s)) = Len(s) /\ Len(s) \in Nat
         /\ \A n \in 1..Len(s) :
              Of(s)[n] = Shape(s[n], IF n < Len(s) THEN s[n].pc - 1 ELSE s[n].pc)
<1> DEFINE at(n) == Shape(s[n], IF n < Len(s) THEN s[n].pc - 1 ELSE s[n].pc)
<1>1. Len(s) \in Nat /\ DOMAIN s = 1..Len(s)
  BY LenProperties
<1>2. ASSUME NEW n \in 1..Len(s) PROVE at(n) \in Shapes
  <2>1. s[n] \in Frames
    BY ElementOfSeq
  <2> QED BY <2>1, FrameFields DEF Shapes
<1>3. Of(s) = [n \in 1..Len(s) |-> at(n)]
  BY <1>1 DEF Of
<1> HIDE DEF at
<1>4. Of(s) \in [1..Len(s) -> Shapes]
  BY <1>2, <1>3
<1>5. Of(s) \in Seq(Shapes)
  BY <1>1, <1>4, SeqDef
<1>6. Len(Of(s)) = Len(s)
  BY <1>1, <1>4, <1>5, LenProperties
<1> QED BY <1>1, <1>3, <1>5, <1>6 DEF at

LEMMA OfReplaced ==
  ASSUME NEW s \in Seq(Frames), s # <<>>, NEW e \in Frames
  PROVE  Of(Append(Front(s), e)) = Append(Front(Of(s)), Shape(e, e.pc))
<1> DEFINE t == Append(Front(s), e)
           u == Append(Front(Of(s)), Shape(e, e.pc))
<1>1. t \in Seq(Frames) /\ Len(t) = Len(s) /\ Len(s) \in Nat \ {0}
      /\ \A n \in 1..Len(s) : t[n] = IF n = Len(s) THEN e ELSE s[n]
  BY Popped, Replaced
<1>2. Of(s) \in Seq(Shapes) /\ Len(Of(s)) = Len(s) /\ Of(s) # <<>>
      /\ \A n \in 1..Len(s) :
           Of(s)[n] = Shape(s[n], IF n < Len(s) THEN s[n].pc - 1 ELSE s[n].pc)
  BY <1>1, OfSeq, EmptySeq
<1>3. Shape(e, e.pc) \in Shapes
  BY FrameFields DEF Shapes
<1>4. u \in Seq(Shapes) /\ Len(u) = Len(s)
      /\ \A n \in 1..Len(s) : u[n] = IF n = Len(s) THEN Shape(e, e.pc) ELSE Of(s)[n]
  BY <1>2, <1>3, Replaced
<1>5. Of(t) \in Seq(Shapes) /\ Len(Of(t)) = Len(s)
      /\ \A n \in 1..Len(s) :
           Of(t)[n] = Shape(t[n], IF n < Len(s) THEN t[n].pc - 1 ELSE t[n].pc)
  BY <1>1, OfSeq
<1> HIDE DEF t, u
<1>6. \A n \in 1..Len(s) : Of(t)[n] = u[n]
  BY <1>1, <1>2, <1>4, <1>5
<1>7. Of(t) = u
  BY <1>4, <1>5, <1>6, SeqEqual
<1> QED BY <1>7 DEF t, u

LEMMA OfPushed ==
  ASSUME NEW s \in Seq(Frames), s # <<>>, NEW e \in Frames
  PROVE  Of(Append(Append(Front(s), [Last(s) EXCEPT !.pc = @ + 1]), e))
           = Append(Of(s), Shape(e, e.pc))
<1> DEFINE c == [Last(s) EXCEPT !.pc = @ + 1]
           b == Append(Front(s), c)
           t == Append(b, e)
           u == Append(Of(s), Shape(e, e.pc))
<1>0. Last(s) = s[Len(s)] /\ Last(s) \in Frames /\ Len(s) \in Nat \ {0}
  BY Popped
<1>1. c \in Frames /\ c.pc = Last(s).pc + 1 /\ Shape(c, c.pc - 1) = Shape(Last(s), Last(s).pc)
  <2>1. Last(s) \in FrameOf(Last(s).func) /\ Last(s).func \in IR!Funcs /\ Last(s).pc \in Nat
    BY <1>0, FrameFields
  <2>2. c \in FrameOf(Last(s).func) /\ c.pc = Last(s).pc + 1
    BY <2>1, SMTT(30) DEF FrameOf
  <2>3. c.func = Last(s).func /\ c.block = Last(s).block /\ c.regs = Last(s).regs
        /\ c.locals = Last(s).locals
    BY <2>1 DEF FrameOf
  <2> QED BY <2>1, <2>2, <2>3 DEF Frames, Shape
<1> HIDE DEF c
<1>2. b \in Seq(Frames) /\ Len(b) = Len(s)
      /\ \A n \in 1..Len(s) : b[n] = IF n = Len(s) THEN c ELSE s[n]
  BY <1>1, Replaced
<1> HIDE DEF b
<1>3. t \in Seq(Frames) /\ Len(t) = Len(s) + 1
      /\ \A n \in 1..(Len(s) + 1) : t[n] = IF n = Len(s) + 1 THEN e ELSE b[n]
  BY <1>0, <1>2
<1> HIDE DEF t
<1>4. Of(s) \in Seq(Shapes) /\ Len(Of(s)) = Len(s)
      /\ \A n \in 1..Len(s) :
           Of(s)[n] = Shape(s[n], IF n < Len(s) THEN s[n].pc - 1 ELSE s[n].pc)
  BY OfSeq
<1>5. Shape(e, e.pc) \in Shapes
  BY FrameFields DEF Shapes
<1>6. u \in Seq(Shapes) /\ Len(u) = Len(s) + 1
      /\ \A n \in 1..(Len(s) + 1) :
           u[n] = IF n = Len(s) + 1 THEN Shape(e, e.pc) ELSE Of(s)[n]
  BY <1>0, <1>4, <1>5
<1> HIDE DEF u
<1>7. Of(t) \in Seq(Shapes) /\ Len(Of(t)) = Len(s) + 1
      /\ \A n \in 1..(Len(s) + 1) :
           Of(t)[n] = Shape(t[n], IF n < Len(s) + 1 THEN t[n].pc - 1 ELSE t[n].pc)
  BY <1>3, OfSeq
<1>8. ASSUME NEW n \in 1..(Len(s) + 1) PROVE Of(t)[n] = u[n]
  <2>1. CASE n = Len(s) + 1
    BY <1>0, <1>3, <1>6, <1>7, <2>1
  <2>2. CASE n = Len(s)
    BY <1>0, <1>1, <1>2, <1>3, <1>4, <1>6, <1>7, <2>2
  <2>3. CASE n < Len(s)
    BY <1>0, <1>2, <1>3, <1>4, <1>6, <1>7, <2>3, SMTT(30)
  <2> QED BY <1>0, <2>1, <2>2, <2>3
<1>9. Of(t) = u
  BY <1>6, <1>7, <1>8, SeqEqual
<1> QED BY <1>9 DEF c, b, t, u

LEMMA OfReturned ==
  ASSUME NEW s \in Seq(Frames), Front(s) # <<>>, NEW w \in Frames,
         s # <<>>, w.pc = Last(Front(s)).pc
  PROVE  /\ Front(Of(s)) # <<>>
         /\ Last(Front(Of(s))) = Shape(Last(Front(s)), Last(Front(s)).pc - 1)
         /\ Of(Append(Front(Front(s)), w)) = Append(Front(Front(Of(s))), Shape(w, w.pc))
<1> DEFINE c == Front(s)
           a == Front(Of(s))
           t == Append(Front(c), w)
           u == Append(Front(a), Shape(w, w.pc))
<1>1. Len(s) \in Nat \ {0} /\ c \in Seq(Frames) /\ Len(c) = Len(s) - 1
      /\ \A n \in 1..(Len(s) - 1) : c[n] = s[n]
  BY Popped
<1>2. Len(c) \in Nat \ {0} /\ Last(c) = c[Len(c)]
  BY <1>1, Popped
<1>3. t \in Seq(Frames) /\ Len(t) = Len(c)
      /\ \A n \in 1..Len(c) : t[n] = IF n = Len(c) THEN w ELSE c[n]
  BY <1>1, Replaced
<1>4. Of(s) \in Seq(Shapes) /\ Len(Of(s)) = Len(s) /\ Of(s) # <<>>
      /\ \A n \in 1..Len(s) :
           Of(s)[n] = Shape(s[n], IF n < Len(s) THEN s[n].pc - 1 ELSE s[n].pc)
  BY <1>1, OfSeq, EmptySeq
<1>5. a \in Seq(Shapes) /\ Len(a) = Len(c)
      /\ \A n \in 1..Len(c) : a[n] = Shape(s[n], s[n].pc - 1)
  <2>1. a \in Seq(Shapes) /\ Len(a) = Len(s) - 1 /\ \A n \in 1..(Len(s) - 1) : a[n] = Of(s)[n]
    BY <1>4, Popped
  <2> HIDE DEF a, c
  <2> QED BY <1>1, <1>4, <2>1, SMTT(30)
<1>6. a # <<>> /\ Last(a) = a[Len(a)]
  BY <1>2, <1>5, EmptySeq, Popped
<1>7. Shape(w, w.pc) \in Shapes
  BY FrameFields DEF Shapes
<1>8. u \in Seq(Shapes) /\ Len(u) = Len(c)
      /\ \A n \in 1..Len(c) : u[n] = IF n = Len(c) THEN Shape(w, w.pc) ELSE a[n]
  BY <1>5, <1>6, <1>7, Replaced
<1>9. Of(t) \in Seq(Shapes) /\ Len(Of(t)) = Len(c)
      /\ \A n \in 1..Len(c) :
           Of(t)[n] = Shape(t[n], IF n < Len(c) THEN t[n].pc - 1 ELSE t[n].pc)
  BY <1>3, OfSeq
<1> HIDE DEF a, c, t, u
<1>10. ASSUME NEW n \in 1..Len(c) PROVE Of(t)[n] = u[n]
  <2>1. CASE n = Len(c)
    BY <1>2, <1>3, <1>8, <1>9, <2>1
  <2>2. CASE n < Len(c)
    <3>1. n \in 1..(Len(s) - 1) /\ n # Len(c) /\ c[n] = s[n] /\ t[n] = c[n]
      BY <1>1, <1>2, <1>3, <2>2
    <3>2. Of(t)[n] = Shape(t[n], t[n].pc - 1) /\ u[n] = a[n] /\ a[n] = Shape(s[n], s[n].pc - 1)
      BY <1>5, <1>8, <1>9, <2>2, <3>1
    <3> QED BY <3>1, <3>2
  <2> QED BY <1>2, <2>1, <2>2
<1>11. Of(t) = u
  BY <1>8, <1>9, <1>10, SeqEqual
<1>12. Last(a) = Shape(Last(c), Last(c).pc - 1)
  BY <1>1, <1>2, <1>5, <1>6
<1> QED BY <1>6, <1>11, <1>12 DEF a, c, t, u

-----------------------------------------------------------------------------
(* Both machines stand at the same instruction.                            *)
LEMMA SameTop ==
  ASSUME StackTyped, stack # <<>>
  PROVE  /\ Compiled!Top = Shape(Top, Top.pc) /\ Compiled!Block(Compiled!Top) = IR!Block(Top)
         /\ Compiled!Inst = Inst /\ Compiled!Term = IR!Term
<1>1. Of(stack) \in Seq(Shapes) /\ Len(Of(stack)) = Len(stack) /\ Len(stack) \in Nat \ {0}
      /\ Of(stack)[Len(stack)] = Shape(stack[Len(stack)], stack[Len(stack)].pc)
  BY OfSeq, TopTyped DEF StackTyped
<1>2. Compiled!Top = Shape(Top, Top.pc)
  BY <1>1, ActivationsOf, TopTyped DEF Compiled!Top, Compiled!Last
<1>3. Compiled!Top.func = Top.func /\ Compiled!Top.block = Top.block /\ Compiled!Top.pc = Top.pc
  BY <1>2 DEF Shape
<1> QED BY <1>2, <1>3 DEF Compiled!Block, Compiled!Inst, Compiled!Term, IR!Block, IR!Inst, IR!Term, Top, Inst

LEMMA SameAt ==
  ASSUME StackTyped, OutcomeTyped, pending = None
  PROVE  /\ \A op : IR!AtInst(op) => Compiled!AtInst(op)
         /\ \A op : IR!AtTerm(op) => Compiled!AtTerm(op)
<1>1. SUFFICES ASSUME outcome = "running"
               PROVE  /\ \A op : IR!AtInst(op) => Compiled!AtInst(op)
                      /\ \A op : IR!AtTerm(op) => Compiled!AtTerm(op)
  BY DEF IR!AtInst, IR!AtTerm
<1>2. Compiled!Top.pc = Top.pc /\ Compiled!Block(Compiled!Top) = IR!Block(Top)
      /\ Compiled!Inst = Inst /\ Compiled!Term = IR!Term
  BY <1>1, SameTop DEF OutcomeTyped, Shape
<1> QED BY <1>1, <1>2 DEF Compiled!AtInst, Compiled!AtTerm, IR!AtInst, IR!AtTerm, Top, Inst

\* A frame and the frame its call pushed.
Nested(caller, callee) ==
  /\ caller.pc > 1
  /\ IR!Block(caller).insts[caller.pc - 1].op \in {"call", "indirect"}
  /\ IR!Block(caller).insts[caller.pc - 1].result = callee.return
  /\ IR!Block(caller).insts[caller.pc - 1].op = "call" =>
       IR!Block(caller).insts[caller.pc - 1].callee = callee.func

LEMMA NestedCalls ==
  /\ CallsNested <=> \A n \in 1..(Len(stack) - 1) : Nested(stack[n], stack[n + 1])
  /\ CallsNested' <=> \A n \in 1..(Len(stack') - 1) : Nested(stack'[n], stack'[n + 1])
BY DEF CallsNested, Nested, IR!Block

\* The running frame is replaced by another of the same call.
LEMMA TopReplaced ==
  ASSUME StackTyped, CallsNested, stack # <<>>, NEW e \in FrameOf(Top.func), InBlock(e),
         e.return = Top.return, stack' = IR!Replace(e)
  PROVE  /\ StackTyped' /\ CallsNested' /\ stack' # <<>>
         /\ Activations' = Compiled!Replace(Shape(e, e.pc))
<1>1. e \in Frames /\ Top.func \in IR!Funcs /\ stack \in Seq(Frames) /\ e.func = Top.func
  BY TopTyped DEF Frames, FrameOf, StackTyped
<1>2. stack' = Append(Front(stack), e)
  BY DEF IR!Replace, IR!Front, Front
<1>3. stack' \in Seq(Frames) /\ Len(stack') = Len(stack) /\ Len(stack) \in Nat \ {0}
      /\ \A n \in 1..Len(stack) : stack'[n] = IF n = Len(stack) THEN e ELSE stack[n]
  BY <1>1, <1>2, Replaced, Popped
<1>4. StackTyped' /\ stack' # <<>>
  <2>1. \A n \in DOMAIN stack' : InBlock(stack'[n])
    BY <1>1, <1>3 DEF StackTyped
  <2>2. stack' # <<>>
    BY <1>3, EmptySeq
  <2> QED BY <1>1, <1>3, <2>1, <2>2 DEF StackTyped, InBlock
<1>5. CallsNested'
  <2>1. Top = stack[Len(stack)]
    BY TopTyped
  <2>2. \A n \in 1..(Len(stack) - 1) : stack'[n] = stack[n]
          /\ stack'[n + 1].return = stack[n + 1].return /\ stack'[n + 1].func = stack[n + 1].func
    BY <1>1, <1>3, <2>1
  <2>3. ASSUME NEW n \in 1..(Len(stack') - 1)
        PROVE  Nested(stack'[n], stack'[n + 1])
    <3>1. n \in 1..(Len(stack) - 1)
      BY <1>3
    <3>2. Nested(stack[n], stack[n + 1])
      BY <3>1, NestedCalls
    <3>3. stack'[n] = stack[n] /\ stack'[n + 1].return = stack[n + 1].return
          /\ stack'[n + 1].func = stack[n + 1].func
      BY <2>2, <3>1
    <3> QED BY <3>2, <3>3 DEF Nested
  <2> QED BY <2>3, NestedCalls
<1>6. Activations' = Compiled!Replace(Shape(e, e.pc))
  BY <1>1, <1>2, OfReplaced, ActivationsOf DEF Compiled!Replace, Compiled!Front, Front
<1> QED BY <1>4, <1>5, <1>6

\* A frame stays one of its function's when its pc and its registers change.
MovedTo(frame, pc, regs) == [frame EXCEPT !.pc = pc, !.regs = regs]

LEMMA Moved ==
  ASSUME NEW f, NEW frame \in FrameOf(f), NEW pc \in Nat, NEW regs \in [Regs -> Slots]
  PROVE  LET e == MovedTo(frame, pc, regs)
         IN /\ e \in FrameOf(f) /\ e.pc = pc /\ e.return = frame.return
            /\ e.func = f /\ e.block = frame.block /\ e.locals = frame.locals
            /\ e.regs = regs
            /\ \A n : Shape(e, e.pc) = MovedTo(Shape(frame, n), pc, [q \in Regs |-> Shown(regs[q])])
<1> DEFINE e == MovedTo(frame, pc, regs)
<1>1. /\ e.pc = pc /\ e.return = frame.return /\ e.func = frame.func
      /\ e.block = frame.block /\ e.locals = frame.locals /\ e.regs = regs
  BY DEF FrameOf, MovedTo
<1>2. e \in FrameOf(f)
  BY DEF FrameOf, MovedTo
<1> HIDE DEF e
<1>3. ASSUME NEW n
      PROVE  Shape(e, pc) = MovedTo(Shape(frame, n), pc, [q \in Regs |-> Shown(regs[q])])
  <2> DEFINE new == [q \in Regs |-> Shown(regs[q])]
             old == [q \in Regs |-> Shown(frame.regs[q])]
             locals == [l \in DOMAIN frame.locals |-> Shown(frame.locals[l])]
             Kind == [func : {frame.func}, block : {frame.block}, pc : {n, pc},
                      regs : {old, new}, locals : {locals}]
             x == Shape(frame, n)
             moved == [x EXCEPT !.pc = pc, !.regs = new]
  <2>1. Shape(e, pc) = [func |-> frame.func, block |-> frame.block, pc |-> pc,
                        regs |-> new, locals |-> locals]
    BY <1>1 DEF Shape
  <2>2. x = [func |-> frame.func, block |-> frame.block, pc |-> n,
             regs |-> old, locals |-> locals]
    BY DEF Shape
  <2> HIDE DEF new, old, locals, x
  <2>3. x \in Kind
    BY <2>2
  <2>4. moved \in Kind /\ moved.pc = pc /\ moved.regs = new
    BY <2>3
  <2>5. Shape(e, pc) \in Kind /\ Shape(e, pc).pc = pc /\ Shape(e, pc).regs = new
    BY <2>1
  <2> HIDE DEF moved
  <2>6. Shape(e, pc) = moved
    BY <2>4, <2>5
  <2> QED BY <2>6 DEF new, moved, x, MovedTo
<1> QED BY <1>1, <1>2, <1>3 DEF FrameOf, e

\* The instruction's result is bound and the frame goes on.
LEMMA Continued ==
  ASSUME StackTyped, OutcomeTyped, CallsNested, NEW op, IR!AtInst(op),
         NEW v \in Slots, NEW r \in Regs \cup {NoReg}, IR!Continue(r, v)
  PROVE  /\ StackTyped' /\ CallsNested' /\ stack' # <<>>
         /\ Activations' = Compiled!Replace(Compiled!Bound(Compiled!Top, r, Shown(v)))
<1> DEFINE e == IR!Bound(Top, r, v)
<1>1. stack # <<>> /\ Top.pc \in 1..Len(IR!Block(Top).insts)
  BY InstTyped
<1>2. Top \in FrameOf(Top.func) /\ Compiled!Top = Shape(Top, Top.pc)
      /\ IR!Block(Top) \in [insts : Seq(IR!Insts), term : IR!Terminators]
  BY <1>1, TopTyped, SameTop
<1>3. /\ e \in FrameOf(Top.func) /\ e.pc = Top.pc + 1 /\ e.return = Top.return
      /\ e.func = Top.func /\ e.block = Top.block /\ e.locals = Top.locals
      /\ e.regs = (IF r = NoReg THEN Top.regs ELSE [Top.regs EXCEPT ![r] = v])
      /\ Shape(e, e.pc) = MovedTo(Compiled!Top, Top.pc + 1, [q \in Regs |-> Shown(e.regs[q])])
  <2> DEFINE regs == IF r = NoReg THEN Top.regs ELSE [Top.regs EXCEPT ![r] = v]
  <2>1. regs \in [Regs -> Slots]
    BY <1>2 DEF FrameOf
  <2>2. e = MovedTo(Top, Top.pc + 1, regs)
    BY DEF IR!Bound, NoReg, MovedTo
  <2> HIDE DEF regs, e
  <2>3. /\ e \in FrameOf(Top.func) /\ e.pc = Top.pc + 1 /\ e.return = Top.return
        /\ e.func = Top.func /\ e.block = Top.block /\ e.locals = Top.locals /\ e.regs = regs
        /\ Shape(e, e.pc) = MovedTo(Compiled!Top, Top.pc + 1, [q \in Regs |-> Shown(regs[q])])
    <3>1. Top.pc + 1 \in Nat
      BY <1>2, FrameFields DEF Frames, FrameOf
    <3> DEFINE pc == Top.pc + 1
               m == MovedTo(Top, pc, regs)
    <3>2. e = m /\ pc \in Nat
      BY <2>2, <3>1
    <3> HIDE DEF pc
    <3>3. /\ m \in FrameOf(Top.func) /\ m.pc = pc /\ m.return = Top.return
          /\ m.func = Top.func /\ m.block = Top.block /\ m.locals = Top.locals /\ m.regs = regs
      BY <1>2, <2>1, <3>2, Moved
    <3>4. Shape(m, m.pc) = MovedTo(Shape(Top, Top.pc), pc, [q \in Regs |-> Shown(regs[q])])
      BY <1>2, <2>1, <3>2, Moved, SMTT(30)
    <3> HIDE DEF m
    <3> QED BY <1>2, <3>2, <3>3, <3>4 DEF pc
  <2> QED BY <2>3 DEF regs
<1>4. InBlock(e)
  <2>1. Len(IR!Block(Top).insts) \in Nat /\ IR!Block(e) = IR!Block(Top)
    BY <1>2, <1>3 DEF IR!Block
  <2> QED BY <1>1, <1>3, <2>1 DEF InBlock
<1>5. Shape(e, e.pc) = Compiled!Bound(Compiled!Top, r, Shown(v))
  <2>1. [q \in Regs |-> Shown(e.regs[q])]
          = IF r = NoReg THEN Compiled!Top.regs ELSE [Compiled!Top.regs EXCEPT ![r] = Shown(v)]
    BY <1>2, <1>3 DEF Shape, FrameOf
  <2>2. Compiled!Bound(Compiled!Top, r, Shown(v))
          = MovedTo(Compiled!Top, Compiled!Top.pc + 1, [q \in Regs |-> Shown(e.regs[q])])
    BY <2>1 DEF Compiled!Bound, NoReg, IR!NoReg, Compiled!NoReg, MovedTo
  <2> HIDE DEF e
  <2> QED BY <1>2, <1>3, <2>2 DEF Shape
<1>6. stack' = IR!Replace(e)
  BY DEF IR!Continue, Top
<1> QED BY <1>1, <1>3, <1>4, <1>5, <1>6, TopReplaced

StoredIn(frame, l, v) == [frame EXCEPT !.locals[l] = v, !.pc = @ + 1]

LEMMA Stored ==
  ASSUME NEW f, NEW frame \in FrameOf(f), NEW l \in 1..Program[f].locals, NEW v \in Slots
  PROVE  LET e == StoredIn(frame, l, v)
         IN /\ e \in FrameOf(f) /\ e.pc = frame.pc + 1 /\ e.return = frame.return
            /\ e.block = frame.block
            /\ Shape(e, e.pc) = StoredIn(Shape(frame, frame.pc), l, Shown(v))
<1> DEFINE e == StoredIn(frame, l, v)
           written == [frame.locals EXCEPT ![l] = v]
<1>1. frame.locals \in [1..Program[f].locals -> Slots] /\ written \in [1..Program[f].locals -> Slots]
      /\ frame.pc \in Nat /\ frame.func = f
  BY DEF FrameOf
<1>2. e = [frame EXCEPT !.locals = written, !.pc = frame.pc + 1]
  BY DEF StoredIn
<1> HIDE DEF written
<1>3. /\ e.pc = frame.pc + 1 /\ e.return = frame.return /\ e.func = frame.func
      /\ e.block = frame.block /\ e.regs = frame.regs /\ e.locals = written
  BY <1>1, <1>2 DEF FrameOf
<1>4. e \in FrameOf(f)
  <2> DEFINE Locals == [1..Program[f].locals -> Slots]
             pc == frame.pc + 1
             d == [frame EXCEPT !.locals = written, !.pc = pc]
  <2>1. written \in Locals /\ pc \in Nat
    BY <1>1
  <2>2. frame \in [func : {f}, block : DOMAIN Program[f].blocks, pc : Nat,
                   return : Regs \cup {NoReg}, regs : [Regs -> Slots], locals : Locals]
    BY DEF FrameOf
  <2> HIDE DEF Locals, pc
  <2>3. d \in [func : {f}, block : DOMAIN Program[f].blocks, pc : Nat,
               return : Regs \cup {NoReg}, regs : [Regs -> Slots], locals : Locals]
    BY <2>1, <2>2
  <2> QED BY <1>2, <2>3 DEF FrameOf, Locals, pc
<1> HIDE DEF e
<1>5. Shape(e, e.pc) = StoredIn(Shape(frame, frame.pc), l, Shown(v))
  <2> DEFINE old == [n \in DOMAIN frame.locals |-> Shown(frame.locals[n])]
             new == [n \in DOMAIN e.locals |-> Shown(e.locals[n])]
             regs == [r \in Regs |-> Shown(frame.regs[r])]
             pc == frame.pc + 1
             Kind == [func : {frame.func}, block : {frame.block}, pc : {frame.pc, pc},
                      regs : {regs}, locals : {old, new}]
             x == Shape(frame, frame.pc)
             y == Shape(e, e.pc)
             stored == [x EXCEPT !.locals = new, !.pc = pc]
  <2>1. y = [func |-> frame.func, block |-> frame.block, pc |-> pc,
             regs |-> regs, locals |-> new]
    BY <1>3 DEF Shape
  <2>2. x = [func |-> frame.func, block |-> frame.block, pc |-> frame.pc,
             regs |-> regs, locals |-> old]
    BY DEF Shape
  <2>3. new = [old EXCEPT ![l] = Shown(v)]
    BY <1>1, <1>3 DEF written
  <2> HIDE DEF new, old, regs, x, y, pc
  <2>4. x \in Kind /\ x.locals = old /\ x.pc = frame.pc
    BY <2>2
  <2>5. stored \in Kind /\ stored.pc = pc /\ stored.locals = new
    BY <2>4
  <2>6. y \in Kind /\ y.pc = pc /\ y.locals = new
    BY <2>1
  <2> HIDE DEF stored
  <2>7. y = stored
    BY <2>5, <2>6
  <2>8. stored = StoredIn(x, l, Shown(v))
    BY <2>3, <2>4 DEF stored, StoredIn, pc
  <2> QED BY <2>7, <2>8 DEF x, y
<1> QED BY <1>3, <1>4, <1>5 DEF e

BranchedTo(frame, b) == [frame EXCEPT !.block = b, !.pc = 1]

LEMMA Branched ==
  ASSUME NEW f, NEW frame \in FrameOf(f), NEW b \in DOMAIN Program[f].blocks
  PROVE  LET e == BranchedTo(frame, b)
         IN /\ e \in FrameOf(f) /\ e.pc = 1 /\ e.return = frame.return
            /\ e.block = b /\ e.func = f
            /\ Shape(e, e.pc) = BranchedTo(Shape(frame, frame.pc), b)
<1> DEFINE e == BranchedTo(frame, b)
<1>1. /\ e.pc = 1 /\ e.return = frame.return /\ e.func = frame.func
      /\ e.block = b /\ e.regs = frame.regs /\ e.locals = frame.locals
      /\ e \in FrameOf(f) /\ frame.func = f
  BY DEF FrameOf, BranchedTo
<1> HIDE DEF e
<1>2. Shape(e, e.pc) = BranchedTo(Shape(frame, frame.pc), b)
  <2> DEFINE regs == [r \in Regs |-> Shown(frame.regs[r])]
             locals == [n \in DOMAIN frame.locals |-> Shown(frame.locals[n])]
             Kind == [func : {frame.func}, block : {frame.block, b}, pc : {frame.pc, 1},
                      regs : {regs}, locals : {locals}]
             x == Shape(frame, frame.pc)
             y == Shape(e, e.pc)
             branched == [x EXCEPT !.block = b, !.pc = 1]
  <2>1. y = [func |-> frame.func, block |-> b, pc |-> 1, regs |-> regs, locals |-> locals]
    BY <1>1 DEF Shape
  <2>2. x = [func |-> frame.func, block |-> frame.block, pc |-> frame.pc,
             regs |-> regs, locals |-> locals]
    BY DEF Shape
  <2> HIDE DEF regs, locals, x, y
  <2>3. x \in Kind
    BY <2>2
  <2>4. branched \in Kind /\ branched.pc = 1 /\ branched.block = b
    BY <2>3
  <2>5. y \in Kind /\ y.pc = 1 /\ y.block = b
    BY <2>1
  <2> HIDE DEF branched
  <2>6. y = branched
    BY <2>4, <2>5
  <2> QED BY <2>6 DEF branched, x, y, BranchedTo
<1> QED BY <1>1, <1>2 DEF e

\* A new frame shows what the compiled entry shows, whatever frame its vectors
\* came from.
LEMMA Entered ==
  ASSUME NEW f \in IR!Funcs, NEW args \in Seq(Slots), NEW return \in Regs \cup {NoReg}
  PROVE  LET e == Frame(f, args, return)
         IN /\ e \in FrameOf(f) /\ e.pc = 1 /\ e.return = return /\ e.func = f /\ InBlock(e)
            /\ Shape(e, e.pc) = Compiled!Entry(f, [n \in DOMAIN args |-> Shown(args[n])])
<1> DEFINE e == Frame(f, args, return)
           locals == [l \in 1..Program[f].locals |->
                        IF l \in DOMAIN args THEN args[l] ELSE Fresh(f)[l]]
           regs == [r \in Regs |-> Void]
<1>1. Program[f] \in IR!Function /\ Program[f].blocks # <<>> /\ Default \in Slots /\ Void \in Slots
      /\ Void \notin IR!Values
  BY CallAssumption DEF IR!WellFormed, Slots, IR!Values
<1>2. Program[f].locals \in Nat /\ 1 \in DOMAIN Program[f].blocks
      /\ Program[f].blocks[1].insts \in Seq(IR!Insts)
  <2> DEFINE BlockType == [insts : Seq(IR!Insts), term : IR!Terminators]
  <2>1. Program[f].locals \in Nat /\ Program[f].blocks \in Seq(BlockType)
    BY <1>1 DEF IR!Function
  <2> HIDE DEF BlockType
  <2>2. 1 \in 1..Len(Program[f].blocks) /\ DOMAIN Program[f].blocks = 1..Len(Program[f].blocks)
    BY <1>1, <2>1, EmptySeq, LenProperties
  <2>3. Program[f].blocks[1] \in BlockType
    BY <2>1, <2>2, ElementOfSeq
  <2> QED BY <2>1, <2>2, <2>3 DEF BlockType
<1>3. Fresh(f) \in [1..Program[f].locals -> Slots] /\ Fresh(f) \in Seq(Slots)
  <2>1. Fresh(f) \in [1..Program[f].locals -> Slots]
    BY <1>1 DEF Fresh
  <2> QED BY <1>2, <2>1, SeqDef, SMTT(30)
<1>4. <<>> \o Fresh(f) = Fresh(f)
  BY <1>3, ConcatEmptySeq
<1>5. e = [func |-> f, block |-> 1, pc |-> 1, return |-> return, regs |-> regs, locals |-> locals]
  BY <1>3, <1>4 DEF Frame, Cleared
<1>6. locals \in [1..Program[f].locals -> Slots] /\ regs \in [Regs -> Slots]
  <2>1. \A l \in DOMAIN args : args[l] \in Slots
    BY LenProperties, ElementOfSeq
  <2> QED BY <1>1, <1>3, <2>1
<1> HIDE DEF e, locals, regs
<1>7. e \in FrameOf(f) /\ e.pc = 1 /\ e.return = return /\ e.func = f /\ e.block = 1
      /\ e.regs = regs /\ e.locals = locals
  BY <1>2, <1>5, <1>6 DEF FrameOf
<1>8. InBlock(e)
  <2>1. Len(Program[f].blocks[1].insts) \in Nat
    BY <1>2, LenProperties
  <2>2. IR!Block(e) = Program[f].blocks[1] /\ e.pc = 1
    BY <1>7 DEF IR!Block
  <2>3. Len(IR!Block(e).insts) \in Nat
    BY <2>1, <2>2
  <2> QED BY <2>2, <2>3, SMTT(30) DEF InBlock
<1>9. Shape(e, e.pc) = Compiled!Entry(f, [n \in DOMAIN args |-> Shown(args[n])])
  <2> DEFINE given == [n \in DOMAIN args |-> Shown(args[n])]
  <2>1. [r \in Regs |-> Shown(regs[r])] = [r \in Regs |-> Default]
    BY DEF Shown, regs
  <2>2. \A l \in 1..Program[f].locals : Shown(Fresh(f)[l]) = Default
    BY DEF Shown, Fresh
  <2>3. [l \in 1..Program[f].locals |-> Shown(locals[l])]
          = [l \in 1..Program[f].locals |-> IF l \in DOMAIN given THEN given[l] ELSE Default]
    BY <2>2 DEF locals
  <2> QED BY <1>6, <1>7, <2>1, <2>3 DEF Shape, Compiled!Entry
<1> QED BY <1>7, <1>8, <1>9 DEF e

-----------------------------------------------------------------------------
(* The call instructions.                                                  *)
LEMMA CallTyped ==
  ASSUME StackTyped, OutcomeTyped, NEW op \in {"call", "indirect"}, IR!AtInst(op)
  PROVE  /\ Inst.args \in Seq(Regs) /\ Inst.result \in Regs \cup {NoReg}
         /\ op = "call" => Inst.callee \in IR!Funcs
         /\ op = "indirect" => Inst.callee \in Regs
<1>1. Inst \in IR!Insts /\ Inst.op = op
  BY InstTyped
<1> QED BY <1>1 DEF IR!Insts, NoReg, IR!NoReg

LEMMA Pushes ==
  ASSUME StackTyped, OutcomeTyped, CallsNested, ~Full,
         NEW op \in {"call", "indirect"}, IR!AtInst(op),
         NEW f \in IR!Funcs, op = "call" => f = Inst.callee, stack' = Pushed(f)
  PROVE  /\ StackTyped' /\ CallsNested' /\ stack' # <<>>
         /\ Activations'
              = Append(Activations, Compiled!Entry(f,
                  [n \in DOMAIN Inst.args |-> Compiled!Top.regs[Inst.args[n]]]))
<1> DEFINE args == ReadArgs(Inst.args)
           e == Frame(f, args, Inst.result)
           c == [Top EXCEPT !.pc = @ + 1]
<1>1. Inst.args \in Seq(Regs) /\ Inst.result \in Regs \cup {NoReg}
  BY CallTyped
<1>2. stack # <<>> /\ Inst.op = op /\ Top.pc \in 1..Len(IR!Block(Top).insts)
  BY InstTyped
<1>3. /\ Top \in FrameOf(Top.func) /\ Top.func \in IR!Funcs /\ Top = stack[Len(stack)]
      /\ Len(stack) \in Nat \ {0} /\ Compiled!Top = Shape(Top, Top.pc)
      /\ stack \in Seq(Frames) /\ Top = Last(stack)
      /\ IR!Block(Top) \in [insts : Seq(IR!Insts), term : IR!Terminators]
  BY <1>2, TopTyped, SameTop, Popped DEF StackTyped
<1>4. args \in Seq(Slots) /\ DOMAIN args = DOMAIN Inst.args
  <2>1. Top.regs \in [Regs -> Slots] /\ DOMAIN Inst.args = 1..Len(Inst.args)
        /\ Len(Inst.args) \in Nat /\ \A n \in 1..Len(Inst.args) : Inst.args[n] \in Regs
    BY <1>1, <1>3, LenProperties, ElementOfSeq DEF FrameOf
  <2>2. args \in [1..Len(Inst.args) -> Slots] /\ DOMAIN args = DOMAIN Inst.args
    BY <2>1 DEF ReadArgs
  <2> HIDE DEF args
  <2> QED BY <2>1, <2>2, SeqDef
<1>5. /\ e \in FrameOf(f) /\ e.return = Inst.result /\ e.func = f /\ InBlock(e)
      /\ Shape(e, e.pc) = Compiled!Entry(f, [n \in DOMAIN args |-> Shown(args[n])])
  <2> HIDE DEF args
  <2> QED BY <1>1, <1>4, Entered
<1>6. [n \in DOMAIN args |-> Shown(args[n])]
        = [n \in DOMAIN Inst.args |-> Compiled!Top.regs[Inst.args[n]]]
  <2>1. \A n \in DOMAIN Inst.args : Inst.args[n] \in Regs
    BY <1>1, LenProperties, ElementOfSeq
  <2>2. \A r \in Regs : Compiled!Top.regs[r] = Shown(Top.regs[r])
    BY <1>3 DEF Shape
  <2> QED BY <1>4, <2>1, <2>2 DEF ReadArgs
<1> HIDE DEF args
<1>7. /\ c \in FrameOf(Top.func) /\ c.pc = Top.pc + 1 /\ c.return = Top.return
      /\ c.func = Top.func /\ c.block = Top.block
  <2>1. Top \in FrameOf(Top.func) /\ Top.func \in IR!Funcs /\ Top.pc \in Nat
    BY <1>3 DEF FrameOf
  <2> QED BY <2>1 DEF FrameOf
<1>8. InBlock(c)
  <2>1. Len(IR!Block(Top).insts) \in Nat /\ IR!Block(c) = IR!Block(Top)
    BY <1>3, <1>7 DEF IR!Block
  <2> QED BY <1>2, <1>7, <2>1 DEF InBlock
<1>9. stack' = Append(Append(Front(stack), [Last(stack) EXCEPT !.pc = @ + 1]), e)
  BY <1>3 DEF Pushed, IR!Replace, IR!Front, Front, args
<1>10. e \in Frames /\ c \in Frames
  BY <1>3, <1>5, <1>7 DEF Frames
<1>11. Activations' = Append(Activations, Shape(e, e.pc))
  <2> HIDE DEF e
  <2> QED BY <1>2, <1>3, <1>9, <1>10, OfPushed, ActivationsOf
<1> HIDE DEF e, c
<1>12. stack' \in Seq(Frames) /\ Len(stack') = Len(stack) + 1
       /\ \A n \in 1..(Len(stack) + 1) :
            stack'[n] = IF n = Len(stack) + 1 THEN e ELSE IF n = Len(stack) THEN c ELSE stack[n]
  <2> DEFINE b == Append(Front(stack), c)
  <2>1. stack' = Append(b, e)
    BY <1>3, <1>9 DEF c
  <2>2. b \in Seq(Frames) /\ Len(b) = Len(stack)
        /\ \A n \in 1..Len(stack) : b[n] = IF n = Len(stack) THEN c ELSE stack[n]
    BY <1>2, <1>3, <1>10, Replaced
  <2> HIDE DEF b
  <2> QED BY <1>3, <1>10, <2>1, <2>2
<1>13. StackTyped' /\ stack' # <<>>
  <2>1. \A n \in DOMAIN stack' : InBlock(stack'[n])
    BY <1>3, <1>5, <1>8, <1>12 DEF StackTyped
  <2>2. stack' # <<>>
    BY <1>3, <1>12, EmptySeq
  <2>3. Len(stack') <= MaxDepth
    BY <1>3, <1>12, CallAssumption DEF Full, IR!WellFormed
  <2> QED BY <1>12, <2>1, <2>2, <2>3 DEF StackTyped, InBlock
<1>14. CallsNested'
  <2>1. Nested(c, e)
    <3>1. IR!Block(c).insts[c.pc - 1] = Inst
      BY <1>2, <1>3, <1>7, SMTT(30) DEF IR!Block, Inst, IR!Inst, Top
    <3> QED BY <1>2, <1>5, <1>7, <3>1, SMTT(30) DEF Nested
  <2>2. ASSUME NEW n \in 1..(Len(stack') - 1)
        PROVE  Nested(stack'[n], stack'[n + 1])
    <3>1. CASE n = Len(stack)
      BY <1>3, <1>12, <2>1, <3>1
    <3>2. CASE n = Len(stack) - 1
      <4>1. Nested(stack[n], stack[n + 1]) /\ stack'[n] = stack[n] /\ stack'[n + 1] = c
        <5>1. n \in 1..(Len(stack) - 1) /\ n \in 1..(Len(stack) + 1) /\ n # Len(stack)
              /\ n # Len(stack) + 1 /\ n + 1 = Len(stack) /\ n + 1 \in 1..(Len(stack) + 1)
              /\ n + 1 # Len(stack) + 1
          BY <1>3, <1>12, <3>2
        <5> QED BY <1>12, <5>1, NestedCalls
      <4>2. stack[n + 1].return = c.return /\ stack[n + 1].func = c.func
        <5>1. n + 1 = Len(stack)
          BY <1>3, <1>12, <3>2
        <5> QED BY <1>3, <1>7, <5>1
      <4> QED BY <4>1, <4>2 DEF Nested
    <3>3. CASE n < Len(stack) - 1
      <4>1. Nested(stack[n], stack[n + 1]) /\ stack'[n] = stack[n] /\ stack'[n + 1] = stack[n + 1]
        <5>1. n \in 1..(Len(stack) - 1) /\ n \in 1..(Len(stack) + 1) /\ n # Len(stack)
              /\ n # Len(stack) + 1 /\ n + 1 # Len(stack) /\ n + 1 \in 1..(Len(stack) + 1)
              /\ n + 1 # Len(stack) + 1
          BY <1>3, <1>12, <3>3
        <5> QED BY <1>12, <5>1, NestedCalls
      <4> QED BY <4>1
    <3> QED BY <1>3, <1>12, <3>1, <3>2, <3>3
  <2> QED BY <2>2, NestedCalls
<1> QED BY <1>5, <1>6, <1>11, <1>13, <1>14

-----------------------------------------------------------------------------
(* Returns.                                                                *)
LEMMA ResultWritten ==
  ASSUME NEW f, NEW frame \in FrameOf(f), NEW r \in Regs \cup {NoReg}, NEW v \in Slots
  PROVE  LET e == Written(frame, r, v)
         IN /\ e \in FrameOf(f) /\ e.pc = frame.pc /\ e.return = frame.return
            /\ e.func = f /\ e.block = frame.block
            /\ Shape(e, e.pc) = Compiled!Bound(Shape(frame, frame.pc - 1), r, Shown(v))
<1> DEFINE e == Written(frame, r, v)
           regs == IF r = NoReg THEN frame.regs ELSE [frame.regs EXCEPT ![r] = v]
           moved == MovedTo(frame, frame.pc, regs)
<1>1. frame.pc \in Nat /\ frame.regs \in [Regs -> Slots] /\ regs \in [Regs -> Slots]
      /\ frame.func = f
  BY DEF FrameOf
<1>2. e = moved
  <2>1. CASE r = NoReg
    <3>1. e = frame
      BY <2>1 DEF Written
    <3>2. moved \in FrameOf(f) /\ moved.pc = frame.pc /\ moved.return = frame.return
          /\ moved.func = f /\ moved.block = frame.block /\ moved.locals = frame.locals
          /\ moved.regs = frame.regs
      <4> HIDE DEF moved
      <4>1. regs = frame.regs
        BY <2>1
      <4> HIDE DEF regs
      <4> USE DEF moved
      <4> QED BY <1>1, <4>1, Moved
    <3> HIDE DEF moved, e
    <3>3. moved = frame
      BY <1>1, <3>2 DEF FrameOf
    <3> QED BY <3>1, <3>3
  <2>2. CASE r # NoReg
    BY <2>2, <1>1 DEF Written, MovedTo, FrameOf
  <2> QED BY <2>1, <2>2
<1> HIDE DEF e
<1>3. /\ e \in FrameOf(f) /\ e.pc = frame.pc /\ e.return = frame.return
      /\ e.func = f /\ e.block = frame.block /\ e.regs = regs
      /\ \A n : Shape(e, e.pc) = MovedTo(Shape(frame, n), frame.pc, [q \in Regs |-> Shown(regs[q])])
  <2> HIDE DEF regs
  <2>1. /\ moved \in FrameOf(f) /\ moved.pc = frame.pc /\ moved.return = frame.return
        /\ moved.func = f /\ moved.block = frame.block /\ moved.regs = regs
    BY <1>1, Moved
  <2>2. \A n : Shape(moved, moved.pc)
                = MovedTo(Shape(frame, n), frame.pc, [q \in Regs |-> Shown(regs[q])])
    BY <1>1, Moved, SMTT(30)
  <2> HIDE DEF moved
  <2> QED BY <1>2, <2>1, <2>2
<1>4. Compiled!Bound(Shape(frame, frame.pc - 1), r, Shown(v))
        = MovedTo(Shape(frame, frame.pc - 1), frame.pc, [q \in Regs |-> Shown(regs[q])])
  <2> DEFINE x == Shape(frame, frame.pc - 1)
  <2>1. x.pc + 1 = frame.pc /\ x.regs = [q \in Regs |-> Shown(frame.regs[q])]
    BY <1>1 DEF Shape
  <2> HIDE DEF x
  <2>2. [q \in Regs |-> Shown(regs[q])]
          = IF r = NoReg THEN x.regs ELSE [x.regs EXCEPT ![r] = Shown(v)]
    BY <1>1, <2>1
  <2> HIDE DEF regs
  <2>3. Compiled!Bound(x, r, Shown(v)) = MovedTo(x, frame.pc, [q \in Regs |-> Shown(regs[q])])
    BY <2>1, <2>2 DEF Compiled!Bound, NoReg, IR!NoReg, Compiled!NoReg, MovedTo
  <2> QED BY <2>3 DEF x
<1> QED BY <1>3, <1>4 DEF e

LEMMA Returns ==
  ASSUME StackTyped, CallsNested, stack # <<>>, Front(stack) # <<>>, NEW v \in Slots,
         stack' = Append(Front(Front(stack)), Written(Last(Front(stack)), Top.return, v))
  PROVE  /\ StackTyped' /\ CallsNested' /\ stack' # <<>>
         /\ LET callers == Compiled!Front(Activations)
                 caller == Compiled!Last(callers)
            IN /\ callers # <<>>
               /\ Activations' = Append(Compiled!Front(callers),
                    Compiled!Bound(caller, Compiled!Block(caller).insts[caller.pc].result, Shown(v)))
<1> DEFINE c == Front(stack)
           caller == Last(c)
           w == Written(caller, Top.return, v)
<1>1. stack \in Seq(Frames) /\ c \in Seq(Frames) /\ Len(c) = Len(stack) - 1
      /\ Len(stack) \in Nat \ {0} /\ \A n \in 1..(Len(stack) - 1) : c[n] = stack[n]
  BY Popped DEF StackTyped
<1>2. Len(c) \in Nat \ {0} /\ caller = c[Len(c)] /\ caller \in Frames
  <2> HIDE DEF c
  <2> QED BY <1>1, Popped DEF c
<1>3. caller = stack[Len(stack) - 1] /\ Top = stack[Len(stack)] /\ Len(stack) - 1 \in 1..(Len(stack) - 1)
      /\ Top \in FrameOf(Top.func) /\ caller \in FrameOf(caller.func) /\ caller.func \in IR!Funcs
  <2>1. Len(c) \in 1..(Len(stack) - 1)
    BY <1>1, <1>2
  <2> HIDE DEF c
  <2> QED BY <1>1, <1>2, <2>1, TopTyped, FrameFields
<1> HIDE DEF c, caller
<1>4. Top.return \in Regs \cup {NoReg}
  BY <1>3 DEF FrameOf
<1>5. /\ w \in FrameOf(caller.func) /\ w.pc = caller.pc /\ w.return = caller.return
      /\ w.func = caller.func /\ w.block = caller.block
      /\ Shape(w, w.pc) = Compiled!Bound(Shape(caller, caller.pc - 1), Top.return, Shown(v))
  BY <1>3, <1>4, ResultWritten
<1> HIDE DEF w
<1>6. stack' = Append(Front(c), w) /\ w \in Frames
  BY <1>3, <1>5 DEF c, caller, w, Frames
<1>7. stack' \in Seq(Frames) /\ Len(stack') = Len(c)
      /\ \A n \in 1..Len(c) : stack'[n] = IF n = Len(c) THEN w ELSE c[n]
  BY <1>1, <1>2, <1>6, Replaced, EmptySeq
<1>8. StackTyped' /\ stack' # <<>>
  <2>1. ASSUME NEW n \in DOMAIN stack' PROVE InBlock(stack'[n])
    <3>1. n \in 1..Len(c) /\ n \in 1..Len(stack) /\ c[n] = stack[n]
      BY <1>1, <1>2, <1>7, SMTT(30)
    <3>2. InBlock(stack[n])
      BY <1>1, <3>1 DEF StackTyped
    <3>3. CASE n = Len(c)
      <4>1. stack'[n] = w /\ stack[n] = caller
        BY <1>2, <1>7, <3>1, <3>3
      <4> QED BY <1>5, <3>2, <4>1 DEF InBlock, IR!Block
    <3>4. CASE n # Len(c)
      BY <1>7, <3>1, <3>2, <3>4
    <3> QED BY <3>3, <3>4
  <2>2. stack' # <<>> /\ Len(stack') <= MaxDepth
    <3>1. MaxDepth \in Nat /\ Len(stack) <= MaxDepth
      BY CallAssumption DEF IR!WellFormed, StackTyped
    <3> QED BY <1>1, <1>2, <1>7, <3>1, EmptySeq
  <2> QED BY <1>7, <2>1, <2>2 DEF StackTyped, InBlock
<1>9. CallsNested'
  <2>1. ASSUME NEW n \in 1..(Len(stack') - 1)
        PROVE  Nested(stack'[n], stack'[n + 1])
    <3>1. /\ n \in 1..(Len(stack) - 1) /\ n \in 1..Len(c) /\ n # Len(c) /\ n + 1 \in 1..Len(c)
          /\ n + 1 \in 1..(Len(stack) - 1)
      BY <1>1, <1>2, <1>7
    <3>2. Nested(stack[n], stack[n + 1])
      BY <3>1, NestedCalls
    <3>3. stack'[n] = stack[n] /\ c[n + 1] = stack[n + 1]
      BY <1>1, <1>7, <3>1
    <3>4. stack'[n + 1].return = stack[n + 1].return /\ stack'[n + 1].func = stack[n + 1].func
      <4>1. CASE n + 1 = Len(c)
        BY <1>2, <1>5, <1>7, <3>1, <3>3, <4>1
      <4>2. CASE n + 1 # Len(c)
        BY <1>7, <3>1, <3>3, <4>2
      <4> QED BY <4>1, <4>2
    <3> QED BY <3>2, <3>3, <3>4 DEF Nested
  <2> QED BY <2>1, NestedCalls
<1>10. /\ Front(Of(stack)) # <<>> /\ Last(Front(Of(stack))) = Shape(caller, caller.pc - 1)
       /\ Of(stack') = Append(Front(Front(Of(stack))), Shape(w, w.pc))
  <2>1. w.pc = Last(Front(stack)).pc
    BY <1>5, SMTT(30) DEF c, caller
  <2> QED BY <1>1, <1>6, <2>1, OfReturned DEF c, caller
<1>11. LET a == Shape(caller, caller.pc - 1)
       IN Compiled!Block(a).insts[a.pc].result = Top.return
  <2>1. Nested(stack[Len(stack) - 1], stack[Len(stack) - 1 + 1])
    BY <1>3, NestedCalls
  <2>2. Len(stack) - 1 + 1 = Len(stack)
    BY <1>1
  <2>3. Nested(caller, Top)
    BY <1>3, <2>1, <2>2
  <2> QED BY <2>3 DEF Nested, Shape, Compiled!Block, IR!Block
<1> QED BY <1>5, <1>8, <1>9, <1>10, <1>11, ActivationsOf DEF Compiled!Front, Compiled!Last, Front, Last

-----------------------------------------------------------------------------
(* What a step that is not a call or a return keeps.                       *)
LEMMA Unmoved ==
  ASSUME StackTyped, CallsNested, stack' = stack
  PROVE  StackTyped' /\ CallsNested' /\ Activations' = Activations
<1>1. StackTyped'
  BY DEF StackTyped, InBlock, IR!Block
<1>2. CallsNested'
  BY NestedCalls DEF Nested
<1>3. Activations' = Activations
  BY ActivationsOf
<1> QED BY <1>1, <1>2, <1>3

LEMMA ShownValue == \A v \in IR!Values : v \in Slots /\ Shown(v) = v
BY CallAssumption DEF Slots, Shown

Abstract == [Compiled!Next]_(Compiled!vars)

LEMMA EndStep ==
  ASSUME StackTyped, OutcomeTyped, CallsNested, stack' = stack, outcome' \in {"exited", "failed"}
  PROVE  StackTyped' /\ OutcomeTyped' /\ CallsNested' /\ Activations' = Activations
BY Unmoved DEF OutcomeTyped

LEMMA QuietSlot ==
  ASSUME ffi' = None, pending' = None
  PROVE  TrapSlot'
BY DEF TrapSlot, None

LEMMA ConstStep ==
  ASSUME IInv, Const
  PROVE  IInv' /\ Abstract
<1>1. IR!AtInst("const") /\ ffi = None /\ pending = None /\ ffi' = None /\ pending' = None
      /\ IR!Continue(Inst.result, Inst.value) /\ outcome' = outcome
  BY DEF Const, AtInst, IR!Const, IR!Continue, Quiet, Inst
<1>2. Inst.value \in IR!Values /\ Inst.result \in Regs \cup {NoReg}
  <2>1. Inst \in IR!Insts /\ Inst.op = "const"
    BY <1>1, InstTyped DEF IInv
  <2> QED BY <2>1 DEF IR!Insts
<1>3. StackTyped' /\ CallsNested' /\ stack' # <<>>
      /\ Activations' = Compiled!Replace(Compiled!Bound(Compiled!Top, Inst.result, Inst.value))
  BY <1>1, <1>2, Continued, ShownValue DEF IInv
<1>4. Compiled!AtInst("const") /\ Compiled!Inst = Inst
  BY <1>1, SameAt, SameTop, InstTyped DEF IInv
<1>5. Compiled!Const
  BY <1>1, <1>3, <1>4 DEF Compiled!Const, Compiled!Continue
<1> QED BY <1>1, <1>3, <1>5, QuietSlot DEF IInv, OutcomeTyped, Abstract, Compiled!Next

LEMMA LoadStep ==
  ASSUME IInv, LoadLocal
  PROVE  IInv' /\ Abstract
<1>1. IR!AtInst("load") /\ ffi = None /\ pending = None /\ ffi' = None /\ pending' = None
      /\ IR!Continue(Inst.result, Top.locals[Inst.local]) /\ outcome' = outcome
  BY DEF LoadLocal, AtInst, IR!LoadLocal, IR!Continue, Quiet, Inst, Top
<1>2. Inst.local \in 1..Program[Top.func].locals /\ Inst.result \in Regs \cup {NoReg}
      /\ stack # <<>>
  <2>1. Inst \in IR!Insts /\ Inst.op = "load" /\ Inst.local \in 1..Program[Top.func].locals
        /\ stack # <<>>
    BY <1>1, InstTyped DEF IInv
  <2> QED BY <2>1 DEF IR!Insts
<1>3. Top.locals \in [1..Program[Top.func].locals -> Slots] /\ Compiled!Top = Shape(Top, Top.pc)
  BY <1>2, TopTyped, SameTop, FrameFields DEF IInv
<1>4. Top.locals[Inst.local] \in Slots
      /\ Shown(Top.locals[Inst.local]) = Compiled!Top.locals[Inst.local]
  BY <1>2, <1>3 DEF Shape
<1>5. StackTyped' /\ CallsNested' /\ stack' # <<>>
      /\ Activations' = Compiled!Replace(
           Compiled!Bound(Compiled!Top, Inst.result, Compiled!Top.locals[Inst.local]))
  BY <1>1, <1>2, <1>4, Continued DEF IInv
<1>6. Compiled!AtInst("load") /\ Compiled!Inst = Inst
  BY <1>1, <1>2, SameAt, SameTop DEF IInv
<1>7. Compiled!LoadLocal
  BY <1>1, <1>5, <1>6 DEF Compiled!LoadLocal, Compiled!Continue
<1> QED BY <1>1, <1>5, <1>7, QuietSlot DEF IInv, OutcomeTyped, Abstract, Compiled!Next

LEMMA StoreStep ==
  ASSUME IInv, StoreLocal
  PROVE  IInv' /\ Abstract
<1>1. IR!AtInst("store") /\ ffi = None /\ pending = None /\ ffi' = None /\ pending' = None
      /\ stack' = IR!Replace(StoredIn(Top, Inst.local, Top.regs[Inst.from])) /\ outcome' = outcome
  BY DEF StoreLocal, AtInst, IR!StoreLocal, Quiet, Inst, Top, StoredIn
<1>2. Inst.local \in 1..Program[Top.func].locals /\ Inst.from \in Regs /\ stack # <<>>
      /\ Top.pc \in 1..Len(IR!Block(Top).insts)
  <2>1. Inst \in IR!Insts /\ Inst.op = "store" /\ Inst.local \in 1..Program[Top.func].locals
        /\ stack # <<>> /\ Top.pc \in 1..Len(IR!Block(Top).insts)
    BY <1>1, InstTyped DEF IInv
  <2> QED BY <2>1 DEF IR!Insts
<1>3. Top \in FrameOf(Top.func) /\ Compiled!Top = Shape(Top, Top.pc) /\ Top.regs \in [Regs -> Slots]
      /\ IR!Block(Top) \in [insts : Seq(IR!Insts), term : IR!Terminators]
  BY <1>2, TopTyped, SameTop, FrameFields DEF IInv
<1>4. Top.regs[Inst.from] \in Slots /\ Shown(Top.regs[Inst.from]) = Compiled!Top.regs[Inst.from]
  BY <1>2, <1>3 DEF Shape
<1> DEFINE e == StoredIn(Top, Inst.local, Top.regs[Inst.from])
<1>5. /\ e \in FrameOf(Top.func) /\ e.pc = Top.pc + 1 /\ e.return = Top.return
      /\ e.block = Top.block
      /\ Shape(e, e.pc) = StoredIn(Compiled!Top, Inst.local, Compiled!Top.regs[Inst.from])
  BY <1>2, <1>3, <1>4, Stored
<1> HIDE DEF e
<1>6. InBlock(e)
  <2>1. Len(IR!Block(Top).insts) \in Nat /\ IR!Block(e) = IR!Block(Top)
    BY <1>3, <1>5 DEF IR!Block, FrameOf
  <2> QED BY <1>2, <1>5, <2>1 DEF InBlock
<1>7. StackTyped' /\ CallsNested' /\ stack' # <<>>
      /\ Activations' = Compiled!Replace(Shape(e, e.pc))
  BY <1>1, <1>2, <1>5, <1>6, TopReplaced DEF IInv, e
<1>8. Compiled!AtInst("store") /\ Compiled!Inst = Inst
  BY <1>1, <1>2, SameAt, SameTop DEF IInv
<1>9. Compiled!StoreLocal
  BY <1>1, <1>5, <1>7, <1>8 DEF Compiled!StoreLocal, StoredIn
<1> QED BY <1>1, <1>7, <1>9, QuietSlot DEF IInv, OutcomeTyped, Abstract, Compiled!Next

\* Both call instructions enter the callee or end the program together.
LEMMA DispatchStep ==
  ASSUME IInv, NEW op \in {"call", "indirect"}, IR!AtInst(op), pending = None,
         NEW f \in IR!Funcs, op = "call" => f = Inst.callee, Dispatch(f),
         ffi' = None, pending' = None
  PROVE  IInv' /\ Compiled!Enter(f, Inst.args)
<1>1. Len(Activations) = Len(stack) /\ Len(stack) \in Nat
  BY OfSeq, ActivationsOf DEF IInv, StackTyped
<1>2. MaxDepth \in Nat
  BY CallAssumption DEF IR!WellFormed
<1>3. CASE Full
  <2>1. stack' = stack /\ outcome' = "failed" /\ ~(Len(Activations) < MaxDepth)
    BY <1>1, <1>2, <1>3 DEF Dispatch, IR!End, Full
  <2>2. StackTyped' /\ OutcomeTyped' /\ CallsNested' /\ Activations' = Activations
    BY <2>1, EndStep DEF IInv
  <2>3. Compiled!Enter(f, Inst.args)
    BY <2>1, <2>2 DEF Compiled!Enter, Compiled!End
  <2> QED BY <2>2, <2>3, QuietSlot DEF IInv
<1>4. CASE ~Full
  <2>1. stack' = Pushed(f) /\ outcome' = outcome /\ Len(Activations) < MaxDepth
    BY <1>1, <1>2, <1>4 DEF Dispatch, Full
  <2>2. /\ StackTyped' /\ CallsNested' /\ stack' # <<>>
        /\ Activations' = Append(Activations, Compiled!Entry(f,
             [n \in DOMAIN Inst.args |-> Compiled!Top.regs[Inst.args[n]]]))
    BY <1>4, <2>1, Pushes DEF IInv
  <2>3. Compiled!Enter(f, Inst.args)
    BY <2>1, <2>2 DEF Compiled!Enter
  <2> QED BY <2>1, <2>2, <2>3, QuietSlot DEF IInv, OutcomeTyped
<1> QED BY <1>3, <1>4

LEMMA CallStep ==
  ASSUME IInv, Call
  PROVE  IInv' /\ Abstract
<1>1. IR!AtInst("call") /\ pending = None /\ ffi' = None /\ pending' = None
      /\ Dispatch(Inst.callee)
  BY DEF Call, AtInst
<1>2. Inst.callee \in IR!Funcs /\ stack # <<>>
  BY <1>1, CallTyped, InstTyped DEF IInv
<1>3. IInv' /\ Compiled!Enter(Inst.callee, Inst.args)
  BY <1>1, <1>2, DispatchStep
<1>4. Compiled!AtInst("call") /\ Compiled!Inst = Inst
  BY <1>1, <1>2, SameAt, SameTop DEF IInv
<1> QED BY <1>3, <1>4 DEF Compiled!Call, Compiled!Next, Abstract

LEMMA IndirectStep ==
  ASSUME IInv, CallIndirect
  PROVE  IInv' /\ Abstract
<1> DEFINE f == Top.regs[Inst.callee]
<1>1. IR!AtInst("indirect") /\ pending = None /\ ffi' = None /\ pending' = None
      /\ IF f \in IR!Funcs THEN Dispatch(f) ELSE IR!End("failed") /\ UNCHANGED pool
  BY DEF CallIndirect, AtInst
<1>2. Inst.callee \in Regs /\ stack # <<>>
  BY <1>1, CallTyped, InstTyped DEF IInv
<1>3. Compiled!AtInst("indirect") /\ Compiled!Inst = Inst
      /\ Compiled!Top.regs[Inst.callee] = Shown(f) /\ f \in Slots
  <2>1. Compiled!Top = Shape(Top, Top.pc) /\ Top.regs \in [Regs -> Slots]
    BY <1>2, SameTop, TopTyped, FrameFields DEF IInv
  <2> QED BY <1>1, <1>2, <2>1, SameAt, SameTop DEF IInv, Shape
<1> HIDE DEF f
<1>4. Compiled!Funcs = IR!Funcs
  BY DEF Compiled!Funcs, IR!Funcs
<1>5. CASE f \in IR!Funcs
  <2>1. Shown(f) = f
    BY <1>5, ShownValue DEF IR!Values
  <2>2. IInv' /\ Compiled!Enter(f, Inst.args)
    BY <1>1, <1>5, DispatchStep
  <2>3. Compiled!CallIndirect
    BY <1>3, <1>4, <1>5, <2>1, <2>2 DEF Compiled!CallIndirect
  <2> QED BY <2>2, <2>3 DEF Compiled!Next, Abstract
<1>6. CASE f \notin IR!Funcs
  <2>1. Shown(f) \notin IR!Funcs
    BY <1>6, CallAssumption DEF Shown, IR!WellFormed
  <2>2. stack' = stack /\ outcome' = "failed"
    BY <1>1, <1>6 DEF IR!End
  <2>3. StackTyped' /\ OutcomeTyped' /\ CallsNested' /\ Activations' = Activations
    BY <2>2, EndStep DEF IInv
  <2>4. Compiled!CallIndirect
    BY <1>1, <1>3, <1>4, <2>1, <2>2, <2>3 DEF Compiled!CallIndirect, Compiled!End
  <2> QED BY <1>1, <2>3, <2>4, QuietSlot DEF IInv, Compiled!Next, Abstract
<1> QED BY <1>5, <1>6

LEMMA RuntimeStep ==
  ASSUME IInv, CallRuntime
  PROVE  IInv' /\ Abstract
<1>1. IR!AtInst("runtime") /\ pending = None /\ ffi' \in Data
      /\ pending' \in {None, "exited", "failed"} /\ stack' = stack /\ outcome' = outcome
  BY DEF CallRuntime, AtInst
<1>2. StackTyped' /\ OutcomeTyped' /\ CallsNested' /\ Activations' = Activations
  BY <1>1, Unmoved DEF IInv, OutcomeTyped
<1>3. TrapSlot'
  <2>1. IR!AtInst("runtime")'
    BY <1>1 DEF IR!AtInst, IR!Top, IR!Inst, IR!Block, IR!Last
  <2>2. ffi' # None
    BY <1>1, CallAssumption DEF None
  <2> QED BY <1>1, <2>1, <2>2, SMTT(30) DEF TrapSlot
<1>4. Abstract
  <2>1. CASE pending' = None
    BY <1>1, <1>2, <2>1 DEF Abstract, Compiled!vars
  <2>2. CASE pending' # None
    <3>1. stack # <<>>
      BY <1>1, InstTyped DEF IInv
    <3>2. Compiled!AtInst("runtime")
      BY <1>1, SameAt DEF IInv
    <3>3. Compiled!CallRuntime
      BY <1>1, <1>2, <2>2, <3>2 DEF Compiled!CallRuntime, Compiled!End
    <3> QED BY <3>3 DEF Abstract, Compiled!Next
  <2> QED BY <2>1, <2>2
<1> QED BY <1>2, <1>3, <1>4 DEF IInv

LEMMA DrainStep ==
  ASSUME IInv, Drain
  PROVE  IInv' /\ Abstract
<1>1. IR!AtInst("runtime") /\ ffi \in Data /\ ffi' = None /\ pending' = None
      /\ IF pending # None THEN IR!End(pending) ELSE IR!Continue(Inst.result, ffi)
  BY DEF Drain, IInv, TrapSlot
<1>2. CASE pending # None
  <2>1. stack' = stack /\ outcome' = pending /\ outcome' \in {"exited", "failed"}
    BY <1>1, <1>2 DEF IR!End, IInv, TrapSlot
  <2>2. StackTyped' /\ OutcomeTyped' /\ CallsNested' /\ Activations' = Activations
    BY <2>1, EndStep DEF IInv
  <2> QED BY <1>1, <1>2, <2>1, <2>2, QuietSlot DEF IInv, Abstract, Compiled!vars
<1>3. CASE pending = None
  <2>1. Inst.result \in Regs \cup {NoReg} /\ stack # <<>>
    <3>1. Inst \in IR!Insts /\ Inst.op = "runtime" /\ stack # <<>>
      BY <1>1, InstTyped DEF IInv
    <3> QED BY <3>1 DEF IR!Insts, NoReg, IR!NoReg
  <2>2. ffi \in Slots /\ Shown(ffi) = ffi
    BY <1>1, ShownValue DEF IR!Values
  <2>3. IR!Continue(Inst.result, ffi) /\ outcome' = outcome
    BY <1>1, <1>3 DEF IR!Continue
  <2>4. StackTyped' /\ CallsNested' /\ stack' # <<>>
        /\ Activations' = Compiled!Replace(Compiled!Bound(Compiled!Top, Inst.result, ffi))
    BY <1>1, <2>1, <2>2, <2>3, Continued DEF IInv
  <2>5. Compiled!AtInst("runtime") /\ Compiled!Inst = Inst
    BY <1>1, <1>3, <2>1, SameAt, SameTop DEF IInv
  <2>6. Compiled!CallRuntime
    BY <1>1, <1>3, <2>3, <2>4, <2>5 DEF Compiled!CallRuntime, Compiled!Continue
  <2> QED BY <1>1, <2>3, <2>4, <2>6, QuietSlot DEF IInv, OutcomeTyped, Abstract, Compiled!Next
<1> QED BY <1>2, <1>3

LEMMA TermTyped ==
  ASSUME IInv, NEW op, IR!AtTerm(op)
  PROVE  IR!Term \in IR!Terminators /\ IR!Term.op = op /\ stack # <<>>
<1>1. stack # <<>> /\ IR!Term.op = op
  BY DEF IR!AtTerm, IInv, OutcomeTyped
<1>2. IR!Block(Top) \in [insts : Seq(IR!Insts), term : IR!Terminators]
  BY <1>1, TopTyped DEF IInv
<1> QED BY <1>1, <1>2 DEF IR!Term, Top

LEMMA BranchStep ==
  ASSUME IInv, Branch
  PROVE  IInv' /\ Abstract
<1>1. IR!AtTerm("branch") /\ pending = None /\ ffi' = None /\ pending' = None
      /\ outcome' = outcome
  BY DEF Branch, AtTerm, IR!Branch, Quiet
<1>2. PICK b \in IR!Term.targets : stack' = IR!Replace(BranchedTo(Top, b))
  BY DEF Branch, IR!Branch, BranchedTo, Top
<1>3. stack # <<>> /\ IR!Term.op = "branch"
  BY <1>1, TermTyped
<1>4. Top \in FrameOf(Top.func) /\ Top.func \in IR!Funcs /\ Compiled!Top = Shape(Top, Top.pc)
      /\ Top.block \in DOMAIN Program[Top.func].blocks
  BY <1>3, TopTyped, SameTop DEF IInv, FrameOf
<1>5. b \in DOMAIN Program[Top.func].blocks
  <2>1. IR!Term = Program[Top.func].blocks[Top.block].term
    BY DEF IR!Term, IR!Block, Top
  <2> QED BY <1>2, <1>3, <1>4, <2>1, CallAssumption DEF IR!WellFormed
<1> DEFINE e == BranchedTo(Top, b)
<1>6. /\ e \in FrameOf(Top.func) /\ e.pc = 1 /\ e.return = Top.return
      /\ Shape(e, e.pc) = BranchedTo(Compiled!Top, b)
  BY <1>4, <1>5, Branched
<1> HIDE DEF e
<1>7. InBlock(e)
  <2>1. e \in Frames
    BY <1>4, <1>6 DEF Frames
  <2>2. Len(IR!Block(e).insts) \in Nat
    BY <2>1, BlockTyped, LenProperties
  <2> QED BY <1>6, <2>2 DEF InBlock
<1>8. StackTyped' /\ CallsNested' /\ stack' # <<>>
      /\ Activations' = Compiled!Replace(BranchedTo(Compiled!Top, b))
  BY <1>2, <1>3, <1>6, <1>7, TopReplaced DEF IInv, e
<1>9. Compiled!AtTerm("branch") /\ Compiled!Term = IR!Term
  BY <1>1, <1>3, SameAt, SameTop DEF IInv
<1>10. Compiled!Branch
  BY <1>1, <1>2, <1>8, <1>9 DEF Compiled!Branch, BranchedTo
<1> QED BY <1>1, <1>8, <1>10, QuietSlot DEF IInv, OutcomeTyped, Abstract, Compiled!Next

LEMMA ReturnStep ==
  ASSUME IInv, Return
  PROVE  IInv' /\ Abstract
<1> DEFINE result == IF IR!Term.from = NoReg THEN Void ELSE Top.regs[IR!Term.from]
<1>1. IR!AtTerm("return") /\ pending = None /\ ffi' = None /\ pending' = None
      /\ IF Front(stack) = <<>> THEN stack' = <<>> /\ outcome' = "exited"
         ELSE /\ stack' = Append(Front(Front(stack)),
                            Written(Last(Front(stack)), Top.return, result))
              /\ outcome' = outcome
  BY DEF Return, AtTerm
<1>2. stack # <<>> /\ IR!Term \in IR!Terminators /\ IR!Term.op = "return"
  BY <1>1, TermTyped
<1>3. IR!Term.from \in Regs \cup {NoReg}
  BY <1>2 DEF IR!Terminators, NoReg, IR!NoReg
<1>4. /\ result \in Slots
      /\ Shown(result) = IF IR!Term.from = NoReg THEN Default ELSE Compiled!Top.regs[IR!Term.from]
  <2>1. Compiled!Top = Shape(Top, Top.pc) /\ Top.regs \in [Regs -> Slots]
    BY <1>2, SameTop, TopTyped, FrameFields DEF IInv
  <2>2. CASE IR!Term.from = NoReg
    BY <2>2 DEF Slots, Shown
  <2>3. CASE IR!Term.from # NoReg
    BY <1>3, <2>1, <2>3 DEF Shape
  <2> QED BY <2>2, <2>3
<1> HIDE DEF result
<1>5. Compiled!AtTerm("return") /\ Compiled!Term = IR!Term
  BY <1>1, <1>2, SameAt, SameTop DEF IInv
<1>6. /\ Of(stack) \in Seq(Shapes) /\ Len(Of(stack)) = Len(stack) /\ stack \in Seq(Frames)
      /\ Len(stack) \in Nat \ {0} /\ Of(stack) # <<>>
  BY <1>2, OfSeq, Popped, EmptySeq DEF IInv, StackTyped
<1>7. CASE Front(stack) = <<>>
  <2>1. Compiled!Front(Activations) = <<>> /\ stack' = <<>> /\ outcome' = "exited"
    <3>1. Len(Front(stack)) = Len(stack) - 1 /\ Front(stack) \in Seq(Frames)
      BY <1>2, <1>6, Popped
    <3>2. Len(stack) - 1 = 0
      BY <1>7, <3>1, EmptySeq
    <3>3. Front(Of(stack)) \in Seq(Shapes) /\ Len(Front(Of(stack))) = 0
      BY <1>6, <3>2, Popped
    <3> QED BY <1>1, <1>7, <3>3, EmptySeq, ActivationsOf DEF Compiled!Front, Front
  <2>2. Activations' = <<>>
    <3>1. Of(<<>>) \in Seq(Shapes) /\ Len(Of(<<>>)) = 0
      BY OfSeq, EmptySeq
    <3> QED BY <2>1, <3>1, EmptySeq, ActivationsOf
  <2>3. StackTyped' /\ CallsNested' /\ OutcomeTyped'
    <3>1. stack' \in Seq(Frames) /\ Len(stack') = 0 /\ DOMAIN stack' = {}
      BY <2>1, EmptySeq
    <3>2. MaxDepth \in Nat
      BY CallAssumption DEF IR!WellFormed
    <3> QED BY <2>1, <3>1, <3>2 DEF StackTyped, CallsNested, OutcomeTyped
  <2>4. Compiled!Return
    BY <1>1, <1>5, <2>1, <2>2 DEF Compiled!Return
  <2> QED BY <1>1, <2>3, <2>4, QuietSlot DEF IInv, Abstract, Compiled!Next
<1>8. CASE Front(stack) # <<>>
  <2>1. stack' = Append(Front(Front(stack)), Written(Last(Front(stack)), Top.return, result))
        /\ outcome' = outcome
    BY <1>1, <1>8
  <2>2. /\ StackTyped' /\ CallsNested' /\ stack' # <<>>
        /\ LET callers == Compiled!Front(Activations)
               caller == Compiled!Last(callers)
           IN /\ callers # <<>>
              /\ Activations' = Append(Compiled!Front(callers),
                   Compiled!Bound(caller, Compiled!Block(caller).insts[caller.pc].result,
                                  Shown(result)))
    BY <1>2, <1>4, <1>8, <2>1, Returns DEF IInv
  <2>3. Compiled!Return
    BY <1>1, <1>4, <1>5, <2>1, <2>2 DEF Compiled!Return, NoReg, IR!NoReg, Compiled!NoReg
  <2> QED BY <1>1, <2>1, <2>2, <2>3, QuietSlot DEF IInv, OutcomeTyped, Abstract, Compiled!Next
<1> QED BY <1>7, <1>8

LEMMA EndingStep ==
  ASSUME IInv, Halt \/ Trap
  PROVE  IInv' /\ Abstract
<1>1. /\ ffi' = None /\ pending' = None /\ pending = None /\ stack' = stack
      /\ \/ IR!AtTerm("halt") /\ outcome' = "exited"
         \/ IR!AtTerm("trap") /\ outcome' = "failed"
  BY DEF Halt, Trap, AtTerm, IR!Halt, IR!Trap, IR!End, Quiet
<1>2. StackTyped' /\ OutcomeTyped' /\ CallsNested' /\ Activations' = Activations
  BY <1>1, EndStep DEF IInv
<1>3. Compiled!Halt \/ Compiled!Trap
  BY <1>1, <1>2, SameAt DEF IInv, Compiled!Halt, Compiled!Trap, Compiled!End
<1> QED BY <1>1, <1>2, <1>3, QuietSlot DEF IInv, Abstract, Compiled!Next

-----------------------------------------------------------------------------
LEMMA Initial == Init => IInv /\ Compiled!Init
<1> SUFFICES ASSUME Init PROVE IInv /\ Compiled!Init
  OBVIOUS
<1> DEFINE args == <<>>
           e == Frame(IR!Main, args, NoReg)
<1>1. stack = <<e>> /\ pending = None /\ ffi = None /\ outcome = "running"
  BY DEF Init
<1>2. IR!Main \in IR!Funcs /\ MaxDepth \in Nat \ {0}
  BY CallAssumption DEF IR!WellFormed
<1>3. args \in Seq(Slots) /\ [n \in DOMAIN args |-> Shown(args[n])] = <<>>
  BY EmptySeq
<1> HIDE DEF args
<1>4. /\ e \in FrameOf(IR!Main) /\ e.pc = 1 /\ InBlock(e)
      /\ Shape(e, e.pc) = Compiled!Entry(IR!Main, [n \in DOMAIN args |-> Shown(args[n])])
  <2> DEFINE f == IR!Main
  <2>1. f \in IR!Funcs /\ NoReg \in Regs \cup {NoReg}
    BY <1>2
  <2> HIDE DEF f
  <2>2. LET x == Frame(f, args, NoReg)
        IN /\ x \in FrameOf(f) /\ x.pc = 1 /\ x.return = NoReg /\ x.func = f /\ InBlock(x)
           /\ Shape(x, x.pc) = Compiled!Entry(f, [n \in DOMAIN args |-> Shown(args[n])])
    BY <1>3, <2>1, Entered, ZenonT(60)
  <2> QED BY <2>2 DEF f
<1> HIDE DEF e
<1>5. Shape(e, e.pc) = Compiled!Entry(IR!Main, <<>>)
  BY <1>3, <1>4
<1>6. stack \in Seq(Frames) /\ Len(stack) = 1 /\ stack[1] = e /\ DOMAIN stack = {1} /\ stack # <<>>
  <2>1. e \in Frames
    BY <1>2, <1>4 DEF Frames
  <2> QED BY <1>1, <2>1
<1>7. IInv
  BY <1>1, <1>2, <1>4, <1>6 DEF IInv, StackTyped, OutcomeTyped, TrapSlot, CallsNested
<1>8. Activations = <<Shape(e, e.pc)>>
  BY <1>1, <1>6, ActivationsOf DEF Of
<1> QED BY <1>1, <1>4, <1>5, <1>7, <1>8 DEF Compiled!Init, Compiled!Main, IR!Main

LEMMA Stepped == IInv /\ [Next]_vars => IInv' /\ Abstract
<1> SUFFICES ASSUME IInv, [Next]_vars PROVE IInv' /\ Abstract
  OBVIOUS
<1>1. CASE Next
  BY <1>1, ConstStep, LoadStep, StoreStep, CallStep, IndirectStep, RuntimeStep, DrainStep,
     BranchStep, ReturnStep, EndingStep DEF Next
<1>2. CASE UNCHANGED vars
  <2>1. stack' = stack /\ pending' = pending /\ ffi' = ffi /\ outcome' = outcome
    BY <1>2 DEF vars
  <2>2. StackTyped' /\ CallsNested' /\ Activations' = Activations
    BY <2>1, Unmoved DEF IInv
  <2>3. OutcomeTyped' /\ TrapSlot'
    BY <2>1 DEF IInv, OutcomeTyped, TrapSlot, IR!AtInst, IR!Top, IR!Inst, IR!Block, IR!Last
  <2> QED BY <2>1, <2>2, <2>3 DEF IInv, Abstract, Compiled!vars
<1> QED BY <1>1, <1>2

(* Every reachable state is nested, typed, and holds a request only at its  *)
(* own runtime call.                                                       *)
LEMMA Invariant == Spec => []IInv
<1>1. Init => IInv
  BY Initial
<1>2. IInv /\ [Next]_vars => IInv'
  BY Stepped
<1> QED BY <1>1, <1>2, PTL DEF Spec

(* For every program the lowering can produce, every frame keeps the shape *)
(* of its function and the stack its limit.                                *)
THEOREM TypeCorrect == Spec => []TypeOK
<1>1. IInv => TypeOK
  <2> SUFFICES ASSUME IInv PROVE TypeOK
    OBVIOUS
  <2>1. ASSUME NEW n \in DOMAIN stack
        PROVE  /\ stack[n].regs \in [Regs -> Slots]
               /\ stack[n].locals \in [1..Program[stack[n].func].locals -> Slots]
               /\ stack[n].pc \in 1..(Len(IR!Block(stack[n]).insts) + 1)
               /\ stack[n].return \in Regs \cup {NoReg}
    <3>1. stack[n] \in Frames /\ InBlock(stack[n])
      <4>1. stack \in Seq(Frames) /\ \A m \in DOMAIN stack : InBlock(stack[m])
        BY DEF IInv, StackTyped
      <4> QED BY <4>1, LenProperties, ElementOfSeq
    <3>2. stack[n] \in FrameOf(stack[n].func)
      BY <3>1, FrameFields
    <3> QED BY <3>1, <3>2, FrameFields DEF InBlock, FrameOf
  <2> QED BY <2>1 DEF IInv, StackTyped, TrapSlot, OutcomeTyped, TypeOK
<1> QED BY <1>1, Invariant, PTL

(* A result always reaches the register its own call names, however calls  *)
(* nest: the frame that waits below another is one past the call that      *)
(* pushed it, so that exec_loop may look back at `pc - 1`.                 *)
THEOREM ResultsReachCallers == Spec => []CallsNested
<1>1. IInv => CallsNested
  BY DEF IInv
<1> QED BY <1>1, Invariant, PTL

(* Pooled frames, the explicit stack and the trap slot are invisible: the  *)
(* interpreter runs every program exactly as the compiled one may.         *)
THEOREM Refinement == Spec => Refines
<1>1. Init => Compiled!Init
  BY Initial
<1>2. IInv /\ [Next]_vars => [Compiled!Next]_(Compiled!vars)
  BY Stepped DEF Abstract
<1> QED BY <1>1, <1>2, Invariant, PTL DEF Spec, Refines, Compiled!Spec
=============================================================================
