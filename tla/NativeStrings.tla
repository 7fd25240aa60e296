---------------------------- MODULE NativeStrings ----------------------------
(***************************************************************************)
(* The reference counts of strings in compiled programs: what              *)
(* crates/cb-backend-llvm/src/codegen/func.rs emits around every           *)
(* instruction that touches a String or a Struct with String fields, with  *)
(* the release points regtypes.rs computes, run against the counted blocks *)
(* of runtime/cb_string.cpp.                                               *)
(*                                                                         *)
(* lower.rs lowers an expression tree so that a register is read once, by  *)
(* the instruction that consumes it: a frame's live registers are a stack, *)
(* `pending'.  A Struct is modelled by one String leaf, which may sit in   *)
(* an inner Struct; array elements and the fields of Types behave like the *)
(* global variables.  The bytes of strings are abstracted, so an operation *)
(* that may return its operand, the empty string or a new block does any.  *)
(***************************************************************************)
EXTENDS Integers, Sequences, FiniteSets

CONSTANTS
    Blocks,      \* the blocks malloc can hand out
    Empty,       \* k_empty_string_instance, and the null of a struct global
    Programs,    \* what programs do: see the three names below
    MaxDepth,    \* bound on nested calls
    MaxPending,  \* bound on the registers waiting in a frame
    MaxLeaks     \* bound on leaked temporaries

ASSUME EmptyAssumption == Empty \notin Blocks
ASSUME BoundsAssumption == MaxDepth \in Nat /\ MaxPending \in Nat /\ MaxLeaks \in Nat

(* "structs": variables of a Struct type with String fields; "late_call": a
   call is made between reading a struct variable and using what was read;
   "inner_of_call": an inner struct is taken from a call's result.          *)
Features == {"structs", "late_call", "inner_of_call"}
ASSUME ProgramsAssumption == Programs \subseteq Features

VARIABLES
    rc,       \* refcount of each block; 0 is a block malloc may hand out
    leaked,   \* history: references dropped without a release
    globals,  \* contents of the global variables
    frames    \* the native call stack, main first

vars == <<rc, leaked, globals, frames>>
-----------------------------------------------------------------------------
Globals == {"gs", "gv"}    \* a String and a Struct variable
Locals  == {"ls", "lv"}    \* the same, as parameters or locals of a function
IsString(v) == v \in {"gs", "ls"}

Leaf == Blocks \cup {Empty}
\* A String register owns its block; a struct register is a borrowed view of
\* its variable, or the owned temporary a call returned.  `here' holds while
\* codegen is still in the IR block that defined the register.
Reg   == [kind : {"string", "view", "temp"}, leaf : Leaf, here : BOOLEAN]
Frame == [locals : [Locals -> Leaf], pending : Seq(Reg), args : 0..2]

Owned(r)  == r.kind # "view"
Str(l)    == [kind |-> "string", leaf |-> l, here |-> TRUE]
View(l)   == [kind |-> "view", leaf |-> l, here |-> TRUE]
Temp(l)   == [kind |-> "temp", leaf |-> l, here |-> TRUE]

Retain(c, l)  == IF l \in Blocks /\ c[l] > 0 THEN [c EXCEPT ![l] = @ + 1] ELSE c
Release(c, l) == IF l \in Blocks /\ c[l] > 0 THEN [c EXCEPT ![l] = @ - 1] ELSE c

\* The counts after release_reg of the operands `ops' that regtypes releases:
\* owned temporaries whose only use is in the block that defined them.
Released(c, ops) ==
    [b \in Blocks |->
        LET n == Cardinality({i \in DOMAIN ops :
                     Owned(ops[i]) /\ ops[i].here /\ ops[i].leaf = b})
        IN IF c[b] > n THEN c[b] - n ELSE 0]

Leaks(ops) ==
    [b \in Blocks |-> leaked[b] + Cardinality({i \in DOMAIN ops :
        Owned(ops[i]) /\ ~ops[i].here /\ ops[i].leaf = b})]

\* Bounds the leaks where they begin: what a state has leaked and, once it
\* returns to them, will leak.
BoundedLeaks ==
      Cardinality({n \in Blocks \X (1..MaxLeaks + 1) : n[2] <= leaked'[n[1]]})
    + Cardinality({p \in (1..MaxDepth) \X (1..MaxPending) :
        /\ p[1] <= Len(frames') /\ p[2] <= Len(frames'[p[1]].pending)
        /\ LET r == frames'[p[1]].pending[p[2]]
           IN Owned(r) /\ ~r.here /\ r.leaf \in Blocks}) <= MaxLeaks
-----------------------------------------------------------------------------
depth == Len(frames)
Top   == frames[depth]
\* What the running function names; main's own variables behave like globals.
Variables == {v \in Globals \cup (IF depth = 1 THEN {} ELSE Locals) :
                 IsString(v) \/ "structs" \in Programs}
Pending == Top.pending
Operands(k) == SubSeq(Pending, Len(Pending) - k + 1, Len(Pending))
Kept(k)     == SubSeq(Pending, 1, Len(Pending) - k)

\* One instruction: its last k registers are read, the counts become c, the
\* registers `out' are defined, then the operands are released.
Instruction(k, c, out) ==
    /\ Len(Kept(k) \o out) <= MaxPending
    /\ rc' = Released(c, Operands(k))
    /\ leaked' = Leaks(Operands(k))
    /\ frames' = [frames EXCEPT ![depth].pending = Kept(k) \o out]

\* A string computed from the strings `from': a new block, the empty string
\* or one of the operands, retained.
Computed(k, from) ==
    \/ \E b \in Blocks : rc[b] = 0 /\ Instruction(k, [rc EXCEPT ![b] = 1], <<Str(b)>>)
    \/ \E l \in from \cup {Empty} : Instruction(k, Retain(rc, l), <<Str(l)>>)

ConstString ==
    /\ \E b \in Blocks : rc[b] = 0 /\ Instruction(0, [rc EXCEPT ![b] = 1], <<Str(b)>>)
    /\ UNCHANGED globals

Content(v) == IF v \in Globals THEN globals[v] ELSE Top.locals[v]

Load(v) ==
    /\ v \in Variables
    /\ IF IsString(v) THEN Instruction(0, Retain(rc, Content(v)), <<Str(Content(v))>>)
                      ELSE Instruction(0, rc, <<View(Content(v))>>)
    /\ UNCHANGED globals

AllStrings(ops) == \A i \in DOMAIN ops : ops[i].kind = "string"
Leaves(ops) == {ops[i].leaf : i \in DOMAIN ops}

Concat ==
    /\ Len(Pending) >= 2 /\ AllStrings(Operands(2))
    /\ IF Empty \in Leaves(Operands(2))
         THEN \E l \in Leaves(Operands(2)) : Instruction(2, Retain(rc, l), <<Str(l)>>)
         ELSE Computed(2, Leaves(Operands(2)))
    /\ UNCHANGED globals

\* Comparing, measuring or printing a string, or a runtime function of it.
RuntimeCall ==
    /\ Pending # <<>> /\ AllStrings(Operands(1))
    /\ Instruction(1, rc, <<>>) \/ Computed(1, Leaves(Operands(1)))
    /\ UNCHANGED globals

IsStruct(ops) == \A i \in DOMAIN ops : ops[i].kind # "string"

\* s.name: the leaf, retained before the struct it came from is released.
GetField ==
    /\ Pending # <<>> /\ IsStruct(Operands(1))
    /\ LET l == Operands(1)[1].leaf IN Instruction(1, Retain(rc, l), <<Str(l)>>)
    /\ UNCHANGED globals

\* s.inner: the inner aggregate, extracted raw.
GetInner ==
    /\ Pending # <<>> /\ IsStruct(Operands(1))
    /\ Operands(1)[1].kind = "temp" => "inner_of_call" \in Programs
    /\ LET l == Operands(1)[1].leaf IN Instruction(1, rc, <<View(l)>>)
    /\ UNCHANGED globals
-----------------------------------------------------------------------------
\* store_slot_value, and the final store of lower_store_place: a view is
\* retained, an owned register moved in, and the old content released.
\* (A slip: the old content is released before the view is retained.)
StoredLate(c, r, old) ==
    IF Owned(r) THEN Release(c, old) ELSE Retain(Release(c, old), r.leaf)
Stored(c, r, old) ==
    IF Owned(r) THEN Release(c, old) ELSE Release(Retain(c, r.leaf), old)

\* A statement's value is the one register left; it moves whatever its block.
\* A String may also go into the field of a struct variable.
Store(v) ==
    /\ v \in Variables /\ Len(Pending) = 1
    /\ LET r == Pending[1]
       IN /\ IsString(v) => r.kind = "string"
          /\ rc' = Stored(rc, r, Content(v))
          /\ globals' = IF v \in Globals THEN [globals EXCEPT ![v] = r.leaf] ELSE globals
          /\ frames' = [frames EXCEPT ![depth].pending = <<>>,
                 ![depth].locals = IF v \in Locals THEN [@ EXCEPT ![v] = r.leaf] ELSE @]
    /\ UNCHANGED leaked

\* A call as a statement: its String result is dead and leaks, its struct
\* result is released right after the call.
Discard ==
    /\ Len(Pending) = 1 /\ Owned(Pending[1]) /\ Pending[1].here
    /\ IF Pending[1].kind = "temp" THEN Instruction(1, rc, <<>>)
         ELSE /\ leaked' = [b \in Blocks |-> leaked[b] + IF b = Pending[1].leaf THEN 1 ELSE 0]
              /\ frames' = [frames EXCEPT ![depth].pending = <<>>]
              /\ BoundedLeaks
              /\ UNCHANGED rc
    /\ UNCHANGED globals

\* And/Or in the middle of an expression: the code goes on in another block.
\* Only for a counted string that is owned does it make a difference.
Counted(r) == Owned(r) /\ r.leaf \in Blocks
Branch ==
    /\ \E i \in DOMAIN Pending : Pending[i].here /\ Counted(Pending[i])
    /\ frames' = [frames EXCEPT ![depth].pending =
           [i \in DOMAIN Pending |-> IF Counted(Pending[i])
              THEN [Pending[i] EXCEPT !.here = FALSE] ELSE Pending[i]]]
    /\ UNCHANGED <<rc, leaked, globals>>
    /\ BoundedLeaks
-----------------------------------------------------------------------------
\* The slots of a new frame: parameters hold the arguments, the rest is empty.
Params(ops) ==
    [v \in Locals |->
        LET mine == {i \in DOMAIN ops : (ops[i].kind = "string") = IsString(v)}
        IN IF mine = {} THEN Empty ELSE ops[CHOOSE i \in mine : TRUE].leaf]

\* emit_entry retains every parameter into its slot.
Entered(c, ops) == Retain(Retain(c, Params(ops)["ls"]), Params(ops)["lv"])

Call(k) ==
    /\ k <= Len(Pending) /\ depth < MaxDepth
    /\ k = 2 => (Operands(2)[1].kind = "string") # (Operands(2)[2].kind = "string")
    /\ "late_call" \in Programs \/ \A i \in DOMAIN Kept(k) : Owned(Kept(k)[i])
    /\ rc' = Entered(rc, Operands(k))
    /\ frames' = Append([frames EXCEPT ![depth].args = k],
                        [locals |-> Params(Operands(k)), pending |-> <<>>, args |-> 0])
    /\ UNCHANGED <<leaked, globals>>

LocalsReleased(c) == Release(Release(c, Top.locals["ls"]), Top.locals["lv"])

\* What Return makes of the counts: a view is retained before the locals are
\* released, anything else is handed off as it is.
\* (A slip: the locals are released first.)
LeftLate(r) == IF Owned(r) THEN LocalsReleased(rc) ELSE Retain(LocalsReleased(rc), r.leaf)
Left(r) == LocalsReleased(IF Owned(r) THEN rc ELSE Retain(rc, r.leaf))

Caller == frames[depth - 1]
CallArgs == SubSeq(Caller.pending, Len(Caller.pending) - Caller.args + 1, Len(Caller.pending))

\* Back in the caller: the result is bound, then the arguments are released.
Back(c, out) ==
    /\ rc' = Released(c, CallArgs)
    /\ leaked' = Leaks(CallArgs)
    /\ frames' = [SubSeq(frames, 1, depth - 1) EXCEPT
           ![depth - 1].pending = SubSeq(@, 1, Len(@) - Caller.args) \o out,
           ![depth - 1].args = 0]
    /\ Len(Caller.pending) - Caller.args + Len(out) <= MaxPending
    /\ UNCHANGED globals

Return ==
    /\ depth > 1 /\ Len(Pending) = 1
    /\ LET r == Pending[1]
       IN Back(Left(r), <<IF r.kind = "string" THEN Str(r.leaf) ELSE Temp(r.leaf)>>)

\* The end of a function: no value, or the default of its return type.
FallThrough ==
    /\ depth > 1 /\ Pending = <<>>
    /\ \E out \in {<<>>, <<Str(Empty)>>} \cup
           (IF "structs" \in Programs THEN {<<Temp(Empty)>>} ELSE {}) :
           Back(LocalsReleased(rc), out)
-----------------------------------------------------------------------------
MainFrame == [locals |-> [v \in Locals |-> Empty], pending |-> <<>>, args |-> 0]

Init ==
    /\ rc = [b \in Blocks |-> 0]
    /\ leaked = [b \in Blocks |-> 0]
    /\ globals = [g \in Globals |-> Empty]
    /\ frames = <<MainFrame>>

Next ==
    \/ ConstString \/ Concat \/ RuntimeCall \/ GetField \/ GetInner
    \/ \E v \in Globals \cup Locals : Load(v) \/ Store(v)
    \/ Discard \/ Branch
    \/ \E k \in 0..2 : Call(k)
    \/ Return \/ FallThrough

Spec == Init /\ [][Next]_vars
-----------------------------------------------------------------------------
Owners(b) ==
      Cardinality({g \in Globals : globals[g] = b})
    + Cardinality({p \in (1..depth) \X Locals : frames[p[1]].locals[p[2]] = b})
    + Cardinality({p \in (1..depth) \X (1..MaxPending) :
          /\ p[2] <= Len(frames[p[1]].pending)
          /\ Owned(frames[p[1]].pending[p[2]])
          /\ frames[p[1]].pending[p[2]].leaf = b})

(* The count of every block is the number of variables and temporaries that
   own it, plus what regtypes.rs deliberately leaks: no path through stores,
   calls, parameters and returns retains or releases once too often.        *)
CountsExact == \A b \in Blocks : rc[b] = Owners(b) + leaked[b]

\* The registers the program still reads: not the arguments of a call under
\* way, which the callee has copied.
StillRead(f) == SubSeq(f.pending, 1, Len(f.pending) - f.args)

Alive(l) == l = Empty \/ rc[l] > 0

(* No variable holds, and no register that is still to be read names, a
   string whose block was freed ("no UAF", struct_return_string.cb:3).      *)
NoDangling ==
    /\ \A g \in Globals : Alive(globals[g])
    /\ \A d \in 1..depth :
        /\ \A v \in Locals : Alive(frames[d].locals[v])
        /\ \A i \in DOMAIN StillRead(frames[d]) : Alive(StillRead(frames[d])[i].leaf)
=============================================================================
