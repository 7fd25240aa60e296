# Verification of the CoolBasic compiler and runtime

This directory holds TLA+ models of the parts of the compiler and its runtime
whose correctness depends on sequences and interleavings that tests hardly
reach, the TLC configurations that check them on small instances, and proofs
checked by TLAPS for every instance.

    tlc -config X.cfg M          # one run; the table of runs below names M and X
    tlapm M_proofs.tla           # one proof module

`PROJECT.json` maps every definition to the source lines it models, lists the
hazards the properties are aimed at, and gives for every property a mutation of
the model, of the kind a bug in that code would be, that violates it.

## 1. The system

A CoolBasic program goes through one pipeline and ends in one of two backends
that share one C++ runtime:

    source --lexer, parser--> AST --sema--> typed AST --lower--> IR --verify-->
        interpreter (cb-backend-interp)  --libffi--> runtime/*.cpp
        LLVM backend (cb-backend-llvm)   --link----> runtime/*.cpp

The language is fixed by its two implementations: what a statement does is
whatever **both** backends do, and much of what can go wrong is that they differ.
Hence the shape of this project: a small abstract specification of each promise,
and the machinery of each backend shown to implement it.

### Components, their state, and what makes them correct

| Component | State | Operations | What must hold | Model |
| --- | --- | --- | --- | --- |
| Type heap, interpreter (`heap.rs`, `interp.rs`) | slab entries, generations, free list; sentinel and tail per Type; deleted mark per variable | New, Delete (two forms), First, Last, Next, Previous, field loads and stores | a handle never comes to name another instance; lists hold the live instances in creation order | `InterpTypeHeap` |
| Type heap, native (`cb_type.cpp`, `func.rs`) | nodes that are never freed, lists created lazily | the same statements | the same promise, by other means | `NativeTypeHeap` |
| For Each over a Type (`lower.rs`) | loop variable, block | the lowered loop | every instance once, in order, whatever the body deletes | `TypeForEach` |
| Assignment to fields and elements (`interp.rs` `store_walk`, `func.rs` `lower_store_place`) | heap, arrays, structs, one walk in progress | StorePlace | the place the target named is written, and nothing else | `InterpStorePlace` |
| Calls (`interp.rs` `exec_loop`, `push_frame`; `func.rs`) | call stack, frame pool, trap slot | calls, returns, runtime calls, the end of the program | results reach their callers, frames show nothing of earlier ones, nothing runs after a request to end | `InterpCalls` |
| Strings of compiled programs (`func.rs`, `regtypes.rs`, `cb_string.cpp`) | refcount of every block, what each register and slot owns | load, store, call, return, release of temporaries | counts are exact, no live name dangles | `NativeStrings` |
| Objects (`cb_object.cpp`) | seven registries of raw pointers, a shared cursor | create, delete, clear, collisions, pick, lists, the tick | no registry keeps a freed object; everything allocated is in its chain | `ObjectRegistry` |
| Game loop and camera (`cb_gfx.cpp`, `cb_camera.cpp`) | frame flags, follow target | UpdateGame, DrawGame, DrawScreen, CameraFollow | each frame updated and drawn as often as asked | `GameLoop` |
| Sound (`cb_sound.cpp`, `cb_sound.h`) | generation pool of voices, handles of the program | Play, Set, Stop, Delete, the reaper, the flush at exit; the mixer thread | a handle addresses its own playback only; no voice leaks | `SoundChannels` |
| Lexer and parser (`lexer.rs`, `parser.rs`) | bytes to tokens to trees; recovery points, depth, statement ends | tokens, statements, expressions, recovery | what is accepted is read whole and as written; the manual's programs are accepted; recovery advances | `Lexer`, `Parser`, `Reading` |
| Driver (`cb-driver`) | flags, files visited, diagnostics, exit code | include expansion, dumps, check, run | a file is pasted once, whole, before what follows its Include; every error reaches the exit code | `CommandLine`, `Includes`, `Driver`, `Reading` |
| Semantic analysis (`check.rs`, `scope.rs`, `types.rs`, `convert.rs`) | scopes, types and conversions by node, overload sets | the declaration passes, checking a statement | lossy conversions are reported, the best overload is taken, no checked program meets an operation on the wrong types | `Sema`, `Values`, `Overloads`, `Compile` |
| Lowering (`lower.rs`) | blocks, registers, slots, loops and labels around | every statement and expression | the code does what the trees mean | `Lowering`, `Compile` |
| IR verifier (`verify.rs`) | registers defined so far | the checks of functions and blocks | finds nothing in what the lowering makes | `Verifier`, `Compile` |
| Interpreter (`interp.rs`, `value.rs`, arrays in `heap.rs`) | frames, globals, arrays | every instruction and terminator | values keep the type of their slot; stops only at a runtime error | `Machine`, and the modules above |
| Lifecycle (`cb_host.cpp`, `cb_standalone.cpp`) | teardown registry, exit latches | | teardown once, re-entrantly | partly, in `InterpCalls` and `SoundChannels` |
| Runtime catalog | symbol tables | reconciliation with the bindings | | not yet |
| Files, memory blocks, native arrays, input, maps | handle tables, cursors, last frame's keys | | bounds, edges | not yet |
| Diagnostics, math, string functions, system, drawing | | pure functions or I/O | | no |

### How they interact, and what is hard

- **Compiled code and interpreter to runtime**: synchronous C calls. The runtime
  cannot unwind the interpreter: it leaves a request in a thread-local slot, read
  when the call returns. The compiled program's host ends the process at once.
- **DrawScreen to objects, camera and sound**: the flip runs the object tick
  (which frees objects), the camera's follow step (which reads one through a raw
  pointer) and the frame hook (which reaps voices). Order matters.
- **The mixer thread** is the one true concurrency: it may end a voice between any
  two steps of the program or the reaper.
- **Delete during a walk**: both For Each and the object enumeration walk lists
  that the loop body changes.
- **Handles kept by the program** outlive what they name: Type references,
  sound channels, collision partners, the followed object.
- **Findings kept by node**: the checker leaves types, conversions and chosen
  functions in tables by node, and the lowering applies what it finds there; the
  verifier that could notice a mismatch runs in debug builds only.
- **Recovery**: the parser drops tokens up to a statement boundary and goes on; it
  must neither stand still nor take what belongs to the next statement.
- **Partial failure**: a trap in the middle of an assignment, a voice whose
  attach fails, the end of the program with voices playing.

## 2. Modules

| Module | What it is |
| --- | --- |
| `TypeSpec` | what a user `Type` promises: live instances as a set of serial numbers |
| `InterpTypeHeap` | slab, sentinels, tails and statements of the interpreter; implements `TypeSpec` |
| `NativeTypeHeap` | the compiled program's heap; implements `TypeSpec` |
| `TypeForEach` | the lowered loop, over `InterpTypeHeap` (EXTENDS it: the body's statements are its actions) |
| `PlaceSpec` | the compiled address walk, as the contract of an assignment |
| `InterpStorePlace` | the interpreter's recursive walk as a machine, one step per call and return; implements `PlaceSpec` |
| `CallSpec` | calls of the compiled program, as the contract |
| `InterpCalls` | frames, pool, result registers and trap slot; implements `CallSpec` |
| `NativeStrings` | the retains and releases around every instruction, against the counted blocks |
| `ObjectRegistry` | the registries, one action per command, and the tick |
| `GameLoop` | the frame around the tick, over `ObjectRegistry`, with the camera |
| `ChannelSpec` | what a SoundChannel promises |
| `SoundChannels` | pool, reaper, flush, mixer; implements `ChannelSpec` |
| `Lexer`, `Parser` | from pieces of text to tokens, from tokens to trees; `Parser` is a machine with the Rust calls in progress as its stack |
| `CommandLine` | the command line: includes, reports, exit code; what the lexer and the parser make of a file is a parameter of its actions |
| `Includes` | the command line over any files and whatever is made of them (EXTENDS `CommandLine`); this is what is proved about |
| `Driver` | the command line with the lexer and the parser in place (EXTENDS `Parser`, `CommandLine`) |
| `Reading` | what the front end promises, stated without the parser: printing, precedence, layout |
| `Values` | types, conversions, operators and the interpreter's values |
| `Overloads` | which function of a name a call means (EXTENDS `Values`) |
| `Sema` | scopes, declaration passes, every check (EXTENDS `Parser`: its trees, its tables by node; and `Overloads`) |
| `Lowering`, `Verifier` | checked trees to blocks; the checks on the result |
| `Machine` | the interpreter on lowered code, an instruction a step |
| `Meaning` | what the manual says a checked program does, computed on its trees |
| `Compile` | the composition: one program parsed, declared, checked, lowered, verified and run |
| `TypeForEach_proofs` (with `InterpTypeHeap`), `NativeTypeHeap_proofs`, `InterpStorePlace_proofs`, `InterpCalls_proofs`, `NativeStrings_proofs`, `ObjectRegistry_proofs` (with `GameLoop`), `SoundChannels_proofs`, `FrontEnd_proofs` (over `Includes`, `Values` and `Overloads`) | theorems and their proofs |
| `MC*` | instances for TLC; `ObjectRegistry` and `GameLoop` need none |

`TypeSpec` and `PlaceSpec` are deterministic: from a state and a statement they
allow one next state. `Refines` asks for that very step: a statement of either Type heap
must be `TypeSpec`'s statement of the same name on the same variables (`Run`), and the
step in which a `StorePlace` walk returns must be the compiled assignment; a statement
that is lost, or a trap, is no stutter. Both backends refining the same one
therefore means that they agree, statement by statement, trap by trap.

The code does not keep all that `TypeSpec` and `PlaceSpec` say, and where it does not, the
programs are left out by name (section 5): both Type heaps are checked and proved for
programs that access no field through a variable they deleted and have not assigned since
(`MarkedAccesses = FALSE`: `TypeSpec` traps there as the manual says, the code does not),
`InterpTypeHeap` for those that copy no rewound variable (`SentinelCopies = FALSE`),
`NativeTypeHeap` for those that do not delete a variable twice in a row
(`DoubleDeletes = FALSE`), and `InterpStorePlace` for targets that do not come back to a
place they passed.

### State and code

- *Type heap.* `entries`, `generations`, `freeList` are the fields of `Slab`;
  `sentinel` and `tail` those of `TypeList`; `slots` is a frame's `locals` with
  their deleted flag. `born` and `issued` are auxiliary: which handle the k-th New
  returned. One action is one statement, with every IR instruction it lowers to.
  The refinement maps a handle to the serial number it was issued for; stale
  handles keep theirs, which is only well defined because of `HandlesUnique`. `done`, the
  statement executed last, and `turn`, which flips with each, are auxiliary: they say which
  of `TypeSpec`'s statements a step must be, and that one which changes nothing is a step all
  the same. No guard reads them, and the runs leave them out of the states with a VIEW
  (`HeapAndLoop`, `HeapAndVariables`); TLC checks the action properties on every step
  it generates, so nothing is lost by it.
- *Native heap.* `nodes` is memory by address; `lists` are the lazily created
  list heads. `Delete` unlinks and flags a node and leaves its own links alone. `rewound`
  is auxiliary: the code has no mark on a variable, and the two constants that leave
  programs out need to know of one.
- *StorePlace.* `walk` is the recursion of `store_walk`: `calls` holds what each
  suspended call took out of the heap, or which array it has borrowed. The
  abstract store is the store as it was before the walk until the walk ends; the step of
  return is then `PlaceSpec`'s assignment, its write or its trap.
- *Calls.* `stack` is `call_stack`; a frame has `pc`, `regs`, `locals` and
  `return_reg`. The program is a CONSTANT: any set of functions with any blocks
  that the lowering may produce (`WellFormed`). The refinement takes one off the
  pc of every waiting frame and shows `Void` as the default.
- *Strings.* lower.rs lowers expression trees so that a register is read once;
  the registers of a frame are a stack, and each entry says what it owns. A frame's
  bookkeeping (`emit_entry`, `release_locals`, release points) is per instruction.
- *Objects.* `w` is the file's statics as one record, so that the tick, which calls
  delete for each expired object, is a function of the world. Objects are numbers in
  creation order; `memory` says whether the pointer is still good.
- *Game loop.* `frame` and `flipped` count calls and passes between two flips.
- *Text.* A source is a sequence of pieces: a word, a digit, a mark, a blank. A token
  knows where it starts and ends; digits are kept because literals are converted.
- *Parser.* `p.todo` is the list of things the `parse_` functions in progress still
  have to do, `p.nodes` the finished trees, `p.stuck` the position of the last forced
  advance. A step of `ParseStep` goes from one statement or block end to the next;
  `?` drops items down to the one that recovers. Trees are `<<tag, child, ...>>`.
- *Driver.* `work` is the recursion of `expand`, a stack of files with the statements
  left to paste, `arena` the programs of the files parsed so far, `merged` the program
  pasted together. What the lexer and the parser say of a file is a parameter of `Start`,
  `Descend` and `EndParse`; what semantic analysis finds and how a run ends are choices.
- *Checker and lowering.* `c` is the `Checker`, `l` the `Lowerer` inside one function,
  `ir` the `Program`. Both are records passed along, one operator per Rust function;
  a `NodeId` is the tree itself, which the positions of its tokens make unique. A
  `Convert` instruction keeps the tree it converts where the code keeps its span.
- *Interpreter on code.* `m.frames` is `call_stack`, `m.out` what the runtime was called
  with. Numbers are small: `Bits` gives the integer types 2, 4, 8 and 16 bits, so that
  every boundary is met; a Float is a multiple of 1/`Unit`, rounded down.
- *Meaning* is not a model of code: it is the other side of `RunsAsWritten`, with
  control as a signal and variables by name, without blocks, registers or slots.
- *Sound.* `pool` is the `GenPool`, `issued` the packed handles the program holds;
  `pc` is where the runtime is inside the reaper or the flush, so that the mixer
  can end voices between its steps.

## 3. Runs

| Run | Module, cfg | What it shows | Bounds and why they suffice |
| --- | --- | --- | --- |
| `type_heap_for_each` | MCTypeForEach, TypeForEach | the interpreter's lists, free list and handles stay right, no `expect` fails, `TypeSpec` is implemented statement by statement, before and during a loop; a loop visits in order, skips none, keeps its place when the variable is deleted, and ends | 2 Types on one slab, 3 variables, 3 News: a slot is freed and reused by the other Type while a stale reference to it survives; first, middle, last and only instance are deleted; 2 statements of body per iteration: the current and a neighbour deleted, or deleted and created |
| `native_type_heap` | MCNativeTypeHeap, NativeTypeHeap | a live link never reaches a deleted node; `TypeSpec` is implemented statement by statement | 1 Type (lists share nothing), 2 variables, 3 News |
| `store_place` | MCInterpStorePlace, StorePlace | traps change nothing; when a walk that does not come back is over, the write or trap of the address walk has happened | 2 instances, 1 array, 1 Struct, cyclic heaps, targets of 3 projections: enough to pass an instance, come back to it, and trap two levels deep |
| `objects` | ObjectRegistry, Objects | registries valid, chains exact, enumeration forward, contacts of a tick fresh | 2 objects (a collision needs two), one check, lives of one tick |
| `game_loop` | GameLoop, GameLoop | frames complete, rogue emitters drain | one emitter or floor object, particles of 2 ticks, 2 explicit calls per frame |
| `game_loop_follow` | the same, GameLoopFollow | *violation*: see findings | |
| `sound_channels` | MCSoundChannels, SoundChannels | handles, voices, teardown, reaping; `ChannelSpec` is implemented | 3 plays on recycled slots, one sample and a stream, generations modulo 5 |
| `native_strings` | MCNativeStrings, NativeStrings | counts exact, no dangling name | 2 blocks, calls to depth 2, 2 registers waiting, 1 leaked temporary; blocks are symmetric |
| `interp_calls` | MCInterpCalls, InterpCalls | results delivered, `CallSpec` implemented | depth 4, a recursive function, indirect and null calls, both kinds of request |
| `reading` | MCReading, Reading | what is accepted prints back to its tokens and keeps a single-line If on its line, the manual's programs are accepted, comments mean nothing, files are pasted once, as a whole and before what follows their Include, complaints reach the exit code, recovery moves on | twelve programs that use every statement and block; each with one token left out, or one of 14 put in, at every place; every text of up to 3 of the 13 pieces that begin, join and end tokens; 216 main files of up to three statements that include themselves, two files that include each other, and a missing one; depth 4, literals of 3 digits |
| `compile` | MCCompile, Compile | the verifier accepts, the run is what the text means, values keep their types, only runtime errors stop a program, lossy conversions were reported at their expression, no overload of a call fits its arguments as well as the one taken | 245 programs: 198 that put two types, an operator and a literal together with values past the boundaries of the small types; 14 of loops, branches and jumps nested in each other; 12 of recursion, overloads (which counting exact matches and ranking widening before narrowing decide differently, too), function pointers and globals; 9 of arrays and the errors that stop a program; 2 of Types and Structs (not run); 10 with faults, most in several places; depth 6, 4 calls, 9 calls of the runtime |
| `compile_defaults` | MCCompile, CompileDefaults | *violation*: see findings | |

Runs with `CHECK_DEADLOCK FALSE` are of systems that stop: a program traps, ends, or
(in the heaps) has made all the instances of its bound and deleted them; a text has been
read. The runs
of objects, game loop and strings never stop, and deadlock is checked there.

Every bound is a CONSTANT named in the module that uses it. They cap counters in
guards only (`MaxNews`, `MaxPlays`, `MaxBody`, `MaxCalls`, `MaxChecks`, `MaxLeaks`,
`MaxPath`, `MaxDeletes`, `MaxOut`); `GenMod`, `GenerationMod` and `LifeMod` stand for 2^32;
`MaxDepth` is `MAX_CALL_DEPTH` in `InterpCalls` (`MaxCalls` in `Machine`), the parser's
`MAX_RECURSION_DEPTH` in `Parser`, and a bound in `NativeStrings`; `MaxDigits` and
`MaxCount` are the digits of the largest literal and count. A program's number of
states is finite without a bound: the parser and the compiler are deterministic.

`compile` and `reading` are breadth over inputs rather than over interleavings: every
behaviour is one input processed to its end. Their inputs are chosen so that each
definition of the modules is used by some program, the faulty ones included.

Three more configurations show deviations of section 5 and are not among the runs:
StorePlaceLost (MCInterpStorePlace), NativeStringsLateCall (MCNativeStrings) and
CompileForLong (MCCompile). Each ends in a counterexample.

### Fairness

- `TypeForEach`: weak fairness of entering the loop, unless the program stopped at a
  trap, and of the loop's next step once it is in: a program that reaches its loop enters
  it, the interpreter keeps executing, and a body has finitely many statements. Only finitely many News are
  made: a body that creates an instance in every iteration does run for ever.
- `GameLoop`: weak fairness of Screen and DrawScreen: a game opens its display and
  draws frame after frame. Nothing is assumed of UpdateGame or DrawGame.
- `Driver` needs none: `MovesOn` says of each step that it consumes something.
- `SoundChannels`: weak fairness of the hook (the runtime finishes what it began)
  and of DrawScreen, from which the hook is called. Nothing is assumed of the mixer.

## 4. Proofs

All theorems hold for every value of the constants that satisfies the modules'
ASSUMEs. Leaves are checked by Z3, Zenon and LS4.

**`TypeForEach_proofs`** (assuming `SentinelCopies = FALSE`, and the two refinements
`MarkedAccesses = FALSE` as well). About the heap:
`TypeCorrect`, `HandlesNeverReused`, `FreeListIsExact`, `ListsInCreationOrder`,
`NeverPanics`. The properties of the run are not inductive. `IInv` adds: sentinels stay
where they were put (`SentinelsInPlace`), a slot's generation is bounded by the News and a
live instance's generation by the frees (`GenerationsCountFrees`), every instance sits in
a handle that was issued and a vacant slot's handles are stale (`IssuedHandles`), and
every reference in a variable or a field is Null, issued for the right Type, or the
sentinel in a variable marked deleted (`References`). The last is what the
assumption is for: a copied sentinel would be an unmarked reference to it.
`HandlesUnique` follows because a slot is only reissued after a free has advanced its
generation, and fewer than `GenMod` frees can happen (`InterpTypeHeapAssumption`:
`GenMod > MaxNews`).

About the statements and the loop: `Refinement` and `LoopRefinement`: the slab implements
`TypeSpec` statement by statement, alone and under a For Each: each action is the `Run` of
the statement it says it did. The mapping gives a handle the serial number it was issued for; that it is well defined, and that the neighbour the code
finds through links is the neighbour of the serial number, is where `HandlesUnique` and
`CreationOrder` of the heap's `IInv` are used. Then `EachVisitedOnce` and
`RewindsKeepTheirPlace`. `LoopInv` says where the loop is: before its
condition (`AtDoor`) the variable names the first live instance not visited, and in the body
(`Divides`) the variable's place, rewound or not, divides what is alive into visited and
still to come. What the
body does is any statement of the heap, so the lemma every case uses is what a statement
may do to the instances that live (`HeapMoves`): one dies, or one is born behind the rest.

**`NativeTypeHeap_proofs`**: `DeletedStayUnreachable`, without any assumption, and
`Refinement` (assuming `DoubleDeletes = FALSE` and `MarkedAccesses = FALSE`), again statement by
statement. Memory is only ever extended, so the order
of addresses is the order of creation (`AddressesInOrder`); the nodes that are linked
are threaded by address, both ways and from the head and the cached tail (`Threaded`),
and a pointer stays in its Type's list (`Pointers`). Deleted nodes keep their own links
and are still pointed at by variables; the invariant says nothing of those links,
which is why a second Delete through one breaks the refinement and not the lists.

**`SoundChannels_proofs`** (assuming `PlaysAssumption`: `MaxPlays < GenerationMod`,
that is fewer than 2^32 playbacks): `ChannelReachesOwn`, `VoicesAreHeld`,
`TeardownLeavesNothing`, `TypeCorrect`, and `Refinement`: the pool implements
`ChannelSpec`. `IInv` is the type invariant, the pool's bookkeeping (handles issued for
a slot have older generations than it, slots hold voices, every voice is found, the
free list is exact, generations are bounded by the plays) and what the flush has
done so far. The mixer may end any voice at every step of the proof.

**`InterpCalls_proofs`** (assuming only `CallAssumption`: a well-formed program):
`TypeCorrect` (frames keep the
shape of their function), `ResultsReachCallers` and `Refinement`: for **every program**, every
register set and every depth limit, the interpreter's frames, its pool and its trap
slot do what the compiled program's calls do. `IInv` is `StackTyped`, `OutcomeTyped`,
`TrapSlot` (a request is in the slot only while its own runtime call is executed) and
`CallsNested`, without which Return would write a result into a register its caller
does not read. The run checks one program, the theorem all of them.

**`InterpStorePlace_proofs`** (constants in Nat, nothing else): `TrapsChangeNothing` and
`Refinement`, for any number of instances and arrays, every store and targets of any length.
In the middle of a walk the store is not the one before it: fields are taken out and
Structs are in the hands of suspended calls. The invariant looks at what the returns will
make of it: `Unwinds` holds of a store and a list of suspended calls if putting back what
each of them took leads to a given store. `PutsBack` says that until the value is
stored the calls lead to the store before the walk; it holds on every path, so a trap
changes nothing on every path. `Done` says that from then on they lead to that store
with the value at its place, which needs a path that does not come back.
For the refinement, `Reached`, `Passed` and `Untouched` relate the walk to the address walk
(`PlaceAt`, a recursive function that the lemmas unfold one projection at a time): on a path
that does not come back, the places ahead are as they were and the walk stands where
the address walk does, so that its return is the address walk's assignment. `Covered` and `FullHands` say that the only holes (`Void`) are the
ones suspended calls will fill.

**`NativeStrings_proofs`** (assuming `Disciplined`: programs without the two features
`late_call` and `inner_of_call`, with which the code does free too early, see section 5):
`CountsStayExact` and `NothingDangles`, for any number of blocks, depth of calls, length of
expression, and any number of leaks. `CountsExact` alone is not inductive: releasing
a count that is already 0 does nothing, so each release must be of something that owns.
`IInv` adds that a frame waiting for a call has only owned registers left to read
(`Suspended`), and that in the running frame a view names what a variable holds now
(`Views`). The count of a block is split into globals, waiting frames and the running
frame (`Books`); an instruction moves owners from what it reads to what it defines
or to the leaks, and one lemma (`Ran`) does the sum for all instructions and for the
release of a call's arguments. `NothingDangles` follows: what owns a block counts, so the
count is not 0, and a view names something that owns.

**`ObjectRegistry_proofs`** (no assumption): `RegistriesStayExact`, `WalksGoForward`,
`TickRecordsTheLiving`, and over `GameLoop` `RegistriesExactInGames` and `FramesComplete`, for any
number of objects, any mix of kinds and any program. The tick frees objects in the
middle of walking the registries, so the invariant is of a world, `Good(s)`, and is shown
of every intermediate one: lists and draw chains partition what is allocated (`Chained`), the
pick list, the picked object and the checks hold live objects that are no emitters (`Held`),
rogues are stopped emitters (`Emitters`), and the live list is in creation order (`Births`),
which is what makes a walk interrupted by deletions go forward (`Walked`). The loops of the code are
recursive functions over 0..n; what holds after them is shown with the well-founded order of
the naturals (`UpTo`), the step of each loop being a lemma of its own.

**`FrontEnd_proofs`** is about the parts of the front end that recurse over no tree.

*Includes* (over `Includes`, with no assumption but that a program's parts are named by
sequences of strings and exit codes are numbers): `StatementsPastedOnce`, `FilesPastedWhole`,
`IncludesComeFirst`, `ErrorsReachExit`, for any files, any way they include each other, and
whatever the lexer and the parser say of them. None of the four is inductive. The stack of
open files is what has to be described: its files are distinct and entered (`Stack`), what is
left of each is the end of its program (`Waiting`), every statement of a parsed file waits, is
pasted, or names a file that was entered (`Books`), and what is pasted of an open file is what
was begun of it, files opened later being pasted later (`Order`). That two files do not
interleave follows because one that stands inside another is no longer open, and a closed file
is not entered again (`Entered`). `Complained` says what the driver knows of the complaints
at each stage. `Driver` takes the same actions with the lexer and the parser in place; they are
RECURSIVE, so that composition is what the run `reading` checks.

*Numbers* (over `Values`, with `BitsAssumption`: widths that grow from Byte to Long, whatever
they are; the run has 2, 4, 8, 16 where the code has 8, 16, 32, 64): `NarrowingIsLoss`, the warning
is given between two integer types exactly if some value changes; `ConversionsKeepTypes`,
`OperatorsKeepTypes` and `UnaryOperatorsKeepTypes`, where the checker lets an operator be
applied, the interpreter has an operation for the operands as they are converted, and its value
is of the type the checker says, within its range. Two exceptions are hypotheses: `Not` of a
Float, for which the interpreter has no operation (section 5), and the remainder by a Float
zero, which is NaN and has no counterpart in `Values`. These are the kernels of `LossIsWarned`,
`TypesAgree` and `OnlyTraps`. Powers of two, the bits of a number and `^` are recursive
functions; their values are shown to exist and to be bounded with the well-founded order of the
naturals (`UpTo`, `Recursion`).

*Overloads* (over `Overloads`, no assumption): `SomeOverloadIsBest`, if any overload takes the
arguments, one is best. The code chooses by counting exact matches; `OverloadFitsBest` says that
what it settles on is never behind by the manual's ranking (`Fit`: exact, widening, narrowing): no
other overload that takes the arguments fits each of them as well, but for the other of a sub and a
function. An argument that fits a variant exactly fits one that fits as well exactly too, so the
exact matches of the one are among those of the other. This is the kernel of `BestOverload`.
`OverloadOrderPlaysNoPart` says that with the overloads in another order (a bijection of their
places) a call is resolved to the same one.

Only model-checked:

- liveness (`Terminates`, `RoguesDrain`, `StoppedIsReaped`), which needs ENABLED;
- what the lexer and the parser promise (`ReadsBack`, `AcceptsTheManual`, `LayoutFree`,
  `MovesOn`), and the six properties of `Compile` as properties of whole programs: their
  operators recurse over trees and are RECURSIVE. What a recursive definition computes for
  every input is out of the prover's reach, so the size of programs is bounded by the runs there.

## 5. What the code does otherwise than its documentation says

Two runs end in a violation on purpose:

- `game_loop_follow`: the camera keeps following an object whose life ran out.
- `compile_defaults`: `step(2.5)`, where the second parameter has a default, runs without
  it. `lower_call` passes the arguments there are; the interpreter (whose
  `debug_assert` about the number is off in a release build) leaves the parameter
  without a value, so using it stops the program.

More such behaviours were met while modelling. The models exclude them by a named
CONSTANT, a narrower property or the choice of programs, and they have no run of their
own:

*Runtime and backends*

- *An assignment through a field of its own instance* is lost in the interpreter
  (interp.rs:1618): with `a.link = a`, after `a.link.link = Null` the walk puts the field
  it took back over what was written. The compiled program stores it.
  StorePlaceLost shows it.
- *A call after a Struct was loaded* may free its string (func.rs:481;
  docs/cb_syntax.md:504): `f(g, change())`, where `change` assigns `g.name`, passes the
  freed string. NativeStringsLateCall shows it.
- *Voices outlive the end* of a program that plays sounds and opens no display: only
  the display registers the teardown (cb_sound.cpp:83, a known edge of
  docs/features/archive/FD-043).

- *A copied sentinel* (interp.rs:798, heap.rs:143; docs/cb_syntax.md:439). After
  `Delete a` of the first instance, `a` holds the list head; `b = a : Delete b` frees
  it and the next New fails an `expect`. `SentinelCopies = TRUE` shows it.
- *The deleted mark is dropped by every load* (interp.rs:554; docs/cb_syntax.md:431,
  468-471, 1172): a field access through `a` after `Delete a` reads or writes the predecessor
  where the manual and `TypeSpec` have a trap; compiled programs have no mark at all.
  `MarkedAccesses = TRUE` shows it.
- *Deleting twice in a row* is a trap in the interpreter and deletes the predecessor
  in a compiled program (cb_type.cpp:191; docs/cb_syntax.md:432, 1179).
  `DoubleDeletes = TRUE` shows it.
- *NextObject skips an object* when one before the cursor is deleted during the walk
  (cb_object.cpp:586; docs/cb_runtime.md:500). `EnumeratesInOrder` claims order only.
- *GetCollision returns an object deleted since the tick* (cb_object.cpp:594, 1306;
  docs/cb_runtime.md:402). `ContactsFresh` is about the tick.
- *A string of an inner Struct of a call's result* (`MakePair().a.name`) is released
  before its last use (regtypes.rs:282). The feature `inner_of_call` shows it.
- *A function that ends without Return* leaves `Void` in its caller's register
  (interp.rs:416) where a compiled one returns the default of its type (func.rs,
  `Return`): using the result as a number is then an error in the interpreter only.
  `InterpCalls` lets `Void` stand for the default.
- *A path that reaches one array twice* panics in the interpreter (interp.rs:1635),
  which borrows it; `Refines` of `InterpStorePlace` excludes paths that come back.

*Lexer and parser*

- A single-line `If` takes an `Else` on the next line for its own (parser.rs:1698;
  docs/cb_syntax.md:845). `ReadsBack` leaves such texts out (`ElseOnNextLine`) and
  asks of every other that a single-line `If` lies on one line.
- The body of a single-line `If` may be a block statement that ends lines below
  (parser.rs:1771). No text of the run has one.
- E0299, which its comment calls unreachable (parser.rs:1598), is reported for an
  If, Function, Type or Struct at the end of the file, and for a second `Else`.
- A stray statement keyword in the body of a Type or Struct is neither a field nor
  an end, and recovery stops in front of it: the parser loops (parser.rs:2348). `MovesOn`
  is about the other texts.

*Checker, lowering, interpreter*

- *For over a variable that exists* (lower.rs:1930; docs/cb_syntax.md:931): over a
  Long, the step and its zero are Ints and the loop stops with a type mismatch
  (CompileForLong shows it); over a Byte or Short, Ints are stored unconverted.
- *Overloads are ranked by their exact matches alone* (check.rs:1306-1364;
  docs/cb_syntax.md:1059): of `f(Byte)` and `f(Long)`, a call with an Int is refused as ambiguous
  (E0323) where the manual prefers the widening conversion, and of `f(Byte, Int)` and
  `f(Long, Float)`, one with two Ints means the first, for its one exact match. `BestOverload` and
  `OverloadFitsBest` are about calls that are accepted, and compare variants of which one
  fits every argument as well as the other.
- *And, Or* yield their right operand as it is, not 0 or 1, and the left one is
  rounded to an Int first, so that `0.4 And 1` is false (docs/cb_syntax.md:251).
- *Accepted, then stopped by the interpreter*: `Not` of a Float, a `Select` over a String
  (docs/cb_syntax.md:849), comparing arrays or function pointers, `<` on
  references (docs/cb_syntax.md:248).
- *Goto from a function to a label of the main program* is accepted and leaves a
  block without an end (docs/cb_syntax.md:978); labels are keyed by name over all
  functions, so equal ones may be refused by mistake (E0321).
- *An assignment to a Const* is accepted and dropped (docs/cb_syntax.md:671).
  `Const x = 5.5` without a type is an Int that holds a Float.
- *A local with the name of a global* is one variable to the checker and another to
  the lowering.
- *Arguments of a call through a function pointer* are neither checked nor converted;
  nor are the variable of a For Each that exists, its source, the target of a Redim,
  a type name nobody declared, or `Bool` inside another type.
- *For Each over an array* evaluates its source again in every iteration
  (lower.rs:2244): a body that redimensions the array changes the loop it is in.

Numeric edges documented as kept quirks: `ObjectLife` counts an unsigned word.

## 6. What is left out, and the plan

Left out of the models on purpose: values of numbers and strings where no property
tells them apart, geometry, drawing, gain and pan, allocation failure, observers
(the debugger's callbacks), wording and place of diagnostics, `--bundle-runtime` and
`--setup-toolchain`, and the programs with Types or structs in `Machine`: those are
checked and verified in `Compile`, and what their instructions do is `InterpTypeHeap` and
`InterpStorePlace`. A Float of `Values` holds every Long exactly; the code's is an f64, so that a
Long beyond 2^53 loses digits on its way to a Float, about which `is_narrowing` (convert.rs:105)
says nothing. Infinity is one large number there, and NaN is left out; so of a
Float the theorems say that it is one, and of an integer that it fits its type.

The order of the work, the most important behaviour first; 1 to 8 and 12 are done:

1. `TypeSpec`, `InterpTypeHeap`, `NativeTypeHeap`, `TypeForEach`; proofs about the slab.
2. `PlaceSpec`, `InterpStorePlace`.
3. `ObjectRegistry`, `GameLoop`.
4. `NativeStrings`.
5. `ChannelSpec`, `SoundChannels`; proofs, the refinement included.
6. `CallSpec`, `InterpCalls`; proofs, the refinement included.
7. `Lexer`, `Parser`, `CommandLine`, `Includes`, `Driver`, `Reading`.
8. `Values`, `Overloads`, `Sema`, `Lowering`, `Verifier`, `Machine`, `Meaning`, `Compile`.
9. Lifecycle: the teardown registry (at most 8, without duplicates), the latches
   of `about_to_exit` and `cb_rt_exit`, a teardown that asks for the end again, an
   allocation failure that raises and then aborts.
   Property: every teardown runs exactly once, voices before `al_uninstall_system`.
10. The register-type fixpoint of `regtypes.rs`: terminates, least. The LLVM backend's
    conversions and arithmetic against `Values`.
11. Handle tables of files and memory blocks, native array sizes and redimensioning
    (overflow), input edges over frames, drawing targets, maps.
12. Proofs: done for every safety property and refinement of the runtime's and the
    backends' modules, for the command line, and for the kernels of the checker's properties
    (conversions, operators, the choice of an overload). What is left are definitions that recurse over trees.
