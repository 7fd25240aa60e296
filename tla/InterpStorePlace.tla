-------------------------- MODULE InterpStorePlace --------------------------
(***************************************************************************)
(* The interpreter's StorePlace: store_walk (interp.rs) descends the path  *)
(* from the root variable's slot and writes in place.  To step through a   *)
(* field of an instance it takes the field's value out of the heap, leaves *)
(* Void there, and puts the value back when the rest of the walk returns;  *)
(* to step through an array it holds the array's RefCell borrowed.         *)
(*                                                                         *)
(* The recursion is a machine here: one step per call, one per return.     *)
(***************************************************************************)
EXTENDS Integers, Sequences, SequencesExt

CONSTANTS NumInstances, NumArrays, MaxDeletes, MaxPath

ASSUME Bounds == NumInstances \in Nat /\ NumArrays \in Nat /\ MaxPath \in Nat

VARIABLES store,      \* what every container holds
          born,       \* the containers New has made
          dead,       \* the instances deleted since
          trap,       \* "none", the trap that ended the program, or "panic"
          walk        \* the store_walk in progress

vars == <<store, born, dead, trap, walk>>

Heap == INSTANCE PlaceSpec

Void == -1

(***************************************************************************)
(* A walk: the target, the value to write, how many projections are done,  *)
(* the value in the slot the walk stands on, the suspended calls (a field  *)
(* taken out of an instance, or an array borrowed), and how it went.       *)
(* before is auxiliary: the store when the statement began.                *)
(***************************************************************************)
Idle == [path |-> <<>>, value |-> Heap!Null, done |-> 0, slot |-> Heap!Null,
         calls |-> <<>>, result |-> "idle", before |-> <<>>]

Init == Heap!Init /\ walk = Idle

-----------------------------------------------------------------------------
(* The other statements of the program run between two walks.              *)
New(v) == Heap!New(v) /\ UNCHANGED walk
Assign(v, val) == Heap!Assign(v, val) /\ UNCHANGED walk
Delete(c) == Heap!Delete(c) /\ UNCHANGED walk

StorePlace(p, val) ==
  /\ val \in Heap!RightHandSides(p)
  /\ walk' = [path |-> p, value |-> val, done |-> 1,
              slot |-> store[Heap!Frame][p[1]], calls |-> <<>>,
              result |-> "running", before |-> store]
  /\ UNCHANGED <<store, born, dead, trap>>

Key == walk.path[walk.done + 1]
IsLast == walk.done + 1 = Len(walk.path)
Borrowed(a) ==
  \E n \in DOMAIN walk.calls : walk.calls[n] = [at |-> a, key |-> "borrow", taken |-> Void]

\* Why the next projection cannot be followed from the slot's value.
Fault ==
  IF walk.slot = Void THEN "not an object"
  ELSE IF walk.slot \in Heap!Arrays /\ Borrowed(walk.slot) THEN "panic"
  ELSE Heap!StepFault(walk.slot, Key)

Fail ==
  /\ Fault # "none"
  /\ walk' = [walk EXCEPT !.result = Fault]
  /\ UNCHANGED <<store, born, dead, trap>>

\* (A slip: a Struct is matched by value, so the field of a copy is overwritten.)
WriteToCopy ==
  /\ Fault = "none" /\ IsLast
  /\ store' = IF walk.slot = Heap!Struct THEN store
              ELSE [store EXCEPT ![walk.slot][Key] = walk.value]
  /\ walk' = [walk EXCEPT !.result = "none"]
  /\ UNCHANGED <<born, dead, trap>>

\* The recursive call finds no projection left: the slot is overwritten.
Write ==
  /\ Fault = "none" /\ IsLast
  /\ store' = [store EXCEPT ![walk.slot][Key] = walk.value]
  /\ walk' = [walk EXCEPT !.result = "none"]
  /\ UNCHANGED <<born, dead, trap>>

\* A Struct is stepped into where it lies.
EnterStruct ==
  /\ Fault = "none" /\ ~IsLast /\ walk.slot = Heap!Struct
  /\ walk' = [walk EXCEPT !.done = @ + 1, !.slot = store[walk.slot][Key]]
  /\ UNCHANGED <<store, born, dead, trap>>

Suspend(call) == Append(walk.calls, call)

EnterArray ==
  /\ Fault = "none" /\ ~IsLast /\ walk.slot \in Heap!Arrays
  /\ walk' = [walk EXCEPT !.done = @ + 1, !.slot = store[walk.slot][Key],
                !.calls = Suspend([at |-> walk.slot, key |-> "borrow", taken |-> Void])]
  /\ UNCHANGED <<store, born, dead, trap>>

EnterField ==
  /\ Fault = "none" /\ ~IsLast /\ walk.slot \in Heap!Instances
  /\ LET taken == store[walk.slot][Key] IN
     /\ store' = [store EXCEPT ![walk.slot][Key] = Void]
     /\ walk' = [walk EXCEPT !.done = @ + 1, !.slot = taken,
                   !.calls = Suspend([at |-> walk.slot, key |-> Key, taken |-> taken])]
  /\ UNCHANGED <<born, dead, trap>>

Descend == /\ walk.result = "running"
           /\ Fail \/ Write \/ EnterStruct \/ EnterArray \/ EnterField

\* (A slip: an error skips the put-back, as with `?` on the recursive call.)
PutBackOnSuccess(call) ==
  IF walk.result # "none" THEN store
  ELSE [store EXCEPT ![call.at] = IF call.key = "borrow" THEN @
                                  ELSE [@ EXCEPT ![call.key] = call.taken]]

\* A suspended call resumes: the field is put back whatever the result.
PutBack(call) ==
  [store EXCEPT ![call.at] = IF call.key = "borrow" THEN @
                             ELSE [@ EXCEPT ![call.key] = call.taken]]

Unwind ==
  /\ walk.result \notin {"idle", "running"} /\ walk.calls # <<>>
  /\ store' = PutBack(Last(walk.calls))
  /\ walk' = [walk EXCEPT !.calls = Front(@)]
  /\ UNCHANGED <<born, dead, trap>>

Return ==
  /\ walk.result \notin {"idle", "running"} /\ walk.calls = <<>>
  /\ trap' = walk.result
  /\ walk' = Idle
  /\ UNCHANGED <<store, born, dead>>

Statement ==
  /\ walk = Idle /\ trap = "none"
  /\ \/ \E v \in {"obj", "arr"} : \/ New(v)
                                  \/ \E val \in Heap!Values : Assign(v, val)
     \/ \E c \in Heap!Instances : Delete(c)
     \/ \E p \in Heap!Targets, val \in Heap!Values : StorePlace(p, val)

Next == Statement \/ Descend \/ Unwind \/ Return

Spec == Init /\ [][Next]_vars

-----------------------------------------------------------------------------
(***************************************************************************)
(* Properties.                                                             *)
(***************************************************************************)
\* An assignment that traps, however far its walk got, leaves every field,
\* element and variable as it found them.
TrapChangesNothing ==
  [][trap' # trap => store' = walk.before]_vars

\* An assignment that never comes back to a field or an array it passed does
\* what the compiled address walk of the same assignment does: when its walk
\* returns, that very write or that very trap has happened, and until then
\* nothing has.  The other statements agree as they are.
Abstract == INSTANCE PlaceSpec WITH
              store <- IF walk = Idle THEN store ELSE walk.before
Compiled ==
  \/ walk = Idle /\ walk' = Idle /\ Abstract!Next
  \/ walk' # Idle /\ UNCHANGED Abstract!vars
  \/ /\ walk # Idle /\ walk' = Idle
     /\ \/ Abstract!Revisits(walk.path)
        \/ Abstract!StorePlace(walk.path, walk.value)
Refines == Abstract!Init /\ [][Compiled]_vars

\* The doc comment of store_walk: arrays and instances are mutated through
\* their handles "so the change persists".  When the walk returns, the place
\* the target named when the statement began holds the value assigned.
ChangePersists ==
  walk.result = "none" /\ walk.calls = <<>> =>
    LET place == Abstract!Final(walk.path)
    IN store[place.at][place.key] = walk.value
=============================================================================
