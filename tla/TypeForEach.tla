----------------------------- MODULE TypeForEach -----------------------------
(***************************************************************************)
(* A For Each loop over a Type, as lower_for_each_type desugars it, on the *)
(* interpreter's heap: First into the loop variable, compare with Null,    *)
(* body, Next of the loop variable, and around again.  The body is any     *)
(* statements that create, delete and link instances; it deletes the loop  *)
(* variable but never assigns it.  Before the loop the program does what   *)
(* InterpTypeHeap allows.                                                  *)
(***************************************************************************)
EXTENDS InterpTypeHeap

CONSTANTS LoopVar,      \* the loop variable
          MaxBody       \* bound: statements the body runs per iteration

ASSUME TypeForEachAssumption == LoopVar \in Vars /\ MaxBody \in Nat

Others == Vars \ {LoopVar}
LoopType == VarType[LoopVar]

VARIABLES pc,           \* "before" the loop, or the block of the loop
          visited,      \* the instances the body ran for, in order
          work          \* statements left in this run of the body

loopVars == <<pc, visited, work>>

LoopInit ==
  /\ Init
  /\ pc = "before"
  /\ visited = <<>>
  /\ work = 0

Goto(from, to) == pc = from /\ pc' = to

\* A statement that assigns one of targets.
Statement(targets) ==
  \/ \E v \in targets : \/ New(v) \/ First(v) \/ Last(v) \/ Clear(v)
                        \/ DeleteVariable(v) \/ DeleteValue(v)
  \/ \E v \in targets, w \in Vars : \/ Copy(v, w) \/ Next_(v, w) \/ Previous(v, w)
                                   \/ ReadLink(v, w) \/ WriteLink(v, w)

\* The program before the loop: anything InterpTypeHeap allows.
Before ==
  /\ Goto("before", "before")
  /\ Statement(Vars)
  /\ UNCHANGED <<visited, work>>

\* var = First(T)
Enter ==
  /\ Goto("before", "cond")
  /\ First(LoopVar)
  /\ UNCHANGED <<visited, work>>

\* (A slip: the exit branch goes back to the condition.)
CondNeverExits ==
  /\ UNCHANGED vars
  /\ IF Ref(LoopVar) = None
     THEN Goto("cond", "cond") /\ UNCHANGED <<visited, work>>
     ELSE /\ Goto("cond", "body")
          /\ visited' = Append(visited, NameOf(Ref(LoopVar)))
          /\ work' = MaxBody

\* var <> Null
Cond ==
  /\ UNCHANGED vars
  /\ IF Ref(LoopVar) = None
     THEN Goto("cond", "exit") /\ UNCHANGED <<visited, work>>
     ELSE /\ Goto("cond", "body")
          /\ visited' = Append(visited, NameOf(Ref(LoopVar)))
          /\ work' = MaxBody

Body ==
  /\ Goto("body", "body")
  /\ work > 0 /\ work' = work - 1
  /\ Statement(Others) \/ DeleteVariable(LoopVar)
  /\ UNCHANGED visited

EndBody ==
  /\ Goto("body", "step")
  /\ work' = 0
  /\ UNCHANGED <<vars, visited>>

\* (A slip: a rewound variable is taken for the end of the list.)
StepEndsAtDeleted ==
  /\ IF slots[LoopVar].deleted
     THEN Goto("step", "exit") /\ UNCHANGED vars
     ELSE Goto("step", "cond") /\ Next_(LoopVar, LoopVar)
  /\ UNCHANGED <<visited, work>>

\* var = Next(var)
Step ==
  /\ Goto("step", "cond")
  /\ Next_(LoopVar, LoopVar)
  /\ UNCHANGED <<visited, work>>

InLoop == trap = "none" /\ (Cond \/ Body \/ EndBody \/ Step)

LoopNext == InLoop \/ (trap = "none" /\ (Before \/ Enter))

\* The interpreter runs until the program ends; the program reaches its loop, and
\* a body ends.
LoopSpec ==
  /\ LoopInit /\ [][LoopNext]_<<vars, loopVars>>
  /\ WF_<<vars, loopVars>>(trap = "none" /\ Enter) /\ WF_<<vars, loopVars>>(InLoop)

-----------------------------------------------------------------------------
\* However the body deletes and creates, no instance is visited twice and the
\* visits follow creation order (lower.rs, lower_for_each_type).
VisitsInOrder ==
  \A i, j \in 1..Len(visited) : i < j => visited[i] < visited[j]

\* A loop that runs to its end has visited every instance alive at that moment,
\* those its own body created included: no delete makes it skip one.
NoneSkipped ==
  pc = "exit" => \A k \in Live(LoopType) : \E i \in 1..Len(visited) : visited[i] = k

\* The loop visits every instance, once, and in order.
VisitsEachOnce == VisitsInOrder /\ NoneSkipped

\* While the body runs, the loop variable holds the instance being visited or,
\* once that was deleted through it, a place from which Next continues with the
\* instance that followed: everything still ahead is unvisited and everything
\* alive behind has been visited.
RewindKeepsPlace ==
  (pc \in {"body", "step"} /\ Resolves(Ref(LoopVar))) =>
    \A k \in Live(LoopType) :
      k <= NameOf(Ref(LoopVar)) <=> \E i \in 1..Len(visited) : visited[i] = k

\* A loop ends, or traps: deleting during the walk never makes it go round for
\* ever.
Terminates == <>(pc = "exit" \/ trap # "none")
=============================================================================
