--------------------------- MODULE NativeTypeHeap ---------------------------
(***************************************************************************)
(* The native heap of user-`Type` instances that compiled programs link    *)
(* (runtime/cb_type.cpp) and the statements the LLVM backend lowers to     *)
(* calls of it (codegen/func.rs).  Nodes are never freed: Delete unlinks a *)
(* node, flags it and leaves its own links alone.  There is no deleted     *)
(* mark on a variable; the rewound variable simply holds the predecessor.  *)
(*                                                                         *)
(* A node is its address, handed out in order and never reused; 0 is NULL. *)
(***************************************************************************)
EXTENDS Integers, FiniteSetsExt

CONSTANTS NumTypes,     \* the program's Type declarations, 1..NumTypes
          Vars,         \* its variables of some Type
          VarType,      \* the declared Type of each variable
          MaxNews,      \* bound: instances created in one run
          DoubleDeletes, \* may the program Delete a variable twice in a row?
          MarkedAccesses \* may it access a field through a variable that it
                        \* deleted and has not assigned since?

ASSUME NativeTypeHeapAssumption ==
  /\ NumTypes \in Nat
  /\ MaxNews \in Nat
  /\ VarType \in [Vars -> 1..NumTypes]
  /\ DoubleDeletes \in BOOLEAN
  /\ MarkedAccesses \in BOOLEAN

Types == 1..NumTypes
Serials == 1..MaxNews
Addresses == 1..(NumTypes + MaxNews)
Traps == {"none", "null dereference", "access to deleted object", "double delete"}

VARIABLES nodes,    \* CbTypeHeader of every allocated node, and its field link
          brk,      \* addresses handed out so far
          lists,    \* g_lists: sentinel and tail; sentinel 0 = not created yet
          ref,      \* the pointer each variable holds
          trap,     \* "none", or the error that ended the program
          born,     \* auxiliary: instances created so far
          rewound,  \* auxiliary: variables deleted and not assigned since
          done,     \* auxiliary: the statement executed last
          turn      \* auxiliary: flips with every statement, so that one that
                    \* changes nothing is a step all the same

vars == <<nodes, brk, lists, ref, trap, born, rewound, done, turn>>
heap == <<nodes, brk, lists, born>>

Zeroed == [list |-> 0, prev |-> 0, next |-> 0, deleted |-> FALSE,
           sentinel |-> FALSE, link |-> 0, serial |-> 0]

Init ==
  /\ nodes = [p \in Addresses |-> Zeroed]
  /\ brk = 0
  /\ lists = [t \in Types |-> [sentinel |-> 0, tail |-> 0]]
  /\ ref = [v \in Vars |-> 0]
  /\ trap = "none"
  /\ born = 0
  /\ rewound = [v \in Vars |-> FALSE]
  /\ done = [op |-> "none"]
  /\ turn = FALSE

-----------------------------------------------------------------------------
(* How a statement ends.                                                   *)

\* A statement was executed, on the variables v and w.
Did(op, v, w) ==
  /\ done' = [op |-> op, v |-> v, w |-> w]
  /\ turn' = ~turn

\* trap() calls the host's raise_error, which ends a compiled program.
Fault(kind) ==
  /\ trap' = kind
  /\ UNCHANGED <<heap, ref, rewound>>

Store(v, p) ==
  /\ ref' = [ref EXCEPT ![v] = p]
  /\ rewound' = [rewound EXCEPT ![v] = FALSE]

Assign(v, p) == Store(v, p) /\ UNCHANGED <<heap, trap>>

MayAccess(v) == MarkedAccesses \/ ~rewound[v]

Created(t) == lists[t].sentinel # 0

\* v = New(T): ensure_list creates the list and its sentinel on first use.
New(v) ==
  LET t    == VarType[v]
      head == IF Created(t) THEN lists[t].sentinel ELSE brk + 1
      node == IF Created(t) THEN brk + 1 ELSE brk + 2
      prev == IF lists[t].tail # 0 THEN lists[t].tail ELSE head
      held == IF Created(t) THEN nodes
              ELSE [nodes EXCEPT ![head] =
                      [Zeroed EXCEPT !.list = t, !.sentinel = TRUE]]
  IN  /\ born < MaxNews
      /\ Did("New", v, v)
      /\ nodes' = [held EXCEPT
           ![node] = [Zeroed EXCEPT !.list = t, !.prev = prev, !.serial = born + 1],
           ![prev].next = node]
      /\ lists' = [lists EXCEPT ![t] = [sentinel |-> head, tail |-> node]]
      /\ brk' = node
      /\ born' = born + 1
      /\ Store(v, node)
      /\ UNCHANGED trap

\* v = First(T), v = Last(T): peek_list creates nothing.
First(v) ==
  LET t == VarType[v]
  IN  /\ Did("First", v, v)
      /\ Assign(v, IF Created(t) THEN nodes[lists[t].sentinel].next ELSE 0)

Last(v) ==
  LET t == VarType[v]
  IN  /\ Did("Last", v, v)
      /\ Assign(v, IF Created(t) THEN lists[t].tail ELSE 0)

Clear(v) == Did("Clear", v, v) /\ Assign(v, 0)

Copy(v, w) ==
  /\ VarType[v] = VarType[w]
  /\ Did("Copy", v, w)
  /\ Assign(v, ref[w])

\* v = Next(w); a rewound w may hold the sentinel.
Next_(v, w) ==
  /\ VarType[v] = VarType[w]
  /\ Did("Next", v, w)
  /\ IF ref[w] = 0 THEN Assign(v, 0)
     ELSE IF nodes[ref[w]].deleted THEN Fault("access to deleted object")
     ELSE Assign(v, nodes[ref[w]].next)

\* v = Previous(w)
Previous(v, w) ==
  /\ VarType[v] = VarType[w]
  /\ Did("Previous", v, w)
  /\ IF ref[w] = 0 THEN Assign(v, 0)
     ELSE IF nodes[ref[w]].deleted THEN Fault("access to deleted object")
     ELSE LET p == nodes[ref[w]].prev
          IN  Assign(v, IF p = 0 THEN 0 ELSE IF nodes[p].sentinel THEN 0 ELSE p)

\* (A slip: the list head is taken for an instance.)
FieldFaultNoHead(p) ==
  IF p = 0 THEN "null dereference"
  ELSE IF nodes[p].deleted THEN "access to deleted object"
  ELSE "none"

\* cb_rt_type_check, made before every field access.
FieldFault(p) ==
  IF p = 0 THEN "null dereference"
  ELSE IF nodes[p].deleted THEN "access to deleted object"
  ELSE IF nodes[p].sentinel THEN "null dereference"
  ELSE "none"

\* v = w.link
ReadLink(v, w) ==
  /\ VarType[v] = VarType[w]
  /\ MayAccess(w)
  /\ Did("ReadLink", v, w)
  /\ IF FieldFault(ref[w]) # "none" THEN Fault(FieldFault(ref[w]))
     ELSE Assign(v, nodes[ref[w]].link)

\* v.link = w
WriteLink(v, w) ==
  /\ VarType[v] = VarType[w]
  /\ MayAccess(v)
  /\ Did("WriteLink", v, w)
  /\ IF FieldFault(ref[v]) # "none" THEN Fault(FieldFault(ref[v]))
     ELSE /\ nodes' = [nodes EXCEPT ![ref[v]].link = ref[w]]
          /\ UNCHANGED <<brk, lists, born, ref, rewound, trap>>

\* What either Delete checks before it unlinks.
DeleteFault(p) ==
  IF p = 0 THEN "null dereference"
  ELSE IF nodes[p].deleted \/ nodes[p].sentinel THEN "double delete"
  ELSE "none"

\* (A slip: the cached tail is left alone.)
TailKept(p) == lists

\* The cached tails: unlinking the last node steps back, to NULL at the sentinel.
TailWithout(p) ==
  LET n == nodes[p]
  IN  IF lists[n.list].tail = p
      THEN [lists EXCEPT ![n.list].tail =
              IF n.prev = 0 THEN 0
              ELSE IF nodes[n.prev].sentinel THEN 0 ELSE n.prev]
      ELSE lists

\* unlink, and the deleted flag; the node keeps its own prev and next.
Unlink(p) ==
  LET n == nodes[p]
  IN  /\ nodes' = [q \in Addresses |->
           [nodes[q] EXCEPT
              !.next = IF q = n.prev THEN n.next ELSE @,
              !.prev = IF q = n.next THEN n.prev ELSE @,
              !.deleted = IF q = p THEN TRUE ELSE @]]
      /\ lists' = TailWithout(p)
      /\ UNCHANGED <<brk, born, trap>>

\* Delete v, v a bare variable: the predecessor is stored back into its slot.
DeleteVariable(v) ==
  LET p == ref[v]
  IN  /\ DoubleDeletes \/ ~rewound[v]
      /\ Did("DeleteVariable", v, v)
      /\ IF DeleteFault(p) # "none" THEN Fault(DeleteFault(p))
         ELSE /\ Unlink(p)
              /\ ref' = [ref EXCEPT ![v] =
                   IF nodes[p].prev # 0 THEN nodes[p].prev
                   ELSE lists[nodes[p].list].sentinel]
              /\ rewound' = [rewound EXCEPT ![v] = TRUE]

\* Delete e, e any other expression.
DeleteValue(v) ==
  /\ Did("DeleteValue", v, v)
  /\ IF DeleteFault(ref[v]) # "none" THEN Fault(DeleteFault(ref[v]))
     ELSE Unlink(ref[v]) /\ UNCHANGED <<ref, rewound>>

Next ==
  /\ trap = "none"
  /\ \/ \E v \in Vars : \/ New(v) \/ First(v) \/ Last(v) \/ Clear(v)
                        \/ DeleteVariable(v) \/ DeleteValue(v)
     \/ \E v, w \in Vars : \/ Copy(v, w) \/ Next_(v, w) \/ Previous(v, w)
                           \/ ReadLink(v, w) \/ WriteLink(v, w)

Spec == Init /\ [][Next]_vars

-----------------------------------------------------------------------------
(* What the auxiliary variables name.                                      *)

Live(t) == {nodes[p].serial : p \in {q \in 1..brk : /\ ~nodes[q].sentinel
                                                   /\ ~nodes[q].deleted
                                                   /\ nodes[q].list = t}}

NameOf(p) ==
  IF p = 0 THEN -1 ELSE IF nodes[p].sentinel THEN 0 ELSE nodes[p].serial

At(k) == CHOOSE p \in 1..brk : nodes[p].serial = k

Abstract == INSTANCE TypeSpec WITH
  live <- [t \in Types |-> Live(t)],
  link <- [k \in Serials |->
             IF k <= born /\ ~nodes[At(k)].deleted THEN NameOf(nodes[At(k)].link)
             ELSE -1],
  ref <- [v \in Vars |-> NameOf(ref[v])],
  marked <- rewound

-----------------------------------------------------------------------------
(* Properties.                                                             *)

\* A deleted node keeps its own links (unlink leaves them), so it must not stay
\* reachable: no live node, sentinel or cached tail ever points at one.
DeletedUnreachable ==
  /\ \A p \in 1..brk : ~nodes[p].deleted =>
       \A q \in {nodes[p].next, nodes[p].prev} \ {0} :
         ~nodes[q].deleted /\ nodes[q].list = nodes[p].list
  /\ \A t \in Types : lists[t].tail # 0 => ~nodes[lists[t].tail].deleted

\* The native heap implements the contract of a user Type, statement by statement,
\* for every program that neither deletes a variable twice in a row nor accesses a
\* field through one it deleted (cb_type.cpp, codegen/func.rs).
Refines == Abstract!Init /\ [][Abstract!Run(done')]_vars
=============================================================================
