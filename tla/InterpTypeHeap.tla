--------------------------- MODULE InterpTypeHeap ---------------------------
(***************************************************************************)
(* The interpreter's heap of user-`Type` instances: one generational slab  *)
(* shared by every Type (heap.rs, Slab), one doubly linked list per Type   *)
(* with a head sentinel and a cached tail (heap.rs, TypeList), and the     *)
(* instructions that use them (interp.rs, exec_inst).                      *)
(*                                                                         *)
(* A step is one CoolBasic statement on variables of some Type: the        *)
(* instructions it lowers to, ending in the store to its variable.  Slab   *)
(* indices count from 1 here and from 0 in the code; index 0 stands for    *)
(* the absent Option<TypeInstanceId>.                                      *)
(***************************************************************************)
EXTENDS Integers, Sequences, FiniteSetsExt

CONSTANTS NumTypes,      \* the program's Type declarations, 1..NumTypes
          Vars,          \* its variables of some Type
          VarType,       \* the declared Type of each variable
          MaxNews,       \* bound: instances created in one run
          GenMod,        \* generations are stored modulo this (2^32)
          SentinelCopies, \* may the program copy a variable that was rewound
                         \* to the list head (b = a, Delete f(a), x.link = a)?
          MarkedAccesses \* may it access a field through a variable that it
                         \* deleted and has not assigned since (a.link)?

ASSUME InterpTypeHeapAssumption ==
  /\ NumTypes \in Nat
  /\ MaxNews \in Nat
  /\ VarType \in [Vars -> 1..NumTypes]
  /\ GenMod \in Nat /\ GenMod > MaxNews
  /\ SentinelCopies \in BOOLEAN
  /\ MarkedAccesses \in BOOLEAN

Types == 1..NumTypes
Serials == 1..MaxNews
Slots == 1..(NumTypes + MaxNews)    \* a slab never needs more entries

Handle == [index : 0..(NumTypes + MaxNews), generation : 0..(GenMod - 1)]
None == [index |-> 0, generation |-> 0]

Entry == [type : 0..NumTypes, link : Handle, prev : Handle, next : Handle,
          sentinel : BOOLEAN]

\* A fresh TypeInstanceObj, before it is linked any further.
Node(t, prev, isSentinel) ==
  [type |-> t, link |-> None, prev |-> prev, next |-> None,
   sentinel |-> isSentinel]
Vacant == Node(0, None, FALSE)

VARIABLES entries,      \* Slab.entries; type 0 stands for a vacant entry
          generations,  \* Slab.generations
          size,         \* Slab.entries.len()
          freeList,     \* Slab.free_list, popped at its end
          sentinel,     \* TypeList.sentinel of each Type
          tail,         \* TypeList.tail of each Type
          slots,        \* every variable's (value, deleted) pair
          trap,         \* "none", the trap that ended the run, or "panic"
          born,         \* auxiliary: instances created so far
          issued,       \* auxiliary: the handle each New returned
          done,         \* auxiliary: the statement executed last
          turn          \* auxiliary: flips with every statement, so that one
                        \* that changes nothing is a step all the same

vars == <<entries, generations, size, freeList, sentinel, tail, slots, trap,
          born, issued, done, turn>>

Init ==
  /\ entries = [i \in Slots |-> IF i \in Types THEN Node(i, None, TRUE) ELSE Vacant]
  /\ generations = [i \in Slots |-> 0]
  /\ size = NumTypes
  /\ freeList = <<>>
  /\ sentinel = [t \in Types |-> [index |-> t, generation |-> 0]]
  /\ tail = [t \in Types |-> None]
  /\ slots = [v \in Vars |-> [ref |-> None, deleted |-> FALSE]]
  /\ trap = "none"
  /\ born = 0
  /\ issued = [k \in Serials |-> None]
  /\ done = [op |-> "none"]
  /\ turn = FALSE

-----------------------------------------------------------------------------
(* The slab.                                                               *)

Resolves(h) ==
  /\ h.index \in 1..size
  /\ generations[h.index] = h.generation
  /\ entries[h.index].type # 0

Get(h) == entries[h.index]

\* (A slip: entries.len() read after the push.)
AllocatedAfterPush ==
  IF freeList = <<>>
  THEN [index |-> size + 2, generation |-> 0]
  ELSE LET i == freeList[Len(freeList)]
       IN  [index |-> i, generation |-> generations[i]]

\* The handle the next Slab::alloc returns.
Allocated ==
  IF freeList = <<>>
  THEN [index |-> size + 1, generation |-> 0]
  ELSE LET i == freeList[Len(freeList)]
       IN  [index |-> i, generation |-> generations[i]]

\* (A slip: the free list is read and not popped.)
AllocWithoutPop ==
  /\ size' = IF freeList = <<>> THEN size + 1 ELSE size
  /\ UNCHANGED freeList

\* What Slab::alloc does to the slab besides storing the object.
Alloc ==
  IF freeList = <<>>
  THEN size' = size + 1 /\ UNCHANGED freeList
  ELSE /\ freeList' = SubSeq(freeList, 1, Len(freeList) - 1)
       /\ UNCHANGED size

\* (A slip: the generation is not bumped.)
FreeSameGeneration(h) ==
  /\ UNCHANGED generations
  /\ freeList' = Append(freeList, h.index)

\* Slab::free: the generation of the slot moves on, the index is free.
Free(h) ==
  /\ generations' = [generations EXCEPT ![h.index] = (@ + 1) % GenMod]
  /\ freeList' = Append(freeList, h.index)

-----------------------------------------------------------------------------
(* How a statement ends.                                                   *)

\* A statement was executed, on the variables v and w.
Did(op, v, w) ==
  /\ done' = [op |-> op, v |-> v, w |-> w]
  /\ turn' = ~turn

heap == <<entries, generations, size, freeList, sentinel, tail, born, issued>>

Fault(kind) ==
  /\ trap' = kind
  /\ UNCHANGED <<heap, slots>>

Store(v, h) == slots' = [slots EXCEPT ![v] = [ref |-> h, deleted |-> FALSE]]

Assign(v, h) == Store(v, h) /\ UNCHANGED <<heap, trap>>

Ref(v) == slots[v].ref
IsSentinel(v) == Ref(v) = sentinel[VarType[v]]
MayCopy(v) == SentinelCopies \/ ~IsSentinel(v)
MayAccess(v) == MarkedAccesses \/ ~slots[v].deleted

-----------------------------------------------------------------------------
(* Statements.                                                             *)

\* v = New(T): Slab::alloc, TypeList::append, store.
New(v) ==
  LET t    == VarType[v]
      h    == Allocated
      prev == IF tail[t] = None THEN sentinel[t] ELSE tail[t]
  IN  /\ born < MaxNews
      /\ Did("New", v, v)
      /\ IF ~Resolves(prev) THEN Fault("panic")
         ELSE /\ Alloc
              /\ entries' = [i \in Slots |->
                   IF i = h.index THEN Node(t, prev, FALSE)
                   ELSE IF i = prev.index THEN [entries[i] EXCEPT !.next = h]
                   ELSE entries[i]]
              /\ tail' = [tail EXCEPT ![t] = h]
              /\ Store(v, h)
              /\ born' = born + 1
              /\ issued' = [issued EXCEPT ![born + 1] = h]
              /\ UNCHANGED <<generations, sentinel, trap>>

\* v = First(T)
First(v) ==
  LET s == sentinel[VarType[v]]
  IN  /\ Did("First", v, v)
      /\ IF Resolves(s) THEN Assign(v, Get(s).next) ELSE Fault("panic")

\* v = Last(T)
Last(v) == Did("Last", v, v) /\ Assign(v, tail[VarType[v]])

\* v = Null
Clear(v) == Did("Clear", v, v) /\ Assign(v, None)

\* v = w
Copy(v, w) ==
  /\ VarType[v] = VarType[w]
  /\ MayCopy(w)
  /\ Did("Copy", v, w)
  /\ Assign(v, Ref(w))

\* v = Next(w); a rewound w may hold the sentinel.
Next_(v, w) ==
  /\ VarType[v] = VarType[w]
  /\ Did("Next", v, w)
  /\ IF Ref(w) = None THEN Assign(v, None)
     ELSE IF ~Resolves(Ref(w)) THEN Fault("access to deleted object")
     ELSE Assign(v, Get(Ref(w)).next)

\* v = Previous(w)
Previous(v, w) ==
  /\ VarType[v] = VarType[w]
  /\ Did("Previous", v, w)
  /\ IF Ref(w) = None THEN Assign(v, None)
     ELSE IF ~Resolves(Ref(w)) THEN Fault("access to deleted object")
     ELSE LET p == Get(Ref(w)).prev
          IN  Assign(v, IF Resolves(p) /\ ~Get(p).sentinel THEN p ELSE None)

\* How GetField and store_walk judge the instance a field access goes through.
FieldFault(h) ==
  IF h = None THEN "null dereference"
  ELSE IF ~Resolves(h) THEN "access to deleted object"
  ELSE IF Get(h).sentinel THEN "null dereference"
  ELSE "none"

\* v = w.link
ReadLink(v, w) ==
  /\ VarType[v] = VarType[w]
  /\ MayAccess(w)
  /\ Did("ReadLink", v, w)
  /\ IF FieldFault(Ref(w)) # "none" THEN Fault(FieldFault(Ref(w)))
     ELSE Assign(v, Get(Ref(w)).link)

\* v.link = w
WriteLink(v, w) ==
  /\ VarType[v] = VarType[w]
  /\ MayCopy(w)
  /\ MayAccess(v)
  /\ Did("WriteLink", v, w)
  /\ IF FieldFault(Ref(v)) # "none" THEN Fault(FieldFault(Ref(v)))
     ELSE /\ entries' = [entries EXCEPT ![Ref(v).index].link = Ref(w)]
          /\ UNCHANGED <<generations, size, freeList, sentinel, tail, born,
                         issued, slots, trap>>

\* (A slip: only the forward link is repaired.)
UnlinkedOneWay(h) ==
  LET e == Get(h)
  IN  [i \in Slots |-> IF i = h.index THEN Vacant
                       ELSE IF i = e.prev.index THEN [entries[i] EXCEPT !.next = e.next]
                       ELSE entries[i]]

\* The entries once TypeList::unlink has repaired the neighbours of h and
\* Slab::free has taken h's object out.
Unlinked(h) ==
  LET e == Get(h)
  IN  [i \in Slots |->
         IF i = h.index THEN Vacant
         ELSE [entries[i] EXCEPT
                 !.next = IF i = e.prev.index THEN e.next ELSE @,
                 !.prev = IF i = e.next.index THEN e.prev ELSE @]]

\* (A slip: the cached tail is left alone.)
TailKept(h) == tail

\* The cached tails: unlinking the last node steps back, to None at the sentinel.
TailWithout(h) ==
  LET e == Get(h)
  IN  IF tail[e.type] = h
      THEN [tail EXCEPT ![e.type] = IF e.prev = sentinel[e.type]
                                    THEN None ELSE e.prev]
      ELSE tail

\* TypeList::unlink then Slab::free of a handle that resolves.
Remove(h) ==
  /\ entries' = Unlinked(h)
  /\ tail' = TailWithout(h)
  /\ Free(h)
  /\ UNCHANGED <<size, sentinel, trap, born, issued>>

\* unlink's expects: a neighbour that does not resolve is a panic.
LinksResolve(h) ==
  /\ Get(h).prev = None \/ Resolves(Get(h).prev)
  /\ Get(h).next = None \/ Resolves(Get(h).next)

\* (A slip: the variable is moved on to the successor.)
DeleteVariableForward(v) ==
  LET h == Ref(v)
  IN  /\ Did("DeleteVariable", v, v)
      /\ IF slots[v].deleted THEN Fault("double delete")
         ELSE IF h = None THEN Fault("null dereference")
         ELSE IF ~Resolves(h) THEN Fault("double delete")
         ELSE IF ~LinksResolve(h) THEN Fault("panic")
         ELSE /\ Remove(h)
              /\ slots' = [slots EXCEPT ![v] = [ref |-> Get(h).next, deleted |-> TRUE]]

\* Delete v, v a bare variable: the lvalue form, with rewind and mark.
DeleteVariable(v) ==
  LET h == Ref(v)
  IN  /\ Did("DeleteVariable", v, v)
      /\ IF slots[v].deleted THEN Fault("double delete")
         ELSE IF h = None THEN Fault("null dereference")
         ELSE IF ~Resolves(h) THEN Fault("double delete")
         ELSE IF ~LinksResolve(h) THEN Fault("panic")
         ELSE /\ Remove(h)
              /\ slots' = [slots EXCEPT ![v] =
                   [ref |-> IF Get(h).prev = None THEN sentinel[Get(h).type]
                            ELSE Get(h).prev,
                    deleted |-> TRUE]]

\* Delete e, e an expression whose value some variable holds: the rvalue form.
DeleteValue(v) ==
  LET h == Ref(v)
  IN  /\ MayCopy(v)
      /\ Did("DeleteValue", v, v)
      /\ IF h = None THEN Fault("null dereference")
         ELSE IF ~Resolves(h) THEN Fault("double delete")
         ELSE IF ~LinksResolve(h) THEN Fault("panic")
         ELSE Remove(h) /\ UNCHANGED slots

Next ==
  /\ trap = "none"
  /\ \/ \E v \in Vars : \/ New(v) \/ First(v) \/ Last(v) \/ Clear(v)
                        \/ DeleteVariable(v) \/ DeleteValue(v)
     \/ \E v, w \in Vars : \/ Copy(v, w) \/ Next_(v, w) \/ Previous(v, w)
                           \/ ReadLink(v, w) \/ WriteLink(v, w)

Spec == Init /\ [][Next]_vars

-----------------------------------------------------------------------------
(* What the auxiliary variables name.                                      *)

\* The live instances of Type t, by serial number.
Live(t) == {k \in Serials : /\ k <= born
                            /\ Resolves(issued[k])
                            /\ Get(issued[k]).type = t}

\* The serial number a handle stands for: TypeSpec's Null, Head or an instance.
NameOf(h) ==
  IF h = None THEN -1
  ELSE IF \E t \in Types : h = sentinel[t] THEN 0
  ELSE CHOOSE k \in 1..born : issued[k] = h

Abstract == INSTANCE TypeSpec WITH
  live <- [t \in Types |-> Live(t)],
  link <- [k \in Serials |-> IF k <= born /\ Resolves(issued[k])
                             THEN NameOf(Get(issued[k]).link) ELSE -1],
  ref <- [v \in Vars |-> NameOf(Ref(v))],
  marked <- [v \in Vars |-> slots[v].deleted]

-----------------------------------------------------------------------------
(* Properties.                                                             *)

\* Every variable has its type.
TypeOK ==
  /\ entries \in [Slots -> Entry]
  /\ generations \in [Slots -> 0..(GenMod - 1)]
  /\ size \in NumTypes..(NumTypes + MaxNews)
  /\ freeList \in Seq(Slots)
  /\ sentinel \in [Types -> Handle]
  /\ tail \in [Types -> Handle]
  /\ slots \in [Vars -> [ref : Handle, deleted : BOOLEAN]]
  /\ trap \in {"none", "null dereference", "access to deleted object",
               "double delete", "panic"}
  /\ born \in 0..MaxNews
  /\ issued \in [Serials -> Handle]

\* The slab never hands out a handle twice, so a stale handle in some variable
\* or field can never come to mean an instance created later in the same slab
\* index (Slab::alloc, Slab::get, Slab::free).
HandlesUnique ==
  \A j, k \in 1..born : issued[j] = issued[k] => j = k

\* The free list holds every vacant index of the slab exactly once: alloc never
\* overwrites an instance and no index is lost.
FreeListExact ==
  /\ \A m, n \in 1..Len(freeList) : freeList[m] = freeList[n] => m = n
  /\ \A i \in Slots : (i <= size /\ entries[i].type = 0)
                       <=> \E m \in 1..Len(freeList) : freeList[m] = i

\* h is what a walk forward from instance k of Type t must meet next...
Follows(t, k, h) ==
  \/ h = None /\ \A y \in Live(t) : y <= k
  \/ \E y \in Live(t) : /\ h = issued[y] /\ y > k
                        /\ \A z \in Live(t) : z <= k \/ z >= y

\* ... and h what a walk backward must meet next, the sentinel at the start.
Precedes(t, k, h) ==
  \/ h = sentinel[t] /\ \A y \in Live(t) : y >= k
  \/ \E y \in Live(t) : /\ h = issued[y] /\ y < k
                        /\ \A z \in Live(t) : z >= k \/ z <= y

\* Whatever was created and deleted in between, each Type's links thread its
\* live instances, all of them and nothing else, in the order of creation, and
\* the cached tail is the last of them (TypeList::append, TypeList::unlink).
CreationOrder ==
  \A t \in Types :
    /\ Follows(t, 0, Get(sentinel[t]).next)
    /\ Precedes(t, MaxNews + 1, IF tail[t] = None THEN sentinel[t] ELSE tail[t])
    /\ \A k \in Live(t) : /\ Follows(t, k, Get(issued[k]).next)
                          /\ Precedes(t, k, Get(issued[k]).prev)

\* None of the expects of TypeList ever fails: "append: prev must exist",
\* "unlink: prev must exist", "first: sentinel must exist" (heap.rs:112-143).
NoPanic == trap # "panic"

\* The interpreter implements the contract of a user Type, statement by
\* statement: none does less or more than its own part of the contract, and none
\* is lost (interp.rs, exec_inst), for programs within the two choices above.
Refines == Abstract!Init /\ [][Abstract!Run(done')]_vars
=============================================================================
