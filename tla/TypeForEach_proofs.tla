-------------------------- MODULE TypeForEach_proofs --------------------------
(***************************************************************************)
(* The interpreter's Type heap and the lowered For Each over a Type, for   *)
(* any number of Types, variables and instances and any length of body:    *)
(* handles, free list and lists stay right, the heap implements what a     *)
(* user Type promises (TypeSpec), and a loop visits every instance once.   *)
(* All of it assumes that the program never copies a variable rewound to   *)
(* the list head (without it the theorems are false: deleting the copy     *)
(* frees the sentinel, see the README).                                    *)
(***************************************************************************)
EXTENDS TypeForEach, TLAPS

-----------------------------------------------------------------------------
(* The inductive invariant.                                                *)

\* Sentinels are created first, one per Type, and stay where they were put.
SentinelsInPlace ==
  /\ NumTypes <= size
  /\ \A t \in Types : /\ sentinel[t].index = t
                      /\ sentinel[t].generation = 0
                      /\ generations[t] = 0
                      /\ entries[t].type = t
                      /\ entries[t].sentinel
                      /\ entries[t].prev = None
                      /\ tail[t] # sentinel[t]

\* A generation counts the frees of its slot, so it stays below the News made.
GenerationsCountFrees ==
  /\ size <= NumTypes + born
  /\ \A i \in Slots : i > size => entries[i].type = 0 /\ generations[i] = 0
  /\ \A i \in Slots \ Types :
       /\ generations[i] <= born
       /\ entries[i].type # 0 => generations[i] < born /\ ~entries[i].sentinel

\* Instances sit in issued handles; the handles of a vacant slot are all stale.
IssuedHandles ==
  /\ \A k \in 1..born :
       LET i == issued[k].index
       IN  /\ i \in (NumTypes + 1)..size
           /\ issued[k].generation <= generations[i]
           /\ entries[i].type = 0 => issued[k].generation < generations[i]
  /\ \A i \in (NumTypes + 1)..size :
       entries[i].type # 0 =>
         \E k \in 1..born : /\ issued[k].index = i
                            /\ issued[k].generation = generations[i]

\* A reference of Type t is Null or was issued, for an instance of Type t if it
\* still is one.
GoodRef(t, h) ==
  \/ h = None
  \/ \E k \in 1..born : /\ h = issued[k]
                        /\ Resolves(h) => Get(h).type = t

\* Only a variable in the deleted state holds the sentinel of its Type.
References ==
  /\ \A v \in Vars : \/ GoodRef(VarType[v], Ref(v))
                     \/ slots[v].deleted /\ IsSentinel(v)
  /\ \A k \in 1..born : Resolves(issued[k]) =>
       GoodRef(Get(issued[k]).type, Get(issued[k]).link)

IInv ==
  /\ TypeOK
  /\ HandlesUnique
  /\ FreeListExact
  /\ CreationOrder
  /\ NoPanic
  /\ SentinelsInPlace
  /\ GenerationsCountFrees
  /\ IssuedHandles
  /\ References

-----------------------------------------------------------------------------
(* Initially.                                                              *)

LEMMA InitIInv == Init => IInv
<1> SUFFICES ASSUME Init PROVE IInv
  OBVIOUS
<1> USE InterpTypeHeapAssumption
<1>a. /\ size = NumTypes /\ freeList = <<>> /\ trap = "none" /\ born = 0
      /\ \A i \in Slots : generations[i] = 0
      /\ \A t \in Types : sentinel[t].index = t /\ sentinel[t].generation = 0
      /\ \A t \in Types : tail[t] = None
      /\ \A v \in Vars : Ref(v) = None
  BY DEF Init, Ref
<1>b. \A i \in Slots :
        /\ entries[i].type = IF i \in Types THEN i ELSE 0
        /\ entries[i].prev = None /\ entries[i].next = None
        /\ i \in Types => entries[i].sentinel
  BY DEF Init, Vacant, Node
<1>c. Types \subseteq Slots
  BY DEF Types, Slots
<1>1. TypeOK
  <2>1. None \in Handle /\ \A t \in Types : [index |-> t, generation |-> 0] \in Handle
    BY DEF None, Handle, Types
  <2>2. \A i \in Slots : Vacant \in Entry /\ (i \in Types =>
          Node(i, None, TRUE) \in Entry)
    BY <2>1 DEF Vacant, Node, Entry, Types
  <2>3. entries \in [Slots -> Entry]
    BY <2>2 DEF Init
  <2>4. slots \in [Vars -> [ref : Handle, deleted : BOOLEAN]]
    BY <2>1 DEF Init
  <2>5. /\ sentinel \in [Types -> Handle]
        /\ tail \in [Types -> Handle]
        /\ issued \in [Serials -> Handle]
        /\ generations \in [Slots -> 0..(GenMod - 1)]
    BY <2>1 DEF Init
  <2> QED
    BY <2>3, <2>4, <2>5, <1>a DEF TypeOK
<1>2. \A t \in Types : Live(t) = {}
  BY <1>a DEF Live, Serials
<1>3. CreationOrder
  <2>1. \A t \in Types : Get(sentinel[t]).next = None
    <3> TAKE t \in Types
    <3>1. sentinel[t].index = t /\ t \in Slots
      BY <1>a DEF Types, Slots
    <3> QED
      BY <3>1, <1>b DEF Get
  <2>2. ASSUME NEW t \in Types
        PROVE  /\ Follows(t, 0, Get(sentinel[t]).next)
               /\ Precedes(t, MaxNews + 1,
                           IF tail[t] = None THEN sentinel[t] ELSE tail[t])
    <3>1. Live(t) = {}
      BY <1>2
    <3>2. Follows(t, 0, Get(sentinel[t]).next)
      BY <2>1, <3>1 DEF Follows
    <3>3. Precedes(t, MaxNews + 1, sentinel[t])
      BY <3>1 DEF Precedes
    <3>4. (IF tail[t] = None THEN sentinel[t] ELSE tail[t]) = sentinel[t]
      BY <1>a
    <3> QED
      BY <3>2, <3>3, <3>4
  <2> QED
    BY <2>2, <1>2 DEF CreationOrder
<1>4. HandlesUnique /\ NoPanic
  BY <1>a DEF HandlesUnique, NoPanic
<1>5. FreeListExact
  BY <1>a, <1>b DEF FreeListExact, Slots, Types
<1>6. SentinelsInPlace /\ GenerationsCountFrees
  <2>1. \A t \in Types : tail[t] # sentinel[t]
    BY <1>a DEF None, Types
  <2> QED
    BY <1>a, <1>b, <1>c, <2>1 DEF SentinelsInPlace, GenerationsCountFrees, Slots, Types
<1>7. IssuedHandles
  BY <1>a DEF IssuedHandles
<1>8. References
  BY <1>a DEF References, GoodRef, Ref
<1> QED
  BY <1>1, <1>3, <1>4, <1>5, <1>6, <1>7, <1>8 DEF IInv

-----------------------------------------------------------------------------
(* Handles.                                                                *)

LEMMA HandleEq ==
  ASSUME NEW g \in Handle, NEW h \in Handle,
         g.index = h.index, g.generation = h.generation
  PROVE  g = h
BY DEF Handle

LEMMA Bounds ==
  ASSUME TypeOK
  PROVE  /\ NumTypes \in Nat /\ MaxNews \in Nat /\ GenMod \in Nat /\ MaxNews < GenMod
         /\ size \in Nat /\ NumTypes <= size /\ size <= NumTypes + MaxNews
         /\ born \in Nat /\ born <= MaxNews
         /\ 1..size \subseteq Slots /\ Types \subseteq Slots
         /\ (NumTypes + 1)..size \subseteq Slots
         /\ 1..born \subseteq Serials
         /\ \A i \in Slots : generations[i] \in Nat
<1>1. /\ NumTypes \in Nat /\ MaxNews \in Nat /\ GenMod \in Nat /\ MaxNews < GenMod
  BY InterpTypeHeapAssumption
<1>2. size \in NumTypes..(NumTypes + MaxNews) /\ born \in 0..MaxNews
  BY DEF TypeOK
<1>3. generations \in [Slots -> 0..(GenMod - 1)]
  BY DEF TypeOK
<1>4. \A i \in Slots : generations[i] \in Nat
  BY <1>1, <1>3
<1> QED
  BY <1>1, <1>2, <1>4 DEF Slots, Types, Serials

\* What the invariant says of every issued handle and of every sentinel.
LEMMA Issued ==
  ASSUME IInv
  PROVE  /\ \A k \in 1..born :
              /\ k \in Serials
              /\ issued[k] \in Handle
              /\ issued[k].index \in Slots \ Types
              /\ issued[k].index \in 1..size
              /\ issued[k] # None
         /\ \A t \in Types : /\ t \in Slots
                             /\ sentinel[t] \in Handle
                             /\ sentinel[t] # None
                             /\ Resolves(sentinel[t])
                             /\ Get(sentinel[t]) = entries[t]
         /\ \A j, k \in 1..born :
              Resolves(issued[j]) /\ Resolves(issued[k])
              /\ issued[j].index = issued[k].index => j = k
<1>0. TypeOK /\ IssuedHandles /\ SentinelsInPlace /\ HandlesUnique
  BY DEF IInv
<1>b. /\ NumTypes \in Nat /\ MaxNews \in Nat
      /\ size \in Nat /\ NumTypes <= size /\ size <= NumTypes + MaxNews
      /\ 1..size \subseteq Slots /\ Types \subseteq Slots
      /\ 1..born \subseteq Serials
  BY <1>0, Bounds
<1>1. \A k \in 1..born : k \in Serials /\ issued[k] \in Handle
  BY <1>0, <1>b DEF TypeOK
<1>2. \A k \in 1..born : issued[k].index \in (NumTypes + 1)..size
  BY <1>0 DEF IssuedHandles
<1>3. \A k \in 1..born : issued[k].index \in Slots \ Types /\ issued[k].index \in 1..size
  BY <1>2, <1>b DEF Slots, Types
<1>4. \A k \in 1..born : issued[k] # None
  BY <1>3 DEF None, Slots
<1>5. ASSUME NEW t \in Types
      PROVE  /\ t \in Slots /\ sentinel[t] \in Handle
             /\ sentinel[t] # None
             /\ Resolves(sentinel[t])
             /\ Get(sentinel[t]) = entries[t]
  <2>1. sentinel[t].index = t /\ sentinel[t].generation = 0
    BY <1>0 DEF SentinelsInPlace
  <2>2. t \in Slots /\ sentinel[t] \in Handle /\ t \in 1..size /\ t # 0
    <3>1. sentinel[t] \in Handle
      BY <1>0 DEF TypeOK
    <3>2. t \in 1..size /\ t # 0
      BY <1>b DEF Types
    <3> QED
      BY <1>b, <3>1, <3>2
  <2>3. sentinel[t] # None
    BY <2>1, <2>2 DEF None
  <2>4. generations[t] = 0 /\ entries[t].type # 0
    BY <1>0, <2>2 DEF SentinelsInPlace
  <2>5. Resolves(sentinel[t])
    BY <2>1, <2>2, <2>4 DEF Resolves
  <2> QED
    BY <2>1, <2>2, <2>3, <2>5 DEF Get
<1>6. ASSUME NEW j \in 1..born, NEW k \in 1..born,
             Resolves(issued[j]), Resolves(issued[k]),
             issued[j].index = issued[k].index
      PROVE  j = k
  <2>1. issued[j].generation = issued[k].generation
    BY <1>6 DEF Resolves
  <2>2. issued[j] = issued[k]
    BY <1>1, <1>6, <2>1, HandleEq
  <2> QED
    BY <1>0, <2>2 DEF HandlesUnique
<1> QED
  BY <1>1, <1>3, <1>4, <1>5, <1>6

-----------------------------------------------------------------------------
(* Steps that create and delete nothing.                                   *)

\* A step that changes only link fields keeps the instances and their lists.
LEMMA StructureKept ==
  ASSUME IInv,
         \A i \in Slots : /\ entries'[i].type = entries[i].type
                         /\ entries'[i].prev = entries[i].prev
                         /\ entries'[i].next = entries[i].next
                         /\ entries'[i].sentinel = entries[i].sentinel,
         UNCHANGED <<generations, size, freeList, sentinel, tail, born, issued>>
  PROVE  /\ CreationOrder' /\ HandlesUnique' /\ FreeListExact'
         /\ SentinelsInPlace' /\ GenerationsCountFrees' /\ IssuedHandles'
         /\ \A h : Resolves(h)' <=> Resolves(h)
         /\ \A t, h : GoodRef(t, h)' <=> GoodRef(t, h)
<1>0. 1..size \subseteq Slots /\ Types \subseteq Slots
      /\ (NumTypes + 1)..size \subseteq Slots
  BY Bounds DEF IInv
<1>1. \A h : Resolves(h)' <=> Resolves(h)
  BY <1>0 DEF Resolves
<1>2. \A h : Resolves(h) => /\ Get(h)'.type = Get(h).type
                            /\ Get(h)'.prev = Get(h).prev
                            /\ Get(h)'.next = Get(h).next
  BY <1>0 DEF Resolves, Get
<1>3. \A t \in Types : Live(t)' = Live(t)
  BY <1>1, <1>2 DEF Live
<1>4. \A t, h : GoodRef(t, h)' <=> GoodRef(t, h)
  BY <1>1, <1>2 DEF GoodRef
<1>5. \A t \in Types : /\ \A k, h : Follows(t, k, h)' <=> Follows(t, k, h)
                       /\ \A k, h : Precedes(t, k, h)' <=> Precedes(t, k, h)
  BY <1>3 DEF Follows, Precedes
<1>6. CreationOrder'
  <2> SUFFICES ASSUME NEW t \in Types
               PROVE  /\ Follows(t, 0, Get(sentinel[t]).next)'
                      /\ Precedes(t, MaxNews + 1,
                           IF tail[t] = None THEN sentinel[t] ELSE tail[t])'
                      /\ \A k \in Live(t) : /\ Follows(t, k, Get(issued[k]).next)'
                                            /\ Precedes(t, k, Get(issued[k]).prev)'
    BY <1>3 DEF CreationOrder
  <2>1. Follows(t, 0, Get(sentinel[t]).next)
        /\ Precedes(t, MaxNews + 1, IF tail[t] = None THEN sentinel[t] ELSE tail[t])
        /\ \A k \in Live(t) : /\ Follows(t, k, Get(issued[k]).next)
                              /\ Precedes(t, k, Get(issued[k]).prev)
    BY DEF IInv, CreationOrder
  <2>2. Get(sentinel[t])'.next = Get(sentinel[t]).next
    BY <1>2, Issued
  <2>3. \A k \in Live(t) : /\ Get(issued[k])'.next = Get(issued[k]).next
                           /\ Get(issued[k])'.prev = Get(issued[k]).prev
    BY <1>2 DEF Live
  <2> QED
    BY <1>5, <2>1, <2>2, <2>3
<1>7. HandlesUnique' /\ FreeListExact'
  BY <1>0 DEF IInv, HandlesUnique, FreeListExact
<1>8. SentinelsInPlace' /\ GenerationsCountFrees'
  BY <1>0 DEF IInv, SentinelsInPlace, GenerationsCountFrees
<1>9. IssuedHandles'
  BY <1>0 DEF IInv, IssuedHandles
<1> QED
  BY <1>1, <1>4, <1>6, <1>7, <1>8, <1>9

\* A step that leaves the heap alone must leave the variables in order.
LEMMA HeapUnchanged ==
  ASSUME IInv, UNCHANGED heap, NoPanic', TypeOK',
         \A v \in Vars : \/ slots'[v] = slots[v]
                         \/ GoodRef(VarType[v], slots'[v].ref)
  PROVE  IInv'
<1>1. UNCHANGED <<entries, generations, size, freeList, sentinel, tail, born, issued>>
  BY DEF heap
<1>2. /\ CreationOrder' /\ HandlesUnique' /\ FreeListExact'
      /\ SentinelsInPlace' /\ GenerationsCountFrees' /\ IssuedHandles'
      /\ \A t, h : GoodRef(t, h)' <=> GoodRef(t, h)
  BY <1>1, StructureKept
<1>3. References'
  BY <1>1, <1>2 DEF IInv, References, Resolves, Get, Ref, IsSentinel
<1> QED
  BY <1>2, <1>3 DEF IInv

LEMMA FaultIInv ==
  ASSUME IInv, NEW kind, Fault(kind),
         kind \in {"null dereference", "access to deleted object", "double delete"}
  PROVE  IInv'
<1>1. TypeOK' /\ NoPanic'
  BY DEF IInv, TypeOK, Fault, NoPanic, heap
<1> QED
  BY <1>1, HeapUnchanged DEF Fault

LEMMA AssignIInv ==
  ASSUME IInv, NEW v \in Vars, NEW h \in Handle, Assign(v, h),
         GoodRef(VarType[v], h)
  PROVE  IInv'
<1>1. TypeOK' /\ NoPanic'
  BY DEF IInv, TypeOK, Assign, Store, NoPanic, heap
<1>2. \A u \in Vars : slots'[u] = slots[u] \/ GoodRef(VarType[u], slots'[u].ref)
  BY DEF IInv, TypeOK, Assign, Store
<1> QED
  BY <1>1, <1>2, HeapUnchanged DEF Assign

LEMMA WriteLinkIInv ==
  ASSUME IInv, SentinelCopies = FALSE,
         NEW v \in Vars, NEW w \in Vars, WriteLink(v, w)
  PROVE  IInv'
<1>1. CASE FieldFault(Ref(v)) # "none"
  <2>1. FieldFault(Ref(v)) \in {"null dereference", "access to deleted object"}
    BY <1>1 DEF FieldFault
  <2> QED
    BY <1>1, <2>1, FaultIInv DEF WriteLink
<1>2. CASE FieldFault(Ref(v)) = "none"
  <2> DEFINE p == Ref(v).index
  <2>1. /\ Ref(v) # None /\ Resolves(Ref(v)) /\ ~Get(Ref(v)).sentinel
    BY <1>2 DEF FieldFault
  <2>2. /\ entries' = [entries EXCEPT ![p].link = Ref(w)]
        /\ UNCHANGED <<generations, size, freeList, sentinel, tail, born, issued>>
        /\ UNCHANGED <<slots, trap>>
        /\ VarType[v] = VarType[w]
        /\ MayCopy(w)
    BY <1>2 DEF WriteLink
  <2>3. entries \in [Slots -> Entry] /\ Ref(w) \in Handle /\ p \in Slots
    BY <2>1, Bounds DEF IInv, TypeOK, Ref, Resolves
  <2>4. /\ entries' \in [Slots -> Entry]
        /\ entries'[p].link = Ref(w)
        /\ \A i \in Slots : i # p => entries'[i].link = entries[i].link
        /\ \A i \in Slots : /\ entries'[i].type = entries[i].type
                           /\ entries'[i].prev = entries[i].prev
                           /\ entries'[i].next = entries[i].next
                           /\ entries'[i].sentinel = entries[i].sentinel
    BY <2>2, <2>3 DEF Entry
  <2>5. /\ CreationOrder' /\ HandlesUnique' /\ FreeListExact'
        /\ SentinelsInPlace' /\ GenerationsCountFrees' /\ IssuedHandles'
        /\ \A h : Resolves(h)' <=> Resolves(h)
        /\ \A t, h : GoodRef(t, h)' <=> GoodRef(t, h)
    BY <2>2, <2>4, StructureKept
  <2>6. TypeOK' /\ NoPanic'
    BY <2>2, <2>4 DEF IInv, TypeOK, NoPanic
  <2>7. GoodRef(VarType[w], Ref(w)) /\ GoodRef(VarType[v], Ref(v))
    <3>1. ~IsSentinel(w)
      BY <2>2 DEF MayCopy
    <3>2. ~IsSentinel(v)
      BY <2>1, <2>3, Issued, InterpTypeHeapAssumption
      DEF IsSentinel, SentinelsInPlace, IInv, Types
    <3> QED
      BY <3>1, <3>2 DEF IInv, References
  <2>8. Get(Ref(v)).type = VarType[v]
    BY <2>1, <2>7 DEF GoodRef
  <2>9. References'
    <3>1. ASSUME NEW k \in 1..born, Resolves(issued[k])
          PROVE  GoodRef(Get(issued[k])'.type, Get(issued[k])'.link)
      <4>1. issued[k].index \in Slots
        BY Issued
      <4>2. Get(issued[k])'.type = Get(issued[k]).type
        BY <2>2, <2>4, <4>1 DEF Get
      <4>3. CASE issued[k].index = p
        BY <2>2, <2>4, <2>7, <2>8, <4>2, <4>3 DEF Get
      <4>4. CASE issued[k].index # p
        <5>1. Get(issued[k])'.link = Get(issued[k]).link
          BY <2>2, <2>4, <4>1, <4>4 DEF Get
        <5> QED
          BY <3>1, <4>2, <5>1 DEF IInv, References
      <4> QED
        BY <4>3, <4>4
    <3>2. \A u \in Vars : \/ GoodRef(VarType[u], Ref(u))'
                         \/ (slots[u].deleted /\ IsSentinel(u))'
      BY <2>2, <2>5 DEF IInv, References, Ref, IsSentinel
    <3> QED
      BY <2>2, <2>5, <3>1, <3>2 DEF References
  <2> QED
    BY <2>5, <2>6, <2>9 DEF IInv
<1> QED
  BY <1>1, <1>2

-----------------------------------------------------------------------------
(* New.                                                                    *)

\* Slab::alloc returns an index that is vacant, under its current generation.
LEMMA AllocatedVacant ==
  ASSUME IInv, born < MaxNews
  PROVE  /\ Allocated \in Handle
         /\ Allocated.index \in Slots \ Types
         /\ Allocated.index <= size + 1
         /\ Allocated.index = size + 1 <=> freeList = <<>>
         /\ entries[Allocated.index].type = 0
         /\ Allocated.generation = generations[Allocated.index]
         /\ \A k \in 1..born : issued[k].index = Allocated.index =>
              issued[k].generation < Allocated.generation
<1>0. /\ TypeOK /\ FreeListExact /\ SentinelsInPlace /\ GenerationsCountFrees
      /\ IssuedHandles
  BY DEF IInv
<1>b. /\ NumTypes \in Nat /\ MaxNews \in Nat /\ GenMod \in Nat /\ MaxNews < GenMod
      /\ size \in Nat /\ NumTypes <= size /\ born \in Nat
      /\ size <= NumTypes + born
      /\ generations \in [Slots -> 0..(GenMod - 1)]
  BY <1>0, Bounds DEF TypeOK, GenerationsCountFrees
<1>1. CASE freeList = <<>>
  <2>1. Allocated = [index |-> size + 1, generation |-> 0]
    BY <1>1 DEF Allocated
  <2>2. Allocated.index = size + 1 /\ Allocated.generation = 0
    BY <2>1
  <2>3. size + 1 \in Slots \ Types /\ size + 1 > size
    BY <1>b DEF Slots, Types
  <2>4. Allocated \in Handle
    BY <2>1, <1>b DEF Handle
  <2>5. entries[size + 1].type = 0 /\ generations[size + 1] = 0
    BY <1>0, <2>3 DEF GenerationsCountFrees
  <2>6. \A k \in 1..born : issued[k].index # size + 1
    BY <1>0, <1>b DEF IssuedHandles
  <2> QED
    BY <1>1, <1>b, <2>2, <2>3, <2>4, <2>5, <2>6
<1>2. CASE freeList # <<>>
  <2> DEFINE i == freeList[Len(freeList)]
  <2>1. Allocated = [index |-> i, generation |-> generations[i]]
    BY <1>2 DEF Allocated
  <2>2. Allocated.index = i /\ Allocated.generation = generations[i]
    BY <2>1
  <2>3. i \in Slots /\ Len(freeList) \in 1..Len(freeList)
    <3>1. freeList \in Seq(Slots)
      BY <1>0 DEF TypeOK
    <3>2. Len(freeList) \in Nat /\ Len(freeList) # 0
      BY <1>2, <3>1
    <3> QED
      BY <3>1, <3>2
  <2>4. i <= size /\ entries[i].type = 0
    BY <1>0, <2>3 DEF FreeListExact
  <2>5. i \notin Types
    <3>1. \A t \in Types : entries[t].type # 0
      BY <1>0, <1>b DEF SentinelsInPlace, Types
    <3> QED
      BY <2>4, <3>1
  <2>6. Allocated \in Handle
    <3>1. i \in 0..(NumTypes + MaxNews)
      BY <1>b, <2>3 DEF Slots
    <3>2. generations[i] \in 0..(GenMod - 1)
      BY <1>b, <2>3
    <3> QED
      BY <2>1, <3>1, <3>2 DEF Handle
  <2>7. i # size + 1
    BY <1>b, <2>3, <2>4 DEF Slots
  <2>8. \A k \in 1..born : issued[k].index = i =>
          issued[k].generation < generations[i]
    BY <1>0, <2>4 DEF IssuedHandles
  <2>9. i <= size + 1 /\ (i = size + 1 <=> freeList = <<>>)
    BY <1>2, <1>b, <2>3, <2>4, <2>7 DEF Slots
  <2> HIDE DEF i
  <2> QED
    BY <2>2, <2>3, <2>4, <2>5, <2>6, <2>8, <2>9
<1> QED
  BY <1>1, <1>2

\* The node New appends after: the sentinel of an empty list, or the last node.
LastNode(t) == IF tail[t] = None THEN sentinel[t] ELSE tail[t]

LEMMA LastNodeResolves ==
  ASSUME IInv, NEW t \in Types
  PROVE  /\ Precedes(t, MaxNews + 1, LastNode(t))
         /\ Resolves(LastNode(t))
         /\ LastNode(t) \in Handle
         /\ LastNode(t).index \in Slots
         /\ Get(LastNode(t)).type = t
<1>1. Precedes(t, MaxNews + 1, LastNode(t))
  BY DEF IInv, CreationOrder, LastNode
<1>2. CASE LastNode(t) = sentinel[t]
  BY <1>1, <1>2, Issued DEF IInv, SentinelsInPlace
<1>3. CASE \E y \in Live(t) : LastNode(t) = issued[y]
  BY <1>1, <1>3, Issued, Bounds DEF Live, IInv, Serials
<1> QED
  BY <1>1, <1>2, <1>3 DEF Precedes

\* What a New does to the slab and to the instances that exist.
LEMMA NewEffect ==
  ASSUME IInv, NEW v \in Vars, New(v)
  PROVE  LET t == VarType[v]  h == Allocated  prev == LastNode(t)
         IN  /\ born < MaxNews /\ t \in Types
             /\ Alloc /\ Store(v, h)
             /\ born' = born + 1
             /\ UNCHANGED <<generations, sentinel, trap>>
             /\ tail' = [tail EXCEPT ![t] = h]
             /\ issued' = [issued EXCEPT ![born + 1] = h]
             /\ prev.index # h.index
             /\ entries'[h.index] = Node(t, prev, FALSE)
             /\ \A i \in Slots : i # h.index =>
                  /\ entries'[i].type = entries[i].type
                  /\ entries'[i].prev = entries[i].prev
                  /\ entries'[i].link = entries[i].link
                  /\ entries'[i].sentinel = entries[i].sentinel
                  /\ entries'[i].next = IF i = prev.index THEN h ELSE entries[i].next
             /\ entries' \in [Slots -> Entry]
<1> DEFINE t == VarType[v]  h == Allocated  prev == LastNode(t)
<1>1. t \in Types
  BY InterpTypeHeapAssumption DEF Types
<1>2. Resolves(prev) /\ prev \in Handle /\ prev.index \in Slots
  BY <1>1, LastNodeResolves
<1>3. /\ born < MaxNews
      /\ Alloc /\ Store(v, h)
      /\ born' = born + 1
      /\ UNCHANGED <<generations, sentinel, trap>>
      /\ tail' = [tail EXCEPT ![t] = h]
      /\ issued' = [issued EXCEPT ![born + 1] = h]
      /\ entries' = [i \in Slots |->
             IF i = h.index THEN Node(t, prev, FALSE)
             ELSE IF i = prev.index THEN [entries[i] EXCEPT !.next = h]
             ELSE entries[i]]
  BY <1>2 DEF New, LastNode
<1>4. h \in Handle /\ h.index \in Slots \ Types /\ entries[h.index].type = 0
  BY <1>3, AllocatedVacant
<1>5. prev.index # h.index
  BY <1>2, <1>4 DEF Resolves
<1>6. entries \in [Slots -> Entry]
  BY DEF IInv, TypeOK
<1>7. entries'[h.index] = Node(t, prev, FALSE)
  BY <1>3, <1>4
<1>8. ASSUME NEW i \in Slots, i # h.index
      PROVE  /\ entries'[i] \in Entry
             /\ entries'[i].type = entries[i].type
             /\ entries'[i].prev = entries[i].prev
             /\ entries'[i].link = entries[i].link
             /\ entries'[i].sentinel = entries[i].sentinel
             /\ entries'[i].next = IF i = prev.index THEN h ELSE entries[i].next
  <2>1. entries[i] \in Entry
    BY <1>6
  <2>2. entries'[i] = IF i = prev.index THEN [entries[i] EXCEPT !.next = h]
                      ELSE entries[i]
    BY <1>3, <1>8
  <2> HIDE DEF h, prev
  <2> QED
    BY <1>4, <2>1, <2>2 DEF Entry
<1>9. Node(t, prev, FALSE) \in Entry
  <2>1. None \in Handle /\ t \in 0..NumTypes
    BY <1>1, InterpTypeHeapAssumption DEF None, Handle, Types
  <2> QED
    BY <1>2, <2>1 DEF Node, Entry
<1>10. entries' \in [Slots -> Entry]
  BY <1>3, <1>7, <1>8, <1>9
<1> QED
  BY <1>1, <1>3, <1>5, <1>7, <1>8, <1>10

LEMMA NewInstances ==
  ASSUME IInv, NEW v \in Vars, New(v),
         NEW h, h = Allocated, NEW prev, prev = LastNode(VarType[v])
  PROVE  /\ h # None
         /\ \A k \in 1..born : issued'[k] = issued[k]
         /\ \A k \in 1..born : issued[k] # h
         /\ \A k \in 1..born : Resolves(issued[k])' <=> Resolves(issued[k])
         /\ \A k \in 1..born : Resolves(issued[k]) =>
              issued[k].index # h.index
         /\ issued'[born + 1] = h
         /\ Resolves(h)'
         /\ Get(h)' = Node(VarType[v], prev, FALSE)
         /\ \A t \in Types : Live(t)' = IF t = VarType[v]
                                        THEN Live(t) \cup {born + 1} ELSE Live(t)
<1> DEFINE d == born + 1
<1>1. /\ born < MaxNews /\ born' = d /\ Alloc
      /\ UNCHANGED <<generations, sentinel>>
      /\ issued' = [issued EXCEPT ![d] = h]
      /\ VarType[v] \in Types
      /\ entries'[h.index] = Node(VarType[v], prev, FALSE)
      /\ \A i \in Slots : i # h.index => entries'[i].type = entries[i].type
  BY NewEffect
<1>2. /\ h \in Handle /\ h.index \in Slots \ Types /\ h.index <= size + 1
      /\ h.index = size + 1 <=> freeList = <<>>
      /\ entries[h.index].type = 0 /\ h.generation = generations[h.index]
      /\ \A k \in 1..born : issued[k].index = h.index => issued[k].generation < h.generation
  BY <1>1, AllocatedVacant
<1>b. /\ NumTypes \in Nat /\ MaxNews \in Nat /\ size \in Nat /\ born \in Nat
      /\ 1..size \subseteq Slots
      /\ issued \in [Serials -> Handle] /\ d \in Serials /\ 1..born \subseteq Serials
      /\ \A i \in Slots : generations[i] \in Nat
  <2>1. TypeOK /\ issued \in [Serials -> Handle]
    BY DEF IInv, TypeOK
  <2> QED
    BY <1>1, <2>1, Bounds DEF Serials
<1>3. h # None
  BY <1>2 DEF None, Slots
<1>4. issued'[d] = h /\ \A k \in 1..born : issued'[k] = issued[k]
  BY <1>1, <1>b
<1>5. size' \in Nat /\ size <= size' /\ h.index \in 1..size'
      /\ \A i \in Slots : i # h.index => (i \in 1..size' <=> i \in 1..size)
  BY <1>1, <1>2, <1>b, SMTT(30) DEF Alloc, Slots
<1>6. Resolves(h)'
  <2>1. VarType[v] # 0
    BY <1>1 DEF Types
  <2> QED
    BY <1>1, <1>2, <1>5, <2>1 DEF Resolves, Node
<1>7. Get(h)' = Node(VarType[v], prev, FALSE)
  BY <1>1 DEF Get
<1>8. ASSUME NEW k \in 1..born
      PROVE  /\ issued[k] # h
             /\ Resolves(issued[k])' <=> Resolves(issued[k])
             /\ Resolves(issued[k]) => issued[k].index # h.index
             /\ Resolves(issued[k]) => Get(issued[k])'.type = Get(issued[k]).type
  <2>0. issued[k].index \in Slots /\ issued[k] \in Handle
    BY Issued
  <2>1. CASE issued[k].index = h.index
    <3>1. issued[k].generation < generations[h.index]
      BY <1>2, <2>1
    <3>2. issued[k].generation # generations[h.index]
      BY <1>2, <1>b, <3>1, <2>0 DEF Handle
    <3> QED
      BY <1>1, <1>2, <2>1, <3>2, <1>4 DEF Resolves
  <2>2. CASE issued[k].index # h.index
    BY <1>1, <1>4, <1>5, <2>0, <2>2 DEF Resolves, Get
  <2> QED
    BY <2>1, <2>2
<1>9. ASSUME NEW t \in Types
      PROVE  Live(t)' = IF t = VarType[v] THEN Live(t) \cup {d} ELSE Live(t)
  <2>1. ASSUME NEW k \in Serials
        PROVE  k \in Live(t)' <=> (k \in Live(t) \/ (k = d /\ t = VarType[v]))
    <3>1. CASE k \in 1..born
      BY <1>1, <1>4, <1>8, <1>b, <3>1 DEF Live
    <3>2. CASE k = d
      <4>1. Get(issued[k])'.type = VarType[v]
        BY <1>4, <1>7, <3>2 DEF Node, Get
      <4> QED
        BY <1>1, <1>4, <1>6, <1>b, <3>2, <4>1 DEF Live
    <3>3. CASE k \notin 1..d
      BY <1>1, <1>b, <3>3 DEF Live, Serials
    <3> QED
      BY <1>b, <3>1, <3>2, <3>3
  <2>2. Live(t)' \subseteq Serials /\ Live(t) \subseteq Serials
    BY DEF Live
  <2> QED
    BY <1>b, <2>1, <2>2
<1> QED
  BY <1>3, <1>4, <1>6, <1>7, <1>8, <1>9

LEMMA NewIInv ==
  ASSUME IInv, NEW v \in Vars, New(v)
  PROVE  IInv'
<1>0. PICK h, prev, d : h = Allocated /\ prev = LastNode(VarType[v]) /\ d = born + 1
  OBVIOUS
<1> DEFINE t == VarType[v]
<1>1. /\ born < MaxNews /\ t \in Types /\ Alloc /\ Store(v, h) /\ born' = d
      /\ UNCHANGED <<generations, sentinel, trap>>
      /\ tail' = [tail EXCEPT ![t] = h]
      /\ issued' = [issued EXCEPT ![d] = h]
      /\ prev.index # h.index
      /\ entries'[h.index] = Node(t, prev, FALSE)
      /\ \A i \in Slots : i # h.index =>
           /\ entries'[i].type = entries[i].type
           /\ entries'[i].prev = entries[i].prev
           /\ entries'[i].link = entries[i].link
           /\ entries'[i].sentinel = entries[i].sentinel
           /\ entries'[i].next = IF i = prev.index THEN h ELSE entries[i].next
      /\ entries' \in [Slots -> Entry]
  BY <1>0, NewEffect
<1>2. /\ h # None
      /\ issued'[d] = h /\ Resolves(h)'
      /\ Get(h)' = Node(t, prev, FALSE)
      /\ \A u \in Types : Live(u)' = IF u = t THEN Live(u) \cup {d} ELSE Live(u)
  BY <1>0, NewInstances
<1>f. \A k \in 1..born : issued[k] # h
  BY <1>0, NewInstances
<1>g. \A k \in 1..born : Resolves(issued[k]) => issued[k].index # h.index
  BY <1>0, NewInstances
<1>k. \A k \in 1..born : Resolves(issued[k])' <=> Resolves(issued[k])
  BY <1>0, NewInstances
<1>3. /\ h \in Handle /\ h.index \in Slots \ Types /\ h.index <= size + 1
      /\ h.index = size + 1 <=> freeList = <<>>
      /\ entries[h.index].type = 0 /\ h.generation = generations[h.index]
  BY <1>0, <1>1, AllocatedVacant
<1>4. /\ Precedes(t, MaxNews + 1, prev) /\ Resolves(prev) /\ prev \in Handle
      /\ prev.index \in Slots /\ Get(prev).type = t
  BY <1>0, <1>1, LastNodeResolves
<1>b. /\ NumTypes \in Nat /\ MaxNews \in Nat /\ size \in Nat /\ NumTypes <= size
      /\ born \in Nat /\ d = born + 1 /\ 1..size \subseteq Slots /\ Types \subseteq Slots
      /\ d \in Serials /\ 1..born \subseteq Serials
      /\ \A i \in Slots : generations[i] \in Nat
  <2>1. TypeOK
    BY DEF IInv
  <2> QED
    BY <1>0, <1>1, <2>1, Bounds DEF Serials
<1>c. \A k \in 1..born : issued'[k] = issued[k]
  <2>1. issued \in [Serials -> Handle]
    BY DEF IInv, TypeOK
  <2> QED
    BY <1>1, <1>b, <2>1
<1>5. \A u \in Types : \A k \in Live(u) :
        k \in 1..born /\ issued[k].index # h.index /\ issued[k].index \in Slots
  BY <1>g, <1>b, Issued DEF Live, Serials
<1>6. CreationOrder'
  <2>1. ASSUME NEW u \in Types, u # t
        PROVE  /\ Follows(u, 0, Get(sentinel[u]).next)'
               /\ Precedes(u, MaxNews + 1,
                           IF tail[u] = None THEN sentinel[u] ELSE tail[u])'
               /\ \A k \in Live(u)' : /\ Follows(u, k, Get(issued[k]).next)'
                                      /\ Precedes(u, k, Get(issued[k]).prev)'
    <3>1. Live(u)' = Live(u)
      BY <1>2, <2>1
    <3>2. \A k, x : /\ Follows(u, k, x)' <=> Follows(u, k, x)
                    /\ Precedes(u, k, x)' <=> Precedes(u, k, x)
      <4>1. /\ \A y \in Live(u) : issued'[y] = issued[y]
            /\ sentinel' = sentinel
        BY <1>1, <1>5, <1>c
      <4> QED
        BY <3>1, <4>1 DEF Follows, Precedes
    <3>3. tail'[u] = tail[u] /\ sentinel'[u] = sentinel[u]
      BY <1>1, <2>1 DEF IInv, TypeOK
    <3>4. Get(sentinel[u])'.next = Get(sentinel[u]).next
      <4>1. sentinel[u].index = u /\ u \in Slots /\ entries[u].type = u
        BY <1>b DEF IInv, SentinelsInPlace
      <4>2. u # prev.index /\ u # h.index
        BY <1>3, <1>4, <2>1, <4>1 DEF Get
      <4> QED
        BY <1>1, <4>1, <4>2 DEF Get
    <3>5. ASSUME NEW k \in Live(u)
          PROVE  /\ Get(issued[k])'.next = Get(issued[k]).next
                 /\ Get(issued[k])'.prev = Get(issued[k]).prev
      <4>1. Get(issued[k]).type = u
        BY DEF Live
      <4>2. issued[k].index # prev.index
        BY <1>4, <2>1, <4>1 DEF Get
      <4>3. /\ issued[k].index \in Slots /\ issued[k].index # h.index
            /\ issued'[k] = issued[k]
        BY <1>5, <1>c
      <4> QED
        BY <1>1, <4>2, <4>3 DEF Get
    <3>6. /\ Follows(u, 0, Get(sentinel[u]).next)
          /\ Precedes(u, MaxNews + 1,
                           IF tail[u] = None THEN sentinel[u] ELSE tail[u])
          /\ \A k \in Live(u) : /\ Follows(u, k, Get(issued[k]).next)
                                /\ Precedes(u, k, Get(issued[k]).prev)
      BY DEF IInv, CreationOrder
    <3> QED
      BY <3>1, <3>2, <3>3, <3>4, <3>5, <3>6
  <2> DEFINE L == Live(t)
  <2>2. Live(t)' = L \cup {d} /\ L \subseteq 1..born
    BY <1>1, <1>2, <1>5
  <2>3. /\ Follows(t, 0, Get(sentinel[t]).next)
        /\ \A k \in L : /\ Follows(t, k, Get(issued[k]).next)
                        /\ Precedes(t, k, Get(issued[k]).prev)
    BY <1>1 DEF IInv, CreationOrder
  <2>4. \A y \in L : issued'[y] = issued[y]
    BY <1>c, <2>2
  <2>5. ASSUME NEW k \in 0..born, NEW x, Follows(t, k, x), \E y \in L : y > k
        PROVE  Follows(t, k, x)'
    <3>1. PICK y \in L : x = issued[y] /\ y > k /\ \A z \in L : z <= k \/ z >= y
      BY <2>2, <2>5, <1>b DEF Follows
    <3>2. \A z \in L \cup {d} : z <= k \/ z >= y
      BY <2>2, <3>1, <1>b
    <3> QED
      BY <2>2, <2>4, <3>1, <3>2 DEF Follows
  <2>6. ASSUME NEW k \in 0..born, \A y \in L : y <= k
        PROVE  Follows(t, k, h)'
    <3>1. \A z \in L \cup {d} : z <= k \/ z >= d
      BY <2>6, <1>b
    <3> QED
      BY <1>2, <1>b, <2>2, <3>1 DEF Follows
  <2>7. ASSUME NEW k \in 0..born, NEW x, Precedes(t, k, x)
        PROVE  Precedes(t, k, x)'
    <3>1. d >= k
      BY <1>b
    <3> QED
      BY <2>2, <2>4, <2>7, <3>1, <1>1 DEF Precedes
  <2>8. sentinel[t].index = t /\ t \in Slots /\ t # h.index
        /\ sentinel[t] \in Handle /\ sentinel[t].generation = 0
    BY <1>1, <1>3, <1>b, Issued DEF IInv, SentinelsInPlace
  <2>9. Follows(t, 0, Get(sentinel[t]).next)'
    <3>1. CASE prev = sentinel[t]
      <4>1. Get(sentinel[t])'.next = h
        BY <1>1, <2>8, <3>1 DEF Get
      <4>2. \A y \in L : y <= 0
        <5>1. \A y \in L : issued[y] # prev
          BY <2>2, <2>8, <3>1, <1>1, Issued
        <5> QED
          BY <1>4, <2>2, <1>b, <5>1 DEF Precedes, Serials
      <4> QED
        BY <4>1, <4>2, <2>6, <1>b
    <3>2. CASE prev # sentinel[t]
      <4>1. PICK y \in L : prev = issued[y]
        BY <1>4, <3>2 DEF Precedes
      <4>2. t # prev.index
        BY <4>1, <2>2, <1>1, Issued
      <4>3. Get(sentinel[t])'.next = Get(sentinel[t]).next
        BY <1>1, <2>8, <4>2 DEF Get
      <4> QED
        BY <2>2, <2>3, <2>5, <4>1, <4>3, <1>b
    <3> QED
      BY <3>1, <3>2
  <2>10. Precedes(t, MaxNews + 1, IF tail[t] = None THEN sentinel[t] ELSE tail[t])'
    <3>1. tail'[t] = h
      BY <1>1 DEF IInv, TypeOK
    <3>2. \A z \in L \cup {d} : z >= MaxNews + 1 \/ z <= d
      BY <2>2, <1>b
    <3>3. d < MaxNews + 1
      BY <1>1, <1>b
    <3>4. Precedes(t, MaxNews + 1, h)'
      BY <1>2, <2>2, <3>2, <3>3 DEF Precedes
    <3> QED
      BY <1>2, <3>1, <3>4
  <2>11. ASSUME NEW k \in L
         PROVE  /\ Follows(t, k, Get(issued[k]).next)'
                /\ Precedes(t, k, Get(issued[k]).prev)'
    <3>1. k \in 0..born /\ k \in 1..born
      BY <2>2, <1>b
    <3>2. issued[k].index \in Slots /\ issued[k].index # h.index /\ issued'[k] = issued[k]
          /\ Resolves(issued[k])
      BY <1>1, <1>c, <1>5, <3>1 DEF Live
    <3>3. Get(issued[k])'.prev = Get(issued[k]).prev
      BY <1>1, <3>2 DEF Get
    <3>4. PICK y \in L : prev = issued[y] /\ \A z \in L : z <= y
      <4>1. MaxNews + 1 > k
        BY <3>1, <1>b DEF Serials
      <4> QED
        BY <1>4, <1>b, <2>2, <4>1 DEF Precedes, Serials
    <3>5. CASE issued[k].index = prev.index
      <4>1. k = y
        BY <3>1, <3>2, <3>4, <3>5, <1>4, <2>2, Issued
      <4>2. Get(issued[k])'.next = h
        BY <1>1, <3>2, <3>5 DEF Get
      <4> QED
        BY <2>3, <2>6, <2>7, <3>1, <3>3, <3>4, <4>1, <4>2
    <3>6. CASE issued[k].index # prev.index
      <4>1. y > k
        BY <3>4, <3>6, <3>1, <2>2, <1>b
      <4>2. Get(issued[k])'.next = Get(issued[k]).next
        BY <1>1, <3>2, <3>6 DEF Get
      <4> QED
        BY <2>3, <2>5, <2>7, <3>1, <3>3, <3>4, <4>1, <4>2
    <3> QED
      BY <3>5, <3>6
  <2>12. /\ Follows(t, d, Get(issued[d]).next)'
         /\ Precedes(t, d, Get(issued[d]).prev)'
    <3>1. Get(issued[d])'.next = None /\ Get(issued[d])'.prev = prev
      BY <1>1, <1>2, <1>b DEF Node, Get
    <3>2. Follows(t, d, None)'
      BY <2>2, <1>b DEF Follows
    <3>3. Precedes(t, d, prev)'
      <4>1. CASE prev = sentinel[t] /\ \A y \in L : y >= MaxNews + 1
        <5>1. \A y \in L \cup {d} : y >= d
          BY <4>1, <2>2, <1>b DEF Serials
        <5> QED
          BY <4>1, <5>1, <1>1, <2>2 DEF Precedes
      <4>2. CASE \E y \in L : prev = issued[y] /\ \A z \in L : z >= MaxNews + 1 \/ z <= y
        <5>1. PICK y \in L : prev = issued[y] /\ \A z \in L : z >= MaxNews + 1 \/ z <= y
          BY <4>2
        <5>2. y < d /\ \A z \in L \cup {d} : z >= d \/ z <= y
          BY <5>1, <2>2, <1>b DEF Serials
        <5> QED
          BY <5>1, <5>2, <2>2, <2>4 DEF Precedes
      <4> QED
        BY <1>4, <4>1, <4>2 DEF Precedes
    <3> QED
      BY <3>1, <3>2, <3>3, <1>1
  <2> QED
    BY <2>1, <2>2, <2>9, <2>10, <2>11, <2>12 DEF CreationOrder
<1>7. HandlesUnique'
  <2>1. ASSUME NEW j \in 1..d, NEW k \in 1..d, issued'[j] = issued'[k]
        PROVE  j = k
    <3>1. CASE j \in 1..born /\ k \in 1..born
      BY <1>c, <2>1, <3>1 DEF IInv, HandlesUnique
    <3>2. CASE j = d \/ k = d
      <4>1. \A i \in 1..born : issued'[i] # h
        BY <1>f, <1>c
      <4> QED
        BY <1>2, <1>b, <2>1, <3>2, <4>1
    <3> QED
      BY <1>b, <3>1, <3>2
  <2> QED
    BY <1>1, <2>1 DEF HandlesUnique
<1>8. /\ size' \in NumTypes..(NumTypes + MaxNews) /\ size' <= NumTypes + d
      /\ size <= size' /\ h.index <= size'
      /\ \A i \in Slots : i # h.index => (i <= size' <=> i <= size)
      /\ freeList' \in Seq(Slots)
  <2>1. size <= NumTypes + born /\ freeList \in Seq(Slots) /\ h.index \in Nat
    <3>1. size <= NumTypes + born
      BY DEF IInv, GenerationsCountFrees
    <3>2. freeList \in Seq(Slots)
      BY DEF IInv, TypeOK
    <3>3. h.index \in Nat
      BY <1>3 DEF Slots
    <3> QED
      BY <3>1, <3>2, <3>3
  <2>2. CASE freeList = <<>>
    BY <1>1, <1>3, <1>b, <2>1, <2>2 DEF Alloc, Slots
  <2>3. CASE freeList # <<>>
    <3>1. freeList' \in Seq(Slots)
      BY <1>1, <2>1, <2>3 DEF Alloc
    <3>2. size' = size
      BY <1>1, <2>3 DEF Alloc
    <3>3. h.index <= size
      BY <1>3, <1>b, <2>1, <2>3
    <3> QED
      BY <1>1, <1>b, <2>1, <3>1, <3>2, <3>3
  <2> QED
    BY <2>2, <2>3
<1>9. TypeOK'
  <2>1. tail' \in [Types -> Handle] /\ sentinel' \in [Types -> Handle]
    BY <1>1, <1>3 DEF IInv, TypeOK
  <2>2. slots' \in [Vars -> [ref : Handle, deleted : BOOLEAN]]
    BY <1>1, <1>3 DEF IInv, TypeOK, Store
  <2>3. issued' \in [Serials -> Handle]
    BY <1>1, <1>3 DEF IInv, TypeOK
  <2>4. born' \in 0..MaxNews /\ generations' \in [Slots -> 0..(GenMod - 1)]
    <3>1. generations \in [Slots -> 0..(GenMod - 1)]
      BY DEF IInv, TypeOK
    <3>2. d \in 0..MaxNews
      BY <1>1, <1>b
    <3> QED
      BY <1>1, <3>1, <3>2
  <2>5. trap' \in {"none", "null dereference", "access to deleted object",
                  "double delete", "panic"}
    BY <1>1 DEF IInv, TypeOK
  <2> QED
    BY <1>1, <1>8, <2>1, <2>2, <2>3, <2>4, <2>5 DEF TypeOK
<1>10. FreeListExact'
  <2>0. FreeListExact /\ freeList \in Seq(Slots)
    BY DEF IInv, TypeOK
  <2>1. entries'[h.index].type # 0
    BY <1>1 DEF Node, Types
  <2>2. \A i \in Slots : (i <= size' /\ entries'[i].type = 0)
                       <=> (i # h.index /\ i <= size /\ entries[i].type = 0)
    BY <1>1, <1>8, <2>1
  <2>3. CASE freeList = <<>>
    <3>1. freeList' = freeList /\ h.index = size + 1
      BY <1>1, <1>3, <2>3 DEF Alloc
    <3>2. \A i \in Slots : i <= size => i # h.index
      BY <3>1, <1>b DEF Slots
    <3> QED
      BY <2>0, <2>2, <3>1, <3>2 DEF FreeListExact
  <2>4. CASE freeList # <<>>
    <3> DEFINE n == Len(freeList)
    <3>1. n \in Nat /\ n >= 1 /\ h = [index |-> freeList[n], generation |-> generations[freeList[n]]]
      BY <1>0, <2>0, <2>4 DEF Allocated
    <3>2. h.index = freeList[n]
      BY <3>1
    <3>3. Len(freeList') = n - 1 /\ \A m \in 1..(n - 1) : freeList'[m] = freeList[m]
      BY <1>1, <2>0, <2>4, <3>1 DEF Alloc
    <3>4. \A m, l \in 1..(n - 1) : freeList'[m] = freeList'[l] => m = l
      BY <2>0, <3>1, <3>3 DEF FreeListExact
    <3>5. ASSUME NEW i \in Slots
          PROVE  (i # h.index /\ i <= size /\ entries[i].type = 0)
                   <=> \E m \in 1..(n - 1) : freeList'[m] = i
      <4>1. (i <= size /\ entries[i].type = 0) <=> \E m \in 1..n : freeList[m] = i
        BY <2>0 DEF FreeListExact
      <4>2. \A m \in 1..(n - 1) : freeList[m] # freeList[n]
        BY <2>0, <3>1 DEF FreeListExact
      <4> QED
        BY <3>1, <3>2, <3>3, <4>1, <4>2
    <3> QED
      BY <2>2, <3>3, <3>4, <3>5 DEF FreeListExact
  <2> QED
    BY <2>3, <2>4
<1>11. SentinelsInPlace'
  <2>1. ASSUME NEW u \in Types
        PROVE  /\ sentinel'[u].index = u /\ sentinel'[u].generation = 0
               /\ generations'[u] = 0 /\ entries'[u].type = u
               /\ entries'[u].sentinel /\ entries'[u].prev = None
    BY <1>1, <1>3, <1>b DEF IInv, SentinelsInPlace
  <2>2. ASSUME NEW u \in Types
        PROVE  tail'[u] # sentinel'[u]
    <3>1. tail \in [Types -> Handle]
      BY DEF IInv, TypeOK
    <3>2. h # sentinel[u] /\ tail[u] # sentinel[u]
      BY <1>3 DEF IInv, SentinelsInPlace
    <3> QED
      BY <1>1, <3>1, <3>2
  <2> QED
    BY <1>8, <1>b, <2>1, <2>2 DEF SentinelsInPlace
<1>12. GenerationsCountFrees'
  <2>0. GenerationsCountFrees
    BY DEF IInv
  <2>1. ASSUME NEW i \in Slots, i > size'
        PROVE  entries'[i].type = 0 /\ generations'[i] = 0
    <3>1. i # h.index /\ i > size
      BY <1>3, <1>8, <1>b, <2>1 DEF Slots
    <3> QED
      BY <1>1, <2>0, <3>1 DEF GenerationsCountFrees
  <2>2. ASSUME NEW i \in Slots \ Types
        PROVE  /\ generations'[i] <= d
               /\ entries'[i].type # 0 => generations'[i] < d /\ ~entries'[i].sentinel
    <3>1. generations[i] <= born /\ generations[i] \in Nat /\ generations'[i] = generations[i]
      BY <1>1, <1>b, <2>0 DEF GenerationsCountFrees
    <3>2. CASE i = h.index
      BY <1>1, <1>b, <3>1, <3>2 DEF Node
    <3>3. CASE i # h.index
      <4>1. entries'[i].type = entries[i].type /\ entries'[i].sentinel = entries[i].sentinel
        BY <1>1, <3>3
      <4> QED
        BY <1>b, <2>0, <3>1, <4>1 DEF GenerationsCountFrees
    <3> QED
      BY <3>2, <3>3
  <2> QED
    BY <1>1, <1>8, <2>1, <2>2 DEF GenerationsCountFrees
<1>13. IssuedHandles'
  <2>0. IssuedHandles
    BY DEF IInv
  <2>1. ASSUME NEW k \in 1..d
        PROVE  /\ issued'[k].index \in (NumTypes + 1)..size'
               /\ issued'[k].generation <= generations'[issued'[k].index]
               /\ entries'[issued'[k].index].type = 0 =>
                    issued'[k].generation < generations'[issued'[k].index]
    <3>1. CASE k \in 1..born
      <4>1. /\ issued'[k] = issued[k]
            /\ issued[k].index \in (NumTypes + 1)..size
            /\ issued[k].generation <= generations[issued[k].index]
            /\ entries[issued[k].index].type = 0 =>
                 issued[k].generation < generations[issued[k].index]
            /\ issued[k].index \in Slots
        BY <1>c, <2>0, <3>1, Issued DEF IssuedHandles
      <4>2. entries'[issued[k].index].type = 0 => entries[issued[k].index].type = 0
        BY <1>1, <1>3, <4>1
      <4> QED
        BY <1>1, <1>8, <1>b, <4>1, <4>2, SMTT(30)
    <3>2. CASE k = d
      <4>1. issued'[k] = h /\ entries'[h.index].type # 0 /\ generations' = generations
        BY <1>1, <1>2, <3>2 DEF Node, Types
      <4>2. h.index \in (NumTypes + 1)..size'
        BY <1>3, <1>8, <1>b DEF Slots, Types
      <4> QED
        BY <1>3, <1>b, <4>1, <4>2
    <3> QED
      BY <1>b, <3>1, <3>2
  <2>2. ASSUME NEW i \in (NumTypes + 1)..size', entries'[i].type # 0
        PROVE  \E k \in 1..d : issued'[k].index = i /\ issued'[k].generation = generations'[i]
    <3>1. CASE i = h.index
      <4>1. d \in 1..d /\ issued'[d].index = i /\ issued'[d].generation = generations'[i]
        BY <1>1, <1>2, <1>3, <1>b, <3>1
      <4> QED
        BY <4>1
    <3>2. CASE i # h.index
      <4>1. i \in Slots /\ i \in (NumTypes + 1)..size
        BY <1>8, <1>b, <2>2, <3>2 DEF Slots
      <4>2. entries[i].type # 0
        BY <1>1, <2>2, <3>2, <4>1
      <4>3. PICK k \in 1..born : issued[k].index = i /\ issued[k].generation = generations[i]
        BY <2>0, <4>1, <4>2 DEF IssuedHandles
      <4>4. k \in 1..d
        BY <1>b
      <4> QED
        BY <1>1, <1>c, <4>3, <4>4
    <3> QED
      BY <3>1, <3>2
  <2> QED
    BY <1>1, <2>1, <2>2 DEF IssuedHandles
<1>14. References'
  <2>1. ASSUME NEW u \in Types, NEW x, GoodRef(u, x)
        PROVE  GoodRef(u, x)'
    <3>1. CASE x = None
      BY <3>1 DEF GoodRef
    <3>2. CASE x # None
      <4>1. PICK k \in 1..born : x = issued[k] /\ (Resolves(x) => Get(x).type = u)
        BY <2>1, <3>2 DEF GoodRef
      <4>2. k \in 1..born' /\ x = issued'[k] /\ x.index \in Slots
        BY <1>1, <1>b, <1>c, <4>1, Issued
      <4>3. Resolves(x)' => Resolves(x) /\ x.index # h.index
        <5>1. Resolves(issued[k])' => Resolves(issued[k])
          BY <1>k
        <5>2. Resolves(issued[k]) => issued[k].index # h.index
          BY <1>g
        <5>3. Resolves(x)' <=> Resolves(issued[k])'
          BY <4>1, <4>2 DEF Resolves
        <5> QED
          BY <4>1, <5>1, <5>2, <5>3
      <4>4. Resolves(x)' => Get(x)'.type = u
        BY <1>1, <4>1, <4>2, <4>3 DEF Get
      <4> QED
        BY <4>2, <4>4 DEF GoodRef
    <3> QED
      BY <3>1, <3>2
  <2>2. GoodRef(t, h)'
    <3>1. d \in 1..born' /\ h = issued'[d] /\ Get(h)'.type = t
      BY <1>1, <1>2, <1>b DEF Node
    <3> QED
      BY <3>1 DEF GoodRef
  <2>3. ASSUME NEW u \in Vars
        PROVE  \/ GoodRef(VarType[u], Ref(u))'
               \/ (slots[u].deleted /\ IsSentinel(u))'
    <3>1. CASE u = v
      <4>1. slots'[u].ref = h
        BY <1>1, <3>1 DEF Store, IInv, TypeOK
      <4> QED
        BY <2>2, <3>1, <4>1 DEF Ref
    <3>2. CASE u # v
      <4>1. slots'[u] = slots[u] /\ sentinel' = sentinel
        BY <1>1, <3>2 DEF Store, IInv, TypeOK
      <4>2. VarType[u] \in Types
        BY InterpTypeHeapAssumption DEF Types
      <4>3. \/ GoodRef(VarType[u], Ref(u))
            \/ slots[u].deleted /\ IsSentinel(u)
        BY DEF IInv, References
      <4> QED
        BY <2>1, <4>1, <4>2, <4>3 DEF Ref, IsSentinel
    <3> QED
      BY <3>1, <3>2
  <2>4. ASSUME NEW k \in 1..d, Resolves(issued[k])'
        PROVE  GoodRef(Get(issued[k]).type, Get(issued[k]).link)'
    <3>1. CASE k = d
      <4>1. Get(issued[k])'.link = None
        BY <1>1, <1>2, <3>1 DEF Node, Get
      <4> QED
        BY <4>1 DEF GoodRef
    <3>2. CASE k # d
      <4>0. k \in 1..born
        BY <1>b, <3>2
      <4>1. /\ Resolves(issued[k]) /\ issued'[k] = issued[k]
            /\ issued[k].index # h.index /\ issued[k].index \in Slots
        <5>1. Resolves(issued[k])
          BY <1>k, <2>4, <4>0
        <5> QED
          BY <1>g, <1>c, <4>0, <5>1, Issued
      <4>2. /\ Get(issued[k])'.type = Get(issued[k]).type
            /\ Get(issued[k])'.link = Get(issued[k]).link
        BY <1>1, <4>1 DEF Get
      <4>3. GoodRef(Get(issued[k]).type, Get(issued[k]).link)
        BY <4>0, <4>1 DEF IInv, References
      <4>4. Get(issued[k]).type \in Types
        <5>1. entries[issued[k].index] \in Entry
          BY <4>1 DEF IInv, TypeOK
        <5> QED
          BY <1>b, <4>1, <5>1 DEF Entry, Resolves, Get, Types
      <4> QED
        BY <2>1, <4>2, <4>3, <4>4
    <3> QED
      BY <3>1, <3>2
  <2> QED
    BY <1>1, <2>3, <2>4 DEF References
<1>15. NoPanic'
  BY <1>1, SMTT(30) DEF IInv, NoPanic
<1> QED
  BY <1>6, <1>7, <1>9, <1>10, <1>11, <1>12, <1>13, <1>14, <1>15 DEF IInv

-----------------------------------------------------------------------------
(* Delete.                                                                 *)

\* What unlink and free do to the slab.
LEMMA RemoveEffect ==
  ASSUME IInv, NEW d \in 1..born, NEW h, h = issued[d], Resolves(h), Remove(h),
         NEW e, e = Get(h)
  PROVE  /\ h \in Handle /\ h.index \in Slots \ Types /\ h.index \in 1..size
         /\ e \in Entry /\ e = entries[h.index] /\ e.type \in Types
         /\ d \in Live(e.type)
         /\ entries'[h.index].type = 0
         /\ \A i \in Slots : i # h.index =>
              /\ entries'[i].type = entries[i].type
              /\ entries'[i].link = entries[i].link
              /\ entries'[i].sentinel = entries[i].sentinel
              /\ entries'[i].next = IF i = e.prev.index THEN e.next ELSE entries[i].next
              /\ entries'[i].prev = IF i = e.next.index THEN e.prev ELSE entries[i].prev
         /\ entries' \in [Slots -> Entry]
         /\ generations' \in [Slots -> 0..(GenMod - 1)]
         /\ generations'[h.index] = generations[h.index] + 1
         /\ \A i \in Slots : i # h.index => generations'[i] = generations[i]
         /\ freeList' = Append(freeList, h.index)
         /\ tail' = IF tail[e.type] = h
                    THEN [tail EXCEPT ![e.type] = IF e.prev = sentinel[e.type]
                                                  THEN None ELSE e.prev]
                    ELSE tail
         /\ UNCHANGED <<size, sentinel, trap, born, issued>>
<1>1. h \in Handle /\ h.index \in Slots \ Types /\ h.index \in 1..size /\ d \in Serials
  BY Issued
<1>2. /\ entries \in [Slots -> Entry]
      /\ generations \in [Slots -> 0..(GenMod - 1)]
  BY DEF IInv, TypeOK
<1>b. /\ NumTypes \in Nat /\ GenMod \in Nat /\ MaxNews < GenMod /\ MaxNews \in Nat
      /\ born <= MaxNews /\ born \in Nat
  BY Bounds DEF IInv
<1>3. e \in Entry /\ e = entries[h.index] /\ e.type # 0
  BY <1>1, <1>2 DEF Resolves, Get
<1>4. e.type \in Types
  BY <1>3, <1>b DEF Entry, Types
<1>5. d \in Live(e.type)
  BY <1>1, <1>b DEF Live
<1>6. /\ entries' = [i \in Slots |->
             IF i = h.index THEN Vacant
             ELSE [entries[i] EXCEPT
                     !.next = IF i = e.prev.index THEN e.next ELSE @,
                     !.prev = IF i = e.next.index THEN e.prev ELSE @]]
      /\ tail' = IF tail[e.type] = h
                 THEN [tail EXCEPT ![e.type] = IF e.prev = sentinel[e.type]
                                               THEN None ELSE e.prev]
                 ELSE tail
      /\ generations' = [generations EXCEPT ![h.index] = (@ + 1) % GenMod]
      /\ freeList' = Append(freeList, h.index)
      /\ UNCHANGED <<size, sentinel, trap, born, issued>>
  BY DEF Remove, Free, Unlinked, TailWithout
<1>7. entries'[h.index] = Vacant /\ Vacant \in Entry /\ Vacant.type = 0
  <2>1. None \in Handle /\ 0 \in 0..NumTypes
    BY <1>b DEF None, Handle
  <2>2. Vacant \in Entry /\ Vacant.type = 0
    BY <2>1 DEF Vacant, Node, Entry
  <2> QED
    BY <1>1, <1>6, <2>2
<1>8. ASSUME NEW i \in Slots, i # h.index
      PROVE  /\ entries'[i] \in Entry
             /\ entries'[i].type = entries[i].type
             /\ entries'[i].link = entries[i].link
             /\ entries'[i].sentinel = entries[i].sentinel
             /\ entries'[i].next = IF i = e.prev.index THEN e.next ELSE entries[i].next
             /\ entries'[i].prev = IF i = e.next.index THEN e.prev ELSE entries[i].prev
  <2>1. entries[i] \in Entry /\ e.next \in Handle /\ e.prev \in Handle
    BY <1>2, <1>3 DEF Entry
  <2>2. entries'[i] = [entries[i] EXCEPT
                     !.next = IF i = e.prev.index THEN e.next ELSE entries[i].next,
                     !.prev = IF i = e.next.index THEN e.prev ELSE entries[i].prev]
    BY <1>6, <1>8
  <2> QED
    BY <2>1, <2>2 DEF Entry
<1>9. entries' \in [Slots -> Entry]
  BY <1>6, <1>7, <1>8
<1>10. generations[h.index] \in Nat /\ generations[h.index] + 1 < GenMod
  <2>1. generations[h.index] < born
    BY <1>1, <1>3 DEF IInv, GenerationsCountFrees
  <2>2. generations[h.index] \in Nat
    BY <1>1, <1>2, <1>b
  <2> QED
    BY <2>1, <2>2, <1>b
<1>11. (generations[h.index] + 1) % GenMod = generations[h.index] + 1
  BY <1>10, <1>b
<1>12. /\ generations'[h.index] = generations[h.index] + 1
       /\ \A i \in Slots : i # h.index => generations'[i] = generations[i]
  BY <1>1, <1>2, <1>6, <1>11
<1>13. generations' \in [Slots -> 0..(GenMod - 1)]
  <2>1. generations[h.index] + 1 \in 0..(GenMod - 1)
    BY <1>10, <1>b
  <2> QED
    BY <1>2, <1>6, <1>11, <2>1
<1> QED
  BY <1>1, <1>3, <1>4, <1>5, <1>6, <1>7, <1>8, <1>9, <1>12, <1>13

\* Exactly the deleted instance stops resolving.
LEMMA RemoveInstances ==
  ASSUME IInv, NEW d \in 1..born, NEW h, h = issued[d], Resolves(h), Remove(h)
  PROVE  /\ \A k \in 1..born : Resolves(issued[k])' <=> Resolves(issued[k]) /\ k # d
         /\ \A k \in 1..born : Resolves(issued[k]) /\ k # d =>
              issued[k].index # h.index
         /\ \A u \in Types : Live(u)' = Live(u) \ {d}
<1>1. /\ h \in Handle /\ h.index \in Slots \ Types
      /\ entries'[h.index].type = 0
      /\ \A i \in Slots : i # h.index =>
           entries'[i].type = entries[i].type /\ generations'[i] = generations[i]
      /\ UNCHANGED <<size, born, issued>>
  BY RemoveEffect
<1>2. ASSUME NEW k \in 1..born
      PROVE  /\ Resolves(issued[k])' <=> Resolves(issued[k]) /\ k # d
             /\ Resolves(issued[k]) /\ k # d => issued[k].index # h.index
             /\ Resolves(issued[k]) /\ k # d => Get(issued[k])'.type = Get(issued[k]).type
  <2>1. issued[k].index \in Slots
    BY Issued
  <2>2. Resolves(issued[k]) /\ k # d => issued[k].index # h.index
    BY Issued
  <2>3. CASE issued[k].index = h.index
    <3>1. ~Resolves(issued[k])'
      BY <1>1, <2>3 DEF Resolves
    <3> QED
      BY <2>2, <2>3, <3>1
  <2>4. CASE issued[k].index # h.index
    BY <1>1, <2>1, <2>4 DEF Resolves, Get
  <2> QED
    BY <2>2, <2>3, <2>4
<1>3. ASSUME NEW u \in Types
      PROVE  Live(u)' = Live(u) \ {d}
  <2>1. 1..born \subseteq Serials /\ born \in Nat
    BY Bounds DEF IInv
  <2>2. ASSUME NEW k \in Serials
        PROVE  k \in Live(u)' <=> k \in Live(u) /\ k # d
    <3>1. CASE k \in 1..born
      BY <1>1, <1>2, <3>1 DEF Live
    <3>2. CASE k \notin 1..born
      BY <1>1, <2>1, <3>2 DEF Live, Serials
    <3> QED
      BY <3>1, <3>2
  <2>3. Live(u)' \subseteq Serials /\ Live(u) \subseteq Serials
    BY DEF Live
  <2> QED
    BY <2>2, <2>3
<1> QED
  BY <1>2, <1>3

\* Unlinking joins the neighbours of the deleted instance.
LEMMA RemoveOrder ==
  ASSUME IInv, NEW d \in 1..born, NEW h, h = issued[d], Resolves(h), Remove(h)
  PROVE  CreationOrder'
<1>0. PICK e, t : e = Get(h) /\ t = e.type
  OBVIOUS
<1> DEFINE L == Live(t)
<1>1. /\ h \in Handle /\ h.index \in Slots \ Types
      /\ e \in Entry /\ e = entries[h.index] /\ t \in Types
      /\ d \in L
      /\ \A i \in Slots : i # h.index =>
           /\ entries'[i].next = IF i = e.prev.index THEN e.next ELSE entries[i].next
           /\ entries'[i].prev = IF i = e.next.index THEN e.prev ELSE entries[i].prev
      /\ tail' = IF tail[t] = h
                 THEN [tail EXCEPT ![t] = IF e.prev = sentinel[t]
                                          THEN None ELSE e.prev]
                 ELSE tail
      /\ UNCHANGED <<size, sentinel, trap, born, issued>>
  BY <1>0, RemoveEffect
<1>2. \A u \in Types : Live(u)' = Live(u) \ {d}
  BY RemoveInstances
<1>3. \A k \in 1..born : Resolves(issued[k]) /\ k # d => issued[k].index # h.index
  BY RemoveInstances
<1>b. /\ born \in Nat /\ MaxNews \in Nat /\ born <= MaxNews
      /\ tail \in [Types -> Handle] /\ d >= 1
  <2>1. TypeOK /\ tail \in [Types -> Handle]
    BY DEF IInv, TypeOK
  <2> QED
    BY <2>1, Bounds
<1>4. \A u \in Types : \A k \in Live(u) :
        /\ k \in 1..born /\ Resolves(issued[k]) /\ Get(issued[k]).type = u
        /\ issued[k].index \in Slots \ Types
        /\ k # d => issued[k].index # h.index
  <2>1. \A u \in Types : \A k \in Live(u) :
          k \in 1..born /\ Resolves(issued[k]) /\ Get(issued[k]).type = u
    BY <1>b DEF Live, Serials
  <2> QED
    BY <2>1, <1>3, Issued
<1>l. L \subseteq 1..born /\ L \subseteq Int /\ d \in L /\ d \in Int
  <2>1. L \subseteq 1..born
    BY <1>1, <1>4
  <2> QED
    BY <1>1, <1>b, <2>1
<1>u. Live(t)' = L \ {d} /\ issued' = issued /\ sentinel' = sentinel
  <2>1. Live(t)' = Live(t) \ {d}
    BY <1>1, <1>2
  <2> QED
    BY <1>1, <2>1
<1>5. \A u \in Types : /\ sentinel[u].index = u /\ u \in Slots /\ u # h.index
                       /\ Get(sentinel[u]).type = u /\ sentinel[u] \in Handle
                       /\ sentinel[u] # None
  BY <1>1, Issued DEF IInv, SentinelsInPlace
<1>6. /\ \A u \in Types :
           /\ Follows(u, 0, Get(sentinel[u]).next)
           /\ Precedes(u, MaxNews + 1, LastNode(u))
           /\ \A k \in Live(u) : /\ Follows(u, k, Get(issued[k]).next)
                                 /\ Precedes(u, k, Get(issued[k]).prev)
  BY DEF IInv, CreationOrder, LastNode
<1>7. Follows(t, d, e.next) /\ Precedes(t, d, e.prev)
  BY <1>0, <1>1, <1>6
<1>8. \A y \in 1..born : issued[y] = h => y = d
  BY DEF IInv, HandlesUnique
<1>9. /\ e.prev = sentinel[t] \/ \E y \in L : e.prev = issued[y]
      /\ e.next = None \/ \E y \in L : e.next = issued[y]
  BY <1>7 DEF Precedes, Follows
<1>10. /\ e.prev.index \in Slots /\ entries[e.prev.index].type = t
       /\ e.next = None \/ (e.next.index \in Slots /\ entries[e.next.index].type = t)
  BY <1>1, <1>4, <1>5, <1>9, SMTT(30) DEF Get
<1>11. ASSUME NEW u \in Types, u # t
       PROVE  /\ Follows(u, 0, Get(sentinel[u]).next)'
              /\ Precedes(u, MaxNews + 1,
                          IF tail[u] = None THEN sentinel[u] ELSE tail[u])'
              /\ \A k \in Live(u)' : /\ Follows(u, k, Get(issued[k]).next)'
                                     /\ Precedes(u, k, Get(issued[k]).prev)'
  <2>1. Live(u)' = Live(u) /\ issued' = issued /\ sentinel' = sentinel
    <3>1. d \notin Live(u)
      BY <1>0, <1>4, <1>11
    <3>2. Live(u)' = Live(u) \ {d}
      BY <1>2
    <3> QED
      BY <1>1, <3>1, <3>2
  <2>2. \A k, x : /\ Follows(u, k, x)' <=> Follows(u, k, x)
                  /\ Precedes(u, k, x)' <=> Precedes(u, k, x)
    BY <2>1 DEF Follows, Precedes
  <2>3. tail'[u] = tail[u]
    BY <1>1, <1>11, <1>b
  <2>4. \A i \in Slots : entries[i].type = u =>
          i # e.prev.index /\ i # e.next.index /\ i # h.index
    <3>1. \A i \in Slots : entries[i].type = u => i # e.prev.index /\ i # h.index
      BY <1>0, <1>1, <1>10, <1>11
    <3>2. \A i \in Slots : entries[i].type = u => i # e.next.index
      BY <1>10, <1>11 DEF None, Slots
    <3> QED
      BY <3>1, <3>2, SMTT(30)
  <2>5. Get(sentinel[u])'.next = Get(sentinel[u]).next
    BY <1>1, <1>5, <2>1, <2>4 DEF Get
  <2>6. ASSUME NEW k \in Live(u)
        PROVE  /\ Get(issued[k])'.next = Get(issued[k]).next
               /\ Get(issued[k])'.prev = Get(issued[k]).prev
    <3>1. issued[k].index \in Slots /\ entries[issued[k].index].type = u
      BY <1>4 DEF Get
    <3> QED
      BY <1>1, <2>1, <2>4, <3>1 DEF Get
  <2>7. Precedes(u, MaxNews + 1, IF tail[u] = None THEN sentinel[u] ELSE tail[u])'
    BY <1>6, <2>1, <2>2, <2>3 DEF LastNode
  <2> QED
    BY <1>6, <2>1, <2>2, <2>5, <2>6, <2>7
<1>12. ASSUME NEW k \in Int, NEW x, x # h, Follows(t, k, x)
       PROVE  Follows(t, k, x)'
  BY <1>1, <1>2, <1>12 DEF Follows
<1>13. ASSUME NEW k \in Int, NEW x, x # h, Precedes(t, k, x)
       PROVE  Precedes(t, k, x)'
  BY <1>1, <1>2, <1>13 DEF Precedes
<1>14. ASSUME NEW k \in Int, Follows(t, k, h)
       PROVE  /\ d > k /\ \A z \in L : z <= k \/ z >= d
              /\ Follows(t, k, e.next)'
  <2>1. h # None
    BY Issued
  <2>2. d > k /\ \A z \in L : z <= k \/ z >= d
    BY <1>4, <1>8, <1>1, <1>14, <2>1 DEF Follows
  <2>3. L \subseteq 1..born
    BY <1>1, <1>4
  <2>4. CASE e.next = None /\ \A y \in L : y <= d
    <3>1. \A y \in L \ {d} : y <= k
      BY <2>2, <2>3, <2>4, <1>b
    <3> QED
      BY <1>u, <2>2, <2>4, <3>1 DEF Follows
  <2>5. CASE \E y \in L : e.next = issued[y] /\ y > d /\ \A z \in L : z <= d \/ z >= y
    <3>1. PICK y \in L : e.next = issued[y] /\ y > d /\ \A z \in L : z <= d \/ z >= y
      BY <2>5
    <3>2. y \in L \ {d} /\ y > k /\ \A z \in L \ {d} : z <= k \/ z >= y
      BY <2>2, <2>3, <3>1, <1>b
    <3> QED
      BY <1>u, <2>2, <3>1, <3>2 DEF Follows
  <2> QED
    BY <1>7, <2>2, <2>4, <2>5 DEF Follows
<1>15. ASSUME NEW k \in Int, Precedes(t, k, h)
       PROVE  /\ d < k /\ \A z \in L : z >= k \/ z <= d
              /\ Precedes(t, k, e.prev)'
  <2>1. h # sentinel[t]
    BY <1>1, <1>5
  <2>2. d < k /\ \A z \in L : z >= k \/ z <= d
    BY <1>4, <1>8, <1>1, <1>15, <2>1 DEF Precedes
  <2>3. L \subseteq 1..born
    BY <1>1, <1>4
  <2>4. CASE e.prev = sentinel[t] /\ \A y \in L : y >= d
    <3>1. \A y \in L \ {d} : y >= k
      BY <2>2, <2>3, <2>4, <1>b
    <3> QED
      BY <1>u, <2>2, <2>4, <3>1 DEF Precedes
  <2>5. CASE \E y \in L : e.prev = issued[y] /\ y < d /\ \A z \in L : z >= d \/ z <= y
    <3>1. PICK y \in L : e.prev = issued[y] /\ y < d /\ \A z \in L : z >= d \/ z <= y
      BY <2>5
    <3>2. y \in L \ {d} /\ y < k /\ \A z \in L \ {d} : z >= k \/ z <= y
      BY <2>2, <2>3, <3>1, <1>b
    <3> QED
      BY <1>u, <2>2, <3>1, <3>2 DEF Precedes
  <2> QED
    BY <1>7, <2>2, <2>4, <2>5 DEF Precedes
\* The node before the deleted one is the one whose next was it...
<1>16. ASSUME NEW k \in L, k # d
       PROVE  issued[k].index = e.prev.index <=> Get(issued[k]).next = h
  <2>0. /\ k \in Int /\ d \in Int /\ k \in L /\ d \in L /\ L \subseteq 1..born
        /\ Follows(t, k, Get(issued[k]).next) /\ Precedes(t, d, e.prev)
    <3>1. Follows(t, k, Get(issued[k]).next) /\ Precedes(t, d, e.prev)
      BY <1>1, <1>6, <1>7
    <3> QED
      BY <3>1, <1>b, <1>l
  <2>1. ASSUME issued[k].index = e.prev.index
        PROVE  Get(issued[k]).next = h
    <3>1. e.prev # sentinel[t]
      BY <1>1, <1>4, <1>5, <2>0, <2>1
    <3>2. PICK y \in L : e.prev = issued[y] /\ y < d /\ \A z \in L : z >= d \/ z <= y
      BY <2>0, <3>1 DEF Precedes
    <3>3. y = k
      BY <1>1, <1>4, <2>0, <2>1, <3>2, Issued
    <3>4. PICK w \in L : /\ Get(issued[k]).next = issued[w] /\ w > k
                         /\ \A z \in L : z <= k \/ z >= w
      BY <2>0, <3>2, <3>3 DEF Follows
    <3>5. w = d
      BY <2>0, <3>2, <3>3, <3>4
    <3> QED
      BY <3>4, <3>5
  <2>2. ASSUME Get(issued[k]).next = h
        PROVE  issued[k].index = e.prev.index
    <3>1. d > k /\ \A z \in L : z <= k \/ z >= d
      BY <1>14, <2>0, <2>2
    <3>2. PICK y \in L : e.prev = issued[y] /\ y < d /\ \A z \in L : z >= d \/ z <= y
      BY <2>0, <3>1 DEF Precedes
    <3>3. y = k
      BY <2>0, <3>1, <3>2
    <3> QED
      BY <3>2, <3>3
  <2> QED
    BY <2>1, <2>2
\* ... and the node after it the one whose prev was it.
<1>17. ASSUME NEW k \in L, k # d
       PROVE  issued[k].index = e.next.index <=> Get(issued[k]).prev = h
  <2>0. /\ k \in Int /\ d \in Int /\ k \in L /\ d \in L /\ L \subseteq 1..born
        /\ Precedes(t, k, Get(issued[k]).prev) /\ Follows(t, d, e.next)
    <3>1. Precedes(t, k, Get(issued[k]).prev) /\ Follows(t, d, e.next)
      BY <1>1, <1>6, <1>7
    <3> QED
      BY <3>1, <1>b, <1>l
  <2>1. ASSUME issued[k].index = e.next.index
        PROVE  Get(issued[k]).prev = h
    <3>1. e.next # None
      BY <1>1, <1>4, <2>0, <2>1 DEF None, Slots
    <3>2. PICK y \in L : e.next = issued[y] /\ y > d /\ \A z \in L : z <= d \/ z >= y
      BY <2>0, <3>1 DEF Follows
    <3>3. y = k
      BY <1>1, <1>4, <2>0, <2>1, <3>2, Issued
    <3>4. PICK w \in L : /\ Get(issued[k]).prev = issued[w] /\ w < k
                         /\ \A z \in L : z >= k \/ z <= w
      BY <2>0, <3>2, <3>3 DEF Precedes
    <3>5. w = d
      BY <2>0, <3>2, <3>3, <3>4
    <3> QED
      BY <3>4, <3>5
  <2>2. ASSUME Get(issued[k]).prev = h
        PROVE  issued[k].index = e.next.index
    <3>1. d < k /\ \A z \in L : z >= k \/ z <= d
      BY <1>15, <2>0, <2>2
    <3>2. PICK y \in L : e.next = issued[y] /\ y > d /\ \A z \in L : z <= d \/ z >= y
      BY <2>0, <3>1 DEF Follows
    <3>3. y = k
      BY <2>0, <3>1, <3>2
    <3> QED
      BY <3>2, <3>3
  <2> QED
    BY <2>1, <2>2
<1>18. t = e.prev.index <=> Get(sentinel[t]).next = h
  <2>0. /\ d \in Int /\ d >= 1 /\ d \in L /\ L \subseteq 1..born
        /\ Follows(t, 0, Get(sentinel[t]).next) /\ Precedes(t, d, e.prev)
    <3>1. Follows(t, 0, Get(sentinel[t]).next) /\ Precedes(t, d, e.prev)
      BY <1>1, <1>6, <1>7
    <3> QED
      BY <3>1, <1>b, <1>l
  <2>1. ASSUME t = e.prev.index
        PROVE  Get(sentinel[t]).next = h
    <3>1. \A y \in L : e.prev # issued[y]
      BY <1>1, <1>4, <2>1
    <3>2. \A z \in L : z >= d
      BY <2>0, <3>1 DEF Precedes
    <3>3. PICK w \in L : /\ Get(sentinel[t]).next = issued[w] /\ w > 0
                         /\ \A z \in L : z <= 0 \/ z >= w
      BY <2>0 DEF Follows
    <3>4. w = d
      BY <2>0, <3>2, <3>3
    <3> QED
      BY <3>3, <3>4
  <2>2. ASSUME Get(sentinel[t]).next = h
        PROVE  t = e.prev.index
    <3>1. d > 0 /\ \A z \in L : z <= 0 \/ z >= d
      BY <1>14, <2>0, <2>2
    <3>2. e.prev = sentinel[t]
      BY <2>0, <3>1 DEF Precedes
    <3> QED
      BY <1>1, <1>5, <3>2
  <2> QED
    BY <2>1, <2>2
<1>19. Follows(t, 0, Get(sentinel[t]).next)'
  <2>1. Get(sentinel[t])'.next = IF Get(sentinel[t]).next = h THEN e.next
                                 ELSE Get(sentinel[t]).next
    BY <1>1, <1>5, <1>18 DEF Get
  <2> QED
    BY <2>1, <1>1, <1>6, <1>12, <1>14
<1>20. ASSUME NEW k \in Live(t)'
       PROVE  /\ Follows(t, k, Get(issued[k]).next)'
              /\ Precedes(t, k, Get(issued[k]).prev)'
  <2>1. k \in L /\ k # d /\ k \in Int /\ issued' = issued
    BY <1>u, <1>l
  <2>2. issued[k].index \in Slots /\ issued[k].index # h.index
    BY <1>1, <1>4, <2>1
  <2>3. /\ Get(issued[k])'.next = IF Get(issued[k]).next = h THEN e.next
                                  ELSE Get(issued[k]).next
        /\ Get(issued[k])'.prev = IF Get(issued[k]).prev = h THEN e.prev
                                  ELSE Get(issued[k]).prev
    BY <1>1, <1>16, <1>17, <2>1, <2>2 DEF Get
  <2>4. Follows(t, k, Get(issued[k]).next) /\ Precedes(t, k, Get(issued[k]).prev)
    BY <1>1, <1>6, <2>1
  <2>5. Follows(t, k, Get(issued[k]).next)'
    BY <1>12, <1>14, <2>1, <2>3, <2>4
  <2>6. Precedes(t, k, Get(issued[k]).prev)'
    BY <1>13, <1>15, <2>1, <2>3, <2>4
  <2> QED
    BY <2>5, <2>6
<1>21. Precedes(t, MaxNews + 1, IF tail[t] = None THEN sentinel[t] ELSE tail[t])'
  <2>1. Precedes(t, MaxNews + 1, LastNode(t)) /\ MaxNews + 1 \in Int
    BY <1>1, <1>6, <1>b
  <2>2. CASE tail[t] = h
    <3>1. LastNode(t) = h
      BY <2>2, Issued DEF LastNode
    <3>2. Precedes(t, MaxNews + 1, e.prev)'
      BY <1>15, <2>1, <3>1
    <3>3. e.prev # None
      BY <1>1, <1>4, <1>5, <1>9, Issued
    <3>4. tail'[t] = IF e.prev = sentinel[t] THEN None ELSE e.prev
      BY <1>1, <1>b, <2>2
    <3> QED
      BY <1>1, <3>2, <3>3, <3>4
  <2>3. CASE tail[t] # h
    <3>1. LastNode(t) # h
      BY <1>1, <1>5, <2>3 DEF LastNode
    <3>2. Precedes(t, MaxNews + 1, LastNode(t))'
      <4>1. PICK x : x = LastNode(t)
        OBVIOUS
      <4>2. Precedes(t, MaxNews + 1, x)' /\ LastNode(t)' = x
        BY <1>1, <1>13, <2>1, <2>3, <3>1, <4>1 DEF LastNode
      <4> QED
        BY <4>2
    <3> QED
      BY <3>2 DEF LastNode
  <2> QED
    BY <2>2, <2>3
<1> QED
  BY <1>1, <1>11, <1>19, <1>20, <1>21 DEF CreationOrder

LEMMA RemoveIInv ==
  ASSUME IInv, NEW d \in 1..born, NEW h, h = issued[d], Resolves(h), Remove(h),
         slots' \in [Vars -> [ref : Handle, deleted : BOOLEAN]],
         \A u \in Vars : \/ GoodRef(VarType[u], slots'[u].ref)
                         \/ slots'[u].deleted /\ slots'[u].ref = sentinel[VarType[u]]
  PROVE  IInv'
<1>0. PICK e : e = Get(h)
  OBVIOUS
<1>1. /\ h \in Handle /\ h.index \in Slots \ Types /\ h.index \in 1..size
      /\ e \in Entry /\ e = entries[h.index] /\ e.type \in Types
      /\ entries'[h.index].type = 0
      /\ \A i \in Slots : i # h.index =>
           /\ entries'[i].type = entries[i].type
           /\ entries'[i].link = entries[i].link
           /\ entries'[i].sentinel = entries[i].sentinel
           /\ entries'[i].prev = IF i = e.next.index THEN e.prev ELSE entries[i].prev
      /\ entries' \in [Slots -> Entry]
      /\ generations' \in [Slots -> 0..(GenMod - 1)]
      /\ generations'[h.index] = generations[h.index] + 1
      /\ \A i \in Slots : i # h.index => generations'[i] = generations[i]
      /\ freeList' = Append(freeList, h.index)
      /\ tail' = IF tail[e.type] = h
                 THEN [tail EXCEPT ![e.type] = IF e.prev = sentinel[e.type]
                                               THEN None ELSE e.prev]
                 ELSE tail
      /\ UNCHANGED <<size, sentinel, trap, born, issued>>
  BY <1>0, RemoveEffect
<1>2. \A k \in 1..born : Resolves(issued[k])' <=> Resolves(issued[k]) /\ k # d
  BY RemoveInstances
<1>3. \A k \in 1..born : Resolves(issued[k]) /\ k # d => issued[k].index # h.index
  BY RemoveInstances
<1>4. entries[h.index].type # 0
  BY DEF Resolves
<1>b. /\ NumTypes \in Nat /\ MaxNews \in Nat /\ born \in Nat /\ size \in Nat
      /\ NumTypes <= size /\ 1..size \subseteq Slots /\ Types \subseteq Slots
      /\ (NumTypes + 1)..size \subseteq Slots
      /\ \A i \in Slots : generations[i] \in Nat
  BY Bounds DEF IInv
<1>5. CreationOrder'
  BY RemoveOrder
<1>6. HandlesUnique'
  BY <1>1 DEF IInv, HandlesUnique
<1>7. FreeListExact'
  <2>1. FreeListExact /\ freeList \in Seq(Slots)
    BY DEF IInv, TypeOK
  <2> DEFINE n == Len(freeList)
  <2>2. /\ n \in Nat /\ Len(freeList') = n + 1 /\ freeList'[n + 1] = h.index
        /\ \A m \in 1..n : freeList'[m] = freeList[m]
    BY <1>1, <2>1
  <2>3. \A m \in 1..n : freeList[m] # h.index
    BY <1>1, <1>4, <2>1 DEF FreeListExact
  <2>4. \A m, l \in 1..(n + 1) : freeList'[m] = freeList'[l] => m = l
    <3>1. \A m, l \in 1..n : freeList[m] = freeList[l] => m = l
      BY <2>1 DEF FreeListExact
    <3> HIDE DEF n
    <3> QED
      BY <2>2, <2>3, <3>1
  <2>5. ASSUME NEW i \in Slots
        PROVE  (i <= size /\ entries'[i].type = 0)
                 <=> \E m \in 1..(n + 1) : freeList'[m] = i
    <3>1. (i <= size /\ entries[i].type = 0) <=> \E m \in 1..n : freeList[m] = i
      BY <2>1 DEF FreeListExact
    <3> HIDE DEF n
    <3>2. CASE i = h.index
      BY <1>1, <2>2, <3>2
    <3>3. CASE i # h.index
      BY <1>1, <2>2, <3>1, <3>3, SMTT(30)
    <3> QED
      BY <3>2, <3>3
  <2> QED
    BY <1>1, <2>2, <2>4, <2>5 DEF FreeListExact
<1>8. SentinelsInPlace'
  <2>1. SentinelsInPlace
    BY DEF IInv
  <2>2. e.next = None \/ \E y \in 1..born : e.next = issued[y]
    <3>1. Follows(e.type, d, e.next)
      BY <1>0, RemoveEffect DEF IInv, CreationOrder
    <3> QED
      BY <3>1, <1>b DEF Follows, Live, Serials
  <2>3. \A u \in Types : u # e.next.index /\ u # h.index /\ u \in Slots
    <3>1. e.next.index \notin Types
      BY <1>b, <2>2, Issued DEF None, Types
    <3> QED
      BY <1>1, <1>b, <3>1
  <2>4. ASSUME NEW u \in Types
        PROVE  /\ sentinel'[u].index = u /\ sentinel'[u].generation = 0
               /\ generations'[u] = 0 /\ entries'[u].type = u
               /\ entries'[u].sentinel /\ entries'[u].prev = None
    <3>1. /\ sentinel[u].index = u /\ sentinel[u].generation = 0
          /\ generations[u] = 0 /\ entries[u].type = u
          /\ entries[u].sentinel /\ entries[u].prev = None
      BY <2>1 DEF SentinelsInPlace
    <3>2. u \in Slots /\ u # h.index /\ u # e.next.index
      BY <2>3
    <3>3. /\ entries'[u].type = entries[u].type /\ entries'[u].prev = entries[u].prev
          /\ entries'[u].sentinel = entries[u].sentinel
          /\ generations'[u] = generations[u] /\ sentinel' = sentinel
      BY <1>1, <3>2
    <3> QED
      BY <3>1, <3>3
  <2>5. ASSUME NEW u \in Types
        PROVE  tail'[u] # sentinel'[u]
    <3>1. tail \in [Types -> Handle] /\ tail[u] # sentinel[u]
      BY <2>1 DEF IInv, TypeOK, SentinelsInPlace
    <3>2. sentinel[u] # None
      BY Issued
    <3> QED
      BY <1>1, <3>1, <3>2
  <2> QED
    BY <1>1, <1>b, <2>4, <2>5 DEF SentinelsInPlace
<1>9. GenerationsCountFrees'
  <2>1. GenerationsCountFrees
    BY DEF IInv
  <2>2. ASSUME NEW i \in Slots, i > size
        PROVE  entries'[i].type = 0 /\ generations'[i] = 0
    <3>1. i # h.index
      BY <1>1, <1>b, <2>2 DEF Slots
    <3> QED
      BY <1>1, <2>1, <2>2, <3>1, SMTT(30) DEF GenerationsCountFrees
  <2>3. ASSUME NEW i \in Slots \ Types
        PROVE  /\ generations'[i] <= born
               /\ entries'[i].type # 0 => generations'[i] < born /\ ~entries'[i].sentinel
    <3>1. /\ generations[i] <= born
          /\ entries[i].type # 0 => generations[i] < born /\ ~entries[i].sentinel
          /\ generations[i] \in Nat
      BY <1>b, <2>1 DEF GenerationsCountFrees
    <3>2. CASE i = h.index
      <4>1. generations[i] < born /\ generations'[i] = generations[i] + 1
        BY <1>1, <1>4, <3>1, <3>2
      <4>2. entries'[i].type = 0
        BY <1>1, <3>2
      <4> QED
        BY <1>b, <3>1, <4>1, <4>2
    <3>3. CASE i # h.index
      BY <1>1, <3>1, <3>3
    <3> QED
      BY <3>2, <3>3
  <2> QED
    BY <1>1, <2>1, <2>2, <2>3 DEF GenerationsCountFrees
<1>10. IssuedHandles'
  <2>1. IssuedHandles
    BY DEF IInv
  <2>2. ASSUME NEW k \in 1..born
        PROVE  /\ issued[k].index \in (NumTypes + 1)..size
               /\ issued[k].generation <= generations'[issued[k].index]
               /\ entries'[issued[k].index].type = 0 =>
                    issued[k].generation < generations'[issued[k].index]
    <3>1. /\ issued[k].index \in (NumTypes + 1)..size
          /\ issued[k].generation <= generations[issued[k].index]
          /\ entries[issued[k].index].type = 0 =>
               issued[k].generation < generations[issued[k].index]
      BY <2>1 DEF IssuedHandles
    <3>2. issued[k].index \in Slots /\ issued[k].generation \in Nat
          /\ generations[issued[k].index] \in Nat
      BY Issued, <1>b DEF Handle
    <3>3. CASE issued[k].index = h.index
      BY <1>1, <3>1, <3>2, <3>3, SMTT(30)
    <3>4. CASE issued[k].index # h.index
      BY <1>1, <3>1, <3>2, <3>4
    <3> QED
      BY <3>3, <3>4
  <2>3. ASSUME NEW i \in (NumTypes + 1)..size, entries'[i].type # 0
        PROVE  \E k \in 1..born : /\ issued[k].index = i
                                  /\ issued[k].generation = generations'[i]
    <3>1. i \in Slots /\ i # h.index
      BY <1>1, <1>b, <2>3
    <3>2. entries[i].type # 0 /\ generations'[i] = generations[i]
      BY <1>1, <2>3, <3>1
    <3> QED
      BY <2>1, <3>2 DEF IssuedHandles
  <2> QED
    BY <1>1, <2>2, <2>3 DEF IssuedHandles
<1>11. ASSUME NEW u \in Types, NEW x, GoodRef(u, x)
       PROVE  GoodRef(u, x)'
  <2>1. CASE x = None
    BY <2>1 DEF GoodRef
  <2>2. CASE x # None
    <3>1. PICK k \in 1..born : x = issued[k] /\ (Resolves(x) => Get(x).type = u)
      BY <1>11, <2>2 DEF GoodRef
    <3>2. k \in 1..born' /\ x = issued'[k] /\ x.index \in Slots
      BY <1>1, <3>1, Issued
    <3>3. Resolves(x)' => Resolves(x) /\ x.index # h.index
      <4>1. Resolves(issued[k])' => Resolves(issued[k]) /\ k # d
        BY <1>2
      <4>2. Resolves(x)' <=> Resolves(issued[k])'
        BY <3>1, <3>2 DEF Resolves
      <4> QED
        BY <1>3, <3>1, <4>1, <4>2
    <3>4. Resolves(x)' => Get(x)'.type = u
      BY <1>1, <3>1, <3>2, <3>3 DEF Get
    <3> QED
      BY <3>2, <3>4 DEF GoodRef
  <2> QED
    BY <2>1, <2>2
<1>12. References'
  <2>1. ASSUME NEW u \in Vars
        PROVE  \/ GoodRef(VarType[u], Ref(u))'
               \/ (slots[u].deleted /\ IsSentinel(u))'
    <3>1. VarType[u] \in Types
      BY InterpTypeHeapAssumption DEF Types
    <3> QED
      BY <1>1, <1>11, <3>1 DEF Ref, IsSentinel
  <2>2. ASSUME NEW k \in 1..born, Resolves(issued[k])'
        PROVE  GoodRef(Get(issued[k]).type, Get(issued[k]).link)'
    <3>1. Resolves(issued[k]) /\ k # d
      BY <1>2, <2>2
    <3>2. issued[k].index \in Slots /\ issued[k].index # h.index /\ issued'[k] = issued[k]
      BY <1>1, <1>3, <3>1, Issued
    <3>3. /\ Get(issued[k])'.type = Get(issued[k]).type
          /\ Get(issued[k])'.link = Get(issued[k]).link
      BY <1>1, <3>2 DEF Get
    <3>4. GoodRef(Get(issued[k]).type, Get(issued[k]).link)
      BY <3>1 DEF IInv, References
    <3>5. Get(issued[k]).type \in Types
      <4>1. entries[issued[k].index] \in Entry
        BY <3>2 DEF IInv, TypeOK
      <4> QED
        BY <1>b, <3>1, <4>1 DEF Entry, Resolves, Get, Types
    <3> QED
      BY <1>11, <3>3, <3>4, <3>5
  <2> QED
    BY <1>1, <2>1, <2>2 DEF References
<1>13. TypeOK' /\ NoPanic'
  <2>1. TypeOK /\ NoPanic /\ e.prev \in Handle
    BY <1>1 DEF IInv, Entry
  <2>2. None \in Handle
    BY <1>b, InterpTypeHeapAssumption DEF None, Handle
  <2>3. tail' \in [Types -> Handle]
    BY <1>1, <2>1, <2>2 DEF TypeOK
  <2>4. freeList' \in Seq(Slots)
    <3>1. freeList \in Seq(Slots) /\ h.index \in Slots
      BY <1>1, <2>1 DEF TypeOK
    <3> QED
      BY <1>1, <3>1
  <2> QED
    BY <1>1, <2>1, <2>3, <2>4 DEF TypeOK, NoPanic
<1> QED
  BY <1>5, <1>6, <1>7, <1>8, <1>9, <1>10, <1>12, <1>13 DEF IInv

\* The neighbours of an instance always resolve: unlink's expects hold.
LEMMA NeighboursResolve ==
  ASSUME IInv, NEW d \in 1..born, Resolves(issued[d])
  PROVE  /\ LinksResolve(issued[d])
         /\ LET e == Get(issued[d])
            IN  /\ e.type \in Types
                /\ e.next \in Handle /\ GoodRef(e.type, e.next)
                /\ e.prev \in Handle /\ e.prev # None /\ Resolves(e.prev)
                /\ \/ e.prev = sentinel[e.type] /\ Get(e.prev).sentinel
                   \/ GoodRef(e.type, e.prev) /\ ~Get(e.prev).sentinel
<1>0. PICK e : e = Get(issued[d])
  OBVIOUS
<1>b. born \in Nat /\ 1..born \subseteq Serials
  BY Bounds DEF IInv
<1>1. e \in Entry /\ e.type \in Types
  <2>1. entries[issued[d].index] \in Entry
    BY Issued DEF IInv, TypeOK
  <2> QED
    BY <1>0, <2>1, InterpTypeHeapAssumption DEF Resolves, Get, Entry, Types
<1>2. d \in Live(e.type)
  BY <1>0, <1>b DEF Live
<1>3. Follows(e.type, d, e.next) /\ Precedes(e.type, d, e.prev)
  BY <1>0, <1>1, <1>2 DEF IInv, CreationOrder
<1>4. \A y \in Live(e.type) : /\ y \in 1..born /\ issued[y] # None
                              /\ Resolves(issued[y])
                              /\ ~Get(issued[y]).sentinel
                              /\ GoodRef(e.type, issued[y])
  <2>1. \A y \in Live(e.type) : y \in 1..born /\ Resolves(issued[y])
                                /\ Get(issued[y]).type = e.type
    BY <1>b DEF Live, Serials
  <2>2. \A y \in Live(e.type) : ~Get(issued[y]).sentinel
    BY <2>1, Issued DEF IInv, GenerationsCountFrees, Resolves, Get
  <2> QED
    BY <2>1, <2>2, Issued DEF GoodRef
<1>5. e.next = None \/ (Resolves(e.next) /\ GoodRef(e.type, e.next))
  <2>1. e.next = None \/ \E y \in Live(e.type) : e.next = issued[y]
    BY <1>3 DEF Follows
  <2>2. ASSUME NEW y \in Live(e.type), e.next = issued[y]
        PROVE  Resolves(e.next) /\ GoodRef(e.type, e.next)
    <3>1. Resolves(issued[y]) /\ GoodRef(e.type, issued[y])
      BY <1>4
    <3>2. Resolves(e.next)
      BY <2>2, <3>1
    <3>3. GoodRef(e.type, e.next)
      BY <2>2, <3>1
    <3> QED
      BY <3>2, <3>3
  <2> QED
    BY <2>1, <2>2
<1>6. /\ e.prev # None /\ Resolves(e.prev)
      /\ \/ e.prev = sentinel[e.type] /\ Get(e.prev).sentinel
         \/ GoodRef(e.type, e.prev) /\ ~Get(e.prev).sentinel
  <2>1. CASE e.prev = sentinel[e.type]
    BY <1>1, <2>1, Issued DEF IInv, SentinelsInPlace
  <2>2. CASE \E y \in Live(e.type) : e.prev = issued[y]
    BY <1>4, <2>2
  <2> QED
    BY <1>3, <2>1, <2>2 DEF Precedes
<1>7. LinksResolve(issued[d])
  BY <1>0, <1>5, <1>6 DEF LinksResolve
<1>8. GoodRef(e.type, e.next) /\ e.next \in Handle /\ e.prev \in Handle
  BY <1>1, <1>5 DEF GoodRef, Entry
<1> QED
  BY <1>0, <1>1, <1>6, <1>7, <1>8

-----------------------------------------------------------------------------
(* Every statement.                                                        *)

\* The ends of a list are Null or instances of its Type.
LEMMA EndsOfList ==
  ASSUME IInv, NEW t \in Types
  PROVE  /\ Resolves(sentinel[t])
         /\ Get(sentinel[t]).next \in Handle /\ GoodRef(t, Get(sentinel[t]).next)
         /\ tail[t] \in Handle /\ GoodRef(t, tail[t])
<1>1. ASSUME NEW y \in Live(t)
      PROVE  GoodRef(t, issued[y])
  BY Bounds DEF IInv, Live, Serials, GoodRef
<1>2. Resolves(sentinel[t]) /\ Get(sentinel[t]) = entries[t] /\ t \in Slots
  BY Issued
<1>3. Get(sentinel[t]).next \in Handle /\ tail[t] \in Handle
  BY <1>2 DEF IInv, TypeOK, Entry
<1>4. GoodRef(t, Get(sentinel[t]).next)
  <2>1. Follows(t, 0, Get(sentinel[t]).next)
    BY DEF IInv, CreationOrder
  <2>2. CASE Get(sentinel[t]).next = None
    BY <2>2 DEF GoodRef
  <2>3. CASE Get(sentinel[t]).next # None
    <3>1. PICK y \in Live(t) : Get(sentinel[t]).next = issued[y]
      BY <2>1, <2>3 DEF Follows
    <3> QED
      BY <1>1, <3>1
  <2> QED
    BY <2>2, <2>3
<1>5. GoodRef(t, tail[t])
  <2>1. Precedes(t, MaxNews + 1, LastNode(t))
    BY LastNodeResolves
  <2>2. CASE tail[t] = None
    BY <2>2 DEF GoodRef
  <2>3. CASE tail[t] # None /\ tail[t] = sentinel[t]
    BY <2>3 DEF IInv, SentinelsInPlace
  <2>4. CASE tail[t] # None /\ tail[t] # sentinel[t]
    <3>1. PICK y \in Live(t) : tail[t] = issued[y]
      BY <2>1, <2>4 DEF Precedes, LastNode
    <3> QED
      BY <1>1, <3>1
  <2> QED
    BY <2>2, <2>3, <2>4
<1> QED
  BY <1>2, <1>3, <1>4, <1>5

\* What a field or a neighbour of the instance in a variable may be.
LEMMA FieldsOfVariable ==
  ASSUME IInv, NEW w \in Vars, Resolves(Ref(w)), NEW e, e = Get(Ref(w)),
         NEW t, t = VarType[w]
  PROVE  /\ e.next \in Handle /\ GoodRef(t, e.next)
         /\ e.prev \in Handle
         /\ (Resolves(e.prev) /\ ~Get(e.prev).sentinel) => GoodRef(t, e.prev)
         /\ ~e.sentinel => e.link \in Handle /\ GoodRef(t, e.link) /\ ~IsSentinel(w)
<1>1. t \in Types
  BY InterpTypeHeapAssumption DEF Types
<1>2. ~Resolves(None)
  BY DEF Resolves, None
<1>3. CASE GoodRef(t, Ref(w))
  <2>1. PICK k \in 1..born : Ref(w) = issued[k] /\ e.type = t
    BY <1>2, <1>3 DEF GoodRef
  <2>2. Resolves(issued[k]) /\ Get(issued[k]) = e
    BY <2>1
  <2>3. /\ e.next \in Handle /\ GoodRef(t, e.next) /\ e.prev \in Handle
        /\ \/ e.prev = sentinel[t] /\ Get(e.prev).sentinel
           \/ GoodRef(t, e.prev) /\ ~Get(e.prev).sentinel
    BY <2>1, <2>2, NeighboursResolve
  <2>4. GoodRef(t, e.link)
    BY <2>1, <2>2 DEF IInv, References
  <2>5. e.link \in Handle
    <3>1. issued[k].index \in Slots
      BY Issued
    <3> QED
      BY <2>2, <3>1 DEF Get, IInv, TypeOK, Entry
  <2>6. ~IsSentinel(w)
    BY <1>1, <2>1, Issued DEF IsSentinel, IInv, SentinelsInPlace
  <2> QED
    BY <2>3, <2>4, <2>5, <2>6
<1>4. CASE IsSentinel(w)
  <2>1. e = Get(sentinel[t]) /\ e = entries[t] /\ t \in Slots
    BY <1>1, <1>4, Issued DEF IsSentinel
  <2>2. e.next \in Handle /\ GoodRef(t, e.next)
    BY <1>1, <2>1, EndsOfList
  <2>3. e.sentinel /\ e.prev = None
    BY <1>1, <2>1 DEF IInv, SentinelsInPlace
  <2>4. e.prev \in Handle
    BY <2>1 DEF IInv, TypeOK, Entry
  <2> QED
    BY <1>2, <2>2, <2>3, <2>4
<1> QED
  BY <1>3, <1>4 DEF IInv, References

LEMMA ReadersIInv ==
  ASSUME IInv, SentinelCopies = FALSE, NEW v \in Vars, NEW w \in Vars,
         \/ First(v) \/ Last(v) \/ Clear(v)
         \/ Copy(v, w) \/ Next_(v, w) \/ Previous(v, w) \/ ReadLink(v, w)
  PROVE  IInv'
<1> DEFINE t == VarType[v]
<1>1. t \in Types
  BY InterpTypeHeapAssumption DEF Types
<1>2. None \in Handle /\ GoodRef(t, None) /\ ~Resolves(None)
  BY InterpTypeHeapAssumption DEF None, Handle, GoodRef, Resolves
<1>3. Ref(w) \in Handle
  BY DEF Ref, IInv, TypeOK
<1>4. CASE First(v)
  BY <1>1, <1>4, EndsOfList, AssignIInv DEF First
<1>5. CASE Last(v)
  BY <1>1, <1>5, EndsOfList, AssignIInv DEF Last
<1>6. CASE Clear(v)
  BY <1>2, <1>6, AssignIInv DEF Clear
<1>7. CASE Copy(v, w)
  <2>1. VarType[w] = t /\ ~IsSentinel(w) /\ Assign(v, Ref(w))
    BY <1>7 DEF Copy, MayCopy
  <2>2. GoodRef(t, Ref(w))
    BY <2>1 DEF IInv, References
  <2> QED
    BY <1>3, <2>1, <2>2, AssignIInv
<1>8. CASE Next_(v, w)
  <2>0. VarType[w] = t
    BY <1>8 DEF Next_
  <2>1. CASE Ref(w) = None
    BY <1>2, <1>8, <2>1, AssignIInv DEF Next_
  <2>2. CASE Ref(w) # None /\ ~Resolves(Ref(w))
    BY <1>8, <2>2, FaultIInv DEF Next_
  <2>3. CASE Ref(w) # None /\ Resolves(Ref(w))
    <3>1. Get(Ref(w)).next \in Handle /\ GoodRef(t, Get(Ref(w)).next)
      BY <2>0, <2>3, FieldsOfVariable
    <3> QED
      BY <1>8, <2>3, <3>1, AssignIInv DEF Next_
  <2> QED
    BY <2>1, <2>2, <2>3
<1>9. CASE Previous(v, w)
  <2>0. VarType[w] = t
    BY <1>9 DEF Previous
  <2>1. CASE Ref(w) = None
    BY <1>2, <1>9, <2>1, AssignIInv DEF Previous
  <2>2. CASE Ref(w) # None /\ ~Resolves(Ref(w))
    BY <1>9, <2>2, FaultIInv DEF Previous
  <2>3. CASE Ref(w) # None /\ Resolves(Ref(w))
    <3>1. PICK p : p = Get(Ref(w)).prev
      OBVIOUS
    <3>2. p \in Handle /\ (Resolves(p) /\ ~Get(p).sentinel => GoodRef(t, p))
      BY <2>0, <2>3, <3>1, FieldsOfVariable
    <3>3. Assign(v, IF Resolves(p) /\ ~Get(p).sentinel THEN p ELSE None)
      BY <1>9, <2>3, <3>1 DEF Previous
    <3>4. CASE Resolves(p) /\ ~Get(p).sentinel
      BY <3>2, <3>3, <3>4, AssignIInv
    <3>5. CASE ~(Resolves(p) /\ ~Get(p).sentinel)
      <4>1. Assign(v, None)
        BY <3>3, <3>5
      <4> QED
        BY <1>2, <4>1, AssignIInv
    <3> QED
      BY <3>4, <3>5
  <2> QED
    BY <2>1, <2>2, <2>3
<1>10. CASE ReadLink(v, w)
  <2>0. VarType[w] = t
    BY <1>10 DEF ReadLink
  <2>1. CASE FieldFault(Ref(w)) # "none"
    <3>1. FieldFault(Ref(w)) \in {"null dereference", "access to deleted object"}
      BY <2>1 DEF FieldFault
    <3> QED
      BY <1>10, <2>1, <3>1, FaultIInv DEF ReadLink
  <2>2. CASE FieldFault(Ref(w)) = "none"
    <3>1. Resolves(Ref(w)) /\ ~Get(Ref(w)).sentinel
      BY <2>2 DEF FieldFault
    <3>2. Get(Ref(w)).link \in Handle /\ GoodRef(t, Get(Ref(w)).link)
      BY <2>0, <3>1, FieldsOfVariable
    <3> QED
      BY <1>10, <2>2, <3>2, AssignIInv DEF ReadLink
  <2> QED
    BY <2>1, <2>2
<1> QED
  BY <1>4, <1>5, <1>6, <1>7, <1>8, <1>9, <1>10

LEMMA DeleteVariableIInv ==
  ASSUME IInv, NEW v \in Vars, DeleteVariable(v)
  PROVE  IInv'
<1>0. PICK h, e : h = Ref(v) /\ e = Get(h)
  OBVIOUS
<1>1. CASE slots[v].deleted \/ h = None \/ ~Resolves(h)
  <2>1. Fault("double delete") \/ Fault("null dereference")
    BY <1>0, <1>1 DEF DeleteVariable
  <2> QED
    BY <2>1, FaultIInv
<1>2. CASE ~slots[v].deleted /\ h # None /\ Resolves(h)
  <2>1. PICK d \in 1..born : h = issued[d] /\ Get(h).type = VarType[v]
    BY <1>0, <1>2 DEF IInv, References, GoodRef
  <2>2. /\ LinksResolve(h)
        /\ e.prev \in Handle /\ e.prev # None /\ e.type = VarType[v]
        /\ e.prev = sentinel[e.type] \/ GoodRef(e.type, e.prev)
    BY <1>0, <1>2, <2>1, NeighboursResolve
  <2>3. /\ Remove(h)
        /\ slots' = [slots EXCEPT ![v] =
             [ref |-> IF e.prev = None THEN sentinel[e.type] ELSE e.prev,
              deleted |-> TRUE]]
    BY <1>0, <1>2, <2>2 DEF DeleteVariable
  <2>4. slots \in [Vars -> [ref : Handle, deleted : BOOLEAN]]
    BY DEF IInv, TypeOK
  <2>5. slots' \in [Vars -> [ref : Handle, deleted : BOOLEAN]]
    BY <2>2, <2>3, <2>4
  <2>6. ASSUME NEW u \in Vars
        PROVE  \/ GoodRef(VarType[u], slots'[u].ref)
               \/ slots'[u].deleted /\ slots'[u].ref = sentinel[VarType[u]]
    <3>1. CASE u = v
      <4>1. slots'[u].ref = e.prev /\ slots'[u].deleted
        BY <2>2, <2>3, <2>4, <3>1
      <4> QED
        BY <2>2, <3>1, <4>1
    <3>2. CASE u # v
      <4>1. slots'[u] = slots[u]
        BY <2>3, <2>4, <3>2
      <4> QED
        BY <4>1 DEF IInv, References, Ref, IsSentinel
    <3> QED
      BY <3>1, <3>2
  <2> QED
    BY <1>2, <2>1, <2>3, <2>5, <2>6, RemoveIInv
<1> QED
  BY <1>1, <1>2

LEMMA DeleteValueIInv ==
  ASSUME IInv, SentinelCopies = FALSE, NEW v \in Vars, DeleteValue(v)
  PROVE  IInv'
<1>0. PICK h : h = Ref(v)
  OBVIOUS
<1>1. CASE h = None \/ ~Resolves(h)
  <2>1. Fault("double delete") \/ Fault("null dereference")
    BY <1>0, <1>1 DEF DeleteValue
  <2> QED
    BY <2>1, FaultIInv
<1>2. CASE h # None /\ Resolves(h)
  <2>1. PICK d \in 1..born : h = issued[d]
    BY <1>0, <1>2 DEF DeleteValue, MayCopy, IInv, References, GoodRef
  <2>2. LinksResolve(h)
    BY <1>2, <2>1, NeighboursResolve
  <2>3. Remove(h) /\ UNCHANGED slots
    BY <1>0, <1>2, <2>2 DEF DeleteValue
  <2>4. slots' \in [Vars -> [ref : Handle, deleted : BOOLEAN]]
    BY <2>3 DEF IInv, TypeOK
  <2>5. \A u \in Vars : \/ GoodRef(VarType[u], slots'[u].ref)
                        \/ slots'[u].deleted /\ slots'[u].ref = sentinel[VarType[u]]
    BY <2>3 DEF IInv, References, Ref, IsSentinel
  <2> QED
    BY <1>2, <2>1, <2>3, <2>4, <2>5, RemoveIInv
<1> QED
  BY <1>1, <1>2

\* One step per action.
LEMMA NextIInv ==
  ASSUME IInv, SentinelCopies = FALSE, [Next]_vars
  PROVE  IInv'
<1>1. CASE \E v \in Vars : New(v)
  BY <1>1, NewIInv
<1>2. CASE \E v \in Vars : DeleteVariable(v)
  BY <1>2, DeleteVariableIInv
<1>3. CASE \E v \in Vars : DeleteValue(v)
  BY <1>3, DeleteValueIInv
<1>4. CASE \E v, w \in Vars : WriteLink(v, w)
  BY <1>4, WriteLinkIInv
<1>5. CASE \E v, w \in Vars :
             \/ First(v) \/ Last(v) \/ Clear(v)
             \/ Copy(v, w) \/ Next_(v, w) \/ Previous(v, w) \/ ReadLink(v, w)
  BY <1>5, ReadersIInv
<1>6. CASE UNCHANGED vars
  <2>1. UNCHANGED heap /\ slots' = slots /\ trap' = trap
    BY <1>6 DEF vars, heap
  <2>2. TypeOK' /\ NoPanic'
    BY <2>1 DEF heap, IInv, TypeOK, NoPanic
  <2> QED
    BY <2>1, <2>2, HeapUnchanged
<1> QED
  BY <1>1, <1>2, <1>3, <1>4, <1>5, <1>6 DEF Next

-----------------------------------------------------------------------------
(* The theorems.                                                           *)

\* While no rewound variable is copied, every state of the interpreter's heap
\* satisfies the inductive invariant.
THEOREM Invariant == SentinelCopies = FALSE => (Spec => []IInv)
<1> SUFFICES ASSUME SentinelCopies = FALSE PROVE Spec => []IInv
  OBVIOUS
<1>1. Init => IInv
  BY InitIInv
<1>2. IInv /\ [Next]_vars => IInv'
  BY NextIInv
<1> QED
  BY <1>1, <1>2, PTL DEF Spec

\* Type correctness.
THEOREM TypeCorrect == SentinelCopies = FALSE => (Spec => []TypeOK)
<1>1. IInv => TypeOK
  BY DEF IInv
<1> QED
  BY <1>1, Invariant, PTL

\* No two New ever return the same handle, so a stale reference never comes to
\* mean a later instance in the same slab index (Slab::alloc, Slab::free).
THEOREM HandlesNeverReused == SentinelCopies = FALSE => (Spec => []HandlesUnique)
<1>1. IInv => HandlesUnique
  BY DEF IInv
<1> QED
  BY <1>1, Invariant, PTL

\* The free list is exactly the vacant slots: alloc never overwrites a live
\* instance and no slot leaks (Slab::alloc, Slab::free).
THEOREM FreeListIsExact == SentinelCopies = FALSE => (Spec => []FreeListExact)
<1>1. IInv => FreeListExact
  BY DEF IInv
<1> QED
  BY <1>1, Invariant, PTL

\* Each Type's list threads its live instances in creation order, forward and
\* backward, and its tail is the last (TypeList::append, TypeList::unlink).
THEOREM ListsInCreationOrder == SentinelCopies = FALSE => (Spec => []CreationOrder)
<1>1. IInv => CreationOrder
  BY DEF IInv
<1> QED
  BY <1>1, Invariant, PTL

\* No expect of TypeList ever panics (heap.rs:112-143).
THEOREM NeverPanics == SentinelCopies = FALSE => (Spec => []NoPanic)
<1>1. IInv => NoPanic
  BY DEF IInv
<1> QED
  BY <1>1, Invariant, PTL
-----------------------------------------------------------------------------
(* The abstract state.                                                     *)

absLive == [t \in Types |-> Live(t)]
absLink == [k \in Serials |-> IF k <= born /\ Resolves(issued[k])
                              THEN NameOf(Get(issued[k]).link) ELSE -1]
absRef == [v \in Vars |-> NameOf(Ref(v))]
absMarked == [v \in Vars |-> slots[v].deleted]

\* The handles the heap has given out.
Known(h) == \/ h = None
            \/ \E t \in Types : h = sentinel[t]
            \/ \E k \in 1..born : h = issued[k]

\* What a handle is called.
Named == /\ born \in Nat
         /\ NameOf(None) = -1
         /\ \A t \in Types : NameOf(sentinel[t]) = 0
         /\ \A k \in 1..born : NameOf(issued[k]) = k

LEMMA Names == IInv => Named
<1> SUFFICES ASSUME IInv PROVE Named
  OBVIOUS
<1>0. born \in Nat
  BY Bounds DEF IInv
<1>1. NameOf(None) = -1
  BY DEF NameOf
<1>2. ASSUME NEW t \in Types PROVE NameOf(sentinel[t]) = 0
  BY Issued DEF NameOf
<1>3. ASSUME NEW k \in 1..born PROVE NameOf(issued[k]) = k
  <2>1. issued[k] # None
    BY Issued
  <2>2. \A t \in Types : issued[k] # sentinel[t]
    <3>1. \A t \in Types : sentinel[t].index = t
      BY DEF IInv, SentinelsInPlace
    <3> QED BY <3>1, Issued
  <2>3. \A j \in 1..born : issued[j] = issued[k] => j = k
    BY DEF IInv, HandlesUnique
  <2> QED BY <2>1, <2>2, <2>3 DEF NameOf
<1> QED BY <1>0, <1>1, <1>2, <1>3 DEF Named

LEMMA NamesAfter == IInv' => Named'
<1>1. (IInv => Named)'
  BY Names, PTL
<1> QED BY <1>1

\* An instance keeps its name for ever.
LEMMA NamesKept ==
    ASSUME IInv, IInv', born <= born', sentinel' = sentinel,
           \A k \in 1..born : issued'[k] = issued[k],
           NEW h, Known(h)
    PROVE  NameOf(h)' = NameOf(h)
<1>4. Named'
  BY NamesAfter
<1>0. born \in Nat /\ born' \in Nat
  BY <1>4, Names DEF Named
<1>1. CASE h = None
  BY <1>1 DEF NameOf
<1>2. ASSUME NEW t \in Types, h = sentinel[t] PROVE NameOf(h)' = NameOf(h)
  <2>1. NameOf(sentinel[t]) = 0 /\ NameOf(sentinel[t])' = 0
    BY <1>4, Names DEF Named
  <2> QED BY <1>2, <2>1
<1>3. ASSUME NEW k \in 1..born, h = issued[k] PROVE NameOf(h)' = NameOf(h)
  <2>1. \A j \in 1..born' : NameOf(issued[j])' = j
    BY <1>4 DEF Named
  <2>2. k \in 1..born' /\ issued'[k] = h
    BY <1>0, <1>3
  <2>3. NameOf(issued[k])' = k
    BY <2>1, <2>2
  <2>4. NameOf(h)' = k
    BY <2>2, <2>3
  <2> QED BY <1>3, <2>4, Names DEF Named
<1> QED BY <1>1, <1>2, <1>3 DEF Known

\* The name of what a variable holds, and when TypeSpec calls it dead.
LEMMA NameOfVariable ==
    ASSUME IInv, NEW v \in Vars, NEW t, t = VarType[v], NEW h, h = Ref(v), NEW n, n = NameOf(h)
    PROVE  /\ t \in Types /\ Known(h) /\ h \in Handle
           /\ \/ h = None /\ n = -1 /\ ~Resolves(h)
              \/ h = sentinel[t] /\ slots[v].deleted /\ n = 0 /\ Resolves(h) /\ h # None
                 /\ Get(h).sentinel /\ Get(h).prev = None
              \/ /\ n \in 1..born /\ h = issued[n] /\ h # None /\ ~IsSentinel(v)
                 /\ Resolves(h) <=> n \in Live(t)
                 /\ Resolves(h) => ~Get(h).sentinel
           /\ Abstract!Dead(t, n) <=> h # None /\ ~Resolves(h)
           /\ n = -1 <=> h = None
           /\ n = 0 <=> h = sentinel[t]
<1>0. /\ t \in Types /\ h \in Handle
  BY InterpTypeHeapAssumption DEF IInv, TypeOK, Types, Ref
<1>1. CASE h = None
  <2>1. n = -1 /\ ~Resolves(h) /\ Known(h)
    BY <1>1, Names DEF Named, Resolves, None, Known
  <2>2. h # sentinel[t]
    BY <1>0, <1>1, Issued
  <2> QED BY <1>0, <1>1, <2>1, <2>2 DEF Abstract!Dead, Abstract!Null
<1>2. CASE h = sentinel[t] /\ slots[v].deleted
  <2>1. n = 0 /\ Known(h) /\ Resolves(h) /\ h # None /\ Get(h) = entries[t]
    BY <1>0, <1>2, Names, Issued DEF Named, Known
  <2>2. entries[t].sentinel /\ entries[t].prev = None
    BY <1>0 DEF IInv, SentinelsInPlace
  <2> QED BY <1>0, <1>2, <2>1, <2>2 DEF Abstract!Dead, Abstract!Head
<1>3. CASE \E k \in 1..born : h = issued[k] /\ (Resolves(h) => Get(h).type = t)
  <2>1. PICK k \in 1..born : h = issued[k] /\ (Resolves(h) => Get(h).type = t)
    BY <1>3
  <2>2. /\ n = k /\ Known(h) /\ h # None /\ k \in Serials /\ born \in Nat
        /\ h.index \in Slots \ Types
    BY <2>1, Names, Issued DEF Named, Known
  <2>3. k \in Live(t) <=> Resolves(h)
    BY <2>1, <2>2 DEF Live
  <2>4. h # sentinel[t]
    <3>1. sentinel[t].index = t
      BY <1>0 DEF IInv, SentinelsInPlace
    <3> QED BY <1>0, <2>2, <3>1
  <2>5. Resolves(h) => ~Get(h).sentinel
    <3>1. ASSUME Resolves(h) PROVE ~entries[h.index].sentinel
      BY <2>2, <3>1 DEF IInv, GenerationsCountFrees, Resolves
    <3> QED BY <3>1 DEF Get
  <2>6. n # -1 /\ n # 0
    BY <2>2
  <2>7. Abstract!Dead(t, n) <=> ~Resolves(h)
    BY <1>0, <2>2, <2>3, <2>6 DEF Abstract!Dead, Abstract!Null, Abstract!Head
  <2> QED BY <1>0, <2>1, <2>2, <2>3, <2>4, <2>5, <2>6, <2>7 DEF IsSentinel
<1>4. GoodRef(t, h) \/ (slots[v].deleted /\ h = sentinel[t])
  BY DEF IInv, References, IsSentinel
<1> QED BY <1>1, <1>2, <1>3, <1>4 DEF GoodRef

LEMMA LeastIs ==
    ASSUME NEW S, S \subseteq Int, NEW m \in S, \A z \in S : m <= z
    PROVE  Abstract!Min(S) = m
<1>1. \A x \in S : (\A y \in S : x <= y) => x = m
  OBVIOUS
<1>2. PICK x \in S : x = Abstract!Min(S) /\ \A y \in S : x <= y
  BY Zenon DEF Abstract!Min
<1> QED BY <1>1, <1>2

LEMMA GreatestIs ==
    ASSUME NEW S, S \subseteq Int, NEW m \in S, \A z \in S : z <= m
    PROVE  Abstract!Max(S) = m
<1>1. \A x \in S : (\A y \in S : y <= x) => x = m
  OBVIOUS
<1>2. PICK x \in S : x = Abstract!Max(S) /\ \A y \in S : y <= x
  BY Zenon DEF Abstract!Max
<1> QED BY <1>1, <1>2

\* What a walk meets next has the name TypeSpec gives it.
LEMMA FollowingIs ==
    ASSUME IInv, NEW t \in Types, NEW n \in Int, NEW h, Follows(t, n, h)
    PROVE  /\ NameOf(h) = Abstract!Following(t, n)
           /\ Known(h)
<1>0. Abstract!After(t, n) = {y \in Live(t) : y > n} /\ Live(t) \subseteq 1..born
      /\ 1..born \subseteq Int
  BY Names DEF Abstract!After, Live, Serials, Named
<1>1. CASE h = None /\ \A y \in Live(t) : y <= n
  <2>1. Abstract!After(t, n) = {}
    BY <1>0, <1>1
  <2> QED BY <1>1, <2>1, Names DEF Abstract!Following, Named, Abstract!Null, Known
<1>2. ASSUME NEW y \in Live(t), h = issued[y], y > n, \A z \in Live(t) : z <= n \/ z >= y
      PROVE  NameOf(h) = Abstract!Following(t, n) /\ Known(h)
  <2>1. y \in Abstract!After(t, n) /\ Abstract!After(t, n) \subseteq Int
        /\ \A z \in Abstract!After(t, n) : y <= z
    BY <1>0, <1>2
  <2>2. Abstract!Min(Abstract!After(t, n)) = y
    BY <2>1, LeastIs
  <2>3. Abstract!Following(t, n) = y
    BY <2>1, <2>2 DEF Abstract!Following
  <2> QED BY <1>0, <1>2, <2>3, Names DEF Named, Known
<1> QED BY <1>1, <1>2 DEF Follows

LEMMA PrecedingIs ==
    ASSUME IInv, NEW t \in Types, NEW n \in Int, NEW h, Precedes(t, n, h)
    PROVE  /\ h = sentinel[t] => Abstract!Before(t, n) = {}
           /\ h # sentinel[t] => /\ NameOf(h) = Abstract!Preceding(t, n)
                                /\ NameOf(h) = Abstract!Max(Abstract!Before(t, n))
                                /\ Abstract!Before(t, n) # {}
                                /\ Resolves(h) /\ ~Get(h).sentinel
           /\ Known(h)
<1>0. Abstract!Before(t, n) = {y \in Live(t) : y < n} /\ Live(t) \subseteq 1..born
      /\ 1..born \subseteq Int
  BY Names DEF Abstract!Before, Live, Serials, Named
<1>1. CASE h = sentinel[t] /\ \A y \in Live(t) : y >= n
  BY <1>0, <1>1 DEF Known
<1>2. ASSUME NEW y \in Live(t), h = issued[y], y < n, \A z \in Live(t) : z >= n \/ z <= y
      PROVE  /\ h # sentinel[t]
             /\ NameOf(h) = Abstract!Preceding(t, n) /\ Known(h)
             /\ NameOf(h) = Abstract!Max(Abstract!Before(t, n))
             /\ Abstract!Before(t, n) # {}
             /\ Resolves(h) /\ ~Get(h).sentinel
  <2>1. y \in Abstract!Before(t, n) /\ Abstract!Before(t, n) \subseteq Int
        /\ \A z \in Abstract!Before(t, n) : z <= y
    BY <1>0, <1>2
  <2>2. Abstract!Max(Abstract!Before(t, n)) = y
    BY <2>1, GreatestIs
  <2>3. Abstract!Preceding(t, n) = y
    BY <2>1, <2>2 DEF Abstract!Preceding
  <2>4. y \in 1..born /\ Resolves(h) /\ h.index \in Slots \ Types
    BY <1>0, <1>2, Issued DEF Live
  <2>5. ~entries[h.index].sentinel
    BY <2>4 DEF IInv, GenerationsCountFrees, Resolves
  <2>6. sentinel[t].index = t
    BY DEF IInv, SentinelsInPlace
  <2> QED BY <1>0, <1>2, <2>1, <2>2, <2>3, <2>4, <2>5, <2>6, Names DEF Named, Known, Get
<1> QED BY <1>1, <1>2 DEF Precedes

\* The same for what a variable holds.
LEMMA NextOfVariable ==
    ASSUME IInv, NEW v \in Vars, Resolves(Ref(v)),
           NEW t, t = VarType[v], NEW n, n = NameOf(Ref(v)), NEW h, h = Get(Ref(v)).next
    PROVE  NameOf(h) = Abstract!Following(t, n) /\ Known(h) /\ n \in Int /\ n # -1
           /\ Follows(t, n, h)
<1>1. CASE n = 0 /\ Ref(v) = sentinel[t]
  <2>1. t \in Types /\ Follows(t, 0, h)
    BY <1>1, NameOfVariable DEF IInv, CreationOrder
  <2> QED BY <1>1, <2>1, FollowingIs
<1>2. CASE n \in Live(t) /\ Ref(v) = issued[n]
  <2>1. t \in Types /\ Follows(t, n, h) /\ n \in Int /\ n # -1
    BY <1>2, NameOfVariable DEF IInv, CreationOrder, Live, Serials
  <2> QED BY <1>2, <2>1, FollowingIs
<1> QED BY <1>1, <1>2, NameOfVariable

LEMMA PreviousOfVariable ==
    ASSUME IInv, NEW v \in Vars, Resolves(Ref(v)),
           NEW t, t = VarType[v], NEW n, n = NameOf(Ref(v)), NEW h, h = Get(Ref(v)).prev
    PROVE  LET p == IF Resolves(h) /\ ~Get(h).sentinel THEN h ELSE None
           IN NameOf(p) = Abstract!Preceding(t, n) /\ Known(p)
<1>1. CASE n = 0 /\ h = None
  <2>1. ~Resolves(h) /\ NameOf(None) = -1 /\ Known(None)
    BY <1>1, Names DEF Resolves, None, Named, Known
  <2>2. Abstract!Before(t, 0) = {}
    BY NameOfVariable, Names DEF Abstract!Before, Live, Serials, Named
  <2> QED BY <1>1, <2>1, <2>2 DEF Abstract!Preceding, Abstract!Null
<1>2. CASE n \in Live(t) /\ Ref(v) = issued[n]
  <2>1. t \in Types /\ Precedes(t, n, h) /\ n \in Int
    BY <1>2, NameOfVariable DEF IInv, CreationOrder, Live, Serials
  <2>2. CASE h = sentinel[t]
    <3>1. Get(h).sentinel /\ NameOf(None) = -1 /\ Known(None)
      BY <2>1, <2>2, Names, Issued DEF IInv, SentinelsInPlace, Named, Known
    <3> QED BY <2>1, <2>2, <3>1, PrecedingIs DEF Abstract!Preceding, Abstract!Null
  <2>3. CASE h # sentinel[t]
    BY <2>1, <2>3, PrecedingIs
  <2> QED BY <2>2, <2>3
<1> QED BY <1>1, <1>2, NameOfVariable

-----------------------------------------------------------------------------
(* Steps that leave the heap alone.                                        *)

LEMMA HeapSame ==
    ASSUME UNCHANGED heap
    PROVE  /\ born' = born /\ absLive' = absLive /\ absLink' = absLink
           /\ \A h : NameOf(h)' = NameOf(h)
<1>1. UNCHANGED <<entries, generations, size, freeList, sentinel, tail, born, issued>>
  BY DEF heap
<1>2. \A h : (Resolves(h)' <=> Resolves(h)) /\ NameOf(h)' = NameOf(h) /\ Get(h)' = Get(h)
  BY <1>1 DEF Resolves, NameOf, Get
<1>3. \A t : Live(t)' = Live(t)
  BY <1>1, <1>2 DEF Live
<1> QED BY <1>1, <1>2, <1>3 DEF absLive, absLink

LEMMA GiveIs ==
    ASSUME slots \in [Vars -> [ref : Handle, deleted : BOOLEAN]],
           NEW v \in Vars, NEW h, NEW b \in BOOLEAN,
           slots' = [slots EXCEPT ![v] = [ref |-> h, deleted |-> b]],
           \A u \in Vars : NameOf(Ref(u))' = IF u = v THEN NameOf(h)' ELSE NameOf(Ref(u))
    PROVE  /\ absRef' = [absRef EXCEPT ![v] = NameOf(h)']
           /\ absMarked' = [absMarked EXCEPT ![v] = b]
BY DEF absRef, absMarked

LEMMA AssignIs ==
    ASSUME IInv, NEW v \in Vars, NEW h, Assign(v, h)
    PROVE  Abstract!Assign(v, NameOf(h))
<1>1. UNCHANGED heap /\ trap' = trap /\ slots' = [slots EXCEPT ![v] = [ref |-> h, deleted |-> FALSE]]
      /\ slots \in [Vars -> [ref : Handle, deleted : BOOLEAN]]
  BY DEF Assign, Store, IInv, TypeOK
<1>2. /\ born' = born /\ absLive' = absLive /\ absLink' = absLink
      /\ \A g : NameOf(g)' = NameOf(g)
  BY <1>1, HeapSame
<1>3. \A u \in Vars : NameOf(Ref(u))' = IF u = v THEN NameOf(h)' ELSE NameOf(Ref(u))
  <2>1. \A u \in Vars : Ref(u)' = IF u = v THEN h ELSE Ref(u)
    BY <1>1 DEF Ref
  <2> TAKE u \in Vars
  <2> QED BY <1>2, <2>1
<1>4. /\ absRef' = [absRef EXCEPT ![v] = NameOf(h)]
      /\ absMarked' = [absMarked EXCEPT ![v] = FALSE]
  BY <1>1, <1>2, <1>3, GiveIs
<1> QED BY <1>1, <1>2, <1>4 DEF Abstract!Assign, Abstract!Give, absLive, absLink, absRef, absMarked

LEMMA FaultIs ==
    ASSUME NEW kind, Fault(kind) PROVE Abstract!Fault(kind)
<1>1. UNCHANGED heap /\ trap' = kind /\ slots' = slots
  BY DEF Fault
<1>2. /\ born' = born /\ absLive' = absLive /\ absLink' = absLink
      /\ \A g : NameOf(g)' = NameOf(g)
  BY <1>1, HeapSame
<1>3. absRef' = absRef /\ absMarked' = absMarked
  <2>1. \A u : NameOf(Ref(u))' = NameOf(Ref(u))
    BY <1>1, <1>2 DEF Ref
  <2> QED BY <1>1, <2>1 DEF absRef, absMarked
<1> QED BY <1>1, <1>2, <1>3 DEF Abstract!Fault, absLive, absLink, absRef, absMarked

LEMMA ReadersAre ==
    ASSUME IInv, MarkedAccesses = FALSE, NEW v \in Vars, NEW w \in Vars
    PROVE  /\ First(v) => Abstract!First(v)
           /\ Last(v) => Abstract!Last(v)
           /\ Clear(v) => Abstract!Clear(v)
           /\ Copy(v, w) => Abstract!Copy(v, w)
           /\ Next_(v, w) => Abstract!Next_(v, w)
           /\ Previous(v, w) => Abstract!Previous(v, w)
           /\ ReadLink(v, w) => Abstract!ReadLink(v, w)
<1> DEFINE t == VarType[v]
           h == Ref(w)
           n == NameOf(h)
<1>0. /\ t \in Types /\ Resolves(sentinel[t]) /\ NameOf(None) = -1
      /\ tail[t] # sentinel[t] /\ sentinel[t] # None
      /\ Follows(t, 0, Get(sentinel[t]).next)
      /\ Precedes(t, MaxNews + 1, IF tail[t] = None THEN sentinel[t] ELSE tail[t])
      /\ MaxNews + 1 \in Int
  BY InterpTypeHeapAssumption, Issued, Names DEF IInv, CreationOrder, SentinelsInPlace, Types, Named
<1>1. absRef[w] = n
  BY DEF absRef
<1> HIDE DEF t, h, n
<1>2. VarType[w] = t =>
        /\ Abstract!Dead(t, n) <=> h # None /\ ~Resolves(h)
        /\ n = -1 <=> h = None
        /\ n = 0 <=> h = sentinel[t]
        /\ Resolves(h) => /\ h # None /\ Get(h).sentinel <=> h = sentinel[t]
                          /\ n # 0 => n \in Live(t) /\ n \in 1..born /\ h = issued[n]
  BY NameOfVariable DEF n, h
<1>3. ASSUME First(v) PROVE Abstract!First(v)
  <2>1. Assign(v, Get(sentinel[t]).next)
    BY <1>0, <1>3 DEF First, t
  <2>2. NameOf(Get(sentinel[t]).next) = Abstract!Following(t, 0)
    BY <1>0, FollowingIs
  <2>3. Abstract!Assign(v, Abstract!Following(t, 0))
    BY <2>1, <2>2, AssignIs
  <2> QED BY <2>3 DEF Abstract!First, Abstract!Head, t
<1>4. ASSUME Last(v) PROVE Abstract!Last(v)
  <2>1. Assign(v, tail[t])
    BY <1>4 DEF Last, t
  <2>2. NameOf(tail[t]) = Abstract!Preceding(t, MaxNews + 1)
    <3>1. CASE tail[t] = None
      BY <1>0, <3>1, PrecedingIs DEF Abstract!Preceding, Abstract!Null
    <3>2. CASE tail[t] # None
      BY <1>0, <3>2, PrecedingIs
    <3> QED BY <3>1, <3>2
  <2>3. Abstract!Assign(v, Abstract!Preceding(t, MaxNews + 1))
    BY <2>1, <2>2, AssignIs
  <2> QED BY <2>3 DEF Abstract!Last, t
<1>5. ASSUME Clear(v) PROVE Abstract!Clear(v)
  <2>1. Abstract!Assign(v, NameOf(None))
    BY <1>5, AssignIs DEF Clear
  <2> QED BY <1>0, <2>1 DEF Abstract!Clear, Abstract!Null
<1>6. ASSUME Copy(v, w) PROVE Abstract!Copy(v, w)
  <2>1. VarType[v] = VarType[w] /\ Abstract!Assign(v, n)
    BY <1>6, AssignIs DEF Copy, h, n
  <2> QED BY <1>1, <2>1 DEF Abstract!Copy, absRef
<1>7. ASSUME Next_(v, w) PROVE Abstract!Next_(v, w)
  <2>1. VarType[v] = VarType[w] /\ VarType[w] = t
    BY <1>7 DEF Next_, t
  <2>2. CASE h = None
    <3>1. Abstract!Assign(v, NameOf(None))
      BY <1>7, <2>2, AssignIs DEF Next_, h
    <3> QED BY <1>0, <1>1, <1>2, <2>1, <2>2, <3>1 DEF Abstract!Next_, Abstract!Null, absRef
  <2>3. CASE h # None /\ ~Resolves(h)
    <3>1. Abstract!Fault("access to deleted object")
      BY <1>7, <2>3, FaultIs DEF Next_, h
    <3> QED BY <1>1, <1>2, <2>1, <2>3, <3>1 DEF Abstract!Next_, absRef
  <2>4. CASE h # None /\ Resolves(h)
    <3>1. Assign(v, Get(h).next)
      BY <1>7, <2>4 DEF Next_, h
    <3>2. NameOf(Get(h).next) = Abstract!Following(t, n)
      BY <2>1, <2>4, NextOfVariable DEF n, h
    <3>3. Abstract!Assign(v, Abstract!Following(t, n))
      BY <3>1, <3>2, AssignIs
    <3> QED BY <1>1, <1>2, <2>1, <2>4, <3>3 DEF Abstract!Next_, Abstract!Null, absRef
  <2> QED BY <2>2, <2>3, <2>4
<1>8. ASSUME Previous(v, w) PROVE Abstract!Previous(v, w)
  <2>1. VarType[v] = VarType[w] /\ VarType[w] = t
    BY <1>8 DEF Previous, t
  <2>2. CASE h = None
    <3>1. Abstract!Assign(v, NameOf(None))
      BY <1>8, <2>2, AssignIs DEF Previous, h
    <3>2. Abstract!Before(t, -1) = {}
      BY <1>0 DEF Abstract!Before, Live, Serials
    <3>3. Abstract!Preceding(t, n) = -1
      BY <1>2, <2>1, <2>2, <3>2 DEF Abstract!Preceding, Abstract!Null
    <3> QED BY <1>0, <1>1, <1>2, <2>1, <2>2, <3>1, <3>3 DEF Abstract!Previous, absRef
  <2>3. CASE h # None /\ ~Resolves(h)
    <3>1. Abstract!Fault("access to deleted object")
      BY <1>8, <2>3, FaultIs DEF Previous, h
    <3> QED BY <1>1, <1>2, <2>1, <2>3, <3>1 DEF Abstract!Previous, absRef
  <2>4. CASE h # None /\ Resolves(h)
    <3> DEFINE p == Get(h).prev
               q == IF Resolves(p) /\ ~Get(p).sentinel THEN p ELSE None
    <3>1. Assign(v, q)
      BY <1>8, <2>4 DEF Previous, h
    <3>2. NameOf(q) = Abstract!Preceding(t, n)
      BY <2>1, <2>4, PreviousOfVariable DEF n, h
    <3> HIDE DEF q
    <3>3. Abstract!Assign(v, Abstract!Preceding(t, n))
      BY <3>1, <3>2, AssignIs
    <3> QED BY <1>1, <1>2, <2>1, <2>4, <3>3 DEF Abstract!Previous, absRef
  <2> QED BY <2>2, <2>3, <2>4
<1>9. ASSUME ReadLink(v, w) PROVE Abstract!ReadLink(v, w)
  <2>1. VarType[v] = VarType[w] /\ VarType[w] = t /\ absMarked[w] = FALSE
    <3>1. MayAccess(w) /\ VarType[v] = VarType[w] /\ slots \in [Vars -> [ref : Handle, deleted : BOOLEAN]]
      BY <1>9 DEF ReadLink, IInv, TypeOK
    <3> QED BY <3>1 DEF MayAccess, absMarked, t
  <2>2. CASE FieldFault(h) # "none"
    <3>1. Abstract!Fault(FieldFault(h))
      BY <1>9, <2>2, FaultIs DEF ReadLink, h
    <3> QED BY <1>1, <1>2, <2>1, <2>2, <3>1
            DEF FieldFault, Abstract!ReadLink, Abstract!Null, Abstract!Head, absRef, absMarked
  <2>3. CASE FieldFault(h) = "none"
    <3>1. h # None /\ Resolves(h) /\ ~Get(h).sentinel
      BY <2>3 DEF FieldFault
    <3>2. Abstract!Assign(v, NameOf(Get(h).link))
      BY <1>9, <2>3, AssignIs DEF ReadLink, h
    <3>3. absLink[n] = NameOf(Get(h).link)
      BY <1>2, <2>1, <3>1, Issued DEF absLink
    <3> QED BY <1>1, <1>2, <2>1, <3>1, <3>2, <3>3
            DEF Abstract!ReadLink, Abstract!Null, Abstract!Head, absRef, absMarked, absLink
  <2> QED BY <2>2, <2>3
<1> QED BY <1>3, <1>4, <1>5, <1>6, <1>7, <1>8, <1>9

-----------------------------------------------------------------------------
(* Steps that change the heap.                                             *)

LEMMA WriteLinkIs ==
    ASSUME IInv, MarkedAccesses = FALSE, NEW v \in Vars, NEW w \in Vars,
           WriteLink(v, w)
    PROVE  Abstract!WriteLink(v, w)
<1> DEFINE t == VarType[v]
           h == Ref(v)
           n == NameOf(h)
           r == NameOf(Ref(w))
<1>1. /\ absRef[v] = n /\ absRef[w] = r /\ VarType[v] = VarType[w]
      /\ absMarked[v] = FALSE
  <2>1. MayAccess(v) /\ slots \in [Vars -> [ref : Handle, deleted : BOOLEAN]]
    BY DEF WriteLink, IInv, TypeOK
  <2> QED BY <2>1 DEF absRef, absMarked, WriteLink, MayAccess
<1>2. /\ Abstract!Dead(t, n) <=> h # None /\ ~Resolves(h)
      /\ n = -1 <=> h = None
      /\ n = 0 <=> h = sentinel[t]
      /\ Resolves(h) => /\ h # None /\ Get(h).sentinel <=> h = sentinel[t]
                        /\ n # 0 => n \in Live(t) /\ n \in 1..born /\ h = issued[n]
  BY NameOfVariable
<1>3. CASE FieldFault(h) # "none"
  <2>1. Abstract!Fault(FieldFault(h))
    BY <1>3, FaultIs DEF WriteLink
  <2> HIDE DEF t, h, n, r
  <2> QED BY <1>1, <1>2, <1>3, <2>1
          DEF FieldFault, Abstract!WriteLink, Abstract!Null, Abstract!Head, absRef, absMarked, t
<1>4. CASE FieldFault(h) = "none"
  <2>1. h # None /\ Resolves(h) /\ ~Get(h).sentinel
    BY <1>4 DEF FieldFault
  <2>2. /\ entries' = [entries EXCEPT ![h.index].link = Ref(w)]
        /\ UNCHANGED <<generations, size, freeList, sentinel, tail, born, issued, slots, trap>>
    BY <1>4 DEF WriteLink
  <2> HIDE DEF t, h, n, r
  <2>3. /\ n \in Live(t) /\ n \in 1..born /\ h = issued[n] /\ n # -1 /\ n # 0
        /\ n \in Serials /\ n <= born /\ h.index \in Slots
    BY <1>2, <2>1, Issued, Names DEF Named
  <2>4. /\ entries \in [Slots -> Entry]
        /\ \A i \in Slots : /\ entries'[i].type = entries[i].type
                            /\ entries'[i].link = IF i = h.index THEN Ref(w) ELSE entries[i].link
    <3>1. entries \in [Slots -> Entry]
      BY DEF IInv, TypeOK
    <3> QED BY <2>2, <2>3, <3>1 DEF Entry
  <2>5. \A g : Resolves(g)' <=> Resolves(g)
    BY <2>2, <2>4, Bounds DEF Resolves, IInv
  <2>6. \A g : NameOf(g)' = NameOf(g)
    BY <2>2 DEF NameOf
  <2>7. \A k \in 1..born : Resolves(issued[k]) =>
          /\ Get(issued[k])'.type = Get(issued[k]).type
          /\ Get(issued[k])'.link = IF k = n THEN Ref(w) ELSE Get(issued[k]).link
    <3> TAKE k \in 1..born
    <3> HAVE Resolves(issued[k])
    <3>1. issued[k].index \in Slots /\ issued'[k] = issued[k]
          /\ (issued[k].index = h.index <=> k = n)
      BY <2>1, <2>2, <2>3, Issued
    <3> QED BY <2>4, <3>1 DEF Get
  <2>8. absLive' = absLive
    <3>1. \A u \in Types : Live(u)' = Live(u)
      BY <2>2, <2>5, <2>7, Names DEF Live, Serials, Named
    <3> QED BY <3>1 DEF absLive
  <2>9. absLink' = [absLink EXCEPT ![n] = r]
    <3>1. \A k \in Serials :
            absLink'[k] = IF k = n THEN r ELSE absLink[k]
      <4> TAKE k \in Serials
      <4>1. absLink'[k] = IF k <= born /\ Resolves(issued[k])
                          THEN NameOf(Get(issued[k]).link)' ELSE -1
        BY <2>2, <2>5 DEF absLink
      <4>2. k <= born => k \in 1..born
        BY Names DEF Serials, Named
      <4>3. CASE k <= born /\ Resolves(issued[k])
        <5>1. NameOf(Get(issued[k]).link)' =
                NameOf(IF k = n THEN Ref(w) ELSE Get(issued[k]).link)
          <6>1. Get(issued[k])'.link = IF k = n THEN Ref(w) ELSE Get(issued[k]).link
            BY <2>7, <4>2, <4>3
          <6> QED BY <2>2, <6>1 DEF NameOf
        <5>2. absLink[k] = NameOf(Get(issued[k]).link)
          BY <4>3 DEF absLink
        <5> QED BY <4>1, <4>3, <5>1, <5>2 DEF r
      <4>4. CASE ~(k <= born /\ Resolves(issued[k]))
        BY <2>1, <2>3, <4>1, <4>4 DEF absLink
      <4> QED BY <4>3, <4>4
    <3> QED BY <3>1 DEF absLink
  <2>10. absRef' = absRef /\ absMarked' = absMarked
    <3>1. \A u \in Vars : NameOf(Ref(u))' = NameOf(Ref(u))
      BY <2>2, <2>6 DEF Ref
    <3> QED BY <2>2, <3>1 DEF absRef, absMarked
  <2> QED BY <1>1, <1>2, <2>1, <2>2, <2>3, <2>8, <2>9, <2>10
          DEF Abstract!WriteLink, Abstract!Null, Abstract!Head, absRef, absLink, absLive, absMarked, t
<1> QED BY <1>3, <1>4

\* The links of the instances that stay keep their names.
LEMMA LinksKept ==
    ASSUME IInv, IInv', born <= born', sentinel' = sentinel,
           \A k \in 1..born : issued'[k] = issued[k],
           NEW k \in 1..born, Resolves(issued[k]),
           Get(issued[k])'.link = Get(issued[k]).link
    PROVE  NameOf(Get(issued[k]).link)' = NameOf(Get(issued[k]).link)
<1>1. PICK g : g = Get(issued[k]).link
  OBVIOUS
<1>2. Known(g)
  BY <1>1, Names DEF IInv, References, GoodRef, Known
<1>3. NameOf(g)' = NameOf(g)
  BY <1>2, NamesKept
<1>4. NameOf(Get(issued[k]).link)' = NameOf(g)'
  BY <1>1 DEF NameOf
<1> QED BY <1>1, <1>3, <1>4

LEMMA RefsKept ==
    ASSUME IInv, IInv', born <= born', sentinel' = sentinel,
           \A k \in 1..born : issued'[k] = issued[k],
           NEW v \in Vars, slots'[v].ref = slots[v].ref
    PROVE  NameOf(Ref(v))' = NameOf(Ref(v))
<1>1. PICK g : g = Ref(v)
  OBVIOUS
<1>2. Known(g)
  BY <1>1, NameOfVariable
<1>3. NameOf(g)' = NameOf(g)
  BY <1>2, NamesKept
<1>4. NameOf(Ref(v))' = NameOf(g)'
  BY <1>1 DEF NameOf, Ref
<1> QED BY <1>1, <1>3, <1>4

LEMMA NewIs ==
    ASSUME IInv, NEW v \in Vars, New(v) PROVE Abstract!New(v)
<1>1. IInv'
  BY NewIInv
<1>2. PICK h, prev : h = Allocated /\ prev = LastNode(VarType[v])
  OBVIOUS
<1>3. /\ h # None
      /\ \A k \in 1..born : issued'[k] = issued[k]
      /\ \A k \in 1..born : Resolves(issued[k])' <=> Resolves(issued[k])
      /\ \A k \in 1..born : Resolves(issued[k]) => issued[k].index # h.index
      /\ issued'[born + 1] = h
      /\ Resolves(h)'
      /\ Get(h)' = Node(VarType[v], prev, FALSE)
      /\ \A t \in Types : Live(t)' = IF t = VarType[v] THEN Live(t) \cup {born + 1} ELSE Live(t)
  BY <1>2, NewInstances
<1>4. /\ born < MaxNews /\ VarType[v] \in Types /\ Store(v, h) /\ born' = born + 1
      /\ sentinel' = sentinel /\ trap' = trap
      /\ \A i \in Slots : i # h.index => entries'[i].link = entries[i].link
  BY <1>2, NewEffect
<1>5. born \in Nat /\ born <= born' /\ born + 1 \in 1..born' /\ MaxNews \in Nat
  BY <1>4, Names, InterpTypeHeapAssumption DEF Named
<1>6. Named'
  BY <1>1, NamesAfter
<1>7. NameOf(h)' = born + 1
  <2>1. PICK k : k = born + 1 /\ k \in 1..born'
    BY <1>5
  <2>2. NameOf(issued[k])' = k
    BY <1>6, <2>1 DEF Named
  <2>3. issued'[k] = h
    BY <1>3, <2>1
  <2>4. NameOf(issued[k])' = NameOf(h)'
    BY <2>3 DEF NameOf
  <2> QED BY <2>1, <2>2, <2>4
<1>8. absLive' = [absLive EXCEPT ![VarType[v]] = absLive[VarType[v]] \cup {born + 1}]
  BY <1>3, <1>4 DEF absLive
<1>9. absRef' = [absRef EXCEPT ![v] = born + 1] /\ absMarked' = [absMarked EXCEPT ![v] = FALSE]
  <2>1. /\ slots' = [slots EXCEPT ![v] = [ref |-> h, deleted |-> FALSE]]
        /\ slots \in [Vars -> [ref : Handle, deleted : BOOLEAN]]
    BY <1>4 DEF Store, IInv, TypeOK
  <2>2. ASSUME NEW u \in Vars
        PROVE  NameOf(Ref(u))' = IF u = v THEN NameOf(h)' ELSE NameOf(Ref(u))
    <3>1. CASE u = v
      BY <2>1, <3>1 DEF Ref, NameOf
    <3>2. CASE u # v
      BY <1>1, <1>3, <1>4, <1>5, <2>1, <3>2, RefsKept
    <3> QED BY <3>1, <3>2
  <2> QED BY <1>7, <2>1, <2>2, GiveIs, ZenonT(60)
<1>10. absLink' = absLink
  <2>1. ASSUME NEW k \in Serials PROVE absLink'[k] = absLink[k]
    <3>1. absLink'[k] = IF k <= born' /\ Resolves(issued[k])'
                        THEN NameOf(Get(issued[k]).link)' ELSE -1
      BY DEF absLink
    <3>2. CASE k <= born /\ Resolves(issued[k])
      <4>1. k \in 1..born
        BY <1>5, <3>2 DEF Serials
      <4>2. Get(issued[k])'.link = Get(issued[k]).link
        BY <1>3, <1>4, <3>2, <4>1, Issued DEF Get
      <4>3. NameOf(Get(issued[k]).link)' = NameOf(Get(issued[k]).link)
        BY <1>1, <1>3, <1>4, <1>5, <3>2, <4>1, <4>2, LinksKept
      <4> QED BY <1>3, <1>4, <1>5, <3>1, <3>2, <4>1, <4>3 DEF absLink
    <3>3. CASE k = born + 1
      <4>1. Get(issued[k])'.link = None
        BY <1>3, <1>4, <3>3 DEF Get, Node
      <4>2. NameOf(Get(issued[k]).link)' = -1
        BY <4>1 DEF NameOf
      <4> QED BY <1>5, <3>1, <3>3, <4>2 DEF absLink
    <3>4. CASE k # born + 1 /\ ~(k <= born /\ Resolves(issued[k]))
      <4>1. ~(k <= born' /\ Resolves(issued[k])')
        BY <1>3, <1>4, <1>5, <3>4 DEF Serials
      <4> QED BY <3>1, <3>4, <4>1 DEF absLink
    <3> QED BY <3>2, <3>3, <3>4
  <2> QED BY <2>1 DEF absLink
<1> QED BY <1>4, <1>8, <1>9, <1>10 DEF Abstract!New, Abstract!Give, absLive, absLink, absRef, absMarked

\* Unlinking and freeing an instance takes it out of its Type's list.
LEMMA RemoveIs ==
    ASSUME IInv, IInv', NEW d \in 1..born, Resolves(issued[d]), Remove(issued[d]),
           NEW t, t = Get(issued[d]).type
    PROVE  Abstract!Remove(t, d)
<1>1. /\ \A k \in 1..born : Resolves(issued[k])' <=> Resolves(issued[k]) /\ k # d
      /\ \A k \in 1..born : Resolves(issued[k]) /\ k # d => issued[k].index # issued[d].index
      /\ \A u \in Types : Live(u)' = Live(u) \ {d}
  BY RemoveInstances
<1>2. /\ t \in Types /\ d \in Live(t)
      /\ \A i \in Slots : i # issued[d].index => entries'[i].link = entries[i].link
      /\ UNCHANGED <<size, sentinel, trap, born, issued>>
  BY RemoveEffect
<1>3. born \in Nat
  BY Names DEF Named
<1>4. absLive' = [absLive EXCEPT ![t] = absLive[t] \ {d}]
  <2>1. \A u \in Types : u # t => d \notin Live(u)
    BY <1>2 DEF Live
  <2>2. \A u \in Types : Live(u)' = IF u = t THEN Live(u) \ {d} ELSE Live(u)
    BY <1>1, <2>1
  <2> QED BY <1>2, <2>2 DEF absLive
<1>5. absLink' = [absLink EXCEPT ![d] = -1]
  <2>1. ASSUME NEW k \in Serials PROVE absLink'[k] = IF k = d THEN -1 ELSE absLink[k]
    <3>1. absLink'[k] = IF k <= born' /\ Resolves(issued[k])'
                        THEN NameOf(Get(issued[k]).link)' ELSE -1
      BY DEF absLink
    <3>2. CASE k <= born /\ Resolves(issued[k]) /\ k # d
      <4>1. k \in 1..born
        BY <1>3, <3>2 DEF Serials
      <4>2. Get(issued[k])'.link = Get(issued[k]).link
        BY <1>1, <1>2, <3>2, <4>1, Issued DEF Get
      <4>3. NameOf(Get(issued[k]).link)' = NameOf(Get(issued[k]).link)
        BY <1>2, <1>3, <3>2, <4>1, <4>2, LinksKept
      <4> QED BY <1>1, <1>2, <3>1, <3>2, <4>1, <4>3 DEF absLink
    <3>3. CASE ~(k <= born /\ Resolves(issued[k]) /\ k # d)
      <4>1. ~(k <= born' /\ Resolves(issued[k])')
        BY <1>1, <1>2, <1>3, <3>3 DEF Serials
      <4> QED BY <3>1, <3>3, <4>1 DEF absLink
    <3> QED BY <3>2, <3>3
  <2> QED BY <2>1 DEF absLink
<1> QED BY <1>2, <1>4, <1>5 DEF Abstract!Remove, Abstract!Null, absLive, absLink

LEMMA DeleteValueIs ==
    ASSUME IInv, SentinelCopies = FALSE, NEW v \in Vars, DeleteValue(v)
    PROVE  Abstract!DeleteValue(v)
<1>1. IInv'
  BY DeleteValueIInv
<1>0. PICK t, h, n : t = VarType[v] /\ h = Ref(v) /\ n = NameOf(h)
  OBVIOUS
<1>2. absRef[v] = n /\ h # sentinel[t]
  BY <1>0 DEF absRef, DeleteValue, MayCopy, IsSentinel
<1>3. /\ Abstract!Dead(t, n) <=> h # None /\ ~Resolves(h)
      /\ n = -1 <=> h = None
      /\ n = 0 <=> h = sentinel[t]
      /\ Resolves(h) => h # None /\ n \in Live(t) /\ n \in 1..born /\ h = issued[n]
  BY <1>0, <1>2, NameOfVariable DEF IsSentinel
<1>4. CASE h = None
  <2>1. Abstract!Fault("null dereference")
    BY <1>0, <1>4, FaultIs DEF DeleteValue
  <2> QED BY <1>0, <1>2, <1>3, <1>4, <2>1 DEF Abstract!DeleteValue, Abstract!Null, Abstract!Head, absRef
<1>5. CASE h # None /\ ~Resolves(h)
  <2>1. Abstract!Fault("double delete")
    BY <1>0, <1>5, FaultIs DEF DeleteValue
  <2> QED BY <1>0, <1>2, <1>3, <1>5, <2>1 DEF Abstract!DeleteValue, Abstract!Null, Abstract!Head, absRef
<1>6. CASE h # None /\ Resolves(h)
  <2>1. n \in 1..born /\ h = issued[n] /\ n \in Live(t) /\ Get(h).type = t
    BY <1>0, <1>3, <1>6 DEF Live
  <2>2. LinksResolve(h)
    BY <1>0, <1>6, <2>1, NeighboursResolve
  <2>3. Remove(h) /\ slots' = slots
    BY <1>0, <1>6, <2>2 DEF DeleteValue
  <2>4. Abstract!Remove(t, n)
    BY <1>1, <1>6, <2>1, <2>3, RemoveIs
  <2>5. absRef' = absRef /\ absMarked' = absMarked
    <3>1. sentinel' = sentinel /\ born' = born /\ issued' = issued /\ born \in Nat
      BY <2>3, Names DEF Remove, Named
    <3>2. \A u \in Vars : NameOf(Ref(u))' = NameOf(Ref(u))
      BY <1>1, <2>3, <3>1, RefsKept
    <3> QED BY <2>3, <3>2 DEF absRef, absMarked
  <2> QED BY <1>0, <1>2, <1>3, <1>6, <2>1, <2>4, <2>5
          DEF Abstract!DeleteValue, Abstract!Remove, Abstract!Null, Abstract!Head, absRef, absMarked
<1> QED BY <1>0, <1>4, <1>5, <1>6

LEMMA DeleteVariableIs ==
    ASSUME IInv, NEW v \in Vars, DeleteVariable(v)
    PROVE  Abstract!DeleteVariable(v)
<1>1. IInv'
  BY DeleteVariableIInv
<1>0. PICK t, h, n, prev :
        t = VarType[v] /\ h = Ref(v) /\ n = NameOf(h) /\ prev = Get(h).prev
  OBVIOUS
<1>2. absRef[v] = n /\ absMarked[v] = slots[v].deleted
  BY <1>0 DEF absRef, absMarked
<1>3. /\ Abstract!Dead(t, n) <=> h # None /\ ~Resolves(h)
      /\ n = -1 <=> h = None
      /\ n = 0 <=> h = sentinel[t]
      /\ h = sentinel[t] => slots[v].deleted
      /\ Resolves(h) => /\ h # None
                        /\ h # sentinel[t] => n \in Live(t) /\ n \in 1..born /\ h = issued[n]
      /\ t \in Types
  BY <1>0, NameOfVariable DEF IsSentinel
<1>4. CASE slots[v].deleted \/ (h # None /\ ~Resolves(h))
  <2>1. Abstract!Fault("double delete")
    BY <1>0, <1>4, FaultIs DEF DeleteVariable
  <2> QED BY <1>0, <1>2, <1>3, <1>4, <2>1 DEF Abstract!DeleteVariable, Abstract!Head, absRef, absMarked
<1>5. CASE ~slots[v].deleted /\ h = None
  <2>1. Abstract!Fault("null dereference")
    BY <1>0, <1>5, FaultIs DEF DeleteVariable
  <2>2. ~Resolves(h)
    BY <1>5 DEF Resolves, None
  <2> QED BY <1>0, <1>2, <1>3, <1>5, <2>1, <2>2
          DEF Abstract!DeleteVariable, Abstract!Remove, Abstract!Null, Abstract!Head, absRef, absMarked
<1>6. CASE ~slots[v].deleted /\ h # None /\ Resolves(h)
  <2>1. n \in 1..born /\ h = issued[n] /\ n \in Live(t) /\ Get(h).type = t
    BY <1>0, <1>3, <1>6 DEF Live
  <2>2. LinksResolve(h) /\ prev # None
    BY <1>0, <1>6, <2>1, NeighboursResolve
  <2>3. Remove(h) /\ slots' = [slots EXCEPT ![v] = [ref |-> prev, deleted |-> TRUE]]
    BY <1>0, <1>6, <2>2 DEF DeleteVariable
  <2>4. Precedes(t, n, prev)
    BY <1>0, <1>3, <2>1 DEF IInv, CreationOrder
  <2>5. Abstract!Remove(t, n)
    BY <1>1, <1>6, <2>1, <2>3, RemoveIs
  <2>6. /\ NameOf(prev) = IF Abstract!Before(t, n) = {} THEN 0
                          ELSE Abstract!Max(Abstract!Before(t, n))
        /\ Known(prev)
    <3>1. n \in Int
      BY <2>1, Names DEF Named
    <3> QED BY <1>3, <2>4, <3>1, PrecedingIs, Names DEF Named
  <2>7. sentinel' = sentinel /\ born' = born /\ issued' = issued /\ born \in Nat
    BY <2>3, Names DEF Remove, Named
  <2>8. NameOf(prev)' = NameOf(prev)
    BY <1>1, <2>6, <2>7, NamesKept
  <2>9. /\ absRef' = [absRef EXCEPT ![v] = NameOf(prev)]
        /\ absMarked' = [absMarked EXCEPT ![v] = TRUE]
    <3>1. slots \in [Vars -> [ref : Handle, deleted : BOOLEAN]]
      BY DEF IInv, TypeOK
    <3>2. ASSUME NEW u \in Vars
          PROVE  NameOf(Ref(u))' = IF u = v THEN NameOf(prev)' ELSE NameOf(Ref(u))
      <4>1. CASE u = v
        BY <2>3, <3>1, <4>1 DEF Ref, NameOf
      <4>2. CASE u # v
        BY <1>1, <2>3, <2>7, <3>1, <4>2, RefsKept
      <4> QED BY <4>1, <4>2
    <3> QED BY <2>3, <2>8, <3>1, <3>2, GiveIs, ZenonT(60)
  <2> QED BY <1>0, <1>2, <1>3, <1>6, <2>1, <2>5, <2>6, <2>9
          DEF Abstract!DeleteVariable, Abstract!Remove, Abstract!Null, Abstract!Head, absRef, absMarked
<1> QED BY <1>0, <1>4, <1>5, <1>6

-----------------------------------------------------------------------------
(* The refinement.                                                         *)

LEMMA InitIs == Init => Abstract!Init
<1> SUFFICES ASSUME Init PROVE Abstract!Init
  OBVIOUS
<1>1. born = 0 /\ trap = "none" /\ slots = [v \in Vars |-> [ref |-> None, deleted |-> FALSE]]
  BY DEF Init
<1>2. \A t \in Types : Live(t) = {}
  BY <1>1 DEF Live, Serials
<1>3. \A k \in Serials : ~(k <= born)
  BY <1>1 DEF Serials
<1>4. NameOf(None) = -1 /\ \A v \in Vars : Ref(v) = None /\ slots[v].deleted = FALSE
  BY <1>1 DEF NameOf, Ref
<1> QED BY <1>1, <1>2, <1>3, <1>4
        DEF Abstract!Init, Abstract!Null, Abstract!Serials, Abstract!Types, Serials, Types

LEMMA StepIs ==
    ASSUME IInv, SentinelCopies = FALSE, MarkedAccesses = FALSE, Next
    PROVE  Abstract!Run(done')
<1>2. trap = "none"
  BY DEF Next
<1>3. CASE \E v \in Vars : New(v)
  <2>1. PICK v \in Vars : New(v)
    BY <1>3
  <2>2. done'.op = "New" /\ done'.v = v /\ done'.w = v
    BY <2>1 DEF New, Did
  <2>3. Abstract!New(v)
    BY <2>1, NewIs
  <2>4. Abstract!New(done'.v)
    BY <2>2, <2>3 DEF Abstract!New
  <2> QED BY <1>2, <2>2, <2>4 DEF Abstract!Run
<1>4. CASE \E v \in Vars : First(v)
  <2>1. PICK v \in Vars : First(v)
    BY <1>4
  <2>2. done'.op = "First" /\ done'.v = v /\ done'.w = v
    BY <2>1 DEF First, Did
  <2>3. Abstract!First(v)
    BY <2>1, ReadersAre
  <2>4. Abstract!First(done'.v)
    BY <2>2, <2>3
  <2> QED BY <1>2, <2>2, <2>4 DEF Abstract!Run
<1>5. CASE \E v \in Vars : Last(v)
  <2>1. PICK v \in Vars : Last(v)
    BY <1>5
  <2>2. done'.op = "Last" /\ done'.v = v /\ done'.w = v
    BY <2>1 DEF Last, Did
  <2>3. Abstract!Last(v)
    BY <2>1, ReadersAre
  <2>4. Abstract!Last(done'.v)
    BY <2>2, <2>3
  <2> QED BY <1>2, <2>2, <2>4 DEF Abstract!Run
<1>6. CASE \E v \in Vars : Clear(v)
  <2>1. PICK v \in Vars : Clear(v)
    BY <1>6
  <2>2. done'.op = "Clear" /\ done'.v = v /\ done'.w = v
    BY <2>1 DEF Clear, Did
  <2>3. Abstract!Clear(v)
    BY <2>1, ReadersAre
  <2>4. Abstract!Clear(done'.v)
    BY <2>2, <2>3
  <2> QED BY <1>2, <2>2, <2>4 DEF Abstract!Run
<1>7. CASE \E v, w \in Vars : Copy(v, w)
  <2>1. PICK v \in Vars, w \in Vars : Copy(v, w)
    BY <1>7
  <2>2. done'.op = "Copy" /\ done'.v = v /\ done'.w = w
    BY <2>1 DEF Copy, Did
  <2>3. Abstract!Copy(v, w)
    BY <2>1, ReadersAre
  <2>4. Abstract!Copy(done'.v, done'.w)
    BY <2>2, <2>3 DEF Abstract!Copy, Abstract!Assign, Abstract!Give
  <2> QED BY <1>2, <2>2, <2>4 DEF Abstract!Run
<1>8. CASE \E v, w \in Vars : Next_(v, w)
  <2>1. PICK v \in Vars, w \in Vars : Next_(v, w)
    BY <1>8
  <2>2. done'.op = "Next" /\ done'.v = v /\ done'.w = w
    BY <2>1 DEF Next_, Did
  <2>3. Abstract!Next_(v, w)
    BY <2>1, ReadersAre
  <2>4. Abstract!Next_(done'.v, done'.w)
    BY <2>2, <2>3 DEF Abstract!Next_, Abstract!Assign, Abstract!Give
  <2> QED BY <1>2, <2>2, <2>4 DEF Abstract!Run
<1>9. CASE \E v, w \in Vars : Previous(v, w)
  <2>1. PICK v \in Vars, w \in Vars : Previous(v, w)
    BY <1>9
  <2>2. done'.op = "Previous" /\ done'.v = v /\ done'.w = w
    BY <2>1 DEF Previous, Did
  <2>3. Abstract!Previous(v, w)
    BY <2>1, ReadersAre
  <2>4. Abstract!Previous(done'.v, done'.w)
    BY <2>2, <2>3
  <2> QED BY <1>2, <2>2, <2>4 DEF Abstract!Run
<1>10. CASE \E v, w \in Vars : ReadLink(v, w)
  <2>1. PICK v \in Vars, w \in Vars : ReadLink(v, w)
    BY <1>10
  <2>2. done'.op = "ReadLink" /\ done'.v = v /\ done'.w = w
    BY <2>1 DEF ReadLink, Did
  <2>3. Abstract!ReadLink(v, w)
    BY <2>1, ReadersAre
  <2>4. Abstract!ReadLink(done'.v, done'.w)
    BY <2>2, <2>3 DEF Abstract!ReadLink, Abstract!Assign, Abstract!Give
  <2> QED BY <1>2, <2>2, <2>4 DEF Abstract!Run
<1>11. CASE \E v, w \in Vars : WriteLink(v, w)
  <2>1. PICK v \in Vars, w \in Vars : WriteLink(v, w)
    BY <1>11
  <2>2. done'.op = "WriteLink" /\ done'.v = v /\ done'.w = w
    BY <2>1 DEF WriteLink, Did
  <2>3. Abstract!WriteLink(v, w)
    BY <2>1, WriteLinkIs
  <2>4. Abstract!WriteLink(done'.v, done'.w)
    BY <2>2, <2>3 DEF Abstract!WriteLink
  <2> QED BY <1>2, <2>2, <2>4 DEF Abstract!Run
<1>12. CASE \E v \in Vars : DeleteVariable(v)
  <2>1. PICK v \in Vars : DeleteVariable(v)
    BY <1>12
  <2>2. done'.op = "DeleteVariable" /\ done'.v = v /\ done'.w = v
    BY <2>1 DEF DeleteVariable, Did
  <2>3. Abstract!DeleteVariable(v)
    BY <2>1, DeleteVariableIs
  <2>4. Abstract!DeleteVariable(done'.v)
    BY <2>2, <2>3 DEF Abstract!DeleteVariable, Abstract!Remove
  <2> QED BY <1>2, <2>2, <2>4 DEF Abstract!Run
<1>13. CASE \E v \in Vars : DeleteValue(v)
  <2>1. PICK v \in Vars : DeleteValue(v)
    BY <1>13
  <2>2. done'.op = "DeleteValue" /\ done'.v = v /\ done'.w = v
    BY <2>1 DEF DeleteValue, Did
  <2>3. Abstract!DeleteValue(v)
    BY <2>1, DeleteValueIs
  <2>4. Abstract!DeleteValue(done'.v)
    BY <2>2, <2>3 DEF Abstract!DeleteValue, Abstract!Remove
  <2> QED BY <1>2, <2>2, <2>4 DEF Abstract!Run
<1> QED BY <1>3, <1>4, <1>5, <1>6, <1>7, <1>8, <1>9, <1>10, <1>11, <1>12, <1>13 DEF Next

\* The interpreter's slab, lists and handles (heap.rs, interp.rs) implement what
\* a user Type promises, while no rewound variable is copied.
THEOREM Refinement ==
    SentinelCopies = FALSE /\ MarkedAccesses = FALSE => (Spec => Refines)
<1> SUFFICES ASSUME SentinelCopies = FALSE, MarkedAccesses = FALSE PROVE Spec => Refines
  OBVIOUS
<1>1. Init => IInv /\ Abstract!Init
  BY InitIInv, InitIs
<1>2. IInv /\ [Next]_vars => IInv' /\ [Abstract!Run(done')]_vars
  BY NextIInv, StepIs
<1> QED BY <1>1, <1>2, PTL DEF Spec, Refines

-----------------------------------------------------------------------------
(* The loop.                                                               *)

\* A step of the loop program is a step of the heap, or leaves it alone.
LEMMA LoopStepIs == LoopNext => [Next]_vars
<1>1. \A targets \in SUBSET Vars : trap = "none" /\ Statement(targets) => Next
  BY DEF Statement, Next
<1>2. \A v \in Vars : trap = "none" /\ (First(v) \/ DeleteVariable(v)) => Next
  BY DEF Next
<1>3. \A v \in Vars : trap = "none" /\ Next_(v, v) => Next
  BY DEF Next
<1>4. LoopVar \in Vars /\ Others \in SUBSET Vars /\ Vars \in SUBSET Vars
  BY TypeForEachAssumption DEF Others
<1>5. CASE trap = "none" /\ Before
  BY <1>1, <1>4, <1>5 DEF Before
<1>6. CASE trap = "none" /\ Enter
  BY <1>2, <1>4, <1>6 DEF Enter
<1>7. CASE trap = "none" /\ Cond
  BY <1>7 DEF Cond
<1>8. CASE trap = "none" /\ Body
  BY <1>1, <1>2, <1>4, <1>8 DEF Body
<1>9. CASE trap = "none" /\ EndBody
  BY <1>9 DEF EndBody
<1>10. CASE trap = "none" /\ Step
  BY <1>3, <1>4, <1>10 DEF Step
<1> QED BY <1>5, <1>6, <1>7, <1>8, <1>9, <1>10 DEF LoopNext, InLoop

\* A program with a For Each keeps the heap's invariant and the contract.
THEOREM LoopHeap == SentinelCopies = FALSE => (LoopSpec => []IInv)
<1> SUFFICES ASSUME SentinelCopies = FALSE PROVE LoopSpec => []IInv
  OBVIOUS
<1>1. LoopInit => IInv
  BY InitIInv DEF LoopInit
<1>2. IInv /\ [LoopNext]_<<vars, loopVars>> => IInv'
  BY LoopStepIs, NextIInv
<1> QED BY <1>1, <1>2, PTL DEF LoopSpec

\* The heap under a For Each, whatever its body creates, deletes and links, still
\* implements what a user Type promises.
THEOREM LoopRefinement ==
    SentinelCopies = FALSE /\ MarkedAccesses = FALSE => (LoopSpec => Refines)
<1> SUFFICES ASSUME SentinelCopies = FALSE, MarkedAccesses = FALSE PROVE LoopSpec => Refines
  OBVIOUS
<1>1. LoopInit => Init
  BY DEF LoopInit
<1>2. [LoopNext]_<<vars, loopVars>> => [Next]_vars
  BY LoopStepIs
<1>3. LoopSpec => Spec
  BY <1>1, <1>2, PTL DEF LoopSpec, Spec
<1> QED BY <1>3, Refinement

-----------------------------------------------------------------------------
(* The walk.                                                               *)

Visited(k) == \E i \in 1..Len(visited) : visited[i] = k
Ahead(k) == \A i \in 1..Len(visited) : visited[i] < k

\* At the condition the loop variable holds Null and everything was visited, or
\* the first instance that was not.
AtDoor ==
  LET n == NameOf(Ref(LoopVar))
  IN  \/ Ref(LoopVar) = None /\ \A k \in Live(LoopType) : Visited(k)
      \/ /\ Ref(LoopVar) # None /\ n \in Live(LoopType) /\ Ahead(n)
         /\ \A k \in Live(LoopType) : k < n => Visited(k)

\* In the body its place divides the visited instances from those ahead.
Divides ==
  /\ Ref(LoopVar) # None
  /\ Resolves(Ref(LoopVar)) =>
       \A k \in Live(LoopType) : IF k <= NameOf(Ref(LoopVar)) THEN Visited(k) ELSE Ahead(k)

LoopInv ==
  /\ IInv
  /\ visited \in Seq(Nat) /\ \A i \in 1..Len(visited) : visited[i] <= born
  /\ VisitsInOrder
  /\ pc = "before" => visited = <<>>
  /\ pc = "cond" /\ trap = "none" => AtDoor
  /\ pc \in {"body", "step"} => Divides
  /\ pc = "exit" => \A k \in Live(LoopType) : Visited(k)

\* What any statement leaves of the instances there are: handles stay, a handle
\* that stopped resolving never resolves again, and only New adds to a list.
HeapMoves ==
  /\ born <= born' /\ sentinel' = sentinel
  /\ \A k \in 1..born : issued'[k] = issued[k] /\ (Resolves(issued[k])' => Resolves(issued[k]))
  /\ \A t \in Types : \A k \in Live(t)' : k \in Live(t) \/ k > born

LEMMA SameHeapMoves == ASSUME IInv, UNCHANGED heap PROVE HeapMoves
<1>1. /\ born' = born /\ sentinel' = sentinel /\ issued' = issued /\ entries' = entries
      /\ size' = size /\ generations' = generations /\ born \in Nat
  BY Names DEF heap, Named
<1> QED BY <1>1 DEF HeapMoves, Live, Resolves, Get

LEMMA WriteLinkMoves ==
    ASSUME IInv, NEW v \in Vars, NEW w \in Vars, WriteLink(v, w) PROVE HeapMoves
<1>1. CASE FieldFault(Ref(v)) # "none"
  BY <1>1, SameHeapMoves DEF WriteLink, Fault
<1>2. CASE FieldFault(Ref(v)) = "none"
  <2>1. /\ entries' = [entries EXCEPT ![Ref(v).index].link = Ref(w)]
        /\ UNCHANGED <<generations, size, freeList, sentinel, tail, born, issued>>
    BY <1>2 DEF WriteLink
  <2>2. \A i \in Slots : entries'[i].type = entries[i].type
    <3>1. entries \in [Slots -> Entry]
      BY DEF IInv, TypeOK
    <3> QED BY <2>1, <3>1 DEF Entry
  <2>3. 1..size \subseteq Slots /\ born \in Nat
    BY Bounds DEF IInv
  <2> QED BY <2>1, <2>2, <2>3 DEF HeapMoves, Live, Resolves, Get
<1> QED BY <1>1, <1>2

LEMMA RemoveMoves ==
    ASSUME IInv, NEW d \in 1..born, Resolves(issued[d]), Remove(issued[d]) PROVE HeapMoves
<1>1. /\ \A k \in 1..born : Resolves(issued[k])' <=> Resolves(issued[k]) /\ k # d
      /\ \A u \in Types : Live(u)' = Live(u) \ {d}
  BY RemoveInstances
<1>2. UNCHANGED <<size, sentinel, trap, born, issued>> /\ born \in Nat
  BY Names DEF Remove, Named
<1> QED BY <1>1, <1>2 DEF HeapMoves

LEMMA DeleteMoves ==
    ASSUME IInv, SentinelCopies = FALSE, NEW v \in Vars, DeleteVariable(v) \/ DeleteValue(v)
    PROVE  HeapMoves
<1>1. CASE UNCHANGED heap
  BY <1>1, SameHeapMoves
<1>2. CASE Remove(Ref(v)) /\ Resolves(Ref(v)) /\ Ref(v) # sentinel[VarType[v]]
  <2>1. PICK d \in 1..born : Ref(v) = issued[d]
    BY <1>2, NameOfVariable, SMTT(30)
  <2>2. Resolves(issued[d]) /\ Remove(issued[d])
    BY <1>2, <2>1 DEF Remove, Unlinked, TailWithout, Free, Get
  <2> QED BY <2>2, RemoveMoves
<1>3. IsSentinel(v) => slots[v].deleted
  BY NameOfVariable DEF IsSentinel
<1> QED BY <1>1, <1>2, <1>3 DEF DeleteVariable, DeleteValue, Fault, MayCopy, IsSentinel

LEMMA NewMoves == ASSUME IInv, NEW v \in Vars, New(v) PROVE HeapMoves
<1>1. PICK h, prev : h = Allocated /\ prev = LastNode(VarType[v])
  OBVIOUS
<1>2. /\ \A k \in 1..born : issued'[k] = issued[k]
      /\ \A k \in 1..born : Resolves(issued[k])' <=> Resolves(issued[k])
      /\ \A t \in Types : Live(t)' = IF t = VarType[v] THEN Live(t) \cup {born + 1} ELSE Live(t)
  BY <1>1, NewInstances
<1>3. born' = born + 1 /\ sentinel' = sentinel /\ born \in Nat
  BY NewEffect, Names DEF Named
<1> QED BY <1>2, <1>3 DEF HeapMoves

LEMMA EveryStepMoves ==
    ASSUME IInv, SentinelCopies = FALSE, [Next]_vars PROVE HeapMoves
<1>1. CASE \E v \in Vars : New(v) \/ DeleteVariable(v) \/ DeleteValue(v)
  BY <1>1, NewMoves, DeleteMoves
<1>2. CASE \E v, w \in Vars : WriteLink(v, w)
  BY <1>2, WriteLinkMoves
<1>3. CASE \E v, w \in Vars :
             \/ First(v) \/ Last(v) \/ Clear(v)
             \/ Copy(v, w) \/ Next_(v, w) \/ Previous(v, w) \/ ReadLink(v, w)
  <2>1. UNCHANGED heap
    BY <1>3 DEF First, Last, Clear, Copy, Next_, Previous, ReadLink, Assign, Fault
  <2> QED BY <2>1, SameHeapMoves
<1>4. CASE UNCHANGED vars
  <2>1. UNCHANGED heap
    BY <1>4 DEF vars, heap
  <2> QED BY <2>1, SameHeapMoves
<1> QED BY <1>1, <1>2, <1>3, <1>4 DEF Next

-----------------------------------------------------------------------------
(* Every step of the loop keeps its place.                                 *)

\* A step that leaves the loop variable alone, inside the body.
LEMMA BodyHolds ==
    ASSUME LoopInv, SentinelCopies = FALSE, [Next]_vars, slots'[LoopVar] = slots[LoopVar],
           visited' = visited, pc \in {"body", "step"}, pc' \in {"body", "step"}
    PROVE  LoopInv'
<1>0. LoopVar \in Vars /\ LoopType \in Types
  BY TypeForEachAssumption, InterpTypeHeapAssumption DEF LoopType, Types
<1>1. IInv /\ IInv' /\ HeapMoves /\ Divides /\ LoopVar \in Vars /\ LoopType \in Types
      /\ born \in Nat /\ born' \in Nat
  <2>1. IInv /\ Divides
    BY DEF LoopInv
  <2>2. IInv' /\ HeapMoves
    BY <2>1, NextIInv, EveryStepMoves
  <2> QED BY <1>0, <2>1, <2>2, Names, NamesAfter DEF Named
<1>2. PICK h, n : h = Ref(LoopVar) /\ n = NameOf(h)
  OBVIOUS
<1>3. /\ h # None /\ Known(h) /\ h = Ref(LoopVar)' /\ NameOf(h)' = n
      /\ NameOf(Ref(LoopVar))' = n
  <2>1. h # None /\ Known(h) /\ h = Ref(LoopVar)'
    BY <1>1, <1>2, NameOfVariable DEF Divides, Ref
  <2>2. NameOf(h)' = n
    BY <1>1, <1>2, <2>1, NamesKept DEF HeapMoves
  <2>3. NameOf(Ref(LoopVar))' = NameOf(h)'
    BY <2>1 DEF NameOf
  <2> QED BY <2>1, <2>2, <2>3
<1>4. Resolves(h)' => Resolves(h) /\ n <= born
  <2>1. CASE \E t \in Types : h = sentinel[t]
    <3>1. PICK t \in Types : h = sentinel[t]
      BY <2>1
    <3>2. Resolves(h) /\ n = 0
      BY <1>1, <1>2, <3>1, Issued, Names DEF Named
    <3> QED BY <1>1, <3>2
  <2>2. CASE \E k \in 1..born : h = issued[k]
    <3>1. PICK k \in 1..born : h = issued[k]
      BY <2>2
    <3>2. (Resolves(issued[k])' => Resolves(issued[k])) /\ issued'[k] = h /\ n = k
      BY <1>1, <1>2, <3>1, Names DEF HeapMoves, Named
    <3>3. Resolves(issued[k])' <=> Resolves(h)'
      BY <3>2 DEF Resolves
    <3> QED BY <1>1, <3>1, <3>2, <3>3
  <2> QED BY <1>3, <2>1, <2>2 DEF Known
<1>5. Divides'
  <2>1. ASSUME Resolves(h)', NEW k \in Live(LoopType)'
        PROVE  IF k <= n THEN Visited(k)' ELSE Ahead(k)'
    <3>1. CASE k \in Live(LoopType)
      BY <1>1, <1>2, <1>4, <2>1, <3>1 DEF Divides, Visited, Ahead
    <3>2. CASE k > born
      <4>1. ~(k <= n) /\ \A i \in 1..Len(visited) : visited[i] <= born /\ visited[i] \in Nat
        <5>1. k \in Nat /\ n \in Int
          <6>1. Live(LoopType)' \subseteq Nat
            BY InterpTypeHeapAssumption DEF Live, Serials
          <6>2. n \in Int
            BY <1>1, <1>2, NameOfVariable
          <6> QED BY <2>1, <6>1, <6>2
        <5> QED BY <1>1, <1>4, <2>1, <3>2, <5>1 DEF LoopInv
      <4>2. k \in Nat
        BY <2>1, InterpTypeHeapAssumption DEF Live, Serials
      <4> QED BY <1>1, <3>2, <4>1, <4>2 DEF Ahead
    <3> QED BY <1>1, <3>1, <3>2 DEF HeapMoves
  <2>2. Resolves(Ref(LoopVar))' <=> Resolves(h)'
    BY <1>3 DEF Resolves
  <2> QED BY <1>3, <2>1, <2>2 DEF Divides
<1>6. \A i \in 1..Len(visited) : visited[i] <= born'
  BY <1>1 DEF LoopInv, HeapMoves
<1> QED BY <1>1, <1>5, <1>6 DEF LoopInv, VisitsInOrder

\* Giving the loop variable what follows its place brings the walk to the first
\* instance it has not visited.
LEMMA DoorOpens ==
    ASSUME LoopInv, SentinelCopies = FALSE, NEW n \in Int, NEW h, Follows(LoopType, n, h),
           Assign(LoopVar, h), visited' = visited,
           \A k \in Live(LoopType) : IF k <= n THEN Visited(k) ELSE Ahead(k),
           pc' = "cond"
    PROVE  LoopInv'
<1>1. /\ IInv /\ LoopVar \in Vars /\ LoopType \in Types /\ UNCHANGED heap
      /\ slots' = [slots EXCEPT ![LoopVar] = [ref |-> h, deleted |-> FALSE]]
      /\ slots \in [Vars -> [ref : Handle, deleted : BOOLEAN]]
  BY TypeForEachAssumption, InterpTypeHeapAssumption
     DEF LoopInv, LoopType, Types, Assign, Store, IInv, TypeOK
<1>2. IInv'
  <2>1. h \in Handle /\ GoodRef(LoopType, h)
    <3>1. CASE h = None
      BY <3>1, InterpTypeHeapAssumption DEF GoodRef, None, Handle
    <3>2. CASE \E y \in Live(LoopType) : h = issued[y]
      <4>1. PICK y \in Live(LoopType) : h = issued[y]
        BY <3>2
      <4>2. y \in 1..born /\ Get(h).type = LoopType
        BY <4>1 DEF Live, Serials
      <4> QED BY <1>1, <4>1, <4>2, Issued DEF GoodRef
    <3> QED BY <3>1, <3>2 DEF Follows
  <2> QED BY <1>1, <2>1, AssignIInv DEF LoopType
<1>3. /\ born' = born /\ Live(LoopType)' = Live(LoopType)
      /\ Ref(LoopVar)' = h /\ NameOf(Ref(LoopVar))' = NameOf(h)
  <2>1. /\ born' = born /\ \A g : NameOf(g)' = NameOf(g)
        /\ UNCHANGED <<entries, generations, size, freeList, sentinel, tail, born, issued>>
    BY <1>1, HeapSame DEF heap
  <2>2. Ref(LoopVar)' = h
    BY <1>1 DEF Ref
  <2>3. NameOf(Ref(LoopVar))' = NameOf(h)'
    BY <2>2 DEF NameOf
  <2> QED BY <2>1, <2>2, <2>3 DEF Live, Resolves, Get
<1>4. AtDoor'
  <2>1. CASE h = None /\ \A y \in Live(LoopType) : y <= n
    BY <1>3, <2>1 DEF AtDoor, Visited
  <2>2. ASSUME NEW y \in Live(LoopType), h = issued[y], y > n,
               \A z \in Live(LoopType) : z <= n \/ z >= y
        PROVE  AtDoor'
    <3>1. y \in 1..born /\ Live(LoopType) \subseteq Int
      BY InterpTypeHeapAssumption DEF Live, Serials
    <3>2. NameOf(h) = y /\ h # None
      BY <1>1, <2>2, <3>1, Names, Issued DEF Named
    <3>3. Ahead(y) /\ \A k \in Live(LoopType) : k < y => Visited(k)
      BY <2>2, <3>1
    <3> QED BY <1>3, <3>2, <3>3 DEF AtDoor, Visited, Ahead
  <2> QED BY <2>1, <2>2 DEF Follows
<1> QED BY <1>2, <1>3, <1>4 DEF LoopInv, VisitsInOrder

LEMMA BeforeHolds == ASSUME LoopInv, SentinelCopies = FALSE, trap = "none", Before PROVE LoopInv'
<1>1. pc = "before" /\ pc' = "before" /\ visited' = visited /\ visited = <<>>
  BY DEF Before, Goto, LoopInv
<1>2. IInv'
  BY LoopStepIs, NextIInv DEF LoopNext, LoopInv
<1> QED BY <1>1, <1>2 DEF LoopInv, VisitsInOrder

LEMMA EnterHolds == ASSUME LoopInv, SentinelCopies = FALSE, Enter PROVE LoopInv'
<1>1. /\ pc = "before" /\ pc' = "cond" /\ visited' = visited /\ visited = <<>> /\ First(LoopVar)
  BY DEF Enter, Goto, LoopInv
<1>2. PICK h : h = Get(sentinel[LoopType]).next
  OBVIOUS
<1>3. Assign(LoopVar, h) /\ Follows(LoopType, 0, h)
  <2>1. LoopType \in Types
    BY TypeForEachAssumption, InterpTypeHeapAssumption DEF LoopType, Types
  <2>2. Resolves(sentinel[LoopType]) /\ Follows(LoopType, 0, h)
    BY <1>2, <2>1, Issued DEF LoopInv, IInv, CreationOrder
  <2>3. Assign(LoopVar, Get(sentinel[LoopType]).next)
    BY <1>1, <2>2 DEF First, LoopType
  <2> QED BY <1>2, <2>2, <2>3 DEF Assign, Store
<1>4. ASSUME NEW k \in Live(LoopType) PROVE IF k <= 0 THEN Visited(k) ELSE Ahead(k)
  <2>1. k \in Nat /\ k >= 1
    BY <1>4, InterpTypeHeapAssumption DEF Live, Serials
  <2>2. Len(visited) = 0
    BY <1>1
  <2>3. \A i \in 1..Len(visited) : visited[i] < k
    BY <2>2
  <2> QED BY <2>1, <2>3 DEF Ahead
<1>5. \A k \in Live(LoopType) : IF k <= 0 THEN Visited(k) ELSE Ahead(k)
  BY <1>4
<1>6. 0 \in Int /\ Follows(LoopType, 0, h) /\ Assign(LoopVar, h) /\ visited' = visited /\ pc' = "cond"
  BY <1>1, <1>3
<1> QED BY ONLY LoopInv, SentinelCopies = FALSE, <1>5, <1>6, DoorOpens

LEMMA CondHolds == ASSUME LoopInv, trap = "none", Cond PROVE LoopInv'
<1>1. pc = "cond" /\ UNCHANGED vars /\ AtDoor
  BY DEF Cond, Goto, LoopInv
<1>2. IInv' /\ born' = born /\ Live(LoopType)' = Live(LoopType) /\ Ref(LoopVar)' = Ref(LoopVar)
      /\ NameOf(Ref(LoopVar))' = NameOf(Ref(LoopVar)) /\ born \in Nat
  <2>1. UNCHANGED <<entries, generations, size, freeList, sentinel, tail, slots, trap, born, issued>>
    BY <1>1 DEF vars
  <2>2. IInv'
    BY <1>1, <2>1, HeapUnchanged DEF heap, LoopInv, IInv, NoPanic, TypeOK
  <2> QED BY <2>1, <2>2, Names DEF Live, Resolves, Get, Ref, NameOf, LoopInv, Named
<1>3. CASE Ref(LoopVar) = None
  <2>1. pc' = "exit" /\ visited' = visited
    BY <1>3 DEF Cond, Goto
  <2>2. \A k \in Live(LoopType)' : Visited(k)'
    BY <1>1, <1>2, <1>3, <2>1 DEF AtDoor, Visited
  <2> QED BY <1>2, <2>1, <2>2 DEF LoopInv, VisitsInOrder
<1>4. CASE Ref(LoopVar) # None
  <2>1. PICK n : n = NameOf(Ref(LoopVar))
    OBVIOUS
  <2>2. /\ pc' = "body" /\ visited' = Append(visited, n)
        /\ n \in Live(LoopType) /\ Ahead(n) /\ \A k \in Live(LoopType) : k < n => Visited(k)
    BY <1>1, <1>4, <2>1 DEF Cond, Goto, AtDoor
  <2>3. n \in Nat /\ n <= born /\ Live(LoopType) \subseteq Int
    BY <2>2, InterpTypeHeapAssumption DEF Live, Serials
  <2>4. /\ visited \in Seq(Nat) /\ Len(visited) \in Nat /\ visited' \in Seq(Nat)
        /\ Len(visited') = Len(visited) + 1 /\ visited'[Len(visited) + 1] = n
        /\ \A i \in 1..Len(visited) : visited'[i] = visited[i] /\ visited[i] \in Nat
    BY <2>2, <2>3 DEF LoopInv
  <2>5. \A i \in 1..Len(visited') : i \in 1..Len(visited) \/ i = Len(visited) + 1
    BY <2>4
  <2>6. \A i \in 1..Len(visited) : visited[i] < n /\ visited[i] <= born
    BY <2>2 DEF Ahead, LoopInv
  <2>7. VisitsInOrder'
    <3> SUFFICES ASSUME NEW i \in 1..Len(visited'), NEW j \in 1..Len(visited'), i < j
                 PROVE  visited'[i] < visited'[j]
      BY DEF VisitsInOrder
    <3>1. i \in 1..Len(visited)
      BY <2>4
    <3>2. CASE j \in 1..Len(visited)
      BY <2>4, <3>1, <3>2 DEF LoopInv, VisitsInOrder
    <3>3. CASE j = Len(visited) + 1
      BY <2>4, <2>6, <3>1, <3>3
    <3> QED BY <2>5, <3>2, <3>3
  <2>8. Divides'
    <3>1. ASSUME NEW k \in Live(LoopType) PROVE IF k <= n THEN Visited(k)' ELSE Ahead(k)'
      <4>1. CASE k < n
        <5>1. PICK i \in 1..Len(visited) : visited[i] = k
          BY <2>2, <4>1 DEF Visited
        <5>2. i \in 1..Len(visited') /\ visited'[i] = k
          BY <2>4, <5>1
        <5> QED BY <2>3, <4>1, <5>2 DEF Visited
      <4>2. CASE k = n
        <5>1. Len(visited) + 1 \in 1..Len(visited')
          BY <2>4
        <5> QED BY <2>3, <2>4, <4>2, <5>1 DEF Visited
      <4>3. CASE k > n
        <5>1. ASSUME NEW i \in 1..Len(visited') PROVE visited'[i] < k
          <6>1. CASE i \in 1..Len(visited)
            <7>1. visited'[i] \in Nat /\ visited'[i] < n /\ k \in Int
              BY <2>3, <2>4, <2>6, <6>1
            <7> QED BY <2>3, <4>3, <7>1
          <6>2. CASE i = Len(visited) + 1
            BY <2>4, <4>3, <6>2
          <6> QED BY <2>5, <6>1, <6>2
        <5> QED BY <2>3, <4>3, <5>1 DEF Ahead
      <4> QED BY <2>3, <4>1, <4>2, <4>3
    <3> QED BY <1>2, <1>4, <2>1, <3>1 DEF Divides
  <2>9. \A i \in 1..Len(visited') : visited'[i] <= born'
    BY <1>2, <2>3, <2>4, <2>5, <2>6
  <2> QED BY <1>2, <2>2, <2>4, <2>7, <2>8, <2>9 DEF LoopInv
<1> QED BY <1>3, <1>4

LEMMA OthersKeep == ASSUME IInv, Statement(Others) PROVE slots'[LoopVar] = slots[LoopVar]
<1>1. slots \in [Vars -> [ref : Handle, deleted : BOOLEAN]] /\ LoopVar \in Vars
  BY TypeForEachAssumption DEF IInv, TypeOK
<1>2. ASSUME NEW v \in Others, NEW h, Store(v, h) PROVE slots'[LoopVar] = slots[LoopVar]
  BY <1>1, <1>2 DEF Store, Others
<1>3. ASSUME NEW v \in Others, NEW w \in Vars,
             \/ New(v) \/ First(v) \/ Last(v) \/ Clear(v)
             \/ Copy(v, w) \/ Next_(v, w) \/ Previous(v, w) \/ ReadLink(v, w)
      PROVE  slots'[LoopVar] = slots[LoopVar]
  BY <1>2, <1>3 DEF New, First, Last, Clear, Copy, Next_, Previous, ReadLink, Assign, Fault
<1>4. ASSUME NEW v \in Others, DeleteVariable(v) PROVE slots'[LoopVar] = slots[LoopVar]
  BY <1>1, <1>4 DEF DeleteVariable, Fault, Others
<1>5. ASSUME NEW v \in Others, NEW w \in Vars, DeleteValue(v) \/ WriteLink(v, w)
      PROVE  slots'[LoopVar] = slots[LoopVar]
  BY <1>5 DEF DeleteValue, WriteLink, Fault
<1> QED BY <1>1, <1>3, <1>4, <1>5 DEF Statement

\* Deleting the loop variable steps it back to a place that still divides.
LEMMA DeleteHolds ==
    ASSUME LoopInv, SentinelCopies = FALSE, trap = "none", DeleteVariable(LoopVar),
           visited' = visited, pc = "body", pc' = "body"
    PROVE  LoopInv'
<1>1. /\ IInv /\ LoopVar \in Vars /\ LoopType \in Types /\ Divides
      /\ slots \in [Vars -> [ref : Handle, deleted : BOOLEAN]]
  BY TypeForEachAssumption, InterpTypeHeapAssumption DEF LoopInv, LoopType, Types, IInv, TypeOK
<1>2. IInv' /\ HeapMoves /\ born \in Nat /\ born' \in Nat /\ [Next]_vars
  <2>1. Next
    BY <1>1 DEF Next
  <2> QED BY <1>1, <2>1, NextIInv, EveryStepMoves, Names, NamesAfter DEF Named
<1>3. CASE slots' = slots
  BY <1>2, <1>3, BodyHolds
<1>4. CASE slots' # slots
  <2>1. PICK h, n, prev :
          h = Ref(LoopVar) /\ n = NameOf(h) /\ prev = Get(h).prev
    OBVIOUS
  <2>2. ~slots[LoopVar].deleted /\ h # None /\ Resolves(h) /\ LinksResolve(h)
    BY <1>4, <2>1 DEF DeleteVariable, Fault
  <2>3. n \in 1..born /\ h = issued[n] /\ n \in Live(LoopType) /\ Get(h).type = LoopType
    BY <1>1, <2>1, <2>2, NameOfVariable DEF Live, LoopType, IsSentinel
  <2>4. prev # None
    BY <1>1, <2>1, <2>2, <2>3, NeighboursResolve
  <2>5. Remove(h) /\ slots' = [slots EXCEPT ![LoopVar] = [ref |-> prev, deleted |-> TRUE]]
    BY <2>1, <2>2, <2>4 DEF DeleteVariable
  <2>6. Ref(LoopVar)' = prev /\ Live(LoopType)' = Live(LoopType) \ {n}
    BY <1>1, <2>2, <2>3, <2>5, RemoveInstances DEF Ref
  <2>7. Precedes(LoopType, n, prev)
    BY <1>1, <2>1, <2>3 DEF IInv, CreationOrder
  <2>8. \A k \in Live(LoopType) : (IF k <= n THEN Visited(k) ELSE Ahead(k)) /\ k \in Nat
    BY <2>1, <2>2, <1>1, InterpTypeHeapAssumption DEF Divides, Live, Serials
  <2>9. PICK m \in Nat : /\ NameOf(prev) = m /\ Known(prev) /\ m < n
                         /\ \A z \in Live(LoopType) : z >= n \/ z <= m
    <3>1. CASE prev = sentinel[LoopType] /\ \A y \in Live(LoopType) : y >= n
      BY <1>1, <2>3, <3>1, Names DEF Named, Known
    <3>2. ASSUME NEW y \in Live(LoopType), prev = issued[y], y < n,
                 \A z \in Live(LoopType) : z >= n \/ z <= y
          PROVE  /\ NameOf(prev) = y /\ Known(prev) /\ y < n /\ y \in Nat
                 /\ \A z \in Live(LoopType) : z >= n \/ z <= y
      BY <1>1, <2>8, <3>2, Names DEF Named, Known, Live, Serials
    <3> QED BY <2>7, <3>1, <3>2 DEF Precedes
  <2>10. NameOf(Ref(LoopVar))' = m
    <3>1. NameOf(prev)' = m
      BY <1>1, <1>2, <2>9, NamesKept DEF HeapMoves
    <3> QED BY <2>6, <3>1 DEF NameOf
  <2>11. ASSUME NEW k \in Live(LoopType) \ {n}
         PROVE  IF k <= m THEN Visited(k) ELSE Ahead(k)
    BY <2>3, <2>8, <2>9
  <2>12. Divides'
    BY <2>4, <2>6, <2>10, <2>11 DEF Divides, Visited, Ahead
  <2>13. \A i \in 1..Len(visited) : visited[i] <= born'
    BY <1>2 DEF LoopInv, HeapMoves
  <2> QED BY <1>2, <2>12, <2>13 DEF LoopInv, VisitsInOrder
<1> QED BY <1>3, <1>4

LEMMA BodyStepHolds == ASSUME LoopInv, SentinelCopies = FALSE, trap = "none", Body PROVE LoopInv'
<1>1. /\ pc = "body" /\ pc' = "body" /\ visited' = visited
      /\ Statement(Others) \/ DeleteVariable(LoopVar)
  BY DEF Body, Goto
<1>2. CASE Statement(Others)
  <2>1. [Next]_vars
    BY LoopStepIs DEF LoopNext, InLoop
  <2>2. slots'[LoopVar] = slots[LoopVar]
    BY <1>2, OthersKeep DEF LoopInv
  <2> QED BY <1>1, <2>1, <2>2, BodyHolds
<1> QED BY <1>1, <1>2, DeleteHolds

LEMMA EndBodyHolds == ASSUME LoopInv, SentinelCopies = FALSE, EndBody PROVE LoopInv'
<1>1. pc = "body" /\ pc' = "step" /\ visited' = visited /\ UNCHANGED vars /\ slots' = slots
  BY DEF EndBody, Goto, vars
<1> QED BY <1>1, BodyHolds

LEMMA StepHolds == ASSUME LoopInv, SentinelCopies = FALSE, trap = "none", Step PROVE LoopInv'
<1>1. /\ pc = "step" /\ pc' = "cond" /\ visited' = visited /\ Next_(LoopVar, LoopVar)
      /\ LoopVar \in Vars /\ Ref(LoopVar) # None /\ IInv
  BY TypeForEachAssumption DEF Step, Goto, LoopInv, Divides
<1>2. CASE ~Resolves(Ref(LoopVar))
  <2>1. Fault("access to deleted object")
    BY <1>1, <1>2 DEF Next_
  <2>2. IInv'
    BY <1>1, <2>1, FaultIInv
  <2>3. born' = born /\ trap' # "none"
    BY <2>1 DEF Fault, heap
  <2> QED BY <1>1, <2>2, <2>3 DEF LoopInv, VisitsInOrder
<1>3. CASE Resolves(Ref(LoopVar))
  <2>1. PICK n, h : n = NameOf(Ref(LoopVar)) /\ h = Get(Ref(LoopVar)).next
    OBVIOUS
  <2>2. Follows(LoopType, n, h) /\ n \in Int
    BY <1>1, <1>3, <2>1, NextOfVariable DEF LoopType
  <2>3. Assign(LoopVar, h)
    BY <1>1, <1>3, <2>1 DEF Next_, Assign, Store
  <2>4. \A k \in Live(LoopType) : IF k <= n THEN Visited(k) ELSE Ahead(k)
    BY <1>1, <1>3, <2>1 DEF LoopInv, Divides
  <2> QED BY <1>1, <2>2, <2>3, <2>4, DoorOpens
<1> QED BY <1>2, <1>3

-----------------------------------------------------------------------------
LEMMA LoopInitInv == LoopInit => LoopInv
<1> SUFFICES ASSUME LoopInit PROVE LoopInv
  OBVIOUS
<1>1. IInv /\ pc = "before" /\ visited = <<>>
  BY InitIInv DEF LoopInit
<1>2. visited \in Seq(Nat) /\ Len(visited) = 0
  BY <1>1
<1> QED BY <1>1, <1>2 DEF LoopInv, VisitsInOrder

LEMMA LoopNextInv ==
    ASSUME LoopInv, SentinelCopies = FALSE, [LoopNext]_<<vars, loopVars>> PROVE LoopInv'
<1>1. CASE UNCHANGED <<vars, loopVars>>
  <2>1. /\ UNCHANGED <<entries, generations, size, freeList, sentinel, tail, slots, trap, born, issued>>
        /\ pc' = pc /\ visited' = visited
    BY <1>1 DEF vars, loopVars
  <2>2. IInv'
    BY <1>1, NextIInv DEF LoopInv
  <2>3. \A t : Live(t)' = Live(t)
    BY ONLY <2>1 DEF Live, Resolves, Get
  <2>4. Ref(LoopVar)' = Ref(LoopVar) /\ NameOf(Ref(LoopVar))' = NameOf(Ref(LoopVar))
    BY ONLY <2>1 DEF Ref, NameOf
  <2>5. Resolves(Ref(LoopVar))' = Resolves(Ref(LoopVar))
    BY ONLY <2>1 DEF Resolves, Ref
  <2>6. \A k : Visited(k)' = Visited(k) /\ Ahead(k)' = Ahead(k)
    BY ONLY <2>1 DEF Visited, Ahead
  <2>7. AtDoor' = AtDoor
    BY ONLY <2>3, <2>4, <2>6 DEF AtDoor
  <2>8. Divides' = Divides
    BY ONLY <2>3, <2>4, <2>5, <2>6 DEF Divides
  <2>9. VisitsInOrder' = VisitsInOrder
    BY ONLY <2>1 DEF VisitsInOrder
  <2> QED BY ONLY LoopInv, <2>1, <2>2, <2>3, <2>6, <2>7, <2>8, <2>9 DEF LoopInv
<1>2. CASE LoopNext
  BY <1>2, BeforeHolds, EnterHolds, CondHolds, BodyStepHolds, EndBodyHolds, StepHolds
     DEF LoopNext, InLoop
<1> QED BY <1>1, <1>2

\* The loop keeps its place in every reachable state.
THEOREM LoopInvariant == SentinelCopies = FALSE => (LoopSpec => []LoopInv)
<1> SUFFICES ASSUME SentinelCopies = FALSE PROVE LoopSpec => []LoopInv
  OBVIOUS
<1>1. LoopInv /\ [LoopNext]_<<vars, loopVars>> => LoopInv'
  BY LoopNextInv
<1> QED BY <1>1, LoopInitInv, PTL DEF LoopSpec

\* However its body creates and deletes, a For Each visits every instance alive
\* once and in the order of creation (lower.rs, lower_for_each_type).
THEOREM EachVisitedOnce == SentinelCopies = FALSE => (LoopSpec => []VisitsEachOnce)
<1>1. LoopInv => VisitsEachOnce
  BY DEF LoopInv, VisitsEachOnce, NoneSkipped, Visited
<1> QED BY <1>1, LoopInvariant, PTL

\* A Delete of the loop variable rewinds it to a place from which Next goes on
\* with what was not visited (interp.rs, the lvalue form of Delete).
THEOREM RewindsKeepTheirPlace == SentinelCopies = FALSE => (LoopSpec => []RewindKeepsPlace)
<1>1. LoopInv => RewindKeepsPlace
  <2> SUFFICES ASSUME LoopInv, pc \in {"body", "step"}, Resolves(Ref(LoopVar)),
                      NEW k \in Live(LoopType)
               PROVE  k <= NameOf(Ref(LoopVar)) <=> Visited(k)
    BY DEF RewindKeepsPlace, Visited
  <2>1. k \in Nat /\ IF k <= NameOf(Ref(LoopVar)) THEN Visited(k) ELSE Ahead(k)
    BY InterpTypeHeapAssumption DEF LoopInv, Divides, Live, Serials
  <2>2. Visited(k) => ~Ahead(k)
    BY <2>1 DEF Visited, Ahead
  <2> QED BY <2>1, <2>2
<1> QED BY <1>1, LoopInvariant, PTL
=============================================================================
