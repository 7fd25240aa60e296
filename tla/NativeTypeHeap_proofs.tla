------------------------- MODULE NativeTypeHeap_proofs -------------------------
(***************************************************************************)
(* The native Type heap keeps its lists in order for any number of Types,  *)
(* variables and instances, never reaches a deleted node, and implements   *)
(* what a user Type promises (TypeSpec) for every program that does not    *)
(* delete a variable twice in a row.                                       *)
(***************************************************************************)
EXTENDS NativeTypeHeap, FiniteSetTheorems, TLAPS

-----------------------------------------------------------------------------
(* The inductive invariant.                                                *)

\* What CbTypeHeader can hold.
Header == [list : 0..NumTypes, prev : {0} \cup Addresses, next : {0} \cup Addresses,
           deleted : BOOLEAN, sentinel : BOOLEAN, link : {0} \cup Addresses,
           serial : 0..MaxNews]

TypesHold ==
  /\ nodes \in [Addresses -> Header]
  /\ brk \in {0} \cup Addresses
  /\ lists \in [Types -> [sentinel : {0} \cup Addresses, tail : {0} \cup Addresses]]
  /\ ref \in [Vars -> {0} \cup Addresses]
  /\ born \in 0..MaxNews
  /\ rewound \in [Vars -> BOOLEAN]

CreatedTypes == {t \in Types : Created(t)}

\* The nodes of a Type that are linked: the sentinel and the live instances.
Linked(t) == {p \in 1..brk : nodes[p].list = t /\ ~nodes[p].deleted}

\* Addresses are handed out in order, one for each sentinel and each instance.
AddressesInOrder ==
  /\ brk = born + Cardinality(CreatedTypes)
  /\ \A p \in 1..brk :
       /\ nodes[p].list \in Types
       /\ nodes[p].sentinel <=> p = lists[nodes[p].list].sentinel
       /\ nodes[p].sentinel => nodes[p].serial = 0 /\ ~nodes[p].deleted /\ nodes[p].prev = 0
       /\ ~nodes[p].sentinel => nodes[p].serial \in 1..born
       /\ Created(nodes[p].list) /\ lists[nodes[p].list].sentinel <= p
  /\ \A p, q \in 1..brk : ~nodes[p].sentinel /\ ~nodes[q].sentinel /\ p < q
                            => nodes[p].serial < nodes[q].serial
  /\ \A k \in 1..born : \E p \in 1..brk : nodes[p].serial = k
  /\ \A t \in Types : IF Created(t)
                      THEN /\ lists[t].sentinel \in 1..brk
                           /\ nodes[lists[t].sentinel].list = t
                      ELSE lists[t].tail = 0

\* q is the next, the previous linked node of Type t after, before p.
IsNext(t, p, q) ==
  \/ q = 0 /\ \A m \in Linked(t) : m <= p
  \/ /\ q \in Linked(t) /\ p < q
     /\ \A m \in Linked(t) : m <= p \/ q <= m

IsPrevious(t, p, q) ==
  /\ q \in Linked(t) /\ q < p
  /\ \A m \in Linked(t) : m <= q \/ p <= m

\* The links of every Type thread its linked nodes in the order of addresses.
Threaded ==
  \A t \in Types :
    /\ \A p \in Linked(t) : /\ IsNext(t, p, nodes[p].next)
                            /\ ~nodes[p].sentinel => IsPrevious(t, p, nodes[p].prev)
    /\ IF lists[t].tail = 0 THEN \A p \in Linked(t) : nodes[p].sentinel
       ELSE /\ lists[t].tail \in Linked(t) /\ ~nodes[lists[t].tail].sentinel
            /\ \A p \in Linked(t) : p <= lists[t].tail

\* A pointer of Type t: NULL, or a node of that Type, deleted or not.
PointsAt(t, p) == p = 0 \/ (p \in 1..brk /\ nodes[p].list = t)

Pointers ==
  /\ \A v \in Vars : PointsAt(VarType[v], ref[v])
  /\ \A p \in 1..brk : PointsAt(nodes[p].list, nodes[p].link)

IInv == TypesHold /\ AddressesInOrder /\ Threaded /\ Pointers

-----------------------------------------------------------------------------
(* The bounds.                                                             *)

LEMMA Bounds ==
    ASSUME IInv
    PROVE  /\ NumTypes \in Nat /\ MaxNews \in Nat /\ born \in Nat /\ born <= MaxNews
           /\ brk \in Nat /\ brk <= NumTypes + MaxNews /\ 1..brk \subseteq Addresses
           /\ IsFiniteSet(CreatedTypes) /\ Cardinality(CreatedTypes) \in Nat
           /\ \A v \in Vars : VarType[v] \in Types
<1>1. NumTypes \in Nat /\ MaxNews \in Nat /\ \A v \in Vars : VarType[v] \in Types
  BY NativeTypeHeapAssumption DEF Types
<1>2. brk \in {0} \cup Addresses /\ born \in 0..MaxNews
  BY DEF IInv, TypesHold
<1>3. IsFiniteSet(CreatedTypes) /\ Cardinality(CreatedTypes) \in Nat
  <2>1. IsFiniteSet(Types)
    BY <1>1, FS_Interval DEF Types
  <2> QED BY <2>1, FS_Subset, FS_CardinalityType DEF CreatedTypes
<1> QED BY <1>1, <1>2, <1>3 DEF Addresses

\* The addresses suffice: one for each Type and each instance.
LEMMA Room ==
    ASSUME IInv, born < MaxNews, NEW t \in Types
    PROVE  /\ brk + 1 \in Addresses
           /\ ~Created(t) => brk + 2 \in Addresses
           /\ ~Created(t) => /\ IsFiniteSet(CreatedTypes \cup {t})
                             /\ Cardinality(CreatedTypes \cup {t}) = Cardinality(CreatedTypes) + 1
<1>1. /\ NumTypes \in Nat /\ MaxNews \in Nat /\ born \in Nat /\ brk \in Nat
      /\ IsFiniteSet(CreatedTypes) /\ Cardinality(CreatedTypes) \in Nat
      /\ brk = born + Cardinality(CreatedTypes)
  BY Bounds DEF IInv, AddressesInOrder
<1>2. IsFiniteSet(Types) /\ Cardinality(Types) = NumTypes
  <2>1. 1 \in Int /\ NumTypes \in Int
    BY <1>1
  <2>2. /\ IsFiniteSet(1..NumTypes)
        /\ Cardinality(1..NumTypes) = IF 1 > NumTypes THEN 0 ELSE NumTypes - 1 + 1
    BY <2>1, FS_Interval, Zenon
  <2> QED BY <1>1, <2>2 DEF Types
<1>3. Cardinality(CreatedTypes) <= NumTypes
  <2>1. CreatedTypes \subseteq Types
    BY DEF CreatedTypes
  <2>2. Cardinality(CreatedTypes) <= Cardinality(Types)
    BY <1>2, <2>1, FS_Subset
  <2> QED BY <1>2, <2>2
<1>4. ASSUME ~Created(t)
      PROVE  /\ IsFiniteSet(CreatedTypes \cup {t})
             /\ Cardinality(CreatedTypes \cup {t}) = Cardinality(CreatedTypes) + 1
             /\ Cardinality(CreatedTypes) + 1 <= NumTypes
  <2>1. t \notin CreatedTypes /\ CreatedTypes \cup {t} \subseteq Types
    BY <1>4 DEF CreatedTypes
  <2>2. /\ IsFiniteSet(CreatedTypes \cup {t})
        /\ Cardinality(CreatedTypes \cup {t}) = Cardinality(CreatedTypes) + 1
    BY <1>1, <2>1, FS_AddElement
  <2>3. Cardinality(CreatedTypes \cup {t}) <= Cardinality(Types)
    BY <1>2, <2>1, FS_Subset
  <2> QED BY <1>2, <2>2, <2>3
<1> QED BY <1>1, <1>3, <1>4 DEF Addresses

LEMMA InitIInv == Init => IInv
<1> SUFFICES ASSUME Init PROVE IInv
  OBVIOUS
<1>1. NumTypes \in Nat /\ MaxNews \in Nat
  BY NativeTypeHeapAssumption
<1>2. /\ nodes = [p \in Addresses |-> Zeroed] /\ brk = 0 /\ born = 0
      /\ lists = [t \in Types |-> [sentinel |-> 0, tail |-> 0]]
      /\ ref = [v \in Vars |-> 0] /\ rewound = [v \in Vars |-> FALSE]
  BY DEF Init
<1>3. TypesHold
  <2>1. Zeroed \in Header
    BY <1>1 DEF Zeroed, Header
  <2> QED BY <1>1, <1>2, <2>1 DEF TypesHold
<1>4. CreatedTypes = {}
  BY <1>2 DEF CreatedTypes, Created
<1>5. AddressesInOrder
  <2>1. Cardinality(CreatedTypes) = 0
    BY <1>4, FS_EmptySet
  <2>2. 1..brk = {} /\ 1..born = {}
    BY <1>2
  <2>3. \A t \in Types : ~Created(t) /\ lists[t].tail = 0
    BY <1>2 DEF Created
  <2> QED BY <1>2, <2>1, <2>2, <2>3 DEF AddressesInOrder
<1>6. Threaded
  <2>1. \A t \in Types : Linked(t) = {} /\ lists[t].tail = 0
    BY <1>2 DEF Linked
  <2> QED BY <2>1 DEF Threaded
<1>7. Pointers
  BY <1>2 DEF Pointers, PointsAt
<1> QED BY <1>3, <1>5, <1>6, <1>7 DEF IInv

-----------------------------------------------------------------------------
(* Steps that leave the lists alone.                                       *)

LEMMA StructureKept ==
    ASSUME IInv, UNCHANGED <<brk, lists, born>>,
           \A p \in 1..brk : /\ nodes'[p].list = nodes[p].list
                             /\ nodes'[p].prev = nodes[p].prev
                             /\ nodes'[p].next = nodes[p].next
                             /\ nodes'[p].deleted = nodes[p].deleted
                             /\ nodes'[p].sentinel = nodes[p].sentinel
                             /\ nodes'[p].serial = nodes[p].serial
    PROVE  AddressesInOrder' /\ Threaded' /\ \A t : Linked(t)' = Linked(t)
<1>1. (\A t : Created(t)' <=> Created(t)) /\ CreatedTypes' = CreatedTypes
  BY DEF Created, CreatedTypes
<1>2. AddressesInOrder'
  BY <1>1 DEF IInv, AddressesInOrder
<1>3. \A t : Linked(t)' = Linked(t)
  BY DEF Linked
<1>4. \A t, p, q : (IsNext(t, p, q)' <=> IsNext(t, p, q)) /\ (IsPrevious(t, p, q)' <=> IsPrevious(t, p, q))
  BY <1>3 DEF IsNext, IsPrevious
<1>5. \A t : Linked(t) \subseteq 1..brk
  BY DEF Linked
<1>6. \A t \in Types : lists[t].tail # 0 => lists[t].tail \in 1..brk
  BY <1>5 DEF IInv, Threaded
<1>7. Threaded'
  BY <1>3, <1>4, <1>5, <1>6 DEF IInv, Threaded
<1> QED BY <1>2, <1>3, <1>7

LEMMA AssignIInv ==
    ASSUME IInv, UNCHANGED heap, NEW v \in Vars, NEW p, PointsAt(VarType[v], p),
           NEW b \in BOOLEAN,
           ref' = [ref EXCEPT ![v] = p], rewound' = [rewound EXCEPT ![v] = b]
    PROVE  IInv'
<1>1. UNCHANGED <<nodes, brk, lists, born>>
  BY DEF heap
<1>2. AddressesInOrder' /\ Threaded'
  BY <1>1, StructureKept
<1>3. p \in {0} \cup Addresses
  BY Bounds DEF PointsAt
<1>4. TypesHold'
  BY <1>1, <1>3 DEF IInv, TypesHold
<1>5. Pointers'
  BY <1>1 DEF IInv, Pointers, PointsAt, TypesHold
<1> QED BY <1>2, <1>4, <1>5 DEF IInv

LEMMA UnchangedIInv == ASSUME IInv, UNCHANGED <<heap, ref, rewound>> PROVE IInv'
<1>1. UNCHANGED <<nodes, brk, lists, born>>
  BY DEF heap
<1>2. AddressesInOrder' /\ Threaded'
  BY <1>1, StructureKept
<1> QED BY <1>1, <1>2 DEF IInv, TypesHold, Pointers, PointsAt

\* What First, Last, Next and Previous find in a list.
LEMMA WhatReadersFind ==
    ASSUME IInv, NEW t \in Types
    PROVE  /\ Created(t) => /\ lists[t].sentinel \in Linked(t)
                            /\ nodes[lists[t].sentinel].sentinel
                            /\ PointsAt(t, nodes[lists[t].sentinel].next)
           /\ PointsAt(t, lists[t].tail)
           /\ \A p \in Linked(t) : /\ p \in 1..brk /\ PointsAt(t, nodes[p].next)
                                   /\ PointsAt(t, nodes[p].prev)
<1>1. Created(t) => /\ lists[t].sentinel \in Linked(t)
                    /\ nodes[lists[t].sentinel].sentinel
  BY DEF IInv, AddressesInOrder, Linked
<1>2. ASSUME NEW p \in Linked(t)
      PROVE  p \in 1..brk /\ PointsAt(t, nodes[p].next) /\ PointsAt(t, nodes[p].prev)
  <2>1. p \in 1..brk /\ Linked(t) \subseteq 1..brk
    BY DEF Linked
  <2>2. IsNext(t, p, nodes[p].next)
    BY DEF IInv, Threaded
  <2>3. nodes[p].prev = 0 \/ nodes[p].prev \in Linked(t)
    BY <2>1 DEF IInv, Threaded, IsPrevious, AddressesInOrder
  <2> QED BY <2>1, <2>2, <2>3 DEF IsNext, PointsAt, Linked
<1>3. PointsAt(t, lists[t].tail)
  BY DEF IInv, Threaded, PointsAt, Linked
<1> QED BY <1>1, <1>2, <1>3

LEMMA ReadersIInv ==
    ASSUME IInv, NEW v \in Vars, NEW w \in Vars,
           \/ First(v) \/ Last(v) \/ Clear(v)
           \/ Copy(v, w) \/ Next_(v, w) \/ Previous(v, w) \/ ReadLink(v, w)
    PROVE  IInv'
<1>1. PICK t : t = VarType[v]
  OBVIOUS
<1>2. t \in Types
  BY <1>1, Bounds
<1>3. ASSUME NEW p, PointsAt(t, p), Assign(v, p) PROVE IInv'
  BY <1>1, <1>3, AssignIInv DEF Assign, Store
<1>4. ASSUME NEW kind, Fault(kind) PROVE IInv'
  BY <1>4, UnchangedIInv DEF Fault
<1>5. PointsAt(t, 0)
  BY DEF PointsAt
<1>6. CASE First(v)
  <2>1. CASE Created(t)
    BY <1>1, <1>2, <1>3, <1>6, <2>1, WhatReadersFind DEF First
  <2>2. CASE ~Created(t)
    BY <1>1, <1>3, <1>5, <1>6, <2>2 DEF First
  <2> QED BY <2>1, <2>2
<1>7. CASE Last(v)
  <2>1. CASE Created(t)
    BY <1>1, <1>2, <1>3, <1>7, <2>1, WhatReadersFind DEF Last
  <2>2. CASE ~Created(t)
    BY <1>1, <1>3, <1>5, <1>7, <2>2 DEF Last
  <2> QED BY <2>1, <2>2
<1>8. CASE Clear(v)
  BY <1>3, <1>5, <1>8 DEF Clear
<1>9. CASE VarType[v] = VarType[w]
  <2>1. PointsAt(t, ref[w])
    BY <1>1, <1>9 DEF IInv, Pointers
  <2>2. ref[w] # 0 => ref[w] \in 1..brk /\ nodes[ref[w]].list = t
    BY <2>1 DEF PointsAt
  <2>3. ref[w] # 0 /\ ~nodes[ref[w]].deleted => ref[w] \in Linked(t)
    BY <2>2 DEF Linked
  <2>4. CASE Copy(v, w)
    BY <1>3, <2>1, <2>4 DEF Copy
  <2>5. CASE Next_(v, w)
    <3>1. CASE ref[w] = 0
      BY <1>3, <1>5, <2>5, <3>1 DEF Next_
    <3>2. CASE ref[w] # 0 /\ nodes[ref[w]].deleted
      BY <1>4, <2>5, <3>2 DEF Next_
    <3>3. CASE ref[w] # 0 /\ ~nodes[ref[w]].deleted
      <4>1. PointsAt(t, nodes[ref[w]].next)
        BY <1>2, <2>3, <3>3, WhatReadersFind
      <4> QED BY <1>3, <2>5, <3>3, <4>1 DEF Next_
    <3> QED BY <3>1, <3>2, <3>3
  <2>6. CASE Previous(v, w)
    <3>1. CASE ref[w] = 0
      BY <1>3, <1>5, <2>6, <3>1 DEF Previous
    <3>2. CASE ref[w] # 0 /\ nodes[ref[w]].deleted
      BY <1>4, <2>6, <3>2 DEF Previous
    <3>3. CASE ref[w] # 0 /\ ~nodes[ref[w]].deleted
      <4>1. PICK p : p = nodes[ref[w]].prev
        OBVIOUS
      <4>2. PointsAt(t, p)
        BY <1>2, <2>3, <3>3, <4>1, WhatReadersFind
      <4>3. PICK q : q = IF p = 0 THEN 0 ELSE IF nodes[p].sentinel THEN 0 ELSE p
        OBVIOUS
      <4>4. PointsAt(t, q) /\ Assign(v, q)
        BY <1>5, <2>6, <3>3, <4>1, <4>2, <4>3 DEF Previous
      <4> QED BY <1>3, <4>4
    <3> QED BY <3>1, <3>2, <3>3
  <2>7. CASE ReadLink(v, w)
    <3>1. CASE FieldFault(ref[w]) # "none"
      BY <1>4, <2>7, <3>1 DEF ReadLink
    <3>2. CASE FieldFault(ref[w]) = "none"
      <4>1. ref[w] # 0
        BY <3>2 DEF FieldFault
      <4>2. PointsAt(t, nodes[ref[w]].link)
        BY <2>2, <4>1 DEF IInv, Pointers
      <4> QED BY <1>3, <2>7, <3>2, <4>2 DEF ReadLink
    <3> QED BY <3>1, <3>2
  <2> QED BY <1>6, <1>7, <1>8, <2>4, <2>5, <2>6, <2>7
<1> QED BY <1>6, <1>7, <1>8, <1>9 DEF Copy, Next_, Previous, ReadLink

\* What WriteLink does: one link changes.
LEMMA WriteLinkEffect ==
    ASSUME IInv, NEW p \in 1..brk, NEW r \in {0} \cup Addresses,
           nodes' = [nodes EXCEPT ![p].link = r]
    PROVE  /\ nodes' \in [Addresses -> Header]
           /\ \A q \in 1..brk : /\ nodes'[q].list = nodes[q].list
                                /\ nodes'[q].prev = nodes[q].prev
                                /\ nodes'[q].next = nodes[q].next
                                /\ nodes'[q].deleted = nodes[q].deleted
                                /\ nodes'[q].sentinel = nodes[q].sentinel
                                /\ nodes'[q].serial = nodes[q].serial
                                /\ nodes'[q].link = IF q = p THEN r ELSE nodes[q].link
<1>1. nodes \in [Addresses -> Header] /\ 1..brk \subseteq Addresses
  BY Bounds DEF IInv, TypesHold
<1>2. nodes[p] \in Header /\ nodes'[p] = [nodes[p] EXCEPT !.link = r]
      /\ \A q \in Addresses : q # p => nodes'[q] = nodes[q]
  BY <1>1
<1>3. nodes'[p] \in Header
  BY <1>2 DEF Header
<1>4. /\ nodes'[p].list = nodes[p].list /\ nodes'[p].prev = nodes[p].prev
      /\ nodes'[p].next = nodes[p].next /\ (nodes'[p].deleted = nodes[p].deleted)
      /\ (nodes'[p].sentinel = nodes[p].sentinel) /\ nodes'[p].serial = nodes[p].serial
      /\ nodes'[p].link = r
  BY <1>2 DEF Header
<1> QED BY <1>1, <1>2, <1>3, <1>4

LEMMA WriteLinkIInv ==
    ASSUME IInv, NEW v \in Vars, NEW w \in Vars, WriteLink(v, w) PROVE IInv'
<1>1. CASE FieldFault(ref[v]) # "none"
  BY <1>1, UnchangedIInv DEF WriteLink, Fault
<1>2. CASE FieldFault(ref[v]) = "none"
  <2>1. /\ nodes' = [nodes EXCEPT ![ref[v]].link = ref[w]]
        /\ UNCHANGED <<brk, lists, born, ref, rewound>>
        /\ VarType[v] = VarType[w] /\ ref[v] # 0
    BY <1>2 DEF WriteLink, FieldFault
  <2>2. PICK p, r : p = ref[v] /\ r = ref[w]
    OBVIOUS
  <2>3. /\ p \in 1..brk /\ nodes[p].list = VarType[v] /\ PointsAt(VarType[v], r)
        /\ r \in {0} \cup Addresses
    BY <2>1, <2>2 DEF IInv, Pointers, PointsAt, TypesHold
  <2>4. /\ nodes' \in [Addresses -> Header]
        /\ \A q \in 1..brk : /\ nodes'[q].list = nodes[q].list
                             /\ nodes'[q].prev = nodes[q].prev
                             /\ nodes'[q].next = nodes[q].next
                             /\ nodes'[q].deleted = nodes[q].deleted
                             /\ nodes'[q].sentinel = nodes[q].sentinel
                             /\ nodes'[q].serial = nodes[q].serial
                             /\ nodes'[q].link = IF q = p THEN r ELSE nodes[q].link
    <3>1. nodes' = [nodes EXCEPT ![p].link = r]
      BY <2>1, <2>2
    <3> QED BY ONLY IInv, <2>3, <3>1, WriteLinkEffect, ZenonT(60)
  <2>5. AddressesInOrder' /\ Threaded'
    BY <2>1, <2>4, StructureKept
  <2>6. TypesHold'
    BY <2>1, <2>4 DEF IInv, TypesHold
  <2>7. \A t, q : PointsAt(t, q)' <=> PointsAt(t, q)
    BY <2>1, <2>4 DEF PointsAt
  <2>8. Pointers'
    BY <2>1, <2>3, <2>4, <2>7 DEF IInv, Pointers
  <2> QED BY <2>5, <2>6, <2>8 DEF IInv
<1> QED BY <1>1, <1>2

-----------------------------------------------------------------------------
(* New.                                                                    *)

\* What ensure_list and cb_rt_type_new do: the sentinel at its first use, the
\* instance at the next address, behind the last linked node.
Places(v, t, head, node, prev) ==
  /\ t = VarType[v] /\ t \in Types /\ {head, node, prev} \subseteq Addresses
  /\ head = IF Created(t) THEN lists[t].sentinel ELSE brk + 1
  /\ node = IF Created(t) THEN brk + 1 ELSE brk + 2
  /\ prev = IF lists[t].tail = 0 THEN head ELSE lists[t].tail
  /\ IF Created(t) THEN prev \in Linked(t) ELSE prev = head

Fresh(t, head, node, prev) ==
  /\ nodes'[node] = [Zeroed EXCEPT !.list = t, !.prev = prev, !.serial = born + 1]
  /\ ~Created(t) => nodes'[head] = [Zeroed EXCEPT !.list = t, !.sentinel = TRUE, !.next = node]

Behind(prev, node) ==
  \A q \in 1..brk : /\ nodes'[q].list = nodes[q].list
                    /\ nodes'[q].prev = nodes[q].prev
                    /\ nodes'[q].next = IF q = prev THEN node ELSE nodes[q].next
                    /\ nodes'[q].deleted = nodes[q].deleted
                    /\ nodes'[q].sentinel = nodes[q].sentinel
                    /\ nodes'[q].serial = nodes[q].serial
                    /\ nodes'[q].link = nodes[q].link

Grown(v, t, head, node) ==
  /\ born < MaxNews /\ nodes' \in [Addresses -> Header]
  /\ lists' = [lists EXCEPT ![t] = [sentinel |-> head, tail |-> node]]
  /\ brk' = node /\ born' = born + 1 /\ trap' = trap
  /\ ref' = [ref EXCEPT ![v] = node]
  /\ rewound' = [rewound EXCEPT ![v] = FALSE]
  /\ 1..brk' = 1..brk \cup {head, node}

LEMMA NewEffect ==
    ASSUME IInv, NEW v \in Vars, New(v)
    PROVE  \E t, head, node, prev : /\ Places(v, t, head, node, prev)
                                    /\ Fresh(t, head, node, prev)
                                    /\ Behind(prev, node)
                                    /\ Grown(v, t, head, node)
<1>1. PICK t : t = VarType[v]
  OBVIOUS
<1>2. PICK head, node : /\ head = IF Created(t) THEN lists[t].sentinel ELSE brk + 1
                        /\ node = IF Created(t) THEN brk + 1 ELSE brk + 2
  OBVIOUS
<1>3. PICK prev : prev = IF lists[t].tail = 0 THEN head ELSE lists[t].tail
  OBVIOUS
<1>4. PICK held : held = IF Created(t) THEN nodes
                         ELSE [nodes EXCEPT ![head] =
                                 [Zeroed EXCEPT !.list = t, !.sentinel = TRUE]]
  OBVIOUS
<1>5. /\ born < MaxNews
      /\ nodes' = [held EXCEPT
           ![node] = [Zeroed EXCEPT !.list = t, !.prev = prev, !.serial = born + 1],
           ![prev].next = node]
      /\ lists' = [lists EXCEPT ![t] = [sentinel |-> head, tail |-> node]]
      /\ brk' = node /\ born' = born + 1 /\ trap' = trap
      /\ ref' = [ref EXCEPT ![v] = node] /\ rewound' = [rewound EXCEPT ![v] = FALSE]
  BY <1>1, <1>2, <1>3, <1>4 DEF New, Store
<1>6. /\ t \in Types /\ NumTypes \in Nat /\ MaxNews \in Nat /\ born \in Nat /\ brk \in Nat
      /\ 1..brk \subseteq Addresses
  BY <1>1, Bounds
<1>7. brk + 1 \in Addresses /\ (~Created(t) => brk + 2 \in Addresses)
  BY <1>5, <1>6, Room
<1>8. Created(t) => /\ lists[t].sentinel \in Linked(t)
                    /\ (lists[t].tail # 0 => lists[t].tail \in Linked(t))
  BY <1>6, WhatReadersFind DEF IInv, Threaded
<1>9. ~Created(t) => lists[t].tail = 0
  BY <1>6 DEF IInv, AddressesInOrder
<1>10. /\ head \in Addresses /\ node \in Addresses /\ prev \in Addresses
       /\ node \notin 1..brk /\ prev # node /\ head # node
       /\ Created(t) => prev \in Linked(t) /\ head \in 1..brk /\ prev \in 1..brk
       /\ ~Created(t) => prev = head /\ head \notin 1..brk
  BY <1>2, <1>3, <1>6, <1>7, <1>8, <1>9 DEF Linked
<1>11. /\ nodes \in [Addresses -> Header]
       /\ [Zeroed EXCEPT !.list = t, !.prev = prev, !.serial = born + 1] \in Header
       /\ [Zeroed EXCEPT !.list = t, !.sentinel = TRUE] \in Header
  <2>1. t \in 0..NumTypes /\ born + 1 \in 0..MaxNews /\ 0 \in 0..MaxNews
    BY <1>5, <1>6 DEF Types
  <2>2. Zeroed \in Header
    BY <1>6 DEF Zeroed, Header
  <2>3. [Zeroed EXCEPT !.list = t, !.prev = prev, !.serial = born + 1] \in Header
    BY <1>10, <2>1, <2>2 DEF Header
  <2>4. [Zeroed EXCEPT !.list = t, !.sentinel = TRUE] \in Header
    BY <2>1, <2>2 DEF Header
  <2> QED BY <2>3, <2>4 DEF IInv, TypesHold
<1>12. /\ held \in [Addresses -> Header]
       /\ ~Created(t) => held[head] = [Zeroed EXCEPT !.list = t, !.sentinel = TRUE]
       /\ \A q \in Addresses : q # head \/ Created(t) => held[q] = nodes[q]
  BY <1>4, <1>10, <1>11
<1>13. nodes' = [[held EXCEPT
                   ![node] = [Zeroed EXCEPT !.list = t, !.prev = prev, !.serial = born + 1]]
                 EXCEPT ![prev] = [held[prev] EXCEPT !.next = node]]
  BY <1>5, <1>10, <1>12
<1>14. /\ nodes'[node] = [Zeroed EXCEPT !.list = t, !.prev = prev, !.serial = born + 1]
       /\ nodes'[prev] = [held[prev] EXCEPT !.next = node]
       /\ \A q \in Addresses : q # node /\ q # prev => nodes'[q] = held[q]
       /\ held[prev] \in Header /\ [held[prev] EXCEPT !.next = node] \in Header
       /\ nodes' \in [Addresses -> Header]
  <2>1. held[prev] \in Header /\ [held[prev] EXCEPT !.next = node] \in Header
    BY <1>10, <1>12 DEF Header
  <2> QED BY <1>10, <1>11, <1>12, <1>13, <2>1
<1>15. ~Created(t) => nodes'[head] = [Zeroed EXCEPT !.list = t, !.sentinel = TRUE, !.next = node]
  BY <1>10, <1>12, <1>14
<1>16. ASSUME NEW q \in 1..brk
       PROVE  /\ nodes'[q].list = nodes[q].list
              /\ nodes'[q].prev = nodes[q].prev
              /\ nodes'[q].next = IF q = prev THEN node ELSE nodes[q].next
              /\ nodes'[q].deleted = nodes[q].deleted
              /\ nodes'[q].sentinel = nodes[q].sentinel
              /\ nodes'[q].serial = nodes[q].serial
              /\ nodes'[q].link = nodes[q].link
  <2>1. held[q] = nodes[q] /\ q \in Addresses /\ q # node
    BY <1>6, <1>10, <1>12
  <2>2. CASE q = prev
    <3>1. nodes'[q] = [nodes[q] EXCEPT !.next = node] /\ nodes[q] \in Header
      BY <1>14, <2>1, <2>2
    <3> QED BY <2>2, <3>1 DEF Header
  <2>3. CASE q # prev
    <3>1. nodes'[q] = nodes[q]
      BY <1>14, <2>1, <2>3
    <3> QED BY <2>3, <3>1
  <2> QED BY <2>2, <2>3
<1>17. 1..brk' = 1..brk \cup {head, node}
  BY <1>2, <1>5, <1>6, <1>10
<1>18. Places(v, t, head, node, prev)
  BY <1>1, <1>2, <1>3, <1>6, <1>10 DEF Places
<1>19. Fresh(t, head, node, prev)
  BY <1>14, <1>15 DEF Fresh
<1>20. Behind(prev, node)
  BY <1>16 DEF Behind
<1>21. Grown(v, t, head, node)
  BY <1>5, <1>14, <1>17 DEF Grown
<1> QED BY <1>18, <1>19, <1>20, <1>21

LEMMA NewIInv == ASSUME IInv, NEW v \in Vars, New(v) PROVE IInv'
<1>0. PICK t, head, node, prev : /\ Places(v, t, head, node, prev)
                                  /\ Fresh(t, head, node, prev)
                                  /\ Behind(prev, node)
                                  /\ Grown(v, t, head, node)
  BY NewEffect
<1>1. /\ t \in Types /\ t = VarType[v]
      /\ head \in Addresses /\ node \in Addresses /\ prev \in Addresses
      /\ head = IF Created(t) THEN lists[t].sentinel ELSE brk + 1
      /\ node = IF Created(t) THEN brk + 1 ELSE brk + 2
      /\ prev = IF lists[t].tail = 0 THEN head ELSE lists[t].tail
      /\ IF Created(t) THEN prev \in Linked(t) ELSE prev = head
  BY <1>0 DEF Places
<1>a. /\ born < MaxNews /\ nodes' \in [Addresses -> Header]
      /\ lists' = [lists EXCEPT ![t] = [sentinel |-> head, tail |-> node]]
      /\ brk' = node /\ born' = born + 1
      /\ ref' = [ref EXCEPT ![v] = node]
      /\ rewound' = [rewound EXCEPT ![v] = FALSE]
  BY <1>0 DEF Grown
<1>b. \A p : p \in 1..brk' <=> p \in 1..brk \/ p = head \/ p = node
  <2>1. 1..brk' = 1..brk \cup {head, node}
    BY <1>0 DEF Grown
  <2> QED BY ONLY <2>1
<1>c. \A q \in 1..brk : /\ nodes'[q].list = nodes[q].list
                        /\ nodes'[q].prev = nodes[q].prev
                        /\ nodes'[q].next = IF q = prev THEN node ELSE nodes[q].next
                        /\ nodes'[q].deleted = nodes[q].deleted
                        /\ nodes'[q].sentinel = nodes[q].sentinel
                        /\ nodes'[q].serial = nodes[q].serial
                        /\ nodes'[q].link = nodes[q].link
  BY <1>0 DEF Behind
<1>2. /\ NumTypes \in Nat /\ MaxNews \in Nat /\ born \in Nat /\ brk \in Nat
      /\ 1..brk \subseteq Addresses
      /\ lists \in [Types -> [sentinel : {0} \cup Addresses, tail : {0} \cup Addresses]]
  BY Bounds DEF IInv, TypesHold
<1>3. /\ nodes'[node].list = t /\ nodes'[node].prev = prev /\ nodes'[node].next = 0
      /\ ~nodes'[node].deleted /\ ~nodes'[node].sentinel
      /\ nodes'[node].link = 0 /\ nodes'[node].serial = born + 1
  BY <1>0 DEF Fresh, Zeroed
<1>4. ~Created(t) => /\ nodes'[head].list = t /\ nodes'[head].prev = 0
                     /\ nodes'[head].next = node
                     /\ ~nodes'[head].deleted /\ nodes'[head].sentinel
                     /\ nodes'[head].link = 0 /\ nodes'[head].serial = 0
  BY <1>0 DEF Fresh, Zeroed
<1>5. /\ lists'[t].sentinel = head /\ lists'[t].tail = node
      /\ \A u \in Types : u # t => lists'[u] = lists[u]
  BY <1>1, <1>2, <1>a
<1>6. /\ Created(t) => head \in 1..brk /\ head \in Linked(t) /\ nodes[head].sentinel
      /\ ~Created(t) => head = brk + 1 /\ Linked(t) = {}
      /\ head # 0 /\ node # 0 /\ head < node /\ brk < node
      /\ head \in Nat /\ node \in Nat /\ head \in 1..brk' /\ node \in 1..brk'
  <2>1. ~Created(t) => Linked(t) = {}
    BY <1>1 DEF Linked, IInv, AddressesInOrder
  <2>2. Created(t) => head \in Linked(t) /\ nodes[head].sentinel
    BY <1>1, WhatReadersFind
  <2>3. Created(t) => head \in 1..brk
    BY <2>2 DEF Linked
  <2> QED BY <1>1, <1>2, <1>b, <2>1, <2>2, <2>3
<1>7. \A m : m \in Linked(t)' <=> m \in Linked(t) \/ m = head \/ m = node
  <2>1. ASSUME NEW m \in 1..brk PROVE m \in Linked(t)' <=> m \in Linked(t)
    BY <1>b, <1>c, <2>1 DEF Linked
  <2>2. head \in Linked(t)' /\ node \in Linked(t)'
    <3>1. node \in Linked(t)'
      BY <1>3, <1>6 DEF Linked
    <3>2. CASE Created(t)
      BY <1>6, <2>1, <3>1, <3>2
    <3>3. CASE ~Created(t)
      BY <1>4, <1>6, <3>1, <3>3 DEF Linked
    <3> QED BY <3>1, <3>2, <3>3
  <2>3. \A m : m \in Linked(t)' => m \in 1..brk'
    BY DEF Linked
  <2>4. \A m : m \in Linked(t) => m \in 1..brk
    BY DEF Linked
  <2> QED BY <1>b, <2>1, <2>2, <2>3, <2>4
<1>8. \A u \in Types : u # t => Linked(u)' = Linked(u)
  <2>1. ASSUME NEW u \in Types, u # t, NEW m PROVE m \in Linked(u)' <=> m \in Linked(u)
    <3>1. CASE m \in 1..brk
      BY <1>b, <1>c, <3>1 DEF Linked
    <3>2. CASE m \notin 1..brk
      <4>1. nodes'[node].list = t /\ (~Created(t) => nodes'[head].list = t)
        BY <1>3, <1>4
      <4>2. m \in 1..brk' => nodes'[m].list = t
        BY <1>b, <1>6, <3>2, <4>1
      <4> QED BY <2>1, <3>2, <4>2 DEF Linked
    <3> QED BY <3>1, <3>2
  <2> QED BY <2>1
<1>9. \A u \in Types : Created(u)' <=> Created(u) \/ u = t
  BY <1>5, <1>6 DEF Created
<1>10. TypesHold'
  <2>1. lists' \in [Types -> [sentinel : {0} \cup Addresses, tail : {0} \cup Addresses]]
    BY <1>1, <1>2, <1>a
  <2>2. born' \in 0..MaxNews /\ brk' \in {0} \cup Addresses
    BY <1>1, <1>2, <1>a
  <2>3. ref' \in [Vars -> {0} \cup Addresses] /\ rewound' \in [Vars -> BOOLEAN]
    BY <1>1, <1>a DEF IInv, TypesHold
  <2> QED BY <1>a, <2>1, <2>2, <2>3 DEF TypesHold
<1>11. AddressesInOrder'
  <2>1. brk' = born' + Cardinality(CreatedTypes)'
    <3>1. CreatedTypes' = CreatedTypes \cup {t} /\ (Created(t) => CreatedTypes' = CreatedTypes)
      BY <1>1, <1>9 DEF CreatedTypes
    <3>2. brk = born + Cardinality(CreatedTypes) /\ Cardinality(CreatedTypes) \in Nat
      BY Bounds DEF IInv, AddressesInOrder
    <3>3. ~Created(t) => Cardinality(CreatedTypes \cup {t}) = Cardinality(CreatedTypes) + 1
      BY <1>1, <1>a, Room
    <3>4. CASE Created(t)
      <4>1. Cardinality(CreatedTypes)' = Cardinality(CreatedTypes)
        BY <3>1, <3>4
      <4> QED BY <1>1, <1>2, <1>a, <3>2, <3>4, <4>1
    <3>5. CASE ~Created(t)
      <4>1. Cardinality(CreatedTypes)' = Cardinality(CreatedTypes) + 1
        BY <3>1, <3>3, <3>5
      <4> QED BY <1>1, <1>2, <1>a, <3>2, <3>5, <4>1
    <3> QED BY <3>4, <3>5
  <2>2. ASSUME NEW p \in 1..brk'
        PROVE  /\ nodes'[p].list \in Types
               /\ nodes'[p].sentinel <=> p = lists'[nodes'[p].list].sentinel
               /\ nodes'[p].sentinel => nodes'[p].serial = 0 /\ ~nodes'[p].deleted /\ nodes'[p].prev = 0
               /\ ~nodes'[p].sentinel => nodes'[p].serial \in 1..born'
               /\ Created(nodes[p].list)'
               /\ lists'[nodes'[p].list].sentinel <= p
    <3>1. CASE p = node
      <4>1. nodes'[p].list = t /\ ~nodes'[p].sentinel /\ nodes'[p].serial \in 1..born'
        BY <1>2, <1>3, <1>a, <3>1
      <4> QED BY <1>1, <1>5, <1>6, <1>9, <3>1, <4>1
    <3>2. CASE p = head /\ ~Created(t)
      <4>1. /\ nodes'[p].list = t /\ nodes'[p].sentinel /\ nodes'[p].serial = 0
            /\ ~nodes'[p].deleted /\ nodes'[p].prev = 0
        BY <1>4, <3>2
      <4> QED BY <1>1, <1>5, <1>6, <1>9, <3>2, <4>1
    <3>3. CASE p \in 1..brk
      <4>1. /\ nodes[p].list \in Types
            /\ nodes[p].sentinel <=> p = lists[nodes[p].list].sentinel
            /\ nodes[p].sentinel => nodes[p].serial = 0 /\ ~nodes[p].deleted /\ nodes[p].prev = 0
            /\ ~nodes[p].sentinel => nodes[p].serial \in 1..born
            /\ Created(nodes[p].list) /\ lists[nodes[p].list].sentinel <= p
        BY <3>3 DEF IInv, AddressesInOrder
      <4>2. PICK u : u = nodes[p].list
        OBVIOUS
      <4>3. u = t => Created(t)
        BY <4>1, <4>2
      <4>4. lists'[u].sentinel = lists[u].sentinel /\ Created(u)'
        BY <1>1, <1>5, <1>9, <4>1, <4>2, <4>3
      <4>5. /\ nodes'[p].list = u /\ nodes'[p].prev = nodes[p].prev
            /\ (nodes'[p].deleted = nodes[p].deleted) /\ (nodes'[p].sentinel = nodes[p].sentinel)
            /\ nodes'[p].serial = nodes[p].serial
        BY <1>c, <3>3, <4>2
      <4>6. 1..born \subseteq 1..born'
        BY <1>2, <1>a
      <4> QED BY <4>1, <4>2, <4>4, <4>5, <4>6
    <3> QED BY <1>b, <1>6, <3>1, <3>2, <3>3
  <2>3. ASSUME NEW p \in 1..brk', NEW q \in 1..brk',
               ~nodes'[p].sentinel, ~nodes'[q].sentinel, p < q
        PROVE  nodes'[p].serial < nodes'[q].serial
    <3>1. p \in 1..brk
      <4>1. p # head \/ Created(t)
        BY <1>4, <2>3
      <4>2. p # node
        BY <1>1, <1>2, <1>6, <1>b, <2>3
      <4> QED BY <1>6, <1>b, <4>1, <4>2
    <3>2. ~nodes[p].sentinel /\ nodes'[p].serial = nodes[p].serial /\ nodes[p].serial \in 1..born
      BY <1>c, <2>3, <3>1 DEF IInv, AddressesInOrder
    <3>3. CASE q = node
      BY <1>2, <1>3, <3>2, <3>3
    <3>4. CASE q \in 1..brk
      <4>1. ~nodes[q].sentinel /\ nodes'[q].serial = nodes[q].serial
        BY <1>c, <2>3, <3>4
      <4> QED BY <2>3, <3>1, <3>2, <3>4, <4>1 DEF IInv, AddressesInOrder
    <3>5. q # head \/ Created(t)
      BY <1>4, <2>3
    <3> QED BY <1>6, <1>b, <3>3, <3>4, <3>5
  <2>4. ASSUME NEW k \in 1..born' PROVE \E p \in 1..brk' : nodes'[p].serial = k
    <3>1. CASE k = born + 1
      BY <1>3, <1>6, <3>1
    <3>2. CASE k \in 1..born
      <4>1. PICK p \in 1..brk : nodes[p].serial = k
        BY <3>2 DEF IInv, AddressesInOrder
      <4>2. p \in 1..brk' /\ nodes'[p].serial = k
        BY <1>b, <1>c, <4>1
      <4> QED BY <4>2
    <3> QED BY <1>2, <1>a, <3>1, <3>2, SMTT(30)
  <2>5. ASSUME NEW u \in Types
        PROVE  IF Created(u)' THEN /\ lists'[u].sentinel \in 1..brk'
                                   /\ nodes'[lists'[u].sentinel].list = u
               ELSE lists'[u].tail = 0
    <3>1. IF Created(u) THEN lists[u].sentinel \in 1..brk /\ nodes[lists[u].sentinel].list = u
          ELSE lists[u].tail = 0
      BY DEF IInv, AddressesInOrder
    <3>2. CASE u = t
      <4>1. head \in 1..brk' /\ nodes'[head].list = t
        BY <1>1, <1>4, <1>6, <1>c, <3>1, <3>2
      <4> QED BY <1>5, <1>9, <3>2, <4>1
    <3>3. CASE u # t
      <4>1. lists'[u] = lists[u] /\ (Created(u)' <=> Created(u))
        BY <1>5, <1>9, <3>3
      <4> QED BY <1>b, <1>c, <3>1, <4>1
    <3> QED BY <3>2, <3>3
  <2>6. \A p \in 1..brk' :
               /\ nodes'[p].list \in Types
               /\ nodes'[p].sentinel <=> p = lists'[nodes'[p].list].sentinel
               /\ nodes'[p].sentinel => nodes'[p].serial = 0 /\ ~nodes'[p].deleted /\ nodes'[p].prev = 0
               /\ ~nodes'[p].sentinel => nodes'[p].serial \in 1..born'
               /\ Created(nodes[p].list)'
               /\ lists'[nodes'[p].list].sentinel <= p
    BY <2>2
  <2>7. \A p, q \in 1..brk' : ~nodes'[p].sentinel /\ ~nodes'[q].sentinel /\ p < q
                                => nodes'[p].serial < nodes'[q].serial
    BY <2>3
  <2> QED BY <2>1, <2>4, <2>5, <2>6, <2>7 DEF AddressesInOrder
<1>12. Threaded'
  <2>0. \A m \in Linked(t) : m \in 1..brk /\ m \in Nat /\ m <= prev /\ Created(t)
    <3>1. \A m \in Linked(t) : m \in 1..brk /\ m \in Nat
      BY <1>2 DEF Linked
    <3>2. CASE lists[t].tail # 0
      BY <1>1, <1>6, <3>1, <3>2 DEF IInv, Threaded
    <3>3. CASE lists[t].tail = 0
      <4>1. \A m \in Linked(t) : nodes[m].sentinel /\ nodes[m].list = t
        BY <3>3, <1>1 DEF IInv, Threaded, Linked
      <4>2. \A m \in Linked(t) : m = lists[t].sentinel /\ Created(t)
        BY <3>1, <4>1 DEF IInv, AddressesInOrder
      <4> QED BY <1>1, <3>1, <3>3, <4>2
    <3> QED BY <3>2, <3>3
  <2>p. prev \in Nat /\ prev < node /\ prev \in Linked(t)' /\ prev \in 1..brk'
    <3>1. CASE Created(t)
      BY <1>1, <1>2, <1>6, <1>7, <1>b, <2>0, <3>1
    <3>2. CASE ~Created(t)
      BY <1>1, <1>2, <1>6, <1>7, <3>2
    <3> QED BY <3>1, <3>2
  <2>m. \A m \in Linked(t)' : m \in Nat /\ (m = node \/ m = prev \/ (m \in Linked(t) /\ m < prev))
    <3> TAKE m \in Linked(t)'
    <3>1. CASE m \in Linked(t)
      <4>1. m \in Nat /\ prev \in Nat /\ m <= prev
        BY <2>0, <2>p, <3>1
      <4> QED BY <3>1, <4>1
    <3>2. CASE m = head /\ ~Created(t)
      BY <1>1, <1>6, <3>2
    <3>3. CASE m = node
      BY <1>6, <3>3
    <3> QED BY <1>6, <1>7, <3>1, <3>2, <3>3
  <2>2. ASSUME NEW u \in Types, NEW p \in Linked(u)', NEW r, r = nodes'[p].next, NEW q, q = nodes'[p].prev
        PROVE  IsNext(u, p, r)' /\ (~nodes'[p].sentinel => IsPrevious(u, p, q)')
    <3>1. CASE u # t
      <4>1. p \in Linked(u) /\ Linked(u)' = Linked(u) /\ p \in 1..brk /\ nodes[p].list = u
        BY <1>8, <3>1 DEF Linked
      <4>2. p # prev
        <5>1. Created(t) => nodes[prev].list = t
          BY <1>1 DEF Linked
        <5>2. ~Created(t) => prev = brk + 1
          BY <1>1
        <5> QED BY <1>2, <3>1, <4>1, <5>1, <5>2
      <4>3. r = nodes[p].next /\ q = nodes[p].prev /\ (nodes'[p].sentinel = nodes[p].sentinel)
        BY <1>c, <2>2, <4>1, <4>2
      <4>4. IsNext(u, p, r) /\ (~nodes[p].sentinel => IsPrevious(u, p, q))
        BY <4>1, <4>3 DEF IInv, Threaded
      <4> QED BY <4>1, <4>3, <4>4 DEF IsNext, IsPrevious
    <3>2. CASE u = t /\ p = node
      <4>1. r = 0 /\ q = prev
        BY <1>3, <2>2, <3>2
      <4>2. \A m \in Linked(t)' : m <= prev \/ node <= m
        BY <1>6, <2>p, <2>m
      <4>3. \A m \in Linked(t)' : m <= node
        BY <1>6, <2>p, <2>m
      <4> QED BY <2>p, <3>2, <4>1, <4>2, <4>3 DEF IsNext, IsPrevious
    <3>3. CASE u = t /\ p = prev
      <4>1. r = node
        <5>1. CASE Created(t)
          BY <1>1, <1>c, <2>0, <2>2, <3>3, <5>1
        <5>2. CASE ~Created(t)
          BY <1>1, <1>4, <2>2, <3>3, <5>2
        <5> QED BY <5>1, <5>2
      <4>2. node \in Linked(t)' /\ \A m \in Linked(t)' : m <= p \/ node <= m
        BY <1>6, <1>7, <2>p, <2>m, <3>3
      <4>3. IsNext(u, p, r)'
        BY <2>p, <3>3, <4>1, <4>2 DEF IsNext
      <4>4. ASSUME ~nodes'[p].sentinel PROVE IsPrevious(u, p, q)'
        <5>1. Created(t) /\ p \in Linked(t) /\ p \in 1..brk
          BY <1>1, <1>4, <2>0, <3>3, <4>4
        <5>2. ~nodes[p].sentinel /\ q = nodes[p].prev
          BY <1>c, <2>2, <4>4, <5>1
        <5>3. IsPrevious(t, p, q)
          BY <1>1, <5>1, <5>2 DEF IInv, Threaded
        <5>4. \A m \in Linked(t)' : m <= q \/ p <= m
          BY <1>6, <2>0, <2>p, <2>m, <3>3, <5>3 DEF IsPrevious
        <5> QED BY <1>7, <3>3, <5>3, <5>4 DEF IsPrevious
      <4> QED BY <4>3, <4>4
    <3>4. CASE u = t /\ p # node /\ p # prev
      <4>1. p \in Linked(t) /\ Created(t) /\ p \in 1..brk /\ p < prev /\ prev \in Linked(t) /\ p \in Nat
        BY <1>1, <2>0, <2>m, <3>4
      <4>2. q = nodes[p].prev /\ r = nodes[p].next /\ (nodes'[p].sentinel = nodes[p].sentinel)
        BY <1>c, <2>2, <3>4, <4>1
      <4>3. IsNext(t, p, r) /\ (~nodes[p].sentinel => IsPrevious(t, p, q))
        BY <1>1, <4>1, <4>2 DEF IInv, Threaded
      <4>4. r \in Linked(t) /\ p < r /\ r <= prev
        BY <2>0, <2>p, <4>1, <4>3 DEF IsNext
      <4>5. \A m \in Linked(t)' : m \in Linked(t) \/ m = node
        BY <2>m, <4>1
      <4>6. \A m \in Linked(t)' : m <= p \/ r <= m
        <5>1. r \in Nat /\ r <= node
          BY <1>6, <2>0, <2>p, <4>4
        <5> QED BY <4>1, <4>3, <4>4, <4>5, <5>1 DEF IsNext
      <4>7. IsNext(t, p, r)'
        BY <1>7, <4>4, <4>6 DEF IsNext
      <4>8. ASSUME ~nodes[p].sentinel PROVE IsPrevious(t, p, q)'
        <5>1. IsPrevious(t, p, q) /\ p <= node
          BY <1>6, <2>p, <4>1, <4>3, <4>8
        <5>2. \A m \in Linked(t)' : m <= q \/ p <= m
          BY <4>5, <5>1 DEF IsPrevious
        <5> QED BY <1>7, <5>1, <5>2 DEF IsPrevious
      <4> QED BY <3>4, <4>2, <4>7, <4>8
    <3> QED BY <3>1, <3>2, <3>3, <3>4
  <2>3. ASSUME NEW u \in Types
        PROVE  IF lists'[u].tail = 0 THEN \A p \in Linked(u)' : nodes'[p].sentinel
               ELSE /\ lists'[u].tail \in Linked(u)' /\ ~nodes'[lists'[u].tail].sentinel
                    /\ \A p \in Linked(u)' : p <= lists'[u].tail
    <3>1. CASE u = t
      <4>1. \A m \in Linked(t)' : m <= node
        BY <1>6, <2>p, <2>m
      <4> QED BY <1>3, <1>5, <1>6, <1>7, <3>1, <4>1
    <3>2. CASE u # t
      <4>1. Linked(u)' = Linked(u) /\ lists'[u].tail = lists[u].tail
        BY <1>5, <1>8, <3>2
      <4>2. \A m \in Linked(u) : nodes'[m].sentinel = nodes[m].sentinel
        BY <1>c DEF Linked
      <4> QED BY <4>1, <4>2 DEF IInv, Threaded
    <3> QED BY <3>1, <3>2
  <2>4. ASSUME NEW u \in Types, NEW p \in Linked(u)'
        PROVE  /\ IsNext(u, p, nodes[p].next)'
               /\ ~nodes'[p].sentinel => IsPrevious(u, p, nodes[p].prev)'
    BY <2>2 DEF IsNext, IsPrevious
  <2> QED BY <2>3, <2>4 DEF Threaded
<1>13. Pointers'
  <2>1. \A u, q : PointsAt(u, q) => PointsAt(u, q)'
    BY <1>b, <1>c DEF PointsAt
  <2>2. ASSUME NEW u \in Vars PROVE PointsAt(VarType[u], ref[u])'
    <3>1. CASE u = v
      <4>1. ref'[u] = node
        BY <1>a, <3>1 DEF IInv, TypesHold
      <4> QED BY <1>1, <1>3, <1>6, <3>1, <4>1 DEF PointsAt
    <3>2. CASE u # v
      <4>1. ref'[u] = ref[u] /\ PointsAt(VarType[u], ref[u])
        BY <1>a, <3>2 DEF IInv, TypesHold, Pointers
      <4> QED BY <1>b, <1>c, <4>1 DEF PointsAt
    <3> QED BY <3>1, <3>2
  <2>3. ASSUME NEW p \in 1..brk' PROVE PointsAt(nodes[p].list, nodes[p].link)'
    <3>1. CASE p \in 1..brk
      <4>1. PointsAt(nodes[p].list, nodes[p].link)
        BY <3>1 DEF IInv, Pointers
      <4>2. nodes'[p].list = nodes[p].list /\ nodes'[p].link = nodes[p].link
        BY <1>c, <3>1
      <4> QED BY <1>b, <1>c, <4>1, <4>2 DEF PointsAt
    <3>2. CASE p \notin 1..brk
      <4>1. nodes'[p].link = 0
        BY <1>3, <1>4, <1>6, <1>b, <3>2, SMTT(30)
      <4> QED BY <4>1 DEF PointsAt
    <3> QED BY <3>1, <3>2
  <2> QED BY <2>2, <2>3 DEF Pointers
<1> QED BY <1>10, <1>11, <1>12, <1>13 DEF IInv

-----------------------------------------------------------------------------
(* Delete.                                                                 *)

\* What unlink does to the nodes.
LEMMA UnlinkEffect ==
    ASSUME IInv, NEW p \in 1..brk, Unlink(p),
           NEW before, before = nodes[p].prev, NEW after, after = nodes[p].next
    PROVE  /\ nodes' \in [Addresses -> Header]
           /\ UNCHANGED <<brk, born, trap>>
           /\ \A q \in 1..brk : /\ nodes'[q].list = nodes[q].list
                                /\ nodes'[q].prev = IF q = after THEN before ELSE nodes[q].prev
                                /\ nodes'[q].next = IF q = before THEN after ELSE nodes[q].next
                                /\ nodes'[q].deleted <=> nodes[q].deleted \/ q = p
                                /\ nodes'[q].sentinel = nodes[q].sentinel
                                /\ nodes'[q].serial = nodes[q].serial
                                /\ nodes'[q].link = nodes[q].link
<1>1. nodes \in [Addresses -> Header] /\ 1..brk \subseteq Addresses
  BY Bounds DEF IInv, TypesHold
<1>2. /\ nodes' = [q \in Addresses |->
           [nodes[q] EXCEPT
              !.next = IF q = nodes[p].prev THEN nodes[p].next ELSE @,
              !.prev = IF q = nodes[p].next THEN nodes[p].prev ELSE @,
              !.deleted = IF q = p THEN TRUE ELSE @]]
      /\ UNCHANGED <<brk, born, trap>>
  BY DEF Unlink
<1>3. ASSUME NEW q \in Addresses
      PROVE  /\ nodes'[q] \in Header
             /\ nodes'[q].list = nodes[q].list
             /\ nodes'[q].prev = IF q = after THEN before ELSE nodes[q].prev
             /\ nodes'[q].next = IF q = before THEN after ELSE nodes[q].next
             /\ nodes'[q].deleted <=> nodes[q].deleted \/ q = p
             /\ nodes'[q].sentinel = nodes[q].sentinel
             /\ nodes'[q].serial = nodes[q].serial
             /\ nodes'[q].link = nodes[q].link
  <2>1. nodes[q] \in Header /\ nodes[p] \in Header
    BY <1>1
  <2>2. PICK x, y, z : /\ x = IF q = before THEN after ELSE nodes[q].next
                       /\ y = IF q = after THEN before ELSE nodes[q].prev
                       /\ z = IF q = p THEN TRUE ELSE nodes[q].deleted
    OBVIOUS
  <2>3. x \in {0} \cup Addresses /\ y \in {0} \cup Addresses /\ z \in BOOLEAN
    BY <2>1, <2>2 DEF Header
  <2>4. nodes'[q] = [nodes[q] EXCEPT !.next = x, !.prev = y, !.deleted = z]
    BY <1>2, <2>2
  <2>5. nodes'[q] \in Header /\ nodes'[q].list = nodes[q].list /\ nodes'[q].prev = y
        /\ nodes'[q].next = x /\ nodes'[q].deleted = z
        /\ (nodes'[q].sentinel = nodes[q].sentinel)
        /\ nodes'[q].serial = nodes[q].serial /\ nodes'[q].link = nodes[q].link
    BY <2>1, <2>3, <2>4 DEF Header
  <2>6. nodes'[q].deleted <=> nodes[q].deleted \/ q = p
    BY <2>2, <2>5
  <2> QED BY <2>2, <2>5, <2>6
<1>4. nodes' \in [Addresses -> Header]
  BY <1>2, <1>3
<1> QED BY <1>1, <1>2, <1>3, <1>4

\* The neighbours of a live instance.
LEMMA Neighbours ==
    ASSUME IInv, NEW p \in 1..brk, DeleteFault(p) = "none", NEW t, t = nodes[p].list
    PROVE  /\ t \in Types /\ p \in Linked(t) /\ Linked(t) \subseteq 1..brk
           /\ ~nodes[p].sentinel /\ ~nodes[p].deleted
           /\ IsNext(t, p, nodes[p].next) /\ IsPrevious(t, p, nodes[p].prev)
           /\ nodes[p].prev # 0 /\ nodes[p].prev \in 1..brk /\ nodes[p].list = nodes[nodes[p].prev].list
<1>1. t \in Types /\ ~nodes[p].sentinel /\ ~nodes[p].deleted
  BY DEF DeleteFault, IInv, AddressesInOrder
<1>2. p \in Linked(t) /\ Linked(t) \subseteq 1..brk
  BY <1>1 DEF Linked
<1>3. IsNext(t, p, nodes[p].next) /\ IsPrevious(t, p, nodes[p].prev)
  BY <1>1, <1>2 DEF IInv, Threaded
<1>4. nodes[p].prev \in Linked(t)
  BY <1>3 DEF IsPrevious
<1>5. nodes[p].prev \in 1..brk /\ nodes[nodes[p].prev].list = t
  BY <1>4 DEF Linked
<1>6. nodes[p].prev # 0
  BY <1>5, Bounds
<1> QED BY <1>1, <1>2, <1>3, <1>5, <1>6

\* Unlinking a live instance leaves the list of its Type threaded.
LEMMA UnlinkKeeps ==
    ASSUME IInv, NEW p \in 1..brk, DeleteFault(p) = "none", Unlink(p)
    PROVE  /\ AddressesInOrder' /\ Threaded'
           /\ nodes' \in [Addresses -> Header]
           /\ lists' \in [Types -> [sentinel : {0} \cup Addresses, tail : {0} \cup Addresses]]
           /\ \A u \in Types : Linked(u)' = Linked(u) \ {p}
<1>0. PICK t, before, after : t = nodes[p].list /\ before = nodes[p].prev /\ after = nodes[p].next
  OBVIOUS
<1>1. /\ t \in Types /\ p \in Linked(t) /\ Linked(t) \subseteq 1..brk
      /\ ~nodes[p].sentinel /\ ~nodes[p].deleted
      /\ IsNext(t, p, after) /\ IsPrevious(t, p, before)
      /\ before # 0 /\ before \in 1..brk
  BY <1>0, Neighbours
<1>a. /\ nodes' \in [Addresses -> Header]
      /\ brk' = brk /\ born' = born
  BY UnlinkEffect
<1>b. \A q \in 1..brk : /\ nodes'[q].list = nodes[q].list
                        /\ nodes'[q].prev = IF q = after THEN before ELSE nodes[q].prev
                        /\ nodes'[q].next = IF q = before THEN after ELSE nodes[q].next
                        /\ nodes'[q].deleted <=> nodes[q].deleted \/ q = p
                        /\ nodes'[q].sentinel = nodes[q].sentinel
                        /\ nodes'[q].serial = nodes[q].serial
  BY <1>0, UnlinkEffect
<1>2. /\ brk \in Nat /\ 1..brk \subseteq Addresses
      /\ lists \in [Types -> [sentinel : {0} \cup Addresses, tail : {0} \cup Addresses]]
  BY Bounds DEF IInv, TypesHold
<1>3. PICK back : back = IF nodes[before].sentinel THEN 0 ELSE before
  OBVIOUS
<1>4. lists' = IF lists[t].tail = p THEN [lists EXCEPT ![t].tail = back] ELSE lists
  BY <1>0, <1>1, <1>3 DEF Unlink, TailWithout
<1>5. /\ lists' \in [Types -> [sentinel : {0} \cup Addresses, tail : {0} \cup Addresses]]
      /\ \A u \in Types : lists'[u].sentinel = lists[u].sentinel
      /\ \A u \in Types : u # t => lists'[u] = lists[u]
      /\ lists'[t].tail = IF lists[t].tail = p THEN back ELSE lists[t].tail
  <2>1. back \in {0} \cup Addresses
    BY <1>1, <1>2, <1>3
  <2>2. CASE lists[t].tail = p
    <3>1. lists[t] \in [sentinel : {0} \cup Addresses, tail : {0} \cup Addresses]
      BY <1>1, <1>2
    <3>2. lists' = [lists EXCEPT ![t] = [lists[t] EXCEPT !.tail = back]]
      BY <1>4, <2>2
    <3>3. /\ [lists[t] EXCEPT !.tail = back] \in [sentinel : {0} \cup Addresses, tail : {0} \cup Addresses]
          /\ [lists[t] EXCEPT !.tail = back].sentinel = lists[t].sentinel
          /\ [lists[t] EXCEPT !.tail = back].tail = back
      BY <2>1, <3>1
    <3> QED BY <1>1, <1>2, <2>2, <3>2, <3>3
  <2>3. CASE lists[t].tail # p
    BY <1>2, <1>4, <2>3
  <2> QED BY <2>2, <2>3
<1>6. \A u \in Types : Linked(u)' = Linked(u) \ {p}
  <2>1. ASSUME NEW u \in Types, NEW m PROVE m \in Linked(u)' <=> m \in Linked(u) /\ m # p
    BY <1>a, <1>b DEF Linked
  <2> QED BY <2>1
<1>7. \A u : Created(u)' <=> Created(u)
  <2>1. ASSUME NEW u PROVE lists'[u].sentinel = lists[u].sentinel
    <3>1. CASE u \in Types
      BY <1>5, <3>1
    <3>2. CASE u \notin Types
      BY <1>1, <1>2, <1>4, <3>2
    <3> QED BY <3>1, <3>2
  <2> QED BY <2>1 DEF Created
<1>8. AddressesInOrder'
  <2>1. brk' = born' + Cardinality(CreatedTypes)'
    <3>1. CreatedTypes' = CreatedTypes
      BY <1>7 DEF CreatedTypes
    <3> QED BY <1>a, <3>1 DEF IInv, AddressesInOrder
  <2>2. ASSUME NEW q \in 1..brk'
        PROVE  /\ nodes'[q].list \in Types
               /\ nodes'[q].sentinel <=> q = lists'[nodes'[q].list].sentinel
               /\ nodes'[q].sentinel => nodes'[q].serial = 0 /\ ~nodes'[q].deleted /\ nodes'[q].prev = 0
               /\ ~nodes'[q].sentinel => nodes'[q].serial \in 1..born'
               /\ Created(nodes[q].list)' /\ lists'[nodes'[q].list].sentinel <= q
    <3>1. /\ nodes[q].list \in Types
          /\ nodes[q].sentinel <=> q = lists[nodes[q].list].sentinel
          /\ nodes[q].sentinel => nodes[q].serial = 0 /\ ~nodes[q].deleted /\ nodes[q].prev = 0
          /\ ~nodes[q].sentinel => nodes[q].serial \in 1..born
          /\ Created(nodes[q].list) /\ lists[nodes[q].list].sentinel <= q
      BY <1>a DEF IInv, AddressesInOrder
    <3>2. nodes[q].sentinel => q # after
      <4>1. ASSUME nodes[q].sentinel, q = after PROVE FALSE
        <5>1. after \in Linked(t) /\ p < after
          BY <1>1, <1>2, <1>a, <4>1 DEF IsNext
        <5>2. nodes[q].list = t /\ q = lists[t].sentinel
          BY <3>1, <4>1, <5>1 DEF Linked
        <5>3. lists[t].sentinel <= p /\ lists[t].sentinel = after
          BY <1>0, <4>1, <5>2 DEF IInv, AddressesInOrder
        <5> QED BY <1>2, <1>a, <4>1, <5>1, <5>3
      <4> QED BY <4>1
    <3>3. nodes[q].sentinel => q # p
      BY <1>1
    <3>4. /\ nodes'[q].list = nodes[q].list
          /\ nodes'[q].prev = IF q = after THEN before ELSE nodes[q].prev
          /\ nodes'[q].deleted <=> nodes[q].deleted \/ q = p
          /\ nodes'[q].sentinel = nodes[q].sentinel
          /\ nodes'[q].serial = nodes[q].serial
          /\ lists'[nodes[q].list].sentinel = lists[nodes[q].list].sentinel
          /\ Created(nodes[q].list)'
      <4>1. nodes'[q].list = nodes[q].list
        BY <1>a, <1>b
      <4>2. Created(nodes[q].list)'
        BY <1>7, <3>1, <4>1
      <4> QED BY <1>5, <1>a, <1>b, <3>1, <4>2
    <3> QED BY <1>a, <3>1, <3>2, <3>3, <3>4
  <2>3. \A q, r \in 1..brk' : ~nodes'[q].sentinel /\ ~nodes'[r].sentinel /\ q < r
                                => nodes'[q].serial < nodes'[r].serial
    BY <1>a, <1>b DEF IInv, AddressesInOrder
  <2>4. \A k \in 1..born' : \E q \in 1..brk' : nodes'[q].serial = k
    BY <1>a, <1>b DEF IInv, AddressesInOrder
  <2>5. ASSUME NEW u \in Types
        PROVE  IF Created(u)' THEN lists'[u].sentinel \in 1..brk' /\ nodes'[lists'[u].sentinel].list = u
               ELSE lists'[u].tail = 0
    <3>1. IF Created(u) THEN lists[u].sentinel \in 1..brk /\ nodes[lists[u].sentinel].list = u
          ELSE lists[u].tail = 0
      BY DEF IInv, AddressesInOrder
    <3>2. ~Created(u) => u # t
      BY <1>0 DEF IInv, AddressesInOrder
    <3> QED BY <1>5, <1>7, <1>a, <1>b, <3>1, <3>2
  <2>6. \A q \in 1..brk' :
               /\ nodes'[q].list \in Types
               /\ nodes'[q].sentinel <=> q = lists'[nodes'[q].list].sentinel
               /\ nodes'[q].sentinel => nodes'[q].serial = 0 /\ ~nodes'[q].deleted /\ nodes'[q].prev = 0
               /\ ~nodes'[q].sentinel => nodes'[q].serial \in 1..born'
               /\ Created(nodes[q].list)' /\ lists'[nodes'[q].list].sentinel <= q
    BY <2>2
  <2> QED BY <2>1, <2>3, <2>4, <2>5, <2>6 DEF AddressesInOrder
<1>9. Threaded'
  <2>0. \A m \in Linked(t) : m \in Nat
    BY <1>1, <1>2
  <2>1. ASSUME NEW u \in Types, NEW q \in Linked(u)', NEW n, n = nodes'[q].next, NEW r, r = nodes'[q].prev
        PROVE  IsNext(u, q, n)' /\ (~nodes'[q].sentinel => IsPrevious(u, q, r)')
    <3>1. q \in Linked(u) /\ q # p /\ q \in 1..brk /\ nodes[q].list = u
      BY <1>6 DEF Linked
    <3>2. IsNext(u, q, nodes[q].next) /\ (~nodes[q].sentinel => IsPrevious(u, q, nodes[q].prev))
      BY <3>1 DEF IInv, Threaded
    <3>3. /\ n = IF q = before THEN after ELSE nodes[q].next
          /\ r = IF q = after THEN before ELSE nodes[q].prev
          /\ (nodes'[q].sentinel = nodes[q].sentinel)
      BY <1>b, <2>1, <3>1
    <3>4. CASE u # t
      <4>1. q # before /\ q # after /\ Linked(u)' = Linked(u)
        <5>1. before \in Linked(t) /\ (after = 0 \/ after \in Linked(t))
          BY <1>1 DEF IsNext, IsPrevious
        <5>2. nodes[before].list = t /\ (after = 0 \/ nodes[after].list = t)
          BY <5>1 DEF Linked
        <5>3. p \notin Linked(u)
          BY <1>0, <3>4 DEF Linked
        <5>4. Linked(u)' = Linked(u)
          BY <1>6, <5>3
        <5>5. q # 0
          BY <1>2, <3>1
        <5> QED BY <3>1, <3>4, <5>2, <5>4, <5>5
      <4> QED BY <3>2, <3>3, <4>1 DEF IsNext, IsPrevious
    <3>5. CASE u = t
      <4>1. \A m \in Linked(t)' : m \in Linked(t) /\ m # p /\ m \in Nat
        BY <1>1, <1>6, <2>0
      <4>2. q \in Nat /\ p \in Nat /\ before \in Nat /\ before \in Linked(t) /\ before < p
        BY <1>1, <1>2, <2>0, <3>1 DEF IsPrevious
      <4>3. IsNext(t, q, n)'
        <5>1. CASE q = before
          BY <1>1, <1>6, <2>0, <3>3, <4>1, <4>2, <5>1 DEF IsNext, IsPrevious
        <5>2. CASE q # before
          <6>1. n = nodes[q].next /\ IsNext(t, q, n)
            BY <3>2, <3>3, <3>5, <5>2
          <6>2. n # p
            BY <1>1, <2>0, <3>1, <3>5, <4>2, <5>2, <6>1 DEF IsNext, IsPrevious
          <6> QED BY <1>1, <1>6, <4>1, <6>1, <6>2 DEF IsNext
        <5> QED BY <5>1, <5>2
      <4>4. ASSUME ~nodes'[q].sentinel PROVE IsPrevious(t, q, r)'
        <5>1. IsPrevious(t, q, nodes[q].prev)
          BY <3>2, <3>3, <3>5, <4>4
        <5>2. CASE q = after
          <6>1. r = before /\ p < after /\ before \in Linked(t)'
            BY <1>1, <1>6, <2>0, <3>1, <3>3, <4>2, <5>2 DEF IsNext
          <6>2. \A m \in Linked(t)' : m <= before \/ q <= m
            BY <1>1, <4>1, <4>2, <5>2, <6>1 DEF IsNext, IsPrevious
          <6> QED BY <4>2, <5>2, <6>1, <6>2 DEF IsPrevious
        <5>3. CASE q # after
          <6>1. r = nodes[q].prev
            BY <3>3, <5>3
          <6>2. r # p
            <7>1. ASSUME r = p PROVE FALSE
              <8>1. p < q /\ \A m \in Linked(t) : m <= p \/ q <= m
                BY <5>1, <6>1, <7>1 DEF IsPrevious
              <8>2. after \in Linked(t) /\ p < after /\ after <= q
                BY <1>1, <3>1, <3>5, <4>2, <8>1 DEF IsNext
              <8>3. q <= after /\ after \in Nat
                BY <2>0, <4>2, <8>1, <8>2
              <8> QED BY <4>2, <5>3, <8>2, <8>3
            <7> QED BY <7>1
          <6> QED BY <1>1, <1>6, <4>1, <5>1, <6>1, <6>2 DEF IsPrevious
        <5> QED BY <5>2, <5>3
      <4> QED BY <3>5, <4>3, <4>4
    <3> QED BY <3>4, <3>5
  <2>2. ASSUME NEW u \in Types
        PROVE  IF lists'[u].tail = 0 THEN \A q \in Linked(u)' : nodes'[q].sentinel
               ELSE /\ lists'[u].tail \in Linked(u)' /\ ~nodes'[lists'[u].tail].sentinel
                    /\ \A q \in Linked(u)' : q <= lists'[u].tail
    <3>1. IF lists[u].tail = 0 THEN \A q \in Linked(u) : nodes[q].sentinel
          ELSE /\ lists[u].tail \in Linked(u) /\ ~nodes[lists[u].tail].sentinel
               /\ \A q \in Linked(u) : q <= lists[u].tail
      BY DEF IInv, Threaded
    <3>2. \A q \in Linked(u) : q \in 1..brk /\ (nodes'[q].sentinel = nodes[q].sentinel)
      BY <1>b DEF Linked
    <3>3. CASE lists'[u].tail = lists[u].tail /\ lists[u].tail # p
      BY <1>6, <3>1, <3>2, <3>3
    <3>4. CASE u = t /\ lists[t].tail = p
      <4>1. lists'[u].tail = back
        BY <1>5, <3>4
      <4>2. \A q \in Linked(t)' : q \in Linked(t) /\ q \in Nat /\ q <= before
        <5>1. \A q \in Linked(t) : q <= p /\ (q <= before \/ p <= q)
          BY <1>1, <1>2, <2>0, <3>1, <3>4 DEF IsPrevious
        <5> QED BY <1>1, <1>2, <1>6, <2>0, <5>1
      <4>3. before \in Linked(t) /\ before # p
        BY <1>1, <1>2, <2>0 DEF IsPrevious
      <4>4. CASE nodes[before].sentinel
        <5>1. \A q \in Linked(t)' : q = before
          <6>1. before = lists[t].sentinel /\ \A q \in Linked(t) : lists[t].sentinel <= q
            BY <1>1, <4>3, <4>4 DEF IInv, AddressesInOrder, Linked
          <6> QED BY <1>1, <1>2, <4>2, <6>1
        <5> QED BY <1>3, <1>6, <3>2, <3>4, <4>1, <4>3, <4>4, <5>1
      <4>5. CASE ~nodes[before].sentinel
        BY <1>1, <1>3, <1>6, <3>2, <3>4, <4>1, <4>2, <4>3, <4>5
      <4> QED BY <4>4, <4>5
    <3>5. u # t => lists[u].tail # p
      <4>1. ASSUME u # t, lists[u].tail = p PROVE FALSE
        <5>1. p \in Linked(u)
          BY <1>2, <3>1, <4>1
        <5> QED BY <1>0, <4>1, <5>1 DEF Linked
      <4> QED BY <4>1
    <3> QED BY <1>5, <3>3, <3>4, <3>5
  <2>3. ASSUME NEW u \in Types, NEW q \in Linked(u)'
        PROVE  /\ IsNext(u, q, nodes[q].next)'
               /\ ~nodes'[q].sentinel => IsPrevious(u, q, nodes[q].prev)'
    BY <2>1 DEF IsNext, IsPrevious
  <2> QED BY <2>2, <2>3 DEF Threaded
<1> QED BY <1>5, <1>6, <1>8, <1>9, <1>a

LEMMA UnlinkIInv ==
    ASSUME IInv, NEW p \in 1..brk, DeleteFault(p) = "none", Unlink(p), NEW v \in Vars,
           NEW h, h = ref[v] \/ PointsAt(VarType[v], h), NEW b \in BOOLEAN,
           ref' = [ref EXCEPT ![v] = h], rewound' = [rewound EXCEPT ![v] = b]
    PROVE  IInv'
<1>1. /\ AddressesInOrder' /\ Threaded'
      /\ nodes' \in [Addresses -> Header]
      /\ lists' \in [Types -> [sentinel : {0} \cup Addresses, tail : {0} \cup Addresses]]
  BY UnlinkKeeps
<1>2. /\ brk' = brk /\ born' = born
      /\ \A q \in 1..brk : nodes'[q].list = nodes[q].list /\ nodes'[q].link = nodes[q].link
  BY UnlinkEffect
<1>3. PointsAt(VarType[v], h)
  BY DEF IInv, Pointers
<1>4. h \in {0} \cup Addresses
  BY <1>3, Bounds DEF PointsAt
<1>5. TypesHold'
  BY <1>1, <1>2, <1>4 DEF IInv, TypesHold
<1>6. \A u, q : PointsAt(u, q) => PointsAt(u, q)'
  BY <1>2 DEF PointsAt
<1>7. ASSUME NEW u \in Vars PROVE PointsAt(VarType[u], ref[u])'
  <2>1. PICK q : q = ref'[u]
    OBVIOUS
  <2>2. PointsAt(VarType[u], q)
    BY <1>3, <2>1 DEF IInv, Pointers, TypesHold
  <2>3. PointsAt(VarType[u], q)'
    BY <1>6, <2>2
  <2> QED BY <2>1, <2>3 DEF PointsAt
<1>8. ASSUME NEW q \in 1..brk' PROVE PointsAt(nodes[q].list, nodes[q].link)'
  <2>1. PICK u, l : u = nodes[q].list /\ l = nodes[q].link
    OBVIOUS
  <2>2. PointsAt(u, l)
    BY <1>2, <2>1 DEF IInv, Pointers
  <2>3. PointsAt(u, l)' /\ nodes'[q].list = u /\ nodes'[q].link = l
    BY <1>2, <1>6, <2>1, <2>2
  <2> QED BY <2>3 DEF PointsAt
<1>9. Pointers'
  BY <1>7, <1>8 DEF Pointers
<1> QED BY <1>1, <1>5, <1>9 DEF IInv

LEMMA DeletesIInv ==
    ASSUME IInv, NEW v \in Vars, DeleteVariable(v) \/ DeleteValue(v) PROVE IInv'
<1>1. PICK p, t : p = ref[v] /\ t = VarType[v]
  OBVIOUS
<1>2. CASE DeleteFault(p) # "none"
  BY <1>1, <1>2, UnchangedIInv DEF DeleteVariable, DeleteValue, Fault
<1>3. CASE DeleteFault(p) = "none"
  <2>1. p \in 1..brk /\ nodes[p].list = t
    BY <1>1, <1>3 DEF DeleteFault, IInv, Pointers, PointsAt
  <2>2. PICK r : r = nodes[p].prev
    OBVIOUS
  <2>3. r # 0 /\ PointsAt(t, r)
    BY <1>3, <2>1, <2>2, Neighbours DEF PointsAt
  <2>4. ref \in [Vars -> {0} \cup Addresses] /\ rewound \in [Vars -> BOOLEAN]
    BY DEF IInv, TypesHold
  <2>5. CASE DeleteVariable(v)
    <3>1. /\ Unlink(p) /\ ref' = [ref EXCEPT ![v] = r]
          /\ rewound' = [rewound EXCEPT ![v] = TRUE]
      BY <1>1, <1>3, <2>2, <2>3, <2>5 DEF DeleteVariable
    <3> QED BY <1>1, <1>3, <2>1, <2>3, <3>1, UnlinkIInv
  <2>6. CASE DeleteValue(v)
    <3>1. Unlink(p) /\ ref' = ref /\ rewound' = rewound
      BY <1>1, <1>3, <2>6 DEF DeleteValue
    <3>2. ref' = [ref EXCEPT ![v] = p] /\ rewound' = [rewound EXCEPT ![v] = rewound[v]]
          /\ rewound[v] \in BOOLEAN
      BY <1>1, <2>4, <3>1
    <3> QED BY <1>1, <1>3, <2>1, <3>1, <3>2, UnlinkIInv
  <2> QED BY <2>5, <2>6
<1> QED BY <1>2, <1>3

-----------------------------------------------------------------------------
(* The invariant.                                                          *)

LEMMA NextIInv == IInv /\ [Next]_vars => IInv'
<1> SUFFICES ASSUME IInv, [Next]_vars PROVE IInv'
  OBVIOUS
<1>1. CASE UNCHANGED vars
  BY <1>1, UnchangedIInv DEF vars, heap
<1>2. CASE \E v \in Vars : New(v) \/ DeleteVariable(v) \/ DeleteValue(v)
  BY <1>2, NewIInv, DeletesIInv
<1>3. CASE \E v, w \in Vars : WriteLink(v, w)
  BY <1>3, WriteLinkIInv
<1>4. CASE \E v, w \in Vars :
             \/ First(v) \/ Last(v) \/ Clear(v)
             \/ Copy(v, w) \/ Next_(v, w) \/ Previous(v, w) \/ ReadLink(v, w)
  BY <1>4, ReadersIInv
<1> QED BY <1>1, <1>2, <1>3, <1>4 DEF Next

\* The native heap (cb_type.cpp) keeps its addresses, lists and pointers in order,
\* whatever the program creates, links and deletes, twice in a row or not.
THEOREM Invariant == Spec => []IInv
<1> QED BY InitIInv, NextIInv, PTL DEF Spec

LEMMA LiveUnreached == IInv => DeletedUnreachable
<1> SUFFICES ASSUME IInv PROVE DeletedUnreachable
  OBVIOUS
<1>1. ASSUME NEW p \in 1..brk, ~nodes[p].deleted,
             NEW q \in {nodes[p].next, nodes[p].prev} \ {0}
      PROVE  ~nodes[q].deleted /\ nodes[q].list = nodes[p].list
  <2>1. PICK t : t = nodes[p].list
    OBVIOUS
  <2>2. t \in Types /\ p \in Linked(t)
    BY <1>1, <2>1 DEF Linked, IInv, AddressesInOrder
  <2>3. IsNext(t, p, nodes[p].next) /\ (nodes[p].prev # 0 => IsPrevious(t, p, nodes[p].prev))
    BY <2>2 DEF IInv, Threaded, AddressesInOrder
  <2>4. q \in Linked(t)
    BY <1>1, <2>3 DEF IsNext, IsPrevious
  <2> QED BY <2>1, <2>4 DEF Linked
<1>2. \A t \in Types : lists[t].tail # 0 => ~nodes[lists[t].tail].deleted
  BY DEF IInv, Threaded, Linked
<1> QED BY <1>1, <1>2 DEF DeletedUnreachable

\* No live node, sentinel or cached tail ever points at a deleted node, whose own
\* links unlink leaves as they were.
THEOREM DeletedStayUnreachable == Spec => []DeletedUnreachable
<1> QED BY Invariant, LiveUnreached, PTL

-----------------------------------------------------------------------------
(* Names.                                                                  *)

absLive == [t \in Types |-> Live(t)]
absLink == [k \in Serials |->
              IF k <= born /\ ~nodes[At(k)].deleted THEN NameOf(nodes[At(k)].link) ELSE -1]
absRef == [v \in Vars |-> NameOf(ref[v])]

\* What addresses are called: NULL -1, a sentinel 0, an instance its serial.
Named ==
  /\ born \in Nat /\ NameOf(0) = -1
  /\ \A p \in 1..brk : /\ NameOf(p) \in 0..born
                       /\ NameOf(p) = 0 <=> nodes[p].sentinel
                       /\ ~nodes[p].sentinel => At(NameOf(p)) = p /\ NameOf(p) \in 1..born
  /\ \A p, q \in 1..brk : nodes[p].list = nodes[q].list /\ p < q => NameOf(p) < NameOf(q)
  /\ \A k \in 1..born : At(k) \in 1..brk /\ ~nodes[At(k)].sentinel /\ NameOf(At(k)) = k

LEMMA Names == IInv => Named
<1> SUFFICES ASSUME IInv PROVE Named
  OBVIOUS
<1>1. born \in Nat /\ brk \in Nat /\ NameOf(0) = -1
  BY Bounds DEF NameOf
<1>2. \A p \in 1..brk : NameOf(p) = IF nodes[p].sentinel THEN 0 ELSE nodes[p].serial
  BY <1>1 DEF NameOf
<1>3. \A p \in 1..brk : /\ ~nodes[p].sentinel => nodes[p].serial \in 1..born
                        /\ nodes[p].sentinel => nodes[p].serial = 0
  BY DEF IInv, AddressesInOrder
<1>4. ASSUME NEW k \in 1..born
      PROVE  At(k) \in 1..brk /\ nodes[At(k)].serial = k /\ ~nodes[At(k)].sentinel
  <2>1. \E p \in 1..brk : nodes[p].serial = k
    BY DEF IInv, AddressesInOrder
  <2>2. At(k) \in 1..brk /\ nodes[At(k)].serial = k
    BY <2>1, Zenon DEF At
  <2> QED BY <1>1, <1>3, <2>2
<1>5. ASSUME NEW p \in 1..brk, ~nodes[p].sentinel PROVE At(nodes[p].serial) = p
  <2>1. PICK k : k = nodes[p].serial
    OBVIOUS
  <2>2. k \in 1..born
    BY <1>3, <1>5, <2>1
  <2>3. PICK q : q = At(k)
    OBVIOUS
  <2>4. q \in 1..brk /\ nodes[q].serial = k /\ ~nodes[q].sentinel
    BY <1>4, <2>2, <2>3
  <2>5. ~(p < q) /\ ~(q < p)
    BY <1>1, <1>5, <2>1, <2>2, <2>4 DEF IInv, AddressesInOrder
  <2> QED BY <1>1, <2>1, <2>3, <2>4, <2>5
<1>6. ASSUME NEW p \in 1..brk, NEW q \in 1..brk, nodes[p].list = nodes[q].list, p < q
      PROVE  NameOf(p) < NameOf(q)
  <2>1. ~nodes[q].sentinel
    BY <1>1, <1>6 DEF IInv, AddressesInOrder
  <2>2. nodes[q].serial \in 1..born
    BY <1>3, <2>1
  <2>3. CASE nodes[p].sentinel
    BY <1>1, <1>2, <2>1, <2>2, <2>3
  <2>4. CASE ~nodes[p].sentinel
    BY <1>2, <1>6, <2>1, <2>4 DEF IInv, AddressesInOrder
  <2> QED BY <2>3, <2>4
<1>7. \A p \in 1..brk : /\ NameOf(p) \in 0..born
                        /\ NameOf(p) = 0 <=> nodes[p].sentinel
                        /\ ~nodes[p].sentinel => At(NameOf(p)) = p /\ NameOf(p) \in 1..born
  BY <1>1, <1>2, <1>3, <1>5
<1>8. \A k \in 1..born : At(k) \in 1..brk /\ ~nodes[At(k)].sentinel /\ NameOf(At(k)) = k
  BY <1>2, <1>4
<1> QED BY <1>1, <1>6, <1>7, <1>8 DEF Named

LEMMA NamesAfter == IInv' => Named'
<1>1. (IInv => Named)'
  BY Names, PTL
<1> QED BY <1>1

\* The live instances of a Type by name.
LEMMA LiveIs ==
    ASSUME IInv, NEW t
    PROVE  /\ \A k : k \in Live(t) <=> \E p \in Linked(t) : ~nodes[p].sentinel /\ NameOf(p) = k
           /\ \A k : k \in Live(t) <=> k \in 1..born /\ At(k) \in Linked(t)
           /\ Live(t) \subseteq 1..born /\ Live(t) \subseteq Int /\ Live(t) \subseteq Serials
<1>0. Named /\ born \in Nat /\ brk \in Nat /\ MaxNews \in Nat /\ born <= MaxNews
  BY Names, Bounds
<1>1. \A k : k \in Live(t) <=> \E p \in Linked(t) : ~nodes[p].sentinel /\ NameOf(p) = k
  BY <1>0 DEF Live, Linked, NameOf
<1>2. \A k : k \in Live(t) <=> k \in 1..born /\ At(k) \in Linked(t)
  <2>1. \A p \in Linked(t) : p \in 1..brk
    BY DEF Linked
  <2> QED BY <1>0, <1>1, <2>1 DEF Named
<1> QED BY <1>0, <1>1, <1>2 DEF Serials

LEMMA LiveAfter ==
  IInv' => \A t, k : k \in Live(t)' <=> k \in 1..born' /\ At(k)' \in Linked(t)'
<1>1. IInv => \A t, k : k \in Live(t) <=> k \in 1..born /\ At(k) \in Linked(t)
  BY LiveIs
<1>2. (IInv => \A t, k : k \in Live(t) <=> k \in 1..born /\ At(k) \in Linked(t))'
  BY <1>1, PTL
<1> QED BY <1>2

\* A pointer and its name: Null, the list head, a live instance or a dead one.
LEMMA NameOfPointer ==
    ASSUME IInv, NEW t \in Types, NEW p, PointsAt(t, p), NEW n, n = NameOf(p)
    PROVE  /\ n = -1 <=> p = 0
           /\ n = 0 <=> p # 0 /\ nodes[p].sentinel
           /\ n \in Live(t) <=> p # 0 /\ ~nodes[p].sentinel /\ ~nodes[p].deleted
           /\ Abstract!Dead(t, n) <=> p # 0 /\ nodes[p].deleted
           /\ n \in Int
           /\ p # 0 => p \in 1..brk /\ (~nodes[p].deleted <=> p \in Linked(t))
           /\ p # 0 /\ ~nodes[p].sentinel => At(n) = p /\ n \in 1..born /\ n \in Serials
<1>1. CASE p = 0
  <2>1. n = -1 /\ n \notin Live(t)
    BY <1>1, Names, LiveIs DEF Named
  <2> QED BY <1>1, <2>1 DEF Abstract!Dead, Abstract!Null
<1>2. CASE p # 0
  <2>1. p \in 1..brk /\ nodes[p].list = t /\ (~nodes[p].deleted <=> p \in Linked(t))
    BY <1>2 DEF PointsAt, Linked
  <2>2. /\ n \in 0..born /\ (n = 0 <=> nodes[p].sentinel) /\ born \in Nat
        /\ ~nodes[p].sentinel => At(n) = p /\ n \in 1..born /\ n \in Serials
    BY <2>1, Names, Bounds DEF Named, Serials
  <2>3. nodes[p].sentinel => ~nodes[p].deleted
    BY <2>1 DEF IInv, AddressesInOrder
  <2>4. n \in Live(t) <=> ~nodes[p].sentinel /\ ~nodes[p].deleted
    BY <2>1, <2>2, LiveIs
  <2>5. n # -1 /\ n \in Int
    BY <2>2
  <2>6. Abstract!Dead(t, n) <=> n \notin Live(t) /\ n # -1 /\ n # 0
    BY DEF Abstract!Dead, Abstract!Null, Abstract!Head
  <2> QED BY <1>2, <2>1, <2>2, <2>3, <2>4, <2>5, <2>6
<1> QED BY <1>1, <1>2

\* Min and Max of FiniteSetsExt.
LEMMA LeastIs ==
    ASSUME NEW S, S \subseteq Int, NEW m \in S, \A z \in S : m <= z
    PROVE  Abstract!Min(S) = m
<1>1. \A x \in S : (\A y \in S : x <= y) => x = m
  OBVIOUS
<1>2. PICK x \in S : x = Abstract!Min(S) /\ \A y \in S : x <= y
  BY Zenon DEF Abstract!Min
<1> QED BY <1>1, <1>2

LEMMA GreatestIs ==
    ASSUME NEW S, S \subseteq Int, NEW m \in S, \A z \in S : z <= m
    PROVE  Abstract!Max(S) = m
<1>1. \A x \in S : (\A y \in S : y <= x) => x = m
  OBVIOUS
<1>2. PICK x \in S : x = Abstract!Max(S) /\ \A y \in S : y <= x
  BY Zenon DEF Abstract!Max
<1> QED BY <1>1, <1>2

\* The next and the previous node have the names TypeSpec gives them.
LEMMA FollowingIs ==
    ASSUME IInv, NEW t \in Types, NEW p \in Linked(t), NEW q, IsNext(t, p, q)
    PROVE  NameOf(q) = Abstract!Following(t, NameOf(p))
<1>0. PICK n : n = NameOf(p)
  OBVIOUS
<1>1. Abstract!After(t, n) = {y \in Live(t) : y > n} /\ Live(t) \subseteq Int
  BY LiveIs DEF Abstract!After
<1>2. n \in Int /\ Named /\ \A m \in Linked(t) : m \in 1..brk /\ nodes[m].list = t
  BY <1>0, Names DEF Named, Linked
<1>3. brk \in Nat /\ born \in Nat
  BY Bounds
<1>4. \A m, k \in Linked(t) : NameOf(m) \in Int /\ (m < k <=> NameOf(m) < NameOf(k))
  <2>1. \A m, k \in Linked(t) : m < k => NameOf(m) < NameOf(k)
    BY <1>2 DEF Named
  <2>2. \A m \in Linked(t) : NameOf(m) \in Int /\ m \in Int
    BY <1>2, <1>3 DEF Named
  <2> QED BY <2>1, <2>2
<1>5. CASE q = 0 /\ \A m \in Linked(t) : m <= p
  <2>1. ASSUME NEW y \in Live(t), y > n PROVE FALSE
    <3>1. PICK m \in Linked(t) : NameOf(m) = y
      BY LiveIs
    <3> QED BY <1>0, <1>1, <1>2, <1>4, <1>5, <2>1, <3>1
  <2>2. Abstract!After(t, n) = {}
    BY <1>1, <2>1
  <2> QED BY <1>0, <1>2, <1>5, <2>2 DEF Abstract!Following, Abstract!Null, Named
<1>6. CASE q \in Linked(t) /\ p < q /\ \A m \in Linked(t) : m <= p \/ q <= m
  <2>1. PICK y : y = NameOf(q)
    OBVIOUS
  <2>2. y > n /\ y \in Int
    BY <1>0, <1>2, <1>4, <1>6, <2>1
  <2>3. y \in Live(t)
    <3>1. ~nodes[q].sentinel
      BY <1>2, <1>3, <1>6 DEF IInv, AddressesInOrder
    <3> QED BY <1>6, <2>1, <3>1, LiveIs
  <2>4. ASSUME NEW z \in Live(t), z > n PROVE y <= z
    <3>1. PICK m \in Linked(t) : NameOf(m) = z
      BY LiveIs
    <3>2. ~(m <= p)
      BY <1>0, <1>1, <1>2, <1>3, <1>4, <2>4, <3>1
    <3>3. q <= m /\ q \in Int /\ m \in Int
      BY <1>2, <1>6, <3>2
    <3> QED BY <1>4, <1>6, <2>1, <2>2, <3>1, <3>3
  <2>5. y \in Abstract!After(t, n) /\ \A z \in Abstract!After(t, n) : y <= z
    BY <1>1, <2>2, <2>3, <2>4
  <2>6. Abstract!Min(Abstract!After(t, n)) = y
    BY <1>1, <2>5, LeastIs
  <2> QED BY <1>0, <2>1, <2>5, <2>6 DEF Abstract!Following
<1> QED BY <1>5, <1>6 DEF IsNext

\* n stands for a position just behind q: what lies before n is q and before.
LEMMA PrecedingIs ==
    ASSUME IInv, NEW t \in Types, NEW n \in Int, NEW q \in Linked(t), NameOf(q) < n,
           \A m \in Linked(t) : m <= q \/ n <= NameOf(m)
    PROVE  /\ nodes[q].sentinel => Abstract!Before(t, n) = {}
           /\ ~nodes[q].sentinel => /\ NameOf(q) = Abstract!Preceding(t, n)
                                   /\ NameOf(q) = Abstract!Max(Abstract!Before(t, n))
                                   /\ Abstract!Before(t, n) # {}
<1>1. Abstract!Before(t, n) = {y \in Live(t) : y < n} /\ Live(t) \subseteq Int
  BY LiveIs DEF Abstract!Before
<1>2. Named /\ brk \in Nat /\ \A m \in Linked(t) : m \in 1..brk /\ nodes[m].list = t
  BY Names, Bounds DEF Linked
<1>3. \A m \in Linked(t) : NameOf(m) \in Int /\ m \in Int /\ (m < q => NameOf(m) < NameOf(q))
  BY <1>2 DEF Named
<1>4. ASSUME NEW y \in Live(t), y < n
      PROVE  y <= NameOf(q) /\ ~nodes[q].sentinel
  <2>1. PICK m \in Linked(t) : NameOf(m) = y /\ ~nodes[m].sentinel
    BY LiveIs
  <2>2. m <= q
    BY <1>1, <1>4, <2>1
  <2>3. y <= NameOf(q)
    BY <1>3, <2>1, <2>2
  <2>4. y \in 1..born /\ born \in Nat
    BY LiveIs, Bounds
  <2> QED BY <1>2, <2>3, <2>4 DEF Named
<1>5. CASE nodes[q].sentinel
  BY <1>1, <1>4, <1>5
<1>6. CASE ~nodes[q].sentinel
  <2>1. PICK y : y = NameOf(q)
    OBVIOUS
  <2>2. y \in Abstract!Before(t, n) /\ \A z \in Abstract!Before(t, n) : z <= y
    BY <1>1, <1>4, <1>6, <2>1, LiveIs
  <2>3. Abstract!Before(t, n) \subseteq Int
    BY <1>1
  <2>4. Abstract!Max(Abstract!Before(t, n)) = y
    BY <2>2, <2>3, GreatestIs
  <2> QED BY <1>6, <2>1, <2>2, <2>4 DEF Abstract!Preceding
<1> QED BY <1>5, <1>6

\* The same for the links of a linked node and for the ends of a list.
LEMMA NextOfLinked ==
    ASSUME IInv, NEW t \in Types, NEW p \in Linked(t)
    PROVE  NameOf(nodes[p].next) = Abstract!Following(t, NameOf(p))
BY FollowingIs DEF IInv, Threaded

LEMMA PreviousOfLinked ==
    ASSUME IInv, NEW t \in Types, NEW p \in Linked(t), NEW n, n = NameOf(p),
           NEW q, q = nodes[p].prev
    PROVE  /\ nodes[p].sentinel => q = 0 /\ Abstract!Before(t, n) = {}
           /\ ~nodes[p].sentinel =>
                /\ q # 0
                /\ nodes[q].sentinel => Abstract!Before(t, n) = {}
                /\ ~nodes[q].sentinel => /\ NameOf(q) = Abstract!Preceding(t, n)
                                        /\ NameOf(q) = Abstract!Max(Abstract!Before(t, n))
                                        /\ Abstract!Before(t, n) # {}
<1>1. p \in 1..brk /\ nodes[p].list = t /\ Named /\ brk \in Nat /\ born \in Nat
  BY Names, Bounds DEF Linked
<1>2. CASE nodes[p].sentinel
  <2>1. q = 0 /\ n = 0
    BY <1>1, <1>2 DEF IInv, AddressesInOrder, Named
  <2>2. Live(t) \subseteq 1..born
    BY LiveIs
  <2>3. Abstract!Before(t, n) = {}
    BY <1>1, <2>1, <2>2 DEF Abstract!Before
  <2> QED BY <1>2, <2>1, <2>3
<1>3. CASE ~nodes[p].sentinel
  <2>1. IsPrevious(t, p, q)
    BY <1>3 DEF IInv, Threaded
  <2>2. q \in Linked(t) /\ q < p /\ q \in 1..brk /\ nodes[q].list = t
    BY <2>1 DEF IsPrevious, Linked
  <2>3. NameOf(q) < n /\ n \in Int /\ q # 0
    BY <1>1, <2>2 DEF Named
  <2>4. ASSUME NEW m \in Linked(t) PROVE m <= q \/ n <= NameOf(m)
    <3>1. m <= q \/ p <= m
      BY <2>1 DEF IsPrevious
    <3>2. m \in 1..brk /\ nodes[m].list = t
      BY DEF Linked
    <3>3. CASE p < m
      BY <1>1, <2>3, <3>2, <3>3 DEF Named
    <3>4. CASE p = m
      BY <2>3, <3>4
    <3> QED BY <1>1, <3>1, <3>2, <3>3, <3>4
  <2> QED BY <1>3, <2>2, <2>3, <2>4, PrecedingIs
<1> QED BY <1>2, <1>3

LEMMA EndsOfList ==
    ASSUME IInv, NEW t \in Types
    PROVE  /\ IF Created(t) THEN NameOf(nodes[lists[t].sentinel].next) = Abstract!Following(t, 0)
              ELSE Abstract!Following(t, 0) = -1 /\ Abstract!Preceding(t, MaxNews + 1) = -1
           /\ Created(t) => NameOf(lists[t].tail) = Abstract!Preceding(t, MaxNews + 1)
<1>0. Named /\ MaxNews \in Nat /\ born \in Nat /\ born <= MaxNews /\ brk \in Nat
  BY Names, Bounds
<1>1. CASE Created(t)
  <2>1. PICK s : s = lists[t].sentinel
    OBVIOUS
  <2>2. s \in Linked(t) /\ nodes[s].sentinel /\ s \in 1..brk
    BY <1>1, <2>1, WhatReadersFind DEF Linked
  <2>3. NameOf(s) = 0
    BY <1>0, <2>2 DEF Named
  <2>4. NameOf(nodes[s].next) = Abstract!Following(t, 0)
    BY <2>2, <2>3, NextOfLinked
  <2>5. \A m \in Linked(t) : NameOf(m) < MaxNews + 1 /\ m \in 1..brk /\ NameOf(m) \in Int
    BY <1>0 DEF Named, Linked
  <2>6. CASE lists[t].tail = 0
    <3>1. \A m \in Linked(t) : m = s
      BY <2>1, <2>6 DEF IInv, Threaded, AddressesInOrder, Linked
    <3>2. Abstract!Before(t, MaxNews + 1) = {}
      BY <1>0, <2>2, <2>5, <3>1, PrecedingIs
    <3> QED BY <1>0, <1>1, <2>1, <2>4, <2>6, <3>2 DEF Abstract!Preceding, Abstract!Null, Named
  <2>7. CASE lists[t].tail # 0
    <3>1. PICK q : q = lists[t].tail
      OBVIOUS
    <3>2. q \in Linked(t) /\ ~nodes[q].sentinel /\ \A m \in Linked(t) : m <= q
      BY <2>7, <3>1 DEF IInv, Threaded
    <3>3. MaxNews + 1 \in Int
      BY <1>0
    <3>4. NameOf(q) = Abstract!Preceding(t, MaxNews + 1)
      BY <2>5, <3>2, <3>3, PrecedingIs
    <3> QED BY <1>1, <2>1, <2>4, <3>1, <3>4
  <2> QED BY <2>6, <2>7
<1>2. CASE ~Created(t)
  <2>1. Linked(t) = {}
    BY <1>2 DEF Linked, IInv, AddressesInOrder
  <2>2. Live(t) = {}
    BY <2>1, LiveIs
  <2>3. Abstract!After(t, 0) = {} /\ Abstract!Before(t, MaxNews + 1) = {}
    BY <2>2 DEF Abstract!After, Abstract!Before
  <2> QED BY <1>2, <2>3 DEF Abstract!Following, Abstract!Preceding, Abstract!Null
<1> QED BY <1>1, <1>2

-----------------------------------------------------------------------------
(* Steps that leave the nodes alone.                                       *)

LEMMA HeapSame ==
    ASSUME UNCHANGED heap
    PROVE  /\ born' = born /\ absLive' = absLive /\ absLink' = absLink
           /\ \A p : NameOf(p)' = NameOf(p)
<1>1. UNCHANGED <<nodes, brk, lists, born>>
  BY DEF heap
<1>2. \A p : NameOf(p)' = NameOf(p)
  BY <1>1 DEF NameOf
<1>3. \A t : Live(t)' = Live(t)
  BY <1>1 DEF Live
<1>4. \A k : At(k)' = At(k)
  BY <1>1 DEF At
<1> QED BY <1>1, <1>2, <1>3, <1>4 DEF absLive, absLink

LEMMA AssignIs ==
    ASSUME IInv, NEW v \in Vars, NEW p, Assign(v, p)
    PROVE  Abstract!Assign(v, NameOf(p))
<1>1. UNCHANGED heap /\ trap' = trap /\ ref' = [ref EXCEPT ![v] = p]
      /\ rewound' = [rewound EXCEPT ![v] = FALSE] /\ ref \in [Vars -> {0} \cup Addresses]
  BY DEF Assign, Store, IInv, TypesHold
<1>2. /\ born' = born /\ absLive' = absLive /\ absLink' = absLink
      /\ \A q : NameOf(q)' = NameOf(q)
  BY <1>1, HeapSame
<1>3. absRef' = [absRef EXCEPT ![v] = NameOf(p)]
  <2>1. ASSUME NEW u \in Vars PROVE NameOf(ref[u])' = IF u = v THEN NameOf(p) ELSE NameOf(ref[u])
    <3>1. PICK q : q = ref'[u]
      OBVIOUS
    <3>2. NameOf(ref[u])' = NameOf(q)'
      BY <3>1 DEF NameOf
    <3>3. NameOf(q)' = NameOf(q)
      BY <1>2
    <3>4. q = IF u = v THEN p ELSE ref[u]
      BY <1>1, <3>1
    <3> QED BY <3>2, <3>3, <3>4
  <2> QED BY <2>1 DEF absRef
<1> QED BY <1>1, <1>2, <1>3 DEF Abstract!Assign, Abstract!Give, absLive, absLink, absRef

LEMMA FaultIs == ASSUME NEW kind, Fault(kind) PROVE Abstract!Fault(kind)
<1>1. UNCHANGED heap /\ trap' = kind /\ ref' = ref /\ rewound' = rewound
  BY DEF Fault
<1>2. /\ born' = born /\ absLive' = absLive /\ absLink' = absLink
      /\ \A q : NameOf(q)' = NameOf(q)
  BY <1>1, HeapSame
<1>3. absRef' = absRef
  BY <1>1, <1>2 DEF absRef
<1> QED BY <1>1, <1>2, <1>3 DEF Abstract!Fault, absLive, absLink, absRef

LEMMA ReadersAre ==
    ASSUME IInv, MarkedAccesses = FALSE, NEW v \in Vars, NEW w \in Vars
    PROVE  /\ First(v) => Abstract!First(v)
           /\ Last(v) => Abstract!Last(v)
           /\ Clear(v) => Abstract!Clear(v)
           /\ Copy(v, w) => Abstract!Copy(v, w)
           /\ Next_(v, w) => Abstract!Next_(v, w)
           /\ Previous(v, w) => Abstract!Previous(v, w)
           /\ ReadLink(v, w) => Abstract!ReadLink(v, w)
<1>0. PICK t, p, n : t = VarType[v] /\ p = ref[w] /\ n = NameOf(p)
  OBVIOUS
<1>1. absRef[w] = n /\ t \in Types /\ NameOf(0) = -1
  BY <1>0, Bounds, Names DEF absRef, Named
<1>2. VarType[w] = t =>
        /\ PointsAt(t, p)
        /\ n = -1 <=> p = 0
        /\ n = 0 <=> p # 0 /\ nodes[p].sentinel
        /\ n \in Live(t) <=> p # 0 /\ ~nodes[p].sentinel /\ ~nodes[p].deleted
        /\ Abstract!Dead(t, n) <=> p # 0 /\ nodes[p].deleted
        /\ p # 0 => p \in 1..brk /\ (~nodes[p].deleted <=> p \in Linked(t))
        /\ p # 0 /\ ~nodes[p].sentinel => At(n) = p /\ n \in 1..born /\ n \in Serials
  <2>1. ASSUME VarType[w] = t PROVE PointsAt(t, p)
    BY <1>0, <2>1 DEF IInv, Pointers
  <2> QED BY <1>0, <1>1, <2>1, NameOfPointer
<1>3. ASSUME First(v) PROVE Abstract!First(v)
  <2>1. CASE Created(t)
    <3>1. Assign(v, nodes[lists[t].sentinel].next)
      BY <1>0, <1>3, <2>1 DEF First
    <3>2. Abstract!Assign(v, Abstract!Following(t, 0))
      BY <1>1, <2>1, <3>1, AssignIs, EndsOfList
    <3> QED BY <1>0, <3>2 DEF Abstract!First, Abstract!Head
  <2>2. CASE ~Created(t)
    <3>1. Assign(v, 0)
      BY <1>0, <1>3, <2>2 DEF First
    <3>2. Abstract!Assign(v, NameOf(0)) /\ NameOf(0) = Abstract!Following(t, 0)
      BY <1>1, <2>2, <3>1, AssignIs, EndsOfList
    <3>3. Abstract!Assign(v, Abstract!Following(t, 0))
      BY <3>2
    <3> QED BY <1>0, <3>3 DEF Abstract!First, Abstract!Head
  <2> QED BY <2>1, <2>2
<1>4. ASSUME Last(v) PROVE Abstract!Last(v)
  <2>1. CASE Created(t)
    <3>1. Assign(v, lists[t].tail)
      BY <1>0, <1>4, <2>1 DEF Last
    <3>2. Abstract!Assign(v, Abstract!Preceding(t, MaxNews + 1))
      BY <1>1, <2>1, <3>1, AssignIs, EndsOfList
    <3> QED BY <1>0, <3>2 DEF Abstract!Last
  <2>2. CASE ~Created(t)
    <3>1. Assign(v, 0)
      BY <1>0, <1>4, <2>2 DEF Last
    <3>2. Abstract!Assign(v, NameOf(0)) /\ NameOf(0) = Abstract!Preceding(t, MaxNews + 1)
      BY <1>1, <2>2, <3>1, AssignIs, EndsOfList
    <3>3. Abstract!Assign(v, Abstract!Preceding(t, MaxNews + 1))
      BY <3>2
    <3> QED BY <1>0, <3>3 DEF Abstract!Last
  <2> QED BY <2>1, <2>2
<1>5. ASSUME Clear(v) PROVE Abstract!Clear(v)
  <2>1. Abstract!Assign(v, NameOf(0))
    BY <1>5, AssignIs DEF Clear
  <2> QED BY <1>1, <2>1 DEF Abstract!Clear, Abstract!Null
<1>6. ASSUME Copy(v, w) PROVE Abstract!Copy(v, w)
  <2>1. VarType[v] = VarType[w] /\ Abstract!Assign(v, n)
    BY <1>0, <1>6, AssignIs DEF Copy
  <2> QED BY <1>1, <2>1 DEF Abstract!Copy, absRef
<1>7. ASSUME Next_(v, w) PROVE Abstract!Next_(v, w)
  <2>1. VarType[v] = VarType[w] /\ VarType[w] = t
    BY <1>0, <1>7 DEF Next_
  <2>2. CASE p = 0
    <3>1. Abstract!Assign(v, NameOf(0))
      BY <1>0, <1>7, <2>2, AssignIs DEF Next_
    <3> QED BY <1>1, <1>2, <2>1, <2>2, <3>1 DEF Abstract!Next_, Abstract!Null, absRef
  <2>3. CASE p # 0 /\ nodes[p].deleted
    <3>1. Abstract!Fault("access to deleted object")
      BY <1>0, <1>7, <2>3, FaultIs DEF Next_
    <3> QED BY <1>1, <1>2, <2>1, <2>3, <3>1 DEF Abstract!Next_, absRef
  <2>4. CASE p # 0 /\ ~nodes[p].deleted
    <3>1. Assign(v, nodes[p].next)
      BY <1>0, <1>7, <2>4 DEF Next_
    <3>2. NameOf(nodes[p].next) = Abstract!Following(t, n)
      BY <1>0, <1>1, <1>2, <2>1, <2>4, NextOfLinked
    <3>3. Abstract!Assign(v, Abstract!Following(t, n))
      BY <3>1, <3>2, AssignIs
    <3> QED BY <1>1, <1>2, <2>1, <2>4, <3>3 DEF Abstract!Next_, Abstract!Null, absRef
  <2> QED BY <2>2, <2>3, <2>4
<1>8. ASSUME Previous(v, w) PROVE Abstract!Previous(v, w)
  <2>1. VarType[v] = VarType[w] /\ VarType[w] = t
    BY <1>0, <1>8 DEF Previous
  <2>2. CASE p = 0
    <3>1. Abstract!Assign(v, NameOf(0))
      BY <1>0, <1>8, <2>2, AssignIs DEF Previous
    <3>2. Abstract!Before(t, -1) = {}
      <4>1. Live(t) \subseteq 1..born /\ born \in Nat
        BY LiveIs, Bounds
      <4> QED BY <1>1, <4>1 DEF Abstract!Before
    <3>3. Abstract!Preceding(t, n) = -1
      BY <1>2, <2>1, <2>2, <3>2 DEF Abstract!Preceding, Abstract!Null
    <3> QED BY <1>1, <1>2, <2>1, <2>2, <3>1, <3>3 DEF Abstract!Previous, absRef
  <2>3. CASE p # 0 /\ nodes[p].deleted
    <3>1. Abstract!Fault("access to deleted object")
      BY <1>0, <1>8, <2>3, FaultIs DEF Previous
    <3> QED BY <1>1, <1>2, <2>1, <2>3, <3>1 DEF Abstract!Previous, absRef
  <2>4. CASE p # 0 /\ ~nodes[p].deleted
    <3>1. PICK r : r = nodes[p].prev
      OBVIOUS
    <3>2. PICK q : q = IF r = 0 THEN 0 ELSE IF nodes[r].sentinel THEN 0 ELSE r
      OBVIOUS
    <3>3. Assign(v, q)
      BY <1>0, <1>8, <2>4, <3>1, <3>2 DEF Previous
    <3>4. p \in Linked(t)
      BY <1>2, <2>1, <2>4
    <3>5. CASE r = 0 \/ nodes[r].sentinel
      <4>1. Abstract!Before(t, n) = {}
        BY <1>0, <1>1, <3>1, <3>4, <3>5, PreviousOfLinked
      <4>2. NameOf(q) = Abstract!Preceding(t, n)
        BY <1>1, <3>2, <3>5, <4>1 DEF Abstract!Preceding, Abstract!Null
      <4>3. Abstract!Assign(v, Abstract!Preceding(t, n))
        BY <3>3, <4>2, AssignIs
      <4> QED BY <1>1, <1>2, <2>1, <2>4, <4>3 DEF Abstract!Previous, absRef
    <3>6. CASE r # 0 /\ ~nodes[r].sentinel
      <4>1. NameOf(q) = Abstract!Preceding(t, n)
        BY <1>0, <1>1, <3>1, <3>2, <3>4, <3>6, PreviousOfLinked
      <4>2. Abstract!Assign(v, Abstract!Preceding(t, n))
        BY <3>3, <4>1, AssignIs
      <4> QED BY <1>1, <1>2, <2>1, <2>4, <4>2 DEF Abstract!Previous, absRef
    <3> QED BY <3>5, <3>6
  <2> QED BY <2>2, <2>3, <2>4
<1>9. ASSUME ReadLink(v, w) PROVE Abstract!ReadLink(v, w)
  <2>1. VarType[v] = VarType[w] /\ VarType[w] = t /\ ~rewound[w]
    BY <1>0, <1>9 DEF ReadLink, MayAccess
  <2>2. CASE FieldFault(p) # "none"
    <3>1. Abstract!Fault(FieldFault(p))
      BY <1>0, <1>9, <2>2, FaultIs DEF ReadLink
    <3> QED BY <1>1, <1>2, <2>1, <2>2, <3>1
            DEF FieldFault, Abstract!ReadLink, Abstract!Null, Abstract!Head, absRef
  <2>3. CASE FieldFault(p) = "none"
    <3>1. p # 0 /\ ~nodes[p].deleted /\ ~nodes[p].sentinel
      BY <2>3 DEF FieldFault
    <3>2. Abstract!Assign(v, NameOf(nodes[p].link))
      BY <1>0, <1>9, <2>3, AssignIs DEF ReadLink
    <3>3. absLink[n] = NameOf(nodes[p].link)
      <4>1. At(n) = p /\ n \in Serials /\ n \in 1..born /\ born \in Nat
        BY <1>2, <2>1, <3>1, Bounds
      <4> QED BY <3>1, <4>1 DEF absLink
    <3> QED BY <1>1, <1>2, <2>1, <3>1, <3>2, <3>3
            DEF Abstract!ReadLink, Abstract!Null, Abstract!Head, absRef, absLink
  <2> QED BY <2>2, <2>3
<1> QED BY <1>3, <1>4, <1>5, <1>6, <1>7, <1>8, <1>9

-----------------------------------------------------------------------------
(* Steps that change the nodes.                                            *)

\* Names, once given, stay.
LEMMA NamesKept ==
    ASSUME IInv, IInv', brk <= brk', born <= born',
           \A p \in 1..brk : /\ nodes'[p].sentinel = nodes[p].sentinel
                             /\ nodes'[p].serial = nodes[p].serial
    PROVE  /\ \A p \in 0..brk : NameOf(p)' = NameOf(p)
           /\ \A k \in 1..born : At(k)' = At(k)
<1>1. Named /\ Named' /\ brk \in Nat /\ brk' \in Nat /\ born \in Nat /\ born' \in Nat
  BY Names, NamesAfter, Bounds, SMTT(30) DEF IInv, TypesHold, Addresses
<1>2. \A p \in 0..brk : NameOf(p)' = NameOf(p)
  BY <1>1 DEF NameOf
<1>3. ASSUME NEW k \in 1..born PROVE At(k)' = At(k)
  <2>1. PICK p : p = At(k)
    OBVIOUS
  <2>2. p \in 1..brk /\ ~nodes[p].sentinel /\ NameOf(p) = k
    BY <1>1, <2>1 DEF Named
  <2>3. p \in 1..brk' /\ ~nodes'[p].sentinel /\ NameOf(p)' = k
    BY <1>1, <1>2, <2>2
  <2>4. At(NameOf(p))' = p
    BY <1>1, <2>3 DEF Named
  <2>5. At(NameOf(p))' = At(k)'
    BY <2>3 DEF At
  <2> QED BY <2>1, <2>4, <2>5
<1> QED BY <1>2, <1>3

\* The variables and the links of the nodes that stay keep their names.
LEMMA RefsKept ==
    ASSUME IInv, \A p \in 0..brk : NameOf(p)' = NameOf(p),
           NEW v \in Vars, ref'[v] = ref[v]
    PROVE  NameOf(ref[v])' = NameOf(ref[v])
<1>1. PICK p : p = ref[v]
  OBVIOUS
<1>2. p \in 0..brk
  BY <1>1, Bounds DEF IInv, Pointers, PointsAt
<1>3. NameOf(ref[v])' = NameOf(p)'
  BY <1>1 DEF NameOf
<1> QED BY <1>1, <1>2, <1>3

LEMMA LinksKept ==
    ASSUME IInv, \A p \in 0..brk : NameOf(p)' = NameOf(p),
           NEW q \in 1..brk, nodes'[q].link = nodes[q].link
    PROVE  NameOf(nodes[q].link)' = NameOf(nodes[q].link)
<1>1. PICK p : p = nodes[q].link
  OBVIOUS
<1>2. p \in 0..brk
  BY <1>1, Bounds DEF IInv, Pointers, PointsAt
<1>3. NameOf(nodes[q].link)' = NameOf(p)'
  BY <1>1 DEF NameOf
<1> QED BY <1>1, <1>2, <1>3

LEMMA WriteLinkIs ==
    ASSUME IInv, MarkedAccesses = FALSE, NEW v \in Vars, NEW w \in Vars,
           WriteLink(v, w)
    PROVE  Abstract!WriteLink(v, w)
<1>0. PICK t, p, n, r : t = VarType[v] /\ p = ref[v] /\ n = NameOf(p) /\ r = ref[w]
  OBVIOUS
<1>1. /\ absRef[v] = n /\ absRef[w] = NameOf(r) /\ VarType[v] = VarType[w] /\ t \in Types
      /\ PointsAt(t, p) /\ PointsAt(t, r) /\ ~rewound[v]
  BY <1>0, Bounds DEF absRef, WriteLink, MayAccess, IInv, Pointers
<1>2. /\ n = -1 <=> p = 0
      /\ n = 0 <=> p # 0 /\ nodes[p].sentinel
      /\ Abstract!Dead(t, n) <=> p # 0 /\ nodes[p].deleted
      /\ p # 0 => p \in 1..brk
      /\ p # 0 /\ ~nodes[p].sentinel => At(n) = p /\ n \in 1..born /\ n \in Serials
  BY <1>0, <1>1, NameOfPointer
<1>3. CASE FieldFault(p) # "none"
  <2>1. Abstract!Fault(FieldFault(p))
    BY <1>0, <1>3, FaultIs DEF WriteLink
  <2> QED BY <1>0, <1>1, <1>2, <1>3, <2>1
          DEF FieldFault, Abstract!WriteLink, Abstract!Null, Abstract!Head, absRef
<1>4. CASE FieldFault(p) = "none"
  <2>1. p # 0 /\ ~nodes[p].deleted /\ ~nodes[p].sentinel /\ p \in 1..brk
    BY <1>2, <1>4 DEF FieldFault
  <2>2. /\ nodes' = [nodes EXCEPT ![p].link = r]
        /\ UNCHANGED <<brk, lists, born, ref, rewound, trap>>
    BY <1>0, <1>4 DEF WriteLink
  <2>3. r \in {0} \cup Addresses /\ r \in 0..brk /\ brk \in Nat /\ born \in Nat
    BY <1>1, Bounds DEF PointsAt
  <2>4. \A q \in 1..brk : /\ nodes'[q].list = nodes[q].list
                          /\ nodes'[q].deleted = nodes[q].deleted
                          /\ nodes'[q].sentinel = nodes[q].sentinel
                          /\ nodes'[q].serial = nodes[q].serial
                          /\ nodes'[q].link = IF q = p THEN r ELSE nodes[q].link
    <3>1. nodes' = [nodes EXCEPT ![p].link = r]
      BY <2>2
    <3>2. p \in 1..brk /\ r \in {0} \cup Addresses
      BY <2>1, <2>3
    <3>3. \A q \in 1..brk : /\ nodes'[q].list = nodes[q].list
                            /\ nodes'[q].prev = nodes[q].prev
                            /\ nodes'[q].next = nodes[q].next
                            /\ nodes'[q].deleted = nodes[q].deleted
                            /\ nodes'[q].sentinel = nodes[q].sentinel
                            /\ nodes'[q].serial = nodes[q].serial
                            /\ nodes'[q].link = IF q = p THEN r ELSE nodes[q].link
      BY ONLY IInv, <3>1, <3>2, WriteLinkEffect, ZenonT(60)
    <3> QED BY <3>3
  <2>5. IInv'
    BY WriteLinkIInv
  <2>6. /\ \A q \in 0..brk : NameOf(q)' = NameOf(q)
        /\ \A k \in 1..born : At(k)' = At(k)
    BY <2>2, <2>3, <2>4, <2>5, NamesKept
  <2>7. absLive' = absLive
    <3>1. \A u : Live(u)' = Live(u)
      BY <2>2, <2>4 DEF Live
    <3> QED BY <3>1 DEF absLive
  <2>8. absLink' = [absLink EXCEPT ![n] = NameOf(r)]
    <3>1. ASSUME NEW k \in Serials PROVE absLink'[k] = IF k = n THEN NameOf(r) ELSE absLink[k]
      <4>1. CASE k <= born
        <5>1. k \in 1..born
          BY <2>3, <4>1 DEF Serials
        <5>2. PICK q : q = At(k)
          OBVIOUS
        <5>3. q \in 1..brk /\ NameOf(q) = k /\ At(k)' = q
          BY <2>6, <5>1, <5>2, Names DEF Named
        <5>4. absLink'[k] = IF ~nodes'[q].deleted THEN NameOf(nodes[q].link)' ELSE -1
          BY <2>2, <4>1, <5>3 DEF absLink
        <5>5. absLink[k] = IF ~nodes[q].deleted THEN NameOf(nodes[q].link) ELSE -1
          BY <4>1, <5>2 DEF absLink
        <5>6. nodes'[q].deleted <=> nodes[q].deleted
          BY <2>4, <5>3
        <5>7. q = p <=> k = n
          BY <1>0, <1>2, <2>1, <5>2, <5>3
        <5>8. CASE q = p
          <6>1. NameOf(nodes[q].link)' = NameOf(r)'
            BY <2>4, <5>3, <5>8 DEF NameOf
          <6> QED BY <2>1, <2>3, <2>6, <5>4, <5>6, <5>7, <5>8, <6>1
        <5>9. CASE q # p
          <6>1. NameOf(nodes[q].link)' = NameOf(nodes[q].link)
            BY <2>4, <2>6, <5>3, <5>9, LinksKept
          <6> QED BY <5>4, <5>5, <5>6, <5>7, <5>9, <6>1
        <5> QED BY <5>8, <5>9
      <4>2. CASE ~(k <= born)
        BY <1>2, <2>1, <2>2, <2>3, <4>2 DEF absLink
      <4> QED BY <4>1, <4>2
    <3> QED BY <3>1 DEF absLink
  <2>9. absRef' = absRef
    <3>1. \A u \in Vars : NameOf(ref[u])' = NameOf(ref[u])
      BY <2>2, <2>6, RefsKept
    <3> QED BY <3>1 DEF absRef
  <2> QED BY <1>0, <1>1, <1>2, <2>1, <2>2, <2>7, <2>8, <2>9
          DEF Abstract!WriteLink, Abstract!Null, Abstract!Head, absRef, absLink, absLive
<1> QED BY <1>3, <1>4

LEMMA NewIs == ASSUME IInv, NEW v \in Vars, New(v) PROVE Abstract!New(v)
<1>0. PICK t, head, node, prev : /\ Places(v, t, head, node, prev)
                                  /\ Fresh(t, head, node, prev)
                                  /\ Behind(prev, node)
                                  /\ Grown(v, t, head, node)
  BY NewEffect
<1>1. /\ t \in Types /\ t = VarType[v]
      /\ head = IF Created(t) THEN lists[t].sentinel ELSE brk + 1
      /\ node = IF Created(t) THEN brk + 1 ELSE brk + 2
  BY <1>0 DEF Places
<1>2. /\ born < MaxNews /\ brk' = node /\ born' = born + 1 /\ trap' = trap
      /\ ref' = [ref EXCEPT ![v] = node]
      /\ rewound' = [rewound EXCEPT ![v] = FALSE]
      /\ 1..brk' = 1..brk \cup {head, node}
  BY <1>0 DEF Grown
<1>3. \A q \in 1..brk : /\ nodes'[q].list = nodes[q].list
                        /\ nodes'[q].deleted = nodes[q].deleted
                        /\ nodes'[q].sentinel = nodes[q].sentinel
                        /\ nodes'[q].serial = nodes[q].serial
                        /\ nodes'[q].link = nodes[q].link
  BY <1>0 DEF Behind
<1>4. /\ nodes'[node].list = t /\ nodes'[node].link = 0 /\ nodes'[node].serial = born + 1
      /\ ~nodes'[node].deleted /\ ~nodes'[node].sentinel
      /\ ~Created(t) => nodes'[head].sentinel
  BY <1>0 DEF Fresh, Zeroed
<1>5. /\ brk \in Nat /\ born \in Nat /\ MaxNews \in Nat /\ Named /\ IInv'
      /\ ref \in [Vars -> {0} \cup Addresses]
  BY Bounds, Names, NewIInv DEF IInv, TypesHold
<1>6. /\ brk <= brk' /\ born <= born' /\ node \in 1..brk' /\ node # 0
      /\ (head \in 1..brk \/ ~Created(t))
  <2>1. Created(t) => head \in 1..brk
    BY <1>1, WhatReadersFind DEF Linked
  <2> QED BY <1>1, <1>2, <1>5, <2>1
<1>7. /\ \A q \in 0..brk : NameOf(q)' = NameOf(q)
      /\ \A k \in 1..born : At(k)' = At(k)
  BY <1>3, <1>5, <1>6, NamesKept
<1>8. NameOf(node)' = born + 1
  BY <1>4, <1>6 DEF NameOf
<1>9. PICK new : new = born + 1
  OBVIOUS
<1>10. NameOf(node)' = new /\ At(new)' = node /\ new \in 1..born' /\ new \in Int
  <2>1. Named'
    BY <1>5, NamesAfter
  <2>2. At(NameOf(node))' = node
    BY <1>4, <1>6, <2>1 DEF Named
  <2>3. At(new)' = node
    BY <1>8, <1>9, <2>2 DEF At
  <2> QED BY <1>2, <1>5, <1>8, <1>9, <2>3
<1>11. absLive' = [absLive EXCEPT ![t] = absLive[t] \cup {new}]
  <2>1. ASSUME NEW u \in Types, NEW k
        PROVE  k \in Live(u)' <=> k \in Live(u) \/ (u = t /\ k = new)
    <3>1. k \in Live(u)' <=> \E p \in 1..brk' : /\ ~nodes'[p].sentinel /\ ~nodes'[p].deleted
                                               /\ nodes'[p].list = u /\ nodes'[p].serial = k
      BY DEF Live
    <3>2. k \in Live(u) <=> \E p \in 1..brk : /\ ~nodes[p].sentinel /\ ~nodes[p].deleted
                                             /\ nodes[p].list = u /\ nodes[p].serial = k
      BY DEF Live
    <3>3. \A p : p \in 1..brk' <=> p \in 1..brk \/ p = head \/ p = node
      BY <1>2
    <3>4. (\E p \in 1..brk : /\ ~nodes'[p].sentinel /\ ~nodes'[p].deleted
                             /\ nodes'[p].list = u /\ nodes'[p].serial = k) <=> k \in Live(u)
      BY <1>3, <3>2
    <3>5. (/\ ~nodes'[node].sentinel /\ ~nodes'[node].deleted
           /\ nodes'[node].list = u /\ nodes'[node].serial = k) <=> u = t /\ k = new
      BY <1>4, <1>9
    <3> QED BY <1>4, <1>6, <3>1, <3>3, <3>4, <3>5
  <2>2. \A u \in Types : Live(u)' = IF u = t THEN Live(u) \cup {new} ELSE Live(u)
    BY <2>1
  <2> QED BY <1>1, <2>2 DEF absLive
<1>12. absRef' = [absRef EXCEPT ![v] = new]
  <2>1. ASSUME NEW u \in Vars PROVE NameOf(ref[u])' = IF u = v THEN new ELSE NameOf(ref[u])
    <3>1. CASE u = v
      <4>1. ref'[u] = node
        BY <1>2, <1>5, <3>1
      <4>2. NameOf(ref[u])' = NameOf(node)'
        BY <4>1 DEF NameOf
      <4> QED BY <1>10, <3>1, <4>2
    <3>2. CASE u # v
      <4>1. ref'[u] = ref[u]
        BY <1>2, <1>5, <3>2
      <4> QED BY <1>7, <3>2, <4>1, RefsKept
    <3> QED BY <3>1, <3>2
  <2> QED BY <2>1 DEF absRef
<1>13. absLink' = absLink
  <2>1. ASSUME NEW k \in Serials PROVE absLink'[k] = absLink[k]
    <3>0. absLink'[k] = IF k <= born' /\ ~nodes'[At(k)'].deleted THEN NameOf(nodes[At(k)].link)' ELSE -1
      BY DEF absLink
    <3>1. CASE k <= born
      <4>1. k \in 1..born
        BY <1>5, <3>1 DEF Serials
      <4>2. PICK q : q = At(k)
        OBVIOUS
      <4>3. q \in 1..brk /\ At(k)' = q
        BY <1>5, <1>7, <4>1, <4>2 DEF Named
      <4>4. NameOf(nodes[q].link)' = NameOf(nodes[q].link)
        BY <1>3, <1>7, <4>3, LinksKept
      <4>5. NameOf(nodes[At(k)].link)' = NameOf(nodes[q].link)'
        BY <4>3 DEF NameOf
      <4>6. nodes'[q].deleted <=> nodes[q].deleted
        BY <1>3, <4>3
      <4>7. k <= born'
        BY <1>2, <1>5, <4>1
      <4> QED BY <3>0, <3>1, <4>2, <4>3, <4>4, <4>5, <4>6, <4>7 DEF absLink
    <3>2. CASE k = new
      <4>1. nodes'[At(k)'].link = 0
        BY <1>4, <1>10, <3>2
      <4>2. NameOf(nodes[At(k)].link)' = -1
        BY <4>1 DEF NameOf
      <4>3. absLink[k] = -1
        BY <1>5, <1>9, <3>2 DEF absLink
      <4> QED BY <3>0, <4>2, <4>3
    <3>3. CASE ~(k <= born) /\ k # new
      <4>1. ~(k <= born')
        BY <1>2, <1>5, <1>9, <3>3 DEF Serials
      <4> QED BY <3>0, <3>3, <4>1 DEF absLink
    <3> QED BY <3>1, <3>2, <3>3
  <2> QED BY <2>1 DEF absLink
<1> QED BY <1>1, <1>2, <1>9, <1>11, <1>12, <1>13 DEF Abstract!New, Abstract!Give, absLive, absLink, absRef

\* Unlinking a live instance takes it out of its Type's list.
LEMMA RemoveIs ==
    ASSUME IInv, IInv', NEW p \in 1..brk, DeleteFault(p) = "none", Unlink(p),
           NEW t, t = nodes[p].list, NEW d, d = NameOf(p)
    PROVE  /\ Abstract!Remove(t, d)
           /\ \A q \in 0..brk : NameOf(q)' = NameOf(q)
<1>1. /\ t \in Types /\ ~nodes[p].sentinel /\ ~nodes[p].deleted /\ p \in Linked(t)
  BY Neighbours
<1>2. /\ brk' = brk /\ born' = born /\ trap' = trap
      /\ \A q \in 1..brk : /\ nodes'[q].list = nodes[q].list
                           /\ nodes'[q].deleted <=> nodes[q].deleted \/ q = p
                           /\ nodes'[q].sentinel = nodes[q].sentinel
                           /\ nodes'[q].serial = nodes[q].serial
                           /\ nodes'[q].link = nodes[q].link
  BY UnlinkEffect
<1>3. Named /\ born \in Nat /\ brk \in Nat /\ d \in 1..born /\ At(d) = p
  BY <1>1, Names, Bounds DEF Named
<1>4. /\ \A q \in 0..brk : NameOf(q)' = NameOf(q)
      /\ \A k \in 1..born : At(k)' = At(k)
  BY <1>2, <1>3, NamesKept
<1>5. absLive' = [absLive EXCEPT ![t] = absLive[t] \ {d}]
  <2>1. ASSUME NEW u \in Types, NEW k
        PROVE  k \in Live(u)' <=> k \in Live(u) /\ ~(u = t /\ k = d)
    <3>1. k \in Live(u)' <=> k \in 1..born /\ At(k) \in Linked(u)'
      <4>1. k \in Live(u)' <=> k \in 1..born' /\ At(k)' \in Linked(u)'
        BY LiveAfter
      <4> QED BY <1>2, <1>4, <4>1
    <3>2. k \in Live(u) <=> k \in 1..born /\ At(k) \in Linked(u)
      BY LiveIs
    <3>3. Linked(u)' = Linked(u) \ {p}
      BY UnlinkKeeps
    <3>4. k \in 1..born => (At(k) = p <=> k = d)
      BY <1>3 DEF Named
    <3>5. p \in Linked(u) <=> u = t
      BY <1>1 DEF Linked
    <3> QED BY <3>1, <3>2, <3>3, <3>4, <3>5
  <2>2. \A u \in Types : Live(u)' = IF u = t THEN Live(u) \ {d} ELSE Live(u)
    BY <2>1
  <2> QED BY <1>1, <2>2 DEF absLive
<1>6. absLink' = [absLink EXCEPT ![d] = -1]
  <2>1. ASSUME NEW k \in Serials PROVE absLink'[k] = IF k = d THEN -1 ELSE absLink[k]
    <3>0. absLink'[k] = IF k <= born' /\ ~nodes'[At(k)'].deleted THEN NameOf(nodes[At(k)].link)' ELSE -1
      BY DEF absLink
    <3>1. CASE k <= born
      <4>1. k \in 1..born
        BY <1>3, <3>1 DEF Serials
      <4>2. PICK q : q = At(k)
        OBVIOUS
      <4>3. q \in 1..brk /\ At(k)' = q /\ NameOf(q) = k
        BY <1>3, <1>4, <4>1, <4>2 DEF Named
      <4>4. NameOf(nodes[q].link)' = NameOf(nodes[q].link)
        BY <1>2, <1>4, <4>3, LinksKept
      <4>5. NameOf(nodes[At(k)].link)' = NameOf(nodes[q].link)'
        BY <4>3 DEF NameOf
      <4>6. nodes'[q].deleted <=> nodes[q].deleted \/ k = d
        BY <1>2, <1>3, <4>2, <4>3
      <4> QED BY <1>2, <3>0, <3>1, <4>2, <4>3, <4>4, <4>5, <4>6 DEF absLink
    <3>2. CASE ~(k <= born)
      BY <1>2, <1>3, <3>0, <3>2 DEF absLink
    <3> QED BY <3>1, <3>2
  <2> QED BY <2>1 DEF absLink
<1> QED BY <1>2, <1>4, <1>5, <1>6 DEF Abstract!Remove, Abstract!Null, absLive, absLink

LEMMA DeleteValueIs ==
    ASSUME IInv, NEW v \in Vars, DeleteValue(v) PROVE Abstract!DeleteValue(v)
<1>0. PICK t, p, n : t = VarType[v] /\ p = ref[v] /\ n = NameOf(p)
  OBVIOUS
<1>1. absRef[v] = n /\ t \in Types /\ PointsAt(t, p) /\ IInv'
  BY <1>0, Bounds, DeletesIInv DEF absRef, IInv, Pointers
<1>2. /\ n = -1 <=> p = 0
      /\ n = 0 <=> p # 0 /\ nodes[p].sentinel
      /\ Abstract!Dead(t, n) <=> p # 0 /\ nodes[p].deleted
      /\ p # 0 => p \in 1..brk /\ nodes[p].list = t
  BY <1>0, <1>1, NameOfPointer DEF PointsAt
<1>3. CASE DeleteFault(p) # "none"
  <2>1. Abstract!Fault(DeleteFault(p))
    BY <1>0, <1>3, FaultIs DEF DeleteValue
  <2> QED BY <1>0, <1>1, <1>2, <1>3, <2>1
          DEF DeleteFault, Abstract!DeleteValue, Abstract!Null, Abstract!Head, absRef
<1>4. CASE DeleteFault(p) = "none"
  <2>1. p # 0 /\ ~nodes[p].deleted /\ ~nodes[p].sentinel
    BY <1>4 DEF DeleteFault
  <2>2. Unlink(p) /\ ref' = ref /\ rewound' = rewound
    BY <1>0, <1>4 DEF DeleteValue
  <2>3. Abstract!Remove(t, n) /\ \A q \in 0..brk : NameOf(q)' = NameOf(q)
    BY <1>0, <1>1, <1>2, <1>4, <2>1, <2>2, RemoveIs
  <2>4. absRef' = absRef
    <3>1. \A u \in Vars : NameOf(ref[u])' = NameOf(ref[u])
      BY <2>2, <2>3, RefsKept
    <3> QED BY <3>1 DEF absRef
  <2> QED BY <1>0, <1>1, <1>2, <2>1, <2>2, <2>3, <2>4
          DEF Abstract!DeleteValue, Abstract!Remove, Abstract!Null, Abstract!Head, absRef
<1> QED BY <1>3, <1>4

LEMMA DeleteVariableIs ==
    ASSUME IInv, DoubleDeletes = FALSE, NEW v \in Vars, DeleteVariable(v)
    PROVE  Abstract!DeleteVariable(v)
<1>0. PICK t, p, n, q : t = VarType[v] /\ p = ref[v] /\ n = NameOf(p) /\ q = nodes[p].prev
  OBVIOUS
<1>1. absRef[v] = n /\ t \in Types /\ PointsAt(t, p) /\ IInv' /\ ~rewound[v]
  BY <1>0, Bounds, DeletesIInv DEF absRef, IInv, Pointers, DeleteVariable
<1>2. /\ n = -1 <=> p = 0
      /\ n = 0 <=> p # 0 /\ nodes[p].sentinel
      /\ Abstract!Dead(t, n) <=> p # 0 /\ nodes[p].deleted
      /\ p # 0 => p \in 1..brk /\ nodes[p].list = t
  BY <1>0, <1>1, NameOfPointer DEF PointsAt
<1>3. CASE DeleteFault(p) # "none"
  <2>1. Abstract!Fault(DeleteFault(p))
    BY <1>0, <1>3, FaultIs DEF DeleteVariable
  <2> QED BY <1>0, <1>1, <1>2, <1>3, <2>1
          DEF DeleteFault, Abstract!DeleteVariable, Abstract!Null, Abstract!Head, absRef
<1>4. CASE DeleteFault(p) = "none"
  <2>1. p # 0 /\ ~nodes[p].deleted /\ ~nodes[p].sentinel /\ p \in 1..brk
    BY <1>2, <1>4 DEF DeleteFault
  <2>2. p \in Linked(t) /\ q # 0 /\ q \in 1..brk
    BY <1>0, <1>2, <1>4, <2>1, Neighbours
  <2>3. Unlink(p) /\ ref' = [ref EXCEPT ![v] = q] /\ rewound' = [rewound EXCEPT ![v] = TRUE]
    BY <1>0, <1>4, <2>2 DEF DeleteVariable
  <2>4. Abstract!Remove(t, n) /\ \A r \in 0..brk : NameOf(r)' = NameOf(r)
    BY <1>0, <1>1, <1>2, <1>4, <2>1, <2>3, RemoveIs
  <2>5. NameOf(q) = IF Abstract!Before(t, n) = {} THEN 0 ELSE Abstract!Max(Abstract!Before(t, n))
    <3>1. NameOf(q) = 0 <=> nodes[q].sentinel
      BY <2>2, Names DEF Named
    <3> QED BY <1>0, <1>1, <2>1, <2>2, <3>1, PreviousOfLinked
  <2>6. absRef' = [absRef EXCEPT ![v] = NameOf(q)]
    <3>0. ref \in [Vars -> {0} \cup Addresses] /\ brk \in Nat
      BY Bounds DEF IInv, TypesHold
    <3>1. ASSUME NEW u \in Vars PROVE NameOf(ref[u])' = IF u = v THEN NameOf(q) ELSE NameOf(ref[u])
      <4>1. CASE u = v
        <5>1. NameOf(ref[u])' = NameOf(q)'
          BY <2>3, <3>0, <4>1 DEF NameOf
        <5> QED BY <2>2, <2>4, <3>0, <4>1, <5>1
      <4>2. CASE u # v
        BY <2>3, <2>4, <3>0, <4>2, RefsKept
      <4> QED BY <4>1, <4>2
    <3> QED BY <3>1 DEF absRef
  <2> QED BY <1>0, <1>1, <1>2, <2>1, <2>3, <2>4, <2>5, <2>6
          DEF Abstract!DeleteVariable, Abstract!Remove, Abstract!Null, Abstract!Head, absRef
<1> QED BY <1>3, <1>4

-----------------------------------------------------------------------------
(* The refinement.                                                         *)

LEMMA InitIs == Init => Abstract!Init
<1> SUFFICES ASSUME Init PROVE Abstract!Init
  OBVIOUS
<1>1. /\ born = 0 /\ brk = 0 /\ trap = "none"
      /\ ref = [v \in Vars |-> 0] /\ rewound = [v \in Vars |-> FALSE]
  BY DEF Init
<1>2. \A t \in Types : Live(t) = {}
  BY <1>1 DEF Live
<1>3. \A k \in Serials : ~(k <= born)
  BY <1>1 DEF Serials
<1>4. \A v \in Vars : NameOf(ref[v]) = -1
  BY <1>1 DEF NameOf
<1> QED BY <1>1, <1>2, <1>3, <1>4
        DEF Abstract!Init, Abstract!Null, Abstract!Serials, Abstract!Types, Serials, Types

LEMMA StepIs ==
    ASSUME IInv, DoubleDeletes = FALSE, MarkedAccesses = FALSE, Next
    PROVE  Abstract!Run(done')
<1>2. trap = "none"
  BY DEF Next
<1>3. CASE \E v \in Vars : New(v)
  <2>1. PICK v \in Vars : New(v)
    BY <1>3, SMTT(30)
  <2>2. done'.op = "New" /\ done'.v = v /\ done'.w = v
    BY <2>1 DEF New, Did
  <2>3. Abstract!New(v)
    BY <2>1, NewIs
  <2>4. Abstract!New(done'.v)
    BY <2>2, <2>3
  <2> QED BY <1>2, <2>2, <2>4 DEF Abstract!Run
<1>4. CASE \E v \in Vars : First(v)
  <2>1. PICK v \in Vars : First(v)
    BY <1>4
  <2>2. done'.op = "First" /\ done'.v = v /\ done'.w = v
    BY <2>1 DEF First, Did
  <2>3. Abstract!First(v)
    BY <2>1, ReadersAre
  <2>4. Abstract!First(done'.v)
    BY <2>2, <2>3
  <2> QED BY <1>2, <2>2, <2>4 DEF Abstract!Run
<1>5. CASE \E v \in Vars : Last(v)
  <2>1. PICK v \in Vars : Last(v)
    BY <1>5
  <2>2. done'.op = "Last" /\ done'.v = v /\ done'.w = v
    BY <2>1 DEF Last, Did
  <2>3. Abstract!Last(v)
    BY <2>1, ReadersAre
  <2>4. Abstract!Last(done'.v)
    BY <2>2, <2>3
  <2> QED BY <1>2, <2>2, <2>4 DEF Abstract!Run
<1>6. CASE \E v \in Vars : Clear(v)
  <2>1. PICK v \in Vars : Clear(v)
    BY <1>6
  <2>2. done'.op = "Clear" /\ done'.v = v /\ done'.w = v
    BY <2>1 DEF Clear, Did
  <2>3. Abstract!Clear(v)
    BY <2>1, ReadersAre
  <2>4. Abstract!Clear(done'.v)
    BY <2>2, <2>3
  <2> QED BY <1>2, <2>2, <2>4 DEF Abstract!Run
<1>7. CASE \E v, w \in Vars : Copy(v, w)
  <2>1. PICK v \in Vars, w \in Vars : Copy(v, w)
    BY <1>7
  <2>2. done'.op = "Copy" /\ done'.v = v /\ done'.w = w
    BY <2>1 DEF Copy, Did
  <2>3. Abstract!Copy(v, w)
    BY <2>1, ReadersAre
  <2>4. Abstract!Copy(done'.v, done'.w)
    BY <2>2, <2>3
  <2> QED BY <1>2, <2>2, <2>4 DEF Abstract!Run
<1>8. CASE \E v, w \in Vars : Next_(v, w)
  <2>1. PICK v \in Vars, w \in Vars : Next_(v, w)
    BY <1>8
  <2>2. done'.op = "Next" /\ done'.v = v /\ done'.w = w
    BY <2>1 DEF Next_, Did
  <2>3. Abstract!Next_(v, w)
    BY <2>1, ReadersAre
  <2>4. Abstract!Next_(done'.v, done'.w)
    BY <2>2, <2>3
  <2> QED BY <1>2, <2>2, <2>4 DEF Abstract!Run
<1>9. CASE \E v, w \in Vars : Previous(v, w)
  <2>1. PICK v \in Vars, w \in Vars : Previous(v, w)
    BY <1>9
  <2>2. done'.op = "Previous" /\ done'.v = v /\ done'.w = w
    BY <2>1 DEF Previous, Did
  <2>3. Abstract!Previous(v, w)
    BY <2>1, ReadersAre
  <2>4. Abstract!Previous(done'.v, done'.w)
    BY <2>2, <2>3
  <2> QED BY <1>2, <2>2, <2>4 DEF Abstract!Run
<1>10. CASE \E v, w \in Vars : ReadLink(v, w)
  <2>1. PICK v \in Vars, w \in Vars : ReadLink(v, w)
    BY <1>10
  <2>2. done'.op = "ReadLink" /\ done'.v = v /\ done'.w = w
    BY <2>1 DEF ReadLink, Did
  <2>3. Abstract!ReadLink(v, w)
    BY <2>1, ReadersAre
  <2>4. Abstract!ReadLink(done'.v, done'.w)
    BY <2>2, <2>3
  <2> QED BY <1>2, <2>2, <2>4 DEF Abstract!Run
<1>11. CASE \E v, w \in Vars : WriteLink(v, w)
  <2>1. PICK v \in Vars, w \in Vars : WriteLink(v, w)
    BY <1>11
  <2>2. done'.op = "WriteLink" /\ done'.v = v /\ done'.w = w
    BY <2>1 DEF WriteLink, Did
  <2>3. Abstract!WriteLink(v, w)
    BY <2>1, WriteLinkIs
  <2>4. Abstract!WriteLink(done'.v, done'.w)
    BY <2>2, <2>3 DEF Abstract!WriteLink
  <2> QED BY <1>2, <2>2, <2>4 DEF Abstract!Run
<1>12. CASE \E v \in Vars : DeleteVariable(v)
  <2>1. PICK v \in Vars : DeleteVariable(v)
    BY <1>12
  <2>2. done'.op = "DeleteVariable" /\ done'.v = v /\ done'.w = v
    BY <2>1 DEF DeleteVariable, Did
  <2>3. Abstract!DeleteVariable(v)
    BY <2>1, DeleteVariableIs
  <2>4. Abstract!DeleteVariable(done'.v)
    BY <2>2, <2>3 DEF Abstract!DeleteVariable, Abstract!Remove
  <2> QED BY <1>2, <2>2, <2>4 DEF Abstract!Run
<1>13. CASE \E v \in Vars : DeleteValue(v)
  <2>1. PICK v \in Vars : DeleteValue(v)
    BY <1>13
  <2>2. done'.op = "DeleteValue" /\ done'.v = v /\ done'.w = v
    BY <2>1 DEF DeleteValue, Did
  <2>3. Abstract!DeleteValue(v)
    BY <2>1, DeleteValueIs
  <2>4. Abstract!DeleteValue(done'.v)
    BY <2>2, <2>3 DEF Abstract!DeleteValue, Abstract!Remove
  <2> QED BY <1>2, <2>2, <2>4 DEF Abstract!Run
<1> QED BY <1>3, <1>4, <1>5, <1>6, <1>7, <1>8, <1>9, <1>10, <1>11, <1>12, <1>13 DEF Next

\* The native heap implements what a user Type promises for every program that
\* does not Delete a variable twice in a row, so both backends answer alike.
THEOREM Refinement ==
    DoubleDeletes = FALSE /\ MarkedAccesses = FALSE => (Spec => Refines)
<1> SUFFICES ASSUME DoubleDeletes = FALSE, MarkedAccesses = FALSE PROVE Spec => Refines
  OBVIOUS
<1>1. Init => IInv /\ Abstract!Init
  BY InitIInv, InitIs
<1>2. IInv /\ [Next]_vars => IInv' /\ [Abstract!Run(done')]_vars
  BY NextIInv, StepIs
<1> QED BY <1>1, <1>2, PTL DEF Spec, Refines
=============================================================================
