------------------------ MODULE InterpStorePlace_proofs ------------------------
(***************************************************************************)
(* For every number of instances and arrays, every store and every length  *)
(* of target: an assignment that traps changes nothing, and one that does  *)
(* not come back to a place it passed does what the compiled one does.     *)
(***************************************************************************)
EXTENDS InterpStorePlace, SequenceTheorems, WellFoundedInduction, TLAPS

-----------------------------------------------------------------------------
(* Stores: what each container may hold.  Void is there while a field is   *)
(* taken out; between statements no store holds one.                       *)
KeysOf(c) == IF c = Heap!Frame THEN {"obj", "arr", "rec"}
             ELSE IF c = Heap!Struct THEN {"link"}
             ELSE IF c \in Heap!Arrays THEN {"[0]"} ELSE {"link", "items"}

OfKey(k) == {Heap!Null} \cup Heap!OfType[Heap!KeyType[k]]
Cells == {Void, Heap!Null} \cup Heap!Containers
Rows == UNION {[KeysOf(c) -> Cells] : c \in Heap!Containers}

Stores == {s \in [Heap!Containers -> Rows] :
             \A c \in Heap!Containers :
               /\ s[c] \in [KeysOf(c) -> Cells]
               /\ \A k \in KeysOf(c) : s[c][k] \in OfKey(k) \cup {Void}}

Solid(s) == s \in Stores /\ \A c \in Heap!Containers : \A k \in KeysOf(c) : s[c][k] # Void

Put(s, c, k, v) == [s EXCEPT ![c][k] = v]

LEMMA Kinds ==
    /\ Heap!Frame \in Heap!Containers /\ Heap!Struct \in Heap!Containers
    /\ Heap!Instances \subseteq Heap!Containers /\ Heap!Arrays \subseteq Heap!Containers
    /\ Heap!Frame \notin Heap!Instances \cup Heap!Arrays \cup {Heap!Struct}
    /\ Heap!Struct \notin Heap!Instances \cup Heap!Arrays
    /\ Heap!Instances \cap Heap!Arrays = {}
    /\ Heap!Null \notin Heap!Containers /\ Void \notin Heap!Containers
    /\ Void # Heap!Null
    /\ Heap!Containers \subseteq Int
BY Bounds DEF Heap!Frame, Heap!Struct, Heap!Instances, Heap!Arrays, Heap!Containers,
              Heap!Null, Void

LEMMA OfKeyIn == \A c \in Heap!Containers : \A k \in KeysOf(c) : OfKey(k) \subseteq Cells
<1>1. \A k \in {"obj", "arr", "rec", "link", "items", "[0]"} :
        Heap!KeyType[k] \in {"array", "struct", "instance"}
  BY DEF Heap!KeyType, Heap!AllKeys
<1>2. \A c : KeysOf(c) \subseteq {"obj", "arr", "rec", "link", "items", "[0]"}
  BY DEF KeysOf
<1>3. \A y \in {"array", "struct", "instance"} : Heap!OfType[y] \subseteq Heap!Containers
  <2>1. /\ Heap!OfType["array"] = Heap!Arrays
        /\ Heap!OfType["struct"] = {Heap!Struct}
        /\ Heap!OfType["instance"] = Heap!Instances
    BY DEF Heap!OfType
  <2>2. /\ Heap!Arrays \subseteq Heap!Containers /\ {Heap!Struct} \subseteq Heap!Containers
        /\ Heap!Instances \subseteq Heap!Containers
    BY Kinds
  <2> TAKE y \in {"array", "struct", "instance"}
  <2>3. y = "array" \/ y = "struct" \/ y = "instance"
    OBVIOUS
  <2> QED BY ONLY <2>1, <2>2, <2>3
<1>4. \A k \in {"obj", "arr", "rec", "link", "items", "[0]"} :
        Heap!OfType[Heap!KeyType[k]] \subseteq Heap!Containers
  BY ONLY <1>1, <1>3
<1>5. \A k \in {"obj", "arr", "rec", "link", "items", "[0]"} : OfKey(k) \subseteq Cells
  BY ONLY <1>4 DEF OfKey, Cells
<1> QED BY ONLY <1>2, <1>5

\* A store is known by its cells.
LEMMA SameCells ==
    ASSUME NEW s \in Stores, NEW u \in Stores,
           \A c \in Heap!Containers : \A k \in KeysOf(c) : s[c][k] = u[c][k]
    PROVE  s = u
<1>1. ASSUME NEW c \in Heap!Containers PROVE s[c] = u[c]
  <2>1. s[c] \in [KeysOf(c) -> Cells] /\ u[c] \in [KeysOf(c) -> Cells]
    BY DEF Stores
  <2> QED BY <2>1
<1> QED BY <1>1 DEF Stores

\* Writing one cell.
LEMMA PutCell ==
    ASSUME NEW s \in Stores, NEW c \in Heap!Containers, NEW k \in KeysOf(c), NEW v,
           v \in OfKey(k) \cup {Void}
    PROVE  /\ Put(s, c, k, v) \in Stores
           /\ \A d \in Heap!Containers : \A j \in KeysOf(d) :
                Put(s, c, k, v)[d][j] = IF d = c /\ j = k THEN v ELSE s[d][j]
<1> DEFINE row == [s[c] EXCEPT ![k] = v]
           t == Put(s, c, k, v)
<1>1. s \in [Heap!Containers -> Rows] /\ \A d \in Heap!Containers : s[d] \in [KeysOf(d) -> Cells]
  BY DEF Stores
<1>2. v \in Cells
  BY OfKeyIn DEF Cells
<1>3. row \in [KeysOf(c) -> Cells]
  BY <1>1, <1>2
<1>4. row \in Rows
  BY <1>3 DEF Rows
<1>5. t = [s EXCEPT ![c] = row]
  BY DEF Put
<1>6. t \in [Heap!Containers -> Rows] /\ \A d \in Heap!Containers : t[d] = IF d = c THEN row ELSE s[d]
  <2> HIDE DEF row, t
  <2> QED BY <1>1, <1>4, <1>5
<1>7. \A j \in KeysOf(c) : row[j] = IF j = k THEN v ELSE s[c][j]
  BY <1>1
<1> HIDE DEF row, t
<1>8. \A d \in Heap!Containers : \A j \in KeysOf(d) : t[d][j] = IF d = c /\ j = k THEN v ELSE s[d][j]
  BY <1>6, <1>7
<1>9. \A d \in Heap!Containers : t[d] \in [KeysOf(d) -> Cells]
  BY <1>1, <1>3, <1>6
<1>10. \A d \in Heap!Containers : \A j \in KeysOf(d) : s[d][j] \in OfKey(j) \cup {Void}
  BY DEF Stores
<1>11. \A d \in Heap!Containers : \A j \in KeysOf(d) : t[d][j] \in OfKey(j) \cup {Void}
  BY <1>8, <1>10
<1>12. t \in Stores
  BY <1>6, <1>9, <1>11 DEF Stores
<1> QED BY <1>8, <1>12 DEF t

\* A cell put back as it was.
LEMMA PutUndone ==
    ASSUME NEW s \in Stores, NEW c \in Heap!Containers, NEW k \in KeysOf(c)
    PROVE  Put(Put(s, c, k, Void), c, k, s[c][k]) = s
<1> DEFINE t == Put(s, c, k, Void)
           u == Put(t, c, k, s[c][k])
<1>1. t \in Stores /\ \A d \in Heap!Containers : \A j \in KeysOf(d) :
                         t[d][j] = IF d = c /\ j = k THEN Void ELSE s[d][j]
  BY PutCell
<1>2. s[c][k] \in OfKey(k) \cup {Void}
  BY DEF Stores
<1> HIDE DEF t
<1>3. u \in Stores /\ \A d \in Heap!Containers : \A j \in KeysOf(d) :
                         u[d][j] = IF d = c /\ j = k THEN s[c][k] ELSE t[d][j]
  BY <1>1, <1>2, PutCell
<1> HIDE DEF u
<1>4. u = s
  BY <1>1, <1>3, SameCells
<1> QED BY <1>4 DEF u, t

\* Writes to two cells commute.
LEMMA PutsCommute ==
    ASSUME NEW s \in Stores,
           NEW c \in Heap!Containers, NEW k \in KeysOf(c), NEW v \in OfKey(k) \cup {Void},
           NEW d \in Heap!Containers, NEW j \in KeysOf(d), NEW w \in OfKey(j) \cup {Void},
           c # d \/ k # j
    PROVE  Put(Put(s, c, k, v), d, j, w) = Put(Put(s, d, j, w), c, k, v)
<1> DEFINE a == Put(s, c, k, v)
           b == Put(s, d, j, w)
           ab == Put(a, d, j, w)
           ba == Put(b, c, k, v)
<1>1. a \in Stores /\ \A e \in Heap!Containers : \A i \in KeysOf(e) :
                         a[e][i] = IF e = c /\ i = k THEN v ELSE s[e][i]
  BY PutCell
<1>2. b \in Stores /\ \A e \in Heap!Containers : \A i \in KeysOf(e) :
                         b[e][i] = IF e = d /\ i = j THEN w ELSE s[e][i]
  BY PutCell
<1> HIDE DEF a, b
<1>3. ab \in Stores /\ \A e \in Heap!Containers : \A i \in KeysOf(e) :
                         ab[e][i] = IF e = d /\ i = j THEN w ELSE a[e][i]
  BY <1>1, PutCell
<1>4. ba \in Stores /\ \A e \in Heap!Containers : \A i \in KeysOf(e) :
                         ba[e][i] = IF e = c /\ i = k THEN v ELSE b[e][i]
  BY <1>2, PutCell
<1> HIDE DEF ab, ba
<1>5. ab = ba
  BY <1>1, <1>2, <1>3, <1>4, SameCells
<1> QED BY <1>5 DEF ab, ba, a, b

-----------------------------------------------------------------------------
(* The places of a target, for a store and a set of deleted instances that *)
(* do not change.                                                          *)
FaultIn(d, val, k) ==
  IF val = Heap!Null THEN "null"
  ELSE IF val \in d THEN "deleted" ELSE IF k = "[1]" THEN "bounds" ELSE "none"

StepIn(s, d, place, k) ==
  IF place.fault # "none" THEN place
  ELSE IF FaultIn(d, s[place.at][place.key], k) # "none"
       THEN Heap!Lost(FaultIn(d, s[place.at][place.key], k))
       ELSE Heap!Place(s[place.at][place.key], k)

ArePlaces(at, s, d, p) ==
  at = [m \in 1..Len(p) |-> IF m = 1 THEN Heap!Place(Heap!Frame, p[1])
                            ELSE StepIn(s, d, at[m - 1], p[m])]

PlacesIn(s, d, p) == CHOOSE at : ArePlaces(at, s, d, p)

Below == {q \in Nat \X Nat : q[1] < q[2]}

LEMMA BelowWellFounded == IsWellFoundedOn(Below, Nat)
<1>1. OpToRel(<, Nat) = Below
  BY DEF OpToRel, Below
<1> QED BY Zenon, <1>1, NatLessThanWellFounded

\* Induction over 0..N.
LEMMA UpTo ==
    ASSUME NEW N \in Nat, NEW T, 0 \in T, \A i \in 0..(N - 1) : i \in T => i + 1 \in T
    PROVE  N \in T
<1> DEFINE D == {i \in Nat : i <= N /\ i \notin T}
<1>1. SUFFICES ASSUME N \notin T PROVE FALSE
  OBVIOUS
<1>2. PICK x \in D : \A y \in D : ~(<<y, x>> \in Below)
  <2>1. D \subseteq Nat /\ D # {}
    BY <1>1
  <2> HIDE DEF D
  <2> QED BY <2>1, BelowWellFounded, WFMin
<1>3. x \in Nat /\ x # 0 /\ x <= N /\ x \notin T
  BY <1>2
<1>4. x - 1 \in T
  <2>1. x - 1 \in Nat /\ <<x - 1, x>> \in Below
    BY <1>3 DEF Below
  <2> QED BY <1>2, <1>3, <2>1
<1>5. x - 1 \in 0..(N - 1) /\ (x - 1) + 1 = x
  BY <1>3
<1> QED BY <1>3, <1>4, <1>5

\* The recursion of PlaceAt is well defined.
LEMMA PlacesExist ==
    ASSUME NEW s, NEW d, NEW p, Len(p) \in Nat
    PROVE  ArePlaces(PlacesIn(s, d, p), s, d, p)
<1> DEFINE first == Heap!Place(Heap!Frame, p[1])
           step(x, m) == StepIn(s, d, x, p[m])
           rec(g, n) == g = [m \in 1..n |-> IF m = 1 THEN first ELSE step(g[m - 1], m)]
           T == {n \in Nat : \E g : rec(g, n)}
<1>1. 0 \in T
  <2> HIDE DEF first, step
  <2>1. rec(<<>>, 0)
    OBVIOUS
  <2> QED BY <2>1
<1>2. ASSUME NEW n \in 0..(Len(p) - 1), n \in T PROVE n + 1 \in T
  <2> HIDE DEF first, step
  <2>1. PICK g : rec(g, n)
    BY <1>2
  <2>2. n \in Nat
    OBVIOUS
  <2> DEFINE h == [m \in 1..(n + 1) |->
                     IF m = 1 THEN first ELSE IF m <= n THEN g[m] ELSE step(g[n], n + 1)]
  <2>3. \A m \in 1..(n + 1) : h[m] = IF m = 1 THEN first ELSE step(h[m - 1], m)
    <3>1. \A m \in 1..n : g[m] = IF m = 1 THEN first ELSE step(g[m - 1], m)
      BY <2>1
    <3>2. \A m \in 1..n : h[m] = g[m]
      BY <2>2, <3>1
    <3>3. ASSUME NEW m \in 1..(n + 1), m # 1 PROVE m - 1 \in 1..n
      BY <2>2, <3>3
    <3>4. h[n + 1] = IF n + 1 = 1 THEN first ELSE step(g[n], n + 1)
      BY <2>2
    <3> HIDE DEF h
    <3> TAKE m \in 1..(n + 1)
    <3>5. CASE m = n + 1
      BY <2>2, <3>2, <3>3, <3>4, <3>5
    <3>6. CASE m \in 1..n
      BY <2>2, <3>1, <3>2, <3>3, <3>6
    <3> QED BY <2>2, <3>5, <3>6
  <2>4. rec(h, n + 1)
    <3> DEFINE e == [m \in 1..(n + 1) |-> IF m = 1 THEN first ELSE step(h[m - 1], m)]
    <3>1. \A m \in 1..(n + 1) : h[m] = e[m]
      BY <2>3
    <3> QED BY <3>1
  <2>5. n + 1 \in Nat
    BY <2>2
  <2> HIDE DEF rec, h
  <2> QED BY <2>4, <2>5
<1>3. Len(p) \in T
  <2> HIDE DEF T
  <2> QED BY <1>1, <1>2, UpTo
<1>4. PICK g : rec(g, Len(p))
  BY <1>3
<1>5. ArePlaces(g, s, d, p)
  BY <1>4 DEF ArePlaces
<1> QED BY <1>5 DEF PlacesIn

LEMMA TargetIs ==
    ASSUME NEW p \in Heap!Targets
    PROVE  /\ p \in Seq(Heap!AllKeys) /\ Len(p) \in Nat /\ Len(p) >= 2
           /\ p[1] \in {"obj", "arr", "rec"}
           /\ \A n \in 2..Len(p) : p[n] \in Heap!Keys[Heap!KeyType[p[n - 1]]]
<1>1. PICK n \in 2..(MaxPath + 1) : p \in [1..n -> Heap!AllKeys]
  BY DEF Heap!Targets
<1>2. n \in Nat /\ n >= 2
  BY Bounds
<1>3. p \in Seq(Heap!AllKeys) /\ Len(p) = n
  BY <1>1, <1>2
<1> QED BY <1>2, <1>3 DEF Heap!Targets, Heap!Target

LEMMA NextPlace ==
    ASSUME NEW s, NEW d, NEW p, Len(p) \in Nat, NEW m \in 1..Len(p)
    PROVE  /\ m = 1 => PlacesIn(s, d, p)[m] = Heap!Place(Heap!Frame, p[1])
           /\ m # 1 => PlacesIn(s, d, p)[m] = StepIn(s, d, PlacesIn(s, d, p)[m - 1], p[m])
<1>1. PICK at : at = PlacesIn(s, d, p)
  OBVIOUS
<1>2. at = [n \in 1..Len(p) |-> IF n = 1 THEN Heap!Place(Heap!Frame, p[1])
                                ELSE StepIn(s, d, at[n - 1], p[n])]
  BY <1>1, PlacesExist DEF ArePlaces
<1> QED BY <1>1, <1>2

\* A walk that lost its way has no further place.
LEMMA StaysLost ==
    ASSUME NEW s, NEW d, NEW p, Len(p) \in Nat, NEW m \in 1..Len(p),
           PlacesIn(s, d, p)[m].fault # "none"
    PROVE  PlacesIn(s, d, p)[Len(p)] = PlacesIn(s, d, p)[m]
<1>1. PICK at : at = PlacesIn(s, d, p)
  OBVIOUS
<1> DEFINE T == {i \in Nat : at[m + i] = at[m]}
<1>2. 0 \in T
  OBVIOUS
<1>3. ASSUME NEW i \in 0..((Len(p) - m) - 1), i \in T PROVE i + 1 \in T
  <2>1. m + (i + 1) \in 1..Len(p) /\ m + (i + 1) # 1 /\ (m + (i + 1)) - 1 = m + i
    OBVIOUS
  <2>2. at[m + (i + 1)] = StepIn(s, d, at[(m + (i + 1)) - 1], p[m + (i + 1)])
    BY <1>1, <2>1, NextPlace, SMTT(30)
  <2>3. at[m + i] = at[m]
    BY <1>3
  <2>4. at[m + (i + 1)] = at[m]
    BY <1>1, <2>1, <2>2, <2>3 DEF StepIn
  <2> QED BY <2>4
<1>4. Len(p) - m \in Nat
  OBVIOUS
<1>5. Len(p) - m \in T
  <2> HIDE DEF T
  <2> QED BY <1>2, <1>3, <1>4, UpTo
<1>6. m + (Len(p) - m) = Len(p)
  OBVIOUS
<1> QED BY <1>1, <1>5, <1>6

\* From a place the walk reaches, the next one or the trap.
LEMMA Onward ==
    ASSUME NEW s, NEW d, NEW p, Len(p) \in Nat, NEW m \in 1..(Len(p) - 1), NEW val,
           PlacesIn(s, d, p)[m].fault = "none",
           val = s[PlacesIn(s, d, p)[m].at][PlacesIn(s, d, p)[m].key]
    PROVE  /\ FaultIn(d, val, p[m + 1]) = "none" =>
                PlacesIn(s, d, p)[m + 1] = [at |-> val, key |-> p[m + 1], fault |-> "none"]
           /\ FaultIn(d, val, p[m + 1]) # "none" =>
                PlacesIn(s, d, p)[Len(p)].fault = FaultIn(d, val, p[m + 1])
<1>1. PICK at : at = PlacesIn(s, d, p)
  OBVIOUS
<1>2. m + 1 \in 1..Len(p) /\ m + 1 # 1 /\ (m + 1) - 1 = m
  OBVIOUS
<1>3. at[m + 1] = StepIn(s, d, at[m], p[m + 1])
  BY <1>1, <1>2, NextPlace
<1>4. CASE FaultIn(d, val, p[m + 1]) = "none"
  BY <1>1, <1>3, <1>4 DEF StepIn, Heap!Place
<1>5. CASE FaultIn(d, val, p[m + 1]) # "none"
  <2>1. at[m + 1].fault = FaultIn(d, val, p[m + 1])
    BY <1>1, <1>3, <1>5 DEF StepIn, Heap!Lost
  <2>2. at[Len(p)] = at[m + 1]
    BY <1>1, <1>2, <1>5, <2>1, StaysLost
  <2> QED BY <1>1, <1>5, <2>1, <2>2
<1> QED BY <1>4, <1>5

\* The places of the abstract walk, in the store as the statement found it.
Found == IF walk = Idle THEN store ELSE walk.before

LEMMA AbstractPlaces ==
    \A p, n : Abstract!PlaceAt(p, n) = PlacesIn(Found, dead, p)[n]
BY DEF Abstract!PlaceAt, Abstract!Step, Abstract!StepFault, Abstract!Place, Abstract!Lost,
       Abstract!Null, Abstract!Frame, PlacesIn, ArePlaces, StepIn, FaultIn, Heap!Place,
       Heap!Lost, Heap!Null, Heap!Frame, Found

-----------------------------------------------------------------------------
(***************************************************************************)
(* The inductive invariant.  A suspended call knows what it took, so the   *)
(* stores through which the returns will lead are already determined: the  *)
(* one at the end of them is the store the statement found, if the walk    *)
(* trapped, and that store with the value assigned if it did not and never *)
(* came back to a place it passed.                                         *)
(***************************************************************************)
Call == [at : Heap!Containers, key : {"borrow"} \cup Heap!AllKeys, taken : Cells]
Took(call) == call.key # "borrow"
WellMade(call) ==
  Took(call) => /\ call.key \in KeysOf(call.at)
                /\ call.taken \in OfKey(call.key) \cup {Void}

Restored(s, call) ==
  [s EXCEPT ![call.at] = IF call.key = "borrow" THEN @
                         ELSE [@ EXCEPT ![call.key] = call.taken]]

\* h[n] is the store when n calls are left.
Unwinds(h, from, calls, to) ==
  /\ h \in [0..Len(calls) -> Stores]
  /\ h[0] = from /\ h[Len(calls)] = to
  /\ \A n \in 1..Len(calls) : h[n - 1] = Restored(h[n], calls[n])

Results == {"running", "none", "null", "deleted", "bounds", "panic", "not an object"}
Walks == [path : Heap!Targets, value : Cells, done : Nat, slot : Cells,
          calls : Seq(Call), result : Results, before : Stores]

Walking ==
  /\ trap = "none"
  /\ walk \in Walks
  /\ Solid(walk.before)
  /\ walk.value \in OfKey(walk.path[Len(walk.path)])
  /\ walk.value \in {Heap!Null, IF Heap!KeyType[Last(walk.path)] = "array"
                                THEN walk.before[Heap!Frame].arr
                                ELSE walk.before[Heap!Frame].obj}
  /\ walk.done \in 1..(Len(walk.path) - 1)
  /\ \A n \in 1..Len(walk.calls) : WellMade(walk.calls[n])
  /\ walk.result = "running" => walk.slot \in OfKey(walk.path[walk.done]) \cup {Void}

\* No field stays Void for good: every Void is a field some call holds, and
\* a walk that goes on holds no Void.
Covered ==
  walk.result \in {"running", "none"} =>
    \A c \in Heap!Containers : \A k \in KeysOf(c) :
      store[c][k] = Void =>
        \E n \in 1..Len(walk.calls) : walk.calls[n].at = c /\ walk.calls[n].key = k
FullHands ==
  (walk.result = "none" \/ (walk.result = "running" /\ walk.slot # Void)) =>
    \A n \in 1..Len(walk.calls) : Took(walk.calls[n]) => walk.calls[n].taken # Void

PutsBack ==
  walk.result # "none" => \E h : Unwinds(h, walk.before, walk.calls, store)

(***************************************************************************)
(* What a walk that comes back to no place has in common with the places   *)
(* of the abstract walk.  At(n) is the n-th of them, Into(n) the container *)
(* the n-th projection steps into.                                         *)
(***************************************************************************)
At(n) == PlacesIn(walk.before, dead, walk.path)[n]
Into(n) == walk.before[At(n - 1).at][walk.path[n - 1]]
Returns ==
  \E m, n \in 2..Len(walk.path) :
    /\ m < n /\ At(n - 1).fault = "none" /\ Into(m) = Into(n)
    /\ Into(m) \in Heap!Arrays \/ walk.path[m] = walk.path[n]

Reached ==
  /\ At(walk.done).fault = "none"
  /\ At(walk.done).key = walk.path[walk.done]
  /\ walk.slot = Into(walk.done + 1) /\ walk.slot # Void
Passed ==
  \A n \in 1..Len(walk.calls) :
    \E m \in 2..walk.done :
      /\ walk.calls[n].at = Into(m)
      /\ IF Took(walk.calls[n]) THEN walk.calls[n].key = walk.path[m]
         ELSE Into(m) \in Heap!Arrays
Untouched ==
  \A c \in Heap!Containers : \A k \in KeysOf(c) :
    \/ store[c][k] = walk.before[c][k]
    \/ \E n \in 1..Len(walk.calls) : walk.calls[n].at = c /\ walk.calls[n].key = k

Goal == At(Len(walk.path))
Done ==
  /\ Goal.fault = "none"
  /\ \E h : Unwinds(h, Put(walk.before, Goal.at, Goal.key, walk.value), walk.calls, store)

Straight ==
  ~Returns =>
    /\ walk.result = "running" => Reached /\ Passed /\ Untouched
    /\ walk.result = "none" => Done
    /\ walk.result \notin {"running", "none"} => Goal.fault = walk.result

IInv ==
  /\ store \in Stores
  /\ walk = Idle => Solid(store)
  /\ walk # Idle => Walking /\ Covered /\ FullHands /\ PutsBack /\ Straight

-----------------------------------------------------------------------------
(* The stores an unwinding goes through.                                   *)
LEMMA RestoredIs ==
    ASSUME NEW s \in Stores, NEW call \in Call, WellMade(call)
    PROVE  /\ Restored(s, call) \in Stores
           /\ ~Took(call) => Restored(s, call) = s
           /\ Took(call) => Restored(s, call) = Put(s, call.at, call.key, call.taken)
<1>1. CASE Took(call)
  <2>1. Restored(s, call) = Put(s, call.at, call.key, call.taken)
    BY <1>1 DEF Restored, Put, Took
  <2>2. call.at \in Heap!Containers
    BY DEF Call
  <2> QED BY <1>1, <2>1, <2>2, PutCell DEF WellMade
<1>2. CASE ~Took(call)
  <2>1. Restored(s, call) = [s EXCEPT ![call.at] = s[call.at]]
    BY <1>2 DEF Restored, Took
  <2>2. [s EXCEPT ![call.at] = s[call.at]] = s
    BY DEF Stores
  <2> QED BY <1>2, <2>1, <2>2
<1> QED BY <1>1, <1>2

LEMMA FrontOf ==
    ASSUME NEW calls \in Seq(Call), calls # <<>>
    PROVE  /\ Front(calls) \in Seq(Call) /\ Len(Front(calls)) = Len(calls) - 1
           /\ \A n \in 1..(Len(calls) - 1) : Front(calls)[n] = calls[n]
           /\ Last(calls) = calls[Len(calls)] /\ Len(calls) \in 1..Len(calls)
<1>1. Len(calls) \in Nat /\ Len(calls) >= 1
  OBVIOUS
<1>2. /\ Front(calls) \in Seq(Call) /\ Len(Front(calls)) = Len(calls) - 1
      /\ \A n \in 1..(Len(calls) - 1) : Front(calls)[n] = calls[n]
  <2>1. Front(calls) = SubSeq(calls, 1, Len(calls) - 1)
    BY DEF Front
  <2>2. 1 \in Int /\ Len(calls) - 1 \in Int /\ \A n \in 1..(Len(calls) - 1) : calls[n] \in Call
    BY <1>1
  <2>3. /\ SubSeq(calls, 1, Len(calls) - 1) \in Seq(Call)
        /\ Len(SubSeq(calls, 1, Len(calls) - 1)) = Len(calls) - 1
        /\ \A n \in 1..(Len(calls) - 1) : SubSeq(calls, 1, Len(calls) - 1)[n] = calls[n]
    <3>1. PICK m : m = Len(calls) - 1
      OBVIOUS
    <3>2. /\ SubSeq(calls, 1, m) \in Seq(Call)
          /\ Len(SubSeq(calls, 1, m)) = IF 1 <= m THEN m - 1 + 1 ELSE 0
          /\ \A n \in 1..(m - 1 + 1) : SubSeq(calls, 1, m)[n] = calls[1 + n - 1]
      BY <2>2, <3>1, SubSeqProperties
    <3>3. m \in Nat /\ m - 1 + 1 = m /\ \A n \in 1..m : 1 + n - 1 = n
      BY <1>1, <3>1
    <3> QED BY <3>1, <3>2, <3>3
  <2> QED BY <2>1, <2>3
<1>3. Last(calls) = calls[Len(calls)] /\ Len(calls) \in 1..Len(calls)
  BY <1>1 DEF Last
<1> QED BY <1>2, <1>3

LEMMA UnwindsPop ==
    ASSUME NEW h, NEW from, NEW to, NEW calls \in Seq(Call), calls # <<>>,
           Unwinds(h, from, calls, to)
    PROVE  /\ Front(calls) \in Seq(Call) /\ Len(Front(calls)) = Len(calls) - 1
           /\ \A n \in 1..(Len(calls) - 1) : Front(calls)[n] = calls[n]
           /\ Last(calls) = calls[Len(calls)] /\ Len(calls) \in 1..Len(calls)
           /\ \E g : Unwinds(g, from, Front(calls), Restored(to, Last(calls)))
<1> DEFINE g == [n \in 0..(Len(calls) - 1) |-> h[n]]
<1>1. Len(calls) \in Nat /\ Len(calls) >= 1
  OBVIOUS
<1>2. /\ Front(calls) \in Seq(Call) /\ Len(Front(calls)) = Len(calls) - 1
      /\ \A n \in 1..(Len(calls) - 1) : Front(calls)[n] = calls[n]
  BY FrontOf
<1>3. Last(calls) = calls[Len(calls)] /\ Len(calls) \in 1..Len(calls)
  BY FrontOf
<1>4. \A n \in 0..Len(calls) : h[n] \in Stores
  BY DEF Unwinds
<1>5. g \in [0..Len(Front(calls)) -> Stores]
  BY <1>1, <1>2, <1>4
<1>6. g[0] = from
  BY <1>1 DEF Unwinds
<1>7. h[Len(calls) - 1] = Restored(h[Len(calls)], calls[Len(calls)]) /\ h[Len(calls)] = to
  BY <1>3 DEF Unwinds
<1>8. g[Len(Front(calls))] = Restored(to, Last(calls))
  BY <1>1, <1>2, <1>3, <1>7
<1>9. ASSUME NEW n \in 1..Len(Front(calls))
      PROVE  g[n - 1] = Restored(g[n], Front(calls)[n])
  <2>1. n \in 1..(Len(calls) - 1) /\ n \in 1..Len(calls) /\ n - 1 \in 0..(Len(calls) - 1)
        /\ n \in 0..(Len(calls) - 1)
    BY <1>1, <1>2
  <2>2. h[n - 1] = Restored(h[n], calls[n])
    BY <2>1 DEF Unwinds
  <2> QED BY <1>2, <2>1, <2>2
<1>10. Unwinds(g, from, Front(calls), Restored(to, Last(calls)))
  <2> HIDE DEF g
  <2> QED BY <1>5, <1>6, <1>8, <1>9 DEF Unwinds
<1> QED BY <1>2, <1>3, <1>10

LEMMA UnwindsPush ==
    ASSUME NEW h, NEW from, NEW to, NEW calls \in Seq(Call), NEW call \in Call,
           NEW s \in Stores, Restored(s, call) = to, Unwinds(h, from, calls, to)
    PROVE  \E g : Unwinds(g, from, Append(calls, call), s)
<1> DEFINE N == Len(calls)
           more == Append(calls, call)
           g == [n \in 0..(N + 1) |-> IF n = N + 1 THEN s ELSE h[n]]
<1>1. N \in Nat
  OBVIOUS
<1>2. Len(more) = N + 1 /\ more[N + 1] = call /\ \A n \in 1..N : more[n] = calls[n]
  OBVIOUS
<1>3. \A n \in 0..N : h[n] \in Stores
  BY DEF Unwinds
<1> HIDE DEF more
<1>4. g \in [0..Len(more) -> Stores]
  BY <1>1, <1>2, <1>3
<1>5. g[0] = from /\ g[Len(more)] = s
  BY <1>1, <1>2 DEF Unwinds
<1>6. ASSUME NEW n \in 1..Len(more) PROVE g[n - 1] = Restored(g[n], more[n])
  <2>1. CASE n = N + 1
    <3>1. g[n - 1] = h[N] /\ g[n] = s /\ h[N] = to
      BY <1>1, <2>1 DEF Unwinds
    <3> QED BY <1>2, <2>1, <3>1
  <2>2. CASE n # N + 1
    <3>1. n \in 1..N /\ n - 1 \in 0..N /\ n \in 0..N
      BY <1>1, <1>2, <2>2
    <3>2. h[n - 1] = Restored(h[n], calls[n])
      BY <3>1 DEF Unwinds
    <3>3. g[n - 1] = h[n - 1] /\ g[n] = h[n]
      BY <1>1, <3>1
    <3> QED BY <1>2, <3>1, <3>2, <3>3
  <2> QED BY <2>1, <2>2
<1>7. Unwinds(g, from, more, s)
  <2> HIDE DEF g, N
  <2> QED BY <1>4, <1>5, <1>6 DEF Unwinds
<1> QED BY <1>7 DEF more

\* A write to a place no call holds survives the returns.
LEMMA UnwindsWrite ==
    ASSUME NEW h, NEW from, NEW to, NEW calls \in Seq(Call),
           \A n \in 1..Len(calls) : WellMade(calls[n]),
           NEW c \in Heap!Containers, NEW k \in KeysOf(c), NEW v \in OfKey(k),
           \A n \in 1..Len(calls) : ~(calls[n].at = c /\ calls[n].key = k),
           Unwinds(h, from, calls, to)
    PROVE  \E g : Unwinds(g, Put(from, c, k, v), calls, Put(to, c, k, v))
<1> DEFINE g == [n \in 0..Len(calls) |-> Put(h[n], c, k, v)]
<1>1. Len(calls) \in Nat
  OBVIOUS
<1>2. \A n \in 0..Len(calls) : h[n] \in Stores
  BY DEF Unwinds
<1>3. \A n \in 0..Len(calls) : Put(h[n], c, k, v) \in Stores
  BY <1>2, PutCell
<1>4. g \in [0..Len(calls) -> Stores]
  BY <1>3
<1>5. g[0] = Put(from, c, k, v) /\ g[Len(calls)] = Put(to, c, k, v)
  BY <1>1 DEF Unwinds
<1>6. ASSUME NEW n \in 1..Len(calls) PROVE g[n - 1] = Restored(g[n], calls[n])
  <2>1. n \in 0..Len(calls) /\ n - 1 \in 0..Len(calls) /\ calls[n] \in Call /\ WellMade(calls[n])
    BY <1>1
  <2>2. h[n] \in Stores /\ Put(h[n], c, k, v) \in Stores
    BY <1>2, <1>3, <2>1
  <2>3. h[n - 1] = Restored(h[n], calls[n])
    BY DEF Unwinds
  <2>4. g[n - 1] = Put(h[n - 1], c, k, v) /\ g[n] = Put(h[n], c, k, v)
    BY <2>1
  <2> HIDE DEF g
  <2>5. CASE ~Took(calls[n])
    <3>1. Restored(h[n], calls[n]) = h[n]
      BY <2>1, <2>2, <2>5, RestoredIs
    <3>2. Restored(g[n], calls[n]) = g[n]
      BY <2>1, <2>2, <2>4, <2>5, RestoredIs
    <3> QED BY <2>3, <2>4, <3>1, <3>2
  <2>6. CASE Took(calls[n])
    <3>1. PICK d, j, w : d = calls[n].at /\ j = calls[n].key /\ w = calls[n].taken
      OBVIOUS
    <3>2. d \in Heap!Containers /\ j \in KeysOf(d) /\ w \in OfKey(j) \cup {Void}
      BY <2>1, <2>6, <3>1 DEF Call, WellMade
    <3>3. Restored(h[n], calls[n]) = Put(h[n], d, j, w)
      BY <2>1, <2>2, <2>6, <3>1, RestoredIs
    <3>4. Restored(g[n], calls[n]) = Put(g[n], d, j, w)
      BY <2>1, <2>2, <2>4, <2>6, <3>1, RestoredIs
    <3>5. c # d \/ k # j
      BY <3>1
    <3>6. Put(Put(h[n], c, k, v), d, j, w) = Put(Put(h[n], d, j, w), c, k, v)
      BY <2>2, <3>2, <3>5, PutsCommute
    <3> QED BY <2>3, <2>4, <3>3, <3>4, <3>6
  <2> QED BY <2>5, <2>6
<1>7. Unwinds(g, Put(from, c, k, v), calls, Put(to, c, k, v))
  <2> HIDE DEF g
  <2> QED BY <1>4, <1>5, <1>6 DEF Unwinds
<1> QED BY <1>7

LEMMA UnwindsEmpty ==
    ASSUME NEW h, NEW from, NEW to, Unwinds(h, from, <<>>, to)
    PROVE  from = to
BY DEF Unwinds

-----------------------------------------------------------------------------
(* The statements that are no walk.                                        *)
LEMMA KeyTypes ==
    /\ Heap!KeyType["obj"] = "instance" /\ Heap!KeyType["arr"] = "array"
    /\ Heap!KeyType["rec"] = "struct" /\ Heap!KeyType["link"] = "instance"
    /\ Heap!KeyType["items"] = "array" /\ Heap!KeyType["[0]"] = "instance"
    /\ Heap!KeyType["[1]"] = "instance"
BY DEF Heap!KeyType, Heap!AllKeys

LEMMA Types ==
    /\ Heap!OfType["array"] = Heap!Arrays
    /\ Heap!OfType["struct"] = {Heap!Struct}
    /\ Heap!OfType["instance"] = Heap!Instances
    /\ Heap!Keys["array"] = {"[0]", "[1]"} /\ Heap!Keys["struct"] = {"link"}
    /\ Heap!Keys["instance"] = {"link", "items"}
BY DEF Heap!OfType, Heap!Keys

LEMMA PlainInit == Init => IInv
<1> SUFFICES ASSUME Init PROVE IInv
  OBVIOUS
<1>1. store = [c \in Heap!Containers |-> Heap!Empty(c)] /\ walk = Idle
  BY DEF Init, Heap!Init
<1>2. ASSUME NEW c \in Heap!Containers
      PROVE  /\ store[c] \in [KeysOf(c) -> Cells]
             /\ \A k \in KeysOf(c) : store[c][k] \in OfKey(k) /\ store[c][k] # Void
  <2>1. c \in Heap!Instances \/ c \in Heap!Arrays \/ c = Heap!Struct \/ c = Heap!Frame
    BY DEF Heap!Containers
  <2>2. store[c] = Heap!Empty(c)
    BY <1>1
  <2>3. CASE c \in Heap!Instances
    <3>1. store[c] = [link |-> Heap!Null, items |-> Heap!Null] /\ KeysOf(c) = {"link", "items"}
      BY <2>2, <2>3, Kinds DEF Heap!Empty, KeysOf
    <3> QED BY <3>1, Kinds DEF OfKey, Cells
  <2>4. CASE c \in Heap!Arrays
    <3>1. store[c] = [k \in {"[0]"} |-> Heap!Null] /\ KeysOf(c) = {"[0]"}
      BY <2>2, <2>4, Kinds DEF Heap!Empty, KeysOf
    <3> QED BY <3>1, Kinds DEF OfKey, Cells
  <2>5. CASE c = Heap!Struct
    <3>1. store[c] = [link |-> Heap!Null] /\ KeysOf(c) = {"link"}
      BY <2>2, <2>5, Kinds DEF Heap!Empty, KeysOf
    <3> QED BY <3>1, Kinds DEF OfKey, Cells
  <2>6. CASE c = Heap!Frame
    <3>1. store[c] = [obj |-> Heap!Null, arr |-> Heap!Null, rec |-> Heap!Struct]
      BY <2>2, <2>6, Kinds DEF Heap!Empty
    <3>2. KeysOf(c) = {"obj", "arr", "rec"}
      BY <2>6 DEF KeysOf
    <3>3. Heap!Struct \in OfKey("rec") /\ Heap!Struct # Void /\ Heap!Struct \in Cells
      BY KeyTypes, Types, Kinds DEF OfKey, Cells
    <3> QED BY <3>1, <3>2, <3>3, Kinds DEF OfKey, Cells
  <2> QED BY <2>1, <2>3, <2>4, <2>5, <2>6
<1>3. store \in Stores /\ Solid(store)
  <2>1. \A c \in Heap!Containers : store[c] \in Rows
    BY <1>2 DEF Rows
  <2>2. store \in [Heap!Containers -> Rows]
    BY <1>1, <2>1
  <2> QED BY <1>2, <2>2 DEF Stores, Solid
<1> QED BY <1>1, <1>3 DEF IInv

LEMMA SolidPut ==
    ASSUME NEW s, Solid(s), NEW c \in Heap!Containers, NEW k \in KeysOf(c), NEW v \in OfKey(k),
           v # Void
    PROVE  Solid(Put(s, c, k, v))
<1>1. s \in Stores /\ \A d \in Heap!Containers : \A j \in KeysOf(d) : s[d][j] # Void
  BY DEF Solid
<1>2. Put(s, c, k, v) \in Stores /\ \A d \in Heap!Containers : \A j \in KeysOf(d) :
        Put(s, c, k, v)[d][j] = IF d = c /\ j = k THEN v ELSE s[d][j]
  BY <1>1, PutCell
<1> QED BY <1>1, <1>2 DEF Solid

\* The variables the program assigns.
LEMMA Variables ==
    ASSUME NEW v \in {"obj", "arr"}
    PROVE  /\ v \in KeysOf(Heap!Frame)
           /\ Heap!OfType[Heap!KeyType[v]] \subseteq Nat
           /\ \A x \in OfKey(v) : x # Void
<1>1. v \in KeysOf(Heap!Frame)
  BY DEF KeysOf
<1>2. Heap!OfType[Heap!KeyType[v]] = Heap!Instances \/ Heap!OfType[Heap!KeyType[v]] = Heap!Arrays
  BY KeyTypes, Types
<1>3. Heap!Instances \subseteq Nat /\ Heap!Arrays \subseteq Nat
  BY Bounds DEF Heap!Instances, Heap!Arrays
<1>4. Heap!OfType[Heap!KeyType[v]] \subseteq Nat
  BY <1>2, <1>3
<1>5. Void \notin Nat /\ Heap!Null \in Nat
  BY DEF Void, Heap!Null
<1>6. \A x \in OfKey(v) : x \in Nat
  BY <1>4, <1>5 DEF OfKey
<1> QED BY <1>1, <1>4, <1>5, <1>6

LEMMA MinIn ==
    ASSUME NEW S, S \subseteq Nat, S # {}
    PROVE  Heap!Min(S) \in S
<1>1. PICK x \in S : \A y \in S : ~(<<y, x>> \in Below)
  BY BelowWellFounded, WFMin
<1>2. \A y \in S : x <= y
  <2>1. \A y \in S : y \in Nat /\ x \in Nat
    BY Zenon
  <2>2. ASSUME NEW y \in S, y < x PROVE <<y, x>> \in Below
    BY <2>1, <2>2 DEF Below
  <2>3. \A y \in S : ~(y < x)
    BY ONLY <1>1, <2>2
  <2> QED BY <2>1, <2>3
<1> QED BY <1>1, <1>2, Zenon DEF Heap!Min

LEMMA PlainSteps ==
    ASSUME IInv, walk = Idle,
           \/ \E v \in {"obj", "arr"} : New(v) \/ \E val \in Heap!Values : Assign(v, val)
           \/ \E c \in Heap!Instances : Delete(c)
    PROVE  IInv'
<1>1. Solid(store) /\ walk' = Idle
  BY DEF IInv, New, Assign, Delete
<1>2. \/ store' = store
      \/ \E v \in {"obj", "arr"} : \E x : x \in OfKey(v) /\ store' = Put(store, Heap!Frame, v, x)
  <2>1. ASSUME NEW v \in {"obj", "arr"}, New(v)
        PROVE  \E x : x \in OfKey(v) /\ store' = Put(store, Heap!Frame, v, x)
    <3>1. PICK fresh : fresh = Heap!OfType[Heap!KeyType[v]] \ born
      OBVIOUS
    <3>2. fresh # {} /\ store' = [store EXCEPT ![Heap!Frame][v] = Heap!Min(fresh)]
      BY <2>1, <3>1 DEF New, Heap!New
    <3>3. fresh \subseteq Nat
      BY <3>1, Variables
    <3>4. Heap!Min(fresh) \in fresh
      BY <3>2, <3>3, MinIn
    <3>5. Heap!Min(fresh) \in OfKey(v)
      BY <3>1, <3>4 DEF OfKey
    <3> QED BY <3>2, <3>5 DEF Put
  <2>2. ASSUME NEW v \in {"obj", "arr"}, NEW val, Assign(v, val)
        PROVE  val \in OfKey(v) /\ store' = Put(store, Heap!Frame, v, val)
    BY <2>2 DEF Assign, Heap!Assign, OfKey, Put
  <2>3. ASSUME NEW c, Delete(c) PROVE store' = store
    BY <2>3 DEF Delete, Heap!Delete
  <2> QED BY <2>1, <2>2, <2>3
<1>3. Solid(store')
  <2>1. CASE store' = store
    BY <1>1, <2>1
  <2>2. ASSUME NEW v \in {"obj", "arr"}, NEW x \in OfKey(v), store' = Put(store, Heap!Frame, v, x)
        PROVE  Solid(store')
    BY <1>1, <2>2, Variables, Kinds, SolidPut
  <2> QED BY <1>2, <2>1, <2>2
<1> QED BY <1>1, <1>3 DEF IInv, Solid

-----------------------------------------------------------------------------
(* The walk begins.                                                        *)
LEMMA KeysOfTargets ==
    ASSUME NEW p \in Heap!Targets, NEW n \in 1..Len(p)
    PROVE  /\ p[n] \in {"obj", "arr", "rec", "link", "items", "[0]", "[1]"}
           /\ n # 1 => p[n] \in {"link", "items", "[0]", "[1]"}
           /\ Heap!KeyType[p[n]] \in {"instance", "array", "struct"}
           /\ n # 1 => Heap!KeyType[p[n]] \in {"instance", "array"}
<1>1. n = 1 => p[n] \in {"obj", "arr", "rec"}
  BY TargetIs
<1>2. p[n] \in {"obj", "arr", "rec", "link", "items", "[0]", "[1]"}
  BY TargetIs DEF Heap!AllKeys
<1>3. Heap!KeyType[p[n]] \in {"instance", "array", "struct"}
  BY <1>2, KeyTypes
<1>4. ASSUME n # 1 PROVE p[n] \in {"link", "items", "[0]", "[1]"}
  <2>1. PICK m : m = n - 1
    OBVIOUS
  <2>2. n \in 2..Len(p) /\ m \in 1..Len(p)
    BY <1>4, <2>1
  <2>3. p[n] \in Heap!Keys[Heap!KeyType[p[m]]]
    BY <2>1, <2>2, TargetIs
  <2>4. p[m] \in {"obj", "arr", "rec", "link", "items", "[0]", "[1]"}
    BY <2>2, TargetIs DEF Heap!AllKeys
  <2>5. Heap!KeyType[p[m]] \in {"instance", "array", "struct"}
    BY <2>4, KeyTypes
  <2> QED BY <2>3, <2>5, Types
<1> QED BY <1>2, <1>3, <1>4, KeyTypes

LEMMA Assigned ==
    ASSUME NEW p \in Heap!Targets, Solid(store), NEW val \in Heap!RightHandSides(p)
    PROVE  /\ val \in OfKey(p[Len(p)])
           /\ val \in {Heap!Null, IF Heap!KeyType[Last(p)] = "array"
                                  THEN store[Heap!Frame].arr ELSE store[Heap!Frame].obj}
           /\ val \in Cells
<1>1. PICK k : k = p[Len(p)]
  OBVIOUS
<1>2. Heap!Last(p) = k /\ Last(p) = k
  BY <1>1 DEF Heap!Last, Last
<1>3. val \in {Heap!Null, IF Heap!KeyType[k] = "array"
                          THEN store[Heap!Frame].arr ELSE store[Heap!Frame].obj}
  BY <1>2 DEF Heap!RightHandSides
<1>4. Heap!KeyType[k] \in {"instance", "array"}
  BY <1>1, TargetIs, KeysOfTargets
<1>5. "arr" \in KeysOf(Heap!Frame) /\ "obj" \in KeysOf(Heap!Frame)
  BY DEF KeysOf
<1>6. /\ store[Heap!Frame]["arr"] \in OfKey("arr") \cup {Void}
      /\ store[Heap!Frame]["obj"] \in OfKey("obj") \cup {Void}
      /\ store[Heap!Frame]["arr"] # Void /\ store[Heap!Frame]["obj"] # Void
  BY <1>5, Kinds DEF Solid, Stores
<1>7. /\ store[Heap!Frame].arr \in OfKey("arr")
      /\ store[Heap!Frame].obj \in OfKey("obj")
  BY <1>6
<1>8. /\ OfKey("arr") = {Heap!Null} \cup Heap!OfType["array"]
      /\ OfKey("obj") = {Heap!Null} \cup Heap!OfType["instance"]
      /\ OfKey(k) = {Heap!Null} \cup Heap!OfType[Heap!KeyType[k]]
  BY KeyTypes DEF OfKey
<1>9. val \in OfKey(k)
  BY ONLY <1>3, <1>4, <1>7, <1>8
<1>10. OfKey(k) \subseteq Cells
  BY <1>4, <1>8, Types, Kinds DEF Cells
<1> QED BY <1>1, <1>2, <1>3, <1>9, <1>10

LEMMA StartStep ==
    ASSUME IInv, walk = Idle, trap = "none", NEW p \in Heap!Targets, NEW val, StorePlace(p, val)
    PROVE  IInv'
<1>1. /\ val \in Heap!RightHandSides(p)
      /\ walk' = [path |-> p, value |-> val, done |-> 1,
                  slot |-> store[Heap!Frame][p[1]], calls |-> <<>>,
                  result |-> "running", before |-> store]
      /\ store' = store /\ trap' = trap /\ dead' = dead
  BY DEF StorePlace
<1>2. /\ walk'.path = p /\ walk'.value = val /\ walk'.done = 1
      /\ walk'.slot = store[Heap!Frame][p[1]] /\ walk'.calls = <<>>
      /\ walk'.result = "running" /\ walk'.before = store
  BY <1>1
<1>3. Solid(store) /\ store \in Stores
  BY DEF IInv, Solid
<1>4. /\ p \in Seq(Heap!AllKeys) /\ Len(p) \in Nat /\ Len(p) >= 2
      /\ p[1] \in {"obj", "arr", "rec"}
  BY TargetIs
<1>5. p[1] \in KeysOf(Heap!Frame) /\ Heap!Frame \in Heap!Containers
  BY <1>4, Kinds DEF KeysOf
<1>6. /\ walk'.slot \in OfKey(p[1]) \cup {Void} /\ walk'.slot # Void /\ walk'.slot \in Cells
  <2>1. /\ store[Heap!Frame][p[1]] \in OfKey(p[1]) \cup {Void}
        /\ store[Heap!Frame][p[1]] # Void
    BY <1>3, <1>5 DEF Solid, Stores
  <2>2. OfKey(p[1]) \subseteq Cells
    BY <1>5, OfKeyIn
  <2> QED BY <1>2, <2>1, <2>2 DEF Cells
<1>7. Walking'
  <2>1. /\ val \in OfKey(p[Len(p)]) /\ val \in Cells
        /\ val \in {Heap!Null, IF Heap!KeyType[Last(p)] = "array"
                               THEN store[Heap!Frame].arr ELSE store[Heap!Frame].obj}
    BY <1>1, <1>3, Assigned
  <2>2. walk' \in Walks
    <3>1. <<>> \in Seq(Call) /\ "running" \in Results
      BY DEF Results
    <3> QED BY <1>1, <1>2, <1>3, <1>6, <2>1, <3>1 DEF Walks
  <2>3. walk'.done \in 1..(Len(walk'.path) - 1)
    BY <1>2, <1>4
  <2> QED BY <1>1, <1>2, <1>3, <1>6, <2>1, <2>2, <2>3 DEF Walking
<1>8. Covered' /\ FullHands'
  BY <1>1, <1>2, <1>3 DEF Covered, FullHands, Solid
<1>9. PutsBack'
  <2> DEFINE h == [n \in 0..0 |-> store]
  <2>1. Unwinds(h, store, <<>>, store)
    BY <1>3 DEF Unwinds
  <2> HIDE DEF h
  <2> QED BY <1>1, <1>2, <2>1 DEF PutsBack
<1>10. Reached' /\ Passed' /\ Untouched'
  <2>1. PlacesIn(store, dead, p)[1] = Heap!Place(Heap!Frame, p[1])
    BY <1>4, NextPlace
  <2>2. At(1)' = [at |-> Heap!Frame, key |-> p[1], fault |-> "none"]
    BY <1>1, <1>2, <2>1 DEF At, Heap!Place
  <2>3. Into(2)' = store[Heap!Frame][p[1]]
    BY <1>2, <2>2 DEF Into
  <2>4. Reached'
    BY <1>2, <1>6, <2>2, <2>3 DEF Reached
  <2>5. Passed' /\ Untouched'
    BY <1>1, <1>2 DEF Passed, Untouched
  <2> QED BY <2>4, <2>5
<1>11. Straight'
  BY <1>2, <1>10 DEF Straight
<1>12. walk' # Idle
  BY <1>2 DEF Idle
<1> QED BY <1>1, <1>3, <1>7, <1>8, <1>9, <1>11, <1>12 DEF IInv

-----------------------------------------------------------------------------
(* One call of store_walk.                                                 *)
LEMMA SameWalk ==
    ASSUME walk'.before = walk.before, walk'.path = walk.path, dead' = dead
    PROVE  /\ \A n : At(n)' = At(n) /\ Into(n)' = Into(n)
           /\ Returns' = Returns /\ Goal' = Goal
<1>1. \A n : At(n)' = At(n)
  BY DEF At
<1>2. \A n : Into(n)' = Into(n)
  BY <1>1 DEF Into
<1>3. Returns' = Returns
  BY <1>1, <1>2 DEF Returns
<1> QED BY <1>1, <1>2, <1>3 DEF Goal

LEMMA Running ==
    ASSUME IInv, walk.result = "running"
    PROVE  /\ walk # Idle /\ Walking /\ Covered /\ FullHands
           /\ \E h : Unwinds(h, walk.before, walk.calls, store)
           /\ ~Returns => Reached /\ Passed /\ Untouched
           /\ walk \in Walks /\ store \in Stores /\ Solid(walk.before)
           /\ walk.path \in Heap!Targets /\ walk.calls \in Seq(Call)
           /\ walk.done \in Nat /\ Len(walk.path) \in Nat
           /\ walk.done \in 1..(Len(walk.path) - 1) /\ walk.done + 1 \in 2..Len(walk.path)
           /\ \A n \in 1..Len(walk.calls) : WellMade(walk.calls[n])
<1>1. walk # Idle
  BY DEF Idle
<1>2. Walking /\ Covered /\ FullHands /\ PutsBack /\ Straight /\ store \in Stores
  BY <1>1 DEF IInv
<1>3. \E h : Unwinds(h, walk.before, walk.calls, store)
  BY <1>2 DEF PutsBack
<1>4. ~Returns => Reached /\ Passed /\ Untouched
  BY <1>2 DEF Straight
<1>5. /\ walk \in Walks /\ Solid(walk.before) /\ walk.done \in 1..(Len(walk.path) - 1)
      /\ \A n \in 1..Len(walk.calls) : WellMade(walk.calls[n])
  BY <1>2 DEF Walking
<1>6. walk.path \in Heap!Targets /\ walk.calls \in Seq(Call) /\ walk.done \in Nat
  BY <1>5 DEF Walks
<1>7. Len(walk.path) \in Nat
  BY <1>6, TargetIs
<1>8. walk.done + 1 \in 2..Len(walk.path)
  BY <1>5, <1>6, <1>7
<1> QED BY <1>1, <1>2, <1>3, <1>4, <1>5, <1>6, <1>7, <1>8

\* What the guards of the walk establish.
LEMMA NoFault ==
    ASSUME IInv, walk.result = "running", Fault = "none"
    PROVE  /\ walk.slot \in Heap!Containers /\ Key \in KeysOf(walk.slot)
           /\ walk.slot # Void
           /\ FaultIn(dead, walk.slot, Key) = "none"
           /\ Key \in {"link", "items", "[0]", "[1]"}
           /\ store[walk.slot][Key] \in OfKey(Key) \cup {Void}
           /\ store[walk.slot][Key] \in Cells
<1>1. /\ walk.path \in Heap!Targets /\ walk.done + 1 \in 2..Len(walk.path)
      /\ walk.done \in Nat /\ walk.done \in 1..(Len(walk.path) - 1)
      /\ Walking /\ Len(walk.path) \in Nat /\ store \in Stores
  BY Running
<1>2. walk.slot \in OfKey(walk.path[walk.done]) \cup {Void}
  BY <1>1 DEF Walking
<1>3. walk.slot # Void /\ Heap!StepFault(walk.slot, Key) = "none"
  BY DEF Fault
<1>4. FaultIn(dead, walk.slot, Key) = "none" /\ walk.slot # Heap!Null /\ Key # "[1]"
  BY <1>3 DEF Heap!StepFault, FaultIn
<1>5. PICK y : y = Heap!KeyType[walk.path[walk.done]]
  OBVIOUS
<1>6. y \in {"instance", "array", "struct"}
  BY <1>1, <1>5, KeysOfTargets, SMTT(30)
<1>7. Key \in Heap!Keys[y]
  <2>1. PICK m : m = walk.done + 1
    OBVIOUS
  <2>2. m \in 2..Len(walk.path) /\ m - 1 = walk.done
    BY <1>1, <2>1
  <2>3. walk.path[m] \in Heap!Keys[Heap!KeyType[walk.path[m - 1]]]
    BY <1>1, <2>2, TargetIs
  <2> QED BY <1>5, <2>1, <2>2, <2>3 DEF Key
<1>8. walk.slot \in Heap!OfType[y]
  BY <1>2, <1>3, <1>4, <1>5 DEF OfKey
<1>9. walk.slot \in Heap!Containers /\ Key \in KeysOf(walk.slot)
  <2>1. CASE y = "instance"
    BY <1>7, <1>8, <2>1, Types, Kinds DEF KeysOf
  <2>2. CASE y = "array"
    BY <1>4, <1>7, <1>8, <2>2, Types, Kinds DEF KeysOf
  <2>3. CASE y = "struct"
    BY <1>7, <1>8, <2>3, Types, Kinds DEF KeysOf
  <2> QED BY <1>6, <2>1, <2>2, <2>3
<1>10. Key \in {"link", "items", "[0]", "[1]"}
  BY <1>6, <1>7, Types
<1>11. store[walk.slot][Key] \in OfKey(Key) \cup {Void}
  BY <1>1, <1>9 DEF Stores
<1>12. store[walk.slot][Key] \in Cells
  BY <1>9, <1>11, OfKeyIn DEF Cells
<1> QED BY <1>3, <1>4, <1>9, <1>10, <1>11, <1>12

\* A walk that never comes back finds the place it steps into as it was.
LEMMA Fresh ==
    ASSUME IInv, walk.result = "running", ~Returns
    PROVE  /\ walk.slot # Void
           /\ \A n \in 1..Len(walk.calls) :
                walk.calls[n].at = walk.slot =>
                  /\ walk.calls[n].key # Key
                  /\ walk.slot \in Heap!Arrays => Took(walk.calls[n])
<1>1. Reached /\ Passed
  BY Running
<1>2. walk.done + 1 \in 2..Len(walk.path) /\ walk.done \in Nat
  BY Running
<1>3. PICK d : d = walk.done + 1
  OBVIOUS
<1>4. d \in 2..Len(walk.path) /\ d - 1 = walk.done /\ Key = walk.path[d]
  BY <1>2, <1>3 DEF Key
<1>5. walk.slot = Into(d) /\ At(d - 1).fault = "none" /\ walk.slot # Void
  BY <1>1, <1>3, <1>4 DEF Reached
<1>6. ASSUME NEW n \in 1..Len(walk.calls), walk.calls[n].at = walk.slot
      PROVE  /\ walk.calls[n].key # Key
             /\ walk.slot \in Heap!Arrays => Took(walk.calls[n])
  <2>1. PICK m \in 2..walk.done :
           /\ walk.calls[n].at = Into(m)
           /\ IF Took(walk.calls[n]) THEN walk.calls[n].key = walk.path[m]
              ELSE Into(m) \in Heap!Arrays
    BY <1>1 DEF Passed
  <2>2. m \in 2..Len(walk.path) /\ m < d
    BY <1>2, <1>3, <1>4, <2>1, SMTT(30)
  <2>3. Into(m) = Into(d)
    BY <1>5, <1>6, <2>1
  <2>4. ~(Into(m) \in Heap!Arrays \/ walk.path[m] = walk.path[d])
    BY <1>4, <1>5, <2>2, <2>3 DEF Returns
  <2>5. walk.calls[n].key # Key
    BY <1>4, <2>1, <2>4
  <2> QED BY <1>5, <2>1, <2>3, <2>4, <2>5
<1> QED BY <1>5, <1>6

\* The next place of the abstract walk, or its trap.
LEMMA Ahead ==
    ASSUME IInv, walk.result = "running", ~Returns
    PROVE  /\ FaultIn(dead, walk.slot, Key) = "none" =>
                At(walk.done + 1) = [at |-> walk.slot, key |-> Key, fault |-> "none"]
           /\ FaultIn(dead, walk.slot, Key) # "none" =>
                Goal.fault = FaultIn(dead, walk.slot, Key)
<1>1. PICK p, v, s, d, m :
         p = walk.path /\ v = walk.slot /\ s = walk.before /\ d = dead /\ m = walk.done
  OBVIOUS
<1>2. Reached /\ m \in 1..(Len(p) - 1) /\ Len(p) \in Nat
  BY <1>1, Running
<1>3. At(m).fault = "none" /\ v = s[At(m).at][At(m).key]
  <2>1. (m + 1) - 1 = m
    BY <1>2
  <2> QED BY <1>1, <1>2, <2>1 DEF Reached, Into
<1>4. PlacesIn(s, d, p)[m].fault = "none"
  BY <1>1, <1>3 DEF At
<1>5. v = s[PlacesIn(s, d, p)[m].at][PlacesIn(s, d, p)[m].key]
  BY <1>1, <1>3 DEF At
<1>6. Len(p) \in Nat /\ m \in 1..(Len(p) - 1)
  BY <1>2
<1>7. /\ FaultIn(d, v, p[m + 1]) = "none" =>
           PlacesIn(s, d, p)[m + 1] = [at |-> v, key |-> p[m + 1], fault |-> "none"]
      /\ FaultIn(d, v, p[m + 1]) # "none" =>
           PlacesIn(s, d, p)[Len(p)].fault = FaultIn(d, v, p[m + 1])
  BY ONLY <1>4, <1>5, <1>6, Onward
<1> QED BY <1>1, <1>7 DEF At, Goal, Key

LEMMA FailStep ==
    ASSUME IInv, walk.result = "running", Fail
    PROVE  IInv'
<1>1. /\ Fault # "none" /\ walk' = [walk EXCEPT !.result = Fault]
      /\ store' = store /\ trap' = trap /\ dead' = dead
  BY DEF Fail
<1>2. PICK f : f = Fault
  OBVIOUS
<1>3. f \in Results /\ f # "running" /\ f # "none"
  BY <1>1, <1>2 DEF Fault, Heap!StepFault, Results
<1>4. /\ walk \in Walks /\ walk # Idle /\ Walking /\ store \in Stores
      /\ \E h : Unwinds(h, walk.before, walk.calls, store)
  BY Running
<1>5. /\ walk'.path = walk.path /\ walk'.value = walk.value /\ walk'.done = walk.done
      /\ walk'.slot = walk.slot /\ walk'.calls = walk.calls /\ walk'.before = walk.before
      /\ walk'.result = f /\ walk' \in Walks
  BY <1>1, <1>2, <1>3, <1>4 DEF Walks
<1>6. Walking'
  BY <1>1, <1>3, <1>4, <1>5 DEF Walking
<1>7. Covered' /\ FullHands' /\ PutsBack'
  BY <1>1, <1>3, <1>4, <1>5 DEF Covered, FullHands, PutsBack
<1>8. ASSUME ~Returns PROVE Goal.fault = f
  <2>1. walk.slot # Void /\ ~(walk.slot \in Heap!Arrays /\ Borrowed(walk.slot))
    <3>1. walk.slot # Void
      BY <1>8, Fresh
    <3>2. ASSUME walk.slot \in Heap!Arrays, Borrowed(walk.slot) PROVE FALSE
      <4>1. walk.calls \in Seq(Call)
        BY Running
      <4>2. PICK n \in 1..Len(walk.calls) :
               walk.calls[n] = [at |-> walk.slot, key |-> "borrow", taken |-> Void]
        BY <3>2, <4>1 DEF Borrowed
      <4> QED BY <1>8, <3>2, <4>2, Fresh DEF Took
    <3> QED BY <3>1, <3>2
  <2>2. f = FaultIn(dead, walk.slot, Key)
    BY <1>2, <2>1 DEF Fault, Heap!StepFault, FaultIn
  <2>3. Goal.fault = FaultIn(dead, walk.slot, Key)
    BY <1>2, <1>3, <1>8, <2>2, Ahead
  <2> QED BY <2>2, <2>3
<1>9. Straight'
  <2>1. Returns' = Returns /\ Goal' = Goal
    BY <1>1, <1>5, SameWalk
  <2> QED BY <1>3, <1>5, <1>8, <2>1 DEF Straight
<1>10. walk' # Idle
  <2>1. Idle.result = "idle" /\ f # "idle"
    BY <1>3 DEF Idle, Results
  <2> QED BY <1>5, <2>1
<1> QED BY <1>1, <1>4, <1>6, <1>7, <1>9, <1>10 DEF IInv

LEMMA NoVoid ==
    ASSUME NEW k \in {"link", "items", "[0]", "[1]"}
    PROVE  Void \notin OfKey(k)
BY KeyTypes, Types, Kinds DEF OfKey

LEMMA WriteStep ==
    ASSUME IInv, walk.result = "running", Write
    PROVE  IInv'
<1>1. PICK c, k, v, calls :
         c = walk.slot /\ k = Key /\ v = walk.value /\ calls = walk.calls
  OBVIOUS
<1>2. /\ Fault = "none" /\ IsLast /\ store' = Put(store, c, k, v)
      /\ walk' = [walk EXCEPT !.result = "none"] /\ trap' = trap /\ dead' = dead
  BY <1>1 DEF Write, Put
<1>3. /\ walk \in Walks /\ walk # Idle /\ Walking /\ store \in Stores /\ calls \in Seq(Call)
      /\ \A n \in 1..Len(calls) : WellMade(calls[n])
      /\ Covered /\ FullHands
  BY <1>1, Running
<1>4. /\ walk'.path = walk.path /\ walk'.value = v /\ walk'.done = walk.done
      /\ walk'.slot = c /\ walk'.calls = calls /\ walk'.before = walk.before
      /\ walk'.result = "none" /\ walk' \in Walks
  <2>1. "none" \in Results
    BY DEF Results
  <2> QED BY <1>1, <1>2, <1>3, <2>1 DEF Walks
<1>5. /\ c \in Heap!Containers /\ k \in KeysOf(c) /\ c # Void
      /\ FaultIn(dead, c, k) = "none" /\ k \in {"link", "items", "[0]", "[1]"}
  BY <1>1, <1>2, NoFault
<1>6. v \in OfKey(k) /\ v # Void
  <2>1. k = walk.path[Len(walk.path)]
    BY <1>1, <1>2 DEF IsLast, Key
  <2>2. v \in OfKey(walk.path[Len(walk.path)])
    BY <1>1, <1>3 DEF Walking
  <2> QED BY <1>5, <2>1, <2>2, NoVoid
<1>7. /\ store' \in Stores
      /\ \A e \in Heap!Containers : \A j \in KeysOf(e) :
           store'[e][j] = IF e = c /\ j = k THEN v ELSE store[e][j]
  BY <1>2, <1>3, <1>5, <1>6, PutCell
<1>8. Walking'
  <2>1. walk'.value = walk.value /\ walk'.calls = walk.calls
    BY <1>1, <1>4
  <2> QED BY <1>2, <1>3, <1>4, <2>1 DEF Walking
<1>9. Covered' /\ FullHands'
  <2>1. \A e \in Heap!Containers : \A j \in KeysOf(e) :
          store[e][j] = Void => \E n \in 1..Len(calls) : calls[n].at = e /\ calls[n].key = j
    BY <1>1, <1>3 DEF Covered
  <2>2. \A n \in 1..Len(calls) : Took(calls[n]) => calls[n].taken # Void
    BY <1>1, <1>3, <1>5 DEF FullHands
  <2>3. Covered'
    BY <1>4, <1>6, <1>7, <2>1 DEF Covered
  <2>4. FullHands'
    BY <1>4, <2>2 DEF FullHands
  <2> QED BY <2>3, <2>4
<1>10. PutsBack'
  BY <1>4 DEF PutsBack
<1>11. ASSUME ~Returns
       PROVE  /\ Goal.fault = "none"
              /\ \E h : Unwinds(h, Put(walk.before, Goal.at, Goal.key, v), calls, store')
  <2>1. PICK from : from = walk.before
    OBVIOUS
  <2>2. PICK h : Unwinds(h, from, calls, store)
    BY <1>1, <2>1, Running
  <2>3. At(walk.done + 1) = [at |-> c, key |-> k, fault |-> "none"]
    BY <1>1, <1>5, <1>11, Ahead
  <2>4. Goal = [at |-> c, key |-> k, fault |-> "none"]
    BY <1>2, <2>3 DEF Goal, IsLast
  <2>5. \A n \in 1..Len(calls) : ~(calls[n].at = c /\ calls[n].key = k)
    BY <1>1, <1>11, Fresh
  <2>6. PICK s : s = store
    OBVIOUS
  <2>7. \E g : Unwinds(g, Put(from, c, k, v), calls, Put(s, c, k, v))
    <3>1. Unwinds(h, from, calls, s)
      BY <2>2, <2>6
    <3>2. calls \in Seq(Call) /\ \A n \in 1..Len(calls) : WellMade(calls[n])
      BY <1>3
    <3>3. c \in Heap!Containers /\ k \in KeysOf(c) /\ v \in OfKey(k)
      BY <1>5, <1>6
    <3> QED BY ONLY <2>5, <3>1, <3>2, <3>3, UnwindsWrite
  <2> QED BY <1>2, <2>1, <2>4, <2>6, <2>7
<1>12. Straight'
  <2>1. Returns' = Returns /\ Goal' = Goal
    BY <1>2, <1>4, SameWalk
  <2>2. ~Returns => Done'
    BY <1>4, <1>11, <2>1 DEF Done
  <2> QED BY <1>4, <2>1, <2>2 DEF Straight
<1>13. walk' # Idle
  <2>1. Idle.result = "idle"
    BY DEF Idle
  <2> QED BY <1>4, <2>1
<1> QED BY <1>7, <1>8, <1>9, <1>10, <1>12, <1>13 DEF IInv

\* A step into the container the slot names; more is the calls suspended then.
LEMMA Entered ==
    ASSUME IInv, walk.result = "running", Fault = "none", ~IsLast, dead' = dead, trap' = trap,
           NEW x, x = store[walk.slot][Key],
           NEW more \in Seq(Call), \A n \in 1..Len(more) : WellMade(more[n]),
           walk' = [walk EXCEPT !.done = @ + 1, !.slot = x, !.calls = more]
    PROVE  /\ walk'.path = walk.path /\ walk'.value = walk.value /\ walk'.done = walk.done + 1
           /\ walk'.slot = x /\ walk'.calls = more /\ walk'.before = walk.before
           /\ walk'.result = "running" /\ walk' # Idle
           /\ Walking' /\ PutsBack' = \E h : Unwinds(h, walk.before, more, store')
           /\ ~Returns => Untouched
           /\ ~Returns => x = walk.before[walk.slot][Key] /\ Reached'
<1>1. PICK c, k, d : c = walk.slot /\ k = Key /\ d = walk.done
  OBVIOUS
<1>2. /\ walk \in Walks /\ Walking /\ store \in Stores /\ walk.path \in Heap!Targets
      /\ d \in Nat /\ d + 1 \in 2..Len(walk.path) /\ Len(walk.path) \in Nat
  BY <1>1, Running
<1>3. /\ c \in Heap!Containers /\ k \in KeysOf(c) /\ FaultIn(dead, c, k) = "none"
      /\ x \in OfKey(k) \cup {Void} /\ x \in Cells
  BY <1>1, NoFault
<1>4. /\ walk'.path = walk.path /\ walk'.value = walk.value /\ walk'.done = d + 1
      /\ walk'.slot = x /\ walk'.calls = more /\ walk'.before = walk.before
      /\ walk'.result = "running" /\ walk' \in Walks
  <2>1. /\ walk.path \in Heap!Targets /\ walk.value \in Cells /\ walk.result \in Results
        /\ walk.before \in Stores /\ d + 1 \in Nat
    BY <1>2 DEF Walks
  <2>2. walk' = [path |-> walk.path, value |-> walk.value, done |-> d + 1, slot |-> x,
                 calls |-> more, result |-> walk.result, before |-> walk.before]
    BY <1>1, <1>2 DEF Walks
  <2>3. walk' \in Walks
    <3>1. x \in Cells /\ more \in Seq(Call)
      BY <1>3
    <3> QED BY ONLY <2>1, <2>2, <3>1 DEF Walks
  <2>4. walk.result = "running"
    OBVIOUS
  <2> QED BY ONLY <2>2, <2>3, <2>4
<1>5. walk' # Idle
  <2>1. Idle.result = "idle"
    BY DEF Idle
  <2> QED BY <1>4, <2>1
<1>6. Walking'
  <2>1. d + 1 \in 1..(Len(walk.path) - 1)
    BY <1>1, <1>2 DEF IsLast
  <2>2. k = walk.path[d + 1]
    BY <1>1 DEF Key
  <2> QED BY <1>2, <1>3, <1>4, <2>1, <2>2 DEF Walking
<1>7. PutsBack' = \E h : Unwinds(h, walk.before, more, store')
  <2>1. PutsBack' <=> \E h : Unwinds(h, walk.before, more, store')
    BY <1>4 DEF PutsBack
  <2>2. PutsBack' \in BOOLEAN /\ (\E h : Unwinds(h, walk.before, more, store')) \in BOOLEAN
    BY DEF PutsBack
  <2> QED BY <2>1, <2>2
<1>8. ASSUME ~Returns PROVE Untouched /\ x = walk.before[c][k] /\ Reached'
  <2>1. Untouched /\ \A n \in 1..Len(walk.calls) : ~(walk.calls[n].at = c /\ walk.calls[n].key = k)
    BY <1>1, <1>8, Running, Fresh
  <2>2. x = walk.before[c][k]
    BY <1>1, <1>3, <2>1 DEF Untouched
  <2>3. x # Void
    BY <1>2, <1>3, <2>2, Running DEF Solid
  <2>4. At(d + 1) = [at |-> c, key |-> k, fault |-> "none"]
    BY <1>1, <1>3, <1>8, Ahead
  <2>5. At(d + 1)' = At(d + 1) /\ Into(d + 2)' = Into(d + 2)
    BY <1>4, SameWalk
  <2>6. Into(d + 2) = walk.before[c][walk.path[d + 1]] /\ k = walk.path[d + 1]
    <3>1. (d + 2) - 1 = d + 1
      BY <1>2
    <3> QED BY <1>1, <2>4, <3>1 DEF Into, Key
  <2>7. (d + 1) + 1 = d + 2
    BY <1>2
  <2>8. /\ At(walk.done)' = [at |-> c, key |-> k, fault |-> "none"]
        /\ Into(walk.done + 1)' = x /\ walk'.path[walk'.done] = k
    <3>1. At(walk.done)' = At(d + 1)'
      BY <1>4, SMTT(30) DEF At
    <3>2. Into(walk.done + 1)' = Into(d + 2)'
      BY <1>4, <2>7 DEF Into, At
    <3> QED BY <1>4, <2>2, <2>4, <2>5, <2>6, <3>1, <3>2
  <2>9. Reached'
    BY <1>4, <2>3, <2>8 DEF Reached
  <2> QED BY <2>1, <2>2, <2>9
<1> QED BY <1>1, <1>4, <1>5, <1>6, <1>7, <1>8

LEMMA EnterStructStep ==
    ASSUME IInv, walk.result = "running", EnterStruct
    PROVE  IInv'
<1>1. PICK x, calls : x = store[walk.slot][Key] /\ calls = walk.calls
  OBVIOUS
<1>2. /\ Fault = "none" /\ ~IsLast /\ store' = store /\ trap' = trap /\ dead' = dead
      /\ walk' = [walk EXCEPT !.done = @ + 1, !.slot = x]
  BY <1>1 DEF EnterStruct
<1>3. /\ walk \in Walks /\ calls \in Seq(Call) /\ \A n \in 1..Len(calls) : WellMade(calls[n])
      /\ walk.slot # Void /\ Covered /\ FullHands /\ store \in Stores /\ walk.done \in Nat
      /\ \E h : Unwinds(h, walk.before, calls, store)
      /\ ~Returns => Passed
  BY <1>1, <1>2, Running, NoFault
<1>4. walk' = [walk EXCEPT !.done = @ + 1, !.slot = x, !.calls = calls]
  BY <1>1, <1>2, <1>3 DEF Walks
<1>5. /\ walk'.path = walk.path /\ walk'.done = walk.done + 1 /\ walk'.slot = x
      /\ walk'.calls = calls /\ walk'.before = walk.before
      /\ walk'.result = "running" /\ walk' # Idle
      /\ Walking' /\ PutsBack' = \E h : Unwinds(h, walk.before, calls, store')
      /\ ~Returns => Untouched
      /\ ~Returns => Reached'
  BY <1>1, <1>2, <1>3, <1>4, Entered
<1>6. Covered' /\ FullHands' /\ PutsBack'
  BY <1>1, <1>2, <1>3, <1>5 DEF Covered, FullHands
<1>7. ASSUME ~Returns PROVE Passed' /\ Untouched'
  <2>1. Untouched'
    BY <1>1, <1>2, <1>5, <1>7 DEF Untouched
  <2>2. \A n \in 1..Len(calls) :
          \E m \in 2..walk.done :
            /\ calls[n].at = Into(m)
            /\ IF Took(calls[n]) THEN calls[n].key = walk.path[m] ELSE Into(m) \in Heap!Arrays
    BY <1>1, <1>3, <1>7 DEF Passed
  <2>3. \A m \in 2..walk.done : m \in 2..(walk.done + 1)
    BY <1>3
  <2>4. \A m : Into(m)' = Into(m)
    BY <1>2, <1>5, SameWalk
  <2>5. \A n \in 1..Len(calls) :
          \E m \in 2..(walk.done + 1) :
            /\ calls[n].at = Into(m)'
            /\ IF Took(calls[n]) THEN calls[n].key = walk.path[m] ELSE Into(m)' \in Heap!Arrays
    BY ONLY <2>2, <2>3, <2>4
  <2>6. Passed'
    BY <1>5, <2>5 DEF Passed
  <2> QED BY <2>1, <2>6
<1>8. Straight'
  <2>1. Returns' = Returns
    BY <1>2, <1>5, SameWalk
  <2> QED BY <1>5, <1>7, <2>1 DEF Straight
<1> QED BY <1>2, <1>3, <1>5, <1>6, <1>8 DEF IInv

\* What suspending a call leaves true; s is the store with its field taken out.
LEMMA Suspended ==
    ASSUME IInv, walk.result = "running", Fault = "none", ~IsLast, dead' = dead, trap' = trap,
           NEW call \in Call, WellMade(call), call.at = walk.slot,
           IF Took(call) THEN call.key = Key /\ call.taken = store[walk.slot][Key]
                         ELSE walk.slot \in Heap!Arrays,
           store' \in Stores, Restored(store', call) = store,
           \A e \in Heap!Containers : \A j \in KeysOf(e) :
             store'[e][j] = store[e][j] \/ (e = call.at /\ j = call.key),
           walk' = [walk EXCEPT !.done = @ + 1, !.slot = store[walk.slot][Key],
                                !.calls = Append(@, call)]
    PROVE  IInv'
<1>1. PICK x, calls, more :
         x = store[walk.slot][Key] /\ calls = walk.calls /\ more = Append(calls, call)
  OBVIOUS
<1>2. /\ walk \in Walks /\ calls \in Seq(Call) /\ \A n \in 1..Len(calls) : WellMade(calls[n])
      /\ walk.slot # Void /\ Covered /\ FullHands /\ store \in Stores
      /\ walk.done \in Nat /\ walk.done + 1 \in 2..Len(walk.path)
      /\ ~Returns => Reached /\ Passed
  BY <1>1, Running, NoFault
<1>3. PICK h : Unwinds(h, walk.before, calls, store)
  BY <1>1, Running
<1>4. /\ more \in Seq(Call) /\ Len(more) = Len(calls) + 1 /\ more[Len(calls) + 1] = call
      /\ Len(calls) \in Nat /\ \A n \in 1..Len(calls) : more[n] = calls[n]
  BY <1>1, <1>2
<1>5. \A n \in 1..Len(more) : n = Len(calls) + 1 \/ n \in 1..Len(calls)
  BY <1>4
<1>6. \A n \in 1..Len(more) : WellMade(more[n])
  BY <1>2, <1>4, <1>5
<1>7. walk' = [walk EXCEPT !.done = @ + 1, !.slot = x, !.calls = more]
  BY <1>1
<1>8. /\ walk'.path = walk.path /\ walk'.done = walk.done + 1 /\ walk'.slot = x
      /\ walk'.calls = more /\ walk'.before = walk.before
      /\ walk'.result = "running" /\ walk' # Idle
      /\ Walking' /\ PutsBack' = \E g : Unwinds(g, walk.before, more, store')
      /\ ~Returns => Untouched
      /\ ~Returns => Reached'
  <2>1. /\ IInv /\ walk.result = "running" /\ Fault = "none" /\ ~IsLast
        /\ dead' = dead /\ trap' = trap
    OBVIOUS
  <2>2. x = store[walk.slot][Key]
    BY <1>1
  <2>3. more \in Seq(Call)
    BY <1>4
  <2>4. /\ walk'.path = walk.path /\ walk'.value = walk.value /\ walk'.done = walk.done + 1
        /\ walk'.slot = x /\ walk'.calls = more /\ walk'.before = walk.before
        /\ walk'.result = "running" /\ walk' # Idle
        /\ Walking' /\ PutsBack' = \E g : Unwinds(g, walk.before, more, store')
        /\ ~Returns => Untouched
        /\ ~Returns => x = walk.before[walk.slot][Key] /\ Reached'
    BY ONLY <1>6, <1>7, <2>1, <2>2, <2>3, Entered
  <2> QED BY ONLY <2>4
<1>9. PutsBack'
  <2>1. PICK from, s : from = walk.before /\ s = store'
    OBVIOUS
  <2>2. PICK to : to = store
    OBVIOUS
  <2>3. Unwinds(h, from, calls, to) /\ Restored(s, call) = to /\ s \in Stores
        /\ calls \in Seq(Call)
    BY <1>2, <1>3, <2>1, <2>2
  <2>4. \E g : Unwinds(g, from, Append(calls, call), s)
    BY <2>3, UnwindsPush
  <2> QED BY <1>1, <1>8, <2>1, <2>4
<1>10. Len(calls) + 1 \in 1..Len(more) /\ \A n \in 1..Len(calls) : n \in 1..Len(more)
  BY <1>4
<1>11. Covered'
  <2>1. ASSUME NEW e \in Heap!Containers, NEW j \in KeysOf(e), store'[e][j] = Void
        PROVE  \E n \in 1..Len(more) : more[n].at = e /\ more[n].key = j
    <3>1. CASE e = call.at /\ j = call.key
      BY <1>4, <1>10, <3>1
    <3>2. CASE store'[e][j] = store[e][j]
      <4>1. PICK n \in 1..Len(calls) : calls[n].at = e /\ calls[n].key = j
        BY <1>1, <1>2, <2>1, <3>2 DEF Covered
      <4> QED BY <1>4, <1>10, <4>1
    <3> QED BY <3>1, <3>2
  <2> QED BY <1>8, <2>1 DEF Covered
<1>12. FullHands'
  <2>1. \A n \in 1..Len(calls) : Took(calls[n]) => calls[n].taken # Void
    BY <1>1, <1>2 DEF FullHands
  <2>2. ASSUME x # Void, NEW n \in 1..Len(more), Took(more[n]) PROVE more[n].taken # Void
    BY <1>1, <1>4, <1>5, <2>1, <2>2
  <2> QED BY <1>8, <2>2 DEF FullHands
<1>13. ASSUME ~Returns PROVE Passed' /\ Untouched'
  <2>1. Untouched'
    <3>1. ASSUME NEW e \in Heap!Containers, NEW j \in KeysOf(e)
          PROVE  \/ store'[e][j] = walk.before[e][j]
                 \/ \E n \in 1..Len(more) : more[n].at = e /\ more[n].key = j
      <4>1. CASE e = call.at /\ j = call.key
        BY <1>4, <1>10, <4>1
      <4>2. CASE store'[e][j] = store[e][j]
        <5>1. \/ store[e][j] = walk.before[e][j]
              \/ \E n \in 1..Len(calls) : calls[n].at = e /\ calls[n].key = j
          BY <1>1, <1>8, <1>13 DEF Untouched
        <5> QED BY <1>4, <1>10, <4>2, <5>1
      <4> QED BY <4>1, <4>2
    <3> QED BY <1>8, <3>1 DEF Untouched
  <2>2. \A m : Into(m)' = Into(m)
    BY <1>8, SameWalk
  <2>3. ASSUME NEW n \in 1..Len(more)
        PROVE  \E m \in 2..(walk.done + 1) :
                 /\ more[n].at = Into(m)
                 /\ IF Took(more[n]) THEN more[n].key = walk.path[m] ELSE Into(m) \in Heap!Arrays
    <3>1. CASE n = Len(calls) + 1
      <4>1. call.at = Into(walk.done + 1)
        BY <1>2, <1>13 DEF Reached
      <4>2. IF Took(call) THEN call.key = walk.path[walk.done + 1]
            ELSE Into(walk.done + 1) \in Heap!Arrays
        BY <4>1 DEF Key
      <4>3. walk.done + 1 \in 2..(walk.done + 1)
        BY <1>2
      <4> QED BY <1>4, <3>1, <4>1, <4>2, <4>3
    <3>2. CASE n \in 1..Len(calls)
      <4>1. PICK m \in 2..walk.done :
              /\ calls[n].at = Into(m)
              /\ IF Took(calls[n]) THEN calls[n].key = walk.path[m] ELSE Into(m) \in Heap!Arrays
        BY <1>1, <1>2, <1>13, <3>2 DEF Passed
      <4>2. m \in 2..(walk.done + 1)
        BY <1>2, <4>1
      <4> QED BY <1>4, <3>2, <4>1, <4>2
    <3> QED BY <1>5, <3>1, <3>2
  <2>4. Passed'
    BY <1>8, <2>2, <2>3 DEF Passed
  <2> QED BY <2>1, <2>4
<1>14. Straight'
  <2>1. Returns' = Returns
    BY <1>8, SameWalk
  <2> QED BY <1>8, <1>13, <2>1 DEF Straight
<1> QED BY <1>8, <1>9, <1>11, <1>12, <1>14 DEF IInv

LEMMA EnterArrayStep ==
    ASSUME IInv, walk.result = "running", EnterArray
    PROVE  IInv'
<1> DEFINE call == [at |-> walk.slot, key |-> "borrow", taken |-> Void]
<1>1. /\ Fault = "none" /\ ~IsLast /\ store' = store /\ trap' = trap /\ dead' = dead
      /\ walk.slot \in Heap!Arrays
      /\ walk' = [walk EXCEPT !.done = @ + 1, !.slot = store[walk.slot][Key],
                              !.calls = Append(walk.calls, call)]
  BY DEF EnterArray, Suspend
<1>2. walk \in Walks /\ walk.slot \in Heap!Containers /\ store \in Stores
  BY <1>1, Running, NoFault
<1>3. call \in Call /\ WellMade(call) /\ ~Took(call) /\ call.at = walk.slot
  BY <1>2 DEF Call, WellMade, Took, Cells
<1> HIDE DEF call
<1>4. Restored(store', call) = store
  BY <1>1, <1>2, <1>3, RestoredIs
<1>5. walk' = [walk EXCEPT !.done = @ + 1, !.slot = store[walk.slot][Key],
                           !.calls = Append(@, call)]
  BY <1>1, <1>2 DEF Walks
<1> QED BY <1>1, <1>2, <1>3, <1>4, <1>5, Suspended

LEMMA EnterFieldStep ==
    ASSUME IInv, walk.result = "running", EnterField
    PROVE  IInv'
<1>1. PICK c, k, x : c = walk.slot /\ k = Key /\ x = store[walk.slot][Key]
  OBVIOUS
<1> DEFINE call == [at |-> c, key |-> k, taken |-> x]
<1>2. /\ Fault = "none" /\ ~IsLast /\ trap' = trap /\ dead' = dead
      /\ store' = Put(store, c, k, Void)
      /\ walk' = [walk EXCEPT !.done = @ + 1, !.slot = x, !.calls = Append(walk.calls, call)]
  BY <1>1 DEF EnterField, Suspend, Put
<1>3. /\ walk \in Walks /\ c \in Heap!Containers /\ k \in KeysOf(c) /\ store \in Stores
      /\ k \in {"link", "items", "[0]", "[1]"} /\ x \in OfKey(k) \cup {Void} /\ x \in Cells
  BY <1>1, <1>2, Running, NoFault
<1>4. call \in Call /\ WellMade(call) /\ Took(call) /\ call.at = c /\ call.key = k
      /\ call.taken = x
  BY <1>3 DEF Call, WellMade, Took, Heap!AllKeys
<1> HIDE DEF call
<1>5. /\ store' \in Stores
      /\ \A e \in Heap!Containers : \A j \in KeysOf(e) :
           store'[e][j] = IF e = c /\ j = k THEN Void ELSE store[e][j]
  BY <1>2, <1>3, PutCell
<1>6. Restored(store', call) = store
  <2>1. Restored(store', call) = Put(store', c, k, x)
    BY <1>4, <1>5, RestoredIs
  <2>2. Put(Put(store, c, k, Void), c, k, store[c][k]) = store
    BY <1>3, PutUndone
  <2> QED BY <1>1, <1>2, <2>1, <2>2
<1>7. walk' = [walk EXCEPT !.done = @ + 1, !.slot = store[walk.slot][Key],
                           !.calls = Append(@, call)]
  BY <1>1, <1>2, <1>3 DEF Walks
<1> QED BY <1>1, <1>2, <1>4, <1>5, <1>6, <1>7, Suspended

-----------------------------------------------------------------------------
(* The returns.                                                            *)
LEMMA Returning ==
    ASSUME IInv, walk.result \notin {"idle", "running"}
    PROVE  /\ walk # Idle /\ Walking /\ Covered /\ FullHands /\ PutsBack /\ Straight
           /\ walk \in Walks /\ store \in Stores /\ Solid(walk.before) /\ trap = "none"
           /\ walk.path \in Heap!Targets /\ walk.calls \in Seq(Call)
           /\ \A n \in 1..Len(walk.calls) : WellMade(walk.calls[n])
<1>1. walk # Idle
  BY DEF Idle
<1>2. Walking /\ Covered /\ FullHands /\ PutsBack /\ Straight /\ store \in Stores
  BY <1>1 DEF IInv
<1>3. /\ walk \in Walks /\ Solid(walk.before) /\ trap = "none"
      /\ \A n \in 1..Len(walk.calls) : WellMade(walk.calls[n])
  BY <1>2 DEF Walking
<1> QED BY <1>1, <1>2, <1>3 DEF Walks

LEMMA UnwindStep ==
    ASSUME IInv, Unwind
    PROVE  IInv'
<1>1. PICK calls, front, call, s :
         calls = walk.calls /\ front = Front(calls) /\ call = Last(calls) /\ s = store
  OBVIOUS
<1>2. /\ walk.result \notin {"idle", "running"} /\ calls # <<>>
      /\ store' = Restored(s, call) /\ trap' = trap /\ dead' = dead
      /\ walk' = [walk EXCEPT !.calls = front]
  <2>1. walk.result \notin {"idle", "running"} /\ calls # <<>>
        /\ store' = PutBack(Last(walk.calls)) /\ trap' = trap /\ dead' = dead
        /\ walk' = [walk EXCEPT !.calls = Front(@)]
    BY <1>1 DEF Unwind
  <2>2. store' = Restored(s, call)
    BY <1>1, <2>1 DEF PutBack, Restored
  <2>3. walk' = [walk EXCEPT !.calls = front]
    <3>1. walk \in Walks
      BY <2>1, Returning
    <3> QED BY <1>1, <2>1, <3>1 DEF Walks
  <2> QED BY <2>1, <2>2, <2>3
<1>3. /\ walk # Idle /\ Walking /\ Covered /\ FullHands /\ PutsBack /\ Straight
      /\ walk \in Walks /\ s \in Stores
      /\ calls \in Seq(Call) /\ \A n \in 1..Len(calls) : WellMade(calls[n])
  BY <1>1, <1>2, Returning
<1>4. ASSUME NEW h, NEW from, Unwinds(h, from, calls, s)
      PROVE  /\ front \in Seq(Call) /\ Len(front) = Len(calls) - 1
             /\ \A n \in 1..(Len(calls) - 1) : front[n] = calls[n]
             /\ call = calls[Len(calls)] /\ Len(calls) \in 1..Len(calls)
             /\ \E g : Unwinds(g, from, front, store')
  <2>1. calls \in Seq(Call) /\ calls # <<>>
    BY <1>2, <1>3
  <2>2. /\ Front(calls) \in Seq(Call) /\ Len(Front(calls)) = Len(calls) - 1
        /\ \A n \in 1..(Len(calls) - 1) : Front(calls)[n] = calls[n]
        /\ Last(calls) = calls[Len(calls)] /\ Len(calls) \in 1..Len(calls)
        /\ \E g : Unwinds(g, from, Front(calls), Restored(s, Last(calls)))
    BY ONLY <1>4, <2>1, UnwindsPop
  <2> QED BY <1>1, <1>2, <2>2
<1>5. /\ walk'.path = walk.path /\ walk'.value = walk.value /\ walk'.done = walk.done
      /\ walk'.slot = walk.slot /\ walk'.calls = front /\ walk'.before = walk.before
      /\ walk'.result = walk.result
  BY <1>2, <1>3 DEF Walks
<1>6. /\ front \in Seq(Call) /\ Len(front) = Len(calls) - 1
      /\ \A n \in 1..(Len(calls) - 1) : front[n] = calls[n]
      /\ call = calls[Len(calls)] /\ Len(calls) \in 1..Len(calls) /\ Len(calls) \in Nat
  <2>1. Len(calls) \in Nat
    BY <1>3
  <2>2. /\ front \in Seq(Call) /\ Len(front) = Len(calls) - 1
        /\ \A n \in 1..(Len(calls) - 1) : front[n] = calls[n]
        /\ call = calls[Len(calls)] /\ Len(calls) \in 1..Len(calls)
    BY <1>1, <1>2, <1>3, FrontOf
  <2> QED BY <2>1, <2>2
<1>7. call \in Call /\ WellMade(call)
  BY <1>3, <1>6
<1>8. /\ store' \in Stores
      /\ ~Took(call) => store' = s
      /\ Took(call) => store' = Put(s, call.at, call.key, call.taken)
  BY <1>2, <1>3, <1>7, RestoredIs
<1>9. Walking'
  <2>1. walk' \in Walks
    BY <1>2, <1>3, <1>6 DEF Walks
  <2>2. \A n \in 1..Len(front) : WellMade(front[n])
    BY <1>3, <1>6
  <2> QED BY <1>2, <1>3, <1>5, <2>1, <2>2 DEF Walking
<1>10. FullHands'
  <2>1. ASSUME walk.result = "none", NEW n \in 1..Len(front), Took(front[n])
        PROVE  front[n].taken # Void
    BY <1>1, <1>3, <1>6, <2>1 DEF FullHands
  <2> QED BY <1>2, <1>5, <2>1 DEF FullHands
<1>11. Covered'
  <2>1. ASSUME walk.result = "none", NEW e \in Heap!Containers, NEW j \in KeysOf(e),
               store'[e][j] = Void
        PROVE  \E n \in 1..Len(front) : front[n].at = e /\ front[n].key = j
    <3>1. s[e][j] = Void /\ ~(call.at = e /\ call.key = j)
      <4>1. CASE Took(call)
        <5>1. call.taken # Void
          BY <1>1, <1>3, <1>6, <2>1, <4>1 DEF FullHands
        <5>2. /\ call.at \in Heap!Containers /\ call.key \in KeysOf(call.at)
              /\ call.taken \in OfKey(call.key) \cup {Void}
          BY <1>7, <4>1 DEF Call, WellMade
        <5>3. store'[e][j] = IF e = call.at /\ j = call.key THEN call.taken ELSE s[e][j]
          BY <1>3, <1>8, <4>1, <5>2, PutCell
        <5> QED BY <2>1, <5>1, <5>3
      <4>2. CASE ~Took(call)
        <5>1. j # "borrow"
          BY DEF KeysOf
        <5> QED BY <1>8, <2>1, <4>2, <5>1 DEF Took
      <4> QED BY <4>1, <4>2
    <3>2. PICK n \in 1..Len(calls) : calls[n].at = e /\ calls[n].key = j
      BY <1>1, <1>3, <2>1, <3>1 DEF Covered
    <3>3. n # Len(calls)
      BY <1>6, <3>1, <3>2
    <3>4. n \in 1..Len(front) /\ n \in 1..(Len(calls) - 1)
      BY <1>6, <3>2, <3>3
    <3> QED BY <1>6, <3>2, <3>4
  <2> QED BY <1>2, <1>5, <2>1 DEF Covered
<1>12. PutsBack'
  <2>1. ASSUME walk.result # "none" PROVE \E g : Unwinds(g, walk.before, front, store')
    <3>1. PICK from : from = walk.before
      OBVIOUS
    <3>2. PICK h : Unwinds(h, from, calls, s)
      BY <1>1, <1>3, <2>1, <3>1 DEF PutsBack
    <3> QED BY <1>4, <3>1, <3>2
  <2> QED BY <1>5, <2>1 DEF PutsBack
<1>13. Straight'
  <2>1. Returns' = Returns /\ Goal' = Goal
    BY <1>2, <1>5, SameWalk
  <2>2. ASSUME ~Returns, walk.result = "none"
        PROVE  /\ Goal.fault = "none"
               /\ \E g : Unwinds(g, Put(walk.before, Goal.at, Goal.key, walk.value), front, store')
    <3>1. PICK from : from = Put(walk.before, Goal.at, Goal.key, walk.value)
      OBVIOUS
    <3>2. Goal.fault = "none" /\ \E h : Unwinds(h, from, calls, s)
      BY <1>1, <1>3, <2>2, <3>1 DEF Straight, Done
    <3>3. PICK h : Unwinds(h, from, calls, s)
      BY <3>2
    <3> QED BY <1>4, <3>1, <3>2, <3>3
  <2>3. ASSUME ~Returns, walk.result # "none" PROVE Goal.fault = walk.result
    BY <1>2, <1>3, <2>3 DEF Straight
  <2>4. ASSUME ~Returns', walk'.result = "none" PROVE Done'
    BY <1>5, <2>1, <2>2, <2>4 DEF Done
  <2>5. ASSUME ~Returns', walk'.result # "none" PROVE Goal'.fault = walk'.result
    BY <1>5, <2>1, <2>3, <2>5
  <2> QED BY <1>2, <1>5, <2>4, <2>5 DEF Straight
<1>14. walk' # Idle
  <2>1. Idle.result = "idle"
    BY DEF Idle
  <2> QED BY <1>2, <1>5, <2>1
<1> QED BY <1>8, <1>9, <1>10, <1>11, <1>12, <1>13, <1>14 DEF IInv

\* What the walk leaves when it has returned.
LEMMA Returned ==
    ASSUME IInv, Return
    PROVE  /\ Solid(store) /\ trap = "none"
           /\ walk.result # "none" => store = walk.before
           /\ ~Returns => IF walk.result = "none"
                          THEN /\ Goal.fault = "none"
                               /\ store = Put(walk.before, Goal.at, Goal.key, walk.value)
                          ELSE Goal.fault = walk.result
<1>1. walk.result \notin {"idle", "running"} /\ walk.calls = <<>>
  BY DEF Return
<1>2. /\ Walking /\ Covered /\ PutsBack /\ Straight /\ store \in Stores /\ Solid(walk.before)
      /\ trap = "none"
  BY <1>1, Returning
<1>3. ASSUME walk.result # "none" PROVE store = walk.before
  <2>1. PICK h : Unwinds(h, walk.before, <<>>, store)
    BY <1>1, <1>2, <1>3 DEF PutsBack
  <2> QED BY <2>1 DEF Unwinds
<1>4. Solid(store)
  <2>1. CASE walk.result # "none"
    BY <1>2, <1>3, <2>1
  <2>2. CASE walk.result = "none"
    <3>1. \A c \in Heap!Containers : \A k \in KeysOf(c) :
            store[c][k] = Void => \E n \in 1..0 : walk.calls[n].at = c /\ walk.calls[n].key = k
      BY <1>1, <1>2, <2>2 DEF Covered
    <3> QED BY <1>2, <3>1 DEF Solid
  <2> QED BY <2>1, <2>2
<1>5. ASSUME ~Returns, walk.result = "none"
      PROVE  /\ Goal.fault = "none"
             /\ store = Put(walk.before, Goal.at, Goal.key, walk.value)
  <2>1. Done
    BY <1>2, <1>5 DEF Straight
  <2>2. PICK h : Unwinds(h, Put(walk.before, Goal.at, Goal.key, walk.value), <<>>, store)
    BY <1>1, <2>1 DEF Done
  <2>3. store = Put(walk.before, Goal.at, Goal.key, walk.value)
    BY <2>2 DEF Unwinds
  <2> QED BY <2>1, <2>3 DEF Done
<1>6. ASSUME ~Returns, walk.result # "none" PROVE Goal.fault = walk.result
  BY <1>1, <1>2, <1>6 DEF Straight
<1> QED BY <1>2, <1>3, <1>4, <1>5, <1>6

-----------------------------------------------------------------------------
LEMMA NextStep == IInv /\ [Next]_vars => IInv'
<1> SUFFICES ASSUME IInv, [Next]_vars PROVE IInv'
  OBVIOUS
<1>1. CASE Statement
  <2>1. walk = Idle /\ trap = "none"
    BY <1>1 DEF Statement
  <2>2. CASE \E p \in Heap!Targets, val \in Heap!Values : StorePlace(p, val)
    BY <2>1, <2>2, StartStep
  <2>3. CASE \/ \E v \in {"obj", "arr"} : New(v) \/ \E val \in Heap!Values : Assign(v, val)
             \/ \E c \in Heap!Instances : Delete(c)
    BY <2>1, <2>3, PlainSteps
  <2> QED BY <1>1, <2>2, <2>3 DEF Statement
<1>2. CASE Descend
  BY <1>2, FailStep, WriteStep, EnterStructStep, EnterArrayStep, EnterFieldStep DEF Descend
<1>3. CASE Unwind
  BY <1>3, UnwindStep
<1>4. CASE Return
  <2>1. Solid(store) /\ store' = store /\ walk' = Idle
    BY <1>4, Returned DEF Return
  <2> QED BY <2>1 DEF IInv, Solid
<1>5. CASE UNCHANGED vars
  <2>1. store' = store /\ dead' = dead /\ trap' = trap /\ walk' = walk
    BY <1>5 DEF vars
  <2>2. /\ Walking' <=> Walking
        /\ Covered' <=> Covered
        /\ FullHands' <=> FullHands
    BY <2>1 DEF Walking, Covered, FullHands
  <2>3. PutsBack => PutsBack'
    BY <2>1 DEF PutsBack
  <2>4. /\ \A n : At(n)' = At(n) /\ Into(n)' = Into(n)
        /\ Returns' = Returns /\ Goal' = Goal
    BY <2>1, SameWalk
  <2>5. Reached => Reached'
    <3>1. At(walk.done)' = At(walk.done) /\ Into(walk.done + 1)' = Into(walk.done + 1)
      BY <2>1 DEF At, Into
    <3> QED BY <2>1, <3>1 DEF Reached
  <2>6. Passed => Passed'
    BY <2>1, <2>4 DEF Passed
  <2>7. Untouched => Untouched'
    BY <2>1 DEF Untouched
  <2>8. Done => Done'
    BY <2>1, <2>4 DEF Done
  <2>9. Straight => Straight'
    BY <2>1, <2>4, <2>5, <2>6, <2>7, <2>8 DEF Straight
  <2> QED BY <2>1, <2>2, <2>3, <2>9 DEF IInv
<1> QED BY <1>1, <1>2, <1>3, <1>4, <1>5 DEF Next

\* The inductive invariant of the walk holds in every reachable state, whatever
\* path it walks: what each suspended call took is enough to get back.
THEOREM Invariant == Spec => []IInv
<1> QED BY PlainInit, NextStep, PTL DEF Spec

\* An assignment that traps, however far its walk got, leaves every field,
\* element and variable as it found them.
THEOREM TrapsChangeNothing == Spec => TrapChangesNothing
<1>1. IInv /\ [Next]_vars => [trap' # trap => store' = walk.before]_vars
  <2> SUFFICES ASSUME IInv, Next, trap' # trap PROVE store' = walk.before
    OBVIOUS
  <2>1. Return
    BY DEF Next, Statement, New, Assign, Delete, StorePlace, Heap!New, Heap!Assign, Heap!Delete,
           Descend, Fail, Write, EnterStruct, EnterArray, EnterField, Unwind
  <2>2. store' = store /\ trap' = walk.result
    BY <2>1 DEF Return
  <2>3. trap = "none" /\ (walk.result # "none" => store = walk.before)
    BY <2>1, Returned
  <2> QED BY <2>2, <2>3
<1> QED BY <1>1, Invariant, PTL DEF Spec, TrapChangesNothing

-----------------------------------------------------------------------------
(***************************************************************************)
(* The refinement.  While a walk is under way the compiled program has not *)
(* started the assignment; the Return does it in one step.                 *)
(***************************************************************************)
LEMMA RevisitsIs ==
    ASSUME walk # Idle
    PROVE  Abstract!Revisits(walk.path) <=> Returns
<1>1. Found = walk.before
  BY DEF Found
<1>2. \A n : Abstract!PlaceAt(walk.path, n) = At(n)
  BY <1>1, AbstractPlaces DEF At
<1>3. Abstract!Arrays = Heap!Arrays
  BY DEF Abstract!Arrays, Heap!Arrays
<1> DEFINE found == IF walk = Idle THEN store ELSE walk.before
<1>4. found = walk.before
  OBVIOUS
<1>5. Abstract!Revisits(walk.path) <=>
        \E m, n \in 2..Len(walk.path) :
          /\ m < n /\ Abstract!PlaceAt(walk.path, n - 1).fault = "none"
          /\ found[Abstract!PlaceAt(walk.path, m - 1).at][walk.path[m - 1]]
               = found[Abstract!PlaceAt(walk.path, n - 1).at][walk.path[n - 1]]
          /\ \/ found[Abstract!PlaceAt(walk.path, m - 1).at][walk.path[m - 1]] \in Abstract!Arrays
             \/ walk.path[m] = walk.path[n]
  BY DEF Abstract!Revisits
<1> HIDE DEF found
<1>6. \A n : found[Abstract!PlaceAt(walk.path, n - 1).at][walk.path[n - 1]] = Into(n)
  BY <1>2, <1>4 DEF Into
<1>7. \A n : Abstract!PlaceAt(walk.path, n - 1).fault = At(n - 1).fault
  BY <1>2
<1> QED BY <1>3, <1>5, <1>6, <1>7 DEF Returns

LEMMA Commits ==
    ASSUME IInv, Return
    PROVE  Abstract!Revisits(walk.path) \/ Abstract!StorePlace(walk.path, walk.value)
<1>1. /\ walk.result \notin {"idle", "running"} /\ trap' = walk.result /\ walk' = Idle
      /\ store' = store /\ born' = born /\ dead' = dead
  BY DEF Return
<1>2. walk # Idle /\ Walking
  BY <1>1, Returning
<1>3. SUFFICES ASSUME ~Returns PROVE Abstract!StorePlace(walk.path, walk.value)
  BY <1>2, RevisitsIs
<1>4. Abstract!Final(walk.path) = Goal
  BY <1>2, AbstractPlaces DEF Abstract!Final, Goal, At, Found
<1>5. walk.value \in Abstract!RightHandSides(walk.path)
  <2>1. walk.value \in {Heap!Null, IF Heap!KeyType[Last(walk.path)] = "array"
                                   THEN walk.before[Heap!Frame].arr
                                   ELSE walk.before[Heap!Frame].obj}
    BY <1>2 DEF Walking
  <2>2. /\ Abstract!Null = Heap!Null /\ Abstract!Frame = Heap!Frame
        /\ Abstract!KeyType = Heap!KeyType /\ Abstract!Last(walk.path) = Last(walk.path)
    BY DEF Abstract!Null, Heap!Null, Abstract!Frame, Heap!Frame, Abstract!KeyType, Heap!KeyType,
           Abstract!AllKeys, Heap!AllKeys, Abstract!Last, Last
  <2> QED BY <1>2, <2>1, <2>2 DEF Abstract!RightHandSides
<1>6. (IF walk = Idle THEN store ELSE walk.before) = walk.before
      /\ (IF walk' = Idle THEN store' ELSE walk'.before) = store
  BY <1>1, <1>2
<1>7. CASE walk.result = "none"
  <2>1. Goal.fault = "none" /\ store = Put(walk.before, Goal.at, Goal.key, walk.value)
    BY <1>3, <1>7, Returned
  <2>2. trap' = trap
    BY <1>1, <1>7, Returned
  <2> QED BY <1>1, <1>4, <1>5, <1>6, <2>1, <2>2 DEF Abstract!StorePlace, Put
<1>8. CASE walk.result # "none"
  <2>1. Goal.fault = walk.result /\ store = walk.before
    BY <1>3, <1>8, Returned
  <2> QED BY <1>1, <1>4, <1>5, <1>6, <1>8, <2>1 DEF Abstract!StorePlace
<1> QED BY <1>7, <1>8

LEMMA CompiledStep == IInv /\ [Next]_vars => [Compiled]_vars
<1> SUFFICES ASSUME IInv, Next PROVE Compiled
  OBVIOUS
<1>1. CASE Statement
  <2>1. walk = Idle /\ trap = "none"
    BY <1>1 DEF Statement
  <2>2. CASE \E p \in Heap!Targets, val \in Heap!Values : StorePlace(p, val)
    <3>1. PICK p \in Heap!Targets, val \in Heap!Values : StorePlace(p, val)
      BY <2>2
    <3>2. /\ walk'.before = store /\ walk'.result = "running"
          /\ store' = store /\ born' = born /\ dead' = dead /\ trap' = trap
      BY <3>1 DEF StorePlace
    <3>3. walk' # Idle
      BY <3>2 DEF Idle
    <3> QED BY <2>1, <3>2, <3>3 DEF Compiled, Abstract!vars
  <2>3. CASE \E v \in {"obj", "arr"} : New(v)
    <3>1. PICK v \in {"obj", "arr"} : New(v)
      BY <2>3
    <3>2. walk' = Idle /\ Heap!New(v)
      BY <2>1, <3>1 DEF New
    <3>3. Abstract!New(v)
      BY <2>1, <3>2 DEF Heap!New, Abstract!New, Heap!OfType, Abstract!OfType, Heap!KeyType,
           Abstract!KeyType, Heap!AllKeys, Abstract!AllKeys, Heap!Arrays, Abstract!Arrays,
           Heap!Struct, Abstract!Struct, Heap!Instances, Abstract!Instances, Heap!Frame,
           Abstract!Frame, Heap!Min, Abstract!Min
    <3> QED BY <2>1, <3>2, <3>3 DEF Compiled, Abstract!Next
  <2>4. CASE \E v \in {"obj", "arr"}, val \in Heap!Values : Assign(v, val)
    <3>1. PICK v \in {"obj", "arr"}, val \in Heap!Values : Assign(v, val)
      BY <2>4
    <3>2. walk' = Idle /\ Heap!Assign(v, val)
      BY <2>1, <3>1 DEF Assign
    <3>3. Abstract!Assign(v, val)
      BY <2>1, <3>2 DEF Heap!Assign, Abstract!Assign, Heap!OfType, Abstract!OfType, Heap!KeyType,
           Abstract!KeyType, Heap!AllKeys, Abstract!AllKeys, Heap!Arrays, Abstract!Arrays,
           Heap!Struct, Abstract!Struct, Heap!Instances, Abstract!Instances, Heap!Frame,
           Abstract!Frame, Heap!Null, Abstract!Null
    <3>4. val \in Abstract!Values
      BY DEF Heap!Values, Abstract!Values, Heap!Arrays, Abstract!Arrays, Heap!Instances,
             Abstract!Instances, Heap!Null, Abstract!Null
    <3> QED BY <2>1, <3>2, <3>3, <3>4 DEF Compiled, Abstract!Next
  <2>5. CASE \E c \in Heap!Instances : Delete(c)
    <3>1. PICK c \in Heap!Instances : Delete(c)
      BY <2>5
    <3>2. walk' = Idle /\ Heap!Delete(c)
      BY <2>1, <3>1 DEF Delete
    <3>3. Abstract!Delete(c) /\ c \in Abstract!Instances
      <4>1. Heap!Cardinality(dead) = Abstract!Cardinality(dead)
        BY DEF Heap!Cardinality, Abstract!Cardinality
      <4> QED BY <2>1, <3>2, <4>1 DEF Heap!Delete, Abstract!Delete, Heap!Instances,
                                     Abstract!Instances
    <3> QED BY <2>1, <3>2, <3>3 DEF Compiled, Abstract!Next
  <2> QED BY <1>1, <2>2, <2>3, <2>4, <2>5 DEF Statement
<1>2. CASE Descend \/ Unwind
  <2>1. /\ walk.result # "idle" /\ walk'.result # "idle"
        /\ walk'.before = walk.before /\ born' = born /\ dead' = dead /\ trap' = trap
    <3>1. CASE Descend
      <4>1. walk \in Walks /\ walk.result = "running"
        BY <1>2, <3>1, Running DEF Descend
      <4>2. Fault # "idle"
        BY DEF Fault, Heap!StepFault
      <4> QED BY <3>1, <4>1, <4>2 DEF Walks, Descend, Fail, Write, EnterStruct, EnterArray, EnterField
    <3>2. CASE Unwind
      <4>1. walk \in Walks /\ walk.result # "idle"
        BY <3>2, Returning DEF Unwind
      <4> QED BY <3>2, <4>1 DEF Walks, Unwind
    <3> QED BY <1>2, <3>1, <3>2
  <2>2. walk # Idle /\ walk' # Idle
    BY <2>1 DEF Idle
  <2> QED BY <2>1, <2>2 DEF Compiled, Abstract!vars
<1>3. CASE Return
  <2>1. walk # Idle /\ walk' = Idle
    BY <1>3 DEF Return, Idle
  <2> QED BY <1>3, <2>1, Commits DEF Compiled
<1> QED BY <1>1, <1>2, <1>3 DEF Next

LEMMA CompiledInit == Init => Abstract!Init
<1> SUFFICES ASSUME Init PROVE Abstract!Init
  OBVIOUS
<1>1. Heap!Init /\ walk = Idle
  BY DEF Init
<1>2. \A c : Heap!Empty(c) = Abstract!Empty(c)
  BY DEF Heap!Empty, Abstract!Empty, Heap!Arrays, Abstract!Arrays, Heap!Instances,
         Abstract!Instances, Heap!Null, Abstract!Null, Heap!Struct, Abstract!Struct
<1>3. Heap!Containers = Abstract!Containers /\ Heap!Struct = Abstract!Struct
      /\ Heap!Frame = Abstract!Frame
  BY DEF Heap!Containers, Abstract!Containers, Heap!Arrays, Abstract!Arrays, Heap!Instances,
         Abstract!Instances, Heap!Struct, Abstract!Struct, Heap!Frame, Abstract!Frame
<1> QED BY <1>1, <1>2, <1>3 DEF Heap!Init, Abstract!Init

\* The interpreter's walk implements the compiled program's address walk: an
\* assignment that never comes back to a field or an array it passed leaves the
\* same store and the same trap, and the other statements agree.
THEOREM Refinement == Spec => Refines
<1> QED BY CompiledInit, CompiledStep, Invariant, PTL DEF Spec, Refines
=============================================================================
