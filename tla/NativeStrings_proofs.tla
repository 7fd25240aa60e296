------------------------- MODULE NativeStrings_proofs -------------------------
(***************************************************************************)
(* The refcounts of compiled programs, for every number of blocks, depth   *)
(* of calls and length of expression, and any number of leaks: the counts  *)
(* are exact and nothing the program still reads was freed, for programs   *)
(* that make no call between reading a struct variable and using what was  *)
(* read and that take no inner struct from a call's result.                *)
(***************************************************************************)
EXTENDS NativeStrings, FiniteSetTheorems, SequenceTheorems, TLAPS

-----------------------------------------------------------------------------
(* The inductive invariant.                                                *)
TypeOK ==
  /\ rc \in [Blocks -> Nat]
  /\ leaked \in [Blocks -> Nat]
  /\ globals \in [Globals -> Leaf]
  /\ frames \in Seq(Frame) /\ Len(frames) >= 1

\* What a view names: what a variable of the running function holds.
Names(l, gl, locals) ==
  l = Empty \/ (\E g \in Globals : l = gl[g]) \/ (\E v \in Locals : l = locals[v])

\* A frame under way waits with the arguments of its call, and keeps no view
\* for later; the running one has no such arguments.
Waiting(f) ==
  /\ Len(f.pending) <= MaxPending /\ f.args <= Len(f.pending)
  /\ \A i \in 1..Len(f.pending) - f.args : Owned(f.pending[i])
Running(f, gl) ==
  /\ Len(f.pending) <= MaxPending /\ f.args = 0
  /\ \A i \in 1..Len(f.pending) :
        ~Owned(f.pending[i]) => Names(f.pending[i].leaf, gl, f.locals)

Suspended == \A d \in 1..depth - 1 : Waiting(frames[d])
Views == Running(Top, globals)

IInv == TypeOK /\ Suspended /\ Views /\ CountsExact

-----------------------------------------------------------------------------
(* Counting the owners of a block.                                         *)
One(l, b) == IF l = b THEN 1 ELSE 0

Held(s, b) == {i \in DOMAIN s : Owned(s[i]) /\ s[i].leaf = b}
HeldHere(s, b) == {i \in DOMAIN s : Owned(s[i]) /\ s[i].here /\ s[i].leaf = b}
HeldAway(s, b) == {i \in DOMAIN s : Owned(s[i]) /\ ~s[i].here /\ s[i].leaf = b}
Count(s, b) == Cardinality(Held(s, b))

OfFrame(f, b) == One(f.locals["ls"], b) + One(f.locals["lv"], b) + Count(f.pending, b)

LocalsIn(fs, b) == {p \in (1..Len(fs)) \X Locals : fs[p[1]].locals[p[2]] = b}
PendingIn(fs, b) == {p \in (1..Len(fs)) \X (1..MaxPending) :
                       /\ p[2] <= Len(fs[p[1]].pending)
                       /\ Owned(fs[p[1]].pending[p[2]])
                       /\ fs[p[1]].pending[p[2]].leaf = b}
OfFrames(fs, b) == Cardinality(LocalsIn(fs, b)) + Cardinality(PendingIn(fs, b))

LEMMA HeldFinite ==
    ASSUME NEW s \in Seq(Reg), NEW b
    PROVE  /\ IsFiniteSet(Held(s, b)) /\ Held(s, b) \subseteq 1..Len(s)
           /\ Count(s, b) \in Nat
<1>1. DOMAIN s = 1..Len(s) /\ Len(s) \in Nat
  OBVIOUS
<1>2. Held(s, b) \subseteq 1..Len(s)
  BY <1>1 DEF Held
<1>3. IsFiniteSet(1..Len(s))
  <2>1. 1 \in Int /\ Len(s) \in Int
    BY <1>1
  <2> QED BY <2>1, FS_Interval, Zenon
<1>4. IsFiniteSet(Held(s, b))
  BY <1>2, <1>3, FS_Subset
<1> QED BY <1>2, <1>4, FS_CardinalityType DEF Count

LEMMA Disjoint ==
    ASSUME NEW S, NEW T, IsFiniteSet(S), IsFiniteSet(T), S \cap T = {}
    PROVE  /\ IsFiniteSet(S \cup T)
           /\ Cardinality(S \cup T) = Cardinality(S) + Cardinality(T)
           /\ Cardinality(S) \in Nat /\ Cardinality(T) \in Nat
<1>1. /\ IsFiniteSet(S \cup T)
      /\ Cardinality(S \cup T) = Cardinality(S) + Cardinality(T) - Cardinality(S \cap T)
  BY FS_Union
<1>2. Cardinality(S \cap T) = 0
  BY FS_EmptySet
<1>3. Cardinality(S) \in Nat /\ Cardinality(T) \in Nat
  BY FS_CardinalityType
<1> QED BY <1>1, <1>2, <1>3

\* What regtypes releases and what it leaks.
LEMMA HereOrAway ==
    ASSUME NEW s \in Seq(Reg), NEW b
    PROVE  /\ Count(s, b) = Cardinality(HeldHere(s, b)) + Cardinality(HeldAway(s, b))
           /\ Cardinality(HeldHere(s, b)) \in Nat /\ Cardinality(HeldAway(s, b)) \in Nat
<1>1. Held(s, b) = HeldHere(s, b) \cup HeldAway(s, b) /\ HeldHere(s, b) \cap HeldAway(s, b) = {}
  BY DEF Held, HeldHere, HeldAway
<1>2. IsFiniteSet(HeldHere(s, b)) /\ IsFiniteSet(HeldAway(s, b))
  <2>1. HeldHere(s, b) \in SUBSET Held(s, b) /\ HeldAway(s, b) \in SUBSET Held(s, b)
    BY <1>1
  <2> QED BY <2>1, HeldFinite, FS_Subset
<1> QED BY <1>1, <1>2, Disjoint DEF Count

\* The places of a sequence, moved n further.
LEMMA Shifted ==
    ASSUME NEW X, IsFiniteSet(X), X \subseteq Int, NEW n \in Int
    PROVE  /\ IsFiniteSet({x + n : x \in X})
           /\ Cardinality({x + n : x \in X}) = Cardinality(X)
<1> DEFINE Y == {x + n : x \in X}
           f == [x \in X |-> x + n]
<1>1. f \in Injection(X, Y)
  <2>1. f \in [X -> Y]
    OBVIOUS
  <2>2. \A x, y \in X : x + n = y + n => x = y
    OBVIOUS
  <2>3. \A x, y \in X : f[x] = f[y] => x = y
    BY <2>2
  <2>4. DOMAIN f = X
    OBVIOUS
  <2> HIDE DEF f, Y
  <2> QED BY <2>1, <2>3, <2>4 DEF Injection, IsInjective
<1>2. f \in Surjection(X, Y)
  BY DEF Surjection
<1>3. ExistsBijection(X, Y)
  BY <1>1, <1>2 DEF ExistsBijection, Bijection
<1> HIDE DEF Y
<1>4. IsFiniteSet(Y) /\ Cardinality(Y) = Cardinality(X)
  BY <1>3, FS_Bijection
<1> QED BY <1>4 DEF Y

LEMMA CountConcat ==
    ASSUME NEW s \in Seq(Reg), NEW t \in Seq(Reg), NEW b
    PROVE  Count(s \o t, b) = Count(s, b) + Count(t, b)
<1> DEFINE n == Len(s)
           Y == {x + n : x \in Held(t, b)}
<1>1. /\ Len(s) \in Nat /\ Len(t) \in Nat /\ s \o t \in Seq(Reg)
      /\ Len(s \o t) = Len(s) + Len(t)
      /\ \A i \in 1..Len(s) + Len(t) : (s \o t)[i] = IF i <= Len(s) THEN s[i] ELSE t[i - Len(s)]
  BY ConcatProperties
<1>2. DOMAIN s = 1..Len(s) /\ DOMAIN t = 1..Len(t) /\ DOMAIN (s \o t) = 1..(Len(s) + Len(t))
  BY <1>1
<1>3. Held(s \o t, b) = Held(s, b) \cup Y
  <2>1. ASSUME NEW i \in 1..(Len(s) + Len(t))
        PROVE  i \in Held(s \o t, b) <=> i \in Held(s, b) \cup Y
    <3>1. CASE i <= Len(s)
      <4>1. i \notin Y
        BY <1>1, <1>2, <3>1 DEF Held
      <4>2. i \in 1..Len(s) /\ (s \o t)[i] = s[i]
        BY <1>1, <3>1
      <4> QED BY <1>2, <4>1, <4>2 DEF Held
    <3>2. CASE i > Len(s)
      <4>1. i \notin Held(s, b) /\ i - Len(s) \in 1..Len(t) /\ (s \o t)[i] = t[i - Len(s)]
        BY <1>1, <1>2, <3>2 DEF Held
      <4>2. i \in Y <=> i - Len(s) \in Held(t, b)
        <5>1. ASSUME i \in Y PROVE i - Len(s) \in Held(t, b)
          <6>1. PICK x \in Held(t, b) : i = x + Len(s)
            BY <5>1
          <6>2. x \in Int
            BY <1>2 DEF Held
          <6>3. i - Len(s) = x
            BY <1>1, <6>1, <6>2
          <6> QED BY <6>1, <6>3
        <5>2. ASSUME i - Len(s) \in Held(t, b) PROVE i \in Y
          <6>1. i = (i - Len(s)) + Len(s)
            BY <1>1
          <6> QED BY <5>2, <6>1
        <5> QED BY <5>1, <5>2
      <4>3. i - Len(s) \in Held(t, b) <=> Owned(t[i - Len(s)]) /\ t[i - Len(s)].leaf = b
        BY <1>2, <4>1 DEF Held
      <4>4. i \in Held(s \o t, b) <=> Owned((s \o t)[i]) /\ (s \o t)[i].leaf = b
        BY <1>2 DEF Held
      <4> QED BY <4>1, <4>2, <4>3, <4>4
    <3> QED BY <1>1, <3>1, <3>2
  <2>2. \A i \in Held(s, b) \cup Y : i \in 1..(Len(s) + Len(t))
    BY <1>1, <1>2 DEF Held
  <2>3. \A i \in Held(s \o t, b) : i \in 1..(Len(s) + Len(t))
    BY <1>2 DEF Held
  <2> HIDE DEF Y
  <2> QED BY <2>1, <2>2, <2>3
<1>4. Held(s, b) \cap Y = {}
  BY <1>1, <1>2 DEF Held
<1>5. IsFiniteSet(Y) /\ Cardinality(Y) = Count(t, b)
  <2>1. IsFiniteSet(Held(t, b)) /\ Held(t, b) \subseteq Int /\ n \in Int
    BY <1>1, HeldFinite
  <2> QED BY <2>1, Shifted DEF Count
<1>6. IsFiniteSet(Held(s, b))
  BY HeldFinite
<1> HIDE DEF Y
<1> QED BY <1>3, <1>4, <1>5, <1>6, Disjoint DEF Count

LEMMA CountFew ==
    ASSUME NEW b
    PROVE  /\ Count(<<>>, b) = 0
           /\ \A r : Count(<<r>>, b) = IF Owned(r) THEN One(r.leaf, b) ELSE 0
<1>1. Held(<<>>, b) = {}
  BY DEF Held
<1>2. \A r : DOMAIN <<r>> = {1} /\ <<r>>[1] = r
  OBVIOUS
<1>3. ASSUME NEW r PROVE Held(<<r>>, b) = IF Owned(r) /\ r.leaf = b THEN {1} ELSE {}
  BY <1>2 DEF Held
<1>4. Cardinality({}) = 0 /\ Cardinality({1}) = 1
  BY FS_EmptySet, FS_Singleton
<1> QED BY <1>1, <1>3, <1>4 DEF Count, One

\* The owners among the slots of one more frame.
LEMMA Tagged ==
    ASSUME NEW d, NEW X, IsFiniteSet(X)
    PROVE  /\ IsFiniteSet({d} \X X) /\ Cardinality({d} \X X) = Cardinality(X)
           /\ Cardinality(X) \in Nat
<1>1. IsFiniteSet({d}) /\ Cardinality({d}) = 1
  BY FS_Singleton
<1>2. IsFiniteSet({d} \X X) /\ Cardinality({d} \X X) = Cardinality({d}) * Cardinality(X)
  BY <1>1, FS_Product
<1>3. Cardinality(X) \in Nat
  BY FS_CardinalityType
<1> QED BY <1>1, <1>2, <1>3

LEMMA SlotsFinite ==
    ASSUME NEW fs \in Seq(Frame), NEW b
    PROVE  /\ IsFiniteSet(LocalsIn(fs, b)) /\ IsFiniteSet(PendingIn(fs, b))
           /\ OfFrames(fs, b) \in Nat
<1>1. IsFiniteSet(1..Len(fs)) /\ IsFiniteSet(1..MaxPending)
  <2>1. 1 \in Int /\ Len(fs) \in Int /\ MaxPending \in Int
    BY BoundsAssumption
  <2> QED BY <2>1, FS_Interval, Zenon
<1>2. IsFiniteSet(Locals)
  <2>1. IsFiniteSet({"ls"}) /\ IsFiniteSet({"lv"})
    BY FS_Singleton
  <2>2. Locals = {"ls"} \cup {"lv"}
    BY DEF Locals
  <2> QED BY <2>1, <2>2, FS_Union
<1>3. IsFiniteSet((1..Len(fs)) \X Locals) /\ IsFiniteSet((1..Len(fs)) \X (1..MaxPending))
  BY <1>1, <1>2, FS_Product
<1>4. /\ LocalsIn(fs, b) \in SUBSET ((1..Len(fs)) \X Locals)
      /\ PendingIn(fs, b) \in SUBSET ((1..Len(fs)) \X (1..MaxPending))
  BY DEF LocalsIn, PendingIn
<1>5. IsFiniteSet(LocalsIn(fs, b)) /\ IsFiniteSet(PendingIn(fs, b))
  BY <1>3, <1>4, FS_Subset
<1>6. Cardinality(LocalsIn(fs, b)) \in Nat /\ Cardinality(PendingIn(fs, b)) \in Nat
  BY <1>5, FS_CardinalityType
<1> QED BY <1>5, <1>6 DEF OfFrames

LEMMA OneFrameMore ==
    ASSUME NEW fs \in Seq(Frame), NEW f \in Frame, Len(f.pending) <= MaxPending, NEW b
    PROVE  OfFrames(Append(fs, f), b) = OfFrames(fs, b) + OfFrame(f, b)
<1> DEFINE N == Len(fs)
           gs == Append(fs, f)
           Loc == {v \in Locals : f.locals[v] = b}
<1>1. /\ N \in Nat /\ Len(gs) = N + 1 /\ gs[N + 1] = f /\ \A d \in 1..N : gs[d] = fs[d]
  BY AppendProperties
<1>2. f.pending \in Seq(Reg) /\ f.locals \in [Locals -> Leaf] /\ Len(f.pending) \in Nat
  BY DEF Frame
<1>3. \A d : d \in 1..(N + 1) <=> (d \in 1..N \/ d = N + 1)
  BY <1>1
<1>4. N + 1 \notin 1..N
  BY <1>1
<1> HIDE DEF gs, N
<1>5. LocalsIn(gs, b) = LocalsIn(fs, b) \cup ({N + 1} \X Loc)
  <2>1. \A d, v : <<d, v>> \in LocalsIn(gs, b) <=>
                    d \in 1..(N + 1) /\ v \in Locals /\ gs[d].locals[v] = b
    BY <1>1 DEF LocalsIn
  <2>2. \A d, v : <<d, v>> \in LocalsIn(fs, b) <=>
                    d \in 1..N /\ v \in Locals /\ fs[d].locals[v] = b
    BY DEF LocalsIn, N
  <2>3. \A d, v : <<d, v>> \in {N + 1} \X Loc <=> d = N + 1 /\ v \in Locals /\ f.locals[v] = b
    OBVIOUS
  <2>4. /\ \A p \in LocalsIn(gs, b) : p = <<p[1], p[2]>>
        /\ \A p \in LocalsIn(fs, b) \cup ({N + 1} \X Loc) : p = <<p[1], p[2]>>
    BY DEF LocalsIn
  <2>5. ASSUME NEW d, NEW v
        PROVE  <<d, v>> \in LocalsIn(gs, b) <=>
                 <<d, v>> \in LocalsIn(fs, b) \cup ({N + 1} \X Loc)
    <3> HIDE DEF Loc
    <3>1. <<d, v>> \in LocalsIn(fs, b) \cup ({N + 1} \X Loc) <=>
            <<d, v>> \in LocalsIn(fs, b) \/ <<d, v>> \in {N + 1} \X Loc
      OBVIOUS
    <3>2. CASE d = N + 1
      BY ONLY <1>1, <1>3, <1>4, <2>1, <2>2, <2>3, <3>1, <3>2
    <3>3. CASE d # N + 1
      BY ONLY <1>1, <1>3, <2>1, <2>2, <2>3, <3>1, <3>3
    <3> QED BY <3>2, <3>3
  <2> HIDE DEF Loc
  <2> QED BY ONLY <2>4, <2>5
<1>6. PendingIn(gs, b) = PendingIn(fs, b) \cup ({N + 1} \X Held(f.pending, b))
  <2>1. \A d, i : <<d, i>> \in PendingIn(gs, b) <=>
                    /\ d \in 1..(N + 1) /\ i \in 1..MaxPending /\ i <= Len(gs[d].pending)
                    /\ Owned(gs[d].pending[i]) /\ gs[d].pending[i].leaf = b
    BY <1>1 DEF PendingIn
  <2>2. \A d, i : <<d, i>> \in PendingIn(fs, b) <=>
                    /\ d \in 1..N /\ i \in 1..MaxPending /\ i <= Len(fs[d].pending)
                    /\ Owned(fs[d].pending[i]) /\ fs[d].pending[i].leaf = b
    BY DEF PendingIn, N
  <2>3. \A i : i \in Held(f.pending, b) <=>
                 /\ i \in 1..MaxPending /\ i <= Len(f.pending)
                 /\ Owned(f.pending[i]) /\ f.pending[i].leaf = b
    <3>1. DOMAIN f.pending = 1..Len(f.pending)
      BY <1>2
    <3>2. \A i : i \in 1..Len(f.pending) <=> i \in 1..MaxPending /\ i <= Len(f.pending)
      BY <1>2, BoundsAssumption
    <3> QED BY ONLY <3>1, <3>2 DEF Held
  <2>4. \A d, i : <<d, i>> \in {N + 1} \X Held(f.pending, b) <=>
                    d = N + 1 /\ i \in Held(f.pending, b)
    OBVIOUS
  <2>5. /\ \A p \in PendingIn(gs, b) : p = <<p[1], p[2]>>
        /\ \A p \in PendingIn(fs, b) \cup ({N + 1} \X Held(f.pending, b)) : p = <<p[1], p[2]>>
    BY DEF PendingIn
  <2>6. ASSUME NEW d, NEW i
        PROVE  <<d, i>> \in PendingIn(gs, b) <=>
                 <<d, i>> \in PendingIn(fs, b) \cup ({N + 1} \X Held(f.pending, b))
    <3>1. <<d, i>> \in PendingIn(fs, b) \cup ({N + 1} \X Held(f.pending, b)) <=>
            <<d, i>> \in PendingIn(fs, b) \/ <<d, i>> \in {N + 1} \X Held(f.pending, b)
      OBVIOUS
    <3>2. CASE d = N + 1
      BY ONLY <1>1, <1>3, <1>4, <2>1, <2>2, <2>3, <2>4, <3>1, <3>2
    <3>3. CASE d # N + 1
      BY ONLY <1>1, <1>3, <2>1, <2>2, <2>4, <3>1, <3>3, SMTT(30)
    <3> QED BY <3>2, <3>3
  <2> QED BY ONLY <2>5, <2>6
<1>7. IsFiniteSet(Loc) /\ Cardinality(Loc) = One(f.locals["ls"], b) + One(f.locals["lv"], b)
  <2>1. Loc = (IF f.locals["ls"] = b THEN {"ls"} ELSE {})
                \cup (IF f.locals["lv"] = b THEN {"lv"} ELSE {})
    BY DEF Locals
  <2>2. /\ IsFiniteSet({}) /\ Cardinality({}) = 0
        /\ IsFiniteSet({"ls"}) /\ Cardinality({"ls"}) = 1
        /\ IsFiniteSet({"lv"}) /\ Cardinality({"lv"}) = 1
    BY FS_EmptySet, FS_Singleton
  <2> HIDE DEF Loc
  <2>3. \A A, B : IsFiniteSet(A) /\ IsFiniteSet(B) /\ A \cap B = {} =>
          IsFiniteSet(A \cup B) /\ Cardinality(A \cup B) = Cardinality(A) + Cardinality(B)
    BY Disjoint
  <2>4. PICK A, B : /\ A = IF f.locals["ls"] = b THEN {"ls"} ELSE {}
                    /\ B = IF f.locals["lv"] = b THEN {"lv"} ELSE {}
    OBVIOUS
  <2>5. IsFiniteSet(A) /\ Cardinality(A) = One(f.locals["ls"], b)
    BY <2>2, <2>4 DEF One
  <2>6. IsFiniteSet(B) /\ Cardinality(B) = One(f.locals["lv"], b)
    BY <2>2, <2>4 DEF One
  <2>7. A \cap B = {} /\ Loc = A \cup B
    BY <2>1, <2>4
  <2> QED BY ONLY <2>3, <2>5, <2>6, <2>7
<1>8. /\ Cardinality(LocalsIn(gs, b)) =
           Cardinality(LocalsIn(fs, b)) + One(f.locals["ls"], b) + One(f.locals["lv"], b)
  <2>1. /\ IsFiniteSet({N + 1} \X Loc)
        /\ Cardinality({N + 1} \X Loc) = One(f.locals["ls"], b) + One(f.locals["lv"], b)
    BY <1>7, Tagged
  <2>2. LocalsIn(fs, b) \cap ({N + 1} \X Loc) = {}
    BY <1>4 DEF LocalsIn, N
  <2> HIDE DEF Loc
  <2>3. IsFiniteSet(LocalsIn(fs, b))
    BY SlotsFinite
  <2>4. /\ Cardinality(LocalsIn(gs, b)) =
             Cardinality(LocalsIn(fs, b)) + Cardinality({N + 1} \X Loc)
        /\ Cardinality(LocalsIn(fs, b)) \in Nat
    BY <1>5, <2>1, <2>2, <2>3, Disjoint
  <2> QED BY <2>1, <2>4 DEF One
<1>9. Cardinality(PendingIn(gs, b)) = Cardinality(PendingIn(fs, b)) + Count(f.pending, b)
  <2>1. IsFiniteSet(Held(f.pending, b))
    BY <1>2, HeldFinite
  <2>2. /\ IsFiniteSet({N + 1} \X Held(f.pending, b))
        /\ Cardinality({N + 1} \X Held(f.pending, b)) = Count(f.pending, b)
    BY <2>1, Tagged DEF Count
  <2>3. PendingIn(fs, b) \cap ({N + 1} \X Held(f.pending, b)) = {}
    BY <1>4 DEF PendingIn, N
  <2>4. IsFiniteSet(PendingIn(fs, b))
    BY SlotsFinite
  <2> QED BY <1>6, <2>2, <2>3, <2>4, Disjoint
<1>10. /\ Cardinality(LocalsIn(fs, b)) \in Nat /\ Cardinality(PendingIn(fs, b)) \in Nat
       /\ Count(f.pending, b) \in Nat /\ One(f.locals["ls"], b) \in Nat
       /\ One(f.locals["lv"], b) \in Nat
  BY <1>2, SlotsFinite, FS_CardinalityType, HeldFinite DEF One
<1>11. OfFrames(gs, b) = OfFrames(fs, b) + OfFrame(f, b)
  BY <1>8, <1>9, <1>10 DEF OfFrames, OfFrame
<1> QED BY <1>11 DEF gs

-----------------------------------------------------------------------------
(* A state: the counts, the frames that wait for a call and the running one. *)
OfGlobals(gl, b) == One(gl["gs"], b) + One(gl["gv"], b)

Books(c, lk, gl, rest, top) ==
  /\ c \in [Blocks -> Nat] /\ lk \in [Blocks -> Nat] /\ gl \in [Globals -> Leaf]
  /\ rest \in Seq(Frame) /\ top \in Frame
  /\ \A d \in 1..Len(rest) : Waiting(rest[d])
  /\ \A b \in Blocks :
        c[b] = OfGlobals(gl, b) + OfFrames(rest, b) + OfFrame(top, b) + lk[b]

State(c, lk, gl, rest, top) == Books(c, lk, gl, rest, top) /\ Running(top, gl)

LEMMA Naturals ==
    ASSUME NEW fs \in Seq(Frame), NEW f \in Frame, NEW gl, NEW b
    PROVE  /\ Cardinality(LocalsIn(fs, b)) \in Nat /\ Cardinality(PendingIn(fs, b)) \in Nat
           /\ OfFrames(fs, b) \in Nat /\ OfFrame(f, b) \in Nat /\ OfGlobals(gl, b) \in Nat
           /\ \A l : One(l, b) \in Nat
<1>1. \A l : One(l, b) \in Nat
  BY DEF One
<1>2. f.pending \in Seq(Reg)
  BY DEF Frame
<1>3. Count(f.pending, b) \in Nat
  BY <1>2, HeldFinite
<1>4. OfFrame(f, b) \in Nat
  BY <1>1, <1>3 DEF OfFrame
<1>5. OfGlobals(gl, b) \in Nat
  BY <1>1 DEF OfGlobals
<1>6. IsFiniteSet(LocalsIn(fs, b)) /\ IsFiniteSet(PendingIn(fs, b)) /\ OfFrames(fs, b) \in Nat
  BY SlotsFinite
<1> QED BY <1>1, <1>4, <1>5, <1>6, FS_CardinalityType

LEMMA GlobalsCount ==
    ASSUME NEW gl \in [Globals -> Leaf], NEW b
    PROVE  Cardinality({g \in Globals : gl[g] = b}) = OfGlobals(gl, b)
<1>1. PICK A, B : /\ A = IF gl["gs"] = b THEN {"gs"} ELSE {}
                  /\ B = IF gl["gv"] = b THEN {"gv"} ELSE {}
  OBVIOUS
<1>2. /\ IsFiniteSet({}) /\ Cardinality({}) = 0
      /\ IsFiniteSet({"gs"}) /\ Cardinality({"gs"}) = 1
      /\ IsFiniteSet({"gv"}) /\ Cardinality({"gv"}) = 1
  BY FS_EmptySet, FS_Singleton
<1>3. IsFiniteSet(A) /\ Cardinality(A) = One(gl["gs"], b)
  BY <1>1, <1>2 DEF One
<1>4. IsFiniteSet(B) /\ Cardinality(B) = One(gl["gv"], b)
  BY <1>1, <1>2 DEF One
<1>5. A \cap B = {} /\ {g \in Globals : gl[g] = b} = A \cup B
  BY <1>1 DEF Globals
<1> QED BY <1>3, <1>4, <1>5, Disjoint DEF OfGlobals

LEMMA LastApart ==
    ASSUME NEW fs \in Seq(Frame), Len(fs) >= 1
    PROVE  LET rest == SubSeq(fs, 1, Len(fs) - 1) IN
           /\ rest \in Seq(Frame) /\ Len(rest) = Len(fs) - 1
           /\ \A d \in 1..Len(fs) - 1 : rest[d] = fs[d]
           /\ fs[Len(fs)] \in Frame /\ fs = Append(rest, fs[Len(fs)])
<1> DEFINE n == Len(fs)  rest == SubSeq(fs, 1, n - 1)
<1>1. n \in Nat /\ n >= 1 /\ n - 1 \in Nat /\ \A d \in 1..n : fs[d] \in Frame
  OBVIOUS
<1>2. fs[n] \in Frame
  BY <1>1
<1>3. /\ rest \in Seq(Frame)
      /\ Len(rest) = (IF 1 <= n - 1 THEN (n - 1) - 1 + 1 ELSE 0)
      /\ \A i \in 1..(n - 1) - 1 + 1 : rest[i] = fs[1 + i - 1]
  <2>1. \A d \in 1..(n - 1) : fs[d] \in Frame
    BY <1>1
  <2>2. 1 \in Int /\ n - 1 \in Int
    BY <1>1
  <2> HIDE DEF n
  <2> QED BY <2>1, <2>2, SubSeqProperties
<1>4. Len(rest) = n - 1 /\ \A d \in 1..n - 1 : rest[d] = fs[d]
  <2> HIDE DEF rest, n
  <2> QED BY ONLY <1>1, <1>3
<1>5. fs = Append(rest, fs[n])
  <2> DEFINE gs == Append(rest, fs[n])
  <2>1. /\ gs \in Seq(Frame) /\ Len(gs) = Len(rest) + 1
        /\ \A i \in 1..Len(rest) : gs[i] = rest[i]
        /\ gs[Len(rest) + 1] = fs[n]
    BY <1>2, <1>3, AppendProperties
  <2> HIDE DEF gs, rest
  <2>2. Len(gs) = Len(fs) /\ \A i \in 1..Len(fs) : gs[i] = fs[i]
    BY <1>1, <1>4, <2>1
  <2>3. gs = fs
    BY <2>1, <2>2
  <2> QED BY <2>3 DEF gs
<1> QED BY <1>2, <1>3, <1>4, <1>5

LEMMA Split ==
    ASSUME IInv
    PROVE  /\ State(rc, leaked, globals, SubSeq(frames, 1, depth - 1), Top)
           /\ frames = Append(SubSeq(frames, 1, depth - 1), Top)
           /\ Len(SubSeq(frames, 1, depth - 1)) = depth - 1 /\ depth \in Nat
<1> USE DEF IInv
<1>1. frames \in Seq(Frame) /\ Len(frames) >= 1 /\ Len(frames) \in Nat
  BY DEF TypeOK
<1>2. PICK rest, top : rest = SubSeq(frames, 1, Len(frames) - 1) /\ top = frames[Len(frames)]
  OBVIOUS
<1>3. /\ rest \in Seq(Frame) /\ Len(rest) = Len(frames) - 1
      /\ \A d \in 1..Len(frames) - 1 : rest[d] = frames[d]
      /\ top \in Frame /\ frames = Append(rest, top)
  BY <1>1, <1>2, LastApart
<1>4. \A d \in 1..Len(rest) : Waiting(rest[d])
  BY <1>1, <1>3 DEF Suspended, depth
<1>5. Running(top, globals)
  BY <1>2 DEF Views, Top, depth
<1>6. ASSUME NEW b \in Blocks
      PROVE  rc[b] = OfGlobals(globals, b) + OfFrames(rest, b) + OfFrame(top, b) + leaked[b]
  <2>1. Owners(b) = OfGlobals(globals, b) + OfFrames(frames, b)
    <3>1. Cardinality({g \in Globals : globals[g] = b}) = OfGlobals(globals, b)
      BY GlobalsCount DEF TypeOK
    <3>2. Owners(b) = Cardinality({g \in Globals : globals[g] = b})
                        + Cardinality(LocalsIn(frames, b)) + Cardinality(PendingIn(frames, b))
      BY DEF Owners, LocalsIn, PendingIn, depth
    <3>3. /\ OfFrames(frames, b) = Cardinality(LocalsIn(frames, b)) + Cardinality(PendingIn(frames, b))
          /\ Cardinality(LocalsIn(frames, b)) \in Nat /\ Cardinality(PendingIn(frames, b)) \in Nat
          /\ OfGlobals(globals, b) \in Nat
      BY <1>1, <1>3, Naturals DEF OfFrames
    <3> QED BY ONLY <3>1, <3>2, <3>3
  <2>2. OfFrames(frames, b) = OfFrames(rest, b) + OfFrame(top, b)
    BY <1>3, <1>5, OneFrameMore DEF Running
  <2>3. /\ OfFrames(rest, b) \in Nat /\ OfFrame(top, b) \in Nat /\ OfGlobals(globals, b) \in Nat
        /\ leaked[b] \in Nat
    BY <1>3, Naturals DEF TypeOK
  <2>4. rc[b] = Owners(b) + leaked[b]
    BY DEF CountsExact
  <2> QED BY ONLY <2>1, <2>2, <2>3, <2>4
<1>7. State(rc, leaked, globals, rest, top)
  BY <1>3, <1>4, <1>5, <1>6 DEF State, Books, TypeOK
<1> QED BY <1>1, <1>2, <1>3, <1>7 DEF Top, depth

LEMMA Joined ==
    ASSUME NEW rest, NEW top, State(rc, leaked, globals, rest, top),
           frames = Append(rest, top)
    PROVE  IInv
<1>0. top \in Frame
  BY DEF State, Books
<1>1. /\ frames \in Seq(Frame) /\ Len(frames) = Len(rest) + 1 /\ Len(rest) \in Nat
      /\ \A d \in 1..Len(rest) : frames[d] = rest[d]
      /\ frames[Len(rest) + 1] = top
  BY AppendProperties DEF State, Books
<1>2. TypeOK
  BY <1>1 DEF State, Books, TypeOK
<1>3. Suspended
  BY <1>1 DEF State, Books, Suspended, depth
<1>4. Views
  BY <1>1 DEF State, Books, Views, Top, depth
<1>5. ASSUME NEW b \in Blocks PROVE rc[b] = Owners(b) + leaked[b]
  <2>1. Owners(b) = OfGlobals(globals, b) + OfFrames(frames, b)
    <3>1. Cardinality({g \in Globals : globals[g] = b}) = OfGlobals(globals, b)
      BY GlobalsCount DEF State, Books
    <3>2. Owners(b) = Cardinality({g \in Globals : globals[g] = b})
                        + Cardinality(LocalsIn(frames, b)) + Cardinality(PendingIn(frames, b))
      BY DEF Owners, LocalsIn, PendingIn, depth
    <3>3. /\ OfFrames(frames, b) = Cardinality(LocalsIn(frames, b)) + Cardinality(PendingIn(frames, b))
          /\ Cardinality(LocalsIn(frames, b)) \in Nat /\ Cardinality(PendingIn(frames, b)) \in Nat
          /\ OfGlobals(globals, b) \in Nat
      BY <1>0, <1>1, Naturals DEF OfFrames
    <3> QED BY ONLY <3>1, <3>2, <3>3
  <2>2. OfFrames(frames, b) = OfFrames(rest, b) + OfFrame(top, b)
    BY OneFrameMore DEF State, Books, Running
  <2>3. /\ OfFrames(rest, b) \in Nat /\ OfFrame(top, b) \in Nat /\ OfGlobals(globals, b) \in Nat
        /\ leaked[b] \in Nat
    BY Naturals DEF State, Books
  <2>4. rc[b] = OfGlobals(globals, b) + OfFrames(rest, b) + OfFrame(top, b) + leaked[b]
    BY DEF State, Books
  <2> QED BY ONLY <2>1, <2>2, <2>3, <2>4
<1> QED BY <1>2, <1>3, <1>4, <1>5 DEF IInv, CountsExact

LEMMA AnyJoined ==
    \A r, t : State(rc, leaked, globals, r, t) /\ frames = Append(r, t) => IInv
BY Joined

LEMMA AnyJoinedNext ==
    (\A r, t : State(rc, leaked, globals, r, t) /\ frames = Append(r, t) => IInv)'
BY AnyJoined, PTL

LEMMA JoinedNext ==
    ASSUME NEW rest, NEW top, State(rc', leaked', globals', rest, top),
           frames' = Append(rest, top)
    PROVE  IInv'
BY AnyJoinedNext


-----------------------------------------------------------------------------
(* What one retain or release does to the counts.                          *)
LEMMA RetainCount ==
    ASSUME NEW c \in [Blocks -> Nat], NEW l \in Leaf, l \in Blocks => c[l] > 0
    PROVE  /\ Retain(c, l) \in [Blocks -> Nat]
           /\ \A b \in Blocks : Retain(c, l)[b] = c[b] + One(l, b)
<1>1. CASE l \in Blocks
  <2>1. Retain(c, l) = [c EXCEPT ![l] = @ + 1]
    BY <1>1 DEF Retain
  <2> QED BY <1>1, <2>1 DEF One
<1>2. CASE l \notin Blocks
  <2>1. Retain(c, l) = c
    BY <1>2 DEF Retain
  <2> QED BY <1>2, <2>1 DEF One
<1> QED BY <1>1, <1>2

LEMMA ReleaseCount ==
    ASSUME NEW c \in [Blocks -> Nat], NEW l \in Leaf, l \in Blocks => c[l] > 0
    PROVE  /\ Release(c, l) \in [Blocks -> Nat]
           /\ \A b \in Blocks : Release(c, l)[b] = c[b] - One(l, b)
<1>1. CASE l \in Blocks
  <2>1. Release(c, l) = [c EXCEPT ![l] = @ - 1]
    BY <1>1 DEF Release
  <2> QED BY <1>1, <2>1 DEF One
<1>2. CASE l \notin Blocks
  <2>1. Release(c, l) = c
    BY <1>2 DEF Release
  <2> QED BY <1>2, <2>1 DEF One
<1> QED BY <1>1, <1>2

LEMMA ReleasedCount ==
    ASSUME NEW c \in [Blocks -> Nat], NEW ops \in Seq(Reg),
           \A b \in Blocks : c[b] >= Cardinality(HeldHere(ops, b))
    PROVE  /\ Released(c, ops) \in [Blocks -> Nat]
           /\ \A b \in Blocks : Released(c, ops)[b] = c[b] - Cardinality(HeldHere(ops, b))
<1>1. ASSUME NEW b \in Blocks
      PROVE  /\ Released(c, ops)[b] \in Nat
             /\ Released(c, ops)[b] = c[b] - Cardinality(HeldHere(ops, b))
  <2>1. PICK n \in Nat : n = Cardinality(HeldHere(ops, b))
    BY HereOrAway
  <2>2. Released(c, ops)[b] = IF c[b] > n THEN c[b] - n ELSE 0
    BY <2>1 DEF Released, HeldHere
  <2>3. c[b] >= n /\ c[b] \in Nat
    BY <2>1
  <2> QED BY ONLY <2>1, <2>2, <2>3
<1>2. Released(c, ops) = [b \in Blocks |-> Released(c, ops)[b]]
  BY DEF Released
<1> QED BY <1>1, <1>2

LEMMA LeaksCount ==
    ASSUME NEW ops \in Seq(Reg), leaked \in [Blocks -> Nat]
    PROVE  /\ Leaks(ops) \in [Blocks -> Nat]
           /\ \A b \in Blocks : Leaks(ops)[b] = leaked[b] + Cardinality(HeldAway(ops, b))
<1>1. \A b \in Blocks : Leaks(ops)[b] = leaked[b] + Cardinality(HeldAway(ops, b))
  BY DEF Leaks, HeldAway
<1>2. \A b \in Blocks : leaked[b] \in Nat /\ Cardinality(HeldAway(ops, b)) \in Nat
  BY HereOrAway
<1>3. Leaks(ops) = [b \in Blocks |-> Leaks(ops)[b]]
  BY DEF Leaks
<1> QED BY <1>1, <1>2, <1>3

\* The registers an expression has, and the last k of them that are read.
LEMMA Halves ==
    ASSUME NEW s \in Seq(Reg), NEW k \in 0..Len(s)
    PROVE  LET kept == SubSeq(s, 1, Len(s) - k)
               ops == SubSeq(s, Len(s) - k + 1, Len(s)) IN
           /\ kept \in Seq(Reg) /\ Len(kept) = Len(s) - k
           /\ \A i \in 1..Len(s) - k : kept[i] = s[i]
           /\ ops \in Seq(Reg) /\ Len(ops) = k
           /\ \A i \in 1..k : ops[i] = s[Len(s) - k + i]
           /\ \A b : Count(s, b) = Count(kept, b) + Count(ops, b)
<1> DEFINE n == Len(s)  kept == SubSeq(s, 1, n - k)  ops == SubSeq(s, n - k + 1, n)
<1>1. n \in Nat /\ k \in Nat /\ k <= n /\ \A i \in 1..n : s[i] \in Reg
  OBVIOUS
<1> HIDE DEF n
<1>2. /\ kept \in Seq(Reg)
      /\ Len(kept) = (IF 1 <= n - k THEN (n - k) - 1 + 1 ELSE 0)
      /\ \A i \in 1..(n - k) - 1 + 1 : kept[i] = s[1 + i - 1]
  <2>1. \A i \in 1..(n - k) : s[i] \in Reg
    BY <1>1
  <2>2. 1 \in Int /\ n - k \in Int
    BY <1>1
  <2> QED BY <2>1, <2>2, SubSeqProperties
<1>3. /\ ops \in Seq(Reg)
      /\ Len(ops) = (IF n - k + 1 <= n THEN n - (n - k + 1) + 1 ELSE 0)
      /\ \A i \in 1..n - (n - k + 1) + 1 : ops[i] = s[(n - k + 1) + i - 1]
  <2>1. \A i \in (n - k + 1)..n : s[i] \in Reg
    BY <1>1
  <2>2. n - k + 1 \in Int /\ n \in Int
    BY <1>1
  <2> QED BY <2>1, <2>2, SubSeqProperties
<1> HIDE DEF kept, ops
<1>4. Len(kept) = n - k /\ \A i \in 1..n - k : kept[i] = s[i]
  BY ONLY <1>1, <1>2
<1>5. Len(ops) = k
  BY ONLY <1>1, <1>3
<1>6. \A i \in 1..k : ops[i] = s[n - k + i]
  <2>1. ASSUME NEW i \in 1..k PROVE ops[i] = s[n - k + i]
    <3>1. i \in 1..n - (n - k + 1) + 1 /\ (n - k + 1) + i - 1 = n - k + i
      BY ONLY <1>1, <2>1
    <3> QED BY <1>3, <3>1
  <2> QED BY <2>1
<1>7. s = kept \o ops
  <2>1. n - k \in (1 - 1)..n /\ 1 \in 1..(n + 1) /\ n \in (n - k)..n
    BY ONLY <1>1
  <2>2. SubSeq(s, 1, n - k) \o SubSeq(s, n - k + 1, n) = SubSeq(s, 1, n)
    BY <2>1, ConcatAdjacentSubSeq DEF n
  <2>3. SubSeq(s, 1, n) = s
    BY SubSeqFull DEF n
  <2> QED BY <2>2, <2>3 DEF kept, ops
<1>8. \A b : Count(s, b) = Count(kept, b) + Count(ops, b)
  BY <1>2, <1>3, <1>7, CountConcat
<1> QED BY <1>2, <1>3, <1>4, <1>5, <1>6, <1>8 DEF n, kept, ops

\* kept and ops are the registers s has before its last k, and those k.
AreHalves(s, k, kept, ops) ==
  /\ kept \in Seq(Reg) /\ Len(kept) = Len(s) - k
  /\ \A i \in 1..Len(s) - k : kept[i] = s[i]
  /\ ops \in Seq(Reg)
  /\ \A b : Count(s, b) = Count(kept, b) + Count(ops, b)

LEMMA Halved ==
    ASSUME NEW s \in Seq(Reg), NEW k \in 0..Len(s)
    PROVE  AreHalves(s, k, SubSeq(s, 1, Len(s) - k), SubSeq(s, Len(s) - k + 1, Len(s)))
  BY Halves, ZenonT(60) DEF AreHalves

\* Whatever the running function names has a count.
LEMMA Living ==
    ASSUME NEW c, NEW lk, NEW gl, NEW rest, NEW top, State(c, lk, gl, rest, top),
           NEW l \in Blocks
    PROVE  /\ \A g \in Globals : gl[g] = l => c[l] > 0
           /\ \A v \in Locals : top.locals[v] = l => c[l] > 0
           /\ \A i \in 1..Len(top.pending) : top.pending[i].leaf = l => c[l] > 0
<1>1. /\ c[l] = OfGlobals(gl, l) + OfFrames(rest, l) + OfFrame(top, l) + lk[l]
      /\ top.pending \in Seq(Reg) /\ lk[l] \in Nat
  BY DEF State, Books, Frame
<1>2. /\ OfGlobals(gl, l) \in Nat /\ OfFrames(rest, l) \in Nat /\ OfFrame(top, l) \in Nat
      /\ \A x : One(x, l) \in Nat
  BY Naturals DEF State, Books
<1>3. Count(top.pending, l) \in Nat
  BY <1>1, HeldFinite
<1>4. ASSUME NEW g \in Globals, gl[g] = l PROVE c[l] > 0
  <2>1. One(gl[g], l) = 1 /\ g \in {"gs", "gv"}
    BY <1>4 DEF One, Globals
  <2>2. OfGlobals(gl, l) > 0
    BY <1>2, <2>1 DEF OfGlobals
  <2> QED BY ONLY <1>1, <1>2, <2>2
<1>5. ASSUME NEW v \in Locals, top.locals[v] = l PROVE c[l] > 0
  <2>1. One(top.locals[v], l) = 1 /\ v \in {"ls", "lv"}
    BY <1>5 DEF One, Locals
  <2>2. OfFrame(top, l) > 0
    BY <1>2, <1>3, <2>1 DEF OfFrame
  <2> QED BY ONLY <1>1, <1>2, <2>2
<1>6. ASSUME NEW i \in 1..Len(top.pending), top.pending[i].leaf = l PROVE c[l] > 0
  <2>1. CASE Owned(top.pending[i])
    <3>1. i \in Held(top.pending, l)
      BY <1>1, <1>6, <2>1 DEF Held
    <3>2. Count(top.pending, l) # 0
      BY <1>1, <3>1, HeldFinite, FS_EmptySet DEF Count
    <3>3. OfFrame(top, l) > 0
      BY <1>2, <1>3, <3>2 DEF OfFrame
    <3> QED BY ONLY <1>1, <1>2, <3>3
  <2>2. CASE ~Owned(top.pending[i])
    <3>1. Names(l, gl, top.locals)
      BY <1>6, <2>2 DEF State, Books, Running
    <3> QED BY <1>4, <1>5, <3>1, EmptyAssumption DEF Names
  <2> QED BY <2>1, <2>2
<1> QED BY <1>4, <1>5, <1>6

-----------------------------------------------------------------------------
(* One instruction: reading the last k registers of the running function   *)
(* and defining others.                                                    *)
LEMMA TopReplaced ==
    ASSUME NEW rest \in Seq(Frame), NEW top \in Frame, NEW f \in Frame
    PROVE  /\ [Append(rest, top) EXCEPT ![Len(rest) + 1] = f] = Append(rest, f)
           /\ Append(rest, top)[Len(rest) + 1] = top
<1> DEFINE s == Append(rest, top)  t == Append(rest, f)  u == [s EXCEPT ![Len(rest) + 1] = f]
<1>1. /\ s \in Seq(Frame) /\ Len(s) = Len(rest) + 1 /\ Len(rest) \in Nat
      /\ \A i \in 1..Len(rest) : s[i] = rest[i]
      /\ s[Len(rest) + 1] = top
  BY AppendProperties
<1>2. /\ t \in Seq(Frame) /\ Len(t) = Len(rest) + 1
      /\ \A i \in 1..Len(rest) : t[i] = rest[i]
      /\ t[Len(rest) + 1] = f
  BY AppendProperties
<1> HIDE DEF s, t
<1>3. u \in Seq(Frame) /\ Len(u) = Len(rest) + 1
  BY <1>1
<1>4. \A i \in 1..Len(rest) + 1 : u[i] = t[i]
  BY <1>1, <1>2
<1>5. u = t
  <2> HIDE DEF u
  <2> QED BY <1>2, <1>3, <1>4
<1> QED BY <1>1, <1>5 DEF s, t

\* A frame's registers are kept or read; the counts become c1 and the leaks
\* lk1, the registers out are defined, and top1 is the frame then.
Reads(c, lk, gl, rest, top, kept, ops, out, c1, lk1, top1) ==
  /\ Books(c, lk, gl, rest, top)
  /\ kept \in Seq(Reg) /\ ops \in Seq(Reg) /\ out \in Seq(Reg)
  /\ \A b : Count(top.pending, b) = Count(kept, b) + Count(ops, b)
  /\ c1 \in [Blocks -> Nat] /\ \A b \in Blocks : c1[b] = c[b] + Count(out, b)
  /\ lk1 \in [Blocks -> Nat]
  /\ \A b \in Blocks : lk1[b] = lk[b] + Cardinality(HeldAway(ops, b))
  /\ top1 \in Frame /\ top1.pending = kept \o out /\ top1.locals = top.locals

LEMMA Ran ==
    ASSUME NEW c, NEW lk, NEW gl, NEW rest, NEW top, NEW kept, NEW ops, NEW out,
           NEW c1, NEW lk1, NEW top1, Reads(c, lk, gl, rest, top, kept, ops, out, c1, lk1, top1)
    PROVE  Books(Released(c1, ops), lk1, gl, rest, top1)
<1>1. /\ c \in [Blocks -> Nat] /\ lk \in [Blocks -> Nat] /\ gl \in [Globals -> Leaf]
      /\ rest \in Seq(Frame) /\ top \in Frame
      /\ \A d \in 1..Len(rest) : Waiting(rest[d])
      /\ \A b \in Blocks : c[b] = OfGlobals(gl, b) + OfFrames(rest, b) + OfFrame(top, b) + lk[b]
  BY DEF Reads, Books
<1>2. /\ c1 \in [Blocks -> Nat] /\ \A b \in Blocks : c1[b] = c[b] + Count(out, b)
      /\ lk1 \in [Blocks -> Nat]
      /\ \A b \in Blocks : lk1[b] = lk[b] + Cardinality(HeldAway(ops, b))
  BY DEF Reads
<1>3. /\ kept \in Seq(Reg) /\ ops \in Seq(Reg) /\ out \in Seq(Reg)
      /\ \A b : Count(top.pending, b) = Count(kept, b) + Count(ops, b)
  BY DEF Reads
<1>5. top1 \in Frame /\ top1.pending = kept \o out /\ top1.locals = top.locals
  BY DEF Reads
<1>7. ASSUME NEW b \in Blocks
      PROVE  /\ c1[b] >= Cardinality(HeldHere(ops, b))
             /\ c1[b] - Cardinality(HeldHere(ops, b)) =
                  OfGlobals(gl, b) + OfFrames(rest, b) + OfFrame(top1, b) + lk1[b]
  <2>1. Count(top1.pending, b) = Count(kept, b) + Count(out, b)
    <3>1. kept \in Seq(Reg) /\ out \in Seq(Reg)
      BY <1>3
    <3>2. Count(kept \o out, b) = Count(kept, b) + Count(out, b)
      BY ONLY <3>1, CountConcat
    <3> QED BY ONLY <1>5, <3>2
  <2>2. /\ Count(ops, b) = Cardinality(HeldHere(ops, b)) + Cardinality(HeldAway(ops, b))
        /\ Cardinality(HeldHere(ops, b)) \in Nat /\ Cardinality(HeldAway(ops, b)) \in Nat
    BY <1>3, HereOrAway
  <2>3. /\ OfFrame(top, b) = One(top.locals["ls"], b) + One(top.locals["lv"], b) + Count(top.pending, b)
        /\ OfFrame(top1, b) = One(top.locals["ls"], b) + One(top.locals["lv"], b) + Count(top1.pending, b)
    BY <1>5 DEF OfFrame
  <2>4. /\ OfGlobals(gl, b) \in Nat /\ OfFrames(rest, b) \in Nat
        /\ One(top.locals["ls"], b) \in Nat /\ One(top.locals["lv"], b) \in Nat
    BY <1>1, Naturals
  <2>5. Count(kept, b) \in Nat /\ Count(out, b) \in Nat
    BY <1>3, HeldFinite
  <2>6. c[b] = OfGlobals(gl, b) + OfFrames(rest, b) + OfFrame(top, b) + lk[b]
    BY <1>1
  <2>7. Count(top.pending, b) = Count(kept, b) + Count(ops, b)
    BY <1>3
  <2>8. /\ c1[b] = c[b] + Count(out, b) /\ lk[b] \in Nat
        /\ lk1[b] = lk[b] + Cardinality(HeldAway(ops, b))
    BY <1>1, <1>2
  <2>10. PICK g \in Nat, r \in Nat, l1 \in Nat, l2 \in Nat :
           /\ g = OfGlobals(gl, b) /\ r = OfFrames(rest, b)
           /\ l1 = One(top.locals["ls"], b) /\ l2 = One(top.locals["lv"], b)
    BY ONLY <2>4
  <2>11. PICK h \in Nat, a \in Nat, n \in Nat :
           h = Cardinality(HeldHere(ops, b)) /\ a = Cardinality(HeldAway(ops, b)) /\ n = lk[b]
    BY ONLY <2>2, <2>8
  <2>12. PICK x \in Nat, y \in Nat : x = Count(kept, b) /\ y = Count(out, b)
    BY ONLY <2>5
  <2>13. OfFrame(top, b) = l1 + l2 + (x + (h + a))
    BY ONLY <2>2, <2>3, <2>7, <2>10, <2>11, <2>12
  <2>14. OfFrame(top1, b) = l1 + l2 + (x + y)
    BY ONLY <2>1, <2>3, <2>10, <2>12
  <2>15. c1[b] = (g + r + (l1 + l2 + (x + (h + a))) + n) + y
    BY ONLY <2>6, <2>8, <2>10, <2>11, <2>12, <2>13
  <2>16. /\ g \in Nat /\ r \in Nat /\ l1 \in Nat /\ l2 \in Nat /\ x \in Nat /\ y \in Nat
         /\ h \in Nat /\ a \in Nat /\ n \in Nat
    BY <2>10, <2>11, <2>12
  <2>17. c1[b] >= h /\ c1[b] - h = g + r + (l1 + l2 + (x + y)) + (n + a)
    BY ONLY <2>15, <2>16
  <2> QED BY ONLY <2>8, <2>10, <2>11, <2>14, <2>17
<1>8. /\ Released(c1, ops) \in [Blocks -> Nat]
      /\ \A b \in Blocks : Released(c1, ops)[b] = c1[b] - Cardinality(HeldHere(ops, b))
  BY <1>2, <1>3, <1>7, ReleasedCount
<1> QED BY <1>1, <1>2, <1>5, <1>7, <1>8 DEF Books

LEMMA InstructionStep ==
    ASSUME IInv, NEW k \in 0..Len(Pending), NEW out \in Seq(Reg),
           \A i \in 1..Len(out) : ~Owned(out[i]) => Names(out[i].leaf, globals, Top.locals),
           NEW c \in [Blocks -> Nat], \A b \in Blocks : c[b] = rc[b] + Count(out, b),
           Instruction(k, c, out), UNCHANGED globals
    PROVE  IInv'
<1>1. PICK rest, top : rest = SubSeq(frames, 1, depth - 1) /\ top = Top
  OBVIOUS
<1>2. /\ State(rc, leaked, globals, rest, top) /\ frames = Append(rest, top)
      /\ Len(rest) = depth - 1 /\ depth \in Nat
  BY <1>1, Split
<1>3. Pending = top.pending
  BY <1>1 DEF Pending
<1>4. PICK kept, ops : /\ kept = SubSeq(top.pending, 1, Len(top.pending) - k)
                       /\ ops = SubSeq(top.pending, Len(top.pending) - k + 1, Len(top.pending))
  OBVIOUS
<1>5. Kept(k) = kept /\ Operands(k) = ops
  BY <1>3, <1>4 DEF Kept, Operands
<1>6. /\ Len(kept \o out) <= MaxPending
      /\ rc' = Released(c, ops) /\ leaked' = Leaks(ops) /\ globals' = globals
      /\ frames' = [frames EXCEPT ![depth].pending = kept \o out]
  BY <1>5 DEF Instruction
<1>7. top.pending \in Seq(Reg) /\ top \in Frame /\ rest \in Seq(Frame)
  BY <1>2 DEF State, Books, Frame
<1>8. /\ kept \in Seq(Reg) /\ Len(kept) = Len(top.pending) - k
      /\ \A i \in 1..Len(top.pending) - k : kept[i] = top.pending[i]
      /\ ops \in Seq(Reg)
      /\ \A b : Count(top.pending, b) = Count(kept, b) + Count(ops, b)
  <2>1. k \in 0..Len(top.pending)
    BY ONLY <1>3, k \in 0..Len(Pending)
  <2>2. AreHalves(top.pending, k, SubSeq(top.pending, 1, Len(top.pending) - k),
                  SubSeq(top.pending, Len(top.pending) - k + 1, Len(top.pending)))
    BY ONLY <1>7, <2>1, Halved, Zenon
  <2>3. AreHalves(top.pending, k, kept, ops)
    BY ONLY <1>4, <2>2, Zenon
  <2> QED BY ONLY <2>3 DEF AreHalves
<1>9. PICK top1 : top1 = [top EXCEPT !.pending = kept \o out]
  OBVIOUS
<1>10. /\ kept \o out \in Seq(Reg) /\ Len(kept \o out) = Len(kept) + Len(out)
       /\ \A i \in 1..Len(kept) + Len(out) :
             (kept \o out)[i] = IF i <= Len(kept) THEN kept[i] ELSE out[i - Len(kept)]
  BY <1>8, ConcatProperties
<1>11. /\ top1 \in Frame /\ top1.pending = kept \o out
       /\ top1.locals = top.locals /\ top1.args = top.args
  BY <1>7, <1>9, <1>10 DEF Frame
<1>12. Running(top1, globals)
  <2>1. ASSUME NEW i \in 1..Len(top1.pending), ~Owned(top1.pending[i])
        PROVE  Names(top1.pending[i].leaf, globals, top1.locals)
    <3>1. CASE i <= Len(kept)
      <4>1. top1.pending[i] = top.pending[i] /\ i \in 1..Len(top.pending)
        BY <1>3, <1>8, <1>10, <1>11, <2>1, <3>1
      <4> QED BY <1>2, <1>11, <2>1, <4>1 DEF State, Running
    <3>2. CASE i > Len(kept)
      <4>1. /\ i \in 1..Len(kept) + Len(out) /\ Len(kept) \in Nat /\ Len(out) \in Nat
            /\ i \in Nat
        BY <1>8, <1>10, <1>11, <2>1, SMTT(30)
      <4>2. ~(i <= Len(kept)) /\ i - Len(kept) \in 1..Len(out)
        BY ONLY <3>2, <4>1
      <4>3. top1.pending[i] = out[i - Len(kept)]
        BY <1>10, <1>11, <4>1, <4>2
      <4> QED BY <1>1, <1>11, <2>1, <4>2, <4>3
    <3> QED BY <1>8, <2>1, <3>1, <3>2
  <2> QED BY <1>2, <1>6, <1>11, <2>1 DEF State, Running
<1>13. PICK lk \in [Blocks -> Nat] :
         lk = Leaks(ops) /\ \A b \in Blocks : lk[b] = leaked[b] + Cardinality(HeldAway(ops, b))
  BY <1>2, <1>8, LeaksCount DEF State, Books
<1>14. Books(Released(c, ops), lk, globals, rest, top1)
  <2>1. Books(rc, leaked, globals, rest, top)
    BY <1>2 DEF State
  <2>2. c \in [Blocks -> Nat] /\ lk \in [Blocks -> Nat] /\ out \in Seq(Reg)
    BY <1>13
  <2>3. \A b \in Blocks : c[b] = rc[b] + Count(out, b)
    OBVIOUS
  <2>4. Reads(rc, leaked, globals, rest, top, kept, ops, out, c, lk, top1)
    BY ONLY <1>8, <1>11, <1>13, <2>1, <2>2, <2>3 DEF Reads
  <2> QED BY <2>4, Ran
<1>15. frames' = Append(rest, top1)
  <2>1. /\ [Append(rest, top) EXCEPT ![Len(rest) + 1] = top1] = Append(rest, top1)
        /\ Append(rest, top)[Len(rest) + 1] = top
    BY <1>7, <1>11, TopReplaced
  <2>2. Len(rest) + 1 = depth
    BY <1>2
  <2>3. frames' = [frames EXCEPT ![depth] = [frames[depth] EXCEPT !.pending = kept \o out]]
    BY <1>6
  <2> QED BY <1>2, <1>9, <2>1, <2>2, <2>3
<1> QED BY <1>6, <1>12, <1>13, <1>14, <1>15, JoinedNext DEF State

-----------------------------------------------------------------------------
(* The instructions that read registers of the running function.           *)
Lives(l) == l \in Leaf /\ (l \in Blocks => rc[l] > 0)

LEMMA AllLive ==
    ASSUME IInv
    PROVE  /\ Pending \in Seq(Reg) /\ Top \in Frame /\ rc \in [Blocks -> Nat]
           /\ \A i \in 1..Len(Pending) : Lives(Pending[i].leaf)
           /\ \A v \in Globals \cup Locals :
                 Lives(Content(v)) /\ Names(Content(v), globals, Top.locals)
<1>1. State(rc, leaked, globals, SubSeq(frames, 1, depth - 1), Top)
  BY Split
<1>2. /\ Top \in Frame /\ Pending \in Seq(Reg) /\ Top.locals \in [Locals -> Leaf]
      /\ globals \in [Globals -> Leaf] /\ rc \in [Blocks -> Nat]
  BY <1>1 DEF State, Books, Frame, Pending
<1>3. ASSUME NEW l \in Blocks
      PROVE  /\ \A g \in Globals : globals[g] = l => rc[l] > 0
             /\ \A v \in Locals : Top.locals[v] = l => rc[l] > 0
             /\ \A i \in 1..Len(Pending) : Pending[i].leaf = l => rc[l] > 0
  BY <1>1, <1>3, Living DEF Pending
<1>4. \A i \in 1..Len(Pending) : Lives(Pending[i].leaf)
  <2>1. \A i \in 1..Len(Pending) : Pending[i].leaf \in Leaf
    <3>1. ASSUME NEW r \in Reg PROVE r.leaf \in Leaf
      BY <3>1 DEF Reg
    <3>2. \A i \in 1..Len(Pending) : Pending[i] \in Reg
      BY <1>2
    <3> QED BY <3>1, <3>2
  <2> QED BY <1>3, <2>1 DEF Lives
<1>5. ASSUME NEW v \in Globals \cup Locals
      PROVE  Lives(Content(v)) /\ Names(Content(v), globals, Top.locals)
  <2>1. CASE v \in Globals
    <3>1. Content(v) = globals[v]
      BY <2>1 DEF Content
    <3> QED BY <1>2, <1>3, <2>1, <3>1 DEF Lives, Names
  <2>2. CASE v \notin Globals
    <3>1. Content(v) = Top.locals[v] /\ v \in Locals
      BY <2>2 DEF Content
    <3> QED BY <1>2, <1>3, <3>1 DEF Lives, Names
  <2> QED BY <2>1, <2>2
<1> QED BY <1>2, <1>4, <1>5

LEMMA OperandsLive ==
    ASSUME IInv, NEW k \in 0..Len(Pending)
    PROVE  /\ Operands(k) \in Seq(Reg) /\ DOMAIN Operands(k) = 1..k
           /\ \A i \in 1..k : /\ Operands(k)[i] = Pending[Len(Pending) - k + i]
                              /\ Len(Pending) - k + i \in 1..Len(Pending)
           /\ \A l \in Leaves(Operands(k)) : Lives(l)
<1>1. /\ Operands(k) \in Seq(Reg) /\ Len(Operands(k)) = k
      /\ \A i \in 1..k : Operands(k)[i] = Pending[Len(Pending) - k + i]
  BY AllLive, Halves DEF Operands
<1>2. Len(Pending) \in Nat /\ k \in Nat /\ k <= Len(Pending)
  BY AllLive
<1>3. \A i \in 1..k : Len(Pending) - k + i \in 1..Len(Pending)
  BY ONLY <1>2
<1>4. DOMAIN Operands(k) = 1..k
  BY <1>1
<1>5. \A l \in Leaves(Operands(k)) : Lives(l)
  BY <1>1, <1>3, <1>4, AllLive DEF Leaves
<1> QED BY <1>1, <1>3, <1>4, <1>5

LEMMA SingleOut ==
    ASSUME NEW r \in Reg
    PROVE  /\ <<r>> \in Seq(Reg) /\ Len(<<r>>) = 1 /\ <<r>>[1] = r
           /\ \A b : Count(<<r>>, b) = IF Owned(r) THEN One(r.leaf, b) ELSE 0
<1>1. <<r>> \in Seq(Reg) /\ Len(<<r>>) = 1 /\ <<r>>[1] = r
  OBVIOUS
<1>2. \A b : Count(<<r>>, b) = IF Owned(r) THEN One(r.leaf, b) ELSE 0
  BY CountFew, Zenon
<1> QED BY <1>1, <1>2

LEMMA NewRegs ==
    ASSUME NEW l \in Leaf
    PROVE  /\ Str(l) \in Reg /\ Owned(Str(l)) /\ Str(l).leaf = l
           /\ View(l) \in Reg /\ ~Owned(View(l)) /\ View(l).leaf = l
           /\ Temp(l) \in Reg /\ Owned(Temp(l)) /\ Temp(l).leaf = l
BY DEF Str, View, Temp, Reg, Owned

LEMMA DefinesNothing ==
    ASSUME IInv, NEW k \in 0..Len(Pending), Instruction(k, rc, <<>>), UNCHANGED globals
    PROVE  IInv'
<1>1. rc \in [Blocks -> Nat]
  BY AllLive
<1>2. \A b \in Blocks : rc[b] = rc[b] + Count(<<>>, b)
  BY <1>1, CountFew
<1>3. <<>> \in Seq(Reg) /\ \A i \in 1..Len(<<>>) : FALSE
  OBVIOUS
<1> QED BY <1>1, <1>2, <1>3, InstructionStep

LEMMA DefinesString ==
    ASSUME IInv, NEW k \in 0..Len(Pending), NEW l, Lives(l),
           Instruction(k, Retain(rc, l), <<Str(l)>>), UNCHANGED globals
    PROVE  IInv'
<1>1. rc \in [Blocks -> Nat] /\ l \in Leaf /\ (l \in Blocks => rc[l] > 0)
  BY AllLive DEF Lives
<1>2. /\ Retain(rc, l) \in [Blocks -> Nat]
      /\ \A b \in Blocks : Retain(rc, l)[b] = rc[b] + One(l, b)
  BY <1>1, RetainCount
<1>3. Str(l) \in Reg /\ Owned(Str(l)) /\ Str(l).leaf = l
  BY <1>1, NewRegs
<1>4. PICK out : out = <<Str(l)>>
  OBVIOUS
<1>5. /\ out \in Seq(Reg) /\ Len(out) = 1 /\ Owned(out[1])
      /\ \A b : Count(out, b) = One(l, b)
  BY <1>3, <1>4, SingleOut
<1>6. \A i \in 1..Len(out) : ~Owned(out[i]) => Names(out[i].leaf, globals, Top.locals)
  BY <1>5
<1>7. \A b \in Blocks : Retain(rc, l)[b] = rc[b] + Count(out, b)
  BY <1>2, <1>5
<1>8. Instruction(k, Retain(rc, l), out)
  BY <1>4
<1> QED BY <1>2, <1>5, <1>6, <1>7, <1>8, InstructionStep

LEMMA DefinesFresh ==
    ASSUME IInv, NEW k \in 0..Len(Pending), NEW n \in Blocks, rc[n] = 0,
           Instruction(k, [rc EXCEPT ![n] = 1], <<Str(n)>>), UNCHANGED globals
    PROVE  IInv'
<1>1. rc \in [Blocks -> Nat] /\ n \in Leaf
  BY AllLive DEF Leaf
<1>2. PICK c : c = [rc EXCEPT ![n] = 1]
  OBVIOUS
<1>3. c \in [Blocks -> Nat] /\ \A b \in Blocks : c[b] = rc[b] + One(n, b)
  BY <1>1, <1>2 DEF One
<1>4. Str(n) \in Reg /\ Owned(Str(n)) /\ Str(n).leaf = n
  BY <1>1, NewRegs
<1>5. PICK out : out = <<Str(n)>>
  OBVIOUS
<1>6. /\ out \in Seq(Reg) /\ Len(out) = 1 /\ Owned(out[1])
      /\ \A b : Count(out, b) = One(n, b)
  BY <1>4, <1>5, SingleOut
<1>7. \A i \in 1..Len(out) : ~Owned(out[i]) => Names(out[i].leaf, globals, Top.locals)
  BY <1>6
<1>8. \A b \in Blocks : c[b] = rc[b] + Count(out, b)
  BY <1>3, <1>6
<1>9. Instruction(k, c, out)
  BY <1>2, <1>5
<1> QED BY <1>3, <1>6, <1>7, <1>8, <1>9, InstructionStep

LEMMA DefinesView ==
    ASSUME IInv, NEW k \in 0..Len(Pending), NEW l \in Leaf, Names(l, globals, Top.locals),
           Instruction(k, rc, <<View(l)>>), UNCHANGED globals
    PROVE  IInv'
<1>1. rc \in [Blocks -> Nat]
  BY AllLive
<1>2. View(l) \in Reg /\ ~Owned(View(l)) /\ View(l).leaf = l
  BY NewRegs
<1>3. PICK out : out = <<View(l)>>
  OBVIOUS
<1>4. /\ out \in Seq(Reg) /\ Len(out) = 1 /\ out[1].leaf = l
      /\ \A b : Count(out, b) = 0
  BY <1>2, <1>3, SingleOut
<1>5. \A i \in 1..Len(out) : ~Owned(out[i]) => Names(out[i].leaf, globals, Top.locals)
  BY <1>4
<1>6. \A b \in Blocks : rc[b] = rc[b] + Count(out, b)
  BY <1>1, <1>4
<1>7. Instruction(k, rc, out)
  BY <1>3
<1> QED BY <1>1, <1>4, <1>5, <1>6, <1>7, InstructionStep

LEMMA EmptyLives == ASSUME IInv PROVE Lives(Empty)
BY EmptyAssumption DEF Lives, Leaf

LEMMA ComputedStep ==
    ASSUME IInv, NEW k \in 0..Len(Pending), Computed(k, Leaves(Operands(k))), UNCHANGED globals
    PROVE  IInv'
<1>1. CASE \E b \in Blocks : rc[b] = 0 /\ Instruction(k, [rc EXCEPT ![b] = 1], <<Str(b)>>)
  BY <1>1, DefinesFresh
<1>2. CASE \E l \in Leaves(Operands(k)) \cup {Empty} : Instruction(k, Retain(rc, l), <<Str(l)>>)
  <2>1. PICK l : Lives(l) /\ Instruction(k, Retain(rc, l), <<Str(l)>>)
    BY <1>2, OperandsLive, EmptyLives
  <2> QED BY <2>1, DefinesString
<1> QED BY <1>1, <1>2 DEF Computed

LEMMA ConstStringStep == ASSUME IInv, ConstString PROVE IInv'
<1>1. 0 \in 0..Len(Pending)
  BY AllLive
<1> QED BY <1>1, DefinesFresh DEF ConstString

LEMMA LoadStep == ASSUME IInv, NEW v \in Globals \cup Locals, Load(v) PROVE IInv'
<1>1. 0 \in 0..Len(Pending) /\ Lives(Content(v)) /\ Names(Content(v), globals, Top.locals)
  BY AllLive
<1>2. CASE IsString(v)
  BY <1>1, <1>2, DefinesString DEF Load
<1>3. CASE ~IsString(v)
  BY <1>1, <1>3, DefinesView DEF Load, Lives
<1> QED BY <1>2, <1>3

LEMMA ConcatStep == ASSUME IInv, Concat PROVE IInv'
<1>1. 2 \in 0..Len(Pending) /\ UNCHANGED globals
  BY AllLive DEF Concat
<1>2. CASE Empty \in Leaves(Operands(2))
  <2>1. PICK l : Lives(l) /\ Instruction(2, Retain(rc, l), <<Str(l)>>)
    BY <1>1, <1>2, OperandsLive DEF Concat
  <2> QED BY <1>1, <2>1, DefinesString
<1>3. CASE Empty \notin Leaves(Operands(2))
  BY <1>1, <1>3, ComputedStep DEF Concat
<1> QED BY <1>2, <1>3

LEMMA RuntimeCallStep == ASSUME IInv, RuntimeCall PROVE IInv'
<1>1. 1 \in 0..Len(Pending) /\ UNCHANGED globals
  BY AllLive DEF RuntimeCall
<1>2. CASE Instruction(1, rc, <<>>)
  BY <1>1, <1>2, DefinesNothing
<1>3. CASE Computed(1, Leaves(Operands(1)))
  BY <1>1, <1>3, ComputedStep
<1> QED BY <1>2, <1>3 DEF RuntimeCall

LEMMA GetFieldStep == ASSUME IInv, GetField PROVE IInv'
<1>1. 1 \in 0..Len(Pending) /\ UNCHANGED globals
  BY AllLive DEF GetField
<1>2. PICK l : l = Operands(1)[1].leaf
  OBVIOUS
<1>3. Lives(l)
  BY <1>1, <1>2, OperandsLive DEF Leaves
<1> QED BY <1>1, <1>2, <1>3, DefinesString DEF GetField

LEMMA GetInnerStep ==
    ASSUME IInv, "inner_of_call" \notin Programs, GetInner
    PROVE  IInv'
<1>1. 1 \in 0..Len(Pending) /\ UNCHANGED globals /\ Pending \in Seq(Reg)
  BY AllLive DEF GetInner
<1>2. PICK r : r = Operands(1)[1]
  OBVIOUS
<1>3. r = Pending[Len(Pending)] /\ Len(Pending) \in 1..Len(Pending)
  <2>1. /\ Operands(1)[1] = Pending[Len(Pending) - 1 + 1]
        /\ Len(Pending) - 1 + 1 \in 1..Len(Pending) /\ 1 \in 1..1
    BY <1>1, OperandsLive
  <2>2. Len(Pending) - 1 + 1 = Len(Pending)
    BY <1>1
  <2> QED BY <1>2, <2>1, <2>2
<1>4. r \in Reg /\ r.kind # "string" /\ r.kind # "temp"
  <2>1. 1 \in DOMAIN Operands(1)
    BY <1>1, OperandsLive
  <2> QED BY <1>1, <1>2, <1>3, <2>1 DEF GetInner, IsStruct
<1>5. ~Owned(r) /\ r.leaf \in Leaf
  BY <1>4 DEF Reg, Owned
<1>6. Names(r.leaf, globals, Top.locals)
  BY <1>3, <1>5 DEF IInv, Views, Running, Pending
<1>7. Instruction(1, rc, <<View(r.leaf)>>)
  BY <1>2 DEF GetInner
<1> QED BY <1>1, <1>5, <1>6, <1>7, DefinesView

-----------------------------------------------------------------------------
(* Statements.                                                             *)
LEMMA NewTop ==
    ASSUME IInv, NEW f \in Frame, frames' = [frames EXCEPT ![depth] = f],
           Books(rc', leaked', globals', SubSeq(frames, 1, depth - 1), f), Running(f, globals')
    PROVE  IInv'
<1>1. PICK rest, top : rest = SubSeq(frames, 1, depth - 1) /\ top = Top
  OBVIOUS
<1>2. /\ State(rc, leaked, globals, rest, top) /\ frames = Append(rest, top)
      /\ Len(rest) = depth - 1 /\ depth \in Nat
  BY <1>1, Split
<1>3. rest \in Seq(Frame) /\ top \in Frame
  BY <1>2 DEF State, Books
<1>4. frames' = Append(rest, f)
  <2>1. [Append(rest, top) EXCEPT ![Len(rest) + 1] = f] = Append(rest, f)
    BY <1>3, TopReplaced
  <2>2. Len(rest) + 1 = depth
    BY <1>2
  <2> QED BY <1>2, <2>1, <2>2
<1> QED BY <1>1, <1>4, JoinedNext DEF State

Assigns(gl, loc, v, l, gl1, loc1, old) ==
  /\ gl \in [Globals -> Leaf] /\ loc \in [Locals -> Leaf] /\ l \in Leaf
  /\ v \in Globals \cup Locals
  /\ gl1 = IF v \in Globals THEN [gl EXCEPT ![v] = l] ELSE gl
  /\ loc1 = IF v \in Locals THEN [loc EXCEPT ![v] = l] ELSE loc
  /\ old = IF v \in Globals THEN gl[v] ELSE loc[v]

LEMMA Assigned ==
    ASSUME NEW gl, NEW loc, NEW v, NEW l, NEW gl1, NEW loc1, NEW old,
           Assigns(gl, loc, v, l, gl1, loc1, old)
    PROVE  /\ gl1 \in [Globals -> Leaf] /\ loc1 \in [Locals -> Leaf]
           /\ \A b : OfGlobals(gl1, b) + One(loc1["ls"], b) + One(loc1["lv"], b) + One(old, b)
                   = OfGlobals(gl, b) + One(loc["ls"], b) + One(loc["lv"], b) + One(l, b)
<1>1. gl1 \in [Globals -> Leaf] /\ loc1 \in [Locals -> Leaf]
  BY DEF Assigns
<1>2. ASSUME NEW b
      PROVE  OfGlobals(gl1, b) + One(loc1["ls"], b) + One(loc1["lv"], b) + One(old, b)
           = OfGlobals(gl, b) + One(loc["ls"], b) + One(loc["lv"], b) + One(l, b)
  <2>1. \A x : One(x, b) \in Nat
    BY DEF One
  <2>2. CASE v = "gs"
    <3>1. gl1["gs"] = l /\ gl1["gv"] = gl["gv"] /\ loc1 = loc /\ old = gl["gs"]
      BY <2>2 DEF Assigns, Globals, Locals
    <3> QED BY ONLY <2>1, <3>1 DEF OfGlobals
  <2>3. CASE v = "gv"
    <3>1. gl1["gv"] = l /\ gl1["gs"] = gl["gs"] /\ loc1 = loc /\ old = gl["gv"]
      BY <2>3 DEF Assigns, Globals, Locals
    <3> QED BY ONLY <2>1, <3>1 DEF OfGlobals
  <2>4. CASE v = "ls"
    <3>1. loc1["ls"] = l /\ loc1["lv"] = loc["lv"] /\ gl1 = gl /\ old = loc["ls"]
      BY <2>4 DEF Assigns, Globals, Locals
    <3> QED BY ONLY <2>1, <3>1 DEF OfGlobals
  <2>5. CASE v = "lv"
    <3>1. loc1["lv"] = l /\ loc1["ls"] = loc["ls"] /\ gl1 = gl /\ old = loc["lv"]
      BY <2>5 DEF Assigns, Globals, Locals
    <3> QED BY ONLY <2>1, <3>1 DEF OfGlobals
  <2> QED BY <2>2, <2>3, <2>4, <2>5 DEF Assigns, Globals, Locals
<1> QED BY <1>1, <1>2

\* A value moved or copied into a variable, the old content released.
LEMMA StoredCount ==
    ASSUME NEW c \in [Blocks -> Nat], NEW r \in Reg, NEW old \in Leaf,
           r.leaf \in Blocks => c[r.leaf] > 0, old \in Blocks => c[old] > 0
    PROVE  /\ Stored(c, r, old) \in [Blocks -> Nat]
           /\ \A b \in Blocks : Stored(c, r, old)[b] =
                c[b] + (IF Owned(r) THEN 0 ELSE One(r.leaf, b)) - One(old, b)
<1>1. r.leaf \in Leaf
  BY DEF Reg
<1>2. CASE Owned(r)
  <2>1. Stored(c, r, old) = Release(c, old)
    BY <1>2 DEF Stored
  <2>2. /\ Release(c, old) \in [Blocks -> Nat]
        /\ \A b \in Blocks : Release(c, old)[b] = c[b] - One(old, b)
    BY ReleaseCount
  <2>3. \A b \in Blocks : c[b] + 0 - One(old, b) = c[b] - One(old, b)
    BY DEF One
  <2> QED BY <1>2, <2>1, <2>2, <2>3
<1>3. CASE ~Owned(r)
  <2>1. Stored(c, r, old) = Release(Retain(c, r.leaf), old)
    BY <1>3 DEF Stored
  <2>2. PICK d : d = Retain(c, r.leaf)
    OBVIOUS
  <2>3. d \in [Blocks -> Nat] /\ \A b \in Blocks : d[b] = c[b] + One(r.leaf, b)
    BY <1>1, <2>2, RetainCount
  <2>4. old \in Blocks => d[old] > 0
    BY <2>3 DEF One
  <2>5. /\ Release(d, old) \in [Blocks -> Nat]
        /\ \A b \in Blocks : Release(d, old)[b] = d[b] - One(old, b)
    BY <2>3, <2>4, ReleaseCount
  <2>6. ASSUME NEW b \in Blocks
        PROVE  d[b] - One(old, b) = c[b] + One(r.leaf, b) - One(old, b)
    <3>1. d[b] = c[b] + One(r.leaf, b)
      BY <2>3
    <3>2. c[b] \in Nat /\ One(r.leaf, b) \in Nat /\ One(old, b) \in Nat
      BY DEF One
    <3> QED BY ONLY <3>1, <3>2
  <2> QED BY ONLY <1>3, <2>1, <2>2, <2>5, <2>6
<1> QED BY <1>2, <1>3

LEMMA StoreStep == ASSUME IInv, NEW v \in Globals \cup Locals, Store(v) PROVE IInv'
<1>1. PICK rest, top : rest = SubSeq(frames, 1, depth - 1) /\ top = Top
  OBVIOUS
<1>2. State(rc, leaked, globals, rest, top) /\ frames = Append(rest, top) /\ top = frames[depth]
  BY <1>1, Split DEF Top
<1>3. /\ rc \in [Blocks -> Nat] /\ leaked \in [Blocks -> Nat] /\ globals \in [Globals -> Leaf]
      /\ rest \in Seq(Frame) /\ top \in Frame /\ top.locals \in [Locals -> Leaf]
      /\ top.pending \in Seq(Reg) /\ Pending = top.pending /\ top.args = 0
      /\ \A d \in 1..Len(rest) : Waiting(rest[d])
  BY <1>1, <1>2 DEF State, Books, Running, Frame, Pending
<1>4. PICK r : r = top.pending[1] /\ r \in Reg /\ r.leaf \in Leaf
  <2>1. Len(top.pending) = 1
    BY <1>3 DEF Store
  <2>2. top.pending[1] \in Reg
    BY <1>3, <2>1
  <2> QED BY <2>2 DEF Reg
<1>5. PICK old : old = Content(v)
  OBVIOUS
<1>6. /\ old = (IF v \in Globals THEN globals[v] ELSE top.locals[v])
      /\ old \in Leaf /\ (old \in Blocks => rc[old] > 0)
      /\ r.leaf \in Blocks => rc[r.leaf] > 0
  <2>1. Lives(Content(v)) /\ Lives(Pending[1].leaf)
    BY AllLive DEF Store
  <2> QED BY <1>1, <1>3, <1>4, <1>5, <2>1 DEF Lives, Content
<1>7. PICK gl1, loc1 :
        /\ gl1 = (IF v \in Globals THEN [globals EXCEPT ![v] = r.leaf] ELSE globals)
        /\ loc1 = (IF v \in Locals THEN [top.locals EXCEPT ![v] = r.leaf] ELSE top.locals)
  OBVIOUS
<1>8. /\ gl1 \in [Globals -> Leaf] /\ loc1 \in [Locals -> Leaf]
      /\ \A b : OfGlobals(gl1, b) + One(loc1["ls"], b) + One(loc1["lv"], b) + One(old, b)
              = OfGlobals(globals, b) + One(top.locals["ls"], b) + One(top.locals["lv"], b)
                  + One(r.leaf, b)
  <2>1. Assigns(globals, top.locals, v, r.leaf, gl1, loc1, old)
    BY <1>3, <1>4, <1>6, <1>7 DEF Assigns
  <2> QED BY <2>1, Assigned
<1>9. PICK f : f = [locals |-> loc1, pending |-> <<>>, args |-> 0]
  OBVIOUS
<1>10. f \in Frame /\ f.locals = loc1 /\ f.pending = <<>>
  BY <1>8, <1>9 DEF Frame
<1>11. /\ globals' = gl1 /\ leaked' = leaked /\ rc' = Stored(rc, r, old) /\ Len(top.pending) = 1
  BY <1>3, <1>4, <1>5, <1>7 DEF Store
<1>12. frames' = [frames EXCEPT ![depth] = f]
  <2>1. frames' = [frames EXCEPT ![depth].pending = <<>>,
                      ![depth].locals = IF v \in Locals THEN [@ EXCEPT ![v] = r.leaf] ELSE @]
    BY <1>3, <1>4 DEF Store
  <2>2. depth \in DOMAIN frames
    BY DEF IInv, TypeOK, depth
  <2>3. f = [[top EXCEPT !.pending = <<>>] EXCEPT
               !.locals = IF v \in Locals THEN [@ EXCEPT ![v] = r.leaf] ELSE @]
    <3>1. top = [locals |-> top.locals, pending |-> top.pending, args |-> 0]
      BY <1>3 DEF Frame
    <3>2. PICK t : t = [locals |-> top.locals, pending |-> <<>>, args |-> 0]
      OBVIOUS
    <3>3. [top EXCEPT !.pending = <<>>] = t
      BY ONLY <3>1, <3>2
    <3>4. t.locals = top.locals
      BY <3>2
    <3>5. [t EXCEPT !.locals = IF v \in Locals THEN [@ EXCEPT ![v] = r.leaf] ELSE @]
            = [t EXCEPT !.locals = loc1]
      BY <1>7, <3>4
    <3>6. [t EXCEPT !.locals = loc1] = f
      BY ONLY <1>9, <3>2
    <3> QED BY ONLY <3>3, <3>5, <3>6
  <2> QED BY <1>2, <2>1, <2>2, <2>3
<1>13. /\ rc' \in [Blocks -> Nat]
       /\ \A b \in Blocks : rc'[b] =
             rc[b] + (IF Owned(r) THEN 0 ELSE One(r.leaf, b)) - One(old, b)
  <2>1. /\ rc \in [Blocks -> Nat] /\ r \in Reg /\ old \in Leaf
        /\ (r.leaf \in Blocks => rc[r.leaf] > 0) /\ (old \in Blocks => rc[old] > 0)
    BY <1>3, <1>4, <1>6
  <2>2. rc' = Stored(rc, r, old)
    BY <1>11
  <2> QED BY ONLY <2>1, <2>2, StoredCount
<1>14. ASSUME NEW b \in Blocks
       PROVE  rc'[b] = OfGlobals(gl1, b) + OfFrames(rest, b) + OfFrame(f, b) + leaked[b]
  <2>1. OfFrame(f, b) = One(loc1["ls"], b) + One(loc1["lv"], b) + 0
    BY <1>10, CountFew DEF OfFrame
  <2>2. top.pending = <<r>>
    BY <1>3, <1>4, <1>11
  <2>3. OfFrame(top, b) = One(top.locals["ls"], b) + One(top.locals["lv"], b)
                            + (IF Owned(r) THEN One(r.leaf, b) ELSE 0)
    BY <2>2, CountFew DEF OfFrame
  <2>4. rc[b] = OfGlobals(globals, b) + OfFrames(rest, b) + OfFrame(top, b) + leaked[b]
    BY <1>2 DEF State, Books
  <2>5. /\ OfGlobals(globals, b) \in Nat /\ OfGlobals(gl1, b) \in Nat /\ OfFrames(rest, b) \in Nat
        /\ leaked[b] \in Nat /\ \A l : One(l, b) \in Nat
    BY <1>3, Naturals
  <2>6. rc'[b] = rc[b] + (IF Owned(r) THEN 0 ELSE One(r.leaf, b)) - One(old, b)
    BY <1>13
  <2>7. OfGlobals(gl1, b) + One(loc1["ls"], b) + One(loc1["lv"], b) + One(old, b)
          = OfGlobals(globals, b) + One(top.locals["ls"], b) + One(top.locals["lv"], b)
              + One(r.leaf, b)
    BY <1>8
  <2> QED BY ONLY <2>1, <2>3, <2>4, <2>5, <2>6, <2>7
<1>15. Running(f, gl1)
  BY <1>9, <1>10, BoundsAssumption DEF Running
<1>16. Books(rc', leaked', globals', rest, f)
  BY <1>3, <1>8, <1>10, <1>11, <1>13, <1>14 DEF Books
<1> QED BY <1>1, <1>10, <1>11, <1>12, <1>15, <1>16, NewTop

LEMMA FrameChanged ==
    ASSUME NEW f \in Frame, NEW p \in Seq(Reg), NEW k \in 0..2
    PROVE  /\ [f EXCEPT !.pending = p] \in Frame /\ [f EXCEPT !.pending = p].pending = p
           /\ [f EXCEPT !.pending = p].locals = f.locals
           /\ [f EXCEPT !.pending = p].args = f.args
           /\ [f EXCEPT !.args = k] \in Frame /\ [f EXCEPT !.args = k].args = k
           /\ [f EXCEPT !.args = k].locals = f.locals
           /\ [f EXCEPT !.args = k].pending = f.pending
BY DEF Frame

LEMMA DiscardStep == ASSUME IInv, Discard PROVE IInv'
<1>1. /\ 1 \in 0..Len(Pending) /\ Pending \in Seq(Reg) /\ UNCHANGED globals
      /\ Len(Pending) = 1 /\ Owned(Pending[1])
  BY AllLive DEF Discard
<1>2. CASE Pending[1].kind = "temp"
  BY <1>1, <1>2, DefinesNothing DEF Discard
<1>3. CASE Pending[1].kind # "temp"
  <2>1. PICK rest, top : rest = SubSeq(frames, 1, depth - 1) /\ top = Top
    OBVIOUS
  <2>2. State(rc, leaked, globals, rest, top) /\ top = frames[depth]
    BY <2>1, Split DEF Top
  <2>3. /\ rc \in [Blocks -> Nat] /\ leaked \in [Blocks -> Nat] /\ globals \in [Globals -> Leaf]
        /\ rest \in Seq(Frame) /\ top \in Frame /\ Pending = top.pending /\ top.args = 0
        /\ \A d \in 1..Len(rest) : Waiting(rest[d])
    BY <2>1, <2>2 DEF State, Books, Running, Pending
  <2>4. PICK r : r = Pending[1]
    OBVIOUS
  <2>5. PICK f : f = [top EXCEPT !.pending = <<>>]
    OBVIOUS
  <2>6. f \in Frame /\ f.pending = <<>> /\ f.locals = top.locals /\ f.args = 0
    <3>1. <<>> \in Seq(Reg) /\ 0 \in 0..2
      OBVIOUS
    <3> QED BY <2>3, <2>5, <3>1, FrameChanged, ZenonT(60)
  <2>7. /\ rc' = rc /\ globals' = globals
        /\ leaked' = [b \in Blocks |-> leaked[b] + IF b = r.leaf THEN 1 ELSE 0]
        /\ frames' = [frames EXCEPT ![depth] = f]
    <3>1. frames' = [frames EXCEPT ![depth].pending = <<>>]
      BY <1>3 DEF Discard
    <3> QED BY <1>3, <2>2, <2>4, <2>5, <3>1 DEF Discard
  <2>8. top.pending = <<r>> /\ Owned(r)
    BY <1>1, <2>3, <2>4
  <2>9. ASSUME NEW b \in Blocks
        PROVE  /\ leaked'[b] \in Nat
               /\ rc[b] = OfGlobals(globals, b) + OfFrames(rest, b) + OfFrame(f, b) + leaked'[b]
    <3>1. leaked'[b] = leaked[b] + One(r.leaf, b)
      BY <2>7 DEF One
    <3>2. OfFrame(f, b) = One(top.locals["ls"], b) + One(top.locals["lv"], b) + 0
      BY <2>6, CountFew DEF OfFrame
    <3>3. OfFrame(top, b) = One(top.locals["ls"], b) + One(top.locals["lv"], b) + One(r.leaf, b)
      BY <2>8, CountFew DEF OfFrame
    <3>4. rc[b] = OfGlobals(globals, b) + OfFrames(rest, b) + OfFrame(top, b) + leaked[b]
      BY <2>2 DEF State, Books
    <3>5. /\ OfGlobals(globals, b) \in Nat /\ OfFrames(rest, b) \in Nat /\ leaked[b] \in Nat
          /\ \A l : One(l, b) \in Nat
      BY <2>3, Naturals
    <3> QED BY ONLY <3>1, <3>2, <3>3, <3>4, <3>5
  <2>10. leaked' \in [Blocks -> Nat]
    BY <2>7, <2>9
  <2>11. Books(rc', leaked', globals', rest, f)
    BY <2>3, <2>6, <2>7, <2>9, <2>10 DEF Books
  <2>12. Running(f, globals')
    BY <2>6, BoundsAssumption DEF Running
  <2> QED BY <2>1, <2>6, <2>7, <2>11, <2>12, NewTop
<1> QED BY <1>2, <1>3

LEMMA BranchStep == ASSUME IInv, Branch PROVE IInv'
<1>1. PICK rest, top : rest = SubSeq(frames, 1, depth - 1) /\ top = Top
  OBVIOUS
<1>2. State(rc, leaked, globals, rest, top) /\ top = frames[depth]
  BY <1>1, Split DEF Top
<1>3. /\ rc \in [Blocks -> Nat] /\ leaked \in [Blocks -> Nat] /\ globals \in [Globals -> Leaf]
      /\ rest \in Seq(Frame) /\ top \in Frame /\ Pending = top.pending /\ top.args = 0
      /\ \A d \in 1..Len(rest) : Waiting(rest[d])
      /\ top.pending \in Seq(Reg) /\ Len(top.pending) <= MaxPending
  BY <1>1, <1>2 DEF State, Books, Running, Pending, Frame
<1>4. PICK p : p = [i \in DOMAIN top.pending |-> IF Counted(top.pending[i])
                      THEN [top.pending[i] EXCEPT !.here = FALSE] ELSE top.pending[i]]
  OBVIOUS
<1>5. /\ DOMAIN p = 1..Len(top.pending) /\ p \in Seq(Reg) /\ Len(p) = Len(top.pending)
      /\ \A i \in 1..Len(top.pending) :
           /\ p[i].leaf = top.pending[i].leaf /\ (Owned(p[i]) <=> Owned(top.pending[i]))
  <2>1. ASSUME NEW i \in 1..Len(top.pending)
        PROVE  /\ p[i] \in Reg /\ p[i].leaf = top.pending[i].leaf
               /\ Owned(p[i]) <=> Owned(top.pending[i])
    <3>1. PICK r \in Reg : r = top.pending[i]
      BY <1>3
    <3>2. p[i] = IF Counted(r) THEN [r EXCEPT !.here = FALSE] ELSE r
      BY <1>3, <1>4, <3>1
    <3> QED BY <3>1, <3>2 DEF Reg, Owned
  <2>2. DOMAIN p = 1..Len(top.pending) /\ Len(top.pending) \in Nat
    BY <1>3, <1>4
  <2>3. p \in [1..Len(top.pending) -> Reg]
    <3>1. p = [i \in 1..Len(top.pending) |-> p[i]]
      BY <1>4, <2>2
    <3> QED BY ONLY <2>1, <3>1
  <2>4. p \in Seq(Reg) /\ Len(p) = Len(top.pending)
    BY ONLY <2>2, <2>3
  <2> QED BY ONLY <2>1, <2>2, <2>4
<1>6. PICK f : f = [top EXCEPT !.pending = p]
  OBVIOUS
<1>7. f \in Frame /\ f.pending = p /\ f.locals = top.locals /\ f.args = 0
  BY <1>3, <1>5, <1>6 DEF Frame
<1>8. /\ rc' = rc /\ globals' = globals /\ leaked' = leaked
      /\ frames' = [frames EXCEPT ![depth] = f]
  <2>1. frames' = [frames EXCEPT ![depth].pending = p]
    BY <1>3, <1>4 DEF Branch
  <2> QED BY <1>2, <1>6, <2>1 DEF Branch
<1>9. \A b : OfFrame(f, b) = OfFrame(top, b)
  <2>1. \A b : Held(p, b) = Held(top.pending, b)
    BY <1>3, <1>5 DEF Held
  <2> QED BY <1>7, <2>1 DEF OfFrame, Count
<1>10. Books(rc', leaked', globals', rest, f)
  BY <1>2, <1>7, <1>8, <1>9 DEF Books, State
<1>11. Running(f, globals')
  BY <1>2, <1>3, <1>5, <1>7, <1>8 DEF Running, State
<1> QED BY <1>1, <1>7, <1>8, <1>10, <1>11, NewTop

-----------------------------------------------------------------------------
(* Calls.                                                                  *)
LEMMA ParamsLive ==
    ASSUME IInv, NEW k \in 0..Len(Pending)
    PROVE  /\ Params(Operands(k)) \in [Locals -> Leaf]
           /\ \A v \in Locals : Lives(Params(Operands(k))[v])
<1>1. PICK ops : ops = Operands(k)
  OBVIOUS
<1>2. ASSUME NEW v \in Locals PROVE Lives(Params(ops)[v])
  <2>1. PICK mine : mine = {i \in DOMAIN ops : (ops[i].kind = "string") = IsString(v)}
    OBVIOUS
  <2>2. Params(ops)[v] = IF mine = {} THEN Empty ELSE ops[CHOOSE i \in mine : TRUE].leaf
    BY <2>1 DEF Params
  <2>3. CASE mine = {}
    BY <2>2, <2>3, EmptyLives
  <2>4. CASE mine # {}
    <3>1. (CHOOSE i \in mine : TRUE) \in mine
      BY <2>4
    <3>2. PICK i \in DOMAIN ops : Params(ops)[v] = ops[i].leaf
      BY <2>1, <2>2, <2>4, <3>1
    <3>3. ops[i].leaf \in Leaves(ops)
      BY DEF Leaves
    <3> QED BY <1>1, <3>2, <3>3, OperandsLive
  <2> QED BY <2>3, <2>4
<1>3. Params(ops) = [v \in Locals |-> Params(ops)[v]]
  BY DEF Params
<1> QED BY <1>1, <1>2, <1>3 DEF Lives

LEMMA TwoRetained ==
    ASSUME NEW c \in [Blocks -> Nat], NEW l \in Leaf, NEW m \in Leaf,
           l \in Blocks => c[l] > 0, m \in Blocks => c[m] > 0
    PROVE  /\ Retain(Retain(c, l), m) \in [Blocks -> Nat]
           /\ \A b \in Blocks : Retain(Retain(c, l), m)[b] = c[b] + One(l, b) + One(m, b)
<1>1. PICK d : d = Retain(c, l)
  OBVIOUS
<1>2. d \in [Blocks -> Nat] /\ \A b \in Blocks : d[b] = c[b] + One(l, b)
  BY <1>1, RetainCount
<1>3. m \in Blocks => d[m] > 0
  BY <1>2 DEF One
<1>4. /\ Retain(d, m) \in [Blocks -> Nat]
      /\ \A b \in Blocks : Retain(d, m)[b] = d[b] + One(m, b)
  BY <1>2, <1>3, RetainCount
<1> QED BY <1>1, <1>2, <1>4

LEMMA CallStep ==
    ASSUME IInv, "late_call" \notin Programs, NEW k \in 0..2, Call(k)
    PROVE  IInv'
<1>1. PICK rest, top : rest = SubSeq(frames, 1, depth - 1) /\ top = Top
  OBVIOUS
<1>2. /\ State(rc, leaked, globals, rest, top) /\ frames = Append(rest, top)
      /\ top = frames[depth] /\ Len(rest) + 1 = depth
  BY <1>1, Split DEF Top
<1>3. /\ rc \in [Blocks -> Nat] /\ leaked \in [Blocks -> Nat] /\ globals \in [Globals -> Leaf]
      /\ rest \in Seq(Frame) /\ top \in Frame /\ Pending = top.pending
      /\ \A d \in 1..Len(rest) : Waiting(rest[d])
      /\ top.pending \in Seq(Reg) /\ Len(top.pending) <= MaxPending /\ Len(top.pending) \in Nat
  BY <1>1, <1>2 DEF State, Books, Running, Pending, Frame
<1>4. k \in 0..Len(Pending)
  BY <1>3 DEF Call
<1>5. PICK ps : ps = Params(Operands(k))
  OBVIOUS
<1>6. ps \in [Locals -> Leaf] /\ Lives(ps["ls"]) /\ Lives(ps["lv"])
  BY <1>4, <1>5, ParamsLive DEF Locals
<1>7. PICK waits, new : /\ waits = [top EXCEPT !.args = k]
                        /\ new = [locals |-> ps, pending |-> <<>>, args |-> 0]
  OBVIOUS
<1>8. /\ waits \in Frame /\ waits.pending = top.pending /\ waits.locals = top.locals
      /\ waits.args = k /\ k \in Nat
      /\ new \in Frame /\ new.pending = <<>> /\ new.locals = ps /\ new.args = 0
  <2>1. waits \in Frame /\ waits.pending = top.pending /\ waits.locals = top.locals /\ waits.args = k
    <3>1. <<>> \in Seq(Reg)
      OBVIOUS
    <3> QED BY <1>3, <1>7, <3>1, FrameChanged, ZenonT(60)
  <2>2. new \in Frame
    BY <1>6, <1>7 DEF Frame
  <2> QED BY <1>7, <2>1, <2>2
<1>9. /\ globals' = globals /\ leaked' = leaked
      /\ rc' = Retain(Retain(rc, ps["ls"]), ps["lv"])
      /\ frames' = Append(Append(rest, waits), new)
  <2>1. frames' = Append([frames EXCEPT ![depth].args = k], new)
    BY <1>5, <1>7 DEF Call
  <2>2. [frames EXCEPT ![depth].args = k] = [frames EXCEPT ![depth] = waits]
    BY <1>2, <1>7
  <2>3. [Append(rest, top) EXCEPT ![Len(rest) + 1] = waits] = Append(rest, waits)
    BY <1>3, <1>8, TopReplaced
  <2> QED BY <1>2, <1>5, <2>1, <2>2, <2>3 DEF Call, Entered
<1>10. Waiting(waits)
  <2>1. \A i \in DOMAIN Kept(k) : Owned(Kept(k)[i])
    BY DEF Call
  <2>2. /\ Kept(k) \in Seq(Reg) /\ Len(Kept(k)) = Len(top.pending) - k
        /\ \A i \in 1..Len(top.pending) - k : Kept(k)[i] = top.pending[i]
    BY <1>3, <1>4, Halves DEF Kept
  <2>3. k <= Len(top.pending)
    BY <1>3, <1>4
  <2> QED BY <1>3, <1>8, <2>1, <2>2, <2>3 DEF Waiting
<1>11. PICK rest1 : rest1 = Append(rest, waits)
  OBVIOUS
<1>12. /\ rest1 \in Seq(Frame) /\ Len(rest1) = Len(rest) + 1 /\ rest1[Len(rest) + 1] = waits
       /\ \A d \in 1..Len(rest) : rest1[d] = rest[d]
  BY <1>3, <1>8, <1>11, AppendProperties
<1>13. \A d \in 1..Len(rest1) : Waiting(rest1[d])
  <2>1. \A d \in 1..Len(rest1) : d \in 1..Len(rest) \/ d = Len(rest) + 1
    BY <1>3, <1>12
  <2>2. \A d \in 1..Len(rest) : Waiting(rest[d])
    BY <1>3
  <2> QED BY ONLY <1>10, <1>12, <2>1, <2>2
<1>14. /\ rc' \in [Blocks -> Nat]
       /\ \A b \in Blocks : rc'[b] = rc[b] + One(ps["ls"], b) + One(ps["lv"], b)
  <2>1. /\ ps["ls"] \in Leaf /\ ps["lv"] \in Leaf
        /\ (ps["ls"] \in Blocks => rc[ps["ls"]] > 0) /\ (ps["lv"] \in Blocks => rc[ps["lv"]] > 0)
    BY <1>6 DEF Lives
  <2> QED BY <1>3, <1>9, <2>1, TwoRetained, SMTT(30)
<1>15. ASSUME NEW b \in Blocks
       PROVE  rc'[b] = OfGlobals(globals, b) + OfFrames(rest1, b) + OfFrame(new, b) + leaked[b]
  <2>1. OfFrame(new, b) = One(ps["ls"], b) + One(ps["lv"], b) + 0
    BY <1>8, CountFew DEF OfFrame
  <2>2. OfFrames(rest1, b) = OfFrames(rest, b) + OfFrame(waits, b)
    BY <1>3, <1>8, <1>11, OneFrameMore
  <2>3. OfFrame(waits, b) = OfFrame(top, b)
    BY <1>8 DEF OfFrame
  <2>4. rc[b] = OfGlobals(globals, b) + OfFrames(rest, b) + OfFrame(top, b) + leaked[b]
    BY <1>2 DEF State, Books
  <2>5. /\ OfGlobals(globals, b) \in Nat /\ OfFrames(rest, b) \in Nat /\ leaked[b] \in Nat
        /\ OfFrame(top, b) \in Nat /\ \A l : One(l, b) \in Nat
    BY <1>3, Naturals
  <2>6. rc'[b] = rc[b] + One(ps["ls"], b) + One(ps["lv"], b)
    BY <1>14
  <2> QED BY ONLY <2>1, <2>2, <2>3, <2>4, <2>5, <2>6
<1>16. Running(new, globals')
  BY <1>8, BoundsAssumption DEF Running
<1>17. Books(rc', leaked', globals', rest1, new)
  BY <1>3, <1>8, <1>9, <1>12, <1>13, <1>14, <1>15 DEF Books
<1> QED BY <1>9, <1>11, <1>16, <1>17, JoinedNext DEF State

LEMMA TwoReleased ==
    ASSUME NEW c \in [Blocks -> Nat], NEW l \in Leaf, NEW m \in Leaf,
           \A b \in Blocks : c[b] >= One(l, b) + One(m, b)
    PROVE  /\ Release(Release(c, l), m) \in [Blocks -> Nat]
           /\ \A b \in Blocks : Release(Release(c, l), m)[b] + One(l, b) + One(m, b) = c[b]
<1>1. \A b \in Blocks : One(l, b) \in Nat /\ One(m, b) \in Nat /\ c[b] \in Nat
  BY DEF One
<1>2. l \in Blocks => c[l] > 0
  <2>1. ASSUME l \in Blocks PROVE c[l] > 0
    <3>1. One(l, l) = 1 /\ One(m, l) \in Nat /\ c[l] >= One(l, l) + One(m, l) /\ c[l] \in Nat
      BY <1>1, <2>1 DEF One
    <3> QED BY ONLY <3>1
  <2> QED BY <2>1
<1>3. PICK d : d = Release(c, l)
  OBVIOUS
<1>4. d \in [Blocks -> Nat] /\ \A b \in Blocks : d[b] = c[b] - One(l, b)
  BY <1>2, <1>3, ReleaseCount
<1>5. m \in Blocks => d[m] > 0
  <2>1. ASSUME m \in Blocks PROVE d[m] > 0
    <3>1. /\ One(m, m) = 1 /\ One(l, m) \in Nat /\ c[m] \in Nat /\ c[m] >= One(l, m) + One(m, m)
          /\ d[m] = c[m] - One(l, m)
      BY <1>1, <1>4, <2>1 DEF One
    <3> QED BY ONLY <3>1
  <2> QED BY <2>1
<1>6. /\ Release(d, m) \in [Blocks -> Nat]
      /\ \A b \in Blocks : Release(d, m)[b] = d[b] - One(m, b)
  BY <1>4, <1>5, ReleaseCount
<1>7. ASSUME NEW b \in Blocks PROVE Release(d, m)[b] + One(l, b) + One(m, b) = c[b]
  <2>1. /\ One(l, b) \in Nat /\ One(m, b) \in Nat /\ c[b] \in Nat
        /\ d[b] = c[b] - One(l, b) /\ Release(d, m)[b] = d[b] - One(m, b)
    BY <1>1, <1>4, <1>6
  <2> QED BY ONLY <2>1
<1> QED BY <1>3, <1>6, <1>7

\* Leaving a function: what its frame owned is given up, but for the result.
LEMMA BackStep ==
    ASSUME IInv, depth > 1, NEW c \in [Blocks -> Nat], NEW out \in Seq(Reg),
           \A i \in 1..Len(out) : Owned(out[i]),
           \A b \in Blocks : c[b] + OfFrame(Top, b) = rc[b] + Count(out, b),
           Back(c, out)
    PROVE  IInv'
<1>1. PICK rest, top : rest = SubSeq(frames, 1, depth - 1) /\ top = Top
  OBVIOUS
<1>2. /\ State(rc, leaked, globals, rest, top) /\ frames = Append(rest, top)
      /\ Len(rest) = depth - 1 /\ depth \in Nat
  BY <1>1, Split
<1>3. /\ rc \in [Blocks -> Nat] /\ leaked \in [Blocks -> Nat] /\ globals \in [Globals -> Leaf]
      /\ rest \in Seq(Frame) /\ top \in Frame /\ Len(rest) >= 1
      /\ \A d \in 1..Len(rest) : Waiting(rest[d])
      /\ \A d \in 1..Len(rest) : frames[d] = rest[d]
  <2>1. Len(rest) >= 1
    BY <1>2
  <2> QED BY <1>2, <2>1, AppendProperties DEF State, Books
<1>4. PICK rest2, caller : rest2 = SubSeq(rest, 1, Len(rest) - 1) /\ caller = rest[Len(rest)]
  OBVIOUS
<1>5. /\ rest2 \in Seq(Frame) /\ Len(rest2) + 1 = Len(rest)
      /\ \A d \in 1..Len(rest) - 1 : rest2[d] = rest[d]
      /\ caller \in Frame /\ rest = Append(rest2, caller)
  <2>1. Len(rest) \in Nat
    BY <1>3
  <2> QED BY <1>3, <1>4, <2>1, LastApart
<1>6. Caller = caller /\ Waiting(caller)
  <2>1. Len(rest) \in 1..Len(rest)
    BY <1>3
  <2> QED BY <1>2, <1>3, <1>4, <2>1 DEF Caller
<1>7. /\ caller.pending \in Seq(Reg) /\ Len(caller.pending) <= MaxPending
      /\ caller.args \in 0..Len(caller.pending)
      /\ \A i \in 1..Len(caller.pending) - caller.args : Owned(caller.pending[i])
  BY <1>5, <1>6 DEF Waiting, Frame
<1>8. PICK s, m : s = caller.pending /\ m = caller.args
  OBVIOUS
<1>9. PICK kept, ops : /\ kept = SubSeq(s, 1, Len(s) - m)
                       /\ ops = SubSeq(s, Len(s) - m + 1, Len(s))
  OBVIOUS
<1>10. /\ kept \in Seq(Reg) /\ Len(kept) = Len(s) - m
       /\ \A i \in 1..Len(s) - m : kept[i] = s[i]
       /\ ops \in Seq(Reg)
       /\ \A b : Count(s, b) = Count(kept, b) + Count(ops, b)
  <2>1. s \in Seq(Reg) /\ m \in 0..Len(s)
    BY ONLY <1>7, <1>8
  <2>2. AreHalves(s, m, SubSeq(s, 1, Len(s) - m), SubSeq(s, Len(s) - m + 1, Len(s)))
    BY ONLY <2>1, Halved, Zenon
  <2>3. AreHalves(s, m, kept, ops)
    BY ONLY <1>9, <2>2, Zenon
  <2> QED BY ONLY <2>3 DEF AreHalves
<1>11. CallArgs = ops
  BY <1>6, <1>8, <1>9 DEF CallArgs
<1>12. /\ kept \o out \in Seq(Reg) /\ Len(kept \o out) = Len(kept) + Len(out)
       /\ \A i \in 1..Len(kept) + Len(out) :
             (kept \o out)[i] = IF i <= Len(kept) THEN kept[i] ELSE out[i - Len(kept)]
  BY <1>10, ConcatProperties
<1>13. PICK f : f = [locals |-> caller.locals, pending |-> kept \o out, args |-> 0]
  OBVIOUS
<1>14. f \in Frame /\ f.locals = caller.locals /\ f.pending = kept \o out /\ f.args = 0
  BY <1>5, <1>12, <1>13 DEF Frame
<1>15. /\ rc' = Released(c, ops) /\ leaked' = Leaks(ops) /\ globals' = globals
       /\ Len(s) - m + Len(out) <= MaxPending
       /\ frames' = [rest EXCEPT ![depth - 1].pending = SubSeq(@, 1, Len(@) - m) \o out,
                                 ![depth - 1].args = 0]
  BY <1>1, <1>6, <1>8, <1>11 DEF Back
<1>16. frames' = Append(rest2, f)
  <2>1. /\ [Append(rest2, caller) EXCEPT ![Len(rest2) + 1] = f] = Append(rest2, f)
        /\ Append(rest2, caller)[Len(rest2) + 1] = caller
    BY <1>5, <1>14, TopReplaced
  <2>2. Len(rest2) + 1 = depth - 1 /\ depth - 1 \in DOMAIN rest /\ rest[depth - 1] = caller
    BY <1>2, <1>3, <1>4, <1>5
  <2>3. frames' = [rest EXCEPT ![depth - 1] =
                      [[caller EXCEPT !.pending = SubSeq(@, 1, Len(@) - m) \o out]
                          EXCEPT !.args = 0]]
    BY <1>15, <2>2
  <2>4. [[caller EXCEPT !.pending = SubSeq(@, 1, Len(@) - m) \o out] EXCEPT !.args = 0] = f
    <3>1. caller = [locals |-> caller.locals, pending |-> s, args |-> m]
      BY <1>5, <1>8 DEF Frame
    <3>2. [caller EXCEPT !.pending = SubSeq(@, 1, Len(@) - m) \o out]
            = [caller EXCEPT !.pending = kept \o out]
      BY <1>8, <1>9
    <3>3. PICK q, l : q = kept \o out /\ l = caller.locals
      OBVIOUS
    <3>4. PICK t : t = [locals |-> l, pending |-> q, args |-> m]
      OBVIOUS
    <3>5. caller = [locals |-> l, pending |-> s, args |-> m]
      BY <3>1, <3>3
    <3>6. [caller EXCEPT !.pending = q] = t
      BY ONLY <3>4, <3>5
    <3>7. f = [locals |-> l, pending |-> q, args |-> 0]
      BY <1>13, <3>3
    <3>8. [t EXCEPT !.args = 0] = f
      BY ONLY <3>4, <3>7
    <3> QED BY ONLY <3>2, <3>3, <3>6, <3>8
  <2> QED BY <1>5, <2>1, <2>2, <2>3, <2>4
<1>17. PICK lk \in [Blocks -> Nat] :
         lk = Leaks(ops) /\ \A b \in Blocks : lk[b] = leaked[b] + Cardinality(HeldAway(ops, b))
  BY <1>3, <1>10, LeaksCount
<1>18. PICK c0 : c0 = [b \in Blocks |-> OfGlobals(globals, b) + OfFrames(rest2, b)
                                         + OfFrame(caller, b) + leaked[b]]
  OBVIOUS
<1>19. ASSUME NEW b \in Blocks
       PROVE  c0[b] \in Nat /\ c[b] = c0[b] + Count(out, b)
  <2>1. OfFrames(rest, b) = OfFrames(rest2, b) + OfFrame(caller, b)
    BY <1>5, <1>7, OneFrameMore
  <2>2. rc[b] = OfGlobals(globals, b) + OfFrames(rest, b) + OfFrame(top, b) + leaked[b]
    BY <1>2 DEF State, Books
  <2>3. /\ OfGlobals(globals, b) \in Nat /\ OfFrames(rest2, b) \in Nat /\ leaked[b] \in Nat
        /\ OfFrame(caller, b) \in Nat /\ OfFrame(top, b) \in Nat
    BY <1>3, <1>5, Naturals
  <2>4. Count(out, b) \in Nat
    BY HeldFinite
  <2>5. c[b] + OfFrame(top, b) = rc[b] + Count(out, b) /\ c[b] \in Nat
    BY <1>1
  <2>6. c0[b] = OfGlobals(globals, b) + OfFrames(rest2, b) + OfFrame(caller, b) + leaked[b]
    BY <1>18
  <2>7. PICK x \in Nat : x = c0[b]
    BY ONLY <2>3, <2>6
  <2>8. rc[b] = x + OfFrame(top, b)
    BY ONLY <2>1, <2>2, <2>3, <2>6, <2>7, SMTT(30)
  <2>9. c[b] = x + Count(out, b)
    <3>1. x \in Nat
      BY <2>7
    <3>2. PICK t \in Nat, u \in Nat, n \in Nat :
            t = OfFrame(top, b) /\ u = Count(out, b) /\ n = c[b]
      BY ONLY <2>3, <2>4, <2>5
    <3>3. n + t = (x + t) + u /\ n \in Nat /\ t \in Nat /\ u \in Nat
      BY <2>5, <2>8, <3>2
    <3>4. n = x + u
      BY ONLY <3>1, <3>3
    <3> QED BY ONLY <3>2, <3>4
  <2> QED BY <2>7, <2>9
<1>20. Books(c0, leaked, globals, rest2, caller)
  <2>1. c0 \in [Blocks -> Nat]
    BY <1>18, <1>19
  <2>2. \A d \in 1..Len(rest2) : Waiting(rest2[d])
    <3>1. \A d \in 1..Len(rest2) : d \in 1..Len(rest) - 1 /\ d \in 1..Len(rest)
      BY <1>3, <1>5
    <3> QED BY <1>3, <1>5, <3>1
  <2> QED BY <1>3, <1>5, <1>18, <2>1, <2>2 DEF Books
<1>21. Books(Released(c, ops), lk, globals, rest2, f)
  <2>1. c \in [Blocks -> Nat] /\ lk \in [Blocks -> Nat] /\ out \in Seq(Reg)
    BY <1>17
  <2>2. \A b : Count(caller.pending, b) = Count(kept, b) + Count(ops, b)
    BY <1>8, <1>10
  <2>3. Reads(c0, leaked, globals, rest2, caller, kept, ops, out, c, lk, f)
    BY ONLY <1>10, <1>14, <1>17, <1>19, <1>20, <2>1, <2>2 DEF Reads
  <2> QED BY <2>3, Ran
<1>22. Running(f, globals)
  <2>1. Len(f.pending) <= MaxPending
    BY <1>10, <1>12, <1>14, <1>15
  <2>2. ASSUME NEW i \in 1..Len(f.pending) PROVE Owned(f.pending[i])
    <3>1. /\ i \in 1..Len(kept) + Len(out) /\ Len(kept) \in Nat /\ Len(out) \in Nat
          /\ i \in Nat
      BY <1>10, <1>12, <1>14, <2>2
    <3>2. CASE i <= Len(kept)
      <4>1. i \in 1..Len(s) - m /\ f.pending[i] = s[i]
        BY <1>10, <1>12, <1>14, <3>1, <3>2
      <4> QED BY <1>7, <1>8, <4>1
    <3>3. CASE ~(i <= Len(kept))
      <4>1. i - Len(kept) \in 1..Len(out)
        BY ONLY <3>1, <3>3
      <4>2. f.pending[i] = out[i - Len(kept)]
        BY <1>12, <1>14, <3>1, <3>3
      <4> QED BY <4>1, <4>2
    <3> QED BY <3>2, <3>3
  <2> QED BY <1>14, <2>1, <2>2 DEF Running
<1> QED BY <1>15, <1>16, <1>17, <1>21, <1>22, JoinedNext DEF State

\* A frame's variables released as it is left.
LEMMA LocalsCount ==
    ASSUME IInv, NEW d \in [Blocks -> Nat], \A b \in Blocks : d[b] >= rc[b]
    PROVE  /\ LocalsReleased(d) \in [Blocks -> Nat]
           /\ \A b \in Blocks : LocalsReleased(d)[b] + One(Top.locals["ls"], b)
                                  + One(Top.locals["lv"], b) = d[b]
<1>1. State(rc, leaked, globals, SubSeq(frames, 1, depth - 1), Top)
  BY Split
<1>2. PICK top, rest : top = Top /\ rest = SubSeq(frames, 1, depth - 1)
  OBVIOUS
<1>3. /\ top \in Frame /\ rest \in Seq(Frame) /\ top.pending \in Seq(Reg)
      /\ top.locals["ls"] \in Leaf /\ top.locals["lv"] \in Leaf
  BY <1>1, <1>2 DEF State, Books, Frame, Locals
<1>4. ASSUME NEW b \in Blocks
      PROVE  d[b] >= One(top.locals["ls"], b) + One(top.locals["lv"], b)
  <2>1. rc[b] = OfGlobals(globals, b) + OfFrames(rest, b) + OfFrame(top, b) + leaked[b]
    BY <1>1, <1>2 DEF State, Books
  <2>2. OfFrame(top, b) = One(top.locals["ls"], b) + One(top.locals["lv"], b) + Count(top.pending, b)
    BY DEF OfFrame
  <2>3. /\ OfGlobals(globals, b) \in Nat /\ OfFrames(rest, b) \in Nat
        /\ \A l : One(l, b) \in Nat
    BY <1>3, Naturals
  <2>4. Count(top.pending, b) \in Nat
    BY <1>3, HeldFinite
  <2>5. leaked[b] \in Nat /\ d[b] \in Nat /\ d[b] >= rc[b]
    BY <1>1 DEF State, Books
  <2> QED BY ONLY <2>1, <2>2, <2>3, <2>4, <2>5
<1> QED BY <1>2, <1>3, <1>4, TwoReleased DEF LocalsReleased

LEMMA ReturnStep == ASSUME IInv, Return PROVE IInv'
<1>1. PICK top, r : top = Top /\ r = Pending[1]
  OBVIOUS
<1>2. /\ Pending \in Seq(Reg) /\ top \in Frame /\ rc \in [Blocks -> Nat]
      /\ Len(Pending) = 1 /\ depth > 1 /\ Pending = top.pending
  BY <1>1, AllLive DEF Return, Pending
<1>3. r \in Reg /\ r.leaf \in Leaf /\ (r.leaf \in Blocks => rc[r.leaf] > 0) /\ top.pending = <<r>>
  BY <1>1, <1>2, AllLive DEF Lives
<1>4. PICK d : d = IF Owned(r) THEN rc ELSE Retain(rc, r.leaf)
  OBVIOUS
<1>5. /\ d \in [Blocks -> Nat]
      /\ \A b \in Blocks : d[b] = rc[b] + (IF Owned(r) THEN 0 ELSE One(r.leaf, b))
  <2>1. CASE Owned(r)
    <3>1. \A b \in Blocks : rc[b] = rc[b] + 0
      BY <1>2
    <3> QED BY <1>2, <1>4, <2>1, <3>1
  <2>2. CASE ~Owned(r)
    BY <1>2, <1>3, <1>4, <2>2, RetainCount
  <2> QED BY <2>1, <2>2
<1>6. /\ LocalsReleased(d) \in [Blocks -> Nat]
      /\ \A b \in Blocks : LocalsReleased(d)[b] + One(top.locals["ls"], b)
                             + One(top.locals["lv"], b) = d[b]
  <2>1. \A b \in Blocks : d[b] >= rc[b]
    BY <1>2, <1>5 DEF One
  <2> QED BY <1>1, <1>5, <2>1, LocalsCount
<1>7. PICK o : o = IF r.kind = "string" THEN Str(r.leaf) ELSE Temp(r.leaf)
  OBVIOUS
<1>8. o \in Reg /\ Owned(o) /\ o.leaf = r.leaf
  BY <1>3, <1>7, NewRegs
<1>9. PICK out : out = <<o>>
  OBVIOUS
<1>10. /\ out \in Seq(Reg) /\ Len(out) = 1 /\ Owned(out[1])
       /\ \A b : Count(out, b) = One(r.leaf, b)
  BY <1>8, <1>9, SingleOut
<1>11. PICK c : c = LocalsReleased(d)
  OBVIOUS
<1>12. Back(c, out)
  <2>1. Left(r) = c
    BY <1>4, <1>11 DEF Left
  <2> QED BY <1>1, <1>7, <1>9, <2>1 DEF Return
<1>13. ASSUME NEW b \in Blocks PROVE c[b] + OfFrame(top, b) = rc[b] + Count(out, b)
  <2>1. OfFrame(top, b) = One(top.locals["ls"], b) + One(top.locals["lv"], b)
                            + (IF Owned(r) THEN One(r.leaf, b) ELSE 0)
    BY <1>3, CountFew DEF OfFrame
  <2>2. c[b] + One(top.locals["ls"], b) + One(top.locals["lv"], b) = d[b]
    BY <1>6, <1>11
  <2>3. d[b] = rc[b] + (IF Owned(r) THEN 0 ELSE One(r.leaf, b))
    BY <1>5
  <2>4. /\ c[b] \in Nat /\ rc[b] \in Nat /\ \A l : One(l, b) \in Nat
        /\ Count(out, b) = One(r.leaf, b)
    BY <1>2, <1>6, <1>10, <1>11 DEF One
  <2> QED BY ONLY <2>1, <2>2, <2>3, <2>4
<1>14. c \in [Blocks -> Nat] /\ \A i \in 1..Len(out) : Owned(out[i])
  BY <1>6, <1>10, <1>11
<1> QED BY <1>1, <1>2, <1>10, <1>12, <1>13, <1>14, BackStep

LEMMA FallThroughStep == ASSUME IInv, FallThrough PROVE IInv'
<1>1. PICK top : top = Top
  OBVIOUS
<1>2. /\ top \in Frame /\ rc \in [Blocks -> Nat] /\ top.pending = <<>> /\ depth > 1
  BY <1>1, AllLive DEF FallThrough, Pending
<1>3. PICK out \in {<<>>, <<Str(Empty)>>, <<Temp(Empty)>>} : Back(LocalsReleased(rc), out)
  BY DEF FallThrough
<1>4. /\ out \in Seq(Reg) /\ \A i \in 1..Len(out) : Owned(out[i])
      /\ \A b \in Blocks : Count(out, b) = 0
  <2>1. /\ Str(Empty) \in Reg /\ Owned(Str(Empty)) /\ Str(Empty).leaf = Empty
        /\ Temp(Empty) \in Reg /\ Owned(Temp(Empty)) /\ Temp(Empty).leaf = Empty
    BY NewRegs DEF Leaf
  <2>2. \A b \in Blocks : One(Empty, b) = 0
    BY EmptyAssumption DEF One
  <2>3. CASE out = <<>>
    BY <2>3, CountFew
  <2>4. ASSUME NEW r \in Reg, Owned(r), r.leaf = Empty, out = <<r>>
        PROVE  /\ out \in Seq(Reg) /\ \A i \in 1..Len(out) : Owned(out[i])
               /\ \A b \in Blocks : Count(out, b) = 0
    BY <2>2, <2>4, SingleOut
  <2> QED BY <1>3, <2>1, <2>3, <2>4
<1>5. /\ LocalsReleased(rc) \in [Blocks -> Nat]
      /\ \A b \in Blocks : LocalsReleased(rc)[b] + One(top.locals["ls"], b)
                             + One(top.locals["lv"], b) = rc[b]
  <2>1. \A b \in Blocks : rc[b] >= rc[b]
    BY <1>2
  <2> QED BY <1>1, <1>2, <2>1, LocalsCount
<1>6. PICK c : c = LocalsReleased(rc)
  OBVIOUS
<1>7. ASSUME NEW b \in Blocks PROVE c[b] + OfFrame(top, b) = rc[b] + Count(out, b)
  <2>1. OfFrame(top, b) = One(top.locals["ls"], b) + One(top.locals["lv"], b) + 0
    BY <1>2, CountFew DEF OfFrame
  <2>2. c[b] + One(top.locals["ls"], b) + One(top.locals["lv"], b) = rc[b] /\ Count(out, b) = 0
    BY <1>4, <1>5, <1>6
  <2>3. c[b] \in Nat /\ rc[b] \in Nat /\ \A l : One(l, b) \in Nat
    BY <1>2, <1>5, <1>6 DEF One
  <2> QED BY ONLY <2>1, <2>2, <2>3
<1> QED BY <1>1, <1>2, <1>3, <1>4, <1>5, <1>6, <1>7, BackStep

-----------------------------------------------------------------------------
(* What a frame that waits still names has a count.                        *)
LEMMA WaitingLive ==
    ASSUME NEW c, NEW lk, NEW gl, NEW rest, NEW top, Books(c, lk, gl, rest, top),
           NEW b \in Blocks, NEW d \in 1..Len(rest)
    PROVE  /\ \A v \in Locals : rest[d].locals[v] = b => c[b] > 0
           /\ \A i \in 1..Len(rest[d].pending) - rest[d].args :
                 rest[d].pending[i].leaf = b => c[b] > 0
<1>1. /\ c[b] = OfGlobals(gl, b) + OfFrames(rest, b) + OfFrame(top, b) + lk[b]
      /\ rest \in Seq(Frame) /\ lk[b] \in Nat /\ Waiting(rest[d])
  BY DEF Books
<1>2. /\ OfGlobals(gl, b) \in Nat /\ OfFrames(rest, b) \in Nat /\ OfFrame(top, b) \in Nat
      /\ Cardinality(LocalsIn(rest, b)) \in Nat /\ Cardinality(PendingIn(rest, b)) \in Nat
      /\ IsFiniteSet(LocalsIn(rest, b)) /\ IsFiniteSet(PendingIn(rest, b))
  BY <1>1, Naturals, SlotsFinite DEF Books
<1>3. ASSUME LocalsIn(rest, b) # {} \/ PendingIn(rest, b) # {} PROVE c[b] > 0
  <2>1. Cardinality(LocalsIn(rest, b)) # 0 \/ Cardinality(PendingIn(rest, b)) # 0
    BY <1>2, <1>3, FS_EmptySet
  <2>2. OfFrames(rest, b) > 0
    BY <1>2, <2>1 DEF OfFrames
  <2> QED BY ONLY <1>1, <1>2, <2>2
<1>4. ASSUME NEW v \in Locals, rest[d].locals[v] = b PROVE c[b] > 0
  <2>1. <<d, v>> \in LocalsIn(rest, b)
    BY <1>4 DEF LocalsIn
  <2> QED BY <1>3, <2>1
<1>5. ASSUME NEW i \in 1..Len(rest[d].pending) - rest[d].args, rest[d].pending[i].leaf = b
      PROVE  c[b] > 0
  <2>1. PICK n, a : n = Len(rest[d].pending) /\ a = rest[d].args
    OBVIOUS
  <2>2. n \in Nat /\ n <= MaxPending /\ a \in Nat /\ MaxPending \in Nat
    <3>1. rest[d] \in Frame
      BY <1>1
    <3>2. rest[d].pending \in Seq(Reg) /\ rest[d].args \in 0..2
      BY <3>1 DEF Frame
    <3> QED BY <1>1, <2>1, <3>2, BoundsAssumption DEF Waiting
  <2>3. i \in 1..MaxPending /\ i <= n
    BY <2>1, <2>2
  <2>4. Owned(rest[d].pending[i])
    BY <1>1 DEF Waiting
  <2>5. <<d, i>> \in PendingIn(rest, b)
    BY <1>5, <2>1, <2>3, <2>4 DEF PendingIn
  <2> QED BY <1>3, <2>5
<1> QED BY <1>4, <1>5

LEMMA Dangling == ASSUME IInv PROVE NoDangling
<1>1. PICK rest, top : rest = SubSeq(frames, 1, depth - 1) /\ top = Top
  OBVIOUS
<1>2. /\ State(rc, leaked, globals, rest, top) /\ top = frames[depth]
      /\ Len(rest) = depth - 1 /\ depth \in Nat
  BY <1>1, Split DEF Top
<1>3. /\ rest \in Seq(Frame) /\ top \in Frame /\ globals \in [Globals -> Leaf]
      /\ \A d \in 1..Len(rest) : Waiting(rest[d]) /\ frames[d] = rest[d]
  <2>1. frames = Append(rest, top)
    BY <1>1, Split
  <2> QED BY <1>2, <2>1, AppendProperties DEF State, Books
<1>4. \A l : Lives(l) => Alive(l)
  BY DEF Lives, Alive, Leaf
<1>5. ASSUME NEW g \in Globals PROVE Alive(globals[g])
  BY <1>4, AllLive DEF Content
<1>6. ASSUME NEW f \in Frame, f.args <= Len(f.pending)
      PROVE  /\ DOMAIN StillRead(f) = 1..Len(f.pending) - f.args
             /\ \A i \in 1..Len(f.pending) - f.args : StillRead(f)[i] = f.pending[i]
             /\ \A i \in 1..Len(f.pending) - f.args : f.pending[i].leaf \in Leaf
             /\ f.locals \in [Locals -> Leaf]
  <2>1. f.pending \in Seq(Reg) /\ f.args \in 0..Len(f.pending) /\ f.locals \in [Locals -> Leaf]
    BY <1>6 DEF Frame
  <2>2. /\ StillRead(f) \in Seq(Reg) /\ Len(StillRead(f)) = Len(f.pending) - f.args
        /\ \A i \in 1..Len(f.pending) - f.args : StillRead(f)[i] = f.pending[i]
    BY <2>1, Halves DEF StillRead
  <2>3. DOMAIN StillRead(f) = 1..Len(f.pending) - f.args
    BY <2>2
  <2>4. \A i \in 1..Len(f.pending) - f.args : f.pending[i].leaf \in Leaf
    <3>1. ASSUME NEW r \in Reg PROVE r.leaf \in Leaf
      BY <3>1 DEF Reg
    <3>2. \A i \in 1..Len(f.pending) - f.args : StillRead(f)[i] \in Reg
      BY <2>2, <2>3
    <3> QED BY <2>2, <3>1, <3>2
  <2> QED BY <2>1, <2>2, <2>3, <2>4
<1>7. ASSUME NEW d \in 1..depth
      PROVE  /\ \A v \in Locals : Alive(frames[d].locals[v])
             /\ \A i \in DOMAIN StillRead(frames[d]) : Alive(StillRead(frames[d])[i].leaf)
  <2>1. CASE d = depth
    <3>1. top.args = 0 /\ top.pending \in Seq(Reg) /\ Pending = top.pending
      BY <1>1, <1>2, <1>3 DEF State, Running, Frame, Pending
    <3>2. /\ \A v \in Locals : Lives(top.locals[v])
          /\ \A i \in 1..Len(top.pending) : Lives(top.pending[i].leaf)
      <4>1. \A v \in Locals : v \notin Globals
        BY DEF Locals, Globals
      <4> QED BY <1>1, <3>1, <4>1, AllLive DEF Content
    <3>3. Len(top.pending) \in Nat /\ Len(top.pending) - top.args = Len(top.pending)
      BY <3>1
    <3>4. /\ DOMAIN StillRead(top) = 1..Len(top.pending)
          /\ \A i \in 1..Len(top.pending) : StillRead(top)[i] = top.pending[i]
      BY <1>3, <1>6, <3>1, <3>3
    <3> QED BY <1>2, <1>4, <2>1, <3>2, <3>4
  <2>2. CASE d # depth
    <3>1. d \in 1..Len(rest)
      BY <1>2, <2>2
    <3>2. PICK f : f = rest[d]
      OBVIOUS
    <3>3. f \in Frame /\ f.args <= Len(f.pending) /\ frames[d] = f
      BY <1>3, <3>1, <3>2 DEF Waiting
    <3>4. ASSUME NEW b \in Blocks
          PROVE  /\ \A v \in Locals : f.locals[v] = b => rc[b] > 0
                 /\ \A i \in 1..Len(f.pending) - f.args : f.pending[i].leaf = b => rc[b] > 0
      BY <1>2, <3>1, <3>2, WaitingLive DEF State
    <3>5. /\ DOMAIN StillRead(f) = 1..Len(f.pending) - f.args
          /\ \A i \in 1..Len(f.pending) - f.args : StillRead(f)[i] = f.pending[i]
          /\ \A i \in 1..Len(f.pending) - f.args : f.pending[i].leaf \in Leaf
          /\ f.locals \in [Locals -> Leaf]
      BY <1>6, <3>3
    <3>6. \A v \in Locals : Lives(f.locals[v])
      BY <3>4, <3>5 DEF Lives
    <3>7. \A i \in 1..Len(f.pending) - f.args : Lives(f.pending[i].leaf)
      BY <3>4, <3>5 DEF Lives
    <3> QED BY <1>4, <3>3, <3>5, <3>6, <3>7
  <2> QED BY <2>1, <2>2
<1> QED BY <1>5, <1>7 DEF NoDangling

-----------------------------------------------------------------------------
\* Programs that make no late call and take no inner struct of a call result.
Disciplined == Programs \cap {"late_call", "inner_of_call"} = {}

LEMMA InitIInv == ASSUME Init PROVE IInv
<1>1. PICK rest, top : rest = <<>> /\ top = MainFrame
  OBVIOUS
<1>2. /\ rest \in Seq(Frame) /\ Len(rest) = 0
      /\ top \in Frame /\ top.pending = <<>> /\ top.args = 0
      /\ top.locals["ls"] = Empty /\ top.locals["lv"] = Empty
  <2>1. top = [locals |-> [v \in Locals |-> Empty], pending |-> <<>>, args |-> 0]
    BY <1>1 DEF MainFrame
  <2>2. [v \in Locals |-> Empty] \in [Locals -> Leaf] /\ <<>> \in Seq(Reg) /\ 0 \in 0..2
    BY DEF Leaf
  <2>3. top \in Frame
    BY ONLY <2>1, <2>2 DEF Frame
  <2> QED BY <1>1, <2>1, <2>3 DEF Locals
<1>3. frames = Append(rest, top)
  BY <1>1 DEF Init
<1>4. ASSUME NEW b \in Blocks
      PROVE  rc[b] = OfGlobals(globals, b) + OfFrames(rest, b) + OfFrame(top, b) + leaked[b]
  <2>1. One(Empty, b) = 0
    BY EmptyAssumption DEF One
  <2>2. OfGlobals(globals, b) = 0
    BY <2>1 DEF Init, OfGlobals, Globals
  <2>3. OfFrame(top, b) = 0
    BY <1>2, <2>1, CountFew DEF OfFrame
  <2>4. OfFrames(rest, b) = 0
    <3>1. LocalsIn(rest, b) = {} /\ PendingIn(rest, b) = {}
      BY <1>2 DEF LocalsIn, PendingIn
    <3> QED BY <3>1, FS_EmptySet DEF OfFrames
  <2>5. rc[b] = 0 /\ leaked[b] = 0
    BY DEF Init
  <2> QED BY ONLY <2>2, <2>3, <2>4, <2>5
<1>5. Books(rc, leaked, globals, rest, top)
  BY <1>2, <1>4 DEF Init, Books, Leaf
<1>6. Running(top, globals)
  BY <1>2, BoundsAssumption DEF Running
<1> QED BY <1>3, <1>5, <1>6, Joined DEF State

LEMMA NextIInv == ASSUME Disciplined, IInv, [Next]_vars PROVE IInv'
<1>1. "late_call" \notin Programs /\ "inner_of_call" \notin Programs
  BY DEF Disciplined
<1>2. CASE Next
  BY <1>1, <1>2, ConstStringStep, ConcatStep, RuntimeCallStep, GetFieldStep, GetInnerStep,
     LoadStep, StoreStep, DiscardStep, BranchStep, CallStep, ReturnStep, FallThroughStep
     DEF Next
<1>3. CASE UNCHANGED vars
  <2>1. rc' = rc /\ leaked' = leaked /\ globals' = globals /\ frames' = frames
    BY <1>3 DEF vars
  <2>2. PICK rest, top : /\ State(rc, leaked, globals, rest, top) /\ frames = Append(rest, top)
    BY Split
  <2> QED BY <2>1, <2>2, JoinedNext
<1> QED BY <1>2, <1>3

(* The strings of a compiled program, whatever it computes, calls, stores   *)
(* and branches on: the types, that a waiting frame keeps owned registers   *)
(* only and a view names a variable of the running function, and the exact  *)
(* counts are kept by every instruction codegen/func.rs emits.              *)
THEOREM Invariant == Disciplined => (Spec => []IInv)
<1> SUFFICES ASSUME Disciplined PROVE Spec => []IInv
  OBVIOUS
<1>1. Init => IInv
  BY InitIInv
<1>2. IInv /\ [Next]_vars => IInv'
  BY NextIInv
<1> QED BY <1>1, <1>2, PTL DEF Spec

(* The count of every block is the number of variables and temporaries that *)
(* own it and of the temporaries regtypes.rs leaks: the retains and releases *)
(* of loads, stores, calls, parameters and returns balance on every path.   *)
THEOREM CountsStayExact == Disciplined => (Spec => []CountsExact)
<1>1. IInv => CountsExact
  BY DEF IInv
<1> QED BY <1>1, Invariant, PTL

(* No variable and no register still to be read names a freed string.       *)
THEOREM NothingDangles == Disciplined => (Spec => []NoDangling)
<1>1. IInv => NoDangling
  BY Dangling
<1> QED BY <1>1, Invariant, PTL
=============================================================================
