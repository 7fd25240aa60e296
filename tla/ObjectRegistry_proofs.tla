------------------------ MODULE ObjectRegistry_proofs ------------------------
(***************************************************************************)
(* For every number of objects, every mix of kinds and every lifetime: what *)
(* the runs check of the object registries and of the game loop.            *)
(***************************************************************************)
EXTENDS GameLoop, SequenceTheorems, WellFoundedInduction, TLAPS

(***************************************************************************)
(* Loops.  A recursive function over 0..N exists, and what holds of its     *)
(* first value and is kept by each step holds of its last.                  *)
(***************************************************************************)
Below == {p \in Nat \X Nat : p[1] < p[2]}

LEMMA BelowWellFounded == IsWellFoundedOn(Below, Nat)
<1>1. OpToRel(<, Nat) = Below
  BY DEF OpToRel, Below
<1> QED BY Zenon, <1>1, NatLessThanWellFounded

\* Induction over 0..N, with the set of what is proved for a parameter.
LEMMA UpTo ==
    ASSUME NEW N \in Nat, NEW T, 0 \in T, \A i \in 0..(N - 1) : i \in T => i + 1 \in T
    PROVE  0..N \subseteq T
<1> DEFINE D == {i \in Nat : i <= N /\ i \notin T}
<1>1. SUFFICES ASSUME D # {} PROVE FALSE
  OBVIOUS
<1>2. PICK x \in D : \A y \in D : ~(<<y, x>> \in Below)
  <2>1. D \subseteq Nat
    OBVIOUS
  <2> HIDE DEF D
  <2> QED BY <1>1, <2>1, BelowWellFounded, WFMin
<1>3. x \in Nat /\ x # 0 /\ x <= N /\ x \notin T
  BY <1>2
<1>4. x - 1 \in T
  <2>1. x - 1 \in Nat /\ <<x - 1, x>> \in Below
    BY <1>3 DEF Below
  <2>2. x - 1 \notin D
    BY <1>2, <2>1
  <2> QED BY <1>3, <2>1, <2>2
<1>5. x - 1 \in 0..(N - 1) /\ (x - 1) + 1 = x
  BY <1>3
<1>6. x \in T
  BY <1>4, <1>5
<1> QED BY <1>3, <1>6

-----------------------------------------------------------------------------
(* erase_from.                                                             *)
LEMMA WithoutLoop ==
    ASSUME NEW v, Len(v) \in Nat, NEW o
    PROVE  \E kept :
             /\ kept[0] = <<>>
             /\ \A i \in 1..Len(v) :
                  kept[i] = IF v[i] = o THEN kept[i - 1] ELSE Append(kept[i - 1], v[i])
             /\ Without(v, o) = kept[Len(v)]
<1> DEFINE N == Len(v)
           step(x, i) == IF v[i] = o THEN x ELSE Append(x, v[i])
           rec(g, n) == g = [i \in 0..n |-> IF i = 0 THEN <<>> ELSE step(g[i - 1], i)]
           T == {n \in Nat : \E g : rec(g, n)}
<1>1. 0 \in T
  <2>1. rec([i \in 0..0 |-> <<>>], 0)
    OBVIOUS
  <2> QED BY <2>1
<1>2. ASSUME NEW n \in 0..(N - 1), n \in T PROVE n + 1 \in T
  <2> HIDE DEF step
  <2>1. PICK g : rec(g, n)
    BY <1>2
  <2> DEFINE h == [i \in 0..(n + 1) |-> IF i <= n THEN g[i] ELSE step(g[n], n + 1)]
  <2>2. \A i \in 0..(n + 1) : h[i] = IF i = 0 THEN <<>> ELSE step(h[i - 1], i)
    BY <2>1
  <2>3. rec(h, n + 1)
    <3> DEFINE e == [i \in 0..(n + 1) |-> IF i = 0 THEN <<>> ELSE step(h[i - 1], i)]
    <3>1. \A i \in 0..(n + 1) : h[i] = e[i]
      BY <2>2
    <3> QED BY <3>1
  <2> HIDE DEF rec
  <2> QED BY <2>3
<1>3. N \in T
  <2> HIDE DEF T
  <2>1. N \in Nat /\ N \in 0..N
    OBVIOUS
  <2>2. \A n \in 0..(N - 1) : n \in T => n + 1 \in T
    BY <1>2
  <2> HIDE DEF N
  <2>3. 0..N \subseteq T
    BY <1>1, <2>1, <2>2, UpTo, SMTT(30)
  <2> QED BY <2>1, <2>3
<1>4. PICK g : rec(g, N)
  BY <1>3
<1> DEFINE kept == CHOOSE g0 : rec(g0, N)
<1>5. rec(kept, N)
  BY <1>4
<1>6. Without(v, o) = kept[N]
  BY DEF Without
<1>7. kept[0] = <<>> /\ \A i \in 1..N : kept[i] = step(kept[i - 1], i)
  <2> HIDE DEF kept, step
  <2> QED BY <1>5
<1> QED BY <1>6, <1>7

\* The others keep their order, none moves back.
LEMMA WithoutFacts ==
    ASSUME NEW S, NEW v \in Seq(S), NEW o
    PROVE  LET u == Without(v, o) IN
           /\ u \in Seq(S)
           /\ \A i \in 1..Len(v) : v[i] # o => \E k \in 1..Len(u) : u[k] = v[i]
           /\ \A k \in 1..Len(u) : \E a \in 1..Len(v) : k <= a /\ u[k] = v[a] /\ v[a] # o
           /\ \A j, k \in 1..Len(u) : j < k =>
                \E a, b \in 1..Len(v) : a < b /\ u[j] = v[a] /\ u[k] = v[b]
<1>0. Len(v) \in Nat /\ \A i \in 1..Len(v) : v[i] \in S
  OBVIOUS
<1>1. PICK kept :
        /\ kept[0] = <<>>
        /\ \A i \in 1..Len(v) :
             kept[i] = IF v[i] = o THEN kept[i - 1] ELSE Append(kept[i - 1], v[i])
        /\ Without(v, o) = kept[Len(v)]
  BY <1>0, WithoutLoop
<1> DEFINE P(n, u) ==
      /\ u \in Seq(S) /\ Len(u) <= n
      /\ \A i \in 1..n : v[i] # o => \E k \in 1..Len(u) : u[k] = v[i]
      /\ \A k \in 1..Len(u) : \E a \in 1..n : k <= a /\ u[k] = v[a] /\ v[a] # o
      /\ \A j, k \in 1..Len(u) : j < k =>
           \E a, b \in 1..n : a < b /\ u[j] = v[a] /\ u[k] = v[b]
    T == {n \in 0..Len(v) : P(n, kept[n])}
<1>2. P(0, kept[0])
  BY <1>1
<1>3. ASSUME NEW n \in 0..(Len(v) - 1), P(n, kept[n]) PROVE P(n + 1, kept[n + 1])
  <2> DEFINE x == v[n + 1]
             u == kept[n]
  <2>0. n + 1 \in 1..Len(v) /\ n \in Nat /\ (n + 1) - 1 = n /\ x \in S
    BY <1>0
  <2>1. CASE x = o
    <3>1. kept[n + 1] = u
      BY <1>1, <2>0, <2>1
    <3> HIDE DEF u
    <3>2. P(n, u)
      BY <1>3 DEF u
    <3>3. \A i \in 1..(n + 1) : v[i] # o => i \in 1..n
      BY <2>0, <2>1
    <3>4. \A i \in 1..n : i \in 1..(n + 1)
      BY <2>0
    <3>5. \A k \in 1..Len(u) : \E a \in 1..(n + 1) : k <= a /\ u[k] = v[a] /\ v[a] # o
      BY <3>2, <3>4
    <3>6. \A j, k \in 1..Len(u) : j < k =>
             \E a, b \in 1..(n + 1) : a < b /\ u[j] = v[a] /\ u[k] = v[b]
      <4> TAKE j, k \in 1..Len(u)
      <4> HAVE j < k
      <4>1. PICK a, b \in 1..n : a < b /\ u[j] = v[a] /\ u[k] = v[b]
        BY <3>2
      <4> QED BY <3>4, <4>1
    <3> QED BY <2>0, <3>1, <3>2, <3>3, <3>5, <3>6
  <2>2. CASE x # o
    <3> DEFINE t == Append(u, x)
    <3>1. kept[n + 1] = t
      BY <1>1, <2>0, <2>2
    <3>2. P(n, u)
      BY <1>3
    <3> HIDE DEF u
    <3>3. /\ t \in Seq(S) /\ Len(t) = Len(u) + 1 /\ Len(u) \in Nat /\ t[Len(u) + 1] = x
          /\ \A k \in 1..Len(u) : t[k] = u[k]
      BY <2>0, <3>2
    <3> HIDE DEF t
    <3>4. \A i \in 1..(n + 1) : v[i] # o => \E k \in 1..Len(t) : t[k] = v[i]
      <4> TAKE i \in 1..(n + 1)
      <4> HAVE v[i] # o
      <4>1. CASE i = n + 1
        BY <3>3, <4>1
      <4>2. CASE i \in 1..n
        BY <3>2, <3>3, <4>2, SMTT(30)
      <4> QED BY <2>0, <4>1, <4>2
    <3>5. \A k \in 1..Len(t) : \E a \in 1..(n + 1) : k <= a /\ t[k] = v[a] /\ v[a] # o
      <4> TAKE k \in 1..Len(t)
      <4>1. CASE k = Len(u) + 1
        BY <2>0, <2>2, <3>2, <3>3, <4>1
      <4>2. CASE k \in 1..Len(u)
        <5>1. PICK a \in 1..n : k <= a /\ u[k] = v[a] /\ v[a] # o
          BY <3>2, <4>2
        <5>2. a \in 1..(n + 1) /\ t[k] = u[k]
          BY <2>0, <3>3, <4>2
        <5> QED BY <5>1, <5>2
      <4> QED BY <3>3, <4>1, <4>2
    <3>6. ASSUME NEW j \in 1..Len(t), NEW k \in 1..Len(t), j < k
          PROVE  \E a, b \in 1..(n + 1) : a < b /\ t[j] = v[a] /\ t[k] = v[b]
      <4>1. j \in 1..Len(u) /\ t[j] = u[j]
        BY <3>3, <3>6
      <4>2. CASE k = Len(u) + 1
        <5>1. PICK a \in 1..n : u[j] = v[a]
          BY <3>2, <4>1
        <5> QED BY <2>0, <3>3, <4>1, <4>2, <5>1
      <4>3. CASE k \in 1..Len(u)
        <5>1. PICK a, b \in 1..n : a < b /\ u[j] = v[a] /\ u[k] = v[b]
          BY <3>2, <3>6, <4>1, <4>3
        <5>2. a \in 1..(n + 1) /\ b \in 1..(n + 1) /\ t[k] = u[k]
          BY <2>0, <3>3, <4>3
        <5> QED BY <4>1, <5>1, <5>2
      <4> QED BY <3>3, <4>2, <4>3
    <3> QED BY <2>0, <3>1, <3>2, <3>3, <3>4, <3>5, <3>6
  <2> QED BY <2>1, <2>2
<1>4. P(Len(v), kept[Len(v)])
  <2> HIDE DEF P
  <2>1. 0 \in T /\ \A n \in 0..(Len(v) - 1) : n \in T => n + 1 \in T
    BY <1>0, <1>2, <1>3
  <2> HIDE DEF T
  <2>2. 0..Len(v) \subseteq T
    BY <1>0, <2>1, UpTo
  <2>3. Len(v) \in T
    BY <1>0, <2>2
  <2> QED BY <2>3 DEF T
<1> QED BY <1>1, <1>4

LEMMA WithoutStays ==
    ASSUME NEW v \in Seq(Objects), NEW o
    PROVE  \A k \in 1..Len(Without(v, o)) : \E a \in 1..Len(v) : k <= a /\ Without(v, o)[k] = v[a]
<1> TAKE k \in 1..Len(Without(v, o))
<1>1. PICK a \in 1..Len(v) : k <= a /\ Without(v, o)[k] = v[a] /\ v[a] # o
  BY WithoutFacts
<1> QED BY <1>1

Increasing(v) == \A m, n \in 1..Len(v) : m < n => v[m] < v[n]

LEMMA WithoutSet ==
    ASSUME NEW S, NEW v \in Seq(S), NEW o
    PROVE  /\ Without(v, o) \in Seq(S)
           /\ ToSet(Without(v, o)) = ToSet(v) \ {o}
<1> DEFINE u == Without(v, o)
<1>1. u \in Seq(S)
  BY WithoutFacts
<1>2. ToSet(u) = {u[k] : k \in 1..Len(u)} /\ ToSet(v) = {v[k] : k \in 1..Len(v)}
  BY <1>1 DEF ToSet
<1> HIDE DEF u
<1>3. \A x \in ToSet(v) \ {o} : x \in ToSet(u)
  BY <1>2, WithoutFacts, SMTT(30) DEF u
<1>4. ASSUME NEW k \in 1..Len(u) PROVE u[k] \in ToSet(v) \ {o}
  <2>1. PICK a \in 1..Len(v) : u[k] = v[a] /\ v[a] # o
    BY WithoutFacts DEF u
  <2> QED BY <1>2, <2>1
<1> QED BY <1>1, <1>2, <1>3, <1>4 DEF u

LEMMA WithoutInjective ==
    ASSUME NEW S, NEW v \in Seq(S), NEW o, IsInjective(v)
    PROVE  IsInjective(Without(v, o))
<1> DEFINE u == Without(v, o)
<1>1. u \in Seq(S)
  BY WithoutFacts
<1>2. ASSUME NEW j \in 1..Len(u), NEW k \in 1..Len(u), j < k PROVE u[j] # u[k]
  <2>1. PICK a, b \in 1..Len(v) : a < b /\ u[j] = v[a] /\ u[k] = v[b]
    BY <1>2, WithoutFacts
  <2> QED BY <2>1 DEF IsInjective
<1> HIDE DEF u
<1> SUFFICES IsInjective(u)
  BY DEF u
<1> QED BY <1>1, <1>2 DEF IsInjective

LEMMA WithoutIncreasing ==
    ASSUME NEW v \in Seq(Objects), NEW o, Increasing(v)
    PROVE  Increasing(Without(v, o))
<1> DEFINE u == Without(v, o)
<1>2. ASSUME NEW j \in 1..Len(u), NEW k \in 1..Len(u), j < k PROVE u[j] < u[k]
  <2>1. PICK a, b \in 1..Len(v) : a < b /\ u[j] = v[a] /\ u[k] = v[b]
    BY <1>2, WithoutFacts
  <2> QED BY <2>1 DEF Increasing
<1> QED BY <1>2 DEF Increasing

-----------------------------------------------------------------------------
(* The registries of a state s of the translation unit.                    *)
Things ==
  [kind : {"regular", "floor", "emitter"}, memory : {"unborn", "allocated", "freed"},
   life : Int, visible : BOOLEAN, checkCollisions : BOOLEAN,
   collisions : SUBSET (Objects \cup {Null}), stop : BOOLEAN, particles : Nat]

Worlds ==
  [live : Seq(Objects), floor : Seq(Objects), regular : Seq(Objects), rogue : Seq(Objects),
   pickable : Seq(Objects), picked : Objects \cup {Null},
   checks : SUBSET (Objects \X (Objects \cup {Null})), enum : Nat,
   obj : [Objects -> Things]]

AllocatedIn(s) == {o \in Objects : s.obj[o].memory = "allocated"}

\* ChainsExact, of s.
Chained(s) ==
  /\ IsInjective(s.live) /\ IsInjective(s.rogue)
  /\ IsInjective(s.floor) /\ IsInjective(s.regular)
  /\ ToSet(s.live) \cap ToSet(s.rogue) = {}
  /\ ToSet(s.live) \cup ToSet(s.rogue) = AllocatedIn(s)
  /\ ToSet(s.floor) = {o \in AllocatedIn(s) : s.obj[o].kind = "floor"}
  /\ ToSet(s.regular) = {o \in AllocatedIn(s) : s.obj[o].kind # "floor"}

Solid(s, o) == o \in ToSet(s.live) /\ s.obj[o].kind # "emitter"

\* RegistriesValid, of s.
Held(s) ==
  /\ \A o \in ToSet(s.pickable) : Solid(s, o)
  /\ s.picked # Null => Solid(s, s.picked)
  /\ \A c \in s.checks : Solid(s, c[1]) /\ (c[2] # Null => Solid(s, c[2]))

\* A rogue is a stopped emitter, and no emitter has contacts.
Emitters(s) ==
  /\ \A o \in ToSet(s.rogue) : s.obj[o].stop /\ s.obj[o].kind = "emitter"
  /\ \A o \in Objects : s.obj[o].kind = "emitter" => s.obj[o].collisions = {}

\* Objects are born in the order of their numbers, and stay in it.
Births(s) ==
  /\ Increasing(s.live)
  /\ \A p, q \in Objects :
       p < q /\ s.obj[p].memory = "unborn" => s.obj[q].memory = "unborn"

Good(s) == s \in Worlds /\ Chained(s) /\ Held(s) /\ Emitters(s) /\ Births(s)

\* Changes of the fields that say nothing of the registries.
SameRegistries(s, t) ==
  /\ t.live = s.live /\ t.floor = s.floor /\ t.regular = s.regular /\ t.rogue = s.rogue
  /\ t.pickable = s.pickable /\ t.picked = s.picked /\ t.checks = s.checks
  /\ \A o \in Objects :
       /\ t.obj[o].kind = s.obj[o].kind /\ t.obj[o].memory = s.obj[o].memory
       /\ t.obj[o].stop = s.obj[o].stop
       /\ t.obj[o].kind = "emitter" => t.obj[o].collisions = {}

LEMMA SameIsGood ==
    ASSUME NEW s, NEW t, Good(s), t \in Worlds, SameRegistries(s, t) PROVE Good(t)
<1> USE DEF Good, SameRegistries
<1>1. AllocatedIn(t) = AllocatedIn(s)
  BY DEF AllocatedIn
<1>2. ToSet(s.floor) \subseteq Objects /\ ToSet(s.regular) \subseteq Objects
  BY DEF Chained, AllocatedIn
<1>3. Chained(t)
  BY <1>1 DEF Chained, AllocatedIn
<1>4. Held(t)
  <2>1. \A o \in Objects : Solid(s, o) => Solid(t, o)
    BY DEF Solid
  <2>2. \A o \in ToSet(s.pickable) : o \in Objects
    BY <1>3 DEF Held, Solid, Chained, AllocatedIn
  <2>3. s.checks \subseteq Objects \X (Objects \cup {Null})
    BY DEF Worlds
  <2>4. s.picked \in Objects \cup {Null}
    BY DEF Worlds
  <2>5. \A c \in s.checks : c[1] \in Objects /\ (c[2] # Null => c[2] \in Objects)
    BY <2>3
  <2> QED BY <2>1, <2>2, <2>4, <2>5 DEF Held
<1>5. Emitters(t)
  <2>1. \A o \in ToSet(s.rogue) : o \in Objects
    BY DEF Chained, AllocatedIn
  <2> QED BY <2>1 DEF Emitters
<1>6. Births(t)
  BY DEF Births
<1> QED BY <1>3, <1>4, <1>5, <1>6

\* What one field of one object is set to, as the commands and the tick do.
LEMMA SetFields ==
    ASSUME NEW s \in Worlds, NEW o \in Objects, NEW thing \in Things,
           NEW t, t = [s EXCEPT !.obj[o] = thing]
    PROVE  /\ t \in Worlds
           /\ t.live = s.live /\ t.floor = s.floor /\ t.regular = s.regular
           /\ t.rogue = s.rogue /\ t.pickable = s.pickable /\ t.picked = s.picked
           /\ t.checks = s.checks /\ t.enum = s.enum
           /\ t.obj[o] = thing /\ \A p \in Objects : p # o => t.obj[p] = s.obj[p]
BY DEF Worlds

LEMMA RogueFields ==
    ASSUME NEW s \in Worlds, NEW o \in Objects
    PROVE  LET t == Rogue(s, o) IN
           /\ t \in Worlds
           /\ t.live = Without(s.live, o) /\ t.rogue = Append(s.rogue, o)
           /\ t.pickable = Without(s.pickable, o)
           /\ t.picked = IF s.picked = o THEN Null ELSE s.picked
           /\ t.floor = s.floor /\ t.regular = s.regular /\ t.checks = s.checks
           /\ t.enum = s.enum
           /\ t.obj = [s.obj EXCEPT ![o].stop = TRUE]
<1>1. /\ s.live \in Seq(Objects) /\ s.pickable \in Seq(Objects) /\ s.rogue \in Seq(Objects)
      /\ s.obj \in [Objects -> Things] /\ s.picked \in Objects \cup {Null}
  BY DEF Worlds
<1>2. /\ Without(s.live, o) \in Seq(Objects) /\ Without(s.pickable, o) \in Seq(Objects)
      /\ Append(s.rogue, o) \in Seq(Objects)
  BY <1>1, WithoutSet
<1>3. [s.obj EXCEPT ![o].stop = TRUE] \in [Objects -> Things]
  BY <1>1, ZenonT(60) DEF Things
<1> QED BY <1>1, <1>2, <1>3 DEF Rogue, Worlds

LEMMA AppendSet ==
    ASSUME NEW S, NEW v \in Seq(S), NEW o \in S
    PROVE  /\ Append(v, o) \in Seq(S)
           /\ ToSet(Append(v, o)) = ToSet(v) \cup {o}
           /\ IsInjective(v) /\ o \notin ToSet(v) => IsInjective(Append(v, o))
<1>1. Append(v, o) \in Seq(S)
  OBVIOUS
<1>2. /\ DOMAIN Append(v, o) = 1..(Len(v) + 1) /\ DOMAIN v = 1..Len(v) /\ Len(v) \in Nat
      /\ \A i \in 1..Len(v) : Append(v, o)[i] = v[i]
      /\ Append(v, o)[Len(v) + 1] = o
  OBVIOUS
<1> DEFINE u == Append(v, o)
<1>3. ToSet(u) = {u[i] : i \in 1..(Len(v) + 1)} /\ ToSet(v) = {v[i] : i \in 1..Len(v)}
  BY <1>2 DEF ToSet
<1> HIDE DEF u
<1>4. ToSet(u) = ToSet(v) \cup {o}
  <2>1. \A x \in ToSet(v) \cup {o} : x \in ToSet(u)
    BY <1>2, <1>3 DEF u
  <2>2. \A i \in 1..(Len(v) + 1) : i \in 1..Len(v) \/ i = Len(v) + 1
    BY <1>2
  <2>3. \A x \in ToSet(u) : x \in ToSet(v) \cup {o}
    BY <1>2, <1>3, <2>2 DEF u
  <2> QED BY <2>1, <2>3
<1>5. IsInjective(v) /\ o \notin ToSet(v) => IsInjective(u)
  <2> SUFFICES ASSUME IsInjective(v), o \notin ToSet(v),
                      NEW i \in 1..(Len(v) + 1), NEW j \in 1..(Len(v) + 1), u[i] = u[j]
               PROVE  i = j
    BY <1>2 DEF IsInjective, u
  <2>1. \A n \in 1..(Len(v) + 1) : n \in 1..Len(v) \/ n = Len(v) + 1
    BY <1>2
  <2>2. \A n \in 1..Len(v) : v[n] # o
    BY <1>3
  <2>3. \A m, n \in 1..Len(v) : v[m] = v[n] => m = n
    BY <1>2 DEF IsInjective
  <2> QED BY <1>2, <2>1, <2>2, <2>3 DEF u
<1> QED BY <1>1, <1>4, <1>5 DEF u

LEMMA SeqsOf ==
    ASSUME NEW s \in Worlds
    PROVE  /\ s.live \in Seq(Objects) /\ s.floor \in Seq(Objects) /\ s.regular \in Seq(Objects)
           /\ s.rogue \in Seq(Objects) /\ s.pickable \in Seq(Objects)
           /\ s.picked \in Objects \cup {Null} /\ s.enum \in Nat
           /\ s.checks \in SUBSET (Objects \X (Objects \cup {Null}))
           /\ s.obj \in [Objects -> Things]
           /\ \A v \in {s.live, s.floor, s.regular, s.rogue, s.pickable} : ToSet(v) \subseteq Objects
<1>1. /\ s.live \in Seq(Objects) /\ s.floor \in Seq(Objects) /\ s.regular \in Seq(Objects)
      /\ s.rogue \in Seq(Objects) /\ s.pickable \in Seq(Objects)
  BY DEF Worlds
<1>2. ASSUME NEW v \in Seq(Objects) PROVE ToSet(v) \subseteq Objects
  BY DEF ToSet
<1> QED BY <1>1, <1>2 DEF Worlds

\* What Held says of the objects that have not lost their solidity.
LEMMA HeldKept ==
    ASSUME NEW s \in Worlds, NEW t, NEW o \in Objects, Held(s),
           \A p \in Objects : p # o /\ Solid(s, p) => Solid(t, p),
           ToSet(t.pickable) \subseteq ToSet(s.pickable) \ {o},
           t.picked \in {s.picked, Null} \ {o},
           t.checks \subseteq s.checks, \A c \in t.checks : c[1] # o /\ c[2] # o
    PROVE  Held(t)
<1>1. /\ s.picked \in Objects \cup {Null} /\ ToSet(s.pickable) \subseteq Objects
      /\ \A c \in s.checks : c[1] \in Objects /\ (c[2] # Null => c[2] \in Objects)
  BY SeqsOf
<1> QED BY <1>1 DEF Held

LEMMA NullNoObject == Null \notin Objects
BY DEF Null, Objects

\* A live emitter that is deleted with particles left.
LEMMA RogueIsGood ==
    ASSUME NEW s, Good(s), NEW o \in ToSet(s.live), s.obj[o].kind = "emitter"
    PROVE  Good(Rogue(s, o))
<1> DEFINE t == Rogue(s, o)
<1>0. s \in Worlds /\ o \in Objects /\ o \notin ToSet(s.rogue)
  BY SeqsOf DEF Good, Chained
<1>1. /\ t \in Worlds
      /\ t.live = Without(s.live, o) /\ t.rogue = Append(s.rogue, o)
      /\ t.pickable = Without(s.pickable, o)
      /\ t.picked = IF s.picked = o THEN Null ELSE s.picked
      /\ t.floor = s.floor /\ t.regular = s.regular /\ t.checks = s.checks
      /\ t.obj = [s.obj EXCEPT ![o].stop = TRUE]
  BY <1>0, RogueFields
<1> HIDE DEF t
<1>2. \A p \in Objects : /\ t.obj[p].kind = s.obj[p].kind /\ t.obj[p].memory = s.obj[p].memory
                         /\ t.obj[p].collisions = s.obj[p].collisions
                         /\ p = o => t.obj[p].stop
                         /\ p # o => t.obj[p].stop = s.obj[p].stop
  <2>1. s.obj[o] \in Things /\ \A p \in Objects : p # o => t.obj[p] = s.obj[p]
    BY <1>0, <1>1, SeqsOf
  <2>2. t.obj[o] = [s.obj[o] EXCEPT !.stop = TRUE]
    BY <1>0, <1>1, SeqsOf
  <2> QED BY <2>1, <2>2 DEF Things
<1>3. /\ ToSet(t.live) = ToSet(s.live) \ {o} /\ ToSet(t.rogue) = ToSet(s.rogue) \cup {o}
      /\ ToSet(t.pickable) = ToSet(s.pickable) \ {o}
  BY <1>0, <1>1, SeqsOf, WithoutSet, AppendSet, SMTT(30)
<1>4. IsInjective(t.live) /\ IsInjective(t.rogue)
  BY <1>0, <1>1, SeqsOf, WithoutInjective, AppendSet DEF Good, Chained
<1>5. AllocatedIn(t) = AllocatedIn(s)
  BY <1>2 DEF AllocatedIn
<1>6. Chained(t)
  BY <1>1, <1>2, <1>3, <1>4, <1>5 DEF Good, Chained, AllocatedIn
<1>7. Held(t)
  <2>1. \A p \in Objects : p # o /\ Solid(s, p) => Solid(t, p)
    BY <1>2, <1>3 DEF Solid
  <2>2. \A c \in s.checks : c[1] # o /\ c[2] # o
    BY <1>0, NullNoObject DEF Good, Held, Solid
  <2> QED BY <1>0, <1>1, <1>3, <2>1, <2>2, HeldKept, NullNoObject DEF Good
<1>8. Emitters(t)
  BY <1>0, <1>2, <1>3, SeqsOf, ZenonT(60) DEF Good, Emitters
<1>9. Births(t)
  <2>1. Increasing(t.live)
    <3>1. s.live \in Seq(Objects) /\ Increasing(s.live)
      BY <1>0, SeqsOf DEF Good, Births
    <3> QED BY <1>1, <3>1, WithoutIncreasing
  <2> QED BY <1>2, <2>1 DEF Good, Births
<1> QED BY <1>1, <1>6, <1>7, <1>8, <1>9 DEF Good, t

\* An object that leaves every list it is in and is freed.
LEMMA FreeingIsGood ==
    ASSUME NEW s, Good(s), NEW o \in AllocatedIn(s), NEW t \in Worlds,
           t.live \in {s.live, Without(s.live, o)}, o \notin ToSet(t.live),
           t.floor = Without(s.floor, o), t.regular = Without(s.regular, o),
           t.rogue = Without(s.rogue, o),
           ToSet(t.pickable) \subseteq ToSet(s.pickable) \ {o},
           t.picked \in {s.picked, Null} \ {o},
           t.checks \subseteq s.checks, \A c \in t.checks : c[1] # o /\ c[2] # o,
           t.obj = [s.obj EXCEPT ![o] = Gone]
    PROVE  Good(t)
<1>0. s \in Worlds /\ o \in Objects
  BY DEF Good, AllocatedIn
<1>1. /\ ToSet(t.live) = ToSet(s.live) \ {o} /\ ToSet(t.rogue) = ToSet(s.rogue) \ {o}
      /\ ToSet(t.floor) = ToSet(s.floor) \ {o} /\ ToSet(t.regular) = ToSet(s.regular) \ {o}
  BY <1>0, SeqsOf, WithoutSet, SMTT(30)
<1>2. /\ IsInjective(t.live) /\ IsInjective(t.rogue)
      /\ IsInjective(t.floor) /\ IsInjective(t.regular)
  BY <1>0, SeqsOf, WithoutInjective DEF Good, Chained
<1>3. /\ t.obj[o] = Gone /\ \A p \in Objects : p # o => t.obj[p] = s.obj[p]
  BY <1>0, SeqsOf
<1>4. Gone.kind = "regular" /\ Gone.memory = "freed" /\ Gone.collisions = {}
  BY DEF Gone, NewObject
<1>5. AllocatedIn(t) = AllocatedIn(s) \ {o}
  BY <1>3, <1>4 DEF AllocatedIn
<1>6. Chained(t)
  <2>1. ToSet(t.live) \cap ToSet(t.rogue) = {} /\ ToSet(t.live) \cup ToSet(t.rogue) = AllocatedIn(t)
    BY <1>1, <1>5 DEF Good, Chained
  <2>2. /\ ToSet(t.floor) = {p \in AllocatedIn(t) : t.obj[p].kind = "floor"}
        /\ ToSet(t.regular) = {p \in AllocatedIn(t) : t.obj[p].kind # "floor"}
    <3>1. \A p \in AllocatedIn(t) : p \in AllocatedIn(s) /\ p # o /\ t.obj[p] = s.obj[p]
      BY <1>3, <1>5 DEF AllocatedIn
    <3>2. /\ ToSet(s.floor) = {p \in AllocatedIn(s) : s.obj[p].kind = "floor"}
          /\ ToSet(s.regular) = {p \in AllocatedIn(s) : s.obj[p].kind # "floor"}
      BY DEF Good, Chained
    <3> QED BY <1>1, <1>5, <3>1, <3>2
  <2> QED BY <1>2, <2>1, <2>2 DEF Chained
<1>7. Held(t)
  <2>1. \A p \in Objects : p # o /\ Solid(s, p) => Solid(t, p)
    BY <1>1, <1>3 DEF Solid
  <2> QED BY <1>0, <2>1, HeldKept DEF Good
<1>8. Emitters(t)
  <2>1. \A p \in ToSet(t.rogue) : p \in Objects /\ p # o /\ p \in ToSet(s.rogue)
    BY <1>0, <1>1, SeqsOf
  <2> QED BY <1>3, <1>4, <2>1 DEF Good, Emitters
<1>9. Births(t)
  <2>1. Increasing(t.live)
    <3>1. s.live \in Seq(Objects) /\ Increasing(s.live)
      BY <1>0, SeqsOf DEF Good, Births
    <3> QED BY <3>1, WithoutIncreasing
  <2>2. s.obj[o].memory # "unborn"
    BY DEF AllocatedIn
  <2> QED BY <1>3, <1>4, <2>1, <2>2 DEF Good, Births, AllocatedIn
<1> QED BY <1>6, <1>7, <1>8, <1>9 DEF Good

LEMMA NewIsAThing == ASSUME NEW kind \in {"regular", "floor", "emitter"} PROVE NewObject(kind) \in Things
<1>1. NoLife \in Int
  BY DEF NoLife
<1> QED BY <1>1 DEF NewObject, Things

LEMMA GoneIsAThing == Gone \in Things
BY NewIsAThing DEF Gone, Things

LEMMA FreedFields ==
    ASSUME NEW s \in Worlds, NEW o \in Objects
    PROVE  LET t == Freed(s, o) IN
           /\ t \in Worlds
           /\ t.live = Without(s.live, o) /\ t.floor = Without(s.floor, o)
           /\ t.regular = Without(s.regular, o) /\ t.rogue = Without(s.rogue, o)
           /\ t.pickable = Without(s.pickable, o)
           /\ t.picked = IF s.picked = o THEN Null ELSE s.picked
           /\ t.checks = {c \in s.checks : c[1] # o /\ c[2] # o}
           /\ t.enum = s.enum
           /\ t.obj = [s.obj EXCEPT ![o] = Gone]
<1>1. /\ s.live \in Seq(Objects) /\ s.pickable \in Seq(Objects) /\ s.rogue \in Seq(Objects)
      /\ s.floor \in Seq(Objects) /\ s.regular \in Seq(Objects)
      /\ s.obj \in [Objects -> Things] /\ s.picked \in Objects \cup {Null}
      /\ s.checks \in SUBSET (Objects \X (Objects \cup {Null}))
  BY SeqsOf
<1>2. /\ Without(s.live, o) \in Seq(Objects) /\ Without(s.pickable, o) \in Seq(Objects)
      /\ Without(s.rogue, o) \in Seq(Objects) /\ Without(s.floor, o) \in Seq(Objects)
      /\ Without(s.regular, o) \in Seq(Objects)
  BY <1>1, WithoutSet
<1>3. [s.obj EXCEPT ![o] = Gone] \in [Objects -> Things]
  BY <1>1, GoneIsAThing
<1>4. {c \in s.checks : c[1] # o /\ c[2] # o} \in SUBSET (Objects \X (Objects \cup {Null}))
  BY <1>1
<1> QED BY <1>1, <1>2, <1>3, <1>4 DEF Freed, Worlds

LEMMA FreedIsGood ==
    ASSUME NEW s, Good(s), NEW o \in AllocatedIn(s) PROVE Good(Freed(s, o))
<1> DEFINE t == Freed(s, o)
<1>0. s \in Worlds /\ o \in Objects
  BY DEF Good, AllocatedIn
<1>1. /\ t \in Worlds
      /\ t.live = Without(s.live, o) /\ t.floor = Without(s.floor, o)
      /\ t.regular = Without(s.regular, o) /\ t.rogue = Without(s.rogue, o)
      /\ t.pickable = Without(s.pickable, o)
      /\ t.picked = IF s.picked = o THEN Null ELSE s.picked
      /\ t.checks = {c \in s.checks : c[1] # o /\ c[2] # o}
      /\ t.obj = [s.obj EXCEPT ![o] = Gone]
  BY <1>0, FreedFields
<1> HIDE DEF t
<1>2. o \notin ToSet(t.live) /\ ToSet(t.pickable) = ToSet(s.pickable) \ {o}
  BY <1>0, <1>1, SeqsOf, WithoutSet
<1>3. t.picked \in {s.picked, Null} \ {o}
  BY <1>0, <1>1, NullNoObject
<1>4. Good(t)
  BY <1>1, <1>2, <1>3, FreeingIsGood
<1> QED BY <1>4 DEF t

\* DeleteObject, by the program or by the tick: what it leaves of the lists.
LEMMA DeletedIsGood ==
    ASSUME NEW s, Good(s), NEW o \in AllocatedIn(s)
    PROVE  LET t == Deleted(s, o) IN
           /\ Good(t) /\ t.enum = s.enum /\ t.live = Without(s.live, o)
           /\ \A p \in Objects : p # o => t.obj[p] = s.obj[p]
           /\ t.obj[o].memory = "allocated" =>
                t.obj[o].kind = "emitter" /\ t.obj[o].collisions = {}
<1>0. s \in Worlds /\ o \in Objects
  BY DEF Good, AllocatedIn
<1>1. CASE Draining(s, o)
  <2>1. o \in ToSet(s.live)
    <3>1. o \in ToSet(s.live) \cup ToSet(s.rogue)
      BY DEF Good, Chained
    <3>2. o \notin ToSet(s.rogue)
      BY <1>1 DEF Draining, Good, Emitters
    <3> QED BY <3>1, <3>2
  <2>2. Good(Rogue(s, o))
    BY <1>1, <2>1, RogueIsGood DEF Draining
  <2>3. /\ Rogue(s, o).enum = s.enum /\ Rogue(s, o).live = Without(s.live, o)
        /\ Rogue(s, o).obj = [s.obj EXCEPT ![o].stop = TRUE]
    BY <1>0, RogueFields
  <2>4. /\ Rogue(s, o).obj[o].kind = "emitter" /\ Rogue(s, o).obj[o].collisions = {}
        /\ \A p \in Objects : p # o => Rogue(s, o).obj[p] = s.obj[p]
    BY <1>0, <1>1, <2>3, SeqsOf DEF Draining, Good, Emitters, Things
  <2> QED BY <1>1, <2>2, <2>3, <2>4 DEF Deleted
<1>2. CASE ~Draining(s, o)
  <2>1. Good(Freed(s, o))
    BY FreedIsGood
  <2>2. /\ Freed(s, o).enum = s.enum /\ Freed(s, o).live = Without(s.live, o)
        /\ Freed(s, o).obj = [s.obj EXCEPT ![o] = Gone]
    BY <1>0, FreedFields
  <2>3. /\ Freed(s, o).obj[o] = Gone /\ Gone.memory = "freed"
        /\ \A p \in Objects : p # o => Freed(s, o).obj[p] = s.obj[p]
    BY <1>0, <2>2, SeqsOf DEF Gone, NewObject
  <2> QED BY <1>2, <2>1, <2>2, <2>3 DEF Deleted
<1> QED BY <1>1, <1>2

LEMMA EmptyList ==
    ASSUME NEW v, v = <<>>
    PROVE  v \in Seq(Objects) /\ ToSet(v) = {} /\ IsInjective(v) /\ Increasing(v)
<1>1. v \in Seq(Objects) /\ Len(v) = 0 /\ DOMAIN v = {}
  OBVIOUS
<1>2. ToSet(v) = {}
  BY <1>1 DEF ToSet
<1>3. IsInjective(v)
  BY <1>1 DEF IsInjective
<1>4. Increasing(v)
  BY <1>1 DEF Increasing
<1> QED BY <1>1, <1>2, <1>3, <1>4

\* A new object: the first number that is unborn.
Made(s, o, kind) == Registered([s EXCEPT !.obj[o] = NewObject(kind)], o)

\* Entering the new object leaves the registries in order.
LEMMA RegisteredIsGood ==
    ASSUME NEW s, Good(s), NEW o \in Objects, NEW kind \in {"regular", "floor", "emitter"},
           s.obj[o].memory = "unborn", \A p \in 1..(o - 1) : s.obj[p].memory # "unborn"
    PROVE  LET t == Made(s, o, kind) IN
           /\ Good(t) /\ t.enum = s.enum /\ t.live = Append(s.live, o)
           /\ t.obj[o].memory = "allocated" /\ \A p \in Objects : p # o => t.obj[p] = s.obj[p]
<1> DEFINE r == [s EXCEPT !.obj[o] = NewObject(kind)]
           t == Made(s, o, kind)
<1>11. t = Registered(r, o)
  BY DEF Made
<1>0. s \in Worlds
  BY DEF Good
<1>1. /\ r \in Worlds
      /\ r.live = s.live /\ r.floor = s.floor /\ r.regular = s.regular
      /\ r.rogue = s.rogue /\ r.pickable = s.pickable /\ r.picked = s.picked
      /\ r.checks = s.checks /\ r.enum = s.enum
      /\ r.obj[o] = NewObject(kind) /\ \A p \in Objects : p # o => r.obj[p] = s.obj[p]
  <2>1. NewObject(kind) \in Things
    BY NewIsAThing
  <2> QED BY <1>0, <2>1 DEF Worlds
<1>2. NewObject(kind).kind = kind /\ NewObject(kind).memory = "allocated" /\ NewObject(kind).collisions = {}
  BY DEF NewObject
<1> HIDE DEF r
<1>3. /\ t \in Worlds
      /\ t.live = Append(r.live, o)
      /\ t.floor = IF kind = "floor" THEN Append(r.floor, o) ELSE r.floor
      /\ t.regular = IF kind = "floor" THEN r.regular ELSE Append(r.regular, o)
      /\ t.rogue = r.rogue /\ t.pickable = r.pickable /\ t.picked = r.picked
      /\ t.checks = r.checks /\ t.enum = r.enum /\ t.obj = r.obj
  <2>1. /\ Append(r.live, o) \in Seq(Objects) /\ Append(r.floor, o) \in Seq(Objects)
        /\ Append(r.regular, o) \in Seq(Objects)
    BY <1>1, SeqsOf, AppendSet
  <2> QED BY <1>11, <1>1, <1>2, <2>1 DEF Registered, Worlds
<1> HIDE DEF t
<1>4. \A v \in {s.live, s.floor, s.regular, s.rogue} : o \notin ToSet(v)
  <2>1. o \notin AllocatedIn(s)
    BY DEF AllocatedIn
  <2> QED BY <2>1 DEF Good, Chained
<1>5. AllocatedIn(t) = AllocatedIn(s) \cup {o}
  BY <1>1, <1>2, <1>3 DEF AllocatedIn
<1>6. Chained(t)
  <2>1. /\ ToSet(t.live) = ToSet(s.live) \cup {o} /\ IsInjective(t.live)
        /\ t.rogue = s.rogue /\ IsInjective(s.rogue)
    BY <1>0, <1>1, <1>3, <1>4, SeqsOf, AppendSet DEF Good, Chained
  <2>2. /\ kind = "floor" => /\ ToSet(t.floor) = ToSet(s.floor) \cup {o} /\ IsInjective(t.floor)
                            /\ t.regular = s.regular
        /\ kind # "floor" => /\ ToSet(t.regular) = ToSet(s.regular) \cup {o} /\ IsInjective(t.regular)
                            /\ t.floor = s.floor
    BY <1>0, <1>1, <1>3, <1>4, SeqsOf, AppendSet, SMTT(30) DEF Good, Chained
  <2>3. \A p \in AllocatedIn(t) : t.obj[p].kind = IF p = o THEN kind ELSE s.obj[p].kind
    BY <1>1, <1>2, <1>3 DEF AllocatedIn
  <2>4. ToSet(t.live) \cap ToSet(t.rogue) = {} /\ ToSet(t.live) \cup ToSet(t.rogue) = AllocatedIn(t)
    BY <1>4, <1>5, <2>1 DEF Good, Chained
  <2>5. /\ ToSet(s.floor) = {p \in AllocatedIn(s) : s.obj[p].kind = "floor"}
        /\ ToSet(s.regular) = {p \in AllocatedIn(s) : s.obj[p].kind # "floor"}
        /\ IsInjective(s.floor) /\ IsInjective(s.regular) /\ o \notin AllocatedIn(s)
    BY DEF Good, Chained, AllocatedIn
  <2>6. /\ ToSet(t.floor) = {p \in AllocatedIn(t) : t.obj[p].kind = "floor"}
        /\ ToSet(t.regular) = {p \in AllocatedIn(t) : t.obj[p].kind # "floor"}
    BY <1>5, <2>2, <2>3, <2>5
  <2> QED BY <2>1, <2>2, <2>4, <2>5, <2>6 DEF Chained
<1>7. Held(t)
  <2>1. ToSet(t.live) = ToSet(s.live) \cup {o}
    BY <1>0, <1>1, <1>3, SeqsOf, AppendSet
  <2>2. \A p \in Objects : Solid(s, p) => Solid(t, p)
    BY <1>1, <1>3, <1>4, <2>1 DEF Solid
  <2>3. /\ s.picked \in Objects \cup {Null} /\ ToSet(s.pickable) \subseteq Objects
        /\ \A c \in s.checks : c[1] \in Objects /\ (c[2] # Null => c[2] \in Objects)
    BY <1>0, SeqsOf
  <2> QED BY <1>1, <1>3, <2>2, <2>3 DEF Good, Held
<1>8. Emitters(t)
  <2>1. \A p \in ToSet(s.rogue) : p \in Objects /\ p # o
    BY <1>0, <1>4, SeqsOf
  <2> QED BY <1>1, <1>2, <1>3, <2>1 DEF Good, Emitters
<1>9. Births(t)
  <2>1. \A p \in ToSet(s.live) : p < o
    <3> SUFFICES ASSUME NEW p \in ToSet(s.live), p > o PROVE FALSE
      <4>1. o \notin ToSet(s.live) /\ ToSet(s.live) \subseteq Objects /\ Objects \subseteq Int
        BY <1>0, <1>4, SeqsOf, ObjectRegistryAssumption DEF Objects
      <4>2. o \in Int /\ \A p \in ToSet(s.live) : p \in Int /\ p # o
        BY <4>1
      <4> QED BY <4>2
    <3>1. p \in Objects /\ s.obj[p].memory = "allocated"
      BY <1>0, SeqsOf DEF Good, Chained, AllocatedIn
    <3> QED BY <3>1 DEF Good, Births, Objects
  <2>2. Increasing(t.live)
    <3>1. s.live \in Seq(Objects) /\ Increasing(s.live) /\ t.live = Append(s.live, o)
      BY <1>0, <1>1, <1>3, SeqsOf DEF Good, Births
    <3>2. ASSUME NEW m \in 1..Len(s.live) PROVE s.live[m] < o /\ s.live[m] \in Int
      <4>1. s.live[m] \in ToSet(s.live) /\ s.live[m] \in Objects
        BY <3>1 DEF ToSet
      <4> QED BY <2>1, <4>1 DEF Objects
    <3> QED BY <3>1, <3>2 DEF Increasing
  <2>3. ASSUME NEW p \in Objects, NEW q \in Objects, p < q, t.obj[p].memory = "unborn"
        PROVE  t.obj[q].memory = "unborn"
    <3>1. p # o /\ s.obj[p].memory = "unborn"
      BY <1>1, <1>2, <1>3, <2>3
    <3>2. q # o
      BY <2>3, <3>1, ObjectRegistryAssumption DEF Objects
    <3> QED BY <1>1, <1>3, <2>3, <3>1, <3>2 DEF Good, Births
  <2> QED BY <2>2, <2>3 DEF Births
<1>10. /\ t.enum = s.enum /\ t.live = Append(s.live, o)
       /\ t.obj[o].memory = "allocated" /\ \A p \in Objects : p # o => t.obj[p] = s.obj[p]
  BY <1>1, <1>2, <1>3
<1> QED BY <1>3, <1>6, <1>7, <1>8, <1>9, <1>10 DEF Good, t

LEMMA ConcatSet ==
    ASSUME NEW u \in Seq(Objects), NEW v \in Seq(Objects)
    PROVE  /\ u \o v \in Seq(Objects)
           /\ ToSet(u \o v) = ToSet(u) \cup ToSet(v)
           /\ IsInjective(u) /\ IsInjective(v) /\ ToSet(u) \cap ToSet(v) = {}
                => IsInjective(u \o v)
<1> DEFINE x == u \o v
           a == Len(u)
           b == Len(v)
<1>1. /\ x \in Seq(Objects) /\ Len(x) = a + b /\ DOMAIN x = 1..(a + b)
      /\ a \in Nat /\ b \in Nat /\ DOMAIN u = 1..a /\ DOMAIN v = 1..b
  OBVIOUS
<1>2. \A i \in 1..(a + b) : x[i] = IF i <= a THEN u[i] ELSE v[i - a]
  OBVIOUS
<1>3. /\ ToSet(x) = {x[i] : i \in 1..(a + b)}
      /\ ToSet(u) = {u[i] : i \in 1..a} /\ ToSet(v) = {v[i] : i \in 1..b}
  BY <1>1 DEF ToSet
<1> HIDE DEF x, a, b
<1>4. ASSUME NEW i \in 1..(a + b) PROVE x[i] \in ToSet(u) \cup ToSet(v)
  <2>1. CASE i <= a
    BY <1>1, <1>2, <1>3, <2>1
  <2>2. CASE ~(i <= a)
    <3>1. i - a \in 1..b
      BY <1>1, <2>2
    <3> QED BY <1>2, <1>3, <2>2, <3>1
  <2> QED BY <2>1, <2>2
<1>5. ASSUME NEW i \in 1..a PROVE u[i] \in ToSet(x)
  <2>1. i \in 1..(a + b) /\ x[i] = u[i]
    BY <1>1, <1>2
  <2> QED BY <1>3, <2>1
<1>6. ASSUME NEW i \in 1..b PROVE v[i] \in ToSet(x)
  <2>1. a + i \in 1..(a + b) /\ ~(a + i <= a) /\ (a + i) - a = i
    BY <1>1
  <2>2. x[a + i] = v[i]
    BY <1>2, <2>1
  <2> QED BY <1>3, <2>1, <2>2
<1>7. ToSet(x) = ToSet(u) \cup ToSet(v)
  BY <1>3, <1>4, <1>5, <1>6
<1>8. ASSUME IsInjective(u), IsInjective(v), ToSet(u) \cap ToSet(v) = {},
             NEW i \in 1..(a + b), NEW j \in 1..(a + b), x[i] = x[j]
      PROVE  i = j
  <2>1. \A k \in 1..(a + b) : k <= a => k \in 1..a /\ x[k] = u[k] /\ x[k] \in ToSet(u)
    BY <1>1, <1>2, <1>3
  <2>2. ASSUME NEW k \in 1..(a + b), ~(k <= a)
        PROVE  k - a \in 1..b /\ x[k] = v[k - a] /\ x[k] \in ToSet(v)
    <3>1. k - a \in 1..b
      BY <1>1, <2>2
    <3> QED BY <1>2, <1>3, <2>2, <3>1
  <2>3. CASE i <= a /\ j <= a
    BY <1>1, <1>8, <2>1, <2>3 DEF IsInjective
  <2>4. CASE ~(i <= a) /\ ~(j <= a)
    <3>1. i - a = j - a
      BY <1>1, <1>8, <2>2, <2>4 DEF IsInjective
    <3> QED BY <1>1, <3>1
  <2>5. CASE (i <= a) # (j <= a)
    BY <1>8, <2>1, <2>2, <2>5
  <2> QED BY <2>3, <2>4, <2>5
<1>9. IsInjective(u) /\ IsInjective(v) /\ ToSet(u) \cap ToSet(v) = {} => IsInjective(x)
  BY <1>1, <1>8 DEF IsInjective
<1> QED BY <1>1, <1>7, <1>9 DEF x

LEMMA ContainsSet == ASSUME NEW v \in Seq(Objects), NEW o PROVE Contains(v, o) <=> o \in ToSet(v)
<1>1. DOMAIN v = 1..Len(v)
  OBVIOUS
<1> QED BY <1>1 DEF Contains, ToSet

\* ClearObjects.
LEMMA ClearedIsGood ==
    ASSUME NEW s, Good(s)
    PROVE  LET t == Cleared(s) IN
           /\ Good(t) /\ t.live = <<>>
           /\ \A o \in Objects : s.obj[o].memory # "unborn" => t.obj[o].memory # "unborn"
<1> DEFINE obj == [o \in Objects |-> IF Contains(s.live \o s.rogue, o) THEN Gone ELSE s.obj[o]]
           t == Cleared(s)
<1>0. s \in Worlds
  BY DEF Good
<1>1. \A o \in Objects : Contains(s.live \o s.rogue, o) <=> o \in AllocatedIn(s)
  <2>1. /\ s.live \in Seq(Objects) /\ s.rogue \in Seq(Objects)
        /\ ToSet(s.live) \cup ToSet(s.rogue) = AllocatedIn(s)
    BY <1>0, SeqsOf DEF Good, Chained
  <2> QED BY <2>1, ConcatSet, ContainsSet
<1>2. obj \in [Objects -> Things]
  BY <1>0, SeqsOf, GoneIsAThing
<1>3. /\ t \in Worlds
      /\ t.live = <<>> /\ t.floor = <<>> /\ t.regular = <<>> /\ t.rogue = <<>>
      /\ t.pickable = <<>> /\ t.picked = Null /\ t.checks = {} /\ t.obj = obj
  BY <1>0, <1>2, EmptyList DEF Cleared, Worlds
<1> HIDE DEF t
<1>4. \A o \in Objects : t.obj[o] = IF o \in AllocatedIn(s) THEN Gone ELSE s.obj[o]
  BY <1>1, <1>3
<1>5. Gone.memory = "freed" /\ Gone.collisions = {}
  BY DEF Gone, NewObject
<1>6. AllocatedIn(t) = {}
  BY <1>4, <1>5 DEF AllocatedIn
<1>7. Chained(t)
  BY <1>3, <1>6, EmptyList DEF Chained
<1>8. Held(t)
  BY <1>3, EmptyList DEF Held
<1>9. Emitters(t)
  BY <1>3, <1>4, <1>5, EmptyList DEF Good, Emitters
<1>10. Births(t)
  <2>1. \A o \in Objects : t.obj[o].memory = "unborn" <=> s.obj[o].memory = "unborn"
    BY <1>4, <1>5 DEF AllocatedIn
  <2> QED BY <1>3, <2>1, EmptyList DEF Good, Births
<1>11. \A o \in Objects : s.obj[o].memory # "unborn" => t.obj[o].memory # "unborn"
  BY <1>4, <1>5
<1> QED BY <1>3, <1>7, <1>8, <1>9, <1>10, <1>11 DEF Good, t

\* A chain with one object moved to an end of it holds the same, each once.
LEMMA Moved ==
    ASSUME NEW v \in Seq(Objects), NEW o \in Objects, o \in ToSet(v), IsInjective(v),
           NEW u, u \in {Append(Without(v, o), o), <<o>> \o Without(v, o)}
    PROVE  u \in Seq(Objects) /\ ToSet(u) = ToSet(v) /\ IsInjective(u)
<1> DEFINE r == Without(v, o)
<1>1. r \in Seq(Objects) /\ ToSet(r) = ToSet(v) \ {o} /\ IsInjective(r)
  BY WithoutSet, WithoutInjective
<1> HIDE DEF r
<1>2. CASE u = Append(r, o)
  <2>1. o \notin ToSet(r)
    BY <1>1
  <2>2. u \in Seq(Objects) /\ ToSet(u) = ToSet(r) \cup {o} /\ IsInjective(u)
    BY <1>1, <1>2, <2>1, AppendSet
  <2> QED BY <1>1, <2>2
<1>3. CASE u = <<o>> \o r
  <2>1. <<o>> \in Seq(Objects) /\ ToSet(<<o>>) = {o} /\ IsInjective(<<o>>)
    BY DEF ToSet, IsInjective
  <2>2. ToSet(<<o>>) \cap ToSet(r) = {}
    BY <1>1, <2>1
  <2>3. u \in Seq(Objects) /\ ToSet(u) = {o} \cup ToSet(r) /\ IsInjective(u)
    BY <1>1, <1>3, <2>1, <2>2, ConcatSet
  <2> QED BY <1>1, <2>3
<1> QED BY <1>2, <1>3 DEF r

-----------------------------------------------------------------------------
(* The update tick.                                                        *)

\* What the tick may do to the live list: it loses objects and keeps its order.
Shrinks(s, t) ==
  /\ t.enum = s.enum
  /\ \A k \in 1..Len(t.live) : \E a \in 1..Len(s.live) : k <= a /\ t.live[k] = s.live[a]
  /\ \A o \in Objects : s.obj[o].memory # "unborn" => t.obj[o].memory # "unborn"

LEMMA ShrinksOn ==
    ASSUME NEW s \in Worlds, NEW t \in Worlds, NEW u \in Worlds, Shrinks(s, t), Shrinks(t, u)
    PROVE  Shrinks(s, u)
<1>1. u.enum = s.enum /\ \A o \in Objects : s.obj[o].memory # "unborn" => u.obj[o].memory # "unborn"
  BY DEF Shrinks
<1>2. ASSUME NEW k \in 1..Len(u.live)
      PROVE  \E a \in 1..Len(s.live) : k <= a /\ u.live[k] = s.live[a]
  <2>1. PICK b \in 1..Len(t.live) : k <= b /\ u.live[k] = t.live[b]
    BY DEF Shrinks
  <2>2. PICK a \in 1..Len(s.live) : b <= a /\ t.live[b] = s.live[a]
    BY DEF Shrinks
  <2>3. k <= a
    BY <2>1, <2>2
  <2> QED BY <2>1, <2>2, <2>3
<1> QED BY <1>1, <1>2 DEF Shrinks

LEMMA ShrinksSame ==
    ASSUME NEW s \in Worlds, NEW t, t.enum = s.enum, t.live = s.live,
           \A o \in Objects : s.obj[o].memory # "unborn" => t.obj[o].memory # "unborn"
    PROVE  Shrinks(s, t)
<1>1. Len(s.live) \in Nat
  BY SeqsOf
<1> QED BY <1>1 DEF Shrinks

\* One object of the snapshot.
LEMMA AgedIsGood ==
    ASSUME NEW s, Good(s), NEW o \in ToSet(s.live), NEW spawning
    PROVE  LET t == Aged(s, o, spawning) IN
           /\ Good(t) /\ Shrinks(s, t)
           /\ \A p \in Objects : p # o => t.obj[p] = s.obj[p]
           /\ \A p \in ToSet(s.live) : p # o => p \in ToSet(t.live)
           /\ t.obj[o].memory = "allocated" => t.obj[o].collisions = {}
<1> DEFINE a == Animated(s, o, spawning)
           life == IF a.obj[o].life = NoLife THEN NoLife ELSE (a.obj[o].life - 1) % LifeMod
           b == [a EXCEPT !.obj[o].life = life]
           c == [b EXCEPT !.obj[o].collisions = {}]
<1>0. s \in Worlds /\ o \in Objects /\ s.obj[o].memory = "allocated" /\ s.obj[o] \in Things
  BY SeqsOf DEF Good, Chained, AllocatedIn
<1>1. \E n \in Nat : a = s \/ a = [s EXCEPT !.obj[o].particles = n]
  <2>1. ParticleTicks \in Nat
    BY ObjectRegistryAssumption
  <2>2. s.obj[o].particles \in Nat
    BY <1>0 DEF Things
  <2>3. Integrated(s.obj[o].particles) \in Nat
    BY <2>2 DEF Integrated
  <2> QED BY <2>1, <2>3 DEF Animated
<1>2. /\ a \in Worlds /\ a.live = s.live /\ a.enum = s.enum /\ SameRegistries(s, a)
      /\ \A p \in Objects : p # o => a.obj[p] = s.obj[p]
  <2>1. CASE a = s
    BY <1>0, <2>1 DEF SameRegistries, Good, Emitters
  <2>2. CASE \E n \in Nat : a = [s EXCEPT !.obj[o].particles = n]
    <3> HIDE DEF a
    <3>1. PICK n \in Nat : a = [s EXCEPT !.obj[o].particles = n]
      BY <2>2
    <3>2. [s.obj[o] EXCEPT !.particles = n] \in Things
      BY <1>0 DEF Things
    <3>3. /\ a \in Worlds /\ a.live = s.live /\ a.floor = s.floor /\ a.regular = s.regular
          /\ a.rogue = s.rogue /\ a.pickable = s.pickable /\ a.picked = s.picked
          /\ a.checks = s.checks /\ a.enum = s.enum
          /\ a.obj[o] = [s.obj[o] EXCEPT !.particles = n]
          /\ \A p \in Objects : p # o => a.obj[p] = s.obj[p]
      BY <1>0, <3>1, <3>2 DEF Worlds
    <3>4. /\ a.obj[o].kind = s.obj[o].kind /\ a.obj[o].memory = s.obj[o].memory
          /\ a.obj[o].stop = s.obj[o].stop /\ a.obj[o].collisions = s.obj[o].collisions
      BY <1>0, <3>3 DEF Things
    <3>5. \A p \in Objects :
            /\ a.obj[p].kind = s.obj[p].kind /\ a.obj[p].memory = s.obj[p].memory
            /\ a.obj[p].stop = s.obj[p].stop /\ a.obj[p].collisions = s.obj[p].collisions
      BY <3>3, <3>4
    <3>6. \A p \in Objects : s.obj[p].kind = "emitter" => s.obj[p].collisions = {}
      BY DEF Good, Emitters
    <3> QED BY <3>3, <3>5, <3>6 DEF SameRegistries
  <2> QED BY <1>1, <2>1, <2>2
<1> HIDE DEF a
<1>3. life \in Int /\ a.obj[o] \in Things
  <2>1. a.obj[o] \in Things
    BY <1>0, <1>2, SeqsOf
  <2>2. a.obj[o].life \in Int /\ NoLife \in Int /\ LifeMod \in Nat \ {0}
    BY <2>1, ObjectRegistryAssumption DEF Things, NoLife
  <2> QED BY <2>1, <2>2
<1> HIDE DEF life
<1>4. /\ b \in Worlds /\ b.live = s.live /\ b.enum = s.enum /\ SameRegistries(s, b)
      /\ \A p \in Objects : p # o => b.obj[p] = s.obj[p]
  <2>1. [a.obj[o] EXCEPT !.life = life] \in Things
    BY <1>3 DEF Things
  <2>2. /\ b \in Worlds /\ b.live = a.live /\ b.floor = a.floor /\ b.regular = a.regular
        /\ b.rogue = a.rogue /\ b.pickable = a.pickable /\ b.picked = a.picked
        /\ b.checks = a.checks /\ b.enum = a.enum
        /\ b.obj[o] = [a.obj[o] EXCEPT !.life = life]
        /\ \A p \in Objects : p # o => b.obj[p] = a.obj[p]
    BY <1>0, <1>2, <2>1 DEF Worlds
  <2>3. /\ b.obj[o].kind = a.obj[o].kind /\ b.obj[o].memory = a.obj[o].memory
        /\ b.obj[o].stop = a.obj[o].stop /\ b.obj[o].collisions = a.obj[o].collisions
    BY <1>3, <2>2 DEF Things
  <2> QED BY <1>0, <1>2, <2>2, <2>3 DEF SameRegistries
<1> HIDE DEF b
<1>5. Good(b) /\ o \in AllocatedIn(b) /\ b.obj[o] \in Things
  <2>1. Good(b)
    BY <1>4, SameIsGood
  <2>2. o \in AllocatedIn(b)
    BY <1>0, <1>4 DEF SameRegistries, AllocatedIn
  <2> QED BY <1>0, <1>4, <2>1, <2>2, SeqsOf
<1>6. Aged(s, o, spawning) = IF life = 0 THEN Deleted(b, o) ELSE c
  BY DEF Aged, a, b, life
<1>7. CASE life = 0
  <2> DEFINE t == Deleted(b, o)
  <2>1. /\ Good(t) /\ t.enum = b.enum /\ t.live = Without(b.live, o)
        /\ \A p \in Objects : p # o => t.obj[p] = b.obj[p]
        /\ t.obj[o].memory = "allocated" => t.obj[o].collisions = {}
    BY <1>5, DeletedIsGood
  <2> HIDE DEF t
  <2>2. s.live \in Seq(Objects) /\ t.live = Without(s.live, o)
    BY <1>0, <1>4, <2>1, SeqsOf
  <2>3. \A p \in ToSet(s.live) : p # o => p \in ToSet(t.live)
    BY <2>2, WithoutSet
  <2>4. t.obj[o].memory # "unborn"
    <3>1. o \in AllocatedIn(t) \/ o \notin AllocatedIn(t)
      OBVIOUS
    <3>2. Deleted(b, o) \in {Rogue(b, o), Freed(b, o)}
      BY DEF Deleted
    <3>3. Rogue(b, o).obj = [b.obj EXCEPT ![o].stop = TRUE]
      BY <1>0, <1>4, RogueFields
    <3>5. Freed(b, o).obj = [b.obj EXCEPT ![o] = Gone]
      BY <1>0, <1>4, FreedFields
    <3>4. Rogue(b, o).obj[o].memory = "allocated" /\ Freed(b, o).obj[o].memory = "freed"
      BY <1>0, <1>4, <1>5, <3>3, <3>5, SeqsOf DEF AllocatedIn, Things, Gone, NewObject
    <3> QED BY <3>2, <3>4 DEF t
  <2>5. Shrinks(s, t)
    <3>1. \A p \in Objects : s.obj[p].memory # "unborn" => t.obj[p].memory # "unborn"
      BY <1>4, <2>1, <2>4
    <3>2. \A k \in 1..Len(t.live) : \E m \in 1..Len(s.live) : k <= m /\ t.live[k] = s.live[m]
      <4>1. s.live \in Seq(Objects)
        BY <2>2
      <4> QED BY <2>2, <4>1, WithoutStays
    <3> QED BY <1>4, <2>1, <3>1, <3>2 DEF Shrinks
  <2>6. \A p \in Objects : p # o => t.obj[p] = s.obj[p]
    BY <1>4, <2>1
  <2> QED BY <1>6, <1>7, <2>1, <2>3, <2>5, <2>6 DEF t
<1>8. CASE life # 0
  <2>1. [b.obj[o] EXCEPT !.collisions = {}] \in Things
    BY <1>5 DEF Things
  <2>2. /\ c \in Worlds /\ c.live = b.live /\ c.floor = b.floor /\ c.regular = b.regular
        /\ c.rogue = b.rogue /\ c.pickable = b.pickable /\ c.picked = b.picked
        /\ c.checks = b.checks /\ c.enum = b.enum
        /\ c.obj[o] = [b.obj[o] EXCEPT !.collisions = {}]
        /\ \A p \in Objects : p # o => c.obj[p] = b.obj[p]
    BY <1>0, <1>4, <2>1 DEF Worlds
  <2> HIDE DEF c
  <2>3. /\ c.obj[o].kind = b.obj[o].kind /\ c.obj[o].memory = b.obj[o].memory
        /\ c.obj[o].stop = b.obj[o].stop /\ c.obj[o].collisions = {}
    BY <1>5, <2>2 DEF Things
  <2>4. SameRegistries(b, c)
    BY <1>0, <1>5, <2>2, <2>3, ZenonT(60) DEF SameRegistries, Good, Emitters
  <2>5. Good(c)
    BY <1>5, <2>2, <2>4, SameIsGood
  <2>6. \A p \in Objects : c.obj[p].memory = s.obj[p].memory
    BY <1>4, <2>4 DEF SameRegistries
  <2>7. Shrinks(s, c)
    BY <1>0, <1>4, <2>2, <2>6, ShrinksSame
  <2>8. /\ \A p \in Objects : p # o => c.obj[p] = s.obj[p]
        /\ \A p \in ToSet(s.live) : p \in ToSet(c.live)
    BY <1>4, <2>2
  <2> QED BY <1>6, <1>8, <2>3, <2>5, <2>7, <2>8 DEF c
<1> QED BY <1>7, <1>8

LEMMA AllAgedLoop ==
    ASSUME NEW s, Len(s.live) \in Nat, NEW spawning
    PROVE  \E after :
             /\ after[0] = s
             /\ \A i \in 1..Len(s.live) : after[i] = Aged(after[i - 1], s.live[i], spawning)
             /\ AllAged(s, spawning) = after[Len(s.live)]
<1> DEFINE N == Len(s.live)
           step(x, i) == Aged(x, s.live[i], spawning)
           rec(g, n) == g = [i \in 0..n |-> IF i = 0 THEN s ELSE step(g[i - 1], i)]
           T == {n \in Nat : \E g : rec(g, n)}
<1>1. 0 \in T
  <2>1. rec([i \in 0..0 |-> s], 0)
    OBVIOUS
  <2> QED BY <2>1
<1>2. ASSUME NEW n \in 0..(N - 1), n \in T PROVE n + 1 \in T
  <2> HIDE DEF step
  <2>1. PICK g : rec(g, n)
    BY <1>2
  <2> DEFINE h == [i \in 0..(n + 1) |-> IF i <= n THEN g[i] ELSE step(g[n], n + 1)]
  <2>2. \A i \in 0..(n + 1) : h[i] = IF i = 0 THEN s ELSE step(h[i - 1], i)
    BY <2>1
  <2>3. rec(h, n + 1)
    <3> DEFINE e == [i \in 0..(n + 1) |-> IF i = 0 THEN s ELSE step(h[i - 1], i)]
    <3>1. \A i \in 0..(n + 1) : h[i] = e[i]
      BY <2>2
    <3> QED BY <3>1
  <2> HIDE DEF rec
  <2> QED BY <2>3
<1>3. N \in T
  <2> HIDE DEF T
  <2>1. N \in Nat /\ N \in 0..N
    OBVIOUS
  <2>2. \A n \in 0..(N - 1) : n \in T => n + 1 \in T
    BY <1>2
  <2> HIDE DEF N
  <2>3. 0..N \subseteq T
    BY <1>1, <2>1, <2>2, UpTo
  <2> QED BY <2>1, <2>3
<1>4. PICK g : rec(g, N)
  BY <1>3
<1> DEFINE after == CHOOSE g0 : rec(g0, N)
<1>5. rec(after, N)
  BY <1>4
<1>6. AllAged(s, spawning) = after[N]
  BY DEF AllAged
<1>7. after[0] = s /\ \A i \in 1..N : after[i] = step(after[i - 1], i)
  <2>1. N \in Nat /\ \A i \in 1..N : i \in 0..N /\ i # 0
    OBVIOUS
  <2> HIDE DEF after, step, N
  <2>2. after = [i \in 0..N |-> IF i = 0 THEN s ELSE step(after[i - 1], i)]
    BY <1>5
  <2>3. 0 \in 0..N
    BY <2>1
  <2> QED BY <2>1, <2>2, <2>3
<1> QED BY <1>6, <1>7

LEMMA DrainedLoop ==
    ASSUME NEW s, Len(s.rogue) \in Nat
    PROVE  \E after :
             /\ after[0] = s
             /\ \A i \in 1..Len(s.rogue) : after[i] = Drain(after[i - 1], s.rogue[i])
             /\ Drained(s) = after[Len(s.rogue)]
<1> DEFINE N == Len(s.rogue)
           step(x, i) == Drain(x, s.rogue[i])
           rec(g, n) == g = [i \in 0..n |-> IF i = 0 THEN s ELSE step(g[i - 1], i)]
           T == {n \in Nat : \E g : rec(g, n)}
<1>1. 0 \in T
  <2>1. rec([i \in 0..0 |-> s], 0)
    OBVIOUS
  <2> QED BY <2>1
<1>2. ASSUME NEW n \in 0..(N - 1), n \in T PROVE n + 1 \in T
  <2> HIDE DEF step
  <2>1. PICK g : rec(g, n)
    BY <1>2
  <2> DEFINE h == [i \in 0..(n + 1) |-> IF i <= n THEN g[i] ELSE step(g[n], n + 1)]
  <2>2. \A i \in 0..(n + 1) : h[i] = IF i = 0 THEN s ELSE step(h[i - 1], i)
    BY <2>1
  <2>3. rec(h, n + 1)
    <3> DEFINE e == [i \in 0..(n + 1) |-> IF i = 0 THEN s ELSE step(h[i - 1], i)]
    <3>1. \A i \in 0..(n + 1) : h[i] = e[i]
      BY <2>2
    <3> QED BY <3>1
  <2> HIDE DEF rec
  <2> QED BY <2>3
<1>3. N \in T
  <2> HIDE DEF T
  <2>1. N \in Nat /\ N \in 0..N
    OBVIOUS
  <2>2. \A n \in 0..(N - 1) : n \in T => n + 1 \in T
    BY <1>2
  <2> HIDE DEF N
  <2>3. 0..N \subseteq T
    BY <1>1, <2>1, <2>2, UpTo
  <2> QED BY <2>1, <2>3
<1>4. PICK g : rec(g, N)
  BY <1>3
<1> DEFINE after == CHOOSE g0 : rec(g0, N)
<1>5. rec(after, N)
  BY <1>4
<1>6. Drained(s) = after[N]
  BY DEF Drained
<1>7. after[0] = s /\ \A i \in 1..N : after[i] = step(after[i - 1], i)
  <2>1. N \in Nat /\ \A i \in 1..N : i \in 0..N /\ i # 0
    OBVIOUS
  <2> HIDE DEF after, step, N
  <2>2. after = [i \in 0..N |-> IF i = 0 THEN s ELSE step(after[i - 1], i)]
    BY <1>5
  <2>3. 0 \in 0..N
    BY <2>1
  <2> QED BY <2>1, <2>2, <2>3
<1> QED BY <1>6, <1>7

\* The loop over the snapshot: every live object is aged, once.
LEMMA AllAgedIsGood ==
    ASSUME NEW s, Good(s), NEW spawning
    PROVE  LET t == AllAged(s, spawning) IN
           /\ Good(t) /\ Shrinks(s, t)
           /\ \A o \in AllocatedIn(t) : t.obj[o].collisions = {}
<1>0. /\ s \in Worlds /\ s.live \in Seq(Objects) /\ Len(s.live) \in Nat
      /\ DOMAIN s.live = 1..Len(s.live) /\ ToSet(s.live) = {s.live[i] : i \in 1..Len(s.live)}
  <2>1. s \in Worlds /\ s.live \in Seq(Objects)
    BY SeqsOf DEF Good
  <2> QED BY <2>1 DEF ToSet
<1>1. PICK after :
        /\ after[0] = s
        /\ \A i \in 1..Len(s.live) : after[i] = Aged(after[i - 1], s.live[i], spawning)
        /\ AllAged(s, spawning) = after[Len(s.live)]
  BY <1>0, AllAgedLoop
<1> DEFINE P(n, t) ==
      /\ Good(t) /\ Shrinks(s, t)
      /\ \A j \in 1..Len(s.live) : j > n => s.live[j] \in ToSet(t.live)
      /\ \A j \in 1..Len(s.live) : j <= n =>
           (t.obj[s.live[j]].memory = "allocated" => t.obj[s.live[j]].collisions = {})
    T == {n \in 0..Len(s.live) : P(n, after[n])}
<1>2. P(0, after[0])
  <2>1. Shrinks(s, s)
    BY <1>0, ShrinksSame
  <2> QED BY <1>0, <1>1, <2>1
<1>3. ASSUME NEW n \in 0..(Len(s.live) - 1), P(n, after[n]) PROVE P(n + 1, after[n + 1])
  <2> DEFINE t == after[n]
             o == s.live[n + 1]
             u == after[n + 1]
  <2>0. n + 1 \in 1..Len(s.live) /\ n + 1 \in 0..Len(s.live) /\ (n + 1) - 1 = n /\ n + 1 > n
    BY <1>0
  <2>1. u = Aged(t, o, spawning)
    BY <1>1, <2>0
  <2>2. Good(t) /\ Shrinks(s, t) /\ o \in ToSet(t.live) /\ t \in Worlds /\ o \in Objects
    <3>1. Good(t) /\ Shrinks(s, t) /\ o \in ToSet(t.live)
      BY <1>3, <2>0
    <3> QED BY <1>0, <2>0, <3>1 DEF Good
  <2>3. /\ Good(u) /\ Shrinks(t, u)
        /\ \A p \in Objects : p # o => u.obj[p] = t.obj[p]
        /\ \A p \in ToSet(t.live) : p # o => p \in ToSet(u.live)
        /\ u.obj[o].memory = "allocated" => u.obj[o].collisions = {}
    <3> DEFINE r == Aged(t, o, spawning)
    <3> HIDE DEF t, o, u
    <3>1. /\ Good(r) /\ Shrinks(t, r)
          /\ \A p \in Objects : p # o => r.obj[p] = t.obj[p]
          /\ \A p \in ToSet(t.live) : p # o => p \in ToSet(r.live)
          /\ r.obj[o].memory = "allocated" => r.obj[o].collisions = {}
      BY <2>2, AgedIsGood
    <3>2. u = r
      BY <2>1
    <3> HIDE DEF r
    <3> QED BY <3>1, <3>2
  <2>4. Shrinks(s, u)
    <3> HIDE DEF t, u
    <3>1. u \in Worlds
      BY <2>3 DEF Good
    <3> QED BY <1>0, <2>2, <2>3, <3>1, ShrinksOn
  <2>5. \A j \in 1..Len(s.live) : j # n + 1 => s.live[j] # o
    BY <1>0, <2>0 DEF Good, Chained, IsInjective
  <2>6. ASSUME NEW j \in 1..Len(s.live), j > n + 1 PROVE s.live[j] \in ToSet(u.live)
    <3>1. j > n /\ j # n + 1
      BY <1>0, <2>6
    <3>2. s.live[j] \in ToSet(t.live)
      BY <1>3, <3>1
    <3> HIDE DEF o, u
    <3> QED BY <2>3, <2>5, <3>1, <3>2
  <2>7. ASSUME NEW j \in 1..Len(s.live), j <= n + 1, u.obj[s.live[j]].memory = "allocated"
        PROVE  u.obj[s.live[j]].collisions = {}
    <3>1. CASE j = n + 1
      BY <2>3, <2>7, <3>1
    <3>2. CASE j # n + 1
      <4>1. j <= n
        BY <1>0, <2>7, <3>2
      <4>2. u.obj[s.live[j]] = t.obj[s.live[j]]
        BY <1>0, <2>3, <2>5, <3>2
      <4>3. t.obj[s.live[j]].memory = "allocated" => t.obj[s.live[j]].collisions = {}
        BY <1>3, <4>1
      <4> HIDE DEF t, u, o
      <4> QED BY <2>7, <4>2, <4>3
    <3> QED BY <3>1, <3>2
  <2> HIDE DEF t, u, o
  <2>8. P(n + 1, u)
    BY <2>3, <2>4, <2>6, <2>7
  <2> QED BY <2>8 DEF u
<1>4. P(Len(s.live), after[Len(s.live)])
  <2> HIDE DEF P
  <2>1. 0 \in T /\ \A n \in 0..(Len(s.live) - 1) : n \in T => n + 1 \in T
    <3>1. \A n \in 0..(Len(s.live) - 1) : n + 1 \in 0..Len(s.live)
      BY <1>0
    <3> QED BY <1>0, <1>2, <1>3, <3>1
  <2> HIDE DEF T
  <2>2. 0..Len(s.live) \subseteq T
    BY <1>0, <2>1, UpTo
  <2>3. Len(s.live) \in T
    BY <1>0, <2>2
  <2> QED BY <2>3 DEF T
<1> DEFINE t == AllAged(s, spawning)
<1>5. P(Len(s.live), t)
  BY <1>1, <1>4
<1> HIDE DEF t
<1>6. ASSUME NEW o \in AllocatedIn(t) PROVE t.obj[o].collisions = {}
  <2>1. CASE o \in ToSet(s.live)
    <3>1. PICK j \in 1..Len(s.live) : o = s.live[j]
      BY <1>0, <2>1
    <3>2. j <= Len(s.live)
      BY <1>0
    <3> QED BY <1>5, <3>1, <3>2 DEF AllocatedIn
  <2>2. CASE o \notin ToSet(s.live)
    <3>1. t \in Worlds /\ o \in Objects
      BY <1>5 DEF Good, AllocatedIn
    <3>2. DOMAIN t.live = 1..Len(t.live)
      BY <3>1, SeqsOf
    <3>3. o \notin ToSet(t.live)
      BY <1>0, <1>5, <2>2, <3>2, ZenonT(60) DEF Shrinks, ToSet
    <3>4. o \in ToSet(t.rogue)
      BY <1>5, <3>3 DEF Good, Chained
    <3> QED BY <1>5, <3>1, <3>4 DEF Good, Emitters
  <2> QED BY <2>1, <2>2
<1> QED BY <1>5, <1>6 DEF t

\* One draining emitter of the loop, which a vector still holds.
LEMMA DrainIsGood ==
    ASSUME NEW s, Good(s), NEW o \in ToSet(s.rogue)
    PROVE  LET t == Drain(s, o) IN
           /\ Good(t) /\ t.live = s.live /\ t.enum = s.enum
           /\ \A p \in ToSet(s.rogue) : p # o => p \in ToSet(t.rogue)
           /\ \A p \in Objects : /\ s.obj[p].memory # "unborn" => t.obj[p].memory # "unborn"
                                 /\ t.obj[p].memory = "allocated" => s.obj[p].memory = "allocated"
                                 /\ t.obj[p].collisions = {} \/ t.obj[p].collisions = s.obj[p].collisions
<1> DEFINE left == Integrated(s.obj[o].particles)
           gone == [s EXCEPT !.floor = Without(@, o), !.regular = Without(@, o),
                             !.rogue = Without(@, o), !.obj[o] = Gone]
           older == [s EXCEPT !.obj[o].particles = left]
           t == Drain(s, o)
<1>0. s \in Worlds /\ o \in Objects /\ o \in AllocatedIn(s) /\ o \notin ToSet(s.live) /\ s.obj[o] \in Things
  BY SeqsOf DEF Good, Chained
<1>1. left \in Nat
  BY <1>0 DEF Things, Integrated
<1>2. t = IF left = 0 THEN gone ELSE older
  BY DEF Drain
<1> HIDE DEF left, t
<1>3. CASE left = 0
  <2>1. /\ s.rogue \in Seq(Objects) /\ s.floor \in Seq(Objects) /\ s.regular \in Seq(Objects)
        /\ s.obj \in [Objects -> Things]
    BY <1>0, SeqsOf
  <2>2. /\ Without(s.rogue, o) \in Seq(Objects) /\ Without(s.floor, o) \in Seq(Objects)
        /\ Without(s.regular, o) \in Seq(Objects)
    BY <2>1, WithoutSet
  <2>3. [s.obj EXCEPT ![o] = Gone] \in [Objects -> Things]
    BY <2>1, GoneIsAThing
  <2>4. /\ t \in Worlds
        /\ t.live = s.live /\ t.floor = Without(s.floor, o)
        /\ t.regular = Without(s.regular, o) /\ t.rogue = Without(s.rogue, o)
        /\ t.pickable = s.pickable /\ t.picked = s.picked /\ t.checks = s.checks
        /\ t.enum = s.enum /\ t.obj = [s.obj EXCEPT ![o] = Gone]
    BY <1>0, <1>2, <1>3, <2>1, <2>2, <2>3 DEF Worlds
  <2> HIDE DEF gone
  <2>5. \A p \in Objects : Solid(s, p) => p # o
    BY <1>0 DEF Solid
  <2>6. /\ o \notin ToSet(s.pickable) /\ s.picked # o
        /\ \A c \in s.checks : c[1] # o /\ c[2] # o
    BY <1>0, NullNoObject DEF Good, Held, Solid
  <2>7. Good(t)
    <3>1. ToSet(t.pickable) \subseteq ToSet(s.pickable) \ {o} /\ t.picked \in {s.picked, Null} \ {o}
      BY <2>4, <2>6
    <3>2. t.checks \subseteq s.checks /\ \A c \in t.checks : c[1] # o /\ c[2] # o
      BY <2>4, <2>6
    <3> QED BY <1>0, <2>4, <3>1, <3>2, FreeingIsGood
  <2>8. \A p \in ToSet(s.rogue) : p # o => p \in ToSet(t.rogue)
    BY <2>1, <2>4, WithoutSet
  <2>9. /\ t.obj[o] = Gone /\ \A p \in Objects : p # o => t.obj[p] = s.obj[p]
        /\ Gone.memory = "freed" /\ Gone.collisions = {}
    BY <1>0, <2>1, <2>4 DEF Gone, NewObject
  <2> QED BY <2>4, <2>7, <2>8, <2>9 DEF t
<1>4. CASE left # 0
  <2>1. [s.obj[o] EXCEPT !.particles = left] \in Things
    BY <1>0, <1>1 DEF Things
  <2>2. /\ t \in Worlds /\ t.live = s.live /\ t.floor = s.floor /\ t.regular = s.regular
        /\ t.rogue = s.rogue /\ t.pickable = s.pickable /\ t.picked = s.picked
        /\ t.checks = s.checks /\ t.enum = s.enum
        /\ t.obj[o] = [s.obj[o] EXCEPT !.particles = left]
        /\ \A p \in Objects : p # o => t.obj[p] = s.obj[p]
    BY <1>0, <1>2, <1>4, <2>1 DEF Worlds
  <2>3. \A p \in Objects :
          /\ t.obj[p].kind = s.obj[p].kind /\ t.obj[p].memory = s.obj[p].memory
          /\ t.obj[p].stop = s.obj[p].stop /\ t.obj[p].collisions = s.obj[p].collisions
    BY <1>0, <2>2 DEF Things
  <2>4. SameRegistries(s, t)
    BY <2>2, <2>3 DEF SameRegistries, Good, Emitters
  <2>5. Good(t)
    BY <2>2, <2>4, SameIsGood
  <2> QED BY <2>2, <2>3, <2>5 DEF t
<1> QED BY <1>3, <1>4

LEMMA DrainedIsGood ==
    ASSUME NEW s, Good(s), \A o \in AllocatedIn(s) : s.obj[o].collisions = {}
    PROVE  LET t == Drained(s) IN
           /\ Good(t) /\ Shrinks(s, t)
           /\ \A o \in AllocatedIn(t) : t.obj[o].collisions = {}
<1>0. /\ s \in Worlds /\ s.rogue \in Seq(Objects) /\ Len(s.rogue) \in Nat
      /\ DOMAIN s.rogue = 1..Len(s.rogue) /\ ToSet(s.rogue) = {s.rogue[i] : i \in 1..Len(s.rogue)}
  <2>1. s \in Worlds /\ s.rogue \in Seq(Objects)
    BY SeqsOf DEF Good
  <2> QED BY <2>1 DEF ToSet
<1>1. PICK after :
        /\ after[0] = s
        /\ \A i \in 1..Len(s.rogue) : after[i] = Drain(after[i - 1], s.rogue[i])
        /\ Drained(s) = after[Len(s.rogue)]
  BY <1>0, DrainedLoop
<1> DEFINE P(n, t) ==
      /\ Good(t) /\ t.live = s.live /\ t.enum = s.enum
      /\ \A j \in 1..Len(s.rogue) : j > n => s.rogue[j] \in ToSet(t.rogue)
      /\ \A o \in Objects : s.obj[o].memory # "unborn" => t.obj[o].memory # "unborn"
      /\ \A o \in AllocatedIn(t) : t.obj[o].collisions = {}
    T == {n \in 0..Len(s.rogue) : P(n, after[n])}
<1>2. P(0, after[0])
  BY <1>0, <1>1
<1>3. ASSUME NEW n \in 0..(Len(s.rogue) - 1), P(n, after[n]) PROVE P(n + 1, after[n + 1])
  <2> DEFINE t == after[n]
             o == s.rogue[n + 1]
             u == after[n + 1]
  <2>0. n + 1 \in 1..Len(s.rogue) /\ n + 1 \in 0..Len(s.rogue) /\ (n + 1) - 1 = n /\ n + 1 > n
    BY <1>0
  <2>1. u = Drain(t, o)
    BY <1>1, <2>0
  <2>2. Good(t) /\ o \in ToSet(t.rogue) /\ o \in Objects
    BY <1>0, <1>3, <2>0
  <2>3. /\ Good(u) /\ u.live = t.live /\ u.enum = t.enum
        /\ \A p \in ToSet(t.rogue) : p # o => p \in ToSet(u.rogue)
        /\ \A p \in Objects : /\ t.obj[p].memory # "unborn" => u.obj[p].memory # "unborn"
                              /\ u.obj[p].memory = "allocated" => t.obj[p].memory = "allocated"
                              /\ u.obj[p].collisions = {} \/ u.obj[p].collisions = t.obj[p].collisions
    <3> DEFINE r == Drain(t, o)
    <3> HIDE DEF t, o, u
    <3>1. /\ Good(r) /\ r.live = t.live /\ r.enum = t.enum
          /\ \A p \in ToSet(t.rogue) : p # o => p \in ToSet(r.rogue)
          /\ \A p \in Objects : /\ t.obj[p].memory # "unborn" => r.obj[p].memory # "unborn"
                                /\ r.obj[p].memory = "allocated" => t.obj[p].memory = "allocated"
                                /\ r.obj[p].collisions = {} \/ r.obj[p].collisions = t.obj[p].collisions
      BY <2>2, DrainIsGood
    <3>2. u = r
      BY <2>1
    <3> HIDE DEF r
    <3> QED BY <3>1, <3>2
  <2>4. \A j \in 1..Len(s.rogue) : j # n + 1 => s.rogue[j] # o
    BY <1>0, <2>0 DEF Good, Chained, IsInjective
  <2>5. ASSUME NEW j \in 1..Len(s.rogue), j > n + 1 PROVE s.rogue[j] \in ToSet(u.rogue)
    <3>1. j > n /\ j # n + 1
      BY <1>0, <2>5
    <3>2. s.rogue[j] \in ToSet(t.rogue)
      BY <1>3, <3>1
    <3> HIDE DEF o, u
    <3> QED BY <2>3, <2>4, <3>1, <3>2
  <2>6. /\ t.live = s.live /\ t.enum = s.enum
        /\ \A p \in Objects : s.obj[p].memory # "unborn" => t.obj[p].memory # "unborn"
        /\ \A p \in AllocatedIn(t) : t.obj[p].collisions = {}
    BY <1>3
  <2> HIDE DEF t, u, o
  <2>7. \A p \in AllocatedIn(u) : u.obj[p].collisions = {}
    BY <2>3, <2>6 DEF AllocatedIn
  <2>8. P(n + 1, u)
    BY <2>3, <2>5, <2>6, <2>7
  <2> QED BY <2>8 DEF u
<1>4. P(Len(s.rogue), after[Len(s.rogue)])
  <2> HIDE DEF P
  <2>1. 0 \in T /\ \A n \in 0..(Len(s.rogue) - 1) : n \in T => n + 1 \in T
    <3>1. \A n \in 0..(Len(s.rogue) - 1) : n + 1 \in 0..Len(s.rogue)
      BY <1>0
    <3> QED BY <1>0, <1>2, <1>3, <3>1
  <2> HIDE DEF T
  <2>2. 0..Len(s.rogue) \subseteq T
    BY <1>0, <2>1, UpTo
  <2>3. Len(s.rogue) \in T
    BY <1>0, <2>2
  <2> QED BY <2>3 DEF T
<1> DEFINE t == Drained(s)
<1>5. P(Len(s.rogue), t)
  BY <1>1, <1>4
<1> HIDE DEF t
<1>6. Shrinks(s, t)
  BY <1>0, <1>5, ShrinksSame
<1> QED BY <1>5, <1>6 DEF t

\* Contacts are recorded with what the checks hold, which is alive.
LEMMA CollidedIsGood ==
    ASSUME NEW s, Good(s), NEW touching, \A o \in AllocatedIn(s) : s.obj[o].collisions = {}
    PROVE  LET t == Collided(s, touching) IN
           /\ Good(t) /\ t.live = s.live /\ t.enum = s.enum
           /\ \A o \in Objects : t.obj[o].memory = s.obj[o].memory
           /\ \A o \in AllocatedIn(t) : t.obj[o].collisions \ {Null} \subseteq AllocatedIn(t)
<1> DEFINE found(o) == Met(s, o, touching)
           obj == [o \in Objects |-> [s.obj[o] EXCEPT !.collisions = s.obj[o].collisions \cup found(o)]]
           t == Collided(s, touching)
<1>0. s \in Worlds /\ s.obj \in [Objects -> Things]
  BY SeqsOf DEF Good
<1>1. \A o \in Objects : found(o) \subseteq Objects \cup {Null}
  BY <1>0, SeqsOf DEF Met
<1>2. \A o \in Objects : found(o) \ {Null} \subseteq ToSet(s.live)
  BY DEF Good, Held, Solid, Met
<1>3. \A o \in Objects : found(o) # {} => s.obj[o].kind # "emitter"
  BY DEF Good, Held, Solid, Met
<1>6. t = [s EXCEPT !.obj = obj]
  BY DEF Collided
<1> HIDE DEF found
<1>4. \A o \in Objects : /\ obj[o] \in Things
                         /\ obj[o].kind = s.obj[o].kind /\ obj[o].memory = s.obj[o].memory
                         /\ obj[o].stop = s.obj[o].stop
                         /\ obj[o].collisions = s.obj[o].collisions \cup found(o)
  <2> TAKE o \in Objects
  <2>1. s.obj[o] \in Things /\ found(o) \subseteq Objects \cup {Null}
    BY <1>0, <1>1
  <2>2. obj[o] = [s.obj[o] EXCEPT !.collisions = s.obj[o].collisions \cup found(o)]
    OBVIOUS
  <2> HIDE DEF obj
  <2> QED BY <2>1, <2>2 DEF Things
<1>5. obj \in [Objects -> Things]
  BY <1>4
<1> HIDE DEF obj, t
<1>7. /\ t \in Worlds /\ t.live = s.live /\ t.floor = s.floor /\ t.regular = s.regular
      /\ t.rogue = s.rogue /\ t.pickable = s.pickable /\ t.picked = s.picked
      /\ t.checks = s.checks /\ t.enum = s.enum /\ t.obj = obj
  BY <1>0, <1>5, <1>6 DEF Worlds
<1>8. SameRegistries(s, t)
  <2>1. ASSUME NEW o \in Objects, t.obj[o].kind = "emitter" PROVE t.obj[o].collisions = {}
    <3>1. s.obj[o].kind = "emitter" /\ found(o) = {} /\ t.obj[o].collisions = s.obj[o].collisions \cup found(o)
      BY <1>3, <1>4, <1>7, <2>1
    <3> QED BY <3>1 DEF Good, Emitters
  <2> QED BY <1>4, <1>7, <2>1 DEF SameRegistries
<1>9. Good(t)
  BY <1>7, <1>8, SameIsGood
<1>10. AllocatedIn(t) = AllocatedIn(s)
  BY <1>8 DEF SameRegistries, AllocatedIn
<1>11. \A o \in AllocatedIn(t) : t.obj[o].collisions \ {Null} \subseteq AllocatedIn(t)
  <2>1. ToSet(s.live) \subseteq AllocatedIn(s)
    BY DEF Good, Chained
  <2>2. \A o \in AllocatedIn(t) : t.obj[o].collisions = found(o) /\ o \in Objects
    BY <1>4, <1>7, <1>10 DEF AllocatedIn
  <2> QED BY <1>2, <1>10, <2>1, <2>2
<1> QED BY <1>7, <1>8, <1>9, <1>11 DEF t, SameRegistries

LEMMA RearmedIsGood ==
    ASSUME NEW s, Good(s)
    PROVE  LET t == Rearmed(s) IN
           /\ Good(t) /\ t.live = s.live /\ t.enum = s.enum
           /\ \A o \in Objects : /\ t.obj[o].memory = s.obj[o].memory
                                 /\ t.obj[o].collisions = s.obj[o].collisions
<1> DEFINE obj == [o \in Objects |-> IF Contains(s.live, o) THEN [s.obj[o] EXCEPT !.checkCollisions = TRUE]
                                      ELSE s.obj[o]]
           t == Rearmed(s)
<1>0. s \in Worlds /\ s.obj \in [Objects -> Things]
  BY SeqsOf DEF Good
<1>1. \A o \in Objects : /\ obj[o] \in Things
                         /\ obj[o].kind = s.obj[o].kind /\ obj[o].memory = s.obj[o].memory
                         /\ obj[o].stop = s.obj[o].stop /\ obj[o].collisions = s.obj[o].collisions
  <2> TAKE o \in Objects
  <2>1. s.obj[o] \in Things
    BY <1>0
  <2>2. obj[o] \in {s.obj[o], [s.obj[o] EXCEPT !.checkCollisions = TRUE]}
    OBVIOUS
  <2> HIDE DEF obj
  <2> QED BY <2>1, <2>2 DEF Things
<1>2. obj \in [Objects -> Things]
  BY <1>1
<1>3. t = [s EXCEPT !.obj = obj]
  BY DEF Rearmed
<1> HIDE DEF obj, t
<1>4. /\ t \in Worlds /\ t.live = s.live /\ t.floor = s.floor /\ t.regular = s.regular
      /\ t.rogue = s.rogue /\ t.pickable = s.pickable /\ t.picked = s.picked
      /\ t.checks = s.checks /\ t.enum = s.enum /\ t.obj = obj
  BY <1>0, <1>2, <1>3 DEF Worlds
<1>5. SameRegistries(s, t)
  BY <1>1, <1>4 DEF SameRegistries, Good, Emitters
<1>6. Good(t)
  BY <1>4, <1>5, SameIsGood
<1> QED BY <1>1, <1>4, <1>6 DEF t

\* The whole tick.
LEMMA UpdatedIsGood ==
    ASSUME Good(w), NEW spawning, NEW touching
    PROVE  LET t == Updated(spawning, touching) IN
           /\ Good(t) /\ Shrinks(w, t)
           /\ \A o \in AllocatedIn(t) : t.obj[o].collisions \ {Null} \subseteq AllocatedIn(t)
<1> DEFINE a == AllAged(w, spawning)
           d == Drained(a)
           c == Collided(d, touching)
           t == Rearmed(c)
<1>1. Good(a) /\ Shrinks(w, a) /\ \A o \in AllocatedIn(a) : a.obj[o].collisions = {}
  BY AllAgedIsGood
<1> HIDE DEF a
<1>2. Good(d) /\ Shrinks(a, d) /\ \A o \in AllocatedIn(d) : d.obj[o].collisions = {}
  BY <1>1, DrainedIsGood
<1> HIDE DEF d
<1>3. /\ Good(c) /\ c.live = d.live /\ c.enum = d.enum
      /\ \A o \in Objects : c.obj[o].memory = d.obj[o].memory
      /\ \A o \in AllocatedIn(c) : c.obj[o].collisions \ {Null} \subseteq AllocatedIn(c)
  BY <1>2, CollidedIsGood
<1> HIDE DEF c
<1>4. /\ Good(t) /\ t.live = c.live /\ t.enum = c.enum
      /\ \A o \in Objects : /\ t.obj[o].memory = c.obj[o].memory
                            /\ t.obj[o].collisions = c.obj[o].collisions
  BY <1>3, RearmedIsGood
<1> HIDE DEF t
<1>5. w \in Worlds /\ a \in Worlds /\ d \in Worlds /\ t \in Worlds
  BY <1>1, <1>2, <1>4 DEF Good
<1>6. Shrinks(w, t)
  <2>1. Shrinks(d, t)
    BY <1>3, <1>4, <1>5, ShrinksSame
  <2>2. Shrinks(w, d)
    BY <1>1, <1>2, <1>5, ShrinksOn
  <2> QED BY <1>5, <2>1, <2>2, ShrinksOn
<1>7. \A o \in AllocatedIn(t) : t.obj[o].collisions \ {Null} \subseteq AllocatedIn(t)
  BY <1>3, <1>4 DEF AllocatedIn
<1> QED BY <1>4, <1>6, <1>7 DEF Updated, a, d, c, t

-----------------------------------------------------------------------------
(* The invariant and the commands.                                         *)

\* What NextObject has returned was born, in order, and lies before whatever
\* the cursor has ahead of it.
Walked ==
  /\ returned \in Seq(Objects) /\ Increasing(returned)
  /\ \A m \in 1..Len(returned) :
       /\ w.obj[returned[m]].memory # "unborn"
       /\ \A k \in 1..Len(w.live) : k > w.enum => returned[m] < w.live[k]

IInv == Good(w) /\ Walked

\* Every step but InitObjectList and NextObject leaves the walk as it is, and
\* what it puts behind the cursor was behind it or is new.
LEMMA WalkKept ==
    ASSUME IInv, UNCHANGED returned, Good(w)',
           \A o \in Objects : w.obj[o].memory # "unborn" => w'.obj[o].memory # "unborn",
           \A k \in 1..Len(w'.live) : k > w'.enum =>
             \/ w.obj[w'.live[k]].memory = "unborn"
             \/ \E a \in 1..Len(w.live) : a > w.enum /\ w'.live[k] = w.live[a]
    PROVE  IInv'
<1>1. ASSUME NEW m \in 1..Len(returned), NEW k \in 1..Len(w'.live), k > w'.enum
      PROVE  returned[m] < w'.live[k]
  <2>1. returned[m] \in Objects /\ w.obj[returned[m]].memory # "unborn"
    BY DEF IInv, Walked
  <2>2. CASE w.obj[w'.live[k]].memory = "unborn"
    <3>1. w'.live[k] \in Objects
      BY DEF Good, Worlds
    <3>2. ~(w'.live[k] < returned[m]) /\ w'.live[k] # returned[m]
      BY <2>1, <2>2, <3>1 DEF IInv, Good, Births
    <3> QED BY <2>1, <3>1, <3>2, ObjectRegistryAssumption DEF Objects
  <2>3. CASE \E a \in 1..Len(w.live) : a > w.enum /\ w'.live[k] = w.live[a]
    BY <2>3 DEF IInv, Walked
  <2> QED BY <1>1, <2>2, <2>3
<1>2. \A m \in 1..Len(returned) : w'.obj[returned[m]].memory # "unborn"
  BY DEF IInv, Walked
<1> QED BY <1>1, <1>2 DEF IInv, Walked

LEMMA WalkShrinks ==
    ASSUME IInv, UNCHANGED returned, Good(w)', Shrinks(w, w') PROVE IInv'
<1>1. \A o \in Objects : w.obj[o].memory # "unborn" => w'.obj[o].memory # "unborn"
  BY DEF Shrinks
<1>2. ASSUME NEW k \in 1..Len(w'.live), k > w'.enum
      PROVE  \E a \in 1..Len(w.live) : a > w.enum /\ w'.live[k] = w.live[a]
  <2>1. PICK a \in 1..Len(w.live) : k <= a /\ w'.live[k] = w.live[a]
    BY DEF Shrinks
  <2>2. w.enum \in Nat /\ w'.enum = w.enum
    BY SeqsOf DEF IInv, Good, Shrinks
  <2>3. a > w.enum
    BY <1>2, <2>1, <2>2
  <2> QED BY <2>1, <2>3
<1> QED BY <1>1, <1>2, WalkKept

\* A command that touches neither the live list nor the memory.
LEMMA WalkSame ==
    ASSUME IInv, UNCHANGED returned, w' \in Worlds, SameRegistries(w, w'), w'.enum = w.enum
    PROVE  IInv'
<1>1. w \in Worlds /\ Good(w')
  BY SameIsGood DEF IInv, Good
<1>2. Shrinks(w, w')
  BY <1>1, ShrinksSame DEF SameRegistries
<1> QED BY <1>1, <1>2, WalkShrinks

LEMMA MakeStep == ASSUME IInv, NEW kind \in Kinds, Make(kind) PROVE IInv'
<1>1. kind \in {"regular", "floor", "emitter"}
  BY ObjectRegistryAssumption
<1>2. PICK o \in Objects :
        /\ w.obj[o].memory = "unborn"
        /\ \A p \in 1..(o - 1) : w.obj[p].memory # "unborn"
        /\ w' = Made(w, o, kind)
        /\ UNCHANGED returned
  BY DEF Make, Made
<1> DEFINE t == Made(w, o, kind)
<1>4. /\ Good(t) /\ t.enum = w.enum /\ t.live = Append(w.live, o)
      /\ t.obj[o].memory = "allocated" /\ \A p \in Objects : p # o => t.obj[p] = w.obj[p]
  <2>1. /\ Good(w) /\ w.obj[o].memory = "unborn"
        /\ \A p \in 1..(o - 1) : w.obj[p].memory # "unborn"
    BY <1>2 DEF IInv
  <2> QED BY <1>1, <2>1, RegisteredIsGood
<1>5. w' = t
  BY <1>2
<1> HIDE DEF t
<1>6. w.live \in Seq(Objects) /\ Len(w.live) \in Nat /\ w.enum \in Nat
  BY SeqsOf DEF IInv, Good
<1>7. ASSUME NEW k \in 1..Len(w'.live), k > w'.enum
      PROVE  \/ w.obj[w'.live[k]].memory = "unborn"
             \/ \E a \in 1..Len(w.live) : a > w.enum /\ w'.live[k] = w.live[a]
  <2>1. k \in 1..(Len(w.live) + 1) /\ w'.live = Append(w.live, o) /\ w'.enum = w.enum
    BY <1>4, <1>5, <1>6
  <2>2. CASE k = Len(w.live) + 1
    BY <1>2, <1>6, <2>1, <2>2
  <2>3. CASE k \in 1..Len(w.live)
    BY <1>6, <1>7, <2>1, <2>3
  <2> QED BY <1>6, <2>1, <2>2, <2>3
<1> QED BY <1>2, <1>4, <1>5, <1>7, WalkKept

LEMMA DeleteStep == ASSUME IInv, NEW o \in Objects, DeleteObject(o) PROVE IInv'
<1> DEFINE t == Deleted(w, o)
<1>1. o \in AllocatedIn(w) /\ w' = t /\ UNCHANGED returned
  BY DEF DeleteObject, Allocated, AllocatedIn
<1>2. /\ Good(t) /\ t.enum = w.enum /\ t.live = Without(w.live, o)
      /\ \A p \in Objects : p # o => t.obj[p] = w.obj[p]
  BY <1>1, DeletedIsGood DEF IInv
<1>3. t.obj[o].memory # "unborn"
  <2>1. w \in Worlds /\ w.obj[o].memory = "allocated" /\ w.obj[o] \in Things /\ w.obj \in [Objects -> Things]
    BY <1>1, SeqsOf DEF IInv, Good, AllocatedIn
  <2>2. Rogue(w, o).obj = [w.obj EXCEPT ![o].stop = TRUE]
    BY <2>1, RogueFields
  <2>3. Freed(w, o).obj = [w.obj EXCEPT ![o] = Gone] /\ Gone.memory = "freed"
    BY <2>1, FreedFields DEF Gone, NewObject
  <2>4. Rogue(w, o).obj[o].memory = "allocated" /\ Freed(w, o).obj[o].memory = "freed"
    BY <2>1, <2>2, <2>3 DEF Things
  <2> QED BY <2>4 DEF Deleted
<1> HIDE DEF t
<1>4. Shrinks(w, w')
  <2>1. w.live \in Seq(Objects)
    BY SeqsOf DEF IInv, Good
  <2>2. \A k \in 1..Len(t.live) : \E a \in 1..Len(w.live) : k <= a /\ t.live[k] = w.live[a]
    BY <1>2, <2>1, WithoutStays
  <2> QED BY <1>1, <1>2, <1>3, <2>2 DEF Shrinks
<1> QED BY <1>1, <1>2, <1>4, WalkShrinks

LEMMA ClearStep == ASSUME IInv, ClearObjects PROVE IInv'
<1> DEFINE t == Cleared(w)
<1>1. w' = t /\ UNCHANGED returned
  BY DEF ClearObjects
<1>2. /\ Good(t) /\ t.live = <<>>
      /\ \A o \in Objects : w.obj[o].memory # "unborn" => t.obj[o].memory # "unborn"
  BY ClearedIsGood DEF IInv
<1> HIDE DEF t
<1> QED BY <1>1, <1>2, WalkKept

LEMMA OrderStep == ASSUME IInv, NEW o \in Objects, NEW d \in {1, -1}, ObjectOrder(o, d) PROVE IInv'
<1>0. /\ w \in Worlds /\ w.floor \in Seq(Objects) /\ w.regular \in Seq(Objects)
      /\ IsInjective(w.floor) /\ IsInjective(w.regular)
  BY SeqsOf DEF IInv, Good, Chained
<1> DEFINE moved(v) == IF ~Contains(v, o) THEN v
                       ELSE IF d = 1 THEN Append(Without(v, o), o) ELSE <<o>> \o Without(v, o)
<1>1. ASSUME NEW v \in Seq(Objects), IsInjective(v)
      PROVE  moved(v) \in Seq(Objects) /\ ToSet(moved(v)) = ToSet(v) /\ IsInjective(moved(v))
  <2>1. CASE ~Contains(v, o)
    BY <1>1, <2>1
  <2>2. CASE Contains(v, o)
    <3>1. o \in ToSet(v)
      BY <2>2, ContainsSet
    <3>2. moved(v) \in {Append(Without(v, o), o), <<o>> \o Without(v, o)}
      BY <2>2
    <3> HIDE DEF moved
    <3> QED BY <1>1, <3>1, <3>2, Moved
  <2> QED BY <2>1, <2>2
<1>2. /\ w' = IF Chain(o) = "floor" THEN [w EXCEPT !.floor = moved(w.floor)]
               ELSE [w EXCEPT !.regular = moved(w.regular)]
      /\ UNCHANGED returned
  BY DEF ObjectOrder
<1> HIDE DEF moved
<1>3. /\ w' \in Worlds /\ w'.live = w.live /\ w'.rogue = w.rogue /\ w'.pickable = w.pickable
      /\ w'.picked = w.picked /\ w'.checks = w.checks /\ w'.enum = w.enum /\ w'.obj = w.obj
      /\ w'.floor \in {w.floor, moved(w.floor)} /\ w'.regular \in {w.regular, moved(w.regular)}
  <2>1. moved(w.floor) \in Seq(Objects) /\ moved(w.regular) \in Seq(Objects)
    BY <1>0, <1>1
  <2> QED BY <1>0, <1>2, <2>1 DEF Worlds
<1>4. /\ ToSet(w'.floor) = ToSet(w.floor) /\ ToSet(w'.regular) = ToSet(w.regular)
      /\ IsInjective(w'.floor) /\ IsInjective(w'.regular)
  BY <1>0, <1>1, <1>3
<1>5. Good(w')
  <2>1. Chained(w')
    BY <1>3, <1>4 DEF IInv, Good, Chained, AllocatedIn
  <2>2. Held(w') /\ Emitters(w') /\ Births(w')
    BY <1>3 DEF IInv, Good, Held, Solid, Emitters, Births
  <2> QED BY <1>3, <2>1, <2>2 DEF Good
<1>6. Shrinks(w, w')
  BY <1>0, <1>3, ShrinksSame
<1> QED BY <1>2, <1>5, <1>6, WalkShrinks

\* ObjectLife, ShowObject and ResetObjectCollision set fields of one object.
LEMMA FieldStep ==
    ASSUME IInv, NEW o \in Objects, NEW thing \in Things,
           w' = [w EXCEPT !.obj[o] = thing], UNCHANGED returned,
           thing.kind = w.obj[o].kind, thing.memory = w.obj[o].memory,
           thing.stop = w.obj[o].stop, thing.collisions \in {{}, w.obj[o].collisions}
    PROVE  IInv'
<1>1. /\ w' \in Worlds
      /\ w'.live = w.live /\ w'.floor = w.floor /\ w'.regular = w.regular
      /\ w'.rogue = w.rogue /\ w'.pickable = w.pickable /\ w'.picked = w.picked
      /\ w'.checks = w.checks /\ w'.enum = w.enum
      /\ w'.obj[o] = thing /\ \A p \in Objects : p # o => w'.obj[p] = w.obj[p]
  <2>1. w \in Worlds
    BY DEF IInv, Good
  <2> QED BY <2>1 DEF Worlds
<1>2. SameRegistries(w, w')
  BY <1>1 DEF SameRegistries, IInv, Good, Emitters
<1> QED BY <1>1, <1>2, WalkSame

LEMMA FieldSteps ==
    ASSUME IInv, NEW o \in Objects,
           \/ \E n \in 0..(LifeMod - 1) : ObjectLife(o, n)
           \/ \E v \in BOOLEAN : ShowObject(o, v)
           \/ ResetObjectCollision(o)
    PROVE  IInv'
<1>0. w \in Worlds /\ w.obj \in [Objects -> Things] /\ w.obj[o] \in Things
  BY SeqsOf DEF IInv, Good
<1>1. ASSUME NEW n \in 0..(LifeMod - 1), ObjectLife(o, n) PROVE IInv'
  <2> DEFINE thing == [w.obj[o] EXCEPT !.life = n]
  <2>1. n \in Int
    BY ObjectRegistryAssumption
  <2>2. /\ thing \in Things /\ thing.kind = w.obj[o].kind /\ thing.memory = w.obj[o].memory
        /\ thing.stop = w.obj[o].stop /\ thing.collisions = w.obj[o].collisions
    BY <1>0, <2>1 DEF Things
  <2>3. w' = [w EXCEPT !.obj[o] = thing] /\ UNCHANGED returned
    BY <1>1 DEF ObjectLife
  <2> HIDE DEF thing
  <2> QED BY <2>2, <2>3, FieldStep
<1>2. ASSUME NEW v \in BOOLEAN, ShowObject(o, v) PROVE IInv'
  <2> DEFINE thing == [w.obj[o] EXCEPT !.visible = v]
  <2>2. /\ thing \in Things /\ thing.kind = w.obj[o].kind /\ thing.memory = w.obj[o].memory
        /\ thing.stop = w.obj[o].stop /\ thing.collisions = w.obj[o].collisions
    BY <1>0 DEF Things
  <2>3. w' = [w EXCEPT !.obj[o] = thing] /\ UNCHANGED returned
    BY <1>2 DEF ShowObject
  <2> HIDE DEF thing
  <2> QED BY <2>2, <2>3, FieldStep
<1>3. CASE ResetObjectCollision(o)
  <2> DEFINE thing == [[w.obj[o] EXCEPT !.checkCollisions = FALSE] EXCEPT !.collisions = {}]
  <2>2. /\ thing \in Things /\ thing.kind = w.obj[o].kind /\ thing.memory = w.obj[o].memory
        /\ thing.stop = w.obj[o].stop /\ thing.collisions = {}
    BY <1>0 DEF Things
  <2>3. w' = [w EXCEPT !.obj[o] = thing] /\ UNCHANGED returned
    BY <1>0, <1>3 DEF ResetObjectCollision, Worlds
  <2> HIDE DEF thing
  <2> QED BY <2>2, <2>3, FieldStep
<1> QED BY <1>1, <1>2, <1>3

\* Commands that change which live objects the registries point at.
LEMMA PointStep ==
    ASSUME IInv, UNCHANGED returned, w' \in Worlds, Held(w'),
           w'.live = w.live, w'.floor = w.floor, w'.regular = w.regular,
           w'.rogue = w.rogue, w'.obj = w.obj, w'.enum = w.enum
    PROVE  IInv'
<1>1. Good(w')
  BY DEF IInv, Good, Chained, AllocatedIn, Emitters, Births
<1>2. Shrinks(w, w')
  BY ShrinksSame DEF IInv, Good
<1> QED BY <1>1, <1>2, WalkShrinks

LEMMA AliveOrRogue ==
    ASSUME IInv, NEW o \in Allocated, w.obj[o].kind # "emitter" PROVE Solid(w, o)
BY DEF IInv, Good, Chained, Emitters, Allocated, AllocatedIn, Solid

LEMMA PickableStep == ASSUME IInv, NEW o \in Objects, NEW style \in 0..1, ObjectPickable(o, style) PROVE IInv'
<1>0. w \in Worlds /\ w.pickable \in Seq(Objects) /\ Held(w)
  BY SeqsOf DEF IInv, Good
<1>1. /\ Solid(w, o) /\ UNCHANGED returned
      /\ w' = [w EXCEPT !.pickable = IF style = 0 THEN Without(w.pickable, o)
                                     ELSE IF Contains(w.pickable, o) THEN w.pickable
                                     ELSE Append(w.pickable, o)]
  BY AliveOrRogue DEF ObjectPickable
<1>2. /\ Without(w.pickable, o) \in Seq(Objects) /\ Append(w.pickable, o) \in Seq(Objects)
      /\ ToSet(Without(w.pickable, o)) = ToSet(w.pickable) \ {o}
      /\ ToSet(Append(w.pickable, o)) = ToSet(w.pickable) \cup {o}
  BY <1>0, WithoutSet, AppendSet
<1>3. /\ w' \in Worlds /\ w'.live = w.live /\ w'.floor = w.floor /\ w'.regular = w.regular
      /\ w'.rogue = w.rogue /\ w'.obj = w.obj /\ w'.enum = w.enum
      /\ w'.picked = w.picked /\ w'.checks = w.checks
      /\ w'.pickable \in {w.pickable, Without(w.pickable, o), Append(w.pickable, o)}
  BY <1>0, <1>1, <1>2 DEF Worlds
<1>4. ToSet(w'.pickable) \subseteq ToSet(w.pickable) \cup {o}
  BY <1>2, <1>3
<1>5. Held(w')
  BY <1>0, <1>1, <1>3, <1>4 DEF Held, Solid
<1> QED BY <1>1, <1>3, <1>5, PointStep

LEMMA PickStep == ASSUME IInv, NEW o \in Objects, NEW hit \in Objects \cup {Null}, ObjectPick(o, hit) PROVE IInv'
<1>0. w \in Worlds /\ w.pickable \in Seq(Objects) /\ Held(w)
  BY SeqsOf DEF IInv, Good
<1>1. UNCHANGED returned /\ w' = [w EXCEPT !.picked = hit] /\ (hit = Null \/ Solid(w, hit))
  <2>1. hit = Null \/ Contains(w.pickable, hit)
    BY DEF ObjectPick
  <2>2. hit = Null \/ hit \in ToSet(w.pickable)
    BY <1>0, <2>1, ContainsSet
  <2> QED BY <1>0, <2>2 DEF ObjectPick, Held
<1>2. /\ w' \in Worlds /\ w'.live = w.live /\ w'.floor = w.floor /\ w'.regular = w.regular
      /\ w'.rogue = w.rogue /\ w'.obj = w.obj /\ w'.enum = w.enum
      /\ w'.picked = hit /\ w'.checks = w.checks /\ w'.pickable = w.pickable
  BY <1>0, <1>1 DEF Worlds
<1>3. Held(w')
  BY <1>0, <1>1, <1>2 DEF Held, Solid
<1> QED BY <1>1, <1>2, <1>3, PointStep

LEMMA CollisionStep ==
    ASSUME IInv, \/ \E a \in Objects, b \in Objects \cup {Null} : SetupCollision(a, b)
                 \/ ClearCollisions
    PROVE  IInv'
<1>0. w \in Worlds /\ Held(w) /\ w.checks \in SUBSET (Objects \X (Objects \cup {Null}))
  BY SeqsOf DEF IInv, Good
<1>1. PICK C \in SUBSET (Objects \X (Objects \cup {Null})) :
        /\ w' = [w EXCEPT !.checks = C] /\ UNCHANGED returned
        /\ \A c \in C : Solid(w, c[1]) /\ (c[2] # Null => Solid(w, c[2]))
  <2>1. CASE ClearCollisions
    <3>1. w' = [w EXCEPT !.checks = {}] /\ UNCHANGED returned
      BY <2>1 DEF ClearCollisions
    <3>2. {} \in SUBSET (Objects \X (Objects \cup {Null}))
      OBVIOUS
    <3> QED BY <3>1, <3>2
  <2>2. ASSUME NEW a \in Objects, NEW b \in Objects \cup {Null}, SetupCollision(a, b)
        PROVE  /\ w.checks \cup {<<a, b>>} \in SUBSET (Objects \X (Objects \cup {Null}))
               /\ w' = [w EXCEPT !.checks = w.checks \cup {<<a, b>>}] /\ UNCHANGED returned
               /\ \A c \in w.checks \cup {<<a, b>>} : Solid(w, c[1]) /\ (c[2] # Null => Solid(w, c[2]))
    <3>1. Solid(w, a) /\ (b # Null => Solid(w, b))
      BY <2>2, AliveOrRogue DEF SetupCollision
    <3> QED BY <1>0, <2>2, <3>1 DEF SetupCollision, Held
  <2> QED BY <2>1, <2>2
<1>2. /\ w' \in Worlds /\ w'.live = w.live /\ w'.floor = w.floor /\ w'.regular = w.regular
      /\ w'.rogue = w.rogue /\ w'.obj = w.obj /\ w'.enum = w.enum
      /\ w'.picked = w.picked /\ w'.checks = C /\ w'.pickable = w.pickable
  BY <1>0, <1>1 DEF Worlds
<1>3. Held(w')
  BY <1>0, <1>1, <1>2 DEF Held, Solid
<1> QED BY <1>1, <1>2, <1>3, PointStep

LEMMA EnumFields ==
    ASSUME IInv, NEW n \in Nat, w' = [w EXCEPT !.enum = n]
    PROVE  /\ Good(w') /\ w'.live = w.live /\ w'.enum = n /\ w'.obj = w.obj
<1>1. w \in Worlds
  BY DEF IInv, Good
<1>2. /\ w' \in Worlds /\ w'.live = w.live /\ w'.floor = w.floor /\ w'.regular = w.regular
      /\ w'.rogue = w.rogue /\ w'.obj = w.obj /\ w'.enum = n
      /\ w'.picked = w.picked /\ w'.checks = w.checks /\ w'.pickable = w.pickable
  BY <1>1 DEF Worlds
<1>3. SameRegistries(w, w')
  BY <1>2 DEF SameRegistries, IInv, Good, Emitters
<1> QED BY <1>2, <1>3, SameIsGood DEF IInv

LEMMA ListStep == ASSUME IInv, InitObjectList \/ NextObject PROVE IInv'
<1>1. CASE InitObjectList
  <2>1. w' = [w EXCEPT !.enum = 0] /\ returned' = <<>>
    BY <1>1 DEF InitObjectList
  <2>2. Good(w')
    BY <2>1, EnumFields
  <2>3. returned' \in Seq(Objects) /\ Increasing(returned') /\ Len(returned') = 0
    BY <2>1, EmptyList
  <2> QED BY <2>2, <2>3 DEF IInv, Walked
<1>2. CASE NextObject
  <2> DEFINE o == w.live[w.enum + 1]
  <2>0. /\ w.live \in Seq(Objects) /\ Len(w.live) \in Nat /\ w.enum \in Nat /\ w.enum < Len(w.live)
        /\ w.enum + 1 \in 1..Len(w.live) /\ o \in Objects /\ o \in ToSet(w.live) /\ Objects \subseteq Int
    <3>1. /\ w.live \in Seq(Objects) /\ Len(w.live) \in Nat /\ w.enum \in Nat /\ w.enum < Len(w.live)
      BY <1>2, SeqsOf DEF IInv, Good, NextObject
    <3>2. w.enum + 1 \in 1..Len(w.live)
      BY <3>1
    <3>3. o \in Objects /\ DOMAIN w.live = 1..Len(w.live)
      BY <3>1, <3>2
    <3>4. o \in ToSet(w.live)
      BY <3>2, <3>3 DEF ToSet
    <3>5. Objects \subseteq Int
      BY ObjectRegistryAssumption DEF Objects
    <3> QED BY <3>1, <3>2, <3>3, <3>4, <3>5
  <2>1. w' = [w EXCEPT !.enum = w.enum + 1] /\ returned' = Append(returned, o)
    BY <1>2 DEF NextObject
  <2>2. Good(w') /\ w'.live = w.live /\ w'.enum = w.enum + 1 /\ w'.obj = w.obj
    BY <2>0, <2>1, EnumFields
  <2>3. o \in Objects /\ w.obj[o].memory # "unborn"
    BY <2>0 DEF IInv, Good, Chained, AllocatedIn
  <2>4. \A m \in 1..Len(returned) : returned[m] < o
    BY <2>0 DEF IInv, Walked
  <2>5. \A k \in 1..Len(w.live) : k > w.enum + 1 => o < w.live[k]
    BY <2>0 DEF IInv, Good, Births, Increasing
  <2>6. /\ returned \in Seq(Objects) /\ Len(returned) \in Nat /\ Len(returned') = Len(returned) + 1
        /\ \A m \in 1..Len(returned) : returned'[m] = returned[m]
        /\ returned'[Len(returned) + 1] = o /\ returned' \in Seq(Objects)
    BY <2>1, <2>3 DEF IInv, Walked
  <2>7. \A m \in 1..Len(returned') : m \in 1..Len(returned) \/ m = Len(returned) + 1
    BY <2>6
  <2> HIDE DEF o
  <2>8. Increasing(returned')
    <3> SUFFICES ASSUME NEW m \in 1..Len(returned'), NEW n \in 1..Len(returned'), m < n
                 PROVE  returned'[m] < returned'[n]
      BY DEF Increasing
    <3>1. m \in 1..Len(returned)
      BY <2>6, <2>7
    <3>2. CASE n = Len(returned) + 1
      BY <2>4, <2>6, <3>1, <3>2
    <3>3. CASE n \in 1..Len(returned)
      BY <2>6, <3>1, <3>3 DEF IInv, Walked, Increasing
    <3> QED BY <2>7, <3>2, <3>3
  <2>9. ASSUME NEW m \in 1..Len(returned')
        PROVE  /\ w'.obj[returned'[m]].memory # "unborn"
               /\ \A k \in 1..Len(w'.live) : k > w'.enum => returned'[m] < w'.live[k]
    <3>1. CASE m = Len(returned) + 1
      BY <2>2, <2>3, <2>5, <2>6, <3>1
    <3>2. CASE m \in 1..Len(returned)
      <4>1. \A k \in 1..Len(w.live) : k > w.enum + 1 => k > w.enum
        BY <2>0
      <4> QED BY <2>2, <2>6, <3>2, <4>1 DEF IInv, Walked
    <3> QED BY <2>7, <3>1, <3>2
  <2> QED BY <2>2, <2>6, <2>8, <2>9 DEF IInv, Walked
<1> QED BY <1>1, <1>2

LEMMA UpdateStep == ASSUME IInv, UpdateAll PROVE IInv'
<1>1. PICK spawning, touching : w' = Updated(spawning, touching) /\ UNCHANGED returned
  BY DEF UpdateAll
<1>2. Good(w') /\ Shrinks(w, w')
  BY <1>1, UpdatedIsGood DEF IInv
<1> QED BY <1>1, <1>2, WalkShrinks

LEMMA CommandStep == ASSUME IInv, Command PROVE IInv'
<1>1. CASE \E kind \in Kinds : Make(kind)
  BY <1>1, MakeStep
<1>2. CASE \E o \in Objects : DeleteObject(o)
  BY <1>2, DeleteStep
<1>3. CASE ClearObjects
  BY <1>3, ClearStep
<1>4. CASE \E o \in Objects, d \in {1, -1} : ObjectOrder(o, d)
  BY <1>4, OrderStep
<1>5. CASE \E o \in Objects : \/ \E n \in 0..(LifeMod - 1) : ObjectLife(o, n)
                              \/ \E v \in BOOLEAN : ShowObject(o, v)
                              \/ ResetObjectCollision(o)
  BY <1>5, FieldSteps
<1>6. CASE \E o \in Objects, style \in 0..1 : ObjectPickable(o, style)
  BY <1>6, PickableStep
<1>7. CASE \E o \in Objects, hit \in Objects \cup {Null} : ObjectPick(o, hit)
  BY <1>7, PickStep
<1>8. CASE \/ \E a \in Objects, b \in Objects \cup {Null} : SetupCollision(a, b)
           \/ ClearCollisions
  BY <1>8, CollisionStep
<1>9. CASE InitObjectList \/ NextObject
  BY <1>9, ListStep
<1> QED BY <1>1, <1>2, <1>3, <1>4, <1>5, <1>6, <1>7, <1>8, <1>9 DEF Command

LEMMA StutterStep == ASSUME IInv, UNCHANGED vars PROVE IInv'
BY DEF IInv, Walked, vars

LEMMA InitIInv == ASSUME Init PROVE IInv
<1>1. /\ w.live = <<>> /\ w.floor = <<>> /\ w.regular = <<>> /\ w.rogue = <<>>
      /\ w.pickable = <<>> /\ w.picked = Null /\ w.checks = {} /\ w.enum = 0
      /\ w.obj = [o \in Objects |-> Unborn] /\ returned = <<>>
  BY DEF Init
<1>2. Unborn \in Things /\ Unborn.memory = "unborn" /\ Unborn.collisions = {}
  BY NewIsAThing DEF Unborn, Things, NewObject
<1>3. w \in Worlds
  <2>1. <<>> \in Seq(Objects) /\ [o \in Objects |-> Unborn] \in [Objects -> Things]
    BY <1>2
  <2> QED BY <2>1 DEF Init, Worlds
<1>4. AllocatedIn(w) = {}
  BY <1>1, <1>2 DEF AllocatedIn
<1>5. Chained(w)
  BY <1>1, <1>4, EmptyList DEF Chained
<1>6. Held(w)
  BY <1>1, EmptyList DEF Held
<1>7. Emitters(w)
  BY <1>1, <1>2, EmptyList DEF Emitters
<1>8. Births(w)
  BY <1>1, <1>2, EmptyList DEF Births
<1>9. Walked
  <2>1. returned \in Seq(Objects) /\ Increasing(returned) /\ Len(returned) = 0
    BY <1>1, EmptyList
  <2> QED BY <2>1 DEF Walked
<1> QED BY <1>3, <1>5, <1>6, <1>7, <1>8, <1>9 DEF IInv, Good

(* The invariant holds in every reachable state.                            *)
THEOREM Invariant == Spec => []IInv
<1>1. Init => IInv
  BY InitIInv
<1>2. IInv /\ [Next]_vars => IInv'
  BY CommandStep, UpdateStep, StutterStep DEF Next
<1> QED
  BY <1>1, <1>2, PTL DEF Spec

LEMMA ExactFromInv == ASSUME Good(w) PROVE RegistriesExact
<1>0. w \in Worlds
  BY DEF Good
<1>1. ChainsExact
  <2>1. Allocated = AllocatedIn(w)
    BY DEF Allocated, AllocatedIn
  <2>2. \A o \in AllocatedIn(w) : Chain(o) = IF w.obj[o].kind = "floor" THEN "floor" ELSE "regular"
    BY DEF Chain
  <2>3. /\ {o \in Allocated : Chain(o) = "floor"} = {o \in AllocatedIn(w) : w.obj[o].kind = "floor"}
        /\ {o \in Allocated : Chain(o) = "regular"} = {o \in AllocatedIn(w) : w.obj[o].kind # "floor"}
    BY <2>1, <2>2
  <2> QED BY <2>1, <2>3 DEF Good, Chained, ChainsExact
<1>2. RegistriesValid
  BY DEF RegistriesValid, Good, Held, Solid
<1> QED BY <1>1, <1>2 DEF RegistriesExact

(* Whatever is deleted from where, aged, drained, moved or cleared, no registry
   points at freed memory and the draw chains hold exactly what is allocated
   (cb_object.cpp, "exactly one draw chain").                               *)
THEOREM RegistriesStayExact == Spec => []RegistriesExact
<1>1. IInv => RegistriesExact
  BY ExactFromInv DEF IInv
<1> QED
  BY <1>1, Invariant, PTL

(* A walk of NextObject (cb_rt_next_object) goes forward in creation order,
   whatever is created, deleted or expires during it.                       *)
THEOREM WalksGoForward == Spec => []EnumeratesInOrder
<1>1. IInv => EnumeratesInOrder
  <2> SUFFICES ASSUME IInv, NEW m \in DOMAIN returned, NEW n \in DOMAIN returned, m < n
               PROVE  returned[m] < returned[n]
    BY DEF EnumeratesInOrder
  <2>1. DOMAIN returned = 1..Len(returned)
    BY DEF IInv, Walked
  <2> QED BY <2>1 DEF IInv, Walked, Increasing
<1> QED
  BY <1>1, Invariant, PTL

(* The tick (update_all) records no contact with an object that the same tick
   freed.                                                                   *)
THEOREM TickRecordsTheLiving == Spec => ContactsFresh
<1>1. IInv /\ [Next]_vars =>
        [UpdateAll => \A o \in Objects : w'.obj[o].memory = "allocated" =>
           \A c \in w'.obj[o].collisions \ {Null} : w'.obj[c].memory = "allocated"]_vars
  <2> SUFFICES ASSUME IInv, UpdateAll, NEW o \in Objects, w'.obj[o].memory = "allocated",
                      NEW c \in w'.obj[o].collisions \ {Null}
               PROVE  w'.obj[c].memory = "allocated"
    OBVIOUS
  <2>1. PICK spawning, touching : w' = Updated(spawning, touching)
    BY DEF UpdateAll
  <2>2. \A p \in AllocatedIn(w') : w'.obj[p].collisions \ {Null} \subseteq AllocatedIn(w')
    BY <2>1, UpdatedIsGood DEF IInv
  <2> QED BY <2>2 DEF AllocatedIn
<1> QED
  BY <1>1, Invariant, PTL DEF Spec, ContactsFresh

(* In a game, whose loop ticks the objects through UpdateGame, DrawGame and
   DrawScreen, too.                                                         *)
THEOREM RegistriesExactInGames == LoopSpec => []RegistriesExact
<1>1. LoopInit => IInv
  BY InitIInv DEF LoopInit
<1>2. IInv /\ [LoopNext]_allvars => IInv'
  BY CommandStep, UpdateStep, StutterStep
     DEF LoopNext, allvars, Screen, UpdateGame, DrawGame, DrawScreen, UpdateOnce,
         CameraFollow, CloneCameraPosition
<1>3. IInv => RegistriesExact
  BY ExactFromInv DEF IInv
<1> QED
  BY <1>1, <1>2, <1>3, PTL DEF LoopSpec

-----------------------------------------------------------------------------
(* The frame flags of the game loop.                                       *)

\* The flags say what the frame has had so far, and the counters agree.
FrameInv ==
  /\ frame \in [asked : Nat, shown : Nat, ticks : Nat, draws : Nat]
  /\ game_updated \in BOOLEAN /\ game_drawn \in BOOLEAN
  /\ game_updated <=> frame.asked + frame.shown > 0
  /\ game_drawn <=> frame.shown > 0
  /\ frame.draws = frame.shown
  /\ frame.ticks >= frame.asked
  /\ frame.ticks <= frame.asked + 1
  /\ frame.shown = 0 => frame.ticks = frame.asked
  /\ frame.asked = 0 /\ frame.shown > 0 => frame.ticks = 1

LoopInv == FrameInv /\ FrameComplete

Frames == [asked : Nat, shown : Nat, ticks : Nat, draws : Nat]

LEMMA FlagsStep == ASSUME LoopInv, [LoopNext]_allvars PROVE LoopInv'
<1> USE DEF LoopInv
<1>0. frame \in Frames /\ Tick \in {0, 1}
  BY DEF FrameInv, Frames, Tick
<1>1. CASE UpdateGame
  <2>1. frame' = [asked |-> frame.asked + 1, shown |-> frame.shown,
                  ticks |-> frame.ticks + 1, draws |-> frame.draws]
    BY <1>0, <1>1 DEF UpdateGame, Frames
  <2>2. game_updated' = TRUE /\ UNCHANGED <<game_drawn, flipped>>
    BY <1>1 DEF UpdateGame
  <2> QED BY <2>1, <2>2 DEF FrameInv, FrameComplete, NoFrame
<1>2. CASE DrawGame
  <2>1. frame' = [asked |-> frame.asked, shown |-> frame.shown + 1,
                  ticks |-> frame.ticks + Tick, draws |-> frame.draws + 1]
    BY <1>0, <1>2 DEF DrawGame, Frames
  <2>2. game_updated' = TRUE /\ game_drawn' = TRUE /\ UNCHANGED flipped
    BY <1>2 DEF DrawGame
  <2> QED BY <2>1, <2>2 DEF FrameInv, FrameComplete, NoFrame, Tick
<1>3. CASE DrawScreen
  <2>1. /\ flipped' = [asked |-> frame.asked, shown |-> frame.shown,
                       ticks |-> frame.ticks + Tick,
                       draws |-> frame.draws + IF game_drawn THEN 0 ELSE 1]
        /\ frame' = NoFrame /\ game_updated' = FALSE /\ game_drawn' = FALSE
    BY <1>0, <1>3 DEF DrawScreen, Frames
  <2>2. FrameInv'
    <3>1. game_updated' \in BOOLEAN /\ game_drawn' \in BOOLEAN /\ ~game_updated' /\ ~game_drawn'
      BY <2>1
    <3>2. /\ frame'.asked = 0 /\ frame'.shown = 0 /\ frame'.ticks = 0 /\ frame'.draws = 0
          /\ frame' \in Frames
      BY <2>1 DEF NoFrame, Frames
    <3> QED BY <3>1, <3>2 DEF FrameInv, Frames
  <2>3. FrameComplete'
    BY <2>1 DEF FrameInv, FrameComplete, Tick
  <2> QED BY <2>2, <2>3
<1>4. CASE UNCHANGED <<game_updated, game_drawn, frame, flipped>>
  BY <1>4 DEF FrameInv, FrameComplete
<1> QED
  BY <1>1, <1>2, <1>3, <1>4
     DEF LoopNext, allvars, gvars, Screen, CameraFollow, CloneCameraPosition

(* However UpdateGame, DrawGame and DrawScreen are mixed, every frame that is
   flipped was updated and drawn, and not more often than asked
   (cb_gfx.cpp, do_draw_screen).                                            *)
THEOREM FramesComplete == LoopSpec => []FrameComplete
<1>1. LoopInit => LoopInv
  <2> SUFFICES ASSUME LoopInit PROVE LoopInv
    OBVIOUS
  <2>1. /\ frame.asked = 0 /\ frame.shown = 0 /\ frame.ticks = 0 /\ frame.draws = 0
        /\ frame \in Frames /\ flipped = NoFrame
    BY DEF LoopInit, NoFrame, Frames
  <2>2. game_updated \in BOOLEAN /\ game_drawn \in BOOLEAN /\ ~game_updated /\ ~game_drawn
    BY DEF LoopInit
  <2> QED BY <2>1, <2>2 DEF LoopInv, FrameInv, FrameComplete, Frames
<1>2. LoopInv /\ [LoopNext]_allvars => LoopInv'
  BY FlagsStep
<1>3. LoopInv => FrameComplete
  BY DEF LoopInv
<1> QED
  BY <1>1, <1>2, <1>3, PTL DEF LoopSpec
=============================================================================
