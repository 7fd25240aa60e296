--------------------------- MODULE ObjectRegistry ---------------------------
(***************************************************************************)
(* The runtime's sprite objects (cb_object.cpp): the vectors a CbObject*   *)
(* is entered in, what every command does to them, and the update tick     *)
(* that ages objects, drains deleted emitters and records collisions.      *)
(*                                                                         *)
(* Objects are numbered in the order of their creation and a number is     *)
(* never used again, so that a vector still holding a freed object shows.  *)
(* Positions, sprites and geometry are left out: whether two objects       *)
(* touch, what a ray hits and whether an emission is due are choices.      *)
(***************************************************************************)
EXTENDS Integers, FiniteSets, SequencesExt

CONSTANTS NumObjects,     \* bound: objects created in one run
          Kinds,          \* the kinds created: "regular", "floor", "emitter"
          MaxChecks,      \* bound: collision checks registered at a time
          Commands,       \* the groups of commands the program uses
          LifeMod,        \* ObjectLife counts modulo this (2^32)
          ParticleTicks   \* update ticks a particle lives

ASSUME ObjectRegistryAssumption ==
  /\ NumObjects \in Nat /\ ParticleTicks \in Nat \ {0} /\ LifeMod \in Nat \ {0}
  /\ Kinds \subseteq {"regular", "floor", "emitter"}

Objects == 1..NumObjects
Null == 0
NoLife == -1      \* usingLife is false

(***************************************************************************)
(* w holds the registries of the translation unit and the objects.  A      *)
(* check is <<a, b>>, b Null for the map; particles is how many ticks the  *)
(* youngest particle has left, 0 when there is none.                       *)
(***************************************************************************)
VARIABLES w,
          returned   \* auxiliary: what NextObject returned since InitObjectList

vars == <<w, returned>>

NewObject(kind) ==
  [kind |-> kind, memory |-> "allocated", life |-> NoLife, visible |-> TRUE,
   checkCollisions |-> TRUE, collisions |-> {}, stop |-> FALSE, particles |-> 0]

Unborn == [NewObject("regular") EXCEPT !.memory = "unborn"]
Gone == [NewObject("regular") EXCEPT !.memory = "freed"]

Init ==
  /\ w = [live |-> <<>>, floor |-> <<>>, regular |-> <<>>, rogue |-> <<>>,
          pickable |-> <<>>, picked |-> Null, checks |-> {}, enum |-> 0,
          obj |-> [o \in Objects |-> Unborn]]
  /\ returned = <<>>

Allocated == {o \in Objects : w.obj[o].memory = "allocated"}
Chain(o) == IF w.obj[o].kind = "floor" THEN "floor" ELSE "regular"

-----------------------------------------------------------------------------
\* erase_from: every occurrence of o leaves the vector, the others close up.
Without(v, o) ==
  LET kept[i \in 0..Len(v)] ==
        IF i = 0 THEN <<>>
        ELSE IF v[i] = o THEN kept[i - 1] ELSE Append(kept[i - 1], v[i])
  IN kept[Len(v)]

(* A new object is entered in live_objects and in one draw chain.          *)

\* (A slip: the newest object is put first.)
RegisteredFirst(s, o) ==
  [s EXCEPT !.live = <<o>> \o @,
     !.floor = IF s.obj[o].kind = "floor" THEN Append(@, o) ELSE @,
     !.regular = IF s.obj[o].kind = "floor" THEN @ ELSE Append(@, o)]

Registered(s, o) ==
  [s EXCEPT !.live = Append(@, o),
     !.floor = IF s.obj[o].kind = "floor" THEN Append(@, o) ELSE @,
     !.regular = IF s.obj[o].kind = "floor" THEN @ ELSE Append(@, o)]

Make(kind) ==
  \E o \in Objects :
    /\ w.obj[o].memory = "unborn"
    /\ \A p \in 1..(o - 1) : w.obj[p].memory # "unborn"
    /\ w' = Registered([w EXCEPT !.obj[o] = NewObject(kind)], o)
    /\ UNCHANGED returned

\* An emitter that still has particles stops and leaves every registry but
\* its draw chain; anything else leaves them all and is freed.
Draining(s, o) == s.obj[o].kind = "emitter" /\ ~s.obj[o].stop /\ s.obj[o].particles > 0

Rogue(s, o) ==
  [s EXCEPT !.live = Without(@, o), !.pickable = Without(@, o),
     !.picked = IF @ = o THEN Null ELSE @,
     !.obj[o].stop = TRUE, !.rogue = Append(@, o)]

\* (A slip: the checks that name the object stay registered.)
FreedWithChecks(s, o) ==
  [s EXCEPT !.live = Without(@, o), !.floor = Without(@, o), !.regular = Without(@, o),
     !.rogue = Without(@, o), !.pickable = Without(@, o),
     !.picked = IF @ = o THEN Null ELSE @,
     !.obj[o] = Gone]

Freed(s, o) ==
  [s EXCEPT !.live = Without(@, o), !.floor = Without(@, o), !.regular = Without(@, o),
     !.rogue = Without(@, o), !.pickable = Without(@, o),
     !.picked = IF @ = o THEN Null ELSE @,
     !.checks = {c \in @ : c[1] # o /\ c[2] # o},
     !.obj[o] = Gone]

Deleted(s, o) == IF Draining(s, o) THEN Rogue(s, o) ELSE Freed(s, o)

DeleteObject(o) ==
  /\ o \in Allocated
  /\ w' = Deleted(w, o)
  /\ UNCHANGED returned

\* (A slip: the draining emitters are forgotten, not freed.)
ClearedLive(s) ==
  [s EXCEPT !.live = <<>>, !.floor = <<>>, !.regular = <<>>, !.rogue = <<>>,
     !.pickable = <<>>, !.picked = Null, !.checks = {}, !.enum = 0,
     !.obj = [o \in Objects |-> IF Contains(s.live, o)
                                THEN Gone ELSE @[o]]]

Cleared(s) ==
  [s EXCEPT !.live = <<>>, !.floor = <<>>, !.regular = <<>>, !.rogue = <<>>,
     !.pickable = <<>>, !.picked = Null, !.checks = {}, !.enum = 0,
     !.obj = [o \in Objects |-> IF Contains(s.live \o s.rogue, o)
                                THEN Gone ELSE @[o]]]

ClearObjects ==
  /\ w' = Cleared(w)
  /\ UNCHANGED returned

-----------------------------------------------------------------------------
(* Draw order, lifetime, picking, collision checks and the enumeration.    *)
ObjectOrder(o, direction) ==
  LET rest(chain) == Without(chain, o)
      moved(chain) == IF ~Contains(chain, o) THEN chain
                      ELSE IF direction = 1 THEN Append(rest(chain), o)
                      ELSE <<o>> \o rest(chain)
  IN /\ o \in Allocated
     /\ w' = IF Chain(o) = "floor" THEN [w EXCEPT !.floor = moved(@)]
             ELSE [w EXCEPT !.regular = moved(@)]
     /\ UNCHANGED returned

ObjectLife(o, frames) ==
  /\ o \in Allocated
  /\ w' = [w EXCEPT !.obj[o].life = frames]
  /\ UNCHANGED returned

ShowObject(o, visible) ==
  /\ o \in Allocated
  /\ w' = [w EXCEPT !.obj[o].visible = visible]
  /\ UNCHANGED returned

ObjectPickable(o, style) ==
  /\ o \in Allocated /\ w.obj[o].kind # "emitter"
  /\ w' = [w EXCEPT !.pickable = IF style = 0 THEN Without(@, o)
                                 ELSE IF Contains(@, o) THEN @ ELSE Append(@, o)]
  /\ UNCHANGED returned

\* ObjectPick and CameraPick: some pickable object is hit, or none.
ObjectPick(picker, hit) ==
  /\ picker \in Allocated
  /\ hit = Null \/ (hit # picker /\ Contains(w.pickable, hit))
  /\ w' = [w EXCEPT !.picked = hit]
  /\ UNCHANGED returned

\* b is Null for a check against the map.
SetupCollision(a, b) ==
  /\ a \in Allocated /\ w.obj[a].kind # "emitter"
  /\ b = Null \/ (b \in Allocated /\ w.obj[b].kind # "emitter")
  /\ Cardinality(w.checks) < MaxChecks
  /\ w' = [w EXCEPT !.checks = @ \cup {<<a, b>>}]
  /\ UNCHANGED returned

ClearCollisions ==
  /\ w' = [w EXCEPT !.checks = {}]
  /\ UNCHANGED returned

ResetObjectCollision(o) ==
  /\ o \in Allocated
  /\ w' = [w EXCEPT !.obj[o].checkCollisions = FALSE, !.obj[o].collisions = {}]
  /\ UNCHANGED returned

InitObjectList ==
  /\ w' = [w EXCEPT !.enum = 0]
  /\ returned' = <<>>

NextObject ==
  /\ w.enum < Len(w.live)
  /\ w' = [w EXCEPT !.enum = @ + 1]
  /\ returned' = Append(returned, w.live[w.enum + 1])

-----------------------------------------------------------------------------
(***************************************************************************)
(* The update tick.  spawning are the emitters whose emission is due and   *)
(* touching the checks whose two sides overlap.                            *)
(***************************************************************************)
Integrated(particles) == IF particles = 0 THEN 0 ELSE particles - 1

Animated(s, o, spawning) ==
  IF s.obj[o].kind # "emitter" THEN s
  ELSE [s EXCEPT !.obj[o].particles =
          IF o \in spawning THEN ParticleTicks ELSE Integrated(@)]

\* One object of the snapshot: an expired one is deleted as by DeleteObject,
\* the others forget the contacts of the last tick.
Aged(s, o, spawning) ==
  LET a == Animated(s, o, spawning)
      life == IF a.obj[o].life = NoLife THEN NoLife ELSE (a.obj[o].life - 1) % LifeMod
      b == [a EXCEPT !.obj[o].life = life]
  IN IF life = 0 THEN Deleted(b, o) ELSE [b EXCEPT !.obj[o].collisions = {}]

\* The loop over the snapshot of live_objects.
AllAged(s, spawning) ==
  LET after[i \in 0..Len(s.live)] ==
        IF i = 0 THEN s ELSE Aged(after[i - 1], s.live[i], spawning)
  IN after[Len(s.live)]

\* (A slip: the particles of a stopped emitter are culled but not aged.)
DrainedFrozen(s) ==
  LET CullOnly(t, o) == IF t.obj[o].particles = 0 THEN Freed(t, o) ELSE t
  IN FoldLeft(CullOnly, s, s.rogue)

\* One rogue emitter: its particles age and are culled; it goes with the last.
Drain(s, o) ==
  LET left == Integrated(s.obj[o].particles) IN
  IF left = 0
  THEN [s EXCEPT !.floor = Without(@, o), !.regular = Without(@, o),
          !.rogue = Without(@, o), !.obj[o] = Gone]
  ELSE [s EXCEPT !.obj[o].particles = left]

Drained(s) ==
  LET after[i \in 0..Len(s.rogue)] ==
        IF i = 0 THEN s ELSE Drain(after[i - 1], s.rogue[i])
  IN after[Len(s.rogue)]

Active(s, c) == /\ s.obj[c[1]].checkCollisions /\ s.obj[c[1]].visible
                /\ c[2] = Null \/ s.obj[c[2]].visible

\* What object o meets: the other sides of its checks that are active and touch.
Met(s, o, touching) == {c[2] : c \in {d \in s.checks \cap touching : d[1] = o /\ Active(s, d)}}

Collided(s, touching) ==
  LET contacts(o) == s.obj[o].collisions \cup Met(s, o, touching) IN
  [s EXCEPT !.obj = [o \in Objects |-> [s.obj[o] EXCEPT !.collisions = contacts(o)]]]

Rearmed(s) ==
  [s EXCEPT !.obj = [o \in Objects |->
     IF Contains(s.live, o) THEN [s.obj[o] EXCEPT !.checkCollisions = TRUE] ELSE s.obj[o]]]

Updated(spawning, touching) ==
  Rearmed(Collided(Drained(AllAged(w, spawning)), touching))

UpdateAll ==
  /\ \E spawning \in SUBSET {o \in ToSet(w.live) : w.obj[o].kind = "emitter"},
        touching \in SUBSET w.checks :
       w' = Updated(spawning, touching)
  /\ UNCHANGED returned

-----------------------------------------------------------------------------
Command ==
  \/ \E kind \in Kinds : Make(kind)
  \/ \E o \in Objects : "delete" \in Commands /\ DeleteObject(o)
  \/ "clear" \in Commands /\ ClearObjects
  \/ \E o \in Objects, d \in {1, -1} : "order" \in Commands /\ ObjectOrder(o, d)
  \/ \E o \in Objects, n \in 0..(LifeMod - 1) : "life" \in Commands /\ ObjectLife(o, n)
  \/ \E o \in Objects, v \in BOOLEAN : "show" \in Commands /\ ShowObject(o, v)
  \/ \E o \in Objects, style \in 0..1 : "pick" \in Commands /\ ObjectPickable(o, style)
  \/ \E o \in Objects, hit \in Objects \cup {Null} :
       "pick" \in Commands /\ ObjectPick(o, hit)
  \/ "collide" \in Commands /\ \/ \E a \in Objects, b \in Objects \cup {Null} : SetupCollision(a, b)
                               \/ ClearCollisions
                               \/ \E o \in Objects : ResetObjectCollision(o)
  \/ "list" \in Commands /\ (InitObjectList \/ NextObject)

Next == Command \/ UpdateAll

Spec == Init /\ [][Next]_vars

-----------------------------------------------------------------------------
(***************************************************************************)
(* Properties.                                                             *)
(***************************************************************************)
\* "Every live object appears in live_objects and exactly one draw chain"
\* (cb_object.cpp): the chains hold the live objects and the draining
\* emitters, each once, by kind, and both kinds of lists hold all the memory
\* there is, so nothing leaks and nothing freed is drawn.
ChainsExact ==
  /\ IsInjective(w.live) /\ IsInjective(w.rogue)
  /\ IsInjective(w.floor) /\ IsInjective(w.regular)
  /\ ToSet(w.live) \cap ToSet(w.rogue) = {}
  /\ ToSet(w.live) \cup ToSet(w.rogue) = Allocated
  /\ ToSet(w.floor) = {o \in Allocated : Chain(o) = "floor"}
  /\ ToSet(w.regular) = {o \in Allocated : Chain(o) = "regular"}

\* The commands and the tick follow the pointers of these registries without
\* asking: none may point at an object that is gone, nor at an emitter, which
\* never picks or collides.
RegistriesValid ==
  LET held == ToSet(w.pickable) \cup ({w.picked} \ {Null})
              \cup {c[1] : c \in w.checks} \cup ({c[2] : c \in w.checks} \ {Null})
  IN held \subseteq {o \in ToSet(w.live) : w.obj[o].kind # "emitter"}

\* Registries and chains hold what they should, whatever is deleted from where.
RegistriesExact == RegistriesValid /\ ChainsExact

\* A contact recorded by the tick names an object the tick left alive.
ContactsFresh ==
  [][UpdateAll => \A o \in Objects : w'.obj[o].memory = "allocated" =>
       \A c \in w'.obj[o].collisions \ {Null} : w'.obj[c].memory = "allocated"]_vars

\* A walk of NextObject goes forward in creation order and returns no object
\* twice, whatever is created, deleted or expires during the walk.
EnumeratesInOrder ==
  \A m, n \in DOMAIN returned : m < n => returned[m] < returned[n]
=============================================================================
