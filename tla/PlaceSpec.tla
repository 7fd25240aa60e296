----------------------------- MODULE PlaceSpec -----------------------------
(***************************************************************************)
(* What an assignment to a field or an element does: `obj.link.items[0] =  *)
(* x` finds the place its path leads to in the store as it is, and writes  *)
(* it.  The definitions follow the compiled program's address walk         *)
(* (func.rs, lower_store_place), which only reads until its final store;   *)
(* the interpreter's in-place walk has to agree with it.                   *)
(*                                                                         *)
(* The store maps every container to the values it holds: the frame of     *)
(* the program's variables, a Struct held in a variable, the instances of  *)
(* one Type (fields link and items) and the arrays of its references.      *)
(***************************************************************************)
EXTENDS Integers, SequencesExt

CONSTANTS NumInstances,  \* bound: instances New makes
          NumArrays,     \* bound: arrays New makes, each of one element
          MaxDeletes,    \* bound: instances deleted
          MaxPath        \* bound: projections of one assignment's target

Null == 0
Instances == 1..NumInstances
Arrays == (NumInstances + 1)..(NumInstances + NumArrays)
Struct == NumInstances + NumArrays + 1     \* the Struct variable's storage
Frame == NumInstances + NumArrays + 2      \* the variables' slots
Containers == Instances \cup Arrays \cup {Struct, Frame}
Values == {Null} \cup Instances \cup Arrays     \* of a variable or a field

(***************************************************************************)
(* The declared type of what a key holds, and the keys of a container of   *)
(* each type.  "[1]" is past the end of every array.                       *)
(***************************************************************************)
AllKeys == {"obj", "arr", "rec", "link", "items", "[0]", "[1]"}
KeyType == [k \in AllKeys |-> IF k \in {"arr", "items"} THEN "array"
                              ELSE IF k = "rec" THEN "struct" ELSE "instance"]
Keys == [array |-> {"[0]", "[1]"}, struct |-> {"link"},
         instance |-> {"link", "items"}]
OfType == [array |-> Arrays, struct |-> {Struct}, instance |-> Instances]

\* A target: its root variable, then its projections.
Target(p) ==
  /\ p[1] \in {"obj", "arr", "rec"}
  /\ \A n \in 2..Len(p) : p[n] \in Keys[KeyType[p[n - 1]]]
Targets == {p \in UNION {[1..n -> AllKeys] : n \in 2..(MaxPath + 1)} :
              Target(p)}

Empty(c) ==
  IF c \in Instances THEN [link |-> Null, items |-> Null]
  ELSE IF c \in Arrays THEN [k \in {"[0]"} |-> Null]
  ELSE IF c = Struct THEN [link |-> Null]
  ELSE [obj |-> Null, arr |-> Null, rec |-> Struct]

VARIABLES store,    \* what every container holds
          born,     \* the containers New has made
          dead,     \* the instances deleted since
          trap      \* "none", or the trap that ended the program

vars == <<store, born, dead, trap>>

Init ==
  /\ store = [c \in Containers |-> Empty(c)]
  /\ born = {Struct, Frame}
  /\ dead = {}
  /\ trap = "none"

-----------------------------------------------------------------------------
(* A place is a key of a container; a walk that trapped has no container.  *)
Place(c, k) == [at |-> c, key |-> k, fault |-> "none"]
Lost(kind) == [at |-> Null, key |-> "none", fault |-> kind]

\* Why the value held somewhere cannot be stepped into.
StepFault(val, k) ==
  IF val = Null THEN "null"
  ELSE IF val \in dead THEN "deleted"
  ELSE IF k = "[1]" THEN "bounds"
  ELSE "none"

Step(place, k) ==
  IF place.fault # "none" THEN place
  ELSE LET val == store[place.at][place.key] IN
       IF StepFault(val, k) # "none" THEN Lost(StepFault(val, k))
       ELSE Place(val, k)

\* The places the walk of a target passes, and the one it ends at.
PlaceAt(p, n) ==
  LET at[m \in 1..Len(p)] ==
        IF m = 1 THEN Place(Frame, p[1]) ELSE Step(at[m - 1], p[m])
  IN at[n]
Final(p) == PlaceAt(p, Len(p))

\* Does the walk pass one field of one instance twice, or enter one array
\* twice?  Only a structure that leads back to itself makes it.
Revisits(p) ==
  LET Into(n) == store[PlaceAt(p, n - 1).at][p[n - 1]] IN
  \E m, n \in 2..Len(p) :
    /\ m < n /\ PlaceAt(p, n - 1).fault = "none" /\ Into(m) = Into(n)
    /\ Into(m) \in Arrays \/ p[m] = p[n]

-----------------------------------------------------------------------------
New(v) ==
  LET fresh == OfType[KeyType[v]] \ born IN
  /\ fresh # {}
  /\ store' = [store EXCEPT ![Frame][v] = Min(fresh)]
  /\ born' = born \cup {Min(fresh)}
  /\ UNCHANGED <<dead, trap>>

Assign(v, val) ==
  /\ val \in {Null} \cup (OfType[KeyType[v]] \cap born)
  /\ store' = [store EXCEPT ![Frame][v] = val]
  /\ UNCHANGED <<born, dead, trap>>

Delete(c) ==
  /\ Cardinality(dead) < MaxDeletes
  /\ c \in (Instances \cap born) \ dead
  /\ dead' = dead \cup {c}
  /\ UNCHANGED <<store, born, trap>>

\* The right-hand side is Null or one of the variables obj and arr.
RightHandSides(p) ==
  {Null, IF KeyType[Last(p)] = "array" THEN store[Frame].arr ELSE store[Frame].obj}

StorePlace(p, val) ==
  /\ val \in RightHandSides(p)
  /\ IF Final(p).fault # "none"
     THEN trap' = Final(p).fault /\ UNCHANGED <<store, born, dead>>
     ELSE /\ store' = [store EXCEPT ![Final(p).at][Final(p).key] = val]
          /\ UNCHANGED <<born, dead, trap>>

Next ==
  /\ trap = "none"
  /\ \/ \E v \in {"obj", "arr"} : \/ New(v)
                                  \/ \E val \in Values : Assign(v, val)
     \/ \E c \in Instances : Delete(c)
     \/ \E p \in Targets, val \in Values : StorePlace(p, val)

Spec == Init /\ [][Next]_vars
=============================================================================
