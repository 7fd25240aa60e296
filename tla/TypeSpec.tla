------------------------------ MODULE TypeSpec ------------------------------
(***************************************************************************)
(* What a CoolBasic user `Type` promises to a program, whichever backend   *)
(* runs it: every Type owns one list of its live instances in the order of *)
(* their creation; references name instances and never change the instance *)
(* they name; a reference to a deleted instance stays recognisable for     *)
(* ever; a bare-variable Delete rewinds the variable to the predecessor    *)
(* (the list head when the first instance goes) and marks it deleted; a    *)
(* field access through a marked variable traps, until it is assigned.     *)
(*                                                                         *)
(* An instance is the serial number of the New that made it, so creation   *)
(* order is the order of numbers and the list of a Type needs no links.    *)
(***************************************************************************)
EXTENDS Integers, FiniteSetsExt

CONSTANTS NumTypes,     \* number of Type declarations of the program
          Vars,         \* its variables of some Type
          VarType,      \* the Type each variable is declared with, 1..NumTypes
          MaxNews       \* bound: instances created in one run

Types == 1..NumTypes
Serials == 1..MaxNews
Null == -1          \* the Null reference
Head == 0           \* the list head a rewound variable may hold
VARIABLES born,     \* instances created so far
          live,     \* the live instances of each Type
          link,     \* a reference field of every live instance
          ref,      \* the reference each variable holds
          marked,   \* the variables in the deleted state
          trap      \* "none", or the trap that ended the program

vars == <<born, live, link, ref, marked, trap>>

Init ==
  /\ born = 0
  /\ live = [t \in Types |-> {}]
  /\ link = [k \in Serials |-> Null]
  /\ ref = [v \in Vars |-> Null]
  /\ marked = [v \in Vars |-> FALSE]
  /\ trap = "none"

After(t, r)  == {y \in live[t] : y > r}
Before(t, r) == {y \in live[t] : y < r}
Following(t, r) == IF After(t, r) = {} THEN Null ELSE Min(After(t, r))
Preceding(t, r) == IF Before(t, r) = {} THEN Null ELSE Max(Before(t, r))
Dead(t, r) == r \notin live[t] \cup {Null, Head}

-----------------------------------------------------------------------------
(* Assignments clear the deleted mark of the variable assigned.            *)
Give(v, r) ==
  /\ ref' = [ref EXCEPT ![v] = r]
  /\ marked' = [marked EXCEPT ![v] = FALSE]

Fault(kind) ==
  /\ trap' = kind
  /\ UNCHANGED <<born, live, link, ref, marked>>

New(v) ==
  /\ born < MaxNews
  /\ born' = born + 1
  /\ live' = [live EXCEPT ![VarType[v]] = @ \cup {born + 1}]
  /\ Give(v, born + 1)
  /\ UNCHANGED <<link, trap>>

Assign(v, r) == Give(v, r) /\ UNCHANGED <<born, live, link, trap>>

First(v) == Assign(v, Following(VarType[v], Head))
Last(v)  == Assign(v, Preceding(VarType[v], MaxNews + 1))
Clear(v) == Assign(v, Null)

Copy(v, w) ==
  /\ VarType[v] = VarType[w]
  /\ Assign(v, ref[w])

Next_(v, w) ==
  /\ VarType[v] = VarType[w]
  /\ IF Dead(VarType[w], ref[w])
     THEN Fault("access to deleted object")
     ELSE Assign(v, IF ref[w] = Null THEN Null
                    ELSE Following(VarType[w], ref[w]))

Previous(v, w) ==
  /\ VarType[v] = VarType[w]
  /\ IF Dead(VarType[w], ref[w])
     THEN Fault("access to deleted object")
     ELSE Assign(v, Preceding(VarType[w], ref[w]))

ReadLink(v, w) ==
  /\ VarType[v] = VarType[w]
  /\ IF marked[w] \/ Dead(VarType[w], ref[w])
     THEN Fault("access to deleted object")
     ELSE IF ref[w] \in {Null, Head} THEN Fault("null dereference")
     ELSE Assign(v, link[ref[w]])

WriteLink(v, w) ==
  /\ VarType[v] = VarType[w]
  /\ IF marked[v] \/ Dead(VarType[v], ref[v])
     THEN Fault("access to deleted object")
     ELSE IF ref[v] \in {Null, Head} THEN Fault("null dereference")
     ELSE /\ link' = [link EXCEPT ![ref[v]] = ref[w]]
          /\ UNCHANGED <<born, live, ref, marked, trap>>

Remove(t, r) ==
  /\ live' = [live EXCEPT ![t] = @ \ {r}]
  /\ link' = [link EXCEPT ![r] = Null]
  /\ UNCHANGED <<born, trap>>

DeleteVariable(v) ==
  IF marked[v] \/ ref[v] = Head \/ Dead(VarType[v], ref[v])
  THEN Fault("double delete")
  ELSE IF ref[v] = Null THEN Fault("null dereference")
  ELSE /\ Remove(VarType[v], ref[v])
       /\ ref' = [ref EXCEPT ![v] =
                    IF Before(VarType[v], ref[v]) = {} THEN Head
                    ELSE Max(Before(VarType[v], ref[v]))]
       /\ marked' = [marked EXCEPT ![v] = TRUE]

DeleteValue(v) ==
  IF ref[v] = Head \/ Dead(VarType[v], ref[v]) THEN Fault("double delete")
  ELSE IF ref[v] = Null THEN Fault("null dereference")
  ELSE /\ Remove(VarType[v], ref[v])
       /\ UNCHANGED <<ref, marked>>

Operations == {"New", "First", "Last", "Clear", "Copy", "Next", "Previous",
               "ReadLink", "WriteLink", "DeleteVariable", "DeleteValue"}

\* The program executes statement s: its operation on the variables s.v and s.w.
Run(s) ==
  /\ trap = "none"
  /\ \/ s.op = "New" /\ New(s.v)
     \/ s.op = "First" /\ First(s.v)
     \/ s.op = "Last" /\ Last(s.v)
     \/ s.op = "Clear" /\ Clear(s.v)
     \/ s.op = "Copy" /\ Copy(s.v, s.w)
     \/ s.op = "Next" /\ Next_(s.v, s.w)
     \/ s.op = "Previous" /\ Previous(s.v, s.w)
     \/ s.op = "ReadLink" /\ ReadLink(s.v, s.w)
     \/ s.op = "WriteLink" /\ WriteLink(s.v, s.w)
     \/ s.op = "DeleteVariable" /\ DeleteVariable(s.v)
     \/ s.op = "DeleteValue" /\ DeleteValue(s.v)

Next == \E s \in [op : Operations, v : Vars, w : Vars] : Run(s)

Spec == Init /\ [][Next]_vars
=============================================================================
