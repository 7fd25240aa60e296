------------------------------ MODULE Overloads ------------------------------
(***************************************************************************)
(* Which of the functions of one name a call means.  A variant is            *)
(* [params, least, ret, target]; its place in the sequence is the order of    *)
(* declaration, or of the runtime's catalogue.                               *)
(***************************************************************************)
EXTENDS Values

IsUser(v) == v.target[1] = "Function"

\* Those whose parameters the arguments convert to, by how many match exactly.
Accepts(v, tys) ==
  /\ Len(v.params) = Len(tys)
  /\ \A i \in DOMAIN tys : tys[i] = v.params[i] \/ Conversion(tys[i], v.params[i]) # "none"
Exact(v, tys) == Cardinality({i \in DOMAIN tys : tys[i] = v.params[i]})
Accepting(vs, tys) == {i \in DOMAIN vs : Accepts(vs[i], tys)}
FirstBest(vs, tys) == {i \in Accepting(vs, tys) : \A j \in Accepting(vs, tys) : i <= j}
Best(vs, tys) == {i \in Accepting(vs, tys) : \A j \in Accepting(vs, tys) : Exact(vs[j], tys) <= Exact(vs[i], tys)}

\* Between equals, the program's own that returns what is needed, a value or nothing.
Answering(vs, best, need) == IF Cardinality(best) = 1 THEN best ELSE {i \in best : (vs[i].ret = Void) = ~need}
OneWins(vs, best, won) == Cardinality(won) = 1 /\ (Cardinality(best) > 1 => \A i \in best : IsUser(vs[i]))
-----------------------------------------------------------------------------
(* The ranking the manual describes, to compare the choice with.             *)

\* How well an argument fits: exactly, by a conversion that widens, or one that narrows.
Fit(from, to) == CASE from = to -> 0
                   [] from # to /\ ~IsNarrowing(Conversion(from, to), from, to) -> 1
                   [] from # to /\ IsNarrowing(Conversion(from, to), from, to) -> 2
\* Every argument fits v at least as well as u.
FitsAsWell(v, u, tys) == \A i \in DOMAIN tys : Fit(tys[i], v.params[i]) <= Fit(tys[i], u.params[i])
=============================================================================
