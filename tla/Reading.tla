------------------------------ MODULE Reading ------------------------------
(***************************************************************************)
(* What the front end promises, stated without the parser: a tree the parser *)
(* accepts prints back to the tokens it was read from, its operators nest as *)
(* the manual's precedence table says, and layout means nothing.             *)
(***************************************************************************)
EXTENDS Driver

CONSTANT WellFormed     \* the inputs that follow the manual's grammar

LeafKinds == Literals \cup Names \cup NameWords \cup Primitives
UnaryTags == {Unary[k] : k \in Prefixes}
Symbol(tag) == CHOOSE k \in Prefixes : Unary[k] = tag

\* The tokens of a program as Show writes them: statement ends and As left out,
\* words of two parts apart, one member operator.
Written(ts) ==
  LET parts(k) == CASE k \in {"nl", ":", "eof", "As"} -> <<>>
                    [] k \in EndKw -> <<"End", CHOOSE w \in DOMAIN Splits : Splits[w] = k>>
                    [] k = "ElseIf" -> <<"Else", "If">>
                    [] k = "\\" -> <<".">>
                    [] OTHER -> <<k>>
      f[i \in 0 .. Len(ts)] == IF i = 0 THEN <<>> ELSE f[i - 1] \o parts(ts[i].k)
  IN  f[Len(ts)]

RECURSIVE Show(_), ShowAll(_, _)
ShowAll(ts, between) ==
  IF ts = <<>> THEN <<>>
  ELSE Show(Head(ts)) \o (IF Len(ts) > 1 THEN between ELSE <<>>) \o ShowAll(Tail(ts), between)
Cat(ts) == ShowAll(ts, <<>>)
Commas(ts) == ShowAll(ts, <<",">>)

\* Conditions and bodies of an If alternate; a body after a body is the Else part.
ShowIf(kids) ==
  LET body(i) == kids[i][1] = "Body"
      f[i \in 0 .. Len(kids)] ==
        CASE i = 0 -> <<>>
          [] i = 1 -> <<"If">> \o Show(kids[1]) \o <<"Then">>
          [] i > 1 /\ body(i) -> f[i - 1] \o (IF body(i - 1) THEN <<"Else">> ELSE <<>>) \o Show(kids[i])
          [] i > 1 /\ ~body(i) -> f[i - 1] \o <<"Else", "If">> \o Show(kids[i]) \o <<"Then">>
  IN  f[Len(kids)]

Show(t) ==
  LET tag == t[1]
      kids == Tail(t)
      rest == Tail(kids)
      of(K) == SelectSeq(kids, LAMBDA c : c[1] \in K)
      but(K) == SelectSeq(kids, LAMBDA c : c[1] \notin K)
      close(w) == <<"End", w>>
  IN  CASE tag \in LeafKinds -> <<tag>>
        [] tag = "rank" -> <<"[">> \o [i \in 1 .. t[2] - 1 |-> ","] \o <<"]">>
        [] tag \in UnaryTags -> <<Symbol(tag)>> \o Cat(kids)
        [] tag \in Infixes -> Show(t[2]) \o <<tag>> \o Show(t[3])
        [] tag \in {"Paren", "Params"} -> <<"(">> \o Commas(kids) \o <<")">>
        [] tag = "Call" -> Show(t[2]) \o <<"(">> \o Commas(rest) \o <<")">>
        [] tag = "Index" -> Show(t[2]) \o <<"[">> \o Commas(rest) \o <<"]">>
        [] tag = "Member" -> Show(t[2]) \o <<".">> \o Show(t[3])
        [] tag = "NewArray" -> <<"New">> \o Show(t[2]) \o <<"[">> \o Commas(rest) \o <<"]">>
        [] tag = "FnPtr" -> <<"Function">> \o Cat(kids)
        [] tag = "Init" -> <<"=">> \o Cat(kids)
        [] tag \in {"Array", "TypeParam", "As", "Param", "ExprStmt", "Label", "Body"} -> Cat(kids)
        [] tag \in {"New", "Return", "Goto", "Include", "Break", "Continue", "End", "Delete", "Field"} ->
             <<tag>> \o Cat(kids)
        [] tag = "Const" -> <<tag>> \o Show(t[2]) \o Cat(of({"As"})) \o <<"=">> \o Show(t[Len(t)])
        [] tag = "GlobalConst" ->
             <<"Global", "Const">> \o Show(t[2]) \o Cat(of({"As"})) \o <<"=">> \o Show(t[Len(t)])
        [] tag = "Implicit" -> Show(t[2]) \o Show(t[3]) \o <<"=">> \o Show(t[4])
        [] tag \in {"Dim", "Global"} -> <<tag>> \o Commas(Tail(t[2])) \o Cat(rest)
        [] tag = "Redim" -> <<tag>> \o Show(t[2]) \o Show(t[3]) \o <<"[">> \o Commas(Tail(rest)) \o <<"]">>
        [] tag = "Assign" -> Show(t[2]) \o <<"=">> \o Show(t[3])
        [] tag = "Command" -> Show(t[2]) \o Commas(rest)
        [] tag = "If" -> ShowIf(kids) \o close("If")
        [] tag = "LineIf" -> ShowIf(kids)
        [] tag = "While" -> <<tag>> \o Cat(kids) \o <<"Wend">>
        [] tag = "Forever" -> <<"Repeat">> \o Cat(kids) \o <<"Forever">>
        [] tag = "RepeatWhile" -> <<"Repeat">> \o Show(t[2]) \o <<"While">> \o Show(t[3])
        [] tag = "RepeatUntil" -> <<"Repeat">> \o Show(t[2]) \o <<"Until">> \o Show(t[3])
        [] tag = "ForEach" -> <<"For">> \o Show(t[2]) \o <<"=", "Each">> \o Show(t[3]) \o Show(t[4])
                              \o <<"Next">> \o Cat(SubSeq(t, 5, Len(t)))
        [] tag = "For" ->
             LET b == CHOOSE i \in 5 .. Len(t) : t[i][1] = "Body" IN
             <<"For">> \o Show(t[2]) \o <<"=">> \o Show(t[3]) \o <<"To">> \o Show(t[4])
             \o (IF b = 6 THEN <<"Step">> \o Show(t[5]) ELSE <<>>)
             \o Show(t[b]) \o <<"Next">> \o Cat(SubSeq(t, b + 1, Len(t)))
        [] tag \in {"Select", "Type", "Struct"} -> <<tag>> \o Cat(kids) \o close(tag)
        [] tag = "Case" -> <<tag>> \o Commas(but({"Body"})) \o Cat(of({"Body"}))
        [] tag = "Default" -> <<tag>> \o Cat(kids)
        [] tag = "Function" -> <<tag>> \o Show(t[2]) \o <<"(">> \o Commas(of({"Param"})) \o <<")">>
                               \o Cat(of({"As"})) \o Show(t[Len(t)]) \o close(tag)

\* How tightly the root of a tree binds: 1 (Or) to 10, unary 11, ^ 12, primaries 13.
Strength(t) == CASE t[1] = "^" -> 12
                 [] t[1] \in UnaryTags -> 11
                 [] t[1] \in Infixes \ {"^"} -> Level(t[1])
                 [] OTHER -> 13
RECURSIVE Nested(_)
Nested(t) ==
  \/ t[1] \in LeafKinds \cup {"rank"}
  \/ /\ t[1] = "^" => Strength(t[2]) = 13 /\ Strength(t[3]) >= 11
     /\ t[1] \in Infixes \ {"^"} => Strength(t[2]) >= Level(t[1]) /\ Strength(t[3]) > Level(t[1])
     /\ t[1] \in UnaryTags => Strength(t[2]) >= 11
     /\ t[1] \in {"Call", "Index", "Member"} => Strength(t[2]) = 13
     /\ t[1] = "ExprStmt" => Strength(t[2]) > 4
     /\ \A i \in 2 .. Len(t) : Nested(t[i])
-----------------------------------------------------------------------------
(* Properties.                                                              *)

Clean == found = {} /\ p.diags = {}

\* A single-line If, its line end, and an Else: the parser takes the Else for the If's
\* (parser.rs:1698) where the manual ends the If with its line (cb_syntax.md:845).
ElseOnNextLine(ts) ==
  \E then, end \in DOMAIN ts :
    /\ then < end /\ ts[then].k = "Then" /\ ts[end].k = "nl" /\ ts[end + 1].k = "Else"
    /\ \A i \in then + 1 .. end - 1 : ts[i].k # "nl"
    /\ end # then + 1

\* The single-line Ifs of a tree, and whether one was read from tokens of one line.
RECURSIVE LineIfs(_)
LineIfs(t) ==
  IF t[1] \in LeafKinds \cup {"rank"} THEN {}
  ELSE (IF t[1] = "LineIf" THEN {t} ELSE {}) \cup UNION {LineIfs(t[i]) : i \in 2 .. Len(t)}
OnOneLine(t) ==
  \E i, j \in DOMAIN toks :
    /\ i < j /\ toks[i].k = "If" /\ \A m \in i .. j : toks[m].k # "nl"
    /\ Written(SubSeq(toks, i, j)) = Show(t)

\* A file read without a complaint is read whole and as written: printing its
\* trees gives back its tokens, none lost, moved or taken twice by the recovery,
\* the operators nest as in the precedence table, and a single-line If ends with
\* its line.  Files with an Else on the line after one are excluded.
ReadsBack ==
  stage = "parse" /\ Parsed /\ Clean /\ ~ElseOnNextLine(toks) =>
    /\ Cat(p.nodes) = Written(toks)
    /\ \A i \in DOMAIN p.nodes : Nested(p.nodes[i]) /\ \A t \in LineIfs(p.nodes[i]) : OnOneLine(t)

\* No program of the manual's grammar draws a complaint.
AcceptsTheManual == text \in WellFormed => found = {} /\ p.diags = {}

\* A comment between any two tokens changes neither the tokens nor the complaints.
\* (A `\` before a line end is excepted: there a comment keeps it an operator.)
Parted(ts) ==
  LET f[i \in 0 .. Len(ts)] == IF i = 0 THEN <<>> ELSE f[i - 1] \o ts[i].v \o <<" ", "/", "*", "*", "/">>
  IN  f[Len(ts)]
SameTokens(once, again) ==
  /\ [i \in DOMAIN again.tokens |-> again.tokens[i].k] = [i \in DOMAIN once.tokens |-> once.tokens[i].k]
  /\ again.diags = once.diags
LayoutFree ==
  stage = "read" => \A once \in {Tokenize(text)} :
    (\A i \in DOMAIN once.tokens : once.tokens[i].k # "\\") => SameTokens(once, Tokenize(Parted(once.tokens)))

\* The parser stands in a record's body before what is neither a field nor an end.
AtStray == stage = "parse" /\ now[1] = "record" /\ ~Is(here, {"Field"}) /\ ~AtRecordEnd
Spinning == AtStray /\ Is(here, SyncKw)

\* Each step of the parser leaves it further in the file, or with less to do, or at a
\* recovery that did not move, which the next step passes: it comes to an end, unless
\* it spins at a word that recovery does not pass in a record's body.
Before(s, t) ==
  \/ t.pos > s.pos
  \/ t.pos = s.pos /\ Len(t.todo) < Len(s.todo)
  \/ t.pos = s.pos /\ Len(t.todo) = Len(s.todo) /\ t.stuck = t.pos /\ s.stuck # s.pos
MovesOn == [][stage = "parse" /\ stage' = "parse" => Before(p, p') \/ Spinning]_p

=============================================================================
