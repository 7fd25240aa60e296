------------------------------- MODULE Parser -------------------------------
(***************************************************************************)
(* The parser of cb-frontend: recursive descent over the tokens, with       *)
(* recovery at statement boundaries.                                        *)
(*                                                                         *)
(* The Rust calls in progress are a stack of things to do, s.todo.  Each     *)
(* parse_ function is the list of items it works through; an item may put    *)
(* others before the rest.  An error (`?`) drops items down to the one that   *)
(* recovers.  A step of the machine works from one statement or block end to  *)
(* the next.                                                                *)
(*                                                                         *)
(* Trees are <<tag, child, ...>>, leaves <<kind, token>>; s.nodes is the      *)
(* stack of finished trees.  s.diags is the set of <<code, token>> reported:  *)
(* repetition and wording are left out.                                     *)
(***************************************************************************)
EXTENDS Lexer, FiniteSets, TLC

CONSTANT MaxDepth      \* MAX_RECURSION_DEPTH

VARIABLES toks,        \* the tokens of the file being parsed
          p            \* the parser: [pos, nodes, diags, term, stuck, todo]

Names == {"id", "sid"}
Literals == {"int", "zero", "big", "float", "str", "True", "False", "Null"}
NameWords == {"Int", "Float", "Next", "String"}    \* commands spelled like keywords
Unary == ("+" :> "Plus" @@ "-" :> "Neg" @@ "Not" :> "Not" @@ "BinNot" :> "BinNot")
Prefixes == DOMAIN Unary
Levels == <<{"Or"}, {"Xor"}, {"And"}, {"=", "<>", "<", ">", "<=", ">="}, {"BinOr"}, {"BinXor"},
            {"BinAnd"}, {"Shl", "Shr", "Sar"}, {"+", "-"}, {"*", "/", "Mod"}>>
Level(k) == CHOOSE l \in DOMAIN Levels : k \in Levels[l]
Infixes == UNION {Levels[l] : l \in DOMAIN Levels} \cup {"^"}
Lbp(k) == IF k = "^" THEN 31 ELSE 8 + 2 * Level(k)
Rbp(k) == IF k = "^" THEN 30 ELSE 9 + 2 * Level(k)
PrefixBp == 30
AnyOperator == 0
StmtLhsMinBp == 17
Primitives == {"Byte", "Short", "Int", "Long", "Float", "Bool", "String"}
CallStarts == (Literals \cup Names \cup Prefixes \cup {"(", "New", "Int", "Float", "String"})

Term == {"nl", "eof", ":"}
EndKw == {"EndIf", "EndFunction", "EndSelect", "EndStruct", "EndType"}
Splits == [If |-> "EndIf", Function |-> "EndFunction", Select |-> "EndSelect",
           Struct |-> "EndStruct", Type |-> "EndType"]
LoopEnd == {"Wend", "Next", "Forever", "Case", "Default", "While", "Until"}
NoElse == EndKw \cup LoopEnd \cup {"End"}
BlockEnd == EndKw \cup LoopEnd \cup {"End", "Else", "ElseIf"}
SyncKw == BlockEnd \cup {"Function", "Type", "Struct", "If", "Repeat", "For", "Select", "Dim",
                         "Const", "Global", "Redim", "Return", "Goto", "Include", "Break",
                         "Continue", "Field", "Then"}
-----------------------------------------------------------------------------
(* The record s: tokens, trees, complaints.                                  *)
Kind(s, n) == IF s.pos + n <= Len(toks) THEN toks[s.pos + n].k ELSE "eof"
Is(s, K) == Kind(s, 0) \in K
AtSplitEnd(s) == Is(s, {"End"}) /\ Kind(s, 1) \in DOMAIN Splits
Bump(s) == IF Is(s, {"eof"}) THEN s ELSE [s EXCEPT !.pos = @ + 1]
Say(s, code) == [s EXCEPT !.diags = @ \cup {<<code, s.pos>>}]
SayIf(c, s, code) == IF c THEN Say(s, code) ELSE s
RECURSIVE Until(_, _), Eat(_, _)
Until(s, K) == IF Is(s, K \cup {"eof"}) THEN s ELSE Until(Bump(s), K)
Eat(s, k) == IF Is(s, {k}) THEN Eat(Bump(s), k) ELSE s

Push(s, tree) == [s EXCEPT !.nodes = Append(@, tree)]
Fold(s, tag, b) == [s EXCEPT !.nodes = Append(SubSeq(@, 1, b), <<tag>> \o SubSeq(@, b + 1, Len(@)))]
ErrorNode(s, code, b) == [Say(s, code) EXCEPT !.nodes = Append(SubSeq(@, 1, b), <<"Error", s.pos>>)]

Sync(s) == LET t == Until(s, {"nl", ":"} \cup SyncKw) IN IF Is(t, {"nl", ":"}) THEN Bump(t) ELSE t

\* An error: report it, give up everything down to the item that recovers, skip
\* to a boundary.  After a statement an Error tree stays, and a recovery that
\* moved nothing is remembered.
Fail(s, code) ==
  LET i == CHOOSE i \in DOMAIN s.todo : s.todo[i][1] = "recover" /\ \A j \in 1 .. i - 1 : s.todo[j][1] # "recover"
      stmt == s.todo[i][3]
      kept == SubSeq(s.nodes, 1, s.todo[i][2])
      t == [Say(s, code) EXCEPT !.todo = SubSeq(@, i + 1, Len(@)),
                                !.nodes = IF stmt THEN Append(kept, <<"Error", s.pos>>) ELSE kept]
      u == Sync(t)
  IN  IF stmt THEN [u EXCEPT !.stuck = IF u.pos = t.pos THEN t.pos ELSE 0] ELSE u

\* The item at the head is done, and items come in its place.
Then(s, items) == [s EXCEPT !.todo = items \o Tail(@)]
Done(s) == Then(s, <<>>)
-----------------------------------------------------------------------------
(* Items.                                                                    *)
Take == <<"take">>                                  \* consume the token
Need(K) == <<"need", K>>                            \* consume one of K
LeafOf(K) == <<"leaf", K>>                          \* keep one of K
Opt(K, items) == <<"opt", K, items>>
Unless(K, items) == <<"unless", K, items>>
List(items) == <<"list", items>>                    \* items, items, ...
Under(tag, items) == <<"under", tag, items>>        \* their trees under one tag
FoldAt(tag, b) == <<"fold", tag, b>>
Ops(op) == <<op>>

Name == LeafOf(Names)
Value == <<"expr", 0, 1>>
Type == <<"type", 0>>
Sep == Ops("sep")
Finish == Ops("finish")
OptType == Opt({"As"}, <<Under("As", <<Take, Type>>)>>)
OptInit == Opt({"="}, <<Under("Init", <<Take, Value>>)>>)
Body(fn) == <<"open", fn>>
OneName == Opt({","}, <<Ops("one name")>>)

Return == Under("Return", <<Take, Unless(Term, <<Value>>), Sep>>)
Goto == Under("Goto", <<Take, Name, Sep>>)
Include == Under("Include", <<Take, LeafOf({"str"}), Sep>>)
Break == Under("Break", <<Take, Unless(Term, <<Ops("count")>>), Sep>>)
Continue == Under("Continue", <<Take, Sep>>)
End == Under("End", <<Take, Sep>>)
Delete == Under("Delete", <<Take, Value, Sep>>)
DimLike(tag) == Under(tag, <<Take, Under("Names", <<List(<<Name>>)>>), OptType, OptInit, Ops("one init"), Sep>>)
Const == <<Take, Name, OptType, Need({"="}), Value, OneName, Sep>>
Redim == Under("Redim", <<Take, Name, Need({"As"}), Type, Need({"["}), List(<<Value>>), Need({"]"}), Sep>>)
FieldDecl == Under("Field", <<Take, Name, OneName, OptType, Sep>>)
ImplicitDecl == Under("Implicit", <<Name, OptType, Need({"="}), Value, Sep>>)

OneLine == [Return |-> Return, Goto |-> Goto, Include |-> Include, Break |-> Break, Continue |-> Continue,
            Delete |-> Delete, Dim |-> DimLike("Dim"), Const |-> Under("Const", Const), Redim |-> Redim]

If == <<Take, Value, Need({"Then"}), Ops("then")>>
While == <<Under("While", <<Take, Value, Body("While"), <<"close loop", "Wend">>, Finish>>)>>
Repeat == <<Take, Body("Repeat"), Ops("repeat end")>>
For == <<Take, Name, Need({"="}), Ops("range")>>
Select == <<Under("Select", <<Take, Value, <<"select", FALSE>>, <<"close loop", "EndSelect">>, Finish>>)>>
Param == Under("Param", <<Name, OptType, OptInit>>)
Function == <<Under("Function", <<Take, Name, Need({"("}), Unless({")"}, <<List(<<Param>>)>>), Need({")"}),
                                  OptType, Body("Function"), <<"close", "EndFunction">>, Finish>>)>>
Record(w) == <<Under(w, <<Take, LeafOf({"id"}), <<"record", Splits[w]>>, <<"close", Splits[w]>>, Finish>>)>>

\* parse_stmt_inner: the items of the statement at hand.
Statement(s) ==
  LET k == Kind(s, 0)
      label == Kind(s, 1) = ":" /\ Kind(s, 2) \in {"nl", "eof"}
  IN  CASE k \in DOMAIN OneLine -> <<OneLine[k]>>
        [] k = "End" /\ ~AtSplitEnd(s) -> <<End>>
        [] k = "Global" /\ Kind(s, 1) = "Const" -> <<Take, Under("GlobalConst", Const)>>
        [] k = "Global" /\ Kind(s, 1) # "Const" -> <<DimLike("Global")>>
        [] k = "If" -> If
        [] k = "While" -> While
        [] k = "Repeat" -> Repeat
        [] k = "For" -> For
        [] k = "Select" -> Select
        [] k = "Function" -> Function
        [] k \in {"Type", "Struct"} -> Record(k)
        [] k \in Names /\ label -> <<Ops("label")>>
        [] k \in Names /\ ~label /\ Kind(s, 1) = "As" -> <<ImplicitDecl>>
        [] k \in Names /\ ~label /\ Kind(s, 1) # "As" -> <<<<"expr", StmtLhsMinBp, 1>>, Ops("command")>>
        [] k = "error" -> <<<<"error", "E0202">>>>
        [] k = "Field" -> <<Take, Ops("stray field")>>
        [] k \in {"nl", "eof"} -> <<<<"fail", "E0299">>>>
        [] OTHER -> <<<<"fail", "E0202">>>>
-----------------------------------------------------------------------------
(* What each item does.                                                      *)
Plain(s, it) ==
  LET b == Len(s.nodes) IN
  CASE it[1] = "take" -> Done(Bump(s))
    [] it[1] = "need" -> IF Is(s, it[2]) THEN Done(Bump(s)) ELSE Fail(s, "E0201")
    [] it[1] = "leaf" -> IF Is(s, it[2]) THEN Done(Bump(Push(s, <<Kind(s, 0), s.pos>>))) ELSE Fail(s, "E0201")
    [] it[1] = "opt" -> Then(s, IF Is(s, it[2]) THEN it[3] ELSE <<>>)
    [] it[1] = "unless" -> Then(s, IF Is(s, it[2]) THEN <<>> ELSE it[3])
    [] it[1] = "list" -> Then(s, it[2] \o <<Opt({","}, <<Take, it>>)>>)
    [] it[1] = "under" -> Then(s, it[3] \o <<FoldAt(it[2], b)>>)
    [] it[1] = "fold" -> Done(Fold(s, it[2], it[3]))
    [] it[1] = "error" -> Done(Bump(ErrorNode(s, it[2], b)))
    [] it[1] = "fail" -> Fail(s, it[2])
    [] it[1] = "recover" -> Done(IF it[3] THEN [s EXCEPT !.stuck = 0] ELSE s)

\* Expressions: precedence climbing, d calls deep; b is the mark of the operand.
Expression(s, it) ==
  LET b == Len(s.nodes)
      d == it[3]
      inner == <<"expr", 0, d + 1>>
      climb == <<"climb", it[2], d, b>>
  IN  CASE d > MaxDepth -> Done(ErrorNode(s, "E0218", b))
        [] OTHER -> Then(s,
             CASE Is(s, Prefixes) ->
                    <<Take, <<"expr", PrefixBp, d + 1>>, FoldAt(Unary[Kind(s, 0)], b), climb>>
               [] Is(s, Literals \cup Names) \/ (Is(s, NameWords) /\ Kind(s, 1) = "(") ->
                    <<LeafOf({Kind(s, 0)}), climb>>
               [] Is(s, {"("}) -> <<Take, inner, Need({")"}), FoldAt("Paren", b), climb>>
               [] Is(s, {"New"}) -> <<Take, <<"atom", d + 1>>, <<"new", d, b>>, climb>>
               [] Is(s, {"error"}) -> <<<<"error", "E0206">>, climb>>
               [] OTHER -> <<<<"fail", "E0206">>>>)

Operators(s, it) ==
  LET k == Kind(s, 0)
      d == it[3]
      b == it[4]
  IN  CASE Is(s, {"("}) -> Then(s, <<Take, <<"args", ")", d>>, Need({")"}), FoldAt("Call", b), it>>)
        [] Is(s, {"["}) -> Then(s, <<Take, <<"args", "]", d>>, Need({"]"}), <<"some", "Index", b>>, it>>)
        [] Is(s, {".", "\\"}) -> Then(s, <<Take, Name, FoldAt("Member", b), it>>)
        [] Is(s, Infixes) /\ Lbp(k) >= it[2] ->
             Then(s, <<Take, <<"expr", Rbp(k), d + 1>>, FoldAt(k, b), it>>)
        [] OTHER -> Done(s)

Parts(s, it) ==
  LET next == Bump(s) IN
  CASE it[1] = "args" -> Then(s, IF Is(s, {it[2]}) THEN <<>> ELSE <<<<"expr", 0, it[3] + 1>>, <<"comma", it[2], it[3]>>>>)
    [] it[1] = "comma" -> IF ~Is(s, {","}) THEN Done(s)
                          ELSE IF Is(next, {it[2], ","}) THEN Fail(next, "E0206")
                          ELSE Then(next, <<<<"args", it[2], it[3]>>>>)
    [] it[1] = "some" -> Done(IF Len(s.nodes) = it[3] + 1 THEN ErrorNode(s, "E0206", it[3])
                              ELSE Fold(s, it[2], it[3]))
    [] it[1] = "new" -> IF Is(s, {"["})
                        THEN Then(s, <<Take, <<"args", "]", it[2]>>, Need({"]"}), <<"some", "NewArray", it[3]>>>>)
                        ELSE Done(Fold(s, "New", it[3]))

Types(s, it) ==
  LET b == Len(s.nodes)
      d == it[2]
      named == Is(s, Names) /\ (Kind(s, 1) = "As" \/ (Is(s, {"sid"}) /\ Kind(s, 1) \in {",", ")"}))
      ranks == Eat(Bump(s), ",")
  IN  CASE it[1] = "type" -> Then(s, <<<<"atom", d + 1>>, <<"brackets", b>>>>)
        [] it[1] = "brackets" ->
             IF Is(s, {"["}) /\ Kind(s, 1) \in {"]", ","}
             THEN Then(Push(ranks, <<"rank", ranks.pos - s.pos>>), <<Need({"]"}), FoldAt("Array", it[2]), it>>)
             ELSE Done(s)
        [] it[1] = "type param" ->
             Then(s, <<Under("TypeParam", IF named THEN <<Name, Opt({"As"}, <<Take, <<"type", d>>>>)>>
                                          ELSE <<Opt({"As"}, <<Take>>), <<"type", d>>>>)>>)
        [] it[1] = "atom" ->
             CASE d > MaxDepth -> Done(ErrorNode(s, "E0218", b))
               [] d <= MaxDepth /\ Is(s, Primitives \cup {"id"}) -> Then(s, <<LeafOf({Kind(s, 0)})>>)
               [] d <= MaxDepth /\ Is(s, {"Function"}) ->
                    Then(s, <<Under("FnPtr", <<Take, Need({"("}),
                      Under("Params", <<Unless({")"}, <<List(<<<<"type param", d>>>>)>>), Need({")"})>>),
                      Opt({"As"}, <<Take, <<"type", d>>>>)>>)>>)
               [] d <= MaxDepth /\ Is(s, {"("}) -> Then(s, <<Under("Paren", <<Take, <<"type", d>>, Need({")"})>>)>>)
               [] OTHER -> Fail(IF Is(s, {"sid"}) THEN Bump(s) ELSE s, "E0205")

\* consume_stmt_sep_or_terminator; a block's own end ignores its refusal.
Separator(s, it) ==
  CASE Is(s, {"nl"}) -> Done([Bump(s) EXCEPT !.term = "newline"])
    [] Is(s, {":"}) -> Done([Bump(s) EXCEPT !.term = "colon"])
    [] Is(s, {"eof"}) -> Done([s EXCEPT !.term = "eof"])
    [] Is(s, BlockEnd) -> Done([s EXCEPT !.term = "blockend"])
    [] OTHER -> IF it[1] = "sep" THEN Fail(s, "E0201") ELSE Done(s)

Simple(s, it) ==
  LET b == Len(s.nodes) IN
  CASE it[1] = "stray field" -> Fail(Until(s, {"nl", ":"}), "E0211")
    [] it[1] = "one name" -> Done(Until(Say(s, "E0210"), {"nl", ":"}))
    [] it[1] = "one init" ->
         Done(SayIf(s.nodes[b][1] = "Init" /\ \E i \in {b - 1, b - 2} \cap DOMAIN s.nodes :
                      s.nodes[i][1] = "Names" /\ Len(s.nodes[i]) > 2, s, "E0210"))
    [] it[1] = "count" -> CASE Is(s, {"int"}) -> Then(s, <<LeafOf({"int"})>>)
                            [] Is(s, {"big"}) -> Done(Bump(Say(s, "E0213")))
                            [] OTHER -> Then(s, <<Value, <<"no count", b>>>>)
    [] it[1] = "no count" -> Done([Say(s, "E0213") EXCEPT !.nodes = SubSeq(@, 1, it[2])])
    [] it[1] = "label" ->
         LET t == Bump(Bump(Fold(Push(SayIf(Is(s, {"sid"}), s, "E0214"), <<Kind(s, 0), s.pos>>), "Label", b))) IN
         Done(IF Is(t, {"nl"}) THEN Bump(t) ELSE t)
    [] it[1] = "command" ->
         CASE Is(s, {"="}) -> Then(s, <<Take, Value, Sep, FoldAt("Assign", b - 1)>>)
           [] Is(s, CallStarts) /\ s.nodes[b][1] \in Names \cup NameWords ->
                Then(s, <<List(<<Value>>), Sep, FoldAt("Command", b - 1)>>)
           [] OTHER -> Then(s, <<Sep, FoldAt("ExprStmt", b - 1)>>)

(* Blocks.                                                                   *)
Sigil(t) == IF t.k = "sid" THEN t.v[Len(t.v)] ELSE ""
Closers == [If |-> {"ElseIf", "Else", "EndIf"}, ElseIf |-> {"ElseIf", "Else", "EndIf"}, Else |-> {"EndIf"},
            While |-> {"Wend"}, Repeat |-> {"Forever", "While", "Until"}, For |-> {"Next"},
            ForEach |-> {"Next"}, Case |-> {"Case", "Default", "EndSelect"},
            Default |-> {"Case", "Default", "EndSelect"}, Function |-> {"EndFunction"}]
AtBlockEnd(s, fn) ==
  /\ fn # "File"
  /\ \/ Is(s, Closers[fn] \cup EndKw \cup {"eof", "Wend", "Forever", "Next", "Else", "ElseIf"})
     \/ AtSplitEnd(s)
LineStop == {"nl", "eof"}

Close(s, expected) ==
  LET two == Bump(Bump(s)) IN
  CASE Is(s, {expected}) -> Bump(s)
    [] AtSplitEnd(s) -> SayIf(Splits[Kind(s, 1)] # expected, two, "E0204")
    [] Is(s, EndKw \ {expected}) -> Say(Bump(s), "E0204")
    [] OTHER -> Say(s, "E0299")

\* One statement of a single-line If after another, while colons part them.
LineBody(s, ends) ==
  IF Is(s, ends \cup {":"})
  THEN LET t == Say(s, "E0215") IN
       Then(IF Is(s, {":"}) THEN [Bump(t) EXCEPT !.term = "colon"] ELSE t, <<Under("Body", <<>>)>>)
  ELSE Then(s, <<Under("Body", <<Ops("line"), <<"more line", ends>>>>)>>)

Ends(s, it) ==
  LET b == Len(s.nodes) IN
  CASE it[1] = "open" -> Then(s, <<<<"body", it[2], b>>>>)
    [] it[1] = "close" -> Done(Close(s, it[2]))
    [] it[1] = "close loop" -> Done(IF Is(s, {"eof"}) THEN s ELSE Close(s, it[2]))
    [] it[1] = "repeat end" ->
         CASE Is(s, {"Forever"}) -> Then(s, <<Take, Finish, FoldAt("Forever", b - 1)>>)
           [] Is(s, {"While"}) -> Then(s, <<Take, Value, Finish, FoldAt("RepeatWhile", b - 1)>>)
           [] Is(s, {"Until"}) -> Then(s, <<Take, Value, Finish, FoldAt("RepeatUntil", b - 1)>>)
           [] OTHER -> Then(s, <<<<"close loop", "Forever">>, FoldAt("Forever", b - 1)>>)
    [] it[1] = "range" ->
         LET each == Is(s, {"Each"})
             fn == IF each THEN "ForEach" ELSE "For"
             head == IF each THEN <<Take, Value>>
                     ELSE <<Value, Need({"To"}), Value, Opt({"Step"}, <<Take, Value>>)>>
         IN  Then(s, head \o <<Body(fn), <<"close loop", "Next">>, <<"next name", Sigil(toks[s.pos - 2])>>,
                               Finish, FoldAt(fn, b - 1)>>)
    [] it[1] = "next name" ->
         IF Is(s, Names) THEN Then(SayIf(Sigil(toks[s.pos]) # it[2], s, "E0217"), <<Name>>) ELSE Done(s)

Branches(s, it) ==
  LET b == Len(s.nodes)
      elseif == <<Take, Value, Need({"Then"}), Ops("newline"), Body("ElseIf"), Ops("branches")>>
  IN  CASE it[1] = "then" ->
             IF Is(s, {"nl"})
             THEN Then(s, <<Take, Body("If"), Ops("branches"), <<"close", "EndIf">>, Finish, FoldAt("If", b - 1)>>)
             ELSE Then(s, <<<<"line body", LineStop \cup {"Else", "ElseIf"}>>, Opt({"Else"}, <<Take, <<"line body", LineStop>>>>),
                            Opt({"ElseIf"}, <<Ops("no elseif")>>), Finish, FoldAt("LineIf", b - 1)>>)
        [] it[1] = "line body" -> LineBody(s, it[2])
        [] it[1] = "more line" ->
             Then(s, IF s.term = "colon" /\ ~Is(s, it[2]) THEN <<Ops("line"), it>> ELSE <<>>)
        [] it[1] = "no elseif" -> Done(Until(Say(s, "E0212"), {"nl"}))
        [] it[1] = "newline" -> Done(SayIf(~Is(s, LineStop), s, "E0201"))
        [] it[1] = "branches" ->
             CASE Is(s, {"ElseIf"}) -> Then(s, elseif)
               [] Is(s, {"Else"}) /\ Kind(s, 1) = "If" -> Then(s, <<Take>> \o elseif)
               [] Is(s, {"Else"}) /\ Kind(s, 1) # "If" -> Then(s, <<Take, Body("Else")>>)
               [] OTHER -> Done(s)

AttemptAgain(s, it) == Then(s, Statement(s))
\* parse_stmt: where the last recovery moved nothing, one token goes first.
Attempt(s, it) ==
  LET t == Eat(Bump(s), "nl") IN
  IF s.stuck # s.pos THEN Then(s, Statement(s))
  ELSE IF Is(t, {"eof"}) THEN Done(Push(t, <<"Error", s.pos>>)) ELSE Then([t EXCEPT !.stuck = 0], Statement(t))

Item(s) ==
  LET it == Head(s.todo)
      op == it[1]
  IN  CASE op \in {"take", "need", "leaf", "opt", "unless", "list", "under", "fold", "error", "fail", "recover"} ->
             Plain(s, it)
        [] op = "expr" -> Expression(s, it)
        [] op = "climb" -> Operators(s, it)
        [] op \in {"args", "comma", "some", "new"} -> Parts(s, it)
        [] op \in {"type", "brackets", "type param", "atom"} -> Types(s, it)
        [] op \in {"sep", "finish"} -> Separator(s, it)
        [] op \in {"stray field", "one name", "one init", "count", "no count", "label", "command"} -> Simple(s, it)
        [] op \in {"open", "close", "close loop", "repeat end", "range", "next name"} -> Ends(s, it)
        [] op \in {"then", "line body", "more line", "no elseif", "newline", "branches"} -> Branches(s, it)
        [] op = "attempt" -> Attempt(s, it)
-----------------------------------------------------------------------------
(* The steps: each works up to the next statement, arm or field.             *)
Stops == {"body", "line", "select", "record"}
RECURSIVE Work(_)
Work(s) == IF s.todo = <<>> \/ Head(s.todo)[1] \in Stops THEN s ELSE Work(Item(s))

now == IF p.todo = <<>> THEN <<"none">> ELSE Head(p.todo)
here == Eat(p, "nl")
Recover(stmt) == <<"recover", Len(p.nodes), stmt>>
\* Do items, and come back to this one.
Again(s, items) == Work([s EXCEPT !.todo = items \o @])

BodyStatement == /\ now[1] = "body" /\ ~AtBlockEnd(here, now[2])
                 /\ p' = Again(here, <<Ops("attempt"), Recover(TRUE)>>)
EndBody == /\ now[1] = "body" /\ AtBlockEnd(here, now[2])
           /\ p' = Work(Done(Fold(SayIf(Is(here, {"eof"}), here, "E0203"), "Body", now[3])))
LineStatement == /\ now[1] = "line"
                 /\ p' = Work(Then(p, Statement(p)))

AtRecordEnd == Is(here, EndKw \cup {"eof"}) \/ AtSplitEnd(here)
Duplicate == now[2] /\ Is(here, {"Default"})
SelectArm ==
  /\ now[1] = "select" /\ Is(here, {"Case", "Default"})
  /\ p' = LET arm == IF Is(here, {"Case"}) THEN <<Under("Case", <<Take, List(<<Value>>), Body("Case")>>)>>
                     ELSE <<Under("Default", <<Take, Body("Default")>>)>>
              seen == [here EXCEPT !.todo[1][2] = now[2] \/ Is(here, {"Default"})]
          IN  Again(SayIf(Duplicate, seen, "E0216"), arm \o <<Recover(FALSE)>>)
SelectStray == /\ now[1] = "select" /\ ~Is(here, {"Case", "Default"}) /\ ~AtRecordEnd
               /\ p' = Bump(Say(here, "E0202"))
EndSelect == /\ now[1] = "select" /\ AtRecordEnd
             /\ p' = Work(Done(SayIf(Is(here, {"eof"}), here, "E0203")))

RecordField == /\ now[1] = "record" /\ Is(here, {"Field"})
               /\ p' = Again(here, <<FieldDecl, Recover(FALSE)>>)
RecordStray == /\ now[1] = "record" /\ ~Is(here, {"Field"}) /\ ~AtRecordEnd
               /\ p' = Sync(Say(here, "E0206"))
EndRecord == /\ now[1] = "record" /\ AtRecordEnd
             /\ p' = Work(Done(SayIf(Is(here, {"eof"}), here, "E0203")))

\* parse(): statements until the end of the file; a body that only that ends.
ParserStart == [pos |-> 1, nodes |-> <<>>, diags |-> {}, term |-> "none", stuck |-> 0,
                todo |-> <<<<"body", "File", 0>>>>]
Parsed == now[1] = "body" /\ now[2] = "File" /\ Is(here, {"eof"})

ParseStep == /\ ~Parsed
             /\ \/ BodyStatement \/ EndBody \/ LineStatement
                \/ SelectArm \/ SelectStray \/ EndSelect
                \/ RecordField \/ RecordStray \/ EndRecord
             /\ UNCHANGED toks
=============================================================================
