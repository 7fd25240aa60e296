----------------------------- MODULE MCReading -----------------------------
(* Programs that use every construct, and their neighbours by one token.     *)
EXTENDS Reading

MCWords == {"a", "b", "f"}
MCKeywords == SyncKw \cup Primitives \cup {"As", "To", "Step", "Each", "Not", "BinNot", "And", "Or", "Mod",
  "New", "True", "Null", "Delete", "EndIf", "ElseIf"}

\* Pieces apart by blanks, a sigil next to its name.
Spaced(ps) ==
  LET f[i \in 0 .. Len(ps)] ==
        CASE i = 0 -> <<>>
          [] i > 0 /\ (i = 1 \/ ps[i] = "%" \/ ps[i - 1] = "\n") -> f[i - 1] \o <<ps[i]>>
          [] OTHER -> f[i - 1] \o <<" ", ps[i]>>
  IN  f[Len(ps)]
Quoted(w) == <<"\"", " ", w, " ", "\"">>
n == "\n"

Programs == {
  <<"If", "a", "Then", n, "f", "1", ",", "-", "a", n, "ElseIf", "b", "Then", n, "b", "=", "1", n, "Else", n,
    "End", n, "End", "If">>,
  <<"If", "a", "=", "b", "Then", "a", "=", "1", ":", "f", "Else", "Break", "1", n, "Return", "a">>,
  <<"While", "a", "<", "1", "+", "b", "*", "5", n, "Continue", n, "Wend", n, "a", ":", n, "Goto", "a">>,
  <<"Repeat", n, "a", "=", "Not", "b", "^", "1", n, "Until", "a", "Or", "b", "And", "1", n, "f", "(", "a", ")">>,
  <<"For", "a", "%", "=", "1", "To", "5", "Step", "5", n, "f", "a", n, "Next", "a", "%">>,
  <<"For", "b", "=", "Each", "a", n, "Delete", "b", n, "Next", ":", "f", "(", "1", ")", "[", "5", "]", ".", "b">>,
  <<"Select", "a", n, "Case", "1", ",", "5", n, "f", n, "Default", n, "a", "=", "True", n, "EndSelect">>,
  <<"Function", "f", "(", "a", "As", "Int", "=", "1", ")", "As", "Float", n, "Return", "a", n, "EndFunction">>,
  <<"Type", "a", n, "Field", "b", "As", "Int", n, "Field", "f", n, "EndType", n, "f", "1">>,
  <<"Dim", "a", ",", "b", "As", "Function", "(", "Int", ",", "b", "%", ")", "As", "Int", "[", ",", "]", n,
    "Redim", "a", "As", "Int", "[", "1", "]">>,
  <<"Const", "a", "=", "New", "b", "[", "5", "]", n, "Global", "Const", "b", "As", "Int", "=", "(", "1", ")">>,
  <<"Include", "\"", "b", "\"", n, "Include", "\"", "f", "\"", n, "f", "1", n, "b", "As", "Int", "=", "1">> }

Inserted == {"a", "1", "=", "(", ")", ",", ":", n, "Else", "End", "If", "While", "Then", "Field"}
Edits(ps) ==
  {SubSeq(ps, 1, i - 1) \o SubSeq(ps, i + 1, Len(ps)) : i \in 1 .. Len(ps)}
  \cup {SubSeq(ps, 1, i) \o <<w>> \o SubSeq(ps, i + 1, Len(ps)) : i \in 0 .. Len(ps), w \in Inserted}

\* Short texts over the pieces that begin, join and end tokens.
Pieces == {"a", "1", "0", "_", "e", ".", "\"", "/", "*", n, "$", "<", "'"}
Snippets == UNION {[1 .. k -> Pieces] : k \in 1 .. 3}
Comments == {
  <<"/", "*", "/", "*", "*", "/", "a", "*", "/", "1">>, <<"a", "/", "*", "b", "*", "/", "1">>,
  <<"rem", " ", "a", "\r", n, "1">>, <<"a", "_", "1", "%", "$", "1", "_", "e">>, <<"a", "\\", " ", n, "=", "1">>,
  <<"\"", "\"", "\"", "a", n, "\"", "\"", "\"", "1">>, <<"$", "\"", "\\", "\"", "a", "\"", "b">>,
  <<"1", "5", "_", "_", "5", ".", "1", "e", "-", "5">>, <<"5", "5", "5", "5", "%", "1", "_", "_">>,
  <<"If", "a", "<", "=", "1", "<", ">", "5", "Then", n>> }

MCWellFormed == {Spaced(ps) : ps \in Programs}
MCTexts == MCWellFormed \cup {Spaced(ps) : ps \in UNION {Edits(q) : q \in Programs}} \cup Snippets \cup Comments

MCMain == Quoted("a")
MCUnreadable == <<"unreadable">>
MCFiles == Quoted("b") :> Spaced(<<"Include", "\"", "b", "\"", n, "Include", "\"", "a", "\"", n, "b", "=", "1", n,
                                      "Include", "\"", "f", "\"">>)
           @@ Quoted("f") :> Spaced(<<"Include", "\"", "b", "\"", n, "f", "=", "1">>)
MCExitCodes == {-1, 0, 300}

\* Main files of up to three statements that include themselves, the others and a missing file.
Including(w) == <<"Include", "\"", w, "\"">>
Lines == {Including(w) : w \in {"a", "b", "f", "g"}} \cup {<<"f", "1">>, <<>>}
MCIncluding == {Spaced(x \o <<n>> \o y \o <<n>> \o z) : x, y, z \in Lines}

\* Every text with no flags, a few with every combination.
MCInvocations ==
  {[main |-> MCMain, text |-> t, dumps |-> {}, backend |-> ""] : t \in MCTexts \cup MCIncluding}
  \cup [main : {MCMain}, text : {Spaced(<<"f", "1">>), Spaced(<<"f", "=">>), Spaced(<<"Include", "\"", "a", "\"">>), MCUnreadable},
        dumps : SUBSET {"ast", "ir"}, backend : {"", "interp", "llvm", "other"}]
=============================================================================
