----------------------------- MODULE MCCompile -----------------------------
(* Programs that bring every type, operator, statement and way of leaving    *)
(* together.                                                                *)
EXTENDS Compile

MCWords == {"a", "b", "d", "f", "g", "i", "k", "out", "say", "get", "fail", "Len", "Str", "First", "Last"}
MCKeywords == SyncKw \cup Primitives \cup {"As", "To", "Step", "Each", "Not", "BinNot", "And", "Or", "Xor", "Mod", "New",
  "True", "False", "Null", "Delete", "EndIf", "ElseIf", "EndFunction", "EndSelect", "EndType", "EndStruct", "Shl", "Shr", "Sar", "BinAnd", "BinOr", "BinXor"}
MCBits == [Byte |-> 2, Short |-> 4, Int |-> 8, Long |-> 16]
MCCatalog ==
  [types |-> <<>>, consts |-> <<[name |-> <<"k">>, value |-> <<"Int", 5>>]>>,
   funcs |-> <<[name |-> <<"out">>, params |-> <<<<"String">>>>, ret |-> <<"Void">>, symbol |-> "out"],
               [name |-> <<"say">>, params |-> <<<<"Int">>>>, ret |-> <<"Void">>, symbol |-> "say_i"],
               [name |-> <<"say">>, params |-> <<<<"Float">>>>, ret |-> <<"Void">>, symbol |-> "say_f"],
               [name |-> <<"get">>, params |-> <<>>, ret |-> <<"Int">>, symbol |-> "get"],
               [name |-> <<"fail">>, params |-> <<<<"String">>>>, ret |-> <<"Void">>, symbol |-> "make_error"]>>]

n == "\n"
Numeral == Digits \cup {"."}
Joined(x, y) == y \in Sigils \/ x = n \/ {x, y} \subseteq Numeral \/ (x \in {"<", ">"} /\ y \in {">", "="})
Piece(ps, j) == IF j = 1 \/ Joined(ps[j - 1], ps[j]) THEN <<ps[j]>> ELSE <<" ", ps[j]>>
RECURSIVE SpacedFrom(_, _, _)
SpacedFrom(ps, i, j) ==
  IF i = j THEN Piece(ps, i)
  ELSE LET mid == (i + j) \div 2 IN SpacedFrom(ps, i, mid) \o SpacedFrom(ps, mid + 1, j)
Spaced(ps) == SpacedFrom(ps, 1, Len(ps))

\* Two types, an operator, a literal; conversions on the way in and out.
Bits4 == {"Shl", "Shr", "Sar", "BinAnd", "BinOr", "BinXor"}
Sums == {"+", "-", "*", "/", "Mod", "^", "=", "<", "Xor"}
Computes(t, u, op, x) ==
  <<"Dim", "a", "As", t, n, "Dim", "b", "As", u, "=", "9", n, "b", "=", "b", "-", "1", "1", n, "a", "=", "b", op>> \o x
  \o <<n, "out", "a", n, "out", "a", op, "b">>
Arithmetics ==
  {Computes(t, u, op, x) : t \in {"Byte", "Int", "Float"}, u \in {"Short", "Long", "Float"}, op \in Sums, x \in {<<"5">>, <<"0", ".", "5">>}}
  \cup {Computes(t, u, op, <<"5">>) : t \in {"Byte", "Int"}, u \in {"Short", "Int", "Long"}, op \in Bits4}

\* Loops, branches and every way out of them.
Flow == {
  <<"i", "=", "1", n, "Repeat", n, "i", "=", "i", "+", "1", n, "If", "i", "=", "2", "Then", "Continue", n,
    "For", "a", "=", "5", "To", "1", "Step", "-", "2", n, "If", "a", "<", "i", "Then", "Break", n, "If", "i",
    "=", "5", "Then", "Break", "2", n, "out", "a", n, "Next", "a", n, "Forever", n, "out", "i">>,
  <<"i", "=", "5", n, "While", "i", ">", "0", "And", "5", "/", "i", ">", "0", n, "i", "=", "i", "-", "1", n,
    "If", "i", "Mod", "5", "=", "1", "Or", "i", "<", "1", "Then", "Continue", n, "out", "i", n, "Wend", n,
    "out", "Not", "i">>,
  <<"i", "=", "9", n, "Repeat", n, "i", "=", "i", "-", "1", n, "If", "i", "=", "5", "Then", "Break", n,
    "Repeat", n, "i", "=", "i", "-", "1", n, "While", "i", ">", "5", n, "out", "i", n, "Until", "i", "<", "1",
    n, "out", "i">>,
  <<"For", "a", "#", "=", "0", ".", "5", "To", "1", ".", "5", "Step", "0", ".", "5", n, "out", "a", "#", n,
    "Next", "a", "#", n, "For", "i", "=", "5", "To", "1", n, "out", "i", n, "Next", n, "out", "i">>,
  <<"For", "i", "=", "1", "To", "9", "Step", "5", n, "For", "a", "=", "1", "To", "i", n, "i", "=", "i", "+",
    "1", n, "If", "a", "=", "5", "Then", "Continue", n, "Next", n, "out", "i", n, "Next", n, "out", "i", "+",
    "a">>,
  <<"For", "i", "=", "1", "To", "9", "Step", "2", n, "Select", "i", n, "Case", "1", ",", "5", n, "out", "i", n,
    "Continue", n, "Default", n, "If", "i", "=", "5", "Then", "Break", n, "out", "0", "-", "i", n, "Case", "9",
    n, "out", "9", n, "End", "Select", n, "Next", n, "out", "0">>,
  <<"d", "=", "5", n, "Select", "d", "*", "1", n, "Default", n, "out", "1", n, "Case", "k", n, "out", "5", n,
    "End", "Select", n, "Select", "d", n, "Case", "9", n, "out", "9", n, "End", "Select", n, "out", "d">>,
  <<"a", "=", "5", n, "If", "a", "<", "5", "Then", n, "out", "1", n, "ElseIf", "a", "=", "5", "Then", n, "If",
    "a", "Then", "out", "5", "Else", "out", "0", n, "Else", n, "out", "9", n, "EndIf", n, "If", "a", "=", "1",
    "Then", "End", "Else", "out", "a", n, "End", n, "out", "1">>,
  <<"out", "get", "(", ")", n, "get", n, "say", "1", n, "say", "0", ".", "5", n, "out", "\"", "\"", "+", "1",
    "+", "0", ".", "5", "+", "\"", "a", "\"", n, "out", "Len", "(", "\"", "a", "\"", "+", "5", ")", n, "fail",
    "\"", "a", "\"", n, "out", "1">>,
  <<"out", "Int", "(", "1", ".", "5", ")", "+", "Float", "(", "5", ")", n, "out", "Str", "(", "1", ")", "=",
    "\"", "1", "\"", n, "out", "\"", "a", "\"", "<", ">", "\"", "a", "\"", n, "out", "5", "Xor", "0", n, "out",
    "(", "-", "5", ")", n, "out", "(", "+", "9", ")", n, "If", "BinNot", "5", "Then", "out", "(", "-", "(", "1",
    "-", "5", ")", ")">>,
  <<"If", "get", "(", ")", "Or", "1", "/", "get", "(", ")", "Then", "out", "1">>,
  <<"Const", "a", "=", "5", "*", "9", "-", "1", ":", "Const", "b", "#", "=", "0", ".", "5", n, "Global",
    "Const", "d", "=", "a", "Mod", "5", n, "out", "a", n, "out", "b", "#", "+", "1", n, "f", n, "Function", "f",
    "(", ")", n, "Const", "a", "=", "1", n, "out", "a", "+", "d", n, "EndFunction">>,
  <<"i", "=", "0", n, "a", ":", n, "i", "=", "i", "+", "1", n, "If", "i", "<", "5", "Then", "Goto", "a", n,
    "Goto", "b", n, "out", "1", n, "While", "i", n, "b", ":", n, "out", "i", n, "i", "=", "i", "-", "1", n,
    "If", "i", "<", "2", "Then", "End", n, "Wend">>,
  <<"f", "1", n, "f", "0", n, "Function", "f", "(", "a", "As", "Int", ")", n, "If", "a", "Then", "Goto", "b", n,
    "Return", n, "out", "9", n, "b", ":", n, "out", "a", n, "EndFunction">> }

\* Calls: recursion, overloads, function values, globals.
Functions == {
  <<"Function", "f", "(", "a", "As", "Int", ")", "As", "Float", n, "If", "a", "<", "1", "Then", "Return", "1",
    n, "Return", "a", "*", "f", "(", "a", "-", "1", ")", n, "EndFunction", n, "out", "f", "(", "1", ".", "5",
    ")", n, "a", "=", "f", "(", "1", ")", n, "out", "a">>,
  <<"Function", "f", "(", "a", "As", "Int", ")", n, "f", "a", "+", "1", n, "EndFunction", n, "f", "0">>,
  <<"Function", "f", "(", "a", "As", "Int", ")", "As", "Int", n, "Return", "a", "+", "1", n, "EndFunction", n,
    "Function", "f", "(", "a", "As", "Float", ")", "As", "Int", n, "Return", "a", "*", "5", n, "EndFunction", n,
    "out", "f", "(", "1", ")", n, "out", "f", "(", "1", ".", "5", ")">>,
  <<"Function", "f", "(", "a", "As", "Float", ",", "b", "As", "Int", ")", "As", "Int", n, "Return", "1", n,
    "EndFunction", n, "Function", "f", "(", "a", "As", "Int", ",", "b", "As", "Int", ")", "As", "Int", n,
    "Return", "5", n, "EndFunction", n, "out", "f", "(", "1", ",", "0", ".", "5", ")", n, "out", "f", "(", "0",
    ".", "5", ",", "1", ")", n, "Dim", "d", "As", "Long", "=", "5", n, "out", "f", "(", "1", ",", "d", ")">>,
  <<"Function", "f", "(", "a", "As", "Byte", ",", "b", "As", "Int", ")", "As", "Int", n, "Return", "1", n,
    "EndFunction", n, "Function", "f", "(", "a", "As", "Long", ",", "b", "As", "Float", ")", "As", "Int", n,
    "Return", "5", n, "EndFunction", n, "Function", "f", "(", "a", "As", "Long", ",", "b", "As", "Long", ")",
    "As", "Int", n, "Return", "9", n, "EndFunction", n, "i", "=", "2", n, "out", "f", "(", "i", ",", "1", ")", n,
    "out", "f", "(", "i", ",", "0", ".", "5", ")">>,
  <<"Function", "f", "(", "a", "As", "Byte", ")", n, "out", "1", n, "EndFunction", n, "Function", "f", "(", "a",
    "As", "Long", ")", "As", "Int", n, "Return", "5", n, "EndFunction", n, "i", "=", "2", n, "f", "i", n, "out",
    "f", "(", "i", ")">>,
  <<"Function", "f", "(", ")", "As", "Int", n, "Return", "1", n, "EndFunction", n, "Function", "f", "(", ")", n,
    "out", "5", n, "EndFunction", n, "out", "f", "(", ")", n, "f", n, "f", "(", ")">>,
  <<"Global", "g", "As", "Int", "=", "1", n, "Global", "i", "As", "Float", n, "Function", "f", "(", "a", "As",
    "Int", ")", "As", "Int", n, "g", "=", "g", "+", "a", n, "i", "=", "i", "+", "g", n, "Return", "g", n,
    "EndFunction", n, "out", "f", "(", "5", ")", "+", "g", n, "out", "g", "+", "f", "(", "1", ")", n, "out", "i">>,
  <<"Function", "f", "(", "a", "As", "Int", ",", "b", "#", ")", "As", "String", n, "Return", "a", "+", "b", "#",
    n, "EndFunction", n, "Dim", "d", "As", "Function", "(", "Int", ",", "Float", ")", "As", "String", n, "d",
    "=", "f", n, "out", "d", "(", "1", ",", "0", ".", "5", ")", n, "d", "=", "Null", n, "If", "d", "=", "Null",
    "Then", "out", "1", n, "out", "d", "(", "1", ",", "0", ".", "5", ")">>,
  <<"Function", "f", "(", "a", "As", "Int", ")", "As", "Int", n, "Return", "-", "a", n, "EndFunction", n,
    "Function", "f", "(", "a", "As", "Float", ")", "As", "Float", n, "Return", "a", n, "EndFunction", n, "Dim",
    "d", "As", "Function", "(", "Float", ")", "As", "Float", n, "d", "=", "f", n, "out", "d", "(", "1", ".",
    "5", ")", n, "g", "(", "d", ")", n, "Function", "g", "(", "a", "As", "Function", "(", "Float", ")", "As",
    "Float", ")", n, "out", "a", "(", "0", ".", "5", ")", n, "EndFunction">>,
  <<"Function", "f", "(", "a", "As", "Int", ",", "b", "As", "Int", ")", "As", "Int", n, "While", "True", n,
    "For", "i", "=", "a", "To", "b", n, "If", "i", "=", "5", "Then", "Return", "i", n, "Next", n, "a", "=", "a",
    "+", "5", n, "b", "=", "b", "+", "5", n, "Wend", n, "EndFunction", n, "out", "f", "(", "0", ",", "1", ")",
    n, "out", "f", "(", "1", ",", "9", ")">>,
  <<"Function", "f", "(", "a", "As", "Byte", ")", "As", "Byte", n, "Return", "a", "+", "1", ".", "5", n,
    "EndFunction", n, "Dim", "b", "As", "Short", "=", "f", "(", "2", ")", n, "out", "b", n, "b", "=", "0", ".",
    "5", "+", "f", "(", "0", ")", n, "out", "b">> }

\* Arrays, and what stops a program.
Arrays == {
  <<"Dim", "a", "As", "Int", "[", "]", "=", "New", "Int", "[", "5", "]", n, "For", "i", "=", "0", "To", "Len",
    "(", "a", ")", "-", "1", n, "a", "[", "i", "]", "=", "i", "*", "i", n, "Next", n, "For", "i", "=", "Each",
    "a", n, "If", "i", "=", "9", "Then", "Continue", n, "If", "i", ">", "9", "Then", "Break", n, "out", "i", n,
    "Next", n, "out", "a", "[", "5", "]">>,
  <<"Dim", "a", "As", "Float", "[", ",", "]", "=", "New", "Float", "[", "1", ",", "2", "]", n, "a", "[", "0",
    ",", "1", "]", "=", "5", n, "b", "=", "a", n, "b", "[", "0", ",", "0", "]", "=", "a", "[", "0", ",", "1",
    "]", "/", "9", n, "For", "d", "=", "Each", "a", n, "out", "d", n, "Next">>,
  <<"Dim", "a", "As", "Float", "[", ",", "]", "=", "New", "Float", "[", "1", ",", "2", "]", n, "out", "Len",
    "(", "a", ",", "1", ")", n, "out", "Len", "(", "a", ",", "5", ")", n, "a", "[", "1", ",", "0", "]", "=", "1">>,
  <<"Dim", "a", "As", "Int", "[", "]", "[", "]", "=", "New", "(", "Int", "[", "]", ")", "[", "5", "]", n, "a",
    "[", "1", "]", "=", "New", "Int", "[", "1", "]", n, "a", "[", "1", "]", "[", "0", "]", "=", "9", n, "out",
    "a", "[", "1", "]", "[", "0", "]", n, "b", "=", "a", "[", "1", "]", n, "b", "[", "0", "]", "=", "5", n,
    "out", "a", "[", "1", "]", "[", "0", "]", n, "a", "[", "0", "]", "[", "0", "]", "=", "1">>,
  <<"Dim", "a", "As", "Int", "[", "]", "=", "New", "Int", "[", "1", "]", n, "b", "=", "a", n, "Redim", "a",
    "As", "Int", "[", "5", "]", n, "If", "a", "<", ">", "Null", "Then", "out", "Len", "(", "a", ")", "+", "Len",
    "(", "b", ")", n, "a", "=", "Null", n, "If", "a", "=", "Null", "Then", "out", "0", n, "out", "a", "[", "0",
    "]">>,
  <<"Dim", "a", "As", "Byte", "[", "]", "=", "New", "Byte", "[", "5", "]", n, "a", "[", "-", "1", "]", "=", "1">>,
  <<"Dim", "a", "As", "String", "[", "]", "=", "New", "String", "[", "1", "-", "5", "]">>,
  <<"Dim", "a", "As", "Int", "[", "]", n, "For", "i", "=", "Each", "a", n, "out", "i", n, "Next">>,
  <<"a", "=", "5", n, "Dim", "b", ",", "d", "As", "Long", n, "d", "=", "a", "*", "9", n, "out", "b", "+", "d",
    n, "b", "=", "d", "/", "0">> }

\* Types and structs: checked, lowered and verified.
Records == {
  <<"Type", "a", n, "Field", "b", "As", "Int", n, "Field", "f", "As", "a", n, "Field", "g", "As", "Int", "[",
    "]", n, "EndType", n, "Dim", "d", "As", "a", n, "d", "=", "New", "a", n, "d", ".", "b", "=", "0", ".", "5",
    n, "d", ".", "f", "=", "d", n, "d", ".", "f", ".", "g", "[", "1", "]", "=", "d", ".", "b", n, "For", "i",
    "=", "Each", "a", n, "If", "i", ".", "b", "Then", "Delete", "i", n, "Next", n, "d", "=", "First", "(", "a",
    ")", n, "If", "d", "<", ">", "Null", "Then", "d", "=", "Next", "(", "d", ")", n, "Delete", "Last", "(", "a",
    ")", n, "Delete", "d", ".", "f">>,
  <<"Struct", "a", n, "Field", "b", "As", "Int", n, "EndStruct", n, "Dim", "d", "As", "a", n, "d", ".", "b",
    "=", "5", n, "out", "d", ".", "b">> }

\* Programs the checker refuses, at several places each.
Faults == {
  <<"out", "a", n, "Dim", "a", "As", "Int", n, "Dim", "a", "As", "Int">>,
  <<"a", "=", "\"", "a", "\"", "-", "1", n, "a", "=", "5", "<", "\"", "a", "\"", n, "b", "=", "f", "(", "1",
    ")", n, "Goto", "f">>,
  <<"Function", "f", "(", "a", "As", "Int", ")", "As", "Int", n, "Return", n, "EndFunction", n, "Function", "f",
    "(", "a", "As", "Int", ")", "As", "Int", n, "Return", "\"", "a", "\"", n, "EndFunction", n, "f", "(", ")",
    n, "Break", n, "Dim", "d", "As", "Int", "=", "\"", "a", "\"", n, "out", "d", ".", "a">>,
  <<"Dim", "a", "As", "Int", "[", "]", n, "a", "[", "1", ",", "1", "]", "=", "1", n, "a", "=", "5", n, "For",
    "a", "=", "1", "To", "\"", "a", "\"", n, "Next", n, "a", "(", "1", ")", n, "Const", "b", "=", "a", n,
    "Return", "1", n, "Dim", "d", "As", "Byte", "=", "5", n, "out", "=", "1">>,
  <<"Function", "f", "(", "a", "As", "Int", ")", n, "EndFunction", n, "Function", "f", "(", "a", "As", "Float",
    ")", n, "EndFunction", n, "Dim", "d", "As", "Function", "(", "Byte", ")", n, "d", "=", "f", n, "out", "f",
    n, "f", "\"", "a", "\"", n, "d", "(", ")", n, "a", "=", "Null", n, "Select", "1", n, "Case", "d", n,
    "EndSelect", n, "Delete", "a", n, "Redim", "a", "As", "Int", "[", "\"", "a", "\"", "]">>,
  <<"Goto", "a", n, "For", "i", "=", "1", "To", "5", n, "a", ":", n, "Next", n, "get", "(", ")", "=", "5", n,
    "a", "$", "=", "1", n, "out", "a", "%", n, "Dim", "d", "%", "As", "Float", n, "Continue", n, "Dim", "f",
    "As", "Bool">>,
  <<"Function", "f", "(", "a", "As", "Float", ",", "b", "As", "Int", ")", "As", "Int", n, "Return", "1", n,
    "EndFunction", n, "Function", "f", "(", "a", "As", "Int", ",", "b", "As", "Float", ")", "As", "Int", n,
    "Return", "5", n, "EndFunction", n, "out", "f", "(", "1", ",", "1", ")">>,
  <<"Function", "f", "(", "a", "As", "Byte", ")", "As", "Int", n, "Return", "1", n, "EndFunction", n, "Function",
    "f", "(", "a", "As", "Long", ")", "As", "Int", n, "Return", "5", n, "EndFunction", n, "i", "=", "2", n, "out",
    "f", "(", "i", ")">>,
  <<"Type", "a", n, "Field", "b", "As", "Int", n, "EndType", n, "Type", "a", n, "EndType", n, "Dim", "d", "As",
    "a", n, "d", ".", "f", "=", "New", "a", n, "out", "First", "(", "d", ")", n, "out", "a", n, "Delete", "5",
    n, "Len", "(", "\"", "a", "\"", ",", "1", ")", n, "Len", "(", "1", ")", n, "f", "=", "New", "Int", n, "g",
    "=", "d", "[", "1", "]">>,
  <<"Function", "f", "(", ")", n, "Return", "1", n, "EndFunction", n, "out", "f", "(", ")", n, "Const", "d",
    "=", "1", "/", "0", n, "Const", "g", "=", "1", ".", "5", "/", "0", ".", "0", n, "Const", "i", "=", "f", "(",
    ")", n, "If", "\"", "a", "\"", "Then", "End", n, "Break", "2", n, "Include", "\"", "a", "\"", n, "d", "=",
    "1", "BinAnd", "0", ".", "5">> }

MCSources == {Spaced(ps) : ps \in Arithmetics \cup Flow \cup Functions \cup Arrays \cup Records \cup Faults}

\* A For over a Long; an argument left to its default.
MCForOverLong == {Spaced(
  <<"Dim", "d", "As", "Long", "=", "1", n, "For", "d", "=", "0", "To", "5", n, "out", "d", n, "Next">>)}
MCOmittedArgument == {Spaced(
  <<"f", "1", n, "Function", "f", "(", "a", "As", "Int", ",", "b", "As", "Int", "=", "5", ")", n, "out", "a",
    "+", "b", n, "EndFunction">>)}
=============================================================================
