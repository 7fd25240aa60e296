------------------------------- MODULE Lexer -------------------------------
(***************************************************************************)
(* The lexer of cb-frontend: one pass over the source, one token at a time. *)
(*                                                                         *)
(* A source is a sequence of pieces: punctuation, digits, blanks and line   *)
(* ends one character each, and words, so that an identifier is a run of    *)
(* words, digits and underscores.  A token is a record [k, at, to, v]: its  *)
(* kind, the piece it starts at, the piece after its last one, its text.    *)
(* Trivia is dropped, as LexerOptions::default() asks.                      *)
(***************************************************************************)
EXTENDS Naturals, Sequences

CONSTANTS Words,      \* pieces an identifier may be made of
          Keywords,   \* the words that are keywords when they stand alone
          MaxDigits,  \* digits of the largest literal that fits in a u64
          MaxCount    \* ... of the largest that fits in a u32

Blanks == {" ", "\t"}
LineEnds == {"\n", "\r"}
Binary == {"0", "1"}
Digits == Binary \cup {"2", "5", "9"}
HexDigits == Digits \cup {"e"}
Single == {"+", "-", "*", "^", "=", "(", ")", "[", "]", ",", ":", ";", "."}
Sigils == {"%", "#", "$"}

At(src, i) == IF i <= Len(src) THEN src[i] ELSE "eof"
Text(src, i, j) == SubSeq(src, i, j - 1)

\* eat_while: the first place from i on whose piece is not in S.
RECURSIVE Past(_, _, _)
Past(src, i, S) == IF At(src, i) \in S THEN Past(src, i + 1, S) ELSE i

LineEnd(src, i) == IF At(src, i) = "\r" /\ At(src, i + 1) = "\n" THEN i + 2
                   ELSE IF At(src, i) \in LineEnds THEN i + 1 ELSE i
ToLineEnd(src, i) ==
  CHOOSE j \in i .. Len(src) + 1 :
    /\ At(src, j) \in LineEnds \cup {"eof"}
    /\ \A k \in i .. j - 1 : src[k] \notin LineEnds

Tok(src, k, i, j) == [k |-> k, at |-> i, to |-> j, v |-> Text(src, i, j), d |-> <<>>]
Trivia(i, j) == [k |-> "trivia", at |-> i, to |-> j, v |-> <<>>, d |-> <<>>]
Bad(src, i, j, d) == [Tok(src, "error", i, j) EXCEPT !.d = d]

\* `\`, blanks and a line end fuse two lines; any other `\` is an operator.
Continuation(src, i) ==
  LET j == Past(src, i + 1, Blanks) IN
  IF At(src, j) \in LineEnds THEN Trivia(i, LineEnd(src, j)) ELSE Tok(src, "\\", i, i + 1)

\* Block comments nest.  0: the end of the file came first.
RECURSIVE CommentEnd(_, _, _)
CommentEnd(src, i, depth) ==
  CASE depth = 0 -> i
    [] At(src, i) = "eof" -> 0
    [] At(src, i) = "/" /\ At(src, i + 1) = "*" -> CommentEnd(src, i + 2, depth + 1)
    [] At(src, i) = "*" /\ At(src, i + 1) = "/" -> CommentEnd(src, i + 2, depth - 1)
    [] OTHER -> CommentEnd(src, i + 1, depth)

PastComment(src, i) ==
  LET j == CommentEnd(src, i + 2, 1) IN
  IF j = 0 THEN Bad(src, i, Len(src) + 1, <<"E0103">>) ELSE Trivia(i, j + 1)
BlockComment(src, i) ==
  LET j == CommentEnd(src, i + 2, 1) IN
  IF j = 0 THEN Bad(src, i, Len(src) + 1, <<"E0103">>) ELSE Trivia(i, j)

Slash(src, i) == CASE At(src, i + 1) = "/" -> Trivia(i, ToLineEnd(src, i))
                   [] At(src, i + 1) = "*" -> BlockComment(src, i)
                   [] OTHER -> Tok(src, "/", i, i + 1)

\* A verbatim string ends at its quote; a line end or the file's end is an error
\* and stays where it is.  In an escaped one `\` takes the next piece with it.
RECURSIVE StringFrom(_, _, _, _)
StringFrom(src, i, j, escaped) ==
  LET c == At(src, j) IN
  CASE c = "\"" -> Tok(src, "str", i, j + 1)
    [] c = "eof" -> Bad(src, i, j, <<"E0102">>)
    [] c \in LineEnds -> Bad(src, i, j, <<"E0101">>)
    [] c = "\\" /\ escaped /\ At(src, j + 1) \notin LineEnds \cup {"eof"} ->
         StringFrom(src, i, j + 2, escaped)
    [] OTHER -> StringFrom(src, i, j + 1, escaped)

RECURSIVE RawFrom(_, _, _)
RawFrom(src, i, j) ==
  CASE At(src, j) = "\"" /\ At(src, j + 1) = "\"" /\ At(src, j + 2) = "\"" -> Tok(src, "str", i, j + 3)
    [] At(src, j) = "eof" -> Bad(src, i, j, <<"E0102">>)
    [] OTHER -> RawFrom(src, i, j + 1)

\* A run of digits and separators.  One complaint for a separator before the
\* digits, one for each doubled one, one for a trailing one.  `seen`: the caller
\* has taken and reported a leading separator.
RunTo(src, i, seen, j) ==
  LET leading == ~seen /\ At(src, i) = "_"
      doubled(k) == src[k] = "_" /\ IF k = i THEN seen ELSE src[k - 1] = "_"
      trailing == j > i /\ src[j - 1] = "_"
      count == (IF leading THEN 1 ELSE 0) + (IF trailing THEN 1 ELSE 0)
               + Len(SelectSeq([k \in 1 .. j - i |-> k], LAMBDA k : doubled(i + k - 1)))
  IN  [to |-> j, d |-> [k \in 1 .. count |-> "E0105"],
       n |-> Len(SelectSeq(Text(src, i, j), LAMBDA c : c # "_")),
       zero |-> \A k \in i .. j - 1 : src[k] \in {"0", "_"}]
RunFrom(src, i, digits, seen) == RunTo(src, i, seen, Past(src, i, digits \cup {"_"}))

\* An integer is a u64; zero and what passes a u32 are told apart, since Break
\* refuses them.
Integer(src, i, run) ==
  IF run.n > MaxDigits THEN Bad(src, i, run.to, <<"E0107">>)
  ELSE Tok(src, IF run.zero THEN "zero" ELSE IF run.n > MaxCount THEN "big" ELSE "int", i, run.to)

WithDigits(run, more) == [more EXCEPT !.d = run.d \o @]
Scientific(src, i, sign, run) ==
  CASE run.to = sign -> Bad(src, i, sign, run.d \o <<"E0107">>)
    [] run.to # sign /\ run.d # <<>> -> Bad(src, i, run.to, run.d)
    [] OTHER -> Tok(src, "float", i, run.to)
Exponent(src, i, run, dot) ==
  LET sign == IF At(src, run.to + 1) \in {"+", "-"} THEN run.to + 2 ELSE run.to + 1 IN
  IF At(src, run.to) = "e" THEN Scientific(src, i, sign, WithDigits(run, RunFrom(src, sign, Digits, FALSE)))
  ELSE CASE run.d # <<>> -> Bad(src, i, run.to, run.d)
         [] run.d = <<>> /\ dot -> Tok(src, "float", i, run.to)
         [] OTHER -> Integer(src, i, run)
Fraction(src, i, whole) ==
  IF At(src, whole.to) = "." /\ At(src, whole.to + 1) \in Digits
  THEN Exponent(src, i, WithDigits(whole, RunFrom(src, whole.to + 1, Digits, FALSE)), TRUE)
  ELSE Exponent(src, i, whole, FALSE)
Number(src, i) == Fraction(src, i, RunFrom(src, i, Digits, FALSE))

\* `$` and `%` literals.
RadixDigits(src, i, run) == IF run.d # <<>> THEN Bad(src, i, run.to, run.d) ELSE Integer(src, i, run)
Radix(src, i, digits) ==
  CASE At(src, i + 1) \in digits -> RadixDigits(src, i, RunFrom(src, i + 1, digits, FALSE))
    [] At(src, i + 1) = "_" ->
         RadixDigits(src, i, WithDigits([d |-> <<"E0105">>], RunFrom(src, i + 2, digits, TRUE)))
    [] OTHER -> Bad(src, i, i + 1, <<"E0106">>)

\* Rem starts a comment; a keyword takes no sigil.
Word(src, i) ==
  LET j == Past(src, i, Words \cup Keywords \cup Digits \cup {"_", "rem", "e"})
      alone == j = i + 1
  IN  CASE alone /\ src[i] = "rem" -> Trivia(i, ToLineEnd(src, i))
        [] alone /\ src[i] \in Keywords -> Tok(src, src[i], i, j)
        [] At(src, j) \in Sigils -> Tok(src, "sid", i, j + 1)
        [] OTHER -> Tok(src, "id", i, j)

Operator(src, i) ==
  LET two == src[i] \o At(src, i + 1) IN
  IF two \in {"<=", "<>", ">="} THEN Tok(src, two, i, i + 2) ELSE Tok(src, src[i], i, i + 1)

ScanOne(src, i) ==
  LET c == src[i] IN
  CASE c \in Blanks -> Trivia(i, Past(src, i, Blanks))
    [] c \in LineEnds -> Tok(src, "nl", i, LineEnd(src, i))
    [] c = "\\" -> Continuation(src, i)
    [] c = "'" -> Trivia(i, ToLineEnd(src, i))
    [] c = "/" -> Slash(src, i)
    [] c = "\"" /\ At(src, i + 1) = "\"" /\ At(src, i + 2) = "\"" -> RawFrom(src, i, i + 3)
    [] c = "\"" /\ ~(At(src, i + 1) = "\"" /\ At(src, i + 2) = "\"") -> StringFrom(src, i, i + 1, FALSE)
    [] c = "$" /\ At(src, i + 1) = "\"" -> StringFrom(src, i, i + 2, TRUE)
    [] c = "$" /\ At(src, i + 1) # "\"" -> Radix(src, i, HexDigits)
    [] c = "%" -> Radix(src, i, Binary)
    [] c \in Digits -> Number(src, i)
    [] c \in Single \cup {"<", ">"} -> Operator(src, i)
    [] c \in Words \cup Keywords \cup {"_", "rem", "e"} -> Word(src, i)
    [] OTHER -> Bad(src, i, i + 1, <<"E0106">>)

\* run(): every token, the last one Eof, and every diagnostic, in order.
ScanNext(src, s) ==
  LET t == ScanOne(src, s.at) IN
  [at |-> t.to, tokens |-> IF t.k = "trivia" THEN s.tokens ELSE Append(s.tokens, t), diags |-> s.diags \o t.d]
RECURSIVE Scan(_, _, _)
Scan(src, s, n) ==       \* n tokens on, or to the end
  CASE s.at > Len(src) \/ n = 0 -> s
    [] s.at <= Len(src) /\ n = 1 -> ScanNext(src, s)
    [] s.at <= Len(src) /\ n > 1 -> Scan(src, Scan(src, s, n \div 2), n - n \div 2)
Tokenize(src) ==
  LET s == Scan(src, [at |-> 1, tokens |-> <<>>, diags |-> <<>>], Len(src)) IN
  [tokens |-> Append(s.tokens, Tok(src, "eof", s.at, s.at)), diags |-> s.diags]
=============================================================================
