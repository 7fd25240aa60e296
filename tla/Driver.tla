------------------------------- MODULE Driver -------------------------------
(***************************************************************************)
(* The command line with its lexer and its parser: a file is tokenized as it *)
(* is opened, and parsed statement by statement.                            *)
(*                                                                         *)
(* Files are sequences of pieces (see Lexer).                               *)
(***************************************************************************)
EXTENDS Parser, CommandLine

vars == <<toks, p, driver>>

\* Begin to parse a text: its tokens, and what the lexer said.
Diagnosed(lexed) == {<<lexed.diags[i], i>> : i \in DOMAIN lexed.diags}
Tokens(lexed) == toks' = lexed.tokens /\ p' = ParserStart

ParseMain == stage = "read" /\ Usable /\ \E lexed \in {Tokenize(text)} :
               Start(Diagnosed(lexed)) /\ Tokens(lexed)
ParseIncluded == Readable /\ \E lexed \in {Tokenize(Files[Stmt.path])} :
                   Descend(Diagnosed(lexed)) /\ Tokens(lexed)
Parse == stage = "parse" /\ ParseStep /\ UNCHANGED driver

\* What the file's top-level statements include.
Included(node) == IF node[1] = "Include" THEN toks[node[2][2]].v ELSE <<>>
FileParsed == /\ Parsed
              /\ EndParse([i \in DOMAIN p.nodes |-> Included(p.nodes[i])], p.diags)
              /\ UNCHANGED <<toks, p>>
-----------------------------------------------------------------------------
Init == DriverInit /\ toks = <<>> /\ p = ParserStart

Next == \/ ParseMain \/ ParseIncluded \/ Parse \/ FileParsed
        \/ (Refuse \/ Keep \/ Repeated \/ Missing \/ Later) /\ UNCHANGED <<toks, p>>

Spec == Init /\ [][Next]_vars
=============================================================================
