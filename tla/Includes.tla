------------------------------ MODULE Includes ------------------------------
(***************************************************************************)
(* The command line over any files, whatever the lexer and the parser make   *)
(* of them: what it promises rests on neither.                               *)
(***************************************************************************)
EXTENDS CommandLine

CONSTANT Complaints     \* what the lexer or the parser may say of a file: sets of diagnostics

\* For each of its statements the file it includes: any program may be what a file parses to.
Programs == Seq(Seq(STRING))

Next == \/ \E said \in Complaints : Start(said) \/ Descend(said)
        \/ \E said \in Complaints, program \in Programs : EndParse(program, said)
        \/ Refuse \/ Keep \/ Repeated \/ Missing \/ Later

Spec == DriverInit /\ [][Next]_driver
=============================================================================
