----------------------------- MODULE CommandLine -----------------------------
(***************************************************************************)
(* The command line: read the program, paste its includes, report what the  *)
(* front end found, check, lower, and hand the result to a backend.          *)
(*                                                                         *)
(* What the lexer and the parser make of a file are parameters of the actions *)
(* that ask them: the diagnostics `said`, and a program, which is for each    *)
(* top-level statement the file it includes (<<>> for any other statement).    *)
(* `Driver` puts the lexer and the parser there, `Includes` anything.          *)
(* A file that cannot be read is not in DOMAIN Files.  Semantic analysis and   *)
(* the backend are the choices they leave to the driver: errors found or not,  *)
(* and how a run ends.                                                      *)
(***************************************************************************)
EXTENDS Integers, Sequences

CONSTANTS Files,         \* Files[f]: the text of file f, one that is included
          Invocations,   \* [main, text, dumps, backend]: the input file and its text, the
                         \* --dump-ast / --dump-ir flags, what --backend names ("": not given)
          Unreadable,    \* the text of a main file that cannot be read
          ExitCodes      \* what a program may return

ASSUME ExitCodesAssumption == ExitCodes \subseteq Int

VARIABLES stage,     \* "read", "parse", "expand", "check", "run" or "exited"
          text,      \* the main file's text
          flags,     \* [main, dumps, backend]
          visited,   \* the files included so far
          work,      \* the files being pasted: a stack of [file, rest], the statements left
          arena,     \* the files parsed: arena[f] is the program of f
          merged,    \* the statements pasted, in order
          found,     \* the diagnostics collected: <<code, place>>
          hadError,  \* had_error
          code       \* the process's exit code

driver == <<stage, text, flags, visited, work, arena, merged, found, hadError, code>>

Clamp(n) == IF n < 0 THEN 0 ELSE IF n > 255 THEN 255 ELSE n
Usage == 2
Known == {"interp", "llvm"}
Exit(n) == stage' = "exited" /\ code' = n

\* Begin to parse file f: what the lexer said of it.
Parsing(said) == stage' = "parse" /\ found' = found \cup said
Opened(f) == [file |-> f, rest |-> <<>>]

Usable == flags.backend \in Known \cup {""} /\ text # Unreadable
Start(said) ==
  /\ stage = "read" /\ Usable
  /\ Parsing(said)
  /\ visited' = {flags.main}
  /\ work' = <<Opened(flags.main)>>
  /\ UNCHANGED <<text, flags, arena, merged, hadError, code>>
Refuse ==
  /\ stage = "read" /\ ~Usable
  /\ Exit(Usage)
  /\ UNCHANGED <<text, flags, visited, work, arena, merged, found, hadError>>

\* The file is parsed: its statements wait to be pasted.
Top == work[Len(work)]
EndParseMarks(program, said) ==
  /\ stage = "parse"
  /\ stage' = "expand"
  /\ found' = found \cup said
  /\ work' = [work EXCEPT ![Len(work)].rest = [i \in DOMAIN program |-> [id |-> i, path |-> program[i]]]]
  /\ arena' = [f \in DOMAIN arena \cup {Top.file} |-> IF f = Top.file THEN program ELSE arena[f]]
  /\ visited' = visited \cup {program[i] : i \in DOMAIN program}
  /\ UNCHANGED <<text, flags, merged, hadError, code>>
EndParse(program, said) ==
  /\ stage = "parse"
  /\ stage' = "expand"
  /\ found' = found \cup said
  /\ work' = [work EXCEPT ![Len(work)].rest = [i \in DOMAIN program |-> [id |-> i, path |-> program[i]]]]
  /\ arena' = [f \in DOMAIN arena \cup {Top.file} |-> IF f = Top.file THEN program ELSE arena[f]]
  /\ UNCHANGED <<text, flags, visited, merged, hadError, code>>

OpenNow(target) == \E i \in DOMAIN work : work[i].file = target
Seen(target) == target \in visited
\* One statement: kept, or replaced by the file it includes unless that came before.
Pasting == stage = "expand" /\ work # <<>> /\ Top.rest # <<>>
Stmt == Head(Top.rest)
Rest == [work EXCEPT ![Len(work)].rest = Tail(@)]
Keep ==
  /\ Pasting /\ Stmt.path = <<>>
  /\ merged' = Append(merged, <<Top.file, Stmt.id>>)
  /\ work' = Rest
  /\ UNCHANGED <<stage, text, flags, visited, arena, found, hadError, code>>
Repeated ==
  /\ Pasting /\ Stmt.path # <<>> /\ Seen(Stmt.path)
  /\ work' = Rest
  /\ UNCHANGED <<stage, text, flags, visited, arena, merged, found, hadError, code>>
MissingEndsFile ==
  /\ Pasting /\ Stmt.path # <<>> /\ ~Seen(Stmt.path) /\ Stmt.path \notin DOMAIN Files
  /\ visited' = visited \cup {Stmt.path}
  /\ found' = found \cup {<<"E0334", Stmt.path>>}
  /\ work' = [work EXCEPT ![Len(work)].rest = <<>>]
  /\ UNCHANGED <<stage, text, flags, arena, merged, hadError, code>>
Missing ==
  /\ Pasting /\ Stmt.path # <<>> /\ ~Seen(Stmt.path) /\ Stmt.path \notin DOMAIN Files
  /\ visited' = visited \cup {Stmt.path}
  /\ found' = found \cup {<<"E0334", Stmt.path>>}
  /\ work' = Rest
  /\ UNCHANGED <<stage, text, flags, arena, merged, hadError, code>>
Readable == Pasting /\ Stmt.path # <<>> /\ ~Seen(Stmt.path) /\ Stmt.path \in DOMAIN Files
Descend(said) ==
  /\ Readable
  /\ Parsing(said)
  /\ visited' = visited \cup {Stmt.path}
  /\ work' = Append(Rest, Opened(Stmt.path))
  /\ UNCHANGED <<text, flags, arena, merged, hadError, code>>
EndFile ==
  /\ stage = "expand" /\ work # <<>> /\ Top.rest = <<>>
  /\ work' = SubSeq(work, 1, Len(work) - 1)
  /\ UNCHANGED <<stage, text, flags, visited, arena, merged, found, hadError, code>>

\* A dump prints the tree before anything else is said; the catalogue may be missing.
Report(catalog) ==
  /\ stage = "expand" /\ work = <<>>
  /\ hadError' = (found # {})
  /\ CASE catalog -> stage' = "check" /\ UNCHANGED code
       [] ~catalog /\ flags.dumps = {"ast"} -> Exit(IF hadError' THEN 1 ELSE 0)
       [] ~catalog /\ flags.dumps # {"ast"} -> Exit(Usage)
  /\ UNCHANGED <<text, flags, visited, work, arena, merged, found>>

LastFound(errors) == errors
AnyFound(errors) == hadError \/ errors
\* analyze, and lower when nothing is wrong.
Check(errors) ==
  /\ stage = "check"
  /\ hadError' = AnyFound(errors)
  /\ IF ~hadError' /\ flags.dumps = {} THEN stage' = "run" /\ UNCHANGED code
     ELSE Exit(IF hadError' THEN 1 ELSE 0)
  /\ UNCHANGED <<text, flags, visited, work, arena, merged, found>>

\* The interpreter runs the program, the compiler leaves an executable.
RunProgram(outcome) ==
  /\ stage = "run"
  /\ outcome = "ran" <=> flags.backend # "llvm"
  /\ \E n \in ExitCodes :
       Exit(CASE outcome = "ran" -> Clamp(n) [] outcome = "produced" -> 0)
  /\ UNCHANGED <<text, flags, visited, work, arena, merged, found, hadError>>
RunFails ==
  /\ stage = "run"
  /\ \/ \E n \in {1, 3} : Exit(n)             \* BackendErrorKind: Failed, Unimplemented
     \/ flags.backend = "" /\ Exit(Usage)      \* a build without a backend
  /\ UNCHANGED <<text, flags, visited, work, arena, merged, found, hadError>>

\* What needs neither the lexer nor the parser.
Later == \/ EndFile
         \/ \E b \in BOOLEAN : Report(b) \/ Check(b)
         \/ \E outcome \in {"ran", "produced"} : RunProgram(outcome)
         \/ RunFails
-----------------------------------------------------------------------------
DriverInit ==
  /\ stage = "read"
  /\ \E c \in Invocations : /\ text = c.text
                            /\ flags = [main |-> c.main, dumps |-> c.dumps, backend |-> c.backend]
  /\ visited = {} /\ work = <<>> /\ arena = <<>> /\ merged = <<>> /\ found = {}
  /\ hadError = FALSE /\ code = 0
-----------------------------------------------------------------------------
(* Properties.                                                              *)

\* Every statement is pasted at most once and in the order of its file, whatever
\* includes whatever.
PastesOnce ==
  \A i, j \in DOMAIN merged :
    i < j /\ merged[i][1] = merged[j][1] => merged[i][2] < merged[j][2]

Pasted == {merged[i] : i \in DOMAIN merged}
Whole(f) == f \in DOMAIN arena /\ \A i \in DOMAIN arena[f] : arena[f][i] = <<>> => <<f, i>> \in Pasted

\* A file is pasted once, as a whole and at one place: no two files interleave, however
\* they include each other, and of a file that is done nothing is missing.
PastesWhole ==
  /\ PastesOnce
  /\ \A i, j, k, l \in DOMAIN merged :
       i < j /\ j < k /\ k < l /\ merged[i][1] = merged[k][1] /\ merged[j][1] = merged[l][1]
       => merged[i][1] = merged[j][1]
  /\ \A f \in DOMAIN arena : OpenNow(f) \/ Whole(f)

\* What stands after an Include finds the whole file there: the file is pasted before
\* the next statement is, unless it is one that includes this one, still open.
Waits(f, n) == \E i \in DOMAIN work : /\ work[i].file = f
                                     /\ \E j \in DOMAIN work[i].rest : work[i].rest[j].id = n
IncludedComesFirst ==
  \A f \in DOMAIN arena : \A n \in DOMAIN arena[f] :
    LET target == arena[f][n] IN
    target # <<>> /\ target \in DOMAIN Files /\ ~Waits(f, n) => OpenNow(target) \/ Whole(target)

\* Whatever the front end finds, in any file, reaches the exit code: 1, or 2
\* where the catalogue is missing.
ErrorsReachTheExit == stage = "exited" /\ found # {} => code \in {1, Usage}
=============================================================================
