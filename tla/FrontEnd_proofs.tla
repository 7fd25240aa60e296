--------------------------- MODULE FrontEnd_proofs ---------------------------
(***************************************************************************)
(* Proofs about the front end that rest on neither the lexer nor the       *)
(* parser: includes are pasted once, whole and in place, and complaints     *)
(* reach the exit code, for any files, however they include each other;     *)
(* and what the checker says of numbers and their operators is so when the   *)
(* interpreter computes with them, for any widths of the integer types.      *)
(***************************************************************************)
EXTENDS Includes, Overloads, FiniteSetTheorems, WellFoundedInduction, TLAPS

-----------------------------------------------------------------------------
(* The inductive invariant.                                                *)

Names == Seq(STRING) \cup {flags.main}
Statements == [id : Nat, path : Seq(STRING)]
TypeOK ==
  /\ stage \in {"read", "parse", "expand", "check", "run", "exited"}
  /\ work \in Seq([file : Names, rest : Seq(Statements)])
  /\ merged \in Seq(Names \X Nat)
  /\ visited \subseteq Names
  /\ DOMAIN arena \subseteq Names
  /\ \A f \in DOMAIN arena : arena[f] \in Seq(Seq(STRING))
  /\ hadError \in BOOLEAN

\* The files being pasted are distinct and were entered; all of them are parsed
\* but the one that is being parsed.
Stack ==
  /\ \A a, b \in DOMAIN work : work[a].file = work[b].file => a = b
  /\ \A a \in DOMAIN work : /\ work[a].file \in visited
                            /\ work[a].file \in DOMAIN arena <=> stage # "parse" \/ a # Len(work)
  /\ stage = "parse" => work # <<>>
  /\ stage = "read" => work = <<>> /\ DOMAIN arena = {} /\ merged = <<>> /\ visited = {}

\* A file that was entered and can be read is parsed or on the stack.
Entered ==
  /\ DOMAIN arena \subseteq visited
  /\ \A f \in visited \cap DOMAIN Files : f \in DOMAIN arena \/ OpenNow(f)

\* What is left of an open file is the end of its program.
Begun(a) == Len(arena[work[a].file]) - Len(work[a].rest)
Waiting ==
  \A a \in DOMAIN work : work[a].file \in DOMAIN arena =>
    /\ Begun(a) >= 0
    /\ \A j \in DOMAIN work[a].rest :
         /\ work[a].rest[j].id = Begun(a) + j
         /\ work[a].rest[j].path = arena[work[a].file][Begun(a) + j]

\* Every statement of a file that was parsed waits, or is pasted, or names a file that
\* was entered.
Books ==
  \A f \in DOMAIN arena : \A n \in DOMAIN arena[f] :
    \/ Waits(f, n)
    \/ arena[f][n] = <<>> /\ <<f, n>> \in Pasted
    \/ arena[f][n] # <<>> /\ arena[f][n] \in visited

\* What is pasted of an open file is what was begun of it, and files opened later are
\* pasted later; one that stands inside another is done.
Order ==
  /\ \A i \in DOMAIN merged : merged[i][1] \in DOMAIN arena
  /\ \A i \in DOMAIN merged, a \in DOMAIN work :
       merged[i][1] = work[a].file => merged[i][2] <= Begun(a)
  /\ \A i, j \in DOMAIN merged, a, b \in DOMAIN work :
       i < j /\ merged[i][1] = work[a].file /\ merged[j][1] = work[b].file => a <= b
  /\ \A i, j, k \in DOMAIN merged :
       i < j /\ j < k /\ merged[i][1] = merged[k][1] /\ merged[j][1] # merged[k][1]
       => ~OpenNow(merged[j][1])

\* No two files interleave: a part of PastesWhole.
Apart ==
  \A i, j, k, l \in DOMAIN merged :
    i < j /\ j < k /\ k < l /\ merged[i][1] = merged[k][1] /\ merged[j][1] = merged[l][1]
    => merged[i][1] = merged[j][1]

\* What the driver knows of the complaints at each stage.
Complained ==
  /\ stage = "read" => found = {}
  /\ stage = "check" => hadError = (found # {})
  /\ stage = "run" => found = {}
  /\ ErrorsReachTheExit

PasteInv == Stack /\ Entered /\ Waiting /\ Books /\ Order /\ PastesOnce /\ Apart
IInv == TypeOK /\ PasteInv /\ Complained
-----------------------------------------------------------------------------
(* Types.                                                                  *)

Frames == [file : Names, rest : Seq(Statements)]

LEMMA Replaced ==
  ASSUME NEW S, NEW T, NEW frame \in [file : S, rest : T], NEW rest \in T
  PROVE  [frame EXCEPT !.rest = rest] = [file |-> frame.file, rest |-> rest]
OBVIOUS

\* The statement at hand, and the stack without it.
LEMMA RestEffect ==
  ASSUME TypeOK, Pasting
  PROVE  /\ Len(work) \in Nat \ {0}
         /\ Top \in Frames /\ Stmt \in Statements /\ Stmt = Top.rest[1]
         /\ Len(Top.rest) \in Nat \ {0}
         /\ Rest \in Seq(Frames) /\ Len(Rest) = Len(work)
         /\ \A a \in DOMAIN work : Rest[a].file = work[a].file
         /\ \A a \in DOMAIN work : a # Len(work) => Rest[a] = work[a]
         /\ Rest[Len(work)].rest \in Seq(Statements)
         /\ Len(Rest[Len(work)].rest) = Len(Top.rest) - 1
         /\ \A j \in 1 .. Len(Top.rest) - 1 : Rest[Len(work)].rest[j] = Top.rest[j + 1]
<1>1. work \in Seq(Frames) /\ work # <<>> /\ Top.rest # <<>>
  BY DEF TypeOK, Pasting, Frames
<1>2. Len(work) \in Nat \ {0} /\ DOMAIN work = 1 .. Len(work)
  BY <1>1
<1>3. Top \in Frames
  BY <1>1, <1>2 DEF Top
<1>4. Top.file \in Names /\ Top.rest \in Seq(Statements)
  BY <1>3 DEF Frames
<1>5. Len(Top.rest) \in Nat \ {0} /\ Stmt = Top.rest[1] /\ Stmt \in Statements
  BY <1>1, <1>4 DEF Stmt
<1>6. /\ Tail(Top.rest) \in Seq(Statements) /\ Len(Tail(Top.rest)) = Len(Top.rest) - 1
      /\ \A j \in 1 .. Len(Top.rest) - 1 : Tail(Top.rest)[j] = Top.rest[j + 1]
  BY <1>1, <1>4
<1> DEFINE last == [file |-> Top.file, rest |-> Tail(Top.rest)]
<1>7. last \in Frames
  BY <1>4, <1>6 DEF Frames
<1>8. [Top EXCEPT !.rest = Tail(@)] = last
  <2>1. Top \in [file : Names, rest : Seq(Statements)]
    BY <1>3 DEF Frames
  <2>2. \A rest \in Seq(Statements) : [Top EXCEPT !.rest = rest] = [file |-> Top.file, rest |-> rest]
    BY <2>1, Replaced
  <2> QED
    BY <2>2, <1>6
<1>9. Rest = [work EXCEPT ![Len(work)] = last]
  BY <1>8 DEF Rest, Top
<1>10. /\ Rest \in Seq(Frames) /\ Len(Rest) = Len(work) /\ Rest[Len(work)] = last
       /\ \A a \in DOMAIN work : a # Len(work) => Rest[a] = work[a]
  BY <1>1, <1>2, <1>7, <1>9
<1>11. \A a \in DOMAIN work : Rest[a].file = work[a].file
  BY <1>10 DEF Top
<1> QED
  BY <1>2, <1>3, <1>5, <1>6, <1>10, <1>11

\* A file that is parsed waits from its first statement on.
LEMMA EndParseEffect ==
  ASSUME TypeOK, Stack, NEW said, NEW program \in Programs, EndParse(program, said)
  PROVE  /\ program \in Seq(Seq(STRING)) /\ Top.file \in Names
         /\ Len(work) \in DOMAIN work /\ DOMAIN work' = DOMAIN work /\ Len(work') = Len(work)
         /\ work' \in Seq(Frames)
         /\ \A a \in DOMAIN work : a # Len(work) => work'[a] = work[a]
         /\ work'[Len(work)].file = Top.file
         /\ work'[Len(work)].rest = [i \in DOMAIN program |-> [id |-> i, path |-> program[i]]]
         /\ Len(work'[Len(work)].rest) = Len(program)
         /\ DOMAIN arena' = DOMAIN arena \cup {Top.file}
         /\ \A f \in DOMAIN arena' : arena'[f] = IF f = Top.file THEN program ELSE arena[f]
<1>1. work \in Seq(Frames) /\ Len(work) \in DOMAIN work
  BY DEF EndParse, Stack, TypeOK, Frames
<1>2. program \in Seq(Seq(STRING))
  BY DEF Programs
<1> DEFINE rest == [i \in DOMAIN program |-> [id |-> i, path |-> program[i]]]
           parsed == [file |-> Top.file, rest |-> rest]
<1>3. Top \in Frames
  BY <1>1 DEF Top
<1>4. Top.file \in Names
  BY <1>3 DEF Frames
<1>5. \A i \in DOMAIN program : [id |-> i, path |-> program[i]] \in Statements
  BY <1>2 DEF Statements
<1>6. rest \in Seq(Statements) /\ Len(rest) = Len(program)
  <2>1. rest \in Seq(Statements)
    BY <1>2, <1>5
  <2>2. DOMAIN rest = 1 .. Len(program) /\ Len(program) \in Nat
    BY <1>2
  <2> HIDE DEF rest
  <2> QED
    BY <2>1, <2>2
<1>7. parsed \in Frames
  BY <1>4, <1>6 DEF Frames
<1>8. [Top EXCEPT !.rest = rest] = parsed
  BY <1>3, <1>6, Replaced DEF Frames
<1>9. work' = [work EXCEPT ![Len(work)] = parsed]
  <2>1. work' = [work EXCEPT ![Len(work)] = [Top EXCEPT !.rest = rest]]
    BY DEF EndParse, Top
  <2> QED
    BY <1>8, <2>1
<1> HIDE DEF rest
<1>10. /\ work' \in Seq(Frames) /\ DOMAIN work' = DOMAIN work /\ Len(work') = Len(work)
       /\ work'[Len(work)] = parsed /\ \A a \in DOMAIN work : a # Len(work) => work'[a] = work[a]
  BY <1>1, <1>7, <1>9
<1>11. /\ DOMAIN arena' = DOMAIN arena \cup {Top.file}
       /\ \A f \in DOMAIN arena' : arena'[f] = IF f = Top.file THEN program ELSE arena[f]
  BY DEF EndParse
<1> QED
  BY <1>1, <1>2, <1>4, <1>6, <1>10, <1>11 DEF rest

LEMMA TypeInit == DriverInit => TypeOK
<1> SUFFICES ASSUME DriverInit PROVE TypeOK
  OBVIOUS
<1>1. stage = "read" /\ visited = {} /\ work = <<>> /\ arena = <<>> /\ merged = <<>> /\ hadError = FALSE
  BY DEF DriverInit
<1>2. DOMAIN arena = {}
  BY <1>1
<1>3. \A f \in DOMAIN arena : arena[f] \in Seq(Seq(STRING))
  BY <1>2
<1>4. work \in Seq([file : Names, rest : Seq(Statements)]) /\ merged \in Seq(Names \X Nat)
  BY <1>1
<1> QED
  BY <1>1, <1>2, <1>3, <1>4 DEF TypeOK

LEMMA TypeNext == TypeOK /\ Stack /\ Next => TypeOK'
<1> SUFFICES ASSUME TypeOK, Stack, Next PROVE TypeOK'
  OBVIOUS
<1>a. UNCHANGED flags /\ Names' = Names
  BY DEF Next, Start, Descend, EndParse, Refuse, Keep, Repeated, Missing, Later, EndFile, Report, Check,
         RunProgram, RunFails, Names
<1>b. work \in Seq(Frames) /\ (TypeOK' <=>
        /\ stage' \in {"read", "parse", "expand", "check", "run", "exited"}
        /\ work' \in Seq(Frames)
        /\ merged' \in Seq(Names \X Nat)
        /\ visited' \subseteq Names
        /\ DOMAIN arena' \subseteq Names
        /\ \A f \in DOMAIN arena' : arena'[f] \in Seq(Seq(STRING))
        /\ hadError' \in BOOLEAN)
  BY <1>a DEF TypeOK, Frames
<1>o. \A f \in Names : Opened(f) \in Frames
  BY DEF Opened, Frames
<1>1. ASSUME NEW said, Start(said) PROVE TypeOK'
  <2>1. flags.main \in Names
    BY DEF Names
  <2>2. work' = <<Opened(flags.main)>> /\ Opened(flags.main) \in Frames
    BY <1>1, <1>o, <2>1 DEF Start
  <2> QED
    BY <1>1, <1>b, <2>1, <2>2 DEF Start, Parsing, TypeOK
<1>2. ASSUME NEW said, Descend(said) PROVE TypeOK'
  <2>1. Pasting
    BY <1>2 DEF Descend, Readable
  <2>2. Stmt.path \in Names /\ Rest \in Seq(Frames)
    BY <2>1, RestEffect DEF Statements, Names
  <2>3. work' \in Seq(Frames)
    BY <1>2, <1>o, <2>2 DEF Descend
  <2> QED
    BY <1>2, <1>b, <2>2, <2>3 DEF Descend, Parsing, TypeOK
<1>3. ASSUME NEW said, NEW program \in Programs, EndParse(program, said) PROVE TypeOK'
  <2>1. /\ program \in Seq(Seq(STRING)) /\ Top.file \in Names /\ work' \in Seq(Frames)
        /\ DOMAIN arena' = DOMAIN arena \cup {Top.file}
        /\ \A f \in DOMAIN arena' : arena'[f] = IF f = Top.file THEN program ELSE arena[f]
    BY <1>3, EndParseEffect
  <2>2. DOMAIN arena' \subseteq Names /\ \A f \in DOMAIN arena' : arena'[f] \in Seq(Seq(STRING))
    BY <2>1 DEF TypeOK
  <2> QED
    BY <1>3, <1>b, <2>1, <2>2 DEF EndParse, TypeOK
<1>4. CASE Refuse
  BY <1>4, <1>b DEF Refuse, Exit, TypeOK
<1>5. CASE Keep
  <2>1. /\ Rest \in Seq(Frames) /\ Top \in Frames /\ Stmt \in Statements
    BY <1>5, RestEffect DEF Keep
  <2>2. <<Top.file, Stmt.id>> \in Names \X Nat
    BY <2>1 DEF Frames, Statements
  <2> QED
    BY <1>5, <1>b, <2>1, <2>2 DEF Keep, TypeOK
<1>6. CASE Repeated
  BY <1>6, <1>b, RestEffect DEF Repeated, TypeOK
<1>7. CASE Missing
  <2>1. /\ Rest \in Seq(Frames) /\ Stmt.path \in Names
    BY <1>7, RestEffect DEF Missing, Statements, Names
  <2> QED
    BY <1>7, <1>b, <2>1 DEF Missing, TypeOK
<1>8. CASE EndFile
  <2>1. work' \in Seq(Frames)
    BY <1>8, <1>b DEF EndFile
  <2> QED
    BY <1>8, <1>b, <2>1 DEF EndFile, TypeOK
<1>9. ASSUME NEW b \in BOOLEAN, Report(b) PROVE TypeOK'
  BY <1>9, <1>b DEF Report, Exit, TypeOK
<1>10. ASSUME NEW b \in BOOLEAN, Check(b) PROVE TypeOK'
  BY <1>10, <1>b DEF Check, AnyFound, Exit, TypeOK
<1>11. ASSUME NEW outcome, RunProgram(outcome) PROVE TypeOK'
  BY <1>11, <1>b DEF RunProgram, Exit, TypeOK
<1>12. CASE RunFails
  BY <1>12, <1>b DEF RunFails, Exit, TypeOK
<1> QED
  BY <1>1, <1>2, <1>3, <1>4, <1>5, <1>6, <1>7, <1>8, <1>9, <1>10, <1>11, <1>12 DEF Next, Later
-----------------------------------------------------------------------------
(* Includes.                                                               *)

LEMMA BegunInt ==
  ASSUME TypeOK
  PROVE  \A a \in DOMAIN work : work[a].file \in DOMAIN arena => Begun(a) \in Int
<1> SUFFICES ASSUME NEW a \in DOMAIN work, work[a].file \in DOMAIN arena PROVE Begun(a) \in Int
  OBVIOUS
<1>1. work \in Seq(Frames) /\ arena[work[a].file] \in Seq(Seq(STRING))
  BY DEF TypeOK, Frames
<1>2. work[a] \in Frames
  BY <1>1
<1>3. work[a].rest \in Seq(Statements)
  BY <1>2 DEF Frames
<1> QED
  BY <1>1, <1>3 DEF Begun

\* A step to the next statement, whatever happens to this one.
LEMMA Advance ==
  ASSUME TypeOK, PasteInv, Pasting, UNCHANGED arena,
         work' = Rest \/ work' = Append(Rest, Opened(Stmt.path))
  PROVE  /\ Len(work) \in Nat \ {0} /\ DOMAIN work = 1 .. Len(work)
         /\ DOMAIN work' = 1 .. Len(work) \/ DOMAIN work' = 1 .. Len(work) + 1
         /\ \A a \in DOMAIN work : a \in DOMAIN work' /\ work'[a].file = work[a].file
         /\ Top.file \in DOMAIN arena
         /\ Stmt.id = Begun(Len(work)) + 1 /\ Stmt.path = arena[Top.file][Stmt.id]
         /\ \A a \in DOMAIN work : work[a].file \in DOMAIN arena =>
              Begun(a)' = IF a = Len(work) THEN Begun(a) + 1 ELSE Begun(a)
         /\ \A f, n : Waits(f, n) => Waits(f, n)' \/ (f = Top.file /\ n = Stmt.id)
         /\ \A a \in DOMAIN work : work[a].file \in DOMAIN arena =>
              /\ Begun(a)' >= 0
              /\ \A j \in DOMAIN work'[a].rest :
                   /\ work'[a].rest[j].id = Begun(a)' + j
                   /\ work'[a].rest[j].path = arena[work[a].file][Begun(a)' + j]
<1> DEFINE n == Len(work)
<1>1. /\ n \in Nat \ {0} /\ Top \in Frames /\ Stmt \in Statements /\ Stmt = Top.rest[1]
      /\ Len(Top.rest) \in Nat \ {0}
      /\ Rest \in Seq(Frames) /\ Len(Rest) = n
      /\ \A a \in DOMAIN work : Rest[a].file = work[a].file
      /\ \A a \in DOMAIN work : a # n => Rest[a] = work[a]
      /\ Rest[n].rest \in Seq(Statements)
      /\ Len(Rest[n].rest) = Len(Top.rest) - 1
      /\ \A j \in 1 .. Len(Top.rest) - 1 : Rest[n].rest[j] = Top.rest[j + 1]
  BY RestEffect
<1>2. work \in Seq(Frames) /\ DOMAIN work = 1 .. n
  BY DEF TypeOK, Frames
<1>3. \A a \in DOMAIN work : work'[a] = Rest[a]
  BY <1>1, <1>2
<1>4. DOMAIN work' = 1 .. n \/ DOMAIN work' = 1 .. n + 1
  BY <1>1
<1>5. \A a \in DOMAIN work : a \in DOMAIN work' /\ work'[a].file = work[a].file
  BY <1>1, <1>2, <1>3, <1>4
<1>6. Top = work[n] /\ n \in DOMAIN work
  BY <1>1, <1>2 DEF Top
<1>7. Top.file \in DOMAIN arena
  BY <1>6 DEF PasteInv, Stack, Pasting
<1>8. /\ Begun(n) \in Int /\ Begun(n) >= 0
      /\ \A j \in DOMAIN Top.rest : /\ Top.rest[j].id = Begun(n) + j
                                   /\ Top.rest[j].path = arena[Top.file][Begun(n) + j]
  BY <1>6, <1>7, BegunInt DEF PasteInv, Waiting
<1>9. Top.rest \in Seq(Statements) /\ DOMAIN Top.rest = 1 .. Len(Top.rest)
  BY <1>1 DEF Frames
<1>10. Stmt.id = Begun(n) + 1 /\ Stmt.path = arena[Top.file][Stmt.id]
  BY <1>1, <1>8, <1>9, SMTT(30)
<1>11. ASSUME NEW a \in DOMAIN work, work[a].file \in DOMAIN arena
       PROVE  Begun(a)' = IF a = n THEN Begun(a) + 1 ELSE Begun(a)
  <2>1. Begun(a)' = Len(arena[work[a].file]) - Len(Rest[a].rest)
    BY <1>3, <1>5 DEF Begun
  <2>2. arena[work[a].file] \in Seq(Seq(STRING))
    BY <1>11 DEF TypeOK
  <2>3. CASE a # n
    BY <1>1, <2>1, <2>3 DEF Begun
  <2>4. CASE a = n
    <3>1. Begun(a) = Len(arena[work[a].file]) - Len(Top.rest)
      BY <1>6, <2>4 DEF Begun
    <3>2. Len(Rest[a].rest) = Len(Top.rest) - 1 /\ Len(Top.rest) \in Nat
      BY <1>1, <2>4
    <3>3. Len(arena[work[a].file]) \in Nat
      BY <2>2
    <3> QED
      BY <2>1, <2>4, <3>1, <3>2, <3>3
  <2> QED
    BY <2>3, <2>4
<1>13. ASSUME NEW f, NEW k, Waits(f, k) PROVE Waits(f, k)' \/ (f = Top.file /\ k = Stmt.id)
  <2>1. PICK a \in DOMAIN work : work[a].file = f /\ \E j \in DOMAIN work[a].rest : work[a].rest[j].id = k
    BY <1>13 DEF Waits
  <2>2. PICK j \in DOMAIN work[a].rest : work[a].rest[j].id = k
    BY <2>1
  <2>3. CASE a # n
    <3>1. work'[a] = work[a]
      BY <1>1, <1>3, <2>3
    <3> QED
      BY <1>5, <2>1, <2>2, <3>1 DEF Waits
  <2>4. CASE a = n /\ j = 1
    BY <1>1, <1>6, <2>1, <2>2, <2>4
  <2>5. CASE a = n /\ j # 1
    <3>1. j \in 2 .. Len(Top.rest)
      BY <1>6, <1>9, <2>5
    <3>2. j - 1 \in DOMAIN Rest[n].rest /\ Rest[n].rest[j - 1] = Top.rest[j]
      BY <1>1, <3>1, SMTT(30)
    <3>3. work'[n].file = f /\ work'[n].rest[j - 1].id = k /\ j - 1 \in DOMAIN work'[n].rest
      BY <1>3, <1>5, <1>6, <2>1, <2>2, <2>5, <3>2
    <3> QED
      BY <1>5, <1>6, <3>3 DEF Waits
  <2> QED
    BY <2>3, <2>4, <2>5
<1>14. ASSUME NEW a \in DOMAIN work, work[a].file \in DOMAIN arena
       PROVE  /\ Begun(a)' >= 0
              /\ \A j \in DOMAIN work'[a].rest :
                   /\ work'[a].rest[j].id = Begun(a)' + j
                   /\ work'[a].rest[j].path = arena[work[a].file][Begun(a)' + j]
  <2>1. CASE a # n
    <3>1. work'[a] = work[a] /\ Begun(a)' = Begun(a)
      BY <1>1, <1>3, <1>11, <1>14, <2>1
    <3> QED
      BY <1>14, <3>1 DEF PasteInv, Waiting
  <2>2. CASE a = n
    <3>1. \A j \in DOMAIN Rest[n].rest : /\ j \in Nat /\ j + 1 \in DOMAIN Top.rest
                                          /\ Rest[n].rest[j] = Top.rest[j + 1]
      BY <1>1, <1>9, SMTT(30)
    <3>2. \A j \in DOMAIN Rest[n].rest : /\ Rest[n].rest[j].id = Begun(n) + 1 + j
                                          /\ Rest[n].rest[j].path = arena[Top.file][Begun(n) + 1 + j]
      <4> SUFFICES ASSUME NEW j \in DOMAIN Rest[n].rest
                   PROVE  /\ Rest[n].rest[j].id = Begun(n) + 1 + j
                          /\ Rest[n].rest[j].path = arena[Top.file][Begun(n) + 1 + j]
        OBVIOUS
      <4>0. Begun(n) \in Int /\ j \in Int
        BY <1>8, <3>1
      <4>1. Begun(n) + 1 + j = Begun(n) + (j + 1)
        BY <4>0
      <4> QED
        BY <1>8, <3>1, <4>1
    <3>3. Begun(a)' = Begun(n) + 1
      BY <1>6, <1>7, <1>11, <2>2
    <3> QED
      BY <1>3, <1>6, <1>8, <2>2, <3>2, <3>3
  <2> QED
    BY <2>1, <2>2
<1> QED
  BY <1>1, <1>2, <1>4, <1>5, <1>7, <1>10, <1>11, <1>13, <1>14

\* While nothing is pasted, the order stays as it is.
LEMMA OrderStays ==
  ASSUME TypeOK, TypeOK', PasteInv, UNCHANGED merged, DOMAIN arena \subseteq DOMAIN arena',
         \A b \in DOMAIN work' : work'[b].file \in DOMAIN arena =>
           /\ b \in DOMAIN work /\ work[b].file = work'[b].file
           /\ Begun(b)' \in Int /\ Begun(b) <= Begun(b)'
  PROVE  Order' /\ PastesOnce' /\ Apart'
<1>1. /\ \A i \in DOMAIN merged : merged[i][1] \in DOMAIN arena
      /\ \A i \in DOMAIN merged, a \in DOMAIN work :
           merged[i][1] = work[a].file => merged[i][2] <= Begun(a)
      /\ \A i, j \in DOMAIN merged, a, b \in DOMAIN work :
           i < j /\ merged[i][1] = work[a].file /\ merged[j][1] = work[b].file => a <= b
      /\ \A i, j, k \in DOMAIN merged :
           i < j /\ j < k /\ merged[i][1] = merged[k][1] /\ merged[j][1] # merged[k][1]
           => ~OpenNow(merged[j][1])
  BY DEF PasteInv, Order
<1>2. PastesOnce' /\ Apart'
  BY DEF PasteInv, PastesOnce, Apart
<1>3. ASSUME NEW i \in DOMAIN merged, NEW a \in DOMAIN work', merged[i][1] = work'[a].file
      PROVE  merged[i][2] <= Begun(a)'
  <2>1. work'[a].file \in DOMAIN arena
    BY <1>1, <1>3
  <2>2. a \in DOMAIN work /\ work[a].file = work'[a].file /\ Begun(a)' \in Int /\ Begun(a) <= Begun(a)'
    BY <2>1
  <2>3. merged[i][2] \in Nat
    <3>1. merged \in Seq(Names \X Nat)
      BY DEF TypeOK
    <3> QED
      BY <3>1
  <2>4. Begun(a) \in Int
    BY <2>1, <2>2, BegunInt, Zenon
  <2>5. merged[i][2] <= Begun(a)
    BY <1>1, <1>3, <2>2
  <2> QED
    BY <2>2, <2>3, <2>4, <2>5
<1>4. ASSUME NEW i \in DOMAIN merged, NEW j \in DOMAIN merged, NEW a \in DOMAIN work', NEW b \in DOMAIN work',
             i < j, merged[i][1] = work'[a].file, merged[j][1] = work'[b].file
      PROVE  a <= b
  BY <1>1, <1>4
<1>5. \A f \in DOMAIN arena : OpenNow(f)' => OpenNow(f)
  BY DEF OpenNow
<1>6. \A i, j, k \in DOMAIN merged :
           i < j /\ j < k /\ merged[i][1] = merged[k][1] /\ merged[j][1] # merged[k][1]
           => ~OpenNow(merged[j][1])'
  BY <1>1, <1>5
<1> HIDE DEF OpenNow
<1>7. Order'
  BY <1>1, <1>3, <1>4, <1>6 DEF Order
<1> QED
  BY <1>2, <1>7
\* A step to the next statement of the same file.
LEMMA AdvanceRest ==
  ASSUME TypeOK, PasteInv, Pasting, UNCHANGED <<arena, stage>>, work' = Rest,
         visited \subseteq visited', visited' \cap DOMAIN Files \subseteq visited, Pasted \subseteq Pasted',
         Stmt.path = <<>> => <<Top.file, Stmt.id>> \in Pasted',
         Stmt.path # <<>> => Stmt.path \in visited'
  PROVE  Stack' /\ Entered' /\ Waiting' /\ Books'
<1>1. /\ DOMAIN work' = DOMAIN work /\ Len(work') = Len(work) /\ Len(work) \in Nat \ {0}
      /\ \A a \in DOMAIN work : work'[a].file = work[a].file
  <2>1. Len(work) \in Nat \ {0} /\ Len(Rest) = Len(work) /\ Rest \in Seq(Frames)
    BY RestEffect
  <2>2. \A a \in DOMAIN work : work'[a].file = work[a].file
    BY RestEffect
  <2>3. DOMAIN Rest = DOMAIN work
    BY DEF Rest
  <2> QED
    BY <2>1, <2>2, <2>3
<1>2. /\ Top.file \in DOMAIN arena /\ Stmt.path = arena[Top.file][Stmt.id]
      /\ \A f, n : Waits(f, n) => Waits(f, n)' \/ (f = Top.file /\ n = Stmt.id)
      /\ \A a \in DOMAIN work : work[a].file \in DOMAIN arena =>
              /\ Begun(a)' >= 0
              /\ \A j \in DOMAIN work'[a].rest :
                   /\ work'[a].rest[j].id = Begun(a)' + j
                   /\ work'[a].rest[j].path = arena[work[a].file][Begun(a)' + j]
  BY Advance
<1>3. Stack'
  <2>1. stage = "expand" /\ stage' = "expand"
    BY DEF Pasting
  <2>2. /\ \A a, b \in DOMAIN work : work[a].file = work[b].file => a = b
        /\ \A a \in DOMAIN work : work[a].file \in visited /\ work[a].file \in DOMAIN arena
    BY <2>1 DEF PasteInv, Stack
  <2> QED
    BY <1>1, <2>1, <2>2 DEF Stack
<1>4. \A f : OpenNow(f)' <=> OpenNow(f)
  BY <1>1 DEF OpenNow
<1>5. Entered'
  BY <1>4 DEF Entered, PasteInv
<1>6. Waiting'
  BY <1>1, <1>2 DEF Waiting
<1>7. Books'
  <2> SUFFICES ASSUME NEW f \in DOMAIN arena, NEW n \in DOMAIN arena[f]
               PROVE  \/ Waits(f, n)'
                      \/ arena[f][n] = <<>> /\ <<f, n>> \in Pasted'
                      \/ arena[f][n] # <<>> /\ arena[f][n] \in visited'
    BY DEF Books
  <2>1. \/ Waits(f, n)
        \/ arena[f][n] = <<>> /\ <<f, n>> \in Pasted
        \/ arena[f][n] # <<>> /\ arena[f][n] \in visited
    BY DEF PasteInv, Books
  <2> QED
    BY <1>2, <2>1
<1> QED
  BY <1>3, <1>5, <1>6, <1>7

LEMMA SkipInv == TypeOK /\ TypeOK' /\ PasteInv /\ (Repeated \/ Missing) => PasteInv'
<1> SUFFICES ASSUME TypeOK, TypeOK', PasteInv, Repeated \/ Missing PROVE PasteInv'
  OBVIOUS
<1>1. Pasting /\ UNCHANGED <<arena, stage, merged>> /\ work' = Rest /\ Stmt.path # <<>> /\ Stmt.path \in visited'
      /\ visited \subseteq visited' /\ visited' \cap DOMAIN Files \subseteq visited
  BY DEF Repeated, Missing, Seen
<1>2. Pasted' = Pasted
  BY <1>1 DEF Pasted
<1>3. Stack' /\ Entered' /\ Waiting' /\ Books'
  BY <1>1, <1>2, AdvanceRest
<1>4. DOMAIN work' = DOMAIN work
  BY <1>1 DEF Rest
<1>5. ASSUME NEW b \in DOMAIN work', work'[b].file \in DOMAIN arena
      PROVE  /\ b \in DOMAIN work /\ work[b].file = work'[b].file
             /\ Begun(b)' \in Int /\ Begun(b) <= Begun(b)'
  <2>1. b \in DOMAIN work /\ work[b].file = work'[b].file
    BY <1>1, <1>4, Advance
  <2>2. Begun(b) \in Int
    BY <1>5, <2>1, BegunInt
  <2>3. Begun(b)' = IF b = Len(work) THEN Begun(b) + 1 ELSE Begun(b)
    BY <1>1, <1>5, <2>1, Advance
  <2> QED
    BY <2>1, <2>2, <2>3
<1>6. Order' /\ PastesOnce' /\ Apart'
  BY <1>1, <1>5, OrderStays
<1> QED
  BY <1>3, <1>6 DEF PasteInv

LEMMA KeepInv == TypeOK /\ TypeOK' /\ PasteInv /\ Keep => PasteInv'
<1> SUFFICES ASSUME TypeOK, TypeOK', PasteInv, Keep PROVE PasteInv'
  OBVIOUS
<1> DEFINE n == Len(work)
           m == Len(merged)
           s == <<Top.file, Stmt.id>>
<1>1. Pasting /\ UNCHANGED <<arena, stage, visited>> /\ work' = Rest /\ Stmt.path = <<>> /\ merged' = Append(merged, s)
  BY DEF Keep
<1>2. /\ merged \in Seq(Names \X Nat) /\ m \in Nat /\ DOMAIN merged = 1 .. m /\ DOMAIN merged' = 1 .. m + 1
      /\ \A i \in DOMAIN merged : merged'[i] = merged[i]
      /\ merged'[m + 1] = s
  BY <1>1 DEF TypeOK
<1>3. Pasted \subseteq Pasted' /\ s \in Pasted'
  <2>1. \A i \in DOMAIN merged : i \in DOMAIN merged' /\ merged[i] = merged'[i]
    BY <1>2
  <2>2. m + 1 \in DOMAIN merged' /\ merged'[m + 1] = s
    BY <1>2
  <2> QED
    BY <2>1, <2>2 DEF Pasted
<1>4. Stack' /\ Entered' /\ Waiting' /\ Books'
  BY <1>1, <1>3, AdvanceRest
<1>5. /\ n \in Nat \ {0} /\ DOMAIN work = 1 .. n /\ DOMAIN work' = 1 .. n
      /\ \A a \in DOMAIN work : work'[a].file = work[a].file
      /\ Top.file \in DOMAIN arena /\ Stmt.id = Begun(n) + 1
      /\ \A a \in DOMAIN work : work[a].file \in DOMAIN arena =>
              Begun(a)' = IF a = n THEN Begun(a) + 1 ELSE Begun(a)
  <2>1. DOMAIN work' = DOMAIN work
    BY <1>1 DEF Rest
  <2> QED
    BY <1>1, <2>1, Advance
<1>6. /\ \A i \in DOMAIN merged : merged[i][1] \in DOMAIN arena /\ merged[i][2] \in Nat
      /\ \A i \in DOMAIN merged, a \in DOMAIN work :
           merged[i][1] = work[a].file => merged[i][2] <= Begun(a)
      /\ \A i, j \in DOMAIN merged, a, b \in DOMAIN work :
           i < j /\ merged[i][1] = work[a].file /\ merged[j][1] = work[b].file => a <= b
      /\ \A i, j, k \in DOMAIN merged :
           i < j /\ j < k /\ merged[i][1] = merged[k][1] /\ merged[j][1] # merged[k][1]
           => ~OpenNow(merged[j][1])
  BY DEF PasteInv, Order, TypeOK
<1>7. \A a, b \in DOMAIN work : work[a].file = work[b].file => a = b
  BY DEF PasteInv, Stack
<1>8. n \in DOMAIN work /\ Top = work[n] /\ s[1] = work[n].file /\ s[2] = Begun(n) + 1
  BY <1>5 DEF Top
<1>9. \A a \in DOMAIN work : work[a].file \in DOMAIN arena => Begun(a) \in Int
  BY BegunInt
<1> HIDE DEF n, m, s
\* Whoever is pasted while still open was opened before the file at hand.
<1>11. ASSUME NEW i \in DOMAIN merged, NEW j \in DOMAIN merged, i < j,
              merged[i][1] = s[1], merged[j][1] # s[1]
       PROVE  ~OpenNow(merged[j][1])
  <2>1. ASSUME NEW b \in DOMAIN work, work[b].file = merged[j][1] PROVE FALSE
    <3>1. n <= b
      BY <1>6, <1>8, <1>11, <2>1
    <3>2. b = n
      BY <1>5, <2>1, <3>1
    <3> QED
      BY <1>8, <1>11, <2>1, <3>2
  <2> QED
    BY <2>1 DEF OpenNow
<1>12. Order'
  <2>1. \A i \in DOMAIN merged' : merged'[i][1] \in DOMAIN arena'
    <3>1. \A i \in DOMAIN merged' : i \in DOMAIN merged \/ i = m + 1
      BY <1>2
    <3> QED
      BY <1>1, <1>2, <1>5, <1>6, <1>8, <3>1
  <2>2. ASSUME NEW i \in DOMAIN merged', NEW a \in DOMAIN work', merged'[i][1] = work'[a].file
        PROVE  merged'[i][2] <= Begun(a)'
    <3>0. a \in DOMAIN work /\ work'[a].file = work[a].file
      BY <1>5
    <3>1. CASE i \in DOMAIN merged
      <4>1. merged[i][2] <= Begun(a) /\ work[a].file \in DOMAIN arena
        BY <1>2, <1>6, <2>2, <3>0, <3>1
      <4>2. merged[i][2] \in Nat /\ Begun(a) \in Int
        BY <1>6, <1>9, <3>0, <3>1, <4>1
      <4>3. Begun(a)' = Begun(a) \/ Begun(a)' = Begun(a) + 1
        BY <1>5, <3>0, <4>1
      <4>4. merged'[i][2] = merged[i][2]
        BY <1>2, <3>1
      <4> QED
        BY <4>1, <4>2, <4>3, <4>4
    <3>2. CASE i = m + 1
      <4>1. a = n /\ work[n].file \in DOMAIN arena
        BY <1>2, <1>5, <1>7, <1>8, <2>2, <3>0, <3>2
      <4>2. Begun(n) \in Int /\ Begun(a)' = Begun(a) + 1 /\ merged'[i][2] = Begun(n) + 1
        BY <1>2, <1>5, <1>8, <1>9, <3>0, <3>2, <4>1
      <4> QED
        BY <4>1, <4>2
    <3> QED
      BY <1>2, <3>1, <3>2
  <2>3. ASSUME NEW i \in DOMAIN merged', NEW j \in DOMAIN merged', NEW a \in DOMAIN work', NEW b \in DOMAIN work',
               i < j, merged'[i][1] = work'[a].file, merged'[j][1] = work'[b].file
        PROVE  a <= b
    <3>0. a \in 1 .. n /\ b \in 1 .. n /\ work'[a].file = work[a].file /\ work'[b].file = work[b].file
      BY <1>5
    <3>1. CASE j \in DOMAIN merged
      <4>1. i \in DOMAIN merged
        BY <1>2, <2>3, <3>1
      <4> QED
        BY <1>2, <1>5, <1>6, <2>3, <3>0, <3>1, <4>1
    <3>2. CASE j = m + 1
      <4>1. b = n
        BY <1>2, <1>5, <1>7, <1>8, <2>3, <3>0, <3>2
      <4> QED
        BY <1>5, <3>0, <4>1
    <3> QED
      BY <1>2, <3>1, <3>2
  <2>4. ASSUME NEW i \in DOMAIN merged', NEW j \in DOMAIN merged', NEW k \in DOMAIN merged',
               i < j, j < k, merged'[i][1] = merged'[k][1], merged'[j][1] # merged'[k][1]
        PROVE  \A b \in DOMAIN work' : work'[b].file # merged'[j][1]
    <3>1. i \in DOMAIN merged /\ j \in DOMAIN merged /\ merged'[i] = merged[i] /\ merged'[j] = merged[j]
      BY <1>2, <2>4
    <3>2. ~OpenNow(merged[j][1])
      <4>1. CASE k \in DOMAIN merged
        BY <1>2, <1>6, <2>4, <3>1, <4>1
      <4>2. CASE k = m + 1
        BY <1>2, <1>11, <2>4, <3>1, <4>2
      <4> QED
        BY <1>2, <4>1, <4>2
    <3> QED
      BY <1>5, <3>1, <3>2 DEF OpenNow
  <2> QED
    BY <2>1, <2>2, <2>3, <2>4 DEF Order, OpenNow
<1>13. PastesOnce'
  <2> SUFFICES ASSUME NEW i \in DOMAIN merged', NEW j \in DOMAIN merged', i < j, merged'[i][1] = merged'[j][1]
               PROVE  merged'[i][2] < merged'[j][2]
    BY DEF PastesOnce
  <2>1. i \in DOMAIN merged /\ merged'[i] = merged[i]
    BY <1>2
  <2>2. CASE j \in DOMAIN merged
    BY <1>2, <2>1, <2>2 DEF PasteInv, PastesOnce
  <2>3. CASE j = m + 1
    <3>1. merged[i][2] <= Begun(n) /\ merged[i][2] \in Nat
      BY <1>2, <1>6, <1>8, <2>1, <2>3
    <3>2. Begun(n) \in Int /\ merged'[j][2] = Begun(n) + 1
      BY <1>2, <1>5, <1>8, <1>9, <2>3
    <3> QED
      BY <2>1, <3>1, <3>2
  <2> QED
    BY <1>2, <2>2, <2>3
<1>14. Apart'
  <2> SUFFICES ASSUME NEW i \in DOMAIN merged', NEW j \in DOMAIN merged', NEW k \in DOMAIN merged', NEW l \in DOMAIN merged',
                      i < j, j < k, k < l, merged'[i][1] = merged'[k][1], merged'[j][1] = merged'[l][1],
                      merged'[i][1] # merged'[j][1]
               PROVE  FALSE
    BY DEF Apart
  <2>1. /\ i \in DOMAIN merged /\ j \in DOMAIN merged /\ k \in DOMAIN merged
        /\ merged'[i] = merged[i] /\ merged'[j] = merged[j] /\ merged'[k] = merged[k]
    BY <1>2
  <2>2. CASE l \in DOMAIN merged
    BY <1>2, <2>1, <2>2, SMTT(30) DEF PasteInv, Apart
  <2>3. CASE l = m + 1
    <3>1. ~OpenNow(merged[j][1])
      BY <1>6, <2>1
    <3>2. merged[j][1] = work[n].file
      BY <1>2, <1>8, <2>1, <2>3, SMTT(30)
    <3> QED
      BY <1>8, <3>1, <3>2 DEF OpenNow
  <2> QED
    BY <1>2, <2>2, <2>3, SMTT(30)
<1> QED
  BY <1>4, <1>12, <1>13, <1>14 DEF PasteInv
LEMMA DescendInv ==
  ASSUME TypeOK, TypeOK', PasteInv, NEW said, Descend(said)
  PROVE  PasteInv'
<1> DEFINE n == Len(work)
           new == Opened(Stmt.path)
<1>1. /\ Pasting /\ UNCHANGED <<arena, merged>> /\ stage = "expand" /\ stage' = "parse"
      /\ work' = Append(Rest, new) /\ Stmt.path \notin visited /\ visited' = visited \cup {Stmt.path}
      /\ Stmt.path # <<>>
  BY DEF Descend, Readable, Pasting, Parsing, Seen
<1>2. /\ n \in Nat \ {0} /\ DOMAIN work = 1 .. n
      /\ \A a \in DOMAIN work : work'[a].file = work[a].file
      /\ \A a \in DOMAIN work : work[a].file \in DOMAIN arena =>
              Begun(a)' = IF a = n THEN Begun(a) + 1 ELSE Begun(a)
      /\ \A f, k : Waits(f, k) => Waits(f, k)' \/ (f = Top.file /\ k = Stmt.id)
      /\ Top.file \in DOMAIN arena /\ Stmt.path = arena[Top.file][Stmt.id]
      /\ \A a \in DOMAIN work : work[a].file \in DOMAIN arena =>
              /\ Begun(a)' >= 0
              /\ \A j \in DOMAIN work'[a].rest :
                   /\ work'[a].rest[j].id = Begun(a)' + j
                   /\ work'[a].rest[j].path = arena[work[a].file][Begun(a)' + j]
  BY <1>1, Advance
<1>3. DOMAIN work' = 1 .. n + 1 /\ Len(work') = n + 1 /\ work'[n + 1].file = Stmt.path
  <2>1. Rest \in Seq(Frames) /\ Len(Rest) = n
    BY <1>1, RestEffect
  <2>2. work'[n + 1] = new /\ DOMAIN work' = 1 .. n + 1 /\ Len(work') = n + 1
    BY <1>1, <1>2, <2>1
  <2> QED
    BY <2>2 DEF Opened
<1>4. /\ \A a, b \in DOMAIN work : work[a].file = work[b].file => a = b
      /\ \A a \in DOMAIN work : work[a].file \in visited /\ work[a].file \in DOMAIN arena
      /\ DOMAIN arena \subseteq visited
      /\ \A f \in visited \cap DOMAIN Files : f \in DOMAIN arena \/ OpenNow(f)
  BY <1>1 DEF PasteInv, Stack, Entered
<1>5. \A a \in DOMAIN work' : a \in DOMAIN work \/ a = n + 1
  BY <1>2, <1>3
<1> HIDE DEF n, new
<1>6. Stack'
  <2>1. \A a, b \in DOMAIN work' : work'[a].file = work'[b].file => a = b
    BY <1>1, <1>2, <1>3, <1>4, <1>5
  <2>2. \A a \in DOMAIN work' : work'[a].file \in visited'
    BY <1>1, <1>2, <1>3, <1>4, <1>5
  <2>3. ASSUME NEW a \in DOMAIN work' PROVE work'[a].file \in DOMAIN arena <=> a # n + 1
    <3>1. CASE a = n + 1
      BY <1>1, <1>3, <1>4, <3>1
    <3>2. CASE a \in DOMAIN work
      <4>1. a # n + 1
        BY <1>2, <3>2
      <4> QED
        BY <1>2, <1>4, <3>2, <4>1
    <3> QED
      BY <1>5, <3>1, <3>2
  <2>4. work' # <<>>
    BY <1>2, <1>3
  <2> QED
    BY <1>1, <1>3, <2>1, <2>2, <2>3, <2>4 DEF Stack
<1>7. Entered'
  <2>1. \A f : OpenNow(f) => OpenNow(f)'
    BY <1>2, <1>3 DEF OpenNow
  <2>2. n + 1 \in DOMAIN work'
    BY <1>2, <1>3
  <2>3. ASSUME NEW f \in visited' \cap DOMAIN Files PROVE f \in DOMAIN arena \/ \E a \in DOMAIN work' : work'[a].file = f
    <3>1. CASE f = Stmt.path
      BY <1>3, <2>2, <3>1
    <3>2. CASE f # Stmt.path
      BY <1>1, <1>4, <2>1, <3>2 DEF OpenNow
    <3> QED
      BY <3>1, <3>2
  <2> QED
    BY <1>1, <1>4, <2>3 DEF Entered, OpenNow
<1>8. Waiting'
  <2> SUFFICES ASSUME NEW a \in DOMAIN work', work'[a].file \in DOMAIN arena
               PROVE  /\ Begun(a)' >= 0
                      /\ \A j \in DOMAIN work'[a].rest :
                           /\ work'[a].rest[j].id = Begun(a)' + j
                           /\ work'[a].rest[j].path = arena[work'[a].file][Begun(a)' + j]
    BY <1>1 DEF Waiting
  <2>1. a \in DOMAIN work /\ work'[a].file = work[a].file
    BY <1>1, <1>2, <1>3, <1>4, <1>5
  <2> QED
    BY <1>2, <2>1
<1>9. Books'
  <2> SUFFICES ASSUME NEW f \in DOMAIN arena, NEW k \in DOMAIN arena[f]
               PROVE  \/ Waits(f, k)'
                      \/ arena[f][k] = <<>> /\ <<f, k>> \in Pasted'
                      \/ arena[f][k] # <<>> /\ arena[f][k] \in visited'
    BY <1>1 DEF Books
  <2>1. \/ Waits(f, k)
        \/ arena[f][k] = <<>> /\ <<f, k>> \in Pasted
        \/ arena[f][k] # <<>> /\ arena[f][k] \in visited
    BY DEF PasteInv, Books
  <2>2. Pasted' = Pasted
    BY <1>1 DEF Pasted
  <2> QED
    BY <1>1, <1>2, <2>1, <2>2
<1>10. ASSUME NEW b \in DOMAIN work', work'[b].file \in DOMAIN arena
       PROVE  /\ b \in DOMAIN work /\ work[b].file = work'[b].file
              /\ Begun(b)' \in Int /\ Begun(b) <= Begun(b)'
  <2>1. b \in DOMAIN work /\ work'[b].file = work[b].file
    BY <1>1, <1>2, <1>3, <1>4, <1>5, <1>10
  <2>2. Begun(b) \in Int
    BY <1>10, <2>1, BegunInt
  <2>3. Begun(b)' = IF b = n THEN Begun(b) + 1 ELSE Begun(b)
    BY <1>2, <1>10, <2>1
  <2> QED
    BY <2>1, <2>2, <2>3
<1>11. Order' /\ PastesOnce' /\ Apart'
  BY <1>1, <1>10, OrderStays
<1> QED
  BY <1>6, <1>7, <1>8, <1>9, <1>11 DEF PasteInv

LEMMA EndFileInv == TypeOK /\ TypeOK' /\ PasteInv /\ EndFile => PasteInv'
<1> SUFFICES ASSUME TypeOK, TypeOK', PasteInv, EndFile PROVE PasteInv'
  OBVIOUS
<1> DEFINE n == Len(work)
<1>1. /\ UNCHANGED <<arena, merged, visited, stage>> /\ stage = "expand" /\ work # <<>> /\ Top.rest = <<>>
      /\ work' = SubSeq(work, 1, n - 1)
  BY DEF EndFile
<1>2. work \in Seq(Frames)
  BY DEF TypeOK, Frames
<1>3. n \in Nat \ {0} /\ DOMAIN work = 1 .. n /\ DOMAIN work' = 1 .. n - 1
      /\ \A a \in DOMAIN work' : work'[a] = work[a]
  BY <1>1, <1>2
<1>4. /\ \A a, b \in DOMAIN work : work[a].file = work[b].file => a = b
      /\ \A a \in DOMAIN work : work[a].file \in visited /\ work[a].file \in DOMAIN arena
      /\ DOMAIN arena \subseteq visited
      /\ \A f \in visited \cap DOMAIN Files : f \in DOMAIN arena \/ OpenNow(f)
  BY <1>1 DEF PasteInv, Stack, Entered
<1> HIDE DEF n
<1>5. \A a \in DOMAIN work' : a \in DOMAIN work /\ work'[a] = work[a] /\ Begun(a)' = Begun(a)
  <2>1. \A a \in DOMAIN work' : a \in DOMAIN work /\ work'[a] = work[a]
    BY <1>3
  <2> QED
    BY <1>1, <2>1 DEF Begun
<1>6. Stack'
  <2>1. \A a, b \in DOMAIN work' : work'[a].file = work'[b].file => a = b
    BY <1>4, <1>5
  <2>2. \A a \in DOMAIN work' : work'[a].file \in visited /\ work'[a].file \in DOMAIN arena
    BY <1>4, <1>5
  <2> QED
    BY <1>1, <2>1, <2>2 DEF Stack
<1>7. Entered'
  <2>1. \A f \in visited \cap DOMAIN Files : f \in DOMAIN arena
    BY <1>4 DEF OpenNow
  <2> QED
    BY <1>1, <1>4, <2>1 DEF Entered
<1>8. Waiting'
  <2> SUFFICES ASSUME NEW a \in DOMAIN work', work'[a].file \in DOMAIN arena
               PROVE  /\ Begun(a)' >= 0
                      /\ \A j \in DOMAIN work'[a].rest :
                           /\ work'[a].rest[j].id = Begun(a)' + j
                           /\ work'[a].rest[j].path = arena[work'[a].file][Begun(a)' + j]
    BY <1>1 DEF Waiting
  <2> QED
    BY <1>5 DEF PasteInv, Waiting
<1>9. \A f, k : Waits(f, k) => Waits(f, k)'
  <2> SUFFICES ASSUME NEW f, NEW k, Waits(f, k) PROVE Waits(f, k)'
    OBVIOUS
  <2>1. PICK a \in DOMAIN work : work[a].file = f /\ \E j \in DOMAIN work[a].rest : work[a].rest[j].id = k
    BY DEF Waits
  <2>2. a # n
    <3>1. DOMAIN Top.rest = {}
      BY <1>1
    <3> QED
      BY <2>1, <3>1 DEF Top, n
  <2>3. a \in DOMAIN work' /\ work'[a] = work[a]
    BY <1>3, <2>2
  <2> QED
    BY <2>1, <2>3 DEF Waits
<1>10. Books'
  <2>1. Pasted' = Pasted
    BY <1>1 DEF Pasted
  <2> QED
    BY <1>1, <1>9, <2>1 DEF PasteInv, Books
<1>11. \A b \in DOMAIN work' : Begun(b) \in Int /\ Begun(b)' = Begun(b)
  BY <1>4, <1>5, BegunInt
<1>12. \A b \in DOMAIN work' : work'[b].file \in DOMAIN arena =>
         /\ b \in DOMAIN work /\ work[b].file = work'[b].file
         /\ Begun(b)' \in Int /\ Begun(b) <= Begun(b)'
  BY <1>5, <1>11
<1>13. Order' /\ PastesOnce' /\ Apart'
  BY <1>1, <1>12, OrderStays
<1> QED
  BY <1>6, <1>7, <1>8, <1>10, <1>13 DEF PasteInv
LEMMA EndParseInv ==
  ASSUME TypeOK, TypeOK', PasteInv, NEW said, NEW program \in Programs, EndParse(program, said)
  PROVE  PasteInv'
<1> DEFINE n == Len(work)
           F == Top.file
<1>1. /\ UNCHANGED <<merged, visited>> /\ stage = "parse" /\ stage' = "expand"
      /\ program \in Seq(Seq(STRING))
      /\ n \in DOMAIN work /\ DOMAIN work' = DOMAIN work /\ Len(work') = n
      /\ \A a \in DOMAIN work : a # n => work'[a] = work[a]
      /\ work'[n].file = F
      /\ work'[n].rest = [i \in DOMAIN program |-> [id |-> i, path |-> program[i]]]
      /\ Len(work'[n].rest) = Len(program)
      /\ DOMAIN arena' = DOMAIN arena \cup {F}
      /\ \A f \in DOMAIN arena' : arena'[f] = IF f = F THEN program ELSE arena[f]
  BY EndParseEffect DEF EndParse, PasteInv
<1>2. F = work[n].file /\ \A a \in DOMAIN work : work'[a].file = work[a].file
  BY <1>1 DEF Top
<1> HIDE DEF n, F
<1>3. /\ \A a, b \in DOMAIN work : work[a].file = work[b].file => a = b
      /\ \A a \in DOMAIN work : work[a].file \in visited /\ (work[a].file \in DOMAIN arena <=> a # n)
      /\ DOMAIN arena \subseteq visited
      /\ \A f \in visited \cap DOMAIN Files : f \in DOMAIN arena \/ OpenNow(f)
  BY <1>1 DEF PasteInv, Stack, Entered, n
<1>4. F \notin DOMAIN arena /\ F \in visited
  BY <1>1, <1>2, <1>3
<1>5. Stack'
  <2>1. \A a, b \in DOMAIN work' : work'[a].file = work'[b].file => a = b
    BY <1>1, <1>2, <1>3
  <2>2. \A a \in DOMAIN work' : work'[a].file \in visited /\ work'[a].file \in DOMAIN arena'
    BY <1>1, <1>2, <1>3
  <2> QED
    BY <1>1, <2>1, <2>2 DEF Stack
<1>6. \A f : OpenNow(f)' <=> OpenNow(f)
  BY <1>1, <1>2 DEF OpenNow
<1>7. Entered'
  <2>1. \A f \in visited' \cap DOMAIN Files : f \in DOMAIN arena' \/ OpenNow(f)'
    BY <1>1, <1>3, <1>6
  <2> QED
    BY <1>1, <1>3, <1>4, <2>1 DEF Entered
<1>8. ASSUME NEW a \in DOMAIN work, a # n
      PROVE  /\ work'[a] = work[a] /\ arena'[work[a].file] = arena[work[a].file]
             /\ work[a].file \in DOMAIN arena /\ Begun(a)' = Begun(a)
  <2>1. work'[a] = work[a] /\ work[a].file \in DOMAIN arena /\ work[a].file # F
    BY <1>1, <1>3, <1>4, <1>8
  <2>2. arena'[work[a].file] = arena[work[a].file]
    BY <1>1, <2>1
  <2> QED
    BY <2>1, <2>2 DEF Begun
<1>9. ASSUME NEW a \in DOMAIN work, a = n PROVE Begun(a)' = 0 /\ arena'[work'[a].file] = program
  <2>1. arena'[F] = program /\ Len(program) \in Nat
    BY <1>1
  <2> QED
    BY <1>1, <1>9, <2>1 DEF Begun
<1>10. Waiting'
  <2> SUFFICES ASSUME NEW a \in DOMAIN work', work'[a].file \in DOMAIN arena'
               PROVE  /\ Begun(a)' >= 0
                      /\ \A j \in DOMAIN work'[a].rest :
                           /\ work'[a].rest[j].id = Begun(a)' + j
                           /\ work'[a].rest[j].path = arena'[work'[a].file][Begun(a)' + j]
    BY DEF Waiting
  <2>1. CASE a = n
    <3>1. DOMAIN program = 1 .. Len(program) /\ Len(program) \in Nat
      BY <1>1
    <3>2. \A j \in DOMAIN program : j \in Nat /\ 0 + j = j
      BY <3>1
    <3>3. \A j \in DOMAIN work'[a].rest :
            j \in DOMAIN program /\ work'[a].rest[j].id = j /\ work'[a].rest[j].path = program[j]
      BY <1>1, <2>1
    <3>4. Begun(a)' = 0 /\ arena'[work'[a].file] = program
      BY <1>1, <1>9, <2>1
    <3> QED
      BY <3>2, <3>3, <3>4
  <2>2. CASE a # n
    <3>1. /\ work'[a] = work[a] /\ arena'[work[a].file] = arena[work[a].file]
          /\ work[a].file \in DOMAIN arena /\ Begun(a)' = Begun(a) /\ a \in DOMAIN work
      BY <1>1, <1>8, <2>2
    <3> QED
      BY <3>1 DEF PasteInv, Waiting
  <2> QED
    BY <2>1, <2>2
<1>11. Pasted' = Pasted
  BY <1>1 DEF Pasted
<1>12. Books'
  <2> SUFFICES ASSUME NEW f \in DOMAIN arena', NEW k \in DOMAIN arena'[f]
               PROVE  \/ Waits(f, k)'
                      \/ arena'[f][k] = <<>> /\ <<f, k>> \in Pasted'
                      \/ arena'[f][k] # <<>> /\ arena'[f][k] \in visited'
    BY DEF Books
  <2>1. CASE f = F
    <3>1. k \in DOMAIN program
      BY <1>1, <2>1
    <3>2. k \in DOMAIN work'[n].rest /\ work'[n].rest[k].id = k /\ n \in DOMAIN work' /\ work'[n].file = f
      BY <1>1, <2>1, <3>1
    <3> QED
      BY <3>2 DEF Waits
  <2>2. CASE f # F
    <3>1. f \in DOMAIN arena /\ arena'[f] = arena[f]
      BY <1>1, <2>2
    <3>2. \/ Waits(f, k)
          \/ arena[f][k] = <<>> /\ <<f, k>> \in Pasted
          \/ arena[f][k] # <<>> /\ arena[f][k] \in visited
      BY <3>1 DEF PasteInv, Books
    <3>3. Waits(f, k) => Waits(f, k)'
      <4> SUFFICES ASSUME Waits(f, k) PROVE Waits(f, k)'
        OBVIOUS
      <4>1. PICK a \in DOMAIN work : work[a].file = f /\ \E j \in DOMAIN work[a].rest : work[a].rest[j].id = k
        BY DEF Waits
      <4>2. a # n
        BY <1>2, <2>2, <4>1
      <4>3. work'[a] = work[a] /\ a \in DOMAIN work'
        BY <1>1, <4>2
      <4> QED
        BY <4>1, <4>3 DEF Waits
    <3> QED
      BY <1>1, <1>11, <3>1, <3>2, <3>3
  <2> QED
    BY <2>1, <2>2
<1>13. ASSUME NEW b \in DOMAIN work', work'[b].file \in DOMAIN arena
       PROVE  /\ b \in DOMAIN work /\ work[b].file = work'[b].file
              /\ Begun(b)' \in Int /\ Begun(b) <= Begun(b)'
  <2>1. b \in DOMAIN work /\ work'[b].file = work[b].file /\ b # n
    BY <1>1, <1>2, <1>3, <1>13
  <2>2. Begun(b) \in Int /\ Begun(b)' = Begun(b)
    BY <1>8, <1>13, <2>1, BegunInt
  <2> QED
    BY <2>1, <2>2
<1>14. Order' /\ PastesOnce' /\ Apart'
  BY <1>1, <1>13, OrderStays
<1> QED
  BY <1>5, <1>7, <1>10, <1>12, <1>14 DEF PasteInv

LEMMA StartInv ==
  ASSUME TypeOK, TypeOK', PasteInv, NEW said, Start(said)
  PROVE  PasteInv'
<1>1. /\ UNCHANGED <<arena, merged>> /\ stage' = "parse" /\ visited' = {flags.main}
      /\ work' = <<Opened(flags.main)>>
      /\ work = <<>> /\ DOMAIN arena = {} /\ merged = <<>> /\ visited = {}
  BY DEF Start, Parsing, PasteInv, Stack
<1>2. DOMAIN work' = {1} /\ Len(work') = 1 /\ work'[1].file = flags.main
  BY <1>1 DEF Opened
<1>3. Stack'
  BY <1>1, <1>2 DEF Stack
<1>4. Entered'
  <2>1. OpenNow(flags.main)'
    BY <1>2 DEF OpenNow, Start
  <2> QED
    BY <1>1, <1>2 DEF Entered, OpenNow
<1>5. Waiting' /\ Books'
  BY <1>1 DEF Waiting, Books
<1>6. Order' /\ PastesOnce' /\ Apart'
  BY <1>1, OrderStays
<1> QED
  BY <1>3, <1>4, <1>5, <1>6 DEF PasteInv

\* A step to a later stage pastes nothing.
LEMMA StageInv ==
  ASSUME TypeOK, TypeOK', PasteInv, UNCHANGED <<visited, work, arena, merged>>,
         stage # "parse", stage' \notin {"read", "parse"}
  PROVE  PasteInv'
<1>1. Stack'
  BY DEF PasteInv, Stack
<1>2. Entered'
  BY DEF PasteInv, Entered, OpenNow
<1>3. \A a : Begun(a)' = Begun(a)
  BY DEF Begun
<1>4. Waiting'
  BY <1>3 DEF PasteInv, Waiting
<1>5. Books'
  BY DEF PasteInv, Books, Waits, Pasted
<1>6. Order'
  BY <1>3 DEF PasteInv, Order, OpenNow
<1>7. PastesOnce' /\ Apart'
  BY DEF PasteInv, PastesOnce, Apart
<1> QED
  BY <1>1, <1>2, <1>4, <1>5, <1>6, <1>7 DEF PasteInv

LEMMA PasteInit == DriverInit => PasteInv
<1> SUFFICES ASSUME DriverInit PROVE PasteInv
  OBVIOUS
<1>1. stage = "read" /\ work = <<>> /\ arena = <<>> /\ merged = <<>> /\ visited = {}
  BY DEF DriverInit
<1>2. DOMAIN arena = {} /\ DOMAIN work = {} /\ DOMAIN merged = {}
  BY <1>1
<1> QED
  BY <1>1, <1>2 DEF PasteInv, Stack, Entered, Waiting, Books, Order, PastesOnce, Apart

LEMMA PasteNext == TypeOK /\ TypeOK' /\ PasteInv /\ Next => PasteInv'
<1> SUFFICES ASSUME TypeOK, TypeOK', PasteInv, Next PROVE PasteInv'
  OBVIOUS
<1>1. ASSUME NEW said, Start(said) \/ Descend(said) PROVE PasteInv'
  BY <1>1, StartInv, DescendInv
<1>2. ASSUME NEW said, NEW program \in Programs, EndParse(program, said) PROVE PasteInv'
  BY <1>2, EndParseInv
<1>3. CASE Refuse
  BY <1>3, StageInv DEF Refuse, Exit
<1>4. CASE Keep
  BY <1>4, KeepInv
<1>5. CASE Repeated \/ Missing
  BY <1>5, SkipInv
<1>6. CASE EndFile
  BY <1>6, EndFileInv
<1>7. ASSUME NEW b \in BOOLEAN, Report(b) PROVE PasteInv'
  BY <1>7, StageInv DEF Report, Exit
<1>8. ASSUME NEW b \in BOOLEAN, Check(b) PROVE PasteInv'
  BY <1>8, StageInv DEF Check, Exit
<1>9. ASSUME NEW outcome, RunProgram(outcome) PROVE PasteInv'
  BY <1>9, StageInv DEF RunProgram, Exit
<1>10. CASE RunFails
  BY <1>10, StageInv DEF RunFails, Exit
<1> QED
  BY <1>1, <1>2, <1>3, <1>4, <1>5, <1>6, <1>7, <1>8, <1>9, <1>10 DEF Next, Later
-----------------------------------------------------------------------------
(* Complaints.                                                             *)

LEMMA ComplainedNext == TypeOK /\ Complained /\ Next => Complained'
<1> SUFFICES ASSUME TypeOK, Complained, Next PROVE Complained'
  OBVIOUS
<1>1. ASSUME NEW said, Start(said) \/ Descend(said) PROVE Complained'
  BY <1>1 DEF Start, Descend, Parsing, Complained, ErrorsReachTheExit
<1>2. ASSUME NEW said, NEW program \in Programs, EndParse(program, said) PROVE Complained'
  BY <1>2 DEF EndParse, Complained, ErrorsReachTheExit
<1>3. CASE Refuse
  BY <1>3 DEF Refuse, Exit, Complained, ErrorsReachTheExit
<1>4. CASE Keep \/ Repeated \/ Missing \/ EndFile
  BY <1>4 DEF Keep, Repeated, Missing, EndFile, Pasting, Complained, ErrorsReachTheExit
<1>5. ASSUME NEW b \in BOOLEAN, Report(b) PROVE Complained'
  <2>1. CASE b
    BY <1>5, <2>1 DEF Report, Complained, ErrorsReachTheExit
  <2>2. CASE ~b
    BY <1>5, <2>2 DEF Report, Exit, Usage, Complained, ErrorsReachTheExit
  <2> QED
    BY <2>1, <2>2
<1>6. ASSUME NEW b \in BOOLEAN, Check(b) PROVE Complained'
  <2>1. stage = "check" /\ hadError = (found # {}) /\ hadError' = (hadError \/ b) /\ found' = found
    BY <1>6 DEF Check, AnyFound, Complained
  <2>2. CASE ~hadError' /\ flags.dumps = {}
    BY <1>6, <2>1, <2>2 DEF Check, Complained, ErrorsReachTheExit
  <2>3. CASE ~(~hadError' /\ flags.dumps = {})
    BY <1>6, <2>1, <2>3 DEF Check, Exit, Complained, ErrorsReachTheExit
  <2> QED
    BY <2>2, <2>3
<1>7. ASSUME NEW outcome, RunProgram(outcome) PROVE Complained'
  BY <1>7 DEF RunProgram, Exit, Complained, ErrorsReachTheExit
<1>8. CASE RunFails
  BY <1>8 DEF RunFails, Exit, Complained, ErrorsReachTheExit
<1> QED
  BY <1>1, <1>2, <1>3, <1>4, <1>5, <1>6, <1>7, <1>8 DEF Next, Later
-----------------------------------------------------------------------------
(* Theorems.                                                               *)

\* The invariant of the command line, over any files, any way they include each
\* other, and any lexer and parser.
THEOREM Invariant == Spec => []IInv
<1>1. DriverInit => IInv
  <2>1. DriverInit => Complained
    BY DEF DriverInit, Complained, ErrorsReachTheExit
  <2> QED
    BY <2>1, TypeInit, PasteInit DEF IInv
<1>2. IInv /\ [Next]_driver => IInv'
  <2>1. CASE Next
    BY <2>1, TypeNext, PasteNext, ComplainedNext DEF IInv, PasteInv
  <2>2. CASE UNCHANGED driver
    <3> USE <2>2 DEF driver
    <3>1. TypeOK => TypeOK'
      BY DEF TypeOK, Names
    <3>2. Complained => Complained'
      BY DEF Complained, ErrorsReachTheExit
    <3>3. Stack /\ Entered /\ Books => Stack' /\ Entered' /\ Books'
      BY DEF Stack, Entered, Books, OpenNow, Waits, Pasted
    <3>4. \A a : Begun(a)' = Begun(a)
      BY DEF Begun
    <3>5. Waiting => Waiting'
      BY <3>4 DEF Waiting
    <3>6. Order => Order'
      BY <3>4 DEF Order, OpenNow
    <3>7. PastesOnce /\ Apart => PastesOnce' /\ Apart'
      BY DEF PastesOnce, Apart
    <3> QED
      BY <3>1, <3>2, <3>3, <3>5, <3>6, <3>7 DEF IInv, PasteInv
  <2> QED
    BY <2>1, <2>2
<1> QED
  BY <1>1, <1>2, PTL DEF Spec

\* include.rs pastes every statement at most once and in the order of its file,
\* whatever includes whatever.
THEOREM StatementsPastedOnce == Spec => []PastesOnce
<1>1. IInv => PastesOnce
  BY DEF IInv, PasteInv
<1> QED
  BY <1>1, Invariant, PTL

\* The recursion of expand pastes a file whole and at one place: no two interleave,
\* and of a file that is done nothing is missing.
THEOREM FilesPastedWhole == Spec => []PastesWhole
<1>1. IInv => PastesWhole
  <2> SUFFICES ASSUME IInv PROVE PastesWhole
    OBVIOUS
  <2>1. PastesOnce /\ Apart /\ Books
    BY DEF IInv, PasteInv
  <2>2. \A f \in DOMAIN arena : OpenNow(f) \/ Whole(f)
    BY <2>1 DEF Books, Waits, OpenNow, Whole
  <2> QED
    BY <2>1, <2>2 DEF PastesWhole, Apart
<1> QED
  BY <1>1, Invariant, PTL

\* When expand goes past an Include, the whole of the file is pasted, unless it is one
\* of those that are still being pasted around it.
THEOREM IncludesComeFirst == Spec => []IncludedComesFirst
<1>1. IInv => IncludedComesFirst
  <2> SUFFICES ASSUME IInv, NEW f \in DOMAIN arena, NEW n \in DOMAIN arena[f],
                      arena[f][n] # <<>>, arena[f][n] \in DOMAIN Files, ~Waits(f, n)
               PROVE  OpenNow(arena[f][n]) \/ Whole(arena[f][n])
    BY DEF IncludedComesFirst
  <2>1. Books /\ Entered
    BY DEF IInv, PasteInv
  <2>2. arena[f][n] \in visited
    BY <2>1 DEF Books
  <2>3. arena[f][n] \in DOMAIN arena \/ OpenNow(arena[f][n])
    BY <2>1, <2>2 DEF Entered
  <2>4. \A g \in DOMAIN arena : OpenNow(g) \/ Whole(g)
    BY <2>1 DEF Books, Waits, OpenNow, Whole
  <2> QED
    BY <2>3, <2>4
<1> QED
  BY <1>1, Invariant, PTL

\* A complaint of the lexer, the parser or an Include, in any file, ends in exit code 1,
\* or 2 where the catalogue is missing: no dump and no later stage loses it.
THEOREM ErrorsReachExit == Spec => []ErrorsReachTheExit
<1>1. IInv => ErrorsReachTheExit
  BY DEF IInv, Complained
<1> QED
  BY <1>1, Invariant, PTL
-----------------------------------------------------------------------------
(* Numbers.  A recursive function over 0..N exists, and what holds of its    *)
(* first value and is kept by each step holds of all of them.                *)
Below == {q \in Nat \X Nat : q[1] < q[2]}

LEMMA BelowWellFounded == IsWellFoundedOn(Below, Nat)
<1>1. OpToRel(<, Nat) = Below
  BY DEF OpToRel, Below
<1> QED BY Zenon, <1>1, NatLessThanWellFounded

LEMMA UpTo ==
    ASSUME NEW N \in Nat, NEW T, 0 \in T, \A i \in 0..(N - 1) : i \in T => i + 1 \in T
    PROVE  0..N \subseteq T
<1> DEFINE D == {i \in Nat : i <= N /\ i \notin T}
<1>1. SUFFICES ASSUME D # {} PROVE FALSE
  OBVIOUS
<1>2. PICK x \in D : \A y \in D : ~(<<y, x>> \in Below)
  <2>1. D \subseteq Nat
    OBVIOUS
  <2> HIDE DEF D
  <2> QED BY <1>1, <2>1, BelowWellFounded, WFMin
<1>3. x \in Nat /\ x # 0 /\ x <= N /\ x \notin T
  BY <1>2
<1>4. x - 1 \in T
  <2>1. x - 1 \in Nat /\ <<x - 1, x>> \in Below
    BY <1>3 DEF Below
  <2>2. x - 1 \notin D
    BY <1>2, <2>1
  <2> QED BY <1>3, <2>1, <2>2
<1>5. x - 1 \in 0..(N - 1) /\ (x - 1) + 1 = x
  BY <1>3
<1>6. x \in T
  BY <1>4, <1>5
<1> QED BY <1>3, <1>6

Unfolds(g, N, S, base, step) ==
  /\ g \in [0..N -> S]
  /\ g[0] = base
  /\ \A i \in 1..N : g[i] = step[i][g[i - 1]]

LEMMA Recursion ==
    ASSUME NEW N \in Nat, NEW S, NEW base \in S, NEW step \in [1..N -> [S -> S]]
    PROVE  \E g : Unfolds(g, N, S, base, step)
<1> DEFINE after(x, i) == step[i][x]
           rec(g, n) == /\ g \in [0..n -> S]
                        /\ g = [i \in 0..n |-> IF i = 0 THEN base ELSE after(g[i - 1], i)]
           T == {n \in Nat : \E g : rec(g, n)}
<1>1. 0 \in T
  <2>1. rec([i \in 0..0 |-> base], 0)
    OBVIOUS
  <2> QED BY <2>1
<1>2. ASSUME NEW n \in 0..(N - 1), n \in T PROVE n + 1 \in T
  <2>1. PICK g : rec(g, n)
    BY <1>2
  <2> DEFINE h == [i \in 0..(n + 1) |-> IF i <= n THEN g[i] ELSE after(g[n], n + 1)]
  <2>2. h \in [0..(n + 1) -> S]
    <3>1. n + 1 \in 1..N /\ g[n] \in S
      BY <2>1
    <3>2. after(g[n], n + 1) \in S
      BY <3>1
    <3> HIDE DEF after
    <3> QED BY <2>1, <3>2
  <2> HIDE DEF after
  <2>3. \A i \in 0..(n + 1) : h[i] = IF i = 0 THEN base ELSE after(h[i - 1], i)
    BY <2>1
  <2>4. rec(h, n + 1)
    <3> DEFINE e == [i \in 0..(n + 1) |-> IF i = 0 THEN base ELSE after(h[i - 1], i)]
    <3>1. \A i \in 0..(n + 1) : h[i] = e[i]
      BY <2>3
    <3> QED BY <2>2, <3>1
  <2> HIDE DEF rec
  <2> QED BY <2>4
<1>3. N \in T
  <2>1. \A n \in 0..(N - 1) : n \in T => n + 1 \in T
    BY <1>2
  <2> HIDE DEF T
  <2>2. 0..N \subseteq T
    BY <1>1, <2>1, UpTo
  <2> QED BY <2>2
<1>4. PICK g : rec(g, N)
  BY <1>3
<1>5. g[0] = base /\ \A i \in 1..N : g[i] = after(g[i - 1], i)
  <2> HIDE DEF after
  <2> QED BY <1>4
<1>6. Unfolds(g, N, S, base, step)
  BY <1>4, <1>5 DEF Unfolds
<1> QED BY <1>6

LEMMA Pow2Doubles ==
    /\ Pow2[0] = 1
    /\ \A n \in 1..Bits["Long"] : Pow2[n] = 2 * Pow2[n - 1]
    /\ \A n \in 0..Bits["Long"] : Pow2[n] \in Nat \ {0}
<1> DEFINE N == Bits["Long"]
           rec(g) == g = [n \in 0..N |-> IF n = 0 THEN 1 ELSE 2 * g[n - 1]]
<1>1. N \in Nat
  BY BitsAssumption
<1>2. \E g : rec(g)
  <2> DEFINE step == [i \in 1..N |-> [x \in Nat |-> 2 * x]]
  <2>1. step \in [1..N -> [Nat -> Nat]]
    OBVIOUS
  <2>2. PICK g : Unfolds(g, N, Nat, 1, step)
    <3>1. 1 \in Nat
      OBVIOUS
    <3> HIDE DEF step, N
    <3> QED BY <1>1, <2>1, <3>1, Recursion
  <2>3. ASSUME NEW i \in 0..N, i # 0 PROVE g[i] = 2 * g[i - 1]
    <3>1. i \in 1..N /\ i - 1 \in 0..N
      BY <1>1, <2>3
    <3>2. g[i - 1] \in Nat
      BY <2>2, <3>1 DEF Unfolds
    <3>3. \A x \in Nat, k \in 1..N : step[k][x] = 2 * x
      OBVIOUS
    <3> QED BY <2>2, <3>1, <3>2, <3>3 DEF Unfolds
  <2>4. rec(g)
    <3> DEFINE e == [n \in 0..N |-> IF n = 0 THEN 1 ELSE 2 * g[n - 1]]
    <3>1. \A i \in 0..N : g[i] = e[i]
      BY <2>2, <2>3 DEF Unfolds
    <3> HIDE DEF N
    <3> QED BY <2>2, <3>1 DEF Unfolds
  <2> QED BY <2>4
<1>3. rec(Pow2)
  BY <1>2 DEF Pow2
<1>4. Pow2[0] = 1 /\ \A n \in 1..N : Pow2[n] = 2 * Pow2[n - 1]
  <2> HIDE DEF N
  <2> QED BY <1>1, <1>3
<1> DEFINE T == {n \in 0..N : Pow2[n] \in Nat \ {0}}
<1>5. 0..N \subseteq T
  <2>1. 0 \in T /\ \A i \in 0..(N - 1) : i \in T => i + 1 \in T
    <3> HIDE DEF N
    <3> QED BY <1>1, <1>4
  <2> HIDE DEF T, N
  <2> QED BY <1>1, <2>1, UpTo
<1> QED BY <1>4, <1>5

\* More bits, at least as many values; a bit more, twice as many.
LEMMA Pow2Grows ==
    ASSUME NEW a \in 0..Bits["Long"], NEW b \in 0..Bits["Long"], a < b
    PROVE  2 * Pow2[a] <= Pow2[b]
<1> DEFINE N == Bits["Long"]
           T == {k \in 0..N : a + 1 + k <= N => 2 * Pow2[a] <= Pow2[a + 1 + k]}
<1>1. N \in Nat /\ a \in Nat /\ b \in Nat /\ a + 1 <= N
  BY BitsAssumption
<1>2. 0 \in T
  <2>1. a + 1 \in 1..N /\ (a + 1) - 1 = a
    BY <1>1
  <2>2. Pow2[a + 1] = 2 * Pow2[a]
    BY <2>1, Pow2Doubles
  <2>3. Pow2[a] \in Nat
    BY Pow2Doubles
  <2> QED BY <1>1, <2>2, <2>3
<1>3. ASSUME NEW k \in 0..(N - 1), k \in T PROVE k + 1 \in T
  <2>1. SUFFICES ASSUME a + 1 + (k + 1) <= N PROVE 2 * Pow2[a] <= Pow2[a + 1 + (k + 1)]
    BY <1>1
  <2> DEFINE n == a + 1 + k
  <2>2. n \in 0..N /\ n + 1 \in 1..N /\ a + 1 + (k + 1) = n + 1 /\ (n + 1) - 1 = n
    BY <1>1, <2>1
  <2>3. Pow2[n + 1] = 2 * Pow2[n]
    BY <2>2, Pow2Doubles
  <2>4. Pow2[n] \in Nat /\ Pow2[a] \in Nat
    BY <2>2, Pow2Doubles
  <2>5. 2 * Pow2[a] <= Pow2[n]
    BY <1>3, <2>2
  <2> HIDE DEF n
  <2> QED BY <2>2, <2>3, <2>4, <2>5
<1>4. 0..N \subseteq T
  <2> HIDE DEF T, N
  <2> QED BY <1>1, <1>2, <1>3, UpTo
<1>5. b - (a + 1) \in T /\ a + 1 + (b - (a + 1)) = b
  BY <1>1, <1>4
<1> QED BY <1>5

-----------------------------------------------------------------------------
(* The integer types.                                                      *)
IntegerTypes == {Byte, Short, Int32, Long}
NumberTypes == IntegerTypes \cup {Float}

\* A value of a numeric type.
IsOf(v, t) == /\ v = V(t, v[2])
              /\ v[2] \in IF t = Float THEN Int ELSE MinOf(t) .. MaxOf(t)

LEMMA IntegerTags ==
    ASSUME NEW t \in IntegerTypes
    PROVE  /\ IsInteger(t) /\ IsNumeric(t) /\ t \notin {Float, String, NullType}
           /\ t = <<t[1]>> /\ t[1] \in Integers4
           /\ Bits[t[1]] \in 1..Bits["Long"]
BY BitsAssumption DEF IntegerTypes, IsInteger, IsNumeric, Ranks, Byte, Short, Int32, Long, Float, String, NullType,
                      Integers4, Narrow

LEMMA RangeOf ==
    ASSUME NEW t \in IntegerTypes
    PROVE  /\ MinOf(t) \in Int /\ MaxOf(t) \in Int
           /\ MinOf(t) <= 0 /\ 0 <= MaxOf(t)
           /\ Pow2[Bits[t[1]]] \in Nat \ {0}
           /\ MaxOf(t) = MinOf(t) + Pow2[Bits[t[1]]] - 1
<1> DEFINE w == Bits[t[1]]
<1>1. w \in 1..Bits["Long"] /\ w \in 0..Bits["Long"] /\ w - 1 \in 0..Bits["Long"]
  BY IntegerTags, BitsAssumption
<1>2. Pow2[w] \in Nat \ {0} /\ Pow2[w - 1] \in Nat \ {0} /\ Pow2[w] = 2 * Pow2[w - 1]
  BY <1>1, Pow2Doubles
<1> QED BY <1>2 DEF MinOf, MaxOf

LEMMA WrapFits ==
    ASSUME NEW t \in IntegerTypes, NEW n \in Int
    PROVE  /\ Wrap(n, t) \in MinOf(t) .. MaxOf(t)
           /\ n \in MinOf(t) .. MaxOf(t) => Wrap(n, t) = n
<1> DEFINE lo == MinOf(t)
           width == Pow2[Bits[t[1]]]
<1>1. lo \in Int /\ width \in Nat \ {0} /\ MaxOf(t) = lo + width - 1
  BY RangeOf
<1>2. Wrap(n, t) = lo + ((n - lo) % width)
  BY DEF Wrap
<1> HIDE DEF lo, width
<1>3. (n - lo) % width \in 0..(width - 1)
  BY <1>1
<1>4. n - lo \in 0..(width - 1) => (n - lo) % width = n - lo
  BY <1>1
<1> QED BY <1>1, <1>2, <1>3, <1>4 DEF lo

\* A wider type holds all the numbers of a narrower one, and more.
LEMMA WiderHoldsMore ==
    ASSUME NEW a \in IntegerTypes, NEW b \in IntegerTypes, Rank(a) < Rank(b)
    PROVE  /\ MinOf(b) <= MinOf(a) /\ MaxOf(a) <= MaxOf(b)
           /\ MinOf(b) < MinOf(a) \/ MaxOf(a) < MaxOf(b)
<1> DEFINE wa == Bits[a[1]]
           wb == Bits[b[1]]
<1>1. /\ wa \in 1..Bits["Long"] /\ wb \in 1..Bits["Long"] /\ Bits["Long"] \in Nat
      /\ wa \in 0..Bits["Long"] /\ wb \in 0..Bits["Long"]
      /\ wa - 1 \in 0..Bits["Long"] /\ wb - 1 \in 0..Bits["Long"]
  BY IntegerTags, BitsAssumption
<1>2. wa < wb
  BY BitsAssumption DEF Rank, IsNumeric, Ranks, IntegerTypes, Byte, Short, Int32, Long
<1>3. /\ Pow2[wa] \in Nat \ {0} /\ Pow2[wb] \in Nat \ {0}
      /\ Pow2[wa - 1] \in Nat \ {0} /\ Pow2[wb - 1] \in Nat \ {0}
  BY <1>1, Pow2Doubles
<1>4. 2 * Pow2[wa] <= Pow2[wb]
  BY <1>1, <1>2, Pow2Grows
<1>5. 2 * Pow2[wa - 1] <= Pow2[wb - 1]
  <2>1. wa - 1 < wb - 1
    BY <1>1, <1>2
  <2> QED BY <1>1, <2>1, Pow2Grows
<1>6. Pow2[wa] <= Pow2[wb - 1]
  <2>1. CASE wa = wb - 1
    BY <1>3, <2>1
  <2>2. CASE wa < wb - 1
    <3>1. 2 * Pow2[wa] <= Pow2[wb - 1]
      BY <1>1, <2>2, Pow2Grows
    <3> QED BY <1>3, <3>1
  <2> QED BY <1>1, <1>2, <2>1, <2>2
<1>7. Unsigned(b) => Unsigned(a)
  BY DEF Rank, IsNumeric, Ranks, IntegerTypes, Byte, Short, Int32, Long, Unsigned
<1>8. /\ MinOf(a) = IF Unsigned(a) THEN 0 ELSE -Pow2[wa - 1]
      /\ MaxOf(a) = IF Unsigned(a) THEN Pow2[wa] - 1 ELSE Pow2[wa - 1] - 1
      /\ MinOf(b) = IF Unsigned(b) THEN 0 ELSE -Pow2[wb - 1]
      /\ MaxOf(b) = IF Unsigned(b) THEN Pow2[wb] - 1 ELSE Pow2[wb - 1] - 1
  BY DEF MinOf, MaxOf
<1> HIDE DEF wa, wb
<1> QED BY <1>3, <1>4, <1>5, <1>6, <1>7, <1>8

LEMMA IntegerConversion ==
    ASSUME NEW a \in IntegerTypes, NEW b \in IntegerTypes, NEW n \in Int
    PROVE  /\ Convert(V(a, n), b) = V(b, Wrap(n, b))
           /\ TypeOfValue(V(a, n)) = a
           /\ V(a, n)[1] \in Scalars /\ IsNumeric(b)
<1>1. a[1] \notin {"Float", "String"} /\ a[1] \in Scalars
  BY DEF IntegerTypes, Byte, Short, Int32, Long, Scalars
<1>2. V(a, n)[1] = a[1] /\ V(a, n)[2] = n
  BY DEF V
<1>3. ToLong(V(a, n)) = n
  BY <1>1, <1>2 DEF ToLong
<1>4. IsInteger(b) /\ IsNumeric(b) /\ b # Float /\ b # String /\ a = <<a[1]>>
  BY IntegerTags
<1>5. Convert(V(a, n), b) = V(b, Wrap(n, b))
  BY <1>3, <1>4, Zenon DEF Convert
<1> QED BY <1>1, <1>2, <1>4, <1>5 DEF TypeOfValue

\* The warning about a narrowing conversion between integer types is given where a
\* number may be lost, and only there: comparing the ranks of the types is enough.
THEOREM NarrowingIsLoss ==
    ASSUME NEW a \in IntegerTypes, NEW b \in IntegerTypes, a # b
    PROVE  IsNarrowing(Conversion(a, b), a, b)
             <=> \E n \in MinOf(a) .. MaxOf(a) : Loses(V(a, n), b)
<1>1. IsNarrowing(Conversion(a, b), a, b) <=> Rank(b) < Rank(a)
  <2>1. /\ IsInteger(a) /\ IsInteger(b) /\ IsNumeric(a)
        /\ a \notin {Float, String, NullType} /\ b \notin {Float, String, NullType}
    BY IntegerTags
  <2>2. Conversion(a, b) = "NumericWiden"
    BY <2>1, Zenon DEF Conversion
  <2> QED BY <2>2 DEF IsNarrowing
<1>2. Rank(a) < Rank(b) \/ Rank(b) < Rank(a)
  BY DEF Rank, IsNumeric, Ranks, IntegerTypes, Byte, Short, Int32, Long
<1>3. ASSUME NEW n \in MinOf(a) .. MaxOf(a)
      PROVE  Loses(V(a, n), b) <=> Wrap(Wrap(n, b), a) # n
  <2>1. n \in Int /\ Wrap(n, b) \in Int
    BY RangeOf, WrapFits
  <2>2. Convert(Convert(V(a, n), b), TypeOfValue(V(a, n))) = V(a, Wrap(Wrap(n, b), a))
    BY <2>1, IntegerConversion
  <2>3. V(a, Wrap(Wrap(n, b), a)) = V(a, n) <=> Wrap(Wrap(n, b), a) = n
    BY DEF V
  <2> QED BY <2>1, <2>2, <2>3, IntegerConversion DEF Loses
<1>4. CASE Rank(a) < Rank(b)
  <2>1. ASSUME NEW n \in MinOf(a) .. MaxOf(a) PROVE ~Loses(V(a, n), b)
    <3>1. n \in MinOf(b) .. MaxOf(b) /\ n \in Int
      BY <1>4, WiderHoldsMore, RangeOf
    <3>2. Wrap(n, b) = n /\ Wrap(n, a) = n
      BY <3>1, WrapFits
    <3> QED BY <1>3, <3>2
  <2>2. Rank(a) \in Int /\ Rank(b) \in Int
    BY DEF Rank, IsNumeric, Ranks, IntegerTypes, Byte, Short, Int32, Long
  <2> QED BY <1>1, <1>4, <2>1, <2>2
<1>5. CASE Rank(b) < Rank(a)
  <2>1. PICK n \in MinOf(a) .. MaxOf(a) : n \notin MinOf(b) .. MaxOf(b)
    <3>1. MinOf(a) \in MinOf(a) .. MaxOf(a) /\ MaxOf(a) \in MinOf(a) .. MaxOf(a)
      BY RangeOf
    <3>2. MinOf(a) < MinOf(b) \/ MaxOf(b) < MaxOf(a)
      BY <1>5, WiderHoldsMore
    <3> QED BY <3>1, <3>2, RangeOf
  <2>2. n \in Int /\ Wrap(n, b) \in MinOf(b) .. MaxOf(b)
    BY RangeOf, WrapFits
  <2>3. Wrap(n, b) \in MinOf(a) .. MaxOf(a) /\ Wrap(n, b) \in Int
    BY <1>5, <2>2, WiderHoldsMore, RangeOf
  <2>4. Wrap(Wrap(n, b), a) # n
    BY <2>1, <2>2, <2>3, WrapFits
  <2> QED BY <1>1, <1>3, <1>5, <2>4
<1> QED BY <1>2, <1>4, <1>5

-----------------------------------------------------------------------------
(* Conversions and operators on numbers.                                   *)

LEMMA IsOfFacts ==
    ASSUME NEW t \in NumberTypes, NEW v, IsOf(v, t)
    PROVE  /\ v[1] = t[1] /\ v[2] \in Int
           /\ t # Float => v[2] \in MinOf(t) .. MaxOf(t)
<1>1. v = V(t, v[2]) /\ v[2] \in IF t = Float THEN Int ELSE MinOf(t) .. MaxOf(t)
  BY DEF IsOf
<1>2. v[1] = t[1]
  BY <1>1 DEF V
<1>3. t # Float => t \in IntegerTypes
  BY DEF NumberTypes
<1> QED BY <1>1, <1>2, <1>3, RangeOf

LEMMA FloatIsOf ==
    ASSUME NEW x \in Int
    PROVE  IsOf(V(Float, x), Float)
BY DEF IsOf, V

LEMMA IntegerIsOf ==
    ASSUME NEW t \in IntegerTypes, NEW n \in Int
    PROVE  IsOf(V(t, Wrap(n, t)), t)
<1>1. Wrap(n, t) \in MinOf(t) .. MaxOf(t) /\ t # Float
  BY WrapFits, IntegerTags
<1> QED BY <1>1 DEF IsOf, V

LEMMA FlagIsOf ==
    ASSUME NEW b \in BOOLEAN
    PROVE  IsOf(Flag(b), Int32)
<1>1. Int32 \in IntegerTypes /\ Int32 # Float
  BY DEF IntegerTypes, Int32, Float
<1>2. Bits["Int"] \in 2..Bits["Long"] /\ Bits["Int"] - 1 \in 1..Bits["Long"] /\ (Bits["Int"] - 1) - 1 \in 0..Bits["Long"]
  BY BitsAssumption
<1>3. Pow2[Bits["Int"] - 1] = 2 * Pow2[(Bits["Int"] - 1) - 1] /\ Pow2[(Bits["Int"] - 1) - 1] \in Nat \ {0}
  BY <1>2, Pow2Doubles
<1>4. MaxOf(Int32) = Pow2[Bits["Int"] - 1] - 1
  BY DEF MaxOf, Unsigned, Int32, Byte, Short
<1>5. MaxOf(Int32) >= 1 /\ MaxOf(Int32) \in Int /\ MinOf(Int32) \in Int /\ MinOf(Int32) <= 0
  BY <1>1, <1>3, <1>4, RangeOf
<1>6. 0 \in MinOf(Int32) .. MaxOf(Int32) /\ 1 \in MinOf(Int32) .. MaxOf(Int32)
  BY <1>5
<1>7. Flag(b) = V(Int32, IF b THEN 1 ELSE 0)
  BY DEF Flag, IntV
<1> QED BY <1>1, <1>6, <1>7 DEF IsOf, V

LEMMA RoundedInt == ASSUME NEW x \in Int PROVE Rounded(x) \in Int
<1>1. Unit \in Nat \ {0} /\ 2 * Unit \in Nat \ {0}
  BY BitsAssumption
<1>2. (2 * x + Unit) \div (2 * Unit) \in Int /\ (Unit - 2 * x) \div (2 * Unit) \in Int
  BY <1>1
<1> QED BY <1>2 DEF Rounded

LEMMA ToLongInt ==
    ASSUME NEW t \in NumberTypes, NEW v, IsOf(v, t)
    PROVE  ToLong(v) \in Int /\ (t # Float => ToLong(v) = v[2])
<1>1. v[1] = t[1] /\ v[2] \in Int
  BY IsOfFacts
<1>2. CASE t = Float
  <2>1. ToLong(v) = Saturated(Rounded(v[2]), Long)
    BY <1>1, <1>2 DEF ToLong, Float
  <2>2. Rounded(v[2]) \in Int /\ MaxOf(Long) \in Int /\ MinOf(Long) \in Int
    BY <1>1, RoundedInt, RangeOf DEF IntegerTypes
  <2> QED BY <1>2, <2>1, <2>2 DEF Saturated
<1>3. CASE t # Float
  <2>1. v[1] \notin {"Float", "String"}
    BY <1>1, <1>3 DEF NumberTypes, IntegerTypes, Byte, Short, Int32, Long, Float
  <2> QED BY <1>1, <2>1 DEF ToLong
<1> QED BY <1>2, <1>3

LEMMA ToFloatInt ==
    ASSUME NEW t \in NumberTypes, NEW v, IsOf(v, t)
    PROVE  ToFloat(v) \in Int
<1>1. v[1] = t[1] /\ v[2] \in Int /\ Unit \in Int
  BY IsOfFacts, BitsAssumption
<1>2. v[1] # "String"
  BY <1>1 DEF NumberTypes, IntegerTypes, Byte, Short, Int32, Long, Float
<1> QED BY <1>1, <1>2 DEF ToFloat

\* What the lowering makes of an operand with a noted conversion, or without one.
Coerced(v, from, to) == IF Conversion(from, to) = "none" THEN v ELSE Convert(v, to)

LEMMA NumbersConvert ==
    ASSUME NEW a \in NumberTypes, NEW b \in NumberTypes
    PROVE  Conversion(a, b) = "none" <=> a = b
BY DEF NumberTypes, IntegerTypes, Byte, Short, Int32, Long, Float, String, NullType,
       Conversion, IsInteger, IsNumeric, Ranks

\* An implicit conversion between numeric types gives a value of the type converted to,
\* within its range.
THEOREM ConversionsKeepTypes ==
    ASSUME NEW a \in NumberTypes, NEW b \in NumberTypes, NEW v, IsOf(v, a)
    PROVE  IsOf(Coerced(v, a, b), b)
<1>1. CASE a = b
  BY <1>1, NumbersConvert DEF Coerced
<1>2. CASE a # b /\ b = Float
  <2>1. ~IsInteger(Float)
    BY DEF IsInteger
  <2>2. Float # String
    BY DEF Float, String
  <2>3. Convert(v, Float) = V(Float, ToFloat(v))
    BY <2>1, <2>2, Zenon DEF Convert
  <2> QED BY <1>2, <2>3, NumbersConvert, ToFloatInt, FloatIsOf DEF Coerced
<1>3. CASE a # b /\ b # Float
  <2>1. b \in IntegerTypes
    BY <1>3 DEF NumberTypes
  <2>2. IsInteger(b) /\ b # Float /\ b # String
    BY <2>1, IntegerTags
  <2>3. Convert(v, b) = V(b, Wrap(ToLong(v), b))
    BY <2>2, Zenon DEF Convert
  <2> QED BY <1>3, <2>1, <2>3, NumbersConvert, ToLongInt, IntegerIsOf DEF Coerced
<1> QED BY <1>1, <1>2, <1>3

LEMMA Divisions ==
    ASSUME NEW x \in Int, NEW y \in Int, y # 0
    PROVE  Quot(x, y) \in Int /\ Rem(x, y) \in Int /\ Floored(x, y) \in Int
<1>1. Abs(x) \in Nat /\ Abs(y) \in Nat \ {0}
  BY DEF Abs
<1>2. Abs(x) \div Abs(y) \in Int
  BY <1>1
<1>3. Quot(x, y) \in Int
  BY <1>2 DEF Quot
<1>4. Rem(x, y) \in Int
  BY <1>3 DEF Rem
<1>5. Floored(x, y) \in Int
  <2>1. y < 0 => (-x) \div (-y) \in Int
    OBVIOUS
  <2>2. ~(y < 0) => x \div y \in Int
    OBVIOUS
  <2> QED BY <2>1, <2>2 DEF Floored
<1> QED BY <1>3, <1>4, <1>5

LEMMA CappedInt == ASSUME NEW x \in Int PROVE Capped(x) \in Int
BY DEF Capped, Infinity

LEMMA BitInt ==
    ASSUME NEW t \in IntegerTypes, NEW n \in Int, NEW i \in 0..Bits["Long"]
    PROVE  Bit(Raw(n, t), i) \in 0..1
<1>1. Pow2[Bits[t[1]]] \in Nat \ {0} /\ Pow2[i] \in Nat \ {0}
  BY RangeOf, Pow2Doubles
<1>2. Raw(n, t) \in Int
  BY <1>1 DEF Raw
<1>3. Raw(n, t) \div Pow2[i] \in Int
  BY <1>1, <1>2
<1> QED BY <1>3 DEF Bit

LEMMA BitsOfInt ==
    ASSUME NEW op \in Bitwise3, NEW x \in Int, NEW y \in Int, NEW t \in IntegerTypes
    PROVE  BitsOf(op, x, y, t) \in Int
<1> DEFINE N == Bits[t[1]]
           bit(i) == LET u == Bit(Raw(x, t), i)
                         v == Bit(Raw(y, t), i)
                     IN  CASE op = "BinAnd" -> u * v
                           [] op = "BinOr" -> IF u + v > 0 THEN 1 ELSE 0
                           [] op = "BinXor" -> (u + v) % 2
           add(i) == bit(i - 1) * Pow2[i - 1]
           rec(g) == g = [i \in 0..N |-> IF i = 0 THEN 0 ELSE g[i - 1] + bit(i - 1) * Pow2[i - 1]]
           step == [i \in 1..N |-> [n \in Int |-> n + add(i)]]
           sum == CHOOSE g : rec(g)
<1>1. N \in Nat /\ N <= Bits["Long"] /\ Bits["Long"] \in Nat
  BY IntegerTags, BitsAssumption
<1>2. ASSUME NEW i \in 1..N PROVE add(i) \in Int
  <2>1. i - 1 \in 0..Bits["Long"]
    BY <1>1
  <2>2. Pow2[i - 1] \in Int
    BY <2>1, Pow2Doubles
  <2>3. Bit(Raw(x, t), i - 1) \in 0..1 /\ Bit(Raw(y, t), i - 1) \in 0..1
    BY <2>1, BitInt
  <2>4. bit(i - 1) \in Int
    BY <2>3 DEF Bitwise3
  <2> HIDE DEF bit
  <2> QED BY <2>2, <2>4
<1>3. BitsOf(op, x, y, t) = sum[N]
  BY DEF BitsOf
<1> HIDE DEF N
<1>4. PICK g : Unfolds(g, N, Int, 0, step)
  <2>1. step \in [1..N -> [Int -> Int]]
    <3> HIDE DEF add
    <3> QED BY <1>2
  <2>2. 0 \in Int
    OBVIOUS
  <2> HIDE DEF step
  <2> QED BY <1>1, <2>1, <2>2, Recursion
<1>5. ASSUME NEW i \in 1..N PROVE g[i] = g[i - 1] + add(i)
  <2>1. i - 1 \in 0..N /\ g[i] = step[i][g[i - 1]] /\ g[i - 1] \in Int
    <3> HIDE DEF step
    <3> QED BY <1>1, <1>4 DEF Unfolds
  <2>2. \A n \in Int : step[i][n] = n + add(i)
    <3> HIDE DEF add
    <3> QED OBVIOUS
  <2> HIDE DEF step, add
  <2> QED BY <2>1, <2>2
<1>6. rec(g)
  <2> DEFINE e == [i \in 0..N |-> IF i = 0 THEN 0 ELSE g[i - 1] + bit(i - 1) * Pow2[i - 1]]
  <2>1. ASSUME NEW i \in 0..N PROVE g[i] = e[i]
    <3>1. i = 0 \/ i \in 1..N
      BY <1>1
    <3>2. g[0] = 0
      BY <1>4 DEF Unfolds
    <3> HIDE DEF bit, step
    <3> QED BY <1>5, <3>1, <3>2
  <2> HIDE DEF bit, step
  <2> QED BY <1>4, <2>1 DEF Unfolds
<1>7. rec(sum)
  <2> HIDE DEF rec
  <2> QED BY <1>6
<1>8. sum[0] = 0 /\ \A i \in 1..N : sum[i] = sum[i - 1] + add(i)
  <2> HIDE DEF sum, bit
  <2> QED BY <1>1, <1>7
<1> DEFINE T == {i \in 0..N : sum[i] \in Int}
<1>9. 0..N \subseteq T
  <2> HIDE DEF sum, add
  <2>1. 0 \in T /\ \A i \in 0..(N - 1) : i \in T => i + 1 \in T
    <3>1. 0 \in T
      BY <1>1, <1>8
    <3>2. ASSUME NEW i \in 0..(N - 1), i \in T PROVE i + 1 \in T
      <4>1. i + 1 \in 1..N /\ (i + 1) - 1 = i /\ i + 1 \in 0..N
        BY <1>1
      <4>2. sum[i + 1] = sum[i] + add(i + 1) /\ add(i + 1) \in Int
        BY <1>2, <1>8, <4>1
      <4> QED BY <3>2, <4>1, <4>2
    <3> QED BY <3>1, <3>2
  <2> HIDE DEF T
  <2> QED BY <1>1, <2>1, UpTo
<1> HIDE DEF sum
<1> QED BY <1>1, <1>3, <1>9

LEMMA ShiftInt ==
    ASSUME NEW op \in Shifts, NEW x \in Int, NEW y \in Int, NEW t \in IntegerTypes
    PROVE  Shift(op, x, y, t) \in Int
<1> DEFINE by == Pow2[y % Bits[t[1]]]
<1>1. Bits[t[1]] \in 1..Bits["Long"] /\ Bits["Long"] \in Nat
  BY IntegerTags, BitsAssumption
<1>2. y % Bits[t[1]] \in 0..Bits["Long"]
  BY <1>1
<1>3. by \in Nat \ {0}
  BY <1>2, Pow2Doubles
<1>4. Raw(x, t) \in Int
  BY RangeOf DEF Raw
<1>5. x * by \in Int /\ Raw(x, t) \div by \in Int /\ x \div by \in Int
  <2> HIDE DEF by
  <2> QED BY <1>3, <1>4
<1>6. Shift(op, x, y, t) = CASE op = "Shl" -> x * by [] op = "Shr" -> Raw(x, t) \div by [] op = "Sar" -> x \div by
  BY DEF Shift
<1> HIDE DEF by
<1> QED BY <1>5, <1>6 DEF Shifts

LEMMA PowerInt ==
    ASSUME NEW x \in Int, NEW y \in Int
    PROVE  Power(x, y) \in Int
<1> DEFINE N == Abs(y) \div Unit
           times(p) == Capped((p * x) \div Unit)
           rec(g) == g = [i \in 0..N |-> IF i = 0 THEN Unit ELSE Capped((g[i - 1] * x) \div Unit)]
           step == [i \in 1..N |-> [p \in Int |-> times(p)]]
           power == CHOOSE g : rec(g)
<1>1. Unit \in Nat \ {0} /\ N \in Nat
  <2>1. Unit \in Nat \ {0} /\ Abs(y) \in Nat
    BY BitsAssumption DEF Abs
  <2> QED BY <2>1
<1>2. ASSUME NEW p \in Int PROVE times(p) \in Int
  <2>1. (p * x) \div Unit \in Int
    BY <1>1
  <2> QED BY <2>1, CappedInt
<1>3. Power(x, y) = CASE y >= 0 -> power[N] [] y < 0 /\ power[N] # 0 -> Floored(Unit * Unit, power[N])
                      [] OTHER -> Infinity
  BY DEF Power
<1> HIDE DEF N
<1>4. PICK g : Unfolds(g, N, Int, Unit, step)
  <2>1. step \in [1..N -> [Int -> Int]]
    <3> HIDE DEF times
    <3> QED BY <1>2
  <2>2. Unit \in Int
    BY <1>1
  <2> HIDE DEF step
  <2> QED BY <1>1, <2>1, <2>2, Recursion
<1>5. ASSUME NEW i \in 1..N PROVE g[i] = times(g[i - 1])
  <2>1. i - 1 \in 0..N /\ g[i] = step[i][g[i - 1]] /\ g[i - 1] \in Int
    <3> HIDE DEF step
    <3> QED BY <1>1, <1>4 DEF Unfolds
  <2>2. \A p \in Int : step[i][p] = times(p)
    <3> HIDE DEF times
    <3> QED OBVIOUS
  <2> HIDE DEF step, times
  <2> QED BY <2>1, <2>2
<1>6. rec(g)
  <2> DEFINE e == [i \in 0..N |-> IF i = 0 THEN Unit ELSE Capped((g[i - 1] * x) \div Unit)]
  <2>1. ASSUME NEW i \in 0..N PROVE g[i] = e[i]
    <3>1. i = 0 \/ i \in 1..N
      BY <1>1
    <3>2. g[0] = Unit
      BY <1>4 DEF Unfolds
    <3> HIDE DEF step
    <3> QED BY <1>5, <3>1, <3>2
  <2> HIDE DEF step
  <2> QED BY <1>4, <2>1 DEF Unfolds
<1>7. rec(power)
  <2> HIDE DEF rec
  <2> QED BY <1>6
<1>8. power[0] = Unit /\ \A i \in 1..N : power[i] = times(power[i - 1])
  <2> HIDE DEF power
  <2> QED BY <1>1, <1>7
<1> DEFINE T == {i \in 0..N : power[i] \in Int}
<1>9. 0..N \subseteq T
  <2> HIDE DEF power, times
  <2>1. 0 \in T /\ \A i \in 0..(N - 1) : i \in T => i + 1 \in T
    <3>1. 0 \in T
      BY <1>1, <1>8
    <3>2. ASSUME NEW i \in 0..(N - 1), i \in T PROVE i + 1 \in T
      <4>1. i + 1 \in 1..N /\ (i + 1) - 1 = i /\ i + 1 \in 0..N
        BY <1>1
      <4>2. power[i + 1] = times(power[i])
        BY <1>8, <4>1
      <4> QED BY <1>2, <3>2, <4>1, <4>2
    <3> QED BY <3>1, <3>2
  <2> HIDE DEF T
  <2> QED BY <1>1, <2>1, UpTo
<1> HIDE DEF power
<1>10. power[N] \in Int
  BY <1>1, <1>9
<1>11. power[N] # 0 => Floored(Unit * Unit, power[N]) \in Int
  <2>1. Unit * Unit \in Int
    BY <1>1
  <2> QED BY <1>10, <2>1, Divisions
<1>12. Infinity \in Int
  BY DEF Infinity
<1> QED BY <1>3, <1>10, <1>11, <1>12

-----------------------------------------------------------------------------
(* The operators by kind of operands.                                      *)
Dividing == {"/", "Mod"}
Arithmetic == {"+", "-", "*"} \cup Dividing
NumberOps == Arithmetic \cup {"^"} \cup Bitwise3 \cup Shifts \cup Comparisons

LEMMA Orderings ==
    ASSUME NEW op \in Comparisons, NEW x \in Int, NEW y \in Int
    PROVE  Ordered(op, x, y) \in BOOLEAN
<1>1. op \in {"=", "<>", "<", ">", "<=", ">="}
  BY DEF Comparisons, Equalities, Orders
<1>2. /\ (x = y) \in BOOLEAN /\ (x # y) \in BOOLEAN /\ (x < y) \in BOOLEAN
      /\ (x > y) \in BOOLEAN /\ (x <= y) \in BOOLEAN /\ (x >= y) \in BOOLEAN
  OBVIOUS
<1>3. CASE op = "="
  BY <1>2, <1>3, Zenon DEF Ordered
<1>4. CASE op = "<>"
  BY <1>2, <1>4, Zenon DEF Ordered
<1>5. CASE op = "<"
  BY <1>2, <1>5, Zenon DEF Ordered
<1>6. CASE op = ">"
  BY <1>2, <1>6, Zenon DEF Ordered
<1>7. CASE op = "<="
  BY <1>2, <1>7, Zenon DEF Ordered
<1>8. CASE op = ">="
  BY <1>2, <1>8, Zenon DEF Ordered
<1> QED BY <1>1, <1>3, <1>4, <1>5, <1>6, <1>7, <1>8

LEMMA OnIntegers ==
    ASSUME NEW op \in NumberOps \ {"^"}, NEW x \in Int, NEW y \in Int, NEW t \in IntegerTypes
    PROVE  LET v == IntBinop(op, x, y, t) IN
           \/ op \in Dividing /\ y = 0 /\ v = Failed("DivisionByZero")
           \/ IsOf(v, IF op \in Comparisons THEN Int32 ELSE t)
<1>0. op \in Arithmetic => op \notin Bitwise3 \cup Shifts \cup Comparisons
  BY DEF Arithmetic, Dividing, Bitwise3, Shifts, Comparisons, Equalities, Orders
<1>1. CASE op \in {"+", "-", "*"}
  <2>1. op \notin Bitwise3 \cup Shifts \cup Comparisons
    BY <1>0, <1>1 DEF Arithmetic
  <2>2. PICK n \in Int : IntBinop(op, x, y, t) = V(t, Wrap(n, t))
    <3>0. x + y \in Int /\ x - y \in Int /\ x * y \in Int
      OBVIOUS
    <3>1. CASE op = "+"
      BY <2>1, <3>0, <3>1 DEF IntBinop
    <3>2. CASE op = "-"
      BY <2>1, <3>0, <3>2 DEF IntBinop
    <3>3. CASE op = "*"
      BY <2>1, <3>0, <3>3 DEF IntBinop
    <3> QED BY <1>1, <3>1, <3>2, <3>3
  <2> QED BY <2>1, <2>2, IntegerIsOf
<1>2. CASE op \in Dividing /\ y = 0
  <2>1. op \notin Bitwise3 \cup Shifts \cup Comparisons
    BY <1>0, <1>2 DEF Arithmetic
  <2>2. IntBinop(op, x, y, t) = Failed("DivisionByZero")
    BY <1>2, <2>1 DEF IntBinop, Dividing
  <2> QED BY <1>2, <2>2
<1>3. CASE op \in Dividing /\ y # 0
  <2>1. op \notin Bitwise3 \cup Shifts \cup Comparisons
    BY <1>0, <1>3 DEF Arithmetic
  <2>2. Quot(x, y) \in Int /\ Rem(x, y) \in Int
    BY <1>3, Divisions
  <2>3. PICK n \in Int : IntBinop(op, x, y, t) = V(t, Wrap(n, t))
    <3>1. CASE op = "/"
      BY <1>3, <2>1, <2>2, <3>1 DEF IntBinop
    <3>2. CASE op = "Mod"
      BY <1>3, <2>1, <2>2, <3>2 DEF IntBinop
    <3> QED BY <1>3, <3>1, <3>2 DEF Dividing
  <2> QED BY <2>1, <2>3, IntegerIsOf
<1>4. CASE op \in Bitwise3
  <2>1. op \notin {"+", "-", "*", "/", "Mod"} \cup Comparisons
    BY <1>4 DEF Bitwise3, Comparisons, Equalities, Orders
  <2>2. IntBinop(op, x, y, t) = V(t, Wrap(BitsOf(op, x, y, t), t))
    BY <1>4, <2>1 DEF IntBinop, Bitwise3, Shifts
  <2> QED BY <1>4, <2>1, <2>2, BitsOfInt, IntegerIsOf
<1>5. CASE op \in Shifts
  <2>1. op \notin {"+", "-", "*", "/", "Mod"} \cup Comparisons \cup Bitwise3
    BY <1>5 DEF Shifts, Bitwise3, Comparisons, Equalities, Orders
  <2>2. IntBinop(op, x, y, t) = V(t, Wrap(Shift(op, x, y, t), t))
    BY <1>5, <2>1 DEF IntBinop
  <2> QED BY <1>5, <2>1, <2>2, ShiftInt, IntegerIsOf
<1>6. CASE op \in Comparisons
  <2>1. op \notin {"+", "-", "*", "/", "Mod"} \cup Bitwise3 \cup Shifts
    BY <1>6 DEF Shifts, Bitwise3, Comparisons, Equalities, Orders
  <2>2. IntBinop(op, x, y, t) = Flag(Ordered(op, x, y))
    BY <1>6, <2>1 DEF IntBinop
  <2> QED BY <1>6, <2>2, Orderings, FlagIsOf
<1> QED BY <1>1, <1>2, <1>3, <1>4, <1>5, <1>6 DEF NumberOps, Arithmetic, Dividing

LEMMA OnFloats ==
    ASSUME NEW op \in Arithmetic \cup {"^"} \cup Comparisons, NEW x \in Int, NEW y \in Int,
           op = "Mod" => y # 0
    PROVE  IsOf(FloatBinop(op, x, y), IF op \in Comparisons THEN Int32 ELSE Float)
<1>0. Unit \in Nat \ {0}
  BY BitsAssumption
<1>1. CASE op \in Arithmetic \cup {"^"}
  <2>1. op \notin Comparisons
    BY <1>1 DEF Arithmetic, Dividing, Comparisons, Equalities, Orders
  <2>2. (x * y) \div Unit \in Int /\ x * Unit \in Int /\ x + y \in Int /\ x - y \in Int
    BY <1>0
  <2>3. Capped((x * y) \div Unit) \in Int /\ Capped(x + y) \in Int /\ Capped(x - y) \in Int
    BY <2>2, CappedInt
  <2>4. y # 0 => Capped(Floored(x * Unit, y)) \in Int /\ Rem(x, y) \in Int
    BY <2>2, CappedInt, Divisions
  <2>5. Infinity \in Int /\ Power(x, y) \in Int
    BY PowerInt DEF Infinity
  <2>6. PICK n \in Int : FloatBinop(op, x, y) = V(Float, n)
    <3>1. CASE op = "+"
      BY <2>1, <2>3, <3>1 DEF FloatBinop
    <3>2. CASE op = "-"
      BY <2>1, <2>3, <3>2 DEF FloatBinop
    <3>3. CASE op = "*"
      BY <2>1, <2>3, <3>3 DEF FloatBinop
    <3>4. CASE op = "/"
      <4>1. FloatBinop(op, x, y) = V(Float, IF y = 0 THEN Infinity ELSE Capped(Floored(x * Unit, y)))
        BY <2>1, <3>4 DEF FloatBinop
      <4> QED BY <2>4, <2>5, <4>1
    <3>5. CASE op = "Mod"
      BY <2>1, <2>4, <3>5 DEF FloatBinop
    <3>6. CASE op = "^"
      BY <2>1, <2>5, <3>6 DEF FloatBinop
    <3> QED BY <1>1, <3>1, <3>2, <3>3, <3>4, <3>5, <3>6 DEF Arithmetic, Dividing
  <2> QED BY <2>1, <2>6, FloatIsOf
<1>2. CASE op \in Comparisons
  <2>1. op \notin {"+", "-", "*", "/", "Mod", "^"}
    BY <1>2 DEF Comparisons, Equalities, Orders
  <2>2. FloatBinop(op, x, y) = Flag(Ordered(op, x, y))
    BY <1>2, <2>1 DEF FloatBinop
  <2> QED BY <1>2, <2>2, Orderings, FlagIsOf
<1> QED BY <1>1, <1>2

LEMMA Promotion ==
    ASSUME NEW a \in NumberTypes, NEW b \in NumberTypes
    PROVE  /\ NumericPromote(a, b) \in {Int32, Long, Float}
           /\ NumericPromote(a, b) = Float <=> Float \in {a, b}
<1>1. CASE a = Float
  BY <1>1 DEF NumberTypes, IntegerTypes, NumericPromote, WidenStorage, Rank, IsNumeric, Ranks, Byte, Short, Int32, Long, Float
<1>2. CASE b = Float
  BY <1>2 DEF NumberTypes, IntegerTypes, NumericPromote, WidenStorage, Rank, IsNumeric, Ranks, Byte, Short, Int32, Long, Float
<1>3. CASE a # Float /\ b # Float
  BY <1>3 DEF NumberTypes, IntegerTypes, NumericPromote, WidenStorage, Byte, Short, Int32, Long, Float
<1> QED BY <1>1, <1>2, <1>3

\* Two operands of one type, as they are once converted.
LEMMA OnOneType ==
    ASSUME NEW w \in {Int32, Long, Float}, NEW x, NEW y, IsOf(x, w), IsOf(y, w),
           NEW op \in NumberOps \ Shifts,
           w = Float => op \notin Bitwise3, w # Float => op # "^",
           w = Float /\ op = "Mod" => y[2] # 0
    PROVE  LET v == EvalBinop(op, x, y) IN
           \/ w # Float /\ op \in Dividing /\ y[2] = 0 /\ v = Failed("DivisionByZero")
           \/ IsOf(v, IF op \in Comparisons THEN Int32 ELSE w)
<1>1. w \in NumberTypes /\ x[1] = w[1] /\ y[1] = w[1] /\ x[2] \in Int /\ y[2] \in Int
  <2>1. w \in NumberTypes
    BY DEF NumberTypes, IntegerTypes
  <2> QED BY <2>1, IsOfFacts
<1>2. CASE w = Int32
  <2>1. x[1] = "Int" /\ y[1] = "Int"
    BY <1>1, <1>2 DEF Int32
  <2>2. EvalBinop(op, x, y) = IntBinop(op, x[2], y[2], Int32)
    BY <2>1 DEF EvalBinop, Narrow
  <2>3. Int32 \in IntegerTypes /\ Int32 # Float
    BY DEF IntegerTypes, Int32, Float
  <2> QED BY <1>1, <1>2, <2>2, <2>3, OnIntegers
<1>3. CASE w = Long
  <2>1. x[1] = "Long" /\ y[1] = "Long"
    BY <1>1, <1>3 DEF Long
  <2>2. EvalBinop(op, x, y) = IntBinop(op, x[2], y[2], Long)
    BY <2>1 DEF EvalBinop, Narrow
  <2>3. Long \in IntegerTypes /\ Long # Float
    BY DEF IntegerTypes, Long, Float
  <2> QED BY <1>1, <1>3, <2>2, <2>3, OnIntegers
<1>4. CASE w = Float
  <2>1. x[1] = "Float" /\ y[1] = "Float"
    BY <1>1, <1>4 DEF Float
  <2>2. EvalBinop(op, x, y) = FloatBinop(op, x[2], y[2])
    BY <2>1 DEF EvalBinop, Narrow
  <2>3. op \in Arithmetic \cup {"^"} \cup Comparisons
    BY <1>4 DEF NumberOps
  <2> QED BY <1>1, <1>4, <2>2, <2>3, OnFloats
<1> QED BY <1>2, <1>3, <1>4

\* The types the checker gives, kind by kind of operator.
LEMMA ResultTypes ==
    ASSUME NEW a \in NumberTypes, NEW b \in NumberTypes, NEW op \in NumberOps,
           BinaryType(op, a, b) # ErrorType
    PROVE  LET ty == BinaryType(op, a, b)
               w == OperandType(op, ty, a, b)
           IN  /\ op \in Shifts => a # Float /\ b # Float /\ ty = WidenStorage(a)
               /\ op \notin Shifts =>
                    /\ w \in {Int32, Long, Float}
                    /\ ty = IF op \in Comparisons THEN Int32 ELSE w
                    /\ w = Float => op \notin Bitwise3
                    /\ w # Float => op # "^"
                    /\ op = "Mod" => (w = Float <=> Float \in {a, b})
<1> DEFINE ty == BinaryType(op, a, b)
           w == OperandType(op, ty, a, b)
<1>1. IsNumeric(a) /\ IsNumeric(b) /\ (IsInteger(a) <=> a # Float) /\ (IsInteger(b) <=> b # Float) /\ String \notin {a, b}
  BY DEF NumberTypes, IntegerTypes, IsInteger, IsNumeric, Ranks, Byte, Short, Int32, Long, Float, String
<1>2. NumericPromote(a, b) \in {Int32, Long, Float} /\ (NumericPromote(a, b) = Float <=> Float \in {a, b})
  BY Promotion
<1>3. Int32 # Float /\ Long # Float
  BY DEF Int32, Long, Float
<1>4. CASE op \in Arithmetic
  <2>1. op \notin Comparisons \cup Logical \cup Shifts \cup Bitwise3 \cup {"^"}
    BY <1>4 DEF Arithmetic, Dividing, Comparisons, Equalities, Orders, Logical, Shifts, Bitwise3
  <2>2. ty = NumericPromote(a, b)
    <3>1. CASE op = "+"
      BY <1>1, <2>1, <3>1 DEF BinaryType, Comparisons
    <3>2. CASE op # "+"
      BY <1>1, <1>4, <2>1, <3>2 DEF BinaryType, Comparisons, Arithmetic, Dividing
    <3> QED BY <3>1, <3>2
  <2>3. w = ty
    BY <2>1 DEF OperandType
  <2> QED BY <1>2, <2>1, <2>2, <2>3
<1>5. CASE op = "^"
  <2>1. op \notin Comparisons \cup Logical \cup Shifts \cup Bitwise3 \cup {"Mod"}
    BY <1>5 DEF Comparisons, Equalities, Orders, Logical, Shifts, Bitwise3
  <2>2. ty = Float
    BY <1>1, <1>5, <2>1 DEF BinaryType, Comparisons
  <2>3. w = ty
    BY <2>1 DEF OperandType
  <2> QED BY <2>1, <2>2, <2>3
<1>6. CASE op \in Bitwise3
  <2>1. op \notin Arithmetic \cup Comparisons \cup Logical \cup Shifts \cup {"^"}
    BY <1>6 DEF Arithmetic, Dividing, Comparisons, Equalities, Orders, Logical, Shifts, Bitwise3
  <2>2. ty = IF IsInteger(a) /\ IsInteger(b) THEN NumericPromote(a, b) ELSE ErrorType
    BY <1>6, <2>1 DEF BinaryType, Comparisons, Arithmetic, Dividing
  <2>3. w = ty /\ a # Float /\ b # Float
    BY <1>1, <2>1, <2>2 DEF OperandType
  <2> QED BY <1>1, <1>2, <2>1, <2>2, <2>3 DEF Arithmetic, Dividing
<1>7. CASE op \in Shifts
  <2>1. op \notin Arithmetic \cup Comparisons \cup Logical \cup Bitwise3 \cup {"^"}
    BY <1>7 DEF Arithmetic, Dividing, Comparisons, Equalities, Orders, Logical, Shifts, Bitwise3
  <2>2. ty = IF IsInteger(a) /\ IsInteger(b) THEN WidenStorage(a) ELSE ErrorType
    BY <1>7, <2>1 DEF BinaryType, Comparisons, Arithmetic, Dividing
  <2> QED BY <1>1, <1>7, <2>2
<1>8. CASE op \in Comparisons
  <2>1. op \notin Arithmetic \cup Shifts \cup Logical \cup Bitwise3 \cup {"^"}
    BY <1>8 DEF Arithmetic, Dividing, Comparisons, Equalities, Orders, Logical, Shifts, Bitwise3
  <2>2. ty = Int32
    <3>1. CASE op \in Equalities
      <4>1. op \notin Orders
        BY <3>1 DEF Equalities, Orders
      <4> QED BY <1>1, <2>1, <3>1, <4>1 DEF BinaryType, Arithmetic, Dividing
    <3>2. CASE op \in Orders
      <4>1. op \notin Equalities
        BY <3>2 DEF Equalities, Orders
      <4> QED BY <1>1, <2>1, <3>2, <4>1 DEF BinaryType, Arithmetic, Dividing
    <3> QED BY <1>8, <3>1, <3>2 DEF Comparisons
  <2>3. w = NumericPromote(a, b)
    BY <1>1, <1>8, <2>1 DEF OperandType
  <2> QED BY <1>2, <1>8, <2>1, <2>2, <2>3 DEF Arithmetic, Dividing
<1> HIDE DEF ty, w
<1> QED BY <1>4, <1>5, <1>6, <1>7, <1>8 DEF NumberOps, ty, w

\* Operands as the checker has them converted; those of a shift are left.
Operand(op, v, from, w) == IF op \in Shifts THEN v ELSE Coerced(v, from, w)

\* What the checker lets an operator be applied to, the interpreter has an operation for:
\* on the operands as they are converted, every arithmetic, bitwise, shift or comparison
\* operator gives a value of the type the checker says, within its range, or stops at an
\* integer division by zero.  (The remainder by a Float zero is NaN, which V leaves out.)
THEOREM OperatorsKeepTypes ==
    ASSUME NEW op \in NumberOps, NEW a \in NumberTypes, NEW b \in NumberTypes,
           BinaryType(op, a, b) # ErrorType,
           NEW v, IsOf(v, a), NEW u, IsOf(u, b),
           op = "Mod" /\ Float \in {a, b} => Coerced(u, b, Float)[2] # 0
    PROVE  LET ty == BinaryType(op, a, b)
               w == OperandType(op, ty, a, b)
               x == Operand(op, v, a, w)
               y == Operand(op, u, b, w)
               z == EvalBinop(op, x, y)
           IN  \/ op \in Dividing /\ ty # Float /\ y[2] = 0 /\ z = Failed("DivisionByZero")
               \/ IsOf(z, ty)
<1> DEFINE ty == BinaryType(op, a, b)
           w == OperandType(op, ty, a, b)
           x == Operand(op, v, a, w)
           y == Operand(op, u, b, w)
<1>1. CASE op \in Shifts
  <2>1. x = v /\ y = u
    BY <1>1 DEF Operand
  <2>2. a \in IntegerTypes /\ b \in NumberTypes /\ ty = WidenStorage(a)
    BY <1>1, ResultTypes DEF NumberTypes
  <2>3. v[1] = a[1] /\ v[2] \in Int /\ a[1] \in Integers4
    BY <2>2, IsOfFacts, IntegerTags
  <2>4. ToLong(u) \in Int
    BY ToLongInt
  <2>5. ty = (IF v[1] = "Long" THEN Long ELSE Int32) /\ ty \in IntegerTypes
    BY <2>2, <2>3 DEF WidenStorage, IntegerTypes, Byte, Short, Int32, Long
  <2>6. EvalBinop(op, v, u) = IntBinop(op, v[2], ToLong(u), ty)
    <3> HIDE DEF ty
    <3>1. {v[1], u[1]} # {"Float"} /\ {v[1], u[1]} # {"String"} /\ v[1] \notin {"TypeInstance", "Handle", "Null"}
      BY <2>3 DEF Integers4, Narrow
    <3>2. u[1] # "Null"
      <4>1. u[1] = b[1]
        BY IsOfFacts
      <4> QED BY <4>1 DEF NumberTypes, IntegerTypes, Byte, Short, Int32, Long, Float
    <3>3. {v[1], u[1]} \notin {{"TypeInstance"}, {"Handle"}} /\ "Null" \notin {v[1], u[1]}
      BY <3>1, <3>2
    <3> QED BY <1>1, <2>3, <2>5, <3>1, <3>3 DEF EvalBinop
  <2>7. op \notin Comparisons \cup {"^"} \cup Dividing
    BY <1>1 DEF Shifts, Comparisons, Equalities, Orders, Dividing
  <2> HIDE DEF ty, x, y
  <2> QED BY <2>1, <2>3, <2>4, <2>5, <2>6, <2>7, OnIntegers DEF ty, w, x, y
<1>2. CASE op \notin Shifts
  <2>1. /\ w \in {Int32, Long, Float}
        /\ ty = IF op \in Comparisons THEN Int32 ELSE w
        /\ w = Float => op \notin Bitwise3
        /\ w # Float => op # "^"
        /\ op = "Mod" => (w = Float <=> Float \in {a, b})
    BY <1>2, ResultTypes
  <2> HIDE DEF w, ty
  <2>2. x = Coerced(v, a, w) /\ y = Coerced(u, b, w)
    BY <1>2 DEF Operand
  <2>3. w \in NumberTypes
    BY <2>1 DEF NumberTypes, IntegerTypes
  <2>4. IsOf(x, w) /\ IsOf(y, w)
    BY <2>2, <2>3, ConversionsKeepTypes
  <2>5. w = Float /\ op = "Mod" => y[2] # 0
    BY <2>1, <2>2
  <2> HIDE DEF x, y
  <2>6. LET z == EvalBinop(op, x, y) IN
        \/ w # Float /\ op \in Dividing /\ y[2] = 0 /\ z = Failed("DivisionByZero")
        \/ IsOf(z, IF op \in Comparisons THEN Int32 ELSE w)
    BY <1>2, <2>1, <2>4, <2>5, OnOneType
  <2>7. op \in Dividing => op \notin Comparisons
    BY DEF Dividing, Comparisons, Equalities, Orders
  <2>8. \/ op \in Dividing /\ ty # Float /\ y[2] = 0 /\ EvalBinop(op, x, y) = Failed("DivisionByZero")
        \/ IsOf(EvalBinop(op, x, y), ty)
    BY <2>1, <2>6, <2>7
  <2> QED BY <2>8 DEF x, y, w, ty
<1> QED BY <1>1, <1>2

\* The same of the unary operators, with one exception the code makes: it has no
\* operation for the Not of a Float, which the checker accepts.
THEOREM UnaryOperatorsKeepTypes ==
    ASSUME NEW op \in {"Plus", "Neg", "Not", "BinNot"}, NEW a \in NumberTypes,
           UnaryType(op, a) # ErrorType, op = "Not" => a # Float,
           NEW v, IsOf(v, a)
    PROVE  IsOf(EvalUnop(op, v), UnaryType(op, a))
<1>1. v[1] = a[1] /\ v[2] \in Int
  BY IsOfFacts
<1>2. IsNumeric(a) /\ (IsInteger(a) <=> a # Float) /\ a = <<a[1]>>
  BY DEF NumberTypes, IntegerTypes, IsInteger, IsNumeric, Ranks, Byte, Short, Int32, Long, Float
<1>3. TypeOfValue(v) = a
  BY <1>1, <1>2 DEF TypeOfValue
<1>4. CASE a = Float
  <2>1. op \in {"Plus", "Neg"} /\ UnaryType(op, a) = Float /\ v[1] = "Float"
    <3>1. op # "BinNot"
      BY <1>2, <1>4 DEF UnaryType
    <3>2. WidenStorage(Float) = Float
      BY DEF WidenStorage, Float, Byte, Short
    <3> QED BY <1>1, <1>2, <1>4, <3>1, <3>2 DEF UnaryType, Float
  <2>2. -v[2] \in Int /\ Abs(v[2]) \in Int
    BY <1>1 DEF Abs
  <2>3. v[1] \notin Integers4
    BY <2>1 DEF Integers4, Narrow
  <2>4. EvalUnop(op, v) = V(Float, IF op = "Neg" THEN -v[2] ELSE Abs(v[2]))
    BY <2>1, <2>3 DEF EvalUnop
  <2>5. (IF op = "Neg" THEN -v[2] ELSE Abs(v[2])) \in Int
    BY <2>2
  <2> QED BY <2>1, <2>4, <2>5, FloatIsOf
<1>5. CASE a # Float
  <2> DEFINE t == WidenStorage(a)
  <2>1. a \in IntegerTypes
    BY <1>5 DEF NumberTypes
  <2>2. v[1] \in Integers4 /\ v[1] # "Float" /\ t \in IntegerTypes
    <3>1. a[1] \in Integers4
      BY <2>1, IntegerTags
    <3> QED BY <1>1, <2>1, <3>1 DEF Integers4, Narrow, WidenStorage, IntegerTypes
  <2>3. -v[2] \in Int /\ Abs(v[2]) \in Int /\ -v[2] - 1 \in Int
    BY <1>1 DEF Abs
  <2>4. CASE op = "Not"
    <3>1. EvalUnop(op, v) = Flag(v[2] = 0) /\ UnaryType(op, a) = Int32
      BY <1>2, <2>2, <2>4 DEF EvalUnop, UnaryType
    <3> QED BY <3>1, FlagIsOf
  <2>5. CASE op # "Not"
    <3>1. UnaryType(op, a) = t
      BY <1>2, <1>5, <2>5 DEF UnaryType
    <3> HIDE DEF t
    <3>2. PICK n \in Int : EvalUnop(op, v) = V(t, Wrap(n, t))
      <4>1. CASE op = "Neg"
        BY <1>3, <2>2, <2>3, <4>1 DEF EvalUnop, t
      <4>2. CASE op = "Plus"
        BY <1>3, <2>2, <2>3, <4>2 DEF EvalUnop, t
      <4>3. CASE op = "BinNot"
        BY <1>3, <2>2, <2>3, <4>3 DEF EvalUnop, t
      <4> QED BY <2>5, <4>1, <4>2, <4>3
    <3> QED BY <2>2, <3>1, <3>2, IntegerIsOf
  <2> QED BY <2>4, <2>5
<1> QED BY <1>4, <1>5

-----------------------------------------------------------------------------
(* Overloads.                                                              *)

LEMMA ExactBounds ==
    ASSUME NEW Types, NEW tys \in Seq(Types), NEW v
    PROVE  Exact(v, tys) \in 0..Len(tys)
<1> DEFINE matches == {i \in DOMAIN tys : tys[i] = v.params[i]}
<1>1. Len(tys) \in Nat /\ DOMAIN tys = 1..Len(tys)
  OBVIOUS
<1>2. IsFiniteSet(1..Len(tys)) /\ Cardinality(1..Len(tys)) = Len(tys)
  <2>1. 1 \in Int /\ Len(tys) \in Int
    BY <1>1
  <2> QED BY <1>1, <2>1, FS_Interval, SMTT(30)
<1>3. matches \subseteq 1..Len(tys)
  BY <1>1
<1> HIDE DEF matches
<1>4. IsFiniteSet(matches) /\ Cardinality(matches) <= Len(tys)
  BY <1>2, <1>3, FS_Subset
<1>5. Cardinality(matches) \in Nat
  BY <1>4, FS_CardinalityType
<1>6. Exact(v, tys) = Cardinality(matches)
  BY DEF Exact, matches
<1> QED BY <1>1, <1>4, <1>5, <1>6

\* A call is refused for want of an overload only if none takes its arguments.
THEOREM SomeOverloadIsBest ==
    ASSUME NEW Types, NEW tys \in Seq(Types), NEW vs, NEW i \in DOMAIN vs, Accepts(vs[i], tys)
    PROVE  Best(vs, tys) # {}
<1> DEFINE N == Len(tys)
           missing(j) == N - Exact(vs[j], tys)
           D == {missing(j) : j \in Accepting(vs, tys)}
<1>1. N \in Nat /\ \A j : Exact(vs[j], tys) \in 0..N
  BY ExactBounds
<1>2. i \in Accepting(vs, tys)
  BY DEF Accepting
<1>3. D # {} /\ D \subseteq Nat
  <2> HIDE DEF N
  <2> QED BY <1>1, <1>2
<1>4. PICK x \in D : \A y \in D : ~(<<y, x>> \in Below)
  <2> HIDE DEF D
  <2> QED BY <1>3, BelowWellFounded, WFMin
<1>5. PICK k \in Accepting(vs, tys) : x = missing(k)
  BY <1>4
<1>6. ASSUME NEW j \in Accepting(vs, tys) PROVE Exact(vs[j], tys) <= Exact(vs[k], tys)
  <2>1. missing(j) \in D /\ missing(k) \in D
    OBVIOUS
  <2>2. ~(missing(j) < missing(k))
    <3>1. missing(j) \in Nat /\ missing(k) \in Nat
      BY <1>3, <2>1
    <3>2. <<missing(j), missing(k)>> \notin Below
      BY <1>4, <1>5, <2>1
    <3> HIDE DEF missing
    <3> QED BY <3>1, <3>2 DEF Below
  <2> HIDE DEF N
  <2> QED BY <1>1, <2>2
<1> QED BY <1>6 DEF Best

\* What the choice is made by: no other matches more arguments exactly, and one that
\* matches as many does not return what the call needs.
LEMMA ChosenMatchesMost ==
    ASSUME NEW Types, NEW tys \in Seq(Types), NEW Variants, NEW vs \in Seq(Variants), NEW need \in BOOLEAN,
           OneWins(vs, Best(vs, tys), Answering(vs, Best(vs, tys), need)),
           NEW i \in Answering(vs, Best(vs, tys), need)
    PROVE  /\ i \in DOMAIN vs /\ Accepts(vs[i], tys)
           /\ \A j \in DOMAIN vs \ {i} : Accepts(vs[j], tys) =>
                \/ Exact(vs[j], tys) < Exact(vs[i], tys)
                \/ /\ Exact(vs[j], tys) = Exact(vs[i], tys)
                   /\ (vs[i].ret = Void) = ~need /\ (vs[j].ret = Void) = need
<1> DEFINE best == Best(vs, tys)
<1>0. Answering(vs, best, need) = {i}
  <2> DEFINE won == Answering(vs, best, need)
  <2>1. won \subseteq 1..Len(vs) /\ 1 \in Int /\ Len(vs) \in Int
    BY DEF Answering, Best, Accepting
  <2>2. IsFiniteSet(won)
    <3> HIDE DEF won
    <3> QED BY <2>1, FS_Interval, FS_Subset
  <2>3. Cardinality(won) = 1
    BY DEF OneWins
  <2> HIDE DEF won
  <2>4. PICK x : won = {x}
    BY <2>2, <2>3, FS_Singleton
  <2>5. i \in won
    BY DEF won
  <2> QED BY <2>4, <2>5 DEF won
<1>1. i \in best
  BY <1>0 DEF Answering
<1>2. i \in Accepting(vs, tys) /\ \A j \in Accepting(vs, tys) : Exact(vs[j], tys) <= Exact(vs[i], tys)
  BY <1>1 DEF Best
<1>3. i \in DOMAIN vs /\ Accepts(vs[i], tys)
  BY <1>2 DEF Accepting
<1>4. ASSUME NEW j \in DOMAIN vs \ {i}, Accepts(vs[j], tys), ~(Exact(vs[j], tys) < Exact(vs[i], tys))
      PROVE  /\ Exact(vs[j], tys) = Exact(vs[i], tys)
             /\ (vs[i].ret = Void) = ~need /\ (vs[j].ret = Void) = need
  <2>1. j \in Accepting(vs, tys)
    BY <1>4 DEF Accepting
  <2>2. Exact(vs[j], tys) \in Int /\ Exact(vs[i], tys) \in Int
    <3>1. Exact(vs[j], tys) \in 0..Len(tys) /\ Exact(vs[i], tys) \in 0..Len(tys)
      BY ExactBounds
    <3> QED BY <3>1
  <2>3. Exact(vs[j], tys) = Exact(vs[i], tys)
    BY <1>2, <1>4, <2>1, <2>2
  <2>4. j \in best
    BY <1>2, <2>1, <2>3 DEF Best
  <2>5. best # {i}
    BY <1>4, <2>4
  <2>6. Answering(vs, best, need) = {k \in best : (vs[k].ret = Void) = ~need}
    BY <1>0, <2>5 DEF Answering
  <2>7. (vs[i].ret = Void) = ~need /\ ~((vs[j].ret = Void) = ~need)
    BY <1>0, <1>4, <2>4, <2>6
  <2> QED BY <2>3, <2>7
<1> QED BY <1>3, <1>4

\* An argument that fits one variant exactly fits another as well only exactly.
LEMMA FitsAsWellMatches ==
    ASSUME NEW Types, NEW tys \in Seq(Types), NEW v, NEW u, FitsAsWell(v, u, tys)
    PROVE  Exact(u, tys) <= Exact(v, tys)
<1> DEFINE matches(w) == {i \in DOMAIN tys : tys[i] = w.params[i]}
<1>1. ASSUME NEW i \in matches(u) PROVE i \in matches(v)
  <2>1. Fit(tys[i], u.params[i]) = 0
    BY DEF Fit
  <2>2. Fit(tys[i], v.params[i]) <= Fit(tys[i], u.params[i])
    BY DEF FitsAsWell
  <2>3. tys[i] = v.params[i]
    BY <2>1, <2>2 DEF Fit
  <2> QED BY <2>3
<1>2. matches(v) \subseteq 1..Len(tys) /\ 1 \in Int /\ Len(tys) \in Int
  OBVIOUS
<1>3. IsFiniteSet(matches(v))
  <2> HIDE DEF matches
  <2> QED BY <1>2, FS_Interval, FS_Subset
<1>4. matches(u) \subseteq matches(v)
  BY <1>1
<1>5. Exact(u, tys) = Cardinality(matches(u)) /\ Exact(v, tys) = Cardinality(matches(v))
  BY DEF Exact
<1> HIDE DEF matches
<1>6. Cardinality(matches(u)) <= Cardinality(matches(v))
  BY <1>3, <1>4, FS_Subset
<1> QED BY <1>5, <1>6

\* The function a call is resolved to takes the arguments, and by the manual's ranking,
\* which counting exact matches alone does not mention, no other that takes them fits
\* every one as well; but for the other of a sub and a function, where what the call
\* needs decides.
THEOREM OverloadFitsBest ==
    ASSUME NEW Types, NEW tys \in Seq(Types), NEW Variants, NEW vs \in Seq(Variants), NEW need \in BOOLEAN,
           OneWins(vs, Best(vs, tys), Answering(vs, Best(vs, tys), need)),
           NEW i \in Answering(vs, Best(vs, tys), need)
    PROVE  /\ i \in DOMAIN vs /\ Accepts(vs[i], tys)
           /\ \A j \in DOMAIN vs \ {i} :
                Accepts(vs[j], tys) /\ FitsAsWell(vs[j], vs[i], tys) =>
                  (vs[i].ret = Void) = ~need /\ (vs[j].ret = Void) = need
<1>1. i \in DOMAIN vs /\ Accepts(vs[i], tys)
  BY ChosenMatchesMost
<1>2. ASSUME NEW j \in DOMAIN vs \ {i}, Accepts(vs[j], tys), FitsAsWell(vs[j], vs[i], tys)
      PROVE  (vs[i].ret = Void) = ~need /\ (vs[j].ret = Void) = need
  <2>1. Exact(vs[i], tys) <= Exact(vs[j], tys)
    BY <1>2, FitsAsWellMatches
  <2>2. Exact(vs[i], tys) \in 0..Len(tys) /\ Exact(vs[j], tys) \in 0..Len(tys)
    BY ExactBounds
  <2>3. ~(Exact(vs[j], tys) < Exact(vs[i], tys))
    BY <2>1, <2>2
  <2> QED BY <1>2, <2>3, ChosenMatchesMost
<1> QED BY <1>1, <1>2

\* Sets that a renaming of their elements takes to each other are of one size.
LEMMA RenamedSize ==
    ASSUME NEW S, NEW T, NEW place \in Bijection(S, T), NEW A \in SUBSET S, NEW B \in SUBSET T, IsFiniteSet(A),
           \A k \in S : k \in A <=> place[k] \in B
    PROVE  Cardinality(B) = Cardinality(A)
<1> DEFINE f == [k \in A |-> place[k]]
<1>1. /\ place \in [S -> T]
      /\ \A k, n \in S : place[k] = place[n] => k = n
      /\ \A b \in T : \E k \in S : place[k] = b
  BY DEF Bijection, Injection, IsInjective, Surjection
<1>2. f \in [A -> B]
  BY <1>1
<1>3. \A k, n \in A : f[k] = f[n] => k = n
  BY <1>1
<1>4. \A b \in B : \E k \in A : f[k] = b
  BY <1>1
<1> HIDE DEF f
<1>5. f \in Bijection(A, B)
  BY <1>2, <1>3, <1>4 DEF Bijection, Injection, IsInjective, Surjection
<1>6. ExistsBijection(A, B)
  BY <1>5 DEF ExistsBijection
<1> QED BY <1>6, FS_Bijection

\* The same functions declared in another order, us[k] at place[k] of vs: a call that
\* was resolved is, and to the same function.
THEOREM OverloadOrderPlaysNoPart ==
    ASSUME NEW Types, NEW tys \in Seq(Types), NEW Variants, NEW vs \in Seq(Variants), NEW us \in Seq(Variants),
           NEW need \in BOOLEAN, NEW place \in Bijection(DOMAIN us, DOMAIN vs),
           \A k \in DOMAIN us : us[k] = vs[place[k]],
           OneWins(us, Best(us, tys), Answering(us, Best(us, tys), need)),
           NEW i \in Answering(us, Best(us, tys), need)
    PROVE  /\ OneWins(vs, Best(vs, tys), Answering(vs, Best(vs, tys), need))
           /\ place[i] \in Answering(vs, Best(vs, tys), need)
<1> DEFINE before == Best(us, tys)
           after == Best(vs, tys)
           wonBefore == Answering(us, before, need)
           wonAfter == Answering(vs, after, need)
<1>1. /\ place \in [DOMAIN us -> DOMAIN vs]
      /\ \A b \in DOMAIN vs : \E k \in DOMAIN us : place[k] = b
  BY DEF Bijection, Injection, Surjection
<1>2. ASSUME NEW k \in DOMAIN us
      PROVE  (k \in Accepting(us, tys) <=> place[k] \in Accepting(vs, tys)) /\ us[k] = vs[place[k]]
  BY <1>1, <1>2 DEF Accepting
<1>3. ASSUME NEW k \in DOMAIN us PROVE k \in before <=> place[k] \in after
  <2>1. ASSUME k \in before, NEW b \in Accepting(vs, tys) PROVE Exact(vs[b], tys) <= Exact(vs[place[k]], tys)
    <3>1. b \in DOMAIN vs
      BY DEF Accepting
    <3>2. PICK n \in DOMAIN us : place[n] = b
      BY <1>1, <3>1
    <3>3. n \in Accepting(us, tys) /\ us[n] = vs[b] /\ us[k] = vs[place[k]]
      BY <1>2, <3>2
    <3> QED BY <2>1, <3>3 DEF Best
  <2>2. ASSUME place[k] \in after, NEW n \in Accepting(us, tys) PROVE Exact(us[n], tys) <= Exact(us[k], tys)
    <3>1. n \in DOMAIN us
      BY DEF Accepting
    <3>2. place[n] \in Accepting(vs, tys) /\ us[n] = vs[place[n]] /\ us[k] = vs[place[k]]
      BY <1>2, <3>1
    <3> QED BY <2>2, <3>2 DEF Best
  <2>3. k \in before => k \in Accepting(us, tys)
    BY DEF Best
  <2>4. place[k] \in after => place[k] \in Accepting(vs, tys)
    BY DEF Best
  <2>5. k \in before => place[k] \in after
    BY <1>2, <2>1, <2>3 DEF Best
  <2>6. place[k] \in after => k \in before
    BY <1>2, <2>2, <2>4 DEF Best
  <2> QED BY <2>5, <2>6
<1>4. before \subseteq DOMAIN us /\ after \subseteq DOMAIN vs
  BY DEF Best, Accepting
<1>5. wonBefore \subseteq before /\ wonAfter \subseteq after
  BY DEF Answering
<1>6. IsFiniteSet(before) /\ IsFiniteSet(wonBefore)
  <2>1. DOMAIN us = 1..Len(us) /\ 1 \in Int /\ Len(us) \in Int
    OBVIOUS
  <2>2. IsFiniteSet(DOMAIN us)
    BY <2>1, FS_Interval
  <2> HIDE DEF before, wonBefore
  <2>3. IsFiniteSet(before)
    BY <1>4, <2>2, FS_Subset
  <2> QED BY <1>5, <2>3, FS_Subset
<1>7. Cardinality(after) = Cardinality(before)
  <2> HIDE DEF before, after
  <2> QED BY <1>3, <1>4, <1>6, RenamedSize
<1>8. ASSUME NEW k \in DOMAIN us PROVE k \in wonBefore <=> place[k] \in wonAfter
  <2>1. (k \in before <=> place[k] \in after) /\ us[k] = vs[place[k]]
    BY <1>2, <1>3
  <2> HIDE DEF before, after
  <2> QED BY <1>7, <2>1 DEF Answering
<1>9. Cardinality(wonAfter) = Cardinality(wonBefore)
  <2>1. wonBefore \subseteq DOMAIN us /\ wonAfter \subseteq DOMAIN vs
    BY <1>4, <1>5
  <2> HIDE DEF wonBefore, wonAfter
  <2> QED BY <1>6, <1>8, <2>1, RenamedSize
<1>10. OneWins(us, before, wonBefore)
  OBVIOUS
<1>11. ASSUME Cardinality(after) > 1, NEW b \in after PROVE IsUser(vs[b])
  <2>1. b \in DOMAIN vs
    BY <1>4
  <2>2. PICK k \in DOMAIN us : place[k] = b
    BY <1>1, <2>1
  <2>3. k \in before /\ us[k] = vs[b] /\ Cardinality(before) > 1
    BY <1>2, <1>3, <1>7, <1>11, <2>2
  <2> HIDE DEF before, after
  <2> QED BY <1>10, <2>3 DEF OneWins
<1>12. Cardinality(wonAfter) = 1
  <2> HIDE DEF before, wonBefore, wonAfter
  <2> QED BY <1>9, <1>10 DEF OneWins
<1>13. i \in wonBefore /\ i \in DOMAIN us
  BY <1>4, <1>5
<1>14. place[i] \in wonAfter
  BY <1>8, <1>13
<1>15. OneWins(vs, after, wonAfter)
  <2> HIDE DEF after, wonAfter
  <2> QED BY <1>11, <1>12 DEF OneWins
<1> QED BY <1>14, <1>15
=============================================================================
