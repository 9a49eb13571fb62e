----------------------------- MODULE Exceptions -----------------------------
(***************************************************************************)
(* Exceptions: what compileTryCatch and compileStmt of                     *)
(* src/compiler/Compiler.cpp emit for try statements, and what a program   *)
(* with try statements means.  Handlers runs the code.                     *)
(*                                                                         *)
(* A program maps each function to its body, a sequence of statements.     *)
(* Only what moves control is kept of a statement.                         *)
(***************************************************************************)
EXTENDS Handlers

Mark(n)      == [op |-> "mark", id |-> n]
Throw        == [op |-> "throw"]
Fault        == [op |-> "fault"]   \* an instruction that throws: 10/0, or a missing field
Return       == [op |-> "return"]
Break        == [op |-> "break"]
Call(f)      == [op |-> "call", fn |-> f]
Loop(b)      == [op |-> "loop", body |-> b]   \* its condition is true
Try(b, c, f) == [op |-> "try", body |-> b, catch |-> c, finally |-> f]

-----------------------------------------------------------------------------
(* The compiler.  at: the address of the next instruction; scope.finallies: *)
(* the contents of finallyBlocksToPrependReturn; scope.lend: the top of    *)
(* loopEndLabelsStack.                                                     *)

RECURSIVE CompileBody(_, _, _), CompileStmt(_, _, _)

\* The code of a try statement; an absent finally body is an empty one.
CompileTryIn(s, at, scope) ==
  LET body    == CompileBody(s.body, at + 1, scope)
      catchAt == at + Len(body) + 2
      catch   == CompileBody(s.catch, catchAt + 1, scope)
      finAt   == catchAt + 1 + Len(catch)
  IN  <<[op |-> "set_catch", to |-> catchAt]>> \o body \o <<[op |-> "jmp", to |-> finAt]>>
        \o <<[op |-> "pop"]>> \o catch
        \o CompileBody(s.finally, finAt, scope) \o <<[op |-> "clear_catch"]>>

\* A variant for the mutation runs: finallyBlocksToPrependReturn is not pushed to.
CompileTryUnpushed(s, at, scope) == CompileTryIn(s, at, scope)

CompileTry(s, at, scope) ==
  CompileTryIn(s, at, [scope EXCEPT !.finallies = Append(@, s.finally)])

\* compileLoop; where the body ends does not depend on where its breaks jump to.
CompileLoop(s, at, scope) ==
  LET cond == at + 1 + Len(CompileBody(s.body, at + 1, scope))
  IN  <<[op |-> "jmp", to |-> cond]>>
        \o CompileBody(s.body, at + 1, [scope EXCEPT !.lend = cond + 1])
        \o <<[op |-> "jmp", to |-> at + 1]>>

\* A return is preceded by every pending finally body, the outermost one first.
CompileStmt(s, at, scope) ==
  CASE s.op = "try"    -> CompileTry(s, at, scope)
    [] s.op = "loop"   -> CompileLoop(s, at, scope)
    [] s.op = "break"  -> <<[op |-> "jmp", to |-> scope.lend]>>
    [] s.op = "return" -> Append(CompileBody(FlattenSeq(scope.finallies), at, scope), s)
    [] OTHER           -> <<s>>

CompileBody(body, at, scope) ==
  IF body = <<>> THEN <<>>
  ELSE LET first == CompileStmt(Head(body), at, scope)
       IN  first \o CompileBody(Tail(body), at + Len(first), scope)

CompileFunction(body) == Append(CompileBody(body, 1, [finallies |-> <<>>, lend |-> 0]), Return)

CompileProgram(p) == [f \in DOMAIN p |-> CompileFunction(p[f])]

-----------------------------------------------------------------------------
(* What a program means: the marks it executes, and how it ends.           *)

RECURSIVE Meaning(_, _), MeaningOf(_, _)

Then(first, second) == [second EXCEPT !.marks = first.marks \o @]

\* A finally body runs however the try statement ends; its own end, if not
\* the normal one, replaces that of the statement.
Finally(first, last) ==
  [marks |-> first.marks \o last.marks, end |-> IF last.end = "next" THEN first.end ELSE last.end]

MeaningOf(s, p) ==
  CASE s.op = "mark"   -> [marks |-> <<s.id>>, end |-> "next"]
    [] s.op = "return" -> [marks |-> <<>>, end |-> "return"]
    [] s.op = "break"  -> [marks |-> <<>>, end |-> "break"]
    [] s.op = "loop"   -> LET m == Meaning(s.body, p)
                          IN  CASE m.end = "next"  -> Then(m, MeaningOf(s, p))
                                [] m.end = "break" -> [m EXCEPT !.end = "next"]
                                [] OTHER           -> m
    [] s.op = "call"   -> LET m == Meaning(p[s.fn], p)
                          IN  [m EXCEPT !.end = IF @ = "throw" THEN @ ELSE "next"]
    [] s.op = "try"    -> LET m == Meaning(s.body, p)
                          IN  Finally(IF m.end = "throw" THEN Then(m, Meaning(s.catch, p)) ELSE m,
                                      Meaning(s.finally, p))
    [] OTHER           -> [marks |-> <<>>, end |-> "throw"]

Meaning(body, p) ==
  IF body = <<>> THEN [marks |-> <<>>, end |-> "next"]
  ELSE LET m == MeaningOf(Head(body), p)
       IN  IF m.end = "next" THEN Then(m, Meaning(Tail(body), p)) ELSE m

-----------------------------------------------------------------------------
(* Property *)

\* A run executes the marks that the structure of its try statements says, in
\* that order, and ends as it says (Compiler.cpp:197-256 with
\* interpreter_dd.c:305-330 and 1184-1210).
RunsAsWritten ==
  LET m == Meaning(program["main"], program)
  IN  /\ IsPrefix(trace, m.marks)
      /\ status # "run" => trace = m.marks /\ (status = "thrown" <=> m.end = "throw")
=============================================================================
