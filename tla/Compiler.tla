------------------------------ MODULE Compiler ------------------------------
(***************************************************************************)
(* The code that the compiler makes of the body of a function:             *)
(* Compiler.cpp and ExprssionCompiler.cpp, the registers of                *)
(* FunctionKind.cpp, then BytecodeOptimizer.cpp and Assembler.cpp.         *)
(*                                                                         *)
(* Numbers, variables, operators and calls of a function from an outer     *)
(* scope; `if', loops, `break', `return'.  An expression or statement is a *)
(* record whose k says what it is; module AstGenerator makes the tree.     *)
(***************************************************************************)
EXTENDS AstGenerator, FiniteSetsExt

CONSTANTS
  Symbols,   \* the symbols of the function: their places are their registers
  Outer      \* names of outer scopes, a sequence

Reg(id) == CHOOSE i \in DOMAIN Symbols : Symbols[i] = id
Local   == ToSet(Symbols)

\* Operands that point to text; no register has such a number.
Label(l)   == 1000 + l
Literal(n) == 2000 + n
Text       == Symbols \o Outer
Name(id)   == 3000 + (CHOOSE i \in DOMAIN Text : Text[i] = id)

Opcode == [o \in {"+", "-", "*", "<", "<=", ">", ">=", "!=", "=="} |->
             CASE o = "+"  -> "ADD"         [] o = "-"  -> "SUB"
               [] o = "*"  -> "MUL"         [] o = "<"  -> "CMP_LESS"
               [] o = "<=" -> "CMP_LESS_OR_EQUAL"    [] o = ">"  -> "CMP_GREATER"
               [] o = ">=" -> "CMP_GREATER_OR_EQUAL" [] o = "!=" -> "CMP_N_EQUAL"
               [] o = "==" -> "CMP_EQUAL"]
Step == [o \in {"++", "--"} |-> IF o = "++" THEN "INC" ELSE "DEC"]

-----------------------------------------------------------------------------
(* The compiler's state c: the instructions so far, the temporary registers
   (TRUE: free), the labels given out, the end labels of the open loops, and
   the register of the last expression. *)

Start == [code |-> <<>>, temps |-> <<>>, labels |-> 0, ends |-> <<>>, reg |-> 0]

Emit(c, op, r0, r1, r2) == [c EXCEPT !.code = Append(@, [op |-> op, r0 |-> r0, r1 |-> r1, r2 |-> r2])]

\* FunctionKind::getRegister(NULL): the first free register, or a new one.
NewTemp(c) ==
  LET free == {i \in DOMAIN c.temps : c.temps[i]}
      i    == IF free = {} THEN Len(c.temps) + 1 ELSE Min(free)
  IN  [c EXCEPT !.temps = IF free = {} THEN Append(@, FALSE) ELSE [@ EXCEPT ![i] = FALSE],
                !.reg = Len(Symbols) + i]

\* Only temporary registers are freed.
freeRegister(c, r) ==
  IF r - Len(Symbols) \in DOMAIN c.temps THEN [c EXCEPT !.temps[r - Len(Symbols)] = TRUE] ELSE c

\* The register that the caller asks for, or a temporary one.
Destination(c, dest) == IF dest = 0 THEN NewTemp(c) ELSE [c EXCEPT !.reg = dest]
Result(c, r)         == [c EXCEPT !.reg = r]

compileNumber(c, n, dest) == LET d == Destination(c, dest) IN Emit(d, "MOV_NUMBER", d.reg, Literal(n), 0)

compileIdentifierImmediate(c, id, dest) ==
  IF id \in Local THEN Result(c, Reg(id))
  ELSE LET d == Destination(c, dest) IN Emit(d, "GET_FIELD_IMMEDIATE", 1, Name(id), d.reg)

\* An outer variable is read into a register and written back.
WriteBack(c, e, r) ==
  IF e.k # "var" \/ e.id \in Local THEN c
  ELSE LET t == NewTemp(c)
       IN  freeRegister(Emit(Emit(t, "MOV_STR", t.reg, Name(e.id), 0), "SET_FIELD", 1, t.reg, r), t.reg)

RECURSIVE compileExpression(_, _, _)

compilePostfix(c, e, dest) ==
  LET l == compileExpression(c, e.e, 0)
      d == Destination(l, dest)
      s == Emit(Emit(d, "MOV", d.reg, l.reg, 0), Step[e.op], l.reg, l.reg, 0)
  IN  Result(WriteBack(s, e.e, l.reg), d.reg)

\* ++ and -- take a temporary register that they do not use and do not free.
compilePrefix(c, e, dest) ==
  LET l      == compileExpression(c, e.e, 0)
      d      == Destination(l, dest)
      target == IF dest = 0 THEN l.reg ELSE dest
  IN  IF e.op = "-"
        THEN LET m == compileNumber(IF dest = 0 THEN freeRegister(d, d.reg) ELSE d, -1, 0)
             IN  Result(freeRegister(Emit(m, "MUL", l.reg, m.reg, target), m.reg), target)
        ELSE Result(WriteBack(Emit(d, Step[e.op], l.reg, target, 0), e.e, l.reg), target)

\* The arguments from the last to the first, each in the register of the one before.
RECURSIVE PushArguments(_, _)
PushArguments(c, args) ==
  IF args = <<>> THEN c
  ELSE LET a == compileExpression(c, Last(args), c.reg)
       IN  PushArguments(Emit(a, "PUSH", a.reg, 0, 0), Front(args))

compileMethodCall(c, e, dest) ==
  LET d == Destination(c, dest)
      p == PushArguments(NewTemp(d), e.args)
      f == compileExpression(freeRegister(p, p.reg), [k |-> "var", id |-> e.fn], 0)
  IN  Result(freeRegister(Emit(f, "CALL", f.reg, d.reg, Len(e.args)), f.reg), d.reg)

\* An assignment to a variable of the function emits nothing itself: the right
\* side is compiled into the register of the variable.  One to an outer variable
\* has no register (0).
compileBinary(c, e, dest) ==
  IF e.op = "=" /\ e.l.id \notin Local
  THEN LET n == NewTemp(c)
           r == compileExpression(Emit(n, "MOV_STR", n.reg, Name(e.l.id), 0), e.r, 0)
       IN  Result(Emit(r, "SET_FIELD", 1, n.reg, r.reg), 0)
  ELSE LET l == compileExpression(c, e.l, 0)
           r == compileExpression(l, e.r, IF e.op = "=" THEN l.reg ELSE 0)
           d == Destination(r, dest)
           s == IF e.op = "=" THEN d ELSE Emit(d, Opcode[e.op], l.reg, r.reg, d.reg)
           f == IF r.reg # d.reg THEN freeRegister(s, r.reg) ELSE s
       IN  Result(freeRegister(f, l.reg), d.reg)

compileExpression(c, e, dest) ==
  CASE e.k = "num"  -> compileNumber(c, e.n, dest)
    [] e.k = "var"  -> compileIdentifierImmediate(c, e.id, dest)
    [] e.k = "bin"  -> compileBinary(c, e, dest)
    [] e.k = "post" -> compilePostfix(c, e, dest)
    [] e.k = "pre"  -> compilePrefix(c, e, dest)
    [] e.k = "call" -> compileMethodCall(c, e, dest)
    [] e.k = "none" -> Result(c, 0)

-----------------------------------------------------------------------------
RECURSIVE compileBody(_, _)

\* An expression whose result nobody reads.
Evaluate(c, e) == LET x == compileExpression(c, e, 0) IN freeRegister(x, x.reg)

\* A jump that the value of e decides; without an e there is none.
JumpOn(c, op, e, target) ==
  IF ~ Present(e) THEN c
  ELSE LET x == compileExpression(c, e, 0) IN freeRegister(Emit(x, op, x.reg, target, 0), x.reg)

\* Over the else part, if there is one; an empty one stands for none.
JumpOver(c, body, end) == IF body = <<>> THEN c ELSE Emit(c, "JMP", end, 0, 0)

compileConditional(c, s) ==
  LET fail == Label(c.labels + 1)
      end  == Label(c.labels + 2)
      t    == compileBody(JumpOn([c EXCEPT !.labels = @ + 2], "JMP_NOT_TRUE", s.c, fail), s.t)
      j    == Emit(JumpOver(t, s.e, end), "LABEL", fail, 0, 0)
  IN  Emit(compileBody(j, s.e), "LABEL", end, 0, 0)

LoopLabels(c) == [start |-> Label(c.labels + 1), end |-> Label(c.labels + 2), cond |-> Label(c.labels + 3)]

\* A variant for the mutation runs: the jump back leads to the condition.
compileLoop_spinning(c, s) ==
  LET at == LoopLabels(c)
      b  == Evaluate([c EXCEPT !.labels = @ + 3, !.ends = Append(@, at.end)], s.start)
      i  == compileBody(Emit(Emit(b, "JMP", at.cond, 0, 0), "LABEL", at.start, 0, 0), s.body)
      t  == JumpOn(Emit(Evaluate(i, s.iter), "LABEL", at.cond, 0, 0), "JMP_TRUE", s.c, at.cond)
  IN  [Emit(t, "LABEL", at.end, 0, 0) EXCEPT !.ends = Front(@)]

\* The condition is tested at the end of the loop; without one the body never runs.
compileLoop(c, s) ==
  LET at == LoopLabels(c)
      b  == Evaluate([c EXCEPT !.labels = @ + 3, !.ends = Append(@, at.end)], s.start)
      i  == compileBody(Emit(Emit(b, "JMP", at.cond, 0, 0), "LABEL", at.start, 0, 0), s.body)
      t  == JumpOn(Emit(Evaluate(i, s.iter), "LABEL", at.cond, 0, 0), "JMP_TRUE", s.c, at.start)
  IN  [Emit(t, "LABEL", at.end, 0, 0) EXCEPT !.ends = Front(@)]

compileVar(c, s) ==
  LET v == compileExpression(c, s.e, Reg(s.id))
  IN  IF v.reg = Reg(s.id) THEN v ELSE freeRegister(Emit(v, "MOV", Reg(s.id), v.reg, 0), v.reg)

compileReturn(c, s) ==
  LET x == compileExpression(c, s.e, 0) IN freeRegister(Emit(x, "RETURN", x.reg, 0, 0), x.reg)

compileStmt(c, s) ==
  CASE s.k = "break"  -> Emit(c, "JMP", Last(c.ends), 0, 0)
    [] s.k = "var"    -> compileVar(c, s)
    [] s.k = "loop"   -> compileLoop(c, s)
    [] s.k = "if"     -> compileConditional(c, s)
    [] s.k = "return" -> compileReturn(c, s)
    [] s.k = "expr"   -> Evaluate(c, s.e)

compileBody(c, body) == FoldLeft(compileStmt, c, body)

\* The size of the frame is filled in when the body is compiled.
WithFrame(c) == [c.code EXCEPT ![1].r0 = Len(c.temps) + Len(Symbols)]

compileFunction(body) ==
  LET f == Emit(Emit(Start, "FFRAME", 0, 0, 0), "MOV_FNC", Reg("f"), Name("f"), 0)
  IN  WithFrame(Emit(Emit(compileBody(f, body), "RETURN", 0, 0, 0), "LABEL", Label(0), 0, 0))

-----------------------------------------------------------------------------
(* BytecodeOptimizer *)

Comparisons == {"CMP_EQUAL", "CMP_LESS", "CMP_LESS_OR_EQUAL", "CMP_GREATER", "CMP_N_EQUAL",
                "CMP_GREATER_OR_EQUAL"}

\* The jump that a comparison and the jump after it make; neg: JMP_NOT_TRUE.
JumpIf == [o \in Comparisons |->
  CASE o = "CMP_EQUAL"            -> "JMP_EQUAL"         [] o = "CMP_N_EQUAL" -> "JMP_N_EQUAL"
    [] o = "CMP_LESS"             -> "JMP_LESS"          [] o = "CMP_GREATER" -> "JMP_GREATER"
    [] o = "CMP_LESS_OR_EQUAL"    -> "JMP_LESS_OR_EQUAL"
    [] o = "CMP_GREATER_OR_EQUAL" -> "JMP_GREATER_OR_EQUAL"]
JumpUnless == [o \in Comparisons |->
  CASE o = "CMP_EQUAL"            -> "JMP_N_EQUAL"          [] o = "CMP_N_EQUAL" -> "JMP_EQUAL"
    [] o = "CMP_LESS"             -> "JMP_GREATER_OR_EQUAL" [] o = "CMP_GREATER" -> "JMP_LESS_OR_EQUAL"
    [] o = "CMP_LESS_OR_EQUAL"    -> "JMP_GREATER"
    [] o = "CMP_GREATER_OR_EQUAL" -> "JMP_LESS"]
CompareAndJump == {JumpIf[o] : o \in Comparisons}

\* Jumps that compare with a literal.
Immediate == [o \in CompareAndJump |-> o \o "_I"]

\* A variant for the mutation runs: the jump is not turned around.
Rewrite_unturned(x, y) ==
  IF x.op \in Comparisons /\ y.op \in {"JMP_NOT_TRUE", "JMP_TRUE"}
    THEN [to |-> <<[op |-> JumpIf[x.op], r0 |-> x.r0, r1 |-> x.r1, r2 |-> y.r1]>>, used |-> 2]
    ELSE [to |-> <<x>>, used |-> 1]

\* What becomes of instruction x and the next one, y, and how many are used up.
Rewrite(x, y) ==
  CASE x.op = "RETURN" /\ y.op = "RETURN" -> [to |-> <<x>>, used |-> 2]
    [] x.op = "MOV" /\ x.r0 = x.r1        -> [to |-> <<>>, used |-> 1]
    [] x.op = "MOV_NUMBER" /\ y.op \in CompareAndJump /\ x.r0 = y.r1 ->
         [to |-> <<[op |-> Immediate[y.op], r0 |-> y.r0, r1 |-> x.r1, r2 |-> y.r2]>>, used |-> 2]
    [] x.op \in Comparisons /\ y.r1 = x.r2 -> [to |-> <<x>>, used |-> 2]
    [] x.op \in Comparisons /\ y.r1 # x.r2 /\ y.op \in {"JMP_NOT_TRUE", "JMP_TRUE"} ->
         [to |-> <<[op |-> IF y.op = "JMP_TRUE" THEN JumpIf[x.op] ELSE JumpUnless[x.op],
                    r0 |-> x.r0, r1 |-> x.r1, r2 |-> y.r1]>>, used |-> 2]
    [] OTHER -> [to |-> <<x>>, used |-> 1]

RECURSIVE Pass(_)
Pass(code) ==
  IF Len(code) < 2 THEN code
  ELSE LET w == Rewrite(code[1], code[2]) IN w.to \o Pass(SubSeq(code, 1 + w.used, Len(code)))

\* Passes over the code until one changes nothing.
RECURSIVE optimize(_)
optimize(code) == LET p == Pass(code) IN IF Len(p) = Len(code) THEN p ELSE optimize(p)

-----------------------------------------------------------------------------
(* Assembler *)

\* A variant for the mutation runs: labels count like instructions.
Position_counted(code, l) == CHOOSE i \in DOMAIN code : code[i].op = "LABEL" /\ code[i].r0 = l

\* A label stands for the place of the instruction after it.
Position(code, l) ==
  LET at == CHOOSE i \in DOMAIN code : code[i].op = "LABEL" /\ code[i].r0 = l
  IN  1 + Cardinality({i \in 1..at : code[i].op # "LABEL"})

Resolved(code, x) ==
  CASE x.op \in CompareAndJump                       -> [x EXCEPT !.r2 = Position(code, @)]
    [] x.op \in {Immediate[o] : o \in CompareAndJump} ->
         [x EXCEPT !.r1 = @ - Literal(0), !.r2 = Position(code, @)]
    [] x.op \in {"JMP_TRUE", "JMP_NOT_TRUE"}          -> [x EXCEPT !.r1 = Position(code, @)]
    [] x.op = "JMP"                                  -> [x EXCEPT !.r0 = Position(code, @)]
    [] x.op = "MOV_NUMBER"                           -> [x EXCEPT !.r1 = @ - Literal(0)]
    [] OTHER                                         -> x

assemble(code) ==
  [i \in 1..Cardinality({j \in DOMAIN code : code[j].op # "LABEL"}) |->
     Resolved(code, SelectSeq(code, LAMBDA x : x.op # "LABEL")[i])]

Finished(code, optimized) == assemble(IF optimized THEN optimize(code) ELSE code)
Compiled(body, optimized) == Finished(compileFunction(body), optimized)
=============================================================================
