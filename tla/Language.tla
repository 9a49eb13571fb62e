------------------------------ MODULE Language ------------------------------
(***************************************************************************)
(* What a function body, a parse tree as in module AstGenerator, means:    *)
(* expressions have values and side effects on the variables.  Operands    *)
(* are evaluated from left to right, arguments from right to left.         *)
(***************************************************************************)
EXTENDS Integers, Sequences, SequencesExt

CONSTANTS
  Local,     \* the names of the function's own variables
  External(_, _)   \* the outer function that programs call

\* A state of a body: env, the values of the variables; val, the value of the last
\* expression; way, how the body goes on: "next", "break" or "return".
With(s, env, val) == [s EXCEPT !.env = env, !.val = val]
Truth(b)          == IF b THEN 1 ELSE 0

Apply(op, x, y) ==
  CASE op = "+"  -> x + y          [] op = "-"  -> x - y          [] op = "*"  -> x * y
    [] op = "<"  -> Truth(x < y)   [] op = "<=" -> Truth(x <= y)
    [] op = ">"  -> Truth(x > y)   [] op = ">=" -> Truth(x >= y)
    [] op = "==" -> Truth(x = y)   [] op = "!=" -> Truth(x # y)

RECURSIVE Eval(_, _)
Eval(s, e) ==
  CASE e.k = "none" -> s
    [] e.k = "num"  -> With(s, s.env, e.n)
    [] e.k = "var"  -> With(s, s.env, s.env[e.id])
    [] e.k = "bin" /\ e.op = "=" ->
         LET r == Eval(s, e.r) IN With(s, [r.env EXCEPT ![e.l.id] = r.val], r.val)
    [] e.k = "bin" /\ e.op # "=" ->
         LET l == Eval(s, e.l) r == Eval(l, e.r) IN With(s, r.env, Apply(e.op, l.val, r.val))
    [] e.k = "pre" /\ e.op = "-" -> LET x == Eval(s, e.e) IN With(s, x.env, -x.val)
    [] e.k \in {"pre", "post"} /\ e.op # "-" ->
         LET old == s.env[e.e.id]
             new == IF e.op = "++" THEN old + 1 ELSE old - 1
         IN  With(s, [s.env EXCEPT ![e.e.id] = new], IF e.k = "pre" THEN new ELSE old)
    [] e.k = "call" ->
         LET y == Eval(s, e.args[2]) x == Eval(y, e.args[1]) IN With(s, x.env, External(x.val, y.val))

RECURSIVE Do(_, _)
Exec(s, body) == FoldLeft(LAMBDA t, stmt : IF t.way = "next" THEN Do(t, stmt) ELSE t, s, body)

Assign(s, id, e) == Eval(s, [k |-> "bin", op |-> "=", l |-> [k |-> "var", id |-> id], r |-> e])
Declare(s, vars) == FoldLeft(LAMBDA t, part : Assign(t, part.id, part.e), s, vars.parts)

\* A loop without a condition goes on until a break or return.
RECURSIVE Repeat(_, _, _, _)
Repeat(s, cond, iter, body) ==
  LET c == Eval(s, cond)
      b == Exec(c, body)
  IN  IF cond.k # "none" /\ c.val = 0 THEN c
      ELSE IF b.way = "next" THEN Repeat(Eval(b, iter), cond, iter, body)
      ELSE [b EXCEPT !.way = IF @ = "break" THEN "next" ELSE @]

Do(s, stmt) ==
  CASE stmt.k = "expr"   -> Eval(s, stmt.e)
    [] stmt.k = "vars"   -> Declare(s, stmt)
    [] stmt.k = "return" -> [Eval(s, stmt.e) EXCEPT !.way = "return"]
    [] stmt.k = "break"  -> [s EXCEPT !.way = "break"]
    [] stmt.k = "if"     -> LET c == Eval(s, stmt.c) IN Exec(c, IF c.val # 0 THEN stmt.t.stmts ELSE stmt.e.stmts)
    [] stmt.k = "while"  -> Repeat(s, stmt.c, [k |-> "none"], stmt.body.stmts)
    [] stmt.k = "for"    -> Repeat(IF stmt.start.k = "vars" THEN Declare(s, stmt.start) ELSE Eval(s, stmt.start),
                                   stmt.c, stmt.iter, stmt.body.stmts)

Meaning(env, body) == Exec([env |-> env, val |-> 0, way |-> "next"], body)

-----------------------------------------------------------------------------
(* The programs whose compiled code means the same.  The others are listed  *)
(* here by what the AST generator, the compiler or the optimizer does to    *)
(* them.                                                                    *)

\* A `for' without a condition is not what AstGenerator makes of it, and neither is
\* one with a start expression and without the last one: there the start becomes
\* the condition.  The variables of a `for' that is, without braces, the statement
\* of an `if' or of another loop are initialised before that one.
RECURSIVE Lifts(_)
Branches(s) == CASE s.k = "if" -> {s.t, s.e} [] s.k \in {"for", "while"} -> {s.body} [] OTHER -> {}
Lifts(s) == \/ s.k = "for" /\ s.start.k = "vars"
            \/ \E b \in Branches(s) : ~ b.braced /\ Lifts(b.stmts[1])

RECURSIVE AsWritten(_)
AsWritten(body) == \A s \in ToSet(body) :
  /\ s.k = "for" => s.c.k # "none" /\ (s.start.k \in {"none", "vars"} \/ s.iter.k # "none")
  /\ \A b \in Branches(s) : AsWritten(b.stmts) /\ (~ b.braced => ~ Lifts(b.stmts[1]))

\* The conditions from here on are on the tree that AstGenerator makes.

Comparisons == {"<", "<=", ">", ">=", "==", "!="}
IsComparison(e) == e.k = "bin" /\ e.op \in Comparisons

\* The own variable in whose register the result of an expression is.
RECURSIVE Denotes(_)
Denotes(e) == CASE e.k = "var" -> {e.id} \cap Local
                [] e.k = "pre" -> Denotes(e.e)
                [] OTHER       -> {}

RECURSIVE Writes(_)
Writes(e) ==
  CASE e.k \in {"none", "num", "var"} -> {}
    [] e.k = "bin"                    -> Writes(e.l) \cup Writes(e.r) \cup (IF e.op = "=" THEN {e.l.id} ELSE {})
    [] e.k = "call"                   -> UNION {Writes(x) : x \in ToSet(e.args)}
    [] e.k = "pre" /\ e.op = "-"     -> Writes(e.e)
    [] OTHER                          -> {e.e.id}

\* An operand is read when the operator is applied, from the register of the
\* variable: the other operand must not write it.  The optimizer drops an
\* instruction whose second register is the result of the comparison before it.
\* -v changes v.  An argument is computed in the register of the argument to the
\* right of it, also if that is a variable's.
RECURSIVE Plain(_)
Plain(e) ==
  CASE e.k \in {"none", "num", "var"} -> TRUE
    [] e.k = "bin"  -> /\ e.op # "=" /\ Plain(e.l) /\ Plain(e.r)
                       /\ Denotes(e.l) \cap Writes(e.r) = {}
                       /\ ~ IsComparison(e.r)
    [] e.k = "pre" /\ e.op = "-" -> Plain(e.e) /\ Denotes(e.e) = {}
    [] e.k = "call" -> /\ Plain(e.args[1]) /\ Plain(e.args[2])
                       /\ Denotes(e.args[2]) # {} => e.args[1].k = "var" /\ e.args[1].id \in Local
    [] OTHER        -> TRUE

\* v = w of two own variables emits nothing; v = v++ increments v.
IsAssignment(e) == e.k = "bin" /\ e.op = "="
PlainAssignment(e) ==
  /\ Plain(e.r)
  /\ e.l.id \in Local => /\ ~ (e.r.k = "var" /\ e.r.id \in Local)
                         /\ ~ (e.r.k = "post" /\ e.r.e.id = e.l.id)
PlainStep(e) == IF IsAssignment(e) THEN PlainAssignment(e) ELSE Plain(e)

\* What statement s assigns to v, an own variable.
Assigns(s, v, Kind(_)) == \/ s.k = "var" /\ s.id = v /\ Kind(s.e)
                          \/ s.k = "expr" /\ IsAssignment(s.e) /\ s.e.l.id = v /\ Kind(s.e.r)
IsNumber(e) == e.k = "num"

\* The optimizer makes the number assigned to a variable the operand of a comparison
\* right after it, and drops the assignment.  It drops an instruction after a
\* comparison assigned to v if its second register is v's.
Swallowed(s, t) == \E v \in Local :
  \/ Assigns(s, v, IsNumber) /\ t.k = "if" /\ IsComparison(t.c)
       /\ Denotes(t.c.l) # {} /\ t.c.r = [k |-> "var", id |-> v]
  \/ Assigns(s, v, IsComparison)

RECURSIVE PlainStmt(_)
PlainBody(body) ==
  /\ \A i \in DOMAIN body : PlainStmt(body[i])
  /\ \A i \in 1..(Len(body) - 1) : ~ Swallowed(body[i], body[i + 1])
PlainStmt(s) ==
  CASE s.k = "expr"   -> PlainStep(s.e)
    [] s.k \in {"var", "return"} -> Plain(s.e)
    [] s.k = "break"  -> TRUE
    [] s.k = "if"     -> Plain(s.c) /\ PlainBody(s.t) /\ PlainBody(s.e)
    [] s.k = "loop"   -> PlainStep(s.start) /\ Plain(s.c) /\ PlainBody(Append(s.body, [k |-> "expr", e |-> s.iter]))
=============================================================================
