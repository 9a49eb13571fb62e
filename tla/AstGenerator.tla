----------------------------- MODULE AstGenerator -----------------------------
(***************************************************************************)
(* The tree that compiler/AstGenerator.cpp makes of the parse tree of a    *)
(* function body: the statements of zeroscript.g4 that hold others become  *)
(* loops and conditionals, and the variables that a `for' declares become  *)
(* statements of the enclosing body.                                       *)
(*                                                                         *)
(* A parse tree is made of records whose k says what they are; a           *)
(* `bodyOrStatement' is the sequence of its statements and whether it is   *)
(* in braces.  Expressions are taken over as they are.                     *)
(***************************************************************************)
EXTENDS Integers, Sequences, SequencesExt

None    == [k |-> "none"]
Present(e) == e.k # "none"

visitVar(parts) == [i \in DOMAIN parts |-> [k |-> "var", id |-> parts[i].id, e |-> parts[i].e]]

\* Visiting statement s of a body: parent, the statements that this body has by
\* then, and made, what becomes of s.
RECURSIVE visitStatement(_, _)

visitBody(stmts) ==
  FoldLeft(LAMBDA parent, s : LET v == visitStatement(parent, s) IN v.parent \o v.made, <<>>, stmts)

\* A single statement adds its variables to the parent body.
visitBodyOrStatement(parent, b) ==
  IF b.braced THEN [parent |-> parent, made |-> visitBody(b.stmts)] ELSE visitStatement(parent, b.stmts[1])

\* The grammar does not tell which of the expressions are there: the first of three
\* is the start, else the first one is the condition.
visitForLoop(parent, s) ==
  LET declares == s.start.k = "vars"
      exprs    == SelectSeq(<<IF declares THEN None ELSE s.start, s.c, s.iter>>, Present)
      hasStart == IF Len(exprs) > 2 THEN 1 ELSE 0
      Nth(i)   == IF i \in DOMAIN exprs THEN exprs[i] ELSE None
      b        == visitBodyOrStatement(IF declares THEN parent \o visitVar(s.start.parts) ELSE parent, s.body)
  IN  [parent |-> b.parent,
       made   |-> <<[k |-> "loop", start |-> IF hasStart = 1 THEN exprs[1] ELSE None, c |-> Nth(hasStart + 1),
                     iter |-> Nth(hasStart + 2), body |-> b.made]>>]

visitWhileLoop(parent, s) ==
  LET b == visitBodyOrStatement(parent, s.body)
  IN  [parent |-> b.parent, made |-> <<[k |-> "loop", start |-> None, c |-> s.c, iter |-> None, body |-> b.made]>>]

visitConditional(parent, s) ==
  LET t == visitBodyOrStatement(parent, s.t)
      e == visitBodyOrStatement(t.parent, s.e)
  IN  [parent |-> e.parent, made |-> <<[k |-> "if", c |-> s.c, t |-> t.made, e |-> e.made]>>]

visitStatement(parent, s) ==
  CASE s.k = "vars"  -> [parent |-> parent, made |-> visitVar(s.parts)]
    [] s.k = "for"   -> visitForLoop(parent, s)
    [] s.k = "while" -> visitWhileLoop(parent, s)
    [] s.k = "if"    -> visitConditional(parent, s)
    [] OTHER         -> [parent |-> parent, made |-> <<s>>]
=============================================================================
