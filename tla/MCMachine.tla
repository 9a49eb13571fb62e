------------------------------ MODULE MCMachine ------------------------------
(***************************************************************************)
(* Model checking of Machine: function f(a, b) with an outer variable g    *)
(* and an outer function h.                                                *)
(***************************************************************************)
EXTENDS Machine

MCSymbols  == <<"this", "f", "a", "b">>
MCOuter    == <<"g", "h">>
MCParams   == <<"a", "b">>
MCExternal(p, q) == 3 * p - q

Num(n)        == [k |-> "num", n |-> n]
Var(id)       == [k |-> "var", id |-> id]
Bin(op, p, q) == [k |-> "bin", op |-> op, l |-> p, r |-> q]
Pre(op, p)    == [k |-> "pre", op |-> op, e |-> p]
Post(p, op)   == [k |-> "post", op |-> op, e |-> p]
H(p, q)       == [k |-> "call", fn |-> "h", args |-> <<p, q>>]
Stmt(e)       == [k |-> "expr", e |-> e]
Vars(id, e)   == [k |-> "vars", parts |-> <<[id |-> id, e |-> e]>>]
Return_(e)    == [k |-> "return", e |-> e]
Braced(b)     == [braced |-> TRUE, stmts |-> b]
Single(s)     == [braced |-> FALSE, stmts |-> <<s>>]
If(c, t, e)   == [k |-> "if", c |-> c, t |-> Braced(t), e |-> Braced(e)]
For(s, c, i, b) == [k |-> "for", start |-> s, c |-> c, iter |-> i, body |-> Braced(b)]
Break         == [k |-> "break"]
Becomes(id, e) == Stmt(Bin("=", Var(id), e))

Atoms == {Num(2), Var("a"), Var("b"), Var("g")}
Steps == {Post(Var("a"), "++"), Post(Var("g"), "--"), Pre("++", Var("a")), Pre("--", Var("g"))}
Small == Atoms \cup Steps
           \cup {Pre("-", Var("g")), Bin("+", Num(2), Var("a")), Bin("*", Var("b"), Var("g")), Bin("<", Var("b"), Num(2)),
                 Bin("-", Var("a"), Num(2)), H(Var("a"), Num(2)), H(Num(2), Var("g"))}

\* An expression of two levels.
Expressions == {<<Return_(Bin("-", p, q))>> : p \in Small, q \in Small}
                 \cup {<<Return_(H(p, q))>> : p \in Small, q \in Small}
                 \cup {<<Return_(Pre("-", p))>> : p \in Small}
                 \cup {<<Return_(H(Bin(op, p, q), H(q, p)))>> : op \in {"*", "=="}, p \in Atoms, q \in Small}

\* Assignments one after another.
Writes == {Becomes("a", p) : p \in Small} \cup {Becomes("g", p) : p \in Small} \cup {Vars("b", p) : p \in Small}
            \cup {Stmt(p) : p \in Steps}
Sequences3 == {<<p, r, q>> :
  p \in Writes,
  r \in {Stmt(H(Num(1), Pre("++", Var("g")))), Becomes("b", Bin("+", Pre("++", Var("b")), Var("a")))},
  q \in {Becomes("a", Bin("-", Var("b"), Var("a"))), Stmt(Post(Var("a"), "--")),
         Becomes("g", H(Var("a"), Post(Var("b"), "++")))}}

\* A choice, by any comparison.
Conditions == {Bin(op, p, q) : op \in L!Comparisons, p \in {Var("a"), Bin("-", Var("g"), Num(1))}, q \in {Num(1), Num(4), Var("b")}}
Conditionals == {<<Becomes("b", Num(n)), If(c, <<Becomes("a", Num(7))>>, e), Return_(Var("a"))>> :
              n \in {1, 4}, c \in Conditions \cup Small, e \in {<<>>, <<Becomes("g", Var("b"))>>}}
Conditionals2 == {<<Stmt(Post(Var("b"), "--")), If(c, <<Return_(Num(7))>>, e), Return_(Var("g"))>> :
              c \in Conditions, e \in {<<>>, <<Stmt(Pre("++", Var("g")))>>}}

\* Loops that count b up, with a break or a return.
Loops == {<<For(Bin("=", Var("b"), Num(0)), Bin(op, Var("b"), q), Post(Var("b"), "++"), <<w, If(c, <<leave>>, <<>>)>>)>> :
            op \in {"<", "<=", "!="}, q \in {Num(2), Bin("-", Num(4), Num(1))},
            w \in {Becomes("a", Bin("*", Var("a"), Num(2))), Stmt(Post(Var("g"), "++"))},
            c \in {Bin("==", Var("b"), Num(1)), Bin(">", Var("g"), Var("a"))},
            leave \in {Break, Return_(Var("b"))}}

\* A loop in a loop, with a break out of the inner one, which starts over.
Starts == {Bin("=", Var("b"), Num(0)), Vars("b", Num(0))}
Nested == {<<[k |-> "while", c |-> Bin("<", Var("a"), Num(4)),
              body |-> Braced(<<For(s, Bin("<", Var("b"), p), Pre("++", Var("b")),
                                    <<If(c, <<Break>>, <<Stmt(Post(Var("g"), "--"))>>)>>),
                                Stmt(Post(Var("a"), "++"))>>)]>> :
             s \in Starts, p \in {Num(2), Var("a")},
             c \in {Bin("!=", Var("g"), Num(2)), Bin(">=", Var("a"), Bin("+", Var("b"), Num(2))), Var("b")}}

\* Loops without some of their parts; statements without braces.
Count   == Stmt(Post(Var("b"), "++"))
Partial == {<<Becomes("b", Num(1)), [k |-> "for", start |-> s, c |-> c, iter |-> i, body |-> b], Return_(Var("b"))>> :
              s \in Starts \cup {None}, c \in {None, Bin("<", Var("b"), Num(3))},
              i \in {None} \cup {Post(Var("g"), "--")}, b \in {Single(Count), Braced(<<Count>>)}}
Unbraced == {<<Becomes("b", Num(n)), [k |-> "if", c |-> c, t |-> Single(s), e |-> e], Return_(Var("b"))>> :
               n \in {1, 4}, c \in {Bin("<", Var("b"), Num(2)), Var("g")},
               s \in {[For(start, Bin("<", Var("b"), Num(2)), Post(Var("b"), "++"), <<>>) EXCEPT !.body = inner] :
                        start \in Starts \cup {None},
                        inner \in {Single(Stmt(Post(Var("g"), "++"))),
                                   Single([k |-> "if", c |-> Bin("==", Var("b"), Num(1)), t |-> Single(Break), e |-> Braced(<<>>)])}},
               e \in {Braced(<<>>), Single([k |-> "if", c |-> Bin(">", Var("b"), Num(2)), t |-> Single(Count),
                                            e |-> Single(Becomes("g", Var("b")))])}}

MCBodies == Expressions \cup Sequences3 \cup Conditionals \cup Conditionals2 \cup Loops \cup Nested \cup Partial \cup Unbraced
=============================================================================
