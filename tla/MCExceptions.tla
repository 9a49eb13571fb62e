---------------------------- MODULE MCExceptions ----------------------------
(***************************************************************************)
(* Programs for the runs of Exceptions: try statements nested to depth     *)
(* two, in functions that call each other, with every way to leave a body. *)
(***************************************************************************)
EXTENDS Exceptions

CONSTANT Everything   \* whether Programs has the ones the code does not support

Ends == {<<>>, <<Throw>>, <<Fault>>, <<Return>>, <<Call("f")>>}
CatchEnds == {<<>>, <<Return>>, <<Call("f")>>}
Finallies(n) == {<<>>, <<Mark(n)>>}

Plain(n)  == {<<Mark(n)>> \o e : e \in Ends}
Inner == {Try(b, <<Mark("catch2")>> \o e, f) :
            b \in Plain("try2"), e \in CatchEnds, f \in Finallies("finally2")}

\* Bodies of the outer try statement, with an inner one or a loop before the end.
Middle == Plain("try1")
            \cup {<<s>> \o e : s \in Inner, e \in Ends}
            \cup {<<Loop(<<Mark("loop"), Break>>)>> \o e : e \in Ends}
            \cup {<<Loop(b)>> : b \in Plain("loop") \ {<<Mark("loop")>>, <<Mark("loop"), Call("f")>>}}

CatchBodies == {<<Mark("catch1")>> \o e : e \in CatchEnds}
                 \cup {<<Try(<<Throw>>, <<Mark("catch3")>> \o e, <<Mark("finally3")>>)>> : e \in CatchEnds}

Outer == {Try(b, c, f) : b \in Middle, c \in CatchBodies, f \in Finallies("finally1")}

\* The last ones end with an exception that nothing in main catches.
Mains == {<<s, Mark("after")>> : s \in Outer}
           \cup {<<Loop(<<s, Break>>), Mark("after")>> : s \in Outer}
           \cup {<<s, Mark("after")>> \o e : s \in Inner, e \in Ends}

Callees == {<<Mark("f")>>, <<Mark("f"), Throw>>, <<Fault>>,
            <<Try(<<Throw>>, <<Mark("f catch")>>, <<Mark("f finally")>>), Mark("f after")>>,
            <<Try(<<Return>>, <<Mark("f catch")>>, <<Mark("f finally")>>), Mark("f after")>>}

-----------------------------------------------------------------------------
(* What the code supports. *)

RECURSIVE Statements(_)
Within(s) == CASE s.op = "loop" -> Statements(s.body)
               [] s.op = "try"  -> Statements(s.body \o s.catch \o s.finally)
               [] OTHER         -> {}
Statements(body) == Range(body) \cup UNION {Within(s) : s \in Range(body)}

Tries(body)     == {s \in Statements(body) : s.op = "try"}
Returns(body)   == Return \in Statements(body)

\* No exception leaves a catch body, no return is inside two finally bodies.
Supported(p) ==
  /\ \A f \in DOMAIN p : \A s \in Tries(p[f]) :
       /\ Meaning(s.catch, p).end # "throw"
       /\ s.finally # <<>> =>
            \A t \in Tries(s.body \o s.catch) : t.finally # <<>> => ~Returns(t.body \o t.catch)
  /\ Fault \in Statements(p["main"]) => \A t \in Tries(p["f"]) : ~Returns(t.body)

AllPrograms == {[main |-> m, f |-> c] : m \in Mains, c \in Callees}
MyPrograms  == IF Everything THEN AllPrograms ELSE {p \in AllPrograms : Supported(p)}
MyCode      == [p \in MyPrograms |-> CompileProgram(p)]

\* The hypothesis of the theorems in HandlersProof.
ASSUME FaultsAreSafe ==
  Everything \/ \A p \in Programs : Faults(Code[p]) => ReturnsOutsideTries(Code[p])
=============================================================================
