-------------------------------- MODULE MCHeap --------------------------------
(***************************************************************************)
(* Model checking of Heap: programs of a class Main with a function cb and *)
(* a class A with a method m, in which a function k is written down.       *)
(* Registers 3, 4, 5 of Main are its variables cb, a and x; register 3 of  *)
(* A is its method, 4 its field.                                           *)
(***************************************************************************)
EXTENDS Heap

Number(r)           == [op |-> "number", r |-> r]
Move(r, q)          == [op |-> "mov", r |-> r, from |-> q]
Fn(r, f)            == [op |-> "function", r |-> r, fn |-> f]
Obj(r)              == [op |-> "object", r |-> r]
NewA(r)             == [op |-> "new", r |-> r, class |-> "A"]
Outer(r, l, s)      == [op |-> "get_outer", r |-> r, levels |-> l, slot |-> s]
ToOuter(l, s, r)    == [op |-> "set_outer", r |-> r, levels |-> l, slot |-> s]
Get(r, o, s)        == [op |-> "get", r |-> r, from |-> o, slot |-> s]
SetTo(o, s, r)      == [op |-> "set", r |-> r, to |-> o, slot |-> s]
Static(r)           == [op |-> "get_static", r |-> r]
ToStatic(r)         == [op |-> "set_static", r |-> r]
Arg(r)              == [op |-> "push", r |-> r]
CallIt(r, n)        == [op |-> "call", r |-> r, n |-> n, dest |-> r]
Ret(r)              == [op |-> "return", r |-> r]

Begin == <<Fn(3, "cb"), NewA(4)>>

\* The body of Main calls a.m(cb), then goes on with what it got.
CallM(n) == <<Get(5, 4, 3), Arg(n), CallIt(5, 1)>>
Tails == {<<>>, <<CallIt(5, 0)>>, <<Number(3), CallIt(5, 0)>>, <<Number(4), CallIt(5, 0)>>,
          <<Number(4), NewA(4), CallIt(5, 0)>>, <<CallIt(5, 0), CallIt(5, 0)>>,
          <<ToStatic(5)>> \o CallM(4) \o <<Static(3), CallIt(3, 0)>>,
          <<SetTo(5, 4, 3), Move(3, 5), Get(5, 3, 4), CallIt(5, 0)>>,
          <<Arg(5)>> \o CallM(3) \o <<Arg(5), CallIt(3, 2)>>,
          <<SetTo(4, 4, 5)>> \o CallM(5) \o <<Number(5), Obj(5)>>}
MainBodies == {Begin \o CallM(3) \o t : t \in Tails}

\* The constructor of A.
ABodies == {<<Fn(3, "m")>> \o t \o <<Ret(4)>> : t \in {<<>>, <<Obj(4)>>, <<ToStatic(1), Static(4), Get(4, 4, 3), CallIt(4, 0)>>}}

\* m(g): level 1 is the object.
Moves == {<<CallIt(3, 0)>>, <<Obj(4)>>, <<Fn(4, "k")>>, <<ToOuter(1, 4, 3)>>, <<Outer(4, 1, 4), ToOuter(1, 4, 3)>>,
          <<Fn(4, "k"), ToOuter(1, 4, 4)>>, <<Move(4, 1), ToStatic(4)>>, <<NewA(4), Get(4, 4, 3)>>,
          <<Fn(4, "k"), Arg(3), CallIt(4, 1)>>}
MBody(p, q) == p \o q \o <<Ret(4)>>

\* k, written down in m: level 1 is the activation of m.
KBody == <<Outer(4, 1, 3), Ret(4)>>

\* cb, a function of Main: level 1 is Main.
Replace  == <<NewA(4), ToOuter(1, 4, 4), Ret(4)>>
CbBodies == {<<Obj(4), Ret(4)>>, <<Fn(4, "k"), Ret(4)>>, <<Outer(4, 1, 4), Get(5, 4, 3), CallIt(5, 0), Ret(5)>>,
             Replace, <<Number(4), ToOuter(1, 4, 4), Ret(1)>>}

\* It overwrites the variable that Main called m through.
Overwrite == <<Number(4), ToOuter(1, 5, 4), ToOuter(1, 4, 4), Ret(1)>>

Program(main, a, m, cb) == [Main |-> main, A |-> a, m |-> m, k |-> KBody, cb |-> cb]
MCDepth == [Main |-> 0, A |-> 0, m |-> 1, q |-> 1, cb |-> 1, k |-> 2]

\* A second method of A gives out a function that is left when nothing but the call
\* below, which has let go of the instance, needs the state of A.
Outliving ==
  [Main |-> Begin \o <<Get(5, 4, 3), Arg(3), CallIt(5, 1), Number(3), Number(4), Number(5), Static(5), CallIt(5, 0), Obj(3)>>,
   A  |-> <<Fn(3, "m"), Fn(5, "q"), Ret(4)>>,
   m  |-> <<CallIt(3, 0), Ret(4)>>,
   q  |-> <<Fn(4, "k"), Ret(4)>>,
   cb |-> <<Outer(4, 1, 4), Get(5, 4, 5), CallIt(5, 0), ToStatic(5), SetTo(4, 3, 2), SetTo(4, 5, 2), Number(5), Number(4), Ret(4)>>,
   k  |-> KBody]
MCPrograms == {Program(main, <<Fn(3, "m"), Ret(4)>>, MBody(p, q), Replace) : main \in MainBodies, p \in Moves, q \in Moves}
         \cup {Program(main, a, MBody(p, <<Fn(4, "k")>>), cb) : main \in MainBodies, a \in ABodies, p \in Moves, cb \in CbBodies}
         \cup {Outliving}

\* Programs in which cb, called back by a method or by a constructor, overwrites the
\* variable x through which that was called, and the other one of the instance.
MCOverwriting ==
  {Program(main, <<Fn(3, "m"), Ret(4)>>, MBody(p, <<Fn(4, "k")>>), Overwrite) : main \in MainBodies, p \in Moves}
    \cup {Program(<<Fn(3, "cb"), ToStatic(3), NewA(5)>>, <<Static(4), CallIt(4, 0), Obj(4), Ret(4)>>,
                  MBody(<<>>, <<>>), Overwrite)}
=============================================================================
