------------------------------ MODULE MCFields ------------------------------
(***************************************************************************)
(* Model checking of Fields and of ScriptObject.  They share the maps and  *)
(* no state, so one of them moves in a behavior.                           *)
(***************************************************************************)
EXTENDS Fields, ScriptObject

CONSTANTS v1, v2, v3

VARIABLE part

MCValues == <<v1, v2, v3>>

\* get_hash of these names: the code of the last character, minus 48, modulo 10.
MCHash == [n \in Names |->
  CASE n \in {"e", "o", "y", "size"} -> 3
    [] n = "f"                       -> 4
    [] n = "g"                       -> 5
    [] n \in {"keys", "s", "this"}   -> 7
    [] n = "print"                   -> 8]

(***************************************************************************)
(* class K {                                                               *)
(*   var e; private var o;                                                 *)
(*   function f(y) {                                                       *)
(*     function g(e) { ... }                                               *)
(*     ... } }                                                             *)
(***************************************************************************)
MCParams    == [K |-> <<>>, f |-> <<"y">>, g |-> <<"e">>]
MCVariables == [K |-> <<"e", "o">>, f |-> <<>>, g |-> <<>>]
MCNested    == [K |-> {"f"}, f |-> {"g"}, g |-> {}]

MCInit == FieldsInit /\ ObjectInit /\ part \in {"fields", "object"}

MCNext ==
  \/ part = "fields" /\ FieldsNext /\ UNCHANGED <<objectVars, part>>
  \/ part = "object" /\ ObjectNext /\ UNCHANGED <<fieldVars, part>>

MCSpec == MCInit /\ [][MCNext]_<<fieldVars, objectVars, part>>
=============================================================================
