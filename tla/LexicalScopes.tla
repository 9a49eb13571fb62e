---------------------------- MODULE LexicalScopes ----------------------------
(***************************************************************************)
(* What the names in the code of a class promise.  A function sees its own *)
(* variables, then those of the activation in which it was written down,   *)
(* out to the body of the class, whose variables are the fields of the     *)
(* object; a name that nobody declares is one of the synchronized          *)
(* variables, a static variable, or global: the name of a class or of a    *)
(* native function.  `this.n' is the field n of the object, whoever says so.*)
(***************************************************************************)
EXTENDS Integers, Sequences, Chains

CONSTANTS
  Class,      \* the body of the class, the outermost function
  Declared,   \* Declared[f]: the variables of function f, its own name included
  Nested,     \* Nested[f]: the functions written down in f
  Params,     \* Params[f]: the parameters of f, a sequence
  Private,    \* the private fields
  Names, Values, NULL, Thrown,
  Zero        \* what a variable holds that was not assigned

VARIABLES
  activations,   \* all activations ever made: function, enclosing activation, caller, variables
  running,
  shared,        \* the synchronized variables; NULL if there is none of the name
  statics,       \* the static variables
  refused        \* the last write of another object has thrown

vars == <<activations, running, shared, statics, refused>>

Functions     == DOMAIN Declared
Closure(f, a) == [fn |-> f, outer |-> a]
Closures      == [fn : Functions, outer : Nat]

\* The variables of the new activation a of f.
Fresh(f, a, o, args) ==
  [n \in Declared[f] |->
     CASE n \in Nested[f]                            -> Closure(n, a)
       [] n = f /\ f # Class                         -> Closure(f, o)
       [] \E i \in 1..Len(args) : Params[f][i] = n -> args[CHOOSE i \in 1..Len(args) : Params[f][i] = n]
       [] OTHER                                       -> Zero]

Activation(f, a, o, c, args) == [fn |-> f, outer |-> o, caller |-> c, vars |-> Fresh(f, a, o, args)]

Init ==
  /\ activations = <<Activation(Class, 1, 0, 0, <<>>)>>
  /\ running = 1
  /\ shared = [n \in Names |-> NULL]
  /\ statics = [n \in Names |-> NULL]
  /\ refused = FALSE

\* The nearest activation from a outwards that declares n; 0 if there is none.
Outer       == [a \in DOMAIN activations |-> activations[a].outer]
Scope(a, n) == Nearest(Outer, {b \in DOMAIN activations : n \in Declared[activations[b].fn]}, a)

Meaning(n) ==
  LET a == Scope(running, n)
  IN  CASE a # 0                                             -> activations[a].vars[n]
        [] a = 0 /\ shared[n] # NULL                         -> shared[n]
        [] a = 0 /\ shared[n] = NULL /\ statics[n] # NULL -> statics[n]
        [] OTHER                                             -> [global |-> n]

\* The variable n of activation a gets one of the values S.
Store(a, n, S) ==
  /\ activations'[a].vars[n] \in S
  /\ activations' = [activations EXCEPT ![a].vars[n] = activations'[a].vars[n]]

\* An assignment: a value, or what a name means.
Write ==
  /\ UNCHANGED <<running, statics, refused>>
  /\ LET S == Values \cup {Meaning(m) : m \in Names}
     IN  \/ /\ UNCHANGED shared
            /\ \E n \in Names : Scope(running, n) # 0 /\ Store(Scope(running, n), n, S)
         \/ /\ UNCHANGED activations
            /\ \E n \in Names, v \in S : Scope(running, n) = 0 /\ shared' = [shared EXCEPT ![n] = v]

Call(n, args) ==
  LET f == Meaning(n)
      a == Len(activations) + 1
  IN  /\ running' = a
      /\ f \in Closures
      /\ Len(args) = Len(Params[f.fn])
      /\ UNCHANGED <<shared, statics, refused>>
      /\ activations' = Append(activations, Activation(f.fn, a, f.outer, running, args))

Return ==
  /\ activations[running].caller # 0
  /\ running' = activations[running].caller
  /\ UNCHANGED <<activations, shared, statics, refused>>

WriteThis ==
  /\ UNCHANGED <<running, shared, statics, refused>>
  /\ \E n \in Declared[Class] : Store(1, n, Values)

StaticMeaning(n) == IF statics[n] # NULL THEN statics[n] ELSE Thrown

WriteStatic ==
  /\ UNCHANGED <<activations, running, shared, refused>>
  /\ \E n \in Names, v \in Values : statics' = [statics EXCEPT ![n] = v]

\* Other objects see the fields; those of another class do not see the private ones.
Visible(n, other)        == n \in Declared[Class] /\ ~ (other /\ n \in Private)
MeaningOutside(n, other) == IF Visible(n, other) THEN activations[1].vars[n] ELSE Thrown

WriteOutside ==
  /\ UNCHANGED <<running, shared, statics>>
  /\ \E n \in Names, other \in BOOLEAN :
       IF Visible(n, other) THEN ~ refused' /\ Store(1, n, Values)
                            ELSE refused' /\ UNCHANGED activations

Next == \/ Write \/ WriteThis \/ WriteStatic \/ WriteOutside
        \/ \E n \in Names : Call(n, <<>>) \/ \E v \in Values : Call(n, <<v>>)
        \/ Return

Spec == Init /\ [][Next]_vars
=============================================================================
