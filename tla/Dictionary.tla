----------------------------- MODULE Dictionary -----------------------------
(***************************************************************************)
(* What an object of a script promises: it holds the last value assigned   *)
(* to each name, keys() lists the names assigned, size() counts them.      *)
(* The two built-in methods are properties that a script may overwrite.    *)
(***************************************************************************)
EXTENDS Integers, FiniteSets

CONSTANTS
  Names, Values,
  BuiltIn,   \* the methods of a fresh object, by their names
  NULL,
  Thrown     \* the answer of an operation that throws

VARIABLES
  assigned,  \* the value last assigned to a name, or NULL
  answer     \* the last operation that asks, with its answer

Init ==
  /\ assigned = [k \in Names |-> NULL]
  /\ answer = [op |-> "none", value |-> NULL, count |-> 0]

Set(k, v) == assigned' = [assigned EXCEPT ![k] = v] /\ UNCHANGED answer

Property(k) == CASE assigned[k] # NULL                             -> assigned[k]
                 [] assigned[k] = NULL /\ k \in DOMAIN BuiltIn -> BuiltIn[k]
                 [] OTHER                                          -> Thrown

Get(k) == answer' = [op |-> "get", value |-> Property(k), count |-> 0] /\ UNCHANGED assigned

Known     == {k \in Names : assigned[k] # NULL}
Callable(k) == assigned[k] = NULL
Failure   == [op |-> "call", value |-> Thrown, count |-> 0]

Keys ==
  /\ answer' = IF Callable("keys") THEN [op |-> "keys", value |-> Known, count |-> Cardinality(Known)]
                                   ELSE Failure
  /\ UNCHANGED assigned

\* A built-in name that was overwritten is not counted.
Size ==
  /\ answer' = IF Callable("size")
                 THEN [op |-> "size", value |-> NULL, count |-> Cardinality(Known \ DOMAIN BuiltIn)]
                 ELSE Failure
  /\ UNCHANGED assigned

Next == \/ \E k \in Names, v \in Values : Set(k, v)
        \/ \E k \in Names : Get(k)
        \/ Keys
        \/ Size

vars == <<assigned, answer>>

Spec == Init /\ [][Next]_vars
=============================================================================
