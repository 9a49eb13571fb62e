---------------------------- MODULE MCCallStates ----------------------------
(***************************************************************************)
(* CallStates for TLC: the main thread, and others that reach fewer states *)
(* and call less.  States that are reached alike are interchangeable.      *)
(***************************************************************************)
EXTENDS CallStates, TLC

CONSTANTS Main, Private,   \* the objects and clones that only Main reaches
          MainCalls, OtherCalls

MCReach == [t \in Threads |-> IF t = Main THEN States ELSE States \ Private]
MCCalls == [t \in Threads |-> IF t = Main THEN MainCalls ELSE OtherCalls]

AlikeStates == Permutations(Objects \cap Private) \cup Permutations(Objects \ Private)
                 \cup Permutations(Clones \cap Private) \cup Permutations(Clones \ Private)
=============================================================================
