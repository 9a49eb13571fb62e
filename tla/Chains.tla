------------------------------- MODULE Chains --------------------------------
(***************************************************************************)
(* Chains of positions: each leads to a smaller one, and the last to 0.    *)
(***************************************************************************)
EXTENDS Integers

\* The nearest position of S from c outwards; 0 if there is none.
Nearest(next, S, c) ==
  LET nearest[d \in {0} \cup DOMAIN next] == IF d = 0 \/ d \in S THEN d ELSE nearest[next[d]]
  IN  nearest[c]
=============================================================================
