------------------------------- MODULE Facts ---------------------------------
(***************************************************************************)
(* Facts about numbers and sequences that the proofs of several modules    *)
(* need.                                                                   *)
(***************************************************************************)
EXTENDS Integers, Sequences, WellFoundedInduction, TLAPS

\* Induction: a set of numbers with a member has a least one.
LEMMA LeastNatural ==
  ASSUME NEW S \in SUBSET Nat, S # {}
  PROVE  \E z \in S : \A y \in S : z <= y
<1>1. IsWellFoundedOn(OpToRel(<, Nat), Nat)
  BY NatLessThanWellFounded
<1>2. PICK z \in S : \A y \in S : ~ (<<y, z>> \in OpToRel(<, Nat))
  BY <1>1, WFMin
<1>3. \A y \in S : y \in Nat /\ z \in Nat /\ (y < z => <<y, z>> \in OpToRel(<, Nat))
  BY DEF OpToRel
<1>4. \A y \in S : y \in Nat /\ z \in Nat /\ ~ (y < z)
  BY <1>2, <1>3
<1> QED
  BY <1>4

\* A sequence of whatever it holds.
IsSequence(h) == h \in Seq({h[i] : i \in DOMAIN h})

\* A function on 1..n is a sequence of length n.
LEMMA SequenceIs ==
  ASSUME NEW n \in Nat, NEW h, h = [i \in 1..n |-> h[i]]
  PROVE  IsSequence(h) /\ Len(h) = n /\ DOMAIN h = 1..n
<1>1. DOMAIN h = 1..n
  OBVIOUS
<1>2. \A i \in 1..n : h[i] \in {h[j] : j \in DOMAIN h}
  BY <1>1
<1>3. h \in [1..n -> {h[j] : j \in DOMAIN h}]
  BY <1>1, <1>2
<1> QED
  BY <1>1, <1>3 DEF IsSequence

\* Append adds one item and leaves the others where they are.
LEMMA SequenceAppend ==
  ASSUME NEW h, IsSequence(h), NEW w
  PROVE  /\ IsSequence(Append(h, w)) /\ Len(h) \in Nat /\ DOMAIN h = 1..Len(h)
         /\ Len(Append(h, w)) = Len(h) + 1 /\ DOMAIN Append(h, w) = 1..(Len(h) + 1)
         /\ \A i \in 1..Len(h) : Append(h, w)[i] = h[i]
         /\ Append(h, w)[Len(h) + 1] = w
<1> DEFINE S == {h[i] : i \in DOMAIN h} \cup {w}
<1>1. h \in Seq(S) /\ w \in S
  BY DEF IsSequence
<1> HIDE DEF S
<1>2. /\ Len(h) \in Nat /\ DOMAIN h = 1..Len(h)
      /\ Append(h, w) \in Seq(S)
      /\ Len(Append(h, w)) = Len(h) + 1
      /\ \A i \in 1..Len(h) : Append(h, w)[i] = h[i]
      /\ Append(h, w)[Len(h) + 1] = w
  BY <1>1
<1>3. \A a \in Seq(S) : DOMAIN a = 1..Len(a) /\ Len(a) \in Nat /\ a = [i \in 1..Len(a) |-> a[i]]
  OBVIOUS
<1>4. DOMAIN Append(h, w) = 1..(Len(h) + 1) /\ IsSequence(Append(h, w))
  BY <1>2, <1>3, SequenceIs
<1> QED
  BY <1>2, <1>4
=============================================================================
