----------------------------- MODULE FieldsProof ------------------------------
(***************************************************************************)
(* Proofs about Fields, for any class: functions with any parameters and   *)
(* variables, nested how ever deep, recursive, and called after the        *)
(* function that made them has returned.  An invariant of the contexts and *)
(* the maps; from it, that every name reads as what it means, and that     *)
(* Fields implements LexicalScopes.                                        *)
(***************************************************************************)
EXTENDS Fields, MapProof, Facts, FiniteSetTheorems

(***************************************************************************)
(* Chains                                                                  *)
(***************************************************************************)

\* N positions, each of which leads to a smaller one.
IsChain(next, N) == N \in Nat /\ DOMAIN next = 1..N /\ \A d \in 1..N : next[d] \in 0..(d - 1)

\* The search along a chain comes to an end: the recursive function exists.
LEMMA NearestStep ==
  ASSUME NEW next, NEW N, IsChain(next, N), NEW S, NEW c \in 0..N
  PROVE  Nearest(next, S, c) = IF c = 0 \/ c \in S THEN c ELSE Nearest(next, S, next[c])
<1> DEFINE Value(g, d) == IF d = 0 \/ d \in S THEN d ELSE g[next[d]]
           Is(g)       == g = [d \in {0} \cup DOMAIN next |-> Value(g, d)]
           Upto(g, k)  == \A d \in 0..k : g[d] = Value(g, d)
           Bad         == {k \in 0..N : ~ \E g : g = [d \in 0..k |-> g[d]] /\ Upto(g, k)}
<1>1. N \in Nat /\ DOMAIN next = 1..N /\ \A d \in 1..N : next[d] \in 0..(d - 1)
  BY DEF IsChain
<1>2. Bad = {}
  <2>1. SUFFICES ASSUME Bad # {} PROVE FALSE
    OBVIOUS
  <2>2. PICK k \in Bad : \A j \in Bad : k <= j
    <3>1. Bad \in SUBSET Nat
      BY <1>1
    <3> HIDE DEF Bad
    <3> QED
      BY <2>1, <3>1, LeastNatural
  <2>3. k \in 0..N /\ ~ \E g : g = [d \in 0..k |-> g[d]] /\ Upto(g, k)
    BY <2>2
  <2>4. CASE k = 0
    <3>1. PICK g : g = [d \in 0..0 |-> 0]
      OBVIOUS
    <3>2. g = [d \in 0..k |-> g[d]] /\ Upto(g, k)
      BY <2>4, <3>1
    <3> QED
      BY <2>3, <3>2
  <2>5. CASE k # 0
    <3>1. k - 1 \in 0..N /\ k - 1 \notin Bad
      BY <1>1, <2>2, <2>3, <2>5
    <3>2. PICK h : h = [d \in 0..(k - 1) |-> h[d]] /\ Upto(h, k - 1)
      BY <3>1
    <3>3. PICK g : g = [d \in 0..k |-> IF d = k THEN (IF k \in S THEN k ELSE h[next[k]]) ELSE h[d]]
      OBVIOUS
    <3>4. \A d \in 0..(k - 1) : g[d] = h[d] /\ (d # 0 => next[d] \in 0..(k - 1))
      BY <1>1, <2>3, <3>3
    <3>5. next[k] \in 0..(k - 1) /\ g[k] = IF k \in S THEN k ELSE h[next[k]]
      BY <1>1, <2>3, <2>5, <3>3
    <3>6. ASSUME NEW d \in 0..k PROVE g[d] = Value(g, d)
      <4>1. CASE d = k
        BY <2>5, <3>4, <3>5, <4>1
      <4>2. CASE d # k
        <5>1. d \in 0..(k - 1)
          BY <2>3, <4>2
        <5>2. h[d] = Value(h, d)
          BY <3>2, <5>1
        <5> QED
          BY <3>4, <5>1, <5>2
      <4> QED
        BY <4>1, <4>2
    <3>7. g = [d \in 0..k |-> g[d]]
      BY <3>3
    <3> QED
      BY <2>3, <3>6, <3>7
  <2> QED
    BY <2>4, <2>5
<1>3. PICK h : h = [d \in 0..N |-> h[d]] /\ Upto(h, N)
  <2>1. N \in 0..N /\ N \notin Bad
    BY <1>1, <1>2
  <2> QED
    BY <2>1
<1>4. {0} \cup DOMAIN next = 0..N
  BY <1>1
<1>5. Is(h)
  BY <1>3, <1>4
<1>6. \A d : Nearest(next, S, d) = (CHOOSE g : Is(g))[d]
  BY DEF Nearest
<1>7. Is(CHOOSE g : Is(g))
  <2> HIDE DEF Is
  <2> QED
    BY <1>5
<1>8. PICK f : f = (CHOOSE g : Is(g))
  OBVIOUS
<1>9. f = [d \in 0..N |-> Value(f, d)]
  BY <1>4, <1>7, <1>8
<1>10. f[c] = Value(f, c)
  BY <1>9
<1> QED
  BY <1>6, <1>8, <1>10

\* The search ends at the start or nearer to 0, at a member of S or at 0.
LEMMA NearestPlace ==
  ASSUME NEW next, NEW N, IsChain(next, N), NEW S, NEW c \in 0..N
  PROVE  Nearest(next, S, c) \in 0..c /\ (Nearest(next, S, c) = 0 \/ Nearest(next, S, c) \in S)
<1> DEFINE Good(d) == Nearest(next, S, d) \in 0..d /\ (Nearest(next, S, d) = 0 \/ Nearest(next, S, d) \in S)
           Bad     == {d \in 0..N : ~ Good(d)}
<1>1. N \in Nat /\ DOMAIN next = 1..N /\ \A d \in 1..N : next[d] \in 0..(d - 1)
  BY DEF IsChain
<1> SUFFICES Bad = {}
  OBVIOUS
<1>2. SUFFICES ASSUME Bad # {} PROVE FALSE
  OBVIOUS
<1>3. PICK d \in Bad : \A j \in Bad : d <= j
  <2>1. Bad \in SUBSET Nat
    BY <1>1
  <2> HIDE DEF Bad
  <2> QED
    BY <1>2, <2>1, LeastNatural
<1>4. d \in 0..N /\ ~ Good(d)
  BY <1>3
<1>5. Nearest(next, S, d) = IF d = 0 \/ d \in S THEN d ELSE Nearest(next, S, next[d])
  BY <1>4, NearestStep
<1>6. CASE d = 0 \/ d \in S
  <2>1. d \in 0..d
    BY <1>4
  <2> QED
    BY <1>4, <1>5, <1>6, <2>1
<1>7. CASE ~ (d = 0 \/ d \in S)
  <2>1. next[d] \in 0..(d - 1) /\ d \in Nat
    BY <1>1, <1>4, <1>7
  <2>2. next[d] \in 0..N /\ next[d] \notin Bad
    BY <1>1, <1>3, <1>4, <2>1
  <2>3. Good(next[d])
    BY <2>2
  <2>4. 0..next[d] \subseteq 0..d
    BY <2>1
  <2> QED
    BY <1>4, <1>5, <1>7, <2>3, <2>4
<1> QED
  BY <1>6, <1>7

\* The search sees nothing but the positions up to its start.
LEMMA NearestSame ==
  ASSUME NEW next, NEW N, IsChain(next, N), NEW more, NEW M, IsChain(more, M), NEW S, NEW T,
         NEW c \in 0..N, c \in 0..M,
         \A d \in 1..c : more[d] = next[d] /\ (d \in T <=> d \in S)
  PROVE  Nearest(more, T, c) = Nearest(next, S, c)
<1> DEFINE Bad == {d \in 0..c : Nearest(more, T, d) # Nearest(next, S, d)}
<1>1. N \in Nat /\ DOMAIN next = 1..N /\ \A d \in 1..N : next[d] \in 0..(d - 1)
  BY DEF IsChain
<1>2. c \in Nat /\ 0..c \subseteq 0..N /\ 0..c \subseteq 0..M
  BY DEF IsChain
<1> SUFFICES Bad = {}
  BY <1>2
<1>3. SUFFICES ASSUME Bad # {} PROVE FALSE
  OBVIOUS
<1>4. PICK d \in Bad : \A j \in Bad : d <= j
  <2>1. Bad \in SUBSET Nat
    BY <1>2
  <2> HIDE DEF Bad
  <2> QED
    BY <1>3, <2>1, LeastNatural
<1>5. d \in 0..c /\ Nearest(more, T, d) # Nearest(next, S, d)
  BY <1>4
<1>6. Nearest(next, S, d) = IF d = 0 \/ d \in S THEN d ELSE Nearest(next, S, next[d])
  BY <1>2, <1>5, NearestStep
<1>7. Nearest(more, T, d) = IF d = 0 \/ d \in T THEN d ELSE Nearest(more, T, more[d])
  BY <1>2, <1>5, NearestStep
<1>8. d # 0 => more[d] = next[d] /\ (d \in T <=> d \in S)
  BY <1>2, <1>5
<1>9. d # 0 /\ d \notin S /\ d \notin T
  BY <1>5, <1>6, <1>7, <1>8
<1>10. next[d] \in 0..(d - 1) /\ d \in 0..c
  BY <1>1, <1>2, <1>5, <1>9
<1>11. next[d] \in 0..c /\ next[d] \notin Bad
  BY <1>2, <1>4, <1>10
<1> QED
  BY <1>5, <1>6, <1>7, <1>8, <1>9, <1>11

(***************************************************************************)
(* Symbols and registers                                                   *)
(***************************************************************************)

\* SetToSeq lists a finite set without repetition.
LEMMA SetToSeqLists ==
  ASSUME NEW S, IsFiniteSet(S)
  PROVE  SetToSeq(S) \in Seq(S) /\ \A n \in S : \E i \in 1..Len(SetToSeq(S)) : SetToSeq(S)[i] = n
<1>1. PICK n : n = Cardinality(S)
  OBVIOUS
<1>2. n \in Nat /\ ExistsBijection(1..n, S)
  BY <1>1, FS_CardinalityType
<1>3. PICK q : q = SetToSeq(S)
  OBVIOUS
<1>4. q \in [1..n -> S] /\ IsInjective(q)
  <2>1. \E f \in [1..n -> S] : IsInjective(f)
    BY <1>2 DEF ExistsBijection, Bijection, Injection
  <2> QED
    BY <1>1, <1>3, <2>1 DEF SetToSeq
<1>5. IsFiniteSet(1..n) /\ Cardinality(1..n) = n
  BY <1>2, FS_Interval
<1>6. q \in Surjection(1..n, S)
  BY <1>1, <1>4, <1>5, FS_Injection DEF Injection
<1>7. q \in Seq(S) /\ Len(q) = n
  BY <1>2, <1>4
<1> QED
  BY <1>3, <1>6, <1>7 DEF Surjection

\* Where the items of two sequences are in their concatenation.
LEMMA Joined ==
  ASSUME NEW S, NEW s \in Seq(S), NEW t \in Seq(S)
  PROVE  /\ s \o t \in Seq(S) /\ Len(s) \in Nat /\ Len(t) \in Nat /\ Len(s \o t) = Len(s) + Len(t)
         /\ \A i \in 1..Len(s) : (s \o t)[i] = s[i]
         /\ \A j \in 1..Len(t) : (s \o t)[j + Len(s)] = t[j]
OBVIOUS

\* The place of a symbol among the others.
LEMMA SymbolPlaces ==
  ASSUME NEW f \in Functions
  PROVE  /\ Symbols[f] \in Seq(Names) /\ Len(Symbols[f]) \in Nat \ {0} /\ Symbols[f][1] = "this"
         /\ f # Class =>
              /\ Symbols[f][2] = f
              /\ \A j \in 1..Len(Params[f]) : j + 2 \in 1..Len(Symbols[f]) /\ Symbols[f][j + 2] = Params[f][j]
              /\ \A n \in Nested[f] : \E i \in 1..Len(Symbols[f]) : Symbols[f][i] = n /\ i > Len(Params[f]) + 2
<1>1. PICK own, ps, vs, ns : /\ own = IF f = Class THEN <<>> ELSE <<f>>
                             /\ ps = Params[f] /\ vs = Variables[f] /\ ns = SetToSeq(Nested[f])
  OBVIOUS
<1>2. Symbols[f] = <<"this">> \o own \o ps \o vs \o ns
  BY <1>1 DEF Symbols
<1>3. "this" \in Names /\ (f # Class => f \in Names) /\ Nested[f] \subseteq Names /\ IsFiniteSet(Nested[f])
  BY FieldsAssumption
<1>4. ns \in Seq(Names) /\ \A n \in Nested[f] : \E i \in 1..Len(ns) : ns[i] = n
  <2>1. \A S, T, q : S \subseteq T /\ q \in Seq(S) => q \in Seq(T)
    OBVIOUS
  <2> QED
    BY <1>1, <1>3, <2>1, SetToSeqLists
<1>5. ps \in Seq(Names) /\ vs \in Seq(Names) /\ <<"this">> \in Seq(Names)
  BY <1>1, <1>3, FieldsAssumption
<1>6. own \in Seq(Names) /\ (Len(own) = 0 \/ Len(own) = 1) /\ (f # Class => own = <<f>> /\ Len(own) = 1)
  BY <1>1, <1>3
<1>7. PICK a, b, c, d : a = <<"this">> \o own /\ b = a \o ps /\ c = b \o vs /\ d = c \o ns
  OBVIOUS
<1>8. a \in Seq(Names) /\ Len(a) = 1 + Len(own) /\ a[1] = "this" /\ (f # Class => a[2] = f)
  <2>1. PICK t : t = <<"this">>
    OBVIOUS
  <2>2. t \in Seq(Names) /\ Len(t) = 1 /\ t[1] = "this" /\ a = t \o own
    BY <1>5, <1>7, <2>1
  <2>3. /\ a \in Seq(Names) /\ Len(a) = 1 + Len(own)
        /\ \A i \in 1..1 : a[i] = t[i]
        /\ \A j \in 1..Len(own) : a[j + 1] = own[j]
    <3>1. PICK k : k = Len(t)
      OBVIOUS
    <3>2. /\ a \in Seq(Names) /\ Len(a) = k + Len(own)
          /\ \A i \in 1..k : a[i] = t[i]
          /\ \A j \in 1..Len(own) : a[j + k] = own[j]
      <4>1. t \in Seq(Names) /\ own \in Seq(Names)
        BY <1>6, <2>2
      <4>2. /\ t \o own \in Seq(Names) /\ Len(t \o own) = Len(t) + Len(own)
            /\ \A i \in 1..Len(t) : (t \o own)[i] = t[i]
            /\ \A j \in 1..Len(own) : (t \o own)[j + Len(t)] = own[j]
        BY <4>1, Joined
      <4>3. a = t \o own
        BY <2>2
      <4> QED
        BY Zenon, <3>1, <4>2, <4>3
    <3>3. k = 1
      BY <2>2, <3>1
    <3>4. Len(own) \in Nat
      BY <1>6
    <3>5. Len(a) = 1 + Len(own) /\ a \in Seq(Names)
      BY <3>2, <3>3, <3>4
    <3>6. \A i \in 1..1 : a[i] = t[i]
      BY <3>2, <3>3
    <3>7. \A j \in 1..Len(own) : a[j + 1] = own[j]
      BY <3>2, <3>3, <3>4
    <3> QED
      BY Zenon, <3>5, <3>6, <3>7
  <2>4. f # Class => own[1] = f /\ 1 \in 1..Len(own)
    BY <1>6
  <2> QED
    BY <2>2, <2>3, <2>4
<1>9. /\ b \in Seq(Names) /\ Len(b) = Len(a) + Len(ps) /\ Len(ps) \in Nat /\ Len(a) \in Nat
      /\ \A i \in 1..Len(a) : b[i] = a[i]
      /\ \A j \in 1..Len(ps) : b[j + Len(a)] = ps[j]
  BY <1>5, <1>7, <1>8
<1>10. /\ c \in Seq(Names) /\ Len(c) = Len(b) + Len(vs) /\ Len(vs) \in Nat /\ Len(b) \in Nat
       /\ \A i \in 1..Len(b) : c[i] = b[i]
  BY <1>5, <1>7, <1>9
<1>11. /\ d \in Seq(Names) /\ Len(d) = Len(c) + Len(ns) /\ Len(ns) \in Nat /\ Len(c) \in Nat
       /\ \A i \in 1..Len(c) : d[i] = c[i]
       /\ \A i \in 1..Len(ns) : d[i + Len(c)] = ns[i]
  BY <1>4, <1>7, <1>10
<1>12. d = Symbols[f]
  BY <1>2, <1>7
<1>13. 1 \in 1..Len(a) /\ (f # Class => Len(a) = 2)
  <2>1. Len(own) = 0 \/ Len(own) = 1
    BY <1>6
  <2>2. f # Class => Len(own) = 1
    BY <1>6
  <2>3. PICK k, l : k = Len(own) /\ l = Len(a)
    OBVIOUS
  <2>4. (k = 0 \/ k = 1) /\ (f # Class => k = 1)
    BY <2>1, <2>2, <2>3
  <2>5. l = 1 + k
    BY Zenon, <1>8, <2>3
  <2>6. 1 \in 1..l /\ (f # Class => l = 2)
    BY <2>4, <2>5
  <2> QED
    BY Zenon, <2>3, <2>6
<1>14. d \in Seq(Names) /\ Len(d) \in Nat \ {0} /\ d[1] = "this"
  BY <1>8, <1>9, <1>10, <1>11, <1>13
<1>15. ASSUME f # Class
       PROVE  /\ d[2] = f
              /\ \A j \in 1..Len(ps) : j + 2 \in 1..Len(d) /\ d[j + 2] = ps[j]
              /\ \A n \in Nested[f] : \E i \in 1..Len(d) : d[i] = n /\ i > Len(ps) + 2
  <2>1. Len(a) = 2 /\ a[2] = f
    BY <1>8, <1>13, <1>15
  <2>2. d[2] = f
    BY <1>9, <1>10, <1>11, <2>1
  <2>3. ASSUME NEW j \in 1..Len(ps) PROVE j + 2 \in 1..Len(d) /\ d[j + 2] = ps[j]
    <3>1. j + 2 \in 1..Len(b) /\ b[j + 2] = ps[j]
      BY <1>9, <2>1
    <3> QED
      BY <1>10, <1>11, <3>1
  <2>4. ASSUME NEW n \in Nested[f] PROVE \E i \in 1..Len(d) : d[i] = n /\ i > Len(ps) + 2
    <3>1. PICK i \in 1..Len(ns) : ns[i] = n
      BY <1>4
    <3>2. i + Len(c) \in 1..Len(d) /\ d[i + Len(c)] = n /\ i + Len(c) > Len(ps) + 2
      BY <1>9, <1>10, <1>11, <2>1, <3>1
    <3> QED
      BY <3>2
  <2> QED
    BY <2>2, <2>3, <2>4
<1> QED
  BY <1>1, <1>12, <1>14, <1>15

\* Each symbol of a function has the register of its place, and no other symbol has it
\* (AddressCalculator.cpp:22-25, FunctionKind.cpp:47-53).
LEMMA Registers ==
  ASSUME NEW f \in Functions
  PROVE  /\ Own[f] \subseteq Names /\ Bound[f] = Own[f] \ {"this"}
         /\ \A n \in Own[f] : Register[f][n] \in 1..Len(Symbols[f]) /\ Symbols[f][Register[f][n]] = n
         /\ \A i \in 1..Len(Symbols[f]) : Symbols[f][i] \in Own[f] /\ Register[f][Symbols[f][i]] = i
<1>1. Symbols[f] \in Seq(Names) /\ DOMAIN Symbols[f] = 1..Len(Symbols[f])
  BY SymbolPlaces
<1>2. IsInjective(Symbols[f])
  BY FieldsAssumption
<1>3. Own[f] = {Symbols[f][i] : i \in 1..Len(Symbols[f])} /\ Bound[f] = Own[f] \ {"this"}
  BY <1>1 DEF Own, ToSet, Bound
<1>4. \A n \in Own[f] : Register[f][n] = CHOOSE i \in 1..Len(Symbols[f]) : Symbols[f][i] = n
  BY <1>1 DEF Register
<1>5. \A n \in Own[f] : Register[f][n] \in 1..Len(Symbols[f]) /\ Symbols[f][Register[f][n]] = n
  BY <1>3, <1>4
<1>6. ASSUME NEW i \in 1..Len(Symbols[f])
      PROVE  Symbols[f][i] \in Own[f] /\ Register[f][Symbols[f][i]] = i
  <2>1. Symbols[f][i] \in Own[f]
    BY <1>3
  <2>2. PICK j : j = Register[f][Symbols[f][i]]
    OBVIOUS
  <2>3. j \in 1..Len(Symbols[f]) /\ Symbols[f][j] = Symbols[f][i]
    BY <1>5, <2>1, <2>2
  <2> QED
    BY <1>1, <1>2, <2>1, <2>2, <2>3 DEF IsInjective
<1>7. Own[f] \subseteq Names
  BY <1>1, <1>3
<1> QED
  BY <1>3, <1>5, <1>6, <1>7

(***************************************************************************)
(* Symbol tables                                                           *)
(***************************************************************************)

\* The table of the first k symbols of f.
TableOf(m, f, k) ==
  /\ IsMap(m, Nat) /\ ~ m.is_immutable
  /\ \A n \in Names : map_has(m, n) <=> \E i \in 1..k : Symbols[f][i] = n
  /\ \A i \in 1..k : /\ map_get(m, Symbols[f][i]) = i
                     /\ map_get_flags(m, Symbols[f][i]) = SymbolFlags(f, Symbols[f][i])

\* One more symbol is one more entry (object.c:264-276).
LEMMA TableGrows ==
  ASSUME NEW f \in Functions, NEW k \in 1..Len(Symbols[f]), NEW m, TableOf(m, f, k - 1)
  PROVE  TableOf(map_insert_flags(m, Symbols[f][k], k, SymbolFlags(f, Symbols[f][k])), f, k)
<1>1. PICK w : w = map_insert_flags(m, Symbols[f][k], k, SymbolFlags(f, Symbols[f][k]))
  OBVIOUS
<1>2. PICK s : s = Symbols[f]
  OBVIOUS
<1>3. /\ s \in Seq(Names) /\ Len(s) \in Nat /\ k \in 1..Len(s) /\ k \in Nat
      /\ \A i, j \in 1..Len(s) : s[i] = s[j] => i = j
      /\ \A i \in 1..Len(s) : s[i] \in Names
  <2>1. s \in Seq(Names) /\ DOMAIN s = 1..Len(s) /\ Len(s) \in Nat
    BY <1>2, SymbolPlaces
  <2>2. IsInjective(s)
    BY <1>2, FieldsAssumption
  <2> QED
    BY <1>2, <2>1, <2>2 DEF IsInjective
<1>4. Inserted(m, w, s[k], k, SymbolFlags(f, s[k]), Nat)
  <2>1. SymbolFlags(f, s[k]) \in Flags
    BY DEF SymbolFlags, Flags
  <2> QED
    BY <1>1, <1>2, <1>3, <2>1, MapInsert DEF TableOf
<1>5. \A i \in 1..k : i = k \/ i \in 1..(k - 1)
  BY <1>3
<1>6. \A n \in Names : map_has(w, n) <=> \E i \in 1..k : s[i] = n
  <2>1. \A n \in Names : map_has(w, n) <=> n = s[k] \/ \E i \in 1..(k - 1) : s[i] = n
    BY <1>2, <1>4 DEF Inserted, TableOf
  <2>2. \A n : (\E i \in 1..k : s[i] = n) <=> n = s[k] \/ \E i \in 1..(k - 1) : s[i] = n
    BY <1>3, <1>5
  <2> QED
    BY <2>1, <2>2
<1>7. ASSUME NEW i \in 1..k
      PROVE  map_get(w, s[i]) = i /\ map_get_flags(w, s[i]) = SymbolFlags(f, s[i])
  <2>1. CASE i = k
    BY <1>4, <2>1 DEF Inserted
  <2>2. CASE i # k
    <3>1. i \in 1..(k - 1) /\ s[i] # s[k] /\ s[i] \in Names
      BY <1>3, <1>5, <2>2
    <3> QED
      BY <1>2, <1>4, <3>1 DEF Inserted, TableOf
  <2> QED
    BY <2>1, <2>2
<1>8. IsMap(w, Nat) /\ ~ w.is_immutable
  BY <1>4 DEF Inserted
<1> QED
  BY <1>1, <1>2, <1>6, <1>7, <1>8 DEF TableOf

\* The symbol table of a function maps its symbols to their registers
\* (object.c:259-278).
LEMMA TablesAreSymbols ==
  ASSUME NEW f \in Functions
  PROVE  TableOf(SymbolTable[f], f, Len(Symbols[f]))
<1> DEFINE N          == Len(Symbols[f])
           Value(g, i) == IF i = 0 THEN map_new
                          ELSE map_insert_flags(g[i - 1], Symbols[f][i], i, SymbolFlags(f, Symbols[f][i]))
           Is(g)       == g = [i \in 0..N |-> Value(g, i)]
           Upto(g, k)  == \A i \in 0..k : g[i] = Value(g, i) /\ TableOf(g[i], f, i)
           Has(k)      == \E g : g = [i \in 0..k |-> g[i]] /\ Upto(g, k)
           Bad         == {k \in 0..N : ~ Has(k)}
<1>1. N \in Nat
  BY SymbolPlaces
<1> HIDE DEF N
<1>2. Has(0)
  <2>1. PICK g : g = [i \in 0..0 |-> map_new]
    OBVIOUS
  <2>2. TableOf(map_new, f, 0)
    BY NewIsMap DEF TableOf
  <2>3. g = [i \in 0..0 |-> g[i]] /\ Upto(g, 0)
    BY <2>1, <2>2
  <2> QED
    BY <2>3
<1>3. ASSUME NEW k \in 1..N, Has(k - 1)
      PROVE  Has(k)
  <2>1. PICK h : h = [i \in 0..(k - 1) |-> h[i]] /\ Upto(h, k - 1)
    BY <1>3
  <2>2. PICK w : w = map_insert_flags(h[k - 1], Symbols[f][k], k, SymbolFlags(f, Symbols[f][k]))
    OBVIOUS
  <2>3. PICK g : g = [i \in 0..k |-> IF i = k THEN w ELSE h[i]]
    OBVIOUS
  <2>4. k - 1 \in 0..(k - 1) /\ TableOf(h[k - 1], f, k - 1)
    <3>1. k - 1 \in 0..(k - 1)
      BY <1>1
    <3> QED
      BY <2>1, <3>1
  <2>5. TableOf(w, f, k)
    BY <2>2, <2>4, TableGrows DEF N
  <2>6. k \in 0..k /\ g[k] = w /\ \A i \in 0..(k - 1) : g[i] = h[i]
    BY <1>1, <2>3
  <2>7. ASSUME NEW i \in 0..k PROVE g[i] = Value(g, i) /\ TableOf(g[i], f, i)
    <3>1. CASE i = k
      BY <1>1, <2>2, <2>4, <2>5, <2>6, <3>1
    <3>2. CASE i # k
      <4>1. i \in 0..(k - 1) /\ (i # 0 => i - 1 \in 0..(k - 1))
        BY <1>1, <3>2
      <4>2. h[i] = Value(h, i) /\ TableOf(h[i], f, i)
        BY <2>1, <4>1
      <4> QED
        BY <2>6, <4>1, <4>2
    <3> QED
      BY <3>1, <3>2
  <2>8. g = [i \in 0..k |-> g[i]]
    BY <2>3
  <2> QED
    BY <2>7, <2>8
<1>4. Bad = {}
  <2> HIDE DEF Has
  <2>1. SUFFICES ASSUME Bad # {} PROVE FALSE
    OBVIOUS
  <2>2. PICK k \in Bad : \A j \in Bad : k <= j
    <3>1. Bad \in SUBSET Nat
      BY <1>1
    <3> HIDE DEF Bad
    <3> QED
      BY <2>1, <3>1, LeastNatural
  <2>3. k \in 0..N /\ ~ Has(k) /\ k # 0
    BY <1>2, <2>2
  <2>4. k \in 1..N /\ k - 1 \in 0..N /\ k - 1 \notin Bad
    BY <1>1, <2>2, <2>3
  <2>5. Has(k - 1)
    BY <2>4
  <2> QED
    BY <1>3, <2>3, <2>4, <2>5
<1>5. N \in 0..N /\ N \notin Bad
  BY <1>1, <1>4
<1>6. PICK h : h = [i \in 0..N |-> h[i]] /\ Upto(h, N)
  BY <1>5
<1>7. PICK g : g = CHOOSE x : Is(x)
  OBVIOUS
<1>8. build_symbol_table(f) = g[N]
  BY <1>7 DEF build_symbol_table, N
<1>9. Is(g)
  <2>1. Is(h)
    BY <1>6
  <2> HIDE DEF Is
  <2> QED
    BY <1>7, <2>1
<1>10. \A i \in 0..N : g[i] = Value(g, i)
  BY <1>9
<1> DEFINE Wrong == {k \in 0..N : ~ TableOf(g[k], f, k)}
<1>11. Wrong = {}
  <2>1. SUFFICES ASSUME Wrong # {} PROVE FALSE
    OBVIOUS
  <2>2. PICK k \in Wrong : \A j \in Wrong : k <= j
    <3>1. Wrong \in SUBSET Nat
      BY <1>1
    <3> HIDE DEF Wrong
    <3> QED
      BY <2>1, <3>1, LeastNatural
  <2>3. k \in 0..N /\ ~ TableOf(g[k], f, k)
    BY <2>2
  <2>4. CASE k = 0
    BY <1>10, <2>3, <2>4, NewIsMap DEF TableOf
  <2>5. CASE k # 0
    <3>1. k \in 1..N /\ k - 1 \in 0..N /\ k - 1 \notin Wrong
      BY <1>1, <2>2, <2>3, <2>5
    <3>2. TableOf(g[k - 1], f, k - 1)
      BY <3>1
    <3>3. g[k] = map_insert_flags(g[k - 1], Symbols[f][k], k, SymbolFlags(f, Symbols[f][k]))
      BY <1>10, <2>3, <2>5
    <3> QED
      BY <2>3, <3>1, <3>2, <3>3, TableGrows DEF N
  <2> QED
    BY <2>4, <2>5
<1>12. TableOf(g[N], f, N)
  BY <1>5, <1>11
<1>13. SymbolTable[f] = build_symbol_table(f)
  BY DEF SymbolTable
<1> QED
  BY <1>8, <1>12, <1>13 DEF N

(***************************************************************************)
(* The invariant                                                           *)
(***************************************************************************)

\* What registers and maps hold while there are N contexts: references are to
\* functions other than the class, made in one of these contexts.
Stored(N) == ToSet(Values) \cup {Zero} \cup [fn : Functions \ {Class}, parent : 1..N]
               \cup [class : Names] \cup [native : Names]

\* A context has a register for each symbol of its function; it is younger than
\* the one that the function comes from and than the one that called it.
ContextOK(c) ==
  /\ contexts[c] = [fn |-> contexts[c].fn, parent_context |-> contexts[c].parent_context,
                    return_context |-> contexts[c].return_context, locals |-> contexts[c].locals]
  /\ contexts[c].fn \in Functions
  /\ contexts[c].parent_context \in 0..(c - 1)
  /\ contexts[c].return_context \in 0..(c - 1)
  /\ contexts[c].locals \in [0..Len(Symbols[contexts[c].fn]) -> Stored(Len(contexts))]

VariablesOK(m) == /\ IsMap(m, Stored(Len(contexts))) /\ ~ m.is_immutable
                  /\ \A n \in Names : map_has(m, n) => n \in Assignable

FieldsInv ==
  /\ IsSequence(contexts) /\ Root \in DOMAIN contexts /\ contexts[Root].fn = Class
  /\ \A c \in DOMAIN contexts : ContextOK(c)
  /\ current_context \in DOMAIN contexts
  /\ VariablesOK(synchronized_variables) /\ VariablesOK(static_variables)
  /\ writes \in Nat

\* The contexts are a sequence, their parents a chain.
LEMMA ContextFacts ==
  ASSUME FieldsInv
  PROVE  /\ Len(contexts) \in Nat \ {0} /\ DOMAIN contexts = 1..Len(contexts) /\ contexts = [c \in 1..Len(contexts) |-> contexts[c]]
         /\ IsChain(Parent, Len(contexts))
         /\ \A c \in 1..Len(contexts) : Parent[c] = contexts[c].parent_context /\ contexts[c].fn \in Functions
         /\ current_context \in 1..Len(contexts)
<1>1. \A S, q : q \in Seq(S) => Len(q) \in Nat /\ DOMAIN q = 1..Len(q) /\ q = [c \in 1..Len(q) |-> q[c]]
  OBVIOUS
<1>2. Len(contexts) \in Nat /\ DOMAIN contexts = 1..Len(contexts) /\ contexts = [c \in 1..Len(contexts) |-> contexts[c]]
  BY <1>1 DEF FieldsInv, IsSequence
<1>3. 1 \in 1..Len(contexts)
  BY <1>2 DEF FieldsInv, Root
<1>4. \A c \in 1..Len(contexts) : contexts[c].parent_context \in 0..(c - 1) /\ contexts[c].fn \in Functions
  BY <1>2 DEF FieldsInv, ContextOK
<1>5. DOMAIN Parent = 1..Len(contexts) /\ \A c \in 1..Len(contexts) : Parent[c] = contexts[c].parent_context
  BY <1>2 DEF Parent
<1> QED
  BY <1>2, <1>3, <1>4, <1>5 DEF FieldsInv, IsChain

\* A lookup in the table of a context finds the register of the name, if the
\* function has one (interpreter_dd.c:694-710).
LEMMA TableFacts ==
  ASSUME FieldsInv, NEW c \in 1..Len(contexts), NEW n \in Names
  PROVE  /\ map_has(Table(c), n) <=> n \in Own[contexts[c].fn]
         /\ n \in Own[contexts[c].fn] =>
              /\ map_get(Table(c), n) = Register[contexts[c].fn][n]
              /\ FieldIn(c, n) = contexts[c].locals[Register[contexts[c].fn][n]]
              /\ FieldIn(c, n) \in Stored(Len(contexts))
<1>1. PICK f : f = contexts[c].fn
  OBVIOUS
<1>2. f \in Functions /\ DOMAIN contexts = 1..Len(contexts)
  BY <1>1, ContextFacts
<1>3. TableOf(SymbolTable[f], f, Len(Symbols[f])) /\ Table(c) = SymbolTable[f]
  BY <1>1, <1>2, TablesAreSymbols DEF Table
<1>4. map_has(Table(c), n) <=> \E i \in 1..Len(Symbols[f]) : Symbols[f][i] = n
  BY <1>3 DEF TableOf
<1>5. map_has(Table(c), n) <=> n \in Own[f]
  BY <1>2, <1>4, Registers
<1>6. ASSUME n \in Own[f]
      PROVE  /\ map_get(Table(c), n) = Register[f][n] /\ FieldIn(c, n) = contexts[c].locals[Register[f][n]]
             /\ FieldIn(c, n) \in Stored(Len(contexts))
  <2>1. PICK i : i = Register[f][n]
    OBVIOUS
  <2>2. i \in 1..Len(Symbols[f]) /\ Symbols[f][i] = n
    BY <1>2, <1>6, <2>1, Registers
  <2>3. map_get(Table(c), n) = i
    BY <1>3, <2>2 DEF TableOf
  <2>4. contexts[c].locals \in [0..Len(Symbols[f]) -> Stored(Len(contexts))]
    BY <1>1, <1>2 DEF FieldsInv, ContextOK
  <2>5. i \in 0..Len(Symbols[f])
    BY <2>2
  <2> QED
    BY <2>1, <2>3, <2>4, <2>5 DEF FieldIn
<1> QED
  BY <1>1, <1>5, <1>6

\* The same for the table of the class, which interpreter_get_field_virtual asks.
LEMMA ClassTable ==
  ASSUME FieldsInv, NEW n \in Names
  PROVE  /\ map_has(SymbolTable[Class], n) <=> n \in Own[Class]
         /\ n \in Own[Class] => /\ PRIVATE \in map_get_flags(SymbolTable[Class], n) <=> n \in Private
                                /\ map_get(SymbolTable[Class], n) = Register[Class][n]
         /\ Table(Root) = SymbolTable[Class] /\ Root \in 1..Len(contexts)
<1>1. Class \in Functions
  BY FieldsAssumption
<1>2. TableOf(SymbolTable[Class], Class, Len(Symbols[Class]))
  BY <1>1, TablesAreSymbols
<1>3. map_has(SymbolTable[Class], n) <=> n \in Own[Class]
  BY <1>1, <1>2, Registers DEF TableOf
<1>4. ASSUME n \in Own[Class]
      PROVE  /\ PRIVATE \in map_get_flags(SymbolTable[Class], n) <=> n \in Private
             /\ map_get(SymbolTable[Class], n) = Register[Class][n]
  <2>1. PICK i : i = Register[Class][n]
    OBVIOUS
  <2>2. i \in 1..Len(Symbols[Class]) /\ Symbols[Class][i] = n
    BY <1>1, <1>4, <2>1, Registers
  <2>3. map_get(SymbolTable[Class], n) = i /\ map_get_flags(SymbolTable[Class], n) = SymbolFlags(Class, n)
    BY <1>2, <2>2 DEF TableOf
  <2> QED
    BY <2>1, <2>3 DEF SymbolFlags, PRIVATE, ENUMERABLE
<1> QED
  BY <1>3, <1>4, ContextFacts DEF Table, FieldsInv

\* The context that a function was written down in is older than those of the
\* function.
LEMMA EnclosingFacts ==
  ASSUME FieldsInv, NEW f
  PROVE  /\ \A c \in 0..Len(contexts) : Enclosing(f, c) \in 0..c
         /\ \A c \in 1..Len(contexts) :
              Enclosing(f, c) = IF contexts[c].fn = f THEN Enclosing(f, contexts[c].parent_context) ELSE c
         /\ \A c \in 1..Len(contexts) :
              contexts[c].fn = f => Enclosing(f, c) \in 0..(c - 1)
<1>1. PICK N : N = Len(contexts)
  OBVIOUS
<1>2. N \in Nat /\ DOMAIN contexts = 1..N /\ IsChain(Parent, N)
      /\ \A c \in 1..N : Parent[c] = contexts[c].parent_context /\ Parent[c] \in 0..(c - 1)
  BY <1>1, ContextFacts DEF IsChain
<1>3. PICK S : S = {d \in DOMAIN contexts : contexts[d].fn # f}
  OBVIOUS
<1>4. \A c : Enclosing(f, c) = Nearest(Parent, S, c)
  BY <1>3 DEF Enclosing
<1>5. \A c \in 0..N : Enclosing(f, c) \in 0..c
  BY <1>2, <1>4, NearestPlace
<1>6. \A c \in 1..N : Enclosing(f, c) = IF contexts[c].fn = f THEN Enclosing(f, contexts[c].parent_context) ELSE c
  <2>1. SUFFICES ASSUME NEW c \in 1..N
                 PROVE  Enclosing(f, c) = IF contexts[c].fn = f THEN Enclosing(f, contexts[c].parent_context) ELSE c
    OBVIOUS
  <2>2. c \in 0..N /\ c # 0 /\ (c \in S <=> contexts[c].fn # f)
    BY <1>2, <1>3
  <2>3. Nearest(Parent, S, c) = IF c = 0 \/ c \in S THEN c ELSE Nearest(Parent, S, Parent[c])
    BY <1>2, <2>2, NearestStep
  <2> QED
    BY <1>2, <1>4, <2>2, <2>3
<1>7. \A c \in 1..N : contexts[c].fn = f => Enclosing(f, c) \in 0..(c - 1)
  <2>1. SUFFICES ASSUME NEW c \in 1..N, contexts[c].fn = f PROVE Enclosing(f, c) \in 0..(c - 1)
    OBVIOUS
  <2>2. PICK p : p = contexts[c].parent_context
    OBVIOUS
  <2>3. p \in 0..(c - 1) /\ p \in 0..N /\ 0..p \subseteq 0..(c - 1)
    BY <1>2, <2>2
  <2> QED
    BY <1>5, <1>6, <2>1, <2>2, <2>3
<1> QED
  BY <1>1, <1>5, <1>6, <1>7

(***************************************************************************)
(* Searching the contexts finds the scope                                  *)
(***************************************************************************)

\* The activations are a sequence, their scopes a chain.
LEMMA ActivationFacts ==
  ASSUME FieldsInv
  PROVE  /\ IsSequence(Activations) /\ Len(Activations) = Len(contexts) /\ DOMAIN Activations = 1..Len(contexts)
         /\ \A c \in 1..Len(contexts) : /\ Activations[c].fn = contexts[c].fn
                                        /\ Activations[c].outer = Enclosing(contexts[c].fn, c)
                                        /\ Activations[c].caller = contexts[c].return_context
                                        /\ Activations[c].vars = [n \in Bound[contexts[c].fn] |->
                                             Meant(contexts[c].locals[Register[contexts[c].fn][n]])]
         /\ IsChain(Scopes!Outer, Len(contexts))
         /\ \A c \in 1..Len(contexts) : Scopes!Outer[c] = Enclosing(contexts[c].fn, c)
<1>1. Len(contexts) \in Nat /\ DOMAIN contexts = 1..Len(contexts)
  BY ContextFacts
<1>2. DOMAIN Activations = 1..Len(contexts) /\ Activations = [c \in 1..Len(contexts) |-> Activations[c]]
  BY <1>1 DEF Activations
<1>3. IsSequence(Activations) /\ Len(Activations) = Len(contexts)
  BY <1>1, <1>2, SequenceIs
<1>4. \A c \in 1..Len(contexts) : /\ Activations[c].fn = contexts[c].fn
                                  /\ Activations[c].outer = Enclosing(contexts[c].fn, c)
                                  /\ Activations[c].caller = contexts[c].return_context
                                  /\ Activations[c].vars = [n \in Bound[contexts[c].fn] |->
                                       Meant(contexts[c].locals[Register[contexts[c].fn][n]])]
  BY <1>1 DEF Activations
<1>5. DOMAIN Scopes!Outer = 1..Len(contexts) /\ \A c \in 1..Len(contexts) : Scopes!Outer[c] = Enclosing(contexts[c].fn, c)
  BY <1>2, <1>4 DEF Scopes!Outer
<1>6. \A c \in 1..Len(contexts) : Scopes!Outer[c] \in 0..(c - 1)
  BY <1>5, EnclosingFacts
<1> QED
  BY <1>1, <1>2, <1>3, <1>4, <1>5, <1>6 DEF IsChain

\* A search for a name that function f does not have passes over the contexts of f.
LEMMA SearchSkips ==
  ASSUME FieldsInv, NEW f \in Functions, NEW n \in Names, n \notin Own[f], NEW c \in 0..Len(contexts)
  PROVE  Search(c, n) = Search(Enclosing(f, c), n)
<1>1. PICK N : N = Len(contexts)
  OBVIOUS
<1>2. N \in Nat /\ DOMAIN contexts = 1..N /\ IsChain(Parent, N)
      /\ \A d \in 1..N : Parent[d] = contexts[d].parent_context /\ Parent[d] \in 0..(d - 1)
  BY <1>1, ContextFacts DEF IsChain
<1>3. PICK S : S = {d \in DOMAIN contexts : map_has(Table(d), n)}
  OBVIOUS
<1>4. \A d : Search(d, n) = Nearest(Parent, S, d)
  BY <1>3 DEF Search
<1>5. \A d \in 1..N : d \in S <=> n \in Own[contexts[d].fn]
  BY <1>1, <1>2, <1>3, TableFacts
<1> DEFINE Bad == {d \in 0..N : Search(d, n) # Search(Enclosing(f, d), n)}
<1> SUFFICES Bad = {}
  BY <1>1
<1>6. SUFFICES ASSUME Bad # {} PROVE FALSE
  OBVIOUS
<1>7. PICK d \in Bad : \A j \in Bad : d <= j
  <2>1. Bad \in SUBSET Nat
    BY <1>2
  <2> HIDE DEF Bad
  <2> QED
    BY <1>6, <2>1, LeastNatural
<1>8. d \in 0..N /\ Search(d, n) # Search(Enclosing(f, d), n)
  BY <1>7
<1>9. CASE d = 0
  <2>1. Enclosing(f, 0) \in 0..0
    BY <1>1, <1>8, <1>9, EnclosingFacts
  <2> QED
    BY <1>8, <1>9, <2>1
<1>10. CASE d # 0
  <2>1. d \in 1..N /\ contexts[d].fn = f
    BY <1>1, <1>2, <1>8, <1>10, EnclosingFacts
  <2>2. d \notin S
    BY <1>5, <2>1
  <2>3. Nearest(Parent, S, d) = Nearest(Parent, S, Parent[d])
    BY <1>2, <1>8, <1>10, <2>2, NearestStep
  <2>4. Parent[d] \in 0..N /\ Parent[d] \notin Bad
    BY <1>2, <1>7, <2>1
  <2>5. Search(Parent[d], n) = Search(Enclosing(f, Parent[d]), n)
    BY <2>4
  <2>6. Enclosing(f, d) = Enclosing(f, Parent[d])
    BY <1>1, <1>2, <2>1, EnclosingFacts
  <2> QED
    BY <1>4, <1>8, <2>3, <2>5, <2>6
<1> QED
  BY <1>9, <1>10

\* GET_FIELD and SET_FIELD find the variable that the text says
\* (interpreter_dd.c:691-712, 797-829).
LEMMA SearchIsScope ==
  ASSUME FieldsInv, NEW n \in Names \ {"this"}, NEW c \in 0..Len(contexts)
  PROVE  Search(c, n) = Scopes!Scope(c, n)
<1>1. PICK N : N = Len(contexts)
  OBVIOUS
<1>2. /\ N \in Nat /\ DOMAIN contexts = 1..N /\ IsChain(Parent, N)
      /\ \A d \in 1..N : Parent[d] = contexts[d].parent_context /\ Parent[d] \in 0..(d - 1) /\ contexts[d].fn \in Functions
  BY <1>1, ContextFacts DEF IsChain
<1>3. /\ DOMAIN Activations = 1..N /\ IsChain(Scopes!Outer, N)
      /\ \A d \in 1..N : Activations[d].fn = contexts[d].fn /\ Scopes!Outer[d] = Enclosing(contexts[d].fn, d)
  BY <1>1, ActivationFacts
<1>4. PICK S, T, O : /\ S = {d \in DOMAIN contexts : map_has(Table(d), n)}
                     /\ T = {b \in DOMAIN Activations : n \in Bound[Activations[b].fn]}
                     /\ O = Scopes!Outer
  OBVIOUS
<1>5. \A d : Search(d, n) = Nearest(Parent, S, d) /\ Scopes!Scope(d, n) = Nearest(O, T, d)
  <2>1. ASSUME NEW d PROVE Search(d, n) = Nearest(Parent, S, d)
    BY Zenon, <1>4 DEF Search
  <2>2. ASSUME NEW d PROVE Scopes!Scope(d, n) = Nearest(O, T, d)
    <3>1. Scopes!Nearest(O, T, d) = Nearest(O, T, d)
      BY DEF Scopes!Nearest, Nearest
    <3> QED
      BY Zenon, <1>4, <3>1 DEF Scopes!Scope
  <2> QED
    BY Zenon, <2>1, <2>2
<1>6. \A d \in 1..N : (d \in S <=> n \in Own[contexts[d].fn]) /\ (d \in T <=> n \in Own[contexts[d].fn])
  <2>1. SUFFICES ASSUME NEW d \in 1..N
                 PROVE  (d \in S <=> n \in Own[contexts[d].fn]) /\ (d \in T <=> n \in Own[contexts[d].fn])
    OBVIOUS
  <2>2. d \in S <=> n \in Own[contexts[d].fn]
    BY <1>1, <1>2, <1>4, TableFacts
  <2>3. d \in T <=> n \in Bound[contexts[d].fn]
    BY <1>3, <1>4
  <2>4. Bound[contexts[d].fn] = Own[contexts[d].fn] \ {"this"}
    BY <1>2, Registers
  <2> QED
    BY <2>2, <2>3, <2>4
<1> DEFINE Bad == {d \in 0..N : Nearest(Parent, S, d) # Nearest(O, T, d)}
<1> SUFFICES Bad = {}
  BY <1>1, <1>5
<1>7. SUFFICES ASSUME Bad # {} PROVE FALSE
  OBVIOUS
<1>8. PICK d \in Bad : \A j \in Bad : d <= j
  <2>1. Bad \in SUBSET Nat
    BY <1>2
  <2> HIDE DEF Bad
  <2> QED
    BY <1>7, <2>1, LeastNatural
<1>9. d \in 0..N /\ Nearest(Parent, S, d) # Nearest(O, T, d)
  BY <1>8
<1>10. Nearest(Parent, S, d) = IF d = 0 \/ d \in S THEN d ELSE Nearest(Parent, S, Parent[d])
  BY <1>2, <1>9, NearestStep
<1>11. Nearest(O, T, d) = IF d = 0 \/ d \in T THEN d ELSE Nearest(O, T, O[d])
  BY <1>3, <1>4, <1>9, NearestStep
<1>12. d # 0 /\ d \in 1..N /\ d \notin S /\ d \notin T
  BY <1>2, <1>6, <1>9, <1>10, <1>11
<1>13. PICK f : f = contexts[d].fn
  OBVIOUS
<1>14. f \in Functions /\ n \notin Own[f] /\ O[d] = Enclosing(f, d)
  BY <1>2, <1>3, <1>4, <1>6, <1>12, <1>13
<1>15. Search(d, n) = Search(O[d], n)
  BY <1>1, <1>9, <1>14, SearchSkips
<1>16. O[d] \in 0..(d - 1)
  BY <1>1, <1>12, <1>13, <1>14, EnclosingFacts
<1>17. O[d] \in 0..N /\ O[d] \notin Bad
  BY <1>2, <1>8, <1>12, <1>16
<1>18. Nearest(Parent, S, O[d]) = Nearest(O, T, O[d])
  BY <1>17
<1> QED
  <2>1. Search(d, n) = Nearest(Parent, S, d) /\ Search(O[d], n) = Nearest(Parent, S, O[d])
    BY Zenon, <1>5
  <2>2. Nearest(O, T, d) = Nearest(O, T, O[d])
    BY Zenon, <1>11, <1>12
  <2> QED
    BY Zenon, <1>9, <1>15, <1>18, <2>1, <2>2

(***************************************************************************)
(* Reading                                                                 *)
(***************************************************************************)

\* What values and references mean.
LEMMA MeantCases ==
  /\ \A v \in ToSet(Values) \cup {Zero, Thrown} : Meant(v) = v
  /\ \A v \in FunctionRefs : Meant(v) = [fn |-> v.fn, outer |-> Enclosing(v.fn, v.parent)]
  /\ \A n \in Names : Meant([class |-> n]) = [global |-> n] /\ Meant([native |-> n]) = [global |-> n]
<1>1. ASSUME NEW v \in ToSet(Values) \cup {Zero, Thrown} PROVE Meant(v) = v
  <2>1. v \notin FunctionRefs /\ v \notin [class : Names] /\ v \notin [native : Names]
    BY FieldsAssumption
  <2> QED
    BY <2>1 DEF Meant
<1>2. ASSUME NEW n \in Names
      PROVE  Meant([class |-> n]) = [global |-> n] /\ Meant([native |-> n]) = [global |-> n]
  <2>1. PICK c : c = [class |-> n]
    OBVIOUS
  <2>2. c \in [class : Names] /\ c.class = n
    BY <2>1
  <2>3. DOMAIN c = {"class"}
    BY <2>1
  <2>4. \A v \in FunctionRefs : DOMAIN v = {"fn", "parent"}
    BY DEF FunctionRefs
  <2>5. c \notin FunctionRefs
    BY <2>3, <2>4
  <2>6. Meant(c) = [global |-> n]
    BY <2>2, <2>5 DEF Meant
  <2>7. PICK w : w = [native |-> n]
    OBVIOUS
  <2>8. w \in [native : Names] /\ w.native = n /\ DOMAIN w = {"native"}
    BY <2>7
  <2>9. \A v \in [class : Names] : DOMAIN v = {"class"}
    OBVIOUS
  <2>10. w \notin FunctionRefs /\ w \notin [class : Names]
    BY <2>4, <2>8, <2>9
  <2>11. Meant(w) = [global |-> n]
    BY <2>8, <2>10 DEF Meant
  <2> QED
    BY <2>1, <2>6, <2>7, <2>11
<1>3. ASSUME NEW v \in FunctionRefs PROVE Meant(v) = [fn |-> v.fn, outer |-> Enclosing(v.fn, v.parent)]
  <2>1. DOMAIN v = {"fn", "parent"}
    BY DEF FunctionRefs
  <2>2. \A w \in [class : Names] : DOMAIN w = {"class"}
    OBVIOUS
  <2>3. \A w \in [native : Names] : DOMAIN w = {"native"}
    OBVIOUS
  <2>4. v \notin [class : Names] /\ v \notin [native : Names]
    BY <2>1, <2>2, <2>3
  <2> QED
    BY <2>4 DEF Meant
<1> QED
  BY <1>1, <1>2, <1>3

\* No value means that there is no variable.
LEMMA MeantIsSomething ==
  ASSUME FieldsInv, NEW v \in Stored(Len(contexts))
  PROVE  Meant(v) # NULL
<1>1. CASE v \in ToSet(Values) \cup {Zero}
  BY <1>1, MeantCases, FieldsAssumption
<1>2. CASE v \in [fn : Functions \ {Class}, parent : 1..Len(contexts)]
  <2>1. v \in FunctionRefs /\ v.fn \in Functions /\ v.parent \in 0..Len(contexts) /\ v.parent \in Nat
    BY <1>2, ContextFacts DEF FunctionRefs
  <2>2. Enclosing(v.fn, v.parent) \in Nat
    BY <2>1, EnclosingFacts
  <2>3. Meant(v) = [fn |-> v.fn, outer |-> Enclosing(v.fn, v.parent)]
    BY <2>1, MeantCases
  <2>4. Meant(v) \in [fn : Functions, outer : Nat]
    BY <2>1, <2>2, <2>3
  <2> QED
    BY <2>4, FieldsAssumption
<1>3. CASE v \in [class : Names] \/ v \in [native : Names]
  <2>1. PICK n \in Names : v = [class |-> n] \/ v = [native |-> n]
    BY <1>3
  <2>2. Meant(v) = [global |-> n]
    BY <2>1, MeantCases
  <2>3. Meant(v) \in [global : Names]
    BY <2>2
  <2> QED
    BY <2>3, FieldsAssumption
<1> QED
  BY <1>1, <1>2, <1>3 DEF Stored

\* What a map of variables means.
LEMMA MapMeans ==
  ASSUME FieldsInv, NEW m, VariablesOK(m), NEW n \in Names
  PROVE  /\ map_has(m, n) => /\ map_get(m, n) \in Stored(Len(contexts)) /\ n \in Assignable
                             /\ MeantIn(m)[n] = Meant(map_get(m, n)) /\ MeantIn(m)[n] # NULL
         /\ ~ map_has(m, n) => MeantIn(m)[n] = NULL
<1>1. ASSUME map_has(m, n)
      PROVE  /\ map_get(m, n) \in Stored(Len(contexts)) /\ n \in Assignable
             /\ MeantIn(m)[n] = Meant(map_get(m, n)) /\ MeantIn(m)[n] # NULL
  <2>1. PICK i : At(m, n, i)
    BY <1>1, HasPlace
  <2>2. map_get(m, n) \in Stored(Len(contexts))
    BY <2>1, Found DEF VariablesOK
  <2>3. MeantIn(m)[n] = Meant(map_get(m, n))
    BY <1>1 DEF MeantIn
  <2>4. Meant(map_get(m, n)) # NULL
    BY <2>2, MeantIsSomething
  <2> QED
    BY <1>1, <2>2, <2>3, <2>4 DEF VariablesOK
<1>2. ~ map_has(m, n) => MeantIn(m)[n] = NULL
  BY DEF MeantIn
<1> QED
  BY <1>1, <1>2

\* The variable n of context c means the variable n of its activation.
LEMMA VariableMeans ==
  ASSUME FieldsInv, NEW c \in 1..Len(contexts), NEW n \in Own[contexts[c].fn] \ {"this"}
  PROVE  /\ Activations[c].vars[n] = Meant(contexts[c].locals[Register[contexts[c].fn][n]])
         /\ Activations[c].vars[n] = Meant(FieldIn(c, n))
<1>1. contexts[c].fn \in Functions
  BY ContextFacts
<1>2. n \in Bound[contexts[c].fn] /\ n \in Names
  BY <1>1, Registers
<1>3. Activations[c].vars = [m \in Bound[contexts[c].fn] |-> Meant(contexts[c].locals[Register[contexts[c].fn][m]])]
  BY ActivationFacts
<1>4. FieldIn(c, n) = contexts[c].locals[Register[contexts[c].fn][n]]
  BY <1>2, TableFacts
<1> QED
  BY <1>2, <1>3, <1>4

\* A lookup by name gives what the name means (interpreter_dd.c:667-737).
LEMMA LookupMeans ==
  ASSUME FieldsInv, NEW n \in Names \ {"this"}
  PROVE  Meant(GetThisField(n)) = Scopes!Meaning(n)
<1>1. PICK a : a = Search(current_context, n)
  OBVIOUS
<1>2. PICK N : N = Len(contexts)
  OBVIOUS
<1>3. /\ N \in Nat /\ current_context \in 1..N /\ current_context \in 0..N /\ IsChain(Parent, N)
      /\ DOMAIN contexts = 1..N /\ \A d \in 1..N : contexts[d].fn \in Functions
  BY <1>2, ContextFacts
<1>4. a \in 0..current_context /\ (a # 0 => a \in 1..N /\ map_has(Table(a), n))
  <2>1. PICK S : S = {d \in DOMAIN contexts : map_has(Table(d), n)}
    OBVIOUS
  <2>2. a = Nearest(Parent, S, current_context)
    BY <1>1, <2>1 DEF Search
  <2>3. a \in 0..current_context /\ (a = 0 \/ a \in S)
    BY <1>3, <2>2, NearestPlace
  <2> QED
    BY <1>3, <2>1, <2>3
<1>5. Scopes!Scope(current_context, n) = a
  BY <1>1, <1>2, <1>3, SearchIsScope
<1>6. PICK sh, st : sh = MeantIn(synchronized_variables) /\ st = MeantIn(static_variables)
  OBVIOUS
<1>7. Scopes!Meaning(n) = CASE a # 0                            -> Activations[a].vars[n]
                            [] a = 0 /\ sh[n] # NULL                  -> sh[n]
                            [] a = 0 /\ sh[n] = NULL /\ st[n] # NULL -> st[n]
                            [] OTHER                            -> [global |-> n]
  BY <1>5, <1>6 DEF Scopes!Meaning
<1>8. /\ map_has(synchronized_variables, n) => /\ n \in Assignable /\ sh[n] # NULL
                                               /\ sh[n] = Meant(map_get(synchronized_variables, n))
      /\ ~ map_has(synchronized_variables, n) => sh[n] = NULL
  BY <1>6, MapMeans DEF FieldsInv
<1>9. /\ map_has(static_variables, n) => /\ n \in Assignable /\ st[n] # NULL
                                         /\ st[n] = Meant(map_get(static_variables, n))
      /\ ~ map_has(static_variables, n) => st[n] = NULL
  BY <1>6, MapMeans DEF FieldsInv
<1>10. a # 0 => n \in Own[contexts[a].fn] /\ n \notin Natives
  BY <1>2, <1>3, <1>4, TableFacts, FieldsAssumption
<1>11. a # 0 => Activations[a].vars[n] = Meant(FieldIn(a, n))
  BY <1>2, <1>4, <1>10, VariableMeans
<1>12. GetThisField(n) = IF n \in Natives                           THEN [native |-> n]
                         ELSE IF a # 0                              THEN FieldIn(a, n)
                         ELSE IF map_has(synchronized_variables, n) THEN map_get(synchronized_variables, n)
                         ELSE IF map_has(static_variables, n)       THEN map_get(static_variables, n)
                         ELSE [class |-> n]
  BY <1>1 DEF GetThisField
<1>13. CASE n \in Natives
  <2>1. n \notin Assignable
    BY <1>13, FieldsAssumption
  <2>2. Scopes!Meaning(n) = [global |-> n]
    BY <1>7, <1>8, <1>9, <1>10, <1>13, <2>1
  <2> QED
    BY <1>12, <1>13, <2>2, MeantCases
<1>14. CASE n \notin Natives /\ a # 0
  BY <1>7, <1>11, <1>12, <1>14
<1>15. CASE n \notin Natives /\ a = 0 /\ map_has(synchronized_variables, n)
  BY <1>7, <1>8, <1>12, <1>15
<1>16. CASE n \notin Natives /\ a = 0 /\ ~ map_has(synchronized_variables, n) /\ map_has(static_variables, n)
  BY <1>7, <1>8, <1>9, <1>12, <1>16
<1>17. CASE n \notin Natives /\ a = 0 /\ ~ map_has(synchronized_variables, n) /\ ~ map_has(static_variables, n)
  <2>1. Scopes!Meaning(n) = [global |-> n]
    BY <1>7, <1>8, <1>9, <1>17
  <2> QED
    BY <1>12, <1>17, <2>1, MeantCases
<1> QED
  BY <1>13, <1>14, <1>15, <1>16, <1>17

\* So does a name in the code of a function (ExprssionCompiler.cpp:140-151).
LEMMA ValueMeans ==
  ASSUME FieldsInv, NEW n \in Names \ {"this"}
  PROVE  Meant(ValueOf(n)) = Scopes!Meaning(n)
<1>1. current_context \in 1..Len(contexts) /\ Fn \in Functions /\ Fn = contexts[current_context].fn
      /\ IsChain(Parent, Len(contexts)) /\ current_context \in 0..Len(contexts) /\ current_context # 0
      /\ DOMAIN contexts = 1..Len(contexts)
  BY ContextFacts DEF Fn
<1>2. CASE n \in Own[Fn]
  <2>1. PICK S : S = {d \in DOMAIN contexts : map_has(Table(d), n)}
    OBVIOUS
  <2>2. current_context \in S
    BY <1>1, <1>2, <2>1, TableFacts
  <2>3. Search(current_context, n) = current_context
    BY <1>1, <2>1, <2>2, NearestStep DEF Search
  <2>4. Scopes!Scope(current_context, n) = current_context
    BY <1>1, <2>3, SearchIsScope
  <2>5. Scopes!Meaning(n) = Activations[current_context].vars[n]
    BY <1>1, <2>4 DEF Scopes!Meaning
  <2>6. ValueOf(n) = contexts[current_context].locals[Register[contexts[current_context].fn][n]]
    BY <1>1, <1>2 DEF ValueOf
  <2> QED
    BY <1>1, <1>2, <2>5, <2>6, VariableMeans
<1>3. CASE n \notin Own[Fn]
  BY <1>3, LookupMeans DEF ValueOf
<1> QED
  BY <1>2, <1>3

\* What a lookup finds can be stored.
LEMMA ValueIsStored ==
  ASSUME FieldsInv, NEW n \in Names \ {"this"}
  PROVE  ValueOf(n) \in Stored(Len(contexts))
<1>1. current_context \in 1..Len(contexts) /\ Fn = contexts[current_context].fn
      /\ IsChain(Parent, Len(contexts)) /\ current_context \in 0..Len(contexts)
      /\ DOMAIN contexts = 1..Len(contexts)
  BY ContextFacts DEF Fn
<1>2. CASE n \in Own[Fn]
  BY <1>1, <1>2, TableFacts DEF ValueOf
<1>3. CASE n \notin Own[Fn]
  <2>1. PICK a : a = Search(current_context, n)
    OBVIOUS
  <2>2. a # 0 => a \in 1..Len(contexts) /\ map_has(Table(a), n)
    <3>1. PICK S : S = {d \in DOMAIN contexts : map_has(Table(d), n)}
      OBVIOUS
    <3>2. a = Nearest(Parent, S, current_context)
      BY <2>1, <3>1 DEF Search
    <3>3. a = 0 \/ a \in S
      BY <1>1, <3>2, NearestPlace
    <3> QED
      BY <1>1, <3>1, <3>3
  <2>3. a # 0 => FieldIn(a, n) \in Stored(Len(contexts))
    BY <2>2, TableFacts
  <2>4. map_has(synchronized_variables, n) => map_get(synchronized_variables, n) \in Stored(Len(contexts))
    BY MapMeans DEF FieldsInv
  <2>5. map_has(static_variables, n) => map_get(static_variables, n) \in Stored(Len(contexts))
    BY MapMeans DEF FieldsInv
  <2>6. [native |-> n] \in Stored(Len(contexts)) /\ [class |-> n] \in Stored(Len(contexts))
    BY DEF Stored
  <2> QED
    BY <1>3, <2>1, <2>3, <2>4, <2>5, <2>6 DEF ValueOf, GetThisField
<1> QED
  BY <1>2, <1>3

\* Every name reads as what it means, from everywhere.
LEMMA ReadsAreMeanings == FieldsInv => ReadsMean
<1>1. SUFFICES ASSUME FieldsInv, NEW n \in Names \ {"this"}
               PROVE  /\ Meant(ValueOf(n)) = Scopes!Meaning(n)
                      /\ n \notin Natives => Meant(GetStatic(n)) = Scopes!StaticMeaning(n)
                      /\ n \notin Natives => \A other \in BOOLEAN : Meant(GetOutside(n, other)) = Scopes!MeaningOutside(n, other)
  BY DEF ReadsMean
<1>2. Meant(Thrown) = Thrown
  BY MeantCases
<1>3. Meant(GetStatic(n)) = Scopes!StaticMeaning(n)
  <2>1. PICK st : st = MeantIn(static_variables)
    OBVIOUS
  <2>2. /\ map_has(static_variables, n) => st[n] # NULL /\ st[n] = Meant(map_get(static_variables, n))
        /\ ~ map_has(static_variables, n) => st[n] = NULL
    BY <1>1, <2>1, MapMeans DEF FieldsInv
  <2>3. Scopes!StaticMeaning(n) = IF st[n] # NULL THEN st[n] ELSE Thrown
    BY <2>1 DEF Scopes!StaticMeaning
  <2> QED
    BY <1>2, <2>2, <2>3 DEF GetStatic
<1>4. ASSUME NEW other \in BOOLEAN
      PROVE  Meant(GetOutside(n, other)) = Scopes!MeaningOutside(n, other)
  <2>1. Root \in 1..Len(contexts) /\ contexts[Root].fn = Class /\ Class \in Functions /\ Root = 1
    BY <1>1, ClassTable, FieldsAssumption DEF FieldsInv, Root
  <2>2. map_has(SymbolTable[Class], n) <=> n \in Own[Class]
    BY <1>1, ClassTable
  <2>3. n \in Own[Class] => (PRIVATE \in map_get_flags(SymbolTable[Class], n) <=> n \in Private)
    BY <1>1, ClassTable
  <2>4. Bound[Class] = Own[Class] \ {"this"}
    BY <2>1, Registers
  <2>5. Scopes!MeaningOutside(n, other) = IF n \in Own[Class] /\ ~ (other /\ n \in Private) THEN Activations[1].vars[n] ELSE Thrown
    BY <2>4 DEF Scopes!MeaningOutside, Scopes!Visible
  <2>6. GetOutside(n, other) = IF n \in Own[Class] /\ ~ (other /\ n \in Private) THEN FieldIn(Root, n) ELSE Thrown
    BY <2>2, <2>3 DEF GetOutside
  <2>7. n \in Own[Class] => Activations[1].vars[n] = Meant(FieldIn(Root, n))
    BY <1>1, <2>1, VariableMeans
  <2> QED
    BY <1>2, <2>5, <2>6, <2>7
<1> QED
  BY <1>1, <1>3, <1>4, ValueMeans

(***************************************************************************)
(* The invariant is inductive                                              *)
(***************************************************************************)

\* Arguments that a function takes: values, one for each parameter; the body of
\* the class begins without any.
Fitting(f, args) == /\ args \in Seq(ToSet(Values))
                    /\ args = <<>> \/ (f # Class /\ Len(args) = Len(Params[f]))

\* What the registers of a new context hold: a reference for each function that
\* is written down in the function and for itself, then the arguments
\* (interpreter_dd.c:999-1022).
LEMMA NewLocals ==
  ASSUME NEW f \in Functions, NEW c, NEW args, Fitting(f, args), NEW i \in 1..Len(Symbols[f])
  PROVE  LET n == Symbols[f][i] IN
         /\ n \in Nested[f] \/ (n = f /\ f # Class) =>
              Locals(f, c, args)[i] = FunctionRef(n, c) /\ ~ \E j \in 1..Len(args) : Params[f][j] = n
         /\ ~ (n \in Nested[f] \/ (n = f /\ f # Class)) =>
              /\ \A j \in 1..Len(args) : Params[f][j] = n => Locals(f, c, args)[i] = args[j] /\ args[j] \in ToSet(Values)
              /\ (~ \E j \in 1..Len(args) : Params[f][j] = n) => Locals(f, c, args)[i] = Zero
<1>1. PICK s : s = Symbols[f]
  OBVIOUS
<1>2. /\ s \in Seq(Names) /\ Len(s) \in Nat /\ DOMAIN s = 1..Len(s) /\ i \in 1..Len(s) /\ i \in 0..Len(s) /\ i > 0
      /\ \A j, k \in 1..Len(s) : s[j] = s[k] => j = k
  BY <1>1, SymbolPlaces, FieldsAssumption DEF IsInjective
<1>3. args \in Seq(ToSet(Values)) /\ Len(args) \in Nat /\ \A j \in 1..Len(args) : args[j] \in ToSet(Values)
  BY DEF Fitting
<1>4. \A j \in 1..Len(args) : /\ f # Class /\ j + 2 \in 1..Len(s) /\ s[j + 2] = Params[f][j]
                              /\ Params[f][j] # f /\ Params[f][j] \notin Nested[f]
  <2>1. SUFFICES ASSUME NEW j \in 1..Len(args)
                 PROVE  /\ f # Class /\ j + 2 \in 1..Len(s) /\ s[j + 2] = Params[f][j]
                        /\ Params[f][j] # f /\ Params[f][j] \notin Nested[f]
    OBVIOUS
  <2>2. f # Class /\ Len(args) = Len(Params[f])
    BY <1>3, <2>1 DEF Fitting
  <2>3. j + 2 \in 1..Len(s) /\ s[j + 2] = Params[f][j] /\ s[2] = f
    BY <1>1, <2>2, SymbolPlaces
  <2>4. 2 \in 1..Len(s) /\ j + 2 # 2
    BY <1>2, <2>3
  <2>5. Params[f][j] # f
    BY <1>2, <2>3, <2>4
  <2>6. ASSUME Params[f][j] \in Nested[f] PROVE FALSE
    <3>1. PICK k \in 1..Len(s) : s[k] = Params[f][j] /\ k > Len(Params[f]) + 2
      BY <1>1, <2>2, <2>6, SymbolPlaces
    <3>2. k = j + 2
      BY <1>2, <2>3, <3>1
    <3> QED
      BY <1>3, <2>2, <3>1, <3>2
  <2> QED
    BY <2>2, <2>3, <2>5, <2>6
<1>5. PICK n : n = s[i]
  OBVIOUS
<1>6. PICK L : L = Locals(f, c, args)
  OBVIOUS
<1>7. L[i] = CASE n \in Nested[f] \cup ({f} \ {Class}) -> FunctionRef(n, c)
               [] i - 2 \in 1..Len(args)               -> args[i - 2]
               [] OTHER                                -> Zero
  BY <1>1, <1>2, <1>5, <1>6 DEF Locals
<1>8. i - 2 \in 1..Len(args) => Params[f][i - 2] = n
  <2>1. SUFFICES ASSUME i - 2 \in 1..Len(args) PROVE Params[f][i - 2] = n
    OBVIOUS
  <2>2. s[(i - 2) + 2] = Params[f][i - 2]
    BY <1>4, <2>1
  <2>3. (i - 2) + 2 = i
    BY <1>2
  <2> QED
    BY <1>5, <2>2, <2>3
<1>9. CASE n \in Nested[f] \/ (n = f /\ f # Class)
  <2>1. ~ \E j \in 1..Len(args) : Params[f][j] = n
    BY <1>4, <1>9
  <2>2. i - 2 \notin 1..Len(args)
    BY <1>8, <2>1
  <2>3. n \in Nested[f] \cup ({f} \ {Class})
    BY <1>9
  <2>4. L[i] = FunctionRef(n, c)
    BY <1>7, <2>2, <2>3
  <2> QED
    BY <1>1, <1>5, <1>6, <1>9, <2>1, <2>4
<1>10. CASE ~ (n \in Nested[f] \/ (n = f /\ f # Class))
  <2>1. n \notin Nested[f] \cup ({f} \ {Class})
    BY <1>10
  <2>2. ASSUME NEW j \in 1..Len(args), Params[f][j] = n
        PROVE  L[i] = args[j] /\ args[j] \in ToSet(Values)
    <3>1. j + 2 = i
      BY <1>2, <1>4, <1>5, <2>2
    <3>2. i - 2 = j
      BY <1>3, <3>1
    <3>3. i - 2 \in 1..Len(args)
      BY <3>2
    <3>4. L[i] = args[i - 2]
      BY <1>7, <2>1, <3>3
    <3> QED
      BY <1>3, <3>2, <3>4
  <2>3. ASSUME ~ \E j \in 1..Len(args) : Params[f][j] = n PROVE L[i] = Zero
    <3>1. i - 2 \notin 1..Len(args)
      BY <1>8, <2>3
    <3> QED
      BY <1>7, <2>1, <3>1
  <2> QED
    BY <1>1, <1>5, <1>6, <1>10, <2>2, <2>3
<1> QED
  BY <1>9, <1>10

\* A new context can be stored.
LEMMA NewContextOK ==
  ASSUME NEW f \in Functions, NEW N \in Nat, NEW c \in 1..N, NEW args, Fitting(f, args)
  PROVE  Locals(f, c, args) \in [0..Len(Symbols[f]) -> Stored(N)]
<1>1. PICK L : L = Locals(f, c, args)
  OBVIOUS
<1>2. L = [i \in 0..Len(Symbols[f]) |-> L[i]] /\ Len(Symbols[f]) \in Nat
  BY <1>1, SymbolPlaces DEF Locals
<1>3. ASSUME NEW i \in 1..Len(Symbols[f]) PROVE L[i] \in Stored(N)
  <2>1. PICK n : n = Symbols[f][i]
    OBVIOUS
  <2>2. CASE n \in Nested[f] \/ (n = f /\ f # Class)
    <3>1. n \in Functions \ {Class}
      BY <2>2, FieldsAssumption
    <3>2. L[i] = [fn |-> n, parent |-> c]
      BY <1>1, <2>1, <2>2, NewLocals DEF FunctionRef
    <3> QED
      BY <3>1, <3>2 DEF Stored
  <2>3. CASE ~ (n \in Nested[f] \/ (n = f /\ f # Class))
    <3>1. L[i] \in ToSet(Values) \cup {Zero}
      BY <1>1, <2>1, <2>3, NewLocals
    <3> QED
      BY <3>1 DEF Stored
  <2> QED
    BY <2>2, <2>3
<1>4. L[0] = Zero
  <2>1. 0 \in 0..Len(Symbols[f]) /\ ~ (0 > 0)
    BY <1>2
  <2>2. 0 - 2 \notin 1..Len(args)
    BY DEF Fitting
  <2> QED
    BY <1>1, <2>1, <2>2 DEF Locals
<1>5. \A i \in 0..Len(Symbols[f]) : i = 0 \/ i \in 1..Len(Symbols[f])
  BY <1>2
<1>6. Zero \in Stored(N)
  BY DEF Stored
<1>7. \A i \in 0..Len(Symbols[f]) : L[i] \in Stored(N)
  BY <1>3, <1>4, <1>5, <1>6
<1> QED
  BY <1>1, <1>2, <1>7

\* More contexts can hold more.
LEMMA StoredGrows ==
  ASSUME NEW N \in Nat, NEW M \in Nat, N <= M
  PROVE  Stored(N) \subseteq Stored(M)
<1>1. 1..N \subseteq 1..M
  OBVIOUS
<1>2. [fn : Functions \ {Class}, parent : 1..N] \subseteq [fn : Functions \ {Class}, parent : 1..M]
  BY <1>1
<1> QED
  BY <1>2 DEF Stored

\* A store into a register of a context.
IsStore(c, i, v) == contexts' = [contexts EXCEPT ![c].locals[i] = v]

\* Context y is x but for register i, which holds v.
Changed(y, x, i, v) ==
  /\ y.fn = x.fn /\ y.parent_context = x.parent_context /\ y.return_context = x.return_context
  /\ y.locals = [x.locals EXCEPT ![i] = v]
  /\ y = [fn |-> y.fn, parent_context |-> y.parent_context, return_context |-> y.return_context, locals |-> y.locals]

\* It changes this register and nothing else (interpreter_dd.c:815-820).
LEMMA StoreChanges ==
  ASSUME FieldsInv, NEW c \in 1..Len(contexts), NEW i, NEW v, IsStore(c, i, v)
  PROVE  /\ IsSequence(contexts') /\ Len(contexts') = Len(contexts) /\ DOMAIN contexts' = 1..Len(contexts)
         /\ \A d \in 1..Len(contexts) : d # c => contexts'[d] = contexts[d]
         /\ Changed(contexts'[c], contexts[c], i, v)
<1>1. /\ Len(contexts) \in Nat /\ DOMAIN contexts = 1..Len(contexts)
      /\ contexts = [d \in 1..Len(contexts) |-> contexts[d]]
  BY ContextFacts
<1>2. contexts' = [d \in 1..Len(contexts) |-> IF d = c THEN [contexts[c] EXCEPT !.locals[i] = v] ELSE contexts[d]]
  BY <1>1 DEF IsStore
<1>3. \A d \in 1..Len(contexts) : d # c => contexts'[d] = contexts[d]
  BY <1>2
<1>4. contexts'[c] = [contexts[c] EXCEPT !.locals[i] = v]
  BY <1>2
<1>5. PICK x : x = contexts[c]
  OBVIOUS
<1>6. x = [fn |-> x.fn, parent_context |-> x.parent_context, return_context |-> x.return_context, locals |-> x.locals]
  BY <1>1, <1>5 DEF FieldsInv, ContextOK
<1>7. PICK y : y = contexts'[c]
  OBVIOUS
<1>8. PICK ls : ls = [x.locals EXCEPT ![i] = v]
  OBVIOUS
<1>9. y = [x EXCEPT !.locals = ls]
  BY Zenon, <1>4, <1>5, <1>7, <1>8
<1>10. /\ y.fn = x.fn /\ y.parent_context = x.parent_context /\ y.return_context = x.return_context /\ y.locals = ls
       /\ y = [fn |-> y.fn, parent_context |-> y.parent_context, return_context |-> y.return_context, locals |-> y.locals]
  BY <1>6, <1>9
<1>11. Changed(contexts'[c], contexts[c], i, v)
  BY Zenon, <1>5, <1>7, <1>8, <1>10 DEF Changed
<1>12. contexts' = [d \in 1..Len(contexts) |-> contexts'[d]]
  BY <1>2
<1>13. IsSequence(contexts') /\ Len(contexts') = Len(contexts) /\ DOMAIN contexts' = 1..Len(contexts)
  BY <1>1, <1>12, SequenceIs
<1> QED
  BY <1>3, <1>11, <1>13

\* A store of a value that can be stored keeps the invariant.
LEMMA StoreKeeps ==
  ASSUME FieldsInv, NEW c \in 1..Len(contexts), NEW i \in 0..Len(Symbols[contexts[c].fn]), NEW v \in Stored(Len(contexts)),
         IsStore(c, i, v),
         current_context' = current_context, synchronized_variables' = synchronized_variables,
         static_variables' = static_variables, writes' \in Nat
  PROVE  FieldsInv'
<1>1. /\ Len(contexts) \in Nat /\ DOMAIN contexts = 1..Len(contexts) /\ current_context \in 1..Len(contexts)
      /\ \A d \in 1..Len(contexts) : ContextOK(d)
  BY ContextFacts DEF FieldsInv
<1>2. IsSequence(contexts') /\ Len(contexts') = Len(contexts) /\ DOMAIN contexts' = 1..Len(contexts)
  BY StoreChanges
<1>3. PICK x, ls : x = contexts'[c] /\ ls = contexts'[c].locals
  OBVIOUS
<1>4. /\ x.fn = contexts[c].fn /\ x.parent_context = contexts[c].parent_context
      /\ x.return_context = contexts[c].return_context /\ x.locals = ls /\ ls = [contexts[c].locals EXCEPT ![i] = v]
      /\ x = [fn |-> x.fn, parent_context |-> x.parent_context, return_context |-> x.return_context, locals |-> x.locals]
  <2>1. Changed(contexts'[c], contexts[c], i, v)
    BY StoreChanges
  <2> QED
    BY Zenon, <1>3, <2>1 DEF Changed
<1>5. ls \in [0..Len(Symbols[contexts[c].fn]) -> Stored(Len(contexts))]
  BY <1>1, <1>4 DEF ContextOK
<1>6. ASSUME NEW d \in 1..Len(contexts) PROVE contexts'[d].fn = contexts[d].fn
  <2>1. CASE d = c
    BY <1>3, <1>4, <2>1
  <2>2. CASE d # c
    BY <2>2, StoreChanges
  <2> QED
    BY <2>1, <2>2
<1>7. ASSUME NEW d \in 1..Len(contexts) PROVE ContextOK(d)'
  <2>1. CASE d = c
    <3>1. ContextOK(c)
      BY <1>1
    <3>2. /\ x.fn \in Functions /\ x.parent_context \in 0..(c - 1) /\ x.return_context \in 0..(c - 1)
          /\ x.locals \in [0..Len(Symbols[x.fn]) -> Stored(Len(contexts'))]
      BY <1>2, <1>4, <1>5, <3>1 DEF ContextOK
    <3> QED
      BY <1>3, <1>4, <2>1, <3>2 DEF ContextOK
  <2>2. CASE d # c
    <3>1. contexts'[d] = contexts[d]
      BY <2>2, StoreChanges
    <3> QED
      BY <1>1, <1>2, <3>1 DEF ContextOK
  <2> QED
    BY <2>1, <2>2
<1>8. Root \in 1..Len(contexts) /\ contexts'[Root].fn = Class
  BY <1>1, <1>6 DEF FieldsInv
<1>9. VariablesOK(synchronized_variables)' /\ VariablesOK(static_variables)'
  BY <1>2 DEF FieldsInv, VariablesOK
<1> QED
  BY <1>1, <1>2, <1>7, <1>8, <1>9 DEF FieldsInv, Root

\* An entry of the synchronized or the static variables.
LEMMA InsertKeeps ==
  ASSUME FieldsInv, NEW m, VariablesOK(m), NEW n \in Assignable, NEW v \in Stored(Len(contexts))
  PROVE  /\ VariablesOK(map_insert(m, n, v))
         /\ \A k \in Names : map_has(map_insert(m, n, v), k) <=> k = n \/ map_has(m, k)
         /\ map_get(map_insert(m, n, v), n) = v
         /\ \A k \in Names : k # n => map_get(map_insert(m, n, v), k) = map_get(m, k)
<1>1. PICK w : w = map_insert(m, n, v)
  OBVIOUS
<1>2. n \in Names /\ {ENUMERABLE} \in Flags
  BY FieldsAssumption DEF Flags
<1>3. IsMap(m, Stored(Len(contexts))) /\ ~ m.is_immutable /\ \A k \in Names : map_has(m, k) => k \in Assignable
  BY DEF VariablesOK
<1>4. Inserted(m, w, n, v, {ENUMERABLE}, Stored(Len(contexts)))
  BY <1>1, <1>2, <1>3, MapInsert DEF map_insert
<1>5. /\ IsMap(w, Stored(Len(contexts))) /\ ~ w.is_immutable
      /\ \A k \in Names : map_has(w, k) <=> k = n \/ map_has(m, k)
      /\ map_get(w, n) = v /\ \A k \in Names : k # n => map_get(w, k) = map_get(m, k)
  BY <1>4 DEF Inserted
<1>6. VariablesOK(w)
  BY <1>3, <1>5 DEF VariablesOK
<1> QED
  BY <1>1, <1>5, <1>6

\* What is left alone stays right.
LEMMA RestKeeps ==
  ASSUME FieldsInv, contexts' = contexts, current_context' \in 1..Len(contexts),
         VariablesOK(synchronized_variables'), VariablesOK(static_variables'), writes' \in Nat
  PROVE  FieldsInv'
<1>1. /\ IsSequence(contexts') /\ Root \in DOMAIN contexts' /\ contexts'[Root].fn = Class
      /\ current_context' \in DOMAIN contexts'
  BY ContextFacts DEF FieldsInv
<1>2. ASSUME NEW c \in DOMAIN contexts' PROVE ContextOK(c)'
  BY <1>2 DEF FieldsInv, ContextOK
<1>3. VariablesOK(synchronized_variables)' /\ VariablesOK(static_variables)'
  BY DEF VariablesOK
<1> QED
  BY <1>1, <1>2, <1>3 DEF FieldsInv, Root

\* Where a lookup by name ends.
LEMMA SearchPlace ==
  ASSUME FieldsInv, NEW n \in Names \ {"this"}
  PROVE  LET c == Search(current_context, n) IN
         c # 0 => /\ c \in 1..Len(contexts) /\ n \in Bound[contexts[c].fn] /\ map_get(Table(c), n) = Register[contexts[c].fn][n]
<1>1. PICK c : c = Search(current_context, n)
  OBVIOUS
<1>2. /\ current_context \in 0..Len(contexts) /\ IsChain(Parent, Len(contexts)) /\ DOMAIN contexts = 1..Len(contexts)
      /\ \A d \in 1..Len(contexts) : contexts[d].fn \in Functions
  BY ContextFacts
<1>3. PICK S : S = {d \in DOMAIN contexts : map_has(Table(d), n)}
  OBVIOUS
<1>4. c = Nearest(Parent, S, current_context)
  BY <1>1, <1>3 DEF Search
<1>5. c = 0 \/ c \in S
  BY <1>2, <1>4, NearestPlace
<1>6. c # 0 => c \in 1..Len(contexts) /\ map_has(Table(c), n)
  BY <1>2, <1>3, <1>5
<1>7. c # 0 => n \in Own[contexts[c].fn] /\ map_get(Table(c), n) = Register[contexts[c].fn][n] /\ contexts[c].fn \in Functions
  BY <1>2, <1>6, TableFacts
<1>8. c # 0 => n \in Bound[contexts[c].fn]
  BY <1>7, Registers
<1> QED
  BY <1>1, <1>6, <1>7, <1>8

\* What a program assigns.
LEMMA NextValueIs ==
  ASSUME FieldsInv, writes < Len(Values)
  PROVE  NextValue \in ToSet(Values) /\ NextValue \in Stored(Len(contexts)) /\ writes + 1 \in Nat
<1>1. Values \in Seq(ToSet(Values)) /\ writes \in Nat
  BY FieldsAssumption DEF FieldsInv
<1>2. NextValue \in ToSet(Values)
  BY <1>1 DEF NextValue
<1> QED
  BY <1>1, <1>2 DEF Stored

\* The new object: one context, of the body of the class, and no variables.
LEMMA InitInv == FieldsInit => FieldsInv
<1>1. SUFFICES ASSUME FieldsInit PROVE FieldsInv
  OBVIOUS
<1>2. PICK x : x = NewContext(Class, 1, 0, 0, <<>>)
  OBVIOUS
<1>3. PICK ls : ls = Locals(Class, 1, <<>>)
  OBVIOUS
<1>4. /\ x = [fn |-> x.fn, parent_context |-> x.parent_context, return_context |-> x.return_context, locals |-> x.locals]
      /\ x.fn = Class /\ x.parent_context = 0 /\ x.return_context = 0 /\ x.locals = ls
  BY <1>2, <1>3 DEF NewContext
<1>5. contexts = <<x>> /\ contexts = [i \in 1..1 |-> contexts[i]] /\ contexts[1] = x
  BY <1>1, <1>2 DEF FieldsInit
<1>6. IsSequence(contexts) /\ Len(contexts) = 1 /\ DOMAIN contexts = 1..1
  BY <1>5, SequenceIs
<1>7. Class \in Functions /\ Fitting(Class, <<>>)
  BY FieldsAssumption DEF Fitting
<1>8. ls \in [0..Len(Symbols[Class]) -> Stored(1)]
  BY <1>3, <1>7, NewContextOK
<1>9. ContextOK(1)
  BY <1>4, <1>5, <1>6, <1>7, <1>8 DEF ContextOK
<1>10. \A c \in DOMAIN contexts : ContextOK(c)
  BY <1>6, <1>9
<1>11. VariablesOK(map_new)
  BY NewIsMap DEF VariablesOK
<1>12. VariablesOK(synchronized_variables) /\ VariablesOK(static_variables) /\ writes \in Nat /\ current_context = 1
  BY <1>1, <1>11 DEF FieldsInit
<1> QED
  BY <1>4, <1>5, <1>6, <1>10, <1>12 DEF FieldsInv, Root

\* A function reference that is called: its function is not the body of the class,
\* and the context it comes from exists.
LEMMA RefFacts ==
  ASSUME FieldsInv, NEW v \in Stored(Len(contexts)), v \in FunctionRefs
  PROVE  /\ v.fn \in Functions \ {Class} /\ v.parent \in 1..Len(contexts)
         /\ v = [fn |-> v.fn, parent |-> v.parent]
<1>1. v \notin ToSet(Values) \cup {Zero}
  BY FieldsAssumption
<1>2. DOMAIN v = {"fn", "parent"}
  BY DEF FunctionRefs
<1>3. v \notin [class : Names] /\ v \notin [native : Names]
  <2>1. \A w \in [class : Names] : DOMAIN w = {"class"}
    OBVIOUS
  <2>2. \A w \in [native : Names] : DOMAIN w = {"native"}
    OBVIOUS
  <2> QED
    BY <1>2, <2>1, <2>2
<1>4. v \in [fn : Functions \ {Class}, parent : 1..Len(contexts)]
  BY <1>1, <1>3 DEF Stored
<1> QED
  BY <1>4

\* What a call does: a new context of the function, at the end.
IsCall(f, p, args) ==
  /\ contexts' = Append(contexts, NewContext(f, Len(contexts) + 1, p, current_context, args))
  /\ current_context' = Len(contexts) + 1
  /\ UNCHANGED <<synchronized_variables, static_variables, refused>>

\* A call by name is a call of the function, with the parent, that the reference holds.
LEMMA CallIs ==
  ASSUME FieldsInv, NEW n \in Assignable, NEW args \in Seq(ToSet(Values)), CallFunction(n, args)
  PROVE  LET r == ValueOf(n) IN
         /\ r \in FunctionRefs /\ r.fn \in Functions \ {Class} /\ r.parent \in 1..Len(contexts)
         /\ Fitting(r.fn, args) /\ IsCall(r.fn, r.parent, args)
<1>1. PICK r : r = ValueOf(n)
  OBVIOUS
<1>2. n \in Names \ {"this"}
  BY FieldsAssumption
<1>3. /\ r \in FunctionRefs /\ Len(args) = Len(Params[r.fn])
      /\ contexts' = Append(contexts, NewContext(r.fn, Len(contexts) + 1, r.parent, current_context, args))
      /\ current_context' = Len(contexts) + 1
      /\ UNCHANGED <<synchronized_variables, static_variables, refused>>
  BY <1>1 DEF CallFunction
<1>4. r \in Stored(Len(contexts))
  BY <1>1, <1>2, ValueIsStored
<1>5. r.fn \in Functions \ {Class} /\ r.parent \in 1..Len(contexts)
  BY <1>3, <1>4, RefFacts
<1>6. Fitting(r.fn, args) /\ IsCall(r.fn, r.parent, args)
  BY <1>3, <1>5 DEF Fitting, IsCall
<1> QED
  BY <1>1, <1>3, <1>5, <1>6

\* The contexts after a call.
LEMMA CallAppends ==
  ASSUME FieldsInv, NEW f, NEW p, NEW args, IsCall(f, p, args)
  PROVE  /\ IsSequence(contexts') /\ Len(contexts) \in Nat /\ Len(contexts') = Len(contexts) + 1
         /\ DOMAIN contexts = 1..Len(contexts) /\ DOMAIN contexts' = 1..(Len(contexts) + 1)
         /\ \A c \in 1..Len(contexts) : contexts'[c] = contexts[c]
         /\ contexts'[Len(contexts) + 1] = NewContext(f, Len(contexts) + 1, p, current_context, args)
<1>1. PICK x : x = NewContext(f, Len(contexts) + 1, p, current_context, args)
  OBVIOUS
<1>2. IsSequence(contexts) /\ contexts' = Append(contexts, x)
  BY <1>1 DEF IsCall, FieldsInv
<1> QED
  BY <1>1, <1>2, SequenceAppend

\* A call keeps the invariant.
LEMMA CallKeeps ==
  ASSUME FieldsInv, NEW f \in Functions \ {Class}, NEW p \in 1..Len(contexts), NEW args, Fitting(f, args),
         IsCall(f, p, args), writes' \in Nat
  PROVE  FieldsInv'
<1>1. PICK N : N = Len(contexts)
  OBVIOUS
<1>2. /\ IsSequence(contexts') /\ N \in Nat /\ Len(contexts') = N + 1
      /\ DOMAIN contexts = 1..N /\ DOMAIN contexts' = 1..(N + 1)
      /\ \A c \in 1..N : contexts'[c] = contexts[c]
      /\ contexts'[N + 1] = NewContext(f, N + 1, p, current_context, args)
  BY <1>1, CallAppends
<1>3. \A c \in 1..N : ContextOK(c)
  BY <1>2 DEF FieldsInv
<1>4. Stored(N) \subseteq Stored(N + 1)
  BY <1>2, StoredGrows
<1>5. ASSUME NEW c \in 1..N PROVE ContextOK(c)'
  <2>1. PICK x : x = contexts[c]
    OBVIOUS
  <2>2. /\ x = [fn |-> x.fn, parent_context |-> x.parent_context, return_context |-> x.return_context, locals |-> x.locals]
        /\ x.fn \in Functions /\ x.parent_context \in 0..(c - 1) /\ x.return_context \in 0..(c - 1)
        /\ x.locals \in [0..Len(Symbols[x.fn]) -> Stored(N)]
    BY <1>1, <1>3, <2>1 DEF ContextOK
  <2>3. x.locals \in [0..Len(Symbols[x.fn]) -> Stored(N + 1)]
    BY <1>4, <2>2
  <2>4. contexts'[c] = x /\ Len(contexts') = N + 1
    BY <1>2, <2>1
  <2> QED
    BY <2>2, <2>3, <2>4 DEF ContextOK
<1>6. ContextOK(N + 1)'
  <2>1. PICK x, ls : x = NewContext(f, N + 1, p, current_context, args) /\ ls = Locals(f, N + 1, args)
    OBVIOUS
  <2>2. /\ x = [fn |-> x.fn, parent_context |-> x.parent_context, return_context |-> x.return_context, locals |-> x.locals]
        /\ x.fn = f /\ x.parent_context = p /\ x.return_context = current_context /\ x.locals = ls
    BY <2>1 DEF NewContext
  <2>3. N + 1 \in Nat /\ N + 1 \in 1..(N + 1)
    BY <1>2
  <2>4. ls \in [0..Len(Symbols[f]) -> Stored(N + 1)]
    BY <2>1, <2>3, NewContextOK
  <2>5. p \in 0..((N + 1) - 1) /\ current_context \in 0..((N + 1) - 1)
    BY <1>1, <1>2, ContextFacts
  <2>6. contexts'[N + 1] = x /\ Len(contexts') = N + 1
    BY <1>2, <2>1
  <2> QED
    BY <2>2, <2>4, <2>5, <2>6 DEF ContextOK
<1>7. \A c \in DOMAIN contexts' : ContextOK(c)'
  <2>1. \A c \in 1..(N + 1) : c \in 1..N \/ c = N + 1
    BY <1>2
  <2> QED
    BY <1>2, <1>5, <1>6, <2>1
<1>8. Root \in 1..N /\ Root \in 1..(N + 1) /\ contexts'[Root].fn = Class /\ current_context' \in 1..(N + 1)
  BY <1>1, <1>2 DEF FieldsInv, IsCall, Root
<1>9. VariablesOK(synchronized_variables)' /\ VariablesOK(static_variables)'
  <2>1. \A m : IsMap(m, Stored(N)) => IsMap(m, Stored(N + 1))
    BY <1>4, MapWidens
  <2>2. /\ IsMap(synchronized_variables, Stored(N)) /\ ~ synchronized_variables.is_immutable
        /\ IsMap(static_variables, Stored(N)) /\ ~ static_variables.is_immutable
        /\ \A n \in Names : /\ map_has(synchronized_variables, n) => n \in Assignable
                            /\ map_has(static_variables, n) => n \in Assignable
    BY <1>1 DEF FieldsInv, VariablesOK
  <2>3. synchronized_variables' = synchronized_variables /\ static_variables' = static_variables
    BY DEF IsCall
  <2> QED
    BY <1>2, <2>1, <2>2, <2>3 DEF VariablesOK
<1> QED
  BY <1>2, <1>7, <1>8, <1>9 DEF FieldsInv, Root

\* The variable n of context c gets v; nothing else changes.
IsWrite(c, n, v) ==
  /\ c \in 1..Len(contexts) /\ n \in Bound[contexts[c].fn]
  /\ IsStore(c, Register[contexts[c].fn][n], v)
  /\ UNCHANGED <<current_context, synchronized_variables, static_variables>>

\* The synchronized variable n gets v; nothing else changes.
IsShare(n, v) ==
  /\ synchronized_variables' = map_insert(synchronized_variables, n, v)
  /\ UNCHANGED <<contexts, current_context, static_variables>>

\* OP_SET_FIELD with lookup object `this' (interpreter_dd.c:797-829).
LEMMA SetThisFieldIs ==
  ASSUME FieldsInv, NEW n \in Names \ {"this"}, NEW v, SetThisField(n, v)
  PROVE  LET c == Search(current_context, n) IN
         IF c # 0 THEN IsWrite(c, n, v) ELSE IsShare(n, v)
<1>1. PICK c : c = Search(current_context, n)
  OBVIOUS
<1>2. CASE c # 0
  <2>1. c \in 1..Len(contexts) /\ n \in Bound[contexts[c].fn] /\ map_get(Table(c), n) = Register[contexts[c].fn][n]
    BY <1>1, <1>2, SearchPlace
  <2>2. StoreAt(c, map_get(Table(c), n), v)
    BY Zenon, <1>1, <1>2 DEF SetThisField
  <2>3. StoreAt(c, Register[contexts[c].fn][n], v)
    BY Zenon, <2>1, <2>2
  <2>4. IsWrite(c, n, v)
    BY Zenon, <2>1, <2>3 DEF IsWrite, StoreAt, IsStore
  <2> QED
    BY Zenon, <1>1, <1>2, <2>4
<1>3. CASE c = 0
  <2>1. IsShare(n, v)
    BY <1>1, <1>3 DEF SetThisField, IsShare
  <2> QED
    BY Zenon, <1>1, <1>3, <2>1
<1> QED
  BY <1>2, <1>3

\* A function's own variable is found at once.
LEMMA OwnScope ==
  ASSUME FieldsInv, NEW n \in Names \ {"this"}, n \in Own[Fn]
  PROVE  Search(current_context, n) = current_context
<1>1. /\ current_context \in 1..Len(contexts) /\ current_context \in 0..Len(contexts) /\ current_context # 0
      /\ IsChain(Parent, Len(contexts)) /\ DOMAIN contexts = 1..Len(contexts)
  BY ContextFacts
<1>2. PICK S : S = {d \in DOMAIN contexts : map_has(Table(d), n)}
  OBVIOUS
<1>3. current_context \in S
  BY <1>1, <1>2, TableFacts DEF Fn
<1> QED
  BY <1>1, <1>2, <1>3, NearestStep DEF Search

\* An assignment writes the variable that the name denotes (ExprssionCompiler.cpp:173-215).
LEMMA AssignIs ==
  ASSUME FieldsInv, NEW n \in Names \ {"this"}, NEW v, Assign(n, v)
  PROVE  LET c == Search(current_context, n) IN
         /\ IF c # 0 THEN IsWrite(c, n, v) ELSE IsShare(n, v)
         /\ refused' = refused /\ writes' = writes + 1
<1>1. CASE n \in Own[Fn]
  <2>1. PICK c : c = current_context
    OBVIOUS
  <2>2. c \in 1..Len(contexts) /\ c # 0 /\ Fn = contexts[c].fn /\ Fn \in Functions
    BY <2>1, ContextFacts DEF Fn
  <2>3. Search(current_context, n) = c
    BY <1>1, <2>1, OwnScope
  <2>4. StoreAt(c, Register[Fn][n], v) /\ writes' = writes + 1
    BY Zenon, <1>1, <2>1 DEF Assign, Writing
  <2>5. n \in Bound[Fn]
    BY <1>1, <2>2, Registers
  <2>6. IsWrite(c, n, v) /\ refused' = refused
    BY Zenon, <2>2, <2>4, <2>5 DEF IsWrite, StoreAt, IsStore
  <2> QED
    BY Zenon, <2>2, <2>3, <2>4, <2>6
<1>2. CASE n \notin Own[Fn]
  <2>1. SetThisField(n, v) /\ writes' = writes + 1
    BY Zenon, <1>2 DEF Assign, Writing
  <2>2. IF Search(current_context, n) # 0 THEN IsWrite(Search(current_context, n), n, v) ELSE IsShare(n, v)
    BY Zenon, <2>1, SetThisFieldIs
  <2>3. refused' = refused
    BY <2>1 DEF SetThisField, StoreAt
  <2> QED
    BY Zenon, <2>1, <2>2, <2>3
<1> QED
  BY <1>1, <1>2

\* `this.n' is the field n of the object, if programs say it where no other
\* variable has the name.
LEMMA SetThisIs ==
  ASSUME FieldsInv, ShadowedThis = FALSE, NEW n \in Names \ {"this"}, NEW v, SetThis(n, v)
  PROVE  IsWrite(Root, n, v) /\ refused' = refused /\ writes' = writes + 1 /\ n \in Bound[Class]
<1>1. Search(current_context, n) = Root /\ SetThisField(n, v) /\ writes' = writes + 1 /\ n \in Own[Class]
  BY DEF SetThis, SaysThis, Writing
<1>2. Root # 0
  BY DEF Root
<1>3. IsWrite(Root, n, v)
  BY Zenon, <1>1, <1>2, SetThisFieldIs
<1>4. refused' = refused
  BY <1>1 DEF SetThisField, StoreAt
<1>5. n \in Bound[Class]
  BY <1>1, Registers, FieldsAssumption
<1> QED
  BY <1>1, <1>3, <1>4, <1>5

\* interpreter_set_field_virtual (interpreter_dd.c:1143-1172).
LEMMA SetOutsideIs ==
  ASSUME FieldsInv, NEW n \in Names \ {"this"}, NEW v, NEW other, SetOutside(n, v, other)
  PROVE  /\ IF n \in Bound[Class] THEN IsWrite(Root, n, v)
                                  ELSE UNCHANGED <<contexts, current_context, synchronized_variables, static_variables>>
         /\ refused' = (n \notin Bound[Class]) /\ writes' = writes + 1
         /\ other => n \in OutsideWrites
<1>1. Class \in Functions /\ Bound[Class] = Own[Class] \ {"this"}
  BY Registers, FieldsAssumption
<1>2. map_has(SymbolTable[Class], n) <=> n \in Bound[Class]
  BY <1>1, ClassTable
<1>3. Root \in 1..Len(contexts) /\ contexts[Root].fn = Class
  BY ClassTable DEF FieldsInv
<1>4. /\ other => n \in OutsideWrites
      /\ writes' = writes + 1 /\ refused' = ~ map_has(SymbolTable[Class], n)
      /\ UNCHANGED <<current_context, synchronized_variables, static_variables>>
  BY DEF SetOutside, Writing
<1>5. CASE n \in Bound[Class]
  <2>1. map_get(SymbolTable[Class], n) = Register[Class][n]
    BY <1>1, <1>5, ClassTable
  <2>2. contexts' = [contexts EXCEPT ![Root].locals[map_get(SymbolTable[Class], n)] = v]
    BY Zenon, <1>2, <1>5 DEF SetOutside
  <2>3. IsStore(Root, Register[Class][n], v)
    BY Zenon, <2>1, <2>2 DEF IsStore
  <2>4. IsWrite(Root, n, v)
    BY Zenon, <1>3, <1>4, <1>5, <2>3 DEF IsWrite
  <2>5. refused' = (n \notin Bound[Class])
    BY <1>2, <1>4
  <2> QED
    BY Zenon, <1>4, <1>5, <2>4, <2>5
<1>6. CASE n \notin Bound[Class]
  <2>1. contexts' = contexts
    BY Zenon, <1>2, <1>6 DEF SetOutside
  <2>2. refused' = (n \notin Bound[Class])
    BY <1>2, <1>4
  <2> QED
    BY <1>4, <1>6, <2>1, <2>2
<1> QED
  BY <1>5, <1>6

\* What is written stays right.
LEMMA WriteKeeps ==
  ASSUME FieldsInv, NEW c, NEW n, NEW v \in Stored(Len(contexts)), IsWrite(c, n, v), writes' \in Nat
  PROVE  FieldsInv'
<1>1. c \in 1..Len(contexts) /\ n \in Bound[contexts[c].fn] /\ contexts[c].fn \in Functions
  BY ContextFacts DEF IsWrite
<1>2. Register[contexts[c].fn][n] \in 0..Len(Symbols[contexts[c].fn])
  <2>1. n \in Own[contexts[c].fn]
    BY <1>1, Registers
  <2>2. Register[contexts[c].fn][n] \in 1..Len(Symbols[contexts[c].fn])
    BY <1>1, <2>1, Registers
  <2> QED
    BY <2>2
<1>3. /\ IsStore(c, Register[contexts[c].fn][n], v)
      /\ current_context' = current_context /\ synchronized_variables' = synchronized_variables
      /\ static_variables' = static_variables
  BY Zenon DEF IsWrite
<1> QED
  BY <1>1, <1>2, <1>3, StoreKeeps

\* So does the write of a synchronized variable.
LEMMA ShareKeeps ==
  ASSUME FieldsInv, NEW n \in Assignable, NEW v \in Stored(Len(contexts)), IsShare(n, v), writes' \in Nat
  PROVE  FieldsInv'
<1>1. VariablesOK(synchronized_variables) /\ VariablesOK(static_variables) /\ current_context \in 1..Len(contexts)
  BY ContextFacts DEF FieldsInv
<1>2. VariablesOK(map_insert(synchronized_variables, n, v))
  BY <1>1, InsertKeeps
<1>3. contexts' = contexts /\ current_context' \in 1..Len(contexts)
      /\ VariablesOK(synchronized_variables') /\ VariablesOK(static_variables')
  BY <1>1, <1>2 DEF IsShare
<1> QED
  BY <1>3, RestKeeps

\* And with the two, every assignment.
LEMMA AssignKeeps ==
  ASSUME FieldsInv, NEW n \in Assignable, NEW v \in Stored(Len(contexts)), Assign(n, v)
  PROVE  FieldsInv'
<1>1. n \in Names \ {"this"} /\ writes \in Nat
  BY FieldsAssumption DEF FieldsInv
<1>2. PICK c : c = Search(current_context, n)
  OBVIOUS
<1>3. (IF c # 0 THEN IsWrite(c, n, v) ELSE IsShare(n, v)) /\ writes' = writes + 1
  BY Zenon, <1>1, <1>2, AssignIs
<1>4. writes' \in Nat
  BY <1>1, <1>3
<1> QED
  BY <1>3, <1>4, WriteKeeps, ShareKeeps

\* Every step keeps the invariant.
LEMMA StepInv == FieldsInv /\ [FieldsNext]_fieldVars => FieldsInv'
<1>1. SUFFICES ASSUME FieldsInv, [FieldsNext]_fieldVars PROVE FieldsInv'
  OBVIOUS
<1>2. /\ Len(contexts) \in Nat /\ DOMAIN contexts = 1..Len(contexts) /\ current_context \in 1..Len(contexts)
      /\ VariablesOK(synchronized_variables) /\ VariablesOK(static_variables) /\ writes \in Nat
  BY <1>1, ContextFacts DEF FieldsInv
<1>3. ASSUME Return PROVE FieldsInv'
  <2>1. ContextOK(current_context)
    BY <1>1, <1>2 DEF FieldsInv
  <2>2. PICK r : r = contexts[current_context].return_context
    OBVIOUS
  <2>3. r \in 0..(current_context - 1) /\ r # 0 /\ current_context' = r
    BY <1>3, <2>1, <2>2 DEF Return, ContextOK
  <2>4. r \in 1..Len(contexts)
    BY <1>2, <2>3
  <2>5. /\ contexts' = contexts /\ synchronized_variables' = synchronized_variables
        /\ static_variables' = static_variables /\ writes' = writes
    BY <1>3 DEF Return
  <2> QED
    BY <1>1, <1>2, <2>3, <2>4, <2>5, RestKeeps
<1>4. ASSUME NEW n \in Assignable, NEW args \in Seq(ToSet(Values)), CallFunction(n, args) PROVE FieldsInv'
  <2>1. PICK r : r = ValueOf(n)
    OBVIOUS
  <2>2. /\ r.fn \in Functions \ {Class} /\ r.parent \in 1..Len(contexts)
        /\ Fitting(r.fn, args) /\ IsCall(r.fn, r.parent, args)
    BY <1>1, <1>4, <2>1, CallIs
  <2>3. writes' \in Nat
    <3>1. writes' = writes \/ writes' = writes + 1
      BY <1>4 DEF CallFunction, Writing
    <3> QED
      BY <1>2, <3>1
  <2> QED
    BY <1>1, <2>2, <2>3, CallKeeps
<1>5. ASSUME NEW n \in Assignable, writes < Len(Values), Assign(n, NextValue) PROVE FieldsInv'
  BY <1>1, <1>5, NextValueIs, AssignKeeps
<1>6. ASSUME NEW n \in Assignable, NEW m \in Assignable, Copy(n, m) PROVE FieldsInv'
  <2>1. ValueOf(m) \in Stored(Len(contexts))
    BY <1>1, ValueIsStored, FieldsAssumption
  <2>2. Assign(n, ValueOf(m))
    BY <1>6 DEF Copy
  <2> QED
    BY <1>1, <2>1, <2>2, AssignKeeps
<1>7. ASSUME NEW n \in Assignable, writes < Len(Values), SetThis(n, NextValue) PROVE FieldsInv'
  <2>1. n \in Names \ {"this"}
    BY FieldsAssumption
  <2>2. SetThisField(n, NextValue) /\ writes' = writes + 1
    BY <1>7 DEF SetThis, Writing
  <2>3. IF Search(current_context, n) # 0 THEN IsWrite(Search(current_context, n), n, NextValue) ELSE IsShare(n, NextValue)
    BY <1>1, <2>1, <2>2, SetThisFieldIs
  <2>4. writes' \in Nat
    BY <1>2, <2>2
  <2> QED
    BY <1>1, <1>7, <2>3, <2>4, NextValueIs, WriteKeeps, ShareKeeps
<1>8. ASSUME NEW n \in Assignable, writes < Len(Values), SetStatic(n, NextValue) PROVE FieldsInv'
  <2>1. /\ contexts' = contexts /\ current_context' = current_context
        /\ synchronized_variables' = synchronized_variables
        /\ static_variables' = map_insert(static_variables, n, NextValue) /\ writes' = writes + 1
    BY <1>8 DEF SetStatic, Writing
  <2>2. VariablesOK(map_insert(static_variables, n, NextValue))
    BY <1>1, <1>2, <1>8, NextValueIs, InsertKeeps
  <2>3. writes' \in Nat
    BY <1>2, <2>1
  <2> QED
    BY <1>1, <1>2, <2>1, <2>2, <2>3, RestKeeps
<1>9. ASSUME NEW n \in Assignable, NEW other \in BOOLEAN, writes < Len(Values), SetOutside(n, NextValue, other)
      PROVE  FieldsInv'
  <2>1. n \in Names \ {"this"}
    BY FieldsAssumption
  <2>2. /\ IF n \in Bound[Class] THEN IsWrite(Root, n, NextValue)
                                 ELSE UNCHANGED <<contexts, current_context, synchronized_variables, static_variables>>
        /\ writes' = writes + 1
    BY <1>1, <1>9, <2>1, SetOutsideIs
  <2>3. writes' \in Nat
    BY <1>2, <2>2
  <2>4. CASE n \in Bound[Class]
    BY <1>1, <1>9, <2>2, <2>3, <2>4, NextValueIs, WriteKeeps
  <2>5. CASE n \notin Bound[Class]
    BY <1>1, <1>2, <2>2, <2>3, <2>5, RestKeeps
  <2> QED
    BY <2>4, <2>5
<1>10. ASSUME UNCHANGED fieldVars PROVE FieldsInv'
  BY <1>1, <1>2, <1>10, RestKeeps DEF fieldVars
<1>11. <<>> \in Seq(ToSet(Values)) /\ (writes < Len(Values) => <<NextValue>> \in Seq(ToSet(Values)))
  BY <1>1, NextValueIs
<1> QED
  BY <1>1, <1>3, <1>4, <1>5, <1>6, <1>7, <1>8, <1>9, <1>10, <1>11 DEF FieldsNext

\* In every reachable state the contexts are well formed: parents and callers are
\* older, registers hold values and references to contexts that exist.
THEOREM FieldsInvariance == FieldsSpec => []FieldsInv
  BY InitInv, StepInv, PTL DEF FieldsSpec

\* Every name reads as what it means (interpreter_dd.c:667-788, 1105-1134): with
\* any functions, nested how ever deep, any recursion and any closures, a register,
\* a search of the symbol tables and a lookup from outside give the variable that
\* the text says.
THEOREM NamesReadRight == FieldsSpec => []ReadsMean
  BY FieldsInvariance, ReadsAreMeanings, PTL

(***************************************************************************)
(* The names are lexical: refinement of LexicalScopes                      *)
(***************************************************************************)

\* The contexts of the next state are those of this one, and more.
Grown == /\ Len(contexts) <= Len(contexts')
         /\ \A c \in 1..Len(contexts) : /\ contexts'[c].fn = contexts[c].fn
                                        /\ contexts'[c].parent_context = contexts[c].parent_context

\* Facts that hold in the next state, too.
ParentsAreChain ==
  /\ Len(contexts) \in Nat /\ DOMAIN contexts = 1..Len(contexts) /\ IsChain(Parent, Len(contexts))
  /\ \A c \in 1..Len(contexts) : Parent[c] = contexts[c].parent_context /\ contexts[c].fn \in Functions
MeaningsAreRight ==
  /\ \A v \in ToSet(Values) \cup {Zero, Thrown} : Meant(v) = v
  /\ \A v \in FunctionRefs : Meant(v) = [fn |-> v.fn, outer |-> Enclosing(v.fn, v.parent)]
  /\ \A n \in Names : Meant([class |-> n]) = [global |-> n] /\ Meant([native |-> n]) = [global |-> n]

\* The parents of the contexts are a chain.
LEMMA ParentsChain == FieldsInv => ParentsAreChain
BY ContextFacts DEF ParentsAreChain

\* Values mean themselves, references closures, classes and natives global names.
LEMMA MeaningsRight == MeaningsAreRight
BY Zenon, MeantCases DEF MeaningsAreRight

\* The enclosing activations of older contexts stay.
LEMMA EnclosingKept ==
  ASSUME FieldsInv, FieldsInv', Grown, NEW f, NEW c \in 0..Len(contexts)
  PROVE  Enclosing(f, c)' = Enclosing(f, c)
<1>1. ParentsAreChain /\ ParentsAreChain'
  BY ParentsChain, PTL
<1>2. PICK N, M : N = Len(contexts) /\ M = Len(contexts')
  OBVIOUS
<1>3. PICK p, q : p = Parent /\ q = Parent'
  OBVIOUS
<1>4. PICK S, T : S = {d \in DOMAIN contexts : contexts[d].fn # f} /\ T = {d \in DOMAIN contexts' : contexts'[d].fn # f}
  OBVIOUS
<1>5. /\ N \in Nat /\ M \in Nat /\ N <= M /\ DOMAIN contexts = 1..N /\ DOMAIN contexts' = 1..M
      /\ IsChain(p, N) /\ IsChain(q, M)
      /\ \A d \in 1..N : p[d] = contexts[d].parent_context
      /\ \A d \in 1..M : q[d] = contexts'[d].parent_context
  BY <1>1, <1>2, <1>3 DEF ParentsAreChain, Grown
<1>6. c \in 0..N /\ c \in 0..M /\ \A d \in 1..c : d \in 1..N /\ d \in 1..M
  BY <1>2, <1>5
<1>7. \A d \in 1..c : q[d] = p[d] /\ (d \in T <=> d \in S)
  BY <1>2, <1>4, <1>5, <1>6 DEF Grown
<1>8. Nearest(q, T, c) = Nearest(p, S, c)
  BY <1>5, <1>6, <1>7, NearestSame
<1> QED
  BY Zenon, <1>3, <1>4, <1>8 DEF Enclosing

\* So does what stored values and references mean,
LEMMA MeantKept ==
  ASSUME FieldsInv, FieldsInv', Grown, NEW v \in Stored(Len(contexts))
  PROVE  Meant(v)' = Meant(v)
<1>1. MeaningsAreRight /\ MeaningsAreRight'
  BY MeaningsRight, PTL
<1>2. CASE v \in ToSet(Values) \cup {Zero}
  BY <1>1, <1>2 DEF MeaningsAreRight
<1>3. CASE v \in [fn : Functions \ {Class}, parent : 1..Len(contexts)]
  <2>1. v \in FunctionRefs /\ v.parent \in 0..Len(contexts)
    BY <1>3, ContextFacts DEF FunctionRefs
  <2>2. PICK f, c : f = v.fn /\ c = v.parent
    OBVIOUS
  <2>3. Enclosing(f, c)' = Enclosing(f, c)
    BY <2>1, <2>2, EnclosingKept
  <2>4. Meant(v) = [fn |-> f, outer |-> Enclosing(f, c)]
    BY Zenon, <1>1, <2>1, <2>2 DEF MeaningsAreRight
  <2>5. Meant(v)' = [fn |-> f, outer |-> Enclosing(f, c)']
    BY Zenon, <1>1, <2>1, <2>2 DEF MeaningsAreRight
  <2> QED
    BY Zenon, <2>3, <2>4, <2>5
<1>4. CASE v \in [class : Names] \/ v \in [native : Names]
  <2>1. PICK n \in Names : v = [class |-> n] \/ v = [native |-> n]
    BY <1>4
  <2> QED
    BY Zenon, <1>1, <2>1 DEF MeaningsAreRight
<1> QED
  BY <1>2, <1>3, <1>4 DEF Stored

\* and what a map of variables means.
LEMMA MeantInKept ==
  ASSUME FieldsInv, FieldsInv', Grown, NEW m, VariablesOK(m)
  PROVE  MeantIn(m)' = MeantIn(m)
<1>1. \A n \in Names : map_has(m, n) => map_get(m, n) \in Stored(Len(contexts))
  BY MapMeans
<1>2. \A v \in Stored(Len(contexts)) : Meant(v)' = Meant(v)
  BY MeantKept
<1>3. \A n \in Names : (IF map_has(m, n) THEN Meant(map_get(m, n))' ELSE NULL)
                       = (IF map_has(m, n) THEN Meant(map_get(m, n)) ELSE NULL)
  BY <1>1, <1>2
<1> QED
  BY <1>3 DEF MeantIn

\* An entry of a map becomes the meaning of its value.
LEMMA InsertMeans ==
  ASSUME FieldsInv, NEW m, VariablesOK(m), NEW n \in Assignable, NEW v \in Stored(Len(contexts))
  PROVE  MeantIn(map_insert(m, n, v)) = [MeantIn(m) EXCEPT ![n] = Meant(v)]
<1>1. PICK w : w = map_insert(m, n, v)
  OBVIOUS
<1>2. /\ \A k \in Names : map_has(w, k) <=> k = n \/ map_has(m, k)
      /\ map_get(w, n) = v /\ \A k \in Names : k # n => map_get(w, k) = map_get(m, k)
      /\ n \in Names
  BY <1>1, InsertKeeps, FieldsAssumption
<1>3. \A k \in Names : MeantIn(w)[k] = IF k = n THEN Meant(v) ELSE MeantIn(m)[k]
  BY <1>2 DEF MeantIn
<1>4. MeantIn(w) = [k \in Names |-> MeantIn(w)[k]] /\ MeantIn(m) = [k \in Names |-> MeantIn(m)[k]]
  BY DEF MeantIn
<1>5. PICK a, b, x : a = MeantIn(w) /\ b = MeantIn(m) /\ x = Meant(v)
  OBVIOUS
<1>6. a = [b EXCEPT ![n] = x]
  BY <1>2, <1>3, <1>4, <1>5
<1> QED
  BY Zenon, <1>1, <1>5, <1>6

\* What an activation is, context by context.
Act(c) == [fn     |-> contexts[c].fn,
           outer  |-> Enclosing(contexts[c].fn, c),
           caller |-> contexts[c].return_context,
           vars   |-> [n \in Bound[contexts[c].fn] |-> Meant(contexts[c].locals[Register[contexts[c].fn][n]])]]

\* The activations, context by context.
LEMMA ActIs == Activations = [c \in DOMAIN contexts |-> Act(c)]
BY Zenon DEF Activations, Act

ActsAre == Activations = [c \in DOMAIN contexts |-> Act(c)]
\* The same, named: it holds in the next state, too,
LEMMA ActsAreActs == ActsAre
BY ActIs DEF ActsAre

\* which is this.
LEMMA ActsAfter == Activations' = [c \in DOMAIN contexts' |-> Act(c)']
<1>1. ActsAre'
  BY ActsAreActs, PTL
<1> QED
  BY <1>1 DEF ActsAre

\* An older activation means what it did, if nobody writes it.
LEMMA ActKept ==
  ASSUME FieldsInv, FieldsInv', Grown, NEW c \in 1..Len(contexts), contexts'[c] = contexts[c]
  PROVE  Act(c)' = Act(c)
<1>1. PICK x : x = contexts[c]
  OBVIOUS
<1>2. contexts'[c] = x
  BY <1>1
<1>3. PICK f : f = x.fn
  OBVIOUS
<1>4. f \in Functions /\ c \in 0..Len(contexts)
  BY <1>1, <1>3, ContextFacts
<1>5. Enclosing(f, c)' = Enclosing(f, c)
  BY <1>4, EnclosingKept
<1>6. ASSUME NEW n \in Bound[f] PROVE Meant(x.locals[Register[f][n]])' = Meant(x.locals[Register[f][n]])
  <2>1. PICK i : i = Register[f][n]
    OBVIOUS
  <2>2. i \in 0..Len(Symbols[f])
    <3>1. n \in Own[f]
      BY <1>4, Registers
    <3>2. i \in 1..Len(Symbols[f])
      BY <1>4, <2>1, <3>1, Registers
    <3> QED
      BY <3>2
  <2>3. ContextOK(c)
    BY ContextFacts DEF FieldsInv
  <2>4. x.locals[i] \in Stored(Len(contexts))
    BY <1>1, <1>3, <2>2, <2>3 DEF ContextOK
  <2> QED
    BY <2>1, <2>4, MeantKept
<1>7. PICK e, r : e = Enclosing(f, c) /\ r = x.return_context
  OBVIOUS
<1>8. PICK vs : vs = [n \in Bound[f] |-> Meant(x.locals[Register[f][n]])]
  OBVIOUS
<1>9. vs = [n \in Bound[f] |-> Meant(x.locals[Register[f][n]])']
  BY <1>6, <1>8
<1>10. Act(c) = [fn |-> f, outer |-> e, caller |-> r, vars |-> vs]
  BY Zenon, <1>1, <1>3, <1>7, <1>8 DEF Act
<1>11. Act(c)' = [fn |-> f, outer |-> e, caller |-> r, vars |-> vs]
  BY Zenon, <1>2, <1>3, <1>5, <1>7, <1>9 DEF Act
<1> QED
  BY Zenon, <1>10, <1>11

\* So are the synchronized and static variables that nobody writes.
LEMMA VariablesKept ==
  ASSUME FieldsInv, FieldsInv', Grown
  PROVE  /\ synchronized_variables' = synchronized_variables =>
              MeantIn(synchronized_variables)' = MeantIn(synchronized_variables)
         /\ static_variables' = static_variables =>
              MeantIn(static_variables)' = MeantIn(static_variables)
<1>1. PICK sv, st : sv = synchronized_variables /\ st = static_variables
  OBVIOUS
<1>2. VariablesOK(sv) /\ VariablesOK(st)
  BY <1>1 DEF FieldsInv
<1>3. MeantIn(sv)' = MeantIn(sv) /\ MeantIn(st)' = MeantIn(st)
  BY <1>2, MeantInKept
<1>4. ASSUME synchronized_variables' = synchronized_variables
      PROVE  MeantIn(synchronized_variables)' = MeantIn(synchronized_variables)
  <2>1. synchronized_variables' = sv
    BY <1>1, <1>4
  <2> QED
    BY Zenon, <1>1, <1>3, <2>1 DEF MeantIn
<1>5. ASSUME static_variables' = static_variables
      PROVE  MeantIn(static_variables)' = MeantIn(static_variables)
  <2>1. static_variables' = st
    BY <1>1, <1>5
  <2> QED
    BY Zenon, <1>1, <1>3, <2>1 DEF MeantIn
<1> QED
  BY <1>4, <1>5

\* Without a new context and without a write, the activations stay.
LEMMA ActivationsKept ==
  ASSUME FieldsInv, FieldsInv', contexts' = contexts
  PROVE  Grown /\ Activations' = Activations
<1>1. Len(contexts) \in Nat /\ DOMAIN contexts = 1..Len(contexts)
  BY ContextFacts
<1>2. Grown
  BY <1>1 DEF Grown
<1>3. \A c \in 1..Len(contexts) : Act(c)' = Act(c)
  BY <1>2, ActKept
<1>4. Activations' = [c \in 1..Len(contexts) |-> Act(c)'] /\ Activations = [c \in 1..Len(contexts) |-> Act(c)]
  <2>1. DOMAIN contexts' = 1..Len(contexts)
    BY <1>1
  <2> QED
    BY Zenon, <1>1, <2>1, ActsAfter, ActIs
<1>5. Activations' = Activations
  BY <1>3, <1>4
<1> QED
  BY <1>2, <1>5

\* The write of a variable is the write of the variable of the activation, and of
\* no other variable (interpreter_dd.c:815-820, 1143-1172).
LEMMA WriteMeans ==
  ASSUME FieldsInv, FieldsInv', NEW c, NEW n, NEW v \in Stored(Len(contexts)), IsWrite(c, n, v)
  PROVE  /\ Activations' = [Activations EXCEPT ![c].vars[n] = Meant(v)]
         /\ Activations'[c].vars[n] = Meant(v)
         /\ current_context' = current_context
         /\ MeantIn(synchronized_variables)' = MeantIn(synchronized_variables)
         /\ MeantIn(static_variables)' = MeantIn(static_variables)
<1>1. PICK N, f, i : N = Len(contexts) /\ f = contexts[c].fn /\ i = Register[f][n]
  OBVIOUS
<1>2. /\ c \in 1..N /\ n \in Bound[f] /\ IsStore(c, i, v)
      /\ current_context' = current_context
      /\ synchronized_variables' = synchronized_variables /\ static_variables' = static_variables
  BY Zenon, <1>1 DEF IsWrite
<1>3. N \in Nat /\ DOMAIN contexts = 1..N /\ \A d \in 1..N : contexts[d].fn \in Functions
  BY <1>1, ContextFacts
<1>4. /\ Len(contexts') = N /\ DOMAIN contexts' = 1..N /\ Changed(contexts'[c], contexts[c], i, v)
      /\ \A d \in 1..N : d # c => contexts'[d] = contexts[d]
  BY <1>1, <1>2, StoreChanges
<1>5. Grown
  <2>1. ASSUME NEW d \in 1..N
        PROVE  contexts'[d].fn = contexts[d].fn /\ contexts'[d].parent_context = contexts[d].parent_context
    <3>1. CASE d = c
      BY Zenon, <1>4, <3>1 DEF Changed
    <3>2. CASE d # c
      BY <1>4, <3>2
    <3> QED
      BY <3>1, <3>2
  <2> QED
    BY <1>1, <1>3, <1>4, <2>1 DEF Grown
<1>6. \A d \in 1..N : d # c => Act(d)' = Act(d)
  BY <1>1, <1>4, <1>5, ActKept
<1>7. PICK x, y : x = contexts[c] /\ y = contexts'[c]
  OBVIOUS
<1>8. y.fn = f /\ x.fn = f /\ y.return_context = x.return_context /\ y.locals = [x.locals EXCEPT ![i] = v]
  BY Zenon, <1>1, <1>4, <1>7 DEF Changed
<1>9. f \in Functions /\ n \in Own[f] /\ Bound[f] = Own[f] \ {"this"} /\ c \in 0..N
  BY <1>1, <1>2, <1>3, Registers
<1>10. PICK e, r, mv : e = Enclosing(f, c) /\ r = x.return_context /\ mv = Meant(v)
  OBVIOUS
<1>11. Enclosing(f, c)' = e
  BY <1>1, <1>5, <1>9, <1>10, EnclosingKept
<1>12. x.locals \in [0..Len(Symbols[f]) -> Stored(N)] /\ Len(Symbols[f]) \in Nat
  <2>1. ContextOK(c)
    BY <1>2, <1>3 DEF FieldsInv
  <2> QED
    BY <1>1, <1>7, <1>8, <1>9, <2>1, SymbolPlaces DEF ContextOK
<1>13. PICK vs : vs = [k \in Bound[f] |-> Meant(x.locals[Register[f][k]])]
  OBVIOUS
<1>14. ASSUME NEW k \in Bound[f]
       PROVE  Meant(y.locals[Register[f][k]])' = IF k = n THEN mv ELSE vs[k]
  <2>1. PICK j : j = Register[f][k]
    OBVIOUS
  <2>2. j \in 0..Len(Symbols[f]) /\ (j = i <=> k = n)
    <3>1. k \in Own[f]
      BY <1>9
    <3>2. j \in 1..Len(Symbols[f]) /\ Symbols[f][j] = k /\ Symbols[f][i] = n
      BY <1>1, <1>9, <2>1, <3>1, Registers
    <3> QED
      BY <1>1, <2>1, <3>2
  <2>3. y.locals[j] = IF k = n THEN v ELSE x.locals[j]
    BY <1>8, <1>12, <2>2
  <2>4. x.locals[j] \in Stored(N)
    BY <1>12, <2>2
  <2>5. CASE k = n
    <3>1. Meant(v)' = mv
      BY <1>1, <1>5, <1>10, MeantKept
    <3> QED
      BY Zenon, <2>1, <2>3, <2>5, <3>1
  <2>6. CASE k # n
    <3>1. PICK w : w = x.locals[j]
      OBVIOUS
    <3>2. Meant(w)' = Meant(w)
      BY <1>1, <1>5, <2>4, <3>1, MeantKept
    <3>3. vs[k] = Meant(w)
      BY <1>13, <2>1, <3>1
    <3>4. y.locals[Register[f][k]] = w
      BY <2>1, <2>3, <2>6, <3>1
    <3>5. Meant(y.locals[Register[f][k]])' = Meant(w)
      BY Zenon, <3>2, <3>4
    <3> QED
      BY <2>6, <3>3, <3>5
  <2> QED
    BY <2>5, <2>6
<1>15. Act(c) = [fn |-> f, outer |-> e, caller |-> r, vars |-> vs]
  BY Zenon, <1>7, <1>8, <1>10, <1>13 DEF Act
<1>16. PICK ws : ws = [k \in Bound[f] |-> Meant(y.locals[Register[f][k]])']
  OBVIOUS
<1>17. Act(c)' = [fn |-> f, outer |-> e, caller |-> r, vars |-> ws]
  BY Zenon, <1>7, <1>8, <1>10, <1>11, <1>16 DEF Act
<1>18. ws = [vs EXCEPT ![n] = mv]
  BY <1>2, <1>13, <1>14, <1>16
<1>19. PICK a, b : a = Activations /\ b = Activations'
  OBVIOUS
<1>20. a = [d \in 1..N |-> Act(d)] /\ b = [d \in 1..N |-> Act(d)']
  BY Zenon, <1>3, <1>4, <1>19, ActIs, ActsAfter
<1>21. a[c] = [fn |-> f, outer |-> e, caller |-> r, vars |-> vs] /\ b[c] = [fn |-> f, outer |-> e, caller |-> r, vars |-> ws]
       /\ (\A d \in 1..N : d # c => b[d] = a[d]) /\ DOMAIN a = 1..N /\ DOMAIN b = 1..N
       /\ a = [d \in 1..N |-> a[d]] /\ b = [d \in 1..N |-> b[d]]
  BY <1>2, <1>6, <1>15, <1>17, <1>20
<1>22. b[c] = [a[c] EXCEPT !.vars[n] = mv] /\ b[c].vars[n] = mv
  BY <1>2, <1>13, <1>18, <1>21
<1>23. b = [a EXCEPT ![c].vars[n] = mv]
  BY <1>2, <1>21, <1>22
<1>24. /\ MeantIn(synchronized_variables)' = MeantIn(synchronized_variables)
       /\ MeantIn(static_variables)' = MeantIn(static_variables)
  BY <1>2, <1>5, VariablesKept
<1> QED
  BY Zenon, <1>2, <1>10, <1>19, <1>22, <1>23, <1>24

\* A function is not written down in itself.
LEMMA NestedIsOther ==
  ASSUME NEW f \in Functions, NEW n \in Nested[f]
  PROVE  n # f
<1>1. CASE f = Class
  BY <1>1, FieldsAssumption
<1>2. CASE f # Class
  <2>1. /\ Symbols[f] \in Seq(Names) /\ Len(Symbols[f]) \in Nat /\ Symbols[f][2] = f
        /\ \E i \in 1..Len(Symbols[f]) : Symbols[f][i] = n /\ i > Len(Params[f]) + 2
    BY <1>2, SymbolPlaces
  <2>2. PICK i \in 1..Len(Symbols[f]) : Symbols[f][i] = n /\ i > Len(Params[f]) + 2
    BY <2>1
  <2>3. Len(Params[f]) \in Nat
    BY FieldsAssumption
  <2>4. 2 \in 1..Len(Symbols[f]) /\ i # 2
    BY <2>1, <2>2, <2>3
  <2>5. IsInjective(Symbols[f]) /\ DOMAIN Symbols[f] = 1..Len(Symbols[f])
    BY <2>1, FieldsAssumption
  <2> QED
    BY <2>1, <2>2, <2>4, <2>5 DEF IsInjective
<1> QED
  BY <1>1, <1>2

\* The registers of a context whose body begins mean the variables of a new
\* activation (interpreter_dd.c:999-1022).
FreshMeans ==
  \A c \in 1..Len(contexts), args \in Seq(ToSet(Values)), f \in Functions :
    contexts[c].fn = f /\ Fitting(f, args) /\ contexts[c].locals = Locals(f, c, args)
      => Act(c).vars = Scopes!Fresh(f, c, Enclosing(f, c), args)

\* A new context means a new activation (Locals, LexicalScopes!Fresh).
LEMMA FreshIsMeant == FieldsInv => FreshMeans
<1>1. SUFFICES ASSUME FieldsInv, NEW c \in 1..Len(contexts), NEW args \in Seq(ToSet(Values)), NEW f \in Functions,
                      contexts[c].fn = f, Fitting(f, args), contexts[c].locals = Locals(f, c, args)
               PROVE  Act(c).vars = Scopes!Fresh(f, c, Enclosing(f, c), args)
  BY DEF FreshMeans
<1>2. PICK L, o : L = Locals(f, c, args) /\ o = Enclosing(f, c)
  OBVIOUS
<1>3. Act(c).vars = [n \in Bound[f] |-> Meant(L[Register[f][n]])]
  BY <1>1, <1>2 DEF Act
<1>4. Scopes!Fresh(f, c, o, args) =
        [n \in Bound[f] |->
           CASE n \in Nested[f]                            -> [fn |-> n, outer |-> c]
             [] n = f /\ f # Class                         -> [fn |-> f, outer |-> o]
             [] \E i \in 1..Len(args) : Params[f][i] = n -> args[CHOOSE i \in 1..Len(args) : Params[f][i] = n]
             [] OTHER                                       -> Zero]
  BY Zenon DEF Scopes!Fresh, Scopes!Closure
<1>5. c \in Nat
  BY <1>1, ContextFacts
<1>6. ASSUME NEW n \in Bound[f]
      PROVE  Meant(L[Register[f][n]]) =
           CASE n \in Nested[f]                            -> [fn |-> n, outer |-> c]
             [] n = f /\ f # Class                         -> [fn |-> f, outer |-> o]
             [] \E i \in 1..Len(args) : Params[f][i] = n -> args[CHOOSE i \in 1..Len(args) : Params[f][i] = n]
             [] OTHER                                       -> Zero
  <2>1. PICK i : i = Register[f][n]
    OBVIOUS
  <2>2. i \in 1..Len(Symbols[f]) /\ Symbols[f][i] = n
    BY <1>6, <2>1, Registers
  <2>3. /\ n \in Nested[f] \/ (n = f /\ f # Class) =>
             L[i] = FunctionRef(n, c) /\ ~ \E j \in 1..Len(args) : Params[f][j] = n
        /\ ~ (n \in Nested[f] \/ (n = f /\ f # Class)) =>
             /\ \A j \in 1..Len(args) : Params[f][j] = n => L[i] = args[j] /\ args[j] \in ToSet(Values)
             /\ (~ \E j \in 1..Len(args) : Params[f][j] = n) => L[i] = Zero
    BY <1>1, <1>2, <2>2, NewLocals
  <2>4. CASE n \in Nested[f]
    <3>1. n # f /\ n \in Functions
      BY <2>4, NestedIsOther, FieldsAssumption
    <3>2. FunctionRef(n, c) \in FunctionRefs /\ FunctionRef(n, c).fn = n /\ FunctionRef(n, c).parent = c
      BY <1>5, <3>1 DEF FunctionRef, FunctionRefs
    <3>3. Enclosing(n, c) = c
      BY <1>1, <3>1, EnclosingFacts
    <3>4. Meant(FunctionRef(n, c)) = [fn |-> n, outer |-> c]
      BY <3>2, <3>3, MeantCases
    <3>5. ~ (n = f /\ f # Class) /\ ~ (\E j \in 1..Len(args) : Params[f][j] = n) /\ L[i] = FunctionRef(n, c)
      BY <2>3, <2>4, <3>1
    <3> QED
      BY <2>1, <2>4, <3>4, <3>5
  <2>5. CASE n = f /\ f # Class
    <3>1. FunctionRef(f, c) \in FunctionRefs /\ FunctionRef(f, c).fn = f /\ FunctionRef(f, c).parent = c
      BY <1>5 DEF FunctionRef, FunctionRefs
    <3>2. Meant(FunctionRef(f, c)) = [fn |-> f, outer |-> o]
      BY <1>2, <3>1, MeantCases
    <3>3. n \notin Nested[f] /\ ~ (\E j \in 1..Len(args) : Params[f][j] = n) /\ L[i] = FunctionRef(f, c)
      BY <2>3, <2>5, NestedIsOther
    <3> QED
      BY <2>1, <2>5, <3>2, <3>3
  <2>6. CASE ~ (n \in Nested[f] \/ (n = f /\ f # Class)) /\ \E j \in 1..Len(args) : Params[f][j] = n
    <3>1. PICK j : j = CHOOSE k \in 1..Len(args) : Params[f][k] = n
      OBVIOUS
    <3>2. j \in 1..Len(args) /\ Params[f][j] = n
      BY <2>6, <3>1
    <3>3. L[i] = args[j] /\ args[j] \in ToSet(Values)
      BY <2>3, <2>6, <3>2
    <3>4. Meant(L[i]) = args[j]
      BY <3>3, MeantCases
    <3> QED
      BY <2>1, <2>6, <3>1, <3>4
  <2>7. CASE ~ (n \in Nested[f] \/ (n = f /\ f # Class)) /\ ~ \E j \in 1..Len(args) : Params[f][j] = n
    <3>1. Meant(L[i]) = Zero
      BY <2>3, <2>7, MeantCases
    <3> QED
      BY <2>1, <2>7, <3>1
  <2> QED
    BY <2>4, <2>5, <2>6, <2>7
<1>7. Act(c).vars = Scopes!Fresh(f, c, o, args)
  BY <1>3, <1>4, <1>6
<1> QED
  BY Zenon, <1>2, <1>7

\* An assignment, of a value or of what a name means, is a Write.
LEMMA AssignIsWrite ==
  ASSUME FieldsInv, FieldsInv', NEW n \in Assignable, NEW v \in Stored(Len(contexts)), Assign(n, v),
         Meant(v) \in ToSet(Values) \cup {Scopes!Meaning(m) : m \in Names}
  PROVE  Scopes!Write
<1>1. n \in Names \ {"this"} /\ n \in Names
  BY FieldsAssumption
<1>2. PICK c, S : c = Search(current_context, n) /\ S = ToSet(Values) \cup {Scopes!Meaning(m) : m \in Names}
  OBVIOUS
<1>3. (IF c # 0 THEN IsWrite(c, n, v) ELSE IsShare(n, v)) /\ refused' = refused
  BY Zenon, <1>1, <1>2, AssignIs
<1>4. Scopes!Scope(current_context, n) = c
  <2>1. current_context \in 0..Len(contexts)
    BY ContextFacts
  <2> QED
    BY <1>1, <1>2, <2>1, SearchIsScope
<1>5. CASE c # 0
  <2>1. IsWrite(c, n, v)
    BY <1>3, <1>5
  <2>2. /\ Activations' = [Activations EXCEPT ![c].vars[n] = Meant(v)]
        /\ Activations'[c].vars[n] = Meant(v)
        /\ current_context' = current_context
        /\ MeantIn(synchronized_variables)' = MeantIn(synchronized_variables)
        /\ MeantIn(static_variables)' = MeantIn(static_variables)
    BY Zenon, <2>1, WriteMeans
  <2>3. Scopes!Store(c, n, S)
    BY Zenon, <1>2, <2>2 DEF Scopes!Store
  <2>4. \E m \in Names : Scopes!Scope(current_context, m) # 0 /\ Scopes!Store(Scopes!Scope(current_context, m), m, S)
    BY Zenon, <1>1, <1>4, <1>5, <2>3
  <2> QED
    BY Zenon, <1>2, <1>3, <2>2, <2>4 DEF Scopes!Write
<1>6. CASE c = 0
  <2>1. IsShare(n, v)
    BY <1>3, <1>6
  <2>2. contexts' = contexts /\ current_context' = current_context /\ static_variables' = static_variables
    BY Zenon, <2>1 DEF IsShare
  <2>3. Grown /\ Activations' = Activations
    BY <2>2, ActivationsKept
  <2>4. MeantIn(static_variables)' = MeantIn(static_variables)
    BY <2>2, <2>3, VariablesKept
  <2>5. PICK sv, sw : sv = synchronized_variables /\ sw = map_insert(sv, n, v)
    OBVIOUS
  <2>6. VariablesOK(sv) /\ VariablesOK(sw) /\ MeantIn(sw) = [MeantIn(sv) EXCEPT ![n] = Meant(v)]
    BY <2>5, InsertKeeps, InsertMeans DEF FieldsInv
  <2>7. MeantIn(sw)' = MeantIn(sw)
    BY <2>3, <2>6, MeantInKept
  <2>8. synchronized_variables' = sw
    BY Zenon, <2>1, <2>5 DEF IsShare
  <2>9. MeantIn(synchronized_variables)' = MeantIn(sw)'
    BY Zenon, <2>8 DEF MeantIn
  <2>10. MeantIn(synchronized_variables)' = [MeantIn(synchronized_variables) EXCEPT ![n] = Meant(v)]
    BY Zenon, <2>5, <2>6, <2>7, <2>9
  <2>11. \E m \in Names, w \in S : /\ Scopes!Scope(current_context, m) = 0
                                   /\ MeantIn(synchronized_variables)' = [MeantIn(synchronized_variables) EXCEPT ![m] = w]
    BY Zenon, <1>1, <1>2, <1>4, <1>6, <2>10
  <2> QED
    BY Zenon, <1>2, <1>3, <2>2, <2>3, <2>4, <2>11 DEF Scopes!Write
<1> QED
  BY <1>5, <1>6

\* `this.n = v' is a WriteThis.
LEMMA SetThisIsWriteThis ==
  ASSUME FieldsInv, FieldsInv', ShadowedThis = FALSE, NEW n \in Assignable, writes < Len(Values), SetThis(n, NextValue)
  PROVE  Scopes!WriteThis
<1>1. PICK v : v = NextValue
  OBVIOUS
<1>2. v \in ToSet(Values) /\ v \in Stored(Len(contexts)) /\ Meant(v) = v /\ n \in Names \ {"this"}
  BY <1>1, NextValueIs, MeantCases, FieldsAssumption
<1>3. IsWrite(Root, n, v) /\ refused' = refused /\ n \in Bound[Class]
  BY Zenon, <1>1, <1>2, SetThisIs
<1>4. /\ Activations' = [Activations EXCEPT ![Root].vars[n] = Meant(v)]
      /\ Activations'[Root].vars[n] = Meant(v)
      /\ current_context' = current_context
      /\ MeantIn(synchronized_variables)' = MeantIn(synchronized_variables)
      /\ MeantIn(static_variables)' = MeantIn(static_variables)
  BY Zenon, <1>2, <1>3, WriteMeans
<1>5. Scopes!Store(1, n, ToSet(Values))
  BY Zenon, <1>2, <1>4 DEF Scopes!Store, Root
<1> QED
  BY Zenon, <1>3, <1>4, <1>5 DEF Scopes!WriteThis

\* A write of another object is a WriteOutside (interpreter_dd.c:1143-1172).
LEMMA SetOutsideIsWriteOutside ==
  ASSUME FieldsInv, FieldsInv', OutsideWrites \cap Private = {},
         NEW n \in Assignable, NEW other \in BOOLEAN, writes < Len(Values), SetOutside(n, NextValue, other)
  PROVE  Scopes!WriteOutside
<1>1. PICK v : v = NextValue
  OBVIOUS
<1>2. v \in ToSet(Values) /\ v \in Stored(Len(contexts)) /\ Meant(v) = v /\ n \in Names \ {"this"} /\ n \in Names
  BY <1>1, NextValueIs, MeantCases, FieldsAssumption
<1>3. /\ IF n \in Bound[Class] THEN IsWrite(Root, n, v)
                               ELSE UNCHANGED <<contexts, current_context, synchronized_variables, static_variables>>
      /\ refused' = (n \notin Bound[Class])
      /\ other => n \in OutsideWrites
  BY Zenon, <1>1, <1>2, SetOutsideIs
<1>4. Scopes!Visible(n, other) <=> n \in Bound[Class]
  BY <1>3 DEF Scopes!Visible
<1>5. CASE n \in Bound[Class]
  <2>1. /\ Activations' = [Activations EXCEPT ![Root].vars[n] = Meant(v)]
        /\ Activations'[Root].vars[n] = Meant(v)
        /\ current_context' = current_context
        /\ MeantIn(synchronized_variables)' = MeantIn(synchronized_variables)
        /\ MeantIn(static_variables)' = MeantIn(static_variables)
    BY Zenon, <1>2, <1>3, <1>5, WriteMeans
  <2>2. Scopes!Store(1, n, ToSet(Values))
    BY Zenon, <1>2, <2>1 DEF Scopes!Store, Root
  <2>3. ~ refused'
    BY <1>3, <1>5
  <2> QED
    BY Zenon, <1>2, <1>4, <1>5, <2>1, <2>2, <2>3 DEF Scopes!WriteOutside
<1>6. CASE n \notin Bound[Class]
  <2>1. /\ contexts' = contexts /\ current_context' = current_context /\ refused'
        /\ synchronized_variables' = synchronized_variables /\ static_variables' = static_variables
    BY <1>3, <1>6
  <2>2. Grown /\ Activations' = Activations
    BY <2>1, ActivationsKept
  <2>3. /\ MeantIn(synchronized_variables)' = MeantIn(synchronized_variables)
        /\ MeantIn(static_variables)' = MeantIn(static_variables)
    BY <2>1, <2>2, VariablesKept
  <2> QED
    BY Zenon, <1>2, <1>4, <1>6, <2>1, <2>2, <2>3 DEF Scopes!WriteOutside
<1> QED
  BY <1>5, <1>6

\* A write of a class variable is a WriteStatic (interpreter_dd.c:832-845).
LEMMA SetStaticIsWriteStatic ==
  ASSUME FieldsInv, FieldsInv', NEW n \in Assignable, writes < Len(Values), SetStatic(n, NextValue)
  PROVE  Scopes!WriteStatic
<1>1. PICK v, st, sw : v = NextValue /\ st = static_variables /\ sw = map_insert(st, n, v)
  OBVIOUS
<1>2. v \in ToSet(Values) /\ v \in Stored(Len(contexts)) /\ Meant(v) = v /\ n \in Names
  BY <1>1, NextValueIs, MeantCases, FieldsAssumption
<1>3. /\ contexts' = contexts /\ current_context' = current_context /\ refused' = refused
      /\ synchronized_variables' = synchronized_variables /\ static_variables' = sw
  BY <1>1 DEF SetStatic
<1>4. Grown /\ Activations' = Activations
  BY <1>3, ActivationsKept
<1>5. MeantIn(synchronized_variables)' = MeantIn(synchronized_variables)
  BY <1>3, <1>4, VariablesKept
<1>6. VariablesOK(sw) /\ MeantIn(sw) = [MeantIn(st) EXCEPT ![n] = Meant(v)]
  BY <1>1, <1>2, InsertKeeps, InsertMeans DEF FieldsInv
<1>7. MeantIn(sw)' = MeantIn(sw)
  BY <1>4, <1>6, MeantInKept
<1>8. MeantIn(static_variables)' = MeantIn(sw)'
  BY Zenon, <1>3 DEF MeantIn
<1>9. MeantIn(static_variables)' = [MeantIn(static_variables) EXCEPT ![n] = v]
  BY Zenon, <1>1, <1>2, <1>6, <1>7, <1>8
<1> QED
  BY Zenon, <1>2, <1>3, <1>4, <1>5, <1>9 DEF Scopes!WriteStatic

\* A return is a Return (interpreter_dd.c:974-990).
LEMMA ReturnIsReturn ==
  ASSUME FieldsInv, FieldsInv', Return
  PROVE  Scopes!Return
<1>1. PICK c : c = current_context
  OBVIOUS
<1>2. Activations[c].caller = contexts[c].return_context
  BY <1>1, ActivationFacts, ContextFacts
<1>3. /\ contexts[c].return_context # 0 /\ current_context' = contexts[c].return_context
      /\ contexts' = contexts /\ refused' = refused
      /\ synchronized_variables' = synchronized_variables /\ static_variables' = static_variables
  BY <1>1 DEF Return
<1>4. Grown /\ Activations' = Activations
  BY <1>3, ActivationsKept
<1>5. /\ MeantIn(synchronized_variables)' = MeantIn(synchronized_variables)
      /\ MeantIn(static_variables)' = MeantIn(static_variables)
  BY <1>3, <1>4, VariablesKept
<1> QED
  BY Zenon, <1>1, <1>2, <1>3, <1>4, <1>5 DEF Scopes!Return

\* The enclosing activation of a context, as a fact of the next state, too.
EnclosingSteps ==
  \A f, p : \A c \in 1..Len(contexts) :
    contexts[c].fn = f /\ contexts[c].parent_context = p => Enclosing(f, c) = Enclosing(f, p)

\* A context of the function itself leads to where its parent leads.
LEMMA EnclosingStep == FieldsInv => EnclosingSteps
BY EnclosingFacts DEF EnclosingSteps

\* A call is a Call: the new activation encloses what the function reference that
\* was called says (interpreter_dd.c:922-949, 999-1022).
LEMMA CallAppendsActivation ==
  ASSUME FieldsInv, FieldsInv', NEW f \in Functions \ {Class}, NEW p \in 1..Len(contexts),
         NEW args \in Seq(ToSet(Values)), Fitting(f, args), IsCall(f, p, args)
  PROVE  /\ Activations' = Append(Activations,
              Scopes!Activation(f, Len(Activations) + 1, Enclosing(f, p), current_context, args))
         /\ current_context' = Len(Activations) + 1
         /\ MeantIn(synchronized_variables)' = MeantIn(synchronized_variables)
         /\ MeantIn(static_variables)' = MeantIn(static_variables)
<1>1. PICK N, M : N = Len(contexts) /\ M = Len(contexts) + 1
  OBVIOUS
<1>2. /\ N \in Nat /\ Len(contexts') = M /\ M = N + 1
      /\ DOMAIN contexts = 1..N /\ DOMAIN contexts' = 1..M
      /\ \A c \in 1..N : contexts'[c] = contexts[c]
      /\ contexts'[M] = NewContext(f, M, p, current_context, args)
      /\ M \in 1..M /\ \A c \in 1..M : c \in 1..N \/ c = M
  BY <1>1, CallAppends
<1>3. Grown
  BY <1>1, <1>2 DEF Grown
<1>4. \A c \in 1..N : Act(c)' = Act(c)
  BY <1>1, <1>2, <1>3, ActKept
<1>5. PICK x, L : x = contexts'[M] /\ L = Locals(f, M, args)
  OBVIOUS
<1>6. x.fn = f /\ x.parent_context = p /\ x.return_context = current_context /\ x.locals = L
  BY <1>2, <1>5 DEF NewContext
<1>7. PICK o : o = Enclosing(f, p)
  OBVIOUS
<1>8. Enclosing(f, p)' = o
  <2>1. p \in 0..Len(contexts)
    BY ContextFacts
  <2> QED
    BY <1>3, <1>7, <2>1, EnclosingKept
<1>9. Enclosing(f, M)' = o
  <2>1. EnclosingSteps'
    BY EnclosingStep, PTL
  <2> QED
    BY <1>2, <1>5, <1>6, <1>8, <2>1 DEF EnclosingSteps
<1>10. PICK vs, cc : vs = Scopes!Fresh(f, M, o, args) /\ cc = current_context
  OBVIOUS
<1>11. (Act(M).vars)' = vs
  <2>1. FreshMeans'
    BY FreshIsMeant, PTL
  <2>2. Act(M)'.vars = Scopes!Fresh(f, M, Enclosing(f, M)', args)
    BY <1>2, <1>5, <1>6, <2>1 DEF FreshMeans
  <2> QED
    BY Zenon, <1>9, <1>10, <2>2
<1>12. Act(M)' = [fn |-> f, outer |-> o, caller |-> cc, vars |-> vs]
  <2>1. PICK ws : ws = [n \in Bound[f] |-> Meant(L[Register[f][n]])']
    OBVIOUS
  <2>2. Act(M)' = [fn |-> f, outer |-> o, caller |-> cc, vars |-> ws]
    BY Zenon, <1>5, <1>6, <1>9, <1>10, <2>1 DEF Act
  <2>3. ws = vs
    BY <1>11, <2>2
  <2> QED
    BY Zenon, <2>2, <2>3
<1>13. PICK a, b, w : a = Activations /\ b = Activations' /\ w = [fn |-> f, outer |-> o, caller |-> cc, vars |-> vs]
  OBVIOUS
<1>14. /\ IsSequence(a) /\ Len(a) = N /\ a = [c \in 1..N |-> Act(c)]
       /\ b = [c \in 1..M |-> Act(c)']
  <2>1. IsSequence(a) /\ Len(a) = N
    BY <1>1, <1>13, ActivationFacts
  <2>2. a = [c \in 1..N |-> Act(c)]
    BY Zenon, <1>2, <1>13, ActIs
  <2>3. b = [c \in 1..M |-> Act(c)']
    BY Zenon, <1>2, <1>13, ActsAfter
  <2> QED
    BY Zenon, <2>1, <2>2, <2>3
<1>15. \A c \in 1..N : b[c] = a[c]
  BY <1>2, <1>4, <1>14
<1>16. b[M] = w
  BY <1>2, <1>12, <1>13, <1>14
<1>17. b = Append(a, w)
  <2>1. PICK q : q = Append(a, w)
    OBVIOUS
  <2>2. IsSequence(q) /\ Len(q) = M /\ DOMAIN q = 1..M /\ q[M] = w /\ \A c \in 1..N : q[c] = a[c]
    BY <1>2, <1>14, <2>1, SequenceAppend
  <2>3. q = [c \in 1..M |-> q[c]]
    <3>1. \A S, s : s \in Seq(S) => s = [c \in 1..Len(s) |-> s[c]]
      OBVIOUS
    <3> QED
      BY <2>2, <3>1 DEF IsSequence
  <2>4. b = [c \in 1..M |-> b[c]]
    BY <1>14
  <2>5. \A c \in 1..M : b[c] = q[c]
    BY <1>2, <1>15, <1>16, <2>2
  <2> QED
    BY <2>1, <2>3, <2>4, <2>5
<1>18. Scopes!Activation(f, M, o, cc, args) = w
  BY Zenon, <1>10, <1>13 DEF Scopes!Activation
<1>19. Len(Activations) + 1 = M /\ current_context' = M
  BY <1>1, <1>2, <1>13, <1>14 DEF IsCall
<1>20. /\ MeantIn(synchronized_variables)' = MeantIn(synchronized_variables)
       /\ MeantIn(static_variables)' = MeantIn(static_variables)
  BY <1>3, VariablesKept DEF IsCall
<1> QED
  BY Zenon, <1>7, <1>10, <1>13, <1>17, <1>18, <1>19, <1>20

\* A call by name is a Call of what the name means.
LEMMA CallIsCall ==
  ASSUME FieldsInv, FieldsInv', NEW n \in Assignable, NEW args \in Seq(ToSet(Values)), CallFunction(n, args)
  PROVE  Scopes!Call(n, args)
<1>1. PICK r : r = ValueOf(n)
  OBVIOUS
<1>2. /\ r \in FunctionRefs /\ r.fn \in Functions \ {Class} /\ r.parent \in 1..Len(contexts)
      /\ Fitting(r.fn, args) /\ IsCall(r.fn, r.parent, args)
  BY <1>1, CallIs
<1>3. PICK f, p, o : f = r.fn /\ p = r.parent /\ o = Enclosing(f, p)
  OBVIOUS
<1>4. Scopes!Meaning(n) = [fn |-> f, outer |-> o]
  <2>1. n \in Names \ {"this"}
    BY FieldsAssumption
  <2>2. Meant(r) = Scopes!Meaning(n)
    BY Zenon, <1>1, <2>1, ValueMeans
  <2>3. Meant(r) = [fn |-> f, outer |-> o]
    BY Zenon, <1>2, <1>3, MeantCases
  <2> QED
    BY Zenon, <2>2, <2>3
<1>5. PICK g : g = Scopes!Meaning(n)
  OBVIOUS
<1>6. g.fn = f /\ g.outer = o /\ g \in Scopes!Closures
  <2>1. o \in Nat
    <3>1. p \in 0..Len(contexts)
      BY <1>2, <1>3, ContextFacts
    <3>2. o \in 0..p
      BY <1>3, <3>1, EnclosingFacts
    <3> QED
      BY <3>2
  <2>2. f \in DOMAIN Bound
    BY <1>2, <1>3 DEF Bound
  <2>3. g = [fn |-> f, outer |-> o]
    BY <1>4, <1>5
  <2> QED
    BY <2>1, <2>2, <2>3 DEF Scopes!Closures, Scopes!Functions
<1>7. /\ Activations' = Append(Activations, Scopes!Activation(f, Len(Activations) + 1, o, current_context, args))
      /\ current_context' = Len(Activations) + 1
      /\ MeantIn(synchronized_variables)' = MeantIn(synchronized_variables)
      /\ MeantIn(static_variables)' = MeantIn(static_variables)
  <2>1. f \in Functions \ {Class} /\ p \in 1..Len(contexts) /\ Fitting(f, args) /\ IsCall(f, p, args)
    BY Zenon, <1>2, <1>3
  <2> QED
    BY Zenon, <1>3, <2>1, CallAppendsActivation
<1>8. Len(args) = Len(Params[f]) /\ refused' = refused
  BY <1>1, <1>3 DEF CallFunction
<1> QED
  BY Zenon, <1>5, <1>6, <1>7, <1>8 DEF Scopes!Call

\* The first context is the first activation.
LEMMA InitIsInit == FieldsInit => Scopes!Init
<1>1. SUFFICES ASSUME FieldsInit PROVE Scopes!Init
  OBVIOUS
<1>2. FieldsInv
  BY <1>1, InitInv
<1>3. PICK x : x = NewContext(Class, 1, 0, 0, <<>>)
  OBVIOUS
<1>4. x.fn = Class /\ x.parent_context = 0 /\ x.return_context = 0 /\ x.locals = Locals(Class, 1, <<>>)
  BY <1>3 DEF NewContext
<1>5. contexts[1] = x /\ current_context = 1 /\ ~ refused
      /\ synchronized_variables = map_new /\ static_variables = map_new
  BY <1>1, <1>3 DEF FieldsInit
<1>6. Len(contexts) = 1 /\ DOMAIN contexts = 1..1 /\ 1 \in 1..Len(contexts) /\ 0 \in 0..Len(contexts)
  BY <1>1, <1>2, ContextFacts DEF FieldsInit
<1>7. Enclosing(Class, 1) = 0
  <2>1. Enclosing(Class, 1) = Enclosing(Class, 0)
    BY <1>2, <1>4, <1>5, <1>6, EnclosingFacts
  <2>2. Enclosing(Class, 0) \in 0..0
    BY <1>2, <1>6, EnclosingFacts
  <2> QED
    BY <2>1, <2>2
<1>8. Act(1).vars = Scopes!Fresh(Class, 1, 0, <<>>)
  <2>1. FreshMeans
    BY <1>2, FreshIsMeant
  <2>2. <<>> \in Seq(ToSet(Values)) /\ Fitting(Class, <<>>) /\ Class \in Functions
    BY FieldsAssumption DEF Fitting
  <2>3. contexts[1].fn = Class /\ contexts[1].locals = Locals(Class, 1, <<>>)
    BY <1>4, <1>5
  <2>4. Act(1).vars = Scopes!Fresh(Class, 1, Enclosing(Class, 1), <<>>)
    BY <1>6, <2>1, <2>2, <2>3 DEF FreshMeans
  <2> QED
    BY Zenon, <1>7, <2>4
<1>9. PICK w : w = Scopes!Activation(Class, 1, 0, 0, <<>>)
  OBVIOUS
<1>10. Act(1) = w
  <2>1. PICK vs, ws : vs = Scopes!Fresh(Class, 1, 0, <<>>)
                      /\ ws = [n \in Bound[Class] |-> Meant(x.locals[Register[Class][n]])]
    OBVIOUS
  <2>2. Act(1) = [fn |-> Class, outer |-> 0, caller |-> 0, vars |-> ws]
    BY Zenon, <1>4, <1>5, <1>7, <2>1 DEF Act
  <2>3. ws = vs
    BY <1>8, <2>1, <2>2
  <2>4. w = [fn |-> Class, outer |-> 0, caller |-> 0, vars |-> vs]
    BY Zenon, <1>9, <2>1 DEF Scopes!Activation
  <2> QED
    BY Zenon, <2>2, <2>3, <2>4
<1>11. Activations = <<w>>
  <2>1. PICK a : a = Activations
    OBVIOUS
  <2>2. a = [c \in 1..1 |-> Act(c)]
    BY Zenon, <1>6, <2>1, ActIs
  <2>3. a = [c \in 1..1 |-> w]
    BY <1>10, <2>2
  <2>4. <<w>> = [c \in 1..1 |-> w]
    OBVIOUS
  <2> QED
    BY Zenon, <2>1, <2>3, <2>4
<1>12. MeantIn(map_new) = [n \in Names |-> NULL]
  <2>1. \A n \in Names : ~ map_has(map_new, n)
    BY NewIsMap
  <2> QED
    BY <2>1 DEF MeantIn
<1>13. MeantIn(synchronized_variables) = [n \in Names |-> NULL] /\ MeantIn(static_variables) = [n \in Names |-> NULL]
  BY Zenon, <1>5, <1>12
<1> QED
  BY <1>5, <1>9, <1>11, <1>13 DEF Scopes!Init

\* Every step is a step of LexicalScopes or changes nothing that it knows of.
LEMMA StepRefines ==
  ASSUME ShadowedThis = FALSE, OutsideWrites \cap Private = {}, FieldsInv, FieldsInv', [FieldsNext]_fieldVars
  PROVE  [Scopes!Next]_(Scopes!vars)
<1>1. ASSUME Return PROVE Scopes!Next
  BY <1>1, ReturnIsReturn DEF Scopes!Next
<1>2. ASSUME NEW n \in Assignable, CallFunction(n, <<>>) PROVE Scopes!Next
  <2>1. n \in Names /\ <<>> \in Seq(ToSet(Values))
    BY FieldsAssumption
  <2>2. Scopes!Call(n, <<>>)
    BY <1>2, <2>1, CallIsCall
  <2> QED
    BY Zenon, <2>1, <2>2 DEF Scopes!Next
<1>3. ASSUME NEW n \in Assignable, writes < Len(Values), CallFunction(n, <<NextValue>>) PROVE Scopes!Next
  <2>1. PICK v : v = NextValue
    OBVIOUS
  <2>2. n \in Names /\ v \in ToSet(Values)
    BY <1>3, <2>1, NextValueIs, FieldsAssumption
  <2>3. <<v>> \in Seq(ToSet(Values)) /\ CallFunction(n, <<v>>)
    <3>1. CallFunction(n, <<v>>)
      BY Zenon, <1>3, <2>1
    <3> QED
      BY <2>2, <3>1
  <2>4. Scopes!Call(n, <<v>>)
    BY <2>3, CallIsCall
  <2> QED
    BY Zenon, <2>2, <2>4 DEF Scopes!Next
<1>4. ASSUME NEW n \in Assignable, writes < Len(Values), Assign(n, NextValue) PROVE Scopes!Next
  <2>1. PICK v : v = NextValue
    OBVIOUS
  <2>2. v \in ToSet(Values) /\ v \in Stored(Len(contexts)) /\ Meant(v) = v
    BY <1>4, <2>1, NextValueIs, MeantCases
  <2>3. Assign(n, v)
    BY Zenon, <1>4, <2>1
  <2>4. Meant(v) \in ToSet(Values) \cup {Scopes!Meaning(m) : m \in Names}
    BY Zenon, <2>2
  <2>5. Scopes!Write
    BY <2>2, <2>3, <2>4, AssignIsWrite
  <2> QED
    BY Zenon, <2>5 DEF Scopes!Next
<1>5. ASSUME NEW n \in Assignable, NEW m \in Assignable, Copy(n, m) PROVE Scopes!Next
  <2>1. PICK v : v = ValueOf(m)
    OBVIOUS
  <2>2. m \in Names \ {"this"} /\ m \in Names
    BY FieldsAssumption
  <2>3. v \in Stored(Len(contexts)) /\ Meant(v) = Scopes!Meaning(m)
    BY Zenon, <2>1, <2>2, ValueIsStored, ValueMeans
  <2>4. Assign(n, v)
    BY Zenon, <1>5, <2>1 DEF Copy
  <2>5. Meant(v) \in ToSet(Values) \cup {Scopes!Meaning(k) : k \in Names}
    BY Zenon, <2>2, <2>3
  <2>6. Scopes!Write
    BY <2>3, <2>4, <2>5, AssignIsWrite
  <2> QED
    BY Zenon, <2>6 DEF Scopes!Next
<1>6. ASSUME NEW n \in Assignable, writes < Len(Values), SetThis(n, NextValue) PROVE Scopes!Next
  BY <1>6, SetThisIsWriteThis DEF Scopes!Next
<1>7. ASSUME NEW n \in Assignable, writes < Len(Values), SetStatic(n, NextValue) PROVE Scopes!Next
  BY <1>7, SetStaticIsWriteStatic DEF Scopes!Next
<1>8. ASSUME NEW n \in Assignable, NEW other \in BOOLEAN, writes < Len(Values), SetOutside(n, NextValue, other)
      PROVE  Scopes!Next
  BY <1>8, SetOutsideIsWriteOutside DEF Scopes!Next
<1>9. ASSUME UNCHANGED fieldVars PROVE UNCHANGED Scopes!vars
  <2>1. /\ contexts' = contexts /\ current_context' = current_context /\ refused' = refused
        /\ synchronized_variables' = synchronized_variables /\ static_variables' = static_variables
    BY <1>9 DEF fieldVars
  <2>2. Grown /\ Activations' = Activations
    BY <2>1, ActivationsKept
  <2>3. /\ MeantIn(synchronized_variables)' = MeantIn(synchronized_variables)
        /\ MeantIn(static_variables)' = MeantIn(static_variables)
    BY <2>1, <2>2, VariablesKept
  <2> QED
    BY Zenon, <2>1, <2>2, <2>3 DEF Scopes!vars
<1> QED
  BY <1>1, <1>2, <1>3, <1>4, <1>5, <1>6, <1>7, <1>8, <1>9 DEF FieldsNext

\* The registers, symbol tables, parents and maps implement lexical scoping
\* (AddressCalculator.cpp, interpreter_dd.c:667-866, 1105-1172, object.c:259-278)
\* if programs do not say this.n where a function has a variable n, and code of
\* other classes does not assign the private variables: so each instruction writes
\* the variable that it names.  Otherwise the code writes the parameter n (run
\* fields_this), or the private variable that it says it refuses to write
\* (interpreter_dd.c:1162).
THEOREM ScopesAreLexical ==
  ASSUME ShadowedThis = FALSE, OutsideWrites \cap Private = {}
  PROVE  FieldsSpec => NamesAreLexical
<1>1. FieldsInv /\ FieldsInv' /\ [FieldsNext]_fieldVars => [Scopes!Next]_(Scopes!vars)
  BY StepRefines
<1> QED
  BY <1>1, InitIsInit, FieldsInvariance, PTL DEF FieldsSpec, NamesAreLexical, Scopes!Spec
=============================================================================
