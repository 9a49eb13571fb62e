------------------------------- MODULE HeapProof -------------------------------
(***************************************************************************)
(* Proofs about Heap: while a program does not let go of an instance whose *)
(* functions it uses, nor overwrites the variable that a pending call was  *)
(* made through (CalleesKept), no round of the collector frees what is in  *)
(* use, and every call finds its arguments on the stack.                   *)
(***************************************************************************)
EXTENDS Heap, Facts, FiniteSetTheorems, SequenceTheorems, TLAPS

-----------------------------------------------------------------------------
(* What one comes to from a set of values.                                 *)

\* One step of Closure, with the function next for what is visited.
More(next, p)     == (UNION {next[v] : v \in p[2]}) \ p[1]
GrownIs(g, W, next) == g = [p \in (SUBSET W) \X (SUBSET W) |->
                              IF More(next, p) = {} THEN p[1] ELSE g[<<p[1] \cup More(next, p), More(next, p)>>]]
Closed(T, next)   == \A v \in T : next[v] \subseteq T

\* The function exists: it gives the least set that holds p[1], what p[2] leads
\* to, and what its other elements lead to.
LEMMA GrownExists ==
  ASSUME NEW W, NEW next \in [W -> SUBSET W]
  PROVE  \E g : GrownIs(g, W, next)
<1> DEFINE P == (SUBSET W) \X (SUBSET W)
           Holds(T, p) == /\ p[1] \subseteq T
                          /\ \A v \in p[2] : next[v] \subseteq T
                          /\ \A v \in T \ p[1] : next[v] \subseteq T
           Least(p) == {u \in W : \A T \in SUBSET W : Holds(T, p) => u \in T}
           g == [p \in P |-> Least(p)]
           Step(p) == <<p[1] \cup More(next, p), More(next, p)>>
<1>1. ASSUME NEW p \in P
      PROVE  More(next, p) \in SUBSET W /\ Step(p) \in P
  BY DEF More
<1>2. ASSUME NEW p \in P, More(next, p) = {}
      PROVE  Least(p) = p[1]
  <2>1. Holds(p[1], p)
    BY <1>2 DEF More
  <2> QED
    BY <2>1
<1>3. ASSUME NEW p \in P, NEW T \in SUBSET W
      PROVE  Holds(T, p) <=> Holds(T, Step(p))
  <2> DEFINE M == More(next, p)
  <2>1. Step(p)[1] = p[1] \cup M /\ Step(p)[2] = M
    OBVIOUS
  <2>2. (p[1] \subseteq T /\ \A v \in p[2] : next[v] \subseteq T) <=> p[1] \cup M \subseteq T
    BY DEF More
  <2>3. p[1] \cup M \subseteq T =>
          ((\A v \in T \ p[1] : next[v] \subseteq T)
             <=> (\A v \in M : next[v] \subseteq T) /\ (\A v \in T \ (p[1] \cup M) : next[v] \subseteq T))
    <3>1. M \cap p[1] = {}
      BY DEF More
    <3> HIDE DEF M
    <3> QED
      BY <3>1
  <2> HIDE DEF M
  <2> QED
    BY <2>1, <2>2, <2>3
<1>4. ASSUME NEW p \in P
      PROVE  Least(p) = Least(Step(p))
  BY <1>3
<1>5. ASSUME NEW p \in P
      PROVE  g[p] = IF More(next, p) = {} THEN p[1] ELSE g[Step(p)]
  BY <1>1, <1>2, <1>4
<1>6. g = [p \in P |-> IF More(next, p) = {} THEN p[1] ELSE g[Step(p)]]
  <2> HIDE DEF Least, Step
  <2>1. g = [p \in P |-> g[p]]
    OBVIOUS
  <2> HIDE DEF g
  <2> QED
    BY <1>5, <2>1
<1> QED
  BY <1>6 DEF GrownIs

\* Its value at <<S, S>> is the least closed set around S.
LEMMA GrownProperties ==
  ASSUME NEW W, IsFiniteSet(W), NEW next \in [W -> SUBSET W], NEW g, GrownIs(g, W, next),
         NEW S \in SUBSET W
  PROVE  /\ g[<<S, S>>] \in SUBSET W
         /\ S \subseteq g[<<S, S>>]
         /\ Closed(g[<<S, S>>], next)
         /\ \A T \in SUBSET W : S \subseteq T /\ Closed(T, next) => g[<<S, S>>] \subseteq T
<1> DEFINE P == (SUBSET W) \X (SUBSET W)
           Ready(p) == p[2] \subseteq p[1] /\ \A v \in p[1] \ p[2] : next[v] \subseteq p[1]
           Good(p) == /\ g[p] \in SUBSET W
                      /\ p[1] \subseteq g[p]
                      /\ Closed(g[p], next)
                      /\ \A T \in SUBSET W : p[1] \subseteq T /\ Closed(T, next) => g[p] \subseteq T
           Rest(p) == Cardinality(W \ p[1])
           Bad == {n \in Nat : \E p \in P : Ready(p) /\ ~ Good(p) /\ Rest(p) = n}
           Step(p) == <<p[1] \cup More(next, p), More(next, p)>>
<1>1. \A p \in P : Rest(p) \in Nat
  BY FS_Subset, FS_CardinalityType
<1>2. SUFFICES Bad = {}
  <2>1. <<S, S>> \in P /\ Ready(<<S, S>>)
    OBVIOUS
  <2>2. Good(<<S, S>>)
    BY <1>1, <1>2, <2>1
  <2> QED
    BY <2>2
<1>3. SUFFICES ASSUME Bad # {} PROVE FALSE
  OBVIOUS
<1>4. PICK n \in Bad : \A k \in Bad : n <= k
  <2> HIDE DEF Good, Ready, Rest
  <2> QED
    BY <1>3, LeastNatural
<1>5. PICK p \in P : Ready(p) /\ ~ Good(p) /\ Rest(p) = n
  BY <1>4
<1> DEFINE M == More(next, p)
<1>6. M \in SUBSET W /\ M \cap p[1] = {}
  BY DEF More
<1>7. g[p] = IF M = {} THEN p[1] ELSE g[Step(p)]
  BY DEF GrownIs
<1>8. M # {}
  <2>1. SUFFICES ASSUME M = {} PROVE Good(p)
    BY <1>5
  <2>2. g[p] = p[1]
    BY <1>7, <2>1
  <2>3. \A v \in p[1] : next[v] \subseteq p[1]
    BY <1>5, <2>1 DEF More
  <2> QED
    BY <2>2, <2>3 DEF Closed
<1>9. Step(p) \in P /\ Step(p)[1] = p[1] \cup M /\ Step(p)[2] = M
  BY <1>6
<1>10. Ready(Step(p))
  <2>1. \A v \in p[1] : next[v] \subseteq p[1] \cup M
    BY <1>5 DEF More
  <2> QED
    BY <1>9, <2>1
<1>11. Rest(Step(p)) < Rest(p)
  <2>1. W \ Step(p)[1] \subseteq W \ p[1] /\ W \ Step(p)[1] # W \ p[1]
    BY <1>6, <1>8, <1>9
  <2>2. \A F, G : IsFiniteSet(F) /\ G \subseteq F /\ G # F =>
                    Cardinality(G) \in Nat /\ Cardinality(F) \in Nat /\ Cardinality(G) < Cardinality(F)
    BY FS_Subset, FS_CardinalityType
  <2>3. IsFiniteSet(W \ p[1])
    BY FS_Subset
  <2> HIDE DEF Step
  <2> QED
    BY <2>1, <2>2, <2>3
<1>12. Good(Step(p))
  <2>1. Rest(Step(p)) \in Nat /\ ~ (n <= Rest(Step(p)))
    BY <1>1, <1>5, <1>9, <1>11
  <2> HIDE DEF Good, Ready, Rest, Step
  <2>2. Rest(Step(p)) \notin Bad
    BY <1>4, <2>1
  <2> QED
    BY <1>9, <1>10, <2>1, <2>2
<1>13. ASSUME NEW T \in SUBSET W, p[1] \subseteq T, Closed(T, next)
       PROVE  M \subseteq T
  BY <1>13, <1>5 DEF More, Closed
<1>14. Good(p)
  BY <1>7, <1>8, <1>9, <1>12, <1>13
<1> QED
  BY <1>5, <1>14

\* Closure gives the least set that holds S and what its elements lead to.
LEMMA ClosureProperties ==
  ASSUME IsFiniteSet(Values), NEW visit \in [Values -> SUBSET Values], NEW S \in SUBSET Values
  PROVE  /\ Closure(S, visit) \in SUBSET Values
         /\ S \subseteq Closure(S, visit)
         /\ Closed(Closure(S, visit), visit)
         /\ \A T \in SUBSET Values : S \subseteq T /\ Closed(T, visit) => Closure(S, visit) \subseteq T
<1> DEFINE g == CHOOSE g : GrownIs(g, Values, visit)
<1>1. Closure(S, visit) = g[<<S, S>>]
  BY DEF Closure, GrownIs, More
<1>2. GrownIs(g, Values, visit)
  BY GrownExists
<1> HIDE DEF g
<1> QED
  BY <1>1, <1>2, GrownProperties

-----------------------------------------------------------------------------
(* What a sound state's values lead to.                                    *)

LEMMA Sequences ==
  ASSUME NEW L, ObjectsOK(L), StatesOK(L)
  PROVE  /\ Len(heap) \in Nat /\ DOMAIN heap = 1..Len(heap)
         /\ Len(states) \in Nat /\ DOMAIN states = 1..Len(states)
         /\ \A s \in DOMAIN states : states[s] \in States \cup {Freed}
<1>1. \A S, q : q \in Seq(S) => Len(q) \in Nat /\ DOMAIN q = 1..Len(q) /\ \A i \in 1..Len(q) : q[i] \in S
  OBVIOUS
<1>2. heap \in Seq({heap[o] : o \in DOMAIN heap}) /\ states \in Seq(States \cup {Freed})
  BY DEF ObjectsOK, StatesOK
<1> QED
  BY <1>1, <1>2

\* There are finitely many values.
LEMMA ValuesFinite ==
  ASSUME NEW L, ObjectsOK(L), StatesOK(L)
  PROVE  IsFiniteSet(Values)
<1> DEFINE n == Len(states)
           m == Len(heap)
<1>1. m \in Nat /\ n \in Nat /\ DOMAIN heap = 1..m /\ DOMAIN states = 1..n
  BY Sequences
<1> HIDE DEF m, n
<1>2. Values \subseteq (-n)..m
  BY <1>1 DEF Values, NUMBER, This
<1>3. IsFiniteSet((-n)..m)
  BY <1>1, FS_Interval
<1> QED
  BY <1>2, <1>3, FS_Subset

\* The three kinds of values.
LEMMA Kinds ==
  ASSUME NEW L, L \subseteq DOMAIN states, ObjectsOK(L), StatesOK(L)
  PROVE  /\ \A v \in Values : \/ v = NUMBER
                              \/ v # NUMBER /\ ~ IsThis(v) /\ v \in DOMAIN heap
                              \/ v # NUMBER /\ IsThis(v) /\ -v \in DOMAIN states /\ v = This(-v)
         /\ \A s \in DOMAIN states : s \in Nat \ {0} /\ IsThis(This(s)) /\ This(s) # NUMBER /\ -This(s) = s
         /\ \A o \in DOMAIN heap : o \in Nat \ {0} /\ ~ IsThis(o) /\ o # NUMBER
         /\ Kept(L) \subseteq Values
         /\ Contexts \subseteq Kept(L) /\ Contexts \subseteq DOMAIN heap /\ 0 \in Kept(L) /\ NUMBER \in Kept(L)
         /\ \A s \in L : This(s) \in Kept(L)
         /\ \A v \in Kept(L) : (v # NUMBER /\ ~ IsThis(v) => v \in DOMAIN heap /\ heap[v] # Freed)
                             /\ (IsThis(v) => -v \in L)
<1>1. /\ Len(heap) \in Nat /\ DOMAIN heap = 1..Len(heap)
      /\ Len(states) \in Nat /\ DOMAIN states = 1..Len(states)
  BY Sequences
<1>2. \A s \in DOMAIN states : s \in Nat \ {0} /\ This(s) < 0 /\ IsThis(This(s)) /\ This(s) # NUMBER /\ -This(s) = s
  BY <1>1 DEF This, IsThis, NUMBER
<1>3. \A o \in DOMAIN heap : o \in Nat \ {0} /\ ~ IsThis(o) /\ o # NUMBER
  BY <1>1 DEF IsThis, NUMBER
<1>4. ~ IsThis(NUMBER) /\ NUMBER = 0
  BY DEF IsThis, NUMBER
<1>5. \A v \in Values : \/ v = NUMBER
                        \/ v # NUMBER /\ ~ IsThis(v) /\ v \in DOMAIN heap
                        \/ v # NUMBER /\ IsThis(v) /\ -v \in DOMAIN states /\ v = This(-v)
  <2>1. \A s \in DOMAIN states : This(s) # NUMBER /\ IsThis(This(s)) /\ -This(s) \in DOMAIN states /\ This(s) = This(-This(s))
    BY <1>2 DEF This
  <2> HIDE DEF This
  <2> QED
    BY <1>3, <2>1 DEF Values
<1>6. Contexts \subseteq DOMAIN heap /\ Contexts \subseteq Kept(L)
  BY DEF Contexts, Kept, Freed
<1>7. Kept(L) \subseteq Values
  BY DEF Kept, Values
<1>8. \A v \in Kept(L) : (v # NUMBER /\ ~ IsThis(v) => v \in DOMAIN heap /\ heap[v] # Freed) /\ (IsThis(v) => -v \in L)
  BY <1>2, <1>3, <1>4 DEF Kept
<1> QED
  BY <1>2, <1>3, <1>4, <1>5, <1>6, <1>7, <1>8 DEF Kept

\* What objects refer to: never something freed.
LEMMA ObjectFields ==
  ASSUME NEW L, L \subseteq DOMAIN states, ObjectsOK(L), StatesOK(L), NEW o \in DOMAIN heap
  PROVE  /\ heap[o].type \in {"freed", "context", "function", "object", "instance"}
         /\ heap[o].type = "freed" => heap[o] = Freed
         /\ heap[o].type = "context" => IsContext(heap[o], L) /\ gc_visit_context(heap[o]) \subseteq Kept(L)
                                         /\ Range(heap[o].locals) \subseteq Kept(L)
         /\ heap[o].type = "function" => IsFunctionRef(heap[o], L) /\ heap[o].parent \in Kept(L) /\ This(heap[o].state) \in Kept(L)
         /\ heap[o].type = "object" => heap[o] \in [type : {"object"}, properties : Kept(L)]
         /\ heap[o].type = "instance" => heap[o] \in [type : {"instance"}, state : L] /\ This(heap[o].state) \in Kept(L)
<1>1. IsObject(heap[o], L)
  BY DEF ObjectsOK
<1>2. Contexts \subseteq Kept(L) /\ 0 \in Kept(L) /\ \A s \in L : This(s) \in Kept(L)
  BY Kinds
<1>3. CASE heap[o] = Freed
  BY <1>3 DEF Freed
<1>4. CASE IsContext(heap[o], L)
  <2>1. heap[o].type = "context" /\ heap[o].parent \in Kept(L) /\ heap[o].return \in Kept(L)
        /\ heap[o].locals \in [Registers -> Kept(L)]
    BY <1>2, <1>4 DEF IsContext
  <2>2. Range(heap[o].locals) \subseteq Kept(L)
    BY <2>1 DEF Range
  <2> QED
    BY <1>4, <2>1, <2>2 DEF gc_visit_context
<1>5. CASE IsFunctionRef(heap[o], L)
  BY <1>2, <1>5 DEF IsFunctionRef
<1>6. CASE heap[o] \in [type : {"object"}, properties : Kept(L)]
  BY <1>6
<1>7. CASE heap[o] \in [type : {"instance"}, state : L]
  BY <1>2, <1>7
<1> QED
  BY <1>1, <1>3, <1>4, <1>5, <1>6, <1>7 DEF IsObject

\* The runs are a sequence of records with a state and a context.
LEMMA RunFields ==
  ASSUME NEW L, RunsOK(L)
  PROVE  /\ Len(runs) \in Nat \ {0} /\ DOMAIN runs = 1..Len(runs) /\ Len(runs) \in 1..Len(runs)
         /\ \A i \in 1..Len(runs) : runs[i] \in Runs(L) /\ runs[i].state \in L /\ runs[i].ctx \in Contexts
<1>1. runs \in Seq(Runs(L)) /\ runs # <<>>
  BY DEF RunsOK
<1>2. \A t \in Runs(L) : t.state \in L /\ t.ctx \in Contexts
  BY DEF Runs
<1>3. Len(runs) \in Nat \ {0} /\ DOMAIN runs = 1..Len(runs) /\ \A i \in 1..Len(runs) : runs[i] \in Runs(L)
  BY <1>1
<1>4. Len(runs) \in 1..Len(runs)
  BY <1>3
<1> QED
  BY <1>2, <1>3, <1>4

\* What a kept value leads to is kept.
LEMMA VisitsKept ==
  ASSUME NEW L, NEW A, NEW floor, Sound(L, A, floor)
  PROVE  /\ \A v \in Values  : gc_visit_object(v) \subseteq Values /\ Uses(v) \subseteq Values
         /\ \A v \in Kept(L) : gc_visit_object(v) \subseteq Kept(L) /\ Uses(v) \subseteq Kept(L) /\ ~ IsFreed(v)
<1>1. L \subseteq DOMAIN states /\ ObjectsOK(L) /\ StatesOK(L) /\ stack \in [1..MaxStack -> Values]
  BY DEF Sound
<1>2. Kept(L) \subseteq Values /\ Contexts \subseteq Kept(L) /\ DOMAIN heap \subseteq Values /\ NUMBER \in Values
  BY <1>1, Kinds DEF Values
<1>3. \A s \in L : states[s] # Freed /\ states[s] \in States /\ states[s].root \in Kept(L) /\ states[s].current \in Kept(L)
                   /\ gc_visit_stack(states[s].ptr) \subseteq Kept(L)
  BY <1>1, <1>2, Sequences DEF StatesOK
<1>4. \A s \in DOMAIN states : gc_visit_state(s) \subseteq Values /\ (states[s] # Freed => states[s].root \in Values)
  <2>1. SUFFICES ASSUME NEW s \in DOMAIN states, states[s] # Freed
                 PROVE  gc_visit_state(s) \subseteq Values /\ states[s].root \in Values
    BY DEF gc_visit_state
  <2>2. states[s] \in States
    BY <1>1, <2>1, Sequences
  <2>3. states[s].ptr \in 0..MaxStack /\ {states[s].current, states[s].root} \subseteq Values
    BY <1>2, <2>2 DEF States
  <2>4. gc_visit_stack(states[s].ptr) \subseteq Values
    BY <1>1, <2>3, HeapAssumption DEF gc_visit_stack
  <2> QED
    BY <2>3, <2>4 DEF gc_visit_state
<1>5. \A s \in L : gc_visit_state(s) \subseteq Kept(L)
  BY <1>3 DEF gc_visit_state
<1>6. ASSUME NEW o \in DOMAIN heap
      PROVE  gc_visit_object(o) \subseteq Kept(L) /\ Uses(o) \subseteq Kept(L)
  <2>1. o # NUMBER /\ ~ IsThis(o)
    BY <1>1, Kinds
  <2>2. CASE heap[o].type = "context"
    <3>1. gc_visit_object(o) = gc_visit_context(heap[o]) /\ Uses(o) = Range(heap[o].locals) \cup {heap[o].parent, heap[o].return}
      BY <2>1, <2>2 DEF gc_visit_object, Uses
    <3>2. gc_visit_context(heap[o]) \subseteq Kept(L) /\ Range(heap[o].locals) \subseteq Kept(L)
      BY <1>1, <2>2, ObjectFields
    <3>3. {heap[o].parent, heap[o].return} \subseteq Kept(L)
      BY <3>2 DEF gc_visit_context
    <3> QED
      BY <3>1, <3>2, <3>3
  <2>3. CASE heap[o].type = "function"
    BY <1>1, <2>1, <2>3, ObjectFields DEF gc_visit_object, Uses
  <2>4. CASE heap[o].type = "object"
    BY <1>1, <2>1, <2>4, ObjectFields DEF gc_visit_object, Uses
  <2>5. CASE heap[o].type = "instance"
    BY <1>1, <2>1, <2>5, ObjectFields DEF gc_visit_object, Uses
  <2>6. CASE heap[o].type = "freed"
    BY <1>1, <2>1, <2>6 DEF gc_visit_object, Uses
  <2> QED
    BY <1>1, <2>2, <2>3, <2>4, <2>5, <2>6, ObjectFields
<1>7. ASSUME NEW v \in Values
      PROVE  gc_visit_object(v) \subseteq Values /\ Uses(v) \subseteq Values
  <2>1. CASE v = NUMBER
    BY <2>1 DEF gc_visit_object, Uses
  <2>2. CASE v # NUMBER /\ ~ IsThis(v) /\ v \in DOMAIN heap
    BY <1>2, <1>6, <2>2
  <2>3. CASE v # NUMBER /\ IsThis(v) /\ -v \in DOMAIN states
    BY <1>4, <2>3 DEF gc_visit_object, Uses
  <2> QED
    BY <1>1, <2>1, <2>2, <2>3, Kinds
<1>8. ASSUME NEW v \in Kept(L)
      PROVE  gc_visit_object(v) \subseteq Kept(L) /\ Uses(v) \subseteq Kept(L) /\ ~ IsFreed(v)
  <2>1. CASE v = NUMBER
    BY <2>1 DEF gc_visit_object, Uses, IsFreed
  <2>2. CASE v # NUMBER /\ ~ IsThis(v)
    <3>1. v \in DOMAIN heap /\ heap[v] # Freed
      BY <1>1, <2>2, Kinds
    <3> QED
      BY <1>6, <2>2, <3>1 DEF IsFreed
  <2>3. CASE v # NUMBER /\ IsThis(v)
    <3>1. -v \in L
      BY <1>1, <2>3, Kinds
    <3> QED
      BY <1>3, <1>5, <2>3, <3>1 DEF gc_visit_object, Uses, IsFreed
  <2> QED
    BY <2>1, <2>2, <2>3
<1> QED
  BY <1>7, <1>8

\* What the rounds visit, and what is in use.
LEMMA ReachedKept ==
  ASSUME NEW L, NEW A, NEW floor, Sound(L, A, floor)
  PROVE  /\ Visited \subseteq Kept(L) /\ gc_roots \subseteq Visited
         /\ \A v \in Visited : gc_visit_object(v) \subseteq Visited
         /\ InUse \subseteq Kept(L)
<1> DEFINE visit == [v \in Values |-> gc_visit_object(v)]
           use   == [v \in Values |-> Uses(v)]
<1>1. /\ L \subseteq DOMAIN states /\ ObjectsOK(L) /\ StatesOK(L)
      /\ roots \subseteq L /\ static \in Kept(L) /\ RunsOK(L)
  BY DEF Sound
<1>2. IsFiniteSet(Values)
  BY <1>1, ValuesFinite
<1>3. visit \in [Values -> SUBSET Values] /\ use \in [Values -> SUBSET Values]
  BY VisitsKept
<1>4. Kept(L) \in SUBSET Values /\ Contexts \subseteq Kept(L) /\ \A s \in L : This(s) \in Kept(L)
  BY <1>1, Kinds
<1>5. Closed(Kept(L), visit) /\ Closed(Kept(L), use)
  BY <1>4, VisitsKept DEF Closed
<1>6. gc_roots \subseteq Kept(L)
  BY <1>1, <1>4 DEF gc_roots
<1>7. Running \subseteq Kept(L)
  <2>1. \A i \in 1..Len(runs) : runs[i].ctx \in Kept(L) /\ runs[i].state \in L /\ This(runs[i].state) \in Kept(L)
    <3>1. \A i \in 1..Len(runs) : runs[i].state \in L /\ runs[i].ctx \in Contexts
      BY <1>1, RunFields
    <3> QED
      BY <1>4, <3>1
  <2>2. Len(runs) \in 1..Len(runs)
    BY <1>1, RunFields
  <2>3. gc_visit_stack(Ptr) \subseteq Kept(L)
    BY <1>1, <2>1, <2>2 DEF StatesOK, Ptr, Self, Run, Last
  <2>4. \A run \in ToSet(runs) : \E i \in 1..Len(runs) : run = runs[i]
    BY <1>1, RunFields DEF ToSet
  <2>5. \A run \in ToSet(runs) : {run.ctx, This(run.state)} \subseteq Kept(L)
    BY <2>1, <2>4
  <2> QED
    BY <1>1, <2>3, <2>5 DEF Running
<1>8. Visited = Closure(gc_roots, visit) /\ InUse = Closure(Running, use)
  BY DEF Visited, InUse
<1> HIDE DEF visit, use
<1>9. Visited \subseteq Kept(L) /\ gc_roots \subseteq Visited /\ Closed(Visited, visit)
  BY <1>2, <1>3, <1>4, <1>5, <1>6, <1>8, ClosureProperties
<1>10. InUse \subseteq Kept(L)
  BY <1>2, <1>3, <1>4, <1>5, <1>7, <1>8, ClosureProperties
<1>11. \A v \in Visited : gc_visit_object(v) \subseteq Visited
  BY <1>4, <1>9 DEF visit, Closed
<1> QED
  BY <1>9, <1>10, <1>11

\* The invariant implies that nothing in use is freed.
LEMMA SoundIsSafe ==
  ASSUME IInv
  PROVE  NothingInUseIsFreed
<1>1. PICK L \in SUBSET DOMAIN states, A \in SUBSET DOMAIN heap : \E floor \in [A -> Nat] : Sound(L, A, floor)
  BY DEF IInv
<1>2. PICK floor \in [A -> Nat] : Sound(L, A, floor)
  BY <1>1
<1> QED
  BY <1>2, VisitsKept, ReachedKept DEF NothingInUseIsFreed

-----------------------------------------------------------------------------
(* Steps in which objects stay what they are.                              *)

\* An object after a step: values that the step can store are kept ones and new objects.
Stored(L) == Kept(L) \cup (DOMAIN heap' \ DOMAIN heap)

Follows(o, L) ==
  \/ heap'[o] = heap[o]
  \/ /\ heap[o].type = "context"
     /\ heap'[o] = [heap[o] EXCEPT !.pc = heap'[o].pc, !.locals = heap'[o].locals]
     /\ heap'[o].pc \in Nat \ {0} /\ heap'[o].locals \in [Registers -> Stored(L)]
     /\ heap'[o].locals[1] = heap[o].locals[1]
  \/ heap[o].type = "object" /\ heap'[o] \in [type : {"object"}, properties : Stored(L)]

Grows(L) ==
  /\ program' = program
  /\ IsSequence(heap') /\ DOMAIN heap \subseteq DOMAIN heap'
  /\ \A o \in DOMAIN heap : Follows(o, L)
  /\ \A o \in DOMAIN heap' \ DOMAIN heap : heap'[o] # Freed

\* What is kept stays kept while no state is freed.
LEMMA Grown ==
  ASSUME NEW L, L \subseteq DOMAIN states, ObjectsOK(L), StatesOK(L), Grows(L), NEW L1, L \subseteq L1
  PROVE  /\ Kept(L) \subseteq Kept(L1)' /\ Stored(L) \subseteq Kept(L1)' /\ Contexts \subseteq Contexts'
         /\ \A o \in DOMAIN heap : heap'[o].type = heap[o].type
         /\ \A o \in DOMAIN heap : heap[o].type \in {"function", "instance", "freed"} => heap'[o] = heap[o]
         /\ \A o \in Contexts : /\ heap'[o].fn = heap[o].fn /\ heap'[o].parent = heap[o].parent
                                /\ heap'[o].return = heap[o].return /\ heap'[o].dest = heap[o].dest
                                /\ heap'[o].locals[1] = heap[o].locals[1]
<1>1. ASSUME NEW o \in DOMAIN heap
      PROVE  /\ heap'[o].type = heap[o].type
             /\ heap[o].type \in {"function", "instance", "freed"} => heap'[o] = heap[o]
             /\ heap[o].type = "context" => /\ heap'[o].fn = heap[o].fn /\ heap'[o].parent = heap[o].parent
                                            /\ heap'[o].return = heap[o].return /\ heap'[o].dest = heap[o].dest
                                            /\ heap'[o].locals[1] = heap[o].locals[1]
  <2>1. Follows(o, L)
    BY DEF Grows
  <2>2. CASE heap'[o] = heap[o]
    BY <2>2
  <2>3. CASE /\ heap[o].type = "context"
             /\ heap'[o] = [heap[o] EXCEPT !.pc = heap'[o].pc, !.locals = heap'[o].locals]
             /\ heap'[o].locals[1] = heap[o].locals[1]
    <3>1. IsContext(heap[o], L)
      BY <2>3, ObjectFields
    <3>2. DOMAIN heap[o] = {"type", "fn", "pc", "parent", "return", "dest", "locals"}
      BY <3>1 DEF IsContext
    <3> QED
      BY <2>3, <3>2
  <2>4. CASE heap[o].type = "object" /\ heap'[o] \in [type : {"object"}, properties : Stored(L)]
    BY <2>4
  <2> QED
    BY <2>1, <2>2, <2>3, <2>4 DEF Follows
<1>2. \A o \in DOMAIN heap : heap[o] # Freed => heap'[o] # Freed
  <2>1. \A o \in DOMAIN heap : heap[o].type = "freed" => heap[o] = Freed
    BY ObjectFields
  <2> QED
    BY <1>1, <2>1 DEF Freed
<1>3. DOMAIN heap \subseteq DOMAIN heap'
  BY DEF Grows
<1>4. Kept(L) \subseteq Kept(L1)'
  BY <1>2, <1>3 DEF Kept
<1>5. Stored(L) \subseteq Kept(L1)'
  BY <1>4 DEF Stored, Grows, Kept
<1>6. Contexts \subseteq Contexts'
  BY <1>1, <1>3 DEF Contexts
<1> QED
  BY <1>1, <1>4, <1>5, <1>6 DEF Contexts

\* Objects stay sound if the new ones are.
LEMMA ObjectsStay ==
  ASSUME NEW L, L \subseteq DOMAIN states, ObjectsOK(L), StatesOK(L), Grows(L), NEW L1, L \subseteq L1,
         \A o \in DOMAIN heap' \ DOMAIN heap : IsObject(heap[o], L1)'
  PROVE  ObjectsOK(L1)'
<1> USE Grown
<1>1. ASSUME NEW o \in DOMAIN heap
      PROVE  IsObject(heap[o], L1)'
  <2>1. Follows(o, L)
    BY DEF Grows
  <2>2. CASE heap[o].type = "freed"
    BY <2>2, ObjectFields DEF IsObject
  <2>3. CASE heap[o].type = "context"
    <3>1. IsContext(heap[o], L)
      BY <2>3, ObjectFields
    <3>2. heap'[o] \in [type : {"context"}, fn : DOMAIN program', pc : Nat \ {0}, parent : Contexts' \cup {0},
                        return : Contexts' \cup {0}, dest : Nat, locals : [Registers -> Kept(L1)']]
      <4>1. heap[o] \in [type : {"context"}, fn : DOMAIN program', pc : Nat \ {0}, parent : Contexts' \cup {0},
                         return : Contexts' \cup {0}, dest : Nat, locals : [Registers -> Kept(L1)']]
        BY <3>1 DEF IsContext, Grows
      <4>2. heap'[o] = heap[o] \/ /\ heap'[o] = [heap[o] EXCEPT !.pc = heap'[o].pc, !.locals = heap'[o].locals]
                                  /\ heap'[o].pc \in Nat \ {0} /\ heap'[o].locals \in [Registers -> Kept(L1)']
        BY <2>1, <2>3 DEF Follows
      <4> QED
        BY <4>1, <4>2
    <3>3. o \in Contexts /\ (heap[o].parent # 0 => heap[o].parent \in Contexts)
      BY <2>3, <3>1 DEF Contexts, IsContext
    <3>4. Depth[heap'[o].fn] > 0 => heap'[o].parent # 0 /\ Depth[heap'[heap'[o].parent].fn] = Depth[heap'[o].fn] - 1
      BY <3>1, <3>3 DEF IsContext
    <3>5. heap'[o].return # 0 => heap'[o].dest \in Registers \ {1}
      BY <3>1, <3>3 DEF IsContext
    <3>6. \E s \in L1 : heap'[o].locals[1] = This(s) /\ (s = 1 \/ \E i \in DOMAIN heap' : heap'[i] = Instance(s))
      <4>1. PICK s \in L : heap[o].locals[1] = This(s) /\ (s = 1 \/ \E i \in DOMAIN heap : heap[i] = Instance(s))
        BY <3>1 DEF IsContext
      <4>2. \A i \in DOMAIN heap : heap[i] = Instance(s) => i \in DOMAIN heap' /\ heap'[i] = Instance(s)
        BY DEF Instance, Grows
      <4> QED
        BY <3>3, <4>1, <4>2
    <3>7. IsContext(heap[o], L1)'
      BY <3>2, <3>4, <3>5, <3>6 DEF IsContext, Instance, This
    <3> QED
      BY <3>7 DEF IsObject
  <2>4. CASE heap[o].type = "function"
    <3>1. IsFunctionRef(heap[o], L) /\ heap'[o] = heap[o]
      BY <2>4, ObjectFields
    <3>2. IsFunctionRef(heap[o], L1)'
      BY <3>1 DEF IsFunctionRef, Grows
    <3> QED
      BY <3>2 DEF IsObject
  <2>5. CASE heap[o].type = "object"
    <3>1. heap[o] \in [type : {"object"}, properties : Kept(L)]
      BY <2>5, ObjectFields
    <3>2. heap'[o] \in [type : {"object"}, properties : Kept(L1)']
      BY <2>1, <2>5, <3>1 DEF Follows
    <3> QED
      BY <3>2 DEF IsObject
  <2>6. CASE heap[o].type = "instance"
    <3>1. heap[o] \in [type : {"instance"}, state : L] /\ heap'[o] = heap[o]
      BY <2>6, ObjectFields
    <3> QED
      BY <3>1 DEF IsObject
  <2> QED
    BY <2>2, <2>3, <2>4, <2>5, <2>6, ObjectFields
<1> QED
  BY <1>1 DEF ObjectsOK, Grows, IsSequence

-----------------------------------------------------------------------------
(* The recursive functions of the model.                                   *)

LEMMA SumExists ==
  ASSUME NEW n \in Nat, NEW d, \A i \in 2..(n + 1) : d[i] \in Int
  PROVE  \E g \in [1..(n + 1) -> Int] : g = [i \in 1..(n + 1) |-> IF i = 1 THEN 0 ELSE g[i - 1] + d[i]]
<1> DEFINE Is(g, k) == \A i \in 1..(k + 1) : g[i] = IF i = 1 THEN 0 ELSE g[i - 1] + d[i]
           Bad == {k \in 0..n : ~ \E g \in [1..(k + 1) -> Int] : Is(g, k)}
<1>1. Bad = {}
  <2>1. SUFFICES ASSUME Bad # {} PROVE FALSE
    OBVIOUS
  <2>2. PICK k \in Bad : \A j \in Bad : k <= j
    <3>1. Bad \in SUBSET Nat
      OBVIOUS
    <3> HIDE DEF Bad
    <3> QED
      BY <2>1, <3>1, LeastNatural
  <2>3. k # 0
    <3> DEFINE z == [i \in 1..1 |-> 0]
    <3>1. z \in [1..(0 + 1) -> Int] /\ Is(z, 0)
      OBVIOUS
    <3> QED
      BY <2>2, <3>1
  <2>4. k - 1 \in 0..n /\ k - 1 \notin Bad
    <3>1. k \in 0..n
      OBVIOUS
    <3>2. k - 1 \in 0..n /\ ~ (k <= k - 1)
      BY <2>3, <3>1
    <3> HIDE DEF Bad
    <3> QED
      BY <2>2, <3>2
  <2>5. PICK g \in [1..k -> Int] : Is(g, k - 1)
    <3>1. (k - 1) + 1 = k
      OBVIOUS
    <3>2. \E g \in [1..((k - 1) + 1) -> Int] : Is(g, k - 1)
      BY <2>4
    <3> QED
      BY <3>1, <3>2
  <2> DEFINE h == [i \in 1..(k + 1) |-> IF i = k + 1 THEN g[k] + d[k + 1] ELSE g[i]]
  <2>6. k \in 1..n /\ d[k + 1] \in Int /\ g[k] \in Int
    BY <2>3
  <2>7. h \in [1..(k + 1) -> Int]
    BY <2>6
  <2>8. Is(h, k)
    <3>1. SUFFICES ASSUME NEW i \in 1..(k + 1) PROVE h[i] = IF i = 1 THEN 0 ELSE h[i - 1] + d[i]
      OBVIOUS
    <3>2. CASE i = k + 1
      BY <2>6, <3>2
    <3>3. CASE i # k + 1
      <4>1. i \in 1..((k - 1) + 1)
        BY <2>6, <3>3
      <4>2. g[i] = IF i = 1 THEN 0 ELSE g[i - 1] + d[i]
        BY <2>5, <4>1
      <4> QED
        BY <2>6, <3>3, <4>1, <4>2
    <3> QED
      BY <3>2, <3>3
  <2> QED
    BY <2>2, <2>7, <2>8
<1>2. PICK g \in [1..(n + 1) -> Int] : Is(g, n)
  <2>1. n \in 0..n
    OBVIOUS
  <2> HIDE DEF Is
  <2> QED
    BY <1>1, <2>1
<1>3. g = [i \in 1..(n + 1) |-> g[i]]
  OBVIOUS
<1>4. g = [i \in 1..(n + 1) |-> IF i = 1 THEN 0 ELSE g[i - 1] + d[i]]
  BY <1>2, <1>3
<1> QED
  BY <1>4

\* How the count changes from an instruction to the next one.
LEMMA PushedStep ==
  ASSUME NEW p \in Programs, NEW f \in DOMAIN p, Len(p[f]) \in Nat
  PROVE  /\ Pushed(p[f])[1] = 0
         /\ \A i \in 1..Len(p[f]) : /\ Pushed(p[f])[i] \in Nat /\ Pushed(p[f])[i + 1] \in Nat
                                    /\ p[f][i].op = "push" => Pushed(p[f])[i + 1] = Pushed(p[f])[i] + 1
                                    /\ p[f][i].op = "call" => /\ p[f][i].n \in Nat /\ p[f][i].n <= Pushed(p[f])[i]
                                                              /\ Pushed(p[f])[i + 1] = Pushed(p[f])[i] - p[f][i].n
                                    /\ p[f][i].op \notin {"push", "call"} => Pushed(p[f])[i + 1] = Pushed(p[f])[i]
<1> DEFINE body == p[f]
           n == Len(body)
           change(i) == IF body[i - 1].op = "push" THEN 1 ELSE IF body[i - 1].op = "call" THEN -body[i - 1].n ELSE 0
           d == [i \in 2..(n + 1) |-> change(i)]
           Is(g) == g = [i \in 1..(n + 1) |-> IF i = 1 THEN 0 ELSE g[i - 1] + change(i)]
<1>1. WellFormedBody(p, f)
  BY HeapAssumption DEF WellFormed
<1>2. \A i \in 1..n : Pushed(body)[i] \in Nat /\ (body[i].op = "call" => body[i].n \in 0..Pushed(body)[i])
  BY <1>1 DEF WellFormedBody
<1>3. \A i \in 1..n : body[i].op = "call" => body[i].n \in Nat /\ body[i].n <= Pushed(body)[i]
  BY <1>2
<1>4. \A i \in 2..(n + 1) : change(i) \in Int
  <2>1. \A i \in 2..(n + 1) : i - 1 \in 1..n
    OBVIOUS
  <2> HIDE DEF body, n
  <2> QED
    BY <1>3, <2>1
<1>5. Pushed(body) = CHOOSE g : Is(g)
  BY DEF Pushed
<1>6. \E g : Is(g)
  <2>1. \A i \in 2..(n + 1) : d[i] \in Int
    BY <1>4
  <2>2. n \in Nat
    OBVIOUS
  <2> HIDE DEF d, n
  <2>3. PICK g \in [1..(n + 1) -> Int] : g = [i \in 1..(n + 1) |-> IF i = 1 THEN 0 ELSE g[i - 1] + d[i]]
    BY <2>1, <2>2, SumExists
  <2>4. \A i \in 1..(n + 1) : i # 1 => i \in 2..(n + 1)
    BY <2>2
  <2>5. \A i \in 1..(n + 1) : i # 1 => d[i] = change(i)
    BY <2>4 DEF d
  <2>6. g = [i \in 1..(n + 1) |-> IF i = 1 THEN 0 ELSE g[i - 1] + change(i)]
    BY <2>3, <2>5
  <2> QED
    BY <2>6
<1>7. Is(Pushed(body))
  <2> HIDE DEF Is
  <2> QED
    BY <1>5, <1>6
<1>8. \A i \in 1..(n + 1) : Pushed(body)[i] = IF i = 1 THEN 0 ELSE Pushed(body)[i - 1] + change(i)
  BY <1>7
<1> HIDE DEF Is, d
<1>9. \A i \in 1..n : Pushed(body)[i + 1] = Pushed(body)[i] + change(i + 1)
  BY <1>8
<1>10. \A i \in 1..n : change(i + 1) = IF body[i].op = "push" THEN 1 ELSE IF body[i].op = "call" THEN -body[i].n ELSE 0
  OBVIOUS
<1> HIDE DEF change, body, n
<1>11. n \in Nat
  BY DEF n, body
<1>12. Pushed(body)[1] = 0
  BY <1>8, <1>11
<1> QED
  BY <1>2, <1>3, <1>9, <1>10, <1>12 DEF body, n

\* A function that is written down `levels' deep or deeper finds that many scopes.
LEMMA OutwardsContext ==
  ASSUME NEW L, ObjectsOK(L), NEW c \in Contexts, NEW levels \in 0..Depth[heap[c].fn], Depth[heap[c].fn] \in Nat
  PROVE  Outwards(c, levels) \in Contexts
<1> DEFINE d == Depth[heap[c].fn]
           Is(g, k) == \A l \in 0..k : g[l] = IF l = 0 THEN c ELSE heap[g[l - 1]].parent
           Good(g, k) == Is(g, k) /\ \A l \in 0..k : Depth[heap[g[l]].fn] = d - l
           Bad == {k \in 0..levels : ~ \E g \in [0..k -> Contexts] : Good(g, k)}
<1>0. levels \in Nat /\ d \in Nat /\ levels <= d
  OBVIOUS
<1>1. Bad = {}
  <2>1. SUFFICES ASSUME Bad # {} PROVE FALSE
    OBVIOUS
  <2>2. PICK k \in Bad : \A j \in Bad : k <= j
    <3>1. Bad \in SUBSET Nat
      BY <1>0
    <3> HIDE DEF Bad
    <3> QED
      BY <2>1, <3>1, LeastNatural
  <2>3. k # 0
    <3> DEFINE z == [l \in 0..0 |-> c]
    <3>1. z \in [0..0 -> Contexts] /\ Good(z, 0)
      BY <1>0
    <3> QED
      BY <2>2, <3>1
  <2>4. k \in 0..levels
    OBVIOUS
  <2>5. k - 1 \in 0..levels /\ k - 1 \notin Bad
    <3>1. k - 1 \in 0..levels /\ ~ (k <= k - 1)
      BY <1>0, <2>3, <2>4
    <3> HIDE DEF Bad
    <3> QED
      BY <2>2, <3>1
  <2>6. PICK g \in [0..(k - 1) -> Contexts] : Good(g, k - 1)
    <3> HIDE DEF Good
    <3> QED
      BY <2>5
  <2>7. k \in 1..levels /\ k - 1 \in 0..(k - 1)
    BY <1>0, <2>3, <2>4
  <2>8. g[k - 1] \in Contexts /\ Depth[heap[g[k - 1]].fn] = d - (k - 1)
    BY <2>6, <2>7
  <2> DEFINE q == heap[g[k - 1]].parent
  <2>9. q \in Contexts /\ Depth[heap[q].fn] = d - k
    <3>1. IsContext(heap[g[k - 1]], L)
      <4>1. IsObject(heap[g[k - 1]], L) /\ heap[g[k - 1]].type = "context"
        BY <2>8 DEF ObjectsOK, Contexts
      <4> QED
        BY <4>1 DEF IsObject, IsFunctionRef, Freed
    <3>2. d - (k - 1) > 0 /\ d - (k - 1) - 1 = d - k
      BY <1>0, <2>7
    <3> HIDE DEF d
    <3> QED
      BY <2>8, <3>1, <3>2 DEF IsContext
  <2> DEFINE h == [l \in 0..k |-> IF l = k THEN q ELSE g[l]]
  <2>10. \A l \in 0..k : l # k => l \in 0..(k - 1)
    BY <2>7
  <2> HIDE DEF d
  <2>11. h \in [0..k -> Contexts]
    BY <2>9, <2>10
  <2>12. \A l \in 0..k : Depth[heap[h[l]].fn] = d - l
    BY <2>6, <2>9, <2>10
  <2>13. \A l \in 0..k : h[l] = IF l = 0 THEN c ELSE heap[h[l - 1]].parent
    <3>1. SUFFICES ASSUME NEW l \in 0..k PROVE h[l] = IF l = 0 THEN c ELSE heap[h[l - 1]].parent
      OBVIOUS
    <3>2. CASE l = k
      BY <2>7, <3>2
    <3>3. CASE l # k
      <4>1. l \in 0..(k - 1) /\ (l # 0 => l - 1 \in 0..k /\ l - 1 # k)
        BY <2>7, <3>3
      <4>2. g[l] = IF l = 0 THEN c ELSE heap[g[l - 1]].parent
        BY ZenonT(40), <2>6, <4>1
      <4> QED
        BY <3>3, <4>1, <4>2
    <3> QED
      BY <3>2, <3>3
  <2>14. Good(h, k)
    BY <2>12, <2>13
  <2> HIDE DEF Good, h
  <2> QED
    BY <2>2, <2>11, <2>14
<1> DEFINE Rec(g) == g = [l \in 0..levels |-> IF l = 0 THEN c ELSE heap[g[l - 1]].parent]
<1>2. \E g : Rec(g)
  <2>1. PICK g \in [0..levels -> Contexts] : Good(g, levels)
    <3>1. levels \in 0..levels
      BY <1>0
    <3> HIDE DEF Good
    <3> QED
      BY <1>1, <3>1
  <2>2. g = [l \in 0..levels |-> g[l]]
    OBVIOUS
  <2>3. Rec(g)
    BY <2>1, <2>2
  <2> QED
    BY <2>3
<1> DEFINE o == CHOOSE g : Rec(g)
<1>3. Rec(o)
  <2> HIDE DEF Rec
  <2> QED
    BY <1>2
<1>4. Outwards(c, levels) = o[levels]
  BY DEF Outwards
<1> HIDE DEF o
<1>5. \A l \in 0..levels : o[l] \in Contexts /\ Depth[heap[o[l]].fn] = d - l
  <2> DEFINE Off == {l \in 0..levels : ~ (o[l] \in Contexts /\ Depth[heap[o[l]].fn] = d - l)}
  <2>1. SUFFICES ASSUME Off # {} PROVE FALSE
    OBVIOUS
  <2>2. PICK l \in Off : \A j \in Off : l <= j
    <3>1. Off \in SUBSET Nat
      BY <1>0
    <3> HIDE DEF Off
    <3> QED
      BY <2>1, <3>1, LeastNatural
  <2>3. l \in 0..levels /\ o[l] = IF l = 0 THEN c ELSE heap[o[l - 1]].parent
    BY <1>3
  <2>4. l # 0
    BY <1>0, <2>2, <2>3
  <2>5. l - 1 \in 0..levels /\ ~ (l <= l - 1) /\ l \in 1..levels
    BY <1>0, <2>3, <2>4
  <2>6. o[l - 1] \in Contexts /\ Depth[heap[o[l - 1]].fn] = d - (l - 1)
    BY <2>2, <2>5
  <2>7. IsContext(heap[o[l - 1]], L)
    <3>1. IsObject(heap[o[l - 1]], L) /\ heap[o[l - 1]].type = "context"
      BY <2>6 DEF ObjectsOK, Contexts
    <3> QED
      BY <3>1 DEF IsObject, IsFunctionRef, Freed
  <2>8. d - (l - 1) > 0 /\ d - (l - 1) - 1 = d - l
    BY <1>0, <2>5
  <2> HIDE DEF d
  <2>9. o[l] \in Contexts /\ Depth[heap[o[l]].fn] = d - l
    BY <2>3, <2>4, <2>6, <2>7, <2>8 DEF IsContext
  <2> QED
    BY <2>2, <2>9
<1> QED
  BY <1>0, <1>4, <1>5

-----------------------------------------------------------------------------
(* The instruction that runs.                                              *)

LEMMA ContextAt ==
  ASSUME NEW L, ObjectsOK(L), NEW c \in Contexts
  PROVE  IsContext(heap[c], L)
<1>1. IsObject(heap[c], L) /\ heap[c].type = "context"
  BY DEF ObjectsOK, Contexts
<1> QED
  BY <1>1 DEF IsObject, IsFunctionRef, Freed

\* A context is in the code of a function of the program.
LEMMA BodyFacts ==
  ASSUME NEW L, NEW A, NEW floor, Sound(L, A, floor), NEW c \in Contexts
  PROVE  /\ program \in Programs /\ heap[c].fn \in DOMAIN program /\ heap[c].pc \in Nat \ {0}
         /\ Len(program[heap[c].fn]) \in Nat /\ Depth[heap[c].fn] \in Nat
         /\ WellFormedBody(program, heap[c].fn)
<1>1. IsContext(heap[c], L) /\ program \in Programs
  BY ContextAt DEF Sound
<1>2. WellFormed(program)
  BY <1>1, HeapAssumption
<1> QED
  BY <1>1, <1>2 DEF WellFormed, WellFormedBody, IsContext

\* The interpreter that runs has a state, a context and a stack.
LEMMA RunFacts ==
  ASSUME NEW L, NEW A, NEW floor, Sound(L, A, floor)
  PROVE  /\ Len(runs) \in 1..Len(runs) /\ Len(runs) \in Nat \ {0} /\ Run = runs[Len(runs)]
         /\ Ctx \in Contexts /\ Ctx \in A /\ Ctx \in DOMAIN heap /\ IsContext(heap[Ctx], L)
         /\ Local \in [Registers -> Kept(L)]
         /\ Self \in L /\ Self \in DOMAIN states /\ states[Self] \in States /\ states[Self] # Freed
         /\ Ptr \in 0..MaxStack /\ Ptr \in Nat /\ floor[Ctx] \in Nat /\ Ptr >= floor[Ctx] + PushedAt(Ctx) /\ PushedAt(Ctx) \in Nat
<1>1. L \subseteq DOMAIN states /\ ObjectsOK(L) /\ StatesOK(L) /\ RunsOK(L) /\ ActiveOK(A, floor)
  BY DEF Sound
<1>2. Run = runs[Len(runs)] /\ Ctx = runs[Len(runs)].ctx /\ Self = runs[Len(runs)].state
  BY DEF Run, Ctx, Self, Last
<1>3. Len(runs) \in 1..Len(runs) /\ Len(runs) \in Nat \ {0} /\ Ctx \in Contexts /\ Self \in L
  BY <1>1, <1>2, RunFields
<1>4. IsContext(heap[Ctx], L) /\ Ctx \in DOMAIN heap
  BY <1>1, <1>3, ContextAt DEF Contexts
<1>5. Local \in [Registers -> Kept(L)]
  BY <1>4 DEF Local, IsContext
<1>6. states[Self] \in States /\ states[Self] # Freed
  BY <1>1, <1>3, Sequences DEF StatesOK
<1>7. Ptr \in 0..MaxStack /\ Ptr \in Nat
  BY <1>6, HeapAssumption DEF States, Ptr
<1>8. StackOK(Len(runs), A, floor) /\ floor \in [A -> Nat]
  BY <1>1, <1>3 DEF ActiveOK
<1>9. Ctx \in A /\ Ptr >= floor[Ctx] + PushedAt(Ctx) /\ PushedAt(Ctx) \in Nat /\ floor[Ctx] \in Nat
  BY Zenon, <1>2, <1>8 DEF StackOK, Ptr
<1> QED
  BY <1>1, <1>2, <1>3, <1>4, <1>5, <1>6, <1>7, <1>9

\* What the program guarantees of the instruction that runs.
LEMMA Instruction ==
  ASSUME NEW L, NEW A, NEW floor, Sound(L, A, floor), heap[Ctx].pc <= Len(Body)
  PROVE  /\ heap[Ctx].pc \in 1..Len(Body)
         /\ x.op \in {"mov", "number", "function", "object", "get_outer", "get", "get_static", "new"} =>
              x.r \in Registers \ {1}
         /\ x.op \in {"set_outer", "set", "set_static", "push", "call", "return"} => x.r \in Registers
         /\ x.op \in {"mov", "get"} => x.from \in Registers
         /\ x.op \in {"get_outer", "get"} => x.slot \in Registers
         /\ x.op \in {"set_outer", "set"} => x.slot \in Registers \ {1}
         /\ x.op = "set" => x.to \in Registers
         /\ x.op \in {"get_outer", "set_outer"} => x.levels \in 0..Depth[heap[Ctx].fn]
         /\ x.op = "function" => x.fn \in DOMAIN program /\ Depth[x.fn] = Depth[heap[Ctx].fn] + 1
         /\ x.op = "new" => x.class \in DOMAIN program /\ Depth[x.class] = 0
         /\ x.op = "call" => x.dest \in Registers \ {1}
<1>1. Ctx \in Contexts
  BY RunFacts
<1>2. WellFormedBody(program, heap[Ctx].fn) /\ heap[Ctx].pc \in 1..Len(program[heap[Ctx].fn])
  BY <1>1, BodyFacts DEF Body
<1> QED
  BY Zenon, <1>2 DEF WellFormedBody, x, Body

\* What an instruction does to the number of arguments pushed.
LEMMA InstructionPushed ==
  ASSUME NEW L, NEW A, NEW floor, Sound(L, A, floor), heap[Ctx].pc <= Len(Body)
  PROVE  /\ PushedAt(Ctx) \in Nat /\ PushedAfter(Ctx) \in Nat
         /\ x.op = "push" => PushedAfter(Ctx) = PushedAt(Ctx) + 1
         /\ x.op = "call" => x.n \in Nat /\ x.n <= PushedAt(Ctx) /\ PushedAfter(Ctx) = PushedAt(Ctx) - x.n
         /\ x.op \notin {"push", "call"} => PushedAfter(Ctx) = PushedAt(Ctx)
<1>1. Ctx \in Contexts
  BY RunFacts
<1>2. heap[Ctx].pc \in 1..Len(program[heap[Ctx].fn]) /\ program \in Programs /\ heap[Ctx].fn \in DOMAIN program
      /\ Len(program[heap[Ctx].fn]) \in Nat
  BY <1>1, BodyFacts DEF Body
<1> QED
  BY <1>2, PushedStep DEF PushedAt, PushedAfter, x, Body

\* The invariant implies that a call finds its arguments on the stack.
LEMMA SoundCalls ==
  ASSUME IInv
  PROVE  ArgumentsPushed
<1>1. PICK L \in SUBSET DOMAIN states, A \in SUBSET DOMAIN heap : \E floor \in [A -> Nat] : Sound(L, A, floor)
  BY DEF IInv
<1>2. PICK floor \in [A -> Nat] : Sound(L, A, floor)
  BY <1>1
<1>3. SUFFICES ASSUME IsOp("call") PROVE x.n <= Ptr
  BY DEF ArgumentsPushed
<1>4. x.n \in Nat /\ x.n <= PushedAt(Ctx) /\ PushedAt(Ctx) \in Nat
  BY <1>2, <1>3, InstructionPushed DEF IsOp
<1>5. Ptr \in Nat /\ floor[Ctx] \in Nat /\ Ptr >= floor[Ctx] + PushedAt(Ctx)
  BY <1>2, RunFacts
<1> QED
  BY <1>4, <1>5

-----------------------------------------------------------------------------
(* The invariant where a step leaves things as they are.                   *)

\* The register that a run was called from is not written.
HeldStays(i) == heap'[runs[i].callee[1]].locals[runs[i].callee[2]] = heap[runs[i].callee[1]].locals[runs[i].callee[2]]

\* What holds an interpreter's state while it runs stays.
LEMMA CalledStays ==
  ASSUME NEW L, NEW A, NEW floor, Sound(L, A, floor), Grows(L), NEW i \in 2..Len(runs), HeldStays(i) \/ CalleeKept(i)',
         runs'[i].state = runs[i].state, runs'[i].callee = runs[i].callee, runs'[i].kind = runs[i].kind,
         runs'[i].dest = runs[i].dest, runs'[i - 1].ctx = runs[i - 1].ctx,
         runs[i].kind = "clone" => runs[i].state \in roots'
  PROVE  Called(i)'
<1>1. L \subseteq DOMAIN states /\ ObjectsOK(L) /\ StatesOK(L) /\ RunsOK(L)
  BY DEF Sound
<1>2. i \in 1..Len(runs) /\ i > 1 /\ i - 1 \in 1..Len(runs)
  BY <1>1, RunFields
<1>3. Called(i)
  BY Zenon, <1>1, <1>2 DEF RunsOK, RunOK
<1> DEFINE c == runs[i].callee[1]
           r == runs[i].callee[2]
           v == heap[c].locals[r]
<1>4. c \in Contexts /\ r \in Registers
  BY Zenon, <1>1, <1>2, <1>3, RunFields DEF Called
<1>5. v \in Kept(L)
  BY <1>1, <1>4, ContextAt DEF IsContext
<1>6. v > 0 => v \in DOMAIN heap
  <2>1. \A s \in L : s \in Nat /\ ~ (This(s) > 0)
    BY SMTT(40), <1>1, Sequences DEF This
  <2> HIDE DEF v
  <2> QED
    BY <1>5, <2>1 DEF Kept, NUMBER
<1>7. v > 0 /\ heap[v].type \in {"function", "instance"} => heap'[v] = heap[v]
  BY <1>1, <1>6, Grown
<1> HIDE DEF v
<1>9. /\ c = runs[i - 1].ctx /\ r \in Registers \ {1}
      /\ runs[i].kind \in {"call", "clone", "new"}
      /\ runs[i].kind # "new" => runs[i].dest \in Registers \ {1}
      /\ runs[i].kind = "call" => v > 0 /\ heap[v].type = "function" /\ heap[v].state = runs[i].state
      /\ runs[i].kind = "new" => v > 0 /\ heap[v] = Instance(runs[i].state)
  BY Zenon, <1>3 DEF Called, CalleeKept, v
<1>10. /\ runs[i].kind = "call" => v > 0 /\ heap'[v].type = "function" /\ heap'[v].state = runs[i].state
       /\ runs[i].kind = "new" => v > 0 /\ heap'[v] = Instance(runs[i].state)
  BY <1>7, <1>9 DEF Instance
<1>11. CalleeKept(i)'
  <2>1. SUFFICES ASSUME HeldStays(i) PROVE CalleeKept(i)'
    OBVIOUS
  <2>2. heap'[c].locals[r] = v
    BY Zenon, <2>1 DEF HeldStays, v
  <2> QED
    BY <1>10, <2>2 DEF CalleeKept, Instance
<1> QED
  BY <1>9, <1>11 DEF Called

\* So does a run that a step leaves alone,
LEMMA RunStays ==
  ASSUME NEW L, NEW A, NEW floor, Sound(L, A, floor), Grows(L), NEW i \in 1..Len(runs),
         i > 1 => (HeldStays(i) \/ CalleeKept(i)') /\ runs'[i - 1].ctx = runs[i - 1].ctx,
         runs'[i] = runs[i], runs[i].kind = "clone" => runs[i].state \in roots',
         states'[runs[i].state].running = states[runs[i].state].running,
         states'[runs[i].state].current = states[runs[i].state].current
  PROVE  RunOK(i)'
<1>1. L \subseteq DOMAIN states /\ ObjectsOK(L) /\ StatesOK(L) /\ RunsOK(L)
  BY DEF Sound
<1>2. i > 1 => i \in 2..Len(runs)
  BY <1>1, RunFields
<1>3. i > 1 => Called(i)'
  BY <1>2, CalledStays
<1> DEFINE s == runs[i].state
<1>4. s \in L /\ states[s].current \in Contexts
  BY <1>1, RunFields DEF StatesOK
<1>5. heap'[states[s].current].return = heap[states[s].current].return
  BY <1>1, <1>4, Grown
<1>6. states[s].running /\ runs[i].ctx \in {states[s].current, heap[states[s].current].return}
  BY <1>1 DEF RunsOK, RunOK
<1>7. states'[s].running /\ runs'[i].ctx \in {states'[s].current, heap'[states'[s].current].return}
  BY <1>5, <1>6
<1> QED
  BY <1>3, <1>7 DEF RunOK

\* the caller of an active context,
LEMMA CallerStays ==
  ASSUME NEW L, NEW A, NEW floor, Sound(L, A, floor), Grows(L), NEW A1, NEW c \in A, c \in A1, heap[c].return \in A1,
         \A d \in A1 : heap'[d].return = heap[c].return => d = c,
         \A i \in 1..Len(runs') : runs'[i].ctx # heap[c].return,
         heap[c].return # 0 => heap'[heap[c].return].pc = heap[heap[c].return].pc,
         NEW floor1, floor1[c] = floor[c], floor1[heap[c].return] = floor[heap[c].return]
  PROVE  CallerOK(c, A1, floor1)'
<1>1. L \subseteq DOMAIN states /\ ObjectsOK(L) /\ StatesOK(L) /\ ActiveOK(A, floor)
  BY DEF Sound
<1>2. c \in Contexts /\ CallerOK(c, A, floor) /\ A \subseteq Contexts
  BY <1>1 DEF ActiveOK
<1>3. heap'[c].return = heap[c].return
  BY <1>1, <1>2, Grown
<1>4. CASE heap[c].return = 0
  BY <1>3, <1>4 DEF CallerOK
<1>5. CASE heap[c].return # 0
  <2> DEFINE r == heap[c].return
  <2>1. r \in A /\ r \in Contexts
    BY <1>2, <1>5 DEF CallerOK
  <2>2. heap'[r].fn = heap[r].fn /\ heap'[r].pc = heap[r].pc /\ program' = program
    BY <1>1, <1>5, <2>1, Grown DEF Grows
  <2>3. heap[r].pc <= Len(program[heap[r].fn]) /\ floor[c] >= floor[r] + PushedAfter(r)
    BY <1>2, <1>5 DEF CallerOK
  <2>4. PushedAfter(r)' = PushedAfter(r)
    BY <1>3, <2>2 DEF PushedAfter
  <2> QED
    BY <1>3, <1>5, <2>2, <2>3, <2>4 DEF CallerOK
<1> QED
  BY <1>4, <1>5

\* and the arguments that a run has pushed.
LEMMA StackStays ==
  ASSUME NEW L, NEW A, NEW floor, Sound(L, A, floor), Grows(L), NEW i \in 1..Len(runs), NEW A1, NEW floor1,
         runs'[i].ctx = runs[i].ctx, runs'[i].state = runs[i].state, runs[i].ctx \in A1, floor1[runs[i].ctx] = floor[runs[i].ctx],
         heap'[runs[i].ctx].pc = heap[runs[i].ctx].pc,
         states'[runs[i].state].ptr \in Nat, states'[runs[i].state].ptr >= states[runs[i].state].ptr,
         i < Len(runs') => i < Len(runs)
  PROVE  StackOK(i, A1, floor1)'
<1>1. L \subseteq DOMAIN states /\ ObjectsOK(L) /\ StatesOK(L) /\ ActiveOK(A, floor) /\ RunsOK(L)
  BY DEF Sound
<1> DEFINE c == runs[i].ctx
           s == runs[i].state
<1>2. StackOK(i, A, floor) /\ c \in Contexts
  BY <1>1, RunFields DEF ActiveOK
<1>3. heap'[c].fn = heap[c].fn /\ heap'[c].pc = heap[c].pc /\ program' = program
  BY <1>1, <1>2, Grown DEF Grows
<1>4. PushedAt(c)' = PushedAt(c) /\ At(c)' = At(c)
  BY <1>3 DEF PushedAt, At
<1>5. s \in L /\ states[s] \in States /\ states[s].ptr \in Nat
  <2>1. s \in L /\ states[s] \in States
    BY <1>1, RunFields, Sequences DEF StatesOK
  <2> QED
    BY <2>1, HeapAssumption DEF States
<1>6. floor[c] \in Nat
  BY <1>1, <1>2 DEF ActiveOK, StackOK
<1>7. c \in A /\ states[s].ptr >= floor[c] + PushedAt(c) /\ PushedAt(c) \in Nat
  BY <1>2 DEF StackOK
<1> QED
  BY <1>2, <1>3, <1>4, <1>5, <1>6, <1>7 DEF StackOK

\* A sequence of S is a sequence of any larger set.
LEMMA SequenceSubset ==
  ASSUME NEW S, NEW T, S \subseteq T, NEW q \in Seq(S)
  PROVE  q \in Seq(T)
OBVIOUS

\* A state that is new or changed.
StateOK(s, L) ==
  /\ states[s] \in States
  /\ states[s].root \in Contexts /\ states[s].current \in Contexts
  /\ gc_visit_stack(states[s].ptr) \subseteq Kept(L)

\* States stay sound if those that change are.
LEMMA StatesStay ==
  ASSUME NEW L, NEW A, NEW floor, Sound(L, A, floor), Grows(L), NEW L1, L \subseteq L1, L1 \subseteq DOMAIN states',
         IsSequence(states'),
         \A i \in 1..MaxStack : stack'[i] = stack[i] \/ stack'[i] \in Kept(L),
         \A s \in DOMAIN states' : \/ s \in DOMAIN states /\ states'[s] = states[s] /\ (s \in L1 => s \in L)
                                   \/ StateOK(s, L1)'
  PROVE  StatesOK(L1)'
<1>1. L \subseteq DOMAIN states /\ ObjectsOK(L) /\ StatesOK(L)
  BY DEF Sound
<1>2. States \subseteq States' /\ Kept(L) \subseteq Kept(L1)' /\ Contexts \subseteq Contexts'
  BY <1>1, Grown DEF States, Grows
<1>3. \A s \in DOMAIN states : states[s] \in States' \cup {Freed}
  BY <1>1, <1>2, Sequences
<1>4. states' \in Seq((States \cup {Freed})')
  <2>1. \A s \in DOMAIN states' : states'[s] \in States' \cup {Freed}
    BY <1>3 DEF StateOK
  <2>2. {states'[s] : s \in DOMAIN states'} \subseteq States' \cup {Freed}
    BY <2>1
  <2>3. states' \in Seq(States' \cup {Freed})
    BY <2>2, SequenceSubset DEF IsSequence
  <2> QED
    BY <2>3 DEF Freed
<1>5. ASSUME NEW s \in L1
      PROVE  /\ states'[s] # Freed
             /\ states'[s].root \in Contexts' /\ states'[s].current \in Contexts'
             /\ gc_visit_stack(states[s].ptr)' \subseteq Kept(L1)'
  <2>1. CASE StateOK(s, L1)'
    BY <2>1 DEF StateOK, States, Freed
  <2>2. CASE s \in L /\ states'[s] = states[s]
    <3>1. /\ states[s] # Freed
          /\ states[s].root \in Contexts /\ states[s].current \in Contexts
          /\ gc_visit_stack(states[s].ptr) \subseteq Kept(L)
      BY <1>1, <2>2 DEF StatesOK
    <3>2. states[s].ptr \in 0..MaxStack
      BY <1>1, <2>2, <3>1, Sequences DEF States
    <3>3. \A i \in 1..states[s].ptr : stack'[i] \in Kept(L)
      BY <3>1, <3>2, HeapAssumption DEF gc_visit_stack
    <3>4. gc_visit_stack(states[s].ptr)' \subseteq Kept(L)
      BY <2>2, <3>3 DEF gc_visit_stack
    <3> QED
      BY <1>2, <2>2, <3>1, <3>4
  <2> QED
    BY <2>1, <2>2
<1> QED
  BY <1>4, <1>5 DEF StatesOK, Freed

\* A push writes one place of the stack.
LEMMA StackTyped ==
  ASSUME NEW L, NEW A, NEW floor, Sound(L, A, floor), Grows(L), DOMAIN states \subseteq DOMAIN states',
         \/ stack' = stack
         \/ \E i, v : v \in Kept(L) /\ stack' = [stack EXCEPT ![i] = v]
  PROVE  /\ (stack \in [1..MaxStack -> Values])'
         /\ \A i \in 1..MaxStack : stack'[i] = stack[i] \/ stack'[i] \in Kept(L)
<1>1. L \subseteq DOMAIN states /\ ObjectsOK(L) /\ StatesOK(L) /\ stack \in [1..MaxStack -> Values]
  BY DEF Sound
<1>2. Values \subseteq Values'
  BY DEF Values, Grows, This, NUMBER
<1>3. Kept(L) \subseteq Values
  BY <1>1, Kinds
<1>4. stack' \in [1..MaxStack -> Values] /\ \A i \in 1..MaxStack : stack'[i] = stack[i] \/ stack'[i] \in Kept(L)
  BY <1>1, <1>3
<1>5. stack' \in [1..MaxStack -> Values']
  BY <1>2, <1>4
<1> QED
  BY <1>4, <1>5

\* An instruction that neither calls nor returns.
LEMMA InstructionStep ==
  ASSUME NEW L, NEW A, NEW floor, Sound(L, A, floor), Grows(L),
         UNCHANGED <<runs, roots>>, static' \in Kept(L), heap[Ctx].pc <= Len(Body),
         StatesOK(L)', (stack \in [1..MaxStack -> Values])', DOMAIN states' = DOMAIN states,
         \A s \in DOMAIN states \ {Self} : states'[s] = states[s],
         states'[Self].running = states[Self].running, states'[Self].current = states[Self].current,
         states'[Self].ptr \in Nat, states'[Self].ptr >= floor[Ctx] + PushedAfter(Ctx),
         \A o \in DOMAIN heap' \ DOMAIN heap : IsObject(heap[o], L)',
         \A c \in Contexts : heap'[c].pc = IF c = Ctx THEN heap[c].pc + 1 ELSE heap[c].pc,
         \A i \in 2..Len(runs) : HeldStays(i) \/ CalleeKept(i)'
  PROVE  Sound(L, A, floor)'
<1>1. L \subseteq DOMAIN states /\ ObjectsOK(L) /\ StatesOK(L) /\ RunsOK(L) /\ ActiveOK(A, floor) /\ program \in Programs
      /\ roots \subseteq L
  BY DEF Sound
<1>2. ObjectsOK(L)'
  BY <1>1, ObjectsStay
<1>3. Kept(L) \subseteq Kept(L)' /\ Contexts \subseteq Contexts'
  BY <1>1, Grown
<1>6. RunsOK(L)'
  <2>1. runs' \in Seq(Runs(L)')
    <3>1. Runs(L) \subseteq Runs(L)'
      BY <1>3 DEF Runs
    <3> QED
      BY <1>1, <3>1, SequenceSubset DEF RunsOK
  <2>2. ASSUME NEW i \in 1..Len(runs)
        PROVE  RunOK(i)'
    <3>1. runs[i].kind = "clone" => runs[i].state \in roots'
      <4>1. RunOK(i) /\ runs[1].kind = "main"
        BY <1>1 DEF RunsOK
      <4>2. i = 1 \/ i > 1
        BY <1>1, RunFields
      <4> QED
        BY <4>1, <4>2 DEF RunOK, Called
    <3>2. i > 1 => i \in 2..Len(runs)
      BY <1>1, RunFields
    <3>3. runs[i].state \in DOMAIN states
      BY <1>1, RunFields
    <3>4. /\ states'[runs[i].state].running = states[runs[i].state].running
          /\ states'[runs[i].state].current = states[runs[i].state].current
      BY <3>3
    <3> QED
      BY <3>1, <3>2, <3>4, RunStays
  <2> QED
    BY <1>1, <2>1, <2>2 DEF RunsOK
<1>7. ActiveOK(A, floor)'
  <2>1. A \subseteq Contexts'
    BY <1>1, <1>3 DEF ActiveOK
  <2>2. ASSUME NEW c \in A
        PROVE  CallerOK(c, A, floor)'
    <3>1. c \in Contexts /\ CallerOK(c, A, floor) /\ A \subseteq Contexts
      BY <1>1 DEF ActiveOK
    <3>2. CASE heap[c].return = 0
      BY <1>1, <3>1, <3>2, Grown DEF CallerOK
    <3>3. CASE heap[c].return # 0
      <4>1. heap[c].return \in A /\ \A d \in A : heap[d].return = heap[c].return => d = c
        BY <3>1, <3>3 DEF CallerOK
      <4>2. \A i \in 1..Len(runs) : runs[i].ctx # heap[c].return
        BY <3>1, <3>3 DEF CallerOK
      <4>3. heap[c].return # Ctx
        BY <4>2, RunFacts DEF Ctx
      <4>4. heap'[heap[c].return].pc = heap[heap[c].return].pc
        BY <3>1, <4>1, <4>3
      <4>5. \A d \in A : heap'[d].return = heap[d].return
        BY <1>1, <3>1, Grown
      <4> QED
        BY <4>1, <4>2, <4>4, <4>5, CallerStays
    <3> QED
      BY <3>2, <3>3
  <2>3. ASSUME NEW i \in 1..Len(runs)
        PROVE  StackOK(i, A, floor)'
    <3>1. StackOK(i, A, floor) /\ runs[i].ctx \in A /\ runs[i].ctx \in Contexts
      BY <1>1, RunFields DEF ActiveOK, StackOK
    <3>2. CASE runs[i].ctx # Ctx
      <4>1. heap'[runs[i].ctx].pc = heap[runs[i].ctx].pc
        BY <3>1, <3>2
      <4>2. states'[runs[i].state].ptr \in Nat /\ states'[runs[i].state].ptr >= states[runs[i].state].ptr
        <5>1. runs[i].state \in L /\ runs[i].state # Self
          <6>1. i # Len(runs)
            BY <3>2, RunFacts DEF Ctx
          <6> QED
            BY <1>1, <6>1, RunFields, RunFacts DEF RunsOK, Self
        <5>2. states[runs[i].state] \in States /\ states'[runs[i].state] = states[runs[i].state]
          BY <1>1, <5>1, Sequences DEF StatesOK
        <5>3. states[runs[i].state].ptr \in Nat
          BY <5>2, HeapAssumption DEF States
        <5> QED
          BY <5>2, <5>3
      <4> QED
        BY <3>1, <4>1, <4>2, StackStays
    <3>3. CASE runs[i].ctx = Ctx
      <4>1. i = Len(runs)
        BY SMTT(40), <1>1, <3>3, RunFacts DEF RunsOK, Ctx
      <4>2. heap'[Ctx].fn = heap[Ctx].fn /\ heap'[Ctx].pc = heap[Ctx].pc + 1 /\ program' = program
        BY <1>1, <3>1, <3>3, Grown DEF Grows
      <4>3. PushedAfter(Ctx) \in Nat
        BY InstructionPushed
      <4>4. Pushed(program'[heap'[Ctx].fn])[heap'[Ctx].pc] = PushedAfter(Ctx)
        BY <4>2 DEF PushedAfter
      <4>5. runs[i].state = Self
        BY <4>1, RunFacts DEF Self
      <4>6. runs'[i].ctx = Ctx
        BY <3>3
      <4> HIDE DEF Ctx
      <4>7. (PushedAt(runs[i].ctx))' = PushedAfter(Ctx)
        BY <4>4, <4>6 DEF PushedAt
      <4>8. ~ (i < Len(runs))
        BY <1>1, <4>1, RunFields
      <4> QED
        BY <3>1, <3>3, <4>3, <4>5, <4>6, <4>7, <4>8 DEF StackOK
    <3> QED
      BY <3>2, <3>3
  <2> QED
    BY <1>1, <2>1, <2>2, <2>3 DEF ActiveOK
<1> QED
  BY <1>1, <1>2, <1>3, <1>6, <1>7 DEF Sound, Grows

\* A step that writes registers or objects and goes on to the next instruction keeps the
\* invariant.
LEMMA WriteStep ==
  ASSUME NEW L, NEW A, NEW floor, Sound(L, A, floor), Grows(L),
         UNCHANGED <<states, stack, runs, roots>>, static' \in Kept(L),
         \A o \in DOMAIN heap' \ DOMAIN heap : IsObject(heap[o], L)',
         heap[Ctx].pc <= Len(Body), x.op \notin {"push", "call", "new"},
         \A c \in Contexts : heap'[c].pc = IF c = Ctx THEN heap[c].pc + 1 ELSE heap[c].pc,
         \A i \in 2..Len(runs) : HeldStays(i) \/ CalleeKept(i)'
  PROVE  Sound(L, A, floor)'
<1>1. L \subseteq DOMAIN states /\ StatesOK(L)
  BY DEF Sound
<1>2. StatesOK(L)'
  <2>1. IsSequence(states')
    <3>1. states \in Seq(States \cup {Freed})
      BY <1>1 DEF StatesOK
    <3>2. states = [s \in 1..Len(states) |-> states[s]] /\ Len(states) \in Nat
      BY <3>1
    <3> QED
      BY <3>2, SequenceIs
  <2> QED
    BY <1>1, <2>1, StatesStay
<1>3. (stack \in [1..MaxStack -> Values])'
  BY StackTyped
<1>4. states'[Self].ptr \in Nat /\ states'[Self].ptr >= floor[Ctx] + PushedAfter(Ctx)
  BY InstructionPushed, RunFacts DEF Ptr
<1> QED
  BY <1>2, <1>3, <1>4, InstructionStep

-----------------------------------------------------------------------------
(* Writing registers and program counters.                                 *)

\* h: the heap with value v in register r of context c, and context d at its next
\* instruction; no context is 0.
Edited(h, c, r, v, d) ==
  /\ IsSequence(h) /\ DOMAIN h = DOMAIN heap
  /\ \A o \in DOMAIN heap :
       h[o] = IF o \in Contexts
              THEN [heap[o] EXCEPT !.pc     = IF o = d THEN heap[o].pc + 1 ELSE heap[o].pc,
                                   !.locals = IF o = c THEN [heap[o].locals EXCEPT ![r] = v] ELSE heap[o].locals]
              ELSE heap[o]

\* The heap is a sequence.
LEMMA HeapSequence ==
  ASSUME NEW L, ObjectsOK(L)
  PROVE  /\ Len(heap) \in Nat /\ DOMAIN heap = 1..Len(heap) /\ IsSequence(heap) /\ New = Len(heap) + 1
         /\ New \notin DOMAIN heap /\ 0 \notin Contexts
         /\ \A h : DOMAIN h = DOMAIN heap /\ h = [o \in DOMAIN heap |-> h[o]] => IsSequence(h) /\ Len(h) = Len(heap)
<1>1. \A S, q : q \in Seq(S) => Len(q) \in Nat /\ DOMAIN q = 1..Len(q)
  OBVIOUS
<1>2. Len(heap) \in Nat /\ DOMAIN heap = 1..Len(heap) /\ IsSequence(heap)
  BY <1>1 DEF ObjectsOK, IsSequence
<1> QED
  BY <1>2, SequenceIs DEF New, Contexts

\* The fields of a context.
LEMMA ContextFields ==
  ASSUME NEW L, ObjectsOK(L), NEW o \in Contexts
  PROVE  /\ DOMAIN heap[o] = {"type", "fn", "pc", "parent", "return", "dest", "locals"}
         /\ heap[o] = [heap[o] EXCEPT !.pc = heap[o].pc, !.locals = heap[o].locals]
         /\ heap[o].pc \in Nat \ {0} /\ heap[o].locals \in [Registers -> Kept(L)]
         /\ o \in DOMAIN heap
<1>1. IsContext(heap[o], L)
  BY ContextAt
<1>2. heap[o] \in [type : {"context"}, fn : DOMAIN program, pc : Nat \ {0}, parent : Contexts \cup {0},
                   return : Contexts \cup {0}, dest : Nat, locals : [Registers -> Kept(L)]]
  BY <1>1 DEF IsContext
<1> QED
  BY <1>2 DEF Contexts

\* A write of a register and of a pc edits the heap,
LEMMA EditPut ==
  ASSUME NEW L, ObjectsOK(L), NEW c \in Contexts, NEW d \in Contexts, NEW r, NEW v,
         NEW h, h = [[heap EXCEPT ![c].locals[r] = v] EXCEPT ![d].pc = @ + 1]
  PROVE  Edited(h, c, r, v, d)
<1>1. DOMAIN h = DOMAIN heap /\ h = [o \in DOMAIN heap |-> h[o]]
  OBVIOUS
<1>2. IsSequence(h)
  BY <1>1, HeapSequence
<1>3. ASSUME NEW o \in DOMAIN heap
      PROVE  h[o] = IF o \in Contexts
                    THEN [heap[o] EXCEPT !.pc     = IF o = d THEN heap[o].pc + 1 ELSE heap[o].pc,
                                         !.locals = IF o = c THEN [heap[o].locals EXCEPT ![r] = v] ELSE heap[o].locals]
                    ELSE heap[o]
  <2>1. CASE o \notin Contexts
    BY <2>1
  <2>2. CASE o \in Contexts
    <3>1. DOMAIN heap[o] = {"type", "fn", "pc", "parent", "return", "dest", "locals"}
          /\ heap[o] = [heap[o] EXCEPT !.pc = heap[o].pc, !.locals = heap[o].locals]
      BY <2>2, ContextFields
    <3>2. CASE o = c /\ o = d
      BY <2>2, <3>1, <3>2
    <3>3. CASE o = c /\ o # d
      BY <2>2, <3>1, <3>3
    <3>4. CASE o # c /\ o = d
      <4>1. h[o] = [heap[o] EXCEPT !.pc = heap[o].pc + 1]
        BY <2>2, <3>4
      <4> DEFINE w == heap[o].pc + 1
      <4>2. h[o] = [heap[o] EXCEPT !.pc = w]
        BY <4>1
      <4> HIDE DEF w
      <4>3. [heap[o] EXCEPT !.pc = w] = [heap[o] EXCEPT !.pc = w, !.locals = heap[o].locals]
        BY <3>1
      <4>4. h[o] = [heap[o] EXCEPT !.pc = w, !.locals = heap[o].locals]
        BY <4>2, <4>3
      <4> QED
        BY <2>2, <3>4, <4>4 DEF w
    <3>5. CASE o # c /\ o # d
      BY <2>2, <3>1, <3>5
    <3> QED
      BY <3>2, <3>3, <3>4, <3>5
  <2> QED
    BY <2>1, <2>2
<1> QED
  BY <1>1, <1>2, <1>3 DEF Edited

\* and so does either one
LEMMA EditRegister ==
  ASSUME NEW L, ObjectsOK(L), NEW c \in Contexts, NEW r, NEW v, NEW h, h = [heap EXCEPT ![c].locals[r] = v]
  PROVE  Edited(h, c, r, v, 0)
<1>1. DOMAIN h = DOMAIN heap /\ h = [o \in DOMAIN heap |-> h[o]]
  OBVIOUS
<1>2. IsSequence(h) /\ 0 \notin Contexts
  BY <1>1, HeapSequence
<1>3. ASSUME NEW o \in DOMAIN heap
      PROVE  h[o] = IF o \in Contexts
                    THEN [heap[o] EXCEPT !.pc     = IF o = 0 THEN heap[o].pc + 1 ELSE heap[o].pc,
                                         !.locals = IF o = c THEN [heap[o].locals EXCEPT ![r] = v] ELSE heap[o].locals]
                    ELSE heap[o]
  <2>1. CASE o \notin Contexts
    BY <2>1
  <2>2. CASE o \in Contexts
    <3>1. DOMAIN heap[o] = {"type", "fn", "pc", "parent", "return", "dest", "locals"}
          /\ heap[o] = [heap[o] EXCEPT !.pc = heap[o].pc, !.locals = heap[o].locals]
      BY <2>2, ContextFields
    <3>2. CASE o = c
      BY <1>2, <2>2, <3>1, <3>2
    <3>3. CASE o # c
      BY <1>2, <2>2, <3>1, <3>3
    <3> QED
      BY <3>2, <3>3
  <2> QED
    BY <2>1, <2>2
<1> QED
  BY <1>1, <1>2, <1>3 DEF Edited

\* alone.
LEMMA EditNext ==
  ASSUME NEW L, ObjectsOK(L), NEW d \in Contexts, NEW h, h = [heap EXCEPT ![d].pc = @ + 1]
  PROVE  Edited(h, 0, 0, NUMBER, d)
<1>1. DOMAIN h = DOMAIN heap /\ h = [o \in DOMAIN heap |-> h[o]]
  OBVIOUS
<1>2. IsSequence(h) /\ 0 \notin Contexts
  BY <1>1, HeapSequence
<1>3. ASSUME NEW o \in DOMAIN heap
      PROVE  h[o] = IF o \in Contexts
                    THEN [heap[o] EXCEPT !.pc     = IF o = d THEN heap[o].pc + 1 ELSE heap[o].pc,
                                         !.locals = IF o = 0 THEN [heap[o].locals EXCEPT ![0] = NUMBER] ELSE heap[o].locals]
                    ELSE heap[o]
  <2>1. CASE o \notin Contexts
    BY <2>1
  <2>2. CASE o \in Contexts
    <3>1. DOMAIN heap[o] = {"type", "fn", "pc", "parent", "return", "dest", "locals"}
          /\ heap[o] = [heap[o] EXCEPT !.pc = heap[o].pc, !.locals = heap[o].locals]
      BY <2>2, ContextFields
    <3>2. CASE o = d
      <4>1. h[o] = [heap[o] EXCEPT !.pc = heap[o].pc + 1]
        BY <2>2, <3>2
      <4> QED
        BY ZenonT(40), <1>2, <2>2, <3>1, <3>2, <4>1
    <3>3. CASE o # d
      BY <1>2, <2>2, <3>1, <3>3
    <3> QED
      BY <3>2, <3>3
  <2> QED
    BY <2>1, <2>2
<1> QED
  BY <1>1, <1>2, <1>3 DEF Edited

\* What that says of each object.
Edits(h, c, r, v, d) ==
  /\ IsSequence(h) /\ Len(h) = Len(heap) /\ DOMAIN h = DOMAIN heap
  /\ \A o \in DOMAIN heap \ {c, d} : h[o] = heap[o]
  /\ \A o \in DOMAIN heap \ Contexts : h[o] = heap[o]
  /\ \A o \in Contexts : /\ h[o] = [heap[o] EXCEPT !.pc = h[o].pc, !.locals = h[o].locals]
                         /\ h[o].pc = IF o = d THEN heap[o].pc + 1 ELSE heap[o].pc
                         /\ h[o].locals = IF o = c THEN [heap[o].locals EXCEPT ![r] = v] ELSE heap[o].locals
  /\ \A o \in Contexts, q \in Registers : h[o].locals[q] = IF o = c /\ q = r THEN v ELSE heap[o].locals[q]

\* What an edit changes, object by object.
LEMMA EditedFacts ==
  ASSUME NEW L, ObjectsOK(L), NEW h, NEW c, NEW r, NEW v, NEW d, Edited(h, c, r, v, d)
  PROVE  Edits(h, c, r, v, d)
<1>1. IsSequence(h) /\ DOMAIN h = DOMAIN heap
  BY Zenon DEF Edited
<1>2. Len(h) = Len(heap)
  <2>1. \A S, q : q \in Seq(S) => Len(q) \in Nat /\ DOMAIN q = 1..Len(q)
    OBVIOUS
  <2>2. Len(h) \in Nat /\ DOMAIN h = 1..Len(h)
    BY <1>1, <2>1 DEF IsSequence
  <2>3. Len(heap) \in Nat /\ DOMAIN heap = 1..Len(heap)
    BY HeapSequence
  <2>4. \A m, n \in Nat : 1..m = 1..n => m = n
    <3>1. ASSUME NEW m \in Nat, NEW n \in Nat, 1..m = 1..n PROVE m <= n
      <4>1. m = 0 \/ m \in 1..m
        OBVIOUS
      <4>2. m = 0 \/ m \in 1..n
        BY <3>1, <4>1
      <4> QED
        BY <4>2
    <3> QED
      BY <3>1
  <2> QED
    BY <1>1, <2>2, <2>3, <2>4
<1>3. ASSUME NEW o \in Contexts
      PROVE  /\ h[o] = [heap[o] EXCEPT !.pc = h[o].pc, !.locals = h[o].locals]
             /\ h[o].pc = IF o = d THEN heap[o].pc + 1 ELSE heap[o].pc
             /\ h[o].locals = IF o = c THEN [heap[o].locals EXCEPT ![r] = v] ELSE heap[o].locals
             /\ (o # c /\ o # d => h[o] = heap[o])
  <2>1. DOMAIN heap[o] = {"type", "fn", "pc", "parent", "return", "dest", "locals"}
        /\ heap[o] = [heap[o] EXCEPT !.pc = heap[o].pc, !.locals = heap[o].locals] /\ o \in DOMAIN heap
    BY ContextFields
  <2> DEFINE pc == IF o = d THEN heap[o].pc + 1 ELSE heap[o].pc
             locals == IF o = c THEN [heap[o].locals EXCEPT ![r] = v] ELSE heap[o].locals
  <2>2. h[o] = [heap[o] EXCEPT !.pc = pc, !.locals = locals]
    BY <2>1 DEF Edited
  <2>3. o # c /\ o # d => pc = heap[o].pc /\ locals = heap[o].locals
    OBVIOUS
  <2> HIDE DEF pc, locals
  <2>4. h[o].pc = pc /\ h[o].locals = locals
    BY <2>1, <2>2
  <2> QED
    BY <2>1, <2>2, <2>3, <2>4 DEF pc, locals
<1>4. \A o \in Contexts, q \in Registers : h[o].locals[q] = IF o = c /\ q = r THEN v ELSE heap[o].locals[q]
  <2>1. SUFFICES ASSUME NEW o \in Contexts, NEW q \in Registers
                 PROVE  h[o].locals[q] = IF o = c /\ q = r THEN v ELSE heap[o].locals[q]
    OBVIOUS
  <2>2. heap[o].locals \in [Registers -> Kept(L)]
    BY ContextFields
  <2>3. h[o].locals = IF o = c THEN [heap[o].locals EXCEPT ![r] = v] ELSE heap[o].locals
    BY <1>3
  <2> QED
    BY <2>2, <2>3
<1>5. \A o \in DOMAIN heap \ Contexts : h[o] = heap[o]
  BY DEF Edited
<1> QED
  BY <1>1, <1>2, <1>3, <1>4, <1>5 DEF Edits

\* An edit that stores what is kept, with any new objects, lets the heap grow.
LEMMA EditedGrows ==
  ASSUME NEW L, ObjectsOK(L), NEW h, NEW c, NEW r, NEW v, NEW d, Edited(h, c, r, v, d),
         c # 0 => r \in Registers \ {1} /\ v \in Stored(L),
         program' = program, IsSequence(heap'), DOMAIN heap \subseteq DOMAIN heap',
         \A o \in DOMAIN heap : heap'[o] = h[o],
         \A o \in DOMAIN heap' \ DOMAIN heap : heap'[o] # Freed
  PROVE  /\ Grows(L)
         /\ \A o \in Contexts : heap'[o].pc = IF o = d THEN heap[o].pc + 1 ELSE heap[o].pc
<1>0. Edits(h, c, r, v, d)
  BY EditedFacts
<1>1. ASSUME NEW o \in DOMAIN heap
      PROVE  Follows(o, L)
  <2>1. CASE o \notin Contexts
    BY <1>0, <2>1 DEF Follows, Edits
  <2>2. CASE o \in Contexts
    <3>1. heap[o].type = "context" /\ heap[o].pc \in Nat \ {0} /\ heap[o].locals \in [Registers -> Kept(L)]
      BY <2>2, ContextFields DEF Contexts
    <3>2. /\ heap'[o] = [heap[o] EXCEPT !.pc = heap'[o].pc, !.locals = heap'[o].locals]
          /\ heap'[o].pc = IF o = d THEN heap[o].pc + 1 ELSE heap[o].pc
          /\ heap'[o].locals = IF o = c THEN [heap[o].locals EXCEPT ![r] = v] ELSE heap[o].locals
      BY ZenonT(40), <1>0, <2>2 DEF Edits
    <3>3. heap'[o].pc \in Nat \ {0}
      BY <3>1, <3>2
    <3>4. 0 \notin Contexts /\ 1 \in Registers
      BY HeapSequence, HeapAssumption
    <3>5. heap'[o].locals \in [Registers -> Stored(L)] /\ heap'[o].locals[1] = heap[o].locals[1]
      BY <2>2, <3>1, <3>2, <3>4 DEF Stored
    <3> QED
      BY <3>1, <3>2, <3>3, <3>5 DEF Follows
  <2> QED
    BY <2>1, <2>2
<1> QED
  BY ZenonT(40), <1>0, <1>1 DEF Grows, Contexts, Edits

\* The registers that pending calls need.
LEMMA HeldIfKept ==
  ASSUME NEW L, NEW A, NEW floor, Sound(L, A, floor), NEW h, NEW c, NEW r, NEW v, NEW d, Edited(h, c, r, v, d),
         c # 0 => r \in Registers, \A o \in DOMAIN heap : heap'[o] = h[o], NEW i \in 2..Len(runs),
         c # 0 => runs[i].callee # <<c, r>>
  PROVE  HeldStays(i)
<1>1. ObjectsOK(L) /\ RunsOK(L)
  BY DEF Sound
<1>2. i \in 1..Len(runs) /\ i - 1 \in 1..Len(runs) /\ i > 1
  BY <1>1, RunFields
<1>3. Called(i) /\ runs[i] \in Runs(L) /\ runs[i - 1].ctx \in Contexts
  BY <1>1, <1>2, RunFields DEF RunsOK, RunOK
<1> DEFINE o == runs[i].callee[1]
           q == runs[i].callee[2]
<1>4. o \in Contexts /\ q \in Registers /\ runs[i].callee = <<o, q>>
  <2>1. runs[i].callee \in Nat \X Nat
    BY <1>3 DEF Runs
  <2>2. runs[i].callee = <<o, q>>
    BY <2>1
  <2>3. o = runs[i - 1].ctx /\ q \in Registers
    BY Zenon, <1>3 DEF Called
  <2> QED
    BY <1>3, <2>2, <2>3
<1>5. heap'[o].locals[q] = h[o].locals[q] /\ 0 \notin Contexts
  BY ZenonT(40), <1>1, <1>4, HeapSequence DEF Contexts
<1>6. h[o].locals[q] = IF o = c /\ q = r THEN v ELSE heap[o].locals[q]
  <2>1. Edits(h, c, r, v, d)
    BY <1>1, EditedFacts
  <2> QED
    BY ZenonT(40), <1>4, <2>1 DEF Edits
<1> QED
  BY <1>4, <1>5, <1>6 DEF HeldStays

\* No run was called from the context that runs.
LEMMA OwnRegister ==
  ASSUME NEW L, NEW A, NEW floor, Sound(L, A, floor), NEW i \in 2..Len(runs), NEW r
  PROVE  runs[i].callee # <<Ctx, r>>
<1>1. RunsOK(L)
  BY DEF Sound
<1>2. i \in 1..Len(runs) /\ i > 1 /\ i - 1 \in 1..Len(runs) /\ i - 1 # Len(runs) /\ Len(runs) \in 1..Len(runs)
  BY <1>1, RunFields
<1>3. runs[i].callee[1] = runs[i - 1].ctx
  BY Zenon, <1>1, <1>2 DEF RunsOK, RunOK, Called
<1>4. Ctx = runs[Len(runs)].ctx
  BY RunFacts DEF Ctx
<1>5. runs[i - 1].ctx # Ctx
  BY <1>1, <1>2, <1>4 DEF RunsOK
<1> QED
  BY <1>3, <1>5

-----------------------------------------------------------------------------
(* The actions that write registers and fields.                            *)

\* A register of any context: those that runs were called from keep their callee.
LEMMA RegisterSound ==
  ASSUME NEW L, NEW A, NEW floor, Sound(L, A, floor), heap[Ctx].pc <= Len(Body), x.op \notin {"push", "call", "new"},
         NEW c \in Contexts, NEW r \in Registers \ {1}, NEW v \in Kept(L),
         \A i \in 2..Len(runs) : runs[i].callee # <<c, r>> \/ CalleeKept(i)',
         Edited(heap', c, r, v, Ctx),
         UNCHANGED <<program, states, stack, runs, roots, static>>
  PROVE  Sound(L, A, floor)'
<1>1. ObjectsOK(L) /\ Ctx \in Contexts /\ static \in Kept(L) /\ L \subseteq DOMAIN states /\ StatesOK(L) /\ RunsOK(L)
  BY RunFacts DEF Sound
<1>2. IsSequence(heap') /\ DOMAIN heap' = DOMAIN heap
  BY DEF Edited
<1>3. v \in Stored(L)
  BY DEF Stored
<1>4. Grows(L) /\ \A o \in Contexts : heap'[o].pc = IF o = Ctx THEN heap[o].pc + 1 ELSE heap[o].pc
  BY <1>1, <1>2, <1>3, EditedGrows
<1>5. ASSUME NEW i \in 2..Len(runs)
      PROVE  HeldStays(i) \/ CalleeKept(i)'
  BY HeldIfKept
<1>6. static' \in Kept(L)
  BY <1>1
<1> QED
  BY <1>2, <1>4, <1>5, <1>6, WriteStep

\* A kept value in a register of the running context keeps the invariant.
LEMMA PutSound ==
  ASSUME NEW L, NEW A, NEW floor, Sound(L, A, floor), heap[Ctx].pc <= Len(Body), x.op \notin {"push", "call", "new"},
         NEW r \in Registers \ {1}, NEW v \in Kept(L), Put(r, v)
  PROVE  Sound(L, A, floor)'
<1>1. Ctx \in Contexts /\ ObjectsOK(L)
  BY RunFacts DEF Sound
<1>2. heap' = [[heap EXCEPT ![Ctx].locals[r] = v] EXCEPT ![Ctx].pc = @ + 1]
  BY DEF Put, Next_pc
<1>3. Edited(heap', Ctx, r, v, Ctx)
  BY <1>1, <1>2, EditPut
<1>4. UNCHANGED <<program, states, stack, runs, roots, static>>
  BY DEF Put
<1>5. \A i \in 2..Len(runs) : runs[i].callee # <<Ctx, r>>
  BY OwnRegister
<1> QED
  BY <1>1, <1>3, <1>4, <1>5, RegisterSound

\* So does a new object or function reference.
LEMMA MakeSound ==
  ASSUME NEW L, NEW A, NEW floor, Sound(L, A, floor), heap[Ctx].pc <= Len(Body), x.op \notin {"push", "call", "new"},
         NEW r \in Registers \ {1}, NEW object, Make(r, object), object # Freed,
         \/ object = Object
         \/ IsFunctionRef(object, L)
  PROVE  Sound(L, A, floor)'
<1>1. ObjectsOK(L) /\ Ctx \in Contexts /\ static \in Kept(L) /\ L \subseteq DOMAIN states /\ StatesOK(L) /\ RunsOK(L)
  BY RunFacts DEF Sound
<1> DEFINE h == Next_pc([heap EXCEPT ![Ctx].locals[r] = New])
<1>2. Edited(h, Ctx, r, New, Ctx)
  <2>1. h = [[heap EXCEPT ![Ctx].locals[r] = New] EXCEPT ![Ctx].pc = @ + 1]
    BY DEF Next_pc
  <2> HIDE DEF h
  <2> QED
    BY <1>1, <2>1, EditPut
<1>3. heap' = Append(h, object) /\ UNCHANGED <<program, states, stack, runs, roots, static>>
  BY DEF Make
<1> HIDE DEF h
<1>4. IsSequence(h) /\ DOMAIN h = DOMAIN heap /\ Len(h) = Len(heap)
  BY <1>1, <1>2, EditedFacts DEF Edits
<1>5. /\ IsSequence(heap') /\ Len(heap) \in Nat /\ DOMAIN heap = 1..Len(heap) /\ New = Len(heap) + 1
      /\ DOMAIN heap' = 1..(Len(heap) + 1)
      /\ \A o \in DOMAIN heap : heap'[o] = h[o]
      /\ heap'[New] = object
  BY <1>1, <1>3, <1>4, SequenceAppend, HeapSequence
<1>6. DOMAIN heap \subseteq DOMAIN heap' /\ DOMAIN heap' \ DOMAIN heap = {New}
  BY <1>5
<1>7. New \in Stored(L)
  BY <1>6 DEF Stored
<1>8. Grows(L) /\ \A o \in Contexts : heap'[o].pc = IF o = Ctx THEN heap[o].pc + 1 ELSE heap[o].pc
  <2>1. \A o \in DOMAIN heap' \ DOMAIN heap : heap'[o] # Freed
    BY <1>5, <1>6
  <2>2. program' = program
    BY <1>3
  <2> QED
    BY <1>1, <1>2, <1>5, <1>6, <1>7, <2>1, <2>2, EditedGrows
<1>9. ASSUME NEW i \in 2..Len(runs)
      PROVE  HeldStays(i)
  <2>1. runs[i].callee # <<Ctx, r>>
    BY OwnRegister
  <2> QED
    BY <1>2, <1>5, <2>1, HeldIfKept
<1>10. ASSUME NEW o \in DOMAIN heap' \ DOMAIN heap
       PROVE  IsObject(heap[o], L)'
  <2>1. Contexts \subseteq Contexts' /\ Kept(L) \subseteq Kept(L)' /\ program' = program
        /\ \A c \in Contexts : heap'[c].fn = heap[c].fn
    BY <1>1, <1>8, Grown DEF Grows
  <2>2. heap'[o] = object
    BY <1>5, <1>6
  <2>3. CASE object = Object
    <3>1. object \in [type : {"object"}, properties : Kept(L)']
      BY <2>3 DEF Object, Kept, NUMBER
    <3> QED
      BY <2>2, <3>1 DEF IsObject
  <2>4. CASE IsFunctionRef(object, L)
    <3>1. object \in [type : {"function"}, fn : DOMAIN program', parent : Contexts', state : L]
          /\ Depth[object.fn] = Depth[heap'[object.parent].fn] + 1
      BY <2>1, <2>4 DEF IsFunctionRef
    <3>2. IsFunctionRef(heap[o], L)'
      BY <2>2, <3>1 DEF IsFunctionRef
    <3> QED
      BY <3>2 DEF IsObject
  <2> QED
    BY <2>3, <2>4
<1>11. static' \in Kept(L) /\ UNCHANGED <<states, stack, runs, roots>>
  BY <1>1, <1>3
<1> QED
  BY <1>8, <1>9, <1>10, <1>11, WriteStep

\* OP_SET of a field of an object.
LEMMA PropertySound ==
  ASSUME NEW L, NEW A, NEW floor, Sound(L, A, floor), heap[Ctx].pc <= Len(Body), x.op \notin {"push", "call", "new"},
         NEW p \in DOMAIN heap, heap[p].type = "object", NEW v \in Kept(L),
         heap' = [[heap EXCEPT ![p].properties = v] EXCEPT ![Ctx].pc = @ + 1],
         UNCHANGED <<program, states, stack, runs, roots, static>>
  PROVE  Sound(L, A, floor)'
<1>1. ObjectsOK(L) /\ Ctx \in Contexts /\ static \in Kept(L) /\ L \subseteq DOMAIN states /\ StatesOK(L) /\ RunsOK(L)
  BY RunFacts DEF Sound
<1>2. p \notin Contexts /\ heap[p] \in [type : {"object"}, properties : Kept(L)] /\ Ctx \in DOMAIN heap
  BY <1>1, ObjectFields DEF Contexts
<1> DEFINE h == [heap EXCEPT ![Ctx].pc = @ + 1]
<1>3. Edits(h, 0, 0, NUMBER, Ctx) /\ Edited(h, 0, 0, NUMBER, Ctx)
  <2> DEFINE g == h
  <2>1. g = [heap EXCEPT ![Ctx].pc = @ + 1]
    OBVIOUS
  <2> HIDE DEF g
  <2>2. Edited(g, 0, 0, NUMBER, Ctx)
    BY <1>1, <2>1, EditNext
  <2>3. Edits(g, 0, 0, NUMBER, Ctx)
    BY <1>1, <2>2, EditedFacts
  <2> QED
    BY <2>2, <2>3 DEF g
<1>4. heap' = [o \in DOMAIN heap |-> heap'[o]] /\ DOMAIN heap' = DOMAIN heap
      /\ (\A o \in DOMAIN heap : o # p => heap'[o] = h[o])
      /\ heap'[p] = [heap[p] EXCEPT !.properties = v]
  BY <1>1, <1>2
<1> HIDE DEF h
<1>5. IsSequence(heap')
  BY <1>1, <1>4, HeapSequence
<1>6. \A o \in Contexts : /\ heap'[o] = h[o] /\ heap'[o].pc = (IF o = Ctx THEN heap[o].pc + 1 ELSE heap[o].pc)
                          /\ heap'[o].locals = heap[o].locals
  <2>1. 0 \notin Contexts /\ \A o \in Contexts : o \in DOMAIN heap
    BY <1>1, HeapSequence DEF Contexts
  <2>2. SUFFICES ASSUME NEW o \in Contexts
                 PROVE  /\ heap'[o] = h[o] /\ h[o].pc = (IF o = Ctx THEN heap[o].pc + 1 ELSE heap[o].pc)
                        /\ h[o].locals = heap[o].locals
    OBVIOUS
  <2>3. heap'[o] = h[o]
    BY <1>2, <1>4, <2>1
  <2>4. o # 0 /\ h[o].locals = IF o = 0 THEN [heap[o].locals EXCEPT ![0] = NUMBER] ELSE heap[o].locals
    BY <1>3, <2>1 DEF Edits
  <2>5. h[o].pc = IF o = Ctx THEN heap[o].pc + 1 ELSE heap[o].pc
    BY <1>3 DEF Edits
  <2> QED
    BY <2>3, <2>4, <2>5
<1>7. ASSUME NEW o \in DOMAIN heap
      PROVE  Follows(o, L)
  <2>1. CASE o = p
    <3>1. heap'[p] \in [type : {"object"}, properties : Stored(L)]
      BY Zenon, <1>2, <1>4 DEF Stored
    <3> QED
      BY <2>1, <3>1 DEF Follows
  <2>2. CASE o # p /\ o \notin Contexts
    BY ZenonT(40), <1>3, <1>4, <2>2 DEF Follows, Edits
  <2>3. CASE o \in Contexts
    <3>1. heap[o].type = "context" /\ heap[o].pc \in Nat \ {0} /\ heap[o].locals \in [Registers -> Kept(L)]
      BY <1>1, <2>3, ContextFields DEF Contexts
    <3>2. heap'[o] = [heap[o] EXCEPT !.pc = heap'[o].pc, !.locals = heap'[o].locals]
      <4>1. heap'[o] = h[o]
        BY <1>6, <2>3
      <4>2. h[o] = [heap[o] EXCEPT !.pc = h[o].pc, !.locals = h[o].locals]
        BY <1>3, <2>3 DEF Edits
      <4> QED
        BY <4>1, <4>2
    <3>3. heap'[o].pc \in Nat \ {0} /\ heap'[o].locals \in [Registers -> Stored(L)]
      BY <1>6, <2>3, <3>1 DEF Stored
    <3> QED
      BY <1>6, <2>3, <3>1, <3>2, <3>3 DEF Follows
  <2> QED
    BY <2>1, <2>2, <2>3
<1>8. Grows(L)
  BY <1>4, <1>5, <1>7 DEF Grows
<1>9. ASSUME NEW i \in 2..Len(runs)
      PROVE  HeldStays(i)
  <2>1. i \in 1..Len(runs) /\ i - 1 \in 1..Len(runs) /\ i > 1
    BY <1>1, RunFields
  <2>2. runs[i].callee[1] \in Contexts
    <3>1. Called(i)
      BY <1>1, <2>1 DEF RunsOK, RunOK
    <3>2. runs[i - 1].ctx \in Contexts
      BY <1>1, <2>1, RunFields
    <3> QED
      BY Zenon, <3>1, <3>2 DEF Called
  <2> QED
    BY <1>6, <2>2 DEF HeldStays
<1>10. static' \in Kept(L)
  BY <1>1
<1> QED
  BY <1>4, <1>6, <1>8, <1>9, <1>10, WriteStep

\* So does a kept value in the static variable.
LEMMA StaticSound ==
  ASSUME NEW L, NEW A, NEW floor, Sound(L, A, floor), heap[Ctx].pc <= Len(Body), x.op \notin {"push", "call", "new"},
         static' \in Kept(L), heap' = Next_pc(heap),
         UNCHANGED <<program, states, stack, runs, roots>>
  PROVE  Sound(L, A, floor)'
<1>1. ObjectsOK(L) /\ Ctx \in Contexts /\ L \subseteq DOMAIN states /\ StatesOK(L) /\ RunsOK(L)
  BY RunFacts DEF Sound
<1>2. Edited(heap', 0, 0, NUMBER, Ctx)
  <2>1. heap' = [heap EXCEPT ![Ctx].pc = @ + 1]
    BY DEF Next_pc
  <2> QED
    BY <1>1, <2>1, EditNext
<1>3. IsSequence(heap') /\ DOMAIN heap' = DOMAIN heap
  BY <1>2 DEF Edited
<1>4. Grows(L) /\ \A o \in Contexts : heap'[o].pc = IF o = Ctx THEN heap[o].pc + 1 ELSE heap[o].pc
  BY <1>1, <1>2, <1>3, EditedGrows
<1>5. \A i \in 2..Len(runs) : HeldStays(i)
  BY <1>2, HeldIfKept
<1> QED
  BY <1>3, <1>4, <1>5, WriteStep

\* Each instruction keeps the invariant: MOV,
LEMMA MovSound ==
  ASSUME NEW L, NEW A, NEW floor, Sound(L, A, floor), Mov
  PROVE  Sound(L, A, floor)'
<1>1. x.op = "mov" /\ heap[Ctx].pc <= Len(Body) /\ Put(x.r, Local[x.from])
  BY DEF Mov, IsOp
<1>2. x.r \in Registers \ {1} /\ x.from \in Registers
  BY <1>1, Instruction
<1>3. Local[x.from] \in Kept(L)
  BY <1>2, RunFacts
<1> QED
  BY <1>1, <1>2, <1>3, PutSound

\* MOV_NUMBER,
LEMMA MovNumberSound ==
  ASSUME NEW L, NEW A, NEW floor, Sound(L, A, floor), MovNumber
  PROVE  Sound(L, A, floor)'
<1>1. x.op = "number" /\ heap[Ctx].pc <= Len(Body) /\ Put(x.r, NUMBER)
  BY DEF MovNumber, IsOp
<1>2. x.r \in Registers \ {1} /\ NUMBER \in Kept(L)
  BY <1>1, Instruction DEF Kept
<1> QED
  BY <1>1, <1>2, PutSound

\* MOV_FNC,
LEMMA MovFncSound ==
  ASSUME NEW L, NEW A, NEW floor, Sound(L, A, floor), MovFnc
  PROVE  Sound(L, A, floor)'
<1>1. x.op = "function" /\ heap[Ctx].pc <= Len(Body) /\ Make(x.r, Function(x.fn, Ctx, Self))
  BY DEF MovFnc, IsOp
<1>2. x.r \in Registers \ {1} /\ x.fn \in DOMAIN program /\ Depth[x.fn] = Depth[heap[Ctx].fn] + 1
  BY <1>1, Instruction
<1>3. Ctx \in Contexts /\ Self \in L
  BY RunFacts
<1> DEFINE f == Function(x.fn, Ctx, Self)
<1>4. IsFunctionRef(f, L) /\ f # Freed
  BY <1>2, <1>3 DEF IsFunctionRef, Function, Freed
<1> HIDE DEF f
<1>5. Make(x.r, f)
  BY <1>1 DEF f
<1> QED
  BY <1>1, <1>2, <1>4, <1>5, MakeSound

\* CREATE_OBJECT.
LEMMA NewObjectSound ==
  ASSUME NEW L, NEW A, NEW floor, Sound(L, A, floor), NewObject
  PROVE  Sound(L, A, floor)'
<1>1. x.op = "object" /\ heap[Ctx].pc <= Len(Body) /\ Make(x.r, Object)
  BY DEF NewObject, IsOp
<1>2. x.r \in Registers \ {1}
  BY <1>1, Instruction
<1>3. Object # Freed
  BY DEF Object, Freed
<1> QED
  BY <1>1, <1>2, <1>3, MakeSound

\* Going outwards from a context one finds a context, as often as the code is nested.
LEMMA OuterContext ==
  ASSUME NEW L, NEW A, NEW floor, Sound(L, A, floor), NEW levels \in 0..Depth[heap[Ctx].fn]
  PROVE  Outwards(Ctx, levels) \in Contexts
<1>1. Ctx \in Contexts /\ ObjectsOK(L)
  BY RunFacts DEF Sound
<1>2. Depth[heap[Ctx].fn] \in Nat
  BY <1>1, BodyFacts
<1> QED
  BY <1>1, <1>2, OutwardsContext

\* GET_FIELD of a variable of an enclosing function
LEMMA GetOuterSound ==
  ASSUME NEW L, NEW A, NEW floor, Sound(L, A, floor), GetOuter
  PROVE  Sound(L, A, floor)'
<1> DEFINE c == Outwards(Ctx, x.levels)
<1>1. x.op = "get_outer" /\ heap[Ctx].pc <= Len(Body) /\ Put(x.r, heap[c].locals[x.slot])
  BY DEF GetOuter, IsOp
<1>2. x.r \in Registers \ {1} /\ x.slot \in Registers /\ x.levels \in 0..Depth[heap[Ctx].fn]
  BY <1>1, Instruction
<1>3. c \in Contexts /\ ObjectsOK(L)
  BY <1>2, OuterContext DEF Sound
<1> HIDE DEF c
<1>4. heap[c].locals[x.slot] \in Kept(L)
  <2>1. heap[c].locals \in [Registers -> Kept(L)]
    BY <1>3, ContextFields
  <2> QED
    BY <1>2, <2>1
<1> QED
  BY <1>1, <1>2, <1>4, PutSound

\* and SET_FIELD of one.
LEMMA SetOuterSound ==
  ASSUME NEW L, NEW A, NEW floor, Sound(L, A, floor), SetOuter, CalleesKept'
  PROVE  Sound(L, A, floor)'
<1> DEFINE c == Outwards(Ctx, x.levels)
<1>1. x.op = "set_outer" /\ heap[Ctx].pc <= Len(Body)
  BY DEF SetOuter, IsOp
<1>2. x.r \in Registers /\ x.slot \in Registers \ {1} /\ x.levels \in 0..Depth[heap[Ctx].fn]
  BY <1>1, Instruction
<1>3. c \in Contexts /\ ObjectsOK(L) /\ Ctx \in Contexts
  BY <1>2, OuterContext, RunFacts DEF Sound
<1>4. Local[x.r] \in Kept(L)
  BY <1>2, RunFacts
<1>5. /\ UNCHANGED <<program, states, stack, runs, roots, static>>
      /\ heap' = [[heap EXCEPT ![c].locals[x.slot] = Local[x.r]] EXCEPT ![Ctx].pc = @ + 1]
  BY DEF SetOuter, Next_pc
<1> HIDE DEF c
<1>6. Edited(heap', c, x.slot, Local[x.r], Ctx)
  BY <1>3, <1>5, EditPut
<1>7. \A i \in 2..Len(runs) : CalleeKept(i)'
  BY <1>5 DEF CalleesKept
<1> QED
  BY <1>1, <1>2, <1>3, <1>4, <1>5, <1>6, <1>7, RegisterSound

\* The fields of an instance, or of a `this', are registers of a context.
LEMMA RootContext ==
  ASSUME NEW L, NEW A, NEW floor, Sound(L, A, floor), NEW v \in Kept(L), Type(v) = "instance"
  PROVE  RootOf(v) \in Contexts
<1>1. L \subseteq DOMAIN states /\ ObjectsOK(L) /\ StatesOK(L)
  BY DEF Sound
<1>2. v # NUMBER
  BY DEF Type
<1>3. CASE IsThis(v)
  BY <1>1, <1>3, Kinds DEF RootOf, StatesOK
<1>4. CASE ~ IsThis(v)
  <2>1. v \in DOMAIN heap /\ heap[v].type = "instance"
    BY <1>1, <1>2, <1>4, Kinds DEF Type
  <2>2. heap[v].state \in L
    BY <1>1, <2>1, ObjectFields
  <2> QED
    BY <1>1, <1>4, <2>2 DEF RootOf, StatesOK
<1> QED
  BY <1>3, <1>4

\* An object that is kept has its properties, which are kept.
LEMMA ObjectValue ==
  ASSUME NEW L, NEW A, NEW floor, Sound(L, A, floor), NEW v \in Kept(L), Type(v) = "object"
  PROVE  v \in DOMAIN heap /\ heap[v].type = "object" /\ heap[v].properties \in Kept(L)
<1>1. L \subseteq DOMAIN states /\ ObjectsOK(L) /\ StatesOK(L)
  BY DEF Sound
<1>2. v # NUMBER /\ ~ IsThis(v) /\ heap[v].type = "object"
  BY DEF Type
<1>3. v \in DOMAIN heap
  BY <1>1, <1>2, Kinds
<1> QED
  BY <1>1, <1>2, <1>3, ObjectFields

\* GET_FIELD of an object
LEMMA GetFieldSound ==
  ASSUME NEW L, NEW A, NEW floor, Sound(L, A, floor), GetField
  PROVE  Sound(L, A, floor)'
<1> DEFINE o == Local[x.from]
<1>1. x.op = "get" /\ heap[Ctx].pc <= Len(Body)
  BY DEF GetField, IsOp
<1>2. x.r \in Registers \ {1} /\ x.slot \in Registers /\ x.from \in Registers
  BY <1>1, Instruction
<1>3. o \in Kept(L) /\ ObjectsOK(L)
  BY <1>2, RunFacts DEF Sound
<1>4. CASE Type(o) = "instance" /\ Put(x.r, heap[RootOf(o)].locals[x.slot])
  <2>1. heap[RootOf(o)].locals[x.slot] \in Kept(L)
    <3>1. RootOf(o) \in Contexts
      BY <1>3, <1>4, RootContext
    <3>2. heap[RootOf(o)].locals \in [Registers -> Kept(L)]
      BY <1>3, <3>1, ContextFields
    <3> QED
      BY <1>2, <3>2
  <2> QED
    BY <1>1, <1>2, <1>4, <2>1, PutSound
<1>5. CASE Type(o) = "object" /\ Put(x.r, heap[o].properties)
  <2>1. heap[o].properties \in Kept(L)
    BY <1>3, <1>5, ObjectValue
  <2> QED
    BY <1>1, <1>2, <1>5, <2>1, PutSound
<1> QED
  BY <1>4, <1>5 DEF GetField

\* and SET_FIELD of one.
LEMMA SetFieldSound ==
  ASSUME NEW L, NEW A, NEW floor, Sound(L, A, floor), SetField, CalleesKept'
  PROVE  Sound(L, A, floor)'
<1> DEFINE o == Local[x.to]
<1>1. x.op = "set" /\ heap[Ctx].pc <= Len(Body) /\ UNCHANGED <<program, states, stack, runs, roots, static>>
  BY DEF SetField, IsOp
<1>2. x.r \in Registers /\ x.slot \in Registers \ {1} /\ x.to \in Registers
  BY <1>1, Instruction
<1>3. o \in Kept(L) /\ ObjectsOK(L) /\ Local[x.r] \in Kept(L) /\ Ctx \in Contexts
  BY <1>2, RunFacts DEF Sound
<1>4. CASE /\ Type(o) = "instance"
           /\ heap' = Next_pc([heap EXCEPT ![RootOf(o)].locals[x.slot] = Local[x.r]])
  <2> DEFINE c == RootOf(o)
  <2>1. c \in Contexts
    BY <1>3, <1>4, RootContext
  <2>2. heap' = [[heap EXCEPT ![c].locals[x.slot] = Local[x.r]] EXCEPT ![Ctx].pc = @ + 1]
    BY <1>4 DEF Next_pc
  <2>3. \A i \in 2..Len(runs) : CalleeKept(i)'
    BY <1>1 DEF CalleesKept
  <2> HIDE DEF c
  <2>4. Edited(heap', c, x.slot, Local[x.r], Ctx)
    BY <1>3, <2>1, <2>2, EditPut
  <2> QED
    BY <1>1, <1>2, <1>3, <2>1, <2>3, <2>4, RegisterSound
<1>5. CASE Type(o) = "object" /\ heap' = Next_pc([heap EXCEPT ![o].properties = Local[x.r]])
  <2>1. o \in DOMAIN heap /\ heap[o].type = "object"
    BY <1>3, <1>5, ObjectValue
  <2>2. heap' = [[heap EXCEPT ![o].properties = Local[x.r]] EXCEPT ![Ctx].pc = @ + 1]
    BY <1>5 DEF Next_pc
  <2> HIDE DEF o
  <2> QED
    BY <1>1, <1>3, <2>1, <2>2, PropertySound
<1> QED
  BY <1>4, <1>5 DEF SetField

\* GET_FIELD of a class variable
LEMMA GetStaticSound ==
  ASSUME NEW L, NEW A, NEW floor, Sound(L, A, floor), GetStatic
  PROVE  Sound(L, A, floor)'
<1>1. x.op = "get_static" /\ heap[Ctx].pc <= Len(Body) /\ Put(x.r, static)
  BY DEF GetStatic, IsOp
<1>2. x.r \in Registers \ {1} /\ static \in Kept(L)
  BY <1>1, Instruction DEF Sound
<1> QED
  BY <1>1, <1>2, PutSound

\* and SET_FIELD of one.
LEMMA SetStaticSound ==
  ASSUME NEW L, NEW A, NEW floor, Sound(L, A, floor), SetStatic
  PROVE  Sound(L, A, floor)'
<1>1. x.op = "set_static" /\ heap[Ctx].pc <= Len(Body) /\ static' = Local[x.r] /\ heap' = Next_pc(heap)
      /\ UNCHANGED <<program, states, stack, runs, roots>>
  BY DEF SetStatic, IsOp
<1>2. Local[x.r] \in Kept(L)
  BY <1>1, Instruction, RunFacts
<1> QED
  BY <1>1, <1>2, StaticSound

-----------------------------------------------------------------------------
(* The stack.                                                              *)

LEMMA StateSequence ==
  ASSUME NEW L, StatesOK(L)
  PROVE  /\ Len(states) \in Nat /\ DOMAIN states = 1..Len(states) /\ IsSequence(states)
         /\ \A q : DOMAIN q = DOMAIN states /\ q = [s \in DOMAIN states |-> q[s]] => IsSequence(q) /\ Len(q) = Len(states)
<1>1. \A S, q : q \in Seq(S) => Len(q) \in Nat /\ DOMAIN q = 1..Len(q) /\ q = [s \in 1..Len(q) |-> q[s]]
  OBVIOUS
<1>2. Len(states) \in Nat /\ DOMAIN states = 1..Len(states) /\ states = [s \in 1..Len(states) |-> states[s]]
  BY <1>1 DEF StatesOK
<1> QED
  BY <1>2, SequenceIs

\* What is on the stack is kept, also below lower stack pointers.
LEMMA StackKept ==
  ASSUME NEW L, NEW A, NEW floor, Sound(L, A, floor)
  PROVE  \A i \in 1..Ptr : stack[i] \in Kept(L)
<1>1. gc_visit_stack(Ptr) \subseteq Kept(L)
  BY RunFacts DEF Sound, StatesOK, Ptr
<1> QED
  BY <1>1 DEF gc_visit_stack

\* PUSH keeps the invariant: the stack of the state grows by a kept value.
LEMMA PushSound ==
  ASSUME NEW L, NEW A, NEW floor, Sound(L, A, floor), Push
  PROVE  Sound(L, A, floor)'
<1>1. /\ x.op = "push" /\ heap[Ctx].pc <= Len(Body) /\ Ptr < MaxStack
      /\ stack' = [stack EXCEPT ![Ptr + 1] = Local[x.r]]
      /\ states' = [states EXCEPT ![Self].ptr = Ptr + 1]
      /\ heap' = Next_pc(heap)
      /\ UNCHANGED <<program, runs, roots, static>>
  BY DEF Push, IsOp
<1>2. ObjectsOK(L) /\ StatesOK(L) /\ RunsOK(L) /\ L \subseteq DOMAIN states /\ static \in Kept(L)
      /\ stack \in [1..MaxStack -> Values]
  BY DEF Sound
<1>3. Local[x.r] \in Kept(L)
  BY <1>1, Instruction, RunFacts
<1>4. Ctx \in Contexts /\ Self \in L /\ Self \in DOMAIN states /\ states[Self] \in States /\ Ptr \in 0..MaxStack /\ Ptr \in Nat
  BY RunFacts
<1>5. Edited(heap', 0, 0, NUMBER, Ctx)
  <2>1. heap' = [heap EXCEPT ![Ctx].pc = @ + 1]
    BY <1>1 DEF Next_pc
  <2> QED
    BY <1>2, <1>4, <2>1, EditNext
<1>6. IsSequence(heap') /\ DOMAIN heap' = DOMAIN heap
  BY <1>5 DEF Edited
<1>7. Grows(L) /\ \A o \in Contexts : heap'[o].pc = IF o = Ctx THEN heap[o].pc + 1 ELSE heap[o].pc
  BY <1>1, <1>2, <1>5, <1>6, EditedGrows
<1>8. \A i \in 2..Len(runs) : HeldStays(i)
  BY <1>5, HeldIfKept
<1>9. DOMAIN states' = DOMAIN states /\ IsSequence(states')
  <2>1. DOMAIN states' = DOMAIN states /\ states' = [s \in DOMAIN states |-> states'[s]]
    BY <1>1
  <2> QED
    BY <1>2, <2>1, StateSequence
<1>10. /\ \A s \in DOMAIN states \ {Self} : states'[s] = states[s]
       /\ states'[Self] = [states[Self] EXCEPT !.ptr = Ptr + 1]
  BY <1>1, <1>4
<1>11. /\ (stack \in [1..MaxStack -> Values])'
       /\ \A i \in 1..MaxStack : stack'[i] = stack[i] \/ stack'[i] \in Kept(L)
  BY <1>1, <1>3, <1>7, <1>9, StackTyped
<1>12. MaxStack \in Nat
  BY HeapAssumption
<1>13. states'[Self] \in States /\ states'[Self].running = states[Self].running /\ states'[Self].current = states[Self].current
       /\ states'[Self].root = states[Self].root /\ states'[Self].ptr = Ptr + 1
  <2>1. Ptr + 1 \in 0..MaxStack
    BY <1>1, <1>4, <1>12
  <2> QED
    BY <1>4, <1>10, <2>1 DEF States
<1>14. Kept(L) \subseteq Kept(L)' /\ Contexts \subseteq Contexts'
  BY <1>2, <1>7, Grown
<1>15. \A i \in 1..(Ptr + 1) : stack'[i] \in Kept(L)
  <2>1. SUFFICES ASSUME NEW i \in 1..(Ptr + 1) PROVE stack'[i] \in Kept(L)
    OBVIOUS
  <2>2. i \in 1..MaxStack /\ (i = Ptr + 1 \/ i \in 1..Ptr)
    BY <1>1, <1>4, <1>12
  <2>3. stack'[Ptr + 1] = Local[x.r]
    BY <1>1, <1>2, <1>4, <1>12
  <2>4. i \in 1..Ptr => stack[i] \in Kept(L)
    BY StackKept
  <2> QED
    BY <1>3, <1>11, <2>2, <2>3, <2>4
<1>16. StatesOK(L)'
  <2>1. \A s \in DOMAIN states \ {Self} : s \in DOMAIN states' /\ states'[s] = states[s]
    BY <1>9, <1>10
  <2>2. ASSUME NEW s \in DOMAIN states', s = Self
        PROVE  StateOK(s, L)'
    <3>1. states'[s] \in States'
      <4>1. States \subseteq States'
        BY <1>6 DEF States
      <4> QED
        BY <1>13, <2>2, <4>1
    <3>2. states'[s].root \in Contexts' /\ states'[s].current \in Contexts'
      BY <1>2, <1>4, <1>13, <1>14, <2>2 DEF StatesOK
    <3>3. gc_visit_stack(states[s].ptr)' \subseteq Kept(L)'
      BY <1>13, <1>14, <1>15, <2>2 DEF gc_visit_stack
    <3> QED
      BY <3>1, <3>2, <3>3 DEF StateOK
  <2> QED
    BY <1>2, <1>7, <1>9, <1>11, <2>1, <2>2, StatesStay
<1>17. states'[Self].ptr \in Nat /\ states'[Self].ptr >= floor[Ctx] + PushedAfter(Ctx)
  <2>1. PushedAfter(Ctx) = PushedAt(Ctx) + 1
    BY <1>1, InstructionPushed
  <2>2. floor[Ctx] \in Nat /\ PushedAt(Ctx) \in Nat /\ Ptr >= floor[Ctx] + PushedAt(Ctx)
    BY RunFacts
  <2> QED
    BY <1>4, <1>13, <2>1, <2>2
<1>18. static' \in Kept(L) /\ UNCHANGED <<runs, roots>>
  BY <1>1, <1>2
<1> QED
  BY <1>1, <1>6, <1>7, <1>8, <1>9, <1>10, <1>11, <1>13, <1>16, <1>17, <1>18, InstructionStep

-----------------------------------------------------------------------------
(* Calls.                                                                  *)

\* A function is never in register 1, and is called with values that are kept.
LEMMA CalleeFacts ==
  ASSUME NEW L, NEW A, NEW floor, Sound(L, A, floor), IsFunction
  PROVE  /\ x.op = "call" /\ heap[Ctx].pc <= Len(Body)
         /\ x.r \in Registers \ {1} /\ x.dest \in Registers \ {1}
         /\ Local[x.r] \in DOMAIN heap /\ Local[x.r] > 0 /\ heap[Local[x.r]].type = "function"
         /\ IsFunctionRef(Callee, L) /\ Callee.state \in L /\ Callee.parent \in Contexts /\ Callee.fn \in DOMAIN program
         /\ Depth[heap[Callee.parent].fn] = Depth[Callee.fn] - 1
         /\ x.n \in Nat /\ x.n <= Ptr
         /\ DOMAIN Arguments(x.n) = 1..x.n
         /\ \A i \in DOMAIN Arguments(x.n) : Arguments(x.n)[i] \in Kept(L)
<1>1. x.op = "call" /\ heap[Ctx].pc <= Len(Body) /\ Type(Local[x.r]) = "function"
  BY DEF IsFunction, IsOp
<1>2. x.r \in Registers /\ x.dest \in Registers \ {1}
  BY <1>1, Instruction
<1>3. L \subseteq DOMAIN states /\ ObjectsOK(L) /\ StatesOK(L) /\ IsContext(heap[Ctx], L) /\ Local \in [Registers -> Kept(L)]
  BY RunFacts DEF Sound
<1>4. Local[x.r] # NUMBER /\ ~ IsThis(Local[x.r]) /\ heap[Local[x.r]].type = "function"
  BY <1>1 DEF Type
<1>5. Local[x.r] \in DOMAIN heap /\ Local[x.r] > 0
  <2>1. Local[x.r] \in DOMAIN heap
    BY <1>2, <1>3, <1>4, Kinds
  <2> QED
    BY <1>3, <2>1, Kinds
<1>6. x.r # 1
  <2>1. \E s \in L : Local[1] = This(s)
    BY <1>3 DEF IsContext, Local
  <2>2. \A s \in L : IsThis(This(s))
    BY <1>3, Kinds
  <2> QED
    BY <1>4, <2>1, <2>2
<1>7. IsFunctionRef(Callee, L)
  BY <1>3, <1>4, <1>5, ObjectFields DEF Callee
<1>8. Callee.state \in L /\ Callee.parent \in Contexts /\ Callee.fn \in DOMAIN program
      /\ Depth[Callee.fn] = Depth[heap[Callee.parent].fn] + 1
  BY <1>7 DEF IsFunctionRef
<1>9. Depth[heap[Callee.parent].fn] \in Nat
  BY <1>8, BodyFacts
<1>10. x.n \in Nat /\ x.n <= Ptr
  BY <1>1, InstructionPushed, RunFacts
<1>11. ASSUME NEW i \in 1..x.n
       PROVE  Arguments(x.n)[i] \in Kept(L)
  <2>1. Ptr \in Nat
    BY RunFacts
  <2>2. Ptr + 1 - i \in 1..Ptr
    BY <1>10, <2>1
  <2> QED
    BY <2>2, StackKept DEF Arguments
<1> QED
  BY <1>1, <1>2, <1>4, <1>5, <1>6, <1>7, <1>8, <1>9, <1>10, <1>11 DEF Arguments

\* A new context with kept arguments is sound.
LEMMA ContextMade ==
  ASSUME NEW L, NEW A, NEW floor, Sound(L, A, floor), Grows(L), NEW L1, L \subseteq L1,
         NEW o \in DOMAIN heap', NEW f \in DOMAIN program, NEW parent \in Contexts \cup {0}, NEW return \in Contexts \cup {0},
         NEW dest \in Nat, NEW this, NEW args, heap'[o] = Context(f, parent, return, dest, this, args),
         Depth[f] > 0 => parent # 0 /\ Depth[heap[parent].fn] = Depth[f] - 1,
         return # 0 => dest \in Registers \ {1},
         \A i \in DOMAIN args : args[i] \in Kept(L),
         \E s \in L1 : this = This(s) /\ (s = 1 \/ \E i \in DOMAIN heap' : heap'[i] = Instance(s))
  PROVE  /\ IsObject(heap[o], L1)' /\ o \in Contexts' /\ heap'[o] # Freed
         /\ heap'[o].fn = f /\ heap'[o].pc = 1 /\ heap'[o].return = return
<1>1. L \subseteq DOMAIN states /\ ObjectsOK(L) /\ StatesOK(L)
  BY DEF Sound
<1>2. Contexts \subseteq Contexts' /\ Kept(L) \subseteq Kept(L1)' /\ program' = program
      /\ \A c \in Contexts : heap'[c].fn = heap[c].fn
  BY <1>1, Grown DEF Grows
<1> DEFINE locals == [r \in Registers |-> IF r = 1 THEN this ELSE IF r - 2 \in DOMAIN args THEN args[r - 2] ELSE NUMBER]
<1>3. locals \in [Registers -> Kept(L1)']
  <2>1. this \in Kept(L1)' /\ NUMBER \in Kept(L1)'
    BY DEF Kept, This, NUMBER
  <2> QED
    BY <1>2, <2>1
<1>4. locals[1] = this
  BY HeapAssumption
<1>5. heap'[o] = [type |-> "context", fn |-> f, pc |-> 1, parent |-> parent, return |-> return, dest |-> dest, locals |-> locals]
  BY DEF Context
<1> HIDE DEF locals
<1>6. heap'[o] \in [type : {"context"}, fn : DOMAIN program', pc : Nat \ {0}, parent : Contexts' \cup {0},
                    return : Contexts' \cup {0}, dest : Nat, locals : [Registers -> Kept(L1)']]
  BY <1>2, <1>3, <1>5
<1>7. Depth[heap'[o].fn] > 0 => heap'[o].parent # 0 /\ Depth[heap'[heap'[o].parent].fn] = Depth[heap'[o].fn] - 1
  BY <1>2, <1>5
<1>8. heap'[o].return # 0 => heap'[o].dest \in Registers \ {1}
  BY <1>5
<1>9. \E s \in L1 : heap'[o].locals[1] = This(s) /\ (s = 1 \/ \E i \in DOMAIN heap' : heap'[i] = Instance(s))
  BY <1>4, <1>5
<1>10. IsContext(heap[o], L1)'
  BY <1>6, <1>7, <1>8, <1>9 DEF IsContext, Instance, This
<1>11. o \in Contexts' /\ heap'[o] # Freed
  BY <1>5 DEF Contexts, Freed
<1> QED
  BY <1>5, <1>10, <1>11 DEF IsObject

\* The `this' of a context is good for the contexts that are called with it.
LEMMA ThisMade ==
  ASSUME NEW L, NEW A, NEW floor, Sound(L, A, floor), Grows(L), NEW L1, L \subseteq L1, NEW c \in Contexts
  PROVE  \E s \in L1 : heap[c].locals[1] = This(s) /\ (s = 1 \/ \E i \in DOMAIN heap' : heap'[i] = Instance(s))
<1>1. L \subseteq DOMAIN states /\ ObjectsOK(L) /\ StatesOK(L)
  BY DEF Sound
<1>2. PICK s \in L : heap[c].locals[1] = This(s) /\ (s = 1 \/ \E i \in DOMAIN heap : heap[i] = Instance(s))
  BY <1>1, ContextAt DEF IsContext
<1>3. \A i \in DOMAIN heap : heap[i] = Instance(s) => i \in DOMAIN heap' /\ heap'[i] = Instance(s)
  BY <1>1, Grown DEF Instance, Grows
<1> QED
  BY <1>2, <1>3

\* New objects at the end of the heap change none of the others.
LEMMA AppendGrows ==
  ASSUME NEW L, ObjectsOK(L), NEW w, w # Freed, heap' = Append(heap, w), program' = program
  PROVE  /\ Grows(L) /\ New \in DOMAIN heap' /\ heap'[New] = w /\ DOMAIN heap' \ DOMAIN heap = {New}
         /\ \A o \in DOMAIN heap : heap'[o] = heap[o]
         /\ \A i \in 2..Len(runs) : RunsOK(L) => HeldStays(i)
<1>1. /\ IsSequence(heap) /\ Len(heap) \in Nat /\ DOMAIN heap = 1..Len(heap) /\ New = Len(heap) + 1
  BY HeapSequence
<1>2. /\ IsSequence(heap') /\ DOMAIN heap' = 1..(Len(heap) + 1)
      /\ \A o \in DOMAIN heap : heap'[o] = heap[o]
      /\ heap'[New] = w
  BY <1>1, SequenceAppend
<1>3. DOMAIN heap \subseteq DOMAIN heap' /\ DOMAIN heap' \ DOMAIN heap = {New} /\ New \in DOMAIN heap'
  BY <1>1, <1>2
<1>4. ASSUME NEW i \in 2..Len(runs), RunsOK(L)
      PROVE  HeldStays(i)
  <2>1. i \in 1..Len(runs) /\ i - 1 \in 1..Len(runs) /\ i > 1
    BY <1>4, RunFields
  <2>2. Called(i)
    BY <1>4, <2>1 DEF RunsOK, RunOK
  <2>3. runs[i - 1].ctx \in Contexts
    BY Zenon, <1>4, <2>1, RunFields
  <2>4. runs[i].callee[1] \in DOMAIN heap
    BY Zenon, <2>2, <2>3 DEF Called, Contexts
  <2> QED
    BY <1>2, <2>4 DEF HeldStays
<1> QED
  BY <1>2, <1>3, <1>4 DEF Grows, Follows

\* The running context waits for the new one, n.
Awaited(n, p, floor) ==
  /\ heap'[n].return = Ctx /\ heap[Ctx].pc <= Len(Body) /\ p >= floor[Ctx] + PushedAfter(Ctx)
  /\ \A i \in 1..Len(runs') : runs'[i].ctx # Ctx

Extended(A, floor, n, p, A1, floor1) ==
  A1 = A \cup {n} /\ floor1 \in [A1 -> Nat] /\ floor1[n] = p /\ \A c \in A : floor1[c] = floor[c]

\* A called context, n, joins the active ones.
LEMMA ActiveExtended ==
  ASSUME NEW L, NEW A, NEW floor, Sound(L, A, floor), Grows(L),
         NEW n, n \notin DOMAIN heap, n \in Contexts', NEW p \in Nat,
         \A c \in Contexts : heap'[c].pc = heap[c].pc,
         \A i \in 1..Len(runs') : runs'[i].ctx = n \/ \E j \in 1..Len(runs) : runs'[i].ctx = runs[j].ctx,
         heap'[n].return = 0 \/ Awaited(n, p, floor),
         NEW A1, NEW floor1, Extended(A, floor, n, p, A1, floor1)
  PROVE  A1 \subseteq Contexts' /\ \A c \in A1 : CallerOK(c, A1, floor1)'
<1>1. L \subseteq DOMAIN states /\ ObjectsOK(L) /\ StatesOK(L) /\ RunsOK(L) /\ ActiveOK(A, floor)
  BY DEF Sound
<1>2. A \subseteq Contexts /\ floor \in [A -> Nat] /\ Contexts \subseteq DOMAIN heap
  BY <1>1 DEF ActiveOK, Contexts
<1>3. n \notin A /\ Contexts \subseteq Contexts'
  BY <1>1, <1>2, Grown
<1>4. /\ A1 = A \cup {n} /\ A1 \subseteq Contexts' /\ floor1 \in [A1 -> Nat]
      /\ floor1[n] = p /\ \A c \in A : floor1[c] = floor[c]
  BY <1>2, <1>3 DEF Extended
<1>5. ASSUME NEW c \in A
      PROVE  CallerOK(c, A1, floor1)'
  <2>1. CallerOK(c, A, floor) /\ c \in Contexts /\ heap'[c].return = heap[c].return
    BY <1>1, <1>2, Grown DEF ActiveOK
  <2>2. CASE heap[c].return = 0
    BY <2>1, <2>2 DEF CallerOK
  <2>3. CASE heap[c].return # 0
    <3> DEFINE r == heap[c].return
    <3>1. r \in A /\ (\A d \in A : heap[d].return = r => d = c) /\ \A i \in 1..Len(runs) : runs[i].ctx # r
      BY <2>1, <2>3 DEF CallerOK
    <3>2. r # Ctx /\ r # n
      BY <1>3, <3>1, RunFacts DEF Ctx
    <3>3. \A d \in A1 : heap'[d].return = r => d = c
      <4>1. \A d \in A : heap'[d].return = heap[d].return
        BY <1>1, <1>2, Grown
      <4>2. heap'[n].return # r
        BY <2>3, <3>2 DEF Awaited
      <4> QED
        BY <1>4, <3>1, <4>1, <4>2
    <3>4. \A i \in 1..Len(runs') : runs'[i].ctx # r
      BY <3>1, <3>2
    <3>5. heap'[r].pc = heap[r].pc
      BY <1>2, <3>1
    <3>6. r \in A1 /\ c \in A1 /\ floor1[c] = floor[c] /\ floor1[r] = floor[r]
      BY <1>4, <3>1
    <3> QED
      BY <3>3, <3>4, <3>5, <3>6, CallerStays
  <2> QED
    BY <2>2, <2>3
<1>6. CallerOK(n, A1, floor1)'
  <2>1. CASE heap'[n].return = 0
    BY <2>1 DEF CallerOK
  <2>2. CASE Awaited(n, p, floor)
    <3>0. /\ heap'[n].return = Ctx /\ heap[Ctx].pc <= Len(Body) /\ p >= floor[Ctx] + PushedAfter(Ctx)
          /\ \A i \in 1..Len(runs') : runs'[i].ctx # Ctx
      BY <2>2 DEF Awaited
    <3>1. PICK r : r = Ctx
      OBVIOUS
    <3>2. r \in A /\ r \in Contexts
      BY <3>1, RunFacts
    <3>3. \A d \in A1 : heap'[d].return = r => d = n
      <4>1. ASSUME NEW d \in A PROVE heap'[d].return # r
        <5>1. CallerOK(d, A, floor) /\ heap'[d].return = heap[d].return
          BY <1>1, <1>2, Grown DEF ActiveOK
        <5>2. \E i \in 1..Len(runs) : runs[i].ctx = r
          BY <3>1, RunFacts DEF Ctx
        <5>3. r # 0
          BY <1>1, <3>2, HeapSequence
        <5> QED
          BY <5>1, <5>2, <5>3 DEF CallerOK
      <4> QED
        BY <1>4, <4>1
    <3>4. heap'[r].pc = heap[r].pc /\ heap'[r].fn = heap[r].fn /\ program' = program
      BY <1>1, <3>2, Grown DEF Grows
    <3>5. PushedAfter(r)' = PushedAfter(r)
      BY <3>4 DEF PushedAfter
    <3>6. heap'[r].pc <= Len(program'[heap'[r].fn]) /\ floor1[n] >= floor1[r] + PushedAfter(r)
      BY <1>4, <3>0, <3>1, <3>2, <3>4 DEF Body
    <3>7. heap'[n].return = r /\ \A i \in 1..Len(runs') : runs'[i].ctx # r
      BY <3>0, <3>1
    <3>8. r \in A1
      BY <1>4, <3>2
    <3>9. floor1[n] >= floor1[r] + PushedAfter(r)'
      BY <3>5, <3>6
    <3>10. (PushedAfter(heap[n].return))' = PushedAfter(r)'
      BY <3>7 DEF PushedAfter
    <3> QED
      BY <3>3, <3>6, <3>7, <3>8, <3>9, <3>10 DEF CallerOK
  <2> QED
    BY <2>1, <2>2
<1> QED
  BY <1>4, <1>5, <1>6

\* The names L, A and floor of the invariant do not matter.
LEMMA IInvFrom ==
  ASSUME NEW L, NEW A, NEW floor, Sound(L, A, floor)'
  PROVE  IInv'
<1>1. L \subseteq DOMAIN states' /\ ActiveOK(A, floor)'
  BY DEF Sound
<1>2. A \subseteq DOMAIN heap' /\ floor \in [A -> Nat]
  BY <1>1 DEF ActiveOK, Contexts
<1> QED
  BY <1>1, <1>2 DEF IInv

\* The innermost run goes on in context n.
Moved(n) == runs' = [runs EXCEPT ![Len(runs)].ctx = n]

\* Only the last run moves on to another context.
LEMMA MovedRuns ==
  ASSUME NEW L, NEW A, NEW floor, Sound(L, A, floor), Grows(L),
         NEW n, n \in Contexts', \A i \in 1..Len(runs) : runs[i].ctx # n,
         Moved(n), roots' = roots,
         \A i \in 2..Len(runs) : HeldStays(i),
         \A s \in DOMAIN states \ {Self} : states'[s] = states[s],
         states'[Self].running = states[Self].running,
         n \in {states'[Self].current, heap'[states'[Self].current].return}
  PROVE  /\ RunsOK(L)'
         /\ Len(runs') = Len(runs)
         /\ \A i \in 1..Len(runs) : /\ runs'[i].state = runs[i].state
                                    /\ runs'[i].ctx = IF i = Len(runs) THEN n ELSE runs[i].ctx
<1>1. L \subseteq DOMAIN states /\ ObjectsOK(L) /\ StatesOK(L) /\ RunsOK(L)
  BY DEF Sound
<1>2. /\ DOMAIN runs = 1..Len(runs) /\ Len(runs) \in Nat \ {0} /\ Len(runs) \in 1..Len(runs)
      /\ \A i \in 1..Len(runs) : runs[i] \in Runs(L) /\ runs[i].state \in L /\ runs[i].ctx \in Contexts
      /\ Self = runs[Len(runs)].state
  BY <1>1, RunFields, RunFacts DEF Self
<1>3. /\ DOMAIN runs' = 1..Len(runs) /\ runs' = [i \in 1..Len(runs) |-> runs'[i]] /\ Len(runs') = Len(runs)
      /\ \A i \in 1..Len(runs) : i # Len(runs) => runs'[i] = runs[i]
      /\ runs'[Len(runs)] = [runs[Len(runs)] EXCEPT !.ctx = n]
  <2>1. /\ DOMAIN runs' = 1..Len(runs) /\ runs' = [i \in 1..Len(runs) |-> runs'[i]]
        /\ \A i \in 1..Len(runs) : i # Len(runs) => runs'[i] = runs[i]
        /\ runs'[Len(runs)] = [runs[Len(runs)] EXCEPT !.ctx = n]
    BY <1>2 DEF Moved
  <2>2. Len(runs') = Len(runs)
    BY <1>2, <2>1, SequenceIs
  <2> QED
    BY <2>1, <2>2
<1>4. /\ runs'[Len(runs)].ctx = n /\ runs'[Len(runs)].state = Self /\ runs'[Len(runs)].callee = runs[Len(runs)].callee
      /\ runs'[Len(runs)].dest = runs[Len(runs)].dest /\ runs'[Len(runs)].kind = runs[Len(runs)].kind
      /\ runs'[Len(runs)] \in Runs(L)'
  BY Zenon, <1>2, <1>3 DEF Runs
<1>5. \A i, j \in 1..Len(runs) : i # j => runs[i].state # runs[j].state /\ runs[i].ctx # runs[j].ctx
  BY <1>1 DEF RunsOK
<1>6. ASSUME NEW i \in 1..Len(runs)
      PROVE  runs'[i].state = runs[i].state /\ runs'[i].ctx = IF i = Len(runs) THEN n ELSE runs[i].ctx
  <2>1. CASE i = Len(runs)
    BY <1>2, <1>4, <2>1
  <2>2. CASE i # Len(runs)
    BY <1>3, <2>2
  <2> QED
    BY <2>1, <2>2
<1>7. \A i \in 1..Len(runs) : runs[i].kind = "clone" => runs[i].state \in roots'
  <2>1. SUFFICES ASSUME NEW i \in 1..Len(runs), runs[i].kind = "clone" PROVE runs[i].state \in roots
    OBVIOUS
  <2>2. runs[1].kind = "main" /\ RunOK(i)
    BY <1>1 DEF RunsOK
  <2>3. i > 1
    BY <2>1, <2>2
  <2> QED
    BY <2>1, <2>2, <2>3 DEF RunOK, Called
<1>8. runs' \in Seq(Runs(L)')
  <2>1. Runs(L) \subseteq Runs(L)'
    BY <1>1, Grown DEF Runs
  <2>2. \A i \in 1..Len(runs) : runs'[i] \in Runs(L)'
    BY <1>2, <1>3, <1>4, <2>1
  <2> QED
    BY <1>2, <1>3, <2>2
<1>9. ASSUME NEW i \in 1..Len(runs), i # Len(runs)
      PROVE  RunOK(i)'
  <2>1. runs'[i] = runs[i] /\ (i > 1 => i \in 2..Len(runs) /\ i - 1 \in 1..Len(runs) /\ i - 1 # Len(runs))
    BY <1>2, <1>3, <1>9
  <2>2. i > 1 => HeldStays(i) /\ runs'[i - 1].ctx = runs[i - 1].ctx
    BY Zenon, <1>3, <2>1
  <2>3. states'[runs[i].state] = states[runs[i].state]
    BY Zenon, <1>1, <1>2, <1>5, <1>9
  <2> QED
    BY <1>7, <2>1, <2>2, <2>3, RunStays
<1>10. RunOK(Len(runs))'
  <2>1. PICK i \in 1..Len(runs) : i = Len(runs)
    BY <1>2
  <2>2. i > 1 => i \in 2..Len(runs) /\ i - 1 \in 1..Len(runs) /\ i - 1 # Len(runs)
    <3>1. Len(runs) \in Nat
      BY <1>2
    <3> QED
      BY <2>1, <3>1
  <2>3. i > 1 => HeldStays(i) /\ runs'[i - 1].ctx = runs[i - 1].ctx
    BY Zenon, <1>3, <2>2
  <2>4. i > 1 => Called(i)'
    BY ZenonT(40), <1>2, <1>4, <1>7, <2>1, <2>2, <2>3, CalledStays
  <2>5. states[Self].running
    BY <1>1, <1>2 DEF RunsOK, RunOK
  <2>6. RunOK(i)'
    BY <1>4, <2>1, <2>4, <2>5 DEF RunOK
  <2> QED
    BY ZenonT(40), <1>3, <2>1, <2>6
<1>11. \A i, j \in 1..Len(runs) : i # j => runs'[i].state # runs'[j].state /\ runs'[i].ctx # runs'[j].ctx
  BY <1>5, <1>6
<1>12. runs'[1].state = 1 /\ runs'[1].kind = "main" /\ runs' # <<>> /\ 1 \in roots'
  <2>1. runs[1].state = 1 /\ runs[1].kind = "main" /\ 1 \in roots /\ 1 \in 1..Len(runs)
    BY <1>1, <1>2 DEF RunsOK
  <2> QED
    BY <1>2, <1>3, <1>4, <2>1
<1>13. \A i \in 1..Len(runs') : RunOK(i)'
  <2>1. SUFFICES ASSUME NEW i \in 1..Len(runs) PROVE RunOK(i)'
    BY Zenon, <1>3
  <2>2. CASE i = Len(runs)
    <3>1. Len(runs) = Len(runs')
      BY <1>3
    <3> QED
      BY Zenon, <1>10, <2>2, <3>1 DEF RunOK, Called
  <2> QED
    BY <1>9, <2>2
<1>14. RunsOK(L)'
  BY <1>3, <1>8, <1>11, <1>12, <1>13 DEF RunsOK
<1> QED
  BY <1>3, <1>6, <1>14

\* CALL of a function of the same state keeps the invariant.
LEMMA CallOwnSound ==
  ASSUME NEW L, NEW A, NEW floor, Sound(L, A, floor), CallOwn
  PROVE  IInv'
<1>1. PICK n : n = New
  OBVIOUS
<1>2. PICK p : p = Ptr - x.n
  OBVIOUS
<1> DEFINE this == heap[states[Self].root].locals[1]
           w == Context(Callee.fn, Callee.parent, Ctx, x.dest, this, Arguments(x.n))
<1>3. /\ IsFunction /\ Callee.state = Self /\ New < MaxObjects /\ Ptr < MaxStack
      /\ stack' = [stack EXCEPT ![Ptr + 1] = NUMBER]
      /\ heap' = Append(heap, w)
      /\ states' = [states EXCEPT ![Self].ptr = p, ![Self].current = n]
      /\ runs' = [runs EXCEPT ![Len(runs)].ctx = n]
      /\ UNCHANGED <<program, roots, static>>
  BY <1>1, <1>2 DEF CallOwn, PutCount
<1>4. /\ L \subseteq DOMAIN states /\ ObjectsOK(L) /\ StatesOK(L) /\ RunsOK(L) /\ ActiveOK(A, floor) /\ static \in Kept(L)
      /\ roots \subseteq L /\ program \in Programs
  BY DEF Sound
<1>5. /\ Ctx \in Contexts /\ Ctx \in A /\ Self \in L /\ Self \in DOMAIN states /\ states[Self] \in States /\ Ptr \in 0..MaxStack /\ Ptr \in Nat
      /\ floor[Ctx] \in Nat /\ Ptr >= floor[Ctx] + PushedAt(Ctx) /\ PushedAt(Ctx) \in Nat
  BY RunFacts
<1>6. p \in Nat /\ p <= Ptr
  BY <1>2, <1>3, <1>5, CalleeFacts
<1>7. w # Freed
  BY DEF Context, Freed
<1> HIDE DEF w
<1>8. /\ Grows(L) /\ n \in DOMAIN heap' /\ heap'[n] = w /\ DOMAIN heap' \ DOMAIN heap = {n} /\ n \notin DOMAIN heap
      /\ \A o \in DOMAIN heap : heap'[o] = heap[o]
      /\ \A i \in 2..Len(runs) : HeldStays(i)
  BY <1>1, <1>3, <1>4, <1>7, AppendGrows, HeapSequence
<1>9. Kept(L) \subseteq Kept(L)' /\ Contexts \subseteq Contexts'
  BY <1>4, <1>8, Grown
<1>10. /\ IsObject(heap[n], L)' /\ n \in Contexts'
       /\ heap'[n].fn = Callee.fn /\ heap'[n].pc = 1 /\ heap'[n].return = Ctx
  <2>1. states[Self].root \in Contexts
    BY <1>4, <1>5 DEF StatesOK
  <2>2. \E s \in L : this = This(s) /\ (s = 1 \/ \E i \in DOMAIN heap' : heap'[i] = Instance(s))
    BY <1>8, <2>1, ThisMade
  <2>3. /\ Callee.fn \in DOMAIN program /\ Callee.parent \in Contexts \cup {0} /\ x.dest \in Registers \ {1}
        /\ Depth[heap[Callee.parent].fn] = Depth[Callee.fn] - 1
        /\ \A i \in DOMAIN Arguments(x.n) : Arguments(x.n)[i] \in Kept(L)
    BY <1>3, CalleeFacts
  <2>4. Callee.parent # 0 /\ x.dest \in Nat
    BY <1>3, <1>4, <2>3, CalleeFacts, HeapSequence, HeapAssumption
  <2>5. heap'[n] = Context(Callee.fn, Callee.parent, Ctx, x.dest, this, Arguments(x.n))
    BY <1>8 DEF w
  <2> HIDE DEF this
  <2>6. /\ Ctx \in Contexts \cup {0} /\ x.dest \in Nat /\ (Ctx # 0 => x.dest \in Registers \ {1})
        /\ (Depth[Callee.fn] > 0 => Callee.parent # 0 /\ Depth[heap[Callee.parent].fn] = Depth[Callee.fn] - 1)
    BY <1>5, <2>3, <2>4
  <2>7. Grows(L) /\ n \in DOMAIN heap' /\ L \subseteq L
    BY <1>8
  <2> QED
    BY <2>2, <2>3, <2>5, <2>6, <2>7, ContextMade
<1>11. ObjectsOK(L)'
  BY <1>4, <1>8, <1>10, ObjectsStay
<1>12. DOMAIN states' = DOMAIN states /\ IsSequence(states')
  <2>1. DOMAIN states' = DOMAIN states /\ states' = [s \in DOMAIN states |-> states'[s]]
    BY <1>3
  <2> QED
    BY <1>4, <2>1, StateSequence
<1>13. /\ \A s \in DOMAIN states \ {Self} : states'[s] = states[s]
       /\ states'[Self] = [states[Self] EXCEPT !.ptr = p, !.current = n]
  BY <1>3, <1>5
<1>14. NUMBER \in Kept(L)
  BY DEF Kept
<1>15. /\ (stack \in [1..MaxStack -> Values])'
       /\ \A i \in 1..MaxStack : stack'[i] = stack[i] \/ stack'[i] \in Kept(L)
  BY <1>3, <1>8, <1>12, <1>14, StackTyped
<1>16. MaxStack \in Nat
  BY HeapAssumption
<1>17. /\ states'[Self] \in States' /\ states'[Self].running = states[Self].running /\ states'[Self].current = n
       /\ states'[Self].root = states[Self].root /\ states'[Self].ptr = p
  <2>1. p \in 0..MaxStack /\ n \in DOMAIN heap' /\ DOMAIN heap \subseteq DOMAIN heap'
    BY <1>5, <1>6, <1>8, <1>16 DEF Grows
  <2> QED
    BY <1>5, <1>13, <2>1 DEF States
<1>18. \A i \in 1..p : stack'[i] \in Kept(L)
  <2>1. SUFFICES ASSUME NEW i \in 1..p PROVE stack'[i] \in Kept(L)
    OBVIOUS
  <2>2. i \in 1..MaxStack /\ i \in 1..Ptr
    BY <1>5, <1>6, <1>16
  <2>3. stack[i] \in Kept(L)
    BY <2>2, StackKept
  <2> QED
    BY <1>15, <2>2, <2>3
<1>19. StatesOK(L)'
  <2>1. \A s \in DOMAIN states \ {Self} : s \in DOMAIN states' /\ states'[s] = states[s]
    BY <1>12, <1>13
  <2>2. ASSUME NEW s \in DOMAIN states', s = Self
        PROVE  StateOK(s, L)'
    <3>1. states'[s].root \in Contexts' /\ states'[s].current \in Contexts'
      BY <1>4, <1>5, <1>9, <1>10, <1>17, <2>2 DEF StatesOK
    <3>2. gc_visit_stack(states[s].ptr)' \subseteq Kept(L)'
      BY <1>9, <1>17, <1>18, <2>2 DEF gc_visit_stack
    <3> QED
      BY <1>17, <2>2, <3>1, <3>2 DEF StateOK
  <2> QED
    BY <1>4, <1>8, <1>12, <1>15, <2>1, <2>2, StatesStay
<1>20. /\ Len(runs) \in Nat \ {0} /\ Len(runs) \in 1..Len(runs)
       /\ \A i \in 1..Len(runs) : runs[i].state \in L /\ runs[i].ctx \in Contexts /\ runs[i].ctx # n
       /\ Self = runs[Len(runs)].state /\ Ctx = runs[Len(runs)].ctx
       /\ \A i, j \in 1..Len(runs) : i # j => runs[i].state # runs[j].state /\ runs[i].ctx # runs[j].ctx
  <2>1. /\ Len(runs) \in Nat \ {0} /\ Len(runs) \in 1..Len(runs)
        /\ \A i \in 1..Len(runs) : runs[i].state \in L /\ runs[i].ctx \in Contexts
        /\ \A i, j \in 1..Len(runs) : i # j => runs[i].state # runs[j].state /\ runs[i].ctx # runs[j].ctx
    BY <1>4, RunFields DEF RunsOK
  <2> QED
    BY <1>8, <2>1, RunFacts DEF Self, Ctx, Contexts
<1>21. /\ RunsOK(L)' /\ Len(runs') = Len(runs)
       /\ \A i \in 1..Len(runs) : /\ runs'[i].state = runs[i].state
                                  /\ runs'[i].ctx = IF i = Len(runs) THEN n ELSE runs[i].ctx
  <2>1. \A i \in 1..Len(runs) : runs[i].ctx # n
    BY <1>20
  <2>2. n \in {states'[Self].current, heap'[states'[Self].current].return}
    BY <1>17
  <2>3. Moved(n) /\ roots' = roots
    BY <1>3 DEF Moved
  <2> QED
    BY <1>8, <1>10, <1>13, <1>17, <2>1, <2>2, <2>3, MovedRuns
<1>22. PICK A1 : A1 = A \cup {n}
  OBVIOUS
<1>23. PICK floor1 : floor1 = [c \in A1 |-> IF c = n THEN p ELSE floor[c]]
  OBVIOUS
<1>24. /\ A1 \subseteq Contexts' /\ floor1 \in [A1 -> Nat]
       /\ floor1[n] = p /\ \A c \in A : floor1[c] = floor[c]
       /\ \A c \in A1 : CallerOK(c, A1, floor1)'
  <2>1. \A c \in Contexts : heap'[c].pc = heap[c].pc
    BY <1>8 DEF Contexts
  <2>2. \A i \in 1..Len(runs') : (runs'[i].ctx = n \/ \E j \in 1..Len(runs) : runs'[i].ctx = runs[j].ctx) /\ runs'[i].ctx # Ctx
    <3>1. SUFFICES ASSUME NEW i \in 1..Len(runs)
                   PROVE  (runs'[i].ctx = n \/ runs'[i].ctx = runs[i].ctx) /\ runs'[i].ctx # Ctx
      BY <1>21
    <3>2. n # Ctx /\ Ctx = runs[Len(runs)].ctx /\ Len(runs) \in 1..Len(runs)
      BY <1>5, <1>8, <1>20 DEF Contexts
    <3> QED
      BY <1>20, <1>21, <3>2
  <2>3. heap[Ctx].pc <= Len(Body) /\ p >= floor[Ctx] + PushedAfter(Ctx)
    <3>1. x.op = "call" /\ heap[Ctx].pc <= Len(Body)
      BY <1>3, CalleeFacts
    <3>2. x.n \in Nat /\ PushedAfter(Ctx) = PushedAt(Ctx) - x.n
      BY <3>1, InstructionPushed
    <3> QED
      BY <1>2, <1>5, <3>1, <3>2
  <2>5. /\ Grows(L) /\ n \notin DOMAIN heap /\ n \in Contexts' /\ p \in Nat /\ heap'[n].return = Ctx
        /\ \A i \in 1..Len(runs') : runs'[i].ctx = n \/ \E j \in 1..Len(runs) : runs'[i].ctx = runs[j].ctx
        /\ \A i \in 1..Len(runs') : runs'[i].ctx # Ctx
    BY <1>6, <1>8, <1>10, <2>2
  <2>4. Extended(A, floor, n, p, A1, floor1) /\ floor1 \in [A1 -> Nat] /\ floor1[n] = p /\ \A c \in A : floor1[c] = floor[c]
    <3>1. floor \in [A -> Nat] /\ A \subseteq DOMAIN heap /\ p \in Nat /\ n \notin A
      BY <1>4, <1>10, <2>5 DEF ActiveOK, Contexts
    <3> QED
      BY <1>22, <1>23, <3>1 DEF Extended
  <2>6. heap'[n].return = 0 \/ Awaited(n, p, floor)
    BY <2>3, <2>5 DEF Awaited
  <2>7. A1 \subseteq Contexts' /\ \A c \in A1 : CallerOK(c, A1, floor1)'
    BY <2>1, <2>4, <2>5, <2>6, ActiveExtended
  <2> QED
    BY <2>4, <2>7
<1>25. n \in A1 /\ A \subseteq A1
  BY <1>22
<1>26. ActiveOK(A1, floor1)'
  <2>1. ASSUME NEW i \in 1..Len(runs), i # Len(runs)
        PROVE  StackOK(i, A1, floor1)'
    <3>1. StackOK(i, A, floor) /\ runs[i].ctx \in A
      BY <1>4 DEF ActiveOK, StackOK
    <3>2. /\ states'[runs[i].state] = states[runs[i].state] /\ states[runs[i].state] \in States
          /\ runs'[i].ctx = runs[i].ctx /\ runs'[i].state = runs[i].state
      BY <1>4, <1>13, <1>20, <1>21, <2>1, Sequences DEF StatesOK
    <3>3. states[runs[i].state].ptr \in Nat
      BY <1>16, <3>2 DEF States
    <3>4. heap'[runs[i].ctx].pc = heap[runs[i].ctx].pc
      BY <1>8, <1>20 DEF Contexts
    <3>5. Sound(L, A, floor) /\ Grows(L)
      BY <1>4, <1>8
    <3>6. runs[i].ctx \in A1 /\ floor1[runs[i].ctx] = floor[runs[i].ctx]
      BY <1>24, <1>25, <3>1
    <3>7. states'[runs[i].state].ptr \in Nat /\ states'[runs[i].state].ptr >= states[runs[i].state].ptr
      BY <3>2, <3>3
    <3>8. i < Len(runs') => i < Len(runs)
      BY <1>20, <1>21, <2>1
    <3> QED
      BY <3>2, <3>4, <3>5, <3>6, <3>7, <3>8, StackStays
  <2>2. PICK i \in 1..Len(runs) : i = Len(runs)
    BY <1>20
  <2>3. StackOK(i, A1, floor1)'
    <3>1. program' = program /\ Callee.fn \in DOMAIN program /\ n \in Contexts'
      BY <1>3, <1>10, CalleeFacts
    <3>2. Len(program[Callee.fn]) \in Nat
      BY <1>4, <3>1, HeapAssumption DEF WellFormed, WellFormedBody
    <3>3. Pushed(program[Callee.fn])[1] = 0
      BY <1>4, <3>1, <3>2, PushedStep
    <3>4. runs'[i].ctx = n /\ runs'[i].state = Self
      BY <1>20, <1>21, <2>2
    <3>5. (PushedAt(runs[i].ctx))' = 0
      BY <1>10, <3>1, <3>3, <3>4 DEF PushedAt
    <3>6. states'[Self].ptr = p /\ floor1[n] = p /\ n \in A1 /\ ~ (i < Len(runs'))
      BY <1>17, <1>20, <1>21, <1>24, <1>25, <2>2
    <3> QED
      BY <1>6, <3>4, <3>5, <3>6 DEF StackOK
  <2> QED
    BY <1>21, <1>24, <2>1, <2>2, <2>3 DEF ActiveOK
<1>27. Sound(L, A1, floor1)'
  <2>1. static' \in Kept(L)' /\ roots' \subseteq L /\ program' \in Programs /\ L \subseteq DOMAIN states'
    BY <1>3, <1>4, <1>9, <1>12
  <2> QED
    BY <1>11, <1>15, <1>19, <1>21, <1>26, <2>1 DEF Sound
<1> QED
  BY <1>27, IInvFrom

\* Run m starts, of state t in the new context n.
NewRun(L, L1, m, t, n, p) ==
  /\ L \subseteq L1 /\ L1 \subseteq DOMAIN states'
  /\ m = Len(runs) + 1
  /\ t \in L1 /\ \A i \in 1..Len(runs) : runs[i].state # t
  /\ n \notin DOMAIN heap /\ n \in Contexts' /\ heap'[n].return = 0
  /\ heap'[n].fn \in DOMAIN program /\ heap'[n].pc = 1
  /\ p \in Nat
  /\ runs' = Append(runs, runs'[m])
  /\ runs'[m] \in Runs(L1)' /\ runs'[m].state = t /\ runs'[m].ctx = n /\ Called(m)'
  /\ ObjectsOK(L1)' /\ StatesOK(L1)' /\ (stack \in [1..MaxStack -> Values])'
  /\ static' = static /\ roots \subseteq roots' /\ roots' \subseteq L1
  /\ states'[t].running /\ states'[t].current = n /\ states'[t].ptr = p
  /\ \A i \in 1..Len(runs) : /\ states'[runs[i].state].running = states[runs[i].state].running
                             /\ states'[runs[i].state].current = states[runs[i].state].current
                             /\ states'[runs[i].state].ptr \in Nat
                             /\ states'[runs[i].state].ptr >= states[runs[i].state].ptr
  /\ \A i \in 2..Len(runs) : HeldStays(i)
  /\ \A c \in Contexts : heap'[c].pc = heap[c].pc
  /\ heap[Ctx].pc <= Len(Body) /\ x.op \in {"call", "new"}

\* A step that starts an interpreter on another state does.
LEMMA NewRunSound ==
  ASSUME NEW L, NEW A, NEW floor, Sound(L, A, floor), Grows(L),
         NEW L1, NEW m, NEW t, NEW n, NEW p, NewRun(L, L1, m, t, n, p)
  PROVE  IInv'
<1>1. /\ L \subseteq DOMAIN states /\ ObjectsOK(L) /\ StatesOK(L) /\ RunsOK(L) /\ ActiveOK(A, floor) /\ static \in Kept(L)
      /\ program \in Programs
  BY DEF Sound
<1>2. /\ L \subseteq L1 /\ L1 \subseteq DOMAIN states' /\ program' = program
      /\ m = Len(runs) + 1 /\ t \in L1 /\ p \in Nat
      /\ n \notin DOMAIN heap /\ n \in Contexts'
  BY DEF NewRun, Grows
<1>3. Kept(L) \subseteq Kept(L1)' /\ Contexts \subseteq Contexts'
  BY <1>1, <1>2, Grown
<1>4. /\ DOMAIN runs = 1..Len(runs) /\ Len(runs) \in Nat \ {0} /\ Len(runs) \in 1..Len(runs)
      /\ \A i \in 1..Len(runs) : runs[i] \in Runs(L) /\ runs[i].state \in L /\ runs[i].ctx \in Contexts
      /\ Self = runs[Len(runs)].state /\ Ctx = runs[Len(runs)].ctx
  BY <1>1, RunFields, RunFacts DEF Self, Ctx
<1>5. /\ runs' \in Seq(Runs(L1)')
      /\ Len(runs') = m /\ DOMAIN runs' = 1..m
      /\ \A i \in 1..Len(runs) : runs'[i] = runs[i]
      /\ m \in Nat /\ m > 1 /\ m - 1 = Len(runs) /\ 1..m = 1..Len(runs) \cup {m} /\ m \notin 1..Len(runs)
  <2>1. Runs(L) \subseteq Runs(L1)'
    BY <1>2, <1>3 DEF Runs
  <2>2. runs \in Seq(Runs(L))
    BY <1>1 DEF RunsOK
  <2>3. runs \in Seq(Runs(L1)')
    BY <2>1, <2>2, SequenceSubset
  <2>4. runs' = Append(runs, runs'[m]) /\ runs'[m] \in Runs(L1)'
    BY DEF NewRun
  <2>5. runs' \in Seq(Runs(L1)') /\ Len(runs') = Len(runs) + 1 /\ \A i \in 1..Len(runs) : runs'[i] = runs[i]
    BY <2>3, <2>4
  <2> QED
    BY <1>2, <1>4, <2>5
<1>6. RunsOK(L1)'
  <2>1. ASSUME NEW i \in 1..Len(runs)
        PROVE  RunOK(i)'
    <3>1. i > 1 => i \in 2..Len(runs) /\ i - 1 \in 1..Len(runs)
      BY <1>4
    <3>2. i > 1 => HeldStays(i) /\ runs'[i - 1].ctx = runs[i - 1].ctx
      BY <1>5, <3>1 DEF NewRun
    <3>3. runs[i].kind = "clone" => runs[i].state \in roots'
      <4>1. SUFFICES ASSUME runs[i].kind = "clone" PROVE runs[i].state \in roots
        BY DEF NewRun
      <4>2. runs[1].kind = "main" /\ RunOK(i)
        BY <1>1 DEF RunsOK
      <4>3. i > 1
        BY <4>1, <4>2
      <4> QED
        BY <4>1, <4>2, <4>3 DEF RunOK, Called
    <3>4. states'[runs[i].state].running = states[runs[i].state].running
          /\ states'[runs[i].state].current = states[runs[i].state].current
      BY DEF NewRun
    <3> QED
      BY <1>5, <3>2, <3>3, <3>4, RunStays
  <2>2. RunOK(m)'
    <3>1. /\ runs'[m].state = t /\ runs'[m].ctx = n /\ Called(m)'
          /\ states'[t].running /\ states'[t].current = n
      BY DEF NewRun
    <3> QED
      BY <3>1 DEF RunOK
  <2>3. \A i, j \in 1..m : i # j => runs'[i].state # runs'[j].state /\ runs'[i].ctx # runs'[j].ctx
    <3>1. \A i, j \in 1..Len(runs) : i # j => runs[i].state # runs[j].state /\ runs[i].ctx # runs[j].ctx
      BY <1>1 DEF RunsOK
    <3>2. runs'[m].state = t /\ runs'[m].ctx = n /\ \A i \in 1..Len(runs) : runs[i].state # t
      BY DEF NewRun
    <3>3. \A i \in 1..Len(runs) : runs[i].ctx # n
      BY <1>2, <1>4 DEF Contexts
    <3> QED
      BY <1>5, <3>1, <3>2, <3>3
  <2>4. runs' # <<>> /\ runs'[1].state = 1 /\ runs'[1].kind = "main" /\ 1 \in roots'
    <3>1. runs[1].state = 1 /\ runs[1].kind = "main" /\ 1 \in roots /\ 1 \in 1..Len(runs)
      BY <1>1, <1>4 DEF RunsOK
    <3>2. roots \subseteq roots'
      BY DEF NewRun
    <3> QED
      BY <1>5, <3>1, <3>2
  <2>5. \A i \in 1..Len(runs') : RunOK(i)'
    <3>1. SUFFICES ASSUME NEW i \in 1..m PROVE RunOK(i)'
      BY Zenon, <1>5
    <3>2. CASE i = m
      BY Zenon, <2>2, <3>2 DEF RunOK, Called
    <3>3. CASE i \in 1..Len(runs)
      BY <2>1, <3>3
    <3> QED
      BY <1>5, <3>2, <3>3
  <2> QED
    BY <1>5, <2>3, <2>4, <2>5 DEF RunsOK
<1>7. PICK A1 : A1 = A \cup {n}
  OBVIOUS
<1>8. PICK floor1 : floor1 = [c \in A1 |-> IF c = n THEN p ELSE floor[c]]
  OBVIOUS
<1>9. /\ Extended(A, floor, n, p, A1, floor1) /\ floor1 \in [A1 -> Nat] /\ floor1[n] = p
      /\ n \in A1 /\ A \subseteq A1 /\ \A c \in A : floor1[c] = floor[c]
  <2>1. floor \in [A -> Nat] /\ n \notin A
    BY <1>1, <1>2 DEF ActiveOK, Contexts
  <2> QED
    BY <1>2, <1>7, <1>8, <2>1 DEF Extended
<1>10. A1 \subseteq Contexts' /\ \A c \in A1 : CallerOK(c, A1, floor1)'
  <2>1. heap'[n].return = 0 /\ \A c \in Contexts : heap'[c].pc = heap[c].pc
    BY DEF NewRun
  <2>2. \A i \in 1..Len(runs') : runs'[i].ctx = n \/ \E j \in 1..Len(runs) : runs'[i].ctx = runs[j].ctx
    <3>1. runs'[m].ctx = n
      BY DEF NewRun
    <3> QED
      BY <1>5, <3>1
  <2> QED
    BY <1>2, <1>9, <2>1, <2>2, ActiveExtended
<1>11. ASSUME NEW i \in 1..Len(runs), i # Len(runs)
       PROVE  StackOK(i, A1, floor1)'
  <2>1. StackOK(i, A, floor) /\ runs[i].ctx \in A /\ i < Len(runs)
    <3>1. StackOK(i, A, floor)
      BY <1>1 DEF ActiveOK
    <3>2. runs[i].ctx \in A
      BY <3>1 DEF StackOK
    <3>3. Len(runs) \in Nat
      BY <1>4
    <3>4. i < Len(runs)
      BY <1>11, <3>3
    <3> QED
      BY <3>1, <3>2, <3>4
  <2>2. states'[runs[i].state].ptr \in Nat /\ states'[runs[i].state].ptr >= states[runs[i].state].ptr
    BY DEF NewRun
  <2>3. heap'[runs[i].ctx].pc = heap[runs[i].ctx].pc
    BY <1>4 DEF NewRun
  <2> QED
    <3>1. runs'[i].ctx = runs[i].ctx /\ runs'[i].state = runs[i].state
      BY <1>5
    <3>2. runs[i].ctx \in A1 /\ floor1[runs[i].ctx] = floor[runs[i].ctx]
      BY <1>9, <2>1
    <3> QED
      BY <1>1, <2>1, <2>2, <2>3, <3>1, <3>2, StackStays
<1>12. ASSUME NEW i \in 1..Len(runs), i = Len(runs)
       PROVE  StackOK(i, A1, floor1)'
  <2>1. /\ Ctx \in A /\ Ctx \in Contexts /\ Ptr \in Nat /\ floor[Ctx] \in Nat
        /\ Ptr >= floor[Ctx] + PushedAt(Ctx) /\ PushedAt(Ctx) \in Nat
    BY RunFacts
  <2>2. runs'[i].ctx = Ctx /\ runs'[i].state = Self
    BY <1>4, <1>5, <1>12
  <2>3. heap'[Ctx].fn = heap[Ctx].fn
    BY <1>1, <2>1, Grown
  <2>4. heap'[Ctx].pc = heap[Ctx].pc
    BY <2>1 DEF NewRun
  <2>5. states'[Self].ptr \in Nat /\ states'[Self].ptr >= Ptr
    BY <1>4 DEF NewRun, Ptr
  <2>6. (PushedAt(runs[i].ctx))' = PushedAt(Ctx)
    BY <1>2, <2>2, <2>3, <2>4 DEF PushedAt
  <2>7. heap'[Ctx].pc <= Len(program'[heap'[Ctx].fn]) /\ (At(runs[i].ctx))' \in {"call", "new"}
    <3>1. heap[Ctx].pc <= Len(Body) /\ x.op \in {"call", "new"}
      BY DEF NewRun
    <3> QED
      BY <1>2, <2>2, <2>3, <2>4, <3>1 DEF At, x, Body
  <2>8. floor1[Ctx] = floor[Ctx] /\ Ctx \in A1
    BY <1>9, <2>1
  <2>9. states'[Self].ptr >= floor[Ctx] + PushedAt(Ctx)
    BY <2>1, <2>5
  <2> QED
    BY <2>1, <2>2, <2>6, <2>7, <2>8, <2>9 DEF StackOK
<1>13. StackOK(m, A1, floor1)'
  <2>1. heap'[n].fn \in DOMAIN program /\ heap'[n].pc = 1 /\ runs'[m].state = t /\ runs'[m].ctx = n /\ states'[t].ptr = p
    BY DEF NewRun
  <2>2. Len(program[heap'[n].fn]) \in Nat
    BY <1>1, <2>1, HeapAssumption DEF WellFormed, WellFormedBody
  <2>3. Pushed(program[heap'[n].fn])[1] = 0
    BY <1>1, <2>1, <2>2, PushedStep
  <2>4. (PushedAt(runs[m].ctx))' = 0
    BY <1>2, <2>1, <2>3 DEF PushedAt
  <2>5. ~ (m < Len(runs'))
    BY <1>5
  <2> QED
    BY <1>2, <1>9, <2>1, <2>4, <2>5 DEF StackOK
<1>14. ActiveOK(A1, floor1)'
  <2>1. \A i \in 1..Len(runs') : StackOK(i, A1, floor1)'
    <3>1. SUFFICES ASSUME NEW i \in 1..m PROVE StackOK(i, A1, floor1)'
      BY <1>5
    <3>2. CASE i = m
      BY <1>13, <3>2 DEF StackOK
    <3>3. CASE i \in 1..Len(runs)
      BY <1>11, <1>12, <3>3
    <3> QED
      BY <1>5, <3>2, <3>3
  <2> QED
    BY <1>9, <1>10, <2>1 DEF ActiveOK
<1>15. Sound(L1, A1, floor1)'
  <2>1. /\ ObjectsOK(L1)' /\ StatesOK(L1)' /\ (stack \in [1..MaxStack -> Values])'
        /\ static' = static /\ roots' \subseteq L1
    BY DEF NewRun
  <2>2. static' \in Kept(L1)' /\ program' \in Programs
    BY <1>1, <1>2, <1>3, <2>1
  <2> QED
    BY <1>2, <1>6, <1>14, <2>1, <2>2 DEF Sound
<1> QED
  BY <1>15, IInvFrom

\* CALL of a function of another state is one of these.
LEMMA CallOtherSound ==
  ASSUME NEW L, NEW A, NEW floor, Sound(L, A, floor), CallOther
  PROVE  IInv'
<1>1. /\ L \subseteq DOMAIN states /\ ObjectsOK(L) /\ StatesOK(L) /\ RunsOK(L) /\ ActiveOK(A, floor)
      /\ static \in Kept(L) /\ roots \subseteq L
  BY DEF Sound
<1>2. /\ Ctx \in Contexts /\ Self \in L /\ Self \in DOMAIN states /\ states[Self] \in States
      /\ Ptr \in 0..MaxStack /\ Ptr \in Nat
  BY Zenon, RunFacts
<1>3. /\ x.op = "call" /\ heap[Ctx].pc <= Len(Body) /\ IsFunction
      /\ x.r \in Registers \ {1} /\ x.dest \in Registers \ {1}
      /\ Local[x.r] \in DOMAIN heap /\ Local[x.r] > 0 /\ heap[Local[x.r]].type = "function"
      /\ Callee.state \in L /\ Callee.parent \in Contexts /\ Callee.fn \in DOMAIN program
      /\ Depth[heap[Callee.parent].fn] = Depth[Callee.fn] - 1
      /\ x.n \in Nat /\ x.n <= Ptr
      /\ \A i \in DOMAIN Arguments(x.n) : Arguments(x.n)[i] \in Kept(L)
  BY Zenon, CalleeFacts DEF CallOther
<1>4. PICK n, m, s, p : n = New /\ m = Len(runs) + 1 /\ s = Callee.state /\ p = Ptr - x.n
  OBVIOUS
<1>5. PICK c, r, d, v : c = Ctx /\ r = x.r /\ d = x.dest /\ v = Local[x.r]
  OBVIOUS
<1>6. PICK clone \in BOOLEAN : clone = states[s].running
  <2>1. states[s] \in States
    BY <1>1, <1>3, <1>4, Sequences DEF StatesOK
  <2> QED
    BY <2>1 DEF States
<1>7. PICK t, rt : t = (IF clone THEN Len(states) + 1 ELSE s) /\ rt = (IF clone THEN states[s].current ELSE states[s].root)
  OBVIOUS
<1>8. PICK called : called = [type |-> "state", root |-> rt, current |-> n, ptr |-> p, running |-> TRUE]
  OBVIOUS
<1>9. PICK this : this = heap[rt].locals[1]
  OBVIOUS
<1>10. PICK run : run = [state |-> t, ctx |-> n, dest |-> d, callee |-> <<c, r>>, kind |-> IF clone THEN "clone" ELSE "call"]
  OBVIOUS
<1>11. PICK L1 : L1 = L \cup {t}
  OBVIOUS
<1>12. PICK pushed : pushed = [states EXCEPT ![Self].ptr = Ptr + 1]
  OBVIOUS
<1> DEFINE w == Context(Callee.fn, Callee.parent, 0, 0, this, Arguments(x.n))
<1>13. /\ s # Self /\ New < MaxObjects /\ Ptr < MaxStack
       /\ stack' = [stack EXCEPT ![Ptr + 1] = NUMBER]
       /\ heap' = Append(heap, w)
       /\ states' = IF clone THEN Append(pushed, called) ELSE [pushed EXCEPT ![s] = called]
       /\ roots' = IF clone THEN roots \cup {t} ELSE roots
       /\ runs' = Append(runs, run)
       /\ UNCHANGED <<program, static>>
  <2>1. State(rt, New, Ptr - x.n) = called
    BY <1>4, <1>8 DEF State
  <2>2. called.root = rt
    BY <1>8
  <2> QED
    BY Zenon, <1>4, <1>5, <1>6, <1>7, <1>9, <1>10, <1>12, <2>1, <2>2 DEF CallOther, PutCount
<1>14. w # Freed
  BY DEF Context, Freed
<1> HIDE DEF w
<1>15. /\ Grows(L) /\ n \in DOMAIN heap' /\ heap'[n] = w /\ DOMAIN heap' \ DOMAIN heap = {n} /\ n \notin DOMAIN heap
       /\ \A o \in DOMAIN heap : heap'[o] = heap[o]
       /\ \A i \in 2..Len(runs) : HeldStays(i)
  BY <1>1, <1>4, <1>13, <1>14, AppendGrows, HeapSequence
<1>16. /\ s \in L /\ s \in DOMAIN states /\ states[s] \in States /\ rt \in Contexts
       /\ p \in Nat /\ p <= Ptr /\ MaxStack \in Nat
  BY SMTT(40), <1>1, <1>2, <1>3, <1>4, <1>7, Sequences, HeapAssumption DEF StatesOK
<1>17. /\ DOMAIN states' = DOMAIN states \cup {t} /\ IsSequence(states')
       /\ states'[t] = called
       /\ states'[Self] = [states[Self] EXCEPT !.ptr = Ptr + 1]
       /\ \A i \in DOMAIN states \ {Self, t} : states'[i] = states[i]
       /\ Self # t
  <2>1. /\ Len(states) \in Nat /\ DOMAIN states = 1..Len(states) /\ IsSequence(states)
        /\ \A q : DOMAIN q = DOMAIN states /\ q = [i \in DOMAIN states |-> q[i]] => IsSequence(q) /\ Len(q) = Len(states)
    BY <1>1, StateSequence
  <2>2. /\ DOMAIN pushed = DOMAIN states /\ pushed = [i \in DOMAIN states |-> pushed[i]]
        /\ pushed[Self] = [states[Self] EXCEPT !.ptr = Ptr + 1]
        /\ \A i \in DOMAIN states \ {Self} : pushed[i] = states[i]
    BY <1>2, <1>12
  <2>3. IsSequence(pushed) /\ Len(pushed) = Len(states)
    BY <2>1, <2>2
  <2>4. CASE clone
    <3>1. states' = Append(pushed, called) /\ t = Len(states) + 1
      BY <1>7, <1>13, <2>4
    <3>2. /\ IsSequence(states') /\ DOMAIN states' = 1..(Len(states) + 1)
          /\ \A i \in 1..Len(states) : states'[i] = pushed[i]
          /\ states'[t] = called
      BY <2>3, <3>1, SequenceAppend
    <3>3. t \notin DOMAIN states /\ DOMAIN states' = DOMAIN states \cup {t}
      BY <2>1, <3>1, <3>2
    <3> QED
      BY <1>2, <2>1, <2>2, <3>2, <3>3
  <2>5. CASE ~ clone
    <3>1. states' = [pushed EXCEPT ![s] = called] /\ t = s
      BY <1>7, <1>13, <2>5
    <3>2. /\ DOMAIN states' = DOMAIN states /\ states' = [i \in DOMAIN states |-> states'[i]]
          /\ states'[t] = called /\ \A i \in DOMAIN states \ {t} : states'[i] = pushed[i]
      BY <1>16, <2>2, <3>1
    <3>3. IsSequence(states')
      BY <2>1, <3>2
    <3> QED
      BY SMTT(40), <1>2, <1>13, <1>16, <2>2, <3>1, <3>2, <3>3
  <2> QED
    BY <1>6, <2>4, <2>5
<1>18. L \subseteq L1 /\ t \in L1 /\ L1 \subseteq DOMAIN states' /\ \A i \in 1..Len(runs) : runs[i].state # t
  <2>1. ASSUME NEW i \in 1..Len(runs)
        PROVE  runs[i].state # t
    <3>1. runs[i].state \in DOMAIN states /\ states[runs[i].state].running
      BY <1>1, RunFields DEF RunsOK, RunOK
    <3>2. Len(states) + 1 \notin DOMAIN states
      BY <1>1, StateSequence
    <3> QED
      BY <1>6, <1>7, <3>1, <3>2
  <2> QED
    BY <1>1, <1>11, <1>17, <2>1
<1>19. Kept(L) \subseteq Kept(L1)' /\ Contexts \subseteq Contexts' /\ NUMBER \in Kept(L)
  BY <1>1, <1>15, <1>18, Grown DEF Kept
<1>20. /\ IsObject(heap[n], L1)' /\ n \in Contexts'
       /\ heap'[n].fn = Callee.fn /\ heap'[n].pc = 1 /\ heap'[n].return = 0
  <2>1. \E i \in L1 : this = This(i) /\ (i = 1 \/ \E o \in DOMAIN heap' : heap'[o] = Instance(i))
    BY <1>9, <1>15, <1>16, <1>18, ThisMade
  <2>2. Callee.parent # 0
    BY <1>1, <1>3, HeapSequence
  <2>3. heap'[n] = Context(Callee.fn, Callee.parent, 0, 0, this, Arguments(x.n))
    BY <1>15 DEF w
  <2>4. Depth[Callee.fn] > 0 => Callee.parent # 0 /\ Depth[heap[Callee.parent].fn] = Depth[Callee.fn] - 1
    BY <1>3, <2>2
  <2> QED
    BY SMTT(40), <1>3, <1>15, <1>18, <2>1, <2>3, <2>4, ContextMade
<1>21. ObjectsOK(L1)'
  BY <1>1, <1>15, <1>18, <1>20, ObjectsStay
<1>22. /\ (stack \in [1..MaxStack -> Values])'
       /\ \A i \in 1..MaxStack : stack'[i] = stack[i] \/ stack'[i] \in Kept(L)
  <2>1. DOMAIN states \subseteq DOMAIN states'
    BY <1>17
  <2> QED
    BY <1>13, <1>15, <1>19, <2>1, StackTyped
<1>23. ASSUME NEW i \in 1..(Ptr + 1)
       PROVE  stack'[i] \in Kept(L)
  <2>1. stack \in [1..MaxStack -> Values] /\ i \in 1..MaxStack
    BY <1>2, <1>13, <1>16 DEF Sound
  <2>2. CASE i = Ptr + 1
    BY <1>13, <1>19, <2>1, <2>2
  <2>3. CASE i # Ptr + 1
    <3>1. i \in 1..Ptr
      BY <1>2, <2>3
    <3> QED
      BY <1>22, <2>1, <3>1, StackKept
  <2> QED
    BY <2>2, <2>3
<1>24. ASSUME NEW q \in 0..(Ptr + 1), NEW i \in DOMAIN states', states'[i].ptr = q
       PROVE  gc_visit_stack(states[i].ptr)' \subseteq Kept(L1)'
  <2>1. \A j \in 1..q : j \in 1..(Ptr + 1)
    BY <1>2
  <2>2. \A j \in 1..q : stack'[j] \in Kept(L1)'
    BY <1>19, <1>23, <2>1
  <2> QED
    BY <1>24, <2>2 DEF gc_visit_stack
<1>25. StatesOK(L1)'
  <2>1. DOMAIN heap \subseteq DOMAIN heap'
    BY <1>15 DEF Grows
  <2>2. ASSUME NEW i \in DOMAIN states', i = Self
        PROVE  StateOK(i, L1)'
    <3>1. states'[i] \in States'
      <4>1. Ptr + 1 \in 0..MaxStack
        BY <1>2, <1>13, <1>16
      <4> QED
        BY <1>2, <1>17, <2>1, <2>2, <4>1 DEF States
    <3>2. states'[i].root \in Contexts' /\ states'[i].current \in Contexts'
      <4>1. states[Self].root \in Contexts /\ states[Self].current \in Contexts
        BY <1>1, <1>2 DEF StatesOK
      <4> QED
        BY <1>2, <1>17, <1>19, <2>2, <4>1 DEF States
    <3>3. gc_visit_stack(states[i].ptr)' \subseteq Kept(L1)'
      <4>1. states'[i].ptr = Ptr + 1 /\ Ptr + 1 \in 0..(Ptr + 1)
        BY <1>2, <1>17, <2>2 DEF States
      <4> QED
        BY <1>24, <4>1
    <3> QED
      BY <3>1, <3>2, <3>3 DEF StateOK
  <2>3. ASSUME NEW i \in DOMAIN states', i = t
        PROVE  StateOK(i, L1)'
    <3>1. p \in 0..MaxStack /\ p \in 0..(Ptr + 1)
      BY <1>2, <1>16
    <3>2. rt \in DOMAIN heap' /\ n \in DOMAIN heap' /\ rt \in Contexts' /\ n \in Contexts'
      BY <1>16, <1>19, <1>20 DEF Contexts
    <3>3. states'[i] = called
      BY <1>17, <2>3
    <3>4. states'[i] \in States' /\ states'[i].root \in Contexts' /\ states'[i].current \in Contexts' /\ states'[i].ptr = p
      BY <1>8, <3>1, <3>2, <3>3 DEF States
    <3>5. gc_visit_stack(states[i].ptr)' \subseteq Kept(L1)'
      BY <1>24, <3>1, <3>4
    <3> QED
      BY <3>4, <3>5 DEF StateOK
  <2>4. \A i \in DOMAIN states' : \/ i \in DOMAIN states /\ states'[i] = states[i] /\ (i \in L1 => i \in L)
                                  \/ StateOK(i, L1)'
    <3>1. SUFFICES ASSUME NEW i \in DOMAIN states'
                   PROVE  \/ i \in DOMAIN states /\ states'[i] = states[i] /\ (i \in L1 => i \in L)
                          \/ StateOK(i, L1)'
      OBVIOUS
    <3>2. i # t /\ i # Self => i \in DOMAIN states /\ states'[i] = states[i] /\ (i \in L1 => i \in L)
      BY <1>11, <1>17
    <3> QED
      BY <2>2, <2>3, <3>2
  <2> QED
    BY <1>15, <1>17, <1>18, <1>22, <2>4, StatesStay
<1>26. /\ Len(runs) \in Nat \ {0} /\ Len(runs) \in 1..Len(runs) /\ m - 1 = Len(runs)
       /\ Self = runs[Len(runs)].state /\ Ctx = runs[Len(runs)].ctx
       /\ runs'[m] = run /\ runs'[m - 1] = runs[m - 1]
  <2>1. Len(runs) \in Nat \ {0} /\ Len(runs) \in 1..Len(runs) /\ m - 1 = Len(runs)
    BY <1>1, <1>4, RunFields
  <2>2. runs \in Seq(Runs(L))
    BY <1>1 DEF RunsOK
  <2>3. runs'[m] = run /\ runs'[Len(runs)] = runs[Len(runs)]
    BY <1>4, <1>13, <2>1, <2>2
  <2> QED
    BY <2>1, <2>3, RunFacts DEF Self, Ctx
<1>27. Called(m)'
  <2>1. heap'[c].locals[r] = v /\ heap'[v] = heap[v]
    BY <1>2, <1>3, <1>5, <1>15 DEF Contexts, Local
  <2>2. v > 0 /\ heap[v].type = "function" /\ heap[v].state = s
    BY <1>3, <1>4, <1>5 DEF Callee
  <2>3. c = runs'[m - 1].ctx /\ r \in Registers \ {1} /\ d \in Registers \ {1}
    BY <1>3, <1>5, <1>26
  <2>4. /\ run.kind = (IF clone THEN "clone" ELSE "call") /\ run.state = t /\ run.dest = d
        /\ run.callee[1] = c /\ run.callee[2] = r
    BY <1>10
  <2>5. run.kind = "clone" => t \in roots'
    BY <1>13, <2>4
  <2>6. run.kind = "call" => t = s
    BY <1>7, <2>4
  <2> QED
    BY <1>26, <2>1, <2>2, <2>3, <2>4, <2>5, <2>6 DEF Called, CalleeKept
<1>28. runs'[m] \in Runs(L1)' /\ runs'[m].state = t /\ runs'[m].ctx = n
  <2>1. c \in Nat /\ r \in Nat /\ d \in Nat
    BY SMTT(40), <1>1, <1>2, <1>3, <1>5, HeapSequence, HeapAssumption DEF Contexts
  <2> QED
    BY <1>10, <1>18, <1>20, <1>26, <2>1 DEF Runs
<1>29. ASSUME NEW i \in 1..Len(runs)
       PROVE  /\ states'[runs[i].state].running = states[runs[i].state].running
              /\ states'[runs[i].state].current = states[runs[i].state].current
              /\ states'[runs[i].state].ptr \in Nat
              /\ states'[runs[i].state].ptr >= states[runs[i].state].ptr
  <2>1. PICK j : j = runs[i].state
    OBVIOUS
  <2>2. j \in DOMAIN states /\ j # t /\ states[j] \in States
    BY <1>1, <1>18, <2>1, RunFields, Sequences DEF StatesOK
  <2>3. states[j].ptr \in Nat
    BY <1>16, <2>2 DEF States
  <2>4. CASE j = Self
    <3>1. states[j].ptr = Ptr
      BY <2>4 DEF Ptr
    <3> QED
      BY <1>2, <1>17, <2>1, <2>4, <3>1 DEF States
  <2>5. CASE j # Self
    BY <1>17, <2>1, <2>2, <2>3, <2>5
  <2> QED
    BY <2>4, <2>5
<1>30. NewRun(L, L1, m, t, n, p)
  <2>1. states'[t].running /\ states'[t].current = n /\ states'[t].ptr = p
    BY <1>8, <1>17
  <2>2. roots \subseteq roots' /\ roots' \subseteq L1 /\ static' = static
    BY <1>1, <1>13, <1>18
  <2>3. heap'[n].fn \in DOMAIN program /\ x.op \in {"call", "new"} /\ heap[Ctx].pc <= Len(Body)
    BY <1>3, <1>20
  <2>4. \A o \in Contexts : heap'[o].pc = heap[o].pc
    BY <1>15 DEF Contexts
  <2>5. runs' = Append(runs, runs'[m])
    BY <1>13, <1>26
  <2> QED
    BY <1>4, <1>15, <1>16, <1>18, <1>20, <1>21, <1>22, <1>25, <1>27, <1>28, <1>29, <2>1, <2>2, <2>3, <2>4, <2>5 DEF NewRun
<1> QED
  BY <1>15, <1>30, NewRunSound

Joined(q, h, e) == q = h \o e

\* Two items added to a sequence.
LEMMA SequenceExtend ==
  ASSUME NEW h, IsSequence(h), NEW e, IsSequence(e), Len(e) = 2, NEW q, Joined(q, h, e)
  PROVE  /\ IsSequence(q) /\ Len(h) \in Nat /\ DOMAIN h = 1..Len(h)
         /\ DOMAIN q = 1..(Len(h) + 2)
         /\ \A i \in 1..Len(h) : q[i] = h[i]
         /\ q[Len(h) + 1] = e[1] /\ q[Len(h) + 2] = e[2]
<1>1. PICK S : S = {h[i] : i \in DOMAIN h} \cup {e[i] : i \in DOMAIN e}
  OBVIOUS
<1>2. h \in Seq(S) /\ e \in Seq(S)
  BY <1>1 DEF IsSequence
<1>3. Len(h) \in Nat /\ DOMAIN h = 1..Len(h)
  BY <1>2
<1>4. /\ h \o e \in Seq(S) /\ Len(h \o e) = Len(h) + Len(e)
      /\ \A i \in 1..(Len(h) + Len(e)) : (h \o e)[i] = IF i <= Len(h) THEN h[i] ELSE e[i - Len(h)]
  BY <1>2, ConcatProperties, Zenon
<1>5. /\ q \in Seq(S) /\ Len(q) = Len(h) + 2
      /\ \A i \in 1..(Len(h) + Len(e)) : q[i] = IF i <= Len(h) THEN h[i] ELSE e[i - Len(h)]
  <2>1. /\ q \in Seq(S) /\ Len(q) = Len(h) + Len(e)
        /\ \A i \in 1..(Len(h) + Len(e)) : q[i] = IF i <= Len(h) THEN h[i] ELSE e[i - Len(h)]
    BY <1>4, Zenon DEF Joined
  <2> QED
    BY <2>1
<1>6. /\ \A i \in 1..Len(h) : i \in 1..(Len(h) + Len(e)) /\ i <= Len(h)
      /\ Len(h) + 1 \in 1..(Len(h) + Len(e)) /\ ~ (Len(h) + 1 <= Len(h)) /\ Len(h) + 1 - Len(h) = 1
      /\ Len(h) + 2 \in 1..(Len(h) + Len(e)) /\ ~ (Len(h) + 2 <= Len(h)) /\ Len(h) + 2 - Len(h) = 2
  BY <1>3
<1>7. /\ \A i \in 1..Len(h) : q[i] = h[i]
      /\ q[Len(h) + 1] = e[1] /\ q[Len(h) + 2] = e[2]
  BY <1>5, <1>6
<1>8. DOMAIN q = 1..Len(q) /\ Len(q) \in Nat /\ q = [i \in 1..Len(q) |-> q[i]]
  <2>1. \A z \in Seq(S) : DOMAIN z = 1..Len(z) /\ Len(z) \in Nat /\ z = [i \in 1..Len(z) |-> z[i]]
    OBVIOUS
  <2> QED
    BY <1>5, <2>1, Zenon
<1>9. IsSequence(q)
  BY <1>8, SequenceIs
<1> QED
  BY <1>3, <1>5, <1>7, <1>8, <1>9

\* A new instance is one of these.
LEMMA NewInstanceSound ==
  ASSUME NEW L, NEW A, NEW floor, Sound(L, A, floor), NewInstance
  PROVE  IInv'
<1>1. /\ L \subseteq DOMAIN states /\ ObjectsOK(L) /\ StatesOK(L) /\ RunsOK(L) /\ ActiveOK(A, floor)
      /\ static \in Kept(L) /\ roots \subseteq L
  BY DEF Sound
<1>2. /\ Ctx \in Contexts /\ Self \in L /\ Self \in DOMAIN states /\ states[Self] \in States
      /\ Ptr \in 0..MaxStack /\ Ptr \in Nat /\ MaxStack \in Nat
  BY RunFacts, HeapAssumption
<1>3. x.op = "new" /\ heap[Ctx].pc <= Len(Body)
  BY DEF NewInstance, IsOp
<1>4. x.r \in Registers \ {1} /\ x.class \in DOMAIN program /\ Depth[x.class] = 0
  BY <1>3, Instruction
<1>5. PICK i1, n, m, t, p : i1 = New /\ n = New + 1 /\ m = Len(runs) + 1 /\ t = Len(states) + 1 /\ p = Ptr
  OBVIOUS
<1>6. PICK c, r, h : c = Ctx /\ r = x.r /\ h = [heap EXCEPT ![Ctx].locals[x.r] = New]
  OBVIOUS
<1>7. PICK run : run = [state |-> t, ctx |-> n, dest |-> 0, callee |-> <<c, r>>, kind |-> "new"]
  OBVIOUS
<1>8. PICK made : made = [type |-> "state", root |-> n, current |-> n, ptr |-> p, running |-> TRUE]
  OBVIOUS
<1>9. PICK L1 : L1 = L \cup {t}
  OBVIOUS
<1>28. PICK o, w : o = Instance(t) /\ w = Context(x.class, 0, 0, 0, This(t), <<>>)
  OBVIOUS
<1>10. /\ New < MaxObjects /\ Ptr < MaxStack
       /\ stack' = [stack EXCEPT ![Ptr + 1] = NUMBER]
       /\ heap' = h \o <<o, w>>
       /\ states' = Append(states, made)
       /\ runs' = Append(runs, run)
       /\ UNCHANGED <<program, roots, static>>
  <2>1. State(n, n, p) = made
    BY <1>8 DEF State
  <2> QED
    BY <1>5, <1>6, <1>7, <1>28, <2>1 DEF NewInstance, PutCount
<1>11. w # Freed /\ o # Freed
  BY <1>28 DEF Context, Instance, Freed
<1>12. /\ i1 \notin DOMAIN heap /\ n \notin DOMAIN heap /\ i1 \in Nat /\ i1 > 0
       /\ IsSequence(heap') /\ DOMAIN heap' = DOMAIN heap \cup {i1, n}
       /\ heap'[i1] = o /\ heap'[n] = w
       /\ \A j \in DOMAIN heap : heap'[j] = h[j]
  <2>1. /\ Len(heap) \in Nat /\ DOMAIN heap = 1..Len(heap) /\ New = Len(heap) + 1
        /\ \A q : DOMAIN q = DOMAIN heap /\ q = [j \in DOMAIN heap |-> q[j]] => IsSequence(q) /\ Len(q) = Len(heap)
    BY <1>1, HeapSequence
  <2>2. DOMAIN h = DOMAIN heap /\ h = [j \in DOMAIN heap |-> h[j]]
    BY <1>2, <1>6 DEF Contexts
  <2>3. IsSequence(h) /\ Len(h) = Len(heap)
    BY <2>1, <2>2
  <2>4. /\ IsSequence(heap') /\ DOMAIN heap' = 1..(Len(heap) + 2)
        /\ \A j \in 1..Len(heap) : heap'[j] = h[j]
        /\ heap'[Len(heap) + 1] = o /\ heap'[Len(heap) + 2] = w
    <3>1. PICK e : e = <<o, w>>
      OBVIOUS
    <3>2. e \in Seq({o, w}) /\ Len(e) = 2 /\ e[1] = o /\ e[2] = w /\ DOMAIN e = 1..2 /\ e = [j \in 1..2 |-> e[j]]
      BY <3>1
    <3>3. IsSequence(e)
      BY <3>2, SequenceIs
    <3>4. Joined(heap', h, e)
      BY <1>10, <3>1 DEF Joined
    <3> QED
      BY <2>3, <3>2, <3>3, <3>4, SequenceExtend
  <2>5. i1 = Len(heap) + 1 /\ n = Len(heap) + 2
    BY <1>5, <2>1
  <2>6. 1..(Len(heap) + 2) = 1..Len(heap) \cup {Len(heap) + 1, Len(heap) + 2}
    BY <2>1
  <2> QED
    BY <2>1, <2>4, <2>5, <2>6
<1>13. Edited(h, c, r, i1, 0) /\ c \in Contexts /\ r \in Registers \ {1}
  BY <1>1, <1>2, <1>4, <1>5, <1>6, EditRegister
<1>14. /\ Grows(L)
       /\ \A j \in Contexts : heap'[j].pc = heap[j].pc
  <2>1. i1 \in Stored(L)
    BY <1>12 DEF Stored
  <2>2. \A j \in DOMAIN heap' \ DOMAIN heap : heap'[j] # Freed
    BY <1>11, <1>12
  <2>3. program' = program /\ DOMAIN heap \subseteq DOMAIN heap'
    BY <1>10, <1>12
  <2>4. Grows(L) /\ \A j \in Contexts : heap'[j].pc = IF j = 0 THEN heap[j].pc + 1 ELSE heap[j].pc
    BY <1>1, <1>12, <1>13, <2>1, <2>2, <2>3, EditedGrows
  <2>5. 0 \notin Contexts
    BY <1>1, HeapSequence
  <2> QED
    BY <2>4, <2>5
<1>15. \A i \in 2..Len(runs) : HeldStays(i)
  <2>1. SUFFICES ASSUME NEW i \in 2..Len(runs) PROVE HeldStays(i)
    OBVIOUS
  <2>2. runs[i].callee # <<c, r>>
    BY <1>6, OwnRegister
  <2> QED
    BY <1>12, <1>13, <2>2, HeldIfKept
<1>16. /\ DOMAIN states' = DOMAIN states \cup {t} /\ IsSequence(states') /\ t \notin DOMAIN states
       /\ states'[t] = made /\ \A i \in DOMAIN states : states'[i] = states[i]
  <2>1. Len(states) \in Nat /\ DOMAIN states = 1..Len(states) /\ IsSequence(states)
    BY <1>1, StateSequence
  <2>2. /\ IsSequence(states') /\ DOMAIN states' = 1..(Len(states) + 1)
        /\ \A i \in 1..Len(states) : states'[i] = states[i]
        /\ states'[t] = made
    BY <1>5, <1>10, <2>1, SequenceAppend
  <2> QED
    BY <1>5, <2>1, <2>2
<1>17. L \subseteq L1 /\ t \in L1 /\ L1 \subseteq DOMAIN states' /\ \A i \in 1..Len(runs) : runs[i].state # t
  BY <1>1, <1>9, <1>16, RunFields
<1>18. Kept(L) \subseteq Kept(L1)' /\ Contexts \subseteq Contexts' /\ NUMBER \in Kept(L)
  BY <1>1, <1>14, <1>17, Grown DEF Kept
<1>19. /\ IsObject(heap[n], L1)' /\ n \in Contexts'
       /\ heap'[n].fn = x.class /\ heap'[n].pc = 1 /\ heap'[n].return = 0
  <2>1. PICK this, args : this = This(t) /\ args = <<>>
    OBVIOUS
  <2>2. \E i \in L1 : this = This(i) /\ (i = 1 \/ \E j \in DOMAIN heap' : heap'[j] = Instance(i))
    BY <1>12, <1>17, <1>28, <2>1
  <2>3. heap'[n] = Context(x.class, 0, 0, 0, this, args)
    BY <1>12, <1>28, <2>1
  <2>4. \A i \in DOMAIN args : args[i] \in Kept(L)
    BY <2>1
  <2>5. PICK f, z : f = x.class /\ z = 0
    OBVIOUS
  <2>6. /\ n \in DOMAIN heap' /\ f \in DOMAIN program /\ z \in Contexts \cup {0} /\ z \in Nat
        /\ heap'[n] = Context(f, z, z, z, this, args)
    BY <1>4, <1>12, <2>3, <2>5
  <2>7. Sound(L, A, floor) /\ Grows(L) /\ L \subseteq L1
    BY <1>14, <1>17
  <2>9. Depth[f] > 0 => z # 0 /\ Depth[heap[z].fn] = Depth[f] - 1
    BY <1>4, <2>5
  <2>10. z # 0 => z \in Registers \ {1}
    BY <2>5
  <2>8. /\ IsObject(heap[n], L1)' /\ n \in Contexts'
        /\ heap'[n].fn = f /\ heap'[n].pc = 1 /\ heap'[n].return = z
    BY <2>2, <2>4, <2>6, <2>7, <2>9, <2>10, ContextMade
  <2> QED
    BY <2>5, <2>8
<1>20. ObjectsOK(L1)'
  <2>1. heap'[i1] \in [type : {"instance"}, state : L1]
    BY <1>12, <1>17, <1>28 DEF Instance
  <2>2. \A j \in DOMAIN heap' \ DOMAIN heap : j = n \/ j = i1
    BY <1>12
  <2>3. IsObject(heap[i1], L1)'
    BY <2>1 DEF IsObject
  <2>4. ASSUME NEW j \in DOMAIN heap' \ DOMAIN heap PROVE IsObject(heap[j], L1)'
    BY <1>19, <2>2, <2>3
  <2> QED
    BY <1>1, <1>14, <1>17, <2>4, ObjectsStay
<1>21. /\ (stack \in [1..MaxStack -> Values])'
       /\ \A i \in 1..MaxStack : stack'[i] = stack[i] \/ stack'[i] \in Kept(L)
  <2>1. DOMAIN states \subseteq DOMAIN states'
    BY <1>16
  <2> QED
    BY <1>10, <1>14, <1>18, <2>1, StackTyped
<1>22. StatesOK(L1)'
  <2>1. ASSUME NEW i \in DOMAIN states', i = t
        PROVE  StateOK(i, L1)'
    <3>1. n \in DOMAIN heap'
      BY <1>12
    <3>2. states'[i] = made
      BY <1>16, <2>1
    <3>3. states'[i] \in States' /\ states'[i].root \in Contexts' /\ states'[i].current \in Contexts' /\ states'[i].ptr = p
      BY <1>2, <1>5, <1>8, <1>19, <3>1, <3>2 DEF States
    <3>4. \A j \in 1..p : stack'[j] \in Kept(L1)'
      <4>1. SUFFICES ASSUME NEW j \in 1..Ptr PROVE stack'[j] \in Kept(L1)'
        BY <1>5
      <4>2. j \in 1..MaxStack /\ stack[j] \in Kept(L)
        BY <1>2, StackKept
      <4> QED
        BY <1>18, <1>21, <4>2
    <3>5. gc_visit_stack(states[i].ptr)' \subseteq Kept(L1)'
      BY <3>3, <3>4 DEF gc_visit_stack
    <3> QED
      BY <3>3, <3>5 DEF StateOK
  <2>2. ASSUME NEW i \in DOMAIN states'
        PROVE  \/ i \in DOMAIN states /\ states'[i] = states[i] /\ (i \in L1 => i \in L)
               \/ StateOK(i, L1)'
    <3>1. i # t => i \in DOMAIN states /\ states'[i] = states[i] /\ (i \in L1 => i \in L)
      BY <1>9, <1>16
    <3> QED
      BY <2>1, <3>1
  <2> QED
    BY <1>14, <1>16, <1>17, <1>21, <2>2, StatesStay
<1>23. /\ Len(runs) \in Nat \ {0} /\ Len(runs) \in 1..Len(runs) /\ m - 1 = Len(runs)
       /\ Ctx = runs[Len(runs)].ctx
       /\ runs'[m] = run /\ runs'[m - 1] = runs[m - 1]
  <2>1. Len(runs) \in Nat \ {0} /\ Len(runs) \in 1..Len(runs) /\ m - 1 = Len(runs)
    BY <1>1, <1>5, RunFields
  <2>2. runs \in Seq(Runs(L))
    BY <1>1 DEF RunsOK
  <2>3. runs'[m] = run /\ runs'[Len(runs)] = runs[Len(runs)]
    BY <1>5, <1>10, <2>1, <2>2
  <2> QED
    BY <2>1, <2>3, RunFacts DEF Ctx
<1>24. Called(m)'
  <2>1. heap'[c].locals[r] = i1
    <3>1. h[c].locals[r] = i1
      <4>1. heap[Ctx].locals \in [Registers -> Kept(L)] /\ Ctx \in DOMAIN heap /\ DOMAIN heap[Ctx] = {"type", "fn", "pc", "parent", "return", "dest", "locals"}
        BY <1>1, <1>2, ContextFields
      <4> QED
        BY <1>4, <1>5, <1>6, <4>1
    <3> QED
      BY <1>12, <1>13, <3>1 DEF Contexts
  <2>2. c = runs'[m - 1].ctx /\ r \in Registers \ {1}
    BY <1>6, <1>13, <1>23
  <2>3. run.kind = "new" /\ run.state = t /\ run.callee[1] = c /\ run.callee[2] = r
    BY <1>7
  <2>4. heap'[i1] = Instance(t)
    BY <1>12, <1>28
  <2> QED
    BY <1>12, <1>23, <2>1, <2>2, <2>3, <2>4 DEF Called, CalleeKept, Instance
<1>25. runs'[m] \in Runs(L1)' /\ runs'[m].state = t /\ runs'[m].ctx = n
  <2>1. c \in Nat /\ r \in Nat
    BY <1>1, <1>2, <1>4, <1>6, HeapSequence, HeapAssumption DEF Contexts
  <2> QED
    BY <1>7, <1>17, <1>19, <1>23, <2>1 DEF Runs
<1>26. ASSUME NEW i \in 1..Len(runs)
       PROVE  /\ states'[runs[i].state].running = states[runs[i].state].running
              /\ states'[runs[i].state].current = states[runs[i].state].current
              /\ states'[runs[i].state].ptr \in Nat
              /\ states'[runs[i].state].ptr >= states[runs[i].state].ptr
  <2>1. PICK j : j = runs[i].state
    OBVIOUS
  <2>2. j \in DOMAIN states /\ states[j] \in States
    BY <1>1, <2>1, RunFields, Sequences DEF StatesOK
  <2>3. states[j].ptr \in Nat
    BY <1>2, <2>2 DEF States
  <2> QED
    BY <1>16, <2>1, <2>2, <2>3
<1>27. NewRun(L, L1, m, t, n, p)
  <2>1. states'[t].running /\ states'[t].current = n /\ states'[t].ptr = p
    BY <1>8, <1>16
  <2>2. roots \subseteq roots' /\ roots' \subseteq L1 /\ static' = static
    BY <1>1, <1>10, <1>17
  <2>3. heap'[n].fn \in DOMAIN program /\ x.op \in {"call", "new"} /\ heap[Ctx].pc <= Len(Body)
    BY <1>3, <1>4, <1>19
  <2>4. runs' = Append(runs, runs'[m]) /\ p \in Nat
    BY <1>2, <1>5, <1>10, <1>23
  <2> QED
    BY <1>5, <1>12, <1>14, <1>15, <1>17, <1>19, <1>20, <1>21, <1>22, <1>24, <1>25, <1>26, <2>1, <2>2, <2>3, <2>4 DEF NewRun
<1> QED
  BY <1>14, <1>27, NewRunSound

\* After a return the caller of the run's context goes on.
LEMMA ReturnOwnSound ==
  ASSUME NEW L, NEW A, NEW floor, Sound(L, A, floor), ReturnOwn
  PROVE  IInv'
<1>1. /\ L \subseteq DOMAIN states /\ ObjectsOK(L) /\ StatesOK(L) /\ RunsOK(L) /\ ActiveOK(A, floor)
      /\ static \in Kept(L) /\ roots \subseteq L /\ program \in Programs /\ stack \in [1..MaxStack -> Values]
  BY DEF Sound
<1>2. /\ Ctx \in Contexts /\ Ctx \in A /\ Self \in L /\ Self \in DOMAIN states /\ states[Self] \in States
      /\ Ptr \in Nat /\ floor[Ctx] \in Nat /\ Ptr >= floor[Ctx] + PushedAt(Ctx) /\ PushedAt(Ctx) \in Nat
      /\ IsContext(heap[Ctx], L) /\ Local \in [Registers -> Kept(L)]
  BY RunFacts
<1>3. PICK n, c, r, v : n = Ctx /\ c = heap[Ctx].return /\ r = heap[Ctx].dest /\ v = Local[x.r]
  OBVIOUS
<1>4. /\ x.op = "return" /\ heap[Ctx].pc <= Len(Body) /\ c # 0
      /\ heap' = [[heap EXCEPT ![c].locals[r] = v] EXCEPT ![c].pc = @ + 1]
      /\ states' = [states EXCEPT ![Self].current = n]
      /\ runs' = [runs EXCEPT ![Len(runs)].ctx = c]
      /\ UNCHANGED <<program, stack, roots, static>>
  BY <1>3 DEF ReturnOwn, Resumed, IsOp
<1>5. x.r \in Registers
  BY <1>4, Instruction
<1>6. c \in Contexts /\ r \in Registers \ {1} /\ v \in Kept(L)
  BY <1>2, <1>3, <1>4, <1>5 DEF IsContext
<1>7. CallerOK(n, A, floor) /\ n \in A /\ heap[n].return = c
  BY <1>1, <1>2, <1>3 DEF ActiveOK
<1>8. /\ c \in A /\ \A d \in A : heap[d].return = c => d = n
      /\ \A i \in 1..Len(runs) : runs[i].ctx # c
      /\ heap[c].pc <= Len(program[heap[c].fn]) /\ floor[n] >= floor[c] + PushedAfter(c)
  BY <1>4, <1>7 DEF CallerOK
<1>9. /\ Len(runs) \in Nat \ {0} /\ Len(runs) \in 1..Len(runs)
      /\ \A i \in 1..Len(runs) : runs[i].state \in L /\ runs[i].ctx \in Contexts
      /\ Self = runs[Len(runs)].state /\ n = runs[Len(runs)].ctx
      /\ \A i, j \in 1..Len(runs) : i # j => runs[i].state # runs[j].state /\ runs[i].ctx # runs[j].ctx
  <2>1. /\ Len(runs) \in Nat \ {0} /\ Len(runs) \in 1..Len(runs)
        /\ \A i \in 1..Len(runs) : runs[i].state \in L /\ runs[i].ctx \in Contexts
        /\ \A i, j \in 1..Len(runs) : i # j => runs[i].state # runs[j].state /\ runs[i].ctx # runs[j].ctx
    BY <1>1, RunFields DEF RunsOK
  <2> QED
    BY <1>3, <2>1, RunFacts DEF Self, Ctx
<1>10. Edited(heap', c, r, v, c)
  <2>1. PICK h : h = [[heap EXCEPT ![c].locals[r] = v] EXCEPT ![c].pc = @ + 1]
    OBVIOUS
  <2>2. Edited(h, c, r, v, c)
    BY <1>1, <1>6, <2>1, EditPut
  <2>3. heap' = h
    BY <1>4, <2>1
  <2> QED
    BY <2>2, <2>3
<1>11. DOMAIN heap' = DOMAIN heap /\ IsSequence(heap')
  BY <1>10 DEF Edited
<1>12. /\ Grows(L)
       /\ \A o \in Contexts : heap'[o].pc = IF o = c THEN heap[o].pc + 1 ELSE heap[o].pc
  <2>1. v \in Stored(L) /\ program' = program
    BY <1>4, <1>6 DEF Stored
  <2> QED
    BY <1>1, <1>6, <1>10, <1>11, <2>1, EditedGrows
<1>13. /\ Kept(L) \subseteq Kept(L)' /\ Contexts \subseteq Contexts'
       /\ \A o \in Contexts : heap'[o].fn = heap[o].fn /\ heap'[o].return = heap[o].return
  BY <1>1, <1>12, Grown
<1>14. \A i \in 2..Len(runs) : HeldStays(i)
  <2>1. SUFFICES ASSUME NEW i \in 2..Len(runs) PROVE HeldStays(i)
    OBVIOUS
  <2>2. runs[i].callee # <<c, r>>
    <3>1. i \in 1..Len(runs) /\ i > 1 /\ i - 1 \in 1..Len(runs)
      BY <1>9
    <3>2. runs[i].callee[1] = runs[i - 1].ctx
      BY Zenon, <1>1, <3>1 DEF RunsOK, RunOK, Called
    <3> QED
      BY <1>8, <3>1, <3>2
  <2> QED
    BY <1>6, <1>10, <2>2, HeldIfKept
<1>15. /\ DOMAIN states' = DOMAIN states /\ IsSequence(states')
       /\ \A s \in DOMAIN states \ {Self} : states'[s] = states[s]
       /\ states'[Self] = [states[Self] EXCEPT !.current = n]
  <2>1. DOMAIN states' = DOMAIN states /\ states' = [s \in DOMAIN states |-> states'[s]]
    BY <1>4
  <2>2. IsSequence(states')
    BY <1>1, <2>1, StateSequence
  <2> QED
    BY <1>2, <1>4, <2>1, <2>2
<1>16. /\ states'[Self].running = states[Self].running /\ states'[Self].current = n
       /\ states'[Self].root = states[Self].root /\ states'[Self].ptr = Ptr
       /\ states'[Self] \in States'
  <2>1. n \in DOMAIN heap
    BY <1>2, <1>3 DEF Contexts
  <2> QED
    BY <1>2, <1>11, <1>15, <2>1 DEF States, Ptr
<1>17. StatesOK(L)'
  <2>1. ASSUME NEW s \in DOMAIN states', s = Self
        PROVE  StateOK(s, L)'
    <3>1. states'[s].root \in Contexts' /\ states'[s].current \in Contexts'
      BY <1>1, <1>2, <1>3, <1>13, <1>16, <2>1 DEF StatesOK
    <3>2. gc_visit_stack(states[s].ptr)' \subseteq Kept(L)'
      <4>1. gc_visit_stack(Ptr) \subseteq Kept(L)
        BY <1>1, <1>2 DEF StatesOK, Ptr
      <4> QED
        BY <1>4, <1>13, <1>16, <2>1, <4>1 DEF gc_visit_stack
    <3> QED
      BY <1>16, <2>1, <3>1, <3>2 DEF StateOK
  <2>2. \A s \in DOMAIN states \ {Self} : s \in DOMAIN states' /\ states'[s] = states[s]
    BY <1>15
  <2>3. \A i \in 1..MaxStack : stack'[i] = stack[i] \/ stack'[i] \in Kept(L)
    BY <1>4
  <2> QED
    BY <1>1, <1>12, <1>15, <2>1, <2>2, <2>3, StatesStay
<1>18. /\ RunsOK(L)' /\ Len(runs') = Len(runs)
       /\ \A i \in 1..Len(runs) : /\ runs'[i].state = runs[i].state
                                  /\ runs'[i].ctx = IF i = Len(runs) THEN c ELSE runs[i].ctx
  <2>1. c \in {states'[Self].current, heap'[states'[Self].current].return}
    BY <1>2, <1>3, <1>13, <1>16
  <2>2. Moved(c) /\ roots' = roots /\ c \in Contexts' /\ \A i \in 1..Len(runs) : runs[i].ctx # c
    BY <1>4, <1>6, <1>8, <1>13 DEF Moved
  <2> QED
    BY <1>12, <1>14, <1>15, <1>16, <2>1, <2>2, MovedRuns
<1>19. PICK A1 : A1 = A \ {n}
  OBVIOUS
<1>20. PICK floor1 : floor1 = [d \in A1 |-> floor[d]]
  OBVIOUS
<1>21. /\ A1 \subseteq A /\ A1 \subseteq Contexts /\ A1 \subseteq Contexts' /\ floor1 \in [A1 -> Nat] /\ floor \in [A -> Nat]
       /\ \A d \in A1 : floor1[d] = floor[d]
  BY <1>1, <1>13, <1>19, <1>20 DEF ActiveOK
<1>22. c \in A1 /\ c # n /\ n \notin A1
  BY <1>8, <1>9, <1>19
<1>23. ASSUME NEW d \in A1
       PROVE  CallerOK(d, A1, floor1)'
  <2>1. CallerOK(d, A, floor) /\ heap'[d].return = heap[d].return /\ d # n /\ d \in A
    BY <1>1, <1>13, <1>19, <1>21 DEF ActiveOK
  <2>2. CASE heap[d].return = 0
    BY <2>1, <2>2 DEF CallerOK
  <2>3. CASE heap[d].return # 0
    <3>1. PICK q : q = heap[d].return
      OBVIOUS
    <3>2. q \in A /\ (\A e \in A : heap[e].return = q => e = d) /\ \A i \in 1..Len(runs) : runs[i].ctx # q
      BY <2>1, <2>3, <3>1 DEF CallerOK
    <3>3. q # n /\ q # c /\ q \in A1
      BY <1>8, <1>9, <1>19, <2>1, <3>1, <3>2
    <3>4. \A e \in A1 : heap'[e].return = q => e = d
      BY <1>13, <1>21, <3>2
    <3>5. \A i \in 1..Len(runs') : runs'[i].ctx # q
      BY <1>18, <3>2, <3>3
    <3>6. heap'[q].pc = heap[q].pc
      BY <1>12, <1>21, <3>3
    <3>7. floor1[d] = floor[d] /\ floor1[q] = floor[q]
      BY <1>21, <3>3
    <3> QED
      BY <1>12, <2>1, <3>1, <3>3, <3>4, <3>5, <3>6, <3>7, CallerStays
  <2> QED
    BY <2>2, <2>3
<1>24. ASSUME NEW i \in 1..Len(runs), i # Len(runs)
       PROVE  StackOK(i, A1, floor1)'
  <2>1. runs[i].ctx \in A /\ runs[i].ctx # n /\ runs[i].ctx # c /\ runs[i].ctx \in Contexts
    BY <1>1, <1>8, <1>9, <1>24 DEF ActiveOK, StackOK
  <2>2. /\ states'[runs[i].state] = states[runs[i].state] /\ states[runs[i].state] \in States
        /\ runs'[i].ctx = runs[i].ctx /\ runs'[i].state = runs[i].state
    BY <1>1, <1>9, <1>15, <1>18, <1>24, Sequences DEF StatesOK
  <2>3. states[runs[i].state].ptr \in Nat
    BY <2>2, HeapAssumption DEF States
  <2>4. heap'[runs[i].ctx].pc = heap[runs[i].ctx].pc /\ runs[i].ctx \in A1 /\ floor1[runs[i].ctx] = floor[runs[i].ctx]
    BY <1>12, <1>19, <1>21, <2>1
  <2> QED
    BY <1>12, <1>18, <2>2, <2>3, <2>4, StackStays
<1>25. ASSUME NEW i \in 1..Len(runs), i = Len(runs)
       PROVE  StackOK(i, A1, floor1)'
  <2>1. runs'[i].ctx = c /\ runs'[i].state = Self
    BY <1>9, <1>18, <1>25
  <2>2. heap'[c].fn = heap[c].fn /\ heap'[c].pc = heap[c].pc + 1 /\ program' = program
    BY <1>4, <1>6, <1>12, <1>13
  <2>3. (PushedAt(runs[i].ctx))' = PushedAfter(c)
    BY <2>1, <2>2 DEF PushedAt, PushedAfter
  <2>4. PushedAfter(c) \in Nat
    <3>1. /\ heap[c].fn \in DOMAIN program /\ heap[c].pc \in Nat \ {0} /\ Len(program[heap[c].fn]) \in Nat
      BY <1>6, BodyFacts
    <3>2. heap[c].pc \in 1..Len(program[heap[c].fn])
      BY <1>8, <3>1
    <3> QED
      BY <1>1, <3>1, <3>2, PushedStep DEF PushedAfter
  <2>5. floor[c] \in Nat /\ floor[n] \in Nat /\ floor1[c] = floor[c] /\ Ptr >= floor[n]
    BY <1>2, <1>3, <1>8, <1>21, <1>22
  <2>6. states'[Self].ptr >= floor1[c] + PushedAfter(c)
    BY <1>2, <1>8, <1>16, <2>4, <2>5
  <2>7. ~ (i < Len(runs'))
    BY <1>9, <1>18, <1>25
  <2> QED
    BY <1>22, <2>1, <2>3, <2>4, <2>6, <2>7 DEF StackOK
<1>26. ActiveOK(A1, floor1)'
  <2>1. \A i \in 1..Len(runs') : StackOK(i, A1, floor1)'
    BY <1>18, <1>24, <1>25
  <2> QED
    BY <1>21, <1>23, <2>1 DEF ActiveOK
<1>27. Sound(L, A1, floor1)'
  <2>1. ObjectsOK(L)'
    <3>1. DOMAIN heap' \ DOMAIN heap = {}
      BY <1>11
    <3> QED
      BY <1>1, <1>12, <3>1, ObjectsStay
  <2>2. (stack \in [1..MaxStack -> Values])'
    <3>1. Values \subseteq Values'
      BY <1>11, <1>15 DEF Values, This, NUMBER
    <3> QED
      BY <1>1, <1>4, <3>1
  <2>3. static' \in Kept(L)' /\ roots' \subseteq L /\ program' \in Programs /\ L \subseteq DOMAIN states'
    BY <1>1, <1>4, <1>13, <1>15
  <2> QED
    BY <1>17, <1>18, <1>26, <2>1, <2>2, <2>3 DEF Sound
<1> QED
  BY <1>27, IInvFrom

\* A run ends, and the one below it goes on after its call.
LEMMA ReturnRunSound ==
  ASSUME NEW L, NEW A, NEW floor, Sound(L, A, floor), ReturnRun
  PROVE  IInv'
<1>1. /\ L \subseteq DOMAIN states /\ ObjectsOK(L) /\ StatesOK(L) /\ RunsOK(L) /\ ActiveOK(A, floor)
      /\ static \in Kept(L) /\ roots \subseteq L /\ program \in Programs /\ stack \in [1..MaxStack -> Values]
  BY DEF Sound
<1>2. /\ Ctx \in Contexts /\ Self \in L /\ Self \in DOMAIN states /\ states[Self] \in States
      /\ Local \in [Registers -> Kept(L)] /\ Run = runs[Len(runs)]
  BY RunFacts
<1>3. PICK n, m : n = Ctx /\ m = Len(runs)
  OBVIOUS
<1>4. PICK c, r, v, kind : c = runs[m - 1].ctx /\ r = runs[m].dest /\ v = Local[x.r] /\ kind = runs[m].kind
  OBVIOUS
<1>5. /\ x.op = "return" /\ heap[Ctx].pc <= Len(Body) /\ m > 1
      /\ heap' = IF kind = "new" THEN [heap EXCEPT ![c].pc = @ + 1]
                 ELSE [[heap EXCEPT ![c].locals[r] = v] EXCEPT ![c].pc = @ + 1]
      /\ states' = [[states EXCEPT ![Self].running = FALSE] EXCEPT ![Self].current = n]
      /\ roots' = IF kind = "clone" THEN roots \ {Self} ELSE roots
      /\ runs' = Front(runs)
      /\ UNCHANGED <<program, stack, static>>
  BY <1>2, <1>3, <1>4 DEF ReturnRun, Resumed, IsOp
<1>6. x.r \in Registers /\ v \in Kept(L)
  BY <1>2, <1>4, <1>5, Instruction
<1>7. /\ m \in Nat \ {0, 1} /\ m \in 1..m /\ m - 1 \in 1..m /\ m - 1 # m /\ m = Len(runs)
      /\ \A i \in 1..m : runs[i] \in Runs(L) /\ runs[i].state \in L /\ runs[i].ctx \in Contexts
      /\ Self = runs[m].state /\ n = runs[m].ctx
      /\ \A i, j \in 1..m : i # j => runs[i].state # runs[j].state /\ runs[i].ctx # runs[j].ctx
      /\ \A i \in 1..m : RunOK(i)
      /\ runs[1].state = 1 /\ runs[1].kind = "main" /\ 1 \in roots
  <2>1. /\ m \in Nat \ {0}
        /\ \A i \in 1..m : runs[i] \in Runs(L) /\ runs[i].state \in L /\ runs[i].ctx \in Contexts
        /\ \A i, j \in 1..m : i # j => runs[i].state # runs[j].state /\ runs[i].ctx # runs[j].ctx
        /\ \A i \in 1..m : RunOK(i)
        /\ runs[1].state = 1 /\ runs[1].kind = "main" /\ 1 \in roots
    BY <1>1, <1>3, RunFields DEF RunsOK
  <2> QED
    BY <1>2, <1>3, <1>5, <2>1 DEF Self, Ctx
<1>8. /\ c \in Contexts /\ c # n
      /\ kind # "new" => r \in Registers \ {1}
  <2>1. Called(m)
    BY Zenon, <1>5, <1>7 DEF RunOK
  <2>2. runs[m].kind # "new" => runs[m].dest \in Registers \ {1}
    BY Zenon, <2>1 DEF Called
  <2> QED
    BY <1>4, <1>7, <2>2
<1>9. PICK e \in {0, c} : e = IF kind = "new" THEN 0 ELSE c
  OBVIOUS
<1>10. PICK q, w : q = (IF kind = "new" THEN 0 ELSE r) /\ w = IF kind = "new" THEN NUMBER ELSE v
  OBVIOUS
<1>11. Edited(heap', e, q, w, c) /\ (e # 0 => q \in Registers \ {1} /\ w \in Kept(L))
  <2>1. CASE kind = "new"
    <3>1. PICK h : h = [heap EXCEPT ![c].pc = @ + 1]
      OBVIOUS
    <3>2. Edited(h, 0, 0, NUMBER, c)
      BY <1>1, <1>8, <3>1, EditNext
    <3>3. heap' = h
      BY <1>5, <2>1, <3>1
    <3> QED
      BY <1>9, <1>10, <2>1, <3>2, <3>3
  <2>2. CASE kind # "new"
    <3>1. PICK h : h = [[heap EXCEPT ![c].locals[r] = v] EXCEPT ![c].pc = @ + 1]
      OBVIOUS
    <3>2. Edited(h, c, r, v, c)
      BY <1>1, <1>8, <3>1, EditPut
    <3>3. heap' = h
      BY <1>5, <2>2, <3>1
    <3> QED
      BY <1>6, <1>8, <1>9, <1>10, <2>2, <3>2, <3>3
  <2> QED
    BY <2>1, <2>2
<1>12. DOMAIN heap' = DOMAIN heap /\ IsSequence(heap')
  BY <1>11 DEF Edited
<1>13. /\ Grows(L)
       /\ \A o \in Contexts : heap'[o].pc = IF o = c THEN heap[o].pc + 1 ELSE heap[o].pc
  <2>1. (e # 0 => q \in Registers \ {1} /\ w \in Stored(L)) /\ program' = program
    BY <1>5, <1>11 DEF Stored
  <2> QED
    BY <1>1, <1>11, <1>12, <2>1, EditedGrows
<1>14. /\ Kept(L) \subseteq Kept(L)' /\ Contexts \subseteq Contexts'
       /\ \A o \in Contexts : heap'[o].fn = heap[o].fn /\ heap'[o].return = heap[o].return
  BY <1>1, <1>13, Grown
<1>15. ASSUME NEW i \in 2..m, i # m
       PROVE  HeldStays(i)
  <2>1. runs[i].callee # <<e, q>>
    <3>1. i \in 1..m /\ i > 1 /\ i - 1 \in 1..m /\ i - 1 # m - 1
      BY SMTT(40), <1>7, <1>15
    <3>2. runs[i].callee[1] = runs[i - 1].ctx
      BY Zenon, <1>7, <3>1 DEF RunOK, Called
    <3>3. runs[i - 1].ctx # c /\ runs[i - 1].ctx # 0
      BY <1>1, <1>4, <1>7, <3>1, HeapSequence
    <3> QED
      BY <1>9, <3>2, <3>3
  <2>2. e # 0 => q \in Registers
    BY <1>11
  <2> QED
    BY <1>7, <1>11, <2>1, <2>2, HeldIfKept
<1>16. /\ DOMAIN states' = DOMAIN states /\ IsSequence(states')
       /\ \A s \in DOMAIN states \ {Self} : states'[s] = states[s]
       /\ states'[Self].root = states[Self].root /\ states'[Self].current = n /\ states'[Self].ptr = Ptr
       /\ states'[Self] \in States'
  <2>1. DOMAIN states' = DOMAIN states /\ states' = [s \in DOMAIN states |-> states'[s]]
    BY <1>5
  <2>2. IsSequence(states')
    BY <1>1, <2>1, StateSequence
  <2>3. states'[Self] = [[states[Self] EXCEPT !.running = FALSE] EXCEPT !.current = n]
    BY <1>2, <1>5
  <2>4. n \in DOMAIN heap
    BY <1>2, <1>3 DEF Contexts
  <2> QED
    BY <1>2, <1>5, <1>12, <2>1, <2>2, <2>3, <2>4 DEF States, Ptr
<1>17. StatesOK(L)'
  <2>1. ASSUME NEW s \in DOMAIN states', s = Self
        PROVE  StateOK(s, L)'
    <3>1. states'[s].root \in Contexts' /\ states'[s].current \in Contexts'
      BY <1>1, <1>2, <1>3, <1>14, <1>16, <2>1 DEF StatesOK
    <3>2. gc_visit_stack(states[s].ptr)' \subseteq Kept(L)'
      <4>1. gc_visit_stack(Ptr) \subseteq Kept(L)
        BY <1>1, <1>2 DEF StatesOK, Ptr
      <4> QED
        BY <1>5, <1>14, <1>16, <2>1, <4>1 DEF gc_visit_stack
    <3> QED
      BY <1>16, <2>1, <3>1, <3>2 DEF StateOK
  <2>2. \A s \in DOMAIN states \ {Self} : s \in DOMAIN states' /\ states'[s] = states[s]
    BY <1>16
  <2>3. \A i \in 1..MaxStack : stack'[i] = stack[i] \/ stack'[i] \in Kept(L)
    BY <1>5
  <2> QED
    BY <1>1, <1>13, <1>16, <2>1, <2>2, <2>3, StatesStay
<1>18. /\ Len(runs') = m - 1 /\ 1..Len(runs') = 1..m \ {m}
       /\ \A i \in 1..m : i # m => runs'[i] = runs[i]
       /\ runs' \in Seq(Runs(L)') /\ runs' # <<>>
  <2>1. runs \in Seq(Runs(L)) /\ Len(runs) = m /\ m - 1 \in Nat
    BY <1>1, <1>3, <1>7 DEF RunsOK
  <2>2. runs' = SubSeq(runs, 1, m - 1)
    BY <1>3, <1>5 DEF Front
  <2>3. runs' \in Seq(Runs(L)) /\ Len(runs') = m - 1 /\ \A i \in 1..(m - 1) : runs'[i] = runs[i]
    BY <1>7, <2>1, <2>2
  <2>4. Runs(L) \subseteq Runs(L)'
    BY <1>14 DEF Runs
  <2>5. runs' \in Seq(Runs(L)')
    BY <2>3, <2>4, SequenceSubset
  <2>6. 1..(m - 1) = 1..m \ {m}
    BY <1>7
  <2>7. runs' # <<>>
    BY <1>7, <2>3
  <2> QED
    BY <2>3, <2>5, <2>6, <2>7
<1>19. \A i \in 1..m : i # m => runs[i].state # Self /\ runs[i].ctx # n /\ runs[i].state \in DOMAIN states
  BY <1>1, <1>7
<1>20. RunsOK(L)'
  <2>1. ASSUME NEW i \in 1..m, i # m
        PROVE  RunOK(i)'
    <3>1. runs[i].kind = "clone" => runs[i].state \in roots'
      <4>1. SUFFICES ASSUME runs[i].kind = "clone" PROVE runs[i].state \in roots
        BY <1>5, <1>19, <2>1
      <4>2. i > 1
        BY <1>7, <4>1
      <4> QED
        BY Zenon, <1>7, <4>1, <4>2 DEF RunOK, Called
    <3>2. i > 1 => i \in 2..m /\ i - 1 \in 1..m /\ i - 1 # m
      BY <1>7
    <3>3. i > 1 => HeldStays(i) /\ runs'[i - 1].ctx = runs[i - 1].ctx
      BY <1>15, <1>18, <2>1, <3>2
    <3>4. runs'[i] = runs[i] /\ states'[runs[i].state] = states[runs[i].state]
      BY <1>16, <1>18, <1>19, <2>1
    <3> QED
      BY ZenonT(40), <1>7, <1>13, <3>1, <3>3, <3>4, RunStays
  <2>2. 1 \in 1..m /\ 1 # m
    BY <1>7
  <2>3. 1 \in roots'
    <3>1. 1 # Self
      BY <1>7, <1>19, <2>2
    <3> QED
      BY <1>5, <1>7, <3>1
  <2>4. \A i, j \in 1..Len(runs') : i # j => runs'[i].state # runs'[j].state /\ runs'[i].ctx # runs'[j].ctx
    <3>1. SUFFICES ASSUME NEW i \in 1..m \ {m}, NEW j \in 1..m \ {m}, i # j
                   PROVE  runs'[i].state # runs'[j].state /\ runs'[i].ctx # runs'[j].ctx
      BY <1>18
    <3>2. runs'[i] = runs[i] /\ runs'[j] = runs[j]
      BY <1>18
    <3>3. i \in 1..m /\ j \in 1..m
      OBVIOUS
    <3>4. runs[i].state # runs[j].state /\ runs[i].ctx # runs[j].ctx
      BY <1>7, <3>1, <3>3
    <3> QED
      BY <3>2, <3>4
  <2>5. runs'[1].state = 1 /\ runs'[1].kind = "main"
    BY <1>7, <1>18, <2>2
  <2>6. \A i \in 1..Len(runs') : RunOK(i)'
    BY <1>18, <2>1
  <2> QED
    BY <1>18, <2>3, <2>4, <2>5, <2>6 DEF RunsOK
<1>21. A \subseteq Contexts /\ A \subseteq Contexts' /\ floor \in [A -> Nat]
  BY <1>1, <1>14 DEF ActiveOK
<1>22. ASSUME NEW d \in A
       PROVE  CallerOK(d, A, floor)'
  <2>1. CallerOK(d, A, floor) /\ heap'[d].return = heap[d].return
    BY <1>1, <1>14, <1>21 DEF ActiveOK
  <2>2. CASE heap[d].return = 0
    BY <2>1, <2>2 DEF CallerOK
  <2>3. CASE heap[d].return # 0
    <3>1. PICK z : z = heap[d].return
      OBVIOUS
    <3>2. z \in A /\ (\A g \in A : heap[g].return = z => g = d) /\ \A i \in 1..m : runs[i].ctx # z
      BY <1>7, <2>1, <2>3, <3>1 DEF CallerOK
    <3>3. \A g \in A : heap'[g].return = z => g = d
      BY <1>14, <1>21, <3>2
    <3>4. \A i \in 1..Len(runs') : runs'[i].ctx # z
      BY <1>18, <3>2
    <3>5. heap'[z].pc = heap[z].pc
      BY <1>4, <1>7, <1>13, <1>21, <3>2
    <3> QED
      BY <1>13, <3>1, <3>2, <3>3, <3>4, <3>5, CallerStays
  <2> QED
    BY <2>2, <2>3
<1>23. ASSUME NEW i \in 1..m, i # m, i # m - 1
       PROVE  StackOK(i, A, floor)'
  <2>1. runs[i].ctx \in A /\ runs[i].ctx # c /\ runs[i].ctx \in Contexts
    BY <1>1, <1>4, <1>7, <1>23 DEF ActiveOK, StackOK
  <2>2. /\ states'[runs[i].state] = states[runs[i].state] /\ states[runs[i].state] \in States
        /\ runs'[i] = runs[i]
    BY <1>1, <1>7, <1>16, <1>18, <1>19, <1>23, Sequences DEF StatesOK
  <2>3. states[runs[i].state].ptr \in Nat
    BY <2>2, HeapAssumption DEF States
  <2>4. heap'[runs[i].ctx].pc = heap[runs[i].ctx].pc
    BY <1>13, <2>1
  <2>5. i < Len(runs)
    BY <1>7, <1>23
  <2> QED
    BY <1>7, <1>13, <2>1, <2>2, <2>3, <2>4, <2>5, StackStays
<1>24. ASSUME NEW i \in 1..m, i = m - 1
       PROVE  StackOK(i, A, floor)'
  <2>1. StackOK(i, A, floor) /\ c = runs[i].ctx /\ i < Len(runs)
    BY <1>1, <1>4, <1>7, <1>24 DEF ActiveOK
  <2>2. PICK s : s = runs[i].state
    OBVIOUS
  <2>3. /\ c \in A /\ PushedAt(c) \in Nat /\ states[s].ptr >= floor[c] + PushedAt(c)
        /\ heap[c].pc <= Len(program[heap[c].fn]) /\ At(c) \in {"call", "new"}
    BY <2>1, <2>2 DEF StackOK
  <2>4. runs'[i].ctx = c /\ runs'[i].state = s /\ states'[s] = states[s] /\ states[s] \in States
    BY <1>1, <1>7, <1>16, <1>18, <1>19, <1>24, <2>1, <2>2, Sequences DEF StatesOK
  <2>5. heap'[c].fn = heap[c].fn /\ heap'[c].pc = heap[c].pc + 1 /\ program' = program
    BY <1>5, <1>8, <1>13, <1>14
  <2>6. (PushedAt(runs[i].ctx))' = PushedAfter(c)
    BY <2>4, <2>5 DEF PushedAt, PushedAfter
  <2>7. PushedAfter(c) \in Nat /\ PushedAfter(c) <= PushedAt(c)
    <3>1. /\ heap[c].fn \in DOMAIN program /\ heap[c].pc \in Nat \ {0} /\ Len(program[heap[c].fn]) \in Nat
      BY <1>8, BodyFacts
    <3>2. heap[c].pc \in 1..Len(program[heap[c].fn])
      BY <2>3, <3>1
    <3>3. PICK f, k : f = heap[c].fn /\ k = heap[c].pc
      OBVIOUS
    <3>4. /\ Pushed(program[f])[k] \in Nat /\ Pushed(program[f])[k + 1] \in Nat
          /\ program[f][k].op = "call" => /\ program[f][k].n \in Nat
                                          /\ Pushed(program[f])[k + 1] = Pushed(program[f])[k] - program[f][k].n
          /\ program[f][k].op \notin {"push", "call"} => Pushed(program[f])[k + 1] = Pushed(program[f])[k]
      BY ZenonT(40), <1>1, <3>1, <3>2, <3>3, PushedStep
    <3>5. program[f][k].op \in {"call", "new"}
      BY <2>3, <3>3 DEF At
    <3>6. Pushed(program[f])[k + 1] \in Nat /\ Pushed(program[f])[k + 1] <= Pushed(program[f])[k]
      BY <3>4, <3>5
    <3> QED
      BY <3>3, <3>6 DEF PushedAfter, PushedAt
  <2>8. floor[c] \in Nat /\ states[s].ptr \in Nat
    BY <1>21, <2>3, <2>4, HeapAssumption DEF States
  <2>9. states'[s].ptr >= floor[c] + PushedAfter(c)
    BY <2>3, <2>4, <2>7, <2>8
  <2>10. ~ (i < Len(runs'))
    BY <1>7, <1>18, <1>24
  <2> QED
    BY <2>3, <2>4, <2>6, <2>7, <2>9, <2>10 DEF StackOK
<1>25. ActiveOK(A, floor)'
  <2>1. \A i \in 1..Len(runs') : StackOK(i, A, floor)'
    BY <1>18, <1>23, <1>24
  <2> QED
    BY <1>21, <1>22, <2>1 DEF ActiveOK
<1>26. Sound(L, A, floor)'
  <2>1. ObjectsOK(L)'
    <3>1. DOMAIN heap' \ DOMAIN heap = {}
      BY <1>12
    <3> QED
      BY <1>1, <1>13, <3>1, ObjectsStay
  <2>2. (stack \in [1..MaxStack -> Values])'
    <3>1. Values \subseteq Values'
      BY <1>12, <1>16 DEF Values, This, NUMBER
    <3> QED
      BY <1>1, <1>5, <3>1
  <2>3. static' \in Kept(L)' /\ roots' \subseteq L /\ program' \in Programs /\ L \subseteq DOMAIN states'
    BY <1>1, <1>5, <1>14, <1>16
  <2> QED
    BY <1>17, <1>20, <1>25, <2>1, <2>2, <2>3 DEF Sound
<1> QED
  BY <1>26, IInvFrom

-----------------------------------------------------------------------------
(* A round of the collector.                                               *)

LEMMA PositiveObject ==
  ASSUME NEW L, L \subseteq DOMAIN states, ObjectsOK(L), StatesOK(L), NEW v \in Kept(L), v > 0
  PROVE  v \in DOMAIN heap
<1>1. v # NUMBER
  BY DEF NUMBER
<1>2. ASSUME IsThis(v) PROVE FALSE
  <2>1. PICK n : n = -v
    OBVIOUS
  <2>2. n \in Nat \ {0} /\ v = This(n)
    BY <1>2, <2>1, Kinds
  <2>3. v = -n
    BY <2>2 DEF This
  <2> QED
    BY <2>2, <2>3
<1> QED
  BY <1>1, <1>2, Kinds

\* What is visited leads to what is visited.
LEMMA VisitedLeads ==
  ASSUME NEW L, NEW A, NEW floor, Sound(L, A, floor)
  PROVE  /\ \A o \in DOMAIN heap : o \in Visited =>
              /\ heap[o] # Freed
              /\ heap[o].type = "context"  => /\ heap[o].parent \in Visited /\ heap[o].return \in Visited
                                              /\ \A r \in Registers \ {1} : heap[o].locals[r] \in Visited
              /\ heap[o].type = "function" => heap[o].parent \in Visited /\ This(heap[o].state) \in Visited
              /\ heap[o].type = "object"   => heap[o].properties \in Visited
              /\ heap[o].type = "instance" => This(heap[o].state) \in Visited
         /\ \A s \in L : This(s) \in Visited =>
              states[s].current \in Visited /\ states[s].root \in Visited /\ gc_visit_stack(states[s].ptr) \subseteq Visited
         /\ static \in Visited /\ \A s \in roots : This(s) \in Visited
<1>1. L \subseteq DOMAIN states /\ ObjectsOK(L) /\ StatesOK(L)
  BY DEF Sound
<1>2. Visited \subseteq Kept(L) /\ gc_roots \subseteq Visited /\ \A v \in Visited : gc_visit_object(v) \subseteq Visited
  BY ReachedKept
<1>3. ASSUME NEW o \in DOMAIN heap, o \in Visited
      PROVE  /\ heap[o] # Freed
             /\ heap[o].type = "context"  => /\ heap[o].parent \in Visited /\ heap[o].return \in Visited
                                             /\ \A r \in Registers \ {1} : heap[o].locals[r] \in Visited
             /\ heap[o].type = "function" => heap[o].parent \in Visited /\ This(heap[o].state) \in Visited
             /\ heap[o].type = "object"   => heap[o].properties \in Visited
             /\ heap[o].type = "instance" => This(heap[o].state) \in Visited
  <2>1. o # NUMBER /\ ~ IsThis(o) /\ heap[o] # Freed
    BY <1>1, <1>2, <1>3, Kinds
  <2>2. gc_visit_object(o) \subseteq Visited
    BY <1>2, <1>3
  <2>3. CASE heap[o].type = "context"
    <3>1. gc_visit_context(heap[o]) \subseteq Visited
      BY <2>1, <2>2, <2>3 DEF gc_visit_object
    <3> QED
      BY <2>1, <2>3, <3>1 DEF gc_visit_context
  <2>4. CASE heap[o].type = "function"
    BY <2>1, <2>2, <2>4 DEF gc_visit_object
  <2>5. CASE heap[o].type = "object"
    BY <2>1, <2>2, <2>5 DEF gc_visit_object
  <2>6. CASE heap[o].type = "instance"
    BY <2>1, <2>2, <2>6 DEF gc_visit_object
  <2> QED
    BY <2>1, <2>3, <2>4, <2>5, <2>6
<1>4. ASSUME NEW s \in L, This(s) \in Visited
      PROVE  states[s].current \in Visited /\ states[s].root \in Visited /\ gc_visit_stack(states[s].ptr) \subseteq Visited
  <2>1. This(s) # NUMBER /\ IsThis(This(s)) /\ -This(s) = s /\ states[s] # Freed
    BY <1>1, Kinds DEF StatesOK
  <2>2. gc_visit_object(This(s)) = gc_visit_state(s)
    BY <2>1 DEF gc_visit_object
  <2>3. gc_visit_state(s) \subseteq Visited
    BY <1>2, <1>4, <2>2
  <2> QED
    BY <2>1, <2>3 DEF gc_visit_state
<1>5. static \in Visited /\ \A s \in roots : This(s) \in Visited
  BY <1>2 DEF gc_roots
<1> QED
  BY <1>3, <1>4, <1>5

\* Every run is reached from the roots, through the register that its caller holds
\* its function or instance in.
LEMMA RunsVisited ==
  ASSUME NEW L, NEW A, NEW floor, Sound(L, A, floor)
  PROVE  \A i \in 1..Len(runs) : This(runs[i].state) \in Visited /\ runs[i].ctx \in Visited
<1>1. /\ L \subseteq DOMAIN states /\ ObjectsOK(L) /\ StatesOK(L) /\ RunsOK(L)
      /\ Len(runs) \in Nat \ {0} /\ \A i \in 1..Len(runs) : runs[i].state \in L /\ runs[i].ctx \in Contexts
  BY RunFields DEF Sound
<1>2. ASSUME NEW i \in 1..Len(runs), This(runs[i].state) \in Visited
      PROVE  runs[i].ctx \in Visited
  <2>1. PICK c : c = states[runs[i].state].current
    OBVIOUS
  <2>2. c \in Visited /\ c \in Contexts
    BY <1>1, <1>2, <2>1, VisitedLeads DEF StatesOK
  <2>3. heap[c].return \in Visited
    BY <2>2, VisitedLeads DEF Contexts
  <2>4. runs[i].ctx \in {c, heap[c].return}
    BY Zenon, <1>1, <2>1 DEF RunsOK, RunOK
  <2> QED
    BY <2>2, <2>3, <2>4
<1>3. ASSUME NEW i \in 1..Len(runs), i > 1, runs[i - 1].ctx \in Visited
      PROVE  This(runs[i].state) \in Visited
  <2>1. Called(i)
    BY <1>1, <1>3 DEF RunsOK, RunOK
  <2>2. PICK c, r, v : c = runs[i].callee[1] /\ r = runs[i].callee[2] /\ v = heap[c].locals[r]
    OBVIOUS
  <2>3. i - 1 \in 1..Len(runs)
    BY <1>1, <1>3
  <2>4. c \in Visited /\ c \in Contexts /\ r \in Registers \ {1}
    BY Zenon, <1>1, <1>3, <2>1, <2>2, <2>3 DEF Called
  <2>5. v \in Visited
    BY <2>2, <2>4, VisitedLeads DEF Contexts
  <2>6. CASE runs[i].kind = "clone"
    BY <2>1, <2>6, VisitedLeads DEF Called
  <2>7. CASE runs[i].kind \in {"call", "new"}
    <3>1. v > 0 /\ heap[v].type \in {"function", "instance"} /\ heap[v].state = runs[i].state
      <4>1. /\ runs[i].kind = "call" => v > 0 /\ heap[v].type = "function" /\ heap[v].state = runs[i].state
            /\ runs[i].kind = "new" => v > 0 /\ heap[v] = Instance(runs[i].state)
        BY Zenon, <2>1, <2>2 DEF Called, CalleeKept
      <4>2. \A s : Instance(s).type = "instance" /\ Instance(s).state = s
        BY DEF Instance
      <4> HIDE DEF Instance
      <4>3. CASE runs[i].kind = "call"
        BY <4>1, <4>3
      <4>4. CASE runs[i].kind = "new"
        BY <4>1, <4>2, <4>4
      <4> QED
        BY Zenon, <2>7, <4>3, <4>4
    <3>2. v \in Kept(L)
      BY <2>5, ReachedKept
    <3>3. v \in DOMAIN heap
      BY <1>1, <3>1, <3>2, PositiveObject
    <3> QED
      BY <2>5, <3>1, <3>3, VisitedLeads
  <2> QED
    BY Zenon, <2>1, <2>6, <2>7 DEF Called
<1>4. This(runs[1].state) \in Visited
  BY <1>1, VisitedLeads DEF RunsOK
<1>5. PICK bad : bad = {i \in 1..Len(runs) : This(runs[i].state) \notin Visited}
  OBVIOUS
<1>6. bad = {}
  <2>1. SUFFICES ASSUME bad # {} PROVE FALSE
    OBVIOUS
  <2>2. bad \in SUBSET Nat
    BY <1>5
  <2>3. PICK i \in bad : \A j \in bad : i <= j
    BY <2>1, <2>2, LeastNatural
  <2>4. i \in 1..Len(runs) /\ i # 1 /\ This(runs[i].state) \notin Visited
    BY <1>4, <1>5, <2>3
  <2>5. i > 1 /\ i - 1 \in 1..Len(runs) /\ ~ (i <= i - 1)
    BY <1>1, <2>4
  <2>6. This(runs[i - 1].state) \in Visited
    BY <1>5, <2>3, <2>5
  <2>7. runs[i - 1].ctx \in Visited
    BY <1>2, <2>5, <2>6
  <2> QED
    BY <1>3, <2>4, <2>5, <2>7
<1>7. \A i \in 1..Len(runs) : This(runs[i].state) \in Visited
  BY <1>5, <1>6
<1> QED
  BY <1>2, <1>7

\* What a round leaves.  W, L1: the visited values and the states they stand for.
Sweeps(W, L1) ==
  /\ L1 = {s \in DOMAIN states : This(s) \in W}
  /\ IsSequence(heap') /\ DOMAIN heap' = DOMAIN heap
  /\ IsSequence(states') /\ DOMAIN states' = DOMAIN states
  /\ \A o \in DOMAIN heap : heap'[o] = IF o \in W THEN heap[o] ELSE Freed
  /\ \A s \in DOMAIN states : states'[s] \in {states[s], Freed}
  /\ \A s \in L1 : states'[s] = states[s]
  /\ \A c \in Contexts : c \in W => \E s \in L1 : /\ heap[c].locals[1] = This(s)
                                                  /\ s = 1 \/ \E o \in DOMAIN heap : o \in W /\ heap[o] = Instance(s)
  /\ program' = program /\ stack' = stack /\ runs' = runs /\ roots' = roots /\ static' = static

\* The guard keeps an instance of which a kept activation has the `this'.
LEMMA GcSweeps ==
  ASSUME DropsInstances = FALSE, NEW L, NEW A, NEW floor, Sound(L, A, floor), Gc,
         NEW W, W = Visited, NEW L1, L1 = {s \in DOMAIN states : This(s) \in W}
  PROVE  Sweeps(W, L1)
<1>1. /\ L \subseteq DOMAIN states /\ ObjectsOK(L) /\ StatesOK(L) /\ RunsOK(L)
  BY DEF Sound
<1>2. PICK swept : swept = {o \in DOMAIN heap : heap[o] # Freed /\ o \notin W}
  OBVIOUS
<1>3. PICK dropped : dropped = {heap[o].state : o \in {i \in swept : heap[i].type = "instance"}}
  OBVIOUS
<1>4. PICK needed : needed = W \cup {heap[c].locals[1] : c \in {o \in DOMAIN heap \ swept : heap[o].type = "context"}}
  OBVIOUS
<1>5. /\ \A s \in dropped : This(s) \notin needed
      /\ heap' = [o \in DOMAIN heap |-> IF o \in swept THEN Freed ELSE heap[o]]
      /\ states' = [s \in DOMAIN states |-> IF s \in dropped THEN Freed ELSE states[s]]
      /\ program' = program /\ stack' = stack /\ runs' = runs /\ roots' = roots /\ static' = static
  BY <1>2, <1>3, <1>4 DEF Gc
<1>6. /\ Len(heap) \in Nat /\ DOMAIN heap = 1..Len(heap)
      /\ Len(states) \in Nat /\ DOMAIN states = 1..Len(states)
  BY <1>1, Sequences
<1>7. DOMAIN heap' = DOMAIN heap /\ DOMAIN states' = DOMAIN states
  BY <1>5
<1>8. IsSequence(heap') /\ IsSequence(states')
  <2>1. heap' = [o \in 1..Len(heap) |-> heap'[o]] /\ states' = [s \in 1..Len(states) |-> states'[s]]
    BY <1>5, <1>6
  <2> QED
    BY <1>6, <2>1, SequenceIs
<1>9. \A o \in DOMAIN heap : heap'[o] = IF o \in W THEN heap[o] ELSE Freed
  BY <1>2, <1>5
<1>10. \A s \in L1 : s \in DOMAIN states /\ s \notin dropped
  BY <1>4, <1>5
<1>11. \A s \in DOMAIN states : states'[s] \in {states[s], Freed} /\ (s \in L1 => states'[s] = states[s])
  BY <1>5, <1>10
<1>12. ASSUME NEW c \in Contexts, c \in W
       PROVE  \E s \in L1 : /\ heap[c].locals[1] = This(s)
                            /\ s = 1 \/ \E o \in DOMAIN heap : o \in W /\ heap[o] = Instance(s)
  <2>1. c \in DOMAIN heap /\ heap[c].type = "context" /\ c \notin swept
    BY <1>2, <1>12 DEF Contexts
  <2>2. PICK s \in L : heap[c].locals[1] = This(s) /\ (s = 1 \/ \E o \in DOMAIN heap : heap[o] = Instance(s))
    BY <1>1, <2>1, ObjectFields DEF IsContext
  <2>3. s \in DOMAIN states
    BY <1>1
  <2>4. CASE s = 1
    <3>1. This(s) \in W
      BY <1>1, <2>4, VisitedLeads DEF RunsOK
    <3> QED
      BY <2>2, <2>3, <2>4, <3>1
  <2>5. CASE \E o \in DOMAIN heap : heap[o] = Instance(s)
    <3>1. PICK o \in DOMAIN heap : heap[o] = Instance(s)
      BY <2>5
    <3>2. heap[o].type = "instance" /\ heap[o].state = s /\ heap[o] # Freed
      BY <3>1 DEF Instance, Freed
    <3>3. This(s) \in needed
      BY <1>4, <2>1, <2>2
    <3>4. o \notin swept
      BY <1>3, <1>5, <3>2, <3>3
    <3>5. o \in W
      BY <1>2, <3>2, <3>4
    <3>6. This(s) \in W
      BY <3>2, <3>5, VisitedLeads
    <3> QED
      BY <2>2, <2>3, <3>1, <3>5, <3>6
  <2> QED
    BY <2>2, <2>4, <2>5
<1> QED
  BY <1>5, <1>7, <1>8, <1>9, <1>11, <1>12 DEF Sweeps

\* What is visited stays.
LEMMA SweptKept ==
  ASSUME NEW L, NEW A, NEW floor, Sound(L, A, floor), NEW W, W = Visited, NEW L1, Sweeps(W, L1)
  PROVE  /\ W \subseteq Kept(L1)' /\ L1 \subseteq L /\ L1 \subseteq DOMAIN states'
         /\ \A c \in Contexts : c \in W => c \in Contexts' /\ heap'[c] = heap[c]
         /\ NUMBER \in Kept(L1)'
<1>1. L \subseteq DOMAIN states /\ ObjectsOK(L) /\ StatesOK(L)
  BY DEF Sound
<1>2. W \subseteq Kept(L) /\ Kept(L) \subseteq Values
  BY <1>1, ReachedKept, Kinds
<1>3. L1 = {s \in DOMAIN states : This(s) \in W} /\ DOMAIN heap' = DOMAIN heap /\ DOMAIN states' = DOMAIN states
      /\ \A o \in DOMAIN heap : o \in W => heap'[o] = heap[o]
  BY DEF Sweeps
<1>4. L1 \subseteq L
  <2>1. ASSUME NEW s \in L1 PROVE s \in L
    <3>1. s \in DOMAIN states /\ This(s) \in Kept(L)
      BY <1>2, <1>3
    <3>2. IsThis(This(s)) /\ -This(s) = s
      BY <1>1, <3>1, Kinds
    <3> QED
      BY <1>1, <3>1, <3>2, Kinds
  <2> QED
    BY <2>1
<1>5. ASSUME NEW v \in W PROVE v \in Kept(L1)'
  <2>1. v \in Kept(L) /\ v \in Values
    BY <1>2
  <2>2. CASE v = NUMBER
    BY <2>2 DEF Kept
  <2>3. CASE v # NUMBER /\ ~ IsThis(v) /\ v \in DOMAIN heap
    <3>1. heap[v] # Freed
      BY <1>1, <2>1, <2>3, Kinds
    <3> QED
      BY <1>3, <2>3, <3>1 DEF Kept
  <2>4. CASE IsThis(v) /\ -v \in DOMAIN states /\ v = This(-v)
    <3>1. -v \in L1
      BY <1>3, <2>4
    <3> QED
      BY <2>4, <3>1 DEF Kept
  <2> QED
    BY <1>1, <2>1, <2>2, <2>3, <2>4, Kinds
<1>6. \A c \in Contexts : c \in W => c \in Contexts' /\ heap'[c] = heap[c]
  BY <1>3 DEF Contexts
<1>7. NUMBER \in Kept(L1)'
  BY DEF Kept
<1> QED
  BY <1>3, <1>4, <1>5, <1>6, <1>7

\* After a round the objects that were visited are sound,
LEMMA SweptObjects ==
  ASSUME NEW L, NEW A, NEW floor, Sound(L, A, floor), NEW W, W = Visited, NEW L1, Sweeps(W, L1)
  PROVE  ObjectsOK(L1)'
<1>1. L \subseteq DOMAIN states /\ ObjectsOK(L) /\ StatesOK(L)
  BY DEF Sound
<1>2. /\ IsSequence(heap') /\ DOMAIN heap' = DOMAIN heap /\ program' = program
      /\ L1 = {s \in DOMAIN states : This(s) \in W}
      /\ \A o \in DOMAIN heap : heap'[o] = IF o \in W THEN heap[o] ELSE Freed
      /\ \A c \in Contexts : c \in W => \E s \in L1 : /\ heap[c].locals[1] = This(s)
                                                      /\ s = 1 \/ \E o \in DOMAIN heap : o \in W /\ heap[o] = Instance(s)
  BY DEF Sweeps
<1>3. /\ W \subseteq Kept(L1)' /\ \A c \in Contexts : c \in W => c \in Contexts' /\ heap'[c] = heap[c]
  BY SweptKept
<1>4. \A s \in L : This(s) \in W => s \in L1
  BY <1>1, <1>2
<1>5. ASSUME NEW o \in DOMAIN heap, o \in W PROVE IsObject(heap[o], L1)'
  <2>1. heap'[o] = heap[o] /\ heap[o] # Freed
    BY <1>2, <1>5, VisitedLeads
  <2>2. CASE heap[o].type = "context"
    <3>1. IsContext(heap[o], L) /\ o \in Contexts
      BY <1>1, <2>2, ObjectFields DEF Contexts
    <3>2. heap[o].parent \in W /\ heap[o].return \in W /\ \A r \in Registers \ {1} : heap[o].locals[r] \in W
      BY <1>5, <2>2, VisitedLeads
    <3>3. PICK s \in L1 : heap[o].locals[1] = This(s) /\ (s = 1 \/ \E i \in DOMAIN heap : i \in W /\ heap[i] = Instance(s))
      BY <1>2, <1>5, <3>1
    <3>4. This(s) \in W
      BY <1>2
    <3>5. heap[o].locals \in [Registers -> Kept(L1)']
      <4>1. heap[o].locals \in [Registers -> Kept(L)]
        BY <3>1 DEF IsContext
      <4>2. \A r \in Registers : heap[o].locals[r] \in Kept(L1)'
        BY <1>3, <3>2, <3>3, <3>4
      <4> QED
        BY <4>1, <4>2
    <3>6. heap[o].parent \in Contexts' \cup {0} /\ heap[o].return \in Contexts' \cup {0}
      BY <1>3, <3>1, <3>2 DEF IsContext
    <3>7. heap[o] \in [type : {"context"}, fn : DOMAIN program, pc : Nat \ {0}, parent : Contexts' \cup {0},
                       return : Contexts' \cup {0}, dest : Nat, locals : [Registers -> Kept(L1)']]
      BY <3>1, <3>5, <3>6 DEF IsContext
    <3>8. heap[o].parent # 0 => heap'[heap[o].parent] = heap[heap[o].parent]
      BY <1>3, <3>1, <3>2 DEF IsContext
    <3>9. s = 1 \/ \E i \in DOMAIN heap' : heap'[i] = Instance(s)
      BY <1>2, <3>3
    <3>10. /\ Depth[heap[o].fn] > 0 => heap[o].parent # 0 /\ Depth[heap[heap[o].parent].fn] = Depth[heap[o].fn] - 1
           /\ heap[o].return # 0 => heap[o].dest \in Registers \ {1}
      BY <3>1 DEF IsContext
    <3>11. Depth[heap[o].fn] > 0 => heap[o].parent # 0 /\ Depth[heap'[heap[o].parent].fn] = Depth[heap[o].fn] - 1
      BY <3>8, <3>10
    <3>12. IsContext(heap[o], L1)'
      BY <1>2, <2>1, <3>3, <3>7, <3>9, <3>10, <3>11 DEF IsContext, This, Instance
    <3> QED
      BY <3>12 DEF IsObject
  <2>3. CASE heap[o].type = "function"
    <3>1. IsFunctionRef(heap[o], L) /\ heap[o].parent \in W /\ This(heap[o].state) \in W
      BY <1>1, <1>5, <2>3, ObjectFields, VisitedLeads
    <3>2. heap[o].parent \in Contexts' /\ heap'[heap[o].parent] = heap[heap[o].parent] /\ heap[o].state \in L1
      BY <1>3, <1>4, <3>1 DEF IsFunctionRef
    <3>3. IsFunctionRef(heap[o], L1)'
      BY <1>2, <2>1, <3>1, <3>2 DEF IsFunctionRef
    <3> QED
      BY <3>3 DEF IsObject
  <2>4. CASE heap[o].type = "object"
    <3>1. heap[o] \in [type : {"object"}, properties : Kept(L)] /\ heap[o].properties \in W
      BY <1>1, <1>5, <2>4, ObjectFields, VisitedLeads
    <3>2. heap'[o] \in [type : {"object"}, properties : Kept(L1)']
      BY <1>3, <2>1, <3>1
    <3> QED
      BY <3>2 DEF IsObject
  <2>5. CASE heap[o].type = "instance"
    <3>1. heap[o] \in [type : {"instance"}, state : L] /\ This(heap[o].state) \in W
      BY <1>1, <1>5, <2>5, ObjectFields, VisitedLeads
    <3>2. heap'[o] \in [type : {"instance"}, state : L1]
      BY <1>4, <2>1, <3>1
    <3> QED
      BY <3>2 DEF IsObject
  <2> QED
    BY <1>1, <2>1, <2>2, <2>3, <2>4, <2>5, ObjectFields
<1>6. ASSUME NEW o \in DOMAIN heap, o \notin W PROVE IsObject(heap[o], L1)'
  <2>1. heap'[o] = Freed
    BY <1>2, <1>6
  <2> QED
    BY <2>1 DEF IsObject, Freed
<1>7. (heap \in Seq({heap[o] : o \in DOMAIN heap}))'
  BY <1>2 DEF IsSequence
<1> QED
  BY <1>2, <1>5, <1>6, <1>7 DEF ObjectsOK

\* so are the states that were,
LEMMA SweptStates ==
  ASSUME NEW L, NEW A, NEW floor, Sound(L, A, floor), NEW W, W = Visited, NEW L1, Sweeps(W, L1)
  PROVE  /\ StatesOK(L1)' /\ (stack \in [1..MaxStack -> Values])'
         /\ roots' \subseteq L1 /\ static' \in Kept(L1)'
<1>1. L \subseteq DOMAIN states /\ ObjectsOK(L) /\ StatesOK(L) /\ stack \in [1..MaxStack -> Values] /\ roots \subseteq L
  BY DEF Sound
<1>2. /\ DOMAIN heap' = DOMAIN heap /\ IsSequence(states') /\ DOMAIN states' = DOMAIN states
      /\ L1 = {s \in DOMAIN states : This(s) \in W}
      /\ \A s \in DOMAIN states : states'[s] \in {states[s], Freed}
      /\ \A s \in L1 : states'[s] = states[s]
      /\ stack' = stack /\ roots' = roots /\ static' = static
  BY DEF Sweeps
<1>3. /\ W \subseteq Kept(L1)' /\ L1 \subseteq L /\ \A c \in Contexts : c \in W => c \in Contexts'
  BY SweptKept
<1>4. \A s \in DOMAIN states : states'[s] \in States' \cup {Freed}
  BY <1>1, <1>2, Sequences DEF States
<1>5. states' \in Seq((States \cup {Freed})')
  <2>1. {states'[s] : s \in DOMAIN states'} \subseteq States' \cup {Freed}
    BY <1>2, <1>4
  <2>2. states' \in Seq(States' \cup {Freed})
    BY <1>2, <2>1, SequenceSubset DEF IsSequence
  <2> QED
    BY <2>2 DEF Freed
<1>6. ASSUME NEW s \in L1
      PROVE  /\ states'[s] # Freed
             /\ states'[s].root \in Contexts' /\ states'[s].current \in Contexts'
             /\ gc_visit_stack(states[s].ptr)' \subseteq Kept(L1)'
  <2>1. states'[s] = states[s] /\ s \in L /\ This(s) \in W
    BY <1>2, <1>3
  <2>2. states[s] # Freed /\ states[s].root \in Contexts /\ states[s].current \in Contexts
    BY <1>1, <2>1 DEF StatesOK
  <2>3. states[s].current \in W /\ states[s].root \in W /\ gc_visit_stack(states[s].ptr) \subseteq W
    BY <2>1, VisitedLeads
  <2>4. gc_visit_stack(states[s].ptr)' = gc_visit_stack(states[s].ptr)
    BY <1>2, <2>1 DEF gc_visit_stack
  <2> QED
    BY <1>3, <2>1, <2>2, <2>3, <2>4
<1>7. StatesOK(L1)'
  BY <1>5, <1>6 DEF StatesOK, Freed
<1>8. Values' = Values
  BY <1>2 DEF Values, This, NUMBER
<1>9. roots \subseteq L1 /\ static \in W
  BY <1>1, <1>2, VisitedLeads
<1> QED
  BY <1>1, <1>2, <1>3, <1>7, <1>8, <1>9

\* the runs, all of whose states and contexts were,
LEMMA SweptRuns ==
  ASSUME NEW L, NEW A, NEW floor, Sound(L, A, floor), NEW W, W = Visited, NEW L1, Sweeps(W, L1)
  PROVE  RunsOK(L1)'
<1>1. L \subseteq DOMAIN states /\ ObjectsOK(L) /\ StatesOK(L) /\ RunsOK(L)
  BY DEF Sound
<1>2. /\ L1 = {s \in DOMAIN states : This(s) \in W}
      /\ \A o \in DOMAIN heap : heap'[o] = IF o \in W THEN heap[o] ELSE Freed
      /\ \A s \in L1 : states'[s] = states[s]
      /\ runs' = runs /\ roots' = roots
  BY DEF Sweeps
<1>3. /\ W \subseteq Kept(L1)' /\ L1 \subseteq L /\ \A c \in Contexts : c \in W => c \in Contexts' /\ heap'[c] = heap[c]
  BY SweptKept
<1>4. /\ Len(runs) \in Nat \ {0} /\ DOMAIN runs = 1..Len(runs)
      /\ \A i \in 1..Len(runs) : runs[i] \in Runs(L) /\ runs[i].state \in L /\ runs[i].ctx \in Contexts
  BY <1>1, RunFields
<1>5. \A i \in 1..Len(runs) : This(runs[i].state) \in W /\ runs[i].ctx \in W
  BY RunsVisited
<1>6. \A i \in 1..Len(runs) : runs[i].state \in L1 /\ runs[i].ctx \in Contexts'
  BY <1>1, <1>2, <1>3, <1>4, <1>5
<1>7. runs' \in Seq(Runs(L1)')
  <2>1. \A i \in 1..Len(runs) : runs[i] \in Runs(L1)'
    BY <1>4, <1>6 DEF Runs
  <2>2. runs = [i \in 1..Len(runs) |-> runs[i]]
    BY <1>1 DEF RunsOK
  <2>3. runs \in [1..Len(runs) -> Runs(L1)']
    BY ZenonT(40), <2>1, <2>2
  <2>4. PICK n \in Nat : n = Len(runs)
    BY <1>4
  <2>5. runs \in [1..n -> Runs(L1)']
    BY Zenon, <2>3, <2>4
  <2> QED
    BY <1>2, <2>5
<1>8. ASSUME NEW i \in 1..Len(runs), i > 1 PROVE Called(i)'
  <2>1. Called(i)
    BY <1>1, <1>8 DEF RunsOK, RunOK
  <2>2. PICK c, r, v : c = runs[i].callee[1] /\ r = runs[i].callee[2] /\ v = heap[c].locals[r]
    OBVIOUS
  <2>3. /\ c = runs[i - 1].ctx /\ r \in Registers \ {1}
        /\ runs[i].kind \in {"call", "clone", "new"}
        /\ runs[i].kind # "new" => runs[i].dest \in Registers \ {1}
        /\ runs[i].kind = "clone" => runs[i].state \in roots
        /\ runs[i].kind = "call" => v > 0 /\ heap[v].type = "function" /\ heap[v].state = runs[i].state
        /\ runs[i].kind = "new" => v > 0 /\ heap[v] = Instance(runs[i].state)
    BY Zenon, <2>1, <2>2 DEF Called, CalleeKept
  <2>4. i - 1 \in 1..Len(runs)
    BY <1>4, <1>8
  <2>5. c \in W /\ c \in Contexts /\ heap'[c] = heap[c]
    BY Zenon, <1>3, <1>4, <1>5, <2>3, <2>4
  <2>6. v \in W
    BY Zenon, <2>2, <2>3, <2>5, VisitedLeads DEF Contexts
  <2>7. v > 0 => v \in DOMAIN heap
    BY <1>1, <2>6, ReachedKept, PositiveObject
  <2>8. v > 0 => heap'[v] = heap[v]
    BY <1>2, <2>6, <2>7
  <2>9. heap'[c].locals[r] = v
    BY <2>2, <2>5
  <2>10. /\ runs[i].kind = "call" => v > 0 /\ heap'[v].type = "function" /\ heap'[v].state = runs[i].state
         /\ runs[i].kind = "new" => v > 0 /\ heap'[v] = Instance(runs[i].state)
    BY <2>3, <2>8
  <2> QED
    BY Zenon, <1>2, <2>2, <2>3, <2>9, <2>10 DEF Called, CalleeKept, Instance
<1>9. ASSUME NEW i \in 1..Len(runs) PROVE RunOK(i)'
  <2>1. PICK s, c : s = runs[i].state /\ c = states[s].current
    OBVIOUS
  <2>2. states[s].running /\ runs[i].ctx \in {c, heap[c].return}
    BY <1>1, <2>1 DEF RunsOK, RunOK
  <2>3. s \in L1 /\ s \in L /\ This(s) \in W
    BY <1>2, <1>3, <1>6, <2>1
  <2>4. c \in W /\ c \in Contexts
    BY <1>1, <2>1, <2>3, VisitedLeads DEF StatesOK
  <2>5. heap'[c] = heap[c] /\ states'[s] = states[s]
    BY <1>2, <1>3, <2>3, <2>4
  <2> QED
    BY <1>2, <1>8, <2>1, <2>2, <2>5 DEF RunOK
<1> QED
  BY <1>1, <1>2, <1>7, <1>9 DEF RunsOK

\* and the active contexts that were.
LEMMA SweptActive ==
  ASSUME NEW L, NEW A, NEW floor, Sound(L, A, floor), NEW W, W = Visited, NEW L1, Sweeps(W, L1),
         NEW A1, A1 = A \cap W, NEW floor1, \A c \in A1 : floor1[c] = floor[c], floor1 \in [A1 -> Nat]
  PROVE  ActiveOK(A1, floor1)'
<1>1. /\ L \subseteq DOMAIN states /\ ObjectsOK(L) /\ StatesOK(L) /\ RunsOK(L)
      /\ ActiveOK(A, floor) /\ A \subseteq Contexts
  BY DEF Sound, ActiveOK
<1>2. /\ \A s \in L1 : states'[s] = states[s]
      /\ runs' = runs /\ program' = program /\ L1 = {s \in DOMAIN states : This(s) \in W}
  BY DEF Sweeps
<1>3. \A c \in A1 : c \in A /\ c \in W /\ c \in Contexts /\ c \in Contexts' /\ heap'[c] = heap[c]
  BY <1>1, SweptKept
<1>4. ASSUME NEW c \in A1 PROVE CallerOK(c, A1, floor1)'
  <2>1. CallerOK(c, A, floor)
    BY <1>1, <1>3 DEF ActiveOK
  <2>2. PICK r : r = heap[c].return
    OBVIOUS
  <2>3. CASE r = 0
    BY <1>3, <2>2, <2>3 DEF CallerOK
  <2>4. CASE r # 0
    <3>1. /\ r \in A
          /\ \A d \in A : heap[d].return = r => d = c
          /\ \A i \in 1..Len(runs) : runs[i].ctx # r
          /\ heap[r].pc <= Len(program[heap[r].fn])
          /\ floor[c] >= floor[r] + PushedAfter(r)
      BY <2>1, <2>2, <2>4 DEF CallerOK
    <3>2. r \in W
      BY <1>3, <2>2, VisitedLeads DEF Contexts
    <3>3. r \in A1 /\ heap'[r] = heap[r] /\ heap'[c] = heap[c]
      BY <1>3, <3>1, <3>2
    <3>4. PushedAfter(r)' = PushedAfter(r)
      BY <1>2, <3>3 DEF PushedAfter
    <3>5. \A d \in A1 : heap'[d].return = r => d = c
      BY <1>3, <3>1
    <3> QED
      BY <1>2, <2>2, <3>1, <3>3, <3>4, <3>5 DEF CallerOK
  <2> QED
    BY <2>3, <2>4
<1>5. ASSUME NEW i \in 1..Len(runs) PROVE StackOK(i, A1, floor1)'
  <2>1. PICK c, s : c = runs[i].ctx /\ s = runs[i].state
    OBVIOUS
  <2>2. /\ c \in A
        /\ PushedAt(c) \in Nat /\ states[s].ptr >= floor[c] + PushedAt(c)
        /\ i < Len(runs) => heap[c].pc <= Len(program[heap[c].fn]) /\ At(c) \in {"call", "new"}
    BY <1>1, <2>1 DEF ActiveOK, StackOK
  <2>3. c \in W /\ s \in L1
    BY <1>1, <1>2, <2>1, RunsVisited, RunFields
  <2>4. c \in A1 /\ heap'[c] = heap[c] /\ states'[s] = states[s] /\ floor1[c] = floor[c]
    BY <1>2, <1>3, <2>2, <2>3
  <2>5. PushedAt(c)' = PushedAt(c) /\ At(c)' = At(c)
    BY <1>2, <2>4 DEF PushedAt, At
  <2> QED
    BY <1>2, <2>1, <2>2, <2>4, <2>5 DEF StackOK
<1>6. A1 \subseteq Contexts'
  BY <1>3
<1> QED
  BY <1>2, <1>4, <1>5, <1>6 DEF ActiveOK

\* A round of the collector keeps the invariant.
LEMMA GcSound ==
  ASSUME DropsInstances = FALSE, NEW L, NEW A, NEW floor, Sound(L, A, floor), Gc
  PROVE  IInv'
<1>1. PICK W : W = Visited
  OBVIOUS
<1>2. PICK L1 : L1 = {s \in DOMAIN states : This(s) \in W}
  OBVIOUS
<1>3. PICK A1 : A1 = A \cap W
  OBVIOUS
<1>4. floor \in [A -> Nat] /\ program \in Programs
  BY DEF Sound, ActiveOK
<1>5. PICK floor1 : floor1 = [c \in A1 |-> floor[c]]
  OBVIOUS
<1>6. floor1 \in [A1 -> Nat] /\ \A c \in A1 : floor1[c] = floor[c]
  BY <1>3, <1>4, <1>5
<1>7. Sweeps(W, L1)
  BY <1>1, <1>2, GcSweeps
<1>8. L1 \subseteq DOMAIN states'
  BY <1>1, <1>7, SweptKept
<1>9. ObjectsOK(L1)'
  BY <1>1, <1>7, SweptObjects
<1>10. StatesOK(L1)' /\ (stack \in [1..MaxStack -> Values])' /\ roots' \subseteq L1 /\ static' \in Kept(L1)'
  BY <1>1, <1>7, SweptStates
<1>11. RunsOK(L1)'
  BY <1>1, <1>7, SweptRuns
<1>12. ActiveOK(A1, floor1)'
  BY <1>1, <1>3, <1>6, <1>7, SweptActive
<1>13. program' \in Programs
  BY <1>4, <1>7 DEF Sweeps
<1>14. Sound(L1, A1, floor1)'
  BY <1>8, <1>9, <1>10, <1>11, <1>12, <1>13 DEF Sound
<1> QED
  BY <1>14, IInvFrom

-----------------------------------------------------------------------------
(* The theorems.                                                           *)

LEMMA InitSound ==
  ASSUME Init
  PROVE  IInv
<1> DEFINE c == Context("Main", 0, 0, 0, This(1), <<>>)
           L == {1}
           A == {1}
           floor == [a \in {1} |-> 0]
<1>1. /\ program \in Programs /\ heap = <<c>> /\ states = <<State(1, 1, 0)>>
      /\ stack = [i \in 1..MaxStack |-> NUMBER] /\ roots = {1} /\ static = NUMBER
      /\ runs = <<[state |-> 1, ctx |-> 1, dest |-> 0, callee |-> <<0, 0>>, kind |-> "main"]>>
  BY DEF Init
<1>2. /\ WellFormed(program) /\ {1, 2, 3} \subseteq Registers /\ Registers \subseteq Nat \ {0} /\ MaxStack \in Nat
  BY <1>1, HeapAssumption
<1>3. /\ c.type = "context" /\ c.fn = "Main" /\ c.pc = 1 /\ c.parent = 0 /\ c.return = 0 /\ c.dest = 0
      /\ c \in [type : {"context"}, fn : {"Main"}, pc : {1}, parent : {0}, return : {0}, dest : {0},
                locals : [Registers -> {This(1), NUMBER}]]
      /\ c.locals[1] = This(1)
  BY <1>2 DEF Context
<1> HIDE DEF c
<1>4. DOMAIN heap = {1} /\ heap[1] = c /\ Len(heap) = 1 /\ DOMAIN states = {1} /\ states[1] = State(1, 1, 0)
  BY <1>1
<1>5. c # Freed
  BY <1>3 DEF Freed
<1>6. Contexts = {1} /\ Kept(L) = {NUMBER, 1, This(1)}
  BY <1>3, <1>4, <1>5 DEF Contexts, Kept
<1>7. ObjectsOK(L)
  <2>1. c \in [type : {"context"}, fn : DOMAIN program, pc : Nat \ {0}, parent : Contexts \cup {0},
               return : Contexts \cup {0}, dest : Nat, locals : [Registers -> Kept(L)]]
    BY <1>2, <1>3, <1>6 DEF WellFormed
  <2>2. Depth[c.fn] = 0
    BY <1>2, <1>3 DEF WellFormed
  <2>3. IsContext(c, L)
    BY <1>3, <2>1, <2>2 DEF IsContext
  <2>4. heap \in Seq({heap[o] : o \in DOMAIN heap})
    BY <1>1, <1>4
  <2> QED
    BY <1>4, <2>3, <2>4 DEF ObjectsOK, IsObject
<1>8. StatesOK(L)
  <2>1. State(1, 1, 0) \in States /\ State(1, 1, 0) # Freed
    BY <1>2, <1>4 DEF State, States, Freed
  <2>2. states \in Seq(States \cup {Freed})
    BY <1>1, <2>1
  <2>3. State(1, 1, 0).root = 1 /\ State(1, 1, 0).current = 1 /\ State(1, 1, 0).ptr = 0
    BY DEF State
  <2>4. gc_visit_stack(0) = {}
    BY DEF gc_visit_stack
  <2> QED
    BY <1>4, <1>6, <2>1, <2>2, <2>3, <2>4 DEF StatesOK
<1>9. PICK run : run = [state |-> 1, ctx |-> 1, dest |-> 0, callee |-> <<0, 0>>, kind |-> "main"]
  OBVIOUS
<1>10. /\ Len(runs) = 1 /\ 1..Len(runs) = {1} /\ runs[1] = run
       /\ run.state = 1 /\ run.ctx = 1 /\ run.kind = "main" /\ run \in Runs(L)
  BY <1>1, <1>6, <1>9 DEF Runs
<1>11. RunsOK(L)
  <2>1. runs \in Seq(Runs(L)) /\ runs # <<>>
    BY <1>1, <1>9, <1>10
  <2>2. State(1, 1, 0).running /\ State(1, 1, 0).current = 1
    BY DEF State
  <2>3. RunOK(1)
    BY <1>4, <1>10, <2>2 DEF RunOK
  <2> QED
    BY <1>1, <1>10, <2>1, <2>3 DEF RunsOK
<1>12. ActiveOK(A, floor)
  <2>1. CallerOK(1, A, floor)
    BY <1>3, <1>4 DEF CallerOK
  <2>2. Pushed(program["Main"])[1] = 0
    BY <1>1, <1>2, PushedStep DEF WellFormed, WellFormedBody
  <2>3. PushedAt(1) = 0
    BY <1>3, <1>4, <2>2 DEF PushedAt
  <2>4. State(1, 1, 0).ptr = 0
    BY DEF State
  <2>5. StackOK(1, A, floor)
    BY <1>4, <1>10, <2>3, <2>4 DEF StackOK
  <2> QED
    BY <1>6, <1>10, <2>1, <2>5 DEF ActiveOK
<1>13. stack \in [1..MaxStack -> Values]
  BY <1>1 DEF Values
<1>14. Sound(L, A, floor)
  BY <1>1, <1>4, <1>6, <1>7, <1>8, <1>11, <1>12, <1>13 DEF Sound
<1>15. L \in SUBSET DOMAIN states /\ A \in SUBSET DOMAIN heap /\ floor \in [A -> Nat]
  BY <1>4
<1> HIDE DEF L, A, floor
<1> QED
  BY <1>14, <1>15 DEF IInv

\* Every step keeps it.
LEMMA StepSound ==
  ASSUME DropsInstances = FALSE, IInv, [Next]_vars, CalleesKept'
  PROVE  IInv'
<1>1. PICK L \in SUBSET DOMAIN states, A \in SUBSET DOMAIN heap : \E floor \in [A -> Nat] : Sound(L, A, floor)
  BY DEF IInv
<1>2. PICK floor \in [A -> Nat] : Sound(L, A, floor)
  BY <1>1
<1>3. CASE Mov \/ MovNumber \/ MovFnc \/ NewObject \/ GetOuter \/ SetOuter \/ GetField \/ SetField
           \/ GetStatic \/ SetStatic \/ Push
  <2>1. Sound(L, A, floor)'
    BY <1>2, <1>3, MovSound, MovNumberSound, MovFncSound, NewObjectSound, GetOuterSound, SetOuterSound,
       GetFieldSound, SetFieldSound, GetStaticSound, SetStaticSound, PushSound
  <2> QED
    BY <2>1, IInvFrom
<1>4. CASE CallOwn
  BY <1>2, <1>4, CallOwnSound
<1>5. CASE CallOther
  BY <1>2, <1>5, CallOtherSound
<1>6. CASE NewInstance
  BY <1>2, <1>6, NewInstanceSound
<1>7. CASE ReturnOwn
  BY <1>2, <1>7, ReturnOwnSound
<1>8. CASE ReturnRun
  BY <1>2, <1>8, ReturnRunSound
<1>9. CASE Gc
  BY <1>2, <1>9, GcSound
<1>10. CASE UNCHANGED vars
  <2>1. /\ program' = program /\ heap' = heap /\ states' = states /\ stack' = stack
        /\ runs' = runs /\ roots' = roots /\ static' = static
    BY <1>10 DEF vars
  <2>2. Kept(L)' = Kept(L) /\ Contexts' = Contexts /\ Values' = Values /\ States' = States
    BY <2>1 DEF Kept, Contexts, Values, States, NUMBER, This, Freed
  <2>3. ObjectsOK(L)'
    BY <1>2, <2>1, <2>2 DEF Sound, ObjectsOK, IsObject, IsContext, IsFunctionRef, Instance, This, Freed
  <2>4. StatesOK(L)'
    BY Zenon, <1>2, <2>1, <2>2 DEF Sound, StatesOK, gc_visit_stack, Freed
  <2>5. RunsOK(L)'
    BY ZenonT(40), <1>2, <2>1, <2>2 DEF Sound, RunsOK, RunOK, Called, CalleeKept, Runs, Instance
  <2>6. ActiveOK(A, floor)'
    BY Zenon, <1>2, <2>1, <2>2 DEF Sound, ActiveOK, CallerOK, StackOK, PushedAfter, PushedAt, At
  <2>7. Sound(L, A, floor)'
    BY <1>2, <2>1, <2>2, <2>3, <2>4, <2>5, <2>6 DEF Sound
  <2> QED
    BY <2>7, IInvFrom
<1> QED
  BY <1>3, <1>4, <1>5, <1>6, <1>7, <1>8, <1>9, <1>10 DEF Next

\* While scripts do not let go of an instance whose functions or `this' they still
\* use, and as long as no callee has overwritten the variable that it was called
\* through, or that holds the instance it constructs, the invariant of the collector
\* holds: what is kept refers to nothing freed, and every run is reached from the
\* roots (garbage_collector.h, interpreter_dd.c).
THEOREM HeapStaysSound ==
  ASSUME DropsInstances = FALSE
  PROVE  Spec /\ []CalleesKept => []IInv
<1>1. Init => IInv
  BY InitSound
<1>2. IInv /\ [Next]_vars /\ CalleesKept' => IInv'
  BY StepSound
<1> QED
  BY <1>1, <1>2, PTL DEF Spec

\* In such a run no round of the collector frees what the running code can come to
\* use, in every program, with stacks and numbers of objects of every size
\* (garbage_collector.h:60-174, interpreter_dd.c:885-921, 979, object.c:131-174).
THEOREM NothingInUseIsEverFreed ==
  ASSUME DropsInstances = FALSE
  PROVE  Spec /\ []CalleesKept => []NothingInUseIsFreed
<1>1. IInv => NothingInUseIsFreed
  BY SoundIsSafe
<1> QED
  BY <1>1, HeapStaysSound, PTL

\* In such a run the arguments of every call are on the stack when it is made, though
\* all states share it and calls of other states leave theirs there
\* (interpreter_dd.c:881-921).
THEOREM ArgumentsAreAlwaysPushed ==
  ASSUME DropsInstances = FALSE
  PROVE  Spec /\ []CalleesKept => []ArgumentsPushed
<1>1. IInv => ArgumentsPushed
  BY SoundCalls
<1> QED
  BY <1>1, HeapStaysSound, PTL
=============================================================================
