---------------------------- MODULE HandlersProof ----------------------------
(***************************************************************************)
(* Proofs about Handlers for any programs whose code is well-formed: first *)
(* about the operators, then one lemma per action for each of the two      *)
(* invariants, IInv and Nested.                                            *)
(***************************************************************************)
EXTENDS Handlers, Facts, FiniteSetTheorems, TLAPS

-----------------------------------------------------------------------------
(* The greatest of finitely many numbers.                                  *)

LEMMA GreatestElement ==
  ASSUME NEW n \in Nat, NEW S \in SUBSET (1..n), S # {}
  PROVE  \E x \in S : \A y \in S : y <= x
<1> DEFINE T == {n - y : y \in S}
<1>1. T \in SUBSET Nat
  <2>1. \A y \in S : y \in 1..n
    OBVIOUS
  <2> QED
    BY <2>1
<1>2. T # {}
  OBVIOUS
<1>3. PICK z \in T : \A y \in T : z <= y
  BY <1>1, <1>2, LeastNatural
<1>4. PICK x \in S : z = n - x
  BY <1>3
<1>5. \A y \in S : n - y \in T
  OBVIOUS
<1>6. \A y \in S : n - x <= n - y
  BY <1>3, <1>4, <1>5
<1> HIDE DEF T
<1>7. \A y \in S : y \in 1..n
  OBVIOUS
<1>8. x \in Int /\ \A y \in S : y \in Int
  BY <1>7
<1> QED
  BY <1>6, <1>8

-----------------------------------------------------------------------------
(* Try statements around a position.                                       *)

CountBefore(ins, o, i) == Cardinality({j \in 1..(i - 1) : ins[j].op = o})

\* An instruction more, and one more counted if it is an o.
LEMMA CountNext ==
  ASSUME NEW ins, NEW o, NEW i \in Nat \ {0}
  PROVE  /\ CountBefore(ins, o, i) \in Nat
         /\ CountBefore(ins, o, i + 1) =
              CountBefore(ins, o, i) + IF ins[i].op = o THEN 1 ELSE 0
<1> DEFINE Before(k) == {j \in 1..(k - 1) : ins[j].op = o}
<1>1. IsFiniteSet(Before(i)) /\ Cardinality(Before(i)) \in Nat
  <2>1. IsFiniteSet(1..(i - 1)) /\ Before(i) \in SUBSET (1..(i - 1))
    BY FS_Interval
  <2> QED
    BY <2>1, FS_Subset, FS_CardinalityType
<1>2. Before(i + 1) = IF ins[i].op = o THEN Before(i) \cup {i} ELSE Before(i)
  <2>1. 1..((i + 1) - 1) = (1..(i - 1)) \cup {i}
    OBVIOUS
  <2> QED
    BY <2>1
<1>3. i \notin Before(i)
  OBVIOUS
<1>4. CountBefore(ins, o, i) = Cardinality(Before(i))
      /\ CountBefore(ins, o, i + 1) = Cardinality(Before(i + 1))
  BY DEF CountBefore
<1> HIDE DEF Before
<1>5. Cardinality(Before(i) \cup {i}) = Cardinality(Before(i)) + 1
  BY <1>1, <1>3, FS_AddElement
<1> QED
  BY <1>1, <1>2, <1>4, <1>5

\* set_catch opens a try, clear_catch closes one, others do neither.
LEMMA DepthNext ==
  ASSUME NEW ins, NEW i \in Nat \ {0}
  PROVE  /\ TryDepth(ins, i) \in Int
         /\ ins[i].op = "set_catch" => TryDepth(ins, i + 1) = TryDepth(ins, i) + 1
         /\ ins[i].op = "clear_catch" => TryDepth(ins, i + 1) = TryDepth(ins, i) - 1
         /\ ins[i].op \notin {"set_catch", "clear_catch"} => TryDepth(ins, i + 1) = TryDepth(ins, i)
<1> DEFINE Sets(k)   == CountBefore(ins, "set_catch", k)
           Clears(k) == CountBefore(ins, "clear_catch", k)
<1>1. Sets(i) \in Nat /\ Sets(i + 1) = Sets(i) + IF ins[i].op = "set_catch" THEN 1 ELSE 0
  BY CountNext
<1>2. Clears(i) \in Nat /\ Clears(i + 1) = Clears(i) + IF ins[i].op = "clear_catch" THEN 1 ELSE 0
  BY CountNext
<1>3. TryDepth(ins, i) = Sets(i) - Clears(i) /\ TryDepth(ins, i + 1) = Sets(i + 1) - Clears(i + 1)
  BY DEF TryDepth, CountBefore
<1> HIDE DEF Sets, Clears
<1> QED
  BY <1>1, <1>2, <1>3

\* A function begins outside of all tries.
LEMMA DepthFirst == \A ins : TryDepth(ins, 1) = 0
<1> SUFFICES ASSUME NEW ins PROVE TryDepth(ins, 1) = 0
  OBVIOUS
<1>1. \A o : {j \in 1..(1 - 1) : ins[j].op = o} = {}
  OBVIOUS
<1> QED
  BY <1>1, FS_EmptySet DEF TryDepth

-----------------------------------------------------------------------------
(* Callers.                                                                *)

\* Every caller was made before the context it called.
Linked(made, n) == \A c \in 1..n : made[c].return_context \in 0..(c - 1)

\* A context is among its callers, with the caller of each of them.
LEMMA CallersContain ==
  ASSUME NEW made, NEW n \in Nat, Linked(made, n), NEW c \in 1..n
  PROVE  /\ c \in Callers(made, c)
         /\ Callers(made, c) \subseteq 1..c
         /\ \A d \in Callers(made, c) :
              made[d].return_context # 0 => made[d].return_context \in Callers(made, c)
<1>1. c \in Callers(made, c) /\ Callers(made, c) \subseteq 1..c
  BY DEF Callers
<1>2. ASSUME NEW d \in Callers(made, c), made[d].return_context # 0
      PROVE  made[d].return_context \in Callers(made, c)
  <2>1. d \in 1..c /\ d \in 1..n /\ made[d].return_context \in 1..c
    BY <1>1, <1>2 DEF Linked
  <2>2. ASSUME NEW S \in SUBSET (1..c), c \in S,
               \A e \in S : made[e].return_context \in S \cup {0}
        PROVE  made[d].return_context \in S
    <3>1. d \in S
      BY <1>2, <2>2 DEF Callers
    <3> QED
      BY <1>2, <2>2, <3>1
  <2> QED
    BY <2>1, <2>2 DEF Callers
<1> QED
  BY <1>1, <1>2

\* The callers of a caller are callers.
LEMMA CallersOfCaller ==
  ASSUME NEW made, NEW n \in Nat, Linked(made, n), NEW c \in 1..n,
         NEW d \in Callers(made, c)
  PROVE  Callers(made, d) \subseteq Callers(made, c)
<1>1. d \in 1..c /\ d \in 1..n /\ 1..d \subseteq 1..c
  BY CallersContain
<1> SUFFICES ASSUME NEW e \in Callers(made, d),
                    NEW S \in SUBSET (1..c), c \in S,
                    \A x \in S : made[x].return_context \in S \cup {0}
             PROVE  e \in S
  BY <1>1 DEF Callers
<1>2. d \in S
  BY DEF Callers
<1> DEFINE T == S \cap (1..d)
<1>3. T \in SUBSET (1..d) /\ d \in T
  BY <1>1, <1>2
<1>4. ASSUME NEW x \in T PROVE made[x].return_context \in T \cup {0}
  <2>1. x \in 1..n /\ made[x].return_context \in S \cup {0}
    BY <1>1
  <2>2. made[x].return_context \in 0..(x - 1)
    BY <2>1 DEF Linked
  <2> QED
    BY <1>1, <2>1, <2>2
<1>5. e \in T
  BY <1>3, <1>4 DEF Callers
<1> QED
  BY <1>5

\* The context that c returns to has the other callers of c.
LEMMA CallersStep ==
  ASSUME NEW made, NEW n \in Nat, Linked(made, n), NEW c \in 1..n
  PROVE  /\ made[c].return_context = 0 => Callers(made, c) = {c}
         /\ made[c].return_context # 0 =>
              Callers(made, c) = {c} \cup Callers(made, made[c].return_context)
<1> DEFINE r == made[c].return_context
<1>0. c \in Callers(made, c) /\ Callers(made, c) \subseteq 1..c
  BY CallersContain
<1>1. CASE r = 0
  <2>1. {c} \in SUBSET (1..c) /\ \A e \in {c} : made[e].return_context \in {c} \cup {0}
    BY <1>1
  <2>2. \A d \in Callers(made, c) : d \in {c}
    BY <2>1 DEF Callers
  <2> QED
    BY <1>0, <1>1, <2>2
<1>2. CASE r # 0
  <2>1. r \in 1..n /\ r \in 1..c /\ r \in Callers(made, c) /\ 1..r \subseteq 1..c
    <3>1. r \in 0..(c - 1)
      BY DEF Linked
    <3>2. r \in Callers(made, c)
      BY <1>0, <1>2, CallersContain
    <3> QED
      BY <1>2, <3>1, <3>2
  <2> DEFINE S == {c} \cup Callers(made, r)
  <2>2. S \in SUBSET (1..c)
    BY <2>1, CallersContain
  <2>3. \A e \in S : made[e].return_context \in S \cup {0}
    BY <2>1, CallersContain
  <2>4. Callers(made, c) \subseteq S
    <3> HIDE DEF S
    <3>1. c \in S
      BY DEF S
    <3> QED
      BY <2>2, <2>3, <3>1 DEF Callers
  <2>5. Callers(made, r) \subseteq Callers(made, c)
    BY <2>1, CallersOfCaller
  <2> QED
    BY <1>0, <1>2, <2>4, <2>5
<1> QED
  BY <1>1, <1>2

\* Contexts made later change nothing.
LEMMA CallersKept ==
  ASSUME NEW made, NEW made2, NEW c \in Nat,
         \A e \in 1..c : made2[e].return_context = made[e].return_context
  PROVE  Callers(made2, c) = Callers(made, c)
<1>1. \A S \in SUBSET (1..c) : \A e \in S :
        made2[e].return_context = made[e].return_context
  OBVIOUS
<1> QED
  BY <1>1 DEF Callers

\* The search for a handler ends at a caller that has one, if there is one,
LEMMA CatcherFound ==
  ASSUME NEW c \in Nat,
         \E d \in Callers(contexts, c) : contexts[d].catches # <<>>
  PROVE  Catcher(c) \in Callers(contexts, c) /\ contexts[Catcher(c)].catches # <<>>
<1> DEFINE handling == {d \in Callers(contexts, c) : contexts[d].catches # <<>>}
<1>1. handling \in SUBSET (1..c) /\ handling # {}
  BY DEF Callers
<1>2. \E d \in handling : \A e \in handling : e <= d
  BY <1>1, GreatestElement
<1>3. Catcher(c) = CHOOSE d \in handling : \A e \in handling : e <= d
  BY <1>1 DEF Catcher
<1>4. Catcher(c) \in handling
  <2> HIDE DEF handling
  <2> QED
    BY <1>2, <1>3
<1> QED
  BY <1>4

\* and at NULL if there is none.
LEMMA CatcherNone ==
  ASSUME NEW c \in Nat,
         \A d \in Callers(contexts, c) : contexts[d].catches = <<>>
  PROVE  Catcher(c) = 0
<1>1. {d \in Callers(contexts, c) : contexts[d].catches # <<>>} = {}
  OBVIOUS
<1> QED
  BY <1>1 DEF Catcher

\* A context without handlers has the catcher of its caller.
LEMMA CatcherOfCaller ==
  ASSUME NEW n \in Nat, Linked(contexts, n), NEW c \in 1..n,
         contexts[c].catches = <<>>, contexts[c].return_context # 0
  PROVE  Catcher(c) = Catcher(contexts[c].return_context)
<1> DEFINE r           == contexts[c].return_context
           Handling(d) == {e \in Callers(contexts, d) : contexts[e].catches # <<>>}
           Newest(S)   == CHOOSE d \in S : \A e \in S : e <= d
<1>1. Callers(contexts, c) = {c} \cup Callers(contexts, r)
  BY CallersStep
<1>2. Handling(c) = Handling(r)
  BY <1>1
<1>3. /\ Catcher(c) = IF Handling(c) = {} THEN 0 ELSE Newest(Handling(c))
      /\ Catcher(r) = IF Handling(r) = {} THEN 0 ELSE Newest(Handling(r))
  BY DEF Catcher
<1> HIDE DEF Handling, Newest
<1> QED
  BY <1>2, <1>3

-----------------------------------------------------------------------------
(* What every state has.                                                   *)

LEMMA Types ==
  ASSUME ControlOK
  PROVE  /\ Len(contexts) \in Nat /\ Linked(contexts, Len(contexts))
         /\ DOMAIN contexts = 1..Len(contexts)
         /\ \A c \in 1..Len(contexts) :
              /\ contexts[c] \in Contexts
              /\ contexts[c].fn \in DOMAIN code
              /\ contexts[c].catches \in Seq(Nat)
              /\ contexts[c].return_context \in Nat
         /\ context \in 1..Len(contexts) /\ context \in Nat
         /\ Running.fn \in DOMAIN code
         /\ ip \in Nat /\ ip # 0
<1>1. contexts \in Seq(Contexts)
  BY DEF ControlOK
<1>2. /\ Len(contexts) \in Nat /\ DOMAIN contexts = 1..Len(contexts)
      /\ \A c \in 1..Len(contexts) : contexts[c] \in Contexts
  BY <1>1
<1>3. Linked(contexts, Len(contexts))
  BY DEF ControlOK, ContextsFormed, Linked
<1>4. context \in 1..Len(contexts) /\ ip \in 1..Len(code[contexts[context].fn])
  BY DEF ControlOK
<1>5. ip \in Nat /\ ip # 0
  BY <1>4
<1> QED
  BY <1>2, <1>3, <1>4, <1>5 DEF Contexts, Running

\* The functions of the program are as the compiler writes them.
LEMMA WellFormedCode ==
  ASSUME ControlOK
  PROVE  /\ "main" \in DOMAIN code
         /\ \A f \in DOMAIN code : WellFormedBody(code[f], DOMAIN code)
BY CodeAssumption DEF ControlOK, WellFormed

\* Where control can go from an instruction.
LEMMA BodyFacts ==
  ASSUME NEW ins, NEW functions, WellFormedBody(ins, functions), NEW i \in 1..Len(ins)
  PROVE  /\ Len(ins) \in Nat /\ 1 \in 1..Len(ins) /\ ins[1].op # "pop"
         /\ ins[i].op \in {"mark", "set_catch", "clear_catch", "pop", "call"} =>
              i + 1 \in 1..Len(ins) /\ ins[i + 1].op # "pop"
         /\ ins[i].op = "jmp" =>
              /\ ins[i].to \in 1..Len(ins) /\ ins[ins[i].to].op # "pop"
              /\ TryDepth(ins, ins[i].to) = TryDepth(ins, i)
         /\ ins[i].op = "set_catch" =>
              /\ ins[i].to \in 1..Len(ins) /\ ins[ins[i].to].op = "pop"
              /\ TryDepth(ins, ins[i].to) = TryDepth(ins, i) + 1
         /\ ins[i].op = "clear_catch" => TryDepth(ins, i) > 0
         /\ ins[i].op = "call" => ins[i].fn \in functions
BY DEF WellFormedBody

\* What the compiler guarantees of the instruction that runs, and of where it leads.
LEMMA InstructionFacts ==
  ASSUME ControlOK
  PROVE  LET ins == code[Running.fn]
         IN  /\ Instruction = ins[ip]
             /\ Len(ins) \in Nat /\ ip \in 1..Len(ins)
             /\ Instruction.op \in {"mark", "set_catch", "clear_catch", "pop", "call"} =>
                  ip + 1 \in 1..Len(ins) /\ ins[ip + 1].op # "pop"
             /\ Instruction.op = "jmp" =>
                  /\ Instruction.to \in 1..Len(ins) /\ ins[Instruction.to].op # "pop"
                  /\ TryDepth(ins, Instruction.to) = TryDepth(ins, ip)
             /\ Instruction.op = "set_catch" =>
                  /\ Instruction.to \in 1..Len(ins) /\ ins[Instruction.to].op = "pop"
                  /\ TryDepth(ins, Instruction.to) = TryDepth(ins, ip) + 1
             /\ Instruction.op = "clear_catch" => TryDepth(ins, ip) > 0
             /\ Instruction.op = "call" => Instruction.fn \in DOMAIN code
<1>1. Running.fn \in DOMAIN code /\ WellFormedBody(code[Running.fn], DOMAIN code)
  BY Types, WellFormedCode
<1>2. ip \in 1..Len(code[Running.fn])
  BY DEF ControlOK, Running
<1> QED
  BY <1>1, <1>2, BodyFacts DEF Instruction

\* A step that only moves control.
LEMMA Moves ==
  ASSUME IInv, UNCHANGED <<program, code, contexts>>,
         context' \in 1..Len(contexts),
         ip' \in 1..Len(code[contexts[context'].fn]),
         status' \in {"run", "returned", "thrown"}, FieldKnowsContext',
         stack' = IF status' = "run" /\ code[contexts[context'].fn][ip'].op = "pop" THEN 1 ELSE 0
  PROVE  IInv'
<1>1. ControlOK'
  BY DEF IInv, ControlOK, ContextsFormed, Contexts
<1>2. StackBalanced'
  BY DEF StackBalanced, At, Instruction, Running
<1> QED
  BY <1>1, <1>2 DEF IInv

-----------------------------------------------------------------------------
(* One lemma per action: it preserves IInv.                                *)

\* A step to another instruction of the running function, no catch block.
LEMMA Goes ==
  ASSUME IInv, status = "run",
         UNCHANGED <<program, code, contexts, context, current_context, status>>,
         ip' \in 1..Len(code[Running.fn]), code[Running.fn][ip'].op # "pop", stack' = 0
  PROVE  IInv'
<1>1. context \in 1..Len(contexts) /\ FieldKnowsContext'
  BY Types DEF IInv, ControlOK, FieldKnowsContext
<1> QED
  BY <1>1, Moves DEF Running

\* Outside of a handler's first instruction the stack is empty.
LEMMA NoPop ==
  ASSUME IInv, ~ At("pop")
  PROVE  stack = 0
BY DEF IInv, StackBalanced

\* A mark keeps the invariant IInv.
LEMMA DoMarkStep == ASSUME IInv, DoMark PROVE IInv'
<1>1. /\ status = "run" /\ Instruction.op = "mark" /\ ip' = ip + 1
      /\ UNCHANGED <<program, code, contexts, context, current_context, status, stack>>
  BY DEF DoMark, At
<1>2. ip' \in 1..Len(code[Running.fn]) /\ code[Running.fn][ip'].op # "pop"
  BY <1>1, InstructionFacts DEF IInv
<1>3. stack' = 0
  BY <1>1, NoPop DEF At
<1> QED
  BY <1>1, <1>2, <1>3, Goes

\* So does a jump,
LEMMA JumpStep == ASSUME IInv, Jump PROVE IInv'
<1>1. /\ status = "run" /\ Instruction.op = "jmp" /\ ip' = Instruction.to
      /\ UNCHANGED <<program, code, contexts, context, current_context, status, stack>>
  BY DEF Jump, At
<1>2. ip' \in 1..Len(code[Running.fn]) /\ code[Running.fn][ip'].op # "pop"
  BY <1>1, InstructionFacts DEF IInv
<1>3. stack' = 0
  BY <1>1, NoPop DEF At
<1> QED
  BY <1>1, <1>2, <1>3, Goes

\* and the pop that a handler begins with.
LEMMA PopStep == ASSUME IInv, Pop PROVE IInv'
<1>1. /\ status = "run" /\ Instruction.op = "pop" /\ ip' = ip + 1 /\ stack' = stack - 1
      /\ UNCHANGED <<program, code, contexts, context, current_context, status>>
  BY DEF Pop, At
<1>2. ip' \in 1..Len(code[Running.fn]) /\ code[Running.fn][ip'].op # "pop"
  BY <1>1, InstructionFacts DEF IInv
<1>3. stack' = 0
  BY <1>1 DEF IInv, StackBalanced, At
<1> QED
  BY <1>1, <1>2, <1>3, Goes

\* A step that only changes the handlers of the running context.
LEMMA Handles ==
  ASSUME IInv, status = "run",
         UNCHANGED <<program, code, context, status>>,
         ip' \in 1..Len(code[Running.fn]), code[Running.fn][ip'].op # "pop", stack' = 0,
         current_context' \in {current_context, context},
         contexts' \in Seq(Contexts), Len(contexts') = Len(contexts),
         \A c \in 1..Len(contexts) :
           /\ contexts'[c].fn = contexts[c].fn
           /\ contexts'[c].return_context = contexts[c].return_context
           /\ contexts'[c].return_address = contexts[c].return_address
           /\ c # context => contexts'[c].catches = contexts[c].catches,
         \A k \in 1..Len(contexts'[context].catches) :
           /\ contexts'[context].catches[k] \in 1..Len(code[Running.fn])
           /\ code[Running.fn][contexts'[context].catches[k]].op = "pop"
  PROVE  IInv'
<1>1. /\ context \in 1..Len(contexts) /\ DOMAIN contexts = 1..Len(contexts)
      /\ Linked(contexts, Len(contexts)) /\ Len(contexts) \in Nat
  BY Types DEF IInv
<1>2. ContextsFormed'
  <2> SUFFICES ASSUME NEW c \in 1..Len(contexts)
               PROVE  LET caller == contexts'[c].return_context
                          at     == contexts'[c].return_address
                      IN  /\ caller \in 0..(c - 1)
                          /\ caller # 0 => LET instructions == code[contexts'[caller].fn]
                                           IN  /\ at \in 1..Len(instructions)
                                               /\ instructions[at].op = "call"
                                               /\ instructions[at].fn = contexts'[c].fn
                          /\ \A k \in 1..Len(contexts'[c].catches) :
                               /\ contexts'[c].catches[k] \in 1..Len(code[contexts'[c].fn])
                               /\ code[contexts'[c].fn][contexts'[c].catches[k]].op = "pop"
    BY DEF ContextsFormed
  <2> DEFINE r == contexts[c].return_context
  <2>1. r \in 0..(c - 1) /\ (r # 0 => r \in 1..Len(contexts))
    BY <1>1 DEF Linked
  <2>2. r # 0 => contexts'[r].fn = contexts[r].fn
    BY <2>1
  <2>3. r # 0 => LET instructions == code[contexts[r].fn]
                     at           == contexts[c].return_address
                 IN  /\ at \in 1..Len(instructions)
                     /\ instructions[at].op = "call"
                     /\ instructions[at].fn = contexts[c].fn
    BY DEF IInv, ControlOK, ContextsFormed
  <2>4. \A k \in 1..Len(contexts'[c].catches) :
          /\ contexts'[c].catches[k] \in 1..Len(code[contexts'[c].fn])
          /\ code[contexts'[c].fn][contexts'[c].catches[k]].op = "pop"
    <3>1. CASE c = context
      BY <3>1 DEF Running
    <3>2. CASE c # context
      <4>1. \A k \in 1..Len(contexts[c].catches) :
              /\ contexts[c].catches[k] \in 1..Len(code[contexts[c].fn])
              /\ code[contexts[c].fn][contexts[c].catches[k]].op = "pop"
        BY DEF IInv, ControlOK, ContextsFormed
      <4>2. contexts'[c].catches = contexts[c].catches /\ contexts'[c].fn = contexts[c].fn
        BY <3>2
      <4> QED
        BY <4>1, <4>2
    <3> QED
      BY <3>1, <3>2
  <2> QED
    BY <2>1, <2>2, <2>3, <2>4
<1>3. FieldKnowsContext'
  BY <1>1 DEF IInv, ControlOK, FieldKnowsContext
<1>4. ControlOK'
  BY <1>1, <1>2, <1>3 DEF IInv, ControlOK, Contexts, Running
<1>5. StackBalanced'
  BY <1>1 DEF StackBalanced, At, Instruction, Running
<1> QED
  BY <1>4, <1>5 DEF IInv

\* A step that replaces the running context by one that differs in its handlers.
LEMMA Replaced ==
  ASSUME IInv, NEW new \in Contexts,
         contexts' = [contexts EXCEPT ![context] = new],
         new.fn = contexts[context].fn,
         new.return_context = contexts[context].return_context,
         new.return_address = contexts[context].return_address
  PROVE  /\ contexts' \in Seq(Contexts) /\ Len(contexts') = Len(contexts)
         /\ contexts'[context] = new
         /\ \A c \in 1..Len(contexts) :
              /\ contexts'[c].fn = contexts[c].fn
              /\ contexts'[c].return_context = contexts[c].return_context
              /\ contexts'[c].return_address = contexts[c].return_address
              /\ c # context => contexts'[c].catches = contexts[c].catches
<1>1. context \in 1..Len(contexts) /\ contexts \in Seq(Contexts)
  BY Types DEF IInv, ControlOK
<1>2. /\ contexts' \in Seq(Contexts) /\ Len(contexts') = Len(contexts)
      /\ contexts'[context] = new
      /\ \A c \in 1..Len(contexts) : c # context => contexts'[c] = contexts[c]
  BY <1>1
<1>3. \A c \in 1..Len(contexts) :
        /\ contexts'[c].fn = contexts[c].fn
        /\ contexts'[c].return_context = contexts[c].return_context
        /\ contexts'[c].return_address = contexts[c].return_address
        /\ c # context => contexts'[c].catches = contexts[c].catches
  BY <1>2
<1> QED
  BY <1>2, <1>3

\* set_catch pushes one address on the handlers of the running context.
LEMMA SetCatchDoes ==
  ASSUME IInv, SetCatch
  PROVE  LET s  == contexts[context].catches
             to == Instruction.to
         IN  /\ s \in Seq(Nat) /\ to \in 1..Len(code[Running.fn])
             /\ code[Running.fn][to].op = "pop"
             /\ contexts' \in Seq(Contexts) /\ Len(contexts') = Len(contexts)
             /\ \A c \in 1..Len(contexts) :
                  /\ contexts'[c].fn = contexts[c].fn
                  /\ contexts'[c].return_context = contexts[c].return_context
                  /\ contexts'[c].return_address = contexts[c].return_address
                  /\ c # context => contexts'[c].catches = contexts[c].catches
             /\ Len(contexts'[context].catches) = Len(s) + 1
             /\ contexts'[context].catches[Len(s) + 1] = to
             /\ \A k \in 1..Len(s) : contexts'[context].catches[k] = s[k]
<1> DEFINE s   == contexts[context].catches
           to  == Instruction.to
           new == [contexts[context] EXCEPT !.catches = Append(s, to), !.listed = TRUE]
<1>1. to \in 1..Len(code[Running.fn]) /\ to \in Nat /\ code[Running.fn][to].op = "pop"
  BY InstructionFacts DEF IInv, SetCatch, At
<1>2. /\ context \in 1..Len(contexts) /\ s \in Seq(Nat) /\ contexts \in Seq(Contexts)
      /\ contexts[context] \in Contexts
  BY Types DEF IInv, ControlOK
<1>3. /\ Append(s, to) \in Seq(Nat) /\ Len(Append(s, to)) = Len(s) + 1
      /\ Append(s, to)[Len(s) + 1] = to
      /\ \A k \in 1..Len(s) : Append(s, to)[k] = s[k]
  BY <1>1, <1>2
<1>4. contexts' = [contexts EXCEPT ![context] = new]
  BY <1>2 DEF SetCatch
<1>5. /\ new \in Contexts /\ new.fn = contexts[context].fn /\ new.catches = Append(s, to)
      /\ new.return_context = contexts[context].return_context
      /\ new.return_address = contexts[context].return_address
  BY <1>2, <1>3 DEF Contexts
<1> HIDE DEF new
<1>6. /\ contexts' \in Seq(Contexts) /\ Len(contexts') = Len(contexts)
      /\ contexts'[context] = new
      /\ \A c \in 1..Len(contexts) :
           /\ contexts'[c].fn = contexts[c].fn
           /\ contexts'[c].return_context = contexts[c].return_context
           /\ contexts'[c].return_address = contexts[c].return_address
           /\ c # context => contexts'[c].catches = contexts[c].catches
  BY <1>4, <1>5, Replaced
<1> QED
  BY <1>1, <1>2, <1>3, <1>5, <1>6

\* clear_catch pops one.
LEMMA ClearCatchDoes ==
  ASSUME IInv, ClearCatch, contexts[context].catches # <<>>
  PROVE  LET s == contexts[context].catches
         IN  /\ s \in Seq(Nat)
             /\ contexts' \in Seq(Contexts) /\ Len(contexts') = Len(contexts)
             /\ \A c \in 1..Len(contexts) :
                  /\ contexts'[c].fn = contexts[c].fn
                  /\ contexts'[c].return_context = contexts[c].return_context
                  /\ contexts'[c].return_address = contexts[c].return_address
                  /\ c # context => contexts'[c].catches = contexts[c].catches
             /\ Len(contexts'[context].catches) = Len(s) - 1
             /\ \A k \in 1..(Len(s) - 1) : contexts'[context].catches[k] = s[k]
<1> DEFINE s   == contexts[context].catches
           new == [contexts[context] EXCEPT !.catches = Front(s)]
<1>1. /\ context \in 1..Len(contexts) /\ s \in Seq(Nat) /\ contexts \in Seq(Contexts)
      /\ contexts[context] \in Contexts
  BY Types DEF IInv, ControlOK
<1>2. /\ Front(s) \in Seq(Nat) /\ Len(Front(s)) = Len(s) - 1
      /\ \A k \in 1..(Len(s) - 1) : Front(s)[k] = s[k]
  BY <1>1 DEF Front
<1>3. contexts' = [contexts EXCEPT ![context] = new]
  BY <1>1 DEF ClearCatch
<1>4. /\ new \in Contexts /\ new.fn = contexts[context].fn /\ new.catches = Front(s)
      /\ new.return_context = contexts[context].return_context
      /\ new.return_address = contexts[context].return_address
  BY <1>1, <1>2 DEF Contexts
<1> HIDE DEF new
<1>5. /\ contexts' \in Seq(Contexts) /\ Len(contexts') = Len(contexts)
      /\ contexts'[context] = new
      /\ \A c \in 1..Len(contexts) :
           /\ contexts'[c].fn = contexts[c].fn
           /\ contexts'[c].return_context = contexts[c].return_context
           /\ contexts'[c].return_address = contexts[c].return_address
           /\ c # context => contexts'[c].catches = contexts[c].catches
  BY <1>3, <1>4, Replaced
<1> QED
  BY <1>1, <1>2, <1>4, <1>5

\* set_catch keeps the invariant,
LEMMA SetCatchStep == ASSUME IInv, SetCatch PROVE IInv'
<1> DEFINE s  == contexts[context].catches
           to == Instruction.to
<1>1. /\ status = "run" /\ Instruction.op = "set_catch" /\ ip' = ip + 1
      /\ current_context' \in {current_context, context}
      /\ UNCHANGED <<program, code, context, status, stack>>
  BY DEF SetCatch, At
<1>2. ip' \in 1..Len(code[Running.fn]) /\ code[Running.fn][ip'].op # "pop"
  BY <1>1, InstructionFacts DEF IInv
<1>3. stack' = 0
  BY <1>1, NoPop DEF At
<1>4. \A k \in 1..Len(s) : s[k] \in 1..Len(code[Running.fn]) /\ code[Running.fn][s[k]].op = "pop"
  BY Types DEF IInv, ControlOK, ContextsFormed, Running
<1>5. ASSUME NEW k \in 1..Len(contexts'[context].catches)
      PROVE  /\ contexts'[context].catches[k] \in 1..Len(code[Running.fn])
             /\ code[Running.fn][contexts'[context].catches[k]].op = "pop"
  <2>1. s \in Seq(Nat) /\ Len(contexts'[context].catches) = Len(s) + 1
    BY SetCatchDoes
  <2>2. k \in 1..Len(s) \/ k = Len(s) + 1
    BY <2>1
  <2> QED
    BY <1>4, <2>2, SetCatchDoes
<1> QED
  BY <1>1, <1>2, <1>3, <1>5, SetCatchDoes, Handles

\* and so does clear_catch where there is a handler to clear.
LEMMA ClearCatchStep ==
  ASSUME IInv, ClearCatch, contexts[context].catches # <<>>
  PROVE  IInv'
<1> DEFINE s == contexts[context].catches
<1>1. /\ status = "run" /\ Instruction.op = "clear_catch" /\ ip' = ip + 1
      /\ UNCHANGED <<program, code, context, current_context, status, stack>>
  BY DEF ClearCatch, At
<1>2. ip' \in 1..Len(code[Running.fn]) /\ code[Running.fn][ip'].op # "pop"
  BY <1>1, InstructionFacts DEF IInv
<1>3. stack' = 0
  BY <1>1, NoPop DEF At
<1>4. \A k \in 1..Len(s) : s[k] \in 1..Len(code[Running.fn]) /\ code[Running.fn][s[k]].op = "pop"
  BY Types DEF IInv, ControlOK, ContextsFormed, Running
<1>5. ASSUME NEW k \in 1..Len(contexts'[context].catches)
      PROVE  /\ contexts'[context].catches[k] \in 1..Len(code[Running.fn])
             /\ code[Running.fn][contexts'[context].catches[k]].op = "pop"
  <2>1. s \in Seq(Nat) /\ Len(contexts'[context].catches) = Len(s) - 1
    BY ClearCatchDoes
  <2>2. k \in 1..(Len(s) - 1) /\ k \in 1..Len(s)
    BY <2>1
  <2> QED
    BY <1>4, <2>2, ClearCatchDoes
<1> QED
  BY <1>1, <1>2, <1>3, <1>5, ClearCatchDoes, Handles

\* A call adds a context without handlers that returns to the running one.
LEMMA DoCallDoes ==
  ASSUME IInv, DoCall
  PROVE  LET n   == Len(contexts)
             new == NewContext(Instruction.fn, context, ip)
         IN  /\ Instruction.op = "call" /\ Instruction = code[Running.fn][ip]
             /\ Instruction.fn \in DOMAIN code /\ ip \in 1..Len(code[Running.fn])
             /\ context' = n + 1 /\ current_context' = n + 1
             /\ contexts' \in Seq(Contexts) /\ Len(contexts') = n + 1
             /\ \A c \in 1..n : contexts'[c] = contexts[c]
             /\ contexts'[n + 1] = new
             /\ new.fn = Instruction.fn /\ new.catches = <<>>
             /\ new.return_context = context /\ new.return_address = ip
<1> DEFINE n   == Len(contexts)
           new == NewContext(Instruction.fn, context, ip)
<1>1. /\ Instruction.op = "call" /\ contexts' = Append(contexts, new)
      /\ context' = Len(contexts') /\ current_context' = Len(contexts')
  BY DEF DoCall, At
<1>2. n \in Nat /\ contexts \in Seq(Contexts) /\ context \in Nat /\ ip \in Nat
  BY Types DEF IInv, ControlOK
<1>3. /\ Instruction = code[Running.fn][ip] /\ ip \in 1..Len(code[Running.fn])
      /\ Instruction.fn \in DOMAIN code
  BY <1>1, InstructionFacts DEF IInv
<1>4. /\ new.fn = Instruction.fn /\ new.catches = <<>> /\ new.return_context = context
      /\ new.return_address = ip
      /\ new \in Contexts
  BY <1>2, <1>3 DEF NewContext, Contexts
<1> HIDE DEF new
<1>5. /\ contexts' \in Seq(Contexts) /\ Len(contexts') = n + 1
      /\ \A c \in 1..n : contexts'[c] = contexts[c]
      /\ contexts'[n + 1] = new
  BY <1>1, <1>2, <1>4
<1> QED
  BY <1>1, <1>3, <1>4, <1>5 DEF new

\* A call keeps the invariant.
LEMMA DoCallStep == ASSUME IInv, DoCall PROVE IInv'
<1> DEFINE n   == Len(contexts)
           new == NewContext(Instruction.fn, context, ip)
<1>1. status = "run" /\ ip' = 1 /\ UNCHANGED <<program, code, status, stack>>
  BY DEF DoCall, At
<1>2. stack' = 0
  BY <1>1, NoPop, DoCallDoes DEF At
<1>3. /\ n \in Nat /\ Linked(contexts, n) /\ context \in 1..n
      /\ \A c \in 1..n : contexts[c].return_context \in 0..(c - 1)
  BY Types DEF IInv, Linked
<1>4. /\ Instruction.op = "call" /\ Instruction = code[Running.fn][ip]
      /\ Instruction.fn \in DOMAIN code /\ ip \in 1..Len(code[Running.fn])
      /\ context' = n + 1 /\ current_context' = n + 1
  BY DoCallDoes
<1>5. /\ new.fn = Instruction.fn /\ new.catches = <<>>
      /\ new.return_context = context /\ new.return_address = ip
  BY DoCallDoes
<1> HIDE DEF new
<1>6. /\ contexts' \in Seq(Contexts) /\ Len(contexts') = n + 1
      /\ \A c \in 1..n : contexts'[c] = contexts[c]
      /\ contexts'[n + 1] = new
  BY DoCallDoes DEF new
<1>7. ContextsFormed'
  <2> SUFFICES ASSUME NEW c \in 1..(n + 1)
               PROVE  LET caller == contexts'[c].return_context
                          at     == contexts'[c].return_address
                      IN  /\ caller \in 0..(c - 1)
                          /\ caller # 0 => LET instructions == code[contexts'[caller].fn]
                                           IN  /\ at \in 1..Len(instructions)
                                               /\ instructions[at].op = "call"
                                               /\ instructions[at].fn = contexts'[c].fn
                          /\ \A k \in 1..Len(contexts'[c].catches) :
                               /\ contexts'[c].catches[k] \in 1..Len(code[contexts'[c].fn])
                               /\ code[contexts'[c].fn][contexts'[c].catches[k]].op = "pop"
    <3>1. code' = code /\ Len(contexts') = n + 1
      BY <1>1, <1>6
    <3> QED
      BY <3>1 DEF ContextsFormed
  <2>1. CASE c = n + 1
    <3>1. contexts'[c] = new /\ contexts'[context] = contexts[context]
      BY <1>3, <1>6, <2>1
    <3>2. context \in 0..(c - 1) /\ \A k \in 1..Len(<<>>) : FALSE
      BY <1>3, <2>1
    <3>3. /\ contexts'[c].return_context = context /\ contexts'[c].return_address = ip
          /\ contexts'[c].fn = Instruction.fn /\ contexts'[c].catches = <<>>
          /\ code[contexts'[context].fn] = code[Running.fn]
      BY <1>5, <3>1 DEF Running
    <3>4. LET instructions == code[contexts'[contexts'[c].return_context].fn]
          IN  /\ contexts'[c].return_address \in 1..Len(instructions)
              /\ instructions[contexts'[c].return_address].op = "call"
              /\ instructions[contexts'[c].return_address].fn = contexts'[c].fn
      BY <1>4, <3>3
    <3>5. contexts'[c].return_context \in 0..(c - 1)
      BY <3>2, <3>3
    <3>6. \A k \in 1..Len(contexts'[c].catches) :
            /\ contexts'[c].catches[k] \in 1..Len(code[contexts'[c].fn])
            /\ code[contexts'[c].fn][contexts'[c].catches[k]].op = "pop"
      BY <3>2, <3>3
    <3> QED
      BY <3>4, <3>5, <3>6
  <2>2. CASE c # n + 1
    <3>1. c \in 1..n /\ contexts'[c] = contexts[c]
      <4>1. n \in Nat
        BY <1>3
      <4>2. c \in 1..n
        BY <2>2, <4>1
      <4> QED
        BY <1>6, <4>2
    <3>2. contexts[c].return_context # 0 =>
            contexts'[contexts[c].return_context] = contexts[contexts[c].return_context]
      <4>1. contexts[c].return_context # 0 => contexts[c].return_context \in 1..n
        BY <1>3, <3>1
      <4> QED
        BY <1>6, <4>1
    <3>3. LET caller == contexts[c].return_context
              at     == contexts[c].return_address
          IN  /\ caller \in 0..(c - 1)
              /\ caller # 0 => LET instructions == code[contexts[caller].fn]
                               IN  /\ at \in 1..Len(instructions)
                                   /\ instructions[at].op = "call"
                                   /\ instructions[at].fn = contexts[c].fn
              /\ \A k \in 1..Len(contexts[c].catches) :
                   /\ contexts[c].catches[k] \in 1..Len(code[contexts[c].fn])
                   /\ code[contexts[c].fn][contexts[c].catches[k]].op = "pop"
      BY <3>1 DEF IInv, ControlOK, ContextsFormed
    <3> QED
      BY <3>1, <3>2, <3>3
  <2> QED
    BY <2>1, <2>2
<1>8. contexts'[context'].fn \in DOMAIN code /\ contexts'[context'].fn = Instruction.fn
  BY <1>4, <1>5, <1>6
<1>9. 1 \in 1..Len(code[Instruction.fn]) /\ code[Instruction.fn][1].op # "pop"
  <2>1. WellFormedBody(code[Instruction.fn], DOMAIN code)
    BY <1>4, WellFormedCode DEF IInv
  <2> QED
    BY <2>1 DEF WellFormedBody
<1>10. context' \in 1..Len(contexts')
  BY <1>3, <1>4, <1>6
<1>11. FieldKnowsContext'
  BY <1>4, <1>10 DEF FieldKnowsContext
<1>12. ControlOK'
  BY <1>1, <1>6, <1>7, <1>8, <1>9, <1>10, <1>11 DEF IInv, ControlOK, Contexts
<1>13. StackBalanced'
  BY <1>1, <1>2, <1>8, <1>9 DEF StackBalanced, At, Instruction, Running
<1> QED
  BY <1>12, <1>13 DEF IInv

\* Where a context that returns goes on.
LEMMA ReturnPlace ==
  ASSUME ControlOK, NEW c \in 1..Len(contexts), contexts[c].return_context # 0
  PROVE  LET r   == contexts[c].return_context
             at  == contexts[c].return_address
             ins == code[contexts[r].fn]
         IN  /\ r \in 1..Len(contexts) /\ r \in 1..c /\ r # c
             /\ at \in 1..Len(ins) /\ ins[at].op = "call" /\ ins[at].fn = contexts[c].fn
             /\ at + 1 \in 1..Len(ins) /\ ins[at + 1].op # "pop"
             /\ TryDepth(ins, at + 1) = TryDepth(ins, at)
<1> DEFINE r   == contexts[c].return_context
           at  == contexts[c].return_address
           ins == code[contexts[r].fn]
<1>1. Linked(contexts, Len(contexts)) /\ Len(contexts) \in Nat
  BY Types
<1>2. r \in 1..Len(contexts) /\ r \in 1..c /\ r # c
  BY <1>1 DEF Linked
<1>3. at \in 1..Len(ins) /\ ins[at].op = "call" /\ ins[at].fn = contexts[c].fn
  BY DEF ControlOK, ContextsFormed
<1>4. WellFormedBody(ins, DOMAIN code)
  BY <1>2, Types, WellFormedCode
<1>5. Len(ins) \in Nat /\ at + 1 \in 1..Len(ins) /\ ins[at + 1].op # "pop"
  BY <1>3, <1>4, BodyFacts
<1>6. at \in Nat \ {0}
  BY <1>3, <1>5
<1>7. TryDepth(ins, at + 1) = TryDepth(ins, at)
  BY <1>3, <1>6, DepthNext
<1> QED
  BY <1>2, <1>3, <1>5, <1>7

\* So does a return to the caller,
LEMMA DoReturnStep == ASSUME IInv, DoReturn PROVE IInv'
<1>1. /\ status = "run" /\ Instruction.op = "return"
      /\ contexts[context].return_context # 0
      /\ current_context' = context /\ context' = contexts[context].return_context
      /\ ip' = contexts[context].return_address + 1
      /\ UNCHANGED <<program, code, contexts, status, stack>>
  BY DEF DoReturn, At, Running
<1>2. stack' = 0
  BY <1>1, NoPop DEF At
<1>3. context \in 1..Len(contexts) /\ ControlOK
  BY Types DEF IInv
<1>4. /\ context' \in 1..Len(contexts) /\ ip' \in 1..Len(code[contexts[context'].fn])
      /\ code[contexts[context'].fn][ip'].op # "pop"
  BY <1>1, <1>3, ReturnPlace
<1>5. FieldKnowsContext'
  BY <1>1, <1>3 DEF FieldKnowsContext
<1>6. status' \in {"run", "returned", "thrown"}
  BY <1>1
<1> QED
  BY <1>1, <1>2, <1>4, <1>5, <1>6, Moves

\* and the one that ends the program.
LEMMA ReturnFromRunStep == ASSUME IInv, ReturnFromRun PROVE IInv'
<1>1. /\ status = "run" /\ Instruction.op = "return" /\ status' = "returned"
      /\ UNCHANGED <<program, code, ip, context, contexts, stack>>
  BY DEF ReturnFromRun, At
<1>2. stack' = 0
  BY <1>1, NoPop DEF At
<1>3. FieldKnowsContext'
  BY <1>1 DEF FieldKnowsContext
<1>4. context' \in 1..Len(contexts) /\ ip' \in 1..Len(code[contexts[context'].fn])
  BY <1>1 DEF IInv, ControlOK
<1> QED
  BY <1>1, <1>2, <1>3, <1>4, Moves

\* A throw keeps it, from whichever context the search for a handler begins.
LEMMA ThrowStep ==
  ASSUME IInv, status = "run", ~ At("pop"), NEW c \in 1..Len(contexts), ThrowFrom(c)
  PROVE  IInv'
<1> DEFINE catcher == Catcher(c)
<1>0. ControlOK /\ Linked(contexts, Len(contexts)) /\ Len(contexts) \in Nat /\ c \in Nat
  BY Types DEF IInv
<1>1. stack = 0
  BY NoPop
<1>2. CASE catcher # 0
  <2>1. /\ current_context' = catcher /\ context' = catcher
        /\ ip' = Last(contexts[catcher].catches)
        /\ stack' = stack + 1 /\ status' = status
        /\ UNCHANGED <<program, code, contexts>>
    BY <1>2 DEF ThrowFrom
  <2>2. catcher \in Callers(contexts, c) /\ contexts[catcher].catches # <<>>
    BY <1>0, <1>2, CatcherFound, CatcherNone
  <2>3. catcher \in 1..Len(contexts)
    BY <1>0, <2>2, CallersContain
  <2>4. contexts[catcher].catches \in Seq(Nat)
    BY <1>0, <2>3, Types
  <2>5. Len(contexts[catcher].catches) \in 1..Len(contexts[catcher].catches)
    BY <2>2, <2>4
  <2>6. /\ ip' \in 1..Len(code[contexts[catcher].fn])
        /\ code[contexts[catcher].fn][ip'].op = "pop"
    BY <1>0, <2>1, <2>3, <2>5 DEF ControlOK, ContextsFormed, Last
  <2>7. FieldKnowsContext'
    BY <2>1, <2>3 DEF FieldKnowsContext
  <2>8. stack' = 1 /\ status' \in {"run", "returned", "thrown"}
    BY <1>1, <2>1
  <2> QED
    BY <2>1, <2>3, <2>6, <2>7, <2>8, Moves
<1>3. CASE catcher = 0
  <2>1. status' = "thrown" /\ UNCHANGED <<program, code, ip, context, contexts, stack>>
    BY <1>3 DEF ThrowFrom
  <2>2. FieldKnowsContext'
    BY <2>1 DEF FieldKnowsContext
  <2>3. context' \in 1..Len(contexts) /\ ip' \in 1..Len(code[contexts[context'].fn])
    BY <2>1 DEF IInv, ControlOK
  <2> QED
    BY <1>1, <2>1, <2>2, <2>3, Moves
<1> QED
  BY <1>2, <1>3

\* This is the throw of a script
LEMMA DoThrowStep == ASSUME IInv, DoThrow PROVE IInv'
<1>1. status = "run" /\ ~ At("pop") /\ ThrowFrom(context) /\ context \in 1..Len(contexts)
  BY Types DEF IInv, DoThrow, At
<1> QED
  BY <1>1, ThrowStep

\* and the one of the interpreter.
LEMMA DoFaultStep == ASSUME IInv, DoFault PROVE IInv'
<1>1. /\ status = "run" /\ ~ At("pop") /\ ThrowFrom(current_context)
      /\ current_context \in 1..Len(contexts)
  BY DEF IInv, ControlOK, FieldKnowsContext, DoFault, At
<1> QED
  BY <1>1, ThrowStep

-----------------------------------------------------------------------------
(* One lemma per action: it preserves Nested.                              *)

LEMMA NestingOf ==
  ASSUME Nested, status = "run"
  PROVE  /\ HandledAt(context, ip)
         /\ \A c \in Callers(contexts, context) : contexts[c].return_context # 0 =>
              HandledAt(contexts[c].return_context, contexts[c].return_address)
         /\ \A c \in 1..Len(contexts) : \A k \in 1..Len(contexts[c].catches) :
              TryDepth(code[contexts[c].fn], contexts[c].catches[k]) = k
<1>1. \A place \in Places : HandledAt(place[1], place[2])
  BY DEF Nested, HandlersFollowNesting
<1>2. <<context, ip>> \in Places
  BY DEF Places
<1>3. \A c \in Callers(contexts, context) : contexts[c].return_context # 0 =>
        <<contexts[c].return_context, contexts[c].return_address>> \in Places
  BY DEF Places
<1> QED
  BY <1>1, <1>2, <1>3 DEF Nested, HandlersNested

\* Handlers follow the nesting of the tries if they do in the running context and in
\* each caller, at the call.
LEMMA NestingFrom ==
  ASSUME HandledAt(context, ip)',
         \A c \in Callers(contexts', context') : contexts'[c].return_context # 0 =>
           Len(contexts'[contexts'[c].return_context].catches)
             = TryDepth(code'[contexts'[contexts'[c].return_context].fn], contexts'[c].return_address)
  PROVE  HandlersFollowNesting'
BY DEF HandlersFollowNesting, Places, HandledAt

\* A step that only moves control, in the running context or to a caller of it.
LEMMA MovesNested ==
  ASSUME IInv, Nested, status = "run", UNCHANGED <<code, contexts>>,
         context' \in Callers(contexts, context),
         Len(contexts[context'].catches) = TryDepth(code[contexts[context'].fn], ip')
  PROVE  Nested'
<1>1. Callers(contexts, context') \subseteq Callers(contexts, context)
  BY Types, CallersOfCaller DEF IInv
<1>2. HandledAt(context, ip)'
  BY DEF HandledAt
<1>3. \A c \in Callers(contexts', context') : contexts'[c].return_context # 0 =>
        Len(contexts'[contexts'[c].return_context].catches)
          = TryDepth(code'[contexts'[contexts'[c].return_context].fn], contexts'[c].return_address)
  BY <1>1, NestingOf DEF HandledAt
<1>4. HandlersFollowNesting'
  BY <1>2, <1>3, NestingFrom
<1>5. HandlersNested'
  BY DEF Nested, HandlersNested
<1> QED
  BY <1>4, <1>5 DEF Nested

\* A step to another instruction of the running function.
LEMMA GoesNested ==
  ASSUME IInv, Nested, status = "run", UNCHANGED <<code, contexts, context>>,
         TryDepth(code[Running.fn], ip') = TryDepth(code[Running.fn], ip)
  PROVE  Nested'
<1>1. context \in Callers(contexts, context)
  BY Types, CallersContain DEF IInv
<1>2. Len(contexts[context].catches) = TryDepth(code[contexts[context].fn], ip)
  BY NestingOf DEF HandledAt
<1> QED
  BY <1>1, <1>2, MovesNested DEF Running

\* A mark keeps the handlers nested as the tries are,
LEMMA DoMarkNested == ASSUME IInv, Nested, DoMark PROVE Nested'
<1>1. /\ status = "run" /\ Instruction.op = "mark" /\ ip' = ip + 1
      /\ UNCHANGED <<code, contexts, context>>
  BY DEF DoMark, At
<1>2. TryDepth(code[Running.fn], ip + 1) = TryDepth(code[Running.fn], ip)
  BY <1>1, Types, DepthNext DEF IInv, Instruction
<1> QED
  BY <1>1, <1>2, GoesNested

\* a jump does, because it stays in its try,
LEMMA JumpNested == ASSUME IInv, Nested, Jump PROVE Nested'
<1>1. /\ status = "run" /\ Instruction.op = "jmp" /\ ip' = Instruction.to
      /\ UNCHANGED <<code, contexts, context>>
  BY DEF Jump, At
<1>2. TryDepth(code[Running.fn], Instruction.to) = TryDepth(code[Running.fn], ip)
  BY <1>1, InstructionFacts DEF IInv
<1> QED
  BY <1>1, <1>2, GoesNested

\* and a pop does.
LEMMA PopNested == ASSUME IInv, Nested, Pop PROVE Nested'
<1>1. /\ status = "run" /\ Instruction.op = "pop" /\ ip' = ip + 1
      /\ UNCHANGED <<code, contexts, context>>
  BY DEF Pop, At
<1>2. TryDepth(code[Running.fn], ip + 1) = TryDepth(code[Running.fn], ip)
  BY <1>1, Types, DepthNext DEF IInv, Instruction
<1> QED
  BY <1>1, <1>2, GoesNested

\* A return does: the caller's handlers are those of its call.
LEMMA ReturnNested == ASSUME IInv, Nested, DoReturn PROVE Nested'
<1>1. /\ status = "run" /\ contexts[context].return_context # 0
      /\ context' = contexts[context].return_context
      /\ ip' = contexts[context].return_address + 1
      /\ UNCHANGED <<code, contexts>>
  BY DEF DoReturn, At, Running
<1>2. context \in Callers(contexts, context) /\ context' \in Callers(contexts, context)
  BY <1>1, Types, CallersContain DEF IInv
<1>3. Len(contexts[context'].catches)
        = TryDepth(code[contexts[context'].fn], contexts[context].return_address)
  BY <1>1, <1>2, NestingOf DEF HandledAt
<1>4. TryDepth(code[contexts[context'].fn], ip')
        = TryDepth(code[contexts[context'].fn], contexts[context].return_address)
  BY <1>1, Types, ReturnPlace DEF IInv
<1> QED
  BY <1>1, <1>2, <1>3, <1>4, MovesNested

\* A throw does if the search begins where it would from the running context.
LEMMA ThrowNested ==
  ASSUME IInv, Nested, status = "run", NEW c \in 1..Len(contexts), ThrowFrom(c),
         Catcher(c) = Catcher(context)
  PROVE  Nested'
<1> DEFINE catcher == Catcher(c)
<1>0. Linked(contexts, Len(contexts)) /\ Len(contexts) \in Nat /\ context \in 1..Len(contexts)
      /\ context \in Nat
  BY Types DEF IInv
<1>1. CASE catcher # 0
  <2>1. /\ context' = catcher /\ ip' = Last(contexts[catcher].catches)
        /\ UNCHANGED <<code, contexts>>
    BY <1>1 DEF ThrowFrom
  <2>2. catcher \in Callers(contexts, context) /\ contexts[catcher].catches # <<>>
    BY <1>0, <1>1, CatcherFound, CatcherNone
  <2>3. catcher \in 1..Len(contexts) /\ contexts[catcher].catches \in Seq(Nat)
    BY <1>0, <2>2, CallersContain, Types DEF IInv
  <2>4. Len(contexts[catcher].catches) \in 1..Len(contexts[catcher].catches)
    BY <2>2, <2>3
  <2>5. TryDepth(code[contexts[catcher].fn], ip') = Len(contexts[catcher].catches)
    BY <2>1, <2>3, <2>4, NestingOf DEF Last
  <2> QED
    BY <2>1, <2>2, <2>5, MovesNested
<1>2. CASE catcher = 0
  <2>1. status' = "thrown" /\ UNCHANGED <<code, contexts>>
    BY <1>2 DEF ThrowFrom
  <2> QED
    BY <2>1 DEF Nested, HandlersFollowNesting, HandlersNested
<1> QED
  BY <1>1, <1>2

\* A step that only changes the handlers of the running context.
LEMMA HandlesNested ==
  ASSUME IInv, Nested, status = "run", UNCHANGED <<code, context>>,
         Len(contexts') = Len(contexts),
         \A c \in 1..Len(contexts) :
           /\ contexts'[c].fn = contexts[c].fn
           /\ contexts'[c].return_context = contexts[c].return_context
           /\ contexts'[c].return_address = contexts[c].return_address
           /\ c # context => contexts'[c].catches = contexts[c].catches,
         Len(contexts'[context].catches) = TryDepth(code[Running.fn], ip'),
         \A k \in 1..Len(contexts'[context].catches) :
           TryDepth(code[Running.fn], contexts'[context].catches[k]) = k
  PROVE  Nested'
<1>1. /\ context \in 1..Len(contexts) /\ Linked(contexts, Len(contexts))
      /\ Len(contexts) \in Nat /\ context \in Nat
  BY Types DEF IInv
<1>2. Callers(contexts', context) = Callers(contexts, context)
  <2>1. \A e \in 1..context : contexts'[e].return_context = contexts[e].return_context
    BY <1>1
  <2> QED
    BY <1>1, <2>1, CallersKept
<1>3. HandledAt(context, ip)'
  BY <1>1 DEF HandledAt, Running
<1>4. ASSUME NEW c \in Callers(contexts, context), contexts[c].return_context # 0
      PROVE  Len(contexts'[contexts'[c].return_context].catches)
               = TryDepth(code'[contexts'[contexts'[c].return_context].fn], contexts'[c].return_address)
  <2> DEFINE r == contexts[c].return_context
  <2>1. c \in 1..context /\ c \in 1..Len(contexts)
    BY <1>1, CallersContain
  <2>2. r \in 1..Len(contexts) /\ r # context
    BY <1>1, <1>4, <2>1 DEF Linked
  <2>3. HandledAt(r, contexts[c].return_address)
    BY <1>4, NestingOf
  <2>4. /\ contexts'[c].return_context = r
        /\ contexts'[c].return_address = contexts[c].return_address
        /\ contexts'[r].catches = contexts[r].catches /\ contexts'[r].fn = contexts[r].fn
    BY <2>1, <2>2
  <2> QED
    BY <2>3, <2>4 DEF HandledAt
<1>5. HandlersFollowNesting'
  <2>1. \A c \in Callers(contexts', context') : c \in 1..Len(contexts) /\ c \in Callers(contexts, context)
    BY <1>1, <1>2, CallersContain
  <2> QED
    BY <1>3, <1>4, <2>1, NestingFrom
<1>6. HandlersNested'
  <2>1. ASSUME NEW c \in 1..Len(contexts), NEW k \in 1..Len(contexts'[c].catches)
        PROVE  TryDepth(code[contexts'[c].fn], contexts'[c].catches[k]) = k
    <3>1. CASE c = context
      BY <1>1, <3>1 DEF Running
    <3>2. CASE c # context
      <4>1. contexts'[c].catches = contexts[c].catches /\ contexts'[c].fn = contexts[c].fn
        BY <3>2
      <4> QED
        BY <4>1 DEF Nested, HandlersNested
    <3> QED
      BY <3>1, <3>2
  <2> QED
    BY <2>1 DEF HandlersNested
<1> QED
  BY <1>5, <1>6 DEF Nested

\* set_catch adds the handler of the try that begins.
LEMMA SetCatchNested == ASSUME IInv, Nested, SetCatch PROVE Nested'
<1> DEFINE s   == contexts[context].catches
           ins == code[Running.fn]
<1>1. /\ status = "run" /\ Instruction.op = "set_catch" /\ ip' = ip + 1
      /\ UNCHANGED <<code, context>>
  BY DEF SetCatch, At
<1>2. s \in Seq(Nat) /\ Len(s) = TryDepth(ins, ip) /\ context \in 1..Len(contexts)
  BY <1>1, NestingOf, Types DEF IInv, HandledAt, Running
<1>3. /\ TryDepth(ins, ip') = TryDepth(ins, ip) + 1
      /\ TryDepth(ins, Instruction.to) = TryDepth(ins, ip) + 1
  BY <1>1, Types, DepthNext, InstructionFacts DEF IInv, Instruction
<1>4. Len(contexts'[context].catches) = TryDepth(ins, ip')
  BY <1>2, <1>3, SetCatchDoes
<1>5. ASSUME NEW k \in 1..Len(contexts'[context].catches)
      PROVE  TryDepth(ins, contexts'[context].catches[k]) = k
  <2>1. Len(contexts'[context].catches) = Len(s) + 1
    BY SetCatchDoes
  <2>2. k \in 1..Len(s) \/ k = Len(s) + 1
    BY <1>2, <2>1
  <2>3. CASE k \in 1..Len(s)
    BY <1>1, <1>2, <2>3, SetCatchDoes, NestingOf DEF Running
  <2>4. CASE k = Len(s) + 1
    BY <1>2, <1>3, <2>4, SetCatchDoes
  <2> QED
    BY <2>2, <2>3, <2>4
<1> QED
  BY <1>1, <1>4, <1>5, SetCatchDoes, HandlesNested

\* Where a clear_catch runs there is a handler to clear.
LEMMA ClearsAHandler ==
  ASSUME IInv, Nested, At("clear_catch")
  PROVE  contexts[context].catches # <<>>
<1>1. Len(contexts[context].catches) > 0
  BY NestingOf, InstructionFacts DEF IInv, At, HandledAt, Running
<1> QED
  BY <1>1

\* clear_catch takes away that of the try that ends.
LEMMA ClearCatchNested == ASSUME IInv, Nested, ClearCatch PROVE Nested'
<1> DEFINE s   == contexts[context].catches
           ins == code[Running.fn]
<1>1. /\ status = "run" /\ Instruction.op = "clear_catch" /\ ip' = ip + 1
      /\ UNCHANGED <<code, context>>
  BY DEF ClearCatch, At
<1>2. s \in Seq(Nat) /\ Len(s) = TryDepth(ins, ip) /\ context \in 1..Len(contexts)
  BY <1>1, NestingOf, Types DEF IInv, HandledAt, Running
<1>3. s # <<>>
  BY <1>1, ClearsAHandler DEF At
<1>4. TryDepth(ins, ip') = TryDepth(ins, ip) - 1
  BY <1>1, Types, DepthNext DEF IInv, Instruction
<1>5. Len(contexts'[context].catches) = Len(s) - 1
  BY <1>3, ClearCatchDoes
<1>6. ASSUME NEW k \in 1..Len(contexts'[context].catches)
      PROVE  TryDepth(ins, contexts'[context].catches[k]) = k
  <2>1. k \in 1..(Len(s) - 1) /\ k \in 1..Len(s)
    BY <1>2, <1>5
  <2>2. contexts'[context].catches[k] = s[k]
    BY <1>3, <2>1, ClearCatchDoes
  <2> QED
    BY <1>1, <1>2, <2>1, <2>2, NestingOf DEF Running
<1> QED
  BY <1>1, <1>2, <1>3, <1>4, <1>5, <1>6, ClearCatchDoes, HandlesNested

\* A call leaves the caller's handlers and begins without any.
LEMMA DoCallNested == ASSUME IInv, Nested, DoCall PROVE Nested'
<1> DEFINE n   == Len(contexts)
           new == NewContext(Instruction.fn, context, ip)
<1>1. status = "run" /\ ip' = 1 /\ code' = code
  BY DEF DoCall, At
<1>2. /\ n \in Nat /\ Linked(contexts, n) /\ context \in 1..n /\ context \in Nat
  BY Types DEF IInv
<1>3. /\ context' = n + 1
      /\ new.fn = Instruction.fn /\ new.catches = <<>>
      /\ new.return_context = context /\ new.return_address = ip
  BY DoCallDoes
<1> HIDE DEF new
<1>4. /\ Len(contexts') = n + 1 /\ contexts'[n + 1] = new
      /\ \A c \in 1..n : contexts'[c] = contexts[c]
  BY DoCallDoes DEF new
<1>5. Linked(contexts', n + 1)
  <2>1. ASSUME NEW c \in 1..(n + 1) PROVE contexts'[c].return_context \in 0..(c - 1)
    <3>1. CASE c = n + 1
      <4>1. contexts'[c].return_context = context
        BY <1>3, <1>4, <3>1
      <4>2. context \in 0..(c - 1)
        BY <1>2, <3>1
      <4> QED
        BY <4>1, <4>2
    <3>2. CASE c # n + 1
      <4>1. c \in 1..n /\ contexts'[c] = contexts[c]
        BY <1>2, <1>4, <3>2
      <4> QED
        BY <1>2, <4>1 DEF Linked
    <3> QED
      BY <3>1, <3>2
  <2> QED
    BY <2>1 DEF Linked
<1>6. Callers(contexts', context') = {n + 1} \cup Callers(contexts, context)
  <2>1. n + 1 \in Nat /\ n + 1 \in 1..(n + 1) /\ contexts'[n + 1].return_context = context
        /\ context # 0
    BY <1>2, <1>3, <1>4
  <2>2. Callers(contexts', n + 1) = {n + 1} \cup Callers(contexts', context)
    BY <1>5, <2>1, CallersStep
  <2>3. Callers(contexts', context) = Callers(contexts, context)
    <3>1. \A e \in 1..context : contexts'[e].return_context = contexts[e].return_context
      BY <1>2, <1>4
    <3> QED
      BY <1>2, <3>1, CallersKept
  <2> QED
    BY <1>3, <2>2, <2>3
<1>7. HandledAt(context, ip)'
  <2>1. Len(<<>>) = 0
    OBVIOUS
  <2> QED
    BY <1>1, <1>3, <1>4, <2>1, DepthFirst DEF HandledAt
<1>8. ASSUME NEW c \in Callers(contexts', context'), contexts'[c].return_context # 0
      PROVE  Len(contexts'[contexts'[c].return_context].catches)
               = TryDepth(code'[contexts'[contexts'[c].return_context].fn], contexts'[c].return_address)
  <2>1. CASE c = n + 1
    <3>1. /\ contexts'[c].return_context = context /\ contexts'[c].return_address = ip
          /\ contexts'[context] = contexts[context]
      BY <1>2, <1>3, <1>4, <2>1
    <3> QED
      BY <1>1, <3>1, NestingOf DEF HandledAt
  <2>2. CASE c \in Callers(contexts, context)
    <3>1. c \in 1..n /\ contexts'[c] = contexts[c]
      BY <1>2, <1>4, <2>2, CallersContain
    <3>2. contexts[c].return_context \in 1..n
      BY <1>2, <1>8, <3>1 DEF Linked
    <3>3. HandledAt(contexts[c].return_context, contexts[c].return_address)
      BY <1>1, <1>8, <2>2, <3>1, NestingOf
    <3> QED
      BY <1>1, <1>4, <3>1, <3>2, <3>3 DEF HandledAt
  <2> QED
    BY <1>6, <2>1, <2>2
<1>9. HandlersNested'
  <2>1. ASSUME NEW c \in 1..(n + 1), NEW k \in 1..Len(contexts'[c].catches)
        PROVE  TryDepth(code[contexts'[c].fn], contexts'[c].catches[k]) = k
    <3>1. CASE c = n + 1
      <4>1. contexts'[c].catches = <<>> /\ Len(<<>>) = 0
        BY <1>3, <1>4, <3>1
      <4> QED
        BY <4>1
    <3>2. CASE c # n + 1
      <4>1. c \in 1..n /\ contexts'[c] = contexts[c]
        BY <1>2, <1>4, <3>2
      <4> QED
        BY <4>1 DEF Nested, HandlersNested
    <3> QED
      BY <3>1, <3>2
  <2> QED
    BY <1>1, <1>4, <2>1 DEF HandlersNested
<1> QED
  BY <1>7, <1>8, <1>9, NestingFrom DEF Nested

-----------------------------------------------------------------------------
(* The invariants                                                          *)

LEMMA InitInv == Init => IInv /\ Nested /\ StaleHasNoHandlers
<1> SUFFICES ASSUME Init PROVE IInv /\ Nested /\ StaleHasNoHandlers
  OBVIOUS
<1> DEFINE first == NewContext("main", 0, 0)
<1>1. /\ program \in Programs /\ code = Code[program] /\ ip = 1 /\ context = 1
      /\ current_context = 1 /\ contexts = <<first>> /\ stack = 0 /\ status = "run"
  BY DEF Init
<1>2. "main" \in DOMAIN code /\ WellFormedBody(code["main"], DOMAIN code)
  BY <1>1, CodeAssumption DEF WellFormed
<1>3. /\ Len(code["main"]) \in Nat /\ 1 \in 1..Len(code["main"])
      /\ code["main"][1].op # "pop"
  BY <1>2 DEF WellFormedBody
<1>4. /\ first.fn = "main" /\ first.catches = <<>> /\ first.return_context = 0
      /\ first \in Contexts
  BY <1>2 DEF NewContext, Contexts
<1> HIDE DEF first
<1>5. /\ contexts \in Seq(Contexts) /\ Len(contexts) = 1 /\ contexts[1] = first
      /\ 1..Len(contexts) = {1} /\ Len(<<>>) = 0
  BY <1>1, <1>4
<1>6. ContextsFormed
  BY <1>4, <1>5 DEF ContextsFormed
<1>7. ControlOK
  BY <1>1, <1>3, <1>4, <1>5, <1>6 DEF ControlOK, FieldKnowsContext
<1>8. StackBalanced
  <2>1. Instruction = code["main"][1]
    BY <1>1, <1>4, <1>5 DEF Instruction, Running
  <2>2. ~ At("pop")
    BY <1>3, <2>1 DEF At
  <2> QED
    BY <1>1, <2>2 DEF StackBalanced
<1>9. Callers(contexts, 1) = {1}
  <2>1. Linked(contexts, 1) /\ contexts[1].return_context = 0
    BY <1>4, <1>5 DEF Linked
  <2>2. 1 \in Nat /\ 1 \in 1..1
    OBVIOUS
  <2> QED
    BY <2>1, <2>2, CallersStep
<1>10. \A place \in Places : place = <<1, 1>>
  BY <1>1, <1>4, <1>5, <1>9 DEF Places
<1>11. HandlersFollowNesting
  BY <1>4, <1>5, <1>10, DepthFirst DEF HandlersFollowNesting, HandledAt
<1>12. HandlersNested
  BY <1>4, <1>5 DEF HandlersNested
<1> QED
  BY <1>1, <1>7, <1>8, <1>11, <1>12 DEF IInv, Nested, StaleHasNoHandlers

\* A step in which nothing changes keeps both invariants.
LEMMA Stutter == IInv /\ Nested /\ UNCHANGED vars => IInv' /\ Nested'
<1> SUFFICES ASSUME IInv, Nested, UNCHANGED vars PROVE IInv' /\ Nested'
  OBVIOUS
<1>1. ContextsFormed' /\ FieldKnowsContext'
  BY DEF vars, IInv, ControlOK, ContextsFormed, FieldKnowsContext
<1>2. IInv'
  BY <1>1 DEF vars, IInv, ControlOK, Contexts, StackBalanced, At, Instruction, Running
<1>3. Nested'
  BY DEF vars, Nested, HandlersFollowNesting, HandlersNested, Places, HandledAt
<1> QED
  BY <1>2, <1>3

\* Every step does, as long as throws begin at the running context.
LEMMA Step ==
  IInv /\ Nested /\ ThrowsFromRunningContext /\ [Next]_vars => IInv' /\ Nested'
<1> SUFFICES ASSUME IInv, Nested, ThrowsFromRunningContext, [Next]_vars
             PROVE  IInv' /\ Nested'
  OBVIOUS
<1>1. CASE DoMark
  BY <1>1, DoMarkStep, DoMarkNested
<1>2. CASE Jump
  BY <1>2, JumpStep, JumpNested
<1>3. CASE SetCatch
  BY <1>3, SetCatchStep, SetCatchNested
<1>4. CASE ClearCatch
  <2>1. contexts[context].catches # <<>>
    BY <1>4, ClearsAHandler DEF ClearCatch
  <2> QED
    BY <1>4, <2>1, ClearCatchStep, ClearCatchNested
<1>5. CASE Pop
  BY <1>5, PopStep, PopNested
<1>6. CASE DoCall
  BY <1>6, DoCallStep, DoCallNested
<1>7. CASE DoReturn
  BY <1>7, DoReturnStep, ReturnNested
<1>8. CASE ReturnFromRun
  <2>1. Nested'
    <3>1. status' = "returned" /\ UNCHANGED <<code, contexts>>
      BY <1>8 DEF ReturnFromRun
    <3> QED
      BY <3>1 DEF Nested, HandlersFollowNesting, HandlersNested
  <2> QED
    BY <1>8, <2>1, ReturnFromRunStep
<1>9. CASE DoThrow
  <2>1. status = "run" /\ ThrowFrom(context) /\ context \in 1..Len(contexts)
    BY <1>9, Types DEF IInv, DoThrow, At
  <2> QED
    BY <1>9, <2>1, DoThrowStep, ThrowNested
<1>10. CASE DoFault
  <2>1. /\ status = "run" /\ ThrowFrom(current_context)
        /\ current_context \in 1..Len(contexts)
        /\ Catcher(current_context) = Catcher(context)
    BY <1>10 DEF IInv, ControlOK, FieldKnowsContext, ThrowsFromRunningContext, DoFault, At
  <2> QED
    BY <1>10, <2>1, DoFaultStep, ThrowNested
<1>11. CASE Ended
  BY <1>11, Stutter DEF Ended
<1>12. CASE UNCHANGED vars
  BY <1>12, Stutter
<1> QED
  BY <1>1, <1>2, <1>3, <1>4, <1>5, <1>6, <1>7, <1>8, <1>9, <1>10, <1>11, <1>12 DEF Next

-----------------------------------------------------------------------------
(* Which programs throw from the running context.                          *)

\* A call that is waited for is one of the code.
LEMMA Called ==
  ASSUME ControlOK, NEW c \in 1..Len(contexts), contexts[c].return_context # 0
  PROVE  \E f \in DOMAIN code : \E i \in 1..Len(code[f]) :
           code[f][i].op = "call" /\ code[f][i].fn = contexts[c].fn
<1> DEFINE r == contexts[c].return_context
<1>1. /\ r \in 1..Len(contexts)
      /\ contexts[c].return_address \in 1..Len(code[contexts[r].fn])
      /\ code[contexts[r].fn][contexts[c].return_address].op = "call"
      /\ code[contexts[r].fn][contexts[c].return_address].fn = contexts[c].fn
  BY ReturnPlace
<1>2. contexts[r].fn \in DOMAIN code
  BY <1>1, Types
<1> QED
  BY <1>1, <1>2

\* Where functions return outside of their tries, a context that is left has no
\* handlers.
LEMMA StaleStep ==
  IInv /\ Nested /\ ReturnsOutsideTries(code) /\ StaleHasNoHandlers /\ [Next]_vars
    => StaleHasNoHandlers'
<1> SUFFICES ASSUME IInv, Nested, ReturnsOutsideTries(code), StaleHasNoHandlers, [Next]_vars,
                    status' = "run", current_context' # context'
             PROVE  contexts'[current_context'].catches = <<>>
  BY DEF StaleHasNoHandlers
<1>1. CASE UNCHANGED <<contexts, context, current_context, status>>
  BY <1>1 DEF StaleHasNoHandlers
<1>2. CASE SetCatch \/ ClearCatch
  <2>1. /\ status = "run" /\ context' = context /\ current_context' = current_context
        /\ context \in 1..Len(contexts) /\ current_context \in 1..Len(contexts)
    BY <1>2, Types DEF IInv, ControlOK, FieldKnowsContext, SetCatch, ClearCatch, At
  <2>2. contexts[current_context].catches = <<>>
    BY <2>1 DEF StaleHasNoHandlers
  <2>3. CASE SetCatch
    BY <2>1, <2>2, <2>3, SetCatchDoes
  <2>4. CASE ClearCatch
    BY <2>1, <2>2, <2>4, ClearsAHandler, ClearCatchDoes DEF ClearCatch
  <2> QED
    BY <1>2, <2>3, <2>4
<1>3. CASE DoCall
  BY <1>3, DoCallDoes
<1>4. CASE DoReturn
  <2>1. /\ status = "run" /\ Instruction.op = "return"
        /\ contexts[context].return_context # 0
        /\ current_context' = context /\ contexts' = contexts
    BY <1>4 DEF DoReturn, At, Running
  <2>2. /\ context \in 1..Len(contexts) /\ contexts[context].catches \in Seq(Nat)
        /\ Running.fn \in DOMAIN code
    BY Types DEF IInv
  <2>3. Instruction = code[Running.fn][ip] /\ ip \in 1..Len(code[Running.fn])
    BY InstructionFacts DEF IInv
  <2>4. TryDepth(code[Running.fn], ip) = 0
    BY <2>1, <2>2, <2>3, Called DEF IInv, ReturnsOutsideTries, Running
  <2>5. Len(contexts[context].catches) = 0
    BY <2>1, <2>4, NestingOf DEF HandledAt, Running
  <2> QED
    BY <2>1, <2>2, <2>5
<1>5. CASE DoThrow \/ DoFault
  <2>1. PICK c : ThrowFrom(c)
    BY <1>5 DEF DoThrow, DoFault
  <2> QED
    BY <2>1 DEF ThrowFrom
<1> QED
  BY <1>1, <1>2, <1>3, <1>4, <1>5
     DEF Next, DoMark, Jump, Pop, ReturnFromRun, Ended, vars

\* Then a throw that begins at a context that was left finds the same handler.
LEMMA ThrowsRight ==
  HandlersInv => ThrowsFromRunningContext
<1> SUFFICES ASSUME HandlersInv, At("fault")
             PROVE  Catcher(current_context) = Catcher(context)
  BY DEF ThrowsFromRunningContext
<1>1. Faults(code)
  BY Types, InstructionFacts DEF HandlersInv, IInv, At, Faults
<1>2. CASE current_context = context
  BY <1>2
<1>3. CASE current_context # context
  <2>1. /\ current_context \in 1..Len(contexts)
        /\ contexts[current_context].return_context = context
        /\ contexts[current_context].catches = <<>>
    BY <1>1, <1>3 DEF HandlersInv, IInv, ControlOK, FieldKnowsContext, StaleHasNoHandlers, At
  <2>2. /\ Len(contexts) \in Nat /\ Linked(contexts, Len(contexts)) /\ context # 0
    BY Types DEF HandlersInv, IInv
  <2> QED
    BY <2>1, <2>2, CatcherOfCaller
<1> QED
  BY <1>2, <1>3

-----------------------------------------------------------------------------
(* The theorems                                                            *)

\* As long as every instruction that throws finds the handler of the function
\* that executes it, the handlers of all active contexts are those of the try
\* statements around them, and the stack holds an exception exactly when a catch
\* block is about to take it (OP_SET_CATCH, OP_CLEAR_CATCH, OP_CALL, OP_RETURN,
\* interpreter_throw_exception_from_str).
THEOREM HandlersFollow ==
  Spec /\ []ThrowsFromRunningContext => []HandlersFollowNesting /\ []StackBalanced
<1>1. Init => IInv /\ Nested
  BY InitInv
<1>2. IInv /\ Nested /\ ThrowsFromRunningContext /\ [Next]_vars => IInv' /\ Nested'
  BY Step
<1>3. IInv /\ Nested => HandlersFollowNesting /\ StackBalanced
  BY DEF IInv, Nested
<1> QED
  BY <1>1, <1>2, <1>3, PTL DEF Spec

\* If no function that is called returns from inside a try statement, or nothing
\* but throw throws, then HandlersInv holds: besides the running context, the
\* state (current_context) only ever holds one that has returned without handlers.
THEOREM Invariance ==
  ASSUME \A p \in Programs : Faults(Code[p]) => ReturnsOutsideTries(Code[p])
  PROVE  Spec => []HandlersInv
<1>1. Init => HandlersInv
  BY InitInv DEF HandlersInv
<1>2. HandlersInv /\ [Next]_vars => HandlersInv'
  <2> SUFFICES ASSUME HandlersInv, [Next]_vars PROVE HandlersInv'
    OBVIOUS
  <2>1. IInv' /\ Nested'
    BY ThrowsRight, Step DEF HandlersInv
  <2>2. code' = code
    <3>1. code' = code \/ \E c : ThrowFrom(c)
      BY DEF Next, vars, DoMark, Jump, SetCatch, ClearCatch, Pop, DoCall, DoReturn,
             ReturnFromRun, DoThrow, DoFault, Ended
    <3> QED
      BY <3>1 DEF ThrowFrom
  <2>3. Faults(code) => ReturnsOutsideTries(code)
    BY DEF HandlersInv, IInv, ControlOK
  <2>4. Faults(code) => StaleHasNoHandlers'
    BY <2>3, StaleStep DEF HandlersInv
  <2> QED
    BY <2>1, <2>2, <2>4 DEF HandlersInv
<1> QED
  BY <1>1, <1>2, PTL DEF Spec

\* In such programs an instruction that throws without storing its context in the
\* state (OP_DIV and the others, interpreter_dd.c:439-447) finds the same handler
\* as a throw statement in its place.
THEOREM FaultsFindTheirHandler ==
  ASSUME \A p \in Programs : Faults(Code[p]) => ReturnsOutsideTries(Code[p])
  PROVE  Spec => []ThrowsFromRunningContext
<1>1. Spec => []HandlersInv
  BY Invariance
<1> QED
  BY <1>1, ThrowsRight, PTL

\* In such programs every active context has the handlers of the try statements
\* around the place where it is (OP_SET_CATCH, OP_CLEAR_CATCH), also after
\* exceptions that ended calls; so arraylist_pop never gets an empty list.
THEOREM NestingFollowed ==
  ASSUME \A p \in Programs : Faults(Code[p]) => ReturnsOutsideTries(Code[p])
  PROVE  Spec => []HandlersFollowNesting
<1>1. Spec => []HandlersInv
  BY Invariance
<1>2. HandlersInv => HandlersFollowNesting
  BY DEF HandlersInv, Nested
<1> QED
  BY <1>1, <1>2, PTL

\* In such programs the exception that a throw pushes is taken by a catch block at
\* once, and by nothing else (interpreter_dd.c:1196, OP_POP).
THEOREM Balanced ==
  ASSUME \A p \in Programs : Faults(Code[p]) => ReturnsOutsideTries(Code[p])
  PROVE  Spec => []StackBalanced
<1>1. Spec => []HandlersInv
  BY Invariance
<1>2. HandlersInv => StackBalanced
  BY DEF HandlersInv, IInv
<1> QED
  BY <1>1, <1>2, PTL
==============================================================================
