--------------------------- MODULE CallStatesProof ---------------------------
(***************************************************************************)
(* Proofs about CallStates for any threads, objects and clones, and        *)
(* whatever states the threads share: the inductive invariant IInv and     *)
(* what follows from it.                                                   *)
(***************************************************************************)
EXTENDS CallStates, SequenceTheorems, TLAPS

\* The types of what a step reads, one by one.
LEMMA Types ==
  ASSUME TypeOK, NEW t \in Threads
  PROVE  /\ Len(runs[t]) \in Nat
         /\ runs[t] \in Seq(Activations)
         /\ \A i \in 1..Len(runs[t]) :
              /\ runs[t][i] \in Activations
              /\ runs[t][i].state \in States /\ runs[t][i].call \in Calls
              /\ runs[t][i].cloned \in BOOLEAN /\ runs[t][i].found \in Calls
         /\ callee[t] \in Activations
         /\ callee[t].state \in States /\ callee[t].call \in Calls
         /\ callee[t].cloned \in BOOLEAN /\ callee[t].found \in Calls
         /\ Reach[t] \in SUBSET States
<1>1. runs[t] \in Seq(Activations) /\ callee[t] \in Activations
  BY DEF TypeOK
<1>2. Len(runs[t]) \in Nat /\ \A i \in 1..Len(runs[t]) : runs[t][i] \in Activations
  BY <1>1
<1>3. \A a \in Activations : /\ a.state \in States /\ a.call \in Calls
                             /\ a.cloned \in BOOLEAN /\ a.found \in Calls
  BY DEF Activations
<1>4. Reach[t] \in SUBSET States
  BY CallStatesAssumption
<1> QED
  BY <1>1, <1>2, <1>3, <1>4

\* A thread that is not done has an activation on top.
LEMMA TopTypes ==
  ASSUME TypeOK, StacksFormed, NEW t \in Threads, pc[t] # "done"
  PROVE  /\ Len(runs[t]) \in Nat /\ Len(runs[t]) > 0 /\ Len(runs[t]) \in 1..Len(runs[t])
         /\ Top(t) \in Activations /\ Self(t) \in States
         /\ Top(t).call \in Calls /\ Top(t).cloned \in BOOLEAN /\ Top(t).found \in Calls
         /\ RunsIn(t, Len(runs[t]), Self(t))
<1>1. Len(runs[t]) \in Nat /\ Len(runs[t]) # 0
  BY Types DEF StacksFormed
<1>2. Len(runs[t]) \in 1..Len(runs[t])
  BY <1>1
<1> QED
  BY <1>1, <1>2, Types DEF Top, Self, RunsIn

\* Two threads are not about to run, or just back from, one unshared state.
LEMMA PendingAlone ==
  ASSUME IInv, NEW t \in Threads, NEW u \in Threads, Pending(t), Pending(u),
         callee[t].state = callee[u].state, Unshared(callee[t].state)
  PROVE  t = u
<1> DEFINE s == callee[t].state
<1>1. ASSUME NEW v \in Threads, Pending(v), callee[v].state = s PROVE v \in CallersOf(s)
  <2>1. s \in Reach[v]
    BY <1>1 DEF IInv, StacksFormed
  <2>2. ASSUME v = s PROVE FALSE
    <3>1. RunsIn(v, 1, s) /\ 1 \in 1..Len(runs[v])
      BY <1>1, <2>2, TopTypes DEF IInv, StacksFormed, RunsIn, Pending
    <3>2. s \in States
      BY Types DEF IInv
    <3>3. is_running[s]
      BY <3>1, <3>2 DEF IInv, RunningFlagExact
    <3> QED
      BY <3>3 DEF IInv, PendingIsFree
  <2> QED
    BY <2>1, <2>2 DEF CallersOf
<1> QED
  BY <1>1 DEF Unshared

\* Nobody runs an unshared state that is some thread's pending callee.
LEMMA PendingNotRun ==
  ASSUME IInv, NEW t \in Threads, Pending(t), Unshared(callee[t].state),
         NEW u \in Threads, NEW i \in 1..Len(runs[u])
  PROVE  runs[u][i].state # callee[t].state
<1>1. ~ is_running[callee[t].state] /\ callee[t].state \in States
  BY Types DEF IInv, PendingIsFree
<1> QED
  BY <1>1 DEF IInv, RunningFlagExact, RunsIn

\* An unshared state is not both run and another thread's pending callee, nor
\* run twice.
LEMMA RunAlone ==
  ASSUME IInv, NEW t \in Threads, NEW i \in 1..Len(runs[t]), Unshared(runs[t][i].state),
         NEW u \in Threads
  PROVE  /\ \A j \in 1..Len(runs[u]) : runs[u][j].state = runs[t][i].state => t = u /\ i = j
         /\ Pending(u) => callee[u].state # runs[t][i].state
<1>1. runs[t][i].state \in States
  BY Types DEF IInv
<1> QED
  BY <1>1, PendingNotRun DEF IInv, UnsharedRunOnce, OneRunIn, RunsIn

\* What Pop leaves.
LEMMA PopTypes ==
  ASSUME TypeOK, NEW t \in Threads, Len(runs[t]) > 0
  PROVE  /\ Pop(t) \in Seq(Activations) /\ Len(Pop(t)) = Len(runs[t]) - 1
         /\ \A i \in 1..(Len(runs[t]) - 1) : Pop(t)[i] = runs[t][i]
BY Types DEF Pop

-----------------------------------------------------------------------------
(* One lemma per action: it preserves IInv.                                *)

\* The run that begins finds its state free: until now it was pending.
LEMMA EnterRunStep ==
  ASSUME IInv, NEW t \in Threads, EnterRun(t)
  PROVE  IInv'
<1> DEFINE n == Len(runs[t])
           s == callee[t].state
<1>1. /\ pc[t] = "enter" /\ pc' = [pc EXCEPT ![t] = "begin"]
      /\ is_running' = [is_running EXCEPT ![s] = TRUE]
      /\ runs' = [runs EXCEPT ![t] = Append(runs[t], callee[t])]
      /\ callee' = callee /\ calls' = calls /\ entry' = entry /\ result' = result
      /\ stack_ptr' = stack_ptr /\ roots' = roots
  BY DEF EnterRun, Goto
<1>2. /\ TypeOK /\ StacksFormed /\ Pending(t)
      /\ pc \in [Threads -> {"exec", "prepare", "enter", "begin", "end", "returned", "done"}]
      /\ runs \in [Threads -> Seq(Activations)] /\ is_running \in [States -> BOOLEAN]
      /\ callee[t] \in Activations /\ s \in States /\ s \in Reach[t]
      /\ n \in Nat /\ n > 0
  BY <1>1, Types, TopTypes DEF IInv, TypeOK, Pending, StacksFormed
<1>3. TypeOK'
  BY <1>1, <1>2 DEF TypeOK
<1>4. /\ \A u \in Threads : u # t => runs'[u] = runs[u] /\ pc'[u] = pc[u]
      /\ pc'[t] = "begin" /\ Len(runs'[t]) = n + 1 /\ runs'[t][n + 1] = callee[t]
      /\ \A i \in 1..n : runs'[t][i] = runs[t][i]
  BY <1>1, <1>2
<1>5. \A u \in Threads : \A i \in 1..Len(runs'[u]) :
        \/ i \in 1..Len(runs[u]) /\ runs'[u][i] = runs[u][i]
        \/ u = t /\ i = n + 1 /\ runs'[u][i] = callee[t]
  BY <1>2, <1>4
<1>6. StacksFormed'
  BY <1>1, <1>2, <1>4, Types DEF StacksFormed, Pending, Top
<1>7. RunsPrepared'
  BY <1>1, <1>2, <1>4, <1>5 DEF IInv, RunsPrepared
<1>8. UnsharedRunOnce'
  <2> SUFFICES ASSUME NEW z \in States, Unshared(z), NEW u \in Threads, NEW v \in Threads,
                      NEW i \in 1..Len(runs'[u]), NEW j \in 1..Len(runs'[v]),
                      runs'[u][i].state = z, runs'[v][j].state = z
               PROVE  u = v /\ i = j
    BY DEF UnsharedRunOnce, OneRunIn, RunsIn
  <2>1. CASE s = z
    <3>1. \A w \in Threads : \A k \in 1..Len(runs[w]) : runs[w][k].state # z
      BY <1>2, <2>1, PendingNotRun
    <3>2. u = t /\ i = n + 1 /\ v = t /\ j = n + 1
      BY <1>5, <3>1
    <3> QED
      BY <3>2
  <2>2. CASE s # z
    <3>1. /\ i \in 1..Len(runs[u]) /\ runs[u][i].state = z
          /\ j \in 1..Len(runs[v]) /\ runs[v][j].state = z
      BY <1>5, <2>2
    <3> QED
      BY <3>1 DEF IInv, UnsharedRunOnce, OneRunIn, RunsIn
  <2> QED
    BY <2>1, <2>2
<1>9. RunningFlagExact'
  BY SMTT(40), <1>1, <1>2, <1>4, <1>5, PendingNotRun DEF IInv, RunningFlagExact, RunsIn
<1>10. PendingIsFree'
  BY <1>1, <1>2, <1>4, PendingAlone DEF IInv, PendingIsFree, Pending
<1>11. CallsInState'
  <2>1. \A u \in Threads : \A i \in 1..Len(runs'[u]) :
          Unshared(runs'[u][i].state) => runs'[u][i].found = runs'[u][i].call
    BY <1>1, <1>2, <1>5 DEF IInv, CallsInState
  <2>2. \A u \in Threads : pc'[u] \in {"enter", "begin"} /\ Unshared(callee[u].state) =>
          entry[callee[u].state] = callee[u].call
    BY <1>1, <1>4 DEF IInv, CallsInState
  <2>3. \A u \in Threads : /\ pc'[u] \in {"prepare", "enter"} => u # t /\ pc[u] = pc'[u]
                           /\ pc'[u] = "end" => u # t /\ pc[u] = "end"
                           /\ pc'[u] = "returned" => u # t /\ pc[u] = "returned"
    BY <1>4
  <2> QED
    BY SMTT(40), <1>1, <1>4, <2>1, <2>2, <2>3 DEF IInv, CallsInState, Top, Self
<1>12. ClonesHeldOnce'
  BY <1>1, <1>2, <1>4, <1>5 DEF IInv, ClonesHeldOnce, Holds, RunsIn
<1>13. ClonesRooted'
  <2> SUFFICES ASSUME NEW c \in Clones
               PROVE  c \in roots <=> \E u \in Threads :
                        \/ Holds(u, c)'
                        \/ \E i \in 1..Len(runs'[u]) : runs'[u][i].state = c /\ runs'[u][i].cloned
    BY <1>1 DEF ClonesRooted, RunsIn
  <2>1. \A u \in Threads : u # t => (Holds(u, c)' <=> Holds(u, c))
    BY <1>1, <1>4 DEF Holds
  <2>2. ~ Holds(t, c)' /\ (Holds(t, c) <=> callee[t].cloned /\ s = c)
    BY <1>1, <1>4 DEF Holds
  <2>3. c \in roots <=> \E u \in Threads :
          Holds(u, c) \/ \E i \in 1..Len(runs[u]) : runs[u][i].state = c /\ runs[u][i].cloned
    BY DEF IInv, ClonesRooted, RunsIn
  <2>4. \A u \in Threads : u # t =>
          (/\ Len(runs'[u]) = Len(runs[u])
           /\ \A i \in 1..Len(runs[u]) : runs'[u][i] = runs[u][i])
    BY <1>4
  <2>5. (\E i \in 1..(n + 1) : runs'[t][i].state = c /\ runs'[t][i].cloned)
          <=> \/ callee[t].cloned /\ s = c
              \/ \E i \in 1..n : runs[t][i].state = c /\ runs[t][i].cloned
    <3>1. n + 1 \in 1..(n + 1) /\ \A i : i \in 1..(n + 1) <=> i \in 1..n \/ i = n + 1
      BY <1>2
    <3> QED
      BY <1>4, <3>1
  <2> QED
    BY <1>4, <2>1, <2>2, <2>3, <2>4, <2>5
<1>14. StacksNested'
  <2>1. ASSUME NEW u \in Threads, NEW i \in 1..(Len(runs'[u]) - 1),
               Unshared(runs'[u][i].state), Unshared(runs'[u][i + 1].state)
        PROVE  stack_ptr[runs'[u][i + 1].state] >= stack_ptr[runs'[u][i].state]
                  - IF pc'[u] = "begin" /\ i = Len(runs'[u]) - 1 THEN 0 ELSE Args + 1
    <3>1. CASE u # t
      BY <1>4, <2>1, <3>1 DEF IInv, StacksNested
    <3>2. CASE u = t /\ i = n
      <4>1. runs'[u][i] = Top(t) /\ runs'[u][i + 1] = callee[t] /\ i = Len(runs'[u]) - 1
        BY <1>2, <1>4, <3>2 DEF Top
      <4>2. stack_ptr[s] >= stack_ptr[Self(t)]
        BY <1>1, <2>1, <4>1 DEF IInv, StacksNested, Self
      <4>3. Self(t) \in States /\ stack_ptr[Self(t)] \in Int /\ stack_ptr[s] \in Int
        BY <1>1, <1>2, TopTypes DEF TypeOK
      <4> QED
        BY <1>4, <3>2, <4>1, <4>2, <4>3 DEF Self
    <3>3. CASE u = t /\ i # n
      <4>1. /\ i \in 1..(n - 1) /\ runs'[u][i] = runs[t][i] /\ runs'[u][i + 1] = runs[t][i + 1]
            /\ i # Len(runs'[u]) - 1
        <5>1. i \in 1..(n - 1) /\ i \in 1..n /\ i + 1 \in 1..n /\ i # (n + 1) - 1
          BY <1>2, <1>4, <2>1, <3>3
        <5> QED
          BY <1>4, <3>3, <5>1
      <4> QED
        BY <1>1, <2>1, <3>3, <4>1 DEF IInv, StacksNested
    <3> QED
      BY <3>1, <3>2, <3>3
  <2>2. \A u \in Threads : pc'[u] = "enter" => u # t /\ pc[u] = "enter"
    BY <1>4
  <2> QED
    BY <1>1, <1>4, <2>1, <2>2 DEF IInv, StacksNested, Top, Self
<1> QED
  BY <1>3, <1>6, <1>7, <1>8, <1>9, <1>10, <1>11, <1>12, <1>13, <1>14 DEF IInv

\* The call is written into a state that no other thread runs or is about to run.
LEMMA PrepareStep ==
  ASSUME IInv, NEW t \in Threads, Prepare(t)
  PROVE  IInv'
<1> DEFINE s == callee[t].state
<1>1. /\ pc[t] = "prepare" /\ pc' = [pc EXCEPT ![t] = "enter"]
      /\ entry' = [entry EXCEPT ![s] = callee[t].call]
      /\ stack_ptr' = [stack_ptr EXCEPT ![s] = stack_ptr[Self(t)]]
      /\ runs' = runs /\ callee' = callee /\ calls' = calls /\ is_running' = is_running
      /\ result' = result /\ roots' = roots
  BY DEF Prepare, Goto
<1>2. /\ TypeOK /\ StacksFormed /\ Pending(t)
      /\ pc \in [Threads -> {"exec", "prepare", "enter", "begin", "end", "returned", "done"}]
      /\ entry \in [States -> Calls] /\ stack_ptr \in [States -> Int]
      /\ s \in States /\ callee[t].call \in Calls /\ Self(t) \in States
  BY <1>1, Types, TopTypes DEF IInv, TypeOK, Pending
<1>3. TypeOK'
  BY <1>1, <1>2 DEF TypeOK
<1>4. pc'[t] = "enter" /\ \A u \in Threads : u # t => pc'[u] = pc[u]
  BY <1>1, <1>2
<1>5. /\ entry'[s] = callee[t].call /\ \A z \in States : z # s => entry'[z] = entry[z]
      /\ stack_ptr'[s] = stack_ptr[Self(t)]
      /\ \A z \in States : z # s => stack_ptr'[z] = stack_ptr[z]
  BY <1>1, <1>2
<1>6. StacksFormed'
  BY <1>1, <1>2, <1>4 DEF StacksFormed, Pending, Top
<1>7. RunsPrepared'
  <2>1. callee[t].call # NoCall
    BY <1>1 DEF IInv, RunsPrepared
  <2>2. \A z \in States : entry[z] # NoCall => entry'[z] # NoCall
    BY <1>5, <2>1
  <2>3. \A u \in Threads : pc'[u] \in {"prepare", "enter"} => callee[u].call # NoCall
    BY <1>4, <2>1 DEF IInv, RunsPrepared
  <2>4. \A u \in Threads : pc'[u] = "enter" => entry'[callee[u].state] # NoCall
    BY <1>2, <1>4, <1>5, <2>1, <2>2, Types DEF IInv, RunsPrepared
  <2>5. \A u \in Threads : \A i \in 2..Len(runs[u]) : entry'[runs[u][i].state] # NoCall
    BY <1>2, <2>2, Types DEF IInv, RunsPrepared
  <2>6. \A c \in Clones : is_running[c] => entry'[c] # NoCall
    BY <2>2 DEF IInv, RunsPrepared, States
  <2> QED
    BY <1>1, <2>3, <2>4, <2>5, <2>6 DEF RunsPrepared
<1>8. UnsharedRunOnce' /\ RunningFlagExact'
  BY <1>1 DEF IInv, UnsharedRunOnce, OneRunIn, RunningFlagExact, RunsIn
<1>9. PendingIsFree'
  BY <1>1, <1>2, <1>4 DEF IInv, PendingIsFree, Pending
<1>10. ASSUME Unshared(s)
       PROVE  /\ \A u \in Threads : \A i \in 1..Len(runs[u]) : runs[u][i].state # s
              /\ \A u \in Threads : Pending(u) /\ callee[u].state = s => u = t
              /\ \A u \in Threads : pc[u] # "done" => Self(u) # s
  <2>1. \A u \in Threads : \A i \in 1..Len(runs[u]) : runs[u][i].state # s
    BY <1>2, <1>10, PendingNotRun
  <2>2. \A u \in Threads : Pending(u) /\ callee[u].state = s => u = t
    BY <1>2, <1>10, PendingAlone
  <2>3. \A u \in Threads : pc[u] # "done" => Self(u) # s
    BY <1>2, <2>1, TopTypes DEF RunsIn
  <2> QED
    BY <2>1, <2>2, <2>3
<1>11. CallsInState'
  <2>1. ASSUME NEW u \in Threads, pc'[u] \in {"enter", "begin"}, Unshared(callee[u].state)
        PROVE  entry'[callee[u].state] = callee[u].call
    <3>1. CASE u = t
      BY <1>5, <3>1
    <3>2. CASE u # t /\ callee[u].state # s
      BY <1>2, <1>4, <1>5, <2>1, <3>2, Types DEF IInv, CallsInState
    <3>3. CASE u # t /\ callee[u].state = s
      <4>1. pc[u] = "begin"
        BY <1>4, <1>10, <2>1, <3>3 DEF Pending
      <4>2. Self(u) = s
        BY <1>2, <3>3, <4>1 DEF StacksFormed, Self
      <4> QED
        BY <1>10, <2>1, <3>3, <4>1, <4>2
    <3> QED
      BY <3>1, <3>2, <3>3
  <2>2. \A u \in Threads : pc'[u] \in {"prepare", "enter"} => pc[u] \in {"prepare", "enter"}
    BY <1>1, <1>4
  <2>3. \A u \in Threads : pc'[u] \in {"end", "returned"} => pc[u] = pc'[u]
    BY <1>4
  <2> QED
    BY <1>1, <2>1, <2>2, <2>3 DEF IInv, CallsInState, Top, Self
<1>12. \A u \in Threads : \A c \in Clones : Holds(u, c)' <=> Holds(u, c)
  BY <1>1, <1>4 DEF Holds
<1>13. ClonesHeldOnce' /\ ClonesRooted'
  BY <1>1, <1>12 DEF IInv, ClonesHeldOnce, ClonesRooted, RunsIn
<1>14. StacksNested'
  <2>1. ASSUME NEW u \in Threads, NEW i \in 1..(Len(runs[u]) - 1),
               Unshared(runs[u][i].state), Unshared(runs[u][i + 1].state)
        PROVE  stack_ptr'[runs[u][i + 1].state] >= stack_ptr'[runs[u][i].state]
                  - IF pc'[u] = "begin" /\ i = Len(runs[u]) - 1 THEN 0 ELSE Args + 1
    <3>1. i \in 1..Len(runs[u]) /\ i + 1 \in 1..Len(runs[u])
      BY <1>2, Types
    <3>2. /\ runs[u][i].state \in States /\ runs[u][i + 1].state \in States
          /\ runs[u][i].state # s /\ runs[u][i + 1].state # s
      BY <1>2, <1>10, <2>1, <3>1, Types
    <3>3. /\ stack_ptr'[runs[u][i].state] = stack_ptr[runs[u][i].state]
          /\ stack_ptr'[runs[u][i + 1].state] = stack_ptr[runs[u][i + 1].state]
      BY <1>5, <3>2
    <3>4. pc'[u] = "begin" <=> pc[u] = "begin"
      BY <1>1, <1>4
    <3> QED
      BY <2>1, <3>3, <3>4 DEF IInv, StacksNested
  <2>2. ASSUME NEW u \in Threads, pc'[u] = "enter", Unshared(Self(u)), Unshared(callee[u].state)
        PROVE  stack_ptr'[callee[u].state] >= stack_ptr'[Self(u)]
    <3>1. pc[u] # "done" /\ Self(u) \in States /\ stack_ptr'[Self(u)] \in Int
      BY <1>1, <1>2, <1>3, <1>4, <2>2, TopTypes DEF TypeOK
    <3>2. CASE u = t
      BY <1>5, <1>10, <2>2, <3>1, <3>2
    <3>3. CASE u # t
      <4>1. pc[u] = "enter" /\ Pending(u)
        BY <1>4, <2>2, <3>3 DEF Pending
      <4>2. callee[u].state # s /\ Self(u) # s
        BY <1>10, <2>2, <3>1, <3>3, <4>1
      <4>3. callee[u].state \in States
        BY <1>2, Types
      <4> QED
        BY <1>5, <2>2, <3>1, <4>1, <4>2, <4>3 DEF IInv, StacksNested
    <3> QED
      BY <3>2, <3>3
  <2> QED
    BY <1>1, <2>1, <2>2 DEF StacksNested, Top, Self
<1> QED
  BY <1>3, <1>6, <1>7, <1>8, <1>9, <1>11, <1>13, <1>14 DEF IInv

\* The run takes the call from the state, and the arguments from the stack of the
\* caller: the run below it on the C stack.
LEMMA BeginRunStep ==
  ASSUME IInv, NEW t \in Threads, BeginRun(t)
  PROVE  IInv'
<1> DEFINE n == Len(runs[t])
           s == Self(t)
<1>1. /\ pc[t] = "begin" /\ pc' = [pc EXCEPT ![t] = "exec"]
      /\ runs' = [runs EXCEPT ![t] = [runs[t] EXCEPT ![n] = [runs[t][n] EXCEPT !.found = entry[s]]]]
      /\ stack_ptr' = [stack_ptr EXCEPT ![s] = stack_ptr[s] - Args - 1]
      /\ callee' = callee /\ calls' = calls /\ is_running' = is_running /\ entry' = entry
      /\ result' = result /\ roots' = roots
  BY DEF BeginRun, Goto
<1>2. /\ TypeOK /\ StacksFormed
      /\ pc \in [Threads -> {"exec", "prepare", "enter", "begin", "end", "returned", "done"}]
      /\ runs \in [Threads -> Seq(Activations)] /\ entry \in [States -> Calls]
      /\ stack_ptr \in [States -> Int] /\ Args \in Nat
      /\ s \in States /\ entry[s] \in Calls /\ stack_ptr[s] \in Int
      /\ n \in Nat /\ n > 1 /\ n \in 1..n /\ runs[t][n] \in Activations /\ runs[t][n] = callee[t]
      /\ runs[t][n].state = s /\ callee[t].state = s
  BY <1>1, TopTypes, CallStatesAssumption DEF IInv, TypeOK, StacksFormed, Top, Self
<1>3. [runs[t][n] EXCEPT !.found = entry[s]] \in Activations
  BY <1>2 DEF Activations
<1>4. /\ pc'[t] = "exec" /\ \A u \in Threads : u # t => pc'[u] = pc[u] /\ runs'[u] = runs[u]
      /\ Len(runs'[t]) = n /\ runs'[t][n] = [runs[t][n] EXCEPT !.found = entry[s]]
      /\ \A i \in 1..n : i # n => runs'[t][i] = runs[t][i]
      /\ runs'[t] \in Seq(Activations)
  BY <1>1, <1>2, <1>3
<1>5. TypeOK'
  BY <1>1, <1>2, <1>4 DEF TypeOK
<1>6. /\ runs'[t][n].state = runs[t][n].state /\ runs'[t][n].call = runs[t][n].call
      /\ runs'[t][n].cloned = runs[t][n].cloned /\ runs'[t][n].found = entry[s]
  BY <1>2, <1>4 DEF Activations
<1>7. \A u \in Threads :
        /\ Len(runs'[u]) = Len(runs[u])
        /\ \A i \in 1..Len(runs[u]) :
             /\ runs'[u][i].state = runs[u][i].state /\ runs'[u][i].cloned = runs[u][i].cloned
             /\ runs'[u][i].call = runs[u][i].call
             /\ u # t \/ i # n => runs'[u][i].found = runs[u][i].found
  BY <1>4, <1>6
<1>8. StacksFormed'
  <2>1. \A u \in Threads : /\ pc'[u] = "done" <=> pc[u] = "done"
                           /\ pc'[u] \in {"begin", "end"} => u # t /\ pc[u] = pc'[u]
                           /\ Pending(u)' => Pending(u)
    BY <1>1, <1>4 DEF Pending
  <2>2. \A u \in Threads : pc'[u] = "begin" => Top(u)' = callee[u]
    BY <1>1, <1>2, <1>4, <2>1 DEF StacksFormed, Top
  <2>3. \A u \in Threads : pc[u] # "done" => 1 \in 1..Len(runs[u])
    BY <1>2, TopTypes
  <2>4. \A u \in Threads : \A i \in 2..Len(runs[u]) : i \in 1..Len(runs[u])
    BY <1>2, Types
  <2> QED
    BY <1>1, <1>2, <1>7, <2>1, <2>2, <2>3, <2>4 DEF StacksFormed
<1>9. RunsPrepared'
  <2>1. \A u \in Threads : \A i \in 2..Len(runs[u]) : i \in 1..Len(runs[u])
    BY <1>2, Types
  <2> QED
    BY <1>1, <1>4, <1>7, <2>1 DEF IInv, RunsPrepared
<1>10. \A u \in Threads : \A i : \A z : RunsIn(u, i, z)' <=> RunsIn(u, i, z)
  BY <1>7 DEF RunsIn
<1>11. UnsharedRunOnce' /\ RunningFlagExact'
  BY <1>1, <1>7, <1>10 DEF IInv, UnsharedRunOnce, OneRunIn, RunningFlagExact
<1>12. PendingIsFree'
  BY <1>1, <1>4 DEF IInv, PendingIsFree, Pending
<1>13. CallsInState'
  <2>1. ASSUME NEW u \in Threads, NEW i \in 1..Len(runs[u]), Unshared(runs[u][i].state)
        PROVE  runs'[u][i].found = runs[u][i].call
    <3>1. CASE u = t /\ i = n
      <4>1. entry[s] = callee[t].call
        BY <1>1, <1>2, <2>1, <3>1 DEF IInv, CallsInState
      <4> QED
        BY <1>2, <1>6, <3>1, <4>1
    <3>2. CASE ~ (u = t /\ i = n)
      BY <1>7, <2>1, <3>2 DEF IInv, CallsInState
    <3> QED
      BY <3>1, <3>2
  <2>2. \A u \in Threads : pc'[u] \in {"prepare", "enter", "begin", "end", "returned"} =>
          u # t /\ pc[u] = pc'[u] /\ Top(u)' = Top(u) /\ Self(u)' = Self(u)
    BY <1>4 DEF Top, Self
  <2> QED
    BY <1>1, <1>7, <2>1, <2>2 DEF IInv, CallsInState
<1>14. \A u \in Threads : \A c \in Clones : Holds(u, c)' <=> Holds(u, c)
  BY <1>1, <1>4 DEF Holds
<1>15. ClonesHeldOnce' /\ ClonesRooted'
  BY <1>1, <1>7, <1>10, <1>14 DEF IInv, ClonesHeldOnce, ClonesRooted
<1>16. /\ stack_ptr'[s] = stack_ptr[s] - Args - 1
       /\ \A z \in States : z # s => stack_ptr'[z] = stack_ptr[z]
  BY <1>1, <1>2
<1>17. ASSUME Unshared(s)
       PROVE  /\ \A u \in Threads : \A i \in 1..Len(runs[u]) : runs[u][i].state = s => u = t /\ i = n
              /\ \A u \in Threads : Pending(u) => callee[u].state # s
              /\ \A u \in Threads : pc[u] # "done" /\ Self(u) = s => u = t
  <2> DEFINE z == runs[t][n].state
  <2>0. z = s /\ Unshared(z) /\ n \in 1..Len(runs[t])
    BY <1>2, <1>17
  <2>1. \A u \in Threads : \A i \in 1..Len(runs[u]) : runs[u][i].state = s => u = t /\ i = n
    <3>1. ASSUME NEW u \in Threads
          PROVE  \A i \in 1..Len(runs[u]) : runs[u][i].state = z => t = u /\ n = i
      BY <2>0, RunAlone
    <3> QED
      BY <2>0, <3>1
  <2>2. \A u \in Threads : Pending(u) => callee[u].state # s
    <3>1. \A u \in Threads : Pending(u) => callee[u].state # z
      BY <2>0, RunAlone
    <3> QED
      BY <2>0, <3>1
  <2>3. \A u \in Threads : pc[u] # "done" /\ Self(u) = s => u = t
    BY <1>2, <2>1, TopTypes DEF RunsIn
  <2> QED
    BY <2>1, <2>2, <2>3
<1>18. StacksNested'
  <2>1. ASSUME NEW u \in Threads, NEW i \in 1..(Len(runs[u]) - 1),
               Unshared(runs[u][i].state), Unshared(runs[u][i + 1].state)
        PROVE  stack_ptr'[runs[u][i + 1].state] >= stack_ptr'[runs[u][i].state]
                  - IF pc'[u] = "begin" /\ i = Len(runs[u]) - 1 THEN 0 ELSE Args + 1
    <3>1. i \in 1..Len(runs[u]) /\ i + 1 \in 1..Len(runs[u]) /\ i # Len(runs[u])
      BY <1>2, Types
    <3>2. /\ runs[u][i].state \in States /\ runs[u][i + 1].state \in States
          /\ runs[u][i].state # s
      BY <1>2, <1>17, <2>1, <3>1, Types
    <3>3. stack_ptr'[runs[u][i].state] = stack_ptr[runs[u][i].state]
      BY <1>16, <3>2
    <3>4. stack_ptr[runs[u][i + 1].state] >= stack_ptr[runs[u][i].state]
            - IF pc[u] = "begin" /\ i = Len(runs[u]) - 1 THEN 0 ELSE Args + 1
      BY <2>1 DEF IInv, StacksNested
    <3>5. CASE runs[u][i + 1].state = s
      <4>1. u = t /\ i + 1 = n
        BY <1>17, <2>1, <3>1, <3>5
      <4>2. stack_ptr[s] >= stack_ptr[runs[u][i].state] - 0
        BY <1>1, <1>2, <3>4, <3>5, <4>1
      <4>3. stack_ptr[runs[u][i].state] \in Int
        BY <1>2, <3>2
      <4> QED
        BY <1>2, <1>4, <1>16, <3>3, <3>5, <4>1, <4>2, <4>3
    <3>6. CASE runs[u][i + 1].state # s
      <4>1. stack_ptr'[runs[u][i + 1].state] = stack_ptr[runs[u][i + 1].state]
        BY <1>16, <3>2, <3>6
      <4>2. ~ (u = t /\ i = n - 1)
        BY <1>2, <3>1, <3>6
      <4>3. pc'[u] = "begin" /\ i = Len(runs[u]) - 1 <=> pc[u] = "begin" /\ i = Len(runs[u]) - 1
        BY <1>4, <4>2
      <4> QED
        BY <3>3, <3>4, <4>1, <4>3
    <3> QED
      BY <3>5, <3>6
  <2>2. ASSUME NEW u \in Threads, pc'[u] = "enter", Unshared(Self(u)), Unshared(callee[u].state)
        PROVE  stack_ptr'[callee[u].state] >= stack_ptr'[Self(u)]
    <3>1. u # t /\ pc[u] = "enter" /\ Pending(u)
      BY <1>4, <2>2 DEF Pending
    <3>2. callee[u].state # s /\ Self(u) # s /\ callee[u].state \in States /\ Self(u) \in States
      BY <1>2, <1>17, <2>2, <3>1, Types, TopTypes
    <3> QED
      BY <1>16, <2>2, <3>1, <3>2 DEF IInv, StacksNested
  <2>3. \A u \in Threads : pc'[u] = "enter" => Self(u)' = Self(u)
    BY <1>4 DEF Top, Self
  <2>4. \A u \in Threads : \A i \in 1..(Len(runs[u]) - 1) :
          i \in 1..Len(runs[u]) /\ i + 1 \in 1..Len(runs[u])
    BY <1>2, Types
  <2>5. \A u \in Threads : \A i \in 1..(Len(runs[u]) - 1) :
          /\ Len(runs'[u]) = Len(runs[u])
          /\ runs'[u][i].state = runs[u][i].state /\ runs'[u][i + 1].state = runs[u][i + 1].state
    BY <1>7, <2>4
  <2>6. \A u \in Threads : Len(runs'[u]) = Len(runs[u])
    BY <1>7
  <2>7. ASSUME NEW u \in Threads, NEW i \in 1..(Len(runs'[u]) - 1),
               Unshared(runs'[u][i].state), Unshared(runs'[u][i + 1].state)
        PROVE  stack_ptr'[runs'[u][i + 1].state] >= stack_ptr'[runs'[u][i].state]
                  - IF pc'[u] = "begin" /\ i = Len(runs'[u]) - 1 THEN 0 ELSE Args + 1
    <3>1. i \in 1..(Len(runs[u]) - 1)
      BY <2>6
    <3>2. /\ runs'[u][i].state = runs[u][i].state /\ runs'[u][i + 1].state = runs[u][i + 1].state
          /\ Unshared(runs[u][i].state) /\ Unshared(runs[u][i + 1].state)
      BY <2>5, <2>7, <3>1
    <3> QED
      BY <2>1, <2>6, <3>1, <3>2
  <2> QED
    BY <1>1, <2>2, <2>3, <2>7 DEF StacksNested
<1> QED
  BY <1>5, <1>8, <1>9, <1>11, <1>12, <1>13, <1>15, <1>18 DEF IInv

\* The run writes its result into its own state, which no other run has.
LEMMA FinishRunStep ==
  ASSUME IInv, NEW t \in Threads, NEW ok \in BOOLEAN, FinishRun(t, ok)
  PROVE  IInv'
<1> DEFINE n == Len(runs[t])
           s == Self(t)
<1>1. /\ pc[t] = "exec" /\ pc' = [pc EXCEPT ![t] = "end"] /\ n > 1
      /\ result' = [result EXCEPT ![s] = [call |-> Top(t).call, ok |-> ok]]
      /\ runs' = runs /\ callee' = callee /\ calls' = calls /\ is_running' = is_running
      /\ entry' = entry /\ stack_ptr' = stack_ptr /\ roots' = roots
  BY DEF FinishRun, Goto
<1>2. /\ TypeOK /\ StacksFormed
      /\ pc \in [Threads -> {"exec", "prepare", "enter", "begin", "end", "returned", "done"}]
      /\ result \in [States -> [call : Calls, ok : BOOLEAN]]
      /\ s \in States /\ Top(t).call \in Calls /\ n \in 1..n /\ runs[t][n].state = s
  BY <1>1, TopTypes DEF IInv, TypeOK, RunsIn
<1>3. TypeOK'
  BY <1>1, <1>2 DEF TypeOK
<1>4. /\ pc'[t] = "end" /\ \A u \in Threads : u # t => pc'[u] = pc[u]
      /\ result'[s].call = Top(t).call /\ \A z \in States : z # s => result'[z] = result[z]
  BY <1>1, <1>2
<1>5. StacksFormed' /\ RunsPrepared' /\ PendingIsFree'
  BY <1>1, <1>2, <1>4 DEF IInv, StacksFormed, RunsPrepared, PendingIsFree, Pending, Top
<1>6. UnsharedRunOnce' /\ RunningFlagExact'
  BY <1>1 DEF IInv, UnsharedRunOnce, OneRunIn, RunningFlagExact, RunsIn
<1>7. CallsInState'
  <2>1. ASSUME NEW u \in Threads, pc'[u] = "end", Unshared(Self(u))
        PROVE  result'[Self(u)].call = Top(u).call
    <3>1. CASE u = t
      BY <1>4, <3>1
    <3>2. CASE u # t
      <4>1. pc[u] = "end" /\ Self(u) \in States /\ RunsIn(u, Len(runs[u]), Self(u))
        BY <1>2, <1>4, <2>1, <3>2, TopTypes
      <4>2. Self(u) # s
        BY <1>2, <2>1, <3>2, <4>1, RunAlone DEF RunsIn
      <4> QED
        BY <1>4, <2>1, <4>1, <4>2 DEF IInv, CallsInState
    <3> QED
      BY <3>1, <3>2
  <2>2. ASSUME NEW u \in Threads, pc'[u] = "returned", Unshared(callee[u].state)
        PROVE  result'[callee[u].state].call = callee[u].call
    <3>1. pc[u] = "returned" /\ Pending(u) /\ callee[u].state \in States
      BY <1>2, <1>4, <2>2, Types DEF Pending
    <3>2. callee[u].state # s
      BY <1>2, <2>2, <3>1, PendingNotRun
    <3> QED
      BY <1>4, <2>2, <3>1, <3>2 DEF IInv, CallsInState
  <2>3. \A u \in Threads : pc'[u] \in {"prepare", "enter", "begin"} => pc[u] = pc'[u]
    BY <1>4
  <2> QED
    BY <1>1, <2>1, <2>2, <2>3 DEF IInv, CallsInState, Top, Self
<1>8. \A u \in Threads : \A c \in Clones : Holds(u, c)' <=> Holds(u, c)
  BY <1>1, <1>4 DEF Holds
<1>9. ClonesHeldOnce'
  BY <1>1, <1>8 DEF IInv, ClonesHeldOnce, RunsIn
<1>9a. ClonesRooted'
  BY <1>1, <1>8 DEF IInv, ClonesRooted, RunsIn
<1>10. StacksNested'
  BY <1>1, <1>4 DEF IInv, StacksNested, Top, Self
<1> QED
  BY <1>3, <1>5, <1>6, <1>7, <1>9, <1>9a, <1>10 DEF IInv

\* The run on top ends, and its state is pending until the result is taken.
LEMMA EndRunStep ==
  ASSUME IInv, NEW t \in Threads, EndRun(t)
  PROVE  IInv'
<1> DEFINE n == Len(runs[t])
           s == Self(t)
<1>1. /\ pc[t] = "end" /\ pc' = [pc EXCEPT ![t] = "returned"]
      /\ is_running' = [is_running EXCEPT ![s] = FALSE]
      /\ callee' = [callee EXCEPT ![t] = Top(t)]
      /\ runs' = [runs EXCEPT ![t] = Pop(t)]
      /\ calls' = calls /\ entry' = entry /\ result' = result
      /\ stack_ptr' = stack_ptr /\ roots' = roots
  BY DEF EndRun, Goto
<1>2. /\ TypeOK /\ StacksFormed
      /\ pc \in [Threads -> {"exec", "prepare", "enter", "begin", "end", "returned", "done"}]
      /\ runs \in [Threads -> Seq(Activations)] /\ callee \in [Threads -> Activations]
      /\ is_running \in [States -> BOOLEAN]
      /\ n \in Nat /\ n > 1 /\ n \in 1..n /\ n \in 2..n
      /\ s \in States /\ Top(t) \in Activations /\ Top(t) = runs[t][n] /\ runs[t][n].state = s
  BY <1>1, TopTypes DEF IInv, TypeOK, StacksFormed, Top, Self
<1>3. /\ Pop(t) \in Seq(Activations) /\ Len(Pop(t)) = n - 1
      /\ \A i \in 1..(n - 1) : Pop(t)[i] = runs[t][i]
  BY <1>2, PopTypes
<1>4. TypeOK'
  BY <1>1, <1>2, <1>3 DEF TypeOK
<1>5. /\ pc'[t] = "returned" /\ callee'[t] = runs[t][n]
      /\ Len(runs'[t]) = n - 1 /\ \A i \in 1..(n - 1) : runs'[t][i] = runs[t][i]
      /\ \A u \in Threads : u # t => pc'[u] = pc[u] /\ runs'[u] = runs[u] /\ callee'[u] = callee[u]
      /\ ~ is_running'[s] /\ \A z \in States : z # s => is_running'[z] = is_running[z]
  BY <1>1, <1>2, <1>3
<1>6. \A u \in Threads : \A i \in 1..Len(runs'[u]) :
        /\ i \in 1..Len(runs[u]) /\ runs'[u][i] = runs[u][i]
        /\ u = t => i # n
  <2>1. \A i \in 1..(n - 1) : i \in 1..n /\ i # n
    BY <1>2
  <2> QED
    BY <1>5, <2>1
<1>7. StacksFormed'
  <2> SUFFICES ASSUME NEW u \in Threads
               PROVE  /\ pc'[u] = "done" <=> Len(runs'[u]) = 0
                      /\ pc'[u] # "done" => runs'[u][1].state = u /\ ~ runs'[u][1].cloned
                      /\ pc'[u] \in {"begin", "end"} => Len(runs'[u]) > 1
                      /\ pc'[u] = "begin" => Top(u)' = callee'[u]
                      /\ Pending(u)' => callee'[u].state \in Reach[u]
                      /\ \A i \in 2..Len(runs'[u]) : runs'[u][i].state \in Reach[u]
    BY DEF StacksFormed
  <2>1. runs'[t][1] = runs[t][1] /\ Len(runs'[t]) # 0
    BY <1>2, <1>5
  <2>2. callee'[t].state \in Reach[t]
    BY <1>2, <1>5 DEF StacksFormed
  <2>3. \A i \in 2..Len(runs'[t]) : i \in 2..n /\ runs'[t][i] = runs[t][i]
    <3>1. \A i \in 2..(n - 1) : i \in 2..n /\ i \in 1..(n - 1)
      BY <1>2
    <3> QED
      BY <1>5, <3>1
  <2>4. \A i \in 2..Len(runs'[t]) : runs'[t][i].state \in Reach[t]
    BY <1>2, <2>3 DEF StacksFormed
  <2>5. runs[t][1].state = t /\ ~ runs[t][1].cloned
    BY <1>1, <1>2 DEF StacksFormed
  <2>6. CASE u = t
    BY <1>5, <2>1, <2>2, <2>4, <2>5, <2>6
  <2>7. CASE u # t
    <3>1. /\ pc'[u] = pc[u] /\ runs'[u] = runs[u] /\ callee'[u] = callee[u]
          /\ Top(u)' = Top(u) /\ (Pending(u)' <=> Pending(u))
      BY <1>5, <2>7 DEF Top, Pending
    <3> QED
      BY <1>2, <3>1 DEF StacksFormed
  <2> QED
    BY <2>6, <2>7
<1>8. RunsPrepared'
  <2>1. \A u \in Threads : \A i \in 2..Len(runs'[u]) : i \in 2..Len(runs[u]) /\ runs'[u][i] = runs[u][i]
    <3>1. \A i \in 2..(n - 1) : i \in 2..n /\ i \in 1..(n - 1)
      BY <1>2
    <3> QED
      BY <1>5, <3>1
  <2>2. \A z \in States : is_running'[z] => is_running[z]
    BY <1>5
  <2>4. \A c \in Clones : is_running'[c] => entry[c] # NoCall
    BY <2>2 DEF IInv, RunsPrepared, States
  <2>5. \A u \in Threads : \A i \in 2..Len(runs'[u]) : entry[runs'[u][i].state] # NoCall
    BY <2>1 DEF IInv, RunsPrepared
  <2>3. \A u \in Threads : pc'[u] \in {"prepare", "enter"} => pc[u] = pc'[u] /\ callee'[u] = callee[u]
    BY <1>5
  <2> QED
    BY <1>1, <2>3, <2>4, <2>5 DEF IInv, RunsPrepared
<1>9. UnsharedRunOnce'
  <2> SUFFICES ASSUME NEW z \in States, Unshared(z), NEW u \in Threads, NEW v \in Threads,
                      NEW i \in 1..Len(runs'[u]), NEW j \in 1..Len(runs'[v]),
                      runs'[u][i].state = z, runs'[v][j].state = z
               PROVE  u = v /\ i = j
    BY DEF UnsharedRunOnce, OneRunIn, RunsIn
  <2>1. /\ i \in 1..Len(runs[u]) /\ runs[u][i].state = z
        /\ j \in 1..Len(runs[v]) /\ runs[v][j].state = z
    BY <1>6
  <2> QED
    BY <2>1 DEF IInv, UnsharedRunOnce, OneRunIn, RunsIn
<1>10. ASSUME Unshared(s)
       PROVE  /\ \A u \in Threads : \A i \in 1..Len(runs[u]) : runs[u][i].state = s => u = t /\ i = n
              /\ \A u \in Threads : Pending(u) => callee[u].state # s
  <2> DEFINE z == runs[t][n].state
  <2>0. z = s /\ Unshared(z) /\ n \in 1..Len(runs[t])
    BY <1>2, <1>10
  <2>1. \A u \in Threads : \A i \in 1..Len(runs[u]) : runs[u][i].state = s => u = t /\ i = n
    <3>1. ASSUME NEW u \in Threads
          PROVE  \A i \in 1..Len(runs[u]) : runs[u][i].state = z => t = u /\ n = i
      BY <2>0, RunAlone
    <3> QED
      BY <2>0, <3>1
  <2>2. \A u \in Threads : Pending(u) => callee[u].state # s
    <3>1. \A u \in Threads : Pending(u) => callee[u].state # z
      BY <2>0, RunAlone
    <3> QED
      BY <2>0, <3>1
  <2> QED
    BY <2>1, <2>2
<1>11. RunningFlagExact'
  <2> SUFFICES ASSUME NEW z \in States, Unshared(z)
               PROVE  is_running'[z] <=>
                        \E u \in Threads : \E i \in 1..Len(runs'[u]) : runs'[u][i].state = z
    BY DEF RunningFlagExact, RunsIn
  <2>1. CASE z = s
    BY <1>5, <1>6, <1>10, <2>1
  <2>2. CASE z # s
    <3>1. is_running[z] <=> \E u \in Threads : \E i \in 1..Len(runs[u]) : runs[u][i].state = z
      BY DEF IInv, RunningFlagExact, RunsIn
    <3>2. \A u \in Threads : \A i \in 1..Len(runs[u]) : runs[u][i].state = z =>
            i \in 1..Len(runs'[u]) /\ runs'[u][i].state = z
      <4>1. \A i \in 1..n : i # n => i \in 1..(n - 1)
        BY <1>2
      <4> QED
        BY <1>2, <1>5, <2>2, <4>1
    <3> QED
      BY <1>5, <1>6, <2>2, <3>1, <3>2
  <2> QED
    BY <2>1, <2>2
<1>12. PendingIsFree'
  <2>1. \A u \in Threads : u # t /\ Pending(u)' => Pending(u)
    BY <1>5 DEF Pending
  <2>2. \A u \in Threads : callee[u].state \in States
    BY <1>2, Types
  <2> QED
    BY <1>2, <1>5, <2>1, <2>2 DEF IInv, PendingIsFree
<1>13. CallsInState'
  <2>1. result[s].call = Top(t).call \/ ~ Unshared(s)
    BY <1>1 DEF IInv, CallsInState
  <2>2. \A u \in Threads : u # t => Top(u)' = Top(u) /\ Self(u)' = Self(u)
    BY <1>5 DEF Top, Self
  <2>3. \A u \in Threads : \A i \in 1..Len(runs'[u]) :
          Unshared(runs'[u][i].state) => runs'[u][i].found = runs'[u][i].call
    BY <1>6 DEF IInv, CallsInState
  <2>4. pc'[t] = "returned" /\ Unshared(callee'[t].state) =>
          result[callee'[t].state].call = callee'[t].call
    BY <1>2, <1>5, <2>1
  <2> QED
    BY <1>1, <1>5, <2>2, <2>3, <2>4 DEF IInv, CallsInState
<1>14. /\ \A u \in Threads : \A c \in Clones : u # t => (Holds(u, c)' <=> Holds(u, c))
       /\ \A c \in Clones : ~ Holds(t, c) /\ (Holds(t, c)' <=> runs[t][n].cloned /\ s = c)
  BY <1>1, <1>2, <1>5 DEF Holds
<1>15. ClonesHeldOnce'
  <2> SUFFICES ASSUME NEW c \in Clones, NEW u \in Threads, NEW v \in Threads
               PROVE  /\ Holds(u, c)' /\ Holds(v, c)' => u = v
                      /\ \A i \in 1..Len(runs'[u]) : runs'[u][i].state = c /\ runs'[u][i].cloned =>
                           /\ ~ Holds(v, c)'
                           /\ \A j \in 1..Len(runs'[v]) :
                                runs'[v][j].state = c /\ runs'[v][j].cloned => u = v /\ i = j
    BY DEF ClonesHeldOnce, RunsIn
  <2>1. \A w, x \in Threads :
          /\ Holds(w, c) /\ Holds(x, c) => w = x
          /\ \A i \in 1..Len(runs[w]) : runs[w][i].state = c /\ runs[w][i].cloned =>
               /\ ~ Holds(x, c)
               /\ \A j \in 1..Len(runs[x]) :
                    runs[x][j].state = c /\ runs[x][j].cloned => w = x /\ i = j
    BY DEF IInv, ClonesHeldOnce, RunsIn
  <2>2. Holds(u, c)' /\ Holds(v, c)' => u = v
    <3>1. \A x \in Threads : runs[t][n].cloned /\ s = c => ~ Holds(x, c)
      BY <1>2, <2>1
    <3> QED
      BY <1>14, <2>1, <3>1
  <2>3. ASSUME NEW i \in 1..Len(runs'[u]), runs'[u][i].state = c, runs'[u][i].cloned
        PROVE  /\ ~ Holds(v, c)'
               /\ \A j \in 1..Len(runs'[v]) :
                    runs'[v][j].state = c /\ runs'[v][j].cloned => u = v /\ i = j
    <3>1. i \in 1..Len(runs[u]) /\ runs[u][i].state = c /\ runs[u][i].cloned /\ (u = t => i # n)
      BY <1>6, <2>3
    <3>2. ~ Holds(v, c)'
      <4>1. CASE v # t
        BY <1>14, <2>1, <3>1, <4>1
      <4>2. CASE v = t
        <5>1. ~ (runs[t][n].cloned /\ runs[t][n].state = c)
          BY <1>2, <2>1, <3>1
        <5> QED
          BY <1>2, <1>14, <4>2, <5>1
      <4> QED
        BY <4>1, <4>2
    <3> QED
      BY SMTT(40), <1>6, <2>1, <3>1, <3>2
  <2> QED
    BY <2>2, <2>3
<1>16. ClonesRooted'
  <2> SUFFICES ASSUME NEW c \in Clones
               PROVE  c \in roots <=> \E u \in Threads :
                        \/ Holds(u, c)'
                        \/ \E i \in 1..Len(runs'[u]) : runs'[u][i].state = c /\ runs'[u][i].cloned
    BY <1>1 DEF ClonesRooted, RunsIn
  <2>1. c \in roots <=> \E u \in Threads :
          Holds(u, c) \/ \E i \in 1..Len(runs[u]) : runs[u][i].state = c /\ runs[u][i].cloned
    BY DEF IInv, ClonesRooted, RunsIn
  <2>2. \A u \in Threads : u # t =>
          Len(runs'[u]) = Len(runs[u]) /\ \A i \in 1..Len(runs[u]) : runs'[u][i] = runs[u][i]
    BY <1>5
  <2>3. (\E i \in 1..n : runs[t][i].state = c /\ runs[t][i].cloned)
          <=> \/ runs[t][n].cloned /\ s = c
              \/ \E i \in 1..(n - 1) : runs'[t][i].state = c /\ runs'[t][i].cloned
    <3>1. \A i : i \in 1..n <=> i \in 1..(n - 1) \/ i = n
      BY <1>2
    <3> QED
      BY <1>2, <1>5, <3>1
  <2> QED
    BY SMTT(40), <1>5, <1>14, <2>1, <2>2, <2>3
<1>17. StacksNested'
  <2>1. ASSUME NEW u \in Threads, NEW i \in 1..(Len(runs'[u]) - 1),
               Unshared(runs'[u][i].state), Unshared(runs'[u][i + 1].state)
        PROVE  stack_ptr[runs'[u][i + 1].state] >= stack_ptr[runs'[u][i].state]
                  - IF pc'[u] = "begin" /\ i = Len(runs'[u]) - 1 THEN 0 ELSE Args + 1
    <3>1. CASE u # t
      BY SMTT(40), <1>5, <2>1, <3>1 DEF IInv, StacksNested
    <3>2. CASE u = t
      <4>1. i \in 1..(n - 1) /\ i \in 1..(n - 2) /\ i + 1 \in 1..(n - 1) /\ pc[t] # "begin"
        BY <1>1, <1>2, <1>5, <2>1, <3>2
      <4>2. runs'[t][i] = runs[t][i] /\ runs'[t][i + 1] = runs[t][i + 1]
        BY <1>5, <4>1
      <4>3. stack_ptr[runs[t][i + 1].state] >= stack_ptr[runs[t][i].state] - (Args + 1)
        BY <2>1, <3>2, <4>1, <4>2 DEF IInv, StacksNested
      <4> QED
        BY <1>5, <3>2, <4>2, <4>3
    <3> QED
      BY <3>1, <3>2
  <2>2. \A u \in Threads : pc'[u] = "enter" => u # t /\ pc[u] = "enter" /\ Self(u)' = Self(u)
    BY <1>5 DEF Top, Self
  <2> QED
    BY <1>1, <1>5, <2>1, <2>2 DEF IInv, StacksNested
<1> QED
  BY <1>4, <1>7, <1>8, <1>9, <1>11, <1>12, <1>13, <1>15, <1>16, <1>17 DEF IInv

\* The caller goes on, and the clone, which nobody else was made to run, stops
\* to be a root: what TakeResult and ThrowOn have in common.
LEMMA UnrootStep ==
  ASSUME IInv, NEW t \in Threads, pc[t] = "returned", Unroot(t),
         pc' \in {[pc EXCEPT ![t] = "exec"], [pc EXCEPT ![t] = "end"]},
         pc'[t] = "end" => Len(runs[t]) > 1,
         UNCHANGED <<runs, callee, calls, is_running, entry, stack_ptr>>
  PROVE  /\ pc' \in [Threads -> {"exec", "prepare", "enter", "begin", "end", "returned", "done"}]
         /\ roots' \subseteq Clones
         /\ StacksFormed' /\ RunsPrepared' /\ UnsharedRunOnce' /\ RunningFlagExact'
         /\ PendingIsFree' /\ ClonesHeldOnce' /\ ClonesRooted' /\ StacksNested'
<1>1. /\ roots' = IF callee[t].cloned THEN roots \ {callee[t].state} ELSE roots
      /\ runs' = runs /\ callee' = callee /\ calls' = calls /\ is_running' = is_running
      /\ entry' = entry /\ stack_ptr' = stack_ptr
  BY DEF Unroot
<1>2. /\ TypeOK /\ StacksFormed
      /\ pc \in [Threads -> {"exec", "prepare", "enter", "begin", "end", "returned", "done"}]
      /\ roots \subseteq Clones
  BY DEF IInv, TypeOK
<1>3. /\ pc'[t] \in {"exec", "end"} /\ \A u \in Threads : u # t => pc'[u] = pc[u]
  BY <1>2
<1>4. /\ pc' \in [Threads -> {"exec", "prepare", "enter", "begin", "end", "returned", "done"}]
      /\ roots' \subseteq Clones
  BY <1>1, <1>2
<1>5. StacksFormed'
  BY <1>1, <1>2, <1>3 DEF StacksFormed, Pending, Top
<1>6. RunsPrepared' /\ PendingIsFree'
  BY <1>1, <1>3 DEF IInv, RunsPrepared, PendingIsFree, Pending
<1>7. UnsharedRunOnce' /\ RunningFlagExact'
  BY <1>1 DEF IInv, UnsharedRunOnce, OneRunIn, RunningFlagExact, RunsIn
<1>8. /\ \A u \in Threads : \A c \in Clones : u # t => (Holds(u, c)' <=> Holds(u, c))
      /\ \A c \in Clones : /\ ~ Holds(t, c)'
                           /\ Holds(t, c) <=> callee[t].cloned /\ callee[t].state = c
  BY <1>1, <1>3 DEF Holds
<1>9. ClonesHeldOnce'
  BY <1>1, <1>8 DEF IInv, ClonesHeldOnce, RunsIn
<1>10. ClonesRooted'
  <2> SUFFICES ASSUME NEW c \in Clones
               PROVE  c \in roots' <=> \E u \in Threads :
                        \/ Holds(u, c)'
                        \/ \E i \in 1..Len(runs[u]) : runs[u][i].state = c /\ runs[u][i].cloned
    BY <1>1 DEF ClonesRooted, RunsIn
  <2>1. c \in roots <=> \E u \in Threads :
          Holds(u, c) \/ \E i \in 1..Len(runs[u]) : runs[u][i].state = c /\ runs[u][i].cloned
    BY DEF IInv, ClonesRooted, RunsIn
  <2>2. CASE Holds(t, c)
    <3>1. \A u \in Threads : /\ Holds(u, c) => u = t
                             /\ \A i \in 1..Len(runs[u]) :
                                  ~ (runs[u][i].state = c /\ runs[u][i].cloned)
      BY <2>2 DEF IInv, ClonesHeldOnce, RunsIn
    <3>2. c \notin roots'
      BY <1>1, <1>8, <2>2
    <3> QED
      BY <1>8, <3>1, <3>2
  <2>3. CASE ~ Holds(t, c)
    <3>1. c \in roots' <=> c \in roots
      BY <1>1, <1>8, <2>3
    <3> QED
      BY <1>8, <2>1, <2>3, <3>1
  <2> QED
    BY <2>2, <2>3
<1>11. StacksNested'
  BY <1>1, <1>3 DEF IInv, StacksNested, Top, Self
<1> QED
  BY <1>4, <1>5, <1>6, <1>7, <1>9, <1>10, <1>11

\* The caller has a value, and goes on in its own state.
LEMMA TakeResultStep ==
  ASSUME IInv, NEW t \in Threads, TakeResult(t)
  PROVE  IInv'
<1>1. /\ pc[t] = "returned" /\ pc' = [pc EXCEPT ![t] = "exec"] /\ Unroot(t)
      /\ runs' = runs /\ callee' = callee /\ calls' = calls /\ is_running' = is_running
      /\ entry' = entry /\ stack_ptr' = stack_ptr /\ result' = result
  BY DEF TakeResult, Goto
<1>2. pc'[t] = "exec" /\ \A u \in Threads : u # t => pc'[u] = pc[u]
  BY <1>1 DEF IInv, TypeOK
<1>3. /\ pc' \in [Threads -> {"exec", "prepare", "enter", "begin", "end", "returned", "done"}]
      /\ roots' \subseteq Clones
      /\ StacksFormed' /\ RunsPrepared' /\ UnsharedRunOnce' /\ RunningFlagExact'
      /\ PendingIsFree' /\ ClonesHeldOnce' /\ ClonesRooted' /\ StacksNested'
  BY <1>1, <1>2, UnrootStep
<1>4. TypeOK'
  BY <1>1, <1>3 DEF IInv, TypeOK
<1>5. CallsInState'
  BY <1>1, <1>2 DEF IInv, CallsInState, Top, Self
<1> QED
  BY <1>3, <1>4, <1>5 DEF IInv

\* The caller's run ends with the exception, for the call that it was made for.
LEMMA ThrowOnStep ==
  ASSUME IInv, NEW t \in Threads, ThrowOn(t)
  PROVE  IInv'
<1> DEFINE n == Len(runs[t])
           s == Self(t)
<1>1. /\ pc[t] = "returned" /\ pc' = [pc EXCEPT ![t] = "end"] /\ Unroot(t) /\ n > 1
      /\ result' = [result EXCEPT ![s] = [call |-> Top(t).call, ok |-> FALSE]]
      /\ runs' = runs /\ callee' = callee /\ calls' = calls /\ is_running' = is_running
      /\ entry' = entry /\ stack_ptr' = stack_ptr
  BY DEF ThrowOn, Goto
<1>2. /\ TypeOK /\ StacksFormed
      /\ pc \in [Threads -> {"exec", "prepare", "enter", "begin", "end", "returned", "done"}]
      /\ result \in [States -> [call : Calls, ok : BOOLEAN]]
      /\ s \in States /\ Top(t).call \in Calls /\ n \in 1..n /\ runs[t][n].state = s
  BY <1>1, TopTypes DEF IInv, TypeOK, RunsIn
<1>3. /\ pc'[t] = "end" /\ \A u \in Threads : u # t => pc'[u] = pc[u]
      /\ result'[s].call = Top(t).call /\ \A z \in States : z # s => result'[z] = result[z]
  BY <1>1, <1>2
<1>4. /\ pc' \in [Threads -> {"exec", "prepare", "enter", "begin", "end", "returned", "done"}]
      /\ roots' \subseteq Clones
      /\ StacksFormed' /\ RunsPrepared' /\ UnsharedRunOnce' /\ RunningFlagExact'
      /\ PendingIsFree' /\ ClonesHeldOnce' /\ ClonesRooted' /\ StacksNested'
  BY <1>1, UnrootStep
<1>5. TypeOK'
  BY <1>1, <1>2, <1>4 DEF TypeOK
<1>6. CallsInState'
  <2>1. ASSUME NEW u \in Threads, pc'[u] = "end", Unshared(Self(u))
        PROVE  result'[Self(u)].call = Top(u).call
    <3>1. CASE u = t
      BY <1>3, <3>1
    <3>2. CASE u # t
      <4>1. pc[u] = "end" /\ Self(u) \in States /\ RunsIn(u, Len(runs[u]), Self(u))
        BY <1>2, <1>3, <2>1, <3>2, TopTypes
      <4>2. Self(u) # s
        BY <1>2, <2>1, <3>2, <4>1, RunAlone DEF RunsIn
      <4> QED
        BY <1>3, <2>1, <4>1, <4>2 DEF IInv, CallsInState
    <3> QED
      BY <3>1, <3>2
  <2>2. ASSUME NEW u \in Threads, pc'[u] = "returned", Unshared(callee[u].state)
        PROVE  result'[callee[u].state].call = callee[u].call
    <3>1. pc[u] = "returned" /\ Pending(u) /\ callee[u].state \in States
      BY <1>2, <1>3, <2>2, Types DEF Pending
    <3>2. callee[u].state # s
      BY <1>2, <2>2, <3>1, PendingNotRun
    <3> QED
      BY <1>3, <2>2, <3>1, <3>2 DEF IInv, CallsInState
  <2>3. \A u \in Threads : pc'[u] \in {"prepare", "enter", "begin"} => pc[u] = pc'[u]
    BY <1>3
  <2> QED
    BY <1>1, <2>1, <2>2, <2>3 DEF IInv, CallsInState, Top, Self
<1> QED
  BY <1>4, <1>5, <1>6 DEF IInv

\* The first run of the thread, in its own state, is the only one left.
LEMMA EndThreadStep ==
  ASSUME IInv, NEW t \in Threads, EndThread(t)
  PROVE  IInv'
<1>1. /\ pc[t] = "exec" /\ pc' = [pc EXCEPT ![t] = "done"] /\ Len(runs[t]) = 1
      /\ is_running' = [is_running EXCEPT ![t] = FALSE]
      /\ runs' = [runs EXCEPT ![t] = <<>>]
      /\ callee' = callee /\ calls' = calls /\ entry' = entry /\ result' = result
      /\ stack_ptr' = stack_ptr /\ roots' = roots
  BY DEF EndThread, Goto
<1>2. /\ TypeOK /\ StacksFormed
      /\ pc \in [Threads -> {"exec", "prepare", "enter", "begin", "end", "returned", "done"}]
      /\ runs \in [Threads -> Seq(Activations)] /\ is_running \in [States -> BOOLEAN]
      /\ t \in States
      /\ runs[t][1].state = t /\ ~ runs[t][1].cloned
  BY <1>1 DEF IInv, TypeOK, StacksFormed, States
<1>3. /\ pc'[t] = "done" /\ runs'[t] = <<>> /\ Len(runs'[t]) = 0
      /\ \A u \in Threads : u # t => pc'[u] = pc[u] /\ runs'[u] = runs[u]
      /\ ~ is_running'[t] /\ \A z \in States : z # t => is_running'[z] = is_running[z]
  BY <1>1, <1>2
<1>4. <<>> \in Seq(Activations)
  OBVIOUS
<1>5. TypeOK'
  BY <1>1, <1>2, <1>4 DEF TypeOK
<1>6. \A u \in Threads : \A i \in 1..Len(runs'[u]) :
        u # t /\ i \in 1..Len(runs[u]) /\ runs'[u][i] = runs[u][i]
  BY <1>3
<1>7. \A i \in 1..Len(runs[t]) : runs[t][i].state = t /\ ~ runs[t][i].cloned
  BY <1>1, <1>2
<1>8. StacksFormed'
  BY <1>1, <1>2, <1>3 DEF StacksFormed, Pending, Top
<1>9. RunsPrepared'
  <2>1. \A u \in Threads : \A i \in 2..Len(runs'[u]) : entry[runs'[u][i].state] # NoCall
    BY <1>3 DEF IInv, RunsPrepared
  <2>2. \A c \in Clones : is_running'[c] => is_running[c]
    BY <1>3 DEF States
  <2>3. \A u \in Threads : pc'[u] \in {"prepare", "enter"} => pc[u] = pc'[u]
    BY <1>3
  <2> QED
    BY <1>1, <2>1, <2>2, <2>3 DEF IInv, RunsPrepared
<1>10. UnsharedRunOnce'
  <2> SUFFICES ASSUME NEW z \in States, Unshared(z), NEW u \in Threads, NEW v \in Threads,
                      NEW i \in 1..Len(runs'[u]), NEW j \in 1..Len(runs'[v]),
                      runs'[u][i].state = z, runs'[v][j].state = z
               PROVE  u = v /\ i = j
    BY DEF UnsharedRunOnce, OneRunIn, RunsIn
  <2>1. /\ i \in 1..Len(runs[u]) /\ runs[u][i].state = z
        /\ j \in 1..Len(runs[v]) /\ runs[v][j].state = z
    BY <1>6
  <2> QED
    BY <2>1 DEF IInv, UnsharedRunOnce, OneRunIn, RunsIn
<1>11. RunningFlagExact'
  <2> SUFFICES ASSUME NEW z \in States, Unshared(z)
               PROVE  is_running'[z] <=>
                        \E u \in Threads : \E i \in 1..Len(runs'[u]) : runs'[u][i].state = z
    BY DEF RunningFlagExact, RunsIn
  <2>1. CASE z = t
    <3>1. 1 \in 1..Len(runs[t]) /\ RunsIn(t, 1, z)
      BY <1>1, <1>2, <2>1 DEF RunsIn
    <3>2. \A u \in Threads : \A i \in 1..Len(runs[u]) : runs[u][i].state = z => u = t
      BY <3>1 DEF IInv, UnsharedRunOnce, OneRunIn, RunsIn
    <3> QED
      BY <1>3, <1>6, <2>1, <3>2
  <2>2. CASE z # t
    <3>1. is_running[z] <=> \E u \in Threads : \E i \in 1..Len(runs[u]) : runs[u][i].state = z
      BY DEF IInv, RunningFlagExact, RunsIn
    <3>2. \A u \in Threads : \A i \in 1..Len(runs[u]) : runs[u][i].state = z => u # t
      BY <1>7, <2>2
    <3> QED
      BY <1>3, <1>6, <2>2, <3>1, <3>2
  <2> QED
    BY <2>1, <2>2
<1>12. PendingIsFree'
  <2>1. \A u \in Threads : callee[u].state \in States
    BY <1>2, Types
  <2> QED
    BY <1>1, <1>3, <2>1 DEF IInv, PendingIsFree, Pending
<1>13. CallsInState'
  <2>1. \A u \in Threads : u # t => Top(u)' = Top(u) /\ Self(u)' = Self(u)
    BY <1>3 DEF Top, Self
  <2>2. \A u \in Threads : \A i \in 1..Len(runs'[u]) :
          Unshared(runs'[u][i].state) => runs'[u][i].found = runs'[u][i].call
    BY <1>6 DEF IInv, CallsInState
  <2> QED
    BY <1>1, <1>3, <2>1, <2>2 DEF IInv, CallsInState
<1>14. \A u \in Threads : \A c \in Clones : Holds(u, c)' <=> Holds(u, c)
  BY <1>1, <1>3 DEF Holds
<1>15. ClonesHeldOnce'
  BY SMTT(40), <1>6, <1>14 DEF IInv, ClonesHeldOnce, RunsIn
<1>16. ClonesRooted'
  <2> SUFFICES ASSUME NEW c \in Clones
               PROVE  c \in roots <=> \E u \in Threads :
                        \/ Holds(u, c)
                        \/ \E i \in 1..Len(runs'[u]) : runs'[u][i].state = c /\ runs'[u][i].cloned
    BY <1>1, <1>14 DEF ClonesRooted, RunsIn
  <2>1. c \in roots <=> \E u \in Threads :
          Holds(u, c) \/ \E i \in 1..Len(runs[u]) : runs[u][i].state = c /\ runs[u][i].cloned
    BY DEF IInv, ClonesRooted, RunsIn
  <2> QED
    BY <1>3, <1>6, <1>7, <2>1
<1>17. StacksNested'
  <2>1. \A u \in Threads : \A i \in 1..(Len(runs'[u]) - 1) : u # t
    BY <1>3
  <2>2. \A u \in Threads : pc'[u] = "enter" => u # t /\ pc[u] = "enter" /\ Self(u)' = Self(u)
    BY <1>3 DEF Top, Self
  <2> QED
    BY SMTT(40), <1>1, <1>3, <2>1, <2>2 DEF IInv, StacksNested
<1> QED
  BY <1>5, <1>8, <1>9, <1>10, <1>11, <1>12, <1>13, <1>15, <1>16, <1>17 DEF IInv

\* The state that a call is about to be made in is not running, and a clone for
\* it is one that nobody has heard of.
LEMMA ChosenState ==
  ASSUME IInv, NEW t \in Threads, NEW s \in States, CallOthersFunction(t, s)
  PROVE  /\ callee'[t].state \in States \cap Reach[t] /\ callee'[t].cloned \in BOOLEAN
         /\ callee'[t].call \in Calls /\ callee'[t].call # NoCall
         /\ callee'[t].found = callee'[t].call /\ callee'[t] \in Activations
         /\ callee' = [callee EXCEPT ![t] = callee'[t]]
         /\ ~ is_running[callee'[t].state]
         /\ roots' = IF callee'[t].cloned THEN roots \cup {callee'[t].state} ELSE roots
         /\ callee'[t].cloned =>
              /\ callee'[t].state \in Clones
              /\ \A u \in Threads : ~ Holds(u, callee'[t].state)
              /\ \A u \in Threads : \A i \in 1..Len(runs[u]) : runs[u][i].state # callee'[t].state
<1> DEFINE call == <<t, calls'[t]>>
<1>1. calls' = [calls EXCEPT ![t] = calls[t] + 1] /\ s \in Reach[t] /\ ChooseState(t, s, call)
  BY DEF CallOthersFunction
<1>2. TypeOK /\ StacksFormed /\ callee \in [Threads -> Activations] /\ calls[t] \in Nat
  BY DEF IInv, TypeOK
<1>3. call \in Calls /\ call # NoCall
  <2>1. calls \in [Threads -> Nat]
    BY <1>2 DEF TypeOK
  <2>2. calls'[t] \in Nat \ {0}
    BY <1>1, <1>2, <2>1
  <2> QED
    BY <2>2 DEF Calls, NoCall
<1>4. \A z \in States, b \in BOOLEAN :
        /\ Activation(z, call, b) \in Activations
        /\ Activation(z, call, b).state = z /\ Activation(z, call, b).cloned = b
        /\ Activation(z, call, b).call = call /\ Activation(z, call, b).found = call
  BY <1>3 DEF Activation, Activations
<1>5. CASE /\ ~ is_running[s]
           /\ callee' = [callee EXCEPT ![t] = Activation(s, call, FALSE)]
           /\ UNCHANGED roots
  <2>1. callee'[t] = Activation(s, call, FALSE)
    BY <1>2, <1>5
  <2> QED
    BY ZenonT(60), <1>1, <1>3, <1>4, <1>5, <2>1
<1>6. CASE \E c \in {c \in Clones \cap Reach[t] : ~ Made(c)} :
             /\ callee' = [callee EXCEPT ![t] = Activation(c, call, TRUE)]
             /\ roots' = roots \cup {c}
  <2>1. PICK c \in Clones \cap Reach[t] :
          /\ ~ Made(c)
          /\ callee' = [callee EXCEPT ![t] = Activation(c, call, TRUE)]
          /\ roots' = roots \cup {c}
    BY <1>6
  <2>2. c \in States /\ callee'[t] = Activation(c, call, TRUE)
    BY <1>2, <2>1 DEF States
  <2>3. entry[c] = NoCall /\ \A u \in Threads : callee[u].state # c
    BY <2>1 DEF Made
  <2>4. \A u \in Threads : ~ Holds(u, c)
    BY <2>3 DEF Holds
  <2>5. ~ is_running[c]
    BY <2>1, <2>3 DEF IInv, RunsPrepared
  <2>6. ASSUME NEW u \in Threads, NEW i \in 1..Len(runs[u])
        PROVE  runs[u][i].state # c
    <3>1. CASE i = 1
      <4>1. Len(runs[u]) # 0
        BY <2>6
      <4>2. runs[u][1].state = u
        BY <1>2, <4>1 DEF StacksFormed
      <4> QED
        BY <2>1, <3>1, <4>2, CallStatesAssumption
    <3>2. CASE i # 1
      <4>1. i \in 2..Len(runs[u])
        BY <1>2, <2>6, <3>2, Types
      <4> QED
        BY <2>3, <4>1 DEF IInv, RunsPrepared
    <3> QED
      BY <3>1, <3>2
  <2>7. /\ callee'[t] \in Activations /\ callee'[t].cloned = TRUE /\ callee'[t].state = c
        /\ callee'[t].call = call /\ callee'[t].found = call
    BY <1>4, <2>2
  <2>8. callee' = [callee EXCEPT ![t] = callee'[t]]
    BY <2>1, <2>2
  <2>9. roots' = IF callee'[t].cloned THEN roots \cup {callee'[t].state} ELSE roots
    BY <2>1, <2>7
  <2> QED
    BY ZenonT(60), <1>3, <2>1, <2>2, <2>4, <2>5, <2>6, <2>7, <2>8, <2>9
<1> QED
  BY <1>1, <1>5, <1>6 DEF ChooseState

\* The caller's stack grows over the arguments, and the chosen state is pending.
LEMMA CallOthersFunctionStep ==
  ASSUME IInv, NEW t \in Threads, NEW called \in States, CallOthersFunction(t, called)
  PROVE  IInv'
<1> DEFINE n == Len(runs[t])
           s == Self(t)
           a == callee'[t]
<1>1. /\ pc[t] = "exec" /\ pc' = [pc EXCEPT ![t] = "prepare"]
      /\ calls' = [calls EXCEPT ![t] = calls[t] + 1]
      /\ stack_ptr' = [stack_ptr EXCEPT ![s] = stack_ptr[s] + Args + 1]
      /\ runs' = runs /\ is_running' = is_running /\ entry' = entry /\ result' = result
  BY DEF CallOthersFunction, Goto
<1>2. /\ a.state \in States \cap Reach[t] /\ a.cloned \in BOOLEAN
      /\ a.call \in Calls /\ a.call # NoCall /\ a.found = a.call /\ a \in Activations
      /\ callee' = [callee EXCEPT ![t] = a] /\ ~ is_running[a.state]
      /\ roots' = IF a.cloned THEN roots \cup {a.state} ELSE roots
      /\ a.cloned => /\ a.state \in Clones
                     /\ \A u \in Threads : ~ Holds(u, a.state)
                     /\ \A u \in Threads : \A i \in 1..Len(runs[u]) : runs[u][i].state # a.state
  BY ChosenState
<1>3. /\ TypeOK /\ StacksFormed
      /\ pc \in [Threads -> {"exec", "prepare", "enter", "begin", "end", "returned", "done"}]
      /\ callee \in [Threads -> Activations] /\ calls \in [Threads -> Nat]
      /\ stack_ptr \in [States -> Int] /\ Args \in Nat
      /\ s \in States /\ stack_ptr[s] \in Int /\ n \in Nat /\ n \in 1..n /\ runs[t][n].state = s
  BY <1>1, TopTypes, CallStatesAssumption DEF IInv, TypeOK, RunsIn
<1>4. TypeOK'
  <2>1. roots' \subseteq Clones
    BY <1>2, <1>3 DEF TypeOK
  <2>2. stack_ptr' \in [States -> Int] /\ calls' \in [Threads -> Nat]
    BY <1>1, <1>3
  <2>3. callee' \in [Threads -> Activations]
    BY <1>2, <1>3
  <2> QED
    BY <1>1, <1>3, <2>1, <2>2, <2>3 DEF TypeOK
<1>5. /\ pc'[t] = "prepare"
      /\ \A u \in Threads : u # t => pc'[u] = pc[u] /\ callee'[u] = callee[u]
      /\ stack_ptr'[s] = stack_ptr[s] + Args + 1
      /\ \A z \in States : z # s => stack_ptr'[z] = stack_ptr[z]
  BY <1>1, <1>2, <1>3
<1>6. StacksFormed'
  <2>1. \A u \in Threads : u # t => (Pending(u)' <=> Pending(u))
    BY <1>5 DEF Pending
  <2> QED
    BY SMTT(40), <1>1, <1>2, <1>3, <1>5, <2>1 DEF StacksFormed, Top
<1>7. RunsPrepared'
  <2>1. \A u \in Threads : pc'[u] \in {"prepare", "enter"} => callee'[u].call # NoCall
    BY <1>2, <1>5 DEF IInv, RunsPrepared
  <2>2. \A u \in Threads : pc'[u] = "enter" => entry[callee'[u].state] # NoCall
    BY <1>5 DEF IInv, RunsPrepared
  <2> QED
    BY <1>1, <2>1, <2>2 DEF IInv, RunsPrepared
<1>8. UnsharedRunOnce' /\ RunningFlagExact'
  BY <1>1 DEF IInv, UnsharedRunOnce, OneRunIn, RunningFlagExact, RunsIn
<1>9. PendingIsFree'
  <2>1. \A u \in Threads : u # t /\ Pending(u)' => Pending(u)
    BY <1>5 DEF Pending
  <2> QED
    BY <1>1, <1>2, <1>5, <2>1 DEF IInv, PendingIsFree
<1>10. CallsInState'
  <2>1. \A u \in Threads : pc'[u] \in {"prepare", "enter"} => callee'[u].found = callee'[u].call
    BY <1>2, <1>5 DEF IInv, CallsInState
  <2>2. \A u \in Threads : pc'[u] \in {"enter", "begin"} /\ Unshared(callee'[u].state) =>
          entry[callee'[u].state] = callee'[u].call
    BY <1>5 DEF IInv, CallsInState
  <2>3. \A u \in Threads : pc'[u] = "returned" /\ Unshared(callee'[u].state) =>
          result[callee'[u].state].call = callee'[u].call
    BY <1>5 DEF IInv, CallsInState
  <2>4. \A u \in Threads : pc'[u] = "end" => pc[u] = "end"
    BY <1>5
  <2> QED
    BY <1>1, <2>1, <2>2, <2>3, <2>4 DEF IInv, CallsInState, Top, Self
<1>11. /\ \A u \in Threads : \A c \in Clones : u # t => (Holds(u, c)' <=> Holds(u, c))
       /\ \A c \in Clones : ~ Holds(t, c) /\ (Holds(t, c)' <=> a.cloned /\ a.state = c)
  BY <1>1, <1>5 DEF Holds
<1>12. ClonesHeldOnce'
  <2> SUFFICES ASSUME NEW c \in Clones, NEW u \in Threads, NEW v \in Threads
               PROVE  /\ Holds(u, c)' /\ Holds(v, c)' => u = v
                      /\ \A i \in 1..Len(runs[u]) : runs[u][i].state = c /\ runs[u][i].cloned =>
                           /\ ~ Holds(v, c)'
                           /\ \A j \in 1..Len(runs[v]) :
                                runs[v][j].state = c /\ runs[v][j].cloned => u = v /\ i = j
    BY <1>1 DEF ClonesHeldOnce, RunsIn
  <2>1. \A w, x \in Threads :
          /\ Holds(w, c) /\ Holds(x, c) => w = x
          /\ \A i \in 1..Len(runs[w]) : runs[w][i].state = c /\ runs[w][i].cloned =>
               /\ ~ Holds(x, c)
               /\ \A j \in 1..Len(runs[x]) :
                    runs[x][j].state = c /\ runs[x][j].cloned => w = x /\ i = j
    BY DEF IInv, ClonesHeldOnce, RunsIn
  <2>2. CASE a.cloned /\ a.state = c
    <3>1. \A w \in Threads : /\ ~ Holds(w, c)
                             /\ \A i \in 1..Len(runs[w]) : runs[w][i].state # c
      BY <1>2, <2>2
    <3> QED
      BY <1>11, <3>1
  <2>3. CASE ~ (a.cloned /\ a.state = c)
    <3>1. \A w \in Threads : Holds(w, c)' <=> Holds(w, c)
      BY <1>11, <2>3
    <3> QED
      BY <2>1, <3>1
  <2> QED
    BY <2>2, <2>3
<1>13. ClonesRooted'
  <2> SUFFICES ASSUME NEW c \in Clones
               PROVE  c \in roots' <=> \E u \in Threads :
                        \/ Holds(u, c)'
                        \/ \E i \in 1..Len(runs[u]) : runs[u][i].state = c /\ runs[u][i].cloned
    BY <1>1 DEF ClonesRooted, RunsIn
  <2>1. c \in roots <=> \E u \in Threads :
          Holds(u, c) \/ \E i \in 1..Len(runs[u]) : runs[u][i].state = c /\ runs[u][i].cloned
    BY DEF IInv, ClonesRooted, RunsIn
  <2>2. CASE a.cloned /\ a.state = c
    <3>1. c \in roots' /\ Holds(t, c)'
      BY <1>2, <1>11, <2>2
    <3> QED
      BY <3>1
  <2>3. CASE ~ (a.cloned /\ a.state = c)
    <3>1. (c \in roots' <=> c \in roots) /\ \A w \in Threads : Holds(w, c)' <=> Holds(w, c)
      BY <1>2, <1>11, <2>3
    <3> QED
      BY <2>1, <3>1
  <2> QED
    BY <2>2, <2>3
<1>14. ASSUME Unshared(s)
       PROVE  /\ \A u \in Threads : \A i \in 1..Len(runs[u]) : runs[u][i].state = s => u = t /\ i = n
              /\ \A u \in Threads : Pending(u) => callee[u].state # s
  <2> DEFINE z == runs[t][n].state
  <2>0. z = s /\ Unshared(z) /\ n \in 1..Len(runs[t])
    BY <1>3, <1>14
  <2>1. \A u \in Threads : \A i \in 1..Len(runs[u]) : runs[u][i].state = s => u = t /\ i = n
    <3>1. ASSUME NEW u \in Threads
          PROVE  \A i \in 1..Len(runs[u]) : runs[u][i].state = z => t = u /\ n = i
      BY <2>0, RunAlone
    <3> QED
      BY <2>0, <3>1
  <2>2. \A u \in Threads : Pending(u) => callee[u].state # s
    <3>1. \A u \in Threads : Pending(u) => callee[u].state # z
      BY <2>0, RunAlone
    <3> QED
      BY <2>0, <3>1
  <2> QED
    BY <2>1, <2>2
<1>15. StacksNested'
  <2>1. ASSUME NEW u \in Threads, NEW i \in 1..(Len(runs[u]) - 1),
               Unshared(runs[u][i].state), Unshared(runs[u][i + 1].state)
        PROVE  stack_ptr'[runs[u][i + 1].state] >= stack_ptr'[runs[u][i].state]
                  - IF pc'[u] = "begin" /\ i = Len(runs[u]) - 1 THEN 0 ELSE Args + 1
    <3>1. i \in 1..Len(runs[u]) /\ i + 1 \in 1..Len(runs[u]) /\ i # Len(runs[u])
      BY <1>3, Types
    <3>2. /\ runs[u][i].state \in States /\ runs[u][i + 1].state \in States
          /\ runs[u][i].state # s
      BY <1>3, <1>14, <2>1, <3>1, Types
    <3>3. stack_ptr'[runs[u][i].state] = stack_ptr[runs[u][i].state]
      BY <1>5, <3>2
    <3>4. /\ stack_ptr[runs[u][i].state] \in Int /\ stack_ptr[runs[u][i + 1].state] \in Int
          /\ stack_ptr'[runs[u][i + 1].state] \in Int
          /\ stack_ptr'[runs[u][i + 1].state] >= stack_ptr[runs[u][i + 1].state]
      <4>1. \A z \in States : stack_ptr[z] \in Int /\ stack_ptr'[z] \in Int
        BY <1>3, <1>4 DEF TypeOK
      <4>2. \A z \in States : stack_ptr'[z] >= stack_ptr[z]
        BY SMTT(40), <1>3, <1>5, <4>1
      <4> QED
        BY <3>2, <4>1, <4>2
    <3>5. stack_ptr[runs[u][i + 1].state] >= stack_ptr[runs[u][i].state]
            - IF pc'[u] = "begin" /\ i = Len(runs[u]) - 1 THEN 0 ELSE Args + 1
      <4>1. pc'[u] = "begin" <=> pc[u] = "begin"
        BY <1>1, <1>5
      <4> QED
        BY <2>1, <4>1 DEF IInv, StacksNested
    <3> DEFINE taken == IF pc'[u] = "begin" /\ i = Len(runs[u]) - 1 THEN 0 ELSE Args + 1
    <3>6. taken \in Int
      BY CallStatesAssumption
    <3>7. stack_ptr[runs[u][i + 1].state] >= stack_ptr[runs[u][i].state] - taken
      BY <3>5
    <3> HIDE DEF taken
    <3>8. stack_ptr'[runs[u][i + 1].state] >= stack_ptr'[runs[u][i].state] - taken
      BY <3>3, <3>4, <3>6, <3>7
    <3> QED
      BY <3>8 DEF taken
  <2>2. ASSUME NEW u \in Threads, pc'[u] = "enter", Unshared(Self(u)), Unshared(callee'[u].state)
        PROVE  stack_ptr'[callee'[u].state] >= stack_ptr'[Self(u)]
    <3>1. u # t /\ pc[u] = "enter" /\ Pending(u) /\ callee'[u] = callee[u]
      BY <1>5, <2>2 DEF Pending
    <3>2. Self(u) \in States /\ RunsIn(u, Len(runs[u]), Self(u)) /\ callee[u].state \in States
      BY <1>3, <3>1, Types, TopTypes
    <3>3. callee[u].state # s /\ Self(u) # s
      BY <1>14, <2>2, <3>1, <3>2 DEF RunsIn
    <3> QED
      BY <1>5, <2>2, <3>1, <3>2, <3>3 DEF IInv, StacksNested
  <2> QED
    BY <1>1, <2>1, <2>2 DEF StacksNested, Top, Self
<1> QED
  BY <1>4, <1>6, <1>7, <1>8, <1>9, <1>10, <1>12, <1>13, <1>15 DEF IInv

-----------------------------------------------------------------------------
(* The invariant and the properties                                        *)

\* Every thread runs in its own state, and nothing has been called.
LEMMA InitIInv == Init => IInv
<1> SUFFICES ASSUME Init PROVE IInv
  OBVIOUS
<1>1. \A t \in Threads :
        /\ runs[t] = <<Activation(t, NoCall, FALSE)>> /\ callee[t] = Activation(t, NoCall, FALSE)
        /\ pc[t] = "exec" /\ Len(runs[t]) = 1 /\ runs[t][1] = Activation(t, NoCall, FALSE)
  BY DEF Init
<1>2. \A t \in Threads :
        /\ Activation(t, NoCall, FALSE) \in Activations /\ Activation(t, NoCall, FALSE).state = t
        /\ Activation(t, NoCall, FALSE).call = NoCall /\ ~ Activation(t, NoCall, FALSE).cloned
        /\ Activation(t, NoCall, FALSE).found = NoCall
        /\ <<Activation(t, NoCall, FALSE)>> \in Seq(Activations)
  BY DEF Activation, Activations, States, Calls
<1>3. \A z \in States : /\ is_running[z] <=> z \in Threads
                        /\ entry[z] = NoCall /\ stack_ptr[z] = 0
  BY DEF Init
<1>4. \A t \in Threads :
        /\ Len(runs[t]) = 1 /\ runs[t][1].state = t /\ ~ runs[t][1].cloned
        /\ runs[t][1].found = runs[t][1].call
        /\ \A i \in 1..Len(runs[t]) : i = 1
        /\ 1 \in 1..Len(runs[t])
  <2> SUFFICES ASSUME NEW t \in Threads
               PROVE  /\ Len(runs[t]) = 1 /\ runs[t][1].state = t /\ ~ runs[t][1].cloned
                      /\ runs[t][1].found = runs[t][1].call
                      /\ \A i \in 1..Len(runs[t]) : i = 1
                      /\ 1 \in 1..Len(runs[t])
    OBVIOUS
  <2>1. Len(runs[t]) = 1 /\ runs[t][1] = Activation(t, NoCall, FALSE)
    BY <1>1
  <2>2. (\A i \in 1..Len(runs[t]) : i = 1) /\ 1 \in 1..Len(runs[t])
    BY <2>1
  <2> QED
    BY ZenonT(60), <1>2, <2>1, <2>2
<1>5. TypeOK
  <2>1. runs \in [Threads -> Seq(Activations)] /\ callee \in [Threads -> Activations]
    BY <1>2 DEF Init
  <2>2. /\ entry \in [States -> Calls]
        /\ result \in [States -> [call : Calls, ok : BOOLEAN]]
    BY DEF Init, Calls
  <2>3. is_running \in [States -> BOOLEAN] /\ roots \subseteq Clones
    BY DEF Init
  <2>4. /\ pc \in [Threads -> {"exec", "prepare", "enter", "begin", "end", "returned", "done"}]
        /\ calls \in [Threads -> Nat]
        /\ stack_ptr \in [States -> Int]
    BY DEF Init
  <2> QED
    BY <2>1, <2>2, <2>3, <2>4 DEF TypeOK
<1>6. StacksFormed
  <2>1. \A t \in Threads : \A i \in 2..Len(runs[t]) : FALSE
    BY <1>4
  <2>2. \A t \in Threads : ~ Pending(t)
    BY <1>1 DEF Pending
  <2> QED
    BY <1>1, <1>4, <2>1, <2>2 DEF StacksFormed
<1>7. RunsPrepared
  <2>1. \A c \in Clones : ~ is_running[c]
    BY <1>3, CallStatesAssumption DEF States
  <2>2. \A t \in Threads : \A i \in 2..Len(runs[t]) : FALSE
    BY <1>4
  <2> QED
    BY <1>1, <2>1, <2>2 DEF RunsPrepared
<1>8. UnsharedRunOnce
  <2>1. \A t \in Threads : \A i \in 1..Len(runs[t]) : runs[t][i].state = t /\ i = 1
    BY <1>4
  <2> QED
    BY <2>1 DEF UnsharedRunOnce, OneRunIn, RunsIn
<1>9. RunningFlagExact
  <2>1. \A t \in Threads : \A i \in 1..Len(runs[t]) : runs[t][i].state = t
    BY <1>4
  <2> QED
    BY <1>3, <1>4, <2>1 DEF RunningFlagExact, RunsIn
<1>10. PendingIsFree
  BY <1>1 DEF PendingIsFree, Pending
<1>11. CallsInState
  <2>1. \A t \in Threads : \A i \in 1..Len(runs[t]) : runs[t][i].found = runs[t][i].call
    BY <1>4
  <2> QED
    BY <1>1, <2>1 DEF CallsInState
<1>12. \A t \in Threads : \A c \in Clones :
         ~ Holds(t, c) /\ \A i \in 1..Len(runs[t]) : runs[t][i].state # c
  <2>1. \A t \in Threads : \A i \in 1..Len(runs[t]) : runs[t][i].state = t
    BY <1>4
  <2>2. \A t \in Threads : \A c \in Clones : t # c
    BY CallStatesAssumption
  <2>3. \A t \in Threads : \A c \in Clones : ~ Holds(t, c)
    BY <1>1 DEF Holds
  <2> QED
    BY <2>1, <2>2, <2>3
<1>13. ClonesHeldOnce
  BY <1>12 DEF ClonesHeldOnce, RunsIn
<1>14. ClonesRooted
  BY <1>12 DEF ClonesRooted, RunsIn, Init
<1>15. StacksNested
  <2>1. \A t \in Threads : \A i \in 1..(Len(runs[t]) - 1) : FALSE
    BY <1>4
  <2> QED
    BY <1>1, <2>1 DEF StacksNested
<1> QED
  BY <1>5, <1>6, <1>7, <1>8, <1>9, <1>10, <1>11, <1>13, <1>14, <1>15 DEF IInv

\* The step that changes nothing.
LEMMA Stutter == IInv /\ UNCHANGED vars => IInv'
<1> SUFFICES ASSUME IInv, UNCHANGED vars PROVE IInv'
  OBVIOUS
<1>1. /\ pc' = pc /\ runs' = runs /\ callee' = callee /\ calls' = calls
      /\ is_running' = is_running /\ entry' = entry /\ result' = result
      /\ stack_ptr' = stack_ptr /\ roots' = roots
  BY DEF vars
<1>2. TypeOK' /\ StacksFormed' /\ RunsPrepared'
  BY <1>1 DEF IInv, TypeOK, StacksFormed, RunsPrepared, Pending, Top
<1>3. UnsharedRunOnce' /\ RunningFlagExact' /\ PendingIsFree'
  BY <1>1 DEF IInv, UnsharedRunOnce, OneRunIn, RunningFlagExact, RunsIn, PendingIsFree, Pending
<1>4. CallsInState' /\ StacksNested'
  BY <1>1 DEF IInv, CallsInState, StacksNested, Top, Self
<1>5. ClonesHeldOnce'
  BY <1>1 DEF IInv, ClonesHeldOnce, Holds, RunsIn
<1>6. ClonesRooted'
  BY <1>1 DEF IInv, ClonesRooted, Holds, RunsIn
<1> QED
  BY <1>2, <1>3, <1>4, <1>5, <1>6 DEF IInv

\* IInv holds in every state: of calls between states, as OP_CALL and
\* z_interpreter_run make them, in any number of threads (interpreter_dd.c:206-303,
\* 875-921, 1050-1054).
THEOREM Invariance == Spec => []IInv
<1>1. ASSUME IInv, Next PROVE IInv'
  <2>1. CASE Terminated
    BY <1>1, <2>1, Stutter DEF Terminated
  <2>2. ASSUME NEW t \in Threads,
               \/ \E s \in States : CallOthersFunction(t, s)
               \/ Prepare(t)
               \/ EnterRun(t)
               \/ BeginRun(t)
               \/ \E ok \in BOOLEAN : FinishRun(t, ok)
               \/ EndRun(t)
               \/ TakeResult(t)
               \/ ThrowOn(t)
               \/ EndThread(t)
        PROVE  IInv'
    BY <1>1, <2>2, CallOthersFunctionStep, PrepareStep, EnterRunStep, BeginRunStep,
       FinishRunStep, EndRunStep, TakeResultStep, ThrowOnStep, EndThreadStep
  <2> QED
    BY <1>1, <2>1, <2>2 DEF Next
<1> QED
  BY <1>1, InitIInv, Stutter, PTL DEF Spec

\* The states and the stacks of runs of all threads keep their form.
THEOREM TypeCorrect == Spec => []TypeOK
<1>1. IInv => TypeOK
  BY DEF IInv
<1> QED
  BY <1>1, Invariance, PTL

\* A state that one thread calls into is never run twice, which is what the test
\* of is_running in OP_CALL is for (interpreter_dd.c:887-897).
THEOREM NoUnsharedRunTwice == Spec => []UnsharedRunOnce
<1>1. IInv => UnsharedRunOnce
  BY DEF IInv
<1> QED
  BY <1>1, Invariance, PTL

\* is_running of such a state says whether it is run, also after exceptions
\* (interpreter_dd.c:222, 1050).
THEOREM FlagExact == Spec => []RunningFlagExact
<1>1. IInv => RunningFlagExact
  BY DEF IInv
<1> QED
  BY <1>1, Invariance, PTL

\* A run finds the call, and a caller the result of its call, that the saved
\* state carried between them (interpreter_dd.c:903-919).
THEOREM CallsKeptApart == Spec => []CallsNotMixed
<1>1. IInv => CallsNotMixed
  <2> SUFFICES ASSUME IInv, NEW t \in Threads
               PROVE  /\ pc[t] = "exec" /\ Unshared(Self(t)) => Top(t).found = Top(t).call
                      /\ pc[t] = "returned" /\ Unshared(callee[t].state) =>
                           result[callee[t].state].call = callee[t].call
    BY DEF CallsNotMixed
  <2>1. ASSUME pc[t] = "exec" PROVE Len(runs[t]) \in 1..Len(runs[t])
    BY <2>1, TopTypes DEF IInv
  <2> QED
    BY <2>1 DEF IInv, CallsInState, Top, Self
<1> QED
  BY <1>1, Invariance, PTL

\* The collector takes a clone as a root exactly while it is called, or about to
\* be, or its result is about to be read (interpreter_dd.c:892-911).
THEOREM CalledClonesRooted == Spec => []ClonesRooted
<1>1. IInv => ClonesRooted
  BY DEF IInv
<1> QED
  BY <1>1, Invariance, PTL

\* The stack pointer that OP_CALL hands to the called state never lies below the
\* caller's own part of the stack (interpreter_dd.c:904).
THEOREM CallerKeepsStack == Spec => []CallersStackKept
<1>1. IInv => CallersStackKept
  <2> SUFFICES ASSUME IInv, NEW t \in Threads, NEW i \in 1..(Len(runs[t]) - 1),
                      Unshared(runs[t][i].state), Unshared(runs[t][i + 1].state)
               PROVE  stack_ptr[runs[t][i + 1].state] >= stack_ptr[runs[t][i].state] - (Args + 1)
    BY DEF CallersStackKept
  <2>1. stack_ptr[runs[t][i + 1].state] >= stack_ptr[runs[t][i].state]
          - IF pc[t] = "begin" /\ i = Len(runs[t]) - 1 THEN 0 ELSE Args + 1
    BY DEF IInv, StacksNested
  <2>2. i \in 1..Len(runs[t]) /\ i + 1 \in 1..Len(runs[t])
    BY Types DEF IInv
  <2>3. stack_ptr[runs[t][i].state] \in Int /\ stack_ptr[runs[t][i + 1].state] \in Int
    BY <2>2, Types DEF IInv, TypeOK
  <2> QED
    BY <2>1, <2>3, CallStatesAssumption
<1> QED
  BY <1>1, Invariance, PTL

\* A script that starts no thread never runs a state twice: what the comment at
\* interpreter_dd.c:889 is afraid of takes two threads.
THEOREM OneThreadOneRun ==
  ASSUME \A t, u \in Threads : t = u
  PROVE  Spec => []OneRunPerState
<1>1. \A s : Unshared(s)
  BY DEF Unshared, CallersOf
<1>2. IInv => OneRunPerState
  BY <1>1 DEF IInv, UnsharedRunOnce, OneRunPerState
<1> QED
  BY <1>2, Invariance, PTL
=============================================================================
