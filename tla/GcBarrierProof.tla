-------------------------- MODULE GcBarrierProof --------------------------
(***************************************************************************)
(* Proofs about GcBarrier for any finite set of threads: the inductive     *)
(* invariant IInv and what follows from it.                                *)
(***************************************************************************)
EXTENDS GcBarrier, FiniteSetTheorems, TLAPS

\* Every set of threads is finite, so its cardinality is a number.
LEMMA ThreadSetsFinite ==
  ASSUME NEW S \in SUBSET Threads
  PROVE  IsFiniteSet(S) /\ Cardinality(S) \in Nat
BY ThreadsAssumption, FS_Subset, FS_CardinalityType

\* The last arrival at a barrier completes the set the barrier waits for: the
\* arrived threads are part of the awaited set and as many.
LEMMA LastArrivalCompletes ==
  ASSUME NEW S \in SUBSET Threads, NEW A \in SUBSET S,
         Cardinality(A) = Cardinality(S)
  PROVE  A = S
<1>1. IsFiniteSet(S)
  BY ThreadSetsFinite
<1> QED
  BY <1>1, FS_Subset

\* A thread held by a barrier is at its first or at its second wait.
LEMMA BlockedAtWait ==
  ASSUME IInv, NEW b \in Barriers, NEW u \in bar_waiting[b]
  PROVE  u \in Threads /\ pc[u] \in {"wait1", "wait2"}
<1>1. u \in Threads
  BY DEF IInv, TypeOK
<1>2. CASE \E t \in Threads : pc[t] \in Collected
  BY <1>1, <1>2 DEF IInv, TypeOK, RoundInv, CollectInv, Waiting, UsedBarrier, PickedBarrier, Other, Barriers
<1>3. CASE ~ \E t \in Threads : pc[t] \in Collected
  BY <1>1, <1>3 DEF IInv, TypeOK, RoundInv, GatherInv, Waiting, PickedBarrier, Other, Barriers
<1> QED
  BY <1>1, <1>2, <1>3

-----------------------------------------------------------------------------
\* TypeOK is preserved: the count a barrier gets is a natural number because it
\* is the size of the census.
LEMMA TypeStep ==
  ASSUME IInv, [Next]_vars
  PROVE  TypeOK'
<1> USE DEF IInv, TypeOK, Pc, Mutating, Gathering, Collector, Collected, Final, InRound,
            Why, Barriers, Goto, barVars, listVars
<1>1. ASSUME NEW t \in Threads, RequestGc(t) PROVE TypeOK'
  BY <1>1 DEF RequestGc
<1>2. ASSUME NEW t \in Threads, EndThread(t) PROVE TypeOK'
  BY <1>2 DEF EndThread
<1>3. ASSUME NEW t \in Threads, NEW c \in Threads, StartThread(t, c) PROVE TypeOK'
  BY <1>3 DEF StartThread
<1>4. ASSUME NEW t \in Threads, PickBarrier(t) PROVE TypeOK'
  BY <1>4 DEF PickBarrier, PickedBarrier
<1>5. ASSUME NEW t \in Threads, PublishBarrier(t) PROVE TypeOK'
  BY <1>5 DEF PublishBarrier
<1>6. ASSUME NEW t \in Threads, LoadBarrier(t) PROVE TypeOK'
  BY <1>6 DEF LoadBarrier
<1>7. ASSUME NEW t \in Threads, BlockInBarrier(t) PROVE TypeOK'
  BY <1>7 DEF BlockInBarrier
<1>8. ASSUME NEW t \in Threads, OpenBarrier(t) PROVE TypeOK'
  BY <1>8 DEF OpenBarrier, ReleasedTo
<1>9. ASSUME NEW t \in Threads, IncrementGcCount(t) PROVE TypeOK'
  BY <1>9 DEF IncrementGcCount
<1>10. ASSUME NEW t \in Threads, Collect(t) PROVE TypeOK'
  BY <1>10 DEF Collect
<1>11. ASSUME NEW t \in Threads, InitGcBarrier(t) PROVE TypeOK'
  <2>1. total_thread_count \in Nat
    BY ThreadSetsFinite DEF CensusCounted, Census
  <2> QED
    BY <1>11, <2>1 DEF InitGcBarrier, PickedBarrier
<1>12. ASSUME NEW t \in Threads, LeaveScheduleGc(t) PROVE TypeOK'
  BY <1>12 DEF LeaveScheduleGc
<1>13. ASSUME NEW t \in Threads, PushThread(t) PROVE TypeOK'
  <2>1. child[t] \in Threads
    BY <1>13 DEF PushThread, ChildrenOwned, Starting, CallersKnown
  <2> QED
    BY <1>13, <2>1 DEF PushThread
<1>14. ASSUME NEW t \in Threads, CreateThread(t) PROVE TypeOK'
  BY <1>14 DEF CreateThread
<1>15. CASE JoinNext
  BY <1>15, ThreadsAssumption DEF JoinNext
<1>16. CASE JoinReturns
  BY <1>16, ThreadsAssumption DEF JoinReturns
<1>17. CASE UNCHANGED vars
  BY <1>17 DEF vars
<1> QED
  BY <1>1, <1>2, <1>3, <1>4, <1>5, <1>6, <1>7, <1>8, <1>9, <1>10, <1>11, <1>12,
     <1>13, <1>14, <1>15, <1>16, <1>17 DEF Next, ScheduleGc, Terminated

-----------------------------------------------------------------------------
\* The caller of schedule_gc is known where its answer matters.
LEMMA CallersStep ==
  ASSUME IInv, [Next]_vars
  PROVE  CallersKnown'
<1> USE DEF IInv, TypeOK, Pc, Mutating, Gathering, Collector, Collected, Final,
             InRound, Why, Barriers, Goto, barVars, listVars, CallersKnown, ChildrenOwned
<1>1. ASSUME NEW t \in Threads, RequestGc(t) PROVE CallersKnown'
  BY <1>1 DEF RequestGc
<1>2. ASSUME NEW t \in Threads, EndThread(t) PROVE CallersKnown'
  BY <1>2 DEF EndThread
<1>3. ASSUME NEW t \in Threads, NEW c \in Threads, StartThread(t, c) PROVE CallersKnown'
  BY <1>3 DEF StartThread
<1>4. ASSUME NEW t \in Threads, PickBarrier(t) PROVE CallersKnown'
  BY <1>4 DEF PickBarrier
<1>5. ASSUME NEW t \in Threads, PublishBarrier(t) PROVE CallersKnown'
  BY <1>5 DEF PublishBarrier
<1>6. ASSUME NEW t \in Threads, LoadBarrier(t) PROVE CallersKnown'
  BY <1>6 DEF LoadBarrier
<1>7. ASSUME NEW t \in Threads, BlockInBarrier(t) PROVE CallersKnown'
  BY <1>7 DEF BlockInBarrier
<1>8. ASSUME NEW t \in Threads, OpenBarrier(t) PROVE CallersKnown'
  BY <1>8 DEF OpenBarrier, ReleasedTo
<1>9. ASSUME NEW t \in Threads, IncrementGcCount(t) PROVE CallersKnown'
  BY <1>9 DEF IncrementGcCount
<1>10. ASSUME NEW t \in Threads, Collect(t) PROVE CallersKnown'
  BY <1>10 DEF Collect
<1>11. ASSUME NEW t \in Threads, InitGcBarrier(t) PROVE CallersKnown'
  BY <1>11 DEF InitGcBarrier
<1>12. ASSUME NEW t \in Threads, LeaveScheduleGc(t) PROVE CallersKnown'
  BY <1>12 DEF LeaveScheduleGc
<1>13. ASSUME NEW t \in Threads, PushThread(t) PROVE CallersKnown'
  BY <1>13 DEF PushThread
<1>14. ASSUME NEW t \in Threads, CreateThread(t) PROVE CallersKnown'
  BY <1>14 DEF CreateThread, Starting
<1>15. CASE JoinNext
  BY <1>15, ThreadsAssumption DEF JoinNext
<1>16. CASE JoinReturns
  BY <1>16, ThreadsAssumption DEF JoinReturns
<1>17. CASE UNCHANGED vars
  BY <1>17 DEF vars
<1> QED
  BY <1>1, <1>2, <1>3, <1>4, <1>5, <1>6, <1>7, <1>8, <1>9, <1>10, <1>11, <1>12,
     <1>13, <1>14, <1>15, <1>16, <1>17 DEF Next, ScheduleGc, Terminated

-----------------------------------------------------------------------------
\* A step that moves no thread into or out of a thread start keeps the children.
LEMMA ChildrenKept ==
  ASSUME ChildrenOwned, pc \in [Threads -> Pc], child \in [Threads -> Threads \cup {NoThread}],
         why' = why, child' = child,
         \A u \in Threads : pc'[u] = "counted" <=> pc[u] = "counted",
         \A u \in Threads : why[u] = "start" => (pc'[u] \in Starting <=> pc[u] \in Starting)
  PROVE  ChildrenOwned'
<1>1. \A p \in Threads :
        IF why[p] = "start" /\ pc'[p] \in Starting
          THEN child[p] \in Threads /\ pc'[child[p]] = "counted"
          ELSE child[p] = NoThread
  BY DEF ChildrenOwned
<1> QED
  BY <1>1 DEF ChildrenOwned

\* A thread start has one child, and a counted thread one parent.
LEMMA ChildrenStep ==
  ASSUME IInv, [Next]_vars
  PROVE  ChildrenOwned'
<1>0. /\ TypeOK /\ ChildrenOwned /\ CallersKnown
      /\ pc \in [Threads -> Pc]
      /\ child \in [Threads -> Threads \cup {NoThread}]
      /\ why \in [Threads -> Why]
  BY DEF IInv, TypeOK
<1> DEFINE Kept == /\ why' = why /\ child' = child
                   /\ \A u \in Threads :
                        /\ pc'[u] = "counted" <=> pc[u] = "counted"
                        /\ why[u] = "start" =>
                             (pc'[u] \in Starting <=> pc[u] \in Starting)
<1>1. Kept => ChildrenOwned'
  BY <1>0, ChildrenKept
<1> USE DEF Starting, InRound, Gathering, Collected, Collector
<1>2. ASSUME NEW t \in Threads, RequestGc(t) PROVE ChildrenOwned'
  <2>1. /\ pc' = [pc EXCEPT ![t] = "pick"] /\ child' = child
        /\ \A u \in Threads : u # t => why'[u] = why[u]
        /\ pc[t] = "run"
    BY <1>0, <1>2 DEF RequestGc, Goto
  <2>2. child[t] = NoThread /\ why'[t] # "start"
    BY <1>0, <1>2 DEF RequestGc, Goto, ChildrenOwned
  <2>3. \A p \in Threads :
          IF why'[p] = "start" /\ pc'[p] \in Starting
            THEN child[p] \in Threads /\ pc'[child[p]] = "counted"
            ELSE child[p] = NoThread
    BY <1>0, <1>2, <2>1, <2>2, ThreadsAssumption DEF ChildrenOwned, RequestGc, Goto
  <2> QED
    BY <1>0, <1>2, <2>1, <2>2, <2>3 DEF ChildrenOwned, RequestGc, Goto
<1>3. ASSUME NEW t \in Threads, EndThread(t) PROVE ChildrenOwned'
  <2>1. /\ pc' = [pc EXCEPT ![t] = "pick"] /\ child' = child
        /\ \A u \in Threads : u # t => why'[u] = why[u]
        /\ pc[t] = "run"
    BY <1>0, <1>3 DEF EndThread, Goto
  <2>2. child[t] = NoThread /\ why'[t] # "start"
    BY <1>0, <1>3 DEF EndThread, Goto, ChildrenOwned
  <2>3. \A p \in Threads :
          IF why'[p] = "start" /\ pc'[p] \in Starting
            THEN child[p] \in Threads /\ pc'[child[p]] = "counted"
            ELSE child[p] = NoThread
    BY <1>0, <1>3, <2>1, <2>2, ThreadsAssumption DEF ChildrenOwned, EndThread, Goto
  <2> QED
    BY <1>0, <1>3, <2>1, <2>2, <2>3 DEF ChildrenOwned, EndThread, Goto
<1>4. ASSUME NEW t \in Threads, NEW c \in Threads, StartThread(t, c) PROVE ChildrenOwned'
  <2>1. c # t /\ child[t] = NoThread /\ \A p \in Threads : child[p] # c
    BY <1>0, <1>4, ThreadsAssumption DEF StartThread, ChildrenOwned
  <2> QED
    BY <1>0, <1>4, <2>1, ThreadsAssumption DEF StartThread, ChildrenOwned
<1>5. ASSUME NEW t \in Threads, ScheduleGc(t) PROVE ChildrenOwned'
  <2>1. CASE PickBarrier(t) \/ PublishBarrier(t) \/ LoadBarrier(t) \/ IncrementGcCount(t)
               \/ Collect(t) \/ InitGcBarrier(t)
    <3>1. Kept
      BY <1>0, <2>1 DEF PickBarrier, PublishBarrier, LoadBarrier, IncrementGcCount,
                        Collect, InitGcBarrier, Goto
    <3> QED
      BY <1>1, <3>1
  <2>2. CASE BlockInBarrier(t)
    <3>1. Kept
      BY <1>0, <2>2 DEF BlockInBarrier, Goto
    <3> QED
      BY <1>1, <3>1
  <2>3. CASE OpenBarrier(t)
    <3>1. \A u \in bar_waiting[side[t]] : pc[u] \in InRound
      BY <2>3, BlockedAtWait DEF IInv, TypeOK
    <3>2. PICK s : pc' = [u \in Threads |-> IF u \in bar_waiting[side[t]] \cup {t}
                                              THEN ReleasedTo(u, s) ELSE pc[u]]
      BY <2>3 DEF OpenBarrier
    <3>3. pc[t] \in InRound
      BY <2>3 DEF OpenBarrier
    <3>4. \A u \in Threads : ReleasedTo(u, s) \in {"serial", "leave1", "leave2"}
      BY DEF ReleasedTo
    <3>5. Kept
      BY <2>3, <3>1, <3>2, <3>3, <3>4 DEF OpenBarrier
    <3> QED
      BY <1>1, <3>5
  <2>4. CASE LeaveScheduleGc(t)
    <3>1. why[t] # "start" => child[t] = NoThread
      BY <1>0 DEF ChildrenOwned
    <3>2. Kept
      BY <1>0, <2>4, <3>1 DEF LeaveScheduleGc, Goto
    <3> QED
      BY <1>1, <3>2
  <2> QED
    BY <1>5, <2>1, <2>2, <2>3, <2>4 DEF ScheduleGc
<1>6. ASSUME NEW t \in Threads, PushThread(t) PROVE ChildrenOwned'
  <2>1. Kept
    BY <1>0, <1>6 DEF PushThread, Goto
  <2> QED
    BY <1>1, <2>1
<1>7. ASSUME NEW t \in Threads, CreateThread(t) PROVE ChildrenOwned'
  <2>1. /\ child[t] \in Threads /\ child[t] # t /\ pc[child[t]] = "counted"
        /\ \A p \in Threads : child[p] = child[t] => p = t
        /\ child[child[t]] = NoThread
    BY <1>0, <1>7, ThreadsAssumption DEF CreateThread, ChildrenOwned, CallersKnown
  <2>2. pc' = [pc EXCEPT ![t] = "run", ![child[t]] = "run"] /\ why' = why
        /\ child' = [child EXCEPT ![t] = NoThread]
    BY <1>7 DEF CreateThread
  <2>3. \A p \in Threads :
          IF why[p] = "start" /\ pc'[p] \in Starting
            THEN child'[p] \in Threads /\ pc'[child'[p]] = "counted"
            ELSE child'[p] = NoThread
    BY <1>0, <2>1, <2>2, ThreadsAssumption DEF ChildrenOwned
  <2>4. \A p, q \in Threads : child'[p] = child'[q] => p = q \/ child'[p] = NoThread
    BY <1>0, <2>2 DEF ChildrenOwned
  <2>5. \A c \in Threads : pc'[c] = "counted" => \E p \in Threads : child'[p] = c
    BY <1>0, <2>1, <2>2, ThreadsAssumption DEF ChildrenOwned
  <2> QED
    BY <2>2, <2>3, <2>4, <2>5 DEF ChildrenOwned
<1>8. ASSUME JoinNext \/ JoinReturns PROVE ChildrenOwned'
  <2>1. Kept
    BY <1>0, <1>8, ThreadsAssumption DEF JoinNext, JoinReturns, Goto
  <2> QED
    BY <1>1, <2>1
<1>9. CASE UNCHANGED vars
  BY <1>0, <1>9 DEF vars, ChildrenOwned
<1> QED
  BY <1>2, <1>3, <1>4, <1>5, <1>6, <1>7, <1>8, <1>9 DEF Next, Terminated

-----------------------------------------------------------------------------
\* The opening of a barrier moves exactly the arrived threads, which are in a
\* round, and leaves every other thread where it is.
LEMMA OpenMoves ==
  ASSUME IInv, NEW t \in Threads, OpenBarrier(t)
  PROVE  /\ \A u \in bar_waiting[side[t]] \cup {t} :
              /\ u \in Threads
              /\ pc[u] \in {"arrive1", "wait1"} => pc'[u] \in {"serial", "leave1"}
              /\ pc[u] \in {"arrive2", "wait2"} => pc'[u] = "leave2"
              /\ pc[u] \in {"arrive1", "wait1", "arrive2", "wait2"}
         /\ \A u \in Threads : u \notin bar_waiting[side[t]] \cup {t} => pc'[u] = pc[u]
<1>1. \A u \in bar_waiting[side[t]] : u \in Threads /\ pc[u] \in {"wait1", "wait2"}
  BY BlockedAtWait DEF IInv, TypeOK
<1>2. PICK s : pc' = [u \in Threads |-> IF u \in bar_waiting[side[t]] \cup {t}
                                          THEN ReleasedTo(u, s) ELSE pc[u]]
  BY DEF OpenBarrier
<1>3. pc[t] \in {"arrive1", "arrive2"}
  BY DEF OpenBarrier
<1> QED
  BY <1>1, <1>2, <1>3 DEF ReleasedTo

\* total_thread_count counts the threads that exist or are about to, and that
\* have not said that they end.
LEMMA CensusStep ==
  ASSUME IInv, [Next]_vars
  PROVE  CensusCounted'
<1>0. /\ TypeOK /\ ChildrenOwned /\ CallersKnown
      /\ pc \in [Threads -> Pc] /\ why \in [Threads -> Why]
      /\ child \in [Threads -> Threads \cup {NoThread}]
      /\ total_thread_count \in Int
  BY DEF IInv, TypeOK
<1>1. IsFiniteSet(Census) /\ Cardinality(Census) = total_thread_count
  BY ThreadSetsFinite DEF Census, IInv, CensusCounted
<1> DEFINE Kept == \A u \in Threads : InCensus(u)' <=> InCensus(u)
<1>2. ASSUME Kept, total_thread_count' = total_thread_count PROVE CensusCounted'
  <2>1. Census' = Census
    BY <1>2 DEF Census
  <2> QED
    BY <1>1, <1>2, <2>1 DEF CensusCounted
<1> USE DEF InRound, Gathering, Collected, Collector, Mutating
<1>3. ASSUME NEW t \in Threads, RequestGc(t) PROVE CensusCounted'
  <2>1. Kept
    BY <1>0, <1>3 DEF RequestGc, Goto, InCensus, CallersKnown
  <2> QED
    BY <1>2, <1>3, <2>1 DEF RequestGc
<1>4. ASSUME NEW t \in Threads, EndThread(t) PROVE CensusCounted'
  <2>1. Census' = Census \ {t} /\ t \in Census
    BY <1>0, <1>4 DEF EndThread, Goto, Census, InCensus
  <2> QED
    BY <1>0, <1>1, <1>4, <2>1, FS_RemoveElement DEF EndThread, CensusCounted
<1>5. ASSUME NEW t \in Threads, NEW c \in Threads, StartThread(t, c) PROVE CensusCounted'
  <2>1. Census' = Census \cup {c} /\ c \notin Census
    BY <1>0, <1>5 DEF StartThread, Census, InCensus, CallersKnown
  <2> QED
    BY <1>0, <1>1, <1>5, <2>1, FS_AddElement DEF StartThread, CensusCounted
<1>6. ASSUME NEW t \in Threads, ScheduleGc(t) PROVE CensusCounted'
  <2>1. CASE \/ PickBarrier(t) \/ PublishBarrier(t) \/ LoadBarrier(t) \/ IncrementGcCount(t)
             \/ Collect(t) \/ InitGcBarrier(t) \/ BlockInBarrier(t)
    <3>1. Kept /\ total_thread_count' = total_thread_count
      BY <1>0, <2>1 DEF PickBarrier, PublishBarrier, LoadBarrier, IncrementGcCount,
                        Collect, InitGcBarrier, BlockInBarrier, Goto, InCensus
    <3> QED
      BY <1>2, <3>1
  <2>2. CASE OpenBarrier(t)
    <3>1. why' = why /\ total_thread_count' = total_thread_count
      BY <2>2 DEF OpenBarrier
    <3>2. Kept
      BY <1>0, <2>2, <3>1, OpenMoves DEF InCensus
    <3> QED
      BY <1>2, <3>1, <3>2
  <2>3. CASE LeaveScheduleGc(t)
    <3>1. Kept /\ total_thread_count' = total_thread_count
      BY <1>0, <2>3 DEF LeaveScheduleGc, Goto, InCensus
    <3> QED
      BY <1>2, <3>1
  <2> QED
    BY <1>6, <2>1, <2>2, <2>3 DEF ScheduleGc
<1>7. ASSUME NEW t \in Threads, PushThread(t) PROVE CensusCounted'
  <2>1. Kept /\ total_thread_count' = total_thread_count
    BY <1>0, <1>7 DEF PushThread, Goto, InCensus
  <2> QED
    BY <1>2, <2>1
<1>8. ASSUME NEW t \in Threads, CreateThread(t) PROVE CensusCounted'
  <2>1. child[t] \in Threads /\ pc[child[t]] = "counted"
    BY <1>0, <1>8 DEF CreateThread, ChildrenOwned, CallersKnown, Starting
  <2>2. Kept /\ total_thread_count' = total_thread_count
    BY <1>0, <1>8, <2>1 DEF CreateThread, InCensus
  <2> QED
    BY <1>2, <2>2
<1>9. ASSUME JoinNext \/ JoinReturns PROVE CensusCounted'
  <2>1. Kept /\ total_thread_count' = total_thread_count
    BY <1>0, <1>9, ThreadsAssumption DEF JoinNext, JoinReturns, Goto, InCensus
  <2> QED
    BY <1>2, <2>1
<1>10. CASE UNCHANGED vars
  <2>1. Kept /\ total_thread_count' = total_thread_count
    BY <1>10 DEF vars, InCensus
  <2> QED
    BY <1>2, <2>1
<1> QED
  BY <1>3, <1>4, <1>5, <1>6, <1>7, <1>8, <1>9, <1>10 DEF Next, Terminated

-----------------------------------------------------------------------------
(* The round: a step while the threads gather, the opening of the first wait, *)
(* a step between the two waits, the opening of the second wait.              *)

\* A gathering step changes neither whom the round waits for nor the barriers,
\* except that a thread may block in the one in use.
LEMMA GatherStep ==
  ASSUME IInv, [Next]_vars, \A t \in Threads : pc[t] \notin Collected,
         ~ \E t \in Threads : OpenBarrier(t)
  PROVE  GatherInv' /\ \A t \in Threads : pc'[t] \notin Collected
<1>0. /\ TypeOK /\ ChildrenOwned /\ CallersKnown /\ GatherInv
      /\ pc \in [Threads -> Pc] /\ why \in [Threads -> Why]
      /\ child \in [Threads -> Threads \cup {NoThread}]
      /\ side \in [Threads -> Barriers]
      /\ bar_waiting \in [Barriers -> SUBSET Threads]
      /\ gc_count \in {0, 1}
  BY DEF IInv, TypeOK, RoundInv
<1> DEFINE SameBarriers == /\ gc_count' = gc_count /\ bar_count' = bar_count
           SameParty    == \A u \in Threads : (Alive(u) \/ Expected(u))' <=> (Alive(u) \/ Expected(u))
           Invisible    == /\ SameBarriers /\ SameParty
                           /\ bar_waiting' = bar_waiting /\ gc_safe_barrier' = gc_safe_barrier
                           /\ side' = side
                           /\ \A u \in Threads : \A w \in {"publish", "load1", "arrive1", "wait1"} :
                                pc'[u] = w <=> pc[u] = w
                           /\ \A u \in Threads : pc'[u] \notin Collected
           Goal         == GatherInv' /\ \A u \in Threads : pc'[u] \notin Collected
<1>1. SameParty => Party' = Party
  BY DEF Party
<1>2. ASSUME Invisible PROVE Goal
  <2>1. Party' = Party /\ PickedBarrier' = PickedBarrier /\ Waiting("wait1")' = Waiting("wait1")
    BY <1>1, <1>2 DEF PickedBarrier, Waiting
  <2> QED
    BY <1>0, <1>2, <2>1 DEF GatherInv, Other
<1> USE DEF InRound, Gathering, Collected, Collector, Mutating, Starting
<1>3. ASSUME NEW t \in Threads, RequestGc(t) \/ EndThread(t) PROVE Goal
  <2>1. pc' = [pc EXCEPT ![t] = "pick"] /\ pc[t] = "run" /\ child' = child
        /\ \A u \in Threads : u # t => why'[u] = why[u]
    BY <1>0, <1>3 DEF RequestGc, EndThread, Goto
  <2>2. \A u \in Threads : Alive(u)' <=> Alive(u)
    BY <1>0, <2>1 DEF Alive
  <2>3. \A u \in Threads : Expected(u)' <=> Expected(u)
    BY <1>0, <2>1 DEF Expected
  <2>4. Invisible
    BY <1>0, <1>3, <2>1, <2>2, <2>3 DEF RequestGc, EndThread, barVars
  <2> QED
    BY <1>2, <2>4
<1>4. ASSUME NEW t \in Threads, NEW c \in Threads, StartThread(t, c) PROVE Goal
  <2>1. /\ pc' = [pc EXCEPT ![t] = "pick", ![c] = "counted"] /\ pc[t] = "run" /\ pc[c] = "unborn"
        /\ child' = [child EXCEPT ![t] = c] /\ why' = [why EXCEPT ![t] = "start"]
    BY <1>4 DEF StartThread
  <2>2. \A u \in Threads : Alive(u)' <=> Alive(u)
    BY <1>0, <2>1 DEF Alive
  <2>3. child[t] = NoThread
    BY <1>0, <2>1 DEF ChildrenOwned
  <2>4. \A u \in Threads : Expected(u)' <=> Expected(u)
    BY <1>0, <2>1, <2>3, ThreadsAssumption DEF Expected
  <2>5. Invisible
    BY <1>0, <1>4, <2>1, <2>2, <2>4 DEF StartThread, barVars
  <2> QED
    BY <1>2, <2>5
<1>5. ASSUME NEW t \in Threads, ScheduleGc(t) PROVE Goal
  <2> DEFINE Steps(from, to) == pc' = [pc EXCEPT ![t] = to] /\ pc[t] = from
                                  /\ child' = child /\ why' = why
  <2>0. ASSUME NEW from \in Gathering, NEW to \in Gathering, Steps(from, to)
        PROVE  SameParty /\ \A u \in Threads : pc'[u] \notin Collected
    <3>1. \A u \in Threads : Alive(u)' <=> Alive(u)
      BY <1>0, <2>0 DEF Alive
    <3>2. \A u \in Threads : Expected(u)' <=> Expected(u)
      BY <1>0, <2>0 DEF Expected
    <3> QED
      BY <1>0, <2>0, <3>1, <3>2
  <2>1. CASE PickBarrier(t)
    <3>1. Steps("pick", "publish")
      BY <2>1 DEF PickBarrier, Goto
    <3>2. Party' = Party /\ PickedBarrier' = PickedBarrier /\ Waiting("wait1")' = Waiting("wait1")
      BY <1>0, <1>1, <2>0, <2>1, <3>1 DEF PickBarrier, PickedBarrier, Waiting
    <3> QED
      BY <1>0, <2>0, <2>1, <3>1, <3>2 DEF PickBarrier, GatherInv, Other, barVars
  <2>2. CASE PublishBarrier(t)
    <3>1. Steps("publish", "load1")
      BY <2>2 DEF PublishBarrier, Goto
    <3>2. Party' = Party /\ PickedBarrier' = PickedBarrier /\ Waiting("wait1")' = Waiting("wait1")
      BY <1>0, <1>1, <2>0, <2>2, <3>1 DEF PublishBarrier, PickedBarrier, Waiting
    <3> QED
      BY <1>0, <2>0, <2>2, <3>1, <3>2 DEF PublishBarrier, GatherInv, Other, barVars
  <2>3. CASE LoadBarrier(t)
    <3>1. Steps("load1", "arrive1")
      BY <1>0, <2>3 DEF LoadBarrier, Goto
    <3>2. Party' = Party /\ PickedBarrier' = PickedBarrier /\ Waiting("wait1")' = Waiting("wait1")
      BY <1>0, <1>1, <2>0, <2>3, <3>1 DEF LoadBarrier, PickedBarrier, Waiting
    <3> QED
      BY <1>0, <2>0, <2>3, <3>1, <3>2 DEF LoadBarrier, GatherInv, Other, barVars
  <2>4. CASE BlockInBarrier(t)
    <3>1. Steps("arrive1", "wait1")
      BY <1>0, <2>4 DEF BlockInBarrier, Goto
    <3>2. Party' = Party /\ PickedBarrier' = PickedBarrier
      BY <1>0, <1>1, <2>0, <2>4, <3>1 DEF BlockInBarrier, PickedBarrier
    <3>3. Waiting("wait1")' = Waiting("wait1") \cup {t}
      BY <1>0, <3>1 DEF Waiting
    <3>4. side[t] = PickedBarrier /\ PickedBarrier \in Barriers /\ Other(PickedBarrier) # PickedBarrier
      BY <1>0, <3>1 DEF GatherInv, PickedBarrier, Other, Barriers
    <3> QED
      BY <1>0, <2>0, <2>4, <3>1, <3>2, <3>3, <3>4 DEF BlockInBarrier, GatherInv, Other
  <2>5. CASE LeaveScheduleGc(t)
    <3>1. why[t] # "start" => child[t] = NoThread
      BY <1>0 DEF ChildrenOwned
    <3>2. /\ pc' = [pc EXCEPT ![t] = pc'[t]] /\ pc[t] = "leave2" /\ child' = child /\ why' = why
          /\ why[t] = "alloc" => pc'[t] = "run"
          /\ why[t] = "start" => pc'[t] = "push"
          /\ why[t] = "end" => pc'[t] \in {"join", "done"}
          /\ why[t] \in Why
      BY <1>0, <2>5 DEF LeaveScheduleGc, Goto
    <3>3. \A u \in Threads : Alive(u)' <=> Alive(u)
      BY <1>0, <3>2 DEF Alive, Why
    <3>4. \A u \in Threads : Expected(u)' <=> Expected(u)
      BY <1>0, <3>1, <3>2, ThreadsAssumption DEF Expected, Why
    <3>5. Invisible
      BY <1>0, <2>5, <3>2, <3>3, <3>4 DEF LeaveScheduleGc, barVars, Why
    <3> QED
      BY <1>2, <3>5
  <2> QED
    BY <1>0, <1>5, <2>1, <2>2, <2>3, <2>4, <2>5
       DEF ScheduleGc, IncrementGcCount, Collect, InitGcBarrier, Goto
<1>6. ASSUME NEW t \in Threads, PushThread(t) PROVE Goal
  <2>1. pc' = [pc EXCEPT ![t] = "create"] /\ pc[t] = "push" /\ child' = child /\ why' = why
    BY <1>6 DEF PushThread, Goto
  <2>2. \A u \in Threads : Alive(u)' <=> Alive(u)
    BY <1>0, <2>1 DEF Alive
  <2>3. \A u \in Threads : Expected(u)' <=> Expected(u)
    BY <1>0, <2>1 DEF Expected
  <2>4. Invisible
    BY <1>0, <1>6, <2>1, <2>2, <2>3 DEF PushThread, barVars
  <2> QED
    BY <1>2, <2>4
<1>7. ASSUME NEW t \in Threads, CreateThread(t) PROVE Goal
  <2>1. /\ child[t] \in Threads /\ child[t] # t /\ pc[child[t]] = "counted"
        /\ \A p \in Threads : child[p] = child[t] => p = t
        /\ child[child[t]] = NoThread
    BY <1>0, <1>7, ThreadsAssumption DEF CreateThread, ChildrenOwned, CallersKnown
  <2>2. pc' = [pc EXCEPT ![t] = "run", ![child[t]] = "run"] /\ why' = why /\ pc[t] = "create"
        /\ child' = [child EXCEPT ![t] = NoThread]
    BY <1>7 DEF CreateThread
  <2>3. \A u \in Threads : u # child[t] =>
          (Alive(u)' <=> Alive(u)) /\ (Expected(u)' <=> Expected(u))
    BY <1>0, <2>1, <2>2, ThreadsAssumption DEF Alive, Expected
  <2>4. \A u \in Threads : u = child[t] => Alive(u)' /\ Expected(u)
    BY <1>0, <2>1, <2>2 DEF Alive, Expected
  <2>5. SameParty
    BY <2>3, <2>4
  <2>6. Invisible
    BY <1>0, <1>7, <2>1, <2>2, <2>5 DEF CreateThread, barVars
  <2> QED
    BY <1>2, <2>6
<1>8. ASSUME JoinNext \/ JoinReturns PROVE Goal
  <2>1. /\ \A u \in Threads : u # Main => pc'[u] = pc[u]
        /\ pc[Main] \in {"join", "joining"} /\ pc'[Main] \in {"join", "joining", "exited"}
        /\ child' = child /\ why' = why
    BY <1>0, <1>8, ThreadsAssumption DEF JoinNext, JoinReturns, Goto
  <2>2. \A u \in Threads : Alive(u)' <=> Alive(u)
    BY <1>0, <2>1, ThreadsAssumption DEF Alive
  <2>3. \A u \in Threads : Expected(u)' <=> Expected(u)
    BY <1>0, <2>1, ThreadsAssumption DEF Expected
  <2>4. Invisible
    BY <1>0, <1>8, <2>1, <2>2, <2>3, ThreadsAssumption DEF JoinNext, JoinReturns, barVars
  <2> QED
    BY <1>2, <2>4
<1>9. CASE UNCHANGED vars
  <2>1. Invisible
    BY <1>0, <1>9 DEF vars, Alive, Expected
  <2> QED
    BY <1>2, <2>1
<1> QED
  BY <1>3, <1>4, <1>5, <1>6, <1>7, <1>8, <1>9 DEF Next, Terminated

-----------------------------------------------------------------------------
\* When all threads gather, the last arrival at the first wait finds the whole
\* party there and sends it, with one collector, between the two waits.
LEMMA GatherOpens ==
  ASSUME IInv, \A t \in Threads : pc[t] \notin Collected,
         NEW t \in Threads, OpenBarrier(t)
  PROVE  CollectInv' /\ \E u \in Threads : pc'[u] \in Collected
<1>0. /\ ChildrenOwned /\ GatherInv
      /\ pc \in [Threads -> Pc] /\ side \in [Threads -> Barriers]
      /\ bar_waiting \in [Barriers -> SUBSET Threads]
      /\ bar_count \in [Barriers -> Nat]
      /\ gc_count \in {0, 1}
  BY DEF IInv, TypeOK, RoundInv
<1> DEFINE arrived == bar_waiting[side[t]] \cup {t}
<1> USE DEF InRound, Gathering, Collected, Collector, Mutating
<1>1. pc[t] = "arrive1" /\ side[t] = PickedBarrier /\ gc_safe_barrier = PickedBarrier
  BY <1>0 DEF OpenBarrier, GatherInv
<1>2. arrived = Waiting("wait1") \cup {t} /\ arrived \subseteq Party
  BY <1>0, <1>1 DEF GatherInv, Waiting, Party, Alive
<1>3. Cardinality(arrived) = Cardinality(Party)
  BY <1>0, <1>1 DEF OpenBarrier, GatherInv
<1>4. arrived = Party
  <2>1. Party \in SUBSET Threads
    BY DEF Party
  <2>2. arrived \in SUBSET Party
    BY <1>2
  <2> HIDE DEF arrived
  <2> QED
    BY <1>3, <2>1, <2>2, LastArrivalCompletes
<1>5. PICK s \in arrived :
        pc' = [u \in Threads |-> IF u \in arrived THEN ReleasedTo(u, s) ELSE pc[u]]
  BY DEF OpenBarrier
<1>6. \A u \in Threads : pc'[u] = IF u \in Party THEN IF u = s THEN "serial" ELSE "leave1"
                                  ELSE pc[u]
  BY <1>1, <1>2, <1>4, <1>5 DEF ReleasedTo, Waiting
<1>7. /\ s \in Threads /\ s \in Party
      /\ child' = child /\ why' = why /\ gc_count' = gc_count /\ bar_count' = bar_count
      /\ gc_safe_barrier' = gc_safe_barrier /\ side' = side
      /\ bar_waiting' = [bar_waiting EXCEPT ![side[t]] = {}]
  BY <1>4, <1>5 DEF OpenBarrier, Party
<1>8. \A u \in Threads : u \notin Party => ~Alive(u) /\ ~Expected(u)
  BY DEF Party
<1>9. \A u \in Threads : ~Expected(u)'
  <2>1. \A p \in Threads : pc'[p] \in {"leave2", "push", "create"} => p \notin Party
    BY <1>6
  <2>2. \A p \in Threads : pc'[p] \in {"leave2", "push", "create"} /\ child[p] \in Threads => Alive(p)
    BY <1>0, <1>6, <2>1, ThreadsAssumption DEF ChildrenOwned, Alive
  <2> QED
    BY <1>7, <1>8, <2>1, <2>2 DEF Expected
<1>10. \A u \in Threads : /\ Alive(u)' <=> u \in Party
                          /\ Alive(u)' => pc'[u] \in Collected
  BY <1>6, <1>7, <1>8 DEF Alive
<1>11. Party' = Party
  <2>1. Party' = {u \in Threads : Alive(u)' \/ Expected(u)'}
    BY DEF Party
  <2>2. Party = {u \in Threads : u \in Party}
    BY DEF Party
  <2> QED
    BY <1>9, <1>10, <2>1, <2>2
<1>12. pc'[s] = "serial" /\ PickedBarrier' = PickedBarrier /\ PickedBarrier \in Barriers
       /\ Other(PickedBarrier) # PickedBarrier /\ Other(PickedBarrier) \in Barriers
  BY <1>6, <1>7 DEF PickedBarrier, Other, Barriers
<1>13. \A u \in Threads : pc'[u] \notin {"arrive2", "wait2"}
  BY <1>6
<1>14. Waiting("wait2")' = {}
  BY <1>13 DEF Waiting
<1>15. \A u, v \in Threads : pc'[u] \in Collector /\ pc'[v] \in Collector => u = v
  BY <1>6
<1> QED
  BY <1>0, <1>1, <1>7, <1>10, <1>11, <1>12, <1>13, <1>14, <1>15
     DEF CollectInv, GatherInv, UsedBarrier

\* Between the two waits nothing else moves than the round itself, ended
\* threads that leave the round before, and main() in its join loop.
LEMMA CollectStep ==
  ASSUME IInv, [Next]_vars, \E t \in Threads : pc[t] \in Collected,
         ~ \E t \in Threads : OpenBarrier(t)
  PROVE  CollectInv' /\ \E t \in Threads : pc'[t] \in Collected
<1>0. /\ CollectInv /\ ChildrenOwned
      /\ pc \in [Threads -> Pc] /\ why \in [Threads -> Why] /\ side \in [Threads -> Barriers]
      /\ bar_waiting \in [Barriers -> SUBSET Threads] /\ bar_count \in [Barriers -> Nat]
      /\ gc_count \in {0, 1}
  BY DEF IInv, TypeOK, RoundInv
<1> DEFINE SameParty == \A u \in Threads : (Alive(u) \/ Expected(u))' <=> (Alive(u) \/ Expected(u))
           Goal == CollectInv' /\ \E u \in Threads : pc'[u] \in Collected
<1>1. SameParty => Party' = Party
  BY DEF Party
<1> USE DEF InRound, Gathering, Collected, Collector, Mutating
<1>2. \A u \in Threads : /\ pc[u] \notin Mutating \cup Gathering
                         /\ pc[u] = "leave2" => why[u] = "end"
  BY <1>0 DEF CollectInv, Alive
<1>3. /\ PickedBarrier \in Barriers /\ UsedBarrier \in Barriers
      /\ \A b \in Barriers : Other(b) \in Barriers /\ Other(b) # b /\ Other(Other(b)) = b
  BY <1>0 DEF PickedBarrier, UsedBarrier, Other, Barriers
<1>4. ASSUME NEW t \in Threads, ScheduleGc(t) PROVE Goal
  <2> DEFINE Moves(from, to) == /\ pc[t] = from /\ pc' = [pc EXCEPT ![t] = to]
                                /\ child' = child /\ why' = why
  <2>0. ASSUME NEW from \in Collected, NEW to \in Collected, Moves(from, to)
        PROVE  /\ Party' = Party /\ \E u \in Threads : pc'[u] \in Collected
               /\ \A u \in Threads : Alive(u)' => pc'[u] \in Collected
    <3>1. \A u \in Threads : Alive(u)' <=> Alive(u)
      BY <1>0, <2>0 DEF Alive
    <3>2. \A u \in Threads : Expected(u)' <=> Expected(u)
      BY <1>0, <2>0 DEF Expected
    <3>3. \A u \in Threads : Alive(u)' => pc'[u] \in Collected
      BY <1>0, <2>0, <3>1 DEF CollectInv
    <3>4. pc'[t] \in Collected
      BY <1>0, <2>0
    <3> QED
      BY <1>1, <3>1, <3>2, <3>3, <3>4
  <2>1. CASE LoadBarrier(t)
    <3>1. Moves("leave1", "arrive2") /\ side' = [side EXCEPT ![t] = gc_safe_barrier]
          /\ UNCHANGED <<gc_count, gc_safe_barrier, bar_count, bar_waiting, total_thread_count>>
      BY <1>2, <2>1 DEF LoadBarrier, Goto, barVars
    <3>2. UsedBarrier' = UsedBarrier /\ PickedBarrier' = PickedBarrier
          /\ Waiting("wait2")' = Waiting("wait2")
      BY <1>0, <3>1 DEF UsedBarrier, PickedBarrier, Waiting, Other
    <3> QED
      BY <1>0, <1>3, <2>0, <3>1, <3>2 DEF CollectInv
  <2>2. CASE BlockInBarrier(t)
    <3>1. Moves("arrive2", "wait2")
          /\ bar_waiting' = [bar_waiting EXCEPT ![side[t]] = bar_waiting[side[t]] \cup {t}]
          /\ UNCHANGED <<gc_count, gc_safe_barrier, bar_count, side, total_thread_count>>
      BY <1>2, <2>2 DEF BlockInBarrier, Goto
    <3>2. UsedBarrier' = UsedBarrier /\ PickedBarrier' = PickedBarrier
          /\ Waiting("wait2")' = Waiting("wait2") \cup {t} /\ side[t] = UsedBarrier
      BY <1>0, <3>1 DEF UsedBarrier, PickedBarrier, Waiting, Other, CollectInv
    <3> QED
      BY <1>0, <1>3, <2>0, <3>1, <3>2 DEF CollectInv
  <2>3. CASE IncrementGcCount(t)
    <3>1. Moves("serial", "gc") /\ gc_count' = 1 - gc_count
          /\ UNCHANGED <<gc_safe_barrier, bar_count, bar_waiting, side, total_thread_count>>
      BY <2>3 DEF IncrementGcCount, Goto, barVars
    <3>2. PickedBarrier' = Other(PickedBarrier) /\ UsedBarrier = PickedBarrier
      BY <1>0, <3>1 DEF UsedBarrier, PickedBarrier, Other
    <3>3. \A u \in Threads : pc'[u] # "serial"
      BY <1>0, <3>1 DEF CollectInv
    <3>4. UsedBarrier' = Other(PickedBarrier)'
      BY <3>3 DEF UsedBarrier
    <3>5. UsedBarrier' = UsedBarrier /\ Waiting("wait2")' = Waiting("wait2")
      BY <1>0, <1>3, <3>1, <3>2, <3>4 DEF Other, Waiting
    <3>6. pc'[t] \in Collector
      BY <1>0, <3>1
    <3> QED
      BY <1>0, <1>3, <2>0, <3>1, <3>5, <3>6 DEF CollectInv, Other
  <2>4. CASE Collect(t)
    <3>1. Moves("gc", "reinit")
          /\ UNCHANGED <<gc_count, gc_safe_barrier, bar_count, bar_waiting, side, total_thread_count>>
      BY <2>4 DEF Collect, Goto, barVars
    <3>2. UsedBarrier' = UsedBarrier /\ PickedBarrier' = PickedBarrier
          /\ Waiting("wait2")' = Waiting("wait2") /\ pc'[t] \in Collector
      BY <1>0, <3>1 DEF UsedBarrier, PickedBarrier, Waiting, Other
    <3> QED
      BY <1>0, <1>3, <2>0, <3>1, <3>2 DEF CollectInv
  <2>5. CASE InitGcBarrier(t)
    <3>1. Moves("reinit", "leave1")
          /\ bar_count' = [bar_count EXCEPT ![PickedBarrier] = total_thread_count]
          /\ bar_waiting' = [bar_waiting EXCEPT ![PickedBarrier] = {}]
          /\ UNCHANGED <<gc_count, gc_safe_barrier, side, total_thread_count>>
      BY <2>5 DEF InitGcBarrier, Goto
    <3>2. UsedBarrier = Other(PickedBarrier)
      BY <1>0, <3>1 DEF UsedBarrier, CollectInv
    <3>3. UsedBarrier' = UsedBarrier /\ PickedBarrier' = PickedBarrier
          /\ Waiting("wait2")' = Waiting("wait2")
      BY <1>0, <3>1 DEF UsedBarrier, PickedBarrier, Waiting, Other
    <3> QED
      BY <1>0, <1>3, <2>0, <3>1, <3>2, <3>3 DEF CollectInv
  <2>6. CASE LeaveScheduleGc(t)
    <3>1. /\ \A u \in Threads : u # t => pc'[u] = pc[u]
          /\ pc[t] = "leave2" /\ pc'[t] \in {"join", "done"} /\ why[t] = "end"
          /\ UNCHANGED <<child, why, gc_count, gc_safe_barrier, bar_count, bar_waiting, side,
                         total_thread_count>>
      BY <1>0, <1>2, <2>6 DEF LeaveScheduleGc, Goto, barVars
    <3>2. child[t] = NoThread
      BY <1>0, <3>1 DEF ChildrenOwned
    <3>3. \A u \in Threads : Alive(u)' <=> Alive(u)
      BY <1>0, <3>1 DEF Alive
    <3>4. \A u \in Threads : Expected(u)' <=> Expected(u)
      BY <1>0, <3>1, <3>2, ThreadsAssumption DEF Expected
    <3>5. \A u \in Threads : \A w \in Collected : pc'[u] = w <=> pc[u] = w
      BY <3>1
    <3>6. UsedBarrier' = UsedBarrier /\ PickedBarrier' = PickedBarrier
          /\ Waiting("wait2")' = Waiting("wait2") /\ Party' = Party
      BY <1>1, <3>1, <3>3, <3>4, <3>5 DEF UsedBarrier, PickedBarrier, Waiting, Other
    <3>7. \A u \in Threads : Alive(u)' => pc'[u] \in Collected
      BY <1>0, <3>3, <3>5 DEF CollectInv
    <3> QED
      BY <1>0, <1>3, <3>1, <3>5, <3>6, <3>7 DEF CollectInv
  <2> QED
    BY <1>2, <1>4, <2>1, <2>2, <2>3, <2>4, <2>5, <2>6
       DEF ScheduleGc, PickBarrier, PublishBarrier, Goto
<1>5. CASE JoinNext \/ JoinReturns
  <2>1. /\ \A u \in Threads : u # Main => pc'[u] = pc[u]
        /\ pc[Main] \in {"join", "joining"} /\ pc'[Main] \in {"join", "joining", "exited"}
        /\ UNCHANGED <<child, why, gc_count, gc_safe_barrier, bar_count, bar_waiting, side,
                       total_thread_count>>
    BY <1>0, <1>5, ThreadsAssumption DEF JoinNext, JoinReturns, Goto, barVars
  <2>2. \A u \in Threads : Alive(u)' <=> Alive(u)
    BY <1>0, <2>1, ThreadsAssumption DEF Alive
  <2>3. \A u \in Threads : Expected(u)' <=> Expected(u)
    BY <1>0, <2>1, ThreadsAssumption DEF Expected
  <2>4. \A u \in Threads : \A w \in Collected : pc'[u] = w <=> pc[u] = w
    BY <2>1, ThreadsAssumption
  <2>5. UsedBarrier' = UsedBarrier /\ PickedBarrier' = PickedBarrier
        /\ Waiting("wait2")' = Waiting("wait2") /\ Party' = Party
    BY <1>1, <2>1, <2>2, <2>3, <2>4 DEF UsedBarrier, PickedBarrier, Waiting, Other
  <2>6. \A u \in Threads : Alive(u)' => pc'[u] \in Collected
    BY <1>0, <2>2, <2>4 DEF CollectInv
  <2> QED
    BY <1>0, <1>3, <2>1, <2>4, <2>5, <2>6 DEF CollectInv
<1>6. CASE UNCHANGED vars
  <2>1. UNCHANGED <<pc, child, why, gc_count, gc_safe_barrier, bar_count, bar_waiting, side,
                    total_thread_count>>
    BY <1>6 DEF vars
  <2>2. SameParty
    BY <2>1 DEF Alive, Expected
  <2>3. UsedBarrier' = UsedBarrier /\ PickedBarrier' = PickedBarrier
        /\ Waiting("wait2")' = Waiting("wait2") /\ Party' = Party
    BY <1>1, <2>1, <2>2 DEF UsedBarrier, PickedBarrier, Waiting, Other
  <2>4. \A u \in Threads : Alive(u)' <=> Alive(u)
    BY <2>1 DEF Alive
  <2> QED
    BY <1>0, <2>1, <2>3, <2>4 DEF CollectInv
<1> QED
  BY <1>2, <1>4, <1>5, <1>6
     DEF Next, Terminated, RequestGc, EndThread, StartThread, PushThread, CreateThread, Goto

\* The last arrival at the second wait finds all of the party there: nobody
\* collects any more, all are released, and the other barrier has been given
\* the number of those who will take part in the next round.
LEMMA CollectOpens ==
  ASSUME IInv, \E u \in Threads : pc[u] \in Collected,
         NEW t \in Threads, OpenBarrier(t)
  PROVE  GatherInv' /\ \A u \in Threads : pc'[u] \notin Collected
<1>0. /\ CollectInv /\ ChildrenOwned /\ CensusCounted /\ CallersKnown
      /\ pc \in [Threads -> Pc] /\ why \in [Threads -> Why] /\ side \in [Threads -> Barriers]
      /\ child \in [Threads -> Threads \cup {NoThread}]
      /\ bar_waiting \in [Barriers -> SUBSET Threads] /\ bar_count \in [Barriers -> Nat]
      /\ gc_count \in {0, 1}
  BY DEF IInv, TypeOK, RoundInv
<1> DEFINE arrived == bar_waiting[side[t]] \cup {t}
<1> USE DEF InRound, Gathering, Collected, Collector, Mutating, Starting
<1>1. pc[t] = "arrive2" /\ side[t] = UsedBarrier
  BY <1>0 DEF OpenBarrier, CollectInv, Alive
<1>2. arrived = Waiting("wait2") \cup {t} /\ arrived \subseteq Party
  BY <1>0, <1>1 DEF CollectInv, Waiting, Party, Alive
<1>3. Cardinality(arrived) = Cardinality(Party)
  BY <1>0, <1>1 DEF OpenBarrier, CollectInv
<1>4. arrived = Party
  <2>1. Party \in SUBSET Threads
    BY DEF Party
  <2>2. arrived \in SUBSET Party
    BY <1>2
  <2> HIDE DEF arrived
  <2> QED
    BY <1>3, <2>1, <2>2, LastArrivalCompletes
<1>5. \A u \in Threads : u \in Party => pc[u] \in {"arrive2", "wait2"}
  BY <1>1, <1>2, <1>4 DEF Waiting
<1>6. \A u \in Threads : u \notin Party => ~Alive(u) /\ ~Expected(u)
  BY DEF Party
<1>7. \A u \in Threads : pc'[u] = IF u \in Party THEN "leave2" ELSE pc[u]
  BY <1>4, <1>5, OpenMoves
<1>8. /\ child' = child /\ why' = why /\ gc_count' = gc_count /\ bar_count' = bar_count
      /\ gc_safe_barrier' = gc_safe_barrier /\ side' = side
      /\ bar_waiting' = [bar_waiting EXCEPT ![UsedBarrier] = {}]
  BY <1>1 DEF OpenBarrier
<1>9. \A u \in Threads : pc[u] \in Mutating \cup InRound => u \in Party
  BY <1>6 DEF Alive
<1>10. \A u \in Threads : pc'[u] \notin Mutating \cup InRound
  BY <1>7, <1>9
<1>11. UsedBarrier = Other(PickedBarrier) /\ bar_count[PickedBarrier] = total_thread_count
  BY <1>0, <1>5, <1>9 DEF CollectInv, UsedBarrier
<1>12. Party' = Census
  <2>1. \A u \in Threads : Alive(u)' <=> u \in Party /\ why[u] # "end"
    BY <1>6, <1>7, <1>8, <1>10 DEF Alive
  <2>2. \A u \in Threads : Expected(u)' <=> pc[u] = "counted"
    <3>1. ASSUME NEW u \in Threads, Expected(u)' PROVE pc[u] = "counted"
      <4>1. PICK p \in Threads : child[p] = u
        BY <1>8, <3>1 DEF Expected
      <4> QED
        BY <1>0, <4>1, ThreadsAssumption DEF ChildrenOwned
    <3>2. ASSUME NEW u \in Threads, pc[u] = "counted" PROVE Expected(u)'
      <4>1. PICK p \in Threads : child[p] = u
        BY <1>0, <3>2 DEF ChildrenOwned
      <4>2. why[p] = "start" /\ pc[p] \in Starting
        BY <1>0, <4>1, ThreadsAssumption DEF ChildrenOwned
      <4>3. p \in Party
        BY <1>6, <4>2 DEF Alive
      <4> QED
        BY <1>7, <1>8, <4>1, <4>3 DEF Expected
    <3> QED
      BY <3>1, <3>2
  <2>3. \A u \in Threads : InCensus(u) <=> (u \in Party /\ why[u] # "end") \/ pc[u] = "counted"
    BY <1>5, <1>6 DEF InCensus, Alive
  <2> QED
    BY <2>1, <2>2, <2>3 DEF Party, Census
<1>13. bar_count'[PickedBarrier'] = Cardinality(Party')
  BY <1>0, <1>8, <1>11, <1>12 DEF CensusCounted, PickedBarrier
<1>14. Waiting("wait1")' = {}
  BY <1>10 DEF Waiting
<1>15. /\ PickedBarrier' = PickedBarrier /\ PickedBarrier \in Barriers
       /\ Other(PickedBarrier) \in Barriers /\ Other(PickedBarrier) # PickedBarrier
       /\ Other(Other(PickedBarrier)) = PickedBarrier
  BY <1>8 DEF PickedBarrier, Other, Barriers
<1>16. bar_waiting'[PickedBarrier] = {} /\ bar_waiting'[Other(PickedBarrier)] = {}
  BY <1>0, <1>8, <1>11, <1>15 DEF CollectInv
<1> QED
  BY <1>10, <1>13, <1>14, <1>15, <1>16 DEF GatherInv, Other

\* The round invariant is preserved by each of the four kinds of step.
LEMMA RoundStep ==
  ASSUME IInv, [Next]_vars
  PROVE  RoundInv'
<1>1. CASE \A t \in Threads : pc[t] \notin Collected
  <2>1. CASE \E t \in Threads : OpenBarrier(t)
    BY <1>1, <2>1, GatherOpens DEF RoundInv
  <2>2. CASE ~ \E t \in Threads : OpenBarrier(t)
    BY <1>1, <2>2, GatherStep DEF RoundInv
  <2> QED
    BY <2>1, <2>2
<1>2. CASE \E t \in Threads : pc[t] \in Collected
  <2>1. CASE \E t \in Threads : OpenBarrier(t)
    BY <1>2, <2>1, CollectOpens DEF RoundInv
  <2>2. CASE ~ \E t \in Threads : OpenBarrier(t)
    BY <1>2, <2>2, CollectStep DEF RoundInv
  <2> QED
    BY <2>1, <2>2
<1> QED
  BY <1>1, <1>2

-----------------------------------------------------------------------------
\* main() alone is running, counted, and awaited by both barriers.
LEMMA InitIInv == Init => IInv
<1> SUFFICES ASSUME Init PROVE IInv
  OBVIOUS
<1> USE ThreadsAssumption DEF Init
<1>1. TypeOK
  BY DEF TypeOK, Pc, Why, Barriers, Mutating
<1>2. CallersKnown /\ ChildrenOwned
  BY DEF CallersKnown, ChildrenOwned, Starting, InRound, Gathering, Collected, Collector
<1>3. Party = {Main} /\ Census = {Main}
  BY DEF Party, Census, InCensus, Alive, Expected, Mutating, InRound, Gathering, Collected, Collector
<1>4. Cardinality(Party) = 1 /\ Cardinality(Census) = 1
  BY <1>3, FS_Singleton
<1>5. \A t \in Threads : pc[t] \notin Collected
  BY DEF Collected, Collector
<1>6. GatherInv
  BY <1>4 DEF GatherInv, Waiting, PickedBarrier, Other, Barriers
<1> QED
  BY <1>1, <1>2, <1>4, <1>5, <1>6 DEF IInv, CensusCounted, RoundInv

\* IInv is an invariant of every program, whatever its number of threads.
THEOREM Invariance == Spec => []IInv
<1>1. IInv /\ [Next]_vars => IInv'
  BY TypeStep, CallersStep, ChildrenStep, CensusStep, RoundStep DEF IInv
<1> QED
  BY InitIInv, <1>1, PTL DEF Spec

\* Every variable keeps its type; in particular a barrier is never set up with a
\* negative count (alloc.c:97).
THEOREM TypeCorrect == Spec => []TypeOK
<1>1. IInv => TypeOK
  BY DEF IInv
<1> QED
  BY Invariance, <1>1, PTL

\* While a thread is in gc() (alloc.c:94) every other thread that can still
\* execute bytecode is held between the two waits of schedule_gc.
THEOREM CollectionStopsTheWorld == Spec => []StopTheWorld
<1>1. ASSUME IInv PROVE StopTheWorld
  <2> SUFFICES ASSUME NEW t \in Threads, NEW u \in Threads, pc[t] = "gc", u # t
               PROVE  /\ pc[u] \notin Mutating \cup Gathering \cup Collector
                      /\ pc[u] = "leave2" => why[u] = "end"
    BY DEF StopTheWorld
  <2>1. CollectInv
    BY <1>1 DEF IInv, RoundInv, Collected, Collector
  <2> QED
    BY <2>1 DEF CollectInv, Alive, Mutating, InRound, Collected, Gathering, Collector
<1> QED
  BY Invariance, <1>1, PTL

\* The two barriers keep the first waits of one round apart from the second
\* waits of the round before (alloc.c:88).
THEOREM RoundsApart == Spec => []NoMixedRounds
<1>1. ASSUME IInv PROVE NoMixedRounds
  <2> SUFFICES ASSUME NEW t \in Threads, NEW u \in Threads, pc[t] \in {"arrive1", "wait1"},
                      pc[u] \in {"arrive2", "wait2"}
               PROVE  FALSE
    BY DEF NoMixedRounds
  <2>1. CollectInv
    BY <1>1 DEF IInv, RoundInv, Collected
  <2> QED
    BY <2>1 DEF CollectInv, Alive, InRound, Collected, Gathering, Collector
<1> QED
  BY Invariance, <1>1, PTL

\* A barrier is destroyed and set up anew (alloc.c:97) only while no thread is
\* in it or about to enter it.
THEOREM ReinitIsSafe == Spec => ReinitUnused
<1> DEFINE Safe == \A b \in Barriers : Reinitialised(b) => AtBarrier(b) = {}
<1>1. ASSUME IInv, [Next]_vars PROVE [Safe]_vars
  <2>1. ASSUME NEW t \in Threads, InitGcBarrier(t), NEW b \in Barriers, Reinitialised(b)
        PROVE  AtBarrier(b) = {}
    <3>1. /\ CollectInv /\ pc[t] = "reinit" /\ gc_count \in {0, 1}
          /\ bar_count \in [Barriers -> Nat]
      BY <1>1, <2>1 DEF IInv, TypeOK, RoundInv, Collected, Collector, InitGcBarrier, Goto
    <3>2. b = PickedBarrier
      BY <2>1, <3>1 DEF Reinitialised, InitGcBarrier
    <3>3. UsedBarrier = Other(PickedBarrier) /\ Other(PickedBarrier) # PickedBarrier
      BY <3>1 DEF UsedBarrier, CollectInv, Collector, Other, PickedBarrier
    <3> QED
      BY <3>1, <3>2, <3>3
         DEF AtBarrier, CollectInv, Alive, InRound, Gathering, Collected, Collector
  <2>2. ASSUME ~ \E t \in Threads : InitGcBarrier(t) PROVE bar_count' = bar_count
    BY <1>1, <2>2 DEF Next, ScheduleGc, RequestGc, EndThread, StartThread, PickBarrier,
       PublishBarrier, LoadBarrier, BlockInBarrier, OpenBarrier, IncrementGcCount, Collect,
       LeaveScheduleGc, PushThread, CreateThread, JoinNext, JoinReturns, Terminated, vars, barVars
  <2> QED
    BY <2>1, <2>2 DEF Reinitialised
<1> QED
  BY Invariance, <1>1, PTL DEF ReinitUnused, Spec

-----------------------------------------------------------------------------
(* The thread list and the join loop of main()                             *)

Listed(t) == \E i \in 1..Len(thread_list) : thread_list[i] = t

\* main() has joined a prefix of the list.  A thread is listed before it exists
\* and its parent before it: an entry whose thread is still to be created has a
\* parent at pthread_create, which is main() or an earlier entry.
ListInv ==
  /\ join_index \in 0..Len(thread_list)
  /\ pc[Main] = "joining" => join_index < Len(thread_list)
  /\ pc[Main] = "exited" => join_index = Len(thread_list)
  /\ \A i \in 1..join_index : pc[thread_list[i]] = "done"
  /\ \A t \in Threads \ {Main} : pc[t] \notin {"unborn", "counted"} => Listed(t)
  /\ \A p \in Threads : pc[p] = "create" => Listed(child[p])
  /\ \A i \in 1..Len(thread_list) : pc[thread_list[i]] # "unborn"
  /\ \A i \in 1..Len(thread_list) : pc[thread_list[i]] = "counted" =>
       \E p \in Threads : /\ child[p] = thread_list[i]
                          /\ pc[p] = "create"
                          /\ p = Main \/ \E j \in 1..(i - 1) : thread_list[j] = p

\* A step that lists, joins, counts, creates and ends no listed thread keeps it.
LEMMA ListKept ==
  ASSUME TypeOK, ListInv,
         thread_list' = thread_list, join_index' = join_index, child' = child,
         \A u \in Threads : /\ pc'[u] \in {"unborn", "counted"} \/ pc[u] \in {"unborn", "counted"}
                                 => pc'[u] = pc[u]
                            /\ pc'[u] = "create" <=> pc[u] = "create"
                            /\ pc[u] = "done" => pc'[u] = "done",
         pc'[Main] \in {"joining", "exited"} => pc'[Main] = pc[Main]
  PROVE  ListInv'
<1>1. \A i \in 1..Len(thread_list) : thread_list[i] \in Threads
  BY DEF TypeOK
<1>2. /\ join_index' \in 0..Len(thread_list)'
      /\ pc'[Main] = "joining" => join_index' < Len(thread_list')
      /\ pc'[Main] = "exited" => join_index' = Len(thread_list')
  BY DEF ListInv
<1>3. \A i \in 1..join_index : pc'[thread_list[i]] = "done"
  BY <1>1 DEF ListInv
<1>4. /\ \A t \in Threads \ {Main} : pc'[t] \notin {"unborn", "counted"} => Listed(t)'
      /\ \A p \in Threads : pc'[p] = "create" => Listed(child[p])'
  BY DEF ListInv, Listed
<1>5. /\ \A i \in 1..Len(thread_list) : pc'[thread_list[i]] # "unborn"
      /\ \A i \in 1..Len(thread_list) : pc'[thread_list[i]] = "counted" =>
           \E p \in Threads : /\ child[p] = thread_list[i]
                              /\ pc'[p] = "create"
                              /\ p = Main \/ \E j \in 1..(i - 1) : thread_list[j] = p
  BY <1>1 DEF ListInv
<1> QED
  BY <1>2, <1>3, <1>4, <1>5 DEF ListInv

\* When main() has left the join loop every other thread has ended or was never
\* counted.
LEMMA AllDone ==
  ASSUME IInv, ListInv, pc[Main] = "exited"
  PROVE  \A t \in Threads \ {Main} : pc[t] \in {"unborn", "done"}
<1>1. \A u \in Threads : Listed(u) => pc[u] = "done"
  BY DEF ListInv, Listed
<1>2. \A u \in Threads \ {Main} : pc[u] \in {"unborn", "counted", "done"}
  BY <1>1 DEF ListInv
<1>3. ASSUME NEW c \in Threads, pc[c] = "counted" PROVE FALSE
  <2>1. PICK p \in Threads : child[p] = c
    BY <1>3 DEF IInv, ChildrenOwned
  <2>2. pc[p] \in Starting
    BY <2>1, ThreadsAssumption DEF IInv, ChildrenOwned
  <2> QED
    BY <1>2, <2>2 DEF Starting, InRound, Gathering, Collected, Collector
<1> QED
  BY <1>2, <1>3

\* Each step keeps the list and the join loop in step.
LEMMA ListStep ==
  ASSUME IInv, ListInv, [Next]_vars
  PROVE  ListInv'
<1>0. /\ TypeOK /\ ChildrenOwned /\ CallersKnown /\ Main \in Threads
      /\ pc \in [Threads -> Pc] /\ child \in [Threads -> Threads \cup {NoThread}]
      /\ thread_list \in Seq(Threads) /\ join_index \in Nat
      /\ \A i \in 1..Len(thread_list) : thread_list[i] \in Threads
  BY ThreadsAssumption DEF IInv, TypeOK
<1> DEFINE Kept == /\ thread_list' = thread_list /\ join_index' = join_index /\ child' = child
                   /\ \A u \in Threads :
                        /\ pc'[u] \in {"unborn", "counted"} \/ pc[u] \in {"unborn", "counted"}
                             => pc'[u] = pc[u]
                        /\ pc'[u] = "create" <=> pc[u] = "create"
                        /\ pc[u] = "done" => pc'[u] = "done"
                   /\ pc'[Main] \in {"joining", "exited"} => pc'[Main] = pc[Main]
<1>1. Kept => ListInv'
  BY <1>0, ListKept
<1>2. ASSUME NEW t \in Threads,
             \/ RequestGc(t) \/ EndThread(t) \/ PickBarrier(t) \/ PublishBarrier(t)
             \/ LoadBarrier(t) \/ BlockInBarrier(t) \/ IncrementGcCount(t) \/ Collect(t)
             \/ InitGcBarrier(t) \/ LeaveScheduleGc(t)
      PROVE  ListInv'
  <2>1. Kept
    BY <1>0, <1>2 DEF RequestGc, EndThread, PickBarrier, PublishBarrier, LoadBarrier,
       BlockInBarrier, IncrementGcCount, Collect, InitGcBarrier, LeaveScheduleGc, Goto, listVars
  <2> QED
    BY <1>1, <2>1
<1>3. ASSUME NEW t \in Threads, OpenBarrier(t) PROVE ListInv'
  <2>1. thread_list' = thread_list /\ join_index' = join_index /\ child' = child
    BY <1>3 DEF OpenBarrier, listVars
  <2>2. \A u \in Threads : \/ pc'[u] = pc[u]
                           \/ /\ pc[u] \in {"arrive1", "wait1", "arrive2", "wait2"}
                              /\ pc'[u] \in {"serial", "leave1", "leave2"}
    BY <1>3, OpenMoves
  <2>3. Kept
    BY <1>0, <2>1, <2>2
  <2> QED
    BY <1>1, <2>3
<1>4. ASSUME NEW t \in Threads, NEW c \in Threads, StartThread(t, c) PROVE ListInv'
  <2>1. /\ pc[t] = "run" /\ pc[c] = "unborn" /\ pc' = [pc EXCEPT ![t] = "pick", ![c] = "counted"]
        /\ child' = [child EXCEPT ![t] = c]
        /\ thread_list' = thread_list /\ join_index' = join_index
    BY <1>4 DEF StartThread, listVars
  <2>2. \A i \in 1..Len(thread_list) : thread_list[i] # c
    BY <2>1 DEF ListInv
  <2>3. \A i \in 1..Len(thread_list) : pc'[thread_list[i]] \in {pc[thread_list[i]], "pick"}
    BY <1>0, <2>1, <2>2
  <2>4. \A p \in Threads : /\ pc'[p] = "create" <=> pc[p] = "create"
                           /\ pc[p] = "create" => child'[p] = child[p]
    BY <1>0, <2>1
  <2>5. \A i \in 1..join_index : pc'[thread_list[i]] = "done"
    BY <1>0, <2>1, <2>2 DEF ListInv
  <2>6. \A u \in Threads \ {Main} : pc'[u] \notin {"unborn", "counted"} => Listed(u)'
    BY <1>0, <2>1 DEF ListInv, Listed
  <2>7. \A p \in Threads : pc'[p] = "create" => Listed(child[p])'
    BY <2>1, <2>4 DEF ListInv, Listed
  <2>8. \A i \in 1..Len(thread_list) : pc'[thread_list[i]] = "counted" =>
          \E p \in Threads : /\ child'[p] = thread_list[i]
                             /\ pc'[p] = "create"
                             /\ p = Main \/ \E j \in 1..(i - 1) : thread_list[j] = p
    BY <2>3, <2>4 DEF ListInv
  <2>9. pc'[Main] \in {"joining", "exited"} => pc'[Main] = pc[Main]
    BY <1>0, <2>1
  <2> QED
    BY <1>0, <2>1, <2>3, <2>5, <2>6, <2>7, <2>8, <2>9 DEF ListInv
<1>5. ASSUME NEW t \in Threads, PushThread(t) PROVE ListInv'
  <2> DEFINE c == child[t]
             n == Len(thread_list)
  <2>1. /\ pc[t] = "push" /\ pc' = [pc EXCEPT ![t] = "create"] /\ child' = child
        /\ thread_list' = Append(thread_list, c) /\ join_index' = join_index
    BY <1>5 DEF PushThread, Goto
  <2>2. c \in Threads /\ pc[c] = "counted" /\ c # t
    BY <1>0, <2>1 DEF ChildrenOwned, CallersKnown, Starting
  <2>3. /\ Len(thread_list') = n + 1 /\ thread_list'[n + 1] = c /\ n \in Nat
        /\ \A i \in 1..n : thread_list'[i] = thread_list[i]
    BY <1>0, <2>1, <2>2
  <2>4. pc[Main] # "exited"
    BY <2>1, AllDone
  <2>5. t = Main \/ Listed(t)
    BY <2>1 DEF ListInv
  <2>6. \A u : Listed(u) => Listed(u)'
    BY <2>3 DEF Listed
  <2>7. Listed(c)'
    BY <2>1, <2>3 DEF Listed
  <2>8. \A i \in 1..join_index : pc'[thread_list'[i]] = "done"
    BY <1>0, <2>1, <2>3 DEF ListInv
  <2>9. \A u \in Threads \ {Main} : pc'[u] \notin {"unborn", "counted"} => Listed(u)'
    BY <1>0, <2>1, <2>5, <2>6 DEF ListInv
  <2>10. \A p \in Threads : pc'[p] = "create" => Listed(child[p])'
    BY <1>0, <2>1, <2>6, <2>7 DEF ListInv
  <2>11. \A i \in 1..(n + 1) : pc'[thread_list'[i]] # "unborn"
    BY <1>0, <2>1, <2>2, <2>3 DEF ListInv
  <2>12. \A i \in 1..(n + 1) : pc'[thread_list'[i]] = "counted" =>
           \E p \in Threads : /\ child'[p] = thread_list'[i]
                              /\ pc'[p] = "create"
                              /\ p = Main \/ \E j \in 1..(i - 1) : thread_list'[j] = p
    <3>1. ASSUME NEW i \in 1..n, pc'[thread_list'[i]] = "counted"
          PROVE \E p \in Threads : /\ child'[p] = thread_list'[i]
                                   /\ pc'[p] = "create"
                                   /\ p = Main \/ \E j \in 1..(i - 1) : thread_list'[j] = p
      <4>1. pc[thread_list[i]] = "counted" /\ thread_list'[i] = thread_list[i]
        BY <1>0, <2>1, <2>3, <3>1
      <4>2. PICK p \in Threads : /\ child[p] = thread_list[i]
                                 /\ pc[p] = "create"
                                 /\ p = Main \/ \E j \in 1..(i - 1) : thread_list[j] = p
        BY <4>1 DEF ListInv
      <4>3. pc'[p] = "create"
        BY <1>0, <2>1, <4>2
      <4>4. \A j \in 1..(i - 1) : thread_list'[j] = thread_list[j]
        BY <2>3
      <4> QED
        BY <2>1, <4>1, <4>2, <4>3, <4>4
    <3>2. /\ child'[t] = thread_list'[n + 1] /\ pc'[t] = "create"
          /\ t = Main \/ \E j \in 1..n : thread_list'[j] = t
      BY <1>0, <2>1, <2>3, <2>5 DEF Listed
    <3>3. (n + 1) - 1 = n /\ \A i \in 1..(n + 1) : i \in 1..n \/ i = n + 1
      BY <2>3
    <3> QED
      BY <3>1, <3>2, <3>3
  <2>13. /\ join_index' \in 0..Len(thread_list')
         /\ pc'[Main] = "joining" => join_index' < Len(thread_list')
         /\ pc'[Main] # "exited"
    BY <1>0, <2>1, <2>3, <2>4 DEF ListInv
  <2> QED
    BY <2>1, <2>3, <2>8, <2>9, <2>10, <2>11, <2>12, <2>13 DEF ListInv
<1>6. ASSUME NEW t \in Threads, CreateThread(t) PROVE ListInv'
  <2> DEFINE c == child[t]
  <2>1. /\ pc[t] = "create" /\ pc' = [pc EXCEPT ![t] = "run", ![c] = "run"]
        /\ child' = [child EXCEPT ![t] = NoThread]
        /\ thread_list' = thread_list /\ join_index' = join_index
    BY <1>6 DEF CreateThread
  <2>2. c \in Threads /\ pc[c] = "counted" /\ c # t /\ Listed(c)
    BY <1>0, <2>1 DEF ChildrenOwned, CallersKnown, Starting, ListInv
  <2>3. \A u \in Threads : \/ pc'[u] = "run" /\ u \in {t, c}
                           \/ pc'[u] = pc[u] /\ child'[u] = child[u] /\ u \notin {t, c}
    BY <1>0, <2>1, <2>2
  <2>4. /\ \A i \in 1..join_index : pc'[thread_list[i]] = "done"
        /\ \A i \in 1..Len(thread_list) : pc'[thread_list[i]] # "unborn"
    BY <1>0, <2>1, <2>2, <2>3 DEF ListInv
  <2>5. \A u \in Threads \ {Main} : pc'[u] \notin {"unborn", "counted"} => Listed(u)'
    BY <2>1, <2>2, <2>3 DEF ListInv, Listed
  <2>6. \A p \in Threads : pc'[p] = "create" => Listed(child[p])'
    BY <2>1, <2>3 DEF ListInv, Listed
  <2>7. ASSUME NEW i \in 1..Len(thread_list), pc'[thread_list[i]] = "counted"
        PROVE \E p \in Threads : /\ child'[p] = thread_list[i]
                                 /\ pc'[p] = "create"
                                 /\ p = Main \/ \E j \in 1..(i - 1) : thread_list[j] = p
    <3>1. pc[thread_list[i]] = "counted" /\ thread_list[i] # c
      BY <1>0, <2>3, <2>7
    <3>2. PICK p \in Threads : /\ child[p] = thread_list[i]
                               /\ pc[p] = "create"
                               /\ p = Main \/ \E j \in 1..(i - 1) : thread_list[j] = p
      BY <3>1 DEF ListInv
    <3>3. p \notin {t, c}
      BY <2>2, <3>1, <3>2
    <3> QED
      BY <2>3, <3>2, <3>3
  <2>8. pc'[Main] \in {"joining", "exited"} => pc'[Main] = pc[Main]
    BY <1>0, <2>3
  <2>9. /\ join_index' \in 0..Len(thread_list')
        /\ pc'[Main] = "joining" => join_index' < Len(thread_list')
        /\ pc'[Main] = "exited" => join_index' = Len(thread_list')
    BY <2>1, <2>8 DEF ListInv
  <2>10. thread_list' = thread_list /\ join_index' = join_index
    BY <2>1
  <2> QED
    BY <2>4, <2>5, <2>6, <2>7, <2>9, <2>10 DEF ListInv
<1>7. CASE JoinNext
  <2>1. /\ pc[Main] = "join" /\ thread_list' = thread_list /\ join_index' = join_index
        /\ child' = child
        /\ pc' = [pc EXCEPT ![Main] = IF join_index < Len(thread_list) THEN "joining" ELSE "exited"]
    BY <1>7 DEF JoinNext, listVars
  <2>2. /\ pc'[Main] = IF join_index < Len(thread_list) THEN "joining" ELSE "exited"
        /\ \A u \in Threads : u # Main => pc'[u] = pc[u]
    BY <1>0, <2>1
  <2>3. /\ \A i \in 1..join_index : pc'[thread_list[i]] = "done"
        /\ \A i \in 1..Len(thread_list) : pc'[thread_list[i]] # "unborn"
    BY <1>0, <2>1, <2>2 DEF ListInv
  <2>4. /\ \A u \in Threads \ {Main} : pc'[u] \notin {"unborn", "counted"} => Listed(u)'
        /\ \A p \in Threads : pc'[p] = "create" => Listed(child[p])'
    BY <2>1, <2>2 DEF ListInv, Listed
  <2>5. \A i \in 1..Len(thread_list) : pc'[thread_list[i]] = "counted" =>
          \E p \in Threads : /\ child'[p] = thread_list[i]
                             /\ pc'[p] = "create"
                             /\ p = Main \/ \E j \in 1..(i - 1) : thread_list[j] = p
    <3>1. \A p \in Threads : pc[p] = "create" => pc'[p] = "create"
      BY <2>1, <2>2
    <3>2. \A i \in 1..Len(thread_list) :
            pc'[thread_list[i]] = "counted" => pc[thread_list[i]] = "counted"
      BY <1>0, <2>2
    <3> QED
      BY <2>1, <3>1, <3>2 DEF ListInv
  <2>6. /\ join_index' \in 0..Len(thread_list')
        /\ pc'[Main] = "joining" => join_index' < Len(thread_list')
        /\ pc'[Main] = "exited" => join_index' = Len(thread_list')
    BY <1>0, <2>1, <2>2 DEF ListInv
  <2> QED
    BY <2>1, <2>3, <2>4, <2>5, <2>6 DEF ListInv
<1>8. CASE JoinReturns
  <2>1. /\ pc[Main] = "joining" /\ thread_list' = thread_list /\ join_index' = join_index + 1
        /\ child' = child /\ pc[thread_list[join_index + 1]] = "done"
        /\ pc' = [pc EXCEPT ![Main] = "join"]
    BY <1>8 DEF JoinReturns, JoinTarget, Goto
  <2>2. pc'[Main] = "join" /\ \A u \in Threads : u # Main => pc'[u] = pc[u]
    BY <1>0, <2>1
  <2>3. join_index' \in 0..Len(thread_list)
    BY <1>0, <2>1 DEF ListInv
  <2>4. \A i \in 1..join_index' : pc[thread_list[i]] = "done"
    BY <1>0, <2>1 DEF ListInv
  <2>5. /\ \A i \in 1..join_index' : pc'[thread_list[i]] = "done"
        /\ \A i \in 1..Len(thread_list) : pc'[thread_list[i]] # "unborn"
    BY <1>0, <2>1, <2>2, <2>3, <2>4 DEF ListInv
  <2>6. /\ \A u \in Threads \ {Main} : pc'[u] \notin {"unborn", "counted"} => Listed(u)'
        /\ \A p \in Threads : pc'[p] = "create" => Listed(child[p])'
    BY <2>1, <2>2 DEF ListInv, Listed
  <2>7. \A i \in 1..Len(thread_list) : pc'[thread_list[i]] = "counted" =>
          \E p \in Threads : /\ child'[p] = thread_list[i]
                             /\ pc'[p] = "create"
                             /\ p = Main \/ \E j \in 1..(i - 1) : thread_list[j] = p
    <3>1. \A p \in Threads : pc[p] = "create" => pc'[p] = "create"
      BY <2>1, <2>2
    <3>2. \A i \in 1..Len(thread_list) :
            pc'[thread_list[i]] = "counted" => pc[thread_list[i]] = "counted"
      BY <1>0, <2>2
    <3> QED
      BY <2>1, <3>1, <3>2 DEF ListInv
  <2> QED
    BY <2>1, <2>2, <2>3, <2>5, <2>6, <2>7 DEF ListInv
<1>9. CASE UNCHANGED vars
  BY <1>1, <1>9 DEF vars
<1> QED
  BY <1>2, <1>3, <1>4, <1>5, <1>6, <1>7, <1>8, <1>9 DEF Next, ScheduleGc, Terminated

\* The list invariant holds of every program, with IInv.
LEMMA ListInvariance == Spec => []ListInv
<1>1. Init => ListInv
  BY ThreadsAssumption DEF Init, ListInv, Listed
<1>2. IInv /\ ListInv /\ [Next]_vars => ListInv'
  BY ListStep
<1> QED
  BY Invariance, <1>1, <1>2, PTL DEF Spec

\* main() joins no thread before pthread_create has written its pthread_t, although
\* it reads the list without its lock (main.cpp:81-84): its parent is joined first.
THEOREM JoinsCreated == Spec => []JoinAfterCreate
<1>1. ASSUME IInv, ListInv PROVE JoinAfterCreate
  <2> SUFFICES ASSUME pc[Main] = "joining", pc[JoinTarget] \in {"unborn", "counted"}
               PROVE  FALSE
    BY DEF JoinAfterCreate
  <2>1. join_index + 1 \in 1..Len(thread_list) /\ join_index \in Nat
    BY <1>1 DEF ListInv, IInv, TypeOK
  <2>2. pc[JoinTarget] = "counted"
    BY <1>1, <2>1 DEF ListInv, JoinTarget
  <2>3. PICK p \in Threads : /\ pc[p] = "create"
                             /\ p = Main \/ \E j \in 1..((join_index + 1) - 1) : thread_list[j] = p
    BY <1>1, <2>1, <2>2 DEF ListInv, JoinTarget
  <2>4. \E j \in 1..join_index : thread_list[j] = p
    BY <2>1, <2>3
  <2> QED
    BY <1>1, <2>3, <2>4 DEF ListInv
<1> QED
  BY Invariance, ListInvariance, <1>1, PTL

\* main() returns, and the process ends, only when every counted thread has ended
\* (main.cpp:80-93).
THEOREM MainLast == Spec => []MainExitsLast
<1>1. IInv /\ ListInv => MainExitsLast
  BY AllDone DEF MainExitsLast
<1> QED
  BY Invariance, ListInvariance, <1>1, PTL

-----------------------------------------------------------------------------
(* GcBarrier implements StopTheWorld *)

\* A step that changes no mode and neither starts nor ends a phase stutters.
LEMMA SameModes ==
  ASSUME pc \in [Threads -> Pc],
         \A t \in Threads : ModeOf(t)' = ModeOf(t),
         \A t \in Threads : /\ pc'[t] \in Collector <=> pc[t] \in Collector
                            /\ pc'[t] \in Collected <=> pc[t] \in Collected
  PROVE  UNCHANGED <<modeBar, phaseBar>>
BY DEF modeBar, phaseBar

\* Every step of the barrier is a step of the stopped world or is not seen there.
LEMMA WorldStep ==
  ASSUME IInv, IInv', [Next]_vars
  PROVE  [World!Next]_<<modeBar, phaseBar>>
<1>0. /\ RoundInv /\ RoundInv' /\ ChildrenOwned /\ CallersKnown
      /\ pc \in [Threads -> Pc] /\ why \in [Threads -> Why] /\ pc' \in [Threads -> Pc]
      /\ child \in [Threads -> Threads \cup {NoThread}]
  BY DEF IInv, TypeOK
<1> DEFINE Goal == [World!Next]_<<modeBar, phaseBar>>
           Unseen == /\ \A t \in Threads : ModeOf(t)' = ModeOf(t)
                     /\ \A t \in Threads : /\ pc'[t] \in Collector <=> pc[t] \in Collector
                                           /\ pc'[t] \in Collected <=> pc[t] \in Collected
<1>1. Unseen => Goal
  BY <1>0, SameModes
<1> USE DEF InRound, Gathering, Collected, Collector, Mutating, Starting
<1>2. ASSUME NEW t \in Threads, pc[t] \in Mutating PROVE \A u \in Threads : pc[u] \notin Collected
  BY <1>0, <1>2 DEF RoundInv, CollectInv, Alive
<1>3. ASSUME NEW t \in Threads, RequestGc(t) \/ EndThread(t) \/ \E c \in Threads : StartThread(t, c)
      PROVE  Goal
  <2>1. /\ pc[t] = "run" /\ pc'[t] = "pick"
        /\ \A u \in Threads : u # t =>
             /\ why'[u] = why[u]
             /\ pc'[u] = pc[u] \/ (pc[u] = "unborn" /\ pc'[u] = "counted")
    BY <1>0, <1>3 DEF RequestGc, EndThread, StartThread, Goto
  <2>2. \A u \in Threads : pc[u] \notin Collected /\ pc'[u] \notin Collected
    BY <1>2, <2>1
  <2>3. phaseBar = "gathering" /\ phaseBar' = "gathering"
    BY <2>2 DEF phaseBar
  <2>4. ModeOf(t) = "running" /\ ModeOf(t)' = "stopped"
    BY <2>1 DEF ModeOf
  <2>5. \A u \in Threads : u # t => ModeOf(u)' = ModeOf(u)
    BY <2>1 DEF ModeOf
  <2>6. modeBar' = [modeBar EXCEPT ![t] = "stopped"] /\ modeBar[t] = "running"
    BY <2>4, <2>5 DEF modeBar
  <2> QED
    BY <2>3, <2>6 DEF World!Next, World!Stop
<1>4. ASSUME NEW t \in Threads,
             \/ PickBarrier(t) \/ PublishBarrier(t) \/ LoadBarrier(t) \/ BlockInBarrier(t)
             \/ IncrementGcCount(t) \/ Collect(t) \/ PushThread(t) \/ LeaveScheduleGc(t)
      PROVE  Goal
  <2>1. /\ why' = why /\ \A u \in Threads : u # t => pc'[u] = pc[u]
        /\ \/ pc[t] \in Gathering /\ pc'[t] \in Gathering
           \/ pc[t] \in Collector /\ pc'[t] \in Collector
           \/ pc[t] \in Collected \ Collector /\ pc'[t] \in Collected \ Collector
           \/ pc[t] = "push" /\ pc'[t] = "create"
           \/ pc[t] = "leave2" /\ why[t] # "end" /\ pc'[t] \in Mutating
           \/ pc[t] = "leave2" /\ why[t] = "end" /\ pc'[t] \in Final
    BY <1>0, <1>4 DEF PickBarrier, PublishBarrier, LoadBarrier, BlockInBarrier, IncrementGcCount,
       Collect, PushThread, LeaveScheduleGc, Goto, Final
  <2>2. Unseen
    BY <2>1 DEF ModeOf, Final
  <2> QED
    BY <1>1, <2>2
<1>5. ASSUME NEW t \in Threads, OpenBarrier(t) PROVE Goal
  <2> DEFINE arrived == bar_waiting[side[t]] \cup {t}
  <2>1. why' = why
    BY <1>5 DEF OpenBarrier
  <2>2. CASE \A u \in Threads : pc[u] \notin Collected
    <3>1. CollectInv' /\ \E u \in Threads : pc'[u] \in Collected
      BY <1>5, <2>2, GatherOpens
    <3>2. PICK s \in arrived :
            pc' = [u \in Threads |-> IF u \in arrived THEN ReleasedTo(u, s) ELSE pc[u]]
      BY <1>5 DEF OpenBarrier
    <3>3. \A u \in arrived : u \in Threads /\ pc[u] \in {"arrive1", "wait1"}
      BY <1>5, <2>2, OpenMoves
    <3>4. /\ s \in Threads /\ pc'[s] = "serial" /\ pc[s] \in Gathering
          /\ \A u \in Threads : u # s => \/ pc'[u] = pc[u] /\ u \notin arrived
                                         \/ pc[u] \in Gathering /\ pc'[u] = "leave1"
      BY <3>2, <3>3 DEF ReleasedTo
    <3>5. phaseBar = "gathering" /\ phaseBar' = "collecting"
      BY <2>2, <3>4 DEF phaseBar
    <3>6. \A u \in Threads : ModeOf(u) # "running"
      BY <2>1, <2>2, <3>1, <3>4 DEF CollectInv, Alive, ModeOf
    <3>7. ModeOf(s) = "stopped" /\ ModeOf(s)' = "collecting"
      BY <3>4 DEF ModeOf
    <3>8. \A u \in Threads : u # s => ModeOf(u)' = ModeOf(u)
      BY <2>1, <3>4 DEF ModeOf
    <3>9. /\ modeBar' = [modeBar EXCEPT ![s] = "collecting"] /\ modeBar[s] = "stopped"
          /\ \A u \in Threads : modeBar[u] # "running"
      BY <3>4, <3>6, <3>7, <3>8 DEF modeBar
    <3> QED
      BY <3>4, <3>5, <3>9 DEF World!Next, World!Begin
  <2>3. CASE \E u \in Threads : pc[u] \in Collected
    <3>1. \A u \in Threads : pc'[u] \notin Collected
      BY <1>5, <2>3, CollectOpens
    <3>2. CollectInv
      BY <1>0, <2>3 DEF RoundInv
    <3>3. \A u \in Threads : \/ pc'[u] = pc[u] /\ pc[u] \notin InRound
                             \/ pc[u] \in {"arrive2", "wait2"} /\ pc'[u] = "leave2"
      BY <1>5, <3>1, <3>2, OpenMoves DEF CollectInv, Alive
    <3>4. \A u \in Threads : pc[u] \notin Collector /\ pc'[u] \notin Collector
      BY <3>3
    <3>5. phaseBar = "collected" /\ phaseBar' = "gathering"
      BY <2>3, <3>1, <3>4 DEF phaseBar
    <3> DEFINE leaving == {u \in Threads : why[u] = "end"}
    <3>6. \A u \in Threads : ModeOf(u)' = IF ModeOf(u) # "stopped" THEN ModeOf(u)
                                          ELSE IF u \in leaving THEN "gone" ELSE "running"
      BY <2>1, <3>3 DEF ModeOf
    <3>7. modeBar' = [u \in Threads |-> IF modeBar[u] # "stopped" THEN modeBar[u]
                                        ELSE IF u \in leaving THEN "gone" ELSE "running"]
      BY <3>6 DEF modeBar
    <3>8. World!Resume(leaving) /\ leaving \in SUBSET Threads
      BY <3>5, <3>7 DEF World!Resume
    <3> QED
      BY <3>8 DEF World!Next
  <2> QED
    BY <2>2, <2>3
<1>6. ASSUME NEW t \in Threads, InitGcBarrier(t) PROVE Goal
  <2>1. pc[t] = "reinit" /\ pc'[t] = "leave1" /\ why' = why
        /\ \A u \in Threads : u # t => pc'[u] = pc[u]
    BY <1>0, <1>6 DEF InitGcBarrier, Goto
  <2>2. \A u \in Threads : pc'[u] \notin Collector
    BY <1>0, <2>1 DEF RoundInv, CollectInv
  <2>3. phaseBar = "collecting" /\ phaseBar' = "collected"
    BY <2>1, <2>2 DEF phaseBar
  <2>4. ModeOf(t) = "collecting" /\ ModeOf(t)' = "stopped"
    BY <2>1 DEF ModeOf
  <2>5. \A u \in Threads : u # t => ModeOf(u)' = ModeOf(u)
    BY <2>1 DEF ModeOf
  <2>6. modeBar' = [modeBar EXCEPT ![t] = "stopped"] /\ modeBar[t] = "collecting"
    BY <2>4, <2>5 DEF modeBar
  <2> QED
    BY <2>3, <2>6 DEF World!Next, World!Finish
<1>7. ASSUME NEW t \in Threads, CreateThread(t) PROVE Goal
  <2>1. PICK c \in Threads : c = child[t] /\ c # t /\ pc[c] = "counted"
    BY <1>0, <1>7, ThreadsAssumption DEF CreateThread, ChildrenOwned, CallersKnown
  <2>2. /\ pc[t] = "create" /\ pc'[t] = "run" /\ pc'[c] = "run" /\ why' = why
        /\ \A u \in Threads : u # t /\ u # c => pc'[u] = pc[u]
    BY <1>0, <1>7, <2>1 DEF CreateThread
  <2>3. \A u \in Threads : pc[u] \notin Collected /\ pc'[u] \notin Collected
    BY <1>2, <2>2
  <2>4. phaseBar = "gathering" /\ phaseBar' = "gathering"
    BY <2>3 DEF phaseBar
  <2>5. ModeOf(t) = "running" /\ ModeOf(c) = "absent" /\ ModeOf(c)' = "running"
    BY <2>1, <2>2 DEF ModeOf
  <2>6. \A u \in Threads : u # c => ModeOf(u)' = ModeOf(u)
    BY <2>2 DEF ModeOf
  <2>7. modeBar' = [modeBar EXCEPT ![c] = "running"] /\ modeBar[t] = "running" /\ modeBar[c] = "absent"
    BY <2>5, <2>6 DEF modeBar
  <2> QED
    BY <2>1, <2>4, <2>7 DEF World!Next, World!Spawn
<1>8. CASE JoinNext \/ JoinReturns
  <2>1. /\ why' = why /\ \A u \in Threads : u # Main => pc'[u] = pc[u]
        /\ pc[Main] \in Final /\ pc'[Main] \in Final
    BY <1>0, <1>8, ThreadsAssumption DEF JoinNext, JoinReturns, Goto, Final
  <2>2. Unseen
    BY <2>1 DEF ModeOf, Final
  <2> QED
    BY <1>1, <2>2
<1>9. CASE UNCHANGED vars
  <2>1. Unseen
    BY <1>9 DEF vars, ModeOf
  <2> QED
    BY <1>1, <2>1
<1> QED
  BY <1>3, <1>4, <1>5, <1>6, <1>7, <1>8, <1>9 DEF Next, ScheduleGc, Terminated

\* schedule_gc implements the stopped world of StopTheWorld: whoever is released
\* from it is released after a collection that nobody disturbed.
THEOREM Refinement == Spec => ImplementsStopTheWorld
<1>1. Init => World!Init
  <2> SUFFICES ASSUME Init PROVE World!Init
    OBVIOUS
  <2>1. \A t \in Threads : pc[t] = IF t = Main THEN "run" ELSE "unborn"
    BY DEF Init
  <2>2. \A t \in Threads : ModeOf(t) = IF t = Main THEN "running" ELSE "absent"
    BY <2>1 DEF ModeOf, Mutating
  <2>3. phaseBar = "gathering"
    BY <2>1 DEF phaseBar, Collected, Collector
  <2> QED
    BY <2>2, <2>3 DEF World!Init, modeBar
<1>2. IInv /\ IInv' /\ [Next]_vars => [World!Next]_<<modeBar, phaseBar>>
  BY WorldStep
<1> QED
  BY Invariance, <1>1, <1>2, PTL DEF ImplementsStopTheWorld, Spec, World!Spec, World!vars
=============================================================================
