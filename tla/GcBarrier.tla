----------------------------- MODULE GcBarrier -----------------------------
(***************************************************************************)
(* The garbage collection barrier of the interpreter: schedule_gc of       *)
(* src/common/alloc.c, the start and the end of an async thread in         *)
(* src/interpreter/interpreter_dd.c, and the end of main() in src/main.cpp *)
(*                                                                         *)
(* A thread that needs a collection, that starts a thread or that ends     *)
(* calls schedule_gc and waits twice on one of two pthread barriers: the   *)
(* first wait gathers every thread, one of them collects and sets up the   *)
(* other barrier for the next round, the second wait releases them all.    *)
(* The steps of a thread between two accesses to shared memory are one     *)
(* action.  Every thread is listed in Threads once and for all: a thread   *)
(* that has not been started is "unborn".                                  *)
(***************************************************************************)
EXTENDS Integers, Sequences, FiniteSets

CONSTANTS
  Threads,   \* every thread that the program can start, and the main one
  Main,      \* the thread that runs main()
  NoThread   \* no thread

ASSUME ThreadsAssumption == /\ IsFiniteSet(Threads)
                            /\ Main \in Threads
                            /\ NoThread \notin Threads

VARIABLES
  pc,                  \* pc[t]: where thread t is (see Pc)
  why,                 \* why[t]: the caller of t's last schedule_gc (see Why)
  child,               \* child[t]: the thread that t is starting, or NoThread
  side,                \* side[t]: the barrier pointer t holds in a register
  gc_count,            \* parity of gc_count: the code never uses more of it
  gc_safe_barrier,     \* the global pointer to the barrier in use
  bar_count,           \* bar_count[b]: the count barrier b was initialised with
  bar_waiting,         \* bar_waiting[b]: the threads blocked in barrier b
  total_thread_count,
  thread_list_lock,    \* the thread that holds thread_list_lock, or NoThread
  thread_list,         \* the threads that main() joins, in order
  join_index           \* i of the join loop of main()

vars == <<pc, why, child, side, gc_count, gc_safe_barrier, bar_count,
          bar_waiting, total_thread_count, thread_list_lock, thread_list,
          join_index>>

barVars  == <<bar_count, bar_waiting>>
listVars == <<thread_list_lock, thread_list, join_index>>

Barriers == {"barrier1", "barrier2"}

Other(b) == IF b = "barrier1" THEN "barrier2" ELSE "barrier1"

\* The barrier that gc_count selects: line 88 for the round that begins, line
\* 96 for the barrier to set up for the next one.
PickedBarrier == IF gc_count = 0 THEN "barrier1" ELSE "barrier2"

Why == {"alloc", "start", "end"}

\* Before a round: executing bytecode, or completing a thread start.
Mutating  == {"run", "push", "create"}
\* Lines 88-90, up to and including the first wait.
Gathering == {"pick", "publish", "load1", "arrive1", "wait1"}
\* Lines 91-98: what the one thread that got PTHREAD_BARRIER_SERIAL_THREAD does.
Collector == {"serial", "gc", "reinit"}
\* Lines 91-99, after the first wait and up to and including the second.
Collected == Collector \cup {"leave1", "arrive2", "wait2"}
Final     == {"join", "joining", "exited", "done"}

\* "counted": not created, but already in total_thread_count.
\* "leave2": released from the second wait, not yet returned from it.
Pc == {"unborn", "counted", "leave2"} \cup Mutating \cup Gathering
        \cup Collected \cup Final

TypeOK ==
  /\ pc \in [Threads -> Pc]
  /\ why \in [Threads -> Why]
  /\ child \in [Threads -> Threads \cup {NoThread}]
  /\ side \in [Threads -> Barriers]
  /\ gc_count \in {0, 1}
  /\ gc_safe_barrier \in Barriers
  /\ bar_count \in [Barriers -> Nat]
  /\ bar_waiting \in [Barriers -> SUBSET Threads]
  /\ total_thread_count \in Int
  /\ thread_list_lock \in Threads \cup {NoThread}
  /\ thread_list \in Seq(Threads)
  /\ join_index \in Nat

-----------------------------------------------------------------------------
(***************************************************************************)
(* main() has initialised both barriers for itself alone (main.cpp:65-67). *)
(* The null gc_safe_barrier pointer is never read before it is written.    *)
(***************************************************************************)
Init ==
  /\ pc = [t \in Threads |-> IF t = Main THEN "run" ELSE "unborn"]
  /\ why = [t \in Threads |-> "alloc"]
  /\ child = [t \in Threads |-> NoThread]
  /\ side = [t \in Threads |-> "barrier1"]
  /\ gc_count = 0
  /\ gc_safe_barrier \in Barriers
  /\ bar_count = [b \in Barriers |-> 1]
  /\ bar_waiting = [b \in Barriers |-> {}]
  /\ total_thread_count = 1
  /\ thread_list_lock = NoThread
  /\ thread_list = <<>>
  /\ join_index = 0

Goto(t, from, to) == /\ pc[t] = from
                     /\ pc' = [pc EXCEPT ![t] = to]

-----------------------------------------------------------------------------
(* The three callers of schedule_gc *)

\* z_alloc_or_gc finds used_heap above heap_limit, or the script calls gc().
RequestGc(t) ==
  /\ Goto(t, "run", "pick")
  /\ why' = [why EXCEPT ![t] = "alloc"]
  /\ UNCHANGED <<child, side, gc_count, gc_safe_barrier, barVars,
                 total_thread_count, listVars>>

\* A variant for the mutation runs: total_thread_count++ is forgotten.
StartThreadUncounted(t, c) ==
  /\ pc[t] = "run" /\ pc[c] = "unborn" /\ thread_list_lock = NoThread
  /\ pc' = [pc EXCEPT ![t] = "pick", ![c] = "counted"]
  /\ why' = [why EXCEPT ![t] = "start"]
  /\ child' = [child EXCEPT ![t] = c]
  /\ UNCHANGED <<side, gc_count, gc_safe_barrier, barVars, total_thread_count,
                 listVars>>

\* z_thread_gc_safe_start_thread, up to its call of schedule_gc: the child c is
\* counted, under the lock, before it exists.
StartThread(t, c) ==
  /\ pc[t] = "run"
  /\ pc[c] = "unborn"
  /\ thread_list_lock = NoThread
  /\ pc' = [pc EXCEPT ![t] = "pick", ![c] = "counted"]
  /\ why' = [why EXCEPT ![t] = "start"]
  /\ child' = [child EXCEPT ![t] = c]
  /\ total_thread_count' = total_thread_count + 1
  /\ UNCHANGED <<side, gc_count, gc_safe_barrier, barVars, listVars>>

\* A variant for the mutation runs: total_thread_count-- is forgotten.
EndThreadCounted(t) ==
  /\ Goto(t, "run", "pick")
  /\ thread_list_lock = NoThread
  /\ why' = [why EXCEPT ![t] = "end"]
  /\ UNCHANGED <<child, side, gc_count, gc_safe_barrier, barVars,
                 total_thread_count, listVars>>

\* z_thread_gc_safe_end_thread, up to its call of schedule_gc: run_async and
\* main() both end this way.
EndThread(t) ==
  /\ Goto(t, "run", "pick")
  /\ thread_list_lock = NoThread
  /\ why' = [why EXCEPT ![t] = "end"]
  /\ total_thread_count' = total_thread_count - 1
  /\ UNCHANGED <<child, side, gc_count, gc_safe_barrier, barVars, listVars>>

-----------------------------------------------------------------------------
(* schedule_gc *)

\* Line 88 reads gc_count ...
PickBarrier(t) ==
  /\ Goto(t, "pick", "publish")
  /\ side' = [side EXCEPT ![t] = PickedBarrier]
  /\ UNCHANGED <<why, child, gc_count, gc_safe_barrier, barVars,
                 total_thread_count, listVars>>

\* ... and then writes the global pointer, which other threads write too.
PublishBarrier(t) ==
  /\ Goto(t, "publish", "load1")
  /\ gc_safe_barrier' = side[t]
  /\ UNCHANGED <<why, child, side, gc_count, barVars, total_thread_count,
                 listVars>>

\* A variant for the mutation runs: line 99 is dropped.
LoadBarrierOnce(t) ==
  \/ /\ Goto(t, "load1", "arrive1")
     /\ side' = [side EXCEPT ![t] = gc_safe_barrier]
     /\ UNCHANGED <<why, child, gc_count, gc_safe_barrier, barVars,
                    total_thread_count, listVars>>
  \/ /\ Goto(t, "leave1", "leave2")
     /\ UNCHANGED <<why, child, side, gc_count, gc_safe_barrier, barVars,
                    total_thread_count, listVars>>

\* Lines 90 and 99 read the global pointer before they wait.  "leave1" is also
\* the return from the first wait of a thread that does not collect.
LoadBarrier(t) ==
  /\ Goto(t, "load1", "arrive1") \/ Goto(t, "leave1", "arrive2")
  /\ side' = [side EXCEPT ![t] = gc_safe_barrier]
  /\ UNCHANGED <<why, child, gc_count, gc_safe_barrier, barVars,
                 total_thread_count, listVars>>

\* pthread_barrier_wait blocks the caller while fewer threads than its count
\* have arrived.
BlockInBarrier(t) ==
  LET arrived == bar_waiting[side[t]] \cup {t}
  IN  /\ Goto(t, "arrive1", "wait1") \/ Goto(t, "arrive2", "wait2")
      /\ Cardinality(arrived) # bar_count[side[t]]
      /\ bar_waiting' = [bar_waiting EXCEPT ![side[t]] = arrived]
      /\ UNCHANGED <<why, child, side, gc_count, gc_safe_barrier, bar_count,
                     total_thread_count, listVars>>

\* Where a thread released from a wait goes on, when the wait returned
\* PTHREAD_BARRIER_SERIAL_THREAD to the thread s.
ReleasedTo(u, s) ==
  IF pc[u] \in {"arrive1", "wait1"} THEN IF u = s THEN "serial" ELSE "leave1"
                                    ELSE "leave2"

\* The last arrival releases all; POSIX lets any one of them be the serial one.
OpenBarrier(t) ==
  LET arrived == bar_waiting[side[t]] \cup {t}
  IN  /\ pc[t] \in {"arrive1", "arrive2"}
      /\ Cardinality(arrived) = bar_count[side[t]]
      /\ \E s \in arrived :
           pc' = [u \in Threads |-> IF u \in arrived THEN ReleasedTo(u, s)
                                                     ELSE pc[u]]
      /\ bar_waiting' = [bar_waiting EXCEPT ![side[t]] = {}]
      /\ UNCHANGED <<why, child, side, gc_count, gc_safe_barrier, bar_count,
                     total_thread_count, listVars>>

\* Line 92.
IncrementGcCount(t) ==
  /\ Goto(t, "serial", "gc")
  /\ gc_count' = 1 - gc_count
  /\ UNCHANGED <<why, child, side, gc_safe_barrier, barVars,
                 total_thread_count, listVars>>

\* Line 94: gc() marks and sweeps the heap that all threads share.
Collect(t) ==
  /\ Goto(t, "gc", "reinit")
  /\ UNCHANGED <<why, child, side, gc_count, gc_safe_barrier, barVars,
                 total_thread_count, listVars>>

\* A variant for the mutation runs: the collecting thread does not count itself.
InitGcBarrierForOthers(t) ==
  /\ Goto(t, "reinit", "leave1")
  /\ bar_count' = [bar_count EXCEPT ![PickedBarrier] = total_thread_count - 1]
  /\ bar_waiting' = [bar_waiting EXCEPT ![PickedBarrier] = {}]
  /\ UNCHANGED <<why, child, side, gc_count, gc_safe_barrier,
                 total_thread_count, listVars>>

\* Lines 96-97 and init_gc_barrier: the other barrier for the next round.  A
\* thread blocked in it would be forgotten.
InitGcBarrier(t) ==
  /\ Goto(t, "reinit", "leave1")
  /\ bar_count' = [bar_count EXCEPT ![PickedBarrier] = total_thread_count]
  /\ bar_waiting' = [bar_waiting EXCEPT ![PickedBarrier] = {}]
  /\ UNCHANGED <<why, child, side, gc_count, gc_safe_barrier,
                 total_thread_count, listVars>>

\* schedule_gc returns to its caller.
LeaveScheduleGc(t) ==
  /\ \/ why[t] = "alloc" /\ Goto(t, "leave2", "run")
     \/ why[t] = "start" /\ Goto(t, "leave2", "push")
     \/ why[t] = "end"   /\ Goto(t, "leave2", IF t = Main THEN "join" ELSE "done")
  /\ UNCHANGED <<why, child, side, gc_count, gc_safe_barrier, barVars,
                 total_thread_count, listVars>>

-----------------------------------------------------------------------------
(* The second half of z_thread_gc_safe_start_thread *)

\* Lock the list and list the child; ThreadList has the steps inside the push.
PushThread(t) ==
  /\ Goto(t, "push", "create")
  /\ thread_list_lock = NoThread
  /\ thread_list_lock' = t
  /\ thread_list' = Append(thread_list, child[t])
  /\ UNCHANGED <<why, child, side, gc_count, gc_safe_barrier, barVars,
                 total_thread_count, join_index>>

\* pthread_create and unlock: the child enters run_async.
CreateThread(t) ==
  /\ pc[t] = "create"
  /\ pc' = [pc EXCEPT ![t] = "run", ![child[t]] = "run"]
  /\ child' = [child EXCEPT ![t] = NoThread]
  /\ thread_list_lock' = NoThread
  /\ UNCHANGED <<why, side, gc_count, gc_safe_barrier, barVars,
                 total_thread_count, thread_list, join_index>>

-----------------------------------------------------------------------------
(* The join loop of main(), which takes no lock *)

JoinTarget == thread_list[join_index + 1]

\* A variant for the mutation runs: the loop stops one element early.
JoinNextShort ==
  /\ pc[Main] = "join"
  /\ pc' = [pc EXCEPT ![Main] = IF join_index + 1 < Len(thread_list)
                                  THEN "joining" ELSE "exited"]
  /\ UNCHANGED <<why, child, side, gc_count, gc_safe_barrier, barVars,
                 total_thread_count, listVars>>

\* The loop condition, and the read of the next element.
JoinNext ==
  /\ pc[Main] = "join"
  /\ pc' = [pc EXCEPT ![Main] = IF join_index < Len(thread_list)
                                  THEN "joining" ELSE "exited"]
  /\ UNCHANGED <<why, child, side, gc_count, gc_safe_barrier, barVars,
                 total_thread_count, listVars>>

\* A variant for the mutation runs: i++ is forgotten.
JoinReturnsInPlace ==
  /\ Goto(Main, "joining", "join")
  /\ pc[JoinTarget] = "done"
  /\ UNCHANGED <<why, child, side, gc_count, gc_safe_barrier, barVars,
                 total_thread_count, listVars>>

\* A variant for the mutation runs: main() does not wait for the thread's end.
JoinReturnsAtOnce ==
  /\ Goto(Main, "joining", "join")
  /\ join_index' = join_index + 1
  /\ UNCHANGED <<why, child, side, gc_count, gc_safe_barrier, barVars,
                 total_thread_count, thread_list_lock, thread_list>>

\* pthread_join returns when the joined thread has ended.
JoinReturns ==
  /\ Goto(Main, "joining", "join")
  /\ pc[JoinTarget] = "done"
  /\ join_index' = join_index + 1
  /\ UNCHANGED <<why, child, side, gc_count, gc_safe_barrier, barVars,
                 total_thread_count, thread_list_lock, thread_list>>

-----------------------------------------------------------------------------
\* The process ends when main() returns: nothing is left to do.
Terminated == pc[Main] = "exited" /\ UNCHANGED vars

ScheduleGc(t) == \/ PickBarrier(t)
                 \/ PublishBarrier(t)
                 \/ LoadBarrier(t)
                 \/ BlockInBarrier(t)
                 \/ OpenBarrier(t)
                 \/ IncrementGcCount(t)
                 \/ Collect(t)
                 \/ InitGcBarrier(t)
                 \/ LeaveScheduleGc(t)

Next == \/ \E t \in Threads : \/ RequestGc(t)
                              \/ EndThread(t)
                              \/ \E c \in Threads : StartThread(t, c)
                              \/ ScheduleGc(t)
                              \/ PushThread(t)
                              \/ CreateThread(t)
        \/ JoinNext
        \/ JoinReturns
        \/ Terminated

Spec == Init /\ [][Next]_vars

(***************************************************************************)
(* The scheduler runs every thread that can run, and the script of every   *)
(* thread ends however many collections it asks for on the way: a thread   *)
(* that computes for ever and allocates nothing never reaches the barrier, *)
(* and no round would complete.  The lock is taken a bounded number of     *)
(* times, so that weak fairness is enough to get it.                       *)
(***************************************************************************)
Scheduled == /\ \A t \in Threads : /\ WF_vars(ScheduleGc(t))
                                   /\ WF_vars(PushThread(t))
                                   /\ WF_vars(CreateThread(t))
             /\ WF_vars(JoinNext)
             /\ WF_vars(JoinReturns)

ScriptsEnd == \A t \in Threads : SF_vars(EndThread(t))

FairSpec == Spec /\ Scheduled /\ ScriptsEnd

-----------------------------------------------------------------------------
(* Properties *)

InRound == Gathering \cup Collected

\* While gc() runs (alloc.c:94) no other thread executes bytecode, completes a
\* thread start, or is already released from the round.
StopTheWorld ==
  \A t, u \in Threads :
    (pc[t] = "gc" /\ u # t) =>
      /\ pc[u] \notin Mutating \cup Gathering \cup Collector
      /\ pc[u] = "leave2" => why[u] = "end"

\* A fast thread's first wait of a round never lands in the barrier in which a
\* slow thread is still to make, or blocked in, its second wait of the round
\* before: that is what the two barriers are for (alloc.c:87-99).
NoMixedRounds ==
  \A t, u \in Threads :
    ~ /\ pc[t] \in {"arrive1", "wait1"}
      /\ pc[u] \in {"arrive2", "wait2"}
      /\ side[t] = side[u]

\* init_gc_barrier destroys a barrier only when no thread is blocked in it or
\* holds the pointer that it is about to wait on (alloc.c:95-97).
AtBarrier(b) == {t \in Threads :
                   /\ pc[t] \in {"arrive1", "wait1", "arrive2", "wait2"}
                   /\ side[t] = b}

Reinitialised(b) == \/ bar_count'[b] # bar_count[b]
                    \/ b = PickedBarrier /\ \E t \in Threads : InitGcBarrier(t)

ReinitUnused == [][\A b \in Barriers : Reinitialised(b) => AtBarrier(b) = {}]_vars

\* main() joins a thread only through a pthread_t that pthread_create has
\* written, although it reads the list without its lock (main.cpp:81-84).
JoinAfterCreate ==
  pc[Main] = "joining" => pc[JoinTarget] \notin {"unborn", "counted"}

\* main() returns, which ends the process, only when every thread that was
\* counted has ended (main.cpp:80-93).
MainExitsLast ==
  pc[Main] = "exited" =>
    \A t \in Threads \ {Main} : pc[t] \in {"unborn", "done"}

\* A thread that waits for a round, or for its release from one, is released
\* (alloc.c:90 and 99).
WaitersReleased ==
  \A t \in Threads : (pc[t] \in InRound) ~> (pc[t] \notin InRound)

\* Every thread that is counted gets created, and main() returns.
ProgramEnds == /\ \A t \in Threads : (pc[t] = "counted") ~> (pc[t] = "done")
               /\ <>(pc[Main] = "exited")

-----------------------------------------------------------------------------
(* The inductive invariant                                                 *)

\* The threads that a round must wait for: those that can still run, and the
\* children that a thread past its own round is about to create.
Alive(t) == \/ pc[t] \in Mutating \cup InRound
            \/ pc[t] = "leave2" /\ why[t] # "end"

Expected(c) == \E p \in Threads : /\ child[p] = c
                                  /\ pc[p] \in {"leave2", "push", "create"}

Party == {t \in Threads : Alive(t) \/ Expected(t)}

\* The threads that total_thread_count counts.
InCensus(t) == \/ pc[t] \in {"counted"} \cup Mutating
               \/ pc[t] \in InRound \cup {"leave2"} /\ why[t] # "end"

Census == {t \in Threads : InCensus(t)}

CensusCounted == total_thread_count = Cardinality(Census)

\* The points at which a thread has a child, when it starts one.
Starting == InRound \cup {"leave2", "push", "create"}

\* A thread has a child exactly while it starts one, and nobody shares it.
ChildrenOwned ==
  /\ \A p \in Threads :
       IF why[p] = "start" /\ pc[p] \in Starting
         THEN child[p] \in Threads /\ pc[child[p]] = "counted"
         ELSE child[p] = NoThread
  /\ \A p, q \in Threads : child[p] = child[q] => p = q \/ child[p] = NoThread
  /\ \A c \in Threads : pc[c] = "counted" => \E p \in Threads : child[p] = c

CallersKnown ==
  \A t \in Threads : /\ pc[t] \in {"push", "create"} => why[t] = "start"
                     /\ pc[t] = "run" => why[t] # "end"
                     /\ pc[t] \in {"unborn", "counted"} => why[t] = "alloc"

Waiting(where) == {t \in Threads : pc[t] = where}

\* Until all have arrived, the barrier that gc_count selects waits for the
\* whole party and holds those at their first wait; the other one is empty.
GatherInv ==
  /\ bar_count[PickedBarrier] = Cardinality(Party)
  /\ bar_waiting[PickedBarrier] = Waiting("wait1")
  /\ bar_waiting[Other(PickedBarrier)] = {}
  /\ \A t \in Threads :
       /\ pc[t] \in {"publish", "arrive1", "wait1"} => side[t] = PickedBarrier
       /\ pc[t] \in {"load1", "arrive1", "wait1"} => gc_safe_barrier = PickedBarrier

\* From then on every live thread is between the two waits, at most one of them
\* collects, and the barrier in use holds those at their second wait.
UsedBarrier == IF \E t \in Threads : pc[t] = "serial"
                 THEN PickedBarrier ELSE Other(PickedBarrier)

CollectInv ==
  /\ \A t \in Threads : Alive(t) => pc[t] \in Collected
  /\ \A t, u \in Threads :
       pc[t] \in Collector /\ pc[u] \in Collector => t = u
  /\ gc_safe_barrier = UsedBarrier
  /\ \A t \in Threads : pc[t] \in {"arrive2", "wait2"} => side[t] = UsedBarrier
  /\ bar_count[UsedBarrier] = Cardinality(Party)
  /\ bar_waiting[UsedBarrier] = Waiting("wait2")
  /\ bar_waiting[Other(UsedBarrier)] = {}
  /\ (\A t \in Threads : pc[t] \notin Collector) =>
       bar_count[PickedBarrier] = total_thread_count

RoundInv == IF \E t \in Threads : pc[t] \in Collected THEN CollectInv ELSE GatherInv

IInv == TypeOK /\ CallersKnown /\ ChildrenOwned /\ CensusCounted /\ RoundInv

-----------------------------------------------------------------------------
(* GcBarrier implements StopTheWorld: a thread is stopped from its call of *)
(* schedule_gc to the opening of the second wait, which resumes all.       *)

ModeOf(t) ==
  IF pc[t] \in {"unborn", "counted"} THEN "absent"
  ELSE IF pc[t] \in Mutating \/ (pc[t] = "leave2" /\ why[t] # "end") THEN "running"
  ELSE IF pc[t] \in Collector THEN "collecting"
  ELSE IF pc[t] \in InRound THEN "stopped"
  ELSE "gone"

modeBar  == [t \in Threads |-> ModeOf(t)]
phaseBar == IF \E t \in Threads : pc[t] \in Collector THEN "collecting"
            ELSE IF \E t \in Threads : pc[t] \in Collected THEN "collected"
            ELSE "gathering"

World == INSTANCE StopTheWorld WITH mode <- modeBar, phase <- phaseBar

\* Rounds alternate as StopTheWorld says: no release without a collection.
ImplementsStopTheWorld == World!Spec
=============================================================================
