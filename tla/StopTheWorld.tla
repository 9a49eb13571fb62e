---------------------------- MODULE StopTheWorld ----------------------------
(***************************************************************************)
(* What schedule_gc (alloc.c) promises the interpreter threads: a          *)
(* collection starts only when every thread has stopped, one thread        *)
(* collects, and the stopped threads are released together, only after     *)
(* the collection is over.  Nothing is said of how the threads agree on    *)
(* it: that is GcBarrier, which implements this specification.             *)
(***************************************************************************)

CONSTANTS
  Threads,   \* the threads a program can ever start, the main one included
  Main       \* the thread that runs main()

VARIABLES
  mode,      \* mode[t] : what thread t is doing
  phase      \* how far the world is in the current round

vars == <<mode, phase>>

Mode  == {"absent", "running", "stopped", "collecting", "gone"}
Phase == {"gathering", "collecting", "collected"}

TypeOK == /\ mode \in [Threads -> Mode]
          /\ phase \in Phase

Init == /\ mode = [t \in Threads |-> IF t = Main THEN "running" ELSE "absent"]
        /\ phase = "gathering"

\* A running thread reaches a safe point and stops there.
Stop(t) == /\ phase = "gathering"
           /\ mode[t] = "running"
           /\ mode' = [mode EXCEPT ![t] = "stopped"]
           /\ UNCHANGED phase

\* A running thread brings another one to life.
Spawn(t, c) == /\ phase = "gathering"
               /\ mode[t] = "running"
               /\ mode[c] = "absent"
               /\ mode' = [mode EXCEPT ![c] = "running"]
               /\ UNCHANGED phase

\* The world has stopped: one of the stopped threads collects.
Begin(t) == /\ phase = "gathering"
            /\ mode[t] = "stopped"
            /\ \A u \in Threads : mode[u] # "running"
            /\ mode' = [mode EXCEPT ![t] = "collecting"]
            /\ phase' = "collecting"

\* The collection is over.
Finish(t) == /\ phase = "collecting"
             /\ mode[t] = "collecting"
             /\ mode' = [mode EXCEPT ![t] = "stopped"]
             /\ phase' = "collected"

\* All stopped threads are released at once; those in leaving are never seen again.
Resume(leaving) == /\ phase = "collected"
                   /\ mode' = [t \in Threads |->
                                IF mode[t] # "stopped" THEN mode[t]
                                ELSE IF t \in leaving THEN "gone" ELSE "running"]
                   /\ phase' = "gathering"

Next == \/ \E t \in Threads : Stop(t) \/ Begin(t) \/ Finish(t)
        \/ \E t, c \in Threads : Spawn(t, c)
        \/ \E leaving \in SUBSET Threads : Resume(leaving)

Spec == Init /\ [][Next]_vars
=============================================================================
