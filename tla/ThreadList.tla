----------------------------- MODULE ThreadList -----------------------------
(***************************************************************************)
(* The memory of thread_list: arraylist_push and extend_capacity of        *)
(* src/common/data_structures/arraylist.c, called under thread_list_lock   *)
(* by z_thread_gc_safe_start_thread, against the join loop of main(),      *)
(* which takes no lock.  GcBarrier has both as single steps and the rounds *)
(* that this module leaves out; here a thread that starts another one is   *)
(* cut up at its accesses to the list.                                     *)
(***************************************************************************)
EXTENDS Integers, Sequences

CONSTANTS
  Threads,          \* the async threads that can be started
  Main,             \* the thread that runs main()
  NoThread,         \* no thread
  InitialCapacity   \* ARRAY_LIST_INITIAL_CAPACITY, 3 in the code

VARIABLES
  pc,         \* pc[t]: where thread t is
  child,      \* child[t]: the thread that t is starting
  lock,       \* the holder of thread_list_lock, or NoThread
  size, capacity,
  data,       \* the number of the block that self->data points to
  blocks,     \* the contents of the blocks ever allocated
  freed,      \* the blocks that have been freed
  i, block,   \* in main(): the loop variable, and the block it is about to read
  thread      \* in main(): the thread it is about to join

vars == <<pc, child, lock, size, capacity, data, blocks, freed, i, block, thread>>
list == <<size, capacity, data, blocks, freed>>
loop == <<i, block, thread>>

Init ==
  /\ pc = [t \in Threads \cup {Main} |-> IF t = Main THEN "run" ELSE "unborn"]
  /\ child = [t \in Threads \cup {Main} |-> NoThread]
  /\ lock = NoThread
  /\ size = 0 /\ capacity = InitialCapacity
  /\ data = 1 /\ blocks = <<<<>>>> /\ freed = {}
  /\ i = 0 /\ block = 1 /\ thread = NoThread

Goto(t, from, to) == pc[t] = from /\ pc' = [pc EXCEPT ![t] = to]

\* The second lock of z_thread_gc_safe_start_thread, and the test of the capacity.
Lock(t, c) ==
  /\ pc[t] = "run" /\ pc[c] = "unborn" /\ lock = NoThread
  /\ lock' = t
  /\ child' = [child EXCEPT ![t] = c]
  /\ pc' = [pc EXCEPT ![t] = IF size >= capacity THEN "copy" ELSE "store", ![c] = "counted"]
  /\ UNCHANGED <<list, loop>>

\* extend_capacity: a copy of the items (lines 80-81), ...
CopyItems(t) ==
  /\ Goto(t, "copy", "free")
  /\ blocks' = Append(blocks, blocks[data])
  /\ UNCHANGED <<child, lock, size, capacity, data, freed, loop>>

\* ... the old block is freed (line 82), ...
FreeData(t) ==
  /\ Goto(t, "free", "move")
  /\ freed' = freed \cup {data}
  /\ UNCHANGED <<child, lock, size, capacity, data, blocks, loop>>

\* ... and only then replaced (lines 83-85).
MoveData(t) ==
  /\ Goto(t, "move", "store")
  /\ data' = Len(blocks)
  /\ capacity' = 2 * capacity
  /\ UNCHANGED <<child, lock, size, blocks, freed, loop>>

\* Lines 46-47 of arraylist_push, and line 48 with pthread_create and the unlock.
StoreItem(t) ==
  /\ Goto(t, "store", "count")
  /\ blocks' = [blocks EXCEPT ![data] = Append(@, child[t])]
  /\ UNCHANGED <<child, lock, size, capacity, data, freed, loop>>

CountItem(t) ==
  /\ pc[t] = "count"
  /\ size' = size + 1
  /\ pc' = [pc EXCEPT ![t] = "run", ![child[t]] = "run"]
  /\ lock' = NoThread
  /\ UNCHANGED <<child, capacity, data, blocks, freed, loop>>

End(t) ==
  /\ Goto(t, "run", IF t = Main THEN "join" ELSE "done")
  /\ UNCHANGED <<child, lock, list, loop>>

\* main(), line 81: the loop condition, and the read of thread_list->data.
ReadData ==
  /\ Goto(Main, "join", IF i < size THEN "read" ELSE "exited")
  /\ block' = data
  /\ UNCHANGED <<child, lock, list, i, thread>>

\* Line 82: the element is read through that pointer.
ReadItem ==
  /\ Goto(Main, "read", "joining")
  /\ thread' = blocks[block][i + 1]
  /\ UNCHANGED <<child, lock, list, i, block>>

\* Line 83.
JoinThread ==
  /\ Goto(Main, "joining", "join")
  /\ pc[thread] = "done"
  /\ i' = i + 1
  /\ UNCHANGED <<child, lock, list, block, thread>>

Next == \/ \E t \in Threads \cup {Main} : \/ \E c \in Threads : Lock(t, c)
                                          \/ CopyItems(t)
                                          \/ FreeData(t)
                                          \/ MoveData(t)
                                          \/ StoreItem(t)
                                          \/ CountItem(t)
                                          \/ End(t)
        \/ ReadData
        \/ ReadItem
        \/ JoinThread

Spec == Init /\ [][Next]_vars

\* main() never reads a list element from a block that has been freed
\* (main.cpp:81-82): scripts run "without corrupting memory" (tester.cpp:10).
ReadsLiveMemory == pc[Main] = "read" => block \notin freed
=============================================================================
