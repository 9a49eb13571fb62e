----------------------------- MODULE CallStates -----------------------------
(***************************************************************************)
(* Calls between interpreter states: OP_CALL of "someone else's function"  *)
(* and the beginning and the end of z_interpreter_run in                   *)
(* src/interpreter/interpreter_dd.c.                                       *)
(*                                                                         *)
(* Every object has a saved interpreter state, whose fields are also the   *)
(* place where a call leaves its arguments and its result.  A state that   *)
(* is already running is cloned for the call.  A state is here its name,   *)
(* and the state that a thread starts in has the name of the thread; a     *)
(* call is its thread and a number.  Calls inside one state, which leave   *)
(* these fields as they were, bytecode and values are left out.            *)
(***************************************************************************)
EXTENDS Integers, Sequences, FiniteSets

CONSTANTS
  Threads,     \* the main thread and the async ones
  Objects,     \* the saved states of the objects that all threads can reach
  Clones,      \* the states that clone_state can return
  Reach,       \* Reach[t]: the states of which the script of thread t can come to
               \* hold a function, through the objects it shares with others or not
  Args,        \* the number of arguments of a call
  MaxCalls     \* bound: MaxCalls[t] is the number of calls that thread t makes

States == Threads \cup Objects \cup Clones

ASSUME CallStatesAssumption == /\ Threads \cap (Objects \cup Clones) = {}
                               /\ Objects \cap Clones = {}
                               /\ Reach \in [Threads -> SUBSET States]
                               /\ Args \in Nat
                               /\ MaxCalls \in [Threads -> Nat]

NoCall == <<>>
Calls  == {NoCall} \cup (Threads \X (Nat \ {0}))

VARIABLES
  pc,            \* pc[t]: where thread t is in a call
  runs,          \* runs[t]: the activations of z_interpreter_run on t's C stack
  callee,        \* callee[t]: the activation t is about to begin, or has just ended
  calls,         \* calls[t]: the number of calls t has made
  is_running,    \* is_running[s]
  entry,         \* entry[s]: the call whose context and start address s holds
  result,        \* result[s]: the last result in s: its call, and whether it is a value
  stack_ptr,     \* stack_ptr[s]: the number of slots in use below s's stack_ptr
  roots          \* the cloned states that the collector takes as roots

vars == <<pc, runs, callee, calls, is_running, entry, result, stack_ptr, roots>>

\* state: where it runs; call: the call it is for; cloned: cloned_state;
\* found: the call that was in the state when the run began.
Activation(s, call, cloned) == [state |-> s, call |-> call, cloned |-> cloned, found |-> call]

Top(t)  == runs[t][Len(runs[t])]
Self(t) == Top(t).state
Pop(t)  == SubSeq(runs[t], 1, Len(runs[t]) - 1)

Activations == [state : States, call : Calls, cloned : BOOLEAN, found : Calls]

TypeOK ==
  /\ pc \in [Threads -> {"exec", "prepare", "enter", "begin", "end", "returned", "done"}]
  /\ runs \in [Threads -> Seq(Activations)]
  /\ callee \in [Threads -> Activations]
  /\ calls \in [Threads -> Nat]
  /\ is_running \in [States -> BOOLEAN]
  /\ entry \in [States -> Calls]
  /\ result \in [States -> [call : Calls, ok : BOOLEAN]]
  /\ stack_ptr \in [States -> Int]
  /\ roots \subseteq Clones

\* Every thread runs in its own state, the object states have been left by
\* their constructors.
Init ==
  /\ pc = [t \in Threads |-> "exec"]
  /\ runs = [t \in Threads |-> <<Activation(t, NoCall, FALSE)>>]
  /\ callee = [t \in Threads |-> Activation(t, NoCall, FALSE)]
  /\ calls = [t \in Threads |-> 0]
  /\ is_running = [s \in States |-> s \in Threads]
  /\ entry = [s \in States |-> NoCall]
  /\ result = [s \in States |-> [call |-> NoCall, ok |-> TRUE]]
  /\ stack_ptr = [s \in States |-> 0]
  /\ roots = {}

Goto(t, from, to) == /\ pc[t] = from
                     /\ pc' = [pc EXCEPT ![t] = to]

\* A clone that has been made; clone_state makes a new one each time.
Made(c) == entry[c] # NoCall \/ \E t \in Threads : callee[t].state = c

\* Functions of a clone are made by its bytecode (OP_MOV_FNC), once its run has begun.
HasRun(c) ==
  \/ result[c].call # NoCall
  \/ \E t \in Threads : \E i \in 1..Len(runs[t]) :
       runs[t][i].state = c /\ (i < Len(runs[t]) \/ pc[t] # "begin")

-----------------------------------------------------------------------------
\* A variant for the mutation runs: is_running is not looked at.
ChooseStateBlindly(t, s, call) ==
  /\ callee' = [callee EXCEPT ![t] = Activation(s, call, FALSE)]
  /\ UNCHANGED roots

\* A variant for the mutation runs: line 893 stands behind the conditional.
ChooseStateRooted(t, s, call) ==
  \/ /\ ~ is_running[s]
     /\ callee' = [callee EXCEPT ![t] = Activation(s, call, FALSE)]
     /\ roots' = roots \cup {s}
  \/ /\ is_running[s]
     /\ \E c \in {c \in Clones \cap Reach[t] : ~ Made(c)} :
          /\ callee' = [callee EXCEPT ![t] = Activation(c, call, TRUE)]
          /\ roots' = roots \cup {c}

\* Lines 887-897, under interpreter_is_running_lock: the called function's state
\* or, while it runs, a clone that becomes a root of the collector.
ChooseState(t, s, call) ==
  \/ /\ ~ is_running[s]
     /\ callee' = [callee EXCEPT ![t] = Activation(s, call, FALSE)]
     /\ UNCHANGED roots
  \/ /\ is_running[s]
     /\ \E c \in {c \in Clones \cap Reach[t] : ~ Made(c)} :
          /\ callee' = [callee EXCEPT ![t] = Activation(c, call, TRUE)]
          /\ roots' = roots \cup {c}

\* Lines 882-897: the caller has pushed the arguments and adds their number.
CallOthersFunction(t, s) ==
  /\ Goto(t, "exec", "prepare")
  /\ calls[t] < MaxCalls[t]
  /\ s \in Reach[t] /\ s # Self(t)
  /\ s \in Clones => HasRun(s)
  /\ calls' = [calls EXCEPT ![t] = @ + 1]
  /\ stack_ptr' = [stack_ptr EXCEPT ![Self(t)] = @ + Args + 1]
  /\ ChooseState(t, s, <<t, calls'[t]>>)
  /\ UNCHANGED <<runs, is_running, entry, result>>

\* A variant for the mutation runs: lines 903-906 assign to initial_state.
PrepareSelf(t) ==
  /\ Goto(t, "prepare", "enter")
  /\ entry' = [entry EXCEPT ![Self(t)] = callee[t].call]
  /\ UNCHANGED <<runs, callee, calls, is_running, result, stack_ptr, roots>>

\* Lines 898-906, under no lock: the call is written into the other state,
\* which goes on on the stack of the caller.
Prepare(t) ==
  /\ Goto(t, "prepare", "enter")
  /\ entry' = [entry EXCEPT ![callee[t].state] = callee[t].call]
  /\ stack_ptr' = [stack_ptr EXCEPT ![callee[t].state] = stack_ptr[Self(t)]]
  /\ UNCHANGED <<runs, callee, calls, is_running, result, roots>>

\* Lines 222-224: only here is the state marked as running.
EnterRun(t) ==
  /\ Goto(t, "enter", "begin")
  /\ is_running' = [is_running EXCEPT ![callee[t].state] = TRUE]
  /\ runs' = [runs EXCEPT ![t] = Append(@, callee[t])]
  /\ UNCHANGED <<callee, calls, entry, result, stack_ptr, roots>>

\* A variant for the mutation runs: OP_FFRAME takes one slot too many.
BeginRunDeeper(t) ==
  /\ Goto(t, "begin", "exec")
  /\ runs' = [runs EXCEPT ![t][Len(runs[t])].found = entry[Self(t)]]
  /\ stack_ptr' = [stack_ptr EXCEPT ![Self(t)] = @ - Args - 2]
  /\ UNCHANGED <<callee, calls, is_running, entry, result, roots>>

\* Lines 229, 296-303 and OP_FFRAME: the call is read back from the state, and
\* the arguments with their number are taken from the stack.
BeginRun(t) ==
  /\ Goto(t, "begin", "exec")
  /\ runs' = [runs EXCEPT ![t][Len(runs[t])].found = entry[Self(t)]]
  /\ stack_ptr' = [stack_ptr EXCEPT ![Self(t)] = @ - Args - 1]
  /\ UNCHANGED <<callee, calls, is_running, entry, result, roots>>

\* OP_RETURN to no caller in the same state (ok), or an exception that no
\* context of the state catches: RETURN_IF_ERROR goes to the end too.
FinishRun(t, ok) ==
  /\ Len(runs[t]) > 1
  /\ Goto(t, "exec", "end")
  /\ result' = [result EXCEPT ![Self(t)] = [call |-> Top(t).call, ok |-> ok]]
  /\ UNCHANGED <<runs, callee, calls, is_running, entry, stack_ptr, roots>>

\* A variant for the mutation runs: RETURN_IF_ERROR returns at once.
EndRunIfOk(t) ==
  /\ Goto(t, "end", "returned")
  /\ is_running' = [is_running EXCEPT ![Self(t)] = ~ result[Self(t)].ok]
  /\ callee' = [callee EXCEPT ![t] = Top(t)]
  /\ runs' = [runs EXCEPT ![t] = Pop(t)]
  /\ UNCHANGED <<calls, entry, result, stack_ptr, roots>>

\* Lines 1050-1054.
EndRun(t) ==
  /\ Goto(t, "end", "returned")
  /\ is_running' = [is_running EXCEPT ![Self(t)] = FALSE]
  /\ callee' = [callee EXCEPT ![t] = Top(t)]
  /\ runs' = [runs EXCEPT ![t] = Pop(t)]
  /\ UNCHANGED <<calls, entry, result, stack_ptr, roots>>

\* A variant for the mutation runs: lines 912-917 come before lines 908-911.
UnrootIfOk(t) ==
  roots' = IF callee[t].cloned /\ result[callee[t].state].ok
             THEN roots \ {callee[t].state} ELSE roots

\* Lines 908-911: a clone stops to be a root, and is never freed.
Unroot(t) == roots' = IF callee[t].cloned THEN roots \ {callee[t].state} ELSE roots

\* Lines 908-921: a value is taken; an exception is thrown again in the caller
\* (ThrowOn), which catches it or ends its own run with it.
TakeResult(t) ==
  /\ Goto(t, "returned", "exec")
  /\ Unroot(t)
  /\ UNCHANGED <<runs, callee, calls, is_running, entry, result, stack_ptr>>

ThrowOn(t) ==
  /\ Goto(t, "returned", "end")
  /\ Len(runs[t]) > 1
  /\ ~ result[callee[t].state].ok
  /\ Unroot(t)
  /\ result' = [result EXCEPT ![Self(t)] = [call |-> Top(t).call, ok |-> FALSE]]
  /\ UNCHANGED <<runs, callee, calls, is_running, entry, stack_ptr>>

\* The first run of a thread ends, and the thread with it.
EndThread(t) ==
  /\ Len(runs[t]) = 1
  /\ Goto(t, "exec", "done")
  /\ is_running' = [is_running EXCEPT ![t] = FALSE]
  /\ runs' = [runs EXCEPT ![t] = <<>>]
  /\ UNCHANGED <<callee, calls, entry, result, stack_ptr, roots>>

Terminated == (\A t \in Threads : pc[t] = "done") /\ UNCHANGED vars

Next == \/ \E t \in Threads : \/ \E s \in States : CallOthersFunction(t, s)
                              \/ Prepare(t)
                              \/ EnterRun(t)
                              \/ BeginRun(t)
                              \/ \E ok \in BOOLEAN : FinishRun(t, ok)
                              \/ EndRun(t)
                              \/ TakeResult(t)
                              \/ ThrowOn(t)
                              \/ EndThread(t)
        \/ Terminated

Spec == Init /\ [][Next]_vars

-----------------------------------------------------------------------------
(* Properties *)

\* The i-th activation on the C stack of thread t runs in state s.
RunsIn(t, i, s) == i \in 1..Len(runs[t]) /\ runs[t][i].state = s

\* No interpreter state is run by two activations of z_interpreter_run, of one
\* thread or of two: "if the same instance runs again, it crashes the vm"
\* (interpreter_dd.c:889).
OneRunIn(s) ==
  \A t, u \in Threads : \A i \in 1..Len(runs[t]), j \in 1..Len(runs[u]) :
    RunsIn(t, i, s) /\ RunsIn(u, j, s) => t = u /\ i = j

OneRunPerState == \A s \in States : OneRunIn(s)

\* Besides the thread that starts in it, at most one thread calls functions of s.
CallersOf(s) == {t \in Threads \ {s} : s \in Reach[t]}
Unshared(s)  == \A t, u \in CallersOf(s) : t = u

\* A state that only one thread calls into is never run twice, however other
\* threads call each other's functions, and although is_running is tested and
\* set in different critical sections (interpreter_dd.c:222 and 890).
UnsharedRunOnce == \A s \in States : Unshared(s) => OneRunIn(s)

\* is_running is set exactly while such a state is run, and so also reset when the
\* run ends with an exception (interpreter_dd.c:137, 222 and 1050).
RunningFlagExact ==
  \A s \in States : Unshared(s) =>
    (is_running[s] <=> \E t \in Threads : \E i \in 1..Len(runs[t]) : RunsIn(t, i, s))

\* A run begins with the call that its caller wrote, and the caller takes the
\* result of that call (interpreter_dd.c:903-919).
CallsNotMixed ==
  \A t \in Threads :
    /\ pc[t] = "exec" /\ Unshared(Self(t)) => Top(t).found = Top(t).call
    /\ pc[t] = "returned" /\ Unshared(callee[t].state) =>
         result[callee[t].state].call = callee[t].call

\* A thread is between the making of a clone and its run, or between that and
\* the caller's going on.
Holds(t, c) == /\ pc[t] \in {"prepare", "enter", "returned"}
               /\ callee[t].cloned /\ callee[t].state = c

\* A clone is a root of the collector from its creation until its caller is
\* back in control, however the call ends and whoever else calls into the clone
\* (interpreter_dd.c:892-909).
ClonesRooted ==
  \A c \in Clones :
    c \in roots <=> \E t \in Threads :
      Holds(t, c) \/ \E i \in 1..Len(runs[t]) : RunsIn(t, i, c) /\ runs[t][i].cloned

\* All states of a thread use one stack: a run takes its arguments from its
\* caller's part of it and never goes below them, so that what the caller had
\* there stays (interpreter_dd.c:904, 999-1013).
CallersStackKept ==
  \A t \in Threads : \A i \in 1..(Len(runs[t]) - 1) :
    LET caller == runs[t][i].state
        called == runs[t][i + 1].state
    IN  Unshared(caller) /\ Unshared(called) =>
          stack_ptr[called] >= stack_ptr[caller] - (Args + 1)
-----------------------------------------------------------------------------
(* The inductive invariant                                                 *)

\* A state is the callee of a thread, and not run for it.
Pending(t) == pc[t] \in {"prepare", "enter", "returned"}

StacksFormed ==
  \A t \in Threads :
    /\ pc[t] = "done" <=> Len(runs[t]) = 0
    /\ pc[t] # "done" => runs[t][1].state = t /\ ~ runs[t][1].cloned
    /\ pc[t] \in {"begin", "end"} => Len(runs[t]) > 1
    /\ pc[t] = "begin" => Top(t) = callee[t]
    /\ Pending(t) => callee[t].state \in Reach[t]
    /\ \A i \in 2..Len(runs[t]) : runs[t][i].state \in Reach[t]

\* A state that is run for a call has been prepared for one: so a state that is
\* not made is neither run nor marked.
RunsPrepared ==
  /\ \A t \in Threads : pc[t] \in {"prepare", "enter"} => callee[t].call # NoCall
  /\ \A t \in Threads : pc[t] = "enter" => entry[callee[t].state] # NoCall
  /\ \A t \in Threads : \A i \in 2..Len(runs[t]) : entry[runs[t][i].state] # NoCall
  /\ \A c \in Clones : is_running[c] => entry[c] # NoCall

\* Nobody runs an unshared state between its choice and its run, nor between its
\* run and the taking of the result.
PendingIsFree ==
  \A t \in Threads : Pending(t) /\ Unshared(callee[t].state) => ~ is_running[callee[t].state]

\* The call that a run is for is in its state, and then its result.
CallsInState ==
  /\ \A t \in Threads : \A i \in 1..Len(runs[t]) :
       Unshared(runs[t][i].state) => runs[t][i].found = runs[t][i].call
  /\ \A t \in Threads : pc[t] \in {"prepare", "enter"} => callee[t].found = callee[t].call
  /\ \A t \in Threads : pc[t] \in {"enter", "begin"} /\ Unshared(callee[t].state) =>
       entry[callee[t].state] = callee[t].call
  /\ \A t \in Threads : pc[t] = "end" /\ Unshared(Self(t)) =>
       result[Self(t)].call = Top(t).call
  /\ \A t \in Threads : pc[t] = "returned" /\ Unshared(callee[t].state) =>
       result[callee[t].state].call = callee[t].call

\* One call made each clone.
ClonesHeldOnce ==
  \A c \in Clones : \A t, u \in Threads :
    /\ Holds(t, c) /\ Holds(u, c) => t = u
    /\ \A i \in 1..Len(runs[t]) : RunsIn(t, i, c) /\ runs[t][i].cloned =>
         /\ ~ Holds(u, c)
         /\ \A j \in 1..Len(runs[u]) : RunsIn(u, j, c) /\ runs[u][j].cloned => t = u /\ i = j

\* The arguments are still there until the run that has begun takes them.
StacksNested ==
  /\ \A t \in Threads : \A i \in 1..(Len(runs[t]) - 1) :
       LET caller == runs[t][i].state
           called == runs[t][i + 1].state
       IN  Unshared(caller) /\ Unshared(called) =>
             stack_ptr[called] >= stack_ptr[caller]
                - IF pc[t] = "begin" /\ i = Len(runs[t]) - 1 THEN 0 ELSE Args + 1
  /\ \A t \in Threads :
       pc[t] = "enter" /\ Unshared(Self(t)) /\ Unshared(callee[t].state) =>
         stack_ptr[callee[t].state] >= stack_ptr[Self(t)]

IInv == /\ TypeOK /\ StacksFormed /\ RunsPrepared
        /\ UnsharedRunOnce /\ RunningFlagExact /\ PendingIsFree
        /\ CallsInState /\ ClonesHeldOnce /\ ClonesRooted /\ StacksNested
=============================================================================
