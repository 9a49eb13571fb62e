# A verification project for zscript

zscript (`src/`) is an interpreter for a dynamically typed, object oriented
script language: a compiler from an ANTLR parse tree to register bytecode, an
optimizer and assembler, a computed-goto interpreter, a mark-and-sweep collector
and async functions that run on POSIX threads. This directory holds TLA+ models
of its core, the TLC runs that check them and the theorems that TLAPS proves
about them. Paths below are relative to `src/src/`.

Run `tlc -config <X>.cfg <Module>` for the runs; `tlapm` on `GcBarrierProof.tla`, `ScriptObjectProof.tla`,
`MapProof.tla`, `CallStatesProof.tla`, `HandlersProof.tla`, `HeapProof.tla`, `FieldsProof.tla` and `Facts.tla` checks the proofs.

## 1. The system

| Component | State it keeps | Operations | Talks to |
|---|---|---|---|
| Collection rounds, `common/alloc.c` | `used_heap`, `heap_limit`, `total_thread_count`, `gc_count`, two barriers and the global pointer to one | `z_alloc_or_gc`, `z_free`, `schedule_gc`, `init_gc_barrier` | every thread; calls `gc()` |
| Async threads, `interpreter/interpreter_dd.c` 169-214, `main.cpp` 65-84 | `thread_list` and its lock | `z_thread_gc_safe_start_thread`, `run_async`, `z_thread_gc_safe_end_thread`, the join loop of `main()` | rounds, array lists |
| Interpreter states, `interpreter_dd.c` | per state: context, root context, instruction pointer, return code and value, stack, `is_running`, `removed_as_a_root` | `z_interpreter_run`, `OP_CALL`, `OP_RETURN`, `OP_FFRAME`, `clone_state` | contexts, heap, threads |
| Exceptions, `interpreter_dd.c` 305-330, 1072-1080, 1184-1220; `compiler/Compiler.cpp` 197-256 | per context: the list of catch addresses | `OP_SET_CATCH`, `OP_CLEAR_CATCH`, `OP_THROW`, `goto_catch_block`, `compileTryCatch` | calls, stack |
| Heap, `interpreter/garbage_collector.h`, `object.c` | `gc_objects_list`, `interpreter_states_list`, `gc_version`, the object graph | `gc`, `gc_visit_*`, `gc_free_object`, the constructors | rounds, states |
| Scopes and fields, `interpreter_dd.c` 667-866, 1105-1172 | symbol tables, locals, static and synchronized variables | `OP_GET_FIELD`, `OP_SET_FIELD`, `interpreter_get/set_field_virtual` | maps, types |
| Types, `object.c` | `known_types_map`, imports | load, register, resolve | maps, compiler |
| Array lists and maps, `common/data_structures` | items, size, capacity, top; bags | push, pop, get, set, remove; insert, get, keys | everything |
| Compiler, `compiler/` | register and symbol tables, label stacks | one function per kind of AST node | program |
| Program, optimizer, assembler, `program/` | instruction list, labels | `addInstruction`, `optimize`, `assemble` | compiler |
| Native functions, `native_functions.c` | none of their own | `print`, `Object`, `keys`, `size`, `gc`, ... | interpreter |
| Event queue, `event_queue.c` | `event_queue` | not reachable: nothing binds `native_enqueue` | - |

What makes each of them correct, and what is hard about it:

* **Rounds.** A collection must see a heap that no other thread touches, every
  thread must be released afterwards, and the two barriers must never serve two
  rounds at once, although `gc_count`, the pointer to the barrier in use and the
  thread count are read and written without a lock.
* **Threads.** A child is counted before it exists and a thread is uncounted
  while it still runs; `main()` must join exactly the threads that were created,
  through handles that are written, from a list that is in memory.
* **Calls.** A state has one set of fields for its current call. Callbacks and
  threads re-enter states: a run must find the call that was meant for it, the
  caller its own result, and the flags must be restored on every way out.
* **Exceptions.** Handlers, contexts and stack must match the nesting of the
  source's try blocks, whichever way a block is left.
* **Heap.** Whatever running code can still come to survives a sweep, although the
  collector only knows what the interpreter states record of themselves.
* **Data structures.** An object of a script behaves as a dictionary, whatever
  keys share a bag and whenever a list grows; a cached list of keys is never stale.
* **Scopes.** A name means the same variable through a register, through the
  symbol tables of contexts and from another object; closures escape and recur.
* **Compiler, optimizer.** The code computes what its source means: no register
  is given out twice, the optimized program does what the original does.

`PROJECT.json` lists these components with their status, and under "hazards"
each hard behaviour at the line where it bites.

## 2. Modules

| Module | Models | Extends / instantiates |
|---|---|---|
| `StopTheWorld` | what a round promises: all stop, one collects, all resume | - |
| `GcBarrier` | `schedule_gc`, thread start and end, the join loop | refines `StopTheWorld` |
| `MCGcBarrier` | symmetry for TLC | `GcBarrier` |
| `GcBarrierProof` | the theorems about `GcBarrier` and their proofs | `GcBarrier`, `TLAPS` |
| `CallStates` | calls between interpreter states | - |
| `MCCallStates` | which thread reaches what; symmetry for TLC | `CallStates` |
| `CallStatesProof` | the theorems about `CallStates` and their proofs | `CallStates`, `TLAPS` |
| `ThreadList` | the memory of `thread_list` under a push and the join loop | - |
| `Handlers` | what the interpreter does with try statements, for any well-formed code | - |
| `HandlersProof` | the theorems about `Handlers` and their proofs | `Handlers`, `Facts` |
| `Exceptions` | what is compiled for try statements, and what they mean | `Handlers` |
| `MCExceptions` | the programs of the runs, and which of them the code supports | `Exceptions` |
| `ArrayList`, `Map` | `arraylist.c` and `map.c` as operators on records | `Map` extends `ArrayList` |
| `Dictionary` | what an object of a script promises | - |
| `ScriptObject` | properties, `keys()`, `size()` of an object | `Map`; refines `Dictionary` |
| `MapProof` | lemmas about `ArrayList` and `Map` | `Map`, `TLAPS` |
| `ScriptObjectProof` | the theorems about `ScriptObject` and their proofs | `ScriptObject`, `MapProof` |
| `Chains` | the search along a chain of contexts | - |
| `LexicalScopes` | what the names in the code of a class promise | `Chains` |
| `Fields` | registers, symbol tables, field access | `Map`, `Chains`; refines `LexicalScopes` |
| `FieldsProof` | the theorems about `Fields` and their proofs | `Fields`, `MapProof`, `Facts` |
| `MCFields` | a class, hash values; `Fields` and `ScriptObject` in one run | both |
| `AstGenerator` | from the parse tree of a function body to the AST | - |
| `Compiler` | from the AST to instructions; optimizer; label resolution | `AstGenerator` |
| `Language` | what a parse tree means, and for which programs the code agrees | - |
| `Machine` | the interpreter on one activation of a function | `Compiler`, `Language` |
| `MCMachine` | the function bodies | `Machine` |
| `Heap` | objects, states, calls and `gc()` | - |
| `HeapProof` | the theorems about `Heap` and their proofs | `Heap`, `Facts` |
| `MCHeap` | the programs | `Heap` |
| `Facts` | lemmas about numbers and sequences that several proofs need | `TLAPS` |

### GcBarrier

One action is the code of a thread between two accesses to shared memory, so
that TLC sees every interleaving that matters. `pc[t]` names where thread `t`
is:

| `pc` | code |
|---|---|
| `unborn`, `counted` | not started; counted by its starter but not yet created |
| `run` | executes bytecode |
| `pick`, `publish` | `alloc.c` 88: the read of `gc_count`, the write of `gc_safe_barrier` |
| `load1`, `arrive1`, `wait1` | line 90: the read of the pointer, the call, blocked in it |
| `serial`, `gc`, `reinit` | lines 92, 94, 96-97, by the serial thread |
| `leave1`, `arrive2`, `wait2`, `leave2` | line 99: the read of the pointer, the call, blocked in it, released |
| `push`, `create` | `interpreter_dd.c` 200-202 and 203-204 |
| `join`, `joining`, `exited` | `main.cpp` 81-82, 83, 93 |
| `done` | `run_async` has returned |

Lines 88, 90 and 99 read or write the global pointer in steps of their own, since
another thread may come between. `total_thread_count++` and `--`, each under
`thread_list_lock`, are one step with the guard that the lock is free. The lock
is held over a step only between the push and `pthread_create`.

`gc_count` is kept by its parity, the only thing the code uses of it. The POSIX
barrier is modelled from its specification: a call blocks until as many threads
as the barrier was initialised for have arrived; then all are released, and any
one of them, not necessarily the last, gets the serial value.
`pthread_barrier_init` on a barrier in which threads wait forgets them: that is
what `ReinitUnused` excludes. A running thread may ask for a round at any time,
which covers the unlocked test of `used_heap`.

`z_alloc_or_gc` is also called inside the start of `main()` before the script
runs; it cannot reach the threshold there, and the model starts at `main.cpp` 71.

### CallStates

States are names. Each has the fields through which a call passes: `entry` (the
instruction pointer and context written by the caller, as the call that they
are for), `result`, `stack_ptr`, `is_running`, and whether it is a root. `runs[t]`
is thread `t`'s C stack of `z_interpreter_run` activations. The call of another
state's function is cut up where the lock is taken and given back (`ChooseState`,
881-897), where the fields are written (`Prepare`, 898-906), at the beginning of
the run (`EnterRun`, `BeginRun`), its end (`FinishRun`, `EndRun`) and in the
caller (`TakeResult`, `ThrowOn`, 908-921). Any state an earlier call has used can be
called again, since function values escape; a function of a clone only once the clone has run bytecode (`HasRun`),
which makes it. What a function body computes is left out.

A script gets at a function through the objects that it holds: `Reach[t]` are the states whose functions
thread `t` can come to hold, any set of them. A state is `Unshared` if at most one thread besides the one that starts in
it reaches it. For shared states the code is wrong (section 4), so the properties speak about unshared ones, in the
presence of others: a run in a shared state may at the same time call into unshared states and be called from them.
`ClonesRooted` holds for all.

### ThreadList

`GcBarrier` treats the list as a sequence. `ThreadList` opens it: `arraylist_push`
is cut up at the copy, the free and the replacement of the block, against the
two reads of `main()`.

### Handlers, Exceptions

`Handlers` is the interpreter: its constants are programs and their code, its actions the instructions. Only what
moves control is kept of an instruction. Each call makes a
context with its list of catch addresses. Two pointers to contexts exist, as in the
code: the interpreter's local variable (`context`) and the field of its state
(`current_context`), from which a throw searches. They differ after a return, and when an
instruction throws without storing the one in the other (`DoFault`; `throw` stores it:
`DoThrow`). `listed` tells a list that was emptied from one that was never made, since only making it
stores the context. The walk from a context to its callers is the least set that is closed under
going to the caller (`Callers`), and a throw takes the newest context in it that has a handler (`Catcher`): callers are older than the
contexts they call. So nothing in this module is recursive. `WellFormed` is what the interpreter relies on in its code.

`Exceptions` is the compiler: a program is a body of statements per function, `CompileBody` follows `Compiler.cpp` and yields
instructions with addresses (the labels are resolved on the way). `Meaning` says what a program does from the structure of its
statements alone; it is the reference against which the runs are compared. Both are RECURSIVE.

Left out: the value of an exception, the arguments of calls on the stack, calls of other
states (there an exception ends the callee's run and is thrown again by the
caller: `CallStates`), `continue`, for which the compiler emits nothing,
`return` inside a finally body, on which the compiler does not end, and what `OP_CLEAR_CATCH` does to
an empty list, which well-formed code never comes to (`NestingFollowed`).

### ArrayList, Map, ScriptObject

A list is a record with `size`, `capacity`, `top` (an index) and `data`, a function
that may hold `Unset` memory; each operator is the C function of its name, with the call of
`extend_capacity` in it, also the one that `arraylist_set` makes for a full list. A
map has for each used bag three lists side by side. `map_key_list` is a function of
the places (bag, index) that it is collected from, so that nothing in these modules is recursive.
`ScriptObject` is an object without a class: the instructions on its properties,
`keys()` with its cache and `size()`; scripts may overwrite the two built-in names, and
may try to write to the list that `keys()` returned, which is immutable. It refines `Dictionary`,
where there are only assigned values.

### Fields

`Symbols[f]` are the names that `AddressCalculator` gives registers in function `f`;
`build_symbol_table` enters them in a map, with the private flag in the class body.
A context is an activation with its registers and parent; `ValueOf` is
how code reads a name (a register, or `OP_GET_FIELD`), `Assign` how it writes one,
`GetOutside` and `SetOutside` are the access of other objects, of the same or
another class. Values are written in a fixed order, each once, which loses nothing since nothing
computes with them. `LexicalScopes` knows neither registers nor tables.

The search of `OP_GET_FIELD` (691-712), the scope of a name and the activation that encloses a function are all the nearest position of a set
on a chain of contexts, `Nearest` of `Chains`: a recursive function, since parents are older than the contexts they belong to.
`FieldsAssumption` says which programs are considered: no function has two symbols of one name, or one with the name of a native function
(natives are found before any variable, line 683), and the values written are not themselves references, classes or `NULL`.

`OP_MOV_FNC` at the beginning of each function makes a reference of the function to itself
whose parent is the activation itself; the refinement mapping (`Enclosing`) goes on to where the
activation comes from. That reading the name through either is the same is part of what is checked.

### AstGenerator, Compiler, Language, Machine

A function body is a parse tree of records. `visitBody` makes the AST, `compileFunction`
the instructions with the registers that `getRegister` and `freeRegister` give out, `optimize`
rewrites them pass after pass, `assemble` resolves labels. The actions of `Machine` are the instructions, on one
activation; names of outer scopes are a function, and the only outer function that is called returns
a value of its two arguments. Text operands are numbers above all registers, as
pointers are in the code; the optimizer compares operands of any kind, and this shows.

`Language` gives the meaning of parse trees. `AsWritten` (on the parse tree) and `PlainBody` (on the
AST) name the programs on which the code agrees with it; section 4 lists what is outside.

### Heap

`heap` holds every object ever made, `states` the interpreter states; `runs` is the C
stack of `z_interpreter_run`. Programs are lists of instructions per function that create, move,
store and call; `Gc` may come before each of them, since most allocate. `Visited` is
what the visitors reach from the roots, through `root_context`, `current_context` and the stack
of a state. `InUse` is found without these fields: from the contexts that are
running or wait for a callee, and what the instructions can get at from there. Since a stale pointer of the
collector itself would be as bad, `NothingInUseIsFreed` also says that the marker visits nothing freed.

All states share one stack. A call of another state leaves its arguments on it, so that what a caller
has pushed is not what lies on top: `ArgumentsPushed` says that each call still finds its arguments.

A state is known by its `this`, the number -*s* for state *s*. A marked object is one in the set `Visited`, the closure of
`gc_roots` under the visitors, written as a recursive function on pairs of sets; the code compares `gc_version`. `WellFormed` is what
the interpreter relies on: no instruction writes the register of `this`, a function is written down one level below the one it is
made in (`Depth`), a name is at most that many levels outwards, and the arguments of a call are pushed before it.

A function keeps a pointer to the state it was made in, and a state is freed with its instance. `Gc` has the guard
`DropsInstances`: without it a sweep may free a state that a kept function or a kept activation's `this` needs.

The state of an object is no root. While it runs, the collector comes to it only through the register of the caller that holds the
function it called, or the instance it makes (`gc_fix`). After a call the code reads none of these registers again, only
which one takes the result (918-921), and any instruction of a callee may overwrite them. `CalleesKept` says that nobody did.
It is a premise on programs: the passing run has programs for which it holds, and checks that it does; `heap_overwriting` has
others, in which a running state is freed (section 4); the theorems of section 5 name it as their premise.

## 3. Runs

| Run | Instance | States | Shows |
|---|---|---|---|
| `gc_barrier` | main and 3 threads, symmetry | 618,892 | safety of the rounds, the inductive invariant, refinement of `StopTheWorld` |
| `gc_barrier_live` | main and 2 threads, fairness | 64,640 | `WaitersReleased`, `ProgramEnds` |
| `call_states` | 2 threads, 1 shared object, 2 clones, one of them only reached by main; main makes 3 calls, the other thread 1 | 298,923 | nested calls and exceptions keep flags, roots, results and stacks of unshared states apart, while threads race in a shared one |
| `call_states_shared` | 2 threads, 1 object, one call each | violation | two threads run one state |
| `exceptions` | 11,964 programs | 168,980 | supported programs run as their structure says; handlers and stack fit every place; each throw finds the handler of its own function |
| `exceptions_context` | all programs | violation | a handler of a function that has returned is taken |
| `thread_list` | main and 4 threads, capacity 3 | violation | `main()` reads freed memory |
| `fields` | a class with two functions in each other, 4 activations, 3 writes; an object with 5 names, 3 writes | 35,908 | names are lexical, also from outside; an object is a dictionary with a fresh key cache |
| `fields_this` | the same, a parameter named like a field | violation | `this.n` is not the field of the object |
| `machine` | 1,287 function bodies, with and without the optimizer | 35,855 | code means what its source does, stays in its frame, ends |
| `heap` | 2,071 programs, 40 objects, 12 stack slots | 70,278 | nothing in use is freed; each call finds its arguments; callers still hold what they called |
| `heap_overwriting` | programs whose callback overwrites its caller's variables | violation | a running state is freed |

*Bounds.* A thread is started at most once, but asks for rounds without limit, so
all states of rounds are covered for the given threads. Three started threads
are the smallest number at which two threads can be in the new round while a
third has not left the old one, and at which a grandchild is started while
`main()` is in its join loop. Liveness is checked with two, without
symmetry. In `CallStates`, `MaxCalls[t]` bounds the calls of a thread; with three calls of the main thread
a state is re-entered, cloned, and its clone called in turn, while the call of the other thread
meets it in the shared object between any two of its steps.
In `exceptions` the programs are all combinations of try statements to depth two
with every way to leave a body (end, throw, fault, return, break, a callee
that throws), inside and around loops and calls; `MaxTrace` is never reached.
In `ThreadList` four threads are what makes a list of capacity three grow.
Started threads, objects and clones are interchangeable: no action names one.
In `Fields` four activations are a class, a closure that escapes from a call, and recursion;
the names have the hash values that `get_hash` gives them, four of them the same, one more than a new list
holds, so that a bag's lists grow, and one is overwritten when it is full. In `Machine` expressions are combined to depth two (a
temporary register is only shared by values of different subtrees), with every operator next to every
kind of operand; loops are nested twice. In `Heap` two objects call each other back, so that
a running object is cloned; the bounds only stop the programs whose functions call each other without end.

*Fairness* (`FairSpec`). `Scheduled`: the operating system runs each thread that
can run (weak fairness of each thread's steps in `schedule_gc` and of the start
of a thread, of the join loop). Weak fairness is enough for the lock, which is taken
finitely often. `ScriptsEnd`: each script ends, however many rounds it asks for
(strong fairness of `EndThread`, which is disabled during every round). The latter is
an assumption on scripts, and a necessary one: the repository's
`todo_list.txt` mentions "manual gc calls in loops to prevent vm from freezing",
which is what a script that never allocates and never ends does to all others.
`Machine` assumes only that the interpreter goes on (weak fairness of `Next`).

*Deadlock* is checked where threads can wait for each other, in `gc_barrier`, `gc_barrier_live`, `call_states`
and `exceptions`; the end of the program is a stuttering step there. In `fields`, `machine` and `heap` one thread
runs to the end of its program, or to a bound, and stops. The violation runs switch it off: they stop at the violation
anyway, and a thread without a clone left has no step.

*Mutants.* Each property of each passing run is violated when one modelled
definition is replaced by a variant with a plausible bug (a count
forgotten, a barrier pointer kept in a register, a loop one short, a flag not
reset on the error path). The variants stand before the definitions they vary.

## 4. Findings

* `main.cpp` 81-82 reads `thread_list` without its lock; `extend_capacity` frees the
  block it may be reading (`ThreadList`, `ReadsLiveMemory`).
* `is_running` is tested in one critical section and set in another one: two
  threads that call into one object run the same state, which lines
  889-890 say "crashes the vm" (`CallStates`, `OneRunPerState` with two threads). It takes
  two threads: a program of one thread never runs a state twice (`OneThreadOneRun`), nor does any program a state that only one
  thread calls into (`UnsharedRunOnce`).
* A function that is called back may overwrite the variable through which its caller called an object, or which holds the instance
  whose constructor runs (`interpreter_dd.c` 815-820, 1166). The state of that object runs and is no root, so nothing leads the collector
  to it any more: the next round sweeps the instance and frees the state under the run (`Heap`, `NothingInUseIsFreed` in
  `heap_overwriting`). As long as callers keep what they called, the property is proved (`NothingInUseIsEverFreed`).

* A return leaves the state's `current_context` at the callee; an instruction of the caller
  that throws then takes the callee's handler if the callee returned inside its try
  body (`Handlers`, `ThrowsFromRunningContext`). It takes a called function that returns from inside a try
  statement: in all other programs the property is proved (`FaultsFindTheirHandler`).

* `this.n` is looked up from the running context (`Fields`, `ThisIsTheObject`): in
  `function setX(x) { this.x = x; }` it is the parameter, where the README of the repository says
  "this refers to the class itself".

Two more have no run of their own:

* `OP_CALL` into another state never takes back the arguments it pushed, nor their number: the callee pops them from its own copy of
  `stack_ptr` (884, 904, 1006-1012). Each such call costs its caller one slot more than it has arguments, of the 1000 that no push checks
  (155). In `CallStates` this is `Prepare` (the copy) and `BeginRun` (the pop), with nothing in `TakeResult` that gives the slots back. What is
  proved is that the callee takes no more than its own (`CallersStackKept`) and that each call finds its arguments
  all the same (`ArgumentsPushed`).
* An assignment of code of another class to a private variable throws "cannot set private property of object" (1162), in the state of the
  object, where nothing catches it; then it assigns. The README of the repository says (line 103) that "private variables cannot get
  accessed from outside this class". `OutsideWrites` keeps such assignments out of the run: `LexicalScopes` compares states,
  and takes one for an assignment that the class itself could have made.

`Supported` in `MCExceptions` names where compiled try statements do what they say, and the
passing run keeps to it. Outside of it they do not, and no document of the
repository says otherwise: an exception that leaves a catch or finally body finds its own
handler still set and runs the same catch body again (`Compiler.cpp` 217 comes after both);
of several pending finally bodies a return runs the outermost first (248); `break` out of
a try body neither runs its finally body nor clears its handler (226), so the programs have none.

The other passing runs keep to programs in the same way, and outside of them the code does something
else than one would write down; of these, too, no document says otherwise.

* `Machine`, in the AST generator (`AsWritten`): a loop without a condition never runs its body; of a `for`
  with a start expression and without its last one the start is taken as the condition (`AstGenerator.cpp` 382, 394); the variables
  of a `for` that stands without braces in an `if` or a loop are initialised before that (374-381). `continue` compiles to nothing.
* In the compiler (`Plain`, `PlainAssignment`): an argument is compiled into the register of the argument after
  it, so `f(5, a)` overwrites `a` (`ExprssionCompiler.cpp` 109); `-v` changes `v` (74); `v = w` of two
  variables of one function emits nothing; `v = v++` increments; in `v + v++` the left operand is read last.
* In the optimizer (`Swallowed`, `IsComparison`): the instruction after a comparison is dropped when its second register is the
  result (`BytecodeOptimizer.cpp` 78); `v = 5` is dropped right before `if (w < v)` (33).
* `Heap`: an instance takes its interpreter state with it when it is swept (`garbage_collector.h` 83), while a closure that was made
  in it and is still in use points to that state: the next call of it runs on freed memory, and the next round visits
  it. With `DropsInstances` = `TRUE` TLC finds such a program in a few seconds (`NothingInUseIsFreed` is violated); for programs
  that keep their instances the property is proved (`NothingInUseIsEverFreed`).
* `Fields`: names of native functions come first, before any variable of the name (`interpreter_dd.c` 683). A plain assignment to the name of a
  static variable makes a synchronized variable that hides it (827).

What looked suspicious and is right: `main()` may read a list entry whose
`pthread_create` has not run, but never joins it. Each started thread is behind
its starter in the list, and a starter ends only after the creation
(`JoinAfterCreate`, `MainExitsLast`).

## 5. Proofs

`GcBarrierProof` proves, for every finite set of threads:

| Theorem | States |
|---|---|
| `Invariance` | `Spec => []IInv` |
| `TypeCorrect` | `Spec => []TypeOK` |
| `CollectionStopsTheWorld` | `Spec => []StopTheWorld` |
| `RoundsApart` | `Spec => []NoMixedRounds` |
| `ReinitIsSafe` | `Spec => ReinitUnused` |
| `JoinsCreated` | `Spec => []JoinAfterCreate` |
| `MainLast` | `Spec => []MainExitsLast` |
| `Refinement` | `Spec => ImplementsStopTheWorld` |

The only assumption is `ThreadsAssumption`: finitely many threads, `Main` one of them.

*The inductive invariant.* `StopTheWorld` is not inductive: it depends on the
barrier's count being the number of threads that will come. Who will come is the
*party*: the threads that can still run, and the children that a thread past its
own wait is about to create. What `total_thread_count` counts is the *census*:
the same without the threads that are on their last round, and with all
counted children. `IInv` says that

1. (`CensusCounted`) the counter is the size of the census;
2. (`ChildrenOwned`, `CallersKnown`) a counted child has exactly one starter, which is
   between its count and its creation;
3. (`RoundInv`) either nobody is past the first wait (`GatherInv`): then the barrier
   that `gc_count` picks was initialised for exactly the party, holds those who wait, and
   everybody who has read the pointer got this barrier; or somebody is (`CollectInv`):
   then all that live are between the two waits, at most one collects, all second
   waits go to the used barrier, whose count is the party, and the other one is empty
   and, once the serial thread is through, set up for the census.

At the release from the second wait the party becomes the census (the ending threads
drop out and the children drop in), which is why line 97 initialises the next
barrier with the right number. The step from one half of `RoundInv` to the other at a
full barrier is a cardinality argument: as many have arrived as the party has,
they all belong to it, so all have arrived.

`JoinsCreated` and `MainLast` need a second invariant, `ListInv`, on the order of the thread list: `main()` has
joined a prefix of the list, whose threads have ended; every thread that was created, or is being created, is listed; and
an entry whose thread is still to be created has its starter earlier in the list, or `main()` itself. So when the join loop
stands at an entry that is not created, its starter is among the joined: it has ended, and cannot be at `pthread_create`. With
the loop at the end of the list all listed threads have ended (`AllDone`), and with `ChildrenOwned` nobody is left
to create a counted one; this in turn keeps the list from growing after `main()` has left the loop.

The proof of `IInv` has one lemma per conjunct (`TypeStep`, `CallersStep`, `ChildrenStep`,
`CensusStep`, `RoundStep`), each with one step per action. Refinement maps
each thread's `pc` to a mode and the state to a phase; each action maps to a step of
`StopTheWorld` or a stutter.

`ScriptObjectProof` proves, for every set of names, every hash function and number of bags, and
any number of assignments:

| Theorem | States |
|---|---|
| `ObjectInvariance` | `ObjectSpec => []ObjectOK` |
| `KeyCacheIsFresh` | `ObjectSpec => []KeyCacheFresh` |
| `ObjectRefines` | `ObjectSpec => ObjectIsDictionary` |

`ObjectOK` says among other things that `size` counts what `keys()` lists, except overwritten built-in names: those are listed and not
counted, as the flags of the insertion that overwrites them differ from the first one's (`map.c` 67).
It assumes `MapAssumption` (at least one bag, a hash function into the bags) and
`ObjectAssumption` (the built-in names are among the names, the two native functions are different values, and none that scripts assign).

*The argument* goes up the layers; that of lists and maps is in `MapProof`, which `FieldsProof` uses too. `IsList` (module `ArrayList`) says that the items in use are written, `top` is the place
after the last one and a block has at most twice the room needed; `PushIsList` and `SetIsList` show that both operations keep it,
with the room that `extend_capacity` makes (`RoomIsThere`). `IsMap` adds that the three lists of a bag have one size, and that a key
is in the bag it hashes to, once. Lookup finds the first place of a key (`Found`, `NotFound`); both branches
of an insertion (`OverwriteInserts`, `AddInserts`) do the same to a map seen from outside: it `Inserted`
the key, and every other key has the value and flags it had. From this alone `SetPropertyOK` shows `ObjectOK`; it is inductive, with the
clause that an entry is enumerable exactly if a script assigned it. For `keys()` the places of enumerable entries and
the names assigned are in bijection (`KnownAreListed`, `KeyListLists`), so that the list has as many items as there are
names (`SameCardinality`). `DictionaryStep` then maps each action to a step of `Dictionary` or a stutter; setting an item of the
immutable list is the stutter.

`CallStatesProof` proves, for any threads, objects and clones, any sharing between the threads and any number of calls:

| Theorem | States |
|---|---|
| `Invariance` | `Spec => []IInv` |
| `TypeCorrect` | `Spec => []TypeOK` |
| `NoUnsharedRunTwice` | `Spec => []UnsharedRunOnce` |
| `FlagExact` | `Spec => []RunningFlagExact` |
| `CallsKeptApart` | `Spec => []CallsNotMixed` |
| `CalledClonesRooted` | `Spec => []ClonesRooted` |
| `CallerKeepsStack` | `Spec => []CallersStackKept` |
| `OneThreadOneRun` | with a single thread, `Spec => []OneRunPerState` |

It assumes `CallStatesAssumption`: threads, objects and clones have different states, `Args` and `MaxCalls` are numbers. The number
of clones is not bounded and may be infinite. The bound `MaxCalls` is any number per thread.

*The inductive invariant.* `UnsharedRunOnce` needs that the test of `is_running` is still good when the run begins, two steps
later: `PendingIsFree` says that nobody runs an unshared state from its choice to its run, nor from the end of its run to the
taking of its result. For a state of `Reach` only its one caller could have started a run meanwhile, and that one is busy with this
call; for a state in which a thread started, that thread runs in it, and the flag has been set since the beginning
(`StacksFormed`). `RunningFlagExact` closes the circle: the flag that the choice reads is the existence of a run.
A clone is only returned by `clone_state` if nobody has it, which `RunsPrepared` turns into: it is not run.
`CallsInState` follows a call through the state's fields, from `entry` to `result`; `StacksNested` says, of
each pair of a caller and the run above it, that the callee's stack pointer is at the caller's less the arguments, once they are taken. `ClonesHeldOnce` says that the activation that cloned a state
is the only one that will unroot it. TLC checked `IInv` on the instance of `call_states`.

There is one lemma per action (`PrepareStep` and so on), with one step per conjunct that the action can disturb; `TakeResult` and
`ThrowOn` share `UnrootStep`, and `ChosenState` states what both branches of `ChooseState` have in common.

`HandlersProof` proves, for any set of programs, with any number of functions, depth of calls and of try statements:

| Theorem | States |
|---|---|
| `HandlersFollow` | `Spec /\ []ThrowsFromRunningContext => []HandlersFollowNesting /\ []StackBalanced` |
| `Invariance` | `Spec => []HandlersInv` |
| `FaultsFindTheirHandler` | `Spec => []ThrowsFromRunningContext` |
| `NestingFollowed` | `Spec => []HandlersFollowNesting` |
| `Balanced` | `Spec => []StackBalanced` |

All assume `CodeAssumption`: the code is `WellFormed`. TLC evaluates it on what the compiler makes of every program of both runs, the
unsupported ones included; it is what a compiler without `break` out of a try statement establishes (a `break` there is a jump
that leaves its try statement). The last four also assume that in a program with an instruction that throws without storing its
context no called function returns from inside a try statement. That is the finding of section 4, put as a
condition on programs; TLC evaluates it on the programs of the passing run (`FaultsAreSafe`).

*The inductive invariant.* `HandlersFollowNesting` speaks about the active contexts: the running one has a handler for each try
statement around `ip`, the others for each around the call they wait for. For a throw to keep it, the catcher must have taken
back nothing and its catch block must lie at the depth of its handlers: `HandlersNested` says that handler number *k* of a context
is a catch block inside *k* try statements, counting its own, which is still set there. For a return to keep it, the caller must be at the call:
`ContextsFormed` says so of every context ever made, and that callers are older. `StackBalanced` needs
that handlers are catch blocks and that nothing else leads to one. A throw that begins at `current_context` instead of
`context` finds the same handler because the field holds the running context or one that has returned to it
(`FieldKnowsContext`), and one that has returned has no handlers left (`StaleHasNoHandlers`). TLC checked the parts of
`HandlersInv` on the instance of `exceptions` before they were proved.

The lemmas come first: how `TryDepth` changes from one position to the next (`DepthNext`, by counting), the callers of a
context and of its callee (`CallersContain`, `CallersStep`), that a catcher is the nearest one and has a handler, and that the catcher of a callee without
handlers is that of its caller (`CatcherOfCaller`). Then each action has one lemma for `IInv` and one for `Nested`, where
`NestingOf` and `NestingFrom` translate between places and contexts.

`HeapProof` proves, for any set of well-formed programs, with any number of registers and functions, of any depth of calls and
any size of heap and stack:

| Theorem | States |
|---|---|
| `HeapStaysSound` | `Spec /\ []CalleesKept => []IInv` |
| `NothingInUseIsEverFreed` | `Spec /\ []CalleesKept => []NothingInUseIsFreed` |
| `ArgumentsAreAlwaysPushed` | `Spec /\ []CalleesKept => []ArgumentsPushed` |

They assume `HeapAssumption` (the programs are `WellFormed`; TLC evaluates it on those of the runs) and have two premises, both of
which section 4 shows to be needed: `DropsInstances` = `FALSE`, no closure outlives its instance; and `[]CalleesKept`, nothing
overwrites the register through which a call was made before the call is over. TLC checks that the second holds of the programs
of `heap`. `MaxObjects` and `MaxStack` are any numbers.

*The inductive invariant.* `NothingInUseIsFreed` speaks of two closures, which a step may change everywhere; what is inductive is
that there are no references from what is kept to what is not. `IInv` says that there are a set `L` of states, a set `A` of contexts and
a number `floor[c]` for each of them such that

1. (`ObjectsOK`, `StatesOK`) every object that is not freed refers to objects that are not freed and to states of `L` only, as do the
   registers of each context, and the contexts and stacks of the states of `L`. Both closures stay inside this set
   (`ReachedKept`), which gives the property. The `this` of an activation, which no visitor follows, belongs to a state of `L` of
   which some instance exists;
2. (`RunsOK`) each run but the first was called by the run below it, through a function or an instance that is still in the register it
   was called from (this is the premise `CalleesKept`), or in a clone that is a root; and the state of a run names its context, or one that has just returned to
   it. So each run is reached from the roots, by way of its caller (`RunsVisited`), though its state need not be a root;
3. (`ActiveOK`) `A` holds the contexts that run and those that wait for a callee in the same run. One context waits for one callee, and above
   `floor[c]` the stack has at least what context `c` pushed and has not passed on. Calls of other states leave values there, so
   that it may be more.

`L` shrinks in a round to the states that were visited, and `A` to the visited contexts. That what runs is kept is
the argument of 2; that what is kept refers to nothing swept is the definition of the closure, except for `this`,
which is where the guard of `Gc` is used. TLC checked the invariant, with these three given by formulas, on part of the
instance of `heap`; while it was being strengthened it showed that an earlier guard, which looked only at what the round
visits, let a round take the state of an activation that was itself kept (`Outliving` in `MCHeap`).

The lemmas come first: that a recursive function on pairs of sets exists and gives the least closed set (`ClosureProperties`, for any visiting
function on a finite set), what values, objects and runs refer to (`Kinds`, `ObjectFields`, `RunFields`), how the number of pushed values changes along a body
(`PushedStep`), that a name's levels lead to a context (`OutwardsContext`). `Grows` states what all steps but `Gc` have in
common: objects keep their kind, and what is written is kept or new; from it follow the parts of the invariant that a step leaves
alone. Then each action has a lemma of its own.

`FieldsProof` proves, for any class: functions with any parameters and variables, nested to any depth, recursive, called
after the activation they were made in has returned, with any number of contexts and writes:

| Theorem | States |
|---|---|
| `FieldsInvariance` | `FieldsSpec => []FieldsInv` |
| `NamesReadRight` | `FieldsSpec => []ReadsMean` |
| `ScopesAreLexical` | `FieldsSpec => NamesAreLexical`, the refinement of `LexicalScopes` |

They assume `FieldsAssumption` and `MapAssumption`. `ScopesAreLexical` has two premises more: programs do not say `this.n` where a function has a
variable `n` (`ShadowedThis` = `FALSE`), and code of other classes does not assign private variables (`OutsideWrites` and `Private` are disjoint).
They make each instruction a write of the variable that it names; section 4 says what the code does without them. Reading needs neither: `NamesReadRight` holds of all programs.

*The inductive invariant.* `FieldsInv` says that the contexts are a sequence that starts with the class, that parents and callers are older,
that a context has one register for each symbol of its function, which holds a value, a class, a native function or a reference to
a context that exists, never one of the class body; and that the maps are well formed and have only names that programs
assign. Calls keep it since the parent of a new context comes from a reference in a register. TLC checked `FieldsInv` on the instance of `fields`.

*The argument.* The symbol table of a function has exactly its symbols, each with its register and flags (`TablesAreSymbols`, by counting the
insertions of `build_symbol_table`); so the search stops where a name is declared. `Search` walks over parents, `Scope` over
enclosing activations, which skip the activations of the function itself; both find the same variable, since a context that is
skipped has the function, and so the names, of the one before it (`SearchSkips`, `SearchIsScope`). From this follows that a name reads as
what it means, by cases on where it is found (`ReadsAreMeanings`). For the refinement, what a value means must not change when
contexts are added or written (`EnclosingKept`, `MeantKept`): a chain only depends on contexts that are older than its start.
Then each action has a lemma that maps it to a step of `LexicalScopes` (`AssignIsWrite`, `CallIsCall`, `SetOutsideIsWriteOutside`, ...). A call is
where registers meet names: the new registers mean the fresh variables of the activation (`NewLocals`, `FreshIsMeant`), where the reference of a
function to itself, made in the activation itself, means the closure that was called.

*Only model-checked:* liveness,
since fairness and ENABLED are out of the prover's reach; and what is said about programs and expressions as
recursive data (`RunsAsWritten` of `Exceptions`, `StaysInFrame` and `ComputesMeaning` of `Machine`): facts about them need
induction over data, which the provers cannot do here. Recursion over numbers and finite sets is not among it: that the function `Nearest`, the
table of symbols and the closure of the collector (`ClosureProperties`) exist and satisfy their equation is proved from
a least counterexample (`LeastNatural`), or, for the closure, from the least closed set.

## 6. What is not modelled

* *Event queue* (`event_queue.c`): dead code, nothing binds `native_enqueue`.
* *Class loading and imports* (`object.c` 66-130): file I/O around two tables. `known_types_map` is keyed by the name that a class
  was imported under and is not locked; only `build_symbol_table` and `object_new` are modelled.
* *Strings and floating-point numbers*: their operations are pure conversions. `/` and `%` only appear as the fault in `Exceptions`.
* *Parts of the AST generator*: JSON literals (hoisted to the enclosing body), for-in loops, `and` and `or` (re-parsed into
  functions), static variables, classes. The ANTLR grammar is generated code around a grammar file.
* *Variables of try bodies*, which get no registers (`AddressCalculator.cpp` 72).
* *Arguments of async functions*, which are copied for the new thread, and the time between `pthread_create` and the new thread's
  registration with the collector: `Heap` has one thread.
* *Synchronized variables in `Heap`*: the visitors do not follow them; `used_heap`, the byte counts of the allocator, which no property needs.
* `arraylist_remove_*` are only called by dead code; `map_free` and the byte layout of the assembler are left out.
* Terminal and file I/O, number formatting, the tester, the build files.

What could come next, in this order: a second thread in `Heap`, for the registration of new threads; a bag of a map cut up at its memory accesses as
in `ThreadList`; class loading by two threads.
