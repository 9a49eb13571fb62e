--------------------------------- MODULE Heap ---------------------------------
(***************************************************************************)
(* The objects of a program and the collector of                           *)
(* src/interpreter/garbage_collector.h, which may run before any           *)
(* instruction of functions that belong to several objects                 *)
(* (interpreter_dd.c, object.c).  One thread: module GcBarrier shows that  *)
(* no other one runs during gc().                                          *)
(*                                                                         *)
(* A value is NUMBER (anything the collector does not follow), an object,  *)
(* or This(s), the `this' of state s, which OP_CREATE_THIS makes and keeps *)
(* off the list of objects.  All states share one stack, each with its own *)
(* stack pointer.                                                          *)
(***************************************************************************)
EXTENDS Integers, Sequences, SequencesExt, FiniteSets

CONSTANTS
  Programs,        \* each gives the instructions of every function; "Main" is the first class
  Depth,           \* Depth[f]: the functions, the class included, that f is written down in
  Registers,       \* of a function, from 1 on: `this', the function itself, its argument, ...
  DropsInstances,  \* scripts let go of an instance and keep its functions or `this'
  MaxStack, MaxObjects   \* bounds

\* The values on the stack before each instruction of a body, with those that the
\* instructions before it pushed and calls took.
Pushed(body) ==
  LET pushed[i \in 1..(Len(body) + 1)] ==
        IF i = 1 THEN 0
        ELSE LET before == body[i - 1]
             IN  pushed[i - 1] + (IF before.op = "push" THEN 1 ELSE IF before.op = "call" THEN -before.n ELSE 0)
  IN  pushed

\* What the interpreter relies on: no instruction writes `this', names are found,
\* and the arguments of a call have been pushed.
WellFormedBody(p, f) == Len(p[f]) \in Nat /\ \A i \in 1..Len(p[f]) :
  LET this == p[f][i]
  IN  /\ Pushed(p[f])[i] \in Nat
      /\ this.op \in {"mov", "number", "function", "object", "get_outer", "get", "get_static", "new"} =>
           this.r \in Registers \ {1}
      /\ this.op \in {"set_outer", "set", "set_static", "push", "call", "return"} => this.r \in Registers
      /\ this.op \in {"mov", "get"} => this.from \in Registers
      /\ this.op \in {"get_outer", "get"} => this.slot \in Registers
      /\ this.op \in {"set_outer", "set"} => this.slot \in Registers \ {1}
      /\ this.op = "set" => this.to \in Registers
      /\ this.op \in {"get_outer", "set_outer"} => this.levels \in 0..Depth[f]
      /\ this.op = "function" => this.fn \in DOMAIN p /\ Depth[this.fn] = Depth[f] + 1
      /\ this.op = "new" => this.class \in DOMAIN p /\ Depth[this.class] = 0
      /\ this.op = "call" => this.dest \in Registers \ {1} /\ this.n \in 0..Pushed(p[f])[i]

WellFormed(p) ==
  /\ "Main" \in DOMAIN p /\ Depth["Main"] = 0
  /\ \A f \in DOMAIN p : Depth[f] \in Nat /\ WellFormedBody(p, f)

ASSUME HeapAssumption ==
  /\ {1, 2, 3} \subseteq Registers /\ Registers \subseteq Nat \ {0}
  /\ DropsInstances \in BOOLEAN
  /\ MaxStack \in Nat /\ MaxObjects \in Nat
  /\ \A p \in Programs : WellFormed(p)

VARIABLES
  program,
  heap,        \* the objects ever made; they are on gc_objects_list until they are freed
  states,      \* the interpreter states ever made
  stack,       \* the stack, with the values above the stack pointers, too
  runs,        \* the runs of z_interpreter_run that have not ended, the innermost last
  roots,       \* interpreter_states_list without the removed ones
  static       \* a static variable

vars == <<program, heap, states, stack, runs, roots, static>>

NUMBER  == 0
This(s) == -s
IsThis(v) == v < 0
Freed   == [type |-> "freed"]

\* OP_FFRAME: `this' and the arguments are in the registers.
Context(f, parent, return, dest, this, args) ==
  [type |-> "context", fn |-> f, pc |-> 1, parent |-> parent, return |-> return, dest |-> dest,
   locals |-> [r \in Registers |-> IF r = 1 THEN this ELSE IF r - 2 \in DOMAIN args THEN args[r - 2] ELSE NUMBER]]
Object            == [type |-> "object", properties |-> NUMBER]
Function(f, c, s) == [type |-> "function", fn |-> f, parent |-> c, state |-> s]
Instance(s)       == [type |-> "instance", state |-> s]
State(c, d, ptr)  == [type |-> "state", root |-> c, current |-> d, ptr |-> ptr, running |-> TRUE]

Init ==
  /\ program \in Programs
  /\ heap = <<Context("Main", 0, 0, 0, This(1), <<>>)>>
  /\ states = <<State(1, 1, 0)>>
  /\ stack = [i \in 1..MaxStack |-> NUMBER]
  /\ runs = <<[state |-> 1, ctx |-> 1, dest |-> 0, callee |-> <<0, 0>>, kind |-> "main"]>>
  /\ roots = {1}
  /\ static = NUMBER

-----------------------------------------------------------------------------
(* Instructions *)

Run   == Last(runs)
Ctx   == Run.ctx
Self  == Run.state
Local == heap[Ctx].locals
Ptr   == states[Self].ptr
New   == Len(heap) + 1

Body     == program[heap[Ctx].fn]
x        == Body[heap[Ctx].pc]
IsOp(op) == heap[Ctx].pc <= Len(Body) /\ x.op = op

Next_pc(h) == [h EXCEPT ![Ctx].pc = @ + 1]

Put(r, v) ==
  /\ heap' = Next_pc([heap EXCEPT ![Ctx].locals[r] = v])
  /\ UNCHANGED <<program, states, stack, runs, roots, static>>

Mov       == IsOp("mov") /\ Put(x.r, Local[x.from])
MovNumber == IsOp("number") /\ Put(x.r, NUMBER)

\* OP_MOV_FNC, object_new without a class name.
Make(r, object) ==
  /\ New <= MaxObjects
  /\ heap' = Append(Next_pc([heap EXCEPT ![Ctx].locals[r] = New]), object)
  /\ UNCHANGED <<program, states, stack, runs, roots, static>>

MovFnc    == IsOp("function") /\ Make(x.r, Function(x.fn, Ctx, Self))
NewObject == IsOp("object") /\ Make(x.r, Object)

\* OP_GET_FIELD and OP_SET_FIELD of a name that the function `levels' outwards has.
Outwards(c, levels) ==
  LET outwards[l \in 0..levels] == IF l = 0 THEN c ELSE heap[outwards[l - 1]].parent
  IN  outwards[levels]

GetOuter == IsOp("get_outer") /\ Put(x.r, heap[Outwards(Ctx, x.levels)].locals[x.slot])

SetOuter ==
  /\ IsOp("set_outer")
  /\ heap' = Next_pc([heap EXCEPT ![Outwards(Ctx, x.levels)].locals[x.slot] = Local[x.r]])
  /\ UNCHANGED <<program, states, stack, runs, roots, static>>

Type(v) == IF v = NUMBER THEN "number" ELSE IF IsThis(v) THEN "instance" ELSE heap[v].type

\* Of an object, or of an instance or a `this': there a field is a register of the
\* root context.
RootOf(v) == states[IF IsThis(v) THEN -v ELSE heap[v].state].root

GetField ==
  /\ IsOp("get")
  /\ LET o == Local[x.from]
     IN  \/ Type(o) = "instance" /\ Put(x.r, heap[RootOf(o)].locals[x.slot])
         \/ Type(o) = "object"   /\ Put(x.r, heap[o].properties)

SetField ==
  /\ IsOp("set")
  /\ LET o == Local[x.to]
     IN  \/ /\ Type(o) = "instance"
            /\ heap' = Next_pc([heap EXCEPT ![RootOf(o)].locals[x.slot] = Local[x.r]])
         \/ /\ Type(o) = "object"
            /\ heap' = Next_pc([heap EXCEPT ![o].properties = Local[x.r]])
  /\ UNCHANGED <<program, states, stack, runs, roots, static>>

GetStatic == IsOp("get_static") /\ Put(x.r, static)

SetStatic ==
  /\ IsOp("set_static")
  /\ static' = Local[x.r]
  /\ heap' = Next_pc(heap)
  /\ UNCHANGED <<program, states, stack, runs, roots>>

Push ==
  /\ IsOp("push") /\ Ptr < MaxStack
  /\ stack' = [stack EXCEPT ![Ptr + 1] = Local[x.r]]
  /\ states' = [states EXCEPT ![Self].ptr = Ptr + 1]
  /\ heap' = Next_pc(heap)
  /\ UNCHANGED <<program, runs, roots, static>>

-----------------------------------------------------------------------------
(* Calls *)

Callee       == heap[Local[x.r]]
IsFunction   == IsOp("call") /\ Type(Local[x.r]) = "function"
Arguments(n) == [i \in 1..n |-> stack[Ptr + 1 - i]]

\* The number of arguments goes on the stack; OP_FFRAME takes it off again.
PutCount == New < MaxObjects /\ Ptr < MaxStack /\ stack' = [stack EXCEPT ![Ptr + 1] = NUMBER]

\* A variant for the mutation runs: the number of arguments is taken off twice.
CallOwn_counted ==
  /\ IsFunction /\ Callee.state = Self
  /\ PutCount
  /\ heap' = Append(heap, Context(Callee.fn, Callee.parent, Ctx, x.dest, heap[states[Self].root].locals[1], Arguments(x.n)))
  /\ states' = [states EXCEPT ![Self].ptr = Ptr - x.n - 1, ![Self].current = New]
  /\ runs' = [runs EXCEPT ![Len(runs)].ctx = New]
  /\ UNCHANGED <<program, roots, static>>

\* OP_CALL of a function of the running state.
CallOwn ==
  /\ IsFunction /\ Callee.state = Self
  /\ PutCount
  /\ heap' = Append(heap, Context(Callee.fn, Callee.parent, Ctx, x.dest, heap[states[Self].root].locals[1], Arguments(x.n)))
  /\ states' = [states EXCEPT ![Self].ptr = Ptr - x.n, ![Self].current = New]
  /\ runs' = [runs EXCEPT ![Len(runs)].ctx = New]
  /\ UNCHANGED <<program, roots, static>>

\* OP_CALL of a function of another state s, in a run of its own: a running state
\* is cloned, and the clone is a root.  The caller's arguments stay on the stack.
CallOther ==
  LET s      == Callee.state
      clone  == states[s].running
      t      == IF clone THEN Len(states) + 1 ELSE s
      called == State(IF clone THEN states[s].current ELSE states[s].root, New, Ptr - x.n)
      pushed == [states EXCEPT ![Self].ptr = Ptr + 1]
  IN  /\ IsFunction /\ s # Self
      /\ PutCount
      /\ heap' = Append(heap, Context(Callee.fn, Callee.parent, 0, 0, heap[called.root].locals[1], Arguments(x.n)))
      /\ states' = IF clone THEN Append(pushed, called) ELSE [pushed EXCEPT ![s] = called]
      /\ roots' = IF clone THEN roots \cup {t} ELSE roots
      /\ runs' = Append(runs, [state |-> t, ctx |-> New, dest |-> x.dest, callee |-> <<Ctx, x.r>>,
                               kind |-> IF clone THEN "clone" ELSE "call"])
      /\ UNCHANGED <<program, static>>

\* A variant for the mutation runs: the instance is returned after the constructor.
NewInstance_unheld ==
  LET t == Len(states) + 1
  IN  /\ IsOp("new")
      /\ PutCount
      /\ heap' = heap \o <<Instance(t), Context(x.class, 0, 0, 0, This(t), <<>>)>>
      /\ states' = Append(states, State(New + 1, New + 1, Ptr))
      /\ runs' = Append(runs, [state |-> t, ctx |-> New + 1, dest |-> 0, callee |-> <<Ctx, x.r>>, kind |-> "new"])
      /\ UNCHANGED <<program, roots, static>>

\* OP_CALL of a class, object_new: the instance is in the caller's register
\* (gc_fix) and on the list before the constructor runs.
NewInstance ==
  LET t == Len(states) + 1
  IN  /\ IsOp("new")
      /\ PutCount
      /\ heap' = [heap EXCEPT ![Ctx].locals[x.r] = New]
                   \o <<Instance(t), Context(x.class, 0, 0, 0, This(t), <<>>)>>
      /\ states' = Append(states, State(New + 1, New + 1, Ptr))
      /\ runs' = Append(runs, [state |-> t, ctx |-> New + 1, dest |-> 0, callee |-> <<Ctx, x.r>>, kind |-> "new"])
      /\ UNCHANGED <<program, roots, static>>

\* What the caller's context is like when the call is over.
Resumed(c, r, v) == [heap EXCEPT ![c].locals[r] = v, ![c].pc = @ + 1]

\* OP_RETURN within a run.  The state still names the context that has returned.
ReturnOwn ==
  LET caller == heap[Ctx].return
  IN  /\ IsOp("return") /\ caller # 0
      /\ heap' = Resumed(caller, heap[Ctx].dest, Local[x.r])
      /\ states' = [states EXCEPT ![Self].current = Ctx]
      /\ runs' = [runs EXCEPT ![Len(runs)].ctx = caller]
      /\ UNCHANGED <<program, stack, roots, static>>

\* OP_RETURN that ends a run: a clone is no longer a root; what a constructor
\* returns is not used.
ReturnRun ==
  LET caller == runs[Len(runs) - 1].ctx
  IN  /\ IsOp("return") /\ Len(runs) > 1
      /\ heap[Ctx].return = 0
      /\ heap' = IF Run.kind = "new" THEN [heap EXCEPT ![caller].pc = @ + 1] ELSE Resumed(caller, Run.dest, Local[x.r])
      /\ states' = [states EXCEPT ![Self].running = FALSE, ![Self].current = Ctx]
      /\ roots' = IF Run.kind = "clone" THEN roots \ {Self} ELSE roots
      /\ runs' = Front(runs)
      /\ UNCHANGED <<program, stack, static>>

-----------------------------------------------------------------------------
(* The collector *)

gc_visit_stack(ptr) == {stack[i] : i \in 1..ptr}

gc_visit_state(s) ==
  IF states[s] = Freed THEN {}
  ELSE {states[s].current, states[s].root} \cup gc_visit_stack(states[s].ptr)

\* A variant for the mutation runs: the caller is not visited.
gc_visit_context_scopes(c) == {c.locals[r] : r \in Registers \ {1}} \cup {c.parent}

\* Register 1 is not visited.
gc_visit_context(c) == {c.locals[r] : r \in Registers \ {1}} \cup {c.parent, c.return}

\* What visiting a value visits in turn.  This(s) stands for the state s, too.
gc_visit_object(v) ==
  IF v = NUMBER THEN {}
  ELSE IF IsThis(v) THEN gc_visit_state(-v)
  ELSE CASE heap[v].type = "context"  -> gc_visit_context(heap[v])
         [] heap[v].type = "object"   -> {heap[v].properties}
         [] heap[v].type = "function" -> {heap[v].parent, This(heap[v].state)}
         [] heap[v].type = "instance" -> {This(heap[v].state)}
         [] heap[v].type = "freed"    -> {}

Values == {NUMBER} \cup DOMAIN heap \cup {This(s) : s \in DOMAIN states}

\* The values that one comes to from those of S.  p: what was found so far, and
\* what of it was found last.
Closure(S, visit) ==
  LET grown[p \in (SUBSET Values) \X (SUBSET Values)] ==
        LET more == (UNION {visit[v] : v \in p[2]}) \ p[1]
        IN  IF more = {} THEN p[1] ELSE grown[<<p[1] \cup more, more>>]
  IN  grown[<<S, S>>]

gc_roots == {This(s) : s \in roots} \cup {static}
Visited  == Closure(gc_roots, [v \in Values |-> gc_visit_object(v)])

\* gc(); an instance takes its state with it.  Unless DropsInstances, nothing that
\* is left needs the state: neither the `this' of an activation nor a function.
Gc ==
  LET visited == Visited
      swept   == {o \in DOMAIN heap : heap[o] # Freed /\ o \notin visited}
      dropped == {heap[o].state : o \in {i \in swept : heap[i].type = "instance"}}
      needed  == visited \cup {heap[c].locals[1] : c \in {o \in DOMAIN heap \ swept : heap[o].type = "context"}}
  IN  /\ DropsInstances \/ \A s \in dropped : This(s) \notin needed
      /\ swept # {}
      /\ heap' = [o \in DOMAIN heap |-> IF o \in swept THEN Freed ELSE heap[o]]
      /\ states' = [s \in DOMAIN states |-> IF s \in dropped THEN Freed ELSE states[s]]
      /\ UNCHANGED <<program, stack, runs, roots, static>>

Next ==
  \/ Mov \/ MovNumber \/ MovFnc \/ NewObject \/ GetOuter \/ SetOuter \/ GetField \/ SetField
  \/ GetStatic \/ SetStatic \/ Push \/ CallOwn \/ CallOther \/ NewInstance \/ ReturnOwn \/ ReturnRun
  \/ Gc

Spec == Init /\ [][Next]_vars

-----------------------------------------------------------------------------
(* Properties *)

\* What the running code and its callers can come to use, found without the
\* record that the states keep for the collector: contexts and their registers,
\* scopes, callers, objects and their fields, functions with the roots of their
\* states.
Uses(v) ==
  IF v = NUMBER THEN {}
  ELSE IF IsThis(v) THEN (IF states[-v] = Freed THEN {} ELSE {states[-v].root})
  ELSE CASE heap[v].type = "context"  -> Range(heap[v].locals) \cup {heap[v].parent, heap[v].return}
         [] heap[v].type = "object"   -> {heap[v].properties}
         [] heap[v].type = "function" -> {heap[v].parent, This(heap[v].state)}
         [] heap[v].type = "instance" -> {This(heap[v].state)}
         [] heap[v].type = "freed"    -> {}

Running == {static} \cup (UNION {{run.ctx, This(run.state)} : run \in ToSet(runs)}) \cup gc_visit_stack(Ptr)
InUse   == Closure(Running, [v \in Values |-> Uses(v)])

IsFreed(v) == v # NUMBER /\ (IF IsThis(v) THEN states[-v] ELSE heap[v]) = Freed

\* No round frees what is in use: the contexts of a state that is no root (an
\* object's) while it runs, of a clone, the scopes of a function that outlives
\* its activation, arguments that are pushed while an inner call collects, a new
\* instance whose constructor runs; and the next round visits no object that an
\* earlier one freed, though a state keeps its last context and stack pointer
\* for ever (garbage_collector.h, interpreter_dd.c:885-921, 979, object.c:131-174).
NothingInUseIsFreed == \A v \in InUse \cup Visited : ~ IsFreed(v)

\* The register that run i was called from still holds a function of its state, or
\* the instance that it constructs (gc_fix, object.c:156-157).
CalleeKept(i) ==
  LET v == heap[runs[i].callee[1]].locals[runs[i].callee[2]]
  IN  /\ runs[i].kind = "call" => v > 0 /\ heap[v].type = "function" /\ heap[v].state = runs[i].state
      /\ runs[i].kind = "new"  => v > 0 /\ heap[v] = Instance(runs[i].state)

\* What keeps a state alive that runs and is no root: each caller holds, in the register
\* it called from, the function or instance of the run above it.  Nothing in the code
\* sees to it: a callee may overwrite that register (interpreter_dd.c:815-820, 1166).
\* So it is the premise on programs under which the other properties hold.
CalleesKept == \A i \in 2..Len(runs) : CalleeKept(i)

\* The arguments of a call are on the stack, those of the calls around it below
\* them, also after calls of other states, which leave theirs there
\* (interpreter_dd.c:881-921, 999-1012).
ArgumentsPushed == IsOp("call") => x.n <= Ptr

-----------------------------------------------------------------------------
(* The inductive invariant.  L: the states that something may still use;   *)
(* A: the contexts that run or wait for a callee of their own run;         *)
(* floor[c]: values below those that c pushed.                             *)

\* What nothing has freed, and nothing that it leads to.
Kept(L)  == {NUMBER} \cup {o \in DOMAIN heap : heap[o] # Freed} \cup {This(s) : s \in L}
Contexts == {o \in DOMAIN heap : heap[o].type = "context"}

IsContext(c, L) ==
  /\ c \in [type : {"context"}, fn : DOMAIN program, pc : Nat \ {0}, parent : Contexts \cup {0},
            return : Contexts \cup {0}, dest : Nat, locals : [Registers -> Kept(L)]]
  /\ Depth[c.fn] > 0 => c.parent # 0 /\ Depth[heap[c.parent].fn] = Depth[c.fn] - 1
  /\ c.return # 0 => c.dest \in Registers \ {1}
  /\ \E s \in L : c.locals[1] = This(s) /\ (s = 1 \/ \E o \in DOMAIN heap : heap[o] = Instance(s))

IsFunctionRef(f, L) ==
  /\ f \in [type : {"function"}, fn : DOMAIN program, parent : Contexts, state : L]
  /\ Depth[f.fn] = Depth[heap[f.parent].fn] + 1

IsObject(object, L) ==
  \/ object = Freed
  \/ IsContext(object, L)
  \/ IsFunctionRef(object, L)
  \/ object \in [type : {"object"}, properties : Kept(L)]
  \/ object \in [type : {"instance"}, state : L]

ObjectsOK(L) ==
  /\ heap \in Seq({heap[o] : o \in DOMAIN heap})
  /\ \A o \in DOMAIN heap : IsObject(heap[o], L)

States == [type : {"state"}, root : DOMAIN heap, current : DOMAIN heap, ptr : 0..MaxStack, running : BOOLEAN]

StatesOK(L) ==
  /\ states \in Seq(States \cup {Freed})
  /\ \A s \in L : /\ states[s] # Freed
                  /\ states[s].root \in Contexts /\ states[s].current \in Contexts
                  /\ gc_visit_stack(states[s].ptr) \subseteq Kept(L)

\* A run was called by the run below it, through a function or an instance that its
\* caller still holds, or in a clone that is a root.
Called(i) ==
  /\ runs[i].callee[1] = runs[i - 1].ctx /\ runs[i].callee[2] \in Registers \ {1}
  /\ runs[i].kind \in {"call", "clone", "new"}
  /\ runs[i].kind # "new" => runs[i].dest \in Registers \ {1}
  /\ runs[i].kind = "clone" => runs[i].state \in roots
  /\ CalleeKept(i)

\* The state of a run runs; its context, or one it has just returned from, leads to ctx.
RunOK(i) ==
  LET state == states[runs[i].state]
  IN  /\ state.running
      /\ runs[i].ctx \in {state.current, heap[state.current].return}
      /\ i > 1 => Called(i)

Runs(L) == [state : L, ctx : Contexts, dest : Nat, callee : Nat \X Nat, kind : {"main", "call", "clone", "new"}]

RunsOK(L) ==
  /\ runs \in Seq(Runs(L))
  /\ runs # <<>> /\ runs[1].state = 1 /\ runs[1].kind = "main"
  /\ 1 \in roots
  /\ \A i \in 1..Len(runs) : RunOK(i)
  /\ \A i, j \in 1..Len(runs) : i # j => runs[i].state # runs[j].state /\ runs[i].ctx # runs[j].ctx

At(c)       == program[heap[c].fn][heap[c].pc].op
PushedAt(c) == Pushed(program[heap[c].fn])[heap[c].pc]
PushedAfter(c) == Pushed(program[heap[c].fn])[heap[c].pc + 1]

\* A context that waits for c, and the values that it pushed.
CallerOK(c, A, floor) == heap[c].return # 0 =>
  LET r == heap[c].return
  IN  /\ r \in A
      /\ \A d \in A : heap[d].return = r => d = c
      /\ \A i \in 1..Len(runs) : runs[i].ctx # r
      /\ heap[r].pc <= Len(program[heap[r].fn])
      /\ floor[c] >= floor[r] + PushedAfter(r)

\* What a run has pushed is on its state's stack; all but the last one are calling.
StackOK(i, A, floor) ==
  LET c == runs[i].ctx
  IN  /\ c \in A
      /\ PushedAt(c) \in Nat /\ states[runs[i].state].ptr >= floor[c] + PushedAt(c)
      /\ i < Len(runs) => heap[c].pc <= Len(program[heap[c].fn]) /\ At(c) \in {"call", "new"}

ActiveOK(A, floor) ==
  /\ A \subseteq Contexts /\ floor \in [A -> Nat]
  /\ \A c \in A : CallerOK(c, A, floor)
  /\ \A i \in 1..Len(runs) : StackOK(i, A, floor)

Sound(L, A, floor) ==
  /\ program \in Programs
  /\ L \subseteq DOMAIN states
  /\ stack \in [1..MaxStack -> Values]
  /\ roots \subseteq L /\ static \in Kept(L)
  /\ ObjectsOK(L) /\ StatesOK(L) /\ RunsOK(L) /\ ActiveOK(A, floor)

IInv == \E L \in SUBSET DOMAIN states, A \in SUBSET DOMAIN heap : \E floor \in [A -> Nat] : Sound(L, A, floor)
=============================================================================
