------------------------------ MODULE Handlers ------------------------------
(***************************************************************************)
(* Handlers: what the interpreter (src/interpreter/interpreter_dd.c) does  *)
(* with try statements.  Every call context has a list of catch addresses, *)
(* a throw looks for the nearest context with one.                         *)
(*                                                                         *)
(* The code of a program maps each function to its instructions.  Only     *)
(* what moves control is kept of an instruction; a mark is one that does   *)
(* not.  An address is a function and a position in its code.              *)
(***************************************************************************)
EXTENDS Integers, Sequences, SequencesExt, FiniteSets

CONSTANTS
  Programs,   \* the programs to run; the run begins in function "main"
  Code,       \* Code[p]: what the compiler makes of program p
  MaxTrace    \* bound: marks executed by a run

\* The try statements around position i, as the code before it shows.
TryDepth(instructions, i) ==
  Cardinality({j \in 1..(i - 1) : instructions[j].op = "set_catch"})
    - Cardinality({j \in 1..(i - 1) : instructions[j].op = "clear_catch"})

\* What the interpreter relies on: a catch block begins with a pop, which nothing
\* but its handler leads to; a jump stays in its try statement; a handler is taken
\* back where the statement that set it ends; no function runs past its end.
WellFormedBody(instructions, functions) ==
  LET Positions == 1..Len(instructions)
      Depth(i)  == TryDepth(instructions, i)
  IN  /\ Len(instructions) \in Nat \ {0}
      /\ instructions[1].op # "pop"
      /\ \A i \in Positions :
           LET this == instructions[i]
           IN  /\ this.op \in {"mark", "set_catch", "clear_catch", "pop", "call"} =>
                    i + 1 \in Positions /\ instructions[i + 1].op # "pop"
               /\ this.op = "jmp" =>
                    /\ this.to \in Positions /\ instructions[this.to].op # "pop"
                    /\ Depth(this.to) = Depth(i)
               /\ this.op = "set_catch" =>
                    /\ this.to \in Positions /\ instructions[this.to].op = "pop"
                    /\ Depth(this.to) = Depth(i) + 1
               /\ this.op = "clear_catch" => Depth(i) > 0
               /\ this.op = "call" => this.fn \in functions

WellFormed(c) == /\ "main" \in DOMAIN c
                 /\ \A f \in DOMAIN c : WellFormedBody(c[f], DOMAIN c)

ASSUME CodeAssumption == \A p \in Programs : WellFormed(Code[p])

-----------------------------------------------------------------------------
VARIABLES
  program,
  code,              \* code[f]: the instructions of function f
  ip,                \* instruction_ptr, in the code of the running context's function
  context,           \* the local variable current_context: the running context
  current_context,   \* the field current_context of the interpreter state
  contexts,          \* all contexts ever made; 0 is NULL
  stack,             \* the number of values on the stack
  trace,             \* the marks executed
  status             \* "run", "returned" or, with an uncaught exception, "thrown"

vars == <<program, code, ip, context, current_context, contexts, stack, trace, status>>

NewContext(f, c, address) ==
  [fn |-> f, listed |-> FALSE, catches |-> <<>>, return_context |-> c, return_address |-> address]

Init ==
  /\ program \in Programs
  /\ code = Code[program]
  /\ ip = 1
  /\ context = 1 /\ current_context = 1
  /\ contexts = <<NewContext("main", 0, 0)>>
  /\ stack = 0
  /\ trace = <<>>
  /\ status = "run"

\* In the contexts made, c and those that wait for it, each for the one it called,
\* to return: what every set has that has c and, with a context, its caller.
Callers(made, c) ==
  {d \in 1..c : \A S \in SUBSET (1..c) :
     c \in S /\ (\A e \in S : made[e].return_context \in S \cup {0}) => d \in S}

\* The nearest context with a handler, from context c outwards; 0 if none has one.
\* A caller was made before the contexts that it calls.
Catcher(c) ==
  LET handling == {d \in Callers(contexts, c) : contexts[d].catches # <<>>}
  IN  IF handling = {} THEN 0 ELSE CHOOSE d \in handling : \A e \in handling : e <= d

Running     == contexts[context]
Instruction == code[Running.fn][ip]
At(op)      == status = "run" /\ Instruction.op = op

DoMark ==
  /\ At("mark")
  /\ Len(trace) < MaxTrace
  /\ trace' = Append(trace, Instruction.id)
  /\ ip' = ip + 1
  /\ UNCHANGED <<program, code, context, current_context, contexts, stack, status>>

Jump ==
  /\ At("jmp")
  /\ ip' = Instruction.to
  /\ UNCHANGED <<program, code, context, current_context, contexts, stack, trace, status>>

\* Making a context's list of handlers also stores the context in the state.
SetCatch ==
  /\ At("set_catch")
  /\ contexts' = [contexts EXCEPT ![context].catches = Append(@, Instruction.to),
                                 ![context].listed = TRUE]
  /\ current_context' = IF Running.listed THEN current_context ELSE context
  /\ ip' = ip + 1
  /\ UNCHANGED <<program, code, context, stack, trace, status>>

\* A variant for the mutation runs: arraylist_top instead of arraylist_pop.
ClearCatchKeeping ==
  /\ At("clear_catch")
  /\ ip' = ip + 1
  /\ UNCHANGED <<program, code, context, current_context, contexts, stack, trace, status>>

\* arraylist_pop has no check of its own: where HandlersFollowNesting holds, the
\* list is not empty here.
ClearCatch ==
  /\ At("clear_catch")
  /\ contexts' = [contexts EXCEPT ![context].catches = Front(@)]
  /\ ip' = ip + 1
  /\ UNCHANGED <<program, code, context, current_context, stack, trace, status>>

\* A variant for the mutation runs: the value is read but stays on the stack.
PopPeek ==
  /\ At("pop")
  /\ ip' = ip + 1
  /\ UNCHANGED <<program, code, context, current_context, contexts, stack, trace, status>>

\* The catch block takes the exception from the stack.
Pop ==
  /\ At("pop")
  /\ stack' = stack - 1
  /\ ip' = ip + 1
  /\ UNCHANGED <<program, code, context, current_context, contexts, trace, status>>

\* OP_CALL of a function of the same state; its arguments and their number are
\* taken from the stack by OP_FFRAME.
DoCall ==
  /\ At("call")
  /\ contexts' = Append(contexts, NewContext(Instruction.fn, context, ip))
  /\ context' = Len(contexts')
  /\ current_context' = Len(contexts')
  /\ ip' = 1
  /\ UNCHANGED <<program, code, stack, trace, status>>

\* A variant for the mutation runs: the caller's handlers are dropped.
DoReturnClearing ==
  /\ At("return")
  /\ Running.return_context # 0
  /\ current_context' = context
  /\ context' = Running.return_context
  /\ contexts' = [contexts EXCEPT ![Running.return_context].catches = <<>>]
  /\ ip' = Running.return_address + 1
  /\ UNCHANGED <<program, code, stack, trace, status>>

\* OP_RETURN stores the context that returns, not the one it returns to.
DoReturn ==
  /\ At("return")
  /\ Running.return_context # 0
  /\ current_context' = context
  /\ context' = Running.return_context
  /\ ip' = Running.return_address + 1
  /\ UNCHANGED <<program, code, contexts, stack, trace, status>>

ReturnFromRun ==
  /\ At("return")
  /\ Running.return_context = 0
  /\ current_context' = context
  /\ status' = "returned"
  /\ UNCHANGED <<program, code, ip, context, contexts, stack, trace>>

\* interpreter_throw_exception_from_str and, if there is a handler, goto_catch_block.
ThrowFrom(c) ==
  LET catcher == Catcher(c)
  IN  /\ current_context' = catcher
      /\ IF catcher # 0
           THEN /\ context' = catcher
                /\ ip' = Last(contexts[catcher].catches)
                /\ stack' = stack + 1
                /\ UNCHANGED status
           ELSE /\ status' = "thrown"
                /\ UNCHANGED <<context, ip, stack>>
      /\ UNCHANGED <<program, code, contexts, trace>>

\* OP_THROW first stores its context in the state ...
DoThrow == At("throw") /\ ThrowFrom(context)

\* ... the other instructions that throw do not.
DoFault == At("fault") /\ ThrowFrom(current_context)

Ended == status # "run" /\ UNCHANGED vars

Next == \/ DoMark \/ Jump \/ SetCatch \/ ClearCatch \/ Pop
        \/ DoCall \/ DoReturn \/ ReturnFromRun \/ DoThrow \/ DoFault
        \/ Ended

Spec == Init /\ [][Next]_vars

-----------------------------------------------------------------------------
(* Properties *)

\* Where every active context is: the running one at ip, the others at the
\* calls they wait for.
Places ==
  {<<context, ip>>} \cup {<<contexts[c].return_context, contexts[c].return_address>> :
                           c \in {d \in Callers(contexts, context) : contexts[d].return_context # 0}}

\* Context c has one handler for each try statement around position i.
HandledAt(c, i) == Len(contexts[c].catches) = TryDepth(code[contexts[c].fn], i)

\* The handlers of every active context are those of the try statements around
\* the place where it is (interpreter_dd.c:305-322).
HandlersFollowNesting ==
  status = "run" => \A place \in Places : HandledAt(place[1], place[2])

\* A caught exception is on the stack until its catch block takes it, and
\* nothing else is left there (interpreter_dd.c:1196, Compiler.cpp:212).
StackBalanced == stack = IF At("pop") THEN 1 ELSE 0

\* An instruction that throws finds the handler of the function that executes
\* it: the state holds the "context of currently running function"
\* (interpreter_dd.c:63).
ThrowsFromRunningContext == At("fault") => Catcher(current_context) = Catcher(context)
-----------------------------------------------------------------------------
(* The inductive invariants                                                *)

Contexts == [fn : DOMAIN code, listed : BOOLEAN, catches : Seq(Nat),
             return_context : Nat, return_address : Nat]

\* A caller was made before its callee and stands at a call of it; handlers are
\* catch blocks of the context's function.
ContextsFormed ==
  \A c \in 1..Len(contexts) :
    LET caller == contexts[c].return_context
        at     == contexts[c].return_address
    IN  /\ caller \in 0..(c - 1)
        /\ caller # 0 => LET instructions == code[contexts[caller].fn]
                         IN  /\ at \in 1..Len(instructions)
                             /\ instructions[at].op = "call"
                             /\ instructions[at].fn = contexts[c].fn
        /\ \A k \in 1..Len(contexts[c].catches) :
             /\ contexts[c].catches[k] \in 1..Len(code[contexts[c].fn])
             /\ code[contexts[c].fn][contexts[c].catches[k]].op = "pop"

\* The state holds the running context, or one that has returned to it.
FieldKnowsContext ==
  status = "run" =>
    /\ current_context \in 1..Len(contexts)
    /\ current_context # context => contexts[current_context].return_context = context

ControlOK ==
  /\ program \in Programs /\ code = Code[program]
  /\ contexts \in Seq(Contexts)
  /\ context \in 1..Len(contexts)
  /\ ip \in 1..Len(code[contexts[context].fn])
  /\ status \in {"run", "returned", "thrown"}
  /\ ContextsFormed
  /\ FieldKnowsContext

\* The handlers of a context are those of try statements in each other.
HandlersNested ==
  \A c \in 1..Len(contexts) : \A k \in 1..Len(contexts[c].catches) :
    TryDepth(code[contexts[c].fn], contexts[c].catches[k]) = k

Nested == HandlersFollowNesting /\ HandlersNested

\* A context that has returned left no handlers behind.
StaleHasNoHandlers ==
  status = "run" /\ current_context # context => contexts[current_context].catches = <<>>

\* Faults c: some instruction that throws does not store its context.
Faults(c) == \E f \in DOMAIN c : \E i \in 1..Len(c[f]) : c[f][i].op = "fault"

\* No function that is called has a return inside a try statement.
ReturnsOutsideTries(c) ==
  \A f, g \in DOMAIN c : \A i \in 1..Len(c[f]), j \in 1..Len(c[g]) :
    c[f][i].op = "call" /\ c[f][i].fn = g /\ c[g][j].op = "return" => TryDepth(c[g], j) = 0

IInv == ControlOK /\ StackBalanced

HandlersInv == IInv /\ Nested /\ (Faults(code) => StaleHasNoHandlers)
=============================================================================
