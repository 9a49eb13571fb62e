------------------------------- MODULE Machine -------------------------------
(***************************************************************************)
(* The interpreter runs the code of a function: an action for each kind of *)
(* instruction of interpreter_dd.c.                                        *)
(***************************************************************************)
EXTENDS Compiler

CONSTANTS
  Bodies,          \* the function bodies that are compiled
  FirstArgument, FirstOuter,   \* what the arguments and the outer variables hold at first
  Params,          \* the function's parameters, a sequence
  Native,          \* the name of the outer function that programs call
  External(_, _)   \* what it returns

VARIABLES
  body,            \* the source of the function, a parse tree
  optimized,       \* whether the optimizer ran
  code, instruction_ptr,   \* instruction_ptr is NULL (0) when the function has returned
  locals,          \* the registers of the function's context; a string, or a function, is its name's text
  outer,           \* the variables of outer scopes
  stack,           \* the stack, its top first
  return_value

vars   == <<body, optimized, code, instruction_ptr, locals, outer, stack, return_value>>
fixed  == <<body, optimized, code>>
NULL   == 0

Init ==
  /\ body \in Bodies
  /\ optimized \in BOOLEAN
  /\ code = Compiled(visitBody(body), optimized)
  /\ instruction_ptr = 1
  /\ locals = <<>>
  /\ outer = [n \in ToSet(Outer) |-> IF n = Native THEN Name(n) ELSE FirstOuter]
  /\ stack = [i \in DOMAIN Params |-> FirstArgument + i]
  /\ return_value = 0

x  == code[instruction_ptr]
r0 == locals[x.r0]
r1 == locals[x.r1]

IsOp(ops)  == instruction_ptr # NULL /\ x.op \in ops
GotoNext   == instruction_ptr' = instruction_ptr + 1
Set(r, v)  == locals' = [locals EXCEPT ![r] = v]
At(p)      == Text[p - Name(Text[1]) + 1]   \* the text at p

\* OP_FFRAME: zeroed registers, the arguments from register 3 on.
Frame ==
  /\ IsOp({"FFRAME"})
  /\ locals' = [i \in 0..x.r0 |-> IF i - 2 \in DOMAIN Params THEN stack[i - 2] ELSE 0]
  /\ stack' = SubSeq(stack, Len(Params) + 1, Len(stack))
  /\ GotoNext /\ UNCHANGED <<fixed, outer, return_value>>

Mov ==
  /\ IsOp({"MOV", "MOV_NUMBER", "MOV_STR", "MOV_FNC"})
  /\ Set(x.r0, IF x.op = "MOV" THEN r1 ELSE x.r1)
  /\ GotoNext /\ UNCHANGED <<fixed, outer, stack, return_value>>

\* OP_INC and OP_DEC change the first register and copy it to the second.
IncDec ==
  /\ IsOp({"INC", "DEC"})
  /\ LET v == r0 + (IF x.op = "INC" THEN 1 ELSE -1)
     IN  locals' = [locals EXCEPT ![x.r0] = v, ![x.r1] = v]
  /\ GotoNext /\ UNCHANGED <<fixed, outer, stack, return_value>>

Arithmetic ==
  /\ IsOp({"ADD", "SUB", "MUL"})
  /\ Set(x.r2, CASE x.op = "ADD" -> r0 + r1 [] x.op = "SUB" -> r0 - r1 [] x.op = "MUL" -> r0 * r1)
  /\ GotoNext /\ UNCHANGED <<fixed, outer, stack, return_value>>

\* The outcome of a comparison, of OP_CMP_* or of a jump.
Compares(op, p, q) ==
  CASE op \in {"CMP_EQUAL", "JMP_EQUAL", "JMP_EQUAL_I"}                                  -> p = q
    [] op \in {"CMP_N_EQUAL", "JMP_N_EQUAL", "JMP_N_EQUAL_I"}                            -> p # q
    [] op \in {"CMP_LESS", "JMP_LESS", "JMP_LESS_I"}                                     -> p < q
    [] op \in {"CMP_GREATER", "JMP_GREATER", "JMP_GREATER_I"}                            -> p > q
    [] op \in {"CMP_LESS_OR_EQUAL", "JMP_LESS_OR_EQUAL", "JMP_LESS_OR_EQUAL_I"}          -> p <= q
    [] op \in {"CMP_GREATER_OR_EQUAL", "JMP_GREATER_OR_EQUAL", "JMP_GREATER_OR_EQUAL_I"} -> p >= q

Compare ==
  /\ IsOp(Comparisons)
  /\ Set(x.r2, IF Compares(x.op, r0, r1) THEN 1 ELSE 0)
  /\ GotoNext /\ UNCHANGED <<fixed, outer, stack, return_value>>

Goto(taken, target) ==
  /\ instruction_ptr' = IF taken THEN target ELSE instruction_ptr + 1
  /\ UNCHANGED <<fixed, locals, outer, stack, return_value>>

Jump ==
  \/ IsOp({"JMP"})            /\ Goto(TRUE, x.r0)
  \/ IsOp({"JMP_TRUE"})       /\ Goto(r0 # 0, x.r1)
  \/ IsOp({"JMP_NOT_TRUE"})   /\ Goto(r0 = 0, x.r1)
  \/ IsOp(CompareAndJump)     /\ Goto(Compares(x.op, r0, r1), x.r2)
  \/ IsOp({Immediate[o] : o \in CompareAndJump}) /\ Goto(Compares(x.op, r0, x.r1), x.r2)

\* OP_GET_FIELD_IMMEDIATE and OP_SET_FIELD with `this': a name of an outer scope.
GetField ==
  /\ IsOp({"GET_FIELD_IMMEDIATE"})
  /\ Set(x.r2, outer[At(x.r1)])
  /\ GotoNext /\ UNCHANGED <<fixed, outer, stack, return_value>>

SetField ==
  /\ IsOp({"SET_FIELD"})
  /\ outer' = [outer EXCEPT ![At(r1)] = locals[x.r2]]
  /\ GotoNext /\ UNCHANGED <<fixed, locals, stack, return_value>>

Push ==
  /\ IsOp({"PUSH"})
  /\ stack' = <<r0>> \o stack
  /\ GotoNext /\ UNCHANGED <<fixed, locals, outer, return_value>>

\* OP_CALL of the outer function: it takes its arguments from the stack.
Call ==
  /\ IsOp({"CALL"})
  /\ r0 = Name(Native)
  /\ Set(x.r1, External(stack[1], stack[2]))
  /\ stack' = SubSeq(stack, x.r2 + 1, Len(stack))
  /\ GotoNext /\ UNCHANGED <<fixed, outer, return_value>>

Return ==
  /\ IsOp({"RETURN"})
  /\ return_value' = r0
  /\ instruction_ptr' = NULL
  /\ UNCHANGED <<fixed, locals, outer, stack>>

Next == Frame \/ Mov \/ IncDec \/ Arithmetic \/ Compare \/ Jump \/ GetField \/ SetField \/ Push \/ Call \/ Return

Spec == Init /\ [][Next]_vars /\ WF_vars(Next)

-----------------------------------------------------------------------------
(* Properties *)

Returned == instruction_ptr = NULL

\* The variables that a body names, as the machine has them.
Observed == ToSet(Params) \cup (ToSet(Outer) \ {Native})
Value(n) == IF n \in Local THEN locals[Reg(n)] ELSE outer[n]

L == INSTANCE Language
AtFirst == [n \in Observed |-> IF n \in Local THEN FirstArgument + (CHOOSE i \in DOMAIN Params : Params[i] = n)
                                              ELSE FirstOuter]

\* When the code of a function returns, the variables and the returned value are
\* those that its source means, with and without the optimizer: temporary
\* registers are not shared by two values that live together, the fused compares
\* and jumps decide like the separate ones, arguments arrive in their order
\* (AstGenerator.cpp, ExprssionCompiler.cpp, FunctionKind.cpp, BytecodeOptimizer.cpp).
ComputesMeaning ==
  Returned /\ L!AsWritten(body) /\ L!PlainBody(visitBody(body)) =>
    LET m == L!Meaning(AtFirst, body)
    IN  /\ \A n \in Observed : Value(n) = m.env[n]
        /\ m.way = "return" => return_value = m.val
        /\ stack = <<>>

\* Whatever the source, every instruction finds its registers in the frame that
\* OP_FFRAME made and its jump lands on an instruction of the same function
\* (Compiler.cpp:103-113, Assembler.cpp:93-142).
StaysInFrame ==
  /\ instruction_ptr \in DOMAIN code \cup {NULL}
  /\ ~ Returned /\ x.op # "FFRAME" => \A r \in
       CASE x.op \in {"JMP"}                                                     -> {}
         [] x.op \in {"MOV_NUMBER", "MOV_STR", "MOV_FNC", "JMP_TRUE", "JMP_NOT_TRUE", "PUSH", "RETURN"} -> {x.r0}
         [] x.op \in {"GET_FIELD_IMMEDIATE"}                                     -> {x.r0, x.r2}
         [] x.op \in {Immediate[o] : o \in CompareAndJump}                       -> {x.r0}
         [] x.op \in CompareAndJump \cup {"MOV", "INC", "DEC", "CALL"}           -> {x.r0, x.r1}
         [] OTHER                                                                -> {x.r0, x.r1, x.r2}
       : r \in DOMAIN locals

\* The code returns: loops of the source end in the code, too.
Returns == <>Returned
=============================================================================
