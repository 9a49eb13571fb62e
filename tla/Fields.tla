-------------------------------- MODULE Fields --------------------------------
(***************************************************************************)
(* Names in the code of a class, as the compiler and the interpreter       *)
(* resolve them.  AddressCalculator.cpp gives the variables of a function  *)
(* registers; code of the function itself uses these, all other code asks  *)
(* by name: OP_GET_FIELD and OP_SET_FIELD of interpreter_dd.c search the   *)
(* symbol tables of the contexts from the running one outwards.  Code of   *)
(* other objects goes through interpreter_get_field_virtual and            *)
(* interpreter_set_field_virtual.                                          *)
(*                                                                         *)
(* The table that a context gets on its first lookup is a function of its  *)
(* code: SymbolTable.                                                      *)
(***************************************************************************)
EXTENDS Map, Sequences, SequencesExt, Chains

CONSTANTS
  Class,      \* the body of the class
  Params,     \* Params[f]: the parameters of function f, a sequence
  Variables,  \* Variables[f]: the variables of f in the order of the code, a sequence
  Nested,     \* Nested[f]: the functions written down in f
  Private,    \* the private variables and functions of the class
  Natives,    \* the names of the native functions
  Values,     \* the values that programs write, a sequence: each write takes the next one
  Thrown,
  Zero,       \* the register of a variable that was not assigned
  ShadowedThis,          \* programs say this.n where a function has a variable n, too
  Assignable,            \* the names that programs assign or call
  OutsideWrites,         \* those that code of another class assigns
  MaxContexts \* bound: the contexts of a run

Functions == DOMAIN Params

\* AddressCalculator: the symbols of a function, in the order of their registers
\* 1, 2, ...; the class has no register for its own name.
Symbols == [f \in Functions |->
              <<"this">> \o (IF f = Class THEN <<>> ELSE <<f>>)
                \o Params[f] \o Variables[f] \o SetToSeq(Nested[f])]
Own      == [f \in Functions |-> ToSet(Symbols[f])]
Register == [f \in Functions |-> [n \in Own[f] |-> CHOOSE i \in DOMAIN Symbols[f] : Symbols[f][i] = n]]
Bound    == [f \in Functions |-> Own[f] \ {"this"}]

\* A reference to function f that was made in context c.
FunctionRef(f, c) == [fn |-> f, parent |-> c]
FunctionRefs      == [fn : Functions, parent : Nat]

\* The programs considered: no function has two symbols of one name, or a symbol
\* with the name of a native function, and the values written are none of the references.
ASSUME FieldsAssumption ==
  /\ Class \in Functions /\ Functions \ {Class} \subseteq Names /\ "this" \in Names
  /\ Params \in [Functions -> Seq(Names)] /\ Variables \in [Functions -> Seq(Names)]
  /\ \A f \in Functions :
       /\ IsFiniteSet(Nested[f]) /\ Nested[f] \subseteq Functions \ {Class}
       /\ IsInjective(Symbols[f])
       /\ Own[f] \cap Natives = {}
  /\ Assignable \subseteq Names \ ({"this"} \cup Natives)
  /\ Values \in Seq(ToSet(Values))
  /\ \A v \in ToSet(Values) \cup {Zero, Thrown} : v \notin FunctionRefs /\ v \notin [class : Names] /\ v \notin [native : Names]
  /\ NULL \notin ToSet(Values) \cup {Zero} /\ NULL \notin [fn : Functions, outer : Nat] /\ NULL \notin [global : Names]
  /\ ShadowedThis \in BOOLEAN

SymbolFlags(f, n) == IF f = Class /\ n \in Private THEN {ENUMERABLE, PRIVATE} ELSE {ENUMERABLE}

build_symbol_table(f) ==
  LET built[i \in 0..Len(Symbols[f])] ==
        IF i = 0 THEN map_new
        ELSE map_insert_flags(built[i - 1], Symbols[f][i], i, SymbolFlags(f, Symbols[f][i]))
  IN  built[Len(Symbols[f])]

SymbolTable == [f \in Functions |-> build_symbol_table(f)]

-----------------------------------------------------------------------------
VARIABLES
  contexts,                \* the call contexts ever made; 0 is NULL
  current_context,
  synchronized_variables,  \* of the object's interpreter state, a map
  static_variables,        \* of the class, a map
  return_code,             \* of the object's interpreter state
  refused,                 \* the last SET_FIELD of code of another object has thrown
  writes                   \* how many of the Values were written

fieldVars == <<contexts, current_context, synchronized_variables, static_variables, return_code, refused, writes>>

\* The registers of the new context c of f when its body begins: FFRAME places
\* the arguments from register 3 on, the function stores a reference to itself,
\* and compileBody hoists the functions written down in it.  Each of these
\* references gets the new context as its parent.
Locals(f, c, args) ==
  [i \in 0..Len(Symbols[f]) |->
     CASE i > 0 /\ Symbols[f][i] \in Nested[f] \cup ({f} \ {Class}) -> FunctionRef(Symbols[f][i], c)
       [] i - 2 \in 1..Len(args)                                     -> args[i - 2]
       [] OTHER                                                      -> Zero]

NewContext(f, c, parent, caller, args) ==
  [fn |-> f, parent_context |-> parent, return_context |-> caller, locals |-> Locals(f, c, args)]

FieldsInit ==
  /\ contexts = <<NewContext(Class, 1, 0, 0, <<>>)>>
  /\ current_context = 1
  /\ synchronized_variables = map_new
  /\ static_variables = map_new
  /\ return_code = 0
  /\ refused = FALSE
  /\ writes = 0

Fn       == contexts[current_context].fn
Table(c) == SymbolTable[contexts[c].fn]
Root     == 1

Parent   == [c \in DOMAIN contexts |-> contexts[c].parent_context]

\* The nearest context, from c outwards, whose symbol table has the name; 0 if none.
Search(c, n) == Nearest(Parent, {d \in DOMAIN contexts : map_has(Table(d), n)}, c)

FieldIn(c, n) == contexts[c].locals[map_get(Table(c), n)]

\* OP_GET_FIELD with lookup object `this'.
GetThisField(n) ==
  LET c == Search(current_context, n)
  IN  IF n \in Natives                            THEN [native |-> n]
      ELSE IF c # 0                               THEN FieldIn(c, n)
      ELSE IF map_has(synchronized_variables, n)  THEN map_get(synchronized_variables, n)
      ELSE IF map_has(static_variables, n)        THEN map_get(static_variables, n)
      ELSE [class |-> n]

\* compileIdentifierImmediate: a register, or a lookup by name.
ValueOf(n) == IF n \in Own[Fn] THEN contexts[current_context].locals[Register[Fn][n]] ELSE GetThisField(n)

StoreAt(c, i, v) ==
  /\ contexts' = [contexts EXCEPT ![c].locals[i] = v]
  /\ UNCHANGED <<current_context, synchronized_variables, static_variables, return_code, refused>>

\* OP_SET_FIELD with lookup object `this': a name that no context has becomes a
\* synchronized variable.
SetThisField(n, v) ==
  LET c == Search(current_context, n)
  IN  IF c # 0 THEN StoreAt(c, map_get(Table(c), n), v)
      ELSE /\ synchronized_variables' = map_insert(synchronized_variables, n, v)
           /\ UNCHANGED <<contexts, current_context, static_variables, return_code, refused>>

NextValue == Values[writes + 1]
Writing   == writes < Len(Values) /\ writes' = writes + 1

\* `n = v', where v is computed in the register of n if it has one.
Assign(n, v) ==
  /\ Writing
  /\ IF n \in Own[Fn] THEN StoreAt(current_context, Register[Fn][n], v) ELSE SetThisField(n, v)

\* `n = m'; between two variables of the running function compileBinary emits
\* nothing at all (module Compiler).
Copy(n, m) == ~ (n \in Own[Fn] /\ m \in Own[Fn]) /\ Assign(n, ValueOf(m))

\* `this.n': register 1 of every function is `this', and GET_FIELD and SET_FIELD
\* search from the running context if their lookup object is in register 1.
SaysThis(n) == n \in Own[Class] /\ (ShadowedThis \/ Search(current_context, n) = Root)

SetThis(n, v) == SaysThis(n) /\ Writing /\ SetThisField(n, v)

\* A variant for the mutation runs: the scope of a function is the one it is called from.
CallFunctionFromScope(n, args) ==
  LET f == ValueOf(n)
      c == Len(contexts) + 1
  IN  /\ f \in FunctionRefs
      /\ Len(args) = Len(Params[f.fn])
      /\ c <= MaxContexts
      /\ IF args = <<>> THEN UNCHANGED writes ELSE Writing
      /\ contexts' = Append(contexts, NewContext(f.fn, c, current_context, current_context, args))
      /\ current_context' = c
      /\ UNCHANGED <<synchronized_variables, static_variables, return_code, refused>>

\* OP_CALL of a function of the same state, with OP_FFRAME and the stores that a
\* function begins with.
CallFunction(n, args) ==
  LET f == ValueOf(n)
      c == Len(contexts) + 1
  IN  /\ f \in FunctionRefs
      /\ Len(args) = Len(Params[f.fn])
      /\ c <= MaxContexts
      /\ IF args = <<>> THEN UNCHANGED writes ELSE Writing
      /\ contexts' = Append(contexts, NewContext(f.fn, c, f.parent, current_context, args))
      /\ current_context' = c
      /\ UNCHANGED <<synchronized_variables, static_variables, return_code, refused>>

Return ==
  /\ contexts[current_context].return_context # 0
  /\ current_context' = contexts[current_context].return_context
  /\ UNCHANGED <<contexts, synchronized_variables, static_variables, return_code, refused, writes>>

\* GET_FIELD and SET_FIELD on a class reference: the static variables.
GetStatic(n) == IF map_has(static_variables, n) THEN map_get(static_variables, n) ELSE Thrown

SetStatic(n, v) ==
  /\ Writing
  /\ static_variables' = map_insert(static_variables, n, v)
  /\ UNCHANGED <<contexts, current_context, synchronized_variables, return_code, refused>>

\* A variant for the mutation runs: private variables are not hidden.
GetOutsideOpen(n, other) == IF map_has(SymbolTable[Class], n) THEN FieldIn(Root, n) ELSE Thrown

\* interpreter_get_field_virtual; other: the code is of another class.
GetOutside(n, other) ==
  LET hidden == other /\ PRIVATE \in map_get_flags(SymbolTable[Class], n)
  IN  IF map_has(SymbolTable[Class], n) /\ ~ hidden THEN FieldIn(Root, n) ELSE Thrown

\* interpreter_set_field_virtual and the check of its result.  The error is
\* thrown on the state of the object, where nothing catches it; for a private
\* variable the function goes on and returns 0 all the same.
SetOutside(n, v, other) ==
  LET known  == map_has(SymbolTable[Class], n)
      hidden == other /\ PRIVATE \in map_get_flags(SymbolTable[Class], n)
  IN  /\ other => n \in OutsideWrites
      /\ Writing
      /\ return_code' = IF hidden \/ ~ known THEN 1 ELSE 0
      /\ IF known
           THEN contexts' = [contexts EXCEPT ![Root].locals[map_get(SymbolTable[Class], n)] = v]
           ELSE UNCHANGED contexts
      /\ refused' = ~ known
      /\ UNCHANGED <<current_context, synchronized_variables, static_variables>>

FieldsNext ==
  \/ Return
  \/ \E n \in Assignable :
       \/ CallFunction(n, <<>>)
       \/ /\ writes < Len(Values)
          /\ \/ Assign(n, NextValue) \/ SetThis(n, NextValue) \/ SetStatic(n, NextValue)
             \/ CallFunction(n, <<NextValue>>)
             \/ \E other \in BOOLEAN : SetOutside(n, NextValue, other)
             \/ \E m \in Assignable : Copy(n, m)

FieldsSpec == FieldsInit /\ [][FieldsNext]_fieldVars

-----------------------------------------------------------------------------
(* Properties *)

\* The activation that a function was written down in, as its references have
\* it: their parent, or the context where that one, an activation of the
\* function itself that made the reference, comes from.
Enclosing(f, c) == Nearest(Parent, {d \in DOMAIN contexts : contexts[d].fn # f}, c)

Meant(v)   == CASE v \in FunctionRefs     -> [fn |-> v.fn, outer |-> Enclosing(v.fn, v.parent)]
                [] v \in [class : Names]  -> [global |-> v.class]
                [] v \in [native : Names] -> [global |-> v.native]
                [] OTHER                  -> v
MeantIn(m) == [n \in Names |-> IF map_has(m, n) THEN Meant(map_get(m, n)) ELSE NULL]

Activations ==
  [c \in DOMAIN contexts |->
     [fn     |-> contexts[c].fn,
      outer  |-> Enclosing(contexts[c].fn, c),
      caller |-> contexts[c].return_context,
      vars   |-> [n \in Bound[contexts[c].fn] |->
                    Meant(contexts[c].locals[Register[contexts[c].fn][n]])]]]

\* The registers, symbol tables, parents and maps implement lexical scoping: in
\* every activation, recursive or of an escaped closure, each name denotes the
\* variable that the text says, whether it is reached through a register, a
\* symbol table or from outside (AddressCalculator.cpp, interpreter_dd.c:667-866,
\* 1105-1172, object.c:259-278).
Scopes == INSTANCE LexicalScopes WITH
  Declared <- Bound, Values <- ToSet(Values),
  activations <- Activations,
  running <- current_context,
  shared <- MeantIn(synchronized_variables),
  statics <- MeantIn(static_variables),
  refused <- refused
NamesAreLexical == Scopes!Spec

\* What a name reads as is what it means: code of a function through registers and
\* OP_GET_FIELD (interpreter_dd.c:667-788), code of the class through the static
\* variables, other objects through interpreter_get_field_virtual (1105-1134),
\* which hides private variables from other classes.
ReadsMean == \A n \in Names \ {"this"} :
  /\ Meant(ValueOf(n)) = Scopes!Meaning(n)
  /\ n \notin Natives => Meant(GetStatic(n)) = Scopes!StaticMeaning(n)
  /\ n \notin Natives => \A other \in BOOLEAN : Meant(GetOutside(n, other)) = Scopes!MeaningOutside(n, other)

\* `this.n' in a function of the class is the field n of the object: "notice that
\* this refers to the class itself" (README.md:27).
ThisIsTheObject == \A n \in Own[Class] : GetThisField(n) = contexts[Root].locals[Register[Class][n]]
=============================================================================
