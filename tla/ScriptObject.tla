---------------------------- MODULE ScriptObject ----------------------------
(***************************************************************************)
(* An object of a script (TYPE_OBJ): object_new of src/interpreter/        *)
(* object.c, OP_GET_FIELD and OP_SET_FIELD of interpreter_dd.c on it, and  *)
(* its methods keys() and size() of native_functions.c.  Its properties    *)
(* are a Map; the list that keys() returns is kept in key_list_cache until *)
(* a property is set.                                                      *)
(***************************************************************************)
EXTENDS Map, FiniteSets

CONSTANTS
  PropertyNames,            \* not those of native functions: GET_FIELD finds these first
  Scalars,                  \* the values that scripts assign
  NativeSize, NativeKeys,   \* native_object_key_size, native_object_key_list
  Failed,                   \* the answer of an operation that throws
  MaxSets                   \* bound: assignments to properties

VARIABLES
  properties,
  key_list_cache,   \* NULL or the list object of the last keys()
  return_reg,       \* the register of the last answer
  sets              \* the number of assignments so far, for the bound

objectVars == <<properties, key_list_cache, return_reg, sets>>

BuiltIn == [k \in {"size", "keys"} |-> IF k = "size" THEN NativeSize ELSE NativeKeys]

ASSUME ObjectAssumption ==
  /\ {"size", "keys"} \subseteq PropertyNames /\ PropertyNames \subseteq Names
  /\ NULL \notin Scalars \cup {NativeSize, NativeKeys, Failed}
  /\ {NativeSize, NativeKeys} \cap Scalars = {}
  /\ NativeSize # NativeKeys
  /\ MaxSets \in Nat

ObjectNew == map_insert_non_enumerable(map_insert_non_enumerable(map_new, "size", NativeSize),
                                       "keys", NativeKeys)

ObjectInit ==
  /\ properties = ObjectNew
  /\ key_list_cache = NULL
  /\ return_reg = [op |-> "none", value |-> NULL]
  /\ sets = 0

\* A variant for the mutation runs: the cache is left as it is.
SetPropertyCached(k, v) ==
  /\ sets < MaxSets
  /\ properties' = map_insert(properties, k, v)
  /\ sets' = sets + 1
  /\ UNCHANGED <<return_reg, key_list_cache>>

\* OP_SET_FIELD
SetProperty(k, v) ==
  /\ sets < MaxSets
  /\ properties' = map_insert(properties, k, v)
  /\ key_list_cache' = NULL
  /\ sets' = sets + 1
  /\ UNCHANGED return_reg

\* OP_GET_FIELD; it throws "cannot read property".
GetProperty(k) ==
  /\ return_reg' = [op |-> "get", value |-> IF map_has(properties, k) THEN map_get(properties, k) ELSE Failed]
  /\ UNCHANGED <<properties, key_list_cache, sets>>

\* OP_CALL of what GET_FIELD found; it throws "callee is not a function".
CallFails(name, native) ==
  /\ map_get(properties, name) # native
  /\ return_reg' = [op |-> "call", value |-> Failed]
  /\ UNCHANGED <<properties, key_list_cache, sets>>

\* native_object_key_list: the new list is made immutable.
KeyListObject == [is_immutable |-> TRUE, items |-> map_key_list(properties)]

CallKeys ==
  \/ /\ map_get(properties, "keys") = NativeKeys
     /\ key_list_cache' = IF key_list_cache = NULL THEN KeyListObject ELSE key_list_cache
     /\ return_reg' = [op |-> "keys", value |-> key_list_cache'.items]
     /\ UNCHANGED <<properties, sets>>
  \/ CallFails("keys", NativeKeys)

\* native_object_key_size
CallSize ==
  \/ /\ map_get(properties, "size") = NativeSize
     /\ return_reg' = [op |-> "size", value |-> properties.size]
     /\ UNCHANGED <<properties, key_list_cache, sets>>
  \/ CallFails("size", NativeSize)

\* An assignment to an item of the list that keys() returned.
SetKeyListItem(p, v) ==
  /\ key_list_cache # NULL
  /\ p \in DOMAIN key_list_cache.items
  /\ key_list_cache' = IF key_list_cache.is_immutable
                         THEN key_list_cache ELSE [key_list_cache EXCEPT !.items[p] = v]
  /\ UNCHANGED <<properties, return_reg, sets>>

ObjectNext ==
  \/ \E k \in PropertyNames, v \in Scalars : SetProperty(k, v)
  \/ \E k \in PropertyNames : GetProperty(k)
  \/ CallKeys
  \/ CallSize
  \/ \E p \in Listed(properties), v \in Scalars : SetKeyListItem(p, v)

ObjectSpec == ObjectInit /\ [][ObjectNext]_objectVars

-----------------------------------------------------------------------------
(* Properties *)

\* The keys that count: the enumerable ones that are no built-in names.
Counted == {k \in Names \ DOMAIN BuiltIn :
              map_has(properties, k) /\ ENUMERABLE \in map_get_flags(properties, k)}

\* The map of an object is well formed, with room for at most twice its keys; an
\* entry is enumerable if and only if a script assigned it; size counts the
\* entries that keys() lists, except overwritten built-in names, which are listed
\* and not counted (map.c:52-77, arraylist.c:42-63).
ObjectOK ==
  /\ IsMap(properties, Scalars \cup {NativeSize, NativeKeys})
  /\ ~ properties.is_immutable
  /\ map_has(properties, "size") /\ map_has(properties, "keys")
  /\ \A k \in Names : map_has(properties, k) => k \in PropertyNames
  /\ \A k \in Names : map_has(properties, k) =>
       (ENUMERABLE \in map_get_flags(properties, k) <=> map_get(properties, k) \in Scalars)
  /\ \A k \in Names : map_has(properties, k) /\ map_get(properties, k) \notin Scalars =>
       k \in DOMAIN BuiltIn /\ map_get(properties, k) = BuiltIn[k]
  /\ IsFiniteSet(Counted) /\ properties.size = Cardinality(Counted)
  /\ sets \in 0..MaxSets

\* The list that keys() would return from its cache is the one it would make:
\* setting a property "must invalidate key cache" (test_scripts/operators.zs;
\* interpreter_dd.c:847-850, native_functions.c:128-149).
KeyCacheFresh == key_list_cache # NULL => key_list_cache = KeyListObject

(* The dictionary that an object implements: what scripts assigned, and the last answer. *)

assignedBar == [k \in PropertyNames |-> IF map_get(properties, k) \in Scalars THEN map_get(properties, k) ELSE NULL]
answerBar == [op    |-> return_reg.op,
              value |-> CASE return_reg.op = "keys" -> {return_reg.value[p] : p \in DOMAIN return_reg.value}
                          [] return_reg.op = "size" -> NULL
                          [] OTHER                  -> return_reg.value,
              count |-> CASE return_reg.op = "keys" -> Cardinality(DOMAIN return_reg.value)
                          [] return_reg.op = "size" -> return_reg.value
                          [] OTHER                  -> 0]

Dict == INSTANCE Dictionary WITH Names <- PropertyNames, Values <- Scalars, Thrown <- Failed,
                                 assigned <- assignedBar, answer <- answerBar

\* An object is a dictionary of the values assigned to it, whatever the bags of
\* its map look like and whichever calls of keys() came between
\* (interpreter_dd.c:667-788, 789-866, native_functions.c:128-149).
ObjectIsDictionary == Dict!Spec
=============================================================================
