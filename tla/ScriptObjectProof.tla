-------------------------- MODULE ScriptObjectProof --------------------------
(***************************************************************************)
(* Proofs about ScriptObject, for all keys, values, hash functions and     *)
(* numbers of bags: the lists and the map stay well formed, the cached     *)
(* list of keys is never stale, and an object is a dictionary.             *)
(***************************************************************************)
EXTENDS ScriptObject, MapProof, FiniteSetTheorems, TLAPS

(***************************************************************************)
(* The object                                                              *)
(***************************************************************************)

ObjectValues == Scalars \cup {NativeSize, NativeKeys}

\* The properties of a new object: its two methods, neither counted nor listed
\* (native_functions.c:115-127).
LEMMA ObjectNewHas ==
  /\ IsMap(ObjectNew, ObjectValues) /\ ~ ObjectNew.is_immutable /\ ObjectNew.size = 0
  /\ \A k \in Names : map_has(ObjectNew, k) <=> k \in DOMAIN BuiltIn
  /\ \A k \in DOMAIN BuiltIn : map_get(ObjectNew, k) = BuiltIn[k] /\ map_get_flags(ObjectNew, k) = {}
<1>. DEFINE m1 == map_insert_flags(map_new, "size", NativeSize, {})
<1>1. {} \in Flags /\ NativeSize \in ObjectValues /\ NativeKeys \in ObjectValues /\ "size" \in Names /\ "keys" \in Names
  BY ObjectAssumption DEF Flags, ObjectValues
<1>2. Inserted(map_new, m1, "size", NativeSize, {}, ObjectValues)
  BY <1>1, NewIsMap, MapInsert
<1>3. Inserted(m1, ObjectNew, "keys", NativeKeys, {}, ObjectValues)
  <2>1. IsMap(m1, ObjectValues) /\ ~ m1.is_immutable
    BY <1>2 DEF Inserted
  <2>2. ObjectNew = map_insert_flags(m1, "keys", NativeKeys, {})
    BY DEF ObjectNew, map_insert_non_enumerable
  <2>. QED
    BY <1>1, <2>1, <2>2, MapInsert
<1>. HIDE DEF m1
<1>4. DOMAIN BuiltIn = {"size", "keys"} /\ BuiltIn["size"] = NativeSize /\ BuiltIn["keys"] = NativeKeys
  BY DEF BuiltIn
<1>5. \A k \in Names : map_has(ObjectNew, k) <=> k \in DOMAIN BuiltIn
  BY <1>2, <1>3, <1>4, NewIsMap DEF Inserted
<1>6. m1.size = 0 /\ ObjectNew.size = 0
  BY <1>2, <1>3, NewIsMap DEF Inserted
<1>. QED
  BY <1>1, <1>2, <1>3, <1>4, <1>5, <1>6 DEF Inserted

\* A fresh object is as ObjectOK says (native_functions.c:115-127).
LEMMA ObjectInitOK == ObjectInit => ObjectOK
<1>. SUFFICES ASSUME ObjectInit PROVE ObjectOK
  OBVIOUS
<1>1. properties = ObjectNew /\ sets = 0
  BY DEF ObjectInit
<1>2. DOMAIN BuiltIn = {"size", "keys"} /\ DOMAIN BuiltIn \subseteq PropertyNames /\ PropertyNames \subseteq Names
  BY ObjectAssumption DEF BuiltIn
<1>3. \A k \in DOMAIN BuiltIn : BuiltIn[k] \notin Scalars
  BY ObjectAssumption DEF BuiltIn
<1>4. Counted = {}
  BY <1>1, ObjectNewHas DEF Counted
<1>5. IsFiniteSet(Counted) /\ properties.size = Cardinality(Counted)
  BY <1>1, <1>4, ObjectNewHas, FS_EmptySet
<1>6. \A k \in Names : map_has(properties, k) =>
        /\ k \in PropertyNames
        /\ map_get(properties, k) = BuiltIn[k] /\ BuiltIn[k] \notin Scalars
        /\ map_get_flags(properties, k) = {}
  BY <1>1, <1>2, <1>3, ObjectNewHas
<1>7. map_has(properties, "size") /\ map_has(properties, "keys") /\ sets \in 0..MaxSets
  BY <1>1, <1>2, ObjectNewHas, ObjectAssumption
<1>8. IsMap(properties, Scalars \cup {NativeSize, NativeKeys}) /\ ~ properties.is_immutable
  BY <1>1, ObjectNewHas DEF ObjectValues
<1>9. \A k \in Names : map_has(properties, k) => k \in DOMAIN BuiltIn
  BY <1>1, ObjectNewHas
<1>. QED
  BY <1>5, <1>6, <1>7, <1>8, <1>9 DEF ObjectOK

\* An assignment inserts its property, enumerable (interpreter_dd.c:843-852).
LEMMA SetPropertyInserts ==
  ASSUME ObjectOK, NEW k \in PropertyNames, NEW v \in Scalars, SetProperty(k, v)
  PROVE  Inserted(properties, properties', k, v, {ENUMERABLE}, ObjectValues)
<1>1. {ENUMERABLE} \in Flags /\ v \in ObjectValues /\ k \in Names
  BY ObjectAssumption DEF Flags, ObjectValues
<1>2. IsMap(properties, ObjectValues) /\ ~ properties.is_immutable
  BY DEF ObjectOK, ObjectValues
<1>3. properties' = map_insert_flags(properties, k, v, {ENUMERABLE})
  BY DEF SetProperty, map_insert
<1>. QED
  BY <1>1, <1>2, <1>3, MapInsert

\* An assignment leaves the object as ObjectOK says: a name is counted when it
\* comes, and a method that is overwritten is listed from then on and never counted
\* (interpreter_dd.c:843-852, map.c:52-77).
LEMMA SetPropertyOK ==
  ASSUME ObjectOK, NEW k \in PropertyNames, NEW v \in Scalars, SetProperty(k, v)
  PROVE  ObjectOK'
<1>1. Inserted(properties, properties', k, v, {ENUMERABLE}, ObjectValues)
  BY SetPropertyInserts
<1>2. k \in Names
  BY ObjectAssumption
<1>3. /\ \A n \in Names : map_has(properties', n) <=> n = k \/ map_has(properties, n)
      /\ map_get(properties', k) = v /\ map_get_flags(properties', k) = {ENUMERABLE}
      /\ \A n \in Names : n # k => /\ map_get(properties', n) = map_get(properties, n)
                                   /\ map_get_flags(properties', n) = map_get_flags(properties, n)
      /\ IsMap(properties', ObjectValues) /\ ~ properties'.is_immutable
      /\ properties'.size = properties.size + (IF ~ map_has(properties, k) THEN 1 ELSE 0)
  BY <1>1 DEF Inserted
<1>4. /\ map_has(properties, "size") /\ map_has(properties, "keys")
      /\ \A n \in Names : map_has(properties, n) =>
           /\ n \in PropertyNames
           /\ ENUMERABLE \in map_get_flags(properties, n) <=> map_get(properties, n) \in Scalars
           /\ map_get(properties, n) \notin Scalars => n \in DOMAIN BuiltIn /\ map_get(properties, n) = BuiltIn[n]
      /\ IsFiniteSet(Counted) /\ properties.size = Cardinality(Counted)
      /\ sets \in 0..MaxSets
  BY DEF ObjectOK
<1>5. IsFiniteSet(Counted') /\ properties'.size = Cardinality(Counted')
  <2>1. Counted' = {n \in Names \ DOMAIN BuiltIn :
                      map_has(properties', n) /\ ENUMERABLE \in map_get_flags(properties', n)}
    BY DEF Counted, BuiltIn
  <2>2. CASE map_has(properties, k)
    <3>1. \A n \in Names \ DOMAIN BuiltIn :
            map_has(properties', n) /\ ENUMERABLE \in map_get_flags(properties', n)
              <=> map_has(properties, n) /\ ENUMERABLE \in map_get_flags(properties, n)
      BY <1>2, <1>3, <1>4, <2>2
    <3>2. Counted' = Counted
      BY <2>1, <3>1 DEF Counted
    <3>. QED
      BY <1>3, <1>4, <2>2, <3>2, FS_CardinalityType
  <2>3. CASE ~ map_has(properties, k)
    <3>1. k \notin DOMAIN BuiltIn /\ k \notin Counted
      BY <1>4, <2>3 DEF BuiltIn, Counted
    <3>2. Counted' = Counted \cup {k}
      BY <1>2, <1>3, <2>1, <3>1 DEF Counted
    <3>. QED
      BY <1>3, <1>4, <2>3, <3>1, <3>2, FS_AddElement
  <2>. QED
    BY <2>2, <2>3
<1>6. sets' \in 0..MaxSets
  BY <1>4, ObjectAssumption DEF SetProperty
<1>7. map_has(properties', "size") /\ map_has(properties', "keys")
  BY <1>3, <1>4, ObjectAssumption
<1>8. \A n \in Names : map_has(properties', n) =>
           /\ n \in PropertyNames
           /\ ENUMERABLE \in map_get_flags(properties', n) <=> map_get(properties', n) \in Scalars
           /\ map_get(properties', n) \notin Scalars => n \in DOMAIN BuiltIn /\ map_get(properties', n) = BuiltIn[n]
  BY <1>3, <1>4
<1>9. BuiltIn' = BuiltIn
  BY DEF BuiltIn
<1>. QED
  BY <1>3, <1>5, <1>6, <1>7, <1>8, <1>9 DEF ObjectOK, ObjectValues

\* Only an assignment touches the properties of an object.
LEMMA OnlySetPropertySets ==
  ASSUME [ObjectNext]_objectVars
  PROVE  \/ \E k \in PropertyNames, v \in Scalars : SetProperty(k, v)
         \/ UNCHANGED <<properties, sets>>
BY DEF ObjectNext, objectVars, GetProperty, CallKeys, CallSize, CallFails, SetKeyListItem

\* The map of every object is well formed, and its size counts what keys() lists,
\* except overwritten built-in names, for every hash function (map.c:52-77,
\* arraylist.c:42-63).
THEOREM ObjectInvariance == ObjectSpec => []ObjectOK
<1>1. ObjectOK /\ [ObjectNext]_objectVars => ObjectOK'
  <2>. SUFFICES ASSUME ObjectOK, [ObjectNext]_objectVars PROVE ObjectOK'
    OBVIOUS
  <2>1. CASE \E k \in PropertyNames, v \in Scalars : SetProperty(k, v)
    BY <2>1, SetPropertyOK
  <2>2. CASE UNCHANGED <<properties, sets>>
    BY <2>2 DEF ObjectOK, Counted, BuiltIn
  <2>. QED
    BY <2>1, <2>2, OnlySetPropertySets
<1>. QED
  BY <1>1, ObjectInitOK, PTL DEF ObjectSpec

\* The cached list of keys is never stale: setting a property invalidates it, and
\* nobody changes its items (interpreter_dd.c:847-850, native_functions.c:128-149).
THEOREM KeyCacheIsFresh == ObjectSpec => []KeyCacheFresh
<1>1. ObjectInit => KeyCacheFresh
  BY DEF ObjectInit, KeyCacheFresh
<1>2. KeyCacheFresh /\ [ObjectNext]_objectVars => KeyCacheFresh'
  <2>. SUFFICES ASSUME KeyCacheFresh, [ObjectNext]_objectVars PROVE KeyCacheFresh'
    OBVIOUS
  <2>. DEFINE Same == UNCHANGED properties /\ UNCHANGED key_list_cache
  <2>1. Same => KeyCacheFresh'
    BY DEF KeyCacheFresh, KeyListObject
  <2>2. ASSUME NEW k \in PropertyNames, NEW v \in Scalars, SetProperty(k, v) PROVE KeyCacheFresh'
    BY <2>2 DEF SetProperty, KeyCacheFresh
  <2>3. ASSUME NEW k \in PropertyNames, GetProperty(k) PROVE Same
    BY <2>3 DEF GetProperty
  <2>4. CASE CallKeys
    <3>1. CASE CallFails("keys", NativeKeys)
      BY <2>1, <3>1 DEF CallFails
    <3>2. CASE properties' = properties /\ key_list_cache' = IF key_list_cache = NULL THEN KeyListObject ELSE key_list_cache
      BY <3>2 DEF KeyCacheFresh, KeyListObject
    <3>. QED
      BY <2>4, <3>1, <3>2 DEF CallKeys
  <2>5. CASE CallSize
    BY <2>1, <2>5 DEF CallSize, CallFails
  <2>6. ASSUME NEW p \in Listed(properties), NEW v \in Scalars, SetKeyListItem(p, v) PROVE Same
    BY <2>6 DEF SetKeyListItem, KeyCacheFresh, KeyListObject
  <2>7. CASE UNCHANGED objectVars
    BY <2>1, <2>7 DEF objectVars
  <2>. QED
    BY <2>1, <2>2, <2>3, <2>4, <2>5, <2>6, <2>7 DEF ObjectNext
<1>. QED
  BY <1>1, <1>2, PTL DEF ObjectSpec

(***************************************************************************)
(* The dictionary                                                          *)
(***************************************************************************)

\* The names that a dictionary knows are the enumerable keys of the map, and those
\* that size counts are the ones that are no methods (native_functions.c:128-149).
LEMMA KnownAreListed ==
  ASSUME ObjectOK
  PROVE  /\ Dict!Known = {k \in Names : map_has(properties, k) /\ ENUMERABLE \in map_get_flags(properties, k)}
         /\ Dict!Known \ DOMAIN BuiltIn = Counted
         /\ IsFiniteSet(Dict!Known)
<1>1. PropertyNames \subseteq Names /\ NULL \notin Scalars /\ NULL \notin ObjectValues
  BY ObjectAssumption DEF ObjectValues
<1>2. \A k \in Names : map_has(properties, k) =>
        /\ k \in PropertyNames
        /\ ENUMERABLE \in map_get_flags(properties, k) <=> map_get(properties, k) \in Scalars
  BY DEF ObjectOK
<1>3. \A k \in Names : ~ map_has(properties, k) => map_get(properties, k) = NULL
  BY NotFound
<1>4. Dict!Known = {k \in PropertyNames : map_get(properties, k) \in Scalars}
  <2>1. \A k \in PropertyNames : assignedBar[k] # NULL <=> map_get(properties, k) \in Scalars
    BY <1>1 DEF assignedBar
  <2>. QED
    BY <2>1 DEF Dict!Known
<1>5. Dict!Known = {k \in Names : map_has(properties, k) /\ ENUMERABLE \in map_get_flags(properties, k)}
  BY <1>1, <1>2, <1>3, <1>4
<1>6. Dict!Known \ DOMAIN BuiltIn = Counted
  BY <1>5 DEF Counted
<1>7. IsFiniteSet(Dict!Known)
  <2>1. IsFiniteSet(Counted)
    BY DEF ObjectOK
  <2>2. IsFiniteSet((Counted \cup {"size"}) \cup {"keys"})
    BY <2>1, FS_AddElement
  <2>3. Dict!Known \in SUBSET ((Counted \cup {"size"}) \cup {"keys"})
    BY <1>6 DEF BuiltIn
  <2>. QED
    BY <2>2, <2>3, FS_Subset
<1>. QED
  BY <1>5, <1>6, <1>7

\* The list that keys() makes has every known name exactly once (map.c:100-113).
LEMMA KeyListLists ==
  ASSUME ObjectOK
  PROVE  LET items == map_key_list(properties)
         IN  /\ {items[p] : p \in DOMAIN items} = Dict!Known
             /\ Cardinality(DOMAIN items) = Cardinality(Dict!Known)
<1>. DEFINE items == map_key_list(properties)
            keys == properties.keys
            PlaceOf(k) == <<Hash[k], Place(keys[Hash[k]], k)>>
            places == [k \in Dict!Known |-> PlaceOf(k)]
<1>1. IsMap(properties, ObjectValues)
  BY DEF ObjectOK, ObjectValues
<1>2. DOMAIN items = Listed(properties) /\ \A p \in Listed(properties) : items[p] = keys[p[1]].data[p[2]]
  BY DEF map_key_list
<1>3. ASSUME NEW p \in Listed(properties)
      PROVE  items[p] \in Dict!Known /\ PlaceOf(items[p]) = p
  <2>1. PICK b, i : b \in DOMAIN keys /\ i \in 0..(keys[b].size - 1) /\ p = <<b, i>> /\ ENUMERABLE \in properties.flags[b].data[i]
    BY <1>3 DEF Listed, Places
  <2>2. keys[b].data[i] \in Names /\ Hash[keys[b].data[i]] = b
    BY <1>1, <2>1 DEF IsMap, IsBag, IsList
  <2>3. items[p] = keys[b].data[i]
    BY <1>2, <1>3, <2>1
  <2>4. At(properties, items[p], i)
    BY <2>1, <2>2, <2>3 DEF At
  <2>5. /\ map_has(properties, items[p]) /\ Place(keys[b], items[p]) = i
        /\ map_get_flags(properties, items[p]) = properties.flags[b].data[i]
    BY <1>1, <2>2, <2>3, <2>4, Found
  <2>. QED
    BY <2>1, <2>2, <2>3, <2>5, KnownAreListed
<1>4. ASSUME NEW k \in Dict!Known
      PROVE  PlaceOf(k) \in Listed(properties) /\ items[PlaceOf(k)] = k
  <2>1. k \in Names /\ map_has(properties, k) /\ ENUMERABLE \in map_get_flags(properties, k)
    BY <1>4, KnownAreListed
  <2>2. PICK i : At(properties, k, i)
    BY <2>1, HasPlace
  <2>3. Place(keys[Hash[k]], k) = i /\ map_get_flags(properties, k) = properties.flags[Hash[k]].data[i]
    BY <1>1, <2>1, <2>2, Found
  <2>4. Hash[k] \in DOMAIN keys /\ i \in 0..(keys[Hash[k]].size - 1) /\ keys[Hash[k]].data[i] = k
    BY <2>2 DEF At
  <2>5. <<Hash[k], i>> \in Listed(properties)
    BY <2>1, <2>3, <2>4 DEF Listed, Places
  <2>. QED
    BY <1>2, <2>3, <2>4, <2>5
<1>. HIDE DEF items, PlaceOf
<1>5. {items[p] : p \in DOMAIN items} = Dict!Known
  BY <1>2, <1>3, <1>4
<1>6. places \in Bijection(Dict!Known, Listed(properties))
  <2>1. places \in [Dict!Known -> Listed(properties)]
    BY <1>4
  <2>2. \A k, l \in Dict!Known : places[k] = places[l] => k = l
    BY <1>4
  <2>3. \A p \in Listed(properties) : \E k \in Dict!Known : places[k] = p
    BY <1>3
  <2>. HIDE DEF places
  <2>. QED
    BY <2>1, <2>2, <2>3 DEF Bijection, Injection, Surjection, IsInjective
<1>7. ExistsBijection(Dict!Known, Listed(properties))
  BY <1>6 DEF ExistsBijection
<1>8. Cardinality(Listed(properties)) = Cardinality(Dict!Known)
  BY <1>7, KnownAreListed, FS_Bijection
<1>. QED
  BY <1>2, <1>5, <1>8 DEF items

\* Dictionary and ScriptObject count with the same operator.
LEMMA SameCardinality == \A S : Dict!Cardinality(S) = Cardinality(S)
BY DEF Dict!Cardinality, Cardinality

\* What a property is to the dictionary (interpreter_dd.c:743-762).
LEMMA PropertyIsMapped ==
  ASSUME ObjectOK, NEW k \in PropertyNames
  PROVE  Dict!Property(k) = IF map_has(properties, k) THEN map_get(properties, k) ELSE Failed
<1>1. k \in Names /\ NULL \notin Scalars
  BY ObjectAssumption
<1>2. assignedBar[k] = IF map_get(properties, k) \in Scalars THEN map_get(properties, k) ELSE NULL
  BY DEF assignedBar
<1>3. CASE map_has(properties, k)
  <2>1. CASE map_get(properties, k) \in Scalars
    BY <1>1, <1>2, <1>3, <2>1 DEF Dict!Property
  <2>2. CASE map_get(properties, k) \notin Scalars
    <3>1. k \in DOMAIN BuiltIn /\ map_get(properties, k) = BuiltIn[k]
      BY <1>1, <1>3, <2>2 DEF ObjectOK
    <3>. QED
      BY <1>1, <1>2, <1>3, <2>2, <3>1 DEF Dict!Property
  <2>. QED
    BY <2>1, <2>2
<1>4. CASE ~ map_has(properties, k)
  <2>1. map_get(properties, k) = NULL
    BY <1>1, <1>4, NotFound
  <2>2. k \notin DOMAIN BuiltIn
    BY <1>4 DEF ObjectOK, BuiltIn
  <2>. QED
    BY <1>1, <1>2, <1>4, <2>1, <2>2 DEF Dict!Property
<1>. QED
  BY <1>3, <1>4

\* A method can be called until its name is assigned to (interpreter_dd.c:867-880).
LEMMA CallableIsMapped ==
  ASSUME ObjectOK, NEW k \in DOMAIN BuiltIn
  PROVE  Dict!Callable(k) <=> map_get(properties, k) = BuiltIn[k]
<1>1. k \in PropertyNames /\ k \in Names /\ NULL \notin Scalars /\ BuiltIn[k] \notin Scalars
  BY ObjectAssumption DEF BuiltIn
<1>2. assignedBar[k] = IF map_get(properties, k) \in Scalars THEN map_get(properties, k) ELSE NULL
  BY <1>1 DEF assignedBar
<1>3. map_has(properties, k)
  BY DEF ObjectOK, BuiltIn
<1>4. map_get(properties, k) \notin Scalars => map_get(properties, k) = BuiltIn[k]
  BY <1>1, <1>3 DEF ObjectOK
<1>. QED
  BY <1>1, <1>2, <1>4 DEF Dict!Callable

\* A call of what is no method is a failed call (interpreter_dd.c:955-957).
LEMMA FailureIsMapped ==
  ASSUME NEW name, NEW native, CallFails(name, native)
  PROVE  answerBar' = Dict!Failure /\ assignedBar' = assignedBar
<1>1. return_reg' = [op |-> "call", value |-> Failed] /\ properties' = properties
  BY DEF CallFails
<1>2. assignedBar' = assignedBar
  BY <1>1 DEF assignedBar
<1>3. answerBar' = [op |-> "call", value |-> Failed, count |-> 0]
  BY <1>1 DEF answerBar
<1>. QED
  BY <1>2, <1>3 DEF Dict!Failure

\* Each step of an object is a step of the dictionary, or none.
LEMMA DictionaryStep ==
  ASSUME ObjectOK, KeyCacheFresh, [ObjectNext]_objectVars
  PROVE  [Dict!Next]_<<assignedBar, answerBar>>
<1>. DEFINE Goal == [Dict!Next]_<<assignedBar, answerBar>>
<1>1. properties' = properties => assignedBar' = assignedBar
  BY DEF assignedBar
<1>2. return_reg' = return_reg => answerBar' = answerBar
  BY DEF answerBar
<1>3. DOMAIN BuiltIn = {"size", "keys"} /\ BuiltIn["size"] = NativeSize /\ BuiltIn["keys"] = NativeKeys
  BY DEF BuiltIn
<1>4. ASSUME NEW k \in PropertyNames, NEW v \in Scalars, SetProperty(k, v) PROVE Goal
  <2>1. Inserted(properties, properties', k, v, {ENUMERABLE}, ObjectValues)
    BY <1>4, SetPropertyInserts
  <2>2. map_get(properties', k) = v /\ \A n \in PropertyNames : n # k => map_get(properties', n) = map_get(properties, n)
    BY <2>1, ObjectAssumption DEF Inserted
  <2>3. assignedBar' = [assignedBar EXCEPT ![k] = v]
    BY <2>2 DEF assignedBar
  <2>4. answerBar' = answerBar
    BY <1>2, <1>4 DEF SetProperty
  <2>. QED
    BY <2>3, <2>4 DEF Dict!Next, Dict!Set
<1>5. ASSUME NEW k \in PropertyNames, GetProperty(k) PROVE Goal
  <2>1. answerBar' = [op |-> "get", value |-> IF map_has(properties, k) THEN map_get(properties, k) ELSE Failed, count |-> 0]
    BY <1>5 DEF GetProperty, answerBar
  <2>2. answerBar' = [op |-> "get", value |-> Dict!Property(k), count |-> 0]
    BY <2>1, PropertyIsMapped
  <2>3. assignedBar' = assignedBar
    BY <1>1, <1>5 DEF GetProperty
  <2>. QED
    BY <2>2, <2>3 DEF Dict!Next, Dict!Get
<1>6. CASE CallKeys
  <2>1. CASE CallFails("keys", NativeKeys)
    <3>1. ~ Dict!Callable("keys")
      BY <1>3, <2>1, CallableIsMapped DEF CallFails
    <3>2. Dict!Keys
      BY <2>1, <3>1, FailureIsMapped DEF Dict!Keys
    <3>. QED
      BY <3>2 DEF Dict!Next
  <2>2. CASE ~ CallFails("keys", NativeKeys)
    <3>1. /\ map_get(properties, "keys") = NativeKeys /\ properties' = properties
          /\ key_list_cache' = IF key_list_cache = NULL THEN KeyListObject ELSE key_list_cache
          /\ return_reg' = [op |-> "keys", value |-> key_list_cache'.items]
      BY <1>6, <2>2 DEF CallKeys
    <3>2. return_reg' = [op |-> "keys", value |-> map_key_list(properties)]
      BY <3>1 DEF KeyCacheFresh, KeyListObject
    <3>3. answerBar' = [op |-> "keys", value |-> Dict!Known, count |-> Cardinality(Dict!Known)]
      BY <3>2, KeyListLists DEF answerBar
    <3>4. Dict!Callable("keys")
      BY <1>3, <3>1, CallableIsMapped
    <3>5. Dict!Keys
      BY <1>1, <3>1, <3>3, <3>4, SameCardinality DEF Dict!Keys
    <3>. QED
      BY <3>5 DEF Dict!Next
  <2>. QED
    BY <2>1, <2>2
<1>7. CASE CallSize
  <2>1. CASE CallFails("size", NativeSize)
    <3>1. ~ Dict!Callable("size")
      BY <1>3, <2>1, CallableIsMapped DEF CallFails
    <3>2. Dict!Size
      BY <2>1, <3>1, FailureIsMapped DEF Dict!Size
    <3>. QED
      BY <3>2 DEF Dict!Next
  <2>2. CASE ~ CallFails("size", NativeSize)
    <3>1. /\ map_get(properties, "size") = NativeSize /\ properties' = properties
          /\ return_reg' = [op |-> "size", value |-> properties.size]
      BY <1>7, <2>2 DEF CallSize
    <3>2. properties.size = Cardinality(Dict!Known \ DOMAIN BuiltIn)
      BY KnownAreListed DEF ObjectOK
    <3>3. answerBar' = [op |-> "size", value |-> NULL, count |-> Cardinality(Dict!Known \ DOMAIN BuiltIn)]
      BY <3>1, <3>2 DEF answerBar
    <3>4. Dict!Callable("size")
      BY <1>3, <3>1, CallableIsMapped
    <3>5. Dict!Size
      BY <1>1, <3>1, <3>3, <3>4, SameCardinality DEF Dict!Size
    <3>. QED
      BY <3>5 DEF Dict!Next
  <2>. QED
    BY <2>1, <2>2
<1>8. ASSUME NEW p \in Listed(properties), NEW v \in Scalars, SetKeyListItem(p, v) PROVE Goal
  BY <1>1, <1>2, <1>8 DEF SetKeyListItem
<1>9. CASE UNCHANGED objectVars
  BY <1>1, <1>2, <1>9 DEF objectVars
<1>. QED
  BY <1>4, <1>5, <1>6, <1>7, <1>8, <1>9 DEF ObjectNext

\* An object implements the dictionary: every hash function, every order of calls
\* (interpreter_dd.c:667-866, native_functions.c:115-149, map.c).
THEOREM ObjectRefines == ObjectSpec => ObjectIsDictionary
<1>1. ObjectInit => Dict!Init
  <2>. SUFFICES ASSUME ObjectInit PROVE Dict!Init
    OBVIOUS
  <2>1. properties = ObjectNew /\ return_reg = [op |-> "none", value |-> NULL]
    BY DEF ObjectInit
  <2>2. \A k \in PropertyNames : map_get(properties, k) \notin Scalars
    <3>1. SUFFICES ASSUME NEW k \in PropertyNames PROVE map_get(properties, k) \notin Scalars
      OBVIOUS
    <3>2. k \in Names /\ NULL \notin Scalars
      BY ObjectAssumption
    <3>3. CASE k \in DOMAIN BuiltIn
      BY <2>1, <3>3, ObjectNewHas, ObjectAssumption DEF BuiltIn
    <3>4. CASE k \notin DOMAIN BuiltIn
      BY <2>1, <3>2, <3>4, ObjectNewHas, NotFound
    <3>. QED
      BY <3>3, <3>4
  <2>3. assignedBar = [k \in PropertyNames |-> NULL]
    BY <2>2 DEF assignedBar
  <2>4. answerBar = [op |-> "none", value |-> NULL, count |-> 0]
    BY <2>1 DEF answerBar
  <2>. QED
    BY <2>3, <2>4 DEF Dict!Init
<1>2. ObjectOK /\ KeyCacheFresh /\ [ObjectNext]_objectVars => [Dict!Next]_<<assignedBar, answerBar>>
  BY DictionaryStep
<1>. QED
  BY ObjectInvariance, KeyCacheIsFresh, <1>1, <1>2, PTL DEF ObjectIsDictionary, ObjectSpec, Dict!Spec, Dict!vars
=============================================================================
