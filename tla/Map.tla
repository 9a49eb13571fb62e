--------------------------------- MODULE Map ---------------------------------
(***************************************************************************)
(* The hash map of src/common/data_structures/map.c: MAP_BAG_SIZE bags,    *)
(* each with three lists side by side: keys, values and flags.             *)
(***************************************************************************)
EXTENDS ArrayList

CONSTANTS
  Names,          \* the strings used as keys
  MAP_BAG_SIZE,
  Hash,           \* get_hash
  NULL

Bags == 0..(MAP_BAG_SIZE - 1)

ASSUME MapAssumption ==
  /\ MAP_BAG_SIZE \in Nat \ {0}
  /\ Hash \in [Names -> Bags]

\* The flags of an entry, a set of bits.
ENUMERABLE == "enumerable"
PRIVATE    == "private"
Flags      == SUBSET {ENUMERABLE, PRIVATE}

\* A bag has no lists, and is in no DOMAIN, until its first key comes.
map_new ==
  [size |-> 0, is_immutable |-> FALSE,
   keys |-> [b \in {} |-> arraylist_new], values |-> [b \in {} |-> arraylist_new],
   flags |-> [b \in {} |-> arraylist_new]]

PushInto(lists, b, item) ==
  [c \in DOMAIN lists \cup {b} |->
     IF c # b THEN lists[c] ELSE arraylist_push(IF b \in DOMAIN lists THEN lists[b] ELSE arraylist_new, item)]

\* The place of a key in its bag's list of keys: the first one that holds it.
IsPlace(kbag, key, i) == i \in 0..(kbag.size - 1) /\ kbag.data[i] = key
                           /\ \A j \in 0..(i - 1) : kbag.data[j] # key
Place(kbag, key)      == CHOOSE i \in 0..(kbag.size - 1) : IsPlace(kbag, key, i)

map_has(m, key) == LET b == Hash[key]
                   IN  b \in DOMAIN m.keys /\ \E i \in 0..(m.keys[b].size - 1) : IsPlace(m.keys[b], key, i)

Overwrite(m, b, key, value, flag) ==
  LET i == Place(m.keys[b], key)
  IN  [size |-> m.size, is_immutable |-> m.is_immutable,
       keys   |-> m.keys,
       values |-> [m.values EXCEPT ![b] = arraylist_set(@, value, i)],
       flags  |-> [m.flags EXCEPT ![b] = arraylist_set(@, flag, i)]]

\* A variant for the mutation runs: every new key is counted.
AddCounted(m, b, key, value, flag) ==
  [size |-> m.size + 1,
   is_immutable |-> m.is_immutable,
   keys   |-> PushInto(m.keys, b, key),
   values |-> PushInto(m.values, b, value),
   flags  |-> PushInto(m.flags, b, flag)]

Add(m, b, key, value, flag) ==
  [size |-> m.size + (IF ENUMERABLE \in flag THEN 1 ELSE 0),
   is_immutable |-> m.is_immutable,
   keys   |-> PushInto(m.keys, b, key),
   values |-> PushInto(m.values, b, value),
   flags  |-> PushInto(m.flags, b, flag)]

map_insert_flags(m, key, value, flag) ==
  LET b == Hash[key]
  IN  IF m.is_immutable THEN m
      ELSE IF map_has(m, key) THEN Overwrite(m, b, key, value, flag)
      ELSE Add(m, b, key, value, flag)

map_insert(m, key, value)                == map_insert_flags(m, key, value, {ENUMERABLE})
map_insert_non_enumerable(m, key, value) == map_insert_flags(m, key, value, {})

\* A lookup; NULL if the key is not there.
map_get(m, key) ==
  LET b == Hash[key]
  IN  IF map_has(m, key) THEN arraylist_get(m.values[b], Place(m.keys[b], key)) ELSE NULL

map_get_flags(m, key) ==
  LET b == Hash[key]
  IN  IF map_has(m, key) THEN arraylist_get(m.flags[b], Place(m.keys[b], key)) ELSE {}

\* The list of the enumerable keys: bag after bag, each in the order of its list.
\* It is written as a function of the places it is collected from.
Places(m)       == UNION {{<<b, i>> : i \in 0..(m.keys[b].size - 1)} : b \in DOMAIN m.keys}
Listed(m)       == {p \in Places(m) : ENUMERABLE \in m.flags[p[1]].data[p[2]]}
map_key_list(m) == [p \in Listed(m) |-> m.keys[p[1]].data[p[2]]]

-----------------------------------------------------------------------------
\* A bag holds keys that hash to it, each once, with a value and flags for each.
IsBag(b, kbag, vbag, fbag, Vals) ==
  /\ IsList(kbag, Names) /\ IsList(vbag, Vals) /\ IsList(fbag, Flags)
  /\ vbag.size = kbag.size /\ fbag.size = kbag.size
  /\ \A i \in 0..(kbag.size - 1) : Hash[kbag.data[i]] = b
  /\ \A i, j \in 0..(kbag.size - 1) : kbag.data[i] = kbag.data[j] => i = j

IsMap(m, Vals) ==
  /\ m = [size |-> m.size, is_immutable |-> m.is_immutable,
          keys |-> m.keys, values |-> m.values, flags |-> m.flags]
  /\ m.size \in Nat
  /\ m.is_immutable \in BOOLEAN
  /\ DOMAIN m.keys \subseteq Bags
  /\ m.keys   = [b \in DOMAIN m.keys |-> m.keys[b]]
  /\ m.values = [b \in DOMAIN m.keys |-> m.values[b]]
  /\ m.flags  = [b \in DOMAIN m.keys |-> m.flags[b]]
  /\ \A b \in DOMAIN m.keys : IsBag(b, m.keys[b], m.values[b], m.flags[b], Vals)
=============================================================================
