------------------------------ MODULE MapProof -------------------------------
(***************************************************************************)
(* Lemmas about the array lists and hash maps of ArrayList and Map, for    *)
(* all keys, values, hash functions and numbers of bags.                   *)
(***************************************************************************)
EXTENDS Map, TLAPS

(***************************************************************************)
(* Lists                                                                   *)
(***************************************************************************)

\* A new list is an empty list (arraylist.c:15-32).
LEMMA NewIsList ==
  ASSUME NEW Items
  PROVE  IsList(arraylist_new, Items) /\ arraylist_new.size = 0
BY DEF IsList, arraylist_new, ARRAY_LIST_INITIAL_CAPACITY

\* After the check for room there is room, and the items in use are where they were
\* (arraylist.c:42-50, 55-66, 79-86).
LEMMA RoomIsThere ==
  ASSUME NEW Items, NEW l, IsList(l, Items)
  PROVE  LET r == WithRoom(l)
         IN  /\ r.size = l.size /\ r.top = l.size
             /\ r.capacity \in Nat /\ r.size < r.capacity
             /\ r.data \in [0..(r.capacity - 1) -> Items \cup {Unset}]
             /\ \A i \in 0..(l.size - 1) : r.data[i] = l.data[i] /\ r.data[i] \in Items
             /\ ARRAY_LIST_INITIAL_CAPACITY <= r.capacity
             /\ r.capacity = ARRAY_LIST_INITIAL_CAPACITY \/ r.capacity <= 2 * l.size
<1>1. CASE l.size >= l.capacity
  <2>1. WithRoom(l) = extend_capacity(l)
    BY <1>1 DEF WithRoom
  <2>2. l.size = l.capacity /\ l.size \in Nat /\ l.capacity \in Nat /\ 3 <= l.capacity
    BY <1>1 DEF IsList, ARRAY_LIST_INITIAL_CAPACITY
  <2>3. \A i \in 0..(2 * l.capacity - 1) : i < l.size => l.data[i] \in Items
    BY <2>2 DEF IsList
  <2>. DEFINE r == WithRoom(l)
  <2>4. /\ r.size = l.size /\ r.top = l.size /\ r.capacity = 2 * l.capacity
        /\ r.data = [i \in 0..(2 * l.capacity - 1) |-> IF i < l.size THEN l.data[i] ELSE Unset]
    BY <2>1 DEF extend_capacity
  <2>. HIDE DEF r
  <2>5. \A i \in 0..(l.size - 1) : r.data[i] = l.data[i] /\ r.data[i] \in Items
    BY <2>2, <2>3, <2>4
  <2>6. r.data \in [0..(r.capacity - 1) -> Items \cup {Unset}]
    BY <2>3, <2>4
  <2>7. r.capacity \in Nat /\ r.size < r.capacity /\ 3 <= r.capacity /\ r.capacity <= 2 * l.size
    BY <2>2, <2>4
  <2>. QED
    BY <2>4, <2>5, <2>6, <2>7 DEF r, ARRAY_LIST_INITIAL_CAPACITY
<1>2. CASE ~ (l.size >= l.capacity)
  BY <1>2 DEF WithRoom, IsList
<1>. QED
  BY <1>1, <1>2

\* A push adds its item after the others (arraylist.c:42-50).
LEMMA PushIsList ==
  ASSUME NEW Items, NEW l, IsList(l, Items), NEW item \in Items
  PROVE  LET p == arraylist_push(l, item)
         IN  /\ IsList(p, Items)
             /\ p.size = l.size + 1
             /\ p.data[l.size] = item
             /\ \A i \in 0..(l.size - 1) : p.data[i] = l.data[i]
<1>. DEFINE r == WithRoom(l)
            p == arraylist_push(l, item)
<1>1. /\ r.size = l.size /\ r.top = l.size
      /\ r.capacity \in Nat /\ r.size < r.capacity
      /\ r.data \in [0..(r.capacity - 1) -> Items \cup {Unset}]
      /\ \A i \in 0..(l.size - 1) : r.data[i] = l.data[i] /\ r.data[i] \in Items
      /\ ARRAY_LIST_INITIAL_CAPACITY <= r.capacity
      /\ r.capacity = ARRAY_LIST_INITIAL_CAPACITY \/ r.capacity <= 2 * l.size
  BY RoomIsThere
<1>2. l.size \in Nat
  BY DEF IsList
<1>3. p = [size |-> r.size + 1, capacity |-> r.capacity, top |-> r.top + 1, data |-> [r.data EXCEPT ![r.top] = item]]
  BY DEF arraylist_push
<1>4. /\ p.size = l.size + 1 /\ p.top = l.size + 1 /\ p.capacity = r.capacity
      /\ p.data = [r.data EXCEPT ![l.size] = item]
      /\ p = [size |-> p.size, capacity |-> p.capacity, top |-> p.top, data |-> p.data]
  BY <1>1, <1>3
<1>. HIDE DEF r, p
<1>5. l.size \in 0..(r.capacity - 1)
  BY <1>1, <1>2
<1>6. p.data[l.size] = item /\ \A i \in 0..(l.size - 1) : p.data[i] = l.data[i] /\ p.data[i] \in Items
  BY <1>1, <1>2, <1>4, <1>5
<1>7. p.data \in [0..(p.capacity - 1) -> Items \cup {Unset}]
  BY <1>1, <1>4, <1>5
<1>8. \A i \in 0..(p.size - 1) : p.data[i] \in Items
  BY <1>2, <1>4, <1>6
<1>9. IsList(p, Items)
  BY <1>1, <1>2, <1>4, <1>7, <1>8 DEF IsList
<1>. QED
  BY <1>4, <1>6, <1>9 DEF p

\* A set replaces the item at its place only (arraylist.c:55-66).
LEMMA SetIsList ==
  ASSUME NEW Items, NEW l, IsList(l, Items), NEW item \in Items, NEW index \in 0..(l.size - 1)
  PROVE  LET p == arraylist_set(l, item, index)
         IN  /\ IsList(p, Items)
             /\ p.size = l.size
             /\ p.data[index] = item
             /\ \A i \in 0..(l.size - 1) : i # index => p.data[i] = l.data[i]
<1>. DEFINE r == WithRoom(l)
            p == arraylist_set(l, item, index)
<1>1. /\ r.size = l.size /\ r.top = l.size
      /\ r.capacity \in Nat /\ r.size < r.capacity
      /\ r.data \in [0..(r.capacity - 1) -> Items \cup {Unset}]
      /\ \A i \in 0..(l.size - 1) : r.data[i] = l.data[i] /\ r.data[i] \in Items
      /\ ARRAY_LIST_INITIAL_CAPACITY <= r.capacity
      /\ r.capacity = ARRAY_LIST_INITIAL_CAPACITY \/ r.capacity <= 2 * l.size
  BY RoomIsThere
<1>2. l.size \in Nat
  BY DEF IsList
<1>3. p = [size |-> r.size, capacity |-> r.capacity, top |-> r.top, data |-> [r.data EXCEPT ![index] = item]]
  BY DEF arraylist_set
<1>4. /\ p.size = l.size /\ p.top = l.size /\ p.capacity = r.capacity
      /\ p.data = [r.data EXCEPT ![index] = item]
      /\ p = [size |-> p.size, capacity |-> p.capacity, top |-> p.top, data |-> p.data]
  BY <1>1, <1>3
<1>. HIDE DEF r, p
<1>5. index \in 0..(r.capacity - 1)
  BY <1>1, <1>2
<1>6. p.data[index] = item /\ \A i \in 0..(l.size - 1) : i # index => p.data[i] = l.data[i]
  BY <1>1, <1>2, <1>4, <1>5
<1>7. p.data \in [0..(p.capacity - 1) -> Items \cup {Unset}]
  BY <1>1, <1>4, <1>5
<1>8. \A i \in 0..(p.size - 1) : p.data[i] \in Items
  BY <1>1, <1>2, <1>4, <1>5
<1>9. IsList(p, Items)
  BY <1>1, <1>2, <1>4, <1>7, <1>8 DEF IsList
<1>. QED
  BY <1>4, <1>6, <1>9 DEF p

(***************************************************************************)
(* Lookups                                                                 *)
(***************************************************************************)

\* Key k is at place i of its bag.
At(m, k, i) == /\ Hash[k] \in DOMAIN m.keys
               /\ i \in 0..(m.keys[Hash[k]].size - 1)
               /\ m.keys[Hash[k]].data[i] = k

\* A key is found at the only place where it is (map.c:79-98).
LEMMA Found ==
  ASSUME NEW Vals, NEW m, IsMap(m, Vals), NEW k \in Names, NEW i, At(m, k, i)
  PROVE  /\ map_has(m, k)
         /\ Place(m.keys[Hash[k]], k) = i
         /\ map_get(m, k) = m.values[Hash[k]].data[i]
         /\ map_get_flags(m, k) = m.flags[Hash[k]].data[i]
         /\ map_get(m, k) \in Vals
         /\ map_get_flags(m, k) \in Flags
<1>. DEFINE b == Hash[k]
            kbag == m.keys[b]
<1>1. b \in DOMAIN m.keys /\ IsBag(b, kbag, m.values[b], m.flags[b], Vals)
  BY DEF At, IsMap
<1>2. i \in 0..(kbag.size - 1) /\ kbag.data[i] = k
  BY DEF At
<1>3. \A j \in 0..(kbag.size - 1) : kbag.data[j] = k => j = i
  BY <1>1, <1>2 DEF IsBag
<1>. kbag.size \in Nat
  <2>1. IsList(kbag, Names)
    BY <1>1 DEF IsBag
  <2>. QED
    BY <2>1 DEF IsList
<1>. HIDE DEF kbag
<1>4. IsPlace(kbag, k, i)
  BY <1>2, <1>3 DEF IsPlace
<1>5. \A j : IsPlace(kbag, k, j) => j = i
  BY <1>3 DEF IsPlace
<1>6. Place(kbag, k) = i
  BY <1>2, <1>4, <1>5 DEF Place
<1>7. map_has(m, k)
  BY <1>1, <1>2, <1>4 DEF map_has, kbag
<1>8. m.values[b].data[i] \in Vals /\ m.flags[b].data[i] \in Flags
  BY <1>1, <1>2 DEF IsBag, IsList, kbag
<1>. QED
  BY <1>6, <1>7, <1>8 DEF kbag, map_get, map_get_flags, arraylist_get

\* A key that the map has is at some place.
LEMMA HasPlace ==
  ASSUME NEW m, NEW k \in Names, map_has(m, k)
  PROVE  \E i : At(m, k, i)
BY DEF map_has, IsPlace, At

(***************************************************************************)
(* Insertion                                                               *)
(***************************************************************************)

\* What an insertion of value and flag for key makes of map m: map n has key, with
\* the value and the flag, and nothing else is different.
Inserted(m, n, key, value, flag, Vals) ==
  /\ IsMap(n, Vals) /\ ~ n.is_immutable
  /\ n.size = m.size + (IF ~ map_has(m, key) /\ ENUMERABLE \in flag THEN 1 ELSE 0)
  /\ \A k \in Names : map_has(n, k) <=> k = key \/ map_has(m, k)
  /\ map_get(n, key) = value /\ map_get_flags(n, key) = flag
  /\ \A k \in Names : k # key => /\ map_get(n, k) = map_get(m, k)
                                 /\ map_get_flags(n, k) = map_get_flags(m, k)

\* A key that the map does not have is nowhere (map.c:79-98).
LEMMA NotFound ==
  ASSUME NEW m, NEW k \in Names, ~ map_has(m, k)
  PROVE  map_get(m, k) = NULL /\ map_get_flags(m, k) = {}
BY DEF map_get, map_get_flags

\* Both lists get their item at the place of the key, the others stay
\* (map.c:52-77).
LEMMA OverwriteInserts ==
  ASSUME NEW Vals, NEW m, IsMap(m, Vals), ~ m.is_immutable,
         NEW key \in Names, map_has(m, key), NEW value \in Vals, NEW flag \in Flags
  PROVE  Inserted(m, Overwrite(m, Hash[key], key, value, flag), key, value, flag, Vals)
<1>. DEFINE b == Hash[key]
            n == Overwrite(m, b, key, value, flag)
<1>1. PICK i : At(m, key, i)
  BY HasPlace
<1>2. Place(m.keys[b], key) = i
  BY <1>1, Found
<1>3. b \in DOMAIN m.keys /\ i \in 0..(m.keys[b].size - 1) /\ m.keys[b].data[i] = key
  BY <1>1 DEF At
<1>. DEFINE vb == arraylist_set(m.values[b], value, i)
            fb == arraylist_set(m.flags[b], flag, i)
<1>4. /\ n = [size |-> n.size, is_immutable |-> n.is_immutable, keys |-> n.keys, values |-> n.values, flags |-> n.flags]
      /\ n.size = m.size /\ n.is_immutable = m.is_immutable /\ n.keys = m.keys
      /\ n.values = [m.values EXCEPT ![b] = vb]
      /\ n.flags = [m.flags EXCEPT ![b] = fb]
  BY <1>2 DEF Overwrite
<1>5. IsBag(b, m.keys[b], m.values[b], m.flags[b], Vals)
  BY <1>3 DEF IsMap
<1>6. /\ IsList(vb, Vals) /\ vb.size = m.keys[b].size /\ vb.data[i] = value
      /\ \A j \in 0..(m.keys[b].size - 1) : j # i => vb.data[j] = m.values[b].data[j]
  BY <1>3, <1>5, SetIsList DEF IsBag
<1>7. /\ IsList(fb, Flags) /\ fb.size = m.keys[b].size /\ fb.data[i] = flag
      /\ \A j \in 0..(m.keys[b].size - 1) : j # i => fb.data[j] = m.flags[b].data[j]
  BY <1>3, <1>5, SetIsList DEF IsBag
<1>. HIDE DEF n, vb, fb
<1>8. IsBag(b, m.keys[b], vb, fb, Vals)
  BY <1>5, <1>6, <1>7 DEF IsBag
<1>9. /\ n.values = [c \in DOMAIN m.keys |-> IF c = b THEN vb ELSE m.values[c]]
      /\ n.flags = [c \in DOMAIN m.keys |-> IF c = b THEN fb ELSE m.flags[c]]
  <2>1. m.values = [c \in DOMAIN m.keys |-> m.values[c]] /\ m.flags = [c \in DOMAIN m.keys |-> m.flags[c]]
    BY DEF IsMap
  <2>. QED
    BY <1>4, <2>1
<1>10. \A c \in DOMAIN m.keys : IsBag(c, n.keys[c], n.values[c], n.flags[c], Vals)
  BY <1>3, <1>4, <1>8, <1>9 DEF IsMap
<1>11. IsMap(n, Vals) /\ ~ n.is_immutable
  <2>1. m.size \in Nat /\ m.is_immutable \in BOOLEAN /\ DOMAIN m.keys \subseteq Bags /\ m.keys = [c \in DOMAIN m.keys |-> m.keys[c]]
    BY DEF IsMap
  <2>2. n.keys = [c \in DOMAIN n.keys |-> n.keys[c]] /\ DOMAIN n.keys \subseteq Bags /\ n.size \in Nat /\ n.is_immutable \in BOOLEAN
    BY <1>4, <2>1
  <2>3. n.values = [c \in DOMAIN n.keys |-> n.values[c]] /\ n.flags = [c \in DOMAIN n.keys |-> n.flags[c]]
    BY <1>4, <1>9
  <2>. QED
    BY <1>4, <1>10, <2>2, <2>3 DEF IsMap
<1>12. \A k, j : At(n, k, j) <=> At(m, k, j)
  BY <1>4 DEF At
<1>13. \A k \in Names : map_has(n, k) <=> map_has(m, k)
  BY <1>11, <1>12, Found, HasPlace
<1>14. map_get(n, key) = value /\ map_get_flags(n, key) = flag
  <2>1. At(n, key, i)
    BY <1>1, <1>12
  <2>. QED
    BY <1>3, <1>6, <1>7, <1>9, <1>11, <2>1, Found
<1>15. ASSUME NEW k \in Names, k # key
       PROVE  map_get(n, k) = map_get(m, k) /\ map_get_flags(n, k) = map_get_flags(m, k)
  <2>1. CASE map_has(m, k)
    <3>1. PICK j : At(m, k, j)
      BY <2>1, HasPlace
    <3>2. At(n, k, j)
      BY <1>12, <3>1
    <3>3. /\ map_get(m, k) = m.values[Hash[k]].data[j] /\ map_get_flags(m, k) = m.flags[Hash[k]].data[j]
          /\ map_get(n, k) = n.values[Hash[k]].data[j] /\ map_get_flags(n, k) = n.flags[Hash[k]].data[j]
      BY <1>11, <3>1, <3>2, Found
    <3>4. Hash[k] \in DOMAIN m.keys /\ j \in 0..(m.keys[Hash[k]].size - 1) /\ (Hash[k] = b => j # i)
      BY <1>3, <1>15, <3>1 DEF At
    <3>5. CASE Hash[k] = b
      BY <1>6, <1>7, <1>9, <3>3, <3>4, <3>5
    <3>6. CASE Hash[k] # b
      BY <1>9, <3>3, <3>4, <3>6
    <3>. QED
      BY <3>5, <3>6
  <2>2. CASE ~ map_has(m, k)
    BY <1>13, <2>2, NotFound
  <2>. QED
    BY <2>1, <2>2
<1>16. n.size = m.size + (IF ~ map_has(m, key) /\ ENUMERABLE \in flag THEN 1 ELSE 0)
  <2>1. m.size \in Nat
    BY DEF IsMap
  <2>. QED
    BY <1>4, <2>1
<1>. QED
  BY <1>11, <1>13, <1>14, <1>15, <1>16 DEF Inserted, n

\* What a push of item into the list of bag b makes of the lists: list b has the
\* item after its size others, and no other list is different.
Pushed(lists, new, b, size, item, Items) ==
  /\ DOMAIN new = DOMAIN lists \cup {b}
  /\ new = [c \in DOMAIN new |-> new[c]]
  /\ \A c \in DOMAIN lists : c # b => new[c] = lists[c]
  /\ IsList(new[b], Items)
  /\ new[b].size = size + 1 /\ size \in Nat
  /\ new[b].data[size] = item
  /\ \A i \in 0..(size - 1) : new[b].data[i] = lists[b].data[i]

\* A push into one of the lists of bags opens the list if it is not there, and
\* changes no other list (map.c:44-50, 69-75).
LEMMA PushIntoPushes ==
  ASSUME NEW Items, NEW lists, NEW b, NEW item \in Items, lists = [c \in DOMAIN lists |-> lists[c]],
         b \in DOMAIN lists => IsList(lists[b], Items),
         NEW size, size = IF b \in DOMAIN lists THEN lists[b].size ELSE 0
  PROVE  Pushed(lists, PushInto(lists, b, item), b, size, item, Items)
<1>. DEFINE old  == IF b \in DOMAIN lists THEN lists[b] ELSE arraylist_new
            new  == PushInto(lists, b, item)
<1>1. IsList(old, Items) /\ old.size = size
  BY NewIsList
<1>2. DOMAIN new = DOMAIN lists \cup {b} /\ new = [c \in DOMAIN new |-> new[c]] /\ new[b] = arraylist_push(old, item)
  BY DEF PushInto
<1>3. \A c \in DOMAIN lists : c # b => new[c] = lists[c]
  BY DEF PushInto
<1>4. /\ IsList(new[b], Items) /\ new[b].size = size + 1 /\ new[b].data[size] = item
      /\ \A i \in 0..(size - 1) : new[b].data[i] = old.data[i]
  BY <1>1, <1>2, PushIsList
<1>5. size \in Nat
  BY <1>1 DEF IsList
<1>6. \A i \in 0..(size - 1) : b \in DOMAIN lists
  BY SMT
<1>. QED
  BY <1>2, <1>3, <1>4, <1>5, <1>6 DEF Pushed

\* The three lists of the bag get their item at the same place, the other bags stay
\* (map.c:52-77).
LEMMA AddInserts ==
  ASSUME NEW Vals, NEW m, IsMap(m, Vals), ~ m.is_immutable,
         NEW key \in Names, ~ map_has(m, key), NEW value \in Vals, NEW flag \in Flags
  PROVE  Inserted(m, Add(m, Hash[key], key, value, flag), key, value, flag, Vals)
<1>. DEFINE b == Hash[key]
            n == Add(m, b, key, value, flag)
            s == IF b \in DOMAIN m.keys THEN m.keys[b].size ELSE 0
<1>1. b \in Bags
  BY MapAssumption
<1>2. /\ n = [size |-> n.size, is_immutable |-> n.is_immutable, keys |-> n.keys, values |-> n.values, flags |-> n.flags]
      /\ n.size = m.size + (IF ENUMERABLE \in flag THEN 1 ELSE 0) /\ n.is_immutable = m.is_immutable
      /\ n.keys = PushInto(m.keys, b, key) /\ n.values = PushInto(m.values, b, value)
      /\ n.flags = PushInto(m.flags, b, flag)
  BY DEF Add
<1>3. /\ m.keys = [c \in DOMAIN m.keys |-> m.keys[c]] /\ m.values = [c \in DOMAIN m.values |-> m.values[c]]
      /\ m.flags = [c \in DOMAIN m.flags |-> m.flags[c]]
      /\ DOMAIN m.values = DOMAIN m.keys /\ DOMAIN m.flags = DOMAIN m.keys /\ DOMAIN m.keys \subseteq Bags
      /\ m.size \in Nat /\ m.is_immutable \in BOOLEAN
  BY DEF IsMap
<1>4. \A c \in DOMAIN m.keys : IsBag(c, m.keys[c], m.values[c], m.flags[c], Vals)
  BY DEF IsMap
<1>5. b \in DOMAIN m.keys => /\ IsList(m.keys[b], Names) /\ IsList(m.values[b], Vals) /\ IsList(m.flags[b], Flags)
                           /\ m.values[b].size = s /\ m.flags[b].size = s
  BY <1>4 DEF IsBag
<1>6. /\ DOMAIN n.keys = DOMAIN m.keys \cup {b} /\ n.keys = [c \in DOMAIN n.keys |-> n.keys[c]]
      /\ \A c \in DOMAIN m.keys : c # b => n.keys[c] = m.keys[c]
      /\ IsList(n.keys[b], Names) /\ n.keys[b].size = s + 1 /\ s \in Nat /\ n.keys[b].data[s] = key
      /\ \A i \in 0..(s - 1) : n.keys[b].data[i] = m.keys[b].data[i]
  <2>1. s = IF b \in DOMAIN m.keys THEN m.keys[b].size ELSE 0
    OBVIOUS
  <2>. HIDE DEF s
  <2>2. Pushed(m.keys, n.keys, b, s, key, Names)
    BY <1>2, <1>3, <1>5, <2>1, PushIntoPushes
  <2>. QED
    BY <2>2 DEF Pushed
<1>7. /\ DOMAIN n.values = DOMAIN m.keys \cup {b} /\ n.values = [c \in DOMAIN n.values |-> n.values[c]]
      /\ \A c \in DOMAIN m.keys : c # b => n.values[c] = m.values[c]
      /\ IsList(n.values[b], Vals) /\ n.values[b].size = s + 1 /\ n.values[b].data[s] = value
      /\ \A i \in 0..(s - 1) : n.values[b].data[i] = m.values[b].data[i]
  <2>1. s = IF b \in DOMAIN m.values THEN m.values[b].size ELSE 0
    BY <1>3, <1>5
  <2>2. b \in DOMAIN m.values => IsList(m.values[b], Vals)
    BY <1>3, <1>5
  <2>. HIDE DEF s
  <2>3. Pushed(m.values, n.values, b, s, value, Vals)
    BY <1>2, <1>3, <2>1, <2>2, PushIntoPushes
  <2>. QED
    BY <1>3, <2>3 DEF Pushed
<1>8. /\ DOMAIN n.flags = DOMAIN m.keys \cup {b} /\ n.flags = [c \in DOMAIN n.flags |-> n.flags[c]]
      /\ \A c \in DOMAIN m.keys : c # b => n.flags[c] = m.flags[c]
      /\ IsList(n.flags[b], Flags) /\ n.flags[b].size = s + 1 /\ n.flags[b].data[s] = flag
      /\ \A i \in 0..(s - 1) : n.flags[b].data[i] = m.flags[b].data[i]
  <2>1. s = IF b \in DOMAIN m.flags THEN m.flags[b].size ELSE 0
    BY <1>3, <1>5
  <2>2. b \in DOMAIN m.flags => IsList(m.flags[b], Flags)
    BY <1>3, <1>5
  <2>. HIDE DEF s
  <2>3. Pushed(m.flags, n.flags, b, s, flag, Flags)
    BY <1>2, <1>3, <2>1, <2>2, PushIntoPushes
  <2>. QED
    BY <1>3, <2>3 DEF Pushed
<1>9. \A i \in 0..(s - 1) : b \in DOMAIN m.keys
  BY SMT
<1>10. \A i \in 0..(s - 1) : Hash[m.keys[b].data[i]] = b /\ m.keys[b].data[i] # key
  <2>1. SUFFICES ASSUME NEW i \in 0..(s - 1)
                 PROVE  Hash[m.keys[b].data[i]] = b /\ m.keys[b].data[i] # key
    OBVIOUS
  <2>2. b \in DOMAIN m.keys /\ s = m.keys[b].size
    BY <1>9
  <2>3. Hash[m.keys[b].data[i]] = b
    BY <1>4, <2>2 DEF IsBag
  <2>4. At(m, key, i) => map_has(m, key)
    BY Found
  <2>. QED
    BY <2>2, <2>3, <2>4 DEF At
<1>11. \A i, j \in 0..(s - 1) : m.keys[b].data[i] = m.keys[b].data[j] => i = j
  <2>1. b \in DOMAIN m.keys => \A i, j \in 0..(m.keys[b].size - 1) : m.keys[b].data[i] = m.keys[b].data[j] => i = j
    BY <1>4 DEF IsBag
  <2>. QED
    BY <1>9, <2>1
<1>. HIDE DEF n, s
<1>12. IsBag(b, n.keys[b], n.values[b], n.flags[b], Vals)
  <2>1. \A i \in 0..s : i \in 0..(s - 1) \/ i = s
    BY <1>6
  <2>2. \A i \in 0..s : Hash[n.keys[b].data[i]] = b
    BY <1>6, <1>10, <2>1
  <2>3. \A i, j \in 0..s : n.keys[b].data[i] = n.keys[b].data[j] => i = j
    BY <1>6, <1>10, <1>11, <2>1
  <2>4. 0..(n.keys[b].size - 1) = 0..s
    BY <1>6
  <2>. QED
    BY <1>6, <1>7, <1>8, <2>2, <2>3, <2>4 DEF IsBag
<1>13. \A c \in DOMAIN n.keys : IsBag(c, n.keys[c], n.values[c], n.flags[c], Vals)
  BY <1>4, <1>6, <1>7, <1>8, <1>12
<1>14. IsMap(n, Vals) /\ ~ n.is_immutable
  <2>1. n.size \in Nat /\ DOMAIN n.keys \subseteq Bags
    BY <1>1, <1>2, <1>3, <1>6
  <2>. QED
    BY <1>2, <1>3, <1>6, <1>7, <1>8, <1>13, <2>1 DEF IsMap
<1>15. \A k \in Names : \A j : At(n, k, j) <=> At(m, k, j) \/ (k = key /\ j = s)
  <2>1. SUFFICES ASSUME NEW k \in Names, NEW j
                 PROVE  At(n, k, j) <=> At(m, k, j) \/ (k = key /\ j = s)
    OBVIOUS
  <2>2. CASE Hash[k] # b
    BY <1>6, <2>2 DEF At
  <2>3. CASE Hash[k] = b
    <3>1. At(n, k, j) <=> j \in 0..s /\ n.keys[b].data[j] = k
      BY <1>6, <2>3 DEF At
    <3>2. At(m, k, j) <=> j \in 0..(s - 1) /\ m.keys[b].data[j] = k
      BY <1>9, <2>3 DEF At, s
    <3>3. j \in 0..s <=> j \in 0..(s - 1) \/ j = s
      BY <1>6
    <3>. QED
      BY <1>6, <1>10, <3>1, <3>2, <3>3
  <2>. QED
    BY <2>2, <2>3
<1>16. \A k \in Names : map_has(n, k) <=> k = key \/ map_has(m, k)
  BY <1>14, <1>15, Found, HasPlace
<1>17. map_get(n, key) = value /\ map_get_flags(n, key) = flag
  <2>1. At(n, key, s)
    BY <1>15
  <2>. QED
    BY <1>7, <1>8, <1>14, <2>1, Found
<1>18. ASSUME NEW k \in Names, k # key
       PROVE  map_get(n, k) = map_get(m, k) /\ map_get_flags(n, k) = map_get_flags(m, k)
  <2>1. CASE map_has(m, k)
    <3>1. PICK j : At(m, k, j)
      BY <2>1, HasPlace
    <3>2. At(n, k, j)
      BY <1>15, <3>1
    <3>3. /\ map_get(m, k) = m.values[Hash[k]].data[j] /\ map_get_flags(m, k) = m.flags[Hash[k]].data[j]
          /\ map_get(n, k) = n.values[Hash[k]].data[j] /\ map_get_flags(n, k) = n.flags[Hash[k]].data[j]
      BY <1>14, <3>1, <3>2, Found
    <3>4. Hash[k] \in DOMAIN m.keys /\ j \in 0..(m.keys[Hash[k]].size - 1)
      BY <3>1 DEF At
    <3>5. CASE Hash[k] = b
      <4>1. j \in 0..(s - 1)
        BY <3>4, <3>5 DEF s
      <4>. QED
        BY <1>7, <1>8, <3>3, <3>5, <4>1
    <3>6. CASE Hash[k] # b
      BY <1>7, <1>8, <3>3, <3>4, <3>6
    <3>. QED
      BY <3>5, <3>6
  <2>2. CASE ~ map_has(m, k)
    BY <1>16, <1>18, <2>2, NotFound
  <2>. QED
    BY <2>1, <2>2
<1>. QED
  BY <1>2, <1>14, <1>16, <1>17, <1>18 DEF Inserted, n

\* An insertion inserts (map.c:52-77).
LEMMA MapInsert ==
  ASSUME NEW Vals, NEW m, IsMap(m, Vals), ~ m.is_immutable,
         NEW key \in Names, NEW value \in Vals, NEW flag \in Flags
  PROVE  Inserted(m, map_insert_flags(m, key, value, flag), key, value, flag, Vals)
BY OverwriteInserts, AddInserts DEF map_insert_flags

\* A new map is an empty map (map.c:31-42).
LEMMA NewIsMap ==
  ASSUME NEW Vals
  PROVE  IsMap(map_new, Vals) /\ map_new.size = 0 /\ ~ map_new.is_immutable
         /\ \A k \in Names : ~ map_has(map_new, k)
<1>1. map_new.keys = [b \in DOMAIN map_new.keys |-> map_new.keys[b]]
      /\ map_new.values = [b \in DOMAIN map_new.keys |-> map_new.values[b]]
      /\ map_new.flags = [b \in DOMAIN map_new.keys |-> map_new.flags[b]]
      /\ DOMAIN map_new.keys = {}
  BY DEF map_new
<1>. QED
  BY <1>1 DEF map_new, map_has, IsMap

\* A map of some values is a map of more values.
LEMMA MapWidens ==
  ASSUME NEW Vals, NEW More, Vals \subseteq More, NEW m, IsMap(m, Vals)
  PROVE  IsMap(m, More)
<1>1. ASSUME NEW b \in DOMAIN m.keys
      PROVE  IsBag(b, m.keys[b], m.values[b], m.flags[b], More)
  <2>1. IsBag(b, m.keys[b], m.values[b], m.flags[b], Vals)
    BY DEF IsMap
  <2>2. IsList(m.values[b], Vals)
    BY <2>1 DEF IsBag
  <2>3. IsList(m.values[b], More)
    BY <2>2 DEF IsList
  <2>. QED
    BY <2>1, <2>3 DEF IsBag
<1>. QED
  BY <1>1 DEF IsMap
=============================================================================
