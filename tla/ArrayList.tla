------------------------------ MODULE ArrayList ------------------------------
(***************************************************************************)
(* The array list of src/common/data_structures/arraylist.c: a block of    *)
(* memory with room for capacity items, the number of items in use, and a  *)
(* pointer to the place after the last one (here its index).               *)
(***************************************************************************)
EXTENDS Integers

CONSTANT Unset   \* what memory holds that was allocated and not yet written

ARRAY_LIST_INITIAL_CAPACITY == 3

arraylist_new ==
  [size |-> 0, capacity |-> ARRAY_LIST_INITIAL_CAPACITY, top |-> 0,
   data |-> [i \in 0..(ARRAY_LIST_INITIAL_CAPACITY - 1) |-> Unset]]

\* A variant for the mutation runs: the items are not copied to the new block.
extend_capacity_blank(l) ==
  [size |-> l.size, capacity |-> 2 * l.capacity, top |-> l.size,
   data |-> [i \in 0..(2 * l.capacity - 1) |-> Unset]]

extend_capacity(l) ==
  [size |-> l.size, capacity |-> 2 * l.capacity, top |-> l.size,
   data |-> [i \in 0..(2 * l.capacity - 1) |-> IF i < l.size THEN l.data[i] ELSE Unset]]

WithRoom(l) == IF l.size >= l.capacity THEN extend_capacity(l) ELSE l

arraylist_push(l, item) ==
  LET r == WithRoom(l)
  IN  [size |-> r.size + 1, capacity |-> r.capacity, top |-> r.top + 1,
       data |-> [r.data EXCEPT ![r.top] = item]]

\* Overwriting an item of a full list extends the list, too.
arraylist_set(l, item, index) ==
  LET r == WithRoom(l)
  IN  [size |-> r.size, capacity |-> r.capacity, top |-> r.top,
       data |-> [r.data EXCEPT ![index] = item]]

arraylist_get(l, index) == l.data[index]

-----------------------------------------------------------------------------
\* A well-formed list of Items: the items in use are written, top is the place
\* after the last one, and the block never has more than twice the room that the
\* items need.
IsList(l, Items) ==
  /\ l = [size |-> l.size, capacity |-> l.capacity, top |-> l.top, data |-> l.data]
  /\ l.capacity \in Nat
  /\ l.size \in 0..l.capacity
  /\ l.top = l.size
  /\ l.data \in [0..(l.capacity - 1) -> Items \cup {Unset}]
  /\ \A i \in 0..(l.size - 1) : l.data[i] \in Items
  /\ ARRAY_LIST_INITIAL_CAPACITY <= l.capacity
  /\ l.capacity = ARRAY_LIST_INITIAL_CAPACITY \/ l.capacity <= 2 * l.size
=============================================================================
