------------------------------ MODULE Container ------------------------------
(***************************************************************************)
(* What the containers of src/data have in common.  They hold pointers the *)
(* caller gives them and know them only through the functions the caller   *)
(* passes to the constructor: a key accessor, a hash and a comparator.     *)
(* Their operations hold the container's mutex from the first access to    *)
(* the last, so each is one step, whichever thread calls it; a module says *)
(* so where an operation does not.                                         *)
(***************************************************************************)
EXTENDS Integers, Sequences, FiniteSets, Functions

CONSTANTS
  Element,    \* the pointers stored
  Key,        \* what the key accessor returns
  KeyOf,      \* the key accessor
  HashOf,     \* the hash function, as the signed number the probes take
  Rank,       \* an element's place in the order of the comparator
  Transform,  \* the functions given to the map operations
  Thread,     \* the threads, where an operation takes more than one step
  Size,       \* the size given to the constructor
  Nodes,      \* how many list nodes the allocator has to give
  Null,       \* no element
  Tombstone,  \* the mark of a slot whose element was removed
  Nothing     \* the answer of an operation that fails

ASSUME SizeAssumption == Size \in Nat /\ Size >= 1
ASSUME NodesAssumption == Nodes \in Nat /\ Null \notin 1..Nodes
ASSUME ElementAssumption ==
  /\ Null \notin Element
  /\ Tombstone \notin Element \cup {Null}
  /\ KeyOf \in [Element -> Key]
  /\ HashOf \in [Key -> Int]
  /\ Rank \in [Element -> Int]
  /\ Transform \subseteq [Element -> Element]

(* Arrays are indexed from 0. *)
Slot == 0..Size - 1

(* What a loop over s, from the first to the last, makes of x; a function  *)
(* of the number of its turns.                                             *)
Through(Turn(_, _), x, s) ==
  LET after[n \in 0..Len(s)] == IF n = 0 THEN x ELSE Turn(after[n - 1], s[n])
  IN  after[Len(s)]

(* The rows one after another, and a row from its end.                     *)
Flat(rows) == Through(LAMBDA all, row : all \o row, <<>>, rows)
Backwards(s) == [i \in 1..Len(s) |-> s[Len(s) + 1 - i]]

(* The hashes of the elements of s are combined with exclusive or: those   *)
(* that come an even number of times cancel.                               *)
Hashed(s) == {s[i] : i \in {j \in DOMAIN s : Cardinality({k \in DOMAIN s : s[k] = s[j]}) % 2 = 1}}

=============================================================================
