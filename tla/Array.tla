-------------------------------- MODULE Array --------------------------------
(***************************************************************************)
(* src/data/array/array.c: an array that doubles when an addition fills    *)
(* it, so that the next element always has a place.  A negative index      *)
(* counts from the end.                                                    *)
(***************************************************************************)
EXTENDS Container

VARIABLES array, answer

vars == <<array, answer>>

(* p_p_elements is a function on the places allocated; with none of them   *)
(* it is the null pointer.                                                 *)
Unset == [s \in {} |-> Null]

Construct(n) == [count |-> 0, max |-> n, elements |-> [s \in 0..n - 1 |-> Null]]

(* The places up to n - 1, with what was there before. *)
Resized(d, n) == [s \in 0..n - 1 |-> IF s \in DOMAIN d THEN d[s] ELSE Null]

Place(i) == IF i >= 0 THEN i ELSE array.count - (-i)

(* The only check of an index. *)
Rejected(i) == array.count = 0 \/ array.count = IF i >= 0 THEN i ELSE -i

-----------------------------------------------------------------------------
(* Operations.  An index further out than the count is not checked and     *)
(* reaches outside the array: here callers use none.  The answer repeats   *)
(* the call, so that an element is known by the index it was asked with.   *)

Index == -array.count..array.count

Get(i) ==
  /\ ~Rejected(i)
  /\ answer' = <<"at", i, array.elements[Place(i)]>>
  /\ UNCHANGED array

Fails(i) ==
  /\ Rejected(i)
  /\ answer' = <<"refused", i>>
  /\ UNCHANGED array

Set(i, e) ==
  /\ ~Rejected(i)
  /\ array' = [array EXCEPT !.elements[Place(i)] = e]
  /\ answer' = <<"set", i, e>>

Stored(a, e) == [a EXCEPT !.elements[a.count] = e, !.count = @ + 1]

(* Mutant: grow only when the array is over full. *)
Added_Late(a, e) ==
  LET bigger == Stored(a, e)
  IN  IF bigger.count <= bigger.max THEN bigger
      ELSE [bigger EXCEPT !.max = 2 * @, !.elements = Resized(@, 2 * bigger.max)]

Added(a, e) ==
  LET bigger == Stored(a, e)
  IN  IF bigger.count < bigger.max THEN bigger
      ELSE [bigger EXCEPT !.max = 2 * @, !.elements = Resized(@, 2 * bigger.max)]

CountBound == array.count < Nodes

Add(e) ==
  /\ CountBound
  /\ array' = Added(array, e)
  /\ answer' = <<>>

(* Without memory to grow the pointer to the elements is overwritten.      *)
NoMemory(e) ==
  /\ CountBound
  /\ array.count + 1 >= array.max
  /\ array' = [array EXCEPT !.elements = Unset, !.count = @ + 1, !.max = 2 * @]
  /\ answer' = Nothing

(* Mutant: keep the element at the index. *)
Removed_ShiftAfter(a, p) ==
  [a EXCEPT !.count = @ - 1,
            !.elements = [s \in DOMAIN @ |-> IF s \in p + 1..a.count - 2 THEN @[s + 1] ELSE @[s]]]

Removed(a, p) ==
  [a EXCEPT !.count = @ - 1,
            !.elements = [s \in DOMAIN @ |-> IF s \in p..a.count - 2 THEN @[s + 1] ELSE @[s]]]

RemoveIndex(i) ==
  /\ ~Rejected(i)
  /\ answer' = <<"removed", i, array.elements[Place(i)]>>
  /\ array' = Removed(array, Place(i))

(* qsort: some permutation of the elements that the comparator agrees with. *)
Sort ==
  LET held == 0..array.count - 1
  IN  \E p \in [held -> held] :
        /\ IsInjective(p)
        /\ \A s \in 1..array.count - 1 :
             Rank[array.elements[p[s - 1]]] <= Rank[array.elements[p[s]]]
        /\ array' = [array EXCEPT !.elements =
             [s \in DOMAIN @ |-> IF s \in held THEN @[p[s]] ELSE @[s]]]
        /\ answer' = <<>>

(* With or without an allocator to release the elements replaced. *)
Map(f) ==
  /\ array' = [array EXCEPT !.elements =
       [s \in DOMAIN @ |-> IF s < array.count THEN f[@[s]] ELSE @[s]]]
  /\ answer' = <<>>

Contents(a) == [i \in 1..a.count |-> a.elements[i - 1]]

Hash(a) == Hashed(Contents(a))

(* array_get, array_fori, array_foreach and array_hash. *)
SeeAll ==
  /\ answer' \in {<<"all", Contents(array)>>, <<"hash", Hash(array)>>}
  /\ UNCHANGED array

(* array_destroy, and array_construct. *)
Renew ==
  /\ \E n \in 1..Nodes : array' = Construct(n)
  /\ answer' = <<"released", Contents(array)>>

Count == answer' = <<array.count>> /\ UNCHANGED array

(* The upper bound may be the count: one element more is copied.           *)
Slice(m, n) ==
  /\ answer' = <<"slice", m, n, [i \in 1..n - m + 1 |-> array.elements[m + i - 1]]>>
  /\ UNCHANGED array

-----------------------------------------------------------------------------

Pack(a) == Contents(a)

(* The new array has room for what is read, and doubles at the last; there *)
(* is no array of size 0.                                                  *)
Unpack(body) ==
  IF body = <<>> THEN [count |-> 0, max |-> 0, elements |-> Unset]
  ELSE Through(Added, Construct(Len(body)), body)

(* array_from_elements and array_from_arguments add to a new array. *)
Init ==
  /\ \E n \in 1..Nodes : array = Construct(n)
  /\ answer = <<>>

(* Nothing can be done with the null pointer. *)
Next ==
  /\ array.elements # Unset
  /\ \/ \E i \in Index : Get(i) \/ Fails(i) \/ RemoveIndex(i) \/ \E e \in Element : Set(i, e)
     \/ \E e \in Element : Add(e) \/ NoMemory(e)
     \/ \E f \in Transform : Map(f)
     \/ \E m \in 0..array.count : \E n \in m..array.count : Slice(m, n)
     \/ Sort \/ SeeAll \/ Count \/ Renew

Spec == Init /\ [][Next]_vars

-----------------------------------------------------------------------------
(* What may be relied on. *)

TypeOK ==
  /\ DOMAIN array = {"count", "max", "elements"}
  /\ array.count \in 0..Nodes
  /\ array.max \in Nat
  /\ \/ array.elements = Unset
     \/ array.elements \in [0..array.max - 1 -> Element \cup {Null}]

(* After every operation the next addition has a place, and what is        *)
(* counted are elements.                                                   *)
HasRoom == array.elements # Unset =>
  /\ array.count < array.max
  /\ \A s \in 0..array.count - 1 : array.elements[s] \in Element

(* A packed array unpacks to one with the same elements and room for more. *)
RoundTrip == array.elements # Unset /\ array.count > 0 =>
  LET copy == Unpack(Pack(array))
  IN  Contents(copy) = Contents(array) /\ copy.count < copy.max

Abs == INSTANCE AbstractSequence WITH items <- Contents(array), capacity <- array.max

(* What the code answers otherwise than array.h says: -count, the first    *)
(* element there, is refused here, and a slice up to the count ends with   *)
(* what the place behind the last element holds.                           *)
Differs ==
  \/ array.count > 0 /\ Fails(-array.count)
  \/ \E m \in 0..array.count : Slice(m, array.count)

=============================================================================
