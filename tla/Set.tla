--------------------------------- MODULE Set ---------------------------------
(***************************************************************************)
(* src/data/set/set.c: elements that the equality function tells apart, in *)
(* an array of the size given to the constructor.                          *)
(***************************************************************************)
EXTENDS Container

VARIABLES
  set,        \* max, count, elements and pfn_equality
  answer

vars == <<set, answer>>

(* The functions that tell elements apart: one that compares keys and, as  *)
(* all those of the repository's callers do, returns 0 for equal ones, and *)
(* default_equality, which returns 1 for the same pointer and 0 otherwise. *)
Equality == {"compare", "default"}

PfnEquality(f, x, y) ==
  IF f = "compare" THEN IF KeyOf[x] = KeyOf[y] THEN 0 ELSE 1
                   ELSE IF x = y THEN 1 ELSE 0

(* The set takes two elements for the same when its function returns 0. *)
Same(f, x, y) == PfnEquality(f, x, y) = 0

(* A set of no size cannot be constructed. *)
Construct(n, f) ==
  [max |-> n, count |-> 0, elements |-> [s \in 0..n - 1 |-> Null], pfn_equality |-> f]

(* The places with an element the set takes for e. *)
Equals(t, e) == {s \in 0..t.count - 1 : Same(t.pfn_equality, t.elements[s], e)}

Store(t, e) == [t EXCEPT !.elements[t.count] = e, !.count = @ + 1]

Added(t, e) == IF Equals(t, e) # {} THEN t ELSE Store(t, e)

(* Mutant: the last element is dropped without taking the place. *)
Vacate_DropLast(t, s) == [t EXCEPT !.elements[t.count - 1] = Null, !.count = @ - 1]

(* The last element takes the place of the one removed, and its own is     *)
(* cleared.                                                                *)
Vacate(t, s) ==
  [t EXCEPT !.elements = [x \in DOMAIN @ |-> IF x = t.count - 1 THEN Null
                                             ELSE IF x = s THEN @[t.count - 1] ELSE @[x]],
            !.count = @ - 1]

(* Without an equal element the one to remove is stored. *)
Removed(t, e) ==
  IF Equals(t, e) = {} THEN Store(t, e)
  ELSE Vacate(t, CHOOSE s \in Equals(t, e) : \A x \in Equals(t, e) : s <= x)

-----------------------------------------------------------------------------
(* Operations.  The size is not looked at: the callers keep to the one     *)
(* they gave, and take an element only out of a set that has one.          *)

HasRoom == set.count < set.max

Add(e) ==
  /\ HasRoom
  /\ set' = Added(set, e)
  /\ answer' = <<>>

RemoveElement(e) ==
  /\ HasRoom \/ Equals(set, e) # {}
  /\ set' = Removed(set, e)
  /\ answer' = <<>>

Pop ==
  /\ set.count > 0
  /\ set' = Vacate(set, set.count - 1)
  /\ answer' = <<set.elements[set.count - 1]>>

Contents(t) == [i \in 1..t.count |-> t.elements[i - 1]]

Hash(t) == Hashed(Contents(t))

(* set_contents, set_foreach_i, set_count and set_hash. *)
See ==
  /\ answer' \in {<<set.count>>, <<"all", Contents(set)>>, <<"hash", Hash(set)>>}
  /\ UNCHANGED set

(* set_destroy, which releases the array and not the elements, and         *)
(* set_construct for another of the same size.                             *)
Renew ==
  /\ set' = Construct(set.max, set.pfn_equality)
  /\ answer' = <<"released", <<>>>>

-----------------------------------------------------------------------------
(* Sets made of others.  They fail for want of an element, and when the    *)
(* two sets have different functions.                                      *)

FromElements(s, f) == IF s = <<>> THEN Nothing ELSE Through(Added, Construct(Len(s), f), s)

Combinable(a, b) == a.pfn_equality = b.pfn_equality /\ a.count + b.count > 0

Blank(a, b) == Construct(a.count + b.count, a.pfn_equality)

Union(a, b) ==
  IF Combinable(a, b) THEN Through(Added, Blank(a, b), Contents(a) \o Contents(b)) ELSE Nothing

(* The pairs of elements in the order of the two loops. *)
Pairs(a, b) ==
  Flat([i \in 1..a.count |-> [j \in 1..b.count |-> <<a.elements[i - 1], b.elements[j - 1]>>]])

(* The union, out of which each element of a goes that b has as well. *)
Difference(a, b) ==
  IF Combinable(a, b)
  THEN Through(LAMBDA t, p : IF Same(t.pfn_equality, p[1], p[2]) THEN Removed(t, p[1]) ELSE t,
               Union(a, b), Pairs(a, b))
  ELSE Nothing

Intersection(a, b) ==
  IF Combinable(a, b)
  THEN Through(LAMBDA t, p : IF Same(t.pfn_equality, p[1], p[2]) THEN Added(t, p[1]) ELSE t,
               Blank(a, b), Pairs(a, b))
  ELSE Nothing

(* set_unpack makes a set of what set_pack wrote, and none of an empty one.*)
Pack(t) == Contents(t)
Unpack(body, f) == IF body = <<>> THEN Null ELSE FromElements(body, f)

Others ==
  UNION {{Construct(1, f)} \cup {FromElements(s, f) : s \in UNION {[1..n -> Element] : n \in 1..2}} :
         f \in Equality}

(* A set from elements has the state its additions lead to from here. *)
Init ==
  /\ set \in {Construct(n, f) : n \in 1..Size, f \in Equality}
  /\ answer = <<>>

Next == Pop \/ See \/ Renew \/ \E e \in Element : Add(e) \/ RemoveElement(e)

Spec == Init /\ [][Next]_vars

-----------------------------------------------------------------------------
(* What may be relied on. *)

TypeOK == \E n \in 1..Size :
  set \in [max : {n}, count : 0..n, elements : [0..n - 1 -> Element \cup {Null}],
           pfn_equality : Equality]

(* No two elements of a set are equal, and a packed one unpacks to the     *)
(* same elements, unless there is none.                                    *)
Distinct(t) ==
  /\ \A i, j \in 1..t.count : Same(t.pfn_equality, Contents(t)[i], Contents(t)[j]) => i = j
  /\ t.count > 0 => Contents(Unpack(Pack(t), t.pfn_equality)) = Contents(t)

(* t holds the elements in S, and stays inside its array. *)
Holds(t, S) == Distinct(t) /\ Range(Contents(t)) = S /\ t.count <= t.max

(* Union, difference and intersection are what they are of sets, the       *)
(* difference being the symmetric one; where the sets have equal elements  *)
(* it is the first set's that is taken.  Two empty sets have none of them. *)
Algebra == \A other \in Others :
  LET A == Range(Contents(set))
      B == Range(Contents(other))
      Shared == {x \in A : \E y \in B : Same(set.pfn_equality, x, y)}
      New == {y \in B : \A x \in A : ~Same(set.pfn_equality, x, y)}
  IN  IF Combinable(set, other)
      THEN /\ Holds(Union(set, other), A \cup New)
           /\ Holds(Difference(set, other), (A \ Shared) \cup New)
           /\ Holds(Intersection(set, other), Shared)
      ELSE {Union(set, other), Difference(set, other), Intersection(set, other)} = {Nothing}

(* With a function that returns 0 for equal elements and for no others.    *)
Laws == set.pfn_equality = "compare" => Distinct(set) /\ Algebra

=============================================================================
