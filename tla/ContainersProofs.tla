-------------------------- MODULE ContainersProofs --------------------------
(***************************************************************************)
(* What TLC checks of the containers on small ones, for every size, every  *)
(* set of elements and keys, every hash and every number of threads.       *)
(* First the steps of array.c, cache.c, queue.c and double_queue.c, and    *)
(* those of stack.c with a single thread, are those of AbstractSequence,   *)
(* and what a container packs is what it unpacks.  Then the theorems: the  *)
(* invariants of all kinds, the refinements, and the packing.              *)
(***************************************************************************)
EXTENDS ContainersSteps

-----------------------------------------------------------------------------
(* Sequences that are the first places of an array. *)

Places(d, c) == [i \in 1..c |-> d[i - 1]]

(* The sequence without its place p, and with e instead in front.          *)
Omit(s, p) == SubSeq(s, 1, p - 1) \o SubSeq(s, p + 1, Len(s))

LEMMA PlacesIs ==
  ASSUME NEW S, NEW c \in Nat, NEW d, \A x \in 0..c - 1 : d[x] \in S
  PROVE  /\ Places(d, c) \in Seq(S) /\ Len(Places(d, c)) = c
         /\ \A i \in 1..c : Places(d, c)[i] = d[i - 1] /\ d[i - 1] \in S
<1>1. \A i \in 1..c : i - 1 \in 0..c - 1
  OBVIOUS
<1>2. Places(d, c) \in [1..c -> S]
  BY <1>1 DEF Places
<1> QED
  BY <1>1, <1>2 DEF Places

LEMMA OmitIs ==
  ASSUME NEW S, NEW s \in Seq(S), NEW p \in 1..Len(s)
  PROVE  /\ Omit(s, p) \in Seq(S) /\ Len(Omit(s, p)) = Len(s) - 1
         /\ \A i \in 1..Len(s) - 1 : Omit(s, p)[i] = IF i < p THEN s[i] ELSE s[i + 1]
<1> DEFINE n == Len(s)
           a == SubSeq(s, 1, p - 1)
           b == SubSeq(s, p + 1, n)
<1>1. n \in Nat /\ p \in 1..n /\ \A i \in 1..n : s[i] \in S
  BY LenProperties
<1>2. a \in Seq(S) /\ Len(a) = p - 1 /\ \A i \in 1..p - 1 : a[i] = s[i]
  <2>1. 1 \in Int /\ p - 1 \in Int /\ \A i \in 1..p - 1 : s[i] \in S
    BY <1>1
  <2>2. /\ a \in Seq(S) /\ Len(a) = IF 1 <= p - 1 THEN (p - 1) - 1 + 1 ELSE 0
        /\ \A i \in 1..(p - 1) - 1 + 1 : a[i] = s[1 + i - 1]
    BY ONLY <2>1, SubSeqProperties
  <2> QED
    BY <1>1, <2>2
<1>3. b \in Seq(S) /\ Len(b) = n - p /\ \A i \in 1..n - p : b[i] = s[p + i]
  <2>1. p + 1 \in Int /\ n \in Int /\ \A i \in p + 1..n : s[i] \in S
    BY <1>1
  <2>2. /\ b \in Seq(S) /\ Len(b) = IF p + 1 <= n THEN n - (p + 1) + 1 ELSE 0
        /\ \A i \in 1..n - (p + 1) + 1 : b[i] = s[(p + 1) + i - 1]
    BY ONLY <2>1, SubSeqProperties
  <2> QED
    BY <1>1, <2>2
<1> HIDE DEF a, b
<1>4. /\ a \o b \in Seq(S) /\ Len(a \o b) = Len(a) + Len(b)
      /\ \A i \in 1..Len(a) + Len(b) :
           (a \o b)[i] = IF i <= Len(a) THEN a[i] ELSE b[i - Len(a)]
  BY ONLY <1>2, <1>3, ConcatProperties, Zenon
<1>5. Omit(s, p) = a \o b
  BY DEF Omit, a, b, n
<1> HIDE DEF n
<1>6. ASSUME NEW i \in 1..n - 1 PROVE (a \o b)[i] = IF i < p THEN s[i] ELSE s[i + 1]
  <2>1. i \in 1..Len(a) + Len(b)
    BY <1>1, <1>2, <1>3
  <2>2. ASSUME i < p PROVE (a \o b)[i] = s[i]
    BY <1>1, <1>2, <1>4, <2>1, <2>2
  <2>3. ASSUME ~(i < p) PROVE (a \o b)[i] = s[i + 1]
    <3>1. PICK j \in 1..n - p : j = i - (p - 1)
      BY <1>1, <2>3
    <3>2. i - Len(a) = j /\ ~(i <= Len(a)) /\ p + j = i + 1
      BY <1>1, <1>2, <2>3, <3>1
    <3>3. (a \o b)[i] = b[j]
      BY <1>4, <2>1, <3>2
    <3>4. b[j] = s[i + 1]
      BY <1>3, <3>2
    <3> QED
      BY <3>3, <3>4
  <2> QED
    BY <2>2, <2>3
<1>7. Len(a) + Len(b) = n - 1
  BY <1>1, <1>2, <1>3
<1> QED
  BY <1>4, <1>5, <1>6, <1>7 DEF n

LEMMA SamePlaces ==
  ASSUME NEW S, NEW s \in Seq(S), NEW c \in Nat, Len(s) = c, NEW d,
         \A i \in 1..c : d[i - 1] = s[i]
  PROVE  Places(d, c) = s
<1>1. s = [i \in 1..c |-> s[i]]
  BY LenProperties
<1> QED
  BY <1>1 DEF Places

Extended(s, e) == Append(s, e)

(* b has the first c places of d, in S, and e after them.                  *)
Grown(S, b, d, c, e) ==
  (\A x \in 0..c - 1 : d[x] \in S /\ b[x] = d[x]) /\ b[c] = e /\ e \in S

LEMMA PlacesAppend ==
  ASSUME NEW S, NEW c \in Nat, NEW d, NEW e, NEW b, Grown(S, b, d, c, e), NEW m, m = c + 1
  PROVE  Places(b, m) = Extended(Places(d, c), e)
<1> USE DEF Grown
<1> DEFINE s == Places(d, c)
<1>1. s \in Seq(S) /\ Len(s) = c /\ \A i \in 1..c : s[i] = d[i - 1]
  BY PlacesIs
<1> HIDE DEF s
<1>2. /\ Append(s, e) \in Seq(S) /\ Len(Append(s, e)) = c + 1
      /\ \A i \in 1..c + 1 : Append(s, e)[i] = IF i = c + 1 THEN e ELSE s[i]
  BY <1>1
<1>3. ASSUME NEW i \in 1..c + 1 PROVE b[i - 1] = Append(s, e)[i]
  BY <1>1, <1>2
<1> DEFINE t == Append(s, e)
<1>4. m \in Nat /\ t \in Seq(S) /\ Len(t) = m /\ \A i \in 1..m : b[i - 1] = t[i]
  BY <1>2, <1>3
<1> HIDE DEF t
<1>5. Places(b, m) = t
  BY ONLY <1>4, SamePlaces
<1> QED
  BY <1>5 DEF s, t, Extended

LEMMA PlacesOmit ==
  ASSUME NEW S, NEW c \in Nat, NEW d, \A x \in 0..c - 1 : d[x] \in S, NEW p \in 0..c - 1,
         NEW b, \A x \in 0..c - 2 : b[x] = IF x < p THEN d[x] ELSE d[x + 1]
  PROVE  Places(b, c - 1) = Omit(Places(d, c), p + 1)
<1> DEFINE s == Places(d, c)
<1>1. s \in Seq(S) /\ Len(s) = c /\ \A i \in 1..c : s[i] = d[i - 1]
  BY PlacesIs
<1> HIDE DEF s
<1>2. p + 1 \in 1..Len(s)
  BY <1>1
<1>3. /\ Omit(s, p + 1) \in Seq(S) /\ Len(Omit(s, p + 1)) = c - 1
      /\ \A i \in 1..c - 1 : Omit(s, p + 1)[i] = IF i < p + 1 THEN s[i] ELSE s[i + 1]
  BY <1>1, <1>2, OmitIs, Zenon
<1>4. ASSUME NEW i \in 1..c - 1 PROVE b[i - 1] = Omit(s, p + 1)[i]
  <2>1. /\ i - 1 \in 0..c - 2 /\ i \in 1..c /\ i + 1 \in 1..c /\ (i + 1) - 1 = (i - 1) + 1
        /\ (i < p + 1 <=> i - 1 < p)
    OBVIOUS
  <2> QED
    BY <1>1, <1>3, <2>1
<1>5. c - 1 \in Nat
  OBVIOUS
<1>6. Places(b, c - 1) = Omit(s, p + 1)
  BY ONLY <1>3, <1>4, <1>5, SamePlaces
<1> QED
  BY <1>6 DEF s

LEMMA FilledIs ==
  ASSUME NEW S, NEW c \in Nat, NEW w \in [1..c -> S]
  PROVE  w \in Seq(S) /\ Len(w) = c
  OBVIOUS

(* The elements there are an odd number of times, those that do not cancel *)
(* in a hash.                                                              *)
Odd(s) == {e \in Element : Cardinality({i \in DOMAIN s : s[i] = e}) % 2 = 1}

LEMMA HashedIs == ASSUME NEW s \in Seq(Element) PROVE Hashed(s) = Odd(s)
<1> DEFINE Times(e) == Cardinality({i \in DOMAIN s : s[i] = e})
<1>1. ASSUME NEW e \in Hashed(s) PROVE e \in Odd(s)
  <2>1. PICK j \in DOMAIN s : e = s[j] /\ Cardinality({k \in DOMAIN s : s[k] = s[j]}) % 2 = 1
    BY <1>1, Zenon DEF Hashed
  <2>2. e \in Element
    BY <2>1, LenProperties
  <2> QED
    BY <2>1, <2>2 DEF Odd
<1>2. ASSUME NEW e \in Odd(s) PROVE e \in Hashed(s)
  <2>1. e \in Element /\ Times(e) % 2 = 1
    BY <1>2 DEF Odd
  <2>2. CASE {i \in DOMAIN s : s[i] = e} = {}
    <3>1. Times(e) = 0
      BY ONLY <2>2, FS_EmptySet
    <3> QED
      BY <2>1, <3>1
  <2>3. CASE \E j \in DOMAIN s : s[j] = e
    <3>1. PICK j \in DOMAIN s : s[j] = e
      BY <2>3
    <3>2. Cardinality({k \in DOMAIN s : s[k] = s[j]}) % 2 = 1
      BY <2>1, <3>1
    <3> QED
      BY <3>1, <3>2, Zenon DEF Hashed
  <2> QED
    BY <2>2, <2>3
<1> QED
  BY <1>1, <1>2

-----------------------------------------------------------------------------
(* Array. *)

LEMMA ArrayItems ==
  ASSUME NEW a, NEW c \in Nat, NEW n, Shaped(a, c, n)
  PROVE  /\ Vector!Contents(a) = Places(a.elements, c)
         /\ Vector!Contents(a) \in Seq(Element) /\ Len(Vector!Contents(a)) = c
         /\ \A i \in 1..c : Vector!Contents(a)[i] = a.elements[i - 1]
<1>1. \A x \in 0..c - 1 : a.elements[x] \in Element
  BY DEF Shaped
<1>2. Vector!Contents(a) = Places(a.elements, c)
  BY DEF Vector!Contents, Places, Shaped
<1> DEFINE d == a.elements
<1>3. c \in Nat /\ \A x \in 0..c - 1 : d[x] \in Element
  BY <1>1
<1> HIDE DEF d
<1>4. /\ Places(d, c) \in Seq(Element) /\ Len(Places(d, c)) = c
      /\ \A i \in 1..c : Places(d, c)[i] = d[i - 1] /\ d[i - 1] \in Element
  BY ONLY <1>3, PlacesIs
<1> QED
  BY <1>2, <1>4 DEF d

LEMMA ArraySees ==
  ASSUME NEW a, Vector!Contents(a) \in Seq(Element)
  PROVE  Vector!Hash(a) = Odd(Vector!Contents(a))
<1>1. \A T : Vector!Cardinality(T) = Cardinality(T)
  BY DEF Vector!Cardinality, Cardinality
<1>2. Vector!Hashed(Vector!Contents(a)) = Hashed(Vector!Contents(a))
  BY <1>1 DEF Vector!Hashed, Hashed
<1> QED
  BY <1>2, HashedIs DEF Vector!Hash

LEMMA ArrayStep ==
  ASSUME ArrayInv, Vector!Next, obj'.elements # Vector!Unset
  PROVE  Vector!Abs!ArrayNext \/ Vector!Differs
<1> DEFINE c == obj.count
           n == obj.max
           d == obj.elements
           s == Vector!Contents(obj)
           t == Vector!Contents(obj')
<1>1. /\ c \in 0..Nodes /\ c \in Nat /\ n \in Nat /\ c < n
      /\ DOMAIN obj = {"count", "max", "elements"}
      /\ d \in [0..n - 1 -> Element \cup {Null}]
      /\ \A x \in 0..c - 1 : d[x] \in Element
  BY NodesIs DEF ArrayInv, Vector!TypeOK, Vector!HasRoom, Vector!Next
<1>2. Shaped(obj, c, n)
  BY <1>1 DEF Shaped
<1>3. s = Places(d, c) /\ s \in Seq(Element) /\ Len(s) = c /\ \A i \in 1..c : s[i] = d[i - 1]
  BY <1>1, <1>2, ArrayItems
<1>4. Vector!Abs!Length = c
  BY <1>3 DEF Vector!Abs!Length
<1>5. ASSUME NEW i \in Vector!Index, ~Vector!Rejected(i)
      PROVE  /\ i \in Vector!Abs!Index
             /\ Vector!Place(i) \in 0..c - 1
             /\ Vector!Abs!Place(i) = Vector!Place(i) + 1
             /\ Vector!Abs!Place(i) \in 1..c
             /\ s[Vector!Abs!Place(i)] = d[Vector!Place(i)]
  <2>1. Vector!Place(i) \in 0..c - 1
    BY <1>1, <1>5, IndexIs
  <2>2. i \in Vector!Abs!Index
    BY <1>1, <1>4, <1>5 DEF Vector!Index, Vector!Rejected, Vector!Abs!Index
  <2>3. Vector!Abs!Place(i) = Vector!Place(i) + 1
    BY <1>1, <1>4, <1>5 DEF Vector!Index, Vector!Place, Vector!Abs!Place
  <2> QED
    BY <1>1, <1>3, <2>1, <2>2, <2>3
<1>6. ASSUME NEW i \in Vector!Index, Vector!Get(i) PROVE Vector!Abs!Get(i) /\ i \in Vector!Abs!Index
  BY <1>5, <1>6 DEF Vector!Get, Vector!Abs!Get
<1>7. ASSUME NEW i \in Vector!Index, Vector!Fails(i)
      PROVE  Vector!Differs \/ (i \in Vector!Abs!Outside /\ Vector!Abs!Refuses(i))
  <2>1. CASE c > 0 /\ i = -c
    BY <1>7, <2>1 DEF Vector!Differs
  <2>2. CASE ~(c > 0 /\ i = -c)
    <3>1. i = c
      BY <1>1, <1>7, <2>2 DEF Vector!Index, Vector!Fails, Vector!Rejected
    <3> QED
      BY <1>4, <1>7, <3>1 DEF Vector!Fails, Vector!Abs!Outside, Vector!Abs!Refuses
  <2> QED
    BY <2>1, <2>2
<1>8. ASSUME NEW i \in Vector!Index, NEW e \in Element, Vector!Set(i, e)
      PROVE  Vector!Abs!Set(i, e) /\ i \in Vector!Abs!Index
  <2> DEFINE p == Vector!Place(i)
             b == [d EXCEPT ![p] = e]
             w == [s EXCEPT ![p + 1] = e]
  <2>1. /\ i \in Vector!Abs!Index /\ p \in 0..c - 1 /\ Vector!Abs!Place(i) = p + 1
        /\ p + 1 \in 1..c
    BY <1>5, <1>8 DEF Vector!Set
  <2>2. obj' = [obj EXCEPT !.elements = b]
    BY <1>1, <1>8 DEF Vector!Set
  <2>3. obj'.count = c /\ obj'.elements = b
    BY <1>1, <2>2
  <2>4. t = Places(b, c)
    BY <2>3 DEF Vector!Contents, Places
  <2>5. w \in Seq(Element) /\ Len(w) = c /\ \A j \in 1..c : w[j] = IF j = p + 1 THEN e ELSE s[j]
    BY <1>3, <2>1, ExceptSeq
  <2>6. \A j \in 1..c : b[j - 1] = w[j]
    <3> TAKE j \in 1..c
    <3>1. j - 1 \in 0..n - 1 /\ (j = p + 1 <=> j - 1 = p)
      BY <1>1, <2>1
    <3>2. b[j - 1] = IF j - 1 = p THEN e ELSE d[j - 1]
      BY <1>1, <3>1
    <3> QED
      BY <1>3, <2>5, <3>1, <3>2
  <2> HIDE DEF b, w
  <2>7. Places(b, c) = w
    BY ONLY <1>1, <2>5, <2>6, SamePlaces
  <2>8. answer' = <<"set", i, e>>
    BY <1>8 DEF Vector!Set
  <2> QED
    BY <2>1, <2>4, <2>7, <2>8 DEF Vector!Abs!Set, w
<1>9. ASSUME NEW e \in Element, Vector!Add(e) PROVE Vector!Abs!AddRear(e)
  <2>1. PICK z \in {n, 2 * n} : c + 1 < z /\ Shaped(obj', c + 1, z)
    BY <1>1, <1>2, <1>9, ArrayAdds DEF Vector!Add
  <2>2. /\ \A x \in 0..c - 1 : obj'.elements[x] = d[x]
        /\ obj'.elements[c] = e
    <3> DEFINE b == Vector!Stored(obj, e)
    <3>1. /\ DOMAIN b = {"count", "max", "elements"} /\ b.count = c + 1 /\ b.max = n
          /\ b.elements = [d EXCEPT ![c] = e]
      BY <1>1 DEF Vector!Stored
    <3>2. /\ DOMAIN b.elements = 0..n - 1 /\ b.elements[c] = e
          /\ \A x \in 0..c - 1 : b.elements[x] = d[x]
      BY <1>1, <3>1
    <3>3. obj' = IF b.count < b.max THEN b
                 ELSE [b EXCEPT !.max = 2 * @, !.elements = Vector!Resized(@, 2 * b.max)]
      BY <1>9 DEF Vector!Add, Vector!Added
    <3> HIDE DEF b
    <3>4. CASE b.count < b.max
      BY <3>2, <3>3, <3>4
    <3>5. CASE ~(b.count < b.max)
      <4>1. obj'.elements = Vector!Resized(b.elements, 2 * n)
        BY <3>1, <3>3, <3>5
      <4>2. \A x \in 0..c : obj'.elements[x] = b.elements[x]
        BY <1>1, <3>2, <4>1 DEF Vector!Resized
      <4> QED
        BY <1>1, <3>2, <4>2
    <3> QED
      BY <3>4, <3>5
  <2>3. c + 1 \in Nat
    BY <1>1
  <2>4. t = Places(obj'.elements, c + 1)
    BY <2>1, <2>3, ArrayItems
  <2> DEFINE b == obj'.elements
  <2>5. c \in Nat /\ Grown(Element, b, d, c, e)
    BY <1>1, <2>2 DEF Grown
  <2>6. PICK m : m = c + 1
    OBVIOUS
  <2> HIDE DEF b, c, d
  <2>7. Places(b, m) = Extended(Places(d, c), e)
    BY ONLY <2>5, <2>6, PlacesAppend
  <2>8. t = Append(s, e)
    BY <1>3, <2>4, <2>6, <2>7 DEF b, c, d, Extended
  <2> QED
    BY <1>1, <1>3, <1>9, <2>8 DEF Vector!Add, Vector!Abs!AddRear, Vector!Abs!HasRoom, c, d
<1>10. ASSUME NEW e \in Element, Vector!NoMemory(e) PROVE FALSE
  BY <1>1, <1>10 DEF Vector!NoMemory
<1>11. ASSUME NEW i \in Vector!Index, Vector!RemoveIndex(i)
       PROVE  Vector!Abs!Remove(i) /\ i \in Vector!Abs!Index
  <2> DEFINE p == Vector!Place(i)
             b == [x \in DOMAIN d |-> IF x \in p..c - 2 THEN d[x + 1] ELSE d[x]]
  <2>1. /\ i \in Vector!Abs!Index /\ p \in 0..c - 1 /\ Vector!Abs!Place(i) = p + 1
        /\ answer' = <<"removed", i, s[p + 1]>>
    BY <1>5, <1>11 DEF Vector!RemoveIndex
  <2>2. obj' = [obj EXCEPT !.count = c - 1, !.elements = b]
    BY <1>1, <1>11 DEF Vector!RemoveIndex, Vector!Removed
  <2>3. obj'.count = c - 1 /\ obj'.elements = b
    BY <1>1, <2>2
  <2>4. t = Places(b, c - 1)
    BY <2>3 DEF Vector!Contents, Places
  <2>5. \A x \in 0..c - 2 : b[x] = IF x < p THEN d[x] ELSE d[x + 1]
    BY <1>1, <2>1
  <2>6. c \in Nat /\ (\A x \in 0..c - 1 : d[x] \in Element) /\ p \in 0..c - 1
    BY <1>1, <2>1
  <2> HIDE DEF b, p, c, d
  <2>7. Places(b, c - 1) = Omit(Places(d, c), p + 1)
    BY ONLY <2>5, <2>6, PlacesOmit
  <2>8. t = Omit(s, p + 1)
    BY <1>3, <2>4, <2>7 DEF c, d
  <2> QED
    BY <1>3, <1>4, <2>1, <2>8 DEF c, Vector!Abs!Remove, Vector!Abs!Without, Omit
<1>12. ASSUME Vector!Sort PROVE Vector!Abs!Sort
  <2> DEFINE H == 0..c - 1
  <2>1. PICK p \in [H -> H] :
          /\ \A x, y \in H : p[x] = p[y] => x = y
          /\ \A x \in 1..c - 1 : Rank[d[p[x - 1]]] <= Rank[d[p[x]]]
          /\ obj' = [obj EXCEPT !.elements = [x \in DOMAIN d |-> IF x \in H THEN d[p[x]] ELSE d[x]]]
    BY <1>1, <1>12, Zenon DEF Vector!Sort, Vector!IsInjective
  <2> DEFINE b == [x \in DOMAIN d |-> IF x \in H THEN d[p[x]] ELSE d[x]]
             q == [i \in 1..c |-> p[i - 1] + 1]
             w == [i \in 1..c |-> s[q[i]]]
  <2>2. obj'.count = c /\ obj'.elements = b
    BY <1>1, <2>1
  <2>3. \A i \in 1..c : i - 1 \in H /\ p[i - 1] \in H
    BY <1>1, <2>1
  <2>4. \A i \in 1..c : q[i] = p[i - 1] + 1 /\ q[i] \in 1..c
    BY <1>1, <2>3
  <2>5. q \in [1..c -> 1..c]
    BY <2>4
  <2> HIDE DEF q
  <2>6. \A i \in 1..c : s[q[i]] = d[p[i - 1]]
    <3> TAKE i \in 1..c
    <3>1. q[i] \in 1..c /\ q[i] - 1 = p[i - 1]
      BY <1>1, <2>3, <2>4
    <3> QED
      BY <1>3, <3>1
  <2>7. w \in Seq(Element) /\ Len(w) = c /\ \A i \in 1..c : w[i] = d[p[i - 1]]
    <3>1. \A i \in 1..c : s[q[i]] \in Element
      BY <1>1, <2>3, <2>6
    <3>2. w \in [1..c -> Element]
      BY <3>1
    <3>3. \A i \in 1..c : w[i] = d[p[i - 1]]
      BY <2>6
    <3> HIDE DEF w
    <3> QED
      BY <1>1, <3>2, <3>3, FilledIs, Zenon
  <2>8. \A i \in 1..c : b[i - 1] = w[i]
    BY <1>1, <2>3, <2>7
  <2> HIDE DEF b, w
  <2>9. Places(b, c) = w
    BY ONLY <1>1, <2>7, <2>8, SamePlaces
  <2>10. t = w
    BY <2>2, <2>9 DEF Vector!Contents, Places
  <2> DEFINE r(x) == Rank[d[p[x]]]
             U == {y \in 0..c - 1 : \A x \in 0..y : r(x) <= r(y)}
  <2>11. \A x \in H : r(x) \in Int
    BY <1>1, <2>1, ElementIs
  <2>12. \A y \in 0..c - 1 : y \in U
    <3>1. CASE c = 0
      BY <3>1
    <3>2. CASE c # 0
      <4>1. 0 \in U
        BY <1>1, <2>11, <3>2
      <4>2. ASSUME NEW y \in 1..c - 1, y - 1 \in U PROVE y \in U
        <5>1. y \in 0..c - 1 /\ y - 1 \in 0..c - 1 /\ r(y - 1) <= r(y)
          BY <1>1, <2>1, <4>2
        <5>2. ASSUME NEW x \in 0..y PROVE r(x) <= r(y)
          <6>1. x \in 0..c - 1 /\ (x = y \/ x \in 0..y - 1)
            BY <1>1, <5>1
          <6>2. CASE x = y
            BY <2>11, <5>1, <6>2
          <6>3. CASE x \in 0..y - 1
            <7>1. r(x) <= r(y - 1)
              BY <4>2, <6>3
            <7>2. r(x) \in Int /\ r(y) \in Int /\ r(y - 1) \in Int
              BY <2>11, <5>1, <6>1
            <7> QED
              BY <5>1, <7>1, <7>2
          <6> QED
            BY <6>1, <6>2, <6>3
        <5> QED
          BY <5>1, <5>2
      <4>3. c - 1 \in Nat
        BY <1>1, <3>2
      <4> HIDE DEF U
      <4> QED
        BY ONLY <4>1, <4>2, <4>3, InductionUpTo
    <3> QED
      BY <3>1, <3>2
  <2>13. ASSUME NEW i \in 1..c, NEW j \in 1..c, i < j
         PROVE  q[i] # q[j] /\ Rank[s[q[i]]] <= Rank[s[q[j]]]
    <3>1. i - 1 \in H /\ j - 1 \in H /\ i - 1 # j - 1 /\ i - 1 \in 0..j - 1
      BY <1>1, <2>13
    <3>2. p[i - 1] # p[j - 1] /\ p[i - 1] \in Int /\ p[j - 1] \in Int
      BY <1>1, <2>1, <3>1
    <3>3. q[i] # q[j]
      BY <2>4, <3>2
    <3>4. r(i - 1) <= r(j - 1)
      BY <2>12, <3>1
    <3> QED
      BY <2>6, <3>3, <3>4
  <2>14. answer' = <<>>
    BY <1>12 DEF Vector!Sort
  <2> QED
    BY <1>3, <1>4, <2>5, <2>10, <2>13, <2>14, Zenon DEF Vector!Abs!Sort, w
<1>13. ASSUME NEW g \in Transform, Vector!Map(g) PROVE Vector!Abs!Map(g)
  <2> DEFINE b == [x \in DOMAIN d |-> IF x < c THEN g[d[x]] ELSE d[x]]
             w == [i \in 1..c |-> g[s[i]]]
  <2>1. obj' = [obj EXCEPT !.elements = b] /\ answer' = <<>>
    BY <1>1, <1>13 DEF Vector!Map
  <2>2. obj'.count = c /\ obj'.elements = b
    BY <1>1, <2>1
  <2>3. \A x \in Element : g[x] \in Element
    BY <1>13, ElementIs
  <2>4. \A i \in 1..c : g[s[i]] \in Element /\ i - 1 \in 0..c - 1
    BY <1>1, <1>3, <2>3, LenProperties
  <2>5. w \in [1..c -> Element]
    BY <2>4
  <2>6. \A i \in 1..c : b[i - 1] = w[i]
    BY <1>1, <1>3, <2>4
  <2> HIDE DEF b, w
  <2>7. w \in Seq(Element) /\ Len(w) = c
    BY <1>1, <2>5, FilledIs
  <2>8. Places(b, c) = w
    BY ONLY <1>1, <2>6, <2>7, SamePlaces
  <2>9. t = w
    BY <2>2, <2>8 DEF Vector!Contents, Places
  <2> QED
    BY <1>3, <2>1, <2>9 DEF Vector!Abs!Map, w
<1>14. ASSUME NEW m \in 0..c, NEW k \in m..c, Vector!Slice(m, k)
       PROVE  Vector!Differs \/ (m \in 0..c - 1 /\ k \in m..c - 1 /\ Vector!Abs!Slice(m, k))
  <2> DEFINE w == [i \in 1..k - m + 1 |-> d[m + i - 1]]
  <2>1. answer' = <<"slice", m, k, w>> /\ UNCHANGED obj
    BY <1>14 DEF Vector!Slice
  <2>2. k - m + 1 \in Nat /\ \A i \in 1..k - m + 1 : m + i - 1 \in 0..n - 1
    BY <1>1
  <2>3. CASE k \in m..c - 1
    <3> DEFINE v == SubSeq(s, m + 1, k + 1)
    <3>1. \A i \in m + 1..k + 1 : i \in 1..c
      BY <1>1, <2>3
    <3>2. m + 1 \in Int /\ k + 1 \in Int /\ \A i \in m + 1..k + 1 : s[i] \in Element
      BY <1>1, <1>3, <3>1, LenProperties
    <3>3. /\ v \in Seq(Element) /\ Len(v) = IF m + 1 <= k + 1 THEN (k + 1) - (m + 1) + 1 ELSE 0
          /\ \A i \in 1..(k + 1) - (m + 1) + 1 : v[i] = s[(m + 1) + i - 1]
      BY ONLY <3>2, SubSeqProperties
    <3>4. ASSUME NEW i \in 1..k - m + 1 PROVE v[i] = d[m + i - 1]
      <4>1. i \in 1..(k + 1) - (m + 1) + 1 /\ (m + 1) + i - 1 = m + i
        OBVIOUS
      <4>2. m + i \in 1..c
        BY <1>1, <2>3
      <4>3. v[i] = s[m + i]
        BY <3>3, <4>1
      <4> QED
        BY <1>3, <4>2, <4>3
    <3> HIDE DEF v
    <3>5. v \in [1..k - m + 1 -> Element]
      <4>1. Len(v) = k - m + 1
        BY <1>1, <2>3, <3>3
      <4>2. v \in [1..Len(v) -> Element]
        BY ONLY <3>3, LenProperties
      <4> QED
        BY <4>1, <4>2
    <3>6. v = w
      BY <3>4, <3>5
    <3> QED
      BY <1>1, <2>1, <2>3, <3>6 DEF Vector!Abs!Slice, v
  <2>4. CASE k = c
    BY <1>14, <2>4 DEF Vector!Differs
  <2> QED
    BY <1>1, <2>3, <2>4
<1>15. ASSUME Vector!SeeAll PROVE Vector!Abs!SeeAll \/ Vector!Abs!Hash
  <2>1. \A T : Vector!Abs!Cardinality(T) = Cardinality(T)
    BY DEF Vector!Abs!Cardinality, Cardinality
  <2>2. Vector!Abs!Odd = Odd(s)
    BY <2>1 DEF Vector!Abs!Odd, Odd
  <2>3. Vector!Hash(obj) = Odd(s)
    BY <1>3, ArraySees
  <2> QED
    BY <1>15, <2>2, <2>3 DEF Vector!SeeAll, Vector!Abs!SeeAll, Vector!Abs!Hash
<1>16. ASSUME Vector!Count PROVE Vector!Abs!Count
  BY <1>3, <1>16 DEF Vector!Count, Vector!Abs!Count
<1>17. ASSUME Vector!Renew PROVE Vector!Abs!Renew(s)
  <2>1. PICK m \in 1..Nodes : obj' = Vector!Construct(m)
    BY <1>17 DEF Vector!Renew
  <2>2. obj'.count = 0
    BY <2>1 DEF Vector!Construct
  <2>3. t = [i \in 1..0 |-> obj'.elements[i - 1]]
    BY <2>2 DEF Vector!Contents
  <2>4. t = <<>>
    BY <2>3
  <2> QED
    BY <1>17, <2>4 DEF Vector!Renew, Vector!Abs!Renew
<1> HIDE DEF s, t, d, n
<1> QED
  BY <1>4, <1>6, <1>7, <1>8, <1>9, <1>10, <1>11, <1>12, <1>13, <1>14, <1>15, <1>16, <1>17
  DEF Vector!Next, Vector!Abs!ArrayNext, s

-----------------------------------------------------------------------------
(* Cache. *)

(* e in front of the row t. *)
Fronted(e, t) == <<e>> \o t

LEMMA FrontedIs ==
  ASSUME NEW S, NEW t \in Seq(S), NEW m \in Nat, Len(t) = m, NEW e \in S,
         NEW b, b[0] = e, \A x \in 1..m : b[x] = t[x], NEW k, k = m + 1
  PROVE  Places(b, k) = Fronted(e, t)
<1> DEFINE f == <<e>>
           u == f \o t
<1>1. f \in Seq(S) /\ Len(f) = 1 /\ f[1] = e
  OBVIOUS
<1> HIDE DEF f
<1>2. /\ u \in Seq(S) /\ Len(u) = Len(f) + Len(t)
      /\ \A i \in 1..Len(f) + Len(t) : u[i] = IF i <= Len(f) THEN f[i] ELSE t[i - Len(f)]
  BY ONLY <1>1, ConcatProperties
<1> HIDE DEF u
<1>3. k \in Nat /\ u \in Seq(S) /\ Len(u) = k
  BY <1>1, <1>2
<1>4. ASSUME NEW i \in 1..k PROVE b[i - 1] = u[i]
  <2>1. CASE i = 1
    BY <1>1, <1>2, <2>1
  <2>2. CASE i # 1
    <3>1. PICK x \in 1..m : x = i - 1
      BY <2>2
    <3>2. u[i] = t[x]
      BY <1>1, <1>2, <2>2, <3>1
    <3> QED
      BY <3>1, <3>2
  <2> QED
    BY <2>1, <2>2
<1>5. Places(b, k) = u
  BY ONLY <1>3, <1>4, SamePlaces
<1> QED
  BY <1>5 DEF u, f, Fronted

(* The element with the place p in front of the others, or another there. *)
LEMMA FrontPlaces ==
  ASSUME NEW S, NEW c \in Nat, c <= Size, NEW d, \A x \in 0..c - 1 : d[x] \in S, NEW e \in S,
         NEW p \in 0..c - 1
  PROVE  Places(Lru!ToFront(d, p, e), c) = Fronted(e, Omit(Places(d, c), p + 1))
<1> DEFINE s == Places(d, c)
           b == Lru!ToFront(d, p, e)
           t == Omit(s, p + 1)
<1>1. s \in Seq(S) /\ Len(s) = c /\ \A i \in 1..c : s[i] = d[i - 1]
  <2>1. c \in Nat /\ \A x \in 0..c - 1 : d[x] \in S
    OBVIOUS
  <2>2. /\ Places(d, c) \in Seq(S) /\ Len(Places(d, c)) = c
        /\ \A i \in 1..c : Places(d, c)[i] = d[i - 1] /\ d[i - 1] \in S
    BY ONLY <2>1, PlacesIs
  <2> QED
    BY <2>2
<1>2. \A x \in 0..c - 1 : b[x] = IF x = 0 THEN e ELSE IF x <= p THEN d[x - 1] ELSE d[x]
  BY SizeIs DEF Lru!ToFront, Lru!Slot
<1> HIDE DEF s, b
<1>3. p + 1 \in 1..Len(s) /\ s \in Seq(S)
  BY <1>1
<1>4. /\ t \in Seq(S) /\ Len(t) = Len(s) - 1
      /\ \A i \in 1..Len(s) - 1 : t[i] = IF i < p + 1 THEN s[i] ELSE s[i + 1]
  BY ONLY <1>3, OmitIs
<1> HIDE DEF t
<1>5. ASSUME NEW x \in 1..c - 1 PROVE b[x] = t[x]
  <2>1. x \in 0..c - 1 /\ x # 0 /\ x \in 1..c /\ x + 1 \in 1..c /\ (x + 1) - 1 = x
        /\ (x < p + 1 <=> x <= p)
    OBVIOUS
  <2> QED
    BY <1>1, <1>2, <1>4, <2>1
<1>6. b[0] = e
  BY <1>2
<1>7. PICK m \in Nat : m = c - 1
  OBVIOUS
<1>8. t \in Seq(S) /\ Len(t) = m /\ (\A x \in 1..m : b[x] = t[x]) /\ c = m + 1
  BY <1>1, <1>4, <1>5, <1>7
<1>9. Places(b, c) = Fronted(e, t)
  BY ONLY <1>6, <1>7, <1>8, FrontedIs
<1> QED
  BY <1>9 DEF b, t, s

LEMMA CacheItems ==
  ASSUME CacheInv
  PROVE  /\ Lru!Contents(obj) = Places(obj.data, obj.count)
         /\ Lru!Contents(obj) \in Seq(Element) /\ Len(Lru!Contents(obj)) = obj.count
         /\ \A i \in 1..obj.count : Lru!Contents(obj)[i] = obj.data[i - 1]
<1> DEFINE d == obj.data
           c == obj.count
<1>1. c \in Nat /\ \A x \in 0..c - 1 : d[x] \in Element
  BY KeepsIs, SizeIs DEF Keeps, CacheInv, Lru!TypeOK
<1> HIDE DEF c, d
<1>2. /\ Places(d, c) \in Seq(Element) /\ Len(Places(d, c)) = c
      /\ \A i \in 1..c : Places(d, c)[i] = d[i - 1] /\ d[i - 1] \in Element
  BY ONLY <1>1, PlacesIs
<1>3. Lru!Contents(obj) = Places(d, c)
  BY DEF Lru!Contents, Places, c, d
<1> QED
  BY <1>2, <1>3 DEF c, d

LEMMA CacheStep ==
  ASSUME CacheInv, Lru!Next
  PROVE  Lru!Abs!LruNext
<1> DEFINE c == obj.count
           n == obj.max
           d == obj.data
           s == Lru!Contents(obj)
           t == Lru!Contents(obj')
<1>1. /\ obj \in [count : 0..Size, max : 1..Size, data : [Lru!Slot -> Element \cup {Null}],
                 frees : BOOLEAN]
      /\ c \in Nat /\ n \in Nat /\ c <= n /\ n <= Size /\ c <= Size
      /\ \A x \in 0..c - 1 : d[x] \in Element
  BY KeepsIs, SizeIs DEF CacheInv, Lru!TypeOK, Keeps
<1>2. s = Places(d, c) /\ s \in Seq(Element) /\ Len(s) = c /\ \A i \in 1..c : s[i] = d[i - 1]
  BY CacheItems
<1>3. Lru!Abs!Length = c
  BY <1>2 DEF Lru!Abs!Length
<1>4. \A x \in 0..c - 1 : x + 1 \in 1..c /\ s[x + 1] = d[x]
  BY <1>2
<1>5. ASSUME NEW k, Lru!Has(obj, k)
      PROVE  /\ Lru!Place(obj, k) \in 0..c - 1
             /\ Lru!Place(obj, k) + 1 \in Lru!Abs!With(k)
             /\ s[Lru!Place(obj, k) + 1] = d[Lru!Place(obj, k)]
  <2>1. Lru!Place(obj, k) \in 0..c - 1 /\ KeyOf[d[Lru!Place(obj, k)]] = k
    BY <1>5, PlaceIs
  <2> QED
    BY <1>3, <1>4, <2>1 DEF Lru!Abs!With
<1>6. ASSUME NEW k, ~Lru!Has(obj, k) PROVE Lru!Abs!With(k) = {}
  <2>1. ASSUME NEW i \in 1..c PROVE KeyOf[s[i]] # k
    <3>1. i - 1 \in Lru!Held(obj) /\ s[i] = d[i - 1]
      BY <1>1, <1>2 DEF Lru!Held
    <3> QED
      BY <1>6, <3>1 DEF Lru!Has
  <2> QED
    BY <1>3, <2>1 DEF Lru!Abs!With
<1>7. ASSUME NEW p \in 0..c - 1, NEW e \in Element, obj' = [obj EXCEPT !.data = Lru!ToFront(d, p, e)]
      PROVE  t = <<e>> \o Lru!Abs!Without(p + 1) /\ obj'.max = n
  <2> DEFINE b == Lru!ToFront(d, p, e)
  <2>1. obj'.data = b /\ obj'.count = c /\ obj'.max = n
    BY <1>1, <1>7
  <2>2. t = Places(b, c)
    BY <2>1 DEF Lru!Contents, Places
  <2>3. Places(b, c) = Fronted(e, Omit(Places(d, c), p + 1))
    <3>1. c \in Nat /\ c <= Size /\ (\A x \in 0..c - 1 : d[x] \in Element) /\ e \in Element
          /\ p \in 0..c - 1
      BY <1>1
    <3> HIDE DEF c, d
    <3> QED
      BY ONLY <3>1, FrontPlaces DEF b
  <2> HIDE DEF b
  <2>4. Lru!Abs!Without(p + 1) = Omit(s, p + 1)
    BY <1>2, <1>3 DEF Lru!Abs!Without, Omit
  <2> QED
    BY <1>2, <2>1, <2>2, <2>3, <2>4 DEF Fronted
<1>8. ASSUME NEW k \in Key, Lru!Find(k) PROVE Lru!Abs!FindKey(k) /\ obj'.max = n
  <2> DEFINE p == Lru!Place(obj, k)
  <2>1. /\ p \in 0..c - 1 /\ p + 1 \in Lru!Abs!With(k) /\ s[p + 1] = d[p] /\ d[p] \in Element
        /\ obj' = [obj EXCEPT !.data = Lru!ToFront(d, p, d[p])] /\ answer' = <<d[p]>>
    BY <1>1, <1>5, <1>8 DEF Lru!Find
  <2> HIDE DEF p, s, t
  <2>2. t = <<d[p]>> \o Lru!Abs!Without(p + 1) /\ obj'.max = n
    BY <1>7, <2>1
  <2> QED
    BY <2>1, <2>2 DEF Lru!Abs!FindKey, s, t
<1>9. ASSUME NEW k \in Key, Lru!Peek(k) PROVE Lru!Abs!PeekKey(k) /\ obj'.max = n
  BY <1>5, <1>9 DEF Lru!Peek, Lru!Abs!PeekKey
<1>10. ASSUME NEW k \in Key, Lru!Misses(k) PROVE Lru!Abs!MissesKey(k) /\ obj'.max = n
  BY <1>6, <1>10 DEF Lru!Misses, Lru!Abs!MissesKey
<1>11. ASSUME NEW k \in Key, Lru!RemoveKey(k) PROVE Lru!Abs!RemoveKey(k) /\ obj'.max = n
  <2> DEFINE p == Lru!Place(obj, k)
             b == Lru!CloseGap(obj, p)
  <2>1. /\ p \in 0..c - 1 /\ p + 1 \in Lru!Abs!With(k) /\ s[p + 1] = d[p]
        /\ answer' = <<d[p]>> /\ obj' = [obj EXCEPT !.data = b, !.count = c - 1]
    BY <1>5, <1>11 DEF Lru!RemoveKey
  <2>2. obj'.data = b /\ obj'.count = c - 1 /\ obj'.max = n
    BY <1>1, <2>1
  <2>3. \A x \in 0..c - 2 : b[x] = IF x < p THEN d[x] ELSE d[x + 1]
    BY <1>1, <2>1, SizeIs DEF Lru!CloseGap, Lru!Slot
  <2>4. t = Places(b, c - 1)
    BY <2>2 DEF Lru!Contents, Places
  <2>5. c \in Nat /\ (\A x \in 0..c - 1 : d[x] \in Element) /\ p \in 0..c - 1
    BY <1>1, <2>1
  <2> HIDE DEF b, p, c, d
  <2>6. Places(b, c - 1) = Omit(Places(d, c), p + 1)
    BY ONLY <2>3, <2>5, PlacesOmit
  <2>7. Lru!Abs!Without(p + 1) = Omit(s, p + 1)
    BY <1>2, <1>3 DEF Lru!Abs!Without, Omit
  <2>8. t = Lru!Abs!Without(p + 1)
    BY <1>2, <2>4, <2>6, <2>7
  <2> HIDE DEF s, t
  <2> QED
    BY <2>1, <2>2, <2>8 DEF Lru!Abs!RemoveKey, s, t
<1>12. ASSUME NEW e \in Element, Lru!Replace(e) PROVE Lru!Abs!ReplaceKey(e) /\ obj'.max = n
  <2> DEFINE p == Lru!Place(obj, KeyOf[e])
  <2>1. /\ p \in 0..c - 1 /\ p + 1 \in Lru!Abs!With(KeyOf[e])
        /\ obj' = [obj EXCEPT !.data = Lru!ToFront(d, p, e)] /\ answer' = <<>>
    BY <1>5, <1>12 DEF Lru!Replace
  <2> HIDE DEF p, s, t
  <2>2. t = <<e>> \o Lru!Abs!Without(p + 1) /\ obj'.max = n
    BY <1>7, <2>1
  <2> QED
    BY <2>1, <2>2 DEF Lru!Abs!ReplaceKey, t
<1>13. ASSUME NEW e \in Element, Lru!Insert(e) PROVE Lru!Abs!InsertKey(e) /\ obj'.max = n
  <2> DEFINE b == Lru!ToFront(d, c, e)
  <2>1. /\ Lru!Abs!With(KeyOf[e]) = {} /\ c # n /\ answer' = <<>>
        /\ obj' = [obj EXCEPT !.data = b, !.count = c + 1]
    BY <1>6, <1>13 DEF Lru!Insert
  <2>2. obj'.data = b /\ obj'.count = c + 1 /\ obj'.max = n
    BY <1>1, <2>1
  <2>3. t = Places(b, c + 1)
    BY <2>2 DEF Lru!Contents, Places
  <2>4. b[0] = e /\ \A x \in 1..c : b[x] = d[x - 1]
    BY <1>1, <2>1, SizeIs DEF Lru!ToFront, Lru!Slot
  <2>5. PICK k : k = c + 1
    OBVIOUS
  <2> HIDE DEF b, c, s
  <2>6. c \in Nat /\ s \in Seq(Element) /\ Len(s) = c /\ \A x \in 1..c : b[x] = s[x]
    BY <1>1, <1>2, <2>4
  <2>7. Places(b, k) = Fronted(e, s)
    BY ONLY <2>4, <2>5, <2>6, FrontedIs
  <2>8. t = <<e>> \o s
    BY <2>3, <2>5, <2>7 DEF Fronted
  <2>9. Lru!Abs!HasRoom
    BY <1>1, <1>2, <2>1 DEF Lru!Abs!HasRoom, s, c
  <2> HIDE DEF t
  <2> QED
    BY <2>1, <2>2, <2>8, <2>9 DEF Lru!Abs!InsertKey, s, t
<1>14. ASSUME NEW e \in Element, NEW frees \in BOOLEAN, Lru!Evict(e, frees)
       PROVE  Lru!Abs!InsertKey(e) /\ obj'.max = n
  <2>1. /\ Lru!Abs!With(KeyOf[e]) = {} /\ c = n /\ c - 1 \in 0..c - 1 /\ answer' = <<>>
        /\ obj' = [obj EXCEPT !.data = Lru!ToFront(d, c - 1, e)]
    BY <1>1, <1>6, <1>14 DEF Lru!Evict
  <2>2. t = <<e>> \o Lru!Abs!Without((c - 1) + 1) /\ obj'.max = n
    BY ONLY <1>7, <2>1
  <2>3. Lru!Abs!Without((c - 1) + 1) = SubSeq(s, 1, c - 1)
    <3> DEFINE u == SubSeq(s, 1, c - 1)
    <3>1. (c - 1) + 1 = c /\ 1 \in Int /\ c - 1 \in Int /\ \A i \in 1..c - 1 : s[i] \in Element
      BY <1>1, <1>2
    <3>2. u \in Seq(Element)
      BY ONLY <3>1, SubSeqProperties
    <3>3. SubSeq(s, c + 1, c) = <<>>
      BY <1>1
    <3> HIDE DEF u
    <3>4. u \o <<>> = u
      BY <3>2
    <3> QED
      BY <1>3, <3>1, <3>3, <3>4 DEF Lru!Abs!Without, u
  <2>4. ~Lru!Abs!HasRoom
    BY <1>1, <1>2, <2>1 DEF Lru!Abs!HasRoom
  <2> HIDE DEF t, s, c
  <2> QED
    BY <1>3, <2>1, <2>2, <2>3, <2>4 DEF Lru!Abs!InsertKey, t, s
<1>15. ASSUME NEW g \in Transform, NEW frees \in BOOLEAN, Lru!Map(g, frees)
       PROVE  Lru!Abs!Map(g) /\ obj'.max = n
  <2> DEFINE b == [x \in Lru!Slot |-> IF x \in Lru!Held(obj) THEN g[d[x]] ELSE d[x]]
             w == [i \in 1..c |-> g[s[i]]]
  <2>1. obj' = [obj EXCEPT !.data = b] /\ answer' = <<>>
    BY <1>15 DEF Lru!Map
  <2>2. obj'.count = c /\ obj'.data = b /\ obj'.max = n
    BY <1>1, <2>1
  <2>3. \A x \in Element : g[x] \in Element
    BY <1>15, ElementIs
  <2>4. \A i \in 1..c : g[s[i]] \in Element /\ i - 1 \in Lru!Slot /\ i - 1 \in Lru!Held(obj)
    BY <1>1, <1>2, <2>3, LenProperties, SizeIs DEF Lru!Slot, Lru!Held
  <2>5. w \in [1..c -> Element]
    BY <2>4
  <2>6. \A i \in 1..c : b[i - 1] = w[i]
    BY <1>1, <1>2, <2>4
  <2> HIDE DEF b, w
  <2>7. w \in Seq(Element) /\ Len(w) = c
    BY <1>1, <2>5, FilledIs
  <2>8. Places(b, c) = w
    BY ONLY <1>1, <2>6, <2>7, SamePlaces
  <2>9. t = w
    BY <2>2, <2>8 DEF Lru!Contents, Places
  <2> QED
    BY <1>2, <2>1, <2>2, <2>9 DEF Lru!Abs!Map, w
<1>16. ASSUME Lru!Count PROVE Lru!Abs!Count /\ obj'.max = n
  BY <1>2, <1>16 DEF Lru!Count, Lru!Abs!Count
<1>17. ASSUME Lru!SeeAll PROVE (Lru!Abs!SeeAll \/ Lru!Abs!Hash) /\ obj'.max = n
  <2>1. \A T : Lru!Abs!Cardinality(T) = Cardinality(T) /\ Lru!Cardinality(T) = Cardinality(T)
    BY DEF Lru!Abs!Cardinality, Lru!Cardinality, Cardinality
  <2>2. Lru!Abs!Odd = Odd(s)
    BY <2>1 DEF Lru!Abs!Odd, Odd
  <2>3. Lru!Hashed(s) = Hashed(s)
    BY <2>1 DEF Lru!Hashed, Hashed
  <2>4. Lru!Hash(obj) = Odd(s)
    BY <1>2, <2>3, HashedIs DEF Lru!Hash
  <2> QED
    BY <1>17, <2>2, <2>4 DEF Lru!SeeAll, Lru!Abs!SeeAll, Lru!Abs!Hash
<1>18. ASSUME Lru!Renew PROVE (Lru!Abs!Renew(<<>>) \/ Lru!Abs!Renew(s)) /\ obj'.max = n
  <2>1. obj'.count = 0 /\ obj'.max = n
    BY <1>18 DEF Lru!Renew, Lru!Construct
  <2>2. t = [i \in 1..0 |-> obj'.data[i - 1]]
    BY <2>1 DEF Lru!Contents
  <2>3. t = <<>>
    BY <2>2
  <2>4. answer' = <<"released", s>> \/ answer' = <<"released", <<>>>>
    BY <1>18 DEF Lru!Renew
  <2> QED
    BY <2>1, <2>3, <2>4 DEF Lru!Abs!Renew
<1> HIDE DEF s, t, d, n
<1> QED
  BY <1>8, <1>9, <1>10, <1>11, <1>12, <1>13, <1>14, <1>15, <1>16, <1>17, <1>18
  DEF Lru!Next, Lru!Abs!LruNext, s, n

-----------------------------------------------------------------------------
(* Linked lists: the contents along the way from the front.                *)

Read(l, k, w) == [i \in 1..k |-> l.node[w[i]].content]

LEMMA ReadIs ==
  ASSUME NEW l, NEW k, NEW w, OneWay(l, k, w), Filled(l)
  PROVE  /\ k \in Nat /\ k <= Nodes
         /\ Links!Contents(l) = Read(l, k, w)
         /\ Read(l, k, w) \in Seq(Element) /\ Len(Read(l, k, w)) = k
         /\ \A i \in 1..k : /\ Read(l, k, w)[i] = l.node[w[i]].content
                            /\ Read(l, k, w)[i] \in Element
<1>1. /\ l \in Links!List /\ k \in Nat
      /\ \A i \in 1..k : w[i] \in Links!Id /\ l.node[w[i]].live
      /\ Links!Walk(l, l.front, "next") = w /\ Len(w) = k
  BY WayIs
<1>2. k <= Nodes
  <2>1. (k = 0 => l.front = Null) /\ (k # 0 => l.front = w[1])
    BY <1>1 DEF OneWay
  <2>2. /\ "next" \in {"next", "prev"} /\ w \in [1..k -> Links!Id]
        /\ \A i, j \in 1..k : w[i] = w[j] => i = j
        /\ \A i \in 1..k - 1 : l.node[w[i]]["next"] = w[i + 1]
        /\ k > 0 => l.node[w[k]]["next"] = Null
    BY DEF OneWay
  <2>3. Way(l, "next", k, w)
    BY <1>1, <2>2 DEF Way
  <2> QED
    BY <1>1, <2>1, <2>2, <2>3, WalkIs
<1>3. Links!Contents(l) = Read(l, k, w)
  BY <1>1 DEF Links!Contents, Read
<1>4. \A i \in 1..k : l.node[w[i]].content \in Element
  BY <1>1 DEF Filled
<1>5. Read(l, k, w) \in [1..k -> Element]
  BY <1>4 DEF Read
<1>6. Read(l, k, w) \in Seq(Element) /\ Len(Read(l, k, w)) = k
  BY <1>1, <1>5, FilledIs
<1>7. \A i \in 1..k : Read(l, k, w)[i] = l.node[w[i]].content
  BY DEF Read
<1> QED
  BY <1>1, <1>2, <1>3, <1>4, <1>6, <1>7

LEMMA SeqsSame ==
  ASSUME NEW S, NEW s \in Seq(S), NEW t \in Seq(S), Len(s) = Len(t),
         \A i \in 1..Len(s) : s[i] = t[i]
  PROVE  s = t
<1>1. s \in [1..Len(s) -> S]
  BY ONLY s \in Seq(S), LenProperties
<1>2. t \in [1..Len(t) -> S]
  BY ONLY t \in Seq(S), LenProperties
<1> QED
  BY <1>1, <1>2

(* No node is spare only if as many are used as there are.                 *)
LEMMA FullIs ==
  ASSUME NEW l, NEW k, NEW w, OneWay(l, k, w), Links!Spare(l) = {}
  PROVE  k >= Nodes
<1>1. /\ k \in Nat /\ w \in [1..k -> Links!Id]
      /\ \A n \in Links!Id : \E i \in 1..k : w[i] = n
  BY DEF OneWay, Links!Spare
<1>2. w \in Surjection(1..k, Links!Id)
  BY <1>1 DEF Surjection
<1>3. IsFiniteSet(1..k) /\ Cardinality(1..k) = k
  BY <1>1, FS_Interval
<1>4. Cardinality(Links!Id) <= Cardinality(1..k)
  BY ONLY <1>2, <1>3, FS_Surjection
<1>5. Cardinality(1..Nodes) = Nodes
  BY NodesIs, FS_Interval
<1> QED
  BY <1>1, <1>3, <1>4, <1>5, NodesIs DEF Links!Id

LEMMA ReadThen ==
  ASSUME NEW l, NEW k, NEW w, OneWay(l, k, w), Filled(l), NEW f \in Links!Id, ~l.node[f].live,
         NEW r, Behind(r, l, k, w, f), NEW e \in Element, r.node[f].content = e
  PROVE  /\ k < Nodes /\ Filled(r)
         /\ Links!Contents(r) = Append(Links!Contents(l), e)
<1> DEFINE v == Then(k, w, f)
           s == Read(l, k, w)
           t == Read(r, k + 1, v)
<1>1. OneWay(r, k + 1, v) /\ Filled(r)
  BY BehindKeeps DEF Behind, Filled
<1>2. /\ k \in Nat /\ Links!Contents(l) = s /\ s \in Seq(Element) /\ Len(s) = k
      /\ \A i \in 1..k : s[i] = l.node[w[i]].content
  BY ReadIs
<1>3. \A i \in 1..k : v[i] = w[i] /\ w[i] # f /\ w[i] \in Links!Id
  BY ThenIs, WayIs
<1>4. v[k + 1] = f
  BY ThenIs
<1> HIDE DEF v
<1>5. /\ k + 1 <= Nodes /\ Links!Contents(r) = t /\ t \in Seq(Element) /\ Len(t) = k + 1
      /\ \A i \in 1..k + 1 : t[i] = r.node[v[i]].content
  BY <1>1, ReadIs
<1> DEFINE u == Append(s, e)
<1> HIDE DEF s, t
<1>6. /\ u \in Seq(Element) /\ Len(u) = k + 1
      /\ \A i \in 1..k : u[i] = s[i]
      /\ u[k + 1] = e
  <2>1. s \in Seq(Element) /\ e \in Element
    BY <1>2
  <2>2. /\ u \in Seq(Element) /\ Len(u) = Len(s) + 1
        /\ \A i \in 1..Len(s) : u[i] = s[i]
        /\ u[Len(s) + 1] = e
    BY ONLY <2>1, AppendProperties
  <2> HIDE DEF u
  <2> QED
    BY <1>2, <2>2
<1> HIDE DEF u
<1>7. ASSUME NEW i \in 1..Len(t) PROVE t[i] = u[i]
  <2>1. i \in 1..k \/ i = k + 1
    BY <1>2, <1>5
  <2>2. CASE i \in 1..k
    <3>1. t[i] = r.node[w[i]].content
      BY <1>3, <1>5, <1>7, <2>2
    <3>2. r.node[w[i]].content = l.node[w[i]].content
      BY <1>3, <2>2 DEF Behind
    <3> QED
      BY <1>2, <1>6, <2>2, <3>1, <3>2
  <2>3. CASE i = k + 1
    BY <1>2, <1>4, <1>5, <1>6, <1>7, <2>3
  <2> QED
    BY <2>1, <2>2, <2>3
<1>8. t = u
  BY ONLY <1>5, <1>6, <1>7, SeqsSame
<1> QED
  BY <1>1, <1>2, <1>5, <1>8, NodesIs DEF u

LEMMA ReadFirst ==
  ASSUME NEW l, NEW k, NEW w, BothWays(l, k, w), Filled(l), NEW f \in Links!Id, ~l.node[f].live,
         NEW r, Before(r, l, k, w, f), NEW e \in Element, r.node[f].content = e
  PROVE  /\ k < Nodes /\ Filled(r)
         /\ Links!Contents(r) = Fronted(e, Links!Contents(l))
<1> DEFINE v == First(k, w, f)
           s == Read(l, k, w)
           t == Read(r, k + 1, v)
<1>1. OneWay(r, k + 1, v) /\ Filled(r)
  BY BeforeKeeps DEF Before, Filled, BothWays
<1>2. OneWay(l, k, w)
  BY DEF BothWays
<1>3. /\ k \in Nat /\ Links!Contents(l) = s /\ s \in Seq(Element) /\ Len(s) = k
      /\ \A i \in 1..k : s[i] = l.node[w[i]].content
  BY <1>2, ReadIs
<1>4. \A i \in 1..k : w[i] # f /\ w[i] \in Links!Id
  BY <1>2, WayIs
<1>5. \A i \in 1..k + 1 : v[i] = IF i = 1 THEN f ELSE w[i - 1]
  BY <1>3 DEF First
<1> HIDE DEF v
<1>6. /\ k + 1 <= Nodes /\ Links!Contents(r) = t /\ t \in Seq(Element) /\ Len(t) = k + 1
      /\ \A i \in 1..k + 1 : t[i] = r.node[v[i]].content
  BY <1>1, ReadIs
<1> HIDE DEF s, t
<1> DEFINE x == [i \in 0..k |-> t[i + 1]]
<1>7. x[0] = e
  BY <1>3, <1>5, <1>6
<1>8. ASSUME NEW i \in 1..k PROVE x[i] = s[i]
  <2>1. i + 1 \in 1..k + 1 /\ (i + 1) - 1 = i /\ i + 1 # 1 /\ i \in 0..k
    BY <1>3
  <2>2. x[i] = r.node[w[i]].content
    BY <1>5, <1>6, <2>1
  <2> QED
    BY <1>3, <1>4, <2>2 DEF Before
<1>9. \A i \in 1..k + 1 : x[i - 1] = t[i]
  <2> TAKE i \in 1..k + 1
  <2>1. i - 1 \in 0..k /\ (i - 1) + 1 = i
    BY <1>3
  <2> QED
    BY <2>1
<1> HIDE DEF x
<1>10. PICK m : m = k + 1
  OBVIOUS
<1>11. m \in Nat /\ t \in Seq(Element) /\ Len(t) = m /\ \A i \in 1..m : x[i - 1] = t[i]
  BY <1>3, <1>6, <1>9, <1>10
<1>12. Places(x, m) = t
  BY ONLY <1>11, SamePlaces
<1>13. s \in Seq(Element) /\ k \in Nat /\ Len(s) = k
  BY <1>3
<1>14. Places(x, m) = Fronted(e, s)
  BY ONLY <1>7, <1>8, <1>10, <1>13, FrontedIs
<1> QED
  BY <1>1, <1>3, <1>6, <1>12, <1>14, NodesIs

LEMMA ReadRest ==
  ASSUME NEW l, NEW k, NEW w, OneWay(l, k, w), Filled(l), k > 0, NEW r, WithoutFront(r, l, k, w)
  PROVE  /\ Filled(r) /\ Links!Contents(l) # <<>>
         /\ Links!Contents(r) = Tail(Links!Contents(l))
         /\ Links!Contents(l)[1] = l.node[l.front].content
         /\ Links!Contents(l)[k] = l.node[l.rear].content
<1> DEFINE v == Rest(k, w)
           s == Read(l, k, w)
           t == Read(r, k - 1, v)
<1>1. OneWay(r, k - 1, v) /\ Filled(r)
  BY RestKeeps DEF WithoutFront, Filled
<1>2. /\ k \in Nat /\ Links!Contents(l) = s /\ s \in Seq(Element) /\ Len(s) = k
      /\ \A i \in 1..k : s[i] = l.node[w[i]].content
  BY ReadIs
<1>3. /\ \A i \in 1..k : w[i] \in Links!Id
      /\ \A i, j \in 1..k : w[i] = w[j] => i = j
      /\ l.front = w[1] /\ l.rear = w[k]
  BY WayIs DEF OneWay
<1>4. \A i \in 1..k - 1 : v[i] = w[i + 1]
  BY DEF Rest
<1> HIDE DEF v
<1>5. /\ Links!Contents(r) = t /\ t \in Seq(Element) /\ Len(t) = k - 1
      /\ \A i \in 1..k - 1 : t[i] = r.node[v[i]].content
  BY <1>1, ReadIs
<1> HIDE DEF s, t
<1>6. s # <<>>
  BY <1>2
<1>7. /\ Tail(s) \in Seq(Element) /\ Len(Tail(s)) = k - 1
      /\ \A i \in 1..k - 1 : Tail(s)[i] = s[i + 1]
  <2>1. /\ Tail(s) \in Seq(Element) /\ Len(Tail(s)) = Len(s) - 1
        /\ \A i \in 1..Len(Tail(s)) : Tail(s)[i] = s[i + 1]
    BY ONLY <1>2, <1>6, HeadTailProperties
  <2> QED
    BY <1>2, <2>1
<1> DEFINE u == Tail(s)
<1>8. u \in Seq(Element) /\ Len(u) = k - 1 /\ \A i \in 1..k - 1 : u[i] = s[i + 1]
  BY <1>7
<1> HIDE DEF u
<1>9. ASSUME NEW i \in 1..Len(t) PROVE t[i] = u[i]
  <2>1. i \in 1..k - 1 /\ i + 1 \in 1..k /\ i + 1 # 1 /\ 1 \in 1..k
    BY <1>2, <1>5
  <2>2. w[i + 1] \in Links!Id /\ w[i + 1] # w[1]
    BY <1>3, <2>1
  <2>3. t[i] = r.node[w[i + 1]].content
    BY <1>4, <1>5, <2>1
  <2>4. t[i] = l.node[w[i + 1]].content
    BY <2>2, <2>3 DEF WithoutFront
  <2> QED
    BY <1>2, <1>8, <2>1, <2>4
<1>10. t = u
  BY ONLY <1>5, <1>8, <1>9, SeqsSame
<1>11. 1 \in 1..k /\ k \in 1..k
  BY <1>2
<1> QED
  BY <1>1, <1>2, <1>3, <1>5, <1>6, <1>10, <1>11 DEF u

LEMMA ReadMost ==
  ASSUME NEW l, NEW k, NEW w, BothWays(l, k, w), Filled(l), k > 0, NEW r, WithoutRear(r, l, k, w),
         r.size = l.size - 1
  PROVE  /\ Filled(r) /\ Links!Contents(l) # <<>>
         /\ Links!Contents(r) = SubSeq(Links!Contents(l), 1, k - 1)
         /\ Links!Contents(l)[k] = l.node[l.rear].content
<1> DEFINE v == Most(k, w)
           s == Read(l, k, w)
           t == Read(r, k - 1, v)
           u == SubSeq(s, 1, k - 1)
<1>1. OneWay(r, k - 1, v) /\ Filled(r)
  BY MostKeeps DEF WithoutRear, Filled, BothWays
<1>2. OneWay(l, k, w)
  BY DEF BothWays
<1>3. /\ k \in Nat /\ Links!Contents(l) = s /\ s \in Seq(Element) /\ Len(s) = k
      /\ \A i \in 1..k : s[i] = l.node[w[i]].content /\ s[i] \in Element
  BY <1>2, ReadIs
<1>4. /\ \A i \in 1..k : w[i] \in Links!Id
      /\ \A i, j \in 1..k : w[i] = w[j] => i = j
      /\ l.rear = w[k]
  BY <1>2, WayIs DEF OneWay
<1>5. \A i \in 1..k - 1 : v[i] = w[i]
  BY DEF Most
<1> HIDE DEF v
<1>6. /\ Links!Contents(r) = t /\ t \in Seq(Element) /\ Len(t) = k - 1
      /\ \A i \in 1..k - 1 : t[i] = r.node[v[i]].content
  BY <1>1, ReadIs
<1> HIDE DEF s, t
<1>7. u \in Seq(Element) /\ Len(u) = k - 1 /\ \A i \in 1..k - 1 : u[i] = s[i]
  <2>1. 1 \in Int /\ k - 1 \in Int /\ \A i \in 1..k - 1 : s[i] \in Element
    BY <1>3
  <2>2. /\ u \in Seq(Element) /\ Len(u) = IF 1 <= k - 1 THEN (k - 1) - 1 + 1 ELSE 0
        /\ \A i \in 1..(k - 1) - 1 + 1 : u[i] = s[1 + i - 1]
    BY ONLY <2>1, SubSeqProperties
  <2> HIDE DEF u
  <2> QED
    BY <1>3, <2>2
<1> HIDE DEF u
<1>8. ASSUME NEW i \in 1..Len(t) PROVE t[i] = u[i]
  <2>1. i \in 1..k - 1 /\ i \in 1..k /\ i # k /\ k \in 1..k
    BY <1>3, <1>6
  <2>2. w[i] \in Links!Id /\ w[i] # w[k]
    BY <1>4, <2>1
  <2>3. t[i] = r.node[w[i]].content
    BY <1>5, <1>6, <2>1
  <2>4. t[i] = l.node[w[i]].content
    BY <2>2, <2>3 DEF WithoutRear
  <2> QED
    BY <1>3, <1>7, <2>1, <2>4
<1>9. t = u
  BY ONLY <1>6, <1>7, <1>8, SeqsSame
<1>10. k \in 1..k /\ s # <<>>
  BY <1>3
<1> QED
  BY <1>1, <1>3, <1>4, <1>6, <1>9, <1>10 DEF u

(* The node added has the element it was added with.                       *)
LEMMA AddedIs ==
  ASSUME NEW l \in Links!List, NEW f \in Links!Id, NEW e \in Element
  PROVE  /\ Links!LinkRear(l, f, e).node[f].content = e
         /\ Deque!LinkFront(l, f, e).node[f].content = e
<1>1. l.node \in [Links!Id -> Cell] /\ DOMAIN l = {"front", "rear", "size", "node"}
  BY DEF Links!List, Cell
<1>2. /\ Links!New(e).content = e /\ Deque!New(e).content = e
      /\ \A p : [Links!New(e) EXCEPT !.prev = p].content = e
      /\ \A p : [Deque!New(e) EXCEPT !.next = p].content = e
  BY DEF Links!New, Deque!New
<1>3. Links!LinkRear(l, f, e).node[f].content = e
  BY <1>1, <1>2 DEF Links!LinkRear
<1>4. Deque!LinkFront(l, f, e).node[f].content = e
  BY <1>1, <1>2 DEF Deque!LinkFront
<1> QED
  BY <1>3, <1>4

LEMMA SeesOdd ==
  ASSUME NEW s \in Seq(Element)
  PROVE  Fifo!Hashed(s) = Odd(s) /\ Deque!Hashed(s) = Odd(s) /\ Lifo!Hashed(s) = Odd(s)
<1>1. \A T : /\ Fifo!Cardinality(T) = Cardinality(T) /\ Deque!Cardinality(T) = Cardinality(T)
             /\ Lifo!Cardinality(T) = Cardinality(T)
  BY DEF Fifo!Cardinality, Deque!Cardinality, Lifo!Cardinality, Cardinality
<1>2. Fifo!Hashed(s) = Hashed(s) /\ Deque!Hashed(s) = Hashed(s) /\ Lifo!Hashed(s) = Hashed(s)
  BY <1>1 DEF Fifo!Hashed, Deque!Hashed, Lifo!Hashed, Hashed
<1> QED
  BY <1>2, HashedIs

LEMMA EmptyContents == Links!Contents(Links!Empty) = <<>>
<1>1. OneWay(Links!Empty, 0, <<>>) /\ Filled(Links!Empty)
  BY EmptyWay, EmptyFilled DEF BothWays
<1>2. Links!Contents(Links!Empty) \in Seq(Element) /\ Len(Links!Contents(Links!Empty)) = 0
  BY <1>1, ReadIs
<1> QED
  BY <1>2

(* Queue: what the calls do to the contents.                               *)
LEMMA QueueStep ==
  ASSUME QueueInv, Filled(obj), Fifo!Next
  PROVE  Fifo!Abs!FifoNext /\ Filled(obj')
<1>1. PICK k, w : OneWay(obj, k, w)
  BY DEF QueueInv
<1> DEFINE s == Fifo!Contents(obj)
           t == Fifo!Contents(obj')
<1>2. \A l : Fifo!Contents(l) = Links!Contents(l)
  BY FifoWalk DEF Fifo!Contents, Links!Contents
<1>3. /\ k \in Nat /\ k <= Nodes /\ s \in Seq(Element) /\ Len(s) = k
      /\ s = Links!Contents(obj) /\ t = Links!Contents(obj')
      /\ obj \in Links!List /\ Nodes \in Nat
  <2>1. s = Links!Contents(obj) /\ t = Links!Contents(obj')
    BY <1>2
  <2>2. /\ k \in Nat /\ k <= Nodes /\ Links!Contents(obj) = Read(obj, k, w)
        /\ Read(obj, k, w) \in Seq(Element) /\ Len(Read(obj, k, w)) = k
    BY ONLY <1>1, Filled(obj), ReadIs
  <2> HIDE DEF s, t
  <2> QED
    BY <1>1, <2>1, <2>2, NodesIs DEF OneWay
<1> HIDE DEF s, t
<1>4. s = <<>> <=> k = 0
  BY <1>3
<1>5. obj.front = Null <=> k = 0
  <2>1. k > 0 => obj.front = w[1] /\ w[1] \in Links!Id
    BY <1>1, <1>3, EndsAre
  <2> QED
    BY <1>1, <1>3, <2>1, NodesIs DEF OneWay, Links!Id
<1>6. ASSUME NEW e \in Element, Fifo!Enqueue(e)
      PROVE  k < Nodes /\ t = Append(s, e) /\ answer' = <<>> /\ Filled(obj')
  <2> DEFINE f == Links!Fresh(obj)
  <2>1. obj' = Links!LinkRear(obj, f, e) /\ f \in Links!Id /\ ~obj.node[f].live
        /\ answer' = <<>>
    BY <1>6, FifoIs, FreshIs DEF Fifo!Enqueue
  <2> HIDE DEF f
  <2>2. Behind(obj', obj, k, w, f)
    BY <1>1, <2>1, RearIs
  <2>3. obj'.node[f].content = e
    BY <1>3, <2>1, AddedIs
  <2>4. k < Nodes /\ Filled(obj') /\ Links!Contents(obj') = Append(Links!Contents(obj), e)
    BY ONLY <1>1, <1>6, Filled(obj), <2>1, <2>2, <2>3, ReadThen
  <2> QED
    BY <1>3, <2>1, <2>4
<1>7. ASSUME Fifo!NoMemory PROVE k = Nodes /\ t = s /\ answer' = Nothing /\ Filled(obj')
  <2>1. Links!Spare(obj) = {} /\ obj' = obj
    BY <1>7, FifoIs DEF Fifo!NoMemory
  <2>2. k >= Nodes
    BY <1>1, <2>1, FullIs
  <2> QED
    BY <1>3, <1>7, <2>1, <2>2 DEF Fifo!NoMemory
<1>8. ASSUME Fifo!Dequeue PROVE s # <<>> /\ t = Tail(s) /\ answer' = <<s[1]>> /\ Filled(obj')
  <2>1. k > 0
    BY <1>3, <1>5, <1>8 DEF Fifo!Dequeue
  <2>2. WithoutFront(obj', obj, k, w) /\ answer' = <<obj.node[obj.front].content>>
    BY <1>1, <1>8, <2>1, UnlinkIs DEF Fifo!Dequeue
  <2>3. /\ Filled(obj') /\ Links!Contents(obj) # <<>>
        /\ Links!Contents(obj') = Tail(Links!Contents(obj))
        /\ Links!Contents(obj)[1] = obj.node[obj.front].content
    BY ONLY <1>1, Filled(obj), <2>1, <2>2, ReadRest
  <2> QED
    BY <1>3, <2>2, <2>3
<1>9. ASSUME Fifo!See
      PROVE  s # <<>> /\ t = s /\ (answer' = <<s[1]>> \/ answer' = <<s[Len(s)]>>) /\ Filled(obj')
  <2>1. k > 0
    BY <1>3, <1>5, <1>9 DEF Fifo!See
  <2>2. /\ Links!Contents(obj)[1] = obj.node[obj.front].content
        /\ Links!Contents(obj)[k] = obj.node[obj.rear].content
    BY ONLY <1>1, Filled(obj), <2>1, UnlinkIs, ReadRest
  <2>3. obj' = obj /\ \/ answer' = <<obj.node[obj.front].content>>
                      \/ answer' = <<obj.node[obj.rear].content>>
    BY <1>9 DEF Fifo!See
  <2> QED
    BY <1>3, <1>4, <2>1, <2>2, <2>3
<1>10. ASSUME Fifo!SeeAll
       PROVE  (answer' = <<"all", s>> \/ answer' = <<"hash", Odd(s)>>) /\ t = s /\ Filled(obj')
  <2>1. Fifo!Hash(obj) = Odd(s) /\ Fifo!Contents(obj) = s
    BY <1>3, SeesOdd DEF Fifo!Hash, s
  <2> QED
    BY <1>3, <1>10, <2>1 DEF Fifo!SeeAll
<1>11. ASSUME Fifo!EmptyFails PROVE s = <<>> /\ answer' = Nothing /\ t = s /\ Filled(obj')
  BY <1>3, <1>4, <1>5, <1>11 DEF Fifo!EmptyFails
<1>12. ASSUME Fifo!IsEmpty PROVE answer' = <<s = <<>>>> /\ t = s /\ Filled(obj')
  <2>1. (obj.front = Null) = (s = <<>>)
    BY <1>4, <1>5
  <2> QED
    BY <1>3, <1>12, <2>1 DEF Fifo!IsEmpty
<1>13. ASSUME Fifo!Renew PROVE answer' = <<"released", <<>>>> /\ t = <<>> /\ Filled(obj')
  BY <1>3, <1>13, FifoIs, EmptyContents, EmptyFilled DEF Fifo!Renew
<1>14. Fifo!Abs!Odd = Odd(s)
  <2>1. \A T : Fifo!Abs!Cardinality(T) = Cardinality(T)
    BY DEF Fifo!Abs!Cardinality, Cardinality
  <2> QED
    BY <2>1 DEF Fifo!Abs!Odd, Odd, s
<1> USE DEF s, t, Fifo!Abs!First, Fifo!Abs!Last, Fifo!Abs!HasRoom
<1>15. ASSUME NEW e \in Element, Fifo!Enqueue(e) PROVE Fifo!Abs!AddRear(e)
  BY <1>3, <1>6, <1>15 DEF Fifo!Abs!AddRear
<1>16. (Fifo!NoMemory \/ Fifo!EmptyFails) => Fifo!Abs!Fails
  BY <1>3, <1>7, <1>11 DEF Fifo!Abs!Fails
<1>17. Fifo!Dequeue => Fifo!Abs!RemoveFront
  BY <1>8 DEF Fifo!Abs!RemoveFront
<1>18. Fifo!See => Fifo!Abs!SeeFront \/ Fifo!Abs!SeeRear
  BY <1>9 DEF Fifo!Abs!SeeFront, Fifo!Abs!SeeRear
<1>19. Fifo!SeeAll => Fifo!Abs!SeeAll \/ Fifo!Abs!Hash
  BY <1>10, <1>14 DEF Fifo!Abs!SeeAll, Fifo!Abs!Hash
<1>20. Fifo!IsEmpty => Fifo!Abs!IsEmpty
  BY <1>12 DEF Fifo!Abs!IsEmpty
<1>21. Fifo!Renew => Fifo!Abs!Renew(<<>>)
  BY <1>13 DEF Fifo!Abs!Renew
<1> HIDE DEF s, t, Fifo!Abs!First, Fifo!Abs!Last, Fifo!Abs!HasRoom
<1>22. Filled(obj')
  BY <1>6, <1>7, <1>8, <1>9, <1>10, <1>11, <1>12, <1>13 DEF Fifo!Next
<1>23. Fifo!Abs!FifoNext
  BY <1>15, <1>16, <1>17, <1>18, <1>19, <1>20, <1>21 DEF Fifo!Next, Fifo!Abs!FifoNext
<1> QED
  BY <1>22, <1>23

(* Double queue. *)
LEMMA DequeStep ==
  ASSUME DequeInv, Deque!Next
  PROVE  Deque!Abs!DequeNext
<1>1. PICK k, w : BothWays(obj, k, w)
  BY DEF DequeInv
<1> DEFINE s == Deque!Contents(obj)
           t == Deque!Contents(obj')
<1>2. \A l : Deque!Contents(l) = Links!Contents(l)
  BY DequeWalk DEF Deque!Contents, Links!Contents
<1>3. OneWay(obj, k, w) /\ Filled(obj) /\ obj.size = k
  BY <1>1 DEF BothWays, DequeInv
<1>4. /\ k \in Nat /\ k <= Nodes /\ s \in Seq(Element) /\ Len(s) = k
      /\ s = Links!Contents(obj) /\ t = Links!Contents(obj')
      /\ obj \in Links!List /\ Nodes \in Nat
  <2>1. s = Links!Contents(obj) /\ t = Links!Contents(obj')
    BY <1>2
  <2>2. /\ k \in Nat /\ k <= Nodes /\ Links!Contents(obj) = Read(obj, k, w)
        /\ Read(obj, k, w) \in Seq(Element) /\ Len(Read(obj, k, w)) = k
    BY ONLY <1>3, ReadIs
  <2> HIDE DEF s, t
  <2> QED
    BY <1>3, <2>1, <2>2, NodesIs DEF OneWay
<1> HIDE DEF s, t
<1>5. s = <<>> <=> k = 0
  BY <1>4
<1>6. (obj.front = Null <=> k = 0) /\ (obj.rear = Null <=> k = 0)
  <2>1. k > 0 => /\ obj.front = w[1] /\ w[1] \in Links!Id
                 /\ obj.rear = w[k] /\ w[k] \in Links!Id
    BY <1>3, <1>4, EndsAre
  <2> QED
    BY <1>3, <1>4, <2>1, NodesIs DEF OneWay, Links!Id
<1>7. ASSUME NEW e \in Element, Deque!RearAdd(e)
      PROVE  k < Nodes /\ t = Append(s, e) /\ answer' = <<>>
  <2> DEFINE f == Links!Fresh(obj)
  <2>1. obj' = Links!LinkRear(obj, f, e) /\ f \in Links!Id /\ ~obj.node[f].live
        /\ answer' = <<>>
    BY <1>7, DequeIs, FreshIs DEF Deque!RearAdd
  <2> HIDE DEF f
  <2>2. Behind(obj', obj, k, w, f)
    BY <1>3, <2>1, RearIs
  <2>3. obj'.node[f].content = e
    BY <1>4, <2>1, AddedIs
  <2>4. k < Nodes /\ Links!Contents(obj') = Append(Links!Contents(obj), e)
    BY ONLY <1>3, <1>7, <2>1, <2>2, <2>3, ReadThen
  <2> QED
    BY <1>4, <2>1, <2>4
<1>8. ASSUME NEW e \in Element, Deque!FrontAdd(e)
      PROVE  k < Nodes /\ t = <<e>> \o s /\ answer' = <<>>
  <2> DEFINE f == Links!Fresh(obj)
  <2>1. obj' = Deque!LinkFront(obj, f, e) /\ f \in Links!Id /\ ~obj.node[f].live
        /\ answer' = <<>>
    BY <1>8, DequeIs, FreshIs DEF Deque!FrontAdd
  <2> HIDE DEF f
  <2>2. Before(obj', obj, k, w, f)
    BY <1>1, <2>1, FrontIs
  <2>3. obj'.node[f].content = e
    BY <1>4, <2>1, AddedIs
  <2>4. k < Nodes /\ Links!Contents(obj') = Fronted(e, Links!Contents(obj))
    BY ONLY <1>1, <1>3, <1>8, <2>1, <2>2, <2>3, ReadFirst
  <2> QED
    BY <1>4, <2>1, <2>4 DEF Fronted
<1>9. ASSUME Deque!NoMemory PROVE k = Nodes /\ t = s /\ answer' = Nothing
  <2>1. Links!Spare(obj) = {} /\ obj' = obj
    BY <1>9, DequeIs DEF Deque!NoMemory
  <2>2. k >= Nodes
    BY <1>3, <2>1, FullIs
  <2> QED
    BY <1>4, <1>9, <2>1, <2>2 DEF Deque!NoMemory
<1>10. ASSUME k > 0
       PROVE  /\ s # <<>> /\ s[1] = obj.node[obj.front].content
              /\ s[Len(s)] = obj.node[obj.rear].content
  <2>1. WithoutFront(Deque!UnlinkFront(obj), obj, k, w)
    BY <1>1, <1>10, UnlinkFrontIs
  <2>2. /\ Links!Contents(obj)[1] = obj.node[obj.front].content
        /\ Links!Contents(obj)[k] = obj.node[obj.rear].content
    BY ONLY <1>3, <1>10, <2>1, ReadRest
  <2> QED
    BY <1>4, <1>5, <1>10, <2>2
<1>11. ASSUME Deque!FrontRemove PROVE s # <<>> /\ t = Tail(s) /\ answer' = <<s[1]>>
  <2>1. k > 0
    BY <1>4, <1>6, <1>11 DEF Deque!FrontRemove
  <2>2. WithoutFront(obj', obj, k, w) /\ answer' = <<obj.node[obj.front].content>>
    BY <1>1, <1>11, <2>1, UnlinkFrontIs DEF Deque!FrontRemove
  <2>3. Links!Contents(obj') = Tail(Links!Contents(obj))
    BY ONLY <1>3, <2>1, <2>2, ReadRest
  <2> QED
    BY <1>4, <1>10, <2>1, <2>2, <2>3
<1>12. ASSUME Deque!RearRemove
       PROVE  s # <<>> /\ t = SubSeq(s, 1, Len(s) - 1) /\ answer' = <<s[Len(s)]>>
  <2>1. k > 0
    BY <1>4, <1>6, <1>12 DEF Deque!RearRemove
  <2>2. /\ WithoutRear(obj', obj, k, w) /\ obj'.size = obj.size - 1
        /\ answer' = <<obj.node[obj.rear].content>>
    BY <1>1, <1>12, <2>1, UnlinkRearIs DEF Deque!RearRemove
  <2>3. Links!Contents(obj') = SubSeq(Links!Contents(obj), 1, k - 1)
    BY ONLY <1>1, <1>3, <2>1, <2>2, ReadMost
  <2> QED
    BY <1>4, <1>10, <2>1, <2>2, <2>3
<1>13. ASSUME Deque!See PROVE s # <<>> /\ t = s /\ (answer' = <<s[1]>> \/ answer' = <<s[Len(s)]>>)
  <2>1. k > 0 /\ obj' = obj
    BY <1>4, <1>6, <1>13 DEF Deque!See
  <2> QED
    BY <1>4, <1>10, <1>13, <2>1 DEF Deque!See
<1>14. ASSUME Deque!SeeAll
       PROVE  (answer' = <<"all", s>> \/ answer' = <<"hash", Odd(s)>>) /\ t = s
  <2>1. Deque!Hash(obj) = Odd(s) /\ Deque!Contents(obj) = s
    BY <1>4, SeesOdd DEF Deque!Hash, s
  <2> QED
    BY <1>4, <1>14, <2>1 DEF Deque!SeeAll
<1>15. ASSUME Deque!EmptyFails PROVE s = <<>> /\ answer' = Nothing /\ t = s
  BY <1>4, <1>5, <1>6, <1>15 DEF Deque!EmptyFails
<1>16. ASSUME Deque!Count PROVE answer' = <<Len(s)>> /\ t = s
  BY <1>3, <1>4, <1>16 DEF Deque!Count
<1>17. ASSUME Deque!Renew PROVE answer' = <<"released", s>> /\ t = <<>>
  BY <1>4, <1>17, DequeIs, EmptyContents DEF Deque!Renew, s
<1>18. ASSUME NEW g \in Transform, Deque!Map(g)
       PROVE  t = [i \in 1..Len(s) |-> g[s[i]]] /\ answer' = <<>>
  <2> DEFINE h == [n \in Links!Id |-> IF n \in Range(w) THEN [obj.node[n] EXCEPT !.content = g[@]]
                                                       ELSE obj.node[n]]
             v == [i \in 1..k |-> g[s[i]]]
  <2>1. Deque!Walk(obj, obj.front, "next") = w /\ Deque!Range(w) = Range(w) /\ DOMAIN w = 1..k
    BY <1>3, WayIs, DequeWalk DEF Deque!Range, Range
  <2>2. obj' = [obj EXCEPT !.node = h] /\ answer' = <<>>
    BY <1>18, <2>1, DequeIs DEF Deque!Map
  <2>3. g \in [Element -> Element]
    BY <1>18, ElementIs
  <2>4. obj'.node = h
    BY <1>4, <2>2 DEF Links!List
  <2>5. \A i \in 1..k : w[i] \in Links!Id /\ w[i] \in Range(w) /\ obj.node[w[i]] \in Cell
    BY <1>3, <1>4, <2>1, WayIs, ListIs DEF Range
  <2>6. \A i \in 1..k : h[w[i]].content = g[obj.node[w[i]].content]
    BY <2>5 DEF Cell
  <2> HIDE DEF h
  <2>7. h = [n \in Links!Id |-> IF n \in Range(w) THEN [obj.node[n] EXCEPT !.content = g[@]]
                                                  ELSE obj.node[n]]
    BY DEF h
  <2>8. BothWays(obj', k, w) /\ Filled(obj')
    BY ONLY <1>1, <1>3, <2>2, <2>3, <2>7, MapIs
  <2>9. OneWay(obj', k, w)
    BY <2>8 DEF BothWays
  <2>10. /\ t = Read(obj', k, w) /\ t \in Seq(Element) /\ Len(t) = k
         /\ \A i \in 1..k : t[i] = obj'.node[w[i]].content
    BY <1>4, <2>8, <2>9, ReadIs
  <2>11. s = Read(obj, k, w) /\ \A i \in 1..k : s[i] = obj.node[w[i]].content
    BY <1>3, <1>4, ReadIs
  <2>12. \A i \in 1..k : t[i] = v[i]
    BY <2>4, <2>6, <2>10, <2>11
  <2>13. t \in [1..k -> Element]
    BY <2>10, LenProperties
  <2>14. t = v
    BY <2>12, <2>13
  <2> QED
    BY <1>4, <2>2, <2>14
<1>19. Deque!Abs!Odd = Odd(s)
  <2>1. \A T : Deque!Abs!Cardinality(T) = Cardinality(T)
    BY DEF Deque!Abs!Cardinality, Cardinality
  <2> QED
    BY <2>1 DEF Deque!Abs!Odd, Odd, s
<1> USE DEF s, t, Deque!Abs!First, Deque!Abs!Last, Deque!Abs!HasRoom
<1>20. \A e \in Element : (Deque!RearAdd(e) => Deque!Abs!AddRear(e))
                          /\ (Deque!FrontAdd(e) => Deque!Abs!AddFront(e))
  BY <1>4, <1>7, <1>8 DEF Deque!Abs!AddRear, Deque!Abs!AddFront
<1>21. \A g \in Transform : Deque!Map(g) => Deque!Abs!Map(g)
  BY <1>18 DEF Deque!Abs!Map
<1>22. (Deque!NoMemory \/ Deque!EmptyFails) => Deque!Abs!Fails
  BY <1>4, <1>9, <1>15 DEF Deque!Abs!Fails
<1>23. (Deque!FrontRemove => Deque!Abs!RemoveFront) /\ (Deque!RearRemove => Deque!Abs!RemoveRear)
  BY <1>11, <1>12 DEF Deque!Abs!RemoveFront, Deque!Abs!RemoveRear
<1>24. Deque!See => Deque!Abs!SeeFront \/ Deque!Abs!SeeRear
  BY <1>13 DEF Deque!Abs!SeeFront, Deque!Abs!SeeRear
<1>25. Deque!SeeAll => Deque!Abs!SeeAll \/ Deque!Abs!Hash
  BY <1>14, <1>19 DEF Deque!Abs!SeeAll, Deque!Abs!Hash
<1>26. (Deque!Count => Deque!Abs!Count) /\ (Deque!Renew => Deque!Abs!Renew(s))
  BY <1>16, <1>17 DEF Deque!Abs!Count, Deque!Abs!Renew
<1> HIDE DEF s, t, Deque!Abs!First, Deque!Abs!Last, Deque!Abs!HasRoom
<1> QED
  BY <1>20, <1>21, <1>22, <1>23, <1>24, <1>25, <1>26 DEF Deque!Next, Deque!Abs!DequeNext, s

-----------------------------------------------------------------------------
(* Stack, used by one thread: what it saw without the mutex still holds    *)
(* when it has the mutex.                                                  *)

Alone == \A t, u \in Thread : t = u

LifoInv ==
  /\ Lifo!TypeOK
  /\ obj.offset \in 0..obj.size
  /\ \A x \in 0..obj.offset - 1 : obj.data[x] \in Element
  /\ \A t \in Thread : /\ aux[t][1] = "push" => obj.offset < obj.size
                       /\ aux[t][1] \in {"pop", "peek"} => obj.offset >= 1

LEMMA StackStarts == Lifo!Init => LifoInv
<1> SUFFICES ASSUME Lifo!Init PROVE LifoInv
  OBVIOUS
<1>1. PICK n \in 1..Size : obj = Lifo!Construct(n)
  BY DEF Lifo!Init
<1>2. obj.offset = 0 /\ obj.size = n
  BY <1>1 DEF Lifo!Construct
<1>3. \A t \in Thread : aux[t][1] = "idle"
  BY DEF Lifo!Init, Lifo!Idle
<1> QED
  BY <1>2, <1>3, StackInit, SizeIs DEF LifoInv

LEMMA StackStep ==
  ASSUME Alone, LifoInv, Lifo!Next
  PROVE  LifoInv' /\ (Lifo!Abs!LifoNext \/ UNCHANGED <<obj, answer>>)
<1> DEFINE n == obj.size
           c == obj.offset
           d == obj.data
           s == Lifo!Contents(obj)
           t == Lifo!Contents(obj')
           Ways == {Lifo!Idle, <<"pop">>, <<"peek">>} \cup {<<"push", e>> : e \in Element}
<1>1. /\ obj \in [size : 1..Size, offset : -Size..2 * Size, data : [Lifo!Slot -> Element \cup {Null}]]
      /\ aux \in [Thread -> Ways]
      /\ n \in Nat /\ n <= Size /\ n >= 1 /\ c \in Nat /\ c <= n
      /\ \A x \in 0..c - 1 : d[x] \in Element
  BY SizeIs DEF LifoInv, Lifo!TypeOK
<1>2. \A u \in Thread : /\ aux[u][1] = "push" => c < n
                        /\ aux[u][1] \in {"pop", "peek"} => c >= 1
  BY DEF LifoInv
<1>3. /\ s = Places(d, c) /\ s \in Seq(Element) /\ Len(s) = c
      /\ \A i \in 1..c : s[i] = d[i - 1] /\ s[i] \in Element
  <2>1. c \in Nat /\ \A x \in 0..c - 1 : d[x] \in Element
    BY <1>1
  <2>2. s = Places(d, c)
    BY DEF Lifo!Contents, Places
  <2> HIDE DEF s, c, d
  <2>3. /\ Places(d, c) \in Seq(Element) /\ Len(Places(d, c)) = c
        /\ \A i \in 1..c : Places(d, c)[i] = d[i - 1] /\ d[i - 1] \in Element
    BY ONLY <2>1, PlacesIs
  <2> QED
    BY <2>2, <2>3
<1>4. Lifo!TypeOK'
  BY StackKeeps DEF LifoInv
<1>5. \A u, v \in Thread : u = v
  BY DEF Alone
<1>6. s = <<>> <=> c = 0
  BY <1>1, <1>3
(* Where the structure is as it was and the thread is idle then.           *)
<1>7. ASSUME obj' = obj, \A u \in Thread : aux'[u] = aux[u] \/ aux'[u] = Lifo!Idle PROVE LifoInv'
  <2>1. \A u \in Thread : /\ aux'[u][1] = "push" => c < n
                          /\ aux'[u][1] \in {"pop", "peek"} => c >= 1
    BY <1>2, <1>7 DEF Lifo!Idle
  <2> QED
    BY <1>1, <1>4, <1>7, <2>1 DEF LifoInv
<1> HIDE DEF s, t
<1>8. ASSUME NEW u \in Thread, NEW e \in Element, Lifo!StartPush(u, e)
      PROVE  LifoInv' /\ UNCHANGED <<obj, answer>>
  <2>1. aux'[u] = <<"push", e>> /\ c # n /\ UNCHANGED <<obj, answer>>
    BY <1>1, <1>8 DEF Lifo!StartPush, Lifo!Full
  <2>2. \A v \in Thread : aux'[v][1] = "push"
    BY <1>5, <2>1
  <2> QED
    BY <1>1, <1>4, <2>1, <2>2 DEF LifoInv
<1>9. ASSUME NEW u \in Thread, NEW op \in {"pop", "peek"}, Lifo!Start(u, op)
      PROVE  LifoInv' /\ UNCHANGED <<obj, answer>>
  <2>1. aux'[u] = <<op>> /\ c >= 1 /\ UNCHANGED <<obj, answer>>
    BY <1>1, <1>9 DEF Lifo!Start, Lifo!Bare
  <2>2. \A v \in Thread : aux'[v][1] = op /\ op # "push"
    BY <1>5, <2>1
  <2> QED
    BY <1>1, <1>4, <2>1, <2>2 DEF LifoInv
<1>10. ASSUME NEW u \in Thread, Lifo!Overflow(u) \/ Lifo!Underflow(u)
       PROVE  LifoInv' /\ Lifo!Abs!Fails
  <2>1. UNCHANGED <<obj, aux>> /\ answer' = Nothing /\ (c = n \/ c = 0)
    BY <1>1, <1>10 DEF Lifo!Overflow, Lifo!Underflow, Lifo!Full, Lifo!Bare
  <2>2. s = <<>> \/ ~(Len(s) < n)
    BY <1>1, <1>3, <1>6, <2>1
  <2> QED
    BY <1>7, <2>1, <2>2 DEF Lifo!Abs!Fails, Lifo!Abs!HasRoom, s
<1>11. ASSUME NEW u \in Thread, Lifo!Store(u)
       PROVE  LifoInv' /\ \E e \in Element : Lifo!Abs!AddRear(e) /\ obj'.size = n
  <2>1. PICK e \in Element : aux[u] = <<"push", e>>
    BY <1>1, <1>11 DEF Lifo!Store, Lifo!Idle
  <2> DEFINE b == [x \in Lifo!Slot |-> IF x = c THEN e ELSE d[x]]
  <2>2. /\ c < n /\ answer' = <<>> /\ aux' = [aux EXCEPT ![u] = Lifo!Idle]
        /\ obj' = [obj EXCEPT !.data = b, !.offset = c + 1]
    BY <1>2, <1>11, <2>1 DEF Lifo!Store, Lifo!Return
  <2>3. obj'.data = b /\ obj'.offset = c + 1 /\ obj'.size = n
    BY <1>1, <2>2
  <2>4. b[c] = e /\ \A x \in 0..c - 1 : b[x] = d[x]
    BY <1>1, <2>2, SizeIs DEF Lifo!Slot
  <2>5. \A v \in Thread : aux'[v] = Lifo!Idle
    BY <1>1, <1>5, <2>2
  <2> HIDE DEF b
  <2>6. \A x \in 0..c : b[x] \in Element
    BY <1>1, <2>4
  <2>7. LifoInv'
    <3>1. obj'.offset \in 0..obj'.size /\ \A x \in 0..obj'.offset - 1 : obj'.data[x] \in Element
      BY <1>1, <2>2, <2>3, <2>6
    <3>2. \A v \in Thread : aux'[v][1] = "idle"
      BY <2>5 DEF Lifo!Idle
    <3> QED
      BY <1>4, <3>1, <3>2 DEF LifoInv
  <2>8. t = Places(b, c + 1)
    BY <2>3 DEF Lifo!Contents, Places, t
  <2>9. c \in Nat /\ Grown(Element, b, d, c, e)
    BY <1>1, <2>4 DEF Grown
  <2>10. PICK m : m = c + 1
    OBVIOUS
  <2> HIDE DEF c, d
  <2>11. Places(b, m) = Extended(Places(d, c), e)
    BY ONLY <2>9, <2>10, PlacesAppend
  <2>12. t = Append(s, e)
    BY <1>3, <2>8, <2>10, <2>11 DEF Extended
  <2> QED
    BY <1>3, <2>2, <2>3, <2>7, <2>12 DEF Lifo!Abs!AddRear, Lifo!Abs!HasRoom, s, t, c
<1>12. ASSUME c >= 1 PROVE Lifo!Abs!Last = d[c - 1] /\ s # <<>>
  <2>1. c \in 1..c
    BY <1>1, <1>12
  <2> QED
    BY <1>1, <1>3, <1>6, <2>1 DEF Lifo!Abs!Last, s
<1>13. ASSUME NEW u \in Thread, Lifo!Pop(u) PROVE LifoInv' /\ Lifo!Abs!RemoveRear /\ obj'.size = n
  <2> DEFINE b == [x \in Lifo!Slot |-> IF x = c - 1 THEN Null ELSE d[x]]
  <2>1. /\ c >= 1 /\ answer' = <<d[c - 1]>> /\ aux' = [aux EXCEPT ![u] = Lifo!Idle]
        /\ obj' = [obj EXCEPT !.data = b, !.offset = c - 1]
    BY <1>1, <1>2, <1>13 DEF Lifo!Pop, Lifo!Return, Lifo!Bare
  <2>2. obj'.data = b /\ obj'.offset = c - 1 /\ obj'.size = n
    BY <1>1, <2>1
  <2>3. \A x \in 0..c - 2 : b[x] = d[x]
    BY <1>1, <2>1, SizeIs DEF Lifo!Slot
  <2>4. \A v \in Thread : aux'[v] = Lifo!Idle
    BY <1>1, <1>5, <2>1
  <2> HIDE DEF b
  <2>5. LifoInv'
    <3>1. obj'.offset \in 0..obj'.size /\ \A x \in 0..obj'.offset - 1 : obj'.data[x] \in Element
      BY <1>1, <2>1, <2>2, <2>3
    <3>2. \A v \in Thread : aux'[v][1] = "idle"
      BY <2>4 DEF Lifo!Idle
    <3> QED
      BY <1>4, <3>1, <3>2 DEF LifoInv
  <2> DEFINE w == SubSeq(s, 1, c - 1)
  <2>6. w \in Seq(Element) /\ Len(w) = c - 1 /\ \A i \in 1..c - 1 : w[i] = s[i]
    <3>1. 1 \in Int /\ c - 1 \in Int /\ \A i \in 1..c - 1 : s[i] \in Element
      BY <1>1, <1>3
    <3>2. /\ w \in Seq(Element) /\ Len(w) = IF 1 <= c - 1 THEN (c - 1) - 1 + 1 ELSE 0
          /\ \A i \in 1..(c - 1) - 1 + 1 : w[i] = s[1 + i - 1]
      BY ONLY <3>1, SubSeqProperties
    <3> HIDE DEF w
    <3> QED
      BY <1>1, <2>1, <3>2
  <2> HIDE DEF w
  <2>7. PICK m \in Nat : m = c - 1
    BY <1>1, <2>1
  <2>8. w \in Seq(Element) /\ Len(w) = m /\ \A i \in 1..m : b[i - 1] = w[i]
    <3>1. ASSUME NEW i \in 1..m PROVE b[i - 1] = w[i]
      <4>1. i - 1 \in 0..c - 2 /\ i \in 1..c /\ i \in 1..c - 1
        BY <1>1, <2>7
      <4> QED
        BY <1>3, <2>3, <2>6, <4>1
    <3> QED
      BY <2>6, <2>7, <3>1
  <2>9. Places(b, m) = w
    BY ONLY <2>7, <2>8, SamePlaces
  <2>10. t = w
    BY <2>2, <2>7, <2>9 DEF Lifo!Contents, Places, t
  <2>11. t = SubSeq(s, 1, Len(s) - 1)
    BY <1>3, <2>10 DEF w
  <2>12. Lifo!Abs!RemoveRear
    BY <1>12, <2>1, <2>11 DEF Lifo!Abs!RemoveRear, s, t
  <2> QED
    BY <2>2, <2>5, <2>12
<1>14. ASSUME NEW u \in Thread, Lifo!Peek(u) PROVE LifoInv' /\ Lifo!Abs!SeeRear /\ obj'.size = n
  <2>1. /\ c >= 1 /\ answer' = <<d[c - 1]>> /\ aux' = [aux EXCEPT ![u] = Lifo!Idle] /\ obj' = obj
    BY <1>1, <1>2, <1>14 DEF Lifo!Peek, Lifo!Return, Lifo!Bare
  <2>2. LifoInv'
    BY <1>1, <1>7, <2>1
  <2> QED
    BY <1>12, <2>1, <2>2 DEF Lifo!Abs!SeeRear, s
<1>15. ASSUME NEW u \in Thread, Lifo!SeeAll(u)
       PROVE  LifoInv' /\ (Lifo!Abs!SeeAll \/ Lifo!Abs!Hash) /\ obj'.size = n
  <2>1. \A T : Lifo!Abs!Cardinality(T) = Cardinality(T)
    BY DEF Lifo!Abs!Cardinality, Cardinality
  <2>2. Lifo!Abs!Odd = Odd(s)
    BY <2>1 DEF Lifo!Abs!Odd, Odd, s
  <2>3. Lifo!Hash(obj) = Odd(s)
    BY <1>3, SeesOdd DEF Lifo!Hash, s
  <2> QED
    BY <1>7, <1>15, <2>2, <2>3 DEF Lifo!SeeAll, Lifo!Abs!SeeAll, Lifo!Abs!Hash, s
<1>16. ASSUME NEW u \in Thread, Lifo!IsEmpty(u)
       PROVE  LifoInv' /\ Lifo!Abs!IsEmpty /\ obj'.size = n
  <2>1. (obj.offset = 0) = (s = <<>>)
    BY <1>6
  <2> QED
    BY <1>7, <1>16, <2>1 DEF Lifo!IsEmpty, Lifo!Abs!IsEmpty, s
<1>17. ASSUME Lifo!Renew PROVE LifoInv' /\ Lifo!Abs!Renew(<<>>) /\ obj'.size = n
  <2>1. obj'.offset = 0 /\ obj'.size = n /\ aux' = aux /\ answer' = <<"released", <<>>>>
        /\ \A v \in Thread : aux[v][1] = "idle"
    BY <1>17 DEF Lifo!Renew, Lifo!Construct, Lifo!Idle
  <2>2. t = [i \in 1..0 |-> obj'.data[i - 1]]
    BY <2>1 DEF Lifo!Contents, t
  <2>3. t = <<>>
    BY <2>2
  <2>4. LifoInv'
    BY <1>1, <1>4, <2>1 DEF LifoInv
  <2> QED
    BY <2>1, <2>3, <2>4 DEF Lifo!Abs!Renew, t
<1>18. \A u \in Thread : Lifo!Overflow(u) \/ Lifo!Underflow(u) => obj'.size = n
  BY DEF Lifo!Overflow, Lifo!Underflow
<1> HIDE DEF c, d, n
<1>19. CASE Lifo!Renew
  BY <1>17, <1>19 DEF Lifo!Abs!LifoNext, n
<1>20. ASSUME NEW u \in Thread,
              \/ \E e \in Element : Lifo!StartPush(u, e)
              \/ \E op \in {"pop", "peek"} : Lifo!Start(u, op)
       PROVE  LifoInv' /\ UNCHANGED <<obj, answer>>
  BY <1>8, <1>9, <1>20
<1>21. ASSUME NEW u \in Thread,
              \/ Lifo!Overflow(u) \/ Lifo!Underflow(u)
              \/ Lifo!Store(u) \/ Lifo!Pop(u) \/ Lifo!Peek(u) \/ Lifo!SeeAll(u) \/ Lifo!IsEmpty(u)
       PROVE  LifoInv' /\ Lifo!Abs!LifoNext
  BY <1>10, <1>11, <1>13, <1>14, <1>15, <1>16, <1>18, <1>21 DEF Lifo!Abs!LifoNext, n
<1> QED
  BY <1>19, <1>20, <1>21 DEF Lifo!Next

-----------------------------------------------------------------------------
(* Packing and unpacking.  What an unpacking loop has made after k turns   *)
(* is known; G[k] is the set of it.                                        *)

(* Stack: behind the offset there is nothing. *)
Bare == \A x \in Lifo!Slot : x >= obj.offset => obj.data[x] = Null

LEMMA BareStarts == Lifo!Init => Bare
BY SizeIs DEF Lifo!Init, Lifo!Construct, Bare

LEMMA BareStays == Lifo!TypeOK /\ Bare /\ Lifo!Next => Bare'
<1> SUFFICES ASSUME Lifo!TypeOK, Bare, Lifo!Next, NEW x \in Lifo!Slot, x >= obj'.offset
             PROVE  obj'.data[x] = Null
  BY DEF Bare
<1>1. /\ obj \in [size : 1..Size, offset : -Size..2 * Size, data : [Lifo!Slot -> Element \cup {Null}]]
      /\ x \in Int /\ obj.offset \in Int
  BY SizeIs DEF Lifo!TypeOK, Lifo!Slot
<1>2. ASSUME NEW t \in Thread, Lifo!Store(t) PROVE obj'.data[x] = Null
  <2>1. obj' = [obj EXCEPT !.data = [s \in Lifo!Slot |-> IF s = obj.offset THEN aux[t][2] ELSE obj.data[s]],
                           !.offset = obj.offset + 1]
    BY <1>2 DEF Lifo!Store
  <2>2. obj'.offset = obj.offset + 1 /\ obj'.data[x] = IF x = obj.offset THEN aux[t][2] ELSE obj.data[x]
    BY <1>1, <2>1
  <2> QED
    BY <1>1, <2>2 DEF Bare
<1>3. ASSUME NEW t \in Thread, Lifo!Pop(t) PROVE obj'.data[x] = Null
  <2>1. obj' = [obj EXCEPT !.data = [s \in Lifo!Slot |-> IF s = obj.offset - 1 THEN Null ELSE obj.data[s]],
                           !.offset = obj.offset - 1]
    BY <1>3 DEF Lifo!Pop
  <2>2. obj'.offset = obj.offset - 1 /\ obj'.data[x] = IF x = obj.offset - 1 THEN Null ELSE obj.data[x]
    BY <1>1, <2>1
  <2> QED
    BY <1>1, <2>2 DEF Bare
<1>4. ASSUME Lifo!Renew PROVE obj'.data[x] = Null
  BY <1>4 DEF Lifo!Renew, Lifo!Construct
<1>5. ASSUME UNCHANGED obj PROVE obj'.data[x] = Null
  BY <1>5 DEF Bare
<1> QED
  BY <1>2, <1>3, <1>4, <1>5
  DEF Lifo!Next, Lifo!StartPush, Lifo!Start, Lifo!Overflow, Lifo!Underflow, Lifo!Peek, Lifo!SeeAll,
      Lifo!IsEmpty

PushTurn(t, e) == [t EXCEPT !.data[t.offset] = e, !.offset = @ + 1]
Pushes(a, s) ==
  Lifo!Through(LAMBDA t, e : [t EXCEPT !.data[t.offset] = e, !.offset = @ + 1], a, s)

LEMMA PushesAll ==
  ASSUME NEW a, NEW n \in Nat, NEW s, Len(s) = n, NEW S, NEW G \in [0..n -> SUBSET S], a \in G[0],
         \A k \in 1..n : \A t \in G[k - 1] : PushTurn(t, s[k]) \in G[k]
  PROVE  Pushes(a, s) \in G[n]
<1> DEFINE F == [k \in 1..n |-> [t \in S |-> PushTurn(t, s[k])]]
           Turn(h) == [i \in 0..n |-> IF i = 0 THEN a ELSE PushTurn(h[i - 1], s[i])]
           after == CHOOSE h : h = Turn(h)
<1>0. SUFFICES after[n] \in G[n]
  BY DEF Pushes, PushTurn, Lifo!Through
<1>1. \A k \in 1..n : \A t \in S : F[k][t] = PushTurn(t, s[k])
  OBVIOUS
<1>2. \A k \in 1..n : G[k - 1] \subseteq S /\ k - 1 \in 0..n
  OBVIOUS
<1> HIDE DEF F
<1>3. PICK f : Passes(f, n, S, a, F, G)
  <2>1. Leads(n, S, G, F)
    BY <1>1, <1>2 DEF Leads
  <2> QED
    BY <2>1, Guided
<1>4. \A k \in 1..n : f[k] = PushTurn(f[k - 1], s[k])
  BY <1>1, <1>2, <1>3 DEF Passes
<1>5. \A i \in 0..n : i # 0 => i \in 1..n
  OBVIOUS
<1>6. f = Turn(f)
  BY <1>3, <1>4, <1>5 DEF Passes
<1>7. after = Turn(after)
  BY <1>6
<1> HIDE DEF after
<1>9. \A i \in 0..n : after[i] = IF i = 0 THEN a ELSE PushTurn(after[i - 1], s[i])
  BY <1>7
<1> DEFINE I == {i \in 0..n : after[i] = f[i]}
<1>10. 0 \in I
  BY <1>3, <1>9 DEF Passes
<1>11. ASSUME NEW k \in 1..n, k - 1 \in I PROVE k \in I
  BY <1>4, <1>9, <1>11
<1> HIDE DEF I
<1>12. \A i \in 0..n : i \in I
  BY <1>10, <1>11, InductionUpTo
<1> QED
  BY <1>3, <1>12 DEF I, Passes

LEMMA PushIs ==
  ASSUME NEW n, NEW o, NEW d, NEW e
  PROVE  PushTurn([size |-> n, offset |-> o, data |-> d], e)
           = [size |-> n, offset |-> o + 1, data |-> [d EXCEPT ![o] = e]]
<1> DEFINE r == [size |-> n, offset |-> o, data |-> d]
           b == [d EXCEPT ![o] = e]
           q == [size |-> n, offset |-> o, data |-> b]
<1>1. r.data = d /\ r.offset = o
  OBVIOUS
<1>2. [r.data EXCEPT ![r.offset] = e] = b
  BY ONLY <1>1
<1> HIDE DEF b
<1>3. [r EXCEPT !.data = b] = q
  OBVIOUS
<1>4. [q EXCEPT !.offset = o + 1] = [size |-> n, offset |-> o + 1, data |-> b]
  OBVIOUS
<1> HIDE DEF r, q
<1>5. PushTurn(r, e) = [[r EXCEPT !.data = [r.data EXCEPT ![r.offset] = e]] EXCEPT !.offset = r.offset + 1]
  BY DEF PushTurn
<1>6. PushTurn(r, e) = [q EXCEPT !.offset = o + 1]
  BY ONLY <1>1, <1>2, <1>3, <1>5
<1> QED
  BY <1>4, <1>6 DEF r, b

LEMMA StackPacks == LifoInv /\ Bare => Lifo!RoundTrip
<1> SUFFICES ASSUME LifoInv, Bare PROVE Lifo!Unpack(Lifo!Pack(obj)) = obj
  BY DEF Lifo!RoundTrip
<1> DEFINE c == obj.offset
           n == obj.size
           s == Lifo!Contents(obj)
           Data(k) == [x \in Lifo!Slot |-> IF x < k THEN obj.data[x] ELSE Null]
           Part(k) == [size |-> n, offset |-> k, data |-> Data(k)]
           S == {Part(k) : k \in 0..c}
           G == [k \in 0..c |-> {Part(k)}]
<1>1. /\ obj \in [size : 1..Size, offset : Int, data : [Lifo!Slot -> Element \cup {Null}]]
      /\ c \in 0..n /\ c \in Nat /\ n <= Size /\ \A x \in 0..c - 1 : x \in Lifo!Slot
  BY SizeIs DEF LifoInv, Lifo!TypeOK, Lifo!Slot
<1>2. Len(s) = c /\ \A k \in 1..c : s[k] = obj.data[k - 1]
  BY <1>1 DEF Lifo!Contents
<1>3. Lifo!Unpack(Lifo!Pack(obj)) = Pushes(Lifo!Construct(n), s)
  BY DEF Lifo!Unpack, Lifo!Pack, Pushes
<1>4. Lifo!Construct(n) = Part(0)
  BY SizeIs DEF Lifo!Construct, Lifo!Slot
<1>5. Part(c) = obj
  <2>1. ASSUME NEW x \in Lifo!Slot PROVE Data(c)[x] = obj.data[x]
    <3>1. x \in Int /\ Data(c)[x] = IF x < c THEN obj.data[x] ELSE Null
      BY <2>1, SizeIs DEF Lifo!Slot
    <3> QED
      BY <1>1, <2>1, <3>1 DEF Bare
  <2>2. Data(c) = [x \in Lifo!Slot |-> Data(c)[x]] /\ obj.data = [x \in Lifo!Slot |-> obj.data[x]]
    BY <1>1
  <2> HIDE DEF Data
  <2>3. Data(c) = obj.data
    BY <2>1, <2>2
  <2> QED
    BY <1>1, <2>3
<1>6. ASSUME NEW k \in 1..c PROVE PushTurn(Part(k - 1), s[k]) = Part(k)
  <2> DEFINE d == Data(k - 1)
             e == s[k]
             b == [d EXCEPT ![k - 1] = e]
  <2>1. k \in Int /\ (k - 1) + 1 = k /\ k - 1 \in Lifo!Slot /\ e = obj.data[k - 1]
    BY <1>1, <1>2
  <2>2. \A x \in Lifo!Slot : x \in Int /\ d[x] = IF x < k - 1 THEN obj.data[x] ELSE Null
    BY SizeIs DEF Lifo!Slot
  <2>3. DOMAIN d = Lifo!Slot
    OBVIOUS
  <2> HIDE DEF d, e
  <2>4. \A x \in Lifo!Slot : b[x] = IF x < k THEN obj.data[x] ELSE Null
    BY <2>1, <2>2, <2>3
  <2>5. b = [x \in Lifo!Slot |-> b[x]]
    BY <2>3
  <2> HIDE DEF b
  <2>6. b = Data(k)
    BY <2>4, <2>5
  <2>7. PushTurn([size |-> n, offset |-> k - 1, data |-> d], e) = [size |-> n, offset |-> k, data |-> b]
    BY <2>1, PushIs DEF b
  <2> QED
    BY <2>6, <2>7 DEF d, e
<1> HIDE DEF Part, s
<1>7. G \in [0..c -> SUBSET S] /\ Part(0) \in G[0] /\ G[c] = {Part(c)}
  BY <1>1
<1>8. \A k \in 1..c : \A t \in G[k - 1] : PushTurn(t, s[k]) \in G[k]
  <2> SUFFICES ASSUME NEW k \in 1..c PROVE PushTurn(Part(k - 1), s[k]) \in {Part(k)}
    BY <1>1
  <2> QED
    BY <1>6
<1> HIDE DEF S, G, c
<1>9. Pushes(Part(0), s) \in G[c]
  BY <1>1, <1>2, <1>7, <1>8, PushesAll
<1> QED
  BY <1>3, <1>4, <1>5, <1>7, <1>9

(* Array: the last element doubles the room. *)
Adds(a, s) == Vector!Through(Vector!Added, a, s)
AddTurn(t, e) == Vector!Added(t, e)

LEMMA VectorAddsAll ==
  ASSUME NEW a, NEW n \in Nat, NEW s, Len(s) = n, NEW S, NEW G \in [0..n -> SUBSET S], a \in G[0],
         \A k \in 1..n : \A t \in G[k - 1] : AddTurn(t, s[k]) \in G[k]
  PROVE  Adds(a, s) \in G[n]
<1> DEFINE F == [k \in 1..n |-> [t \in S |-> AddTurn(t, s[k])]]
           Turn(h) == [i \in 0..n |-> IF i = 0 THEN a ELSE AddTurn(h[i - 1], s[i])]
           after == CHOOSE h : h = Turn(h)
<1>0. SUFFICES after[n] \in G[n]
  BY DEF Adds, AddTurn, Vector!Through
<1>1. \A k \in 1..n : \A t \in S : F[k][t] = AddTurn(t, s[k])
  OBVIOUS
<1>2. \A k \in 1..n : G[k - 1] \subseteq S /\ k - 1 \in 0..n
  OBVIOUS
<1> HIDE DEF F
<1>3. PICK f : Passes(f, n, S, a, F, G)
  <2>1. Leads(n, S, G, F)
    BY <1>1, <1>2 DEF Leads
  <2> QED
    BY <2>1, Guided
<1>4. \A k \in 1..n : f[k] = AddTurn(f[k - 1], s[k])
  BY <1>1, <1>2, <1>3 DEF Passes
<1>5. \A i \in 0..n : i # 0 => i \in 1..n
  OBVIOUS
<1>6. f = Turn(f)
  BY <1>3, <1>4, <1>5 DEF Passes
<1>7. after = Turn(after)
  BY <1>6
<1> HIDE DEF after
<1>9. \A i \in 0..n : after[i] = IF i = 0 THEN a ELSE AddTurn(after[i - 1], s[i])
  BY <1>7
<1> DEFINE I == {i \in 0..n : after[i] = f[i]}
<1>10. 0 \in I
  BY <1>3, <1>9 DEF Passes
<1>11. ASSUME NEW k \in 1..n, k - 1 \in I PROVE k \in I
  BY <1>4, <1>9, <1>11
<1> HIDE DEF I
<1>12. \A i \in 0..n : i \in I
  BY <1>10, <1>11, InductionUpTo
<1> QED
  BY <1>3, <1>12 DEF I, Passes

(* An array that is not full takes one more at the end. *)
LEMMA StoredIs ==
  ASSUME NEW c \in Nat, NEW n \in Nat, NEW d, DOMAIN d = 0..n - 1, NEW e
  PROVE  Vector!Stored([count |-> c, max |-> n, elements |-> d], e)
           = [count |-> c + 1, max |-> n, elements |-> [d EXCEPT ![c] = e]]
<1> DEFINE r == [count |-> c, max |-> n, elements |-> d]
           b == [d EXCEPT ![c] = e]
           q == [count |-> c, max |-> n, elements |-> b]
<1>1. r.elements = d /\ r.count = c
  OBVIOUS
<1>2. [r.elements EXCEPT ![r.count] = e] = b
  BY ONLY <1>1
<1> HIDE DEF b
<1>3. [r EXCEPT !.elements = b] = q
  OBVIOUS
<1>4. [q EXCEPT !.count = c + 1] = [count |-> c + 1, max |-> n, elements |-> b]
  OBVIOUS
<1> HIDE DEF r, q
<1>5. Vector!Stored(r, e) = [[r EXCEPT !.elements = [r.elements EXCEPT ![r.count] = e]] EXCEPT !.count = r.count + 1]
  BY DEF Vector!Stored
<1>6. Vector!Stored(r, e) = [q EXCEPT !.count = c + 1]
  BY ONLY <1>1, <1>2, <1>3, <1>5
<1> QED
  BY <1>4, <1>6 DEF r, b

VectorOf(c, n, d) == [count |-> c, max |-> n, elements |-> d]

LEMMA VectorIs ==
  ASSUME NEW c, NEW n, NEW d, NEW m, NEW b
  PROVE  /\ VectorOf(c, n, d).count = c /\ VectorOf(c, n, d).max = n /\ VectorOf(c, n, d).elements = d
         /\ [VectorOf(c, n, d) EXCEPT !.max = m] = VectorOf(c, m, d)
         /\ [VectorOf(c, n, d) EXCEPT !.elements = b] = VectorOf(c, n, b)
BY DEF VectorOf

(* d with e behind its c elements is b; m is twice n. *)
AddLeads(c, n, d, e, b, m) ==
  AddTurn(VectorOf(c, n, d), e)
    = IF c + 1 < n THEN VectorOf(c + 1, n, b) ELSE VectorOf(c + 1, m, Vector!Resized(b, m))

LEMMA AddedTo ==
  ASSUME NEW c \in Nat, NEW n \in Nat, NEW d, DOMAIN d = 0..n - 1, NEW e,
         NEW b, b = [d EXCEPT ![c] = e], NEW m, m = 2 * n
  PROVE  AddLeads(c, n, d, e, b, m)
<1> DEFINE q == VectorOf(c + 1, n, b)
           z == Vector!Resized(b, m)
<1>1. Vector!Stored(VectorOf(c, n, d), e) = q
  BY StoredIs DEF VectorOf
<1>2. AddTurn(VectorOf(c, n, d), e)
        = IF q.count < q.max THEN q
          ELSE [[q EXCEPT !.max = 2 * q.max] EXCEPT
                  !.elements = Vector!Resized([q EXCEPT !.max = 2 * q.max].elements, 2 * q.max)]
  BY ONLY <1>1 DEF AddTurn, Vector!Added
<1>3. q.count = c + 1 /\ q.max = n
  BY VectorIs
<1>4. [q EXCEPT !.max = m] = VectorOf(c + 1, m, b) /\ VectorOf(c + 1, m, b).elements = b
  BY ONLY VectorIs
<1>5. [VectorOf(c + 1, m, b) EXCEPT !.elements = z] = VectorOf(c + 1, m, z)
  BY VectorIs
<1> HIDE DEF q
<1>6. AddTurn(VectorOf(c, n, d), e) = IF c + 1 < n THEN q ELSE VectorOf(c + 1, m, z)
  BY ONLY m = 2 * n, <1>2, <1>3, <1>4, <1>5 DEF z
<1> QED
  BY <1>6 DEF q, AddLeads

LEMMA ArrayPacks == ArrayInv => Vector!RoundTrip
<1> SUFFICES ASSUME ArrayInv, obj.elements # Vector!Unset, obj.count > 0
             PROVE  LET copy == Vector!Unpack(Vector!Pack(obj))
                    IN  Vector!Contents(copy) = Vector!Contents(obj) /\ copy.count < copy.max
  BY DEF Vector!RoundTrip
<1> DEFINE n == obj.count
           s == Vector!Contents(obj)
           Room(k) == IF k < n THEN n ELSE 2 * n
           Data(k) == [x \in 0..Room(k) - 1 |-> IF x < k THEN s[x + 1] ELSE Null]
           Part(k) == [count |-> k, max |-> Room(k), elements |-> Data(k)]
           S == {Part(k) : k \in 0..n}
           G == [k \in 0..n |-> {Part(k)}]
<1>1. n \in Nat /\ n >= 1
  BY NodesIs DEF ArrayInv, Vector!TypeOK
<1>2. Len(s) = n /\ s = [i \in 1..n |-> s[i]]
  BY <1>1 DEF Vector!Contents
<1> HIDE DEF s
<1>3. Vector!Unpack(Vector!Pack(obj)) = Adds(Vector!Construct(n), s)
  <2>1. s # <<>>
    BY <1>1, <1>2
  <2> QED
    BY <1>2, <2>1 DEF Vector!Unpack, Vector!Pack, Adds, s
<1>4. Vector!Construct(n) = Part(0)
  <2>1. \A x \in 0..n - 1 : ~(x < 0)
    BY <1>1
  <2>2. Data(0) = [x \in 0..n - 1 |-> Null]
    BY <1>1, <2>1
  <2> QED
    BY <1>1, <2>2 DEF Vector!Construct
<1>5. ASSUME NEW k \in 1..n PROVE AddTurn(Part(k - 1), s[k]) = Part(k)
  <2> DEFINE d == Data(k - 1)
             e == s[k]
             b == [d EXCEPT ![k - 1] = e]
             c == k - 1
  <2>1. k \in Nat /\ c \in Nat /\ c + 1 = k /\ c \in 0..n - 1 /\ Room(c) = n
    BY <1>1
  <2>2. \A x \in 0..n - 1 : d[x] = IF x < k - 1 THEN s[x + 1] ELSE Null
    BY <2>1
  <2>3. DOMAIN d = 0..n - 1
    BY <2>1
  <2> HIDE DEF d
  <2>4. \A x \in 0..n - 1 : b[x] = IF x < k THEN s[x + 1] ELSE Null
    BY <1>1, <2>1, <2>2, <2>3
  <2>5. DOMAIN b = 0..n - 1
    BY <2>3
  <2>0. PICK m \in Nat : m = 2 * n
    BY <1>1
  <2>6. AddLeads(c, n, d, e, b, m)
    <3>1. b = [d EXCEPT ![c] = e] /\ c \in Nat /\ n \in Nat
      BY <1>1, <2>1
    <3> HIDE DEF b, c, e, n
    <3> QED
      BY ONLY <2>0, <2>3, <3>1, AddedTo, Zenon
  <2> HIDE DEF b
  <2>7. b = [x \in 0..n - 1 |-> b[x]]
    BY <2>4, <2>5 DEF b
  <2>8. ASSUME k < n PROVE b = Data(k)
    BY <2>4, <2>7, <2>8
  <2>9. ASSUME ~(k < n) PROVE Vector!Resized(b, m) = Data(k)
    <3>1. \A x \in 0..2 * n - 1 : (IF x \in DOMAIN b THEN b[x] ELSE Null) = IF x < k THEN s[x + 1] ELSE Null
      BY <1>1, <2>1, <2>4, <2>5, <2>9
    <3>2. Vector!Resized(b, m) = [x \in 0..2 * n - 1 |-> IF x \in DOMAIN b THEN b[x] ELSE Null]
      BY <2>0 DEF Vector!Resized
    <3> QED
      BY <2>0, <2>9, <3>1, <3>2
  <2> HIDE DEF Data
  <2>10. Part(c) = VectorOf(c, n, d)
    BY <2>1 DEF d, VectorOf
  <2>11. Part(k) = VectorOf(k, Room(k), Data(k))
    BY DEF VectorOf
  <2>12. Room(k) = IF k < n THEN n ELSE m
    BY <2>0
  <2> HIDE DEF Part, Room
  <2> QED
    BY <2>0, <2>1, <2>6, <2>8, <2>9, <2>10, <2>11, <2>12 DEF AddLeads
<1>6. Part(n).count = n /\ Part(n).max = 2 * n /\ \A i \in 1..n : Part(n).elements[i - 1] = s[i]
  BY <1>1
<1> HIDE DEF Part
<1>7. G \in [0..n -> SUBSET S] /\ Part(0) \in G[0] /\ G[n] = {Part(n)}
  BY <1>1
<1>8. \A k \in 1..n : \A t \in G[k - 1] : AddTurn(t, s[k]) \in G[k]
  <2> SUFFICES ASSUME NEW k \in 1..n PROVE AddTurn(Part(k - 1), s[k]) \in {Part(k)}
    BY <1>1
  <2> QED
    BY <1>5
<1> HIDE DEF S, G, n
<1>9. Adds(Part(0), s) \in G[n]
  BY <1>1, <1>2, <1>7, <1>8, VectorAddsAll, Zenon
<1>10. Vector!Unpack(Vector!Pack(obj)) = Part(n)
  BY <1>3, <1>4, <1>7, <1>9
<1>11. Vector!Contents(Part(n)) = s
  BY <1>2, <1>6 DEF Vector!Contents
<1> QED
  BY <1>1, <1>6, <1>10, <1>11 DEF s

(* Cache: packed last to first, so that each goes in front of the others.  *)
LruTurn(t, e) == [t EXCEPT !.data = Lru!ToFront(@, t.count, e), !.count = @ + 1]
Fronts(a, s) ==
  Lru!Through(LAMBDA t, e : [t EXCEPT !.data = Lru!ToFront(@, t.count, e), !.count = @ + 1], a, s)

LEMMA FrontsAll ==
  ASSUME NEW a, NEW n \in Nat, NEW s, Len(s) = n, NEW S, NEW G \in [0..n -> SUBSET S], a \in G[0],
         \A k \in 1..n : \A t \in G[k - 1] : LruTurn(t, s[k]) \in G[k]
  PROVE  Fronts(a, s) \in G[n]
<1> DEFINE F == [k \in 1..n |-> [t \in S |-> LruTurn(t, s[k])]]
           Turn(h) == [i \in 0..n |-> IF i = 0 THEN a ELSE LruTurn(h[i - 1], s[i])]
           after == CHOOSE h : h = Turn(h)
<1>0. SUFFICES after[n] \in G[n]
  BY DEF Fronts, LruTurn, Lru!Through
<1>1. \A k \in 1..n : \A t \in S : F[k][t] = LruTurn(t, s[k])
  OBVIOUS
<1>2. \A k \in 1..n : G[k - 1] \subseteq S /\ k - 1 \in 0..n
  OBVIOUS
<1> HIDE DEF F
<1>3. PICK f : Passes(f, n, S, a, F, G)
  <2>1. Leads(n, S, G, F)
    BY <1>1, <1>2 DEF Leads
  <2> QED
    BY <2>1, Guided
<1>4. \A k \in 1..n : f[k] = LruTurn(f[k - 1], s[k])
  BY <1>1, <1>2, <1>3 DEF Passes
<1>5. \A i \in 0..n : i # 0 => i \in 1..n
  OBVIOUS
<1>6. f = Turn(f)
  BY <1>3, <1>4, <1>5 DEF Passes
<1>7. after = Turn(after)
  BY <1>6
<1> HIDE DEF after
<1>9. \A i \in 0..n : after[i] = IF i = 0 THEN a ELSE LruTurn(after[i - 1], s[i])
  BY <1>7
<1> DEFINE I == {i \in 0..n : after[i] = f[i]}
<1>10. 0 \in I
  BY <1>3, <1>9 DEF Passes
<1>11. ASSUME NEW k \in 1..n, k - 1 \in I PROVE k \in I
  BY <1>4, <1>9, <1>11
<1> HIDE DEF I
<1>12. \A i \in 0..n : i \in I
  BY <1>10, <1>11, InductionUpTo
<1> QED
  BY <1>3, <1>12 DEF I, Passes

CacheOf(c, n, d, f) == [count |-> c, max |-> n, data |-> d, frees |-> f]

LEMMA LruTurnIs ==
  ASSUME NEW c, NEW n, NEW d, NEW f, NEW e
  PROVE  LruTurn(CacheOf(c, n, d, f), e) = CacheOf(c + 1, n, Lru!ToFront(d, c, e), f)
<1> DEFINE r == CacheOf(c, n, d, f)
           b == Lru!ToFront(d, c, e)
           q == CacheOf(c, n, b, f)
<1>1. r.data = d /\ r.count = c
  BY DEF CacheOf
<1>2. Lru!ToFront(r.data, r.count, e) = b
  BY ONLY <1>1
<1> HIDE DEF b
<1>3. [r EXCEPT !.data = b] = q
  BY DEF CacheOf
<1>4. [q EXCEPT !.count = c + 1] = CacheOf(c + 1, n, b, f)
  BY DEF CacheOf
<1> HIDE DEF r, q
<1>5. LruTurn(r, e) = [[r EXCEPT !.data = Lru!ToFront(r.data, r.count, e)] EXCEPT !.count = r.count + 1]
  BY DEF LruTurn
<1>6. LruTurn(r, e) = [q EXCEPT !.count = c + 1]
  BY ONLY <1>1, <1>2, <1>3, <1>5, Zenon
<1> QED
  BY <1>4, <1>6 DEF r, b

LEMMA CachePacks == CacheInv => Lru!RoundTrip
<1> SUFFICES ASSUME CacheInv
             PROVE  Lru!Contents(Lru!Unpack(Lru!Pack(obj))) = Lru!Contents(obj)
  BY DEF Lru!RoundTrip
<1> DEFINE c == obj.count
           n == obj.max
           h == Lru!Contents(obj)
           s == Lru!Backwards(h)
           Data(k) == [x \in Lru!Slot |-> IF x < k THEN s[k - x] ELSE Null]
           Part(k) == CacheOf(k, n, Data(k), FALSE)
           S == {Part(k) : k \in 0..c}
           G == [k \in 0..c |-> {Part(k)}]
<1>1. /\ c \in 0..Size /\ c \in Nat /\ Lru!Slot = 0..Size - 1
      /\ h \in Seq(Element) /\ Len(h) = c /\ h = [i \in 1..c |-> h[i]]
  BY CacheItems, SizeIs DEF CacheInv, Lru!TypeOK, Lru!Slot, Lru!Contents
<1> HIDE DEF h
<1>2. Len(s) = c /\ \A i \in 1..c : s[i] = h[c + 1 - i]
  BY <1>1 DEF Lru!Backwards
<1> HIDE DEF s
<1>3. Lru!Unpack(Lru!Pack(obj)) = Fronts(Lru!Construct(n, FALSE), s)
  BY DEF Lru!Unpack, Lru!Pack, Fronts, s, h
<1>4. Lru!Construct(n, FALSE) = Part(0)
  <2>1. \A x \in Lru!Slot : ~(x < 0)
    BY <1>1
  <2>2. Data(0) = [x \in Lru!Slot |-> Null]
    BY <2>1
  <2> QED
    BY <2>2 DEF Lru!Construct, CacheOf
<1>5. ASSUME NEW k \in 1..c PROVE LruTurn(Part(k - 1), s[k]) = Part(k)
  <2> DEFINE d == Data(k - 1)
             e == s[k]
             b == Lru!ToFront(d, k - 1, e)
  <2>1. k \in Nat /\ k - 1 \in Nat /\ (k - 1) + 1 = k
    BY <1>1
  <2>2. \A x \in Lru!Slot : d[x] = IF x < k - 1 THEN s[(k - 1) - x] ELSE Null
    OBVIOUS
  <2> HIDE DEF d
  <2>3. \A x \in Lru!Slot : b[x] = IF x = 0 THEN e ELSE IF x <= k - 1 THEN d[x - 1] ELSE d[x]
    BY DEF Lru!ToFront
  <2>4. b = [x \in Lru!Slot |-> b[x]]
    BY DEF Lru!ToFront
  <2> HIDE DEF b
  <2>5. ASSUME NEW x \in Lru!Slot PROVE b[x] = IF x < k THEN s[k - x] ELSE Null
    <3>1. x \in Nat /\ (x # 0 => x - 1 \in Lru!Slot) /\ x < Size
      BY <1>1, SizeIs
    <3>2. CASE x = 0
      BY <2>1, <2>3, <3>2
    <3>3. CASE x # 0 /\ x <= k - 1
      <4>1. b[x] = d[x - 1] /\ d[x - 1] = IF x - 1 < k - 1 THEN s[(k - 1) - (x - 1)] ELSE Null
        BY <2>2, <2>3, <3>1, <3>3
      <4>2. (k - 1) - (x - 1) = k - x /\ x - 1 < k - 1 /\ x < k
        BY <2>1, <3>1, <3>3
      <4> QED
        BY <4>1, <4>2
    <3>4. CASE ~(x <= k - 1)
      BY <2>1, <2>2, <2>3, <3>1, <3>4
    <3> QED
      BY <3>2, <3>3, <3>4
  <2>6. b = Data(k)
    BY <2>4, <2>5
  <2> HIDE DEF e, Data
  <2>7. LruTurn(CacheOf(k - 1, n, d, FALSE), e) = CacheOf((k - 1) + 1, n, b, FALSE)
    <3> DEFINE f == FALSE
               i == k - 1
    <3> HIDE DEF f, i
    <3>1. LruTurn(CacheOf(i, n, d, f), e) = CacheOf(i + 1, n, Lru!ToFront(d, i, e), f)
      BY LruTurnIs
    <3> QED
      BY <3>1 DEF b, f, i
  <2>8. CacheOf((k - 1) + 1, n, b, FALSE) = CacheOf(k, n, b, FALSE)
    BY <2>1
  <2> QED
    BY <2>6, <2>7, <2>8, Zenon DEF d, e
<1>6. Part(c).count = c /\ \A i \in 1..c : Part(c).data[i - 1] = h[i]
  <2>1. Part(c).count = c /\ Part(c).data = Data(c)
    BY DEF CacheOf
  <2>2. ASSUME NEW i \in 1..c PROVE Data(c)[i - 1] = h[i]
    <3>1. i - 1 \in Lru!Slot /\ i - 1 < c /\ c - (i - 1) \in 1..c /\ c + 1 - (c - (i - 1)) = i
      BY <1>1, SizeIs
    <3>2. Data(c)[i - 1] = s[c - (i - 1)]
      BY <3>1
    <3> QED
      BY <1>2, <3>1, <3>2
  <2> QED
    BY <2>1, <2>2, Zenon
<1> HIDE DEF Part
<1>7. G \in [0..c -> SUBSET S] /\ Part(0) \in G[0] /\ G[c] = {Part(c)}
  BY <1>1
<1>8. \A k \in 1..c : \A t \in G[k - 1] : LruTurn(t, s[k]) \in G[k]
  <2> SUFFICES ASSUME NEW k \in 1..c PROVE LruTurn(Part(k - 1), s[k]) \in {Part(k)}
    BY <1>1
  <2> QED
    BY <1>5
<1> HIDE DEF S, G, c
<1>9. Fronts(Part(0), s) \in G[c]
  BY <1>1, <1>2, <1>7, <1>8, FrontsAll
<1>10. Lru!Unpack(Lru!Pack(obj)) = Part(c)
  BY <1>3, <1>4, <1>7, <1>9
<1>11. Lru!Contents(Part(c)) = h
  BY <1>1, <1>6 DEF Lru!Contents
<1> QED
  BY <1>10, <1>11 DEF h

(* Queue and double queue: node i holds the i-th element read. *)
EnqueueTurn(u, l, i) == Fifo!LinkRear(l, i, u[i])
Enqueues(u, a, s) == Fifo!Through(LAMBDA l, i : Fifo!LinkRear(l, i, u[i]), a, s)
DequeTurn(u, l, i) == Deque!LinkFront(l, i, u[i])
FrontAdds(u, a, s) == Deque!Through(LAMBDA l, i : Deque!LinkFront(l, i, u[i]), a, s)

LEMMA EnqueuesAll ==
  ASSUME NEW u, NEW a, NEW n \in Nat, NEW s, Len(s) = n, NEW S, NEW G \in [0..n -> SUBSET S], a \in G[0],
         \A k \in 1..n : \A t \in G[k - 1] : EnqueueTurn(u, t, s[k]) \in G[k]
  PROVE  Enqueues(u, a, s) \in G[n]
<1> DEFINE F == [k \in 1..n |-> [t \in S |-> EnqueueTurn(u, t, s[k])]]
           Turn(h) == [i \in 0..n |-> IF i = 0 THEN a ELSE EnqueueTurn(u, h[i - 1], s[i])]
           after == CHOOSE h : h = Turn(h)
<1>0. SUFFICES after[n] \in G[n]
  BY DEF Enqueues, EnqueueTurn, Fifo!Through
<1>1. \A k \in 1..n : \A t \in S : F[k][t] = EnqueueTurn(u, t, s[k])
  OBVIOUS
<1>2. \A k \in 1..n : G[k - 1] \subseteq S /\ k - 1 \in 0..n
  OBVIOUS
<1> HIDE DEF F
<1>3. PICK f : Passes(f, n, S, a, F, G)
  <2>1. Leads(n, S, G, F)
    BY <1>1, <1>2 DEF Leads
  <2> QED
    BY <2>1, Guided
<1>4. \A k \in 1..n : f[k] = EnqueueTurn(u, f[k - 1], s[k])
  BY <1>1, <1>2, <1>3 DEF Passes
<1>5. \A i \in 0..n : i # 0 => i \in 1..n
  OBVIOUS
<1>6. f = Turn(f)
  BY <1>3, <1>4, <1>5 DEF Passes
<1>7. after = Turn(after)
  BY <1>6
<1> HIDE DEF after
<1>9. \A i \in 0..n : after[i] = IF i = 0 THEN a ELSE EnqueueTurn(u, after[i - 1], s[i])
  BY <1>7
<1> DEFINE I == {i \in 0..n : after[i] = f[i]}
<1>10. 0 \in I
  BY <1>3, <1>9 DEF Passes
<1>11. ASSUME NEW k \in 1..n, k - 1 \in I PROVE k \in I
  BY <1>4, <1>9, <1>11
<1> HIDE DEF I
<1>12. \A i \in 0..n : i \in I
  BY <1>10, <1>11, InductionUpTo
<1> QED
  BY <1>3, <1>12 DEF I, Passes

LEMMA FrontAddsAll ==
  ASSUME NEW u, NEW a, NEW n \in Nat, NEW s, Len(s) = n, NEW S, NEW G \in [0..n -> SUBSET S], a \in G[0],
         \A k \in 1..n : \A t \in G[k - 1] : DequeTurn(u, t, s[k]) \in G[k]
  PROVE  FrontAdds(u, a, s) \in G[n]
<1> DEFINE F == [k \in 1..n |-> [t \in S |-> DequeTurn(u, t, s[k])]]
           Turn(h) == [i \in 0..n |-> IF i = 0 THEN a ELSE DequeTurn(u, h[i - 1], s[i])]
           after == CHOOSE h : h = Turn(h)
<1>0. SUFFICES after[n] \in G[n]
  BY DEF FrontAdds, DequeTurn, Deque!Through
<1>1. \A k \in 1..n : \A t \in S : F[k][t] = DequeTurn(u, t, s[k])
  OBVIOUS
<1>2. \A k \in 1..n : G[k - 1] \subseteq S /\ k - 1 \in 0..n
  OBVIOUS
<1> HIDE DEF F
<1>3. PICK f : Passes(f, n, S, a, F, G)
  <2>1. Leads(n, S, G, F)
    BY <1>1, <1>2 DEF Leads
  <2> QED
    BY <2>1, Guided
<1>4. \A k \in 1..n : f[k] = DequeTurn(u, f[k - 1], s[k])
  BY <1>1, <1>2, <1>3 DEF Passes
<1>5. \A i \in 0..n : i # 0 => i \in 1..n
  OBVIOUS
<1>6. f = Turn(f)
  BY <1>3, <1>4, <1>5 DEF Passes
<1>7. after = Turn(after)
  BY <1>6
<1> HIDE DEF after
<1>9. \A i \in 0..n : after[i] = IF i = 0 THEN a ELSE DequeTurn(u, after[i - 1], s[i])
  BY <1>7
<1> DEFINE I == {i \in 0..n : after[i] = f[i]}
<1>10. 0 \in I
  BY <1>3, <1>9 DEF Passes
<1>11. ASSUME NEW k \in 1..n, k - 1 \in I PROVE k \in I
  BY <1>4, <1>9, <1>11
<1> HIDE DEF I
<1>12. \A i \in 0..n : i \in I
  BY <1>10, <1>11, InductionUpTo
<1> QED
  BY <1>3, <1>12 DEF I, Passes

(* The first k nodes are used, and hold the first k elements of h in their *)
(* order, or in the opposite one.                                          *)
OnlyFirst(l, k) == Filled(l) /\ \A n \in Links!Id : l.node[n].live => n <= k
RearUpto(l, h, k) ==
  /\ OnlyFirst(l, k) /\ \E w : OneWay(l, k, w)
  /\ Len(Links!Contents(l)) = k /\ \A i \in 1..k : Links!Contents(l)[i] = h[i]
FrontUpto(l, h, k) ==
  /\ OnlyFirst(l, k) /\ \E w : BothWays(l, k, w)
  /\ Len(Links!Contents(l)) = k /\ \A i \in 1..k : Links!Contents(l)[i] = h[k + 1 - i]

LEMMA NoneUpto == ASSUME NEW h PROVE RearUpto(Links!Empty, h, 0) /\ FrontUpto(Links!Empty, h, 0)
<1>1. BothWays(Links!Empty, 0, <<>>) /\ OneWay(Links!Empty, 0, <<>>)
  BY EmptyWay DEF BothWays
<1>2. OnlyFirst(Links!Empty, 0)
  BY EmptyFilled DEF OnlyFirst, Links!Empty, Links!Unallocated
<1>3. Len(Links!Contents(Links!Empty)) = 0 /\ \A i \in 1..0 : FALSE
  BY EmptyContents
<1> QED
  BY <1>1, <1>2, <1>3 DEF RearUpto, FrontUpto

LEMMA RearOne ==
  ASSUME NEW h \in Seq(Element), Len(h) <= Nodes, NEW k \in 1..Len(h), NEW l, RearUpto(l, h, k - 1)
  PROVE  RearUpto(Links!LinkRear(l, k, h[k]), h, k)
<1> DEFINE r == Links!LinkRear(l, k, h[k])
           j == k - 1
           e == h[k]
<1>1. /\ k \in Links!Id /\ j \in Nat /\ j + 1 = k /\ ~l.node[k].live /\ Filled(l) /\ e \in Element
      /\ l \in Links!List
  BY NodesIs DEF RearUpto, OnlyFirst, OneWay, Links!Id
<1>2. PICK w : OneWay(l, j, w)
  BY DEF RearUpto
<1>3. Behind(r, l, j, w, k)
  BY <1>1, <1>2, RearIs
<1>4. OneWay(r, k, Then(j, w, k))
  BY <1>1, <1>2, <1>3, BehindKeeps
<1>5. r.node[k].content = e
  BY <1>1, AddedIs
<1> HIDE DEF r
<1>6. Filled(r) /\ Links!Contents(r) = Append(Links!Contents(l), e)
  BY ONLY <1>1, <1>2, <1>3, <1>5, ReadThen
<1>7. \A n \in Links!Id : r.node[n].live => n <= k
  BY <1>1, <1>3, NodesIs DEF Behind, RearUpto, OnlyFirst, Links!Id
<1> DEFINE s == Links!Contents(l)
           t == Append(s, e)
<1>8. s \in Seq(Element) /\ Len(s) = j /\ \A i \in 1..j : s[i] = h[i]
  <2>1. s \in Seq(Element) /\ Len(s) = j
    BY ONLY <1>1, <1>2, ReadIs
  <2> QED
    BY <2>1 DEF RearUpto
<1> HIDE DEF s
<1>9. Len(t) = k /\ \A i \in 1..j : t[i] = s[i]
  BY <1>1, <1>8
<1>10. t[k] = e
  BY <1>1, <1>8
<1>11. \A i \in 1..k : i \in 1..j \/ i = k
  BY <1>1
<1> HIDE DEF t
<1>12. \A i \in 1..k : t[i] = h[i]
  BY <1>8, <1>9, <1>10, <1>11
<1>13. RearUpto(r, h, k)
  BY <1>4, <1>6, <1>7, <1>9, <1>12 DEF RearUpto, OnlyFirst, t, s
<1> QED
  BY <1>13 DEF r

LEMMA FrontOne ==
  ASSUME NEW h \in Seq(Element), Len(h) <= Nodes, NEW k \in 1..Len(h), NEW l, FrontUpto(l, h, k - 1)
  PROVE  FrontUpto(Deque!LinkFront(l, k, h[k]), h, k)
<1> DEFINE r == Deque!LinkFront(l, k, h[k])
           j == k - 1
           e == h[k]
<1>1. PICK w : BothWays(l, j, w)
  BY DEF FrontUpto
<1>2. /\ k \in Links!Id /\ j \in Nat /\ j + 1 = k /\ ~l.node[k].live /\ Filled(l) /\ e \in Element
      /\ l \in Links!List /\ OneWay(l, j, w)
  BY <1>1, NodesIs DEF FrontUpto, OnlyFirst, OneWay, BothWays, Links!Id
<1>3. Before(r, l, j, w, k)
  BY <1>1, <1>2, FrontIs
<1>4. BothWays(r, k, First(j, w, k))
  BY <1>1, <1>2, <1>3, BeforeKeeps
<1>5. r.node[k].content = e
  BY <1>2, AddedIs
<1> HIDE DEF r
<1>6. Filled(r) /\ Links!Contents(r) = Fronted(e, Links!Contents(l))
  BY ONLY <1>1, <1>2, <1>3, <1>5, ReadFirst
<1>7. \A n \in Links!Id : r.node[n].live => n <= k
  BY <1>2, <1>3, NodesIs DEF Before, FrontUpto, OnlyFirst, Links!Id
<1> DEFINE s == Links!Contents(l)
           f == <<e>>
           t == f \o s
<1>8. s \in Seq(Element) /\ Len(s) = j /\ \A i \in 1..j : s[i] = h[j + 1 - i]
  <2>1. s \in Seq(Element) /\ Len(s) = j
    BY ONLY <1>2, ReadIs
  <2> QED
    BY <2>1 DEF FrontUpto
<1> HIDE DEF s
<1>9. f \in Seq(Element) /\ Len(f) = 1 /\ f[1] = e
  BY <1>2
<1> HIDE DEF f
<1>10. /\ Len(t) = Len(f) + Len(s)
       /\ \A i \in 1..Len(f) + Len(s) : t[i] = IF i <= Len(f) THEN f[i] ELSE s[i - Len(f)]
  BY ONLY <1>8, <1>9, ConcatProperties, Zenon
<1>0. Links!Contents(r) = t
  BY <1>6 DEF Fronted, t, s, f
<1> HIDE DEF t
<1>11. ASSUME NEW i \in 1..k PROVE t[i] = h[k + 1 - i]
  <2>1. CASE i = 1
    BY <1>2, <1>8, <1>9, <1>10, <2>1
  <2>2. CASE i # 1
    <3>1. i - 1 \in 1..j /\ j + 1 - (i - 1) = k + 1 - i
      BY <1>2, <2>2
    <3>2. t[i] = s[i - 1]
      BY <1>2, <1>8, <1>9, <1>10, <2>2
    <3> QED
      BY <1>8, <3>1, <3>2
  <2> QED
    BY <2>1, <2>2
<1>12. Len(t) = k
  BY <1>2, <1>8, <1>9, <1>10
<1>13. FrontUpto(r, h, k)
  BY <1>0, <1>4, <1>6, <1>7, <1>11, <1>12 DEF FrontUpto, OnlyFirst
<1> QED
  BY <1>13 DEF r

LEMMA QueuePacks == QueueInv /\ Filled(obj) => Fifo!RoundTrip
<1> SUFFICES ASSUME QueueInv, Filled(obj), obj.size = Len(Fifo!Contents(obj))
             PROVE  Fifo!Contents(Fifo!Unpack(Fifo!Pack(obj))) = Fifo!Contents(obj)
  BY DEF Fifo!RoundTrip
<1> DEFINE h == Fifo!Contents(obj)
           c == Len(h)
           s == [i \in 1..c |-> i]
           S == Links!List
           G == [k \in 0..c |-> {l \in S : RearUpto(l, h, k)}]
<1>1. \A l : Fifo!Contents(l) = Links!Contents(l)
  BY FifoWalk DEF Fifo!Contents, Links!Contents
<1>2. h \in Seq(Element) /\ c \in Nat /\ c <= Nodes
  <2>1. PICK k, w : OneWay(obj, k, w)
    BY DEF QueueInv
  <2>2. /\ k \in Nat /\ k <= Nodes /\ Links!Contents(obj) = Read(obj, k, w)
        /\ Read(obj, k, w) \in Seq(Element) /\ Len(Read(obj, k, w)) = k
    BY ONLY <2>1, Filled(obj), ReadIs
  <2> QED
    BY <1>1, <2>2
<1>3. Fifo!Unpack(Fifo!Pack(obj)) = Enqueues(h, Links!Empty, s)
  <2>1. SubSeq(h, 1, c) = h /\ DOMAIN h = 1..c
    BY <1>2
  <2>2. Fifo!Unpack(Fifo!Pack(obj)) = Fifo!FromContents(SubSeq(h, 1, c))
    BY <1>2 DEF Fifo!Unpack, Fifo!Pack
  <2>3. Fifo!FromContents(h) = Enqueues(h, Fifo!Empty, [i \in DOMAIN h |-> i])
    BY DEF Fifo!FromContents, Enqueues
  <2> HIDE DEF h
  <2> QED
    BY <2>1, <2>2, <2>3, FifoIs
<1> HIDE DEF h
<1>4. Len(s) = c /\ \A k \in 1..c : s[k] = k
  BY <1>2
<1> HIDE DEF s
<1>5. G \in [0..c -> SUBSET S]
  OBVIOUS
<1>6. Links!Empty \in G[0]
  BY <1>2, NoneUpto, EmptyWay DEF BothWays, OneWay
<1>7. ASSUME NEW k \in 1..c, NEW t \in G[k - 1] PROVE EnqueueTurn(h, t, s[k]) \in G[k]
  <2>1. RearUpto(t, h, k - 1)
    BY <1>2
  <2>2. RearUpto(Links!LinkRear(t, k, h[k]), h, k)
    BY <1>2, <2>1, RearOne
  <2> DEFINE r == Links!LinkRear(t, k, h[k])
  <2>3. EnqueueTurn(h, t, s[k]) = r
    BY <1>4, FifoIs DEF EnqueueTurn
  <2> HIDE DEF r
  <2>4. r \in S
    BY <2>2 DEF RearUpto, OneWay, r
  <2> QED
    BY <1>2, <2>2, <2>3, <2>4 DEF r
<1>8. \A t \in G[c] : RearUpto(t, h, c)
  BY <1>2
<1> HIDE DEF G, S, c
<1>9. Enqueues(h, Links!Empty, s) \in G[c]
  BY <1>2, <1>4, <1>5, <1>6, <1>7, EnqueuesAll
<1> DEFINE q == Enqueues(h, Links!Empty, s)
           t == Links!Contents(q)
<1> HIDE DEF q
<1>10. RearUpto(q, h, c)
  BY <1>8, <1>9 DEF q
<1>11. t \in Seq(Element) /\ Len(t) = c /\ \A i \in 1..c : t[i] = h[i]
  <2>1. PICK w : OneWay(q, c, w) /\ Filled(q)
    BY <1>10 DEF RearUpto, OnlyFirst
  <2>2. t \in Seq(Element)
    BY ONLY <2>1, ReadIs
  <2> QED
    BY <1>10, <2>2 DEF RearUpto
<1> HIDE DEF t
<1>12. t = h
  BY ONLY <1>2, <1>11, SeqsSame DEF c
<1> QED
  BY <1>1, <1>3, <1>12 DEF q, t, h

LEMMA DequePacks == DequeInv => Deque!RoundTripReverses
<1> SUFFICES ASSUME DequeInv
             PROVE  Deque!Contents(Deque!Unpack(Deque!Pack(obj))) = Deque!Backwards(Deque!Contents(obj))
  BY DEF Deque!RoundTripReverses
<1> DEFINE h == Deque!Contents(obj)
           c == obj.size
           s == [i \in 1..c |-> i]
           S == Links!List
           G == [k \in 0..c |-> {l \in S : FrontUpto(l, h, k)}]
<1>1. \A l : Deque!Contents(l) = Links!Contents(l)
  BY DequeWalk DEF Deque!Contents, Links!Contents
<1>2. h \in Seq(Element) /\ c \in Nat /\ c <= Nodes /\ Len(h) = c
  <2>1. PICK k, w : BothWays(obj, k, w)
    BY DEF DequeInv
  <2>2. OneWay(obj, k, w) /\ Filled(obj) /\ obj.size = k
    BY <2>1 DEF DequeInv, BothWays
  <2>3. /\ k \in Nat /\ k <= Nodes /\ Links!Contents(obj) = Read(obj, k, w)
        /\ Read(obj, k, w) \in Seq(Element) /\ Len(Read(obj, k, w)) = k
    BY ONLY <2>2, ReadIs
  <2> QED
    BY <1>1, <2>2, <2>3
<1>3. Deque!Unpack(Deque!Pack(obj)) = FrontAdds(h, Links!Empty, s)
  <2>1. Deque!Unpack(Deque!Pack(obj)) = FrontAdds(h, Deque!Empty, s)
    BY DEF Deque!Unpack, Deque!Pack, FrontAdds
  <2> QED
    BY <2>1, DequeIs
<1> HIDE DEF h
<1>4. Len(s) = c /\ \A k \in 1..c : s[k] = k
  BY <1>2
<1> HIDE DEF s
<1>5. G \in [0..c -> SUBSET S]
  OBVIOUS
<1>6. Links!Empty \in G[0]
  BY <1>2, NoneUpto, EmptyWay DEF BothWays, OneWay
<1>7. ASSUME NEW k \in 1..c, NEW t \in G[k - 1] PROVE DequeTurn(h, t, s[k]) \in G[k]
  <2>1. FrontUpto(t, h, k - 1)
    BY <1>2
  <2>2. FrontUpto(Deque!LinkFront(t, k, h[k]), h, k)
    BY <1>2, <2>1, FrontOne
  <2> DEFINE r == Deque!LinkFront(t, k, h[k])
  <2>3. DequeTurn(h, t, s[k]) = r
    BY <1>4 DEF DequeTurn
  <2> HIDE DEF r
  <2>4. r \in S
    BY <2>2 DEF FrontUpto, OneWay, BothWays, r
  <2> QED
    BY <1>2, <2>2, <2>3, <2>4 DEF r
<1>8. \A t \in G[c] : FrontUpto(t, h, c)
  BY <1>2
<1> HIDE DEF G, S, c
<1>9. FrontAdds(h, Links!Empty, s) \in G[c]
  BY <1>2, <1>4, <1>5, <1>6, <1>7, FrontAddsAll, Zenon
<1> DEFINE q == FrontAdds(h, Links!Empty, s)
           t == Links!Contents(q)
           b == Deque!Backwards(h)
<1> HIDE DEF q
<1>10. FrontUpto(q, h, c)
  BY <1>8, <1>9 DEF q
<1>11. t \in Seq(Element) /\ Len(t) = c /\ \A i \in 1..c : t[i] = h[c + 1 - i]
  <2>1. PICK w : OneWay(q, c, w) /\ Filled(q)
    BY <1>10 DEF FrontUpto, OnlyFirst, BothWays
  <2>2. t \in Seq(Element)
    BY ONLY <2>1, ReadIs
  <2> QED
    BY <1>10, <2>2 DEF FrontUpto
<1>12. b \in Seq(Element) /\ Len(b) = c /\ \A i \in 1..c : b[i] = h[c + 1 - i]
  <2>1. b = [i \in 1..c |-> h[c + 1 - i]]
    BY <1>2 DEF Deque!Backwards
  <2>2. \A i \in 1..c : c + 1 - i \in 1..c
    BY <1>2
  <2> HIDE DEF b
  <2>3. b \in [1..c -> Element]
    BY <1>2, <2>1, <2>2
  <2> QED
    BY <1>2, <2>1, <2>3, FilledIs
<1> HIDE DEF t, b
<1>13. t = b
  BY ONLY <1>11, <1>12, SeqsSame, Zenon
<1> QED
  BY <1>1, <1>3, <1>13 DEF q, t, b, h

(* Dictionary: the chains of the copy hold what was read, and the keys are *)
(* all different.                                                          *)
ChainTurn(d, e) == Chained!Push(d, e)
Chains(a, s) == Chained!Through(Chained!Push, a, s)

LEMMA ChainsAll ==
  ASSUME NEW a, NEW n \in Nat, NEW s, Len(s) = n, NEW S, NEW G \in [0..n -> SUBSET S], a \in G[0],
         \A k \in 1..n : \A t \in G[k - 1] : ChainTurn(t, s[k]) \in G[k]
  PROVE  Chains(a, s) \in G[n]
<1> DEFINE F == [k \in 1..n |-> [t \in S |-> ChainTurn(t, s[k])]]
           Turn(h) == [i \in 0..n |-> IF i = 0 THEN a ELSE ChainTurn(h[i - 1], s[i])]
           after == CHOOSE h : h = Turn(h)
<1>0. SUFFICES after[n] \in G[n]
  BY DEF Chains, ChainTurn, Chained!Through
<1>1. \A k \in 1..n : \A t \in S : F[k][t] = ChainTurn(t, s[k])
  OBVIOUS
<1>2. \A k \in 1..n : G[k - 1] \subseteq S /\ k - 1 \in 0..n
  OBVIOUS
<1> HIDE DEF F
<1>3. PICK f : Passes(f, n, S, a, F, G)
  <2>1. Leads(n, S, G, F)
    BY <1>1, <1>2 DEF Leads
  <2> QED
    BY <2>1, Guided
<1>4. \A k \in 1..n : f[k] = ChainTurn(f[k - 1], s[k])
  BY <1>1, <1>2, <1>3 DEF Passes
<1>5. \A i \in 0..n : i # 0 => i \in 1..n
  OBVIOUS
<1>6. f = Turn(f)
  BY <1>3, <1>4, <1>5 DEF Passes
<1>7. after = Turn(after)
  BY <1>6
<1> HIDE DEF after
<1>9. \A i \in 0..n : after[i] = IF i = 0 THEN a ELSE ChainTurn(after[i - 1], s[i])
  BY <1>7
<1> DEFINE I == {i \in 0..n : after[i] = f[i]}
<1>10. 0 \in I
  BY <1>3, <1>9 DEF Passes
<1>11. ASSUME NEW k \in 1..n, k - 1 \in I PROVE k \in I
  BY <1>4, <1>9, <1>11
<1> HIDE DEF I
<1>12. \A i \in 0..n : i \in I
  BY <1>10, <1>11, InductionUpTo
<1> QED
  BY <1>3, <1>12 DEF I, Passes

KeysDiffer(s) == \A i, j \in 1..Len(s) : KeyOf[s[i]] = KeyOf[s[j]] => i = j
KeysApart(s, t) == \A i \in 1..Len(s) : \A j \in 1..Len(t) : KeyOf[s[i]] # KeyOf[t[j]]

LEMMA ConcatDiffers ==
  ASSUME NEW s \in Seq(Element), NEW t \in Seq(Element),
         KeysDiffer(s), KeysDiffer(t), KeysApart(s, t)
  PROVE  KeysDiffer(s \o t)
<1> DEFINE c == s \o t
<1>1. /\ Len(c) = Len(s) + Len(t) /\ Len(s) \in Nat /\ Len(t) \in Nat
      /\ \A i \in 1..Len(s) + Len(t) : c[i] = IF i <= Len(s) THEN s[i] ELSE t[i - Len(s)]
  OBVIOUS
<1> HIDE DEF c
<1>2. \A i \in 1..Len(c) : (i \in 1..Len(s) /\ c[i] = s[i])
                           \/ (i - Len(s) \in 1..Len(t) /\ c[i] = t[i - Len(s)])
  BY <1>1
<1>3. SUFFICES ASSUME NEW i \in 1..Len(c), NEW j \in 1..Len(c), KeyOf[c[i]] = KeyOf[c[j]]
               PROVE  i = j
  BY DEF KeysDiffer, c
<1>4. CASE i \in 1..Len(s) /\ c[i] = s[i] /\ j \in 1..Len(s) /\ c[j] = s[j]
  BY <1>3, <1>4 DEF KeysDiffer
<1>5. CASE i - Len(s) \in 1..Len(t) /\ c[i] = t[i - Len(s)] /\ j - Len(s) \in 1..Len(t) /\ c[j] = t[j - Len(s)]
  <2>1. i - Len(s) = j - Len(s)
    BY <1>3, <1>5 DEF KeysDiffer
  <2> QED
    BY <1>1, <2>1
<1>6. CASE i \in 1..Len(s) /\ c[i] = s[i] /\ j - Len(s) \in 1..Len(t) /\ c[j] = t[j - Len(s)]
  BY <1>3, <1>6 DEF KeysApart
<1>7. CASE i - Len(s) \in 1..Len(t) /\ c[i] = t[i - Len(s)] /\ j \in 1..Len(s) /\ c[j] = s[j]
  BY <1>3, <1>7 DEF KeysApart
<1> QED
  BY <1>2, <1>4, <1>5, <1>6, <1>7

LEMMA FlatDiffers ==
  ASSUME NEW n \in Nat, NEW s \in [1..n -> Seq(Element)],
         \A i \in 1..n : KeysDiffer(s[i]),
         \A i, j \in 1..n : j < i => KeysApart(s[j], s[i])
  PROVE  KeysDiffer(Chained!Flat(s))
<1>1. PICK h \in [0..n -> Seq(Element)] :
           /\ h[0] = <<>> /\ \A i \in 1..n : h[i] = h[i - 1] \o s[i]
           /\ Chained!Flat(s) = h[n]
  BY FlatIs
<1> DEFINE Good(k) == KeysDiffer(h[k]) /\ \A i \in 1..n : k < i => KeysApart(h[k], s[i])
           G == {k \in 0..n : Good(k)}
<1>2. 0 \in G
  BY <1>1 DEF KeysDiffer, KeysApart
<1>3. ASSUME NEW k \in 1..n, k - 1 \in G PROVE k \in G
  <2>1. k - 1 \in 0..n /\ k \in 0..n /\ k - 1 < k /\ \A i \in 1..n : k < i => k - 1 < i
    OBVIOUS
  <2>2. /\ h[k - 1] \in Seq(Element) /\ s[k] \in Seq(Element) /\ h[k] = h[k - 1] \o s[k]
        /\ KeysDiffer(h[k - 1]) /\ \A i \in 1..n : k - 1 < i => KeysApart(h[k - 1], s[i])
    BY <1>1, <1>3, <2>1
  <2> DEFINE a == h[k - 1]
             b == s[k]
             c == h[k]
  <2>3. a \in Seq(Element) /\ b \in Seq(Element) /\ c = a \o b /\ KeysDiffer(a) /\ KeysDiffer(b) /\ KeysApart(a, b)
    BY <2>1, <2>2
  <2>4. \A i \in 1..n : k < i => KeysApart(a, s[i]) /\ KeysApart(b, s[i])
    BY <2>1, <2>2
  <2> HIDE DEF a, b, c
  <2>5. KeysDiffer(c)
    BY ONLY <2>3, ConcatDiffers
  <2>6. \A i \in 1..Len(c) : (\E j \in 1..Len(a) : c[i] = a[j]) \/ (\E j \in 1..Len(b) : c[i] = b[j])
    <3>1. /\ Len(c) = Len(a) + Len(b) /\ Len(a) \in Nat /\ Len(b) \in Nat
          /\ \A i \in 1..Len(a) + Len(b) : c[i] = IF i <= Len(a) THEN a[i] ELSE b[i - Len(a)]
      BY <2>3
    <3> SUFFICES ASSUME NEW i \in 1..Len(c)
                 PROVE  (\E j \in 1..Len(a) : c[i] = a[j]) \/ (\E j \in 1..Len(b) : c[i] = b[j])
      OBVIOUS
    <3>2. i <= Len(a) => i \in 1..Len(a) /\ c[i] = a[i]
      BY <3>1
    <3>3. ~(i <= Len(a)) => i - Len(a) \in 1..Len(b) /\ c[i] = b[i - Len(a)]
      BY <3>1
    <3> QED
      BY <3>2, <3>3
  <2>7. ASSUME NEW i \in 1..n, k < i PROVE KeysApart(c, s[i])
    <3>1. /\ \A x \in 1..Len(a) : \A y \in 1..Len(s[i]) : KeyOf[a[x]] # KeyOf[s[i][y]]
          /\ \A x \in 1..Len(b) : \A y \in 1..Len(s[i]) : KeyOf[b[x]] # KeyOf[s[i][y]]
      BY <2>4, <2>7 DEF KeysApart
    <3>2. SUFFICES ASSUME NEW x \in 1..Len(c), NEW y \in 1..Len(s[i])
                   PROVE  KeyOf[c[x]] # KeyOf[s[i][y]]
      BY DEF KeysApart
    <3>3. (\E j \in 1..Len(a) : c[x] = a[j]) \/ (\E j \in 1..Len(b) : c[x] = b[j])
      BY <2>6
    <3> QED
      BY <3>1, <3>3
  <2> QED
    BY <2>1, <2>5, <2>7 DEF c
<1> HIDE DEF G
<1>4. n \in G
  <2>1. \A k \in 0..n : k \in G
    BY <1>2, <1>3, InductionUpTo, Zenon
  <2> QED
    BY <2>1
<1> QED
  BY <1>1, <1>4 DEF G

(* d holds x in one of its n chains. *)
Has(d, n, x) == \E s \in 0..n - 1 : \E i \in 1..Len(d.data[s]) : d.data[s][i] = x

LEMMA DictContents ==
  ASSUME NEW n \in 1..Size, NEW d, NEW f, GoodDict(d, n, f)
  PROVE  /\ Chained!Contents(d) \in Seq(Element) /\ KeysDiffer(Chained!Contents(d))
         /\ \A x : Has(d, n, x) <=> \E i \in 1..Len(Chained!Contents(d)) : Chained!Contents(d)[i] = x
<1> DEFINE s == Row(d)
<1>1. n \in Nat /\ d \in [max : {n}, count : Nat, data : [0..n - 1 -> Seq(Element)]]
  BY SizeIs DEF GoodDict
<1>2. /\ s \in [1..n -> Seq(Element)] /\ Chained!Contents(d) = Chained!Flat(s)
      /\ \A i \in 1..n : s[i] = d.data[i - 1]
  BY <1>1, RowIs
<1> HIDE DEF s
<1>3. \A i \in 1..n : i - 1 \in 0..n - 1
  BY <1>1
<1>4. \A i \in 1..n : GoodChain(n, s[i], i - 1, f)
  BY <1>2, <1>3 DEF GoodDict
<1>5. \A i \in 1..n : KeysDiffer(s[i])
  BY <1>4 DEF GoodChain, KeysDiffer
<1>6. \A i, j \in 1..n : j < i => KeysApart(s[j], s[i])
  <2> SUFFICES ASSUME NEW i \in 1..n, NEW j \in 1..n, j < i, NEW x \in 1..Len(s[j]), NEW y \in 1..Len(s[i])
               PROVE  KeyOf[s[j][x]] # KeyOf[s[i][y]]
    BY DEF KeysApart
  <2>1. HashOf[KeyOf[s[j][x]]] % n = j - 1 /\ HashOf[KeyOf[s[i][y]]] % n = i - 1
    BY <1>4 DEF GoodChain
  <2>2. j - 1 # i - 1
    BY <1>1
  <2> QED
    BY <2>1, <2>2
<1>7. KeysDiffer(Chained!Flat(s))
  BY <1>1, <1>2, <1>5, <1>6, FlatDiffers
<1> DEFINE c == Chained!Contents(d)
<1>8. c \in Seq(Element) /\ \A x : x \in Chained!Range(c) <=> \E t \in 0..n - 1 : x \in Chained!Range(d.data[t])
  BY <1>1, ContentsAre, Zenon
<1>9. \A t \in 0..n - 1 : \A x : x \in Chained!Range(d.data[t]) <=> \E i \in 1..Len(d.data[t]) : d.data[t][i] = x
  <2> SUFFICES ASSUME NEW t \in 0..n - 1
               PROVE  \A x : x \in Chained!Range(d.data[t]) <=> \E i \in 1..Len(d.data[t]) : d.data[t][i] = x
    OBVIOUS
  <2>1. d.data[t] \in Seq(Element)
    BY <1>1
  <2>2. DOMAIN d.data[t] = 1..Len(d.data[t])
    BY <2>1
  <2> QED
    BY <2>2 DEF Chained!Range
<1> HIDE DEF c
<1>10. \A x : x \in Chained!Range(c) <=> \E i \in 1..Len(c) : c[i] = x
  <2>1. DOMAIN c = 1..Len(c)
    BY <1>8
  <2> QED
    BY <2>1 DEF Chained!Range
<1>11. ASSUME NEW x PROVE Has(d, n, x) <=> \E i \in 1..Len(c) : c[i] = x
  <2>1. (\E i \in 1..Len(c) : c[i] = x) <=> \E t \in 0..n - 1 : x \in Chained!Range(d.data[t])
    BY <1>8, <1>10
  <2>2. (\E t \in 0..n - 1 : x \in Chained!Range(d.data[t]))
          <=> \E t \in 0..n - 1 : \E i \in 1..Len(d.data[t]) : d.data[t][i] = x
    BY ONLY <1>9
  <2> QED
    BY ONLY <2>1, <2>2 DEF Has
<1> QED
  BY <1>2, <1>7, <1>8, <1>11 DEF c

(* What d gives for a key is the element of that key it holds, if any.     *)
LEMMA ValueIs ==
  ASSUME NEW n \in 1..Size, NEW d, NEW f, GoodDict(d, n, f), NEW k \in Key
  PROVE  \/ \E x : Has(d, n, x) /\ KeyOf[x] = k /\ Chained!Value(d)[k] = x
         \/ (\A x : Has(d, n, x) => KeyOf[x] # k) /\ Chained!Value(d)[k] = Null
<1> DEFINE t == Chained!Home(d, k)
           c == Chained!Chain(d, k)
           M == Chained!Match(d, k)
           i == CHOOSE j \in M : TRUE
<1>1. /\ t \in 0..n - 1 /\ t = HashOf[k] % n /\ c = d.data[t] /\ c \in Seq(Element)
      /\ \A j \in M : j \in 1..Len(c) /\ KeyOf[c[j]] = k
      /\ M = {} => \A j \in 1..Len(c) : KeyOf[c[j]] # k
  BY ChainIs
<1>2. Chained!Value(d)[k] = IF M = {} THEN Null ELSE c[i]
  BY DEF Chained!Value
<1> HIDE DEF t, c, M
<1>3. CASE M # {}
  <2>1. i \in M
    BY <1>3
  <2> HIDE DEF i
  <2>2. Has(d, n, c[i])
    BY <1>1, <2>1 DEF Has
  <2> QED
    BY <1>1, <1>2, <1>3, <2>1, <2>2
<1>4. CASE M = {}
  <2>1. ASSUME NEW x, Has(d, n, x), KeyOf[x] = k PROVE FALSE
    <3>1. PICK s \in 0..n - 1 : \E j \in 1..Len(d.data[s]) : d.data[s][j] = x
      BY <2>1 DEF Has
    <3>2. PICK j \in 1..Len(d.data[s]) : d.data[s][j] = x
      BY <3>1
    <3>3. HashOf[KeyOf[x]] % n = s
      BY <3>2 DEF GoodDict, GoodChain
    <3>4. s = t
      BY <1>1, <2>1, <3>3
    <3> QED
      BY <1>1, <1>4, <2>1, <3>2, <3>4
  <2> QED
    BY <1>2, <1>4, <2>1
<1> QED
  BY <1>3, <1>4

(* Two dictionaries that hold the same give the same.                      *)
LEMMA ValueSame ==
  ASSUME NEW n \in 1..Size, NEW d, NEW f, GoodDict(d, n, f), NEW b, NEW g, GoodDict(b, n, g),
         \A x : Has(b, n, x) <=> Has(d, n, x)
  PROVE  Chained!Value(b) = Chained!Value(d)
<1>1. ASSUME NEW k \in Key PROVE Chained!Value(b)[k] = Chained!Value(d)[k]
  <2>1. \A x, y : Has(d, n, x) /\ Has(d, n, y) /\ KeyOf[x] = KeyOf[y] => x = y
    <3> DEFINE c == Chained!Contents(d)
    <3>1. /\ KeysDiffer(c)
          /\ \A x : Has(d, n, x) <=> \E i \in 1..Len(c) : c[i] = x
      BY DictContents
    <3> HIDE DEF c
    <3> QED
      BY <3>1 DEF KeysDiffer
  <2>2. \/ \E x : Has(d, n, x) /\ KeyOf[x] = k /\ Chained!Value(d)[k] = x
        \/ (\A x : Has(d, n, x) => KeyOf[x] # k) /\ Chained!Value(d)[k] = Null
    BY ValueIs
  <2>3. \/ \E x : Has(b, n, x) /\ KeyOf[x] = k /\ Chained!Value(b)[k] = x
        \/ (\A x : Has(b, n, x) => KeyOf[x] # k) /\ Chained!Value(b)[k] = Null
    BY ValueIs
  <2> QED
    BY <2>1, <2>2, <2>3
<1>2. /\ Chained!Value(b) = [k \in Key |-> Chained!Value(b)[k]]
      /\ Chained!Value(d) = [k \in Key |-> Chained!Value(d)[k]]
  BY DEF Chained!Value
<1> QED
  BY <1>1, <1>2

(* d has taken in the first k elements of h. *)
ChainUpto(d, n, h, k) ==
  /\ GoodDict(d, n, {}) /\ d.count = k
  /\ \A x : Has(d, n, x) <=> \E i \in 1..k : h[i] = x

LEMMA ChainOne ==
  ASSUME NEW n \in 1..Size, NEW h \in Seq(Element), KeysDiffer(h), NEW k \in 1..Len(h),
         NEW d, ChainUpto(d, n, h, k - 1)
  PROVE  ChainUpto(Chained!Push(d, h[k]), n, h, k)
<1> DEFINE e == h[k]
           q == KeyOf[e]
           t == Chained!Home(d, q)
           c == Chained!Chain(d, q)
           r == Chained!Push(d, e)
<1>1. e \in Element /\ q \in Key /\ GoodDict(d, n, {}) /\ d.count = k - 1
  BY ElementIs DEF ChainUpto
<1>2. /\ t \in 0..n - 1 /\ c = d.data[t] /\ c \in Seq(Element)
      /\ \A j \in Chained!Match(d, q) : j \in 1..Len(c) /\ KeyOf[c[j]] = q
  BY <1>1, ChainIs
<1>3. Chained!Match(d, q) = {}
  <2> SUFFICES ASSUME NEW j \in Chained!Match(d, q) PROVE FALSE
    OBVIOUS
  <2>1. j \in 1..Len(c) /\ KeyOf[c[j]] = q
    BY <1>2
  <2>2. Has(d, n, c[j])
    BY <1>2, <2>1 DEF Has
  <2>3. PICK i \in 1..k - 1 : h[i] = c[j]
    BY <2>2 DEF ChainUpto
  <2>4. i \in 1..Len(h) /\ i # k
    OBVIOUS
  <2> QED
    BY <2>1, <2>3, <2>4 DEF KeysDiffer
<1>4. GoodDict(r, n, {})
  <2>1. GoodDict(r, n, {} \ {e})
    BY <1>1, <1>3, PushKeeps
  <2>2. {} \ {e} = {}
    OBVIOUS
  <2> QED
    BY <2>1, <2>2
<1> DEFINE u == [d.data EXCEPT ![t] = <<e>> \o c]
<1>5. r.count = k /\ r.data = u
  BY <1>1 DEF Chained!Push, Chained!Relink
<1>6. /\ u[t] = <<e>> \o c /\ \A s \in 0..n - 1 : s # t => u[s] = d.data[s]
  <2>1. d.data \in [0..n - 1 -> Seq(Element)]
    BY <1>1 DEF GoodDict
  <2> HIDE DEF t, c
  <2> QED
    BY <1>2, <2>1
<1> DEFINE b == <<e>> \o c
<1>7. /\ Len(b) = Len(c) + 1 /\ Len(c) \in Nat /\ b[1] = e
      /\ \A j \in 1..Len(c) : b[j + 1] = c[j]
  BY <1>1, <1>2
<1> HIDE DEF u, b, t, c, r, q, e
<1>8. u[t] = b
  BY <1>6 DEF b
<1>9. \A x : (\E j \in 1..Len(b) : b[j] = x) <=> x = e \/ \E j \in 1..Len(c) : c[j] = x
  <2>1. 1 \in 1..Len(b) /\ \A j \in 1..Len(c) : j + 1 \in 1..Len(b)
    BY <1>7
  <2>2. \A j \in 1..Len(b) : j = 1 \/ (j - 1 \in 1..Len(c) /\ (j - 1) + 1 = j)
    BY <1>7
  <2>3. \A j \in 1..Len(b) : j = 1 \/ (j - 1 \in 1..Len(c) /\ b[j] = c[j - 1])
    BY <1>7, <2>2
  <2>4. ASSUME NEW x, NEW j \in 1..Len(b), b[j] = x PROVE x = e \/ \E i \in 1..Len(c) : c[i] = x
    BY <1>7, <2>3, <2>4
  <2>5. ASSUME NEW x, NEW j \in 1..Len(c), c[j] = x PROVE \E i \in 1..Len(b) : b[i] = x
    BY <1>7, <2>1, <2>5
  <2>6. \E i \in 1..Len(b) : b[i] = e
    BY <1>7, <2>1
  <2> QED
    BY <2>4, <2>5, <2>6, Zenon
<1>10. ASSUME NEW x PROVE Has(r, n, x) <=> Has(d, n, x) \/ x = e
  <2>1. ASSUME Has(r, n, x) PROVE Has(d, n, x) \/ x = e
    <3>1. PICK s \in 0..n - 1 : \E j \in 1..Len(u[s]) : u[s][j] = x
      BY <1>5, <2>1 DEF Has
    <3>2. CASE s = t
      <4>1. x = e \/ \E j \in 1..Len(c) : c[j] = x
        BY ONLY <1>8, <1>9, <3>1, <3>2, Zenon
      <4> QED
        BY ONLY <1>2, <4>1 DEF Has
    <3>3. CASE s # t
      <4>1. u[s] = d.data[s]
        BY ONLY <1>6, <3>3
      <4> QED
        BY ONLY <3>1, <4>1 DEF Has
    <3> QED
      BY <3>2, <3>3
  <2>2. ASSUME Has(d, n, x) PROVE Has(r, n, x)
    <3>1. PICK s \in 0..n - 1 : \E j \in 1..Len(d.data[s]) : d.data[s][j] = x
      BY <2>2 DEF Has
    <3>2. \E j \in 1..Len(u[s]) : u[s][j] = x
      <4>1. CASE s = t
        BY ONLY <1>2, <1>8, <1>9, <3>1, <4>1
      <4>2. CASE s # t
        BY ONLY <1>6, <3>1, <4>2
      <4> QED
        BY <4>1, <4>2
    <3> QED
      BY <1>5, <3>2 DEF Has
  <2>3. Has(r, n, e)
    <3>1. \E j \in 1..Len(u[t]) : u[t][j] = e
      BY <1>8, <1>9
    <3> QED
      BY <1>2, <1>5, <3>1 DEF Has
  <2> QED
    BY <2>1, <2>2, <2>3
<1>11. \A x : (\E i \in 1..k : h[i] = x) <=> (\E i \in 1..k - 1 : h[i] = x) \/ x = e
  <2>1. \A i : i \in 1..k <=> i \in 1..k - 1 \/ i = k
    OBVIOUS
  <2> QED
    BY <2>1 DEF e
<1>12. ChainUpto(r, n, h, k)
  BY <1>4, <1>5, <1>10, <1>11, Zenon DEF ChainUpto
<1> QED
  BY <1>12 DEF r, e

LEMMA DictPacks == Chained!DictInv => Chained!RoundTrip
<1> SUFFICES ASSUME Chained!DictInv PROVE Chained!RoundTrip
  OBVIOUS
<1>1. PICK n \in 1..Size : GoodDict(obj, n, aux)
  BY DictInvIs DEF GoodNow
<1> DEFINE h == Chained!Contents(obj)
           c == Len(h)
           S == {d \in [max : {n}, count : Nat, data : [0..n - 1 -> Seq(Element)]] : TRUE}
           G == [k \in 0..c |-> {d \in S : ChainUpto(d, n, h, k)}]
<1>2. /\ h \in Seq(Element) /\ KeysDiffer(h) /\ c \in Nat
      /\ \A x : Has(obj, n, x) <=> \E i \in 1..c : h[i] = x
  BY <1>1, DictContents
<1>3. obj.max = n /\ obj.count = c
  BY <1>1 DEF GoodDict
<1>4. Chained!Unpack(Chained!Pack(obj)) = Chains(Chained!Construct(n), h)
  <2>1. SubSeq(h, 1, c) = h
    BY <1>2
  <2>2. Chained!Unpack(Chained!Pack(obj)) = Chains(Chained!Construct(n), SubSeq(h, 1, c))
    BY <1>3 DEF Chained!Unpack, Chained!Pack, Chains
  <2> QED
    BY <2>1, <2>2, Zenon
<1> HIDE DEF h
<1>5. G \in [0..c -> SUBSET S]
  OBVIOUS
<1>6. Chained!Construct(n) \in G[0]
  <2> DEFINE d == Chained!Construct(n)
  <2>1. GoodDict(d, n, {})
    BY ConstructKeeps
  <2>2. d.count = 0 /\ \A s \in 0..n - 1 : d.data[s] = <<>>
    BY DEF Chained!Construct
  <2> HIDE DEF d
  <2>3. \A x : ~Has(d, n, x)
    BY <2>2 DEF Has
  <2>4. ChainUpto(d, n, h, 0)
    BY <2>1, <2>2, <2>3 DEF ChainUpto
  <2>5. d \in S
    BY <2>1 DEF GoodDict
  <2>6. 0 \in 0..c
    BY <1>2
  <2> HIDE DEF S
  <2>7. d \in G[0]
    BY <2>4, <2>5, <2>6
  <2> QED
    BY <2>7 DEF d
<1>7. ASSUME NEW k \in 1..c, NEW t \in G[k - 1] PROVE ChainTurn(t, h[k]) \in G[k]
  <2>1. ChainUpto(t, n, h, k - 1)
    BY <1>2
  <2> DEFINE r == Chained!Push(t, h[k])
  <2>2. ChainUpto(r, n, h, k)
    BY <1>2, <2>1, ChainOne
  <2> HIDE DEF r
  <2>3. r \in S
    BY <2>2 DEF ChainUpto, GoodDict
  <2> QED
    BY <1>2, <2>2, <2>3 DEF r, ChainTurn
<1>8. \A d \in G[c] : ChainUpto(d, n, h, c)
  BY <1>2
<1> HIDE DEF G, S
<1>9. Chains(Chained!Construct(n), h) \in G[c]
  <2> DEFINE a == Chained!Construct(n)
  <2>1. a \in G[0]
    BY <1>6
  <2> HIDE DEF a, c
  <2>2. Len(h) = c
    BY DEF c
  <2> QED
    BY <1>2, <1>5, <1>7, <2>1, <2>2, ChainsAll DEF a
<1> DEFINE b == Chains(Chained!Construct(n), h)
<1>10. ChainUpto(b, n, h, c)
  BY <1>8, <1>9
<1> HIDE DEF b, c
<1>11. GoodDict(b, n, {}) /\ b.count = c /\ \A x : Has(b, n, x) <=> Has(obj, n, x)
  BY <1>2, <1>10 DEF ChainUpto
<1>12. Chained!Value(b) = Chained!Value(obj)
  BY <1>1, <1>11, ValueSame
<1> QED
  BY <1>3, <1>4, <1>11, <1>12 DEF Chained!RoundTrip, b

-----------------------------------------------------------------------------
(* Hash table and priority queue: the proofs are those of modules of their *)
(* own, whose operators have the same meaning as those of Containers.      *)

TableProofs    == INSTANCE HashTableProofs WITH table <- obj
PriorityProofs == INSTANCE PriorityQueueProofs WITH queue <- obj, pc <- aux

LEMMA TableOperators ==
  /\ Table!Slot = TableProofs!Slot /\ Table!Resolution = TableProofs!Resolution
  /\ \A y : Table!Construct(y) = TableProofs!Construct(y)
  /\ \A y, k, i : Table!Probe(y, k, i) = TableProofs!Probe(y, k, i)
  /\ \A t, k, i : /\ Table!At(t, k, i) = TableProofs!At(t, k, i)
                  /\ Table!Matches(t, k, i) <=> TableProofs!Matches(t, k, i)
                  /\ Table!Free(t, k, i) <=> TableProofs!Free(t, k, i)
  /\ \A t, k : /\ Table!Found(t, k) = TableProofs!Found(t, k)
               /\ Table!Landing(t, k) = TableProofs!Landing(t, k)
  /\ \A t, s, x, l, p : Table!Put(t, s, x, l, p) = TableProofs!Put(t, s, x, l, p)
  /\ \A t : Table!Contents(t) = TableProofs!Contents(t)
  /\ \A s : Table!Hashed(s) = TableProofs!Hashed(s)
<1>1. /\ Table!Slot = TableProofs!Slot /\ Table!Resolution = TableProofs!Resolution
      /\ \A y : Table!Construct(y) = TableProofs!Construct(y)
  BY DEF Table!Slot, TableProofs!Slot, Table!Resolution, TableProofs!Resolution,
         Table!Construct, TableProofs!Construct
<1>2. \A y, k, i : Table!Probe(y, k, i) = TableProofs!Probe(y, k, i)
  BY DEF Table!Probe, TableProofs!Probe, Table!Home, TableProofs!Home,
         Table!Stride, TableProofs!Stride
<1>3. \A t, k, i : /\ Table!At(t, k, i) = TableProofs!At(t, k, i)
                   /\ Table!Matches(t, k, i) <=> TableProofs!Matches(t, k, i)
                   /\ Table!Free(t, k, i) <=> TableProofs!Free(t, k, i)
  <2>1. \A t, k, i : Table!At(t, k, i) = TableProofs!At(t, k, i)
    BY <1>2 DEF Table!At, TableProofs!At
  <2> QED
    BY <2>1 DEF Table!Matches, TableProofs!Matches, Table!Free, TableProofs!Free
<1>4. \A t, k : /\ Table!Found(t, k) = TableProofs!Found(t, k)
                /\ Table!Landing(t, k) = TableProofs!Landing(t, k)
  BY <1>1, <1>3 DEF Table!Found, TableProofs!Found, Table!Landing, TableProofs!Landing
<1>5. \A t, s, x, l, p : Table!Put(t, s, x, l, p) = TableProofs!Put(t, s, x, l, p)
  BY DEF Table!Put, TableProofs!Put
<1>6. \A t : Table!Contents(t) = TableProofs!Contents(t)
  BY DEF Table!Contents, TableProofs!Contents
<1>7. \A s : Table!Hashed(s) = TableProofs!Hashed(s)
  <2>1. \A S : Table!Cardinality(S) = TableProofs!Cardinality(S)
    BY DEF Table!Cardinality, TableProofs!Cardinality
  <2> QED
    BY <2>1 DEF Table!Hashed, TableProofs!Hashed
<1> QED
  BY <1>1, <1>2, <1>3, <1>4, <1>5, <1>6, <1>7

LEMMA TableInit == Table!Init => TableProofs!Init
BY TableOperators DEF Table!Init, TableProofs!Init

LEMMA TableNext == Table!Next => TableProofs!Next
<1>1. ASSUME NEW k \in Key, Table!Search(k) PROVE TableProofs!Search(k)
  <2>1. Table!Found(obj, k) = TableProofs!Found(obj, k)
    BY TableOperators
  <2>2. \A i : Table!At(obj, k, i) = TableProofs!At(obj, k, i)
    BY TableOperators
  <2>3. (CHOOSE i \in Table!Found(obj, k) : TRUE) = (CHOOSE i \in TableProofs!Found(obj, k) : TRUE)
    BY ONLY <2>1
  <2> QED
    BY <1>1, <2>1, <2>2, <2>3 DEF Table!Search, TableProofs!Search
<1>2. ASSUME NEW k \in Key, Table!RemoveKey(k) PROVE TableProofs!RemoveKey(k)
  BY <1>2, TableOperators DEF Table!RemoveKey, TableProofs!RemoveKey, Table!Vacate, TableProofs!Vacate
<1>3. ASSUME NEW k \in Key, Table!RemoveFails(k) PROVE TableProofs!RemoveFails(k)
  BY <1>3, TableOperators DEF Table!RemoveFails, TableProofs!RemoveFails
<1>4. ASSUME NEW e \in Element, Table!Insert(e) PROVE TableProofs!Insert(e)
  BY <1>4, TableOperators DEF Table!Insert, TableProofs!Insert, Table!Use, TableProofs!Use
<1>5. ASSUME NEW e \in Element, Table!InsertFails(e) PROVE TableProofs!InsertFails(e)
  BY <1>5, TableOperators DEF Table!InsertFails, TableProofs!InsertFails
<1>6. ASSUME Table!Count PROVE TableProofs!Count
  BY <1>6 DEF Table!Count, TableProofs!Count
<1>7. ASSUME Table!SeeAll PROVE TableProofs!SeeAll
  BY <1>7, TableOperators DEF Table!SeeAll, TableProofs!SeeAll, Table!Hash, TableProofs!Hash
<1>8. ASSUME Table!Renew PROVE TableProofs!Renew
  BY <1>8, TableOperators DEF Table!Renew, TableProofs!Renew
<1> QED
  BY <1>1, <1>2, <1>3, <1>4, <1>5, <1>6, <1>7, <1>8 DEF Table!Next, TableProofs!Next

LEMMA TableInvSame ==
  (Table!TableInv <=> TableProofs!TableInv) /\ (Table!Findable <=> TableProofs!Findable)
<1>1. \A S : Table!Cardinality(S) = TableProofs!Cardinality(S)
  BY DEF Table!Cardinality, TableProofs!Cardinality
<1>2. Table!TypeOK <=> TableProofs!TypeOK
  BY TableOperators DEF Table!TypeOK, TableProofs!TypeOK, Table!Table, TableProofs!Table
<1>3. Table!Reachable <=> TableProofs!Reachable
  BY TableOperators DEF Table!Reachable, TableProofs!Reachable
<1>4. Table!Counted <=> TableProofs!Counted
  BY <1>1, TableOperators DEF Table!Counted, TableProofs!Counted, Table!Used, TableProofs!Used
<1>5. Table!Findable <=> TableProofs!Findable
  BY TableOperators DEF Table!Findable, TableProofs!Findable
<1> QED
  BY <1>2, <1>3, <1>4, <1>5 DEF Table!TableInv, TableProofs!TableInv

LEMMA HeapOperators ==
  /\ \A n : Priority!Construct(n) = PriorityProofs!Construct(n)
  /\ \A n : Priority!Parent(n) = PriorityProofs!Parent(n)
  /\ \A d, n, i : Priority!Heapify(d, n, i) = PriorityProofs!Heapify(d, n, i)
  /\ \A d, n : Priority!BuildMaxHeap(d, n) = PriorityProofs!BuildMaxHeap(d, n)
  /\ \A d, n, i, e : Priority!Raise(d, n, i, e) = PriorityProofs!Raise(d, n, i, e)
<1>1. \A n : Priority!Construct(n) = PriorityProofs!Construct(n)
  BY DEF Priority!Construct, PriorityProofs!Construct, Priority!Slot, PriorityProofs!Slot
<1>2. \A n : Priority!Parent(n) = PriorityProofs!Parent(n)
  BY DEF Priority!Parent, PriorityProofs!Parent
<1>3. \A d, i, j : Priority!Swap(d, i, j) = PriorityProofs!Swap(d, i, j)
  BY DEF Priority!Swap, PriorityProofs!Swap
<1>4. \A d, n, i : Priority!Largest(d, n, i) = PriorityProofs!Largest(d, n, i)
  BY DEF Priority!Largest, PriorityProofs!Largest, Priority!Left, PriorityProofs!Left,
         Priority!Right, PriorityProofs!Right
<1>5. \A d, n, i : Priority!Heapify(d, n, i) = PriorityProofs!Heapify(d, n, i)
  <2> TAKE d, n, i
  <2> QED
    BY <1>3, <1>4 DEF Priority!Heapify, PriorityProofs!Heapify
<1>6. \A d, n : Priority!BuildMaxHeap(d, n) = PriorityProofs!BuildMaxHeap(d, n)
  <2> TAKE d, n
  <2> QED
    BY <1>5 DEF Priority!BuildMaxHeap, PriorityProofs!BuildMaxHeap
<1>7. \A d, n, i, e : Priority!Raise(d, n, i, e) = PriorityProofs!Raise(d, n, i, e)
  <2> TAKE d, n, i, e
  <2> QED
    BY DEF Priority!Raise, PriorityProofs!Raise, Priority!Parent, PriorityProofs!Parent,
           Priority!Swap, PriorityProofs!Swap
<1> QED
  BY <1>1, <1>2, <1>5, <1>6, <1>7

LEMMA PriorityInit == Priority!Init => PriorityProofs!Init
BY HeapOperators DEF Priority!Init, PriorityProofs!Init, Priority!FromKeys, PriorityProofs!FromKeys,
   Priority!Slot, PriorityProofs!Slot

LEMMA PriorityNext == Priority!Next => PriorityProofs!Next
<1>1. /\ \A q, e : Priority!Inserted(q, e) = PriorityProofs!Inserted(q, e)
      /\ \A q : Priority!Extracted(q) = PriorityProofs!Extracted(q)
      /\ \A t, op : Priority!Locks(t, op) <=> PriorityProofs!Locks(t, op)
      /\ \A t, x : Priority!Return(t, x) <=> PriorityProofs!Return(t, x)
  <2>1. \A q, e : Priority!Inserted(q, e) = PriorityProofs!Inserted(q, e)
    <3> TAKE q, e
    <3>1. Priority!Raise(q.data, q.count + 1, q.count, e)
            = PriorityProofs!Raise(q.data, q.count + 1, q.count, e)
      BY HeapOperators
    <3> QED
      BY ONLY <3>1 DEF Priority!Inserted, PriorityProofs!Inserted
  <2>2. \A q : Priority!Extracted(q) = PriorityProofs!Extracted(q)
    <3> TAKE q
    <3> DEFINE n == q.count - 1
               d == [[q.data EXCEPT ![0] = q.data[n]] EXCEPT ![n] = Null]
    <3>1. Priority!Heapify(d, n, 0) = PriorityProofs!Heapify(d, n, 0)
      BY HeapOperators
    <3> QED
      BY ONLY <3>1 DEF Priority!Extracted, PriorityProofs!Extracted
  <2> QED
    BY <2>1, <2>2 DEF Priority!Locks, PriorityProofs!Locks, Priority!Return, PriorityProofs!Return
<1>2. ASSUME NEW t \in Thread, NEW op \in {"enqueue", "dequeue", "empty"}, Priority!Call(t, op)
      PROVE  PriorityProofs!Call(t, op)
  BY <1>2 DEF Priority!Call, PriorityProofs!Call
<1>3. ASSUME NEW t \in Thread, NEW e \in Element, Priority!Enqueue(t, e)
      PROVE  PriorityProofs!Enqueue(t, e)
  BY <1>1, <1>3 DEF Priority!Enqueue, PriorityProofs!Enqueue
<1>4. ASSUME NEW t \in Thread, Priority!Dequeue(t) PROVE PriorityProofs!Dequeue(t)
  BY <1>1, <1>4 DEF Priority!Dequeue, PriorityProofs!Dequeue
<1>5. ASSUME NEW t \in Thread, Priority!Leaks(t) PROVE PriorityProofs!Leaks(t)
  BY <1>1, <1>5 DEF Priority!Leaks, PriorityProofs!Leaks
<1>6. ASSUME NEW t \in Thread, Priority!Empty(t) PROVE PriorityProofs!Empty(t)
  BY <1>1, <1>6 DEF Priority!Empty, PriorityProofs!Empty
<1>7. ASSUME Priority!Max PROVE PriorityProofs!Max
  BY <1>7 DEF Priority!Max, PriorityProofs!Max
<1>8. ASSUME Priority!ExtractMax PROVE PriorityProofs!ExtractMax
  BY <1>1, <1>8 DEF Priority!ExtractMax, PriorityProofs!ExtractMax
<1>12. ASSUME Priority!Refuses PROVE PriorityProofs!Refuses
  BY <1>12 DEF Priority!Refuses, PriorityProofs!Refuses
<1>9. ASSUME Priority!Renew PROVE PriorityProofs!Renew
  BY <1>9, HeapOperators DEF Priority!Renew, PriorityProofs!Renew
<1>10. ASSUME NEW e \in Element, Priority!Insert(e) PROVE PriorityProofs!Insert(e)
  BY <1>1, <1>10 DEF Priority!Insert, PriorityProofs!Insert
<1>11. ASSUME NEW e \in Element, NEW i \in 0..obj.count - 1, Priority!IncreaseKey(i, e)
       PROVE  PriorityProofs!IncreaseKey(i, e)
  BY <1>11, HeapOperators DEF Priority!IncreaseKey, PriorityProofs!IncreaseKey
<1> QED
  BY <1>2, <1>3, <1>4, <1>5, <1>6, <1>7, <1>8, <1>9, <1>10, <1>11, <1>12
  DEF Priority!Next, PriorityProofs!Next

LEMMA PriorityInvSame == Priority!TypeOK /\ Priority!HeapOrder <=> PriorityProofs!QueueInv
BY HeapOperators
   DEF PriorityProofs!QueueInv, Priority!TypeOK, PriorityProofs!TypeOK, Priority!HeapOrder,
       PriorityProofs!HeapOrder, Priority!Slot, PriorityProofs!Slot

-----------------------------------------------------------------------------
(* Every kind. *)

KindInv ==
  /\ kind = "hash_table" => TableProofs!TableInv
  /\ kind = "priority_queue" => PriorityProofs!QueueInv
  /\ kind = "queue" => QueueInv
  /\ kind = "double_queue" => DequeInv
  /\ kind = "stack" => Lifo!TypeOK
  /\ kind = "cache" => CacheInv
  /\ kind = "dict" => Chained!DictInv
  /\ kind = "array" => ArrayInv
  /\ kind = "set" => SetInv

LEMMA KindInit == Init => KindInv
<1> SUFFICES ASSUME Init PROVE KindInv
  OBVIOUS
<1>1. kind = "hash_table" => TableProofs!TableInv
  <2>1. TableProofs!Init => TableProofs!TableInv
    BY ONLY TableProofs!InitTableInv, SizeAssumption, NodesAssumption, ElementAssumption
  <2> QED
    BY <2>1, TableInit DEF Init
<1>2. kind = "priority_queue" => PriorityProofs!QueueInv
  <2>1. PriorityProofs!Init => PriorityProofs!QueueInv
    BY ONLY PriorityProofs!InitKeeps, SizeAssumption, NodesAssumption, ElementAssumption
  <2> QED
    BY <2>1, PriorityInit DEF Init
<1>3. kind = "queue" => QueueInv
  BY QueueInit DEF Init
<1>4. kind = "double_queue" => DequeInv
  BY DequeInit DEF Init
<1>5. kind = "stack" => Lifo!TypeOK
  BY StackInit DEF Init
<1>6. kind = "cache" => CacheInv
  BY CacheInit DEF Init
<1>7. kind = "dict" => Chained!DictInv
  BY DictInit DEF Init
<1>8. kind = "array" => ArrayInv
  BY ArrayInit DEF Init
<1>9. kind = "set" => SetInv
  BY ProperStarts DEF Init
<1> QED
  BY <1>1, <1>2, <1>3, <1>4, <1>5, <1>6, <1>7, <1>8, <1>9 DEF KindInv

LEMMA KindKeeps == KindInv /\ Next => KindInv'
<1> SUFFICES ASSUME KindInv, Next PROVE KindInv'
  OBVIOUS
<1>1. kind' = kind
  BY DEF Next
<1>2. ASSUME kind = "hash_table" PROVE TableProofs!TableInv'
  <2>1. TableProofs!TableInv /\ TableProofs!Next
    BY <1>2, TableNext DEF KindInv, Next
  <2>2. TableProofs!TableInv /\ [TableProofs!Next]_(TableProofs!vars) => TableProofs!TableInv'
    BY ONLY TableProofs!NextTableInv, SizeAssumption, NodesAssumption, ElementAssumption
  <2> QED
    BY <2>1, <2>2
<1>3. ASSUME kind = "priority_queue" PROVE PriorityProofs!QueueInv'
  <2>1. PriorityProofs!QueueInv /\ PriorityProofs!Next
    BY <1>3, PriorityNext DEF KindInv, Next
  <2>2. PriorityProofs!QueueInv /\ [PriorityProofs!Next]_(PriorityProofs!vars)
          => PriorityProofs!QueueInv'
    BY ONLY PriorityProofs!NextKeeps, SizeAssumption, NodesAssumption, ElementAssumption
  <2> QED
    BY <2>1, <2>2
<1>4. ASSUME kind = "queue" PROVE QueueInv'
  BY <1>4, QueueKeeps DEF KindInv, Next
<1>5. ASSUME kind = "double_queue" PROVE DequeInv'
  BY <1>5, DequeKeeps DEF KindInv, Next
<1>6. ASSUME kind = "stack" PROVE Lifo!TypeOK'
  BY <1>6, StackKeeps DEF KindInv, Next
<1>7. ASSUME kind = "cache" PROVE CacheInv'
  BY <1>7, CacheKeeps DEF KindInv, Next
<1>8. ASSUME kind = "dict" PROVE Chained!DictInv'
  BY <1>8, DictKeeps DEF KindInv, Next
<1>9. ASSUME kind = "array" PROVE ArrayInv'
  BY <1>9, ArrayKeeps DEF KindInv, Next
<1>10. ASSUME kind = "set" PROVE SetInv'
  BY <1>10, ProperKeeps DEF KindInv, Next
<1> QED
  BY <1>1, <1>2, <1>3, <1>4, <1>5, <1>6, <1>7, <1>8, <1>9, <1>10 DEF KindInv

(* The invariant reads the structure, what is kept beside it and the kind, *)
(* so a stutter keeps it too.                                              *)
LEMMA KindStutters == KindInv /\ UNCHANGED vars => KindInv'
<1> SUFFICES ASSUME KindInv, UNCHANGED vars PROVE KindInv'
  OBVIOUS
<1>1. kind' = kind /\ obj' = obj /\ aux' = aux /\ answer' = answer
  BY DEF vars
<1>2. TableProofs!TableInv => TableProofs!TableInv'
  <2>1. TableProofs!TableInv /\ [TableProofs!Next]_(TableProofs!vars) => TableProofs!TableInv'
    BY ONLY TableProofs!NextTableInv, SizeAssumption, NodesAssumption, ElementAssumption
  <2> QED
    BY <1>1, <2>1 DEF TableProofs!vars
<1>3. PriorityProofs!QueueInv => PriorityProofs!QueueInv'
  <2>1. PriorityProofs!QueueInv /\ [PriorityProofs!Next]_(PriorityProofs!vars)
          => PriorityProofs!QueueInv'
    BY ONLY PriorityProofs!NextKeeps, SizeAssumption, NodesAssumption, ElementAssumption
  <2> QED
    BY <1>1, <2>1 DEF PriorityProofs!vars
<1>4. (QueueInv => QueueInv') /\ (DequeInv => DequeInv')
  BY <1>1 DEF QueueInv, DequeInv
<1>5. Lifo!TypeOK => Lifo!TypeOK'
  BY <1>1 DEF Lifo!TypeOK
<1>6. CacheInv => CacheInv'
  BY <1>1 DEF CacheInv, Lru!TypeOK, Lru!Sound
<1>7. Chained!DictInv => Chained!DictInv'
  BY <1>1 DEF Chained!DictInv, Chained!TypeOK
<1>8. ArrayInv => ArrayInv'
  BY <1>1 DEF ArrayInv, Vector!TypeOK, Vector!HasRoom
<1>9. SetInv => SetInv'
  BY <1>1 DEF SetInv, Unique!TypeOK
<1> QED
  BY <1>1, <1>2, <1>3, <1>4, <1>5, <1>6, <1>7, <1>8, <1>9 DEF KindInv

(* What each kind's invariant says holds in every state: of the hash table *)
(* and the dictionary (hash_table.c, dict.c), of the binary heap           *)
(* (priority_queue.c), of the linked lists (queue.c, double_queue.c), of   *)
(* the arrays (stack.c, cache.c, array.c, set.c).                          *)
THEOREM KindInvariant == Spec => []KindInv
<1>1. KindInv /\ [Next]_vars => KindInv'
  BY KindKeeps, KindStutters
<1> QED
  BY <1>1, KindInit, PTL DEF Spec

LEMMA TableSound == TableProofs!TableInv => Table!TypeOK /\ Table!TableInv /\ Table!Findable
<1> SUFFICES ASSUME TableProofs!TableInv PROVE Table!TypeOK /\ Table!TableInv /\ Table!Findable
  OBVIOUS
<1>1. Table!TableInv /\ Table!TypeOK
  BY TableInvSame DEF Table!TableInv
<1>2. TableProofs!Findable
  BY ONLY TableProofs!TableInv, TableProofs!InvFinds, SizeAssumption, NodesAssumption,
          ElementAssumption
<1> QED
  BY <1>1, <1>2, TableInvSame

(* Every container keeps its type: the counts stay within the sizes, the   *)
(* links lead to nodes or to nothing, the chains hold elements, whatever   *)
(* the callers do with it.                                                 *)
THEOREM TypeCorrect == Spec => []TypeOK
<1>1. KindInv => TypeOK
  <2> SUFFICES ASSUME KindInv PROVE TypeOK
    OBVIOUS
  <2>1. kind = "hash_table" => Table!TypeOK
    BY TableSound DEF KindInv
  <2>2. kind = "priority_queue" => Priority!TypeOK
    BY PriorityInvSame DEF KindInv
  <2>3. /\ kind = "queue" => Fifo!TypeOK
        /\ kind = "double_queue" => Deque!TypeOK
    BY QueueLinked, DequeLinked DEF KindInv
  <2>4. /\ kind = "stack" => Lifo!TypeOK
        /\ kind = "set" => Unique!TypeOK
    BY SetTyped DEF KindInv
  <2>5. /\ kind = "cache" => Lru!TypeOK
        /\ kind = "dict" => Chained!TypeOK
        /\ kind = "array" => Vector!TypeOK
    BY DEF KindInv, CacheInv, ArrayInv, Chained!DictInv
  <2> QED
    BY <2>1, <2>2, <2>3, <2>4, <2>5 DEF TypeOK
<1> QED
  BY <1>1, KindInvariant, PTL

(* Whatever was inserted, replaced and removed before, a search in a hash  *)
(* table finds the key of every element stored, behind tombstones too      *)
(* (hash_table_search), and in a dictionary each element is in the chain   *)
(* its key hashes to, once, the count is right and nothing that was        *)
(* released can be found (dict_add, dict_pop).                             *)
THEOREM AlwaysFound == Spec => []KeysFound
<1>1. KindInv => KeysFound
  BY TableSound DEF KindInv, KeysFound
<1> QED
  BY <1>1, KindInvariant, PTL

(* In a priority queue no entry ranks above the one over it, and the       *)
(* entries fill the array without a gap, with calls of all threads between *)
(* one another (priority_queue_heapify, priority_queue_increase_key).      *)
THEOREM AlwaysHeap == Spec => []HeapOrder
<1>1. KindInv => HeapOrder
  BY PriorityInvSame DEF KindInv, HeapOrder
<1> QED
  BY <1>1, KindInvariant, PTL

(* In a queue and in a double queue the links lead from the front to the   *)
(* rear, and back in the double queue, through as many nodes as are        *)
(* counted, none of which was released (queue_dequeue,                     *)
(* double_queue_front_remove, double_queue_rear_remove).                   *)
THEOREM AlwaysLinked == Spec => []Linked
<1>1. KindInv => Linked
  BY QueueLinked, DequeLinked DEF KindInv, Linked
<1> QED
  BY <1>1, KindInvariant, PTL

(* A cache holds one element for each key, none that was released by an    *)
(* eviction, a replacement or a map (cache_insert, cache_map).             *)
THEOREM AlwaysSound == Spec => []Sound
<1>1. KindInv => Sound
  BY DEF KindInv, CacheInv, Sound
<1> QED
  BY <1>1, KindInvariant, PTL

(* Each addition to an array has a place to go, after it grew and after    *)
(* anything was removed, and what is counted are elements (array_add).     *)
THEOREM AlwaysRoom == Spec => []HasRoom
<1>1. KindInv => HasRoom
  BY DEF KindInv, ArrayInv, HasRoom
<1> QED
  BY <1>1, KindInvariant, PTL

(* A set whose function returns 0 for equal elements, and for no others,   *)
(* has no two equal ones and unpacks to what it was unless it is empty,    *)
(* and its union, symmetric difference and intersection with another set   *)
(* are those of sets, with the first set's of two equal elements           *)
(* (set_union, set_difference, set_intersection, which fill a new set in   *)
(* loops); with two empty sets, or with two functions, they fail.          *)
THEOREM AlwaysSetLaws == Spec => []SetLaws
<1>1. KindInv => SetLaws
  BY SetLawsHold DEF KindInv, SetLaws
<1> QED
  BY <1>1, KindInvariant, PTL

-----------------------------------------------------------------------------
(* Refinements. *)

(* The callers of an array see a sequence with signed indices, in every    *)
(* step of every behaviour: array_add, array_index, array_set,             *)
(* array_remove, array_slice, array_sort and array_map answer with the     *)
(* element of the index asked for, and refuse only indices no element has. *)
(* Excepted by name are the refusal of -count and the slice that ends      *)
(* behind the last element, Differs of Array.                              *)
THEOREM ArrayRefines == Spec => ArrayImplements
<1> DEFINE Step == kind = "array" /\ obj'.elements # Vector!Unset =>
                     Vector!Abs!ArrayNext \/ Vector!Differs
<1>1. KindInv /\ [Next]_vars => [Step]_<<obj, answer>>
  <2> SUFFICES ASSUME KindInv, Next, kind = "array", obj'.elements # Vector!Unset
               PROVE  Vector!Abs!ArrayNext \/ Vector!Differs
    BY DEF vars
  <2> QED
    BY ArrayStep DEF KindInv, Next
<1> QED
  BY <1>1, KindInvariant, PTL DEF Spec, ArrayImplements

(* A cache has one element for each key, what was used last is in front,   *)
(* and an insertion without room drops what was used least recently, in    *)
(* every step of every behaviour: cache_find, cache_insert, cache_remove.  *)
THEOREM LruRefines == Spec => LruImplements
<1> DEFINE Step == kind = "cache" => Lru!Abs!LruNext
<1>1. KindInv /\ [Next]_vars => [Step]_<<obj, answer>>
  <2> SUFFICES ASSUME KindInv, Next, kind = "cache" PROVE Lru!Abs!LruNext
    BY DEF vars
  <2> QED
    BY CacheStep DEF KindInv, Next
<1> QED
  BY <1>1, KindInvariant, PTL DEF Spec, LruImplements

(* Queues are used in the order first in, first out, double queues from    *)
(* both ends, and stacks, by a single thread, in the order last in, first  *)
(* out: each step of every behaviour is one of the abstract sequence, or   *)
(* changes neither the structure nor the answer: queue_enqueue,            *)
(* double_queue_front_add, stack_push and their opposites.                 *)
THEOREM SequenceRefines == ASSUME Alone PROVE Spec => SequenceImplements
<1> DEFINE More == /\ kind = "queue" => Filled(obj)
                   /\ kind = "stack" => LifoInv
           Step == /\ kind = "queue" => Fifo!Abs!FifoNext
                   /\ kind = "double_queue" => Deque!Abs!DequeNext
                   /\ kind = "stack" => Lifo!Abs!LifoNext
<1>1. Init => More
  <2>1. Fifo!Init => Filled(obj)
    BY FifoIs, EmptyFilled DEF Fifo!Init
  <2> QED
    BY <2>1, StackStarts DEF Init
<1>2. KindInv /\ More /\ [Next]_vars => More' /\ [Step]_<<obj, answer>>
  <2> SUFFICES ASSUME KindInv, More, [Next]_vars PROVE More' /\ [Step]_<<obj, answer>>
    OBVIOUS
  <2>1. ASSUME UNCHANGED vars PROVE More' /\ [Step]_<<obj, answer>>
    BY <2>1 DEF vars, Filled, LifoInv, Lifo!TypeOK
  <2>2. ASSUME Next, kind = "queue" PROVE More' /\ [Step]_<<obj, answer>>
    <3>1. QueueInv /\ Filled(obj) /\ Fifo!Next /\ kind' = "queue"
      BY <2>2 DEF KindInv, Next
    <3>2. Fifo!Abs!FifoNext /\ Filled(obj')
      BY <3>1, QueueStep
    <3> QED
      BY <2>2, <3>1, <3>2 DEF Filled
  <2>3. ASSUME Next, kind = "double_queue" PROVE More' /\ [Step]_<<obj, answer>>
    <3>1. DequeInv /\ Deque!Next /\ kind' = "double_queue"
      BY <2>3 DEF KindInv, Next
    <3>2. Deque!Abs!DequeNext
      BY <3>1, DequeStep
    <3> QED
      BY <2>3, <3>1, <3>2
  <2>4. ASSUME Next, kind = "stack" PROVE More' /\ [Step]_<<obj, answer>>
    <3>1. Alone /\ LifoInv /\ Lifo!Next /\ kind' = "stack"
      BY <2>4 DEF Next
    <3>2. LifoInv' /\ (Lifo!Abs!LifoNext \/ UNCHANGED <<obj, answer>>)
      BY <3>1, StackStep
    <3> QED
      BY <2>4, <3>1, <3>2
  <2>5. ASSUME Next, kind \notin {"queue", "double_queue", "stack"}
        PROVE  More' /\ [Step]_<<obj, answer>>
    <3>1. kind' = kind
      BY <2>5 DEF Next
    <3> QED
      BY <2>5, <3>1
  <2> QED
    BY <2>1, <2>2, <2>3, <2>4, <2>5
<1> HIDE DEF More
<1> QED
  BY <1>1, <1>2, KindInvariant, PTL DEF Spec, SequenceImplements

-----------------------------------------------------------------------------
(* The priority queue: its own module's refinement, seen from here. *)

LEMMA SumsSame == \A f : PriorityProofs!Abs!SumFunction(f) = Priority!Abs!SumFunction(f)
BY DEF PriorityProofs!Abs!SumFunction, PriorityProofs!Abs!SumFunctionOnSet,
   PriorityProofs!Abs!FoldFunctionOnSet, PriorityProofs!Abs!MapThenFoldSet,
   Priority!Abs!SumFunction, Priority!Abs!SumFunctionOnSet,
   Priority!Abs!FoldFunctionOnSet, Priority!Abs!MapThenFoldSet

LEMMA PriorityAbsSame == PriorityProofs!Abs!Next => Priority!Abs!Next
<1>1. PriorityProofs!Bag = Priority!Bag /\ PriorityProofs!Bag' = Priority!Bag'
  BY DEF PriorityProofs!Bag, PriorityProofs!InUse, PriorityProofs!Cardinality,
         Priority!Bag, Priority!InUse, Priority!Cardinality
<1>2. PriorityProofs!Abs!EmptyBag = Priority!Abs!EmptyBag
  BY DEF PriorityProofs!Abs!EmptyBag, Priority!Abs!EmptyBag,
         PriorityProofs!Abs!SetToBag, Priority!Abs!SetToBag
<1>3. PriorityProofs!Abs!Highest = Priority!Abs!Highest
  BY <1>1 DEF PriorityProofs!Abs!Highest, Priority!Abs!Highest,
              PriorityProofs!Abs!BagToSet, Priority!Abs!BagToSet
<1>4. ASSUME NEW e, PriorityProofs!Abs!Enqueue(e) PROVE Priority!Abs!Enqueue(e)
  BY <1>1, <1>4, SumsSame DEF PriorityProofs!Abs!Enqueue, Priority!Abs!Enqueue,
     PriorityProofs!Abs!One, Priority!Abs!One,
     PriorityProofs!Abs!SetToBag, Priority!Abs!SetToBag,
     PriorityProofs!Abs!\oplus, Priority!Abs!\oplus
<1>5. ASSUME NEW e, PriorityProofs!Abs!Increase(e) PROVE Priority!Abs!Increase(e)
  BY <1>1, <1>5 DEF PriorityProofs!Abs!Increase, Priority!Abs!Increase,
     PriorityProofs!Abs!One, Priority!Abs!One,
     PriorityProofs!Abs!SetToBag, Priority!Abs!SetToBag,
     PriorityProofs!Abs!BagToSet, Priority!Abs!BagToSet,
     PriorityProofs!Abs!\oplus, Priority!Abs!\oplus,
     PriorityProofs!Abs!\ominus, Priority!Abs!\ominus
<1>6. ASSUME PriorityProofs!Abs!Dequeue PROVE Priority!Abs!Dequeue
  BY <1>1, <1>3, <1>6 DEF PriorityProofs!Abs!Dequeue, Priority!Abs!Dequeue,
     PriorityProofs!Abs!One, Priority!Abs!One,
     PriorityProofs!Abs!SetToBag, Priority!Abs!SetToBag,
     PriorityProofs!Abs!\ominus, Priority!Abs!\ominus
<1>7. ASSUME PriorityProofs!Abs!Max PROVE Priority!Abs!Max
  BY <1>1, <1>3, <1>7 DEF PriorityProofs!Abs!Max, Priority!Abs!Max
<1>8. ASSUME PriorityProofs!Abs!Fails PROVE Priority!Abs!Fails
  BY <1>1, <1>2, <1>8, SumsSame DEF PriorityProofs!Abs!Fails, Priority!Abs!Fails,
     PriorityProofs!Abs!BagToSet, Priority!Abs!BagToSet
<1>9. ASSUME PriorityProofs!Abs!Empty PROVE Priority!Abs!Empty
  BY <1>1, <1>2, <1>9 DEF PriorityProofs!Abs!Empty, Priority!Abs!Empty
<1>10. ASSUME PriorityProofs!Abs!Renew PROVE Priority!Abs!Renew
  BY <1>1, <1>2, <1>10 DEF PriorityProofs!Abs!Renew, Priority!Abs!Renew
<1> QED
  BY <1>4, <1>5, <1>6, <1>7, <1>8, <1>9, <1>10 DEF PriorityProofs!Abs!Next, Priority!Abs!Next

(* A priority queue is a bag that gives up one of those that rank highest, *)
(* in every step of every behaviour, whoever calls it with the mutex or    *)
(* without: priority_queue_enqueue, _dequeue, _insert, _extract_max and    *)
(* _increase_key.                                                          *)
THEOREM PriorityRefines == Spec => PriorityImplements
<1> DEFINE Step == kind = "priority_queue" => Priority!Abs!Next
<1>1. KindInv /\ [Next]_vars => [Step]_<<obj, answer>>
  <2> SUFFICES ASSUME KindInv, Next, kind = "priority_queue"
               PROVE  Priority!Abs!Next \/ UNCHANGED <<obj, answer>>
    BY DEF vars
  <2>1. PriorityProofs!Ordered(obj)
    <3>1. PriorityProofs!QueueInv => PriorityProofs!Ordered(obj)
      BY ONLY PriorityProofs!QueueInvIs, SizeAssumption, NodesAssumption, ElementAssumption
    <3> QED
      BY <3>1 DEF KindInv
  <2>2. PriorityProofs!Next
    BY PriorityNext DEF Next
  <2>3. PriorityProofs!Ordered(obj) /\ PriorityProofs!Next
          => PriorityProofs!Abs!Next \/ UNCHANGED <<obj, answer>>
    BY ONLY PriorityProofs!QueueStep, SizeAssumption, NodesAssumption, ElementAssumption
  <2> QED
    BY <2>1, <2>2, <2>3, PriorityAbsSame
<1> QED
  BY <1>1, KindInvariant, PTL DEF Spec, PriorityImplements

-----------------------------------------------------------------------------
(* Packing and unpacking, all kinds together. *)

(* Hash table: its own module's result, seen from here. *)
LEMMA TableRoundTripSame == Table!RoundTrip <=> TableProofs!RoundTrip
<1>1. \A s : Table!Flat(s) = TableProofs!Flat(s)
  BY DEF Table!Flat, TableProofs!Flat, Table!Through, TableProofs!Through
<1>2. \A t : Table!Body(t) = TableProofs!Body(t)
  BY <1>1 DEF Table!Body, TableProofs!Body
<1>3. \A t : Table!Pack(t) = TableProofs!Pack(t)
  BY <1>2 DEF Table!Pack, TableProofs!Pack
<1>4. \A p : Table!Unpack(p) = TableProofs!Unpack(p)
  <2> TAKE p
  <2>1. Table!Construct(p.type) = TableProofs!Construct(p.type)
    BY TableOperators
  <2> QED
    BY ONLY <2>1 DEF Table!Unpack, TableProofs!Unpack, Table!Through, TableProofs!Through
<1> QED
  BY <1>3, <1>4 DEF Table!RoundTrip, TableProofs!RoundTrip

LEMMA TableInvPacks == TableProofs!TableInv => Table!RoundTrip
<1>1. TableProofs!TableInv => TableProofs!RoundTrip
  BY ONLY TableProofs!TablePacks, SizeAssumption, NodesAssumption, ElementAssumption
<1> QED
  BY <1>1, TableRoundTripSame

(* A container unpacks to what was packed: the elements under their keys,  *)
(* in the order of use for the cache, in the opposite order for the double *)
(* queue, with more room for the array (the _pack and _unpack functions of *)
(* src/data).  Of stacks this is said when one thread uses them.           *)
THEOREM AlwaysRoundTrip == Spec => []((kind = "stack" => Alone) => RoundTrip)
<1> DEFINE More == /\ kind = "queue" => Filled(obj)
                   /\ kind = "stack" /\ Alone => LifoInv /\ Bare
<1>1. Init => More
  <2>1. Fifo!Init => Filled(obj)
    BY FifoIs, EmptyFilled DEF Fifo!Init
  <2> QED
    BY <2>1, StackStarts, BareStarts DEF Init
<1>2. KindInv /\ More /\ [Next]_vars => More'
  <2> SUFFICES ASSUME KindInv, More, [Next]_vars PROVE More'
    OBVIOUS
  <2>1. ASSUME UNCHANGED vars PROVE More'
    BY <2>1 DEF vars, Filled, LifoInv, Lifo!TypeOK, Bare
  <2>2. ASSUME Next, kind = "queue" PROVE More'
    <3>1. QueueInv /\ Filled(obj) /\ Fifo!Next /\ kind' = "queue"
      BY <2>2 DEF KindInv, Next
    <3>2. Filled(obj')
      BY <3>1, QueueStep
    <3> QED
      BY <3>1, <3>2 DEF Filled
  <2>3. ASSUME Next, kind = "stack", Alone PROVE More'
    <3>1. Lifo!TypeOK /\ LifoInv /\ Bare /\ Lifo!Next /\ kind' = "stack"
      BY <2>3 DEF KindInv, Next
    <3>2. LifoInv'
      BY <2>3, <3>1, StackStep
    <3>3. Bare'
      BY <3>1, BareStays
    <3> QED
      BY <3>1, <3>2, <3>3
  <2>4. ASSUME Next, kind # "queue", kind = "stack" => ~Alone PROVE More'
    <3>1. kind' = kind
      BY <2>4 DEF Next
    <3> QED
      BY <2>4, <3>1
  <2> QED
    BY <2>1, <2>2, <2>3, <2>4
<1>3. KindInv /\ More => ((kind = "stack" => Alone) => RoundTrip)
  <2> SUFFICES ASSUME KindInv, More, kind = "stack" => Alone PROVE RoundTrip
    OBVIOUS
  <2>1. kind = "hash_table" => Table!RoundTrip
    BY TableInvPacks DEF KindInv
  <2>2. kind = "queue" => Fifo!RoundTrip
    BY QueuePacks DEF KindInv
  <2>3. kind = "double_queue" => Deque!RoundTripReverses
    BY DequePacks DEF KindInv
  <2>4. kind = "stack" => Lifo!RoundTrip
    BY StackPacks
  <2>5. kind = "cache" => Lru!RoundTrip
    BY CachePacks DEF KindInv
  <2>6. kind = "dict" => Chained!RoundTrip
    BY DictPacks DEF KindInv
  <2>7. kind = "array" => Vector!RoundTrip
    BY ArrayPacks DEF KindInv
  <2> QED
    BY <2>1, <2>2, <2>3, <2>4, <2>5, <2>6, <2>7 DEF RoundTrip
<1> HIDE DEF More
<1> QED
  BY <1>1, <1>2, <1>3, KindInvariant, PTL DEF Spec

=============================================================================
